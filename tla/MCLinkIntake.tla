--------------------------- MODULE MCLinkIntake ---------------------------
(* Values for the constants of LinkIntake in MCLinkIntake.cfg.               *)
EXTENDS LinkIntake

\* An item, a file and a page; the file is on the host of the page.
MCHostOf == [u \in Urls |-> IF u = "item" THEN "archive.org" ELSE "example.org"]
===========================================================================
