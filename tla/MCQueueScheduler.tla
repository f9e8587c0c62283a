------------------------- MODULE MCQueueScheduler -------------------------
(* Values for the constants of QueueScheduler in the MCQueue*.cfg files.     *)
EXTENDS QueueScheduler

\* One beyond the range: the clamp brings it back, and DEFAULT is the other value.
MCPriorities == {HIGHEST + 1}
===========================================================================
