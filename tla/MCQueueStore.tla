--------------------------- MODULE MCQueueStore ---------------------------
(* Values for the constants of QueueStore in MCQueueStore.cfg.              *)
EXTENDS QueueStore

\* Two of the ten columns: an upgrade can be cut between them.
MCMigrations == <<"list", "autostart">>
===========================================================================
