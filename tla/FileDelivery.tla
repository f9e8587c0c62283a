---------------------------- MODULE FileDelivery ----------------------------
(* What dlm_download_file promises the caller about the output path          *)
(* (dlm.h:57-60, download.c:14-15): the file appears there whole or not at   *)
(* all, and success is reported only with the file in place.                 *)

VARIABLES
  file,     \* the output path: absent, whole or broken
  busy,     \* a call is running
  reported  \* the last call has reported success

vars == <<file, busy, reported>>

Init == file = "absent" /\ ~busy /\ ~reported

Begin == ~busy /\ busy' /\ ~reported' /\ file' = file

\* The finished file takes the place of whatever was there.
Deliver == busy /\ file' = "whole" /\ UNCHANGED <<busy, reported>>

Succeed == busy /\ file = "whole" /\ ~busy' /\ reported' /\ file' = file

\* A call that fails, is cancelled or dies reports no success.
Fail == ~busy' /\ ~reported' /\ file' = file

Next == Begin \/ Deliver \/ Succeed \/ Fail

Spec == Init /\ [][Next]_vars
=============================================================================
