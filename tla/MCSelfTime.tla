----------------------------- MODULE MCSelfTime -----------------------------
(***************************************************************************)
(* TLC instance of SelfTime; the program goes on when the loop has ended.  *)
(***************************************************************************)
EXTENDS SelfTime

MCDone == done /\ UNCHANGED sweepVars
MCNext == Next \/ MCDone
MCSpec == Init /\ [][MCNext]_sweepVars
=============================================================================
