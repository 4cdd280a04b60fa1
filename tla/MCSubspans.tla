----------------------------- MODULE MCSubspans -----------------------------
(***************************************************************************)
(* TLC instance of Subspans; the program goes on when the replay is over.  *)
(***************************************************************************)
EXTENDS Subspans

MCPrograms == {<<"opA", "opA">>, <<"opA", "opB">>}

MCDone == phase = "done" /\ UNCHANGED subspanVars
MCNext == Next \/ MCDone
MCSpec == Init /\ [][MCNext]_subspanVars
=============================================================================
