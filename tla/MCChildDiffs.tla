---------------------------- MODULE MCChildDiffs ----------------------------
(***************************************************************************)
(* TLC instance of ChildDiffs: trees of four shapes, with every choice of  *)
(* two names for the callees and two instants for those without callees.   *)
(***************************************************************************)
EXTENDS ChildDiffs

MCShapes == {<<0, 1, 1>>, <<0, 1, 2, 2>>, <<0, 1, 1, 2, 3, 3>>, <<0, 1, 2, 2, 3, 4, 4>>}

MCLeaves(shape) == DOMAIN shape \ {shape[s] : s \in DOMAIN shape}

MCTraces ==
  UNION {
    {[s \in DOMAIN shape |->
        [parent |-> shape[s],
         name |-> IF s = 1 THEN 0 ELSE names[s],
         start |-> IF s \in MCLeaves(shape) THEN starts[s] ELSE 1]] :
       names \in [2..Len(shape) -> 1..2], starts \in [MCLeaves(shape) -> 1..2]} :
    shape \in MCShapes}

MCDone == (pass = "done" \/ raised # "") /\ UNCHANGED diffVars
MCNext == Next \/ MCDone
MCSpec == Init /\ [][MCNext]_diffVars
=============================================================================
