---------------------------- MODULE MCSpanSearch ----------------------------
(***************************************************************************)
(* TLC instance of SpanSearch; the program goes on after the search.  One  *)
(* of the operations has a name that extends the other's.                  *)
(***************************************************************************)
EXTENDS SpanSearch

MCExtends == {<<"other", "bug">>}

MCDone == calls = <<>> /\ UNCHANGED searchVars
MCNext == Next \/ MCDone
MCSpec == Init /\ [][MCNext]_searchVars
=============================================================================
