------------------------- MODULE MCIngesterPartition -------------------------
(***************************************************************************)
(* TLC instance of IngesterPartition.                                      *)
(***************************************************************************)
EXTENDS IngesterPartition
=============================================================================
