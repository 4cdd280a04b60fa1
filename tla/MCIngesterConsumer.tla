------------------------- MODULE MCIngesterConsumer -------------------------
(***************************************************************************)
(* TLC instance of IngesterConsumer: one partition, assigned twice.        *)
(***************************************************************************)
EXTENDS IngesterConsumer

CONSTANT a

MCClaims == <<a, a>>
=============================================================================
