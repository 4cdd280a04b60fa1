-------------------------- MODULE MCSpanProcessor --------------------------
(***************************************************************************)
(* TLC instance of SpanProcessor: a batch of three spans, one of them      *)
(* rejected, sent up to twice.                                             *)
(***************************************************************************)
EXTENDS SpanProcessor, TLC

CONSTANTS k, r, s, t

MCBatch == k :> <<s, r, t>>
MCHandlers == {k} \X Attempts
MCItems == {r, s, t} \X Attempts

\* The client has its answer, and the collector has died, or its handlers are gone and
\* the queue is stopped or waits for a storage that hangs.
MCDone ==
  /\ answer[k] # "none"
  /\ \/ ~Alive
     \/ /\ \A p \in Producers : ppc[p] = "idle" /\ result[p] # "running"
        /\ hung \/ spc = "returned"
  /\ UNCHANGED allVars

MCSpec == CollectorInit /\ [][CollectorNext \/ MCDone]_allVars /\ Fairness
=============================================================================
