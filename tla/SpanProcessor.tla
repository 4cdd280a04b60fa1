--------------------------- MODULE SpanProcessor ---------------------------
(***************************************************************************)
(* The collector from PostSpans to the storage                             *)
(* (src/jaeger/cmd/collector/app/span_processor.go, grpc_handler.go) on    *)
(* top of its queue, and the agents' reporters that call it                *)
(* (src/jaeger/cmd/agent/app/reporter/grpc/reporter.go).                   *)
(*                                                                         *)
(* A call whose connection breaks is made again by the retry interceptor   *)
(* (builder.go:91), while the handler of the first attempt may be running  *)
(* still: the attempts of a call are handlers, and producers of the queue. *)
(* What is queued is a new queueItem on each attempt.                      *)
(***************************************************************************)
EXTENDS BoundedQueue

CONSTANTS
  Calls,        \* calls of send, one per batch
  Batch,        \* call -> its spans, a sequence
  MaxAttempts,  \* the agent's MaxRetry
  Rejected,     \* the spans filterSpan rejects
  NoProcess     \* the spans without a process, in a batch without one

Attempts == 1..MaxAttempts
SpansOf(k) == {Batch[k][i] : i \in DOMAIN Batch[k]}

ASSUME AttemptsAssumption == MaxAttempts \in Nat \ {0}
ASSUME HandlersAssumption == Producers = Calls \X Attempts /\ HasHandler
\* Spans are objects: none is in two places of the batches.
ASSUME SpansAssumption ==
  /\ \A k \in Calls : Len(Batch[k]) \in Nat /\ DOMAIN Batch[k] = 1..Len(Batch[k])
  /\ \A k, l \in Calls : \A i \in DOMAIN Batch[k], j \in DOMAIN Batch[l] :
       Batch[k][i] = Batch[l][j] => k = l /\ i = j
\* A queueItem is made for a span on every attempt.
ASSUME QueueItemsAssumption == Items = (UNION {SpansOf(k) : k \in Calls}) \X Attempts

VARIABLES
  reportBusy,   \* an option of the processor
  attempt,      \* call -> the attempts made, 0 before the call
  answer,       \* what send returned: "none", "ok", "error"
  at,           \* handler -> the index of the next span of its batch
  result,       \* handler -> "none", "running", "ok", "busy"
  hung          \* WriteSpan does not return any more

callVars == <<attempt, answer>>
handlerVars == <<at, result>>
collectorVars == <<reportBusy, callVars, handlerVars, hung>>

CollectorInit ==
  /\ Init
  /\ reportBusy \in BOOLEAN
  /\ attempt = [k \in Calls |-> 0] /\ answer = [k \in Calls |-> "none"]
  /\ at = [p \in Producers |-> 1] /\ result = [p \in Producers |-> "none"]
  /\ hung = FALSE
-----------------------------------------------------------------------------
(***************************************************************************)
(* The agent: send, and the interceptor around PostSpans.                  *)
(***************************************************************************)
CallCollector(k) ==
  /\ attempt[k] = 0
  /\ attempt' = [attempt EXCEPT ![k] = 1]
  /\ UNCHANGED <<qVars, reportBusy, answer, handlerVars, hung>>

\* The code of a broken connection is one the interceptor tries again.
ConnectionFails(k) ==
  /\ attempt[k] > 0 /\ answer[k] = "none"
  /\ IF attempt[k] < MaxAttempts
       THEN attempt' = [attempt EXCEPT ![k] = @ + 1] /\ UNCHANGED answer
       ELSE answer' = [answer EXCEPT ![k] = "error"] /\ UNCHANGED attempt
  /\ UNCHANGED <<qVars, reportBusy, handlerVars, hung>>

\* The code of a busy server is not.
Answered(k) ==
  /\ answer[k] = "none" /\ attempt[k] > 0
  /\ result[<<k, attempt[k]>>] \in {"ok", "busy"}
  /\ answer' = [answer EXCEPT ![k] = IF result[<<k, attempt[k]>>] = "ok" THEN "ok" ELSE "error"]
  /\ UNCHANGED <<qVars, reportBusy, attempt, handlerVars, hung>>
-----------------------------------------------------------------------------
(***************************************************************************)
(* PostSpans and ProcessSpans.                                             *)
(***************************************************************************)
\* A request arrives, perhaps when its client has given it up.
Arrive(p) ==
  /\ Alive /\ result[p] = "none" /\ p[2] <= attempt[p[1]]
  /\ result' = [result EXCEPT ![p] = "running"]
  /\ UNCHANGED <<qVars, reportBusy, callVars, at, hung>>

SpanAt(p, i) == Batch[p[1]][i]
Done(p) == at[p] > Len(Batch[p[1]])
\* Produce returned false for the last span.
Refused(p) == at[p] > 1 /\ <<SpanAt(p, at[p] - 1), p[2]>> \in dropped

\* Variant: the answer is looked at after the loop.
IsBusyAfterLoop(p) == reportBusy /\ Refused(p) /\ Done(p)
IsBusy(p) == reportBusy /\ Refused(p)

\* enqueueSpan is called with the next span.  One that the filter rejects counts as
\* taken.
EnqueueSpan(p) ==
  /\ Alive /\ result[p] = "running" /\ ppc[p] = "idle"
  /\ ~Done(p) /\ ~IsBusy(p)
  /\ at' = [at EXCEPT ![p] = @ + 1]
  /\ \/ SpanAt(p, at[p]) \in Rejected /\ UNCHANGED qVars
     \/ /\ SpanAt(p, at[p]) \notin Rejected
        /\ LoadStopped(p) /\ pitem'[p] = <<SpanAt(p, at[p]), p[2]>>
  /\ UNCHANGED <<reportBusy, callVars, result, hung>>

ProcessSpansReturns(p) ==
  /\ Alive /\ result[p] = "running" /\ ppc[p] = "idle"
  /\ Done(p) \/ IsBusy(p)
  /\ result' = [result EXCEPT ![p] = IF IsBusy(p) THEN "busy" ELSE "ok"]
  /\ UNCHANGED <<qVars, reportBusy, callVars, at, hung>>

ProduceSteps(p) ==
  /\ Refuse(p) \/ Send(p) \/ SendOnClosed(p) \/ Overflow(p) \/ CountUp(p)
  /\ UNCHANGED collectorVars
-----------------------------------------------------------------------------
(***************************************************************************)
(* The workers and the storage.                                            *)
(***************************************************************************)
\* saveSpan.  An error of WriteSpan is logged, and the span is done with all the same;
\* one without a process does not get as far.
SaveSpan(c) ==
  /\ citem[c] # NoItem /\ citem[c][1] \notin NoProcess => ~hung
  /\ Consume(c)
  /\ UNCHANGED collectorVars

StorageHangs ==
  /\ ~hung /\ hung' = TRUE
  /\ UNCHANGED <<qVars, reportBusy, callVars, handlerVars>>

Worker(c) ==
  \/ SaveSpan(c)
  \/ (Receive(c) \/ CountDown(c) \/ ConsumerExits(c)) /\ UNCHANGED collectorVars
StopSteps == (CloseStopCh \/ WaitForConsumers \/ CloseItems) /\ UNCHANGED collectorVars
Reporter == ReporterExits /\ UNCHANGED collectorVars
-----------------------------------------------------------------------------
Handler(p) == EnqueueSpan(p) \/ ProcessSpansReturns(p) \/ ProduceSteps(p)

CollectorNext ==
  \/ \E k \in Calls : CallCollector(k) \/ ConnectionFails(k) \/ Answered(k)
  \/ \E p \in Producers : Arrive(p) \/ Handler(p)
  \/ \E c \in Consumers : Worker(c)
  \/ DisableProducer /\ UNCHANGED collectorVars
  \/ StopSteps \/ Reporter \/ StorageHangs

allVars == <<qVars, collectorVars>>

\* The goroutines run.  The network delivers a request and its answer unless the
\* connection fails, which a client notices when the collector has died.  Nothing
\* makes Stop be called, the connection fail or the storage hang.
Fairness ==
  /\ \A p \in Producers : WF_allVars(Handler(p))
  /\ \A c \in Consumers : WF_allVars(Worker(c))
  /\ WF_allVars(StopSteps) /\ WF_allVars(Reporter)
  /\ \A k \in Calls :
       /\ WF_allVars(attempt[k] > 0 /\ Arrive(<<k, attempt[k]>>))
       /\ WF_allVars(Answered(k))
       /\ WF_allVars(~Alive /\ ConnectionFails(k))

CollectorSpec == CollectorInit /\ [][CollectorNext]_allVars
FairCollectorSpec == CollectorSpec /\ Fairness
-----------------------------------------------------------------------------
(***************************************************************************)
(* Properties.                                                             *)
(***************************************************************************)
\* With reportBusy a client that was told "ok" can count on the collector having the
\* whole batch: of each span the filter let through, the item of one attempt is
\* queued, with a worker or done with, also when an earlier attempt was refused
\* half-way or still is under way (span_processor.go:135-140, grpc_handler.go:46-54).
\* Without it a span may have been dropped, and the client is not told.
AcknowledgedIsAccepted ==
  \A k \in Calls : answer[k] = "ok" =>
    \E n \in 1..attempt[k] : \A s \in SpansOf(k) \ Rejected :
      \/ <<s, n>> \in Queued \cup Held \cup consumed
      \/ ~reportBusy /\ <<s, n>> \in dropped

\* What was acknowledged is written in the end, or its write fails, unless the queue
\* was full or is stopped first (span_processor.go:112-147).
AcknowledgedIsSaved ==
  \A k \in Calls :
    answer[k] = "ok" ~>
      \/ spc # "running" \/ hung \/ ~Alive
      \/ \E n \in 1..attempt[k] : \A s \in SpansOf(k) \ Rejected :
           <<s, n>> \in consumed \/ (~reportBusy /\ <<s, n>> \in dropped)

\* A client always gets an answer, also when the queue is full or stopped and every
\* worker waits for a storage that hangs: Produce never blocks (bounded_queue.go:82-92).
AnsweredEvenIfHung == \A k \in Calls : attempt[k] > 0 ~> answer[k] # "none"

\* Stop returns, and the workers and the length reporter have stopped, unless the
\* process dies or a worker waits for the storage for ever (bounded_queue.go:94-101).
StopReturns == spc # "running" ~> (spc = "returned" /\ ~reporting) \/ ~Alive \/ hung
=============================================================================
