-------------------------- MODULE IngesterPartition --------------------------
(***************************************************************************)
(* The ingester at work on one partition of a Kafka topic                  *)
(* (src/jaeger/cmd/ingester/app): the message handler hands the messages   *)
(* to parallel workers, a worker retries a failed write, and the offset    *)
(* manager marks the offset up to which everything is done.                *)
(*                                                                         *)
(* The handler, each worker and the manager are goroutines; a step is what *)
(* one of them does between two channel or mutex operations.  The slice of *)
(* a ConcurrentList is a set here: no offset is inserted twice in one      *)
(* assignment, and only its least and its contiguous elements matter.      *)
(*                                                                         *)
(* Kafka and sarama-cluster are not under src: they hand out the messages  *)
(* that follow the committed offset, in order, for as long as the          *)
(* partition is assigned; keep the highest offset marked; and commit it    *)
(* now and then.  The process may die at any time.                         *)
(***************************************************************************)
EXTENDS Integers, FiniteSets

CONSTANTS
  NumMessages,    \* the messages in the partition have the offsets 1..NumMessages
  Workers,        \* the goroutines of the ParallelProcessor
  MaxAttempts,    \* maxAttempts of the retry decorator
  MaxAssignments  \* bound: how often the partition is assigned

ASSUME SizesAssumption ==
  NumMessages \in Nat /\ MaxAttempts \in Nat /\ MaxAssignments \in Nat

VARIABLES
  propagateError,  \* an option of the retry decorator
  phase,           \* of the assignment: "idle", "open", "closing", "stopping", "down"
  assignments,     \* how often the partition has been assigned
  next,            \* the next offset Kafka hands out
  message,         \* the message the handler holds, 0 for none
  processing,      \* msgProcessor # nil
  wpc, wmsg,       \* where each worker is, and its message
  failures,        \* of each worker's message, in this call of Process
  list, taken,     \* the ConcurrentList, and what setToHighestContiguous took of it
  mpc, offset,     \* where the manager is, and the offset it found
  lastCommitted,   \* lastCommittedOffset
  marked,          \* the highest offset marked since the assignment
  committed,       \* the offset Kafka keeps for the consumer group
  stored,          \* messages whose span has been written
  givenUp          \* messages whose retries were used up, the error not propagated

workerVars == <<wpc, wmsg, failures>>
managerVars == <<list, taken, mpc, offset, lastCommitted>>
handlerVars == <<phase, assignments, next, message, processing>>
kafkaVars == <<marked, committed>>
historyVars == <<stored, givenUp>>
partitionVars == <<propagateError, handlerVars, workerVars, managerVars, kafkaVars,
                   historyVars>>

Offsets == 1..NumMessages

Init ==
  /\ propagateError \in BOOLEAN
  /\ phase = "idle" /\ assignments = 0 /\ next = 1 /\ message = 0
  /\ processing = FALSE
  /\ wpc = [w \in Workers |-> "exited"] /\ wmsg = [w \in Workers |-> 0]
  /\ failures = [w \in Workers |-> 0]
  /\ list = {} /\ taken = {} /\ mpc = "exited" /\ offset = 0 /\ lastCommitted = 0
  /\ marked = 0 /\ committed = 0
  /\ stored = {} /\ givenUp = {}
-----------------------------------------------------------------------------
(***************************************************************************)
(* The handler, from the assignment of the partition to its end.           *)
(***************************************************************************)
Assign ==
  /\ phase = "idle" /\ assignments < MaxAssignments
  /\ phase' = "open"
  /\ assignments' = assignments + 1
  /\ next' = committed + 1
  /\ marked' = committed
  /\ UNCHANGED <<propagateError, message, processing, workerVars, managerVars,
                 committed, historyVars>>

\* A message; the first one of the assignment makes the processor, whose workers
\* and manager start.
Receive ==
  /\ phase = "open" /\ message = 0
  /\ next <= NumMessages
  /\ message' = next
  /\ next' = next + 1
  /\ \/ processing /\ UNCHANGED <<processing, workerVars, managerVars>>
     \/ /\ ~processing
        /\ processing' = TRUE
        /\ wpc' = [w \in Workers |-> "select"]
        /\ list' = {next - 1} /\ lastCommitted' = next - 1
        /\ mpc' = "select"
        /\ UNCHANGED <<wmsg, failures, taken, offset>>
  /\ UNCHANGED <<propagateError, phase, assignments, kafkaVars, historyVars>>

\* ParallelProcessor.Process blocks until a worker takes the message.
HandOver(w) ==
  /\ message # 0 /\ wpc[w] = "select"
  /\ wpc' = [wpc EXCEPT ![w] = "process"]
  /\ wmsg' = [wmsg EXCEPT ![w] = message]
  /\ failures' = [failures EXCEPT ![w] = 0]
  /\ message' = 0
  /\ UNCHANGED <<propagateError, phase, assignments, next, processing, managerVars,
                 kafkaVars, historyVars>>

\* The channel of messages is closed, or the handler is told to close the partition.
EndAssignment ==
  /\ phase = "open" /\ message = 0
  /\ assignments < MaxAssignments
  /\ phase' = IF processing THEN "closing" ELSE "idle"
  /\ UNCHANGED <<propagateError, assignments, next, message, processing, workerVars,
                 managerVars, kafkaVars, historyVars>>

\* ParallelProcessor.Close returns, and Manager.Close tells the manager to stop.
WorkersAreDone ==
  /\ phase = "closing"
  /\ \A w \in Workers : wpc[w] = "exited"
  /\ phase' = "stopping"
  /\ UNCHANGED <<propagateError, assignments, next, message, processing, workerVars,
                 managerVars, kafkaVars, historyVars>>
-----------------------------------------------------------------------------
(***************************************************************************)
(* A worker: the committing processor around the retry decorator.          *)
(***************************************************************************)
Write(w) ==
  /\ wpc[w] = "process"
  /\ stored' = stored \cup {wmsg[w]}
  /\ wpc' = [wpc EXCEPT ![w] = "insert"]
  /\ UNCHANGED <<propagateError, handlerVars, wmsg, failures, managerVars, kafkaVars,
                 givenUp>>

\* The span cannot be decoded or written; another attempt follows.
Fail(w) ==
  /\ wpc[w] = "process" /\ failures[w] < MaxAttempts
  /\ failures' = [failures EXCEPT ![w] = @ + 1]
  /\ UNCHANGED <<propagateError, handlerVars, wpc, wmsg, managerVars, kafkaVars,
                 historyVars>>

\* Variant: the error of the last attempt is not looked at.
GiveUpQuietly(w) ==
  /\ wpc[w] = "process" /\ failures[w] = MaxAttempts
  /\ wpc' = [wpc EXCEPT ![w] = "insert"]
  /\ givenUp' = givenUp \cup {wmsg[w]}
  /\ UNCHANGED <<propagateError, handlerVars, wmsg, failures, managerVars, kafkaVars,
                 stored>>

\* The last attempt fails: the error keeps the offset from being marked, or is
\* dropped.
GiveUp(w) ==
  /\ wpc[w] = "process" /\ failures[w] = MaxAttempts
  /\ wpc' = [wpc EXCEPT ![w] = IF propagateError THEN "select" ELSE "insert"]
  /\ givenUp' = IF propagateError THEN givenUp ELSE givenUp \cup {wmsg[w]}
  /\ UNCHANGED <<propagateError, handlerVars, wmsg, failures, managerVars, kafkaVars,
                 stored>>

Insert(w) ==
  /\ wpc[w] = "insert"
  /\ list' = list \cup {wmsg[w]}
  /\ wpc' = [wpc EXCEPT ![w] = "select"]
  /\ UNCHANGED <<propagateError, handlerVars, wmsg, failures, taken, mpc, offset,
                 lastCommitted, kafkaVars, historyVars>>

WorkerExits(w) ==
  /\ phase = "closing" /\ wpc[w] = "select"
  /\ wpc' = [wpc EXCEPT ![w] = "exited"]
  /\ UNCHANGED <<propagateError, handlerVars, wmsg, failures, managerVars, kafkaVars,
                 historyVars>>
-----------------------------------------------------------------------------
(***************************************************************************)
(* The offset manager.                                                     *)
(***************************************************************************)
\* Variant: the highest offset, whether or not one is missing below it.
HighestInserted(offsets) == CHOOSE h \in offsets : \A o \in offsets : o <= h

\* The highest offset that follows the least one without a gap.
HighestContiguous(offsets) ==
  CHOOSE h \in offsets :
    /\ h + 1 \notin offsets
    /\ \E least \in offsets :
         /\ \A o \in offsets : least <= o
         /\ least..h \subseteq offsets

TakeOffsets ==
  /\ mpc = "select"
  /\ taken' = list
  /\ list' = {}
  /\ mpc' = "compact"
  /\ UNCHANGED <<propagateError, handlerVars, workerVars, offset, lastCommitted,
                 kafkaVars, historyVars>>

\* Variant: what was inserted in the meantime is overwritten.
PutBackOverwrites ==
  LET h == HighestContiguous(taken)
  IN  /\ mpc = "compact"
      /\ list' = {o \in taken : o >= h}
      /\ taken' = {}
      /\ offset' = h
      /\ mpc' = IF h = lastCommitted THEN "select" ELSE "mark"
      /\ UNCHANGED <<propagateError, handlerVars, workerVars, lastCommitted, kafkaVars,
                     historyVars>>

PutBack ==
  LET h == HighestContiguous(taken)
  IN  /\ mpc = "compact"
      /\ list' = list \cup {o \in taken : o >= h}
      /\ taken' = {}
      /\ offset' = h
      /\ mpc' = IF h = lastCommitted THEN "select" ELSE "mark"
      /\ UNCHANGED <<propagateError, handlerVars, workerVars, lastCommitted, kafkaVars,
                     historyVars>>

\* Variant: lastCommittedOffset stays what it was.
MarkForgets ==
  /\ mpc = "mark"
  /\ \/ marked' = IF offset > marked THEN offset ELSE marked
     \/ phase # "open" /\ UNCHANGED marked
  /\ mpc' = "select"
  /\ UNCHANGED <<propagateError, handlerVars, workerVars, list, taken, offset,
                 lastCommitted, committed, historyVars>>

\* Once the partition is taken away the mark may be ignored.
Mark ==
  /\ mpc = "mark"
  /\ \/ marked' = IF offset > marked THEN offset ELSE marked
     \/ phase # "open" /\ UNCHANGED marked
  /\ lastCommitted' = offset
  /\ mpc' = "select"
  /\ UNCHANGED <<propagateError, handlerVars, workerVars, list, taken, offset, committed,
                 historyVars>>

\* Manager.Close returns; with it the handler's call of Close.
ManagerExits ==
  /\ phase = "stopping" /\ mpc = "select"
  /\ mpc' = "exited"
  /\ list' = {}
  /\ phase' = "idle"
  /\ processing' = FALSE
  /\ UNCHANGED <<propagateError, assignments, next, message, workerVars, taken, offset,
                 lastCommitted, kafkaVars, historyVars>>
-----------------------------------------------------------------------------
(***************************************************************************)
(* Kafka, and the process that dies.                                       *)
(***************************************************************************)
Commit ==
  /\ phase # "down"
  /\ committed # marked
  /\ committed' = marked
  /\ UNCHANGED <<propagateError, handlerVars, workerVars, managerVars, marked,
                 historyVars>>

Crash ==
  /\ phase \notin {"idle", "down"} /\ assignments < MaxAssignments
  /\ phase' = "down"
  /\ message' = 0 /\ processing' = FALSE
  /\ wpc' = [w \in Workers |-> "exited"]
  /\ mpc' = "exited" /\ list' = {} /\ taken' = {}
  /\ marked' = committed
  /\ UNCHANGED <<propagateError, assignments, next, wmsg, failures, offset, lastCommitted,
                 committed, historyVars>>

Restart ==
  /\ phase = "down"
  /\ phase' = "idle"
  /\ UNCHANGED <<propagateError, assignments, next, message, processing, workerVars,
                 managerVars, kafkaVars, historyVars>>
-----------------------------------------------------------------------------
Handler == Receive \/ WorkersAreDone \/ \E w \in Workers : HandOver(w)
Worker(w) == Write(w) \/ Fail(w) \/ GiveUp(w) \/ Insert(w) \/ WorkerExits(w)
Manager == TakeOffsets \/ PutBack \/ Mark \/ ManagerExits
Outside == Assign \/ EndAssignment \/ Commit \/ Crash \/ Restart

Next == Handler \/ Manager \/ Outside \/ \E w \in Workers : Worker(w)

\* The goroutines run, and Kafka hands a handler the messages of its partition; the
\* ticks of the manager and of the commits keep coming; a partition without an owner is
\* assigned again and a dead process restarted, as the detector's comment expects of its
\* surroundings (deadlock_detector.go:34-36).  Stopping the manager needs strong
\* fairness: its select may prefer the tick, but not for ever, because the tick waits
\* 100 ms.
Fairness ==
  /\ WF_partitionVars(Handler)
  /\ \A w \in Workers : WF_partitionVars(Worker(w))
  /\ WF_partitionVars(TakeOffsets \/ PutBack \/ Mark)
  /\ SF_partitionVars(ManagerExits)
  /\ WF_partitionVars(Commit)
  /\ WF_partitionVars(Assign)
  /\ WF_partitionVars(Restart)

Spec == Init /\ [][Next]_partitionVars
FairSpec == Spec /\ Fairness
-----------------------------------------------------------------------------
(***************************************************************************)
(* Properties.                                                             *)
(***************************************************************************)
\* What the ingester is done with.
DealtWith == stored \cup givenUp

\* The ingester consumes the partition as a log with at-least-once delivery: in
\* whatever order the workers finish, retry and insert, and wherever the process dies,
\* the committed offset moves only over messages that were stored or given up
\* (manager.go:34-37, 78-91; concurrent_list.go:43-63).
Log == INSTANCE AtLeastOnceLog WITH dealtWith <- DealtWith, position <- committed
ImplementsAtLeastOnce == Log!Spec

\* With error propagation no message is passed over that was not stored
\* (retry.go:116-123, committing_processor.go:45-51).
CommittedWereStored == propagateError => 1..committed \subseteq stored

\* Between two rounds the list begins with the offset that was marked last: it is
\* never empty, which getHighestContiguous could not bear, and nothing below that
\* offset is inserted late ("sets head to highestContiguous", concurrent_list.go:37).
HeadIsLastMarked ==
  mpc = "select" => lastCommitted \in list /\ \A o \in list : lastCommitted <= o

\* When errors are not propagated every message is committed in the end: none is
\* lost between the workers, the list and the manager, and those that were in flight
\* when the assignment ended or the process died are handed out again
\* (concurrent_list.go:43-63, processor_factory.go:108-115).
EverythingCommitted == ~propagateError => <>(committed = NumMessages)
=============================================================================
