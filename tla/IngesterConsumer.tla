-------------------------- MODULE IngesterConsumer --------------------------
(***************************************************************************)
(* The goroutines of the ingester's consumer and the lock they share       *)
(* (src/jaeger/cmd/ingester/app/consumer/consumer.go), with the deadlock   *)
(* detectors that watch them (deadlock_detector.go).                       *)
(*                                                                         *)
(* Kafka assigns partitions one claim after the other, and takes them back *)
(* at any time; both come from sarama-cluster, which is not under src.     *)
(* A claim has a message handler, an error handler and a monitor of its    *)
(* own.  The work on a message is a state the handler is in for a while:   *)
(* IngesterPartition has what happens there.                               *)
(***************************************************************************)
EXTENDS Integers, FiniteSets, Sequences

CONSTANT Claims   \* the partitions in the order they are assigned, a sequence

ASSUME ClaimsAssumption == Len(Claims) \in Nat /\ DOMAIN Claims = 1..Len(Claims)

VARIABLES
  checking,      \* the check interval is not 0
  delivered,     \* how many claims were received from Partitions()
  open,          \* claim -> its channels of messages and errors are open
  finished,      \* the internal consumer is closed
  lock,          \* the holder of partitionMapLock while it waits: "free", "main", "close"
  current,       \* partitionIDToState: partition -> claim, 0 for none
  wg,            \* claim -> the WaitGroup of its consumerState
  mainpc,        \* the main loop: "range", "lock", "wait", "spawn", "ended"
  hpc, epc,      \* where the message handler and the error handler of a claim are
  processor,     \* claim -> its msgProcessor exists
  monitor,       \* claim -> its monitor: "none", "running", "exited"
  consumed,      \* claim -> msgConsumed is not 0
  signal,        \* claim -> the channel closePartition is full
  allMonitor, allConsumed,  \* the same for all partitions together
  closepc,       \* Close: "none", "lock", "loop", "wait", "detector", "internal", "returned"
  toClose,       \* the claims Close has still to visit
  closing,       \* the claim it waits for
  panic          \* 0, or the claim whose monitor killed the process, or -1

claimVars == <<delivered, open, finished>>
detectorVars == <<monitor, consumed, signal, allMonitor, allConsumed>>
closeVars == <<closepc, toClose, closing>>
claimHandlerVars == <<hpc, epc, processor>>
consumerVars == <<checking, claimVars, lock, current, wg, mainpc, claimHandlerVars,
                  detectorVars, closeVars, panic>>

ClaimIds == DOMAIN Claims
Partitions == {Claims[c] : c \in ClaimIds}

ConsumerInit ==
  /\ checking \in BOOLEAN
  /\ delivered = 0 /\ open = [c \in ClaimIds |-> FALSE] /\ finished = FALSE
  /\ lock = "free"
  /\ current = [p \in Partitions |-> 0]
  /\ wg = [c \in ClaimIds |-> 0]
  /\ mainpc = "range"
  /\ hpc = [c \in ClaimIds |-> "none"] /\ epc = [c \in ClaimIds |-> "none"]
  /\ processor = [c \in ClaimIds |-> FALSE]
  /\ monitor = [c \in ClaimIds |-> "none"]
  /\ consumed = [c \in ClaimIds |-> FALSE] /\ signal = [c \in ClaimIds |-> FALSE]
  /\ allMonitor = (IF checking THEN "running" ELSE "none") /\ allConsumed = FALSE
  /\ closepc = "none" /\ toClose = {} /\ closing = 0
  /\ panic = 0

Alive == panic = 0
-----------------------------------------------------------------------------
(***************************************************************************)
(* Kafka.  A rebalance closes the partition consumers before it assigns    *)
(* the partitions again.                                                   *)
(***************************************************************************)
Deliver ==
  /\ Alive /\ mainpc = "range"
  /\ ~finished /\ delivered < Len(Claims)
  /\ \A c \in 1..delivered : Claims[c] = Claims[delivered + 1] => ~open[c]
  /\ delivered' = delivered + 1
  /\ open' = [open EXCEPT ![delivered + 1] = TRUE]
  /\ mainpc' = "lock"
  /\ UNCHANGED <<checking, finished, lock, current, wg, claimHandlerVars, detectorVars,
                 closeVars, panic>>

Revoke(c) ==
  /\ Alive /\ open[c]
  /\ open' = [open EXCEPT ![c] = FALSE]
  /\ UNCHANGED <<checking, delivered, finished, lock, current, wg, mainpc, claimHandlerVars,
                 detectorVars, closeVars, panic>>
-----------------------------------------------------------------------------
(***************************************************************************)
(* The main loop of Start.                                                 *)
(***************************************************************************)
Partition == Claims[delivered]

Register ==
  /\ current' = [current EXCEPT ![Partition] = delivered]
  /\ wg' = [wg EXCEPT ![delivered] = 2]
  /\ mainpc' = "spawn"

\* Variant: the handlers of the last assignment are not waited for.
MainLocksOnly ==
  /\ Alive /\ mainpc = "lock" /\ lock = "free"
  /\ Register /\ UNCHANGED lock
  /\ UNCHANGED <<checking, claimVars, claimHandlerVars, detectorVars, closeVars, panic>>

\* With an earlier claim on the partition the loop waits, and keeps the lock.
MainLocks ==
  /\ Alive /\ mainpc = "lock" /\ lock = "free"
  /\ \/ current[Partition] = 0 /\ Register /\ UNCHANGED lock
     \/ /\ current[Partition] # 0
        /\ lock' = "main" /\ mainpc' = "wait"
        /\ UNCHANGED <<current, wg>>
  /\ UNCHANGED <<checking, claimVars, claimHandlerVars, detectorVars, closeVars, panic>>

MainWaited ==
  /\ Alive /\ mainpc = "wait"
  /\ wg[current[Partition]] = 0
  /\ Register
  /\ lock' = "free"
  /\ UNCHANGED <<checking, claimVars, claimHandlerVars, detectorVars, closeVars, panic>>

Spawn ==
  /\ Alive /\ mainpc = "spawn"
  /\ hpc' = [hpc EXCEPT ![delivered] = "start"]
  /\ epc' = [epc EXCEPT ![delivered] = "start"]
  /\ mainpc' = "range"
  /\ UNCHANGED <<checking, claimVars, lock, current, wg, processor, detectorVars,
                 closeVars, panic>>

MainEnds ==
  /\ Alive /\ mainpc = "range" /\ finished
  /\ mainpc' = "ended"
  /\ UNCHANGED <<checking, claimVars, lock, current, wg, claimHandlerVars, detectorVars,
                 closeVars, panic>>
-----------------------------------------------------------------------------
(***************************************************************************)
(* handleMessages.  A claim waits on the WaitGroup that the map has for its *)
(* partition when it takes the lock: its own, because the entry is not     *)
(* replaced before the WaitGroup is at 0.                                  *)
(***************************************************************************)
HandlerMoves(c, from, to) ==
  /\ Alive /\ hpc[c] = from
  /\ hpc' = [hpc EXCEPT ![c] = to]
  /\ UNCHANGED <<checking, delivered, finished, lock, current, mainpc, epc, closeVars, panic>>

HandlerStarts(c) ==
  /\ HandlerMoves(c, "start", "loop")
  /\ lock = "free"
  /\ monitor' = [monitor EXCEPT ![c] = IF checking THEN "running" ELSE "none"]
  /\ UNCHANGED <<open, wg, processor, consumed, signal, allMonitor, allConsumed>>

TakeMessage(c) ==
  /\ HandlerMoves(c, "loop", "process")
  /\ open[c]
  /\ consumed' = [consumed EXCEPT ![c] = TRUE] /\ allConsumed' = TRUE
  /\ processor' = [processor EXCEPT ![c] = TRUE]
  /\ UNCHANGED <<open, wg, monitor, signal, allMonitor>>

\* A worker took the message.
Processed(c) ==
  /\ HandlerMoves(c, "process", "loop")
  /\ UNCHANGED <<open, wg, processor, detectorVars>>

\* The channel is closed, or the monitor found the partition inactive; then the
\* deferred calls, of which the last made is the first.
LeaveLoop(c) ==
  /\ \/ ~open[c] /\ UNCHANGED signal
     \/ signal[c] /\ signal' = [signal EXCEPT ![c] = FALSE]
  /\ HandlerMoves(c, "loop", IF processor[c] THEN "closing" ELSE "detector")
  /\ UNCHANGED <<open, wg, processor, monitor, consumed, allMonitor, allConsumed>>

CloseProcessor(c) ==
  /\ HandlerMoves(c, "closing", "detector")
  /\ UNCHANGED <<open, wg, processor, detectorVars>>

\* Variant: the monitor is left running.
MonitorForgotten(c) ==
  /\ HandlerMoves(c, "detector", "close")
  /\ UNCHANGED <<open, wg, processor, detectorVars>>

\* The monitor receives from done.
StopMonitor(c) ==
  /\ HandlerMoves(c, "detector", "close")
  /\ checking => monitor[c] = "running"
  /\ monitor' = [monitor EXCEPT ![c] = IF checking THEN "exited" ELSE @]
  /\ UNCHANGED <<open, wg, processor, consumed, signal, allMonitor, allConsumed>>

CloseClaim(c) ==
  /\ HandlerMoves(c, "close", "done")
  /\ open' = [open EXCEPT ![c] = FALSE]
  /\ UNCHANGED <<wg, processor, detectorVars>>

\* Variant: the lock is taken before the WaitGroup is told.
HandlerDoneLocked(c) ==
  /\ HandlerMoves(c, "done", "relock")
  /\ lock = "free"
  /\ wg' = [wg EXCEPT ![c] = @ - 1]
  /\ UNCHANGED <<open, processor, detectorVars>>

HandlerDone(c) ==
  /\ HandlerMoves(c, "done", "relock")
  /\ wg' = [wg EXCEPT ![c] = @ - 1]
  /\ UNCHANGED <<open, processor, detectorVars>>

\* The number of partitions held is updated.
HandlerEnds(c) ==
  /\ HandlerMoves(c, "relock", "exited")
  /\ lock = "free"
  /\ UNCHANGED <<open, wg, processor, detectorVars>>

\* handleErrors.
ErrorsMove(c, from, to) ==
  /\ Alive /\ epc[c] = from
  /\ epc' = [epc EXCEPT ![c] = to]
  /\ UNCHANGED <<checking, claimVars, lock, current, mainpc, hpc, processor, detectorVars,
                 closeVars, panic>>

ErrorsStart(c) == ErrorsMove(c, "start", "loop") /\ lock = "free" /\ UNCHANGED wg
ErrorsEnd(c) ==
  /\ ErrorsMove(c, "loop", "exited")
  /\ ~open[c]
  /\ wg' = [wg EXCEPT ![c] = @ - 1]
-----------------------------------------------------------------------------
(***************************************************************************)
(* The detectors.  An interval is long: when a ticker fires, the handler   *)
(* is where it has to wait for a message, for a worker or for the          *)
(* processor to close.                                                     *)
(***************************************************************************)
AtRest(c) ==
  \/ hpc[c] \in {"process", "closing"}
  \/ hpc[c] = "loop" /\ open[c] /\ ~signal[c]
  \/ hpc[c] \in {"relock", "exited"}

Tick(c) ==
  /\ Alive /\ monitor[c] = "running" /\ AtRest(c)
  /\ \/ consumed[c] /\ consumed' = [consumed EXCEPT ![c] = FALSE] /\ UNCHANGED <<signal, panic>>
     \/ /\ ~consumed[c] /\ ~signal[c]
        /\ signal' = [signal EXCEPT ![c] = TRUE]
        /\ UNCHANGED <<consumed, panic>>
     \/ ~consumed[c] /\ signal[c] /\ panic' = c /\ UNCHANGED <<consumed, signal>>
  /\ UNCHANGED <<checking, claimVars, lock, current, wg, mainpc, claimHandlerVars, monitor,
                 allMonitor, allConsumed, closeVars>>

TickAll ==
  /\ Alive /\ allMonitor = "running"
  /\ allConsumed' = FALSE
  /\ panic' = IF allConsumed THEN 0 ELSE -1
  /\ UNCHANGED <<checking, claimVars, lock, current, wg, mainpc, claimHandlerVars, monitor,
                 consumed, signal, allMonitor, closeVars>>
-----------------------------------------------------------------------------
(***************************************************************************)
(* Close.                                                                  *)
(***************************************************************************)
CloseMoves(from, to) ==
  /\ Alive /\ closepc = from
  /\ closepc' = to
  /\ UNCHANGED <<checking, delivered, current, wg, mainpc, claimHandlerVars, panic>>

CallClose ==
  /\ CloseMoves("none", "lock")
  /\ UNCHANGED <<open, finished, lock, detectorVars, toClose, closing>>

CloseLocks ==
  /\ CloseMoves("lock", "loop")
  /\ lock = "free" /\ lock' = "close"
  /\ toClose' = {current[p] : p \in Partitions} \ {0}
  /\ UNCHANGED <<open, finished, detectorVars, closing>>

CloseNext(c) ==
  /\ CloseMoves("loop", "wait")
  /\ c \in toClose
  /\ closing' = c /\ toClose' = toClose \ {c}
  /\ open' = [open EXCEPT ![c] = FALSE]
  /\ UNCHANGED <<finished, lock, detectorVars>>

CloseWaited ==
  /\ CloseMoves("wait", "loop")
  /\ wg[closing] = 0
  /\ UNCHANGED <<open, finished, lock, detectorVars, toClose, closing>>

CloseUnlocks ==
  /\ CloseMoves("loop", "detector")
  /\ toClose = {}
  /\ lock' = "free"
  /\ UNCHANGED <<open, finished, detectorVars, toClose, closing>>

CloseDetector ==
  /\ CloseMoves("detector", "internal")
  /\ checking => allMonitor = "running"
  /\ allMonitor' = IF checking THEN "exited" ELSE allMonitor
  /\ UNCHANGED <<open, finished, lock, monitor, consumed, signal, allConsumed, toClose, closing>>

\* The internal consumer closes what it still has.
CloseInternal ==
  /\ CloseMoves("internal", "returned")
  /\ finished' = TRUE
  /\ open' = [c \in ClaimIds |-> FALSE]
  /\ UNCHANGED <<lock, detectorVars, toClose, closing>>
-----------------------------------------------------------------------------
Main == MainLocks \/ MainWaited \/ Spawn \/ MainEnds
MessageHandler(c) ==
  \/ HandlerStarts(c) \/ Processed(c) \/ LeaveLoop(c) \/ CloseProcessor(c)
  \/ StopMonitor(c) \/ CloseClaim(c) \/ HandlerDone(c) \/ HandlerEnds(c)
Errors(c) == ErrorsStart(c) \/ ErrorsEnd(c)
Close ==
  \/ CloseLocks \/ CloseWaited \/ CloseUnlocks \/ CloseDetector \/ CloseInternal
  \/ \E c \in ClaimIds : CloseNext(c)

ConsumerNext ==
  \/ Deliver \/ Main \/ CallClose \/ Close \/ TickAll
  \/ \E c \in ClaimIds :
       Revoke(c) \/ TakeMessage(c) \/ MessageHandler(c) \/ Errors(c) \/ Tick(c)

\* The goroutines run, and a worker takes the message a handler holds.  Once its channel
\* is closed and empty, all a handler can do is leave its loop.  Nothing is assumed of
\* Kafka, which need not send any message, of the tickers or of the caller of Close.
ConsumerFairness ==
  /\ WF_consumerVars(Main)
  /\ WF_consumerVars(Close)
  /\ \A c \in ClaimIds : WF_consumerVars(MessageHandler(c)) /\ WF_consumerVars(Errors(c))

ConsumerSpec == ConsumerInit /\ [][ConsumerNext]_consumerVars
FairConsumerSpec == ConsumerSpec /\ ConsumerFairness
-----------------------------------------------------------------------------
(***************************************************************************)
(* Properties.                                                             *)
(***************************************************************************)
\* The handler may still receive, process or clean up.
Active(c) == hpc[c] \notin {"none", "relock", "exited"}

\* "a guard against simultaneously draining messages from the last time the partition
\* was assigned and processing new messages for the same partition" (consumer.go:83-85):
\* two claims on one partition never have handlers at the same time, neither for the
\* messages nor for the errors.
OneHandlerPerPartition ==
  \A c, d \in ClaimIds : c # d /\ Claims[c] = Claims[d] =>
    ~( (Active(c) \/ epc[c] \in {"start", "loop"}) /\ (Active(d) \/ epc[d] \in {"start", "loop"}) )

\* A monitor ends with its handler: it never kills the process over a partition that
\* has been given back (deadlock_detector.go:118-124, consumer.go:131-132).
KillsOverHeldPartition == panic > 0 => Active(panic)

\* Somebody waits for handlers with the lock they begin with in its hands.
Unstarted(c) == hpc[c] \in {"none", "start"} \/ epc[c] \in {"none", "start"}
WaitsForUnstarted ==
  \/ mainpc = "wait" /\ Unstarted(current[Partition])
  \/ closepc = "wait" /\ Unstarted(closing)

\* Close returns, also while partitions are assigned, taken back and found inactive,
\* unless it, or the main loop, waits with the lock for a handler that was not quick
\* enough to take it first (consumer.go:79-108, 113-118, 170-172).
CloseReturnsIfStarted ==
  closepc = "lock" ~> closepc = "returned" \/ ~Alive \/ WaitsForUnstarted

\* A partition that is assigned gets its handlers, with the same exception: the
\* handlers of the last assignment end and do not keep the main loop waiting.
AssignmentIsTakenUp ==
  \A c \in ClaimIds :
    delivered = c /\ mainpc = "lock" ~> hpc[c] # "none" \/ ~Alive \/ WaitsForUnstarted

\* "Close closes the Consumer and underlying sarama consumer" (consumer.go:98).
CloseReturns == closepc = "lock" ~> closepc = "returned" \/ ~Alive
=============================================================================
