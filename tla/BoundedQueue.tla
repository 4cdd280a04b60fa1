---------------------------- MODULE BoundedQueue ----------------------------
(***************************************************************************)
(* The queue between the collector's receivers and its workers             *)
(* (src/jaeger/pkg/queue/bounded_queue.go).                                *)
(*                                                                         *)
(* Producers, consumers, the length reporter and Stop run in goroutines of *)
(* their own.  One step is one atomic access: a load, store or add of      *)
(* sync/atomic, a channel operation, the call of a callback.  A panic ends *)
(* the process.                                                            *)
(***************************************************************************)
EXTENDS Integers, Sequences, FiniteSets

CONSTANTS
  Items,       \* what is offered, each item once
  Producers,   \* goroutines that call Produce
  Consumers,   \* goroutines started by StartConsumers
  Capacity,
  HasHandler,  \* FALSE if onDroppedItem is nil
  NoItem       \* the zero value received from a closed channel

ASSUME CapacityAssumption == Capacity \in Nat \ {0}   \* a buffered channel
ASSUME HandlerAssumption == HasHandler \in BOOLEAN
ASSUME GoroutinesAssumption == IsFiniteSet(Producers) /\ IsFiniteSet(Consumers)
ASSUME NoItemAssumption == NoItem \notin Items

VARIABLES
  items,       \* the buffered channel
  closed,      \* items is closed
  size,        \* the atomic counter
  stopped,     \* the flag Produce loads
  stopCh,      \* stopCh is closed
  ppc, pitem,  \* where each producer is, and the item it offers
  cpc, citem,  \* where each consumer is, and the item it holds
  spc,         \* where Stop is
  reporting,   \* the length reporter, which passes the counter to a gauge, is running
  consumed,    \* items whose consumer callback has run
  dropped,     \* items reported as dropped or refused
  panic        \* why the process died

chVars == <<items, closed, size>>
stopVars == <<stopped, stopCh, spc>>
pVars == <<ppc, pitem>>
cVars == <<cpc, citem, consumed>>
qVars == <<chVars, stopVars, pVars, cVars, reporting, dropped, panic>>

Init ==
  /\ items = <<>> /\ closed = FALSE /\ size = 0
  /\ stopped = FALSE /\ stopCh = FALSE /\ spc = "running"
  /\ ppc = [p \in Producers |-> "idle"] /\ pitem = [p \in Producers |-> NoItem]
  /\ cpc = [c \in Consumers |-> "select"] /\ citem = [c \in Consumers |-> NoItem]
  /\ reporting = TRUE
  /\ consumed = {} /\ dropped = {}
  /\ panic = "none"

Alive == panic = "none"
Queued == {items[i] : i \in DOMAIN items}
Held == {citem[c] : c \in Consumers}
Offered == Queued \cup consumed \cup dropped \cup {pitem[p] : p \in Producers} \cup Held
-----------------------------------------------------------------------------
(***************************************************************************)
(* Produce.                                                                *)
(***************************************************************************)
\* Produce is called, and loads the stopped flag.
LoadStopped(p) ==
  /\ Alive /\ ppc[p] = "idle"
  /\ \E i \in Items \ Offered : pitem' = [pitem EXCEPT ![p] = i]
  /\ ppc' = [ppc EXCEPT ![p] = IF stopped THEN "refuse" ELSE "send"]
  /\ UNCHANGED <<chVars, stopVars, cVars, reporting, dropped, panic>>

ReturnFrom(p) ==
  /\ ppc' = [ppc EXCEPT ![p] = "idle"]
  /\ pitem' = [pitem EXCEPT ![p] = NoItem]

\* The queue is stopped: the handler is called without looking whether it is nil.
Refuse(p) ==
  /\ Alive /\ ppc[p] = "refuse"
  /\ panic' = IF HasHandler THEN "none" ELSE "nil_handler"
  /\ dropped' = dropped \cup {pitem[p]}
  /\ ReturnFrom(p)
  /\ UNCHANGED <<chVars, stopVars, cVars, reporting>>

\* Variant: the channel has one place too many.
SendOffByOne(p) ==
  /\ Alive /\ ppc[p] = "send"
  /\ ~closed /\ Len(items) <= Capacity
  /\ items' = Append(items, pitem[p])
  /\ ppc' = [ppc EXCEPT ![p] = "count"]
  /\ pitem' = [pitem EXCEPT ![p] = NoItem]
  /\ UNCHANGED <<closed, size, stopVars, cVars, reporting, dropped, panic>>

\* select: the channel has room.
Send(p) ==
  /\ Alive /\ ppc[p] = "send"
  /\ ~closed /\ Len(items) < Capacity
  /\ items' = Append(items, pitem[p])
  /\ ppc' = [ppc EXCEPT ![p] = "count"]
  /\ pitem' = [pitem EXCEPT ![p] = NoItem]
  /\ UNCHANGED <<closed, size, stopVars, cVars, reporting, dropped, panic>>

\* select: a send on a closed channel panics, whatever the other cases are.
SendOnClosed(p) ==
  /\ Alive /\ ppc[p] = "send"
  /\ closed
  /\ panic' = "send_on_closed"
  /\ UNCHANGED <<chVars, stopVars, pVars, cVars, reporting, dropped>>

\* Variants: the producer waits for room; the earliest item makes room.
OverflowBlocks(p) ==
  /\ Alive /\ ppc[p] = "send"
  /\ ~closed /\ Len(items) = Capacity
  /\ UNCHANGED qVars
OverflowDropsEarliest(p) ==
  /\ Alive /\ ppc[p] = "send"
  /\ ~closed /\ Len(items) = Capacity
  /\ dropped' = dropped \cup {Head(items)}
  /\ items' = Append(Tail(items), pitem[p])
  /\ ReturnFrom(p)
  /\ UNCHANGED <<closed, size, stopVars, cVars, reporting, panic>>

\* select: the channel is full, the NEW item is dropped.
Overflow(p) ==
  /\ Alive /\ ppc[p] = "send"
  /\ ~closed /\ Len(items) = Capacity
  /\ dropped' = dropped \cup {pitem[p]}
  /\ ReturnFrom(p)
  /\ UNCHANGED <<chVars, stopVars, cVars, reporting, panic>>

CountUp(p) ==
  /\ Alive /\ ppc[p] = "count"
  /\ size' = size + 1
  /\ ReturnFrom(p)
  /\ UNCHANGED <<items, closed, stopVars, cVars, reporting, dropped, panic>>
-----------------------------------------------------------------------------
(***************************************************************************)
(* A consumer goroutine.                                                   *)
(***************************************************************************)
Receive(c) ==
  /\ Alive /\ cpc[c] = "select"
  /\ \/ /\ items # <<>>
        /\ citem' = [citem EXCEPT ![c] = Head(items)]
        /\ items' = Tail(items)
     \/ /\ items = <<>> /\ closed      \* yields the zero value at once
        /\ citem' = [citem EXCEPT ![c] = NoItem]
        /\ UNCHANGED items
  /\ cpc' = [cpc EXCEPT ![c] = "received"]
  /\ UNCHANGED <<closed, size, stopVars, pVars, consumed, reporting, dropped, panic>>

CountDown(c) ==
  /\ Alive /\ cpc[c] = "received"
  /\ size' = size - 1
  /\ cpc' = [cpc EXCEPT ![c] = "callback"]
  /\ UNCHANGED <<items, closed, stopVars, pVars, citem, consumed, reporting, dropped, panic>>

\* The callback of the collector asserts the type of its item.
Consume(c) ==
  /\ Alive /\ cpc[c] = "callback"
  /\ panic' = IF citem[c] = NoItem THEN "nil_item" ELSE "none"
  /\ consumed' = consumed \cup {citem[c]}
  /\ citem' = [citem EXCEPT ![c] = NoItem]
  /\ cpc' = [cpc EXCEPT ![c] = "select"]
  /\ UNCHANGED <<chVars, stopVars, pVars, reporting, dropped>>

\* select: stopCh is closed, even when items are left.
ConsumerExits(c) ==
  /\ Alive /\ cpc[c] = "select"
  /\ stopCh
  /\ cpc' = [cpc EXCEPT ![c] = "exited"]
  /\ UNCHANGED <<chVars, stopVars, pVars, citem, consumed, reporting, dropped, panic>>
-----------------------------------------------------------------------------
(***************************************************************************)
(* Stop and the length reporter.                                           *)
(***************************************************************************)
DisableProducer ==
  /\ Alive /\ spc = "running"
  /\ stopped' = TRUE
  /\ spc' = "close_stop"
  /\ UNCHANGED <<chVars, stopCh, pVars, cVars, reporting, dropped, panic>>

\* Variant: stopCh stays open.
CloseStopChForgotten ==
  /\ Alive /\ spc = "close_stop"
  /\ spc' = "wait"
  /\ UNCHANGED <<chVars, stopped, stopCh, pVars, cVars, reporting, dropped, panic>>

CloseStopCh ==
  /\ Alive /\ spc = "close_stop"
  /\ stopCh' = TRUE
  /\ spc' = "wait"
  /\ UNCHANGED <<chVars, stopped, pVars, cVars, reporting, dropped, panic>>

\* Variant: consumers are not counted in stopWG.
WaitForNobody ==
  /\ Alive /\ spc = "wait"
  /\ spc' = "close_items"
  /\ UNCHANGED <<chVars, stopped, stopCh, pVars, cVars, reporting, dropped, panic>>

\* stopWG.Wait returns when every consumer has exited.
WaitForConsumers ==
  /\ Alive /\ spc = "wait"
  /\ \A c \in Consumers : cpc[c] = "exited"
  /\ spc' = "close_items"
  /\ UNCHANGED <<chVars, stopped, stopCh, pVars, cVars, reporting, dropped, panic>>

CloseItems ==
  /\ Alive /\ spc = "close_items"
  /\ closed' = TRUE
  /\ spc' = "returned"
  /\ UNCHANGED <<items, size, stopped, stopCh, pVars, cVars, reporting, dropped, panic>>

ReporterExits ==
  /\ Alive /\ reporting /\ stopCh
  /\ reporting' = FALSE
  /\ UNCHANGED <<chVars, stopVars, pVars, cVars, dropped, panic>>
-----------------------------------------------------------------------------
Produce(p) == LoadStopped(p) \/ Refuse(p) \/ Send(p) \/ SendOnClosed(p)
                \/ Overflow(p) \/ CountUp(p)
Consumer(c) == Receive(c) \/ CountDown(c) \/ Consume(c) \/ ConsumerExits(c)
Stop == DisableProducer \/ CloseStopCh \/ WaitForConsumers \/ CloseItems

Next ==
  \/ \E p \in Producers : Produce(p)
  \/ \E c \in Consumers : Consumer(c)
  \/ Stop \/ ReporterExits

Spec == Init /\ [][Next]_qVars
-----------------------------------------------------------------------------
(***************************************************************************)
(* Properties.                                                             *)
(***************************************************************************)
\* The channel operations are the points where an item is accepted and handed over;
\* an item a consumer holds counts as handed over.
Lossy == INSTANCE LossyQueue WITH
  EarliestMayGo <- TRUE,
  queue <- items,
  delivered <- (consumed \cup Held) \ {NoItem},
  open <- ~stopped

\* The queue keeps the promise of a bounded queue: FIFO, at most once, dropping only
\* when it is full or stopped (bounded_queue.go:54-101).  Which item a full queue drops
\* is left open: the code drops the one offered (lines 86-89), the comment of the type
\* says that new items "force the earliest items to be dropped" (line 28).
ImplementsLossyQueue == Lossy!Spec

\* The counter the gauge reports is the length of the channel but for the
\* goroutines that are between the channel operation and the atomic add
\* (bounded_queue.go:64-66, 83-84); it is below zero when a consumer is first.
SizeAccounting ==
  Alive =>
    size = Len(items) + Cardinality({c \in Consumers : cpc[c] = "received"})
             - Cardinality({p \in Producers : ppc[p] = "count"})

\* "It blocks until all consumers have stopped" (line 95), and only then is the
\* channel closed: no consumer ever receives the zero value of a closed channel,
\* and after Stop has returned no consumer callback runs any more.
StopWaitsForConsumers ==
  /\ closed => \A c \in Consumers : cpc[c] = "exited"
  /\ panic # "nil_item"
=============================================================================
