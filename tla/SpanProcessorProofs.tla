------------------------ MODULE SpanProcessorProofs ------------------------
(***************************************************************************)
(* Proofs about the collector and its queue.                               *)
(*                                                                         *)
(* First the queue alone (BoundedQueue), for any number of producers and   *)
(* consumers, any capacity and with Stop at any time.  Then the collector, *)
(* for any number of calls, batches, attempts and workers: it uses its     *)
(* queue as a queue, and an acknowledgement can be relied on.              *)
(***************************************************************************)
EXTENDS SpanProcessor, FiniteSetTheorems, TLAPS

-----------------------------------------------------------------------------
(***************************************************************************)
(* The queue.                                                              *)
(***************************************************************************)
QType ==
  /\ items \in Seq(Items)
  /\ size \in Int
  /\ ppc \in [Producers -> {"idle", "refuse", "send", "count"}]
  /\ pitem \in [Producers -> Items \cup {NoItem}]
  /\ cpc \in [Consumers -> {"select", "received", "callback", "exited"}]
  /\ citem \in [Consumers -> Items \cup {NoItem}]

\* Who has an item in hand, and what is known once Stop is past its wait.
InHand ==
  /\ \A p \in Producers : ppc[p] \in {"refuse", "send"} <=> pitem[p] # NoItem
  /\ \A c \in Consumers : cpc[c] \in {"received", "callback"} <=> citem[c] # NoItem

PastWait ==
  /\ closed => spc = "returned"
  /\ spc \in {"close_items", "returned"} => \A c \in Consumers : cpc[c] = "exited"
  /\ panic # "nil_item"

QInv == QType /\ InHand /\ PastWait

LEMMA QInit == Init => QInv
BY NoItemAssumption DEF Init, QInv, QType, InHand, PastWait

\* Producers.
LEMMA ProduceKeeps == ASSUME QInv, NEW p \in Producers, Produce(p) PROVE QInv'
<1>1. CASE LoadStopped(p)
  BY <1>1, NoItemAssumption DEF LoadStopped, QInv, QType, InHand, PastWait, chVars, stopVars, cVars
<1>2. CASE Refuse(p)
  BY <1>2 DEF Refuse, ReturnFrom, QInv, QType, InHand, PastWait, chVars, stopVars, cVars
<1>3. CASE Send(p)
  BY <1>3 DEF Send, QInv, QType, InHand, PastWait, stopVars, cVars
<1>4. CASE SendOnClosed(p)
  BY <1>4 DEF SendOnClosed, QInv, QType, InHand, PastWait, chVars, stopVars, pVars, cVars
<1>5. CASE Overflow(p)
  BY <1>5 DEF Overflow, ReturnFrom, QInv, QType, InHand, PastWait, chVars, stopVars, cVars
<1>6. CASE CountUp(p)
  BY <1>6 DEF CountUp, ReturnFrom, QInv, QType, InHand, PastWait, stopVars, cVars
<1> QED BY <1>1, <1>2, <1>3, <1>4, <1>5, <1>6 DEF Produce

\* Consumers.
LEMMA ConsumerKeeps == ASSUME QInv, NEW c \in Consumers, Consumer(c) PROVE QInv'
<1>1. CASE Receive(c)
  <2>1. ~closed /\ items # <<>>
    BY <1>1 DEF Receive, QInv, PastWait
  <2>2. Head(items) \in Items /\ Tail(items) \in Seq(Items)
    BY <2>1 DEF QInv, QType
  <2> QED BY <1>1, <2>1, <2>2, NoItemAssumption DEF Receive, QInv, QType, InHand, PastWait, stopVars, pVars
<1>2. CASE CountDown(c)
  BY <1>2 DEF CountDown, QInv, QType, InHand, PastWait, stopVars, pVars
<1>3. CASE Consume(c)
  BY <1>3 DEF Consume, QInv, QType, InHand, PastWait, chVars, stopVars, pVars
<1>4. CASE ConsumerExits(c)
  BY <1>4 DEF ConsumerExits, QInv, QType, InHand, PastWait, chVars, stopVars, pVars
<1> QED BY <1>1, <1>2, <1>3, <1>4 DEF Consumer

LEMMA StopKeeps == ASSUME QInv, Stop \/ ReporterExits PROVE QInv'
<1>1. CASE DisableProducer
  BY <1>1 DEF DisableProducer, QInv, QType, InHand, PastWait, chVars, pVars, cVars
<1>2. CASE CloseStopCh
  BY <1>2 DEF CloseStopCh, QInv, QType, InHand, PastWait, chVars, pVars, cVars
<1>3. CASE WaitForConsumers
  BY <1>3 DEF WaitForConsumers, QInv, QType, InHand, PastWait, chVars, pVars, cVars
<1>4. CASE CloseItems
  BY <1>4 DEF CloseItems, QInv, QType, InHand, PastWait, pVars, cVars
<1>5. CASE ReporterExits
  BY <1>5 DEF ReporterExits, QInv, QType, InHand, PastWait, chVars, stopVars, pVars, cVars
<1> QED BY <1>1, <1>2, <1>3, <1>4, <1>5 DEF Stop

LEMMA QStep == QInv /\ [Next]_qVars => QInv'
<1> SUFFICES ASSUME QInv, [Next]_qVars PROVE QInv'
  OBVIOUS
<1>1. CASE Next
  BY <1>1, ProduceKeeps, ConsumerKeeps, StopKeeps DEF Next
<1>2. CASE UNCHANGED qVars
  BY <1>2 DEF QInv, QType, InHand, PastWait, qVars, chVars, stopVars, pVars, cVars
<1> QED BY <1>1, <1>2

LEMMA QInvariant == Spec => []QInv
BY QInit, QStep, PTL DEF Spec

\* The channel is closed only when every consumer has exited, and no consumer calls
\* its callback with the zero value of a closed channel.
THEOREM StopWaits == Spec => []StopWaitsForConsumers
<1>1. QInv => StopWaitsForConsumers
  BY DEF QInv, PastWait, StopWaitsForConsumers
<1> QED BY <1>1, QInvariant, PTL
-----------------------------------------------------------------------------
(***************************************************************************)
(* The counter.                                                            *)
(***************************************************************************)
InReceived == {c \in Consumers : cpc[c] = "received"}
InCount == {p \in Producers : ppc[p] = "count"}
Received == Cardinality(InReceived)
Counting == Cardinality(InCount)
Counted == size = Len(items) + Received - Counting

LEMMA CountsAreNaturals == QType => Received \in Nat /\ Counting \in Nat /\ Len(items) \in Nat
BY GoroutinesAssumption, FS_Subset, FS_CardinalityType DEF QType, Received, Counting, InReceived, InCount

LEMMA CountedInit == Init => Counted
<1> SUFFICES ASSUME Init PROVE Counted
  OBVIOUS
<1>1. {c \in Consumers : cpc[c] = "received"} = {} /\ {p \in Producers : ppc[p] = "count"} = {}
  BY DEF Init
<1>2. Received = 0 /\ Counting = 0
  BY <1>1, FS_EmptySet DEF Received, Counting, InReceived, InCount
<1> QED BY <1>2 DEF Init, Counted

\* A producer that moves to w.
LEMMA ProducerMoves ==
  ASSUME QType, NEW p \in Producers, NEW w, ppc' = [ppc EXCEPT ![p] = w], ppc[p] # w,
         UNCHANGED cpc
  PROVE  /\ Received' = Received
         /\ w = "count" => Counting' = Counting + 1
         /\ ppc[p] = "count" => Counting' = Counting - 1
         /\ w # "count" /\ ppc[p] # "count" => Counting' = Counting
<1>1. ppc'[p] = w /\ \A y \in Producers \ {p} : ppc'[y] = ppc[y]
  BY DEF QType
<1>2. Received' = Received
  BY DEF Received, InReceived
<1>3. IsFiniteSet(InCount) /\ Counting \in Nat
  BY GoroutinesAssumption, FS_Subset, FS_CardinalityType DEF InCount, Counting
<1>4. w = "count" => InCount' = InCount \cup {p} /\ p \notin InCount
  BY <1>1 DEF InCount
<1>5. ppc[p] = "count" => InCount' = InCount \ {p} /\ p \in InCount
  BY <1>1 DEF InCount
<1>6. w # "count" /\ ppc[p] # "count" => InCount' = InCount
  BY <1>1 DEF InCount
<1>7. p \notin InCount => Cardinality(InCount \cup {p}) = Counting + 1
  BY <1>3, FS_AddElement DEF Counting
<1>8. p \in InCount => Cardinality(InCount \ {p}) = Counting - 1
  BY <1>3, FS_RemoveElement DEF Counting
<1> QED BY <1>2, <1>4, <1>5, <1>6, <1>7, <1>8 DEF Counting

\* A consumer that moves to w.
LEMMA ConsumerMoves ==
  ASSUME QType, NEW c \in Consumers, NEW w, cpc' = [cpc EXCEPT ![c] = w], cpc[c] # w,
         UNCHANGED ppc
  PROVE  /\ Counting' = Counting
         /\ w = "received" => Received' = Received + 1
         /\ cpc[c] = "received" => Received' = Received - 1
         /\ w # "received" /\ cpc[c] # "received" => Received' = Received
<1>1. cpc'[c] = w /\ \A y \in Consumers \ {c} : cpc'[y] = cpc[y]
  BY DEF QType
<1>2. Counting' = Counting
  BY DEF Counting, InCount
<1>3. IsFiniteSet(InReceived) /\ Received \in Nat
  BY GoroutinesAssumption, FS_Subset, FS_CardinalityType DEF InReceived, Received
<1>4. w = "received" => InReceived' = InReceived \cup {c} /\ c \notin InReceived
  BY <1>1 DEF InReceived
<1>5. cpc[c] = "received" => InReceived' = InReceived \ {c} /\ c \in InReceived
  BY <1>1 DEF InReceived
<1>6. w # "received" /\ cpc[c] # "received" => InReceived' = InReceived
  BY <1>1 DEF InReceived
<1>7. c \notin InReceived => Cardinality(InReceived \cup {c}) = Received + 1
  BY <1>3, FS_AddElement DEF Received
<1>8. c \in InReceived => Cardinality(InReceived \ {c}) = Received - 1
  BY <1>3, FS_RemoveElement DEF Received
<1> QED BY <1>2, <1>4, <1>5, <1>6, <1>7, <1>8 DEF Received

LEMMA ProduceCounted ==
  ASSUME QInv, Counted, NEW p \in Producers, Produce(p) PROVE Counted'
<1> USE DEF Counted
<1>1. QType /\ Received \in Nat /\ Counting \in Nat /\ Len(items) \in Nat /\ size \in Int
  BY CountsAreNaturals DEF QInv, QType
<1>2. CASE LoadStopped(p)
  <2>1. /\ ppc' = [ppc EXCEPT ![p] = IF stopped THEN "refuse" ELSE "send"] /\ ppc[p] = "idle"
        /\ UNCHANGED <<items, size, cpc>>
    BY <1>2 DEF LoadStopped, chVars, cVars
  <2>2. PICK w \in {"refuse", "send"} : ppc' = [ppc EXCEPT ![p] = w]
    BY <2>1
  <2>3. w # "count" /\ ppc[p] # "count" /\ ppc[p] # w
    BY <2>1, <2>2
  <2>4. Received' = Received /\ Counting' = Counting
    BY <1>1, <2>1, <2>2, <2>3, ProducerMoves
  <2> QED BY <1>1, <2>1, <2>4
<1>3. CASE Refuse(p) \/ Overflow(p)
  <2>1. /\ ppc' = [ppc EXCEPT ![p] = "idle"] /\ ppc[p] \in {"refuse", "send"}
        /\ UNCHANGED <<items, size, cpc>>
    BY <1>3 DEF Refuse, Overflow, ReturnFrom, chVars, cVars
  <2>2. PICK w \in {"idle"} : ppc' = [ppc EXCEPT ![p] = w] /\ w # "count" /\ ppc[p] # w
    BY <2>1
  <2>3. Received' = Received /\ Counting' = Counting
    BY <1>1, <2>1, <2>2, ProducerMoves
  <2> QED BY <1>1, <2>1, <2>3
<1>4. CASE Send(p)
  <2>1. /\ ppc' = [ppc EXCEPT ![p] = "count"] /\ ppc[p] = "send"
        /\ items' = Append(items, pitem[p]) /\ UNCHANGED <<size, cpc>>
    BY <1>4 DEF Send, cVars
  <2>2. Received' = Received /\ Counting' = Counting + 1
    BY <1>1, <2>1, ProducerMoves
  <2>3. pitem[p] \in Items /\ items \in Seq(Items)
    BY <2>1 DEF QInv, QType, InHand
  <2>4. Len(items') = Len(items) + 1
    BY <2>1, <2>3
  <2> QED BY <1>1, <2>1, <2>2, <2>4
<1>5. CASE SendOnClosed(p)
  BY <1>5 DEF SendOnClosed, chVars, pVars, cVars, Received, Counting, InReceived, InCount
<1>6. CASE CountUp(p)
  <2>1. /\ ppc' = [ppc EXCEPT ![p] = "idle"] /\ ppc[p] = "count"
        /\ size' = size + 1 /\ UNCHANGED <<items, cpc>>
    BY <1>6 DEF CountUp, ReturnFrom, cVars
  <2>2. Received' = Received /\ Counting' = Counting - 1
    BY <1>1, <2>1, ProducerMoves
  <2> QED BY <1>1, <2>1, <2>2
<1> QED BY <1>2, <1>3, <1>4, <1>5, <1>6 DEF Produce

LEMMA ConsumerCounted ==
  ASSUME QInv, Counted, NEW c \in Consumers, Consumer(c) PROVE Counted'
<1> USE DEF Counted
<1>1. QType /\ Received \in Nat /\ Counting \in Nat /\ Len(items) \in Nat /\ size \in Int
  BY CountsAreNaturals DEF QInv, QType
<1>2. CASE Receive(c)
  <2>1. ~closed
    BY <1>2 DEF Receive, QInv, PastWait
  <2>2. /\ cpc' = [cpc EXCEPT ![c] = "received"] /\ cpc[c] = "select"
        /\ items # <<>> /\ items' = Tail(items) /\ UNCHANGED <<size, ppc>>
    BY <1>2, <2>1 DEF Receive, pVars
  <2>3. Counting' = Counting /\ Received' = Received + 1
    BY <1>1, <2>2, ConsumerMoves
  <2>4. Len(items') = Len(items) - 1
    BY <1>1, <2>2 DEF QType
  <2> QED BY <1>1, <2>2, <2>3, <2>4
<1>3. CASE CountDown(c)
  <2>1. /\ cpc' = [cpc EXCEPT ![c] = "callback"] /\ cpc[c] = "received"
        /\ size' = size - 1 /\ UNCHANGED <<items, ppc>>
    BY <1>3 DEF CountDown, pVars
  <2>2. Counting' = Counting /\ Received' = Received - 1
    BY <1>1, <2>1, ConsumerMoves
  <2> QED BY <1>1, <2>1, <2>2
<1>4. CASE Consume(c) \/ ConsumerExits(c)
  <2>1. \E w \in {"select", "exited"} : cpc' = [cpc EXCEPT ![c] = w] /\ cpc[c] # w
    BY <1>4 DEF Consume, ConsumerExits
  <2>2. cpc[c] # "received" /\ UNCHANGED <<items, size, ppc>>
    BY <1>4 DEF Consume, ConsumerExits, chVars, pVars
  <2>3. Counting' = Counting /\ Received' = Received
    BY <1>1, <2>1, <2>2, ConsumerMoves
  <2> QED BY <1>1, <2>2, <2>3
<1> QED BY <1>2, <1>3, <1>4 DEF Consumer

LEMMA CountedStep == QInv /\ Counted /\ [Next]_qVars => Counted'
<1> SUFFICES ASSUME QInv, Counted, [Next]_qVars PROVE Counted'
  OBVIOUS
<1>1. CASE Next
  <2>1. CASE Stop \/ ReporterExits
    <3>1. UNCHANGED <<items, size, ppc, cpc>>
      BY <2>1 DEF Stop, DisableProducer, CloseStopCh, WaitForConsumers, CloseItems, ReporterExits,
                  chVars, pVars, cVars
    <3> QED BY <3>1 DEF Counted, Received, Counting, InReceived, InCount
  <2> QED BY <1>1, <2>1, ProduceCounted, ConsumerCounted DEF Next
<1>2. CASE UNCHANGED qVars
  BY <1>2 DEF qVars, chVars, pVars, cVars, Counted, Received, Counting, InReceived, InCount
<1> QED BY <1>1, <1>2

\* The counter is the length of the channel, but for the goroutines between the
\* channel operation and the atomic add.
THEOREM SizeIsAccounted == Spec => []SizeAccounting
<1>1. Counted => SizeAccounting
  BY DEF Counted, Received, Counting, InReceived, InCount, SizeAccounting
<1>2. Spec => []Counted
  BY CountedInit, CountedStep, QInvariant, PTL DEF Spec
<1> QED BY <1>1, <1>2, PTL
-----------------------------------------------------------------------------
(***************************************************************************)
(* The refinement.  What a producer offers is nowhere else yet.            *)
(***************************************************************************)
Seen == Queued \cup Held \cup consumed \cup dropped

Fresh ==
  /\ \A p \in Producers : pitem[p] # NoItem => pitem[p] \notin Seen
  /\ \A p, q \in Producers : p # q /\ pitem[p] # NoItem => pitem[p] # pitem[q]
  /\ \A p \in Producers : ppc[p] = "refuse" => stopped

LEMMA QueuedAppends ==
  ASSUME items \in Seq(Items), NEW i \in Items, items' = Append(items, i)
  PROVE  Queued' = Queued \cup {i}
<1>1. Len(items') = Len(items) + 1 /\ items'[Len(items) + 1] = i
  OBVIOUS
<1>2. \A k \in 1..Len(items) : items'[k] = items[k]
  OBVIOUS
<1>3. DOMAIN items = 1..Len(items) /\ DOMAIN items' = 1..(Len(items) + 1) /\ Len(items) \in Nat
  BY <1>1
<1>4. ASSUME NEW x \in Queued' PROVE x \in Queued \cup {i}
  <2>1. PICK k \in DOMAIN items' : x = items'[k]
    BY <1>4 DEF Queued
  <2>2. CASE k = Len(items) + 1
    BY <1>1, <2>1, <2>2
  <2>3. CASE k \in 1..Len(items)
    BY <1>2, <1>3, <2>1, <2>3 DEF Queued
  <2> QED BY <1>3, <2>1, <2>2, <2>3
<1>5. ASSUME NEW x \in Queued PROVE x \in Queued'
  <2>1. PICK k \in DOMAIN items : x = items[k]
    BY <1>5 DEF Queued
  <2>2. k \in DOMAIN items' /\ x = items'[k]
    BY <1>2, <1>3, <2>1
  <2> QED BY <2>2 DEF Queued
<1>6. i \in Queued'
  BY <1>1, <1>3 DEF Queued
<1> QED BY <1>4, <1>5, <1>6

LEMMA QueuedShrinks ==
  ASSUME items \in Seq(Items), items # <<>>, items' = Tail(items)
  PROVE  Queued' \subseteq Queued /\ Head(items) \in Queued
<1>1. Len(items) \in Nat \ {0} /\ DOMAIN items = 1..Len(items)
  OBVIOUS
<1>2. DOMAIN items' = 1..(Len(items) - 1) /\ \A k \in 1..(Len(items) - 1) : items'[k] = items[k + 1]
  OBVIOUS
<1>3. Head(items) = items[1]
  OBVIOUS
<1>4. ASSUME NEW x \in Queued' PROVE x \in Queued
  <2>1. PICK k \in DOMAIN items' : x = items'[k]
    BY <1>4 DEF Queued
  <2>2. k + 1 \in DOMAIN items /\ x = items[k + 1]
    BY <1>1, <1>2, <2>1
  <2> QED BY <2>2 DEF Queued
<1> QED BY <1>1, <1>3, <1>4 DEF Queued

LEMMA FreshInit == Init => Fresh
BY DEF Init, Fresh

LEMMA NothingNew ==
  ASSUME Fresh, Seen' \subseteq Seen \cup {NoItem}, UNCHANGED pVars, stopped => stopped'
  PROVE  Fresh'
BY DEF Fresh, pVars

\* The item of a producer has got somewhere, or it had none.
LEMMA ItemLeavesHand ==
  ASSUME QType, Fresh, NEW p \in Producers, NEW w,
         pitem' = [pitem EXCEPT ![p] = NoItem], ppc' = [ppc EXCEPT ![p] = w], w # "refuse",
         Seen' \subseteq Seen \cup {pitem[p]}, UNCHANGED stopped
  PROVE  Fresh'
<1>1. pitem'[p] = NoItem /\ \A q \in Producers \ {p} : pitem'[q] = pitem[q]
  BY DEF QType
<1>2. ppc'[p] # "refuse" /\ \A q \in Producers \ {p} : ppc'[q] = ppc[q]
  BY DEF QType
<1>3. \A q \in Producers : pitem'[q] # NoItem => pitem'[q] \notin Seen'
  BY <1>1 DEF Fresh
<1>4. \A q, r \in Producers : q # r /\ pitem'[q] # NoItem => pitem'[q] # pitem'[r]
  BY <1>1 DEF Fresh
<1>5. \A q \in Producers : ppc'[q] = "refuse" => stopped'
  BY <1>2 DEF Fresh
<1> QED BY <1>3, <1>4, <1>5 DEF Fresh

LEMMA ProduceFresh ==
  ASSUME QInv, Fresh, NEW p \in Producers, Produce(p) PROVE Fresh'
<1>1. CASE LoadStopped(p)
  <2>1. PICK i \in Items \ Offered : pitem' = [pitem EXCEPT ![p] = i]
    BY <1>1 DEF LoadStopped
  <2>2. pitem'[p] = i /\ \A q \in Producers \ {p} : pitem'[q] = pitem[q]
    BY <2>1 DEF QInv, QType
  <2>3. Seen' = Seen /\ stopped' = stopped
    BY <1>1 DEF LoadStopped, Seen, Queued, Held, chVars, stopVars, cVars
  <2>4. i \notin Seen /\ \A q \in Producers : pitem[q] # i
    BY DEF Offered, Seen
  <2>5. (ppc'[p] = "refuse" => stopped) /\ \A q \in Producers \ {p} : ppc'[q] = ppc[q]
    BY <1>1 DEF LoadStopped, QInv, QType
  <2>6. \A q \in Producers : pitem'[q] # NoItem => pitem'[q] \notin Seen'
    BY <2>2, <2>3, <2>4 DEF Fresh
  <2>7. \A q, r \in Producers : q # r /\ pitem'[q] # NoItem => pitem'[q] # pitem'[r]
    BY <2>2, <2>4 DEF Fresh
  <2> QED BY <2>3, <2>5, <2>6, <2>7 DEF Fresh
<1>2. CASE Refuse(p) \/ Overflow(p)
  <2>1. /\ pitem' = [pitem EXCEPT ![p] = NoItem] /\ ppc' = [ppc EXCEPT ![p] = "idle"]
        /\ stopped' = stopped
    BY <1>2 DEF Refuse, Overflow, ReturnFrom, stopVars
  <2>2. Seen' = Seen \cup {pitem[p]}
    BY <1>2 DEF Refuse, Overflow, Seen, Queued, Held, chVars, cVars
  <2> QED BY <2>1, <2>2, ItemLeavesHand DEF QInv
<1>3. CASE Send(p)
  <2>1. /\ pitem' = [pitem EXCEPT ![p] = NoItem] /\ ppc' = [ppc EXCEPT ![p] = "count"]
        /\ stopped' = stopped /\ items' = Append(items, pitem[p])
        /\ UNCHANGED <<cVars, dropped>>
    BY <1>3 DEF Send, stopVars
  <2>2. pitem[p] \in Items /\ items \in Seq(Items)
    BY <1>3 DEF Send, QInv, QType, InHand
  <2>3. Seen' = Seen \cup {pitem[p]}
    BY <2>1, <2>2, QueuedAppends DEF Seen, Held, cVars
  <2> QED BY <2>1, <2>3, ItemLeavesHand DEF QInv
<1>4. CASE SendOnClosed(p)
  <2>1. Seen' = Seen /\ UNCHANGED pVars /\ UNCHANGED stopped
    BY <1>4 DEF SendOnClosed, Seen, Queued, Held, chVars, stopVars, cVars
  <2> QED BY <2>1, NothingNew
<1>5. CASE CountUp(p)
  <2>1. /\ pitem' = [pitem EXCEPT ![p] = NoItem] /\ ppc' = [ppc EXCEPT ![p] = "idle"]
        /\ UNCHANGED <<items, stopVars, cVars, dropped>>
    BY <1>5 DEF CountUp, ReturnFrom
  <2>2. Seen' = Seen /\ UNCHANGED stopped
    BY <2>1 DEF Seen, Queued, Held, stopVars, cVars
  <2> QED BY <2>1, <2>2, ItemLeavesHand DEF QInv
<1> QED BY <1>1, <1>2, <1>3, <1>4, <1>5 DEF Produce

LEMMA ReceiveTakes ==
  ASSUME QInv, NEW c \in Consumers, Receive(c)
  PROVE  /\ items # <<>> /\ items' = Tail(items) /\ items \in Seq(Items)
         /\ Held' \ {NoItem} = (Held \ {NoItem}) \cup {Head(items)}
         /\ Queued' \subseteq Queued /\ Head(items) \in Queued
         /\ UNCHANGED <<consumed, dropped, stopped, pVars>>
<1>1. ~closed
  BY DEF Receive, QInv, PastWait
<1>2. /\ items # <<>> /\ items' = Tail(items) /\ citem' = [citem EXCEPT ![c] = Head(items)]
      /\ UNCHANGED <<consumed, dropped, stopped, pVars>> /\ cpc[c] = "select"
  BY <1>1 DEF Receive, stopVars
<1>3. items \in Seq(Items) /\ Head(items) # NoItem
  BY <1>2, NoItemAssumption DEF QInv, QType
<1>4. citem[c] = NoItem
  BY <1>2 DEF QInv, InHand
<1>5. citem'[c] = Head(items) /\ \A d \in Consumers \ {c} : citem'[d] = citem[d]
  BY <1>2 DEF QInv, QType
<1>6. Held' \ {NoItem} = (Held \ {NoItem}) \cup {Head(items)}
  BY <1>3, <1>4, <1>5 DEF Held
<1> QED BY <1>2, <1>3, <1>6, QueuedShrinks

LEMMA ConsumeKeepsDelivered ==
  ASSUME QInv, NEW c \in Consumers, Consume(c)
  PROVE  /\ (consumed' \cup Held') \ {NoItem} = (consumed \cup Held) \ {NoItem}
         /\ UNCHANGED <<items, dropped, stopped, pVars>>
<1>1. /\ consumed' = consumed \cup {citem[c]} /\ citem' = [citem EXCEPT ![c] = NoItem]
      /\ UNCHANGED <<items, dropped, stopped, pVars>>
  BY DEF Consume, chVars, stopVars
<1>2. citem'[c] = NoItem /\ \A d \in Consumers \ {c} : citem'[d] = citem[d]
  BY <1>1 DEF QInv, QType
<1> QED BY <1>1, <1>2 DEF Held

LEMMA ConsumerFresh ==
  ASSUME QInv, Fresh, NEW c \in Consumers, Consumer(c) PROVE Fresh'
<1>1. CASE Receive(c)
  <2>1. Seen' \subseteq Seen \cup {NoItem}
    BY <1>1, ReceiveTakes DEF Seen
  <2> QED BY <1>1, <2>1, ReceiveTakes, NothingNew
<1>2. CASE Consume(c)
  <2>1. Seen' \subseteq Seen \cup {NoItem}
    BY <1>2, ConsumeKeepsDelivered DEF Seen, Queued
  <2> QED BY <1>2, <2>1, ConsumeKeepsDelivered, NothingNew
<1>3. CASE CountDown(c) \/ ConsumerExits(c)
  <2>1. Seen' = Seen /\ UNCHANGED pVars /\ UNCHANGED stopped
    BY <1>3 DEF CountDown, ConsumerExits, Seen, Queued, Held, chVars, stopVars
  <2> QED BY <2>1, NothingNew
<1> QED BY <1>1, <1>2, <1>3 DEF Consumer

LEMMA FreshStep == QInv /\ Fresh /\ [Next]_qVars => Fresh'
<1> SUFFICES ASSUME QInv, Fresh, [Next]_qVars PROVE Fresh'
  OBVIOUS
<1>1. CASE Stop \/ ReporterExits \/ UNCHANGED qVars
  <2>1. Seen' = Seen /\ UNCHANGED pVars /\ (stopped => stopped')
    BY <1>1 DEF Stop, DisableProducer, CloseStopCh, WaitForConsumers, CloseItems, ReporterExits,
                Seen, Queued, Held, qVars, chVars, stopVars, cVars
  <2> QED BY <2>1, NothingNew
<1> QED BY <1>1, ProduceFresh, ConsumerFresh DEF Next

\* Each step of the queue is a step of the abstract one, or leaves it alone.
LEMMA ProduceMaps ==
  ASSUME QInv, Fresh, NEW p \in Producers, Produce(p)
  PROVE  [Lossy!Next]_(Lossy!lossyVars)
<1>1. pitem[p] # NoItem => pitem[p] \in Lossy!Fresh
  BY DEF Lossy!Fresh, Lossy!Queued, Fresh, Seen, Queued, QInv, QType
<1>2. CASE LoadStopped(p) \/ SendOnClosed(p) \/ CountUp(p)
  <2>1. UNCHANGED <<items, consumed, citem, dropped, stopped>>
    BY <1>2 DEF LoadStopped, SendOnClosed, CountUp, chVars, stopVars, cVars
  <2> QED BY <2>1 DEF Lossy!lossyVars, Held
<1>3. CASE Refuse(p) \/ Overflow(p)
  <2>1. /\ dropped' = dropped \cup {pitem[p]} /\ UNCHANGED <<items, consumed, citem, stopped>>
        /\ ppc[p] \in {"refuse", "send"}
    BY <1>3 DEF Refuse, Overflow, chVars, stopVars, cVars
  <2>2. Len(items) = Capacity \/ stopped
    BY <1>3 DEF Refuse, Overflow, Fresh
  <2>3. pitem[p] # NoItem /\ pitem[p] \in Items
    BY <2>1 DEF QInv, QType, InHand
  <2>4. Lossy!Drop(pitem[p])
    BY <1>1, <2>1, <2>2, <2>3 DEF Lossy!Drop, Held
  <2> QED BY <2>3, <2>4 DEF Lossy!Next
<1>4. CASE Send(p)
  <2>1. /\ items' = Append(items, pitem[p]) /\ Len(items) < Capacity
        /\ UNCHANGED <<consumed, citem, dropped, stopped>> /\ ppc[p] = "send"
    BY <1>4 DEF Send, stopVars, cVars
  <2>2. pitem[p] # NoItem /\ pitem[p] \in Items
    BY <2>1 DEF QInv, QType, InHand
  <2>3. Lossy!Accept(pitem[p])
    BY <1>1, <2>1, <2>2 DEF Lossy!Accept, Held
  <2> QED BY <2>2, <2>3 DEF Lossy!Next
<1> QED BY <1>2, <1>3, <1>4 DEF Produce

LEMMA ConsumerMaps ==
  ASSUME QInv, NEW c \in Consumers, Consumer(c)
  PROVE  [Lossy!Next]_(Lossy!lossyVars)
<1>1. CASE Receive(c)
  <2>1. (consumed' \cup Held') \ {NoItem} = ((consumed \cup Held) \ {NoItem}) \cup {Head(items)}
    <3>1. Head(items) # NoItem
      BY <1>1, ReceiveTakes, NoItemAssumption
    <3> QED BY <1>1, <3>1, ReceiveTakes
  <2>2. Lossy!Deliver
    BY <1>1, <2>1, ReceiveTakes DEF Lossy!Deliver
  <2> QED BY <2>2 DEF Lossy!Next
<1>2. CASE Consume(c)
  BY <1>2, ConsumeKeepsDelivered DEF Lossy!lossyVars
<1>3. CASE CountDown(c) \/ ConsumerExits(c)
  <2>1. UNCHANGED <<items, consumed, citem, dropped, stopped>>
    BY <1>3 DEF CountDown, ConsumerExits, chVars, stopVars
  <2> QED BY <2>1 DEF Lossy!lossyVars, Held
<1> QED BY <1>1, <1>2, <1>3 DEF Consumer

LEMMA QueueMaps == QInv /\ Fresh /\ [Next]_qVars => [Lossy!Next]_(Lossy!lossyVars)
<1> SUFFICES ASSUME QInv, Fresh, [Next]_qVars PROVE [Lossy!Next]_(Lossy!lossyVars)
  OBVIOUS
<1>1. CASE DisableProducer
  <2>1. stopped' = TRUE /\ UNCHANGED <<items, consumed, citem, dropped>>
    BY <1>1 DEF DisableProducer, chVars, cVars
  <2>2. Lossy!Shut
    BY <2>1 DEF Lossy!Shut, Held
  <2> QED BY <2>2 DEF Lossy!Next
<1>2. CASE CloseStopCh \/ WaitForConsumers \/ CloseItems \/ ReporterExits \/ UNCHANGED qVars
  <2>1. UNCHANGED <<items, consumed, citem, dropped, stopped>>
    BY <1>2 DEF CloseStopCh, WaitForConsumers, CloseItems, ReporterExits, qVars, chVars,
                stopVars, cVars
  <2> QED BY <2>1 DEF Lossy!lossyVars, Held
<1> QED BY <1>1, <1>2, ProduceMaps, ConsumerMaps DEF Next, Stop

\* The queue implements a bounded queue that drops only when it is full or stopped and
\* never reorders or doubles, whatever its capacity and however many
\* producers and consumers there are.
THEOREM QueueIsLossyQueue == Spec => ImplementsLossyQueue
<1>1. Init => Lossy!Init
  BY DEF Init, Lossy!Init, Held
<1>2. Spec => [](QInv /\ Fresh)
  BY FreshInit, FreshStep, QInvariant, PTL DEF Spec
<1> QED BY <1>1, <1>2, QueueMaps, PTL DEF Spec, ImplementsLossyQueue, Lossy!Spec
-----------------------------------------------------------------------------
(***************************************************************************)
(* The collector.                                                          *)
(***************************************************************************)
\* A step of the collector is a step of its queue, or leaves the queue alone.
LEMMA StepsOfTheQueue == [CollectorNext]_allVars => [Next]_qVars
<1> SUFFICES ASSUME [CollectorNext]_allVars PROVE [Next]_qVars
  OBVIOUS
<1>1. CASE UNCHANGED allVars
  BY <1>1 DEF allVars
<1>2. CASE \E k \in Calls : CallCollector(k) \/ ConnectionFails(k) \/ Answered(k)
  BY <1>2 DEF CallCollector, ConnectionFails, Answered
<1>3. ASSUME NEW p \in Producers, Arrive(p) \/ Handler(p) PROVE [Next]_qVars
  <2>1. CASE Arrive(p) \/ ProcessSpansReturns(p)
    BY <2>1 DEF Arrive, ProcessSpansReturns
  <2>2. CASE EnqueueSpan(p)
    BY <2>2 DEF EnqueueSpan, Next, Produce
  <2>3. CASE ProduceSteps(p)
    BY <2>3 DEF ProduceSteps, Next, Produce
  <2> QED BY <1>3, <2>1, <2>2, <2>3 DEF Handler
<1>4. CASE \E c \in Consumers : Worker(c)
  BY <1>4 DEF Worker, SaveSpan, Next, Consumer
<1>5. CASE (DisableProducer /\ UNCHANGED collectorVars) \/ StopSteps \/ Reporter
  BY <1>5 DEF StopSteps, Reporter, Next, Stop
<1>6. CASE StorageHangs
  BY <1>6 DEF StorageHangs
<1> QED BY <1>1, <1>2, <1>3, <1>4, <1>5, <1>6 DEF CollectorNext

\* The collector implements the specification of the queue.
THEOREM CollectorRunsQueue == CollectorSpec => Spec
<1>1. CollectorInit => Init
  BY DEF CollectorInit
<1> QED BY <1>1, StepsOfTheQueue, PTL DEF CollectorSpec, Spec

THEOREM CollectorQueueSafe == CollectorSpec => [](SizeAccounting /\ StopWaitsForConsumers)
BY CollectorRunsQueue, SizeIsAccounted, StopWaits, PTL

\* The queue inside the collector is such a queue.
THEOREM CollectorIsLossyQueue == CollectorSpec => ImplementsLossyQueue
BY CollectorRunsQueue, QueueIsLossyQueue, PTL
-----------------------------------------------------------------------------
(***************************************************************************)
(* The inductive invariant: where the items of a batch are.                *)
(***************************************************************************)
ItemAt(p, i) == <<SpanAt(p, i), p[2]>>
Kept == Queued \cup Held \cup consumed

CType ==
  /\ attempt \in [Calls -> 0..MaxAttempts]
  /\ answer \in [Calls -> {"none", "ok", "error"}]
  /\ at \in [Producers -> Nat \ {0}]
  /\ \A p \in Producers : at[p] <= Len(Batch[p[1]]) + 1
  /\ result \in [Producers -> {"none", "running", "ok", "busy"}]
  /\ reportBusy \in BOOLEAN

\* What a handler offers is the span before the next one.
Offering ==
  \A p \in Producers : pitem[p] # NoItem => at[p] > 1 /\ pitem[p] = ItemAt(p, at[p] - 1)

\* What was offered is kept, or dropped, or in the hand of the handler.
Taken ==
  \A p \in Producers : \A i \in 1..(at[p] - 1) :
    SpanAt(p, i) \notin Rejected => ItemAt(p, i) \in Kept \cup dropped \cup {pitem[p]}

\* With reportBusy nothing is offered after a span that was dropped.
DroppedIsLast ==
  \A p \in Producers : \A i \in DOMAIN Batch[p[1]] :
    ItemAt(p, i) \in dropped => i < at[p] /\ (reportBusy => i = at[p] - 1)

OkIsWhole ==
  \A p \in Producers : result[p] = "ok" => Done(p) /\ ppc[p] = "idle" /\ ~IsBusy(p)

AckedIsOk ==
  \A k \in Calls : answer[k] = "ok" => attempt[k] > 0 /\ result[<<k, attempt[k]>>] = "ok"

CInv == CType /\ Offering /\ Taken /\ DroppedIsLast /\ OkIsWhole /\ AckedIsOk

LEMMA Handlers ==
  ASSUME NEW p \in Producers
  PROVE  p[1] \in Calls /\ p[2] \in Attempts /\ p = <<p[1], p[2]>>
BY HandlersAssumption

\* Two handlers, or a handler at two places, never have the same item.
LEMMA ItemsDiffer ==
  ASSUME NEW p \in Producers, NEW q \in Producers,
         NEW i \in DOMAIN Batch[p[1]], NEW j \in DOMAIN Batch[q[1]], ItemAt(p, i) = ItemAt(q, j)
  PROVE  p = q /\ i = j
BY Handlers, SpansAssumption DEF ItemAt, SpanAt

LEMMA ItemsAreItems ==
  ASSUME NEW p \in Producers, NEW i \in DOMAIN Batch[p[1]]
  PROVE  ItemAt(p, i) \in Items /\ ItemAt(p, i) # NoItem
BY Handlers, QueueItemsAssumption, NoItemAssumption DEF ItemAt, SpanAt, SpansOf

\* An item that is kept stays kept; one that is dropped stays dropped.
LEMMA NothingForgotten ==
  ASSUME QInv, [Next]_qVars
  PROVE  Kept \ {NoItem} \subseteq Kept' /\ dropped \subseteq dropped'
<1> DEFINE Goal == Kept \ {NoItem} \subseteq Kept' /\ dropped \subseteq dropped'
<1>1. ASSUME NEW p \in Producers, Produce(p) PROVE Goal
  <2>1. CASE Send(p)
    <3>1. pitem[p] \in Items /\ items \in Seq(Items) /\ items' = Append(items, pitem[p])
      BY <2>1 DEF Send, QInv, QType, InHand
    <3>2. Queued \subseteq Queued'
      BY <3>1 DEF Queued
    <3> QED BY <2>1, <3>2 DEF Send, Kept, Held, cVars
  <2>2. CASE ~Send(p)
    BY <1>1, <2>2 DEF Produce, LoadStopped, Refuse, SendOnClosed, Overflow, CountUp, Kept, Held,
                      Queued, chVars, cVars
  <2> QED BY <2>1, <2>2
<1>2. ASSUME NEW c \in Consumers, Consumer(c) PROVE Goal
  <2>1. CASE Receive(c)
    <3>1. ~closed /\ citem[c] = NoItem
      BY <2>1 DEF Receive, QInv, PastWait, InHand
    <3>2. items \in Seq(Items) /\ items # <<>> /\ items' = Tail(items) /\ citem'[c] = Head(items)
      BY <2>1, <3>1 DEF Receive, QInv, QType
    <3>3. ASSUME NEW i \in DOMAIN items PROVE items[i] \in Queued' \cup {Head(items)}
      <4>1. CASE i = 1
        BY <4>1, <3>2
      <4>2. CASE i # 1
        <5>1. i - 1 \in DOMAIN items' /\ items'[i - 1] = items[i]
          BY <4>2, <3>2
        <5> QED BY <5>1 DEF Queued
      <4> QED BY <4>1, <4>2
    <3>4. Held \ {NoItem} \subseteq Held' /\ Head(items) \in Held'
      BY <2>1, <3>1, <3>2 DEF Receive, Held, QInv, QType
    <3> QED BY <2>1, <3>3, <3>4 DEF Receive, Kept, Queued
  <2>2. CASE Consume(c)
    BY <2>2 DEF Consume, Kept, Held, Queued, chVars, QInv, QType
  <2>3. CASE CountDown(c) \/ ConsumerExits(c)
    BY <2>3 DEF CountDown, ConsumerExits, Kept, Held, Queued, chVars
  <2> QED BY <1>2, <2>1, <2>2, <2>3 DEF Consumer
<1>3. CASE Stop \/ ReporterExits \/ UNCHANGED qVars
  BY <1>3 DEF Stop, DisableProducer, CloseStopCh, WaitForConsumers, CloseItems, ReporterExits,
              qVars, Kept, Held, Queued, chVars, cVars
<1> QED BY <1>1, <1>2, <1>3 DEF Next
-----------------------------------------------------------------------------
LEMMA CInit == CollectorInit => CInv
<1> SUFFICES ASSUME CollectorInit PROVE CInv
  OBVIOUS
<1>1. CType
  <2>1. \A p \in Producers : Len(Batch[p[1]]) \in Nat
    BY Handlers, SpansAssumption
  <2> QED BY <2>1, AttemptsAssumption DEF CollectorInit, CType
<1>2. Offering /\ Taken /\ DroppedIsLast
  BY DEF CollectorInit, Init, Offering, Taken, DroppedIsLast
<1>3. OkIsWhole /\ AckedIsOk
  BY DEF CollectorInit, OkIsWhole, AckedIsOk
<1> QED BY <1>1, <1>2, <1>3 DEF CInv

\* Steps that leave the queue and the handlers' places alone.
LEMMA PlacesKept ==
  ASSUME Offering, Taken, DroppedIsLast, UNCHANGED <<qVars, reportBusy, at>>
  PROVE  Offering' /\ Taken' /\ DroppedIsLast'
<1>1. /\ UNCHANGED <<pitem, citem, items, consumed, dropped, ppc, at, reportBusy>>
  BY DEF qVars, chVars, pVars, cVars
<1>2. Kept' = Kept
  BY <1>1 DEF Kept, Held, Queued
<1>3. Offering'
  BY <1>1 DEF Offering, ItemAt, SpanAt
<1>4. Taken'
  BY <1>1, <1>2 DEF Taken, ItemAt, SpanAt
<1>5. DroppedIsLast'
  BY <1>1 DEF DroppedIsLast, ItemAt, SpanAt
<1> QED BY <1>3, <1>4, <1>5

LEMMA OkKept ==
  ASSUME OkIsWhole, UNCHANGED <<qVars, reportBusy, at, result>>
  PROVE  OkIsWhole'
BY DEF OkIsWhole, Done, IsBusy, Refused, SpanAt, qVars, pVars

\* The steps of an agent, of the arrival of a request and of the storage.
LEMMA AgentKeeps ==
  ASSUME CInv, NEW k \in Calls, CallCollector(k) \/ ConnectionFails(k) \/ Answered(k)
  PROVE  CInv'
<1>1. UNCHANGED <<qVars, reportBusy, at, result>>
  BY DEF CallCollector, ConnectionFails, Answered, handlerVars
<1>2. Offering' /\ Taken' /\ DroppedIsLast' /\ OkIsWhole'
  BY <1>1, PlacesKept, OkKept DEF CInv
<1>3. CType'
  <2>1. UNCHANGED <<reportBusy, at, result>>
    BY <1>1
  <2>2. attempt' \in [Calls -> 0..MaxAttempts]
    <3>1. attempt \in [Calls -> 0..MaxAttempts] /\ 1 \in 0..MaxAttempts
      BY AttemptsAssumption DEF CInv, CType
    <3>2. attempt[k] < MaxAttempts => attempt[k] + 1 \in 0..MaxAttempts
      BY <3>1, AttemptsAssumption
    <3>3. \/ UNCHANGED attempt
          \/ \E n \in 0..MaxAttempts : attempt' = [attempt EXCEPT ![k] = n]
      BY <3>1, <3>2 DEF CallCollector, ConnectionFails, Answered
    <3> QED BY <3>1, <3>3
  <2>3. answer' \in [Calls -> {"none", "ok", "error"}]
    BY DEF CInv, CType, CallCollector, ConnectionFails, Answered
  <2> QED BY <2>1, <2>2, <2>3 DEF CInv, CType
<1>4. AckedIsOk'
  <2>1. CASE CallCollector(k)
    <3>1. /\ attempt[k] = 0 /\ attempt' = [attempt EXCEPT ![k] = 1] /\ UNCHANGED <<answer, result>>
          /\ attempt \in [Calls -> 0..MaxAttempts]
      BY <2>1 DEF CInv, CType, CallCollector, handlerVars
    <3>2. ~(attempt[k] > 0)
      BY <3>1
    <3>3. answer[k] # "ok"
      BY <3>2 DEF CInv, AckedIsOk
    <3>4. \A j \in Calls : answer[j] = "ok" => attempt'[j] = attempt[j]
      BY <3>1, <3>3
    <3> QED BY <3>1, <3>4 DEF CInv, AckedIsOk
  <2>2. CASE ConnectionFails(k)
    BY <2>2 DEF CInv, CType, AckedIsOk, ConnectionFails, handlerVars
  <2>3. CASE Answered(k)
    BY <2>3 DEF CInv, CType, AckedIsOk, Answered, handlerVars
  <2> QED BY <2>1, <2>2, <2>3
<1> QED BY <1>2, <1>3, <1>4 DEF CInv

LEMMA ArriveKeeps == ASSUME CInv, NEW p \in Producers, Arrive(p) PROVE CInv'
<1>1. /\ UNCHANGED <<qVars, reportBusy, at, attempt, answer>> /\ result[p] = "none"
      /\ result' = [result EXCEPT ![p] = "running"]
  BY DEF Arrive, callVars
<1>2. Offering' /\ Taken' /\ DroppedIsLast'
  BY <1>1, PlacesKept DEF CInv
<1>3. CType'
  BY <1>1 DEF CInv, CType
<1>4. OkIsWhole'
  BY <1>1 DEF CInv, CType, OkIsWhole, Done, IsBusy, Refused, SpanAt, qVars, pVars
<1>5. AckedIsOk'
  BY <1>1 DEF CInv, CType, AckedIsOk
<1> QED BY <1>2, <1>3, <1>4, <1>5 DEF CInv

\* ProcessSpans returns.
LEMMA ReturnKeeps == ASSUME CInv, NEW p \in Producers, ProcessSpansReturns(p) PROVE CInv'
<1>1. /\ UNCHANGED <<qVars, reportBusy, at, attempt, answer>>
      /\ result[p] = "running" /\ ppc[p] = "idle" /\ (Done(p) \/ IsBusy(p))
      /\ result' = [result EXCEPT ![p] = IF IsBusy(p) THEN "busy" ELSE "ok"]
  BY DEF ProcessSpansReturns, callVars
<1>2. Offering' /\ Taken' /\ DroppedIsLast'
  BY <1>1, PlacesKept DEF CInv
<1>3. CType'
  BY <1>1 DEF CInv, CType
<1>4. OkIsWhole'
  BY <1>1 DEF CInv, CType, OkIsWhole, Done, IsBusy, Refused, SpanAt, qVars, pVars
<1>5. AckedIsOk'
  BY <1>1 DEF CInv, CType, AckedIsOk
<1> QED BY <1>2, <1>3, <1>4, <1>5 DEF CInv

LEMMA Indices ==
  ASSUME CType, NEW p \in Producers
  PROVE  /\ at[p] \in Nat \ {0} /\ Len(Batch[p[1]]) \in Nat /\ at[p] <= Len(Batch[p[1]]) + 1
         /\ DOMAIN Batch[p[1]] = 1..Len(Batch[p[1]])
         /\ \A i \in 1..(at[p] - 1) : i \in DOMAIN Batch[p[1]]
<1>1. Len(Batch[p[1]]) \in Nat /\ DOMAIN Batch[p[1]] = 1..Len(Batch[p[1]])
  BY Handlers, SpansAssumption
<1>2. at[p] \in Nat \ {0} /\ at[p] <= Len(Batch[p[1]]) + 1
  BY DEF CType
<1> QED BY <1>1, <1>2

\* Steps of the queue that are not a producer's.
LEMMA QueueKeeps ==
  ASSUME QInv, CInv, [Next]_qVars, UNCHANGED <<pitem, ppc, dropped, reportBusy, at, result, attempt, answer>>
  PROVE  CInv'
<1>1. Offering' /\ DroppedIsLast'
  BY DEF CInv, Offering, DroppedIsLast, ItemAt, SpanAt
<1>2. Taken'
  <2> SUFFICES ASSUME NEW p \in Producers, NEW i \in 1..(at[p] - 1), SpanAt(p, i) \notin Rejected
               PROVE  ItemAt(p, i) \in Kept' \cup dropped \cup {pitem[p]}
    BY DEF Taken, ItemAt, SpanAt
  <2>1. ItemAt(p, i) \in Kept \cup dropped \cup {pitem[p]}
    BY DEF CInv, Taken
  <2>2. ItemAt(p, i) # NoItem
    BY Indices, ItemsAreItems DEF CInv
  <2> QED BY <2>1, <2>2, NothingForgotten
<1>3. OkIsWhole'
  BY DEF CInv, OkIsWhole, Done, IsBusy, Refused, SpanAt
<1>4. CType' /\ AckedIsOk'
  BY DEF CInv, CType, AckedIsOk
<1> QED BY <1>1, <1>2, <1>3, <1>4 DEF CInv

\* A producer that gives its item away.
LEMMA GiveAwayKeeps ==
  ASSUME QInv, CInv, [Next]_qVars, NEW p \in Producers,
         UNCHANGED <<reportBusy, at, result, attempt, answer>>,
         pitem' = [pitem EXCEPT ![p] = NoItem],
         ppc[p] # "idle", \A q \in Producers \ {p} : ppc'[q] = ppc[q],
         dropped' \subseteq dropped \cup ({pitem[p]} \ {NoItem}),
         pitem[p] \in Kept' \cup dropped' \cup {NoItem}
  PROVE  CInv'
<1>1. \A q \in Producers : pitem'[q] = IF q = p THEN NoItem ELSE pitem[q]
  BY DEF QInv, QType
<1>2. Offering'
  BY <1>1 DEF CInv, Offering, ItemAt, SpanAt
<1>3. Taken'
  <2> SUFFICES ASSUME NEW q \in Producers, NEW i \in 1..(at[q] - 1), SpanAt(q, i) \notin Rejected
               PROVE  ItemAt(q, i) \in Kept' \cup dropped' \cup {pitem'[q]}
    BY DEF Taken, ItemAt, SpanAt
  <2>1. ItemAt(q, i) \in Kept \cup dropped \cup {pitem[q]}
    BY DEF CInv, Taken
  <2>2. ItemAt(q, i) # NoItem
    BY Indices, ItemsAreItems DEF CInv
  <2> QED BY <1>1, <2>1, <2>2, NothingForgotten
<1>4. ASSUME NEW q \in Producers, NEW i \in DOMAIN Batch[q[1]],
             ItemAt(q, i) \in dropped', ItemAt(q, i) \notin dropped
      PROVE  q = p /\ i = at[p] - 1 /\ at[p] \in Nat \ {0}
  <2>1. ItemAt(q, i) = pitem[p] /\ pitem[p] # NoItem
    BY <1>4
  <2>2. at[p] > 1 /\ ItemAt(q, i) = ItemAt(p, at[p] - 1)
    BY <2>1 DEF CInv, Offering
  <2>3. at[p] - 1 \in DOMAIN Batch[p[1]] /\ at[p] \in Nat \ {0}
    BY <2>2, Indices DEF CInv
  <2> QED BY <2>2, <2>3, ItemsDiffer
<1>5. DroppedIsLast'
  <2> SUFFICES ASSUME NEW q \in Producers, NEW i \in DOMAIN Batch[q[1]], ItemAt(q, i) \in dropped'
               PROVE  i < at[q] /\ (reportBusy => i = at[q] - 1)
    BY DEF DroppedIsLast, ItemAt, SpanAt
  <2>1. CASE ItemAt(q, i) \in dropped
    BY <2>1 DEF CInv, DroppedIsLast
  <2>2. CASE ItemAt(q, i) \notin dropped
    BY <2>2, <1>4
  <2> QED BY <2>1, <2>2
<1>6. OkIsWhole'
  <2> SUFFICES ASSUME NEW q \in Producers, result[q] = "ok"
               PROVE  Done(q) /\ ppc'[q] = "idle" /\ ~IsBusy(q)'
    BY DEF OkIsWhole, Done
  <2>1. Done(q) /\ ppc[q] = "idle" /\ ~IsBusy(q)
    BY DEF CInv, OkIsWhole
  <2>2. q # p /\ ppc'[q] = "idle"
    BY <2>1
  <2>3. ASSUME IsBusy(q)' PROVE FALSE
    <3>1. reportBusy /\ at[q] > 1 /\ ItemAt(q, at[q] - 1) \in dropped'
      BY <2>3 DEF IsBusy, Refused, ItemAt, SpanAt
    <3>2. ItemAt(q, at[q] - 1) \notin dropped
      BY <2>1, <3>1 DEF IsBusy, Refused, ItemAt
    <3>3. at[q] - 1 \in DOMAIN Batch[q[1]]
      BY <3>1, Indices DEF CInv
    <3> QED BY <1>4, <2>2, <3>1, <3>2, <3>3
  <2> QED BY <2>1, <2>2, <2>3
<1>7. CType' /\ AckedIsOk'
  BY DEF CInv, CType, AckedIsOk
<1> QED BY <1>2, <1>3, <1>5, <1>6, <1>7 DEF CInv

LEMMA ProduceStepsKeep ==
  ASSUME QInv, CInv, [Next]_qVars, NEW p \in Producers, ProduceSteps(p)
  PROVE  CInv'
<1>1. UNCHANGED <<reportBusy, at, result, attempt, answer>>
  BY DEF ProduceSteps, collectorVars, callVars, handlerVars
<1>2. CASE SendOnClosed(p)
  BY <1>1, <1>2, QueueKeeps DEF SendOnClosed, pVars
<1>3. CASE Send(p)
  <2>1. pitem' = [pitem EXCEPT ![p] = NoItem] /\ dropped' = dropped /\ ppc[p] = "send"
    BY <1>3 DEF Send
  <2>2. \A q \in Producers \ {p} : ppc'[q] = ppc[q]
    BY <1>3 DEF Send, QInv, QType
  <2>3. pitem[p] \in Kept'
    <3>1. pitem[p] \in Items /\ items \in Seq(Items) /\ items' = Append(items, pitem[p])
      BY <1>3 DEF Send, QInv, QType, InHand
    <3>2. Len(items) + 1 \in DOMAIN items' /\ items'[Len(items) + 1] = pitem[p]
      BY <3>1
    <3> QED BY <3>2 DEF Kept, Queued
  <2> QED BY <1>1, <2>1, <2>2, <2>3, GiveAwayKeeps
<1>4. CASE Refuse(p) \/ Overflow(p)
  <2>1. /\ pitem' = [pitem EXCEPT ![p] = NoItem] /\ ppc[p] \in {"refuse", "send"}
        /\ dropped' = dropped \cup {pitem[p]} /\ pitem[p] # NoItem
    BY <1>4 DEF Refuse, Overflow, ReturnFrom, QInv, InHand
  <2>2. \A q \in Producers \ {p} : ppc'[q] = ppc[q]
    BY <1>4 DEF Refuse, Overflow, ReturnFrom, QInv, QType
  <2> QED BY <1>1, <2>1, <2>2, GiveAwayKeeps
<1>5. CASE CountUp(p)
  <2>1. /\ pitem' = [pitem EXCEPT ![p] = NoItem] /\ ppc[p] = "count"
        /\ dropped' = dropped
    BY <1>5 DEF CountUp, ReturnFrom
  <2>2. \A q \in Producers \ {p} : ppc'[q] = ppc[q]
    BY <1>5 DEF CountUp, ReturnFrom, QInv, QType
  <2>3. pitem[p] = NoItem
    BY <2>1 DEF QInv, QType, InHand
  <2> QED BY <1>1, <2>1, <2>2, <2>3, GiveAwayKeeps
<1> QED BY <1>2, <1>3, <1>4, <1>5 DEF ProduceSteps

LEMMA EnqueueKeeps ==
  ASSUME QInv, CInv, [Next]_qVars, NEW p \in Producers, EnqueueSpan(p)
  PROVE  CInv'
<1>1. /\ UNCHANGED <<reportBusy, result, attempt, answer, dropped>>
      /\ result[p] = "running" /\ ppc[p] = "idle" /\ ~Done(p) /\ ~IsBusy(p)
      /\ at' = [at EXCEPT ![p] = @ + 1]
  BY DEF EnqueueSpan, LoadStopped, callVars, qVars
<1>2. /\ at[p] \in DOMAIN Batch[p[1]] /\ at[p] \in Nat \ {0} /\ Len(Batch[p[1]]) \in Nat
      /\ at'[p] = at[p] + 1 /\ \A q \in Producers \ {p} : at'[q] = at[q]
  BY <1>1, Indices DEF CInv, CType, Done
<1>3. pitem[p] = NoItem
  BY <1>1 DEF QInv, QType, InHand
<1>4. \/ SpanAt(p, at[p]) \in Rejected /\ UNCHANGED <<pitem, ppc>>
      \/ /\ pitem'[p] = ItemAt(p, at[p])
         /\ \A q \in Producers \ {p} : pitem'[q] = pitem[q] /\ ppc'[q] = ppc[q]
  BY DEF EnqueueSpan, LoadStopped, qVars, pVars, QInv, QType, ItemAt
<1>5. \A q \in Producers \ {p} : pitem'[q] = pitem[q] /\ ppc'[q] = ppc[q]
  BY <1>4
<1>6. Offering'
  <2> SUFFICES ASSUME NEW q \in Producers, pitem'[q] # NoItem
               PROVE  at'[q] > 1 /\ pitem'[q] = ItemAt(q, at'[q] - 1)
    BY DEF Offering, ItemAt, SpanAt
  <2>1. CASE q = p
    BY <1>2, <1>3, <1>4, <2>1
  <2>2. CASE q # p
    BY <1>2, <1>5, <2>2 DEF CInv, Offering
  <2> QED BY <2>1, <2>2
<1>7. Taken'
  <2> SUFFICES ASSUME NEW q \in Producers, NEW i \in 1..(at'[q] - 1), SpanAt(q, i) \notin Rejected
               PROVE  ItemAt(q, i) \in Kept' \cup dropped' \cup {pitem'[q]}
    BY DEF Taken, ItemAt, SpanAt
  <2>1. CASE q = p /\ i = at[p]
    BY <1>4, <2>1
  <2>2. CASE ~(q = p /\ i = at[p])
    <3>1. i \in 1..(at[q] - 1)
      BY <1>2, <2>2, Indices DEF CInv
    <3>2. ItemAt(q, i) \in Kept \cup dropped \cup {pitem[q]}
      BY <3>1 DEF CInv, Taken
    <3>3. ItemAt(q, i) # NoItem
      BY <3>1, Indices, ItemsAreItems DEF CInv
    <3>4. q # p => pitem'[q] = pitem[q]
      BY <1>5
    <3> QED BY <1>3, <3>2, <3>3, <3>4, NothingForgotten
  <2> QED BY <2>1, <2>2
<1>8. DroppedIsLast'
  <2> SUFFICES ASSUME NEW q \in Producers, NEW i \in DOMAIN Batch[q[1]], ItemAt(q, i) \in dropped
               PROVE  i < at'[q] /\ (reportBusy => i = at'[q] - 1)
    BY <1>1 DEF DroppedIsLast, ItemAt, SpanAt
  <2>1. i < at[q] /\ (reportBusy => i = at[q] - 1)
    BY DEF CInv, DroppedIsLast
  <2>2. i \in Nat /\ i > 0 /\ at[q] \in Nat
    BY Indices DEF CInv
  <2>3. i < at'[q]
    BY <1>2, <2>1, <2>2
  <2>4. ASSUME reportBusy, q = p PROVE FALSE
    <3>1. i = at[p] - 1
      BY <2>1, <2>4
    <3>2. at[p] > 1
      BY <3>1, <2>2, <2>4
    <3>3. ItemAt(p, at[p] - 1) \in dropped
      BY <3>1, <2>4
    <3> QED BY <1>1, <2>4, <3>2, <3>3 DEF IsBusy, Refused, ItemAt
  <2>5. ASSUME reportBusy PROVE i = at'[q] - 1
    <3>1. q # p
      BY <2>4, <2>5
    <3> QED BY <1>2, <2>1, <2>5, <3>1
  <2> QED BY <2>3, <2>5
<1>9. OkIsWhole'
  <2> SUFFICES ASSUME NEW q \in Producers, result[q] = "ok"
               PROVE  Done(q)' /\ ppc'[q] = "idle" /\ ~IsBusy(q)'
    BY <1>1 DEF OkIsWhole
  <2>1. q # p
    BY <1>1
  <2>2. Done(q) /\ ppc[q] = "idle" /\ ~IsBusy(q)
    BY DEF CInv, OkIsWhole
  <2>3. at'[q] = at[q] /\ ppc'[q] = ppc[q] /\ reportBusy' = reportBusy /\ dropped' = dropped
    BY <1>1, <1>2, <1>5, <2>1
  <2> QED BY <2>2, <2>3 DEF Done, IsBusy, Refused, SpanAt
<1>10. CType'
  <2>1. at' \in [Producers -> Nat \ {0}]
    BY <1>1, <1>2 DEF CInv, CType
  <2>2. \A q \in Producers : at'[q] <= Len(Batch[q[1]]) + 1
    <3> SUFFICES ASSUME NEW q \in Producers PROVE at'[q] <= Len(Batch[q[1]]) + 1
      OBVIOUS
    <3>1. at[q] <= Len(Batch[q[1]]) + 1 /\ at[q] \in Nat /\ Len(Batch[q[1]]) \in Nat
      BY Indices DEF CInv
    <3>2. CASE q = p
      <4>1. at[p] <= Len(Batch[p[1]])
        BY <1>1, <3>1, <3>2 DEF Done
      <4> QED BY <1>2, <3>1, <3>2, <4>1
    <3>3. CASE q # p
      BY <1>2, <3>1, <3>3
    <3> QED BY <3>2, <3>3
  <2>3. /\ UNCHANGED <<reportBusy, result, attempt, answer>>
        /\ CType
    BY <1>1 DEF CInv
  <2> QED BY <2>1, <2>2, <2>3 DEF CType
<1>11. AckedIsOk'
  BY <1>1 DEF CInv, AckedIsOk
<1> QED BY <1>6, <1>7, <1>8, <1>9, <1>10, <1>11 DEF CInv

LEMMA CStep == QInv /\ CInv /\ [CollectorNext]_allVars => CInv'
<1> SUFFICES ASSUME QInv, CInv, [CollectorNext]_allVars PROVE CInv'
  OBVIOUS
<1> USE StepsOfTheQueue
<1>1. CASE \E k \in Calls : CallCollector(k) \/ ConnectionFails(k) \/ Answered(k)
  BY <1>1, AgentKeeps
<1>2. CASE \E p \in Producers : Arrive(p) \/ Handler(p)
  BY <1>2, ArriveKeeps, ReturnKeeps, EnqueueKeeps, ProduceStepsKeep DEF Handler
<1>3. CASE \/ \E c \in Consumers : Worker(c)
           \/ DisableProducer /\ UNCHANGED collectorVars
           \/ StopSteps \/ Reporter \/ StorageHangs \/ UNCHANGED allVars
  <2>1. UNCHANGED <<reportBusy, at, result, attempt, answer>>
    BY <1>3 DEF Worker, SaveSpan, StopSteps, Reporter, StorageHangs, allVars, collectorVars,
                callVars, handlerVars
  <2>2. UNCHANGED <<pitem, ppc, dropped>>
    BY <1>3 DEF Worker, SaveSpan, Receive, CountDown, Consume, ConsumerExits, DisableProducer,
                StopSteps, CloseStopCh, WaitForConsumers, CloseItems, Reporter, ReporterExits,
                StorageHangs, allVars, qVars, pVars
  <2> QED BY <2>1, <2>2, QueueKeeps
<1> QED BY <1>1, <1>2, <1>3 DEF CollectorNext

LEMMA CImplies == QInv /\ CInv => AcknowledgedIsAccepted
<1> SUFFICES ASSUME QInv, CInv, NEW k \in Calls, answer[k] = "ok"
             PROVE  \E n \in 1..attempt[k] : \A s \in SpansOf(k) \ Rejected :
                      \/ <<s, n>> \in Queued \cup Held \cup consumed
                      \/ ~reportBusy /\ <<s, n>> \in dropped
  BY DEF AcknowledgedIsAccepted
<1> DEFINE n == attempt[k]
           p == <<k, n>>
<1>1. n \in 1..attempt[k] /\ n \in Attempts /\ result[p] = "ok"
  BY AttemptsAssumption DEF CInv, CType, AckedIsOk, Attempts
<1>2. p \in Producers /\ p[1] = k /\ p[2] = n
  BY <1>1, HandlersAssumption
<1>3. Done(p) /\ ppc[p] = "idle" /\ ~IsBusy(p)
  BY <1>1, <1>2 DEF CInv, OkIsWhole
<1>4. pitem[p] = NoItem
  BY <1>2, <1>3 DEF QInv, QType, InHand
<1>5. ASSUME NEW s \in SpansOf(k) \ Rejected
      PROVE  <<s, n>> \in Kept \/ (~reportBusy /\ <<s, n>> \in dropped)
  <2>1. PICK i \in DOMAIN Batch[k] : s = Batch[k][i]
    BY DEF SpansOf
  <2>2. i \in DOMAIN Batch[p[1]] /\ ItemAt(p, i) = <<s, n>> /\ SpanAt(p, i) = s
    BY <1>2, <2>1 DEF ItemAt, SpanAt
  <2>3. i \in 1..(at[p] - 1) /\ at[p] \in Nat
    BY <1>2, <1>3, <2>2, Indices DEF CInv, Done
  <2>4. <<s, n>> \in Kept \cup dropped \cup {pitem[p]}
    BY <1>2, <1>5, <2>2, <2>3 DEF CInv, Taken
  <2>5. <<s, n>> # NoItem
    BY <1>2, <2>2, ItemsAreItems
  <2>6. ASSUME reportBusy, <<s, n>> \in dropped PROVE FALSE
    <3>1. i = at[p] - 1
      BY <1>2, <2>2, <2>6 DEF CInv, DroppedIsLast
    <3>2. at[p] > 1 /\ ItemAt(p, at[p] - 1) \in dropped
      BY <2>2, <2>3, <2>6, <3>1
    <3> QED BY <1>3, <2>6, <3>2 DEF IsBusy, Refused, ItemAt
  <2> QED BY <1>4, <2>4, <2>5, <2>6
<1> QED BY <1>1, <1>5 DEF Kept

\* An acknowledged batch was accepted as a whole, or, without reportBusy, dropped.
THEOREM Acknowledged == CollectorSpec => []AcknowledgedIsAccepted
<1>1. CollectorSpec => []QInv
  BY CollectorRunsQueue, QInvariant, PTL
<1>2. CollectorSpec => []CInv
  BY <1>1, CInit, CStep, PTL DEF CollectorSpec
<1> QED BY <1>1, <1>2, CImplies, PTL
=============================================================================
