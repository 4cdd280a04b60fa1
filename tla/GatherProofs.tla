---------------------------- MODULE GatherProofs ----------------------------
(***************************************************************************)
(* Proofs about tprof and the store it reads, for every set of spans, every *)
(* ring size, search depth, services map and number of copies or stops.    *)
(***************************************************************************)
EXTENDS Gather, TLAPS, FiniteSetTheorems, SequenceTheorems

-----------------------------------------------------------------------------
(***************************************************************************)
(* The store.                                                              *)
(***************************************************************************)
\* The inductive invariant: types, and the ring in step with the map.
StoreInv == StoreTypeOK /\ RingMatchesStore /\ NeverPanics

\* The slot after the newest one is a slot of the ring.
LEMMA NextSlotInRing ==
  ASSUME MaxTraces > 0, StoreTypeOK
  PROVE  NextSlot \in 0..(MaxTraces - 1)
BY MaxTracesAssumption, SMT DEF NextSlot, StoreTypeOK

\* The state of a store that was just made (NewStore).
LEMMA FreshStore ==
  ASSUME StoreInit
  PROVE  StoreInv /\ StoredIsIndexed
<1>1. /\ Stored = {}
      /\ MaxTraces \in Nat
  BY MaxTracesAssumption DEF StoreInit, Stored
<1>2. StoreTypeOK
  <2>1. traces = [t \in Stored |-> traces[t]]
    BY <1>1 DEF StoreInit, Stored
  <2>2. \A t \in Stored : traces[t] \in Seq(Spans) /\ traces[t] # <<>>
    BY <1>1
  <2>3. ids \in [0..(MaxTraces - 1) -> Traces \cup {NoTrace}]
    BY DEF StoreInit
  <2>4. index \in Nat /\ (MaxTraces > 0 => index \in 0..(MaxTraces - 1))
    BY <1>1, SMT DEF StoreInit
  <2>5. services \subseteq Services /\ operations \in [Services -> SUBSET Operations]
    BY DEF StoreInit
  <2>6. panicked \in BOOLEAN
    BY DEF StoreInit
  <2> QED
    BY <1>1, <2>1, <2>2, <2>3, <2>4, <2>5, <2>6 DEF StoreTypeOK
<1>3. RingMatchesStore
  BY <1>1, SMT DEF StoreInit, RingMatchesStore
<1>4. NeverPanics /\ StoredIsIndexed
  BY <1>1 DEF StoreInit, NeverPanics, StoredIsIndexed
<1> QED
  BY <1>2, <1>3, <1>4 DEF StoreInv

\* WriteSpan on a trace that has an entry.
LEMMA AddToTraceInv ==
  ASSUME StoreInv, NEW s \in Spans, AddToTrace(s),
         services' \subseteq Services, operations' \in [Services -> SUBSET Operations]
  PROVE  StoreInv'
<1>1. Stored' = Stored
  BY DEF AddToTrace, Stored
<1>2. \A t \in Stored : traces'[t] \in Seq(Spans) /\ traces'[t] # <<>>
  <2> SUFFICES ASSUME NEW t \in Stored
               PROVE  traces'[t] \in Seq(Spans) /\ traces'[t] # <<>>
    OBVIOUS
  <2>1. traces[t] \in Seq(Spans) /\ traces[t] # <<>>
    BY DEF StoreInv, StoreTypeOK
  <2>2. CASE t = s.trace
    <3>1. traces'[t] = Append(traces[t], s)
      BY <2>2 DEF AddToTrace, Stored
    <3>2. Append(traces[t], s) \in Seq(Spans) /\ Append(traces[t], s) # <<>>
      BY <2>1
    <3> QED
      BY <3>1, <3>2
  <2>3. CASE t # s.trace
    BY <2>1, <2>3 DEF AddToTrace, Stored
  <2> QED
    BY <2>2, <2>3
<1>3. traces' = [t \in Stored' |-> traces'[t]]
  BY <1>1 DEF AddToTrace, Stored
<1>4. StoreTypeOK'
  BY <1>1, <1>2, <1>3 DEF AddToTrace, StoreInv, StoreTypeOK
<1>5. RingMatchesStore' /\ NeverPanics'
  BY <1>1 DEF AddToTrace, StoreInv, RingMatchesStore, NeverPanics
<1> QED
  BY <1>4, <1>5 DEF StoreInv

\* WriteSpan opening a trace in an unbounded store.
LEMMA NewTraceUnboundedInv ==
  ASSUME StoreInv, NEW s \in Spans, NewTraceUnbounded(s),
         services' \subseteq Services, operations' \in [Services -> SUBSET Operations]
  PROVE  StoreInv'
<1>0. s.trace \in Traces
  BY SpansAssumption DEF SpanType
<1>1. Stored' = Stored \cup {s.trace}
  BY DEF NewTraceUnbounded, Stored
<1>2. \A t \in Stored' : traces'[t] \in Seq(Spans) /\ traces'[t] # <<>>
  BY <1>1, SMT DEF NewTraceUnbounded, StoreInv, StoreTypeOK
<1>3. traces' = [t \in Stored' |-> traces'[t]]
  BY <1>1 DEF NewTraceUnbounded
<1>4. StoreTypeOK'
  BY <1>0, <1>1, <1>2, <1>3 DEF NewTraceUnbounded, StoreInv, StoreTypeOK
<1>5. RingMatchesStore' /\ NeverPanics'
  BY MaxTracesAssumption, SMT DEF NewTraceUnbounded, StoreInv, RingMatchesStore, NeverPanics
<1> QED
  BY <1>4, <1>5 DEF StoreInv

\* WriteSpan opening a trace in the ring: the reused slot's trace leaves the map
\* and cannot be the new one, because a trace in the ring is in the map.
LEMMA NewTraceInRingInv ==
  ASSUME StoreInv, NEW s \in Spans, NewTraceInRing(s),
         services' \subseteq Services, operations' \in [Services -> SUBSET Operations]
  PROVE  StoreInv'
<1> DEFINE Slots == 0..(MaxTraces - 1)
<1>0. /\ s.trace \in Traces
      /\ s.trace # NoTrace
      /\ MaxTraces \in Nat /\ MaxTraces > 0
  BY SpansAssumption, NoTraceAssumption, MaxTracesAssumption
     DEF SpanType, NewTraceInRing
<1>1. NextSlot \in Slots
  BY <1>0, NextSlotInRing DEF StoreInv
<1>2. /\ ids \in [Slots -> Traces \cup {NoTrace}]
      /\ Stored = {ids[i] : i \in Slots} \ {NoTrace}
      /\ \A i, j \in Slots : ids[i] = ids[j] /\ ids[i] # NoTrace => i = j
  BY <1>0 DEF StoreInv, StoreTypeOK, RingMatchesStore
<1>3. ids[NextSlot] # s.trace
  BY <1>0, <1>1, <1>2 DEF NewTraceInRing
<1>4. /\ Stored' = (Stored \cup {s.trace}) \ {ids[NextSlot]}
      /\ traces' = [t \in Stored' |-> traces'[t]]
      /\ ids' = [ids EXCEPT ![NextSlot] = s.trace]
      /\ index' = NextSlot
  BY DEF NewTraceInRing, Stored
<1>5. \A t \in Stored' : traces'[t] \in Seq(Spans) /\ traces'[t] # <<>>
  BY <1>4, SMT DEF NewTraceInRing, StoreInv, StoreTypeOK
<1>6. StoreTypeOK'
  <2>1. ids' \in [Slots -> Traces \cup {NoTrace}]
    BY <1>0, <1>1, <1>2, <1>4
  <2>2. Stored' \subseteq Traces
    BY <1>0, <1>4 DEF StoreInv, StoreTypeOK
  <2>3. index' \in Nat /\ index' \in Slots
    BY <1>0, <1>1, <1>4, SMT
  <2>4. panicked' \in BOOLEAN
    BY DEF NewTraceInRing
  <2> QED
    BY <1>4, <1>5, <2>1, <2>2, <2>3, <2>4 DEF StoreTypeOK
<1>7. RingMatchesStore'
  <2>1. \A i \in Slots : ids'[i] = IF i = NextSlot THEN s.trace ELSE ids[i]
    BY <1>1, <1>2, <1>4
  <2>2. \A i \in Slots : i # NextSlot => ids[i] # s.trace
    BY <1>0, <1>2 DEF NewTraceInRing
  <2>3. \A i, j \in Slots : ids'[i] = ids'[j] /\ ids'[i] # NoTrace => i = j
    BY <1>2, <2>1, <2>2
  <2>4. {ids'[i] : i \in Slots} \ {NoTrace}
          = (({ids[i] : i \in Slots} \ {NoTrace}) \cup {s.trace}) \ {ids[NextSlot]}
    BY <1>0, <1>1, <1>2, <1>3, <2>1
  <2>5. Stored' = {ids'[i] : i \in Slots} \ {NoTrace}
    BY <1>2, <1>4, <2>4
  <2> QED
    BY <2>3, <2>5 DEF RingMatchesStore
<1>8. NeverPanics'
  BY <1>3 DEF NewTraceInRing, NeverPanics
<1> QED
  BY <1>6, <1>7, <1>8 DEF StoreInv

\* Every WriteSpan preserves the invariant.
LEMMA WriteSpanInv ==
  ASSUME StoreInv, NEW s \in Spans, WriteSpan(s)
  PROVE  StoreInv'
<1>1. services' \subseteq Services
  BY SpansAssumption DEF WriteSpan, StoreInv, StoreTypeOK, SpanType
<1>2. operations' \in [Services -> SUBSET Operations]
  BY SpansAssumption DEF WriteSpan, StoreInv, StoreTypeOK, SpanType
<1> QED
  BY <1>1, <1>2, AddToTraceInv, NewTraceUnboundedInv, NewTraceInRingInv DEF WriteSpan

\* A restart leaves a fresh store.
LEMMA RestartInv ==
  ASSUME Restart
  PROVE  StoreInv'
<1>1. Stored' = {} /\ MaxTraces \in Nat
  BY MaxTracesAssumption DEF Restart, Stored
<1>2. StoreTypeOK'
  <2>1. traces' = [t \in Stored' |-> traces'[t]]
    BY <1>1 DEF Restart, Stored
  <2>2. \A t \in Stored' : traces'[t] \in Seq(Spans) /\ traces'[t] # <<>>
    BY <1>1
  <2>3. ids' \in [0..(MaxTraces - 1) -> Traces \cup {NoTrace}]
    BY DEF Restart
  <2>4. index' \in Nat /\ (MaxTraces > 0 => index' \in 0..(MaxTraces - 1))
    BY <1>1, SMT DEF Restart
  <2>5. services' \subseteq Services /\ operations' \in [Services -> SUBSET Operations]
    BY DEF Restart
  <2>6. panicked' \in BOOLEAN
    BY DEF Restart
  <2> QED
    BY <1>1, <2>1, <2>2, <2>3, <2>4, <2>5, <2>6 DEF StoreTypeOK
<1>3. RingMatchesStore' /\ NeverPanics'
  BY <1>1, SMT DEF Restart, RingMatchesStore, NeverPanics
<1> QED
  BY <1>2, <1>3 DEF StoreInv

\* Type correctness of the Store struct, the agreement of ring and map, and the
\* absence of the nil dereference, for every ring size (memory.go:117-147).
THEOREM StoreInvariant == StoreSpec => [](StoreTypeOK /\ RingMatchesStore /\ NeverPanics)
<1>1. StoreInit => StoreInv
  BY FreshStore
<1>2. StoreInv /\ [StoreNext]_storeVars => StoreInv'
  <2> SUFFICES ASSUME StoreInv, [StoreNext]_storeVars PROVE StoreInv'
    OBVIOUS
  <2>1. CASE \E s \in Spans : WriteSpan(s)
    BY <2>1, WriteSpanInv
  <2>2. CASE Restart
    BY <2>2, RestartInv
  <2>3. CASE UNCHANGED storeVars
    BY <2>3 DEF storeVars, StoreInv, StoreTypeOK, RingMatchesStore, NeverPanics, Stored
  <2> QED
    BY <2>1, <2>2, <2>3 DEF StoreNext
<1>3. StoreInv => StoreTypeOK /\ RingMatchesStore /\ NeverPanics
  BY DEF StoreInv
<1> QED
  BY <1>1, <1>2, <1>3, PTL DEF StoreSpec
-----------------------------------------------------------------------------
(***************************************************************************)
(* What one WriteSpan does to the spans of a trace.                        *)
(***************************************************************************)
\* Appending keeps the old elements in place and adds the new one at the end.
LEMMA AppendElements ==
  ASSUME NEW q \in Seq(Spans), NEW e \in Spans
  PROVE  /\ Append(q, e) \in Seq(Spans)
         /\ DOMAIN Append(q, e) = 1..(Len(q) + 1)
         /\ DOMAIN q = 1..Len(q)
         /\ Len(q) \in Nat
         /\ Append(q, e)[Len(q) + 1] = e
         /\ \A i \in DOMAIN q : Append(q, e)[i] = q[i]
BY SMT

\* The sequences after the write: unchanged, extended by the span, or new.
LEMMA WriteSpanSequences ==
  ASSUME StoreInv, NEW s \in Spans, WriteSpan(s)
  PROVE  \A t \in Stored' :
           \/ t \in Stored /\ traces'[t] = traces[t]
           \/ t = s.trace /\ t \in Stored /\ traces'[t] = Append(traces[t], s)
           \/ t = s.trace /\ traces'[t] = <<s>>
<1>1. CASE AddToTrace(s)
  BY <1>1 DEF AddToTrace, Stored
<1>2. CASE NewTraceUnbounded(s)
  BY <1>2 DEF NewTraceUnbounded, Stored
<1>3. CASE NewTraceInRing(s)
  BY <1>3 DEF NewTraceInRing, Stored
<1> QED
  BY <1>1, <1>2, <1>3 DEF WriteSpan

\* A span that is in a trace after the write was there before, or is the written
\* one; and the spans of a trace that stays are kept.
LEMMA WriteSpanSpans ==
  ASSUME StoreInv, NEW s \in Spans, WriteSpan(s)
  PROVE  /\ \A t \in Stored' : \A x \in SpansOf(t)' :
              (x = s /\ t = s.trace) \/ (t \in Stored /\ x \in SpansOf(t))
         /\ \A t \in Stored \cap Stored' : SpansOf(t) \subseteq SpansOf(t)'
<1>0. \A t \in Stored : traces[t] \in Seq(Spans)
  BY DEF StoreInv, StoreTypeOK
<1>1. ASSUME NEW t \in Stored', NEW x \in SpansOf(t)'
      PROVE  (x = s /\ t = s.trace) \/ (t \in Stored /\ x \in SpansOf(t))
  <2>1. PICK i \in DOMAIN traces'[t] : x = traces'[t][i]
    BY <1>1 DEF SpansOf
  <2>2. CASE t \in Stored /\ traces'[t] = traces[t]
    BY <2>1, <2>2 DEF SpansOf
  <2>3. CASE t = s.trace /\ t \in Stored /\ traces'[t] = Append(traces[t], s)
    <3>1. i = Len(traces[t]) + 1 \/ i \in DOMAIN traces[t]
      BY <1>0, <2>1, <2>3, AppendElements, SMT
    <3> QED
      BY <1>0, <2>1, <2>3, <3>1, AppendElements DEF SpansOf
  <2>4. CASE t = s.trace /\ traces'[t] = <<s>>
    BY <2>1, <2>4, SMT
  <2> QED
    BY <2>2, <2>3, <2>4, WriteSpanSequences
<1>2. ASSUME NEW t \in Stored \cap Stored', NEW x \in SpansOf(t)
      PROVE  x \in SpansOf(t)'
  <2>1. PICK i \in DOMAIN traces[t] : x = traces[t][i]
    BY <1>2 DEF SpansOf
  <2>2. CASE traces'[t] = traces[t]
    BY <2>1, <2>2 DEF SpansOf
  <2>3. CASE traces'[t] = Append(traces[t], s)
    <3>1. i \in DOMAIN traces'[t] /\ traces'[t][i] = x
      BY <1>0, <2>1, <2>3, AppendElements, SMT
    <3> QED
      BY <3>1 DEF SpansOf
  <2>4. CASE t = s.trace /\ traces'[t] = <<s>> /\ traces'[t] # traces[t]
                /\ traces'[t] # Append(traces[t], s)
    <3>1. AddToTrace(s)
      BY <2>4 DEF WriteSpan, NewTraceUnbounded, NewTraceInRing
    <3> QED
      BY <2>4, <3>1 DEF AddToTrace, Stored
  <2> QED
    BY <2>2, <2>3, <2>4, WriteSpanSequences
<1> QED
  BY <1>1, <1>2

\* The index of services and operations covers the store after every write.
LEMMA WriteSpanIndexed ==
  ASSUME StoreInv, StoredIsIndexed, NEW s \in Spans, WriteSpan(s)
  PROVE  StoredIsIndexed'
<1>1. /\ services' = services \cup {s.service}
      /\ operations' = [operations EXCEPT ![s.service] = @ \cup {s.operation}]
      /\ operations \in [Services -> SUBSET Operations]
      /\ s.service \in Services
  BY SpansAssumption DEF WriteSpan, StoreInv, StoreTypeOK, SpanType
<1>2. \A t \in Stored : \A x \in SpansOf(t) : x \in Spans
  BY DEF StoreInv, StoreTypeOK, SpansOf
<1> SUFFICES ASSUME NEW t \in Stored', NEW x \in SpansOf(t)'
             PROVE  /\ x.trace = t
                    /\ x.service \in services'
                    /\ x.operation \in operations'[x.service]
  BY DEF StoredIsIndexed
<1>3. CASE x = s /\ t = s.trace
  BY <1>1, <1>3
<1>4. CASE t \in Stored /\ x \in SpansOf(t)
  <2>1. x.service \in Services
    BY <1>2, <1>4, SpansAssumption DEF SpanType
  <2> QED
    BY <1>1, <1>4, <2>1 DEF StoredIsIndexed
<1> QED
  BY <1>3, <1>4, WriteSpanSpans

\* Whatever is stored can be found by service and operation, and under its own
\* trace only.
THEOREM IndexCoversStore == StoreSpec => []StoredIsIndexed
<1> DEFINE Inv == StoreInv /\ StoredIsIndexed
<1>1. StoreInit => Inv
  BY FreshStore
<1>2. Inv /\ [StoreNext]_storeVars => Inv'
  <2> SUFFICES ASSUME Inv, [StoreNext]_storeVars PROVE Inv'
    OBVIOUS
  <2>1. CASE \E s \in Spans : WriteSpan(s)
    BY <2>1, WriteSpanInv, WriteSpanIndexed
  <2>2. CASE Restart
    <3>1. Stored' = {}
      BY <2>2 DEF Restart, Stored
    <3> QED
      BY <2>2, <3>1, RestartInv DEF StoredIsIndexed
  <2>3. CASE UNCHANGED storeVars
    BY <2>3 DEF storeVars, StoreInv, StoreTypeOK, RingMatchesStore, NeverPanics,
                StoredIsIndexed, SpansOf, Stored
  <2> QED
    BY <2>1, <2>2, <2>3 DEF StoreNext
<1>3. Inv => StoredIsIndexed
  OBVIOUS
<1> QED
  BY <1>1, <1>2, <1>3, PTL DEF StoreSpec
-----------------------------------------------------------------------------
(***************************************************************************)
(* The result of FindTraces.                                               *)
(***************************************************************************)
\* A trace that is left out of the result of any query did not open later than
\* one that is in it: its first span to arrive starts no later.
LEMMA LeftOutIsOlder ==
  ASSUME NEW q, NEW R \in FindTraces(q), NEW t \in R, NEW u \in Matching(q) \ R
  PROVE  t \in Matching(q) /\ traces[u][1].start <= traces[t][1].start
<1>1. CASE q.numTraces = 0 \/ Cardinality(Matching(q)) <= q.numTraces
  BY <1>1 DEF FindTraces
<1>2. CASE ~(q.numTraces = 0 \/ Cardinality(Matching(q)) <= q.numTraces)
  <2>1. /\ R \subseteq Matching(q)
        /\ \A x \in R, y \in Matching(q) \ R : traces[y][1].start <= traces[x][1].start
    BY <1>2 DEF FindTraces
  <2> QED
    BY <2>1
<1> QED
  BY <1>1, <1>2

\* The first span of a stored trace is one of its spans, with a start time.
LEMMA FirstSpan ==
  ASSUME StoreTypeOK, NEW t \in Stored
  PROVE  /\ traces[t][1] \in SpansOf(t)
         /\ \A s \in SpansOf(t) : s \in Spans /\ s.start \in Nat
<1>1. traces[t] \in Seq(Spans) /\ traces[t] # <<>>
  BY DEF StoreTypeOK
<1>2. 1 \in DOMAIN traces[t]
  BY <1>1, SMT
<1>3. \A s \in SpansOf(t) : s \in Spans
  BY <1>1 DEF SpansOf
<1> QED
  BY <1>2, <1>3, SpansAssumption DEF SpansOf, SpanType

\* FindTraces returns the newest traces (memory.go:204-212) as long as the first
\* span of every trace to arrive is its earliest one: each span of a trace in the
\* result has a span that is no later in each matching trace left out of it.
THEOREM ReturnsTheNewest == StoreSpec => []NewestReturned
<1>1. StoreTypeOK => NewestReturned
  <2> SUFFICES ASSUME StoreTypeOK, FirstArrivedIsEarliest, NEW q,
                      NEW R \in FindTraces(q), NEW t \in R,
                      NEW u \in Matching(q) \ R, NEW s \in SpansOf(t)
               PROVE  \E r \in SpansOf(u) : r.start <= s.start
    BY DEF NewestReturned
  <2>1. /\ t \in Stored /\ u \in Stored
        /\ traces[u][1].start <= traces[t][1].start
    BY LeftOutIsOlder DEF Matching
  <2>2. /\ traces[u][1] \in SpansOf(u)
        /\ traces[u][1].start \in Nat /\ traces[t][1].start \in Nat /\ s.start \in Nat
    BY <2>1, FirstSpan
  <2>3. traces[t][1].start <= s.start
    BY <2>1 DEF FirstArrivedIsEarliest
  <2>4. traces[u][1].start <= s.start
    BY <2>1, <2>2, <2>3, SMT
  <2> QED
    BY <2>2, <2>4
<1> QED
  BY <1>1, StoreInvariant, PTL
-----------------------------------------------------------------------------
(***************************************************************************)
(* The ring is a queue.                                                    *)
(***************************************************************************)
\* How many traces are stored.
Load == Cardinality(Stored)

\* Invariant: going back from the newest slot, the first Load slots are filled and
\* the others are not.
RingFilled ==
  \A a \in 0..(MaxTraces - 1) : ids[SlotOfAge[a]] # NoTrace <=> a < Load

FifoInv ==
  /\ StoreInv
  /\ IsFiniteSet(Stored) /\ Load \in 0..MaxTraces
  /\ RingFilled

\* Ages and slots: each slot has one age, the slot that is filled next has the
\* highest one, and filling it makes every other slot one trace older.
LEMMA Ages ==
  ASSUME StoreTypeOK, MaxTraces > 0
  PROVE  /\ \A a \in 0..(MaxTraces - 1) : SlotOfAge[a] \in 0..(MaxTraces - 1)
         /\ \A i \in 0..(MaxTraces - 1) : \E a \in 0..(MaxTraces - 1) : SlotOfAge[a] = i
         /\ \A a, b \in 0..(MaxTraces - 1) : SlotOfAge[a] = SlotOfAge[b] => a = b
         /\ SlotOfAge[0] = index
         /\ SlotOfAge[MaxTraces - 1] = NextSlot
         /\ index' = NextSlot =>
              \A a \in 1..(MaxTraces - 1) : SlotOfAge'[a] = SlotOfAge[a - 1]
<1>1. MaxTraces \in Nat /\ index \in 0..(MaxTraces - 1)
  BY MaxTracesAssumption DEF StoreTypeOK
<1>2. \A a \in 0..(MaxTraces - 1) : SlotOfAge[a] \in 0..(MaxTraces - 1)
  BY <1>1, SMT DEF SlotOfAge
<1>3. ASSUME NEW i \in 0..(MaxTraces - 1)
      PROVE  \E a \in 0..(MaxTraces - 1) : SlotOfAge[a] = i
  <2>1. CASE i <= index
    <3>1. index - i \in 0..(MaxTraces - 1) /\ SlotOfAge[index - i] = i
      BY <1>1, <2>1, SMT DEF SlotOfAge
    <3> QED
      BY <3>1
  <2>2. CASE i > index
    <3>1. /\ index - i + MaxTraces \in 0..(MaxTraces - 1)
          /\ SlotOfAge[index - i + MaxTraces] = i
      BY <1>1, <2>2, SMT DEF SlotOfAge
    <3> QED
      BY <3>1
  <2> QED
    BY <1>1, <2>1, <2>2, SMT
<1>4. \A a, b \in 0..(MaxTraces - 1) : SlotOfAge[a] = SlotOfAge[b] => a = b
  BY <1>1, SMT DEF SlotOfAge
<1>5. NextSlot = IF index = MaxTraces - 1 THEN 0 ELSE index + 1
  BY <1>1, SMT DEF NextSlot
<1>6. SlotOfAge[0] = index /\ SlotOfAge[MaxTraces - 1] = NextSlot
  BY <1>1, <1>5, SMT DEF SlotOfAge
<1>7. ASSUME index' = NextSlot, NEW a \in 1..(MaxTraces - 1)
      PROVE  SlotOfAge'[a] = SlotOfAge[a - 1]
  BY <1>1, <1>5, <1>7, SMT DEF SlotOfAge
<1> QED
  BY <1>2, <1>3, <1>4, <1>6, <1>7

\* The order is a sequence of the stored traces.
LEMMA OrderIsStored ==
  ASSUME FifoInv, MaxTraces > 0
  PROVE  /\ RingOrder \in Seq(Stored)
         /\ Len(RingOrder) = Load
         /\ \A i \in 1..Load : RingOrder[i] = ids[SlotOfAge[Load - i]]
         /\ {RingOrder[i] : i \in DOMAIN RingOrder} = Stored
<1>1. /\ Load \in 0..MaxTraces /\ MaxTraces \in Nat
      /\ StoreTypeOK
      /\ Stored = {ids[i] : i \in 0..(MaxTraces - 1)} \ {NoTrace}
  BY MaxTracesAssumption DEF FifoInv, StoreInv, RingMatchesStore
<1>2. RingOrder = [i \in 1..Load |-> ids[SlotOfAge[Load - i]]]
  BY DEF RingOrder, Load
<1>3. ASSUME NEW i \in 1..Load PROVE ids[SlotOfAge[Load - i]] \in Stored
  <2>1. Load - i \in 0..(MaxTraces - 1) /\ Load - i < Load
    BY <1>1, SMT
  <2> QED
    BY <1>1, <2>1, Ages DEF FifoInv, RingFilled
<1>4. RingOrder \in [1..Load -> Stored] /\ DOMAIN RingOrder = 1..Load
  BY <1>2, <1>3
<1>5. RingOrder \in Seq(Stored) /\ Len(RingOrder) = Load
  <2>1. Load \in Nat
    BY <1>1, SMT
  <2> QED
    BY <1>4, <2>1, SMT
<1>6. ASSUME NEW t \in Stored PROVE \E i \in 1..Load : RingOrder[i] = t
  <2>1. PICK j \in 0..(MaxTraces - 1) : t = ids[j] /\ t # NoTrace
    BY <1>1
  <2>2. PICK a \in 0..(MaxTraces - 1) : SlotOfAge[a] = j
    BY <1>1, Ages
  <2>3. a < Load
    BY <2>1, <2>2 DEF FifoInv, RingFilled
  <2>4. Load - a \in 1..Load /\ Load - (Load - a) = a
    BY <1>1, <2>3, SMT
  <2> QED
    BY <1>2, <2>1, <2>2, <2>4
<1> QED
  BY <1>2, <1>3, <1>4, <1>5, <1>6

\* A fresh store holds no trace and orders none.
LEMMA FreshOrder ==
  ASSUME Stored = {}
  PROVE  RingOrder = <<>> /\ IsFiniteSet(Stored) /\ Load = 0
<1>1. IsFiniteSet({}) /\ Cardinality({}) = 0
  BY FS_EmptySet
<1> QED
  BY <1>1, SMT DEF RingOrder, Load

\* A span of a stored trace extends that trace and moves nothing in the ring.
LEMMA AddToTraceExtends ==
  ASSUME FifoInv, MaxTraces > 0, NEW s \in Spans, WriteSpan(s), AddToTrace(s)
  PROVE  FifoInv' /\ Fifo!Extend(s)
<1>1. Stored' = Stored /\ UNCHANGED <<ids, index>>
  BY DEF AddToTrace, Stored
<1>2. FifoInv'
  <2>1. StoreInv'
    BY WriteSpanInv DEF FifoInv
  <2>2. (IsFiniteSet(Stored) /\ Load \in 0..MaxTraces)'
    BY <1>1 DEF FifoInv, Load
  <2>3. RingFilled'
    BY <1>1 DEF FifoInv, RingFilled, SlotOfAge, Load
  <2> QED
    BY <2>1, <2>2, <2>3 DEF FifoInv
<1>3. RingOrder' = RingOrder
  BY <1>1 DEF RingOrder, SlotOfAge
<1>4. s.trace \in Fifo!Live
  BY OrderIsStored DEF AddToTrace, Fifo!Live
<1> QED
  BY <1>2, <1>3, <1>4 DEF AddToTrace, Fifo!Extend

\* The same of the next state.
LEMMA OrderIsStoredNext ==
  ASSUME FifoInv', MaxTraces > 0
  PROVE  /\ RingOrder' \in Seq(Stored') /\ Len(RingOrder') = Load'
         /\ \A i \in 1..Load' : RingOrder'[i] = ids'[SlotOfAge'[Load' - i]]
         /\ {RingOrder'[i] : i \in DOMAIN RingOrder'} = Stored'
<1>1. (MaxTraces > 0 /\ FifoInv =>
         /\ RingOrder \in Seq(Stored) /\ Len(RingOrder) = Load
         /\ \A i \in 1..Load : RingOrder[i] = ids[SlotOfAge[Load - i]]
         /\ {RingOrder[i] : i \in DOMAIN RingOrder} = Stored)'
  BY OrderIsStored, PTL
<1> QED
  BY <1>1

\* A new trace makes every trace in the ring one older, but the one whose slot it
\* takes.
LEMMA RingMoves ==
  ASSUME StoreTypeOK, MaxTraces > 0, NEW s, NewTraceInRing(s)
  PROVE  /\ ids'[SlotOfAge'[0]] = s.trace
         /\ \A a \in 1..(MaxTraces - 1) : ids'[SlotOfAge'[a]] = ids[SlotOfAge[a - 1]]
<1>1. /\ MaxTraces \in Nat /\ index' = NextSlot
      /\ ids' = [ids EXCEPT ![NextSlot] = s.trace]
      /\ ids \in [0..(MaxTraces - 1) -> Traces \cup {NoTrace}]
  BY MaxTracesAssumption DEF NewTraceInRing, StoreTypeOK
<1>2. NextSlot = SlotOfAge[MaxTraces - 1] /\ NextSlot \in 0..(MaxTraces - 1)
  BY Ages, NextSlotInRing
<1>3. SlotOfAge'[0] = NextSlot
  BY <1>1, <1>2, SMT DEF SlotOfAge
<1>4. ASSUME NEW a \in 1..(MaxTraces - 1)
      PROVE  ids'[SlotOfAge'[a]] = ids[SlotOfAge[a - 1]]
  <2>1. a - 1 \in 0..(MaxTraces - 1) /\ MaxTraces - 1 \in 0..(MaxTraces - 1)
        /\ a - 1 # MaxTraces - 1
    BY <1>1, SMT
  <2>2. SlotOfAge[a - 1] # NextSlot /\ SlotOfAge[a - 1] \in 0..(MaxTraces - 1)
    BY <1>2, <2>1, Ages
  <2>3. SlotOfAge'[a] = SlotOfAge[a - 1]
    BY <1>1, Ages
  <2> QED
    BY <1>1, <2>2, <2>3
<1> QED
  BY <1>1, <1>2, <1>3, <1>4

\* A new trace enters a ring that is not full: the slot it takes was empty.
LEMMA EntersFree ==
  ASSUME FifoInv, MaxTraces > 0, NEW s \in Spans, WriteSpan(s), NewTraceInRing(s),
         Load < MaxTraces
  PROVE  /\ FifoInv'
         /\ RingOrder' = Append(RingOrder, s.trace)
<1>0. /\ MaxTraces \in Nat /\ Load \in 0..(MaxTraces - 1) /\ StoreInv /\ StoreTypeOK
      /\ s.trace \in Traces /\ s.trace # NoTrace /\ s.trace \notin Stored
      /\ Stored \subseteq Traces /\ IsFiniteSet(Stored)
      /\ ids \in [0..(MaxTraces - 1) -> Traces \cup {NoTrace}]
  BY MaxTracesAssumption, SpansAssumption, NoTraceAssumption, SMT
     DEF FifoInv, StoreInv, StoreTypeOK, SpanType, NewTraceInRing
<1>1. StoreInv'
  BY <1>0, WriteSpanInv
<1>2. /\ index' = NextSlot
      /\ ids' = [ids EXCEPT ![NextSlot] = s.trace]
      /\ Stored' = (Stored \cup {s.trace}) \ {ids[NextSlot]}
  BY DEF NewTraceInRing, Stored
<1>3. NextSlot = SlotOfAge[MaxTraces - 1] /\ NextSlot \in 0..(MaxTraces - 1)
  BY <1>0, Ages, NextSlotInRing
<1>4. ids[NextSlot] = NoTrace
  <2>1. MaxTraces - 1 \in 0..(MaxTraces - 1) /\ ~(MaxTraces - 1 < Load)
    BY <1>0, SMT
  <2> QED
    BY <1>3, <2>1 DEF FifoInv, RingFilled
<1>5. Stored' = Stored \cup {s.trace}
  BY <1>0, <1>2, <1>4, NoTraceAssumption
<1>6. IsFiniteSet(Stored') /\ Load' = Load + 1
  BY <1>0, <1>5, FS_AddElement DEF Load
<1>7. /\ ids'[SlotOfAge'[0]] = s.trace
      /\ \A a \in 1..(MaxTraces - 1) : ids'[SlotOfAge'[a]] = ids[SlotOfAge[a - 1]]
  BY <1>0, <1>1, <1>2, <1>3, RingMoves
<1>8. RingFilled'
  <2> SUFFICES ASSUME NEW a \in 0..(MaxTraces - 1)
               PROVE  ids'[SlotOfAge'[a]] # NoTrace <=> a < Load'
    BY DEF RingFilled
  <2>1. CASE a = 0
    BY <1>0, <1>6, <1>7, <2>1, SMT
  <2>2. CASE a \in 1..(MaxTraces - 1)
    <3>1. a - 1 \in 0..(MaxTraces - 1)
      BY <1>0, <2>2, SMT
    <3>2. ids[SlotOfAge[a - 1]] # NoTrace <=> a - 1 < Load
      BY <3>1 DEF FifoInv, RingFilled
    <3> QED
      BY <1>0, <1>6, <1>7, <2>2, <3>2, SMT
  <2> QED
    BY <1>0, <2>1, <2>2, SMT
<1>9. FifoInv'
  <2>1. (Load \in 0..MaxTraces)'
    BY <1>0, <1>6, SMT
  <2> QED
    BY <1>1, <1>6, <1>8, <2>1 DEF FifoInv
<1>10. RingOrder' = Append(RingOrder, s.trace)
  <2>1. /\ RingOrder' \in Seq(Stored') /\ Len(RingOrder') = Load'
        /\ \A i \in 1..Load' : RingOrder'[i] = ids'[SlotOfAge'[Load' - i]]
    BY <1>9, OrderIsStoredNext
  <2>2. /\ RingOrder \in Seq(Stored) /\ Len(RingOrder) = Load
        /\ \A i \in 1..Load : RingOrder[i] = ids[SlotOfAge[Load - i]]
    BY OrderIsStored
  <2>3. RingOrder \in Seq(Stored') /\ s.trace \in Stored'
    BY <1>5, <2>2, SeqMonotonic
  <2>4. /\ Append(RingOrder, s.trace) \in Seq(Stored')
        /\ Len(Append(RingOrder, s.trace)) = Load + 1
        /\ \A i \in 1..Load : Append(RingOrder, s.trace)[i] = RingOrder[i]
        /\ Append(RingOrder, s.trace)[Load + 1] = s.trace
    BY <1>0, <2>2, <2>3, AppendProperties, SMT
  <2>5. \A i \in 1..(Load + 1) : RingOrder'[i] = Append(RingOrder, s.trace)[i]
    <3> SUFFICES ASSUME NEW i \in 1..(Load + 1)
                 PROVE  RingOrder'[i] = Append(RingOrder, s.trace)[i]
      OBVIOUS
    <3>1. CASE i = Load + 1
      <4>1. Load' - i = 0 /\ i \in 1..Load'
        BY <1>0, <1>6, <3>1, SMT
      <4> QED
        BY <1>7, <2>1, <2>4, <3>1, <4>1
    <3>2. CASE i \in 1..Load
      <4>1. /\ Load' - i \in 1..(MaxTraces - 1) /\ Load' - i - 1 = Load - i
            /\ i \in 1..Load'
        BY <1>0, <1>6, <3>2, SMT
      <4>2. RingOrder'[i] = ids[SlotOfAge[Load - i]]
        BY <1>7, <2>1, <4>1
      <4> QED
        BY <2>2, <2>4, <3>2, <4>2
    <3> QED
      BY <1>0, <3>1, <3>2, SMT
  <2> QED
    BY <1>6, <2>1, <2>4, <2>5, SeqEqual
<1> QED
  BY <1>9, <1>10

\* A new trace enters a full ring: the trace of the slot it takes is the oldest.
LEMMA EntersFull ==
  ASSUME FifoInv, MaxTraces > 0, NEW s \in Spans, WriteSpan(s), NewTraceInRing(s),
         Load = MaxTraces
  PROVE  /\ FifoInv'
         /\ RingOrder' = Append(Tail(RingOrder), s.trace)
<1>0. /\ MaxTraces \in Nat /\ StoreInv /\ StoreTypeOK
      /\ s.trace \in Traces /\ s.trace # NoTrace /\ s.trace \notin Stored
      /\ Stored \subseteq Traces /\ IsFiniteSet(Stored)
      /\ Stored = {ids[i] : i \in 0..(MaxTraces - 1)} \ {NoTrace}
  BY MaxTracesAssumption, SpansAssumption, NoTraceAssumption, SMT
     DEF FifoInv, StoreInv, StoreTypeOK, SpanType, NewTraceInRing, RingMatchesStore
<1>1. StoreInv'
  BY <1>0, WriteSpanInv
<1>2. /\ index' = NextSlot
      /\ ids' = [ids EXCEPT ![NextSlot] = s.trace]
      /\ Stored' = (Stored \cup {s.trace}) \ {ids[NextSlot]}
  BY DEF NewTraceInRing, Stored
<1>3. NextSlot = SlotOfAge[MaxTraces - 1] /\ NextSlot \in 0..(MaxTraces - 1)
  BY <1>0, Ages, NextSlotInRing
<1>4. ids[NextSlot] # NoTrace /\ ids[NextSlot] \in Stored /\ ids[NextSlot] # s.trace
  <2>1. MaxTraces - 1 \in 0..(MaxTraces - 1) /\ MaxTraces - 1 < Load
    BY <1>0, SMT
  <2>2. ids[NextSlot] # NoTrace
    BY <1>3, <2>1 DEF FifoInv, RingFilled
  <2> QED
    BY <1>0, <1>3, <2>2
<1>5. IsFiniteSet(Stored') /\ Load' = Load
  <2>1. /\ IsFiniteSet(Stored \cup {s.trace})
        /\ Cardinality(Stored \cup {s.trace}) = Cardinality(Stored) + 1
    BY <1>0, FS_AddElement
  <2>2. /\ IsFiniteSet(Stored')
        /\ Cardinality(Stored') = Cardinality(Stored \cup {s.trace}) - 1
    BY <1>2, <1>4, <2>1, FS_RemoveElement
  <2>3. Cardinality(Stored) \in Nat
    BY <1>0, FS_CardinalityType
  <2> QED
    BY <2>1, <2>2, <2>3, SMT DEF Load
<1>6. /\ ids'[SlotOfAge'[0]] = s.trace
      /\ \A a \in 1..(MaxTraces - 1) : ids'[SlotOfAge'[a]] = ids[SlotOfAge[a - 1]]
  BY <1>0, RingMoves
<1>7. RingFilled'
  <2> SUFFICES ASSUME NEW a \in 0..(MaxTraces - 1)
               PROVE  ids'[SlotOfAge'[a]] # NoTrace <=> a < Load'
    BY DEF RingFilled
  <2>1. CASE a = 0
    BY <1>0, <1>5, <1>6, <2>1, SMT
  <2>2. CASE a \in 1..(MaxTraces - 1)
    <3>1. a - 1 \in 0..(MaxTraces - 1)
      BY <1>0, <2>2, SMT
    <3>2. ids[SlotOfAge[a - 1]] # NoTrace <=> a - 1 < Load
      BY <3>1 DEF FifoInv, RingFilled
    <3> QED
      BY <1>0, <1>5, <1>6, <2>2, <3>2, SMT
  <2> QED
    BY <1>0, <2>1, <2>2, SMT
<1>8. FifoInv'
  <2>1. (Load \in 0..MaxTraces)'
    BY <1>0, <1>5, SMT
  <2> QED
    BY <1>1, <1>5, <1>7, <2>1 DEF FifoInv
<1>9. RingOrder' = Append(Tail(RingOrder), s.trace)
  <2> DEFINE T == Stored \cup {s.trace}
  <2>1. /\ RingOrder' \in Seq(Stored') /\ Len(RingOrder') = MaxTraces
        /\ \A i \in 1..MaxTraces : RingOrder'[i] = ids'[SlotOfAge'[MaxTraces - i]]
    BY <1>5, <1>8, OrderIsStoredNext
  <2>2. /\ RingOrder \in Seq(Stored) /\ Len(RingOrder) = MaxTraces
        /\ \A i \in 1..MaxTraces : RingOrder[i] = ids[SlotOfAge[MaxTraces - i]]
    BY OrderIsStored
  <2>3. RingOrder \in Seq(T) /\ RingOrder' \in Seq(T) /\ s.trace \in T
    BY <1>2, <2>1, <2>2, SeqMonotonic
  <2> HIDE DEF T
  <2>4. RingOrder # <<>>
    BY <1>0, <2>2, SMT
  <2>5. /\ Tail(RingOrder) \in Seq(T) /\ Len(Tail(RingOrder)) = MaxTraces - 1
        /\ \A i \in 1..(MaxTraces - 1) : Tail(RingOrder)[i] = RingOrder[i + 1]
    BY <1>0, <2>2, <2>3, <2>4, HeadTailProperties, SMT
  <2>6. /\ Append(Tail(RingOrder), s.trace) \in Seq(T)
        /\ Len(Append(Tail(RingOrder), s.trace)) = MaxTraces
        /\ \A i \in 1..(MaxTraces - 1) :
             Append(Tail(RingOrder), s.trace)[i] = RingOrder[i + 1]
        /\ Append(Tail(RingOrder), s.trace)[MaxTraces] = s.trace
    BY <1>0, <2>3, <2>5, AppendProperties, SMT
  <2>7. ASSUME NEW i \in 1..MaxTraces
        PROVE  RingOrder'[i] = Append(Tail(RingOrder), s.trace)[i]
    <3>1. CASE i = MaxTraces
      <4>1. MaxTraces - i = 0 /\ i \in 1..MaxTraces
        BY <1>0, <3>1, SMT
      <4> QED
        BY <1>6, <2>1, <2>6, <3>1, <4>1
    <3>2. CASE i \in 1..(MaxTraces - 1)
      <4>1. /\ MaxTraces - i \in 1..(MaxTraces - 1)
            /\ MaxTraces - i - 1 = MaxTraces - (i + 1)
            /\ i + 1 \in 1..MaxTraces
        BY <1>0, <3>2, SMT
      <4>2. RingOrder'[i] = ids[SlotOfAge[MaxTraces - (i + 1)]]
        BY <1>6, <2>1, <4>1
      <4> QED
        BY <2>2, <2>6, <3>2, <4>1, <4>2
    <3>3. i = MaxTraces \/ i \in 1..(MaxTraces - 1)
      BY MaxTracesAssumption, SMT
    <3> QED
      BY <3>1, <3>2, <3>3
  <2> QED
    BY <2>1, <2>3, <2>6, <2>7, SeqEqual
<1> QED
  BY <1>8, <1>9

\* So a new trace enters the queue, which drops its oldest one if it is full.
LEMMA NewTraceEnters ==
  ASSUME FifoInv, MaxTraces > 0, NEW s \in Spans, WriteSpan(s), NewTraceInRing(s)
  PROVE  FifoInv' /\ Fifo!Enter(s)
<1>1. Load \in 0..MaxTraces /\ MaxTraces \in Nat /\ Len(RingOrder) = Load
  BY MaxTracesAssumption, OrderIsStored DEF FifoInv
<1>2. /\ FifoInv'
      /\ RingOrder' = IF Len(RingOrder) = MaxTraces
                        THEN Append(Tail(RingOrder), s.trace)
                        ELSE Append(RingOrder, s.trace)
  <2>1. CASE Load = MaxTraces
    BY <1>1, <2>1, EntersFull
  <2>2. CASE Load < MaxTraces
    BY <1>1, <2>2, EntersFree
  <2> QED
    BY <1>1, <2>1, <2>2, SMT
<1>3. s.trace \notin Fifo!Live
  BY OrderIsStored DEF NewTraceInRing, Fifo!Live
<1>4. Stored' = {RingOrder'[i] : i \in DOMAIN RingOrder'}
  BY <1>2, OrderIsStoredNext
<1>5. /\ Stored' = (Stored \cup {s.trace}) \ {ids[NextSlot]}
      /\ traces' = [t \in Stored' |-> IF t = s.trace THEN <<s>> ELSE traces[t]]
  BY DEF NewTraceInRing, Stored
<1> QED
  BY <1>2, <1>3, <1>4, <1>5 DEF Fifo!Enter

\* A bounded store implements the queue of traces it promises to be, whatever the
\* size of the ring: it forgets a trace only when a new one arrives at a full ring,
\* and then the one that was opened first (memory.go:125-144).
THEOREM StoreIsTraceFifo ==
  ASSUME MaxTraces > 0
  PROVE  StoreSpec => KeepsNewestTraces
<1>1. StoreInit => FifoInv /\ Fifo!Init
  <2> SUFFICES ASSUME StoreInit PROVE FifoInv /\ Fifo!Init
    OBVIOUS
  <2>1. Stored = {} /\ StoreInv
    BY FreshStore DEF StoreInit, Stored
  <2>2. RingOrder = <<>> /\ IsFiniteSet(Stored) /\ Load = 0
    BY <2>1, FreshOrder
  <2>3. RingFilled
    <3> SUFFICES ASSUME NEW a \in 0..(MaxTraces - 1)
                 PROVE  ids[SlotOfAge[a]] = NoTrace /\ ~(a < Load)
      BY DEF RingFilled
    <3>1. SlotOfAge[a] \in 0..(MaxTraces - 1)
      BY <2>1, Ages DEF StoreInv
    <3> QED
      BY <2>2, <3>1, SMT DEF StoreInit
  <2>4. Load \in 0..MaxTraces
    BY <2>2, MaxTracesAssumption, SMT
  <2> QED
    BY <2>1, <2>2, <2>3, <2>4 DEF StoreInit, FifoInv, Fifo!Init
<1>2. FifoInv /\ [StoreNext]_storeVars => FifoInv' /\ [Fifo!Next]_(Fifo!fifoVars)
  <2> SUFFICES ASSUME FifoInv, [StoreNext]_storeVars
               PROVE  FifoInv' /\ [Fifo!Next]_(Fifo!fifoVars)
    OBVIOUS
  <2>1. ASSUME NEW s \in Spans, WriteSpan(s)
        PROVE  FifoInv' /\ Fifo!Next
    <3>1. CASE AddToTrace(s)
      BY <2>1, <3>1, AddToTraceExtends DEF Fifo!Next
    <3>2. CASE NewTraceInRing(s)
      BY <2>1, <3>2, NewTraceEnters DEF Fifo!Next
    <3>3. ~NewTraceUnbounded(s)
      BY SMT DEF NewTraceUnbounded
    <3> QED
      BY <2>1, <3>1, <3>2, <3>3 DEF WriteSpan
  <2>2. CASE Restart
    <3>1. Stored' = {} /\ StoreInv'
      BY <2>2, RestartInv DEF Restart, Stored
    <3>2. RingOrder' = <<>> /\ IsFiniteSet(Stored') /\ Load' = 0
      <4>1. IsFiniteSet({}) /\ Cardinality({}) = 0
        BY FS_EmptySet
      <4> QED
        BY <3>1, <4>1, SMT DEF RingOrder, Load
    <3>3. RingFilled'
      <4> SUFFICES ASSUME NEW a \in 0..(MaxTraces - 1)
                   PROVE  ids'[SlotOfAge'[a]] = NoTrace /\ ~(a < Load')
        BY DEF RingFilled
      <4>1. SlotOfAge'[a] \in 0..(MaxTraces - 1)
        BY <2>2, MaxTracesAssumption, SMT DEF Restart, SlotOfAge
      <4> QED
        BY <2>2, <3>2, <4>1, SMT DEF Restart
    <3>4. (Load \in 0..MaxTraces)'
      BY <3>2, MaxTracesAssumption, SMT
    <3>5. Fifo!Forget
      BY <2>2, <3>2 DEF Restart, Fifo!Forget
    <3> QED
      BY <3>1, <3>2, <3>3, <3>4, <3>5 DEF FifoInv, Fifo!Next
  <2>3. CASE UNCHANGED storeVars
    <3>1. Stored' = Stored /\ UNCHANGED <<ids, index, traces>>
      BY <2>3 DEF storeVars, Stored
    <3>2. RingOrder' = RingOrder /\ SlotOfAge' = SlotOfAge /\ Load' = Load
      BY <3>1 DEF RingOrder, SlotOfAge, Load
    <3>3. StoreInv'
      BY <2>3, <3>1 DEF storeVars, FifoInv, StoreInv, StoreTypeOK, RingMatchesStore,
                        NeverPanics
    <3> QED
      BY <3>1, <3>2, <3>3 DEF FifoInv, RingFilled, Fifo!fifoVars
  <2> QED
    BY <2>1, <2>2, <2>3 DEF StoreNext
<1> QED
  BY <1>1, <1>2, PTL DEF StoreSpec, KeepsNewestTraces, Fifo!Spec

-----------------------------------------------------------------------------
(***************************************************************************)
(* Frame lemmas.                                                           *)
(***************************************************************************)
\* A step that leaves the store alone keeps what is known of it.
LEMMA StoreFrame ==
  ASSUME StoreInv, StoredIsIndexed, UNCHANGED storeVars
  PROVE  /\ StoreInv' /\ StoredIsIndexed'
         /\ Stored' = Stored
         /\ Searchable' = Searchable
         /\ \A t \in Stored : SpansOf(t)' = SpansOf(t)
<1>1. Stored' = Stored
  BY DEF storeVars, Stored
<1>2. StoreInv'
  BY <1>1 DEF storeVars, StoreInv, StoreTypeOK, RingMatchesStore, NeverPanics
<1>3. \A t : SpansOf(t)' = SpansOf(t)
  BY DEF storeVars, SpansOf
<1>4. StoredIsIndexed'
  BY <1>1, <1>3 DEF storeVars, StoredIsIndexed
<1>5. Searchable' = Searchable
  BY <1>1, <1>3 DEF Searchable
<1> QED
  BY <1>1, <1>2, <1>3, <1>4, <1>5

\* tprof only reads the store and leaves its environment alone.
LEMMA TprofReadsOnly ==
  ASSUME Tprof
  PROVE  UNCHANGED <<storeVars, envVars>>
BY DEF Tprof, RpcFails, BeginAttempt, ServiceSearched, EndAttempt, GroupingEnds,
       ProfilingEnds, NextService, SearchOperation, GroupTrace, ProfileTrace

\* The environment leaves tprof alone.
LEMMA EnvFrame ==
  ASSUME Env
  PROVE  UNCHANGED tprofVars
BY DEF Env, StoreStops, StoreStarts, Deliver

\* FindTraces returns traces that match, and all of them when search_depth does
\* not limit the result.
LEMMA FindTracesMatching ==
  ASSUME NEW q, NEW R \in FindTraces(q)
  PROVE  /\ R \subseteq Matching(q)
         /\ Matching(q) \subseteq Stored
         /\ (q.numTraces = 0 \/ Cardinality(Matching(q)) <= q.numTraces) => R = Matching(q)
BY DEF FindTraces, Matching

\* The store part of the invariant is kept by every step.
LEMMA StorePart ==
  ASSUME StoreInv, StoredIsIndexed, [GNext]_vars
  PROVE  StoreInv' /\ StoredIsIndexed'
<1>1. CASE Tprof
  BY <1>1, TprofReadsOnly, StoreFrame
<1>2. CASE StoreStops
  <2>1. Restart /\ Stored' = {}
    BY <1>2 DEF StoreStops, Restart, Stored
  <2> QED
    BY <2>1, RestartInv DEF StoredIsIndexed
<1>3. CASE StoreStarts
  BY <1>3, StoreFrame DEF StoreStarts
<1>4. CASE \E s \in Spans : Deliver(s)
  BY <1>4, WriteSpanInv, WriteSpanIndexed DEF Deliver
<1>5. CASE UNCHANGED vars
  BY <1>5, StoreFrame DEF vars
<1> QED
  BY <1>1, <1>2, <1>3, <1>4, <1>5 DEF GNext, Env
-----------------------------------------------------------------------------
(***************************************************************************)
(* Type correctness.                                                       *)
(***************************************************************************)
BaseInv == StoreInv /\ StoredIsIndexed /\ GTypeOK

\* The types of tprof's variables, without the store and the environment.
TprofTypes ==
  /\ pc \in PcValues /\ crash \in CrashValues
  /\ servicesLeft \subseteq Services /\ service \in Services
  /\ operationsLeft \subseteq Operations
  /\ allTraceIds \subseteq Traces /\ traceIds \subseteq Traces /\ todo \subseteq Traces
  /\ DOMAIN cache \subseteq Traces /\ DOMAIN profiled \subseteq Traces
  /\ groups \in [{Good, Erroneous} -> SUBSET Traces]

\* get_trace and the two loops of layer 1 keep the types.
LEMMA LayerTypes ==
  ASSUME TprofTypes, NEW t \in Traces, GroupTrace(t) \/ ProfileTrace(t)
  PROVE  TprofTypes'
<1>1. CASE GetTraceRaises(t)
  BY <1>1 DEF GetTraceRaises, Crash, TprofTypes, PcValues, CrashValues
<1>2. CASE GetTraceReturns(t)
  <2>1. DOMAIN cache' \subseteq Traces
    BY <1>2 DEF GetTraceReturns, TprofTypes
  <2>2. StatusStr(TraceOf(t)) \in {Good, Erroneous}
    BY DEF StatusStr
  <2>3. CASE GroupTrace(t)
    BY <1>2, <2>1, <2>2, <2>3 DEF GroupTrace, GetTraceRaises, TprofTypes, Crash,
                                  PcValues, CrashValues
  <2>4. CASE ProfileTrace(t)
    BY <1>2, <2>1, <2>4 DEF ProfileTrace, GetTraceRaises, TprofTypes, Crash,
                            PcValues, CrashValues
  <2> QED
    BY <2>3, <2>4
<1> QED
  BY <1>1, <1>2 DEF GroupTrace, ProfileTrace

\* Every step of tprof keeps the types of its variables.
LEMMA TprofKeepsTypes ==
  ASSUME BaseInv, TprofTypes, Tprof
  PROVE  TprofTypes'
<1>1. CASE RpcFails
  BY <1>1 DEF RpcFails, Crash, TprofTypes, PcValues, CrashValues
<1>2. CASE BeginAttempt
  <2>1. services \subseteq Services /\ DOMAIN Srvs \subseteq Services
    BY SrvsAssumption DEF BaseInv, StoreInv, StoreTypeOK
  <2> QED
    BY <1>2, <2>1 DEF BeginAttempt, TprofTypes, PcValues, GetServices
<1>3. CASE \E v \in Services : NextService(v)
  <2>1. PICK v \in Services : NextService(v)
    BY <1>3
  <2>2. operations[v] \subseteq Operations
    BY DEF BaseInv, StoreInv, StoreTypeOK
  <2>3. v \in DOMAIN Srvs => Srvs[v] \subseteq Operations
    BY SrvsAssumption
  <2> QED
    BY <2>1, <2>2, <2>3 DEF NextService, TprofTypes, PcValues, GetOperations
<1>4. CASE \E o \in Operations : SearchOperation(o)
  <2>1. Stored \subseteq Traces
    BY DEF BaseInv, StoreInv, StoreTypeOK
  <2>2. PICK o \in Operations : SearchOperation(o)
    BY <1>4
  <2>3. PICK R \in FindTraces(Query(service, o)) : allTraceIds' = allTraceIds \cup R
    BY <2>2 DEF SearchOperation
  <2>4. R \subseteq Traces
    BY <2>1, FindTracesMatching
  <2> QED
    BY <2>2, <2>3, <2>4 DEF SearchOperation, TprofTypes
<1>5. CASE ServiceSearched \/ EndAttempt \/ GroupingEnds \/ ProfilingEnds
  BY <1>5 DEF ServiceSearched, EndAttempt, GroupingEnds, ProfilingEnds, TprofTypes,
              PcValues
<1>6. CASE \E t \in Traces : GroupTrace(t) \/ ProfileTrace(t)
  BY <1>6, LayerTypes
<1> QED
  BY <1>1, <1>2, <1>3, <1>4, <1>5, <1>6 DEF Tprof

\* The base invariant is inductive.
LEMMA BaseInvInductive ==
  /\ GInit => BaseInv
  /\ BaseInv /\ [GNext]_vars => BaseInv'
<1>1. ASSUME GInit PROVE BaseInv
  <2>1. StoreInv /\ StoredIsIndexed
    BY <1>1, FreshStore DEF GInit
  <2> QED
    BY <1>1, <2>1, BoundsAssumption, SMT
       DEF GInit, BaseInv, GTypeOK, StoreInv, PcValues, CrashValues
<1>2. ASSUME BaseInv, [GNext]_vars PROVE BaseInv'
  <2>1. StoreInv' /\ StoredIsIndexed'
    BY <1>2, StorePart DEF BaseInv
  <2>2. TprofTypes
    BY <1>2 DEF BaseInv, GTypeOK, TprofTypes
  <2>3. TprofTypes'
    <3>1. CASE Tprof
      BY <1>2, <2>2, <3>1, TprofKeepsTypes
    <3>2. CASE UNCHANGED tprofVars
      BY <2>2, <3>2 DEF tprofVars, TprofTypes
    <3> QED
      BY <1>2, <3>1, <3>2, EnvFrame DEF GNext, vars
  <2>4. /\ up' \in BOOLEAN
        /\ restarts' \in 0..MaxRestarts
        /\ written' \in [Spans -> 0..MaxCopies]
    <3>1. CASE UNCHANGED envVars
      BY <1>2, <3>1 DEF envVars, BaseInv, GTypeOK
    <3>2. CASE StoreStops
      <4>1. restarts' \in 0..MaxRestarts
        BY <1>2, <3>2, BoundsAssumption, SMT DEF StoreStops, BaseInv, GTypeOK
      <4> QED
        BY <1>2, <3>2, <4>1 DEF StoreStops, BaseInv, GTypeOK
    <3>3. CASE StoreStarts
      BY <1>2, <3>3 DEF StoreStarts, BaseInv, GTypeOK
    <3>4. CASE \E s \in Spans : Deliver(s)
      <4>1. PICK s \in Spans : Deliver(s)
        BY <3>4
      <4>2. written \in [Spans -> 0..MaxCopies] /\ written[s] + 1 \in 0..MaxCopies
        BY <1>2, <4>1, BoundsAssumption, SMT DEF Deliver, BaseInv, GTypeOK
      <4> QED
        BY <1>2, <4>1, <4>2 DEF Deliver, BaseInv, GTypeOK
    <3>5. CASE Tprof
      BY <3>1, <3>5, TprofReadsOnly
    <3>6. CASE UNCHANGED vars
      BY <3>1, <3>6 DEF vars
    <3> QED
      BY <1>2, <3>2, <3>3, <3>4, <3>5, <3>6 DEF GNext, Env
  <2>5. visible' \subseteq Traces
    <3>1. Searchable \subseteq Stored /\ Stored \subseteq Traces
      BY <1>2 DEF Searchable, BaseInv, StoreInv, StoreTypeOK
    <3>2. CASE Tprof
      BY <1>2, <3>1, <3>2
         DEF Tprof, RpcFails, BeginAttempt, ServiceSearched, EndAttempt, GroupingEnds,
             ProfilingEnds, NextService, SearchOperation, GroupTrace, ProfileTrace,
             BaseInv, GTypeOK
    <3>3. CASE Env
      BY <1>2, <3>3 DEF Env, StoreStops, StoreStarts, Deliver, BaseInv, GTypeOK
    <3>4. CASE UNCHANGED vars
      BY <1>2, <3>4 DEF vars, BaseInv, GTypeOK
    <3> QED
      BY <1>2, <3>2, <3>3, <3>4 DEF GNext
  <2> QED
    BY <2>1, <2>3, <2>4, <2>5 DEF BaseInv, GTypeOK, TprofTypes, StoreInv
<1> QED
  BY <1>1, <1>2

\* Type correctness of the composed system.
THEOREM TypeCorrect == GSpec => []GTypeOK
<1>1. BaseInv => GTypeOK
  BY DEF BaseInv
<1> QED
  BY <1>1, BaseInvInductive, PTL DEF GSpec
-----------------------------------------------------------------------------
(***************************************************************************)
(* tprof stops early only for a cause outside it.                          *)
(***************************************************************************)
\* What is stored was delivered, and what is stored twice was delivered twice.
CopiesCounted ==
  \A t \in Stored : \A i \in DOMAIN traces[t] :
    /\ written[traces[t][i]] >= 1
    /\ \A j \in DOMAIN traces[t] :
         i # j /\ traces[t][i] = traces[t][j] => written[traces[t][i]] > 1

\* An unbounded store that was never stopped still holds all that tprof found.
FoundIsKept ==
  MaxTraces = 0 /\ restarts = 0 => allTraceIds \cup traceIds \cup todo \subseteq Stored

CrashInv ==
  /\ CopiesCounted
  /\ FoundIsKept
  /\ restarts = 0 => up
  /\ pc = "crashed" => crash # "none"
  /\ CrashHasCause

\* Delivering a span counts it.
LEMMA DeliverCounts ==
  ASSUME BaseInv, CopiesCounted, NEW s \in Spans, Deliver(s)
  PROVE  CopiesCounted'
<1>1. /\ WriteSpan(s) /\ StoreInv
      /\ written \in [Spans -> Nat]
      /\ written' = [written EXCEPT ![s] = @ + 1]
      /\ \A t \in Stored : traces[t] \in Seq(Spans)
  BY BoundsAssumption, SMT DEF Deliver, BaseInv, GTypeOK, StoreInv, StoreTypeOK
<1>2. /\ \A x \in Spans : written'[x] >= written[x]
      /\ written'[s] = written[s] + 1
  BY <1>1, SMT
<1> SUFFICES ASSUME NEW t \in Stored', NEW i \in DOMAIN traces'[t]
             PROVE  /\ written'[traces'[t][i]] >= 1
                    /\ \A j \in DOMAIN traces'[t] :
                         i # j /\ traces'[t][i] = traces'[t][j]
                           => written'[traces'[t][i]] > 1
  BY DEF CopiesCounted
<1>3. CASE t \in Stored /\ traces'[t] = traces[t]
  <2>1. \A k \in DOMAIN traces[t] : traces[t][k] \in Spans
    BY <1>1, <1>3
  <2>2. \A n, m \in Nat : n >= m => (m >= 1 => n >= 1) /\ (m > 1 => n > 1)
    BY SMT
  <2>3. \A x \in Spans : written[x] \in Nat /\ written'[x] \in Nat
    BY <1>1, SMT
  <2> QED
    BY <1>2, <1>3, <2>1, <2>2, <2>3 DEF CopiesCounted
<1>4. CASE t = s.trace /\ t \in Stored /\ traces'[t] = Append(traces[t], s)
  <2> DEFINE n == Len(traces[t])
  <2>1. /\ DOMAIN traces'[t] = 1..(n + 1)
        /\ DOMAIN traces[t] = 1..n
        /\ n \in Nat
        /\ traces'[t][n + 1] = s
        /\ \A k \in 1..n : traces'[t][k] = traces[t][k] /\ traces[t][k] \in Spans
    BY <1>1, <1>4, AppendElements
  <2>2. \A k \in 1..n : written[traces[t][k]] >= 1
    BY <1>4, <2>1 DEF CopiesCounted
  <2>3. written'[traces'[t][i]] >= 1
    <3>1. CASE i \in 1..n
      BY <1>1, <1>2, <2>1, <2>2, <3>1, SMT
    <3>2. CASE i = n + 1
      BY <1>1, <1>2, <2>1, <3>2, SMT
    <3> QED
      BY <2>1, <3>1, <3>2, SMT
  <2>4. ASSUME NEW j \in DOMAIN traces'[t], i # j, traces'[t][i] = traces'[t][j]
        PROVE  written'[traces'[t][i]] > 1
    <3>1. CASE i \in 1..n /\ j \in 1..n
      <4>1. written[traces[t][i]] > 1
        BY <1>4, <2>1, <2>4, <3>1 DEF CopiesCounted
      <4> QED
        BY <1>1, <1>2, <2>1, <3>1, <4>1, SMT
    <3>2. CASE i = n + 1 \/ j = n + 1
      <4>1. PICK k \in 1..n : traces[t][k] = s /\ traces'[t][i] = s
        BY <2>1, <2>4, <3>2, SMT
      <4>2. written[s] >= 1
        BY <2>2, <4>1
      <4> QED
        BY <1>1, <1>2, <4>1, <4>2, SMT
    <3> QED
      BY <2>1, <2>4, <3>1, <3>2, SMT
  <2> QED
    BY <2>3, <2>4
<1>5. CASE t = s.trace /\ traces'[t] = <<s>>
  <2>1. DOMAIN traces'[t] = {1} /\ traces'[t][1] = s
    BY <1>5, SMT
  <2>2. written'[s] >= 1
    BY <1>1, <1>2, SMT
  <2> QED
    BY <2>1, <2>2
<1> QED
  BY <1>1, <1>3, <1>4, <1>5, WriteSpanSequences

\* A failed assertion of the construction has a cause in what was delivered.
LEMMA AssertionCause ==
  ASSUME BaseInv, CopiesCounted, NEW t \in Stored, AssertionFails(traces[t])
  PROVE  \E s \in Spans : BadlyDelivered(s)
<1>1. \A i \in DOMAIN traces[t] : traces[t][i] \in Spans /\ traces[t][i].trace = t
  BY DEF BaseInv, StoreInv, StoreTypeOK, StoredIsIndexed, SpansOf
<1>2. CASE DuplicateSpan(traces[t])
  <2>1. PICK i, j \in DOMAIN traces[t] :
          i # j /\ traces[t][i].id = traces[t][j].id
    BY <1>2 DEF DuplicateSpan
  <2>2. traces[t][i] = traces[t][j]
    BY <1>1, <2>1, SpanIdAssumption
  <2>3. written[traces[t][i]] > 1
    BY <2>1, <2>2 DEF CopiesCounted
  <2> QED
    BY <1>1, <2>3 DEF BadlyDelivered
<1>3. CASE \E i \in DOMAIN traces[t] :
             ForeignReference(traces[t][i]) \/ SeveralParents(traces[t][i])
  <2>1. PICK i \in DOMAIN traces[t] :
          ForeignReference(traces[t][i]) \/ SeveralParents(traces[t][i])
    BY <1>3
  <2>2. written[traces[t][i]] >= 1 /\ written[traces[t][i]] \in Nat
    BY <1>1, BoundsAssumption, SMT DEF CopiesCounted, BaseInv, GTypeOK
  <2>3. written[traces[t][i]] > 0
    BY <2>2, SMT
  <2> QED
    BY <1>1, <2>1, <2>3 DEF BadlyDelivered
<1> QED
  BY <1>2, <1>3 DEF AssertionFails

\* The loops of layer 1: an exception has a cause, and nothing is forgotten.
LEMMA LayerCrash ==
  ASSUME BaseInv, CrashInv, NEW t \in Traces, GroupTrace(t) \/ ProfileTrace(t)
  PROVE  CrashInv'
<1>1. /\ Stored' = Stored /\ traces' = traces
      /\ UNCHANGED <<up, restarts, written>>
      /\ restarts \in Nat
  BY SMT DEF GroupTrace, ProfileTrace, storeVars, envVars, Stored, BaseInv, GTypeOK
<1>2. CopiesCounted'
  BY <1>1 DEF CrashInv, CopiesCounted
<1>3. t \in todo
  BY DEF GroupTrace, ProfileTrace
<1>4. CASE GetTraceRaises(t)
  <2>1. FoundIsKept' /\ (restarts' = 0 => up') /\ crash' # "none" /\ pc' = "crashed"
    BY <1>1, <1>4 DEF GetTraceRaises, Crash, CrashInv, FoundIsKept
  <2>2. CASE ~up /\ crash' = "rpc"
    <3>1. restarts > 0
      BY <1>1, <2>2, SMT DEF CrashInv
    <3> QED
      BY <1>1, <1>2, <2>1, <2>2, <3>1 DEF CrashInv, CrashHasCause, BadlyDelivered
  <2>3. CASE t \notin Stored /\ crash' = "not_found"
    <3>1. MaxTraces # 0 \/ restarts # 0
      BY <1>3, <2>3 DEF CrashInv, FoundIsKept
    <3>2. MaxTraces > 0 \/ restarts > 0
      BY <1>1, <3>1, MaxTracesAssumption, SMT
    <3> QED
      BY <1>1, <1>2, <2>1, <2>3, <3>2 DEF CrashInv, CrashHasCause, BadlyDelivered
  <2>4. CASE t \in Stored /\ AssertionFails(traces[t]) /\ crash' = "assertion"
    <3>1. \E s \in Spans : BadlyDelivered(s)
      BY <2>4, AssertionCause DEF CrashInv
    <3> QED
      BY <1>1, <1>2, <2>1, <2>4, <3>1 DEF CrashInv, CrashHasCause, BadlyDelivered
  <2> QED
    BY <1>4, <2>2, <2>3, <2>4 DEF GetTraceRaises, Crash
<1>5. CASE UNCHANGED <<pc, crash, allTraceIds, traceIds>> /\ todo' = todo \ {t}
  BY <1>1, <1>2, <1>5 DEF CrashInv, FoundIsKept, CrashHasCause, BadlyDelivered
<1> QED
  BY <1>4, <1>5 DEF GroupTrace, ProfileTrace

\* Every other step of tprof.
LEMMA TprofCrash ==
  ASSUME BaseInv, CrashInv, Tprof
  PROVE  CrashInv'
<1>1. /\ Stored' = Stored /\ traces' = traces
      /\ UNCHANGED <<up, restarts, written>>
      /\ restarts \in Nat
  BY TprofReadsOnly, SMT DEF storeVars, envVars, Stored, BaseInv, GTypeOK
<1>2. CopiesCounted'
  BY <1>1 DEF CrashInv, CopiesCounted
<1>3. CASE RpcFails
  <2>1. restarts > 0
    BY <1>1, <1>3, SMT DEF RpcFails, CrashInv
  <2> QED
    BY <1>1, <1>2, <1>3, <2>1 DEF RpcFails, Crash, CrashInv, FoundIsKept, CrashHasCause, BadlyDelivered
<1>4. CASE BeginAttempt
  BY <1>1, <1>2, <1>4 DEF BeginAttempt, CrashInv, FoundIsKept, CrashHasCause, BadlyDelivered
<1>5. CASE \E v \in Services : NextService(v)
  BY <1>1, <1>2, <1>5 DEF NextService, CrashInv, FoundIsKept, CrashHasCause, BadlyDelivered
<1>6. CASE \E o \in Operations : SearchOperation(o)
  <2>1. PICK o \in Operations : SearchOperation(o)
    BY <1>6
  <2>2. PICK R \in FindTraces(Query(service, o)) : allTraceIds' = allTraceIds \cup R
    BY <2>1 DEF SearchOperation
  <2>3. R \subseteq Stored
    BY FindTracesMatching
  <2> QED
    BY <1>1, <1>2, <2>1, <2>2, <2>3
       DEF SearchOperation, CrashInv, FoundIsKept, CrashHasCause, BadlyDelivered
<1>7. CASE ServiceSearched
  BY <1>1, <1>2, <1>7 DEF ServiceSearched, CrashInv, FoundIsKept, CrashHasCause, BadlyDelivered
<1>8. CASE EndAttempt
  BY <1>1, <1>2, <1>8 DEF EndAttempt, CrashInv, FoundIsKept, CrashHasCause, BadlyDelivered
<1>9. CASE GroupingEnds \/ ProfilingEnds
  BY <1>1, <1>2, <1>9 DEF GroupingEnds, ProfilingEnds, CrashInv, FoundIsKept, CrashHasCause, BadlyDelivered
<1>10. CASE \E t \in Traces : GroupTrace(t) \/ ProfileTrace(t)
  BY <1>10, LayerCrash
<1> QED
  BY <1>3, <1>4, <1>5, <1>6, <1>7, <1>8, <1>9, <1>10 DEF Tprof

\* The steps of the environment: counts only grow, and an unbounded store drops
\* nothing.
LEMMA EnvCrash ==
  ASSUME BaseInv, CrashInv, Env
  PROVE  CrashInv'
<1>1. /\ UNCHANGED tprofVars
      /\ restarts \in Nat
      /\ written \in [Spans -> Nat]
  BY EnvFrame, BoundsAssumption, SMT DEF BaseInv, GTypeOK
<1>2. CASE StoreStops
  <2>1. restarts' > 0 /\ restarts' # 0
    BY <1>1, <1>2, SMT DEF StoreStops
  <2>2. CopiesCounted'
    BY <1>2 DEF StoreStops, Restart, CopiesCounted, Stored
  <2> QED
    BY <1>1, <1>2, <2>1, <2>2
       DEF StoreStops, tprofVars, CrashInv, FoundIsKept, CrashHasCause, BadlyDelivered
<1>3. CASE StoreStarts
  BY <1>1, <1>3 DEF StoreStarts, storeVars, tprofVars, Stored, CrashInv, FoundIsKept,
                    CrashHasCause, CopiesCounted, BadlyDelivered
<1>4. CASE \E s \in Spans : Deliver(s)
  <2>1. PICK s \in Spans : Deliver(s)
    BY <1>4
  <2>2. CopiesCounted'
    BY <2>1, DeliverCounts DEF CrashInv
  <2>3. MaxTraces = 0 => Stored \subseteq Stored'
    BY <2>1, SMT DEF Deliver, WriteSpan, AddToTrace, NewTraceUnbounded, NewTraceInRing, Stored
  <2>4. \A x \in Spans : /\ written[x] > 1 => written'[x] > 1
                       /\ written[x] > 0 => written'[x] > 0
    BY <1>1, <2>1, SMT DEF Deliver
  <2>5. CrashHasCause'
    BY <1>1, <2>1, <2>4
       DEF Deliver, tprofVars, CrashInv, CrashHasCause, BadlyDelivered
  <2> QED
    BY <1>1, <2>1, <2>2, <2>3, <2>5
       DEF Deliver, tprofVars, CrashInv, FoundIsKept
<1> QED
  BY <1>2, <1>3, <1>4 DEF Env

\* The invariant behind the causes is inductive.
LEMMA CrashInvInductive ==
  /\ GInit => BaseInv /\ CrashInv
  /\ BaseInv /\ CrashInv /\ [GNext]_vars => BaseInv' /\ CrashInv'
<1>1. GInit => BaseInv /\ CrashInv
  <2>1. GInit => CrashInv
    BY DEF GInit, StoreInit, CrashInv, CopiesCounted, FoundIsKept, CrashHasCause,
           BadlyDelivered, Stored
  <2> QED
    BY <2>1, BaseInvInductive
<1>2. ASSUME BaseInv, CrashInv, [GNext]_vars PROVE BaseInv' /\ CrashInv'
  <2>1. BaseInv'
    BY <1>2, BaseInvInductive
  <2>2. CASE UNCHANGED vars
    <3>1. /\ Stored' = Stored
          /\ UNCHANGED <<traces, written, restarts, up, pc, crash, allTraceIds, traceIds, todo>>
      BY <2>2 DEF vars, storeVars, tprofVars, envVars, Stored
    <3>2. CopiesCounted'
      BY <1>2, <3>1 DEF CrashInv, CopiesCounted
    <3> QED
      BY <1>2, <2>1, <3>1, <3>2 DEF CrashInv, FoundIsKept, CrashHasCause, BadlyDelivered
  <2>3. CASE Tprof
    BY <1>2, <2>1, <2>3, TprofCrash
  <2>4. CASE Env
    BY <1>2, <2>1, <2>4, EnvCrash
  <2> QED
    BY <1>2, <2>2, <2>3, <2>4 DEF GNext
<1> QED
  BY <1>1, <1>2

\* tprof stops early only when the store was stopped, a bounded store evicted a
\* trace, a span was delivered twice, or a span came with refused references
\* (gather.py:98-140, 163-167, 191).
THEOREM CrashesHaveCauses == GSpec => []CrashHasCause
<1>1. CrashInv => CrashHasCause
  BY DEF CrashInv
<1> QED
  BY <1>1, CrashInvInductive, PTL DEF GSpec

\* With an unbounded store that is never stopped, no repeated span and references
\* the construction accepts, tprof never stops early: it finds again every trace it
\* found, and none of the assertions fails on any set of spans that arrived.
THEOREM UndisturbedNeverCrashes == GSpec => []NoCrashUndisturbed
<1>1. BaseInv /\ CrashInv => NoCrashUndisturbed
  <2> SUFFICES ASSUME BaseInv, CrashInv, Undisturbed, pc = "crashed" PROVE FALSE
    BY DEF NoCrashUndisturbed
  <2>1. crash \in CrashValues /\ crash # "none"
    BY DEF BaseInv, GTypeOK, CrashInv
  <2>2. \A s \in Spans : written[s] \in Nat /\ ~(written[s] > 1)
    BY BoundsAssumption, SMT DEF Undisturbed, BaseInv, GTypeOK
  <2>3. crash # "assertion"
    BY <2>2 DEF CrashInv, CrashHasCause, BadlyDelivered, Undisturbed
  <2>4. crash # "rpc" /\ crash # "not_found"
    BY SMT DEF CrashInv, CrashHasCause, BadlyDelivered, Undisturbed
  <2> QED
    BY <2>1, <2>3, <2>4 DEF CrashValues
<1> QED
  BY <1>1, CrashInvInductive, PTL DEF GSpec
-----------------------------------------------------------------------------
(***************************************************************************)
(* The groups of layer 1.                                                  *)
(***************************************************************************)
Grouped == groups[Good] \cup groups[Erroneous]

\* The groups agree with the cache at every moment of the two loops.
BucketInv ==
  /\ \A g \in {Good, Erroneous} : \A t \in groups[g] :
       t \in DOMAIN cache /\ StatusStr(cache[t]) = g
  /\ \A t \in DOMAIN profiled : t \in Grouped /\ profiled[t] = cache[t]
  /\ pc \in {"poll", "services", "operations"} => Grouped = {}
  /\ pc = "group" => todo \subseteq traceIds /\ Grouped = traceIds \ todo
  /\ pc \in {"profile", "done"} => todo \subseteq traceIds /\ Grouped = traceIds

\* get_trace never changes an object that is cached.
LEMMA GetTraceKeepsCache ==
  ASSUME NEW t, GetTraceReturns(t)
  PROVE  /\ DOMAIN cache' = DOMAIN cache \cup {t}
         /\ cache'[t] = TraceOf(t)
         /\ \A u \in DOMAIN cache : cache'[u] = cache[u]
BY DEF GetTraceReturns, TraceOf, Cached

\* Grouping a trace.
LEMMA GroupTraceBuckets ==
  ASSUME BaseInv, BucketInv, NEW t \in Traces, GroupTrace(t)
  PROVE  BucketInv'
<1>1. CASE GetTraceRaises(t)
  <2>1. pc' = "crashed" /\ UNCHANGED <<groups, cache, profiled>>
    BY <1>1 DEF GetTraceRaises, Crash
  <2> QED
    BY <2>1 DEF BucketInv, Grouped
<1>2. CASE /\ GetTraceReturns(t)
           /\ groups' = [groups EXCEPT ![StatusStr(TraceOf(t))] = @ \cup {t}]
           /\ todo' = todo \ {t}
           /\ UNCHANGED <<pc, traceIds, profiled>>
  <2> DEFINE g0 == StatusStr(TraceOf(t))
  <2>1. g0 \in {Good, Erroneous} /\ Good # Erroneous
    BY DEF StatusStr, Good, Erroneous
  <2>2. /\ pc = "group" /\ t \in todo /\ todo \subseteq traceIds
        /\ groups \in [{Good, Erroneous} -> SUBSET Traces]
    BY DEF GroupTrace, BucketInv, BaseInv, GTypeOK
  <2>3. /\ groups'[g0] = groups[g0] \cup {t}
        /\ \A g \in {Good, Erroneous} : g # g0 => groups'[g] = groups[g]
    BY <1>2, <2>1, <2>2
  <2>4. Grouped' = Grouped \cup {t}
    BY <2>1, <2>3 DEF Grouped
  <2>5. \A g \in {Good, Erroneous} : \A u \in groups'[g] :
          u \in DOMAIN cache' /\ StatusStr(cache'[u]) = g
    <3>1. \A g \in {Good, Erroneous} : \A u \in groups[g] :
            u \in DOMAIN cache' /\ cache'[u] = cache[u] /\ StatusStr(cache[u]) = g
      BY <1>2, GetTraceKeepsCache DEF BucketInv
    <3>2. t \in DOMAIN cache' /\ StatusStr(cache'[t]) = g0
      BY <1>2, GetTraceKeepsCache
    <3> HIDE DEF g0
    <3> SUFFICES ASSUME NEW g \in {Good, Erroneous}, NEW u \in groups'[g]
                 PROVE  u \in DOMAIN cache' /\ StatusStr(cache'[u]) = g
      OBVIOUS
    <3>3. u \in groups[g] \/ (g = g0 /\ u = t)
      BY <2>3
    <3>4. CASE u \in groups[g]
      <4>1. cache'[u] = cache[u]
        BY <3>1, <3>4
      <4> QED
        BY <3>1, <3>4, <4>1
    <3> QED
      BY <3>2, <3>3, <3>4
  <2>6. \A u \in DOMAIN profiled : u \in Grouped' /\ profiled[u] = cache'[u]
    BY <1>2, <2>1, <2>4, GetTraceKeepsCache DEF BucketInv, Grouped
  <2> QED
    BY <1>2, <2>2, <2>4, <2>5, <2>6 DEF BucketInv
<1> QED
  BY <1>1, <1>2 DEF GroupTrace

\* Profiling a trace: it was grouped, hence cached.
LEMMA ProfileTraceBuckets ==
  ASSUME BaseInv, BucketInv, NEW t \in Traces, ProfileTrace(t)
  PROVE  BucketInv'
<1>1. CASE GetTraceRaises(t)
  <2>1. pc' = "crashed" /\ UNCHANGED <<groups, cache, profiled>>
    BY <1>1 DEF GetTraceRaises, Crash
  <2> QED
    BY <2>1 DEF BucketInv, Grouped
<1>2. CASE /\ GetTraceReturns(t)
           /\ profiled' = [u \in DOMAIN profiled \cup {t} |->
                             IF u = t THEN TraceOf(t) ELSE profiled[u]]
           /\ todo' = todo \ {t}
           /\ UNCHANGED <<pc, traceIds, groups>>
  <2>1. pc = "profile" /\ t \in Grouped /\ t \in DOMAIN cache
    BY DEF ProfileTrace, BucketInv, Grouped
  <2>2. \A u \in DOMAIN cache : cache'[u] = cache[u] /\ u \in DOMAIN cache'
    BY <1>2, GetTraceKeepsCache
  <2>3. \A u \in DOMAIN profiled' : u \in Grouped /\ profiled'[u] = cache'[u]
    <3>1. TraceOf(t) = cache[t]
      BY <2>1 DEF TraceOf, Cached
    <3> QED
      BY <1>2, <2>1, <2>2, <3>1 DEF BucketInv, Grouped
  <2> QED
    BY <1>2, <2>1, <2>2, <2>3 DEF BucketInv, Grouped
<1> QED
  BY <1>1, <1>2 DEF ProfileTrace

\* Every object layer 1 profiles has the status its bucket is named after, the
\* buckets are disjoint, and after grouping they hold exactly the found traces.
THEOREM BucketsAgree == GSpec => []BucketsShareStatus
<1> DEFINE Inv == BaseInv /\ BucketInv
<1>1. GInit => Inv
  BY BaseInvInductive DEF GInit, BucketInv, Grouped
<1>2. Inv /\ [GNext]_vars => Inv'
  <2> SUFFICES ASSUME Inv, [GNext]_vars PROVE Inv'
    OBVIOUS
  <2>1. BaseInv'
    BY BaseInvInductive
  <2>2. CASE UNCHANGED tprofVars
    BY <2>1, <2>2 DEF tprofVars, BucketInv, Grouped
  <2>3. CASE RpcFails
    BY <2>1, <2>3 DEF RpcFails, Crash, BucketInv, Grouped
  <2>4. CASE BeginAttempt
    BY <2>1, <2>4 DEF BeginAttempt, BucketInv, Grouped
  <2>5. CASE \E v \in Services : NextService(v)
    BY <2>1, <2>5 DEF NextService, BucketInv, Grouped
  <2>6. CASE \E o \in Operations : SearchOperation(o)
    BY <2>1, <2>6 DEF SearchOperation, BucketInv, Grouped
  <2>7. CASE ServiceSearched
    BY <2>1, <2>7 DEF ServiceSearched, BucketInv, Grouped
  <2>8. CASE EndAttempt
    BY <2>1, <2>8 DEF EndAttempt, BucketInv, Grouped
  <2>9. CASE GroupingEnds \/ ProfilingEnds
    BY <2>1, <2>9 DEF GroupingEnds, ProfilingEnds, BucketInv, Grouped
  <2>10. CASE \E t \in Traces : GroupTrace(t) \/ ProfileTrace(t)
    BY <2>1, <2>10, GroupTraceBuckets, ProfileTraceBuckets
  <2>11. CASE Env
    BY <2>2, <2>11, EnvFrame
  <2>12. CASE UNCHANGED vars
    BY <2>2, <2>12 DEF vars
  <2> QED
    BY <2>3, <2>4, <2>5, <2>6, <2>7, <2>8, <2>9, <2>10, <2>11, <2>12 DEF GNext, Tprof
<1>3. Inv => BucketsShareStatus
  <2>1. Good # Erroneous
    BY DEF Good, Erroneous
  <2>2. \A o : StatusStr(o) \in {Good, Erroneous}
    BY DEF StatusStr
  <2> QED
    BY <2>1, <2>2 DEF BucketInv, Grouped, BucketsShareStatus
<1> QED
  BY <1>1, <1>2, <1>3, PTL DEF GSpec
-----------------------------------------------------------------------------
(***************************************************************************)
(* No searchable trace is missed.                                          *)
(***************************************************************************)
DepthSuffices == SearchDepth = 0 \/ SearchDepth >= Cardinality(Traces)

\* A span the attempt will find its trace by: its service, or its operation of
\* the service being searched, is still ahead.
Ahead(s) ==
  /\ Searched(s.service, s.operation)
  /\ ValidSpan(s, Query(s.service, s.operation))
  /\ \/ s.service \in servicesLeft
     \/ pc = "operations" /\ s.service = service /\ s.operation \in operationsLeft

\* Each trace that was searchable when the attempt began is found or ahead.
SearchInv ==
  /\ visible \subseteq Stored
  /\ DepthSuffices /\ pc \in {"services", "operations"} =>
       \A t \in visible : t \in allTraceIds \/ \E s \in SpansOf(t) : Ahead(s)
  /\ DepthSuffices /\ pc \in {"group", "profile", "done"} => visible \subseteq traceIds

\* Beginning an attempt: every service of a stored span is listed.
LEMMA BeginSearch ==
  ASSUME BaseInv, SearchInv, BeginAttempt
  PROVE  SearchInv'
<1>1. /\ Stored' = Stored /\ \A t \in Stored : SpansOf(t)' = SpansOf(t)
      /\ visible' = Searchable /\ pc' = "services"
  BY StoreFrame DEF BaseInv, BeginAttempt
<1>2. ASSUME NEW t \in Searchable PROVE \E s \in SpansOf(t)' : Ahead(s)'
  <2>1. PICK s \in SpansOf(t) : /\ Searched(s.service, s.operation)
                                /\ ValidSpan(s, Query(s.service, s.operation))
    BY <1>2 DEF Searchable
  <2>2. s.service \in services
    BY <1>2, <2>1 DEF Searchable, BaseInv, StoredIsIndexed
  <2>3. s.service \in servicesLeft'
    BY <2>1, <2>2 DEF BeginAttempt, Searched, GetServices
  <2> QED
    BY <1>1, <1>2, <2>1, <2>3 DEF Ahead, Searchable
<1> QED
  BY <1>1, <1>2 DEF SearchInv, Searchable

\* Moving to a service: the operations of its stored spans are listed.
LEMMA NextServiceSearch ==
  ASSUME BaseInv, SearchInv, NEW v \in Services, NextService(v)
  PROVE  SearchInv'
<1>1. /\ Stored' = Stored /\ \A t \in Stored : SpansOf(t)' = SpansOf(t)
      /\ visible' = visible /\ allTraceIds' = allTraceIds
      /\ pc = "services" /\ pc' = "operations"
      /\ servicesLeft' = servicesLeft \ {v} /\ service' = v
  BY StoreFrame DEF BaseInv, NextService
<1>2. ASSUME NEW t \in Stored, NEW s \in SpansOf(t), Ahead(s) PROVE Ahead(s)'
  <2>1. s.operation \in operations[s.service]
    BY <1>2 DEF BaseInv, StoredIsIndexed
  <2>2. s.service = v => s.operation \in operationsLeft'
    BY <1>2, <2>1 DEF NextService, Ahead, Searched, GetOperations
  <2>3. s.service \in servicesLeft
    BY <1>1, <1>2 DEF Ahead
  <2> QED
    BY <1>1, <1>2, <2>2, <2>3 DEF Ahead
<1> QED
  BY <1>1, <1>2 DEF SearchInv

\* One FindTraces call finds every trace that had a span of this operation ahead.
LEMMA SearchOperationSearch ==
  ASSUME IsFiniteSet(Traces), BaseInv, SearchInv, NEW o \in Operations, SearchOperation(o)
  PROVE  SearchInv'
<1> DEFINE q == Query(service, o)
<1>1. /\ Stored' = Stored /\ \A t \in Stored : SpansOf(t)' = SpansOf(t)
      /\ visible' = visible /\ pc = "operations" /\ pc' = pc
      /\ servicesLeft' = servicesLeft /\ service' = service
      /\ operationsLeft' = operationsLeft \ {o}
  BY StoreFrame DEF BaseInv, SearchOperation
<1>2. PICK R \in FindTraces(q) : allTraceIds' = allTraceIds \cup R
  BY DEF SearchOperation
<1>3. DepthSuffices => R = Matching(q)
  <2>1. Matching(q) \subseteq Traces
    BY FindTracesMatching DEF BaseInv, StoreInv, StoreTypeOK
  <2>2. /\ Cardinality(Matching(q)) <= Cardinality(Traces)
        /\ Cardinality(Matching(q)) \in Nat /\ Cardinality(Traces) \in Nat
    BY <2>1, FS_Subset, FS_CardinalityType
  <2>3. q.numTraces = SearchDepth
    BY DEF Query
  <2>4. DepthSuffices => q.numTraces = 0 \/ Cardinality(Matching(q)) <= q.numTraces
    BY <2>2, <2>3, BoundsAssumption, SMT DEF DepthSuffices
  <2> QED
    BY <2>4, FindTracesMatching
<1>4. ASSUME NEW t \in Stored, NEW s \in SpansOf(t), Ahead(s), DepthSuffices
      PROVE  Ahead(s)' \/ t \in allTraceIds'
  <2>1. CASE s.service = service /\ s.operation = o
    <3>1. t \in Matching(q)
      BY <1>4, <2>1 DEF Ahead, Matching
    <3> QED
      BY <1>2, <1>3, <1>4, <3>1
  <2>2. CASE ~(s.service = service /\ s.operation = o)
    BY <1>1, <1>4, <2>2 DEF Ahead
  <2> QED
    BY <2>1, <2>2
<1> QED
  BY <1>1, <1>2, <1>4 DEF SearchInv

\* A span arrives: what was stored and stays is still ahead.
LEMMA DeliverSearch ==
  ASSUME BaseInv, SearchInv, NEW s \in Spans, Deliver(s)
  PROVE  SearchInv'
<1>1. /\ WriteSpan(s) /\ StoreInv /\ UNCHANGED tprofVars
      /\ visible' = visible \cap Stored'
  BY DEF Deliver, BaseInv
<1>2. \A t \in visible' : t \in Stored /\ SpansOf(t) \subseteq SpansOf(t)'
  BY <1>1, WriteSpanSpans DEF SearchInv
<1>3. \A x : Ahead(x) => Ahead(x)'
  BY <1>1 DEF Ahead, tprofVars
<1> QED
  BY <1>1, <1>2, <1>3 DEF SearchInv, tprofVars

\* If search_depth is no limit, tprof analyses every trace that was searchable
\* when the successful attempt began and was not evicted or lost during it.
THEOREM NothingSearchableMissed ==
  ASSUME IsFiniteSet(Traces)
  PROVE  GSpec => []NoSearchableTraceMissed
<1> DEFINE Inv == BaseInv /\ SearchInv
<1>1. GInit => Inv
  BY BaseInvInductive DEF GInit, SearchInv
<1>2. Inv /\ [GNext]_vars => Inv'
  <2> SUFFICES ASSUME Inv, [GNext]_vars PROVE Inv'
    OBVIOUS
  <2>1. BaseInv'
    BY BaseInvInductive
  <2>2. ASSUME UNCHANGED storeVars
        PROVE  Stored' = Stored /\ \A t \in Stored : SpansOf(t)' = SpansOf(t)
    BY <2>2, StoreFrame DEF BaseInv
  <2>3. CASE BeginAttempt
    BY <2>1, <2>3, BeginSearch
  <2>4. CASE \E v \in Services : NextService(v)
    BY <2>1, <2>4, NextServiceSearch
  <2>5. CASE \E o \in Operations : SearchOperation(o)
    BY <2>1, <2>5, SearchOperationSearch
  <2>6. CASE RpcFails
    BY <2>1, <2>2, <2>6 DEF RpcFails, Crash, SearchInv
  <2>7. CASE ServiceSearched
    BY <2>1, <2>2, <2>7 DEF ServiceSearched, SearchInv, Ahead
  <2>8. CASE EndAttempt
    BY <2>1, <2>2, <2>8 DEF EndAttempt, SearchInv, Ahead
  <2>9. CASE GroupingEnds \/ ProfilingEnds
    BY <2>1, <2>2, <2>9 DEF GroupingEnds, ProfilingEnds, SearchInv
  <2>10. CASE \E t \in Traces : GroupTrace(t) \/ ProfileTrace(t)
    BY <2>1, <2>2, <2>10
       DEF GroupTrace, ProfileTrace, GetTraceRaises, Crash, SearchInv
  <2>11. CASE StoreStops
    BY <2>1, <2>11 DEF StoreStops, tprofVars, SearchInv
  <2>12. CASE StoreStarts
    BY <2>1, <2>2, <2>12 DEF StoreStarts, tprofVars, SearchInv, Ahead
  <2>13. CASE \E s \in Spans : Deliver(s)
    BY <2>1, <2>13, DeliverSearch
  <2>14. CASE UNCHANGED vars
    BY <2>1, <2>2, <2>14 DEF vars, tprofVars, SearchInv, Ahead
  <2>15. CASE Env
    BY <2>11, <2>12, <2>13, <2>15 DEF Env
  <2>16. CASE Tprof
    BY <2>3, <2>4, <2>5, <2>6, <2>7, <2>8, <2>9, <2>10, <2>16 DEF Tprof
  <2> QED
    BY <2>14, <2>15, <2>16 DEF GNext
<1>3. Inv => NoSearchableTraceMissed
  BY DEF SearchInv, NoSearchableTraceMissed, DepthSuffices
<1> QED
  BY <1>1, <1>2, <1>3, PTL DEF GSpec
-----------------------------------------------------------------------------
(***************************************************************************)
(* What a cached object is.                                                *)
(***************************************************************************)
\* Only get_trace writes the cache.
LEMMA CacheWrittenByGetTrace ==
  ASSUME [GNext]_vars
  PROVE  \/ cache' = cache
         \/ \E t \in Traces : GetTraceReturns(t) /\ UNCHANGED <<storeVars, envVars>>
<1>1. CASE Env \/ UNCHANGED vars
  BY <1>1, EnvFrame DEF tprofVars, vars
<1>2. CASE Tprof
  <2>1. CASE \E t \in Traces : GroupTrace(t) \/ ProfileTrace(t)
    BY <2>1 DEF GroupTrace, ProfileTrace, GetTraceRaises, Crash
  <2>2. CASE \E v \in Services : NextService(v)
    BY <2>2 DEF NextService
  <2>3. CASE \E o \in Operations : SearchOperation(o)
    BY <2>3 DEF SearchOperation
  <2>4. CASE RpcFails \/ BeginAttempt \/ ServiceSearched \/ EndAttempt
    BY <2>4 DEF RpcFails, Crash, BeginAttempt, ServiceSearched, EndAttempt
  <2>5. CASE GroupingEnds \/ ProfilingEnds
    BY <2>5 DEF GroupingEnds, ProfilingEnds
  <2> QED
    BY <1>2, <2>1, <2>2, <2>3, <2>4, <2>5 DEF Tprof
<1> QED
  BY <1>1, <1>2 DEF GNext

\* Appending does not change a prefix.
LEMMA AppendKeepsPrefix ==
  ASSUME NEW q \in Seq(Spans), NEW e \in Spans, NEW n \in 1..Len(q)
  PROVE  /\ n \in 1..Len(Append(q, e))
         /\ SubSeq(Append(q, e), 1, n) = SubSeq(q, 1, n)
<1>1. /\ Append(q, e) \in Seq(Spans) /\ Len(Append(q, e)) = Len(q) + 1
      /\ \A i \in 1..Len(q) : Append(q, e)[i] = q[i]
      /\ Len(q) \in Nat
  BY AppendProperties, LenProperties
<1>2. n \in 1..Len(Append(q, e))
  BY <1>1, SMT
<1>3. /\ SubSeq(q, 1, n) \in Seq(Spans) /\ Len(SubSeq(q, 1, n)) = n
      /\ \A i \in 1..n : SubSeq(q, 1, n)[i] = q[i]
  BY <1>1, SMT
<1>4. /\ SubSeq(Append(q, e), 1, n) \in Seq(Spans) /\ Len(SubSeq(Append(q, e), 1, n)) = n
      /\ \A i \in 1..n : SubSeq(Append(q, e), 1, n)[i] = Append(q, e)[i]
  BY <1>1, <1>2, SMT
<1>5. \A i \in 1..n : SubSeq(Append(q, e), 1, n)[i] = SubSeq(q, 1, n)[i]
  BY <1>1, <1>3, <1>4, SMT
<1>6. SubSeq(Append(q, e), 1, n) = SubSeq(q, 1, n)
  BY <1>3, <1>4, <1>5, SeqEqual
<1> QED
  BY <1>2, <1>6

\* The whole of a sequence is a prefix of it.
LEMMA WholePrefix ==
  ASSUME NEW q \in Seq(Spans), q # <<>>
  PROVE  Len(q) \in 1..Len(q) /\ SubSeq(q, 1, Len(q)) = q
<1>1. Len(q) \in Nat /\ Len(q) # 0
  BY EmptySeq, SMT
<1>2. /\ SubSeq(q, 1, Len(q)) \in Seq(Spans) /\ Len(SubSeq(q, 1, Len(q))) = Len(q)
      /\ \A i \in 1..Len(q) : SubSeq(q, 1, Len(q))[i] = q[i]
  BY <1>1, SMT
<1>3. SubSeq(q, 1, Len(q)) = q
  BY <1>2, SeqEqual
<1> QED
  BY <1>1, <1>3, SMT

\* In an unbounded store a span that arrives is appended to its trace or opens it;
\* no other trace changes.
LEMMA UnboundedAppends ==
  ASSUME MaxTraces = 0, NEW s \in Spans, WriteSpan(s), NEW t \in Stored
  PROVE  t \in Stored' /\ (traces'[t] = traces[t] \/ traces'[t] = Append(traces[t], s))
<1>1. CASE AddToTrace(s)
  BY <1>1 DEF AddToTrace, Stored
<1>2. CASE NewTraceUnbounded(s)
  BY <1>2 DEF NewTraceUnbounded, Stored
<1>3. ~NewTraceInRing(s)
  BY SMT DEF NewTraceInRing
<1> QED
  BY <1>1, <1>2, <1>3 DEF WriteSpan

\* A cached object stays a view of what had arrived earlier.
LEMMA EarlierViewStep ==
  ASSUME BaseInv, CacheIsEarlierView, [GNext]_vars
  PROVE  CacheIsEarlierView'
<1>1. /\ restarts \in Nat
      /\ \A t \in Stored : traces[t] \in Seq(Spans) /\ traces[t] # <<>>
  BY BoundsAssumption, SMT DEF BaseInv, GTypeOK, StoreInv, StoreTypeOK
<1> SUFFICES ASSUME MaxTraces = 0, restarts' = 0, NEW t \in DOMAIN cache'
             PROVE  /\ t \in Stored'
                    /\ \E n \in 1..Len(traces'[t]) :
                         cache'[t] = CreateTraceObj(SubSeq(traces'[t], 1, n))
  BY DEF CacheIsEarlierView
<1>2. ~StoreStops
  BY <1>1, SMT DEF StoreStops
<1>3. CASE GetTraceReturns(t) /\ ~Cached(t) /\ UNCHANGED storeVars
  <2>1. t \in Stored /\ cache'[t] = CreateTraceObj(traces[t])
    BY <1>3 DEF GetTraceReturns, Fetchable, TraceOf
  <2>2. t \in Stored' /\ traces'[t] = traces[t]
    BY <1>3, <2>1 DEF storeVars, Stored
  <2>3. /\ Len(traces[t]) \in 1..Len(traces[t])
        /\ SubSeq(traces[t], 1, Len(traces[t])) = traces[t]
    BY <1>1, <2>1, WholePrefix
  <2> QED
    BY <2>1, <2>2, <2>3
<1>4. CASE t \in DOMAIN cache /\ cache'[t] = cache[t] /\ restarts = 0
  <2>1. t \in Stored
    BY <1>4 DEF CacheIsEarlierView
  <2>2. PICK n \in 1..Len(traces[t]) : cache[t] = CreateTraceObj(SubSeq(traces[t], 1, n))
    BY <1>4 DEF CacheIsEarlierView
  <2>3. t \in Stored' /\ (traces'[t] = traces[t]
                          \/ \E s \in Spans : traces'[t] = Append(traces[t], s))
    <3>1. CASE UNCHANGED storeVars
      BY <2>1, <3>1 DEF storeVars, Stored
    <3>2. CASE \E s \in Spans : Deliver(s)
      BY <2>1, <3>2, UnboundedAppends DEF Deliver
    <3> QED
      BY <1>2, <3>1, <3>2, TprofReadsOnly DEF GNext, Env, StoreStarts, vars
  <2>4. n \in 1..Len(traces'[t]) /\ SubSeq(traces'[t], 1, n) = SubSeq(traces[t], 1, n)
    BY <1>1, <2>1, <2>3, AppendKeepsPrefix
  <2> QED
    BY <1>4, <2>2, <2>3, <2>4
<1>5. restarts = 0
  <2>1. CASE UNCHANGED envVars
    BY <2>1 DEF envVars
  <2>2. CASE StoreStarts \/ \E s \in Spans : Deliver(s)
    BY <2>2 DEF StoreStarts, Deliver
  <2> QED
    BY <1>2, <2>1, <2>2, TprofReadsOnly DEF GNext, Env, vars
<1>6. CASE cache' = cache
  BY <1>4, <1>5, <1>6
<1>7. ASSUME NEW u \in Traces, GetTraceReturns(u), UNCHANGED storeVars
      PROVE  \/ GetTraceReturns(t) /\ ~Cached(t)
             \/ t \in DOMAIN cache /\ cache'[t] = cache[t]
  BY <1>7, GetTraceKeepsCache DEF Cached
<1> QED
  BY <1>3, <1>4, <1>5, <1>6, <1>7, CacheWrittenByGetTrace

\* While an unbounded store was never stopped, every cached object is what the
\* construction makes of the first n spans of what is stored now, for some n: spans
\* that arrive after get_trace never disturb it (gather.py:98-111).
THEOREM CacheIsAnEarlierView == GSpec => []CacheIsEarlierView
<1>1. GInit => CacheIsEarlierView
  BY DEF GInit, CacheIsEarlierView
<1> QED
  BY <1>1, EarlierViewStep, BaseInvInductive, PTL DEF GSpec
-----------------------------------------------------------------------------
(***************************************************************************)
(* The tree of an object.                                                  *)
(***************************************************************************)
\* What the construction is applied to: spans of one trace, no assertion failing.
Buildable(ss, t) ==
  /\ ss \in Seq(Spans) /\ ss # <<>>
  /\ \A i \in DOMAIN ss : ss[i].trace = t
  /\ ~AssertionFails(ss)

\* Every cached object was built from such a sequence.
CacheBuilt ==
  \A t \in DOMAIN cache : \E ss \in Seq(Spans) :
    Buildable(ss, t) /\ cache[t] = CreateTraceObj(ss)

\* The span of an id: the one it was built from, which carries the id.
LEMMA SpanOfId ==
  ASSUME NEW t, NEW ss, Buildable(ss, t), NEW i \in DOMAIN ss
  PROVE  /\ ss[i] \in Spans /\ ss[i].id \in SpanIds(ss) /\ ss[i].trace = t
         /\ CreateTraceObj(ss).span[ss[i].id] = ss[i]
         /\ CreateTraceObj(ss).parent[ss[i].id] = Parent(ss[i], ss)
<1> DEFINE x == ss[i].id
           j == CHOOSE k \in DOMAIN ss : ss[k].id = x
<1>1. ss[i] \in Spans /\ x \in SpanIds(ss) /\ ss[i].trace = t
  BY DEF Buildable, SpanIds
<1>2. j \in DOMAIN ss /\ ss[j].id = x
  OBVIOUS
<1>3. j = i
  BY <1>2 DEF Buildable, AssertionFails, DuplicateSpan
<1>4. /\ CreateTraceObj(ss).span[x] = ss[j]
      /\ CreateTraceObj(ss).parent[x] = Parent(ss[j], ss)
  BY <1>1 DEF CreateTraceObj
<1> QED
  BY <1>1, <1>3, <1>4

\* The ids of an object are those of the spans it was built from.
LEMMA IdsOfObject ==
  ASSUME NEW ss
  PROVE  /\ DOMAIN CreateTraceObj(ss).parent = SpanIds(ss)
         /\ \A x \in SpanIds(ss) : \E i \in DOMAIN ss : x = ss[i].id
BY DEF CreateTraceObj, SpanIds

\* A span of an object is a root, hangs off the master because its parent is
\* missing, or hangs below the span it refers to.
LEMMA ParentOfSpan ==
  ASSUME NEW t, NEW ss, Buildable(ss, t), NEW i \in DOMAIN ss,
         ss[i].refs # <<>>, ~Dangling(ss[i], ss)
  PROVE  /\ 1 \in DOMAIN ss[i].refs
         /\ Parent(ss[i], ss) = ss[i].refs[1].id
         /\ \E j \in DOMAIN ss : ss[j].id = ss[i].refs[1].id /\ RefersTo(ss[i], ss[j])
<1>1. ss[i] \in Spans /\ ss[i].trace = t
  BY SpanOfId
<1>2. 1 \in DOMAIN ss[i].refs
  <2>1. ss[i].refs \in Seq({ss[i].refs[k] : k \in DOMAIN ss[i].refs})
    BY <1>1, MasterAssumption
  <2> QED
    BY <2>1, EmptySeq, LenProperties, SMT
<1>3. ss[i].refs[1].id \in SpanIds(ss)
  BY <1>2 DEF Dangling
<1>4. PICK j \in DOMAIN ss : ss[j].id = ss[i].refs[1].id
  BY <1>3 DEF SpanIds
<1>5. ss[i].refs[1].trace = t /\ ss[j].trace = t
  BY <1>1, <1>2 DEF Buildable, AssertionFails, ForeignReference
<1>6. RefersTo(ss[i], ss[j])
  BY <1>2, <1>4, <1>5 DEF RefersTo
<1> QED
  BY <1>2, <1>4, <1>6 DEF Parent

\* In an object without a dangling reference only roots hang off the master.
LEMMA RootsOfGoodObject ==
  ASSUME NEW t, NEW ss, Buildable(ss, t), StatusStr(CreateTraceObj(ss)) = Good,
         NEW x \in SpanIds(ss), CreateTraceObj(ss).parent[x] = Master
  PROVE  CreateTraceObj(ss).span[x].refs = <<>>
<1>1. PICK i \in DOMAIN ss : x = ss[i].id
  BY IdsOfObject
<1>2. ~Dangling(ss[i], ss)
  BY DEF StatusStr, Good, Erroneous, CreateTraceObj
<1>3. ASSUME ss[i].refs # <<>> PROVE FALSE
  <2>1. /\ Parent(ss[i], ss) = ss[i].refs[1].id
        /\ \E j \in DOMAIN ss : ss[j].id = ss[i].refs[1].id
    BY <1>2, <1>3, ParentOfSpan
  <2>2. PICK j \in DOMAIN ss : ss[j].id = Master
    BY <1>1, <2>1, SpanOfId
  <2>3. ss[j] \in Spans
    BY SpanOfId
  <2> QED
    BY <2>2, <2>3, MasterAssumption
<1> QED
  BY <1>1, <1>3, SpanOfId

\* The parents of an object are in the object or the master.
LEMMA ParentsInObject ==
  ASSUME NEW t, NEW ss, Buildable(ss, t), NEW x \in SpanIds(ss)
  PROVE  CreateTraceObj(ss).parent[x] \in SpanIds(ss) \cup {Master}
<1>1. PICK i \in DOMAIN ss : x = ss[i].id
  BY IdsOfObject
<1>2. CreateTraceObj(ss).parent[x] = Parent(ss[i], ss)
  BY <1>1, SpanOfId
<1>3. CASE ss[i].refs = <<>> \/ Dangling(ss[i], ss)
  BY <1>2, <1>3 DEF Parent
<1>4. CASE ss[i].refs # <<>> /\ ~Dangling(ss[i], ss)
  BY <1>2, <1>4, ParentOfSpan DEF SpanIds
<1> QED
  BY <1>3, <1>4

\* A set of spans of an object that contains the parents of its members is empty:
\* one of them refers to none of them, so its parent is none of them.
LEMMA NoClosedSet ==
  ASSUME NEW t, NEW ss, Buildable(ss, t), NEW X \in SUBSET SpanIds(ss),
         \A x \in X : CreateTraceObj(ss).parent[x] \in X
  PROVE  X = {}
<1> SUFFICES ASSUME X # {} PROVE FALSE
  OBVIOUS
<1> DEFINE S == {ss[i] : i \in {k \in DOMAIN ss : ss[k].id \in X}}
<1>1. S \in SUBSET Spans
  BY SpanOfId
<1>2. S # {}
  <2>1. PICK x \in X : x \in SpanIds(ss)
    OBVIOUS
  <2>2. PICK i \in DOMAIN ss : x = ss[i].id
    BY <2>1, IdsOfObject
  <2>3. ss[i] \in S
    BY <2>1, <2>2
  <2> QED
    BY <2>3
<1>3. PICK s \in S : \A r \in S : ~RefersTo(s, r)
  BY <1>1, <1>2, AcyclicAssumption
<1>4. PICK i \in DOMAIN ss : s = ss[i] /\ ss[i].id \in X
  OBVIOUS
<1>5. Parent(ss[i], ss) \in X
  BY <1>4, SpanOfId
<1>6. Parent(ss[i], ss) # Master
  <2>1. PICK j \in DOMAIN ss : Parent(ss[i], ss) = ss[j].id
    BY <1>5, IdsOfObject
  <2>2. ss[j] \in Spans
    BY SpanOfId
  <2> QED
    BY <2>1, <2>2, MasterAssumption
<1>7. ss[i].refs # <<>> /\ ~Dangling(ss[i], ss)
  BY <1>6 DEF Parent
<1>8. PICK j \in DOMAIN ss : ss[j].id = Parent(ss[i], ss) /\ RefersTo(ss[i], ss[j])
  BY <1>7, ParentOfSpan
<1>9. ss[j] \in S
  BY <1>5, <1>8
<1> QED
  BY <1>3, <1>4, <1>8, <1>9

\* get_trace caches only what the construction accepts.
LEMMA CacheBuiltStep ==
  ASSUME BaseInv, CacheBuilt, [GNext]_vars
  PROVE  CacheBuilt'
<1>1. ASSUME NEW t \in Traces, GetTraceReturns(t) PROVE CacheBuilt'
  <2> SUFFICES ASSUME NEW u \in DOMAIN cache'
               PROVE  \E ss \in Seq(Spans) : Buildable(ss, u) /\ cache'[u] = CreateTraceObj(ss)
    BY DEF CacheBuilt
  <2>1. CASE u \in DOMAIN cache
    <3>1. cache'[u] = cache[u]
      BY <1>1, <2>1, GetTraceKeepsCache
    <3> QED
      BY <2>1, <3>1 DEF CacheBuilt
  <2>2. CASE u \notin DOMAIN cache
    <3>1. /\ u = t /\ t \in Stored /\ ~AssertionFails(traces[t])
          /\ cache'[t] = CreateTraceObj(traces[t])
      BY <1>1, <2>2 DEF GetTraceReturns, Cached, Fetchable, TraceOf
    <3>2. traces[t] \in Seq(Spans) /\ traces[t] # <<>>
      BY <3>1 DEF BaseInv, StoreInv, StoreTypeOK
    <3>3. \A i \in DOMAIN traces[t] : traces[t][i].trace = t
      BY <3>1 DEF BaseInv, StoredIsIndexed, SpansOf
    <3>4. Buildable(traces[t], t)
      BY <3>1, <3>2, <3>3 DEF Buildable
    <3> QED
      BY <3>1, <3>2, <3>4
  <2> QED
    BY <2>1, <2>2
<1>2. CASE cache' = cache
  BY <1>2 DEF CacheBuilt
<1> QED
  BY <1>1, <1>2, CacheWrittenByGetTrace

\* So every cached object was built from spans of its trace, for all behaviours.
LEMMA CacheAlwaysBuilt == GSpec => []CacheBuilt
<1>1. GInit => CacheBuilt
  BY DEF GInit, CacheBuilt
<1> QED
  BY <1>1, CacheBuiltStep, BaseInvInductive, PTL DEF GSpec

\* A span whose parent is missing never passes for a root of a good trace, in
\* whatever order its spans arrived (gather.py:161-175).
THEOREM GoodTracesHaveTheirRoots == GSpec => []GoodRootsAreRoots
<1>1. CacheBuilt => GoodRootsAreRoots
  <2> SUFFICES ASSUME CacheBuilt, NEW t \in DOMAIN cache, StatusStr(cache[t]) = Good,
                      NEW x \in DOMAIN cache[t].parent, cache[t].parent[x] = Master
               PROVE  cache[t].span[x].refs = <<>>
    BY DEF GoodRootsAreRoots
  <2>1. PICK ss \in Seq(Spans) : Buildable(ss, t) /\ cache[t] = CreateTraceObj(ss)
    BY DEF CacheBuilt
  <2>2. x \in SpanIds(ss)
    BY <2>1, IdsOfObject
  <2> QED
    BY <2>1, <2>2, RootsOfGoodObject
<1> QED
  BY <1>1, CacheAlwaysBuilt, PTL

\* Every span of an object hangs, over its parents, below the master: no reference
\* leads out of the object and no set of its spans is closed under parents, however
\* many spans were lost or late (gather.py:161-206).
THEOREM TreesCoverTheirTraces == GSpec => []TreeCoversTrace
<1>1. CacheBuilt => TreeCoversTrace
  <2> SUFFICES ASSUME CacheBuilt, NEW t \in DOMAIN cache
               PROVE  LET parent == cache[t].parent
                      IN  /\ \A x \in DOMAIN parent : parent[x] \in DOMAIN parent \cup {Master}
                          /\ \A X \in SUBSET DOMAIN parent :
                               (\A x \in X : parent[x] \in X) => X = {}
    BY DEF TreeCoversTrace
  <2>1. PICK ss \in Seq(Spans) : Buildable(ss, t) /\ cache[t] = CreateTraceObj(ss)
    BY DEF CacheBuilt
  <2>2. DOMAIN cache[t].parent = SpanIds(ss)
    BY <2>1, IdsOfObject
  <2>3. \A x \in SpanIds(ss) : cache[t].parent[x] \in SpanIds(ss) \cup {Master}
    BY <2>1, ParentsInObject
  <2>4. \A X \in SUBSET SpanIds(ss) : (\A x \in X : cache[t].parent[x] \in X) => X = {}
    BY <2>1, NoClosedSet
  <2> QED
    BY <2>2, <2>3, <2>4
<1> QED
  BY <1>1, CacheAlwaysBuilt, PTL
=============================================================================
