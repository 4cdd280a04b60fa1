---------------------------- MODULE MemoryStore ----------------------------
(***************************************************************************)
(* The in-memory span store behind the Jaeger all-in-one process that      *)
(* start.sh deploys (src/jaeger/plugin/storage/memory/memory.go).          *)
(*                                                                         *)
(* Every method of Store holds the embedded RWMutex from its first line to *)
(* its return, so each one is a single atomic step here: WriteSpan changes *)
(* the state, the four queries are operators over it.  A span is a record; *)
(* its tags and logs are left out, tprof queries with an empty tag map.    *)
(***************************************************************************)
EXTENDS Integers, Sequences, FiniteSets

CONSTANTS
  Spans,       \* the spans that may be written, as records (SpanType)
  Traces,      \* trace ids
  Services,    \* service names
  Operations,  \* operation names
  AnyOperation,\* the empty operation name of a query
  NoTrace,     \* the nil pointer of an unused ring slot
  MaxTraces    \* config.MaxTraces, 0 for an unbounded store

SpanType(s) ==
  /\ s.trace \in Traces
  /\ s.service \in Services
  /\ s.operation \in Operations
  /\ s.start \in Nat
  /\ s.duration \in Nat

ASSUME SpansAssumption == \A s \in Spans : SpanType(s)
ASSUME NoTraceAssumption == NoTrace \notin Traces
ASSUME MaxTracesAssumption == MaxTraces \in Nat

VARIABLES
  traces,      \* map of trace id to the sequence of its spans, in arrival order
  ids,         \* the ring of trace ids, used only when MaxTraces > 0
  index,       \* position of the newest id in the ring
  services,    \* names of the services seen
  operations,  \* names of the operations seen of each service
  panicked     \* a nil dereference inside WriteSpan

storeVars == <<traces, ids, index, services, operations, panicked>>

StoreInit ==
  /\ traces = [t \in {} |-> <<>>]
  /\ ids = [i \in 0..(MaxTraces - 1) |-> NoTrace]
  /\ index = 0
  /\ services = {}
  /\ operations = [v \in Services |-> {}]
  /\ panicked = FALSE

Stored == DOMAIN traces

(***************************************************************************)
(* Writing a span.                                                         *)
(***************************************************************************)
NextSlot == (index + 1) % MaxTraces

\* Variant: the span is put in front.
AddToTraceInFront(s) ==
  /\ s.trace \in Stored
  /\ traces' = [traces EXCEPT ![s.trace] = <<s>> \o @]
  /\ UNCHANGED <<ids, index, panicked>>

\* The trace of the span has an entry: the span is appended to it.
AddToTrace(s) ==
  /\ s.trace \in Stored
  /\ traces' = [traces EXCEPT ![s.trace] = Append(@, s)]
  /\ UNCHANGED <<ids, index, panicked>>

\* A first span of a trace in an unbounded store: only the map grows.
NewTraceUnbounded(s) ==
  /\ s.trace \notin Stored
  /\ MaxTraces = 0
  /\ traces' = [t \in Stored \cup {s.trace} |->
                  IF t = s.trace THEN <<s>> ELSE traces[t]]
  /\ UNCHANGED <<ids, index, panicked>>

\* Variants of the next action: the trace whose slot is reused is left in the map,
\* the previous newest trace is evicted because the index has not advanced yet.
NewTraceInRingLeaky(s) ==
  /\ s.trace \notin Stored
  /\ MaxTraces > 0
  /\ index' = NextSlot
  /\ ids' = [ids EXCEPT ![NextSlot] = s.trace]
  /\ traces' = [t \in Stored \cup {s.trace} |->
                  IF t = s.trace THEN <<s>> ELSE traces[t]]
  /\ UNCHANGED panicked
NewTraceInRingWrongSlot(s) ==
  /\ s.trace \notin Stored
  /\ MaxTraces > 0
  /\ index' = NextSlot
  /\ ids' = [ids EXCEPT ![NextSlot] = s.trace]
  /\ traces' = [t \in (Stored \cup {s.trace}) \ {ids[index]} |->
                  IF t = s.trace THEN <<s>> ELSE traces[t]]
  /\ UNCHANGED panicked

\* A first span of a trace in a bounded store: the entry is made, the ring
\* advances, and the trace whose slot is reused leaves the map.  Were that the
\* new trace itself, the final append would dereference a missing entry.
NewTraceInRing(s) ==
  /\ s.trace \notin Stored
  /\ MaxTraces > 0
  /\ index' = NextSlot
  /\ ids' = [ids EXCEPT ![NextSlot] = s.trace]
  /\ traces' = [t \in (Stored \cup {s.trace}) \ {ids[NextSlot]} |->
                  IF t = s.trace THEN <<s>> ELSE traces[t]]
  /\ panicked' = (ids[NextSlot] = s.trace)

\* Variant: operations are recorded with a new service only.
WriteSpanFirstOperation(s) ==
  /\ ~panicked
  /\ services' = services \cup {s.service}
  /\ operations' = IF s.service \in services THEN operations
                     ELSE [operations EXCEPT ![s.service] = @ \cup {s.operation}]
  /\ \/ AddToTrace(s)
     \/ NewTraceUnbounded(s)
     \/ NewTraceInRing(s)

WriteSpan(s) ==
  /\ ~panicked
  /\ services' = services \cup {s.service}
  /\ operations' = [operations EXCEPT ![s.service] = @ \cup {s.operation}]
  /\ \/ AddToTrace(s)
     \/ NewTraceUnbounded(s)
     \/ NewTraceInRing(s)

\* The process is restarted: nothing is persisted, the store begins empty.
Restart ==
  /\ traces' = [t \in {} |-> <<>>]
  /\ ids' = [i \in 0..(MaxTraces - 1) |-> NoTrace]
  /\ index' = 0
  /\ services' = {}
  /\ operations' = [v \in Services |-> {}]
  /\ panicked' = FALSE

(***************************************************************************)
(* The queries.  A query is a record [service, operation, durationMin,     *)
(* durationMax, startMin, startMax, numTraces]; 0 switches a filter off.   *)
(***************************************************************************)
SpansOf(t) == {traces[t][i] : i \in DOMAIN traces[t]}

GetServices == services

GetOperations(v) == operations[v]

ValidSpan(s, q) ==
  /\ q.service = s.service
  /\ q.operation \in {AnyOperation, s.operation}
  /\ q.durationMin # 0 => q.durationMin <= s.duration
  /\ q.durationMax # 0 => s.duration <= q.durationMax
  /\ q.startMin # 0 => q.startMin <= s.start
  /\ q.startMax # 0 => s.start <= q.startMax

Matching(q) == {t \in Stored : \E s \in SpansOf(t) : ValidSpan(s, q)}

\* Variant: the front of the sorted list is returned.
FindTracesFront(q) ==
  LET first(t) == traces[t][1].start
      oldest(R) == \A t \in R, u \in Matching(q) \ R : first(t) <= first(u)
  IN  IF q.numTraces = 0 \/ Cardinality(Matching(q)) <= q.numTraces
        THEN {Matching(q)}
        ELSE {R \in SUBSET Matching(q) :
                Cardinality(R) = q.numTraces /\ oldest(R)}

\* The possible results, as sets of trace ids: all the matching traces, or
\* numTraces of them when there are more.  The order is by the first span that
\* ARRIVED, and sort.Slice leaves the order of equal start times open.
FindTraces(q) ==
  LET first(t) == traces[t][1].start
      newest(R) == \A t \in R, u \in Matching(q) \ R : first(u) <= first(t)
  IN  IF q.numTraces = 0 \/ Cardinality(Matching(q)) <= q.numTraces
        THEN {Matching(q)}
        ELSE {R \in SUBSET Matching(q) :
                Cardinality(R) = q.numTraces /\ newest(R)}

(***************************************************************************)
(* The store on its own: any span may be written, any number of times.     *)
(***************************************************************************)
StoreNext ==
  \/ \E s \in Spans : WriteSpan(s)
  \/ Restart

StoreSpec == StoreInit /\ [][StoreNext]_storeVars

(***************************************************************************)
(* Properties.                                                             *)
(***************************************************************************)
\* Type invariant of the Store struct: the map has non-empty entries only.
StoreTypeOK ==
  /\ traces = [t \in Stored |-> traces[t]]
  /\ Stored \subseteq Traces
  /\ \A t \in Stored : traces[t] \in Seq(Spans) /\ traces[t] # <<>>
  /\ ids \in [0..(MaxTraces - 1) -> Traces \cup {NoTrace}]
  /\ index \in Nat
  /\ MaxTraces > 0 => index \in 0..(MaxTraces - 1)
  /\ services \subseteq Services
  /\ operations \in [Services -> SUBSET Operations]
  /\ panicked \in BOOLEAN

\* Eviction keeps the ring and the map in step: the ids in the ring are exactly
\* the keys of the map and no id has two slots (WriteSpan, memory.go:125-143).
\* A bounded store that broke this would leak a trace or evict a live one.
RingMatchesStore ==
  MaxTraces > 0 =>
    /\ Stored = {ids[i] : i \in 0..(MaxTraces - 1)} \ {NoTrace}
    /\ \A i, j \in 0..(MaxTraces - 1) :
         ids[i] = ids[j] /\ ids[i] # NoTrace => i = j

\* WriteSpan never evicts the trace it is writing, so the append on its last
\* line (memory.go:144) always finds an entry.
NeverPanics == ~panicked

\* Whatever is stored can be reached the way tprof searches: its service is
\* listed by GetServices and its operation by GetOperations, and a span is only
\* ever filed under its own trace (memory.go:120-126, 144).
StoredIsIndexed ==
  \A t \in Stored : \A s \in SpansOf(t) :
    s.trace = t /\ s.service \in services /\ s.operation \in operations[s.service]

\* "If query.NumTraces < results, then we should return the newest traces"
\* (memory.go:204), a trace being as new as its earliest span.  The code compares
\* the spans that arrived first (line 207), so this holds for stores in which the
\* first span of every trace to arrive is its earliest.
FirstArrivedIsEarliest ==
  \A t \in Stored : \A s \in SpansOf(t) : traces[t][1].start <= s.start
NewestReturned ==
  FirstArrivedIsEarliest =>
    \A v \in Services, n \in 1..2 :
      LET q == [service |-> v, operation |-> AnyOperation, durationMin |-> 0,
                durationMax |-> 0, startMin |-> 0, startMax |-> 0, numTraces |-> n]
      IN  \A R \in FindTraces(q) : \A t \in R, u \in Matching(q) \ R :
            \A s \in SpansOf(t) : \E r \in SpansOf(u) : r.start <= s.start
-----------------------------------------------------------------------------
(***************************************************************************)
(* The store as the queue of traces it promises to be.                     *)
(***************************************************************************)
\* The slot that was filled a new traces before the newest one.
SlotOfAge ==
  [a \in 0..(MaxTraces - 1) |-> IF a <= index THEN index - a ELSE index - a + MaxTraces]

\* The ring read from the oldest trace in it round to the newest one.
RingOrder ==
  [i \in 1..Cardinality(Stored) |-> ids[SlotOfAge[Cardinality(Stored) - i]]]

Fifo == INSTANCE TraceFifo
          WITH Capacity <- MaxTraces, order <- RingOrder, content <- traces

\* The bounded store implements the promise: it holds the most recently opened
\* traces and evicts the oldest one, and only when it is full and a new trace
\* arrives (memory.go:125-144).
KeepsNewestTraces == Fifo!Spec
=============================================================================
