------------------------------- MODULE Gather -------------------------------
(***************************************************************************)
(* tprof gathering traces from a store that is still being written.        *)
(*                                                                         *)
(* tprof (src/tprof.py main, src/gather.py, src/analyze_all_reqs.py) is one *)
(* sequential program; each of its remote calls is one read of the store,  *)
(* and spans keep arriving between two calls.  A span that the profiled    *)
(* application reported may reach the store never, once or several times   *)
(* (UDP from client to agent, a retried gRPC batch from agent to           *)
(* collector) and in any order.  The store process may stop and come back  *)
(* empty.                                                                  *)
(***************************************************************************)
EXTENDS MemoryStore, TraceObj

CONSTANTS
  Srvs,          \* the services map of find_trace_ids; main passes an empty one
  WindowStart,   \* start_time and end_time of RunApp.run
  WindowEnd,
  DurationMin,   \* DUR_MIN and DUR_MAX of class Jaeger
  DurationMax,
  SearchDepth,   \* search_depth of RunApp.run
  MaxCopies,     \* bound: how often one span may reach the store
  MaxRestarts    \* bound: how often the store process may stop

ASSUME SrvsAssumption ==
  DOMAIN Srvs \subseteq Services /\ \A v \in DOMAIN Srvs : Srvs[v] \subseteq Operations
ASSUME BoundsAssumption ==
  /\ MaxCopies \in Nat /\ MaxRestarts \in Nat /\ SearchDepth \in Nat
  /\ \A n \in {WindowStart, WindowEnd, DurationMin, DurationMax} : n \in Nat
\* A span id names one span of its trace.
ASSUME SpanIdAssumption ==
  \A s, r \in Spans : s.trace = r.trace /\ s.id = r.id => s = r
\* A span id is printed in hexadecimal, which no name of the master is; the
\* references of a span are a list.
ASSUME MasterAssumption ==
  \A s \in Spans : s.id # Master /\ s.refs \in Seq({s.refs[k] : k \in DOMAIN s.refs})
\* A span is reported by a process that had its parent's context before the span
\* began, so no set of spans is closed under references.
RefersTo(s, r) == \E k \in DOMAIN s.refs : s.refs[k].trace = r.trace /\ s.refs[k].id = r.id
ASSUME AcyclicAssumption ==
  \A S \in (SUBSET Spans) \ {{}} : \E s \in S : \A r \in S : ~RefersTo(s, r)

VARIABLES
  pc,             \* where tprof is
  crash,          \* why it stopped early
  servicesLeft,   \* services still to be searched in this attempt
  service,        \* the service being searched
  operationsLeft, \* its operations still to be searched
  allTraceIds,    \* all_trace_ids of this attempt
  traceIds,       \* trace_ids of main, fixed when the polling loop ends
  todo,           \* trace ids not yet visited by the loop tprof is in
  cache,          \* Gather.cache: trace id to trace object
  groups,         \* trace_groups of layer 1: status string to trace ids
  profiled,       \* the objects layer 1's profile computed on
  up,             \* the store process is running
  restarts,       \* number of times it stopped
  written,        \* history: how often each span reached the store
  visible         \* history: searchable traces since this attempt began

tprofVars == <<pc, crash, servicesLeft, service, operationsLeft, allTraceIds,
               traceIds, todo, cache, groups, profiled>>
envVars == <<up, restarts, written>>
vars == <<storeVars, tprofVars, envVars, visible>>

GInit ==
  /\ StoreInit
  /\ pc = "poll" /\ crash = "none"
  /\ servicesLeft = {} /\ service \in Services /\ operationsLeft = {}
  /\ allTraceIds = {} /\ traceIds = {} /\ todo = {}
  /\ cache = [t \in {} |-> {}]
  /\ groups = [g \in {Good, Erroneous} |-> {}]
  /\ profiled = [t \in {} |-> {}]
  /\ up = TRUE /\ restarts = 0
  /\ written = [s \in Spans |-> 0]
  /\ visible = {}

Query(v, o) ==
  [service |-> v, operation |-> o, durationMin |-> DurationMin,
   durationMax |-> DurationMax, startMin |-> WindowStart, startMax |-> WindowEnd,
   numTraces |-> SearchDepth]

\* The operations of a service that an attempt searches, and the traces it can
\* find: some span satisfies the query for its own service and operation.
Searched(v, o) ==
  DOMAIN Srvs # {} => v \in DOMAIN Srvs /\ (Srvs[v] = {} \/ o \in Srvs[v])
Searchable ==
  {t \in Stored : \E s \in SpansOf(t) :
     Searched(s.service, s.operation) /\ ValidSpan(s, Query(s.service, s.operation))}
-----------------------------------------------------------------------------
(***************************************************************************)
(* The environment: spans arrive, the store process stops and starts.      *)
(***************************************************************************)
Deliver(s) ==
  /\ up
  /\ written[s] < MaxCopies
  /\ WriteSpan(s)
  /\ written' = [written EXCEPT ![s] = @ + 1]
  /\ visible' = visible \cap Stored'
  /\ UNCHANGED <<tprofVars, up, restarts>>

StoreStops ==
  /\ up
  /\ restarts < MaxRestarts
  /\ Restart
  /\ up' = FALSE
  /\ restarts' = restarts + 1
  /\ visible' = {}
  /\ UNCHANGED <<tprofVars, written>>

StoreStarts ==
  /\ ~up
  /\ up' = TRUE
  /\ UNCHANGED <<storeVars, tprofVars, restarts, written, visible>>

Env == StoreStops \/ StoreStarts \/ \E s \in Spans : Deliver(s)
-----------------------------------------------------------------------------
(***************************************************************************)
(* find_trace_ids: one attempt of the polling loop of main.                *)
(***************************************************************************)
\* An exception nobody catches ends tprof.
Crash(why) ==
  /\ pc' = "crashed"
  /\ crash' = why
  /\ UNCHANGED <<servicesLeft, service, operationsLeft, allTraceIds, traceIds,
                 todo, cache, groups, profiled>>

\* A call to a store process that is down raises RpcError.
RpcFails ==
  /\ ~up
  /\ \/ pc = "poll" /\ DOMAIN Srvs = {}
     \/ pc = "services" /\ servicesLeft # {}
     \/ pc = "operations" /\ operationsLeft # {}
  /\ Crash("rpc")
  /\ UNCHANGED <<storeVars, envVars, visible>>

\* After sleep(1): the services to search, those of the store by default.
BeginAttempt ==
  /\ pc = "poll"
  /\ \/ DOMAIN Srvs = {} /\ up /\ servicesLeft' = GetServices
     \/ DOMAIN Srvs # {} /\ servicesLeft' = DOMAIN Srvs
  /\ pc' = "services"
  /\ allTraceIds' = {}
  /\ visible' = Searchable
  /\ UNCHANGED <<storeVars, envVars, crash, service, operationsLeft, traceIds,
                 todo, cache, groups, profiled>>

\* The operations of the next service, by default those the store knows.
NextService(v) ==
  /\ pc = "services"
  /\ v \in servicesLeft
  /\ \/ v \in DOMAIN Srvs /\ Srvs[v] # {} /\ operationsLeft' = Srvs[v]
     \/ (v \in DOMAIN Srvs => Srvs[v] = {}) /\ up /\ operationsLeft' = GetOperations(v)
  /\ service' = v
  /\ servicesLeft' = servicesLeft \ {v}
  /\ pc' = "operations"
  /\ UNCHANGED <<storeVars, envVars, visible, crash, allTraceIds, traceIds, todo,
                 cache, groups, profiled>>

\* Variant: the result of a call replaces the ids found before it.
SearchOperationOverwrites(o) ==
  /\ pc = "operations"
  /\ o \in operationsLeft
  /\ up
  /\ allTraceIds' \in FindTraces(Query(service, o))
  /\ operationsLeft' = operationsLeft \ {o}
  /\ UNCHANGED <<storeVars, envVars, visible, pc, crash, servicesLeft, service,
                 traceIds, todo, cache, groups, profiled>>

\* One FindTraces call; every span of its result adds its trace id.
SearchOperation(o) ==
  /\ pc = "operations"
  /\ o \in operationsLeft
  /\ up
  /\ \E R \in FindTraces(Query(service, o)) : allTraceIds' = allTraceIds \cup R
  /\ operationsLeft' = operationsLeft \ {o}
  /\ UNCHANGED <<storeVars, envVars, visible, pc, crash, servicesLeft, service,
                 traceIds, todo, cache, groups, profiled>>

ServiceSearched ==
  /\ pc = "operations"
  /\ operationsLeft = {}
  /\ pc' = "services"
  /\ UNCHANGED <<storeVars, envVars, visible, crash, servicesLeft, service,
                 operationsLeft, allTraceIds, traceIds, todo, cache, groups, profiled>>

\* Variant: the loop waits for as many traces as it asks for.
EndAttemptWaitsForAll ==
  /\ pc = "services"
  /\ servicesLeft = {}
  /\ traceIds' = allTraceIds
  /\ pc' = IF Cardinality(allTraceIds) < SearchDepth THEN "poll" ELSE "group"
  /\ todo' = allTraceIds
  /\ UNCHANGED <<storeVars, envVars, visible, crash, servicesLeft, service,
                 operationsLeft, allTraceIds, cache, groups, profiled>>

\* while len(trace_ids) == 0: another attempt, or on to layer 1.
EndAttempt ==
  /\ pc = "services"
  /\ servicesLeft = {}
  /\ traceIds' = allTraceIds
  /\ pc' = IF allTraceIds = {} THEN "poll" ELSE "group"
  /\ todo' = allTraceIds
  /\ UNCHANGED <<storeVars, envVars, visible, crash, servicesLeft, service,
                 operationsLeft, allTraceIds, cache, groups, profiled>>
-----------------------------------------------------------------------------
(***************************************************************************)
(* get_trace, and the two loops of layer 1 that call it.                   *)
(***************************************************************************)
Cached(t) == t \in DOMAIN cache

Fetchable(t) == up /\ t \in Stored /\ ~AssertionFails(traces[t])

\* Variant: the store is asked first, the cache is what is left when it fails.
TraceOfFresh(t) == IF Fetchable(t) THEN CreateTraceObj(traces[t]) ELSE cache[t]

\* get_trace returns an object: the cached one, or one built from what the
\* store holds now, which is then cached.
TraceOf(t) == IF Cached(t) THEN cache[t] ELSE CreateTraceObj(traces[t])

GetTraceReturns(t) ==
  /\ Cached(t) \/ Fetchable(t)
  /\ cache' = [u \in DOMAIN cache \cup {t} |-> IF u = t THEN TraceOf(t) ELSE cache[u]]

\* get_trace raises: the store is down, it does not know the trace, or an
\* assertion of the construction fails.
GetTraceRaises(t) ==
  /\ ~Cached(t)
  /\ \/ ~up /\ Crash("rpc")
     \/ up /\ t \notin Stored /\ Crash("not_found")
     \/ up /\ t \in Stored /\ AssertionFails(traces[t]) /\ Crash("assertion")

\* Layer 1, group(): a trace joins the group of its status string.
GroupTrace(t) ==
  /\ pc = "group"
  /\ t \in todo
  /\ \/ /\ GetTraceReturns(t)
        /\ groups' = [groups EXCEPT ![StatusStr(TraceOf(t))] = @ \cup {t}]
        /\ todo' = todo \ {t}
        /\ UNCHANGED <<pc, crash, servicesLeft, service, operationsLeft,
                       allTraceIds, traceIds, profiled>>
     \/ GetTraceRaises(t)
  /\ UNCHANGED <<storeVars, envVars, visible>>

GroupingEnds ==
  /\ pc = "group"
  /\ todo = {}
  /\ pc' = "profile"
  /\ todo' = traceIds
  /\ UNCHANGED <<storeVars, envVars, visible, crash, servicesLeft, service,
                 operationsLeft, allTraceIds, traceIds, cache, groups, profiled>>

\* Layer 1, profile(): get_trace again for every trace of every group.
ProfileTrace(t) ==
  /\ pc = "profile"
  /\ t \in todo
  /\ \/ /\ GetTraceReturns(t)
        /\ profiled' = [u \in DOMAIN profiled \cup {t} |->
                          IF u = t THEN TraceOf(t) ELSE profiled[u]]
        /\ todo' = todo \ {t}
        /\ UNCHANGED <<pc, crash, servicesLeft, service, operationsLeft,
                       allTraceIds, traceIds, groups>>
     \/ GetTraceRaises(t)
  /\ UNCHANGED <<storeVars, envVars, visible>>

ProfilingEnds ==
  /\ pc = "profile"
  /\ todo = {}
  /\ pc' = "done"
  /\ UNCHANGED <<storeVars, envVars, visible, crash, servicesLeft, service,
                 operationsLeft, allTraceIds, traceIds, todo, cache, groups, profiled>>
-----------------------------------------------------------------------------
Tprof ==
  \/ RpcFails \/ BeginAttempt \/ ServiceSearched \/ EndAttempt
  \/ GroupingEnds \/ ProfilingEnds
  \/ \E v \in Services : NextService(v)
  \/ \E o \in Operations : SearchOperation(o)
  \/ \E t \in Traces : GroupTrace(t) \/ ProfileTrace(t)

GNext == Tprof \/ Env

\* tprof is a running program: a step it can take is eventually taken.  Nothing
\* is assumed of the network or of the store process.
GSpec == GInit /\ [][GNext]_vars
FairGSpec == GSpec /\ WF_vars(Tprof)
-----------------------------------------------------------------------------
(***************************************************************************)
(* Properties.                                                             *)
(***************************************************************************)
PcValues == {"poll", "services", "operations", "group", "profile", "done", "crashed"}
CrashValues == {"none", "rpc", "not_found", "assertion"}

\* Type invariant of tprof's own state and of the environment.
GTypeOK ==
  /\ StoreTypeOK
  /\ pc \in PcValues
  /\ crash \in CrashValues
  /\ servicesLeft \subseteq Services
  /\ service \in Services
  /\ operationsLeft \subseteq Operations
  /\ allTraceIds \subseteq Traces
  /\ traceIds \subseteq Traces
  /\ todo \subseteq Traces
  /\ DOMAIN cache \subseteq Traces
  /\ groups \in [{Good, Erroneous} -> SUBSET Traces]
  /\ DOMAIN profiled \subseteq Traces
  /\ up \in BOOLEAN
  /\ restarts \in 0..MaxRestarts
  /\ written \in [Spans -> 0..MaxCopies]
  /\ visible \subseteq Traces

\* tprof stops early only when something outside it went wrong: the store was
\* stopped, a bounded store evicted a trace between FindTraces and GetTrace, a
\* span reached the store twice, or a span was reported with references the
\* construction refuses (gather.py:98-140, 163-167, 191).
BadlyDelivered(s) ==
  \/ written[s] > 1
  \/ written[s] > 0 /\ (ForeignReference(s) \/ SeveralParents(s))
CrashHasCause ==
  /\ crash = "rpc" => restarts > 0
  /\ crash = "not_found" => restarts > 0 \/ MaxTraces > 0
  /\ crash = "assertion" => \E s \in Spans : BadlyDelivered(s)

\* With the deployed store (unbounded, never stopped), a transport that never
\* repeats a span and well-formed references, tprof never stops early, whatever
\* is lost, late or reordered.
Undisturbed ==
  /\ MaxTraces = 0 /\ restarts = 0
  /\ \A s \in Spans : written[s] <= 1 /\ ~ForeignReference(s) /\ ~SeveralParents(s)
NoCrashUndisturbed == Undisturbed => pc # "crashed"

\* A trace that was searchable when the successful attempt began, and was not
\* evicted or lost during it, is among the traces tprof analyses, if search_depth
\* is not the limit (tprof.py:40-43, gather.py:52-83): the calls of an attempt
\* see different states of the store, but services, operations and spans of a
\* live trace only ever grow.
NoSearchableTraceMissed ==
  ( /\ pc \in {"group", "profile", "done"}
    /\ SearchDepth = 0 \/ SearchDepth >= Cardinality(Traces) )
  => visible \subseteq traceIds

\* "trace objects in one bucket should share the same bitarray" (tprof.py:79):
\* every object layer 1 profiles still has the status its group is named after,
\* although spans arrived between the two calls of get_trace.
BucketsShareStatus ==
  /\ \A t \in DOMAIN profiled : t \in groups[StatusStr(profiled[t])]
  /\ groups[Good] \cap groups[Erroneous] = {}
  /\ pc \in {"profile", "done"} => groups[Good] \cup groups[Erroneous] = traceIds

\* While the store is unbounded and was not stopped, a cached object is what the
\* construction makes of the spans that had arrived at some earlier moment: a
\* prefix of what is stored now (gather.py:98-111).
CacheIsEarlierView ==
  MaxTraces = 0 /\ restarts = 0 =>
    \A t \in DOMAIN cache :
      /\ t \in Stored
      /\ \E n \in 1..Len(traces[t]) : cache[t] = CreateTraceObj(SubSeq(traces[t], 1, n))

\* A span whose parent is missing never passes for the root of a good trace,
\* in whatever order parent and child arrived (gather.py:161-175).
GoodRootsAreRoots ==
  \A t \in DOMAIN cache : StatusStr(cache[t]) = Good =>
    \A x \in DOMAIN cache[t].parent :
      cache[t].parent[x] = Master => cache[t].span[x].refs = <<>>

\* Every span of a cached object hangs below the master: each parent is a span
\* of the object or the master, and no set of spans is closed under parents, so
\* the walks of the later layers from the root find their spans and reach all of
\* them (gather.py:187-206).  The reported references are acyclic.
TreeCoversTrace ==
  \A t \in DOMAIN cache :
    LET parent == cache[t].parent
    IN  /\ \A x \in DOMAIN parent : parent[x] \in DOMAIN parent \cup {Master}
        /\ \A X \in SUBSET DOMAIN parent : (\A x \in X : parent[x] \in X) => X = {}

\* The polling loop ends (tprof.py:40-44): if from some time on the store holds
\* a searchable trace, tprof finishes layer 1 or stops on an exception.  Nothing
\* else ends it: there is no limit on the number of attempts.
PollingEnds ==
  <>[](Searchable # {}) => <>(pc \in {"done", "crashed"})
=============================================================================
