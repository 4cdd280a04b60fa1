# A TLA+ verification project for tprof

tprof profiles a distributed application. It runs the application's requests, pulls the
traces that the application's Jaeger tracers reported out of a Jaeger all-in-one process,
groups and profiles them in four layers, and turns the statistics into bug reports. This
directory models the parts of that system whose correctness depends on order, on concurrency
or on boundary cases, checks them with TLC and proves the central invariants with TLAPS.

## The system

The path of a span, and what reads it back:

    application --UDP--> agent server --> agent reporter --gRPC--> collector --> bounded queue --> span store
                         (AgentServer)    (SpanProcessor,         (Span-        (BoundedQueue)    (MemoryStore)
                                           its retry)             Processor)                           |
                                                                                                       |
    report  <--  layers 4, 3, 2, 1  <--  trace objects, cache  <--  find_trace_ids, get_trace <--gRPC--+
    (SpanSearch,  (Subspans, ChildDiffs,  (TraceObj, Gather)         (Gather)
     Subspans)     SelfTime, Gather)

Where the collector writes to Kafka, the ingester takes its place in front of the store:

    Kafka --> consumer --> parallel workers, retries --> span writer
              (Ingester-   (IngesterPartition)   \--> offset list, manager --> mark, commit --> Kafka
               Consumer)

tprof itself is one sequential Python program; each of its remote calls reads the store at one
moment, and spans keep arriving between two calls. The Go processes are concurrent.

| component | code | state | operations | hard part | what makes it correct |
|---|---|---|---|---|---|
| agent UDP server and processor | `jaeger/cmd/agent/app/servers/tbuffered_server.go`, `processors/thrift_processor.go` | channel, buffer pool, counter, serving flag | Serve, processBuffer, DataRecd, Stop | pooled buffers, Stop against a packet in flight | packets handled once and unchanged, Stop drains and returns |
| collector queue | `jaeger/pkg/queue/bounded_queue.go` | channel, counter, flags | Produce, consumers, Stop, length reporter | every access interleaves with Stop | FIFO, loses only when full, at most once, Stop returns |
| collector span processor, and the reporter that calls it | `jaeger/cmd/collector/app/span_processor.go`, `grpc_handler.go`, `jaeger/cmd/agent/app/reporter/grpc/` | queue, options, one handler per attempt | PostSpans, ProcessSpans, enqueueSpan, saveSpan, Stop, the retried call | batches taken in part, two attempts at once, a storage that hangs | an acknowledged span was taken and is saved; every client is answered |
| ingester, one partition | `jaeger/cmd/ingester/app/consumer/` (offset manager, concurrent list, committing processor, processor factory), `processor/decorator/retry.go`, `processor/parallel_processor.go` | list of offsets, marked and committed offset | Process, insert, setToHighestContiguous, mark, Close | workers finish out of order, the process dies, the partition moves | at least once: the offset moves only over messages dealt with, and reaches the last |
| ingester, consumer and deadlock detector | `consumer.go`, `deadlock_detector.go` | map of partitions, its lock, wait groups, monitors | Start, handleMessages, handleErrors, Close, monitors | a lock held while waiting; a partition that comes back | one handler per partition, Close returns |
| span store | `jaeger/plugin/storage/memory/memory.go` | map of traces, ring of ids, indexes of services and operations | WriteSpan, GetTrace, FindTraces, GetServices, GetOperations | eviction, arrival order | map and ring in step, indexes cover the spans |
| gathering | `gather.py` | cache of trace objects | find_trace_ids, get_trace, construction of a trace object | reads of a changing store; late, lost, doubled spans | nothing searchable missed, one view of each trace |
| driver and layer 1 | `tprof.py`, `analyze_all_reqs.py` | trace ids, groups | polling loop, group, profile | the first attempt that finds anything ends the loop | ends; a group's traces agree |
| self time (layers 1, 2) | `analyze_functions.py`, `utility.py` | arrows, counters | sweep over a span's arrows | overlap, ties, clock skew | the time no callee covers, and never less |
| layer 3 | `analyze_child_diffs.py` | template of slots | group, profile, diff | two different sorts must agree | no exception, a slot collects one call |
| layer 4 and its replay | `analyze_subspans.py`, `web_app/report.py` | subspan durations | group, collect, generate_spans | the key forgets the callees; asynchronous calls | averages of like with like, replay at the means |
| report: search and match | `web_app/report.py` | one path list shared by a recursion; the labelled paths of layer 4 | _find_spans, the lookup of the found path in layer 4 | break and restore; paths matched by prefix | every invocation that nothing hides found, with its route, and shown at its own span |
| application runner | `app_helper.py`, `app_base.py` | window, search depth | run | sleeps | not modelled |
| web application | `web_app/web_app.py` | none | HTTP proxy | I/O | not modelled |

Components interact through calls (tprof to the query service), a shared store (collector
writes, tprof reads), channels and locks (agent, collector, ingester), a log with a committed
position (Kafka and the ingester), and nested data that one layer hands to the
next (`process_in_layer`, tprof.py:57-88).

## Modules

| module | models | how state and actions correspond |
|---|---|---|
| `MemoryStore` | `Store` of memory.go | one variable per field of `Store`; `WriteSpan` is one step because the method holds the mutex; its three cases are the disjuncts `AddToTrace`, `NewTraceUnbounded`, `NewTraceInRing`; the queries are operators |
| `TraceFifo` | what a bounded store promises | a FIFO of traces; refined by `MemoryStore` (`KeepsNewestTraces`) |
| `TraceObj` | `__create_trace_obj` of gather.py | an operator from a sequence of spans to a trace object; its assertions are `AssertionFails` |
| `Gather` | tprof's main, `find_trace_ids`, `get_trace`, layer 1, over `MemoryStore` | `pc` is the program's position; one action per remote call and per loop boundary; `Deliver`, `StoreStops`, `StoreStarts` are the environment |
| `BoundedQueue` | bounded_queue.go | one action per atomic access of a producer, a consumer, Stop and the reporter |
| `SpanProcessor` | span_processor.go, `PostSpans`, the agent's retrying call, over `BoundedQueue` | the attempts of a call are handlers, and producers of the queue; a worker's callback is `SaveSpan`; the queue's other steps are taken as they are |
| `LossyQueue` | what a queue between producers and consumers promises, whichever item a full one gives up: the new one, as bounded_queue.go:88 does, or the earliest, as its comment at lines 27-28 says | refined by `BoundedQueue` (`ImplementsLossyQueue`), hence by the collector, and, where only the new one may go, by `AgentServer` (`ServerIsQueue`) |
| `IngesterPartition` | the ingester at work on one partition | one action per channel or mutex operation of the handler, a worker and the manager; `Assign`, `EndAssignment`, `Commit`, `Crash`, `Restart` are the surroundings |
| `AtLeastOnceLog` | what the consumer of a log promises | refined by `IngesterPartition` (`ImplementsAtLeastOnce`) |
| `IngesterConsumer` | the goroutines of consumer.go and deadlock_detector.go | a program counter per goroutine; `lock` is set only where a goroutine waits with the lock in its hands, elsewhere the critical section is one step; the work on a message is one state |
| `AgentServer` | tbuffered_server.go, thrift_processor.go and the transport of buffered_read_transport.go | one action per step of the reader, of a processor and of Stop; the transport only refers to the pooled buffer (`Receive`), and `ProcessBegins` and `ProcessEnds` read it twice, so that a buffer given back too early would be noticed |
| `Arrows` | `get_arrows` of utility.py | the set of a span's arrows and its order |
| `SelfTime` | `__calc_operation_self` | one action per kind of arrow, one step per turn of the loop |
| `Subspans` | analyze_subspans.py, `generate_spans` of report.py | grouping, collecting, replay; one step per turn |
| `ChildDiffs` | analyze_child_diffs.py | trees of any depth: a trace is the sequence of its spans with their callers, the nested lists of the code are functions from the places on the way from the root (`Address`); grouping, three passes over the template, the difference; exceptions are a value of `raised` |
| `SpanSearch` | `_find_spans`, and `LookUp` of what it found in layer 4 | an explicit stack of the open calls, one step per visited span; then one step per looked-up invocation; `Extends` says which name begins with which other one |

`MC...` modules hold TLC instances, `...Proofs` modules the theorems. (Those about the store are in
`GatherProofs`, those about the queue in `SpanProcessorProofs`: the module that composes a component
also needs its theorems. `IngesterProofs` holds those about both parts of the ingester.) Definitions commented
"Variant" are mistaken forms of the definition that follows them; no specification uses them,
they stand beside it to show that a property distinguishes the code from a plausible bug
(PROJECT.json, "mutants").

Abstractions. A span is a record of the fields some property tells apart; tags, logs and names
are left out or are model values. Times are small naturals. In `Gather` a span that was sent
reaches the store never, once or several times and in any order: the agent, the retrying
gRPC client and the collector lie between, and each of them can drop or repeat. `Subspans`
treats a span with its callees, `SelfTime` one span: the code treats every span of a trace by
itself there. In `ChildDiffs` the filling of a template by one trace is one step, which either
fits at every address or raises. In the collector the filter is a set of rejected spans
and the storage returns or hangs; tags, metrics and the sanitizer are left out. In
`IngesterPartition` the slice of a `ConcurrentList` is a set: no offset is inserted twice in one
assignment, and only its least and its contiguous elements matter. What a message holds is not
told apart. The detectors of the ingester wait long intervals, so `Tick` finds a handler where
it has to wait for something (`AtRest`).

## Runs

Eleven runs pass, one shows a disagreement between the code and what a comment in it says.

| run | question | instance |
|---|---|---|
| `MemoryStoreRing` | do ring, map and indexes stay in step under eviction; is a limited query right | ring of 3 under 4 traces, every span at most twice: every slot is reused, and a trace is evicted and re-opened in every order; restarts |
| `GatherDefault` | the deployed system (unbounded store): is anything missed, is an object ever inconsistent, does it stop early, does the polling end | 2 traces, a chain of three spans and a single span, each arriving at most once, in any order, interleaved with every call; one stop of the store |
| `GatherFaults` | which failures make tprof stop early | ring of 1, each span up to twice, references the construction refuses, a services map, search depth 1, one stop |
| `CollectorRetry` | can a client count on its "ok"; is it always answered; does Stop return; does the queue lose only what it may in all this | one batch of a span with and one without a process and one the filter rejects, sent up to twice so that both attempts overlap; one worker, a queue of one place; the storage may hang, Stop may run at any time, `reportBusy` either way |
| `AgentStop` | is a packet ever lost, doubled or overwritten after it was accepted; do Stop and the reader end | 3 packets, 2 processors, channel of 1, a buffer for each goroutine and place (the pool never runs dry), Stop at any time |
| `IngesterOffsets` | does the committed offset pass over a message that was not dealt with; does it reach the last one | 3 messages, 2 workers, one retry, two assignments, of which the first may end or the process die at any step; `propagateError` either way |
| `IngesterClaims` | can handlers of two assignments overlap; does a monitor kill over a partition given back; who waits for ever | one partition assigned twice and taken back at any time, detectors on or off, Close at any time |
| `SelfTimeNested` | is the self time the uncovered time; can it be less | every placement of 3 callees in 4 instants, starting up to one instant before the span, outliving it or following it |
| `SubspansGroup` | does a group average like with like; is the replay at the means; is a child diff of layer 3 about the subspan the report gives it | every group of up to two traces with two callees (same operation or not) in 4 instants |
| `ChildDiffsGroup` | what can make layer 3 raise; what does a slot collect | every group of up to two traces of four shapes, up to seven spans and depth three, two names, two instants |
| `SpanSearchTrees` | which invocations are found, with which path; which spans does the report show them at | every tree of 6 spans and two operations, one name beginning with the other |
| `IngesterClose` | violation: "Close closes the Consumer and underlying sarama consumer" (consumer.go:98) | the instance of `IngesterClaims`: Close takes `partitionMapLock` and waits (line 103) for a handler that has not run yet and begins with the same lock; neither goes on |

Why the bounds are enough. Every boundary the code tests is crossed: the ring wraps, the
channels are full and empty, a trace has its root before and after its child, arrows coincide,
groups have more than one member, workers finish in the wrong order and leave a gap in the list
of offsets, retries are used up. The counters `MaxCopies`, `MaxRestarts`, `NumTraces`,
`NumPackets`, `NumMessages`, `MaxAssignments` and the number of claims bound the environment and
not the code; `MaxAttempts` is an option of the code (10 by default) of which 0, 1 and more are
the cases. Two traces suffice in `Gather` since the code treats traces one by one except for
the result limit of a query, which the depth 1 of `GatherFaults` meets. Two workers suffice in
the ingester for one message to overtake another and three messages for a gap in the list;
with a second partition (`<<a, b>>`) `IngesterClaims` gives the same result. Two workers in the
collector would differ from one only in the order of the writes, which no property is about;
the theorems on the queue and on `AcknowledgedIsAccepted` hold for any number.

`CHECK_DEADLOCK FALSE` appears in four runs. In `AgentStop` Stop ends every goroutine or a panic
ends the process. In `IngesterOffsets` the ingester rests when everything is committed, or when
a message failed for good and holds back the later ones. In `IngesterClaims` and `IngesterClose`
the consumer stops when Close has returned, when a detector killed the process, and in the
deadlock that `IngesterClose` shows; the liveness properties say when it may stop for another
reason than the first. In the other runs the program's regular end stutters explicitly
(`MCDone`) so that anything else that cannot move is reported.

Other disagreements the models contain. They have no run of their own: the passing properties
either exclude the case by a condition with a name or leave open which of the two happens, as
each entry says. They show how far the disagreement reaches, not that the case itself is right;
the hazards of PROJECT.json give the lines and say the same.

- `FindTraces` with a limit compares the spans that arrived first, not those that started
  first (memory.go:204-207): `NewestReturned` assumes `FirstArrivedIsEarliest`.
- A lost leaf span leaves no "span missing" bit (utility.py:30, gather.py:171): a good trace
  need not be complete; `GoodRootsAreRoots` and `CacheIsEarlierView` say what it is.
- A callee that starts before its caller makes the self time count from the epoch
  (analyze_functions.py:134): `SelfTimeIsUncovered` assumes `InOrder`. `SelfTimeMissesNothing`
  assumes nothing: the error is never that an uncovered instant of the span is missed.
- Layer 3: two callees of one name with different callees are sorted differently by group key
  and template, and the assertion of analyze_child_diffs.py:100 fails; equal start times compare
  Span objects (line 83); the index of the difference keeps one of them (line 145).
  `RaisesOnlyForTwins` and `OneCallPerSlot` exclude such calls (`HasTwins`).
- Layer 4 groups traces whose callees come in a different order and replays instants no average of
  theirs (analyze_subspans.py:106): `SameOrderReplayedAtMean` assumes `SameOrder`.
- The search says "iterating through all matching spans" (report.py:260), but the `break` after
  an invocation without children (line 273) hides its later siblings: `FindsUnlessHidden` says
  that all others are found, and leaves the hidden ones open.
- `path.remove` takes the first occurrence (report.py:278): `PathIsRoute` excludes an operation
  that calls itself through another one. For such a path the assertion "Odd! No matched paths
  in layer4" (report.py:440) can fail: `ShowsTheInvocation` excludes it too.
- Layer 4 is matched by prefix (report.py:426): an invocation is also attributed to a span under
  an ancestor whose name begins with the right one's: `ShowsTheInvocation` says so.
- A producer that passed the load of `stopped` before Stop (bounded_queue.go:78, 97: "disable
  producer") sends on the closed channel and the process dies (`SendOnClosed`): `StopReturns`
  and `AcknowledgedIsSaved` have `~Alive` as a way out. In the all-in-one process nobody calls
  `spanProcessor.Stop`, so that this takes a caller of the package.
- A full queue drops the new item, the comment says the earliest (bounded_queue.go:27-28, 88):
  `LossyQueue` permits either.
- The drop callback is optional (bounded_queue.go:41) but called without a test at line 79.
- Without `reportBusy`, which the collector's builder never sets, an acknowledged span may have
  been dropped; `AcknowledgedIsAccepted` is the full promise only with it. `ErrServerBusy` then
  reaches the client as a code the retry interceptor does not try again.
- `TBufferedServer.Stop` does not wait (tbuffered_server.go:113); `ThriftProcessor.Stop` does
  (`StopDrains`). If Stop runs before the goroutine of Serve, the reader never ends
  (agent.go:86, tbuffered_server.go:83): `ReaderExits` assumes the flag stayed cleared.
- With `propagateError` (off by default) one message that fails for good holds back every later
  offset of the assignment: `EverythingCommitted` assumes it is off, and without it a message
  may be passed over that was never stored: `CommittedWereStored` assumes it is on.
- The wait of the ingester's main loop (consumer.go:86) blocks like that of Close:
  `WaitsForUnstarted` covers both.

## Fairness

- `Gather`: weak fairness of tprof's next step. It is one running process whose calls return or
  raise. Nothing is assumed of the network or the store, so `PollingEnds` has the antecedent
  that the store keeps a searchable trace from some time on.
- `SpanProcessor` (with `BoundedQueue`), `AgentServer`: weak fairness of each goroutine, which is
  what the Go scheduler gives. A `select` with several ready cases is not assumed fair between
  them. Nobody has to call Stop, no packet has to arrive. In the collector the network delivers a request and its
  answer unless the connection fails, and a client notices that the collector has died.
- `IngesterPartition`: the goroutines run, Kafka hands a handler the messages of its partition, ticks
  and commits recur, a partition without an owner is
  assigned again, a dead process is started again. `Manager.Close` needs strong fairness: the
  `select` of the manager may prefer the tick to the close, but a tick comes every 100 ms only.
- `IngesterConsumer`: weak fairness of the main loop, of Close once it is called, and of each
  handler but for the arrival of a message. Nothing is assumed of Kafka, of the tickers, or of the
  caller of Close.
- The other modules are sequential loops and state safety properties only.

## Proofs

All hold for every value of the constants, under the assumptions the modules name. Most of them
say only that a bound is a natural number, that a set of goroutines is finite, or that a value
which stands for "none" is no member of a set. The others, and why the code justifies them:

- `SpanIdAssumption` (a span id names one span of its trace), `MasterAssumption` (no span has the id
  of the master, whose name is no hexadecimal number), `AcyclicAssumption` (no set of spans is closed
  under references: a process had the context of the parent before the span began).
- `SpansAssumption` of `SpanProcessor` (a span is in one place of the batches: it is an object),
  `HandlersAssumption` (each attempt of a call is a handler, and the collector's queue has its drop
  callback), `AgentAssumption` (at least one processor: the constructor refuses less).
- `TracesAssumption` of `ChildDiffs`: a trace is a tree of spans, of any size and depth, whose spans are
  numbered after their callers; `NumSpansAssumption` of `SpanSearch` says that
  a trace has a root; `StoreIsTraceFifo` is stated for `MaxTraces > 0`, a store with a bound.

| theorem | states | argument |
|---|---|---|
| `GatherProofs!StoreInvariant` | types, `RingMatchesStore`, `NeverPanics` | the ring has no duplicates and holds exactly the stored ids; a new trace's id is in no slot, so the slot it takes holds another id or none, and removing that id leaves ring and map in step |
| `GatherProofs!IndexCoversStore` | `StoredIsIndexed` | the indexes only grow, and a span is indexed in the step that stores it; a restart clears both |
| `GatherProofs!ReturnsTheNewest` | `NewestReturned` | a result that is cut keeps a prefix of the sorted candidates, so a candidate left out comes after every one that is kept; where what arrived first is what started first, the sort is by start |
| `GatherProofs!StoreIsTraceFifo` | `KeepsNewestTraces` | read from the oldest slot on, the ring is the FIFO (`RingOrder`): the slots below `index` are filled until it wraps, all of them afterwards (`RingFilled`), so that the slot a new trace takes is the oldest one or an empty one |
| `GatherProofs!TypeCorrect` | `GTypeOK` | the store's invariant is carried along, because `Deliver` is a `WriteSpan` and tprof only reads |
| `GatherProofs!CrashesHaveCauses` | `CrashHasCause` | strengthened by: what is stored was written, as often as it is stored; a found trace is stored unless the store evicted or restarted; duplicates in a trace therefore come from repeated delivery |
| `GatherProofs!UndisturbedNeverCrashes` | `NoCrashUndisturbed` | from the causes above: where none of them is possible there is no crash |
| `GatherProofs!CacheIsAnEarlierView` | `CacheIsEarlierView` | a cached object was built from the spans then stored (`CacheBuilt`), and without eviction and restart a trace only grows at its end: what was read is a prefix of what is stored |
| `GatherProofs!GoodTracesHaveTheirRoots` | `GoodRootsAreRoots` | every cached object is built from stored spans that pass the assertions (`CacheBuilt`, `Buildable`); a span with a reference is under the master only if the reference dangles, and then the drop bit is set |
| `GatherProofs!TreesCoverTheirTraces` | `TreeCoversTrace` | in such an object the parent of a span is the span it refers to, or the master; a set of spans closed under parents would be a set of spans closed under references, which `AcyclicAssumption` excludes (`NoClosedSet`) |
| `GatherProofs!BucketsAgree` | `BucketsShareStatus` | the second visit finds the cached object, hence the status the first visit filed the trace under |
| `GatherProofs!NothingSearchableMissed` | `NoSearchableTraceMissed` | during an attempt a visible trace is found already, or its span's operation is still to be searched, or its service is, or service and operation are the current ones; services and operations only grow |
| `SpanProcessorProofs!StopWaits` | `StopWaitsForConsumers` | an item in hand is an item (`InHand`), and past the wait of Stop every consumer has exited (`PastWait`) |
| `SpanProcessorProofs!SizeIsAccounted` | `SizeAccounting` | the goroutines between a channel operation and their atomic add are counted; each step changes one of the three numbers or two that cancel |
| `SpanProcessorProofs!QueueIsLossyQueue` | `ImplementsLossyQueue` | an item is in one place only: with a producer, in the channel, with a consumer, consumed or dropped (`Fresh`); then each step of a goroutine is a step of the abstract queue or none |
| `SpanProcessorProofs!CollectorRunsQueue` | the collector implements `BoundedQueue!Spec` | every step of the collector is a step of the queue or leaves its variables alone |
| `SpanProcessorProofs!CollectorQueueSafe`, `CollectorIsLossyQueue` | the queue's results in the collector | from `CollectorRunsQueue` |
| `SpanProcessorProofs!Acknowledged` | `AcknowledgedIsAccepted` | what a handler has passed is rejected, kept, dropped or in its hand (`Taken`); with `reportBusy` a dropped item is the last one offered (`DroppedIsLast`); so a handler that ended with "ok" dropped none, and what is kept stays kept (`NothingForgotten`) |
| `IngesterProofs!PartitionInvariant` | `PartitionInv`, inductive | see below |
| `IngesterProofs!ListHeadIsLastMarked` | `HeadIsLastMarked` | what is inserted late lies above the last marked offset and is in no other place (`Late`, `Apart`) |
| `IngesterProofs!NothingPassedOver` | `CommittedWereStored` | everything up to the committed, the marked and the last marked offset is done with (`Done`), and `givenUp` is empty with propagation |
| `IngesterProofs!AtLeastOnce` | `ImplementsAtLeastOnce` | the highest contiguous offset of a list that begins with the last marked one extends what is done with up to itself (`HighestContiguousIs`) |
| `AgentServerProofs!PacketsHandledOnce` | `HandledOnce` | a buffer has one holder until `handler.Process` has ended (`OneHolder`), so that `Read` overwrites no packet that is still decoded (`ReadWhole`); an accepted packet is in the channel, in work or handled, and in one of them only (`OnePlace`) |
| `AgentServerProofs!StopDrainsQueue` | `StopDrains` | no accepted packet leaves these places (`NoneLost`), and a processor ends only at a closed and empty channel, which nothing enters any more (`EndsDrained`); there is at least one processor |
| `AgentServerProofs!CounterNeverDrifts` | `QueueSizeCounts` | the cardinality of the busy processors changes by one where the channel or the counter does |
| `AgentServerProofs!ServerIsTailDrop` | `ServerIsQueue` | packets are numbered as they are read (`Numbered`), so that the one in the reader's hand is new to the queue; a buffer in the channel has one holder, so that its packet does not change there |
| `IngesterProofs!HandlersNeverOverlap` | `OneHandlerPerPartition` | the wait group of a registered claim counts its handlers that are left (`Counted`); of the claims on a partition only the one in the map has any (`OnlyCurrent`), because the main loop replaces the entry when the wait group is at 0 |
| `IngesterProofs!MonitorKillsOnlyHeld` | `KillsOverHeldPartition` | a monitor runs only while its handler is between its start and its end (`MonitorEndsFirst`) |
| `SelfTimeProofs!SelfTimeNeverLess` | `SelfTimeMissesNothing` | from the begin arrow on, what is counted is at least the number of uncovered instants before the last arrow visited (`InSweep`), also when arrows lie before the begin arrow: they only add to the counter |
| `SelfTimeProofs!SelfTimeExact` | `SelfTimeIsUncovered` | the arrows visited are a lower part of the order; what is counted is the number of uncovered instants before the last of them (`CountedUpTo`), and between two arrows visited one after the other an instant is covered exactly if a callee is open (`CoveredWhileOpen`) |
| `ChildDiffsProofs!RaisesNeedTwins` | `RaisesOnlyForTwins` | without twins no comparison of a sort ties (`NothingTied`), and the names of the siblings alone decide the place of a span (`PlaceIs`); so every span of a trace has its like at the same address in every trace of its group (`LikesExist`), the group has one structure (`GroupHasOneStructure`), and the assertions on it hold; in the difference the names on the way to a slot tell it from every other (`WaysDiffer`), so that it is compared with itself |
| `ChildDiffsProofs!SlotsHoldOneCall` | `OneCallPerSlot` | the same structure: what a pass puts into a slot is, in each trace, the span at the slot's address, which has its name (`SlotInv`) |
| `SubspansProofs!ChildDiffsCoverSubspans` | `ChildDiffCoversSubspan` | a subspan ends where its child diff ends, at the start of the callee the diff is about (`StartIs`); the events that end a subspan are the starts of the callees, and the end of the span, up to that end; the start of a callee therefore has as many such events before it as callees that start earlier (`ForwardIsCut`), which is the index layer 3 gives it (`SubspanInDiff`) |
| `SubspansProofs!SameOrderGroupsReplayedAtMean` | `SameOrderReplayedAtMean` | the traces of such a group have the same names of durations (`SameKeys`), so a mean times the number of traces is their total without a remainder (`CollectInv`, `MeanIs`); a label names one callee (`LabelsDiffer`), so a return finds its own call; each replayed instant is the total of an earlier one plus the total of a duration, and totals add up term by term (`TotalAdds`, `ReplayInv`) |
| `SpanSearchProofs!PathsAreRoutes` | `PathIsRoute` | the open calls are nested as the spans on the way to where the search is (`StackInv`, its third part), so the shared path is the route to the span whose children the last call visits (`PathInv`); removing a name by its first occurrence takes the last element off, unless the name occurs before with another one between (`RemoveLast`) |
| `SpanSearchProofs!SearchFindsUnlessHidden` | `FindsUnlessHidden` | at any time the invocations found are those neither hidden nor below a span some open call has yet to visit (`FoundInv`); what a call has visited did not end its loop (`StackInv`), so nothing hides the span it is at (`CurrentNotHidden`); a loop that ends early drops only what that span hides |
| `SpanSearchProofs!LookUpShowsTheInvocation` | `ShowsTheInvocation` | a span found with its route matches itself, so no assertion fails (`MatchesAre`); spans with the same paths below them have the same path of length one, hence the same name (`SamePathsSameName`); routes of one length that differ do so at a place, where one name begins with the other |

The inductive invariants are `StoreInv` for the store, `FifoInv` on top of it for its refinement,
`BaseInv` (types, and what a found trace has to do with the store) with `CrashInv`, `CacheBuilt`,
`BucketInv` and `SearchInv` on top of it for tprof, `SweepInv` (with `InSweep`, which says what is
counted) for the sweep, `LayerInv` for layer 3, `SubspanInv` (`GroupInv`, what a group has in
common; `CollectInv`, what is summed up; `ReplayInv`, which instants are replayed) for layer 4,
`TreeSearchInv` (`StackInv`, `PathInv`, `FoundInv`, `ShownInv`) for the report's search,
`ServerInv` for the agent, `QInv` with `Counted` and `Fresh` for the queue, `CInv` on top of it
for the collector, and `PartitionInv` and `ConsumerInv` for the ingester. `PartitionInv` has to
know where every offset is: with the handler, with one worker, in the list, in what the manager
took of it, or passed; and that the list always begins where the last mark ended, also while half
of it is taken out to be compacted and workers insert in between. Most of the properties need
them: that tprof stops early only for a reason, for example, is a statement about one assertion,
but to prove it one has to know where every span of the store and of the cache came from.

`GTypeOK`, `SizeAccounting`, `QueueSizeCounts`, `NeverPanics` and the type invariant of the store
are in no run any more: they are proved for every instance.

Layers 3 and 4 and the sweep work on sorted lists. Their sorts are written by rank (the element at
place k is the one with k - 1 before it), and their sums and the way from the root to a span as
recursive functions, with which the provers can work; what would be an induction over a list or
a tree is an argument about its least counterexample (`LeastOf`, `AddressesDiffer`, `LikesExist`,
`Places`, `LineagesExist`, `LineageShaped`). Nothing is assumed of a tree but that there is one
root, and that a span is numbered after its parent (`Init` in `SpanSearch`, `IsTrace` in `ChildDiffs`).

Only model-checked: liveness under fairness (`PollingEnds`, `StopReturns`, `AnsweredEvenIfHung`,
`AcknowledgedIsSaved`, `StopEventuallyReturns`, `ReaderExits`, `EverythingCommitted`,
`CloseReturnsIfStarted`, `AssignmentIsTakenUp`), which is out of the prover's reach. Every safety
property and every refinement that a passing run checks is the statement of a theorem.

## Not modelled, and known limits

- The text of reports, abbreviation of names, statistics over lists of durations, highlighting.
- `GetDependencies` and tag matching of the store: tprof calls neither with content.
- The recursion over the layers (`process_in_layer`) and the request types of layer 2.
- `Subspans` has no clock skew. A callee that starts after its caller ended has a child diff
  and no subspan (report.py:468); `ChildDiffCoversSubspan` leaves it out.
- In `ChildDiffs`, slots of callees of one name whose trees have the same shape may mix
  silently; `OneCallPerSlot` excludes them.
- The HTTP, TChannel and Zipkin handlers of the collector, its sanitizer and metrics; the agent's
  reporter but for its call; the ingester's command line, metrics and message decoding.
- The random back-off of the ingester's retries. Its generator is shared by all workers without a
  lock (retry.go:48, 137); what a race inside the library does is not in this repository.
- The application runner, the web proxy, other Jaeger packages and generated code: I/O, or not
  reached by the profiler. Most of the repository's lines are of this last kind (generated
  protobuf, thrift and gateway code and their examples) and hold no logic of the program.

## Plan

Done, in this order: `MemoryStore` and its proofs; `TraceObj` and `Gather` over it and their
proofs; `BoundedQueue` with `LossyQueue`; `Arrows`, `SelfTime` and its proof; `Subspans`;
`ChildDiffs`; `SpanSearch`; `AgentServer` and its proofs; `IngesterPartition` with
`AtLeastOnceLog` and its proofs; `IngesterConsumer` and its proofs; `SpanProcessor` over
`BoundedQueue`, and the proofs of both; the match in layer 4; the store as a FIFO, the cache
and the trace objects of `Gather`, the exact self time, layers 3 and 4 and the replay; the search
and lookup of `SpanSearch`.

Left, extending the model: `Layers`, that is `process_in_layer` and layer 2's request types over
`Gather`; property: a trace's request type does not change between layers, and every trace ends
in one group per layer.
