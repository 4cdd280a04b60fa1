----------------------------- MODULE AgentServer -----------------------------
(***************************************************************************)
(* The UDP server of the agent (TBufferedServer) and the processors behind *)
(* it (ThriftProcessor): one goroutine reads packets into pooled buffers   *)
(* and puts them on a bounded channel, numProcessors goroutines take them  *)
(* off, and Stop closes transport and channel under both.                  *)
(*                                                                         *)
(* src/jaeger/cmd/agent/app/servers/tbuffered_server.go,                   *)
(* src/jaeger/cmd/agent/app/processors/thrift_processor.go                 *)
(***************************************************************************)
EXTENDS Integers, Sequences, FiniteSets

CONSTANTS
  Processors,    \* the goroutines of ThriftProcessor
  Buffers,       \* the buffers that are ever allocated, pooled or not
  maxQueueSize,  \* capacity of the channel
  NumPackets     \* packets 1..NumPackets reach the socket, in this order

ASSUME AgentAssumption ==
  /\ maxQueueSize \in Nat /\ NumPackets \in Nat
  /\ 0 \notin Buffers
  /\ IsFiniteSet(Processors)
  /\ Processors # {}   \* NewThriftProcessor refuses a number below one

VARIABLES
  serving, transportOpen,
  dataChan, chanClosed,
  bytes,         \* buffer -> the packet it holds, 0 for none
  readBufPool,   \* the buffers nobody holds
  queueSize,
  reader,        \* the goroutine of Serve: [pc, buf]
  processor,     \* processor -> [pc, buf, payload], payload what Process has seen so far
  stopPc,        \* the goroutine of Stop
  nextPacket, accepted,
  handled,       \* the packets processed, 0 for one put together of two
  panicked

sock == <<serving, transportOpen>>
chan == <<dataChan, chanClosed>>
pool == <<bytes, readBufPool, queueSize>>
log == <<nextPacket, accepted, handled, panicked>>
serverVars == <<sock, chan, pool, reader, processor, stopPc, log>>

Init ==
  /\ serving = 0 /\ transportOpen = TRUE
  /\ dataChan = <<>> /\ chanClosed = FALSE
  /\ bytes = [b \in Buffers |-> 0]
  /\ readBufPool = Buffers
  /\ queueSize = 0
  /\ reader = [pc |-> "start", buf |-> 0]
  /\ processor = [p \in Processors |-> [pc |-> "receive", buf |-> 0, payload |-> 0]]
  /\ stopPc = "idle"
  /\ nextPacket = 1 /\ accepted = {} /\ handled = <<>>
  /\ panicked = FALSE

-----------------------------------------------------------------------------
(***************************************************************************)
(* The goroutine of Serve.                                                 *)
(***************************************************************************)
At(pc) == reader.pc = pc
GoTo(pc) == reader' = [reader EXCEPT !.pc = pc]
\* The reader lets its buffer go.
Abandon(pc) ==
  /\ reader' = [pc |-> pc, buf |-> 0]
  /\ readBufPool' = readBufPool \cup {reader.buf}

ServeStarts ==
  /\ At("start") /\ GoTo("test")
  /\ serving' = 1
  /\ UNCHANGED <<transportOpen, chan, pool, log>>

ServeTests ==
  /\ At("test") /\ GoTo(IF serving = 1 THEN "get" ELSE "exit")
  /\ UNCHANGED <<sock, chan, pool, log>>

\* Variant: the buffer stays in the pool.
GetBufferShared(b) ==
  /\ At("get") /\ b \in readBufPool
  /\ reader' = [pc |-> "read", buf |-> b]
  /\ UNCHANGED <<sock, chan, pool, log>>

GetBuffer(b) ==
  /\ At("get") /\ b \in readBufPool
  /\ reader' = [pc |-> "read", buf |-> b]
  /\ readBufPool' = readBufPool \ {b}
  /\ UNCHANGED <<sock, chan, bytes, queueSize, log>>

Read ==
  /\ At("read") /\ GoTo("send")
  /\ transportOpen /\ nextPacket <= NumPackets
  /\ bytes' = [bytes EXCEPT ![reader.buf] = nextPacket]
  /\ nextPacket' = nextPacket + 1
  /\ UNCHANGED <<sock, chan, readBufPool, queueSize, accepted, handled, panicked>>

\* The transport is closed.
ReadFails ==
  /\ At("read") /\ Abandon("test")
  /\ ~transportOpen
  /\ UNCHANGED <<sock, chan, bytes, queueSize, log>>

Send ==
  /\ At("send") /\ ~chanClosed /\ Len(dataChan) < maxQueueSize
  /\ dataChan' = Append(dataChan, reader.buf)
  /\ accepted' = accepted \cup {bytes[reader.buf]}
  /\ reader' = [pc |-> "count", buf |-> 0]
  /\ UNCHANGED <<sock, chanClosed, pool, nextPacket, handled, panicked>>

\* The default case of the select.
Drop ==
  /\ At("send") /\ ~chanClosed /\ Len(dataChan) = maxQueueSize
  /\ Abandon("test")
  /\ UNCHANGED <<sock, chan, bytes, queueSize, log>>

\* A send on a closed channel ends the process, also inside a select.
SendPanics ==
  /\ At("send") /\ chanClosed
  /\ panicked' = TRUE
  /\ UNCHANGED <<sock, chan, pool, reader, nextPacket, accepted, handled>>

CountQueued ==
  /\ At("count") /\ GoTo("test")
  /\ queueSize' = queueSize + 1
  /\ UNCHANGED <<sock, chan, bytes, readBufPool, log>>

Serve ==
  /\ ~panicked
  /\ \/ ServeStarts
     \/ ServeTests
     \/ \E b \in Buffers : GetBuffer(b)
     \/ Read
     \/ ReadFails
     \/ Send
     \/ Drop
     \/ SendPanics
     \/ CountQueued
  /\ UNCHANGED <<processor, stopPc>>
-----------------------------------------------------------------------------
(***************************************************************************)
(* processBuffer.                                                          *)
(***************************************************************************)
Takes(p) ==
  /\ processor[p].pc = "receive" /\ dataChan # <<>>
  /\ dataChan' = Tail(dataChan)
  /\ processor' = [processor EXCEPT ![p] = [pc |-> "process", buf |-> Head(dataChan), payload |-> 0]]

\* Variant: the buffer goes back to the pool once the transport refers to it.
ReceiveReleases(p) ==
  /\ Takes(p)
  /\ readBufPool' = readBufPool \cup {Head(dataChan)}
  /\ UNCHANGED <<chanClosed, bytes, queueSize, handled>>

\* Write makes the transport of a pooled protocol refer to the bytes of the buffer;
\* nothing is copied.
Receive(p) ==
  /\ Takes(p)
  /\ UNCHANGED <<chanClosed, pool, handled>>

\* handler.Process reads the packet out of the buffer while it decodes it: it has seen
\* its first part when it begins and its last part when it ends.
ProcessBegins(p) ==
  /\ processor[p].pc = "process"
  /\ processor' = [processor EXCEPT ![p] =
       [pc |-> "processing", buf |-> processor[p].buf, payload |-> bytes[processor[p].buf]]]
  /\ UNCHANGED <<chan, pool, handled>>

\* The parts of two packets are not a packet.
ProcessEnds(p) ==
  /\ processor[p].pc = "processing"
  /\ handled' = Append(handled,
       IF bytes[processor[p].buf] = processor[p].payload THEN processor[p].payload ELSE 0)
  /\ processor' = [processor EXCEPT ![p].pc = "ack"]
  /\ UNCHANGED <<chan, pool>>

DataRecd(p) ==
  /\ processor[p].pc = "ack"
  /\ queueSize' = queueSize - 1
  /\ readBufPool' = readBufPool \cup {processor[p].buf}
  /\ processor' = [processor EXCEPT ![p] = [pc |-> "receive", buf |-> 0, payload |-> 0]]
  /\ UNCHANGED <<chan, bytes, handled>>

\* Variant: the loop looks at a flag instead of the channel.
RangeEndsAtClose(p) ==
  /\ processor[p].pc = "receive" /\ chanClosed
  /\ processor' = [processor EXCEPT ![p].pc = "done"]
  /\ UNCHANGED <<chan, pool, handled>>

\* The range over the channel ends when it is closed and empty.
RangeEnds(p) ==
  /\ processor[p].pc = "receive" /\ chanClosed /\ dataChan = <<>>
  /\ processor' = [processor EXCEPT ![p].pc = "done"]
  /\ UNCHANGED <<chan, pool, handled>>

ProcessBuffer(p) ==
  /\ ~panicked
  /\ Receive(p) \/ ProcessBegins(p) \/ ProcessEnds(p) \/ DataRecd(p) \/ RangeEnds(p)
  /\ UNCHANGED <<sock, reader, stopPc, nextPacket, accepted, panicked>>
-----------------------------------------------------------------------------
(***************************************************************************)
(* ThriftProcessor.Stop and, inside it, TBufferedServer.Stop.              *)
(***************************************************************************)
StopGoes(from, to) == ~panicked /\ stopPc = from /\ stopPc' = to

StopServing ==
  /\ StopGoes("idle", "transport")
  /\ serving' = 0
  /\ UNCHANGED <<transportOpen, chan, pool, reader, processor, log>>

\* Variant: the transport stays open.
CloseTransportForgotten ==
  /\ StopGoes("transport", "channel")
  /\ UNCHANGED <<sock, chan, pool, reader, processor, log>>

CloseTransport ==
  /\ StopGoes("transport", "channel")
  /\ transportOpen' = FALSE
  /\ UNCHANGED <<serving, chan, pool, reader, processor, log>>

\* Variant: the channel stays open.
CloseChannelForgotten ==
  /\ StopGoes("channel", "wait")
  /\ UNCHANGED <<sock, chan, pool, reader, processor, log>>

\* TBufferedServer.Stop returns.
CloseChannel ==
  /\ StopGoes("channel", "wait")
  /\ chanClosed' = TRUE
  /\ UNCHANGED <<sock, dataChan, pool, reader, processor, log>>

\* processing.Wait, then ThriftProcessor.Stop returns.
StopReturns ==
  /\ StopGoes("wait", "returned")
  /\ \A p \in Processors : processor[p].pc = "done"
  /\ UNCHANGED <<sock, chan, pool, reader, processor, log>>

StopContinues == CloseTransport \/ CloseChannel \/ StopReturns
-----------------------------------------------------------------------------
Next ==
  \/ Serve
  \/ \E p \in Processors : ProcessBuffer(p)
  \/ StopServing
  \/ StopContinues

Spec == Init /\ [][Next]_serverVars

\* The scheduler runs every goroutine that can run; nobody has to call Stop.
Fairness ==
  /\ WF_serverVars(Serve)
  /\ \A p \in Processors : WF_serverVars(ProcessBuffer(p))
  /\ WF_serverVars(StopContinues)

FairSpec == Spec /\ Fairness
-----------------------------------------------------------------------------
(***************************************************************************)
(* Properties.                                                             *)
(***************************************************************************)
\* The server implements a queue that drops at its tail, for the packets: what
\* enters the channel leaves it unchanged, in order and once, and a packet is lost
\* only if it found the channel full (tbuffered_server.go:84-100).
InHand == IF reader.pc = "send" THEN {bytes[reader.buf]} ELSE {}
Queued == [i \in DOMAIN dataChan |-> bytes[dataChan[i]]]
Queue == INSTANCE LossyQueue WITH
  EarliestMayGo <- FALSE,
  Items <- 1..NumPackets,
  Capacity <- maxQueueSize,
  queue <- Queued,
  delivered <- accepted \ {Queued[i] : i \in DOMAIN Queued},
  dropped <- (1..(nextPacket - 1)) \ (accepted \cup InHand),
  open <- ~chanClosed
ServerIsQueue == Queue!Spec

\* What a processor handles is an accepted packet, whole, and no packet is handled
\* twice: the transport only refers to the pooled buffer (buffered_read_transport.go:65),
\* so the buffer must not be reused before handler.Process has ended
\* (tbuffered_server.go:85-130, thrift_processor.go:111-125).
HandledOnce ==
  /\ \A i \in DOMAIN handled : handled[i] \in accepted
  /\ \A i, j \in DOMAIN handled : handled[i] = handled[j] => i = j

\* "Stop stops the serving of traffic and waits until the queue is emptied by the
\* readers" (thrift_processor.go:100-101): when it has returned every accepted
\* packet was handled, although the reader may have sent while Stop ran.
StopDrains ==
  stopPc = "returned" => accepted = {handled[i] : i \in DOMAIN handled}

\* The counter of queued packets is the number of packets in the channel or with a
\* processor, less the one the reader has sent and not counted; it is -1 at times.
QueueSizeCounts ==
  queueSize = Len(dataChan) + Cardinality({p \in Processors : processor[p].buf # 0})
                - IF reader.pc = "count" THEN 1 ELSE 0

\* Once called, Stop returns, unless a send panics.
StopEventuallyReturns == stopPc # "idle" ~> (stopPc = "returned" \/ panicked)

\* "Stop forces all agent go routines to exit" (agent.go:86): the reader does, if
\* its goroutine had started when Stop cleared the flag; a goroutine that starts
\* later sets the flag again and reads the closed transport for ever.
ReaderExits ==
  stopPc # "idle" /\ serving = 0 /\ reader.pc # "start" ~> reader.pc = "exit" \/ panicked
=============================================================================
