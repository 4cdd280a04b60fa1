-------------------------- MODULE AgentServerProofs --------------------------
(***************************************************************************)
(* A packet the agent has accepted is handled once, when Stop has returned *)
(* every accepted packet was handled, the counter of queued packets is     *)
(* right, and the server is a tail-drop queue, for any number of           *)
(* processors, any capacity and any moment at which Stop runs.             *)
(***************************************************************************)
EXTENDS AgentServer, FiniteSetTheorems, SequenceTheorems, TLAPS

ReaderPcs == {"start", "test", "get", "read", "send", "count", "exit"}
ProcessorPcs == {"receive", "process", "processing", "ack", "done"}

ProcessorStates == [pc : ProcessorPcs, buf : Buffers \cup {0}, payload : Nat]

\* Type invariant.  Who reads, sends, copies, processes or acknowledges has a buffer.
DataType ==
  /\ dataChan \in Seq(Buffers)
  /\ bytes \in [Buffers -> Nat]
  /\ readBufPool \subseteq Buffers
  /\ nextPacket \in Nat
  /\ accepted \subseteq Nat
  /\ handled \in Seq(Nat)
ReaderType ==
  /\ reader \in [pc : ReaderPcs, buf : Buffers \cup {0}]
  /\ reader.buf # 0 <=> reader.pc \in {"read", "send"}
ProcessorType ==
  /\ processor \in [Processors -> ProcessorStates]
  /\ \A p \in Processors : processor[p].buf # 0 <=> processor[p].pc \in {"process", "processing", "ack"}
ServerTypeOK == DataType /\ ReaderType /\ ProcessorType

\* Invariant: a buffer is in the pool, in the channel once, with the reader or with
\* one processor.
OneHolder ==
  /\ \A i, j \in DOMAIN dataChan : i # j => dataChan[i] # dataChan[j]
  /\ \A i \in DOMAIN dataChan : dataChan[i] \notin readBufPool /\ dataChan[i] # reader.buf
  /\ \A i \in DOMAIN dataChan, p \in Processors : dataChan[i] # processor[p].buf
  /\ reader.buf \notin readBufPool
  /\ \A p \in Processors : processor[p].buf \notin readBufPool
  /\ \A p \in Processors : processor[p].buf # 0 => processor[p].buf # reader.buf
  /\ \A p, q \in Processors :
       p # q /\ processor[p].buf # 0 => processor[p].buf # processor[q].buf

\* The packet in the work of a processor, which is in its buffer until it is handled.
InWork(p) == processor[p].pc \in {"process", "processing"}
Packet(p) == bytes[processor[p].buf]
Handled(x) == \E i \in DOMAIN handled : handled[i] = x

\* Invariant: an accepted packet is in the channel, in work or handled, in one of
\* these only and once.
OnePlace ==
  /\ \A x \in accepted : x < nextPacket
  /\ reader.pc = "send" => bytes[reader.buf] < nextPacket /\ bytes[reader.buf] \notin accepted
  /\ \A i \in DOMAIN dataChan : bytes[dataChan[i]] \in accepted /\ ~Handled(bytes[dataChan[i]])
  /\ \A i, j \in DOMAIN dataChan : i # j => bytes[dataChan[i]] # bytes[dataChan[j]]
  /\ \A p \in Processors : InWork(p) => Packet(p) \in accepted /\ ~Handled(Packet(p))
  /\ \A p, q \in Processors : p # q /\ InWork(p) /\ InWork(q) => Packet(p) # Packet(q)
  /\ \A p \in Processors, i \in DOMAIN dataChan : InWork(p) => Packet(p) # bytes[dataChan[i]]
  /\ HandledOnce

\* Invariant: no accepted packet gets lost.
NoneLost ==
  \A x \in accepted :
    \/ Handled(x)
    \/ \E i \in DOMAIN dataChan : bytes[dataChan[i]] = x
    \/ \E p \in Processors : InWork(p) /\ Packet(p) = x

\* Invariant: nobody writes to a buffer while a packet is read out of it.
ReadWhole ==
  \A p \in Processors :
    processor[p].pc = "processing" => processor[p].payload = bytes[processor[p].buf]

\* Invariant: a processor ends only at a closed and empty channel.
EndsDrained ==
  /\ \A p \in Processors : processor[p].pc = "done" => chanClosed /\ dataChan = <<>>
  /\ stopPc = "returned" => \A p \in Processors : processor[p].pc = "done"

ServerInv == ServerTypeOK /\ OneHolder /\ OnePlace /\ ReadWhole /\ NoneLost /\ EndsDrained
-----------------------------------------------------------------------------
LEMMA ServerInit == Init => ServerInv
<1> SUFFICES ASSUME Init PROVE ServerInv
  OBVIOUS
<1>1. ServerTypeOK
  <2>1. <<>> \in Seq(Buffers) /\ <<>> \in Seq(Nat) /\ 1 \in Nat
    OBVIOUS
  <2>2. bytes \in [Buffers -> Nat]
    BY DEF Init
  <2>3. DataType
    BY <2>1, <2>2 DEF Init, DataType
  <2>4. ReaderType
    BY DEF Init, ReaderType, ReaderPcs
  <2>5. ProcessorType
    BY DEF Init, ProcessorType, ProcessorStates, ProcessorPcs
  <2> QED
    BY <2>3, <2>4, <2>5 DEF ServerTypeOK
<1>2. OneHolder
  BY AgentAssumption DEF Init, OneHolder
<1>3. OnePlace /\ ReadWhole /\ NoneLost /\ EndsDrained
  BY DEF Init, OnePlace, HandledOnce, ReadWhole, NoneLost, EndsDrained, InWork
<1> QED
  BY <1>1, <1>2, <1>3 DEF ServerInv

\* The state of one processor changes to r.
LEMMA SetProcessor ==
  ASSUME ProcessorType, NEW p \in Processors, NEW r \in ProcessorStates,
         r.buf # 0 <=> r.pc \in {"process", "processing", "ack"},
         processor' = [processor EXCEPT ![p] = r]
  PROVE  /\ ProcessorType'
         /\ processor'[p] = r
         /\ \A q \in Processors : q # p => processor'[q] = processor[q]
  BY DEF ProcessorType

\* What the actions of a processor do to it.
LEMMA ProcessorStep ==
  ASSUME ServerTypeOK, NEW p \in Processors, ProcessBuffer(p)
  PROVE  /\ ProcessorType'
         /\ \A q \in Processors : q # p => processor'[q] = processor[q]
         /\ Receive(p) => processor'[p] = [pc |-> "process", buf |-> Head(dataChan), payload |-> 0]
         /\ ProcessBegins(p) => processor'[p] = [pc |-> "processing", buf |-> processor[p].buf,
                                        payload |-> bytes[processor[p].buf]]
         /\ ProcessEnds(p) => processor'[p] = [processor[p] EXCEPT !.pc = "ack"]
         /\ DataRecd(p) => processor'[p] = [pc |-> "receive", buf |-> 0, payload |-> 0]
         /\ RangeEnds(p) => processor'[p] = [processor[p] EXCEPT !.pc = "done"]
<1>1. /\ ProcessorType /\ DataType
      /\ processor[p] \in ProcessorStates
      /\ processor[p].buf # 0 <=> processor[p].pc \in {"process", "processing", "ack"}
  BY DEF ServerTypeOK, ProcessorType
<1>2. CASE Receive(p)
  <2>1. Head(dataChan) \in Buffers /\ Head(dataChan) # 0
    BY <1>1, <1>2, AgentAssumption DEF Receive, Takes, DataType
  <2>2. [pc |-> "process", buf |-> Head(dataChan), payload |-> 0] \in ProcessorStates
    BY <2>1 DEF ProcessorStates, ProcessorPcs
  <2> QED
    BY <1>1, <1>2, <2>1, <2>2, SetProcessor
      DEF Receive, Takes, ProcessBegins, ProcessEnds, DataRecd, RangeEnds
<1>3. CASE ProcessBegins(p)
  <2> DEFINE r == [pc |-> "processing", buf |-> processor[p].buf, payload |-> bytes[processor[p].buf]]
  <2>1. processor[p].pc = "process" /\ processor[p].buf \in Buffers
    BY <1>1, <1>3 DEF ProcessBegins, ProcessorStates
  <2>2. r \in ProcessorStates /\ r.buf # 0 /\ r.pc = "processing"
    BY <1>1, <2>1 DEF ProcessorStates, ProcessorPcs, DataType
  <2>4. processor' = [processor EXCEPT ![p] = r]
    BY <1>3 DEF ProcessBegins
  <2>5. ~Receive(p) /\ ~ProcessEnds(p) /\ ~DataRecd(p) /\ ~RangeEnds(p)
    BY <2>1 DEF Receive, Takes, ProcessEnds, DataRecd, RangeEnds
  <2> HIDE DEF r
  <2>6. /\ ProcessorType' /\ processor'[p] = r
        /\ \A q \in Processors : q # p => processor'[q] = processor[q]
    BY <1>1, <2>2, <2>4, SetProcessor
  <2> QED
    BY <2>5, <2>6 DEF r
<1>4. CASE ProcessEnds(p)
  <2> DEFINE r == [processor[p] EXCEPT !.pc = "ack"]
  <2>1. processor[p].pc = "processing" /\ processor' = [processor EXCEPT ![p] = r]
    BY <1>4 DEF ProcessEnds
  <2>2. r \in ProcessorStates /\ r.buf # 0 /\ r.pc = "ack"
    BY <1>1, <2>1 DEF ProcessorStates, ProcessorPcs
  <2> HIDE DEF r
  <2>3. ~Receive(p) /\ ~ProcessBegins(p) /\ ~DataRecd(p) /\ ~RangeEnds(p)
    BY <2>1 DEF Receive, Takes, ProcessBegins, DataRecd, RangeEnds
  <2> QED
    BY <1>1, <2>1, <2>2, <2>3, SetProcessor DEF r
<1>5. CASE DataRecd(p)
  <2>1. [pc |-> "receive", buf |-> 0, payload |-> 0] \in ProcessorStates
    BY DEF ProcessorStates, ProcessorPcs
  <2>2. processor[p].pc = "ack"
    BY <1>5 DEF DataRecd
  <2>3. ~Receive(p) /\ ~ProcessBegins(p) /\ ~ProcessEnds(p) /\ ~RangeEnds(p)
    BY <2>2 DEF Receive, Takes, ProcessBegins, ProcessEnds, RangeEnds
  <2> QED
    BY <1>1, <1>5, <2>1, <2>3, SetProcessor DEF DataRecd
<1>6. CASE RangeEnds(p)
  <2> DEFINE r == [processor[p] EXCEPT !.pc = "done"]
  <2>1. processor[p].pc = "receive" /\ processor' = [processor EXCEPT ![p] = r] /\ dataChan = <<>>
    BY <1>6 DEF RangeEnds
  <2>2. r \in ProcessorStates /\ r.buf = 0 /\ r.pc = "done"
    BY <1>1, <2>1 DEF ProcessorStates, ProcessorPcs
  <2> HIDE DEF r
  <2>3. ~Receive(p) /\ ~ProcessBegins(p) /\ ~ProcessEnds(p) /\ ~DataRecd(p)
    BY <2>1 DEF Receive, Takes, ProcessBegins, ProcessEnds, DataRecd
  <2> QED
    BY <1>1, <2>1, <2>2, <2>3, SetProcessor DEF r
<1> QED
  BY <1>2, <1>3, <1>4, <1>5, <1>6 DEF ProcessBuffer

\* The same, field by field.
LEMMA ProcessorFields ==
  ASSUME ServerTypeOK, NEW p \in Processors, ProcessBuffer(p)
  PROVE  /\ Receive(p) => /\ processor[p].pc = "receive"
                          /\ processor'[p].pc = "process" /\ processor'[p].buf = Head(dataChan)
         /\ ProcessBegins(p) => /\ processor[p].pc = "process" /\ processor'[p].pc = "processing"
                       /\ processor'[p].buf = processor[p].buf
                       /\ processor'[p].payload = bytes[processor[p].buf]
         /\ ProcessEnds(p) => /\ processor[p].pc = "processing" /\ processor'[p].pc = "ack"
                          /\ processor'[p].buf = processor[p].buf
         /\ DataRecd(p) => /\ processor[p].pc = "ack" /\ processor'[p].pc = "receive"
                           /\ processor'[p].buf = 0
         /\ RangeEnds(p) => /\ processor[p].pc = "receive" /\ processor'[p].pc = "done"
                            /\ processor'[p].buf = processor[p].buf
<1>1. processor[p] \in ProcessorStates
  BY DEF ServerTypeOK, ProcessorType
<1>2. CASE Receive(p)
  <2>1. processor[p].pc = "receive"
    BY <1>2 DEF Receive, Takes
  <2>2. processor'[p] = [pc |-> "process", buf |-> Head(dataChan), payload |-> 0]
    BY <1>2, ProcessorStep
  <2>3. ~RangeEnds(p)
    BY <1>2 DEF Receive, Takes, RangeEnds
  <2>4. ~ProcessBegins(p) /\ ~ProcessEnds(p) /\ ~DataRecd(p)
    BY <2>1 DEF ProcessBegins, ProcessEnds, DataRecd
  <2> QED
    BY <2>1, <2>2, <2>3, <2>4
<1>3. CASE ProcessBegins(p)
  <2>1. processor[p].pc = "process"
    BY <1>3 DEF ProcessBegins
  <2>2. processor'[p] = [pc |-> "processing", buf |-> processor[p].buf,
                         payload |-> bytes[processor[p].buf]]
    BY <1>3, ProcessorStep
  <2> QED
    BY <2>1, <2>2 DEF Receive, Takes, ProcessEnds, DataRecd, RangeEnds
<1>4. CASE ProcessEnds(p)
  <2>1. processor[p].pc = "processing"
    BY <1>4 DEF ProcessEnds
  <2>2. processor'[p] = [processor[p] EXCEPT !.pc = "ack"]
    BY <1>4, ProcessorStep
  <2>3. processor'[p].pc = "ack" /\ processor'[p].buf = processor[p].buf
    BY <1>1, <2>2 DEF ProcessorStates
  <2> QED
    BY <2>1, <2>3 DEF Receive, Takes, ProcessBegins, DataRecd, RangeEnds
<1>5. CASE DataRecd(p)
  <2>1. processor[p].pc = "ack"
    BY <1>5 DEF DataRecd
  <2>2. processor'[p] = [pc |-> "receive", buf |-> 0, payload |-> 0]
    BY <1>5, ProcessorStep
  <2> QED
    BY <2>1, <2>2 DEF Receive, Takes, ProcessBegins, ProcessEnds, RangeEnds
<1>6. CASE RangeEnds(p)
  <2>1. processor[p].pc = "receive"
    BY <1>6 DEF RangeEnds
  <2>2. processor'[p] = [processor[p] EXCEPT !.pc = "done"]
    BY <1>6, ProcessorStep
  <2>3. processor'[p].pc = "done" /\ processor'[p].buf = processor[p].buf
    BY <1>1, <2>2 DEF ProcessorStates
  <2>4. ~Receive(p)
    BY <1>6 DEF Receive, Takes, RangeEnds
  <2>5. ~ProcessBegins(p) /\ ~ProcessEnds(p) /\ ~DataRecd(p)
    BY <2>1 DEF ProcessBegins, ProcessEnds, DataRecd
  <2> QED
    BY <2>1, <2>3, <2>4, <2>5
<1> QED
  BY <1>2, <1>3, <1>4, <1>5, <1>6 DEF ProcessBuffer

\* Every step of the reader keeps its type.
LEMMA ReaderStep ==
  ASSUME ServerTypeOK, Serve
  PROVE  ReaderType'
<1>1. reader \in [pc : ReaderPcs, buf : Buffers \cup {0}] /\ ReaderType
  BY DEF ServerTypeOK, ReaderType
<1>2. CASE ServeStarts \/ ServeTests \/ CountQueued
  <2>1. \E pc \in {"test", "get", "exit"} :
          reader' = [reader EXCEPT !.pc = pc] /\ reader.pc \notin {"read", "send"}
    BY <1>2 DEF ServeStarts, ServeTests, CountQueued, At, GoTo
  <2> QED
    BY <1>1, <2>1 DEF ReaderType, ReaderPcs
<1>3. ASSUME NEW b \in Buffers, GetBuffer(b) PROVE ReaderType'
  BY <1>3, AgentAssumption DEF GetBuffer, ReaderType, ReaderPcs
<1>4. CASE Read
  <2>1. reader' = [reader EXCEPT !.pc = "send"] /\ reader.pc = "read"
    BY <1>4 DEF Read, At, GoTo
  <2> QED
    BY <1>1, <2>1 DEF ReaderType, ReaderPcs
<1>5. CASE ReadFails \/ Drop
  BY <1>5 DEF ReadFails, Drop, Abandon, ReaderType, ReaderPcs
<1>6. CASE Send
  BY <1>6 DEF Send, ReaderType, ReaderPcs
<1>7. CASE SendPanics
  BY <1>1, <1>7 DEF SendPanics, ReaderType
<1> QED
  BY <1>2, <1>3, <1>4, <1>5, <1>6, <1>7 DEF Serve

\* Every step keeps the types.
LEMMA ServerTypes ==
  ASSUME ServerTypeOK, [Next]_serverVars
  PROVE  ServerTypeOK'
<1> USE DEF chan, pool, log, sock
<1>1. DataType /\ ReaderType /\ ProcessorType
  BY DEF ServerTypeOK
<1>2. CASE Serve
  <2>1. ReaderType'
    BY <1>2, ReaderStep
  <2>2. ProcessorType'
    BY <1>1, <1>2 DEF Serve, ProcessorType
  <2>3. DataType'
    <3>1. CASE ServeStarts \/ ServeTests \/ SendPanics \/ CountQueued
      BY <1>1, <3>1 DEF ServeStarts, ServeTests, SendPanics, CountQueued, DataType
    <3>2. ASSUME NEW b \in Buffers, GetBuffer(b) PROVE DataType'
      BY <1>1, <3>2 DEF GetBuffer, DataType
    <3>3. CASE Read
      <4>1. /\ bytes' = [bytes EXCEPT ![reader.buf] = nextPacket] /\ nextPacket' = nextPacket + 1
            /\ UNCHANGED <<dataChan, readBufPool, accepted, handled>>
        BY <3>3 DEF Read
      <4>2. bytes \in [Buffers -> Nat] /\ nextPacket \in Nat
        BY <1>1 DEF DataType
      <4>3. bytes' \in [Buffers -> Nat]
        BY <4>1, <4>2
      <4>4. nextPacket' \in Nat
        BY <4>1, <4>2
      <4> QED
        BY <1>1, <4>1, <4>3, <4>4 DEF DataType
    <3>4. reader.pc \in {"read", "send"} => reader.buf \in Buffers
      BY <1>1 DEF ReaderType
    <3>5. CASE ReadFails \/ Drop
      BY <1>1, <3>4, <3>5 DEF ReadFails, Drop, At, Abandon, DataType
    <3>6. CASE Send
      <4>1. dataChan' \in Seq(Buffers)
        BY <1>1, <3>4, <3>6 DEF Send, At, DataType
      <4>2. accepted' \subseteq Nat
        BY <1>1, <3>4, <3>6 DEF Send, At, DataType
      <4> QED
        BY <1>1, <3>6, <4>1, <4>2 DEF Send, DataType
    <3> QED
      BY <1>2, <3>1, <3>2, <3>3, <3>5, <3>6 DEF Serve
  <2> QED
    BY <2>1, <2>2, <2>3 DEF ServerTypeOK
<1>3. ASSUME NEW p \in Processors, ProcessBuffer(p) PROVE ServerTypeOK'
  <2>1. ProcessorType'
    BY <1>3, ProcessorStep
  <2>2. ReaderType'
    BY <1>1, <1>3 DEF ProcessBuffer, ReaderType
  <2>3. processor[p] \in ProcessorStates
    BY <1>1 DEF ProcessorType
  <2>4. DataType'
    <3>1. CASE Receive(p)
      BY <1>1, <1>3, <3>1 DEF ProcessBuffer, Receive, Takes, DataType
    <3>2. CASE ProcessBegins(p) \/ RangeEnds(p)
      BY <1>1, <1>3, <3>2 DEF ProcessBuffer, ProcessBegins, RangeEnds, DataType
    <3>3. CASE ProcessEnds(p)
      <4>1. handled' \in Seq(Nat)
        BY <1>1, <2>3, <3>3 DEF ProcessEnds, DataType, ProcessorStates
      <4> QED
        BY <1>1, <1>3, <3>3, <4>1 DEF ProcessBuffer, ProcessEnds, DataType
    <3>4. CASE DataRecd(p)
      <4>1. processor[p].buf \in Buffers
        BY <1>1, <2>3, <3>4 DEF DataRecd, ProcessorType, ProcessorStates
      <4> QED
        BY <1>1, <1>3, <3>4, <4>1 DEF ProcessBuffer, DataRecd, DataType
    <3> QED
      BY <1>3, <3>1, <3>2, <3>3, <3>4 DEF ProcessBuffer
  <2> QED
    BY <2>1, <2>2, <2>4 DEF ServerTypeOK
<1>4. CASE StopServing \/ StopContinues \/ UNCHANGED serverVars
  <2>1. UNCHANGED <<dataChan, bytes, readBufPool, nextPacket, accepted, handled, reader, processor>>
    BY <1>4 DEF StopServing, StopContinues, CloseTransport, CloseChannel, StopReturns, serverVars
  <2> QED
    BY <1>1, <2>1 DEF ServerTypeOK, DataType, ReaderType, ProcessorType
<1> QED
  BY <1>2, <1>3, <1>4 DEF Next

-----------------------------------------------------------------------------
\* What Append and Tail do to the elements of a sequence.
LEMMA AppendElements ==
  ASSUME NEW S, NEW s \in Seq(S), NEW e \in S, NEW t, t = Append(s, e)
  PROVE  /\ \A i \in DOMAIN s : i \in DOMAIN t /\ t[i] = s[i]
         /\ Len(s) + 1 \in DOMAIN t /\ Len(s) + 1 \notin DOMAIN s /\ t[Len(s) + 1] = e
         /\ \A i \in DOMAIN t : i \in DOMAIN s \/ i = Len(s) + 1
  OBVIOUS

LEMMA TailElements ==
  ASSUME NEW S, NEW s \in Seq(S), s # <<>>, NEW t, t = Tail(s)
  PROVE  /\ 1 \in DOMAIN s /\ Head(s) = s[1]
         /\ \A i \in DOMAIN t : i + 1 \in DOMAIN s /\ i + 1 # 1 /\ t[i] = s[i + 1]
         /\ \A i, j \in DOMAIN t : i # j => i + 1 # j + 1
         /\ \A i \in DOMAIN s : i = 1 \/ (i - 1 \in DOMAIN t /\ t[i - 1] = s[i])
  OBVIOUS

\* What no step of Stop touches.
LEMMA StopLeaves ==
  ASSUME StopServing \/ StopContinues \/ UNCHANGED serverVars
  PROVE  UNCHANGED <<dataChan, bytes, readBufPool, nextPacket, accepted, handled, reader, processor>>
  BY DEF StopServing, StopContinues, CloseTransport, CloseChannel, StopReturns, serverVars,
         chan, pool, log

\* Once closed the channel gets nothing, and no processor ends before it is empty.
LEMMA DrainedKept ==
  ASSUME ServerInv, [Next]_serverVars
  PROVE  EndsDrained'
<1> USE DEF chan, pool, log, sock
<1>1. EndsDrained /\ ServerTypeOK
  BY DEF ServerInv
<1>2. CASE Serve
  <2>1. UNCHANGED <<processor, stopPc, chanClosed>>
    BY <1>2 DEF Serve, ServeStarts, ServeTests, GetBuffer, Read, ReadFails, Send, Drop,
                SendPanics, CountQueued
  <2>2. chanClosed => UNCHANGED dataChan
    BY <1>2 DEF Serve, ServeStarts, ServeTests, GetBuffer, Read, ReadFails, Send, Drop,
                SendPanics, CountQueued
  <2> QED
    BY <1>1, <2>1, <2>2 DEF EndsDrained
<1>3. ASSUME NEW p \in Processors, ProcessBuffer(p) PROVE EndsDrained'
  <2>1. UNCHANGED <<stopPc, chanClosed>>
    BY <1>3 DEF ProcessBuffer, Receive, Takes, ProcessBegins, ProcessEnds, DataRecd, RangeEnds
  <2>2. dataChan = <<>> => UNCHANGED dataChan
    BY <1>3 DEF ProcessBuffer, Receive, Takes, ProcessBegins, ProcessEnds, DataRecd, RangeEnds
  <2>3. processor[p].pc # "done"
    BY <1>3 DEF ProcessBuffer, Receive, Takes, ProcessBegins, ProcessEnds, DataRecd, RangeEnds
  <2>4. \A q \in Processors : q # p => processor'[q] = processor[q]
    BY <1>1, <1>3, ProcessorStep
  <2>5. processor'[p].pc = "done" => RangeEnds(p)
    BY <1>1, <1>3, ProcessorFields DEF ProcessBuffer
  <2>6. RangeEnds(p) => chanClosed /\ dataChan = <<>>
    BY DEF RangeEnds
  <2>7. \A q \in Processors : processor'[q].pc = "done" => chanClosed' /\ dataChan' = <<>>
    BY <1>1, <2>1, <2>2, <2>4, <2>5, <2>6 DEF EndsDrained
  <2>8. stopPc # "returned"
    BY <1>1, <2>3 DEF EndsDrained
  <2> QED
    BY <2>1, <2>7, <2>8 DEF EndsDrained
<1>4. CASE StopServing \/ StopContinues \/ UNCHANGED serverVars
  <2>1. UNCHANGED <<dataChan, processor>>
    BY <1>4, StopLeaves
  <2>2. chanClosed => chanClosed'
    BY <1>4 DEF StopServing, StopContinues, CloseTransport, CloseChannel, StopReturns, serverVars
  <2>3. stopPc' = "returned" => \A p \in Processors : processor[p].pc = "done"
    BY <1>1, <1>4 DEF StopServing, StopContinues, StopGoes, CloseTransport, CloseChannel,
                      StopReturns, serverVars, EndsDrained
  <2> QED
    BY <1>1, <2>1, <2>2, <2>3 DEF EndsDrained
<1> QED
  BY <1>2, <1>3, <1>4 DEF Next

\* No buffer gets a second holder, or a second place in the channel.
LEMMA HolderKept ==
  ASSUME ServerInv, [Next]_serverVars
  PROVE  OneHolder'
<1> USE DEF chan, pool, log, sock
<1>1. OneHolder /\ DataType /\ ReaderType /\ ProcessorType /\ ServerTypeOK
  BY DEF ServerInv, ServerTypeOK
<1>2. DataType'
  BY <1>1, ServerTypes DEF ServerTypeOK
<1>3. /\ 0 \notin readBufPool /\ 0 \notin readBufPool'
      /\ \A i \in DOMAIN dataChan : dataChan[i] \in Buffers /\ dataChan[i] # 0
      /\ \A i \in DOMAIN dataChan' : dataChan'[i] \in Buffers /\ dataChan'[i] # 0
  BY <1>1, <1>2, AgentAssumption DEF DataType
<1>4. \A p \in Processors : processor[p].buf # 0 => processor[p].buf \in Buffers
  BY <1>1 DEF ProcessorType, ProcessorStates
<1>5. CASE Serve
  <2>0. processor' = processor
    BY <1>5 DEF Serve
  <2>1. CASE ServeStarts \/ ServeTests \/ SendPanics \/ CountQueued \/ Read
    <3>1. UNCHANGED <<dataChan, readBufPool>>
      BY <2>1 DEF ServeStarts, ServeTests, SendPanics, CountQueued, Read
    <3>2. reader'.buf = reader.buf
      BY <1>1, <2>1 DEF ServeStarts, ServeTests, SendPanics, CountQueued, Read, GoTo, ReaderType
    <3> QED
      BY <1>1, <2>0, <3>1, <3>2 DEF OneHolder
  <2>2. ASSUME NEW b \in Buffers, GetBuffer(b) PROVE OneHolder'
    <3>1. /\ reader'.buf = b /\ b \in readBufPool
          /\ readBufPool' = readBufPool \ {b} /\ dataChan' = dataChan
      BY <2>2 DEF GetBuffer
    <3> QED
      BY <1>1, <2>0, <3>1 DEF OneHolder
  <2>3. CASE ReadFails \/ Drop
    <3>1. /\ reader'.buf = 0 /\ reader.buf # 0
          /\ readBufPool' = readBufPool \cup {reader.buf} /\ dataChan' = dataChan
      BY <1>1, <2>3 DEF ReadFails, Drop, Abandon, At, ReaderType
    <3> QED
      BY <1>1, <1>3, <2>0, <3>1 DEF OneHolder
  <2>4. CASE Send
    <3>1. /\ reader'.buf = 0 /\ reader.buf # 0 /\ reader.buf \in Buffers
          /\ readBufPool' = readBufPool /\ dataChan' = Append(dataChan, reader.buf)
      BY <1>1, <2>4 DEF Send, At, ReaderType
    <3>2. dataChan \in Seq(Buffers)
      BY <1>1 DEF DataType
    <3> DEFINE last == Len(dataChan) + 1
    <3>3. /\ \A i \in DOMAIN dataChan : i \in DOMAIN dataChan' /\ dataChan'[i] = dataChan[i]
          /\ last \in DOMAIN dataChan' /\ dataChan'[last] = reader.buf
          /\ \A i \in DOMAIN dataChan' : i \in DOMAIN dataChan \/ i = last
      BY <3>1, <3>2, AppendElements
    <3> HIDE DEF last
    <3>4. \A i, j \in DOMAIN dataChan' : i # j => dataChan'[i] # dataChan'[j]
      BY <1>1, <3>3 DEF OneHolder
    <3>5. \A i \in DOMAIN dataChan' : dataChan'[i] \notin readBufPool
      BY <1>1, <3>3 DEF OneHolder
    <3>6. \A i \in DOMAIN dataChan', p \in Processors : dataChan'[i] # processor[p].buf
      <4>1. \A p \in Processors : processor[p].buf # reader.buf
        BY <1>1, <3>1 DEF OneHolder
      <4> QED
        BY <1>1, <3>3, <4>1 DEF OneHolder
    <3> QED
      BY <1>1, <1>3, <2>0, <3>1, <3>4, <3>5, <3>6 DEF OneHolder
  <2> QED
    BY <1>5, <2>1, <2>2, <2>3, <2>4 DEF Serve
<1>6. ASSUME NEW p \in Processors, ProcessBuffer(p) PROVE OneHolder'
  <2>0. reader' = reader /\ \A q \in Processors : q # p => processor'[q] = processor[q]
    BY <1>1, <1>6, ProcessorStep DEF ProcessBuffer
  <2>1. CASE Receive(p)
    <3>1. /\ dataChan # <<>> /\ dataChan' = Tail(dataChan) /\ readBufPool' = readBufPool
          /\ dataChan \in Seq(Buffers)
      BY <1>1, <2>1 DEF Receive, Takes, DataType
    <3>2. /\ 1 \in DOMAIN dataChan /\ Head(dataChan) = dataChan[1]
          /\ \A i \in DOMAIN dataChan' :
               i + 1 \in DOMAIN dataChan /\ i + 1 # 1 /\ dataChan'[i] = dataChan[i + 1]
          /\ \A i, j \in DOMAIN dataChan' : i # j => i + 1 # j + 1
      BY <3>1, TailElements
    <3>3. processor'[p].buf = dataChan[1]
      BY <1>1, <1>6, <2>1, <3>2, ProcessorFields
    <3>4. \A i, j \in DOMAIN dataChan' : i # j => dataChan'[i] # dataChan'[j]
      BY <1>1, <3>2 DEF OneHolder
    <3>5. \A i \in DOMAIN dataChan' : dataChan'[i] \notin readBufPool /\ dataChan'[i] # reader.buf
      BY <1>1, <3>2 DEF OneHolder
    <3>6. \A i \in DOMAIN dataChan', q \in Processors : dataChan'[i] # processor'[q].buf
      BY <1>1, <2>0, <3>2, <3>3 DEF OneHolder
    <3>7. \A q \in Processors : processor'[q].buf \notin readBufPool
      BY <1>1, <2>0, <3>2, <3>3 DEF OneHolder
    <3>8. \A q \in Processors : processor'[q].buf # 0 => processor'[q].buf # reader.buf
      BY <1>1, <2>0, <3>2, <3>3 DEF OneHolder
    <3>9. \A q, r \in Processors :
            q # r /\ processor'[q].buf # 0 => processor'[q].buf # processor'[r].buf
      BY <1>1, <2>0, <3>2, <3>3 DEF OneHolder
    <3> QED
      BY <1>1, <2>0, <3>1, <3>4, <3>5, <3>6, <3>7, <3>8, <3>9 DEF OneHolder
  <2>2. CASE ProcessBegins(p) \/ ProcessEnds(p) \/ RangeEnds(p)
    <3>1. UNCHANGED <<dataChan, readBufPool>>
      BY <2>2 DEF ProcessBegins, ProcessEnds, RangeEnds
    <3>2. \A q \in Processors : processor'[q].buf = processor[q].buf
      BY <1>1, <1>6, <2>0, <2>2, ProcessorFields
    <3> QED
      BY <1>1, <2>0, <3>1, <3>2 DEF OneHolder
  <2>3. CASE DataRecd(p)
    <3>1. dataChan' = dataChan /\ readBufPool' = readBufPool \cup {processor[p].buf}
      BY <2>3 DEF DataRecd
    <3>2. processor'[p].buf = 0 /\ processor[p].buf # 0
      BY <1>1, <1>6, <2>3, ProcessorFields DEF ProcessorType
    <3>3. \A q \in Processors : processor'[q].buf = 0 \/ processor'[q].buf = processor[q].buf
      BY <2>0, <3>2
    <3>4. \A i \in DOMAIN dataChan : dataChan[i] \notin readBufPool'
      BY <1>1, <3>1 DEF OneHolder
    <3>5. reader.buf \notin readBufPool'
      BY <1>1, <3>1, <3>2 DEF OneHolder
    <3>6. \A q \in Processors : processor'[q].buf \notin readBufPool'
      BY <1>1, <1>3, <2>0, <3>1, <3>2 DEF OneHolder
    <3>7. \A i \in DOMAIN dataChan, q \in Processors : dataChan[i] # processor'[q].buf
      BY <1>1, <1>3, <3>3 DEF OneHolder
    <3>8. \A q \in Processors : processor'[q].buf # 0 => processor'[q].buf # reader.buf
      BY <1>1, <3>3 DEF OneHolder
    <3>9. \A q, r \in Processors :
            q # r /\ processor'[q].buf # 0 => processor'[q].buf # processor'[r].buf
      BY <1>1, <3>3 DEF OneHolder
    <3> QED
      BY <1>1, <2>0, <3>1, <3>4, <3>5, <3>6, <3>7, <3>8, <3>9 DEF OneHolder
  <2> QED
    BY <1>6, <2>1, <2>2, <2>3 DEF ProcessBuffer
<1>7. CASE StopServing \/ StopContinues \/ UNCHANGED serverVars
  BY <1>1, <1>7, StopLeaves DEF OneHolder
<1> QED
  BY <1>5, <1>6, <1>7 DEF Next

-----------------------------------------------------------------------------
(***************************************************************************)
(* The places of a packet.                                                 *)
(***************************************************************************)
\* A step of the reader that neither reads nor sends leaves all packets alone.
LEMMA ReaderLeaves ==
  ASSUME ServerInv, Serve, ~Read, ~Send
  PROVE  /\ UNCHANGED <<dataChan, bytes, nextPacket, accepted, handled, processor>>
         /\ reader'.pc # "send" \/ reader' = reader
<1> USE DEF chan, pool, log, sock
<1>1. reader \in [pc : ReaderPcs, buf : Buffers \cup {0}]
  BY DEF ServerInv, ServerTypeOK, ReaderType
<1>2. CASE ServeStarts \/ ServeTests \/ CountQueued
  <2>1. \E pc \in {"test", "get", "exit"} : reader' = [reader EXCEPT !.pc = pc]
    BY <1>2 DEF ServeStarts, ServeTests, CountQueued, GoTo
  <2>2. reader'.pc # "send"
    BY <1>1, <2>1
  <2> QED
    BY <1>2, <2>2 DEF Serve, ServeStarts, ServeTests, CountQueued
<1>3. CASE SendPanics
  BY <1>3 DEF Serve, SendPanics
<1>4. ASSUME NEW b \in Buffers, GetBuffer(b)
      PROVE  /\ UNCHANGED <<dataChan, bytes, nextPacket, accepted, handled, processor>>
             /\ reader'.pc # "send" \/ reader' = reader
  BY <1>4 DEF Serve, GetBuffer
<1>5. CASE ReadFails \/ Drop
  BY <1>5 DEF Serve, ReadFails, Drop, Abandon
<1> QED
  BY <1>2, <1>3, <1>4, <1>5 DEF Serve

\* Read fills a buffer that holds no packet in the channel or in work.
LEMMA ReadFills ==
  ASSUME ServerInv, Serve, Read
  PROVE  /\ UNCHANGED <<dataChan, accepted, handled, processor>>
         /\ reader'.pc = "send" /\ reader'.buf = reader.buf
         /\ bytes'[reader.buf] = nextPacket
         /\ nextPacket \in Nat /\ nextPacket' = nextPacket + 1
         /\ \A i \in DOMAIN dataChan : bytes'[dataChan[i]] = bytes[dataChan[i]]
         /\ \A p \in Processors : InWork(p) => Packet(p)' = Packet(p)
<1> USE DEF chan, pool, log, sock
<1>1. /\ reader \in [pc : ReaderPcs, buf : Buffers \cup {0}] /\ reader.pc = "read"
      /\ reader.buf \in Buffers /\ reader.buf # 0
      /\ nextPacket \in Nat /\ bytes \in [Buffers -> Nat] /\ dataChan \in Seq(Buffers)
  BY DEF ServerInv, ServerTypeOK, ReaderType, DataType, Read, At
<1>2. /\ UNCHANGED <<dataChan, accepted, handled, processor>>
      /\ reader' = [reader EXCEPT !.pc = "send"]
      /\ bytes' = [bytes EXCEPT ![reader.buf] = nextPacket]
      /\ nextPacket' = nextPacket + 1
  BY DEF Serve, Read, GoTo
<1>3. reader'.pc = "send" /\ reader'.buf = reader.buf
  BY <1>1, <1>2
<1>4. bytes'[reader.buf] = nextPacket
  BY <1>1, <1>2
<1>5. \A b \in Buffers : b # reader.buf => bytes'[b] = bytes[b]
  BY <1>1, <1>2
<1>6. \A i \in DOMAIN dataChan : bytes'[dataChan[i]] = bytes[dataChan[i]]
  <2>1. \A i \in DOMAIN dataChan : dataChan[i] # reader.buf
    BY DEF ServerInv, OneHolder
  <2>2. \A i \in DOMAIN dataChan : dataChan[i] \in Buffers
    BY <1>1
  <2> QED
    BY <1>5, <2>1, <2>2
<1>7. ASSUME NEW p \in Processors, InWork(p) PROVE Packet(p)' = Packet(p)
  <2>1. processor[p].buf \in Buffers /\ processor[p].buf # 0
    BY <1>7 DEF InWork, ServerInv, ServerTypeOK, ProcessorType, ProcessorStates
  <2>2. processor[p].buf # reader.buf
    BY <2>1 DEF ServerInv, OneHolder
  <2> QED
    BY <1>2, <1>5, <2>1, <2>2 DEF Packet
<1> QED
  BY <1>1, <1>2, <1>3, <1>4, <1>6, <1>7

\* Send puts the packet of the reader last in the channel.
LEMMA SendAppends ==
  ASSUME ServerInv, Serve, Send
  PROVE  /\ UNCHANGED <<bytes, nextPacket, handled, processor>>
         /\ reader.pc = "send" /\ reader'.pc = "count"
         /\ accepted' = accepted \cup {bytes[reader.buf]}
         /\ \A i \in DOMAIN dataChan : i \in DOMAIN dataChan' /\ dataChan'[i] = dataChan[i]
         /\ \E last \in DOMAIN dataChan' :
              /\ last \notin DOMAIN dataChan /\ dataChan'[last] = reader.buf
              /\ \A i \in DOMAIN dataChan' : i \in DOMAIN dataChan \/ i = last
<1> USE DEF chan, pool, log, sock
<1>1. /\ UNCHANGED <<bytes, nextPacket, handled, processor>>
      /\ reader.pc = "send" /\ reader'.pc = "count"
      /\ accepted' = accepted \cup {bytes[reader.buf]}
      /\ dataChan' = Append(dataChan, reader.buf)
  BY DEF Serve, Send, At
<1>2. reader.buf \in Buffers /\ dataChan \in Seq(Buffers)
  BY <1>1 DEF ServerInv, ServerTypeOK, DataType, ReaderType
<1>3. /\ \A i \in DOMAIN dataChan : i \in DOMAIN dataChan' /\ dataChan'[i] = dataChan[i]
      /\ Len(dataChan) + 1 \in DOMAIN dataChan' /\ Len(dataChan) + 1 \notin DOMAIN dataChan
      /\ dataChan'[Len(dataChan) + 1] = reader.buf
      /\ \A i \in DOMAIN dataChan' : i \in DOMAIN dataChan \/ i = Len(dataChan) + 1
  BY <1>1, <1>2, AppendElements
<1> QED
  BY <1>1, <1>3

\* Receive takes the first buffer.
LEMMA ReceiveTakes ==
  ASSUME ServerInv, NEW p \in Processors, ProcessBuffer(p), Receive(p)
  PROVE  /\ UNCHANGED <<bytes, nextPacket, accepted, handled, reader>>
         /\ ~InWork(p) /\ InWork(p)' /\ 1 \in DOMAIN dataChan
         /\ Packet(p)' = bytes[dataChan[1]]
         /\ \A q \in Processors : q # p => InWork(q)' = InWork(q) /\ Packet(q)' = Packet(q)
         /\ \A i \in DOMAIN dataChan' :
              i + 1 \in DOMAIN dataChan /\ i + 1 # 1 /\ dataChan'[i] = dataChan[i + 1]
         /\ \A i, j \in DOMAIN dataChan' : i # j => i + 1 # j + 1
         /\ \A i \in DOMAIN dataChan :
              i = 1 \/ (i - 1 \in DOMAIN dataChan' /\ dataChan'[i - 1] = dataChan[i])
<1> USE DEF chan, pool, log, sock
<1>1. UNCHANGED <<bytes, nextPacket, accepted, handled, reader>>
  BY DEF ProcessBuffer, Receive, Takes
<1>2. dataChan # <<>> /\ dataChan' = Tail(dataChan) /\ dataChan \in Seq(Buffers)
  BY DEF Receive, Takes, ServerInv, ServerTypeOK, DataType
<1>3. /\ 1 \in DOMAIN dataChan /\ Head(dataChan) = dataChan[1]
      /\ \A i \in DOMAIN dataChan' :
           i + 1 \in DOMAIN dataChan /\ i + 1 # 1 /\ dataChan'[i] = dataChan[i + 1]
      /\ \A i, j \in DOMAIN dataChan' : i # j => i + 1 # j + 1
      /\ \A i \in DOMAIN dataChan :
           i = 1 \/ (i - 1 \in DOMAIN dataChan' /\ dataChan'[i - 1] = dataChan[i])
  BY <1>2, TailElements
<1>4. /\ processor[p].pc = "receive" /\ processor'[p].pc = "process"
      /\ processor'[p].buf = dataChan[1]
  BY <1>3, ProcessorFields DEF ServerInv
<1>5. ~InWork(p) /\ InWork(p)' /\ Packet(p)' = bytes[dataChan[1]]
  BY <1>1, <1>4 DEF InWork, Packet
<1>6. \A q \in Processors : q # p => processor'[q] = processor[q]
  BY ProcessorStep DEF ServerInv
<1>7. \A q \in Processors : q # p => InWork(q)' = InWork(q) /\ Packet(q)' = Packet(q)
  BY <1>1, <1>6 DEF InWork, Packet
<1> QED
  BY <1>1, <1>3, <1>5, <1>7

\* A packet is in work until it is handled; an acknowledgement and the end of the loop
\* concern no packet in work.
LEMMA PacketsStay ==
  ASSUME ServerInv, NEW p \in Processors, ProcessBuffer(p),
         ProcessBegins(p) \/ DataRecd(p) \/ RangeEnds(p)
  PROVE  /\ UNCHANGED <<dataChan, bytes, nextPacket, accepted, handled, reader>>
         /\ \A q \in Processors :
              InWork(q)' = InWork(q) /\ (InWork(q) => Packet(q)' = Packet(q))
<1> USE DEF chan, pool, log, sock
<1>1. UNCHANGED <<dataChan, bytes, nextPacket, accepted, handled, reader>>
  BY DEF ProcessBuffer, ProcessBegins, DataRecd, RangeEnds
<1>2. \A q \in Processors : q # p => processor'[q] = processor[q]
  BY ProcessorStep DEF ServerInv
<1>3. InWork(p)' = InWork(p) /\ (InWork(p) => Packet(p)' = Packet(p))
  BY <1>1, ProcessorFields DEF ServerInv, InWork, Packet
<1> QED
  BY <1>1, <1>2, <1>3 DEF InWork, Packet

\* ProcessEnds adds the packet in work to those handled.
LEMMA ProcessHandles ==
  ASSUME ServerInv, NEW p \in Processors, ProcessBuffer(p), ProcessEnds(p)
  PROVE  /\ UNCHANGED <<dataChan, bytes, nextPacket, accepted, reader>>
         /\ InWork(p) /\ ~InWork(p)'
         /\ \A q \in Processors : q # p => InWork(q)' = InWork(q) /\ Packet(q)' = Packet(q)
         /\ \A i \in DOMAIN handled : i \in DOMAIN handled' /\ handled'[i] = handled[i]
         /\ \E last \in DOMAIN handled' :
              /\ last \notin DOMAIN handled /\ handled'[last] = Packet(p)
              /\ \A i \in DOMAIN handled' : i \in DOMAIN handled \/ i = last
<1> USE DEF chan, pool, log, sock
<1>1. UNCHANGED <<dataChan, bytes, nextPacket, accepted, reader>>
  BY DEF ProcessBuffer, ProcessEnds
<1>2. \A q \in Processors : q # p => processor'[q] = processor[q]
  BY ProcessorStep DEF ServerInv
<1>3. processor[p].pc = "processing" /\ processor'[p].pc = "ack"
  BY ProcessorFields DEF ServerInv
<1>4. InWork(p) /\ ~InWork(p)' /\ Packet(p) = processor[p].payload
  BY <1>3 DEF InWork, Packet, ReadWhole, ServerInv
<1>5. \A q \in Processors : q # p => InWork(q)' = InWork(q) /\ Packet(q)' = Packet(q)
  BY <1>1, <1>2 DEF InWork, Packet
<1>6. handled' = Append(handled, Packet(p)) /\ Packet(p) \in Nat /\ handled \in Seq(Nat)
  <2>1. handled' = Append(handled, IF bytes[processor[p].buf] = processor[p].payload
                                   THEN processor[p].payload ELSE 0)
    BY <1>3 DEF ProcessEnds
  <2>2. bytes[processor[p].buf] = processor[p].payload
    BY <1>4 DEF Packet
  <2>3. processor[p].payload \in Nat /\ handled \in Seq(Nat)
    BY DEF ServerInv, ServerTypeOK, ProcessorType, ProcessorStates, DataType
  <2> QED
    BY <1>4, <2>1, <2>2, <2>3
<1> HIDE DEF Packet
<1>7. /\ \A i \in DOMAIN handled : i \in DOMAIN handled' /\ handled'[i] = handled[i]
      /\ Len(handled) + 1 \in DOMAIN handled' /\ Len(handled) + 1 \notin DOMAIN handled
      /\ handled'[Len(handled) + 1] = Packet(p)
      /\ \A i \in DOMAIN handled' : i \in DOMAIN handled \/ i = Len(handled) + 1
  BY <1>6, AppendElements
<1> QED
  BY <1>1, <1>4, <1>5, <1>7

\* No step puts a packet at a second place.
LEMMA PlaceKept ==
  ASSUME ServerInv, [Next]_serverVars
  PROVE  OnePlace'
<1>1. OnePlace
  BY DEF ServerInv
<1>2. ASSUME Serve, ~Read, ~Send PROVE OnePlace'
  <2>1. /\ UNCHANGED <<dataChan, bytes, nextPacket, accepted, handled, processor>>
        /\ reader'.pc # "send" \/ reader' = reader
    BY <1>2, ReaderLeaves
  <2> QED
    BY <1>1, <2>1 DEF OnePlace, InWork, Packet, Handled, HandledOnce
<1>3. ASSUME Serve, Read PROVE OnePlace'
  <2>1. /\ UNCHANGED <<dataChan, accepted, handled, processor>>
        /\ reader'.buf = reader.buf /\ bytes'[reader.buf] = nextPacket
        /\ \A i \in DOMAIN dataChan : bytes'[dataChan[i]] = bytes[dataChan[i]]
        /\ \A p \in Processors : InWork(p) => Packet(p)' = Packet(p)
    BY <1>3, ReadFills
  <2>2. nextPacket \in Nat /\ nextPacket' = nextPacket + 1 /\ accepted \subseteq Nat
    BY <1>3, ReadFills DEF ServerInv, ServerTypeOK, DataType
  <2>3. \A x \in accepted : x < nextPacket
    BY <1>1 DEF OnePlace
  <2>4. \A x \in accepted : x < nextPacket'
    BY <2>2, <2>3
  <2>5. nextPacket < nextPacket' /\ nextPacket \notin accepted
    BY <2>2, <2>3
  <2>6. \A p \in Processors : InWork(p)' = InWork(p)
    BY <2>1 DEF InWork
  <2>7. \A x : Handled(x)' = Handled(x)
    BY <2>1 DEF Handled
  <2>8. HandledOnce'
    BY <1>1, <2>1 DEF OnePlace, HandledOnce
  <2> QED
    BY <1>1, <2>1, <2>4, <2>5, <2>6, <2>7, <2>8 DEF OnePlace
<1>4. ASSUME Serve, Send PROVE OnePlace'
  <2>1. /\ UNCHANGED <<bytes, nextPacket, handled, processor>>
        /\ reader.pc = "send" /\ reader'.pc = "count"
        /\ accepted' = accepted \cup {bytes[reader.buf]}
    BY <1>4, SendAppends
  <2>2. PICK last \in DOMAIN dataChan' :
          /\ last \notin DOMAIN dataChan /\ dataChan'[last] = reader.buf
          /\ \A i \in DOMAIN dataChan' : i \in DOMAIN dataChan \/ i = last
    BY <1>4, SendAppends
  <2>3. \A i \in DOMAIN dataChan : i \in DOMAIN dataChan' /\ dataChan'[i] = dataChan[i]
    BY <1>4, SendAppends
  <2> DEFINE x == bytes[reader.buf]
  <2>4. x < nextPacket /\ x \notin accepted
    BY <1>1, <2>1 DEF OnePlace
  <2>5. \A i \in DOMAIN dataChan : bytes[dataChan[i]] # x
    BY <1>1, <2>4 DEF OnePlace
  <2>6. \A p \in Processors : InWork(p) => Packet(p) # x
    BY <1>1, <2>4 DEF OnePlace
  <2>7. ~Handled(x)
    BY <1>1, <2>4 DEF OnePlace, HandledOnce, Handled
  <2>8. /\ \A p \in Processors : InWork(p)' = InWork(p) /\ Packet(p)' = Packet(p)
        /\ \A y : Handled(y)' = Handled(y)
    BY <2>1 DEF InWork, Packet, Handled
  <2>9. HandledOnce'
    BY <1>1, <2>1 DEF OnePlace, HandledOnce
  <2>10. \A i \in DOMAIN dataChan' :
           \/ i \in DOMAIN dataChan /\ bytes'[dataChan'[i]] = bytes[dataChan[i]]
           \/ i = last /\ bytes'[dataChan'[i]] = x
    BY <2>1, <2>2, <2>3
  <2> HIDE DEF x
  <2>11. accepted' = accepted \cup {x}
    BY <2>1 DEF x
  <2>12. \A i \in DOMAIN dataChan' :
           bytes'[dataChan'[i]] \in accepted' /\ ~Handled(bytes[dataChan[i]])'
    BY <1>1, <2>7, <2>8, <2>10, <2>11 DEF OnePlace
  <2>13. \A i, j \in DOMAIN dataChan' : i # j => bytes'[dataChan'[i]] # bytes'[dataChan'[j]]
    BY <1>1, <2>5, <2>10 DEF OnePlace
  <2>14. \A p \in Processors, i \in DOMAIN dataChan' :
           InWork(p)' => Packet(p)' # bytes'[dataChan'[i]]
    BY <1>1, <2>6, <2>8, <2>10 DEF OnePlace
  <2>15. \A y \in accepted' : y < nextPacket'
    BY <1>1, <2>1, <2>4, <2>11 DEF OnePlace
  <2>16. \A p \in Processors : InWork(p)' => Packet(p)' \in accepted' /\ ~Handled(Packet(p))'
    BY <1>1, <2>8, <2>11 DEF OnePlace
  <2>17. \A p, q \in Processors : p # q /\ InWork(p)' /\ InWork(q)' => Packet(p)' # Packet(q)'
    BY <1>1, <2>8 DEF OnePlace
  <2> QED
    BY <2>1, <2>9, <2>12, <2>13, <2>14, <2>15, <2>16, <2>17 DEF OnePlace
<1>5. ASSUME NEW p \in Processors, ProcessBuffer(p) PROVE OnePlace'
  <2>1. CASE Receive(p)
    <3>1. /\ UNCHANGED <<bytes, nextPacket, accepted, handled, reader>>
          /\ 1 \in DOMAIN dataChan /\ Packet(p)' = bytes[dataChan[1]]
          /\ \A q \in Processors : q # p => InWork(q)' = InWork(q) /\ Packet(q)' = Packet(q)
          /\ \A i \in DOMAIN dataChan' :
               i + 1 \in DOMAIN dataChan /\ i + 1 # 1 /\ dataChan'[i] = dataChan[i + 1]
          /\ \A i, j \in DOMAIN dataChan' : i # j => i + 1 # j + 1
      BY <1>5, <2>1, ReceiveTakes
    <3>2. \A i \in DOMAIN dataChan' :
            bytes'[dataChan'[i]] \in accepted' /\ ~Handled(bytes[dataChan[i]])'
      BY <1>1, <3>1 DEF OnePlace, Handled
    <3>3. \A i, j \in DOMAIN dataChan' : i # j => bytes'[dataChan'[i]] # bytes'[dataChan'[j]]
      BY <1>1, <3>1 DEF OnePlace
    <3>4. \A q \in Processors : InWork(q)' => Packet(q)' \in accepted' /\ ~Handled(Packet(q))'
      BY <1>1, <3>1 DEF OnePlace, Handled
    <3>5. \A q, r \in Processors : q # r /\ InWork(q)' /\ InWork(r)' => Packet(q)' # Packet(r)'
      BY <1>1, <3>1 DEF OnePlace
    <3>6. \A q \in Processors, i \in DOMAIN dataChan' :
            InWork(q)' => Packet(q)' # bytes'[dataChan'[i]]
      BY <1>1, <3>1 DEF OnePlace
    <3>7. HandledOnce'
      BY <1>1, <3>1 DEF OnePlace, HandledOnce
    <3> QED
      BY <1>1, <3>1, <3>2, <3>3, <3>4, <3>5, <3>6, <3>7 DEF OnePlace, Handled
  <2>2. CASE ProcessBegins(p) \/ DataRecd(p) \/ RangeEnds(p)
    <3>1. /\ UNCHANGED <<dataChan, bytes, nextPacket, accepted, handled, reader>>
          /\ \A q \in Processors :
               InWork(q)' = InWork(q) /\ (InWork(q) => Packet(q)' = Packet(q))
      BY <1>5, <2>2, PacketsStay
    <3> QED
      BY <1>1, <3>1 DEF OnePlace, Handled, HandledOnce
  <2>3. CASE ProcessEnds(p)
    <3>1. /\ UNCHANGED <<dataChan, bytes, nextPacket, accepted, reader>>
          /\ InWork(p) /\ ~InWork(p)'
          /\ \A q \in Processors : q # p => InWork(q)' = InWork(q) /\ Packet(q)' = Packet(q)
      BY <1>5, <2>3, ProcessHandles
    <3>2. PICK last \in DOMAIN handled' :
            /\ last \notin DOMAIN handled /\ handled'[last] = Packet(p)
            /\ \A i \in DOMAIN handled' : i \in DOMAIN handled \/ i = last
      BY <1>5, <2>3, ProcessHandles
    <3>3. \A i \in DOMAIN handled : i \in DOMAIN handled' /\ handled'[i] = handled[i]
      BY <1>5, <2>3, ProcessHandles
    <3>4. \A y : Handled(y)' <=> Handled(y) \/ y = Packet(p)
      BY <3>2, <3>3 DEF Handled
    <3>5. Packet(p) \in accepted /\ ~Handled(Packet(p))
      BY <1>1, <3>1 DEF OnePlace
    <3>6. HandledOnce'
      BY <1>1, <3>1, <3>2, <3>3, <3>5 DEF OnePlace, HandledOnce, Handled
    <3>7. \A i \in DOMAIN dataChan : ~Handled(bytes[dataChan[i]])'
      BY <1>1, <3>1, <3>4 DEF OnePlace
    <3>8. \A q \in Processors : InWork(q)' => ~Handled(Packet(q))'
      BY <1>1, <3>1, <3>4 DEF OnePlace
    <3> HIDE DEF Packet, InWork, Handled
    <3> QED
      BY <1>1, <3>1, <3>6, <3>7, <3>8 DEF OnePlace
  <2> QED
    BY <1>5, <2>1, <2>2, <2>3 DEF ProcessBuffer
<1>6. CASE StopServing \/ StopContinues \/ UNCHANGED serverVars
  <2>1. UNCHANGED <<dataChan, bytes, nextPacket, accepted, handled, reader, processor>>
    BY <1>6, StopLeaves
  <2> QED
    BY <1>1, <2>1 DEF OnePlace, InWork, Packet, Handled, HandledOnce
<1> QED
  BY <1>2, <1>3, <1>4, <1>5, <1>6 DEF Next

\* No step writes to a buffer that is being read.
LEMMA ReadWholeKept ==
  ASSUME ServerInv, [Next]_serverVars
  PROVE  ReadWhole'
<1>1. ReadWhole
  BY DEF ServerInv
<1>2. ASSUME Serve, Read PROVE ReadWhole'
  <2>1. /\ processor' = processor
        /\ \A p \in Processors : InWork(p) => Packet(p)' = Packet(p)
    BY <1>2, ReadFills
  <2> QED
    BY <1>1, <2>1 DEF ReadWhole, InWork, Packet
<1>3. ASSUME UNCHANGED <<bytes, processor>> PROVE ReadWhole'
  BY <1>1, <1>3 DEF ReadWhole
<1>4. ASSUME NEW p \in Processors, ProcessBuffer(p) PROVE ReadWhole'
  <2>1. /\ \A q \in Processors : q # p => processor'[q] = processor[q]
        /\ processor'[p].pc = "processing" => ProcessBegins(p)
    BY <1>4, ProcessorStep, ProcessorFields DEF ServerInv, ProcessBuffer
  <2>2. bytes' = bytes
    BY <1>4 DEF ProcessBuffer, Receive, ProcessBegins, ProcessEnds, DataRecd, RangeEnds, pool
  <2>3. ASSUME ProcessBegins(p) PROVE processor'[p].payload = bytes'[processor'[p].buf]
    BY <1>4, <2>2, <2>3, ProcessorFields DEF ServerInv
  <2> QED
    BY <1>1, <2>1, <2>2, <2>3 DEF ReadWhole
<1>5. CASE Serve /\ ~Read /\ ~Send
  BY <1>3, <1>5, ReaderLeaves
<1>6. CASE Serve /\ Send
  BY <1>3, <1>6, SendAppends
<1>7. CASE StopServing \/ StopContinues \/ UNCHANGED serverVars
  BY <1>3, <1>7, StopLeaves
<1> QED
  BY <1>2, <1>4, <1>5, <1>6, <1>7 DEF Next

\* No step loses an accepted packet.
LEMMA LostKept ==
  ASSUME ServerInv, [Next]_serverVars
  PROVE  NoneLost'
<1>1. NoneLost
  BY DEF ServerInv
<1>2. ASSUME Serve, ~Read, ~Send PROVE NoneLost'
  <2>1. UNCHANGED <<dataChan, bytes, accepted, handled, processor>>
    BY <1>2, ReaderLeaves
  <2> QED
    BY <1>1, <2>1 DEF NoneLost, InWork, Packet, Handled
<1>3. ASSUME Serve, Read PROVE NoneLost'
  <2>1. /\ UNCHANGED <<dataChan, accepted, handled, processor>>
        /\ \A i \in DOMAIN dataChan : bytes'[dataChan[i]] = bytes[dataChan[i]]
        /\ \A p \in Processors : InWork(p) => Packet(p)' = Packet(p)
    BY <1>3, ReadFills
  <2>2. /\ \A p \in Processors : InWork(p)' = InWork(p)
        /\ \A x : Handled(x)' = Handled(x)
    BY <2>1 DEF InWork, Handled
  <2> QED
    BY <1>1, <2>1, <2>2 DEF NoneLost
<1>4. ASSUME Serve, Send PROVE NoneLost'
  <2>1. /\ UNCHANGED <<bytes, handled, processor>>
        /\ accepted' = accepted \cup {bytes[reader.buf]}
        /\ \A i \in DOMAIN dataChan : i \in DOMAIN dataChan' /\ dataChan'[i] = dataChan[i]
        /\ \E last \in DOMAIN dataChan' : dataChan'[last] = reader.buf
    BY <1>4, SendAppends
  <2>2. \A p \in Processors : InWork(p)' = InWork(p) /\ Packet(p)' = Packet(p)
    BY <2>1 DEF InWork, Packet
  <2>3. \A x : Handled(x)' = Handled(x)
    BY <2>1 DEF Handled
  <2> QED
    BY <1>1, <2>1, <2>2, <2>3 DEF NoneLost
<1>5. ASSUME NEW p \in Processors, ProcessBuffer(p) PROVE NoneLost'
  <2>1. CASE Receive(p)
    <3>1. /\ UNCHANGED <<bytes, accepted, handled>>
          /\ ~InWork(p) /\ InWork(p)' /\ Packet(p)' = bytes[dataChan[1]]
          /\ \A q \in Processors : q # p => InWork(q)' = InWork(q) /\ Packet(q)' = Packet(q)
          /\ \A i \in DOMAIN dataChan :
               i = 1 \/ (i - 1 \in DOMAIN dataChan' /\ dataChan'[i - 1] = dataChan[i])
      BY <1>5, <2>1, ReceiveTakes
    <3>2. \A x : Handled(x)' = Handled(x)
      BY <3>1 DEF Handled
    <3> QED
      BY <1>1, <3>1, <3>2 DEF NoneLost
  <2>2. CASE ProcessBegins(p) \/ DataRecd(p) \/ RangeEnds(p)
    <3>1. /\ UNCHANGED <<dataChan, bytes, accepted, handled>>
          /\ \A q \in Processors :
               InWork(q)' = InWork(q) /\ (InWork(q) => Packet(q)' = Packet(q))
      BY <1>5, <2>2, PacketsStay
    <3>2. \A x : Handled(x)' = Handled(x)
      BY <3>1 DEF Handled
    <3> QED
      BY <1>1, <3>1, <3>2 DEF NoneLost
  <2>3. CASE ProcessEnds(p)
    <3>1. /\ UNCHANGED <<dataChan, bytes, accepted>>
          /\ \A q \in Processors : q # p => InWork(q)' = InWork(q) /\ Packet(q)' = Packet(q)
          /\ \A i \in DOMAIN handled : i \in DOMAIN handled' /\ handled'[i] = handled[i]
          /\ \E last \in DOMAIN handled' : handled'[last] = Packet(p)
      BY <1>5, <2>3, ProcessHandles
    <3>2. \A x : Handled(x) \/ x = Packet(p) => Handled(x)'
      BY <3>1 DEF Handled
    <3> QED
      BY <1>1, <3>1, <3>2 DEF NoneLost
  <2> QED
    BY <1>5, <2>1, <2>2, <2>3 DEF ProcessBuffer
<1>6. CASE StopServing \/ StopContinues \/ UNCHANGED serverVars
  <2>1. UNCHANGED <<dataChan, bytes, accepted, handled, processor>>
    BY <1>6, StopLeaves
  <2> QED
    BY <1>1, <2>1 DEF NoneLost, InWork, Packet, Handled
<1> QED
  BY <1>2, <1>3, <1>4, <1>5, <1>6 DEF Next

-----------------------------------------------------------------------------
\* The inductive invariant of the server.
THEOREM ServerInvariant == Spec => []ServerInv
<1>1. Init => ServerInv
  BY ServerInit
<1>2. ServerInv /\ [Next]_serverVars => ServerInv'
  <2> SUFFICES ASSUME ServerInv, [Next]_serverVars PROVE ServerInv'
    OBVIOUS
  <2>1. ServerTypeOK'
    BY ServerTypes DEF ServerInv
  <2> QED
    BY <2>1, HolderKept, PlaceKept, ReadWholeKept, LostKept, DrainedKept DEF ServerInv
<1> QED
  BY <1>1, <1>2, PTL DEF Spec

\* Every packet a processor handles was accepted and is handled once, whatever the
\* number of processors and however often a buffer is used again
\* (tbuffered_server.go:85-130, thrift_processor.go:111-125).
THEOREM PacketsHandledOnce == Spec => []HandledOnce
<1>1. ServerInv => HandledOnce
  BY DEF ServerInv, OnePlace
<1> QED
  BY <1>1, ServerInvariant, PTL

\* When Stop has returned, every packet the reader has accepted was handled, also the
\* packets it accepted while Stop ran (thrift_processor.go:100-108).
THEOREM StopDrainsQueue == Spec => []StopDrains
<1>1. ServerInv => StopDrains
  <2> SUFFICES ASSUME ServerInv, stopPc = "returned"
               PROVE  accepted = {handled[i] : i \in DOMAIN handled}
    BY DEF StopDrains
  <2>1. \A p \in Processors : processor[p].pc = "done"
    BY DEF ServerInv, EndsDrained
  <2>2. dataChan = <<>>
    BY <2>1, AgentAssumption DEF ServerInv, EndsDrained
  <2>3. \A p \in Processors : ~InWork(p)
    BY <2>1 DEF InWork
  <2>4. DOMAIN dataChan = {}
    BY <2>2
  <2>5. \A x \in accepted : \E i \in DOMAIN handled : handled[i] = x
    BY <2>3, <2>4 DEF ServerInv, NoneLost, Handled
  <2>6. \A i \in DOMAIN handled : handled[i] \in accepted
    BY DEF ServerInv, OnePlace, HandledOnce
  <2> QED
    BY <2>5, <2>6
<1> QED
  BY <1>1, ServerInvariant, PTL

-----------------------------------------------------------------------------
(***************************************************************************)
(* The counter of queued packets.                                          *)
(***************************************************************************)
Busy == {p \in Processors : processor[p].buf # 0}

LEMMA BusyFinite ==
  /\ IsFiniteSet(Busy) /\ Cardinality(Busy) \in Nat
  /\ \A p \in Processors \ Busy : Cardinality(Busy \cup {p}) = Cardinality(Busy) + 1
  /\ \A p \in Busy : Cardinality(Busy \ {p}) = Cardinality(Busy) - 1
<1>1. IsFiniteSet(Busy)
  BY AgentAssumption, FS_Subset DEF Busy
<1>2. Cardinality(Busy) \in Nat
  BY <1>1, FS_CardinalityType
<1>3. \A p \in Processors \ Busy : Cardinality(Busy \cup {p}) = Cardinality(Busy) + 1
  BY <1>1, FS_AddElement
<1>4. \A p \in Busy : Cardinality(Busy \ {p}) = Cardinality(Busy) - 1
  BY <1>1, FS_RemoveElement
<1> QED
  BY <1>1, <1>2, <1>3, <1>4

Uncounted == IF reader.pc = "count" THEN 1 ELSE 0
Counts == queueSize = Len(dataChan) + Cardinality(Busy) - Uncounted

\* What a step adds to the queue, to the work or to the counter balances.
LEMMA CountKept ==
  ASSUME ServerInv, Counts, [Next]_serverVars
  PROVE  Counts'
<1> USE DEF chan, pool, log, sock
<1>1. /\ ServerTypeOK /\ dataChan \in Seq(Buffers) /\ Cardinality(Busy) \in Nat
      /\ reader \in [pc : ReaderPcs, buf : Buffers \cup {0}]
  BY BusyFinite DEF ServerInv, ServerTypeOK, DataType, ReaderType
<1>2. Len(dataChan) \in Nat /\ queueSize = Len(dataChan) + Cardinality(Busy) - Uncounted
  BY <1>1 DEF Counts
<1>3. CASE Serve
  <2>1. Busy' = Busy
    BY <1>3 DEF Serve, Busy
  <2>2. CASE ServeStarts \/ ServeTests \/ (\E b \in Buffers : GetBuffer(b)) \/ Read \/ ReadFails \/ Drop \/ SendPanics
    <3>1. UNCHANGED <<dataChan, queueSize>>
      BY <2>2 DEF ServeStarts, ServeTests, GetBuffer, Read, ReadFails, Drop, SendPanics
    <3>2. reader.pc # "count" /\ reader'.pc # "count"
      <4>1. CASE ServeStarts \/ ServeTests \/ Read
        <5>1. \E pc \in {"test", "get", "exit", "send"} :
                reader' = [reader EXCEPT !.pc = pc] /\ reader.pc # "count"
          BY <4>1 DEF ServeStarts, ServeTests, Read, At, GoTo
        <5> QED
          BY <1>1, <5>1
      <4>2. CASE (\E b \in Buffers : GetBuffer(b)) \/ ReadFails \/ Drop
        BY <4>2 DEF GetBuffer, ReadFails, Drop, Abandon, At
      <4>3. CASE SendPanics
        BY <4>3 DEF SendPanics, At
      <4> QED
        BY <2>2, <4>1, <4>2, <4>3
    <3> QED
      BY <1>2, <2>1, <3>1, <3>2 DEF Counts, Uncounted
  <2>3. CASE Send
    <3>1. /\ reader.pc = "send" /\ reader'.pc = "count" /\ queueSize' = queueSize
          /\ dataChan' = Append(dataChan, reader.buf) /\ reader.buf \in Buffers
      BY <2>3 DEF Send, At, ServerInv, ServerTypeOK, ReaderType
    <3>2. Len(dataChan') = Len(dataChan) + 1
      BY <1>1, <3>1
    <3>3. Uncounted = 0 /\ Uncounted' = 1
      BY <3>1 DEF Uncounted
    <3>4. Cardinality(Busy)' = Cardinality(Busy)
      BY <2>1
    <3> HIDE DEF Uncounted, Busy
    <3> QED
      BY <1>1, <1>2, <3>1, <3>2, <3>3, <3>4 DEF Counts
  <2>4. CASE CountQueued
    <3>1. reader.pc = "count" /\ queueSize' = queueSize + 1 /\ UNCHANGED dataChan
      BY <2>4 DEF CountQueued, At
    <3>2. reader'.pc = "test"
      BY <1>1, <2>4 DEF CountQueued, GoTo
    <3>3. Uncounted = 1 /\ Uncounted' = 0
      BY <3>1, <3>2 DEF Uncounted
    <3>4. Cardinality(Busy)' = Cardinality(Busy)
      BY <2>1
    <3> QED
      BY <1>1, <1>2, <3>1, <3>3, <3>4 DEF Counts
  <2> QED
    BY <1>3, <2>2, <2>3, <2>4 DEF Serve
<1>4. ASSUME NEW p \in Processors, ProcessBuffer(p) PROVE Counts'
  <2>1. /\ reader' = reader /\ Uncounted' = Uncounted
        /\ \A q \in Processors : q # p => processor'[q] = processor[q]
    BY <1>1, <1>4, ProcessorStep DEF ProcessBuffer, Uncounted
  <2>2. Uncounted \in Nat
    BY DEF Uncounted
  <2>3. processor[p].buf # 0 <=> processor[p].pc \in {"process", "processing", "ack"}
    BY <1>1 DEF ServerTypeOK, ProcessorType
  <2>4. CASE Receive(p)
    <3>1. dataChan # <<>> /\ dataChan' = Tail(dataChan) /\ queueSize' = queueSize
      BY <2>4 DEF Receive, Takes
    <3>2. processor[p].buf = 0 /\ processor'[p].buf # 0
      <4>1. Head(dataChan) \in Buffers
        BY <1>1, <3>1
      <4> QED
        BY <1>1, <1>4, <2>3, <2>4, <4>1, AgentAssumption, ProcessorFields
    <3>3. Busy' = Busy \cup {p} /\ p \in Processors \ Busy
      BY <2>1, <3>2 DEF Busy
    <3>4. Cardinality(Busy)' = Cardinality(Busy) + 1
      BY <3>3, BusyFinite
    <3>5. Len(dataChan') = Len(dataChan) - 1
      BY <1>1, <3>1
    <3> HIDE DEF Uncounted, Busy
    <3> QED
      BY <1>1, <1>2, <2>1, <2>2, <3>1, <3>4, <3>5 DEF Counts
  <2>5. CASE ProcessBegins(p) \/ ProcessEnds(p) \/ RangeEnds(p)
    <3>1. UNCHANGED <<dataChan, queueSize>>
      BY <2>5 DEF ProcessBegins, ProcessEnds, RangeEnds
    <3>2. processor'[p].buf = processor[p].buf
      BY <1>1, <1>4, <2>5, ProcessorFields
    <3>3. Busy' = Busy
      BY <2>1, <3>2 DEF Busy
    <3>4. Cardinality(Busy)' = Cardinality(Busy)
      BY <3>3
    <3> QED
      BY <1>2, <2>1, <3>1, <3>4 DEF Counts
  <2>6. CASE DataRecd(p)
    <3>1. dataChan' = dataChan /\ queueSize' = queueSize - 1
      BY <2>6 DEF DataRecd
    <3>2. processor[p].buf # 0 /\ processor'[p].buf = 0
      BY <1>1, <1>4, <2>3, <2>6, ProcessorFields
    <3>3. Busy' = Busy \ {p} /\ p \in Busy
      BY <2>1, <3>2 DEF Busy
    <3>4. Cardinality(Busy)' = Cardinality(Busy) - 1
      BY <3>3, BusyFinite
    <3> HIDE DEF Uncounted, Busy
    <3> QED
      BY <1>1, <1>2, <2>1, <2>2, <3>1, <3>4 DEF Counts
  <2> QED
    BY <1>4, <2>4, <2>5, <2>6 DEF ProcessBuffer
<1>5. CASE StopServing \/ StopContinues \/ UNCHANGED serverVars
  <2>1. UNCHANGED <<dataChan, queueSize, reader, processor>>
    BY <1>5 DEF StopServing, StopContinues, CloseTransport, CloseChannel, StopReturns, serverVars
  <2>2. Busy' = Busy /\ Uncounted' = Uncounted
    BY <2>1 DEF Busy, Uncounted
  <2> QED
    BY <1>2, <2>1, <2>2 DEF Counts
<1> QED
  BY <1>3, <1>4, <1>5 DEF Next

\* The counter the server reports is the number of packets queued or in work, less the
\* one that is sent and not yet counted (tbuffered_server.go:93, 128): the counter
\* is changed after the channel, by two goroutines, and never drifts.
THEOREM CounterNeverDrifts == Spec => []QueueSizeCounts
<1>1. Init => Counts
  <2>1. Init => dataChan = <<>> /\ queueSize = 0 /\ reader.pc = "start" /\ Busy = {}
    BY DEF Init, Busy
  <2>2. Cardinality({}) = 0
    BY FS_EmptySet
  <2> QED
    BY <2>1, <2>2 DEF Counts, Uncounted
<1>2. ServerInv /\ Counts /\ [Next]_serverVars => Counts'
  BY CountKept
<1>3. Counts => QueueSizeCounts
  BY DEF Counts, Uncounted, Busy, QueueSizeCounts
<1> QED
  BY <1>1, <1>2, <1>3, ServerInvariant, PTL DEF Spec
-----------------------------------------------------------------------------
(***************************************************************************)
(* The server implements a tail-drop queue of packets.                     *)
(***************************************************************************)
\* Invariant: the packets read are numbered from 1 on, in the order of the socket.
Numbered ==
  /\ nextPacket \in 1..(NumPackets + 1)
  /\ \A x \in accepted : x >= 1
  /\ reader.pc = "send" => bytes[reader.buf] >= 1

LEMMA NumberedKept ==
  ASSUME ServerInv, Numbered, [Next]_serverVars
  PROVE  Numbered'
<1> USE DEF chan, pool, log, sock
<1>1. CASE Serve /\ Read
  <2>1. /\ UNCHANGED accepted /\ reader'.buf = reader.buf
        /\ bytes'[reader.buf] = nextPacket /\ nextPacket' = nextPacket + 1
    BY <1>1, ReadFills
  <2>2. nextPacket <= NumPackets
    BY <1>1 DEF Read
  <2> QED
    BY <2>1, <2>2, AgentAssumption DEF Numbered
<1>2. CASE Serve /\ Send
  <2>1. /\ UNCHANGED nextPacket /\ accepted' = accepted \cup {bytes[reader.buf]}
        /\ reader.pc = "send" /\ reader'.pc = "count"
    BY <1>2, SendAppends
  <2> QED
    BY <2>1 DEF Numbered
<1>3. CASE Serve /\ ~Read /\ ~Send
  <2>1. UNCHANGED <<bytes, nextPacket, accepted>> /\ (reader'.pc # "send" \/ reader' = reader)
    BY <1>3, ReaderLeaves
  <2> QED
    BY <2>1 DEF Numbered
<1>4. ASSUME NEW p \in Processors, ProcessBuffer(p) PROVE Numbered'
  <2>1. UNCHANGED <<bytes, nextPacket, accepted, reader>>
    BY <1>4 DEF ProcessBuffer, Receive, ProcessBegins, ProcessEnds, DataRecd, RangeEnds
  <2> QED
    BY <2>1 DEF Numbered
<1>5. CASE StopServing \/ StopContinues \/ UNCHANGED serverVars
  <2>1. UNCHANGED <<bytes, nextPacket, accepted, reader>>
    BY <1>5, StopLeaves
  <2> QED
    BY <2>1 DEF Numbered
<1> QED
  BY <1>1, <1>2, <1>3, <1>4, <1>5 DEF Next

\* The packets in the channel, and those that have left it or were dropped.
InChannel == {Queued[i] : i \in DOMAIN Queued}
Delivered == accepted \ InChannel
Lost == (1..(nextPacket - 1)) \ (accepted \cup InHand)

LEMMA QueuedIs ==
  ASSUME ServerInv
  PROVE  /\ dataChan \in Seq(Buffers) /\ Queued \in Seq(Nat) /\ Len(Queued) = Len(dataChan)
         /\ DOMAIN Queued = DOMAIN dataChan
         /\ \A i \in DOMAIN dataChan : Queued[i] = bytes[dataChan[i]]
         /\ InChannel \subseteq accepted
<1>1. dataChan \in Seq(Buffers) /\ bytes \in [Buffers -> Nat]
  BY DEF ServerInv, ServerTypeOK, DataType
<1>2. \A i \in 1..Len(dataChan) : bytes[dataChan[i]] \in Nat
  BY <1>1
<1>3. DOMAIN dataChan = 1..Len(dataChan) /\ Len(dataChan) \in Nat
  BY <1>1
<1>4. Queued = [i \in 1..Len(dataChan) |-> bytes[dataChan[i]]]
  BY <1>3 DEF Queued
<1>5. Queued \in Seq(Nat) /\ Len(Queued) = Len(dataChan)
  BY <1>2, <1>3, <1>4
<1>6. InChannel \subseteq accepted
  BY DEF InChannel, Queued, ServerInv, OnePlace
<1> QED
  BY <1>1, <1>3, <1>4, <1>5, <1>6

\* The packet the reader is about to send is none of those the queue knows.
LEMMA HandIsFresh ==
  ASSUME ServerInv, Numbered, reader.pc = "send"
  PROVE  /\ InHand = {bytes[reader.buf]}
         /\ bytes[reader.buf] \in Nat
         /\ bytes[reader.buf] \in 1..NumPackets /\ bytes[reader.buf] \in 1..(nextPacket - 1)
         /\ bytes[reader.buf] \notin accepted
         /\ bytes[reader.buf] \in Queue!Fresh
<1> DEFINE x == bytes[reader.buf]
<1>1. reader.buf \in Buffers
  BY DEF ServerInv, ServerTypeOK, ReaderType
<1>2. x \in Nat /\ nextPacket \in Nat
  BY <1>1 DEF ServerInv, ServerTypeOK, DataType
<1>3. x < nextPacket /\ x \notin accepted
  BY DEF ServerInv, OnePlace
<1>4. x >= 1 /\ nextPacket <= NumPackets + 1
  BY AgentAssumption DEF Numbered
<1>5. InHand = {x}
  BY DEF InHand
<1> HIDE DEF x
<1>6. x \in 1..NumPackets /\ x \in 1..(nextPacket - 1)
  BY <1>2, <1>3, <1>4, AgentAssumption
<1>7. x \in Queue!Fresh
  BY <1>3, <1>5, <1>6, QueuedIs DEF Queue!Fresh, Queue!Queued, InChannel
<1> QED
  BY <1>2, <1>3, <1>5, <1>6, <1>7 DEF x

\* What the abstract queue sees of a step that leaves it alone.
LEMMA QueueAlone ==
  ASSUME Queued' = Queued, accepted' = accepted, Lost' = Lost, UNCHANGED chanClosed
  PROVE  UNCHANGED Queue!lossyVars
<1>1. Delivered' = Delivered
  BY DEF Delivered, InChannel
<1> QED
  BY <1>1 DEF Queue!lossyVars, Delivered, Lost, InChannel

LEMMA ServeMaps ==
  ASSUME ServerInv, Numbered, Serve
  PROVE  [Queue!Next]_(Queue!lossyVars)
<1> USE DEF chan, pool, log, sock
<1> DEFINE x == bytes[reader.buf]
<1>1. CASE Read
  <2>1. /\ UNCHANGED <<dataChan, accepted>> /\ reader'.pc = "send" /\ reader'.buf = reader.buf
        /\ bytes'[reader.buf] = nextPacket /\ nextPacket' = nextPacket + 1 /\ nextPacket \in Nat
        /\ \A i \in DOMAIN dataChan : bytes'[dataChan[i]] = bytes[dataChan[i]]
    BY <1>1, ReadFills
  <2>2. Queued' = Queued
    BY <2>1 DEF Queued
  <2>3. reader.pc = "read" /\ UNCHANGED chanClosed
    BY <1>1 DEF Read, At
  <2>4. InHand = {} /\ InHand' = {nextPacket}
    BY <2>1, <2>3 DEF InHand
  <2>5. \A y \in accepted : y < nextPacket
    BY DEF ServerInv, OnePlace
  <2>6. Lost' = Lost
    BY <2>1, <2>4, <2>5 DEF Lost
  <2> QED
    BY <2>1, <2>2, <2>3, <2>6, QueueAlone
<1>2. CASE Send
  <2>1. /\ UNCHANGED <<bytes, nextPacket>> /\ reader.pc = "send" /\ reader'.pc = "count"
        /\ accepted' = accepted \cup {x}
    BY <1>2, SendAppends
  <2>2. dataChan' = Append(dataChan, reader.buf) /\ Len(dataChan) < maxQueueSize
        /\ UNCHANGED chanClosed
    BY <1>2 DEF Send
  <2>3. reader.buf \in Buffers
    BY <2>1 DEF ServerInv, ServerTypeOK, ReaderType
  <2>4. x \in 1..NumPackets /\ x \in Nat /\ x \notin accepted /\ x \in Queue!Fresh /\ InHand = {x}
    BY <2>1, HandIsFresh
  <2> HIDE DEF x
  <2>5. Queued' = Append(Queued, x)
    <3>1. /\ dataChan \in Seq(Buffers) /\ Queued \in Seq(Nat) /\ Len(Queued) = Len(dataChan)
          /\ \A i \in DOMAIN dataChan : Queued[i] = bytes[dataChan[i]]
      BY QueuedIs
    <3>2. DOMAIN dataChan' = 1..(Len(dataChan) + 1)
      BY <2>2, <2>3, <3>1
    <3>3. /\ \A i \in 1..Len(dataChan) : dataChan'[i] = dataChan[i]
          /\ dataChan'[Len(dataChan) + 1] = reader.buf
      BY <2>2, <2>3, <3>1
    <3>4. Queued' = [i \in 1..(Len(dataChan) + 1) |-> bytes[dataChan'[i]]]
      BY <2>1, <3>2 DEF Queued
    <3>5. \A i \in 1..(Len(dataChan) + 1) :
            bytes[dataChan'[i]] \in Nat /\ bytes[dataChan'[i]] = Append(Queued, x)[i]
      <4>1. ASSUME NEW i \in 1..Len(dataChan)
            PROVE  bytes[dataChan'[i]] \in Nat /\ bytes[dataChan'[i]] = Append(Queued, x)[i]
        <5>1. i \in DOMAIN dataChan /\ i \in 1..Len(Queued)
          BY <3>1
        <5>2. bytes[dataChan'[i]] = Queued[i]
          BY <3>1, <3>3, <5>1
        <5>3. Queued[i] \in Nat
          BY <3>1, <5>1
        <5>4. Append(Queued, x)[i] = Queued[i]
          BY <2>4, <3>1, <5>1, AppendProperties
        <5> QED
          BY <5>2, <5>3, <5>4
      <4>2. /\ bytes[dataChan'[Len(dataChan) + 1]] = x
            /\ Append(Queued, x)[Len(dataChan) + 1] = x
        BY <2>4, <3>1, <3>3, AppendProperties DEF x
      <4>3. \A i \in 1..(Len(dataChan) + 1) : i \in 1..Len(dataChan) \/ i = Len(dataChan) + 1
        BY <3>1
      <4> QED
        BY <2>4, <4>1, <4>2, <4>3
    <3>6. Queued' \in Seq(Nat) /\ Len(Queued') = Len(dataChan) + 1
      BY <3>1, <3>4, <3>5
    <3>7. Append(Queued, x) \in Seq(Nat) /\ Len(Append(Queued, x)) = Len(dataChan) + 1
      BY <2>4, <3>1, AppendProperties
    <3>8. \A i \in 1..Len(Queued') : Queued'[i] = Append(Queued, x)[i]
      BY <3>4, <3>5, <3>6
    <3> QED
      BY <3>6, <3>7, <3>8, SeqEqual
  <2>6. InChannel' = InChannel \cup {x}
    <3>1. Queued \in Seq(Nat)
      BY QueuedIs
    <3>2. /\ \A i \in DOMAIN Queued : i \in DOMAIN Queued' /\ Queued'[i] = Queued[i]
          /\ Len(Queued) + 1 \in DOMAIN Queued' /\ Queued'[Len(Queued) + 1] = x
          /\ \A i \in DOMAIN Queued' : i \in DOMAIN Queued \/ i = Len(Queued) + 1
      BY <2>4, <2>5, <3>1, AppendElements
    <3> QED
      BY <3>2 DEF InChannel
  <2>7. Delivered' = Delivered
    BY <2>1, <2>4, <2>6 DEF Delivered
  <2>8. Lost' = Lost
    <3>1. InHand' = {}
      BY <2>1 DEF InHand
    <3> QED
      BY <2>1, <2>4, <3>1 DEF Lost
  <2>9. Queue!Accept(x)
    BY <2>2, <2>4, <2>5, <2>7, <2>8, QueuedIs DEF Queue!Accept, Delivered, Lost, InChannel
  <2> QED
    BY <2>4, <2>9 DEF Queue!Next
<1>3. CASE Drop
  <2>1. /\ UNCHANGED <<dataChan, chanClosed, bytes, nextPacket, accepted>>
        /\ reader.pc = "send" /\ reader'.pc = "test" /\ Len(dataChan) = maxQueueSize
    BY <1>3 DEF Drop, At, Abandon
  <2>2. /\ x \in 1..NumPackets /\ x \in 1..(nextPacket - 1) /\ x \notin accepted
        /\ x \in Queue!Fresh /\ InHand = {x}
    BY <2>1, HandIsFresh
  <2> HIDE DEF x
  <2>3. Queued' = Queued
    BY <2>1 DEF Queued
  <2>4. Delivered' = Delivered
    BY <2>1, <2>3 DEF Delivered, InChannel
  <2>5. Lost' = Lost \cup {x}
    <3>1. InHand' = {}
      BY <2>1 DEF InHand
    <3> QED
      BY <2>1, <2>2, <3>1 DEF Lost
  <2>6. Queue!Drop(x)
    BY <2>1, <2>2, <2>3, <2>4, <2>5, QueuedIs DEF Queue!Drop, Delivered, Lost, InChannel
  <2> QED
    BY <2>2, <2>6 DEF Queue!Next
<1>4. CASE ~Read /\ ~Send /\ ~Drop
  <2>1. UNCHANGED <<dataChan, bytes, nextPacket, accepted>>
    BY <1>4, ReaderLeaves
  <2>2. UNCHANGED chanClosed
    BY <1>4 DEF Serve, ServeStarts, ServeTests, GetBuffer, ReadFails, SendPanics, CountQueued
  <2>3. reader.pc # "send" \/ reader' = reader
    BY <1>4 DEF Serve, ServeStarts, ServeTests, GetBuffer, ReadFails, SendPanics, CountQueued, At
  <2>4. reader'.pc # "send" \/ reader' = reader
    BY <1>4, ReaderLeaves
  <2>5. InHand' = InHand
    BY <2>1, <2>3, <2>4 DEF InHand
  <2>6. Queued' = Queued /\ Lost' = Lost
    BY <2>1, <2>5 DEF Queued, Lost
  <2> QED
    BY <2>1, <2>2, <2>6, QueueAlone
<1> QED
  BY <1>1, <1>2, <1>3, <1>4

LEMMA ProcessorMaps ==
  ASSUME ServerInv, NEW p \in Processors, ProcessBuffer(p)
  PROVE  [Queue!Next]_(Queue!lossyVars)
<1> USE DEF chan, pool, log, sock
<1>1. UNCHANGED <<bytes, nextPacket, accepted, reader, chanClosed>>
  BY DEF ProcessBuffer, Receive, ProcessBegins, ProcessEnds, DataRecd, RangeEnds
<1>2. Lost' = Lost
  BY <1>1 DEF Lost, InHand
<1>3. CASE Receive(p)
  <2>1. dataChan # <<>> /\ dataChan' = Tail(dataChan)
    BY <1>3 DEF Receive, Takes
  <2>2. /\ dataChan \in Seq(Buffers) /\ Queued \in Seq(Nat) /\ Len(Queued) = Len(dataChan)
        /\ DOMAIN Queued = DOMAIN dataChan
        /\ \A i \in DOMAIN dataChan : Queued[i] = bytes[dataChan[i]]
        /\ InChannel \subseteq accepted
    BY QueuedIs
  <2>3. Queued # <<>>
    BY <2>1, <2>2
  <2>4. Queued' = Tail(Queued)
    <3>1. DOMAIN dataChan' = 1..(Len(dataChan) - 1)
      BY <2>1, <2>2
    <3>2. \A i \in 1..(Len(dataChan) - 1) : dataChan'[i] = dataChan[i + 1]
      BY <2>1, <2>2
    <3>3. Queued' = [i \in 1..(Len(dataChan) - 1) |-> bytes[dataChan'[i]]]
      BY <1>1, <3>1 DEF Queued
    <3>4. /\ Tail(Queued) \in Seq(Nat) /\ Len(Tail(Queued)) = Len(dataChan) - 1
          /\ \A i \in 1..(Len(dataChan) - 1) : Tail(Queued)[i] = Queued[i + 1]
      BY <2>2, <2>3, HeadTailProperties
    <3>5. \A i \in 1..(Len(dataChan) - 1) :
            bytes[dataChan'[i]] = Queued[i + 1] /\ Queued[i + 1] \in Nat
      BY <2>2, <3>2
    <3>6. Queued' \in Seq(Nat) /\ Len(Queued') = Len(dataChan) - 1
      BY <2>1, <2>2, <3>3, <3>5
    <3>7. \A i \in 1..Len(Queued') : Queued'[i] = Tail(Queued)[i]
      BY <3>3, <3>4, <3>5, <3>6
    <3> QED
      BY <3>4, <3>6, <3>7, SeqEqual
  <2>5. /\ 1 \in DOMAIN Queued /\ Head(Queued) = Queued[1]
        /\ \A i \in DOMAIN Queued' :
             i + 1 \in DOMAIN Queued /\ i + 1 # 1 /\ Queued'[i] = Queued[i + 1]
        /\ \A i \in DOMAIN Queued :
             i = 1 \/ (i - 1 \in DOMAIN Queued' /\ Queued'[i - 1] = Queued[i])
    BY <2>2, <2>3, <2>4, TailElements
  <2>6. \A i, j \in DOMAIN Queued : i # j => Queued[i] # Queued[j]
    BY <2>2 DEF ServerInv, OnePlace
  <2>7. InChannel' = InChannel \ {Head(Queued)} /\ Head(Queued) \in InChannel
    BY <2>5, <2>6 DEF InChannel
  <2>8. Delivered' = Delivered \cup {Head(Queued)}
    BY <1>1, <2>2, <2>7 DEF Delivered
  <2>9. Queue!Deliver
    BY <1>1, <1>2, <2>3, <2>4, <2>8 DEF Queue!Deliver, Delivered, Lost, InChannel
  <2> QED
    BY <2>9 DEF Queue!Next
<1>4. CASE ProcessBegins(p) \/ ProcessEnds(p) \/ DataRecd(p) \/ RangeEnds(p)
  <2>1. UNCHANGED dataChan
    BY <1>4 DEF ProcessBegins, ProcessEnds, DataRecd, RangeEnds
  <2>2. Queued' = Queued
    BY <1>1, <2>1 DEF Queued
  <2> QED
    BY <1>1, <1>2, <2>2, QueueAlone
<1> QED
  BY <1>3, <1>4 DEF ProcessBuffer

LEMMA StopMaps ==
  ASSUME StopServing \/ StopContinues \/ UNCHANGED serverVars
  PROVE  [Queue!Next]_(Queue!lossyVars)
<1>1. UNCHANGED <<dataChan, bytes, nextPacket, accepted, reader>>
  BY StopLeaves
<1>2. Queued' = Queued /\ Lost' = Lost
  BY <1>1 DEF Queued, Lost, InHand
<1>3. CASE CloseChannel
  <2>1. Delivered' = Delivered
    BY <1>1, <1>2 DEF Delivered, InChannel
  <2>2. Queue!Shut
    BY <1>2, <1>3, <2>1 DEF Queue!Shut, CloseChannel, Delivered, Lost, InChannel
  <2> QED
    BY <2>2 DEF Queue!Next
<1>4. CASE ~CloseChannel
  <2>1. UNCHANGED chanClosed
    BY <1>4 DEF StopServing, StopContinues, CloseTransport, StopReturns, serverVars, chan
  <2> QED
    BY <1>1, <1>2, <2>1, QueueAlone
<1> QED
  BY <1>3, <1>4

\* The agent's server implements a tail-drop queue of packets, however often buffers are
\* reused and whenever Stop runs (tbuffered_server.go:84-100).
THEOREM ServerIsTailDrop == Spec => ServerIsQueue
<1>1. Init => Numbered /\ Queue!Init
  <2> SUFFICES ASSUME Init PROVE Numbered /\ Queue!Init
    OBVIOUS
  <2>1. Numbered
    BY AgentAssumption DEF Init, Numbered
  <2>2. Queued = <<>> /\ DOMAIN Queued = {}
    BY DEF Init, Queued
  <2>3. Queue!Init
    BY <2>2 DEF Init, Queue!Init
  <2> QED
    BY <2>1, <2>3
<1>2. ServerInv /\ Numbered /\ [Next]_serverVars => Numbered'
  BY NumberedKept
<1>3. ServerInv /\ Numbered /\ [Next]_serverVars => [Queue!Next]_(Queue!lossyVars)
  BY ServeMaps, ProcessorMaps, StopMaps DEF Next
<1> QED
  BY <1>1, <1>2, <1>3, ServerInvariant, PTL DEF Spec, ServerIsQueue, Queue!Spec
=============================================================================
