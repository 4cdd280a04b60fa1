--------------------------- MODULE IngesterProofs ---------------------------
(***************************************************************************)
(* Proofs about the ingester.  One partition: for any number of messages,  *)
(* workers, attempts, assignments and crashes.  The consumer: the handlers *)
(* of two claims on one partition never overlap, and a monitor kills the   *)
(* process only over a partition whose handler still has it, for any       *)
(* sequence of claims on any partitions.                                   *)
(***************************************************************************)
EXTENDS IngesterPartition, IngesterConsumer, WellFoundedInduction, TLAPS

-----------------------------------------------------------------------------
(***************************************************************************)
(* The algorithm of getHighestContiguous.                                  *)
(***************************************************************************)
\* A set of naturals that is not empty has a least element.
LEMMA LeastOf ==
  ASSUME NEW S, S \subseteq Nat, S # {}
  PROVE  \E least \in S : \A o \in S : least <= o
<1>1. PICK x \in S : \A y \in S : ~(<<y, x>> \in OpToRel(<, Nat))
  BY WFMin, NatLessThanWellFounded
<1>2. \A y \in S : ~(y < x)
  BY <1>1 DEF OpToRel
<1> QED
  BY <1>2

\* The highest contiguous offset exists: it is what the search from the least one
\* ends at, and everything from there is in the set.
LEMMA HighestContiguousIs ==
  ASSUME NEW S, S \subseteq 0..NumMessages, NEW least \in S, \A o \in S : least <= o
  PROVE  /\ HighestContiguous(S) \in S
         /\ least <= HighestContiguous(S)
         /\ least..HighestContiguous(S) \subseteq S
<1>1. NumMessages \in Nat
  BY SizesAssumption
<1> DEFINE Gap == {k \in Nat : k > least /\ k \notin S}
<1>2. NumMessages + 1 \in Gap
  BY <1>1
<1>3. PICK g \in Gap : \A k \in Gap : g <= k
  BY <1>2, LeastOf
<1>4. least..(g - 1) \subseteq S /\ g - 1 \in S /\ g - 1 + 1 \notin S
  <2>1. least..(g - 1) \subseteq S
    <3> SUFFICES ASSUME NEW k \in least..(g - 1) PROVE k \in S
      OBVIOUS
    <3>1. k = least \/ k > least
      BY <1>1
    <3>2. k \in Nat /\ k < g
      BY <1>1, <1>3
    <3> QED
      BY <1>3, <3>1, <3>2
  <2>2. g - 1 \in least..(g - 1)
    BY <1>1, <1>3
  <2> QED
    BY <1>1, <1>3, <2>1, <2>2
<1>5. \E h \in S : /\ h + 1 \notin S
                   /\ \E m \in S : (\A o \in S : m <= o) /\ m..h \subseteq S
  BY <1>4
<1>6. /\ HighestContiguous(S) \in S
      /\ \E m \in S : (\A o \in S : m <= o) /\ m..HighestContiguous(S) \subseteq S
  BY <1>5 DEF HighestContiguous
<1>7. PICK m \in S : (\A o \in S : m <= o) /\ m..HighestContiguous(S) \subseteq S
  BY <1>6
<1>8. m = least
  BY <1>1, <1>7
<1> QED
  BY <1>1, <1>6, <1>7, <1>8
-----------------------------------------------------------------------------
(***************************************************************************)
(* The inductive invariant.                                                *)
(***************************************************************************)
PhaseValues == {"idle", "open", "closing", "stopping", "down"}

PartitionTypes ==
  /\ propagateError \in BOOLEAN /\ processing \in BOOLEAN
  /\ phase \in PhaseValues
  /\ next \in 1..(NumMessages + 1) /\ message \in 0..NumMessages
  /\ wpc \in [Workers -> {"select", "process", "insert", "exited"}]
  /\ wmsg \in [Workers -> 0..NumMessages]
  /\ list \subseteq 0..NumMessages /\ taken \subseteq 0..NumMessages
  /\ mpc \in {"select", "compact", "mark", "exited"}
  /\ offset \in 0..NumMessages /\ lastCommitted \in 0..NumMessages
  /\ marked \in 0..NumMessages /\ committed \in 0..NumMessages
  /\ stored \subseteq Offsets /\ givenUp \subseteq Offsets

\* What runs in which phase of the assignment.
Running ==
  /\ processing => phase \in {"open", "closing", "stopping"}
  /\ phase \in {"closing", "stopping"} => processing /\ message = 0
  /\ phase \in {"idle", "down"} => message = 0
  /\ (mpc = "exited") = ~processing
  /\ ~processing => message = 0 /\ list = {}
  /\ ~processing \/ phase = "stopping" => \A w \in Workers : wpc[w] = "exited"
  /\ mpc # "compact" => taken = {}

\* A worker has a message that is not inserted yet.
Busy(w) == wpc[w] \in {"process", "insert"}

\* o was handed out in this assignment and is not inserted yet.
Late(o) ==
  /\ lastCommitted < o /\ o < next
  /\ o \notin list /\ o \notin taken
  /\ mpc = "mark" => offset < o

\* Each message is in one place.
Apart ==
  /\ message # 0 => Late(message)
  /\ \A w \in Workers : Busy(w) => Late(wmsg[w]) /\ wmsg[w] # message
  /\ \A v, w \in Workers : v # w /\ Busy(v) /\ Busy(w) => wmsg[v] # wmsg[w]

\* The list begins with the offset marked last, or about to be marked.
Front ==
  /\ processing => lastCommitted < next
  /\ \A o \in list \cup taken : lastCommitted <= o /\ o < next
  /\ mpc = "select" => lastCommitted \in list
  /\ mpc = "compact" => lastCommitted \in taken /\ list \cap taken = {}
  /\ mpc = "mark" =>
       lastCommitted < offset /\ offset \in list /\ \A o \in list : offset <= o

\* Everything up to o is done with.
Prefix(o) == \A k \in 1..o : k \in DealtWith

Done ==
  /\ committed <= marked /\ Prefix(marked)
  /\ phase = "open" /\ ~processing => Prefix(next - 1)
  /\ processing => Prefix(lastCommitted)
  /\ mpc = "mark" => Prefix(offset)
  /\ \A o \in list \cup taken : o # 0 => o \in DealtWith
  /\ \A w \in Workers : wpc[w] = "insert" => wmsg[w] \in DealtWith
  /\ propagateError => givenUp = {}

PartitionInv == PartitionTypes /\ Running /\ Apart /\ Front /\ Done

LEMMA InitInv ==
  ASSUME Init
  PROVE  PartitionInv
<1>1. 0 \in 0..NumMessages /\ 1 \in 1..(NumMessages + 1)
  BY SizesAssumption
<1>2. PartitionTypes
  BY <1>1 DEF Init, PartitionTypes, PhaseValues
<1>3. Running /\ Apart /\ Front
  BY DEF Init, Running, Apart, Busy, Late, Front
<1>4. Done
  BY DEF Init, Done, Prefix
<1> QED
  BY <1>2, <1>3, <1>4 DEF PartitionInv

-----------------------------------------------------------------------------
(***************************************************************************)
(* Every step keeps it.                                                    *)
(***************************************************************************)
LEMMA AssignInv ==
  ASSUME PartitionInv, Assign
  PROVE  PartitionInv'
<1> USE SizesAssumption DEF PartitionInv, Assign, workerVars, managerVars, historyVars
<1>1. PartitionTypes'
  BY DEF PartitionTypes, PhaseValues
<1>2. Running'
  BY DEF Running
<1>3. Apart'
  BY DEF Apart, Busy, Late, Running
<1>4. Front'
  BY DEF Front, Running
<1>5. Done'
  BY DEF Done, Prefix, DealtWith, Running, PartitionTypes
<1> QED
  BY <1>1, <1>2, <1>3, <1>4, <1>5

LEMMA ReceiveInv ==
  ASSUME PartitionInv, Receive
  PROVE  PartitionInv'
<1>1. /\ phase = "open" /\ phase' = phase /\ message = 0 /\ next <= NumMessages
      /\ message' = next /\ next' = next + 1
      /\ UNCHANGED <<propagateError, marked, committed, stored, givenUp, wmsg, taken, offset>>
  BY DEF Receive, workerVars, managerVars, kafkaVars, historyVars
<1>2. next \in 1..NumMessages /\ next + 1 \in 1..(NumMessages + 1) /\ next - 1 \in 0..NumMessages
  BY <1>1, SizesAssumption DEF PartitionInv, PartitionTypes
<1>3. CASE processing
  <2>1. UNCHANGED <<processing, wpc, list, mpc, lastCommitted>>
    BY <1>3 DEF Receive, workerVars, managerVars
  <2>2. PartitionTypes'
    BY <1>1, <1>2, <2>1 DEF PartitionTypes, PartitionInv
  <2>3. Running'
    BY <1>1, <1>3, <2>1 DEF Running, PartitionInv
  <2>4. Apart'
    BY <1>1, <1>2, <1>3, <2>1, SizesAssumption DEF Apart, Busy, Late, PartitionTypes, Front, PartitionInv
  <2>5. Front'
    <3>1. (processing => lastCommitted < next)' /\ (\A o \in list \cup taken : lastCommitted <= o /\ o < next)'
      BY <1>1, <1>2, <1>3, <2>1, SizesAssumption DEF Front, PartitionTypes, PartitionInv
    <3> QED
      BY <1>1, <2>1, <3>1 DEF Front, PartitionInv
  <2>6. Done'
    BY <1>1, <1>3, <2>1 DEF Done, Prefix, DealtWith, PartitionInv
  <2> QED
    BY <2>2, <2>3, <2>4, <2>5, <2>6 DEF PartitionInv
<1>4. CASE ~processing
  <2>1. /\ processing' = TRUE /\ wpc' = [w \in Workers |-> "select"]
        /\ list' = {next - 1} /\ lastCommitted' = next - 1 /\ mpc' = "select"
    BY <1>4 DEF Receive
  <2>2. taken = {}
    BY <1>4 DEF Running, PartitionInv
  <2>3. PartitionTypes'
    BY <1>1, <1>2, <2>1 DEF PartitionTypes, PartitionInv
  <2>4. Running'
    BY <1>1, <1>2, <2>1, <2>2 DEF Running, PartitionInv
  <2>5. Apart'
    BY <1>1, <1>2, <2>1, <2>2, SizesAssumption DEF Apart, Busy, Late
  <2>6. Front'
    BY <1>1, <1>2, <2>1, <2>2, SizesAssumption DEF Front
  <2>7. Prefix(next - 1)
    BY <1>1, <1>4 DEF Done, PartitionInv
  <2>8. next - 1 # 0 => next - 1 \in DealtWith
    BY <2>7, <1>2, SizesAssumption DEF Prefix
  <2>9. Done'
    BY <1>1, <2>1, <2>2, <2>7, <2>8 DEF Done, Prefix, DealtWith, PartitionInv
  <2> QED
    BY <2>3, <2>4, <2>5, <2>6, <2>9 DEF PartitionInv
<1> QED
  BY <1>3, <1>4

LEMMA HandOverInv ==
  ASSUME PartitionInv, NEW w \in Workers, HandOver(w)
  PROVE  PartitionInv'
<1> USE SizesAssumption DEF PartitionInv, HandOver, managerVars, kafkaVars, historyVars
<1>1. PartitionTypes'
  BY DEF PartitionTypes
<1>2. Running'
  BY DEF Running, PartitionTypes
<1>3. Apart'
  BY DEF Apart, Busy, Late, PartitionTypes
<1>4. Front'
  BY DEF Front
<1>5. Done'
  BY DEF Done, Prefix, DealtWith, PartitionTypes
<1> QED
  BY <1>1, <1>2, <1>3, <1>4, <1>5

LEMMA EndAssignmentInv ==
  ASSUME PartitionInv, EndAssignment \/ WorkersAreDone \/ Restart
  PROVE  PartitionInv'
<1> USE DEF PartitionInv, EndAssignment, WorkersAreDone, Restart, workerVars, managerVars,
            kafkaVars, historyVars
<1>1. PartitionTypes'
  BY DEF PartitionTypes, PhaseValues
<1>2. Running'
  BY DEF Running
<1>3. Apart'
  BY DEF Apart, Busy, Late
<1>4. Front'
  BY DEF Front
<1>5. Done'
  BY DEF Done, Prefix, DealtWith, Running
<1> QED
  BY <1>1, <1>2, <1>3, <1>4, <1>5

LEMMA WriteInv ==
  ASSUME PartitionInv, NEW w \in Workers, Write(w)
  PROVE  PartitionInv'
<1> USE SizesAssumption DEF PartitionInv, Write, managerVars, handlerVars, kafkaVars
<1>0. wmsg[w] \in Offsets
  BY DEF Apart, Busy, Late, PartitionTypes, Offsets
<1>1. PartitionTypes'
  BY <1>0 DEF PartitionTypes
<1>2. Running'
  BY DEF Running, PartitionTypes
<1>3. Apart'
  BY DEF Apart, Busy, Late, PartitionTypes
<1>4. Front'
  BY DEF Front
<1>5. Done'
  BY DEF Done, Prefix, DealtWith, PartitionTypes
<1> QED
  BY <1>1, <1>2, <1>3, <1>4, <1>5

LEMMA FailInv ==
  ASSUME PartitionInv, NEW w \in Workers, Fail(w)
  PROVE  PartitionInv'
<1> USE DEF PartitionInv, Fail, managerVars, handlerVars, kafkaVars, historyVars
<1>1. PartitionTypes'
  BY DEF PartitionTypes
<1>2. Running' /\ Apart' /\ Front'
  BY DEF Running, Apart, Busy, Late, Front
<1>3. Done'
  BY DEF Done, Prefix, DealtWith
<1> QED
  BY <1>1, <1>2, <1>3

LEMMA GiveUpInv ==
  ASSUME PartitionInv, NEW w \in Workers, GiveUp(w)
  PROVE  PartitionInv'
<1> USE SizesAssumption DEF PartitionInv, GiveUp, managerVars, handlerVars, kafkaVars
<1>0. wmsg[w] \in Offsets
  BY DEF Apart, Busy, Late, PartitionTypes, Offsets
<1>1. PartitionTypes'
  BY <1>0 DEF PartitionTypes
<1>2. Running'
  BY DEF Running, PartitionTypes
<1>3. Apart'
  BY DEF Apart, Busy, Late, PartitionTypes
<1>4. Front'
  BY DEF Front
<1>5. Done'
  BY DEF Done, Prefix, DealtWith, PartitionTypes
<1> QED
  BY <1>1, <1>2, <1>3, <1>4, <1>5

LEMMA InsertInv ==
  ASSUME PartitionInv, NEW w \in Workers, Insert(w)
  PROVE  PartitionInv'
<1> USE SizesAssumption DEF PartitionInv, Insert, handlerVars, kafkaVars, historyVars
<1>1. wpc[w] = "insert" /\ Late(wmsg[w]) /\ wmsg[w] \in 0..NumMessages /\ wmsg[w] \in DealtWith
  BY DEF Apart, Busy, PartitionTypes, Done
<1>2. PartitionTypes'
  BY <1>1 DEF PartitionTypes
<1>3. processing /\ mpc # "exited" /\ phase # "stopping"
  BY <1>1 DEF Running, PartitionTypes
<1>4. Running'
  BY <1>3 DEF Running, PartitionTypes
<1>5. Apart'
  <2>1. ASSUME NEW o \in 0..NumMessages, Late(o), o # wmsg[w]
        PROVE  Late(o)'
    BY <2>1 DEF Late
  <2>2. message' # 0 => Late(message)'
    BY <1>1, <2>1 DEF Apart, Busy, PartitionTypes
  <2>3. ASSUME NEW v \in Workers, Busy(v)'
        PROVE  Busy(v) /\ v # w
    BY <1>1, <2>3 DEF Busy, PartitionTypes
  <2>4. \A v \in Workers : Busy(v)' => (Late(wmsg[v]) /\ wmsg[v] # message)'
    BY <1>1, <2>1, <2>3 DEF Apart, Busy, PartitionTypes
  <2>5. (\A v, u \in Workers : v # u /\ Busy(v) /\ Busy(u) => wmsg[v] # wmsg[u])'
    BY <2>3 DEF Apart
  <2> QED
    BY <2>2, <2>4, <2>5 DEF Apart
<1>6. Front'
  <2>1. (\A o \in list \cup taken : lastCommitted <= o /\ o < next)'
    BY <1>1 DEF Front, Late, PartitionTypes
  <2>2. (mpc = "mark" =>
           lastCommitted < offset /\ offset \in list /\ \A o \in list : offset <= o)'
    BY <1>1 DEF Front, Late, PartitionTypes
  <2>3. (mpc = "compact" => lastCommitted \in taken /\ list \cap taken = {})'
    BY <1>1 DEF Front, Late
  <2>4. (processing => lastCommitted < next)' /\ (mpc = "select" => lastCommitted \in list)'
    BY DEF Front
  <2> QED
    BY <2>1, <2>2, <2>3, <2>4 DEF Front
<1>7. Done'
  BY <1>1 DEF Done, Prefix, DealtWith, PartitionTypes
<1> QED
  BY <1>2, <1>4, <1>5, <1>6, <1>7

LEMMA WorkerExitsInv ==
  ASSUME PartitionInv, NEW w \in Workers, WorkerExits(w)
  PROVE  PartitionInv'
<1> USE DEF PartitionInv, WorkerExits, managerVars, handlerVars, kafkaVars, historyVars
<1>1. PartitionTypes'
  BY DEF PartitionTypes
<1>2. Running'
  BY DEF Running, PartitionTypes
<1>3. Apart'
  BY DEF Apart, Busy, Late, PartitionTypes
<1>4. Front'
  BY DEF Front
<1>5. Done'
  BY DEF Done, Prefix, DealtWith, PartitionTypes
<1> QED
  BY <1>1, <1>2, <1>3, <1>4, <1>5

LEMMA TakeOffsetsInv ==
  ASSUME PartitionInv, TakeOffsets
  PROVE  PartitionInv'
<1> USE DEF PartitionInv, TakeOffsets, workerVars, handlerVars, kafkaVars, historyVars
<1>0. taken = {} /\ processing
  BY DEF Running, PartitionTypes
<1>1. PartitionTypes'
  BY DEF PartitionTypes
<1>2. Running'
  BY <1>0 DEF Running
<1>3. Apart'
  BY <1>0 DEF Apart, Busy, Late
<1>4. Front'
  BY <1>0 DEF Front
<1>5. Done'
  BY <1>0 DEF Done, Prefix, DealtWith
<1> QED
  BY <1>1, <1>2, <1>3, <1>4, <1>5

LEMMA PutBackInv ==
  ASSUME PartitionInv, PutBack
  PROVE  PartitionInv'
<1> DEFINE h == HighestContiguous(taken)
<1>1. /\ mpc = "compact" /\ list' = list \cup {o \in taken : o >= h}
      /\ taken' = {} /\ offset' = h
      /\ mpc' = IF h = lastCommitted THEN "select" ELSE "mark"
      /\ UNCHANGED <<propagateError, phase, assignments, next, message, processing, wpc, wmsg,
                     lastCommitted, marked, committed, stored, givenUp>>
  BY DEF PutBack, handlerVars, workerVars, kafkaVars, historyVars
<1>2. /\ taken \subseteq 0..NumMessages /\ lastCommitted \in taken
      /\ \A o \in taken : lastCommitted <= o
  BY <1>1 DEF PartitionInv, PartitionTypes, Front
<1>3. h \in taken /\ lastCommitted <= h /\ lastCommitted..h \subseteq taken
  BY <1>2, HighestContiguousIs
<1>4. h \in 0..NumMessages /\ h < next
  BY <1>1, <1>2, <1>3 DEF PartitionInv, Front
<1> HIDE DEF h
<1>5. PartitionTypes'
  BY <1>1, <1>2, <1>4 DEF PartitionInv, PartitionTypes
<1>6. Running'
  BY <1>1 DEF PartitionInv, Running
<1>7. ASSUME NEW o \in 0..NumMessages, Late(o)
      PROVE  Late(o)'
  <2>1. lastCommitted < o /\ o < next /\ o \notin list /\ o \notin taken
    BY <1>7 DEF Late
  <2>2. h < o
    BY <1>2, <1>3, <1>4, <2>1, SizesAssumption
  <2> QED
    BY <1>1, <2>1, <2>2 DEF Late
<1>8. Apart'
  BY <1>1, <1>7 DEF PartitionInv, Apart, Busy, PartitionTypes
<1>9. Front'
  <2>1. h # lastCommitted => lastCommitted < h
    BY <1>2, <1>3, <1>4, SizesAssumption
  <2>2. h \in list'
    BY <1>1, <1>3, <1>4, SizesAssumption
  <2>3. \A o \in list' : lastCommitted <= o /\ o < next
    BY <1>1 DEF PartitionInv, Front
  <2>4. ASSUME NEW o \in list PROVE h <= o
    <3>1. o \in 0..NumMessages /\ o \notin taken /\ lastCommitted <= o
      BY <1>1 DEF PartitionInv, PartitionTypes, Front
    <3> QED
      BY <1>2, <1>3, <1>4, <3>1, SizesAssumption
  <2>5. \A o \in list' : h <= o
    BY <1>1, <2>4
  <2> QED
    BY <1>1, <2>1, <2>2, <2>3, <2>5 DEF PartitionInv, Front
<1>10. Prefix(h)
  <2> SUFFICES ASSUME NEW k \in 1..h PROVE k \in DealtWith
    BY DEF Prefix
  <2>1. CASE k <= lastCommitted
    <3>1. Prefix(lastCommitted)
      BY <1>1 DEF PartitionInv, Running, Done
    <3> QED
      BY <1>2, <1>4, <2>1, <3>1, SizesAssumption DEF Prefix
  <2>2. CASE k > lastCommitted
    <3>1. k \in taken
      BY <1>2, <1>3, <1>4, <2>2, SizesAssumption
    <3> QED
      BY <3>1, <1>4, SizesAssumption DEF PartitionInv, Done
  <2> QED
    BY <1>2, <1>4, <2>1, <2>2, SizesAssumption
<1>11. Done'
  BY <1>1, <1>10 DEF PartitionInv, Done, Prefix, DealtWith
<1> QED
  BY <1>5, <1>6, <1>8, <1>9, <1>11 DEF PartitionInv

LEMMA MarkInv ==
  ASSUME PartitionInv, Mark
  PROVE  PartitionInv'
<1> USE DEF PartitionInv, Mark, handlerVars, workerVars, historyVars
<1>0. /\ marked' = marked \/ (marked' = offset /\ offset > marked)
      /\ marked <= marked'
  <2>1. marked \in Nat /\ offset \in Nat
    BY SizesAssumption DEF PartitionTypes
  <2>2. marked' = marked \/ (marked' = offset /\ offset > marked)
    BY <2>1
  <2> QED
    BY <2>1, <2>2
<1>1. PartitionTypes'
  BY <1>0 DEF PartitionTypes
<1>2. Running'
  BY DEF Running
<1>3. Apart'
  BY DEF Apart, Busy, Late
<1>4. Front'
  BY DEF Front, Running
<1>5. Done'
  <2>1. committed <= marked' /\ Prefix(marked')
    BY <1>0 DEF Done, PartitionTypes
  <2> QED
    BY <2>1 DEF Done, Prefix, DealtWith
<1> QED
  BY <1>1, <1>2, <1>3, <1>4, <1>5

LEMMA ManagerExitsInv ==
  ASSUME PartitionInv, ManagerExits
  PROVE  PartitionInv'
<1> USE DEF PartitionInv, ManagerExits, workerVars, kafkaVars, historyVars
<1>1. PartitionTypes'
  BY DEF PartitionTypes, PhaseValues
<1>2. Running'
  BY DEF Running
<1>3. Apart'
  BY DEF Apart, Busy, Late, Running
<1>4. Front'
  BY DEF Front, Running
<1>5. Done'
  BY DEF Done, Prefix, DealtWith, Running
<1> QED
  BY <1>1, <1>2, <1>3, <1>4, <1>5

LEMMA CommitInv ==
  ASSUME PartitionInv, Commit
  PROVE  PartitionInv'
<1> USE DEF PartitionInv, Commit, handlerVars, workerVars, managerVars, historyVars
<1>1. PartitionTypes'
  BY DEF PartitionTypes
<1>2. Running' /\ Apart' /\ Front'
  BY DEF Running, Apart, Busy, Late, Front
<1>3. Done'
  BY DEF Done, Prefix, DealtWith, PartitionTypes
<1> QED
  BY <1>1, <1>2, <1>3

LEMMA CrashInv ==
  ASSUME PartitionInv, Crash
  PROVE  PartitionInv'
<1> USE DEF PartitionInv, Crash, historyVars
<1>0. 0 \in 0..NumMessages
  BY SizesAssumption
<1>1. PartitionTypes'
  <2>1. /\ wpc' \in [Workers -> {"select", "process", "insert", "exited"}]
        /\ message' \in 0..NumMessages /\ marked' \in 0..NumMessages
    BY <1>0 DEF PartitionTypes
  <2>2. processing' \in BOOLEAN
    OBVIOUS
  <2> QED
    BY <2>1, <2>2 DEF PartitionTypes, PhaseValues
<1>2. Running'
  BY DEF Running
<1>3. Apart'
  BY DEF Apart, Busy, Late
<1>4. Front'
  BY DEF Front
<1>5. Done'
  <2>1. Prefix(committed)
    BY DEF Done, Prefix, PartitionTypes
  <2> QED
    BY <2>1 DEF Done, Prefix, DealtWith, PartitionTypes
<1> QED
  BY <1>1, <1>2, <1>3, <1>4, <1>5

LEMMA StepInv ==
  ASSUME PartitionInv, [Next]_partitionVars
  PROVE  PartitionInv'
<1>1. CASE Handler
  BY <1>1, ReceiveInv, HandOverInv, EndAssignmentInv DEF Handler
<1>2. CASE Manager
  BY <1>2, TakeOffsetsInv, PutBackInv, MarkInv, ManagerExitsInv DEF Manager
<1>3. CASE Outside
  BY <1>3, AssignInv, EndAssignmentInv, CommitInv, CrashInv DEF Outside
<1>4. CASE \E w \in Workers : Worker(w)
  BY <1>4, WriteInv, FailInv, GiveUpInv, InsertInv, WorkerExitsInv DEF Worker
<1>5. CASE UNCHANGED partitionVars
  <2> USE <1>5 DEF partitionVars, handlerVars, workerVars, managerVars, kafkaVars, historyVars
  <2>1. PartitionTypes' /\ Running' /\ Front'
    BY DEF PartitionInv, PartitionTypes, Running, Front
  <2>2. Apart' /\ Done'
    BY DEF PartitionInv, Apart, Busy, Late, Done, Prefix, DealtWith
  <2> QED
    BY <2>1, <2>2 DEF PartitionInv
<1> QED
  BY <1>1, <1>2, <1>3, <1>4, <1>5 DEF Next
-----------------------------------------------------------------------------
(***************************************************************************)
(* The theorems.                                                           *)
(***************************************************************************)
\* The invariant holds in every behaviour.
THEOREM PartitionInvariant == Spec => []PartitionInv
<1>1. Init => PartitionInv
  BY InitInv
<1>2. PartitionInv /\ [Next]_partitionVars => PartitionInv'
  BY StepInv
<1> QED
  BY <1>1, <1>2, PTL DEF Spec

\* The list begins with the offset that was marked last (concurrent_list.go:37): the
\* manager never finds it empty and no offset is inserted below it.
THEOREM ListHeadIsLastMarked == Spec => []HeadIsLastMarked
<1>1. PartitionInv => HeadIsLastMarked
  <2> SUFFICES ASSUME PartitionInv PROVE HeadIsLastMarked
    OBVIOUS
  <2>1. \A o \in list : lastCommitted <= o
    BY DEF PartitionInv, Front
  <2> QED
    BY <2>1 DEF PartitionInv, Front, HeadIsLastMarked
<1> QED
  BY <1>1, PartitionInvariant, PTL

\* With error propagation (retry.go:116-121) every committed message was stored.
THEOREM NothingPassedOver == Spec => []CommittedWereStored
<1>1. PartitionInv => CommittedWereStored
  <2> SUFFICES ASSUME PartitionInv, propagateError, NEW k \in 1..committed PROVE k \in stored
    BY DEF CommittedWereStored
  <2>1. k \in 1..marked
    BY DEF PartitionInv, Done, PartitionTypes
  <2>2. k \in DealtWith /\ givenUp = {}
    BY <2>1 DEF PartitionInv, Done, Prefix
  <2> QED
    BY <2>2 DEF DealtWith
<1> QED
  BY <1>1, PartitionInvariant, PTL

\* The ingester implements at-least-once consumption of the log: a commit moves the
\* position over messages that are dealt with, everything else deals with one message
\* or stutters (manager.go:78-91).
THEOREM AtLeastOnce == Spec => ImplementsAtLeastOnce
<1>1. Init => Log!Init
  BY DEF Init, Log!Init, DealtWith
<1>2. PartitionInv /\ [Next]_partitionVars => [Log!Next]_Log!logVars
  <2> SUFFICES ASSUME PartitionInv, [Next]_partitionVars PROVE [Log!Next]_Log!logVars
    OBVIOUS
  <2>1. CASE Commit
    <3>1. committed' = marked /\ committed < marked /\ marked \in 1..NumMessages
      BY <2>1, SizesAssumption DEF Commit, PartitionInv, Done, PartitionTypes
    <3>2. 1..marked \subseteq DealtWith
      BY DEF PartitionInv, Done, Prefix
    <3>3. UNCHANGED DealtWith
      BY <2>1 DEF Commit, historyVars, DealtWith
    <3>4. Log!MoveTo(marked)
      BY <3>1, <3>2, <3>3 DEF Log!MoveTo
    <3> QED
      BY <3>1, <3>4 DEF Log!Next
  <2>2. CASE \E w \in Workers : Write(w) \/ GiveUp(w)
    <3>1. PICK w \in Workers : Write(w) \/ GiveUp(w)
      BY <2>2
    <3>2. wmsg[w] \in 1..NumMessages
      BY <3>1 DEF Write, GiveUp, PartitionInv, Apart, Busy, Late, PartitionTypes
    <3>3. UNCHANGED committed
      BY <3>1 DEF Write, GiveUp, kafkaVars
    <3>4. DealtWith' = DealtWith \cup {wmsg[w]} \/ DealtWith' = DealtWith
      BY <3>1 DEF Write, GiveUp, DealtWith
    <3>5. Log!Finish(wmsg[w]) \/ UNCHANGED Log!logVars
      BY <3>3, <3>4 DEF Log!Finish, Log!logVars
    <3> QED
      BY <3>2, <3>5 DEF Log!Next
  <2>3. CASE /\ ~Commit /\ ~\E w \in Workers : Write(w) \/ GiveUp(w)
    <3>1. UNCHANGED <<stored, givenUp, committed>>
      <4>1. CASE Handler
        BY <4>1 DEF Handler, Receive, WorkersAreDone, HandOver, kafkaVars, historyVars
      <4>2. CASE Manager
        BY <4>2 DEF Manager, TakeOffsets, PutBack, Mark, ManagerExits, kafkaVars, historyVars
      <4>3. CASE Outside
        BY <4>3, <2>3 DEF Outside, Assign, EndAssignment, Crash, Restart, kafkaVars, historyVars
      <4>4. CASE \E w \in Workers : Worker(w)
        BY <4>4, <2>3 DEF Worker, Fail, Insert, WorkerExits, kafkaVars, historyVars
      <4>5. CASE UNCHANGED partitionVars
        BY <4>5 DEF partitionVars, kafkaVars, historyVars
      <4> QED
        BY <4>1, <4>2, <4>3, <4>4, <4>5 DEF Next
    <3> QED
      BY <3>1 DEF Log!logVars, DealtWith
  <2> QED
    BY <2>1, <2>2, <2>3
<1> QED
  BY <1>1, <1>2, PartitionInvariant, PTL DEF Spec, ImplementsAtLeastOnce, Log!Spec
-----------------------------------------------------------------------------
(***************************************************************************)
(* The consumer.                                                           *)
(***************************************************************************)
HandlerPcs == {"none", "start", "loop", "process", "closing", "detector", "close", "done",
               "relock", "exited"}

ConsumerTypes ==
  /\ delivered \in Nat /\ delivered <= Len(Claims)
  /\ mainpc \in {"range", "lock", "wait", "spawn", "ended"}
  /\ mainpc \in {"lock", "wait", "spawn"} => delivered \in ClaimIds
  /\ wg \in [ClaimIds -> Int]
  /\ current \in [Partitions -> ClaimIds \cup {0}]
  /\ hpc \in [ClaimIds -> HandlerPcs]
  /\ epc \in [ClaimIds -> {"none", "start", "loop", "exited"}]
  /\ monitor \in [ClaimIds -> {"none", "running", "exited"}]

\* A claim is registered when the main loop is past its critical section, and
\* started when it is past the two go statements.
Registered(c) == c < delivered \/ (c = delivered /\ mainpc \notin {"lock", "wait"})
Started(c) == c < delivered \/ (c = delivered /\ mainpc \notin {"lock", "wait", "spawn"})

\* How many of its two handlers a claim still waits for.
Left(h, e) ==
  (IF h \in {"relock", "exited"} THEN 0 ELSE 1) + (IF e = "exited" THEN 0 ELSE 1)

\* Invariant: the WaitGroup of a registered claim counts its handlers, which do
\* nothing before they are started.
Counted ==
  /\ \A c \in ClaimIds : Registered(c) => wg[c] = Left(hpc[c], epc[c])
  /\ \A c \in ClaimIds : ~Started(c) => hpc[c] = "none" /\ epc[c] = "none"

\* Invariant: of the claims on a partition only the one in the map has handlers.
OnlyCurrent ==
  \A c \in ClaimIds : Registered(c) =>
    /\ current[Claims[c]] # 0
    /\ current[Claims[c]] # c => Left(hpc[c], epc[c]) = 0

\* Invariant: a monitor runs while its handler is between the start and the end of it.
MonitorEndsFirst ==
  \A c \in ClaimIds : monitor[c] = "running" =>
    checking /\ hpc[c] \in {"loop", "process", "closing", "detector"}

KilledWhileHeld == panic = 0 \/ panic = -1 \/ (panic \in ClaimIds /\ Active(panic))

ConsumerInv == ConsumerTypes /\ Counted /\ OnlyCurrent /\ MonitorEndsFirst /\ KilledWhileHeld

LEMMA ConsumerInvInit == ConsumerInit => ConsumerInv
<1> SUFFICES ASSUME ConsumerInit PROVE ConsumerInv
  OBVIOUS
<1>1. ConsumerTypes
  BY ClaimsAssumption DEF ConsumerInit, ConsumerTypes, HandlerPcs
<1>2. Counted /\ OnlyCurrent
  BY ClaimsAssumption DEF ConsumerInit, Counted, OnlyCurrent, Registered, Started, ClaimIds
<1>3. MonitorEndsFirst /\ KilledWhileHeld
  BY DEF ConsumerInit, MonitorEndsFirst, KilledWhileHeld
<1> QED
  BY <1>1, <1>2, <1>3 DEF ConsumerInv
-----------------------------------------------------------------------------
(***************************************************************************)
(* The main loop.                                                          *)
(***************************************************************************)
LEMMA DeliverKeeps ==
  ASSUME ConsumerInv, Deliver PROVE ConsumerInv'
<1>1. /\ delivered' = delivered + 1 /\ mainpc = "range" /\ mainpc' = "lock"
      /\ delivered < Len(Claims)
      /\ UNCHANGED <<checking, current, wg, hpc, epc, monitor, panic>>
  BY DEF Deliver, claimHandlerVars, detectorVars
<1>2. delivered \in Nat /\ delivered' \in ClaimIds /\ delivered' \in Nat /\ delivered' <= Len(Claims)
  BY <1>1, ClaimsAssumption DEF ConsumerInv, ConsumerTypes, ClaimIds
<1>3. \A c \in ClaimIds : (Registered(c)' <=> Registered(c)) /\ (Started(c)' <=> Started(c))
  BY <1>1, <1>2, ClaimsAssumption DEF Registered, Started, ClaimIds
<1>4. ConsumerTypes'
  BY <1>1, <1>2 DEF ConsumerInv, ConsumerTypes
<1>5. Counted' /\ OnlyCurrent'
  BY <1>1, <1>3 DEF ConsumerInv, Counted, OnlyCurrent
<1>6. MonitorEndsFirst' /\ KilledWhileHeld'
  BY <1>1 DEF ConsumerInv, MonitorEndsFirst, KilledWhileHeld, Active
<1> QED
  BY <1>4, <1>5, <1>6 DEF ConsumerInv

\* The claim is registered when no handler of an earlier one is left.
LEMMA RegisterKeeps ==
  ASSUME ConsumerInv, Register, mainpc \in {"lock", "wait"},
         current[Partition] = 0 \/ (current[Partition] \in ClaimIds /\ wg[current[Partition]] = 0),
         UNCHANGED <<checking, delivered, hpc, epc, monitor, panic>>
  PROVE  ConsumerInv'
<1>1. /\ current' = [current EXCEPT ![Partition] = delivered]
      /\ wg' = [wg EXCEPT ![delivered] = 2] /\ mainpc' = "spawn"
  BY DEF Register
<1>2. /\ delivered \in ClaimIds /\ delivered \in Nat /\ Partition \in Partitions
      /\ wg \in [ClaimIds -> Int] /\ current \in [Partitions -> ClaimIds \cup {0}]
      /\ delivered # 0
  BY ClaimsAssumption DEF ConsumerInv, ConsumerTypes, Partition, Partitions, ClaimIds
<1>3. /\ current'[Partition] = delivered
      /\ \A p \in Partitions : p # Partition => current'[p] = current[p]
      /\ wg'[delivered] = 2 /\ \A c \in ClaimIds : c # delivered => wg'[c] = wg[c]
  BY <1>1, <1>2
<1>4. /\ \A c \in ClaimIds : Registered(c)' <=> Registered(c) \/ c = delivered
      /\ \A c \in ClaimIds : Started(c)' <=> Started(c)
      /\ ~Registered(delivered) /\ ~Started(delivered)
  BY <1>1, <1>2, ClaimsAssumption DEF Registered, Started, ClaimIds
<1>5. hpc[delivered] = "none" /\ epc[delivered] = "none"
  BY <1>2, <1>4 DEF ConsumerInv, Counted
<1>6. Left(hpc[delivered], epc[delivered]) = 2
  BY <1>5 DEF Left
<1>7. ConsumerTypes'
  <2>1. wg' \in [ClaimIds -> Int] /\ current' \in [Partitions -> ClaimIds \cup {0}]
    BY <1>1, <1>2
  <2> QED
    BY <1>1, <1>2, <2>1 DEF ConsumerInv, ConsumerTypes
<1>8. Counted'
  BY <1>3, <1>4, <1>6 DEF ConsumerInv, Counted
<1>9. OnlyCurrent'
  <2> SUFFICES ASSUME NEW c \in ClaimIds, Registered(c)'
               PROVE  /\ current'[Claims[c]] # 0
                      /\ current'[Claims[c]] # c => Left(hpc[c], epc[c]) = 0
    BY DEF OnlyCurrent
  <2>1. Claims[c] \in Partitions
    BY DEF Partitions
  <2>2. CASE c = delivered
    BY <1>2, <1>3, <2>2 DEF Partition
  <2>3. CASE c # delivered /\ Claims[c] # Partition
    BY <1>3, <1>4, <2>1, <2>3 DEF ConsumerInv, OnlyCurrent
  <2>4. CASE c # delivered /\ Claims[c] = Partition
    <3>1. Registered(c) /\ current[Partition] # 0
      BY <1>4, <2>4 DEF ConsumerInv, OnlyCurrent
    <3>2. CASE current[Partition] = c
      BY <3>1, <3>2, <1>2, <1>3, <2>4 DEF ConsumerInv, Counted
    <3>3. CASE current[Partition] # c
      BY <3>1, <3>3, <1>2, <1>3, <2>4 DEF ConsumerInv, OnlyCurrent
    <3> QED
      BY <3>2, <3>3
  <2> QED
    BY <2>2, <2>3, <2>4
<1>10. MonitorEndsFirst' /\ KilledWhileHeld'
  BY DEF ConsumerInv, MonitorEndsFirst, KilledWhileHeld, Active
<1> QED
  BY <1>7, <1>8, <1>9, <1>10 DEF ConsumerInv

\* What a step keeps that leaves the claims, their handlers and monitors alone.
LEMMA OthersKeep ==
  ASSUME ConsumerInv,
         UNCHANGED <<checking, delivered, current, wg, hpc, epc, monitor, panic>>,
         \/ mainpc' = mainpc
         \/ mainpc = "lock" /\ mainpc' = "wait"
         \/ mainpc = "range" /\ mainpc' = "ended"
  PROVE  ConsumerInv'
<1>1. \A c \in ClaimIds : (Registered(c)' <=> Registered(c)) /\ (Started(c)' <=> Started(c))
  BY DEF Registered, Started
<1>2. ConsumerTypes'
  BY DEF ConsumerInv, ConsumerTypes
<1>3. Counted' /\ OnlyCurrent'
  BY <1>1 DEF ConsumerInv, Counted, OnlyCurrent
<1>4. MonitorEndsFirst' /\ KilledWhileHeld'
  BY DEF ConsumerInv, MonitorEndsFirst, KilledWhileHeld, Active
<1> QED
  BY <1>2, <1>3, <1>4 DEF ConsumerInv

LEMMA SpawnKeeps ==
  ASSUME ConsumerInv, Spawn PROVE ConsumerInv'
<1>1. /\ mainpc = "spawn" /\ mainpc' = "range"
      /\ hpc' = [hpc EXCEPT ![delivered] = "start"]
      /\ epc' = [epc EXCEPT ![delivered] = "start"]
      /\ UNCHANGED <<checking, delivered, current, wg, monitor>>
      /\ UNCHANGED panic /\ panic = 0
  BY DEF Spawn, Alive, claimVars, detectorVars
<1>2. /\ delivered \in ClaimIds /\ hpc \in [ClaimIds -> HandlerPcs]
      /\ epc \in [ClaimIds -> {"none", "start", "loop", "exited"}]
  BY <1>1 DEF ConsumerInv, ConsumerTypes
<1>3. /\ hpc'[delivered] = "start" /\ \A c \in ClaimIds : c # delivered => hpc'[c] = hpc[c]
      /\ epc'[delivered] = "start" /\ \A c \in ClaimIds : c # delivered => epc'[c] = epc[c]
  BY <1>1, <1>2
<1>4. /\ \A c \in ClaimIds : Registered(c)' <=> Registered(c)
      /\ \A c \in ClaimIds : Started(c)' <=> Started(c) \/ c = delivered
      /\ ~Started(delivered)
  BY <1>1, <1>2, ClaimsAssumption DEF Registered, Started, ClaimIds
<1>5. hpc[delivered] = "none" /\ epc[delivered] = "none"
  BY <1>2, <1>4 DEF ConsumerInv, Counted
<1>6. \A c \in ClaimIds : Left(hpc[c], epc[c])' = Left(hpc[c], epc[c])
  BY <1>3, <1>5 DEF Left
<1>7. ConsumerTypes'
  BY <1>1, <1>2 DEF ConsumerInv, ConsumerTypes, HandlerPcs
<1>8. Counted' /\ OnlyCurrent'
  BY <1>1, <1>3, <1>4, <1>6 DEF ConsumerInv, Counted, OnlyCurrent
<1>9. MonitorEndsFirst' /\ KilledWhileHeld'
  BY <1>1, <1>3, <1>5 DEF ConsumerInv, MonitorEndsFirst, KilledWhileHeld
<1> QED
  BY <1>7, <1>8, <1>9 DEF ConsumerInv
-----------------------------------------------------------------------------
(***************************************************************************)
(* The handlers.                                                           *)
(***************************************************************************)
\* A handler of a started claim moves; the WaitGroup is told when it is done.
LEMMA HandlersKeep ==
  ASSUME ConsumerInv, NEW c \in ClaimIds, Started(c),
         UNCHANGED <<checking, delivered, current, mainpc, panic>>, panic = 0,
         ConsumerTypes', MonitorEndsFirst',
         \A d \in ClaimIds : d # c => hpc'[d] = hpc[d] /\ epc'[d] = epc[d] /\ wg'[d] = wg[d],
         wg'[c] = wg[c] + Left(hpc'[c], epc'[c]) - Left(hpc[c], epc[c]),
         Left(hpc'[c], epc'[c]) <= Left(hpc[c], epc[c])
  PROVE  ConsumerInv'
<1>1. \A d \in ClaimIds : (Registered(d)' <=> Registered(d)) /\ (Started(d)' <=> Started(d))
  BY DEF Registered, Started
<1>2. Registered(c)
  BY DEF Registered, Started
<1>3. Left(hpc[c], epc[c]) \in Nat /\ Left(hpc'[c], epc'[c]) \in Nat
  BY DEF Left
<1>4. wg[c] = Left(hpc[c], epc[c])
  BY <1>2 DEF ConsumerInv, Counted
<1>5. wg'[c] = Left(hpc'[c], epc'[c])
  BY <1>3, <1>4
<1>6. Counted'
  BY <1>1, <1>5 DEF ConsumerInv, Counted
<1>7. OnlyCurrent'
  <2> SUFFICES ASSUME NEW d \in ClaimIds, Registered(d)
               PROVE  /\ current[Claims[d]] # 0
                      /\ current[Claims[d]] # d => Left(hpc'[d], epc'[d]) = 0
    BY <1>1 DEF OnlyCurrent
  <2>1. current[Claims[d]] # 0 /\ (current[Claims[d]] # d => Left(hpc[d], epc[d]) = 0)
    BY DEF ConsumerInv, OnlyCurrent
  <2> QED
    BY <1>3, <2>1
<1>8. KilledWhileHeld'
  BY DEF KilledWhileHeld
<1> QED
  BY <1>6, <1>7, <1>8 DEF ConsumerInv

LEMMA HandlerKeeps ==
  ASSUME ConsumerInv, NEW c \in ClaimIds, TakeMessage(c) \/ MessageHandler(c)
  PROVE  ConsumerInv'
<1>1. /\ hpc \in [ClaimIds -> HandlerPcs] /\ wg \in [ClaimIds -> Int]
      /\ monitor \in [ClaimIds -> {"none", "running", "exited"}]
  BY DEF ConsumerInv, ConsumerTypes
<1>2. /\ UNCHANGED <<checking, delivered, current, mainpc, epc, panic>> /\ panic = 0
      /\ hpc[c] # "none" /\ \E to \in HandlerPcs : hpc' = [hpc EXCEPT ![c] = to]
  BY DEF MessageHandler, HandlerStarts, TakeMessage, Processed, LeaveLoop, CloseProcessor, StopMonitor,
         CloseClaim, HandlerDone, HandlerEnds, HandlerMoves, HandlerPcs, closeVars, Alive
<1>3. Started(c)
  BY <1>2 DEF ConsumerInv, Counted
<1>4. hpc' \in [ClaimIds -> HandlerPcs] /\ \A d \in ClaimIds : d # c => hpc'[d] = hpc[d]
  BY <1>1, <1>2
<1> DEFINE Goal ==
      /\ wg' \in [ClaimIds -> Int]
      /\ monitor' \in [ClaimIds -> {"none", "running", "exited"}]
      /\ \A d \in ClaimIds : d # c => wg'[d] = wg[d] /\ monitor'[d] = monitor[d]
      /\ wg'[c] = wg[c] + Left(hpc'[c], epc[c]) - Left(hpc[c], epc[c])
      /\ Left(hpc'[c], epc[c]) <= Left(hpc[c], epc[c])
      /\ monitor'[c] = "running" =>
           checking /\ hpc'[c] \in {"loop", "process", "closing", "detector"}
<1>5. ASSUME HandlerStarts(c) PROVE Goal
  <2>1. hpc[c] = "start" /\ hpc'[c] = "loop" /\ wg' = wg
    BY <1>1, <1>5 DEF HandlerStarts, HandlerMoves
  <2>2. monitor' = [monitor EXCEPT ![c] = IF checking THEN "running" ELSE "none"]
    BY <1>5 DEF HandlerStarts
  <2>3. Left(hpc'[c], epc[c]) = Left(hpc[c], epc[c]) /\ Left(hpc[c], epc[c]) \in Nat
    BY <2>1 DEF Left
  <2>4. /\ monitor' \in [ClaimIds -> {"none", "running", "exited"}]
        /\ \A d \in ClaimIds : d # c => monitor'[d] = monitor[d]
        /\ monitor'[c] = "running" => checking
    BY <1>1, <2>2
  <2> QED
    BY <1>1, <2>1, <2>3, <2>4
<1>6. ASSUME TakeMessage(c) \/ Processed(c) \/ LeaveLoop(c) \/ CloseProcessor(c) PROVE Goal
  <2>1. /\ hpc[c] \in {"loop", "process", "closing"}
        /\ hpc'[c] \in {"loop", "process", "closing", "detector"}
        /\ wg' = wg /\ monitor' = monitor
    BY <1>1, <1>6 DEF TakeMessage, Processed, LeaveLoop, CloseProcessor, HandlerMoves, detectorVars
  <2>2. Left(hpc'[c], epc[c]) = Left(hpc[c], epc[c]) /\ Left(hpc[c], epc[c]) \in Nat
    BY <2>1 DEF Left
  <2>3. monitor[c] = "running" => checking
    BY DEF ConsumerInv, MonitorEndsFirst
  <2> QED
    BY <1>1, <2>1, <2>2, <2>3
<1>7. ASSUME StopMonitor(c) PROVE Goal
  <2>1. hpc[c] = "detector" /\ hpc'[c] = "close" /\ wg' = wg
    BY <1>1, <1>7 DEF StopMonitor, HandlerMoves
  <2>2. monitor' = [monitor EXCEPT ![c] = IF checking THEN "exited" ELSE monitor[c]]
    BY <1>7 DEF StopMonitor
  <2>3. Left(hpc'[c], epc[c]) = Left(hpc[c], epc[c]) /\ Left(hpc[c], epc[c]) \in Nat
    BY <2>1 DEF Left
  <2>4. monitor[c] = "running" => checking
    BY DEF ConsumerInv, MonitorEndsFirst
  <2>5. /\ monitor' \in [ClaimIds -> {"none", "running", "exited"}]
        /\ \A d \in ClaimIds : d # c => monitor'[d] = monitor[d]
        /\ monitor'[c] # "running"
    BY <1>1, <2>2, <2>4
  <2> QED
    BY <1>1, <2>1, <2>3, <2>5
<1>8. ASSUME CloseClaim(c) \/ HandlerEnds(c) PROVE Goal
  <2>1. /\ \/ hpc[c] = "close" /\ hpc'[c] = "done"
           \/ hpc[c] = "relock" /\ hpc'[c] = "exited"
        /\ wg' = wg /\ monitor' = monitor
    BY <1>1, <1>8 DEF CloseClaim, HandlerEnds, HandlerMoves, detectorVars
  <2>2. Left(hpc'[c], epc[c]) = Left(hpc[c], epc[c]) /\ Left(hpc[c], epc[c]) \in Nat
    BY <2>1 DEF Left
  <2>3. monitor[c] # "running"
    BY <2>1 DEF ConsumerInv, MonitorEndsFirst
  <2> QED
    BY <1>1, <2>1, <2>2, <2>3
<1>9. ASSUME HandlerDone(c) PROVE Goal
  <2>1. hpc[c] = "done" /\ hpc'[c] = "relock" /\ monitor' = monitor
    BY <1>1, <1>9 DEF HandlerDone, HandlerMoves, detectorVars
  <2>2. wg' = [wg EXCEPT ![c] = wg[c] - 1]
    BY <1>9 DEF HandlerDone
  <2>3. /\ Left(hpc'[c], epc[c]) = Left(hpc[c], epc[c]) - 1
        /\ Left(hpc[c], epc[c]) \in Nat
    BY <2>1 DEF Left
  <2>4. monitor[c] # "running"
    BY <2>1 DEF ConsumerInv, MonitorEndsFirst
  <2>5. wg' \in [ClaimIds -> Int] /\ wg'[c] = wg[c] - 1 /\ wg[c] \in Int
        /\ \A d \in ClaimIds : d # c => wg'[d] = wg[d]
    BY <1>1, <2>2
  <2> QED
    BY <1>1, <2>1, <2>3, <2>4, <2>5
<1>10. Goal
  BY <1>5, <1>6, <1>7, <1>8, <1>9 DEF MessageHandler
<1> HIDE DEF Goal
<1>11. ConsumerTypes'
  BY <1>2, <1>4, <1>10 DEF ConsumerInv, ConsumerTypes, Goal
<1>12. MonitorEndsFirst'
  BY <1>2, <1>4, <1>10 DEF ConsumerInv, MonitorEndsFirst, Goal
<1> QED
  BY <1>2, <1>3, <1>4, <1>10, <1>11, <1>12, HandlersKeep DEF Goal

LEMMA ErrorsKeep ==
  ASSUME ConsumerInv, NEW c \in ClaimIds, Errors(c) PROVE ConsumerInv'
<1>1. /\ epc \in [ClaimIds -> {"none", "start", "loop", "exited"}] /\ wg \in [ClaimIds -> Int]
  BY DEF ConsumerInv, ConsumerTypes
<1>2. /\ UNCHANGED <<checking, delivered, current, mainpc, hpc, monitor, panic>> /\ panic = 0
      /\ epc[c] # "none"
  BY DEF Errors, ErrorsStart, ErrorsEnd, ErrorsMove, claimVars, detectorVars, Alive
<1>3. Started(c)
  BY <1>2 DEF ConsumerInv, Counted
<1>4. MonitorEndsFirst'
  BY <1>2 DEF ConsumerInv, MonitorEndsFirst
<1>5. CASE ErrorsStart(c)
  <2>1. epc[c] = "start" /\ epc' = [epc EXCEPT ![c] = "loop"] /\ wg' = wg
    BY <1>5 DEF ErrorsStart, ErrorsMove
  <2>2. /\ epc' \in [ClaimIds -> {"none", "start", "loop", "exited"}] /\ epc'[c] = "loop"
        /\ \A d \in ClaimIds : d # c => epc'[d] = epc[d]
    BY <1>1, <2>1
  <2>3. ConsumerTypes'
    BY <1>2, <2>1, <2>2 DEF ConsumerInv, ConsumerTypes
  <2>4. Left(hpc'[c], epc'[c]) = Left(hpc[c], epc[c]) /\ Left(hpc[c], epc[c]) \in Nat
    BY <1>2, <2>1, <2>2 DEF Left
  <2> QED
    BY <1>1, <1>2, <1>3, <1>4, <2>1, <2>2, <2>3, <2>4, HandlersKeep
<1>6. CASE ErrorsEnd(c)
  <2>1. /\ epc[c] = "loop" /\ epc' = [epc EXCEPT ![c] = "exited"]
        /\ wg' = [wg EXCEPT ![c] = wg[c] - 1]
    BY <1>6 DEF ErrorsEnd, ErrorsMove
  <2>2. /\ epc' \in [ClaimIds -> {"none", "start", "loop", "exited"}] /\ epc'[c] = "exited"
        /\ \A d \in ClaimIds : d # c => epc'[d] = epc[d]
    BY <1>1, <2>1
  <2>3. /\ wg' \in [ClaimIds -> Int] /\ wg'[c] = wg[c] - 1 /\ wg[c] \in Int
        /\ \A d \in ClaimIds : d # c => wg'[d] = wg[d]
    BY <1>1, <2>1
  <2>4. ConsumerTypes'
    BY <1>2, <2>2, <2>3 DEF ConsumerInv, ConsumerTypes
  <2>5. Left(hpc'[c], epc'[c]) = Left(hpc[c], epc[c]) - 1 /\ Left(hpc[c], epc[c]) \in Nat
    BY <1>2, <2>1, <2>2 DEF Left
  <2> QED
    BY <1>2, <1>3, <1>4, <2>2, <2>3, <2>4, <2>5, HandlersKeep
<1> QED
  BY <1>5, <1>6 DEF Errors
-----------------------------------------------------------------------------
\* The process dies over a partition in the hands of its handler, or over none.
LEMMA TicksKeep ==
  ASSUME ConsumerInv, TickAll \/ \E c \in ClaimIds : Tick(c) PROVE ConsumerInv'
<1>1. UNCHANGED <<checking, delivered, current, wg, mainpc, hpc, epc, monitor>>
  BY DEF TickAll, Tick, claimVars, claimHandlerVars
<1>2. \A c \in ClaimIds : (Registered(c)' <=> Registered(c)) /\ (Started(c)' <=> Started(c))
  BY <1>1 DEF Registered, Started
<1>3. ConsumerTypes'
  BY <1>1 DEF ConsumerInv, ConsumerTypes
<1>4. Counted' /\ OnlyCurrent' /\ MonitorEndsFirst'
  BY <1>1, <1>2 DEF ConsumerInv, Counted, OnlyCurrent, MonitorEndsFirst
<1>5. KilledWhileHeld'
  <2>1. CASE TickAll
    BY <2>1 DEF TickAll, KilledWhileHeld
  <2>2. ASSUME NEW c \in ClaimIds, Tick(c) PROVE KilledWhileHeld'
    <3>1. monitor[c] = "running" /\ (panic' = c \/ panic' = panic)
      BY <2>2 DEF Tick
    <3>2. hpc'[c] \in {"loop", "process", "closing", "detector"}
      BY <1>1, <3>1 DEF ConsumerInv, MonitorEndsFirst
    <3>3. Active(c)'
      BY <3>2 DEF Active
    <3>4. CASE panic' = panic
      BY <1>1, <3>4 DEF ConsumerInv, KilledWhileHeld, Active
    <3> QED
      BY <3>1, <3>3, <3>4 DEF KilledWhileHeld
  <2> QED
    BY <2>1, <2>2
<1> QED
  BY <1>3, <1>4, <1>5 DEF ConsumerInv

LEMMA ConsumerStep == ConsumerInv /\ [ConsumerNext]_consumerVars => ConsumerInv'
<1> SUFFICES ASSUME ConsumerInv, [ConsumerNext]_consumerVars PROVE ConsumerInv'
  OBVIOUS
<1> USE DEF claimVars, claimHandlerVars, detectorVars, closeVars
<1>1. CASE MainLocks
  <2>1. CASE current[Partition] = 0 /\ Register
    BY <1>1, <2>1, RegisterKeeps DEF MainLocks
  <2>2. CASE ~(current[Partition] = 0 /\ Register)
    <3>1. /\ UNCHANGED <<checking, delivered, current, wg, hpc, epc, monitor, panic>>
          /\ mainpc = "lock" /\ mainpc' = "wait"
      BY <1>1, <2>2 DEF MainLocks
    <3> QED
      BY <3>1, OthersKeep
  <2> QED
    BY <2>1, <2>2
<1>2. CASE MainWaited
  <2>1. /\ mainpc = "wait" /\ Register /\ wg[current[Partition]] = 0
        /\ UNCHANGED <<checking, delivered, hpc, epc, monitor, panic>>
    BY <1>2 DEF MainWaited
  <2>2. current[Partition] \in ClaimIds \cup {0}
    <3>1. delivered \in ClaimIds /\ current \in [Partitions -> ClaimIds \cup {0}]
      BY <2>1 DEF ConsumerInv, ConsumerTypes
    <3> QED
      BY <3>1 DEF Partition, Partitions
  <2> QED
    BY <2>1, <2>2, RegisterKeeps
<1>3. CASE MainEnds
  <2>1. /\ UNCHANGED <<checking, delivered, current, wg, hpc, epc, monitor, panic>>
        /\ mainpc = "range" /\ mainpc' = "ended"
    BY <1>3 DEF MainEnds
  <2> QED
    BY <2>1, OthersKeep
<1>4. CASE CallClose \/ Close
  <2>1. UNCHANGED <<checking, delivered, current, wg, hpc, epc, monitor, panic, mainpc>>
    BY <1>4 DEF CallClose, Close, CloseLocks, CloseNext, CloseWaited, CloseUnlocks, CloseDetector,
                CloseInternal, CloseMoves
  <2> QED
    BY <2>1, OthersKeep
<1>5. CASE (\E c \in ClaimIds : Revoke(c)) \/ UNCHANGED consumerVars
  <2>1. UNCHANGED <<checking, delivered, current, wg, hpc, epc, monitor, panic, mainpc>>
    BY <1>5 DEF Revoke, consumerVars
  <2> QED
    BY <2>1, OthersKeep
<1> QED
  BY <1>1, <1>2, <1>3, <1>4, <1>5, DeliverKeeps, SpawnKeeps, HandlerKeeps, ErrorsKeep, TicksKeep
    DEF ConsumerNext, Main

\* The inductive invariant of the ingester's consumer.
THEOREM ConsumerInvariant == ConsumerSpec => []ConsumerInv
BY ConsumerInvInit, ConsumerStep, PTL DEF ConsumerSpec

\* Two claims on one partition never have handlers at the same time, however often and
\* however quickly it is taken back and assigned again (consumer.go:83-90).
THEOREM HandlersNeverOverlap == ConsumerSpec => []OneHandlerPerPartition
<1>1. ConsumerInv => OneHandlerPerPartition
  <2> SUFFICES ASSUME ConsumerInv, NEW c \in ClaimIds, NEW d \in ClaimIds,
                      c # d, Claims[c] = Claims[d],
                      Active(c) \/ epc[c] \in {"start", "loop"},
                      Active(d) \/ epc[d] \in {"start", "loop"}
               PROVE  FALSE
    BY DEF OneHandlerPerPartition
  <2>1. ASSUME NEW e \in ClaimIds, Active(e) \/ epc[e] \in {"start", "loop"}
        PROVE  current[Claims[e]] = e
    <3>1. Started(e)
      BY <2>1 DEF ConsumerInv, Counted, Active
    <3>2. Registered(e)
      BY <3>1 DEF Started, Registered
    <3>3. Left(hpc[e], epc[e]) # 0
      BY <2>1 DEF Left, Active
    <3> QED
      BY <3>2, <3>3 DEF ConsumerInv, OnlyCurrent
  <2> QED
    BY <2>1
<1> QED
  BY <1>1, ConsumerInvariant, PTL

\* A monitor never kills the process over a partition whose handler has given it back
\* (deadlock_detector.go:118-124, consumer.go:131-132).
THEOREM MonitorKillsOnlyHeld == ConsumerSpec => []KillsOverHeldPartition
<1>1. ConsumerInv => KillsOverHeldPartition
  BY DEF ConsumerInv, KilledWhileHeld, KillsOverHeldPartition
<1> QED
  BY <1>1, ConsumerInvariant, PTL
=============================================================================
