--------------------------- MODULE SelfTimeProofs ---------------------------
(***************************************************************************)
(* The self time of a span is the time no callee covers, for every number  *)
(* of callees and every placement of them in which none starts before it;  *)
(* and it is never less, wherever the callees start.                       *)
(***************************************************************************)
EXTENDS SelfTime, TLAPS, FiniteSetTheorems

\* Type invariant of the sweep.
SweepTypeOK ==
  /\ IsSpan(span)
  /\ arrows \subseteq ArrowsOf(span)
  /\ jobCounter \in Int /\ timeCounter \in Int /\ prevTime \in Nat
  /\ done \in BOOLEAN

\* The callees the sweep is inside of.
Open ==
  {c \in 1..NumCallees : Forward(span, c) \notin arrows /\ Receive(span, c) \in arrows}

\* The instants before m that no callee covers.
UncoveredBefore(m) ==
  {n \in span.start..(m - 1) :
     \A c \in 1..NumCallees : ~(span.callees[c].start <= n /\ n < span.callees[c].end)}

\* The sweep has visited the arrows before m and none after it.
Cut(m) ==
  /\ \A v \in ArrowsOf(span) \ arrows : v.time <= m
  /\ \A a \in arrows : m <= a.time

\* What has been counted, with the stretch since prevTime that will be counted
\* next when no callee is open.
CountedUpTo(m) == timeCounter + (IF jobCounter = 0 THEN m - prevTime ELSE 0)

\* Invariant of the loop: it goes through the arrows in the order of their times, a
\* callee's begin before its end; jobCounter counts the open callees; and at every
\* instant the sweep has reached, the uncovered time up to it is accounted for.  The
\* begin arrow is the first one if no callee starts before the span.
InSweep ==
  /\ Terminate(span) \in arrows
  /\ \A v \in ArrowsOf(span) \ arrows, a \in arrows : v.time <= a.time
  /\ \A c \in 1..NumCallees : Forward(span, c) \in arrows => Receive(span, c) \in arrows
  /\ jobCounter = Cardinality(Open)
  /\ timeCounter >= 0
  /\ \A a \in arrows : prevTime <= a.time
  /\ InOrder /\ Begin(span) \in arrows =>
       arrows = ArrowsOf(span) /\ jobCounter = 0 /\ timeCounter = 0
  /\ Begin(span) \notin arrows =>
       \A m \in Nat : Cut(m) =>
         /\ CountedUpTo(m) >= Cardinality(UncoveredBefore(m))
         /\ InOrder => CountedUpTo(m) = Cardinality(UncoveredBefore(m))

SweepInv ==
  /\ SweepTypeOK
  /\ ~done => InSweep
  /\ SelfTimeIsUncovered
  /\ SelfTimeMissesNothing
-----------------------------------------------------------------------------
(***************************************************************************)
(* The arrows of a span.                                                   *)
(***************************************************************************)
\* Every arrow of a span is one of the four kinds, with a time.
LEMMA ArrowTypes ==
  ASSUME NEW sp, IsSpan(sp), NEW a \in ArrowsOf(sp)
  PROVE  /\ a.time \in Nat
         /\ a.superscript \in {"begin", "forward", "receive", "terminate"}
         /\ a.superscript = "begin" => a = Begin(sp)
         /\ a.superscript = "terminate" => a = Terminate(sp)
         /\ a.superscript = "forward" => \E c \in 1..NumCallees : a = Forward(sp, c)
         /\ a.superscript = "receive" => \E c \in 1..NumCallees : a = Receive(sp, c)
<1>1. CASE a \in {Begin(sp), Terminate(sp)}
  <2>1. sp.start \in Nat /\ sp.end \in Nat
    BY SweepAssumption, SMT DEF IsSpan
  <2> QED
    BY <1>1, <2>1 DEF Begin, Terminate, Arrow
<1>2. CASE \E c \in DOMAIN sp.callees : a = Forward(sp, c) \/ a = Receive(sp, c)
  <2>1. PICK c \in 1..NumCallees : a = Forward(sp, c) \/ a = Receive(sp, c)
    BY <1>2 DEF IsSpan
  <2>2. sp.callees[c].start \in Nat /\ sp.callees[c].end \in Nat
    BY SweepAssumption, SMT DEF IsSpan, Interval
  <2> QED
    BY <2>1, <2>2 DEF Forward, Receive, Arrow
<1> QED
  BY <1>1, <1>2 DEF ArrowsOf

\* The times of a span, and its arrows.
LEMMA SpanTimes ==
  ASSUME NEW sp, IsSpan(sp)
  PROVE  /\ sp.start \in Nat /\ sp.end \in Nat /\ sp.start <= sp.end
         /\ Begin(sp) \in ArrowsOf(sp) /\ Terminate(sp) \in ArrowsOf(sp)
         /\ Begin(sp).time = sp.start /\ Begin(sp).superscript = "begin"
         /\ Terminate(sp).time = sp.end /\ Terminate(sp).superscript = "terminate"
<1>1. sp.start \in Nat /\ sp.end \in Nat /\ sp.start <= sp.end
  BY SweepAssumption, SMT DEF IsSpan
<1> QED
  BY <1>1 DEF ArrowsOf, Begin, Terminate, Arrow

\* The two arrows of a callee; no other arrow is equal to one of them.
LEMMA CalleeArrows ==
  ASSUME NEW sp, IsSpan(sp), NEW c \in 1..NumCallees
  PROVE  /\ Forward(sp, c) \in ArrowsOf(sp) /\ Receive(sp, c) \in ArrowsOf(sp)
         /\ Forward(sp, c).time = sp.callees[c].start
         /\ Receive(sp, c).time = sp.callees[c].end
         /\ Forward(sp, c).superscript = "forward" /\ Receive(sp, c).superscript = "receive"
         /\ sp.callees[c].start \in Nat /\ sp.callees[c].end \in Nat
         /\ sp.callees[c].start <= sp.callees[c].end
         /\ \A d \in 1..NumCallees : /\ Forward(sp, d) = Forward(sp, c) => d = c
                                     /\ Receive(sp, d) = Receive(sp, c) => d = c
<1>1. /\ sp.callees[c].start \in Nat /\ sp.callees[c].end \in Nat
      /\ sp.callees[c].start <= sp.callees[c].end
      /\ DOMAIN sp.callees = 1..NumCallees
  BY SweepAssumption, SMT DEF IsSpan, Interval
<1>2. Forward(sp, c) \in ArrowsOf(sp) /\ Receive(sp, c) \in ArrowsOf(sp)
  BY <1>1 DEF ArrowsOf
<1>3. \A d : Forward(sp, d).name = d /\ Receive(sp, d).name = d
  BY DEF Forward, Receive, Arrow
<1>4. \A d \in 1..NumCallees : /\ Forward(sp, d) = Forward(sp, c) => d = c
                               /\ Receive(sp, d) = Receive(sp, c) => d = c
  BY <1>3
<1> QED
  BY <1>1, <1>2, <1>4 DEF Forward, Receive, Arrow

\* If no callee starts before the span no arrow precedes its begin.
LEMMA NothingBeforeBegin ==
  ASSUME InOrder, IsSpan(span), NEW a \in ArrowsOf(span)
  PROVE  span.start <= a.time
<1>1. CASE a.superscript \in {"begin", "terminate"}
  BY <1>1, ArrowTypes, SpanTimes
<1>2. ASSUME NEW c \in 1..NumCallees, a = Forward(span, c) \/ a = Receive(span, c)
      PROVE  span.start <= a.time
  <2>1. /\ span.start \in Nat /\ span.start <= span.callees[c].start
        /\ span.callees[c].start \in Nat /\ span.callees[c].end \in Nat
        /\ span.callees[c].start <= span.callees[c].end
    BY CalleeArrows, SpanTimes DEF InOrder
  <2>2. a.time \in {span.callees[c].start, span.callees[c].end}
    BY <1>2, CalleeArrows
  <2> QED
    BY <2>1, <2>2, SMT
<1> QED
  BY <1>1, <1>2, ArrowTypes
-----------------------------------------------------------------------------
(***************************************************************************)
(* Counting uncovered instants.                                            *)
(***************************************************************************)
\* There are finitely many, none before the span begins.
LEMMA UncoveredFinite ==
  ASSUME IsSpan(span), NEW m \in Nat
  PROVE  /\ IsFiniteSet(UncoveredBefore(m))
         /\ Cardinality(UncoveredBefore(m)) \in Nat
         /\ Cardinality(UncoveredBefore(m)) <= IF span.start <= m THEN m - span.start ELSE 0
<1>1. span.start \in Int /\ m - 1 \in Int /\ m \in Int
  BY SpanTimes, SMT
<1>2. /\ IsFiniteSet(span.start..(m - 1))
      /\ Cardinality(span.start..(m - 1))
           = IF span.start > m - 1 THEN 0 ELSE (m - 1) - span.start + 1
  BY <1>1, FS_Interval
<1>3. UncoveredBefore(m) \in SUBSET (span.start..(m - 1))
  BY DEF UncoveredBefore
<1>4. /\ IsFiniteSet(UncoveredBefore(m))
      /\ Cardinality(UncoveredBefore(m)) <= Cardinality(span.start..(m - 1))
      /\ Cardinality(UncoveredBefore(m)) \in Nat
  BY <1>2, <1>3, FS_Subset, FS_CardinalityType
<1> QED
  BY <1>1, <1>2, <1>4, SMT

\* A stretch that callees cover throughout adds nothing; one that no callee touches
\* adds its length.
LEMMA StretchCounts ==
  ASSUME IsSpan(span), NEW k \in Nat, NEW m \in Nat, span.start <= k, k <= m,
         NEW covered \in BOOLEAN,
         \A n \in k..(m - 1) :
           covered <=> \E c \in 1..NumCallees :
                         span.callees[c].start <= n /\ n < span.callees[c].end
  PROVE  Cardinality(UncoveredBefore(m))
           = Cardinality(UncoveredBefore(k)) + (IF covered THEN 0 ELSE m - k)
<1>0. span.start \in Nat
  BY SpanTimes
<1>1. /\ IsFiniteSet(UncoveredBefore(k)) /\ Cardinality(UncoveredBefore(k)) \in Nat
      /\ IsFiniteSet(UncoveredBefore(m)) /\ Cardinality(UncoveredBefore(m)) \in Nat
  BY UncoveredFinite
<1>2. CASE covered
  <2>1. UncoveredBefore(m) = UncoveredBefore(k)
    <3>1. ASSUME NEW n \in UncoveredBefore(m) PROVE n \in UncoveredBefore(k)
      <4>1. n \in span.start..(m - 1) /\ n \notin k..(m - 1)
        BY <1>2, <3>1 DEF UncoveredBefore
      <4>2. n \in span.start..(k - 1)
        BY <1>0, <4>1, SMT
      <4> QED
        BY <3>1, <4>2 DEF UncoveredBefore
    <3>2. ASSUME NEW n \in UncoveredBefore(k) PROVE n \in UncoveredBefore(m)
      <4>1. n \in span.start..(m - 1)
        BY <1>0, <3>2, SMT DEF UncoveredBefore
      <4> QED
        BY <3>2, <4>1 DEF UncoveredBefore
    <3> QED
      BY <3>1, <3>2
  <2> QED
    BY <1>1, <1>2, <2>1, SMT
<1>3. CASE ~covered
  <2>1. UncoveredBefore(m) = UncoveredBefore(k) \cup (k..(m - 1))
    <3>1. ASSUME NEW n \in UncoveredBefore(m), n \notin k..(m - 1)
          PROVE  n \in UncoveredBefore(k)
      <4>1. n \in span.start..(k - 1)
        BY <1>0, <3>1, SMT DEF UncoveredBefore
      <4> QED
        BY <3>1, <4>1 DEF UncoveredBefore
    <3>2. ASSUME NEW n \in UncoveredBefore(k) PROVE n \in UncoveredBefore(m)
      <4>1. n \in span.start..(m - 1)
        BY <1>0, <3>2, SMT DEF UncoveredBefore
      <4> QED
        BY <3>2, <4>1 DEF UncoveredBefore
    <3>3. ASSUME NEW n \in k..(m - 1) PROVE n \in UncoveredBefore(m)
      <4>1. n \in span.start..(m - 1)
        BY <1>0, SMT
      <4> QED
        BY <1>3, <3>3, <4>1 DEF UncoveredBefore
    <3> QED
      BY <3>1, <3>2, <3>3
  <2>2. UncoveredBefore(k) \cap (k..(m - 1)) = {}
    BY <1>0, SMT DEF UncoveredBefore
  <2>3. IsFiniteSet(k..(m - 1)) /\ Cardinality(k..(m - 1)) = m - k
    <3>1. k \in Int /\ m - 1 \in Int
      BY SMT
    <3>2. /\ IsFiniteSet(k..(m - 1))
          /\ Cardinality(k..(m - 1)) = IF k > m - 1 THEN 0 ELSE (m - 1) - k + 1
      BY <3>1, FS_Interval
    <3> QED
      BY <3>2, SMT
  <2>4. Cardinality(UncoveredBefore(m))
          = Cardinality(UncoveredBefore(k)) + Cardinality(k..(m - 1)) - 0
    <3>1. Cardinality(UncoveredBefore(k) \cup (k..(m - 1)))
            = Cardinality(UncoveredBefore(k)) + Cardinality(k..(m - 1))
                - Cardinality(UncoveredBefore(k) \cap (k..(m - 1)))
      BY <1>1, <2>3, FS_Union
    <3>2. Cardinality(UncoveredBefore(k) \cap (k..(m - 1))) = 0
      BY <2>2, FS_EmptySet
    <3> QED
      BY <2>1, <3>1, <3>2
  <2> QED
    BY <1>1, <1>3, <2>3, <2>4, SMT
<1> QED
  BY <1>2, <1>3
-----------------------------------------------------------------------------
(***************************************************************************)
(* One turn of the loop.                                                   *)
(***************************************************************************)
\* A turn of the loop at an arrow: which of the four, and what they share.
Visit(a) == VisitBegin(a) \/ VisitForward(a) \/ VisitReceive(a) \/ VisitTerminate(a)

\* A turn of the loop keeps the types.
LEMMA SweepTypes ==
  ASSUME SweepTypeOK, NEW a \in arrows, Visit(a)
  PROVE  SweepTypeOK'
<1>1. arrows' = arrows \ {a} /\ span' = span
  BY DEF Visit, VisitBegin, VisitForward, VisitReceive, VisitTerminate, At
<1>2. /\ jobCounter \in Int /\ timeCounter \in Int /\ prevTime \in Nat /\ a.time \in Nat
      /\ IsSpan(span) /\ arrows \subseteq ArrowsOf(span) /\ done \in BOOLEAN
  BY ArrowTypes DEF SweepTypeOK
<1>3. jobCounter' \in Int /\ timeCounter' \in Int /\ prevTime' \in Nat
  BY <1>2, SMT DEF Visit, VisitBegin, VisitForward, VisitReceive, VisitTerminate
<1>4. done' \in BOOLEAN
  BY <1>2 DEF Visit, VisitBegin, VisitForward, VisitReceive, VisitTerminate
<1> QED
  BY <1>1, <1>2, <1>3, <1>4 DEF SweepTypeOK

\* The arrow that is visited is an earliest one; the span ends after it has begun, and
\* a callee too; and no arrow comes before the begin arrow if no callee starts before.
LEMMA VisitOrder ==
  ASSUME SweepTypeOK, NEW a \in arrows, At(a)
  PROVE  /\ \A b \in arrows : a.time <= b.time
         /\ InOrder /\ Begin(span) \in arrows => a = Begin(span)
         /\ a = Terminate(span) => Begin(span) \notin arrows
         /\ \A c \in 1..NumCallees :
              a = Receive(span, c) => Forward(span, c) \notin arrows
<1>1. /\ \A b \in arrows : ~Before(b, a)
      /\ IsSpan(span) /\ arrows \subseteq ArrowsOf(span)
  BY DEF At, SweepTypeOK
<1>2. \A b \in arrows : b.time \in Nat
  BY <1>1, ArrowTypes
<1>3. \A b \in arrows : a.time <= b.time
  BY <1>1, <1>2, SMT DEF Before
<1>4. ASSUME Begin(span) \in arrows, a # Begin(span), InOrder \/ a = Terminate(span)
      PROVE  FALSE
  <2>1. a.superscript \in {"forward", "receive", "terminate"}
    BY <1>1, <1>4, ArrowTypes
  <2>2. Rank[Begin(span).superscript] < Rank[a.superscript]
    BY <1>1, <2>1, SpanTimes, SMT DEF Rank
  <2>3. Begin(span).time <= a.time /\ Begin(span).time \in Nat /\ a.time \in Nat
    <3>1. span.start <= a.time
      BY <1>1, <1>4, SpanTimes, NothingBeforeBegin
    <3> QED
      BY <1>1, <1>2, <3>1, SpanTimes
  <2>4. Before(Begin(span), a)
    BY <2>2, <2>3, SMT DEF Before
  <2> QED
    BY <1>1, <1>4, <2>4
<1>5. ASSUME NEW c \in 1..NumCallees, a = Receive(span, c), Forward(span, c) \in arrows
      PROVE  FALSE
  <2>1. /\ Forward(span, c).time <= a.time
        /\ Forward(span, c).time \in Nat /\ a.time \in Nat
        /\ Forward(span, c).superscript = "forward" /\ a.superscript = "receive"
    BY <1>1, <1>5, CalleeArrows
  <2>2. Before(Forward(span, c), a)
    BY <2>1, SMT DEF Before, Rank
  <2> QED
    BY <1>1, <1>5, <2>2
<1>6. Begin(span) # Terminate(span)
  BY <1>1, SpanTimes
<1> QED
  BY <1>3, <1>4, <1>5, <1>6

\* What a turn does to the open callees, and jobCounter with them.
LEMMA JobsAreOpenCallees ==
  ASSUME SweepTypeOK, InSweep, NEW a \in arrows, Visit(a)
  PROVE  /\ IsFiniteSet(Open') /\ jobCounter' = Cardinality(Open')
         /\ jobCounter' \in Nat /\ jobCounter \in Nat
         /\ VisitReceive(a) => jobCounter > 0
<1>1. /\ IsSpan(span) /\ arrows \subseteq ArrowsOf(span)
      /\ arrows' = arrows \ {a} /\ span' = span /\ At(a)
      /\ jobCounter = Cardinality(Open)
  BY DEF Visit, VisitBegin, VisitForward, VisitReceive, VisitTerminate, At, SweepTypeOK,
         InSweep
<1>2. IsFiniteSet(Open) /\ Cardinality(Open) \in Nat
  <2>1. IsFiniteSet(1..NumCallees)
    BY SweepAssumption, FS_Interval, SMT
  <2> QED
    BY <2>1, FS_Subset, FS_CardinalityType DEF Open
<1>3. \A c \in 1..NumCallees :
        /\ Forward(span, c) \in arrows' <=> Forward(span, c) \in arrows /\ a # Forward(span, c)
        /\ Receive(span, c) \in arrows' <=> Receive(span, c) \in arrows /\ a # Receive(span, c)
  BY <1>1
<1>4. Open' = {c \in 1..NumCallees : Forward(span, c) \notin arrows' /\ Receive(span, c) \in arrows'}
  BY <1>1 DEF Open
<1>5. CASE VisitForward(a)
  <2>1. PICK c \in 1..NumCallees : a = Forward(span, c)
    BY <1>1, <1>5, ArrowTypes DEF VisitForward
  <2>2. Receive(span, c) \in arrows /\ c \notin Open
    BY <2>1 DEF InSweep, Open
  <2>3. Open' = Open \cup {c}
    <3>1. \A d \in 1..NumCallees : a # Receive(span, d) /\ (a = Forward(span, d) => d = c)
      BY <1>1, <2>1, CalleeArrows
    <3> QED
      BY <1>3, <1>4, <2>1, <2>2, <3>1 DEF Open
  <2>4. IsFiniteSet(Open') /\ Cardinality(Open') = Cardinality(Open) + 1
    BY <1>2, <2>2, <2>3, FS_AddElement
  <2> QED
    BY <1>1, <1>2, <1>5, <2>4, SMT DEF VisitForward, VisitReceive
<1>6. CASE VisitReceive(a)
  <2>1. PICK c \in 1..NumCallees : a = Receive(span, c)
    BY <1>1, <1>6, ArrowTypes DEF VisitReceive
  <2>2. c \in Open
    BY <1>1, <2>1, VisitOrder DEF Open
  <2>3. Open' = Open \ {c}
    <3>1. \A d \in 1..NumCallees : a # Forward(span, d) /\ (a = Receive(span, d) => d = c)
      BY <1>1, <2>1, CalleeArrows
    <3> QED
      BY <1>3, <1>4, <2>1, <3>1 DEF Open
  <2>4. /\ IsFiniteSet(Open') /\ Cardinality(Open') = Cardinality(Open) - 1
        /\ Cardinality(Open') \in Nat
    BY <1>2, <2>2, <2>3, FS_RemoveElement, FS_CardinalityType
  <2> QED
    BY <1>1, <1>2, <1>6, <2>4, SMT DEF VisitReceive
<1>7. CASE VisitBegin(a) \/ VisitTerminate(a)
  <2>1. a.superscript \in {"begin", "terminate"} /\ jobCounter' = jobCounter
    BY <1>7 DEF VisitBegin, VisitTerminate
  <2>2. \A c \in 1..NumCallees : a # Forward(span, c) /\ a # Receive(span, c)
    BY <1>1, <2>1, CalleeArrows
  <2>3. Open' = Open
    BY <1>3, <1>4, <2>2 DEF Open
  <2> QED
    BY <1>1, <1>2, <2>1, <2>3 DEF VisitReceive
<1> QED
  BY <1>5, <1>6, <1>7 DEF Visit

\* Between two arrows that are visited one after the other an instant is covered
\* exactly if a callee is open; left is the set of arrows not yet visited.
LEMMA CoveredWhileOpen ==
  ASSUME IsSpan(span), NEW left \in SUBSET ArrowsOf(span),
         \A c \in 1..NumCallees : Forward(span, c) \in left => Receive(span, c) \in left,
         NEW k \in Nat, NEW m \in Nat,
         \A v \in ArrowsOf(span) \ left : v.time <= k,
         \A b \in left : m <= b.time,
         NEW n \in k..(m - 1)
  PROVE  (\E c \in 1..NumCallees : Forward(span, c) \notin left /\ Receive(span, c) \in left) <=> \E c \in 1..NumCallees :
                         span.callees[c].start <= n /\ n < span.callees[c].end
<1>1. ASSUME NEW c \in 1..NumCallees
      PROVE  Forward(span, c) \notin left /\ Receive(span, c) \in left
               <=> span.callees[c].start <= n /\ n < span.callees[c].end
  <2>1. /\ Forward(span, c) \in ArrowsOf(span) /\ Receive(span, c) \in ArrowsOf(span)
        /\ Forward(span, c).time = span.callees[c].start
        /\ Receive(span, c).time = span.callees[c].end
        /\ span.callees[c].start \in Nat /\ span.callees[c].end \in Nat
    BY CalleeArrows
  <2>2. IF Forward(span, c) \in left THEN m <= span.callees[c].start
                                       ELSE span.callees[c].start <= k
    BY <2>1
  <2>3. IF Receive(span, c) \in left THEN m <= span.callees[c].end
                                       ELSE span.callees[c].end <= k
    BY <2>1
  <2>4. n \in Int /\ k <= n /\ n < m
    BY SMT
  <2>5. Forward(span, c) \notin left <=> span.callees[c].start <= n
    BY <2>1, <2>2, <2>4, SMT
  <2>6. Receive(span, c) \in left <=> n < span.callees[c].end
    BY <2>1, <2>3, <2>4, SMT
  <2> QED
    BY <2>5, <2>6
<1> QED
  BY <1>1

\* The invariant before the first turn.
LEMMA SweepInit ==
  ASSUME Init
  PROVE  SweepInv
<1>1. IsSpan(span) /\ arrows = ArrowsOf(span)
  BY DEF Init, SpanSet
<1>2. jobCounter = 0 /\ timeCounter = 0 /\ prevTime = 0 /\ done = FALSE
  BY DEF Init
<1>3. SweepTypeOK
  <2>1. jobCounter \in Int /\ timeCounter \in Int /\ prevTime \in Nat
    BY <1>2, SMT
  <2> QED
    BY <1>1, <1>2, <2>1 DEF SweepTypeOK
<1>4. InSweep
  <2>1. Begin(span) \in arrows /\ Terminate(span) \in arrows
    BY <1>1, SpanTimes
  <2>2. \A c \in 1..NumCallees : Forward(span, c) \in arrows /\ Receive(span, c) \in arrows
    BY <1>1, CalleeArrows
  <2>3. Open = {}
    BY <2>2 DEF Open
  <2>4. Cardinality(Open) = 0
    BY <2>3, FS_EmptySet
  <2>5. timeCounter >= 0 /\ \A b \in arrows : prevTime <= b.time
    <3>1. \A b \in arrows : b.time \in Nat
      BY <1>1, ArrowTypes
    <3> QED
      BY <1>2, <3>1, SMT
  <2> QED
    BY <1>1, <1>2, <2>1, <2>2, <2>4, <2>5 DEF InSweep
<1> QED
  BY <1>2, <1>3, <1>4 DEF SweepInv, SelfTimeIsUncovered, SelfTimeMissesNothing

\* When the loop is at an arrow, the uncovered time before it has been counted or
\* is the stretch since prevTime.
LEMMA CountedAtArrow ==
  ASSUME SweepTypeOK, InSweep, NEW a \in arrows, At(a), Begin(span) \notin arrows
  PROVE  /\ CountedUpTo(a.time) >= Cardinality(UncoveredBefore(a.time))
         /\ InOrder => CountedUpTo(a.time) = Cardinality(UncoveredBefore(a.time))
<1>1. \A b \in arrows : a.time <= b.time
  BY VisitOrder
<1>2. \A v \in ArrowsOf(span) \ arrows : v.time <= a.time
  BY DEF InSweep
<1>3. a.time \in Nat
  BY ArrowTypes DEF SweepTypeOK
<1> QED
  BY <1>1, <1>2, <1>3 DEF InSweep, Cut

\* A turn that does not end the loop.
LEMMA SweepGoesOn ==
  ASSUME SweepTypeOK, InSweep, NEW a \in arrows,
         VisitBegin(a) \/ VisitForward(a) \/ VisitReceive(a)
  PROVE  InSweep'
<1>1. /\ arrows' = arrows \ {a} /\ span' = span /\ At(a) /\ Visit(a)
      /\ IsSpan(span) /\ arrows \subseteq ArrowsOf(span) /\ (InOrder' <=> InOrder)
      /\ jobCounter \in Int /\ timeCounter \in Int /\ prevTime \in Nat
  BY DEF Visit, VisitBegin, VisitForward, VisitReceive, At, SweepTypeOK, InOrder
<1>2. \A b \in ArrowsOf(span) : b.time \in Nat
  BY <1>1, ArrowTypes
<1>3. /\ \A b \in arrows : a.time <= b.time
      /\ InOrder /\ Begin(span) \in arrows => a = Begin(span)
      /\ \A c \in 1..NumCallees : a = Receive(span, c) => Forward(span, c) \notin arrows
  BY <1>1, VisitOrder
<1>4. Terminate(span) \in arrows'
  BY <1>1, SpanTimes DEF InSweep, VisitBegin, VisitForward, VisitReceive
<1>5. \A v \in ArrowsOf(span) \ arrows', b \in arrows' : v.time <= b.time
  BY <1>1, <1>3 DEF InSweep
<1>6. \A c \in 1..NumCallees : Forward(span, c) \in arrows' => Receive(span, c) \in arrows'
  BY <1>1, <1>3 DEF InSweep
<1>7. /\ IsFiniteSet(Open') /\ jobCounter' = Cardinality(Open')
      /\ jobCounter \in Nat /\ jobCounter' \in Nat
      /\ VisitReceive(a) => jobCounter > 0
  BY <1>1, JobsAreOpenCallees
<1>8. InOrder => Begin(span) \notin arrows'
  BY <1>1, <1>3
<1>9. ASSUME NEW m \in Nat, Cut(m)', Begin(span) \notin arrows'
      PROVE  /\ CountedUpTo(m)' >= Cardinality(UncoveredBefore(m)')
             /\ InOrder => CountedUpTo(m)' = Cardinality(UncoveredBefore(m)')
  <2>1. /\ \A v \in ArrowsOf(span) \ arrows' : v.time <= m
        /\ \A b \in arrows' : m <= b.time
    BY <1>1, <1>9 DEF Cut
  <2>2. a.time \in Nat /\ span.start <= a.time /\ a.time <= m
    <3>1. span.start <= a.time
      <4>1. CASE a = Begin(span)
        BY <1>1, <4>1, SpanTimes
      <4>2. CASE a # Begin(span)
        BY <1>1, <1>9, <4>2, SpanTimes DEF InSweep
      <4> QED
        BY <4>1, <4>2
    <3> QED
      BY <1>1, <1>2, <2>1, <3>1
  <2>3. \A v \in ArrowsOf(span) \ arrows' : v.time <= a.time
    BY <1>1, <1>2, <1>3 DEF InSweep
  <2>4. UncoveredBefore(m)' = UncoveredBefore(m)
    BY <1>1 DEF UncoveredBefore
  <2>5. Cardinality(UncoveredBefore(m))
          = Cardinality(UncoveredBefore(a.time)) + (IF Open' # {} THEN 0 ELSE m - a.time)
    <3>1. \A n \in a.time..(m - 1) :
            Open' # {} <=> \E c \in 1..NumCallees :
                             span.callees[c].start <= n /\ n < span.callees[c].end
      <4>1. Open' # {} <=> \E c \in 1..NumCallees :
                             Forward(span, c) \notin arrows' /\ Receive(span, c) \in arrows'
        BY <1>1 DEF Open
      <4>2. arrows' \in SUBSET ArrowsOf(span)
        BY <1>1
      <4> QED
        BY <1>1, <1>6, <2>1, <2>2, <2>3, <4>1, <4>2, CoveredWhileOpen
    <3>2. (Open' # {}) \in BOOLEAN
      OBVIOUS
    <3> QED
      BY <1>1, <2>2, <3>1, <3>2, StretchCounts
  <2>6. Open' # {} <=> jobCounter' # 0
    BY <1>7, FS_EmptySet
  <2>7. /\ Cardinality(UncoveredBefore(a.time)) \in Nat
        /\ span.start \in Nat
    BY <1>1, <2>2, UncoveredFinite, SpanTimes
  <2>8. CASE VisitBegin(a)
    <3>1. a.time = span.start /\ prevTime' = a.time /\ timeCounter' = timeCounter
      BY <1>1, <2>8, ArrowTypes, SpanTimes DEF VisitBegin
    <3>2. Begin(span) \in arrows /\ timeCounter >= 0
      BY <1>1, <2>8, ArrowTypes DEF VisitBegin, InSweep
    <3>3. InOrder => timeCounter = 0
      BY <3>2 DEF InSweep
    <3>4. Cardinality(UncoveredBefore(a.time)) = 0
      BY <1>1, <2>2, <2>7, <3>1, UncoveredFinite, SMT
    <3>5. Cardinality(UncoveredBefore(m)) = IF jobCounter' = 0 THEN m - a.time ELSE 0
      BY <2>2, <2>5, <2>6, <3>4, SMT
    <3>6. CountedUpTo(m)' = timeCounter + Cardinality(UncoveredBefore(m))
      BY <3>1, <3>5 DEF CountedUpTo
    <3>7. Cardinality(UncoveredBefore(m)) \in Int
      BY <2>2, <3>5, SMT
    <3> QED
      BY <1>1, <2>4, <3>2, <3>3, <3>6, <3>7, SMT
  <2>9. CASE VisitForward(a) \/ VisitReceive(a)
    <3>1. Begin(span) \notin arrows
      BY <1>1, <1>9, <2>9, SpanTimes DEF VisitForward, VisitReceive
    <3> DEFINE before == timeCounter + (IF jobCounter = 0 THEN a.time - prevTime ELSE 0)
               after == timeCounter' + (IF jobCounter' = 0 THEN m - prevTime' ELSE 0)
    <3>2. /\ before >= Cardinality(UncoveredBefore(a.time))
          /\ InOrder => before = Cardinality(UncoveredBefore(a.time))
      BY <1>1, <3>1, CountedAtArrow DEF CountedUpTo
    <3>4. after = before + (Cardinality(UncoveredBefore(m))
                              - Cardinality(UncoveredBefore(a.time)))
      <4>1. CASE VisitForward(a)
        BY <1>1, <1>7, <2>2, <2>5, <2>6, <2>7, <4>1, SMT DEF VisitForward
      <4>2. CASE VisitReceive(a)
        BY <1>1, <1>7, <2>2, <2>5, <2>6, <2>7, <4>2, SMT DEF VisitReceive
      <4> QED
        BY <2>9, <4>1, <4>2
    <3>5. before \in Int /\ Cardinality(UncoveredBefore(m)) \in Int
      BY <1>1, <2>2, <2>5, <2>7, SMT
    <3>6. CountedUpTo(m)' = after
      BY DEF CountedUpTo
    <3> HIDE DEF before, after
    <3> QED
      BY <2>4, <2>7, <3>2, <3>4, <3>5, <3>6, SMT
  <2> QED
    BY <2>8, <2>9
<1>10. \A b \in arrows' : prevTime' <= b.time
  <2>1. prevTime' \in {prevTime, a.time}
    BY DEF VisitBegin, VisitForward, VisitReceive
  <2> QED
    BY <1>1, <1>3, <2>1 DEF InSweep
<1>11. timeCounter' >= 0
  <2>1. timeCounter >= 0 /\ prevTime <= a.time /\ a.time \in Nat
    BY <1>1, <1>2 DEF InSweep
  <2> QED
    BY <1>1, <2>1, SMT DEF VisitBegin, VisitForward, VisitReceive
<1> QED
  BY <1>1, <1>4, <1>5, <1>6, <1>7, <1>8, <1>9, <1>10, <1>11 DEF InSweep

\* The turn that ends the loop: the last stretch is counted.
LEMMA SweepEnds ==
  ASSUME SweepTypeOK, InSweep, NEW a \in arrows, VisitTerminate(a)
  PROVE  /\ timeCounter' >= Cardinality(Uncovered')
         /\ InOrder => timeCounter' = Cardinality(Uncovered')
<1>1. /\ At(a) /\ span' = span /\ a = Terminate(span) /\ a.time = span.end
      /\ IsSpan(span)
  BY ArrowTypes, SpanTimes DEF VisitTerminate, At, SweepTypeOK
<1>2. /\ CountedUpTo(a.time) >= Cardinality(UncoveredBefore(a.time))
      /\ InOrder => CountedUpTo(a.time) = Cardinality(UncoveredBefore(a.time))
  BY <1>1, VisitOrder, CountedAtArrow
<1>3. UncoveredBefore(span.end) = Uncovered /\ Uncovered' = Uncovered
  BY <1>1 DEF UncoveredBefore, Uncovered
<1>4. timeCounter' = CountedUpTo(a.time)
  BY DEF VisitTerminate, CountedUpTo
<1> QED
  BY <1>1, <1>2, <1>3, <1>4

\* The invariant is inductive.
LEMMA SweepInvInductive == SweepInv /\ [Next]_sweepVars => SweepInv'
<1>1. ASSUME SweepInv, Next PROVE SweepInv'
  <2>1. PICK a \in arrows : Visit(a)
    BY <1>1 DEF Next, Visit
  <2>2. SweepTypeOK /\ SweepTypeOK'
    BY <1>1, <2>1, SweepTypes DEF SweepInv
  <2>3. ~done /\ span' = span /\ (InOrder' <=> InOrder)
    BY <2>1 DEF Visit, VisitBegin, VisitForward, VisitReceive, VisitTerminate, At, InOrder
  <2>4. InSweep
    BY <1>1, <2>3 DEF SweepInv
  <2>5. CASE VisitTerminate(a)
    <3>1. done'
      BY <2>5 DEF VisitTerminate
    <3> QED
      BY <2>2, <2>3, <2>4, <2>5, <3>1, SweepEnds
         DEF SweepInv, SelfTimeIsUncovered, SelfTimeMissesNothing
  <2>6. CASE VisitBegin(a) \/ VisitForward(a) \/ VisitReceive(a)
    <3>1. ~done'
      BY <2>3, <2>6 DEF VisitBegin, VisitForward, VisitReceive
    <3> QED
      BY <2>2, <2>3, <2>4, <2>6, <3>1, SweepGoesOn
         DEF SweepInv, SelfTimeIsUncovered, SelfTimeMissesNothing
  <2> QED
    BY <2>1, <2>5, <2>6 DEF Visit
<1>2. ASSUME SweepInv, UNCHANGED sweepVars PROVE SweepInv'
  BY <1>2 DEF SweepInv, SweepTypeOK, InSweep, InOrder, Open, Cut, CountedUpTo,
              UncoveredBefore, SelfTimeIsUncovered, SelfTimeMissesNothing, Uncovered,
              sweepVars
<1> QED
  BY <1>1, <1>2

\* The self time of a span is the number of its instants that no callee covers, if
\* no callee starts before it: overlapping callees count once, and what a callee
\* does after the span ended counts nothing (analyze_functions.py:125-143).
THEOREM SelfTimeExact == Spec => []SelfTimeIsUncovered
<1>1. SweepInv => SelfTimeIsUncovered
  BY DEF SweepInv
<1> QED
  BY <1>1, SweepInit, SweepInvInductive, PTL DEF Spec

\* It is never less than that, wherever the callees start: no disagreement of the
\* clocks makes the sweep lose time of the span that no callee covers.
THEOREM SelfTimeNeverLess == Spec => []SelfTimeMissesNothing
<1>1. SweepInv => SelfTimeMissesNothing
  BY DEF SweepInv
<1> QED
  BY <1>1, SweepInit, SweepInvInductive, PTL DEF Spec
=============================================================================
