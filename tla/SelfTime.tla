------------------------------ MODULE SelfTime ------------------------------
(***************************************************************************)
(* The self time of a span (AnalyzeFunctions.__calc_operation_self,        *)
(* src/analyze_functions.py): one sweep over the sorted arrows of the span. *)
(* A step is one turn of the loop.  Callees may overlap, may outlive the   *)
(* span and may, when the clocks of two hosts disagree, start before it.   *)
(***************************************************************************)
EXTENDS Arrows

CONSTANTS
  NumCallees,  \* how many callees the span has
  MaxTime,     \* the instants are 1..MaxTime; instant 0 is the epoch
  MaxSkew      \* how much a callee's start may precede the span's

ASSUME SweepAssumption == NumCallees \in Nat /\ MaxTime \in Nat /\ MaxSkew \in Nat

VARIABLES
  span,        \* the span under calculation
  arrows,      \* its arrows not yet visited
  jobCounter, timeCounter, prevTime,
  done         \* the loop has ended, by break or because no arrow is left

sweepVars == <<span, arrows, jobCounter, timeCounter, prevTime, done>>

Interval == {i \in [start : 1..MaxTime, end : 1..MaxTime] : i.start <= i.end}

IsSpan(sp) ==
  /\ sp.start \in 1..MaxTime /\ sp.end \in 1..MaxTime /\ sp.start <= sp.end
  /\ sp.callees \in [1..NumCallees -> Interval]
  /\ \A c \in 1..NumCallees : sp.start - MaxSkew <= sp.callees[c].start

SpanSet ==
  {sp \in [start : 1..MaxTime, end : 1..MaxTime,
           callees : [1..NumCallees -> Interval]] : IsSpan(sp)}

Init ==
  /\ span \in SpanSet
  /\ arrows = ArrowsOf(span)
  /\ jobCounter = 0 /\ timeCounter = 0 /\ prevTime = 0
  /\ done = FALSE

\* The loop is at arrow a.
At(a) ==
  /\ ~done
  /\ a \in arrows
  /\ \A b \in arrows : ~Before(b, a)
  /\ arrows' = arrows \ {a}
  /\ UNCHANGED span

\* Variant: the count of open calls starts when the span does.
VisitBeginAlone(a) ==
  /\ At(a) /\ a.superscript = "begin"
  /\ prevTime' = a.time
  /\ jobCounter' = 0
  /\ UNCHANGED <<timeCounter, done>>

VisitBegin(a) ==
  /\ At(a) /\ a.superscript = "begin"
  /\ prevTime' = a.time
  /\ UNCHANGED <<jobCounter, timeCounter, done>>

VisitForward(a) ==
  /\ At(a) /\ a.superscript = "forward"
  /\ timeCounter' = timeCounter + IF jobCounter = 0 THEN a.time - prevTime ELSE 0
  /\ jobCounter' = jobCounter + 1
  /\ UNCHANGED <<prevTime, done>>

\* Variant: the time starts again whenever a callee returns.
VisitReceiveLate(a) ==
  /\ At(a) /\ a.superscript = "receive"
  /\ prevTime' = IF jobCounter = 0 THEN a.time ELSE prevTime
  /\ jobCounter' = jobCounter - 1
  /\ UNCHANGED <<timeCounter, done>>

VisitReceive(a) ==
  /\ At(a) /\ a.superscript = "receive"
  /\ prevTime' = IF jobCounter = 1 THEN a.time ELSE prevTime
  /\ jobCounter' = jobCounter - 1
  /\ UNCHANGED <<timeCounter, done>>

VisitTerminate(a) ==
  /\ At(a) /\ a.superscript = "terminate"
  /\ timeCounter' = timeCounter + IF jobCounter = 0 THEN a.time - prevTime ELSE 0
  /\ done' = TRUE
  /\ UNCHANGED <<jobCounter, prevTime>>

Next ==
  \E a \in arrows :
    VisitBegin(a) \/ VisitForward(a) \/ VisitReceive(a) \/ VisitTerminate(a)

Spec == Init /\ [][Next]_sweepVars
-----------------------------------------------------------------------------
(***************************************************************************)
(* Properties.                                                             *)
(***************************************************************************)
\* No callee starts before the span.
InOrder == \A c \in 1..NumCallees : span.start <= span.callees[c].start

\* The self time is the time of the span that no callee covers: overlapping
\* callees count once and what a callee does after the span ended counts nothing.
\* A callee that starts before the span would be counted from the epoch, prevTime
\* being 0 until the begin arrow (analyze_functions.py:125-143).
Uncovered ==
  {n \in span.start..(span.end - 1) :
     \A c \in 1..NumCallees : ~(span.callees[c].start <= n /\ n < span.callees[c].end)}
SelfTimeIsUncovered ==
  done /\ InOrder => timeCounter = Cardinality(Uncovered)

\* Whatever the clocks say of the callees, none of the time of the span that no
\* callee covers is lost: calls that are open when the span begins, or end before it,
\* only add (analyze_functions.py:125-143).
SelfTimeMissesNothing == done => timeCounter >= Cardinality(Uncovered)
=============================================================================
