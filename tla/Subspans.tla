------------------------------ MODULE Subspans ------------------------------
(***************************************************************************)
(* Layer 4 (src/analyze_subspans.py): traces with the same sequence of     *)
(* events form a group, each span is cut at its events into subspans, and  *)
(* the durations of a subspan are averaged over the group.  The report     *)
(* (generate_spans, src/web_app/report.py) then plays the events of one    *)
(* trace of the group with the averages.                                   *)
(*                                                                         *)
(* A trace is here one span and its direct callees; operation[c] is the    *)
(* operation of callee c.  A trace is kept with its arrows, its key and its *)
(* durations, which the code computes from it whenever it needs them.      *)
(***************************************************************************)
EXTENDS Arrows, Sequences

CONSTANTS
  NumCallees,  \* how many callees a span has
  Programs,    \* the operations of the callees: functions on 1..NumCallees
  MaxTime,     \* the instants are 1..MaxTime; a span starts at instant 1
  NumTraces    \* at most so many traces are grouped

ASSUME SizesAssumption == NumCallees \in Nat /\ MaxTime \in Nat /\ NumTraces \in Nat

VARIABLES
  phase,       \* "group", "collect", "replay", "done"
  group,       \* the traces of one group, in order
  durations,   \* subspan name -> [sum, count] of the durations collected
  collected,   \* how many traces of the group are collected
  startTime,   \* the replay: the instants of the events so far, relative
  subspanIdx   \* the replay: the next subspan

subspanVars == <<phase, group, durations, collected, startTime, subspanIdx>>

Interval == {i \in [start : 1..MaxTime, end : 1..MaxTime] : i.start <= i.end}

SpanSet ==
  {sp \in [start : {1}, end : 1..MaxTime, callees : [1..NumCallees -> Interval],
           operation : Programs] : sp.start <= sp.end}

\* The order of the callees by their starts; the sort is stable.
StartsBefore(sp, d, c) ==
  \/ sp.callees[d].start < sp.callees[c].start
  \/ sp.callees[d].start = sp.callees[c].start /\ d < c

\* The label a callee gets among its siblings: its operation, and how many of the
\* same operation started before it.
Label(sp, c) ==
  <<sp.operation[c],
    Cardinality({d \in DOMAIN sp.callees :
                   sp.operation[d] = sp.operation[c] /\ StartsBefore(sp, d, c)})>>

Caller == <<"caller", 0>>

\* The events of the span, sorted; an arrow carries the label of its callee.
Events(sp) ==
  LET sorted == SortedArrows(sp)
      label(name) == IF name = Self THEN Caller ELSE Label(sp, name)
  IN  [k \in DOMAIN sorted |->
         Arrow(sorted[k].superscript, label(sorted[k].name), sorted[k].time)]

Superscripts(sp) == LET e == Events(sp) IN [k \in DOMAIN e |-> e[k].superscript]
Labels(sp) == {Label(sp, c) : c \in DOMAIN sp.callees}

\* The key of a group: the names of the spans and, for each, the kinds of its
\* events in order.  The names of the events are not part of it.
Key(sp) == <<Labels(sp), Superscripts(sp)>>

\* The events that end a subspan.
Cuts(e) == e.superscript \in {"forward", "terminate"}

\* The events that come before the loop ends at the terminate event, or are that one.
Reached(events) ==
  {k \in DOMAIN events : \A j \in 1..(k - 1) : events[j].superscript # "terminate"}

\* Their positions that end a subspan, in order.
CutsOf(events) ==
  LET cuts == {k \in Reached(events) : Cuts(events[k])}
  IN  [i \in 1..Cardinality(cuts) |->
         CHOOSE k \in cuts : Cardinality({j \in cuts : j < k}) = i - 1]

Subspan(i) == <<"subspan", i>>
FullSpan(label) == <<"FullSpan", label>>

\* Variant: previous_arrow stays what it was before the loop.
PreviousForgotten(events, k) == 0

\* Where a subspan that event k ends begins: the event before, the epoch at first.
Previous(events, k) == IF k = 1 THEN 0 ELSE events[k - 1].time

\* The duration of each subspan and of each callee of a span.
DurationsOf(sp) ==
  LET events == Events(sp)
      cut == CutsOf(events)
      names == {Subspan(i - 1) : i \in DOMAIN cut} \cup {FullSpan(l) : l \in Labels(sp)}
  IN  [n \in names |->
         IF n[1] = "subspan"
         THEN events[cut[n[2] + 1]].time - Previous(events, cut[n[2] + 1])
         ELSE LET c == CHOOSE d \in DOMAIN sp.callees : Label(sp, d) = n[2]
              IN  sp.callees[c].end - sp.callees[c].start]

Traces ==
  {[span |-> sp, events |-> Events(sp), key |-> Key(sp), durations |-> DurationsOf(sp)] :
     sp \in SpanSet}

Init ==
  /\ phase = "group"
  /\ group = <<>>
  /\ durations = <<>>
  /\ collected = 0
  /\ startTime = <<0>>
  /\ subspanIdx = 0

\* group: the next trace; only the group of the first trace is followed.
GroupTrace(t) ==
  /\ phase = "group"
  /\ Len(group) < NumTraces
  /\ group # <<>> => t.key = group[1].key
  /\ group' = Append(group, t)
  /\ UNCHANGED <<phase, durations, collected, startTime, subspanIdx>>

GroupingEnds ==
  /\ phase = "group"
  /\ group # <<>>
  /\ phase' = "collect"
  /\ UNCHANGED <<group, durations, collected, startTime, subspanIdx>>

\* __collect_subspans_data: one turn of the loop over the traces.
CollectTrace ==
  /\ phase = "collect"
  /\ collected < Len(group)
  /\ LET new == group[collected + 1].durations
         old(n) == IF n \in DOMAIN durations THEN durations[n]
                   ELSE [sum |-> 0, count |-> 0]
         add(n) == IF n \in DOMAIN new
                   THEN [sum |-> old(n).sum + new[n], count |-> old(n).count + 1]
                   ELSE old(n)
     IN  durations' = [n \in DOMAIN durations \cup DOMAIN new |-> add(n)]
  /\ collected' = collected + 1
  /\ phase' = IF collected + 1 = Len(group) THEN "replay" ELSE phase
  /\ UNCHANGED <<group, startTime, subspanIdx>>

\* The mean of the durations under a name, times the traces of the group; zero
\* when the layer has no such name (get_span_or_subspan_time).
Mean(n) ==
  IF n \in DOMAIN durations
  THEN (durations[n].sum * Len(group)) \div durations[n].count
  ELSE 0

\* generate_spans plays the events of the first trace of the group.
Played == group[1].events
Event == Played[Len(startTime) + 1]

ReplayCut ==
  /\ phase = "replay"
  /\ Len(startTime) < Len(Played)
  /\ Cuts(Event)
  /\ startTime' = Append(startTime, startTime[Len(startTime)] + Mean(Subspan(subspanIdx)))
  /\ subspanIdx' = subspanIdx + 1
  /\ UNCHANGED <<phase, group, durations, collected>>

\* Variant: a callee returns so long after the previous event.
ReplayReceiveFromLast ==
  /\ phase = "replay"
  /\ Len(startTime) < Len(Played)
  /\ Event.superscript = "receive"
  /\ startTime' = Append(startTime, startTime[Len(startTime)] + Mean(FullSpan(Event.name)))
  /\ UNCHANGED <<phase, group, durations, collected, subspanIdx>>

\* child_start_idx gives the position of the callee's forward event.
ReplayReceive ==
  /\ phase = "replay"
  /\ Len(startTime) < Len(Played)
  /\ Event.superscript = "receive"
  /\ LET called == CHOOSE k \in DOMAIN Played :
                     Played[k].superscript = "forward" /\ Played[k].name = Event.name
     IN  startTime' = Append(startTime, startTime[called] + Mean(FullSpan(Event.name)))
  /\ UNCHANGED <<phase, group, durations, collected, subspanIdx>>

ReplayEnds ==
  /\ phase = "replay"
  /\ Len(startTime) = Len(Played)
  /\ phase' = "done"
  /\ UNCHANGED <<group, durations, collected, startTime, subspanIdx>>

Next ==
  \/ \E t \in Traces : GroupTrace(t)
  \/ GroupingEnds
  \/ CollectTrace
  \/ ReplayCut
  \/ ReplayReceive
  \/ ReplayEnds

Spec == Init /\ [][Next]_subspanVars
-----------------------------------------------------------------------------
(***************************************************************************)
(* Properties.                                                             *)
(***************************************************************************)
\* The traces of the group agree on which callee each event belongs to.
SameOrder ==
  \A i \in DOMAIN group : \A k \in DOMAIN group[i].events :
    group[i].events[k].name = Played[k].name

Total(s) ==
  LET first[n \in 0..Len(s)] == IF n = 0 THEN 0 ELSE first[n - 1] + s[n]
  IN  first[Len(s)]

\* The sum over the group of the time of event k since the begin of the span.
SumOfEvent(k) ==
  Total([i \in 1..Len(group) |-> group[i].events[k].time - group[i].span.start])

\* An aggregate trace shows every event up to the end of the span at the mean of
\* its instants in the group (report.py:567-591 undoes analyze_subspans.py:237-267).
ReplayedAtMean ==
  phase = "done" =>
    \A k \in DOMAIN startTime \cap Reached(Played) : startTime[k] = SumOfEvent(k)

\* ReplayedAtMean for groups whose traces agree on the callees of their events.
SameOrderReplayedAtMean == group # <<>> /\ SameOrder => ReplayedAtMean

\* Subspan c, which the report takes for the c-th "child starts late" of layer 3
\* (report.py:456), ends with the event at which the c-th callee starts, and lies in
\* the time since the callee before it started, unless the span ended by then.
CalleeAt(sp, i) ==
  CHOOSE c \in 1..NumCallees :
    Cardinality({d \in 1..NumCallees : StartsBefore(sp, d, c)}) = i - 1
StartsOf(sp) == [i \in 1..NumCallees |-> sp.callees[CalleeAt(sp, i)].start]
ChildDiffCoversSubspan ==
  phase = "group" =>
    \A i \in DOMAIN group :
      LET sp == group[i].span
          starts == StartsOf(sp)
          events == group[i].events
      IN  \A c \in DOMAIN starts :
            starts[c] <= sp.end =>
              LET diff == starts[c] - IF c = 1 THEN sp.start ELSE starts[c - 1]
              IN  /\ events[CutsOf(events)[c]] =
                       Arrow("forward", Label(sp, CalleeAt(sp, c)), starts[c])
                  /\ group[i].durations[Subspan(c - 1)] \in 0..diff
=============================================================================
