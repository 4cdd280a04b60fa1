------------------------------ MODULE TraceObj ------------------------------
(***************************************************************************)
(* The trace object tprof builds from the spans the store returns for one  *)
(* trace (Jaeger.__create_trace_obj, src/gather.py:113-208; the classes    *)
(* Trace and Span of src/utility.py).                                      *)
(*                                                                         *)
(* The input is the sequence of spans in the order of arrival.  A span is a *)
(* record with fields id, trace, start, duration and refs, a sequence of   *)
(* records [trace, id].  Names take no part in the construction; the       *)
(* object keeps the span records under "span" for the layers that read them.*)
(***************************************************************************)
EXTENDS Integers, Sequences

CONSTANT Master    \* the artificial root, "THEMASTERSPAN"

SpanIds(ss) == {ss[i].id : i \in DOMAIN ss}
EndOf(s) == s.start + s.duration

(***************************************************************************)
(* The four assertions of the construction.  They end the program, so only *)
(* whether one fails matters, not which one is reached first.              *)
(***************************************************************************)
DuplicateSpan(ss) ==
  \E i, j \in DOMAIN ss : i # j /\ ss[i].id = ss[j].id

\* A span that refers to another trace.
ForeignReference(s) == \E k \in DOMAIN s.refs : s.refs[k].trace # s.trace

\* "more than one or no parents": one entry of refs per reference.
SeveralParents(s) == Len(s.refs) > 1

\* Variants: a parent must have come before its child; a root is refused.
AssertionFailsOnePass(ss) ==
  \/ DuplicateSpan(ss)
  \/ \E i \in DOMAIN ss : \E k \in DOMAIN ss[i].refs :
       \A j \in 1..(i - 1) : ss[j].id # ss[i].refs[k].id
AssertionFailsOnRoots(ss) ==
  \/ DuplicateSpan(ss)
  \/ \E i \in DOMAIN ss : ForeignReference(ss[i]) \/ Len(ss[i].refs) # 1

AssertionFails(ss) ==
  \/ DuplicateSpan(ss)
  \/ \E i \in DOMAIN ss : ForeignReference(ss[i]) \/ SeveralParents(ss[i])

(***************************************************************************)
(* The object.                                                             *)
(***************************************************************************)
\* A reference to a span that is not in the result: the span is hung off the
\* master and the trace is marked span_drop.
Dangling(s, ss) == \E k \in DOMAIN s.refs : s.refs[k].id \notin SpanIds(ss)

\* Variant: a span keeps the parent it refers to, found or not.
ParentAsReported(s, ss) ==
  IF s.refs = <<>> THEN Master ELSE s.refs[1].id

Parent(s, ss) ==
  IF s.refs = <<>> \/ Dangling(s, ss) THEN Master ELSE s.refs[1].id

\* The master span runs from the earliest start to the latest end.
VeryStart(ss) ==
  CHOOSE n \in {ss[i].start : i \in DOMAIN ss} : \A i \in DOMAIN ss : n <= ss[i].start
VeryEnd(ss) ==
  CHOOSE n \in {EndOf(ss[i]) : i \in DOMAIN ss} : \A i \in DOMAIN ss : EndOf(ss[i]) <= n

\* Variant: the drop flag is overwritten by each span.
CreateTraceObjLastDrop(ss) ==
  [ order  |-> [i \in DOMAIN ss |-> ss[i].id],
    span   |-> [x \in SpanIds(ss) |->
                  ss[CHOOSE i \in DOMAIN ss : ss[i].id = x]],
    parent |-> [x \in SpanIds(ss) |->
                  Parent(ss[CHOOSE i \in DOMAIN ss : ss[i].id = x], ss)],
    drop   |-> Dangling(ss[Len(ss)], ss),
    start  |-> VeryStart(ss),
    end    |-> VeryEnd(ss) ]

CreateTraceObj(ss) ==
  [ order  |-> [i \in DOMAIN ss |-> ss[i].id],
    span   |-> [x \in SpanIds(ss) |->
                  ss[CHOOSE i \in DOMAIN ss : ss[i].id = x]],
    parent |-> [x \in SpanIds(ss) |->
                  Parent(ss[CHOOSE i \in DOMAIN ss : ss[i].id = x], ss)],
    drop   |-> \E i \in DOMAIN ss : Dangling(ss[i], ss),
    start  |-> VeryStart(ss),
    end    |-> VeryEnd(ss) ]

TraceDuration(obj) == obj.end - obj.start

\* get_status_str: any status bit set makes the trace an erroneous one.
Good == "Good_Traces"
Erroneous == "Erroneous_Traces"
StatusStr(obj) == IF obj.drop THEN Erroneous ELSE Good

\* The children list of a span or of the master, in arrival order.
Children(obj, p) == SelectSeq(obj.order, LAMBDA x : obj.parent[x] = p)
=============================================================================
