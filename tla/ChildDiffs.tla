----------------------------- MODULE ChildDiffs -----------------------------
(***************************************************************************)
(* Layer 3 (src/analyze_child_diffs.py): traces with the same tree of      *)
(* names form a group; the tree of one of them is the template whose slots *)
(* collect the times of every trace, and diff compares the template of the *)
(* norm traces with the one of the tail.                                   *)
(*                                                                         *)
(* A trace is the sequence of the spans below its root, a caller before    *)
(* its callees and the callees of a span in the order of their arrival; a  *)
(* name is a number, in the order of the names.  A trace is kept with what *)
(* the code computes from it whenever it needs it.                         *)
(***************************************************************************)
EXTENDS Integers, Sequences, FiniteSets

CONSTANTS
  Traces,     \* the traces that may be analysed
  NumTraces   \* at most so many traces are in a group

Span == [parent : Nat, name : Nat, start : Nat]

\* Every span but the root has an earlier one as its caller.
IsTrace(t) ==
  /\ t \in Seq(Span) /\ Len(t) > 0
  /\ t[1].parent = 0
  /\ \A s \in 2..Len(t) : t[s].parent \in 1..(s - 1)

ASSUME TracesAssumption == \A t \in Traces : IsTrace(t)

VARIABLES
  group,      \* the traces of one group, sorted by duration
  pass,       \* "group", then "overall", "norm", "tail", "diff", "done"
  filled,     \* how many traces of the pass are filled in
  template,   \* the slots being filled: address -> slot
  templates,  \* pass -> the slots as the pass left them
  raised      \* "" or the exception that ended the profiler

diffVars == <<group, pass, filled, template, templates, raised>>

Callees(t, s) == {c \in DOMAIN t : t[c].parent = s}
-----------------------------------------------------------------------------
(***************************************************************************)
(* Python's order on the lists [name, callees, start, span, ...] that      *)
(* describe spans.  Two spans are never equal, so two lists of callees are *)
(* compared by their first elements, and those by theirs.                  *)
(***************************************************************************)
\* The order of two such descents x and y, each from a span to its first callee, to
\* the first callee of that one, and on to a span without callees.
DescentBefore(t, x, y) ==
  LET same(k) == \A j \in 1..k : t[x[j]].name = t[y[j]].name
  IN  \/ \E k \in DOMAIN x \cap DOMAIN y : same(k - 1) /\ t[x[k]].name < t[y[k]].name
      \/ Len(x) < Len(y) /\ same(Len(x))
      \/ Len(x) = Len(y) /\ same(Len(x)) /\ t[x[Len(x)]].start < t[y[Len(y)]].start

Descents(t) ==
  LET way[s \in DOMAIN t] ==
        IF Callees(t, s) = {} THEN <<s>>
        ELSE <<s>> \o way[CHOOSE c \in Callees(t, s) :
                            \A d \in Callees(t, s) : ~DescentBefore(t, way[d], way[c])]
  IN  way

Before(t, a, b) ==
  \/ t[a].name < t[b].name
  \/ t[a].name = t[b].name /\ DescentBefore(t, Descents(t)[a], Descents(t)[b])

\* Neither is less: the comparison goes on to the Span objects and raises.
SortRaises(t) ==
  \E a, b \in DOMAIN t : /\ a # b /\ t[a].parent = t[b].parent
                         /\ ~Before(t, a, b) /\ ~Before(t, b, a)

\* Variant: the callees stay in the order of their arrival.
PlaceOfArrival(t, s) == 1 + Cardinality({d \in Callees(t, t[s].parent) : d < s})

\* The place of a span among the callees of its caller.
Place(t, s) == 1 + Cardinality({d \in Callees(t, t[s].parent) \ {s} : Before(t, d, s)})

\* Where a span stands in the tree: the places on the way to it from the root.
Address(t) ==
  LET at[s \in DOMAIN t] == IF s = 1 THEN <<>> ELSE Append(at[t[s].parent], Place(t, s))
  IN  at

\* __generate_tree_with_start_time: the name of the span at each address.
Structure(t) ==
  LET at == Address(t)
  IN  [a \in {at[s] : s \in DOMAIN t} |-> t[CHOOSE s \in DOMAIN t : at[s] = a].name]

\* __generate_tree: the names only; sorted lists are the same when what they hold
\* occurs equally often.
Occurrences(f) == [v \in {f[i] : i \in DOMAIN f} |-> Cardinality({i \in DOMAIN f : f[i] = v})]
Identifier(t) ==
  LET tree[s \in DOMAIN t] == <<t[s].name, Occurrences([c \in Callees(t, s) |-> tree[c]])>>
  IN  tree[1]

Analysed ==
  {[spans |-> t, key |-> Identifier(t), tied |-> SortRaises(t), structure |-> Structure(t)] :
     t \in Traces}

\* Variant: a tenth of the traces are norm.
CutoffTenth(n) == (10 * n) \div 100

\* idx_cutoff for the tail_cutoff of the application runner.
Cutoff(n) == (90 * n) \div 100

\* The traces of a pass.
TracesOf(p) ==
  CASE p = "overall" -> group
    [] p = "norm"    -> SubSeq(group, 1, Cutoff(Len(group)))
    [] p = "tail"    -> SubSeq(group, Cutoff(Len(group)) + 1, Len(group))

After(p) == [overall |-> IF Len(group) = 1 THEN "done" ELSE "norm",
             norm |-> "tail", tail |-> "diff"][p]

\* A slot keeps the names of the spans whose times it has collected.
EmptySlots(structure) == [a \in DOMAIN structure |-> [name |-> structure[a], spans |-> <<>>]]

\* How many slots are directly below an address.
Arity(slots, a) ==
  Cardinality({b \in DOMAIN slots : Len(b) = Len(a) + 1 /\ SubSeq(b, 1, Len(a)) = a})
-----------------------------------------------------------------------------
Passes == {"overall", "norm", "tail"}

Init ==
  /\ group = <<>>
  /\ pass = "group"
  /\ filled = 0
  /\ template = <<>>
  /\ templates = [p \in Passes |-> <<>>]
  /\ raised = ""

Raise(exception) ==
  /\ raised' = exception
  /\ UNCHANGED <<group, pass, filled, template, templates>>

\* group: the next trace; only the group of the first trace is followed.
GroupTrace(t) ==
  /\ pass = "group" /\ raised = ""
  /\ Len(group) < NumTraces
  /\ group # <<>> => t.key = group[1].key
  /\ group' = Append(group, t)
  /\ UNCHANGED <<pass, filled, template, templates, raised>>

GroupingEnds ==
  /\ pass = "group" /\ raised = ""
  /\ group # <<>>
  /\ pass' = "overall"
  /\ UNCHANGED <<group, filled, template, templates, raised>>

\* __build_structure: without a trace there is no example; a tie in a sort raises.
TraceRaises ==
  /\ pass \in Passes /\ raised = ""
  /\ TracesOf(pass) # <<>> =>
       filled < Len(TracesOf(pass)) /\ TracesOf(pass)[filled + 1].tied
  /\ Raise(IF TracesOf(pass) = <<>> THEN "IndexError" ELSE "TypeError")

SlotsFor(structure) == IF filled = 0 THEN EmptySlots(structure) ELSE template

\* The assertion of __fill_in_template_2, from the root down: a span has as many
\* callees as its slot.
Fits(structure) ==
  \A a \in DOMAIN structure \cap DOMAIN SlotsFor(structure) :
    Arity(structure, a) = Arity(SlotsFor(structure), a)

TraceDoesNotFit ==
  /\ pass \in Passes /\ raised = ""
  /\ filled < Len(TracesOf(pass))
  /\ LET t == TracesOf(pass)[filled + 1] IN ~t.tied /\ ~Fits(t.structure)
  /\ Raise("AssertionError")

FillTrace ==
  /\ pass \in Passes /\ raised = ""
  /\ filled < Len(TracesOf(pass))
  /\ LET t == TracesOf(pass)[filled + 1]
         slots == SlotsFor(t.structure)
     IN  /\ ~t.tied /\ Fits(t.structure)
         /\ template' = [a \in DOMAIN slots |->
                           [slots[a] EXCEPT !.spans = Append(@, t.structure[a])]]
  /\ filled' = filled + 1
  /\ UNCHANGED <<group, pass, templates, raised>>

PassEnds ==
  /\ pass \in Passes /\ raised = ""
  /\ filled > 0 /\ filled = Len(TracesOf(pass))
  /\ templates' = [templates EXCEPT ![pass] = template]
  /\ pass' = After(pass)
  /\ filled' = 0 /\ template' = <<>>
  /\ UNCHANGED <<group, raised>>

\* The slots of one caller with the same name.
Alike(slots, a) ==
  {b \in DOMAIN slots : /\ Len(b) = Len(a)
                        /\ SubSeq(b, 1, Len(b) - 1) = SubSeq(a, 1, Len(a) - 1)
                        /\ slots[b].name = slots[a].name}

\* __calc_diff: of such slots of the norm template index[name] is the last one, in an
\* order that the mean durations decide.
Indexes ==
  LET norm == templates["norm"]
  IN  {index \in SUBSET DOMAIN norm :
         \A a \in DOMAIN norm : Cardinality(index \cap Alike(norm, a)) = 1}

\* The difference descends into the slot b of the tail and the slot a of the norm.
Compared(index, a, b) ==
  /\ a \in DOMAIN templates["norm"] /\ b \in DOMAIN templates["tail"] /\ Len(a) = Len(b)
  /\ \A k \in 1..Len(a) :
       /\ SubSeq(a, 1, k) \in index
       /\ templates["norm"][SubSeq(a, 1, k)].name = templates["tail"][SubSeq(b, 1, k)].name

\* The assertion on the names holds below the root; there are more child diffs in the
\* tail than in the norm.
DiffRaises(index) ==
  \/ templates["norm"][<<>>].name # templates["tail"][<<>>].name
  \/ \E a \in DOMAIN templates["norm"], b \in DOMAIN templates["tail"] :
       /\ Compared(index, a, b)
       /\ Arity(templates["tail"], b) > Arity(templates["norm"], a)

CalcDiffRaises ==
  /\ pass = "diff" /\ raised = ""
  /\ \E index \in Indexes : DiffRaises(index)
  /\ Raise(IF templates["norm"][<<>>].name # templates["tail"][<<>>].name
           THEN "AssertionError" ELSE "IndexError")

CalcDiff ==
  /\ pass = "diff" /\ raised = ""
  /\ \E index \in Indexes : ~DiffRaises(index)
  /\ pass' = "done"
  /\ UNCHANGED <<group, filled, template, templates, raised>>

Next ==
  \/ \E t \in Analysed : GroupTrace(t)
  \/ GroupingEnds
  \/ TraceRaises
  \/ TraceDoesNotFit
  \/ FillTrace
  \/ PassEnds
  \/ CalcDiffRaises
  \/ CalcDiff

Spec == Init /\ [][Next]_diffVars
-----------------------------------------------------------------------------
(***************************************************************************)
(* Properties.                                                             *)
(***************************************************************************)
\* Two callees of one span have the same name.
HasTwins(t) ==
  \E c, d \in DOMAIN t : c # d /\ t[c].parent = t[d].parent /\ t[c].name = t[d].name

\* Layer 3 gets through every group of traces, of whatever size and depth and in
\* whatever order, unless some span calls the same operation twice: nothing else can
\* make the sort, the template, the cut into norm and tail or the difference raise
\* (analyze_child_diffs.py:79-169).
RaisesOnlyForTwins == raised # "" => \E i \in DOMAIN group : HasTwins(group[i].spans)

\* Without such calls a slot collects the times of one call: one span of each
\* trace of the pass, with the name of the slot, at every depth.
OneCallPerSlot ==
  (~\E i \in DOMAIN group : HasTwins(group[i].spans)) =>
    \A p \in Passes : \A a \in DOMAIN templates[p] :
      templates[p][a].spans = [k \in 1..Len(TracesOf(p)) |-> templates[p][a].name]
=============================================================================
