----------------------------- MODULE SpanSearch -----------------------------
(***************************************************************************)
(* The search of the report for the invocations of an operation in the     *)
(* tree of a layer 3 group (Report._find_spans, src/web_app/report.py): a  *)
(* recursion whose calls share one path.  Each invocation is then looked   *)
(* up among the spans of layer 4 (Report._layer4), by that path and by the *)
(* paths of the spans below it.                                            *)
(*                                                                         *)
(* The spans are 1..n, 1 the root; siblings are visited in the order of    *)
(* their numbers.  The traces of a layer 4 group are traces of the layer 3 *)
(* group, so they have the same tree.                                      *)
(***************************************************************************)
EXTENDS Integers, Sequences, FiniteSets

CONSTANTS
  NumSpans,  \* how many spans the tree has
  Names,     \* the operations
  Extends,   \* the pairs of operations of which the first begins with the second
  Bug        \* the operation to find

ASSUME NumSpansAssumption == NumSpans \in Nat \ {0}   \* a trace has a root

VARIABLES
  parent,    \* span -> the span it is a child of, 0 for the root
  name,      \* span -> operation
  calls,     \* the open calls: for each, the children still to visit
  path,      \* the list all calls share
  found,     \* the diff tuples: [span, path]
  shown,     \* what was looked up in layer 4: [span, matches]
  raised     \* an assertion of layer 4 failed

treeVars == <<parent, name>>
searchVars == <<treeVars, calls, path, found, shown, raised>>

Spans == 1..NumSpans
Children(s) == {c \in Spans : parent[c] = s}
First(spans) == CHOOSE s \in spans : \A r \in spans : s <= r

Init ==
  /\ parent \in [Spans -> 0..NumSpans]
  /\ \A s \in Spans : parent[s] < s /\ (parent[s] = 0 <=> s = 1)
  /\ name \in [Spans -> Names]
  /\ calls = <<{1}>>
  /\ path = <<>>
  /\ found = {}
  /\ shown = {} /\ raised = FALSE

Top == calls[Len(calls)]
Callers == SubSeq(calls, 1, Len(calls) - 1)

\* list.remove: the first occurrence.
Remove(s, e) ==
  LET at == CHOOSE i \in DOMAIN s : s[i] = e /\ \A j \in 1..(i - 1) : s[j] # e
  IN  SubSeq(s, 1, at - 1) \o SubSeq(s, at + 1, Len(s))

\* An invocation without children ends the loop over its siblings.
EndsLoop(s) == name[s] = Bug /\ Children(s) = {}

\* Variant: the loop ends without restoring the path.
VisitChildlessMatchKeeps ==
  /\ calls # <<>> /\ Top # {}
  /\ LET s == First(Top)
     IN  /\ EndsLoop(s)
         /\ found' = found \cup {[span |-> s, path |-> Append(path, name[s])]}
         /\ path' = Append(path, name[s])
  /\ calls' = Append(Callers, {})
  /\ UNCHANGED <<treeVars, shown, raised>>

\* Such an invocation is recorded, and its siblings are left out.
VisitChildlessMatch ==
  /\ calls # <<>> /\ Top # {}
  /\ LET s == First(Top)
     IN  /\ EndsLoop(s)
         /\ found' = found \cup {[span |-> s, path |-> Append(path, name[s])]}
         /\ path' = Remove(Append(path, name[s]), name[s])
  /\ calls' = Append(Callers, {})
  /\ UNCHANGED <<treeVars, shown, raised>>

\* Variant: an invocation is not searched for invocations inside it.
VisitOutermost ==
  /\ calls # <<>> /\ Top # {}
  /\ LET s == First(Top)
     IN  /\ ~EndsLoop(s)
         /\ path' = Append(path, name[s])
         /\ found' = IF name[s] = Bug
                     THEN found \cup {[span |-> s, path |-> Append(path, name[s])]}
                     ELSE found
         /\ calls' = Append(calls, IF name[s] = Bug THEN {} ELSE Children(s))
  /\ UNCHANGED <<treeVars, shown, raised>>

\* Any other span: recorded if it matches, then its children are searched.
Visit ==
  /\ calls # <<>> /\ Top # {}
  /\ LET s == First(Top)
     IN  /\ ~EndsLoop(s)
         /\ path' = Append(path, name[s])
         /\ found' = IF name[s] = Bug
                     THEN found \cup {[span |-> s, path |-> Append(path, name[s])]}
                     ELSE found
         /\ calls' = Append(calls, Children(s))
  /\ UNCHANGED <<treeVars, shown, raised>>

\* The call for the children of s returns; the loop goes on after s.
Return ==
  /\ calls # <<>> /\ Top = {}
  /\ IF Len(calls) = 1
     THEN calls' = <<>> /\ UNCHANGED path
     ELSE LET siblings == calls[Len(calls) - 1]
              s == First(siblings)
          IN  /\ path' = Remove(path, name[s])
              /\ calls' = [Callers EXCEPT ![Len(calls) - 1] = siblings \ {s}]
  /\ UNCHANGED <<treeVars, found, shown, raised>>

-----------------------------------------------------------------------------
(***************************************************************************)
(* Layer 4.  Its spans are named by their paths, in which siblings with    *)
(* the same name are numbered: a component is the name and that number, 0  *)
(* for the first, which has none.                                          *)
(***************************************************************************)
\* The spans from the root to s.
Lineage(s) ==
  LET spans[r \in 0..NumSpans] == IF r = 0 THEN <<>> ELSE Append(spans[parent[r]], r)
  IN  spans[s]

Label(s) ==
  <<name[s], Cardinality({t \in Children(parent[s]) : t < s /\ name[t] = name[s]})>>
LabelledRoute(s) == LET spans == Lineage(s) IN [i \in DOMAIN spans |-> Label(spans[i])]

Depth(s) == Len(Lineage(s))
Among(s, spans) == \E i \in DOMAIN spans : spans[i] = s
Below(s) == {d \in Spans : Among(s, Lineage(d))}

StripIdx(route) == [i \in DOMAIN route |-> <<route[i][1], 0>>]
StartsWith(label, component) ==
  label[1] = component \/ <<label[1], component>> \in Extends

\* The paths from s to the spans below it and to itself, with their number, when the
\* spans have these routes.
PathsBelow(s, routes) ==
  LET pathTo == [d \in Below(s) |-> SubSeq(routes[d], Depth(s), Depth(d))]
  IN  [p \in {pathTo[d] : d \in Below(s)} |-> Cardinality({d \in Below(s) : pathTo[d] = p})]

\* matched_paths: the spans with a path that begins like that of the invocation.
MatchedPaths(f) ==
  {s \in Spans :
     /\ Depth(s) = Len(f.path)
     /\ \A i \in DOMAIN f.path : StartsWith(LabelledRoute(s)[i], f.path[i])}

\* The layer 3 tree has no numbers.
SubTreePaths(s) == PathsBelow(s, [d \in Spans |-> StripIdx(LabelledRoute(d))])

\* Variant: the numbers are not stripped from the paths of layer 4.
SubPathsNumbered(s) == PathsBelow(s, [d \in Spans |-> LabelledRoute(d)])
SubPaths(s) == PathsBelow(s, [d \in Spans |-> StripIdx(LabelledRoute(d))])

\* matched_prefixes: a single match is taken unseen.
Matches(f) ==
  LET matched == MatchedPaths(f)
      wanted == SubTreePaths(f.span)
  IN  IF Cardinality(matched) = 1 THEN matched ELSE {s \in matched : SubPaths(s) = wanted}

\* The tuples are looked up by severity, and not all of them.
LookUp ==
  /\ calls = <<>> /\ ~raised
  /\ \E f \in found :
       /\ \A x \in shown : x.span # f.span
       /\ LET matches == Matches(f)
          IN  /\ matches # {}
              /\ shown' = shown \cup {[span |-> f.span, matches |-> matches]}
  /\ UNCHANGED <<treeVars, calls, path, found, raised>>

LookUpRaises ==
  /\ calls = <<>> /\ ~raised
  /\ \E f \in found : Matches(f) = {}
  /\ raised' = TRUE
  /\ UNCHANGED <<treeVars, calls, path, found, shown>>

Next == VisitChildlessMatch \/ Visit \/ Return \/ LookUp \/ LookUpRaises

Spec == Init /\ [][Next]_searchVars
-----------------------------------------------------------------------------
(***************************************************************************)
(* Properties.                                                             *)
(***************************************************************************)
Route(s) == LET spans == Lineage(s) IN [i \in DOMAIN spans |-> name[spans[i]]]

\* A name occurs twice on a route with another name between.
Interrupted(route) ==
  \E i, j, k \in DOMAIN route :
    i < j /\ j < k /\ route[i] = route[k] /\ route[i] # route[j]

\* "the path is a list: e.g. ['Root', 'B', 'A']" (report.py:261): the path of a
\* found span is the route to it.
FoundPathsAreRoutes == \A f \in found : f.path = Route(f.span)

\* It is, wherever no operation calls itself through another one: direct recursion
\* and repeated siblings do not confuse the shared path.
PathIsRoute == FoundPathsAreRoutes \/ \E s \in Spans : Interrupted(Route(s))

\* m ends the loop that would have led to s.
Hides(m, s) ==
  /\ EndsLoop(m)
  /\ LET spans == Lineage(s)
     IN  \E i \in DOMAIN spans : parent[spans[i]] = parent[m] /\ m < spans[i]

Invocations == {s \in Spans : name[s] = Bug}
FoundSpans == {f.span : f \in found}

\* "iterating through all matching spans (i.e. invocations)" (report.py:260): when the
\* search is over it has recorded invocations only, and all of them but perhaps those
\* that the early end of a loop (line 273) hid; it may find those as well.
FindsUnlessHidden ==
  calls = <<>> =>
    /\ FoundSpans \subseteq Invocations
    /\ {s \in Invocations : ~\E m \in Spans : Hides(m, s)} \subseteq FoundSpans

\* The report shows an invocation it found at the span of layer 4 that is that
\* invocation, beside others with the same spans below them (report.py:395, 453), and
\* none of its assertions fails, if no operation calls itself through another one.
\* Names that begin with each other add spans only below ancestors so named.
ShowsTheInvocation ==
  \/ /\ ~raised
     /\ \A x \in shown :
          /\ x.span \in x.matches
          /\ \A s \in x.matches :
               /\ name[s] = Bug /\ SubTreePaths(s) = SubTreePaths(x.span)
               /\ Route(s) # Route(x.span) => \E i \in DOMAIN Route(s) :
                    <<Route(s)[i], Route(x.span)[i]>> \in Extends
  \/ \E s \in Spans : Interrupted(Route(s))
=============================================================================
