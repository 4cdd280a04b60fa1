-------------------------- MODULE SpanSearchProofs --------------------------
(***************************************************************************)
(* Proofs about the search of the report and its lookup in layer 4, for    *)
(* trees of any size, any operations and any names that begin with each    *)
(* other.                                                                  *)
(***************************************************************************)
EXTENDS SpanSearch, TLAPS, FiniteSetTheorems, SequenceTheorems, WellFoundedInduction

-----------------------------------------------------------------------------
(***************************************************************************)
(* The way from the root to a span, in a fixed tree.                       *)
(***************************************************************************)
IsTree(up) ==
  /\ up \in [Spans -> 0..NumSpans]
  /\ \A s \in Spans : up[s] < s /\ (up[s] = 0 <=> s = 1)

LineageIn(up) ==
  LET spans[r \in 0..NumSpans] == IF r = 0 THEN <<>> ELSE Append(spans[up[r]], r)
  IN  spans

LEMMA LeastOf ==
  ASSUME NEW S, S \subseteq Nat, S # {}
  PROVE  \E least \in S : \A o \in S : least <= o
<1>1. PICK x \in S : \A y \in S : ~(<<y, x>> \in OpToRel(<, Nat))
  BY WFMin, NatLessThanWellFounded
<1>2. \A y \in S : ~(y < x)
  BY <1>1 DEF OpToRel
<1> QED
  BY <1>2

\* The ways to the first spans can be listed.
LEMMA LineagesExist ==
  ASSUME NEW up, IsTree(up)
  PROVE  \A m \in 0..NumSpans : \E g \in [0..m -> Seq(Spans)] :
            g[0] = <<>> /\ \A s \in 1..m : g[s] = Append(g[up[s]], s)
<1> DEFINE Lists(g, m) == g[0] = <<>> /\ \A s \in 1..m : g[s] = Append(g[up[s]], s)
           Bad == {m \in 0..NumSpans : ~\E g \in [0..m -> Seq(Spans)] : Lists(g, m)}
<1>0. NumSpans \in Nat /\ \A s \in 1..NumSpans : up[s] \in 0..NumSpans /\ up[s] < s
  BY NumSpansAssumption DEF IsTree, Spans
<1>1. SUFFICES ASSUME Bad # {} PROVE FALSE
  OBVIOUS
<1>2. PICK m \in Bad : \A k \in Bad : m <= k
  <2>1. Bad \subseteq Nat
    BY <1>0
  <2> HIDE DEF Bad
  <2> QED
    BY <1>1, <2>1, LeastOf
<1>3. m # 0
  <2>1. [j \in 0..0 |-> <<>>] \in [0..0 -> Seq(Spans)]
    BY EmptySeq
  <2>2. Lists([j \in 0..0 |-> <<>>], 0)
    OBVIOUS
  <2> QED
    BY <2>1, <2>2
<1>4. m \in 1..NumSpans /\ m - 1 \in 0..NumSpans /\ m - 1 \notin Bad
  <2>1. m \in 1..NumSpans /\ m - 1 \in 0..NumSpans /\ ~(m <= m - 1)
    BY <1>0, <1>3
  <2> HIDE DEF Bad
  <2> QED
    BY <1>2, <2>1
<1>5. PICK g \in [0..(m - 1) -> Seq(Spans)] : Lists(g, m - 1)
  <2> HIDE DEF Lists
  <2> QED
    BY <1>4
<1> HIDE DEF Bad
<1>8. m \in 1..NumSpans /\ up[m] \in 0..(m - 1)
  <2>1. m \in 1..NumSpans
    BY <1>4
  <2>2. up[m] \in 0..NumSpans /\ up[m] < m
    BY <1>0, <2>1
  <2> QED
    BY <1>0, <2>1, <2>2
<1>9. 0 \in 0..(m - 1) /\ g[0] = <<>> /\ \A i \in 1..(m - 1) : g[i] = Append(g[up[i]], i)
  <2>1. 0 \in 0..(m - 1)
    <3> HIDE DEF Lists
    <3> QED
      BY <1>0, <1>8
  <2>2. g[0] = <<>> /\ \A i \in 1..(m - 1) : g[i] = Append(g[up[i]], i)
    BY <1>5, Zenon
  <2> QED
    BY <2>1, <2>2
<1> DEFINE h == [j \in 0..m |-> IF j = m THEN Append(g[up[m]], m) ELSE g[j]]
<1>6. h \in [0..m -> Seq(Spans)]
  <2>1. g[up[m]] \in Seq(Spans) /\ m \in Spans
    BY <1>8 DEF Spans
  <2>2. Append(g[up[m]], m) \in Seq(Spans)
    BY <2>1, AppendProperties
  <2>3. \A j \in 0..m : j # m => g[j] \in Seq(Spans)
    BY <1>0, <1>8
  <2> QED
    BY <2>2, <2>3
<1>7. Lists(h, m)
  <2>1. h[m] = Append(g[up[m]], m) /\ \A j \in 0..(m - 1) : h[j] = g[j]
    BY <1>0, <1>8
  <2> HIDE DEF h
  <2>3. ASSUME NEW j \in 1..m PROVE h[j] = Append(h[up[j]], j)
    <3>1. CASE j = m
      BY <1>8, <2>1, <3>1
    <3>2. CASE j # m
      <4>1. j \in 1..(m - 1) /\ j \in 0..(m - 1) /\ up[j] \in 0..(m - 1)
        BY <1>0, <1>8, <3>2
      <4> QED
        BY <1>9, <2>1, <4>1
    <3> QED
      BY <3>1, <3>2
  <2> QED
    BY <1>9, <2>1, <2>3
<1> HIDE DEF Lists, h
<1> QED
  BY <1>2, <1>6, <1>7 DEF Bad

\* The way to a span is the way to its parent and the span.
LEMMA LineageIs ==
  ASSUME NEW up, IsTree(up)
  PROVE  /\ LineageIn(up)[0] = <<>>
         /\ \A s \in Spans : /\ LineageIn(up)[up[s]] \in Seq(Spans)
                             /\ LineageIn(up)[s] = Append(LineageIn(up)[up[s]], s)
                             /\ LineageIn(up)[s] \in Seq(Spans)
<1> DEFINE spans == CHOOSE spans : spans =
              [r \in 0..NumSpans |-> IF r = 0 THEN <<>> ELSE Append(spans[up[r]], r)]
<1>0. NumSpans \in Nat /\ \A s \in 1..NumSpans : up[s] \in 0..NumSpans /\ up[s] < s
  BY NumSpansAssumption DEF IsTree, Spans
<1>1. PICK g \in [0..NumSpans -> Seq(Spans)] :
         g[0] = <<>> /\ \A s \in 1..NumSpans : g[s] = Append(g[up[s]], s)
  <2>1. NumSpans \in 0..NumSpans
    BY <1>0
  <2> QED
    BY <2>1, LineagesExist
<1>2. g = [r \in 0..NumSpans |-> IF r = 0 THEN <<>> ELSE Append(g[up[r]], r)]
  BY <1>0, <1>1
<1>3. spans = [r \in 0..NumSpans |-> IF r = 0 THEN <<>> ELSE Append(spans[up[r]], r)]
  BY <1>2
<1>4. LineageIn(up) = spans
  BY DEF LineageIn
<1> HIDE DEF spans
<1>5. spans[0] = <<>> /\ \A s \in 1..NumSpans : spans[s] = Append(spans[up[s]], s)
  <2> DEFINE way(r) == IF r = 0 THEN <<>> ELSE Append(spans[up[r]], r)
  <2>1. \A r \in 0..NumSpans : spans[r] = way(r)
    <3>1. spans = [r \in 0..NumSpans |-> way(r)]
      BY <1>3
    <3> HIDE DEF way
    <3> QED
      BY <3>1, Zenon
  <2>2. 0 \in 0..NumSpans /\ \A s \in 1..NumSpans : s \in 0..NumSpans /\ s # 0
    BY <1>0
  <2> QED
    BY <2>1, <2>2
<1> DEFINE Bad == {r \in 0..NumSpans : spans[r] \notin Seq(Spans)}
<1>6. Bad = {}
  <2> SUFFICES ASSUME Bad # {} PROVE FALSE
    OBVIOUS
  <2>1. Bad \subseteq Nat
    BY <1>0
  <2>2. PICK r \in Bad : \A q \in Bad : r <= q
    <3> HIDE DEF Bad
    <3> QED
      BY <2>1, LeastOf
  <2>3. r # 0
    BY <1>5, EmptySeq
  <2>4. r \in 1..NumSpans /\ up[r] \in 0..NumSpans /\ ~(r <= up[r])
    BY <1>0, <2>3
  <2>5. spans[up[r]] \in Seq(Spans)
    BY <2>2, <2>4
  <2>6. spans[r] \in Seq(Spans)
    <3>1. r \in Spans
      BY <2>4 DEF Spans
    <3>2. Append(spans[up[r]], r) \in Seq(Spans)
      BY <2>5, <3>1, AppendProperties
    <3> QED
      BY <1>5, <2>4, <3>2
  <2> QED
    BY <2>6
<1>7. \A r \in 0..NumSpans : spans[r] \in Seq(Spans)
  BY <1>6
<1>8. \A s \in 1..NumSpans : s \in 0..NumSpans /\ up[s] \in 0..NumSpans
  BY <1>0
<1> HIDE DEF Bad
<1> QED
  BY <1>4, <1>5, <1>7, <1>8 DEF Spans

-----------------------------------------------------------------------------
(***************************************************************************)
(* The tree of the search.                                                 *)
(***************************************************************************)
Tree == IsTree(parent) /\ name \in [Spans -> Names]

LEMMA LineageHere ==
  ASSUME NEW s
  PROVE  Lineage(s) = LineageIn(parent)[s]
BY DEF Lineage, LineageIn

LEMMA ParentIs ==
  ASSUME Tree, NEW s \in Spans
  PROVE  /\ NumSpans \in Nat /\ s \in Nat /\ s # 0 /\ s \in 1..NumSpans
         /\ parent[s] \in Nat /\ parent[s] < s
         /\ parent[s] # 0 => parent[s] \in Spans
         /\ parent[s] = 0 <=> s = 1
BY NumSpansAssumption DEF Tree, IsTree, Spans

LEMMA LineageAppends ==
  ASSUME Tree
  PROVE  /\ Lineage(0) = <<>>
         /\ \A s \in Spans : /\ Lineage(parent[s]) \in Seq(Spans)
                             /\ Lineage(s) = Append(Lineage(parent[s]), s)
                             /\ Lineage(s) \in Seq(Spans)
<1>1. IsTree(parent)
  BY DEF Tree
<1>2. Lineage(0) = <<>>
  BY <1>1, LineageIs, LineageHere
<1>3. ASSUME NEW s \in Spans
      PROVE  /\ Lineage(parent[s]) \in Seq(Spans)
             /\ Lineage(s) = Append(Lineage(parent[s]), s)
             /\ Lineage(s) \in Seq(Spans)
  <2>1. /\ Lineage(s) = LineageIn(parent)[s]
        /\ Lineage(parent[s]) = LineageIn(parent)[parent[s]]
    BY LineageHere
  <2> QED
    BY <1>1, <2>1, LineageIs
<1> QED
  BY <1>2, <1>3

\* The way to s ends at s, starts at the root, and goes from parents to children.
Shaped(s) ==
  /\ Depth(s) \in Nat \ {0}
  /\ Lineage(s)[Depth(s)] = s
  /\ parent[Lineage(s)[1]] = 0
  /\ \A i \in 1..Depth(s) :
       Lineage(s)[i] \in Spans /\ Lineage(s)[i] <= s /\ Depth(Lineage(s)[i]) = i
  /\ \A i \in 2..Depth(s) : parent[Lineage(s)[i]] = Lineage(s)[i - 1]

LEMMA LongerWay ==
  ASSUME Tree, NEW s \in Spans, parent[s] \in Spans, Shaped(parent[s])
  PROVE  Shaped(s)
<1> DEFINE p == parent[s]
           n == Depth(p)
<1>1. /\ Lineage(p) \in Seq(Spans) /\ Lineage(s) = Append(Lineage(p), s)
      /\ n = Len(Lineage(p))
  BY LineageAppends DEF Depth
<1>2. /\ Len(Lineage(s)) = n + 1
      /\ \A i \in 1..n : Lineage(s)[i] = Lineage(p)[i]
      /\ Lineage(s)[n + 1] = s
  BY <1>1, AppendProperties
<1>3. Depth(s) = n + 1 /\ n \in Nat \ {0}
  BY <1>2 DEF Depth, Shaped
<1>4. p < s /\ s \in Nat /\ p \in Nat /\ parent[s] = p
  BY ParentIs
<1>5. /\ Lineage(p)[n] = p /\ parent[Lineage(p)[1]] = 0
      /\ \A i \in 1..n : Lineage(p)[i] \in Spans /\ Lineage(p)[i] <= p
                           /\ Depth(Lineage(p)[i]) = i
      /\ \A i \in 2..n : parent[Lineage(p)[i]] = Lineage(p)[i - 1]
  BY DEF Shaped
<1> HIDE DEF p, n
<1>6. 1 \in 1..n /\ n \in 1..n /\ 1..Depth(s) = 1..n \cup {n + 1}
      /\ 2..Depth(s) = 2..n \cup {n + 1} /\ \A i \in 2..n : i \in 1..n /\ i - 1 \in 1..n
  BY <1>3
<1>7. parent[Lineage(s)[1]] = 0
  BY <1>2, <1>5, <1>6
<1>8. ASSUME NEW i \in 1..Depth(s)
      PROVE  Lineage(s)[i] \in Spans /\ Lineage(s)[i] <= s /\ Depth(Lineage(s)[i]) = i
  <2>1. CASE i \in 1..n
    <3>1. Lineage(s)[i] \in Spans /\ Lineage(s)[i] <= p /\ Depth(Lineage(s)[i]) = i
      BY <1>2, <1>5, <2>1
    <3>2. Lineage(s)[i] \in Nat
      BY <3>1, ParentIs
    <3> QED
      BY <1>4, <3>1, <3>2
  <2>2. CASE i = n + 1
    BY <1>2, <1>3, <1>4, <2>2
  <2> QED
    BY <1>6, <2>1, <2>2
<1>9. ASSUME NEW i \in 2..Depth(s) PROVE parent[Lineage(s)[i]] = Lineage(s)[i - 1]
  <2>1. CASE i \in 2..n
    BY <1>2, <1>5, <1>6, <2>1
  <2>2. CASE i = n + 1
    <3>1. i - 1 = n
      BY <1>3, <2>2
    <3> QED
      BY <1>2, <1>4, <1>5, <1>6, <2>2, <3>1
  <2> QED
    BY <1>6, <2>1, <2>2
<1>10. Depth(s) \in Nat \ {0} /\ Lineage(s)[Depth(s)] = s
  BY <1>2, <1>3
<1> QED
  BY <1>7, <1>8, <1>9, <1>10 DEF Shaped

LEMMA LineageShaped ==
  ASSUME Tree
  PROVE  \A s \in Spans : Shaped(s)
<1> DEFINE Bad == {s \in Spans : ~Shaped(s)}
<1> SUFFICES ASSUME Bad # {} PROVE FALSE
  OBVIOUS
<1>1. Bad \subseteq Nat
  BY ParentIs
<1>2. PICK s \in Bad : \A r \in Bad : s <= r
  <2> HIDE DEF Bad
  <2> QED
    BY <1>1, LeastOf
<1>3. s \in Spans /\ ~Shaped(s)
  OBVIOUS
<1>4. CASE parent[s] = 0
  <2>1. Lineage(s) = Append(<<>>, s) /\ <<>> \in Seq(Spans) /\ Len(<<>>) = 0
    BY <1>3, <1>4, LineageAppends, EmptySeq
  <2>2. Len(Lineage(s)) = 0 + 1 /\ Lineage(s)[0 + 1] = s
    BY <1>3, <2>1, AppendProperties
  <2>3. Depth(s) = 1 /\ Lineage(s)[1] = s /\ s \in Nat
    BY <1>3, <2>2, ParentIs DEF Depth
  <2>4. Shaped(s)
    BY <1>3, <1>4, <2>3 DEF Shaped
  <2> QED
    BY <1>3, <2>4
<1>5. CASE parent[s] # 0
  <2>1. parent[s] \in Spans /\ ~(s <= parent[s])
    BY <1>3, <1>5, ParentIs
  <2>2. Shaped(parent[s])
    BY <1>2, <2>1
  <2> QED
    BY <1>3, <2>1, <2>2, LongerWay
<1> QED
  BY <1>4, <1>5

\* Whoever is below a span has it on its way, at the span's depth.
LEMMA BelowIs ==
  ASSUME Tree, NEW s \in Spans, NEW d \in Below(s)
  PROVE  /\ d \in Spans /\ s <= d
         /\ Depth(s) \in 1..Depth(d) /\ Lineage(d)[Depth(s)] = s
         /\ Depth(s) = Depth(d) => s = d
<1>1. PICK i \in DOMAIN Lineage(d) : d \in Spans /\ Lineage(d)[i] = s
  BY DEF Below, Among
<1>2. DOMAIN Lineage(d) = 1..Depth(d)
  BY <1>1, LineageAppends, LenProperties DEF Depth
<1>3. Shaped(d)
  BY <1>1, LineageShaped
<1>4. Depth(s) = i /\ s <= d /\ Lineage(d)[Depth(d)] = d
  BY <1>1, <1>2, <1>3 DEF Shaped
<1> QED
  BY <1>1, <1>2, <1>4

LEMMA BelowSelf ==
  ASSUME Tree, NEW s \in Spans
  PROVE  s \in Below(s)
<1>1. Shaped(s) /\ DOMAIN Lineage(s) = 1..Depth(s)
  BY LineageShaped, LineageAppends, LenProperties DEF Depth
<1>2. Depth(s) \in DOMAIN Lineage(s) /\ Lineage(s)[Depth(s)] = s
  BY <1>1 DEF Shaped
<1> QED
  BY <1>2 DEF Below, Among

LEMMA BelowParent ==
  ASSUME Tree, NEW c \in Spans, parent[c] # 0, NEW d \in Below(c)
  PROVE  d \in Below(parent[c])
<1>1. /\ d \in Spans /\ Depth(c) \in 1..Depth(d) /\ Lineage(d)[Depth(c)] = c
      /\ DOMAIN Lineage(d) = 1..Depth(d)
  BY BelowIs, LineageAppends, LenProperties DEF Depth
<1>2. Shaped(d)
  BY <1>1, LineageShaped
<1>3. Depth(d) \in Nat /\ parent[Lineage(d)[1]] = 0
  BY <1>2 DEF Shaped
<1>4. Depth(c) # 1
  BY <1>1, <1>3
<1>5. Depth(c) \in 2..Depth(d) /\ Depth(c) - 1 \in DOMAIN Lineage(d)
  BY <1>1, <1>3, <1>4
<1>6. Lineage(d)[Depth(c) - 1] = parent[c]
  BY <1>1, <1>2, <1>5 DEF Shaped
<1> QED
  BY <1>1, <1>5, <1>6 DEF Below, Among

LEMMA BelowChild ==
  ASSUME Tree, NEW s \in Spans, NEW d \in Below(s), d # s
  PROVE  \E c \in Children(s) : d \in Below(c)
<1>1. /\ d \in Spans /\ Depth(s) \in 1..Depth(d) /\ Lineage(d)[Depth(s)] = s
      /\ DOMAIN Lineage(d) = 1..Depth(d) /\ Depth(s) # Depth(d)
  BY BelowIs, LineageAppends, LenProperties DEF Depth
<1>2. Shaped(d)
  BY <1>1, LineageShaped
<1>3. Depth(d) \in Nat
  BY <1>2 DEF Shaped
<1>4. /\ Depth(s) + 1 \in 2..Depth(d) /\ Depth(s) + 1 \in DOMAIN Lineage(d)
      /\ (Depth(s) + 1) - 1 = Depth(s)
  BY <1>1, <1>3
<1> DEFINE c == Lineage(d)[Depth(s) + 1]
<1>5. parent[c] = s /\ c \in Spans
  BY <1>1, <1>2, <1>4 DEF Shaped
<1>6. d \in Below(c)
  BY <1>1, <1>4 DEF Below, Among
<1> QED
  BY <1>5, <1>6 DEF Children

-----------------------------------------------------------------------------
(***************************************************************************)
(* What a step leaves alone: everything that depends on the tree only.     *)
(***************************************************************************)
Confused == \E s \in Spans : Interrupted(Route(s))
Hidden(s) == \E m \in Spans : Hides(m, s)

LEMMA SameLineage ==
  ASSUME treeVars' = treeVars, NEW s
  PROVE  Lineage(s)' = Lineage(s) /\ Depth(s)' = Depth(s) /\ Children(s)' = Children(s)
<1>1. parent' = parent
  BY DEF treeVars
<1>2. Lineage(s)' = LineageIn(parent')[s]
  BY DEF Lineage, LineageIn
<1>3. Lineage(s)' = Lineage(s)
  BY <1>1, <1>2, LineageHere
<1>4. Depth(s)' = Depth(s)
  BY <1>3 DEF Depth
<1> QED
  BY <1>1, <1>3, <1>4 DEF Children

LEMMA SameTree ==
  ASSUME treeVars' = treeVars, Tree
  PROVE  /\ Tree'
         /\ \A s : Below(s)' = Below(s) /\ Route(s)' = Route(s) /\ LabelledRoute(s)' = LabelledRoute(s)
         /\ \A s : EndsLoop(s)' <=> EndsLoop(s)
         /\ \A s : Hidden(s)' <=> Hidden(s)
         /\ Invocations' = Invocations
         /\ Confused' <=> Confused
<1>1. parent' = parent /\ name' = name
  BY DEF treeVars
<1>2. Tree'
  BY <1>1 DEF Tree
<1>3. ASSUME NEW s PROVE Below(s)' = Below(s)
  <2>1. \A d : Lineage(d)' = Lineage(d)
    BY SameLineage
  <2>2. \A d : Among(s, Lineage(d))' <=> Among(s, Lineage(d))
    BY <2>1 DEF Among
  <2> QED
    BY <2>2 DEF Below
<1>4. ASSUME NEW s PROVE Route(s)' = Route(s)
  BY <1>1, SameLineage DEF Route
<1>5. ASSUME NEW s PROVE LabelledRoute(s)' = LabelledRoute(s)
  <2>1. ASSUME NEW t PROVE Label(t)' = Label(t)
    <3>1. Children(parent[t])' = Children(parent[t])
      BY <1>1 DEF Children
    <3> QED
      BY <1>1, <3>1 DEF Label
  <2>2. Lineage(s)' = Lineage(s)
    BY SameLineage
  <2> QED
    BY <2>1, <2>2 DEF LabelledRoute
<1>6. ASSUME NEW s PROVE EndsLoop(s)' <=> EndsLoop(s)
  BY <1>1, SameLineage DEF EndsLoop
<1>7. ASSUME NEW s PROVE Hidden(s)' <=> Hidden(s)
  <2>1. Lineage(s)' = Lineage(s)
    BY SameLineage
  <2> QED
    BY <1>1, <1>6, <2>1 DEF Hidden, Hides
<1>8. Invocations' = Invocations
  BY <1>1 DEF Invocations
<1>9. Confused' <=> Confused
  BY <1>4 DEF Confused, Interrupted
<1> QED
  BY <1>2, <1>3, <1>4, <1>5, <1>6, <1>7, <1>8, <1>9

-----------------------------------------------------------------------------
(***************************************************************************)
(* The shared path.                                                        *)
(***************************************************************************)
LEMMA FirstIs ==
  ASSUME NEW S, S \subseteq Spans, S # {}
  PROVE  First(S) \in S /\ \A r \in S : First(S) <= r
<1>1. S \subseteq Nat
  BY NumSpansAssumption DEF Spans
<1>2. \E s \in S : \A r \in S : s <= r
  BY <1>1, LeastOf
<1> QED
  BY <1>2 DEF First

\* Taking the last element off by its value: the first occurrence is as good, when
\* nothing else is between them.
LEMMA RemoveLast ==
  ASSUME NEW S, NEW r \in Seq(S), NEW e \in S, ~Interrupted(Append(r, e))
  PROVE  Remove(Append(r, e), e) = r
<1> DEFINE s == Append(r, e)
           n == Len(r)
           At(i) == i \in DOMAIN s /\ s[i] = e /\ \A j \in 1..(i - 1) : s[j] # e
           at == CHOOSE i \in DOMAIN s : s[i] = e /\ \A j \in 1..(i - 1) : s[j] # e
<1>1. /\ n \in Nat /\ s \in Seq(S) /\ Len(s) = n + 1 /\ DOMAIN s = 1..(n + 1)
      /\ \A i \in 1..n : s[i] = r[i]
      /\ s[n + 1] = e
  BY AppendProperties, LenProperties
<1>2. Remove(s, e) = SubSeq(s, 1, at - 1) \o SubSeq(s, at + 1, n + 1)
  BY <1>1 DEF Remove
<1>3. ~Interrupted(s)
  OBVIOUS
<1> HIDE DEF s, n
<1>4. \E i \in DOMAIN s : s[i] = e /\ \A j \in 1..(i - 1) : s[j] # e
  <2> DEFINE Places == {i \in 1..(n + 1) : s[i] = e}
  <2>1. Places \subseteq Nat /\ Places # {}
    BY <1>1
  <2>2. PICK i \in Places : \A j \in Places : i <= j
    <3> HIDE DEF Places
    <3> QED
      BY <2>1, LeastOf
  <2>3. ASSUME NEW j \in 1..(i - 1) PROVE s[j] # e
    <3>1. j \in 1..(n + 1) /\ ~(i <= j)
      BY <1>1
    <3> QED
      BY <2>2, <3>1
  <2> QED
    BY <1>1, <2>3
<1>5. At(at)
  BY <1>4
<1> HIDE DEF at
<1>6. at \in 1..(n + 1) /\ s[at] = e
  BY <1>1, <1>5
<1>7. ASSUME NEW i \in at..(n + 1) PROVE s[i] = e
  <2>1. i = at \/ i = n + 1 \/ (at < i /\ i < n + 1)
    BY <1>1, <1>6
  <2>2. i \in 1..(n + 1) /\ n + 1 \in 1..(n + 1)
    BY <1>1, <1>6
  <2>3. CASE at < i /\ i < n + 1
    BY <1>1, <1>3, <1>6, <2>2, <2>3 DEF Interrupted
  <2> QED
    BY <1>1, <1>6, <2>1, <2>3
<1>8. /\ SubSeq(s, 1, at - 1) \in Seq(S) /\ Len(SubSeq(s, 1, at - 1)) = at - 1
      /\ \A i \in 1..(at - 1) : SubSeq(s, 1, at - 1)[i] = s[i]
  <2>1. 1 \in Int /\ at - 1 \in Int /\ \A i \in 1..(at - 1) : i \in 1..(n + 1)
    BY <1>1, <1>6
  <2>2. \A i \in 1..(at - 1) : s[i] \in S
    BY <1>1, <2>1, ElementOfSeq
  <2>3. /\ SubSeq(s, 1, at - 1) \in Seq(S)
        /\ Len(SubSeq(s, 1, at - 1)) = IF 1 <= at - 1 THEN (at - 1) - 1 + 1 ELSE 0
        /\ \A i \in 1..((at - 1) - 1 + 1) : SubSeq(s, 1, at - 1)[i] = s[1 + i - 1]
    BY <2>1, <2>2, SubSeqProperties
  <2>4. (at - 1) - 1 + 1 = at - 1 /\ \A i \in 1..(at - 1) : 1 + i - 1 = i
    BY <1>1, <1>6
  <2>5. (IF 1 <= at - 1 THEN at - 1 ELSE 0) = at - 1
    BY <1>1, <1>6
  <2> QED
    BY <2>3, <2>4, <2>5
<1>9. /\ SubSeq(s, at + 1, n + 1) \in Seq(S) /\ Len(SubSeq(s, at + 1, n + 1)) = (n + 1) - at
      /\ \A i \in 1..((n + 1) - at) : SubSeq(s, at + 1, n + 1)[i] = s[at + i]
  <2>1. at + 1 \in Int /\ n + 1 \in Int /\ \A i \in (at + 1)..(n + 1) : i \in 1..(n + 1)
    BY <1>1, <1>6
  <2>2. \A i \in (at + 1)..(n + 1) : s[i] \in S
    BY <1>1, <2>1, ElementOfSeq
  <2>3. /\ SubSeq(s, at + 1, n + 1) \in Seq(S)
        /\ Len(SubSeq(s, at + 1, n + 1)) =
             IF at + 1 <= n + 1 THEN (n + 1) - (at + 1) + 1 ELSE 0
        /\ \A i \in 1..((n + 1) - (at + 1) + 1) :
             SubSeq(s, at + 1, n + 1)[i] = s[(at + 1) + i - 1]
    BY <2>1, <2>2, SubSeqProperties
  <2>4. (n + 1) - (at + 1) + 1 = (n + 1) - at /\ \A i \in 1..((n + 1) - at) : (at + 1) + i - 1 = at + i
    BY <1>1, <1>6
  <2>5. (IF at + 1 <= n + 1 THEN (n + 1) - at ELSE 0) = (n + 1) - at
    BY <1>1, <1>6
  <2> QED
    BY <2>3, <2>4, <2>5
<1> DEFINE a == SubSeq(s, 1, at - 1)
           b == SubSeq(s, at + 1, n + 1)
<1>10. /\ a \in Seq(S) /\ Len(a) = at - 1 /\ \A i \in 1..(at - 1) : a[i] = s[i]
       /\ b \in Seq(S) /\ Len(b) = (n + 1) - at /\ \A i \in 1..((n + 1) - at) : b[i] = s[at + i]
       /\ Remove(s, e) = a \o b
  BY <1>2, <1>8, <1>9
<1> HIDE DEF a, b
<1>11. /\ a \o b \in Seq(S) /\ Len(a \o b) = Len(a) + Len(b)
       /\ \A i \in 1..(Len(a) + Len(b)) : (a \o b)[i] = IF i <= Len(a) THEN a[i] ELSE b[i - Len(a)]
  BY <1>10, ConcatProperties
<1>12. Len(a) + Len(b) = n
  BY <1>1, <1>6, <1>10
<1>13. ASSUME NEW i \in 1..n PROVE (a \o b)[i] = r[i]
  <2>1. CASE i <= at - 1
    <3>1. i \in 1..(at - 1)
      BY <2>1
    <3> QED
      BY <1>1, <1>10, <1>11, <1>12, <2>1, <3>1
  <2>2. CASE ~(i <= at - 1)
    <3>1. /\ i \in at..(n + 1) /\ i + 1 \in at..(n + 1)
          /\ i - (at - 1) \in 1..((n + 1) - at) /\ at + (i - (at - 1)) = i + 1
      BY <1>1, <1>6, <2>2
    <3>2. (a \o b)[i] = b[i - (at - 1)]
      BY <1>10, <1>11, <1>12, <2>2
    <3>3. b[i - (at - 1)] = s[i + 1]
      BY <1>10, <3>1
    <3> QED
      BY <1>1, <1>7, <3>1, <3>2, <3>3
  <2> QED
    BY <2>1, <2>2
<1>14. n = Len(r)
  BY DEF n
<1>15. a \o b = r
  BY <1>11, <1>12, <1>13, <1>14, SeqEqual
<1> QED
  BY <1>10, <1>15 DEF s

LEMMA RouteAppends ==
  ASSUME Tree
  PROVE  /\ Route(0) = <<>>
         /\ \A s \in Spans : /\ Route(parent[s]) \in Seq(Names) /\ Route(s) \in Seq(Names)
                             /\ name[s] \in Names
                             /\ Route(s) = Append(Route(parent[s]), name[s])
<1>1. name \in [Spans -> Names]
  BY DEF Tree
<1>2. Route(0) = <<>>
  BY LineageAppends DEF Route
<1>3. ASSUME NEW t, Lineage(t) \in Seq(Spans)
      PROVE  /\ Route(t) \in Seq(Names) /\ Len(Route(t)) = Len(Lineage(t))
             /\ \A i \in 1..Len(Lineage(t)) : Route(t)[i] = name[Lineage(t)[i]]
  <2>1. Len(Lineage(t)) \in Nat /\ DOMAIN Lineage(t) = 1..Len(Lineage(t))
    BY <1>3, LenProperties
  <2>2. \A i \in 1..Len(Lineage(t)) : Lineage(t)[i] \in Spans
    BY <1>3, ElementOfSeq
  <2>3. Route(t) \in [1..Len(Lineage(t)) -> Names]
    BY <1>1, <2>1, <2>2 DEF Route
  <2>4. Route(t) \in Seq(Names)
    BY <2>1, <2>3, SeqDef
  <2> QED
    BY <2>1, <2>3, <2>4, LenProperties DEF Route
<1>4. ASSUME NEW s \in Spans
      PROVE  /\ Route(parent[s]) \in Seq(Names) /\ Route(s) \in Seq(Names)
             /\ name[s] \in Names
             /\ Route(s) = Append(Route(parent[s]), name[s])
  <2> DEFINE p == parent[s]
             n == Len(Lineage(p))
  <2>1. /\ Lineage(p) \in Seq(Spans) /\ Lineage(s) \in Seq(Spans)
        /\ Lineage(s) = Append(Lineage(p), s)
    BY LineageAppends
  <2>2. /\ Len(Lineage(s)) = n + 1 /\ n \in Nat
        /\ \A i \in 1..n : Lineage(s)[i] = Lineage(p)[i]
        /\ Lineage(s)[n + 1] = s
    BY <2>1, AppendProperties, LenProperties
  <2>3. /\ Route(p) \in Seq(Names) /\ Len(Route(p)) = n
        /\ \A i \in 1..n : Route(p)[i] = name[Lineage(p)[i]]
        /\ Route(s) \in Seq(Names) /\ Len(Route(s)) = n + 1
        /\ \A i \in 1..(n + 1) : Route(s)[i] = name[Lineage(s)[i]]
    BY <1>3, <2>1, <2>2
  <2>4. name[s] \in Names
    BY <1>1
  <2>5. p = parent[s]
    OBVIOUS
  <2> HIDE DEF p, n
  <2> DEFINE t == Append(Route(p), name[s])
  <2>6. /\ t \in Seq(Names) /\ Len(t) = n + 1 /\ \A i \in 1..n : t[i] = Route(p)[i]
        /\ t[n + 1] = name[s]
    BY <2>3, <2>4, AppendProperties
  <2> HIDE DEF t
  <2>7. ASSUME NEW i \in 1..(n + 1) PROVE Route(s)[i] = t[i]
    <3>1. CASE i \in 1..n
      BY <2>2, <2>3, <2>6, <3>1
    <3>2. CASE i = n + 1
      BY <2>2, <2>3, <2>6, <3>2
    <3> QED
      BY <2>2, <3>1, <3>2
  <2>8. Route(s) = t
    BY <2>3, <2>6, <2>7, SeqEqual
  <2> QED
    BY <2>3, <2>4, <2>5, <2>8 DEF t
<1> QED
  BY <1>2, <1>4

-----------------------------------------------------------------------------
(***************************************************************************)
(* The open calls.                                                         *)
(***************************************************************************)
\* The span whose children the k-th open call visits, 0 for the call on the root.
Visited(k) == IF k = 1 THEN 0 ELSE First(calls[k - 1])

\* The open calls are nested as the spans on the way to where the search is; what a
\* call has visited comes before what it has not, and did not end its loop.
StackInv ==
  /\ calls \in Seq(SUBSET Spans)
  /\ \A k \in 1..(Len(calls) - 1) : calls[k] # {} /\ ~EndsLoop(First(calls[k]))
  /\ \A k \in 1..Len(calls) : Lineage(Visited(k)) = [i \in 1..(k - 1) |-> First(calls[i])]
  /\ \A k \in 1..Len(calls) : calls[k] \subseteq Children(Visited(k))
  /\ \A k \in 1..Len(calls) :
       calls[k] # {} =>
         \A c \in Children(Visited(k)) \ calls[k] : c < First(calls[k]) /\ ~EndsLoop(c)

\* The span a call is at, and the way to it, which nothing hides.
LEMMA CurrentIs ==
  ASSUME Tree, StackInv, NEW k \in 1..Len(calls), calls[k] # {}
  PROVE  /\ First(calls[k]) \in Spans /\ First(calls[k]) \in calls[k]
         /\ \A t \in calls[k] : First(calls[k]) <= t
         /\ parent[First(calls[k])] = Visited(k)
         /\ Len(Lineage(First(calls[k]))) = k
         /\ Lineage(First(calls[k])) = [i \in 1..k |-> First(calls[i])]
<1>1. calls[k] \subseteq Spans /\ Len(calls) \in Nat
  BY ElementOfSeq, LenProperties DEF StackInv
<1> DEFINE s == First(calls[k])
<1>2. s \in calls[k] /\ \A t \in calls[k] : s <= t
  BY <1>1, FirstIs
<1>3. s \in Spans /\ s \in Children(Visited(k))
  BY <1>1, <1>2 DEF StackInv
<1>4. parent[s] = Visited(k)
  BY <1>3 DEF Children
<1>5. /\ Lineage(Visited(k)) \in Seq(Spans)
      /\ Lineage(s) = Append(Lineage(Visited(k)), s) /\ Lineage(s) \in Seq(Spans)
  BY <1>3, <1>4, LineageAppends
<1>6. Lineage(Visited(k)) = [i \in 1..(k - 1) |-> First(calls[i])]
  BY DEF StackInv
<1>7. k \in Nat /\ k - 1 \in Nat /\ k - 1 + 1 = k
  BY <1>1
<1>8. Len(Lineage(Visited(k))) = k - 1
  <2> DEFINE way == Lineage(Visited(k))
  <2>1. way \in Seq(Spans) /\ DOMAIN way = 1..(k - 1)
    BY <1>5, <1>6
  <2> HIDE DEF way
  <2>2. DOMAIN way = 1..Len(way) /\ Len(way) \in Nat
    BY <2>1, LenProperties
  <2>3. Len(way) = k - 1
    BY <1>7, <2>1, <2>2
  <2> QED
    BY <2>3 DEF way
<1>9. /\ Len(Lineage(s)) = k
      /\ \A i \in 1..(k - 1) : Lineage(s)[i] = First(calls[i])
      /\ Lineage(s)[k] = s
  <2>1. /\ Len(Lineage(s)) = (k - 1) + 1
        /\ \A i \in 1..(k - 1) : Lineage(s)[i] = Lineage(Visited(k))[i]
        /\ Lineage(s)[(k - 1) + 1] = s
    BY <1>3, <1>5, <1>8, AppendProperties
  <2> QED
    BY <1>6, <1>7, <2>1
<1>10. Lineage(s) = [i \in 1..k |-> First(calls[i])]
  <2>1. Lineage(s) = [i \in 1..k |-> Lineage(s)[i]]
    BY <1>5, <1>9, LenProperties
  <2>2. \A i \in 1..k : Lineage(s)[i] = First(calls[i])
    <3>1. \A i \in 1..k : i = k \/ i \in 1..(k - 1)
      BY <1>7
    <3> QED
      BY <1>9, <3>1
  <2> QED
    BY <2>1, <2>2
<1> QED
  BY <1>2, <1>3, <1>4, <1>9, <1>10

\* What the actions do to the calls.
Last == Len(calls)

LEMMA CallersAre ==
  ASSUME StackInv, calls # <<>>
  PROVE  /\ Last \in Nat \ {0} /\ Top = calls[Last] /\ Top \subseteq Spans
         /\ Callers \in Seq(SUBSET Spans) /\ Len(Callers) = Last - 1
         /\ \A k \in 1..(Last - 1) : Callers[k] = calls[k]
         /\ \A k \in 1..Last : calls[k] \in SUBSET Spans
<1>1. Last \in Nat \ {0} /\ \A k \in 1..Last : calls[k] \in SUBSET Spans
  BY EmptySeq, ElementOfSeq, LenProperties DEF StackInv, Last
<1>2. Top = calls[Last] /\ Last \in 1..Last
  BY <1>1 DEF Top, Last
<1>3. 1 \in Int /\ Last - 1 \in Int /\ \A k \in 1..(Last - 1) : k \in 1..Last
  BY <1>1
<1>4. /\ Callers \in Seq(SUBSET Spans)
      /\ Len(Callers) = IF 1 <= Last - 1 THEN (Last - 1) - 1 + 1 ELSE 0
      /\ \A k \in 1..((Last - 1) - 1 + 1) : Callers[k] = calls[1 + k - 1]
  BY <1>1, <1>3, SubSeqProperties DEF Callers, Last
<1>5. (Last - 1) - 1 + 1 = Last - 1 /\ \A k \in 1..(Last - 1) : 1 + k - 1 = k
  BY <1>1
<1>6. (IF 1 <= Last - 1 THEN Last - 1 ELSE 0) = Last - 1
  BY <1>1
<1> QED
  BY <1>1, <1>2, <1>4, <1>5, <1>6

LEMMA PushIs ==
  ASSUME StackInv, calls # <<>>, NEW S \in SUBSET Spans, calls' = Append(calls, S)
  PROVE  /\ calls' \in Seq(SUBSET Spans) /\ Len(calls') = Last + 1
         /\ \A k \in 1..Last : calls'[k] = calls[k]
         /\ calls'[Last + 1] = S
BY AppendProperties DEF StackInv, Last

LEMMA ReplaceIs ==
  ASSUME StackInv, calls # <<>>, calls' = Append(Callers, {})
  PROVE  /\ calls' \in Seq(SUBSET Spans) /\ Len(calls') = Last
         /\ \A k \in 1..(Last - 1) : calls'[k] = calls[k]
         /\ calls'[Last] = {}
<1>1. /\ Last \in Nat \ {0} /\ Callers \in Seq(SUBSET Spans) /\ Len(Callers) = Last - 1
      /\ \A k \in 1..(Last - 1) : Callers[k] = calls[k]
      /\ {} \in SUBSET Spans
  BY CallersAre
<1>2. /\ calls' \in Seq(SUBSET Spans) /\ Len(calls') = (Last - 1) + 1
      /\ \A k \in 1..(Last - 1) : calls'[k] = Callers[k]
      /\ calls'[(Last - 1) + 1] = {}
  BY <1>1, AppendProperties
<1>3. (Last - 1) + 1 = Last
  BY <1>1
<1> QED
  BY <1>1, <1>2, <1>3

LEMMA PopIs ==
  ASSUME StackInv, calls # <<>>, Len(calls) # 1, NEW S \in SUBSET Spans,
         calls' = [Callers EXCEPT ![Len(calls) - 1] = S]
  PROVE  /\ calls' \in Seq(SUBSET Spans) /\ Len(calls') = Last - 1 /\ Last - 1 \in 1..Last
         /\ \A k \in 1..(Last - 2) : calls'[k] = calls[k]
         /\ calls'[Last - 1] = S
<1>1. /\ Last \in Nat \ {0} /\ Callers \in Seq(SUBSET Spans) /\ Len(Callers) = Last - 1
      /\ \A k \in 1..(Last - 1) : Callers[k] = calls[k]
      /\ Last # 1 /\ calls' = [Callers EXCEPT ![Last - 1] = S]
  BY CallersAre DEF Last
<1>2. Last - 1 \in 1..Len(Callers) /\ Last - 1 \in 1..Last
  BY <1>1
<1>3. /\ calls' \in Seq(SUBSET Spans) /\ Len(calls') = Len(Callers)
      /\ \A j \in 1..Len(Callers) : calls'[j] = IF j = Last - 1 THEN S ELSE Callers[j]
  <2> DEFINE T == SUBSET Spans
             cs == Callers
             i == Last - 1
  <2>1. cs \in Seq(T) /\ i \in 1..Len(cs) /\ S \in T /\ calls' = [cs EXCEPT ![i] = S]
    BY <1>1, <1>2
  <2> HIDE DEF T, cs, i
  <2>2. /\ [cs EXCEPT ![i] = S] \in Seq(T) /\ Len([cs EXCEPT ![i] = S]) = Len(cs)
        /\ \A j \in 1..Len(cs) : [cs EXCEPT ![i] = S][j] = IF j = i THEN S ELSE cs[j]
    BY <2>1, ExceptSeq
  <2>3. /\ calls' \in Seq(T) /\ Len(calls') = Len(cs)
        /\ \A j \in 1..Len(cs) : calls'[j] = IF j = i THEN S ELSE cs[j]
    BY <2>1, <2>2
  <2> QED
    BY <2>3 DEF T, cs, i
<1>4. \A k \in 1..(Last - 2) : k \in 1..(Last - 1) /\ k # Last - 1
  BY <1>1
<1> QED
  BY <1>1, <1>2, <1>3, <1>4

\* A step that leaves the first N calls alone and lets another one follow them.
LEMMA StackKept ==
  ASSUME Tree, StackInv, treeVars' = treeVars, calls # <<>>, NEW N \in Nat, N <= Last,
         calls' \in Seq(SUBSET Spans), Len(calls') = N + 1,
         \A k \in 1..N : calls'[k] = calls[k],
         \A k \in 1..N : calls[k] # {} /\ ~EndsLoop(First(calls[k])),
         calls'[N + 1] \subseteq Children(Visited(N + 1)),
         calls'[N + 1] # {} =>
           \A c \in Children(Visited(N + 1)) \ calls'[N + 1] :
             c < First(calls'[N + 1]) /\ ~EndsLoop(c)
  PROVE  StackInv' /\ \A k \in 1..(N + 1) : Visited(k)' = Visited(k)
<1>1. parent' = parent /\ name' = name
  BY DEF treeVars
<1>2. Last \in Nat \ {0} /\ Last = Len(calls)
  BY CallersAre DEF Last
<1>3. ASSUME NEW k \in 1..(N + 1) PROVE Visited(k)' = Visited(k)
  <2>1. k = 1 \/ k - 1 \in 1..N
    OBVIOUS
  <2> QED
    BY <2>1 DEF Visited
<1>4. ASSUME NEW k \in 1..N PROVE calls'[k] # {} /\ ~(EndsLoop(First(calls[k])))'
  <2>1. calls'[k] = calls[k] /\ calls[k] # {} /\ ~EndsLoop(First(calls[k]))
    OBVIOUS
  <2> QED
    BY <1>1, <2>1 DEF EndsLoop, Children
<1>5. ASSUME NEW k \in 1..(N + 1)
      PROVE  (Lineage(Visited(k)))' = [i \in 1..(k - 1) |-> First(calls'[i])]
  <2>1. (Lineage(Visited(k)))' = LineageIn(parent')[Visited(k)']
    BY DEF Lineage, LineageIn
  <2>2. (Lineage(Visited(k)))' = Lineage(Visited(k))
    BY <1>1, <1>3, <2>1, LineageHere
  <2>3. Lineage(Visited(k)) = [i \in 1..(k - 1) |-> First(calls[i])]
    <3>1. CASE k <= Last
      <4>1. k \in 1..Len(calls)
        BY <1>2, <3>1
      <4> QED
        BY <4>1 DEF StackInv
    <3>2. CASE ~(k <= Last)
      <4>1. k - 1 \in 1..Len(calls) /\ k - 1 \in 1..N /\ k # 1
        BY <1>2, <3>2
      <4>2. Lineage(First(calls[k - 1])) = [i \in 1..(k - 1) |-> First(calls[i])]
        BY <4>1, CurrentIs
      <4> QED
        BY <4>1, <4>2 DEF Visited
    <3> QED
      BY <3>1, <3>2
  <2>4. \A i \in 1..(k - 1) : calls'[i] = calls[i]
    <3>1. \A i \in 1..(k - 1) : i \in 1..N
      OBVIOUS
    <3> QED
      BY <3>1
  <2> QED
    BY <2>2, <2>3, <2>4
<1>6. ASSUME NEW k \in 1..(N + 1) PROVE (Children(Visited(k)))' = Children(Visited(k))
  BY <1>1, <1>3 DEF Children
<1>7. \A k \in 1..(N + 1) : k = N + 1 \/ (k \in 1..N /\ k \in 1..Len(calls))
  BY <1>2
<1>8. ASSUME NEW k \in 1..(N + 1) PROVE calls'[k] \subseteq Children(Visited(k))
  <2>1. CASE k = N + 1
    BY <2>1
  <2>2. CASE k \in 1..N /\ k \in 1..Len(calls)
    BY <2>2 DEF StackInv
  <2> QED
    BY <1>7, <2>1, <2>2
<1>9. ASSUME NEW k \in 1..(N + 1), calls'[k] # {}, NEW c \in Children(Visited(k)) \ calls'[k]
      PROVE  c < First(calls'[k]) /\ ~EndsLoop(c)
  <2>1. CASE k = N + 1
    BY <1>9, <2>1
  <2>2. CASE k \in 1..N /\ k \in 1..Len(calls)
    BY <1>9, <2>2 DEF StackInv
  <2> QED
    BY <1>7, <2>1, <2>2
<1>10. \A c : EndsLoop(c)' <=> EndsLoop(c)
  BY SameTree
<1>11. \A k \in 1..(Len(calls') - 1) : calls'[k] # {} /\ ~(EndsLoop(First(calls[k])))'
  <2>1. 1..(Len(calls') - 1) = 1..N
    OBVIOUS
  <2> QED
    BY <1>4, <2>1
<1>12. \A k \in 1..Len(calls') :
          (Lineage(Visited(k)))' = [i \in 1..(k - 1) |-> First(calls'[i])]
  BY <1>5
<1>13. \A k \in 1..Len(calls') : calls'[k] \subseteq (Children(Visited(k)))'
  BY <1>6, <1>8
<1>14. \A k \in 1..Len(calls') :
         calls'[k] # {} =>
           \A c \in (Children(Visited(k)))' \ calls'[k] : c < First(calls'[k]) /\ ~EndsLoop(c)'
  BY <1>6, <1>9, <1>10
<1>15. StackInv'
  BY <1>11, <1>12, <1>13, <1>14 DEF StackInv
<1> QED
  BY <1>3, <1>15

-----------------------------------------------------------------------------
(***************************************************************************)
(* What is still to be visited.                                            *)
(***************************************************************************)
\* What a call still has to visit; the span it is at is not among it.
ToVisit(k) == IF k = Len(calls) THEN calls[k] ELSE calls[k] \ {First(calls[k])}
Pending(d) == \E k \in 1..Len(calls) : \E t \in ToVisit(k) : d \in Below(t)

\* What the first N calls have to visit besides the spans they are at.
Rest(d, N) == \E k \in 1..N : \E t \in calls[k] \ {First(calls[k])} : d \in Below(t)

LEMMA MemberIs ==
  ASSUME Tree, StackInv, NEW k \in 1..Len(calls), NEW t \in calls[k]
  PROVE  t \in Spans /\ parent[t] = Visited(k) /\ Depth(t) = k
<1>1. calls[k] \subseteq Spans /\ t \in Children(Visited(k)) /\ calls[k] # {}
  BY ElementOfSeq DEF StackInv
<1>2. t \in Spans /\ parent[t] = Visited(k)
  BY <1>1 DEF Children
<1> DEFINE s == First(calls[k])
<1>3. s \in Spans /\ parent[s] = Visited(k) /\ Len(Lineage(s)) = k
  BY <1>1, CurrentIs
<1>4. \A r \in Spans : /\ Lineage(parent[r]) \in Seq(Spans)
                       /\ Len(Lineage(r)) = Len(Lineage(parent[r])) + 1
  BY LineageAppends, AppendProperties
<1>5. Len(Lineage(t)) = Len(Lineage(s))
  BY <1>2, <1>3, <1>4
<1> QED
  BY <1>2, <1>3, <1>5 DEF Depth

LEMMA CurrentNotHidden ==
  ASSUME Tree, StackInv, NEW k \in 1..Len(calls), calls[k] # {}
  PROVE  ~Hidden(First(calls[k]))
<1> DEFINE s == First(calls[k])
<1> SUFFICES ASSUME NEW m \in Spans, Hides(m, s) PROVE FALSE
  BY DEF Hidden
<1>1. Len(calls) \in Nat
  BY LenProperties DEF StackInv
<1>2. Lineage(s) = [i \in 1..k |-> First(calls[i])]
  BY CurrentIs
<1>3. PICK i \in 1..k : parent[First(calls[i])] = parent[m] /\ m < First(calls[i])
  BY <1>2 DEF Hides
<1>4. i \in 1..Len(calls) /\ (i = k \/ i \in 1..(Len(calls) - 1))
  BY <1>1
<1>5. calls[i] # {}
  BY <1>4 DEF StackInv
<1>6. /\ First(calls[i]) \in Spans /\ parent[First(calls[i])] = Visited(i)
      /\ \A t \in calls[i] : First(calls[i]) <= t
  BY <1>4, <1>5, CurrentIs
<1>7. m \in Children(Visited(i)) /\ EndsLoop(m)
  BY <1>3, <1>6 DEF Children, Hides
<1>8. m \notin calls[i]
  <2>1. m \in Nat /\ First(calls[i]) \in Nat
    BY <1>6, ParentIs
  <2>2. ~(First(calls[i]) <= m)
    BY <1>3, <2>1
  <2> QED
    BY <1>6, <2>2
<1> QED
  BY <1>4, <1>5, <1>7, <1>8 DEF StackInv

\* The span the search is at is below nothing that is still to be visited.
LEMMA CurrentNotRest ==
  ASSUME Tree, StackInv, NEW k \in 1..Len(calls), calls[k] # {}, NEW N \in Nat, N <= k
  PROVE  ~Rest(First(calls[k]), N)
<1> DEFINE s == First(calls[k])
<1> SUFFICES ASSUME NEW j \in 1..N, NEW t \in calls[j] \ {First(calls[j])}, s \in Below(t)
             PROVE  FALSE
  BY DEF Rest
<1>1. j \in 1..k /\ j \in 1..Len(calls)
  <2>1. Len(calls) \in Nat
    BY LenProperties DEF StackInv
  <2> QED
    BY <2>1
<1>2. t \in Spans /\ Depth(t) = j
  BY <1>1, MemberIs
<1>3. Lineage(s)[j] = t
  BY <1>2, BelowIs
<1>4. Lineage(s) = [i \in 1..k |-> First(calls[i])]
  BY CurrentIs
<1>5. Lineage(s)[j] = First(calls[j])
  BY <1>1, <1>4
<1> QED
  BY <1>3, <1>5

LEMMA PendingNow ==
  ASSUME StackInv, calls # <<>>, NEW d
  PROVE  Pending(d) <=> Rest(d, Last - 1) \/ \E t \in calls[Last] : d \in Below(t)
<1>1. Last \in Nat \ {0} /\ Last = Len(calls)
  BY CallersAre DEF Last
<1>2. \A k \in 1..Last : k = Last \/ (k \in 1..(Last - 1) /\ k # Last)
  BY <1>1
<1>3. Last \in 1..Last /\ \A k \in 1..(Last - 1) : k \in 1..Last /\ k # Last
  BY <1>1
<1>4. ToVisit(Last) = calls[Last]
  BY <1>1 DEF ToVisit
<1>5. \A k \in 1..(Last - 1) : ToVisit(k) = calls[k] \ {First(calls[k])}
  BY <1>1, <1>3 DEF ToVisit
<1>6. Pending(d) <=> \E k \in 1..Last : \E t \in ToVisit(k) : d \in Below(t)
  BY <1>1 DEF Pending
<1> QED
  BY <1>2, <1>3, <1>4, <1>5, <1>6 DEF Rest

LEMMA PendingNext ==
  ASSUME Tree, treeVars' = treeVars, NEW N \in Nat, Len(calls') = N + 1,
         \A k \in 1..N : calls'[k] = calls[k], NEW d
  PROVE  Pending(d)' <=> Rest(d, N) \/ \E t \in calls'[N + 1] : d \in Below(t)
<1>1. \A t : Below(t)' = Below(t)
  BY SameTree
<1>2. \A k \in 1..(N + 1) : k = N + 1 \/ (k \in 1..N /\ k # N + 1)
  OBVIOUS
<1>3. N + 1 \in 1..(N + 1) /\ \A k \in 1..N : k \in 1..(N + 1) /\ k # N + 1
  OBVIOUS
<1>4. ToVisit(N + 1)' = calls'[N + 1]
  BY DEF ToVisit
<1>5. \A k \in 1..N : ToVisit(k)' = calls[k] \ {First(calls[k])}
  BY <1>3 DEF ToVisit
<1>6. Pending(d)' <=> \E k \in 1..(N + 1) : \E t \in ToVisit(k)' : d \in Below(t)'
  BY DEF Pending
<1>7. Pending(d)' <=> \E k \in 1..(N + 1) : \E t \in ToVisit(k)' : d \in Below(t)
  BY <1>1, <1>6
<1> QED
  BY <1>2, <1>3, <1>4, <1>5, <1>7 DEF Rest

-----------------------------------------------------------------------------
(***************************************************************************)
(* The invariant of the search.                                            *)
(***************************************************************************)
\* The shared path is the way to the span whose children the last call visits, unless
\* an operation calls itself through another one.
PathInv ==
  \/ Confused
  \/ /\ calls # <<>> => path = Route(Visited(Len(calls)))
     /\ FoundPathsAreRoutes

\* What was found is what is neither hidden nor still below a span to visit.
FoundInv == FoundSpans = {s \in Invocations : ~Hidden(s) /\ ~Pending(s)}

ShownInv ==
  \/ Confused
  \/ /\ ~raised
     /\ \A x \in shown : \E f \in found : x.span = f.span /\ x.matches = Matches(f)

TreeSearchInv == Tree /\ StackInv /\ PathInv /\ FoundInv /\ ShownInv

LEMMA PathNext ==
  ASSUME treeVars' = treeVars, Tree, NEW v, (Visited(Len(calls)))' = v
  PROVE  (Route(Visited(Len(calls))))' = Route(v)
<1>1. parent' = parent /\ name' = name
  BY DEF treeVars
<1>2. (Lineage(Visited(Len(calls))))' = LineageIn(parent')[(Visited(Len(calls)))']
  BY DEF Lineage, LineageIn
<1>3. (Lineage(Visited(Len(calls))))' = Lineage(v)
  BY <1>1, <1>2, LineageHere
<1> QED
  BY <1>1, <1>3 DEF Route

LEMMA SameMatches ==
  ASSUME treeVars' = treeVars, Tree, NEW f
  PROVE  Matches(f)' = Matches(f)
<1>1. \A s : /\ Depth(s)' = Depth(s) /\ Below(s)' = Below(s)
             /\ LabelledRoute(s)' = LabelledRoute(s)
  BY SameLineage, SameTree
<1>2. ASSUME NEW s
      PROVE  SubTreePaths(s)' = SubTreePaths(s) /\ SubPaths(s)' = SubPaths(s)
  BY <1>1 DEF SubTreePaths, SubPaths, PathsBelow, StripIdx
<1>3. MatchedPaths(f)' = MatchedPaths(f)
  BY <1>1 DEF MatchedPaths
<1>4. (SubTreePaths(f.span))' = SubTreePaths(f.span)
  BY <1>2
<1> QED
  BY <1>2, <1>3, <1>4 DEF Matches

LEMMA ShownKept ==
  ASSUME treeVars' = treeVars, Tree, ShownInv, found \subseteq found',
         shown' = shown, raised' = raised
  PROVE  ShownInv'
<1>1. (Confused' <=> Confused) /\ \A f : Matches(f)' = Matches(f)
  BY SameTree, SameMatches
<1> QED
  BY <1>1 DEF ShownInv

LEMMA InitSearch ==
  ASSUME Init
  PROVE  TreeSearchInv
<1>1. Tree
  BY DEF Init, Tree, IsTree
<1>2. 1 \in Spans /\ parent[1] = 0 /\ \A c \in Spans : parent[c] = 0 => c = 1
  BY NumSpansAssumption DEF Init, Spans
<1>3. /\ calls = <<{1}>> /\ {1} \in SUBSET Spans /\ calls \in Seq(SUBSET Spans)
      /\ Len(calls) = 1 /\ calls[1] = {1} /\ calls # <<>>
  BY <1>2 DEF Init
<1>4. \A k \in 1..Len(calls) : k = 1
  BY <1>3
<1>5. Children(0) = {1}
  BY <1>2 DEF Children
<1>6. Lineage(Visited(1)) = [i \in 1..0 |-> First(calls[i])]
  BY <1>1, LineageAppends DEF Visited
<1>7. StackInv
  <2>1. \A k \in 1..(Len(calls) - 1) : FALSE
    BY <1>3
  <2>2. \A k \in 1..Len(calls) : Lineage(Visited(k)) = [i \in 1..(k - 1) |-> First(calls[i])]
    <3>1. 1 - 1 = 0
      OBVIOUS
    <3> QED
      BY <1>4, <1>6, <3>1
  <2>3. \A k \in 1..Len(calls) : Children(Visited(k)) = {1} /\ calls[k] = {1}
    BY <1>3, <1>4, <1>5 DEF Visited
  <2> QED
    BY <1>3, <2>1, <2>2, <2>3 DEF StackInv
<1>8. PathInv
  <2>1. path = Route(Visited(Len(calls)))
    BY <1>1, <1>3, RouteAppends DEF Init, Visited
  <2>2. FoundPathsAreRoutes
    BY DEF Init, FoundPathsAreRoutes
  <2> QED
    BY <2>1, <2>2 DEF PathInv
<1>9. FoundInv
  <2>1. ASSUME NEW d \in Spans PROVE Pending(d)
    <3>1. Shaped(d) /\ DOMAIN Lineage(d) = 1..Depth(d)
      BY <1>1, LineageShaped, LineageAppends, LenProperties DEF Depth
    <3>2. 1 \in 1..Depth(d)
      BY <3>1 DEF Shaped
    <3>3. Lineage(d)[1] \in Spans /\ parent[Lineage(d)[1]] = 0
      BY <3>1, <3>2 DEF Shaped
    <3>4. d \in Below(1)
      BY <1>2, <3>1, <3>2, <3>3 DEF Below, Among
    <3>5. 1 \in 1..Len(calls) /\ ToVisit(1) = {1}
      BY <1>3 DEF ToVisit
    <3> QED
      BY <3>4, <3>5 DEF Pending
  <2>2. FoundSpans = {}
    BY DEF Init, FoundSpans
  <2> QED
    BY <2>1, <2>2 DEF FoundInv, Invocations
<1>10. ShownInv
  BY DEF Init, ShownInv
<1> QED
  BY <1>1, <1>7, <1>8, <1>9, <1>10 DEF TreeSearchInv

\* The span a visit is at.
LEMMA AtTop ==
  ASSUME Tree, StackInv, calls # <<>>, Top # {}
  PROVE  /\ Last \in Nat \ {0} /\ Last \in 1..Len(calls) /\ Top = calls[Last]
         /\ First(Top) \in Spans /\ First(Top) \in Top
         /\ \A t \in Top : First(Top) <= t /\ t \in Spans /\ parent[t] = Visited(Last)
         /\ parent[First(Top)] = Visited(Last)
         /\ ~Hidden(First(Top))
         /\ ~Rest(First(Top), Last) /\ ~Rest(First(Top), Last - 1)
<1>1. Last \in Nat \ {0} /\ Last \in 1..Len(calls) /\ Top = calls[Last]
  BY CallersAre DEF Last
<1>2. Last \in Nat /\ Last - 1 \in Nat /\ Last <= Last /\ Last - 1 <= Last
  BY <1>1
<1>3. ~Rest(First(Top), Last) /\ ~Rest(First(Top), Last - 1)
  BY <1>1, <1>2, CurrentNotRest
<1> QED
  BY <1>1, <1>3, CurrentIs, MemberIs, CurrentNotHidden

\* The path while a span is visited.
LEMMA PathThere ==
  ASSUME Tree, NEW s \in Spans, ~Confused, NEW r, r = Route(parent[s])
  PROVE  Append(r, name[s]) = Route(s) /\ Remove(Append(r, name[s]), name[s]) = r
<1>1. r \in Seq(Names) /\ name[s] \in Names /\ Route(s) = Append(r, name[s])
  BY RouteAppends
<1>2. ~Interrupted(Append(r, name[s]))
  BY <1>1 DEF Confused
<1> QED
  BY <1>1, <1>2, RemoveLast

LEMMA FoundGrows ==
  ASSUME NEW s, NEW route, found' = found \cup {[span |-> s, path |-> route]}
  PROVE  FoundSpans' = FoundSpans \cup {s}
<1> DEFINE f == [span |-> s, path |-> route]
<1>1. f.span = s
  OBVIOUS
<1>2. found' = found \cup {f}
  OBVIOUS
<1> HIDE DEF f
<1>3. {g.span : g \in found \cup {f}} = {g.span : g \in found} \cup {f.span}
  OBVIOUS
<1> QED
  BY <1>1, <1>2, <1>3 DEF FoundSpans

LEMMA VisitChildlessMatchKeepsInv ==
  ASSUME TreeSearchInv, VisitChildlessMatch
  PROVE  TreeSearchInv'
<1>0. Tree /\ StackInv /\ PathInv /\ FoundInv /\ ShownInv
  BY DEF TreeSearchInv
<1> PICK s : s = First(Top)
  OBVIOUS
<1>1. /\ calls # <<>> /\ Top # {} /\ EndsLoop(s)
      /\ found' = found \cup {[span |-> s, path |-> Append(path, name[s])]}
      /\ path' = Remove(Append(path, name[s]), name[s])
      /\ calls' = Append(Callers, {})
      /\ treeVars' = treeVars /\ shown' = shown /\ raised' = raised
  BY DEF VisitChildlessMatch
<1>2. /\ Last \in Nat \ {0} /\ Last \in 1..Len(calls) /\ Top = calls[Last]
      /\ s \in Spans /\ s \in Top
      /\ \A t \in Top : s <= t /\ t \in Spans /\ parent[t] = Visited(Last)
      /\ parent[s] = Visited(Last) /\ ~Hidden(s) /\ ~Rest(s, Last - 1)
  BY <1>0, <1>1, AtTop
<1>3. /\ calls' \in Seq(SUBSET Spans) /\ Len(calls') = Last
      /\ \A k \in 1..(Last - 1) : calls'[k] = calls[k]
      /\ calls'[Last] = {}
  BY <1>0, <1>1, ReplaceIs
<1>4. Last - 1 \in Nat /\ Last - 1 <= Last /\ (Last - 1) + 1 = Last
  BY <1>2
<1>5. Tree' /\ Invocations' = Invocations /\ (Confused' <=> Confused)
      /\ \A d : Hidden(d)' <=> Hidden(d)
  BY <1>0, <1>1, SameTree
<1>6. StackInv' /\ \A k \in 1..Last : Visited(k)' = Visited(k)
  <2>1. \A k \in 1..(Last - 1) : calls[k] # {} /\ ~EndsLoop(First(calls[k]))
    BY <1>0 DEF StackInv, Last
  <2> HIDE DEF Last
  <2>2. Len(calls') = (Last - 1) + 1 /\ calls'[(Last - 1) + 1] = {}
    BY <1>3, <1>4
  <2>3. StackInv' /\ \A k \in 1..((Last - 1) + 1) : Visited(k)' = Visited(k)
    BY <1>0, <1>1, <1>3, <1>4, <2>1, <2>2, StackKept
  <2> QED
    BY <1>4, <2>3
<1>7. PathInv'
  <2> SUFFICES ASSUME ~Confused
               PROVE  (calls # <<>> => path = Route(Visited(Len(calls))))' /\ FoundPathsAreRoutes'
    BY <1>5 DEF PathInv
  <2>1. path = Route(parent[s]) /\ FoundPathsAreRoutes
    BY <1>0, <1>1, <1>2 DEF PathInv, Last
  <2>2. Append(path, name[s]) = Route(s) /\ path' = Route(parent[s])
    BY <1>0, <1>1, <1>2, <2>1, PathThere
  <2>3. (Visited(Len(calls)))' = parent[s]
    BY <1>2, <1>3, <1>6 DEF Visited
  <2>4. (Route(Visited(Len(calls))))' = Route(parent[s])
    BY <1>0, <1>1, <2>3, PathNext
  <2>5. \A f : (Route(f.span))' = Route(f.span)
    BY <1>0, <1>1, SameTree
  <2>6. FoundPathsAreRoutes'
    BY <1>1, <2>1, <2>2, <2>5 DEF FoundPathsAreRoutes
  <2> QED
    BY <2>2, <2>4, <2>6
<1>8. FoundInv'
  <2>1. FoundSpans' = FoundSpans \cup {s}
    BY <1>1, FoundGrows
  <2>2. ASSUME NEW d
        PROVE  /\ Pending(d)' <=> Rest(d, Last - 1)
               /\ Pending(d) <=> Rest(d, Last - 1) \/ \E t \in Top : d \in Below(t)
    <3>1. Pending(d)' <=> Rest(d, Last - 1) \/ \E t \in calls'[(Last - 1) + 1] : d \in Below(t)
      BY <1>0, <1>1, <1>3, <1>4, PendingNext
    <3>2. Pending(d)' <=> Rest(d, Last - 1)
      BY <1>3, <1>4, <3>1
    <3>3. Pending(d) <=> Rest(d, Last - 1) \/ \E t \in Top : d \in Below(t)
      BY <1>0, <1>1, <1>2, PendingNow
    <3> QED
      BY <3>2, <3>3
  <2>3. s \in Invocations /\ Children(s) = {}
    BY <1>1, <1>2 DEF EndsLoop, Invocations
  <2>4. ASSUME NEW t \in Top, NEW d \in Below(t), ~Hidden(d) PROVE d = s
    <3>1. CASE t = s
      BY <1>0, <1>2, <2>3, <3>1, BelowChild
    <3>2. CASE t # s
      <4>1. s < t
        <5>1. s <= t /\ t \in Nat /\ s \in Nat
          BY <1>0, <1>2, ParentIs
        <5> QED
          BY <3>2, <5>1
      <4>2. d \in Spans /\ Depth(t) \in 1..Depth(d) /\ Lineage(d)[Depth(t)] = t
            /\ DOMAIN Lineage(d) = 1..Depth(d)
        BY <1>0, <1>2, BelowIs, LineageAppends, LenProperties DEF Depth
      <4>3. Hides(s, d)
        BY <1>1, <1>2, <4>1, <4>2 DEF Hides
      <4> QED
        BY <1>2, <2>4, <4>3 DEF Hidden
    <3> QED
      BY <3>1, <3>2
  <2>5. ASSUME NEW d \in Invocations
        PROVE  d \in FoundSpans' <=> ~Hidden(d) /\ ~Pending(d)'
    <3>1. d \in FoundSpans <=> ~Hidden(d) /\ ~Pending(d)
      BY <1>0 DEF FoundInv
    <3>2. CASE d = s
      BY <1>2, <2>1, <2>2, <3>2
    <3>3. CASE d # s
      BY <2>1, <2>2, <2>4, <3>1, <3>3
    <3> QED
      BY <3>2, <3>3
  <2>6. FoundSpans' \subseteq Invocations
    BY <1>0, <2>1, <2>3 DEF FoundInv
  <2> QED
    BY <1>5, <2>5, <2>6 DEF FoundInv
<1>9. ShownInv'
  BY <1>0, <1>1, ShownKept
<1> QED
  BY <1>5, <1>6, <1>7, <1>8, <1>9 DEF TreeSearchInv

LEMMA VisitKeepsInv ==
  ASSUME TreeSearchInv, Visit
  PROVE  TreeSearchInv'
<1>0. Tree /\ StackInv /\ PathInv /\ FoundInv /\ ShownInv
  BY DEF TreeSearchInv
<1> PICK s : s = First(Top)
  OBVIOUS
<1>1. /\ calls # <<>> /\ Top # {} /\ ~EndsLoop(s)
      /\ path' = Append(path, name[s])
      /\ found' = IF name[s] = Bug
                  THEN found \cup {[span |-> s, path |-> Append(path, name[s])]}
                  ELSE found
      /\ calls' = Append(calls, Children(s))
      /\ treeVars' = treeVars /\ shown' = shown /\ raised' = raised
  BY DEF Visit
<1>2. /\ Last \in Nat \ {0} /\ Last \in 1..Len(calls) /\ Top = calls[Last]
      /\ s \in Spans /\ s \in Top /\ First(calls[Last]) = s
      /\ \A t \in Top : t \in Spans /\ parent[t] = Visited(Last)
      /\ parent[s] = Visited(Last) /\ ~Hidden(s) /\ ~Rest(s, Last)
  BY <1>0, <1>1, AtTop
<1>3. /\ calls' \in Seq(SUBSET Spans) /\ Len(calls') = Last + 1
      /\ \A k \in 1..Last : calls'[k] = calls[k]
      /\ calls'[Last + 1] = Children(s)
  <2>1. Children(s) \in SUBSET Spans
    BY DEF Children
  <2> QED
    BY <1>0, <1>1, <2>1, PushIs
<1>4. Last \in Nat /\ Last <= Last /\ Last + 1 \in 1..(Last + 1) /\ Last + 1 # 1
      /\ (Last + 1) - 1 = Last
  BY <1>2
<1>5. Tree' /\ Invocations' = Invocations /\ (Confused' <=> Confused)
      /\ \A d : Hidden(d)' <=> Hidden(d)
  BY <1>0, <1>1, SameTree
<1>6. Visited(Last + 1) = s
  BY <1>2, <1>4 DEF Visited
<1>7. StackInv' /\ \A k \in 1..(Last + 1) : Visited(k)' = Visited(k)
  <2>1. \A k \in 1..(Last - 1) : calls[k] # {} /\ ~EndsLoop(First(calls[k]))
    BY <1>0 DEF StackInv, Last
  <2>2. \A k \in 1..Last : k = Last \/ k \in 1..(Last - 1)
    BY <1>2
  <2>3. \A k \in 1..Last : calls[k] # {} /\ ~EndsLoop(First(calls[k]))
    BY <1>1, <1>2, <2>1, <2>2
  <2> HIDE DEF Last
  <2> QED
    BY <1>0, <1>1, <1>3, <1>4, <1>6, <2>3, StackKept
<1>8. PathInv'
  <2> SUFFICES ASSUME ~Confused
               PROVE  (calls # <<>> => path = Route(Visited(Len(calls))))' /\ FoundPathsAreRoutes'
    BY <1>5 DEF PathInv
  <2>1. path = Route(parent[s]) /\ FoundPathsAreRoutes
    BY <1>0, <1>1, <1>2 DEF PathInv, Last
  <2>2. path' = Route(s)
    BY <1>0, <1>1, <1>2, <2>1, PathThere
  <2>3. (Visited(Len(calls)))' = s
    BY <1>3, <1>4, <1>6, <1>7 DEF Visited
  <2>4. (Route(Visited(Len(calls))))' = Route(s)
    BY <1>0, <1>1, <2>3, PathNext
  <2>5. \A f : (Route(f.span))' = Route(f.span)
    BY <1>0, <1>1, SameTree
  <2>6. FoundPathsAreRoutes'
    BY <1>1, <2>1, <2>2, <2>5 DEF FoundPathsAreRoutes
  <2> QED
    BY <2>2, <2>4, <2>6
<1>9. FoundInv'
  <2>1. /\ name[s] = Bug => FoundSpans' = FoundSpans \cup {s}
        /\ name[s] # Bug => FoundSpans' = FoundSpans
    <3>1. ASSUME name[s] = Bug PROVE FoundSpans' = FoundSpans \cup {s}
      BY <1>1, <3>1, FoundGrows
    <3>2. ASSUME name[s] # Bug PROVE FoundSpans' = FoundSpans
      BY <1>1, <3>2 DEF FoundSpans
    <3> QED
      BY <3>1, <3>2
  <2>2. ASSUME NEW d
        PROVE  /\ Pending(d)' <=> Rest(d, Last) \/ \E c \in Children(s) : d \in Below(c)
               /\ Pending(d) <=> Rest(d, Last) \/ d \in Below(s)
    <3>1. Pending(d)' <=> Rest(d, Last) \/ \E c \in Children(s) : d \in Below(c)
      BY <1>0, <1>1, <1>3, <1>4, PendingNext
    <3>2. Pending(d) <=> Rest(d, Last - 1) \/ \E t \in Top : d \in Below(t)
      BY <1>0, <1>1, <1>2, PendingNow
    <3>3. Rest(d, Last) <=> Rest(d, Last - 1) \/ \E t \in Top \ {s} : d \in Below(t)
      <4>1. \A k : k \in 1..Last <=> k = Last \/ k \in 1..(Last - 1)
        BY <1>2
      <4> QED
        BY <1>2, <4>1 DEF Rest
    <3> QED
      BY <1>2, <3>1, <3>2, <3>3
  <2>3. ASSUME NEW d
        PROVE  d \in Below(s) <=> d = s \/ \E c \in Children(s) : d \in Below(c)
    <3>1. s \in Below(s)
      BY <1>0, <1>2, BelowSelf
    <3>2. ASSUME NEW c \in Children(s), d \in Below(c) PROVE d \in Below(s)
      <4>1. c \in Spans /\ parent[c] = s /\ s # 0
        BY <1>0, <1>2, ParentIs DEF Children
      <4> QED
        BY <1>0, <3>2, <4>1, BelowParent
    <3>3. d \in Below(s) /\ d # s => \E c \in Children(s) : d \in Below(c)
      BY <1>0, <1>2, BelowChild
    <3> QED
      BY <3>1, <3>2, <3>3
  <2>4. ~Pending(s)'
    <3>1. ASSUME NEW c \in Children(s), s \in Below(c) PROVE FALSE
      <4>1. c \in Spans /\ parent[c] = s
        BY DEF Children
      <4>2. c \in Nat /\ s \in Nat /\ s < c
        BY <1>0, <1>2, <4>1, ParentIs
      <4>3. c <= s
        BY <1>0, <3>1, <4>1, BelowIs
      <4> QED
        BY <4>2, <4>3
    <3> QED
      BY <1>2, <2>2, <3>1
  <2>5. ASSUME NEW d \in Invocations
        PROVE  d \in FoundSpans' <=> ~Hidden(d) /\ ~Pending(d)'
    <3>1. d \in FoundSpans <=> ~Hidden(d) /\ ~Pending(d)
      BY <1>0 DEF FoundInv
    <3>2. CASE d = s
      <4>1. name[s] = Bug
        BY <3>2 DEF Invocations
      <4> QED
        BY <1>2, <2>1, <2>4, <3>2, <4>1
    <3>3. CASE d # s
      <4>1. Pending(d) <=> Pending(d)'
        BY <2>2, <2>3, <3>3
      <4>2. d \in FoundSpans' <=> d \in FoundSpans
        BY <2>1, <3>3
      <4> QED
        BY <3>1, <4>1, <4>2
    <3> QED
      BY <3>2, <3>3
  <2>6. FoundSpans' \subseteq Invocations
    <3>1. FoundSpans \subseteq Invocations
      BY <1>0 DEF FoundInv
    <3>2. name[s] = Bug => s \in Invocations
      BY <1>2 DEF Invocations
    <3> QED
      BY <2>1, <3>1, <3>2
  <2> QED
    BY <1>5, <2>5, <2>6 DEF FoundInv
<1>10. ShownInv'
  <2>1. found \subseteq found'
    BY <1>1
  <2> QED
    BY <1>0, <1>1, <2>1, ShownKept
<1> QED
  BY <1>5, <1>7, <1>8, <1>9, <1>10 DEF TreeSearchInv

\* The outermost call returns: nothing is left to visit.
LEMMA ReturnLastKeepsInv ==
  ASSUME TreeSearchInv, Return, Len(calls) = 1
  PROVE  TreeSearchInv'
<1>0. Tree /\ StackInv /\ PathInv /\ FoundInv /\ ShownInv
  BY DEF TreeSearchInv
<1>1. /\ calls # <<>> /\ Top = {} /\ calls' = <<>> /\ path' = path
      /\ treeVars' = treeVars /\ found' = found /\ shown' = shown /\ raised' = raised
  BY DEF Return
<1>2. Last = 1 /\ calls[Last] = {} /\ Last - 1 = 0
  BY <1>0, <1>1, CallersAre DEF Last
<1>3. Tree' /\ Invocations' = Invocations /\ (Confused' <=> Confused)
      /\ \A d : Hidden(d)' <=> Hidden(d)
  BY <1>0, <1>1, SameTree
<1>4. Len(calls') = 0 /\ calls' \in Seq(SUBSET Spans)
  BY <1>1, EmptySeq
<1>5. StackInv'
  <2>1. \A k \in 1..Len(calls') : FALSE
    BY <1>4
  <2>2. \A k \in 1..(Len(calls') - 1) : FALSE
    BY <1>4
  <2> QED
    BY <1>4, <2>1, <2>2 DEF StackInv
<1>6. PathInv'
  <2>1. \A f : (Route(f.span))' = Route(f.span)
    BY <1>0, <1>1, SameTree
  <2>2. FoundPathsAreRoutes => FoundPathsAreRoutes'
    BY <1>1, <2>1 DEF FoundPathsAreRoutes
  <2> QED
    BY <1>0, <1>1, <1>3, <2>2 DEF PathInv
<1>7. FoundInv'
  <2>1. ASSUME NEW d PROVE ~Pending(d)
    <3>1. ~Rest(d, Last - 1)
      BY <1>2 DEF Rest
    <3> QED
      BY <1>0, <1>1, <1>2, <3>1, PendingNow
  <2>2. ASSUME NEW d PROVE ~Pending(d)'
    BY <1>4 DEF Pending
  <2>3. FoundSpans' = FoundSpans
    BY <1>1 DEF FoundSpans
  <2> QED
    BY <1>0, <1>3, <2>1, <2>2, <2>3 DEF FoundInv
<1>8. ShownInv'
  BY <1>0, <1>1, ShownKept
<1> QED
  BY <1>3, <1>5, <1>6, <1>7, <1>8 DEF TreeSearchInv

\* Another call returns: the span it was for comes off the path and is done.
LEMMA ReturnKeepsInv ==
  ASSUME TreeSearchInv, Return, Len(calls) # 1
  PROVE  TreeSearchInv'
<1>0. Tree /\ StackInv /\ PathInv /\ FoundInv /\ ShownInv
  BY DEF TreeSearchInv
<1> PICK siblings : siblings = calls[Len(calls) - 1]
  OBVIOUS
<1> PICK s : s = First(siblings)
  OBVIOUS
<1>1. /\ calls # <<>> /\ Top = {} /\ path' = Remove(path, name[s])
      /\ calls' = [Callers EXCEPT ![Len(calls) - 1] = siblings \ {s}]
      /\ treeVars' = treeVars /\ found' = found /\ shown' = shown /\ raised' = raised
  BY DEF Return
<1>2. /\ Last \in Nat \ {0} /\ Last # 1 /\ Last - 1 \in 1..Len(calls)
      /\ calls[Last] = {} /\ siblings = calls[Last - 1] /\ siblings \in SUBSET Spans
  <2>1. /\ Last \in Nat \ {0} /\ Top = calls[Last]
        /\ \A k \in 1..Last : calls[k] \in SUBSET Spans
    BY <1>0, <1>1, CallersAre
  <2>2. Last # 1 /\ siblings = calls[Last - 1] /\ Len(calls) = Last
    BY DEF Last
  <2>3. Last - 1 \in 1..Last
    BY <2>1, <2>2
  <2> QED
    BY <1>1, <2>1, <2>2, <2>3
<1>3. siblings # {} /\ ~EndsLoop(s)
  <2>1. Last - 1 \in 1..(Len(calls) - 1)
    BY <1>2 DEF Last
  <2> QED
    BY <1>0, <1>2, <2>1 DEF StackInv
<1>4. /\ s \in Spans /\ s \in siblings
      /\ \A t \in siblings : s <= t /\ t \in Spans
      /\ parent[s] = Visited(Last - 1)
  BY <1>0, <1>2, <1>3, CurrentIs, MemberIs
<1>5. /\ calls' \in Seq(SUBSET Spans) /\ Len(calls') = Last - 1
      /\ \A k \in 1..(Last - 2) : calls'[k] = calls[k]
      /\ calls'[Last - 1] = siblings \ {s}
  <2>1. siblings \ {s} \in SUBSET Spans
    BY <1>2
  <2> QED
    BY <1>0, <1>1, <2>1, PopIs
<1>6. /\ Last - 2 \in Nat /\ Last - 2 <= Last /\ (Last - 2) + 1 = Last - 1
      /\ \A k : k \in 1..(Last - 1) <=> k = Last - 1 \/ k \in 1..(Last - 2)
  BY <1>2
<1>7. Tree' /\ Invocations' = Invocations /\ (Confused' <=> Confused)
      /\ \A d : Hidden(d)' <=> Hidden(d)
  BY <1>0, <1>1, SameTree
<1>8. StackInv' /\ \A k \in 1..(Last - 1) : Visited(k)' = Visited(k)
  <2>1. \A k \in 1..(Last - 2) : calls[k] # {} /\ ~EndsLoop(First(calls[k]))
    <3>1. \A k \in 1..(Last - 2) : k \in 1..(Len(calls) - 1)
      BY <1>2 DEF Last
    <3> QED
      BY <1>0, <3>1 DEF StackInv
  <2>2. siblings \subseteq Children(Visited(Last - 1))
    BY <1>0, <1>2 DEF StackInv
  <2>3. ASSUME siblings \ {s} # {}, NEW c \in Children(Visited(Last - 1)) \ (siblings \ {s})
        PROVE  c < First(siblings \ {s}) /\ ~EndsLoop(c)
    <3> PICK r : r = First(siblings \ {s})
      OBVIOUS
    <3>1. r \in siblings \ {s}
      BY <1>2, <2>3, FirstIs
    <3>2. s < r /\ s \in Nat /\ r \in Nat
      <4>1. s <= r /\ r \in Spans /\ r # s
        BY <1>4, <3>1
      <4>2. s \in Nat /\ r \in Nat
        BY <1>0, <1>4, <4>1, ParentIs
      <4> QED
        BY <4>1, <4>2
    <3>3. CASE c = s
      BY <1>3, <3>2, <3>3
    <3>4. CASE c # s
      <4>1. c \in Children(Visited(Last - 1)) \ calls[Last - 1]
        BY <1>2, <2>3, <3>4
      <4>2. c < s /\ ~EndsLoop(c)
        BY <1>0, <1>2, <1>3, <4>1 DEF StackInv
      <4>3. c \in Nat
        BY <1>0, <2>3, ParentIs DEF Children
      <4> QED
        BY <3>2, <4>2, <4>3
    <3> QED
      BY <3>3, <3>4
  <2> HIDE DEF Last
  <2>4. /\ calls'[(Last - 2) + 1] = siblings \ {s} /\ Len(calls') = (Last - 2) + 1
        /\ Visited((Last - 2) + 1) = Visited(Last - 1)
    BY <1>5, <1>6
  <2>5. calls'[(Last - 2) + 1] \subseteq Children(Visited((Last - 2) + 1))
    BY <2>2, <2>4
  <2>6. calls'[(Last - 2) + 1] # {} =>
          \A c \in Children(Visited((Last - 2) + 1)) \ calls'[(Last - 2) + 1] :
            c < First(calls'[(Last - 2) + 1]) /\ ~EndsLoop(c)
    BY <2>3, <2>4
  <2>7. StackInv' /\ \A k \in 1..((Last - 2) + 1) : Visited(k)' = Visited(k)
    BY <1>0, <1>1, <1>5, <1>6, <2>1, <2>4, <2>5, <2>6, StackKept
  <2> QED
    BY <1>6, <2>7
<1>9. PathInv'
  <2> SUFFICES ASSUME ~Confused
               PROVE  (calls # <<>> => path = Route(Visited(Len(calls))))' /\ FoundPathsAreRoutes'
    BY <1>7 DEF PathInv
  <2>1. Visited(Last) = s
    BY <1>2 DEF Visited, Last
  <2>2. path = Route(s) /\ FoundPathsAreRoutes
    BY <1>0, <1>1, <2>1 DEF PathInv, Last
  <2>3. path' = Route(parent[s])
    <3>1. Append(Route(parent[s]), name[s]) = Route(s)
          /\ Remove(Append(Route(parent[s]), name[s]), name[s]) = Route(parent[s])
      BY <1>0, <1>4, PathThere
    <3> QED
      BY <1>1, <2>2, <3>1
  <2>4. (Visited(Len(calls)))' = parent[s]
    <3>1. Last - 1 \in 1..(Last - 1)
      BY <1>2
    <3>2. (Visited(Len(calls)))' = Visited(Last - 1)
      BY <1>5, <1>8, <3>1 DEF Visited
    <3> QED
      BY <1>4, <3>2
  <2>5. (Route(Visited(Len(calls))))' = Route(parent[s])
    BY <1>0, <1>1, <2>4, PathNext
  <2>6. \A f : (Route(f.span))' = Route(f.span)
    BY <1>0, <1>1, SameTree
  <2>7. FoundPathsAreRoutes'
    BY <1>1, <2>2, <2>6 DEF FoundPathsAreRoutes
  <2> QED
    BY <2>3, <2>5, <2>7
<1>10. FoundInv'
  <2>1. FoundSpans' = FoundSpans
    BY <1>1 DEF FoundSpans
  <2>2. ASSUME NEW d PROVE Pending(d)' <=> Pending(d)
    <3>1. Pending(d)' <=> Rest(d, Last - 2) \/ \E t \in siblings \ {s} : d \in Below(t)
      <4>1. Len(calls') = (Last - 2) + 1 /\ calls'[(Last - 2) + 1] = siblings \ {s}
        BY <1>5, <1>6
      <4>2. Pending(d)' <=> Rest(d, Last - 2) \/ \E t \in calls'[(Last - 2) + 1] : d \in Below(t)
        BY <1>0, <1>1, <1>5, <1>6, <4>1, PendingNext
      <4> QED
        BY <4>1, <4>2
    <3>2. Pending(d) <=> Rest(d, Last - 1)
      BY <1>0, <1>1, <1>2, PendingNow
    <3>3. Rest(d, Last - 1) <=> Rest(d, Last - 2) \/ \E t \in siblings \ {s} : d \in Below(t)
      BY <1>2, <1>6 DEF Rest
    <3> QED
      BY <3>1, <3>2, <3>3
  <2> QED
    BY <1>0, <1>7, <2>1, <2>2 DEF FoundInv
<1>11. ShownInv'
  BY <1>0, <1>1, ShownKept
<1> QED
  BY <1>7, <1>8, <1>9, <1>10, <1>11 DEF TreeSearchInv

-----------------------------------------------------------------------------
(***************************************************************************)
(* The lookup in layer 4.                                                  *)
(***************************************************************************)
LEMMA RouteIs ==
  ASSUME Tree, NEW s \in Spans
  PROVE  /\ Route(s) \in Seq(Names) /\ Len(Route(s)) = Depth(s) /\ Depth(s) \in Nat
         /\ DOMAIN Route(s) = 1..Depth(s) /\ DOMAIN LabelledRoute(s) = 1..Depth(s)
         /\ \A i \in 1..Depth(s) : LabelledRoute(s)[i][1] = Route(s)[i]
<1>1. Lineage(s) \in Seq(Spans) /\ DOMAIN Lineage(s) = 1..Depth(s) /\ Depth(s) \in Nat
  BY LineageAppends, LenProperties DEF Depth
<1>2. Route(s) \in Seq(Names) /\ DOMAIN Route(s) = 1..Depth(s)
  BY <1>1, RouteAppends DEF Route
<1>3. Len(Route(s)) = Depth(s)
  <2> DEFINE n == Depth(s)
             r == Route(s)
  <2>1. r \in Seq(Names) /\ DOMAIN r = 1..n /\ n \in Nat
    BY <1>1, <1>2
  <2> HIDE DEF n, r
  <2>2. Len(r) \in Nat /\ DOMAIN r = 1..Len(r)
    BY <2>1, LenProperties
  <2>3. Len(r) = n
    BY <2>1, <2>2
  <2> QED
    BY <2>3 DEF n, r
<1>4. \A i \in 1..Depth(s) : LabelledRoute(s)[i][1] = Route(s)[i]
  BY <1>1 DEF LabelledRoute, Route, Label
<1>5. DOMAIN LabelledRoute(s) = 1..Depth(s)
  BY <1>1 DEF LabelledRoute
<1> QED
  BY <1>1, <1>2, <1>3, <1>4, <1>5

\* Spans with the same paths below them have the same name: the path of length one.
LEMMA SamePathsSameName ==
  ASSUME Tree, NEW s \in Spans, NEW t \in Spans, SubTreePaths(s) = SubTreePaths(t)
  PROVE  name[s] = name[t]
<1> DEFINE routes == [d \in Spans |-> StripIdx(LabelledRoute(d))]
           To(r, d) == SubSeq(routes[d], Depth(r), Depth(d))
<1>1. ASSUME NEW r \in Spans
      PROVE  \A p : p \in DOMAIN SubTreePaths(r) <=> \E d \in Below(r) : p = To(r, d)
  <2> DEFINE pathTo == [d \in Below(r) |-> SubSeq(routes[d], Depth(r), Depth(d))]
  <2>1. SubTreePaths(r) =
          [p \in {pathTo[d] : d \in Below(r)} |-> Cardinality({d \in Below(r) : pathTo[d] = p})]
    BY DEF SubTreePaths, PathsBelow
  <2>2. DOMAIN SubTreePaths(r) = {pathTo[d] : d \in Below(r)}
    BY <2>1
  <2>3. \A d \in Below(r) : pathTo[d] = To(r, d)
    OBVIOUS
  <2> HIDE DEF pathTo, To
  <2> QED
    BY <2>2, <2>3
<1>2. ASSUME NEW d \in Spans
      PROVE  /\ DOMAIN routes[d] = 1..Depth(d) /\ Depth(d) \in Nat \ {0}
             /\ routes[d][Depth(d)] = <<name[d], 0>>
  <2>1. /\ DOMAIN LabelledRoute(d) = 1..Depth(d)
        /\ \A i \in 1..Depth(d) : LabelledRoute(d)[i][1] = Route(d)[i]
    BY RouteIs
  <2>2. Depth(d) \in Nat \ {0} /\ Lineage(d)[Depth(d)] = d
    BY LineageShaped DEF Shaped
  <2>3. Route(d)[Depth(d)] = name[d]
    <3>1. Depth(d) \in DOMAIN Lineage(d)
      BY <2>2, LineageAppends, LenProperties DEF Depth
    <3> QED
      BY <2>2, <3>1 DEF Route
  <2> QED
    BY <2>1, <2>2, <2>3 DEF StripIdx
<1>3. ASSUME NEW r \in Spans, NEW d \in Spans, Depth(r) <= Depth(d)
      PROVE  /\ Len(To(r, d)) = Depth(d) - Depth(r) + 1
             /\ Depth(r) = Depth(d) => To(r, d)[1] = routes[d][Depth(d)]
  <2> DEFINE m == Depth(r)
             n == Depth(d)
             w == routes[d]
  <2>1. m \in Nat \ {0} /\ n \in Nat \ {0} /\ m <= n /\ DOMAIN w = 1..n
    BY <1>2, <1>3
  <2> HIDE DEF m, n, w
  <2>2. \A i \in m..n : w[i] \in {w[j] : j \in 1..n}
    BY <2>1
  <2>3. m \in Int /\ n \in Int
    BY <2>1
  <2>4. /\ Len(SubSeq(w, m, n)) = IF m <= n THEN n - m + 1 ELSE 0
        /\ \A i \in 1..(n - m + 1) : SubSeq(w, m, n)[i] = w[m + i - 1]
    BY <2>2, <2>3, SubSeqProperties
  <2>5. Len(SubSeq(w, m, n)) = n - m + 1
    BY <2>1, <2>4
  <2>6. m = n => SubSeq(w, m, n)[1] = w[n]
    <3>1. 1 \in 1..(n - m + 1) /\ m + 1 - 1 = m
      BY <2>1
    <3>2. SubSeq(w, m, n)[1] = w[m + 1 - 1]
      BY <2>4, <3>1
    <3> QED
      BY <3>1, <3>2
  <2> QED
    BY <2>5, <2>6 DEF m, n, w
<1> HIDE DEF To, routes
<1>4. s \in Below(s)
  BY BelowSelf
<1>5. PICK d \in Below(t) : To(s, s) = To(t, d)
  BY <1>1, <1>4
<1>6. d \in Spans /\ Depth(t) \in 1..Depth(d) /\ (Depth(t) = Depth(d) => t = d)
  BY BelowIs
<1>7. Depth(d) \in Nat /\ Depth(s) \in Nat /\ Depth(t) \in Nat
  BY <1>2, <1>6
<1>8. Len(To(s, s)) = 1 /\ To(s, s)[1] = <<name[s], 0>>
  <2>1. Depth(s) <= Depth(s) /\ Depth(s) - Depth(s) + 1 = 1
    BY <1>7
  <2> QED
    BY <1>2, <1>3, <2>1
<1>9. Depth(t) <= Depth(d) /\ Len(To(t, d)) = Depth(d) - Depth(t) + 1
  BY <1>3, <1>6, <1>7
<1>10. Depth(t) = Depth(d)
  BY <1>5, <1>7, <1>8, <1>9
<1>11. To(t, d)[1] = <<name[t], 0>>
  BY <1>2, <1>3, <1>6, <1>9, <1>10
<1> QED
  BY <1>5, <1>8, <1>11

\* What a span found with the route to it is matched with.
LEMMA MatchesAre ==
  ASSUME Tree, NEW f, f.span \in Spans, f.path = Route(f.span)
  PROVE  /\ f.span \in Matches(f)
         /\ \A s \in Matches(f) :
              /\ s \in Spans /\ SubTreePaths(s) = SubTreePaths(f.span)
              /\ Route(s) # Route(f.span) => \E i \in DOMAIN Route(s) :
                   <<Route(s)[i], Route(f.span)[i]>> \in Extends
<1>1. f.span \in MatchedPaths(f)
  BY RouteIs DEF MatchedPaths, StartsWith
<1>2. ASSUME NEW s \in MatchedPaths(f), Route(s) # Route(f.span)
      PROVE  \E i \in DOMAIN Route(s) : <<Route(s)[i], Route(f.span)[i]>> \in Extends
  <2>1. /\ s \in Spans /\ Depth(s) = Len(f.path)
        /\ \A i \in DOMAIN f.path : StartsWith(LabelledRoute(s)[i], f.path[i])
    BY DEF MatchedPaths
  <2>2. /\ Route(s) \in Seq(Names) /\ Len(Route(s)) = Depth(s)
        /\ DOMAIN Route(s) = 1..Depth(s)
        /\ \A i \in 1..Depth(s) : LabelledRoute(s)[i][1] = Route(s)[i]
    BY <2>1, RouteIs
  <2>3. /\ Route(f.span) \in Seq(Names) /\ Len(Route(f.span)) = Depth(s)
        /\ DOMAIN Route(f.span) = 1..Depth(s)
    BY <2>1, RouteIs
  <2>4. PICK i \in 1..Depth(s) : Route(s)[i] # Route(f.span)[i]
    BY <1>2, <2>2, <2>3, SeqEqual
  <2>5. StartsWith(LabelledRoute(s)[i], Route(f.span)[i])
    BY <2>1, <2>3
  <2>6. LabelledRoute(s)[i][1] = Route(s)[i]
    BY <2>2
  <2> QED
    BY <2>2, <2>4, <2>5, <2>6 DEF StartsWith
<1>3. \A s : SubPaths(s) = SubTreePaths(s)
  BY DEF SubPaths, SubTreePaths
<1>4. CASE Cardinality(MatchedPaths(f)) = 1
  <2>1. Matches(f) = MatchedPaths(f)
    BY <1>4 DEF Matches
  <2>2. IsFiniteSet(MatchedPaths(f))
    <3>1. IsFiniteSet(Spans)
      BY NumSpansAssumption, FS_Interval DEF Spans
    <3>2. MatchedPaths(f) \subseteq Spans
      BY DEF MatchedPaths
    <3> QED
      BY <3>1, <3>2, FS_Subset
  <2>3. PICK x : MatchedPaths(f) = {x}
    BY <1>4, <2>2, FS_Singleton
  <2> QED
    BY <1>1, <2>1, <2>3
<1>5. CASE Cardinality(MatchedPaths(f)) # 1
  <2>1. Matches(f) = {s \in MatchedPaths(f) : SubPaths(s) = SubTreePaths(f.span)}
    BY <1>5 DEF Matches
  <2>2. \A s \in MatchedPaths(f) : s \in Spans
    BY DEF MatchedPaths
  <2> QED
    BY <1>1, <1>2, <1>3, <2>1, <2>2
<1> QED
  BY <1>4, <1>5

\* Every found span is matched, and with its own path, wherever no operation calls
\* itself through another one.
LEMMA FoundIs ==
  ASSUME TreeSearchInv, NEW f \in found
  PROVE  f.span \in Invocations /\ f.span \in Spans /\ (f.path = Route(f.span) \/ Confused)
<1>1. f.span \in FoundSpans
  BY DEF FoundSpans
<1>2. FoundSpans \subseteq Invocations /\ Invocations \subseteq Spans
  BY DEF TreeSearchInv, FoundInv, Invocations
<1>3. f.path = Route(f.span) \/ Confused
  BY DEF TreeSearchInv, PathInv, FoundPathsAreRoutes
<1> QED
  BY <1>1, <1>2, <1>3

LEMMA SearchKept ==
  ASSUME TreeSearchInv, UNCHANGED <<treeVars, calls, path, found>>
  PROVE  Tree' /\ StackInv' /\ PathInv' /\ FoundInv'
<1>1. /\ treeVars' = treeVars /\ parent' = parent /\ name' = name
      /\ calls' = calls /\ path' = path /\ found' = found
  BY DEF treeVars
<1>2. Tree /\ StackInv /\ PathInv /\ FoundInv
  BY DEF TreeSearchInv
<1>3. /\ Tree' /\ Invocations' = Invocations /\ (Confused' <=> Confused)
      /\ \A d : (Hidden(d)' <=> Hidden(d)) /\ (EndsLoop(d)' <=> EndsLoop(d))
      /\ \A d : Below(d)' = Below(d) /\ Route(d)' = Route(d)
  BY <1>1, <1>2, SameTree
<1>4. \A k : Visited(k)' = Visited(k)
  BY <1>1 DEF Visited
<1>5. StackInv'
  <2>1. ASSUME NEW k
        PROVE  /\ (Lineage(Visited(k)))' = Lineage(Visited(k))
               /\ (Children(Visited(k)))' = Children(Visited(k))
               /\ (EndsLoop(First(calls[k])))' <=> EndsLoop(First(calls[k]))
    <3>1. (Lineage(Visited(k)))' = LineageIn(parent')[Visited(k)']
      BY DEF Lineage, LineageIn
    <3>2. (Lineage(Visited(k)))' = Lineage(Visited(k))
      BY <1>1, <1>4, <3>1, LineageHere
    <3>3. (Children(Visited(k)))' = Children(Visited(k))
      BY <1>1, <1>4 DEF Children
    <3>4. (EndsLoop(First(calls[k])))' <=> EndsLoop(First(calls[k]))
      BY <1>1 DEF EndsLoop, Children
    <3> QED
      BY <3>2, <3>3, <3>4
  <2> QED
    BY <1>1, <1>2, <1>3, <2>1 DEF StackInv
<1>6. PathInv'
  <2>1. (Route(Visited(Len(calls))))' = Route(Visited(Len(calls)))
    <3> PICK v : v = Visited(Len(calls))
      OBVIOUS
    <3>1. (Visited(Len(calls)))' = v
      BY <1>1 DEF Visited
    <3> QED
      BY <1>1, <1>2, <3>1, PathNext
  <2>2. FoundPathsAreRoutes' <=> FoundPathsAreRoutes
    <3>1. \A f : (Route(f.span))' = Route(f.span)
      BY <1>3
    <3> QED
      BY <1>1, <3>1 DEF FoundPathsAreRoutes
  <2> QED
    BY <1>1, <1>2, <1>3, <2>1, <2>2 DEF PathInv
<1>7. FoundInv'
  <2>1. \A d : Pending(d)' <=> Pending(d)
    BY <1>1, <1>3 DEF Pending, ToVisit
  <2>2. FoundSpans' = FoundSpans
    BY <1>1 DEF FoundSpans
  <2> QED
    BY <1>2, <1>3, <2>1, <2>2 DEF FoundInv
<1> QED
  BY <1>3, <1>5, <1>6, <1>7

LEMMA LookUpKeepsInv ==
  ASSUME TreeSearchInv, LookUp
  PROVE  TreeSearchInv'
<1>1. PICK f \in found : shown' = shown \cup {[span |-> f.span, matches |-> Matches(f)]}
  BY DEF LookUp
<1>2. treeVars' = treeVars /\ found' = found /\ raised' = raised
  BY DEF LookUp
<1>3. Tree' /\ StackInv' /\ PathInv' /\ FoundInv'
  BY SearchKept DEF LookUp
<1>4. Tree /\ ShownInv
  BY DEF TreeSearchInv
<1>5. (Confused' <=> Confused) /\ \A g : Matches(g)' = Matches(g)
  BY <1>2, <1>4, SameTree, SameMatches
<1>6. ShownInv'
  BY <1>1, <1>2, <1>4, <1>5 DEF ShownInv
<1> QED
  BY <1>3, <1>6 DEF TreeSearchInv

LEMMA LookUpRaisesKeepsInv ==
  ASSUME TreeSearchInv, LookUpRaises
  PROVE  TreeSearchInv'
<1>1. PICK f \in found : Matches(f) = {}
  BY DEF LookUpRaises
<1>2. treeVars' = treeVars
  BY DEF LookUpRaises
<1>3. Tree' /\ StackInv' /\ PathInv' /\ FoundInv'
  BY SearchKept DEF LookUpRaises
<1>4. Tree
  BY DEF TreeSearchInv
<1>5. Confused
  BY <1>1, <1>4, FoundIs, MatchesAre
<1>6. ShownInv'
  BY <1>2, <1>4, <1>5, SameTree DEF ShownInv
<1> QED
  BY <1>3, <1>6 DEF TreeSearchInv

LEMMA SearchStep ==
  ASSUME TreeSearchInv, [Next]_searchVars
  PROVE  TreeSearchInv'
<1>1. CASE VisitChildlessMatch
  BY <1>1, VisitChildlessMatchKeepsInv
<1>2. CASE Visit
  BY <1>2, VisitKeepsInv
<1>3. CASE Return
  BY <1>3, ReturnLastKeepsInv, ReturnKeepsInv
<1>4. CASE LookUp
  BY <1>4, LookUpKeepsInv
<1>5. CASE LookUpRaises
  BY <1>5, LookUpRaisesKeepsInv
<1>6. CASE UNCHANGED searchVars
  <2>1. UNCHANGED <<treeVars, calls, path, found>> /\ shown' = shown /\ raised' = raised
    BY <1>6 DEF searchVars
  <2>2. Tree /\ ShownInv /\ treeVars' = treeVars /\ found \subseteq found'
    BY <2>1 DEF TreeSearchInv
  <2>3. ShownInv'
    BY <2>1, <2>2, ShownKept
  <2> QED
    BY <2>1, <2>3, SearchKept DEF TreeSearchInv
<1> QED
  BY <1>1, <1>2, <1>3, <1>4, <1>5, <1>6 DEF Next

LEMMA SearchInvariant == Spec => []TreeSearchInv
<1>1. Init => TreeSearchInv
  BY InitSearch
<1>2. TreeSearchInv /\ [Next]_searchVars => TreeSearchInv'
  BY SearchStep
<1> QED
  BY <1>1, <1>2, PTL DEF Spec

-----------------------------------------------------------------------------
(***************************************************************************)
(* The theorems.                                                           *)
(***************************************************************************)
\* The one path that all calls append to and remove from is, at every span found, the
\* way from the root to it, in trees of any size, as long as no operation calls itself
\* through another one (Report._find_spans, report.py).
THEOREM PathsAreRoutes == Spec => []PathIsRoute
<1>1. TreeSearchInv => PathIsRoute
  BY DEF TreeSearchInv, PathInv, PathIsRoute, Confused
<1> QED
  BY <1>1, SearchInvariant, PTL

\* When the search is over it has recorded invocations of the operation only, and every
\* one, whatever its depth, but perhaps those behind a sibling, theirs or of a span above
\* them, that ended the loop (Report._find_spans, report.py).
THEOREM SearchFindsUnlessHidden == Spec => []FindsUnlessHidden
<1>1. ASSUME TreeSearchInv, calls = <<>>
      PROVE  FoundSpans = {s \in Invocations : ~\E m \in Spans : Hides(m, s)}
  <2>1. Len(calls) = 0
    BY <1>1, EmptySeq
  <2>2. \A d : ~Pending(d)
    BY <2>1 DEF Pending
  <2> QED
    BY <1>1, <2>2 DEF TreeSearchInv, FoundInv, Hidden
<1>2. TreeSearchInv => FindsUnlessHidden
  BY <1>1 DEF FindsUnlessHidden
<1> QED
  BY <1>2, SearchInvariant, PTL

\* As long as no operation calls itself through another one, every invocation that is
\* looked up is found in layer 4, the span it is shown at is among the matches, and the
\* others are invocations of the same operation with the same paths below them and,
\* but for names that begin with each other, the same route (Report._layer4, report.py).
THEOREM LookUpShowsTheInvocation == Spec => []ShowsTheInvocation
<1>1. ASSUME TreeSearchInv, ~Confused PROVE ShowsTheInvocation
  <2>1. ~raised /\ \A x \in shown : \E f \in found : x.span = f.span /\ x.matches = Matches(f)
    BY <1>1 DEF TreeSearchInv, ShownInv
  <2>2. ASSUME NEW x \in shown
        PROVE  /\ x.span \in x.matches
               /\ \A s \in x.matches :
                    /\ name[s] = Bug /\ SubTreePaths(s) = SubTreePaths(x.span)
                    /\ Route(s) # Route(x.span) => \E i \in DOMAIN Route(s) :
                         <<Route(s)[i], Route(x.span)[i]>> \in Extends
    <3>1. PICK f \in found : x.span = f.span /\ x.matches = Matches(f)
      BY <2>1
    <3>2. /\ Tree /\ f.span \in Spans /\ name[f.span] = Bug /\ f.path = Route(f.span)
      BY <1>1, FoundIs DEF TreeSearchInv, Invocations
    <3>3. /\ f.span \in Matches(f)
          /\ \A s \in Matches(f) :
               /\ s \in Spans /\ SubTreePaths(s) = SubTreePaths(f.span)
               /\ Route(s) # Route(f.span) => \E i \in DOMAIN Route(s) :
                    <<Route(s)[i], Route(f.span)[i]>> \in Extends
      BY <3>2, MatchesAre
    <3>4. \A s \in Matches(f) : name[s] = Bug
      BY <3>2, <3>3, SamePathsSameName
    <3> QED
      BY <3>1, <3>3, <3>4
  <2> QED
    BY <2>1, <2>2 DEF ShowsTheInvocation
<1>2. TreeSearchInv => ShowsTheInvocation
  BY <1>1 DEF Confused, ShowsTheInvocation
<1> QED
  BY <1>2, SearchInvariant, PTL
=============================================================================
