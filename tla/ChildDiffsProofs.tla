-------------------------- MODULE ChildDiffsProofs --------------------------
(***************************************************************************)
(* Proofs about layer 3, for trees of any size and depth and groups of any *)
(* size: without two calls of one operation in one span nothing raises,    *)
(* and a slot collects the times of one call.                              *)
(***************************************************************************)
EXTENDS ChildDiffs, TLAPS, FiniteSetTheorems, FunctionTheorems, SequenceTheorems,
        WellFoundedInduction

LEMMA LeastOf ==
  ASSUME NEW S, S \subseteq Nat, S # {}
  PROVE  \E least \in S : \A o \in S : least <= o
<1>1. PICK x \in S : \A y \in S : ~(<<y, x>> \in OpToRel(<, Nat))
  BY WFMin, NatLessThanWellFounded
<1>2. \A y \in S : ~(y < x)
  BY <1>1 DEF OpToRel
<1> QED
  BY <1>2

-----------------------------------------------------------------------------
(***************************************************************************)
(* Trees.                                                                  *)
(***************************************************************************)
\* The spans of a trace: the root, and later ones with a caller before them.
LEMMA TraceIs ==
  ASSUME NEW t, IsTrace(t)
  PROVE  /\ Len(t) \in Nat /\ Len(t) > 0 /\ DOMAIN t = 1..Len(t) /\ 1 \in DOMAIN t
         /\ t[1].parent = 0
         /\ \A s \in DOMAIN t : t[s].name \in Nat /\ t[s].parent \in Nat
         /\ \A s \in DOMAIN t : s # 1 => /\ t[s].parent \in DOMAIN t
                                         /\ t[s].parent < s
                                         /\ s \in Callees(t, t[s].parent)
         /\ \A s, c \in DOMAIN t : c \in Callees(t, s) => c > s /\ c # 1
         /\ \A s : Callees(t, s) \subseteq DOMAIN t
<1>1. t \in Seq(Span) /\ Len(t) > 0 /\ t[1].parent = 0
      /\ \A s \in 2..Len(t) : t[s].parent \in 1..(s - 1)
  BY DEF IsTrace
<1>2. Len(t) \in Nat /\ DOMAIN t = 1..Len(t)
  BY <1>1, LenProperties
<1>3. \A s \in DOMAIN t : t[s].name \in Nat /\ t[s].parent \in Nat
  <2>1. \A s \in 1..Len(t) : t[s] \in Span
    BY <1>1, ElementOfSeq
  <2>2. \A x \in Span : x.name \in Nat /\ x.parent \in Nat
    BY DEF Span
  <2> QED
    BY <1>2, <2>1, <2>2
<1>4. ASSUME NEW s \in DOMAIN t, s # 1
      PROVE  t[s].parent \in DOMAIN t /\ t[s].parent < s /\ s \in Callees(t, t[s].parent)
  <2>1. s \in 2..Len(t)
    BY <1>2, <1>4
  <2>2. t[s].parent \in 1..(s - 1)
    BY <1>1, <2>1
  <2> QED
    BY <1>2, <2>1, <2>2 DEF Callees
<1>5. ASSUME NEW s \in DOMAIN t, NEW c \in DOMAIN t, c \in Callees(t, s)
      PROVE  c > s /\ c # 1
  <2>1. t[c].parent = s
    BY <1>5 DEF Callees
  <2>2. c # 1
    BY <1>1, <1>2, <2>1
  <2> QED
    BY <1>2, <1>4, <2>1, <2>2
<1> QED
  BY <1>1, <1>2, <1>3, <1>4, <1>5 DEF Callees

\* There is a list of places for the first spans, whatever the places are.
LEMMA AddressesExist ==
  ASSUME NEW t, IsTrace(t)
  PROVE  \A m \in 1..Len(t) : \E g :
            g = [s \in 1..m |-> IF s = 1 THEN <<>> ELSE Append(g[t[s].parent], Place(t, s))]
<1> DEFINE Lists(g, m) ==
             g = [s \in 1..m |-> IF s = 1 THEN <<>> ELSE Append(g[t[s].parent], Place(t, s))]
           Bad == {m \in 1..Len(t) : ~\E g : Lists(g, m)}
<1>1. SUFFICES ASSUME Bad # {} PROVE FALSE
  OBVIOUS
<1>2. Len(t) \in Nat /\ \A s \in 2..Len(t) : t[s].parent \in 1..(s - 1)
  BY TraceIs DEF IsTrace
<1>3. PICK m \in Bad : \A k \in Bad : m <= k
  <2>1. Bad \subseteq Nat
    OBVIOUS
  <2> HIDE DEF Bad
  <2> QED
    BY <1>1, <2>1, LeastOf
<1>4. m # 1
  <2>1. Lists([s \in 1..1 |-> <<>>], 1)
    OBVIOUS
  <2> QED
    BY <2>1
<1>5. m \in 2..Len(t) /\ m - 1 \in 1..Len(t) /\ m - 1 \notin Bad
  <2>1. m \in 2..Len(t) /\ m - 1 \in 1..Len(t) /\ ~(m <= m - 1)
    BY <1>2, <1>4
  <2> HIDE DEF Bad
  <2> QED
    BY <1>3, <2>1
<1>6. PICK g : Lists(g, m - 1)
  BY <1>5
<1> DEFINE new == Append(g[t[m].parent], Place(t, m))
           h == [s \in 1..m |-> IF s = m THEN new ELSE g[s]]
<1>7. \A s \in 1..(m - 1) :
        g[s] = IF s = 1 THEN <<>> ELSE Append(g[t[s].parent], Place(t, s))
  <2> DEFINE way(s) == IF s = 1 THEN <<>> ELSE Append(g[t[s].parent], Place(t, s))
  <2>1. g = [s \in 1..(m - 1) |-> way(s)]
    BY <1>6
  <2> HIDE DEF way
  <2>2. \A s \in 1..(m - 1) : g[s] = way(s)
    BY <2>1, Zenon
  <2> QED
    BY <2>2 DEF way
<1>8. \A s \in 1..(m - 1) : h[s] = g[s] /\ s \in 1..m /\ s # m
  BY <1>5
<1>9. h[m] = new
  BY <1>5
<1> HIDE DEF h, Bad
<1>10. ASSUME NEW s \in 1..m
       PROVE  h[s] = IF s = 1 THEN <<>> ELSE Append(h[t[s].parent], Place(t, s))
  <2>1. s = 1 \/ s \in 2..m
    BY <1>5
  <2>2. s # 1 => t[s].parent \in 1..(s - 1)
    BY <1>2, <1>5, <2>1
  <2>3. s # 1 => h[t[s].parent] = g[t[s].parent]
    <3>1. s # 1 => t[s].parent \in 1..(m - 1)
      BY <1>5, <2>1, <2>2
    <3> QED
      BY <1>8, <3>1
  <2>4. CASE s = m
    BY <1>4, <1>9, <2>3, <2>4
  <2>5. CASE s # m
    <3>1. s \in 1..(m - 1)
      BY <1>5, <2>5
    <3>2. h[s] = IF s = 1 THEN <<>> ELSE Append(g[t[s].parent], Place(t, s))
      BY <1>7, <1>8, <3>1
    <3> QED
      BY <2>3, <3>2
  <2> QED
    BY <2>4, <2>5
<1>11. Lists(h, m)
  <2> DEFINE way(s) == IF s = 1 THEN <<>> ELSE Append(h[t[s].parent], Place(t, s))
  <2>1. \A s \in 1..m : h[s] = way(s)
    BY <1>10
  <2>2. h = [s \in 1..m |-> h[s]]
    BY DEF h
  <2> HIDE DEF way
  <2>3. h = [s \in 1..m |-> way(s)]
    BY <2>1, <2>2
  <2> QED
    BY <2>3 DEF way
<1> HIDE DEF Lists
<1> QED
  BY <1>3, <1>11 DEF Bad

\* The address of a span is that of its caller and its place.
LEMMA AddressIs ==
  ASSUME NEW t, IsTrace(t)
  PROVE  /\ DOMAIN Address(t) = DOMAIN t
         /\ Address(t)[1] = <<>>
         /\ \A s \in DOMAIN t : s # 1 =>
              Address(t)[s] = Append(Address(t)[t[s].parent], Place(t, s))
<1> DEFINE at == CHOOSE at : at =
             [s \in DOMAIN t |-> IF s = 1 THEN <<>> ELSE Append(at[t[s].parent], Place(t, s))]
<1>1. Len(t) \in 1..Len(t) /\ DOMAIN t = 1..Len(t) /\ 1 \in DOMAIN t
  BY TraceIs
<1>2. \E g : g = [s \in 1..Len(t) |->
                    IF s = 1 THEN <<>> ELSE Append(g[t[s].parent], Place(t, s))]
  BY <1>1, AddressesExist
<1>3. at = [s \in DOMAIN t |-> IF s = 1 THEN <<>> ELSE Append(at[t[s].parent], Place(t, s))]
  BY <1>1, <1>2
<1>4. Address(t) = at
  BY DEF Address
<1> HIDE DEF at
<1>5. \A s \in DOMAIN t :
        at[s] = IF s = 1 THEN <<>> ELSE Append(at[t[s].parent], Place(t, s))
  <2> DEFINE way(s) == IF s = 1 THEN <<>> ELSE Append(at[t[s].parent], Place(t, s))
  <2>1. at = [s \in DOMAIN t |-> way(s)]
    BY <1>3
  <2> HIDE DEF way
  <2>2. \A s \in DOMAIN t : at[s] = way(s)
    BY <2>1, Zenon
  <2> QED
    BY <2>2 DEF way
<1>6. DOMAIN at = DOMAIN t
  BY <1>3
<1> QED
  BY <1>1, <1>4, <1>5, <1>6

\* There are the trees of names of the last spans.
NameTree(t, g, s) == <<t[s].name, Occurrences([c \in Callees(t, s) |-> g[c]])>>

LEMMA NameTreesExist ==
  ASSUME NEW t, IsTrace(t)
  PROVE  \A m \in 0..(Len(t) - 1) : \E g :
            g = [s \in (Len(t) - m)..Len(t) |-> NameTree(t, g, s)]
<1> DEFINE n == Len(t)
           Bad == {m \in 0..(n - 1) : ~\E g : g = [s \in (n - m)..n |-> NameTree(t, g, s)]}
<1>1. SUFFICES ASSUME Bad # {} PROVE FALSE
  OBVIOUS
<1>2. n \in Nat /\ n > 0 /\ DOMAIN t = 1..n
  BY TraceIs
<1> HIDE DEF n
<1>3. PICK m \in Bad : \A k \in Bad : m <= k
  <2>1. Bad \subseteq Nat
    BY <1>2
  <2> HIDE DEF Bad
  <2> QED
    BY <1>1, <2>1, LeastOf
<1>4. m \in 0..(n - 1) /\ n - m \in 1..n
  BY <1>2
<1>5. \A s \in (n - m)..n : Callees(t, s) \subseteq (s + 1)..n
  BY <1>2, <1>4, TraceIs
<1> DEFINE first == n - m
<1>6. PICK g : \A s \in (first + 1)..n : g[s] = NameTree(t, g, s)
  <2>1. CASE m = 0
    <3>1. \A g : \A s \in (first + 1)..n : g[s] = NameTree(t, g, s)
      BY <1>2, <2>1
    <3> QED
      BY <3>1
  <2>2. CASE m # 0
    <3>1. m - 1 \in 0..(n - 1) /\ ~(m <= m - 1) /\ n - (m - 1) = first + 1
      BY <1>2, <1>4, <2>2
    <3>2. m - 1 \notin Bad
      <4> HIDE DEF Bad
      <4> QED
        BY <1>3, <3>1
    <3>3. PICK g : g = [s \in (first + 1)..n |-> NameTree(t, g, s)]
      BY <3>1, <3>2
    <3>4. \A s \in (first + 1)..n : g[s] = NameTree(t, g, s)
      BY <3>3, Zenon
    <3> QED
      BY <3>4
  <2> QED
    BY <2>1, <2>2
<1> DEFINE h == [s \in first..n |-> IF s = first THEN NameTree(t, g, first) ELSE g[s]]
<1>7. \A s \in (first + 1)..n : h[s] = g[s]
  BY <1>2, <1>4
<1>8. first \in first..n /\ h[first] = NameTree(t, g, first)
  BY <1>2, <1>4
<1>9. h = [s \in first..n |-> h[s]]
  OBVIOUS
<1> HIDE DEF h, Bad
<1>10. ASSUME NEW s \in first..n PROVE h[s] = NameTree(t, h, s)
  <2>1. \A c \in Callees(t, s) : h[c] = g[c]
    <3>1. \A c \in Callees(t, s) : c \in (first + 1)..n
      BY <1>2, <1>4, <1>5
    <3> QED
      BY <1>7, <3>1
  <2>2. [c \in Callees(t, s) |-> h[c]] = [c \in Callees(t, s) |-> g[c]]
    BY <2>1
  <2>3. NameTree(t, h, s) = NameTree(t, g, s)
    BY <2>2 DEF NameTree
  <2>4. h[s] = NameTree(t, g, s)
    <3>1. s = first \/ s \in (first + 1)..n
      BY <1>2, <1>4
    <3> QED
      BY <1>6, <1>7, <1>8, <3>1
  <2> QED
    BY <2>3, <2>4
<1>11. h = [s \in first..n |-> NameTree(t, h, s)]
  BY <1>9, <1>10
<1> QED
  BY <1>3, <1>11 DEF Bad

\* The identifier of a trace is the tree of names of its root.
LEMMA IdentifierIs ==
  ASSUME NEW t, IsTrace(t)
  PROVE  \E g : /\ \A s \in DOMAIN t : g[s] = NameTree(t, g, s)
                /\ Identifier(t) = g[1]
<1> DEFINE tree == CHOOSE tree : tree =
             [s \in DOMAIN t |-> <<t[s].name, Occurrences([c \in Callees(t, s) |-> tree[c]])>>]
<1>1. Len(t) - 1 \in 0..(Len(t) - 1) /\ (Len(t) - (Len(t) - 1))..Len(t) = DOMAIN t
  <2>1. Len(t) \in Nat /\ Len(t) > 0 /\ DOMAIN t = 1..Len(t)
    BY TraceIs
  <2>2. Len(t) - (Len(t) - 1) = 1
    BY <2>1
  <2> QED
    BY <2>1, <2>2
<1>2. \E g : g = [s \in DOMAIN t |-> NameTree(t, g, s)]
  <2>1. PICK m \in 0..(Len(t) - 1) : (Len(t) - m)..Len(t) = DOMAIN t
    BY <1>1, Zenon
  <2>2. PICK g : g = [s \in (Len(t) - m)..Len(t) |-> NameTree(t, g, s)]
    BY <2>1, NameTreesExist
  <2> QED
    BY <2>1, <2>2, Zenon
<1>3. \E g : g = [s \in DOMAIN t |-> <<t[s].name, Occurrences([c \in Callees(t, s) |-> g[c]])>>]
  BY <1>2 DEF NameTree
<1>4. tree = [s \in DOMAIN t |-> <<t[s].name, Occurrences([c \in Callees(t, s) |-> tree[c]])>>]
  BY <1>3
<1>5. Identifier(t) = tree[1]
  BY DEF Identifier
<1> HIDE DEF tree
<1>6. tree = [s \in DOMAIN t |-> NameTree(t, tree, s)]
  BY <1>4 DEF NameTree
<1>7. \A s \in DOMAIN t : tree[s] = NameTree(t, tree, s)
  BY <1>6, Zenon
<1> QED
  BY <1>5, <1>7

-----------------------------------------------------------------------------
(***************************************************************************)
(* Places.  Sorted by distinct names, a span has as many siblings before   *)
(* it as there are smaller names.                                          *)
(***************************************************************************)
Smaller(keys, v) == {w \in keys : w < v}

\* Of two keys the smaller one has fewer below it.
LEMMA SmallerGrows ==
  ASSUME NEW keys \in SUBSET Int, IsFiniteSet(keys), NEW v \in keys, NEW w \in keys, v < w
  PROVE  Cardinality(Smaller(keys, v)) # Cardinality(Smaller(keys, w))
<1>1. /\ Smaller(keys, v) \in SUBSET Smaller(keys, w)
      /\ Smaller(keys, w) \in SUBSET keys
  <2>1. \A u \in keys : u < v => u < w
    OBVIOUS
  <2> QED
    BY <2>1 DEF Smaller
<1>2. v \in Smaller(keys, w) /\ v \notin Smaller(keys, v)
  BY DEF Smaller
<1>3. IsFiniteSet(Smaller(keys, w))
  BY <1>1, FS_Subset
<1> QED
  BY <1>1, <1>2, <1>3, FS_Subset

LEMMA SamePlaceSameKey ==
  ASSUME NEW keys \in SUBSET Int, IsFiniteSet(keys), NEW v \in keys, NEW w \in keys,
         Cardinality(Smaller(keys, v)) = Cardinality(Smaller(keys, w))
  PROVE  v = w
<1>1. v \in Int /\ w \in Int
  OBVIOUS
<1>2. ~(v < w)
  BY SmallerGrows
<1>3. ~(w < v)
  BY SmallerGrows
<1> QED
  BY <1>1, <1>2, <1>3

\* The callees of a span are finitely many, and so are their names.
CalleeNames(t, s) == {t[c].name : c \in Callees(t, s)}

LEMMA CalleesAreFinite ==
  ASSUME NEW t, IsTrace(t), NEW s
  PROVE  /\ IsFiniteSet(DOMAIN t)
         /\ IsFiniteSet(Callees(t, s))
         /\ IsFiniteSet(CalleeNames(t, s)) /\ CalleeNames(t, s) \in SUBSET Int
<1>1. Len(t) \in Nat /\ DOMAIN t = 1..Len(t) /\ Callees(t, s) \in SUBSET DOMAIN t
      /\ \A c \in Callees(t, s) : t[c].name \in Nat
  BY TraceIs
<1>2. IsFiniteSet(DOMAIN t)
  BY <1>1, FS_Interval
<1>3. IsFiniteSet(Callees(t, s))
  BY <1>1, <1>2, FS_Subset
<1> DEFINE f == [c \in Callees(t, s) |-> t[c].name]
<1>4. f \in Surjection(Callees(t, s), CalleeNames(t, s))
  BY Fun_IsSurj DEF CalleeNames
<1>5. IsFiniteSet(CalleeNames(t, s))
  BY <1>3, <1>4, FS_Surjection
<1> QED
  BY <1>1, <1>2, <1>3, <1>5 DEF CalleeNames

\* Without twins the names of the siblings alone decide the place.
LEMMA PlaceIs ==
  ASSUME NEW t, IsTrace(t), ~HasTwins(t), NEW s \in DOMAIN t, s # 1
  PROVE  Place(t, s) = 1 + Cardinality(Smaller(CalleeNames(t, t[s].parent), t[s].name))
<1> DEFINE p == t[s].parent
           earlier == {d \in Callees(t, p) \ {s} : Before(t, d, s)}
           lower == Smaller(CalleeNames(t, p), t[s].name)
           f == [d \in earlier |-> t[d].name]
<1>1. \A d \in Callees(t, p) : d \in DOMAIN t /\ t[d].parent = p /\ t[d].name \in Nat
  BY TraceIs DEF Callees
<1>2. t[s].name \in Nat /\ s \in Callees(t, p)
  BY TraceIs
<1>3. \A c, d \in Callees(t, p) : t[c].name = t[d].name => c = d
  BY <1>1 DEF HasTwins
<1>4. \A d \in Callees(t, p) : d \in earlier <=> t[d].name < t[s].name
  BY <1>1, <1>2, <1>3 DEF Before
<1>5. lower = {t[d].name : d \in earlier}
  BY <1>4 DEF Smaller, CalleeNames
<1>6. f \in Bijection(earlier, lower)
  BY <1>3, <1>5, Fun_IsBij
<1>7. IsFiniteSet(earlier)
  <2>1. IsFiniteSet(Callees(t, p)) /\ earlier \in SUBSET Callees(t, p)
    BY CalleesAreFinite
  <2> QED
    BY <2>1, FS_Subset
<1>8. Cardinality(lower) = Cardinality(earlier)
  BY <1>6, <1>7, FS_Bijection DEF ExistsBijection
<1> QED
  BY <1>8 DEF Place

LEMMA PlaceIsNumber ==
  ASSUME NEW t, IsTrace(t), NEW s \in DOMAIN t
  PROVE  Place(t, s) \in Nat
<1> DEFINE p == t[s].parent
           earlier == {d \in Callees(t, p) \ {s} : Before(t, d, s)}
<1>1. IsFiniteSet(Callees(t, p)) /\ earlier \in SUBSET Callees(t, p)
  BY CalleesAreFinite
<1>2. IsFiniteSet(earlier)
  BY <1>1, FS_Subset
<1>3. Cardinality(earlier) \in Nat
  BY <1>2, FS_CardinalityType
<1> HIDE DEF earlier
<1>4. 1 + Cardinality(earlier) \in Nat
  BY <1>3
<1> QED
  BY <1>4 DEF Place, earlier

\* Without twins every two siblings have an order.
LEMMA NothingTied ==
  ASSUME NEW t, IsTrace(t), ~HasTwins(t)
  PROVE  ~SortRaises(t)
<1>1. \A a \in DOMAIN t : t[a].name \in Nat
  BY TraceIs
<1>2. ASSUME NEW a \in DOMAIN t, NEW b \in DOMAIN t, a # b, t[a].parent = t[b].parent
      PROVE  Before(t, a, b) \/ Before(t, b, a)
  <2>1. t[a].name # t[b].name
    BY <1>2 DEF HasTwins
  <2>2. t[a].name < t[b].name \/ t[b].name < t[a].name
    BY <1>1, <2>1
  <2> QED
    BY <2>2 DEF Before
<1> QED
  BY <1>2 DEF SortRaises

-----------------------------------------------------------------------------
(***************************************************************************)
(* Addresses.  Each is proved by the least span that would be against it:  *)
(* its caller is less.                                                     *)
(***************************************************************************)
LEMMA AddressIsSeq ==
  ASSUME NEW t, IsTrace(t)
  PROVE  \A s \in DOMAIN t : Address(t)[s] \in Seq(Nat)
<1> DEFINE Bad == {s \in DOMAIN t : Address(t)[s] \notin Seq(Nat)}
<1>1. SUFFICES ASSUME Bad # {} PROVE FALSE
  OBVIOUS
<1>2. PICK s \in Bad : \A r \in Bad : s <= r
  <2>1. Bad \subseteq Nat
    BY TraceIs
  <2> HIDE DEF Bad
  <2> QED
    BY <1>1, <2>1, LeastOf
<1>3. s \in DOMAIN t /\ s \in Nat
  BY TraceIs
<1>4. s # 1
  BY AddressIs, EmptySeq
<1>5. t[s].parent \in DOMAIN t /\ t[s].parent < s /\ t[s].parent \in Nat
  BY <1>3, <1>4, TraceIs
<1>6. t[s].parent \notin Bad
  <2>1. ~(s <= t[s].parent)
    BY <1>3, <1>5
  <2> HIDE DEF Bad
  <2> QED
    BY <1>2, <2>1
<1>7. Address(t)[s] = Append(Address(t)[t[s].parent], Place(t, s))
  BY <1>3, <1>4, AddressIs
<1>8. Address(t)[t[s].parent] \in Seq(Nat) /\ Place(t, s) \in Nat
  BY <1>3, <1>5, <1>6, PlaceIsNumber
<1>9. Address(t)[s] \in Seq(Nat)
  BY <1>7, <1>8, AppendProperties
<1> QED
  BY <1>9

\* What stands at an address below the root, and what does not.
LEMMA LastOfAddress ==
  ASSUME NEW t, IsTrace(t), NEW s \in DOMAIN t, s # 1
  PROVE  LET a == Address(t)[s]  q == Address(t)[t[s].parent]
         IN  /\ a # <<>> /\ q \in Seq(Nat) /\ Len(q) \in Nat /\ Len(a) = Len(q) + 1
             /\ a[Len(q) + 1] = Place(t, s)
             /\ \A k \in 1..Len(q) : SubSeq(a, 1, k) = SubSeq(q, 1, k)
             /\ SubSeq(a, 1, Len(q) + 1) = a
             /\ SubSeq(a, 1, Len(q)) = q
<1> DEFINE q == Address(t)[t[s].parent]
           x == Place(t, s)
           a == Append(q, x)
<1>1. Address(t)[s] = a
  BY AddressIs
<1>2. q \in Seq(Nat) /\ x \in Nat
  BY TraceIs, AddressIsSeq, PlaceIsNumber
<1> HIDE DEF q, x
<1>3. /\ a \in Seq(Nat) /\ a # <<>> /\ Len(q) \in Nat /\ Len(a) = Len(q) + 1
      /\ a[Len(q) + 1] = x
      /\ \A k \in 1..Len(q) : a[k] = q[k]
  BY <1>2, AppendProperties, LenProperties, EmptySeq
<1> HIDE DEF a
<1>4. ASSUME NEW k \in 1..Len(q) PROVE SubSeq(a, 1, k) = SubSeq(q, 1, k)
  BY <1>2, <1>3, <1>4
<1>5. SubSeq(a, 1, Len(q) + 1) = a
  BY <1>3, SubSeqFull
<1>6. SubSeq(a, 1, Len(q)) = q
  BY <1>2, <1>3
<1> QED
  BY <1>1, <1>2, <1>3, <1>4, <1>5, <1>6 DEF q, x

\* Without twins no two spans have one address.
LEMMA AddressesDiffer ==
  ASSUME NEW t, IsTrace(t), ~HasTwins(t)
  PROVE  \A s, r \in DOMAIN t : Address(t)[s] = Address(t)[r] => s = r
<1> DEFINE Bad == {s \in DOMAIN t : \E r \in DOMAIN t : Address(t)[s] = Address(t)[r] /\ s # r}
<1>1. SUFFICES ASSUME Bad # {} PROVE FALSE
  OBVIOUS
<1>2. PICK s \in Bad : \A r \in Bad : s <= r
  <2>1. Bad \subseteq Nat
    BY TraceIs
  <2> HIDE DEF Bad
  <2> QED
    BY <1>1, <2>1, LeastOf
<1>3. s \in DOMAIN t /\ s \in Nat
  BY TraceIs
<1>4. PICK r \in DOMAIN t : Address(t)[s] = Address(t)[r] /\ s # r
  OBVIOUS
<1>5. s # 1 /\ r # 1
  BY <1>3, <1>4, AddressIs, LastOfAddress
<1>6. t[s].parent \in DOMAIN t /\ t[s].parent < s /\ t[s].parent \in Nat
      /\ t[r].parent \in DOMAIN t
  BY <1>3, <1>5, TraceIs
<1>7. Address(t)[t[s].parent] = Address(t)[t[r].parent] /\ Place(t, s) = Place(t, r)
  <2> DEFINE q == Address(t)[t[s].parent]
             o == Address(t)[t[r].parent]
             a == Address(t)[s]
  <2>1. /\ Len(q) \in Nat /\ Len(a) = Len(q) + 1 /\ a[Len(q) + 1] = Place(t, s)
        /\ SubSeq(a, 1, Len(q)) = q
    BY <1>3, <1>5, LastOfAddress
  <2>2. /\ Len(o) \in Nat /\ Len(a) = Len(o) + 1 /\ a[Len(o) + 1] = Place(t, r)
        /\ SubSeq(a, 1, Len(o)) = o
    BY <1>4, <1>5, LastOfAddress
  <2> HIDE DEF q, o, a
  <2>3. Len(q) = Len(o)
    <3>1. \A x, y \in Nat : x + 1 = y + 1 => x = y
      OBVIOUS
    <3> QED
      BY <2>1, <2>2, <3>1, Zenon
  <2>4. q = o /\ Place(t, s) = Place(t, r)
    BY <2>1, <2>2, <2>3
  <2> QED
    BY <2>4 DEF q, o
<1>8. t[s].parent = t[r].parent
  <2>1. t[s].parent \notin Bad
    <3>1. ~(s <= t[s].parent)
      BY <1>3, <1>6
    <3> HIDE DEF Bad
    <3> QED
      BY <1>2, <3>1
  <2> QED
    BY <1>6, <1>7, <2>1
<1>9. t[s].name = t[r].name
  <2> DEFINE keys == CalleeNames(t, t[s].parent)
             v == t[s].name
             w == t[r].name
  <2>1. Place(t, s) = 1 + Cardinality(Smaller(keys, v))
    BY <1>3, <1>5, PlaceIs
  <2>2. Place(t, r) = 1 + Cardinality(Smaller(keys, w))
    BY <1>5, <1>8, PlaceIs
  <2>3. v \in keys /\ w \in keys
    <3>1. s \in Callees(t, t[s].parent) /\ r \in Callees(t, t[s].parent)
      BY <1>3, <1>5, <1>8, TraceIs
    <3> QED
      BY <3>1 DEF CalleeNames
  <2>4. keys \in SUBSET Int /\ IsFiniteSet(keys)
    BY CalleesAreFinite
  <2> HIDE DEF keys, v, w
  <2>5. IsFiniteSet(Smaller(keys, v)) /\ IsFiniteSet(Smaller(keys, w))
    BY <2>4, FS_Subset DEF Smaller
  <2>6. Cardinality(Smaller(keys, v)) \in Nat /\ Cardinality(Smaller(keys, w)) \in Nat
    BY <2>5, FS_CardinalityType
  <2>7. Cardinality(Smaller(keys, v)) = Cardinality(Smaller(keys, w))
    <3>1. \A x, y \in Nat : 1 + x = 1 + y => x = y
      OBVIOUS
    <3> QED
      BY <1>7, <2>1, <2>2, <2>6, <3>1, Zenon
  <2>8. v = w
    BY <2>3, <2>4, <2>7, SamePlaceSameKey
  <2> QED
    BY <2>8 DEF v, w
<1> QED
  BY <1>3, <1>4, <1>8, <1>9 DEF HasTwins

\* The structure has at the address of a span its name.
LEMMA StructureIs ==
  ASSUME NEW t, IsTrace(t), ~HasTwins(t)
  PROVE  /\ DOMAIN Structure(t) = {Address(t)[s] : s \in DOMAIN t}
         /\ <<>> \in DOMAIN Structure(t)
         /\ IsFiniteSet(DOMAIN Structure(t))
         /\ \A s \in DOMAIN t : Structure(t)[Address(t)[s]] = t[s].name
<1> DEFINE at == Address(t)
           held == {at[s] : s \in DOMAIN t}
           who(a) == CHOOSE s \in DOMAIN t : at[s] = a
<1>1. Structure(t) = [a \in held |-> t[who(a)].name]
  BY DEF Structure
<1>2. DOMAIN at = DOMAIN t /\ <<>> \in held /\ IsFiniteSet(DOMAIN t)
  BY AddressIs, TraceIs, CalleesAreFinite
<1>3. IsFiniteSet(held)
  <2> DEFINE f == [s \in DOMAIN t |-> at[s]]
  <2>1. f \in Surjection(DOMAIN t, held)
    BY Fun_IsSurj
  <2> QED
    BY <1>2, <2>1, FS_Surjection
<1>4. ASSUME NEW s \in DOMAIN t PROVE who(at[s]) = s
  BY <1>4, AddressesDiffer
<1>5. ASSUME NEW s \in DOMAIN t PROVE Structure(t)[at[s]] = t[s].name
  <2>1. at[s] \in held
    OBVIOUS
  <2> HIDE DEF held, who
  <2> QED
    BY <1>1, <1>4, <2>1
<1> QED
  BY <1>1, <1>2, <1>3, <1>5

\* Without twins the names on the way to a span tell it from every other.
SameWay(f, a, b) ==
  /\ Len(a) = Len(b)
  /\ \A k \in 1..Len(a) : f[SubSeq(a, 1, k)] = f[SubSeq(b, 1, k)]

LEMMA WaysDiffer ==
  ASSUME NEW t, IsTrace(t), ~HasTwins(t)
  PROVE  \A s, r \in DOMAIN t : SameWay(Structure(t), Address(t)[s], Address(t)[r]) => s = r
<1> DEFINE f == Structure(t)
           at == Address(t)
           Bad == {s \in DOMAIN t : \E r \in DOMAIN t : SameWay(f, at[s], at[r]) /\ s # r}
<1>1. SUFFICES ASSUME Bad # {} PROVE FALSE
  OBVIOUS
<1>2. PICK s \in Bad : \A r \in Bad : s <= r
  <2>1. Bad \subseteq Nat
    BY TraceIs
  <2> HIDE DEF Bad
  <2> QED
    BY <1>1, <2>1, LeastOf
<1>3. s \in DOMAIN t /\ s \in Nat
  BY TraceIs
<1>4. PICK r \in DOMAIN t : SameWay(f, at[s], at[r]) /\ s # r
  OBVIOUS
<1>5. s # 1 /\ r # 1
  <2>1. at[1] = <<>> /\ Len(<<>>) = 0
    BY AddressIs, EmptySeq
  <2>2. \A z \in DOMAIN t : z # 1 => Len(at[z]) # 0
    <3> SUFFICES ASSUME NEW z \in DOMAIN t, z # 1 PROVE Len(at[z]) # 0
      OBVIOUS
    <3>1. PICK x \in Nat : Len(at[z]) = x + 1
      BY LastOfAddress, Zenon
    <3> QED
      BY <3>1
  <2>3. Len(at[s]) = Len(at[r])
    BY <1>4 DEF SameWay
  <2> QED
    BY <1>3, <1>4, <2>1, <2>2, <2>3
<1> DEFINE p == t[s].parent
           o == t[r].parent
<1>6. p \in DOMAIN t /\ p < s /\ p \in Nat /\ o \in DOMAIN t
  BY <1>3, <1>5, TraceIs
<1>7. /\ Len(at[p]) \in Nat /\ Len(at[s]) = Len(at[p]) + 1
      /\ \A k \in 1..Len(at[p]) : SubSeq(at[s], 1, k) = SubSeq(at[p], 1, k)
      /\ SubSeq(at[s], 1, Len(at[p]) + 1) = at[s]
  BY <1>3, <1>5, LastOfAddress
<1>8. /\ Len(at[o]) \in Nat /\ Len(at[r]) = Len(at[o]) + 1
      /\ \A k \in 1..Len(at[o]) : SubSeq(at[r], 1, k) = SubSeq(at[o], 1, k)
      /\ SubSeq(at[r], 1, Len(at[o]) + 1) = at[r]
  BY <1>5, LastOfAddress
<1> HIDE DEF at
<1>9. Len(at[p]) = Len(at[o])
  <2>1. \A x, y \in Nat : x + 1 = y + 1 => x = y
    OBVIOUS
  <2>2. Len(at[s]) = Len(at[r])
    BY <1>4 DEF SameWay
  <2> QED
    BY <1>7, <1>8, <2>1, <2>2, Zenon
<1>10. \A k \in 1..(Len(at[p]) + 1) : f[SubSeq(at[s], 1, k)] = f[SubSeq(at[r], 1, k)]
  BY <1>4, <1>7 DEF SameWay
<1>11. p = o
  <2>1. SameWay(f, at[p], at[o])
    <3>1. ASSUME NEW k \in 1..Len(at[p])
          PROVE  f[SubSeq(at[p], 1, k)] = f[SubSeq(at[o], 1, k)]
      <4>1. k \in 1..(Len(at[p]) + 1) /\ k \in 1..Len(at[o])
        BY <1>7, <1>9
      <4>2. f[SubSeq(at[s], 1, k)] = f[SubSeq(at[r], 1, k)]
        BY <1>10, <4>1
      <4>3. SubSeq(at[s], 1, k) = SubSeq(at[p], 1, k)
        BY <1>7
      <4>4. SubSeq(at[r], 1, k) = SubSeq(at[o], 1, k)
        BY <1>8, <4>1
      <4> QED
        BY <4>2, <4>3, <4>4
    <3> QED
      BY <1>9, <3>1 DEF SameWay
  <2>2. p \notin Bad
    <3>1. ~(s <= p)
      BY <1>3, <1>6
    <3> HIDE DEF Bad, p
    <3> QED
      BY <1>2, <3>1
  <2> QED
    BY <1>6, <2>1, <2>2
<1>12. t[s].name = t[r].name
  <2>1. Len(at[p]) + 1 \in 1..(Len(at[p]) + 1)
    BY <1>7
  <2>2. f[at[s]] = f[at[r]]
    BY <1>7, <1>8, <1>9, <1>10, <2>1
  <2>3. f[at[s]] = t[s].name /\ f[at[r]] = t[r].name
    BY <1>3, StructureIs DEF at
  <2> QED
    BY <2>2, <2>3
<1> QED
  BY <1>3, <1>4, <1>11, <1>12 DEF HasTwins

-----------------------------------------------------------------------------
(***************************************************************************)
(* Traces with one identifier.                                             *)
(***************************************************************************)
\* What occurs in two functions with the same occurrences.
LEMMA SameOccurrences ==
  ASSUME NEW f, NEW g, Occurrences(f) = Occurrences(g)
  PROVE  {f[i] : i \in DOMAIN f} = {g[i] : i \in DOMAIN g}
<1> DEFINE count(h) == [v \in {h[i] : i \in DOMAIN h} |-> Cardinality({i \in DOMAIN h : h[i] = v})]
<1>1. \A h : Occurrences(h) = count(h)
  BY DEF Occurrences
<1>2. \A h : DOMAIN count(h) = {h[i] : i \in DOMAIN h}
  OBVIOUS
<1> HIDE DEF count
<1>3. count(f) = count(g)
  BY <1>1
<1> QED
  BY <1>2, <1>3, Zenon

TreesBelow(t, g, s) == {g[c] : c \in Callees(t, s)}

LEMMA SameNameTree ==
  ASSUME NEW t, NEW g, NEW s, NEW u, NEW h, NEW r, NameTree(t, g, s) = NameTree(u, h, r)
  PROVE  u[r].name = t[s].name /\ TreesBelow(t, g, s) = TreesBelow(u, h, r)
<1> DEFINE f == [c \in Callees(t, s) |-> g[c]]
           e == [c \in Callees(u, r) |-> h[c]]
<1>1. t[s].name = u[r].name /\ Occurrences(f) = Occurrences(e)
  BY DEF NameTree
<1>2. {f[c] : c \in DOMAIN f} = {e[c] : c \in DOMAIN e}
  <2> HIDE DEF f, e
  <2> QED
    BY <1>1, SameOccurrences
<1>3. /\ DOMAIN f = Callees(t, s) /\ \A c \in Callees(t, s) : f[c] = g[c]
      /\ DOMAIN e = Callees(u, r) /\ \A c \in Callees(u, r) : e[c] = h[c]
  OBVIOUS
<1> HIDE DEF f, e
<1>4. {f[c] : c \in DOMAIN f} = {g[c] : c \in Callees(t, s)}
  BY <1>3
<1>5. {e[c] : c \in DOMAIN e} = {h[c] : c \in Callees(u, r)}
  BY <1>3
<1> QED
  BY <1>1, <1>2, <1>4, <1>5 DEF TreesBelow

\* Every span of a trace has its like, at the same address, in a trace with the same
\* identifier.
LEMMA LikesExist ==
  ASSUME NEW t, IsTrace(t), ~HasTwins(t), NEW u, IsTrace(u), ~HasTwins(u),
         Identifier(t) = Identifier(u)
  PROVE  \A s \in DOMAIN t : \E r \in DOMAIN u :
            Address(u)[r] = Address(t)[s] /\ u[r].name = t[s].name
<1>1. PICK g : (\A s \in DOMAIN t : g[s] = NameTree(t, g, s)) /\ Identifier(t) = g[1]
  BY IdentifierIs
<1>2. PICK h : (\A s \in DOMAIN u : h[s] = NameTree(u, h, s)) /\ Identifier(u) = h[1]
  BY IdentifierIs
<1> DEFINE Like(s, r) == Address(u)[r] = Address(t)[s] /\ h[r] = g[s]
           Bad == {s \in DOMAIN t : ~\E r \in DOMAIN u : Like(s, r)}
<1>3. ASSUME NEW s \in DOMAIN t, NEW r \in DOMAIN u, h[r] = g[s]
      PROVE  u[r].name = t[s].name /\ TreesBelow(t, g, s) = TreesBelow(u, h, r)
  <2>1. NameTree(t, g, s) = NameTree(u, h, r)
    BY <1>1, <1>2, <1>3
  <2> HIDE DEF Like, Bad
  <2> QED
    BY <2>1, SameNameTree
<1>4. Bad = {}
  <2> SUFFICES ASSUME Bad # {} PROVE FALSE
    OBVIOUS
  <2>1. PICK s \in Bad : \A r \in Bad : s <= r
    <3>1. Bad \subseteq Nat
      BY TraceIs
    <3> HIDE DEF Bad
    <3> QED
      BY <3>1, LeastOf
  <2>2. s \in DOMAIN t /\ s \in Nat
    BY TraceIs
  <2>3. s # 1
    <3>1. 1 \in DOMAIN u /\ Like(1, 1)
      BY <1>1, <1>2, TraceIs, AddressIs
    <3> QED
      BY <3>1
  <2> DEFINE p == t[s].parent
  <2>4. p \in DOMAIN t /\ p < s /\ p \in Nat /\ s \in Callees(t, p)
    BY <2>2, <2>3, TraceIs
  <2>5. PICK o \in DOMAIN u : Like(p, o)
    <3>1. ~(s <= p)
      BY <2>2, <2>4
    <3>2. p \notin Bad
      <4> HIDE DEF Bad, p
      <4> QED
        BY <2>1, <3>1
    <3> QED
      BY <2>4, <3>2
  <2>6. {g[c] : c \in Callees(t, p)} = {h[c] : c \in Callees(u, o)}
    BY <1>3, <2>4, <2>5 DEF TreesBelow
  <2>7. PICK r \in Callees(u, o) : h[r] = g[s]
    <3>1. g[s] \in {h[c] : c \in Callees(u, o)}
      BY <2>4, <2>6
    <3> QED
      BY <3>1
  <2>8. r \in DOMAIN u /\ u[r].parent = o /\ r # 1
    <3>1. r \in DOMAIN u /\ u[r].parent = o
      BY DEF Callees
    <3> QED
      BY <3>1, TraceIs
  <2>9. CalleeNames(t, p) = CalleeNames(u, o)
    <3>1. ASSUME NEW c \in Callees(t, p) PROVE \E d \in Callees(u, o) : u[d].name = t[c].name
      <4>1. PICK d \in Callees(u, o) : h[d] = g[c]
        BY <2>6
      <4>2. c \in DOMAIN t /\ d \in DOMAIN u
        BY DEF Callees
      <4> QED
        BY <1>3, <4>1, <4>2
    <3>2. ASSUME NEW d \in Callees(u, o) PROVE \E c \in Callees(t, p) : u[d].name = t[c].name
      <4>1. PICK c \in Callees(t, p) : h[d] = g[c]
        BY <2>6
      <4>2. c \in DOMAIN t /\ d \in DOMAIN u
        BY DEF Callees
      <4> QED
        BY <1>3, <4>1, <4>2
    <3> QED
      BY <3>1, <3>2 DEF CalleeNames
  <2>10. u[r].name = t[s].name
    BY <1>3, <2>2, <2>7, <2>8
  <2>11. Place(u, r) = Place(t, s)
    <3>1. Place(t, s) = 1 + Cardinality(Smaller(CalleeNames(t, p), t[s].name))
      BY <2>2, <2>3, PlaceIs
    <3>2. Place(u, r) = 1 + Cardinality(Smaller(CalleeNames(u, o), u[r].name))
      BY <2>8, PlaceIs
    <3> QED
      BY <2>9, <2>10, <3>1, <3>2
  <2>12. Address(u)[r] = Append(Address(u)[o], Place(u, r))
    BY <2>8, AddressIs
  <2>13. Address(t)[s] = Append(Address(t)[p], Place(t, s))
    BY <2>2, <2>3, AddressIs
  <2>14. Like(s, r)
    BY <2>5, <2>7, <2>11, <2>12, <2>13
  <2> QED
    BY <2>8, <2>14
<1> QED
  BY <1>3, <1>4

\* Without twins the identifier alone decides the structure.
LEMMA GroupHasOneStructure ==
  ASSUME NEW t, IsTrace(t), ~HasTwins(t), NEW u, IsTrace(u), ~HasTwins(u),
         Identifier(t) = Identifier(u)
  PROVE  Structure(t) = Structure(u)
<1>1. \A s \in DOMAIN t : \E r \in DOMAIN u :
         Address(u)[r] = Address(t)[s] /\ u[r].name = t[s].name
  BY LikesExist
<1>2. \A r \in DOMAIN u : \E s \in DOMAIN t :
         Address(t)[s] = Address(u)[r] /\ t[s].name = u[r].name
  BY LikesExist
<1> DEFINE f == Structure(t)
           e == Structure(u)
<1>3. /\ DOMAIN f = {Address(t)[s] : s \in DOMAIN t}
      /\ \A s \in DOMAIN t : f[Address(t)[s]] = t[s].name
  BY StructureIs
<1>4. /\ DOMAIN e = {Address(u)[r] : r \in DOMAIN u}
      /\ \A r \in DOMAIN u : e[Address(u)[r]] = u[r].name
  BY StructureIs
<1>5. /\ f = [a \in DOMAIN f |-> f[a]]
      /\ e = [a \in DOMAIN e |-> e[a]]
  BY DEF Structure
<1> HIDE DEF f, e
<1>6. DOMAIN f = DOMAIN e
  BY <1>1, <1>2, <1>3, <1>4
<1>7. ASSUME NEW a \in DOMAIN f PROVE f[a] = e[a]
  <2>1. PICK s \in DOMAIN t : a = Address(t)[s]
    BY <1>3
  <2>2. PICK r \in DOMAIN u : Address(u)[r] = Address(t)[s] /\ u[r].name = t[s].name
    BY <1>1
  <2> QED
    BY <1>3, <1>4, <2>1, <2>2
<1>8. f = e
  BY <1>5, <1>6, <1>7
<1> QED
  BY <1>8 DEF f, e

-----------------------------------------------------------------------------
(***************************************************************************)
(* The invariant.  A group is never cut into nothing, and as long as it    *)
(* has no twins the template of a pass has the slots of its first trace,   *)
(* each with one time of every trace filled in so far.                     *)
(***************************************************************************)
Times(n, v) == [k \in 1..n |-> v]
FilledSlots(structure, n) ==
  [a \in DOMAIN structure |-> [name |-> structure[a], spans |-> Times(n, structure[a])]]

NoTwins == \A i \in DOMAIN group : ~HasTwins(group[i].spans)

GroupInv ==
  /\ group \in Seq(Analysed)
  /\ \A i \in DOMAIN group : group[i].key = group[1].key
  /\ pass \in {"group", "overall", "norm", "tail", "diff", "done"}
  /\ pass # "group" => group # <<>>
  /\ pass \in {"norm", "tail", "diff"} => Len(group) > 1

PassInv ==
  /\ filled \in Nat
  /\ pass \notin Passes => filled = 0
  /\ DOMAIN templates = Passes
  /\ pass = "group" => raised = "" /\ \A p \in Passes : templates[p] = <<>>

\* The passes whose templates are complete.
Full ==
  {p \in Passes : group # <<>> /\ templates[p] = FilledSlots(group[1].structure, Len(TracesOf(p)))}

SlotInv ==
  NoTwins =>
    /\ raised = ""
    /\ filled > 0 => template = FilledSlots(group[1].structure, filled)
    /\ \A p \in Passes : templates[p] = <<>> \/ p \in Full
    /\ pass \in {"tail", "diff"} => "norm" \in Full
    /\ pass = "diff" => "tail" \in Full

LayerInv == GroupInv /\ PassInv /\ SlotInv

\* A trace that is analysed is a tree, kept with what is computed from it.
LEMMA AnalysedIs ==
  ASSUME NEW trace \in Analysed
  PROVE  /\ IsTrace(trace.spans)
         /\ trace.key = Identifier(trace.spans)
         /\ trace.tied = SortRaises(trace.spans)
         /\ trace.structure = Structure(trace.spans)
BY TracesAssumption DEF Analysed

LEMMA OneTimeMore ==
  ASSUME NEW n \in Nat, NEW v
  PROVE  Append(Times(n, v), v) = Times(n + 1, v)
BY DEF Times

LEMMA EmptySlotsAre ==
  ASSUME NEW structure
  PROVE  EmptySlots(structure) = FilledSlots(structure, 0)
<1>1. \A v : Times(0, v) = <<>>
  BY DEF Times
<1> QED
  BY <1>1 DEF EmptySlots, FilledSlots

LEMMA FillingFills ==
  ASSUME NEW structure, NEW n \in Nat
  PROVE  LET slots == FilledSlots(structure, n)
         IN  FilledSlots(structure, n + 1) =
               [a \in DOMAIN slots |-> [slots[a] EXCEPT !.spans = Append(@, structure[a])]]
<1> DEFINE slots == FilledSlots(structure, n)
<1>1. DOMAIN slots = DOMAIN structure
  BY DEF FilledSlots
<1>2. ASSUME NEW a \in DOMAIN structure
      PROVE  [slots[a] EXCEPT !.spans = Append(@, structure[a])]
               = [name |-> structure[a], spans |-> Times(n + 1, structure[a])]
  <2>1. slots[a] = [name |-> structure[a], spans |-> Times(n, structure[a])]
    BY DEF FilledSlots
  <2> HIDE DEF slots
  <2>2. [slots[a] EXCEPT !.spans = Append(@, structure[a])]
          = [name |-> structure[a], spans |-> Append(Times(n, structure[a]), structure[a])]
    BY <2>1
  <2> QED
    BY <2>2, OneTimeMore
<1> HIDE DEF slots
<1> QED
  BY <1>1, <1>2 DEF FilledSlots, slots

\* The addresses on the way to a span are addresses of spans.
LEMMA WaysAreAddresses ==
  ASSUME NEW t, IsTrace(t)
  PROVE  \A s \in DOMAIN t : \A k \in 1..Len(Address(t)[s]) :
            SubSeq(Address(t)[s], 1, k) \in {Address(t)[r] : r \in DOMAIN t}
<1> DEFINE at == Address(t)
           held == {at[r] : r \in DOMAIN t}
           Bad == {s \in DOMAIN t : \E k \in 1..Len(at[s]) : SubSeq(at[s], 1, k) \notin held}
<1>1. SUFFICES ASSUME Bad # {} PROVE FALSE
  OBVIOUS
<1>2. PICK s \in Bad : \A r \in Bad : s <= r
  <2>1. Bad \subseteq Nat
    BY TraceIs
  <2> HIDE DEF Bad
  <2> QED
    BY <1>1, <2>1, LeastOf
<1>3. s \in DOMAIN t /\ s \in Nat
  BY TraceIs
<1>4. PICK k \in 1..Len(at[s]) : SubSeq(at[s], 1, k) \notin held
  OBVIOUS
<1>5. s # 1
  <2>1. at[1] = <<>> /\ Len(<<>>) = 0
    BY AddressIs, EmptySeq
  <2> HIDE DEF at
  <2> QED
    BY <1>4, <2>1
<1> DEFINE p == t[s].parent
<1>6. p \in DOMAIN t /\ p < s /\ p \in Nat
  BY <1>3, <1>5, TraceIs
<1>7. /\ Len(at[p]) \in Nat /\ Len(at[s]) = Len(at[p]) + 1
      /\ \A j \in 1..Len(at[p]) : SubSeq(at[s], 1, j) = SubSeq(at[p], 1, j)
      /\ SubSeq(at[s], 1, Len(at[p]) + 1) = at[s]
  BY <1>3, <1>5, LastOfAddress
<1>8. p \notin Bad
  <2>1. ~(s <= p)
    BY <1>3, <1>6
  <2> HIDE DEF Bad, p
  <2> QED
    BY <1>2, <2>1
<1> HIDE DEF at
<1>9. k \in 1..Len(at[p]) \/ k = Len(at[p]) + 1
  BY <1>4, <1>7
<1> QED
  BY <1>3, <1>4, <1>6, <1>7, <1>8, <1>9

\* The cut into norm and tail: both get a trace of a group that has two.
LEMMA CutIsInside ==
  ASSUME NEW n \in Nat, n > 1
  PROVE  Cutoff(n) \in 1..(n - 1)
BY DEF Cutoff

LEMMA TracesOfPass ==
  ASSUME GroupInv, group # <<>>, NEW p \in Passes
  PROVE  /\ TracesOf(p) \in Seq(Analysed)
         /\ Len(TracesOf(p)) \in Nat
         /\ p = "overall" \/ Len(group) > 1 => TracesOf(p) # <<>>
         /\ \A i \in 1..Len(TracesOf(p)) : \E h \in DOMAIN group : TracesOf(p)[i] = group[h]
<1> DEFINE n == Len(group)
<1>1. group \in Seq(Analysed) /\ n \in Nat /\ n > 0 /\ DOMAIN group = 1..n
  BY LenProperties, EmptySeq DEF GroupInv
<1>2. Cutoff(n) \in 0..n
  BY <1>1 DEF Cutoff
<1>3. CASE p = "overall"
  BY <1>1, <1>3 DEF TracesOf
<1>4. CASE p = "norm"
  <2>1. TracesOf(p) = SubSeq(group, 1, Cutoff(n))
    BY <1>4 DEF TracesOf
  <2>2. \A i \in 1..Cutoff(n) : group[i] \in Analysed
    BY <1>1, <1>2, ElementOfSeq
  <2>3. /\ TracesOf(p) \in Seq(Analysed)
        /\ Len(TracesOf(p)) = Cutoff(n)
        /\ \A i \in 1..Len(TracesOf(p)) : TracesOf(p)[i] = group[i]
    BY <1>1, <1>2, <2>1, <2>2, SubSeqProperties
  <2>4. n > 1 => Len(TracesOf(p)) > 0
    BY <1>1, <2>3, CutIsInside
  <2> QED
    BY <1>1, <1>2, <1>4, <2>3, <2>4
<1>5. CASE p = "tail"
  <2>1. TracesOf(p) = SubSeq(group, Cutoff(n) + 1, n)
    BY <1>5 DEF TracesOf
  <2>2. \A i \in (Cutoff(n) + 1)..n : group[i] \in Analysed
    BY <1>1, <1>2, ElementOfSeq
  <2>3. /\ TracesOf(p) \in Seq(Analysed)
        /\ Len(TracesOf(p)) = n - Cutoff(n)
        /\ \A i \in 1..Len(TracesOf(p)) : TracesOf(p)[i] = group[Cutoff(n) + i]
    BY <1>1, <1>2, <2>1, <2>2, SubSeqProperties
  <2>4. n > 1 => Len(TracesOf(p)) > 0
    BY <1>1, <2>3, CutIsInside
  <2> QED
    BY <1>1, <1>2, <1>5, <2>3, <2>4
<1> QED
  BY <1>3, <1>4, <1>5 DEF Passes

\* In a group without twins every trace sorts, into the slots of the first.
LEMMA TraceOfGroup ==
  ASSUME GroupInv, group # <<>>, NoTwins, NEW p \in Passes, NEW k \in 1..Len(TracesOf(p))
  PROVE  LET trace == TracesOf(p)[k]
         IN  ~trace.tied /\ trace.structure = group[1].structure
<1> DEFINE trace == TracesOf(p)[k]
<1>1. PICK h \in DOMAIN group : trace = group[h]
  BY TracesOfPass
<1>2. group[1] \in Analysed /\ trace \in Analysed /\ 1 \in DOMAIN group
  BY <1>1, LenProperties, EmptySeq, ElementOfSeq DEF GroupInv
<1>3. ~HasTwins(trace.spans) /\ ~HasTwins(group[1].spans)
  BY <1>1, <1>2 DEF NoTwins
<1>4. group[1].key = trace.key
  BY <1>1 DEF GroupInv
<1> HIDE DEF trace
<1>5. trace.structure = group[1].structure
  BY <1>2, <1>3, <1>4, AnalysedIs, GroupHasOneStructure
<1> QED
  BY <1>2, <1>3, <1>5, AnalysedIs, NothingTied DEF trace

\* As long as no pass has begun there is nothing to say of the slots.
NothingFilled ==
  /\ raised = "" /\ filled = 0
  /\ pass \in {"group", "overall"}
  /\ \A p \in Passes : templates[p] = <<>>

LEMMA NothingToSay ==
  /\ NothingFilled => SlotInv
  /\ NothingFilled' => SlotInv'
<1>1. NothingFilled => SlotInv
  <2> SUFFICES ASSUME NothingFilled PROVE SlotInv
    OBVIOUS
  <2>1. filled = 0
    BY DEF NothingFilled
  <2>2. ~(filled > 0)
    BY <2>1
  <2>3. pass = "group" \/ pass = "overall"
    BY DEF NothingFilled
  <2>4. pass \notin {"tail", "diff"} /\ pass # "diff"
    BY <2>3
  <2>5. raised = "" /\ \A p \in Passes : templates[p] = <<>>
    BY DEF NothingFilled
  <2> QED
    BY <2>2, <2>4, <2>5, Zenon DEF SlotInv
<1>2. (NothingFilled => SlotInv)'
  BY <1>1, PTL
<1> QED
  BY <1>1, <1>2

LEMMA LayerInit == Init => LayerInv
<1> SUFFICES ASSUME Init PROVE LayerInv
  OBVIOUS
<1>1. group = <<>> /\ pass = "group" /\ filled = 0 /\ raised = ""
  BY DEF Init
<1>2. DOMAIN templates = Passes /\ \A p \in Passes : templates[p] = <<>>
  BY DEF Init
<1>3. GroupInv
  <2>1. group \in Seq(Analysed) /\ DOMAIN group = {}
    <3>1. <<>> \in Seq(Analysed) /\ Len(<<>>) = 0
      BY EmptySeq
    <3>2. DOMAIN <<>> = 1..Len(<<>>)
      BY <3>1, LenProperties
    <3>3. 1..0 = {}
      OBVIOUS
    <3> QED
      BY <1>1, <3>1, <3>2, <3>3
  <2> QED
    BY <1>1, <2>1 DEF GroupInv
<1>4. PassInv
  BY <1>1, <1>2 DEF PassInv, Passes
<1>5. SlotInv
  BY <1>1, <1>2, NothingToSay DEF NothingFilled
<1> QED
  BY <1>3, <1>4, <1>5 DEF LayerInv

LEMMA GroupTraceKeeps ==
  ASSUME LayerInv, NEW trace \in Analysed, GroupTrace(trace)
  PROVE  LayerInv'
<1>1. /\ pass = "group" /\ raised = "" /\ filled = 0
      /\ group' = Append(group, trace)
      /\ group # <<>> => trace.key = group[1].key
      /\ pass' = pass /\ filled' = filled /\ templates' = templates /\ raised' = raised
  BY DEF GroupTrace, LayerInv, PassInv, Passes
<1>2. /\ group' \in Seq(Analysed) /\ Len(group') = Len(group) + 1 /\ Len(group) \in Nat
      /\ DOMAIN group = 1..Len(group) /\ DOMAIN group' = 1..(Len(group) + 1)
      /\ \A i \in 1..Len(group) : group'[i] = group[i]
      /\ group'[Len(group) + 1] = trace
  <2>1. group \in Seq(Analysed)
    BY DEF LayerInv, GroupInv
  <2>2. Len(group) \in Nat /\ DOMAIN group = 1..Len(group)
    BY <2>1, LenProperties
  <2>3. /\ group' \in Seq(Analysed) /\ Len(group') = Len(group) + 1
        /\ \A i \in 1..Len(group) : group'[i] = group[i]
        /\ group'[Len(group) + 1] = trace
    <3> DEFINE new == Append(group, trace)
    <3>1. /\ new \in Seq(Analysed) /\ Len(new) = Len(group) + 1
          /\ \A i \in 1..Len(group) : new[i] = group[i]
          /\ new[Len(group) + 1] = trace
      BY <2>1, AppendProperties
    <3> HIDE DEF new
    <3>2. group' = new
      BY <1>1 DEF new
    <3> QED
      BY <3>1, <3>2
  <2>4. DOMAIN group' = 1..Len(group')
    BY <2>3, LenProperties
  <2> QED
    BY <2>2, <2>3, <2>4
<1>3. \A i \in DOMAIN group' : group'[i].key = group'[1].key
  <2>1. CASE group = <<>>
    BY <1>2, <2>1
  <2>2. CASE group # <<>>
    <3>1. Len(group) > 0
      BY <2>2, EmptySeq, <1>2 DEF LayerInv, GroupInv
    <3>2. group'[1] = group[1]
      BY <1>2, <3>1
    <3>3. \A i \in 1..Len(group) : group[i].key = group[1].key
      BY <1>2 DEF LayerInv, GroupInv
    <3>4. ASSUME NEW i \in DOMAIN group' PROVE group'[i].key = group[1].key
      <4>1. CASE i \in 1..Len(group)
        BY <1>2, <3>3, <4>1
      <4>2. CASE i = Len(group) + 1
        BY <1>1, <1>2, <2>2, <4>2
      <4> QED
        BY <1>2, <4>1, <4>2
    <3> QED
      BY <3>2, <3>4
  <2> QED
    BY <2>1, <2>2
<1>4. GroupInv'
  BY <1>1, <1>2, <1>3 DEF GroupInv, LayerInv
<1>5. PassInv'
  BY <1>1 DEF PassInv, LayerInv
<1>6. SlotInv'
  <2>1. /\ raised' = "" /\ filled' = 0 /\ pass' \in {"group", "overall"}
        /\ \A p \in Passes : templates'[p] = <<>>
    BY <1>1 DEF PassInv, LayerInv
  <2>2. NothingFilled'
    BY <2>1 DEF NothingFilled
  <2> QED
    BY <2>2, NothingToSay
<1> QED
  BY <1>4, <1>5, <1>6 DEF LayerInv

LEMMA GroupingEndsKeeps == ASSUME LayerInv, GroupingEnds PROVE LayerInv'
<1>1. /\ pass = "group" /\ raised = "" /\ filled = 0 /\ pass' = "overall" /\ group # <<>>
      /\ UNCHANGED <<group, filled, template, templates, raised>>
      /\ \A p \in Passes : templates[p] = <<>>
  BY DEF GroupingEnds, LayerInv, PassInv, Passes
<1>2. GroupInv'
  BY <1>1 DEF GroupInv, LayerInv
<1>3. PassInv'
  BY <1>1 DEF PassInv, LayerInv, Passes
<1>4. SlotInv'
  <2>1. /\ raised' = "" /\ filled' = 0 /\ pass' \in {"group", "overall"}
        /\ \A p \in Passes : templates'[p] = <<>>
    BY <1>1
  <2>2. NothingFilled'
    BY <2>1 DEF NothingFilled
  <2> QED
    BY <2>2, NothingToSay
<1> QED
  BY <1>2, <1>3, <1>4 DEF LayerInv

\* A raise needs twins, whatever raises.
LEMMA RaiseKeeps ==
  ASSUME LayerInv, pass # "group", ~NoTwins, NEW exception, Raise(exception)
  PROVE  LayerInv'
<1>1. UNCHANGED <<group, pass, filled, template, templates>>
  BY DEF Raise
<1>2. GroupInv'
  BY <1>1 DEF GroupInv, LayerInv
<1>3. PassInv'
  BY <1>1 DEF PassInv, LayerInv
<1>4. ~NoTwins'
  BY <1>1 DEF NoTwins
<1> QED
  BY <1>2, <1>3, <1>4 DEF LayerInv, SlotInv

\* A pass of a group without twins is never empty, and its trace never ties.
LEMMA TraceRaisesKeeps == ASSUME LayerInv, TraceRaises PROVE LayerInv'
<1>1. /\ pass \in Passes /\ raised = ""
      /\ TracesOf(pass) # <<>> =>
           filled < Len(TracesOf(pass)) /\ TracesOf(pass)[filled + 1].tied
  BY DEF TraceRaises
<1>2. GroupInv /\ group # <<>> /\ filled \in Nat /\ (pass = "overall" \/ Len(group) > 1)
  BY <1>1 DEF LayerInv, GroupInv, PassInv, Passes
<1>3. TracesOf(pass) # <<>> /\ Len(TracesOf(pass)) \in Nat
  BY <1>1, <1>2, TracesOfPass
<1>4. filled + 1 \in 1..Len(TracesOf(pass))
  <2>1. filled \in Nat /\ Len(TracesOf(pass)) \in Nat /\ filled < Len(TracesOf(pass))
    BY <1>1, <1>2, <1>3
  <2> QED
    BY <2>1
<1>5. ~NoTwins
  BY <1>1, <1>2, <1>3, <1>4, TraceOfGroup
<1>6. \E exception : Raise(exception)
  BY DEF TraceRaises
<1> QED
  BY <1>1, <1>5, <1>6, RaiseKeeps DEF Passes

\* The slots that the template has for the next trace.
LEMMA SlotsOfPass ==
  ASSUME LayerInv, NoTwins, pass \in Passes, filled < Len(TracesOf(pass))
  PROVE  LET trace == TracesOf(pass)[filled + 1]
             first == group[1].structure
         IN  /\ ~trace.tied
             /\ trace.structure = first
             /\ SlotsFor(trace.structure) = FilledSlots(first, filled)
<1> DEFINE trace == TracesOf(pass)[filled + 1]
           first == group[1].structure
<1>1. GroupInv /\ group # <<>> /\ filled \in Nat /\ Len(TracesOf(pass)) \in Nat
  BY TracesOfPass DEF LayerInv, GroupInv, PassInv, Passes
<1>2. filled + 1 \in 1..Len(TracesOf(pass))
  BY <1>1
<1>3. ~trace.tied /\ trace.structure = first
  BY <1>1, <1>2, TraceOfGroup
<1>4. CASE filled = 0
  BY <1>3, <1>4, EmptySlotsAre DEF SlotsFor
<1>5. CASE filled > 0
  <2>1. template = FilledSlots(first, filled)
    BY <1>5 DEF LayerInv, SlotInv
  <2>2. filled # 0
    BY <1>5
  <2> QED
    BY <1>3, <2>1, <2>2 DEF SlotsFor
<1> QED
  BY <1>1, <1>3, <1>4, <1>5

LEMMA TraceDoesNotFitKeeps == ASSUME LayerInv, TraceDoesNotFit PROVE LayerInv'
<1> DEFINE trace == TracesOf(pass)[filled + 1]
<1>1. /\ pass \in Passes /\ filled < Len(TracesOf(pass))
      /\ ~Fits(trace.structure)
      /\ Raise("AssertionError")
  BY DEF TraceDoesNotFit
<1>2. ~NoTwins
  <2> SUFFICES ASSUME NoTwins PROVE FALSE
    OBVIOUS
  <2> DEFINE slots == SlotsFor(trace.structure)
  <2>1. trace.structure = group[1].structure
        /\ slots = FilledSlots(group[1].structure, filled)
    BY <1>1, SlotsOfPass
  <2>2. DOMAIN slots = DOMAIN trace.structure
    BY <2>1 DEF FilledSlots
  <2> HIDE DEF slots, trace
  <2>3. \A a : Arity(slots, a) = Arity(trace.structure, a)
    BY <2>2 DEF Arity
  <2> QED
    BY <1>1, <2>3 DEF Fits, slots
<1> QED
  BY <1>1, <1>2, RaiseKeeps DEF Passes

LEMMA FillTraceKeeps == ASSUME LayerInv, FillTrace PROVE LayerInv'
<1> DEFINE trace == TracesOf(pass)[filled + 1]
           first == group[1].structure
           slots == SlotsFor(trace.structure)
<1>1. /\ pass \in Passes /\ raised = "" /\ filled < Len(TracesOf(pass))
      /\ template' = [a \in DOMAIN slots |->
                        [slots[a] EXCEPT !.spans = Append(@, trace.structure[a])]]
      /\ filled' = filled + 1
      /\ UNCHANGED <<group, pass, templates, raised>>
  BY DEF FillTrace
<1>2. GroupInv'
  BY <1>1 DEF GroupInv, LayerInv
<1>3. PassInv'
  <2>1. filled' \in Nat
    <3>1. filled \in Nat /\ filled' = filled + 1
      BY <1>1 DEF PassInv, LayerInv
    <3> QED
      BY <3>1
  <2>2. pass' \in Passes /\ pass' # "group"
    BY <1>1 DEF Passes
  <2>3. DOMAIN templates' = Passes
    BY <1>1 DEF PassInv, LayerInv
  <2> QED
    BY <2>1, <2>2, <2>3 DEF PassInv
<1>4. ASSUME NoTwins PROVE template' = FilledSlots(first, filled')
  <2>1. trace.structure = first /\ slots = FilledSlots(first, filled)
    BY <1>1, <1>4, SlotsOfPass
  <2>2. filled \in Nat
    BY DEF LayerInv, PassInv
  <2> HIDE DEF slots, trace, first
  <2>3. FilledSlots(first, filled + 1) =
          [a \in DOMAIN slots |-> [slots[a] EXCEPT !.spans = Append(@, first[a])]]
    BY <2>1, <2>2, FillingFills
  <2> QED
    BY <1>1, <2>1, <2>3
<1>5. SlotInv'
  <2> SUFFICES ASSUME NoTwins'
               PROVE  /\ raised' = ""
                      /\ template' = FilledSlots(group'[1].structure, filled')
                      /\ \A p \in Passes : templates'[p] = <<>> \/ p \in Full'
                      /\ pass' \in {"tail", "diff"} => "norm" \in Full'
                      /\ pass' = "diff" => "tail" \in Full'
    BY DEF SlotInv
  <2>1. NoTwins
    BY <1>1 DEF NoTwins
  <2>2. \A p : TracesOf(p)' = TracesOf(p)
    BY <1>1 DEF TracesOf
  <2>3. \A p \in Passes : p \in Full' <=> p \in Full
    BY <1>1, <2>2 DEF Full
  <2> QED
    <3>1. /\ \A p \in Passes : templates[p] = <<>> \/ p \in Full
          /\ pass \in {"tail", "diff"} => "norm" \in Full
          /\ pass = "diff" => "tail" \in Full
      BY <2>1, Zenon DEF LayerInv, SlotInv
    <3>2. templates' = templates /\ pass' = pass /\ raised' = ""
      BY <1>1
    <3>3. "norm" \in Passes /\ "tail" \in Passes
      BY DEF Passes
    <3>4. group' = group
      BY <1>1
    <3>5. template' = FilledSlots(group'[1].structure, filled')
      BY <1>4, <2>1, <3>4
    <3> QED
      BY <2>3, <3>1, <3>2, <3>3, <3>5, Zenon
<1> QED
  BY <1>2, <1>3, <1>5 DEF LayerInv
LEMMA PassEndsKeeps == ASSUME LayerInv, PassEnds PROVE LayerInv'
<1>1. /\ pass \in Passes /\ raised = ""
      /\ filled > 0 /\ filled = Len(TracesOf(pass))
      /\ templates' = [templates EXCEPT ![pass] = template]
      /\ pass' = After(pass)
      /\ filled' = 0
      /\ group' = group /\ raised' = raised
  BY DEF PassEnds
<1>2. /\ group \in Seq(Analysed) /\ group # <<>> /\ Len(group) \in Nat /\ Len(group) > 0
      /\ pass \in {"norm", "tail"} => Len(group) > 1
  <2>1. group \in Seq(Analysed) /\ group # <<>> /\ (pass \in {"norm", "tail"} => Len(group) > 1)
    BY <1>1 DEF LayerInv, GroupInv, Passes
  <2> QED
    BY <2>1, LenProperties, EmptySeq
<1>3. /\ pass = "overall" => pass' = "done" \/ (pass' = "norm" /\ Len(group) # 1)
      /\ pass = "norm" => pass' = "tail"
      /\ pass = "tail" => pass' = "diff"
  <2>1. \A p : After(p) = [overall |-> IF Len(group) = 1 THEN "done" ELSE "norm",
                          norm |-> "tail", tail |-> "diff"][p]
    BY DEF After
  <2>2. CASE pass = "overall"
    <3>1. pass' = IF Len(group) = 1 THEN "done" ELSE "norm"
      BY <1>1, <2>1, <2>2
    <3> QED
      BY <2>2, <3>1
  <2>3. CASE pass = "norm"
    BY <1>1, <2>1, <2>3
  <2>4. CASE pass = "tail"
    BY <1>1, <2>1, <2>4
  <2> QED
    BY <2>2, <2>3, <2>4
<1>4. GroupInv'
  <2>0. pass = "overall" \/ pass = "norm" \/ pass = "tail"
    BY <1>1 DEF Passes
  <2>1. pass' \in {"norm", "tail", "diff", "done"}
    BY <1>3, <2>0
  <2>2. pass' \in {"norm", "tail", "diff"} => Len(group') > 1
    <3>1. Len(group) # 1 => Len(group) > 1
      BY <1>2
    <3>2. CASE pass = "overall"
      <4>1. pass' \in {"norm", "tail", "diff"} => Len(group) # 1
        BY <1>3, <3>2
      <4> QED
        BY <1>1, <3>1, <4>1
    <3>3. CASE pass \in {"norm", "tail"}
      BY <1>1, <1>2, <3>3
    <3> QED
      BY <2>0, <3>2, <3>3
  <2>3. /\ group' \in Seq(Analysed)
        /\ \A i \in DOMAIN group' : group'[i].key = group'[1].key
        /\ group' # <<>>
    BY <1>1, <1>2 DEF LayerInv, GroupInv
  <2> QED
    BY <2>1, <2>2, <2>3 DEF GroupInv
<1>5. DOMAIN templates = Passes /\ DOMAIN templates' = Passes
  BY <1>1 DEF LayerInv, PassInv
<1>6. PassInv'
  <2>1. pass' # "group"
    BY <1>1, <1>3 DEF Passes
  <2> QED
    BY <1>1, <1>5, <2>1 DEF PassInv
<1>7. SlotInv'
  <2> SUFFICES ASSUME NoTwins' PROVE
          /\ raised' = ""
          /\ ~(filled' > 0)
          /\ \A p \in Passes : templates'[p] = <<>> \/ p \in Full'
          /\ pass' \in {"tail", "diff"} => "norm" \in Full'
          /\ pass' = "diff" => "tail" \in Full'
    BY Zenon DEF SlotInv
  <2>1. NoTwins
    BY <1>1 DEF NoTwins
  <2>2. \A p : TracesOf(p)' = TracesOf(p)
    BY <1>1 DEF TracesOf
  <2>3. ASSUME NEW p \in Passes, p = pass PROVE p \in Full'
    <3>1. template = FilledSlots(group[1].structure, Len(TracesOf(p)))
      BY <1>1, <2>1, <2>3 DEF LayerInv, SlotInv
    <3>2. templates'[p] = template
      BY <1>1, <1>5, <2>3
    <3>3. templates'[p] = FilledSlots(group'[1].structure, Len(TracesOf(p)'))
      BY <1>1, <2>2, <3>1, <3>2
    <3> QED
      BY <1>1, <1>2, <3>3 DEF Full
  <2>4. ASSUME NEW p \in Passes, p # pass PROVE p \in Full => p \in Full'
    <3>1. templates'[p] = templates[p]
      BY <1>1, <1>5, <2>4
    <3> QED
      BY <1>1, <2>2, <3>1 DEF Full
  <2>5. \A p \in Passes : templates'[p] = <<>> \/ p \in Full'
    <3> SUFFICES ASSUME NEW p \in Passes PROVE templates'[p] = <<>> \/ p \in Full'
      OBVIOUS
    <3>1. CASE p = pass
      BY <2>3, <3>1
    <3>2. CASE p # pass
      <4>1. templates[p] = <<>> \/ p \in Full
        BY <2>1 DEF LayerInv, SlotInv
      <4>2. templates'[p] = templates[p]
        BY <1>1, <1>5, <3>2
      <4> QED
        BY <2>4, <3>2, <4>1, <4>2
    <3> QED
      BY <3>1, <3>2
  <2>6. pass' \in {"tail", "diff"} => "norm" \in Full'
    <3>1. CASE pass = "norm"
      BY <2>3, <3>1 DEF Passes
    <3>2. CASE pass = "tail"
      <4>1. "norm" \in Full
        BY <2>1, <3>2 DEF LayerInv, SlotInv
      <4> QED
        BY <2>4, <3>2, <4>1 DEF Passes
    <3>3. CASE pass = "overall"
      BY <1>3, <3>3
    <3> QED
      BY <1>1, <3>1, <3>2, <3>3 DEF Passes
  <2>7. pass' = "diff" => "tail" \in Full'
    <3>1. CASE pass = "tail"
      BY <2>3, <3>1 DEF Passes
    <3>2. CASE pass # "tail"
      BY <1>1, <1>3, <3>2 DEF Passes
    <3> QED
      BY <3>1, <3>2
  <2>8. filled' = 0
    BY <1>1
  <2>9. ~(filled' > 0)
    BY <2>8
  <2>10. raised' = ""
    BY <1>1
  <2> QED
    BY <2>5, <2>6, <2>7, <2>9, <2>10
<1> QED
  BY <1>4, <1>6, <1>7 DEF LayerInv

\* Norm and tail have one structure, and the index finds its slots.
LEMMA DiffOfOneStructure ==
  ASSUME LayerInv, NoTwins, pass = "diff", NEW index
  PROVE  ~DiffRaises(index)
<1> DEFINE first == group[1].structure
           norm == templates["norm"]
           tail == templates["tail"]
           m == Len(TracesOf("norm"))
           n == Len(TracesOf("tail"))
<1>1. PICK t : IsTrace(t) /\ ~HasTwins(t) /\ first = Structure(t)
  <2>1. group \in Seq(Analysed) /\ group # <<>>
    BY DEF LayerInv, GroupInv
  <2>2. 1 \in 1..Len(group) /\ DOMAIN group = 1..Len(group)
    BY <2>1, LenProperties, EmptySeq
  <2>3. group[1] \in Analysed /\ ~HasTwins(group[1].spans)
    BY <2>1, <2>2, ElementOfSeq DEF NoTwins
  <2> QED
    BY <2>3, AnalysedIs
<1>2. norm = FilledSlots(first, m) /\ tail = FilledSlots(first, n)
  BY DEF LayerInv, SlotInv, Full
<1>3. /\ DOMAIN norm = DOMAIN first /\ DOMAIN tail = DOMAIN first
      /\ \A a \in DOMAIN first : norm[a].name = first[a] /\ tail[a].name = first[a]
  BY <1>2 DEF FilledSlots
<1>4. /\ DOMAIN first = {Address(t)[s] : s \in DOMAIN t}
      /\ <<>> \in DOMAIN first
      /\ IsFiniteSet(DOMAIN first)
  BY <1>1, StructureIs
<1> HIDE DEF first, norm, tail, m, n
<1>5. norm[<<>>].name = tail[<<>>].name
  BY <1>3, <1>4
<1>6. ASSUME NEW a \in DOMAIN norm, NEW b \in DOMAIN tail, Compared(index, a, b)
      PROVE  ~(Arity(tail, b) > Arity(norm, a))
  <2>1. PICK s \in DOMAIN t, r \in DOMAIN t : a = Address(t)[s] /\ b = Address(t)[r]
    BY <1>3, <1>4
  <2>2. SameWay(first, a, b)
    <3>1. Len(a) = Len(b)
      BY <1>6 DEF Compared
    <3>2. ASSUME NEW k \in 1..Len(a)
          PROVE  first[SubSeq(a, 1, k)] = first[SubSeq(b, 1, k)]
      <4>1. norm[SubSeq(a, 1, k)].name = tail[SubSeq(b, 1, k)].name
        BY <1>6 DEF Compared, norm, tail
      <4>2. SubSeq(a, 1, k) \in DOMAIN first /\ SubSeq(b, 1, k) \in DOMAIN first
        <5>1. k \in 1..Len(b)
          BY <3>1
        <5> QED
          BY <1>1, <1>4, <2>1, <5>1, WaysAreAddresses
      <4> QED
        BY <1>3, <4>1, <4>2
    <3> QED
      BY <3>1, <3>2 DEF SameWay
  <2>3. a = b
    BY <1>1, <2>1, <2>2, WaysDiffer
  <2>4. Arity(tail, b) = Arity(norm, a)
    BY <1>3, <2>3 DEF Arity
  <2>5. Arity(norm, a) \in Nat
    <3> DEFINE below == {c \in DOMAIN norm : Len(c) = Len(a) + 1 /\ SubSeq(c, 1, Len(a)) = a}
    <3>1. IsFiniteSet(below)
      <4>1. below \in SUBSET DOMAIN norm
        OBVIOUS
      <4> QED
        BY <1>3, <1>4, <4>1, FS_Subset
    <3>2. Cardinality(below) \in Nat
      BY <3>1, FS_CardinalityType
    <3> QED
      BY <3>2 DEF Arity
  <2>6. \A x, y : x = y /\ y \in Nat => ~(x > y)
    OBVIOUS
  <2> QED
    BY <2>4, <2>5, <2>6, Zenon
<1> QED
  BY <1>5, <1>6 DEF DiffRaises, norm, tail

LEMMA CalcDiffRaisesKeeps == ASSUME LayerInv, CalcDiffRaises PROVE LayerInv'
<1>1. /\ pass = "diff"
      /\ \E index \in Indexes : DiffRaises(index)
      /\ \E exception : Raise(exception)
  BY DEF CalcDiffRaises
<1>2. ~NoTwins
  BY <1>1, DiffOfOneStructure
<1> QED
  BY <1>1, <1>2, RaiseKeeps

LEMMA CalcDiffKeeps == ASSUME LayerInv, CalcDiff PROVE LayerInv'
<1>1. /\ pass = "diff" /\ raised = "" /\ pass' = "done" /\ filled = 0
      /\ group' = group /\ filled' = filled /\ template' = template
      /\ templates' = templates /\ raised' = raised
  BY DEF CalcDiff, LayerInv, PassInv, Passes
<1>2. GroupInv'
  BY <1>1 DEF LayerInv, GroupInv
<1>3. PassInv'
  BY <1>1 DEF LayerInv, PassInv
<1>4. SlotInv'
  <2> SUFFICES ASSUME NoTwins'
               PROVE  /\ raised' = "" /\ ~(filled' > 0)
                      /\ \A p \in Passes : templates'[p] = <<>> \/ p \in Full'
                      /\ pass' \notin {"tail", "diff"} /\ pass' # "diff"
    BY Zenon DEF SlotInv
  <2>1. NoTwins
    BY <1>1 DEF NoTwins
  <2>2. \A p \in Passes : p \in Full' <=> p \in Full
    BY <1>1 DEF Full, TracesOf
  <2>3. \A p \in Passes : templates[p] = <<>> \/ p \in Full
    BY <2>1 DEF LayerInv, SlotInv
  <2>4. raised' = "" /\ pass' = "done"
    BY <1>1
  <2>5. ~(filled' > 0)
    <3>1. filled' = 0
      BY <1>1
    <3> QED
      BY <3>1
  <2>6. pass' \notin {"tail", "diff"} /\ pass' # "diff"
    BY <2>4
  <2> QED
    BY <1>1, <2>2, <2>3, <2>4, <2>5, <2>6
<1> QED
  BY <1>2, <1>3, <1>4 DEF LayerInv

LEMMA NothingChanges == ASSUME LayerInv, UNCHANGED diffVars PROVE LayerInv'
<1>1. /\ group' = group /\ pass' = pass /\ filled' = filled /\ template' = template
      /\ templates' = templates /\ raised' = raised
  BY DEF diffVars
<1>2. GroupInv' /\ PassInv'
  BY <1>1 DEF LayerInv, GroupInv, PassInv
<1>3. (NoTwins' <=> NoTwins) /\ \A p \in Passes : p \in Full' <=> p \in Full
  BY <1>1 DEF NoTwins, Full, TracesOf
<1>4. SlotInv'
  <2> SUFFICES ASSUME NoTwins'
               PROVE  /\ raised' = ""
                      /\ filled' > 0 => template' = FilledSlots(group'[1].structure, filled')
                      /\ \A p \in Passes : templates'[p] = <<>> \/ p \in Full'
                      /\ pass' \in {"tail", "diff"} => "norm" \in Full'
                      /\ pass' = "diff" => "tail" \in Full'
    BY DEF SlotInv
  <2>1. /\ raised = ""
        /\ filled > 0 => template = FilledSlots(group[1].structure, filled)
        /\ \A p \in Passes : templates[p] = <<>> \/ p \in Full
        /\ pass \in {"tail", "diff"} => "norm" \in Full
        /\ pass = "diff" => "tail" \in Full
    BY <1>3 DEF LayerInv, SlotInv
  <2>2. "norm" \in Passes /\ "tail" \in Passes
    BY DEF Passes
  <2> QED
    BY <1>1, <1>3, <2>1, <2>2, Zenon
<1> QED
  BY <1>2, <1>4 DEF LayerInv

LEMMA LayerStep == LayerInv /\ [Next]_diffVars => LayerInv'
BY GroupTraceKeeps, GroupingEndsKeeps, TraceRaisesKeeps, TraceDoesNotFitKeeps, FillTraceKeeps,
   PassEndsKeeps, CalcDiffRaisesKeeps, CalcDiffKeeps, NothingChanges DEF Next

\* Whatever raises in layer 3, a span of the group calls one operation twice.
\* A slot of the template of such a group may then stand for another call than
\* the one it is filled with; otherwise the sort, the template, its assertion,
\* the cut and the index of the difference all work, for traces of any size and
\* depth, in groups of any size (analyze_child_diffs.py:79-169).
THEOREM RaisesNeedTwins == Spec => []RaisesOnlyForTwins
<1>1. LayerInv => RaisesOnlyForTwins
  BY DEF LayerInv, SlotInv, NoTwins, RaisesOnlyForTwins
<1> QED
  BY <1>1, LayerInit, LayerStep, PTL DEF Spec

\* Without such calls the times in a slot are those of one call, one of each
\* trace of the pass, at every depth of the template.
THEOREM SlotsHoldOneCall == Spec => []OneCallPerSlot
<1>1. ASSUME LayerInv, NoTwins, NEW p \in Passes, NEW a \in DOMAIN templates[p]
      PROVE  templates[p][a].spans = [k \in 1..Len(TracesOf(p)) |-> templates[p][a].name]
  <2>1. p \in Full
    <3>1. templates[p] = <<>> \/ p \in Full
      BY <1>1 DEF LayerInv, SlotInv
    <3>2. templates[p] # <<>>
      <4>1. DOMAIN <<>> = {}
        OBVIOUS
      <4> QED
        BY <4>1
    <3> QED
      BY <3>1, <3>2
  <2> DEFINE first == group[1].structure
             n == Len(TracesOf(p))
  <2>2. templates[p] = FilledSlots(first, n)
    BY <2>1 DEF Full
  <2> HIDE DEF first, n
  <2>3. a \in DOMAIN first
    BY <1>1, <2>2 DEF FilledSlots
  <2>4. templates[p][a] = [name |-> first[a], spans |-> Times(n, first[a])]
    BY <2>2, <2>3 DEF FilledSlots
  <2> QED
    BY <2>4 DEF Times, n
<1>2. LayerInv => OneCallPerSlot
  BY <1>1 DEF NoTwins, OneCallPerSlot
<1> QED
  BY <1>2, LayerInit, LayerStep, PTL DEF Spec
=============================================================================
