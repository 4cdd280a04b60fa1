--------------------------- MODULE SubspansProofs ---------------------------
(***************************************************************************)
(* Proofs about layer 4 and its replay, for any number of callees and any  *)
(* size of a group.                                                        *)
(***************************************************************************)
EXTENDS Subspans, TLAPS, FiniteSetTheorems, FunctionTheorems, SequenceTheorems,
        WellFoundedInduction

-----------------------------------------------------------------------------
(***************************************************************************)
(* Places in a linear order: how many elements are below one.              *)
(***************************************************************************)
Below(R, S, x) == {y \in S : <<y, x>> \in R}

LinearOrder(R, S) ==
  /\ \A x \in S : <<x, x>> \notin R
  /\ \A x, y, z \in S : <<x, y>> \in R /\ <<y, z>> \in R => <<x, z>> \in R
  /\ \A x, y \in S : x = y \/ <<x, y>> \in R \/ <<y, x>> \in R

\* Of two elements the lower one has fewer below it.
LEMMA BelowGrows ==
  ASSUME NEW S, IsFiniteSet(S), NEW R, LinearOrder(R, S),
         NEW x \in S, NEW y \in S, <<x, y>> \in R
  PROVE  Cardinality(Below(R, S, x)) < Cardinality(Below(R, S, y))
<1>1. /\ Below(R, S, x) \in SUBSET Below(R, S, y)
      /\ x \in Below(R, S, y) /\ x \notin Below(R, S, x)
  BY DEF Below, LinearOrder
<1>2. IsFiniteSet(Below(R, S, y)) /\ IsFiniteSet(Below(R, S, x))
  BY FS_Subset DEF Below
<1>3. /\ Cardinality(Below(R, S, x)) <= Cardinality(Below(R, S, y))
      /\ Cardinality(Below(R, S, x)) # Cardinality(Below(R, S, y))
  BY <1>1, <1>2, FS_Subset
<1>4. Cardinality(Below(R, S, x)) \in Nat /\ Cardinality(Below(R, S, y)) \in Nat
  BY <1>2, FS_CardinalityType
<1> QED
  BY <1>3, <1>4

\* The places are 0, 1, ... without a gap, each of one element.
LEMMA Places ==
  ASSUME NEW S, IsFiniteSet(S), NEW R, LinearOrder(R, S)
  PROVE  /\ Cardinality(S) \in Nat
         /\ \A x \in S : Cardinality(Below(R, S, x)) \in 0..(Cardinality(S) - 1)
         /\ \A x, y \in S :
              <<x, y>> \in R <=> Cardinality(Below(R, S, x)) < Cardinality(Below(R, S, y))
         /\ \A x, y \in S :
              Cardinality(Below(R, S, x)) = Cardinality(Below(R, S, y)) => x = y
         /\ \A k \in 1..Cardinality(S) : \E x \in S : Cardinality(Below(R, S, x)) = k - 1
<1> DEFINE n == Cardinality(S)
           place == [x \in S |-> Cardinality(Below(R, S, x)) + 1]
<1>1. n \in Nat
  BY FS_CardinalityType
<1>2. ASSUME NEW x \in S
      PROVE  Cardinality(Below(R, S, x)) \in 0..(n - 1)
  <2>1. Below(R, S, x) \in SUBSET S /\ x \notin Below(R, S, x)
    BY DEF Below, LinearOrder
  <2>2. /\ IsFiniteSet(Below(R, S, x))
        /\ Cardinality(Below(R, S, x)) <= n
        /\ Cardinality(Below(R, S, x)) # n
    BY <2>1, FS_Subset
  <2>3. Cardinality(Below(R, S, x)) \in Nat
    BY <2>2, FS_CardinalityType
  <2> QED
    BY <1>1, <2>2, <2>3
<1>3. ASSUME NEW x \in S, NEW y \in S
      PROVE  /\ <<x, y>> \in R <=> Cardinality(Below(R, S, x)) < Cardinality(Below(R, S, y))
             /\ Cardinality(Below(R, S, x)) = Cardinality(Below(R, S, y)) => x = y
  <2>1. x = y \/ <<x, y>> \in R \/ <<y, x>> \in R
    BY DEF LinearOrder
  <2>2. /\ Cardinality(Below(R, S, x)) \in 0..(n - 1)
        /\ Cardinality(Below(R, S, y)) \in 0..(n - 1)
    BY <1>2
  <2>3. <<x, y>> \in R => Cardinality(Below(R, S, x)) < Cardinality(Below(R, S, y))
    BY BelowGrows
  <2>4. <<y, x>> \in R => Cardinality(Below(R, S, y)) < Cardinality(Below(R, S, x))
    BY BelowGrows
  <2>5. x = y => <<x, y>> \notin R
    BY DEF LinearOrder
  <2> QED
    BY <1>1, <2>1, <2>2, <2>3, <2>4, <2>5
<1>4. place \in Injection(S, 1..n)
  <2>1. place \in [S -> 1..n]
    BY <1>1, <1>2
  <2>2. ASSUME NEW x \in S, NEW y \in S, place[x] = place[y] PROVE x = y
    <3>1. /\ Cardinality(Below(R, S, x)) \in 0..(n - 1)
          /\ Cardinality(Below(R, S, y)) \in 0..(n - 1)
      BY <1>2
    <3>2. Cardinality(Below(R, S, x)) + 1 = Cardinality(Below(R, S, y)) + 1
      BY <2>2
    <3>3. Cardinality(Below(R, S, x)) = Cardinality(Below(R, S, y))
      BY <1>1, <3>1, <3>2
    <3> QED
      BY <1>3, <3>3
  <2> QED
    BY <2>1, <2>2, Fun_IsInj
<1>5. IsFiniteSet(1..n) /\ Cardinality(1..n) = n
  BY <1>1, FS_Interval
<1>6. place \in Surjection(S, 1..n)
  BY <1>4, <1>5, FS_Injection
<1>7. ASSUME NEW k \in 1..n PROVE \E x \in S : Cardinality(Below(R, S, x)) = k - 1
  <2>1. PICK x \in S : place[x] = k
    BY <1>6 DEF Surjection
  <2>2. Cardinality(Below(R, S, x)) \in 0..(n - 1)
    BY <1>2
  <2>3. Cardinality(Below(R, S, x)) + 1 = k
    BY <2>1
  <2> QED
    BY <1>1, <2>2, <2>3
<1> QED
  BY <1>1, <1>2, <1>3, <1>7

-----------------------------------------------------------------------------
(***************************************************************************)
(* The sorted arrows of a span.                                            *)
(***************************************************************************)
Callees == 1..NumCallees
BeforeIn(sp) == {p \in ArrowsOf(sp) \X ArrowsOf(sp) : Before(p[1], p[2])}

\* The place of an arrow among the arrows of its span.
Pos(sp, a) == Cardinality({b \in ArrowsOf(sp) : Before(b, a)}) + 1

LEMMA SpanIs ==
  ASSUME NEW sp \in SpanSet
  PROVE  /\ sp.start = 1 /\ sp.end \in Nat /\ sp.start <= sp.end
         /\ DOMAIN sp.callees = Callees
         /\ \A c \in Callees : /\ sp.callees[c].start \in Nat /\ sp.callees[c].end \in Nat
                               /\ 1 <= sp.callees[c].start
                               /\ sp.callees[c].start <= sp.callees[c].end
<1>1. sp.start = 1 /\ sp.end \in 1..MaxTime /\ sp.start <= sp.end
      /\ sp.callees \in [Callees -> Interval]
  BY SMT DEF SpanSet, Callees
<1>2. \A i \in Interval : i.start \in 1..MaxTime /\ i.end \in 1..MaxTime /\ i.start <= i.end
  BY SMT DEF Interval
<1> QED
  BY <1>1, <1>2, SizesAssumption

LEMMA ArrowFields ==
  ASSUME NEW sp \in SpanSet
  PROVE  /\ Begin(sp) = Arrow("begin", Self, 1)
         /\ Terminate(sp) = Arrow("terminate", Self, sp.end)
         /\ \A c \in Callees :
              /\ Forward(sp, c) = Arrow("forward", c, sp.callees[c].start)
              /\ Receive(sp, c) = Arrow("receive", c, sp.callees[c].end)
              /\ c \in Int /\ c # Self
         /\ ArrowsOf(sp) = {Begin(sp), Terminate(sp)} \cup {Forward(sp, c) : c \in Callees}
                              \cup {Receive(sp, c) : c \in Callees}
         /\ \A x, y, z : /\ Arrow(x, y, z).superscript = x
                         /\ Arrow(x, y, z).name = y
                         /\ Arrow(x, y, z).time = z
<1>1. \A c \in Callees : c \in Int /\ c # Self
  BY SizesAssumption DEF Callees, Self
<1> QED
  BY <1>1, SpanIs DEF Begin, Terminate, Forward, Receive, Arrow, ArrowsOf

LEMMA ArrowIs ==
  ASSUME NEW sp \in SpanSet, NEW a \in ArrowsOf(sp)
  PROVE  /\ a.time \in Nat /\ a.name \in Int
         /\ a.superscript \in {"begin", "forward", "receive", "terminate"}
         /\ a.superscript = "begin" => a = Begin(sp)
         /\ a.superscript = "terminate" => a = Terminate(sp)
         /\ a.superscript = "forward" => \E c \in Callees : a = Forward(sp, c)
         /\ a.superscript = "receive" => \E c \in Callees : a = Receive(sp, c)
         /\ a = Arrow(a.superscript, a.name, a.time)
<1>1. CASE a = Begin(sp)
  BY <1>1, ArrowFields DEF Self
<1>2. CASE a = Terminate(sp)
  BY <1>2, SpanIs, ArrowFields DEF Self
<1>3. CASE \E c \in Callees : a = Forward(sp, c)
  <2>1. PICK c \in Callees : a = Forward(sp, c)
    BY <1>3
  <2> QED
    BY <2>1, SpanIs, ArrowFields
<1>4. CASE \E c \in Callees : a = Receive(sp, c)
  <2>1. PICK c \in Callees : a = Receive(sp, c)
    BY <1>4
  <2> QED
    BY <2>1, SpanIs, ArrowFields
<1> QED
  BY <1>1, <1>2, <1>3, <1>4, ArrowFields

LEMMA ArrowsFinite ==
  ASSUME NEW sp \in SpanSet
  PROVE  IsFiniteSet(ArrowsOf(sp))
<1>1. IsFiniteSet(Callees)
  BY SizesAssumption, FS_Interval DEF Callees
<1>2. IsFiniteSet({Forward(sp, c) : c \in Callees}) /\ IsFiniteSet({Receive(sp, c) : c \in Callees})
  <2>1. [c \in Callees |-> Forward(sp, c)] \in Surjection(Callees, {Forward(sp, c) : c \in Callees})
    BY Fun_IsSurj
  <2>2. [c \in Callees |-> Receive(sp, c)] \in Surjection(Callees, {Receive(sp, c) : c \in Callees})
    BY Fun_IsSurj
  <2> QED
    BY <1>1, <2>1, <2>2, FS_Surjection
<1>3. IsFiniteSet({Begin(sp), Terminate(sp)})
  <2>1. IsFiniteSet({} \cup {Begin(sp)})
    BY FS_EmptySet, FS_AddElement
  <2>2. IsFiniteSet(({} \cup {Begin(sp)}) \cup {Terminate(sp)})
    BY <2>1, FS_AddElement
  <2>3. {Begin(sp), Terminate(sp)} = ({} \cup {Begin(sp)}) \cup {Terminate(sp)}
    OBVIOUS
  <2> QED
    BY <2>2, <2>3
<1> QED
  BY <1>2, <1>3, FS_Union, SpanIs DEF ArrowsOf

LEMMA ArrowsOrdered ==
  ASSUME NEW sp \in SpanSet
  PROVE  LinearOrder(BeforeIn(sp), ArrowsOf(sp))
<1> DEFINE A == ArrowsOf(sp)
<1>0. \A a, b \in A : <<a, b>> \in BeforeIn(sp) <=> Before(a, b)
  BY DEF BeforeIn
<1>1. \A a \in A : Rank[a.superscript] \in Nat
  BY ArrowIs DEF Rank
<1>2. \A a \in A : ~Before(a, a)
  BY <1>1, ArrowIs DEF Before
<1>3. ASSUME NEW a \in A, NEW b \in A, NEW c \in A, Before(a, b), Before(b, c)
      PROVE  Before(a, c)
  <2>1. /\ a.time \in Nat /\ b.time \in Nat /\ c.time \in Nat
        /\ a.name \in Int /\ b.name \in Int /\ c.name \in Int
        /\ Rank[a.superscript] \in Nat /\ Rank[b.superscript] \in Nat
        /\ Rank[c.superscript] \in Nat
    BY <1>1, ArrowIs
  <2> HIDE DEF A
  <2> QED
    BY <1>3, <2>1, SMT DEF Before
<1>4. ASSUME NEW a \in A, NEW b \in A PROVE a = b \/ Before(a, b) \/ Before(b, a)
  <2>1. /\ a.time \in Nat /\ b.time \in Nat /\ a.name \in Int /\ b.name \in Int
        /\ Rank[a.superscript] \in Nat /\ Rank[b.superscript] \in Nat
    BY <1>1, ArrowIs
  <2>2. Rank[a.superscript] = Rank[b.superscript] => a.superscript = b.superscript
    BY ArrowIs DEF Rank
  <2>3. a = Arrow(a.superscript, a.name, a.time) /\ b = Arrow(b.superscript, b.name, b.time)
    BY ArrowIs
  <2> QED
    BY <2>1, <2>2, <2>3 DEF Before
<1> QED
  BY <1>0, <1>2, <1>3, <1>4 DEF LinearOrder

\* Each arrow stands at its place, and the places are ordered as the arrows.
LEMMA ArrowsSorted ==
  ASSUME NEW sp \in SpanSet
  PROVE  LET s == SortedArrows(sp)
             n == Cardinality(ArrowsOf(sp))
         IN  /\ n \in Nat /\ DOMAIN s = 1..n
             /\ \A k \in 1..n : s[k] \in ArrowsOf(sp) /\ Pos(sp, s[k]) = k
             /\ \A a \in ArrowsOf(sp) : Pos(sp, a) \in 1..n /\ s[Pos(sp, a)] = a
             /\ \A a, b \in ArrowsOf(sp) : Before(a, b) <=> Pos(sp, a) < Pos(sp, b)
<1> DEFINE A == ArrowsOf(sp)
           R == BeforeIn(sp)
           n == Cardinality(A)
           s == SortedArrows(sp)
<1>1. IsFiniteSet(A) /\ LinearOrder(R, A)
  BY ArrowsFinite, ArrowsOrdered
<1>2. \A a \in A : Below(R, A, a) = {b \in A : Before(b, a)}
  BY DEF Below, BeforeIn
<1> HIDE DEF R
<1>3. /\ n \in Nat
      /\ \A a \in A : Cardinality(Below(R, A, a)) \in 0..(n - 1)
      /\ \A a, b \in A : <<a, b>> \in R <=> Cardinality(Below(R, A, a)) < Cardinality(Below(R, A, b))
      /\ \A a, b \in A : Cardinality(Below(R, A, a)) = Cardinality(Below(R, A, b)) => a = b
      /\ \A k \in 1..n : \E a \in A : Cardinality(Below(R, A, a)) = k - 1
  BY <1>1, Places
<1>4. \A a \in A : Pos(sp, a) \in 1..n /\ Cardinality(Below(R, A, a)) = Pos(sp, a) - 1
  BY <1>2, <1>3 DEF Pos
<1>5. DOMAIN s = 1..n
  BY DEF SortedArrows
<1>6. ASSUME NEW k \in 1..n PROVE s[k] \in A /\ Pos(sp, s[k]) = k
  <2>1. s[k] = CHOOSE a \in A : Cardinality(Below(R, A, a)) = k - 1
    BY <1>2 DEF SortedArrows
  <2>2. s[k] \in A /\ Cardinality(Below(R, A, s[k])) = k - 1
    BY <1>3, <2>1
  <2> QED
    BY <1>3, <1>4, <2>2
<1>7. ASSUME NEW a \in A PROVE s[Pos(sp, a)] = a
  <2>1. Pos(sp, a) \in 1..n
    BY <1>4
  <2>2. s[Pos(sp, a)] \in A /\ Pos(sp, s[Pos(sp, a)]) = Pos(sp, a)
    BY <1>6, <2>1
  <2> QED
    BY <1>3, <1>4, <2>2
<1>8. ASSUME NEW a \in A, NEW b \in A
      PROVE  Before(a, b) <=> Pos(sp, a) < Pos(sp, b)
  <2>1. <<a, b>> \in R <=> Before(a, b)
    BY DEF R, BeforeIn
  <2>2. /\ Pos(sp, a) \in 1..n /\ Cardinality(Below(R, A, a)) = Pos(sp, a) - 1
        /\ Pos(sp, b) \in 1..n /\ Cardinality(Below(R, A, b)) = Pos(sp, b) - 1
    BY <1>4
  <2>3. <<a, b>> \in R <=> Pos(sp, a) - 1 < Pos(sp, b) - 1
    BY <1>3, <2>2
  <2> QED
    BY <1>3, <2>1, <2>2, <2>3
<1> QED
  BY <1>3, <1>4, <1>5, <1>6, <1>7, <1>8
-----------------------------------------------------------------------------
(***************************************************************************)
(* Totals.                                                                 *)
(***************************************************************************)
LEMMA LeastOf ==
  ASSUME NEW S, S \subseteq Nat, S # {}
  PROVE  \E least \in S : \A o \in S : least <= o
<1>1. PICK x \in S : \A y \in S : ~(<<y, x>> \in OpToRel(<, Nat))
  BY WFMin, NatLessThanWellFounded
<1>2. \A y \in S : ~(y < x)
  BY <1>1 DEF OpToRel
<1> QED
  BY <1>2

\* There are the sums of the first terms.
LEMMA SumsExist ==
  ASSUME NEW N \in Nat, NEW s \in [1..N -> Int]
  PROVE  \A m \in 0..N : \E g \in [0..m -> Int] :
            g[0] = 0 /\ \A j \in 1..m : g[j] = g[j - 1] + s[j]
<1> DEFINE IsSum(g, m) == g[0] = 0 /\ \A j \in 1..m : g[j] = g[j - 1] + s[j]
           Bad == {m \in 0..N : ~\E g \in [0..m -> Int] : IsSum(g, m)}
<1>1. SUFFICES ASSUME Bad # {} PROVE FALSE
  OBVIOUS
<1>2. PICK m \in Bad : \A k \in Bad : m <= k
  <2>1. Bad \subseteq Nat
    OBVIOUS
  <2> HIDE DEF Bad
  <2> QED
    BY <1>1, <2>1, LeastOf
<1>3. m # 0
  <2>1. [j \in 0..0 |-> 0] \in [0..0 -> Int] /\ IsSum([j \in 0..0 |-> 0], 0)
    OBVIOUS
  <2> QED
    BY <2>1
<1>4. m \in 1..N /\ m - 1 \in 0..N /\ m - 1 \notin Bad
  <2>1. m \in 1..N /\ m - 1 \in 0..N /\ ~(m <= m - 1)
    BY <1>3
  <2> HIDE DEF Bad
  <2> QED
    BY <1>2, <2>1
<1>5. PICK g \in [0..(m - 1) -> Int] : IsSum(g, m - 1)
  BY <1>4
<1>8. N \in Nat /\ m \in 1..N
  BY <1>4
<1> HIDE DEF Bad
<1> DEFINE h == [j \in 0..m |-> IF j = m THEN g[m - 1] + s[m] ELSE g[j]]
<1>6. h \in [0..m -> Int]
  <2>1. g[m - 1] \in Int /\ s[m] \in Int
    BY <1>4
  <2>2. \A j \in 0..m : j # m => g[j] \in Int
    BY <1>4
  <2> QED
    BY <2>1, <2>2
<1>7. IsSum(h, m)
  <2>1. h[0] = 0 /\ h[m] = g[m - 1] + s[m] /\ \A j \in 0..(m - 1) : h[j] = g[j]
    BY <1>4, <1>5
  <2>2. ASSUME NEW j \in 1..m PROVE h[j] = h[j - 1] + s[j]
    <3>1. j - 1 \in 0..(m - 1) /\ (j = m \/ j \in 1..(m - 1))
      BY <1>8
    <3>2. \A i \in 1..(m - 1) : g[i] = g[i - 1] + s[i]
      BY <1>5
    <3>3. \A i \in 1..(m - 1) : i \in 0..(m - 1)
      BY <1>8
    <3> HIDE DEF h
    <3>4. j # m => h[j] = g[j]
      BY <2>1, <3>1, <3>3
    <3> QED
      BY <2>1, <3>1, <3>2, <3>4
  <2> QED
    BY <2>1, <2>2
<1> HIDE DEF IsSum, h
<1> QED
  BY <1>2, <1>6, <1>7 DEF Bad

\* The total of a sequence: zero for the empty one, and a term more for a longer.
LEMMA TotalIs ==
  ASSUME NEW s \in Seq(Int)
  PROVE  \E g \in [0..Len(s) -> Int] :
           /\ g[0] = 0 /\ \A j \in 1..Len(s) : g[j] = g[j - 1] + s[j]
           /\ Total(s) = g[Len(s)]
<1> DEFINE first == CHOOSE first : first =
              [n \in 0..Len(s) |-> IF n = 0 THEN 0 ELSE first[n - 1] + s[n]]
<1>1. Len(s) \in Nat /\ s \in [1..Len(s) -> Int]
  BY LenProperties
<1>2. PICK g \in [0..Len(s) -> Int] : g[0] = 0 /\ \A j \in 1..Len(s) : g[j] = g[j - 1] + s[j]
  <2>1. \A m \in 0..Len(s) : \E g \in [0..m -> Int] :
            g[0] = 0 /\ \A j \in 1..m : g[j] = g[j - 1] + s[j]
    BY <1>1, SumsExist
  <2>2. Len(s) \in 0..Len(s)
    BY <1>1
  <2> QED
    BY <2>1, <2>2
<1>3. g = [n \in 0..Len(s) |-> IF n = 0 THEN 0 ELSE g[n - 1] + s[n]]
  BY <1>1, <1>2
<1>4. first = [n \in 0..Len(s) |-> IF n = 0 THEN 0 ELSE first[n - 1] + s[n]]
  BY <1>3
<1>5. Total(s) = first[Len(s)]
  BY DEF Total
<1> HIDE DEF first
<1>6. first[0] = 0 /\ \A j \in 1..Len(s) : first[j] = first[j - 1] + s[j]
  <2> DEFINE sum(n) == IF n = 0 THEN 0 ELSE first[n - 1] + s[n]
  <2>1. \A n \in 0..Len(s) : first[n] = sum(n)
    <3>1. first = [n \in 0..Len(s) |-> sum(n)]
      BY <1>4
    <3> HIDE DEF sum
    <3> QED
      BY <3>1, Zenon
  <2>2. 0 \in 0..Len(s) /\ \A j \in 1..Len(s) : j \in 0..Len(s) /\ j # 0
    BY <1>1
  <2> QED
    BY <2>1, <2>2
<1> DEFINE Differ == {j \in 0..Len(s) : first[j] # g[j]}
<1>7. Differ = {}
  <2> SUFFICES ASSUME Differ # {} PROVE FALSE
    OBVIOUS
  <2>1. Differ \subseteq Nat
    OBVIOUS
  <2>2. PICK j \in Differ : \A i \in Differ : j <= i
    <3> HIDE DEF Differ
    <3> QED
      BY <2>1, LeastOf
  <2>3. j \in 1..Len(s) /\ j - 1 \in 0..Len(s) /\ ~(j <= j - 1)
    <3>1. j \in 0..Len(s) /\ j # 0
      BY <1>2, <1>6
    <3> QED
      BY <1>1, <3>1
  <2>4. first[j - 1] = g[j - 1]
    BY <2>2, <2>3
  <2>5. first[j] = g[j]
    BY <1>2, <1>6, <2>3, <2>4
  <2> QED
    BY <2>5
<1>8. Len(s) \in 0..Len(s)
  BY <1>1
<1>9. Total(s) = g[Len(s)]
  BY <1>5, <1>7, <1>8
<1> QED
  BY <1>2, <1>9

LEMMA FourTerms ==
  ASSUME NEW w \in Int, NEW x \in Int, NEW y \in Int, NEW z \in Int
  PROVE  (w + x) + (y + z) = (w + y) + (x + z)
OBVIOUS

\* Totals are added term by term.
LEMMA TotalAdds ==
  ASSUME NEW r \in Seq(Int), NEW s \in Seq(Int), NEW t \in Seq(Int),
         Len(r) = Len(t), Len(s) = Len(t), \A j \in 1..Len(t) : t[j] = r[j] + s[j]
  PROVE  Total(t) = Total(r) + Total(s)
<1> DEFINE n == Len(t)
<1>1. PICK f \in [0..n -> Int] :
        f[0] = 0 /\ (\A j \in 1..n : f[j] = f[j - 1] + r[j]) /\ Total(r) = f[n]
  BY TotalIs
<1>2. PICK g \in [0..n -> Int] :
        g[0] = 0 /\ (\A j \in 1..n : g[j] = g[j - 1] + s[j]) /\ Total(s) = g[n]
  BY TotalIs
<1>3. PICK h \in [0..n -> Int] :
        h[0] = 0 /\ (\A j \in 1..n : h[j] = h[j - 1] + t[j]) /\ Total(t) = h[n]
  BY TotalIs
<1>4. n \in Nat /\ \A j \in 1..n : r[j] \in Int /\ s[j] \in Int /\ t[j] \in Int
  BY LenProperties, ElementOfSeq
<1> HIDE DEF n
<1> DEFINE Differ == {j \in 0..n : h[j] # f[j] + g[j]}
<1>5. Differ = {}
  <2> SUFFICES ASSUME Differ # {} PROVE FALSE
    OBVIOUS
  <2>1. Differ \subseteq Nat
    OBVIOUS
  <2>2. PICK j \in Differ : \A i \in Differ : j <= i
    <3> HIDE DEF Differ
    <3> QED
      BY <2>1, LeastOf
  <2>3. j \in 1..n /\ j - 1 \in 0..n /\ ~(j <= j - 1)
    <3>1. j \in 0..n /\ j # 0
      BY <1>1, <1>2, <1>3
    <3> QED
      BY <1>4, <3>1
  <2>4. h[j - 1] = f[j - 1] + g[j - 1]
    BY <2>2, <2>3
  <2>5. h[j] = f[j] + g[j]
    <3>1. f[j] = f[j - 1] + r[j] /\ g[j] = g[j - 1] + s[j]
      BY <1>1, <1>2, <2>3
    <3>2. h[j] = h[j - 1] + t[j]
      BY <1>3, <2>3
    <3>3. t[j] = r[j] + s[j]
      BY <2>3 DEF n
    <3>4. f[j - 1] \in Int /\ g[j - 1] \in Int /\ r[j] \in Int /\ s[j] \in Int
      BY <1>4, <2>3
    <3> DEFINE fj == f[j - 1]
               gj == g[j - 1]
               rj == r[j]
               sj == s[j]
    <3>5. h[j] = (fj + gj) + (rj + sj) /\ f[j] = fj + rj /\ g[j] = gj + sj
      BY <2>4, <3>1, <3>2, <3>3
    <3>6. fj \in Int /\ gj \in Int /\ rj \in Int /\ sj \in Int
      BY <3>4
    <3> HIDE DEF fj, gj, rj, sj
    <3>7. (fj + gj) + (rj + sj) = (fj + rj) + (gj + sj)
      BY <3>6, FourTerms
    <3> QED
      BY <3>5, <3>7, Zenon
  <2> QED
    BY <2>5
<1>6. n \in 0..n
  BY <1>4
<1> QED
  BY <1>1, <1>2, <1>3, <1>5, <1>6

LEMMA TotalType ==
  ASSUME NEW s \in Seq(Int)
  PROVE  Total(s) \in Int /\ (Len(s) = 0 => Total(s) = 0)
<1>1. PICK g \in [0..Len(s) -> Int] : g[0] = 0 /\ Total(s) = g[Len(s)]
  BY TotalIs
<1>2. Len(s) \in 0..Len(s)
  BY LenProperties
<1> QED
  BY <1>1, <1>2

LEMMA TotalOfZeros ==
  ASSUME NEW s \in Seq(Int), \A j \in 1..Len(s) : s[j] = 0
  PROVE  Total(s) = 0
<1>1. Total(s) = Total(s) + Total(s)
  BY TotalAdds
<1> QED
  BY <1>1, TotalType

\* One term more.
LEMMA TotalGrows ==
  ASSUME NEW s \in Seq(Int), NEW t \in Seq(Int), Len(t) = Len(s) + 1,
         \A j \in 1..Len(s) : t[j] = s[j]
  PROVE  Total(t) = Total(s) + t[Len(t)]
<1> DEFINE n == Len(s)
<1>1. PICK f \in [0..n -> Int] :
        f[0] = 0 /\ (\A j \in 1..n : f[j] = f[j - 1] + s[j]) /\ Total(s) = f[n]
  BY TotalIs
<1>2. PICK g \in [0..(n + 1) -> Int] :
        g[0] = 0 /\ (\A j \in 1..(n + 1) : g[j] = g[j - 1] + t[j]) /\ Total(t) = g[n + 1]
  BY TotalIs
<1>3. n \in Nat
  BY LenProperties
<1> HIDE DEF n
<1> DEFINE Differ == {j \in 0..n : g[j] # f[j]}
<1>4. Differ = {}
  <2> SUFFICES ASSUME Differ # {} PROVE FALSE
    OBVIOUS
  <2>1. Differ \subseteq Nat
    OBVIOUS
  <2>2. PICK j \in Differ : \A i \in Differ : j <= i
    <3> HIDE DEF Differ
    <3> QED
      BY <2>1, LeastOf
  <2>3. j \in 1..n /\ j \in 1..(n + 1) /\ j - 1 \in 0..n /\ ~(j <= j - 1)
    <3>1. j \in 0..n /\ j # 0
      BY <1>1, <1>2
    <3> QED
      BY <1>3, <3>1
  <2>4. g[j - 1] = f[j - 1]
    BY <2>2, <2>3
  <2>5. t[j] = s[j]
    BY <2>3 DEF n
  <2>6. g[j] = f[j]
    BY <1>1, <1>2, <2>3, <2>4, <2>5
  <2> QED
    BY <2>6
<1>5. n \in 0..n /\ n + 1 \in 1..(n + 1) /\ (n + 1) - 1 = n
  BY <1>3
<1>6. g[n + 1] = g[n] + t[n + 1] /\ g[n] = f[n]
  BY <1>2, <1>4, <1>5
<1> QED
  BY <1>1, <1>2, <1>6 DEF n

-----------------------------------------------------------------------------
(***************************************************************************)
(* The events of a span.                                                   *)
(***************************************************************************)
LabelOf(sp, name) == IF name = Self THEN Caller ELSE Label(sp, name)
NumEvents(sp) == Cardinality(ArrowsOf(sp))

\* The event at a place is the arrow at that place.
LEMMA EventsAre ==
  ASSUME NEW sp \in SpanSet
  PROVE  LET e == Events(sp)
             n == NumEvents(sp)
         IN  /\ n \in Nat /\ DOMAIN e = 1..n
             /\ \A k \in 1..n : \E a \in ArrowsOf(sp) : k = Pos(sp, a)
             /\ \A a \in ArrowsOf(sp) :
                  /\ Pos(sp, a) \in 1..n
                  /\ e[Pos(sp, a)] = Arrow(a.superscript, LabelOf(sp, a.name), a.time)
                  /\ e[Pos(sp, a)].superscript = a.superscript
                  /\ e[Pos(sp, a)].name = LabelOf(sp, a.name)
                  /\ e[Pos(sp, a)].time = a.time
             /\ \A a, b \in ArrowsOf(sp) : Before(a, b) <=> Pos(sp, a) < Pos(sp, b)
<1> DEFINE e == Events(sp)
           s == SortedArrows(sp)
           n == NumEvents(sp)
<1>1. /\ n \in Nat /\ DOMAIN s = 1..n
      /\ \A k \in 1..n : s[k] \in ArrowsOf(sp) /\ Pos(sp, s[k]) = k
      /\ \A a \in ArrowsOf(sp) : Pos(sp, a) \in 1..n /\ s[Pos(sp, a)] = a
      /\ \A a, b \in ArrowsOf(sp) : Before(a, b) <=> Pos(sp, a) < Pos(sp, b)
  BY ArrowsSorted DEF NumEvents
<1>2. /\ DOMAIN e = DOMAIN s
      /\ \A k \in DOMAIN s :
           e[k] = Arrow(s[k].superscript, LabelOf(sp, s[k].name), s[k].time)
  BY DEF Events, LabelOf
<1> HIDE DEF e, s, n
<1>3. ASSUME NEW a \in ArrowsOf(sp)
      PROVE  /\ e[Pos(sp, a)] = Arrow(a.superscript, LabelOf(sp, a.name), a.time)
             /\ e[Pos(sp, a)].superscript = a.superscript
             /\ e[Pos(sp, a)].name = LabelOf(sp, a.name)
             /\ e[Pos(sp, a)].time = a.time
  <2>1. e[Pos(sp, a)] = Arrow(a.superscript, LabelOf(sp, a.name), a.time)
    BY <1>1, <1>2
  <2> QED
    BY <2>1 DEF Arrow
<1>4. ASSUME NEW k \in 1..n PROVE \E a \in ArrowsOf(sp) : k = Pos(sp, a)
  BY <1>1
<1>5. DOMAIN e = 1..n
  BY <1>1, <1>2
<1>6. \A a \in ArrowsOf(sp) : Pos(sp, a) \in 1..n
  BY <1>1
<1>7. n \in Nat /\ \A a, b \in ArrowsOf(sp) : Before(a, b) <=> Pos(sp, a) < Pos(sp, b)
  BY <1>1
<1> QED
  BY <1>3, <1>4, <1>5, <1>6, <1>7 DEF e, n

\* The first event is the begin of the span, the only one of its kind; the events
\* are in the order of their times.
LEMMA EventIs ==
  ASSUME NEW sp \in SpanSet
  PROVE  LET e == Events(sp)
             n == NumEvents(sp)
         IN  /\ 1 \in 1..n /\ e[1].superscript = "begin" /\ e[1].time = 1
             /\ \A k \in 1..n :
                  /\ e[k].time \in Nat
                  /\ e[k].superscript \in {"begin", "forward", "receive", "terminate"}
                  /\ e[k].superscript = "begin" => k = 1
                  /\ e[k].superscript = "terminate" => k = Pos(sp, Terminate(sp))
                  /\ e[k].superscript = "forward" => \E c \in Callees : k = Pos(sp, Forward(sp, c))
                  /\ e[k].superscript = "receive" => \E c \in Callees : k = Pos(sp, Receive(sp, c))
             /\ \A j, k \in 1..n : j < k => e[j].time <= e[k].time
<1> DEFINE e == Events(sp)
           n == NumEvents(sp)
<1>1. /\ n \in Nat /\ DOMAIN e = 1..n
      /\ \A k \in 1..n : \E a \in ArrowsOf(sp) : k = Pos(sp, a)
      /\ \A a \in ArrowsOf(sp) :
           /\ Pos(sp, a) \in 1..n
           /\ e[Pos(sp, a)].superscript = a.superscript
           /\ e[Pos(sp, a)].time = a.time
      /\ \A a, b \in ArrowsOf(sp) : Before(a, b) <=> Pos(sp, a) < Pos(sp, b)
  BY EventsAre
<1> HIDE DEF e, n
<1>2. Begin(sp) \in ArrowsOf(sp) /\ Begin(sp).superscript = "begin" /\ Begin(sp).time = 1
      /\ Begin(sp).name = Self
  BY ArrowFields
<1>3. ASSUME NEW a \in ArrowsOf(sp) PROVE 1 <= a.time /\ ~Before(a, Begin(sp))
  <2>1. 1 <= a.time
    <3>1. a = Begin(sp) \/ a = Terminate(sp)
          \/ (\E c \in Callees : a = Forward(sp, c)) \/ (\E c \in Callees : a = Receive(sp, c))
      BY ArrowFields
    <3>2. CASE a = Begin(sp) \/ a = Terminate(sp)
      BY <3>2, SpanIs, ArrowFields
    <3>3. ASSUME NEW c \in Callees, a = Forward(sp, c) \/ a = Receive(sp, c) PROVE 1 <= a.time
      BY <3>3, SpanIs, ArrowFields
    <3> QED
      BY <3>1, <3>2, <3>3
  <2>2. a.superscript \in {"begin", "forward", "receive", "terminate"} /\ a.time \in Nat
        /\ (a.superscript = "begin" => a = Begin(sp))
    BY ArrowIs
  <2> QED
    BY <1>2, <2>1, <2>2 DEF Before, Rank, Self
<1>4. Pos(sp, Begin(sp)) = 1
  <2>1. {b \in ArrowsOf(sp) : Before(b, Begin(sp))} = {}
    BY <1>3
  <2> QED
    BY <2>1, FS_EmptySet DEF Pos
<1>5. 1 \in 1..n /\ e[1].superscript = "begin" /\ e[1].time = 1
  BY <1>1, <1>2, <1>4
<1>6. ASSUME NEW k \in 1..n
      PROVE  /\ e[k].time \in Nat
             /\ e[k].superscript \in {"begin", "forward", "receive", "terminate"}
             /\ e[k].superscript = "begin" => k = 1
             /\ e[k].superscript = "terminate" => k = Pos(sp, Terminate(sp))
             /\ e[k].superscript = "forward" => \E c \in Callees : k = Pos(sp, Forward(sp, c))
             /\ e[k].superscript = "receive" => \E c \in Callees : k = Pos(sp, Receive(sp, c))
  <2>1. PICK a \in ArrowsOf(sp) : k = Pos(sp, a)
    BY <1>1
  <2>2. e[k].superscript = a.superscript /\ e[k].time = a.time
    BY <1>1, <2>1
  <2>3. /\ a.time \in Nat
        /\ a.superscript \in {"begin", "forward", "receive", "terminate"}
        /\ a.superscript = "begin" => a = Begin(sp)
        /\ a.superscript = "terminate" => a = Terminate(sp)
        /\ a.superscript = "forward" => \E c \in Callees : a = Forward(sp, c)
        /\ a.superscript = "receive" => \E c \in Callees : a = Receive(sp, c)
    BY ArrowIs
  <2> QED
    BY <1>4, <2>1, <2>2, <2>3
<1>7. ASSUME NEW j \in 1..n, NEW k \in 1..n, j < k PROVE e[j].time <= e[k].time
  <2>1. PICK a \in ArrowsOf(sp) : j = Pos(sp, a)
    BY <1>1
  <2>2. PICK b \in ArrowsOf(sp) : k = Pos(sp, b)
    BY <1>1
  <2>3. Before(a, b) /\ e[j].time = a.time /\ e[k].time = b.time
    BY <1>1, <1>7, <2>1, <2>2
  <2>4. a.time \in Nat /\ b.time \in Nat
    BY ArrowIs
  <2> QED
    BY <2>3, <2>4 DEF Before
<1> QED
  BY <1>5, <1>6, <1>7 DEF e, n

-----------------------------------------------------------------------------
(***************************************************************************)
(* The cuts.                                                               *)
(***************************************************************************)
CutSet(events) == {k \in Reached(events) : Cuts(events[k])}
CutsBefore(events, k) == {j \in CutSet(events) : j < k}

\* Each number of cuts before is that of one cut.
LEMMA CutPlaces ==
  ASSUME NEW events, NEW n \in Nat, DOMAIN events = 1..n
  PROVE  LET S == CutSet(events)
         IN  /\ S \subseteq 1..n /\ Cardinality(S) \in Nat
             /\ \A x \in S : Cardinality(CutsBefore(events, x)) \in 0..(Cardinality(S) - 1)
             /\ \A x, y \in S :
                  Cardinality(CutsBefore(events, x)) = Cardinality(CutsBefore(events, y)) => x = y
             /\ \A i \in 1..Cardinality(S) :
                  \E x \in S : Cardinality(CutsBefore(events, x)) = i - 1
<1> DEFINE S == CutSet(events)
           R == {p \in S \X S : p[1] < p[2]}
<1>1. S \subseteq 1..n /\ IsFiniteSet(S)
  <2>1. S \subseteq 1..n
    BY DEF CutSet, Reached
  <2>2. IsFiniteSet(1..n)
    BY FS_Interval
  <2> QED
    BY <2>1, <2>2, FS_Subset
<1>2. \A x \in S : x \in Int
  BY <1>1
<1>3. LinearOrder(R, S)
  <2>1. \A x, y \in S : <<x, y>> \in R <=> x < y
    OBVIOUS
  <2> HIDE DEF R, S
  <2>2. \A x \in S : <<x, x>> \notin R
    BY <1>2, <2>1
  <2>3. \A x, y, z \in S : <<x, y>> \in R /\ <<y, z>> \in R => <<x, z>> \in R
    BY <1>2, <2>1
  <2>4. ASSUME NEW x \in S, NEW y \in S PROVE x = y \/ <<x, y>> \in R \/ <<y, x>> \in R
    <3>1. x = y \/ x < y \/ y < x
      BY <1>2
    <3> QED
      BY <2>1, <3>1
  <2> QED
    BY <2>2, <2>3, <2>4 DEF LinearOrder
<1>4. \A x \in S : Below(R, S, x) = CutsBefore(events, x)
  BY DEF Below, CutsBefore
<1> HIDE DEF R, S
<1>5. IsFiniteSet(S)
  BY <1>1
<1>6. /\ Cardinality(S) \in Nat
      /\ \A x \in S : Cardinality(Below(R, S, x)) \in 0..(Cardinality(S) - 1)
      /\ \A x, y \in S :
           Cardinality(Below(R, S, x)) = Cardinality(Below(R, S, y)) => x = y
      /\ \A i \in 1..Cardinality(S) : \E x \in S : Cardinality(Below(R, S, x)) = i - 1
  BY <1>3, <1>5, Places
<1> QED
  BY <1>1, <1>4, <1>6 DEF S

\* A cut stands in CutsOf behind as many as come before it, and nothing else does.
LEMMA CutAt ==
  ASSUME NEW events, NEW n \in Nat, DOMAIN events = 1..n
  PROVE  /\ \A k \in CutSet(events) :
              /\ Cardinality(CutsBefore(events, k)) \in Nat
              /\ Cardinality(CutsBefore(events, k)) + 1 \in DOMAIN CutsOf(events)
              /\ CutsOf(events)[Cardinality(CutsBefore(events, k)) + 1] = k
         /\ \A i \in DOMAIN CutsOf(events) : CutsOf(events)[i] \in CutSet(events)
<1> DEFINE S == CutSet(events)
<1>1. /\ Cardinality(S) \in Nat
      /\ \A x \in S : Cardinality(CutsBefore(events, x)) \in 0..(Cardinality(S) - 1)
      /\ \A x, y \in S :
           Cardinality(CutsBefore(events, x)) = Cardinality(CutsBefore(events, y)) => x = y
      /\ \A i \in 1..Cardinality(S) :
           \E x \in S : Cardinality(CutsBefore(events, x)) = i - 1
  BY CutPlaces
<1>2. /\ DOMAIN CutsOf(events) = 1..Cardinality(S)
      /\ \A i \in 1..Cardinality(S) : CutsOf(events)[i] =
           CHOOSE x \in S : Cardinality(CutsBefore(events, x)) = i - 1
  BY DEF CutsOf, CutSet, CutsBefore
<1> HIDE DEF S
<1>3. ASSUME NEW k \in S
      PROVE  /\ Cardinality(CutsBefore(events, k)) \in Nat
             /\ Cardinality(CutsBefore(events, k)) + 1 \in DOMAIN CutsOf(events)
             /\ CutsOf(events)[Cardinality(CutsBefore(events, k)) + 1] = k
  <2> DEFINE i == Cardinality(CutsBefore(events, k)) + 1
  <2>1. Cardinality(CutsBefore(events, k)) \in Nat /\ i \in 1..Cardinality(S)
        /\ i - 1 = Cardinality(CutsBefore(events, k))
    BY <1>1
  <2> HIDE DEF i
  <2>2. CutsOf(events)[i] = k
    BY <1>1, <1>2, <2>1
  <2> QED
    BY <1>2, <2>1, <2>2 DEF i
<1>4. ASSUME NEW i \in DOMAIN CutsOf(events) PROVE CutsOf(events)[i] \in S
  BY <1>1, <1>2
<1> QED
  BY <1>3, <1>4 DEF S

\* The duration collected for a cut is the time since the event before.
LEMMA DurationOfCut ==
  ASSUME NEW sp \in SpanSet, NEW k \in CutSet(Events(sp))
  PROVE  LET e == Events(sp)
             name == Subspan(Cardinality(CutsBefore(e, k)))
         IN  /\ name \in DOMAIN DurationsOf(sp)
             /\ DurationsOf(sp)[name] = e[k].time - Previous(e, k)
<1> DEFINE e == Events(sp)
           m == Cardinality(CutsBefore(e, k))
<1>1. m \in Nat /\ m + 1 \in DOMAIN CutsOf(e) /\ CutsOf(e)[m + 1] = k
  <2>1. NumEvents(sp) \in Nat /\ DOMAIN e = 1..NumEvents(sp)
    BY EventsAre
  <2> HIDE DEF e
  <2>2. k \in CutSet(e)
    BY DEF e
  <2> QED
    BY <2>1, <2>2, CutAt
<1> DEFINE names == {Subspan(i - 1) : i \in DOMAIN CutsOf(e)} \cup {FullSpan(l) : l \in Labels(sp)}
<1> HIDE DEF m
<1>2. Subspan(m) \in names
  <2>1. (m + 1) - 1 = m
    BY <1>1
  <2>2. Subspan((m + 1) - 1) \in names
    BY <1>1
  <2> QED
    BY <2>1, <2>2
<1>3. Subspan(m)[1] = "subspan" /\ Subspan(m)[2] = m
  BY DEF Subspan
<1>4. DurationsOf(sp) =
        [n \in names |->
           IF n[1] = "subspan"
           THEN e[CutsOf(e)[n[2] + 1]].time - Previous(e, CutsOf(e)[n[2] + 1])
           ELSE LET c == CHOOSE d \in DOMAIN sp.callees : Label(sp, d) = n[2]
                IN  sp.callees[c].end - sp.callees[c].start]
  BY DEF DurationsOf
<1> HIDE DEF e, names
<1> QED
  BY <1>1, <1>2, <1>3, <1>4 DEF e, m

\* A callee that starts by the end of the span makes a cut, after as many others as
\* callees start before it.
LEMMA ForwardIsCut ==
  ASSUME NEW sp \in SpanSet, NEW c \in Callees, sp.callees[c].start <= sp.end
  PROVE  LET e == Events(sp)
             k == Pos(sp, Forward(sp, c))
         IN  /\ k \in CutSet(e)
             /\ Cardinality(CutsBefore(e, k)) =
                  Cardinality({d \in Callees : StartsBefore(sp, d, c)})
<1> DEFINE e == Events(sp)
           A == ArrowsOf(sp)
           k == Pos(sp, Forward(sp, c))
           E == {d \in Callees : StartsBefore(sp, d, c)}
           pos == [d \in E |-> Pos(sp, Forward(sp, d))]
<1>1. /\ DOMAIN e = 1..NumEvents(sp) /\ NumEvents(sp) \in Nat
      /\ \A a \in A : Pos(sp, a) \in 1..NumEvents(sp) /\ e[Pos(sp, a)].superscript = a.superscript
      /\ \A a, b \in A : Before(a, b) <=> Pos(sp, a) < Pos(sp, b)
  BY EventsAre
<1>2. \A j \in 1..NumEvents(sp) :
        /\ e[j].superscript = "terminate" => j = Pos(sp, Terminate(sp))
        /\ e[j].superscript = "forward" => \E d \in Callees : j = Pos(sp, Forward(sp, d))
  BY EventIs
<1> HIDE DEF e
<1>3. Terminate(sp) \in A /\ \A d \in Callees : Forward(sp, d) \in A
  BY ArrowFields
<1>4. \A d \in Callees : Forward(sp, d).superscript = "forward"
  BY ArrowFields
<1>5. \A d, b \in Callees :
        Before(Forward(sp, d), Forward(sp, b)) <=> StartsBefore(sp, d, b)
  <2> SUFFICES ASSUME NEW d \in Callees, NEW b \in Callees
               PROVE  Before(Forward(sp, d), Forward(sp, b)) <=> StartsBefore(sp, d, b)
    OBVIOUS
  <2>1. /\ Forward(sp, d).superscript = "forward" /\ Forward(sp, b).superscript = "forward"
        /\ Forward(sp, d).name = d /\ Forward(sp, b).name = b
        /\ Forward(sp, d).time = sp.callees[d].start
        /\ Forward(sp, b).time = sp.callees[b].start
    BY ArrowFields
  <2> QED
    BY <2>1 DEF Before, StartsBefore, Rank
<1>6. ~Before(Terminate(sp), Forward(sp, c))
  <2>1. /\ Forward(sp, c).superscript = "forward" /\ Terminate(sp).superscript = "terminate"
        /\ Forward(sp, c).time = sp.callees[c].start /\ Terminate(sp).time = sp.end
    BY ArrowFields
  <2>2. sp.callees[c].start \in Nat /\ sp.end \in Nat
    BY SpanIs
  <2> QED
    BY <2>1, <2>2 DEF Before, Rank
<1>7. \A j \in 1..(k - 1) : j \in 1..NumEvents(sp) /\ e[j].superscript # "terminate"
  <2>1. k \in 1..NumEvents(sp)
    BY <1>1, <1>3
  <2>2. ~(Pos(sp, Terminate(sp)) < k)
    BY <1>1, <1>3, <1>6
  <2> HIDE DEF k
  <2>3. \A j \in 1..(k - 1) : j \in 1..NumEvents(sp) /\ j < k
    BY <1>1, <2>1
  <2> QED
    BY <1>2, <2>2, <2>3
<1>8. \A d \in Callees : Pos(sp, Forward(sp, d)) \in 1..NumEvents(sp)
                         /\ Cuts(e[Pos(sp, Forward(sp, d))])
  BY <1>1, <1>3, <1>4 DEF Cuts
<1>9. k \in CutSet(e)
  BY <1>1, <1>7, <1>8 DEF CutSet, Reached
<1>10. ASSUME NEW d \in E PROVE pos[d] \in CutsBefore(e, k)
  <2>1. pos[d] < k /\ pos[d] \in 1..NumEvents(sp)
    BY <1>1, <1>3, <1>5, <1>8
  <2>2. k \in 1..NumEvents(sp)
    BY <1>8
  <2>3. \A j \in 1..(pos[d] - 1) : j \in 1..(k - 1)
    <3> HIDE DEF pos, k
    <3> QED
      BY <1>1, <2>1, <2>2
  <2>4. Cuts(e[pos[d]])
    BY <1>8
  <2> QED
    BY <1>1, <1>7, <2>1, <2>3, <2>4 DEF CutsBefore, CutSet, Reached
<1>11. ASSUME NEW j \in CutsBefore(e, k) PROVE \E d \in E : pos[d] = j
  <2>1. j \in 1..NumEvents(sp) /\ j < k /\ Cuts(e[j])
    BY <1>1 DEF CutsBefore, CutSet, Reached
  <2>2. e[j].superscript # "terminate"
    <3>1. ~(Pos(sp, Terminate(sp)) < k)
      BY <1>1, <1>3, <1>6
    <3> QED
      BY <1>2, <2>1, <3>1
  <2>3. PICK d \in Callees : j = Pos(sp, Forward(sp, d))
    BY <1>2, <2>1, <2>2 DEF Cuts
  <2>4. StartsBefore(sp, d, c)
    BY <1>1, <1>3, <1>5, <2>1, <2>3
  <2> QED
    BY <2>3, <2>4
<1>12. ASSUME NEW d \in E, NEW b \in E, pos[d] = pos[b] PROVE d = b
  <2>1. ~StartsBefore(sp, d, b) /\ ~StartsBefore(sp, b, d)
    <3>1. pos[d] \in Nat
      BY <1>8
    <3>2. ~(pos[d] < pos[b]) /\ ~(pos[b] < pos[d])
      BY <1>12, <3>1
    <3> QED
      BY <1>1, <1>3, <1>5, <3>2
  <2>2. sp.callees[d].start \in Nat /\ sp.callees[b].start \in Nat /\ d \in Int /\ b \in Int
    BY SpanIs, ArrowFields
  <2> QED
    BY <2>1, <2>2 DEF StartsBefore
<1>13. pos \in Bijection(E, CutsBefore(e, k))
  <2>1. pos \in [E -> CutsBefore(e, k)]
    BY <1>10
  <2> HIDE DEF pos, E, k
  <2> QED
    BY <1>11, <1>12, <2>1, Fun_IsBij
<1>14. IsFiniteSet(E)
  <2>1. IsFiniteSet(Callees) /\ E \in SUBSET Callees
    BY SizesAssumption, FS_Interval DEF Callees
  <2> HIDE DEF E
  <2> QED
    BY <2>1, FS_Subset
<1>15. Cardinality(CutsBefore(e, k)) = Cardinality(E)
  <2>1. ExistsBijection(E, CutsBefore(e, k))
    BY <1>13 DEF ExistsBijection
  <2> HIDE DEF E, k
  <2> QED
    BY <1>14, <2>1, FS_Bijection
<1> QED
  BY <1>9, <1>15 DEF e

-----------------------------------------------------------------------------
(***************************************************************************)
(* The child diffs of layer 3 and the subspans.                            *)
(***************************************************************************)
EarlierCallees(sp, c) == {d \in Callees : StartsBefore(sp, d, c)}

\* The callees in the order of their starts: each number of earlier ones is that of
\* one callee.
LEMMA CalleePlaces ==
  ASSUME NEW sp \in SpanSet
  PROVE  /\ \A c, d \in Callees :
              StartsBefore(sp, c, d)
                <=> Cardinality(EarlierCallees(sp, c)) < Cardinality(EarlierCallees(sp, d))
         /\ \A i \in Callees : \E c \in Callees : Cardinality(EarlierCallees(sp, c)) = i - 1
         /\ \A c, d \in Callees :
              Cardinality(EarlierCallees(sp, c)) = Cardinality(EarlierCallees(sp, d)) => c = d
<1> DEFINE R == {p \in Callees \X Callees : StartsBefore(sp, p[1], p[2])}
<1>1. \A c, d \in Callees : <<c, d>> \in R <=> StartsBefore(sp, c, d)
  OBVIOUS
<1> HIDE DEF R
<1>2. \A c \in Callees : sp.callees[c].start \in Nat /\ c \in Int
  BY SpanIs, ArrowFields
<1>3. LinearOrder(R, Callees)
  <2>1. \A c \in Callees : <<c, c>> \notin R
    BY <1>1, <1>2 DEF StartsBefore
  <2>2. ASSUME NEW a \in Callees, NEW b \in Callees, NEW c \in Callees,
               <<a, b>> \in R, <<b, c>> \in R
        PROVE  <<a, c>> \in R
    <3>1. StartsBefore(sp, a, b) /\ StartsBefore(sp, b, c)
      BY <1>1, <2>2
    <3>2. StartsBefore(sp, a, c)
      BY <1>2, <3>1 DEF StartsBefore
    <3> QED
      BY <1>1, <3>2
  <2>3. ASSUME NEW a \in Callees, NEW b \in Callees
        PROVE  a = b \/ <<a, b>> \in R \/ <<b, a>> \in R
    <3>1. a = b \/ StartsBefore(sp, a, b) \/ StartsBefore(sp, b, a)
      BY <1>2 DEF StartsBefore
    <3> QED
      BY <1>1, <3>1
  <2> QED
    BY <2>1, <2>2, <2>3 DEF LinearOrder
<1>4. \A c \in Callees : Below(R, Callees, c) = EarlierCallees(sp, c)
  BY <1>1 DEF Below, EarlierCallees
<1>5. IsFiniteSet(Callees) /\ Cardinality(Callees) = NumCallees
  BY SizesAssumption, FS_Interval DEF Callees
<1>6. /\ \A c, d \in Callees :
           <<c, d>> \in R <=> Cardinality(Below(R, Callees, c)) < Cardinality(Below(R, Callees, d))
      /\ \A c, d \in Callees :
           Cardinality(Below(R, Callees, c)) = Cardinality(Below(R, Callees, d)) => c = d
      /\ \A k \in 1..Cardinality(Callees) :
           \E c \in Callees : Cardinality(Below(R, Callees, c)) = k - 1
  BY <1>3, <1>5, Places
<1>7. 1..Cardinality(Callees) = Callees
  BY <1>5 DEF Callees
<1> QED
  BY <1>1, <1>4, <1>6, <1>7

\* The start at a place is that of the callee with as many before it.
LEMMA StartIs ==
  ASSUME NEW sp \in SpanSet, NEW i \in Callees
  PROVE  /\ CalleeAt(sp, i) \in Callees
         /\ Cardinality(EarlierCallees(sp, CalleeAt(sp, i))) = i - 1
         /\ StartsOf(sp)[i] = sp.callees[CalleeAt(sp, i)].start
<1>1. CalleeAt(sp, i) = CHOOSE c \in Callees : Cardinality(EarlierCallees(sp, c)) = i - 1
  BY DEF CalleeAt, Callees, EarlierCallees
<1>2. \E c \in Callees : Cardinality(EarlierCallees(sp, c)) = i - 1
  BY CalleePlaces
<1>3. StartsOf(sp)[i] = sp.callees[CalleeAt(sp, i)].start
  BY DEF StartsOf, Callees
<1> QED
  BY <1>1, <1>2, <1>3

\* The cut at a place is the call of the callee at that place.
LEMMA CutIsCall ==
  ASSUME NEW sp \in SpanSet, NEW i \in Callees, StartsOf(sp)[i] <= sp.end
  PROVE  Events(sp)[CutsOf(Events(sp))[i]] =
           Arrow("forward", Label(sp, CalleeAt(sp, i)), StartsOf(sp)[i])
<1> DEFINE e == Events(sp)
           c == CalleeAt(sp, i)
           a == Forward(sp, c)
           k == Pos(sp, a)
<1>1. /\ c \in Callees /\ Cardinality(EarlierCallees(sp, c)) = i - 1
      /\ StartsOf(sp)[i] = sp.callees[c].start
  BY StartIs
<1> HIDE DEF c
<1>2. k \in CutSet(e) /\ Cardinality(CutsBefore(e, k)) = i - 1
  BY <1>1, ForwardIsCut DEF EarlierCallees
<1>3. /\ NumEvents(sp) \in Nat /\ DOMAIN e = 1..NumEvents(sp)
      /\ a \in ArrowsOf(sp) => e[k] = Arrow(a.superscript, LabelOf(sp, a.name), a.time)
  BY EventsAre
<1> HIDE DEF e, k
<1>4. CutsOf(e)[Cardinality(CutsBefore(e, k)) + 1] = k
  BY <1>2, <1>3, CutAt
<1>5. CutsOf(e)[i] = k
  <2>1. Cardinality(CutsBefore(e, k)) + 1 = i
    BY <1>2, SizesAssumption DEF Callees
  <2> QED
    BY <1>4, <2>1
<1>6. /\ a \in ArrowsOf(sp) /\ a.superscript = "forward" /\ a.name = c
      /\ a.time = sp.callees[c].start
  BY <1>1, ArrowFields
<1> HIDE DEF a
<1>7. LabelOf(sp, c) = Label(sp, c)
  <2>1. c # Self
    BY <1>1, SizesAssumption DEF Callees, Self
  <2> QED
    BY <2>1 DEF LabelOf
<1> QED
  BY <1>1, <1>3, <1>5, <1>6, <1>7 DEF e, c

\* The subspan that ends at a callee's start lies in the time since the start before.
LEMMA SubspanInDiff ==
  ASSUME NEW sp \in SpanSet, NEW i \in Callees, StartsOf(sp)[i] <= sp.end
  PROVE  DurationsOf(sp)[Subspan(i - 1)] \in
           0..(StartsOf(sp)[i] - IF i = 1 THEN sp.start ELSE StartsOf(sp)[i - 1])
<1>1. PICK c \in Callees : /\ Cardinality(EarlierCallees(sp, c)) = i - 1
                           /\ StartsOf(sp)[i] = sp.callees[c].start
  BY StartIs
<1> DEFINE e == Events(sp)
           k == Pos(sp, Forward(sp, c))
<1>2. k \in CutSet(e) /\ Cardinality(CutsBefore(e, k)) = i - 1
  BY <1>1, ForwardIsCut DEF EarlierCallees
<1>3. DurationsOf(sp)[Subspan(i - 1)] = e[k].time - Previous(e, k)
  BY <1>2, DurationOfCut
<1>4. /\ DOMAIN e = 1..NumEvents(sp) /\ NumEvents(sp) \in Nat
      /\ \A a \in ArrowsOf(sp) : /\ Pos(sp, a) \in 1..NumEvents(sp)
                                 /\ e[Pos(sp, a)].superscript = a.superscript
                                 /\ e[Pos(sp, a)].time = a.time
      /\ \A a, b \in ArrowsOf(sp) : Before(a, b) <=> Pos(sp, a) < Pos(sp, b)
  BY EventsAre
<1>5. /\ e[1].superscript = "begin" /\ e[1].time = 1 /\ 1 \in 1..NumEvents(sp)
      /\ \A j \in 1..NumEvents(sp) : e[j].time \in Nat
      /\ \A j, l \in 1..NumEvents(sp) : j < l => e[j].time <= e[l].time
  BY EventIs
<1> HIDE DEF e
<1>6. \A d \in Callees : /\ Forward(sp, d) \in ArrowsOf(sp)
                         /\ Forward(sp, d).superscript = "forward"
                         /\ Forward(sp, d).time = sp.callees[d].start
                         /\ Forward(sp, d).name = d
  BY ArrowFields
<1>7. k \in 1..NumEvents(sp) /\ e[k].superscript = "forward" /\ e[k].time = StartsOf(sp)[i]
  BY <1>1, <1>4, <1>6
<1> HIDE DEF k
<1>8. k \in 2..NumEvents(sp) /\ k - 1 \in 1..NumEvents(sp) /\ k - 1 < k
  <2>1. k # 1
    BY <1>5, <1>7
  <2> QED
    BY <1>4, <1>7, <2>1
<1>9. Previous(e, k) = e[k - 1].time
  BY <1>8 DEF Previous
<1>10. /\ e[k - 1].time \in Nat /\ e[k].time \in Nat /\ e[k - 1].time <= e[k].time
       /\ 1 <= e[k - 1].time
  <2>1. 1 = k - 1 \/ 1 < k - 1
    BY <1>8
  <2> QED
    BY <1>5, <1>7, <1>8, <2>1
<1>11. ASSUME i # 1 PROVE StartsOf(sp)[i - 1] \in Nat /\ StartsOf(sp)[i - 1] <= e[k - 1].time
  <2>1. i - 1 \in Callees /\ i \in Nat /\ (i - 1) - 1 < i - 1
    BY <1>11, SizesAssumption DEF Callees
  <2>2. PICK d \in Callees : /\ Cardinality(EarlierCallees(sp, d)) = (i - 1) - 1
                             /\ StartsOf(sp)[i - 1] = sp.callees[d].start
    BY <2>1, StartIs
  <2>3. StartsBefore(sp, d, c)
    BY <1>1, <2>1, <2>2, CalleePlaces
  <2> DEFINE j == Pos(sp, Forward(sp, d))
  <2>4. Before(Forward(sp, d), Forward(sp, c))
    BY <1>6, <2>3 DEF Before, StartsBefore
  <2>5. j < k /\ j \in 1..NumEvents(sp) /\ e[j].time = StartsOf(sp)[i - 1]
    BY <1>4, <1>6, <2>2, <2>4 DEF k
  <2> HIDE DEF j
  <2>6. j = k - 1 \/ j < k - 1
    BY <1>8, <2>5
  <2> QED
    BY <1>5, <1>8, <2>5, <2>6
<1>12. sp.start = 1
  BY SpanIs
<1>13. CASE i = 1
  BY <1>3, <1>7, <1>9, <1>10, <1>12, <1>13
<1>14. CASE i # 1
  <2>1. /\ StartsOf(sp)[i] \in Nat /\ StartsOf(sp)[i - 1] \in Nat
        /\ StartsOf(sp)[i - 1] <= e[k - 1].time /\ e[k - 1].time <= StartsOf(sp)[i]
        /\ e[k - 1].time \in Nat
    BY <1>7, <1>10, <1>11, <1>14
  <2>2. DurationsOf(sp)[Subspan(i - 1)] = StartsOf(sp)[i] - e[k - 1].time
    BY <1>3, <1>7, <1>9
  <2> QED
    BY <1>14, <2>1, <2>2
<1> QED
  BY <1>13, <1>14

-----------------------------------------------------------------------------
(***************************************************************************)
(* The group.                                                              *)
(***************************************************************************)
GroupInv ==
  /\ phase \in {"group", "collect", "replay", "done"}
  /\ group \in Seq(Traces)
  /\ \A i \in DOMAIN group : group[i].key = group[1].key
  /\ phase # "group" => group # <<>>

LEMMA TraceIs ==
  ASSUME NEW t \in Traces
  PROVE  /\ t.span \in SpanSet /\ t.events = Events(t.span) /\ t.key = Key(t.span)
         /\ t.durations = DurationsOf(t.span)
BY DEF Traces

LEMMA GroupInvStep ==
  ASSUME GroupInv, [Next]_subspanVars
  PROVE  GroupInv'
<1>1. ASSUME NEW t \in Traces, GroupTrace(t) PROVE GroupInv'
  <2>1. group' \in Seq(Traces) /\ phase' = "group"
    BY <1>1, AppendProperties DEF GroupTrace, GroupInv
  <2>2. ASSUME NEW i \in DOMAIN group' PROVE group'[i].key = group'[1].key
    <3>1. /\ group' = Append(group, t) /\ Len(group') = Len(group) + 1
          /\ \A j \in 1..Len(group) : group'[j] = group[j]
          /\ group'[Len(group) + 1] = t
          /\ DOMAIN group' = 1..(Len(group) + 1) /\ DOMAIN group = 1..Len(group)
          /\ Len(group) \in Nat
      BY <1>1, AppendProperties, LenProperties DEF GroupTrace, GroupInv
    <3>2. CASE Len(group) = 0
      BY <2>2, <3>1, <3>2
    <3>3. CASE Len(group) # 0
      <4>1. group # <<>> /\ 1 \in 1..Len(group)
        BY <3>1, <3>3, EmptySeq
      <4>2. t.key = group[1].key
        BY <1>1, <4>1 DEF GroupTrace
      <4>3. group'[1] = group[1]
        BY <3>1, <4>1
      <4>4. i \in 1..Len(group) \/ i = Len(group) + 1
        BY <2>2, <3>1
      <4> QED
        BY <3>1, <4>2, <4>3, <4>4 DEF GroupInv
    <3> QED
      BY <3>2, <3>3
  <2> QED
    BY <2>1, <2>2 DEF GroupInv
<1>2. CASE UNCHANGED group /\ phase' \in {"group", "collect", "replay", "done"}
           /\ (phase' # "group" => group # <<>>)
  BY <1>2 DEF GroupInv
<1>3. CASE GroupingEnds
  BY <1>2, <1>3 DEF GroupingEnds
<1>4. CASE CollectTrace \/ ReplayCut \/ ReplayReceive \/ ReplayEnds \/ UNCHANGED subspanVars
  BY <1>2, <1>4 DEF CollectTrace, ReplayCut, ReplayReceive, ReplayEnds, subspanVars, GroupInv
<1> QED
  BY <1>1, <1>3, <1>4 DEF Next

LEMMA GroupInvAlways == Spec => []GroupInv
<1>1. Init => GroupInv
  BY DEF Init, GroupInv
<1> QED
  BY <1>1, GroupInvStep, PTL DEF Spec

\* In every span with any callees, subspan c ends with the event at which the c-th
\* callee starts and lies in the c-th "child starts late" of layer 3, unless the span
\* ended before that callee started.
THEOREM ChildDiffsCoverSubspans == Spec => []ChildDiffCoversSubspan
<1>1. GroupInv => ChildDiffCoversSubspan
  <2> SUFFICES ASSUME GroupInv, NEW i \in DOMAIN group,
                      NEW c \in DOMAIN StartsOf(group[i].span),
                      StartsOf(group[i].span)[c] <= group[i].span.end
               PROVE  /\ group[i].events[CutsOf(group[i].events)[c]] =
                           Arrow("forward", Label(group[i].span, CalleeAt(group[i].span, c)),
                                 StartsOf(group[i].span)[c])
                      /\ group[i].durations[Subspan(c - 1)] \in
                           0..(StartsOf(group[i].span)[c]
                                 - IF c = 1 THEN group[i].span.start
                                   ELSE StartsOf(group[i].span)[c - 1])
    BY DEF ChildDiffCoversSubspan
  <2>1. group[i] \in Traces
    BY ElementOfSeq, LenProperties DEF GroupInv
  <2>2. /\ group[i].span \in SpanSet /\ group[i].durations = DurationsOf(group[i].span)
        /\ group[i].events = Events(group[i].span)
    BY <2>1, TraceIs
  <2>3. c \in Callees
    BY DEF StartsOf, Callees
  <2> QED
    BY <2>2, <2>3, CutIsCall, SubspanInDiff
<1> QED
  BY <1>1, GroupInvAlways, PTL

-----------------------------------------------------------------------------
(***************************************************************************)
(* What is collected.                                                      *)
(***************************************************************************)
\* Two callees of a span have different labels.
LEMMA LabelsDiffer ==
  ASSUME NEW sp \in SpanSet, NEW c \in Callees, NEW d \in Callees, Label(sp, c) = Label(sp, d)
  PROVE  c = d
<1> DEFINE S == {b \in Callees : sp.operation[b] = sp.operation[c]}
           R == {p \in S \X S : StartsBefore(sp, p[1], p[2])}
<1>1. DOMAIN sp.callees = Callees
  BY SpanIs
<1>2. /\ sp.operation[c] = sp.operation[d]
      /\ Cardinality({b \in Callees :
                        sp.operation[b] = sp.operation[c] /\ StartsBefore(sp, b, c)})
           = Cardinality({b \in Callees :
                            sp.operation[b] = sp.operation[d] /\ StartsBefore(sp, b, d)})
  BY <1>1 DEF Label
<1>3. c \in S /\ d \in S /\ S \in SUBSET Callees
  BY <1>2
<1>4. Below(R, S, c) = {b \in Callees :
                          sp.operation[b] = sp.operation[c] /\ StartsBefore(sp, b, c)}
  BY <1>3 DEF Below
<1>5. Below(R, S, d) = {b \in Callees :
                          sp.operation[b] = sp.operation[d] /\ StartsBefore(sp, b, d)}
  BY <1>2, <1>3 DEF Below
<1>6. \A a, b \in S : <<a, b>> \in R <=> StartsBefore(sp, a, b)
  OBVIOUS
<1> HIDE DEF R, S
<1>7. \A b \in S : sp.callees[b].start \in Nat /\ b \in Int
  BY <1>3, SpanIs, ArrowFields
<1>8. LinearOrder(R, S)
  <2>1. \A a \in S : <<a, a>> \notin R
    BY <1>6, <1>7 DEF StartsBefore
  <2>2. ASSUME NEW a \in S, NEW b \in S, NEW e \in S, <<a, b>> \in R, <<b, e>> \in R
        PROVE  <<a, e>> \in R
    <3>1. StartsBefore(sp, a, b) /\ StartsBefore(sp, b, e)
      BY <1>6, <2>2
    <3>2. StartsBefore(sp, a, e)
      BY <1>7, <3>1 DEF StartsBefore
    <3> QED
      BY <1>6, <3>2
  <2>3. ASSUME NEW a \in S, NEW b \in S PROVE a = b \/ <<a, b>> \in R \/ <<b, a>> \in R
    <3>1. a = b \/ StartsBefore(sp, a, b) \/ StartsBefore(sp, b, a)
      BY <1>7 DEF StartsBefore
    <3> QED
      BY <1>6, <3>1
  <2> QED
    BY <2>1, <2>2, <2>3 DEF LinearOrder
<1>9. IsFiniteSet(S)
  <2>1. IsFiniteSet(Callees)
    BY SizesAssumption, FS_Interval DEF Callees
  <2> QED
    BY <1>3, <2>1, FS_Subset
<1>10. Cardinality(Below(R, S, c)) = Cardinality(Below(R, S, d)) => c = d
  BY <1>3, <1>8, <1>9, Places
<1> QED
  BY <1>2, <1>4, <1>5, <1>10

DurationNames(sp) ==
  {Subspan(i - 1) : i \in DOMAIN CutsOf(Events(sp))} \cup {FullSpan(l) : l \in Labels(sp)}

CalleeLabelled(sp, l) == CHOOSE d \in DOMAIN sp.callees : Label(sp, d) = l

LEMMA DurationsAre ==
  ASSUME NEW sp \in SpanSet
  PROVE  DurationsOf(sp) =
           [n \in DurationNames(sp) |->
              IF n[1] = "subspan"
              THEN Events(sp)[CutsOf(Events(sp))[n[2] + 1]].time
                     - Previous(Events(sp), CutsOf(Events(sp))[n[2] + 1])
              ELSE sp.callees[CalleeLabelled(sp, n[2])].end
                     - sp.callees[CalleeLabelled(sp, n[2])].start]
BY DEF DurationsOf, DurationNames, CalleeLabelled

\* The duration of a callee is collected under its label.
LEMMA DurationOfCallee ==
  ASSUME NEW sp \in SpanSet, NEW c \in Callees
  PROVE  /\ FullSpan(Label(sp, c)) \in DOMAIN DurationsOf(sp)
         /\ DurationsOf(sp)[FullSpan(Label(sp, c))] = sp.callees[c].end - sp.callees[c].start
<1> DEFINE l == Label(sp, c)
<1>1. DOMAIN sp.callees = Callees
  BY SpanIs
<1>2. FullSpan(l) \in DurationNames(sp)
  BY <1>1 DEF DurationNames, Labels
<1>3. FullSpan(l)[1] # "subspan" /\ FullSpan(l)[2] = l
  BY DEF FullSpan
<1>4. CalleeLabelled(sp, l) = c
  BY <1>1, LabelsDiffer DEF CalleeLabelled
<1> HIDE DEF l
<1>5. DurationsOf(sp)[FullSpan(l)] = sp.callees[CalleeLabelled(sp, l)].end
                                        - sp.callees[CalleeLabelled(sp, l)].start
  BY <1>2, <1>3, DurationsAre
<1> QED
  BY <1>2, <1>4, <1>5, DurationsAre DEF l

LEMMA DurationTypes ==
  ASSUME NEW sp \in SpanSet, NEW n \in DOMAIN DurationsOf(sp)
  PROVE  DurationsOf(sp)[n] \in Int
<1>1. n \in DurationNames(sp)
  BY DurationsAre
<1>2. CASE \E l \in Labels(sp) : n = FullSpan(l)
  <2>1. PICK c \in Callees : n = FullSpan(Label(sp, c))
    BY <1>2, SpanIs DEF Labels
  <2>2. sp.callees[c].start \in Nat /\ sp.callees[c].end \in Nat
    BY SpanIs
  <2> QED
    BY <2>1, <2>2, DurationOfCallee
<1>3. CASE \E i \in DOMAIN CutsOf(Events(sp)) : n = Subspan(i - 1)
  <2> DEFINE e == Events(sp)
  <2>1. PICK i \in DOMAIN CutsOf(e) : n = Subspan(i - 1)
    BY <1>3
  <2>2. DOMAIN e = 1..NumEvents(sp) /\ NumEvents(sp) \in Nat
    BY EventsAre
  <2>3. \A k \in 1..NumEvents(sp) : e[k].time \in Nat
    BY EventIs
  <2>4. i \in Int
    BY <2>1 DEF CutsOf
  <2>5. n[1] = "subspan" /\ n[2] + 1 = i
    BY <2>1, <2>4 DEF Subspan
  <2>6. DurationsOf(sp)[n] = e[CutsOf(e)[i]].time - Previous(e, CutsOf(e)[i])
    BY <1>1, <2>5, DurationsAre
  <2> DEFINE k == CutsOf(e)[i]
  <2>7. k \in 1..NumEvents(sp)
    <3> HIDE DEF e
    <3>1. k \in CutSet(e)
      BY <2>1, <2>2, CutAt
    <3> QED
      BY <2>2, <3>1, CutPlaces
  <2> HIDE DEF e, k
  <2>8. Previous(e, k) \in Nat
    <3>1. k # 1 => k - 1 \in 1..NumEvents(sp)
      BY <2>2, <2>7
    <3> QED
      BY <2>3, <3>1 DEF Previous
  <2> QED
    BY <2>3, <2>6, <2>7, <2>8 DEF k
<1> QED
  BY <1>1, <1>2, <1>3 DEF DurationNames

\* Spans with the same key have the same kinds of events, the same cuts and the same
\* names of durations.
LEMMA SameKeys ==
  ASSUME NEW sp \in SpanSet, NEW tp \in SpanSet, Key(sp) = Key(tp)
  PROVE  /\ NumEvents(sp) = NumEvents(tp)
         /\ \A k \in 1..NumEvents(tp) : Events(sp)[k].superscript = Events(tp)[k].superscript
         /\ Reached(Events(sp)) = Reached(Events(tp))
         /\ CutSet(Events(sp)) = CutSet(Events(tp))
         /\ \A k : CutsBefore(Events(sp), k) = CutsBefore(Events(tp), k)
         /\ DOMAIN DurationsOf(sp) = DOMAIN DurationsOf(tp)
<1> DEFINE d == Events(sp)
           e == Events(tp)
<1>1. Labels(sp) = Labels(tp) /\ Superscripts(sp) = Superscripts(tp)
  BY DEF Key
<1>2. /\ DOMAIN d = 1..NumEvents(sp) /\ DOMAIN e = 1..NumEvents(tp)
      /\ NumEvents(sp) \in Nat /\ NumEvents(tp) \in Nat
  BY EventsAre
<1>3. Superscripts(sp) = [k \in DOMAIN d |-> d[k].superscript]
      /\ Superscripts(tp) = [k \in DOMAIN e |-> e[k].superscript]
  BY DEF Superscripts
<1> HIDE DEF d, e
<1>4. DOMAIN d = DOMAIN e /\ \A k \in DOMAIN e : d[k].superscript = e[k].superscript
  BY <1>1, <1>3
<1>5. NumEvents(sp) = NumEvents(tp)
  <2>1. 1..NumEvents(sp) = 1..NumEvents(tp)
    BY <1>2, <1>4
  <2>2. /\ NumEvents(sp) # 0 => NumEvents(sp) \in 1..NumEvents(sp)
        /\ NumEvents(tp) # 0 => NumEvents(tp) \in 1..NumEvents(tp)
    BY <1>2
  <2>3. /\ NumEvents(sp) # 0 => NumEvents(sp) \in 1..NumEvents(tp)
        /\ NumEvents(tp) # 0 => NumEvents(tp) \in 1..NumEvents(sp)
    BY <2>1, <2>2
  <2> QED
    BY <1>2, <2>3
<1>6. Reached(d) = Reached(e)
  <2>1. ASSUME NEW k \in DOMAIN e
        PROVE  (\A j \in 1..(k - 1) : d[j].superscript # "terminate")
                 <=> (\A j \in 1..(k - 1) : e[j].superscript # "terminate")
    <3>1. \A j \in 1..(k - 1) : j \in DOMAIN e
      BY <1>2
    <3> QED
      BY <1>4, <3>1
  <2> QED
    BY <1>4, <2>1 DEF Reached
<1>7. CutSet(d) = CutSet(e)
  <2>1. \A k \in Reached(e) : Cuts(d[k]) <=> Cuts(e[k])
    BY <1>4 DEF Cuts, Reached
  <2> QED
    BY <1>6, <2>1 DEF CutSet
<1>8. \A k : CutsBefore(d, k) = CutsBefore(e, k)
  BY <1>7 DEF CutsBefore
<1>9. DurationNames(sp) = DurationNames(tp)
  <2>1. DOMAIN CutsOf(d) = DOMAIN CutsOf(e)
    BY <1>7 DEF CutsOf, CutSet
  <2> QED
    BY <1>1, <2>1 DEF DurationNames, d, e
<1> QED
  BY <1>2, <1>4, <1>5, <1>6, <1>7, <1>8, <1>9, DurationsAre DEF d, e

-----------------------------------------------------------------------------
(***************************************************************************)
(* The inductive invariant of collecting and replay.                       *)
(***************************************************************************)
\* The durations under a name of the first m traces.
DataPoints(n, m) == [i \in 1..m |-> group[i].durations[n]]

CollectInv ==
  /\ collected \in 0..Len(group)
  /\ phase = "group" => collected = 0
  /\ phase \in {"replay", "done"} => collected = Len(group)
  /\ DOMAIN durations = IF collected = 0 THEN {} ELSE DOMAIN group[1].durations
  /\ \A n \in DOMAIN durations :
       durations[n] = [sum |-> Total(DataPoints(n, collected)), count |-> collected]

CutsSoFar == {k \in 1..Len(startTime) : Cuts(Played[k])}

ReplayInv ==
  /\ startTime \in Seq(Int) /\ Len(startTime) \in Nat /\ Len(startTime) >= 1
  /\ phase \in {"group", "collect"} => startTime = <<0>> /\ subspanIdx = 0
  /\ phase \in {"replay", "done"} =>
       /\ Len(startTime) <= Len(Played)
       /\ subspanIdx = Cardinality(CutsSoFar)
       /\ SameOrder => \A k \in DOMAIN startTime \cap Reached(Played) :
                          startTime[k] = SumOfEvent(k)

SubspanInv == GroupInv /\ CollectInv /\ ReplayInv

LEMMA GroupIs ==
  ASSUME GroupInv, NEW i \in DOMAIN group
  PROVE  /\ DOMAIN group = 1..Len(group) /\ Len(group) \in Nat /\ i \in 1..Len(group)
         /\ 1 \in DOMAIN group
         /\ group[i].span \in SpanSet
         /\ group[i].events = Events(group[i].span)
         /\ group[i].durations = DurationsOf(group[i].span)
         /\ Key(group[i].span) = Key(group[1].span)
<1>1. DOMAIN group = 1..Len(group) /\ Len(group) \in Nat
  BY LenProperties DEF GroupInv
<1>2. 1 \in DOMAIN group
  BY <1>1
<1>3. group[i] \in Traces /\ group[1] \in Traces
  BY <1>1, <1>2, ElementOfSeq DEF GroupInv
<1>4. group[i].key = group[1].key
  BY DEF GroupInv
<1> QED
  BY <1>1, <1>2, <1>3, <1>4, TraceIs

\* What the traces of a group have in common.
LEMMA GroupShares ==
  ASSUME GroupInv, NEW i \in DOMAIN group
  PROVE  LET n == NumEvents(group[1].span)
             e == group[i].events
         IN  /\ n \in Nat /\ DOMAIN Played = 1..n /\ Len(Played) = n
             /\ NumEvents(group[i].span) = n
             /\ \A k \in 1..n : e[k].superscript = Played[k].superscript
             /\ Reached(e) = Reached(Played)
             /\ CutSet(e) = CutSet(Played)
             /\ \A k : CutsBefore(e, k) = CutsBefore(Played, k)
             /\ DOMAIN group[i].durations = DOMAIN group[1].durations
<1> DEFINE n == NumEvents(group[1].span)
<1>1. 1 \in DOMAIN group
  BY GroupIs
<1>2. /\ group[i].span \in SpanSet /\ group[1].span \in SpanSet
      /\ group[i].events = Events(group[i].span)
      /\ Played = Events(group[1].span)
      /\ group[i].durations = DurationsOf(group[i].span)
      /\ group[1].durations = DurationsOf(group[1].span)
      /\ Key(group[i].span) = Key(group[1].span)
  BY <1>1, GroupIs DEF Played
<1>3. n \in Nat /\ DOMAIN Played = 1..n
  BY <1>2, EventsAre
<1>4. Len(Played) = n
  <2>1. Played \in Seq({Played[k] : k \in 1..n})
    <3>1. \A k \in 1..n : Played[k] \in {Played[j] : j \in 1..n}
      OBVIOUS
    <3>2. Played = [k \in 1..n |-> Played[k]]
      <4>1. Played = [k \in DOMAIN Events(group[1].span) |-> Played[k]]
        <5>1. Events(group[1].span) =
                [k \in DOMAIN SortedArrows(group[1].span) |->
                   Arrow(SortedArrows(group[1].span)[k].superscript,
                         LabelOf(group[1].span, SortedArrows(group[1].span)[k].name),
                         SortedArrows(group[1].span)[k].time)]
          BY DEF Events, LabelOf
        <5> QED
          BY <1>2, <5>1
      <4> QED
        BY <1>2, <1>3, <4>1
    <3> HIDE DEF Played, n
    <3>3. Played \in [1..n -> {Played[k] : k \in 1..n}]
      BY <3>1, <3>2
    <3> QED
      BY <1>3, <3>3, SeqDef
  <2> QED
    BY <1>3, <2>1, LenProperties, SMT
<1>5. /\ NumEvents(group[i].span) = n
      /\ \A k \in 1..n : Events(group[i].span)[k].superscript = Events(group[1].span)[k].superscript
      /\ Reached(Events(group[i].span)) = Reached(Events(group[1].span))
      /\ CutSet(Events(group[i].span)) = CutSet(Events(group[1].span))
      /\ \A k : CutsBefore(Events(group[i].span), k) = CutsBefore(Events(group[1].span), k)
      /\ DOMAIN DurationsOf(group[i].span) = DOMAIN DurationsOf(group[1].span)
  BY <1>2, SameKeys
<1> QED
  BY <1>2, <1>3, <1>4, <1>5

\* The durations under a name are numbers, one of each trace.
LEMMA DataPointsAre ==
  ASSUME GroupInv, NEW m \in 0..Len(group), group # <<>>, NEW n \in DOMAIN group[1].durations
  PROVE  /\ DataPoints(n, m) \in Seq(Int) /\ Len(DataPoints(n, m)) = m
         /\ \A i \in 1..m : DataPoints(n, m)[i] = group[i].durations[n]
<1>1. DOMAIN group = 1..Len(group) /\ Len(group) \in Nat
  BY LenProperties DEF GroupInv
<1>2. ASSUME NEW i \in 1..m PROVE group[i].durations[n] \in Int
  <2>1. i \in DOMAIN group
    BY <1>1
  <2>2. n \in DOMAIN group[i].durations
    BY <2>1, GroupShares
  <2>3. group[i].span \in SpanSet /\ group[i].durations = DurationsOf(group[i].span)
    BY <2>1, GroupIs
  <2> QED
    BY <2>2, <2>3, DurationTypes
<1>3. m \in Nat
  BY <1>1
<1>4. DataPoints(n, m) \in [1..m -> Int]
  BY <1>2 DEF DataPoints
<1>5. DataPoints(n, m) \in Seq(Int)
  BY <1>3, <1>4, SeqDef
<1>6. DOMAIN DataPoints(n, m) = 1..m
  BY DEF DataPoints
<1>7. Len(DataPoints(n, m)) = m
  BY <1>3, <1>5, <1>6, LenProperties, SMT
<1> QED
  BY <1>5, <1>7 DEF DataPoints

LEMMA CollectTraceStep ==
  ASSUME GroupInv, CollectInv, CollectTrace
  PROVE  CollectInv'
<1> DEFINE m == collected
           new == group[m + 1].durations
           old(n) == IF n \in DOMAIN durations THEN durations[n] ELSE [sum |-> 0, count |-> 0]
           N == DOMAIN group[1].durations
<1>1. /\ m \in Nat /\ m < Len(group) /\ Len(group) \in Nat /\ DOMAIN group = 1..Len(group)
      /\ m + 1 \in DOMAIN group /\ group # <<>>
  <2>1. Len(group) \in Nat /\ DOMAIN group = 1..Len(group)
    BY LenProperties DEF GroupInv
  <2>2. m \in Nat /\ m < Len(group)
    <3>1. m \in 0..Len(group)
      BY DEF CollectInv
    <3>2. m < Len(group)
      BY DEF CollectTrace
    <3> QED
      BY <2>1, <3>1, <3>2
  <2>3. phase = "collect"
    BY DEF CollectTrace
  <2>4. group # <<>>
    BY <2>3 DEF GroupInv
  <2> QED
    BY <2>1, <2>2, <2>4
<1>2. DOMAIN new = N
  BY <1>1, GroupShares
<1>3. /\ group' = group /\ collected' = m + 1
      /\ durations' = [n \in DOMAIN durations \cup DOMAIN new |->
                         IF n \in DOMAIN new
                         THEN [sum |-> old(n).sum + new[n], count |-> old(n).count + 1]
                         ELSE old(n)]
  BY DEF CollectTrace
<1>4. DOMAIN durations \cup N = N
  BY DEF CollectInv
<1>5. DOMAIN durations' = N
  BY <1>2, <1>3, <1>4
<1> HIDE DEF N, new
<1>6. ASSUME NEW n \in N
      PROVE  durations'[n] = [sum |-> Total(DataPoints(n, m + 1)), count |-> m + 1]
  <2>1. /\ DataPoints(n, m) \in Seq(Int) /\ Len(DataPoints(n, m)) = m
        /\ \A i \in 1..m : DataPoints(n, m)[i] = group[i].durations[n]
    BY <1>1, DataPointsAre DEF N
  <2>2. m + 1 \in 0..Len(group)
    BY <1>1
  <2>3. /\ DataPoints(n, m + 1) \in Seq(Int) /\ Len(DataPoints(n, m + 1)) = m + 1
        /\ \A i \in 1..(m + 1) : DataPoints(n, m + 1)[i] = group[i].durations[n]
    BY <1>1, <2>2, DataPointsAre DEF N
  <2>4. \A i \in 1..m : i \in 1..(m + 1)
    BY <1>1
  <2>5. Total(DataPoints(n, m + 1)) = Total(DataPoints(n, m)) + DataPoints(n, m + 1)[m + 1]
    BY <2>1, <2>3, <2>4, TotalGrows
  <2>6. DataPoints(n, m + 1)[m + 1] = new[n]
    <3>1. m + 1 \in 1..(m + 1)
      BY <1>1
    <3> QED
      BY <2>3, <3>1 DEF new
  <2>7. old(n).sum = Total(DataPoints(n, m)) /\ old(n).count = m
    <3>1. CASE m = 0
      <4>1. DOMAIN durations = {}
        BY <3>1 DEF CollectInv
      <4>2. Total(DataPoints(n, m)) = 0
        BY <2>1, <3>1, TotalType
      <4> QED
        BY <3>1, <4>1, <4>2
    <3>2. CASE m # 0
      <4>1. n \in DOMAIN durations
        BY <3>2 DEF CollectInv, N
      <4>2. durations[n] = [sum |-> Total(DataPoints(n, m)), count |-> m]
        BY <4>1 DEF CollectInv
      <4>3. old(n) = durations[n]
        BY <4>1
      <4> QED
        BY <4>2, <4>3
    <3> QED
      BY <3>1, <3>2
  <2> HIDE DEF old, m
  <2>8. durations'[n] = [sum |-> old(n).sum + new[n], count |-> old(n).count + 1]
    BY <1>2, <1>3, <1>4
  <2> QED
    BY <2>5, <2>6, <2>7, <2>8
<1>7. collected' \in 0..Len(group') /\ (phase' = "group" => collected' = 0)
      /\ (phase' \in {"replay", "done"} => collected' = Len(group'))
  <2>1. phase = "collect" /\ phase' = IF m + 1 = Len(group) THEN "replay" ELSE phase
    BY DEF CollectTrace
  <2>2. m + 1 \in 0..Len(group)
    BY <1>1
  <2> HIDE DEF m
  <2> QED
    BY <1>3, <2>1, <2>2
<1>8. collected' # 0
  BY <1>1, <1>3
<1>9. ASSUME NEW n \in DOMAIN durations'
      PROVE  durations'[n] = [sum |-> Total(DataPoints(n, collected)'), count |-> collected']
  <2>1. DataPoints(n, collected)' = DataPoints(n, m + 1)
    BY <1>3 DEF DataPoints
  <2> QED
    BY <1>3, <1>5, <1>6, <1>9, <2>1
<1>10. DOMAIN durations' = IF collected' = 0 THEN {} ELSE DOMAIN group[1].durations'
  BY <1>3, <1>5, <1>8 DEF N
<1> QED
  BY <1>7, <1>9, <1>10 DEF CollectInv

LEMMA CollectInvStep ==
  ASSUME GroupInv, CollectInv, [Next]_subspanVars
  PROVE  CollectInv'
<1>1. Len(group) \in Nat
  BY LenProperties DEF GroupInv
<1>2. ASSUME NEW t \in Traces, GroupTrace(t) PROVE CollectInv'
  <2>1. collected = 0 /\ collected' = 0 /\ phase' = "group" /\ durations' = durations
    BY <1>2 DEF GroupTrace, CollectInv
  <2>2. Len(group') \in Nat
    BY <1>2, AppendProperties, LenProperties DEF GroupTrace, GroupInv
  <2>3. DOMAIN durations = {}
    BY <2>1 DEF CollectInv
  <2> QED
    BY <2>1, <2>2, <2>3 DEF CollectInv
<1>3. CASE /\ UNCHANGED <<group, durations, collected>>
           /\ phase' = "group" => phase = "group"
           /\ phase' \in {"replay", "done"} => phase \in {"replay", "done"}
  <2>1. \A n : DataPoints(n, collected)' = DataPoints(n, collected)
    BY <1>3 DEF DataPoints
  <2> QED
    BY <1>3, <2>1 DEF CollectInv
<1>4. CASE GroupingEnds \/ ReplayCut \/ ReplayReceive \/ ReplayEnds \/ UNCHANGED subspanVars
  BY <1>3, <1>4 DEF GroupingEnds, ReplayCut, ReplayReceive, ReplayEnds, subspanVars
<1>5. CASE CollectTrace
  BY <1>5, CollectTraceStep
<1> QED
  BY <1>2, <1>4, <1>5 DEF Next

-----------------------------------------------------------------------------
(***************************************************************************)
(* The replay.                                                             *)
(***************************************************************************)
EventTimes(k) == [i \in 1..Len(group) |-> group[i].events[k].time - group[i].span.start]

LEMMA EventTimesAre ==
  ASSUME GroupInv, NEW k \in DOMAIN Played
  PROVE  /\ EventTimes(k) \in Seq(Int) /\ Len(EventTimes(k)) = Len(group)
         /\ \A i \in 1..Len(group) : /\ group[i].events[k].time \in Nat
                                     /\ group[i].span.start = 1
                                     /\ EventTimes(k)[i] = group[i].events[k].time - 1
         /\ SumOfEvent(k) = Total(EventTimes(k)) /\ SumOfEvent(k) \in Int
<1>1. DOMAIN group = 1..Len(group) /\ Len(group) \in Nat
  BY LenProperties DEF GroupInv
<1>2. ASSUME NEW i \in 1..Len(group)
      PROVE  group[i].events[k].time \in Nat /\ group[i].span.start = 1
  <2>1. i \in DOMAIN group
    BY <1>1
  <2>2. group[i].span \in SpanSet /\ group[i].events = Events(group[i].span)
    BY <2>1, GroupIs
  <2>3. k \in 1..NumEvents(group[i].span)
    BY <2>1, GroupShares
  <2> QED
    BY <2>2, <2>3, EventIs, SpanIs
<1>3. EventTimes(k) \in [1..Len(group) -> Int]
  BY <1>2 DEF EventTimes
<1>4. EventTimes(k) \in Seq(Int)
  BY <1>1, <1>3, SeqDef
<1>5. DOMAIN EventTimes(k) = 1..Len(group)
  BY DEF EventTimes
<1>6. Len(EventTimes(k)) = Len(group)
  BY <1>1, <1>4, <1>5, LenProperties, SMT
<1>7. SumOfEvent(k) = Total(EventTimes(k))
  BY DEF SumOfEvent, EventTimes
<1> QED
  BY <1>2, <1>4, <1>6, <1>7, TotalType DEF EventTimes

\* If in every trace event k comes so long after event j as the duration under a name
\* says, the sums of the two events differ by the total of these durations.
LEMMA SumAdvances ==
  ASSUME GroupInv, group # <<>>, NEW j \in DOMAIN Played, NEW k \in DOMAIN Played,
         NEW n \in DOMAIN group[1].durations,
         \A i \in 1..Len(group) :
           group[i].events[k].time = group[i].events[j].time + group[i].durations[n]
  PROVE  SumOfEvent(k) = SumOfEvent(j) + Total(DataPoints(n, Len(group)))
<1> DEFINE L == Len(group)
<1>1. L \in Nat /\ L \in 0..L
  BY LenProperties DEF GroupInv
<1>2. /\ DataPoints(n, L) \in Seq(Int) /\ Len(DataPoints(n, L)) = L
      /\ \A i \in 1..L : DataPoints(n, L)[i] = group[i].durations[n]
  BY <1>1, DataPointsAre
<1>3. /\ EventTimes(j) \in Seq(Int) /\ Len(EventTimes(j)) = L
      /\ \A i \in 1..L : EventTimes(j)[i] = group[i].events[j].time - 1
                         /\ group[i].events[j].time \in Nat
      /\ SumOfEvent(j) = Total(EventTimes(j))
  BY EventTimesAre
<1>4. /\ EventTimes(k) \in Seq(Int) /\ Len(EventTimes(k)) = L
      /\ \A i \in 1..L : EventTimes(k)[i] = group[i].events[k].time - 1
      /\ SumOfEvent(k) = Total(EventTimes(k))
  BY EventTimesAre
<1>5. ASSUME NEW i \in 1..L PROVE EventTimes(k)[i] = EventTimes(j)[i] + DataPoints(n, L)[i]
  <2>1. DataPoints(n, L)[i] \in Int
    BY <1>2, ElementOfSeq
  <2>2. group[i].events[k].time = group[i].events[j].time + DataPoints(n, L)[i]
    BY <1>2
  <2>3. /\ EventTimes(j)[i] = group[i].events[j].time - 1
        /\ group[i].events[j].time \in Nat
        /\ EventTimes(k)[i] = group[i].events[k].time - 1
    BY <1>3, <1>4
  <2> QED
    BY <2>1, <2>2, <2>3, SMT
<1> HIDE DEF L
<1>6. Total(EventTimes(k)) = Total(EventTimes(j)) + Total(DataPoints(n, L))
  <2>1. EventTimes(j) \in Seq(Int) /\ DataPoints(n, L) \in Seq(Int) /\ EventTimes(k) \in Seq(Int)
    BY <1>2, <1>3, <1>4
  <2>2. Len(EventTimes(j)) = Len(EventTimes(k)) /\ Len(DataPoints(n, L)) = Len(EventTimes(k))
    BY <1>2, <1>3, <1>4
  <2>3. \A i \in 1..Len(EventTimes(k)) :
          EventTimes(k)[i] = EventTimes(j)[i] + DataPoints(n, L)[i]
    BY <1>4, <1>5
  <2> QED
    BY <2>1, <2>2, <2>3, TotalAdds
<1> QED
  BY <1>3, <1>4, <1>6 DEF L

LEMMA Divides ==
  ASSUME NEW x \in Int, NEW n \in Nat, n # 0
  PROVE  (x * n) \div n = x
OBVIOUS

\* Every trace of the group has a duration under every name, so that the mean, times
\* the traces, is their total.
LEMMA MeanIs ==
  ASSUME GroupInv, CollectInv, phase \in {"replay", "done"}
  PROVE  /\ \A n \in DOMAIN group[1].durations :
              Mean(n) = Total(DataPoints(n, Len(group)))
         /\ \A n : Mean(n) \in Int
<1>1. Len(group) \in Nat /\ Len(group) # 0 /\ group # <<>> /\ collected = Len(group)
  <2>1. group # <<>>
    BY DEF GroupInv
  <2> QED
    BY <2>1, LenProperties, EmptySeq DEF GroupInv, CollectInv
<1>2. ASSUME NEW n \in DOMAIN group[1].durations
      PROVE  /\ Mean(n) = Total(DataPoints(n, Len(group)))
             /\ Total(DataPoints(n, Len(group))) \in Int
  <2>1. n \in DOMAIN durations
    BY <1>1 DEF CollectInv
  <2>2. durations[n] = [sum |-> Total(DataPoints(n, Len(group))), count |-> Len(group)]
    BY <1>1, <2>1 DEF CollectInv
  <2>3. Len(group) \in 0..Len(group)
    BY <1>1
  <2>4. DataPoints(n, Len(group)) \in Seq(Int)
    BY <1>1, <2>3, DataPointsAre
  <2>5. Total(DataPoints(n, Len(group))) \in Int
    BY <2>4, TotalType
  <2>6. Mean(n) = (Total(DataPoints(n, Len(group))) * Len(group)) \div Len(group)
    BY <2>1, <2>2 DEF Mean
  <2> QED
    BY <1>1, <2>5, <2>6, Divides
<1>3. DOMAIN durations = DOMAIN group[1].durations
  BY <1>1 DEF CollectInv
<1>4. ASSUME NEW n PROVE Mean(n) \in Int
  <2>1. CASE n \in DOMAIN durations
    BY <1>2, <1>3, <2>1
  <2>2. CASE n \notin DOMAIN durations
    BY <2>2 DEF Mean
  <2> QED
    BY <2>1, <2>2
<1> QED
  BY <1>2, <1>4

\* The callee that an event of its return belongs to, and the event of its call.
LEMMA CallOf ==
  ASSUME NEW sp \in SpanSet, NEW j \in 1..NumEvents(sp), NEW k \in 1..NumEvents(sp),
         Events(sp)[j].superscript = "forward", Events(sp)[k].superscript = "receive",
         Events(sp)[j].name = Events(sp)[k].name
  PROVE  /\ j < k
         /\ FullSpan(Events(sp)[k].name) \in DOMAIN DurationsOf(sp)
         /\ Events(sp)[k].time =
              Events(sp)[j].time + DurationsOf(sp)[FullSpan(Events(sp)[k].name)]
<1> DEFINE e == Events(sp)
<1>1. PICK c \in Callees : j = Pos(sp, Forward(sp, c))
  BY EventIs
<1>2. PICK d \in Callees : k = Pos(sp, Receive(sp, d))
  BY EventIs
<1>3. /\ \A a \in ArrowsOf(sp) :
           e[Pos(sp, a)].name = LabelOf(sp, a.name) /\ e[Pos(sp, a)].time = a.time
      /\ \A a, b \in ArrowsOf(sp) : Before(a, b) <=> Pos(sp, a) < Pos(sp, b)
  BY EventsAre
<1>4. /\ Forward(sp, c) \in ArrowsOf(sp) /\ Receive(sp, d) \in ArrowsOf(sp)
      /\ Forward(sp, c).name = c /\ Receive(sp, d).name = d /\ c # Self /\ d # Self
      /\ Forward(sp, c).time = sp.callees[c].start /\ Receive(sp, d).time = sp.callees[d].end
      /\ Forward(sp, c).superscript = "forward" /\ Receive(sp, d).superscript = "receive"
  BY ArrowFields
<1>5. /\ e[j].name = Label(sp, c) /\ e[j].time = sp.callees[c].start
      /\ e[k].name = Label(sp, d) /\ e[k].time = sp.callees[d].end
  BY <1>1, <1>2, <1>3, <1>4 DEF LabelOf
<1>6. c = d
  BY <1>5, LabelsDiffer
<1>7. /\ sp.callees[c].start \in Nat /\ sp.callees[c].end \in Nat
      /\ sp.callees[c].start <= sp.callees[c].end
  BY SpanIs
<1>8. Before(Forward(sp, c), Receive(sp, d))
  BY <1>4, <1>6, <1>7 DEF Before, Rank
<1>9. j < k
  BY <1>1, <1>2, <1>3, <1>4, <1>8
<1>10. /\ FullSpan(Label(sp, c)) \in DOMAIN DurationsOf(sp)
       /\ DurationsOf(sp)[FullSpan(Label(sp, c))] = sp.callees[c].end - sp.callees[c].start
  BY DurationOfCallee
<1> HIDE DEF e
<1>11. FullSpan(e[k].name) \in DOMAIN DurationsOf(sp)
       /\ e[k].time = e[j].time + DurationsOf(sp)[FullSpan(e[k].name)]
  BY <1>5, <1>6, <1>7, <1>10
<1> QED
  BY <1>9, <1>11 DEF e

LEMMA EveryReturnHasACall ==
  ASSUME NEW sp \in SpanSet, NEW k \in 1..NumEvents(sp), Events(sp)[k].superscript = "receive"
  PROVE  \E j \in 1..NumEvents(sp) :
           /\ Events(sp)[j].superscript = "forward" /\ Events(sp)[j].name = Events(sp)[k].name
           /\ \A i \in 1..NumEvents(sp) :
                Events(sp)[i].superscript = "forward" /\ Events(sp)[i].name = Events(sp)[k].name
                  => i = j
<1> DEFINE e == Events(sp)
<1>1. PICK c \in Callees : k = Pos(sp, Receive(sp, c))
  BY EventIs
<1>2. \A a \in ArrowsOf(sp) : /\ Pos(sp, a) \in 1..NumEvents(sp)
                              /\ e[Pos(sp, a)].name = LabelOf(sp, a.name)
                              /\ e[Pos(sp, a)].superscript = a.superscript
  BY EventsAre
<1>3. \A d \in Callees :
        /\ Forward(sp, d) \in ArrowsOf(sp) /\ Receive(sp, d) \in ArrowsOf(sp)
        /\ Forward(sp, d).name = d /\ Receive(sp, d).name = d /\ d # Self
        /\ Forward(sp, d).superscript = "forward" /\ Receive(sp, d).superscript = "receive"
  BY ArrowFields
<1>4. \A i \in 1..NumEvents(sp) :
        e[i].superscript = "forward" => \E d \in Callees : i = Pos(sp, Forward(sp, d))
  BY EventIs
<1> HIDE DEF e
<1>5. e[k].name = Label(sp, c)
  BY <1>1, <1>2, <1>3 DEF LabelOf
<1>6. \A d \in Callees : /\ Pos(sp, Forward(sp, d)) \in 1..NumEvents(sp)
                         /\ e[Pos(sp, Forward(sp, d))].superscript = "forward"
                         /\ e[Pos(sp, Forward(sp, d))].name = Label(sp, d)
  BY <1>2, <1>3 DEF LabelOf
<1>7. ASSUME NEW i \in 1..NumEvents(sp), e[i].superscript = "forward", e[i].name = e[k].name
      PROVE  i = Pos(sp, Forward(sp, c))
  <2>1. PICK d \in Callees : i = Pos(sp, Forward(sp, d))
    BY <1>4, <1>7
  <2>2. Label(sp, d) = Label(sp, c)
    BY <1>5, <1>6, <1>7, <2>1
  <2> QED
    BY <2>1, <2>2, LabelsDiffer
<1> QED
  BY <1>5, <1>6, <1>7 DEF e

LEMMA GroupUnchanged ==
  ASSUME UNCHANGED group
  PROVE  /\ Played' = Played /\ SameOrder' = SameOrder
         /\ \A k : SumOfEvent(k)' = SumOfEvent(k)
<1>1. Played' = Played
  BY DEF Played
<1>2. SameOrder' = SameOrder
  BY <1>1 DEF SameOrder
<1>3. ASSUME NEW k PROVE SumOfEvent(k)' = SumOfEvent(k)
  BY DEF SumOfEvent
<1> QED
  BY <1>1, <1>2, <1>3

\* The first event is the begin of the span.
LEMMA FirstEvent ==
  ASSUME GroupInv, group # <<>>
  PROVE  /\ 1 \in DOMAIN Played /\ ~Cuts(Played[1]) /\ SumOfEvent(1) = 0
         /\ Len(Played) \in Nat /\ 1 <= Len(Played) /\ DOMAIN Played = 1..Len(Played)
<1>1. Len(group) \in Nat /\ DOMAIN group = 1..Len(group) /\ Len(group) # 0
  BY LenProperties, EmptySeq DEF GroupInv
<1>2. 1 \in DOMAIN group
  BY <1>1
<1>3. /\ Len(Played) \in Nat /\ DOMAIN Played = 1..Len(Played)
      /\ Len(Played) = NumEvents(group[1].span)
  BY <1>2, GroupShares
<1>4. group[1].span \in SpanSet /\ Played = Events(group[1].span)
  BY <1>2, GroupIs DEF Played
<1>5. 1 \in DOMAIN Played /\ Played[1].superscript = "begin"
  BY <1>3, <1>4, EventIs
<1>6. ASSUME NEW i \in 1..Len(group) PROVE group[i].events[1].time = 1
  <2>1. i \in DOMAIN group
    BY <1>1
  <2> QED
    BY <2>1, GroupIs, EventIs
<1>7. \A i \in 1..Len(EventTimes(1)) : EventTimes(1)[i] = 0
  BY <1>5, <1>6, EventTimesAre
<1>8. SumOfEvent(1) = 0
  BY <1>5, <1>7, EventTimesAre, TotalOfZeros
<1> QED
  BY <1>3, <1>5, <1>8 DEF Cuts

LEMMA ReplayStarts ==
  ASSUME GroupInv, GroupInv', ReplayInv, CollectTrace
  PROVE  ReplayInv'
<1>1. /\ phase = "collect" /\ UNCHANGED <<group, startTime, subspanIdx>>
      /\ phase' \in {"collect", "replay"}
  BY DEF CollectTrace
<1>2. startTime = <<0>> /\ subspanIdx = 0 /\ group # <<>>
  BY <1>1 DEF ReplayInv, GroupInv
<1>3. /\ startTime' \in Seq(Int) /\ Len(startTime') = 1 /\ DOMAIN startTime' = {1}
      /\ startTime'[1] = 0
  BY <1>1, <1>2
<1>4. /\ 1 \in DOMAIN Played /\ ~Cuts(Played[1]) /\ SumOfEvent(1) = 0
      /\ Len(Played) \in Nat /\ 1 <= Len(Played)
  BY <1>2, FirstEvent
<1>5. Played' = Played /\ \A k : SumOfEvent(k)' = SumOfEvent(k)
  BY <1>1, GroupUnchanged
<1>6. Cardinality(CutsSoFar') = 0
  <2>1. CutsSoFar' = {k \in 1..Len(startTime') : Cuts(Played'[k])}
    BY DEF CutsSoFar, Cuts
  <2>2. CutsSoFar' = {}
    BY <1>3, <1>4, <1>5, <2>1
  <2> QED
    BY <2>2, FS_EmptySet
<1>7. \A k \in DOMAIN startTime' \cap Reached(Played)' : startTime'[k] = SumOfEvent(k)'
  BY <1>3, <1>4, <1>5
<1> QED
  BY <1>1, <1>2, <1>3, <1>4, <1>5, <1>6, <1>7 DEF ReplayInv

\* A step of the replay: what it has to be to go on with the invariant.
LEMMA ReplayAdvances ==
  ASSUME GroupInv, ReplayInv, phase = "replay", phase' = "replay", UNCHANGED group,
         Len(startTime) < Len(Played), NEW x \in Int, startTime' = Append(startTime, x),
         subspanIdx' = IF Cuts(Event) THEN subspanIdx + 1 ELSE subspanIdx,
         SameOrder /\ Len(startTime) + 1 \in Reached(Played)
           => x = SumOfEvent(Len(startTime) + 1)
  PROVE  ReplayInv'
<1> DEFINE m == Len(startTime)
<1>1. /\ startTime \in Seq(Int) /\ m \in Nat /\ m >= 1 /\ m < Len(Played)
      /\ subspanIdx = Cardinality(CutsSoFar)
  BY DEF ReplayInv
<1>2. /\ startTime' \in Seq(Int) /\ Len(startTime') = m + 1
      /\ \A k \in 1..m : startTime'[k] = startTime[k]
      /\ startTime'[m + 1] = x
      /\ DOMAIN startTime' = 1..(m + 1) /\ DOMAIN startTime = 1..m
  BY <1>1, AppendProperties, LenProperties
<1>3. Played' = Played /\ SameOrder' = SameOrder /\ \A k : SumOfEvent(k)' = SumOfEvent(k)
  BY GroupUnchanged
<1>4. Len(Played) \in Nat
  <2>1. group # <<>>
    BY DEF GroupInv
  <2> QED
    BY <2>1, FirstEvent
<1>5. CutsSoFar' = IF Cuts(Event) THEN CutsSoFar \cup {m + 1} ELSE CutsSoFar
  <2>1. CutsSoFar' = {k \in 1..(m + 1) : Cuts(Played[k])}
    BY <1>2, <1>3 DEF CutsSoFar, Cuts
  <2>2. 1..(m + 1) = 1..m \cup {m + 1}
    BY <1>1
  <2>3. CutsSoFar = {k \in 1..m : Cuts(Played[k])}
    BY DEF CutsSoFar
  <2>4. Event = Played[m + 1]
    BY DEF Event
  <2> HIDE DEF m
  <2> QED
    BY <2>1, <2>2, <2>3, <2>4
<1>6. IsFiniteSet(CutsSoFar) /\ m + 1 \notin CutsSoFar
  <2>1. CutsSoFar \in SUBSET (1..m)
    BY DEF CutsSoFar
  <2> HIDE DEF m
  <2>2. IsFiniteSet(1..m)
    BY <1>1, FS_Interval
  <2>3. m + 1 \notin 1..m
    BY <1>1
  <2> QED
    BY <2>1, <2>2, <2>3, FS_Subset
<1>7. subspanIdx' = Cardinality(CutsSoFar')
  <2>1. CASE Cuts(Event)
    <3>1. Cardinality(CutsSoFar \cup {m + 1}) = Cardinality(CutsSoFar) + 1
      BY <1>6, FS_AddElement
    <3> QED
      BY <1>1, <1>5, <2>1, <3>1
  <2>2. CASE ~Cuts(Event)
    BY <1>1, <1>5, <2>2
  <2> QED
    BY <2>1, <2>2
<1>8. ASSUME SameOrder', NEW k \in DOMAIN startTime' \cap Reached(Played)'
      PROVE  startTime'[k] = SumOfEvent(k)'
  <2>1. SameOrder /\ k \in Reached(Played) /\ (k \in 1..m \/ k = m + 1)
    BY <1>1, <1>2, <1>3, <1>8
  <2>2. CASE k \in 1..m
    <3>1. startTime[k] = SumOfEvent(k)
      BY <1>2, <2>1, <2>2 DEF ReplayInv
    <3> QED
      BY <1>2, <1>3, <2>2, <3>1
  <2>3. CASE k = m + 1
    BY <1>2, <1>3, <2>1, <2>3
  <2> QED
    BY <2>1, <2>2, <2>3
<1>9. Len(startTime') \in Nat /\ Len(startTime') >= 1 /\ Len(startTime') <= Len(Played')
  BY <1>1, <1>2, <1>3, <1>4
<1> QED
  BY <1>2, <1>7, <1>8, <1>9 DEF ReplayInv

\* A forward or the terminate event comes after the event before by the mean of the
\* subspan between them.
LEMMA ReplayCutStep ==
  ASSUME GroupInv, CollectInv, ReplayInv, ReplayCut
  PROVE  ReplayInv'
<1> DEFINE m == Len(startTime)
           n == Subspan(subspanIdx)
           x == startTime[m] + Mean(n)
<1>1. /\ startTime \in Seq(Int) /\ m \in Nat /\ m >= 1 /\ m < Len(Played)
      /\ subspanIdx = Cardinality(CutsSoFar) /\ phase = "replay" /\ Cuts(Played[m + 1])
  BY DEF ReplayInv, ReplayCut, Event
<1>2. group # <<>> /\ Len(Played) \in Nat /\ DOMAIN Played = 1..Len(Played)
  <2>1. group # <<>>
    BY <1>1 DEF GroupInv
  <2> QED
    BY <2>1, FirstEvent
<1>3. m \in DOMAIN Played /\ m + 1 \in DOMAIN Played /\ m \in DOMAIN startTime
      /\ startTime[m] \in Int
  <2>1. DOMAIN startTime = 1..m
    BY <1>1, LenProperties
  <2>2. m \in 1..m
    BY <1>1
  <2> QED
    BY <1>1, <1>2, <2>1, <2>2, ElementOfSeq
<1>4. x \in Int
  BY <1>1, <1>3, MeanIs
<1>5. ASSUME SameOrder, m + 1 \in Reached(Played)
      PROVE  x = SumOfEvent(m + 1)
  <2>1. m + 1 \in CutSet(Played)
    BY <1>1, <1>5 DEF CutSet
  <2>2. CutsSoFar = CutsBefore(Played, m + 1)
    <3>1. \A k \in 1..m : k \in Reached(Played)
      <4>1. \A j \in 1..((m + 1) - 1) : Played[j].superscript # "terminate"
        BY <1>5 DEF Reached
      <4>2. ASSUME NEW k \in 1..m PROVE \A j \in 1..(k - 1) : j \in 1..((m + 1) - 1)
        BY <1>1
      <4>3. \A k \in 1..m : k \in DOMAIN Played
        BY <1>1, <1>2
      <4> QED
        BY <4>1, <4>2, <4>3 DEF Reached
    <3>2. ASSUME NEW k \in CutsSoFar PROVE k \in CutsBefore(Played, m + 1)
      BY <1>1, <3>1, <3>2 DEF CutsSoFar, CutsBefore, CutSet
    <3>3. ASSUME NEW k \in CutsBefore(Played, m + 1) PROVE k \in CutsSoFar
      <4>1. k \in 1..Len(Played) /\ k < m + 1 /\ Cuts(Played[k])
        BY <1>2 DEF CutsBefore, CutSet, Reached
      <4>2. k \in 1..m
        BY <1>1, <1>2, <4>1
      <4> QED
        BY <4>1, <4>2 DEF CutsSoFar
    <3> QED
      BY <3>2, <3>3
  <2>3. ASSUME NEW i \in 1..Len(group)
        PROVE  /\ n \in DOMAIN group[i].durations
               /\ group[i].events[m + 1].time
                    = group[i].events[m].time + group[i].durations[n]
    <3>1. i \in DOMAIN group
      BY LenProperties DEF GroupInv
    <3>2. group[i].span \in SpanSet /\ group[i].events = Events(group[i].span)
          /\ group[i].durations = DurationsOf(group[i].span)
      BY <3>1, GroupIs
    <3>3. /\ CutSet(group[i].events) = CutSet(Played)
          /\ CutsBefore(group[i].events, m + 1) = CutsBefore(Played, m + 1)
      BY <3>1, GroupShares
    <3>4. m + 1 \in CutSet(Events(group[i].span))
          /\ n = Subspan(Cardinality(CutsBefore(Events(group[i].span), m + 1)))
      BY <1>1, <2>1, <2>2, <3>2, <3>3
    <3>5. /\ n \in DOMAIN group[i].durations
          /\ group[i].durations[n]
               = group[i].events[m + 1].time - Previous(group[i].events, m + 1)
      BY <3>2, <3>4, DurationOfCut
    <3>6. Previous(group[i].events, m + 1) = group[i].events[m].time
      <4>1. m + 1 # 1 /\ (m + 1) - 1 = m
        BY <1>1
      <4> HIDE DEF m
      <4> QED
        BY <4>1 DEF Previous
    <3>7. group[i].events[m].time \in Nat /\ group[i].events[m + 1].time \in Nat
      BY <1>3, EventTimesAre
    <3> QED
      BY <3>5, <3>6, <3>7
  <2>4. n \in DOMAIN group[1].durations
    <3>1. 1 \in 1..Len(group)
      BY <1>2, LenProperties, EmptySeq DEF GroupInv
    <3> QED
      BY <2>3, <3>1
  <2>5. SumOfEvent(m + 1) = SumOfEvent(m) + Total(DataPoints(n, Len(group)))
    <3> HIDE DEF n, m
    <3> QED
      BY <1>2, <1>3, <2>3, <2>4, SumAdvances
  <2>6. Mean(n) = Total(DataPoints(n, Len(group)))
    BY <1>1, <2>4, MeanIs
  <2>7. startTime[m] = SumOfEvent(m)
    <3>1. m \in Reached(Played)
      <4>1. \A j \in 1..(m - 1) : j \in 1..((m + 1) - 1)
        BY <1>1
      <4> QED
        BY <1>3, <1>5, <4>1 DEF Reached
    <3> QED
      BY <1>1, <1>3, <1>5, <3>1 DEF ReplayInv
  <2> QED
    BY <2>5, <2>6, <2>7
<1>6. /\ phase' = "replay" /\ UNCHANGED group /\ startTime' = Append(startTime, x)
      /\ subspanIdx' = IF Cuts(Event) THEN subspanIdx + 1 ELSE subspanIdx
  BY DEF ReplayCut
<1> HIDE DEF x
<1> QED
  BY <1>1, <1>4, <1>5, <1>6, ReplayAdvances

\* A return comes after the event of its call by the mean of the callee's duration.
LEMMA ReplayReceiveStep ==
  ASSUME GroupInv, CollectInv, ReplayInv, ReplayReceive
  PROVE  ReplayInv'
<1> DEFINE m == Len(startTime)
           n == FullSpan(Event.name)
           called == CHOOSE k \in DOMAIN Played :
                       Played[k].superscript = "forward" /\ Played[k].name = Event.name
           x == startTime[called] + Mean(n)
           N == NumEvents(group[1].span)
<1>1. /\ startTime \in Seq(Int) /\ m \in Nat /\ m >= 1 /\ m < Len(Played)
      /\ phase = "replay" /\ Event = Played[m + 1] /\ Event.superscript = "receive"
  BY DEF ReplayInv, ReplayReceive, Event
<1>2. /\ group # <<>> /\ 1 \in DOMAIN group /\ DOMAIN group = 1..Len(group)
      /\ N \in Nat /\ DOMAIN Played = 1..N /\ Len(Played) = N
      /\ group[1].span \in SpanSet /\ Played = Events(group[1].span)
  <2>1. group # <<>>
    BY <1>1 DEF GroupInv
  <2>2. 1 \in DOMAIN group /\ DOMAIN group = 1..Len(group)
    BY <2>1, LenProperties, EmptySeq DEF GroupInv
  <2> QED
    BY <2>1, <2>2, GroupShares, GroupIs DEF Played
<1>3. m + 1 \in 1..N /\ DOMAIN startTime = 1..m
  BY <1>1, <1>2, LenProperties
<1>4. PICK j \in 1..N :
        /\ Played[j].superscript = "forward" /\ Played[j].name = Event.name
        /\ \A i \in 1..N :
             Played[i].superscript = "forward" /\ Played[i].name = Event.name => i = j
  <2> DEFINE sp == group[1].span
             k == m + 1
  <2>1. /\ sp \in SpanSet /\ k \in 1..NumEvents(sp) /\ Events(sp)[k].superscript = "receive"
        /\ Events(sp) = Played /\ NumEvents(sp) = N /\ Event = Played[k]
    BY <1>1, <1>2, <1>3
  <2> HIDE DEF k, sp, N
  <2>2. \E j \in 1..NumEvents(sp) :
           /\ Events(sp)[j].superscript = "forward" /\ Events(sp)[j].name = Events(sp)[k].name
           /\ \A i \in 1..NumEvents(sp) :
                Events(sp)[i].superscript = "forward" /\ Events(sp)[i].name = Events(sp)[k].name
                  => i = j
    BY <2>1, EveryReturnHasACall
  <2> QED
    BY <2>1, <2>2
<1>5. called = j
  BY <1>2, <1>4
<1> HIDE DEF called
<1>6. j < m + 1 /\ n \in DOMAIN group[1].durations
  <2>1. group[1].durations = DurationsOf(group[1].span)
    BY <1>2, GroupIs
  <2> HIDE DEF m
  <2> QED
    BY <1>1, <1>2, <1>3, <1>4, <2>1, CallOf
<1>7. j \in 1..m /\ startTime[j] \in Int
  <2>1. j \in 1..m
    BY <1>1, <1>6
  <2> QED
    BY <1>1, <2>1, ElementOfSeq
<1>8. x \in Int
  BY <1>1, <1>5, <1>7, MeanIs
<1>9. ASSUME SameOrder, m + 1 \in Reached(Played)
      PROVE  x = SumOfEvent(m + 1)
  <2>1. ASSUME NEW i \in 1..Len(group)
        PROVE  group[i].events[m + 1].time = group[i].events[j].time + group[i].durations[n]
    <3>1. i \in DOMAIN group
      BY <1>2
    <3>2. group[i].span \in SpanSet /\ group[i].events = Events(group[i].span)
          /\ group[i].durations = DurationsOf(group[i].span)
      BY <3>1, GroupIs
    <3>3. /\ NumEvents(group[i].span) = N
          /\ \A k \in 1..N : group[i].events[k].superscript = Played[k].superscript
      BY <3>1, GroupShares
    <3>4. DOMAIN group[i].events = 1..N
      BY <3>2, <3>3, EventsAre
    <3>5. group[i].events[j].name = Event.name /\ group[i].events[m + 1].name = Event.name
      BY <1>1, <1>3, <1>4, <1>9, <3>1, <3>4 DEF SameOrder
    <3>6. /\ group[i].events[j].superscript = "forward"
          /\ group[i].events[m + 1].superscript = "receive"
      BY <1>1, <1>3, <1>4, <3>3
    <3> HIDE DEF m, N
    <3>7. Events(group[i].span)[m + 1].time =
            Events(group[i].span)[j].time
              + DurationsOf(group[i].span)[FullSpan(Events(group[i].span)[m + 1].name)]
      BY <1>3, <3>2, <3>3, <3>5, <3>6, CallOf
    <3> QED
      BY <3>2, <3>5, <3>7
  <2>2. SumOfEvent(m + 1) = SumOfEvent(j) + Total(DataPoints(n, Len(group)))
    <3>1. j \in DOMAIN Played /\ m + 1 \in DOMAIN Played
      BY <1>2, <1>3
    <3> HIDE DEF n, m
    <3> QED
      BY <1>2, <1>6, <2>1, <3>1, SumAdvances
  <2>3. Mean(n) = Total(DataPoints(n, Len(group)))
    BY <1>1, <1>6, MeanIs
  <2>4. startTime[j] = SumOfEvent(j)
    <3>1. j \in Reached(Played)
      <4>1. \A i \in 1..(j - 1) : i \in 1..((m + 1) - 1)
        BY <1>1, <1>7
      <4> QED
        BY <1>2, <1>4, <1>9, <4>1 DEF Reached
    <3> QED
      BY <1>1, <1>3, <1>7, <1>9, <3>1 DEF ReplayInv
  <2> QED
    BY <1>5, <2>2, <2>3, <2>4
<1>10. /\ phase' = "replay" /\ UNCHANGED <<group, subspanIdx>> /\ ~Cuts(Event)
       /\ startTime' = Append(startTime, x)
  BY <1>1 DEF ReplayReceive, called, Cuts
<1> HIDE DEF x
<1> QED
  BY <1>1, <1>8, <1>9, <1>10, ReplayAdvances

LEMMA ReplayInvStep ==
  ASSUME GroupInv, GroupInv', CollectInv, ReplayInv, [Next]_subspanVars
  PROVE  ReplayInv'
<1>1. CASE (\E t \in Traces : GroupTrace(t)) \/ GroupingEnds
  <2>1. /\ UNCHANGED <<startTime, subspanIdx>> /\ phase = "group"
        /\ phase' \in {"group", "collect"}
    BY <1>1 DEF GroupTrace, GroupingEnds
  <2> QED
    BY <2>1 DEF ReplayInv
<1>2. CASE UNCHANGED <<group, startTime, subspanIdx>>
           /\ (phase' \in {"replay", "done"} <=> phase \in {"replay", "done"})
           /\ (phase' \in {"group", "collect"} => phase \in {"group", "collect"})
  <2>1. Played' = Played /\ SameOrder' = SameOrder /\ \A k : SumOfEvent(k)' = SumOfEvent(k)
    BY <1>2, GroupUnchanged
  <2>2. CutsSoFar' = CutsSoFar
    BY <1>2, <2>1 DEF CutsSoFar, Cuts
  <2> QED
    BY <1>2, <2>1, <2>2 DEF ReplayInv
<1>3. CASE ReplayEnds \/ UNCHANGED subspanVars
  BY <1>2, <1>3 DEF ReplayEnds, subspanVars
<1>4. CASE CollectTrace \/ ReplayCut \/ ReplayReceive
  BY <1>4, ReplayStarts, ReplayCutStep, ReplayReceiveStep
<1> QED
  BY <1>1, <1>3, <1>4 DEF Next

LEMMA SubspanInvAlways == Spec => []SubspanInv
<1>1. Init => SubspanInv
  <2> SUFFICES ASSUME Init PROVE SubspanInv
    OBVIOUS
  <2>1. group = <<>> /\ phase = "group" /\ durations = <<>> /\ collected = 0
        /\ startTime = <<0>> /\ subspanIdx = 0
    BY DEF Init
  <2>2. GroupInv
    BY <2>1 DEF GroupInv
  <2>3. CollectInv
    BY <2>1 DEF CollectInv
  <2>4. ReplayInv
    BY <2>1 DEF ReplayInv
  <2> QED
    BY <2>2, <2>3, <2>4 DEF SubspanInv
<1>2. SubspanInv /\ [Next]_subspanVars => SubspanInv'
  <2> SUFFICES ASSUME GroupInv, CollectInv, ReplayInv, [Next]_subspanVars PROVE SubspanInv'
    BY DEF SubspanInv
  <2>1. GroupInv'
    BY GroupInvStep
  <2> QED
    BY <2>1, CollectInvStep, ReplayInvStep DEF SubspanInv
<1> QED
  BY <1>1, <1>2, PTL DEF Spec

\* The aggregate trace of a group of any size, whose traces agree on the callee each
\* event belongs to, shows every event up to the end of the span at the mean of its
\* instants in the traces.
THEOREM SameOrderGroupsReplayedAtMean == Spec => []SameOrderReplayedAtMean
<1>1. SubspanInv => SameOrderReplayedAtMean
  BY DEF SubspanInv, ReplayInv, SameOrderReplayedAtMean, ReplayedAtMean
<1> QED
  BY <1>1, SubspanInvAlways, PTL
=============================================================================
