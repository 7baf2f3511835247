---------------------------- MODULE PositionLemmas ----------------------------
(***************************************************************************)
(* Positions and sequences.  The position an executor goes on at is the    *)
(* least of a set of positions (Min of FiniteSetsExt, a CHOOSE): that it   *)
(* is what its name says, for the executors of both platforms.  A plan is  *)
(* flattened from lists of operations (FlattenSeq, a recursive function):  *)
(* where in the result each of them comes to stand, for the planner.       *)
(***************************************************************************)
EXTENDS Naturals, Sequences, SequencesExt, FiniteSetsExt, FiniteSetTheorems, SequenceTheorems, TLAPS

\* A set of positions that is not empty has a first one, and Min is it: the loop
\* of broker.go:250-254 stops at the first operation that is not passed over.
LEMMA FirstPosition ==
  ASSUME NEW n \in Nat, NEW todo \in SUBSET (1..n), todo # {}
  PROVE  Min(todo) \in todo /\ \A j \in todo : Min(todo) <= j
<1> DEFINE Before(i) == {j \in todo : j < i}
           initial == {Before(i) : i \in todo}
           R == StrictSubsetOrdering(1..n)
<1>1. todo \subseteq Nat /\ IsFiniteSet(1..n)
  BY FS_Interval
<1>2. IsWellFoundedOn(R, FiniteSubsetsOf(1..n))
  BY FS_StrictSubsetOrderingWellFounded
<1>3. initial \subseteq FiniteSubsetsOf(1..n) /\ initial # {}
  <2>1. \A i \in todo : Before(i) \in SUBSET (1..n)
    OBVIOUS
  <2>2. \A T \in SUBSET (1..n) : IsFiniteSet(T)
    BY <1>1, FS_Subset
  <2> HIDE DEF Before
  <2> QED BY <2>1, <2>2 DEF FiniteSubsetsOf
<1> HIDE DEF initial, R
<1>4. PICK first \in initial : \A b \in initial : ~(<<b, first>> \in R)
  BY <1>2, <1>3, WFMin
<1> USE DEF initial, R
<1>5. PICK i \in todo : first = Before(i)
  OBVIOUS
<1>6. ASSUME NEW j \in todo, j < i PROVE FALSE
  <2>1. Before(j) \subseteq Before(i)
    <3> SUFFICES ASSUME NEW k \in todo, k < j PROVE k < i
      OBVIOUS
    <3> QED BY <1>1, <1>5, <1>6
  <2>2. j \in Before(i) /\ j \notin Before(j)
    BY <1>1, <1>5, <1>6
  <2>3. <<Before(j), Before(i)>> \in R
    BY <2>1, <2>2 DEF StrictSubsetOrdering
  <2> HIDE DEF Before, R
  <2>4. Before(j) \in initial
    OBVIOUS
  <2> QED BY <1>4, <1>5, <2>3, <2>4
<1>7. i \in todo /\ \A j \in todo : i <= j
  BY <1>1, <1>5, <1>6
<1> QED BY <1>7 DEF Min

-----------------------------------------------------------------------------
(* Sequences.                                                              *)

LEMMA FrontProperties ==
  ASSUME NEW S, NEW s \in Seq(S), s # <<>>
  PROVE  /\ Len(s) \in Nat \ {0} /\ Last(s) = s[Len(s)] /\ Last(s) \in S
         /\ Front(s) \in Seq(S) /\ Len(Front(s)) = Len(s) - 1
         /\ \A i \in 1..(Len(s) - 1) : Front(s)[i] = s[i]
<1> DEFINE m == Len(s) - 1
<1>1. Len(s) \in Nat \ {0} /\ 1 \in Int /\ m \in Int /\ \A i \in 1..m : s[i] \in S
  OBVIOUS
<1>2. /\ SubSeq(s, 1, m) \in Seq(S)
      /\ Len(SubSeq(s, 1, m)) = IF 1 <= m THEN m - 1 + 1 ELSE 0
      /\ \A i \in 1..(m - 1 + 1) : SubSeq(s, 1, m)[i] = s[1 + i - 1]
  <2> HIDE DEF m
  <2> QED BY <1>1, SubSeqProperties, SMTT(30)
<1>3. Len(SubSeq(s, 1, m)) = m /\ \A i \in 1..m : SubSeq(s, 1, m)[i] = s[i]
  <2>1. m \in Nat /\ m - 1 + 1 = m /\ \A i \in 1..m : 1 + i - 1 = i
    BY <1>1
  <2> QED BY <1>2, <2>1
<1>4. Last(s) = s[Len(s)] /\ Last(s) \in S
  BY <1>1 DEF Last
<1> QED BY <1>1, <1>2, <1>3, <1>4 DEF Front

LEMMA FunctionIsSeq ==
  ASSUME NEW T, NEW n \in Nat, NEW f \in [1..n -> T]
  PROVE  f \in Seq(T) /\ Len(f) = n /\ DOMAIN f = 1..n
OBVIOUS

LEMMA PairIsSeq ==
  ASSUME NEW T, NEW a \in T, NEW b \in T
  PROVE  /\ <<a, b>> \in Seq(T) /\ Len(<<a, b>>) = 2
         /\ <<a, b>>[1] = a /\ <<a, b>>[2] = b
OBVIOUS

\* The members of a sequence, by position.
LEMMA SeqMembers ==
  ASSUME NEW S, NEW s \in Seq(S)
  PROVE  /\ Len(s) \in Nat /\ DOMAIN s = 1..Len(s) /\ ToSet(s) = {s[k] : k \in 1..Len(s)}
         /\ \A k \in 1..Len(s) : s[k] \in ToSet(s) /\ s[k] \in S
BY DEF ToSet

\* g is the recursive function of FlattenSeq, up to the m-th list.
Flattening(seqs, g, m) ==
  g = [i \in 1..m |-> IF i = 1 THEN seqs[i] ELSE g[i - 1] \o seqs[i]]

LEMMA FlattenRecursion ==
  ASSUME NEW S, NEW seqs \in Seq(Seq(S)), seqs # <<>>
  PROVE  \E g : Flattening(seqs, g, Len(seqs)) /\ FlattenSeq(seqs) = g[Len(seqs)]
<1> DEFINE n == Len(seqs)
           bad == {m \in 1..n : ~\E g : Flattening(seqs, g, m)}
<1>1. n \in Nat \ {0}
  OBVIOUS
<1>2. bad = {}
  <2> SUFFICES ASSUME bad # {} PROVE FALSE
    OBVIOUS
  <2> DEFINE m == Min(bad)
  <2>1. bad \in SUBSET (1..n)
    OBVIOUS
  <2>2. m \in bad /\ \A j \in bad : m <= j
    <3> HIDE DEF bad
    <3> QED BY <1>1, <2>1, FirstPosition
  <2>3. m \in 1..n /\ ~\E g : Flattening(seqs, g, m)
    BY <2>2
  <2> HIDE DEF m
  <2>4. CASE m = 1
    <3> DEFINE g == [i \in 1..1 |-> seqs[i]]
    <3>1. g = [i \in 1..1 |-> IF i = 1 THEN seqs[i] ELSE g[i - 1] \o seqs[i]]
      OBVIOUS
    <3> QED BY <2>3, <2>4, <3>1 DEF Flattening
  <2>5. CASE m # 1
    <3> HIDE DEF bad, n
    <3>0. m \in Nat /\ n \in Nat /\ m - 1 \in 1..n
      BY <1>1, <2>3, <2>5
    <3>1. m - 1 \notin bad
      BY <2>2, <3>0
    <3> USE DEF bad
    <3>2. PICK h : Flattening(seqs, h, m - 1)
      BY <3>0, <3>1
    <3> DEFINE g == [i \in 1..m |-> IF i = m THEN h[m - 1] \o seqs[m] ELSE h[i]]
    <3>3. \A i \in 1..(m - 1) : h[i] = IF i = 1 THEN seqs[i] ELSE h[i - 1] \o seqs[i]
      BY <3>2 DEF Flattening
    <3>4. ASSUME NEW i \in 1..m
          PROVE  g[i] = IF i = 1 THEN seqs[i] ELSE g[i - 1] \o seqs[i]
      <4>1. CASE i = m
        <5>1. g[i] = h[m - 1] \o seqs[m]
          BY <4>1
        <5>2a. m - 1 \in 1..m /\ m - 1 # m
          BY <3>0, <2>3, <2>5
        <5>2. g[m - 1] = h[m - 1]
          BY <5>2a
        <5> QED BY <5>1, <5>2, <4>1, <2>5
      <4>2. CASE i # m
        <5>1. i \in 1..(m - 1) /\ g[i] = h[i]
          BY <2>3, <4>2
        <5>2. i # 1 => i - 1 \in 1..m /\ i - 1 # m /\ g[i - 1] = h[i - 1]
          BY <2>3, <4>2
        <5> QED BY <5>1, <5>2, <3>3
      <4> QED BY <4>1, <4>2
    <3>5. g = [i \in 1..m |-> IF i = 1 THEN seqs[i] ELSE g[i - 1] \o seqs[i]]
      <4> DEFINE k == [i \in 1..m |-> IF i = 1 THEN seqs[i] ELSE g[i - 1] \o seqs[i]]
      <4>1. \A i \in 1..m : g[i] = k[i]
        BY <3>4
      <4>2. g = [i \in 1..m |-> g[i]] /\ k = [i \in 1..m |-> k[i]]
        OBVIOUS
      <4> HIDE DEF g, k
      <4>3. g = k
        BY <4>1, <4>2
      <4> QED BY <4>3 DEF k
    <3> QED BY <2>3, <3>5 DEF Flattening
  <2> QED BY <2>4, <2>5
<1>3. \E g : Flattening(seqs, g, n)
  <2>1. n \in 1..n
    BY <1>1
  <2> HIDE DEF n
  <2> QED BY <1>2, <2>1
<1> DEFINE flatten == CHOOSE g : Flattening(seqs, g, n)
<1>4. Flattening(seqs, flatten, n)
  BY <1>3
<1>5. FlattenSeq(seqs) = flatten[n]
  BY <1>1 DEF FlattenSeq, Flattening
<1> QED BY <1>4, <1>5

\* flat lists the elements of the first m lists: its i-th is at place[i] of the
\* block[i]-th list, and none is left out or out of order.
Layout(seqs, m, flat, block, place) ==
  /\ block \in [1..Len(flat) -> 1..m] /\ place \in [1..Len(flat) -> Nat \ {0}]
  /\ \A i \in 1..Len(flat) :
       place[i] <= Len(seqs[block[i]]) /\ flat[i] = seqs[block[i]][place[i]]
  /\ \A i, j \in 1..Len(flat) :
       i < j => block[i] < block[j] \/ (block[i] = block[j] /\ place[i] < place[j])
  /\ \A k \in 1..m : \A l \in 1..Len(seqs[k]) :
       \E i \in 1..Len(flat) : block[i] = k /\ place[i] = l

LEMMA LayoutGrows ==
  ASSUME NEW S, NEW seqs \in Seq(Seq(S)), NEW m \in Nat, m + 1 \in 1..Len(seqs),
         NEW flat \in Seq(S), NEW block, NEW place, Layout(seqs, m, flat, block, place)
  PROVE  \E b, p : Layout(seqs, m + 1, flat \o seqs[m + 1], b, p)
<1> DEFINE last == seqs[m + 1]
           L == Len(flat)
           longer == flat \o last
           b == [i \in 1..Len(longer) |-> IF i <= L THEN block[i] ELSE m + 1]
           p == [i \in 1..Len(longer) |-> IF i <= L THEN place[i] ELSE i - L]
<1>1. last \in Seq(S) /\ L \in Nat /\ Len(last) \in Nat
  OBVIOUS
<1>2. /\ Len(longer) = L + Len(last)
      /\ \A i \in 1..(L + Len(last)) : longer[i] = IF i <= L THEN flat[i] ELSE last[i - L]
  <2> HIDE DEF last
  <2> QED BY <1>1, ConcatProperties
<1> HIDE DEF longer
<1>3. /\ \A i \in 1..L : i \in 1..Len(longer) /\ b[i] = block[i] /\ p[i] = place[i] /\ longer[i] = flat[i]
                            /\ b[i] \in 1..m /\ p[i] \in Nat \ {0}
      /\ \A i \in (L + 1)..Len(longer) : b[i] = m + 1 /\ p[i] = i - L /\ longer[i] = last[i - L]
  <2>1. \A i \in 1..L : block[i] \in 1..m /\ place[i] \in Nat \ {0}
    BY DEF Layout
  <2>2. ASSUME NEW i \in 1..L
        PROVE  i \in 1..Len(longer) /\ b[i] = block[i] /\ p[i] = place[i] /\ longer[i] = flat[i]
    <3>1. i \in 1..Len(longer) /\ i <= L
      <4> HIDE DEF last, L
      <4> QED BY <1>1, <1>2
    <3> QED BY <1>2, <3>1
  <2>3. ASSUME NEW i \in (L + 1)..Len(longer)
        PROVE  b[i] = m + 1 /\ p[i] = i - L /\ longer[i] = last[i - L]
    <3>1. i \in 1..Len(longer) /\ ~(i <= L)
      <4> HIDE DEF last, L
      <4> QED BY <1>1, <1>2
    <3> QED BY <1>2, <3>1
  <2> QED BY <2>1, <2>2, <2>3
<1>4. \A i \in 1..Len(longer) : i \in 1..L \/ i \in (L + 1)..Len(longer)
  BY <1>1, <1>2
<1>5. b \in [1..Len(longer) -> 1..(m + 1)] /\ p \in [1..Len(longer) -> Nat \ {0}]
  <2>1. \A i \in 1..Len(longer) : b[i] \in 1..(m + 1) /\ p[i] \in Nat \ {0}
    <3> HIDE DEF b, p, L
    <3> QED BY <1>1, <1>3, <1>4
  <2>2. b = [i \in 1..Len(longer) |-> b[i]] /\ p = [i \in 1..Len(longer) |-> p[i]]
    OBVIOUS
  <2> HIDE DEF b, p
  <2> QED BY <2>1, <2>2
<1> HIDE DEF b, p
<1>6. ASSUME NEW i \in 1..Len(longer)
      PROVE  p[i] <= Len(seqs[b[i]]) /\ longer[i] = seqs[b[i]][p[i]]
  <2>1. CASE i \in 1..L
    BY <2>1, <1>3 DEF Layout
  <2>2. CASE i \in (L + 1)..Len(longer)
    BY <2>2, <1>1, <1>2, <1>3
  <2> QED BY <2>1, <2>2, <1>4
<1>7. ASSUME NEW i \in 1..Len(longer), NEW j \in 1..Len(longer), i < j
      PROVE  b[i] < b[j] \/ (b[i] = b[j] /\ p[i] < p[j])
  <2>1. CASE j \in 1..L
    <3>1. i \in 1..L
      BY <2>1, <1>7, <1>1
    <3> QED BY <2>1, <3>1, <1>3, <1>7 DEF Layout
  <2>2. CASE j \in (L + 1)..Len(longer)
    <3>1. CASE i \in 1..L
      <4>1. b[i] \in 1..m /\ b[j] = m + 1
        BY <2>2, <3>1, <1>3
      <4> QED BY <4>1
    <3>2. CASE i \in (L + 1)..Len(longer)
      BY <2>2, <3>2, <1>1, <1>3, <1>7
    <3> QED BY <3>1, <3>2, <1>4
  <2> QED BY <2>1, <2>2, <1>4
<1>8. ASSUME NEW k \in 1..(m + 1), NEW l \in 1..Len(seqs[k])
      PROVE  \E i \in 1..Len(longer) : b[i] = k /\ p[i] = l
  <2>1. CASE k = m + 1
    <3>1. l \in 1..Len(last)
      BY <2>1
    <3>2. L + l \in (L + 1)..Len(longer) /\ L + l \in 1..Len(longer) /\ L + l - L = l
      <4> HIDE DEF last, L
      <4> QED BY <3>1, <1>1, <1>2
    <3>3. b[L + l] = k /\ p[L + l] = l
      BY <3>2, <1>3, <2>1
    <3> QED BY <3>2, <3>3
  <2>2. CASE k # m + 1
    <3>1. k \in 1..m
      BY <2>2
    <3>2. PICK i \in 1..L : block[i] = k /\ place[i] = l
      BY <3>1 DEF Layout
    <3> QED BY <3>2, <1>3
  <2> QED BY <2>1, <2>2
<1>9. Layout(seqs, m + 1, longer, b, p)
  BY <1>5, <1>6, <1>7, <1>8 DEF Layout
<1> QED BY <1>9 DEF longer

\* The concatenation of no lists.
LEMMA EmptyLayout ==
  ASSUME NEW seqs
  PROVE  \E b, p : Layout(seqs, 0, <<>>, b, p)
<1> DEFINE none == [i \in 1..0 |-> 1]
<1>1. Len(<<>>) = 0 /\ none \in [1..0 -> 1..0] /\ none \in [1..0 -> Nat \ {0}]
  OBVIOUS
<1>2. Layout(seqs, 0, <<>>, none, none)
  BY <1>1 DEF Layout
<1> QED BY <1>2

\* What FlattenSeq returns: every element of every list, in order.
LEMMA FlattenLayout ==
  ASSUME NEW S, NEW seqs \in Seq(Seq(S))
  PROVE  /\ FlattenSeq(seqs) \in Seq(S)
         /\ \E b, p : Layout(seqs, Len(seqs), FlattenSeq(seqs), b, p)
<1> DEFINE n == Len(seqs)
<1>1. CASE seqs = <<>>
  <2>1. FlattenSeq(seqs) = <<>> /\ Len(seqs) = 0 /\ <<>> \in Seq(S)
    BY <1>1 DEF FlattenSeq
  <2> QED BY <2>1, EmptyLayout
<1>2. CASE seqs # <<>>
  <2>1. PICK g : Flattening(seqs, g, n) /\ FlattenSeq(seqs) = g[n]
    BY <1>2, FlattenRecursion
  <2> DEFINE Good(m) == g[m] \in Seq(S) /\ \E b, p : Layout(seqs, m, g[m], b, p)
             bad == {m \in 1..n : ~Good(m)}
  <2>2. n \in Nat \ {0} /\ \A i \in 1..n : seqs[i] \in Seq(S)
    BY <1>2
  <2>3. \A i \in 1..n : g[i] = IF i = 1 THEN seqs[i] ELSE g[i - 1] \o seqs[i]
    BY <2>1 DEF Flattening
  <2>4. bad = {}
    <3> SUFFICES ASSUME bad # {} PROVE FALSE
      OBVIOUS
    <3> DEFINE m == Min(bad)
    <3>1. bad \in SUBSET (1..n)
      OBVIOUS
    <3>2. m \in bad /\ \A j \in bad : m <= j
      <4> HIDE DEF bad
      <4> QED BY <2>2, <3>1, FirstPosition
    <3>3. m \in 1..n /\ ~Good(m)
      BY <3>2
    <3> HIDE DEF m
    <3>4. CASE m = 1
      <4>1. 1 \in 1..n /\ 0 \in Nat /\ 0 + 1 = 1 /\ g[1] = seqs[1] /\ seqs[1] \in Seq(S)
        BY <2>2, <2>3
      <4>2. <<>> \o seqs[1] = seqs[1] /\ <<>> \in Seq(S)
        BY <4>1
      <4>3. \E b, p : Layout(seqs, 1, seqs[1], b, p)
        <5>1. PICK b0, p0 : Layout(seqs, 0, <<>>, b0, p0)
          BY EmptyLayout
        <5>2. \E b, p : Layout(seqs, 0 + 1, <<>> \o seqs[0 + 1], b, p)
          BY <4>1, <4>2, <5>1, LayoutGrows
        <5> QED BY <4>1, <4>2, <5>2
      <4> QED BY <3>3, <3>4, <4>1, <4>3
    <3>5. CASE m # 1
      <4>1. m - 1 \in 1..n /\ m - 1 \in Nat /\ m \in Nat /\ m - 1 < m /\ m - 1 + 1 = m
        <5> HIDE DEF n
        <5> QED BY <2>2, <3>3, <3>5
      <4>2. m - 1 \notin bad
        <5> HIDE DEF bad
        <5> QED BY <3>2, <4>1
      <4>3. Good(m - 1)
        BY <4>1, <4>2
      <4>4. g[m] = g[m - 1] \o seqs[m] /\ seqs[m] \in Seq(S)
        BY <2>2, <2>3, <3>3, <3>5
      <4>5. g[m] \in Seq(S)
        BY <4>3, <4>4
      <4>6. PICK b0, p0 : Layout(seqs, m - 1, g[m - 1], b0, p0)
        BY <4>3
      <4>7. \E b, p : Layout(seqs, m - 1 + 1, g[m - 1] \o seqs[m - 1 + 1], b, p)
        <5> HIDE DEF bad
        <5>1. m - 1 + 1 \in 1..Len(seqs) /\ g[m - 1] \in Seq(S)
          BY <3>3, <4>1, <4>3
        <5> QED BY <4>1, <4>6, <5>1, LayoutGrows
      <4> QED BY <3>3, <4>1, <4>4, <4>5, <4>7
    <3> QED BY <3>4, <3>5
  <2>5. Good(n)
    <3>1. n \in 1..n
      BY <2>2
    <3> HIDE DEF n, Good
    <3> QED BY <2>4, <3>1
  <2> QED BY <2>1, <2>5
<1> QED BY <1>1, <1>2

\* s lists the pairs <<A[k], B[k]>> in order, with an id for each operation.
Paired(n, A, B, s) ==
  /\ ToSet(s) = {A[k] : k \in 1..n} \cup {B[k] : k \in 1..n}
  /\ \A i, j \in 1..Len(s) : s[i].id = s[j].id => i = j
  /\ \A i \in 1..Len(s) : \E k \in 1..n :
       /\ s[i] = A[k] \/ (s[i] = B[k] /\ \E j \in 1..(i - 1) : s[j] = A[k])
       /\ \A l \in 1..(k - 1) : \E j \in 1..(i - 1) : s[j] = B[l]

Twins(n, A, B) == [k \in 1..n |-> <<A[k], B[k]>>]

\* No two of these operations have one id.
Distinct(n, A, B) ==
  /\ \A k, l \in 1..n : A[k].id # B[l].id
  /\ \A k, l \in 1..n : A[k].id = A[l].id => k = l
  /\ \A k, l \in 1..n : B[k].id = B[l].id => k = l

LEMMA FlattenPairs ==
  ASSUME NEW S, NEW n \in Nat, NEW A \in [1..n -> S], NEW B \in [1..n -> S], Distinct(n, A, B)
  PROVE  FlattenSeq(Twins(n, A, B)) \in Seq(S) /\ Paired(n, A, B, FlattenSeq(Twins(n, A, B)))
<1> DEFINE lists == Twins(n, A, B)
           s == FlattenSeq(lists)
<1>0. lists = [k \in 1..n |-> <<A[k], B[k]>>]
  BY DEF Twins
<1> HIDE DEF lists
<1>1. /\ lists \in Seq(Seq(S)) /\ Len(lists) = n
      /\ \A k \in 1..n : Len(lists[k]) = 2 /\ lists[k][1] = A[k] /\ lists[k][2] = B[k]
  <2>1. \A k \in 1..n : A[k] \in S /\ B[k] \in S
    OBVIOUS
  <2>2. \A k \in 1..n : <<A[k], B[k]>> \in Seq(S)
    BY <2>1, PairIsSeq
  <2>3. lists \in [1..n -> Seq(S)]
    BY <1>0, <2>2
  <2>4. \A k \in 1..n : Len(lists[k]) = 2 /\ lists[k][1] = A[k] /\ lists[k][2] = B[k]
    BY <1>0, <2>1, PairIsSeq
  <2> QED BY <2>3, <2>4, FunctionIsSeq
<1>2. s \in Seq(S) /\ \E b, p : Layout(lists, n, s, b, p)
  <2>1. FlattenSeq(lists) \in Seq(S) /\ \E b, p : Layout(lists, Len(lists), FlattenSeq(lists), b, p)
    BY <1>1, FlattenLayout
  <2>2. PICK b, p : Layout(lists, Len(lists), FlattenSeq(lists), b, p)
    BY <2>1
  <2>3. Len(lists) = n
    BY <1>1
  <2>4. Layout(lists, n, FlattenSeq(lists), b, p)
    BY <2>2, <2>3, Zenon
  <2> QED BY <2>1, <2>4
<1> HIDE DEF s
<1>3. PICK b, p : Layout(lists, n, s, b, p)
  BY <1>2
<1>4. /\ Len(s) \in Nat /\ ToSet(s) = {s[i] : i \in 1..Len(s)}
      /\ \A i \in 1..Len(s) : b[i] \in 1..n /\ (p[i] = 1 \/ p[i] = 2)
  <2>1. Len(s) \in Nat /\ ToSet(s) = {s[i] : i \in 1..Len(s)}
    BY <1>2, SeqMembers
  <2>2. \A i \in 1..Len(s) : b[i] \in 1..n /\ p[i] \in Nat \ {0} /\ p[i] <= Len(lists[b[i]])
    BY <1>3 DEF Layout
  <2>3. ASSUME NEW i \in 1..Len(s) PROVE p[i] \in Nat \ {0} /\ p[i] <= 2
    <3>1. b[i] \in 1..n /\ p[i] <= Len(lists[b[i]]) /\ p[i] \in Nat \ {0}
      BY <2>2
    <3>2. Len(lists[b[i]]) = 2
      BY <1>1, <3>1
    <3> QED BY <3>1, <3>2
  <2>4. \A i \in 1..Len(s) : p[i] = 1 \/ p[i] = 2
    BY <2>3
  <2> QED BY <2>1, <2>2, <2>4
<1>5. \A i \in 1..Len(s) : s[i] = IF p[i] = 1 THEN A[b[i]] ELSE B[b[i]]
  <2>1. \A i \in 1..Len(s) : s[i] = lists[b[i]][p[i]]
    BY <1>3 DEF Layout
  <2> SUFFICES ASSUME NEW i \in 1..Len(s) PROVE s[i] = IF p[i] = 1 THEN A[b[i]] ELSE B[b[i]]
    OBVIOUS
  <2>2. b[i] \in 1..n /\ (p[i] = 1 \/ p[i] = 2) /\ s[i] = lists[b[i]][p[i]]
    BY <1>4, <2>1
  <2>3. lists[b[i]][1] = A[b[i]] /\ lists[b[i]][2] = B[b[i]]
    BY <1>1, <2>2
  <2> QED BY <2>2, <2>3
<1>6. \A i, j \in 1..Len(s) : i < j => b[i] < b[j] \/ (b[i] = b[j] /\ p[i] < p[j])
  BY <1>3 DEF Layout
<1>7. ASSUME NEW k \in 1..n
      PROVE  (\E i \in 1..Len(s) : b[i] = k /\ p[i] = 1) /\ (\E i \in 1..Len(s) : b[i] = k /\ p[i] = 2)
  <2>1. \A q \in 1..Len(lists[k]) : \E i \in 1..Len(s) : b[i] = k /\ p[i] = q
    BY <1>3 DEF Layout
  <2>2. Len(lists[k]) = 2
    BY <1>1
  <2>3. \A q \in 1..2 : \E i \in 1..Len(s) : b[i] = k /\ p[i] = q
    BY <2>1, <2>2, Zenon
  <2>4. 1 \in 1..2 /\ 2 \in 1..2
    OBVIOUS
  <2> QED BY <2>3, <2>4, Zenon
<1>8. ToSet(s) = {A[k] : k \in 1..n} \cup {B[k] : k \in 1..n}
  <2>1. ToSet(s) \subseteq {A[k] : k \in 1..n} \cup {B[k] : k \in 1..n}
    BY <1>4, <1>5
  <2>2. ASSUME NEW k \in 1..n PROVE A[k] \in ToSet(s) /\ B[k] \in ToSet(s)
    <3>1. PICK i \in 1..Len(s) : b[i] = k /\ p[i] = 1
      BY <1>7
    <3>2. PICK j \in 1..Len(s) : b[j] = k /\ p[j] = 2
      BY <1>7
    <3>3. s[i] = A[k] /\ s[j] = B[k]
      BY <1>5, <3>1, <3>2
    <3> QED BY <1>4, <3>3
  <2> QED BY <2>1, <2>2
<1>9. ASSUME NEW i \in 1..Len(s), NEW j \in 1..Len(s), s[i].id = s[j].id PROVE i = j
  <2>1. b[i] \in 1..n /\ b[j] \in 1..n /\ s[i].id = s[j].id
    BY <1>4, <1>9
  <2>2. b[i] = b[j] /\ p[i] = p[j]
    BY <1>4, <1>5, <2>1 DEF Distinct
  <2>3. ~(i < j) /\ ~(j < i)
    BY <1>4, <1>6, <2>2
  <2> QED BY <1>4, <2>3
<1>10. ASSUME NEW i \in 1..Len(s)
       PROVE  /\ s[i] = A[b[i]] \/ (s[i] = B[b[i]] /\ \E j \in 1..(i - 1) : s[j] = A[b[i]])
              /\ \A l \in 1..(b[i] - 1) : \E j \in 1..(i - 1) : s[j] = B[l]
  <2>1. b[i] \in 1..n
    BY <1>4
  <2>2. ASSUME p[i] = 2 PROVE s[i] = B[b[i]] /\ \E j \in 1..(i - 1) : s[j] = A[b[i]]
    <3>1. PICK j \in 1..Len(s) : b[j] = b[i] /\ p[j] = 1
      BY <1>7, <2>1
    <3>2. ~(i < j) /\ i # j
      BY <1>6, <2>1, <2>2, <3>1
    <3>3. j \in 1..(i - 1)
      BY <1>4, <3>2
    <3>4. s[i] = B[b[i]] /\ s[j] = A[b[i]]
      BY <1>5, <2>2, <3>1
    <3> QED BY <3>3, <3>4
  <2>3. p[i] # 2 => s[i] = A[b[i]]
    BY <1>4, <1>5
  <2>4. ASSUME NEW l \in 1..(b[i] - 1) PROVE \E j \in 1..(i - 1) : s[j] = B[l]
    <3>1. l \in 1..n /\ l < b[i]
      BY <2>1
    <3>2. PICK j \in 1..Len(s) : b[j] = l /\ p[j] = 2
      BY <1>7, <3>1
    <3>3. ~(i < j) /\ i # j
      BY <1>6, <2>1, <3>1, <3>2
    <3>4. j \in 1..(i - 1) /\ s[j] = B[l]
      BY <1>4, <1>5, <3>2, <3>3
    <3> QED BY <3>4
  <2> QED BY <2>2, <2>3, <2>4
<1>11. \A i \in 1..Len(s) : \E k \in 1..n :
         /\ s[i] = A[k] \/ (s[i] = B[k] /\ \E j \in 1..(i - 1) : s[j] = A[k])
         /\ \A l \in 1..(k - 1) : \E j \in 1..(i - 1) : s[j] = B[l]
  <2> TAKE i \in 1..Len(s)
  <2>1. b[i] \in 1..n
    BY <1>4
  <2> WITNESS b[i] \in 1..n
  <2> QED BY <1>10
<1>12. Paired(n, A, B, s)
  BY <1>8, <1>9, <1>11 DEF Paired
<1> QED BY <1>2, <1>12 DEF s, lists

-----------------------------------------------------------------------------
(* Sequences over part of a set, and counting.                            *)

\* A sequence over a set of values.
LEMMA Within ==
  ASSUME NEW S, NEW T, NEW s \in Seq(S), ToSet(s) \subseteq T
  PROVE  s \in Seq(T)
BY DEF ToSet

LEMMA ConcatWithin ==
  ASSUME NEW S, NEW T, NEW s \in Seq(S), NEW t \in Seq(S), NEW u, u = s \o t, ToSet(u) \subseteq T
  PROVE  ToSet(s) \subseteq T /\ ToSet(t) \subseteq T
<1>1. /\ Len(s) \in Nat /\ Len(t) \in Nat /\ u \in Seq(S) /\ Len(u) = Len(s) + Len(t)
      /\ \A i \in 1..Len(s) : u[i] = s[i]
      /\ \A i \in 1..Len(t) : u[Len(s) + i] = t[i]
  OBVIOUS
<1>2. ToSet(u) = {u[i] : i \in 1..Len(u)} /\ ToSet(s) = {s[i] : i \in 1..Len(s)}
      /\ ToSet(t) = {t[i] : i \in 1..Len(t)}
  BY <1>1 DEF ToSet
<1>3. \A i \in 1..Len(s) : i \in 1..Len(u)
  BY <1>1
<1>4. \A i \in 1..Len(t) : Len(s) + i \in 1..Len(u)
  BY <1>1
<1> QED BY <1>1, <1>2, <1>3, <1>4

LEMMA WithinConcat ==
  ASSUME NEW S, NEW T, NEW s \in Seq(S), NEW t \in Seq(S), NEW u, u = s \o t,
         ToSet(s) \subseteq T, ToSet(t) \subseteq T
  PROVE  ToSet(u) \subseteq T
<1>1. /\ Len(s) \in Nat /\ Len(t) \in Nat /\ u \in Seq(S) /\ Len(u) = Len(s) + Len(t)
      /\ \A i \in 1..Len(u) : u[i] = IF i <= Len(s) THEN s[i] ELSE t[i - Len(s)]
  OBVIOUS
<1>2. (\A i \in 1..Len(s) : s[i] \in T) /\ \A i \in 1..Len(t) : t[i] \in T
  BY SeqMembers
<1>3. ASSUME NEW i \in 1..Len(u) PROVE u[i] \in T
  <2>1. CASE i <= Len(s)
    BY <1>1, <1>2, <2>1
  <2>2. CASE ~(i <= Len(s))
    <3>1. i - Len(s) \in 1..Len(t)
      BY <1>1, <2>2
    <3> QED BY <1>1, <1>2, <2>2, <3>1
  <2> QED BY <2>1, <2>2
<1>4. ToSet(u) = {u[i] : i \in 1..Len(u)}
  BY <1>1 DEF ToSet
<1> QED BY <1>3, <1>4

LEMMA Appended ==
  ASSUME NEW S, NEW s \in Seq(S), NEW e \in S
  PROVE  /\ Append(s, e) \in Seq(S) /\ Len(Append(s, e)) = Len(s) + 1
         /\ Append(s, e)[Len(s) + 1] = e
         /\ \A i \in 1..Len(s) : Append(s, e)[i] = s[i]
OBVIOUS

\* Counting up to n.
LEMMA CountUp ==
  ASSUME NEW n \in Nat \ {0}, NEW good, 1 \in good, \A k \in 1..(n - 1) : k \in good => k + 1 \in good
  PROVE  n \in good
<1> DEFINE bad == {k \in 1..n : k \notin good}
<1>1. bad \in SUBSET (1..n)
  OBVIOUS
<1>2. bad = {}
  <2> SUFFICES ASSUME bad # {} PROVE FALSE
    OBVIOUS
  <2> DEFINE m == Min(bad)
  <2>1. m \in bad /\ \A j \in bad : m <= j
    <3> HIDE DEF bad
    <3> QED BY <1>1, FirstPosition
  <2> HIDE DEF m
  <2>2. m \in 1..n /\ m \notin good /\ m # 1
    BY <2>1
  <2>3. m - 1 \in 1..(n - 1) /\ m - 1 \in 1..n /\ m - 1 + 1 = m /\ m - 1 < m
    BY <2>2
  <2>4. m - 1 \notin bad
    <3> HIDE DEF bad
    <3> QED BY <2>1, <2>2, <2>3
  <2> QED BY <2>2, <2>3, <2>4
<1> QED BY <1>2

LEMMA Counted ==
  ASSUME NEW b \in Nat
  PROVE  IsFiniteSet(1..b) /\ Cardinality(1..b) = b
<1>1. 1 \in Int /\ b \in Int
  OBVIOUS
<1>2. IsFiniteSet(1..b) /\ Cardinality(1..b) = IF 1 > b THEN 0 ELSE b - 1 + 1
  BY <1>1, FS_Interval
<1>3. (IF 1 > b THEN 0 ELSE b - 1 + 1) = b
  OBVIOUS
<1> QED BY <1>2, <1>3
=============================================================================
