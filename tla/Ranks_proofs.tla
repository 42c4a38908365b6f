----------------------------- MODULE Ranks_proofs -----------------------------
(***************************************************************************)
(* Facts about the positions of a sequence, and induction over the natural *)
(* numbers in a form whose hypotheses are about sets: the least element of *)
(* a set of naturals, taken from the well-foundedness of <, gives it.      *)
(***************************************************************************)
EXTENDS Ranks, TLAPS, WellFoundedInduction, FiniteSetTheorems, FunctionTheorems, SequenceTheorems

-----------------------------------------------------------------------------
(* Induction.                                                              *)

\* A set of naturals that is not empty has a least element.
LEMMA LeastNatural ==
    ASSUME NEW T \in SUBSET Nat, T # {}
    PROVE  \E x \in T : \A y \in T : x <= y
<1> DEFINE R == OpToRel(<, Nat)
<1>1. IsWellFoundedOn(R, Nat) BY NatLessThanWellFounded
<1>2. \A x, y \in Nat : <<x, y>> \in R <=> x < y BY DEF OpToRel
<1> HIDE DEF R
<1>3. PICK x \in T : \A y \in T : ~(<<y, x>> \in R) BY <1>1, WFMin
<1>4. \A y \in T : ~(y < x) BY <1>2, <1>3
<1>5. \A y \in T : x <= y BY <1>4
<1> QED BY <1>5

\* What holds of 0, and of n + 1 if it holds of n, holds of all naturals.
LEMMA InductionOnNat ==
    ASSUME NEW T, 0 \in T, \A n \in Nat : n \in T => n + 1 \in T
    PROVE  Nat \subseteq T
<1> SUFFICES ASSUME Nat \ T # {} PROVE FALSE OBVIOUS
<1>1. PICK x \in Nat \ T : \A y \in Nat \ T : x <= y BY LeastNatural
<1>2. x # 0 /\ x - 1 \in Nat OBVIOUS
<1>3. x - 1 \notin T BY <1>2
<1> QED BY <1>1, <1>2, <1>3

\* A set of naturals that is not empty, and bounded, has a largest element.
LEMMA LargestNatural ==
    ASSUME NEW T \in SUBSET Nat, T # {}, NEW n \in Nat, \A x \in T : x <= n
    PROVE  \E x \in T : \A y \in T : y <= x
<1> DEFINE B == {b \in Nat : \A x \in T : x <= b}
<1>1. PICK b \in B : \A c \in B : b <= c BY LeastNatural
<1>2. CASE b \in T BY <1>2
<1>3. CASE b \notin T
  <2>1. \A x \in T : x <= b /\ x # b /\ x \in Nat BY <1>3
  <2>2. PICK x \in T : TRUE OBVIOUS
  <2>3. b # 0 /\ b - 1 \in Nat BY <2>1, <2>2
  <2>4. b - 1 \in B BY <2>1, <2>3
  <2> QED BY <1>1, <2>4
<1> QED BY <1>2, <1>3

-----------------------------------------------------------------------------
(* Positions by rank.                                                      *)

\* The positions at or below one of them.
UpTo(S, n) == {m \in S : m <= n}

\* The positions up to one grow with it, up to all of them.
LEMMA UpToGrows ==
    ASSUME NEW S \in SUBSET Nat, NEW m \in S
    PROVE  /\ m \in UpTo(S, m) /\ UpTo(S, m) \in SUBSET S
           /\ \A l \in S : l <= m => UpTo(S, l) \in SUBSET UpTo(S, m)
           /\ (\A l \in S : l <= m) => UpTo(S, m) = S
<1>1. ASSUME NEW l \in S, l <= m PROVE UpTo(S, l) \in SUBSET UpTo(S, m)
  <2>1. \A j \in S : j <= l => j <= m BY <1>1
  <2> QED BY <2>1 DEF UpTo
<1>2. m \in UpTo(S, m) /\ UpTo(S, m) \in SUBSET S BY DEF UpTo
<1>3. (\A l \in S : l <= m) => UpTo(S, m) = S BY DEF UpTo
<1> QED BY <1>1, <1>2, <1>3

\* A set of positions is finite, and so are its parts.
LEMMA PositionsFinite ==
    ASSUME NEW n \in Nat, NEW S \in SUBSET (1..n)
    PROVE  /\ IsFiniteSet(S) /\ Cardinality(S) \in Nat
           /\ \A P \in SUBSET S : /\ IsFiniteSet(P) /\ Cardinality(P) \in Nat
                                  /\ Cardinality(P) <= Cardinality(S)
                                  /\ Cardinality(P) = Cardinality(S) => P = S
<1>1. IsFiniteSet(1..n) BY FS_Interval
<1>2. IsFiniteSet(S) BY <1>1, FS_Subset
<1> QED BY <1>2, FS_Subset, FS_CardinalityType

\* A position above all others is the last in rank and leaves the ranks below
\* it as they are.
LEMMA RankLast ==
    ASSUME NEW n \in Nat, NEW S \in SUBSET (1..n), NEW m \in Nat, \A j \in S : j < m
    PROVE  /\ Cardinality(S \cup {m}) = Cardinality(S) + 1
           /\ Ranked(S \cup {m}, Cardinality(S) + 1) = {m}
           /\ \A k \in Nat : k <= Cardinality(S) => Ranked(S \cup {m}, k) = Ranked(S, k)
<1> DEFINE T == S \cup {m}
           s == Cardinality(S)
<1>0. \A j \in S : j \in Nat /\ j < m OBVIOUS
<1>1. IsFiniteSet(S) /\ s \in Nat BY PositionsFinite
<1>10. m \notin S BY <1>0
<1>2. Cardinality(T) = s + 1 BY <1>1, <1>10, FS_AddElement
<1>3. \A j \in S : UpTo(T, j) = UpTo(S, j) BY <1>0 DEF UpTo
<1>4. UpTo(T, m) = T
  <2>1. T \in SUBSET Nat /\ m \in T /\ \A l \in T : l <= m BY <1>0
  <2> QED BY <2>1, UpToGrows
<1>5. \A j \in S : Cardinality(UpTo(S, j)) <= s BY PositionsFinite DEF UpTo
<1>6. \A k : Ranked(T, k) = {j \in T : Cardinality(UpTo(T, j)) = k}
             /\ Ranked(S, k) = {j \in S : Cardinality(UpTo(S, j)) = k}
  BY DEF Ranked, UpTo
<1>7. \A j \in S : Cardinality(UpTo(S, j)) \in Nat BY PositionsFinite DEF UpTo
<1> HIDE DEF s
<1>8. Ranked(T, s + 1) = {m}
  <2>1. \A j \in S : Cardinality(UpTo(T, j)) # s + 1
    <3> TAKE j \in S
    <3>1. Cardinality(UpTo(S, j)) <= s /\ Cardinality(UpTo(S, j)) \in Nat BY <1>5, <1>7
    <3> QED BY <1>1, <1>3, <3>1
  <2> QED BY <1>2, <1>4, <1>6, <2>1
<1>9. ASSUME NEW k \in Nat, k <= s PROVE Ranked(T, k) = Ranked(S, k)
  <2>1. Cardinality(UpTo(T, m)) # k BY <1>1, <1>2, <1>4, <1>9
  <2> QED BY <1>3, <1>6, <2>1
<1> QED BY <1>2, <1>8, <1>9 DEF s

\* Every rank up to the number of positions is that of exactly one.
LEMMA RankExists ==
    ASSUME NEW n \in Nat, NEW S \in SUBSET (1..n), NEW k \in 1..Cardinality(S)
    PROVE  Ranked(S, k) # {}
<1> DEFINE Full(U) == \A j \in 1..Cardinality(U) : Ranked(U, j) # {}
           T == {a \in Nat : \A U \in SUBSET (1..a) : Full(U)}
<1>1. 0 \in T
  <2>1. \A U \in SUBSET (1..0) : U = {} OBVIOUS
  <2> QED BY <2>1, FS_EmptySet
<1>2. ASSUME NEW a \in Nat, a \in T, NEW U \in SUBSET (1..(a + 1)) PROVE Full(U)
  <2>1. CASE a + 1 \notin U
    <3>1. U \in SUBSET (1..a) BY <2>1
    <3> QED BY <1>2, <3>1
  <2>2. CASE a + 1 \in U
    <3> DEFINE V == U \ {a + 1}
    <3>1. V \in SUBSET (1..a) /\ U = V \cup {a + 1} /\ \A j \in V : j < a + 1 BY <2>2
    <3>2. Full(V) BY <1>2, <3>1
    <3>3. Cardinality(V) \in Nat BY <3>1, PositionsFinite
    <3>6. a + 1 \in Nat OBVIOUS
    <3> HIDE DEF V
    <3>7. \A j \in V : j < a + 1 BY <3>1
    <3>4. /\ Cardinality(V \cup {a + 1}) = Cardinality(V) + 1
          /\ Ranked(V \cup {a + 1}, Cardinality(V) + 1) = {a + 1}
          /\ \A j \in Nat : j <= Cardinality(V) => Ranked(V \cup {a + 1}, j) = Ranked(V, j)
      BY <3>1, <3>6, <3>7, RankLast
    <3>8. U = V \cup {a + 1} BY <3>1
    <3>5. ASSUME NEW j \in 1..Cardinality(U) PROVE Ranked(U, j) # {}
      <4>1. j = Cardinality(V) + 1 \/ j \in 1..Cardinality(V) BY <3>3, <3>4, <3>8
      <4> QED BY <3>2, <3>3, <3>4, <3>8, <4>1
    <3> QED BY <3>5
  <2> QED BY <2>1, <2>2
<1> HIDE DEF Full
<1>3. \A a \in Nat : a \in T => a + 1 \in T BY <1>2
<1> HIDE DEF T
<1>4. Nat \subseteq T BY <1>1, <1>3, InductionOnNat
<1>5. Full(S) BY <1>4 DEF T
<1> QED BY <1>5 DEF Full

\* The k-th position is one of them, with k up to it.
LEMMA NthIn ==
    ASSUME NEW n \in Nat, NEW S \in SUBSET (1..n), NEW k \in 1..Cardinality(S)
    PROVE  Nth(S, k) \in S /\ Cardinality(UpTo(S, Nth(S, k))) = k
<1>1. Nth(S, k) \in Ranked(S, k) BY RankExists DEF Nth
<1> QED BY <1>1 DEF Ranked, UpTo

\* Ranks follow the order of the positions: the k-th is the only one of its rank.
LEMMA NthIsBijection ==
    ASSUME NEW n \in Nat, NEW S \in SUBSET (1..n)
    PROVE  /\ \A j, k \in 1..Cardinality(S) : Nth(S, j) = Nth(S, k) => j = k
           /\ \A m \in S : \E k \in 1..Cardinality(S) : Nth(S, k) = m
<1>1. \A j, k \in 1..Cardinality(S) : Nth(S, j) = Nth(S, k) => j = k BY NthIn
<1>2. ASSUME NEW m \in S PROVE \E k \in 1..Cardinality(S) : Nth(S, k) = m
  <2> DEFINE k == Cardinality(UpTo(S, m))
  <2>1. UpTo(S, m) \in SUBSET S /\ UpTo(S, m) # {} BY DEF UpTo
  <2>2. k \in Nat /\ k <= Cardinality(S) /\ Cardinality(S) \in Nat BY <2>1, PositionsFinite
  <2>3. k # 0 BY <2>1, PositionsFinite, FS_EmptySet
  <2>4. k \in 1..Cardinality(S) BY <2>2, <2>3
  <2> DEFINE l == Nth(S, k)
  <2>5. l \in S /\ Cardinality(UpTo(S, l)) = k BY <2>4, NthIn
  <2>8. S \in SUBSET Nat /\ m \in Nat /\ \A j \in S : j \in Nat OBVIOUS
  <2> HIDE DEF k, l
  <2>6. CASE l <= m
    <3>1. UpTo(S, l) \in SUBSET UpTo(S, m) BY <2>5, <2>6, <2>8, UpToGrows
    <3>2. IsFiniteSet(UpTo(S, m)) BY <2>1, PositionsFinite
    <3>3. UpTo(S, l) = UpTo(S, m) BY <2>5, <3>1, <3>2, FS_Subset DEF k
    <3>4. m \in UpTo(S, l) BY <3>3, <2>8, UpToGrows
    <3>5. m <= l BY <3>4 DEF UpTo
    <3>6. m = l BY <2>5, <2>6, <2>8, <3>5
    <3> QED BY <2>4, <3>6 DEF l
  <2>7. CASE m <= l
    <3>1. UpTo(S, m) \in SUBSET UpTo(S, l) BY <2>5, <2>7, <2>8, UpToGrows
    <3>2. IsFiniteSet(UpTo(S, l)) BY <2>5, <2>8, UpToGrows, PositionsFinite
    <3>3. UpTo(S, l) = UpTo(S, m) BY <2>5, <3>1, <3>2, FS_Subset DEF k
    <3>4. l \in UpTo(S, m) BY <2>5, <2>8, <3>3, UpToGrows
    <3>5. l <= m BY <3>4 DEF UpTo
    <3>6. m = l BY <2>5, <2>7, <2>8, <3>5
    <3> QED BY <2>4, <3>6 DEF l
  <2> QED BY <2>5, <2>6, <2>7, <2>8
<1> QED BY <1>1, <1>2

-----------------------------------------------------------------------------
(* What a sequence has at some of its positions.                           *)

\* What is picked is a sequence of as many elements as there are positions.
LEMMA PickedType ==
    ASSUME NEW n \in Nat, NEW S \in SUBSET (1..n), NEW seq, NEW T, \A j \in S : seq[j] \in T
    PROVE  /\ Picked(seq, S) \in Seq(T) /\ Len(Picked(seq, S)) = Cardinality(S)
           /\ DOMAIN Picked(seq, S) = 1..Cardinality(S)
           /\ \A k \in 1..Cardinality(S) : Picked(seq, S)[k] = seq[Nth(S, k)]
<1>1. Cardinality(S) \in Nat BY PositionsFinite
<1>2. \A k \in 1..Cardinality(S) : seq[Nth(S, k)] \in T BY NthIn
<1>3. Picked(seq, S) \in [1..Cardinality(S) -> T] BY <1>2 DEF Picked
<1>4. Picked(seq, S) \in Seq(T) BY <1>1, <1>3
<1> QED BY <1>1, <1>3, <1>4 DEF Picked

\* It does not depend on the other positions.
LEMMA PickedSame ==
    ASSUME NEW n \in Nat, NEW S \in SUBSET (1..n), NEW seq, NEW seq2,
           \A j \in S : seq2[j] = seq[j]
    PROVE  Picked(seq2, S) = Picked(seq, S)
<1>1. \A k \in 1..Cardinality(S) : seq2[Nth(S, k)] = seq[Nth(S, k)] BY NthIn
<1> QED BY <1>1 DEF Picked

\* A position above all others adds its element at the end.
LEMMA PickedAppend ==
    ASSUME NEW n \in Nat, NEW S \in SUBSET (1..n), NEW m \in Nat, \A j \in S : j < m,
           NEW seq, NEW T, \A j \in S \cup {m} : seq[j] \in T
    PROVE  Picked(seq, S \cup {m}) = Append(Picked(seq, S), seq[m])
<1> DEFINE s == Cardinality(S)
           U == S \cup {m}
<1>1. s \in Nat BY PositionsFinite
<1>2. /\ Cardinality(U) = s + 1
      /\ Ranked(U, s + 1) = {m}
      /\ \A k \in Nat : k <= s => Ranked(U, k) = Ranked(S, k)
  BY RankLast
<1>3. /\ Picked(seq, S) \in Seq(T) /\ Len(Picked(seq, S)) = s
      /\ \A k \in 1..s : Picked(seq, S)[k] = seq[Nth(S, k)]
  BY PickedType
<1>4. Nth(U, s + 1) = m BY <1>2 DEF Nth
<1>5. \A k \in 1..s : Nth(U, k) = Nth(S, k) BY <1>1, <1>2 DEF Nth
<1>6. Picked(seq, U) = [k \in 1..(s + 1) |-> seq[Nth(U, k)]] BY <1>2 DEF Picked
<1>7. seq[m] \in T OBVIOUS
<1> HIDE DEF s, U
<1>8. /\ Append(Picked(seq, S), seq[m]) \in Seq(T)
      /\ Len(Append(Picked(seq, S), seq[m])) = s + 1
      /\ \A k \in 1..s : Append(Picked(seq, S), seq[m])[k] = seq[Nth(S, k)]
      /\ Append(Picked(seq, S), seq[m])[s + 1] = seq[m]
  BY <1>1, <1>3, <1>7, AppendProperties
<1>9. \A k \in 1..(s + 1) : seq[Nth(U, k)] = Append(Picked(seq, S), seq[m])[k]
  <2> TAKE k \in 1..(s + 1)
  <2>1. k \in 1..s \/ k = s + 1 BY <1>1
  <2> QED BY <1>4, <1>5, <1>8, <2>1
<1>10. Append(Picked(seq, S), seq[m])
         = [k \in 1..(s + 1) |-> Append(Picked(seq, S), seq[m])[k]]
  BY <1>1, <1>8
<1> QED BY <1>6, <1>9, <1>10 DEF U

\* Without its last position, it is without its last element.
LEMMA PickedFront ==
    ASSUME NEW n \in Nat, NEW S \in SUBSET (1..n), NEW m \in S, \A j \in S : j <= m,
           NEW seq, NEW T, \A j \in S : seq[j] \in T
    PROVE  /\ Picked(seq, S) # <<>>
           /\ Picked(seq, S)[Len(Picked(seq, S))] = seq[m]
           /\ Picked(seq, S \ {m}) = SubSeq(Picked(seq, S), 1, Len(Picked(seq, S)) - 1)
<1> DEFINE R == S \ {m}
           front == Picked(seq, R)
<1>1. R \in SUBSET (1..n) /\ S = R \cup {m} /\ m \in Nat /\ \A j \in R : j < m OBVIOUS
<1>2. front \in Seq(T) BY <1>1, PickedType
<1> HIDE DEF R
<1>5. \A j \in R \cup {m} : seq[j] \in T BY <1>1
<1>6. Picked(seq, R \cup {m}) = Append(Picked(seq, R), seq[m]) BY <1>1, <1>5, PickedAppend
<1>3. Picked(seq, S) = Append(front, seq[m]) BY <1>1, <1>6
<1>4. seq[m] \in T OBVIOUS
<1> HIDE DEF front
<1> QED BY <1>2, <1>3, <1>4, AppendProperties DEF front, R

\* Picking keeps the number of positions of any kind.
LEMMA PickedCount ==
    ASSUME NEW n \in Nat, NEW S \in SUBSET (1..n), NEW P \in SUBSET S
    PROVE  Cardinality({k \in 1..Cardinality(S) : Nth(S, k) \in P}) = Cardinality(P)
<1> DEFINE K == {k \in 1..Cardinality(S) : Nth(S, k) \in P}
           f == [k \in K |-> Nth(S, k)]
<1>1. Cardinality(S) \in Nat BY PositionsFinite
<1>2. IsFiniteSet(K) BY <1>1, PositionsFinite
<1>3. f \in [K -> P] OBVIOUS
<1>4. \A j, k \in K : f[j] = f[k] => j = k BY NthIsBijection
<1>5. ASSUME NEW m \in P PROVE \E k \in K : f[k] = m
  <2>1. PICK k \in 1..Cardinality(S) : Nth(S, k) = m BY NthIsBijection
  <2>2. k \in K BY <2>1
  <2> QED BY <2>1, <2>2
<1> HIDE DEF K, f
<1>6. f \in Bijection(K, P) BY <1>3, <1>4, <1>5, Fun_IsBij
<1>7. ExistsBijection(K, P) BY <1>6, Fun_ExistsBij
<1> QED BY <1>2, <1>7, FS_Bijection DEF K

\* The positions of S where seq has a value of V.
Having(seq, S, V) == {j \in S : seq[j] \in V}

\* What is picked has a value of V as often as the positions do.
LEMMA PickedHaving ==
    ASSUME NEW n \in Nat, NEW S \in SUBSET (1..n), NEW seq, NEW V
    PROVE  Cardinality(Having(Picked(seq, S), DOMAIN Picked(seq, S), V))
              = Cardinality(Having(seq, S, V))
<1> DEFINE P == {j \in S : seq[j] \in V}
           T == {seq[j] : j \in S}
<1>1. P \in SUBSET S /\ \A j \in S : seq[j] \in T OBVIOUS
<1>2. /\ DOMAIN Picked(seq, S) = 1..Cardinality(S)
      /\ \A k \in 1..Cardinality(S) : Picked(seq, S)[k] = seq[Nth(S, k)]
  <2> HIDE DEF T
  <2> QED BY <1>1, PickedType
<1>3. \A k \in 1..Cardinality(S) : Nth(S, k) \in P <=> seq[Nth(S, k)] \in V BY NthIn
<1>4. Having(Picked(seq, S), DOMAIN Picked(seq, S), V)
         = {k \in 1..Cardinality(S) : Nth(S, k) \in P}
  BY <1>2, <1>3 DEF Having
<1> HIDE DEF P
<1>5. Cardinality({k \in 1..Cardinality(S) : Nth(S, k) \in P}) = Cardinality(P)
  BY <1>1, PickedCount
<1> QED BY <1>4, <1>5 DEF P, Having
=============================================================================
