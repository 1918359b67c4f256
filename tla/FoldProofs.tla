----------------------------- MODULE FoldProofs -----------------------------
(***************************************************************************)
(* Induction over data, for the proofs about the rules of the game.  The   *)
(* induction theorems of the library quantify over predicates; here the    *)
(* predicate is a set, and a step that fails has a least counterexample.   *)
(* With it: the recursive functions behind FoldLeft and MapThenSumSet are  *)
(* defined, what every step of a fold keeps the fold keeps, sums over      *)
(* finite sets split, and the ranks of a strict order are a numbering.     *)
(***************************************************************************)
EXTENDS Integers, Sequences, SequencesExt, FiniteSetsExt, FiniteSetTheorems, WellFoundedInduction, TLAPS

----------------------------------------------------------------------------
(* Induction *)

\* Every set of natural numbers that is not empty has a least element.
LEMMA LeastNatural ==
    ASSUME NEW T, T \subseteq Nat, T # {}
    PROVE  \E x \in T : \A y \in T : x <= y
<1>1. IsWellFoundedOn(OpToRel(<, Nat), Nat)
  BY NatLessThanWellFounded
<1>2. PICK x \in T : \A y \in T : <<y, x>> \notin OpToRel(<, Nat)
  BY <1>1, WFMin
<1>3. \A y \in T : ~(y < x)
  <2> TAKE y \in T
  <2>1. <<y, x>> \in Nat \X Nat
    OBVIOUS
  <2>2. <<y, x>>[1] < <<y, x>>[2] => <<y, x>> \in OpToRel(<, Nat)
    BY <2>1 DEF OpToRel
  <2> QED BY <1>2, <2>2
<1> QED BY <1>3

\* Induction over the natural numbers, with a set in place of a predicate.
LEMMA NatInductionInSet ==
    ASSUME NEW S, 0 \in S, \A n \in Nat : n \in S => n + 1 \in S
    PROVE  Nat \subseteq S
<1> SUFFICES ASSUME ~(Nat \subseteq S) PROVE FALSE
  OBVIOUS
<1> DEFINE T == Nat \ S
<1>1. PICK x \in T : \A y \in T : x <= y
  BY LeastNatural
<1>2. x # 0 /\ x - 1 \in Nat
  BY <1>1
<1>3. x - 1 \notin T
  BY <1>1, <1>2
<1> QED BY <1>1, <1>2, <1>3

----------------------------------------------------------------------------
(* Folds from the left *)

\* The greatest of a set of the first numbers is the one that Max chooses.
LEMMA GreatestChosen ==
    ASSUME NEW n \in Nat, NEW s \in SUBSET (1 .. n), s # {}
    PROVE  Max(s) \in s /\ \A i \in s : i <= Max(s)
<1> DEFINE T == {n - i : i \in s}
<1>1. T \subseteq Nat /\ T # {}
  <2>1. \A i \in 1 .. n : n - i \in Nat
    OBVIOUS
  <2>2. \A i \in s : i \in 1 .. n
    OBVIOUS
  <2> QED BY <2>1, <2>2
<1>2. PICK t \in T : \A u \in T : t <= u
  BY <1>1, LeastNatural
<1>3. PICK m \in s : t = n - m
  OBVIOUS
<1>4. ASSUME NEW i \in s PROVE m >= i
  <2>1. n - m <= n - i
    BY <1>2, <1>3
  <2>2. m \in Int /\ i \in Int
    OBVIOUS
  <2> QED BY <2>1, <2>2
<1> QED BY <1>4 DEF Max

\* The function on sets of indices by which FoldLeft folds F from the left.
IsFold(g, F, b, n) ==
    g = [s \in SUBSET (1 .. n) |->
            IF s = {} THEN b ELSE F[<<g[s \ {Max(s)}], Max(s)>>]]

\* That recursive function exists for every F.
LEMMA FoldDefined ==
    ASSUME NEW F, NEW b
    PROVE  \A n \in Nat : \E g : IsFold(g, F, b, n)
<1> DEFINE S == {n \in Nat : \E g : IsFold(g, F, b, n)}
<1>1. 0 \in S
  <2>1. \A s \in SUBSET (1 .. 0) : s = {}
    OBVIOUS
  <2>2. IsFold([s \in SUBSET (1 .. 0) |-> b], F, b, 0)
    BY <2>1 DEF IsFold
  <2> QED BY <2>2
<1>2. \A n \in Nat : n \in S => n + 1 \in S
  <2> SUFFICES ASSUME NEW n \in Nat, NEW g, IsFold(g, F, b, n)
               PROVE  \E h : IsFold(h, F, b, n + 1)
    OBVIOUS
  <2> DEFINE h == [s \in SUBSET (1 .. n + 1) |->
                     IF n + 1 \in s THEN F[<<g[s \ {n + 1}], n + 1>>] ELSE g[s]]
  <2>1. ASSUME NEW s \in SUBSET (1 .. n + 1)
        PROVE  h[s] = IF s = {} THEN b ELSE F[<<h[s \ {Max(s)}], Max(s)>>]
    <3>1. CASE n + 1 \in s
      <4>1. Max(s) \in s /\ n + 1 <= Max(s) /\ Max(s) \in 1 .. n + 1
        <5>1. n + 1 \in Nat /\ s # {}
          BY <3>1
        <5>2. Max(s) \in s /\ \A i \in s : i <= Max(s)
          BY <5>1, GreatestChosen
        <5> QED BY <3>1, <5>2
      <4>2. Max(s) = n + 1
        BY <4>1
      <4>3. s \ {n + 1} \in SUBSET (1 .. n + 1) /\ n + 1 \notin s \ {n + 1}
        OBVIOUS
      <4>4. h[s \ {n + 1}] = g[s \ {n + 1}]
        BY <4>3
      <4> QED BY <3>1, <4>2, <4>4
    <3>2. CASE n + 1 \notin s /\ s # {}
      <4>1. s \in SUBSET (1 .. n)
        BY <3>2
      <4>2. Max(s) \in s
        BY <4>1, <3>2, GreatestChosen
      <4>3. g[s] = F[<<g[s \ {Max(s)}], Max(s)>>]
        BY <4>1, <3>2 DEF IsFold
      <4>4. s \ {Max(s)} \in SUBSET (1 .. n + 1) /\ n + 1 \notin s \ {Max(s)}
        BY <3>2
      <4>5. h[s \ {Max(s)}] = g[s \ {Max(s)}]
        BY <4>4
      <4>6. h[s] = g[s]
        BY <3>2
      <4> QED BY <3>2, <4>3, <4>5, <4>6
    <3>3. CASE s = {}
      <4>1. s \in SUBSET (1 .. n) /\ n + 1 \notin s
        BY <3>3
      <4> QED BY <4>1, <3>3 DEF IsFold
    <3> QED BY <3>1, <3>2, <3>3
  <2>2. IsFold(h, F, b, n + 1)
    <3> HIDE DEF h
    <3>1. h = [s \in SUBSET (1 .. n + 1) |-> h[s]]
      BY DEF h
    <3> QED BY <2>1, <3>1 DEF IsFold
  <2> HIDE DEF h
  <2> QED BY <2>2
<1> HIDE DEF S
<1>3. Nat \subseteq S
  BY <1>1, <1>2, NatInductionInSet
<1> QED BY <1>3 DEF S

\* What holds at first and is kept by every step holds of the whole fold, where
\* St[s] is what is to hold when the entries in s have been folded in.
LEMMA FoldGrows ==
    ASSUME NEW St, NEW n \in Nat, NEW it, it[{}] \in St[{}],
           \A s \in SUBSET (1 .. n) :
              s # {} /\ it[s \ {Max(s)}] \in St[s \ {Max(s)}] => it[s] \in St[s]
    PROVE  \A s \in SUBSET (1 .. n) : it[s] \in St[s]
<1> DEFINE S == {k \in Nat : k <= n => \A s \in SUBSET (1 .. k) : it[s] \in St[s]}
<1>1. 0 \in S
  <2>1. \A s \in SUBSET (1 .. 0) : s = {}
    OBVIOUS
  <2> QED BY <2>1
<1>2. \A k \in Nat : k \in S => k + 1 \in S
  <2> SUFFICES ASSUME NEW k \in Nat, k + 1 <= n, \A s \in SUBSET (1 .. k) : it[s] \in St[s],
                      NEW s \in SUBSET (1 .. k + 1)
               PROVE  it[s] \in St[s]
    OBVIOUS
  <2>1. CASE s = {}
    BY <2>1
  <2>2. CASE s # {}
    <3>1. s \in SUBSET (1 .. n)
      OBVIOUS
    <3>2. Max(s) \in s /\ \A i \in s : i <= Max(s)
      BY <2>2, <3>1, GreatestChosen
    <3>3. s \ {Max(s)} \in SUBSET (1 .. k)
      <4> SUFFICES ASSUME NEW i \in s, i # Max(s) PROVE i \in 1 .. k
        OBVIOUS
      <4>1. i \in 1 .. k + 1 /\ Max(s) \in 1 .. k + 1 /\ i <= Max(s)
        BY <3>2
      <4> QED BY <4>1
    <3> QED BY <2>2, <3>1, <3>3
  <2> QED BY <2>1, <2>2
<1> HIDE DEF S
<1>3. Nat \subseteq S
  BY <1>1, <1>2, NatInductionInSet
<1>4. n \in S
  BY <1>3
<1> QED BY <1>4 DEF S

\* The same where what is to hold does not depend on the entries.
LEMMA FoldKept ==
    ASSUME NEW St, NEW n \in Nat, NEW it, it[{}] \in St,
           \A s \in SUBSET (1 .. n) :
              s # {} /\ it[s \ {Max(s)}] \in St => it[s] \in St
    PROVE  \A s \in SUBSET (1 .. n) : it[s] \in St
<1> DEFINE K == [s \in SUBSET (1 .. n) |-> St]
<1>1. {} \in SUBSET (1 .. n) /\ it[{}] \in K[{}]
  OBVIOUS
<1>2. \A s \in SUBSET (1 .. n) :
        s # {} /\ it[s \ {Max(s)}] \in K[s \ {Max(s)}] => it[s] \in K[s]
  OBVIOUS
<1> HIDE DEF K
<1>3. \A s \in SUBSET (1 .. n) : it[s] \in K[s]
  BY <1>1, <1>2, FoldGrows
<1> QED BY <1>3 DEF K

\* A fold whose steps keep a set: the function that computes it is defined, and
\* takes its values in that set.
LEMMA FoldTyped ==
    ASSUME NEW St, NEW b \in St, NEW n \in Nat, NEW F \in [St \X (1 .. n) -> St]
    PROVE  \E g \in [SUBSET (1 .. n) -> St] : IsFold(g, F, b, n)
<1>1. PICK g : IsFold(g, F, b, n)
  BY FoldDefined
<1>2. g[{}] = b
  <2>1. {} \in SUBSET (1 .. n)
    OBVIOUS
  <2> QED BY <1>1, <2>1 DEF IsFold
<1>3. ASSUME NEW s \in SUBSET (1 .. n), s # {}, g[s \ {Max(s)}] \in St
      PROVE  g[s] \in St
  <2>1. Max(s) \in 1 .. n
    BY <1>3, GreatestChosen
  <2>2. <<g[s \ {Max(s)}], Max(s)>> \in St \X (1 .. n)
    BY <1>3, <2>1
  <2>3. g[s] = F[<<g[s \ {Max(s)}], Max(s)>>]
    BY <1>1, <1>3 DEF IsFold
  <2> QED BY <2>2, <2>3
<1>4. \A s \in SUBSET (1 .. n) : g[s] \in St
  BY <1>2, <1>3, FoldKept
<1>5. g \in [SUBSET (1 .. n) -> St]
  BY <1>1, <1>4 DEF IsFold
<1> QED BY <1>1, <1>5

----------------------------------------------------------------------------
(* Sequences of sequences *)

\* The recursive function behind FlattenSeq exists for every sequence.
LEMMA FlattenDefined ==
    ASSUME NEW seqs
    PROVE  \A n \in Nat : \E g :
             g = [i \in 1 .. n |-> IF i = 1 THEN seqs[i] ELSE g[i - 1] \o seqs[i]]
<1> DEFINE Is(g, n) ==
             g = [i \in 1 .. n |-> IF i = 1 THEN seqs[i] ELSE g[i - 1] \o seqs[i]]
           S == {n \in Nat : \E g : Is(g, n)}
<1>1. 0 \in S
  <2>1. Is([i \in 1 .. 0 |-> seqs[i]], 0)
    OBVIOUS
  <2> QED BY <2>1
<1>2. \A n \in Nat : n \in S => n + 1 \in S
  <2> SUFFICES ASSUME NEW n \in Nat, n \in S PROVE n + 1 \in S
    OBVIOUS
  <2> HIDE DEF Is
  <2>a. PICK g : Is(g, n)
    OBVIOUS
  <2> USE DEF Is
  <2>b. \A i \in 1 .. n : g[i] = IF i = 1 THEN seqs[i] ELSE g[i - 1] \o seqs[i]
    BY <2>a
  <2> DEFINE h == [i \in 1 .. n + 1 |->
                     IF i = 1 THEN seqs[i] ELSE g[i - 1] \o seqs[i]]
  <2>1. \A i \in 1 .. n : h[i] = g[i]
    BY <2>b
  <2>2. \A i \in 1 .. n + 1 : i # 1 => h[i] = h[i - 1] \o seqs[i]
    <3> TAKE i \in 1 .. n + 1
    <3> HAVE i # 1
    <3>1. i - 1 \in 1 .. n
      OBVIOUS
    <3>2. h[i] = g[i - 1] \o seqs[i]
      OBVIOUS
    <3> QED BY <2>1, <3>1, <3>2
  <2>3. \A i \in 1 .. n + 1 : i = 1 => h[i] = seqs[i]
    OBVIOUS
  <2>4. h = [i \in 1 .. n + 1 |-> h[i]]
    OBVIOUS
  <2> HIDE DEF h
  <2>5. Is(h, n + 1)
    BY <2>2, <2>3, <2>4
  <2> HIDE DEF Is
  <2> QED BY <2>5
<1> HIDE DEF S
<1>3. Nat \subseteq S
  BY <1>1, <1>2, NatInductionInSet
<1> QED BY <1>3 DEF S

\* Only empty sequences make an empty concatenation.
LEMMA EmptyConcat ==
    ASSUME NEW X, NEW a \in Seq(X), NEW b \in Seq(X), a \o b = <<>>
    PROVE  a = <<>> /\ b = <<>>
<1>1. Len(a \o b) = Len(a) + Len(b)
  OBVIOUS
<1>2. Len(a \o b) = 0
  OBVIOUS
<1>3. Len(a) = 0 /\ Len(b) = 0
  BY <1>1, <1>2
<1> QED BY <1>3

\* A flattened sequence has the entries of its parts, and is empty only when all
\* of them are.
LEMMA FlattenKept ==
    ASSUME NEW X, NEW seqs \in Seq(Seq(X))
    PROVE  /\ FlattenSeq(seqs) \in Seq(X)
           /\ (FlattenSeq(seqs) = <<>> => \A i \in DOMAIN seqs : seqs[i] = <<>>)
<1>1. CASE Len(seqs) = 0
  <2>1. seqs = <<>> /\ FlattenSeq(seqs) = seqs
    BY <1>1 DEF FlattenSeq
  <2>2. <<>> \in Seq(X) /\ DOMAIN seqs = 1 .. 0
    BY <2>1
  <2>3. \A i \in DOMAIN seqs : FALSE
    BY <2>2
  <2>4. FlattenSeq(seqs) = <<>>
    BY <2>1
  <2> QED BY <2>2, <2>3, <2>4
<1>2. CASE Len(seqs) # 0
  <2> DEFINE n == Len(seqs)
             Is(g) == g = [i \in 1 .. n |-> IF i = 1 THEN seqs[i] ELSE g[i - 1] \o seqs[i]]
  <2>1. n \in Nat \ {0} /\ DOMAIN seqs = 1 .. n /\ \A i \in 1 .. n : seqs[i] \in Seq(X)
    BY <1>2
  <2>2. \E h : Is(h)
    BY <2>1, FlattenDefined
  <2>3. PICK g : Is(g) /\ FlattenSeq(seqs) = g[n]
    BY <1>2, <2>2 DEF FlattenSeq
  <2> DEFINE Fine(k) == /\ g[k] \in Seq(X)
                        /\ (g[k] = <<>> => \A i \in 1 .. k : seqs[i] = <<>>)
             T == {k \in Nat : k \in 1 .. n => Fine(k)}
  <2>4. 0 \in T
    OBVIOUS
  <2>5. \A k \in Nat : k \in T => k + 1 \in T
    <3> SUFFICES ASSUME NEW k \in Nat, k \in 1 .. n => Fine(k), k + 1 \in 1 .. n
                 PROVE  Fine(k + 1)
      OBVIOUS
    <3>1. CASE k = 0
      <4>1. g[k + 1] = seqs[k + 1]
        BY <2>1, <2>3, <3>1
      <4>2. \A i \in 1 .. k + 1 : i = k + 1
        BY <3>1
      <4> QED BY <2>1, <4>1, <4>2
    <3>2. CASE k # 0
      <4>1. k \in 1 .. n /\ k + 1 # 1 /\ (k + 1) - 1 = k
        BY <2>1, <3>2
      <4>2. g[k + 1] = g[k] \o seqs[k + 1]
        BY <2>3, <4>1
      <4>3. g[k] \in Seq(X) /\ seqs[k + 1] \in Seq(X)
        BY <2>1, <4>1
      <4>4. g[k + 1] = <<>> => g[k] = <<>> /\ seqs[k + 1] = <<>>
        BY <4>2, <4>3, EmptyConcat
      <4>5. \A i \in 1 .. k + 1 : i = k + 1 \/ i \in 1 .. k
        OBVIOUS
      <4>6. g[k] = <<>> => \A i \in 1 .. k : seqs[i] = <<>>
        BY <4>1
      <4> QED BY <4>2, <4>3, <4>4, <4>5, <4>6
    <3> QED BY <3>1, <3>2
  <2> HIDE DEF T
  <2>6. Nat \subseteq T
    BY <2>4, <2>5, NatInductionInSet
  <2>7. n \in T /\ n \in 1 .. n
    BY <2>1, <2>6
  <2> QED BY <2>1, <2>3, <2>7 DEF T
<1> QED BY <1>1, <1>2

----------------------------------------------------------------------------
(* Ranks *)

\* Among the first numbers, Min chooses the least.
LEMMA LeastChosen ==
    ASSUME NEW s, s \subseteq Nat, s # {}
    PROVE  Min(s) \in s /\ \A i \in s : Min(s) <= i
BY LeastNatural DEF Min

\* The entries of a strict total order before a place: as many as its number.
Rank(R, n, i) == Cardinality({j \in 1 .. n : <<j, i>> \in R})

\* The ranks of a strict total order on the first n numbers are a numbering.
LEMMA RanksNumber ==
    ASSUME NEW n \in Nat, NEW R,
           \A i \in 1 .. n : <<i, i>> \notin R,
           \A i, j \in 1 .. n : i # j => <<i, j>> \in R \/ <<j, i>> \in R,
           \A i, j, k \in 1 .. n : <<i, j>> \in R /\ <<j, k>> \in R => <<i, k>> \in R
    PROVE  /\ \A i \in 1 .. n : 1 + Rank(R, n, i) \in 1 .. n
           /\ \A k \in 1 .. n : \E i \in 1 .. n : 1 + Rank(R, n, i) = k
           /\ \A i, j \in 1 .. n : Rank(R, n, i) = Rank(R, n, j) => i = j
<1> DEFINE under(i) == {j \in 1 .. n : <<j, i>> \in R}
<1>1. IsFiniteSet(1 .. n) /\ Cardinality(1 .. n) = n
  BY FS_Interval
<1>2. \A i \in 1 .. n : IsFiniteSet(under(i)) /\ Cardinality(under(i)) \in 0 .. n - 1
  <2> TAKE i \in 1 .. n
  <2>0. under(i) \in SUBSET (1 .. n) /\ under(i) # 1 .. n
    OBVIOUS
  <2> HIDE DEF under
  <2>1. IsFiniteSet(under(i)) /\ Cardinality(under(i)) <= n
    BY <1>1, <2>0, FS_Subset
  <2>2. Cardinality(under(i)) # n
    BY <1>1, <2>0, FS_Subset
  <2>3. Cardinality(under(i)) \in Nat
    BY <2>1, FS_CardinalityType
  <2> QED BY <2>1, <2>2, <2>3
<1>3. \A i, j \in 1 .. n : <<i, j>> \in R => Cardinality(under(i)) < Cardinality(under(j))
  <2> SUFFICES ASSUME NEW i \in 1 .. n, NEW j \in 1 .. n, <<i, j>> \in R
               PROVE  Cardinality(under(i)) < Cardinality(under(j))
    OBVIOUS
  <2>1. under(i) \in SUBSET under(j) /\ i \in under(j) /\ i \notin under(i)
    OBVIOUS
  <2>2. Cardinality(under(i)) <= Cardinality(under(j)) /\ Cardinality(under(i)) # Cardinality(under(j))
    BY <1>2, <2>1, FS_Subset
  <2> HIDE DEF under
  <2>3. Cardinality(under(i)) \in Int /\ Cardinality(under(j)) \in Int
    BY <1>2
  <2> QED BY <2>2, <2>3
<1> HIDE DEF under
<1>4. \A i, j \in 1 .. n : Cardinality(under(i)) = Cardinality(under(j)) => i = j
  <2> SUFFICES ASSUME NEW i \in 1 .. n, NEW j \in 1 .. n, i # j,
                      Cardinality(under(i)) = Cardinality(under(j))
               PROVE  FALSE
    OBVIOUS
  <2>1. Cardinality(under(i)) < Cardinality(under(j)) \/ Cardinality(under(j)) < Cardinality(under(i))
    BY <1>3
  <2>2. Cardinality(under(i)) \in Int /\ Cardinality(under(j)) \in Int
    BY <1>2
  <2> QED BY <2>1, <2>2
<1> DEFINE place == [i \in 1 .. n |-> 1 + Cardinality(under(i))]
<1>5. place \in [1 .. n -> 1 .. n]
  <2>1. \A i \in 1 .. n : 1 + Cardinality(under(i)) \in 1 .. n
    <3> TAKE i \in 1 .. n
    <3>1. PICK m \in 0 .. n - 1 : m = Cardinality(under(i))
      BY <1>2
    <3> QED BY <3>1
  <2> QED BY <2>1
<1>6. \A i, j \in 1 .. n : place[i] = place[j] => i = j
  <2> SUFFICES ASSUME NEW i \in 1 .. n, NEW j \in 1 .. n, place[i] = place[j] PROVE i = j
    OBVIOUS
  <2>1. Cardinality(under(i)) \in Int /\ Cardinality(under(j)) \in Int
    BY <1>2
  <2>2. Cardinality(under(i)) = Cardinality(under(j))
    BY <2>1
  <2> QED BY <1>4, <2>2
<1> HIDE DEF place
<1>7. place \in Injection(1 .. n, 1 .. n)
  BY <1>5, <1>6 DEF Injection, IsInjective
<1>8. place \in Surjection(1 .. n, 1 .. n)
  BY <1>1, <1>7, FS_Injection
<1>9. \A k \in 1 .. n : \E i \in 1 .. n : place[i] = k
  BY <1>8 DEF Surjection
<1>10. \A i \in 1 .. n : Rank(R, n, i) = Cardinality(under(i))
  BY DEF Rank, under
<1>11. \A i \in 1 .. n : place[i] = 1 + Rank(R, n, i)
  BY <1>10 DEF place
<1>12. \A i \in 1 .. n : 1 + Rank(R, n, i) \in 1 .. n
  BY <1>5, <1>11
<1> QED BY <1>4, <1>9, <1>10, <1>11, <1>12

\* The same in a finite set.
RankIn(R, S, x) == Cardinality({y \in S : <<y, x>> \in R})

\* A strict total order numbers the elements of a finite set.
LEMMA RanksNumberSet ==
    ASSUME NEW S, IsFiniteSet(S), NEW R,
           \A x \in S : <<x, x>> \notin R,
           \A x, y \in S : x # y => <<x, y>> \in R \/ <<y, x>> \in R,
           \A x, y, z \in S : <<x, y>> \in R /\ <<y, z>> \in R => <<x, z>> \in R
    PROVE  /\ Cardinality(S) \in Nat
           /\ \A x \in S : 1 + RankIn(R, S, x) \in 1 .. Cardinality(S)
           /\ \A k \in 1 .. Cardinality(S) : \E x \in S : 1 + RankIn(R, S, x) = k
           /\ \A x, y \in S : RankIn(R, S, x) = RankIn(R, S, y) => x = y
<1>1. PICK n \in Nat : n = Cardinality(S)
  BY FS_CardinalityType
<1>2. PICK f : f \in Bijection(1 .. n, S)
  BY <1>1, FS_CardinalityType DEF ExistsBijection
<1>3. /\ f \in [1 .. n -> S]
      /\ \A i, j \in 1 .. n : f[i] = f[j] => i = j
      /\ \A x \in S : \E i \in 1 .. n : f[i] = x
  BY <1>2 DEF Bijection, Injection, Surjection, IsInjective
<1>4. PICK Q : Q = {e \in (1 .. n) \X (1 .. n) : <<f[e[1]], f[e[2]]>> \in R}
  OBVIOUS
<1>5. \A i, j \in 1 .. n : <<i, j>> \in Q <=> <<f[i], f[j]>> \in R
  BY <1>4
<1>6. /\ \A i \in 1 .. n : <<i, i>> \notin Q
      /\ \A i, j \in 1 .. n : i # j => <<i, j>> \in Q \/ <<j, i>> \in Q
      /\ \A i, j, k \in 1 .. n : <<i, j>> \in Q /\ <<j, k>> \in Q => <<i, k>> \in Q
  <2>1. \A i \in 1 .. n : f[i] \in S
    BY <1>3
  <2> QED BY <1>3, <1>5, <2>1
<1>7. ASSUME NEW i \in 1 .. n
      PROVE  RankIn(R, S, f[i]) = Rank(Q, n, i)
  <2>1. PICK A : A = {j \in 1 .. n : <<j, i>> \in Q}
    OBVIOUS
  <2>2. PICK B : B = {y \in S : <<y, f[i]>> \in R}
    OBVIOUS
  <2>3. \A j \in A : f[j] \in B
    BY <1>3, <1>5, <2>1, <2>2
  <2>4. \A y \in B : \E j \in A : f[j] = y
    BY <1>3, <1>5, <2>1, <2>2
  <2>5. PICK g : g = [j \in A |-> f[j]]
    OBVIOUS
  <2>6. g \in [A -> B] /\ A \subseteq 1 .. n
    BY <2>1, <2>3, <2>5
  <2>7. g \in Bijection(A, B)
    BY <1>3, <2>4, <2>5, <2>6 DEF Bijection, Injection, Surjection, IsInjective
  <2>8. IsFiniteSet(1 .. n)
    BY FS_Interval
  <2>9. IsFiniteSet(A)
    BY <2>6, <2>8, FS_Subset
  <2>10. Cardinality(A) = Cardinality(B)
    BY <2>7, <2>9, FS_Bijection DEF ExistsBijection
  <2> QED BY <2>1, <2>2, <2>10 DEF Rank, RankIn
<1>8. /\ \A i \in 1 .. n : 1 + Rank(Q, n, i) \in 1 .. n
      /\ \A k \in 1 .. n : \E i \in 1 .. n : 1 + Rank(Q, n, i) = k
      /\ \A i, j \in 1 .. n : Rank(Q, n, i) = Rank(Q, n, j) => i = j
  BY <1>6, RanksNumber
<1>9. \A x \in S : \E i \in 1 .. n : f[i] = x /\ RankIn(R, S, x) = Rank(Q, n, i)
  BY <1>3, <1>7
<1>10. \A i \in 1 .. n : f[i] \in S /\ RankIn(R, S, f[i]) = Rank(Q, n, i)
  BY <1>3, <1>7
<1>11. \A x \in S : 1 + RankIn(R, S, x) \in 1 .. n
  BY <1>8, <1>9
<1>12. \A k \in 1 .. n : \E x \in S : 1 + RankIn(R, S, x) = k
  <2> SUFFICES ASSUME NEW k \in 1 .. n PROVE \E x \in S : 1 + RankIn(R, S, x) = k
    OBVIOUS
  <2>1. PICK i \in 1 .. n : 1 + Rank(Q, n, i) = k
    BY <1>8
  <2>2. f[i] \in S /\ RankIn(R, S, f[i]) = Rank(Q, n, i)
    BY <1>10
  <2> QED BY <2>1, <2>2
<1>13. \A x, y \in S : RankIn(R, S, x) = RankIn(R, S, y) => x = y
  <2> SUFFICES ASSUME NEW x \in S, NEW y \in S, RankIn(R, S, x) = RankIn(R, S, y) PROVE x = y
    OBVIOUS
  <2>1. PICK i \in 1 .. n : f[i] = x /\ RankIn(R, S, x) = Rank(Q, n, i)
    BY <1>9
  <2>2. PICK j \in 1 .. n : f[j] = y /\ RankIn(R, S, y) = Rank(Q, n, j)
    BY <1>9
  <2>3. i = j
    BY <1>8, <2>1, <2>2
  <2> QED BY <2>1, <2>2, <2>3
<1> QED BY <1>1, <1>11, <1>12, <1>13

----------------------------------------------------------------------------
(* Sums *)

\* Induction over the subsets of a finite set, with a set in place of a predicate.
LEMMA SubsetInduction ==
    ASSUME NEW S, IsFiniteSet(S), NEW K, {} \in K,
           \A s \in SUBSET S : s # {} /\ (\A x \in s : s \ {x} \in K) => s \in K
    PROVE  SUBSET S \subseteq K
<1> DEFINE T == {n \in Nat : \A s \in SUBSET S : Cardinality(s) = n => s \in K}
<1>0. \A s \in SUBSET S : IsFiniteSet(s) /\ Cardinality(s) \in Nat
  BY FS_Subset, FS_CardinalityType
<1>1. 0 \in T
  BY <1>0, FS_EmptySet
<1>2. ASSUME NEW n \in Nat, n \in T, NEW s \in SUBSET S, Cardinality(s) = n + 1
      PROVE  s \in K
  <2>1. s # {}
    <3>1. Cardinality(s) # 0
      BY <1>2
    <3> QED BY <3>1, FS_EmptySet
  <2>2. ASSUME NEW x \in s PROVE s \ {x} \in K
    <3>1. Cardinality(s \ {x}) = Cardinality(s) - 1
      BY <1>0, FS_RemoveElement
    <3>2. Cardinality(s \ {x}) = n
      BY <1>2, <3>1
    <3> QED BY <1>2, <3>2
  <2> QED BY <2>1, <2>2
<1>3. \A n \in Nat : n \in T => n + 1 \in T
  BY <1>2
<1>4. Nat \subseteq T
  <2> HIDE DEF T
  <2> QED BY <1>1, <1>3, NatInductionInSet
<1> QED BY <1>0, <1>4

\* The function on sets by which MapThenSumSet adds up the values of f on S.
IsSum(g, f, S) ==
    g = [s \in SUBSET S |->
            IF s = {} THEN 0
            ELSE f[CHOOSE x \in s : TRUE] + g[s \ {CHOOSE x \in s : TRUE}]]

\* That recursive function exists on every finite set.
LEMMA SumDefined ==
    ASSUME NEW S, IsFiniteSet(S), NEW f
    PROVE  \E g : IsSum(g, f, S)
<1> DEFINE Small(n) == {s \in SUBSET S : Cardinality(s) <= n}
           Is(g, n) == g = [s \in Small(n) |->
                              IF s = {} THEN 0
                              ELSE f[CHOOSE x \in s : TRUE] + g[s \ {CHOOSE x \in s : TRUE}]]
           T == {n \in Nat : \E g : Is(g, n)}
<1>1. 0 \in T
  <2>1. \A s \in Small(0) : s = {}
    <3> TAKE s \in Small(0)
    <3>1. IsFiniteSet(s) /\ Cardinality(s) \in Nat
      BY FS_Subset, FS_CardinalityType
    <3> QED BY <3>1, FS_EmptySet
  <2>2. Is([s \in Small(0) |-> 0], 0)
    <3> HIDE DEF Small
    <3> QED BY <2>1
  <2> QED BY <2>2
<1>2. ASSUME NEW n \in Nat, n \in T PROVE n + 1 \in T
  <2>1. PICK g : Is(g, n)
    BY <1>2
  <2> DEFINE h == [s \in Small(n + 1) |->
                     IF Cardinality(s) <= n THEN g[s]
                     ELSE f[CHOOSE x \in s : TRUE] + g[s \ {CHOOSE x \in s : TRUE}]]
  <2>2. ASSUME NEW s \in Small(n + 1), s # {}
        PROVE  /\ s \ {CHOOSE x \in s : TRUE} \in Small(n)
               /\ h[s \ {CHOOSE x \in s : TRUE}] = g[s \ {CHOOSE x \in s : TRUE}]
    <3>1. IsFiniteSet(s) /\ Cardinality(s) \in Nat
      BY FS_Subset, FS_CardinalityType
    <3>2. PICK x : x = CHOOSE y \in s : TRUE
      OBVIOUS
    <3>3. x \in s
      BY <2>2, <3>2
    <3>4. Cardinality(s \ {x}) = Cardinality(s) - 1
      BY <3>1, <3>3, FS_RemoveElement
    <3>5. Cardinality(s \ {x}) <= n /\ Cardinality(s \ {x}) <= n + 1
      BY <3>1, <3>4
    <3> QED BY <3>2, <3>5
  <2>3. ASSUME NEW s \in Small(n + 1)
        PROVE  h[s] = IF s = {} THEN 0
                      ELSE f[CHOOSE x \in s : TRUE] + h[s \ {CHOOSE x \in s : TRUE}]
    <3>1. CASE Cardinality(s) <= n
      <4>1. s \in Small(n) /\ h[s] = g[s]
        BY <3>1
      <4>2. g[s] = IF s = {} THEN 0 ELSE f[CHOOSE x \in s : TRUE] + g[s \ {CHOOSE x \in s : TRUE}]
        <5> HIDE DEF Small
        <5> QED BY <2>1, <4>1
      <4> HIDE DEF h
      <4> QED BY <2>2, <4>1, <4>2
    <3>2. CASE ~(Cardinality(s) <= n)
      <4>1. s # {}
        BY <3>2, FS_EmptySet
      <4>2. h[s] = f[CHOOSE x \in s : TRUE] + g[s \ {CHOOSE x \in s : TRUE}]
        BY <3>2
      <4> HIDE DEF h
      <4> QED BY <2>2, <4>1, <4>2
    <3> QED BY <3>1, <3>2
  <2>4. h = [s \in Small(n + 1) |-> h[s]]
    OBVIOUS
  <2> HIDE DEF h
  <2>5. Is(h, n + 1)
    BY <2>3, <2>4
  <2> HIDE DEF Is
  <2> QED BY <2>5
<1>3. Nat \subseteq T
  <2> HIDE DEF T
  <2> QED BY <1>1, <1>2, NatInductionInSet
<1>4. Cardinality(S) \in Nat
  BY FS_CardinalityType
<1>5. PICK g : Is(g, Cardinality(S))
  BY <1>3, <1>4
<1>6. Small(Cardinality(S)) = SUBSET S
  BY FS_Subset
<1> QED
  <2> HIDE DEF Small
  <2> QED BY <1>5, <1>6 DEF IsSum

\* The sum of the values of a function over a finite set.
Total(f, S) == MapThenSumSet(LAMBDA x : f[x], S)

\* A sum is the value of that function.
LEMMA TotalIsSum ==
    ASSUME NEW S, IsFiniteSet(S), NEW f
    PROVE  \E g : IsSum(g, f, S) /\ Total(f, S) = g[S]
<1>1. PICK h : IsSum(h, f, S)
  BY SumDefined
<1>2. h = [s \in SUBSET S |->
            IF s = {} THEN 0
            ELSE f[CHOOSE x \in s : TRUE] + h[s \ {CHOOSE x \in s : TRUE}]]
  BY <1>1 DEF IsSum
<1> DEFINE Is(g) == g = [s \in SUBSET S |->
            IF s = {} THEN 0
            ELSE f[CHOOSE x \in s : TRUE] + g[s \ {CHOOSE x \in s : TRUE}]]
<1>3. PICK g : Is(g) /\ Total(f, S) = g[S]
  BY <1>2 DEF Total, MapThenSumSet, MapThenFoldSet
<1> QED BY <1>3 DEF IsSum

\* Two such functions agree where both are defined.
LEMMA SumsAgree ==
    ASSUME NEW S, IsFiniteSet(S), NEW f, NEW g, IsSum(g, f, S),
           NEW U \in SUBSET S, NEW h, IsSum(h, f, U)
    PROVE  \A s \in SUBSET U : g[s] = h[s]
<1> DEFINE K == {s \in SUBSET U : g[s] = h[s]}
<1>1. {} \in K
  BY DEF IsSum
<1>2. ASSUME NEW s \in SUBSET U, s # {}, \A x \in s : s \ {x} \in K
      PROVE  s \in K
  <2>1. PICK x : x = CHOOSE y \in s : TRUE
    OBVIOUS
  <2>2. x \in s
    BY <1>2, <2>1
  <2>3. g[s] = f[x] + g[s \ {x}] /\ h[s] = f[x] + h[s \ {x}]
    BY <1>2, <2>1 DEF IsSum
  <2> QED BY <1>2, <2>2, <2>3
<1>3. IsFiniteSet(U)
  BY FS_Subset
<1>4. SUBSET U \subseteq K
  <2> HIDE DEF K
  <2> QED BY <1>1, <1>2, <1>3, SubsetInduction
<1> QED BY <1>4

\* Any element may be taken out of a sum first.
LEMMA SumTakes ==
    ASSUME NEW S, IsFiniteSet(S), NEW f \in [S -> Int], NEW g, IsSum(g, f, S)
    PROVE  \A s \in SUBSET S : /\ g[s] \in Int
                               /\ \A x \in s : g[s] = f[x] + g[s \ {x}]
<1> DEFINE N == {s \in SUBSET S : g[s] \in Int}
           K == {s \in SUBSET S : \A x \in s : g[s] = f[x] + g[s \ {x}]}
<1>1. {} \in N /\ {} \in K
  BY DEF IsSum
<1>2. ASSUME NEW s \in SUBSET S, s # {}
      PROVE  \E y \in s : g[s] = f[y] + g[s \ {y}]
  BY <1>2 DEF IsSum
<1>3. \A s \in SUBSET S : s # {} /\ (\A x \in s : s \ {x} \in N) => s \in N
  <2> TAKE s \in SUBSET S
  <2> HAVE s # {} /\ \A x \in s : s \ {x} \in N
  <2>1. PICK y \in s : g[s] = f[y] + g[s \ {y}]
    BY <1>2
  <2>2. f[y] \in Int /\ g[s \ {y}] \in Int
    OBVIOUS
  <2> QED BY <2>1, <2>2
<1>4. SUBSET S \subseteq N
  <2> HIDE DEF N
  <2> QED BY <1>1, <1>3, SubsetInduction
<1>5. ASSUME NEW s \in SUBSET S, s # {}, \A x \in s : s \ {x} \in K, NEW x \in s
      PROVE  g[s] = f[x] + g[s \ {x}]
  <2>1. PICK y \in s : g[s] = f[y] + g[s \ {y}]
    BY <1>2, <1>5
  <2>2. CASE x = y
    BY <2>1, <2>2
  <2>3. CASE x # y
    <3>1. x \in s \ {y} /\ y \in s \ {x} /\ (s \ {y}) \ {x} = (s \ {x}) \ {y}
      BY <2>3
    <3>2. PICK t \in SUBSET S : t = (s \ {x}) \ {y}
      OBVIOUS
    <3>3. g[s \ {y}] = f[x] + g[t] /\ g[s \ {x}] = f[y] + g[t]
      BY <1>5, <2>1, <3>1, <3>2
    <3>4. g[t] \in Int /\ f[x] \in Int /\ f[y] \in Int
      BY <1>4, <2>1
    <3> QED BY <2>1, <3>3, <3>4
  <2> QED BY <2>2, <2>3
<1>6. \A s \in SUBSET S : s # {} /\ (\A x \in s : s \ {x} \in K) => s \in K
  BY <1>5
<1>7. SUBSET S \subseteq K
  <2> HIDE DEF K
  <2> QED BY <1>1, <1>6, SubsetInduction
<1> QED BY <1>4, <1>7

\* A sum is a number, nothing on the empty set, and an element may be taken out.
LEMMA TotalTakes ==
    ASSUME NEW S, IsFiniteSet(S), NEW f \in [S -> Int]
    PROVE  /\ \A U \in SUBSET S : Total(f, U) \in Int
           /\ Total(f, {}) = 0
           /\ \A U \in SUBSET S : \A x \in U : Total(f, U) = f[x] + Total(f, U \ {x})
<1>1. PICK g : IsSum(g, f, S)
  BY SumDefined
<1>2. ASSUME NEW U \in SUBSET S PROVE Total(f, U) = g[U]
  <2>1. PICK h : IsSum(h, f, U) /\ Total(f, U) = h[U]
    BY FS_Subset, TotalIsSum
  <2>2. \A s \in SUBSET U : g[s] = h[s]
    BY <1>1, <2>1, SumsAgree
  <2> QED BY <2>1, <2>2
<1>3. g[{}] = 0
  BY <1>1 DEF IsSum
<1>4. \A s \in SUBSET S : g[s] \in Int /\ \A x \in s : g[s] = f[x] + g[s \ {x}]
  BY <1>1, SumTakes
<1>5. ASSUME NEW U \in SUBSET S, NEW x \in U
      PROVE  Total(f, U) = f[x] + Total(f, U \ {x})
  <2>1. U \ {x} \in SUBSET S
    OBVIOUS
  <2> QED BY <1>2, <1>4, <2>1
<1> QED BY <1>2, <1>3, <1>4, <1>5

\* Zeros add nothing.
LEMMA TotalOfPart ==
    ASSUME NEW S, IsFiniteSet(S), NEW f \in [S -> Int], NEW P \in SUBSET S,
           NEW z, z = [x \in S |-> IF x \in P THEN f[x] ELSE 0]
    PROVE  Total(f, P) = Total(z, S)
<1> DEFINE K == {U \in SUBSET S : Total(f, U \cap P) = Total(z, U)}
<1>1. z \in [S -> Int]
  OBVIOUS
<1>2. {} \in K
  <2>1. Total(f, {}) = 0 /\ Total(z, {}) = 0
    BY <1>1, TotalTakes
  <2>2. {} \cap P = {}
    OBVIOUS
  <2> QED BY <2>1, <2>2
<1>3. ASSUME NEW U \in SUBSET S, U # {}, \A x \in U : U \ {x} \in K
      PROVE  U \in K
  <2>1. PICK x \in U : TRUE
    BY <1>3
  <2>2. Total(z, U) = z[x] + Total(z, U \ {x})
    BY <1>1, TotalTakes
  <2>3. Total(f, (U \ {x}) \cap P) = Total(z, U \ {x})
    BY <1>3
  <2>4. CASE x \in P
    <3>1. (U \ {x}) \cap P = (U \cap P) \ {x} /\ x \in U \cap P /\ U \cap P \in SUBSET S
      BY <2>4
    <3>2. Total(f, U \cap P) = f[x] + Total(f, (U \cap P) \ {x})
      BY <3>1, TotalTakes
    <3> QED BY <2>2, <2>3, <2>4, <3>1, <3>2
  <2>5. CASE x \notin P
    <3>1. (U \ {x}) \cap P = U \cap P /\ z[x] = 0
      BY <2>5
    <3>2. Total(z, U \ {x}) \in Int
      BY <1>1, TotalTakes
    <3>3. Total(f, U \cap P) = Total(z, U)
      BY <2>2, <2>3, <3>1, <3>2
    <3> QED BY <3>3
  <2> QED BY <2>4, <2>5
<1>4. SUBSET S \subseteq K
  <2> HIDE DEF K
  <2> QED BY <1>2, <1>3, SubsetInduction
<1>5. S \cap P = P
  OBVIOUS
<1> QED BY <1>4, <1>5

\* Sums compare as their terms do.
LEMMA TotalBelow ==
    ASSUME NEW S, IsFiniteSet(S), NEW a \in [S -> Int], NEW b \in [S -> Int],
           NEW D, NEW k \in Nat, NEW U \in SUBSET S,
           \A x \in U : b[x] <= a[x] + (IF x \in D THEN k ELSE 0)
    PROVE  Total(b, U) <= Total(a, U) + k * Cardinality(U \cap D)
<1> DEFINE K == {V \in SUBSET U : Total(b, V) <= Total(a, V) + k * Cardinality(V \cap D)}
<1>0. IsFiniteSet(U)
  BY FS_Subset
<1>1. {} \in K
  <2>1. Total(a, {}) = 0 /\ Total(b, {}) = 0
    BY TotalTakes
  <2>2. {} \cap D = {} /\ Cardinality({}) = 0
    BY FS_EmptySet
  <2> QED BY <2>1, <2>2
<1>2. ASSUME NEW V \in SUBSET U, V # {}, \A x \in V : V \ {x} \in K
      PROVE  Total(b, V) <= Total(a, V) + k * Cardinality(V \cap D)
  <2>1. PICK x \in V : TRUE
    BY <1>2
  <2>2. /\ Total(a, V) = a[x] + Total(a, V \ {x}) /\ Total(b, V) = b[x] + Total(b, V \ {x})
        /\ Total(a, V \ {x}) \in Int /\ Total(b, V \ {x}) \in Int
        /\ a[x] \in Int /\ b[x] \in Int
    BY TotalTakes
  <2>3. PICK m : m = Cardinality((V \ {x}) \cap D)
    OBVIOUS
  <2>4. IsFiniteSet((V \ {x}) \cap D) /\ IsFiniteSet(V \cap D)
    BY <1>0, FS_Subset
  <2>5. m \in Nat
    BY <2>3, <2>4, FS_CardinalityType
  <2>6. Total(b, V \ {x}) <= Total(a, V \ {x}) + k * m
    BY <1>2, <2>3
  <2>7. CASE x \in D
    <3>1. (V \cap D) \ {x} = (V \ {x}) \cap D /\ x \in V \cap D
      BY <2>7
    <3>2. m = Cardinality(V \cap D) - 1
      BY <2>3, <2>4, <3>1, FS_RemoveElement
    <3>3. Cardinality(V \cap D) \in Nat
      BY <2>4, FS_CardinalityType
    <3>4. Cardinality(V \cap D) = m + 1
      BY <2>5, <3>2, <3>3
    <3>5. k * (m + 1) = k * m + k /\ k * m \in Int
      BY <2>5
    <3>6. b[x] <= a[x] + k
      BY <2>7
    <3> QED BY <2>2, <2>6, <3>4, <3>5, <3>6
  <2>8. CASE x \notin D
    <3>1. (V \ {x}) \cap D = V \cap D
      BY <2>8
    <3>2. b[x] <= a[x]
      BY <2>2, <2>8
    <3>3. k * m \in Int
      BY <2>5
    <3>4. Cardinality(V \cap D) = m
      BY <2>3, <3>1
    <3> QED BY <2>2, <2>6, <3>2, <3>3, <3>4
  <2> QED BY <2>7, <2>8
<1>3. SUBSET U \subseteq K
  <2>1. \A V \in SUBSET U : V # {} /\ (\A x \in V : V \ {x} \in K) => V \in K
    BY <1>2
  <2> HIDE DEF K
  <2> QED BY <1>0, <1>1, <2>1, SubsetInduction
<1> QED BY <1>3

\* A sum changes by what one term changes.
LEMMA TotalChanges ==
    ASSUME NEW S, IsFiniteSet(S), NEW a \in [S -> Int], NEW b \in [S -> Int],
           NEW c \in S, \A x \in S \ {c} : b[x] = a[x]
    PROVE  Total(b, S) = Total(a, S) - a[c] + b[c]
<1>1. PICK U \in SUBSET S : U = S \ {c}
  OBVIOUS
<1>2. /\ \A x \in U : b[x] <= a[x] + (IF x \in {} THEN 0 ELSE 0)
      /\ \A x \in U : a[x] <= b[x] + (IF x \in {} THEN 0 ELSE 0)
  BY <1>1
<1>3. /\ Total(b, U) <= Total(a, U) + 0 * Cardinality(U \cap {})
      /\ Total(a, U) <= Total(b, U) + 0 * Cardinality(U \cap {})
  BY <1>2, TotalBelow
<1>4. Cardinality(U \cap {}) = 0
  <2>1. U \cap {} = {}
    OBVIOUS
  <2> QED BY <2>1, FS_EmptySet
<1>5. Total(a, U) \in Int /\ Total(b, U) \in Int
  BY TotalTakes
<1>6. Total(a, U) = Total(b, U)
  BY <1>3, <1>4, <1>5
<1>7. Total(a, S) = a[c] + Total(a, U) /\ Total(b, S) = b[c] + Total(b, U)
  BY <1>1, TotalTakes
<1> QED BY <1>5, <1>6, <1>7

=============================================================================
