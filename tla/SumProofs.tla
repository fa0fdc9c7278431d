----------------------------- MODULE SumProofs -----------------------------
(***************************************************************************)
(* Sums over finite sets.  The money modules add up lines, earmarks and     *)
(* ledgers with SumFunctionOnSet, which is defined by recursion on the set. *)
(* Its laws follow by induction, and induction from what the library says   *)
(* of well-founded orders: a nonempty set of naturals has a least element.  *)
(***************************************************************************)
EXTENDS Integers, FiniteSets, Functions, FiniteSetTheorems, WellFoundedInduction, TLAPS

-----------------------------------------------------------------------------
(* Induction, over sets of naturals and over the subsets of a finite set. *)

\* Every nonempty set of naturals has a least element.
LEMMA LeastNatural ==
  ASSUME NEW T \in SUBSET Nat, T # {}
  PROVE  \E x \in T : \A y \in T : x <= y
<1> DEFINE R == {ss \in Nat \X Nat : ss[1] < ss[2]}
<1>1. IsWellFoundedOn(R, Nat)
  BY NatLessThanWellFounded DEF OpToRel
<1>2. PICK x \in T : \A y \in T : <<y, x>> \notin R
  <2> HIDE DEF R
  <2> QED BY <1>1, WFMin
<1>3. \A y \in T : <<y, x>> \in R <=> y < x
  OBVIOUS
<1> HIDE DEF R
<1>4. \A y \in T : ~(y < x)
  BY <1>2, <1>3
<1>5. \A y \in T : y \in Nat /\ x \in Nat
  OBVIOUS
<1>6. \A y \in T : x <= y
  BY <1>4, <1>5
<1> QED BY <1>6

\* A set of naturals that has zero and every successor is all of them.
LEMMA NatSetInduction ==
  ASSUME NEW P \in SUBSET Nat, 0 \in P, \A n \in P : n + 1 \in P
  PROVE  P = Nat
<1> DEFINE T == Nat \ P
<1>1. SUFFICES ASSUME T # {} PROVE FALSE
  OBVIOUS
<1>2. PICK x \in T : \A y \in T : x <= y
  BY <1>1, LeastNatural
<1>3. x # 0 /\ x - 1 \in Nat /\ x - 1 \notin T
  BY <1>2
<1> QED BY <1>3, <1>2

\* A finite set with one member fewer.
LEMMA SmallerFinite ==
  ASSUME NEW S, IsFiniteSet(S), NEW x \in S
  PROVE  /\ IsFiniteSet(S \ {x}) /\ Cardinality(S) \in Nat /\ Cardinality(S \ {x}) \in Nat
         /\ Cardinality(S) = Cardinality(S \ {x}) + 1
<1>1. Cardinality(S) \in Nat
  BY FS_CardinalityType
<1>2. IsFiniteSet(S \ {x}) /\ Cardinality(S \ {x}) = Cardinality(S) - 1
  BY FS_RemoveElement
<1>3. Cardinality(S \ {x}) \in Nat
  BY <1>2, FS_CardinalityType
<1> QED BY <1>1, <1>2, <1>3

\* Induction over the subsets of a finite set.
LEMMA SubsetInduction ==
  ASSUME NEW S, IsFiniteSet(S), NEW P \in SUBSET SUBSET S, {} \in P,
         \A s \in SUBSET S : s # {} /\ (\A x \in s : s \ {x} \in P) => s \in P
  PROVE  P = SUBSET S
<1> DEFINE N == {n \in Nat : \A s \in SUBSET S : Cardinality(s) = n => s \in P}
<1>1. \A s \in SUBSET S : IsFiniteSet(s) /\ Cardinality(s) \in Nat
  BY FS_Subset, FS_CardinalityType
<1>2. 0 \in N
  BY <1>1, FS_EmptySet
<1>3. ASSUME NEW n \in N PROVE n + 1 \in N
  <2>1. ASSUME NEW s \in SUBSET S, Cardinality(s) = n + 1 PROVE s \in P
    <3>1. s # {}
      BY <2>1, FS_EmptySet
    <3>2. ASSUME NEW x \in s PROVE s \ {x} \in P
      <4>1. Cardinality(s \ {x}) = n
        BY <1>1, <2>1, SmallerFinite
      <4> QED BY <4>1
    <3> QED BY <3>1, <3>2
  <2> QED BY <2>1
<1>4. N = Nat
  <2> HIDE DEF N
  <2>1. N \in SUBSET Nat
    BY DEF N
  <2> QED BY <2>1, <1>2, <1>3, NatSetInduction
<1> QED BY <1>1, <1>4

\* Every nonempty finite set of naturals has a largest element.
LEMMA LargestNatural ==
  ASSUME NEW T \in SUBSET Nat, IsFiniteSet(T), T # {}
  PROVE  \E x \in T : \A y \in T : y <= x
<1> DEFINE P == {s \in SUBSET T : s # {} => \E x \in s : \A y \in s : y <= x}
<1>1. {} \in P
  OBVIOUS
<1>2. ASSUME NEW s \in SUBSET T, s # {}, \A x \in s : s \ {x} \in P
      PROVE  s \in P
  <2>1. PICK z \in s : TRUE
    BY <1>2
  <2>2. CASE s \ {z} = {}
    BY <2>1, <2>2
  <2>3. CASE s \ {z} # {}
    <3>1. PICK x \in s \ {z} : \A y \in s \ {z} : y <= x
      BY <1>2, <2>3
    <3>2. x \in Nat /\ z \in Nat /\ \A y \in s : y \in Nat
      OBVIOUS
    <3>3. CASE z <= x
      BY <3>1, <3>3
    <3>4. CASE ~(z <= x)
      <4>1. \A y \in s : y <= z
        BY <3>1, <3>2, <3>4
      <4> QED BY <4>1
    <3> QED BY <3>3, <3>4
  <2> QED BY <2>2, <2>3
<1>3. P = SUBSET T
  <2> HIDE DEF P
  <2>1. P \in SUBSET SUBSET T
    BY DEF P
  <2> QED BY <2>1, <1>1, <1>2, SubsetInduction
<1> QED BY <1>3

-----------------------------------------------------------------------------
(* The recursion behind SumFunctionOnSet has a solution, which unfolds. *)

\* The member the sum takes next, and the sums of the subsets of S.
SumPick(s) == CHOOSE x \in s : TRUE
PartialSums(f, S) ==
  CHOOSE iter : iter = [s \in SUBSET S |->
                          IF s = {} THEN 0 ELSE f[SumPick(s)] + iter[s \ {SumPick(s)}]]

\* SumFunctionOnSet is the last of its partial sums.
LEMMA SumIsPartialSum ==
  ASSUME NEW f, NEW S
  PROVE  SumFunctionOnSet(f, S) = PartialSums(f, S)[S]
BY DEF SumFunctionOnSet, FoldFunctionOnSet, MapThenFoldSet, PartialSums, SumPick

\* A nonempty set has the member it chooses.
LEMMA PickedIsMember ==
  ASSUME NEW s, s # {}
  PROVE  SumPick(s) \in s
BY DEF SumPick

\* The partial sums exist: they are built up by the size of the subsets.
LEMMA PartialSumsUnfold ==
  ASSUME NEW f, NEW S, IsFiniteSet(S)
  PROVE  \A s \in SUBSET S :
           PartialSums(f, S)[s] = IF s = {} THEN 0 ELSE f[SumPick(s)] + PartialSums(f, S)[s \ {SumPick(s)}]
<1> DEFINE Upto(g, n) == \A s \in SUBSET S : Cardinality(s) <= n =>
             g[s] = IF s = {} THEN 0 ELSE f[SumPick(s)] + g[s \ {SumPick(s)}]
           P == {n \in Nat : \E g : Upto(g, n)}
<1>1. \A s \in SUBSET S : IsFiniteSet(s) /\ Cardinality(s) \in Nat
  BY FS_Subset, FS_CardinalityType
<1>2. 0 \in P
  <2> DEFINE g == [s \in SUBSET S |-> 0]
  <2>1. \A s \in SUBSET S : Cardinality(s) <= 0 => s = {}
    BY <1>1, FS_EmptySet
  <2>2. Upto(g, 0)
    BY <2>1
  <2> QED BY <2>2
<1>3. ASSUME NEW n \in P PROVE n + 1 \in P
  <2>1. PICK g : Upto(g, n)
    OBVIOUS
  <2> DEFINE h == [s \in SUBSET S |-> IF Cardinality(s) <= n THEN g[s]
                                      ELSE f[SumPick(s)] + g[s \ {SumPick(s)}]]
  <2>2. ASSUME NEW s \in SUBSET S, Cardinality(s) <= n + 1
        PROVE  h[s] = IF s = {} THEN 0 ELSE f[SumPick(s)] + h[s \ {SumPick(s)}]
    <3>1. CASE s = {}
      <4>1. Cardinality(s) <= n
        BY <3>1, FS_EmptySet
      <4> QED BY <4>1, <3>1, <2>1
    <3>2. CASE s # {}
      <4>1. /\ SumPick(s) \in s /\ s \ {SumPick(s)} \in SUBSET S
            /\ Cardinality(s \ {SumPick(s)}) <= n
        BY <3>2, <1>1, <2>2, PickedIsMember, SmallerFinite
      <4>2. h[s \ {SumPick(s)}] = g[s \ {SumPick(s)}]
        BY <4>1
      <4>3. h[s] = f[SumPick(s)] + g[s \ {SumPick(s)}]
        <5>1. CASE Cardinality(s) <= n
          BY <5>1, <2>1, <3>2
        <5>2. CASE ~(Cardinality(s) <= n)
          BY <5>2
        <5> QED BY <5>1, <5>2
      <4> QED BY <4>2, <4>3, <3>2
    <3> QED BY <3>1, <3>2
  <2>3. Upto(h, n + 1)
    BY <2>2
  <2> HIDE DEF h
  <2>4. \E k : Upto(k, n + 1)
    <3> HIDE DEF Upto
    <3> QED BY <2>3, Zenon
  <2>5. n + 1 \in Nat
    OBVIOUS
  <2> HIDE DEF Upto
  <2> QED BY <2>4, <2>5
<1>4. Cardinality(S) \in P
  <2> HIDE DEF P
  <2>1. P \in SUBSET Nat
    BY DEF P
  <2> QED BY <2>1, <1>1, <1>2, <1>3, NatSetInduction
<1>5. PICK g : Upto(g, Cardinality(S))
  BY <1>4
<1> DEFINE h == [s \in SUBSET S |-> g[s]]
<1>6. h = [s \in SUBSET S |-> IF s = {} THEN 0 ELSE f[SumPick(s)] + h[s \ {SumPick(s)}]]
  <2>1. ASSUME NEW s \in SUBSET S
        PROVE  h[s] = IF s = {} THEN 0 ELSE f[SumPick(s)] + h[s \ {SumPick(s)}]
    <3>1. Cardinality(s) <= Cardinality(S)
      BY FS_Subset
    <3>2. g[s] = IF s = {} THEN 0 ELSE f[SumPick(s)] + g[s \ {SumPick(s)}]
      BY <3>1, <1>5
    <3>3. s \ {SumPick(s)} \in SUBSET S
      OBVIOUS
    <3> QED BY <3>2, <3>3
  <2> HIDE DEF h
  <2>2. h = [s \in SUBSET S |-> h[s]]
    BY DEF h
  <2> QED BY <2>1, <2>2
<1>7. PartialSums(f, S) = [s \in SUBSET S |-> IF s = {} THEN 0
                                          ELSE f[SumPick(s)] + PartialSums(f, S)[s \ {SumPick(s)}]]
  <2> HIDE DEF h
  <2> QED BY <1>6 DEF PartialSums
<1> HIDE DEF h
<1> QED BY <1>7

\* The sum of a subset does not depend on the set it is taken in.
LEMMA PartialSumsAgree ==
  ASSUME NEW f, NEW S, IsFiniteSet(S), NEW T \in SUBSET S
  PROVE  PartialSums(f, S)[T] = PartialSums(f, T)[T]
<1> DEFINE P == {s \in SUBSET T : PartialSums(f, S)[s] = PartialSums(f, T)[s]}
<1>1. IsFiniteSet(T)
  BY FS_Subset
<1>2. \A s \in SUBSET S :
        PartialSums(f, S)[s] = IF s = {} THEN 0 ELSE f[SumPick(s)] + PartialSums(f, S)[s \ {SumPick(s)}]
  BY PartialSumsUnfold
<1>3. \A s \in SUBSET T :
        PartialSums(f, T)[s] = IF s = {} THEN 0 ELSE f[SumPick(s)] + PartialSums(f, T)[s \ {SumPick(s)}]
  BY <1>1, PartialSumsUnfold
<1>4. {} \in P
  BY <1>2, <1>3
<1>5. ASSUME NEW s \in SUBSET T, s # {}, \A x \in s : s \ {x} \in P
      PROVE  s \in P
  <2>1. PartialSums(f, S)[s \ {SumPick(s)}] = PartialSums(f, T)[s \ {SumPick(s)}]
    BY <1>5, PickedIsMember
  <2>2. s \in SUBSET S
    OBVIOUS
  <2> QED BY <2>1, <2>2, <1>2, <1>3, <1>5
<1>6. P = SUBSET T
  <2> HIDE DEF P
  <2>1. P \in SUBSET SUBSET T
    BY DEF P
  <2> QED BY <2>1, <1>1, <1>4, <1>5, SubsetInduction
<1> QED BY <1>6

-----------------------------------------------------------------------------
(* The laws of sums. *)

\* Nothing adds up to zero.
LEMMA SumOfNone ==
  ASSUME NEW f
  PROVE  SumFunctionOnSet(f, {}) = 0
BY SumIsPartialSum, PartialSumsUnfold, FS_EmptySet

\* One member is added at a time.
LEMMA SumUnfolds ==
  ASSUME NEW f, NEW S, IsFiniteSet(S), S # {}
  PROVE  SumFunctionOnSet(f, S) = f[SumPick(S)] + SumFunctionOnSet(f, S \ {SumPick(S)})
<1>1. PartialSums(f, S)[S] = f[SumPick(S)] + PartialSums(f, S)[S \ {SumPick(S)}]
  BY PartialSumsUnfold
<1>2. PartialSums(f, S)[S \ {SumPick(S)}] = PartialSums(f, S \ {SumPick(S)})[S \ {SumPick(S)}]
  BY PartialSumsAgree
<1> QED BY <1>1, <1>2, SumIsPartialSum

\* A sum of integers is an integer.
LEMMA SumType ==
  ASSUME NEW S, IsFiniteSet(S), NEW f, \A x \in S : f[x] \in Int
  PROVE  SumFunctionOnSet(f, S) \in Int
<1> DEFINE P == {s \in SUBSET S : SumFunctionOnSet(f, s) \in Int}
<1>1. {} \in P
  BY SumOfNone
<1>2. ASSUME NEW s \in SUBSET S, s # {}, \A x \in s : s \ {x} \in P
      PROVE  s \in P
  <2>1. SumPick(s) \in s /\ IsFiniteSet(s)
    BY <1>2, PickedIsMember, FS_Subset
  <2>2. SumFunctionOnSet(f, s) = f[SumPick(s)] + SumFunctionOnSet(f, s \ {SumPick(s)})
    BY <2>1, <1>2, SumUnfolds
  <2>3. f[SumPick(s)] \in Int /\ SumFunctionOnSet(f, s \ {SumPick(s)}) \in Int
    BY <2>1, <1>2
  <2> QED BY <2>2, <2>3
<1>3. P = SUBSET S
  <2> HIDE DEF P
  <2>1. P \in SUBSET SUBSET S
    BY DEF P
  <2> QED BY <2>1, <1>1, <1>2, SubsetInduction
<1> QED BY <1>3

\* A sum does not depend on the order in which its terms are taken.
LEMMA SumTakesOut ==
  ASSUME NEW S, IsFiniteSet(S), NEW f, \A x \in S : f[x] \in Int, NEW y \in S
  PROVE  SumFunctionOnSet(f, S) = f[y] + SumFunctionOnSet(f, S \ {y})
<1> DEFINE P == {s \in SUBSET S : \A x \in s :
                   SumFunctionOnSet(f, s) = f[x] + SumFunctionOnSet(f, s \ {x})}
<1>1. {} \in P
  OBVIOUS
<1>2. ASSUME NEW s \in SUBSET S, s # {}, \A x \in s : s \ {x} \in P
      PROVE  s \in P
  <2> DEFINE p == SumPick(s)
  <2>1. p \in s /\ IsFiniteSet(s)
    BY <1>2, PickedIsMember, FS_Subset
  <2>2. SumFunctionOnSet(f, s) = f[p] + SumFunctionOnSet(f, s \ {p})
    BY <1>2, <2>1, SumUnfolds
  <2>3. ASSUME NEW x \in s, x # p
        PROVE  SumFunctionOnSet(f, s) = f[x] + SumFunctionOnSet(f, s \ {x})
    <3>1. SumFunctionOnSet(f, s \ {p}) = f[x] + SumFunctionOnSet(f, (s \ {p}) \ {x})
      <4>1. x \in s \ {p}
        BY <2>3
      <4> QED BY <4>1, <1>2, <2>1
    <3>2. SumFunctionOnSet(f, s \ {x}) = f[p] + SumFunctionOnSet(f, (s \ {x}) \ {p})
      <4>1. p \in s \ {x}
        BY <2>1, <2>3
      <4> QED BY <4>1, <1>2
    <3>3. (s \ {p}) \ {x} = (s \ {x}) \ {p}
      OBVIOUS
    <3>4. SumFunctionOnSet(f, (s \ {x}) \ {p}) \in Int
      <4>1. IsFiniteSet((s \ {x}) \ {p})
        BY <2>1, FS_Subset
      <4> QED BY <4>1, SumType
    <3>5. f[x] \in Int /\ f[p] \in Int
      BY <2>1
    <3> DEFINE rest == SumFunctionOnSet(f, (s \ {x}) \ {p})
    <3>6. /\ SumFunctionOnSet(f, s) = f[p] + (f[x] + rest)
          /\ SumFunctionOnSet(f, s \ {x}) = f[p] + rest
      BY <2>2, <3>1, <3>2, <3>3
    <3>7. rest \in Int
      BY <3>4
    <3> HIDE DEF p, rest
    <3> QED BY <3>5, <3>6, <3>7
  <2> QED BY <2>2, <2>3
<1>3. P = SUBSET S
  <2> HIDE DEF P
  <2>1. P \in SUBSET SUBSET S
    BY DEF P
  <2> QED BY <2>1, <1>1, <1>2, SubsetInduction
<1> QED BY <1>3

\* Functions that agree on a set have the same sum over it.
LEMMA SumAgrees ==
  ASSUME NEW S, IsFiniteSet(S), NEW f, NEW g, \A x \in S : f[x] = g[x]
  PROVE  SumFunctionOnSet(f, S) = SumFunctionOnSet(g, S)
<1> DEFINE P == {s \in SUBSET S : SumFunctionOnSet(f, s) = SumFunctionOnSet(g, s)}
<1>1. {} \in P
  BY SumOfNone
<1>2. ASSUME NEW s \in SUBSET S, s # {}, \A x \in s : s \ {x} \in P
      PROVE  s \in P
  <2>1. SumPick(s) \in s /\ IsFiniteSet(s)
    BY <1>2, PickedIsMember, FS_Subset
  <2>2. /\ SumFunctionOnSet(f, s) = f[SumPick(s)] + SumFunctionOnSet(f, s \ {SumPick(s)})
        /\ SumFunctionOnSet(g, s) = g[SumPick(s)] + SumFunctionOnSet(g, s \ {SumPick(s)})
    BY <2>1, <1>2, SumUnfolds
  <2>3. SumFunctionOnSet(f, s \ {SumPick(s)}) = SumFunctionOnSet(g, s \ {SumPick(s)})
    BY <2>1, <1>2
  <2> QED BY <2>1, <2>2, <2>3
<1>3. P = SUBSET S
  <2> HIDE DEF P
  <2>1. P \in SUBSET SUBSET S
    BY DEF P
  <2> QED BY <2>1, <1>1, <1>2, SubsetInduction
<1> QED BY <1>3

\* The sum of sums, term by term.
LEMMA SumAdds ==
  ASSUME NEW S, IsFiniteSet(S), NEW f, NEW g, NEW h,
         \A x \in S : f[x] \in Int /\ g[x] \in Int /\ h[x] = f[x] + g[x]
  PROVE  SumFunctionOnSet(h, S) = SumFunctionOnSet(f, S) + SumFunctionOnSet(g, S)
<1> DEFINE P == {s \in SUBSET S :
                   SumFunctionOnSet(h, s) = SumFunctionOnSet(f, s) + SumFunctionOnSet(g, s)}
<1>1. {} \in P
  BY SumOfNone
<1>2. ASSUME NEW s \in SUBSET S, s # {}, \A x \in s : s \ {x} \in P
      PROVE  s \in P
  <2> DEFINE p == SumPick(s)
             r == s \ {p}
  <2>1. p \in s /\ IsFiniteSet(s) /\ IsFiniteSet(r) /\ r \in P
    BY <1>2, PickedIsMember, FS_Subset
  <2>2. /\ SumFunctionOnSet(f, s) = f[p] + SumFunctionOnSet(f, r)
        /\ SumFunctionOnSet(g, s) = g[p] + SumFunctionOnSet(g, r)
        /\ SumFunctionOnSet(h, s) = h[p] + SumFunctionOnSet(h, r)
    BY <2>1, <1>2, SumUnfolds
  <2>3. SumFunctionOnSet(f, r) \in Int /\ SumFunctionOnSet(g, r) \in Int
    BY <2>1, SumType
  <2>4. f[p] \in Int /\ g[p] \in Int /\ h[p] = f[p] + g[p]
    BY <2>1
  <2>5. SumFunctionOnSet(h, r) = SumFunctionOnSet(f, r) + SumFunctionOnSet(g, r)
    BY <2>1
  <2> HIDE DEF p, r
  <2>6. SumFunctionOnSet(h, s) = SumFunctionOnSet(f, s) + SumFunctionOnSet(g, s)
    BY <2>2, <2>3, <2>4, <2>5
  <2> QED BY <2>6
<1>3. P = SUBSET S
  <2> HIDE DEF P
  <2>1. P \in SUBSET SUBSET S
    BY DEF P
  <2> QED BY <2>1, <1>1, <1>2, SubsetInduction
<1> QED BY <1>3

\* A sum of what is not negative is not negative.
LEMMA SumNotNegative ==
  ASSUME NEW S, IsFiniteSet(S), NEW f, \A x \in S : f[x] \in Nat
  PROVE  SumFunctionOnSet(f, S) \in Nat
<1> DEFINE P == {s \in SUBSET S : SumFunctionOnSet(f, s) \in Nat}
<1>1. {} \in P
  BY SumOfNone
<1>2. ASSUME NEW s \in SUBSET S, s # {}, \A x \in s : s \ {x} \in P
      PROVE  s \in P
  <2>1. SumPick(s) \in s /\ IsFiniteSet(s)
    BY <1>2, PickedIsMember, FS_Subset
  <2>2. SumFunctionOnSet(f, s) = f[SumPick(s)] + SumFunctionOnSet(f, s \ {SumPick(s)})
    BY <2>1, <1>2, SumUnfolds
  <2>3. f[SumPick(s)] \in Nat /\ SumFunctionOnSet(f, s \ {SumPick(s)}) \in Nat
    BY <2>1, <1>2
  <2> QED BY <2>2, <2>3
<1>3. P = SUBSET S
  <2> HIDE DEF P
  <2>1. P \in SUBSET SUBSET S
    BY DEF P
  <2> QED BY <2>1, <1>1, <1>2, SubsetInduction
<1> QED BY <1>3

\* A set is summed in two parts.
LEMMA SumSplits ==
  ASSUME NEW S, IsFiniteSet(S), NEW f, \A x \in S : f[x] \in Int, NEW T \in SUBSET S
  PROVE  SumFunctionOnSet(f, S) = SumFunctionOnSet(f, T) + SumFunctionOnSet(f, S \ T)
<1> DEFINE P == {s \in SUBSET T : SumFunctionOnSet(f, S)
                                    = SumFunctionOnSet(f, s) + SumFunctionOnSet(f, S \ s)}
<1>0. IsFiniteSet(T)
  BY FS_Subset
<1>1. {} \in P
  <2>1. S \ {} = S /\ SumFunctionOnSet(f, S) \in Int
    BY SumType
  <2> QED BY <2>1, SumOfNone
<1>2. ASSUME NEW s \in SUBSET T, s # {}, \A x \in s : s \ {x} \in P
      PROVE  s \in P
  <2> DEFINE p == SumPick(s)
             r == s \ {p}
  <2>1. /\ p \in s /\ p \in S /\ r \in P
        /\ IsFiniteSet(s) /\ IsFiniteSet(r) /\ IsFiniteSet(S \ r) /\ IsFiniteSet(S \ s)
        /\ p \in S \ r /\ (S \ r) \ {p} = S \ s
    BY <1>2, PickedIsMember, FS_Subset
  <2>2. SumFunctionOnSet(f, s) = f[p] + SumFunctionOnSet(f, r)
    BY <2>1, <1>2, SumUnfolds
  <2>3. SumFunctionOnSet(f, S \ r) = f[p] + SumFunctionOnSet(f, S \ s)
    <3>1. SumFunctionOnSet(f, S \ r) = f[p] + SumFunctionOnSet(f, (S \ r) \ {p})
      <4> HIDE DEF p, r
      <4> QED BY <2>1, SumTakesOut
    <3> QED BY <3>1, <2>1
  <2>4. /\ SumFunctionOnSet(f, r) \in Int /\ SumFunctionOnSet(f, S \ s) \in Int /\ f[p] \in Int
    <3>1. (\A x \in r : f[x] \in Int) /\ (\A x \in S \ s : f[x] \in Int)
      OBVIOUS
    <3> QED BY <3>1, <2>1, SumType
  <2>5. SumFunctionOnSet(f, S) = SumFunctionOnSet(f, r) + SumFunctionOnSet(f, S \ r)
    BY <2>1
  <2> HIDE DEF p, r
  <2>6. SumFunctionOnSet(f, S) = SumFunctionOnSet(f, s) + SumFunctionOnSet(f, S \ s)
    BY <2>2, <2>3, <2>4, <2>5
  <2> QED BY <2>6
<1>3. P = SUBSET T
  <2> HIDE DEF P
  <2>1. P \in SUBSET SUBSET T
    BY DEF P
  <2> QED BY <2>1, <1>0, <1>1, <1>2, SubsetInduction
<1> QED BY <1>3

\* More terms that are not negative make no smaller sum.
LEMMA SumGrows ==
  ASSUME NEW S, IsFiniteSet(S), NEW f, \A x \in S : f[x] \in Nat, NEW T \in SUBSET S
  PROVE  SumFunctionOnSet(f, T) <= SumFunctionOnSet(f, S)
<1>1. IsFiniteSet(T) /\ IsFiniteSet(S \ T)
  BY FS_Subset
<1>2. SumFunctionOnSet(f, T) \in Nat /\ SumFunctionOnSet(f, S \ T) \in Nat
  BY <1>1, SumNotNegative
<1>3. SumFunctionOnSet(f, S) = SumFunctionOnSet(f, T) + SumFunctionOnSet(f, S \ T)
  BY SumSplits
<1> QED BY <1>2, <1>3

\* One term replaced.
LEMMA SumReplaces ==
  ASSUME NEW S, IsFiniteSet(S), NEW f, \A x \in S : f[x] \in Int,
         NEW y \in S, NEW g, g[y] \in Int, \A x \in S \ {y} : g[x] = f[x]
  PROVE  SumFunctionOnSet(g, S) = SumFunctionOnSet(f, S) - f[y] + g[y]
<1>1. SumFunctionOnSet(f, S) = f[y] + SumFunctionOnSet(f, S \ {y})
  BY SumTakesOut
<1>2. SumFunctionOnSet(g, S) = g[y] + SumFunctionOnSet(g, S \ {y})
  <2>1. \A x \in S : g[x] \in Int
    OBVIOUS
  <2> QED BY <2>1, SumTakesOut
<1>3. IsFiniteSet(S \ {y})
  BY FS_RemoveElement
<1>4. SumFunctionOnSet(g, S \ {y}) = SumFunctionOnSet(f, S \ {y})
  BY <1>3, SumAgrees
<1>5. SumFunctionOnSet(f, S \ {y}) \in Int
  BY <1>3, SumType
<1> QED BY <1>1, <1>2, <1>4, <1>5

\* The sums of the classes of a set are the sum of the set.
LEMMA SumOfClasses ==
  ASSUME NEW I, IsFiniteSet(I), NEW f, \A i \in I : f[i] \in Int, NEW class,
         NEW L, IsFiniteSet(L), NEW g,
         \A l \in L : g[l] = SumFunctionOnSet(f, {i \in I : class[i] = l})
  PROVE  SumFunctionOnSet(g, L) = SumFunctionOnSet(f, {i \in I : class[i] \in L})
<1> DEFINE P == {s \in SUBSET L :
                   SumFunctionOnSet(g, s) = SumFunctionOnSet(f, {i \in I : class[i] \in s})}
<1>1. {} \in P
  <2>1. {i \in I : class[i] \in {}} = {}
    OBVIOUS
  <2> QED BY <2>1, SumOfNone
<1>2. ASSUME NEW s \in SUBSET L, s # {}, \A x \in s : s \ {x} \in P
      PROVE  s \in P
  <2> DEFINE p == SumPick(s)
             whole == {i \in I : class[i] \in s}
             part == {i \in I : class[i] = p}
             r == s \ {p}
  <2>1. p \in s /\ IsFiniteSet(s) /\ r \in P
    BY <1>2, PickedIsMember, FS_Subset
  <2>2. SumFunctionOnSet(g, s) = g[p] + SumFunctionOnSet(g, r)
    BY <2>1, <1>2, SumUnfolds
  <2>3. whole \ part = {i \in I : class[i] \in r} /\ part \in SUBSET whole
    BY <2>1
  <2>4. SumFunctionOnSet(f, whole) = SumFunctionOnSet(f, part) + SumFunctionOnSet(f, whole \ part)
    <3>1. IsFiniteSet(whole)
      BY FS_Subset
    <3>2. \A i \in whole : f[i] \in Int
      OBVIOUS
    <3> HIDE DEF whole, part
    <3> QED BY <3>1, <3>2, <2>3, SumSplits
  <2>5. g[p] = SumFunctionOnSet(f, part)
    BY <2>1
  <2>6. SumFunctionOnSet(g, r) = SumFunctionOnSet(f, whole \ part)
    BY <2>1, <2>3
  <2>7. SumFunctionOnSet(g, s) = SumFunctionOnSet(f, whole)
    <3> HIDE DEF whole, part, p, r
    <3> QED BY <2>2, <2>4, <2>5, <2>6
  <2> QED BY <2>7
<1>3. P = SUBSET L
  <2> HIDE DEF P
  <2>1. P \in SUBSET SUBSET L
    BY DEF P
  <2> QED BY <2>1, <1>1, <1>2, SubsetInduction
<1> QED BY <1>3

\* Zeros add up to zero.
LEMMA SumOfZeros ==
  ASSUME NEW S, IsFiniteSet(S), NEW f, \A x \in S : f[x] = 0
  PROVE  SumFunctionOnSet(f, S) = 0
<1>1. SumFunctionOnSet(f, S) = SumFunctionOnSet(f, S) + SumFunctionOnSet(f, S)
  BY SumAdds
<1>2. SumFunctionOnSet(f, S) \in Int
  BY SumType
<1> DEFINE t == SumFunctionOnSet(f, S)
<1>3. t = t + t /\ t \in Int
  BY <1>1, <1>2
<1> HIDE DEF t
<1>4. t = 0
  BY <1>3
<1> QED BY <1>4 DEF t

\* The sum of the opposites is the opposite of the sum.
LEMMA SumNegates ==
  ASSUME NEW S, IsFiniteSet(S), NEW f, NEW g, \A x \in S : f[x] \in Int /\ g[x] = -f[x]
  PROVE  SumFunctionOnSet(g, S) = -SumFunctionOnSet(f, S)
<1> DEFINE zero == [x \in S |-> 0]
<1>1. \A x \in S : g[x] \in Int /\ zero[x] = f[x] + g[x]
  OBVIOUS
<1>2. SumFunctionOnSet(zero, S) = SumFunctionOnSet(f, S) + SumFunctionOnSet(g, S)
  <2> HIDE DEF zero
  <2> QED BY <1>1, SumAdds
<1>3. SumFunctionOnSet(zero, S) = 0
  BY SumOfZeros
<1>4. SumFunctionOnSet(f, S) \in Int /\ SumFunctionOnSet(g, S) \in Int
  BY <1>1, SumType
<1> QED BY <1>2, <1>3, <1>4

\* A sum with one term that is not zero.
LEMMA SumOfOne ==
  ASSUME NEW S, IsFiniteSet(S), NEW y, NEW f, f[y] \in Int, \A x \in S \ {y} : f[x] = 0
  PROVE  SumFunctionOnSet(f, S) = IF y \in S THEN f[y] ELSE 0
<1>1. CASE y \in S
  <2>1. \A x \in S : f[x] \in Int
    OBVIOUS
  <2>2. SumFunctionOnSet(f, S) = f[y] + SumFunctionOnSet(f, S \ {y})
    BY <1>1, <2>1, SumTakesOut
  <2>3. SumFunctionOnSet(f, S \ {y}) = 0
    <3>1. IsFiniteSet(S \ {y})
      BY FS_RemoveElement
    <3> QED BY <3>1, SumOfZeros
  <2> QED BY <1>1, <2>2, <2>3
<1>2. CASE y \notin S
  <2>1. \A x \in S : f[x] = 0
    BY <1>2
  <2> QED BY <1>2, <2>1, SumOfZeros
<1> QED BY <1>1, <1>2

\* The same terms under shifted indices.
LEMMA SumShifts ==
  ASSUME NEW n \in Nat, NEW S, S \subseteq Int, IsFiniteSet(S), NEW f, NEW g,
         \A x \in S : f[x] \in Int /\ g[x + n] = f[x]
  PROVE  SumFunctionOnSet(g, {x + n : x \in S}) = SumFunctionOnSet(f, S)
<1> DEFINE Shift(s) == {x + n : x \in s}
           P == {s \in SUBSET S : /\ IsFiniteSet(Shift(s))
                                  /\ SumFunctionOnSet(g, Shift(s)) = SumFunctionOnSet(f, s)}
<1>1. {} \in P
  <2>1. Shift({}) = {}
    OBVIOUS
  <2> QED BY <2>1, SumOfNone, FS_EmptySet
<1>2. ASSUME NEW s \in SUBSET S, s # {}, \A x \in s : s \ {x} \in P
      PROVE  s \in P
  <2> DEFINE p == SumPick(s)
             r == s \ {p}
  <2>1. p \in s /\ IsFiniteSet(s) /\ r \in P
    BY <1>2, PickedIsMember, FS_Subset
  <2>2. /\ Shift(s) = Shift(r) \cup {p + n} /\ p + n \notin Shift(r)
        /\ Shift(s) \ {p + n} = Shift(r) /\ p + n \in Shift(s)
    <3>0. p \in Int /\ \A x \in s : x \in Int
      BY <2>1
    <3>1. \A x \in s : x \in Int /\ (x + n = p + n => x = p)
      <4> HIDE DEF p
      <4> QED BY <3>0
    <3>2. \A y \in Shift(r) : y \in Shift(s) /\ y # p + n
      BY <3>1
    <3>3. p + n \in Shift(s)
      BY <2>1
    <3>4. \A y \in Shift(s) : y = p + n \/ y \in Shift(r)
      OBVIOUS
    <3> HIDE DEF Shift, p, r
    <3> QED BY <3>2, <3>3, <3>4
  <2>3. IsFiniteSet(Shift(s))
    <3>1. IsFiniteSet(Shift(r))
      BY <2>1
    <3> HIDE DEF Shift, p, r
    <3> QED BY <2>2, <3>1, FS_AddElement
  <2>4. SumFunctionOnSet(g, Shift(s)) = g[p + n] + SumFunctionOnSet(g, Shift(r))
    <3>1. \A y \in Shift(s) : g[y] \in Int
      OBVIOUS
    <3>2. SumFunctionOnSet(g, Shift(s)) = g[p + n] + SumFunctionOnSet(g, Shift(s) \ {p + n})
      <4> HIDE DEF Shift, p, r
      <4> QED BY <2>2, <2>3, <3>1, SumTakesOut
    <3> QED BY <3>2, <2>2
  <2>5. SumFunctionOnSet(f, s) = f[p] + SumFunctionOnSet(f, r)
    BY <2>1, <1>2, SumUnfolds
  <2>6. g[p + n] = f[p] /\ SumFunctionOnSet(g, Shift(r)) = SumFunctionOnSet(f, r)
    BY <2>1
  <2>7. SumFunctionOnSet(g, Shift(s)) = SumFunctionOnSet(f, s)
    <3> HIDE DEF Shift, p, r
    <3> QED BY <2>4, <2>5, <2>6
  <2> QED BY <2>3, <2>7
<1>3. P = SUBSET S
  <2> HIDE DEF P
  <2>1. P \in SUBSET SUBSET S
    BY DEF P
  <2> QED BY <2>1, <1>1, <1>2, SubsetInduction
<1> QED BY <1>3

\* A set without two different members has one at most.
LEMMA AtMostOne ==
  ASSUME NEW S, \A x, y \in S : x = y
  PROVE  Cardinality(S) <= 1
<1>1. CASE S = {}
  <2>1. Cardinality({}) = 0
    BY FS_EmptySet
  <2> QED BY <1>1, <2>1
<1>2. CASE S # {}
  <2>1. PICK x \in S : S = {x}
    BY <1>2
  <2>2. Cardinality({x}) = 1
    BY FS_Singleton
  <2> QED BY <2>1, <2>2
<1> QED BY <1>1, <1>2
=============================================================================
