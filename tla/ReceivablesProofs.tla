------------------------- MODULE ReceivablesProofs -------------------------
(***************************************************************************)
(* What Receivables promises, for any bills, payments, credit notes,          *)
(* sessions and amounts.  Whoever writes on a bill holds its row and whoever  *)
(* takes from a payment holds its key, so what a transaction read before it   *)
(* wrote is still so when it commits; whatever it read without a lock is      *)
(* decided again under one.                                                  *)
(***************************************************************************)
EXTENDS Receivables, SumProofs

\* What the constants are: names that do not collide, amounts that are amounts.
Parameters == NoneAssumption /\ BillAssumption /\ AmountAssumption

-----------------------------------------------------------------------------
(* Adding up entries. *)

\* Entries are numbered, finitely many, and of whole amounts.
LEMMA EntriesAreFinite ==
  ASSUME NEW j \in Seq(Entry)
  PROVE  /\ Len(j) \in Nat /\ DOMAIN j = 1..Len(j) /\ IsFiniteSet(DOMAIN j)
         /\ \A i \in DOMAIN j : j[i] \in Entry /\ Entered(j)[i] = j[i].amount /\ Entered(j)[i] \in Int
         /\ \A S \in SUBSET DOMAIN j : IsFiniteSet(S) /\ SumFunctionOnSet(Entered(j), S) \in Int
<1>1. Len(j) \in Nat /\ DOMAIN j = 1..Len(j)
  OBVIOUS
<1>2. IsFiniteSet(DOMAIN j)
  <2>1. IsFiniteSet(1..Len(j))
    BY <1>1, FS_Interval
  <2> QED BY <1>1, <2>1
<1>3. \A i \in DOMAIN j : j[i] \in Entry
  OBVIOUS
<1>4. \A i \in DOMAIN j : Entered(j)[i] = j[i].amount /\ Entered(j)[i] \in Int
  BY <1>3 DEF Entered, Entry
<1>5. ASSUME NEW S \in SUBSET DOMAIN j
      PROVE  IsFiniteSet(S) /\ SumFunctionOnSet(Entered(j), S) \in Int
  <2>1. IsFiniteSet(S)
    BY <1>2, FS_Subset
  <2>2. \A x \in S : Entered(j)[x] \in Int
    BY <1>4
  <2> QED BY <2>1, <2>2, SumType
<1> QED BY <1>1, <1>2, <1>3, <1>4, <1>5

\* Two journals one after the other.
LEMMA Joined ==
  ASSUME NEW j \in Seq(Entry), NEW w \in Seq(Entry)
  PROVE  /\ j \o w \in Seq(Entry) /\ Len(j \o w) = Len(j) + Len(w)
         /\ \A i \in DOMAIN j : i \in DOMAIN (j \o w) /\ (j \o w)[i] = j[i]
         /\ \A k \in DOMAIN w : Len(j) + k \in DOMAIN (j \o w) /\ (j \o w)[Len(j) + k] = w[k]
         /\ \A i \in DOMAIN (j \o w) : i \in DOMAIN j \/ \E k \in DOMAIN w : i = Len(j) + k
         /\ \A k \in DOMAIN w : Len(j) + k \notin DOMAIN j
<1>1. /\ j \o w \in Seq(Entry) /\ Len(j \o w) = Len(j) + Len(w)
      /\ Len(j) \in Nat /\ Len(w) \in Nat
  OBVIOUS
<1>2. \A i \in 1..(Len(j) + Len(w)) : (j \o w)[i] = IF i <= Len(j) THEN j[i] ELSE w[i - Len(j)]
  OBVIOUS
<1>3. DOMAIN j = 1..Len(j) /\ DOMAIN w = 1..Len(w) /\ DOMAIN (j \o w) = 1..(Len(j) + Len(w))
  BY <1>1
<1>4. ASSUME NEW k \in DOMAIN w
      PROVE  Len(j) + k \in DOMAIN (j \o w) /\ (j \o w)[Len(j) + k] = w[k] /\ Len(j) + k \notin DOMAIN j
  <2>1. k \in Int /\ Len(j) + k \in 1..(Len(j) + Len(w)) /\ ~(Len(j) + k <= Len(j)) /\ (Len(j) + k) - Len(j) = k
    BY <1>1, <1>3
  <2> QED BY <1>2, <1>3, <2>1
<1>5. ASSUME NEW i \in DOMAIN (j \o w) PROVE i \in DOMAIN j \/ \E k \in DOMAIN w : i = Len(j) + k
  <2>1. CASE i <= Len(j)
    BY <1>1, <1>3, <2>1
  <2>2. CASE ~(i <= Len(j))
    <3>1. i - Len(j) \in DOMAIN w /\ i = Len(j) + (i - Len(j))
      BY <1>1, <1>3, <2>2
    <3> QED BY <3>1
  <2> QED BY <2>1, <2>2
<1>6. \A i \in DOMAIN j : i \in DOMAIN (j \o w) /\ (j \o w)[i] = j[i]
  BY <1>1, <1>2, <1>3
<1> QED BY <1>1, <1>4, <1>5, <1>6

\* What some entries of each of two journals add up to.
LEMMA SumJoined ==
  ASSUME NEW j \in Seq(Entry), NEW w \in Seq(Entry), NEW S \in SUBSET DOMAIN j, NEW T \in SUBSET DOMAIN w
  PROVE  SumFunctionOnSet(Entered(j \o w), S \cup {x + Len(j) : x \in T})
           = SumFunctionOnSet(Entered(j), S) + SumFunctionOnSet(Entered(w), T)
<1> DEFINE f == Entered(j \o w)
           V == {x + Len(j) : x \in T}
<1>1. /\ \A i \in DOMAIN j : Entered(j)[i] = j[i].amount
      /\ IsFiniteSet(S) /\ IsFiniteSet(DOMAIN j) /\ Len(j) \in Nat
  BY EntriesAreFinite
<1>2. /\ \A k \in DOMAIN w : Entered(w)[k] = w[k].amount /\ Entered(w)[k] \in Int
      /\ IsFiniteSet(T) /\ DOMAIN w = 1..Len(w) /\ Len(w) \in Nat
  BY EntriesAreFinite
<1>3. j \o w \in Seq(Entry)
  BY Joined
<1>4. /\ \A i \in DOMAIN (j \o w) : f[i] = (j \o w)[i].amount /\ f[i] \in Int
      /\ \A Z \in SUBSET DOMAIN (j \o w) : IsFiniteSet(Z) /\ SumFunctionOnSet(f, Z) \in Int
  BY <1>3, EntriesAreFinite
<1>5. \A x \in T : x + Len(j) = Len(j) + x
  BY <1>1, <1>2
<1>6. S \subseteq DOMAIN (j \o w) /\ V \subseteq DOMAIN (j \o w) /\ S \cap V = {}
  BY <1>5, Joined
<1>7. \A x \in S : f[x] = Entered(j)[x]
  BY <1>1, <1>4, <1>6, Joined
<1>8. ASSUME NEW x \in T PROVE f[x + Len(j)] = Entered(w)[x]
  <2>1. x \in DOMAIN w
    OBVIOUS
  <2>2. Len(j) + x \in DOMAIN (j \o w) /\ (j \o w)[Len(j) + x] = w[x]
    <3>1. \A k \in DOMAIN w : Len(j) + k \in DOMAIN (j \o w) /\ (j \o w)[Len(j) + k] = w[k]
      BY Joined
    <3> QED BY <2>1, <3>1
  <2> QED BY <1>2, <1>4, <1>5, <2>1, <2>2
<1> HIDE DEF f
<1>9. SumFunctionOnSet(f, S) = SumFunctionOnSet(Entered(j), S)
  BY <1>1, <1>7, SumAgrees
<1>10. SumFunctionOnSet(f, V) = SumFunctionOnSet(Entered(w), T)
  <2>1. T \subseteq Int /\ \A x \in T : Entered(w)[x] \in Int
    BY <1>2
  <2> QED BY <1>1, <1>2, <1>8, <2>1, SumShifts
<1> HIDE DEF V
<1>11. SumFunctionOnSet(f, S \cup V) = SumFunctionOnSet(f, S) + SumFunctionOnSet(f, (S \cup V) \ S)
  <2>1. IsFiniteSet(S \cup V) /\ \A x \in S \cup V : f[x] \in Int
    BY <1>4, <1>6
  <2> QED BY <2>1, SumSplits
<1>12. (S \cup V) \ S = V
  BY <1>6
<1>13. SumFunctionOnSet(f, S \cup V) = SumFunctionOnSet(Entered(j), S) + SumFunctionOnSet(Entered(w), T)
  BY <1>9, <1>10, <1>11, <1>12
<1> QED BY <1>13 DEF f, V

\* What moves on a bill moves in the one journal or in the other.
LEMMA MovedJoined ==
  ASSUME NEW j \in Seq(Entry), NEW w \in Seq(Entry), NEW b
  PROVE  /\ Moved(b, j) \in Int /\ Moved(b, w) \in Int
         /\ Moved(b, j \o w) = Moved(b, j) + Moved(b, w)
<1> DEFINE S == {i \in DOMAIN j : j[i].bill = b}
           T == {k \in DOMAIN w : w[k].bill = b}
           V == {i \in DOMAIN (j \o w) : (j \o w)[i].bill = b}
<1>1. V = S \cup {x + Len(j) : x \in T}
  <2>1. \A x \in DOMAIN w : x + Len(j) = Len(j) + x
    <3>1. DOMAIN w = 1..Len(w) /\ Len(w) \in Nat /\ Len(j) \in Nat
      BY EntriesAreFinite
    <3> QED BY <3>1
  <2>2. ASSUME NEW i \in V PROVE i \in S \cup {x + Len(j) : x \in T}
    <3>1. CASE i \in DOMAIN j
      BY <3>1, Joined
    <3>2. CASE i \notin DOMAIN j
      <4>1. PICK k \in DOMAIN w : i = Len(j) + k
        BY <3>2, Joined
      <4>2. (j \o w)[i] = w[k] /\ i = k + Len(j)
        BY <4>1, <2>1, Joined
      <4> QED BY <4>2
    <3> QED BY <3>1, <3>2
  <2>3. ASSUME NEW i \in S PROVE i \in V
    BY Joined
  <2>4. ASSUME NEW k \in T PROVE k + Len(j) \in V
    <3>1. k \in DOMAIN w /\ w[k].bill = b /\ k + Len(j) = Len(j) + k
      BY <2>1
    <3>2. Len(j) + k \in DOMAIN (j \o w) /\ (j \o w)[Len(j) + k] = w[k]
      <4>1. \A m \in DOMAIN w : Len(j) + m \in DOMAIN (j \o w) /\ (j \o w)[Len(j) + m] = w[m]
        BY Joined
      <4> QED BY <3>1, <4>1
    <3> QED BY <3>1, <3>2
  <2> QED BY <2>2, <2>3, <2>4
<1>2. S \in SUBSET DOMAIN j /\ T \in SUBSET DOMAIN w
  OBVIOUS
<1>3. Moved(b, j) = SumFunctionOnSet(Entered(j), S) /\ Moved(b, w) = SumFunctionOnSet(Entered(w), T)
      /\ Moved(b, j \o w) = SumFunctionOnSet(Entered(j \o w), V)
  BY DEF Moved
<1> HIDE DEF S, T, V
<1>4. SumFunctionOnSet(Entered(j), S) \in Int /\ SumFunctionOnSet(Entered(w), T) \in Int
  BY <1>2, EntriesAreFinite
<1> QED BY <1>1, <1>2, <1>3, <1>4, SumJoined

\* A bill none of the entries is about does not move.
LEMMA MovedNot ==
  ASSUME NEW w, NEW b, \A k \in DOMAIN w : w[k].bill # b
  PROVE  Moved(b, w) = 0
<1>1. {k \in DOMAIN w : w[k].bill = b} = {}
  OBVIOUS
<1> QED BY <1>1, SumOfNone DEF Moved

\* One entry moves its bill by its amount.
LEMMA MovedOne ==
  ASSUME NEW e \in Entry, NEW b
  PROVE  <<e>> \in Seq(Entry) /\ Moved(b, <<e>>) = IF e.bill = b THEN e.amount ELSE 0
<1>1. <<e>> \in Seq(Entry) /\ DOMAIN <<e>> = {1} /\ <<e>>[1] = e
  OBVIOUS
<1>2. CASE e.bill # b
  BY <1>1, <1>2, MovedNot
<1>3. CASE e.bill = b
  <2>1. {k \in DOMAIN <<e>> : <<e>>[k].bill = b} = {1}
    BY <1>1, <1>3
  <2>2. IsFiniteSet({1}) /\ Entered(<<e>>)[1] = e.amount /\ Entered(<<e>>)[1] \in Int
    <3>1. 1 \in DOMAIN <<e>> /\ DOMAIN <<e>> \subseteq DOMAIN <<e>>
      BY <1>1
    <3> QED BY <1>1, <3>1, EntriesAreFinite
  <2>3. SumFunctionOnSet(Entered(<<e>>), {1}) = Entered(<<e>>)[1] + SumFunctionOnSet(Entered(<<e>>), {1} \ {1})
    BY <2>2, SumTakesOut
  <2>4. {1} \ {1} = {} /\ e.amount \in Int
    BY DEF Entry
  <2>5. SumFunctionOnSet(Entered(<<e>>), {1}) = e.amount
    BY <2>2, <2>3, <2>4, SumOfNone
  <2> QED BY <1>1, <1>3, <2>1, <2>5 DEF Moved
<1> QED BY <1>2, <1>3, <1>1

-----------------------------------------------------------------------------
(* What is taken from a payment or a credit note. *)

\* The entries a transaction takes back, what it takes from x, and how much.
Back(w) == {w[k].of : k \in DOMAIN w}
Fresh(x, w) == {k \in DOMAIN w : w[k].source = x /\ w[k].kind # "reversal"}
Adds(x, w) == -SumFunctionOnSet(Entered(w), Fresh(x, w))

\* What of an entry is, when it is there: an entry of the journal.
NamesOf(j, w) == \A k \in DOMAIN w : w[k].of = 0 \/ w[k].of \in DOMAIN j

\* What still counts against a source is an allocation or a credit, and takes.
LEMMA LiveTakes ==
  ASSUME Parameters, NEW j \in Seq(Entry), \A i \in DOMAIN j : Means(j[i]), NEW x \in Sources,
         NEW i \in Live(x, j)
  PROVE  /\ i \in DOMAIN j /\ j[i] \in Entry /\ j[i].source = x /\ ~Reversed(i, j)
         /\ j[i].kind \in Taking /\ j[i].amount < 0
         /\ x \in Payments => j[i].kind = "payment_allocation"
<1>1. i \in DOMAIN j /\ j[i].source = x /\ j[i].kind # "reversal" /\ ~Reversed(i, j)
  BY DEF Live
<1>2. j[i] \in Entry /\ Means(j[i])
  BY <1>1, EntriesAreFinite
<1>3. x # None
  BY DEF Parameters, NoneAssumption
<1>4. j[i].kind \in Kinds
  BY <1>2 DEF Entry
<1>5. j[i].kind \in Taking /\ j[i].amount < 0
  BY <1>1, <1>2, <1>3, <1>4 DEF Kinds, Means, Taking
<1>6. x \in Payments => j[i].kind = "payment_allocation"
  BY <1>1, <1>2, <1>5 DEF Means, Taking, Parameters, NoneAssumption
<1> QED BY <1>1, <1>2, <1>5, <1>6

\* A transaction takes out what it takes back and puts in what it takes.
LEMMA LiveJoined ==
  ASSUME NEW j \in Seq(Entry), NEW w \in Seq(Entry), NamesOf(j, j), NamesOf(j, w), NEW x
  PROVE  Live(x, j \o w) = (Live(x, j) \ Back(w)) \cup {k + Len(j) : k \in Fresh(x, w)}
<1> DEFINE v == j \o w
<1>1. /\ \A i \in DOMAIN j : i \in DOMAIN v /\ v[i] = j[i]
      /\ \A i \in DOMAIN v : i \in DOMAIN j \/ \E k \in DOMAIN w : i = Len(j) + k
  BY Joined
<1>2. /\ \A k \in DOMAIN w : Len(j) + k \in DOMAIN v /\ v[Len(j) + k] = w[k]
      /\ \A k \in DOMAIN w : Len(j) + k \notin DOMAIN j
  <2>1. \A k \in DOMAIN w : Len(j) + k \in DOMAIN v /\ v[Len(j) + k] = w[k]
    BY Joined
  <2>2. \A k \in DOMAIN w : Len(j) + k \notin DOMAIN j
    BY Joined
  <2> QED BY <2>1, <2>2
<1>3. \A k \in DOMAIN w : k + Len(j) = Len(j) + k
  <2>1. DOMAIN w = 1..Len(w) /\ Len(w) \in Nat /\ Len(j) \in Nat
    BY EntriesAreFinite
  <2> QED BY <2>1
<1>4. 0 \notin DOMAIN j
  <2>1. DOMAIN j = 1..Len(j)
    BY EntriesAreFinite
  <2> QED BY <2>1
<1>40. 0 \notin DOMAIN v
  <2>1. v \in Seq(Entry)
    BY Joined
  <2> HIDE DEF v
  <2>2. DOMAIN v = 1..Len(v)
    BY <2>1, EntriesAreFinite
  <2> QED BY <2>2
<1> HIDE DEF v
<1>5. ASSUME NEW i \in DOMAIN j PROVE Reversed(i, v) <=> Reversed(i, j) \/ i \in Back(w)
  <2>1. ASSUME Reversed(i, j) PROVE Reversed(i, v)
    BY <1>1, <2>1 DEF Reversed
  <2>2. ASSUME i \in Back(w) PROVE Reversed(i, v)
    <3>1. PICK k \in DOMAIN w : w[k].of = i
      BY <2>2 DEF Back
    <3> QED BY <1>2, <3>1 DEF Reversed
  <2>3. ASSUME Reversed(i, v) PROVE Reversed(i, j) \/ i \in Back(w)
    <3>1. PICK k \in DOMAIN v : v[k].of = i
      BY <2>3 DEF Reversed
    <3>2. CASE k \in DOMAIN j
      BY <1>1, <3>1, <3>2 DEF Reversed
    <3>3. CASE k \notin DOMAIN j
      <4>1. PICK m \in DOMAIN w : k = Len(j) + m
        BY <1>1, <3>3
      <4> QED BY <1>2, <3>1, <4>1 DEF Back
    <3> QED BY <3>2, <3>3
  <2> QED BY <2>1, <2>2, <2>3
<1>6. ASSUME NEW i \in DOMAIN v, i \notin DOMAIN j PROVE ~Reversed(i, v)
  <2>1. SUFFICES ASSUME NEW k \in DOMAIN v, v[k].of = i PROVE FALSE
    BY DEF Reversed
  <2>2. CASE k \in DOMAIN j
    BY <1>1, <1>40, <1>6, <2>1, <2>2 DEF NamesOf
  <2>3. CASE k \notin DOMAIN j
    <3>1. PICK m \in DOMAIN w : k = Len(j) + m
      BY <1>1, <2>3
    <3> QED BY <1>2, <1>40, <1>6, <2>1, <3>1 DEF NamesOf
  <2> QED BY <2>2, <2>3
<1>7. ASSUME NEW i \in Live(x, v) PROVE i \in (Live(x, j) \ Back(w)) \cup {k + Len(j) : k \in Fresh(x, w)}
  <2>1. i \in DOMAIN v /\ v[i].source = x /\ v[i].kind # "reversal" /\ ~Reversed(i, v)
    BY DEF Live
  <2>2. CASE i \in DOMAIN j
    BY <1>1, <1>5, <2>1, <2>2 DEF Live
  <2>3. CASE i \notin DOMAIN j
    <3>1. PICK k \in DOMAIN w : i = Len(j) + k
      BY <1>1, <2>1, <2>3
    <3>2. k \in Fresh(x, w) /\ i = k + Len(j)
      BY <1>2, <1>3, <2>1, <3>1 DEF Fresh
    <3> QED BY <3>2
  <2> QED BY <2>2, <2>3
<1>8. ASSUME NEW i \in Live(x, j) \ Back(w) PROVE i \in Live(x, v)
  BY <1>1, <1>5 DEF Live
<1>9. ASSUME NEW k \in Fresh(x, w) PROVE k + Len(j) \in Live(x, v)
  <2>1. k \in DOMAIN w /\ w[k].source = x /\ w[k].kind # "reversal"
    BY DEF Fresh
  <2>2. k + Len(j) = Len(j) + k /\ Len(j) + k \in DOMAIN v /\ v[Len(j) + k] = w[k] /\ Len(j) + k \notin DOMAIN j
    BY <1>2, <1>3, <2>1
  <2> QED BY <1>6, <2>1, <2>2 DEF Live
<1>10. Live(x, v) = (Live(x, j) \ Back(w)) \cup {k + Len(j) : k \in Fresh(x, w)}
  BY <1>7, <1>8, <1>9
<1> QED BY <1>10 DEF v

\* Taking back leaves no more used; taking uses what it takes.
LEMMA UsedJoined ==
  ASSUME Parameters, NEW j \in Seq(Entry), NEW w \in Seq(Entry), NamesOf(j, j), NamesOf(j, w),
         \A i \in DOMAIN j : Means(j[i]), NEW x \in Sources
  PROVE  /\ Used(x, j) \in Nat /\ Used(x, j \o w) \in Int /\ Adds(x, w) \in Int
         /\ Used(x, j \o w) <= Used(x, j) + Adds(x, w)
<1> DEFINE L == Live(x, j)
           K == L \ Back(w)
           F == Fresh(x, w)
           g == [i \in L |-> -Entered(j)[i]]
<1>1. /\ \A i \in DOMAIN j : Entered(j)[i] = j[i].amount /\ Entered(j)[i] \in Int
      /\ \A S \in SUBSET DOMAIN j : IsFiniteSet(S) /\ SumFunctionOnSet(Entered(j), S) \in Int
  BY EntriesAreFinite
<1>2. \A S \in SUBSET DOMAIN w : IsFiniteSet(S) /\ SumFunctionOnSet(Entered(w), S) \in Int
  BY EntriesAreFinite
<1>3. L \in SUBSET DOMAIN j /\ K \in SUBSET L /\ K \in SUBSET DOMAIN j /\ F \in SUBSET DOMAIN w
  BY DEF Live, Fresh
<1>4. \A i \in L : i \in DOMAIN j /\ j[i].amount < 0
  BY LiveTakes
<1>5. \A i \in L : g[i] \in Nat /\ Entered(j)[i] \in Int /\ g[i] = -Entered(j)[i]
  BY <1>1, <1>4
<1>6. Live(x, j \o w) = K \cup {k + Len(j) : k \in F}
  BY LiveJoined
<1> HIDE DEF L, K, F, g
<1>7. IsFiniteSet(L) /\ IsFiniteSet(K)
  BY <1>1, <1>3
<1>8. SumFunctionOnSet(g, L) = -SumFunctionOnSet(Entered(j), L)
  BY <1>5, <1>7, SumNegates
<1>9. SumFunctionOnSet(g, K) = -SumFunctionOnSet(Entered(j), K)
  <2>1. \A i \in K : g[i] \in Nat /\ Entered(j)[i] \in Int /\ g[i] = -Entered(j)[i]
    BY <1>3, <1>5
  <2> QED BY <1>7, <2>1, SumNegates
<1>10. SumFunctionOnSet(g, L) \in Nat /\ SumFunctionOnSet(g, K) <= SumFunctionOnSet(g, L)
  BY <1>3, <1>5, <1>7, SumGrows, SumNotNegative
<1>11. SumFunctionOnSet(Entered(j \o w), Live(x, j \o w))
         = SumFunctionOnSet(Entered(j), K) + SumFunctionOnSet(Entered(w), F)
  BY <1>3, <1>6, SumJoined
<1>12. Used(x, j) = -SumFunctionOnSet(Entered(j), L) /\ Adds(x, w) = -SumFunctionOnSet(Entered(w), F)
       /\ Used(x, j \o w) = -SumFunctionOnSet(Entered(j \o w), Live(x, j \o w))
  BY DEF Used, Adds, L, F
<1>13. SumFunctionOnSet(Entered(j), K) \in Int /\ SumFunctionOnSet(Entered(w), F) \in Int
       /\ SumFunctionOnSet(Entered(j), L) \in Int
  BY <1>1, <1>2, <1>3
<1> QED BY <1>8, <1>9, <1>10, <1>11, <1>12, <1>13

\* Entries that take nothing from a source add nothing to what is used of it.
LEMMA AddsNothing ==
  ASSUME NEW w, NEW x, \A k \in DOMAIN w : w[k].source # x \/ w[k].kind = "reversal"
  PROVE  Adds(x, w) = 0
<1>1. Fresh(x, w) = {}
  BY DEF Fresh
<1> QED BY <1>1, SumOfNone DEF Adds

\* A sum of equal amounts.
LEMMA SumOfEquals ==
  ASSUME NEW S, IsFiniteSet(S), NEW f, NEW c \in Int, \A x \in S : f[x] = c
  PROVE  SumFunctionOnSet(f, S) = c * Cardinality(S)
<1> DEFINE P == {s \in SUBSET S : SumFunctionOnSet(f, s) = c * Cardinality(s)}
<1>1. {} \in P
  BY SumOfNone, FS_EmptySet
<1>2. ASSUME NEW s \in SUBSET S, s # {}, \A x \in s : s \ {x} \in P
      PROVE  s \in P
  <2>1. PICK x \in s : TRUE
    BY <1>2
  <2>2. IsFiniteSet(s)
    BY FS_Subset
  <2>3. SumFunctionOnSet(f, s) = f[x] + SumFunctionOnSet(f, s \ {x})
    <3>1. \A y \in s : f[y] \in Int
      OBVIOUS
    <3> QED BY <2>2, <3>1, SumTakesOut
  <2>4. /\ Cardinality(s) \in Nat /\ Cardinality(s \ {x}) \in Nat
        /\ Cardinality(s) = Cardinality(s \ {x}) + 1
    BY <2>2, SmallerFinite
  <2>5. SumFunctionOnSet(f, s \ {x}) = c * Cardinality(s \ {x}) /\ f[x] = c
    BY <1>2
  <2>6. ASSUME NEW m \in Nat PROVE c + c * m = c * (m + 1)
    OBVIOUS
  <2>7. SumFunctionOnSet(f, s) = c * Cardinality(s)
    BY <2>3, <2>4, <2>5, <2>6
  <2> QED BY <2>7
<1>3. P = SUBSET S
  <2> HIDE DEF P
  <2>1. P \in SUBSET SUBSET S
    BY DEF P
  <2> QED BY <2>1, <1>1, <1>2, SubsetInduction
<1> QED BY <1>3

\* A transaction that takes n from x each time it writes.
LEMMA AddsEach ==
  ASSUME NEW w \in Seq(Entry), NEW x, NEW n \in Nat,
         \A k \in DOMAIN w : w[k].source = x /\ w[k].kind # "reversal" /\ w[k].amount = -n
  PROVE  Adds(x, w) = n * Len(w)
<1>1. /\ DOMAIN w = 1..Len(w) /\ Len(w) \in Nat /\ IsFiniteSet(DOMAIN w)
      /\ \A k \in DOMAIN w : Entered(w)[k] = w[k].amount
  BY EntriesAreFinite
<1>2. Fresh(x, w) = DOMAIN w
  BY DEF Fresh
<1>3. Cardinality(DOMAIN w) = Len(w)
  <2>1. 0 \in Int /\ 1 \in Int /\ Len(w) \in Int
    BY <1>1
  <2>2. Cardinality(1..Len(w)) = IF 1 > Len(w) THEN 0 ELSE Len(w) - 1 + 1
    BY <2>1, FS_Interval
  <2> QED BY <1>1, <2>2
<1>4. SumFunctionOnSet(Entered(w), DOMAIN w) = (-n) * Len(w)
  <2> DEFINE c == -n
  <2>1. \A k \in DOMAIN w : Entered(w)[k] = c
    BY <1>1
  <2>2. c \in Int
    OBVIOUS
  <2> HIDE DEF c
  <2>3. SumFunctionOnSet(Entered(w), DOMAIN w) = c * Cardinality(DOMAIN w)
    BY <1>1, <2>1, <2>2, SumOfEquals
  <2> QED BY <1>3, <2>3 DEF c
<1>5. ASSUME NEW m \in Nat PROVE -((-n) * m) = n * m
  OBVIOUS
<1> QED BY <1>1, <1>2, <1>4, <1>5 DEF Adds

-----------------------------------------------------------------------------
(* What a session holds, and what leaves it be. *)

\* What Discipline asks of each session.
Holds(s) ==
  /\ WritesItsKind(s) /\ WritesUnderBill(s) /\ TakesWithin(s) /\ TakesEachBackOnce(s)
  /\ RemindsUnderLock(s) /\ DisputesInTurn(s)

\* What there is to lock.
LEMMA LockableRows ==
  /\ \A b \in Bills : BillRow(b) \in Lockables /\ ReminderRow(b) \in Lockables /\ DisputeRow(b) \in Lockables
  /\ \A x \in Sources : SourceKey(x) \in Lockables
BY DEF Lockables

\* A session takes locks nobody else has: the others keep theirs, and it its own.
LEMMA LocksKeep ==
  ASSUME Parameters, TypeOK, NEW s \in Sessions, NEW xs, \A x \in xs \cap Lockables : Mine(s, x), Locks(s, xs)
  PROVE  /\ lock' \in [Lockables -> Sessions \cup {None}]
         /\ \A t \in Sessions : \A x \in Lockables : lock[x] = t => lock'[x] = t
         /\ \A x \in xs \cap Lockables : lock'[x] = s
<1>1. lock' = [x \in Lockables |-> IF x \in xs THEN s ELSE lock[x]]
  BY DEF Locks
<1>2. lock \in [Lockables -> Sessions \cup {None}]
  BY DEF TypeOK
<1>3. ASSUME NEW t \in Sessions, NEW x \in Lockables, lock[x] = t PROVE lock'[x] = t
  <2>1. CASE x \in xs
    <3>1. lock[x] \in {None, s} /\ t # None
      BY <2>1 DEF Mine, Parameters, NoneAssumption
    <3> QED BY <1>1, <1>3, <2>1, <3>1
  <2>2. CASE x \notin xs
    BY <1>1, <1>3, <2>2
  <2> QED BY <2>1, <2>2
<1>4. \A x \in xs \cap Lockables : lock'[x] = s
  BY <1>1
<1>5. lock' \in [Lockables -> Sessions \cup {None}]
  BY <1>1, <1>2
<1> QED BY <1>3, <1>4, <1>5

\* A session lets its locks go: the others keep theirs.
LEMMA ReleasesKeep ==
  ASSUME Parameters, TypeOK, NEW s \in Sessions, Releases(s)
  PROVE  /\ lock' \in [Lockables -> Sessions \cup {None}]
         /\ \A t \in Sessions \ {s} : \A x \in Lockables : lock[x] = t => lock'[x] = t
<1>1. lock' = [x \in Lockables |-> IF lock[x] = s THEN None ELSE lock[x]]
  BY DEF Releases
<1>2. lock \in [Lockables -> Sessions \cup {None}]
  BY DEF TypeOK
<1> QED BY <1>1, <1>2

\* A session that is doing nothing, as a job.
LEMMA NoJobIsJob ==
  ASSUME Parameters
  PROVE  /\ NoJob \in Job /\ << >> \in Seq(Entry) /\ DOMAIN << >> = {}
         /\ \A b \in Bills : NoJob.status[b] = None
<1>1. NoChange \in [Bills -> Statuses \cup {None}] /\ \A b \in Bills : NoChange[b] = None
  BY DEF NoChange
<1>2. << >> \in Seq(Entry) /\ DOMAIN << >> = {} /\ {} \in SUBSET Nat
  OBVIOUS
<1>3. 0 \in Nat /\ 0 \in Int
  OBVIOUS
<1> QED BY <1>1, <1>2, <1>3 DEF NoJob, Job

\* What is known of every session, as it stands.
LEMMA SessionFacts ==
  ASSUME Parameters, Discipline, NEW s \in Sessions
  PROVE  /\ job[s] \in Job /\ Holds(s)
         /\ job[s].writes \in Seq(Entry) /\ job[s].todo \in SUBSET Nat /\ job[s].amount \in Int
         /\ job[s].status \in [Bills -> Statuses \cup {None}] /\ job[s].sends \in BOOLEAN
         /\ job[s].bill \in Nat /\ job[s].source \in Sources \cup {None}
<1>1. job[s] \in Job
  BY DEF Discipline
<1>2. Holds(s)
  BY DEF Discipline, Holds
<1> QED BY <1>1, <1>2 DEF Job

\* An idle session has no job.
LEMMA IdleIsNoJob ==
  ASSUME Parameters, Discipline, NEW s \in Sessions, job[s].step = "idle"
  PROVE  job[s] = NoJob
BY SessionFacts DEF Holds, WritesItsKind

\* What is outstanding is a whole amount, and nothing is overpaid.
LEMMA OutstandingType ==
  ASSUME Parameters, NEW j \in Seq(Entry), NEW b \in Bills
  PROVE  Outstanding(b, j) \in Int /\ Total[b] \in Nat /\ Moved(b, j) \in Int
<1>1. Moved(b, j) \in Int
  BY MovedJoined
<1>2. Total[b] \in Nat
  BY DEF Parameters, BillAssumption
<1> QED BY <1>1, <1>2 DEF Outstanding

\* A session that has written nothing leaves every bill as it is.
LEMMA NoWritesUnderBill ==
  ASSUME Parameters, journal' \in Seq(Entry), NeverOverpaid', NEW s \in Sessions, job'[s].writes = << >>
  PROVE  WritesUnderBill(s)'
<1>1. DOMAIN << >> = {}
  BY NoJobIsJob
<1>2. ASSUME NEW b \in Bills PROVE Outstanding(b, journal') + Moved(b, job'[s].writes) >= 0
  <2>1. Moved(b, << >>) = 0
    BY <1>1, MovedNot
  <2>2. Outstanding(b, journal') \in Int /\ Outstanding(b, journal') >= 0
    BY OutstandingType DEF NeverOverpaid
  <2> QED BY <2>1, <2>2
<1> QED BY <1>1, <1>2 DEF WritesUnderBill

\* An idle session holds nothing and needs nothing.
LEMMA IdleHolds ==
  ASSUME Parameters, journal' \in Seq(Entry), NeverOverpaid', NEW s \in Sessions, job'[s] = NoJob
  PROVE  Holds(s)'
<1>1. NoJob.writes = << >> /\ NoJob.op = "none" /\ NoJob.step = "idle" /\ NoJob.sends = FALSE
  BY DEF NoJob
<1>2. WritesUnderBill(s)'
  BY <1>1, NoWritesUnderBill
<1>3. WritesItsKind(s)' /\ TakesWithin(s)' /\ TakesEachBackOnce(s)'
  BY <1>1 DEF WritesItsKind, TakesWithin, TakesEachBackOnce, Taking, TakingBack
<1>4. RemindsUnderLock(s)' /\ DisputesInTurn(s)'
  <2>1. \A b \in Bills : job'[s].status[b] = None
    BY NoJobIsJob
  <2>2. None # "stopped_disputed"
    BY DEF Parameters, NoneAssumption, Statuses, Stops
  <2> QED BY <1>1, <2>1, <2>2 DEF RemindsUnderLock, DisputesInTurn
<1> QED BY <1>2, <1>3, <1>4 DEF Holds

-----------------------------------------------------------------------------
(* What a session holds stays so while others work. *)

\* The bills session t has locked owe what they owed, and no bill less than nothing.
BillsKeptFor(t) ==
  \A b \in Bills : /\ Outstanding(b, journal') >= 0
                   /\ lock[BillRow(b)] = t => Outstanding(b, journal') = Outstanding(b, journal)

\* The payments and notes it has locked are used no more than they were.
SourcesKeptFor(t) ==
  \A x \in Sources : lock[SourceKey(x)] = t =>
    /\ source'[x] = "corrected" => source[x] = "corrected"
    /\ Used(x, journal') <= Used(x, journal)
    /\ Live(x, journal') \subseteq Live(x, journal)

\* Entries stay, and those of its bills are not taken back by anyone else.
EntriesKeptFor(t) ==
  \A i \in DOMAIN journal :
    /\ i \in DOMAIN journal' /\ journal'[i] = journal[i]
    /\ lock[BillRow(journal[i].bill)] = t /\ ~Reversed(i, journal) => ~Reversed(i, journal')

\* The reminders it has locked are where they were; disputes are raised and resolved
\* by whoever holds their rows, and no reminder stops for an open one.
RemindersKeptFor(t) ==
  \A b \in Bills :
    /\ lock[ReminderRow(b)] = t => reminder'[b].step = reminder[b].step
    /\ lock[BillRow(b)] = t /\ b \notin disputed => b \notin disputed'
    /\ lock[DisputeRow(b)] = t /\ b \in disputed =>
         b \in disputed' /\ (reminder'[b].status = "stopped_disputed" => reminder[b].status = "stopped_disputed")

\* What is used of a payment or a note is an amount.
LEMMA UsedType ==
  ASSUME Parameters, JournalMeans, NEW x \in Sources
  PROVE  Used(x, journal) \in Nat
<1>1. << >> \in Seq(Entry) /\ DOMAIN << >> = {}
  BY NoJobIsJob
<1>2. NamesOf(journal, journal) /\ NamesOf(journal, << >>)
  <2>1. \A i \in DOMAIN journal : journal[i].of = 0 \/ journal[i].of \in DOMAIN journal
    BY DEF JournalMeans, TakesBack
  <2> QED BY <1>1, <2>1 DEF NamesOf
<1>3. journal \in Seq(Entry) /\ \A i \in DOMAIN journal : Means(journal[i])
  BY DEF JournalMeans
<1> QED BY <1>1, <1>2, <1>3, UsedJoined

\* A session whose rows were left alone holds what it held.
LEMMA OthersHold ==
  ASSUME Parameters, Discipline, NEW t \in Sessions, job'[t] = job[t],
         \A x \in Lockables : lock[x] = t => lock'[x] = t,
         BillsKeptFor(t), SourcesKeptFor(t), EntriesKeptFor(t), RemindersKeptFor(t), journal' \in Seq(Entry),
         \A x \in Sources : Used(x, journal') \in Int
  PROVE  Holds(t)'
<1> DEFINE j == job[t]
<1>1. /\ j \in Job /\ Holds(t) /\ j.writes \in Seq(Entry) /\ j.source \in Sources \cup {None}
      /\ j.bill \in Nat
  BY SessionFacts
<1>2. /\ \A b \in Bills : BillRow(b) \in Lockables /\ ReminderRow(b) \in Lockables /\ DisputeRow(b) \in Lockables
      /\ \A x \in Sources : SourceKey(x) \in Lockables
  BY LockableRows
<1>3. \A k \in DOMAIN j.writes : j.writes[k].bill \in Bills /\ j.writes[k] \in Entry
  <2>1. \A k \in DOMAIN j.writes : j.writes[k] \in Entry
    BY <1>1, EntriesAreFinite
  <2> QED BY <2>1 DEF Entry
<1>4. TypeOK /\ JournalMeans /\ disputed \subseteq Bills /\ journal \in Seq(Entry)
  BY DEF Discipline, TypeOK, JournalMeans
<1>5. WritesItsKind(t)'
  BY <1>1 DEF Holds, WritesItsKind
<1>6. WritesUnderBill(t)'
  <2>1. \A k \in DOMAIN j.writes : Means(j.writes[k]) /\ lock'[BillRow(j.writes[k].bill)] = t
    BY <1>1, <1>2, <1>3 DEF Holds, WritesUnderBill
  <2>2. ASSUME NEW b \in Bills PROVE Outstanding(b, journal') + Moved(b, j.writes) >= 0
    <3>1. CASE lock[BillRow(b)] = t
      BY <1>1, <3>1 DEF BillsKeptFor, Holds, WritesUnderBill
    <3>2. CASE lock[BillRow(b)] # t
      <4>1. \A k \in DOMAIN j.writes : j.writes[k].bill # b
        BY <1>1, <3>2 DEF Holds, WritesUnderBill
      <4>2. Moved(b, j.writes) = 0
        BY <4>1, MovedNot
      <4>3. Outstanding(b, journal') \in Int
        BY OutstandingType
      <4>4. Outstanding(b, journal') >= 0
        BY DEF BillsKeptFor
      <4> QED BY <4>2, <4>3, <4>4
    <3> QED BY <3>1, <3>2
  <2> QED BY <2>1, <2>2 DEF WritesUnderBill
<1>7. TakesWithin(t)'
  <2>1. CASE j.op \notin Taking
    BY <2>1 DEF TakesWithin
  <2>2. CASE j.op \in Taking
    <3> DEFINE p == j.amount * (Cardinality(j.todo) + Len(j.writes))
    <3>1. TakesWithin(t)
      BY <1>1 DEF Holds
    <3>2. /\ j.source \in Sources /\ lock[SourceKey(j.source)] = t
          /\ j.source \in (IF j.op = "credit_application" THEN Notes ELSE Payments)
          /\ j.amount \in Amounts /\ j.todo \subseteq Bills /\ IsFiniteSet(j.todo)
      BY <2>2, <3>1 DEF TakesWithin, Sources
    <3>3. Used(j.source, journal) + p <= Worth[j.source]
      BY <2>2, <3>1 DEF TakesWithin
    <3>4. p \in Int
      <4>1. Cardinality(j.todo) \in Nat /\ Len(j.writes) \in Nat /\ j.amount \in Nat
        <5>1. Cardinality(j.todo) \in Nat
          BY <3>2, FS_CardinalityType
        <5>2. Len(j.writes) \in Nat
          BY <1>1, EntriesAreFinite
        <5>3. j.amount \in Nat
          BY <3>2 DEF Parameters, AmountAssumption
        <5> QED BY <5>1, <5>2, <5>3
      <4> QED BY <4>1
    <3>5. Used(j.source, journal) \in Int /\ Used(j.source, journal') \in Int /\ Worth[j.source] \in Int
      BY <1>4, <3>2, UsedType DEF Parameters, AmountAssumption
    <3>6. Used(j.source, journal') <= Used(j.source, journal)
      BY <3>2 DEF SourcesKeptFor
    <3>7. Used(j.source, journal') + p <= Worth[j.source]
      <4> HIDE DEF p
      <4> QED BY <3>3, <3>4, <3>5, <3>6
    <3>8. /\ lock'[SourceKey(j.source)] = t
          /\ j.op = "payment_allocation" => source'[j.source] # "corrected"
      BY <1>2, <2>2, <3>1, <3>2 DEF SourcesKeptFor, TakesWithin
    <3>9. \A k \in DOMAIN j.writes : /\ j.writes[k].kind = j.op /\ j.writes[k].amount = -j.amount
                                      /\ j.writes[k].source = j.source /\ j.writes[k].bill \notin j.todo
      BY <2>2, <3>1 DEF TakesWithin
    <3> QED BY <3>2, <3>7, <3>8, <3>9 DEF TakesWithin
  <2> QED BY <2>1, <2>2
<1>8. TakesEachBackOnce(t)'
  <2>1. CASE j.op \notin TakingBack
    BY <2>1 DEF TakesEachBackOnce
  <2>2. CASE j.op \in TakingBack
    <3> DEFINE back == {j.writes[k].of : k \in DOMAIN j.writes}
    <3>1. TakesEachBackOnce(t)
      BY <1>1 DEF Holds
    <3>2. /\ j.todo \subseteq DOMAIN journal /\ back \cap j.todo = {}
          /\ \A i \in j.todo : journal[i].kind = "payment_allocation"
      BY <2>2, <3>1 DEF TakesEachBackOnce
    <3>3. \A i \in DOMAIN journal : i \in DOMAIN journal' /\ journal'[i] = journal[i]
      BY DEF EntriesKeptFor
    <3>4. ASSUME NEW k \in DOMAIN j.writes
          PROVE  /\ TakesBack(j.writes[k], journal') /\ ~Reversed(j.writes[k].of, journal')
                 /\ \A m \in DOMAIN j.writes : j.writes[m].of = j.writes[k].of => m = k
      <4>1. TakesBack(j.writes[k], journal) /\ ~Reversed(j.writes[k].of, journal)
        BY <2>2, <3>1 DEF TakesEachBackOnce
      <4>2. j.writes[k].of \in DOMAIN journal /\ j.writes[k].bill = journal[j.writes[k].of].bill
        BY <4>1 DEF TakesBack
      <4>3. lock[BillRow(j.writes[k].bill)] = t
        BY <1>1 DEF Holds, WritesUnderBill
      <4>4. ~Reversed(j.writes[k].of, journal')
        BY <4>1, <4>2, <4>3 DEF EntriesKeptFor
      <4>5. TakesBack(j.writes[k], journal')
        BY <3>3, <4>1, <4>2 DEF TakesBack
      <4>6. \A m \in DOMAIN j.writes : j.writes[m].of = j.writes[k].of => m = k
        BY <2>2, <3>1 DEF TakesEachBackOnce
      <4> QED BY <4>4, <4>5, <4>6
    <3>5. ASSUME j.op = "correct"
          PROVE  /\ j.source \in Payments /\ lock'[SourceKey(j.source)] = t
                 /\ Live(j.source, journal') \subseteq j.todo \cup back
                 /\ j.step = "written" => j.todo = {}
      <4>1. /\ j.source \in Payments /\ lock[SourceKey(j.source)] = t
            /\ Live(j.source, journal) \subseteq j.todo \cup back
            /\ j.step = "written" => j.todo = {}
        BY <2>2, <3>1, <3>5 DEF TakesEachBackOnce
      <4>2. j.source \in Sources
        BY <4>1 DEF Sources
      <4>3. Live(j.source, journal') \subseteq Live(j.source, journal)
        BY <4>1, <4>2 DEF SourcesKeptFor
      <4> QED BY <1>2, <4>1, <4>2, <4>3
    <3>6. j.todo \subseteq DOMAIN journal' /\ \A i \in j.todo : journal'[i].kind = "payment_allocation"
      BY <3>2, <3>3
    <3> QED BY <3>2, <3>4, <3>5, <3>6 DEF TakesEachBackOnce
  <2> QED BY <2>1, <2>2
<1>9. RemindsUnderLock(t)'
  BY <1>1, <1>2 DEF Holds, RemindsUnderLock, RemindersKeptFor
<1>10. DisputesInTurn(t)'
  BY <1>1, <1>2, <1>4 DEF Holds, DisputesInTurn, RemindersKeptFor
<1> QED BY <1>5, <1>6, <1>7, <1>8, <1>9, <1>10 DEF Holds

\* The rows as they are leave every session what it holds.
LEMMA SameRowsKept ==
  ASSUME Parameters, Discipline, UNCHANGED <<journal, disputed>>, NEW t \in Sessions,
         \A x \in Sources : source'[x] = "corrected" => source[x] = "corrected",
         \A b \in Bills : lock[ReminderRow(b)] = t => reminder'[b].step = reminder[b].step,
         \A b \in Bills : reminder'[b].status = "stopped_disputed" => reminder[b].status = "stopped_disputed"
  PROVE  /\ BillsKeptFor(t) /\ SourcesKeptFor(t) /\ EntriesKeptFor(t) /\ RemindersKeptFor(t)
         /\ journal' \in Seq(Entry) /\ \A x \in Sources : Used(x, journal') \in Int
<1>1. JournalMeans /\ journal \in Seq(Entry) /\ NeverOverpaid
  BY DEF Discipline, JournalMeans, BillsAddUp
<1>2. \A x \in Sources : Used(x, journal) \in Int /\ Used(x, journal) <= Used(x, journal)
  BY <1>1, UsedType
<1>3. BillsKeptFor(t) /\ EntriesKeptFor(t)
  BY <1>1 DEF BillsKeptFor, EntriesKeptFor, NeverOverpaid
<1>4. SourcesKeptFor(t)
  BY <1>2 DEF SourcesKeptFor
<1>5. RemindersKeptFor(t)
  BY DEF RemindersKeptFor
<1> QED BY <1>1, <1>2, <1>3, <1>4, <1>5

\* One session moves on, takes locks nobody else has, or lets its own go; the rows
\* stay as they are.
LEMMA JobStep ==
  ASSUME Parameters, Discipline, NEW s \in Sessions, NEW j \in Job, job' = [job EXCEPT ![s] = j],
         UNCHANGED rows, lock' \in [Lockables -> Sessions \cup {None}],
         \A t \in Sessions \ {s} : \A x \in Lockables : lock[x] = t => lock'[x] = t,
         Holds(s)'
  PROVE  Discipline'
<1>1. job' \in [Sessions -> Job] /\ job'[s] = j /\ \A t \in Sessions : t # s => job'[t] = job[t]
  BY DEF Discipline
<1>2. UNCHANGED <<journal, source, disputed, reminder, contacts>>
  BY DEF rows
<1>3. ASSUME NEW t \in Sessions PROVE Holds(t)'
  <2>1. CASE t = s
    BY <2>1
  <2>2. CASE t # s
    <3>1. /\ BillsKeptFor(t) /\ SourcesKeptFor(t) /\ EntriesKeptFor(t) /\ RemindersKeptFor(t)
          /\ journal' \in Seq(Entry) /\ \A x \in Sources : Used(x, journal') \in Int
      BY <1>2, SameRowsKept
    <3>2. job'[t] = job[t] /\ \A x \in Lockables : lock[x] = t => lock'[x] = t
      BY <1>1, <2>2
    <3> QED BY <3>1, <3>2, OthersHold
  <2> QED BY <2>1, <2>2
<1>4. TypeOK'
  <2>1. \A t \in Sessions : /\ job'[t].step \in {"idle", "source", "chosen", "resolving", "listed", "written"}
                            /\ job'[t].status \in [Bills -> Statuses \cup {None}]
    BY <1>1 DEF Job
  <2> QED BY <1>2, <2>1 DEF Discipline, TypeOK
<1>5. JournalMeans' /\ BillsAddUp' /\ ChasedInOrder'
  <2>1. JournalMeans /\ BillsAddUp /\ ChasedInOrder
    BY DEF Discipline
  <2>2. JournalMeans'
    BY <1>2, <2>1 DEF JournalMeans, TakesBack
  <2>3. BillsAddUp'
    BY <1>2, <2>1 DEF BillsAddUp, NeverOverpaid, ReversedOnce
  <2>4. ChasedInOrder'
    BY <1>2, <2>1 DEF ChasedInOrder, StopHasItsDispute, StepsInOrder
  <2> QED BY <2>2, <2>3, <2>4
<1>6. DOMAIN contacts' = Bills /\ \A b \in Bills : reminder'[b].step <= Len(contacts'[b])
  BY <1>2 DEF Discipline
<1>7. \A t \in Sessions : /\ WritesItsKind(t)' /\ WritesUnderBill(t)' /\ TakesWithin(t)'
                          /\ TakesEachBackOnce(t)' /\ RemindsUnderLock(t)' /\ DisputesInTurn(t)'
  BY <1>3 DEF Holds
<1> QED BY <1>1, <1>4, <1>5, <1>6, <1>7 DEF Discipline

\* Giving up lets everything go.
LEMMA AbortKeeps ==
  ASSUME Parameters, Discipline, NEW s \in Sessions, Abort(s)
  PROVE  Discipline'
<1>1. TypeOK /\ journal \in Seq(Entry) /\ NeverOverpaid
  BY DEF Discipline, JournalMeans, BillsAddUp
<1>2. UNCHANGED rows /\ Releases(s) /\ job' = [job EXCEPT ![s] = NoJob]
  BY DEF Abort, Becomes
<1>3. UNCHANGED journal /\ job'[s] = NoJob
  BY <1>2 DEF rows, Discipline
<1>4. journal' \in Seq(Entry) /\ NeverOverpaid'
  BY <1>1, <1>3 DEF NeverOverpaid, rows, Abort
<1>5. Holds(s)'
  BY <1>3, <1>4, IdleHolds
<1>6. NoJob \in Job
  BY NoJobIsJob
<1> QED BY <1>1, <1>2, <1>5, <1>6, ReleasesKeep, JobStep

\* A payment is recorded, or a reminder nobody has locked is changed by hand.
LEMMA RowStep ==
  ASSUME Parameters, Discipline, UNCHANGED <<journal, disputed, contacts, lock, job>>,
         source' \in [Sources -> {"none", "live", "corrected"}],
         \A x \in Sources : source'[x] = "corrected" => source[x] = "corrected",
         reminder' \in [Bills -> [status : Statuses, step : 0..LastStep, due : BOOLEAN]],
         \A b \in Bills : /\ reminder'[b].step = LastStep => reminder'[b].status = "exhausted"
                          /\ reminder'[b].status = "stopped_disputed" => reminder[b].status = "stopped_disputed"
                          /\ lock[ReminderRow(b)] # None => reminder'[b].step = reminder[b].step
                          /\ reminder'[b].step <= Len(contacts[b])
  PROVE  Discipline'
<1>1. ASSUME NEW t \in Sessions PROVE Holds(t)'
  <2>1. t # None
    BY DEF Parameters, NoneAssumption
  <2>2. /\ BillsKeptFor(t) /\ SourcesKeptFor(t) /\ EntriesKeptFor(t) /\ RemindersKeptFor(t)
        /\ journal' \in Seq(Entry) /\ \A x \in Sources : Used(x, journal') \in Int
    BY <2>1, SameRowsKept
  <2> QED BY <2>2, OthersHold
<1>2. TypeOK' /\ job' \in [Sessions -> Job] /\ DOMAIN contacts' = Bills
  BY DEF Discipline, TypeOK
<1>3. JournalMeans /\ BillsAddUp /\ ChasedInOrder
  BY DEF Discipline
<1>4. JournalMeans'
  BY <1>3 DEF JournalMeans, TakesBack
<1>5. BillsAddUp'
  <2>1. \A x \in Payments : source'[x] = "corrected" => source[x] = "corrected"
    BY DEF Sources
  <2> QED BY <1>3, <2>1 DEF BillsAddUp, NeverOverpaid, ReversedOnce
<1>6. ChasedInOrder'
  BY <1>3 DEF ChasedInOrder, StopHasItsDispute, StepsInOrder
<1>7. \A t \in Sessions : /\ WritesItsKind(t)' /\ WritesUnderBill(t)' /\ TakesWithin(t)'
                          /\ TakesEachBackOnce(t)' /\ RemindsUnderLock(t)' /\ DisputesInTurn(t)'
  BY <1>1 DEF Holds
<1> QED BY <1>2, <1>4, <1>5, <1>6, <1>7 DEF Discipline

\* The reminders as they are.
LEMMA ReminderFacts ==
  ASSUME Parameters, Discipline, NEW b \in Bills
  PROVE  /\ reminder[b] \in [status : Statuses, step : 0..LastStep, due : BOOLEAN]
         /\ reminder[b].step \in 0..LastStep /\ reminder[b].status \in Statuses /\ reminder[b].due \in BOOLEAN
         /\ reminder[b].step = LastStep => reminder[b].status = "exhausted"
         /\ reminder[b].step <= Len(contacts[b]) /\ Len(contacts[b]) \in Nat
         /\ contacts[b] \in Seq(1..LastStep)
<1>1. reminder[b] \in [status : Statuses, step : 0..LastStep, due : BOOLEAN]
  BY DEF Discipline, TypeOK
<1>2. contacts[b] \in Seq(1..LastStep)
  BY DEF Discipline, TypeOK
<1> QED BY <1>1, <1>2 DEF Discipline, TypeOK

\* A payment or a credit note is recorded.
LEMMA RecordKeeps ==
  ASSUME Parameters, Discipline, NEW x \in Sources, Record(x)
  PROVE  Discipline'
<1>1. /\ source' = [source EXCEPT ![x] = "live"]
      /\ UNCHANGED <<journal, disputed, contacts, lock, job, reminder>>
  BY DEF Record
<1>2. source \in [Sources -> {"none", "live", "corrected"}]
      /\ reminder \in [Bills -> [status : Statuses, step : 0..LastStep, due : BOOLEAN]]
  BY DEF Discipline, TypeOK
<1>3. /\ source' \in [Sources -> {"none", "live", "corrected"}]
      /\ \A y \in Sources : source'[y] = "corrected" => source[y] = "corrected"
  BY <1>1, <1>2
<1> QED BY <1>1, <1>2, <1>3, ReminderFacts, RowStep

\* A reminder is held, let go, given a sequence or due by hand or by the clock.
LEMMA ReminderKeeps ==
  ASSUME Parameters, Discipline, NEW b \in Bills, Hold(b) \/ Release(b) \/ AssignSequence(b) \/ SpacingElapses(b)
  PROVE  Discipline'
<1> DEFINE R == [status : Statuses, step : 0..LastStep, due : BOOLEAN]
<1>1. PICK r : /\ reminder' = [reminder EXCEPT ![b] = r]
               /\ UNCHANGED <<journal, source, disputed, contacts, lock, job>>
               /\ lock[ReminderRow(b)] = None \/ r.step = reminder[b].step
               /\ r \in R /\ (r.step = LastStep => r.status = "exhausted")
               /\ r.status # "stopped_disputed" \/ r.status = reminder[b].status
               /\ r.step = reminder[b].step \/ r.step = 0
  <2>1. /\ reminder[b] \in R /\ (reminder[b].step = LastStep => reminder[b].status = "exhausted")
        /\ reminder[b].step \in 0..LastStep
    BY ReminderFacts
  <2>2. LastStep \in Nat /\ LastStep # 0 /\ 0 \in 0..LastStep
    BY DEF Parameters, AmountAssumption
  <2>3. CASE Hold(b)
    <3> DEFINE r == [reminder[b] EXCEPT !.status = "held_manual"]
    <3>1. /\ r \in R /\ r.step = reminder[b].step /\ r.status = "held_manual"
          /\ r.step # LastStep
      BY <2>1, <2>3 DEF Statuses, Stops, Hold
    <3>8. Sets(b, r)
      BY <2>3 DEF Hold
    <3> HIDE DEF r
    <3>9. UNCHANGED <<journal, source, disputed, contacts, lock, job>> /\ lock[ReminderRow(b)] = None
          /\ reminder' = [reminder EXCEPT ![b] = r]
      BY <3>8 DEF Sets
    <3> QED BY <2>1, <2>2, <3>1, <3>9
  <2>4. CASE Release(b)
    <3>1. /\ StatusResumed(b) \in {"running", "exhausted"}
          /\ reminder[b].step = LastStep => StatusResumed(b) = "exhausted"
      BY <2>1, <2>2 DEF StatusResumed
    <3> DEFINE r == [reminder[b] EXCEPT !.status = StatusResumed(b), !.due = FALSE]
    <3>2. r \in R /\ r.step = reminder[b].step /\ r.status = StatusResumed(b)
      BY <2>1, <3>1 DEF Statuses, Stops
    <3>8. Sets(b, r)
      BY <2>4 DEF Release
    <3> HIDE DEF r
    <3>9. UNCHANGED <<journal, source, disputed, contacts, lock, job>> /\ lock[ReminderRow(b)] = None
          /\ reminder' = [reminder EXCEPT ![b] = r]
      BY <3>8 DEF Sets
    <3> QED BY <2>1, <2>2, <3>1, <3>2, <3>9
  <2>5. CASE AssignSequence(b)
    <3> DEFINE r == [status |-> "running", step |-> 0, due |-> FALSE]
    <3>1. r \in R /\ r.step = 0 /\ r.status = "running"
      BY <2>2 DEF Statuses, Stops
    <3>8. Sets(b, r)
      BY <2>5 DEF AssignSequence
    <3> HIDE DEF r
    <3>9. UNCHANGED <<journal, source, disputed, contacts, lock, job>> /\ lock[ReminderRow(b)] = None
          /\ reminder' = [reminder EXCEPT ![b] = r]
      BY <3>8 DEF Sets
    <3> QED BY <2>1, <2>2, <3>1, <3>9
  <2>6. CASE SpacingElapses(b)
    <3> DEFINE r == [reminder[b] EXCEPT !.due = TRUE]
    <3>1. r \in R /\ r.step = reminder[b].step /\ r.status = reminder[b].status
      BY <2>1
    <3>2. reminder' = [reminder EXCEPT ![b] = r]
      BY <2>6 DEF SpacingElapses
    <3> QED BY <2>1, <2>6, <3>1, <3>2 DEF SpacingElapses
  <2> QED BY <2>3, <2>4, <2>5, <2>6
<1>2. reminder \in [Bills -> R] /\ source \in [Sources -> {"none", "live", "corrected"}]
  BY DEF Discipline, TypeOK
<1>3. reminder' \in [Bills -> R] /\ reminder'[b] = r /\ \A c \in Bills : c # b => reminder'[c] = reminder[c]
  BY <1>1, <1>2
<1>4. ASSUME NEW c \in Bills
      PROVE  /\ reminder'[c].step = LastStep => reminder'[c].status = "exhausted"
             /\ reminder'[c].status = "stopped_disputed" => reminder[c].status = "stopped_disputed"
             /\ lock[ReminderRow(c)] # None => reminder'[c].step = reminder[c].step
             /\ reminder'[c].step <= Len(contacts[c])
  <2>1. /\ reminder[c].step = LastStep => reminder[c].status = "exhausted"
        /\ reminder[c].step <= Len(contacts[c]) /\ Len(contacts[c]) \in Nat /\ reminder[c].step \in 0..LastStep
    BY ReminderFacts
  <2>2. CASE c = b
    BY <1>1, <1>3, <2>1, <2>2
  <2>3. CASE c # b
    BY <1>3, <2>1, <2>3
  <2> QED BY <2>2, <2>3
<1>5. UNCHANGED <<journal, disputed, contacts, lock, job>> /\ source' = source
  BY <1>1
<1> QED BY <1>2, <1>3, <1>4, <1>5, RowStep

-----------------------------------------------------------------------------
(* A transaction begins. *)

\* One that has written nothing and looked at no reminder or dispute.
LEMMA BeginHolds ==
  ASSUME Parameters, Discipline, UNCHANGED rows, NEW s \in Sessions, job'[s].writes = << >>,
         job'[s].status = NoChange, job'[s].sends = FALSE, job'[s].op \notin {"raise", "resolve"}
  PROVE  WritesUnderBill(s)' /\ RemindsUnderLock(s)' /\ DisputesInTurn(s)'
<1>1. journal' \in Seq(Entry) /\ NeverOverpaid'
  BY DEF Discipline, JournalMeans, BillsAddUp, NeverOverpaid, rows
<1>2. WritesUnderBill(s)'
  BY <1>1, NoWritesUnderBill
<1>3. \A b \in Bills : NoChange[b] = None
  BY DEF NoChange
<1>4. None # "stopped_disputed"
  BY DEF Parameters, NoneAssumption, Statuses, Stops
<1> QED BY <1>2, <1>3, <1>4 DEF RemindsUnderLock, DisputesInTurn

\* A payment or a note is taken from, under its key.
LEMMA TakeKeeps ==
  ASSUME Parameters, Discipline, NEW s \in Sessions, NEW op \in Taking, NEW x \in Sources, NEW bs \in SUBSET Bills,
         bs # {}, NEW n \in Amounts, x \in (IF op = "credit_application" THEN Notes ELSE Payments),
         op = "payment_allocation" => source[x] # "corrected", Take(s, op, x, bs, n)
  PROVE  Discipline'
<1> DEFINE j == [NoJob EXCEPT !.step = "source", !.op = op, !.source = x, !.todo = bs, !.amount = n]
<1>1. /\ j.step = "source" /\ j.op = op /\ j.source = x /\ j.todo = bs /\ j.amount = n
      /\ j.writes = << >> /\ j.status = NoChange /\ j.sends = FALSE
  BY DEF NoJob
<1>2. bs \in SUBSET Nat /\ IsFiniteSet(bs) /\ n \in Nat
  BY FS_Subset DEF Parameters, BillAssumption, AmountAssumption
<1>3. j \in Job
  <2>1. NoJob \in Job /\ n \in Int
    BY <1>2, NoJobIsJob
  <2> QED BY <1>2, <2>1 DEF Job
<1>4. /\ UNCHANGED rows /\ job' = [job EXCEPT ![s] = j] /\ Locks(s, {SourceKey(x)}) /\ Mine(s, SourceKey(x))
      /\ n * Cardinality(bs) <= Remainder(x)
  BY DEF Take, Becomes, SourceFree
<1> HIDE DEF j
<1>5. job'[s] = j /\ TypeOK
  BY <1>4 DEF Discipline
<1>6. SourceKey(x) \in Lockables
  BY LockableRows
<1>7. /\ lock' \in [Lockables -> Sessions \cup {None}]
      /\ \A t \in Sessions : \A y \in Lockables : lock[y] = t => lock'[y] = t
      /\ lock'[SourceKey(x)] = s
  BY <1>4, <1>5, <1>6, LocksKeep
<1>8. WritesUnderBill(s)' /\ RemindsUnderLock(s)' /\ DisputesInTurn(s)'
  BY <1>1, <1>4, <1>5, BeginHolds DEF Taking
<1>9. WritesItsKind(s)'
  BY <1>1, <1>5 DEF WritesItsKind, Taking
<1>10. TakesEachBackOnce(s)'
  BY <1>1, <1>5 DEF TakesEachBackOnce, Taking, TakingBack
<1>11. TakesWithin(s)'
  <2>1. Used(x, journal') + n * (Cardinality(bs) + Len(<< >>)) <= Worth[x]
    <3>1. Used(x, journal) \in Nat /\ Worth[x] \in Nat
      BY UsedType DEF Discipline, Parameters, AmountAssumption
    <3>2. Cardinality(bs) \in Nat /\ Len(<< >>) = 0
      BY <1>2, FS_CardinalityType
    <3>3. n * Cardinality(bs) \in Nat /\ Cardinality(bs) + 0 = Cardinality(bs)
      BY <1>2, <3>2
    <3>4. n * Cardinality(bs) <= Worth[x] - Used(x, journal)
      BY <1>4 DEF Remainder
    <3>5. journal' = journal
      BY <1>4 DEF rows
    <3> DEFINE p == n * Cardinality(bs)
    <3>6. p \in Nat /\ p <= Worth[x] - Used(x, journal)
      BY <3>3, <3>4
    <3> HIDE DEF p
    <3>7. Used(x, journal) + p <= Worth[x]
      BY <3>1, <3>6
    <3>8. n * (Cardinality(bs) + Len(<< >>)) = p
      BY <3>2, <3>3 DEF p
    <3> QED BY <3>5, <3>7, <3>8
  <2>2. source'[x] = source[x] /\ DOMAIN << >> = {}
    BY <1>4 DEF rows
  <2> QED BY <1>1, <1>2, <1>5, <1>7, <2>1, <2>2 DEF TakesWithin
<1>12. Holds(s)'
  BY <1>8, <1>9, <1>10, <1>11 DEF Holds
<1> QED BY <1>3, <1>4, <1>7, <1>12, JobStep

\* A payment is allocated.
LEMMA AllocateKeeps ==
  ASSUME Parameters, Discipline, NEW s \in Sessions, NEW x \in Sources, NEW bs \in SUBSET Bills, NEW n \in Amounts,
         Allocate(s, x, bs, n)
  PROVE  Discipline'
<1>1. /\ x \in Payments /\ source[x] # "corrected" /\ bs # {} /\ Take(s, "payment_allocation", x, bs, n)
      /\ "payment_allocation" \in Taking
  BY DEF Allocate, Taking
<1> QED BY <1>1, TakeKeeps

\* A credit note is applied to its bill.
LEMMA ApplyCreditKeeps ==
  ASSUME Parameters, Discipline, NEW s \in Sessions, NEW x \in Sources, NEW n \in Amounts, ApplyCredit(s, x, n)
  PROVE  Discipline'
<1>1. x \in Notes /\ Take(s, "credit_application", x, {BillOf[x]}, n) /\ "credit_application" \in Taking
  BY DEF ApplyCredit, Taking
<1>2. {BillOf[x]} \in SUBSET Bills /\ {BillOf[x]} # {}
  BY <1>1 DEF Parameters, BillAssumption
<1> QED BY <1>1, <1>2, TakeKeeps

\* An allocation is chosen to be taken back, or all of a payment's are.
LEMMA ChooseKeeps ==
  ASSUME Parameters, Discipline, NEW s \in Sessions, NEW j \in Job, job' = [job EXCEPT ![s] = j], UNCHANGED rows,
         NEW xs, \A y \in xs \cap Lockables : Mine(s, y), Locks(s, xs),
         j.step = "chosen", j.op \in TakingBack, j.writes = << >>, j.status = NoChange, j.sends = FALSE,
         j.todo \subseteq DOMAIN journal, \A i \in j.todo : journal[i].kind = "payment_allocation",
         j.op = "correct" => j.source \in Payments /\ SourceKey(j.source) \in xs /\ Live(j.source, journal) \subseteq j.todo
  PROVE  Discipline'
<1>1. job'[s] = j /\ TypeOK /\ UNCHANGED <<journal, source, disputed, reminder, contacts>>
  BY DEF Discipline, rows
<1>2. /\ lock' \in [Lockables -> Sessions \cup {None}]
      /\ \A t \in Sessions : \A y \in Lockables : lock[y] = t => lock'[y] = t
      /\ \A y \in xs \cap Lockables : lock'[y] = s
  BY <1>1, LocksKeep
<1>3. WritesUnderBill(s)' /\ RemindsUnderLock(s)' /\ DisputesInTurn(s)'
  BY <1>1, BeginHolds DEF TakingBack
<1>4. WritesItsKind(s)'
  BY <1>1 DEF WritesItsKind, TakingBack
<1>5. TakesWithin(s)'
  BY <1>1 DEF TakesWithin, Taking, TakingBack
<1>6. TakesEachBackOnce(s)'
  <2>1. DOMAIN << >> = {}
    OBVIOUS
  <2>2. j.op = "correct" => lock'[SourceKey(j.source)] = s
    BY <1>2, LockableRows DEF Sources
  <2> QED BY <1>1, <2>1, <2>2 DEF TakesEachBackOnce
<1>7. Holds(s)'
  BY <1>3, <1>4, <1>5, <1>6 DEF Holds
<1> QED BY <1>2, <1>7, JobStep

\* An allocation is chosen to be taken back.
LEMMA UnallocateKeeps ==
  ASSUME Parameters, Discipline, NEW s \in Sessions, NEW i \in DOMAIN journal, Unallocate(s, i)
  PROVE  Discipline'
<1> DEFINE j == [NoJob EXCEPT !.step = "chosen", !.op = "unallocate", !.todo = {i}]
<1>1. /\ j.step = "chosen" /\ j.op = "unallocate" /\ j.todo = {i}
      /\ j.writes = << >> /\ j.status = NoChange /\ j.sends = FALSE
  BY DEF NoJob
<1>2. journal \in Seq(Entry)
  BY DEF Discipline, JournalMeans
<1>3. {i} \in SUBSET Nat
  <2>1. DOMAIN journal = 1..Len(journal) /\ Len(journal) \in Nat
    BY <1>2, EntriesAreFinite
  <2> QED BY <2>1
<1>4. j \in Job
  BY <1>3, NoJobIsJob DEF Job, TakingBack
<1>5. /\ UNCHANGED rows /\ UNCHANGED lock /\ job' = [job EXCEPT ![s] = j]
      /\ journal[i].kind = "payment_allocation"
  BY DEF Unallocate, Becomes
<1>6. Locks(s, {})
  BY <1>5 DEF Locks, Discipline, TypeOK
<1>7. j.op \in TakingBack /\ j.op # "correct"
  BY <1>1 DEF TakingBack
<1> HIDE DEF j
<1> QED BY <1>1, <1>4, <1>5, <1>6, <1>7, ChooseKeeps

\* A payment is corrected, under its key: all that still counts of it goes.
LEMMA CorrectKeeps ==
  ASSUME Parameters, Discipline, NEW s \in Sessions, NEW x \in Sources, Correct(s, x)
  PROVE  Discipline'
<1> DEFINE j == [NoJob EXCEPT !.step = "chosen", !.op = "correct", !.source = x, !.todo = Live(x, journal)]
<1>1. /\ j.step = "chosen" /\ j.op = "correct" /\ j.todo = Live(x, journal) /\ j.source = x
      /\ j.writes = << >> /\ j.status = NoChange /\ j.sends = FALSE
  BY DEF NoJob
<1>2. journal \in Seq(Entry) /\ \A i \in DOMAIN journal : Means(journal[i])
  BY DEF Discipline, JournalMeans
<1>3. /\ UNCHANGED rows /\ job' = [job EXCEPT ![s] = j] /\ x \in Payments
      /\ Locks(s, {SourceKey(x)}) /\ Mine(s, SourceKey(x))
  BY DEF Correct, Becomes, SourceFree
<1>4. \A i \in Live(x, journal) : i \in DOMAIN journal /\ journal[i].kind = "payment_allocation"
  BY <1>2, <1>3, LiveTakes
<1>5. Live(x, journal) \in SUBSET Nat
  <2>1. DOMAIN journal = 1..Len(journal) /\ Len(journal) \in Nat
    BY <1>2, EntriesAreFinite
  <2> QED BY <1>4, <2>1
<1>6. j \in Job
  BY <1>5, NoJobIsJob DEF Job, TakingBack
<1> HIDE DEF j
<1>7. j.op \in TakingBack /\ \A y \in {SourceKey(x)} \cap Lockables : Mine(s, y)
  BY <1>1, <1>3 DEF TakingBack
<1>8. j.source \in Payments /\ SourceKey(j.source) \in {SourceKey(x)} /\ Live(j.source, journal) \subseteq j.todo
  BY <1>1, <1>3
<1>9. j.todo \subseteq DOMAIN journal /\ \A i \in j.todo : journal[i].kind = "payment_allocation"
  BY <1>1, <1>4
<1> QED BY <1>1, <1>3, <1>6, <1>7, <1>8, <1>9, ChooseKeeps

-----------------------------------------------------------------------------
(* A transaction writes an entry. *)

\* One entry more.
LEMMA Appended ==
  ASSUME NEW w \in Seq(Entry), NEW e \in Entry
  PROVE  /\ Append(w, e) \in Seq(Entry) /\ Len(Append(w, e)) = Len(w) + 1 /\ Len(w) \in Nat
         /\ DOMAIN Append(w, e) = DOMAIN w \cup {Len(w) + 1} /\ Len(w) + 1 \notin DOMAIN w
         /\ \A k \in DOMAIN w : Append(w, e)[k] = w[k]
         /\ Append(w, e)[Len(w) + 1] = e
         /\ \A b : /\ Moved(b, w) \in Int
                   /\ Moved(b, Append(w, e)) = Moved(b, w) + (IF e.bill = b THEN e.amount ELSE 0)
<1>1. /\ Append(w, e) \in Seq(Entry) /\ Len(Append(w, e)) = Len(w) + 1 /\ Len(w) \in Nat
      /\ \A k \in 1..Len(w) : Append(w, e)[k] = w[k]
      /\ Append(w, e)[Len(w) + 1] = e
  OBVIOUS
<1>2. DOMAIN w = 1..Len(w) /\ DOMAIN Append(w, e) = 1..(Len(w) + 1)
  BY <1>1, EntriesAreFinite
<1>3. Append(w, e) = w \o <<e>>
  OBVIOUS
<1>4. <<e>> \in Seq(Entry)
  BY MovedOne
<1>5. ASSUME NEW b
      PROVE  /\ Moved(b, w) \in Int
             /\ Moved(b, Append(w, e)) = Moved(b, w) + (IF e.bill = b THEN e.amount ELSE 0)
  <2>1. Moved(b, w) \in Int /\ Moved(b, w \o <<e>>) = Moved(b, w) + Moved(b, <<e>>)
    BY <1>4, MovedJoined
  <2>2. Moved(b, <<e>>) = IF e.bill = b THEN e.amount ELSE 0
    BY MovedOne
  <2> QED BY <1>3, <2>1, <2>2
<1>6. DOMAIN Append(w, e) = DOMAIN w \cup {Len(w) + 1} /\ Len(w) + 1 \notin DOMAIN w
  BY <1>1, <1>2
<1> QED BY <1>1, <1>2, <1>5, <1>6

\* The reminder change an entry brings, if any, is to a reminder still under way.
LEMMA StatusAfter ==
  ASSUME Parameters, Discipline, NEW e \in Entry, NEW j
  PROVE  /\ StatusAfterEntry(e, j) \in {"stopped_paid", "running", None}
         /\ StatusAfterEntry(e, j) # None => reminder[e.bill].step # LastStep
<1>1. e.bill \in Bills
  BY DEF Entry
<1>2. reminder[e.bill].step = LastStep => reminder[e.bill].status = "exhausted"
  BY <1>1, ReminderFacts
<1> QED BY <1>2 DEF StatusAfterEntry

\* The session goes on to `step' with job k, which is j with entry e written.
EntersAs(s, j, e, step, k) ==
  /\ job' = [job EXCEPT ![s] = k] /\ job'[s] = k
  /\ k.step = step /\ k.op = j.op /\ k.source = j.source /\ k.amount = j.amount /\ k.todo = j.todo
  /\ k.writes = Append(job[s].writes, e)
  /\ lock' \in [Lockables -> Sessions \cup {None}]
  /\ \A t \in Sessions : \A y \in Lockables : lock[y] = t => lock'[y] = t
  /\ WritesUnderBill(s)' /\ RemindsUnderLock(s)' /\ DisputesInTurn(s)'

\* The bill, and the reminder if it changes, are locked; nothing is overpaid.
LEMMA EntersHolds ==
  ASSUME Parameters, Discipline, NEW s \in Sessions, NEW j \in Job, NEW e \in Entry, Means(e), NEW step,
         step \in {"source", "chosen", "written"}, UNCHANGED rows, BillFree(s, e.bill),
         Enters(s, j, e, step, {BillRow(e.bill)}),
         j.writes = job[s].writes, j.status = job[s].status, j.sends = FALSE,
         j.op \notin {"raise", "resolve"}, job[s].op # "raise",
         Outstanding(e.bill, journal) + Moved(e.bill, job[s].writes) + e.amount >= 0
  PROVE  \E k \in Job : EntersAs(s, j, e, step, k)
<1> DEFINE w == job[s].writes
           change == StatusAfterEntry(e, Seen(s) \o <<e>>)
           k == [j EXCEPT !.step = step, !.writes = Append(@, e),
                          !.status[e.bill] = IF change = None THEN @ ELSE change]
           xs == {BillRow(e.bill)} \cup (IF change = None THEN {} ELSE {ReminderRow(e.bill)})
<1>1. /\ job' = [job EXCEPT ![s] = k] /\ Locks(s, xs)
      /\ change # None => Mine(s, ReminderRow(e.bill))
  BY DEF Enters, Becomes
<1>2. /\ change \in {"stopped_paid", "running", None}
      /\ change # None => reminder[e.bill].step # LastStep
  BY StatusAfter
<1>3. e.bill \in Bills /\ e.amount \in Int
  BY DEF Entry
<1>4. /\ w \in Seq(Entry) /\ Holds(s) /\ j.status \in [Bills -> Statuses \cup {None}]
      /\ DisputesInTurn(s) /\ RemindsUnderLock(s) /\ WritesUnderBill(s)
  BY SessionFacts DEF Holds
<1> HIDE DEF change
<1>5. /\ k.step = step /\ k.op = j.op /\ k.source = j.source /\ k.amount = j.amount /\ k.todo = j.todo
      /\ k.bill = j.bill /\ k.sends = FALSE /\ k.writes = Append(w, e)
      /\ k.status = [j.status EXCEPT ![e.bill] = IF change = None THEN @ ELSE change]
  BY DEF Job
<1>6. Append(w, e) \in Seq(Entry)
  BY <1>4, Appended
<1>7. /\ k.status \in [Bills -> Statuses \cup {None}]
      /\ k.status[e.bill] = IF change = None THEN j.status[e.bill] ELSE change
      /\ \A b \in Bills : b # e.bill => k.status[b] = j.status[b]
  BY <1>2, <1>3, <1>4, <1>5 DEF Statuses, Stops
<1>8. k \in Job
  BY <1>5, <1>6, <1>7 DEF Job
<1> HIDE DEF k, w
<1>9. job'[s] = k /\ TypeOK /\ UNCHANGED <<journal, source, disputed, reminder, contacts>>
  BY <1>1 DEF Discipline, rows
<1>10. BillRow(e.bill) \in Lockables /\ ReminderRow(e.bill) \in Lockables
  BY <1>3, LockableRows
<1>11. \A y \in xs \cap Lockables : Mine(s, y)
  BY <1>1 DEF BillFree
<1>12. /\ lock' \in [Lockables -> Sessions \cup {None}]
       /\ \A t \in Sessions : \A y \in Lockables : lock[y] = t => lock'[y] = t
       /\ \A y \in xs \cap Lockables : lock'[y] = s
  <2> HIDE DEF xs
  <2> QED BY <1>1, <1>9, <1>11, LocksKeep
<1>13. /\ lock'[BillRow(e.bill)] = s
       /\ change # None => lock'[ReminderRow(e.bill)] = s
  BY <1>10, <1>12
<1>14. WritesUnderBill(s)'
  <2>1. /\ DOMAIN Append(w, e) = DOMAIN w \cup {Len(w) + 1}
        /\ \A m \in DOMAIN w : Append(w, e)[m] = w[m]
        /\ Append(w, e)[Len(w) + 1] = e
    BY <1>4, Appended
  <2>2. \A m \in DOMAIN w : Means(w[m]) /\ lock[BillRow(w[m].bill)] = s /\ w[m].bill \in Bills
    <3>1. \A m \in DOMAIN w : w[m] \in Entry
      BY <1>4, EntriesAreFinite
    <3> QED BY <1>4, <3>1 DEF WritesUnderBill, Entry, w
  <2>3. \A m \in DOMAIN Append(w, e) : Means(Append(w, e)[m]) /\ lock'[BillRow(Append(w, e)[m].bill)] = s
    BY <1>12, <1>13, <2>1, <2>2, LockableRows
  <2>4. ASSUME NEW b \in Bills PROVE Outstanding(b, journal) + Moved(b, Append(w, e)) >= 0
    <3>1. Moved(b, w) \in Int /\ Moved(b, Append(w, e)) = Moved(b, w) + (IF e.bill = b THEN e.amount ELSE 0)
      BY <1>4, Appended
    <3>2. Outstanding(b, journal) \in Int
      BY OutstandingType DEF Discipline, JournalMeans
    <3>3. Outstanding(b, journal) + Moved(b, w) >= 0
      BY <1>4 DEF WritesUnderBill, w
    <3>4. CASE e.bill = b
      BY <1>3, <3>1, <3>2, <3>4 DEF w
    <3>5. CASE e.bill # b
      BY <3>1, <3>2, <3>3, <3>5
    <3> QED BY <3>4, <3>5
  <2> QED BY <1>5, <1>9, <2>3, <2>4 DEF WritesUnderBill
<1>15. RemindsUnderLock(s)'
  <2>1. ASSUME NEW b \in Bills, k.status[b] # None
        PROVE  lock'[ReminderRow(b)] = s /\ reminder[b].step # LastStep
    <3>1. CASE b = e.bill /\ change # None
      BY <1>2, <1>13, <3>1
    <3>2. CASE b # e.bill \/ change = None
      <4>1. job[s].status[b] # None
        BY <1>7, <2>1, <3>2
      <4> QED BY <1>4, <1>12, <4>1, LockableRows DEF RemindsUnderLock
    <3> QED BY <3>1, <3>2
  <2> QED BY <1>5, <1>9, <2>1 DEF RemindsUnderLock
<1>16. DisputesInTurn(s)'
  <2>1. ASSUME NEW b \in Bills PROVE k.status[b] # "stopped_disputed"
    <3>1. j.status[b] # "stopped_disputed"
      BY <1>4 DEF DisputesInTurn
    <3>2. None # "stopped_disputed"
      BY DEF Parameters, NoneAssumption, Statuses, Stops
    <3> QED BY <1>2, <1>7, <3>1, <3>2
  <2> QED BY <1>5, <1>9, <2>1 DEF DisputesInTurn
<1>17. EntersAs(s, j, e, step, k)
  BY <1>1, <1>5, <1>9, <1>12, <1>14, <1>15, <1>16 DEF w, EntersAs
<1> QED BY <1>8, <1>17

\* The next bill of an allocation or a credit, the least of those to do.
LEMMA EnterKeeps ==
  ASSUME Parameters, Discipline, NEW s \in Sessions, Enter(s)
  PROVE  Discipline'
<1> DEFINE j == job[s]
           b == Min(j.todo)
           rest == j.todo \ {b}
           e == EntryOf(b, j.op, -j.amount, j.source, 0)
           step == IF rest = {} THEN "written" ELSE "source"
           i == [j EXCEPT !.todo = rest]
<1>1. /\ j \in Job /\ Holds(s) /\ j.writes \in Seq(Entry) /\ j.todo \in SUBSET Nat
      /\ j.amount \in Int /\ j.source \in Sources \cup {None} /\ j.sends \in BOOLEAN
  BY SessionFacts
<1>2. j.step = "source" /\ BillFree(s, b)
  BY DEF Enter
<1>3. j.op \in Taking /\ j.todo # {} /\ TakesWithin(s)
  BY <1>1, <1>2 DEF Holds, WritesItsKind
<1>4. /\ j.source \in (IF j.op = "credit_application" THEN Notes ELSE Payments) /\ j.source \in Sources
      /\ lock[SourceKey(j.source)] = s
      /\ j.amount \in Amounts /\ j.todo \subseteq Bills /\ IsFiniteSet(j.todo)
      /\ \A k \in DOMAIN j.writes : /\ j.writes[k].kind = j.op /\ j.writes[k].amount = -j.amount
                                    /\ j.writes[k].source = j.source /\ j.writes[k].bill \notin j.todo
      /\ Used(j.source, journal) + j.amount * (Cardinality(j.todo) + Len(j.writes)) <= Worth[j.source]
      /\ j.op = "payment_allocation" => source[j.source] # "corrected"
  BY <1>3 DEF TakesWithin, Sources
<1>5. b \in j.todo /\ b \in Bills
  <2>1. \E x \in j.todo : \A y \in j.todo : x <= y
    BY <1>1, <1>3, LeastNatural
  <2> QED BY <1>4, <2>1 DEF Min
<1>6. CASE ~(j.amount <= Outstanding(b, journal))
  BY <1>6, AbortKeeps DEF Enter
<1>7. CASE j.amount <= Outstanding(b, journal)
  <2>1. Enters(s, i, e, step, {BillRow(b)}) /\ UNCHANGED rows
    BY <1>7 DEF Enter
  <2>2. /\ e.bill = b /\ e.kind = j.op /\ e.amount = -j.amount /\ e.source = j.source /\ e.of = 0
        /\ j.amount \in Nat /\ j.amount # 0
    BY <1>4 DEF EntryOf, Parameters, AmountAssumption
  <2>3. e \in Entry /\ Means(e)
    <3>1. e \in Entry
      BY <1>3, <1>4, <1>5, <2>2 DEF EntryOf, Entry, Kinds, Taking
    <3>2. e.amount < 0 /\ e.kind # "reversal" /\ e.kind # "interest_charge" /\ e.kind # "write_off"
      BY <1>3, <2>2 DEF Taking
    <3> QED BY <1>4, <2>2, <3>1, <3>2 DEF Means
  <2>4. /\ i.step = "source" /\ i.op = j.op /\ i.source = j.source /\ i.amount = j.amount /\ i.todo = rest
        /\ i.writes = j.writes /\ i.status = j.status /\ i.sends = j.sends /\ i \in Job
    BY <1>1, <1>2 DEF Job
  <2>5. j.sends = FALSE
    BY <1>1, <1>2 DEF Holds, RemindsUnderLock
  <2>6. Outstanding(b, journal) + Moved(b, j.writes) + e.amount >= 0
    <3>1. Moved(b, j.writes) = 0
      BY <1>4, <1>5, MovedNot
    <3>2. Outstanding(b, journal) \in Int
      BY <1>5, OutstandingType DEF Discipline, JournalMeans
    <3> QED BY <1>1, <1>7, <2>2, <3>1, <3>2
  <2>7. step \in {"source", "chosen", "written"} /\ j.op \notin {"raise", "resolve"}
    BY <1>3 DEF Taking
  <2> HIDE DEF i, e, step
  <2>80. PICK k \in Job : EntersAs(s, i, e, step, k)
    <3>1. /\ UNCHANGED rows /\ BillFree(s, e.bill) /\ Enters(s, i, e, step, {BillRow(e.bill)})
          /\ Outstanding(e.bill, journal) + Moved(e.bill, job[s].writes) + e.amount >= 0
      BY <1>2, <2>1, <2>2, <2>6
    <3>2. /\ i.writes = job[s].writes /\ i.status = job[s].status /\ i.sends = FALSE
          /\ i.op \notin {"raise", "resolve"} /\ job[s].op # "raise" /\ i \in Job
      BY <2>4, <2>5, <2>7
    <3> QED BY <2>3, <2>7, <3>1, <3>2, EntersHolds
  <2>8. /\ job' = [job EXCEPT ![s] = k] /\ job'[s] = k
        /\ k.step = step /\ k.op = i.op /\ k.source = i.source /\ k.amount = i.amount /\ k.todo = i.todo
        /\ k.writes = Append(job[s].writes, e)
        /\ lock' \in [Lockables -> Sessions \cup {None}]
        /\ \A t \in Sessions : \A y \in Lockables : lock[y] = t => lock'[y] = t
        /\ WritesUnderBill(s)' /\ RemindsUnderLock(s)' /\ DisputesInTurn(s)'
    BY <2>80 DEF EntersAs
  <2>9. WritesItsKind(s)'
    BY <1>3, <2>4, <2>8 DEF WritesItsKind, Taking, step
  <2>10. TakesEachBackOnce(s)'
    BY <1>3, <2>4, <2>8 DEF TakesEachBackOnce, Taking, TakingBack
  <2>11. TakesWithin(s)'
    <3>1. /\ DOMAIN k.writes = DOMAIN j.writes \cup {Len(j.writes) + 1} /\ Len(j.writes) \in Nat
          /\ \A m \in DOMAIN j.writes : k.writes[m] = j.writes[m]
          /\ k.writes[Len(j.writes) + 1] = e /\ Len(k.writes) = Len(j.writes) + 1
      BY <1>1, <2>3, <2>8, Appended
    <3>2. \A m \in DOMAIN k.writes : /\ k.writes[m].kind = j.op /\ k.writes[m].amount = -j.amount
                                     /\ k.writes[m].source = j.source /\ k.writes[m].bill \notin rest
      BY <1>4, <2>2, <3>1
    <3>3. /\ IsFiniteSet(rest) /\ rest \subseteq Bills /\ Cardinality(rest) \in Nat
          /\ Cardinality(j.todo) = Cardinality(rest) + 1
      BY <1>4, <1>5, SmallerFinite
    <3>4. Cardinality(rest) + Len(k.writes) = Cardinality(j.todo) + Len(j.writes)
      <4>1. ASSUME NEW m \in Nat, NEW n \in Nat PROVE m + (n + 1) = (m + 1) + n
        OBVIOUS
      <4> HIDE DEF rest
      <4> QED BY <3>1, <3>3, <4>1
    <3>5. Used(j.source, journal) + j.amount * (Cardinality(rest) + Len(k.writes)) <= Worth[j.source]
      BY <1>4, <3>4
    <3>6. journal' = journal /\ source' = source
      BY <2>1 DEF rows
    <3>7. lock'[SourceKey(j.source)] = s
      BY <1>4, <2>8, LockableRows
    <3>8. k.todo = rest /\ k.op = j.op /\ k.source = j.source /\ k.amount = j.amount
      BY <2>4, <2>8
    <3> HIDE DEF rest
    <3>9. /\ k.source \in (IF k.op = "credit_application" THEN Notes ELSE Payments)
          /\ k.op = "payment_allocation" => source'[k.source] # "corrected"
          /\ lock'[SourceKey(k.source)] = s
          /\ k.amount \in Amounts /\ k.todo \subseteq Bills /\ IsFiniteSet(k.todo)
      BY <1>4, <3>3, <3>6, <3>7, <3>8
    <3>10. /\ \A m \in DOMAIN k.writes :
                /\ k.writes[m].kind = k.op /\ k.writes[m].amount = -k.amount
                /\ k.writes[m].source = k.source /\ k.writes[m].bill \notin k.todo
           /\ Used(k.source, journal') + k.amount * (Cardinality(k.todo) + Len(k.writes)) <= Worth[k.source]
      BY <3>2, <3>5, <3>6, <3>8
    <3> QED BY <2>8, <3>9, <3>10 DEF TakesWithin
  <2>12. Holds(s)'
    BY <2>8, <2>9, <2>10, <2>11 DEF Holds
  <2> QED BY <2>1, <2>8, <2>12, JobStep
<1> QED BY <1>6, <1>7

\* The next entry to take back, of the least bill; whoever finds it taken back gives up.
LEMMA ReverseKeeps ==
  ASSUME Parameters, Discipline, NEW s \in Sessions, NEW i \in DOMAIN journal, Reverse(s, i)
  PROVE  Discipline'
<1> DEFINE j == job[s]
           o == journal[i]
           e == EntryOf(o.bill, "reversal", -o.amount, o.source, i)
           l == [j EXCEPT !.todo = @ \ {i}]
<1>1. /\ j \in Job /\ Holds(s) /\ j.writes \in Seq(Entry) /\ j.todo \in SUBSET Nat
      /\ j.amount \in Int /\ j.source \in Sources \cup {None} /\ j.sends \in BOOLEAN
  BY SessionFacts
<1>2. j.step = "chosen" /\ i \in j.todo /\ BillFree(s, o.bill)
  BY DEF Reverse
<1>3. j.op \in TakingBack /\ TakesEachBackOnce(s)
  BY <1>1, <1>2 DEF Holds, WritesItsKind
<1>4. /\ journal \in Seq(Entry) /\ JournalMeans /\ o \in Entry /\ Means(o) /\ o.kind = "payment_allocation"
      /\ i \in Nat /\ i # 0
  <2>1. journal \in Seq(Entry) /\ JournalMeans /\ Means(o)
    BY DEF Discipline, JournalMeans
  <2>2. DOMAIN journal = 1..Len(journal) /\ Len(journal) \in Nat /\ o \in Entry
    BY <2>1, EntriesAreFinite
  <2>3. o.kind = "payment_allocation"
    BY <1>2, <1>3 DEF TakesEachBackOnce
  <2> QED BY <2>1, <2>2, <2>3
<1>5. o.bill \in Bills /\ o.amount \in Int /\ o.amount < 0
  BY <1>4 DEF Entry, Means, Taking
<1>6. CASE ~Reversible(i, journal)
  BY <1>6, AbortKeeps DEF Reverse
<1>7. CASE Reversible(i, journal)
  <2>1. Enters(s, l, e, "chosen", {BillRow(o.bill)}) /\ UNCHANGED rows
    BY <1>7 DEF Reverse
  <2>2. e.bill = o.bill /\ e.kind = "reversal" /\ e.amount = -o.amount /\ e.source = o.source /\ e.of = i
    BY DEF EntryOf
  <2>3. e \in Entry /\ Means(e) /\ TakesBack(e, journal) /\ ~Reversed(i, journal)
    <3>1. e \in Entry
      BY <1>4, <1>5 DEF EntryOf, Entry, Kinds
    <3>2. Means(e)
      BY <1>4, <2>2 DEF Means, Taking
    <3> QED BY <1>4, <1>7, <2>2, <3>1, <3>2 DEF TakesBack, Reversible
  <2>4. /\ l.step = "chosen" /\ l.op = j.op /\ l.source = j.source /\ l.amount = j.amount /\ l.todo = j.todo \ {i}
        /\ l.writes = j.writes /\ l.status = j.status /\ l.sends = j.sends /\ l \in Job
    BY <1>1, <1>2 DEF Job
  <2>5. j.sends = FALSE
    BY <1>1, <1>2 DEF Holds, RemindsUnderLock
  <2>6. Outstanding(o.bill, journal) + Moved(o.bill, j.writes) + e.amount >= 0
    <3>1. Moved(o.bill, j.writes) \in Int /\ Outstanding(o.bill, journal) \in Int
      BY <1>1, <1>4, <1>5, MovedJoined, OutstandingType
    <3>2. Outstanding(o.bill, journal) + Moved(o.bill, j.writes) >= 0
      BY <1>1, <1>5 DEF Holds, WritesUnderBill
    <3> QED BY <1>5, <2>2, <3>1, <3>2
  <2>7. /\ j.op \notin {"raise", "resolve"} /\ BillFree(s, e.bill)
        /\ Enters(s, l, e, "chosen", {BillRow(e.bill)})
        /\ Outstanding(e.bill, journal) + Moved(e.bill, j.writes) + e.amount >= 0
    BY <1>2, <1>3, <2>1, <2>2, <2>6 DEF TakingBack
  <2> HIDE DEF l, e
  <2>80. PICK k \in Job : EntersAs(s, l, e, "chosen", k)
    <3> DEFINE step == "chosen"
    <3>1. step \in {"source", "chosen", "written"} /\ Enters(s, l, e, step, {BillRow(e.bill)})
      BY <2>7
    <3> HIDE DEF step
    <3>2. \E k \in Job : EntersAs(s, l, e, step, k)
      <4>1. /\ UNCHANGED rows /\ BillFree(s, e.bill)
            /\ Outstanding(e.bill, journal) + Moved(e.bill, job[s].writes) + e.amount >= 0
        BY <2>1, <2>7
      <4>2. /\ l.writes = job[s].writes /\ l.status = job[s].status /\ l.sends = FALSE
            /\ l.op \notin {"raise", "resolve"} /\ job[s].op # "raise" /\ l \in Job
        BY <2>4, <2>5, <2>7
      <4> QED BY <2>3, <3>1, <4>1, <4>2, EntersHolds
    <3> QED BY <3>2 DEF step
  <2>8. /\ job' = [job EXCEPT ![s] = k] /\ job'[s] = k
        /\ k.step = "chosen" /\ k.op = l.op /\ k.source = l.source /\ k.amount = l.amount /\ k.todo = l.todo
        /\ k.writes = Append(job[s].writes, e)
        /\ lock' \in [Lockables -> Sessions \cup {None}]
        /\ \A t \in Sessions : \A y \in Lockables : lock[y] = t => lock'[y] = t
        /\ WritesUnderBill(s)' /\ RemindsUnderLock(s)' /\ DisputesInTurn(s)'
    BY <2>80 DEF EntersAs
  <2>9. WritesItsKind(s)'
    BY <1>3, <2>4, <2>8 DEF WritesItsKind, TakingBack
  <2>10. TakesWithin(s)'
    BY <1>3, <2>4, <2>8 DEF TakesWithin, Taking, TakingBack
  <2>11. TakesEachBackOnce(s)'
    <3> DEFINE back == {j.writes[m].of : m \in DOMAIN j.writes}
               back2 == {k.writes[m].of : m \in DOMAIN k.writes}
    <3>1. /\ DOMAIN k.writes = DOMAIN j.writes \cup {Len(j.writes) + 1}
          /\ Len(j.writes) + 1 \notin DOMAIN j.writes
          /\ \A m \in DOMAIN j.writes : k.writes[m] = j.writes[m]
          /\ k.writes[Len(j.writes) + 1] = e
      BY <1>1, <2>3, <2>8, Appended
    <3>2. back2 = back \cup {i}
      BY <2>2, <3>1
    <3>3. /\ j.todo \subseteq DOMAIN journal /\ back \cap j.todo = {}
          /\ \A m \in j.todo : journal[m].kind = "payment_allocation"
          /\ \A m \in DOMAIN j.writes :
               /\ TakesBack(j.writes[m], journal) /\ ~Reversed(j.writes[m].of, journal)
               /\ \A n \in DOMAIN j.writes : j.writes[n].of = j.writes[m].of => n = m
          /\ j.op = "correct" => /\ j.source \in Payments /\ lock[SourceKey(j.source)] = s
                                 /\ Live(j.source, journal) \subseteq j.todo \cup back
      BY <1>3 DEF TakesEachBackOnce
    <3>4. \A m \in DOMAIN j.writes : j.writes[m].of # i
      BY <1>2, <3>3
    <3>5. ASSUME NEW m \in DOMAIN k.writes
          PROVE  /\ TakesBack(k.writes[m], journal) /\ ~Reversed(k.writes[m].of, journal)
                 /\ \A n \in DOMAIN k.writes : k.writes[n].of = k.writes[m].of => n = m
      <4>1. CASE m \in DOMAIN j.writes
        BY <2>2, <3>1, <3>3, <3>4, <4>1
      <4>2. CASE m = Len(j.writes) + 1
        BY <2>2, <2>3, <3>1, <3>4, <4>2
      <4> QED BY <3>1, <4>1, <4>2
    <3>6. k.todo = j.todo \ {i} /\ k.op = j.op /\ k.source = j.source /\ k.step = "chosen"
      BY <2>4, <2>8
    <3>7. journal' = journal
      BY <2>1 DEF rows
    <3>8. \A x \in Entry : TakesBack(x, journal) => TakesBack(x, journal')
      BY <3>7 DEF TakesBack
    <3>9. \A m \in DOMAIN k.writes : k.writes[m] \in Entry
      BY <2>8, EntriesAreFinite DEF Job
    <3>10. \A m \in DOMAIN k.writes : TakesBack(k.writes[m], journal')
      BY <3>5, <3>8, <3>9
    <3>11. ASSUME k.op = "correct"
           PROVE  /\ k.source \in Payments /\ lock'[SourceKey(k.source)] = s
                  /\ Live(k.source, journal) \subseteq k.todo \cup back2
      <4> HIDE DEF back, back2
      <4>1. /\ j.source \in Payments /\ lock[SourceKey(j.source)] = s
            /\ Live(j.source, journal) \subseteq j.todo \cup back
        BY <3>3, <3>6, <3>11
      <4>2. lock'[SourceKey(j.source)] = s
        BY <2>8, <4>1, LockableRows DEF Sources
      <4>3. j.todo \cup back \subseteq k.todo \cup back2
        BY <3>2, <3>6
      <4> QED BY <3>6, <4>1, <4>2, <4>3
    <3>12. back2 \cap k.todo = {} /\ k.todo \subseteq DOMAIN journal
           /\ \A m \in k.todo : journal[m].kind = "payment_allocation"
      BY <3>2, <3>3, <3>6
    <3>13. \A m \in DOMAIN k.writes :
             /\ TakesBack(k.writes[m], journal') /\ ~Reversed(k.writes[m].of, journal')
             /\ \A n \in DOMAIN k.writes : k.writes[n].of = k.writes[m].of => n = m
      BY <3>5, <3>7, <3>10
    <3>14. /\ k.todo \subseteq DOMAIN journal' /\ back2 \cap k.todo = {}
           /\ \A m \in k.todo : journal'[m].kind = "payment_allocation"
      BY <3>7, <3>12
    <3>15. job'[s] = k /\ (k.step = "written" => k.todo = {})
      BY <2>8, <3>6
    <3> QED BY <3>7, <3>11, <3>13, <3>14, <3>15 DEF TakesEachBackOnce
  <2>12. Holds(s)'
    BY <2>8, <2>9, <2>10, <2>11 DEF Holds
  <2> QED BY <2>1, <2>8, <2>12, JobStep
<1> QED BY <1>6, <1>7

\* All that was to be taken back is.
LEMMA AllReversedKeeps ==
  ASSUME Parameters, Discipline, NEW s \in Sessions, AllReversed(s)
  PROVE  Discipline'
<1> DEFINE j == job[s]
           k == [j EXCEPT !.step = "written"]
<1>1. /\ j \in Job /\ Holds(s)
  BY SessionFacts
<1>2. /\ j.step = "chosen" /\ j.todo = {} /\ job' = [job EXCEPT ![s] = k] /\ UNCHANGED <<rows, lock>>
  BY DEF AllReversed, Becomes
<1>3. /\ k \in Job /\ k.step = "written" /\ k.op = j.op /\ k.source = j.source /\ k.todo = {}
      /\ k.writes = j.writes /\ k.status = j.status /\ k.sends = j.sends /\ k.bill = j.bill /\ k.amount = j.amount
  BY <1>1, <1>2 DEF Job
<1>4. j.op \in TakingBack
  BY <1>1, <1>2 DEF Holds, WritesItsKind
<1> HIDE DEF k
<1>5. job'[s] = k /\ UNCHANGED <<journal, source, disputed, reminder, contacts>> /\ UNCHANGED rows
  BY <1>2 DEF rows, Discipline
<1>6. WritesItsKind(s)' /\ TakesWithin(s)'
  BY <1>3, <1>4, <1>5 DEF WritesItsKind, TakesWithin, Taking, TakingBack
<1>7. WritesUnderBill(s)'
  BY <1>1, <1>2, <1>3, <1>5 DEF Holds, WritesUnderBill
<1>8. TakesEachBackOnce(s)'
  <2>1. TakesEachBackOnce(s)
    BY <1>1 DEF Holds
  <2>2. \A x : TakesBack(x, journal) => TakesBack(x, journal')
    BY <1>5 DEF TakesBack
  <2> QED BY <1>2, <1>3, <1>4, <1>5, <2>1, <2>2 DEF TakesEachBackOnce
<1>9. RemindsUnderLock(s)'
  <2>1. j.sends = FALSE
    BY <1>1, <1>2 DEF Holds, RemindsUnderLock, Job
  <2> QED BY <1>1, <1>2, <1>3, <1>5, <2>1 DEF Holds, RemindsUnderLock
<1>10. DisputesInTurn(s)'
  BY <1>1, <1>2, <1>3, <1>4, <1>5 DEF Holds, DisputesInTurn, TakingBack
<1>11. Holds(s)'
  BY <1>6, <1>7, <1>8, <1>9, <1>10 DEF Holds
<1>12. lock' \in [Lockables -> Sessions \cup {None}]
  BY <1>2 DEF Discipline, TypeOK
<1> QED BY <1>2, <1>3, <1>5, <1>11, <1>12, JobStep

\* A bill is written off, as far as it is outstanding.
LEMMA WriteOffKeeps ==
  ASSUME Parameters, Discipline, NEW s \in Sessions, NEW b \in Bills, NEW n \in Amounts, WriteOff(s, b, n)
  PROVE  Discipline'
<1> DEFINE i == [NoJob EXCEPT !.op = "write_off"]
           e == EntryOf(b, "write_off", -n, None, 0)
           step == "written"
<1>1. /\ i.op = "write_off" /\ i.writes = << >> /\ i.status = NoChange /\ i.sends = FALSE /\ i.todo = {}
      /\ NoJob.writes = << >> /\ NoJob.status = NoChange /\ NoJob.op = "none"
  BY DEF NoJob
<1>2. i \in Job
  BY NoJobIsJob DEF Job
<1>3. /\ e.bill = b /\ e.kind = "write_off" /\ e.amount = -n /\ e.source = None /\ e.of = 0
      /\ n \in Nat /\ n # 0
  BY DEF EntryOf, Parameters, AmountAssumption
<1>4. e \in Entry /\ Means(e)
  <2>1. e \in Entry
    BY <1>3 DEF EntryOf, Entry, Kinds
  <2> QED BY <1>3, <2>1 DEF Means, Taking
<1>5. job[s] = NoJob
  BY IdleIsNoJob DEF WriteOff, Starts
<1>6. /\ BillFree(s, e.bill) /\ UNCHANGED rows /\ Enters(s, i, e, step, {BillRow(e.bill)})
      /\ n <= Outstanding(b, journal)
  BY <1>3 DEF WriteOff
<1>7. Outstanding(e.bill, journal) + Moved(e.bill, job[s].writes) + e.amount >= 0
  <2>1. Moved(b, << >>) = 0
    BY MovedNot, NoJobIsJob
  <2>2. Outstanding(b, journal) \in Int
    BY OutstandingType DEF Discipline, JournalMeans
  <2> QED BY <1>1, <1>3, <1>5, <1>6, <2>1, <2>2
<1>8. /\ i.writes = job[s].writes /\ i.status = job[s].status
      /\ i.op \notin {"raise", "resolve"} /\ job[s].op # "raise" /\ step \in {"source", "chosen", "written"}
  BY <1>1, <1>5
<1> HIDE DEF i, e, step
<1>9. PICK k \in Job : EntersAs(s, i, e, step, k)
  BY <1>1, <1>2, <1>4, <1>6, <1>7, <1>8, EntersHolds
<1>10. /\ job' = [job EXCEPT ![s] = k] /\ job'[s] = k
       /\ k.step = "written" /\ k.op = "write_off" /\ k.writes = Append(<< >>, e)
       /\ lock' \in [Lockables -> Sessions \cup {None}]
       /\ \A t \in Sessions : \A y \in Lockables : lock[y] = t => lock'[y] = t
       /\ WritesUnderBill(s)' /\ RemindsUnderLock(s)' /\ DisputesInTurn(s)'
  BY <1>1, <1>5, <1>9 DEF EntersAs, step
<1>11. WritesItsKind(s)'
  <2>1. \A m \in DOMAIN k.writes : k.writes[m].kind = "write_off"
    BY <1>3, <1>10
  <2> QED BY <1>10, <2>1 DEF WritesItsKind
<1>12. TakesWithin(s)' /\ TakesEachBackOnce(s)'
  BY <1>10 DEF TakesWithin, TakesEachBackOnce, Taking, TakingBack
<1>13. Holds(s)'
  BY <1>10, <1>11, <1>12 DEF Holds
<1> QED BY <1>6, <1>10, <1>13, JobStep

\* Interest is charged: the bill owes more.
LEMMA ChargeInterestKeeps ==
  ASSUME Parameters, Discipline, NEW s \in Sessions, NEW b \in Bills, NEW n \in Amounts, ChargeInterest(s, b, n)
  PROVE  Discipline'
<1> DEFINE e == EntryOf(b, "interest_charge", n, None, 0)
           k == [NoJob EXCEPT !.step = "written", !.op = "interest", !.writes = <<e>>]
<1>1. /\ e.bill = b /\ e.kind = "interest_charge" /\ e.amount = n /\ e.source = None /\ e.of = 0
      /\ n \in Nat /\ n # 0
  BY DEF EntryOf, Parameters, AmountAssumption
<1>2. e \in Entry /\ Means(e)
  <2>1. e \in Entry
    BY <1>1 DEF EntryOf, Entry, Kinds
  <2> QED BY <1>1, <2>1 DEF Means, Taking
<1>3. /\ job' = [job EXCEPT ![s] = k] /\ Locks(s, {BillRow(b)}) /\ UNCHANGED rows /\ Mine(s, BillRow(b))
  BY DEF ChargeInterest, Becomes, BillFree
<1> HIDE DEF e
<1>4. /\ k.step = "written" /\ k.op = "interest" /\ k.writes = <<e>> /\ k.status = NoChange /\ k.sends = FALSE
  BY DEF NoJob
<1>5. <<e>> \in Seq(Entry) /\ DOMAIN <<e>> = {1} /\ <<e>>[1] = e
      /\ \A c : Moved(c, <<e>>) = IF e.bill = c THEN e.amount ELSE 0
  <2>1. <<e>> \in Seq(Entry) /\ \A c : Moved(c, <<e>>) = IF e.bill = c THEN e.amount ELSE 0
    BY <1>2, MovedOne
  <2> QED BY <2>1
<1>6. k \in Job
  BY <1>5, NoJobIsJob DEF Job
<1> HIDE DEF k
<1>7. job'[s] = k /\ TypeOK /\ UNCHANGED <<journal, source, disputed, reminder, contacts>>
  BY <1>3 DEF Discipline, rows
<1>8. BillRow(b) \in Lockables
  BY LockableRows
<1>9. /\ lock' \in [Lockables -> Sessions \cup {None}]
      /\ \A t \in Sessions : \A y \in Lockables : lock[y] = t => lock'[y] = t
      /\ lock'[BillRow(b)] = s
  BY <1>3, <1>7, <1>8, LocksKeep
<1>10. WritesUnderBill(s)'
  <2>1. \A m \in DOMAIN <<e>> : Means(<<e>>[m]) /\ lock'[BillRow(<<e>>[m].bill)] = s
    BY <1>1, <1>2, <1>5, <1>9
  <2>2. ASSUME NEW c \in Bills PROVE Outstanding(c, journal) + Moved(c, <<e>>) >= 0
    <3>1. Outstanding(c, journal) \in Int /\ Outstanding(c, journal) >= 0
      BY OutstandingType DEF Discipline, JournalMeans, BillsAddUp, NeverOverpaid
    <3>2. Moved(c, <<e>>) \in Nat
      BY <1>1, <1>5
    <3> QED BY <3>1, <3>2
  <2> QED BY <1>4, <1>7, <2>1, <2>2 DEF WritesUnderBill
<1>11. RemindsUnderLock(s)' /\ DisputesInTurn(s)'
  <2>1. \A c \in Bills : NoChange[c] = None
    BY DEF NoChange
  <2>2. None # "stopped_disputed"
    BY DEF Parameters, NoneAssumption, Statuses, Stops
  <2> QED BY <1>4, <1>7, <2>1, <2>2 DEF RemindsUnderLock, DisputesInTurn
<1>12. WritesItsKind(s)' /\ TakesWithin(s)' /\ TakesEachBackOnce(s)'
  <2>1. \A m \in DOMAIN k.writes : k.writes[m].kind = "interest_charge"
    BY <1>1, <1>4, <1>5
  <2> QED BY <1>4, <1>7, <2>1 DEF WritesItsKind, TakesWithin, TakesEachBackOnce, Taking, TakingBack
<1>13. Holds(s)'
  BY <1>10, <1>11, <1>12 DEF Holds
<1> QED BY <1>3, <1>6, <1>9, <1>13, JobStep

-----------------------------------------------------------------------------
(* Disputes and reminders, which write no entry. *)

\* A job that writes no entry keeps what is asked of those who do.
LEMMA NoEntryHolds ==
  ASSUME Parameters, Discipline, UNCHANGED rows, NEW s \in Sessions, job'[s].writes = << >>,
         job'[s].op \in {"raise", "resolve", "remind", "unpark"},
         job'[s].step \in {"resolving", "listed", "written"},
         job'[s].step = "resolving" => job'[s].op = "resolve",
         job'[s].step = "listed" => job'[s].op \in {"remind", "unpark"},
         job'[s].op \in {"remind", "unpark"} => job'[s].todo \subseteq Bills,
         RemindsUnderLock(s)', DisputesInTurn(s)'
  PROVE  Holds(s)'
<1>1. journal' \in Seq(Entry) /\ NeverOverpaid'
  BY DEF Discipline, JournalMeans, BillsAddUp, NeverOverpaid, rows
<1>2. WritesUnderBill(s)'
  BY <1>1, NoWritesUnderBill
<1>3. WritesItsKind(s)'
  BY DEF WritesItsKind
<1>4. TakesWithin(s)' /\ TakesEachBackOnce(s)'
  BY DEF TakesWithin, TakesEachBackOnce, Taking, TakingBack
<1> QED BY <1>2, <1>3, <1>4 DEF Holds

\* A dispute is raised, under the bill's row, and the reminder's if it was running.
LEMMA RaiseDisputeKeeps ==
  ASSUME Parameters, Discipline, NEW s \in Sessions, NEW b \in Bills, RaiseDispute(s, b)
  PROVE  Discipline'
<1> DEFINE stops == reminder[b].status = "running"
           change == IF stops THEN "stopped_disputed" ELSE None
           k == [NoJob EXCEPT !.step = "written", !.op = "raise", !.bill = b, !.status[b] = change]
           xs == {BillRow(b)} \cup (IF stops THEN {ReminderRow(b)} ELSE {})
<1>1. /\ job' = [job EXCEPT ![s] = k] /\ Locks(s, xs) /\ UNCHANGED rows /\ b \notin disputed
      /\ Mine(s, BillRow(b)) /\ (stops => Mine(s, ReminderRow(b)))
  BY DEF RaiseDispute, Becomes, BillFree
<1>2. /\ k.step = "written" /\ k.op = "raise" /\ k.bill = b /\ k.writes = << >> /\ k.sends = FALSE
      /\ k.status = [NoChange EXCEPT ![b] = change]
  BY DEF NoJob
<1>3. /\ k.status \in [Bills -> Statuses \cup {None}] /\ k.status[b] = change
      /\ \A c \in Bills : c # b => k.status[c] = None
  BY <1>2 DEF NoChange, Statuses, Stops
<1>4. k \in Job
  BY <1>2, <1>3, NoJobIsJob DEF Job, Parameters, BillAssumption
<1> HIDE DEF k
<1>5. job'[s] = k /\ TypeOK /\ UNCHANGED <<journal, source, disputed, reminder, contacts>>
  BY <1>1 DEF Discipline, rows
<1>6. \A y \in xs \cap Lockables : Mine(s, y)
  BY <1>1
<1>7. /\ lock' \in [Lockables -> Sessions \cup {None}]
      /\ \A t \in Sessions : \A y \in Lockables : lock[y] = t => lock'[y] = t
      /\ \A y \in xs \cap Lockables : lock'[y] = s
  <2> HIDE DEF xs
  <2> QED BY <1>1, <1>5, <1>6, LocksKeep
<1>8. lock'[BillRow(b)] = s /\ (stops => lock'[ReminderRow(b)] = s)
  BY <1>7, LockableRows
<1>9. stops => reminder[b].step # LastStep
  BY ReminderFacts
<1>10. RemindsUnderLock(s)'
  BY <1>2, <1>3, <1>5, <1>8, <1>9 DEF RemindsUnderLock
<1>11. DisputesInTurn(s)'
  <2>1. None # "stopped_disputed"
    BY DEF Parameters, NoneAssumption, Statuses, Stops
  <2>2. \A c \in Bills : k.status[c] = "stopped_disputed" => k.bill = c
    BY <1>2, <1>3, <2>1
  <2>3. k.bill \in Bills \ disputed /\ lock'[BillRow(k.bill)] = s /\ k.op = "raise"
    BY <1>1, <1>2, <1>8
  <2>4. job'[s] = k /\ disputed' = disputed
    BY <1>5
  <2> HIDE DEF change, xs, stops
  <2> QED BY <2>2, <2>3, <2>4 DEF DisputesInTurn
<1>12. Holds(s)'
  BY <1>1, <1>2, <1>5, <1>10, <1>11, NoEntryHolds
<1> QED BY <1>1, <1>4, <1>7, <1>12, JobStep

\* A dispute is to be resolved, under its own row; what is outstanding is read.
LEMMA ResolveDisputeKeeps ==
  ASSUME Parameters, Discipline, NEW s \in Sessions, NEW b \in Bills, ResolveDispute(s, b)
  PROVE  Discipline'
<1> DEFINE n == Outstanding(b, journal)
           k == [NoJob EXCEPT !.step = "resolving", !.op = "resolve", !.bill = b, !.amount = n]
<1>1. /\ job' = [job EXCEPT ![s] = k] /\ Locks(s, {DisputeRow(b)}) /\ UNCHANGED rows /\ b \in disputed
      /\ Mine(s, DisputeRow(b))
  BY DEF ResolveDispute, Becomes
<1>2. n \in Int
  BY OutstandingType DEF Discipline, JournalMeans
<1> HIDE DEF n
<1>3. /\ k.step = "resolving" /\ k.op = "resolve" /\ k.bill = b /\ k.writes = << >> /\ k.sends = FALSE
      /\ k.status = NoChange
  BY DEF NoJob
<1>4. k \in Job
  BY <1>2, NoJobIsJob DEF Job, Parameters, BillAssumption
<1> HIDE DEF k
<1>5. job'[s] = k /\ TypeOK /\ UNCHANGED <<journal, source, disputed, reminder, contacts>>
  BY <1>1 DEF Discipline, rows
<1>6. /\ lock' \in [Lockables -> Sessions \cup {None}]
      /\ \A t \in Sessions : \A y \in Lockables : lock[y] = t => lock'[y] = t
      /\ lock'[DisputeRow(b)] = s
  BY <1>1, <1>5, LocksKeep, LockableRows
<1>7. \A c \in Bills : NoChange[c] = None
  BY DEF NoChange
<1>8. RemindsUnderLock(s)' /\ DisputesInTurn(s)'
  <2>1. None # "stopped_disputed"
    BY DEF Parameters, NoneAssumption, Statuses, Stops
  <2> QED BY <1>1, <1>3, <1>5, <1>6, <1>7, <2>1 DEF RemindsUnderLock, DisputesInTurn
<1>9. Holds(s)'
  BY <1>1, <1>3, <1>5, <1>8, NoEntryHolds
<1> QED BY <1>1, <1>4, <1>6, <1>9, JobStep

\* Job k goes on from what session s does, with a change to the reminder of b at most.
ChangesOne(s, b, k, xs) ==
  /\ \A y \in xs \cap Lockables : Mine(s, y)
  /\ k.step = "written" /\ k.op = job[s].op /\ k.op \in {"resolve", "remind", "unpark"} /\ k.writes = << >>
  /\ k.op \in {"remind", "unpark"} => k.todo \subseteq Bills
  /\ \A c \in Bills : c # b => k.status[c] = job[s].status[c]
  /\ k.status[b] # "stopped_disputed"
  /\ k.status[b] # None \/ k.sends => ReminderRow(b) \in xs /\ reminder[b].step # LastStep
  /\ k.sends => k.op = "remind" /\ k.bill = b
  /\ k.op = "resolve" => /\ k.bill = b /\ job[s].bill = b
                         /\ reminder[b].status = "stopped_disputed" => k.status[b] # None

\* A reminder change is prepared for one bill, under its row, by a job without entries.
LEMMA ChangeKeeps ==
  ASSUME Parameters, Discipline, NEW s \in Sessions, NEW b \in Bills, NEW k \in Job, job' = [job EXCEPT ![s] = k],
         UNCHANGED rows, NEW xs, ChangesOne(s, b, k, xs), Locks(s, xs)
  PROVE  Discipline'
<1>0. /\ \A y \in xs \cap Lockables : Mine(s, y)
      /\ k.step = "written" /\ k.op = job[s].op /\ k.op \in {"resolve", "remind", "unpark"} /\ k.writes = << >>
      /\ k.op \in {"remind", "unpark"} => k.todo \subseteq Bills
      /\ \A c \in Bills : c # b => k.status[c] = job[s].status[c]
      /\ k.status[b] # "stopped_disputed"
      /\ k.status[b] # None \/ k.sends => ReminderRow(b) \in xs /\ reminder[b].step # LastStep
      /\ k.sends => k.op = "remind" /\ k.bill = b
      /\ k.op = "resolve" => /\ k.bill = b /\ job[s].bill = b
                             /\ reminder[b].status = "stopped_disputed" => k.status[b] # None
  BY DEF ChangesOne
<1>1. job'[s] = k /\ TypeOK /\ UNCHANGED <<journal, source, disputed, reminder, contacts>>
  BY DEF Discipline, rows
<1>2. /\ lock' \in [Lockables -> Sessions \cup {None}]
      /\ \A t \in Sessions : \A y \in Lockables : lock[y] = t => lock'[y] = t
      /\ \A y \in xs \cap Lockables : lock'[y] = s
  BY <1>0, <1>1, LocksKeep
<1>3. RemindsUnderLock(s) /\ DisputesInTurn(s)
  BY SessionFacts DEF Holds
<1>4. k.status[b] # None \/ k.sends => lock'[ReminderRow(b)] = s
  BY <1>0, <1>2, LockableRows
<1>5. RemindsUnderLock(s)'
  <2>1. ASSUME NEW c \in Bills, k.status[c] # None
        PROVE  lock'[ReminderRow(c)] = s /\ reminder[c].step # LastStep
    <3>1. CASE c = b
      BY <1>0, <1>4, <2>1, <3>1
    <3>2. CASE c # b
      BY <1>0, <1>2, <1>3, <2>1, <3>2, LockableRows DEF RemindsUnderLock
    <3> QED BY <3>1, <3>2
  <2> QED BY <1>0, <1>1, <1>4, <2>1 DEF RemindsUnderLock
<1>6. DisputesInTurn(s)'
  <2>1. \A c \in Bills : k.status[c] # "stopped_disputed"
    BY <1>0, <1>3 DEF DisputesInTurn
  <2>2. ASSUME k.op = "resolve" PROVE b \in disputed /\ lock'[DisputeRow(b)] = s
    BY <1>0, <1>2, <1>3, <2>2, LockableRows DEF DisputesInTurn
  <2> QED BY <1>0, <1>1, <2>1, <2>2 DEF DisputesInTurn
<1>7. Holds(s)'
  BY <1>0, <1>1, <1>5, <1>6, NoEntryHolds
<1> QED BY <1>2, <1>7, JobStep

\* The reminder a dispute stopped is to run again, or is paid meanwhile.
LEMMA ResumeKeeps ==
  ASSUME Parameters, Discipline, NEW s \in Sessions, Resume(s)
  PROVE  Discipline'
<1> DEFINE j == job[s]
           b == j.bill
           stopped == reminder[b].status = "stopped_disputed"
           change == IF stopped THEN StatusResolved(j.amount) ELSE None
           k == [j EXCEPT !.step = "written", !.status[b] = change]
           xs == IF stopped THEN {ReminderRow(b)} ELSE {}
<1>1. /\ j \in Job /\ Holds(s) /\ j.status \in [Bills -> Statuses \cup {None}] /\ j.sends \in BOOLEAN
  BY SessionFacts
<1>2. /\ j.step = "resolving" /\ job' = [job EXCEPT ![s] = k] /\ Locks(s, xs) /\ UNCHANGED rows
      /\ stopped => Mine(s, ReminderRow(b))
  BY DEF Resume, Becomes
<1>3. j.op = "resolve" /\ j.writes = << >> /\ j.sends = FALSE /\ b \in disputed /\ b \in Bills
  BY <1>1, <1>2 DEF Holds, WritesItsKind, RemindsUnderLock, DisputesInTurn, Discipline, TypeOK
<1>4. change \in {"running", "stopped_paid", None} /\ (stopped => change # None) /\ (~stopped => change = None)
  <2>1. None # "running" /\ None # "stopped_paid"
    BY DEF Parameters, NoneAssumption, Statuses, Stops
  <2> QED BY <2>1 DEF StatusResolved
<1>5. /\ k.step = "written" /\ k.op = j.op /\ k.bill = b /\ k.writes = << >> /\ k.sends = FALSE
      /\ k.status = [j.status EXCEPT ![b] = change]
  BY <1>1, <1>3 DEF Job
<1> HIDE DEF change
<1>6. /\ k.status \in [Bills -> Statuses \cup {None}] /\ k.status[b] = change
      /\ \A c \in Bills : c # b => k.status[c] = j.status[c]
  BY <1>1, <1>3, <1>4, <1>5 DEF Statuses, Stops
<1>7. k \in Job
  BY <1>1, <1>5, <1>6 DEF Job
<1>8. stopped => reminder[b].step # LastStep
  BY <1>3, ReminderFacts
<1>9. /\ k.status[b] # "stopped_disputed"
      /\ k.status[b] # None \/ k.sends => ReminderRow(b) \in xs /\ reminder[b].step # LastStep
      /\ stopped => k.status[b] # None
  <2>1. None # "stopped_disputed"
    BY DEF Parameters, NoneAssumption, Statuses, Stops
  <2> QED BY <1>4, <1>5, <1>6, <1>8, <2>1
<1>10. \A y \in xs \cap Lockables : Mine(s, y)
  BY <1>2
<1> HIDE DEF k, xs
<1>11. /\ k.op \in {"resolve", "remind", "unpark"} /\ (k.op \in {"remind", "unpark"} => k.todo \subseteq Bills)
       /\ (k.sends => k.op = "remind" /\ k.bill = b)
       /\ (k.op = "resolve" => /\ k.bill = b /\ job[s].bill = b
                               /\ reminder[b].status = "stopped_disputed" => k.status[b] # None)
  BY <1>3, <1>5, <1>9
<1>12. ChangesOne(s, b, k, xs)
  BY <1>5, <1>6, <1>9, <1>10, <1>3, <1>11 DEF ChangesOne
<1> QED BY <1>2, <1>3, <1>7, <1>12, ChangeKeeps

\* The scheduler lists reminders.
LEMMA ListKeeps ==
  ASSUME Parameters, Discipline, NEW s \in Sessions, NEW op \in {"remind", "unpark"}, NEW bs \in SUBSET Bills,
         List(s, op, bs)
  PROVE  Discipline'
<1> DEFINE k == [NoJob EXCEPT !.step = "listed", !.op = op, !.todo = bs]
<1>1. job' = [job EXCEPT ![s] = k] /\ UNCHANGED <<rows, lock>>
  BY DEF List, Becomes
<1>2. /\ k.step = "listed" /\ k.op = op /\ k.todo = bs /\ k.writes = << >> /\ k.sends = FALSE
      /\ k.status = NoChange
  BY DEF NoJob
<1>3. bs \in SUBSET Nat
  BY DEF Parameters, BillAssumption
<1>4. k \in Job
  BY <1>3, NoJobIsJob DEF Job
<1> HIDE DEF k
<1>5. job'[s] = k /\ lock' \in [Lockables -> Sessions \cup {None}] /\ UNCHANGED rows
  BY <1>1 DEF Discipline, TypeOK
<1>6. WritesUnderBill(s)' /\ RemindsUnderLock(s)' /\ DisputesInTurn(s)'
  BY <1>2, <1>5, BeginHolds
<1>7. Holds(s)'
  BY <1>2, <1>5, <1>6, NoEntryHolds
<1> QED BY <1>1, <1>4, <1>5, <1>7, JobStep

\* The scheduler looks at a listed bill, under its reminder's row.
LEMMA ExamineKeeps ==
  ASSUME Parameters, Discipline, NEW s \in Sessions, NEW b \in Bills, NEW covered \in BOOLEAN, Examine(s, b, covered)
  PROVE  Discipline'
<1> DEFINE j == job[s]
           f == Finding(s, b, covered)
           sends == j.op = "remind" /\ reminder[b].status = "running" /\ f = None
           k == [j EXCEPT !.step = "written", !.bill = b, !.todo = @ \ {b}, !.status[b] = f, !.sends = sends]
<1>1. /\ j \in Job /\ Holds(s) /\ j.status \in [Bills -> Statuses \cup {None}] /\ j.sends \in BOOLEAN
  BY SessionFacts
<1>2. /\ j.step = "listed" /\ Mine(s, ReminderRow(b)) /\ Locks(s, {ReminderRow(b)}) /\ UNCHANGED rows
      /\ job' = [job EXCEPT ![s] = k]
  BY DEF Examine, Becomes
<1>3. j.op \in {"remind", "unpark"} /\ j.todo \subseteq Bills /\ j.writes = << >>
  BY <1>1, <1>2 DEF Holds, WritesItsKind
<1>4. /\ f \in {"stopped_paid", "running", "exhausted", "held_trust_cover", None}
      /\ f # None \/ sends => reminder[b].status \in {"running", "held_trust_cover"}
  BY DEF Finding, StatusResumed
<1>5. f # None \/ sends => reminder[b].step # LastStep
  <2>1. reminder[b].step = LastStep => reminder[b].status = "exhausted"
    BY ReminderFacts
  <2> QED BY <1>4, <2>1
<1> HIDE DEF f
<1>6. /\ k.step = "written" /\ k.op = j.op /\ k.bill = b /\ k.writes = << >> /\ k.todo = j.todo \ {b}
      /\ k.sends = sends /\ k.status = [j.status EXCEPT ![b] = f]
  BY <1>1, <1>3 DEF Job
<1>7. /\ k.status \in [Bills -> Statuses \cup {None}] /\ k.status[b] = f
      /\ \A c \in Bills : c # b => k.status[c] = j.status[c]
  BY <1>1, <1>4, <1>6 DEF Statuses, Stops
<1>8. k \in Job
  <2>1. sends \in BOOLEAN
    OBVIOUS
  <2>2. j.todo \ {b} \in SUBSET Nat
    BY <1>3 DEF Parameters, BillAssumption
  <2>3. b \in Nat
    BY DEF Parameters, BillAssumption
  <2> HIDE DEF sends
  <2> QED BY <1>1, <1>6, <1>7, <2>1, <2>2, <2>3 DEF Job
<1>9. k.status[b] # "stopped_disputed"
  <2>1. None # "stopped_disputed"
    BY DEF Parameters, NoneAssumption, Statuses, Stops
  <2> QED BY <1>4, <1>7, <2>1
<1>10. /\ k.op \in {"resolve", "remind", "unpark"} /\ (k.op \in {"remind", "unpark"} => k.todo \subseteq Bills)
       /\ (k.sends => k.op = "remind" /\ k.bill = b)
       /\ k.op # "resolve"
       /\ (k.status[b] # None \/ k.sends => ReminderRow(b) \in {ReminderRow(b)} /\ reminder[b].step # LastStep)
  BY <1>3, <1>5, <1>6, <1>7
<1>11. \A y \in {ReminderRow(b)} \cap Lockables : Mine(s, y)
  BY <1>2
<1> HIDE DEF k
<1>12. k.op = job[s].op /\ \A c \in Bills : c # b => k.status[c] = job[s].status[c]
  BY <1>6, <1>7
<1> DEFINE xs == {ReminderRow(b)}
<1>13. \A y \in xs \cap Lockables : Mine(s, y)
  BY <1>11
<1>14. Locks(s, xs)
  BY <1>2
<1>15. k.status[b] # None \/ k.sends => ReminderRow(b) \in xs /\ reminder[b].step # LastStep
  BY <1>10
<1> HIDE DEF xs
<1>16. ChangesOne(s, b, k, xs)
  BY <1>6, <1>9, <1>10, <1>12, <1>13, <1>15 DEF ChangesOne
<1> QED BY <1>2, <1>8, <1>14, <1>16, ChangeKeeps

-----------------------------------------------------------------------------
(* A transaction commits: what it wrote, and what of it the journal then says. *)

\* What a session that is to commit has written, entry by entry.
LEMMA WritesMean ==
  ASSUME Parameters, Discipline, NEW s \in Sessions, job[s].step = "written",
         NEW k \in DOMAIN job[s].writes
  PROVE  /\ job[s].writes[k] \in Entry /\ Means(job[s].writes[k])
         /\ lock[BillRow(job[s].writes[k].bill)] = s /\ job[s].writes[k].bill \in Bills
         /\ \/ job[s].writes[k].of = 0
            \/ /\ job[s].op \in TakingBack /\ TakesBack(job[s].writes[k], journal) /\ ~Reversed(job[s].writes[k].of, journal)
               /\ \A m \in DOMAIN job[s].writes : job[s].writes[m].of = job[s].writes[k].of => m = k
<1> DEFINE j == job[s]
           e == j.writes[k]
<1>1. j \in Job /\ Holds(s) /\ j.writes \in Seq(Entry)
  BY SessionFacts
<1>2. e \in Entry
  BY <1>1, EntriesAreFinite
<1>3. Means(e) /\ lock[BillRow(e.bill)] = s
  BY <1>1 DEF Holds, WritesUnderBill
<1>4. e.bill \in Bills
  BY <1>2 DEF Entry
<1>5. CASE j.op \in Taking
  <2>1. e.kind = j.op
    BY <1>1, <1>5 DEF Holds, TakesWithin
  <2>2. e.of = 0
    BY <1>3, <1>5, <2>1 DEF Means, Taking
  <2> QED BY <1>2, <1>3, <1>4, <2>2
<1>6. CASE j.op \in TakingBack
  <2>1. /\ TakesBack(e, journal) /\ ~Reversed(e.of, journal)
        /\ \A m \in DOMAIN j.writes : j.writes[m].of = e.of => m = k
    BY <1>1, <1>6 DEF Holds, TakesEachBackOnce
  <2> QED BY <1>2, <1>3, <1>4, <1>6, <2>1
<1>7. CASE j.op \in {"write_off", "interest"}
  <2>1. e.kind \in {"write_off", "interest_charge"}
    BY <1>1, <1>7 DEF Holds, WritesItsKind
  <2>2. e.of = 0
    BY <1>3, <2>1 DEF Means
  <2> QED BY <1>2, <1>3, <1>4, <2>2
<1>8. CASE j.op \in {"none", "raise", "resolve", "remind", "unpark"}
  <2>1. j.writes = << >>
    BY <1>1, <1>8 DEF Holds, WritesItsKind
  <2> QED BY <2>1
<1>9. j.op \in Taking \cup TakingBack \cup {"none", "write_off", "interest", "raise", "resolve", "remind", "unpark"}
  BY <1>1 DEF Job
<1> QED BY <1>5, <1>6, <1>7, <1>8, <1>9

\* The names the journal and the new entries use are of entries there.
LEMMA NamesHold ==
  ASSUME Parameters, Discipline, NEW s \in Sessions, job[s].step = "written"
  PROVE  /\ journal \in Seq(Entry) /\ job[s].writes \in Seq(Entry)
         /\ \A i \in DOMAIN journal : Means(journal[i])
         /\ NamesOf(journal, journal) /\ NamesOf(journal, job[s].writes)
<1>1. JournalMeans /\ journal \in Seq(Entry) /\ job[s].writes \in Seq(Entry)
  BY SessionFacts DEF Discipline, JournalMeans
<1>2. \A i \in DOMAIN journal : Means(journal[i])
  BY <1>1 DEF JournalMeans
<1>3. NamesOf(journal, journal)
  <2>1. \A i \in DOMAIN journal : journal[i].of = 0 \/ journal[i].of \in DOMAIN journal
    BY <1>1 DEF JournalMeans, TakesBack
  <2> QED BY <2>1 DEF NamesOf
<1>4. NamesOf(journal, job[s].writes)
  <2>1. \A k \in DOMAIN job[s].writes : job[s].writes[k].of = 0 \/ job[s].writes[k].of \in DOMAIN journal
    BY WritesMean DEF TakesBack
  <2> QED BY <2>1 DEF NamesOf
<1> QED BY <1>1, <1>2, <1>3, <1>4

\* The session takes from its source only; every other source has nothing new taken.
LEMMA FreshHolds ==
  ASSUME Parameters, Discipline, NEW s \in Sessions, job[s].step = "written", NEW x \in Sources,
         ~(job[s].op \in Taking /\ job[s].source = x)
  PROVE  Fresh(x, job[s].writes) = {} /\ Adds(x, job[s].writes) = 0
<1> DEFINE j == job[s]
<1>1. ASSUME NEW k \in DOMAIN j.writes PROVE j.writes[k].source # x \/ j.writes[k].kind = "reversal"
  <2>1. Holds(s) /\ j \in Job
    BY SessionFacts
  <2>2. Means(j.writes[k]) /\ x # None
    BY WritesMean DEF Parameters, NoneAssumption
  <2>3. CASE j.op \in Taking
    <3>1. j.writes[k].source = j.source
      BY <2>1, <2>3 DEF Holds, TakesWithin
    <3> QED BY <2>3, <3>1
  <2>4. CASE j.op \in TakingBack
    BY <2>1, <2>4 DEF Holds, TakesEachBackOnce, TakesBack
  <2>5. CASE j.op \in {"write_off", "interest"}
    <3>1. j.writes[k].kind \in {"write_off", "interest_charge"}
      BY <2>1, <2>5 DEF Holds, WritesItsKind
    <3> QED BY <2>2, <3>1 DEF Means
  <2>6. CASE j.op \in {"none", "raise", "resolve", "remind", "unpark"}
    <3>1. j.writes = << >>
      BY <2>1, <2>6 DEF Holds, WritesItsKind
    <3> QED BY <3>1
  <2>7. j.op \in Taking \cup TakingBack \cup {"none", "write_off", "interest", "raise", "resolve", "remind", "unpark"}
    BY <2>1 DEF Job
  <2> QED BY <2>3, <2>4, <2>5, <2>6, <2>7
<1>2. Fresh(x, j.writes) = {}
  BY <1>1 DEF Fresh
<1> QED BY <1>1, <1>2, AddsNothing

\* No payment and no note is used beyond its amount when the session commits.
LEMMA CommitUsed ==
  ASSUME Parameters, Discipline, NEW s \in Sessions, job[s].step = "written", NEW x \in Sources
  PROVE  /\ Used(x, journal \o job[s].writes) \in Int /\ Used(x, journal \o job[s].writes) <= Worth[x]
         /\ ~(job[s].op \in Taking /\ job[s].source = x) =>
              /\ Used(x, journal \o job[s].writes) <= Used(x, journal)
              /\ Live(x, journal \o job[s].writes) = Live(x, journal) \ Back(job[s].writes)
<1> DEFINE j == job[s]
           w == job[s].writes
           J == journal \o w
<1>1. /\ journal \in Seq(Entry) /\ w \in Seq(Entry) /\ \A i \in DOMAIN journal : Means(journal[i])
      /\ NamesOf(journal, journal) /\ NamesOf(journal, w)
  BY NamesHold
<1>2. /\ Used(x, journal) \in Nat /\ Used(x, J) \in Int /\ Adds(x, w) \in Int
      /\ Used(x, J) <= Used(x, journal) + Adds(x, w)
  BY <1>1, UsedJoined
<1>3. Worth[x] \in Nat /\ Used(x, journal) <= Worth[x]
  BY DEF Parameters, AmountAssumption, Discipline, BillsAddUp, NeverOverpaid
<1>4. CASE ~(j.op \in Taking /\ j.source = x)
  <2>1. Fresh(x, w) = {} /\ Adds(x, w) = 0
    BY <1>4, FreshHolds
  <2>2. Live(x, J) = (Live(x, journal) \ Back(w)) \cup {k + Len(journal) : k \in Fresh(x, w)}
    BY <1>1, LiveJoined
  <2>3. Live(x, J) = Live(x, journal) \ Back(w)
    BY <2>1, <2>2
  <2> QED BY <1>2, <1>3, <2>1, <2>3
<1>5. CASE j.op \in Taking /\ j.source = x
  <2>1. TakesWithin(s)
    BY SessionFacts DEF Holds
  <2>2. /\ j.amount \in Amounts /\ IsFiniteSet(j.todo)
        /\ \A k \in DOMAIN w : w[k].kind = j.op /\ w[k].amount = -j.amount /\ w[k].source = x
        /\ Used(x, journal) + j.amount * (Cardinality(j.todo) + Len(w)) <= Worth[x]
    BY <1>5, <2>1 DEF TakesWithin
  <2>3. j.amount \in Nat /\ Cardinality(j.todo) \in Nat /\ Len(w) \in Nat
    <3>1. Len(w) \in Nat
      BY <1>1, EntriesAreFinite
    <3>2. Cardinality(j.todo) \in Nat
      BY <2>2, FS_CardinalityType
    <3> QED BY <2>2, <3>1, <3>2 DEF Parameters, AmountAssumption
  <2>4. Adds(x, w) = j.amount * Len(w)
    <3>1. \A k \in DOMAIN w : w[k].source = x /\ w[k].kind # "reversal" /\ w[k].amount = -j.amount
      BY <1>5, <2>2 DEF Taking
    <3> HIDE DEF w, j
    <3> QED BY <1>1, <2>3, <3>1, AddsEach
  <2>5. j.amount * Len(w) <= j.amount * (Cardinality(j.todo) + Len(w))
    <3>1. ASSUME NEW a \in Nat, NEW c \in Nat, NEW l \in Nat PROVE a * l <= a * (c + l)
      <4>1. a * (c + l) = a * c + a * l /\ a * c \in Nat /\ a * l \in Nat
        OBVIOUS
      <4> QED BY <4>1
    <3> HIDE DEF w, j
    <3> QED BY <2>3, <3>1
  <2>6. j.amount * Len(w) \in Int /\ j.amount * (Cardinality(j.todo) + Len(w)) \in Int
    <3> HIDE DEF w, j
    <3> QED BY <2>3
  <2> DEFINE p == j.amount * Len(w)
             q == j.amount * (Cardinality(j.todo) + Len(w))
  <2>7. p \in Int /\ q \in Int /\ p <= q /\ Used(x, journal) + q <= Worth[x] /\ Used(x, J) <= Used(x, journal) + p
    BY <1>2, <2>2, <2>4, <2>5, <2>6
  <2> HIDE DEF p, q
  <2>8. Used(x, J) <= Worth[x]
    BY <1>2, <1>3, <2>7
  <2> QED BY <1>2, <1>5, <2>8
<1> QED BY <1>4, <1>5

\* What a commit does, and what the rows are afterwards.
LEMMA CommitParts ==
  ASSUME Parameters, Discipline, NEW s \in Sessions, Commit(s)
  PROVE  /\ job[s].step = "written" /\ journal' = journal \o job[s].writes /\ journal' \in Seq(Entry)
         /\ \A x \in Sources :
              source'[x] = IF job[s].op = "correct" /\ x = job[s].source THEN "corrected"
                           ELSE IF job[s].op = "payment_allocation" /\ x = job[s].source THEN "live" ELSE source[x]
         /\ source' \in [Sources -> {"none", "live", "corrected"}]
         /\ \A b : b \in disputed' <=> IF b = job[s].bill /\ job[s].op = "raise" THEN TRUE
                                       ELSE IF b = job[s].bill /\ job[s].op = "resolve" THEN FALSE ELSE b \in disputed
         /\ disputed' \subseteq Bills
<1> DEFINE j == job[s]
<1>1. /\ j.step = "written" /\ journal' = journal \o j.writes
      /\ source' = CASE j.op = "correct" -> [source EXCEPT ![j.source] = "corrected"]
                     [] j.op = "payment_allocation" -> [source EXCEPT ![j.source] = "live"]
                     [] OTHER -> source
      /\ disputed' = CASE j.op = "raise" -> disputed \cup {j.bill}
                       [] j.op = "resolve" -> disputed \ {j.bill}
                       [] OTHER -> disputed
  BY DEF Commit
<1>2. /\ source \in [Sources -> {"none", "live", "corrected"}] /\ disputed \subseteq Bills
      /\ journal \in Seq(Entry) /\ j.writes \in Seq(Entry) /\ Holds(s) /\ j \in Job
  BY SessionFacts DEF Discipline, TypeOK, JournalMeans
<1>3. journal' \in Seq(Entry)
  BY <1>1, <1>2, Joined
<1>4. j.op = "raise" => j.bill \in Bills
  BY <1>2 DEF Holds, DisputesInTurn
<1>5. /\ source' \in [Sources -> {"none", "live", "corrected"}]
      /\ \A x \in Sources :
           source'[x] = IF j.op = "correct" /\ x = j.source THEN "corrected"
                        ELSE IF j.op = "payment_allocation" /\ x = j.source THEN "live" ELSE source[x]
  <2>1. CASE j.op = "correct"
    <3>1. source' = [source EXCEPT ![j.source] = "corrected"]
      BY <1>1, <2>1
    <3> QED BY <1>2, <2>1, <3>1
  <2>2. CASE j.op = "payment_allocation"
    <3>1. source' = [source EXCEPT ![j.source] = "live"]
      BY <1>1, <2>2
    <3> QED BY <1>2, <2>2, <3>1
  <2>3. CASE j.op # "correct" /\ j.op # "payment_allocation"
    <3>1. source' = source
      BY <1>1, <2>3
    <3> QED BY <1>2, <2>3, <3>1
  <2> QED BY <2>1, <2>2, <2>3
<1>6. /\ disputed' \subseteq Bills
      /\ \A b : b \in disputed' <=> IF b = j.bill /\ j.op = "raise" THEN TRUE
                                    ELSE IF b = j.bill /\ j.op = "resolve" THEN FALSE ELSE b \in disputed
  BY <1>1, <1>2, <1>4
<1> QED BY <1>1, <1>3, <1>5, <1>6

\* No bill is overpaid by a commit, and a corrected payment is used for nothing.
LEMMA CommitNeverOverpaid ==
  ASSUME Parameters, Discipline, NEW s \in Sessions, Commit(s)
  PROVE  NeverOverpaid'
<1> DEFINE j == job[s]
           w == job[s].writes
<1>1. /\ j.step = "written" /\ journal' = journal \o w
      /\ \A x \in Sources :
           source'[x] = IF j.op = "correct" /\ x = j.source THEN "corrected"
                        ELSE IF j.op = "payment_allocation" /\ x = j.source THEN "live" ELSE source[x]
  BY CommitParts
<1>2. j \in Job /\ Holds(s) /\ w \in Seq(Entry) /\ journal \in Seq(Entry) /\ NeverOverpaid
  BY SessionFacts DEF Discipline, JournalMeans, BillsAddUp
<1>3. ASSUME NEW b \in Bills PROVE Outstanding(b, journal') >= 0
  <2>1. Moved(b, journal) \in Int /\ Moved(b, w) \in Int /\ Moved(b, journal \o w) = Moved(b, journal) + Moved(b, w)
    BY <1>2, MovedJoined
  <2>2. Outstanding(b, journal) + Moved(b, w) >= 0
    BY <1>2 DEF Holds, WritesUnderBill
  <2>3. Total[b] \in Int
    BY DEF Parameters, BillAssumption
  <2> QED BY <1>1, <2>1, <2>2, <2>3 DEF Outstanding
<1>4. \A x \in Sources : Used(x, journal') <= Worth[x]
  BY <1>1, CommitUsed
<1>5. ASSUME NEW x \in Payments, source'[x] = "corrected" PROVE Live(x, journal') = {}
  <2>0. x \in Sources
    BY DEF Sources
  <2>1. CASE j.op = "correct" /\ x = j.source
    <3>1. Live(x, journal') = Live(x, journal) \ Back(w)
      BY <1>1, <2>0, <2>1, CommitUsed DEF Taking
    <3>2. Live(x, journal) \subseteq j.todo \cup Back(w) /\ j.todo = {}
      BY <1>1, <1>2, <2>1 DEF Holds, TakesEachBackOnce, TakingBack, Back
    <3> QED BY <3>1, <3>2
  <2>2. CASE ~(j.op = "correct" /\ x = j.source)
    <3>1. source[x] = "corrected" /\ ~(j.op = "payment_allocation" /\ x = j.source)
      BY <1>1, <1>5, <2>0, <2>2
    <3>2. ~(j.op = "credit_application" /\ x = j.source)
      BY <1>2 DEF Holds, TakesWithin, Taking, Parameters, NoneAssumption
    <3>3. Live(x, journal') = Live(x, journal) \ Back(w)
      BY <1>1, <2>0, <3>1, <3>2, CommitUsed DEF Taking
    <3>4. Live(x, journal) = {}
      BY <1>2, <3>1 DEF NeverOverpaid
    <3> QED BY <3>3, <3>4
  <2> QED BY <2>1, <2>2
<1> QED BY <1>3, <1>4, <1>5 DEF NeverOverpaid

\* Each entry of the journal says what it means, and what is taken back is taken back once.
LEMMA CommitJournal ==
  ASSUME Parameters, Discipline, NEW s \in Sessions, Commit(s)
  PROVE  JournalMeans' /\ ReversedOnce'
<1> DEFINE w == job[s].writes
           N == Len(journal)
<1>1. job[s].step = "written" /\ journal' = journal \o w /\ journal' \in Seq(Entry)
  BY CommitParts
<1>2. JournalMeans /\ ReversedOnce /\ w \in Seq(Entry) /\ journal \in Seq(Entry)
  BY SessionFacts DEF Discipline, JournalMeans, BillsAddUp
<1>3. DOMAIN journal = 1..N /\ N \in Nat /\ DOMAIN w = 1..Len(w) /\ Len(w) \in Nat
  BY <1>2, EntriesAreFinite
<1>4. /\ \A i \in DOMAIN journal : i \in DOMAIN journal' /\ journal'[i] = journal[i]
      /\ \A i \in DOMAIN journal' : i \in DOMAIN journal \/ \E k \in DOMAIN w : i = N + k
  <2>1. /\ \A i \in DOMAIN journal : i \in DOMAIN (journal \o w) /\ (journal \o w)[i] = journal[i]
        /\ \A i \in DOMAIN (journal \o w) : i \in DOMAIN journal \/ \E k \in DOMAIN w : i = N + k
    <3> HIDE DEF w
    <3> QED BY <1>2, Joined
  <2> QED BY <1>1, <2>1
<1>5. \A k \in DOMAIN w : N + k \in DOMAIN journal' /\ journal'[N + k] = w[k]
  <2>1. \A k \in DOMAIN w : N + k \in DOMAIN (journal \o w) /\ (journal \o w)[N + k] = w[k]
    <3> HIDE DEF w
    <3> QED BY <1>2, Joined
  <2> QED BY <1>1, <2>1
<1>6. \A k \in DOMAIN w :
        /\ Means(w[k])
        /\ w[k].of = 0 \/ /\ TakesBack(w[k], journal) /\ ~Reversed(w[k].of, journal)
                          /\ \A m \in DOMAIN w : w[m].of = w[k].of => m = k
  BY <1>1, WritesMean
<1>7. \A i \in DOMAIN journal : Means(journal[i]) /\ (journal[i].of # 0 => journal[i].of < i /\ TakesBack(journal[i], journal))
  BY <1>2 DEF JournalMeans
<1>8. \A e : TakesBack(e, journal) => TakesBack(e, journal')
  BY <1>4 DEF TakesBack
<1> HIDE DEF w, N
<1>9. ASSUME NEW i \in DOMAIN journal'
      PROVE  Means(journal'[i]) /\ (journal'[i].of # 0 => journal'[i].of < i /\ TakesBack(journal'[i], journal'))
  <2>1. CASE i \in DOMAIN journal
    BY <1>4, <1>7, <1>8, <2>1
  <2>2. CASE i \notin DOMAIN journal
    <3>1. PICK k \in DOMAIN w : i = N + k
      BY <1>4, <2>2
    <3>2. journal'[i] = w[k]
      BY <1>5, <3>1
    <3>3. ASSUME w[k].of # 0 PROVE w[k].of < i /\ TakesBack(w[k], journal')
      <4>1. TakesBack(w[k], journal) /\ w[k].of \in DOMAIN journal
        BY <1>6, <3>3 DEF TakesBack
      <4>2. w[k].of \in 1..N /\ k \in 1..Len(w)
        BY <1>3, <4>1
      <4>3. w[k].of < i
        BY <1>3, <3>1, <4>2
      <4> QED BY <1>8, <4>1, <4>3
    <3> QED BY <1>6, <3>2, <3>3
  <2> QED BY <2>1, <2>2
<1>10. JournalMeans'
  BY <1>1, <1>9 DEF JournalMeans
<1>11. ASSUME NEW i \in DOMAIN journal', NEW k \in DOMAIN journal', journal'[k].of = i
       PROVE  /\ i < k /\ journal'[k].amount = -journal'[i].amount
              /\ journal'[k].bill = journal'[i].bill /\ journal'[k].source = journal'[i].source
              /\ \A m \in DOMAIN journal' : journal'[m].of = i => m = k
  <2>1. i # 0 /\ journal'[k].of # 0
    <3>1. DOMAIN journal' = 1..Len(journal')
      BY <1>1, EntriesAreFinite
    <3> QED BY <1>11, <3>1
  <2>2. /\ i < k /\ i \in DOMAIN journal' /\ journal'[k].amount = -journal'[i].amount
        /\ journal'[k].bill = journal'[i].bill /\ journal'[k].source = journal'[i].source
    BY <1>9, <1>11, <2>1 DEF TakesBack
  <2>3. ASSUME NEW m \in DOMAIN journal', journal'[m].of = i PROVE m = k
    <3>1. CASE k \in DOMAIN journal /\ m \in DOMAIN journal
      <4>1. journal[k].of = i /\ journal[m].of = i
        BY <1>4, <1>11, <2>3, <3>1
      <4>2. i \in DOMAIN journal
        BY <1>7, <2>1, <3>1, <4>1 DEF TakesBack
      <4> QED BY <1>2, <3>1, <4>1, <4>2 DEF ReversedOnce
    <3>2. CASE k \in DOMAIN journal /\ m \notin DOMAIN journal
      <4>1. PICK n \in DOMAIN w : m = N + n
        BY <1>4, <3>2
      <4>2. w[n].of = i /\ journal[k].of = i
        BY <1>4, <1>5, <1>11, <2>3, <3>2, <4>1
      <4> QED BY <1>6, <2>1, <3>2, <4>2 DEF Reversed
    <3>3. CASE k \notin DOMAIN journal /\ m \in DOMAIN journal
      <4>1. PICK n \in DOMAIN w : k = N + n
        BY <1>4, <3>3
      <4>2. w[n].of = i /\ journal[m].of = i
        BY <1>4, <1>5, <1>11, <2>3, <3>3, <4>1
      <4> QED BY <1>6, <2>1, <3>3, <4>2 DEF Reversed
    <3>4. CASE k \notin DOMAIN journal /\ m \notin DOMAIN journal
      <4>1. PICK n \in DOMAIN w : k = N + n
        BY <1>4, <3>4
      <4>2. PICK l \in DOMAIN w : m = N + l
        BY <1>4, <3>4
      <4>3. w[n].of = i /\ w[l].of = i
        BY <1>5, <1>11, <2>3, <4>1, <4>2
      <4>4. l = n
        BY <1>6, <2>1, <4>3
      <4> QED BY <4>1, <4>2, <4>4
    <3> QED BY <3>1, <3>2, <3>3, <3>4
  <2> QED BY <2>2, <2>3
<1>12. ReversedOnce'
  BY <1>11 DEF ReversedOnce
<1> QED BY <1>10, <1>12

\* A contact more is the next one.
LEMMA InOrderMore ==
  ASSUME NEW c, NEW l \in Nat, c = [i \in 1..l |-> i]
  PROVE  /\ Len(c) = l /\ Append(c, l + 1) = [i \in 1..(l + 1) |-> i] /\ Len(Append(c, l + 1)) = l + 1
         /\ {c[i] : i \in DOMAIN c} = 1..l
<1>1. c \in Seq(Int) /\ Len(c) = l /\ DOMAIN c = 1..l
  OBVIOUS
<1>2. Len(Append(c, l + 1)) = l + 1 /\ DOMAIN Append(c, l + 1) = 1..(l + 1)
  BY <1>1
<1>3. \A i \in 1..(l + 1) : Append(c, l + 1)[i] = i
  BY <1>1
<1>4. Append(c, l + 1) \in [1..(l + 1) -> Int]
  <2>1. Append(c, l + 1) \in Seq(Int)
    BY <1>1
  <2>2. \A q \in Seq(Int) : q \in [1..Len(q) -> Int]
    OBVIOUS
  <2> QED BY <1>2, <2>1, <2>2
<1> DEFINE d == [i \in 1..(l + 1) |-> i]
<1>5. d \in [1..(l + 1) -> Int] /\ \A i \in 1..(l + 1) : d[i] = i
  OBVIOUS
<1>6. Append(c, l + 1) = d
  <2> HIDE DEF d
  <2> QED BY <1>3, <1>4, <1>5
<1>7. {c[i] : i \in DOMAIN c} = 1..l
  BY <1>1
<1> QED BY <1>1, <1>2, <1>6, <1>7

\* The reminders and contacts a commit leaves.
LEMMA CommitReminders ==
  ASSUME Parameters, Discipline, NEW s \in Sessions, Commit(s), NEW b \in Bills
  PROVE  /\ reminder'[b] \in [status : Statuses, step : 0..LastStep, due : BOOLEAN]
         /\ reminder'[b].step = LastStep => reminder'[b].status = "exhausted"
         /\ reminder'[b].step <= Len(contacts'[b])
         /\ contacts'[b] \in Seq(1..LastStep) /\ contacts'[b] = [i \in 1..Len(contacts'[b]) |-> i]
         /\ reminder'[b].step # reminder[b].step => lock[ReminderRow(b)] = s
         /\ reminder'[b].status = "stopped_disputed" =>
              \/ job[s].op = "raise" /\ job[s].bill = b
              \/ reminder[b].status = "stopped_disputed" /\ ~(job[s].op = "resolve" /\ job[s].bill = b)
<1> DEFINE j == job[s]
           sent == j.sends /\ j.bill = b
           n == reminder[b].step + 1
           r == ReminderAfter(s, b)
           c == contacts[b]
           l == Len(c)
<1>1. /\ j.step = "written" /\ reminder'[b] = r
      /\ contacts' = IF j.sends /\ ~Contacted(j.bill, NextStep(j.bill))
                     THEN [contacts EXCEPT ![j.bill] = Append(@, NextStep(j.bill))]
                     ELSE contacts
  BY DEF Commit
<1>2. /\ j \in Job /\ Holds(s) /\ j.status \in [Bills -> Statuses \cup {None}] /\ j.sends \in BOOLEAN
      /\ DOMAIN contacts = Bills /\ StepsInOrder
  BY SessionFacts DEF Discipline, ChasedInOrder
<1>3. /\ reminder[b].step \in 0..LastStep /\ reminder[b].status \in Statuses /\ reminder[b].due \in BOOLEAN
      /\ reminder[b].step = LastStep => reminder[b].status = "exhausted"
      /\ reminder[b].step <= l /\ l \in Nat /\ c \in Seq(1..LastStep)
  BY ReminderFacts
<1>4. /\ r.step = IF sent THEN n ELSE reminder[b].step
      /\ r.status = IF sent /\ n = LastStep THEN "exhausted"
                    ELSE IF j.status[b] = None THEN reminder[b].status ELSE j.status[b]
      /\ r = [status |-> r.status, step |-> r.step, due |-> r.due] /\ r.due \in BOOLEAN
  BY DEF ReminderAfter, NextStep, Exhausts
<1>5. LastStep \in Nat /\ LastStep # 0
  BY DEF Parameters, AmountAssumption
<1>6. sent => lock[ReminderRow(b)] = s /\ reminder[b].step # LastStep
  BY <1>2 DEF Holds, RemindsUnderLock
<1>7. j.status[b] # None => reminder[b].step # LastStep
  BY <1>2 DEF Holds, RemindsUnderLock
<1> HIDE DEF r, sent
<1>8. /\ r.step \in 0..LastStep /\ (r.step = LastStep => r.status = "exhausted")
      /\ r.step # reminder[b].step => sent
  BY <1>3, <1>4, <1>5, <1>6, <1>7
<1>9. r.status \in Statuses
  BY <1>2, <1>3, <1>4 DEF Statuses, Stops
<1>10. r \in [status : Statuses, step : 0..LastStep, due : BOOLEAN]
  BY <1>4, <1>8, <1>9
<1>11. c = [i \in 1..l |-> i]
  BY <1>2 DEF StepsInOrder
<1>12. /\ contacts'[b] \in Seq(1..LastStep) /\ contacts'[b] = [i \in 1..Len(contacts'[b]) |-> i]
       /\ r.step <= Len(contacts'[b])
  <2>1. {c[i] : i \in DOMAIN c} = 1..l /\ Append(c, l + 1) = [i \in 1..(l + 1) |-> i] /\ Len(Append(c, l + 1)) = l + 1
    <3> HIDE DEF l, c
    <3> QED BY <1>3, <1>11, InOrderMore
  <2>2. CASE sent
    <3>1. Contacted(j.bill, NextStep(j.bill)) <=> n \in 1..l
      BY <2>1, <2>2 DEF Contacted, NextStep, sent
    <3>2. n \in Nat /\ n <= LastStep /\ n # 0 /\ n <= l + 1 /\ r.step = n
      BY <1>3, <1>4, <1>5, <1>6, <2>2
    <3>3. CASE n \in 1..l
      <4>1. contacts' = contacts
        BY <1>1, <2>2, <3>1, <3>3 DEF sent
      <4>2. n <= l
        BY <1>3, <3>2, <3>3
      <4> QED BY <1>3, <1>11, <3>2, <4>1, <4>2
    <3>4. CASE n \notin 1..l
      <4>1. n = l + 1
        BY <1>3, <3>2, <3>4
      <4>2. contacts' = [contacts EXCEPT ![b] = Append(@, n)]
        BY <1>1, <2>2, <3>1, <3>4 DEF sent, NextStep
      <4>3. contacts'[b] = Append(c, n)
        BY <1>2, <4>2
      <4>4. Append(c, n) \in Seq(1..LastStep)
        <5>1. n \in 1..LastStep
          BY <1>5, <3>2
        <5> HIDE DEF c, n
        <5> QED BY <1>3, <5>1
      <4> QED BY <2>1, <3>2, <4>1, <4>3, <4>4
    <3> QED BY <3>3, <3>4
  <2>3. CASE ~sent
    <3>1. contacts'[b] = c
      <4>1. CASE contacts' = contacts
        BY <4>1
      <4>2. CASE contacts' # contacts
        <5>1. contacts' = [contacts EXCEPT ![j.bill] = Append(@, NextStep(j.bill))] /\ j.bill # b
          BY <1>1, <2>3, <4>2 DEF sent
        <5> QED BY <1>2, <5>1
      <4> QED BY <4>1, <4>2
    <3>2. r.step = reminder[b].step
      BY <1>4, <2>3
    <3> QED BY <1>3, <1>11, <3>1, <3>2
  <2> QED BY <2>2, <2>3
<1>13. ASSUME r.status = "stopped_disputed"
       PROVE  \/ j.op = "raise" /\ j.bill = b
              \/ reminder[b].status = "stopped_disputed" /\ ~(j.op = "resolve" /\ j.bill = b)
  <2>1. DisputesInTurn(s)
    BY <1>2 DEF Holds
  <2>2. r.status = IF j.status[b] = None THEN reminder[b].status ELSE j.status[b]
    BY <1>4, <1>13
  <2>3. CASE j.status[b] # None
    BY <1>13, <2>1, <2>2, <2>3 DEF DisputesInTurn
  <2>4. CASE j.status[b] = None
    BY <1>1, <1>13, <2>1, <2>2, <2>4 DEF DisputesInTurn
  <2> QED BY <2>3, <2>4
<1> QED BY <1>1, <1>6, <1>8, <1>10, <1>12, <1>13

\* A commit counts a step only of the reminder its session has locked.
LEMMA CommitSteps ==
  ASSUME Parameters, Discipline, NEW s \in Sessions, Commit(s), NEW t \in Sessions, t # s, NEW b \in Bills
  PROVE  lock[ReminderRow(b)] = t => reminder'[b].step = reminder[b].step
<1>1. job[s].sends => lock[ReminderRow(job[s].bill)] = s
  <2>1. RemindsUnderLock(s)
    BY SessionFacts DEF Holds
  <2> QED BY <2>1 DEF RemindsUnderLock
<1>2. reminder'[b] = ReminderAfter(s, b)
  BY DEF Commit
<1>3. ~(job[s].sends /\ job[s].bill = b) => ReminderAfter(s, b).step = reminder[b].step
  BY DEF ReminderAfter
<1> QED BY <1>1, <1>2, <1>3

\* What the others hold is left to them by a commit.
LEMMA CommitOthers ==
  ASSUME Parameters, Discipline, NEW s \in Sessions, Commit(s), NEW t \in Sessions, t # s
  PROVE  Holds(t)'
<1> DEFINE j == job[s]
           w == job[s].writes
<1>1. /\ j.step = "written" /\ journal' = journal \o w /\ journal' \in Seq(Entry)
      /\ \A x \in Sources :
           source'[x] = IF j.op = "correct" /\ x = j.source THEN "corrected"
                        ELSE IF j.op = "payment_allocation" /\ x = j.source THEN "live" ELSE source[x]
      /\ \A b : b \in disputed' <=> IF b = j.bill /\ j.op = "raise" THEN TRUE
                                    ELSE IF b = j.bill /\ j.op = "resolve" THEN FALSE ELSE b \in disputed
  BY CommitParts
<1>2. /\ Holds(s) /\ w \in Seq(Entry) /\ journal \in Seq(Entry) /\ TypeOK /\ JournalMeans /\ NeverOverpaid
      /\ t # None /\ s # None
  BY SessionFacts DEF Discipline, JournalMeans, BillsAddUp, Parameters, NoneAssumption
<1>3. job'[t] = job[t]
  <2>1. PICK k : job' = [job EXCEPT ![s] = k]
    BY DEF Commit, Becomes
  <2> QED BY <2>1 DEF Discipline
<1>4. \A x \in Lockables : lock[x] = t => lock'[x] = t
  <2>1. Releases(s)
    BY DEF Commit
  <2> QED BY <1>2, <2>1, ReleasesKeep
<1>5. NeverOverpaid'
  BY CommitNeverOverpaid
<1>6. ASSUME NEW k \in DOMAIN w
      PROVE  /\ lock[BillRow(w[k].bill)] = s
             /\ w[k].of # 0 => TakesBack(w[k], journal)
  BY <1>1, WritesMean
<1>7. BillsKeptFor(t)
  <2>1. ASSUME NEW b \in Bills, lock[BillRow(b)] = t PROVE Outstanding(b, journal') = Outstanding(b, journal)
    <3>1. \A k \in DOMAIN w : w[k].bill # b
      BY <1>6, <2>1
    <3>2. Moved(b, w) = 0
      BY <3>1, MovedNot
    <3>3. Moved(b, journal) \in Int /\ Moved(b, journal \o w) = Moved(b, journal) + Moved(b, w)
      BY <1>2, MovedJoined
    <3>4. Moved(b, journal') = Moved(b, journal)
      BY <1>1, <3>2, <3>3
    <3> QED BY <3>4 DEF Outstanding
  <2> QED BY <1>5, <2>1 DEF BillsKeptFor, NeverOverpaid
<1>8. SourcesKeptFor(t)
  <2>1. ASSUME NEW x \in Sources, lock[SourceKey(x)] = t
        PROVE  /\ source'[x] = "corrected" => source[x] = "corrected"
               /\ Used(x, journal') <= Used(x, journal)
               /\ Live(x, journal') \subseteq Live(x, journal)
    <3>1. ~(j.op \in Taking /\ j.source = x)
      BY <1>2, <2>1 DEF Holds, TakesWithin
    <3>2. ~(j.op = "correct" /\ j.source = x)
      BY <1>2, <2>1 DEF Holds, TakesEachBackOnce, TakingBack
    <3>3. /\ Used(x, journal \o w) <= Used(x, journal)
          /\ Live(x, journal \o w) = Live(x, journal) \ Back(w)
      BY <1>1, <3>1, CommitUsed
    <3> QED BY <1>1, <3>1, <3>2, <3>3 DEF Taking
  <2> QED BY <2>1 DEF SourcesKeptFor
<1>9. EntriesKeptFor(t)
  <2>1. \A i \in DOMAIN journal : i \in DOMAIN journal' /\ journal'[i] = journal[i]
    <3>1. \A i \in DOMAIN journal : i \in DOMAIN (journal \o w) /\ (journal \o w)[i] = journal[i]
      <4> HIDE DEF w
      <4> QED BY <1>2, Joined
    <3> QED BY <1>1, <3>1
  <2>2. ASSUME NEW i \in DOMAIN journal, lock[BillRow(journal[i].bill)] = t, ~Reversed(i, journal)
        PROVE  ~Reversed(i, journal')
    <3>1. SUFFICES ASSUME NEW k \in DOMAIN journal', journal'[k].of = i PROVE FALSE
      BY DEF Reversed
    <3>2. CASE k \in DOMAIN journal
      BY <2>1, <2>2, <3>1, <3>2 DEF Reversed
    <3>3. CASE k \notin DOMAIN journal
      <4>1. PICK m \in DOMAIN w : journal'[k] = w[m]
        <5>1. \A l \in DOMAIN (journal \o w) : l \in DOMAIN journal \/ \E m \in DOMAIN w : l = Len(journal) + m
          <6> HIDE DEF w
          <6> QED BY <1>2, Joined
        <5>2. \A m \in DOMAIN w : /\ Len(journal) + m \in DOMAIN (journal \o w)
                                  /\ (journal \o w)[Len(journal) + m] = w[m]
          <6> HIDE DEF w
          <6> QED BY <1>2, Joined
        <5> QED BY <1>1, <3>3, <5>1, <5>2
      <4>2. w[m].of = i /\ i # 0
        <5>1. DOMAIN journal = 1..Len(journal)
          BY <1>2, EntriesAreFinite
        <5> QED BY <3>1, <4>1, <5>1
      <4>3. w[m].bill = journal[i].bill
        BY <1>6, <4>2 DEF TakesBack
      <4>4. lock[BillRow(w[m].bill)] = s
        BY <1>6
      <4> QED BY <2>2, <4>3, <4>4
    <3> QED BY <3>2, <3>3
  <2> QED BY <2>1, <2>2 DEF EntriesKeptFor
<1>10. RemindersKeptFor(t)
  <2>1. ASSUME NEW b \in Bills
        PROVE  /\ lock[ReminderRow(b)] = t => reminder'[b].step = reminder[b].step
               /\ lock[BillRow(b)] = t /\ b \notin disputed => b \notin disputed'
               /\ lock[DisputeRow(b)] = t /\ b \in disputed =>
                    b \in disputed' /\ (reminder'[b].status = "stopped_disputed" => reminder[b].status = "stopped_disputed")
    <3>1. DisputesInTurn(s)
      BY <1>2 DEF Holds
    <3>2. lock[ReminderRow(b)] = t => reminder'[b].step = reminder[b].step
      BY CommitSteps
    <3>3. lock[BillRow(b)] = t /\ b \notin disputed => b \notin disputed'
      BY <1>1, <3>1 DEF DisputesInTurn
    <3>4. lock[DisputeRow(b)] = t => ~(j.op = "resolve" /\ j.bill = b)
      BY <3>1 DEF DisputesInTurn
    <3>5. b \in disputed => ~(j.op = "raise" /\ j.bill = b)
      BY <3>1 DEF DisputesInTurn
    <3>6. reminder'[b].status = "stopped_disputed" =>
            (j.op = "raise" /\ j.bill = b) \/ reminder[b].status = "stopped_disputed"
      BY CommitReminders
    <3> QED BY <1>1, <3>2, <3>3, <3>4, <3>5, <3>6
  <2> QED BY <2>1 DEF RemindersKeptFor
<1>11. \A x \in Sources : Used(x, journal') \in Int
  BY <1>1, CommitUsed
<1> QED BY <1>1, <1>3, <1>4, <1>7, <1>8, <1>9, <1>10, <1>11, OthersHold

\* A session that goes on with the list holds nothing of it yet.
LEMMA CommitSelf ==
  ASSUME Parameters, Discipline, NEW s \in Sessions, Commit(s)
  PROVE  Holds(s)' /\ \E k \in Job : job' = [job EXCEPT ![s] = k]
<1> DEFINE j == job[s]
           l == [NoJob EXCEPT !.step = "listed", !.op = j.op, !.todo = j.todo]
<1>1. journal' \in Seq(Entry) /\ NeverOverpaid'
  BY CommitParts, CommitNeverOverpaid
<1>2. j \in Job /\ Holds(s) /\ j.todo \in SUBSET Nat /\ j.step = "written"
  BY SessionFacts DEF Commit
<1>3. CASE j.op \in {"remind", "unpark"}
  <2>1. job' = [job EXCEPT ![s] = l]
    BY <1>3 DEF Commit, Becomes
  <2>2. /\ l.step = "listed" /\ l.op = j.op /\ l.todo = j.todo /\ l.writes = << >> /\ l.sends = FALSE
        /\ l.status = NoChange
    BY DEF NoJob
  <2>3. l \in Job
    BY <1>2, <1>3, NoJobIsJob DEF Job
  <2> HIDE DEF l
  <2>4. job'[s] = l
    BY <2>1 DEF Discipline
  <2>5. WritesUnderBill(s)'
    BY <1>1, <2>2, <2>4, NoWritesUnderBill
  <2>6. WritesItsKind(s)'
    BY <1>2, <1>3, <2>2, <2>4 DEF Holds, WritesItsKind
  <2>7. TakesWithin(s)' /\ TakesEachBackOnce(s)'
    BY <1>3, <2>2, <2>4 DEF TakesWithin, TakesEachBackOnce, Taking, TakingBack
  <2>8. RemindsUnderLock(s)' /\ DisputesInTurn(s)'
    <3>1. \A b \in Bills : NoChange[b] = None
      BY DEF NoChange
    <3>2. None # "stopped_disputed"
      BY DEF Parameters, NoneAssumption, Statuses, Stops
    <3> QED BY <1>3, <2>2, <2>4, <3>1, <3>2 DEF RemindsUnderLock, DisputesInTurn
  <2>9. Holds(s)'
    BY <2>5, <2>6, <2>7, <2>8 DEF Holds
  <2> QED BY <2>1, <2>3, <2>9
<1>4. CASE j.op \notin {"remind", "unpark"}
  <2>1. job' = [job EXCEPT ![s] = NoJob]
    BY <1>4 DEF Commit, Becomes
  <2>2. job'[s] = NoJob
    BY <2>1 DEF Discipline
  <2>3. Holds(s)'
    BY <1>1, <2>2, IdleHolds
  <2> QED BY <2>1, <2>3, NoJobIsJob
<1> QED BY <1>3, <1>4

\* Everything a transaction wrote takes effect at once.
LEMMA CommitKeeps ==
  ASSUME Parameters, Discipline, NEW s \in Sessions, Commit(s)
  PROVE  Discipline'
<1>1. PICK k \in Job : job' = [job EXCEPT ![s] = k]
  BY CommitSelf
<1>2. job' \in [Sessions -> Job]
  BY <1>1 DEF Discipline
<1>3. \A t \in Sessions : Holds(t)'
  BY CommitSelf, CommitOthers
<1>4. /\ journal' \in Seq(Entry) /\ source' \in [Sources -> {"none", "live", "corrected"}] /\ disputed' \subseteq Bills
      /\ \A b : b \in disputed' <=> IF b = job[s].bill /\ job[s].op = "raise" THEN TRUE
                                    ELSE IF b = job[s].bill /\ job[s].op = "resolve" THEN FALSE ELSE b \in disputed
  BY CommitParts
<1>5. /\ reminder' = [b \in Bills |-> ReminderAfter(s, b)]
      /\ DOMAIN contacts' = Bills
  BY DEF Commit, Discipline
<1>6. lock' \in [Lockables -> Sessions \cup {None}]
  BY ReleasesKeep DEF Commit, Discipline
<1>7. \A b \in Bills :
        /\ reminder'[b] \in [status : Statuses, step : 0..LastStep, due : BOOLEAN]
        /\ reminder'[b].step = LastStep => reminder'[b].status = "exhausted"
        /\ reminder'[b].step <= Len(contacts'[b])
        /\ contacts'[b] \in Seq(1..LastStep) /\ contacts'[b] = [i \in 1..Len(contacts'[b]) |-> i]
        /\ reminder'[b].status = "stopped_disputed" =>
             \/ job[s].op = "raise" /\ job[s].bill = b
             \/ reminder[b].status = "stopped_disputed" /\ ~(job[s].op = "resolve" /\ job[s].bill = b)
  BY CommitReminders
<1>8. reminder' \in [Bills -> [status : Statuses, step : 0..LastStep, due : BOOLEAN]]
  BY <1>5, <1>7
<1>9. TypeOK'
  <2>1. \A t \in Sessions : /\ job'[t].step \in {"idle", "source", "chosen", "resolving", "listed", "written"}
                            /\ job'[t].status \in [Bills -> Statuses \cup {None}]
    BY <1>2 DEF Job
  <2>2. \A i \in DOMAIN journal' : journal'[i] \in Entry
    BY <1>4, EntriesAreFinite
  <2> QED BY <1>4, <1>6, <1>7, <1>8, <2>1, <2>2 DEF TypeOK
<1>10. JournalMeans' /\ BillsAddUp'
  BY CommitJournal, CommitNeverOverpaid DEF BillsAddUp
<1>11. ChasedInOrder'
  <2>1. StopHasItsDispute
    BY DEF Discipline, ChasedInOrder
  <2>2. StopHasItsDispute'
    BY <1>4, <1>7, <2>1 DEF StopHasItsDispute
  <2>3. StepsInOrder'
    BY <1>7 DEF StepsInOrder
  <2> QED BY <2>2, <2>3 DEF ChasedInOrder
<1>12. \A t \in Sessions : /\ WritesItsKind(t)' /\ WritesUnderBill(t)' /\ TakesWithin(t)'
                           /\ TakesEachBackOnce(t)' /\ RemindsUnderLock(t)' /\ DisputesInTurn(t)'
  BY <1>3 DEF Holds
<1>13. \A b \in Bills : reminder'[b].step <= Len(contacts'[b])
  BY <1>7
<1> QED BY <1>2, <1>5, <1>9, <1>10, <1>11, <1>12, <1>13 DEF Discipline

-----------------------------------------------------------------------------
(* The whole. *)

\* Nothing has happened to the bills yet.
LEMMA InitHolds ==
  ASSUME Parameters, Init
  PROVE  Discipline
<1>1. /\ journal = << >> /\ disputed = {} /\ DOMAIN << >> = {} /\ << >> \in Seq(Entry)
      /\ \A s \in Sessions : job[s] = NoJob
  BY NoJobIsJob DEF Init
<1>2. NoJob.writes = << >> /\ NoJob.op = "none" /\ NoJob.step = "idle" /\ NoJob.sends = FALSE
  BY DEF NoJob
<1>3. LastStep \in Nat /\ LastStep # 0 /\ 0 \in 0..LastStep /\ Len(<< >>) = 0
  BY DEF Parameters, AmountAssumption
<1>4. job \in [Sessions -> Job]
  BY NoJobIsJob DEF Init
<1>5. TypeOK
  <2>1. reminder \in [Bills -> [status : Statuses, step : 0..LastStep, due : BOOLEAN]]
    BY <1>3 DEF Init, Statuses, Stops
  <2>2. \A b \in Bills : reminder[b].step = 0
    BY DEF Init
  <2>3. \A b \in Bills : contacts[b] = << >> /\ << >> \in Seq(1..LastStep)
    BY DEF Init
  <2>4. source \in [Sources -> {"none", "live", "corrected"}] /\ lock \in [Lockables -> Sessions \cup {None}]
    BY DEF Init
  <2>5. \A s \in Sessions : /\ job[s].step \in {"idle", "source", "chosen", "resolving", "listed", "written"}
                            /\ job[s].status \in [Bills -> Statuses \cup {None}]
    BY <1>4 DEF Job
  <2> QED BY <1>1, <1>3, <2>1, <2>2, <2>3, <2>4, <2>5 DEF TypeOK
<1>6. JournalMeans
  BY <1>1 DEF JournalMeans
<1>7. \A b \in Bills : Outstanding(b, << >>) \in Nat /\ Moved(b, << >>) = 0
  <2>1. ASSUME NEW b \in Bills PROVE Outstanding(b, << >>) \in Nat /\ Moved(b, << >>) = 0
    <3>1. Moved(b, << >>) = 0
      BY <1>1, MovedNot
    <3>2. Total[b] \in Nat
      BY DEF Parameters, BillAssumption
    <3> QED BY <3>1, <3>2 DEF Outstanding
  <2> QED BY <2>1
<1>8. BillsAddUp
  <2>1. ASSUME NEW x \in Sources PROVE Used(x, << >>) <= Worth[x]
    <3>1. Live(x, << >>) = {}
      BY DEF Live
    <3>2. SumFunctionOnSet(Entered(<< >>), {}) = 0
      BY SumOfNone
    <3>3. Worth[x] \in Nat
      BY DEF Parameters, AmountAssumption
    <3> QED BY <3>1, <3>2, <3>3 DEF Used
  <2>2. \A x \in Payments : source[x] # "corrected"
    BY DEF Init, Sources
  <2>3. NeverOverpaid
    BY <1>1, <1>7, <2>1, <2>2 DEF NeverOverpaid
  <2>4. ReversedOnce
    BY <1>1 DEF ReversedOnce
  <2> QED BY <2>3, <2>4 DEF BillsAddUp
<1>9. ChasedInOrder
  <2>1. \A b \in Bills : reminder[b].status = "running" /\ contacts[b] = << >>
    BY DEF Init
  <2>2. << >> = [i \in 1..Len(<< >>) |-> i]
    BY <1>3
  <2> QED BY <2>1, <2>2 DEF ChasedInOrder, StopHasItsDispute, StepsInOrder
<1>10. DOMAIN contacts = Bills /\ \A b \in Bills : reminder[b].step <= Len(contacts[b])
  BY <1>3 DEF Init
<1>11. ASSUME NEW s \in Sessions PROVE Holds(s)
  <2>1. WritesUnderBill(s)
    <3>1. \A b \in Bills : Outstanding(b, << >>) + Moved(b, << >>) >= 0
      BY <1>7
    <3> QED BY <1>1, <1>2, <3>1 DEF WritesUnderBill
  <2>2. WritesItsKind(s) /\ TakesWithin(s) /\ TakesEachBackOnce(s)
    BY <1>1, <1>2 DEF WritesItsKind, TakesWithin, TakesEachBackOnce, Taking, TakingBack
  <2>3. RemindsUnderLock(s) /\ DisputesInTurn(s)
    <3>1. \A b \in Bills : job[s].status[b] = None
      BY <1>1, NoJobIsJob
    <3>2. None # "stopped_disputed"
      BY DEF Parameters, NoneAssumption, Statuses, Stops
    <3> QED BY <1>1, <1>2, <3>1, <3>2 DEF RemindsUnderLock, DisputesInTurn
  <2> QED BY <2>1, <2>2, <2>3 DEF Holds
<1> QED BY <1>4, <1>5, <1>6, <1>8, <1>9, <1>10, <1>11 DEF Discipline, Holds

\* What a session does, step by step.
LEMMA SessionKeeps ==
  ASSUME Parameters, Discipline, NEW s \in Sessions,
         \/ \E i \in DOMAIN journal : Unallocate(s, i) \/ Reverse(s, i)
         \/ \E x \in Sources : Correct(s, x)
         \/ \E b \in Bills : RaiseDispute(s, b) \/ ResolveDispute(s, b)
         \/ \E b \in Bills, covered \in BOOLEAN : Examine(s, b, covered)
         \/ ListParked(s) \/ ListDue(s) \/ ListDone(s)
         \/ Enter(s) \/ AllReversed(s) \/ Resume(s) \/ Commit(s) \/ Fail(s)
  PROVE  Discipline'
<1>1. ASSUME NEW i \in DOMAIN journal, Unallocate(s, i) \/ Reverse(s, i) PROVE Discipline'
  BY <1>1, UnallocateKeeps, ReverseKeeps
<1>2. ASSUME NEW x \in Sources, Correct(s, x) PROVE Discipline'
  BY <1>2, CorrectKeeps
<1>3. ASSUME NEW b \in Bills, RaiseDispute(s, b) \/ ResolveDispute(s, b) PROVE Discipline'
  BY <1>3, RaiseDisputeKeeps, ResolveDisputeKeeps
<1>4. ASSUME NEW b \in Bills, NEW covered \in BOOLEAN, Examine(s, b, covered) PROVE Discipline'
  BY <1>4, ExamineKeeps
<1>5. CASE ListParked(s) \/ ListDue(s)
  <2>1. PICK op \in {"remind", "unpark"}, bs \in SUBSET Bills : List(s, op, bs)
    BY <1>5 DEF ListParked, ListDue
  <2> QED BY <2>1, ListKeeps
<1>6. CASE ListDone(s) \/ Fail(s)
  <2>1. Abort(s)
    BY <1>6 DEF ListDone, Fail
  <2> QED BY <2>1, AbortKeeps
<1>7. CASE Enter(s)
  BY <1>7, EnterKeeps
<1>8. CASE AllReversed(s)
  BY <1>8, AllReversedKeeps
<1>9. CASE Resume(s)
  BY <1>9, ResumeKeeps
<1>10. CASE Commit(s)
  BY <1>10, CommitKeeps
<1> QED BY <1>1, <1>2, <1>3, <1>4, <1>5, <1>6, <1>7, <1>8, <1>9, <1>10

\* Nothing changes.
LEMMA StutterKeeps ==
  ASSUME Parameters, Discipline, UNCHANGED vars
  PROVE  Discipline'
<1>1. UNCHANGED <<journal, source, disputed, reminder, contacts, lock, job>>
  BY DEF vars, rows
<1>2. source \in [Sources -> {"none", "live", "corrected"}]
      /\ reminder \in [Bills -> [status : Statuses, step : 0..LastStep, due : BOOLEAN]]
  BY DEF Discipline, TypeOK
<1> QED BY <1>1, <1>2, ReminderFacts, RowStep

\* Every step leaves what each session does disciplined.
LEMMA NextKeeps ==
  ASSUME Parameters, Discipline, [Next]_vars
  PROVE  Discipline'
<1>1. CASE UNCHANGED vars
  BY <1>1, StutterKeeps
<1>2. ASSUME NEW x \in Sources, Record(x) PROVE Discipline'
  BY <1>2, RecordKeeps
<1>3. ASSUME NEW b \in Bills, Hold(b) \/ Release(b) \/ AssignSequence(b) \/ SpacingElapses(b) PROVE Discipline'
  BY <1>3, ReminderKeeps
<1>4. ASSUME NEW s \in Sessions, NEW x \in Sources, NEW n \in Amounts, NEW bs \in SUBSET Bills, Allocate(s, x, bs, n)
      PROVE  Discipline'
  BY <1>4, AllocateKeeps
<1>5. ASSUME NEW s \in Sessions, NEW x \in Sources, NEW n \in Amounts, ApplyCredit(s, x, n) PROVE Discipline'
  BY <1>5, ApplyCreditKeeps
<1>6. ASSUME NEW s \in Sessions, NEW b \in Bills, NEW n \in Amounts, WriteOff(s, b, n) \/ ChargeInterest(s, b, n)
      PROVE  Discipline'
  BY <1>6, WriteOffKeeps, ChargeInterestKeeps
<1>7. CASE Next
  BY <1>2, <1>3, <1>4, <1>5, <1>6, <1>7, SessionKeeps DEF Next
<1> QED BY <1>1, <1>7

\* Whoever writes on a bill holds its row, whoever takes from a payment or a note holds
\* its key, and what was read before the row was locked is decided again under it
\* (payments.ts, reminders.ts, disputes.ts).
THEOREM RowsAreHeld == Parameters /\ Spec => []Discipline
<1>1. Parameters /\ Init => Discipline
  BY InitHolds
<1>2. Parameters /\ Discipline /\ [Next]_vars => Discipline'
  BY NextKeeps
<1>3. ASSUME Parameters PROVE Spec => []Discipline
  <2>1. Init => Discipline
    BY <1>1, <1>3
  <2>2. Discipline /\ [Next]_vars => Discipline'
    BY <1>2, <1>3
  <2> QED BY <2>1, <2>2, PTL DEF Spec
<1> QED BY <1>3

\* No bill is overpaid, no payment or note overspent, nothing taken back twice, however
\* many payments, corrections, write-offs and their failures interleave.
THEOREM BillsStayRight == Parameters /\ Spec => []BillsAddUp
<1>1. Discipline => BillsAddUp
  BY DEF Discipline
<1> QED BY <1>1, RowsAreHeld, PTL

\* A reminder stopped for a dispute has it, and each step of the sequence reaches the
\* client once and in order, whoever else runs the reminders.
THEOREM ChasedInTurn == Parameters /\ Spec => []ChasedInOrder
<1>1. Discipline => ChasedInOrder
  BY DEF Discipline
<1> QED BY <1>1, RowsAreHeld, PTL

=============================================================================
