----------------------------- MODULE MoneyProofs -----------------------------
(***************************************************************************)
(* Client money beside its ledgers, and money on its way to a bill, for     *)
(* any number of instruments, calculations, cases, sessions, charges,       *)
(* payments, days and amounts: what is set aside moves once for each        *)
(* calculation, a dormant case is remitted once, the statutory registers    *)
(* are dense, an instrument's money comes back once, a charge of interest   *)
(* is what its days accrue, a certified period takes only the postings      *)
(* that were past its lock, a reference is settled once, and a payment's    *)
(* money is in one place.                                                   *)
(***************************************************************************)
EXTENDS StatutoryMoney, Instruments, Interest, PeriodClose, Collected, SumProofs

-----------------------------------------------------------------------------
(* The set-aside: what the calculations with a standing half sum to. *)

\* A calculation whose half stands adds its difference to that of the others, which do not
\* depend on it.
LEMMA SumGains ==
  ASSUME NEW C, IsFiniteSet(C), NEW c \in C, NEW S \in SUBSET (C \ {c}), NEW f, NEW g,
         \A x \in C : f[x] \in Int /\ g[x] \in Int, \A x \in C \ {c} : g[x] = f[x]
  PROVE  /\ SumFunctionOnSet(f, S) \in Int /\ SumFunctionOnSet(g, S) = SumFunctionOnSet(f, S)
         /\ SumFunctionOnSet(f, S \cup {c}) = f[c] + SumFunctionOnSet(f, S)
         /\ SumFunctionOnSet(g, S \cup {c}) = g[c] + SumFunctionOnSet(f, S)
<1>1. S \in SUBSET C /\ S \cup {c} \in SUBSET C /\ (S \cup {c}) \ {c} = S
  OBVIOUS
<1>2. IsFiniteSet(S) /\ IsFiniteSet(S \cup {c})
  BY <1>1, FS_Subset
<1>3. \A x \in S \cup {c} : f[x] \in Int /\ g[x] \in Int
  BY <1>1
<1>4. SumFunctionOnSet(f, S) \in Int
  BY <1>2, <1>3, SumType
<1>5. SumFunctionOnSet(f, S) = SumFunctionOnSet(g, S)
  BY <1>2, SumAgrees
<1>6. SumFunctionOnSet(f, S \cup {c}) = f[c] + SumFunctionOnSet(f, S)
  BY <1>1, <1>2, <1>3, SumTakesOut
<1>7. SumFunctionOnSet(g, S \cup {c}) = g[c] + SumFunctionOnSet(g, S)
  BY <1>1, <1>2, <1>3, SumTakesOut
<1> QED BY <1>4, <1>5, <1>6, <1>7

\* A sum moves by what one member was, if it was summed, and by what it is, if it is.
LEMMA SumMoves ==
  ASSUME NEW C, IsFiniteSet(C), NEW c \in C, NEW f, NEW g,
         \A x \in C : f[x] \in Int /\ g[x] \in Int, \A x \in C \ {c} : g[x] = f[x],
         NEW A \in SUBSET C, NEW B \in SUBSET C, A \ {c} = B \ {c}
  PROVE  /\ SumFunctionOnSet(f, A) \in Int
         /\ SumFunctionOnSet(g, B) = SumFunctionOnSet(f, A) - (IF c \in A THEN f[c] ELSE 0)
                                                           + (IF c \in B THEN g[c] ELSE 0)
<1> DEFINE S == A \ {c}
<1>1. S \in SUBSET (C \ {c})
  OBVIOUS
<1>2. /\ SumFunctionOnSet(f, S) \in Int /\ SumFunctionOnSet(g, S) = SumFunctionOnSet(f, S)
      /\ SumFunctionOnSet(f, S \cup {c}) = f[c] + SumFunctionOnSet(f, S)
      /\ SumFunctionOnSet(g, S \cup {c}) = g[c] + SumFunctionOnSet(f, S)
  <2> HIDE DEF S
  <2> QED BY <1>1, SumGains
<1>3. A = (IF c \in A THEN S \cup {c} ELSE S) /\ B = IF c \in B THEN S \cup {c} ELSE S
  OBVIOUS
<1>4. f[c] \in Int /\ g[c] \in Int
  OBVIOUS
<1>5. SumFunctionOnSet(f, A) = SumFunctionOnSet(f, S) + IF c \in A THEN f[c] ELSE 0
  <2> HIDE DEF S
  <2>1. CASE c \in A
    <3>1. A = S \cup {c}
      BY <1>3, <2>1
    <3> QED BY <1>2, <1>4, <2>1, <3>1
  <2>2. CASE c \notin A
    <3>1. A = S
      BY <1>3, <2>2
    <3> QED BY <1>2, <1>4, <2>2, <3>1
  <2> QED BY <2>1, <2>2
<1>6. SumFunctionOnSet(g, B) = SumFunctionOnSet(f, S) + IF c \in B THEN g[c] ELSE 0
  <2> HIDE DEF S
  <2>1. CASE c \in B
    <3>1. B = S \cup {c}
      BY <1>3, <2>1
    <3> QED BY <1>2, <1>4, <2>1, <3>1
  <2>2. CASE c \notin B
    <3>1. B = S
      BY <1>3, <2>2
    <3> QED BY <1>2, <1>4, <2>2, <3>1
  <2> QED BY <2>1, <2>2
<1> HIDE DEF S
<1> QED BY <1>2, <1>4, <1>5, <1>6

\* What the calculations and ledgers are, apart.
LEMMA AsideTypes ==
  ASSUME AsideParameters, AsideTypeOK
  PROVE  /\ IsFiniteSet(Calcs) /\ MaxMoney \in Nat /\ holding \in Nat /\ required \in 0..MaxMoney
         /\ \A c \in Calcs : calc[c].delta \in Int /\ calc[c].pooled \in Pooled
         /\ \A a \in Pooled : contra[a] \in Int /\ client[a] \in 0..MaxMoney
BY DEF AsideParameters, AsideTypeOK

\* The holding ledger and a contra ledger are sums over the standing halves; a step that
\* changes the standing of one calculation's halves, or its difference while it has none,
\* keeps them so when the ledgers change by it.
LEMMA HalvesKeep ==
  ASSUME AsideParameters, AsideDiscipline, AsideTypeOK', NEW c \in Calcs,
         \A x \in Calcs \ {c} : calc'[x] = calc[x],
         holding' = holding - (IF calc[c].stat = "stands" THEN calc[c].delta ELSE 0)
                            + (IF calc'[c].stat = "stands" THEN calc'[c].delta ELSE 0),
         \A a \in Pooled : contra'[a] = contra[a]
            + (IF calc[c].pool = "stands" /\ calc[c].pooled = a THEN calc[c].delta ELSE 0)
            - (IF calc'[c].pool = "stands" /\ calc'[c].pooled = a THEN calc'[c].delta ELSE 0)
  PROVE  MovedOncePerCalculation'
<1> DEFINE f == [x \in Calcs |-> calc[x].delta]
           g == [x \in Calcs |-> calc'[x].delta]
           A == {x \in Calcs : calc[x].stat = "stands"}
           B == {x \in Calcs : calc'[x].stat = "stands"}
           P(a) == {x \in Calcs : calc[x].pool = "stands" /\ calc[x].pooled = a}
           Q(a) == {x \in Calcs : calc'[x].pool = "stands" /\ calc'[x].pooled = a}
<1>1. \A x \in Calcs : f[x] \in Int /\ g[x] \in Int
  BY DEF AsideDiscipline, AsideTypeOK
<1>2. \A x \in Calcs \ {c} : g[x] = f[x]
  OBVIOUS
<1>3. f[c] = calc[c].delta /\ g[c] = calc'[c].delta
  OBVIOUS
<1>4. IsFiniteSet(Calcs)
  BY DEF AsideParameters
<1>5. holding' = SumFunctionOnSet(g, B)
  <2>1. A \in SUBSET Calcs /\ B \in SUBSET Calcs /\ A \ {c} = B \ {c}
    OBVIOUS
  <2>2. (c \in A <=> calc[c].stat = "stands") /\ (c \in B <=> calc'[c].stat = "stands")
    OBVIOUS
  <2>3. holding = SumFunctionOnSet(f, A)
    BY DEF AsideDiscipline, MovedOncePerCalculation, Deltas
  <2>4. SumFunctionOnSet(g, B) = SumFunctionOnSet(f, A) - (IF c \in A THEN f[c] ELSE 0)
                                                       + (IF c \in B THEN g[c] ELSE 0)
    <3> HIDE DEF f, g, A, B
    <3> QED BY <1>1, <1>2, <1>4, <2>1, SumMoves
  <2> HIDE DEF f, g, A, B
  <2> QED BY <1>3, <2>2, <2>3, <2>4
<1>6. ASSUME NEW a \in Pooled PROVE contra'[a] = -SumFunctionOnSet(g, Q(a))
  <2> DEFINE p == P(a)
             q == Q(a)
  <2>1. p \in SUBSET Calcs /\ q \in SUBSET Calcs /\ p \ {c} = q \ {c}
    OBVIOUS
  <2>2. /\ c \in p <=> calc[c].pool = "stands" /\ calc[c].pooled = a
        /\ c \in q <=> calc'[c].pool = "stands" /\ calc'[c].pooled = a
    OBVIOUS
  <2>3. contra[a] = -SumFunctionOnSet(f, p)
    BY DEF AsideDiscipline, MovedOncePerCalculation, Deltas
  <2>4. /\ SumFunctionOnSet(f, p) \in Int
        /\ SumFunctionOnSet(g, q) = SumFunctionOnSet(f, p) - (IF c \in p THEN f[c] ELSE 0)
                                                         + (IF c \in q THEN g[c] ELSE 0)
    <3> HIDE DEF f, g, p, q
    <3> QED BY <1>1, <1>2, <1>4, <2>1, SumMoves, SMTT(30)
  <2>5. f[c] \in Int /\ g[c] \in Int
    BY <1>1
  <2>6. contra'[a] = contra[a] + (IF c \in p THEN f[c] ELSE 0) - (IF c \in q THEN g[c] ELSE 0)
    <3>1. /\ contra'[a] = contra[a]
             + (IF calc[c].pool = "stands" /\ calc[c].pooled = a THEN calc[c].delta ELSE 0)
             - (IF calc'[c].pool = "stands" /\ calc'[c].pooled = a THEN calc'[c].delta ELSE 0)
      OBVIOUS
    <3> HIDE DEF f, g, p, q
    <3> QED BY <1>3, <2>2, <3>1
  <2>7. contra'[a] = -SumFunctionOnSet(g, q)
    <3> HIDE DEF f, g, p, q
    <3> QED BY <2>3, <2>4, <2>5, <2>6
  <2> QED BY <2>7
<1> QED BY <1>5, <1>6 DEF MovedOncePerCalculation, Deltas

\* Nothing enters a ledger for a calculation that is not confirmed.
LEMMA RecalculationKeeps ==
  ASSUME AsideParameters, AsideDiscipline, NEW c \in Calcs, RunSetAsideRecalculation(c)
  PROVE  AsideDiscipline'
<1>1. /\ calc \in [Calcs -> [st : {"none", "calculated", "moved"}, delta : Int, pooled : Pooled,
                            stat : {"none", "stands", "reversed"}, pool : {"none", "stands", "reversed"}]]
      /\ calc[c].stat = "none" /\ calc[c].pool = "none" /\ required - holding \in Int
  BY AsideTypes DEF AsideDiscipline, AsideTypeOK, RunSetAsideRecalculation
<1>2. /\ calc' = [calc EXCEPT ![c] = [@ EXCEPT !.st = "calculated", !.delta = required - holding]]
      /\ UNCHANGED <<required, holding, contra, client>> /\ due' = FALSE
  BY <1>1 DEF RunSetAsideRecalculation
<1>3. AsideTypeOK'
  BY <1>1, <1>2 DEF AsideDiscipline, AsideTypeOK, CashBook
<1>4. calc'[c].stat = "none" /\ calc'[c].pool = "none" /\ \A x \in Calcs \ {c} : calc'[x] = calc[x]
  BY <1>1, <1>2
<1>5. MovedOncePerCalculation'
  BY <1>1, <1>2, <1>3, <1>4, AsideTypes, HalvesKeep DEF AsideDiscipline
<1> QED BY <1>3, <1>4, <1>5 DEF AsideDiscipline

\* A confirmation enters both halves, which were not there.
LEMMA ConfirmationKeeps ==
  ASSUME AsideParameters, AsideDiscipline, NEW c \in Calcs, NEW a \in Pooled, ConfirmSetAsideMovement(c, a)
  PROVE  AsideDiscipline'
<1> DEFINE d == calc[c].delta
<1>1. /\ calc \in [Calcs -> [st : {"none", "calculated", "moved"}, delta : Int, pooled : Pooled,
                            stat : {"none", "stands", "reversed"}, pool : {"none", "stands", "reversed"}]]
      /\ contra \in [Pooled -> Int] /\ client \in [Pooled -> 0..MaxMoney] /\ holding \in Nat
  BY DEF AsideDiscipline, AsideTypeOK
<1>2. calc[c].stat = "none" /\ calc[c].pool = "none" /\ d \in Int
  BY <1>1 DEF AsideDiscipline, ConfirmSetAsideMovement, Unmoved
<1>3. /\ calc' = [calc EXCEPT ![c] = [st |-> "moved", delta |-> d, pooled |-> a,
                                     stat |-> "stands", pool |-> "stands"]]
      /\ holding' = holding + d /\ contra' = [contra EXCEPT ![a] = @ - d]
      /\ UNCHANGED <<required, due, client>>
      /\ holding + d >= 0 /\ contra[a] - d <= 0 /\ CashBook(a) - d >= 0
  BY DEF ConfirmSetAsideMovement
<1>4. \A b \in Pooled : contra'[b] = contra[b] - (IF b = a THEN d ELSE 0)
  BY <1>1, <1>2, <1>3
<1>5. AsideTypeOK'
  <2>1. calc' \in [Calcs -> [st : {"none", "calculated", "moved"}, delta : Int, pooled : Pooled,
                            stat : {"none", "stands", "reversed"}, pool : {"none", "stands", "reversed"}]]
    BY <1>1, <1>2, <1>3
  <2>2. holding' \in Nat /\ contra' \in [Pooled -> Int]
    BY <1>1, <1>2, <1>3
  <2>3. \A b \in Pooled : contra'[b] <= 0 /\ client'[b] + contra'[b] >= 0
    BY <1>1, <1>2, <1>3, <1>4 DEF AsideDiscipline, AsideTypeOK, CashBook
  <2> QED BY <1>3, <2>1, <2>2, <2>3 DEF AsideDiscipline, AsideTypeOK, CashBook
<1>6. /\ calc'[c].st = "moved" /\ calc'[c].stat = "stands" /\ calc'[c].pool = "stands"
      /\ calc'[c].pooled = a /\ calc'[c].delta = d /\ \A x \in Calcs \ {c} : calc'[x] = calc[x]
  BY <1>1, <1>3
<1>7. MovedOncePerCalculation'
  <2>1. holding' = holding - (IF calc[c].stat = "stands" THEN calc[c].delta ELSE 0)
                           + (IF calc'[c].stat = "stands" THEN calc'[c].delta ELSE 0)
    BY <1>1, <1>2, <1>3, <1>6
  <2>2. \A b \in Pooled : contra'[b] = contra[b]
          + (IF calc[c].pool = "stands" /\ calc[c].pooled = b THEN calc[c].delta ELSE 0)
          - (IF calc'[c].pool = "stands" /\ calc'[c].pooled = b THEN calc'[c].delta ELSE 0)
    BY <1>1, <1>2, <1>4, <1>6
  <2> QED BY <1>5, <1>6, <2>1, <2>2, HalvesKeep
<1> QED BY <1>5, <1>6, <1>7 DEF AsideDiscipline

\* The statutory half of a movement is taken back.
LEMMA StatutoryReversalKeeps ==
  ASSUME AsideParameters, AsideDiscipline, NEW c \in Calcs, ReverseStatutoryHalf(c)
  PROVE  AsideDiscipline'
<1>1. /\ calc \in [Calcs -> [st : {"none", "calculated", "moved"}, delta : Int, pooled : Pooled,
                            stat : {"none", "stands", "reversed"}, pool : {"none", "stands", "reversed"}]]
      /\ contra \in [Pooled -> Int] /\ client \in [Pooled -> 0..MaxMoney] /\ holding \in Nat
      /\ calc[c].delta \in Int
  BY DEF AsideDiscipline, AsideTypeOK
<1>2. /\ calc[c].stat = "stands" /\ holding - calc[c].delta >= 0
      /\ calc' = [calc EXCEPT ![c] = [@ EXCEPT !.stat = "reversed"]]
      /\ holding' = holding - calc[c].delta /\ UNCHANGED <<required, due, contra, client>>
  BY <1>1 DEF ReverseStatutoryHalf
<1>3. AsideTypeOK'
  BY <1>1, <1>2 DEF AsideDiscipline, AsideTypeOK, CashBook
<1>4. /\ calc'[c].stat = "reversed" /\ calc'[c].pool = calc[c].pool /\ calc'[c].pooled = calc[c].pooled
      /\ calc'[c].delta = calc[c].delta /\ calc'[c].st = calc[c].st
      /\ \A x \in Calcs \ {c} : calc'[x] = calc[x]
  BY <1>1, <1>2
<1>5. MovedOncePerCalculation'
  <2>1. holding' = holding - (IF calc[c].stat = "stands" THEN calc[c].delta ELSE 0)
                           + (IF calc'[c].stat = "stands" THEN calc'[c].delta ELSE 0)
    BY <1>1, <1>2, <1>4
  <2>2. \A b \in Pooled : contra'[b] = contra[b]
          + (IF calc[c].pool = "stands" /\ calc[c].pooled = b THEN calc[c].delta ELSE 0)
          - (IF calc'[c].pool = "stands" /\ calc'[c].pooled = b THEN calc'[c].delta ELSE 0)
    BY <1>1, <1>2, <1>4
  <2> QED BY <1>3, <1>4, <2>1, <2>2, HalvesKeep
<1> QED BY <1>2, <1>3, <1>4, <1>5 DEF AsideDiscipline

\* The pooled half of a movement is taken back.
LEMMA PooledReversalKeeps ==
  ASSUME AsideParameters, AsideDiscipline, NEW c \in Calcs, ReversePooledHalf(c)
  PROVE  AsideDiscipline'
<1> DEFINE a == calc[c].pooled
           d == calc[c].delta
<1>1. /\ calc \in [Calcs -> [st : {"none", "calculated", "moved"}, delta : Int, pooled : Pooled,
                            stat : {"none", "stands", "reversed"}, pool : {"none", "stands", "reversed"}]]
      /\ contra \in [Pooled -> Int] /\ client \in [Pooled -> 0..MaxMoney] /\ holding \in Nat
      /\ d \in Int /\ a \in Pooled
  BY DEF AsideDiscipline, AsideTypeOK
<1>2. /\ calc[c].pool = "stands" /\ contra[a] + d <= 0 /\ CashBook(a) + d >= 0
      /\ calc' = [calc EXCEPT ![c] = [@ EXCEPT !.pool = "reversed"]]
      /\ contra' = [contra EXCEPT ![a] = @ + d] /\ UNCHANGED <<required, due, holding, client>>
  BY <1>1 DEF ReversePooledHalf
<1>3. \A b \in Pooled : contra'[b] = contra[b] + (IF b = a THEN d ELSE 0)
  BY <1>1, <1>2
<1>4. AsideTypeOK'
  <2>1. calc' \in [Calcs -> [st : {"none", "calculated", "moved"}, delta : Int, pooled : Pooled,
                            stat : {"none", "stands", "reversed"}, pool : {"none", "stands", "reversed"}]]
        /\ contra' \in [Pooled -> Int]
    BY <1>1, <1>2
  <2>2. \A b \in Pooled : contra'[b] <= 0 /\ client'[b] + contra'[b] >= 0
    BY <1>1, <1>2, <1>3 DEF AsideDiscipline, AsideTypeOK, CashBook
  <2> QED BY <1>2, <2>1, <2>2 DEF AsideDiscipline, AsideTypeOK, CashBook
<1>5. /\ calc'[c].pool = "reversed" /\ calc'[c].stat = calc[c].stat /\ calc'[c].pooled = calc[c].pooled
      /\ calc'[c].delta = calc[c].delta /\ calc'[c].st = calc[c].st
      /\ \A x \in Calcs \ {c} : calc'[x] = calc[x]
  BY <1>1, <1>2
<1>6. MovedOncePerCalculation'
  <2>1. holding' = holding - (IF calc[c].stat = "stands" THEN calc[c].delta ELSE 0)
                           + (IF calc'[c].stat = "stands" THEN calc'[c].delta ELSE 0)
    BY <1>1, <1>2, <1>5
  <2>2. \A b \in Pooled : contra'[b] = contra[b]
          + (IF calc[c].pool = "stands" /\ calc[c].pooled = b THEN calc[c].delta ELSE 0)
          - (IF calc'[c].pool = "stands" /\ calc'[c].pooled = b THEN calc'[c].delta ELSE 0)
    BY <1>1, <1>2, <1>3, <1>5
  <2> QED BY <1>4, <1>5, <2>1, <2>2, HalvesKeep
<1> QED BY <1>2, <1>4, <1>5, <1>6 DEF AsideDiscipline

\* The formula's measures, the schedule and the clients' own money touch no half.
LEMMA AroundKeeps ==
  ASSUME AsideParameters, AsideDiscipline,
         \/ EstablishSetAsideRequirement \/ FormulaMoves \/ WindowPasses
         \/ \E a \in Pooled, n \in {-1, 1} : ClientMoneyMoves(a, n)
         \/ UNCHANGED asideVars
  PROVE  AsideDiscipline'
<1>1. calc' = calc /\ holding' = holding /\ contra' = contra
  BY DEF EstablishSetAsideRequirement, FormulaMoves, WindowPasses, ClientMoneyMoves, asideVars
<1>2. required' \in 0..MaxMoney /\ due' \in BOOLEAN
  BY DEF EstablishSetAsideRequirement, FormulaMoves, WindowPasses, ClientMoneyMoves, asideVars,
     AsideDiscipline, AsideTypeOK
<1>3. client' \in [Pooled -> 0..MaxMoney] /\ \A b \in Pooled : client'[b] + contra[b] >= 0
  <2>1. CASE \E a \in Pooled, n \in {-1, 1} : ClientMoneyMoves(a, n)
    <3>1. PICK a \in Pooled, n \in {-1, 1} : ClientMoneyMoves(a, n)
      BY <2>1
    <3>2. client \in [Pooled -> 0..MaxMoney] /\ contra \in [Pooled -> Int] /\ n \in Int
      BY DEF AsideDiscipline, AsideTypeOK
    <3>3. client[a] + n \in 0..MaxMoney /\ client[a] + contra[a] + n >= 0 /\ client' = [client EXCEPT ![a] = @ + n]
      BY <3>1 DEF ClientMoneyMoves, CashBook
    <3>4. client' \in [Pooled -> 0..MaxMoney] /\ client'[a] = client[a] + n /\ \A b \in Pooled \ {a} : client'[b] = client[b]
      BY <3>2, <3>3
    <3>5. client[a] \in Int /\ contra[a] \in Int /\ client[a] + n + contra[a] >= 0
      BY <3>2, <3>3
    <3> QED BY <3>4, <3>5 DEF AsideDiscipline, AsideTypeOK, CashBook
  <2>2. CASE client' = client
    BY <2>2 DEF AsideDiscipline, AsideTypeOK, CashBook
  <2> QED BY <2>1, <2>2 DEF EstablishSetAsideRequirement, FormulaMoves, WindowPasses, asideVars
<1>4. AsideTypeOK'
  BY <1>1, <1>2, <1>3 DEF AsideDiscipline, AsideTypeOK, CashBook
<1>5. MovedOncePerCalculation'
  BY <1>1 DEF AsideDiscipline, MovedOncePerCalculation, Deltas
<1> QED BY <1>1, <1>4, <1>5 DEF AsideDiscipline

\* Nothing has moved at first.
LEMMA AsideBegins ==
  ASSUME AsideParameters, AsideInit
  PROVE  AsideDiscipline
<1> DEFINE first == CHOOSE a \in Pooled : TRUE
<1>1. first \in Pooled
  BY DEF AsideParameters
<1>2. calc = [c \in Calcs |-> [st |-> "none", delta |-> 0, pooled |-> first, stat |-> "none", pool |-> "none"]]
  BY DEF AsideInit
<1>3. \A c \in Calcs : calc[c].stat = "none" /\ calc[c].pool = "none"
  BY <1>2
<1>4. /\ holding = 0 /\ contra = [a \in Pooled |-> 0] /\ client = [a \in Pooled |-> 0]
      /\ required = 0 /\ due = FALSE /\ MaxMoney \in Nat
  BY DEF AsideParameters, AsideInit
<1>5. AsideTypeOK
  <2>1. calc \in [Calcs -> [st : {"none", "calculated", "moved"}, delta : Int, pooled : Pooled,
                            stat : {"none", "stands", "reversed"}, pool : {"none", "stands", "reversed"}]]
    <3> HIDE DEF first
    <3> QED BY <1>1, <1>2
  <2>2. \A a \in Pooled : contra[a] = 0 /\ client[a] = 0
    BY <1>4
  <2>3. 0 \in 0..MaxMoney
    BY <1>4
  <2>4. holding \in Nat /\ contra \in [Pooled -> Int] /\ client \in [Pooled -> 0..MaxMoney]
    BY <1>4, <2>3
  <2>5. \A a \in Pooled : contra[a] <= 0 /\ CashBook(a) >= 0
    BY <2>2 DEF CashBook
  <2> QED BY <1>4, <2>1, <2>3, <2>4, <2>5 DEF AsideTypeOK
<1>6. {c \in Calcs : calc[c].stat = "stands"} = {}
      /\ \A a \in Pooled : {c \in Calcs : calc[c].pool = "stands" /\ calc[c].pooled = a} = {}
  BY <1>3
<1>7. Deltas({}) = 0
  BY SumOfNone DEF Deltas
<1>8. holding = Deltas({c \in Calcs : calc[c].stat = "stands"})
  BY <1>4, <1>6, <1>7
<1>9. ASSUME NEW a \in Pooled
      PROVE  contra[a] = -Deltas({c \in Calcs : calc[c].pool = "stands" /\ calc[c].pooled = a})
  <2>1. {c \in Calcs : calc[c].pool = "stands" /\ calc[c].pooled = a} = {} /\ contra[a] = 0
    BY <1>4, <1>6
  <2>2. contra[a] = -Deltas({})
    BY <1>7, <2>1
  <2> QED BY <2>1, <2>2
<1> QED BY <1>3, <1>5, <1>8, <1>9 DEF AsideDiscipline, MovedOncePerCalculation

\* Each calculation moves its difference once: the holding ledger and the contra ledgers hold
\* exactly the halves that stand, however confirmations and reversals follow one another
\* (setAside.ts: confirmSetAsideMovement).  The invariant that it needs.
THEOREM AsideStaysInStep == AsideParameters /\ AsideSpec => []AsideDiscipline
<1>1. AsideParameters /\ AsideDiscipline /\ [AsideNext]_asideVars => AsideDiscipline'
  BY RecalculationKeeps, ConfirmationKeeps, StatutoryReversalKeeps, PooledReversalKeeps, AroundKeeps
     DEF AsideNext
<1>2. ASSUME AsideParameters PROVE AsideSpec => []AsideDiscipline
  <2>1. AsideInit => AsideDiscipline
    BY <1>2, AsideBegins
  <2>2. AsideDiscipline /\ [AsideNext]_asideVars => AsideDiscipline'
    BY <1>1, <1>2
  <2> QED BY <2>1, <2>2, PTL DEF AsideSpec
<1> QED BY <1>2

\* Each calculation moves its difference once.
THEOREM CalculationsMoveOnce == AsideParameters /\ AsideSpec => []MovedOncePerCalculation
<1>1. AsideDiscipline => MovedOncePerCalculation
  BY DEF AsideDiscipline
<1> QED BY <1>1, AsideStaysInStep, PTL

-----------------------------------------------------------------------------
(* The statutory registers: numbers under the advisory lock. *)

\* What the entries and the sessions are, apart.
LEMMA RegistersTypes ==
  ASSUME RegistersParameters, RegistersDiscipline
  PROVE  /\ MaxEntries \in Nat /\ entries \subseteq 1..MaxEntries /\ IsFiniteSet(entries)
         /\ Cardinality(entries) \in Nat /\ entries = 1..Cardinality(entries)
         /\ \A s \in Sessions : s # "free"
<1>1. IsFiniteSet(1..MaxEntries) /\ entries \subseteq 1..MaxEntries /\ MaxEntries \in Nat
  BY FS_Interval DEF RegistersParameters, RegistersDiscipline, RegistersTypeOK
<1>2. IsFiniteSet(entries)
  BY <1>1, FS_Subset
<1> QED BY <1>1, <1>2, FS_CardinalityType
        DEF RegistersParameters, RegistersDiscipline, EntriesNeverCollide

\* What a session is in the middle of: nothing, its place found or taken, a number drawn.
Entering == [at : {"idle"}] \cup [at : {"found", "locked"}, new : BOOLEAN]
            \cup [at : {"numbered"}, new : BOOLEAN, no : 1..MaxEntries]

\* A session that steps before it numbers or after it ends leaves the entries alone, and
\* holds the lock if it is then at the register.
LEMMA SessionKeeps ==
  ASSUME RegistersParameters, RegistersDiscipline, NEW s \in Sessions, NEW e \in Entering,
         entering' = [entering EXCEPT ![s] = e], e.at # "numbered",
         UNCHANGED <<entries, refused, statement, refusal, incident>>, row' \in BOOLEAN,
         advisory' \in Sessions \cup {"free"}, e.at = "locked" => advisory' = s,
         \A t \in Sessions \ {s} : advisory = t => advisory' = t
  PROVE  RegistersDiscipline'
<1>1. entering \in [Sessions -> Entering]
  BY DEF RegistersDiscipline, RegistersTypeOK, Entering
<1>2. entering' \in [Sessions -> Entering] /\ entering'[s] = e
      /\ \A t \in Sessions \ {s} : entering'[t] = entering[t]
  BY <1>1
<1>3. RegistersTypeOK'
  BY <1>2 DEF RegistersDiscipline, RegistersTypeOK, Entering
<1>4. EntriesNeverCollide'
  BY DEF RegistersDiscipline, EntriesNeverCollide
<1>5. ASSUME NEW t \in Sessions
      PROVE  /\ AtTheRegister(t)' => advisory' = t
             /\ entering'[t].at = "numbered" => entering'[t].no = Cardinality(entries') + 1
  <2>1. CASE t = s
    BY <1>2, <2>1 DEF AtTheRegister
  <2>2. CASE t # s
    BY <1>2, <2>2 DEF RegistersDiscipline, AtTheRegister
  <2> QED BY <2>1, <2>2
<1> QED BY <1>3, <1>4, <1>5 DEF RegistersDiscipline

\* The lock is taken when it is free.
LEMMA TakeLockKeeps ==
  ASSUME RegistersParameters, RegistersDiscipline, NEW s \in Sessions, TakeLock(s)
  PROVE  RegistersDiscipline'
<1> DEFINE e == [at |-> "locked", new |-> entering[s].new]
<1>1. entering[s] \in Entering /\ entering[s].at = "found" /\ advisory = "free" /\ row \in BOOLEAN
  BY DEF TakeLock, LockIsFree, RegistersDiscipline, RegistersTypeOK, Entering
<1>2. e \in Entering /\ e.at = "locked"
  BY <1>1 DEF Entering
<1>3. entering' = [entering EXCEPT ![s] = e] /\ advisory' = s
      /\ UNCHANGED <<row, entries, refused, statement, refusal, incident>>
  BY DEF TakeLock, Others
<1>4. \A t \in Sessions : advisory # t
  BY <1>1, RegistersTypes
<1> HIDE DEF e
<1> QED BY <1>1, <1>2, <1>3, <1>4, SessionKeeps

\* Who has the lock draws the next number.
LEMMA NumberKeeps ==
  ASSUME RegistersParameters, RegistersDiscipline, NEW s \in Sessions, NumberEntry(s)
  PROVE  RegistersDiscipline'
<1> DEFINE n == Cardinality(entries) + 1
           e == [at |-> "numbered", new |-> entering[s].new, no |-> n]
<1>1. /\ entering \in [Sessions -> Entering] /\ entering[s].at = "locked" /\ advisory = s
      /\ Cardinality(entries) < MaxEntries
  BY DEF NumberEntry, RegistersDiscipline, RegistersTypeOK, Entering, AtTheRegister
<1>2. n \in 1..MaxEntries
  BY <1>1, RegistersTypes
<1>3. e \in Entering /\ e.at = "numbered" /\ e.no = n
  <2> HIDE DEF n
  <2> QED BY <1>1, <1>2 DEF Entering
<1>4. entering' = [entering EXCEPT ![s] = e]
      /\ UNCHANGED <<row, entries, advisory, refused, statement, refusal, incident>>
  BY DEF NumberEntry, Others
<1> HIDE DEF e
<1>5. entering' \in [Sessions -> Entering] /\ entering'[s] = e
      /\ \A t \in Sessions \ {s} : entering'[t] = entering[t]
  BY <1>1, <1>3, <1>4
<1>6. RegistersTypeOK'
  BY <1>4, <1>5 DEF RegistersDiscipline, RegistersTypeOK, Entering
<1>7. ASSUME NEW t \in Sessions
      PROVE  /\ AtTheRegister(t)' => advisory' = t
             /\ entering'[t].at = "numbered" => entering'[t].no = Cardinality(entries') + 1
  <2>1. CASE t = s
    BY <1>1, <1>3, <1>4, <1>5, <2>1 DEF AtTheRegister
  <2>2. CASE t # s
    BY <1>4, <1>5, <2>2 DEF RegistersDiscipline, AtTheRegister
  <2> QED BY <2>1, <2>2
<1> QED BY <1>4, <1>6, <1>7 DEF RegistersDiscipline, EntriesNeverCollide

\* The number is taken by nobody else: the entry is the next.
LEMMA CommitEntryInTurn ==
  ASSUME RegistersParameters, RegistersDiscipline, NEW s \in Sessions, CommitEntry(s)
  PROVE  RegistersDiscipline'
<1> DEFINE n == Cardinality(entries)
<1>1. /\ entering \in [Sessions -> Entering] /\ entering[s].at = "numbered" /\ advisory = s
      /\ entering[s].no = n + 1 /\ entering[s] \in Entering
  BY DEF CommitEntry, RegistersDiscipline, RegistersTypeOK, Entering, AtTheRegister
<1>2. n \in Nat /\ entries = 1..n /\ IsFiniteSet(entries)
  BY RegistersTypes
<1>3. n + 1 \notin entries /\ n + 1 \in 1..MaxEntries
  <2>1. n + 1 \notin 1..n
    BY <1>2
  <2>2. entering[s].no \in 1..MaxEntries
    BY <1>1 DEF Entering
  <2> QED BY <1>1, <1>2, <2>1, <2>2
<1>4. /\ row' = TRUE /\ entries' = entries \cup {n + 1} /\ refused' = refused /\ advisory' = "free"
      /\ entering' = [entering EXCEPT ![s] = NotEntering] /\ UNCHANGED <<statement, refusal, incident>>
  BY <1>1, <1>3 DEF CommitEntry, Others
<1>5. Cardinality(entries') = n + 1 /\ entries' = 1..(n + 1)
  <2>1. Cardinality(entries \cup {n + 1}) = n + 1
    BY <1>2, <1>3, FS_AddElement
  <2>2. 1..(n + 1) = (1..n) \cup {n + 1}
    BY <1>2
  <2> QED BY <1>2, <1>4, <2>1, <2>2
<1>6. NotEntering \in Entering /\ NotEntering.at = "idle"
  BY DEF NotEntering, Entering
<1>7. entering' \in [Sessions -> Entering] /\ entering'[s] = NotEntering
      /\ \A t \in Sessions \ {s} : entering'[t] = entering[t]
  BY <1>1, <1>4, <1>6
<1>8. RegistersTypeOK'
  BY <1>3, <1>4, <1>7 DEF RegistersDiscipline, RegistersTypeOK, Entering
<1>9. EntriesNeverCollide'
  BY <1>4, <1>5 DEF RegistersDiscipline, EntriesNeverCollide
<1>10. \A t \in Sessions : ~AtTheRegister(t)' /\ entering'[t].at # "numbered"
  <2>1. \A t \in Sessions \ {s} : ~AtTheRegister(t)
    BY <1>1 DEF RegistersDiscipline
  <2> QED BY <1>6, <1>7, <2>1 DEF AtTheRegister
<1> QED BY <1>4, <1>8, <1>9, <1>10 DEF RegistersDiscipline

\* The other steps of a session, and what is not about the register at all.
LEMMA OtherRegisterStepsKeep ==
  ASSUME RegistersParameters, RegistersDiscipline,
         \/ \E s \in Sessions : FindRegister(s) \/ RowTaken(s) \/ AbortEntry(s)
         \/ \E x \in Statements : \/ GenerateClientMoneyStatement(x)
                                  \/ \E ch \in {"email", "print", "portal"} : IssueClientMoneyStatement(x, ch)
         \/ \E r \in Refusals : PromoteRefusalToIncident(r) \/ RectifyIncident(r) \/ ReportIncident(r)
         \/ UNCHANGED registersVars
  PROVE  RegistersDiscipline'
<1>0. NotEntering \in Entering /\ NotEntering.at = "idle" /\ row \in BOOLEAN
      /\ advisory \in Sessions \cup {"free"}
  BY DEF NotEntering, Entering, RegistersDiscipline, RegistersTypeOK
<1>1. ASSUME NEW s \in Sessions, FindRegister(s) PROVE RegistersDiscipline'
  <2> DEFINE e == [at |-> "found", new |-> ~row]
  <2>1. e \in Entering /\ e.at = "found"
    BY <1>0 DEF Entering
  <2>2. entering' = [entering EXCEPT ![s] = e]
        /\ UNCHANGED <<row, entries, advisory, refused, statement, refusal, incident>>
    BY <1>1 DEF FindRegister, Others
  <2> HIDE DEF e
  <2> QED BY <1>0, <2>1, <2>2, SessionKeeps
<1>2. ASSUME NEW s \in Sessions, RowTaken(s) PROVE RegistersDiscipline'
  <2>1. entering' = [entering EXCEPT ![s] = NotEntering]
        /\ UNCHANGED <<row, entries, advisory, refused, statement, refusal, incident>>
    BY <1>2 DEF RowTaken, Others
  <2> QED BY <1>0, <2>1, SessionKeeps
<1>3. ASSUME NEW s \in Sessions, AbortEntry(s) PROVE RegistersDiscipline'
  <2>1. entering' = [entering EXCEPT ![s] = NotEntering]
        /\ UNCHANGED <<row, entries, refused, statement, refusal, incident>>
        /\ advisory' = IF advisory = s THEN "free" ELSE advisory
    BY <1>3 DEF AbortEntry, Others
  <2>2. advisory' \in Sessions \cup {"free"} /\ \A t \in Sessions \ {s} : advisory = t => advisory' = t
    BY <1>0, <2>1
  <2> QED BY <1>0, <2>1, <2>2, SessionKeeps
<1>4. ASSUME NEW x \in Statements, GenerateClientMoneyStatement(x) PROVE RegistersDiscipline'
  <2>1. /\ statement \in [Statements -> [st : {"none", "generated", "email", "print", "portal"}, sent : Nat]]
        /\ statement' = [statement EXCEPT ![x].st = "generated"]
    BY <1>4 DEF GenerateClientMoneyStatement, RegistersDiscipline, RegistersTypeOK
  <2>2. statement' = [statement EXCEPT ![x] = [@ EXCEPT !.st = "generated"]]
    BY <2>1
  <2>3. statement' \in [Statements -> [st : {"none", "generated", "email", "print", "portal"}, sent : Nat]]
    BY <2>1, <2>2
  <2>4. UNCHANGED <<row, entries, advisory, refused, entering, refusal, incident>>
    BY <1>4 DEF GenerateClientMoneyStatement, Registers
  <2> QED BY <2>3, <2>4 DEF RegistersDiscipline, RegistersTypeOK, EntriesNeverCollide, AtTheRegister
<1>5. ASSUME NEW x \in Statements, NEW ch \in {"email", "print", "portal"}, IssueClientMoneyStatement(x, ch)
      PROVE  RegistersDiscipline'
  BY <1>5 DEF IssueClientMoneyStatement, Registers, RegistersDiscipline, RegistersTypeOK,
     EntriesNeverCollide, AtTheRegister
<1>6. ASSUME NEW r \in Refusals, PromoteRefusalToIncident(r) PROVE RegistersDiscipline'
  BY <1>6 DEF PromoteRefusalToIncident, Registers, RegistersDiscipline, RegistersTypeOK,
     EntriesNeverCollide, AtTheRegister
<1>7. ASSUME NEW r \in Refusals, RectifyIncident(r) \/ ReportIncident(r) PROVE RegistersDiscipline'
  BY <1>7 DEF RectifyIncident, ReportIncident, Registers, RegistersDiscipline, RegistersTypeOK,
     EntriesNeverCollide, AtTheRegister
<1>8. ASSUME UNCHANGED registersVars PROVE RegistersDiscipline'
  BY <1>8 DEF registersVars, RegistersDiscipline, RegistersTypeOK, EntriesNeverCollide, AtTheRegister
<1> QED BY <1>1, <1>2, <1>3, <1>4, <1>5, <1>6, <1>7, <1>8

\* The entries of a register are dense and none is refused for a number another took, however
\* many sessions enter at once, for the first time or not, and whichever of them die
\* (statutory.ts: lock 4203).  The invariant that it needs.
THEOREM RegistersStayInStep == RegistersParameters /\ RegistersSpec => []RegistersDiscipline
<1>1. RegistersParameters /\ RegistersInit => RegistersDiscipline
  <2> SUFFICES ASSUME RegistersParameters, RegistersInit PROVE RegistersDiscipline
    OBVIOUS
  <2>1. entries = {} /\ Cardinality(entries) = 0 /\ entries = 1..0
    BY FS_EmptySet DEF RegistersInit
  <2>2. RegistersTypeOK /\ \A s \in Sessions : entering[s].at = "idle"
    BY DEF RegistersInit, RegistersTypeOK, NotEntering
  <2> QED BY <2>1, <2>2 DEF RegistersInit, RegistersDiscipline, EntriesNeverCollide, AtTheRegister
<1>2. RegistersParameters /\ RegistersDiscipline /\ [RegistersNext]_registersVars => RegistersDiscipline'
  BY TakeLockKeeps, NumberKeeps, CommitEntryInTurn, OtherRegisterStepsKeep DEF RegistersNext
<1>3. ASSUME RegistersParameters PROVE RegistersSpec => []RegistersDiscipline
  <2>1. RegistersInit => RegistersDiscipline
    BY <1>1, <1>3
  <2>2. RegistersDiscipline /\ [RegistersNext]_registersVars => RegistersDiscipline'
    BY <1>2, <1>3
  <2> QED BY <2>1, <2>2, PTL DEF RegistersSpec
<1> QED BY <1>3

\* The entries of a register are dense and none is refused for a number another took.
THEOREM RegistersAreDense == RegistersParameters /\ RegistersSpec => []EntriesNeverCollide
<1>1. RegistersDiscipline => EntriesNeverCollide
  BY DEF RegistersDiscipline
<1> QED BY <1>1, RegistersStayInStep, PTL

\* No step sends a statement again or by another channel, makes a second incident of a
\* refusal, or moves an incident that is reported (statutory.ts: the rows' own locks).
THEOREM StatementsGoOutOnce == RegistersParameters /\ RegistersSpec => SentAndReportedOnce
<1>1. RegistersDiscipline /\ [RegistersNext]_registersVars => [SendsAndReportsOnce]_registersVars
  <2> SUFFICES ASSUME RegistersDiscipline, RegistersNext PROVE SendsAndReportsOnce
    OBVIOUS
  <2>1. /\ statement \in [Statements -> [st : {"none", "generated", "email", "print", "portal"}, sent : Nat]]
        /\ refusal \in [Refusals -> Nat] /\ \A r \in Refusals : refusal[r] <= 1 /\ (refusal[r] = 0 => incident[r] = "none")
        /\ incident \in [Refusals -> {"none", "open", "rectified", "reported"}]
    BY DEF RegistersDiscipline, RegistersTypeOK
  <2>2. CASE UNCHANGED Others
    BY <2>1, <2>2 DEF Others, SendsAndReportsOnce
  <2>3. ASSUME NEW x \in Statements, GenerateClientMoneyStatement(x) PROVE SendsAndReportsOnce
    BY <2>1, <2>3 DEF GenerateClientMoneyStatement, SendsAndReportsOnce
  <2>4. ASSUME NEW x \in Statements, NEW ch \in {"email", "print", "portal"}, IssueClientMoneyStatement(x, ch)
        PROVE  SendsAndReportsOnce
    BY <2>1, <2>4 DEF IssueClientMoneyStatement, NotYetIssued, SendsAndReportsOnce
  <2>5. ASSUME NEW r \in Refusals, PromoteRefusalToIncident(r) \/ RectifyIncident(r) \/ ReportIncident(r)
        PROVE  SendsAndReportsOnce
    <3>1. statement' = statement
      BY <2>5 DEF PromoteRefusalToIncident, RectifyIncident, ReportIncident
    <3>2. ASSUME NEW q \in Refusals PROVE refusal'[q] <= 1 /\ (incident[q] = "reported" => incident'[q] = "reported")
      <4>1. CASE PromoteRefusalToIncident(r)
        <5>1. refusal[r] = 0 /\ incident[r] # "reported"
              /\ refusal' = [refusal EXCEPT ![r] = @ + 1] /\ incident' = [incident EXCEPT ![r] = "open"]
          BY <2>1, <4>1 DEF PromoteRefusalToIncident
        <5> QED BY <2>1, <5>1
      <4>2. CASE RectifyIncident(r)
        BY <2>1, <4>2 DEF RectifyIncident
      <4>3. CASE ReportIncident(r)
        BY <2>1, <4>3 DEF ReportIncident
      <4> QED BY <2>5, <4>1, <4>2, <4>3
    <3> QED BY <3>1, <3>2 DEF SendsAndReportsOnce
  <2>6. ASSUME NEW s \in Sessions, \/ FindRegister(s) \/ TakeLock(s) \/ RowTaken(s)
                                   \/ NumberEntry(s) \/ CommitEntry(s) \/ AbortEntry(s)
        PROVE  UNCHANGED Others
    BY <2>6 DEF FindRegister, TakeLock, RowTaken, NumberEntry, CommitEntry, AbortEntry
  <2> QED BY <2>2, <2>3, <2>4, <2>5, <2>6 DEF RegistersNext
<1> QED BY <1>1, RegistersStayInStep, PTL DEF RegistersSpec, SentAndReportedOnce
-----------------------------------------------------------------------------
(* Dormant client money: one live case a ledger, one remittance a case. *)

LedgerRow == [bal : {0, 1}, open : BOOLEAN, quiet : BOOLEAN]
CaseRow == [st : {"none", "open", "contact_in_progress", "resolved", "remitted"},
            ledger : Ledgers \cup {Nil}, attempts : Nat]
PayRow == [st : {"none", "authorised", "executed", "blocked"},
           ledger : Ledgers \cup {Nil}, case : Cases \cup {Nil}]

\* What the rows are, apart.
LEMMA DormantTypes ==
  ASSUME DormantDiscipline
  PROVE  /\ ledger \in [Ledgers -> LedgerRow] /\ dcase \in [Cases -> CaseRow]
         /\ pay \in [Payments -> PayRow]
         /\ register \subseteq [case : Cases, pay : Payments] /\ listed \subseteq Ledgers
BY DEF DormantDiscipline, DormantTypeOK, LedgerRow, CaseRow, PayRow

\* A ledger moves, closes or is listed.
LEMMA LedgerStepKeeps ==
  ASSUME DormantDiscipline, ledger' \in [Ledgers -> LedgerRow], listed' \subseteq Ledgers,
         UNCHANGED <<dcase, pay, register>>
  PROVE  DormantDiscipline'
<1>1. DormantTypeOK'
  BY DormantTypes DEF DormantTypeOK, LedgerRow, CaseRow, PayRow
<1> QED BY <1>1 DEF DormantDiscipline, Live, OnTheRegister

\* A case that is not remitted changes and is not remitted; if it is live, it is alone.
LEMMA CaseStepKeeps ==
  ASSUME DormantDiscipline, NEW c \in Cases, NEW e \in CaseRow, dcase' = [dcase EXCEPT ![c] = e],
         dcase[c].st # "remitted", e.st # "remitted",
         e.st \in {"open", "contact_in_progress"} =>
           \A d \in Cases \ {c} : Live(d) => dcase[d].ledger # e.ledger,
         listed' \subseteq Ledgers, UNCHANGED <<ledger, pay, register>>
  PROVE  DormantDiscipline'
<1>1. dcase' \in [Cases -> CaseRow] /\ dcase'[c] = e /\ \A d \in Cases \ {c} : dcase'[d] = dcase[d]
  BY DormantTypes
<1>2. DormantTypeOK'
  BY <1>1, DormantTypes DEF DormantTypeOK, LedgerRow, CaseRow, PayRow
<1>3. ~OnTheRegister(c)
  BY DEF DormantDiscipline
<1>4. \A r \in register : r.case \in Cases \ {c}
  BY <1>3, DormantTypes DEF OnTheRegister
<1>5. \A d, f \in Cases : (Live(d) /\ Live(f) /\ dcase[d].ledger = dcase[f].ledger => d = f)'
  <2>1. Live(c)' => e.st \in {"open", "contact_in_progress"}
    BY <1>1 DEF Live
  <2>2. \A d \in Cases \ {c} : Live(d)' => Live(d)
    BY <1>1 DEF Live
  <2> QED BY <1>1, <2>1, <2>2 DEF DormantDiscipline
<1>6. \A r \in register : dcase'[r.case].attempts >= MinAttempts
  BY <1>1, <1>4 DEF DormantDiscipline
<1>7. \A d \in Cases : dcase'[d].st = "remitted" <=> OnTheRegister(d)
  BY <1>1, <1>3 DEF DormantDiscipline
<1> QED BY <1>2, <1>5, <1>6, <1>7 DEF DormantDiscipline, OnTheRegister

\* A payment that is not executed changes, past the case and the register.
LEMMA PayStepKeeps ==
  ASSUME DormantDiscipline, NEW p \in Payments, NEW e \in PayRow, pay' = [pay EXCEPT ![p] = e],
         pay[p].st # "executed", e.ledger \in Ledgers, e.case \in Cases,
         ledger' \in [Ledgers -> LedgerRow], UNCHANGED <<dcase, register, listed>>
  PROVE  DormantDiscipline'
<1>1. pay' \in [Payments -> PayRow] /\ pay'[p] = e /\ \A q \in Payments \ {p} : pay'[q] = pay[q]
  BY DormantTypes
<1>2. DormantTypeOK'
  BY <1>1, DormantTypes DEF DormantTypeOK, LedgerRow, CaseRow, PayRow
<1>3. \A r \in register : r.pay \in Payments \ {p}
  BY DormantTypes DEF DormantDiscipline
<1>4. \A q \in Payments : pay'[q].st # "none" => pay'[q].ledger \in Ledgers /\ pay'[q].case \in Cases
  BY <1>1 DEF DormantDiscipline
<1>5. \A r \in register : pay'[r.pay].st = "executed" /\ pay'[r.pay].case = r.case
  BY <1>1, <1>3 DEF DormantDiscipline
<1> QED BY <1>2, <1>4, <1>5 DEF DormantDiscipline, Live, OnTheRegister

\* A remittance is executed: its case is live, so it has no row of the register yet.
LEMMA RemittanceKeeps ==
  ASSUME DormantDiscipline, NEW p \in Payments, pay[p].st = "authorised", MayRemit(pay[p].case),
         Paid(p), register' = register \cup {[case |-> pay[p].case, pay |-> p]},
         dcase' = [dcase EXCEPT ![pay[p].case].st = "remitted"], UNCHANGED listed
  PROVE  DormantDiscipline'
<1>0. PICK c \in Cases, l \in Ledgers : c = pay[p].case /\ l = pay[p].ledger
  BY DEF DormantDiscipline
<1> DEFINE n == [case |-> c, pay |-> p]
<1>1. /\ ledger \in [Ledgers -> LedgerRow] /\ dcase \in [Cases -> CaseRow]
      /\ pay \in [Payments -> PayRow]
  BY DormantTypes
<1>2. n \in [case : Cases, pay : Payments] /\ n.case = c /\ n.pay = p
  BY <1>1
<1>3. /\ ledger' = [ledger EXCEPT ![l] = [@ EXCEPT !.bal = 0, !.quiet = FALSE]]
      /\ pay' = [pay EXCEPT ![p] = [@ EXCEPT !.st = "executed"]]
      /\ dcase' = [dcase EXCEPT ![c] = [@ EXCEPT !.st = "remitted"]]
  BY <1>0, <1>1 DEF Paid
<1>4. ledger' \in [Ledgers -> LedgerRow]
  <2>1. ledger[l] \in LedgerRow
    BY <1>1
  <2>2. [ledger[l] EXCEPT !.bal = 0, !.quiet = FALSE] \in LedgerRow
    BY <2>1 DEF LedgerRow
  <2> QED BY <1>1, <1>3, <2>2
<1>5. /\ pay' \in [Payments -> PayRow] /\ pay'[p].st = "executed" /\ pay'[p].case = c /\ pay'[p].ledger = l
      /\ \A q \in Payments \ {p} : pay'[q] = pay[q]
  <2>1. [pay[p] EXCEPT !.st = "executed"] \in PayRow
    BY <1>1 DEF PayRow
  <2>2. /\ [pay[p] EXCEPT !.st = "executed"].st = "executed"
        /\ [pay[p] EXCEPT !.st = "executed"].case = c /\ [pay[p] EXCEPT !.st = "executed"].ledger = l
    BY <1>0, <1>1 DEF PayRow
  <2> QED BY <1>1, <1>3, <2>1, <2>2
<1>6. /\ dcase' \in [Cases -> CaseRow] /\ dcase'[c].st = "remitted" /\ dcase'[c].attempts = dcase[c].attempts
      /\ \A d \in Cases \ {c} : dcase'[d] = dcase[d]
  <2>1. [dcase[c] EXCEPT !.st = "remitted"] \in CaseRow
    BY <1>1 DEF CaseRow
  <2>2. /\ [dcase[c] EXCEPT !.st = "remitted"].st = "remitted"
        /\ [dcase[c] EXCEPT !.st = "remitted"].attempts = dcase[c].attempts
    BY <1>1 DEF CaseRow
  <2> QED BY <1>1, <1>3, <2>1, <2>2
<1>7. DormantTypeOK'
  BY <1>2, <1>4, <1>5, <1>6, DormantTypes DEF DormantTypeOK, LedgerRow, CaseRow, PayRow
<1>8. ~OnTheRegister(c) /\ dcase[c].attempts >= MinAttempts
  BY <1>0 DEF DormantDiscipline, MayRemit, Live
<1>9. \A r \in register : r.case \in Cases \ {c} /\ r.pay \in Payments \ {p}
  BY <1>8, DormantTypes DEF DormantDiscipline, OnTheRegister
<1>10. register' = register \cup {n}
  BY <1>0
<1> HIDE DEF n
<1>11. \A q \in Payments : pay'[q].st # "none" => pay'[q].ledger \in Ledgers /\ pay'[q].case \in Cases
  BY <1>1, <1>5 DEF DormantDiscipline
<1>12. \A d, f \in Cases : (Live(d) /\ Live(f) /\ dcase[d].ledger = dcase[f].ledger => d = f)'
  <2>1. ~Live(c)' /\ \A d \in Cases \ {c} : Live(d)' => Live(d)
    BY <1>6 DEF Live
  <2> QED BY <1>6, <2>1 DEF DormantDiscipline
<1>13. \A r, q \in register' : r.case = q.case => r = q
  BY <1>2, <1>9, <1>10 DEF DormantDiscipline
<1>14. \A r \in register' : /\ pay'[r.pay].st = "executed" /\ pay'[r.pay].case = r.case
                            /\ dcase'[r.case].attempts >= MinAttempts
  BY <1>2, <1>5, <1>6, <1>8, <1>9, <1>10 DEF DormantDiscipline
<1>15. \A d \in Cases : dcase'[d].st = "remitted" <=> OnTheRegister(d)'
  <2>1. OnTheRegister(c)'
    BY <1>2, <1>10 DEF OnTheRegister
  <2>2. ASSUME NEW d \in Cases \ {c} PROVE OnTheRegister(d)' <=> OnTheRegister(d)
    BY <1>2, <1>10 DEF OnTheRegister
  <2>3. \A d \in Cases : dcase[d].st = "remitted" <=> OnTheRegister(d)
    BY DEF DormantDiscipline
  <2> QED BY <1>6, <2>1, <2>2, <2>3
<1> QED BY <1>7, <1>11, <1>12, <1>13, <1>14, <1>15 DEF DormantDiscipline

\* What happens to ledgers and to the list of the job.
LEMMA LedgersGoOn ==
  ASSUME DormantDiscipline,
         \/ ListDormant \/ UNCHANGED dormantVars
         \/ \E l \in Ledgers : Receive(l) \/ MonthsPass(l) \/ PayOut(l) \/ CloseLedger(l)
  PROVE  DormantDiscipline'
<1>1. CASE ListDormant \/ UNCHANGED dormantVars
  BY <1>1, DormantTypes, LedgerStepKeeps DEF ListDormant, dormantVars
<1>2. ASSUME NEW l \in Ledgers, Receive(l) \/ MonthsPass(l) \/ PayOut(l) \/ CloseLedger(l)
      PROVE  DormantDiscipline'
  <2>1. ledger \in [Ledgers -> LedgerRow] /\ ledger[l] \in LedgerRow
    BY DormantTypes
  <2>2. PICK e \in LedgerRow : ledger' = [ledger EXCEPT ![l] = e]
    <3>1. CASE Receive(l)
      <4>1. ledger' = [ledger EXCEPT ![l] = [@ EXCEPT !.bal = 1, !.quiet = FALSE]]
        BY <2>1, <3>1 DEF Receive
      <4> QED BY <2>1, <4>1 DEF LedgerRow
    <3>2. CASE MonthsPass(l)
      <4>1. ledger' = [ledger EXCEPT ![l] = [@ EXCEPT !.quiet = TRUE]]
        BY <2>1, <3>2 DEF MonthsPass
      <4> QED BY <2>1, <4>1 DEF LedgerRow
    <3>3. CASE PayOut(l)
      <4>1. ledger' = [ledger EXCEPT ![l] = [@ EXCEPT !.bal = 0, !.quiet = FALSE]]
        BY <2>1, <3>3 DEF PayOut
      <4> QED BY <2>1, <4>1 DEF LedgerRow
    <3>4. CASE CloseLedger(l)
      <4>1. ledger' = [ledger EXCEPT ![l] = [@ EXCEPT !.open = FALSE]]
        BY <2>1, <3>4 DEF CloseLedger
      <4> QED BY <2>1, <4>1 DEF LedgerRow
    <3> QED BY <1>2, <3>1, <3>2, <3>3, <3>4
  <2>3. UNCHANGED <<dcase, pay, register, listed>>
    BY <1>2 DEF Receive, MonthsPass, PayOut, CloseLedger
  <2>4. ledger' \in [Ledgers -> LedgerRow]
    BY <2>1, <2>2
  <2> QED BY <2>3, <2>4, DormantTypes, LedgerStepKeeps
<1> QED BY <1>1, <1>2

\* What the job and staff do with a case.
LEMMA CasesGoOn ==
  ASSUME DormantDiscipline, NEW c \in Cases,
         RecordContactAttempt(c) \/ ResolveDormantCase(c) \/ \E l \in Ledgers : OpenCase(l, c)
  PROVE  DormantDiscipline'
<1>1. dcase \in [Cases -> CaseRow] /\ dcase[c] \in CaseRow
  BY DormantTypes
<1>2. ASSUME NEW l \in Ledgers, OpenCase(l, c) PROVE DormantDiscipline'
  <2>1. listed' \subseteq Ledgers /\ UNCHANGED <<ledger, pay, register>> /\ dcase[c].st = "none"
    BY <1>2, DormantTypes DEF OpenCase
  <2>2. CASE NoLiveCase(l)
    <3> DEFINE e == [st |-> "open", ledger |-> l, attempts |-> 0]
    <3>1. e \in CaseRow /\ e.st = "open" /\ e.ledger = l /\ dcase' = [dcase EXCEPT ![c] = e]
      BY <1>2, <2>2 DEF OpenCase, CaseRow
    <3>2. \A d \in Cases : Live(d) => dcase[d].ledger # l
      BY <2>2 DEF NoLiveCase, LiveOn
    <3> HIDE DEF e
    <3> QED BY <2>1, <3>1, <3>2, CaseStepKeeps
  <2>3. CASE ~NoLiveCase(l)
    BY <1>2, <2>1, <2>3, DormantTypes, LedgerStepKeeps DEF OpenCase
  <2> QED BY <2>2, <2>3
<1>3. CASE RecordContactAttempt(c)
  <2> DEFINE n == dcase[c].attempts + 1
             e == [dcase[c] EXCEPT !.attempts = n, !.st = "contact_in_progress"]
  <2>1. dcase' = [dcase EXCEPT ![c] = e]
    BY <1>1, <1>3 DEF RecordContactAttempt
  <2>0. n \in Nat
    BY <1>1 DEF CaseRow
  <2>2. e \in CaseRow /\ e.st = "contact_in_progress" /\ e.ledger = dcase[c].ledger
    <3> HIDE DEF n
    <3> QED BY <1>1, <2>0 DEF CaseRow
  <2>3. Live(c) /\ dcase[c].st # "remitted" /\ UNCHANGED <<ledger, pay, register, listed>>
    BY <1>3 DEF RecordContactAttempt, Live
  <2>4. \A d \in Cases \ {c} : Live(d) => dcase[d].ledger # e.ledger
    BY <2>2, <2>3 DEF DormantDiscipline
  <2> HIDE DEF e
  <2> QED BY <2>1, <2>2, <2>3, <2>4, DormantTypes, CaseStepKeeps
<1>4. CASE ResolveDormantCase(c)
  <2> DEFINE e == [dcase[c] EXCEPT !.st = "resolved"]
  <2>1. dcase' = [dcase EXCEPT ![c] = e]
    BY <1>1, <1>4 DEF ResolveDormantCase
  <2>2. e \in CaseRow /\ e.st = "resolved"
    BY <1>1 DEF CaseRow
  <2>3. dcase[c].st # "remitted" /\ UNCHANGED <<ledger, pay, register, listed>>
    BY <1>4 DEF ResolveDormantCase, Live
  <2> HIDE DEF e
  <2> QED BY <2>1, <2>2, <2>3, DormantTypes, CaseStepKeeps
<1> QED BY <1>2, <1>3, <1>4

\* What happens to a payment, by either of the doors that execute it.
LEMMA PaymentsGoOn ==
  ASSUME DormantDiscipline, NEW p \in Payments,
         \/ \E l \in Ledgers, c \in Cases : AuthoriseRemittance(p, l, c)
         \/ ExecuteRemittance(p) \/ ExecuteMoneyPayment(p) \/ ResubmitBlockedPayment(p)
  PROVE  DormantDiscipline'
<1>1. pay \in [Payments -> PayRow] /\ pay[p] \in PayRow /\ ledger \in [Ledgers -> LedgerRow]
  BY DormantTypes
<1>2. ASSUME NEW l \in Ledgers, NEW c \in Cases, AuthoriseRemittance(p, l, c) PROVE DormantDiscipline'
  <2> DEFINE e == [st |-> "authorised", ledger |-> l, case |-> c]
  <2>1. e \in PayRow /\ e.ledger = l /\ e.case = c /\ pay' = [pay EXCEPT ![p] = e] /\ pay[p].st = "none"
        /\ UNCHANGED <<ledger, dcase, register, listed>>
    BY <1>2 DEF AuthoriseRemittance, PayRow
  <2> HIDE DEF e
  <2> QED BY <1>1, <2>1, PayStepKeeps
<1>3. ASSUME NEW st \in {"authorised", "executed", "blocked"}, pay' = [pay EXCEPT ![p].st = st],
             pay[p].st \in {"authorised", "blocked"}, ledger' \in [Ledgers -> LedgerRow],
             UNCHANGED <<dcase, register, listed>>
      PROVE  DormantDiscipline'
  <2> DEFINE e == [pay[p] EXCEPT !.st = st]
  <2>1. pay' = [pay EXCEPT ![p] = e]
    BY <1>1, <1>3
  <2>2. e \in PayRow /\ e.ledger = pay[p].ledger /\ e.case = pay[p].case
    BY <1>1, <1>3 DEF PayRow
  <2>3. e.ledger \in Ledgers /\ e.case \in Cases /\ pay[p].st # "executed"
    BY <1>3, <2>2 DEF DormantDiscipline
  <2> HIDE DEF e
  <2> QED BY <1>3, <2>1, <2>2, <2>3, PayStepKeeps
<1>4. CASE ResubmitBlockedPayment(p)
  BY <1>1, <1>3, <1>4 DEF ResubmitBlockedPayment
<1>5. CASE pay[p].st = "authorised" /\ Blocks(p)
  BY <1>1, <1>3, <1>5 DEF Blocks
<1>6. CASE pay[p].st = "authorised" /\ Paid(p) /\ UNCHANGED <<dcase, register, listed>>
  <2>1. pay[p].ledger \in Ledgers
    BY <1>6 DEF DormantDiscipline
  <2>2. ledger' = [ledger EXCEPT ![pay[p].ledger] = [@ EXCEPT !.bal = 0, !.quiet = FALSE]]
    BY <1>1, <1>6, <2>1 DEF Paid
  <2>3. ledger' \in [Ledgers -> LedgerRow]
    BY <1>1, <2>1, <2>2 DEF LedgerRow
  <2> QED BY <1>3, <1>6, <2>3 DEF Paid
<1>7. CASE ExecuteMoneyPayment(p)
  BY <1>5, <1>6, <1>7 DEF ExecuteMoneyPayment
<1>8. CASE ExecuteRemittance(p)
  BY <1>5, <1>8, RemittanceKeeps DEF ExecuteRemittance
<1> QED BY <1>2, <1>4, <1>7, <1>8

\* However many runs of the detection list a ledger, and by whichever door a remittance is
\* paid, a ledger has one live case and a case one row of the permanent register, of a payment
\* that names it (dormancy.ts, dormant_case_one_live).  The invariant that it needs.
THEOREM DormancyStaysInStep == DormantParameters /\ DormantSpec => []DormantDiscipline
<1>1. DormantParameters /\ DormantInit => DormantDiscipline
  BY DEF DormantInit, DormantDiscipline, DormantTypeOK, Live, OnTheRegister
<1>2. DormantDiscipline /\ [DormantNext]_dormantVars => DormantDiscipline'
  BY LedgersGoOn, CasesGoOn, PaymentsGoOn DEF DormantNext
<1>3. ASSUME DormantParameters PROVE DormantSpec => []DormantDiscipline
  <2>1. DormantInit => DormantDiscipline
    BY <1>1, <1>3
  <2> QED BY <1>2, <2>1, PTL DEF DormantSpec
<1> QED BY <1>3

\* A ledger has one live case, and a case is remitted by one executed payment, after its
\* contact attempts.
THEOREM RemittedCasesAreRegistered ==
  DormantParameters /\ DormantSpec => [](OneLiveCase /\ RemittedOnce)
<1>1. ASSUME DormantDiscipline PROVE OneLiveCase
  <2> SUFFICES ASSUME NEW l \in Ledgers PROVE Cardinality(LiveOn(l)) <= 1
    BY DEF OneLiveCase
  <2>1. CASE LiveOn(l) = {}
    BY <2>1, FS_EmptySet
  <2>2. ASSUME NEW c \in LiveOn(l) PROVE Cardinality(LiveOn(l)) <= 1
    <3>1. LiveOn(l) = {c}
      BY <1>1, <2>2 DEF LiveOn, DormantDiscipline
    <3> QED BY <3>1, FS_Singleton
  <2> QED BY <2>1, <2>2
<1>2. ASSUME DormantDiscipline PROVE RemittedOnce
  <2>1. ASSUME NEW c \in Cases
        PROVE  LET itsEntries == {r \in register : r.case = c}
               IN /\ Cardinality(itsEntries) = IF dcase[c].st = "remitted" THEN 1 ELSE 0
                  /\ itsEntries # {} => dcase[c].attempts >= MinAttempts
    <3> DEFINE itsEntries == {r \in register : r.case = c}
    <3>1. CASE dcase[c].st = "remitted"
      <4>1. PICK r \in register : r.case = c
        BY <1>2, <3>1 DEF DormantDiscipline, OnTheRegister
      <4>2. itsEntries = {r} /\ dcase[c].attempts >= MinAttempts
        BY <1>2, <4>1 DEF DormantDiscipline
      <4> QED BY <3>1, <4>2, FS_Singleton
    <3>2. CASE dcase[c].st # "remitted"
      <4>1. itsEntries = {}
        BY <1>2, <3>2 DEF DormantDiscipline, OnTheRegister
      <4> QED BY <3>2, <4>1, FS_EmptySet
    <3> QED BY <3>1, <3>2
  <2> QED BY <1>2, <2>1 DEF RemittedOnce, DormantDiscipline
<1> QED BY <1>1, <1>2, DormancyStaysInStep, PTL
-----------------------------------------------------------------------------
(* Instruments: their money comes back once. *)

\* A set changes by one member or not at all.
LEMMA CountMoves ==
  ASSUME NEW S, IsFiniteSet(S), NEW A \in SUBSET S, NEW B \in SUBSET S, NEW x, A \ {x} = B \ {x}
  PROVE  /\ Cardinality(A) \in Nat /\ Cardinality(B) \in Nat
         /\ Cardinality(B) = Cardinality(A) - (IF x \in A THEN 1 ELSE 0) + (IF x \in B THEN 1 ELSE 0)
<1> DEFINE R == A \ {x}
<1>1. IsFiniteSet(A) /\ IsFiniteSet(B) /\ IsFiniteSet(R)
  BY FS_Subset
<1>2. Cardinality(R) \in Nat /\ x \notin R
  BY <1>1, FS_CardinalityType
<1>3. Cardinality(R \cup {x}) = Cardinality(R) + 1
  BY <1>1, <1>2, FS_AddElement
<1>4. A = (IF x \in A THEN R \cup {x} ELSE R) /\ B = IF x \in B THEN R \cup {x} ELSE R
  OBVIOUS
<1> HIDE DEF R
<1>5. Cardinality(A) = Cardinality(R) + (IF x \in A THEN 1 ELSE 0)
  <2>1. CASE x \in A
    BY <1>3, <1>4, <2>1
  <2>2. CASE x \notin A
    BY <1>2, <1>4, <2>2
  <2> QED BY <2>1, <2>2
<1>6. Cardinality(B) = Cardinality(R) + (IF x \in B THEN 1 ELSE 0)
  <2>1. CASE x \in B
    BY <1>3, <1>4, <2>1
  <2>2. CASE x \notin B
    BY <1>2, <1>4, <2>2
  <2> QED BY <2>1, <2>2
<1>7. (IF x \in A THEN 1 ELSE 0) \in {0, 1} /\ (IF x \in B THEN 1 ELSE 0) \in {0, 1}
  OBVIOUS
<1> QED BY <1>2, <1>5, <1>6, <1>7

\* So many times an amount, and once more or less.
LEMMA TimesMoves ==
  ASSUME NEW F \in Nat, NEW n \in Nat, NEW a \in BOOLEAN, NEW b \in BOOLEAN
  PROVE  F * (n - (IF a THEN 1 ELSE 0) + (IF b THEN 1 ELSE 0))
           = F * n - (IF a THEN F ELSE 0) + (IF b THEN F ELSE 0)
<1>1. F * (n - 1) = F * n - F /\ F * (n + 1) = F * n + F /\ F * n \in Nat
  OBVIOUS
<1>2. n - 1 + 1 = n /\ n - 0 + 1 = n + 1 /\ n - 1 + 0 = n - 1 /\ n - 0 + 0 = n
  OBVIOUS
<1>3. CASE a /\ b
  BY <1>1, <1>2, <1>3
<1>4. CASE a /\ ~b
  BY <1>1, <1>2, <1>4
<1>5. CASE ~a /\ b
  BY <1>1, <1>2, <1>5
<1>6. CASE ~a /\ ~b
  BY <1>1, <1>2, <1>6
<1> QED BY <1>3, <1>4, <1>5, <1>6

\* An instrument's row, and what it says of the money: it moved and stands, or a part of
\* it was honoured.
InstrumentRow == [st : States, rev : {"none", "plain", "cancel", "dishonour"},
                  by : All \cup {None}, replaces : All \cup {None}, honoured : {0, Face \div 2}]
StandsIn(e) == e.st # "none" /\ e.rev = "none"
PartIn(e) == e.honoured > 0
MoneyIn(i, e) ==
  IF i \in Outbound THEN IF StandsIn(e) THEN -Face ELSE 0
  ELSE (IF StandsIn(e) THEN Face ELSE 0) + (IF PartIn(e) THEN Face \div 2 ELSE 0)
Changed(e, st, rev, h) == [e EXCEPT !.st = st, !.rev = rev, !.honoured = h]

\* What the row of an instrument may say.
RowFits(i, e) ==
  /\ i \in Inbound => e.st \notin {"created", "stale"}
  /\ e.st = "none" => e.rev = "none"
  /\ e.honoured > 0 => i \in Inbound /\ e.rev = "dishonour"
  /\ e.st \in {"cancelled", "replaced"} <=> e.rev = "cancel"
  /\ e.st = "dishonoured" <=> e.rev = "dishonour"

\* What the ledger holds is what the standing instruments moved, and the parts honoured.
StandingIn(S) == {i \in S : inst[i].st # "none" /\ inst[i].rev = "none"}
PartsHonoured == {i \in Inbound : inst[i].honoured > 0}
MoneyStands ==
  bal + Face * Cardinality(StandingIn(Outbound))
    = Face * Cardinality(StandingIn(Inbound)) + (Face \div 2) * Cardinality(PartsHonoured)

\* The discipline in these words, before a step and after it.
LEMMA InstrumentDisciplineIs ==
  /\ InstrumentDiscipline <=> InstrumentTypeOK /\ (\A i \in All : RowFits(i, inst[i])) /\ MoneyStands
  /\ InstrumentDiscipline' <=> InstrumentTypeOK' /\ (\A i \in All : RowFits(i, inst'[i])) /\ MoneyStands'
<1>1. Inbound \subseteq All
  BY DEF All
<1>2. InstrumentDiscipline <=> InstrumentTypeOK /\ (\A i \in All : RowFits(i, inst[i])) /\ MoneyStands
  BY <1>1 DEF InstrumentDiscipline, OneReversalEach, RowFits, MoneyStands, StandingIn, PartsHonoured
<1>3. InstrumentDiscipline' <=> InstrumentTypeOK' /\ (\A i \in All : RowFits(i, inst'[i])) /\ MoneyStands'
  BY <1>1 DEF InstrumentDiscipline, OneReversalEach, RowFits, MoneyStands, StandingIn, PartsHonoured
<1> QED BY <1>2, <1>3

\* What the instruments and the ledger are, apart.
LEMMA InstrumentTypes ==
  ASSUME InstrumentParameters, InstrumentDiscipline
  PROVE  /\ inst \in [All -> InstrumentRow] /\ bal \in Nat /\ swept \subseteq All
         /\ Face \in Nat /\ Face \div 2 \in Nat /\ Face \div 2 <= Face
         /\ \A i \in All : RowFits(i, inst[i])
BY InstrumentDisciplineIs DEF InstrumentDiscipline, InstrumentTypeOK, InstrumentRow, InstrumentParameters

\* A step that leaves alone what rows say of the money leaves the ledger as it is.
LEMMA SameMoneyKeeps ==
  ASSUME InstrumentParameters, InstrumentDiscipline, inst' \in [All -> InstrumentRow],
         swept' \subseteq All, bal' = bal,
         \A i \in All : /\ RowFits(i, inst'[i]) /\ inst'[i].rev = inst[i].rev
                        /\ inst'[i].honoured = inst[i].honoured
                        /\ inst'[i].st = "none" <=> inst[i].st = "none"
  PROVE  InstrumentDiscipline'
<1>1. InstrumentTypeOK'
  BY InstrumentTypes DEF InstrumentTypeOK, InstrumentRow
<1>2. Inbound \subseteq All /\ Outbound \subseteq All
  BY DEF All
<1>3. StandingIn(Outbound)' = StandingIn(Outbound) /\ StandingIn(Inbound)' = StandingIn(Inbound)
  BY <1>2 DEF StandingIn
<1>4. PartsHonoured' = PartsHonoured
  BY <1>2 DEF PartsHonoured
<1>5. MoneyStands'
  BY <1>3, <1>4, InstrumentDisciplineIs DEF MoneyStands
<1> QED BY <1>1, <1>5, InstrumentDisciplineIs

\* A step of one instrument moves what it takes out of standing, or puts there.
LEMMA OneInstrumentKeeps ==
  ASSUME InstrumentParameters, InstrumentDiscipline, NEW i \in All, NEW e \in InstrumentRow,
         inst' = [inst EXCEPT ![i] = e], RowFits(i, e), bal' \in Nat, swept' \subseteq All,
         bal' = bal - MoneyIn(i, inst[i]) + MoneyIn(i, e)
  PROVE  InstrumentDiscipline'
<1> DEFINE O == StandingIn(Outbound)
           I == StandingIn(Inbound)
           H == PartsHonoured
           half == Face \div 2
           was == StandsIn(inst[i])
           is == StandsIn(e)
<1>1. /\ inst' \in [All -> InstrumentRow] /\ inst'[i] = e /\ \A j \in All \ {i} : inst'[j] = inst[j]
      /\ Face \in Nat /\ half \in Nat /\ bal \in Nat
  BY InstrumentTypes
<1>2. InstrumentTypeOK'
  BY <1>1 DEF InstrumentTypeOK, InstrumentRow
<1>3. \A j \in All : RowFits(j, inst'[j])
  BY <1>1, InstrumentTypes
<1>4. /\ IsFiniteSet(Outbound) /\ IsFiniteSet(Inbound) /\ Outbound \cap Inbound = {}
      /\ Inbound \subseteq All /\ Outbound \subseteq All
  BY DEF InstrumentParameters, All
<1>5. bal + Face * Cardinality(O) = Face * Cardinality(I) + half * Cardinality(H)
  BY InstrumentDisciplineIs DEF MoneyStands
<1>6. /\ O \in SUBSET Outbound /\ O' \in SUBSET Outbound /\ I \in SUBSET Inbound /\ I' \in SUBSET Inbound
      /\ H \in SUBSET Inbound /\ H' \in SUBSET Inbound
  BY DEF StandingIn, PartsHonoured
<1>7. O \ {i} = O' \ {i} /\ I \ {i} = I' \ {i} /\ H \ {i} = H' \ {i}
  BY <1>1, <1>4 DEF StandingIn, PartsHonoured
<1>8. /\ Cardinality(O) \in Nat /\ Cardinality(I) \in Nat /\ Cardinality(H) \in Nat
      /\ Cardinality(O') = Cardinality(O) - (IF i \in O THEN 1 ELSE 0) + (IF i \in O' THEN 1 ELSE 0)
      /\ Cardinality(I') = Cardinality(I) - (IF i \in I THEN 1 ELSE 0) + (IF i \in I' THEN 1 ELSE 0)
      /\ Cardinality(H') = Cardinality(H) - (IF i \in H THEN 1 ELSE 0) + (IF i \in H' THEN 1 ELSE 0)
  <2> HIDE DEF O, I, H
  <2> QED BY <1>4, <1>6, <1>7, CountMoves
<1>9. /\ Face * Cardinality(O') = Face * Cardinality(O) - (IF i \in O THEN Face ELSE 0) + (IF i \in O' THEN Face ELSE 0)
      /\ Face * Cardinality(I') = Face * Cardinality(I) - (IF i \in I THEN Face ELSE 0) + (IF i \in I' THEN Face ELSE 0)
      /\ half * Cardinality(H') = half * Cardinality(H) - (IF i \in H THEN half ELSE 0) + (IF i \in H' THEN half ELSE 0)
  <2> HIDE DEF O, I, H, half
  <2> QED BY <1>1, <1>8, TimesMoves
<1>10. /\ i \in O <=> i \in Outbound /\ was
       /\ i \in O' <=> i \in Outbound /\ is
       /\ i \in I <=> i \in Inbound /\ was
       /\ i \in I' <=> i \in Inbound /\ is
       /\ i \in H <=> i \in Inbound /\ PartIn(inst[i])
       /\ i \in H' <=> i \in Inbound /\ PartIn(e)
  BY <1>1 DEF StandingIn, PartsHonoured, StandsIn, PartIn
<1>11. /\ Face * Cardinality(O) \in Nat /\ Face * Cardinality(I) \in Nat /\ half * Cardinality(H) \in Nat
  <2> HIDE DEF O, I, H, half
  <2> QED BY <1>1, <1>8
<1>12. bal' + Face * Cardinality(O') = Face * Cardinality(I') + half * Cardinality(H')
  <2> DEFINE fo == Face * Cardinality(O)
             fi == Face * Cardinality(I)
             hh == half * Cardinality(H)
             go == Face * Cardinality(O')
             gi == Face * Cardinality(I')
             gh == half * Cardinality(H')
  <2> SUFFICES bal' + go = gi + gh
    OBVIOUS
  <2>1. CASE i \in Outbound
    <3>1. /\ i \notin I /\ i \notin I' /\ i \notin H /\ i \notin H'
          /\ (i \in O <=> was) /\ (i \in O' <=> is)
      BY <1>4, <1>10, <2>1
    <3>2. go = fo - (IF was THEN Face ELSE 0) + (IF is THEN Face ELSE 0) /\ gi = fi /\ gh = hh
      <4> HIDE DEF O, I, H, half, was, is
      <4> QED BY <1>1, <1>9, <1>11, <3>1
    <3>3. bal' = bal + (IF was THEN Face ELSE 0) - (IF is THEN Face ELSE 0)
      BY <1>1, <2>1 DEF MoneyIn
    <3>4. bal + fo = fi + hh /\ fo \in Nat /\ fi \in Nat /\ hh \in Nat /\ bal \in Nat /\ Face \in Nat
      BY <1>1, <1>5, <1>11
    <3> HIDE DEF fo, fi, hh, go, gi, gh, was, is
    <3> QED BY <3>2, <3>3, <3>4
  <2>2. CASE i \in Inbound
    <3> DEFINE p == PartIn(inst[i])
               q == PartIn(e)
    <3>1. /\ i \notin O /\ i \notin O' /\ (i \in H <=> p) /\ (i \in H' <=> q)
          /\ (i \in I <=> was) /\ (i \in I' <=> is)
      BY <1>4, <1>10, <2>2
    <3>2. /\ gi = fi - (IF was THEN Face ELSE 0) + (IF is THEN Face ELSE 0) /\ go = fo
          /\ gh = hh - (IF p THEN half ELSE 0) + (IF q THEN half ELSE 0)
      <4> HIDE DEF O, I, H, half, was, is, p, q
      <4> QED BY <1>1, <1>9, <1>11, <3>1
    <3>3. bal' = bal - (IF was THEN Face ELSE 0) + (IF is THEN Face ELSE 0)
                     - (IF p THEN half ELSE 0) + (IF q THEN half ELSE 0)
      <4>1. /\ MoneyIn(i, inst[i]) = (IF was THEN Face ELSE 0) + (IF p THEN half ELSE 0)
            /\ MoneyIn(i, e) = (IF is THEN Face ELSE 0) + (IF q THEN half ELSE 0)
        BY <1>4, <2>2 DEF MoneyIn
      <4> HIDE DEF was, is, p, q, half
      <4> QED BY <1>1, <4>1
    <3>4. /\ bal + fo = fi + hh /\ fo \in Nat /\ fi \in Nat /\ hh \in Nat /\ bal \in Nat /\ Face \in Nat
          /\ half \in Nat
      BY <1>1, <1>5, <1>11
    <3> HIDE DEF fo, fi, hh, go, gi, gh, was, is, p, q, half
    <3> QED BY <3>2, <3>3, <3>4
  <2> QED BY <2>1, <2>2 DEF All
<1>13. MoneyStands'
  BY <1>12 DEF MoneyStands
<1> QED BY <1>2, <1>3, <1>13, InstrumentDisciplineIs

\* A row that changes its state, its reversal and its part.
LEMMA ChangedRow ==
  ASSUME NEW e \in InstrumentRow, NEW st \in States, NEW rev \in {"none", "plain", "cancel", "dishonour"},
         NEW h \in {0, Face \div 2}
  PROVE  /\ Changed(e, st, rev, h) \in InstrumentRow /\ Changed(e, st, rev, h).st = st
         /\ Changed(e, st, rev, h).rev = rev /\ Changed(e, st, rev, h).honoured = h
BY DEF Changed, InstrumentRow

\* What a row that is not reversed has to its ledger, and a reversed one.
LEMMA MoneyOfRow ==
  ASSUME InstrumentParameters, NEW i \in All, NEW e \in InstrumentRow
  PROVE  /\ MoneyIn(i, e) \in Int
         /\ ~StandsIn(e) /\ ~PartIn(e) => MoneyIn(i, e) = 0
         /\ i \in Inbound /\ StandsIn(e) /\ ~PartIn(e) => MoneyIn(i, e) = Face
         /\ i \in Inbound /\ ~StandsIn(e) /\ PartIn(e) => MoneyIn(i, e) = Face \div 2
         /\ i \in Outbound /\ StandsIn(e) => MoneyIn(i, e) = -Face
BY DEF InstrumentParameters, MoneyIn, All

\* One instrument is made, banked, dishonoured, cancelled, reversed or swept.
LEMMA InstrumentGoesOn ==
  ASSUME InstrumentParameters, InstrumentDiscipline, NEW i \in All,
         \/ ReceiveBy(i) \/ PayBy(i) \/ BankInstrument(i) \/ CancelInstrument(i)
         \/ \E h \in {0, Face \div 2} : DishonourInstrument(i, h)
         \/ ReverseMoneyTransaction(i) \/ SweepOne(i)
  PROVE  InstrumentDiscipline'
<1>1. /\ inst \in [All -> InstrumentRow] /\ inst[i] \in InstrumentRow /\ bal \in Nat /\ swept \subseteq All
      /\ Face \in Nat /\ Face \div 2 \in Nat /\ Face \div 2 <= Face /\ RowFits(i, inst[i])
      /\ Outbound \cap Inbound = {} /\ (i \in Inbound \/ i \in Outbound)
  BY InstrumentTypes DEF InstrumentParameters, All
<1>2. /\ inst[i].honoured \in {0, Face \div 2} /\ inst[i].rev \in {"none", "plain", "cancel", "dishonour"}
      /\ inst[i].st \in States
      /\ \A st \in States, rev \in {"none", "plain", "cancel", "dishonour"}, h \in {0, Face \div 2} :
           LET e == Changed(inst[i], st, rev, h)
           IN  e \in InstrumentRow /\ e.st = st /\ e.rev = rev /\ e.honoured = h
  <2>1. /\ inst[i].honoured \in {0, Face \div 2} /\ inst[i].rev \in {"none", "plain", "cancel", "dishonour"}
        /\ inst[i].st \in States
    BY <1>1 DEF InstrumentRow
  <2> QED BY <1>1, <2>1, ChangedRow
<1>3. CASE ReceiveBy(i)
  <2> DEFINE e == Changed(inst[i], "received", inst[i].rev, inst[i].honoured)
  <2>1. /\ i \in Inbound /\ inst[i].st = "none" /\ inst[i].rev = "none" /\ ~(inst[i].honoured > 0)
        /\ bal' = bal + Face /\ swept' = swept
    BY <1>1, <1>3 DEF ReceiveBy, RowFits
  <2>2. inst' = [inst EXCEPT ![i] = e]
    BY <1>1, <1>3 DEF ReceiveBy, Changed
  <2>3. e \in InstrumentRow /\ e.st = "received" /\ e.rev = "none" /\ e.honoured = inst[i].honoured
    BY <1>2, <2>1 DEF States
  <2>4. RowFits(i, e) /\ ~StandsIn(inst[i]) /\ StandsIn(e) /\ ~PartIn(inst[i]) /\ ~PartIn(e)
    <3> HIDE DEF e
    <3> QED BY <2>1, <2>3 DEF RowFits, StandsIn, PartIn
  <2> HIDE DEF e
  <2>5. bal' = bal - MoneyIn(i, inst[i]) + MoneyIn(i, e) /\ bal' \in Nat
    BY <1>1, <2>1, <2>2, <2>3, <2>4, MoneyOfRow
  <2> QED BY <1>1, <2>1, <2>2, <2>3, <2>4, <2>5, OneInstrumentKeeps
<1>4. CASE PayBy(i)
  <2> DEFINE e == Changed(inst[i], "created", inst[i].rev, inst[i].honoured)
  <2>1. /\ i \in Outbound /\ i \notin Inbound /\ inst[i].st = "none" /\ inst[i].rev = "none"
        /\ ~(inst[i].honoured > 0) /\ bal' = bal - Face /\ bal >= Face /\ swept' = swept
    BY <1>1, <1>4 DEF PayBy, RowFits
  <2>2. inst' = [inst EXCEPT ![i] = e]
    BY <1>1, <1>4 DEF PayBy, Changed
  <2>3. e \in InstrumentRow /\ e.st = "created" /\ e.rev = "none" /\ e.honoured = inst[i].honoured
    BY <1>2, <2>1 DEF States
  <2>4. RowFits(i, e) /\ ~StandsIn(inst[i]) /\ StandsIn(e) /\ ~PartIn(inst[i])
    <3> HIDE DEF e
    <3> QED BY <2>1, <2>3 DEF RowFits, StandsIn, PartIn
  <2> HIDE DEF e
  <2>5. bal' = bal - MoneyIn(i, inst[i]) + MoneyIn(i, e) /\ bal' \in Nat
    BY <1>1, <2>1, <2>2, <2>3, <2>4, MoneyOfRow
  <2> QED BY <1>1, <2>1, <2>2, <2>3, <2>4, <2>5, OneInstrumentKeeps
<1>5. CASE BankInstrument(i)
  <2> DEFINE e == Changed(inst[i], "banked", inst[i].rev, inst[i].honoured)
  <2>1. inst[i].st = "received" /\ bal' = bal /\ swept' = swept
    BY <1>5 DEF BankInstrument
  <2>2. inst' = [inst EXCEPT ![i] = e]
    BY <1>1, <1>5 DEF BankInstrument, Changed
  <2>3. e \in InstrumentRow /\ e.st = "banked" /\ e.rev = inst[i].rev /\ e.honoured = inst[i].honoured
    BY <1>2, <2>1 DEF States
  <2>4. /\ RowFits(i, e) /\ (StandsIn(inst[i]) <=> StandsIn(e)) /\ (PartIn(inst[i]) <=> PartIn(e))
    <3> HIDE DEF e
    <3> QED BY <1>1, <2>1, <2>3 DEF RowFits, StandsIn, PartIn
  <2> HIDE DEF e
  <2>5. bal' = bal - MoneyIn(i, inst[i]) + MoneyIn(i, e) /\ bal' \in Nat
    <3>1. MoneyIn(i, e) = MoneyIn(i, inst[i])
      BY <1>1, <2>1, <2>2, <2>3, <2>4 DEF MoneyIn, PartIn
    <3>2. MoneyIn(i, inst[i]) \in Int
      BY <1>1, <2>1, <2>2, <2>3, <2>4, MoneyOfRow
    <3> QED BY <1>1, <2>1, <2>2, <2>3, <2>4, <3>1, <3>2
  <2> QED BY <1>1, <2>1, <2>2, <2>3, <2>4, <2>5, OneInstrumentKeeps
<1>6. CASE CancelInstrument(i)
  <2> DEFINE e == Changed(inst[i], "cancelled", "cancel", inst[i].honoured)
  <2>1. /\ i \in Outbound /\ i \notin Inbound /\ inst[i].st \in {"created", "stale"} /\ inst[i].rev = "none"
        /\ ~(inst[i].honoured > 0) /\ bal' = bal + Face /\ swept' = swept
    BY <1>1, <1>6 DEF CancelInstrument, CanReverse, Reversed, RowFits
  <2>2. inst' = [inst EXCEPT ![i] = e]
    BY <1>1, <1>6 DEF CancelInstrument, Changed
  <2>3. e \in InstrumentRow /\ e.st = "cancelled" /\ e.rev = "cancel" /\ e.honoured = inst[i].honoured
    BY <1>2, <2>1 DEF States
  <2>4. RowFits(i, e) /\ StandsIn(inst[i]) /\ ~StandsIn(e) /\ ~PartIn(e)
    <3> HIDE DEF e
    <3> QED BY <2>1, <2>3 DEF RowFits, StandsIn, PartIn
  <2> HIDE DEF e
  <2>5. bal' = bal - MoneyIn(i, inst[i]) + MoneyIn(i, e) /\ bal' \in Nat
    BY <1>1, <2>1, <2>2, <2>3, <2>4, MoneyOfRow
  <2> QED BY <1>1, <2>1, <2>2, <2>3, <2>4, <2>5, OneInstrumentKeeps
<1>7. ASSUME NEW h \in {0, Face \div 2}, DishonourInstrument(i, h) PROVE InstrumentDiscipline'
  <2> DEFINE e == Changed(inst[i], "dishonoured", "dishonour", h)
  <2>1. /\ i \in Inbound /\ i \notin Outbound /\ inst[i].st \in {"banked", "received"} /\ inst[i].rev = "none"
        /\ ~(inst[i].honoured > 0) /\ bal' = bal - Face + h /\ bal >= Face /\ swept' = swept
    BY <1>1, <1>7 DEF DishonourInstrument, CanReverse, Enough, RowFits
  <2>2. inst' = [inst EXCEPT ![i] = e]
    BY <1>1, <1>7 DEF DishonourInstrument, Changed
  <2>3. e \in InstrumentRow /\ e.st = "dishonoured" /\ e.rev = "dishonour" /\ e.honoured = h
    BY <1>2, <2>1 DEF States
  <2>4. RowFits(i, e) /\ StandsIn(inst[i]) /\ ~StandsIn(e) /\ ~PartIn(inst[i]) /\ (PartIn(e) <=> h > 0)
    <3> HIDE DEF e
    <3> QED BY <2>1, <2>3 DEF RowFits, StandsIn, PartIn
  <2>5. h = (IF h > 0 THEN Face \div 2 ELSE 0) /\ bal' \in Nat
    BY <1>1, <2>1
  <2> HIDE DEF e
  <2>6. bal' = bal - MoneyIn(i, inst[i]) + MoneyIn(i, e) /\ bal' \in Nat
    BY <1>1, <2>1, <2>2, <2>3, <2>4, <2>5, MoneyOfRow
  <2> QED BY <1>1, <2>1, <2>2, <2>3, <2>4, <2>5, <2>6, OneInstrumentKeeps
<1>8. CASE ReverseMoneyTransaction(i)
  <2> DEFINE e == Changed(inst[i], inst[i].st, "plain", inst[i].honoured)
  <2>1. /\ inst[i].st # "none" /\ inst[i].rev = "none" /\ ~(inst[i].honoured > 0) /\ swept' = swept
        /\ (i \in Inbound => bal >= Face) /\ bal' = IF i \in Inbound THEN bal - Face ELSE bal + Face
    BY <1>1, <1>8 DEF ReverseMoneyTransaction, CanReverse, Enough, Reversed, RowFits
  <2>2. inst' = [inst EXCEPT ![i] = e]
    BY <1>1, <1>8 DEF ReverseMoneyTransaction, Changed
  <2>3. e \in InstrumentRow /\ e.st = inst[i].st /\ e.rev = "plain" /\ e.honoured = inst[i].honoured
    BY <1>2, <2>1, SMTT(30) DEF States
  <2>4. RowFits(i, e) /\ StandsIn(inst[i]) /\ ~StandsIn(e) /\ ~PartIn(inst[i]) /\ ~PartIn(e)
    <3> HIDE DEF e
    <3> QED BY <1>1, <2>1, <2>3 DEF RowFits, StandsIn, PartIn
  <2>5. bal' \in Nat
    BY <1>1, <2>1
  <2> HIDE DEF e
  <2>6. bal' = bal - MoneyIn(i, inst[i]) + MoneyIn(i, e) /\ bal' \in Nat
    BY <1>1, <2>1, <2>2, <2>3, <2>4, <2>5, MoneyOfRow
  <2> QED BY <1>1, <2>1, <2>2, <2>3, <2>4, <2>5, <2>6, OneInstrumentKeeps
<1>9. CASE SweepOne(i) /\ StillCreated(i)
  <2> DEFINE e == Changed(inst[i], "stale", inst[i].rev, inst[i].honoured)
  <2>1. /\ inst[i].st = "created" /\ i \notin Inbound /\ bal' = bal /\ swept' \subseteq All
    BY <1>1, <1>9 DEF SweepOne, StillCreated, RowFits
  <2>2. GuardAllows(inst[i].st, "stale")
    BY <2>1 DEF GuardAllows, Moves
  <2>3. inst' = [inst EXCEPT ![i] = e]
    BY <1>1, <1>9, <2>2 DEF SweepOne, Changed
  <2>4. e \in InstrumentRow /\ e.st = "stale" /\ e.rev = inst[i].rev /\ e.honoured = inst[i].honoured
    BY <1>2, <2>1 DEF States
  <2>5. RowFits(i, e) /\ (StandsIn(inst[i]) <=> StandsIn(e))
    <3> HIDE DEF e
    <3> QED BY <1>1, <2>1, <2>4 DEF RowFits, StandsIn
  <2> HIDE DEF e
  <2>6. bal' = bal - MoneyIn(i, inst[i]) + MoneyIn(i, e) /\ bal' \in Nat
    <3>1. MoneyIn(i, e) = MoneyIn(i, inst[i])
      BY <1>1, <2>1, <2>3, <2>4, <2>5 DEF MoneyIn, PartIn
    <3>2. MoneyIn(i, inst[i]) \in Int
      BY <1>1, <2>1, <2>3, <2>4, <2>5, MoneyOfRow
    <3> QED BY <1>1, <2>1, <2>3, <2>4, <2>5, <3>1, <3>2
  <2> QED BY <1>1, <2>1, <2>3, <2>4, <2>5, <2>6, OneInstrumentKeeps
<1>10. CASE SweepOne(i) /\ ~StillCreated(i)
  <2>1. inst' = inst /\ bal' = bal /\ swept' \subseteq All
    BY <1>1, <1>10 DEF SweepOne
  <2> QED BY <2>1, InstrumentTypes, SameMoneyKeeps
<1> QED BY <1>3, <1>4, <1>5, <1>6, <1>7, <1>8, <1>9, <1>10

\* What concerns two instruments, a statement's, or none.
LEMMA InstrumentsGoOn ==
  ASSUME InstrumentParameters, InstrumentDiscipline,
         \/ \E i, j \in All : LinkReplacementInstrument(i, j)
         \/ \E is \in SUBSET All : ReconciliationInstruments(is)
         \/ ListStale \/ UNCHANGED instrumentVars
  PROVE  InstrumentDiscipline'
<1>1. /\ inst \in [All -> InstrumentRow] /\ bal \in Nat /\ swept \subseteq All
      /\ \A k \in All : RowFits(k, inst[k]) /\ inst[k] \in InstrumentRow
  BY InstrumentTypes
<1>2. CASE ListStale \/ UNCHANGED instrumentVars
  <2>1. inst' = inst /\ bal' = bal /\ swept' \subseteq All
    BY <1>1, <1>2 DEF ListStale, instrumentVars
  <2> QED BY <1>1, <2>1, SameMoneyKeeps
<1>3. ASSUME NEW i \in All, NEW j \in All, LinkReplacementInstrument(i, j) PROVE InstrumentDiscipline'
  <2> DEFINE e == [inst[i] EXCEPT !.st = "replaced", !.by = j]
             f == [inst[j] EXCEPT !.replaces = i]
  <2>1. inst[i].st = "cancelled" /\ inst[j].st = "created" /\ i # j /\ bal' = bal /\ swept' = swept
    BY <1>3 DEF LinkReplacementInstrument
  <2>2. inst' = [inst EXCEPT ![i] = e, ![j] = f]
    BY <1>1, <1>3, <2>1 DEF LinkReplacementInstrument
  <2>3. /\ e \in InstrumentRow /\ e.st = "replaced" /\ e.rev = inst[i].rev /\ e.honoured = inst[i].honoured
    BY <1>1 DEF InstrumentRow, States
  <2>4. f \in InstrumentRow /\ f.st = "created" /\ f.rev = inst[j].rev /\ f.honoured = inst[j].honoured
    BY <1>1, <2>1 DEF InstrumentRow
  <2>5. RowFits(i, e) /\ RowFits(j, f)
    <3> HIDE DEF e, f
    <3> QED BY <1>1, <2>1, <2>3, <2>4 DEF RowFits
  <2> HIDE DEF e, f
  <2>6. inst' \in [All -> InstrumentRow] /\ inst'[i] = e /\ inst'[j] = f /\ \A k \in All \ {i, j} : inst'[k] = inst[k]
    BY <1>1, <2>1, <2>2, <2>3, <2>4
  <2>7. \A k \in All : /\ RowFits(k, inst'[k]) /\ inst'[k].rev = inst[k].rev
                       /\ inst'[k].honoured = inst[k].honoured
                       /\ inst'[k].st = "none" <=> inst[k].st = "none"
    BY <1>1, <2>1, <2>3, <2>4, <2>5, <2>6
  <2> QED BY <1>1, <2>1, <2>6, <2>7, SameMoneyKeeps
<1>4. ASSUME NEW is \in SUBSET All, ReconciliationInstruments(is) PROVE InstrumentDiscipline'
  <2> DEFINE e(k) == [inst[k] EXCEPT !.st = IF k \in Outbound THEN "presented" ELSE "cleared"]
  <2>1. /\ inst' = [k \in All |-> IF k \in is THEN e(k) ELSE inst[k]]
        /\ \A k \in is : inst[k].st \in {"created", "stale", "banked"}
        /\ bal' = bal /\ swept' = swept
    BY <1>4 DEF ReconciliationInstruments
  <2>2. ASSUME NEW k \in All
        PROVE  /\ e(k) \in InstrumentRow /\ e(k).st \in {"presented", "cleared"} /\ e(k).rev = inst[k].rev
               /\ e(k).honoured = inst[k].honoured
    BY <1>1 DEF InstrumentRow, States
  <2> HIDE DEF e
  <2>3. inst' \in [All -> InstrumentRow]
    BY <1>1, <2>1, <2>2
  <2>4. \A k \in is : RowFits(k, e(k))
    BY <1>1, <2>1, <2>2 DEF RowFits
  <2>5. \A k \in All : /\ RowFits(k, inst'[k]) /\ inst'[k].rev = inst[k].rev
                       /\ inst'[k].honoured = inst[k].honoured
                       /\ inst'[k].st = "none" <=> inst[k].st = "none"
    BY <1>1, <2>1, <2>2, <2>4
  <2> QED BY <1>1, <2>1, <2>3, <2>5, SameMoneyKeeps
<1> QED BY <1>2, <1>3, <1>4

\* The money of an instrument comes back once and its row says how, however reversals meet
\* cancellations, dishonours, certifications and the stale sweep (instruments.ts,
\* instrument_guard of 0013).  The invariant that it needs.
THEOREM InstrumentsStayInStep == InstrumentParameters /\ InstrumentSpec => []InstrumentDiscipline
<1>1. InstrumentParameters /\ InstrumentInit => InstrumentDiscipline
  <2> SUFFICES ASSUME InstrumentParameters, InstrumentInit PROVE InstrumentDiscipline
    OBVIOUS
  <2>1. /\ inst = [i \in All |-> [st |-> "none", rev |-> "none", by |-> None, replaces |-> None, honoured |-> 0]]
        /\ bal = 0 /\ swept = {} /\ Face \in Nat
    BY DEF InstrumentInit, InstrumentParameters
  <2>2. InstrumentTypeOK
    BY <2>1 DEF InstrumentTypeOK, States
  <2>3. \A i \in All : RowFits(i, inst[i])
    BY <2>1 DEF RowFits
  <2>4. StandingIn(Outbound) = {} /\ StandingIn(Inbound) = {} /\ PartsHonoured = {}
    BY <2>1 DEF StandingIn, PartsHonoured, All
  <2>5. Face \div 2 \in Nat /\ Cardinality({}) = 0
    BY <2>1, FS_EmptySet
  <2>6. MoneyStands
    BY <2>1, <2>4, <2>5 DEF MoneyStands
  <2> QED BY <2>2, <2>3, <2>6, InstrumentDisciplineIs
<1>2. InstrumentParameters /\ InstrumentDiscipline /\ [InstrumentNext]_instrumentVars => InstrumentDiscipline'
  BY InstrumentGoesOn, InstrumentsGoOn DEF InstrumentNext
<1>3. ASSUME InstrumentParameters PROVE InstrumentSpec => []InstrumentDiscipline
  <2>1. InstrumentInit => InstrumentDiscipline
    BY <1>1, <1>3
  <2>2. InstrumentDiscipline /\ [InstrumentNext]_instrumentVars => InstrumentDiscipline'
    BY <1>2, <1>3
  <2> QED BY <2>1, <2>2, PTL DEF InstrumentSpec
<1> QED BY <1>3

\* The money of an instrument comes back once.
THEOREM InstrumentsReverseOnce == InstrumentParameters /\ InstrumentSpec => []OneReversalEach
<1>1. InstrumentDiscipline => OneReversalEach
  BY DEF InstrumentDiscipline
<1> QED BY <1>1, InstrumentsStayInStep, PTL

-----------------------------------------------------------------------------
(* Interest: a charge is what its days accrue, or what was paid on its last. *)

\* Days are finitely many.
LEMMA FinitelyManyDays ==
  ASSUME NEW a \in Int, NEW b \in Int
  PROVE  IsFiniteSet(a..b)
BY FS_Interval

\* A proposal as it is kept.
ProposalRow == [from : Days \cup {0}, to : Days \cup {0},
                state : {"none", "pending", "approved", "dismissed"}]

\* What is promised of one charge.
Stands(c) ==
  /\ c.to < c.posted => c.amount = Accrues(c.from, c.to)
  /\ Accrues(c.from, c.to) <= c.amount /\ c.amount <= Accrues(c.from, c.to) + paid[c.to]

\* What is kept of the bill, apart.
LEMMA InterestTypes ==
  ASSUME InterestParameters, InterestDiscipline
  PROVE  /\ Worth \in Nat /\ Due \in Nat \ {0} /\ LastDay \in Nat \ {0} /\ MaxProposals \in Nat
         /\ IsFiniteSet(Days) /\ \A d \in Days : d \in Nat /\ 1 <= d /\ d <= LastDay
         /\ today.day \in Days /\ today \in [day : Days, off : {Low, High}]
         /\ paid \in [Days -> 0..Worth] /\ SumFunctionOnSet(paid, Days) <= Worth
         /\ \A d \in Days : paid[d] \in Nat
         /\ charges \subseteq [from : Days, to : Days, amount : Nat \ {0}, posted : Days] /\ IsFiniteSet(charges)
         /\ proposal \in [Numbers -> ProposalRow]
         /\ sweep \subseteq Runs
<1>1. Worth \in Nat /\ Due \in Nat \ {0} /\ LastDay \in Nat \ {0} /\ MaxProposals \in Nat
  BY DEF InterestParameters
<1>2. IsFiniteSet(Days) /\ \A d \in Days : d \in Nat /\ 1 <= d /\ d <= LastDay
  BY <1>1, FinitelyManyDays DEF Days
<1>3. \A d \in Days : paid[d] \in Nat
  BY <1>1 DEF InterestDiscipline, InterestTypeOK
<1> QED BY <1>1, <1>2, <1>3 DEF InterestDiscipline, InterestTypeOK, ProposalRow

\* What is owed at the end of a day, and what accrues over days, are amounts.
LEMMA OwedIsAnAmount ==
  ASSUME InterestParameters, InterestDiscipline, NEW d \in 0..LastDay
  PROVE  Owed(d) \in Int
<1>1. 1..d \subseteq Days /\ IsFiniteSet(1..d) /\ Worth \in Nat
  <2>1. LastDay \in Nat /\ d \in Int /\ d <= LastDay /\ Worth \in Nat
    BY InterestTypes
  <2> QED BY <2>1, FinitelyManyDays DEF Days
<1>2. \A x \in 1..d : paid[x] \in Int
  BY <1>1, InterestTypes
<1>3. SumFunctionOnSet(paid, 1..d) \in Int
  BY <1>1, <1>2, SumType
<1> QED BY <1>1, <1>3 DEF Owed

\* So is what accrues over days.
LEMMA AccruesAnAmount ==
  ASSUME InterestParameters, InterestDiscipline, NEW from \in Days, NEW to \in Days
  PROVE  Accrues(from, to) \in Int
<1> DEFINE f == [d \in from..to |-> Owed(d)]
<1>1. from..to \subseteq 0..LastDay /\ IsFiniteSet(from..to)
  <2>1. LastDay \in Nat /\ from \in Nat /\ to \in Nat /\ to <= LastDay
    BY InterestTypes
  <2> QED BY <2>1, FinitelyManyDays
<1>2. \A d \in from..to : f[d] \in Int
  BY <1>1, OwedIsAnAmount
<1>3. SumFunctionOnSet(f, from..to) \in Int
  <2> HIDE DEF f
  <2> QED BY <1>1, <1>2, SumType
<1> QED BY <1>3 DEF Accrues

\* Nothing is charged from before the bill is due, or from before its days began.
LEMMA EarliestIsADay ==
  ASSUME InterestParameters, InterestDiscipline
  PROVE  Earliest \in Nat \ {0}
<1> DEFINE T == {Due} \cup {c.to + 1 : c \in charges}
<1>1. T \in SUBSET (Nat \ {0}) /\ T \in SUBSET Nat /\ T # {}
  BY InterestTypes, SMTT(30) DEF Days
<1>2. IsFiniteSet(T)
  <2>1. Due \in Nat \ {0} /\ today.day \in Nat /\ \A c \in charges : c.to \in Nat /\ c.to <= today.day
    <3>1. (\A c \in charges : c.to \in Days /\ c.posted \in Days) /\ \A d \in Days : d \in Nat
      BY InterestTypes
    <3> QED BY <3>1, InterestTypes DEF InterestDiscipline, InterestParameters
  <2>2. T \subseteq 1..(Due + today.day) /\ Due + today.day \in Int
    BY <2>1
  <2> HIDE DEF T
  <2>3. IsFiniteSet(1..(Due + today.day))
    BY <2>2, FinitelyManyDays
  <2> QED BY <2>2, <2>3, FS_Subset
<1>3. \E x \in T : \A y \in T : y <= x
  <2> HIDE DEF T
  <2> QED BY <1>1, <1>2, LargestNatural
<1>4. Max(T) \in T
  <2>1. \E x \in T : \A y \in T : x >= y
    <3> HIDE DEF T
    <3> QED BY <1>1, <1>3
  <2> HIDE DEF T
  <2> QED BY <2>1 DEF Max
<1>5. Earliest = Max(T)
  BY DEF Earliest
<1> HIDE DEF T
<1> QED BY <1>1, <1>4, <1>5

\* What days accrue does not change with what is allocated after them.
LEMMA AccruesStays ==
  ASSUME InterestParameters, InterestDiscipline, NEW from \in Days, NEW to \in Days,
         \A d \in 1..to : paid'[d] = paid[d]
  PROVE  Accrues(from, to)' = Accrues(from, to)
<1> DEFINE f == [d \in from..to |-> Owed(d)]
           g == [d \in from..to |-> Owed(d)']
<1>1. ASSUME NEW d \in from..to PROVE Owed(d)' = Owed(d)
  <2>1. IsFiniteSet(1..d) /\ 1..d \subseteq 1..to
    <3>1. to \in Nat /\ d \in Int /\ d <= to
      BY InterestTypes
    <3> QED BY <3>1, FinitelyManyDays
  <2>2. \A x \in 1..d : paid'[x] = paid[x]
    BY <2>1
  <2>3. SumFunctionOnSet(paid', 1..d) = SumFunctionOnSet(paid, 1..d)
    BY <2>1, <2>2, SumAgrees
  <2> QED BY <2>3 DEF Owed
<1>2. IsFiniteSet(from..to) /\ \A d \in from..to : f[d] = g[d]
  <2>1. from \in Int /\ to \in Int
    BY InterestTypes
  <2> QED BY <1>1, <2>1, FinitelyManyDays
<1>3. SumFunctionOnSet(f, from..to) = SumFunctionOnSet(g, from..to)
  <2> HIDE DEF f, g
  <2> QED BY <1>2, SumAgrees
<1> QED BY <1>3 DEF Accrues

\* What days accrue falls by what is allocated on the last of them.
LEMMA AccruesFalls ==
  ASSUME InterestParameters, InterestDiscipline, NEW from \in Days, NEW to \in Days, from <= to,
         NEW n \in Nat, \A d \in Days \ {to} : paid'[d] = paid[d], paid'[to] = paid[to] + n
  PROVE  Accrues(from, to)' = Accrues(from, to) - n
<1> DEFINE f == [d \in from..to |-> Owed(d)]
           g == [d \in from..to |-> Owed(d)']
<1>1. /\ from \in Nat /\ to \in Nat /\ to <= LastDay /\ 1 <= from /\ LastDay \in Nat /\ Worth \in Nat
      /\ \A d \in Days : paid[d] \in Int
  BY InterestTypes
<1>2. \A d \in Int : 1 <= d /\ d <= to => IsFiniteSet(1..d) /\ 1..d \subseteq Days
  BY <1>1, FinitelyManyDays DEF Days
<1>3. ASSUME NEW d \in from..to, d # to PROVE Owed(d)' = Owed(d)
  <2>1. IsFiniteSet(1..d) /\ 1..d \subseteq Days \ {to}
    BY <1>1, <1>2, <1>3
  <2>2. SumFunctionOnSet(paid', 1..d) = SumFunctionOnSet(paid, 1..d)
    BY <2>1, SumAgrees
  <2> QED BY <2>2 DEF Owed
<1>4. Owed(to)' = Owed(to) - n
  <2>1. IsFiniteSet(1..to) /\ 1..to \subseteq Days /\ to \in 1..to
    BY <1>1, <1>2
  <2>2. /\ \A x \in 1..to : paid[x] \in Int
        /\ paid'[to] \in Int /\ \A x \in (1..to) \ {to} : paid'[x] = paid[x]
    BY <1>1, <2>1
  <2>3. SumFunctionOnSet(paid', 1..to) = SumFunctionOnSet(paid, 1..to) - paid[to] + paid'[to]
    BY <2>1, <2>2, SumReplaces
  <2>4. SumFunctionOnSet(paid, 1..to) \in Int
    BY <2>1, <2>2, SumType
  <2> QED BY <1>1, <2>3, <2>4 DEF Owed
<1>5. /\ IsFiniteSet(from..to) /\ to \in from..to /\ from..to \subseteq 0..LastDay
  BY <1>1, FinitelyManyDays
<1>6. \A d \in from..to : f[d] \in Int
  BY <1>5, OwedIsAnAmount
<1>7. g[to] = f[to] - n /\ g[to] \in Int /\ \A d \in (from..to) \ {to} : g[d] = f[d]
  BY <1>3, <1>4, <1>5, <1>6
<1>8. SumFunctionOnSet(g, from..to) = SumFunctionOnSet(f, from..to) - f[to] + g[to]
  <2>1. PICK S : S = from..to
    OBVIOUS
  <2>2. IsFiniteSet(S) /\ to \in S /\ \A x \in S : f[x] \in Int
    BY <1>5, <1>6, <2>1
  <2>3. g[to] \in Int /\ \A x \in S \ {to} : g[x] = f[x]
    BY <1>7, <2>1
  <2> HIDE DEF f, g
  <2>4. SumFunctionOnSet(g, S) = SumFunctionOnSet(f, S) - f[to] + g[to]
    BY <2>2, <2>3, SumReplaces
  <2> QED BY <2>1, <2>4
<1>9. SumFunctionOnSet(f, from..to) \in Int
  <2> HIDE DEF f
  <2> QED BY <1>5, <1>6, SumType
<1>10. SumFunctionOnSet(g, from..to) = SumFunctionOnSet(f, from..to) - n
  <2> HIDE DEF f, g
  <2> QED BY <1>5, <1>6, <1>7, <1>8, <1>9
<1> QED BY <1>10 DEF Accrues

\* A payment is dated today, and what is charged reaches today at most.
LEMMA AllocateKeeps ==
  ASSUME InterestParameters, InterestDiscipline, NEW n \in 1..Worth, Allocate(n)
  PROVE  InterestDiscipline'
<1> DEFINE t == today.day
<1>1. /\ paid' = [paid EXCEPT ![t] = @ + n] /\ UNCHANGED <<today, charges, proposal, sweep>>
      /\ n <= Owed(LastDay)
  BY DEF Allocate
<1>2. /\ t \in Days /\ IsFiniteSet(Days) /\ Worth \in Nat /\ paid \in [Days -> 0..Worth] /\ n \in Nat
      /\ \A d \in Days : paid[d] \in Int /\ paid[d] \in Nat
  BY InterestTypes
<1>3. /\ paid'[t] = paid[t] + n /\ \A d \in Days \ {t} : paid'[d] = paid[d]
  BY <1>1, <1>2
<1>4. SumFunctionOnSet(paid', Days) = SumFunctionOnSet(paid, Days) - paid[t] + paid'[t]
  BY <1>2, <1>3, SumReplaces
<1>5. SumFunctionOnSet(paid, Days) \in Nat /\ paid[t] <= SumFunctionOnSet(paid, Days)
  <2>1. SumFunctionOnSet(paid, Days) = paid[t] + SumFunctionOnSet(paid, Days \ {t})
    BY <1>2, SumTakesOut
  <2>2. SumFunctionOnSet(paid, Days \ {t}) \in Nat
    BY <1>2, FS_Subset, SumNotNegative
  <2> QED BY <1>2, <2>1, <2>2
<1>6. n <= Worth - SumFunctionOnSet(paid, Days)
  BY <1>1 DEF Owed, Days
<1>7. SumFunctionOnSet(paid', Days) <= Worth /\ paid'[t] \in 0..Worth
  BY <1>2, <1>3, <1>4, <1>5, <1>6
<1>8. paid' \in [Days -> 0..Worth]
  BY <1>1, <1>2, <1>3, <1>7
<1>9. InterestTypeOK'
  BY <1>1, <1>7, <1>8 DEF InterestDiscipline, InterestTypeOK, Days, Numbers, ProposalRow
<1>10. ASSUME NEW c \in charges PROVE Stands(c)'
  <2>1. /\ c.from \in Days /\ c.to \in Days /\ c.to <= c.posted /\ c.from <= c.to /\ c.posted <= t /\ Stands(c)
        /\ c.amount \in Nat /\ Accrues(c.from, c.to) \in Int /\ c.posted \in Days
        /\ c.to \in Int /\ c.posted \in Int /\ t \in Int
    BY InterestTypes, AccruesAnAmount DEF InterestDiscipline, InterestTypeOK, ChargesStand, Stands
  <2>2. CASE c.to < t
    <3>1. \A d \in 1..c.to : d \in Days \ {t}
      BY <1>2, <2>1, <2>2, InterestTypes, SMTT(30) DEF Days
    <3>2. Accrues(c.from, c.to)' = Accrues(c.from, c.to) /\ paid'[c.to] = paid[c.to]
      <4>1. \A d \in 1..c.to : paid'[d] = paid[d]
        BY <1>3, <3>1
      <4>2. paid'[c.to] = paid[c.to]
        BY <1>2, <1>3, <2>1, <2>2, InterestTypes
      <4> QED BY <2>1, <4>1, <4>2, AccruesStays
    <3> QED BY <2>1, <3>2 DEF Stands
  <2>3. CASE c.to = t
    <3>1. Accrues(c.from, c.to)' = Accrues(c.from, c.to) - n
      BY <1>2, <1>3, <2>1, <2>3, AccruesFalls
    <3>2. paid'[c.to] = paid[c.to] + n /\ paid[c.to] \in Int /\ ~(c.to < c.posted)
      BY <1>2, <1>3, <2>1, <2>3
    <3>3. PICK a, z, p : a = Accrues(c.from, c.to) /\ z = c.amount /\ p = paid[c.to]
      OBVIOUS
    <3>4. a \in Int /\ z \in Int /\ p \in Int /\ n \in Nat /\ a <= z /\ z <= a + p
      BY <1>2, <2>1, <3>2, <3>3 DEF Stands
    <3>5. a - n <= z /\ z <= (a - n) + (p + n)
      BY <3>4
    <3> QED BY <3>1, <3>2, <3>3, <3>5 DEF Stands
  <2> QED BY <1>2, <2>1, <2>2, <2>3, InterestTypes
<1>11. Pending' = Pending
  BY <1>1 DEF Pending, Numbers
<1> QED BY <1>1, <1>9, <1>10, <1>11 DEF InterestDiscipline, ChargesStand, Stands

\* Days up to today are charged what they accrue.
LEMMA PostKeeps ==
  ASSUME InterestParameters, InterestDiscipline, NEW from, NEW to, from \in 1..to, to <= today.day, to \in Nat,
         Accrues(from, to) > 0, Post(from, to), UNCHANGED <<today, paid, sweep>>,
         proposal' \in [Numbers -> ProposalRow],
         \A n \in Numbers : proposal'[n].state = "pending" => proposal'[n] = proposal[n]
  PROVE  InterestDiscipline'
<1> DEFINE k == [from |-> from, to |-> to, amount |-> Accrues(from, to), posted |-> today.day]
<1>1. from \in Days /\ to \in Days
  BY InterestTypes DEF Days
<1>2. Accrues(from, to) \in Nat \ {0}
  BY <1>1, AccruesAnAmount
<1>3. k \in [from : Days, to : Days, amount : Nat \ {0}, posted : Days] /\ k.from = from /\ k.to = to
      /\ k.amount = Accrues(from, to) /\ k.posted = today.day
  BY <1>1, <1>2, InterestTypes
<1>4. charges' = charges \cup {k}
  BY DEF Post
<1>5. IsFiniteSet(charges')
  BY <1>4, InterestTypes, FS_AddElement
<1> HIDE DEF k
<1>6. InterestTypeOK'
  <2>1. \A c \in charges' : c.from <= c.to
    BY <1>3, <1>4 DEF InterestDiscipline, InterestTypeOK
  <2>2. charges' \subseteq [from : Days, to : Days, amount : Nat \ {0}, posted : Days]
    BY <1>3, <1>4, InterestTypes
  <2> QED BY <1>5, <2>1, <2>2 DEF InterestDiscipline, InterestTypeOK, Days, Numbers, ProposalRow
<1>7. \A c \in charges' : c.to <= c.posted /\ c.posted <= today'.day
  <2>1. today.day \in Int
    BY InterestTypes
  <2> QED BY <1>3, <1>4, <2>1 DEF InterestDiscipline
<1>8. ASSUME NEW c \in charges' PROVE Stands(c)'
  <2>1. c.from \in Days /\ c.to \in Days /\ Stands(c)
    <3>1. paid[to] \in Nat
      BY <1>1, InterestTypes
    <3>2. Stands(k)
      BY <1>2, <1>3, <3>1 DEF Stands
    <3> QED BY <1>1, <1>3, <1>4, <3>2, InterestTypes DEF InterestDiscipline, ChargesStand, Stands
  <2>2. \A d \in 1..c.to : paid'[d] = paid[d]
    OBVIOUS
  <2>3. Accrues(c.from, c.to)' = Accrues(c.from, c.to)
    BY <2>1, <2>2, AccruesStays
  <2> QED BY <2>1, <2>3 DEF Stands
<1>9. \A n \in Pending' : n \in Pending /\ proposal'[n] = proposal[n]
  BY DEF Pending, Numbers
<1> QED BY <1>6, <1>7, <1>8, <1>9 DEF InterestDiscipline, ChargesStand, Stands

\* A proposal is parked for days up to today, or closed.
LEMMA ProposalKeeps ==
  ASSUME InterestParameters, InterestDiscipline, UNCHANGED <<paid, charges>>, sweep' \subseteq Runs,
         today' \in [day : Days, off : {Low, High}], today'.day >= today.day,
         proposal' \in [Numbers -> ProposalRow],
         \A n \in Numbers : proposal'[n].state = "pending" =>
           \/ proposal'[n] = proposal[n]
           \/ proposal'[n].from \in 1..proposal'[n].to /\ proposal'[n].to <= today.day
  PROVE  InterestDiscipline'
<1>1. InterestTypeOK'
  BY DEF InterestDiscipline, InterestTypeOK, Days, Numbers, ProposalRow
<1>2. today.day \in Int /\ today'.day \in Int
  BY InterestTypes DEF Days
<1>3. \A c \in charges' : c.to <= c.posted /\ c.posted <= today'.day
  <2>1. \A c \in charges : c.to \in Int /\ c.posted \in Int /\ c.to <= c.posted /\ c.posted <= today.day
    <3>1. (\A c \in charges : c.to \in Days /\ c.posted \in Days) /\ \A d \in Days : d \in Int
      BY InterestTypes
    <3>2. \A c \in charges : c.to <= c.posted /\ c.posted <= today.day
      BY DEF InterestDiscipline
    <3> QED BY <3>1, <3>2
  <2> QED BY <1>2, <2>1
<1>4. ASSUME NEW c \in charges' PROVE Stands(c)'
  <2>1. c.from \in Days /\ c.to \in Days /\ Stands(c)
    BY InterestTypes DEF InterestDiscipline, ChargesStand, Stands
  <2>2. \A d \in 1..c.to : paid'[d] = paid[d]
    OBVIOUS
  <2>3. Accrues(c.from, c.to)' = Accrues(c.from, c.to)
    BY <2>1, <2>2, AccruesStays
  <2> QED BY <2>1, <2>3 DEF Stands
<1>5. ASSUME NEW n \in Pending' PROVE proposal'[n].from \in 1..proposal'[n].to /\ proposal'[n].to <= today'.day
  <2>1. n \in Numbers /\ proposal'[n].state = "pending" /\ proposal'[n].to \in Int
    BY DEF Pending, Numbers, Days, ProposalRow
  <2>2. CASE proposal'[n] = proposal[n]
    <3>1. n \in Pending
      BY <2>1, <2>2 DEF Pending
    <3> QED BY <1>2, <2>1, <2>2, <3>1 DEF InterestDiscipline
  <2>3. CASE proposal'[n].from \in 1..proposal'[n].to /\ proposal'[n].to <= today.day
    BY <1>2, <2>1, <2>3
  <2> QED BY <2>1, <2>2, <2>3
<1> QED BY <1>1, <1>3, <1>4, <1>5 DEF InterestDiscipline, ChargesStand, Stands

\* The accrual job, staff and the days.
LEMMA InterestGoesOn ==
  ASSUME InterestParameters, InterestDiscipline,
         \/ Tick \/ AddInterestCharge \/ UNCHANGED interestVars
         \/ \E r \in Runs : ListBill(r)
         \/ \E r \in Runs, n \in Numbers : GenerateInterestProposal(r, n)
         \/ \E n \in Numbers : ApproveInterestProposal(n) \/ DismissInterestProposal(n)
  PROVE  InterestDiscipline'
<1>1. /\ today \in [day : Days, off : {Low, High}] /\ today.day \in Days /\ LastDay \in Nat \ {0}
      /\ proposal \in [Numbers -> ProposalRow] /\ sweep \subseteq Runs /\ today.day \in Nat /\ 1 <= today.day
      /\ today.day <= LastDay
  BY InterestTypes
<1>2. AccrualFrontier \in Int /\ AccrualFrontier <= today.day
  <2>1. today.off \in {-1, 0, 1}
    BY <1>1 DEF Low, High
  <2> QED BY <1>1, <2>1 DEF AccrualFrontier, FirmDay
<1>0. today' = today => today' \in [day : Days, off : {Low, High}] /\ today'.day >= today.day
  <2> SUFFICES ASSUME today' = today PROVE today' \in [day : Days, off : {Low, High}] /\ today'.day >= today.day
    OBVIOUS
  <2>1. today'.day = today.day /\ today.day \in Nat
    BY <1>1
  <2>2. today.day >= today.day
    BY <2>1
  <2>3. today' \in [day : Days, off : {Low, High}]
    BY <1>1
  <2> QED BY <2>1, <2>2, <2>3
<1>3. CASE Tick
  <2>1. /\ \/ today' = [day |-> today.day + 1, off |-> Low] /\ today.day < LastDay
           \/ today' = [day |-> today.day, off |-> High]
        /\ UNCHANGED <<paid, charges, proposal, sweep>>
    BY <1>3 DEF Tick
  <2>2. today' \in [day : Days, off : {Low, High}] /\ today'.day >= today.day
    BY <1>1, <2>1 DEF Days
  <2> QED BY <1>1, <2>1, <2>2, ProposalKeeps
<1>4. CASE AddInterestCharge
  <2>1. PICK f, t : f = Earliest /\ t = AccrualFrontier
    OBVIOUS
  <2>2. /\ Post(f, t) /\ f <= t /\ Accrues(f, t) > 0
        /\ UNCHANGED <<today, paid, proposal, sweep>>
    BY <1>4, <2>1 DEF AddInterestCharge, MayCharge
  <2>3. f \in 1..t /\ t \in Nat /\ t <= today.day
    BY <1>1, <1>2, <2>1, <2>2, EarliestIsADay
  <2> QED BY <1>1, <2>2, <2>3, PostKeeps
<1>5. CASE UNCHANGED interestVars \/ \E r \in Runs : ListBill(r)
  <2>1. UNCHANGED <<today, paid, charges, proposal>> /\ sweep' \subseteq Runs
    BY <1>1, <1>5 DEF interestVars, ListBill
  <2> QED BY <1>0, <1>1, <2>1, ProposalKeeps
<1>6. ASSUME NEW r \in Runs, NEW n \in Numbers, GenerateInterestProposal(r, n) PROVE InterestDiscipline'
  <2>1. UNCHANGED <<today, paid, charges>> /\ sweep' \subseteq Runs
    BY <1>1, <1>6 DEF GenerateInterestProposal
  <2>2. CASE proposal' = proposal
    BY <1>0, <1>1, <2>1, <2>2, ProposalKeeps
  <2>3. CASE MayCharge(Earliest, AccrualFrontier)
             /\ proposal' = [proposal EXCEPT ![n] = [from |-> Earliest, to |-> AccrualFrontier, state |-> "pending"]]
    <3> DEFINE e == [from |-> Earliest, to |-> AccrualFrontier, state |-> "pending"]
    <3>1. Earliest \in 1..AccrualFrontier /\ AccrualFrontier \in Days /\ Earliest \in Days
      BY <1>1, <1>2, <2>3, EarliestIsADay DEF MayCharge, Days
    <3>2. e \in ProposalRow /\ e.from \in 1..e.to /\ e.to <= today.day
      BY <1>1, <1>2, <3>1 DEF ProposalRow
    <3>3. proposal' = [proposal EXCEPT ![n] = e]
      BY <2>3
    <3> HIDE DEF e
    <3>4. proposal' \in [Numbers -> ProposalRow] /\ proposal'[n] = e /\ \A m \in Numbers \ {n} : proposal'[m] = proposal[m]
      BY <1>1, <3>2, <3>3
    <3> QED BY <1>0, <1>1, <2>1, <3>2, <3>4, ProposalKeeps
  <2> QED BY <1>6, <2>2, <2>3 DEF GenerateInterestProposal
<1>7. ASSUME NEW n \in Numbers, NEW st \in {"approved", "dismissed"}, proposal' = [proposal EXCEPT ![n].state = st]
      PROVE  /\ proposal' \in [Numbers -> ProposalRow]
             /\ \A m \in Numbers : proposal'[m].state = "pending" => proposal'[m] = proposal[m]
  <2> DEFINE e == [proposal[n] EXCEPT !.state = st]
  <2>1. proposal' = [proposal EXCEPT ![n] = e] /\ proposal[n] \in ProposalRow
    BY <1>1, <1>7
  <2>2. e \in ProposalRow /\ e.state = st
    BY <2>1 DEF ProposalRow
  <2> HIDE DEF e
  <2>3. proposal'[n] = e /\ \A m \in Numbers \ {n} : proposal'[m] = proposal[m]
    BY <1>1, <2>1
  <2> QED BY <1>1, <2>1, <2>2, <2>3
<1>8. ASSUME NEW n \in Numbers, DismissInterestProposal(n) PROVE InterestDiscipline'
  <2>1. proposal' = [proposal EXCEPT ![n].state = "dismissed"] /\ UNCHANGED <<today, paid, charges, sweep>>
    BY <1>8 DEF DismissInterestProposal
  <2> QED BY <1>0, <1>1, <1>7, <2>1, ProposalKeeps
<1>9. ASSUME NEW n \in Numbers, ApproveInterestProposal(n) PROVE InterestDiscipline'
  <2>1. /\ proposal[n].state = "pending" /\ UNCHANGED <<today, paid, sweep>>
        /\ IF Accrues(proposal[n].from, proposal[n].to) > 0
             THEN Post(proposal[n].from, proposal[n].to) /\ proposal' = [proposal EXCEPT ![n].state = "approved"]
             ELSE UNCHANGED charges /\ proposal' = [proposal EXCEPT ![n].state = "dismissed"]
    BY <1>9 DEF ApproveInterestProposal
  <2>2. PICK f, t : f = proposal[n].from /\ t = proposal[n].to
    OBVIOUS
  <2>3. f \in 1..t /\ t <= today.day /\ t \in Nat
    <3>1. n \in Pending /\ t \in Days \cup {0}
      BY <1>1, <2>1, <2>2 DEF Pending, ProposalRow
    <3> QED BY <2>2, <3>1 DEF InterestDiscipline, Days
  <2>4. CASE Accrues(f, t) > 0
    <3>1. Post(f, t) /\ proposal' = [proposal EXCEPT ![n].state = "approved"]
      BY <2>1, <2>2, <2>4
    <3> QED BY <1>7, <2>1, <2>3, <2>4, <3>1, PostKeeps
  <2>5. CASE ~(Accrues(f, t) > 0)
    <3>1. UNCHANGED charges /\ proposal' = [proposal EXCEPT ![n].state = "dismissed"]
      BY <2>1, <2>2, <2>5
    <3> QED BY <1>0, <1>1, <1>7, <2>1, <3>1, ProposalKeeps
  <2> QED BY <2>4, <2>5
<1> QED BY <1>3, <1>4, <1>5, <1>6, <1>8, <1>9

\* What is charged or proposed reaches at most the day that payments are dated with, in
\* whichever zone the firm is, so what a charge was posted for is what its days accrue, for
\* ever, or differs by what is paid on a last day that was not over
\* (interest.ts: accrualFrontier, computeChargeInTx; payments.ts).
THEOREM InterestStaysInStep == InterestParameters /\ InterestSpec => []InterestDiscipline
<1>1. InterestParameters /\ InterestInit => InterestDiscipline
  <2> SUFFICES ASSUME InterestParameters, InterestInit PROVE InterestDiscipline
    OBVIOUS
  <2>1. /\ today = [day |-> 1, off |-> Low] /\ paid = [d \in Days |-> 0] /\ charges = {}
        /\ proposal = [n \in Numbers |-> Blank] /\ sweep = {} /\ 1 \in Days /\ Worth \in Nat /\ IsFiniteSet(Days)
    BY FS_Interval DEF InterestInit, InterestParameters, Days
  <2>2. SumFunctionOnSet(paid, Days) = 0
    BY <2>1, SumOfZeros
  <2>3. IsFiniteSet(charges)
    BY <2>1, FS_EmptySet
  <2>4. InterestTypeOK
    BY <2>1, <2>2, <2>3 DEF InterestTypeOK, Blank
  <2>5. Pending = {}
    BY <2>1 DEF Pending, Blank
  <2> QED BY <2>1, <2>4, <2>5 DEF InterestDiscipline, ChargesStand
<1>2. InterestParameters /\ InterestDiscipline /\ [InterestNext]_interestVars => InterestDiscipline'
  BY InterestGoesOn, AllocateKeeps DEF InterestNext
<1>3. ASSUME InterestParameters PROVE InterestSpec => []InterestDiscipline
  <2>1. InterestInit => InterestDiscipline
    BY <1>1, <1>3
  <2>2. InterestDiscipline /\ [InterestNext]_interestVars => InterestDiscipline'
    BY <1>2, <1>3
  <2> QED BY <2>1, <2>2, PTL DEF InterestSpec
<1> QED BY <1>3

\* A charge once posted is what its days accrue, for ever; one whose last day was not over by
\* the database's clock is more by what is paid on that day at most.
THEOREM InterestChargesStand == InterestParameters /\ InterestSpec => []ChargesStand
<1>1. InterestDiscipline => ChargesStand
  BY DEF InterestDiscipline
<1> QED BY <1>1, InterestStaysInStep, PTL

-----------------------------------------------------------------------------
(* The period close: what lands in a certified period. *)

\* A step that changes the state of no session's work but one's, which certifies
\* nothing then, and no close, keeps who certifies.
LEMMA PostingsComeAndGo ==
  ASSUME CloseDiscipline, NEW s \in Clerks, NEW j \in InHand, job' = [job EXCEPT ![s] = j],
         ~Certifies(s) \/ j.at = "idle", j.at \in {"idle", "posting"},
         j.at = "posting" /\ j.in => ~Certified,
         UNCHANGED close
  PROVE  OneClose' /\ CertifiersAlone' /\ InFlightIsKnown'
<1>1. job \in [Clerks -> InHand]
  BY DEF CloseDiscipline, TypeOK
<1>2. job'[s] = j /\ \A t \in Clerks \ {s} : job'[t] = job[t]
  BY <1>1
<1>3. \A t \in Clerks : Certifies(t)' => t # s /\ Certifies(t)
  BY <1>2 DEF Certifies
<1>4. CertifiersAlone'
  BY <1>2, <1>3 DEF CloseDiscipline, CertifiersAlone
<1>5. InFlightIsKnown'
  BY <1>2 DEF CloseDiscipline, InFlightIsKnown, Certified
<1> QED BY <1>4, <1>5 DEF CloseDiscipline, OneClose

\* The postings.
LEMMA PostingsKeepTheClose ==
  ASSUME CloseParameters, CloseDiscipline, NEW s \in Clerks,
         (\E l \in ListedLedgers, in \in BOOLEAN : StartPosting(s, l, in)) \/ CommitPosting(s)
  PROVE  CloseDiscipline'
<1>1. job \in [Clerks -> InHand] /\ posted \in Listings /\ landed \subseteq Clerks
  BY DEF CloseDiscipline, TypeOK
<1>2. CASE \E l \in ListedLedgers, in \in BOOLEAN : StartPosting(s, l, in)
  <2>1. PICK l \in ListedLedgers, in \in BOOLEAN : StartPosting(s, l, in)
    BY <1>2
  <2> DEFINE j == [at |-> "posting", ledger |-> l, in |-> in]
  <2>2. j \in InHand /\ j.at = "posting" /\ j.in = in
    BY DEF InHand
  <2>3. /\ job' = [job EXCEPT ![s] = j] /\ UNCHANGED <<posted, landed, close, certRec>>
        /\ job[s].at = "idle" /\ (in => ~Certified)
    BY <2>1 DEF StartPosting, Free, PeriodOpen
  <2> HIDE DEF j
  <2>4. OneClose' /\ CertifiersAlone' /\ InFlightIsKnown'
    BY <2>2, <2>3, PostingsComeAndGo DEF Certifies
  <2>5. TypeOK' /\ OnlyThoseInFlightLand'
    BY <1>1, <2>2, <2>3 DEF CloseDiscipline, TypeOK, OnlyThoseInFlightLand
  <2> QED BY <2>4, <2>5 DEF CloseDiscipline
<1>3. CASE CommitPosting(s)
  <2>1. /\ job[s].at = "posting" /\ job' = [job EXCEPT ![s] = Idle]
        /\ posted' = [posted EXCEPT ![job[s].ledger] = @ + 1]
        /\ landed' = IF job[s].in /\ Certified THEN landed \cup {s} ELSE landed
        /\ UNCHANGED <<close, certRec>>
    BY <1>3 DEF CommitPosting
  <2>2. Idle \in InHand /\ Idle.at = "idle"
    BY DEF InHand, Idle
  <2>3. OneClose' /\ CertifiersAlone' /\ InFlightIsKnown'
    BY <2>1, <2>2, PostingsComeAndGo
  <2>4. OnlyThoseInFlightLand'
    <3>1. CASE job[s].in /\ Certified
      <4>1. PICK c \in Closes : close[c].status = "certified"
        BY <3>1 DEF Certified
      <4>2. s \in close[c].inFlight
        BY <2>1, <3>1, <4>1 DEF CloseDiscipline, InFlightIsKnown
      <4> QED BY <2>1, <3>1, <4>2 DEF CloseDiscipline, OnlyThoseInFlightLand
    <3>2. CASE ~(job[s].in /\ Certified)
      BY <2>1, <3>2 DEF CloseDiscipline, OnlyThoseInFlightLand
    <3> QED BY <3>1, <3>2
  <2>5. job[s].ledger \in ListedLedgers
    <3>1. job[s] \in InHand
      BY <1>1
    <3> QED BY <2>1, <3>1 DEF InHand, Idle
  <2>6. posted' \in Listings
    BY <1>1, <2>1, <2>5 DEF Listings
  <2>7. TypeOK'
    BY <1>1, <2>1, <2>2, <2>6 DEF CloseDiscipline, TypeOK
  <2> QED BY <2>3, <2>4, <2>7 DEF CloseDiscipline
<1> QED BY <1>2, <1>3

\* A certification that reads on: its close, alone.
LEMMA ReadingOn ==
  ASSUME CloseDiscipline, NEW s \in Clerks, NEW j \in InHand, job' = [job EXCEPT ![s] = j],
         j.at \in {"report", "insert", "add", "book"}, close[j.close].status = "in_progress",
         \A t \in Clerks : Certifies(t) => t = s,
         UNCHANGED <<posted, landed, close, certRec>>
  PROVE  CloseDiscipline'
<1>1. job \in [Clerks -> InHand]
  BY DEF CloseDiscipline, TypeOK
<1>2. job'[s] = j /\ \A t \in Clerks \ {s} : job'[t] = job[t]
  BY <1>1
<1>3. CertifiersAlone'
  BY <1>2 DEF CertifiersAlone, Certifies
<1>4. InFlightIsKnown'
  BY <1>2 DEF CloseDiscipline, InFlightIsKnown
<1>5. TypeOK'
  BY <1>1 DEF CloseDiscipline, TypeOK
<1> QED BY <1>3, <1>4, <1>5 DEF CloseDiscipline, OneClose, OnlyThoseInFlightLand

\* The statements of a certification before its end.
LEMMA CertificationReads ==
  ASSUME CloseParameters, CloseDiscipline, NEW s \in Clerks,
         (\E c \in Closes : StartCertify(s, c)) \/ ReportBalances(s) \/ InsertListingRow(s) \/ AddToTotal(s)
  PROVE  CloseDiscipline'
<1>1. job \in [Clerks -> InHand] /\ posted \in Listings /\ NLedgers \in Nat \ {0}
  BY DEF CloseDiscipline, TypeOK, CloseParameters
<1>2. job[s] \in InHand
  BY <1>1
<1>3. CASE \E c \in Closes : StartCertify(s, c)
  <2>1. PICK c \in Closes : StartCertify(s, c)
    BY <1>3
  <2> DEFINE j == [at |-> "report", close |-> c]
  <2>2. j \in InHand /\ j.at = "report" /\ j.close = c
    BY DEF InHand
  <2>3. \A t \in Clerks : ~Certifies(t)
    <3> SUFFICES ASSUME NEW t \in Clerks, Certifies(t) PROVE FALSE
      OBVIOUS
    <3>1. close[job[t].close].status = "in_progress" /\ job[t].close \in Closes
      <4>1. job[t] \in InHand
        BY <1>1
      <4>2. job[t].close \in Closes
        BY <4>1 DEF InHand, Certifies, Idle
      <4> QED BY <4>2 DEF CloseDiscipline, CertifiersAlone
    <3>2. job[t].close = c
      BY <2>1, <3>1 DEF CloseDiscipline, OneClose, StartCertify
    <3> QED BY <2>1, <3>2 DEF StartCertify, Certifying
  <2>4. job' = [job EXCEPT ![s] = j] /\ close[c].status = "in_progress" /\ UNCHANGED <<posted, landed, close, certRec>>
    BY <2>1 DEF StartCertify
  <2> HIDE DEF j
  <2> QED BY <2>2, <2>3, <2>4, ReadingOn
<1>4. ASSUME Certifies(s), NEW j \in InHand, job' = [job EXCEPT ![s] = j], j.at \in {"insert", "add", "book"},
             j.close = job[s].close, UNCHANGED <<posted, landed, close, certRec>>
      PROVE  CloseDiscipline'
  <2>1. close[j.close].status = "in_progress" /\ \A t \in Clerks : Certifies(t) => t = s
    BY <1>4 DEF CloseDiscipline, CertifiersAlone
  <2> QED BY <1>4, <2>1, ReadingOn
<1>5. CASE ReportBalances(s)
  <2> DEFINE j == [at |-> "insert", close |-> job[s].close, next |-> 1,
                   rows |-> Unlisted, total |-> 0, report |-> posted]
  <2>1. job[s].at = "report" /\ job' = [job EXCEPT ![s] = j] /\ UNCHANGED <<posted, landed, close, certRec>>
    BY <1>5 DEF ReportBalances
  <2>2. job[s].close \in Closes
    BY <1>2, <2>1 DEF InHand, Idle
  <2>3. j \in InHand
    <3>1. Unlisted \in Listings /\ 1 \in ListedLedgers
      BY <1>1 DEF Unlisted, Listings, ListedLedgers
    <3> QED BY <1>1, <2>2, <3>1 DEF InHand
  <2>4. j.at = "insert" /\ j.close = job[s].close
    OBVIOUS
  <2> HIDE DEF j
  <2> QED BY <1>4, <2>1, <2>3, <2>4 DEF Certifies
<1>6. CASE InsertListingRow(s)
  <2> DEFINE k == job[s].next
             j == [job[s] EXCEPT !.at = "add", !.rows = [@ EXCEPT ![k] = posted[k]]]
  <2>1. job[s].at = "insert" /\ UNCHANGED <<posted, landed, close, certRec>>
    BY <1>6 DEF InsertListingRow
  <2>2. job[s] \in [at : {"insert", "add"}, close : Closes, next : ListedLedgers, rows : Listings,
                    total : Nat, report : Listings]
    BY <1>2, <2>1 DEF InHand, Idle
  <2>3. job' = [job EXCEPT ![s] = j]
    BY <1>1, <1>6, <2>2 DEF InsertListingRow
  <2>4. [job[s].rows EXCEPT ![k] = posted[k]] \in Listings
    BY <1>1, <2>2 DEF Listings
  <2>5. j \in [at : {"insert", "add"}, close : Closes, next : ListedLedgers, rows : Listings,
               total : Nat, report : Listings] /\ j.at = "add" /\ j.close = job[s].close
    BY <2>2, <2>4
  <2>6. j \in InHand
    BY <2>5 DEF InHand
  <2> HIDE DEF j
  <2> QED BY <1>4, <2>1, <2>3, <2>5, <2>6 DEF Certifies
<1>7. CASE AddToTotal(s)
  <2> DEFINE k == job[s].next
             j == [job[s] EXCEPT !.at = IF k = NLedgers THEN "book" ELSE "insert",
                                 !.total = @ + posted[k], !.next = @ + 1]
  <2>1. job[s].at = "add" /\ UNCHANGED <<posted, landed, close, certRec>>
    BY <1>7 DEF AddToTotal
  <2>2. job[s] \in [at : {"insert", "add"}, close : Closes, next : ListedLedgers, rows : Listings,
                    total : Nat, report : Listings]
    BY <1>2, <2>1 DEF InHand, Idle
  <2>3. job' = [job EXCEPT ![s] = j]
    BY <1>1, <1>7, <2>2 DEF AddToTotal
  <2>4. k \in 1..NLedgers /\ posted[k] \in Nat /\ job[s].total + posted[k] \in Nat
    BY <1>1, <2>2 DEF Listings, ListedLedgers
  <2>5. j \in InHand /\ j.at \in {"insert", "book"} /\ j.close = job[s].close
    <3>1. CASE k = NLedgers
      <4>1. j \in [at : {"book"}, close : Closes, next : {NLedgers + 1}, rows : Listings, total : Nat, report : Listings]
        BY <1>1, <2>2, <2>4, <3>1
      <4> QED BY <2>2, <3>1, <4>1 DEF InHand
    <3>2. CASE k # NLedgers
      <4>1. k + 1 \in ListedLedgers
        BY <1>1, <2>4, <3>2 DEF ListedLedgers
      <4>2. j \in [at : {"insert", "add"}, close : Closes, next : ListedLedgers, rows : Listings,
                   total : Nat, report : Listings]
        BY <2>2, <2>4, <3>2, <4>1
      <4> QED BY <2>2, <3>2, <4>2 DEF InHand
    <3> QED BY <3>1, <3>2
  <2> HIDE DEF j
  <2> QED BY <1>4, <2>1, <2>3, <2>5 DEF Certifies
<1> QED BY <1>3, <1>5, <1>6, <1>7

\* The end of a certification: with the close certified, what is past the lock is known.
LEMMA CertificationEnds ==
  ASSUME CloseParameters, CloseDiscipline, NEW s \in Clerks, Certify(s) \/ RefuseCertificate(s)
  PROVE  CloseDiscipline'
<1>1. job \in [Clerks -> InHand] /\ job[s].at = "book"
      /\ job' = [job EXCEPT ![s] = Idle] /\ UNCHANGED <<posted, landed, certRec>>
  BY DEF CloseDiscipline, TypeOK, Certify, RefuseCertificate
<1>2. Idle \in InHand /\ Idle.at = "idle"
  BY DEF InHand, Idle
<1>3. CASE RefuseCertificate(s)
  <2>1. UNCHANGED close
    BY <1>3 DEF RefuseCertificate
  <2>2. OneClose' /\ CertifiersAlone' /\ InFlightIsKnown'
    BY <1>1, <1>2, <2>1, PostingsComeAndGo
  <2>3. TypeOK' /\ OnlyThoseInFlightLand'
    BY <1>1, <1>2, <2>1 DEF CloseDiscipline, TypeOK, OnlyThoseInFlightLand
  <2> QED BY <2>2, <2>3 DEF CloseDiscipline
<1>4. CASE Certify(s)
  <2> DEFINE d == job[s].close
             F == {t \in Clerks : job[t].at = "posting" /\ job[t].in}
             x == [status |-> "certified", listing |-> job[s].rows, total |-> job[s].total,
                   report |-> job[s].report, inFlight |-> F]
  <2>1. close' = [close EXCEPT ![d] = x]
    BY <1>4 DEF Certify
  <2>2. job[s] \in [at : {"book"}, close : Closes, next : {NLedgers + 1}, rows : Listings, total : Nat, report : Listings]
    <3>1. job[s] \in InHand
      BY <1>1
    <3> QED BY <1>1, <3>1 DEF InHand, Idle
  <2>3. /\ d \in Closes /\ x.status = "certified" /\ x.inFlight = F
        /\ x \in [status : {"none", "due", "in_progress", "certified"}, listing : Listings,
                  total : Nat, report : Listings, inFlight : SUBSET Clerks]
    BY <2>2
  <2> HIDE DEF d, x
  <2>4. close' \in [Closes -> [status : {"none", "due", "in_progress", "certified"}, listing : Listings,
                               total : Nat, report : Listings, inFlight : SUBSET Clerks]]
        /\ close'[d] = x /\ \A c \in Closes \ {d} : close'[c] = close[c]
    BY <2>1, <2>3 DEF CloseDiscipline, TypeOK
  <2>5. close[d].status = "in_progress" /\ \A t \in Clerks : Certifies(t) => t = s
    BY <1>1 DEF d, CloseDiscipline, CertifiersAlone, Certifies
  <2>6. job'[s] = Idle /\ \A t \in Clerks \ {s} : job'[t] = job[t]
    BY <1>1
  <2>7. CertifiersAlone'
    BY <1>2, <2>5, <2>6 DEF CertifiersAlone, Certifies
  <2>8. \A c \in Closes \ {d} : close[c].status = "none"
    BY <2>3, <2>5 DEF CloseDiscipline, OneClose
  <2>9. OneClose'
    BY <2>4, <2>8 DEF OneClose
  <2>10. InFlightIsKnown'
    <3>1. \A t \in Clerks : job'[t].at = "posting" /\ job'[t].in => t \in F
      BY <1>2, <2>6
    <3>2. close'[d].status = "certified" /\ close'[d].inFlight = F
      BY <2>3, <2>4
    <3>3. \A c \in Closes \ {d} : close'[c].status = "none" /\ close'[c].inFlight = {}
      BY <2>4, <2>8 DEF CloseDiscipline, InFlightIsKnown
    <3> QED BY <2>3, <3>1, <3>2, <3>3 DEF InFlightIsKnown
  <2>11. OnlyThoseInFlightLand'
    <3>1. close[d].inFlight = {}
      BY <2>3, <2>5 DEF CloseDiscipline, InFlightIsKnown
    <3> SUFFICES ASSUME NEW t \in landed PROVE \E c \in Closes : t \in close'[c].inFlight
      BY <1>1 DEF OnlyThoseInFlightLand
    <3>2. PICK c \in Closes : t \in close[c].inFlight
      BY DEF CloseDiscipline, OnlyThoseInFlightLand
    <3> QED BY <2>4, <3>1, <3>2
  <2>12. TypeOK'
    BY <1>1, <1>2, <2>4 DEF CloseDiscipline, TypeOK
  <2> QED BY <2>7, <2>9, <2>10, <2>11, <2>12 DEF CloseDiscipline
<1> QED BY <1>3, <1>4

\* A close that comes or is opened, and the reconciliation.
LEMMA ClosesOpen ==
  ASSUME CloseDiscipline,
         ReconciliationCertified \/ \E c \in Closes : MaterialiseCloseObligations(c) \/ OpenPeriodClose(c)
  PROVE  CloseDiscipline'
<1>1. CASE ReconciliationCertified
  BY <1>1 DEF ReconciliationCertified, CloseDiscipline, TypeOK, OneClose, CertifiersAlone, Certifies,
              InFlightIsKnown, OnlyThoseInFlightLand
<1>2. ASSUME NEW c \in Closes, MaterialiseCloseObligations(c) \/ OpenPeriodClose(c)
      PROVE  CloseDiscipline'
  <2>1. PICK v \in {"due", "in_progress"} : close' = [close EXCEPT ![c].status = v]
    BY <1>2 DEF MaterialiseCloseObligations, OpenPeriodClose
  <2>2. /\ close[c].status = "due" \/ \A d \in Closes : close[d].status = "none"
        /\ UNCHANGED <<posted, landed, certRec, job>>
    BY <1>2 DEF MaterialiseCloseObligations, OpenPeriodClose, Unique
  <2>3. close \in [Closes -> [status : {"none", "due", "in_progress", "certified"}, listing : Listings,
                             total : Nat, report : Listings, inFlight : SUBSET Clerks]]
    BY DEF CloseDiscipline, TypeOK
  <2>4. /\ close' \in [Closes -> [status : {"none", "due", "in_progress", "certified"}, listing : Listings,
                                  total : Nat, report : Listings, inFlight : SUBSET Clerks]]
        /\ close'[c].status = v /\ \A d \in Closes \ {c} : close'[d] = close[d]
        /\ \A d \in Closes : close'[d].inFlight = close[d].inFlight
    BY <2>1, <2>3
  <2>5. close[c].status \in {"none", "due"} /\ \A d \in Closes \ {c} : close[d].status = "none"
    BY <2>2 DEF CloseDiscipline, OneClose
  <2>6. \A s \in Clerks : ~Certifies(s)
    <3> SUFFICES ASSUME NEW s \in Clerks, Certifies(s) PROVE FALSE
      OBVIOUS
    <3>1. job[s] \in InHand
      BY DEF CloseDiscipline, TypeOK
    <3>2. job[s].close \in Closes
      BY <3>1 DEF InHand, Certifies, Idle
    <3>3. close[job[s].close].status = "in_progress"
      BY DEF CloseDiscipline, CertifiersAlone
    <3> QED BY <2>5, <3>2, <3>3
  <2>7. CertifiersAlone'
    BY <2>2, <2>6 DEF CertifiersAlone, Certifies
  <2>8. OneClose'
    BY <2>4, <2>5 DEF OneClose
  <2>9. InFlightIsKnown'
    BY <2>2, <2>4, <2>5 DEF CloseDiscipline, InFlightIsKnown
  <2>10. OnlyThoseInFlightLand'
    BY <2>2, <2>4 DEF CloseDiscipline, OnlyThoseInFlightLand
  <2>11. TypeOK'
    BY <2>2, <2>4 DEF CloseDiscipline, TypeOK
  <2> QED BY <2>7, <2>8, <2>9, <2>10, <2>11 DEF CloseDiscipline
<1> QED BY <1>1, <1>2

\* The invariant of the period close holds from the start and after every step.
THEOREM CloseStaysInStep == CloseParameters /\ Spec => []CloseDiscipline
<1>1. ASSUME CloseParameters, Init PROVE CloseDiscipline
  <2>1. Unlisted \in Listings /\ Idle \in InHand /\ Idle.at = "idle"
    BY DEF Unlisted, Listings, InHand, Idle
  <2>2. /\ posted = Unlisted /\ landed = {} /\ certRec = FALSE
        /\ \A c \in Closes : close[c] = NoClose
        /\ \A s \in Clerks : job[s] = Idle
        /\ close = [c \in Closes |-> NoClose] /\ job = [s \in Clerks |-> Idle]
    BY <1>1 DEF Init
  <2>3. TypeOK
    BY <2>1, <2>2 DEF TypeOK, NoClose
  <2>4. OneClose /\ CertifiersAlone /\ InFlightIsKnown /\ OnlyThoseInFlightLand
    BY <2>1, <2>2 DEF OneClose, CertifiersAlone, Certifies, InFlightIsKnown, OnlyThoseInFlightLand, NoClose
  <2> QED BY <2>3, <2>4 DEF CloseDiscipline
<1>2. ASSUME CloseParameters, CloseDiscipline, Next PROVE CloseDiscipline'
  BY <1>2, ClosesOpen, PostingsKeepTheClose, CertificationReads, CertificationEnds DEF Next
<1>3. CloseDiscipline /\ UNCHANGED vars => CloseDiscipline'
  BY DEF vars, CloseDiscipline, TypeOK, OneClose, CertifiersAlone, Certifies, InFlightIsKnown,
         OnlyThoseInFlightLand
<1>4. ASSUME CloseParameters PROVE Spec => []CloseDiscipline
  <2>1. Init => CloseDiscipline
    BY <1>1, <1>4
  <2>2. CloseDiscipline /\ [Next]_vars => CloseDiscipline'
    BY <1>2, <1>3, <1>4
  <2> QED BY <2>1, <2>2, PTL DEF Spec
<1> QED BY <1>4

\* Only a posting whose line had passed the lock when the certificate was given lands in
\* the certified period (0014: z_assert_period_open).
THEOREM OnlyPostingsInFlightLand == CloseParameters /\ Spec => []OnlyThoseInFlightLand
<1>1. CloseDiscipline => OnlyThoseInFlightLand
  BY DEF CloseDiscipline
<1>2. ASSUME CloseParameters PROVE Spec => []OnlyThoseInFlightLand
  <2>1. Spec => []CloseDiscipline
    BY <1>2, CloseStaysInStep
  <2> QED BY <1>1, <2>1, PTL
<1> QED BY <1>2


-----------------------------------------------------------------------------
(* The payment channel and the funds policy. *)

\* What a session holds is left alone by the steps of the others.
RowsHeldBy(u) ==
  /\ \A r \in Requests :
       Holding(u, <<"request", r>>) => request'[r] = request[r] \/ request[r] = "none"
  /\ \A c \in Charges :
       Holding(u, <<"charge", c>>) => charge'[c] = charge[c] \/ charge[c].state = "none"
  /\ \A t \in Targets : Holding(u, <<"reference", t>>) /\ t \in active => t \in active'
  /\ Holding(u, PolicyRow) /\ NoneOpen /\ Unfired => NoneOpen' /\ Unfired'
KeepsItsLocks(u) ==
  doing'[u] = doing[u] /\ \A x \in Lockables : lock[x] = u => lock'[x] = u

\* What the rows say of each other.
ReferencesRight ==
  /\ \A c \in Charges : charge[c].state # "none" => charge[c].target \in Targets
  /\ \A c \in Charges, t \in Targets : PaysFor(c, t) => Spent(t)
  /\ \A c, d \in Charges, t \in Targets : PaysFor(c, t) /\ PaysFor(d, t) => c = d
  /\ \A r \in Requests : request[r] = "issued" => r \in active
  /\ OneRequestOpen

LEMMA RowsAreLockable ==
  /\ PolicyRow \in Lockables
  /\ \A q \in Requests : <<"request", q>> \in Lockables
  /\ \A t \in Targets : <<"reference", t>> \in Lockables
  /\ \A c \in Charges : <<"charge", c>> \in Lockables
BY DEF Lockables

LEMMA HoldsOn ==
  ASSUME NEW u \in Workers, SessionHolds(u), RowsHeldBy(u), KeepsItsLocks(u)
  PROVE  SessionHolds(u)'
<1> DEFINE j == doing[u]
<1>1. doing'[u] = j
  BY DEF KeepsItsLocks
<1>2. \A x \in Lockables : lock[x] = u => lock'[x] = u
  BY DEF KeepsItsLocks
<1>3. j.step = "evaluate" => lock'[PolicyRow] = u /\ NoneOpen' /\ Unfired'
  BY <1>2, RowsAreLockable DEF SessionHolds, RowsHeldBy, Holding
<1>4. ASSUME NEW q \in Requests, lock[<<"request", q>>] = u
      PROVE  lock'[<<"request", q>>] = u /\ (request'[q] = request[q] \/ request[q] = "none")
  BY <1>2, <1>4, RowsAreLockable DEF RowsHeldBy, Holding
<1>5. ASSUME NEW c \in Charges, lock[<<"charge", c>>] = u
      PROVE  lock'[<<"charge", c>>] = u /\ (charge'[c] = charge[c] \/ charge[c].state = "none")
  BY <1>2, <1>5, RowsAreLockable DEF RowsHeldBy, Holding
<1>6. ASSUME NEW t \in active, t \in Targets, lock[<<"reference", t>>] = u
      PROVE  lock'[<<"reference", t>>] = u /\ t \in active'
  BY <1>2, <1>6, RowsAreLockable DEF RowsHeldBy, Holding
<1>7. j.step \in {"confirm", "cancel"} =>
        /\ j.on \in Requests /\ lock'[<<"request", j.on>>] = u
        /\ request'[j.on] \in (IF j.step = "confirm" THEN {"pending_confirmation"} ELSE Open)
  BY <1>4 DEF SessionHolds, Holding, Open
<1>8. j.step \in SettlingSteps =>
        /\ j.charge \in Charges /\ lock'[<<"charge", j.charge>>] = u
        /\ charge'[j.charge] = [target |-> j.on, amount |-> j.amount, state |-> "started"]
        /\ j.on \in Targets
  BY <1>5 DEF SessionHolds, Holding
<1>9. j.step \in SettlingSteps \ {"charge"} => j.on \in active' /\ lock'[<<"reference", j.on>>] = u
  BY <1>6 DEF SessionHolds, Holding, SettlingSteps
<1>10. j.step = "request" => j.on \in Requests /\ lock'[<<"request", j.on>>] = u
  BY <1>4 DEF SessionHolds, Holding
<1>11. j.step = "start" => j.on \in Targets /\ j.charge \in Charges
  BY DEF SessionHolds
<1> HIDE DEF j
<1> QED BY <1>1, <1>3, <1>7, <1>8, <1>9, <1>10, <1>11 DEF SessionHolds, Holding

\* A step of s that keeps what the others hold, and the rows right, keeps the invariant.
LEMMA ChannelStep ==
  ASSUME ChannelDiscipline, NEW S, ChannelTypeOK', ReferencesRight',
         \A s \in Workers \cap S : SessionHolds(s)',
         \A u \in Workers \ S : RowsHeldBy(u) /\ KeepsItsLocks(u)
  PROVE  ChannelDiscipline'
<1>1. ASSUME NEW u \in Workers PROVE SessionHolds(u)'
  <2>1. CASE u \in S
    BY <2>1
  <2>2. CASE u \notin S
    BY <2>2, HoldsOn DEF ChannelDiscipline
  <2> QED BY <2>1, <2>2
<1> QED BY <1>1 DEF ChannelDiscipline, ReferencesRight

\* While only locks and sessions change, the rows are as they were.
LEMMA RowsStand ==
  ASSUME ChannelDiscipline, UNCHANGED rows
  PROVE  ReferencesRight' /\ \A u \in Workers : RowsHeldBy(u)
<1>1. UNCHANGED <<request, active, charge, policy>>
  BY DEF rows
<1>2. ReferencesRight'
  BY <1>1 DEF ChannelDiscipline, ReferencesRight, PaysFor, Spent, OneRequestOpen
<1>3. (NoneOpen => NoneOpen') /\ (Unfired => Unfired')
  BY <1>1 DEF NoneOpen, Unfired
<1> QED BY <1>1, <1>2, <1>3 DEF RowsHeldBy

LEMMA NoJobTyped == ChannelParameters => NoJob \in Doing /\ NoJob.step = "idle"
BY DEF NoJob, Doing, ChannelParameters

\* A commit or an abort ends the session and frees its locks.
LEMMA CommitFrees ==
  ASSUME ChannelParameters, ChannelDiscipline, NEW s \in Workers, Commits(s)
  PROVE  /\ doing' \in [Workers -> Doing] /\ lock' \in [Lockables -> Workers \cup {Absent}]
         /\ \A u \in Workers \ {s} : KeepsItsLocks(u)
         /\ SessionHolds(s)'
<1>1. doing \in [Workers -> Doing] /\ lock \in [Lockables -> Workers \cup {Absent}]
  BY DEF ChannelDiscipline, ChannelTypeOK
<1>2. NoJob \in Doing /\ NoJob.step = "idle"
  BY NoJobTyped
<1>3. doing' \in [Workers -> Doing] /\ doing'[s] = NoJob
  BY <1>1, <1>2 DEF Commits, Becomes
<1>4. lock' \in [Lockables -> Workers \cup {Absent}]
  BY <1>1 DEF Commits, Frees
<1>5. \A u \in Workers \ {s} : KeepsItsLocks(u)
  BY <1>1 DEF Commits, Frees, Becomes, KeepsItsLocks
<1>6. SessionHolds(s)'
  BY <1>2, <1>3 DEF SessionHolds, SettlingSteps
<1> QED BY <1>3, <1>4, <1>5, <1>6

\* A session takes a row that is free, and goes on.
LEMMA TakeHolds ==
  ASSUME ChannelParameters, ChannelDiscipline, NEW s \in Workers, NEW x \in Lockables, Unlocked(s, x), Takes(s, x),
         NEW j \in Doing, Becomes(s, j)
  PROVE  /\ doing' \in [Workers -> Doing] /\ lock' \in [Lockables -> Workers \cup {Absent}]
         /\ \A u \in Workers \ {s} : KeepsItsLocks(u)
         /\ doing'[s] = j /\ Holding(s, x)' /\ \A y \in Lockables : Holding(s, y) => Holding(s, y)'
<1>1. doing \in [Workers -> Doing] /\ lock \in [Lockables -> Workers \cup {Absent}]
  BY DEF ChannelDiscipline, ChannelTypeOK
<1>2. doing' \in [Workers -> Doing] /\ doing'[s] = j /\ \A u \in Workers \ {s} : doing'[u] = doing[u]
  BY <1>1 DEF Becomes
<1>3. /\ lock' \in [Lockables -> Workers \cup {Absent}] /\ lock'[x] = s
      /\ \A y \in Lockables \ {x} : lock'[y] = lock[y]
  BY <1>1 DEF Takes
<1>4. ASSUME NEW u \in Workers \ {s}, NEW y \in Lockables, lock[y] = u PROVE lock'[y] = u
  <2>1. CASE y = x
    BY <1>4, <2>1 DEF Unlocked, ChannelParameters
  <2> QED BY <1>3, <1>4, <2>1
<1> QED BY <1>2, <1>3, <1>4 DEF KeepsItsLocks, Holding

\* What the rows' types ask is settled when the rows are left alone.
LEMMA RowTypesStand ==
  ASSUME ChannelDiscipline, UNCHANGED rows,
         doing' \in [Workers -> Doing], lock' \in [Lockables -> Workers \cup {Absent}]
  PROVE  ChannelTypeOK'
BY DEF ChannelDiscipline, ChannelTypeOK, rows

\* A step that takes a row, or none, and changes no other.
LEMMA TakingStep ==
  ASSUME ChannelParameters, ChannelDiscipline, NEW s \in Workers, UNCHANGED rows,
         doing' \in [Workers -> Doing], lock' \in [Lockables -> Workers \cup {Absent}],
         \A u \in Workers \ {s} : KeepsItsLocks(u), SessionHolds(s)'
  PROVE  ChannelDiscipline'
<1>1. ChannelTypeOK'
  BY RowTypesStand
<1>2. ReferencesRight' /\ \A u \in Workers : RowsHeldBy(u)
  BY RowsStand
<1> DEFINE S == {s}
<1>3. \A u \in Workers \ S : RowsHeldBy(u) /\ KeepsItsLocks(u)
  BY <1>2
<1>4. \A u \in Workers \cap S : SessionHolds(u)'
  OBVIOUS
<1> HIDE DEF S
<1> QED BY <1>1, <1>2, <1>3, <1>4, ChannelStep

LEMMA AbortKeepsChannel ==
  ASSUME ChannelParameters, ChannelDiscipline, NEW s \in Workers, Abort(s)
  PROVE  ChannelDiscipline'
BY CommitFrees, TakingStep DEF Abort

LEMMA StartEvaluateKeeps ==
  ASSUME ChannelParameters, ChannelDiscipline, NEW s \in Workers, StartEvaluate(s)
  PROVE  ChannelDiscipline'
<1> DEFINE j == [NoJob EXCEPT !.step = "evaluate", !.amount = Wanted - available]
<1>1. j \in Doing /\ j.step = "evaluate"
  <2>1. NoJob \in Doing
    BY NoJobTyped
  <2>2. Wanted - available \in 0..Wanted
    BY DEF StartEvaluate, ChannelParameters, ChannelDiscipline, ChannelTypeOK
  <2> QED BY <2>1, <2>2 DEF Doing
<1>2. /\ Unlocked(s, PolicyRow) /\ Takes(s, PolicyRow) /\ Becomes(s, j) /\ UNCHANGED rows
      /\ NoneOpen /\ Unfired
  BY DEF StartEvaluate
<1> HIDE DEF j
<1>3. /\ doing' \in [Workers -> Doing] /\ lock' \in [Lockables -> Workers \cup {Absent}]
      /\ \A u \in Workers \ {s} : KeepsItsLocks(u)
      /\ doing'[s] = j /\ Holding(s, PolicyRow)'
  BY <1>1, <1>2, TakeHolds, RowsAreLockable
<1>4. NoneOpen' /\ Unfired'
  BY <1>2 DEF rows, NoneOpen, Unfired
<1>5. SessionHolds(s)'
  BY <1>1, <1>3, <1>4 DEF SessionHolds, SettlingSteps
<1> QED BY <1>2, <1>3, <1>5, TakingStep

LEMMA TakeRequestKeeps ==
  ASSUME ChannelParameters, ChannelDiscipline, NEW s \in Workers, NEW r \in Requests,
         StartConfirm(s, r) \/ StartCancel(s, r)
  PROVE  ChannelDiscipline'
<1>1. PICK step \in {"confirm", "cancel"} :
        /\ Unlocked(s, <<"request", r>>) /\ Takes(s, <<"request", r>>) /\ UNCHANGED rows
        /\ request[r] \in (IF step = "confirm" THEN {"pending_confirmation"} ELSE Open)
        /\ Becomes(s, [NoJob EXCEPT !.step = step, !.on = r])
  BY DEF StartConfirm, StartCancel, TakeRequest
<1> DEFINE j == [NoJob EXCEPT !.step = step, !.on = r]
<1>2. j \in Doing /\ j.step = step /\ j.on = r
  <2>1. NoJob \in Doing
    BY NoJobTyped
  <2>2. 0 \in 0..Wanted /\ r \in Targets
    BY DEF Targets, ChannelParameters
  <2> QED BY <2>1, <2>2 DEF Doing
<1>3. Becomes(s, j)
  BY <1>1
<1> HIDE DEF j
<1>4. /\ doing' \in [Workers -> Doing] /\ lock' \in [Lockables -> Workers \cup {Absent}]
      /\ \A u \in Workers \ {s} : KeepsItsLocks(u)
      /\ doing'[s] = j /\ lock'[<<"request", r>>] = s
  BY <1>1, <1>2, <1>3, TakeHolds, RowsAreLockable DEF Holding
<1>5. request' = request
  BY <1>1 DEF rows
<1>6. SessionHolds(s)'
  BY <1>1, <1>2, <1>4, <1>5 DEF SessionHolds, SettlingSteps, Holding
<1> QED BY <1>1, <1>4, <1>6, TakingStep

LEMMA StartReportKeeps ==
  ASSUME ChannelParameters, ChannelDiscipline, NEW s \in Workers, NEW c \in Charges,
         NEW t \in Targets, NEW n \in Amounts, StartReport(s, c, t, n)
  PROVE  ChannelDiscipline'
<1> DEFINE j == [NoJob EXCEPT !.step = "start", !.on = t, !.charge = c, !.amount = n]
<1>1. j \in Doing /\ j.step = "start" /\ j.on = t /\ j.charge = c
  <2>1. NoJob \in Doing
    BY NoJobTyped
  <2>2. n \in 0..Wanted
    BY DEF Amounts, ChannelParameters
  <2> QED BY <2>1, <2>2 DEF Doing
<1>2. Becomes(s, j) /\ UNCHANGED <<rows, lock>>
  BY DEF StartReport
<1> HIDE DEF j
<1>3. doing \in [Workers -> Doing] /\ lock \in [Lockables -> Workers \cup {Absent}]
  BY DEF ChannelDiscipline, ChannelTypeOK
<1>4. doing' \in [Workers -> Doing] /\ doing'[s] = j /\ \A u \in Workers \ {s} : KeepsItsLocks(u)
  BY <1>1, <1>2, <1>3 DEF Becomes, KeepsItsLocks
<1>5. SessionHolds(s)'
  BY <1>1, <1>4 DEF SessionHolds, SettlingSteps
<1> QED BY <1>2, <1>3, <1>4, <1>5, TakingStep

LEMMA StartSettleKeeps ==
  ASSUME ChannelParameters, ChannelDiscipline, NEW s \in Workers, NEW c \in Charges, StartSettle(s, c)
  PROVE  ChannelDiscipline'
<1> DEFINE j == [NoJob EXCEPT !.step = "charge", !.charge = c, !.on = charge[c].target,
                              !.amount = charge[c].amount]
<1>1. charge[c] \in Charge /\ charge[c].state = "started"
  BY DEF StartSettle, ChannelDiscipline, ChannelTypeOK
<1>2. charge[c].target \in Targets
  BY <1>1 DEF ChannelDiscipline
<1>3. /\ j \in Doing /\ j.step = "charge" /\ j.charge = c /\ j.on = charge[c].target
      /\ j.amount = charge[c].amount
  <2>1. NoJob \in Doing
    BY NoJobTyped
  <2> QED BY <1>1, <1>2, <2>1 DEF Doing, Charge
<1>4. /\ Unlocked(s, <<"charge", c>>) /\ Takes(s, <<"charge", c>>) /\ Becomes(s, j) /\ UNCHANGED rows
  BY DEF StartSettle
<1> HIDE DEF j
<1>5. /\ doing' \in [Workers -> Doing] /\ lock' \in [Lockables -> Workers \cup {Absent}]
      /\ \A u \in Workers \ {s} : KeepsItsLocks(u)
      /\ doing'[s] = j /\ lock'[<<"charge", c>>] = s
  BY <1>3, <1>4, TakeHolds, RowsAreLockable DEF Holding
<1>6. charge'[c] = [target |-> j.on, amount |-> j.amount, state |-> "started"]
  BY <1>1, <1>3, <1>4 DEF rows, Charge
<1>7. SessionHolds(s)'
  BY <1>3, <1>5, <1>6, <1>2 DEF SessionHolds, SettlingSteps, Holding
<1> QED BY <1>4, <1>5, <1>7, TakingStep

LEMMA LockReferenceKeeps ==
  ASSUME ChannelParameters, ChannelDiscipline, NEW s \in Workers, LockReference(s)
  PROVE  ChannelDiscipline'
<1> DEFINE j == doing[s]  k == [doing[s] EXCEPT !.step = "reference"]
<1>1. j \in Doing /\ j.step = "charge" /\ SessionHolds(s)
  BY DEF LockReference, ChannelDiscipline, ChannelTypeOK
<1>2. /\ j.charge \in Charges /\ lock[<<"charge", j.charge>>] = s /\ j.on \in Targets
      /\ charge[j.charge] = [target |-> j.on, amount |-> j.amount, state |-> "started"]
  BY <1>1 DEF SessionHolds, SettlingSteps, Holding
<1>3. k \in Doing /\ k.step = "reference" /\ k.on = j.on /\ k.charge = j.charge /\ k.amount = j.amount
  BY <1>1 DEF Doing
<1>4. /\ Unlocked(s, <<"reference", j.on>>) /\ Takes(s, <<"reference", j.on>>) /\ Becomes(s, k)
      /\ UNCHANGED rows /\ j.on \in active
  BY DEF LockReference, ReferenceFree
<1> HIDE DEF k, j
<1>5. /\ doing' \in [Workers -> Doing] /\ lock' \in [Lockables -> Workers \cup {Absent}]
      /\ \A u \in Workers \ {s} : KeepsItsLocks(u)
      /\ doing'[s] = k /\ lock'[<<"reference", j.on>>] = s
      /\ \A y \in Lockables : lock[y] = s => lock'[y] = s
  BY <1>2, <1>3, <1>4, TakeHolds, RowsAreLockable DEF Holding
<1>6. lock'[<<"charge", j.charge>>] = s /\ UNCHANGED <<charge, active>>
  BY <1>2, <1>4, <1>5, RowsAreLockable DEF rows
<1>7. SessionHolds(s)'
  BY <1>2, <1>3, <1>4, <1>5, <1>6 DEF SessionHolds, SettlingSteps, Holding
<1> QED BY <1>4, <1>5, <1>7, TakingStep

LEMMA LockRequestKeeps ==
  ASSUME ChannelParameters, ChannelDiscipline, NEW s \in Workers, LockRequest(s)
  PROVE  ChannelDiscipline'
<1> DEFINE j == doing[s]  k == [doing[s] EXCEPT !.step = "request"]
<1>1. j \in Doing /\ j.step = "reference" /\ SessionHolds(s)
  BY DEF LockRequest, ChannelDiscipline, ChannelTypeOK
<1>2. /\ j.charge \in Charges /\ lock[<<"charge", j.charge>>] = s /\ j.on \in Targets
      /\ charge[j.charge] = [target |-> j.on, amount |-> j.amount, state |-> "started"]
      /\ j.on \in active /\ lock[<<"reference", j.on>>] = s
  BY <1>1 DEF SessionHolds, SettlingSteps, Holding
<1>3. k \in Doing /\ k.step = "request" /\ k.on = j.on /\ k.charge = j.charge /\ k.amount = j.amount
  BY <1>1 DEF Doing
<1>4. /\ Unlocked(s, <<"request", j.on>>) /\ Takes(s, <<"request", j.on>>) /\ Becomes(s, k)
      /\ UNCHANGED rows /\ j.on \in Requests
  BY DEF LockRequest
<1> HIDE DEF k, j
<1>5. /\ doing' \in [Workers -> Doing] /\ lock' \in [Lockables -> Workers \cup {Absent}]
      /\ \A u \in Workers \ {s} : KeepsItsLocks(u)
      /\ doing'[s] = k /\ lock'[<<"request", j.on>>] = s
      /\ \A y \in Lockables : lock[y] = s => lock'[y] = s
  BY <1>2, <1>3, <1>4, TakeHolds, RowsAreLockable DEF Holding
<1>6. /\ lock'[<<"charge", j.charge>>] = s /\ lock'[<<"reference", j.on>>] = s
      /\ UNCHANGED <<charge, active>>
  BY <1>2, <1>4, <1>5, RowsAreLockable DEF rows
<1>7. SessionHolds(s)'
  BY <1>2, <1>3, <1>4, <1>5, <1>6 DEF SessionHolds, SettlingSteps, Holding
<1> QED BY <1>4, <1>5, <1>7, TakingStep

\* A step that writes rows and commits.
LEMMA WritingStep ==
  ASSUME ChannelParameters, ChannelDiscipline, NEW s \in Workers, Commits(s),
         request' \in [Requests -> Open \cup {"none", "satisfied", "cancelled"}],
         asked' \in [Requests -> 0..Wanted], active' \subseteq Targets,
         charge' \in [Charges -> Charge], available' \in 0..(2 * Wanted),
         policy' \in [arming : Nat, fired : SUBSET Nat], billPaid' \in [Bills -> 0..Expected],
         ReferencesRight', \A u \in Workers \ {s} : RowsHeldBy(u)
  PROVE  ChannelDiscipline'
<1>1. /\ doing' \in [Workers -> Doing] /\ lock' \in [Lockables -> Workers \cup {Absent}]
      /\ \A u \in Workers \ {s} : KeepsItsLocks(u)
      /\ SessionHolds(s)'
  BY CommitFrees
<1>2. ChannelTypeOK'
  BY <1>1 DEF ChannelTypeOK
<1> DEFINE S == {s}
<1>3. \A u \in Workers \ S : RowsHeldBy(u) /\ KeepsItsLocks(u)
  BY <1>1
<1>4. \A u \in Workers \cap S : SessionHolds(u)'
  BY <1>1
<1> HIDE DEF S
<1> QED BY <1>2, <1>3, <1>4, ChannelStep

\* One request is written; a request that was paid is not.
LEMMA OneRequestWritten ==
  ASSUME ChannelParameters, ChannelDiscipline, NEW s \in Workers, NEW r \in Requests, NEW state,
         request' = [request EXCEPT ![r] = state], request[r] # "satisfied",
         request[r] = "none" \/ Holding(s, <<"request", r>>), request[r] \in Open => state \notin {"none"},
         state = "issued" => active' = active \cup {r},
         state # "issued" => active' = active \ {r} \/ (active' = active /\ request[r] = "none"),
         r \in active /\ r \notin active' => ReferenceFree(s, r),
         state \in Open => request[r] \in Open \/ (NoneOpen /\ Holding(s, PolicyRow)),
         UNCHANGED charge, policy' = policy \/ Holding(s, PolicyRow)
  PROVE  ReferencesRight' /\ \A u \in Workers \ {s} : RowsHeldBy(u)
<1>1. request \in [Requests -> Open \cup {"none", "satisfied", "cancelled"}]
  BY DEF ChannelDiscipline, ChannelTypeOK
<1>2. request'[r] = state /\ \A q \in Requests \ {r} : request'[q] = request[q]
  BY <1>1
<1>3. \A c \in Charges, t \in Targets : PaysFor(c, t)' <=> PaysFor(c, t)
  BY DEF PaysFor
<1>4. \A c \in Charges : ~PaysFor(c, r)
  BY DEF ChannelDiscipline, Spent, Targets
<1>5. \A t \in Targets \ {r} : t \in active' <=> t \in active
  OBVIOUS
<1>6. ASSUME NEW c \in Charges, NEW t \in Targets, PaysFor(c, t)' PROVE Spent(t)'
  <2>1. PaysFor(c, t) /\ t # r /\ Spent(t)
    BY <1>3, <1>4, <1>6 DEF ChannelDiscipline
  <2> QED BY <1>2, <1>5, <2>1 DEF Spent
<1>7. \A c, d \in Charges, t \in Targets : PaysFor(c, t)' /\ PaysFor(d, t)' => c = d
  BY <1>3 DEF ChannelDiscipline
<1>8. ASSUME NEW q \in Requests, request'[q] = "issued" PROVE q \in active'
  <2>1. CASE q = r
    BY <1>2, <1>8, <2>1
  <2>2. CASE q # r
    BY <1>2, <1>5, <1>8, <2>2 DEF ChannelDiscipline, Targets
  <2> QED BY <2>1, <2>2
<1>9. OneRequestOpen'
  <2>1. CASE state \in Open
    BY <1>2, <2>1 DEF OneRequestOpen, NoneOpen, ChannelDiscipline
  <2>2. CASE state \notin Open
    BY <1>2, <2>2 DEF OneRequestOpen, ChannelDiscipline
  <2> QED BY <2>1, <2>2
<1>10. \A c \in Charges : charge'[c].state # "none" => charge'[c].target \in Targets
  BY DEF ChannelDiscipline
<1>11. ReferencesRight'
  BY <1>6, <1>7, <1>8, <1>9, <1>10 DEF ReferencesRight
<1>12. ASSUME NEW u \in Workers \ {s} PROVE RowsHeldBy(u)
  <2>1. ASSUME NEW q \in Requests, Holding(u, <<"request", q>>)
        PROVE  request'[q] = request[q] \/ request[q] = "none"
    <3>1. CASE q = r
      BY <2>1, <3>1 DEF Holding
    <3> QED BY <1>2, <3>1
  <2>2. ASSUME NEW t \in Targets, Holding(u, <<"reference", t>>), t \in active PROVE t \in active'
    <3>1. CASE t = r
      BY <2>2, <3>1 DEF Holding, ReferenceFree, Unlocked, ChannelParameters
    <3> QED BY <1>5, <2>2, <3>1
  <2>3. ASSUME Holding(u, PolicyRow), NoneOpen, Unfired PROVE NoneOpen' /\ Unfired'
    <3>1. ~Holding(s, PolicyRow)
      BY <2>3 DEF Holding
    <3>2. state \notin Open
      BY <2>3, <3>1 DEF NoneOpen
    <3>3. NoneOpen'
      BY <1>2, <2>3, <3>2 DEF NoneOpen
    <3> QED BY <2>3, <3>1, <3>3 DEF Unfired
  <2> QED BY <2>1, <2>2, <2>3 DEF RowsHeldBy
<1> QED BY <1>11, <1>12

LEMMA EvaluateKeeps ==
  ASSUME ChannelParameters, ChannelDiscipline, NEW s \in Workers, NEW r \in Requests,
         EvaluateFundsPolicy(s, r)
  PROVE  ChannelDiscipline'
<1>1. PICK autoIssue \in BOOLEAN :
        /\ request' = [request EXCEPT ![r] = IF autoIssue THEN "issued" ELSE "pending_confirmation"]
        /\ active' = IF autoIssue THEN active \cup {r} ELSE active
  BY DEF EvaluateFundsPolicy
<1> DEFINE state == IF autoIssue THEN "issued" ELSE "pending_confirmation"
<1>2. /\ request[r] = "none" /\ Commits(s) /\ UNCHANGED <<charge, available, billPaid>>
      /\ asked' = [asked EXCEPT ![r] = doing[s].amount]
      /\ policy' = [policy EXCEPT !.fired = @ \cup {policy.arming}]
  BY DEF EvaluateFundsPolicy
<1>3. Holding(s, PolicyRow) /\ NoneOpen
  BY DEF EvaluateFundsPolicy, ChannelDiscipline, SessionHolds
<1>4. /\ state \in Open /\ (state = "issued" => active' = active \cup {r})
      /\ (state # "issued" => active' = active)
  BY <1>1 DEF Open
<1>5. ReferencesRight' /\ \A u \in Workers \ {s} : RowsHeldBy(u)
  <2>1. request' = [request EXCEPT ![r] = state]
    BY <1>1
  <2> HIDE DEF state
  <2> QED BY <1>2, <1>3, <1>4, <2>1, OneRequestWritten DEF Open
<1>6. /\ request' \in [Requests -> Open \cup {"none", "satisfied", "cancelled"}]
      /\ active' \subseteq Targets
  BY <1>1 DEF ChannelDiscipline, ChannelTypeOK, Open, Targets
<1>7. asked' \in [Requests -> 0..Wanted]
  <2>1. doing[s].amount \in 0..Wanted /\ asked \in [Requests -> 0..Wanted]
    BY DEF ChannelDiscipline, ChannelTypeOK, Doing
  <2> QED BY <1>2, <2>1
<1>8. policy' \in [arming : Nat, fired : SUBSET Nat]
  BY <1>2 DEF ChannelDiscipline, ChannelTypeOK
<1>9. /\ charge' \in [Charges -> Charge] /\ available' \in 0..(2 * Wanted)
      /\ billPaid' \in [Bills -> 0..Expected]
  BY <1>2 DEF ChannelDiscipline, ChannelTypeOK
<1> QED BY <1>2, <1>5, <1>6, <1>7, <1>8, <1>9, WritingStep

LEMMA ConfirmKeeps ==
  ASSUME ChannelParameters, ChannelDiscipline, NEW s \in Workers, ConfirmTopUpRequest(s)
  PROVE  ChannelDiscipline'
<1> DEFINE r == doing[s].on
<1>1. /\ r \in Requests /\ Holding(s, <<"request", r>>) /\ request[r] = "pending_confirmation"
  BY DEF ConfirmTopUpRequest, ChannelDiscipline, SessionHolds
<1>2. /\ request' = [request EXCEPT ![r] = "issued"] /\ active' = active \cup {r}
      /\ Commits(s) /\ UNCHANGED <<asked, charge, available, policy, billPaid>>
  BY DEF ConfirmTopUpRequest
<1> HIDE DEF r
<1>3. ReferencesRight' /\ \A u \in Workers \ {s} : RowsHeldBy(u)
  BY <1>1, <1>2, OneRequestWritten DEF Open
<1>4. /\ request' \in [Requests -> Open \cup {"none", "satisfied", "cancelled"}]
      /\ active' \subseteq Targets
  BY <1>1, <1>2 DEF ChannelDiscipline, ChannelTypeOK, Open, Targets
<1>5. /\ asked' \in [Requests -> 0..Wanted] /\ charge' \in [Charges -> Charge]
      /\ available' \in 0..(2 * Wanted) /\ policy' \in [arming : Nat, fired : SUBSET Nat]
      /\ billPaid' \in [Bills -> 0..Expected]
  BY <1>2 DEF ChannelDiscipline, ChannelTypeOK
<1> QED BY <1>2, <1>3, <1>4, <1>5, WritingStep

LEMMA CancelKeeps ==
  ASSUME ChannelParameters, ChannelDiscipline, NEW s \in Workers, CancelTopUpRequest(s)
  PROVE  ChannelDiscipline'
<1> DEFINE r == doing[s].on
<1>1. /\ r \in Requests /\ Holding(s, <<"request", r>>) /\ request[r] \in Open
  BY DEF CancelTopUpRequest, ChannelDiscipline, SessionHolds
<1>2. /\ request' = [request EXCEPT ![r] = "cancelled"] /\ active' = active \ {r}
      /\ Commits(s) /\ UNCHANGED <<asked, charge, available, policy, billPaid>>
      /\ (r \in active => ReferenceFree(s, r))
  BY DEF CancelTopUpRequest
<1> HIDE DEF r
<1>3. ReferencesRight' /\ \A u \in Workers \ {s} : RowsHeldBy(u)
  BY <1>1, <1>2, OneRequestWritten DEF Open
<1>4. /\ request' \in [Requests -> Open \cup {"none", "satisfied", "cancelled"}]
      /\ active' \subseteq Targets
  BY <1>1, <1>2 DEF ChannelDiscipline, ChannelTypeOK, Open, Targets
<1>5. /\ asked' \in [Requests -> 0..Wanted] /\ charge' \in [Charges -> Charge]
      /\ available' \in 0..(2 * Wanted) /\ policy' \in [arming : Nat, fired : SUBSET Nat]
      /\ billPaid' \in [Bills -> 0..Expected]
  BY <1>2 DEF ChannelDiscipline, ChannelTypeOK
<1> QED BY <1>2, <1>3, <1>4, <1>5, WritingStep

\* A charge that is neither settled before nor after the step counts for nothing.
LEMMA UnsettledChargeWritten ==
  ASSUME ChannelDiscipline, NEW c \in Charges, NEW entry \in Charge,
         charge' = [charge EXCEPT ![c] = entry], charge[c].state # "settled", entry.state # "settled",
         entry.target \in Targets, UNCHANGED <<request, active>>
  PROVE  ReferencesRight'
<1>1. charge'[c] = entry /\ \A d \in Charges \ {c} : charge'[d] = charge[d]
  BY DEF ChannelDiscipline, ChannelTypeOK
<1>2. \A d \in Charges, t \in Targets : PaysFor(d, t)' => PaysFor(d, t)
  BY <1>1 DEF PaysFor
<1>3. \A t \in Targets : Spent(t)' <=> Spent(t)
  BY DEF Spent
<1>4. \A d \in Charges : charge'[d].state # "none" => charge'[d].target \in Targets
  BY <1>1 DEF ChannelDiscipline
<1> QED BY <1>2, <1>3, <1>4 DEF ChannelDiscipline, ReferencesRight, OneRequestOpen

LEMMA StartPaymentKeeps ==
  ASSUME ChannelParameters, ChannelDiscipline, NEW s \in Workers, StartChannelPayment(s)
  PROVE  ChannelDiscipline'
<1> DEFINE j == doing[s]  c == j.charge
           entry == [target |-> j.on, amount |-> j.amount, state |-> "started"]
<1>1. j \in Doing /\ c \in Charges /\ j.on \in Targets
  BY DEF StartChannelPayment, ChannelDiscipline, ChannelTypeOK, SessionHolds
<1>2. entry \in Charge /\ entry.state = "started" /\ entry.target \in Targets
  BY <1>1 DEF Charge, Doing
<1>3. /\ charge' = [charge EXCEPT ![c] = entry] /\ charge[c].state = "none" /\ Commits(s)
      /\ UNCHANGED <<request, asked, active, available, policy, billPaid>>
  BY DEF StartChannelPayment
<1> HIDE DEF j, c, entry
<1>4. ReferencesRight'
  BY <1>1, <1>2, <1>3, UnsettledChargeWritten
<1>5. \A u \in Workers \ {s} : RowsHeldBy(u)
  <2>1. \A d \in Charges : charge'[d] = charge[d] \/ charge[d].state = "none"
    BY <1>1, <1>3 DEF ChannelDiscipline, ChannelTypeOK
  <2>2. (NoneOpen => NoneOpen') /\ (Unfired => Unfired')
    BY <1>3 DEF NoneOpen, Unfired
  <2> QED BY <1>3, <2>1, <2>2 DEF RowsHeldBy
<1>6. charge' \in [Charges -> Charge]
  BY <1>1, <1>2, <1>3 DEF ChannelDiscipline, ChannelTypeOK
<1>7. /\ request' \in [Requests -> Open \cup {"none", "satisfied", "cancelled"}]
      /\ asked' \in [Requests -> 0..Wanted] /\ active' \subseteq Targets
      /\ available' \in 0..(2 * Wanted) /\ policy' \in [arming : Nat, fired : SUBSET Nat]
      /\ billPaid' \in [Bills -> 0..Expected]
  BY <1>3 DEF ChannelDiscipline, ChannelTypeOK
<1> QED BY <1>3, <1>4, <1>5, <1>6, <1>7, WritingStep

LEMMA FailKeeps ==
  ASSUME ChannelParameters, ChannelDiscipline, NEW c \in Charges, FailChannelPayment(c)
  PROVE  ChannelDiscipline'
<1> DEFINE entry == [charge[c] EXCEPT !.state = "failed"]
<1>1. charge[c] \in Charge /\ charge[c].state = "started" /\ charge[c].target \in Targets
  BY DEF FailChannelPayment, ChannelDiscipline, ChannelTypeOK
<1>2. entry \in Charge /\ entry.state = "failed" /\ entry.target \in Targets
  BY <1>1 DEF Charge
<1>3. /\ charge' = [charge EXCEPT ![c] = entry] /\ lock[<<"charge", c>>] = Absent
      /\ UNCHANGED <<request, asked, active, available, policy, billPaid, lock, doing>>
  BY DEF FailChannelPayment
<1> HIDE DEF entry
<1>4. ReferencesRight'
  BY <1>1, <1>2, <1>3, UnsettledChargeWritten
<1>5. \A d \in Charges \ {c} : charge'[d] = charge[d]
  BY <1>3 DEF ChannelDiscipline, ChannelTypeOK
<1>6. ASSUME NEW u \in Workers PROVE RowsHeldBy(u) /\ KeepsItsLocks(u)
  <2>1. ~Holding(u, <<"charge", c>>)
    BY <1>3 DEF Holding, ChannelParameters
  <2>2. (NoneOpen => NoneOpen') /\ (Unfired => Unfired')
    BY <1>3 DEF NoneOpen, Unfired
  <2>3. RowsHeldBy(u)
    BY <1>3, <1>5, <2>1, <2>2 DEF RowsHeldBy
  <2> QED BY <1>3, <2>3 DEF KeepsItsLocks
<1>7. charge' \in [Charges -> Charge]
  BY <1>1, <1>2, <1>3 DEF ChannelDiscipline, ChannelTypeOK
<1>8. ChannelTypeOK'
  BY <1>3, <1>7 DEF ChannelDiscipline, ChannelTypeOK
<1> DEFINE S == {}
<1>9. /\ \A u \in Workers \ S : RowsHeldBy(u) /\ KeepsItsLocks(u)
      /\ \A u \in Workers \cap S : SessionHolds(u)'
  BY <1>6
<1> HIDE DEF S
<1> QED BY <1>4, <1>8, <1>9, ChannelStep

LEMMA FundsMoveKeeps ==
  ASSUME ChannelParameters, ChannelDiscipline, FundsMove
  PROVE  ChannelDiscipline'
<1>1. UNCHANGED <<request, asked, active, charge, policy, billPaid, lock, doing>>
  BY DEF FundsMove
<1>2. available' \in 0..(2 * Wanted)
  BY DEF FundsMove, ChannelParameters
<1>3. ChannelTypeOK'
  BY <1>1, <1>2 DEF ChannelDiscipline, ChannelTypeOK
<1>4. ReferencesRight'
  BY <1>1 DEF ChannelDiscipline, ReferencesRight, PaysFor, Spent, OneRequestOpen
<1>5. (NoneOpen => NoneOpen') /\ (Unfired => Unfired')
  BY <1>1 DEF NoneOpen, Unfired
<1>6. \A u \in Workers : RowsHeldBy(u) /\ KeepsItsLocks(u)
  BY <1>1, <1>5 DEF RowsHeldBy, KeepsItsLocks
<1> DEFINE S == {}
<1>7. /\ \A u \in Workers \ S : RowsHeldBy(u) /\ KeepsItsLocks(u)
      /\ \A u \in Workers \cap S : SessionHolds(u)'
  BY <1>6
<1> HIDE DEF S
<1> QED BY <1>3, <1>4, <1>7, ChannelStep

\* A charge that settles is the first to pay in full for what it is for.
LEMMA FirstToPay ==
  ASSUME ChannelDiscipline, NEW c \in Charges, Settled(c), NEW t \in Targets, charge[c].target = t,
         ~Spent(t), \A x \in Targets \ {t} : Spent(x) => Spent(x)', PaysFor(c, t)' => Spent(t)',
         \A r \in Requests : request'[r] = "issued" => r \in active', OneRequestOpen'
  PROVE  ReferencesRight'
<1>1. charge[c] \in Charge /\ charge \in [Charges -> Charge]
  BY DEF ChannelDiscipline, ChannelTypeOK
<1>2. charge' = [charge EXCEPT ![c] = [charge[c] EXCEPT !.state = "settled"]]
  BY DEF Settled
<1>3. [charge[c] EXCEPT !.state = "settled"].target = t
  BY <1>1 DEF Charge
<1>4. charge'[c].target = t /\ \A d \in Charges \ {c} : charge'[d] = charge[d]
  BY <1>1, <1>2, <1>3
<1>5. \A d \in Charges \ {c}, x \in Targets : PaysFor(d, x)' <=> PaysFor(d, x)
  BY <1>4 DEF PaysFor
<1>6. \A d \in Charges : ~PaysFor(d, t)
  BY DEF ChannelDiscipline
<1>7. \A x \in Targets \ {t} : ~PaysFor(c, x)'
  BY <1>4 DEF PaysFor
<1>8. ASSUME NEW d \in Charges, NEW x \in Targets, PaysFor(d, x)' PROVE Spent(x)'
  <2>1. CASE d = c
    BY <1>7, <1>8, <2>1
  <2>2. CASE d # c
    <3>1. PaysFor(d, x) /\ x # t
      BY <1>5, <1>6, <1>8, <2>2
    <3> QED BY <3>1 DEF ChannelDiscipline
  <2> QED BY <2>1, <2>2
<1>9. ASSUME NEW d \in Charges, NEW e \in Charges, NEW x \in Targets, PaysFor(d, x)', PaysFor(e, x)'
      PROVE  d = e
  <2>1. CASE x = t
    BY <1>5, <1>6, <1>9, <2>1
  <2>2. CASE x # t
    <3>1. d # c /\ e # c
      BY <1>7, <1>9, <2>2
    <3> QED BY <1>5, <1>9, <3>1 DEF ChannelDiscipline
  <2> QED BY <2>1, <2>2
<1>10. \A d \in Charges : charge'[d].state # "none" => charge'[d].target \in Targets
  BY <1>4 DEF ChannelDiscipline
<1> QED BY <1>8, <1>9, <1>10 DEF ReferencesRight

\* What a settling session knows of its charge.
LEMMA Settling ==
  ASSUME ChannelDiscipline, NEW s \in Workers, doing[s].step \in {"reference", "request"}
  PROVE  LET j == doing[s]
         IN  /\ j \in Doing /\ j.charge \in Charges /\ Holding(s, <<"charge", j.charge>>)
             /\ charge[j.charge] \in Charge /\ charge[j.charge].target = j.on
             /\ charge[j.charge].amount = j.amount /\ charge[j.charge].state = "started"
             /\ j.on \in Targets /\ j.on \in active /\ Holding(s, <<"reference", j.on>>)
             /\ (j.step = "request" => j.on \in Requests /\ Holding(s, <<"request", j.on>>))
<1> DEFINE j == doing[s]
<1>1. j \in Doing /\ SessionHolds(s) /\ charge \in [Charges -> Charge]
  BY DEF ChannelDiscipline, ChannelTypeOK
<1>2. /\ j.charge \in Charges /\ Holding(s, <<"charge", j.charge>>)
      /\ charge[j.charge] = [target |-> j.on, amount |-> j.amount, state |-> "started"]
      /\ j.on \in Targets /\ j.on \in active /\ Holding(s, <<"reference", j.on>>)
      /\ (j.step = "request" => j.on \in Requests /\ Holding(s, <<"request", j.on>>))
  BY <1>1 DEF SessionHolds, SettlingSteps
<1> HIDE DEF j
<1>3. /\ charge[j.charge].target = j.on /\ charge[j.charge].amount = j.amount
      /\ charge[j.charge].state = "started" /\ charge[j.charge] \in Charge
  BY <1>1, <1>2
<1> QED BY <1>1, <1>2, <1>3 DEF j

LEMMA SettledTyped ==
  ASSUME ChannelDiscipline, NEW c \in Charges, Settled(c)
  PROVE  charge' \in [Charges -> Charge] /\ \A d \in Charges \ {c} : charge'[d] = charge[d]
<1>1. charge[c] \in Charge /\ charge \in [Charges -> Charge]
  BY DEF ChannelDiscipline, ChannelTypeOK
<1>2. [charge[c] EXCEPT !.state = "settled"] \in Charge
  BY <1>1 DEF Charge
<1>3. charge' = [charge EXCEPT ![c] = [charge[c] EXCEPT !.state = "settled"]]
  BY DEF Settled
<1> QED BY <1>1, <1>2, <1>3

LEMMA SettleBillKeeps ==
  ASSUME ChannelParameters, ChannelDiscipline, NEW s \in Workers, SettleBill(s)
  PROVE  ChannelDiscipline'
<1> DEFINE j == doing[s]  left == Expected - billPaid[j.on]
<1>1. j.step = "reference" /\ j.on \in Bills
  BY DEF SettleBill
<1>2. /\ j \in Doing /\ j.charge \in Charges /\ Holding(s, <<"charge", j.charge>>)
      /\ charge[j.charge] \in Charge /\ charge[j.charge].target = j.on
      /\ charge[j.charge].amount = j.amount /\ charge[j.charge].state = "started"
      /\ j.on \in Targets /\ j.on \in active /\ Holding(s, <<"reference", j.on>>)
  BY <1>1, Settling
<1>3. /\ billPaid' = [billPaid EXCEPT ![j.on] = @ + Min({j.amount, left})]
      /\ active' = IF j.amount >= Expected THEN active \ {j.on} ELSE active
      /\ Settled(j.charge) /\ Commits(s) /\ UNCHANGED <<request, asked, available, policy>>
  BY DEF SettleBill
<1>4. billPaid' \in [Bills -> 0..Expected]
  <2>1. j.amount \in 0..Wanted /\ billPaid \in [Bills -> 0..Expected]
    BY <1>2 DEF Doing, ChannelDiscipline, ChannelTypeOK
  <2>2. left \in 0..Expected /\ j.amount \in Nat
    BY <1>1, <2>1 DEF ChannelParameters
  <2> DEFINE two == {j.amount, left}
  <2>3. \E x \in two : \A y \in two : x <= y
    BY <2>2, ChannelParameters DEF ChannelParameters
  <2>4. Min(two) \in two /\ \A y \in two : Min(two) <= y
    BY <2>3 DEF Min
  <2>5. Min(two) \in 0..left
    BY <2>2, <2>4, ChannelParameters DEF ChannelParameters
  <2> HIDE DEF two
  <2>6. billPaid[j.on] + Min(two) \in 0..Expected
    BY <1>1, <2>1, <2>2, <2>5, ChannelParameters DEF ChannelParameters
  <2>7. billPaid' = [billPaid EXCEPT ![j.on] = billPaid[j.on] + Min(two)]
    BY <1>3 DEF two
  <2> QED BY <1>1, <2>1, <2>6, <2>7
<1> HIDE DEF j, left
<1>5. j.on \notin Requests
  BY <1>1 DEF ChannelParameters
<1>6. \A r \in Requests : r \in active' <=> r \in active
  BY <1>3, <1>5
<1>7. ReferencesRight'
  <2>1. PICK t \in Bills, c \in Charges, n \in 0..Wanted : t = j.on /\ c = j.charge /\ n = j.amount
    BY <1>1, <1>2 DEF Doing
  <2>2. t \in Targets \ Requests /\ t \in active /\ charge[c] \in Charge /\ charge[c].target = t
         /\ charge[c].amount = n
    BY <1>2, <1>5, <2>1
  <2>3. active' = (IF n >= Expected THEN active \ {t} ELSE active) /\ Settled(c)
    BY <1>3, <2>1
  <2>4. ~Spent(t) /\ \A x \in Targets \ {t} : Spent(x) => Spent(x)'
    BY <1>3, <2>2, <2>3 DEF Spent
  <2>5. PaysFor(c, t)' => Spent(t)'
    <3>1. charge' = [charge EXCEPT ![c] = [charge[c] EXCEPT !.state = "settled"]]
      BY <2>3 DEF Settled
    <3>2. [charge[c] EXCEPT !.state = "settled"].amount = n
      BY <2>2 DEF Charge
    <3>3. charge'[c].amount = n
      BY <2>2, <3>1, <3>2 DEF ChannelDiscipline, ChannelTypeOK
    <3> QED BY <2>2, <2>3, <3>3 DEF PaysFor, Spent
  <2>6. \A r \in Requests : request'[r] = "issued" => r \in active'
    BY <1>3, <1>6 DEF ChannelDiscipline
  <2>7. OneRequestOpen'
    BY <1>3 DEF ChannelDiscipline, OneRequestOpen
  <2> QED BY <2>2, <2>3, <2>4, <2>5, <2>6, <2>7, FirstToPay
<1>8. \A u \in Workers \ {s} : RowsHeldBy(u)
  <2>1. \A d \in Charges \ {j.charge} : charge'[d] = charge[d]
    BY <1>2, <1>3, SettledTyped
  <2>2. (NoneOpen => NoneOpen') /\ (Unfired => Unfired')
    BY <1>3 DEF NoneOpen, Unfired
  <2>3. \A t \in Targets \ {j.on} : t \in active => t \in active'
    BY <1>3
  <2> QED BY <1>2, <1>3, <2>1, <2>2, <2>3 DEF RowsHeldBy, Holding
<1>9. /\ request' \in [Requests -> Open \cup {"none", "satisfied", "cancelled"}]
      /\ asked' \in [Requests -> 0..Wanted] /\ active' \subseteq Targets
      /\ available' \in 0..(2 * Wanted) /\ policy' \in [arming : Nat, fired : SUBSET Nat]
  BY <1>3 DEF ChannelDiscipline, ChannelTypeOK
<1> QED BY <1>2, <1>3, <1>4, <1>7, <1>8, <1>9, SettledTyped, WritingStep

LEMMA SatisfyKeeps ==
  ASSUME ChannelParameters, ChannelDiscipline, NEW s \in Workers, SatisfyTopUp(s)
  PROVE  ChannelDiscipline'
<1> DEFINE j == doing[s]  r == j.on  recovered == available + j.amount >= Minimum
<1>1. j.step = "request" /\ request[r] = "issued"
  BY DEF SatisfyTopUp
<1>2. /\ j \in Doing /\ j.charge \in Charges /\ Holding(s, <<"charge", j.charge>>)
      /\ charge[j.charge] \in Charge /\ charge[j.charge].target = r
      /\ r \in Targets /\ r \in active /\ Holding(s, <<"reference", r>>)
      /\ r \in Requests /\ Holding(s, <<"request", r>>)
  BY <1>1, Settling
<1>3. /\ request' = [request EXCEPT ![r] = "satisfied"] /\ active' = active \ {r}
      /\ available' = available + j.amount /\ available + j.amount <= 2 * Wanted
      /\ (recovered => Unlocked(s, PolicyRow))
      /\ policy' = IF recovered THEN [policy EXCEPT !.arming = @ + 1] ELSE policy
      /\ Settled(j.charge) /\ Commits(s) /\ UNCHANGED <<asked, billPaid>>
  BY DEF SatisfyTopUp
<1>4. available' \in 0..(2 * Wanted)
  BY <1>2, <1>3 DEF Doing, ChannelDiscipline, ChannelTypeOK, ChannelParameters
<1> HIDE DEF recovered, j
<1>5. /\ request'[r] = "satisfied" /\ \A q \in Requests \ {r} : request'[q] = request[q]
      /\ request' \in [Requests -> Open \cup {"none", "satisfied", "cancelled"}]
  BY <1>2, <1>3 DEF ChannelDiscipline, ChannelTypeOK
<1>6. ReferencesRight'
  <2>1. PICK t \in Requests, c \in Charges : t = r /\ c = j.charge
    BY <1>2
  <2>2. t \in Targets /\ charge[c].target = t /\ Settled(c)
    BY <1>2, <1>3, <2>1
  <2>3. ~Spent(t) /\ Spent(t)'
    BY <1>1, <1>5, <2>1 DEF Spent
  <2>4. \A x \in Targets \ {t} : Spent(x) => Spent(x)'
    BY <1>3, <1>5, <2>1 DEF Spent
  <2>5. \A q \in Requests : request'[q] = "issued" => q \in active'
    BY <1>3, <1>5 DEF ChannelDiscipline
  <2>6. OneRequestOpen'
    BY <1>5 DEF ChannelDiscipline, OneRequestOpen, Open
  <2> QED BY <2>2, <2>3, <2>4, <2>5, <2>6, FirstToPay
<1>7. ASSUME NEW u \in Workers \ {s} PROVE RowsHeldBy(u)
  <2>1. \A d \in Charges \ {j.charge} : charge'[d] = charge[d]
    BY <1>2, <1>3, SettledTyped
  <2>2. ASSUME Holding(u, PolicyRow), NoneOpen PROVE FALSE
    BY <1>1, <1>2, <2>2 DEF NoneOpen, Open
  <2>3. \A t \in Targets \ {r} : t \in active => t \in active'
    BY <1>3
  <2> QED BY <1>2, <1>5, <2>1, <2>2, <2>3 DEF RowsHeldBy, Holding
<1>8. policy' \in [arming : Nat, fired : SUBSET Nat]
  BY <1>3 DEF ChannelDiscipline, ChannelTypeOK
<1>9. /\ asked' \in [Requests -> 0..Wanted] /\ active' \subseteq Targets
      /\ billPaid' \in [Bills -> 0..Expected]
  BY <1>3 DEF ChannelDiscipline, ChannelTypeOK
<1> QED BY <1>2, <1>3, <1>4, <1>5, <1>6, <1>7, <1>8, <1>9, SettledTyped, WritingStep

LEMMA ChannelInductive ==
  ASSUME ChannelParameters
  PROVE  ChannelDiscipline /\ [ChannelNext]_channelVars => ChannelDiscipline'
<1> SUFFICES ASSUME ChannelDiscipline, [ChannelNext]_channelVars PROVE ChannelDiscipline'
  OBVIOUS
<1>1. ASSUME NEW s \in Workers,
             StartEvaluate(s) \/ ConfirmTopUpRequest(s) \/ CancelTopUpRequest(s) \/ Abort(s)
      PROVE  ChannelDiscipline'
  BY <1>1, StartEvaluateKeeps, ConfirmKeeps, CancelKeeps, AbortKeepsChannel
<1>2. ASSUME NEW s \in Workers, NEW r \in Requests,
             EvaluateFundsPolicy(s, r) \/ StartConfirm(s, r) \/ StartCancel(s, r)
      PROVE  ChannelDiscipline'
  BY <1>2, EvaluateKeeps, TakeRequestKeeps
<1>3. ASSUME NEW s \in Workers, NEW c \in Charges, NEW t \in Targets, NEW n \in Amounts,
             StartReport(s, c, t, n)
      PROVE  ChannelDiscipline'
  BY <1>3, StartReportKeeps
<1>4. ASSUME NEW s \in Workers, NEW c \in Charges, StartSettle(s, c) PROVE ChannelDiscipline'
  BY <1>4, StartSettleKeeps
<1>5. ASSUME NEW s \in Workers, StartChannelPayment(s) \/ LockReference(s) \/ LockRequest(s)
      PROVE  ChannelDiscipline'
  BY <1>5, StartPaymentKeeps, LockReferenceKeeps, LockRequestKeeps
<1>6. ASSUME NEW s \in Workers, SettleBill(s) \/ SatisfyTopUp(s) PROVE ChannelDiscipline'
  BY <1>6, SettleBillKeeps, SatisfyKeeps
<1>7. ASSUME NEW c \in Charges, FailChannelPayment(c) PROVE ChannelDiscipline'
  BY <1>7, FailKeeps
<1>8. CASE FundsMove
  BY <1>8, FundsMoveKeeps
<1>9. CASE UNCHANGED channelVars
  <2>1. UNCHANGED rows /\ UNCHANGED <<lock, doing>>
    BY <1>9 DEF channelVars
  <2>2. ChannelTypeOK'
    BY <2>1, RowTypesStand DEF ChannelDiscipline, ChannelTypeOK
  <2>3. ReferencesRight' /\ \A u \in Workers : RowsHeldBy(u) /\ KeepsItsLocks(u)
    BY <2>1, RowsStand DEF KeepsItsLocks
  <2> DEFINE S == {}
  <2>4. /\ \A u \in Workers \ S : RowsHeldBy(u) /\ KeepsItsLocks(u)
        /\ \A u \in Workers \cap S : SessionHolds(u)'
    BY <2>3
  <2> HIDE DEF S
  <2> QED BY <2>2, <2>3, <2>4, ChannelStep
<1> QED BY <1>1, <1>2, <1>3, <1>4, <1>5, <1>6, <1>7, <1>8, <1>9 DEF ChannelNext

LEMMA ChannelStarts ==
  ASSUME ChannelParameters
  PROVE  ChannelInit => ChannelDiscipline
<1> SUFFICES ASSUME ChannelInit PROVE ChannelDiscipline
  OBVIOUS
<1>1. Unused \in Charge /\ Unused.state = "none"
  BY DEF Unused, Charge, ChannelParameters
<1>2. NoJob \in Doing /\ NoJob.step = "idle"
  BY NoJobTyped
<1>3. ChannelTypeOK
  BY <1>1, <1>2 DEF ChannelInit, ChannelTypeOK, ChannelParameters, Targets, Open
<1>4. \A s \in Workers : SessionHolds(s)
  BY <1>2 DEF ChannelInit, SessionHolds, SettlingSteps
<1>5. \A c \in Charges : charge[c].state = "none"
  BY <1>1 DEF ChannelInit
<1>6. \A r \in Requests : request[r] = "none"
  BY DEF ChannelInit
<1> QED BY <1>3, <1>4, <1>5, <1>6 DEF ChannelDiscipline, PaysFor, OneRequestOpen, Open

\* For any requests, bills, charges and sessions: who writes holds what it read, references
\* end with what they asked for, and the policy has one request open, however reports, staff
\* and the policy's evaluation interleave (channel.ts, topups.ts).
THEOREM ChannelStaysInStep ==
  ASSUME ChannelParameters
  PROVE  ChannelSpec => []ChannelDiscipline
<1>1. ChannelInit => ChannelDiscipline
  BY ChannelStarts
<1>2. ChannelDiscipline /\ [ChannelNext]_channelVars => ChannelDiscipline'
  BY ChannelInductive
<1> QED BY <1>1, <1>2, PTL DEF ChannelSpec

\* What a reference asks for is settled once (channel.ts:296-305).
THEOREM ReferencesSettleOnce ==
  ASSUME ChannelParameters
  PROVE  ChannelSpec => []SettledOnce
<1>1. ASSUME ChannelDiscipline, NEW t \in Targets PROVE Cardinality({c \in Charges : PaysFor(c, t)}) <= 1
  <2> DEFINE full == {c \in Charges : PaysFor(c, t)}
  <2>1. \A c, d \in full : c = d
    BY <1>1 DEF ChannelDiscipline
  <2>2. Cardinality(full) <= 1
    <3> HIDE DEF full
    <3> QED BY <2>1, AtMostOne
  <2> QED BY <2>2
<1>2. ChannelDiscipline => SettledOnce
  BY <1>1 DEF SettledOnce
<1> QED BY <1>2, ChannelStaysInStep, PTL

-----------------------------------------------------------------------------
(* Unallocated money: one payment and one bill at a time. *)

\* What one payment keeps.
OnePlaceFor(p) ==
  /\ p \notin touched \/ p \in mirrored => \A b \in OpenBills : taken[p][b] = 0
  /\ receipted[p] > 0 => receipted[p] = 1 /\ p \in mirrored

\* What is left of a payment, and of a bill, is a number.
LEMMA WhatIsLeft ==
  ASSUME UnallocatedParameters, taken \in [OfficePayments -> [OpenBills -> Nat]]
  PROVE  /\ \A p \in OfficePayments :
              SumFunctionOnSet(taken[p], OpenBills) \in Int /\ Remainder(p) \in Int
         /\ \A b \in OpenBills :
              SumFunctionOnSet([p \in OfficePayments |-> taken[p][b]], OfficePayments) \in Int /\ Outstanding(b) \in Int
<1>1. ASSUME NEW p \in OfficePayments
      PROVE  SumFunctionOnSet(taken[p], OpenBills) \in Int /\ Remainder(p) \in Int
  <2>1. \A b \in OpenBills : taken[p][b] \in Int
    OBVIOUS
  <2>2. SumFunctionOnSet(taken[p], OpenBills) \in Int
    BY <2>1, SumType DEF UnallocatedParameters
  <2> QED BY <2>2 DEF Remainder, UnallocatedParameters
<1>2. ASSUME NEW b \in OpenBills
      PROVE  SumFunctionOnSet([p \in OfficePayments |-> taken[p][b]], OfficePayments) \in Int /\ Outstanding(b) \in Int
  <2> DEFINE f == [p \in OfficePayments |-> taken[p][b]]
  <2>1. \A p \in OfficePayments : f[p] \in Int
    OBVIOUS
  <2>2. SumFunctionOnSet(f, OfficePayments) \in Int
    <3> HIDE DEF f
    <3> QED BY <2>1, SumType DEF UnallocatedParameters
  <2> QED BY <2>2 DEF Outstanding, UnallocatedParameters
<1> QED BY <1>1, <1>2

\* A statement's splits are amounts (statements.ts).
LEMMA SplitsAreAmounts ==
  ASSUME UnallocatedParameters, taken \in [OfficePayments -> [OpenBills -> Nat]], NEW order, NEW n \in Int
  PROVE  SplitOver(order, n) \in [OpenBills -> Nat]
<1> DEFINE owing == [b \in OpenBills |-> IF b \in disputed THEN 0 ELSE Outstanding(b)]
           before(b) == SumFunctionOnSet(owing, {c \in OpenBills : order[c] < order[b]})
<1>1. \A b \in OpenBills : owing[b] \in Int
  <2>1. \A b \in OpenBills : Outstanding(b) \in Int
    <3> HIDE DEF owing
    <3> QED BY WhatIsLeft, Zenon
  <2> QED BY <2>1
<1>2. ASSUME NEW b \in OpenBills PROVE Max({0, Min({owing[b], n - before(b)})}) \in Nat
  <2> DEFINE earlier == {c \in OpenBills : order[c] < order[b]}
             sum == SumFunctionOnSet(owing, earlier)
  <2>1. IsFiniteSet(earlier) /\ earlier \subseteq OpenBills
    BY FS_Subset DEF UnallocatedParameters
  <2>2. sum \in Int
    <3>1. \A c \in earlier : owing[c] \in Int
      BY <1>1
    <3> HIDE DEF owing, earlier
    <3> QED BY <2>1, <3>1, SumType
  <2> DEFINE two == {owing[b], n - sum}  least == Min(two)
  <2>3. \E x \in two : \A y \in two : x <= y
    <3> HIDE DEF sum, owing
    <3> QED BY <1>1, <2>2
  <2>4. least \in Int
    <3>1. \A x \in two : x \in Int
      <4> HIDE DEF sum, owing
      <4> QED BY <1>1, <2>2
    <3>2. Min(two) \in two
      <4> HIDE DEF two
      <4> QED BY <2>3 DEF Min
    <3> QED BY <3>1, <3>2
  <2> DEFINE pair == {0, least}
  <2>5. \E x \in pair : \A y \in pair : x >= y
    <3> HIDE DEF least
    <3> QED BY <2>4
  <2>6. Max(pair) \in pair /\ \A y \in pair : Max(pair) >= y
    <3> HIDE DEF pair
    <3> QED BY <2>5 DEF Max
  <2>7. Max(pair) \in Nat
    <3> HIDE DEF least
    <3>1. \A x \in pair : x \in Int
      BY <2>4
    <3>2. 0 \in pair
      OBVIOUS
    <3> HIDE DEF pair
    <3> QED BY <2>6, <3>1, <3>2
  <2> QED BY <2>7
<1> HIDE DEF owing
<1> QED BY <1>2 DEF SplitOver, owing

\* The rows of a step that touches no money.
LEMMA DeskStep ==
  ASSUME UnallocatedParameters, UnallocatedDiscipline, UNCHANGED moneyRows,
         held' \in [OfficePayments \cup OpenBills -> Workers \cup {NoOne}], desk' \in [Workers -> Desk]
  PROVE  UnallocatedDiscipline'
<1>1. UNCHANGED <<taken, touched, mirrored, receipted, open, disputed>>
  BY DEF moneyRows
<1>2. UnallocatedTypeOK'
  BY <1>1 DEF UnallocatedDiscipline, UnallocatedTypeOK
<1>3. \A p \in OfficePayments : Remainder(p)' = Remainder(p)
  BY <1>1 DEF Remainder
<1>4. \A b \in OpenBills : Outstanding(b)' = Outstanding(b)
  BY <1>1 DEF Outstanding
<1> QED BY <1>1, <1>2, <1>3, <1>4 DEF UnallocatedDiscipline

\* Taking and letting go leave every lock with a session or nobody.
LEMMA HeldTyped ==
  ASSUME UnallocatedDiscipline, NEW s \in Workers, (\E xs : Locks(s, xs)) \/ LetsGo(s) \/ UNCHANGED held
  PROVE  held' \in [OfficePayments \cup OpenBills -> Workers \cup {NoOne}]
BY DEF UnallocatedDiscipline, UnallocatedTypeOK, Locks, LetsGo

LEMMA AtRestTyped == AtRest \in Desk
BY DEF AtRest, Desk

\* A session's turn.
LEMMA DeskTyped ==
  ASSUME UnallocatedDiscipline, NEW s \in Workers, NEW j \in Desk, Turns(s, j)
  PROVE  desk' \in [Workers -> Desk]
BY DEF UnallocatedDiscipline, UnallocatedTypeOK, Turns

LEMMA StatementKeeps ==
  ASSUME UnallocatedParameters, UnallocatedDiscipline, NEW s \in Workers, NEW p \in OfficePayments,
         NEW order, StartStatement(s, p, order)
  PROVE  UnallocatedDiscipline'
<1> DEFINE splits == SplitOver(order, Remainder(p))
<1>1. splits \in [OpenBills -> Nat]
  <2>1. taken \in [OfficePayments -> [OpenBills -> Nat]]
    BY DEF UnallocatedDiscipline, UnallocatedTypeOK
  <2>2. Remainder(p) \in Int
    BY <2>1, WhatIsLeft
  <2> QED BY <2>1, <2>2, SplitsAreAmounts
<1> DEFINE j == [AtRest EXCEPT !.step = "statement", !.payment = {p}, !.splits = splits]
<1>2. Turns(s, j) /\ UNCHANGED <<moneyRows, held>>
  BY DEF StartStatement
<1>3. j \in Desk
  <2> HIDE DEF splits
  <2> QED BY <1>1, AtRestTyped DEF Desk
<1>4. UNCHANGED moneyRows /\ UNCHANGED held
  BY <1>2
<1> HIDE DEF j
<1>5. desk' \in [Workers -> Desk]
  BY <1>2, <1>3, DeskTyped
<1>6. held' \in [OfficePayments \cup OpenBills -> Workers \cup {NoOne}]
  BY <1>4, HeldTyped
<1> QED BY <1>4, <1>5, <1>6, DeskStep

LEMMA LockPaymentKeeps ==
  ASSUME UnallocatedParameters, UnallocatedDiscipline, NEW s \in Workers, NEW p \in OfficePayments,
         LockPayment(s, "statement", "allocate", p) \/ LockPayment(s, "home", "route", p)
  PROVE  UnallocatedDiscipline'
<1>1. PICK to \in {"allocate", "route"} :
        Locks(s, {p}) /\ Turns(s, [desk[s] EXCEPT !.step = to]) /\ UNCHANGED moneyRows
  BY DEF LockPayment
<1> DEFINE j == [desk[s] EXCEPT !.step = to]
<1>2. j \in Desk
  <2>1. desk[s] \in Desk
    BY DEF UnallocatedDiscipline, UnallocatedTypeOK
  <2> QED BY <1>1, <2>1 DEF Desk
<1>3. Turns(s, j)
  BY <1>1
<1> HIDE DEF j
<1>4. desk' \in [Workers -> Desk]
  BY <1>2, <1>3, DeskTyped
<1>5. held' \in [OfficePayments \cup OpenBills -> Workers \cup {NoOne}]
  BY <1>1, HeldTyped
<1> QED BY <1>1, <1>4, <1>5, DeskStep

\* Starting the job's list, ending it, and giving up.
LEMMA JobStepKeeps ==
  ASSUME UnallocatedParameters, UnallocatedDiscipline, NEW s \in Workers,
         RouteUnallocatedRemainders(s) \/ RunEnds(s) \/ Refused(s)
  PROVE  UnallocatedDiscipline'
<1> DEFINE list == [AtRest EXCEPT !.step = "list", !.todo = {p \in OfficePayments : Fresh(p)}]
<1>1. list \in Desk /\ AtRest \in Desk
  BY AtRestTyped DEF Desk
<1>2. /\ UNCHANGED moneyRows
      /\ Turns(s, list) \/ Turns(s, AtRest)
      /\ LetsGo(s) \/ UNCHANGED held
  BY DEF RouteUnallocatedRemainders, RunEnds, Refused
<1> HIDE DEF list
<1>3. desk' \in [Workers -> Desk]
  BY <1>1, <1>2, DeskTyped
<1>4. held' \in [OfficePayments \cup OpenBills -> Workers \cup {NoOne}]
  BY <1>2, HeldTyped
<1> QED BY <1>2, <1>3, <1>4, DeskStep

LEMMA ResolveHomeKeeps ==
  ASSUME UnallocatedParameters, UnallocatedDiscipline, NEW s \in Workers, NEW p \in OfficePayments,
         ResolveHome(s, p)
  PROVE  UnallocatedDiscipline'
<1> DEFINE home == [desk[s] EXCEPT !.step = "home", !.payment = {p}, !.todo = @ \ {p}]
           skipped == [desk[s] EXCEPT !.todo = @ \ {p}]
<1>1. home \in Desk /\ skipped \in Desk
  <2>1. desk[s] \in Desk
    BY DEF UnallocatedDiscipline, UnallocatedTypeOK
  <2> QED BY <2>1 DEF Desk
<1>2. Turns(s, IF open THEN home ELSE skipped) /\ UNCHANGED moneyRows /\ UNCHANGED held
  BY DEF ResolveHome
<1>3. (IF open THEN home ELSE skipped) \in Desk
  BY <1>1
<1> DEFINE j == IF open THEN home ELSE skipped
<1>4. Turns(s, j) /\ j \in Desk
  BY <1>2, <1>3
<1> HIDE DEF j
<1>5. desk' \in [Workers -> Desk]
  BY <1>4, DeskTyped
<1>6. held' \in [OfficePayments \cup OpenBills -> Workers \cup {NoOne}]
  BY <1>2, HeldTyped
<1> QED BY <1>2, <1>5, <1>6, DeskStep

\* The discipline, payment by payment and bill by bill.
LEMMA MoneyStep ==
  ASSUME UnallocatedTypeOK', \A p \in OfficePayments : OnePlaceFor(p)' /\ Remainder(p)' >= 0,
         \A b \in OpenBills : Outstanding(b)' >= 0
  PROVE  UnallocatedDiscipline'
BY DEF UnallocatedDiscipline, OnePlaceFor

\* An allocation puts on the bills what the payment has left and the bills still owe.
LEMMA AllocationKeeps ==
  ASSUME UnallocatedParameters, UnallocatedDiscipline, NEW s \in Workers, NEW p \in OfficePayments,
         AllocateInTx(s, p)
  PROVE  UnallocatedDiscipline'
<1> DEFINE splits == desk[s].splits
           put == [b \in OpenBills |-> taken[p][b] + splits[b]]
<1>1. splits \in [OpenBills -> Nat] /\ taken \in [OfficePayments -> [OpenBills -> Nat]]
  BY DEF UnallocatedDiscipline, UnallocatedTypeOK, Desk
<1>2. /\ p \notin mirrored /\ SumFunctionOnSet(splits, OpenBills) <= Remainder(p)
      /\ \A b \in OpenBills : splits[b] > 0 => splits[b] <= Outstanding(b)
      /\ taken' = [taken EXCEPT ![p] = put] /\ touched' = touched \cup {p}
      /\ Turns(s, AtRest) /\ LetsGo(s) /\ UNCHANGED <<mirrored, receipted, open, disputed>>
  BY DEF AllocateInTx
<1> HIDE DEF splits
<1>3. put \in [OpenBills -> Nat]
  BY <1>1
<1>4. /\ taken' \in [OfficePayments -> [OpenBills -> Nat]] /\ taken'[p] = put
      /\ \A q \in OfficePayments \ {p} : taken'[q] = taken[q]
  <2> HIDE DEF put
  <2> QED BY <1>1, <1>2, <1>3
<1>5. Remainder(p)' >= 0
  <2>1. SumFunctionOnSet(put, OpenBills)
          = SumFunctionOnSet(taken[p], OpenBills) + SumFunctionOnSet(splits, OpenBills)
    <3>1. \A b \in OpenBills : taken[p][b] \in Int /\ splits[b] \in Int /\ put[b] = taken[p][b] + splits[b]
      BY <1>1
    <3> HIDE DEF put
    <3> QED BY <3>1, SumAdds DEF UnallocatedParameters
  <2>2. SumFunctionOnSet(splits, OpenBills) \in Int
    <3>1. \A b \in OpenBills : splits[b] \in Int
      BY <1>1
    <3> QED BY <3>1, SumType DEF UnallocatedParameters
  <2>3. SumFunctionOnSet(taken[p], OpenBills) \in Int
    BY <1>1, WhatIsLeft
  <2> HIDE DEF put
  <2>4. Remainder(p)' = PaymentWorth - SumFunctionOnSet(put, OpenBills)
    BY <1>4 DEF Remainder
  <2>5. SumFunctionOnSet(splits, OpenBills) <= PaymentWorth - SumFunctionOnSet(taken[p], OpenBills)
    BY <1>2 DEF Remainder
  <2> QED BY <2>1, <2>2, <2>3, <2>4, <2>5 DEF UnallocatedParameters
<1>6. \A q \in OfficePayments \ {p} : Remainder(q)' >= 0
  BY <1>4 DEF Remainder, UnallocatedDiscipline
<1>7. ASSUME NEW b \in OpenBills PROVE Outstanding(b)' >= 0
  <2> DEFINE f == [q \in OfficePayments |-> taken[q][b]]
             g == [q \in OfficePayments |-> taken'[q][b]]
  <2>1. /\ \A q \in OfficePayments : f[q] \in Int
        /\ g[p] \in Int /\ g[p] = f[p] + splits[b]
        /\ \A q \in OfficePayments \ {p} : g[q] = f[q]
    BY <1>1, <1>4
  <2>2. Outstanding(b) = Total - SumFunctionOnSet(f, OfficePayments)
    BY DEF Outstanding
  <2>3. Outstanding(b)' = Total - SumFunctionOnSet(g, OfficePayments)
    BY DEF Outstanding
  <2>4. SumFunctionOnSet(f, OfficePayments) \in Int
    BY <1>1, WhatIsLeft
  <2> HIDE DEF f, g
  <2>5. SumFunctionOnSet(g, OfficePayments) = SumFunctionOnSet(f, OfficePayments) - f[p] + g[p]
    BY <2>1, SumReplaces DEF UnallocatedParameters
  <2>6. f[p] \in Int /\ splits[b] \in Nat
    BY <1>1, <2>1
  <2>7. Outstanding(b)' = Outstanding(b) - splits[b]
    BY <2>1, <2>2, <2>3, <2>4, <2>5, <2>6 DEF UnallocatedParameters
  <2>8. Outstanding(b) >= 0 /\ Outstanding(b) \in Int
    BY <1>1, WhatIsLeft DEF UnallocatedDiscipline
  <2>9. splits[b] > 0 => splits[b] <= Outstanding(b)
    BY <1>2
  <2> QED BY <2>6, <2>7, <2>8, <2>9
<1> HIDE DEF put
<1>8. \A q \in OfficePayments : OnePlaceFor(q)'
  BY <1>2, <1>4 DEF UnallocatedDiscipline, OnePlaceFor
<1>9. UnallocatedTypeOK'
  <2>1. desk' \in [Workers -> Desk]
    BY <1>2, AtRestTyped, DeskTyped
  <2>2. held' \in [OfficePayments \cup OpenBills -> Workers \cup {NoOne}]
    BY <1>2, HeldTyped
  <2> QED BY <1>2, <1>4, <2>1, <2>2 DEF UnallocatedDiscipline, UnallocatedTypeOK
<1> QED BY <1>5, <1>6, <1>7, <1>8, <1>9, MoneyStep

\* A correction takes a payment off its bills.
LEMMA CorrectKeeps ==
  ASSUME UnallocatedParameters, UnallocatedDiscipline, NEW p \in OfficePayments, CorrectPayment(p)
  PROVE  UnallocatedDiscipline'
<1> DEFINE none == [b \in OpenBills |-> 0]
<1>1. taken \in [OfficePayments -> [OpenBills -> Nat]]
  BY DEF UnallocatedDiscipline, UnallocatedTypeOK
<1>2. /\ taken' = [taken EXCEPT ![p] = none] /\ mirrored' = mirrored \cup {p}
      /\ UNCHANGED <<touched, receipted, open, disputed, held, desk>>
  BY DEF CorrectPayment
<1>3. none \in [OpenBills -> Nat]
  OBVIOUS
<1>4. /\ taken' \in [OfficePayments -> [OpenBills -> Nat]] /\ taken'[p] = none
      /\ \A q \in OfficePayments \ {p} : taken'[q] = taken[q]
  <2> HIDE DEF none
  <2> QED BY <1>1, <1>2, <1>3
<1>5. Remainder(p)' >= 0
  <2>1. SumFunctionOnSet(none, OpenBills) = 0
    <3>1. \A b \in OpenBills : none[b] = 0
      OBVIOUS
    <3> HIDE DEF none
    <3> QED BY <3>1, SumOfZeros DEF UnallocatedParameters
  <2> HIDE DEF none
  <2>2. Remainder(p)' = PaymentWorth - SumFunctionOnSet(none, OpenBills)
    BY <1>4 DEF Remainder
  <2> QED BY <2>1, <2>2 DEF UnallocatedParameters
<1>6. \A q \in OfficePayments \ {p} : Remainder(q)' >= 0
  BY <1>4 DEF Remainder, UnallocatedDiscipline
<1>7. ASSUME NEW b \in OpenBills PROVE Outstanding(b)' >= 0
  <2> DEFINE f == [q \in OfficePayments |-> taken[q][b]]
             g == [q \in OfficePayments |-> taken'[q][b]]
  <2>1. /\ \A q \in OfficePayments : f[q] \in Nat
        /\ g[p] = 0 /\ \A q \in OfficePayments \ {p} : g[q] = f[q]
    BY <1>1, <1>4
  <2>2. Outstanding(b) = Total - SumFunctionOnSet(f, OfficePayments)
    BY DEF Outstanding
  <2>3. Outstanding(b)' = Total - SumFunctionOnSet(g, OfficePayments)
    BY DEF Outstanding
  <2>4. SumFunctionOnSet(f, OfficePayments) \in Int
    BY <1>1, WhatIsLeft
  <2> HIDE DEF f, g
  <2>5. SumFunctionOnSet(g, OfficePayments) = SumFunctionOnSet(f, OfficePayments) - f[p] + g[p]
    BY <2>1, SumReplaces DEF UnallocatedParameters
  <2>6. Outstanding(b)' = Outstanding(b) + f[p] /\ f[p] \in Nat
    BY <2>1, <2>2, <2>3, <2>4, <2>5 DEF UnallocatedParameters
  <2>7. Outstanding(b) >= 0 /\ Outstanding(b) \in Int
    BY <1>1, WhatIsLeft DEF UnallocatedDiscipline
  <2> QED BY <2>6, <2>7
<1>8. \A q \in OfficePayments : OnePlaceFor(q)'
  BY <1>2, <1>4 DEF UnallocatedDiscipline, OnePlaceFor
<1> HIDE DEF none
<1>9. UnallocatedTypeOK'
  BY <1>2, <1>4 DEF UnallocatedDiscipline, UnallocatedTypeOK
<1> QED BY <1>5, <1>6, <1>7, <1>8, <1>9, MoneyStep

\* The job receipts only a payment no bill has had.
LEMMA RouteKeeps ==
  ASSUME UnallocatedParameters, UnallocatedDiscipline, NEW s \in Workers, NEW p \in OfficePayments,
         RouteOneInTx(s, p)
  PROVE  UnallocatedDiscipline'
<1>1. /\ IF StillFresh(p) /\ LedgerTakes
           THEN receipted' = [receipted EXCEPT ![p] = @ + 1] /\ mirrored' = mirrored \cup {p}
           ELSE UNCHANGED <<receipted, mirrored>>
      /\ Turns(s, [desk[s] EXCEPT !.step = "list", !.payment = {}]) /\ LetsGo(s)
      /\ UNCHANGED <<taken, touched, open, disputed>>
  BY DEF RouteOneInTx
<1>2. \A q \in OfficePayments : OnePlaceFor(q)
  BY DEF UnallocatedDiscipline, OnePlaceFor
<1>3. /\ receipted' \in [OfficePayments -> Nat] /\ mirrored' \subseteq OfficePayments
      /\ \A q \in OfficePayments : OnePlaceFor(q)'
  <2>1. receipted \in [OfficePayments -> Nat] /\ mirrored \subseteq OfficePayments
    BY DEF UnallocatedDiscipline, UnallocatedTypeOK
  <2>2. CASE ~(StillFresh(p) /\ LedgerTakes)
    BY <1>1, <1>2, <2>1, <2>2 DEF OnePlaceFor
  <2>3. CASE StillFresh(p) /\ LedgerTakes
    <3>1. p \notin touched /\ receipted[p] = 0 /\ \A b \in OpenBills : taken[p][b] = 0
      BY <1>2, <2>1, <2>3 DEF StillFresh, Fresh, OnePlaceFor
    <3> QED BY <1>1, <1>2, <2>1, <2>3, <3>1 DEF OnePlaceFor
  <2> QED BY <2>2, <2>3
<1>4. \A q \in OfficePayments : Remainder(q)' >= 0
  BY <1>1 DEF Remainder, UnallocatedDiscipline
<1>5. \A b \in OpenBills : Outstanding(b)' >= 0
  BY <1>1 DEF Outstanding, UnallocatedDiscipline
<1>6. UnallocatedTypeOK'
  <2> DEFINE j == [desk[s] EXCEPT !.step = "list", !.payment = {}]
  <2>1. desk[s] \in Desk
    BY DEF UnallocatedDiscipline, UnallocatedTypeOK
  <2>2. j \in Desk /\ Turns(s, j)
    BY <1>1, <2>1 DEF Desk
  <2> HIDE DEF j
  <2>3. desk' \in [Workers -> Desk]
    BY <2>2, DeskTyped
  <2>4. held' \in [OfficePayments \cup OpenBills -> Workers \cup {NoOne}]
    BY <1>1, HeldTyped
  <2> QED BY <1>1, <1>3, <2>3, <2>4 DEF UnallocatedDiscipline, UnallocatedTypeOK
<1> QED BY <1>3, <1>4, <1>5, <1>6, MoneyStep

\* A dispute, and the payer's ledger opened or closed, move no money.
LEMMA NothingMovedKeeps ==
  ASSUME UnallocatedParameters, UnallocatedDiscipline, SetLedger \/ (\E b \in OpenBills : Dispute(b))
  PROVE  UnallocatedDiscipline'
<1>1. UNCHANGED <<taken, touched, mirrored, receipted, held, desk>>
  BY DEF SetLedger, Dispute
<1>2. open' \in BOOLEAN /\ disputed' \subseteq OpenBills
  BY DEF SetLedger, Dispute, UnallocatedDiscipline, UnallocatedTypeOK
<1>3. UnallocatedTypeOK'
  BY <1>1, <1>2 DEF UnallocatedDiscipline, UnallocatedTypeOK
<1>4. \A p \in OfficePayments : Remainder(p)' = Remainder(p)
  BY <1>1 DEF Remainder
<1>5. \A b \in OpenBills : Outstanding(b)' = Outstanding(b)
  BY <1>1 DEF Outstanding
<1> QED BY <1>1, <1>3, <1>4, <1>5 DEF UnallocatedDiscipline

LEMMA UnallocatedInductive ==
  ASSUME UnallocatedParameters
  PROVE  UnallocatedDiscipline /\ [UnallocatedNext]_unallocatedVars => UnallocatedDiscipline'
<1> SUFFICES ASSUME UnallocatedDiscipline, [UnallocatedNext]_unallocatedVars PROVE UnallocatedDiscipline'
  OBVIOUS
<1>1. ASSUME NEW s \in Workers, NEW p \in OfficePayments,
             \/ \E order \in Orders : StartStatement(s, p, order)
             \/ LockPayment(s, "statement", "allocate", p) \/ AllocateInTx(s, p)
             \/ ResolveHome(s, p) \/ LockPayment(s, "home", "route", p) \/ RouteOneInTx(s, p)
      PROVE  UnallocatedDiscipline'
  BY <1>1, StatementKeeps, LockPaymentKeeps, AllocationKeeps, ResolveHomeKeeps, RouteKeeps
<1>2. ASSUME NEW s \in Workers, RouteUnallocatedRemainders(s) \/ RunEnds(s) \/ Refused(s)
      PROVE  UnallocatedDiscipline'
  BY <1>2, JobStepKeeps
<1>3. ASSUME NEW p \in OfficePayments, CorrectPayment(p) PROVE UnallocatedDiscipline'
  BY <1>3, CorrectKeeps
<1>4. CASE SetLedger \/ \E b \in OpenBills : Dispute(b)
  BY <1>4, NothingMovedKeeps
<1>5. CASE UNCHANGED unallocatedVars
  <2>1. UNCHANGED moneyRows /\ UNCHANGED held /\ UNCHANGED desk
    BY <1>5 DEF unallocatedVars
  <2> QED BY <2>1, DeskStep DEF UnallocatedDiscipline, UnallocatedTypeOK
<1> QED BY <1>1, <1>2, <1>3, <1>4, <1>5 DEF UnallocatedNext

LEMMA UnallocatedStarts ==
  ASSUME UnallocatedParameters
  PROVE  UnallocatedInit => UnallocatedDiscipline
<1> SUFFICES ASSUME UnallocatedInit PROVE UnallocatedDiscipline
  OBVIOUS
<1>1. UnallocatedTypeOK
  BY AtRestTyped DEF UnallocatedInit, UnallocatedTypeOK
<1>2. ASSUME NEW p \in OfficePayments PROVE Remainder(p) >= 0
  <2>1. \A b \in OpenBills : taken[p][b] = 0
    BY DEF UnallocatedInit
  <2>2. SumFunctionOnSet(taken[p], OpenBills) = 0
    BY <2>1, SumOfZeros DEF UnallocatedParameters
  <2> QED BY <2>2 DEF Remainder, UnallocatedParameters
<1>3. ASSUME NEW b \in OpenBills PROVE Outstanding(b) >= 0
  <2> DEFINE f == [p \in OfficePayments |-> taken[p][b]]
  <2>1. \A p \in OfficePayments : f[p] = 0
    BY DEF UnallocatedInit
  <2>2. SumFunctionOnSet(f, OfficePayments) = 0
    <3> HIDE DEF f
    <3> QED BY <2>1, SumOfZeros DEF UnallocatedParameters
  <2> QED BY <2>2 DEF Outstanding, UnallocatedParameters
<1> QED BY <1>1, <1>2, <1>3 DEF UnallocatedDiscipline, UnallocatedInit

\* For any bills, payments and sessions: an office payment is on no bill unless it was
\* allocated and not mirrored, is receipted at most once and then only mirrored, and neither
\* a payment nor a bill is overdrawn, however staff and the routing job interleave
\* (unallocated.ts, statements.ts).
THEOREM UnallocatedStaysInStep ==
  ASSUME UnallocatedParameters
  PROVE  UnallocatedSpec => []UnallocatedDiscipline
<1>1. UnallocatedInit => UnallocatedDiscipline
  BY UnallocatedStarts
<1>2. UnallocatedDiscipline /\ [UnallocatedNext]_unallocatedVars => UnallocatedDiscipline'
  BY UnallocatedInductive
<1> QED BY <1>1, <1>2, PTL DEF UnallocatedSpec

\* The money of one payment is on bills, or once in client money, never both.
THEOREM PaymentsInOnePlace ==
  ASSUME UnallocatedParameters
  PROVE  UnallocatedSpec => []InOnePlace
<1>1. ASSUME UnallocatedDiscipline, NEW p \in OfficePayments, receipted[p] > 0
      PROVE  receipted[p] = 1 /\ p \in mirrored /\ Remainder(p) = PaymentWorth
  <2>1. receipted[p] = 1 /\ p \in mirrored /\ \A b \in OpenBills : taken[p][b] = 0
    BY <1>1 DEF UnallocatedDiscipline
  <2>2. SumFunctionOnSet(taken[p], OpenBills) = 0
    BY <2>1, SumOfZeros DEF UnallocatedParameters
  <2> QED BY <2>1, <2>2 DEF Remainder, UnallocatedParameters
<1>2. UnallocatedDiscipline => InOnePlace
  BY <1>1 DEF InOnePlace
<1> QED BY <1>2, UnallocatedStaysInStep, PTL
=============================================================================
