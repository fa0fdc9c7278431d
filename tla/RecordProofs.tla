---------------------------- MODULE RecordProofs ----------------------------
(***************************************************************************)
(* The records, for any number of people, writers, jobs and rows.  The       *)
(* register: its chain has no break the verifier could find, the evaluation  *)
(* passes no entry, and a cached position out of date is one the next        *)
(* recomputation lists.  The payment details: an account a bill or a file    *)
(* shows was approved, whoever saves or approves another at the same time.   *)
(* The office ledger: an entry is bridged once, and a statement line is      *)
(* booked once, to the bill it pays.  Imported records: a line lands once,   *)
(* and a batch is all there or all gone.                                     *)
(***************************************************************************)
EXTENDS Register, PaymentDetails, OfficeLedger, Imports, SumProofs

-----------------------------------------------------------------------------
(* The chain: the last entry of a set of them. *)

\* The newest of some numbers of entries is one of them, and none is newer.
LEMMA NewestIsLargest ==
  ASSUME ChainParameters, NEW b \in SUBSET (0..MaxSeq), b # {}
  PROVE  Newest(b) \in b /\ \A m \in b : m <= Newest(b)
<1>1. IsFiniteSet(0..MaxSeq)
  BY FS_Interval DEF ChainParameters
<1>2. IsFiniteSet(b)
  BY <1>1, FS_Subset
<1>3. b \in SUBSET Nat
  BY DEF ChainParameters
<1>4. \E n \in b : \A m \in b : m <= n
  BY <1>2, <1>3, LargestNatural
<1> QED BY <1>4 DEF Newest

\* A number of some entries that none of them exceeds is the newest.
LEMMA NewestIs ==
  ASSUME ChainParameters, NEW b \in SUBSET (0..MaxSeq), NEW n \in b, \A m \in b : m <= n
  PROVE  Newest(b) = n
<1>1. Newest(b) \in b /\ \A m \in b : m <= Newest(b)
  BY NewestIsLargest
<1>2. \A m \in b : m \in Nat
  BY DEF ChainParameters
<1>3. Newest(b) \in Nat /\ n \in Nat /\ n <= Newest(b) /\ Newest(b) <= n
  BY <1>1, <1>2
<1> QED BY <1>3

\* What the entries are, apart.
LEMMA EntryTypes ==
  ASSUME ChainParameters, ChainTypeOK
  PROVE  /\ MaxSeq \in Nat /\ Committed \in SUBSET (1..MaxSeq)
         /\ seqno \in 0..MaxSeq /\ head \in 0..MaxSeq /\ cursor \in 0..MaxSeq
         /\ \A p \in Procs : /\ proc[p].seq \in 0..MaxSeq /\ proc[p].prev \in 0..MaxSeq
                             /\ proc[p].batch \in SUBSET (1..MaxSeq)
BY DEF ChainParameters, ChainTypeOK, ProcRow, Committed

-----------------------------------------------------------------------------
(* One lemma per action. *)

\* A process that draws a number is the only one that appends, on the head.
LEMMA EmitKeeps ==
  ASSUME ChainParameters, ChainDiscipline, NEW w \in Writers, EmitRegister(w)
  PROVE  ChainDiscipline'
<1> USE DEF ChainDiscipline
<1>1. w \in Procs /\ seqno \in 0..MaxSeq /\ head \in 0..MaxSeq /\ MaxSeq \in Nat
  BY EntryTypes DEF Procs
<1>2. Appending(seqno + 1, head) \in ProcRow /\ IsIdle(w) /\ HeadFree(w)
  BY <1>1 DEF EmitRegister, Appending, ProcRow
<1>3. ChainTypeOK'
  <2>1. proc' \in [Procs -> ProcRow]
    BY <1>1, <1>2 DEF EmitRegister, ChainTypeOK
  <2>2. seqno' \in 0..MaxSeq /\ UNCHANGED <<entry, head, cursor, seen>>
    BY <1>1 DEF EmitRegister
  <2> QED BY <2>1, <2>2 DEF ChainTypeOK
<1>4. Committed' = Committed /\ UNCHANGED <<entry, head, cursor, seen>> /\ seqno' = seqno + 1
  BY DEF EmitRegister, Committed
<1>5. \A p \in Procs : TakesItsTurn(p)'
  BY <1>1 DEF EmitRegister, IsIdle, HeadFree, TakesItsTurn, Appends, NoneAppends, ChainTypeOK,
     Appending
<1>6. \A p \in Procs : ReadsOn(p)'
  BY <1>1, <1>4 DEF EmitRegister, ReadsOn, ChainTypeOK, Appending
<1>7. RunChainVerificationFindsNothing' /\ NothingSkipped'
  BY <1>4 DEF RunChainVerificationFindsNothing, Breaks, Before, NothingSkipped
<1> QED BY <1>1, <1>3, <1>4, <1>5, <1>6, <1>7

\* An entry that commits is the newest, and links to the one that was.
LEMMA CommitEntryKeeps ==
  ASSUME ChainParameters, ChainDiscipline, NEW w \in Writers, CommitEntry(w)
  PROVE  ChainDiscipline'
<1> USE DEF ChainDiscipline
<1> DEFINE n == proc[w].seq
<1>1. w \in Procs /\ seqno \in 0..MaxSeq /\ head \in 0..MaxSeq /\ cursor \in 0..MaxSeq /\ MaxSeq \in Nat
      /\ Committed \in SUBSET (1..MaxSeq)
  BY EntryTypes DEF Procs
<1>2. n = seqno /\ proc[w].prev = head /\ head < n /\ n \in 1..MaxSeq /\ NoneAppends(w)
  BY <1>1 DEF CommitEntry, TakesItsTurn, Appends
<1>3. entry' = [entry EXCEPT ![n] = head] /\ head' = n /\ UNCHANGED <<seqno, cursor, seen>>
  BY <1>2 DEF CommitEntry
<1>4. \A p \in Procs : proc'[p] = IF p = w THEN Idle ELSE proc[p]
  BY <1>1 DEF CommitEntry, Free, ChainTypeOK
<1>5. ChainTypeOK'
  BY <1>1, <1>2, <1>3, SMTT(30) DEF CommitEntry, Free, ChainTypeOK, Idle, ProcRow
<1> HIDE DEF n
<1>6. Committed' = Committed \cup {n} /\ \A m \in Committed : m < n
  <2>1. entry \in [1..MaxSeq -> -1..MaxSeq]
    BY DEF ChainTypeOK
  <2>2. Committed' = Committed \cup {n}
    BY <1>1, <1>2, <1>3, <2>1 DEF Committed, NoEntry
  <2>3. head \in Nat /\ n \in Nat /\ head < n
    BY <1>1, <1>2
  <2>4. ASSUME NEW m \in Committed PROVE m < n
    <3>1. m <= head /\ m \in Nat
      BY <1>1
    <3> QED BY <2>3, <3>1
  <2> QED BY <2>2, <2>4
<1>7. \A p \in Procs : TakesItsTurn(p)'
  BY <1>2, <1>4 DEF TakesItsTurn, Appends, NoneAppends, Idle
<1>8. ASSUME NEW p \in Procs PROVE ReadsOn(p)'
  <2>1. SUFFICES ASSUME p # w, proc[p].at = "evaluate"
                 PROVE  ReadsOn(p)'
    BY <1>4 DEF ReadsOn, Idle
  <2>2. proc'[p] = proc[p] /\ proc[p].batch \subseteq Committed /\ proc[p].batch # {}
    BY <1>4, <2>1 DEF ReadsOn
  <2>3. \A k \in Committed : k \in proc[p].batch \/ seen[k] > 0 \/ \A m \in proc[p].batch : m < k
    BY <2>1 DEF ReadsOn
  <2>4. \A m \in proc[p].batch : m < n
    BY <2>2, <1>6
  <2> QED BY <1>3, <1>6, <2>2, <2>3, <2>4 DEF ReadsOn
<1>9. RunChainVerificationFindsNothing'
  <2>1. ASSUME NEW k \in Committed' PROVE entry'[k] = Before(k)'
    <3>1. CASE k = n
      <4>1. {m \in Committed' : m < n} = Committed
        <5>1. \A m \in Committed' : m < n <=> m \in Committed
          BY <1>1, <1>2, <1>6
        <5> QED BY <1>6, <5>1
      <4>2. head \in Committed \union {0} /\ \A m \in Committed \union {0} : m <= head
        BY <1>1
      <4>3. Committed \union {0} \in SUBSET (0..MaxSeq)
        BY <1>1
      <4>4. Newest(Committed \union {0}) = head
        BY <4>2, <4>3, NewestIs
      <4>5. entry'[n] = head
        BY <1>2, <1>3 DEF ChainTypeOK
      <4> QED BY <3>1, <4>1, <4>4, <4>5 DEF Before
    <3>2. CASE k # n
      <4>1. k \in Committed /\ k < n /\ k \in 1..MaxSeq
        BY <1>1, <1>6, <3>2
      <4>2. {m \in Committed' : m < k} = {m \in Committed : m < k}
        BY <1>1, <1>2, <1>6, <4>1
      <4>3. entry'[k] = entry[k]
        BY <1>2, <1>3, <3>2, <4>1 DEF ChainTypeOK
      <4>4. entry[k] = Before(k)
        BY <4>1 DEF RunChainVerificationFindsNothing, Breaks
      <4> QED BY <4>2, <4>3, <4>4 DEF Before
    <3> QED BY <3>1, <3>2
  <2> QED BY <2>1 DEF RunChainVerificationFindsNothing, Breaks
<1>10. NothingSkipped'
  <2>1. ~(n <= cursor)
    BY <1>1, <1>2
  <2> QED BY <1>3, <1>6, <2>1 DEF NothingSkipped
<1>11. /\ head' <= seqno' /\ cursor' <= head' /\ head' \in Committed' \union {0}
       /\ \A m \in Committed' : m <= head'
  BY <1>1, <1>2, <1>3, <1>6
<1> QED BY <1>5, <1>7, <1>8, <1>9, <1>10, <1>11

\* An operation that fails leaves the chain as it was.
LEMMA RollbackKeeps ==
  ASSUME ChainParameters, ChainDiscipline, NEW p \in Procs, Rollback(p)
  PROVE  ChainDiscipline'
<1> USE DEF ChainDiscipline
<1>1. ChainTypeOK'
  BY EntryTypes DEF Rollback, Free, ChainTypeOK, Idle, ProcRow
<1>2. UNCHANGED <<entry, seqno, head, cursor, seen>> /\ Committed' = Committed
  BY DEF Rollback, Committed
<1>3. \A q \in Procs : proc'[q] = IF q = p THEN Idle ELSE proc[q]
  BY DEF Rollback, Free, ChainTypeOK
<1>4. \A q \in Procs : TakesItsTurn(q)' /\ ReadsOn(q)'
  BY <1>2, <1>3 DEF TakesItsTurn, Appends, NoneAppends, ReadsOn, Idle
<1>5. RunChainVerificationFindsNothing' /\ NothingSkipped'
  BY <1>2 DEF RunChainVerificationFindsNothing, Breaks, Before, NothingSkipped
<1> QED BY <1>1, <1>2, <1>4, <1>5

\* A run of the evaluation reads everything past the cursor.
LEMMA StartEvaluationKeeps ==
  ASSUME ChainParameters, ChainDiscipline, NEW j \in Jobs, StartEvaluation(j)
  PROVE  ChainDiscipline'
<1> USE DEF ChainDiscipline
<1>1. j \in Procs /\ Past(cursor) \subseteq Committed /\ Past(cursor) # {} /\ Committed \in SUBSET (1..MaxSeq)
      /\ cursor \in 0..MaxSeq /\ MaxSeq \in Nat
  BY EntryTypes DEF Procs, StartEvaluation, Past
<1>2. UNCHANGED <<entry, seqno, head, cursor, seen>> /\ Committed' = Committed
  BY DEF StartEvaluation, Committed
<1> DEFINE x == Evaluating(Past(cursor))
<1>3. x \in ProcRow /\ x.at = "evaluate" /\ x.batch = Past(cursor)
  <2>1. Past(cursor) \in SUBSET (1..MaxSeq)
    BY <1>1
  <2>2. ASSUME NEW b \in SUBSET (1..MaxSeq) PROVE Evaluating(b) \in ProcRow
    BY <1>1 DEF Evaluating, ProcRow
  <2> QED BY <2>1, <2>2 DEF Evaluating
<1>4. proc' = [proc EXCEPT ![j] = x]
  BY DEF StartEvaluation
<1> HIDE DEF x
<1>5. ChainTypeOK'
  BY <1>1, <1>2, <1>3, <1>4 DEF ChainTypeOK
<1>6. \A q \in Procs : TakesItsTurn(q)'
  BY <1>2, <1>3, <1>4 DEF TakesItsTurn, Appends, NoneAppends, ChainTypeOK
<1>7. ASSUME NEW q \in Procs PROVE ReadsOn(q)'
  <2>1. CASE q = j
    <3>1. proc'[q].batch = Past(cursor)
      BY <1>1, <1>3, <1>4, <2>1 DEF ChainTypeOK
    <3>2. \A n \in Committed : n \in Past(cursor) \/ seen[n] > 0
      BY <1>1 DEF Past, NothingSkipped
    <3> QED BY <1>1, <1>2, <3>1, <3>2 DEF ReadsOn
  <2>2. CASE q # j
    BY <1>2, <1>4, <2>2 DEF ReadsOn, ChainTypeOK
  <2> QED BY <2>1, <2>2
<1>8. RunChainVerificationFindsNothing' /\ NothingSkipped'
  BY <1>2 DEF RunChainVerificationFindsNothing, Breaks, Before, NothingSkipped
<1> QED BY <1>2, <1>5, <1>6, <1>7, <1>8

\* The cursor goes to the last entry the run read, over entries that are all evaluated.
LEMMA EvaluateKeeps ==
  ASSUME ChainParameters, ChainDiscipline, NEW j \in Jobs, Evaluate(j)
  PROVE  ChainDiscipline'
<1> USE DEF ChainDiscipline
<1> DEFINE b == proc[j].batch
<1>1. /\ j \in Procs /\ Committed \in SUBSET (1..MaxSeq) /\ MaxSeq \in Nat
      /\ b \in SUBSET (1..MaxSeq) /\ head \in 0..MaxSeq
  BY EntryTypes DEF Procs
<1>2. /\ b # {} /\ b \subseteq Committed
      /\ \A n \in Committed : n \in b \/ seen[n] > 0 \/ \A m \in b : m < n
  BY <1>1 DEF Evaluate, ReadsOn
<1>3. Newest(b) \in b /\ \A m \in b : m <= Newest(b)
  <2>1. b \in SUBSET (0..MaxSeq)
    BY <1>1
  <2> HIDE DEF b
  <2> QED BY <1>2, <2>1, NewestIsLargest
<1>4. UNCHANGED <<entry, seqno, head>> /\ Committed' = Committed /\ cursor' = Newest(b)
      /\ seen' = [n \in 1..MaxSeq |-> IF n \in b THEN seen[n] + 1 ELSE seen[n]]
  BY DEF Evaluate, Committed
<1>5. \A q \in Procs : proc'[q] = IF q = j THEN Idle ELSE proc[q]
  BY DEF Evaluate, Free, ChainTypeOK
<1>6. proc' \in [Procs -> ProcRow]
  BY <1>1 DEF Evaluate, Free, ChainTypeOK, Idle, ProcRow
<1> HIDE DEF b
<1>7. seen \in [1..MaxSeq -> Nat] /\ seen' \in [1..MaxSeq -> Nat]
  BY <1>4 DEF ChainTypeOK
<1>8. Newest(b) \in 0..MaxSeq /\ Newest(b) \in Nat
  <2>1. \A n \in b : n \in 0..MaxSeq /\ n \in Nat
    BY <1>1
  <2> QED BY <1>3, <2>1
<1>9. ChainTypeOK'
  BY <1>1, <1>8, <1>4, <1>6, <1>7 DEF ChainTypeOK
<1>10. \A n \in 1..MaxSeq : seen[n] > 0 \/ n \in b => seen'[n] > 0
  BY <1>4, <1>7
<1>11. \A q \in Procs : TakesItsTurn(q)'
  BY <1>4, <1>5 DEF TakesItsTurn, Appends, NoneAppends, Idle
<1>12. ASSUME NEW q \in Procs PROVE ReadsOn(q)'
  BY <1>1, <1>4, <1>5, <1>10 DEF ReadsOn, Idle
<1>13. NothingSkipped'
  <2>1. ASSUME NEW n \in Committed, n <= Newest(b) PROVE seen'[n] > 0
    <3>1. n \in b \/ seen[n] > 0 \/ Newest(b) < n
      BY <1>2, <1>3
    <3>2. n \in Nat /\ n \in 1..MaxSeq
      BY <1>1
    <3> QED BY <1>10, <1>8, <2>1, <3>1, <3>2
  <2> QED BY <1>4, <2>1 DEF NothingSkipped
<1>14. RunChainVerificationFindsNothing'
  BY <1>4 DEF RunChainVerificationFindsNothing, Breaks, Before
<1>15. cursor' <= head'
  BY <1>2, <1>3, <1>4
<1> QED BY <1>4, <1>9, <1>11, <1>12, <1>13, <1>14, <1>15

\* No entry, no process in the middle of anything.
LEMMA ChainBegins ==
  ASSUME ChainParameters, ChainInit
  PROVE  ChainDiscipline
<1>1. MaxSeq \in Nat
  BY DEF ChainParameters
<1>2. ChainTypeOK
  BY <1>1 DEF ChainInit, ChainTypeOK, Idle, ProcRow, NoEntry
<1>3. Committed = {}
  BY DEF ChainInit, Committed
<1>4. \A p \in Procs : TakesItsTurn(p) /\ ReadsOn(p)
  BY DEF ChainInit, Idle, TakesItsTurn, Appends, ReadsOn
<1>5. RunChainVerificationFindsNothing /\ NothingSkipped
  BY <1>3 DEF RunChainVerificationFindsNothing, Breaks, NothingSkipped
<1> QED BY <1>2, <1>3, <1>4, <1>5 DEF ChainInit, ChainDiscipline

\* Every step keeps it.
LEMMA ChainStays ==
  ASSUME ChainParameters, ChainDiscipline, [ChainNext]_chainVars
  PROVE  ChainDiscipline'
<1>1. CASE ChainNext
  <2>1. CASE \E w \in Writers : EmitRegister(w) \/ CommitEntry(w)
    BY <2>1, EmitKeeps, CommitEntryKeeps
  <2>2. CASE \E j \in Jobs : StartEvaluation(j) \/ Evaluate(j)
    BY <2>2, StartEvaluationKeeps, EvaluateKeeps
  <2>3. CASE \E p \in Procs : Rollback(p)
    BY <2>3, RollbackKeeps
  <2> QED BY <1>1, <2>1, <2>2, <2>3 DEF ChainNext
<1>2. CASE UNCHANGED chainVars
  <2>1. UNCHANGED <<entry, seqno, head, cursor, seen, proc>> /\ Committed' = Committed
    BY <1>2 DEF chainVars, Committed
  <2>2. ChainTypeOK'
    BY <2>1 DEF ChainDiscipline, ChainTypeOK
  <2>3. \A p \in Procs : TakesItsTurn(p)' /\ ReadsOn(p)'
    BY <2>1 DEF ChainDiscipline, TakesItsTurn, Appends, NoneAppends, ReadsOn
  <2>4. RunChainVerificationFindsNothing' /\ NothingSkipped'
    BY <2>1 DEF ChainDiscipline, RunChainVerificationFindsNothing, Breaks, Before, NothingSkipped
  <2> QED BY <2>1, <2>2, <2>3, <2>4 DEF ChainDiscipline
<1> QED BY <1>1, <1>2

\* For any number of writers, evaluations and entries: appends take turns with the last
\* number on the entry that is the head, and an evaluation in flight has read what lay past
\* its cursor (register.ts, anomalyJobs.ts, the triggers of 0001 and 0027).
THEOREM ChainDisciplineHolds == ChainParameters /\ ChainSpec => []ChainDiscipline
<1>1. ASSUME ChainParameters PROVE ChainSpec => []ChainDiscipline
  <2>1. ChainInit => ChainDiscipline
    BY <1>1, ChainBegins
  <2>2. ChainDiscipline /\ [ChainNext]_chainVars => ChainDiscipline'
    BY <1>1, ChainStays
  <2> QED BY <2>1, <2>2, PTL DEF ChainSpec
<1> QED BY <1>1

\* The verifier's walk finds no break that no one made, however appends overlap and fail.
THEOREM VerificationFindsNothing == ChainParameters /\ ChainSpec => []RunChainVerificationFindsNothing
<1>1. ChainDiscipline => RunChainVerificationFindsNothing
  BY DEF ChainDiscipline
<1> QED BY <1>1, ChainDisciplineHolds, PTL

\* The evaluation's cursor never passes an entry that was not evaluated.
THEOREM NothingIsSkipped == ChainParameters /\ ChainSpec => []NothingSkipped
<1>1. ChainDiscipline => NothingSkipped
  BY DEF ChainDiscipline
<1> QED BY <1>1, ChainDisciplineHolds, PTL

-----------------------------------------------------------------------------
(* The positions: what a refresh read of a matter. *)

\* What a refresh is at, what it has still to do, what it read and what it wrote are each typed.
LEMMA JobFields ==
  ASSUME NEW x \in RefreshRow
  PROVE  /\ x.frontier \in 0..MaxPosition /\ x.todo \in SUBSET Matters
         /\ x.value \in -1..MaxPosition /\ x.wrote \in SUBSET Rows
         /\ \A r \in x.wrote : r.matter \in Matters /\ r.value \in -1..MaxPosition
BY DEF RefreshRow, Rows

\* A refresh at rest is typed.
LEMMA NoRefreshIsTyped == ASSUME PositionParameters PROVE NoRefresh \in RefreshRow
BY DEF PositionParameters, NoRefresh, RefreshRow, NoRow

\* A step of one refresh alone keeps the rest.
LEMMA JobMoves ==
  ASSUME PositionParameters, PositionDiscipline, NEW j \in Refreshes, NEW x \in RefreshRow, ReadAsOf(x),
         refresh' = [refresh EXCEPT ![j] = x], UNCHANGED <<operationVars, cache>>
  PROVE  PositionDiscipline'
<1>1. PositionTypeOK'
  BY DEF PositionDiscipline, PositionTypeOK, operationVars
<1>2. ASSUME NEW k \in Refreshes PROVE ReadAsOf(refresh[k])'
  <2>1. refresh'[k] = x \/ refresh'[k] = refresh[k]
    BY DEF PositionDiscipline, PositionTypeOK
  <2>2. ReadAsOf(refresh[k])
    BY DEF PositionDiscipline
  <2> QED BY <2>1, <2>2 DEF ReadAsOf, AsOf, operationVars
<1> QED BY <1>1, <1>2 DEF PositionDiscipline, AsOf, operationVars

\* What the positions are, apart.
LEMMA PositionTypes ==
  ASSUME PositionParameters, PositionDiscipline
  PROVE  /\ MaxPosition \in Nat /\ drawn \in 0..MaxPosition /\ visible \in 0..MaxPosition
         /\ \A m \in Matters : /\ figure[m] \in 0..MaxPosition /\ named[m] \in 0..MaxPosition
                               /\ cache[m] \in CacheRow
         /\ flight \in SUBSET ChangeRow /\ unseen \in SUBSET Matters /\ late \in SUBSET Matters
         /\ \A j \in Refreshes : refresh[j] \in RefreshRow /\ ReadAsOf(refresh[j])
BY DEF PositionParameters, PositionDiscipline, PositionTypeOK

\* The frontier is read first: there is nothing written yet.
LEMMA ReadFrontierKeeps ==
  ASSUME PositionParameters, PositionDiscipline, NEW j \in Refreshes, ReadFrontier(j)
  PROVE  PositionDiscipline'
<1> DEFINE x == [refresh[j] EXCEPT !.at = "frontier", !.frontier = visible]
<1>1. x \in RefreshRow
  BY PositionTypes DEF RefreshRow
<1>2. ReadAsOf(x)
  <2>1. x.at = "frontier" /\ x.wrote = {}
    BY DEF ReadFrontier, NoRefresh
  <2> QED BY <2>1, PositionTypes DEF ReadAsOf
<1>3. refresh' = [refresh EXCEPT ![j] = x] /\ UNCHANGED <<operationVars, cache>>
  BY DEF ReadFrontier
<1> HIDE DEF x
<1> QED BY <1>1, <1>2, <1>3, JobMoves

\* The stale rows are listed.
LEMMA ListStaleKeeps ==
  ASSUME PositionParameters, PositionDiscipline, NEW j \in Refreshes, ListStale(j)
  PROVE  PositionDiscipline'
<1> DEFINE t == {m \in Matters : Stale(m)}
           x == [refresh[j] EXCEPT !.at = "rows", !.todo = t]
<1>1. x \in RefreshRow
  <2>1. t \in SUBSET Matters
    OBVIOUS
  <2> HIDE DEF t
  <2> QED BY <2>1, PositionTypes DEF RefreshRow
<1>2. ReadAsOf(x)
  <2>1. x.at = "rows" /\ x.frontier = refresh[j].frontier /\ x.wrote = refresh[j].wrote
    BY PositionTypes DEF RefreshRow
  <2> QED BY <2>1, PositionTypes DEF ReadAsOf, ListStale
<1>3. refresh' = [refresh EXCEPT ![j] = x] /\ UNCHANGED <<operationVars, cache>>
  BY DEF ListStale
<1> HIDE DEF x
<1> QED BY <1>1, <1>2, <1>3, JobMoves

\* A figure that is read now is as of any frontier read before.
LEMMA ComputesKeeps ==
  ASSUME PositionParameters, PositionDiscipline, NEW j \in Refreshes, NEW m \in refresh[j].todo,
         Computes(j, "rows", "row", m) \/ Computes(j, "sample", "correct", m)
  PROVE  PositionDiscipline'
<1>1. PICK at \in {"rows", "sample"}, next \in {"row", "correct"} :
          (at = "rows" <=> next = "row") /\ Computes(j, at, next, m)
  OBVIOUS
<1> DEFINE x == [refresh[j] EXCEPT !.at = next, !.value = figure[m]]
<1>2. refresh[j] \in RefreshRow /\ ReadAsOf(refresh[j]) /\ m \in Matters
  BY PositionTypes, JobFields
<1>3. x \in RefreshRow
  <2>1. figure[m] \in -1..MaxPosition
    BY <1>2, PositionTypes
  <2> QED BY <1>2, <2>1 DEF RefreshRow
<1>4. ReadAsOf(x)
  <2>1. /\ x.at = next /\ x.value = figure[m]
        /\ x.frontier = refresh[j].frontier /\ x.wrote = refresh[j].wrote /\ x.todo = refresh[j].todo
    BY <1>2 DEF RefreshRow
  <2>2. refresh[j].at = at /\ m = Min(refresh[j].todo)
    BY <1>1 DEF Computes
  <2> QED BY <1>1, <1>2, <2>1, <2>2 DEF ReadAsOf, AsOf
<1>5. refresh' = [refresh EXCEPT ![j] = x] /\ UNCHANGED <<operationVars, cache>>
  BY <1>1 DEF Computes
<1> HIDE DEF x
<1> QED BY <1>3, <1>4, <1>5, JobMoves

\* The row is written with what was read of it.
LEMMA WritesKeeps ==
  ASSUME PositionParameters, PositionDiscipline, NEW j \in Refreshes, NEW m \in refresh[j].todo,
         Writes(j, "row", "rows", m) \/ Writes(j, "correct", "sample", m)
  PROVE  PositionDiscipline'
<1>1. PICK at \in {"row", "correct"}, next \in {"rows", "sample"} :
          (at = "row" <=> next = "rows") /\ Writes(j, at, next, m)
  OBVIOUS
<1> DEFINE row == [matter |-> m, value |-> refresh[j].value]
           w == refresh[j].wrote \cup {row}
           t == refresh[j].todo \ {m}
           x == [refresh[j] EXCEPT !.at = next, !.todo = t, !.value = NoRow, !.wrote = w]
<1>2. refresh[j] \in RefreshRow /\ ReadAsOf(refresh[j]) /\ m \in Matters /\ refresh[j].value \in -1..MaxPosition
  BY PositionTypes, JobFields
<1>3. w \in SUBSET Rows /\ t \in SUBSET Matters
  BY <1>2, JobFields DEF Rows
<1>4. x \in RefreshRow
  <2>1. NoRow \in -1..MaxPosition
    BY PositionTypes DEF NoRow
  <2> HIDE DEF w, t
  <2> QED BY <1>2, <1>3, <2>1 DEF RefreshRow
<1>5. ReadAsOf(x)
  <2>1. x.at = next /\ x.frontier = refresh[j].frontier /\ x.wrote = w
    BY <1>2 DEF RefreshRow
  <2>2. refresh[j].at = at /\ m = Min(refresh[j].todo)
    BY <1>1 DEF Writes
  <2>3. ASSUME next = "rows" PROVE \A r \in w : AsOf(r.value, refresh[j].frontier, r.matter)
    <3>1. AsOf(row.value, refresh[j].frontier, row.matter)
      BY <1>1, <1>2, <2>2, <2>3 DEF ReadAsOf
    <3>2. \A r \in refresh[j].wrote : AsOf(r.value, refresh[j].frontier, r.matter)
      BY <1>1, <1>2, <2>2, <2>3 DEF ReadAsOf
    <3> QED BY <3>1, <3>2
  <2> HIDE DEF w
  <2> QED BY <1>1, <1>2, <2>1, <2>3 DEF ReadAsOf
<1>6. refresh' = [refresh EXCEPT ![j] = x] /\ UNCHANGED <<operationVars, cache>>
  BY <1>1 DEF Writes
<1> HIDE DEF x
<1> QED BY <1>4, <1>5, <1>6, JobMoves

\* The verifier reads the rows as cached.
LEMMA ListSampleKeeps ==
  ASSUME PositionParameters, PositionDiscipline, NEW j \in Refreshes, ListSample(j)
  PROVE  PositionDiscipline'
<1> DEFINE t == {m \in Matters : cache[m].value # NoRow}
           l == {[matter |-> m, value |-> cache[m].value] : m \in t}
           x == [refresh[j] EXCEPT !.at = "sample", !.todo = t, !.listed = l]
<1>1. x \in RefreshRow
  <2>1. t \in SUBSET Matters /\ l \in SUBSET Rows
    BY PositionTypes DEF CacheRow, Rows
  <2> HIDE DEF t, l
  <2> QED BY <2>1, PositionTypes DEF RefreshRow
<1>2. ReadAsOf(x)
  <2>1. x.at = "sample" /\ x.frontier = refresh[j].frontier
    BY PositionTypes DEF RefreshRow
  <2> QED BY <2>1, PositionTypes DEF ReadAsOf
<1>3. refresh' = [refresh EXCEPT ![j] = x] /\ UNCHANGED <<operationVars, cache>>
  BY DEF ListSample
<1> HIDE DEF x
<1> QED BY <1>1, <1>2, <1>3, JobMoves

\* A row that agrees is left.
LEMMA SameKeeps ==
  ASSUME PositionParameters, PositionDiscipline, NEW j \in Refreshes,
         NEW m \in refresh[j].todo, Same(j, m)
  PROVE  PositionDiscipline'
<1> DEFINE t == refresh[j].todo \ {m}
           x == [refresh[j] EXCEPT !.todo = t]
<1>1. refresh[j] \in RefreshRow /\ t \in SUBSET Matters
  BY PositionTypes, JobFields
<1>2. x \in RefreshRow
  <2> HIDE DEF t
  <2> QED BY <1>1 DEF RefreshRow
<1>3. ReadAsOf(x)
  <2>1. x.at = "sample" /\ x.frontier = refresh[j].frontier
    BY <1>1 DEF RefreshRow, Same
  <2> QED BY <2>1, PositionTypes DEF ReadAsOf
<1>4. refresh' = [refresh EXCEPT ![j] = x] /\ UNCHANGED <<operationVars, cache>>
  BY DEF Same
<1> HIDE DEF x
<1> QED BY <1>2, <1>3, <1>4, JobMoves

\* A refresh that fails leaves nothing.
LEMMA FailKeeps ==
  ASSUME PositionParameters, PositionDiscipline, NEW j \in Refreshes, Fail(j)
  PROVE  PositionDiscipline'
<1>1. NoRefresh \in RefreshRow /\ ReadAsOf(NoRefresh)
  BY NoRefreshIsTyped, PositionTypes DEF NoRefresh, ReadAsOf
<1> QED BY <1>1, JobMoves DEF Fail

\* A change that draws its id changes no position yet.
LEMMA DrawKeeps ==
  ASSUME PositionParameters, PositionDiscipline, NEW ms \in SUBSET Matters,
         NEW name \in SUBSET ms, DrawId(ms, name)
  PROVE  PositionDiscipline'
<1>1. drawn + 1 \in 1..MaxPosition
  BY PositionTypes DEF DrawId
<1>2. [id |-> drawn + 1, ms |-> ms, name |-> name] \in ChangeRow
  BY <1>1 DEF ChangeRow
<1>3. PositionTypeOK'
  BY <1>1, <1>2 DEF DrawId, PositionDiscipline, PositionTypeOK
<1>4. \A t \in flight' : t.name \subseteq t.ms
  BY DEF DrawId, PositionDiscipline
<1>5. \A j \in Refreshes : ReadAsOf(refresh[j])'
  BY PositionTypes DEF DrawId, ReadAsOf, AsOf
<1> QED BY <1>3, <1>4, <1>5 DEF PositionDiscipline, DrawId, AsOf

\* A change that is undone leaves nothing.
LEMMA RollbackChangeKeeps ==
  ASSUME PositionParameters, PositionDiscipline, NEW t \in flight, RollbackChange(t)
  PROVE  PositionDiscipline'
<1>1. PositionTypeOK'
  BY DEF RollbackChange, PositionDiscipline, PositionTypeOK
<1>2. \A j \in Refreshes : ReadAsOf(refresh[j])'
  BY PositionTypes DEF RollbackChange, ReadAsOf, AsOf
<1> QED BY <1>1, <1>2 DEF PositionDiscipline, RollbackChange, AsOf

\* A change's matters are named past every frontier that was read, or late, or unseen.
LEMMA CommitChangeKeeps ==
  ASSUME PositionParameters, PositionDiscipline, NEW t \in flight, CommitChange(t)
  PROVE  PositionDiscipline'
<1>1. /\ t.id \in Nat /\ t.id \in 0..MaxPosition /\ t.ms \in SUBSET Matters /\ t.name \in SUBSET t.ms
      /\ MaxPosition \in Nat /\ visible \in 0..MaxPosition
  BY PositionTypes DEF ChangeRow, PositionDiscipline
<1>2. /\ figure' = [m \in Matters |-> IF m \in t.ms THEN t.id ELSE figure[m]]
      /\ named' = [m \in Matters |-> IF m \in t.name THEN Later(named[m], t.id) ELSE named[m]]
      /\ unseen' = (unseen \cup t.ms) \ t.name
      /\ late' = (late \ t.name) \cup {m \in t.ms : Behind(m, t.id)}
      /\ flight' = flight \ {t} /\ visible' = Later(visible, t.id)
      /\ UNCHANGED <<drawn, cache, refresh>>
  BY DEF CommitChange
<1>3. PositionTypeOK'
  <2>1. figure' \in [Matters -> 0..MaxPosition] /\ named' \in [Matters -> 0..MaxPosition]
    BY <1>1, <1>2, PositionTypes DEF Later
  <2>2. visible' \in 0..MaxPosition
    BY <1>1, <1>2 DEF Later
  <2>3. unseen' \subseteq Matters /\ late' \subseteq Matters
    BY <1>1, <1>2, PositionTypes
  <2> QED BY <1>2, <2>1, <2>2, <2>3 DEF PositionDiscipline, PositionTypeOK
<1>4. ASSUME NEW m \in Matters, NEW v, NEW f \in 0..MaxPosition, AsOf(v, f, m),
             f = cache[m].frontier \/ \E j \in Refreshes : f = refresh[j].frontier
      PROVE  v = figure'[m] \/ m \in unseen' \cup late' \/ named'[m] > f
  <2>1. CASE m \notin t.ms
    BY <1>1, <1>2, <1>4, <2>1 DEF AsOf
  <2>2. CASE m \in t.ms /\ m \notin t.name
    BY <1>2, <2>2
  <2>3. CASE m \in t.name /\ Behind(m, t.id)
    BY <1>1, <1>2, <2>3
  <2>4. CASE m \in t.name /\ ~Behind(m, t.id)
    <3>1. f \in Nat /\ named[m] \in Nat
      BY <1>1, PositionTypes
    <3>2. t.id > f
      BY <1>1, <1>4, <2>4, <3>1 DEF Behind
    <3>3. named'[m] >= t.id /\ named'[m] \in Nat
      BY <1>1, <1>2, <2>4, <3>1 DEF Later
    <3> QED BY <1>1, <3>1, <3>2, <3>3
  <2> QED BY <2>1, <2>2, <2>3, <2>4
<1>5. ASSUME NEW m \in Matters
      PROVE  \/ cache'[m].by = "verifier" \/ cache'[m].value = NoRow
             \/ AsOf(cache[m].value, cache[m].frontier, m)'
  <2>1. cache[m].frontier \in 0..MaxPosition
    BY PositionTypes DEF CacheRow
  <2>2. cache[m].by = "verifier" \/ cache[m].value = NoRow \/ AsOf(cache[m].value, cache[m].frontier, m)
    BY DEF PositionDiscipline
  <2> QED BY <1>2, <1>4, <2>1, <2>2 DEF AsOf
<1>6. ASSUME NEW j \in Refreshes PROVE ReadAsOf(refresh[j])'
  <2> DEFINE x == refresh[j]
  <2>1. x \in RefreshRow /\ ReadAsOf(x) /\ refresh' = refresh
    BY <1>2, PositionTypes
  <2>2. x.frontier \in 0..MaxPosition /\ x.todo \in SUBSET Matters /\ \A r \in x.wrote : r.matter \in Matters
    BY <2>1, JobFields
  <2>3. ASSUME x.at \in {"frontier", "rows", "row"}, NEW r \in x.wrote
        PROVE  r.value = figure'[r.matter] \/ r.matter \in unseen' \cup late' \/ named'[r.matter] > x.frontier
    <3>1. AsOf(r.value, x.frontier, r.matter)
      BY <2>1, <2>3 DEF ReadAsOf
    <3> QED BY <1>4, <2>2, <3>1
  <2>4. ASSUME x.at = "row"
        PROVE  /\ Min(x.todo) \in x.todo
               /\ \/ x.value = figure'[Min(x.todo)] \/ Min(x.todo) \in unseen' \cup late'
                  \/ named'[Min(x.todo)] > x.frontier
    <3>1. AsOf(x.value, x.frontier, Min(x.todo)) /\ Min(x.todo) \in x.todo
      BY <2>1, <2>4 DEF ReadAsOf
    <3> QED BY <1>4, <2>2, <3>1
  <2> QED BY <2>1, <2>3, <2>4 DEF ReadAsOf, AsOf
<1>7. \A u \in flight' : u.name \subseteq u.ms
  BY <1>2 DEF PositionDiscipline
<1> QED BY <1>3, <1>5, <1>6, <1>7 DEF PositionDiscipline

\* A row that is written, written once more or left alone is as of its frontier.
LEMMA CacheMoves ==
  ASSUME PositionParameters, PositionDiscipline, NEW j \in Refreshes,
         refresh' = [refresh EXCEPT ![j] = NoRefresh],
         UNCHANGED operationVars,
         cache' \in [Matters -> CacheRow],
         \A m \in Matters :
           \/ cache'[m] = cache[m]
           \/ cache'[m].by = "verifier"
           \/ AsOf(cache'[m].value, cache'[m].frontier, m)
  PROVE  PositionDiscipline'
<1>1. NoRefresh \in RefreshRow /\ ReadAsOf(NoRefresh)
  BY NoRefreshIsTyped, PositionTypes DEF NoRefresh, ReadAsOf
<1>2. PositionTypeOK'
  BY <1>1 DEF PositionDiscipline, PositionTypeOK, operationVars
<1>3. ASSUME NEW k \in Refreshes PROVE ReadAsOf(refresh[k])'
  <2>1. refresh'[k] = NoRefresh \/ refresh'[k] = refresh[k]
    BY DEF PositionDiscipline, PositionTypeOK
  <2>2. ReadAsOf(refresh[k])
    BY DEF PositionDiscipline
  <2> QED BY <1>1, <2>1, <2>2 DEF ReadAsOf, AsOf, operationVars
<1>4. ASSUME NEW m \in Matters
      PROVE  \/ cache'[m].by = "verifier" \/ cache'[m].value = NoRow
             \/ AsOf(cache[m].value, cache[m].frontier, m)'
  BY DEF PositionDiscipline, AsOf, operationVars
<1> QED BY <1>2, <1>3, <1>4 DEF PositionDiscipline, operationVars

\* What was written of a matter is one of the rows that were.
LEMMA ValueIsWritten ==
  ASSUME PositionParameters, PositionDiscipline, NEW j \in Refreshes, NEW m \in Wrote(j)
  PROVE  \E r \in refresh[j].wrote : r.matter = m /\ r.value = Value(j, m) /\ r.value \in -1..MaxPosition
<1>1. \E r \in refresh[j].wrote : r.matter = m
  BY DEF Wrote
<1>2. PICK r \in refresh[j].wrote : r = CHOOSE q \in refresh[j].wrote : q.matter = m
  BY <1>1
<1>3. r.matter = m
  BY <1>1, <1>2
<1>4. r.value \in -1..MaxPosition
  BY PositionTypes, JobFields
<1> QED BY <1>2, <1>3, <1>4 DEF Value

\* A recomputation's rows take the frontier that was read before they were.
LEMMA CommitRecomputeKeeps ==
  ASSUME PositionParameters, PositionDiscipline, NEW j \in Refreshes, CommitRecompute(j)
  PROVE  PositionDiscipline'
<1> DEFINE new(m) == [value |-> Value(j, m), frontier |-> Frontier(j), by |-> "job"]
<1>1. cache' = [m \in Matters |-> IF m \in Wrote(j) THEN new(m) ELSE cache[m]]
  BY DEF CommitRecompute
<1>2. ASSUME NEW m \in Matters, m \in Wrote(j)
      PROVE  new(m) \in CacheRow /\ AsOf(Value(j, m), Frontier(j), m)
  <2>1. PICK r \in refresh[j].wrote : r.matter = m /\ r.value = Value(j, m) /\ r.value \in -1..MaxPosition
    BY <1>2, ValueIsWritten
  <2>2. refresh[j] \in RefreshRow /\ ReadAsOf(refresh[j]) /\ refresh[j].at = "rows"
    BY PositionTypes DEF CommitRecompute
  <2>3. AsOf(r.value, refresh[j].frontier, r.matter)
    BY <2>2 DEF ReadAsOf
  <2>4. refresh[j].frontier \in 0..MaxPosition
    BY <2>2, JobFields
  <2> QED BY <2>1, <2>3, <2>4 DEF Frontier, CacheRow
<1>3. cache' \in [Matters -> CacheRow]
  <2> HIDE DEF new
  <2> QED BY <1>1, <1>2, PositionTypes
<1>4. ASSUME NEW m \in Matters, cache'[m] # cache[m]
      PROVE  AsOf(cache'[m].value, cache'[m].frontier, m)
  <2>1. m \in Wrote(j) /\ cache'[m] = new(m)
    BY <1>1, <1>4
  <2> QED BY <1>2, <2>1
<1> QED BY <1>3, <1>4, CacheMoves DEF CommitRecompute

\* A correction takes the figure and leaves the frontier where it stood.
LEMMA CommitVerifyKeeps ==
  ASSUME PositionParameters, PositionDiscipline, NEW j \in Refreshes, CommitVerify(j)
  PROVE  PositionDiscipline'
<1> DEFINE new(m) == [cache[m] EXCEPT !.value = Value(j, m), !.by = "verifier"]
<1>1. cache' = [m \in Matters |-> IF m \in Wrote(j) THEN new(m) ELSE cache[m]]
  BY DEF CommitVerify
<1>2. ASSUME NEW m \in Matters, m \in Wrote(j)
      PROVE  new(m) \in CacheRow /\ new(m).by = "verifier"
  <2>1. Value(j, m) \in -1..MaxPosition
    BY <1>2, ValueIsWritten
  <2>2. cache[m] \in CacheRow
    BY PositionTypes
  <2> QED BY <2>1, <2>2 DEF CacheRow
<1> HIDE DEF new
<1>3. cache' \in [Matters -> CacheRow]
  BY <1>1, <1>2, PositionTypes
<1>4. ASSUME NEW m \in Matters, cache'[m] # cache[m]
      PROVE  cache'[m].by = "verifier"
  <2>1. m \in Wrote(j) /\ cache'[m] = new(m)
    BY <1>1, <1>4
  <2> QED BY <1>2, <2>1
<1> QED BY <1>3, <1>4, CacheMoves DEF CommitVerify

\* No row, no refresh.
LEMMA PositionsBegin ==
  ASSUME PositionParameters, PositionInit
  PROVE  PositionDiscipline
<1>1. MaxPosition \in Nat /\ NoRefresh \in RefreshRow
  BY NoRefreshIsTyped DEF PositionParameters
<1>2. PositionTypeOK
  <2>1. cache \in [Matters -> CacheRow]
    BY <1>1 DEF PositionInit, CacheRow, NoRow
  <2> QED BY <1>1, <2>1 DEF PositionInit, PositionTypeOK
<1>3. ReadAsOf(NoRefresh)
  BY <1>1 DEF PositionInit, NoRefresh, ReadAsOf
<1> QED BY <1>1, <1>2, <1>3 DEF PositionInit, PositionDiscipline

\* Every step keeps it.
LEMMA PositionsStay ==
  ASSUME PositionParameters, PositionDiscipline, [PositionNext]_positionVars
  PROVE  PositionDiscipline'
<1>1. ASSUME NEW m \in Matters, EditEntry(m) \/ CorrectPayment(m) \/ \E n \in Matters : LedgerTransfer(m, n)
      PROVE  PositionDiscipline'
  BY <1>1, DrawKeeps DEF EditEntry, CorrectPayment, LedgerTransfer
<1>2. ASSUME NEW j \in Refreshes, Recompute(j) \/ Verify(j)
      PROVE  PositionDiscipline'
  BY <1>2, ComputesKeeps, WritesKeeps, SameKeeps DEF Recompute, Verify, Diverged
<1>3. CASE UNCHANGED positionVars
  <2>1. UNCHANGED <<operationVars, cache, refresh>>
    BY <1>3 DEF positionVars, operationVars
  <2> QED BY <2>1 DEF PositionDiscipline, PositionTypeOK, AsOf, ReadAsOf, operationVars
<1> QED BY <1>1, <1>2, <1>3, CommitChangeKeeps, RollbackChangeKeeps, ReadFrontierKeeps, ListStaleKeeps,
           CommitRecomputeKeeps, ListSampleKeeps, CommitVerifyKeeps, FailKeeps DEF PositionNext

\* For any number of matters, recomputations and entries, and whatever the order the entries'
\* ids become visible in: what a recomputation read of a matter is its figure, unless an entry
\* past the frontier it read first names the matter, no entry names the last change, or that
\* change came behind a frontier already read (recomputePositionCache, verifyPositionCache).
THEOREM PositionDisciplineHolds == PositionParameters /\ PositionSpec => []PositionDiscipline
<1>1. ASSUME PositionParameters PROVE PositionSpec => []PositionDiscipline
  <2>1. PositionInit => PositionDiscipline
    BY <1>1, PositionsBegin
  <2>2. PositionDiscipline /\ [PositionNext]_positionVars => PositionDiscipline'
    BY <1>1, PositionsStay
  <2> QED BY <2>1, <2>2, PTL DEF PositionSpec
<1> QED BY <1>1

\* A row out of date is one the next recomputation lists, unless no entry named the change,
\* the change came behind a frontier already read, or the verifier wrote the row last.
THEOREM StaleRowsAreListed == PositionParameters /\ PositionSpec => []StaleIsListed
<1>1. PositionDiscipline => StaleIsListed
  BY DEF PositionDiscipline, AsOf, StaleIsListed, Stale
<1> QED BY <1>1, PositionDisciplineHolds, PTL

-----------------------------------------------------------------------------
(* The payment details: their rows. *)

\* A nonempty set of the numbers up to n has a largest.
LEMMA LargestIsMember ==
  ASSUME NEW n \in Nat, NEW S \in SUBSET (1..n), S # {}
  PROVE  Max(S) \in S
<1> DEFINE T == {k \in Nat : \E x \in S : k = n - x}
<1>1. PICK y \in S : TRUE
  OBVIOUS
<1>2. n - y \in T
  OBVIOUS
<1>3. PICK k \in T : \A j \in T : k <= j
  <2> HIDE DEF T
  <2>1. T \in SUBSET Nat
    BY DEF T
  <2> QED BY <1>2, <2>1, LeastNatural
<1>4. PICK x \in S : k = n - x
  OBVIOUS
<1>5. ASSUME NEW z \in S PROVE x >= z
  <2>1. n - z \in T
    OBVIOUS
  <2>2. n - x <= n - z
    BY <1>3, <1>4, <2>1
  <2>3. x \in 1..n /\ z \in 1..n
    OBVIOUS
  <2> QED BY <2>2, <2>3
<1>6. \E w \in S : \A z \in S : w >= z
  BY <1>5
<1> QED BY <1>6 DEF Max

\* What governs is approved, and what the resolver answers governs or is nothing.
LEMMA Versions ==
  ASSUME TypeOK
  PROVE  /\ DOMAIN version = 1..Len(version) /\ Len(version) \in Nat
         /\ \A n \in DOMAIN version : version[n] \in Row
         /\ Governing \subseteq Approved /\ Approved \subseteq DOMAIN version
         /\ GoverningRow \in Governing \cup {0}
         /\ Approved # {} => Credited \in Approved
         /\ Credited = Max(Approved)
<1>1. version \in Seq(Row)
  BY DEF TypeOK
<1>2. DOMAIN version = 1..Len(version) /\ Len(version) \in Nat
  BY <1>1
<1>3. \A n \in DOMAIN version : version[n] \in Row
  BY <1>1, <1>2
<1>4. Governing \subseteq Approved /\ Approved \subseteq DOMAIN version
  BY DEF Governing, Approved
<1>5. Governing # {} => Max(Governing) \in Governing
  BY <1>2, <1>4, LargestIsMember
<1>6. Approved # {} => Max(Approved) \in Approved
  BY <1>2, <1>4, LargestIsMember
<1> QED BY <1>2, <1>3, <1>4, <1>5, <1>6 DEF GoverningRow, Credited

-----------------------------------------------------------------------------
(* Steps that leave the versions alone. *)

\* Everything said of the versions is said of them alone.
LEMMA SameVersions ==
  ASSUME version' = version
  PROVE  /\ Pending' = Pending /\ Approved' = Approved /\ Governing' = Governing
         /\ GoverningRow' = GoverningRow /\ Credited' = Credited
BY DEF Pending, Approved, Governing, GoverningRow, Credited

\* One person moves on, takes locks nobody else has, or lets his own go.
LEMMA JobStep ==
  ASSUME Parameters, Discipline, NEW s \in Staff, NEW j \in Job, job' = [job EXCEPT ![s] = j],
         version' = version, needsApproval' \in BOOLEAN,
         sent' \subseteq Approved \cup {0}, filed' \subseteq Approved,
         lock' \in [Numbers -> Staff \cup {NoOne}],
         \A t \in Staff \ {s} : \A n \in DOMAIN version \cup {0} : lock[n] = t => lock'[n] = t,
         Clean(j), WritesWhatItHolds(s)'
  PROVE  Discipline'
<1>1. /\ Pending' = Pending /\ Approved' = Approved /\ Governing' = Governing
  BY SameVersions
<1>2. job' \in [Staff -> Job] /\ job'[s] = j /\ \A t \in Staff : t # s => job'[t] = job[t]
  BY DEF Discipline
<1>3. \A t \in Staff : job'[t].step \in {"idle", "save_pending", "save_approved", "approve", "written", "send"}
  BY <1>2 DEF Job
<1>4. Approved \cup {0} \subseteq Numbers
  <2>1. TypeOK
    BY DEF Discipline
  <2>2. DOMAIN version = 1..Len(version) /\ Len(version) \in Nat /\ Approved \subseteq DOMAIN version
    BY <2>1, Versions
  <2>3. Len(version) <= MaxVersions
    BY <2>1 DEF TypeOK
  <2> QED BY <2>2, <2>3 DEF Numbers, Parameters
<1>5. TypeOK'
  BY <1>3, <1>4 DEF Discipline, TypeOK
<1>6. \A t \in Staff : Clean(job[t])'
  BY <1>1, <1>2 DEF Discipline, Clean
<1>7. ASSUME NEW t \in Staff PROVE WritesWhatItHolds(t)'
  <2>1. CASE t = s
    BY <2>1
  <2>2. CASE t # s
    <3>1. job'[t] = job[t] /\ WritesWhatItHolds(t)
      BY <1>2, <2>2 DEF Discipline
    <3>2. New(job[t], "pending")' = New(job[t], "pending") /\ New(job[t], "approved")' = New(job[t], "approved")
      BY <3>1 DEF New
    <3>3. Succeeds(t, job[t]) => Succeeds(t, job[t])'
      BY <1>1, <2>2, <3>1, <3>2 DEF Succeeds, Pending, Governing, Approved
    <3> QED BY <3>1, <3>2, <3>3, <2>2 DEF WritesWhatItHolds, AddsPending
  <2> QED BY <2>1, <2>2
<1> QED BY <1>1, <1>2, <1>5, <1>6, <1>7 DEF Discipline, OneSuccessor

\* The numbers of the versions, and zero, are rows that can be locked.
LEMMA LockedRows ==
  ASSUME Parameters, TypeOK
  PROVE  DOMAIN version \cup {0} \subseteq Numbers
<1>1. DOMAIN version = 1..Len(version) /\ Len(version) \in Nat
  BY Versions
<1>2. Len(version) <= MaxVersions
  BY DEF TypeOK
<1> QED BY <1>1, <1>2 DEF Numbers, Parameters

\* What a job can hold, as members of the types it is declared with.
LEMMA JobParts ==
  /\ << >> \in Seq(Row)
  /\ \A r \in Row : <<r>> \in Seq(Row)
  /\ \A x \in Nat : {x} \ {0} \in SUBSET Nat
  /\ {} \in SUBSET Nat
OBVIOUS

\* A transaction begins with what it reads of the versions, and no lock.
LEMMA StartKeeps ==
  ASSUME Parameters, Discipline, NEW s \in Staff, NEW step, NEW n \in Nat, Starts(s, step, n),
         (step \in {"save_pending", "save_approved"} /\ n = 0) \/ step = "approve"
  PROVE  Discipline'
<1> DEFINE j == [NoJob EXCEPT !.step = step, !.approves = n, !.before = {GoverningRow} \ {0}]
<1>1. GoverningRow \in Nat
  <2>1. DOMAIN version \subseteq Nat
    BY Versions DEF Discipline
  <2> QED BY <2>1, Versions DEF Discipline
<1>2. j \in Job /\ Clean(j) /\ j.step # "written"
  <2>1. {GoverningRow} \ {0} \in SUBSET Nat
    BY <1>1, JobParts
  <2> QED BY <2>1, JobParts DEF Job, NoJob, Clean
<1>3. job' = [job EXCEPT ![s] = j] /\ UNCHANGED <<rows, lock>>
  BY DEF Starts, Becomes
<1> HIDE DEF j
<1>4. job'[s] = j
  BY <1>3 DEF Discipline
<1>5. WritesWhatItHolds(s)'
  BY <1>2, <1>4 DEF WritesWhatItHolds
<1> QED BY <1>2, <1>3, <1>5, JobStep DEF rows, Discipline, TypeOK

\* A transaction that fails lets go of what it held.
LEMMA AbortKeeps ==
  ASSUME Parameters, Discipline, NEW s \in Staff, Abort(s)
  PROVE  Discipline'
<1>1. NoJob \in Job /\ Clean(NoJob) /\ NoJob.step # "written"
  BY DEF Job, NoJob, Clean
<1>2. job' = [job EXCEPT ![s] = NoJob] /\ UNCHANGED rows /\ Frees(s)
  BY DEF Abort, Becomes
<1>3. WritesWhatItHolds(s)'
  BY <1>1, <1>2 DEF WritesWhatItHolds, Discipline
<1>4. lock' \in [Numbers -> Staff \cup {NoOne}]
  BY <1>2 DEF Frees, Discipline, TypeOK
<1>5. DOMAIN version \cup {0} \subseteq Numbers
  BY LockedRows DEF Discipline
<1>6. \A t \in Staff \ {s} : \A n \in DOMAIN version \cup {0} : lock[n] = t => lock'[n] = t
  BY <1>2, <1>5 DEF Frees
<1> QED BY <1>1, <1>2, <1>3, <1>4, <1>6, JobStep DEF rows, Discipline, TypeOK

\* A statement takes its locks when nobody else holds one of them.
LEMMA TakesItsLocks ==
  ASSUME Parameters, TypeOK, NEW s \in Staff, NEW ns, Mine(s, ns), Holds(s, ns)
  PROVE  /\ lock' \in [Numbers -> Staff \cup {NoOne}]
         /\ \A n \in ns \cap Numbers : lock'[n] = s
         /\ \A t \in Staff \ {s} : \A n \in DOMAIN version \cup {0} : lock[n] = t => lock'[n] = t
<1>1. DOMAIN version \cup {0} \subseteq Numbers
  BY LockedRows
<1> QED BY <1>1 DEF Mine, Holds, TypeOK, Parameters

\* A pending version is written by whoever holds the next number.
LEMMA SavePendingKeeps ==
  ASSUME Parameters, Discipline, NEW s \in Staff, SavePending(s)
  PROVE  Discipline'
<1> DEFINE r == [state |-> "pending", author |-> s, superseded |-> FALSE]
           j == [job[s] EXCEPT !.step = "written", !.ends = {}, !.adds = <<r>>]
<1>1. job' = [job EXCEPT ![s] = j] /\ UNCHANGED rows
  BY DEF SavePending, Insert, Becomes
<1>2. r \in Row
  BY DEF Row
<1>3. job[s] \in Job /\ job[s].approves = 0
  BY DEF Discipline, Clean, SavePending
<1>4. j \in Job /\ j.step = "written" /\ j.approves = 0 /\ j.ends = {} /\ j.adds = <<r>>
  <2>1. <<r>> \in Seq(Row)
    BY <1>2
  <2> HIDE DEF r
  <2> QED BY <1>3, <2>1 DEF Job
<1>5. New(j, "pending")
  BY <1>2, <1>4 DEF New
<1> HIDE DEF j
<1>6. job'[s] = j
  BY <1>1 DEF Discipline
<1>7. Mine(s, {0}) /\ Holds(s, {0}) /\ Len(version) < MaxVersions
  BY DEF SavePending, Insert
<1>8. /\ lock' \in [Numbers -> Staff \cup {NoOne}] /\ lock'[0] = s
      /\ \A t \in Staff \ {s} : \A n \in DOMAIN version \cup {0} : lock[n] = t => lock'[n] = t
  <2>1. 0 \in Numbers
    BY LockedRows DEF Discipline
  <2> QED BY <1>7, <2>1, TakesItsLocks DEF Discipline
<1>9. AddsPending(job'[s])
  BY <1>4, <1>5, <1>6 DEF AddsPending
<1>10. WritesWhatItHolds(s)'
  BY <1>1, <1>7, <1>8, <1>9 DEF WritesWhatItHolds, rows, AddsPending, New
<1>11. Clean(j)
  BY <1>4 DEF Clean
<1> QED BY <1>1, <1>4, <1>8, <1>10, <1>11, JobStep DEF rows, Discipline, TypeOK

\* An approved version is written by whoever holds what governs.
LEMMA SaveApprovedKeeps ==
  ASSUME Parameters, Discipline, NEW s \in Staff, SaveApproved(s)
  PROVE  Discipline'
<1> DEFINE r == [state |-> "approved", author |-> s, superseded |-> FALSE]
           j == [job[s] EXCEPT !.step = "written", !.ends = Governing, !.adds = <<r>>]
           ns == {0} \cup job[s].before \cup Governing
<1>1. job' = [job EXCEPT ![s] = j] /\ UNCHANGED rows
  BY DEF SaveApproved, Insert, Becomes
<1>2. r \in Row
  BY DEF Row
<1>3. job[s] \in Job /\ job[s].approves = 0
  BY DEF Discipline, Clean, SaveApproved
<1>4. Governing \subseteq Approved /\ Approved \subseteq DOMAIN version /\ DOMAIN version \subseteq Nat
  BY Versions DEF Discipline
<1>5. j \in Job /\ j.step = "written" /\ j.approves = 0 /\ j.ends = Governing /\ j.adds = <<r>>
  <2>1. <<r>> \in Seq(Row) /\ Governing \in SUBSET Nat
    BY <1>2, <1>4
  <2> HIDE DEF r
  <2> QED BY <1>3, <2>1 DEF Job
<1>6. New(j, "approved") /\ Clean(j)
  BY <1>2, <1>5 DEF New, Clean
<1> HIDE DEF j
<1>7. job'[s] = j
  BY <1>1 DEF Discipline
<1>8. Mine(s, ns) /\ Holds(s, ns) /\ Len(version) < MaxVersions
  BY DEF SaveApproved, Insert, Mine
<1>9. /\ lock' \in [Numbers -> Staff \cup {NoOne}] /\ \A n \in Governing \cup {0} : lock'[n] = s
      /\ \A t \in Staff \ {s} : \A n \in DOMAIN version \cup {0} : lock[n] = t => lock'[n] = t
  <2>1. Governing \cup {0} \subseteq ns \cap Numbers
    BY <1>4, LockedRows DEF Discipline
  <2> HIDE DEF ns
  <2> QED BY <1>8, <2>1, TakesItsLocks DEF Discipline
<1>10. Governing' = Governing /\ Approved' = Approved
  BY <1>1, SameVersions DEF rows
<1>11. Succeeds(s, job[s])'
  BY <1>4, <1>5, <1>6, <1>7, <1>9, <1>10 DEF Succeeds, New
<1>12. WritesWhatItHolds(s)'
  BY <1>1, <1>8, <1>9, <1>11 DEF WritesWhatItHolds, rows
<1> QED BY <1>1, <1>5, <1>6, <1>9, <1>12, JobStep DEF rows, Discipline, TypeOK

\* A pending version is approved by whoever holds it and what governs.
LEMMA ApproveKeeps ==
  ASSUME Parameters, Discipline, NEW s \in Staff, Approve(s)
  PROVE  Discipline'
<1> DEFINE j == [job[s] EXCEPT !.step = "written", !.ends = Governing]
           ns == {job[s].approves} \cup job[s].before \cup Governing
<1>1. job' = [job EXCEPT ![s] = j] /\ UNCHANGED rows
  BY DEF Approve, Becomes
<1>2. job[s] \in Job /\ job[s].approves \in Pending /\ job[s].adds = << >>
  BY DEF Discipline, Clean, Approve
<1>3. Governing \subseteq Approved /\ Approved \subseteq DOMAIN version /\ DOMAIN version \subseteq Nat
  BY Versions DEF Discipline
<1>4. j \in Job /\ j.step = "written" /\ j.approves = job[s].approves /\ j.ends = Governing /\ j.adds = << >>
  BY <1>2, <1>3 DEF Job
<1>5. Clean(j)
  BY <1>4 DEF Clean
<1> HIDE DEF j
<1>6. job'[s] = j
  BY <1>1 DEF Discipline
<1>7. Mine(s, ns) /\ Holds(s, ns)
  BY DEF Approve
<1>8. /\ lock' \in [Numbers -> Staff \cup {NoOne}] /\ \A n \in Governing \cup {job[s].approves} : lock'[n] = s
      /\ \A t \in Staff \ {s} : \A n \in DOMAIN version \cup {0} : lock[n] = t => lock'[n] = t
  <2>1. Governing \cup {job[s].approves} \subseteq ns \cap Numbers
    BY <1>2, <1>3, LockedRows DEF Discipline, Pending
  <2> HIDE DEF ns
  <2> QED BY <1>7, <2>1, TakesItsLocks DEF Discipline
<1>9. Governing' = Governing /\ Approved' = Approved /\ Pending' = Pending
  BY <1>1, SameVersions DEF rows
<1>10. Succeeds(s, job[s])'
  BY <1>2, <1>3, <1>4, <1>6, <1>8, <1>9 DEF Succeeds
<1>11. WritesWhatItHolds(s)'
  BY <1>4, <1>6, <1>10 DEF WritesWhatItHolds
<1> QED BY <1>1, <1>4, <1>5, <1>8, <1>11, JobStep DEF rows, Discipline, TypeOK

\* A bill goes out with the version that governed when it was resolved.
LEMMA StartSendKeeps ==
  ASSUME Parameters, Discipline, NEW s \in Staff, StartSend(s)
  PROVE  Discipline'
<1> DEFINE j == [NoJob EXCEPT !.step = "send", !.approves = Resolved]
<1>1. Resolved \in Approved \cup {0} /\ DOMAIN version \subseteq Nat /\ Approved \subseteq DOMAIN version
  BY Versions DEF Discipline, Resolved
<1>2. j \in Job /\ Clean(j) /\ j.step # "written"
  <2>1. Resolved \in Nat
    BY <1>1
  <2> QED BY <1>1, <2>1, JobParts DEF Job, NoJob, Clean
<1>3. job' = [job EXCEPT ![s] = j] /\ UNCHANGED <<rows, lock>>
  BY DEF StartSend, Becomes
<1> HIDE DEF j
<1>4. WritesWhatItHolds(s)'
  BY <1>2, <1>3 DEF WritesWhatItHolds, Discipline
<1> QED BY <1>2, <1>3, <1>4, JobStep DEF rows, Discipline, TypeOK

\* A bill is sent with the account read for it.
LEMMA SendBillKeeps ==
  ASSUME Parameters, Discipline, NEW s \in Staff, SendBill(s)
  PROVE  Discipline'
<1>1. NoJob \in Job /\ Clean(NoJob) /\ NoJob.step # "written"
  BY DEF Job, NoJob, Clean
<1>2. job' = [job EXCEPT ![s] = NoJob] /\ UNCHANGED <<version, needsApproval, filed, lock>>
  BY DEF SendBill, Becomes
<1>3. WritesWhatItHolds(s)'
  BY <1>1, <1>2 DEF WritesWhatItHolds, Discipline
<1>4. sent' \subseteq Approved \cup {0}
  BY DEF SendBill, Discipline, Clean
<1> QED BY <1>1, <1>2, <1>3, <1>4, JobStep DEF Discipline, TypeOK

-----------------------------------------------------------------------------
(* The commit, where one version ends and another governs. *)

\* A sequence and one more.
LEMMA OneMore ==
  ASSUME NEW T, NEW b \in Seq(T), NEW r \in T
  PROVE  /\ b \o <<r>> \in Seq(T) /\ Len(b \o <<r>>) = Len(b) + 1 /\ Len(<<r>>) = 1
         /\ \A n \in 1..Len(b) : (b \o <<r>>)[n] = b[n]
         /\ (b \o <<r>>)[Len(b) + 1] = r
OBVIOUS

\* The rows after a commit: those that ended are superseded, the one approved is
\* approved, and what was written is the last.
LEMMA CommittedRows ==
  ASSUME Parameters, Discipline, NEW s \in Staff, Commit(s)
  PROVE  /\ version' \in Seq(Row) /\ Len(version') = Len(version) + Len(job[s].adds)
         /\ \A n \in DOMAIN version :
              /\ version'[n].state = IF n = job[s].approves THEN "approved" ELSE version[n].state
              /\ version'[n].superseded =
                   (version[n].superseded \/ (n # job[s].approves /\ n \in job[s].ends))
         /\ \A r \in Row : job[s].adds = <<r>> => version'[Len(version) + 1] = r
         /\ job[s].adds = << >> \/ \E r \in Row : job[s].adds = <<r>>
<1> DEFINE j == job[s]
           After(n) == IF n = j.approves THEN [version[n] EXCEPT !.state = "approved"]
                       ELSE [version[n] EXCEPT !.superseded = @ \/ n \in j.ends]
           L == Len(version)
           base == [n \in 1..L |-> After(n)]
<1>1. DOMAIN version = 1..L /\ L \in Nat /\ \A n \in DOMAIN version : version[n] \in Row
  BY Versions DEF Discipline
<1>2. version' = base \o j.adds
  BY <1>1 DEF Commit
<1>3. ASSUME NEW n \in 1..L
      PROVE  /\ After(n) \in Row
             /\ After(n).state = IF n = j.approves THEN "approved" ELSE version[n].state
             /\ After(n).superseded = (version[n].superseded \/ (n # j.approves /\ n \in j.ends))
  <2>1. version[n] \in Row
    BY <1>1
  <2> QED BY <2>1 DEF Row
<1>4. j.adds = << >> \/ \E r \in Row : j.adds = <<r>>
  BY DEF Discipline, WritesWhatItHolds, Commit, AddsPending, Succeeds, New
<1>5. base \in Seq(Row) /\ Len(base) = L
  <2> HIDE DEF After
  <2> QED BY <1>1, <1>3
<1>6. \A n \in 1..L : base[n] = After(n)
  OBVIOUS
<1> HIDE DEF base, After, j
<1>7. CASE j.adds = << >>
  <2>1. version' = base /\ Len(j.adds) = 0
    BY <1>2, <1>5, <1>7
  <2>2. \A r \in Row : j.adds # <<r>>
    BY <1>7
  <2> QED BY <1>1, <1>3, <1>5, <1>6, <1>7, <2>1, <2>2 DEF j
<1>8. ASSUME NEW r \in Row, j.adds = <<r>>
      PROVE  /\ version' \in Seq(Row) /\ Len(version') = L + Len(j.adds)
             /\ \A n \in 1..L : version'[n] = After(n)
             /\ version'[L + 1] = r
  <2>1. /\ base \o <<r>> \in Seq(Row) /\ Len(base \o <<r>>) = L + 1 /\ Len(<<r>>) = 1
        /\ \A n \in 1..L : (base \o <<r>>)[n] = base[n]
        /\ (base \o <<r>>)[L + 1] = r
    BY <1>5, OneMore
  <2>2. version' = base \o <<r>> /\ Len(j.adds) = 1
    BY <1>2, <1>8, <2>1
  <2> QED BY <1>6, <2>1, <2>2
<1>9. CASE \E r \in Row : j.adds = <<r>>
  <2>1. PICK r \in Row : j.adds = <<r>>
    BY <1>9
  <2>2. \A q \in Row : j.adds = <<q>> => q = r
    BY <2>1
  <2>3. /\ version' \in Seq(Row) /\ Len(version') = L + Len(j.adds)
        /\ \A n \in 1..L : version'[n] = After(n)
        /\ version'[L + 1] = r
    BY <1>8, <2>1
  <2> QED BY <1>1, <1>3, <2>1, <2>2, <2>3 DEF j
<1> QED BY <1>4, <1>7, <1>9

\* What pends and what governs after a commit.
LEMMA CommittedVersions ==
  ASSUME Parameters, Discipline, NEW s \in Staff, Commit(s)
  PROVE  /\ Approved \subseteq Approved' /\ 0 \notin DOMAIN version
         /\ \A n \in Pending : n # job[s].approves => n \in Pending'
         /\ AddsPending(job[s]) => Governing' = Governing
         /\ Recorded /\ Succeeds(s, job[s]) => \E n \in DOMAIN version' : Governing' = {n}
         /\ \A n \in Pending' : ~version'[n].superseded
         /\ Len(version') <= MaxVersions /\ DOMAIN version' = 1..Len(version')
         /\ job[s].adds = << >> => Len(version') = Len(version)
<1> DEFINE L == Len(version)  j == job[s]
<1>1. DOMAIN version = 1..L /\ L \in Nat /\ \A n \in DOMAIN version : version[n] \in Row
  BY Versions DEF Discipline
<1>2. /\ version' \in Seq(Row) /\ Len(version') = L + Len(j.adds)
      /\ \A n \in 1..L :
           /\ version'[n].state = IF n = j.approves THEN "approved" ELSE version[n].state
           /\ version'[n].superseded = (version[n].superseded \/ (n # j.approves /\ n \in j.ends))
      /\ \A r \in Row : j.adds = <<r>> => version'[L + 1] = r
  BY <1>1, CommittedRows
<1>3. DOMAIN version' = 1..Len(version') /\ \A n \in DOMAIN version' : version'[n] \in Row
  BY <1>2
<1>4. /\ AddsPending(j) \/ Succeeds(s, j)
      /\ j.adds # << >> => Len(version) < MaxVersions
      /\ \A n \in Pending : ~version[n].superseded
      /\ Len(version) <= MaxVersions
  BY DEF Discipline, WritesWhatItHolds, Commit, TypeOK
<1>5. j.adds = << >> => DOMAIN version' = 1..L /\ Len(version') = L
  BY <1>1, <1>2, <1>3
<1>6. \A r \in Row : j.adds = <<r>> =>
         DOMAIN version' = 1..L \cup {L + 1} /\ L + 1 \notin 1..L /\ Len(version') = L + 1
  <2>1. ASSUME NEW r \in Row, j.adds = <<r>> PROVE Len(version') = L + 1
    BY <1>2, <2>1
  <2>2. 1..(L + 1) = 1..L \cup {L + 1} /\ L + 1 \notin 1..L
    BY <1>1
  <2>3. DOMAIN version' = 1..Len(version')
    BY <1>3
  <2> HIDE DEF L, j
  <2> QED BY <2>1, <2>2, <2>3
<1>7. MaxVersions \in Nat
  BY DEF Parameters
<1>0. 0 \notin DOMAIN version
  BY <1>1
<1> HIDE DEF L, j
<1>8. CASE AddsPending(j)
  <2>1. PICK r \in Row : r.state = "pending" /\ ~r.superseded /\ j.adds = <<r>>
    BY <1>8 DEF AddsPending, New
  <2>2. \A n \in 1..L : version'[n].state = version[n].state /\ version'[n].superseded = version[n].superseded
    <3> SUFFICES ASSUME NEW n \in 1..L
                 PROVE  version'[n].state = version[n].state /\ version'[n].superseded = version[n].superseded
      OBVIOUS
    <3>1. n # j.approves /\ n \notin j.ends
      BY <1>1, <1>8 DEF AddsPending
    <3>2. /\ version'[n].state = version[n].state
          /\ version'[n].superseded = (version[n].superseded \/ FALSE)
      BY <1>2, <3>1
    <3>3. version[n].superseded \in BOOLEAN
      BY <1>1 DEF Row
    <3> QED BY <3>2, <3>3
  <2>3. version'[L + 1] = r /\ DOMAIN version' = 1..L \cup {L + 1} /\ L + 1 \notin 1..L
    <3>1. r \in Row /\ j.adds = <<r>>
      BY <2>1
    <3>2. DOMAIN version' = 1..L \cup {L + 1} /\ L + 1 \notin 1..L
      BY <1>6, <3>1
    <3>3. version'[L + 1] = r
      <4>1. \A q \in Row : j.adds = <<q>> => version'[L + 1] = q
        BY <1>2
      <4> QED BY <3>1, <4>1, ZenonT(30)
    <3> QED BY <3>2, <3>3
  <2>4. Pending' = Pending \cup {L + 1}
    BY <1>1, <2>1, <2>2, <2>3 DEF Pending
  <2>5. Approved' = Approved
    BY <1>1, <2>3, <2>4 DEF Approved, Pending
  <2>6. Governing' = Governing
    BY <1>1, <2>2, <2>5 DEF Governing, Approved
  <2>7. \A n \in Pending' : ~version'[n].superseded
    BY <1>1, <1>4, <2>1, <2>2, <2>3, <2>4 DEF Pending
  <2>8. ~Succeeds(s, j)
    <3>1. ~New(j, "approved") /\ j.adds # << >>
      <4>1. \A q \in Row : j.adds = <<q>> => q = r
        BY <2>1
      <4> QED BY <2>1, <4>1 DEF New
    <3> QED BY <3>1 DEF Succeeds
  <2>9. Len(version') <= MaxVersions /\ j.adds # << >>
    BY <1>1, <1>4, <1>6, <1>7, <2>1 DEF L
  <2>10. \A n \in Pending : n \in Pending'
    BY <2>4
  <2> QED BY <1>0, <1>3, <1>8, <2>5, <2>6, <2>7, <2>8, <2>9, <2>10, Zenon DEF j
<1>9. CASE Succeeds(s, j) /\ j.adds # << >>
  <2>1. PICK r \in Row : r.state = "approved" /\ ~r.superseded /\ j.adds = <<r>>
    BY <1>9 DEF Succeeds, New
  <2>2. j.approves = 0 /\ j.ends \subseteq Approved /\ Approved \subseteq 1..L
    BY <1>1, <1>9 DEF Succeeds, Approved
  <2>3. \A n \in 1..L : version'[n].state = version[n].state
    BY <1>1, <1>2, <2>2
  <2>4. \A n \in 1..L : version'[n].superseded = (version[n].superseded \/ n \in j.ends)
    BY <1>1, <1>2, <2>2
  <2>5. version'[L + 1] = r /\ DOMAIN version' = 1..L \cup {L + 1} /\ L + 1 \notin 1..L
    BY <1>2, <1>6, <2>1
  <2>6. Pending' = Pending
    BY <1>1, <2>1, <2>3, <2>5 DEF Pending
  <2>7. Approved' = Approved \cup {L + 1}
    BY <1>1, <2>5, <2>6 DEF Approved, Pending
  <2>8. Governing' = (Governing \ j.ends) \cup {L + 1}
    BY <1>1, <2>1, <2>2, <2>4, <2>5, <2>7 DEF Governing, Approved
  <2>9. \A n \in Pending' : ~version'[n].superseded
    <3>1. Pending \subseteq 1..L /\ Pending \cap Approved = {}
      BY <1>1 DEF Pending, Approved
    <3> QED BY <1>4, <2>2, <2>4, <2>6, <3>1
  <2>10. Recorded => Governing' = {L + 1}
    BY <1>9, <2>8 DEF Succeeds
  <2>11. ~AddsPending(j)
    <3>1. \A q \in Row : j.adds = <<q>> => q = r
      BY <2>1
    <3> QED BY <2>1, <3>1 DEF AddsPending, New
  <2>12. Len(version') <= MaxVersions
    BY <1>1, <1>4, <1>6, <1>7, <2>1, <1>9 DEF L
  <2>13. Approved \subseteq Approved' /\ L + 1 \in DOMAIN version'
    BY <2>5, <2>7
  <2> QED BY <1>0, <1>3, <1>9, <2>6, <2>9, <2>10, <2>11, <2>12, <2>13, Zenon DEF j
<1>10. CASE Succeeds(s, j) /\ j.adds = << >>
  <2>1. j.approves \in Pending /\ j.ends \subseteq Approved
    <3>1. ~New(j, "approved")
      BY <1>10 DEF New
    <3> QED BY <1>10, <3>1 DEF Succeeds
  <2>2. DOMAIN version' = 1..L /\ Len(version') = L
    BY <1>5, <1>10
  <2>3. Pending' = Pending \ {j.approves}
    BY <1>1, <1>2, <2>1, <2>2 DEF Pending
  <2>4. Approved' = Approved \cup {j.approves}
    BY <1>1, <2>1, <2>2, <2>3 DEF Approved, Pending
  <2>5. ~version[j.approves].superseded /\ j.approves \in 1..L
    BY <1>1, <1>4, <2>1 DEF Pending
  <2>6. \A n \in 1..L : n # j.approves => version'[n].superseded = (version[n].superseded \/ n \in j.ends)
    BY <1>2
  <2>7. ~version'[j.approves].superseded
    BY <1>2, <2>5
  <2>8. Governing' = (Governing \ j.ends) \cup {j.approves}
    BY <1>1, <2>1, <2>4, <2>5, <2>6, <2>7 DEF Governing, Approved, Pending
  <2>9. \A n \in Pending' : ~version'[n].superseded
    <3>1. Pending \subseteq 1..L /\ Pending \cap Approved = {}
      BY <1>1 DEF Pending, Approved
    <3> QED BY <1>4, <2>1, <2>3, <2>6, <3>1
  <2>10. Recorded => Governing' = {j.approves}
    BY <1>10, <2>8 DEF Succeeds
  <2>11. ~AddsPending(j)
    BY <1>10 DEF AddsPending, New
  <2> QED BY <1>1, <1>3, <1>4, <2>2, <2>3, <2>4, <2>5, <2>9, <2>10, <2>11 DEF j, L
<1> QED BY <1>4, <1>8, <1>9, <1>10 DEF j, L

\* Of two writers of a successor one would hold what the other holds, so a commit leaves
\* the others with what they had.
LEMMA CommitKeeps ==
  ASSUME Parameters, Discipline, NEW s \in Staff, Commit(s)
  PROVE  Discipline'
<1>1. /\ Approved \subseteq Approved' /\ 0 \notin DOMAIN version
      /\ \A n \in Pending : n # job[s].approves => n \in Pending'
      /\ AddsPending(job[s]) => Governing' = Governing
      /\ Recorded /\ Succeeds(s, job[s]) => \E n \in DOMAIN version' : Governing' = {n}
      /\ \A n \in Pending' : ~version'[n].superseded
      /\ Len(version') <= MaxVersions /\ DOMAIN version' = 1..Len(version')
      /\ job[s].adds = << >> => Len(version') = Len(version)
  BY CommittedVersions
<1>2. job' = [job EXCEPT ![s] = NoJob] /\ Frees(s) /\ UNCHANGED <<needsApproval, sent, filed>>
  BY DEF Commit, Becomes
<1>3. /\ job' \in [Staff -> Job] /\ job'[s] = NoJob /\ \A t \in Staff : t # s => job'[t] = job[t]
  <2>1. NoJob \in Job
    BY JobParts DEF Job, NoJob
  <2> QED BY <1>2, <2>1 DEF Discipline
<1>4. /\ AddsPending(job[s]) \/ Succeeds(s, job[s])
      /\ job[s].adds # << >> => lock[0] = s
  BY DEF Commit, Discipline, WritesWhatItHolds
<1>5. TypeOK'
  <2>1. version' \in Seq(Row)
    BY CommittedRows
  <2>2. lock' \in [Numbers -> Staff \cup {NoOne}]
    BY <1>2 DEF Frees, Discipline, TypeOK
  <2>3. \A t \in Staff : job'[t].step \in {"idle", "save_pending", "save_approved", "approve", "written", "send"}
    BY <1>3 DEF Job
  <2> QED BY <1>1, <1>2, <2>1, <2>2, <2>3 DEF TypeOK, Discipline
<1>6. \A t \in Staff : Clean(job[t])'
  <2>1. ASSUME NEW t \in Staff, t # s PROVE Clean(job[t])'
    BY <1>1, <1>3, <2>1 DEF Discipline, Clean
  <2>2. Clean(job[s])'
    BY <1>3 DEF Clean, NoJob
  <2> QED BY <2>1, <2>2
<1>7. OneSuccessor'
  <2>1. CASE AddsPending(job[s])
    BY <1>1, <2>1 DEF Discipline, OneSuccessor
  <2>2. CASE Recorded /\ Succeeds(s, job[s])
    BY <1>1, <2>2, FS_Singleton DEF OneSuccessor
  <2> QED BY <1>4, <2>1, <2>2 DEF OneSuccessor
<1>8. ASSUME NEW t \in Staff, t # s, job[t].step = "written" PROVE WritesWhatItHolds(t)'
  <2>1. /\ AddsPending(job[t]) \/ Succeeds(t, job[t])
        /\ job[t].adds # << >> => lock[0] = t /\ Len(version) < MaxVersions
    BY <1>8 DEF Discipline, WritesWhatItHolds
  <2>2. job'[t] = job[t]
    BY <1>3, <1>8
  <2>3. DOMAIN version \cup {0} \subseteq Numbers /\ Pending \subseteq DOMAIN version
        /\ Governing \subseteq DOMAIN version
    BY LockedRows DEF Discipline, Pending, Governing, Approved
  <2>4. \A n \in DOMAIN version \cup {0} : lock[n] = t => lock'[n] = t
    BY <1>2, <1>8, <2>3 DEF Frees
  <2>5. job[t].adds # << >> => lock'[0] = t /\ Len(version') < MaxVersions
    BY <1>1, <1>4, <1>8, <2>1, <2>4
  <2>6. New(job[t], "pending")' = New(job[t], "pending") /\ New(job[t], "approved")' = New(job[t], "approved")
    BY <2>2 DEF New
  <2>7. CASE AddsPending(job[t])
    BY <2>2, <2>5, <2>6, <2>7 DEF WritesWhatItHolds, AddsPending
  <2>8. CASE Succeeds(t, job[t])
    <3>1. Recorded => AddsPending(job[s])
      <4>1. SUFFICES ASSUME Recorded, Succeeds(s, job[s]) PROVE FALSE
        BY <1>4
      <4>2. PICK n : Governing = {n}
        <5>1. Cardinality(Governing) = 1
          BY <4>1 DEF Discipline, OneSuccessor
        <5>2. IsFiniteSet(1..Len(version)) /\ Governing \in SUBSET (1..Len(version))
          BY Versions, FS_Interval DEF Discipline
        <5>3. IsFiniteSet(Governing)
          BY <5>2, FS_Subset
        <5> QED BY <5>1, <5>3, FS_Singleton
      <4>3. lock[n] = s /\ lock[n] = t
        BY <2>8, <4>1, <4>2 DEF Succeeds
      <4> QED BY <1>8, <4>3
    <3>2. job[t].ends \subseteq Approved'
      BY <1>1, <2>8 DEF Succeeds
    <3>3. Recorded => job[t].ends = Governing' /\ \A n \in Governing' : lock'[n] = t
      BY <1>1, <2>3, <2>4, <2>8, <3>1 DEF Succeeds
    <3>4. job[t].approves \in Pending /\ lock[job[t].approves] = t =>
            job[t].approves \in Pending' /\ lock'[job[t].approves] = t
      <4>1. SUFFICES ASSUME job[t].approves \in Pending, lock[job[t].approves] = t,
                            job[t].approves = job[s].approves
                     PROVE  FALSE
        BY <1>1, <2>3, <2>4
      <4>2. job[s].approves # 0
        BY <1>1, <2>3, <4>1
      <4>3. lock[job[s].approves] = s
        BY <1>4, <4>2 DEF AddsPending, Succeeds
      <4> QED BY <1>8, <4>1, <4>3
    <3>5. Succeeds(t, job[t])'
      BY <2>2, <2>6, <2>8, <3>2, <3>3, <3>4 DEF Succeeds
    <3> QED BY <2>2, <2>5, <3>5 DEF WritesWhatItHolds
  <2> QED BY <2>1, <2>7, <2>8
<1>9. \A t \in Staff : WritesWhatItHolds(t)'
  BY <1>3, <1>8 DEF WritesWhatItHolds, NoJob
<1>10. (sent \subseteq Approved \cup {0} /\ filed \subseteq Approved)'
  BY <1>1, <1>2 DEF Discipline
<1> QED BY <1>1, <1>3, <1>5, <1>6, <1>7, <1>9, <1>10 DEF Discipline

-----------------------------------------------------------------------------
(* The invariant. *)

\* The firm starts with an account that governs, or with none.
LEMMA InitHolds ==
  ASSUME Parameters, Init
  PROVE  Discipline
<1>1. PICK s \in Staff : version = IF Recorded
        THEN <<[state |-> "approved", author |-> s, superseded |-> FALSE]>> ELSE << >>
  BY DEF Init
<1> DEFINE r == [state |-> "approved", author |-> s, superseded |-> FALSE]
<1>2. r \in Row /\ r.state = "approved" /\ ~r.superseded
  BY DEF Row
<1> HIDE DEF r
<1>3. Recorded => version = <<r>>
  BY <1>1 DEF r
<1>4. version \in Seq(Row) /\ Len(version) <= 1
        /\ (Recorded => DOMAIN version = {1} /\ version[1] = r) /\ (~Recorded => DOMAIN version = {})
  <2>1. CASE Recorded
    <3>1. <<r>> \in Seq(Row) /\ Len(<<r>>) = 1 /\ DOMAIN <<r>> = {1} /\ <<r>>[1] = r
      BY <1>2
    <3> QED BY <1>3, <2>1, <3>1
  <2>2. CASE ~Recorded
    BY <1>1, <2>2
  <2> QED BY <2>1, <2>2
<1>5. Pending = {} /\ (Recorded => Governing = {1})
  BY <1>2, <1>4 DEF Pending, Approved, Governing
<1>6. NoJob \in Job /\ Clean(NoJob) /\ NoJob.step = "idle"
  BY JobParts DEF Job, NoJob, Clean
<1>7. job = [p \in Staff |-> NoJob] /\ lock = [n \in Numbers |-> NoOne] /\ sent = {} /\ filed = {}
        /\ needsApproval \in BOOLEAN
  BY DEF Init
<1>8. TypeOK
  BY <1>4, <1>6, <1>7 DEF TypeOK, Parameters
<1>9. \A p \in Staff : Clean(job[p]) /\ WritesWhatItHolds(p)
  BY <1>6, <1>7 DEF WritesWhatItHolds
<1>10. OneSuccessor
  BY <1>5, FS_Singleton DEF OneSuccessor
<1> QED BY <1>5, <1>6, <1>7, <1>8, <1>9, <1>10 DEF Discipline

\* A bank file credits an approved version, and a changed setting moves no version.
LEMMA OthersKeep ==
  ASSUME Parameters, Discipline, SetNeedsApproval \/ HeldFundsRunAba
  PROVE  Discipline'
<1>1. /\ version' = version /\ lock' = lock /\ job' = job /\ sent' = sent
      /\ needsApproval' \in BOOLEAN /\ filed' \subseteq Approved
  BY Versions DEF SetNeedsApproval, HeldFundsRunAba, Discipline, TypeOK
<1>2. Pending' = Pending /\ Approved' = Approved /\ Governing' = Governing
  BY <1>1, SameVersions
<1>3. TypeOK'
  <2>1. Approved \subseteq Numbers
    BY Versions, LockedRows DEF Discipline
  <2> QED BY <1>1, <2>1 DEF TypeOK, Discipline
<1>4. \A s \in Staff : (Clean(job[s]) /\ WritesWhatItHolds(s))'
  BY <1>1, <1>2 DEF Discipline, Clean, WritesWhatItHolds, AddsPending, Succeeds, New
<1> QED BY <1>1, <1>2, <1>3, <1>4 DEF Discipline, OneSuccessor

\* Every step keeps it.
LEMMA NextKeeps ==
  ASSUME Parameters, Discipline, [Next]_vars
  PROVE  Discipline'
<1>1. CASE UNCHANGED vars
  <2>1. UNCHANGED <<version, needsApproval, sent, filed, lock, job>>
    BY <1>1 DEF vars, rows
  <2>2. Pending' = Pending /\ Approved' = Approved /\ Governing' = Governing
    BY <2>1, SameVersions
  <2>3. \A s \in Staff : (Clean(job[s]) /\ WritesWhatItHolds(s))'
    BY <2>1, <2>2 DEF Discipline, Clean, WritesWhatItHolds, AddsPending, Succeeds, New
  <2> QED BY <2>1, <2>2, <2>3 DEF Discipline, OneSuccessor, TypeOK
<1>2. ASSUME NEW s \in Staff, StartSave(s) PROVE Discipline'
  BY <1>2, StartKeeps DEF StartSave
<1>3. ASSUME NEW s \in Staff, NEW n \in 1..MaxVersions, StartApprove(s, n) PROVE Discipline'
  BY <1>3, StartKeeps DEF StartApprove
<1>4. CASE Next
  BY <1>2, <1>3, <1>4, SavePendingKeeps, SaveApprovedKeeps, ApproveKeeps, CommitKeeps, AbortKeeps,
     StartSendKeeps, SendBillKeeps, OthersKeep DEF Next
<1> QED BY <1>1, <1>4

\* Whatever is saved and approved at once, whoever has written a successor holds the
\* version that governs.
THEOREM SuccessorsTakeTurns == Parameters /\ Spec => []Discipline
<1>1. Parameters /\ Init => Discipline
  BY InitHolds
<1>2. Parameters /\ Discipline /\ [Next]_vars => Discipline'
  BY NextKeeps
<1>3. ASSUME Parameters PROVE Spec => []Discipline
  <2>1. Init => Discipline
    BY <1>1, <1>3
  <2>2. Discipline /\ [Next]_vars => Discipline'
    BY <1>2, <1>3
  <2> QED BY <2>1, <2>2, PTL DEF Spec
<1> QED BY <1>3

\* No account awaiting its approval is ever given to a client or to the bank, and where
\* one governed exactly one does (paymentDetails.ts:94-95).
THEOREM AccountStaysApproved == Parameters /\ Spec => []AccountIsApproved
<1>1. Discipline => AccountIsApproved
  <2>1. ASSUME Discipline PROVE AccountIsApproved
    <3>1. 0 \notin Pending
      BY <2>1, Versions DEF Discipline, Pending
    <3>2. Approved \cap Pending = {}
      BY DEF Approved
    <3> QED BY <2>1, <3>1, <3>2 DEF Discipline, AccountIsApproved, NothingPendingGoesOut
  <2> QED BY <2>1
<1> QED BY <1>1, SuccessorsTakeTurns, PTL

-----------------------------------------------------------------------------
(* The bridge: no entry has two live journals. *)

\* A run posts only while no other has posted, and only what has no live journal.
LEMMA PostingKeeps ==
  ASSUME BridgeDiscipline, NEW r \in Runs, NEW e \in Entries, PostEntry(r, e)
  PROVE  BridgeDiscipline'
<1>1. /\ run \in [Runs -> [at : {"idle", "posting"}, todo : SUBSET Entries, posted : SUBSET Entries]]
      /\ live \in [Entries -> Nat]
  BY DEF BridgeDiscipline, BridgeTypeOK
<1>2. /\ run' = [run EXCEPT ![r] = [run[r] EXCEPT !.todo = @ \ {e},
                   !.posted = IF RefFree(e) /\ ~locked THEN @ \cup {e} ELSE @]]
      /\ UNCHANGED <<written, live, opener, openings, locked, reversals, crashes>>
  BY <1>1 DEF PostEntry
<1>3. \A q \in Runs \ {r} : run[q].posted = {} /\ run'[q] = run[q]
  BY <1>1, <1>2 DEF PostEntry, CounterFree
<1>4. /\ run'[r].at = run[r].at /\ run'[r].todo \in SUBSET Entries
      /\ run'[r].posted \in SUBSET (run[r].posted \cup {e}) /\ run'[r].posted \in SUBSET Entries
      /\ e \in run'[r].posted /\ e \notin run[r].posted => live[e] = 0
  BY <1>1, <1>2 DEF RefFree
<1>5. run' \in [Runs -> [at : {"idle", "posting"}, todo : SUBSET Entries, posted : SUBSET Entries]]
  BY <1>1, <1>2, <1>4
<1>6. BridgeTypeOK'
  BY <1>2, <1>5 DEF BridgeDiscipline, BridgeTypeOK
<1>7. OnePosts'
  BY <1>3 DEF OnePosts
<1>8. PostsTheUnbridged'
  BY <1>2, <1>3, <1>4 DEF PostsTheUnbridged, BridgeDiscipline
<1>9. BridgedOnce'
  BY <1>2 DEF BridgedOnce, BridgeDiscipline
<1> QED BY <1>6, <1>7, <1>8, <1>9 DEF BridgeDiscipline

\* What a run has posted becomes live when it commits; nobody else has posted anything.
LEMMA CommitSyncKeeps ==
  ASSUME BridgeDiscipline, NEW r \in Runs, CommitSync(r)
  PROVE  BridgeDiscipline'
<1>1. /\ run \in [Runs -> [at : {"idle", "posting"}, todo : SUBSET Entries, posted : SUBSET Entries]]
      /\ live \in [Entries -> Nat]
  BY DEF BridgeDiscipline, BridgeTypeOK
<1>2. /\ live' = [e \in Entries |-> IF e \in run[r].posted THEN live[e] + 1 ELSE live[e]]
      /\ run' = [run EXCEPT ![r] = NoRun]
      /\ UNCHANGED <<written, opener, openings, locked, reversals, crashes>>
  BY DEF CommitSync
<1>3. live' \in [Entries -> Nat] /\ \A e \in Entries : live'[e] # live[e] => e \in run[r].posted
  BY <1>1, <1>2
<1>4. \A e \in run[r].posted : e \in Entries /\ live[e] = 0 /\ live'[e] = 1
  BY <1>1, <1>2 DEF BridgeDiscipline, PostsTheUnbridged
<1>5. /\ \A q \in Runs \ {r} : run'[q] = run[q]
      /\ run'[r].posted = {}
      /\ run' \in [Runs -> [at : {"idle", "posting"}, todo : SUBSET Entries, posted : SUBSET Entries]]
  BY <1>1, <1>2 DEF NoRun
<1>6. BridgeTypeOK'
  BY <1>2, <1>3, <1>5 DEF BridgeDiscipline, BridgeTypeOK
<1>7. OnePosts'
  BY <1>5 DEF BridgeDiscipline, OnePosts
<1>8. PostsTheUnbridged'
  <2> SUFFICES ASSUME NEW q \in Runs, NEW e \in run'[q].posted PROVE live'[e] = 0
    BY DEF PostsTheUnbridged
  <2>1. q # r /\ run'[q] = run[q] /\ e \in run[q].posted
    BY <1>5
  <2>2. run[r].posted = {}
    BY <2>1 DEF BridgeDiscipline, OnePosts
  <2>3. e \in Entries /\ live[e] = 0
    BY <1>1, <2>1 DEF BridgeDiscipline, PostsTheUnbridged
  <2> QED BY <1>3, <2>2, <2>3
<1>9. BridgedOnce'
  BY <1>1, <1>3, <1>4 DEF BridgedOnce, BridgeDiscipline
<1> QED BY <1>6, <1>7, <1>8, <1>9 DEF BridgeDiscipline

\* Entries are written and listed, runs die, journals are reversed when nothing is posted
\* and not committed, months are locked.
LEMMA AroundTheBridgeKeeps ==
  ASSUME BridgeParameters, BridgeDiscipline,
         \/ \E e \in Entries : AppendEntry(e) \/ ReverseBridged(e)
         \/ \E r \in Runs : GlSync(r) \/ Crash(r)
         \/ \E o \in Openers : CheckOpening(o) \/ PostOpeningBalances(o)
         \/ ReverseOpening \/ LockGlMonth
  PROVE  BridgeDiscipline'
<1> USE DEF BridgeParameters, BridgeDiscipline, BridgeTypeOK, BridgedOnce, OnePosts, PostsTheUnbridged
<1>1. ASSUME NEW e \in Entries, AppendEntry(e) PROVE BridgeDiscipline'
  BY <1>1 DEF AppendEntry
<1>2. ASSUME NEW e \in Entries, ReverseBridged(e) PROVE BridgeDiscipline'
  <2>1. /\ live' = [live EXCEPT ![e] = @ - 1] /\ reversals' = reversals + 1
        /\ \A r \in Runs : run[r].posted = {}
        /\ UNCHANGED <<written, run, opener, openings, locked, crashes>>
    BY <1>2 DEF ReverseBridged
  <2>2. live[e] = 1 /\ live' \in [Entries -> Nat] /\ \A d \in Entries : live'[d] <= live[d]
    BY <1>2, <2>1 DEF ReverseBridged
  <2>3. reversals' \in 0..MaxReversals
    BY <1>2, <2>1 DEF ReverseBridged
  <2> QED BY <2>1, <2>2, <2>3
<1>3. ASSUME NEW r \in Runs, GlSync(r) PROVE BridgeDiscipline'
  <2>1. /\ run' = [run EXCEPT ![r] = [NoRun EXCEPT !.at = "posting", !.todo = {e \in written : Unbridged(e)}]]
        /\ UNCHANGED <<written, live, opener, openings, locked, reversals, crashes>>
    BY <1>3 DEF GlSync
  <2>2. /\ run' \in [Runs -> [at : {"idle", "posting"}, todo : SUBSET Entries, posted : SUBSET Entries]]
        /\ run'[r].posted = {} /\ \A q \in Runs \ {r} : run'[q] = run[q]
    BY <2>1 DEF NoRun
  <2> QED BY <2>1, <2>2
<1>4. ASSUME NEW r \in Runs, Crash(r) PROVE BridgeDiscipline'
  <2>1. /\ run' = [run EXCEPT ![r] = NoRun] /\ crashes' \in 0..MaxCrashes
        /\ UNCHANGED <<written, live, opener, openings, locked, reversals>>
    BY <1>4 DEF Crash
  <2>2. /\ run' \in [Runs -> [at : {"idle", "posting"}, todo : SUBSET Entries, posted : SUBSET Entries]]
        /\ run'[r].posted = {} /\ \A q \in Runs \ {r} : run'[q] = run[q]
    BY <2>1 DEF NoRun
  <2> QED BY <2>1, <2>2
<1>5. ASSUME NEW o \in Openers, CheckOpening(o) \/ PostOpeningBalances(o) PROVE BridgeDiscipline'
  BY <1>5 DEF CheckOpening, PostOpeningBalances
<1>6. CASE ReverseOpening
  <2>1. /\ openings' \in Nat /\ reversals' \in 0..MaxReversals
        /\ UNCHANGED <<written, live, run, opener, locked, crashes>>
    BY <1>6 DEF ReverseOpening
  <2> QED BY <2>1
<1>7. CASE LockGlMonth
  BY <1>7 DEF LockGlMonth
<1> QED BY <1>1, <1>2, <1>3, <1>4, <1>5, <1>6, <1>7

\* The invariant of the bridge holds from the start and after every step.
THEOREM BridgeStaysInStep == BridgeParameters /\ BridgeSpec => []BridgeDiscipline
<1>1. BridgeParameters /\ BridgeInit => BridgeDiscipline
  <2> SUFFICES ASSUME BridgeParameters, BridgeInit PROVE BridgeDiscipline
    OBVIOUS
  <2>1. run = [r \in Runs |-> NoRun] /\ live = [e \in Entries |-> 0]
    BY DEF BridgeInit
  <2>2. run \in [Runs -> [at : {"idle", "posting"}, todo : SUBSET Entries, posted : SUBSET Entries]]
        /\ \A r \in Runs : run[r].posted = {}
    BY <2>1 DEF NoRun
  <2>3. BridgeTypeOK
    <3>1. /\ written \subseteq Entries /\ live \in [Entries -> Nat] /\ openings \in Nat
          /\ opener \in [Openers -> {"idle", "checked"}]
          /\ reversals \in 0..MaxReversals /\ crashes \in 0..MaxCrashes
      BY <2>1 DEF BridgeParameters, BridgeInit
    <3>2. locked \in BOOLEAN
      BY DEF BridgeInit
    <3> QED BY <2>2, <3>1, <3>2 DEF BridgeTypeOK
  <2>4. BridgedOnce
    BY <2>1 DEF BridgedOnce
  <2>5. OnePosts /\ PostsTheUnbridged
    BY <2>2 DEF OnePosts, PostsTheUnbridged
  <2> QED BY <2>3, <2>4, <2>5 DEF BridgeDiscipline
<1>2. ASSUME BridgeParameters, BridgeDiscipline, BridgeNext PROVE BridgeDiscipline'
  BY <1>2, PostingKeeps, CommitSyncKeeps, AroundTheBridgeKeeps DEF BridgeNext
<1>3. BridgeDiscipline /\ UNCHANGED bridgeVars => BridgeDiscipline'
  BY DEF bridgeVars, BridgeDiscipline, BridgeTypeOK, BridgedOnce, OnePosts, PostsTheUnbridged
<1>4. ASSUME BridgeParameters PROVE BridgeSpec => []BridgeDiscipline
  <2>1. BridgeInit => BridgeDiscipline
    BY <1>1, <1>4
  <2>2. BridgeDiscipline /\ [BridgeNext]_bridgeVars => BridgeDiscipline'
    BY <1>2, <1>3, <1>4
  <2> QED BY <2>1, <2>2, PTL DEF BridgeSpec
<1> QED BY <1>4

\* An entry has one live journal at most, though runs overlap, die and repeat and journals
\* are reversed under them (sync.ts:2-3).
THEOREM EntriesBridgeOnce == BridgeParameters /\ BridgeSpec => []BridgedOnce
<1>1. BridgeDiscipline => BridgedOnce
  BY DEF BridgeDiscipline
<1> QED BY <1>1, BridgeStaysInStep, PTL

-----------------------------------------------------------------------------
(* The office bank: a line is booked once, a bill is paid by its lines. *)

\* A step in hand has a known form.
LEMMA StepForms ==
  ASSUME NEW j \in Step
  PROVE  /\ j.at \in {"idle", "paying", "matching", "auto"}
         /\ j.at = "idle" <=> j = NoStep
         /\ j.at = "paying" => j.line \in Lines /\ j.bill \in Bills /\ j.paid \in Nat
         /\ j.at = "matching" => j.line \in Lines /\ j.journal \in Receipts
         /\ j.at = "auto" => j.todo \in SUBSET Ruled /\ j.posted \in SUBSET Lines
  BY DEF Step, NoStep

\* The rows of lines that stay as they are count the same for every bill.
LEMMA BillsStand ==
  ASSUME BankDiscipline, UNCHANGED bill,
         NEW L \in SUBSET Lines, \A l \in Lines \ L : line'[l] = line[l],
         \A l \in L : line[l].bill \notin Bills /\ line'[l].bill \notin Bills
  PROVE  PaidByItsLines'
<1> SUFFICES ASSUME NEW b \in Bills
             PROVE {l \in Lines : line'[l].bill = b} = {l \in Lines : line[l].bill = b}
  BY DEF BankDiscipline, PaidByItsLines
<1> QED OBVIOUS

\* Who has nothing in hand, and lines and bills that stay, leave the sessions' part alone.
LEMMA SessionLetsGo ==
  ASSUME BankDiscipline, NEW s \in Sessions, session' = [session EXCEPT ![s] = NoStep]
  PROVE  /\ session' \in [Sessions -> Step] /\ HeldApart'
         /\ \A q \in Sessions \ {s} : session'[q] = session[q] /\ Held(q)' = Held(q)
         /\ Held(s)' = {}
<1>1. session \in [Sessions -> Step]
  BY DEF BankDiscipline
<1>2. session'[s] = NoStep /\ \A q \in Sessions \ {s} : session'[q] = session[q]
  BY <1>1
<1>3. Held(s)' = {} /\ \A q \in Sessions \ {s} : Held(q)' = Held(q)
  BY <1>2 DEF Held, NoStep
<1>4. session' \in [Sessions -> Step]
  BY <1>1 DEF Step
<1>5. HeldApart'
  BY <1>3 DEF BankDiscipline, HeldApart
<1> QED BY <1>2, <1>3, <1>4, <1>5

\* A line nobody holds is settled or set aside without any session's knowing.
LEMMA FreeLineKeeps ==
  ASSUME BankParameters, BankDiscipline, NEW l \in Lines, \A q \in Sessions : l \notin Held(q),
         UNCHANGED <<bill, session>>,
         \A k \in Lines \ {l} : line'[k] = line[k]
  PROVE  session' \in [Sessions -> Step] /\ HeldApart' /\ HeldUnsettled' /\ PaysWhatItRead'
<1>1. \A q \in Sessions : Held(q)' = Held(q)
  BY DEF Held
<1>2. session \in [Sessions -> Step] /\ \A q \in Sessions : Held(q) \subseteq Lines
  <2>1. \A q \in Sessions : session[q] \in Step
    BY DEF BankDiscipline
  <2> QED BY <2>1, StepForms DEF BankDiscipline, Held
<1>3. HeldApart' /\ HeldUnsettled'
  BY <1>1, <1>2 DEF BankDiscipline, HeldApart, HeldUnsettled, Unsettled
<1>4. PaysWhatItRead'
  BY DEF BankDiscipline, PaysWhatItRead, BillFree
<1> QED BY <1>2, <1>3, <1>4

\* A line is booked or ignored at once by whoever finds it free and not settled.
LEMMA BookingKeeps ==
  ASSUME BankParameters, BankDiscipline, NEW s \in Sessions, NEW l \in Lines,
         Book(s, l) \/ ReconcileIgnore(s, l)
  PROVE  BankDiscipline'
<1>1. /\ line \in [Lines -> [status : {"none", "unmatched", "matched", "ignored"},
                             journal : Journals \cup {Blank}, bill : Bills \cup {Blank}]]
      /\ journal \in [Journals -> {"none", "posted", "reversed"}]
      /\ Blank \notin Journals /\ l \in Journals /\ Blank \notin Bills
  BY DEF BankDiscipline, BankTypeOK, BankParameters, Journals
<1>2. UNCHANGED <<bill, session>> /\ line[l].status = "unmatched" /\ session[s] = NoStep /\ LineFree(s, l)
  BY DEF Book, ReconcileIgnore, Unsettled
<1>3. \A q \in Sessions : l \notin Held(q)
  BY <1>2 DEF LineFree, Held, NoStep
<1>4. line[l].journal = Blank /\ line[l].bill = Blank
  BY <1>2 DEF BankDiscipline, OpenLinesAreBare
<1>5. \/ /\ line' = [line EXCEPT ![l] = [status |-> "matched", journal |-> l, bill |-> Blank]]
         /\ journal' = [journal EXCEPT ![l] = "posted"]
      \/ /\ line' = [line EXCEPT ![l].status = "ignored"] /\ UNCHANGED journal
  BY DEF Book, ReconcileIgnore, Settle
<1>6. /\ \A k \in Lines \ {l} : line'[k] = line[k]
      /\ \A j \in Journals \ {l} : journal'[j] = journal[j]
      /\ line'[l].bill = Blank
      /\ \/ line'[l].status = "matched" /\ line'[l].journal = l /\ journal'[l] = "posted"
         \/ line'[l].status = "ignored" /\ line'[l].journal = Blank /\ journal'[l] = journal[l]
  BY <1>1, <1>4, <1>5
<1>7. BankTypeOK'
  <2>1. line' \in [Lines -> [status : {"none", "unmatched", "matched", "ignored"},
                             journal : Journals \cup {Blank}, bill : Bills \cup {Blank}]]
        /\ journal' \in [Journals -> {"none", "posted", "reversed"}]
    BY <1>1, <1>5
  <2> QED BY <1>2, <2>1 DEF BankDiscipline, BankTypeOK
<1>8. session' \in [Sessions -> Step] /\ HeldApart' /\ HeldUnsettled' /\ PaysWhatItRead'
  BY <1>2, <1>3, <1>6, FreeLineKeeps
<1>9. OpenLinesAreBare' /\ BookedOnce'
  <2>1. \A k \in Lines \ {l} : k \in Journals \ {l}
    BY DEF Journals
  <2>2. journal[l] = "none"
    BY <1>1, <1>4 DEF BankDiscipline, BookedOnce
  <2> QED BY <1>1, <1>6, <2>1, <2>2 DEF BankDiscipline, OpenLinesAreBare, BookedOnce
<1>10. PaidByItsLines'
  <2>1. \A k \in {l} : line[k].bill \notin Bills /\ line'[k].bill \notin Bills
    BY <1>1, <1>4, <1>6
  <2> QED BY <1>2, <1>6, <2>1, BillsStand
<1> QED BY <1>7, <1>8, <1>9, <1>10 DEF BankDiscipline

\* Statements are imported, bills written, approved and voided, journals reversed: no line
\* that anybody has in hand changes, nor a bill that is being paid.
LEMMA BankAroundKeeps ==
  ASSUME BankParameters, BankDiscipline,
         \/ \E listed \in SUBSET Lines : ImportStatementRows(listed)
         \/ \E b \in Bills : CreateGlBill(b) \/ ApproveGlBill(b) \/ VoidGlBill(b)
         \/ \E j \in Journals : ReverseGlJournal(j)
  PROVE  BankDiscipline'
<1>1. /\ line \in [Lines -> [status : {"none", "unmatched", "matched", "ignored"},
                             journal : Journals \cup {Blank}, bill : Bills \cup {Blank}]]
      /\ bill \in [Bills -> [status : {"none", "draft", "approved", "paid", "void"}, paid : 0..Total]]
      /\ journal \in [Journals -> {"none", "posted", "reversed"}]
      /\ Blank \notin Journals /\ Blank \notin Bills /\ Lines \subseteq Journals /\ Lines \cap Bills = {}
      /\ Total \in Nat \ {0}
  BY DEF BankDiscipline, BankTypeOK, BankParameters, Journals
<1>2. session \in [Sessions -> Step] /\ \A q \in Sessions : Held(q) \subseteq Lines
  <2>1. \A q \in Sessions : session[q] \in Step
    BY DEF BankDiscipline
  <2> QED BY <2>1, StepForms DEF BankDiscipline, Held
<1>3. ASSUME NEW listed \in SUBSET Lines, ImportStatementRows(listed) PROVE BankDiscipline'
  <2>1. /\ line' = [l \in Lines |-> IF l \in listed /\ line[l] = NoLine
                                    THEN [NoLine EXCEPT !.status = "unmatched"] ELSE line[l]]
        /\ UNCHANGED <<bill, journal, session>>
    BY <1>3 DEF ImportStatementRows
  <2>2. \A l \in Lines : /\ line'[l].journal = line[l].journal /\ line'[l].bill = line[l].bill
                         /\ line[l].status = "none" \/ line'[l] = line[l]
                         /\ line'[l].status = line[l].status
                            \/ (line'[l].status = "unmatched" /\ line[l].journal = Blank /\ line[l].bill = Blank)
    <3> SUFFICES ASSUME NEW l \in Lines
                 PROVE  /\ line'[l].journal = line[l].journal /\ line'[l].bill = line[l].bill
                        /\ line[l].status = "none" \/ line'[l] = line[l]
                        /\ line'[l].status = line[l].status
                           \/ (line'[l].status = "unmatched" /\ line[l].journal = Blank /\ line[l].bill = Blank)
      OBVIOUS
    <3>1. CASE line'[l] = line[l]
      BY <1>1, <3>1
    <3>2. CASE line'[l] # line[l]
      <4>1. /\ line[l] = [status |-> "none", journal |-> Blank, bill |-> Blank]
            /\ line'[l] = [status |-> "unmatched", journal |-> Blank, bill |-> Blank]
        BY <2>1, <3>2 DEF NoLine
      <4> QED BY <4>1
    <3> QED BY <3>1, <3>2
  <2>3. line' \in [Lines -> [status : {"none", "unmatched", "matched", "ignored"},
                             journal : Journals \cup {Blank}, bill : Bills \cup {Blank}]]
    BY <1>1, <2>1 DEF NoLine
  <2>4. BankTypeOK'
    BY <2>1, <2>3 DEF BankDiscipline, BankTypeOK
  <2>5. \A q \in Sessions : Held(q)' = Held(q)
    BY <2>1 DEF Held
  <2>6. HeldApart' /\ HeldUnsettled'
    BY <1>2, <2>2, <2>5 DEF BankDiscipline, HeldApart, HeldUnsettled, Unsettled
  <2>7. PaysWhatItRead'
    BY <2>1 DEF BankDiscipline, PaysWhatItRead, BillFree
  <2>8. OpenLinesAreBare' /\ BookedOnce'
    BY <2>1, <2>2 DEF BankDiscipline, OpenLinesAreBare, BookedOnce
  <2>9. PaidByItsLines'
    <3>1. \A b \in Bills : {l \in Lines : line'[l].bill = b} = {l \in Lines : line[l].bill = b}
      BY <2>2
    <3> QED BY <2>1, <3>1 DEF BankDiscipline, PaidByItsLines
  <2> QED BY <1>2, <2>1, <2>4, <2>6, <2>7, <2>8, <2>9 DEF BankDiscipline
<1>4. ASSUME NEW b \in Bills, CreateGlBill(b) \/ ApproveGlBill(b) \/ VoidGlBill(b) PROVE BankDiscipline'
  <2>1. /\ UNCHANGED <<line, session>> /\ bill[b].status \in {"none", "draft"}
        /\ \E st \in {"draft", "approved", "void"} : bill' = [bill EXCEPT ![b].status = st]
        /\ journal' = journal \/ journal' = [journal EXCEPT ![b] = "posted"]
    BY <1>4 DEF CreateGlBill, ApproveGlBill, VoidGlBill
  <2>2. /\ \A c \in Bills : bill'[c].paid = bill[c].paid
        /\ \A c \in Bills \ {b} : bill'[c] = bill[c]
        /\ bill'[b].status \in {"draft", "approved", "void"}
        /\ bill' \in [Bills -> [status : {"none", "draft", "approved", "paid", "void"}, paid : 0..Total]]
    BY <1>1, <2>1
  <2>3. /\ \A l \in Lines : journal'[l] = journal[l]
        /\ journal' \in [Journals -> {"none", "posted", "reversed"}]
    BY <1>1, <2>1
  <2>4. BankTypeOK'
    BY <2>1, <2>2, <2>3 DEF BankDiscipline, BankTypeOK
  <2>5. \A q \in Sessions : Held(q)' = Held(q)
    BY <2>1 DEF Held
  <2>6. HeldApart' /\ HeldUnsettled'
    BY <1>2, <2>1, <2>5 DEF BankDiscipline, HeldApart, HeldUnsettled, Unsettled
  <2>7. PaysWhatItRead'
    <3> SUFFICES ASSUME NEW s \in Sessions, session[s].at = "paying"
                 PROVE  /\ BillFree(s, session[s].bill) /\ bill'[session[s].bill].status = "approved"
                        /\ session[s].paid = bill'[session[s].bill].paid + 1 /\ session[s].paid <= Total
      BY <2>1 DEF PaysWhatItRead, BillFree
    <3>1. /\ BillFree(s, session[s].bill) /\ bill[session[s].bill].status = "approved"
          /\ session[s].paid = bill[session[s].bill].paid + 1 /\ session[s].paid <= Total
      BY DEF BankDiscipline, PaysWhatItRead
    <3>2. session[s].bill \in Bills
      BY <1>2, StepForms
    <3> QED BY <2>1, <2>2, <3>1, <3>2 DEF BillFree
  <2>8. OpenLinesAreBare' /\ BookedOnce'
    BY <2>1, <2>3 DEF BankDiscipline, OpenLinesAreBare, BookedOnce
  <2>9. PaidByItsLines'
    <3>1. bill[b].status # "paid" /\ bill[b].paid # Total
      BY <1>1, <2>1 DEF BankDiscipline, PaidByItsLines
    <3> QED BY <2>1, <2>2, <3>1 DEF BankDiscipline, PaidByItsLines
  <2> QED BY <1>2, <2>1, <2>4, <2>6, <2>7, <2>8, <2>9 DEF BankDiscipline
<1>5. ASSUME NEW j \in Journals, ReverseGlJournal(j) PROVE BankDiscipline'
  <2>1. /\ journal[j] = "posted" /\ journal' = [journal EXCEPT ![j] = "reversed"]
        /\ UNCHANGED <<line, bill, session>>
    BY <1>5 DEF ReverseGlJournal
  <2>2. /\ journal' \in [Journals -> {"none", "posted", "reversed"}]
        /\ \A l \in Lines : journal'[l] # "none" <=> journal[l] # "none"
    BY <1>1, <2>1
  <2>3. BankTypeOK'
    BY <2>1, <2>2 DEF BankDiscipline, BankTypeOK
  <2>4. \A q \in Sessions : Held(q)' = Held(q)
    BY <2>1 DEF Held
  <2>5. HeldApart' /\ HeldUnsettled' /\ PaysWhatItRead'
    BY <2>1, <2>4 DEF BankDiscipline, HeldApart, HeldUnsettled, Unsettled, PaysWhatItRead, BillFree
  <2>6. OpenLinesAreBare' /\ BookedOnce' /\ PaidByItsLines'
    BY <2>1, <2>2 DEF BankDiscipline, OpenLinesAreBare, BookedOnce, PaidByItsLines
  <2> QED BY <1>2, <2>1, <2>3, <2>5, <2>6 DEF BankDiscipline
<1> QED BY <1>3, <1>4, <1>5

\* A session takes a line in hand that no session holds, or lists lines and takes none yet.
LEMMA TakingKeeps ==
  ASSUME BankParameters, BankDiscipline, NEW s \in Sessions, NEW j \in Step,
         session' = [session EXCEPT ![s] = j], UNCHANGED <<line, bill, journal>>,
         \A l \in Held(s)' : l \notin Held(s) => LineFree(s, l) /\ Unsettled(l),
         j.at = "paying" =>
           /\ BillFree(s, j.bill) /\ bill[j.bill].status = "approved"
           /\ j.paid = bill[j.bill].paid + 1 /\ j.paid <= Total
  PROVE  BankDiscipline'
<1>1. session \in [Sessions -> Step]
  BY DEF BankDiscipline
<1>2. session'[s] = j /\ \A q \in Sessions \ {s} : session'[q] = session[q]
  BY <1>1
<1>3. \A q \in Sessions \ {s} : Held(q)' = Held(q)
  BY <1>2 DEF Held
<1>4. session' \in [Sessions -> Step] /\ j.at \in {"idle", "paying", "matching", "auto"}
  BY <1>1, StepForms
<1>5. BankTypeOK'
  <2>1. \A q \in Sessions : session'[q].at \in {"idle", "paying", "matching", "auto"}
    BY <1>4, StepForms
  <2> QED BY <2>1 DEF BankDiscipline, BankTypeOK
<1>6. HeldApart'
  <2> SUFFICES ASSUME NEW q \in Sessions, q # s, NEW l \in Held(s)', l \in Held(q) PROVE FALSE
    <3>1. ASSUME NEW q \in Sessions \ {s}, NEW p \in Sessions \ {s}, p # q PROVE Held(p)' \cap Held(q)' = {}
      BY <1>3, <3>1 DEF BankDiscipline, HeldApart
    <3> QED BY <1>3, <3>1 DEF HeldApart
  <2>1. l \notin Held(s)
    BY DEF BankDiscipline, HeldApart
  <2> QED BY <2>1 DEF LineFree
<1>7. HeldUnsettled'
  BY <1>3 DEF BankDiscipline, HeldUnsettled, Unsettled
<1>8. PaysWhatItRead'
  <2> SUFFICES ASSUME NEW q \in Sessions, session'[q].at = "paying"
               PROVE  /\ \A p \in Sessions \ {q} :
                             session'[p].at = "paying" => session'[p].bill # session'[q].bill
                      /\ bill[session'[q].bill].status = "approved"
                      /\ session'[q].paid = bill[session'[q].bill].paid + 1 /\ session'[q].paid <= Total
    BY DEF PaysWhatItRead, BillFree
  <2>1. CASE q = s
    BY <1>2, <2>1 DEF BillFree
  <2>2. CASE q # s
    <3>1. /\ BillFree(q, session[q].bill) /\ bill[session[q].bill].status = "approved"
          /\ session[q].paid = bill[session[q].bill].paid + 1 /\ session[q].paid <= Total
      BY <1>2, <2>2 DEF BankDiscipline, PaysWhatItRead
    <3>2. j.at = "paying" => j.bill # session[q].bill
      BY <1>2, <2>2 DEF BillFree
    <3> QED BY <1>2, <2>2, <3>1, <3>2 DEF BillFree
  <2> QED BY <2>1, <2>2
<1>9. OpenLinesAreBare' /\ BookedOnce' /\ PaidByItsLines'
  BY DEF BankDiscipline, OpenLinesAreBare, BookedOnce, PaidByItsLines
<1> QED BY <1>4, <1>5, <1>6, <1>7, <1>8, <1>9 DEF BankDiscipline

\* The steps that take something in hand: a bill to pay, a journal to match, the list of
\* the automatic run and each line it settles.
LEMMA TakingStepsKeep ==
  ASSUME BankParameters, BankDiscipline, NEW s \in Sessions,
         \/ \E l \in Lines, b \in Bills : ReconcileMatchBill(s, l, b)
         \/ \E l \in Lines, j \in Receipts : ReconcileMatchJournal(s, l, j)
         \/ AutoReconcile(s) \/ \E l \in Lines : AutoPost(s, l)
  PROVE  BankDiscipline'
<1>1. session \in [Sessions -> Step] /\ session[s] \in Step /\ NoStep \in Step
  BY DEF BankDiscipline, Step
<1>2. /\ bill \in [Bills -> [status : {"none", "draft", "approved", "paid", "void"}, paid : 0..Total]]
      /\ Total \in Nat /\ Ruled \subseteq Lines
  BY DEF BankDiscipline, BankTypeOK, BankParameters
<1>3. ASSUME NEW l \in Lines, NEW b \in Bills, ReconcileMatchBill(s, l, b) PROVE BankDiscipline'
  <2> DEFINE j == [at |-> "paying", line |-> l, bill |-> b, paid |-> bill[b].paid + 1]
  <2>1. /\ session' = [session EXCEPT ![s] = j] /\ UNCHANGED <<line, bill, journal>>
        /\ LineFree(s, l) /\ Unsettled(l) /\ BillFree(s, b)
        /\ bill[b].status = "approved" /\ bill[b].paid < Total
    BY <1>3 DEF ReconcileMatchBill
  <2>2. j \in Step /\ j.paid = bill[b].paid + 1 /\ j.paid <= Total
    BY <1>2, <2>1 DEF Step
  <2>3. Held(s)' = {l}
    BY <1>1, <2>1 DEF Held
  <2> QED BY <2>1, <2>2, <2>3, TakingKeeps
<1>4. ASSUME NEW l \in Lines, NEW r \in Receipts, ReconcileMatchJournal(s, l, r) PROVE BankDiscipline'
  <2> DEFINE j == [at |-> "matching", line |-> l, journal |-> r]
  <2>1. /\ session' = [session EXCEPT ![s] = j] /\ UNCHANGED <<line, bill, journal>>
        /\ LineFree(s, l) /\ Unsettled(l)
    BY <1>4 DEF ReconcileMatchJournal
  <2>2. j \in Step
    BY DEF Step
  <2>3. Held(s)' = {l}
    BY <1>1, <2>1 DEF Held
  <2> QED BY <2>1, <2>2, <2>3, TakingKeeps
<1>5. CASE AutoReconcile(s)
  <2> DEFINE j == [at |-> "auto", todo |-> {l \in Ruled : Unsettled(l)}, posted |-> {}]
  <2>1. session' = [session EXCEPT ![s] = j] /\ UNCHANGED <<line, bill, journal>>
    BY <1>5 DEF AutoReconcile
  <2>2. j \in Step
    BY DEF Step
  <2>3. Held(s)' = {}
    BY <1>1, <2>1 DEF Held
  <2> QED BY <2>1, <2>2, <2>3, TakingKeeps
<1>6. ASSUME NEW l \in Lines, AutoPost(s, l) PROVE BankDiscipline'
  <2>1. /\ session[s].at = "auto" /\ l \in session[s].todo /\ LineFree(s, l)
        /\ UNCHANGED <<line, bill, journal>>
    BY <1>6 DEF AutoPost
  <2>2. /\ session[s] \in [at : {"auto"}, todo : SUBSET Ruled, posted : SUBSET Lines]
        /\ Held(s) = session[s].posted
    BY <1>1, <2>1 DEF Step, NoStep, Held
  <2>3. CASE Unsettled(l)
    <3> DEFINE j == [session[s] EXCEPT !.todo = @ \ {l}, !.posted = @ \cup {l}]
    <3>1. session' = [session EXCEPT ![s] = j]
      BY <1>1, <1>6, <2>3 DEF AutoPost
    <3>2. j \in Step /\ j.at = "auto" /\ j.posted = session[s].posted \cup {l}
      BY <2>2 DEF Step
    <3>3. Held(s)' = session[s].posted \cup {l}
      <4> HIDE DEF j
      <4> QED BY <1>1, <3>1, <3>2 DEF Held
    <3> HIDE DEF j
    <3>4. \A x \in Held(s)' : x \notin Held(s) => LineFree(s, x) /\ Unsettled(x)
      BY <2>1, <2>2, <2>3, <3>3
    <3>5. j.at # "paying"
      BY <3>2
    <3> QED BY <2>1, <3>1, <3>2, <3>4, <3>5, TakingKeeps
  <2>4. CASE ~Unsettled(l)
    <3>1. session' = [session EXCEPT ![s] = NoStep]
      BY <1>6, <2>4 DEF AutoPost, Done
    <3>2. Held(s)' = {} /\ NoStep.at = "idle"
      BY <1>1, <3>1 DEF Held, NoStep
    <3> QED BY <1>1, <2>1, <3>1, <3>2, TakingKeeps
  <2> QED BY <2>3, <2>4
<1> QED BY <1>3, <1>4, <1>5, <1>6

\* A bill is paid by the line in hand: what was read of it is still what it shows.
LEMMA PayingKeeps ==
  ASSUME BankParameters, BankDiscipline, NEW s \in Sessions, PayBill(s)
  PROVE  BankDiscipline'
<1> DEFINE l == session[s].line
           b == session[s].bill
<1>1. /\ line \in [Lines -> [status : {"none", "unmatched", "matched", "ignored"},
                             journal : Journals \cup {Blank}, bill : Bills \cup {Blank}]]
      /\ bill \in [Bills -> [status : {"none", "draft", "approved", "paid", "void"}, paid : 0..Total]]
      /\ journal \in [Journals -> {"none", "posted", "reversed"}]
      /\ Blank \notin Journals /\ Blank \notin Bills /\ Lines \subseteq Journals /\ Lines \cap Bills = {}
      /\ Total \in Nat \ {0} /\ IsFiniteSet(Lines)
  BY DEF BankDiscipline, BankTypeOK, BankParameters, Journals
<1>2. session \in [Sessions -> Step] /\ session[s].at = "paying" /\ l \in Lines /\ b \in Bills
  <2>1. session[s] \in Step
    BY DEF BankDiscipline
  <2> QED BY <2>1, StepForms DEF BankDiscipline, PayBill
<1>3. /\ bill[b].status = "approved" /\ session[s].paid = bill[b].paid + 1 /\ session[s].paid <= Total
      /\ \A q \in Sessions \ {s} : session[q].at = "paying" => session[q].bill # b
  BY <1>2 DEF BankDiscipline, PaysWhatItRead, BillFree
<1>4. Held(s) = {l}
  BY <1>2 DEF Held
<1>5. line[l].status = "unmatched" /\ line[l].journal = Blank /\ line[l].bill = Blank
  BY <1>2, <1>4 DEF BankDiscipline, HeldUnsettled, Unsettled, OpenLinesAreBare
<1>6. /\ bill' = [bill EXCEPT ![b] = [status |-> IF session[s].paid = Total THEN "paid" ELSE @.status,
                                      paid |-> session[s].paid]]
      /\ journal' = [journal EXCEPT ![l] = "posted"]
      /\ line' = [line EXCEPT ![l] = [status |-> "matched", journal |-> l, bill |-> b]]
      /\ session' = [session EXCEPT ![s] = NoStep]
  BY DEF PayBill, Settle, Done
<1> HIDE DEF l, b
<1>7. /\ \A k \in Lines \ {l} : line'[k] = line[k]
      /\ line'[l] = [status |-> "matched", journal |-> l, bill |-> b]
      /\ \A j \in Journals \ {l} : journal'[j] = journal[j]
      /\ journal'[l] = "posted"
  BY <1>1, <1>2, <1>6
<1>8. /\ \A c \in Bills \ {b} : bill'[c] = bill[c]
      /\ bill'[b].paid = bill[b].paid + 1 /\ bill'[b].paid \in 0..Total
      /\ bill'[b].status = IF bill'[b].paid = Total THEN "paid" ELSE "approved"
      /\ bill' \in [Bills -> [status : {"none", "draft", "approved", "paid", "void"}, paid : 0..Total]]
  <2>1. bill[b].paid \in 0..Total
    BY <1>1, <1>2
  <2>2. session[s].paid \in 0..Total
    BY <1>1, <1>3, <2>1
  <2>3. bill'[b] = [status |-> IF session[s].paid = Total THEN "paid" ELSE "approved", paid |-> session[s].paid]
    BY <1>1, <1>2, <1>3, <1>6
  <2>4. \A c \in Bills \ {b} : bill'[c] = bill[c]
    BY <1>1, <1>2, <1>6
  <2> QED BY <1>1, <1>2, <1>3, <1>6, <2>2, <2>3, <2>4
<1>9. /\ session' \in [Sessions -> Step] /\ HeldApart'
      /\ \A q \in Sessions \ {s} : session'[q] = session[q] /\ Held(q)' = Held(q)
      /\ Held(s)' = {} /\ session'[s].at = "idle"
  BY <1>2, <1>6, SessionLetsGo DEF NoStep
<1>10. BankTypeOK'
  <2>1. /\ line' \in [Lines -> [status : {"none", "unmatched", "matched", "ignored"},
                                journal : Journals \cup {Blank}, bill : Bills \cup {Blank}]]
        /\ journal' \in [Journals -> {"none", "posted", "reversed"}]
    BY <1>1, <1>2, <1>6
  <2>2. \A q \in Sessions : session'[q].at \in {"idle", "paying", "matching", "auto"}
    BY <1>9, StepForms
  <2> QED BY <1>8, <2>1, <2>2 DEF BankTypeOK
<1>11. HeldUnsettled'
  <2> SUFFICES ASSUME NEW q \in Sessions, NEW k \in Held(q)' PROVE line'[k].status = "unmatched"
    BY DEF HeldUnsettled, Unsettled
  <2>1. q # s /\ k \in Held(q)
    BY <1>9
  <2>2. k # l /\ line[k].status = "unmatched" /\ k \in Lines
    <3>1. session[q] \in Step
      BY <1>2
    <3> QED BY <1>4, <2>1, <3>1, StepForms DEF BankDiscipline, HeldApart, HeldUnsettled, Unsettled, Held
  <2> QED BY <1>7, <2>2
<1>12. PaysWhatItRead'
  <2> SUFFICES ASSUME NEW q \in Sessions, session'[q].at = "paying"
               PROVE  /\ \A p \in Sessions \ {q} :
                             session'[p].at = "paying" => session'[p].bill # session'[q].bill
                      /\ bill'[session'[q].bill].status = "approved"
                      /\ session'[q].paid = bill'[session'[q].bill].paid + 1 /\ session'[q].paid <= Total
    BY DEF PaysWhatItRead, BillFree
  <2>1. q # s /\ session'[q] = session[q] /\ session[q].bill # b /\ session[q].bill \in Bills
    <3>1. session[q] \in Step
      BY <1>2
    <3> QED BY <1>3, <1>9, <3>1, StepForms
  <2>2. /\ BillFree(q, session[q].bill) /\ bill[session[q].bill].status = "approved"
        /\ session[q].paid = bill[session[q].bill].paid + 1 /\ session[q].paid <= Total
    BY <2>1 DEF BankDiscipline, PaysWhatItRead
  <2> QED BY <1>8, <1>9, <2>1, <2>2 DEF BillFree
<1>13. OpenLinesAreBare' /\ BookedOnce'
  <2>1. \A k \in Lines \ {l} : k \in Journals \ {l}
    BY <1>1
  <2> QED BY <1>1, <1>2, <1>7, <2>1 DEF BankDiscipline, OpenLinesAreBare, BookedOnce
<1>14. PaidByItsLines'
  <2> DEFINE On(c) == {k \in Lines : line[k].bill = c}
  <2>1. \A c \in Bills \ {b} : {k \in Lines : line'[k].bill = c} = On(c)
    BY <1>1, <1>5, <1>7
  <2>2. {k \in Lines : line'[k].bill = b} = On(b) \cup {l} /\ l \notin On(b)
    BY <1>1, <1>2, <1>5, <1>7
  <2>3. IsFiniteSet(On(b))
    BY <1>1, FS_Subset
  <2>4. Cardinality(On(b) \cup {l}) = Cardinality(On(b)) + 1
    <3> HIDE DEF On
    <3> QED BY <2>2, <2>3, FS_AddElement
  <2>5. \A c \in Bills : bill[c].paid = Cardinality(On(c)) /\ (bill[c].status = "paid" <=> bill[c].paid = Total)
    BY DEF BankDiscipline, PaidByItsLines
  <2>6. \A c \in Bills \ {b} : bill'[c].paid = Cardinality({k \in Lines : line'[k].bill = c})
                               /\ (bill'[c].status = "paid" <=> bill'[c].paid = Total)
    <3> HIDE DEF On
    <3> QED BY <1>8, <2>1, <2>5
  <2>7. bill'[b].paid = Cardinality({k \in Lines : line'[k].bill = b})
        /\ (bill'[b].status = "paid" <=> bill'[b].paid = Total)
    <3> HIDE DEF On
    <3> QED BY <1>2, <1>8, <2>2, <2>4, <2>5
  <2> HIDE DEF On
  <2> QED BY <2>6, <2>7 DEF PaidByItsLines
<1> QED BY <1>9, <1>10, <1>11, <1>12, <1>13, <1>14 DEF BankDiscipline

\* A line in hand is matched with a journal the bridge posted.
LEMMA MatchingKeeps ==
  ASSUME BankParameters, BankDiscipline, NEW s \in Sessions, SettleWithJournal(s)
  PROVE  BankDiscipline'
<1> DEFINE l == session[s].line
           j == session[s].journal
<1>1. /\ line \in [Lines -> [status : {"none", "unmatched", "matched", "ignored"},
                             journal : Journals \cup {Blank}, bill : Bills \cup {Blank}]]
      /\ journal \in [Journals -> {"none", "posted", "reversed"}]
      /\ Blank \notin Journals /\ Blank \notin Bills /\ Lines \subseteq Journals
      /\ Receipts \subseteq Journals /\ Lines \cap Receipts = {}
  BY DEF BankDiscipline, BankTypeOK, BankParameters, Journals
<1>2. session \in [Sessions -> Step] /\ session[s].at = "matching" /\ l \in Lines /\ j \in Receipts
  <2>1. session[s] \in Step
    BY DEF BankDiscipline
  <2> QED BY <2>1, StepForms DEF BankDiscipline, SettleWithJournal
<1>3. Held(s) = {l}
  BY <1>2 DEF Held
<1>4. line[l].status = "unmatched" /\ line[l].journal = Blank /\ line[l].bill = Blank
  BY <1>2, <1>3 DEF BankDiscipline, HeldUnsettled, Unsettled, OpenLinesAreBare
<1>5. /\ line' = [line EXCEPT ![l] = [status |-> "matched", journal |-> j, bill |-> Blank]]
      /\ session' = [session EXCEPT ![s] = NoStep] /\ UNCHANGED <<bill, journal>>
  BY DEF SettleWithJournal, Settle, Done
<1> HIDE DEF l, j
<1>6. /\ \A k \in Lines \ {l} : line'[k] = line[k]
      /\ line'[l] = [status |-> "matched", journal |-> j, bill |-> Blank] /\ j # l /\ j # Blank
  BY <1>1, <1>2, <1>5
<1>7. /\ session' \in [Sessions -> Step] /\ HeldApart'
      /\ \A q \in Sessions \ {s} : session'[q] = session[q] /\ Held(q)' = Held(q)
      /\ Held(s)' = {} /\ session'[s].at = "idle"
  BY <1>2, <1>5, SessionLetsGo DEF NoStep
<1>8. BankTypeOK'
  <2>1. line' \in [Lines -> [status : {"none", "unmatched", "matched", "ignored"},
                             journal : Journals \cup {Blank}, bill : Bills \cup {Blank}]]
    BY <1>1, <1>2, <1>5
  <2>2. \A q \in Sessions : session'[q].at \in {"idle", "paying", "matching", "auto"}
    BY <1>7, StepForms
  <2> QED BY <1>5, <2>1, <2>2 DEF BankDiscipline, BankTypeOK
<1>9. HeldUnsettled'
  <2> SUFFICES ASSUME NEW q \in Sessions, NEW k \in Held(q)' PROVE line'[k].status = "unmatched"
    BY DEF HeldUnsettled, Unsettled
  <2>1. q # s /\ k \in Held(q)
    BY <1>7
  <2>2. k # l /\ line[k].status = "unmatched" /\ k \in Lines
    <3>1. session[q] \in Step
      BY <1>2
    <3> QED BY <1>3, <2>1, <3>1, StepForms DEF BankDiscipline, HeldApart, HeldUnsettled, Unsettled, Held
  <2> QED BY <1>6, <2>2
<1>10. PaysWhatItRead'
  <2>1. \A q \in Sessions : session'[q].at = "paying" => q # s /\ session[q].at = "paying" /\ session'[q] = session[q]
    BY <1>7
  <2> QED BY <1>5, <1>7, <2>1 DEF BankDiscipline, PaysWhatItRead, BillFree
<1>11. OpenLinesAreBare' /\ BookedOnce'
  <2>1. journal[l] = "none" /\ line'[l].journal = j /\ line'[l].status = "matched"
    BY <1>1, <1>2, <1>4, <1>6 DEF BankDiscipline, BookedOnce
  <2> QED BY <1>2, <1>5, <1>6, <2>1 DEF BankDiscipline, OpenLinesAreBare, BookedOnce
<1>12. PaidByItsLines'
  <2>1. \A k \in {l} : line[k].bill \notin Bills /\ line'[k].bill \notin Bills
    BY <1>1, <1>4, <1>6
  <2>2. {l} \in SUBSET Lines /\ \A k \in Lines \ {l} : line'[k] = line[k]
    BY <1>2, <1>6
  <2> QED BY <1>5, <2>1, <2>2, BillsStand
<1> QED BY <1>7, <1>8, <1>9, <1>10, <1>11, <1>12 DEF BankDiscipline

\* The automatic run settles all it has in hand in one commit.
LEMMA AutoCommitKeeps ==
  ASSUME BankParameters, BankDiscipline, NEW s \in Sessions, CommitAuto(s)
  PROVE  BankDiscipline'
<1> DEFINE L == session[s].posted
<1>1. /\ line \in [Lines -> [status : {"none", "unmatched", "matched", "ignored"},
                             journal : Journals \cup {Blank}, bill : Bills \cup {Blank}]]
      /\ journal \in [Journals -> {"none", "posted", "reversed"}]
      /\ Blank \notin Journals /\ Blank \notin Bills /\ Lines \subseteq Journals
  BY DEF BankDiscipline, BankTypeOK, BankParameters, Journals
<1>2. session \in [Sessions -> Step] /\ session[s].at = "auto" /\ L \in SUBSET Lines
  <2>1. session[s] \in Step
    BY DEF BankDiscipline
  <2> QED BY <2>1, StepForms DEF BankDiscipline, CommitAuto
<1>3. Held(s) = L
  BY <1>2 DEF Held
<1>4. \A l \in L : line[l].status = "unmatched" /\ line[l].journal = Blank /\ line[l].bill = Blank
  BY <1>2, <1>3 DEF BankDiscipline, HeldUnsettled, Unsettled, OpenLinesAreBare
<1>5. /\ line' = [k \in Lines |-> IF k \in L THEN [status |-> "matched", journal |-> k, bill |-> Blank]
                                  ELSE line[k]]
      /\ journal' = [j \in Journals |-> IF j \in L THEN "posted" ELSE journal[j]]
      /\ session' = [session EXCEPT ![s] = NoStep] /\ UNCHANGED bill
  BY DEF CommitAuto, Done
<1> HIDE DEF L
<1>6. /\ \A k \in Lines \ L : line'[k] = line[k]
      /\ \A k \in L : /\ line'[k].status = "matched" /\ line'[k].journal = k /\ line'[k].bill = Blank
                      /\ journal'[k] = "posted"
      /\ \A j \in Journals \ L : journal'[j] = journal[j]
  BY <1>1, <1>2, <1>5
<1>7. /\ session' \in [Sessions -> Step] /\ HeldApart'
      /\ \A q \in Sessions \ {s} : session'[q] = session[q] /\ Held(q)' = Held(q)
      /\ Held(s)' = {} /\ session'[s].at = "idle"
  BY <1>2, <1>5, SessionLetsGo DEF NoStep
<1>8. BankTypeOK'
  <2>1. /\ line' \in [Lines -> [status : {"none", "unmatched", "matched", "ignored"},
                                journal : Journals \cup {Blank}, bill : Bills \cup {Blank}]]
        /\ journal' \in [Journals -> {"none", "posted", "reversed"}]
    BY <1>1, <1>2, <1>5
  <2>2. \A q \in Sessions : session'[q].at \in {"idle", "paying", "matching", "auto"}
    BY <1>7, StepForms
  <2> QED BY <1>5, <2>1, <2>2 DEF BankDiscipline, BankTypeOK
<1>9. HeldUnsettled'
  <2> SUFFICES ASSUME NEW q \in Sessions, NEW k \in Held(q)' PROVE line'[k].status = "unmatched"
    BY DEF HeldUnsettled, Unsettled
  <2>1. q # s /\ k \in Held(q)
    BY <1>7
  <2>2. k \notin L /\ line[k].status = "unmatched" /\ k \in Lines
    <3>1. session[q] \in Step
      BY <1>2
    <3> QED BY <1>3, <2>1, <3>1, StepForms DEF BankDiscipline, HeldApart, HeldUnsettled, Unsettled, Held
  <2> QED BY <1>6, <2>2
<1>10. PaysWhatItRead'
  <2>1. \A q \in Sessions : session'[q].at = "paying" => q # s /\ session[q].at = "paying" /\ session'[q] = session[q]
    BY <1>7
  <2> QED BY <1>5, <1>7, <2>1 DEF BankDiscipline, PaysWhatItRead, BillFree
<1>11. OpenLinesAreBare' /\ BookedOnce'
  <2> SUFFICES ASSUME NEW k \in Lines
               PROVE  /\ line'[k].status # "matched" => line'[k].journal = Blank /\ line'[k].bill = Blank
                      /\ journal'[k] # "none" <=> line'[k].journal = k
                      /\ line'[k].status = "matched" <=> line'[k].journal # Blank
    BY DEF OpenLinesAreBare, BookedOnce
  <2>1. CASE k \in L
    BY <1>1, <1>2, <1>6, <2>1
  <2>2. CASE k \notin L
    BY <1>1, <1>6, <2>2 DEF BankDiscipline, OpenLinesAreBare, BookedOnce
  <2> QED BY <2>1, <2>2
<1>12. PaidByItsLines'
  <2>1. \A k \in L : line[k].bill \notin Bills /\ line'[k].bill \notin Bills
    BY <1>1, <1>4, <1>6
  <2> QED BY <1>2, <1>5, <1>6, <2>1, BillsStand
<1> QED BY <1>7, <1>8, <1>9, <1>10, <1>11, <1>12 DEF BankDiscipline

\* The invariant of the office bank holds from the start and after every step.
THEOREM BankStaysInStep == BankParameters /\ BankSpec => []BankDiscipline
<1>1. BankParameters /\ BankInit => BankDiscipline
  <2> SUFFICES ASSUME BankParameters, BankInit PROVE BankDiscipline
    OBVIOUS
  <2>1. /\ line = [l \in Lines |-> NoLine] /\ bill = [b \in Bills |-> [status |-> "none", paid |-> 0]]
        /\ journal = [j \in Journals |-> IF j \in Receipts THEN "posted" ELSE "none"]
        /\ session = [s \in Sessions |-> NoStep] /\ Total \in Nat \ {0}
        /\ Lines \subseteq Journals /\ Lines \cap Receipts = {} /\ Blank \notin Journals /\ Blank \notin Bills
    BY DEF BankInit, BankParameters, Journals
  <2>2. \A s \in Sessions : session[s].at = "idle" /\ Held(s) = {}
    BY <2>1 DEF Held, NoStep
  <2>3. session \in [Sessions -> Step]
    BY <2>1 DEF Step
  <2>4. \A l \in Lines : /\ line[l].status = "none" /\ line[l].journal = Blank /\ line[l].bill = Blank
                         /\ journal[l] = "none" /\ l # Blank
    BY <2>1 DEF NoLine
  <2>5. \A b \in Bills : bill[b].status = "none" /\ bill[b].paid = 0
    BY <2>1
  <2>6. BankTypeOK
    <3>1. /\ line \in [Lines -> [status : {"none", "unmatched", "matched", "ignored"},
                                 journal : Journals \cup {Blank}, bill : Bills \cup {Blank}]]
          /\ bill \in [Bills -> [status : {"none", "draft", "approved", "paid", "void"}, paid : 0..Total]]
          /\ journal \in [Journals -> {"none", "posted", "reversed"}]
      BY <2>1 DEF NoLine
    <3> QED BY <2>2, <3>1 DEF BankTypeOK
  <2>7. HeldApart /\ HeldUnsettled /\ PaysWhatItRead /\ OpenLinesAreBare /\ BookedOnce
    BY <2>2, <2>4 DEF HeldApart, HeldUnsettled, PaysWhatItRead, OpenLinesAreBare, BookedOnce
  <2>8. PaidByItsLines
    <3> SUFFICES ASSUME NEW b \in Bills PROVE {l \in Lines : line[l].bill = b} = {}
      BY <2>1, <2>5, FS_EmptySet DEF PaidByItsLines
    <3> QED BY <2>1, <2>4
  <2> QED BY <2>3, <2>6, <2>7, <2>8 DEF BankDiscipline
<1>2. ASSUME BankParameters, BankDiscipline, BankNext PROVE BankDiscipline'
  BY <1>2, BookingKeeps, BankAroundKeeps, TakingStepsKeep, PayingKeeps, MatchingKeeps, AutoCommitKeeps
     DEF BankNext, ReceiveInTx, ReconcileTransfer
<1>3. BankDiscipline /\ UNCHANGED bankVars => BankDiscipline'
  BY SMTT(30) DEF bankVars, BankDiscipline, BankTypeOK, HeldApart, HeldUnsettled, PaysWhatItRead, BillFree,
         OpenLinesAreBare, BookedOnce, PaidByItsLines, Held, Unsettled
<1>4. ASSUME BankParameters PROVE BankSpec => []BankDiscipline
  <2>1. BankInit => BankDiscipline
    BY <1>1, <1>4
  <2>2. BankDiscipline /\ [BankNext]_bankVars => BankDiscipline'
    BY <1>2, <1>3, <1>4
  <2> QED BY <2>1, <2>2, PTL DEF BankSpec
<1> QED BY <1>4

\* A statement line has one journal of its own at most, and a bill shows as paid what its
\* lines moved, whatever the automatic run and people do to them at once (reconcile.ts).
THEOREM LinesBookOnce == BankParameters /\ BankSpec => [](BookedOnce /\ PaidByItsLines)
<1>1. BankDiscipline => BookedOnce /\ PaidByItsLines
  BY DEF BankDiscipline
<1> QED BY <1>1, BankStaysInStep, PTL

-----------------------------------------------------------------------------
(* Imported records: a line lands once, a batch is all there or all gone. *)

\* The types of the rows, as functions.
LEMMA RecordTypes ==
  ASSUME RecordTypeOK
  PROVE  /\ batch \in [Batches -> [file : Files \cup {<<>>}, at : 0..3, runs : Nat, hand : Looked,
                                   state : {"none", "running", "completed", "partially_blocked", "reversed"}]]
         /\ record \in [Batches -> [Refs -> [disp : Dispositions \cup {Nothing}, target : 0..MaxTargets]]]
         /\ target \in [Ids -> [ref : Refs \cup {Nothing}, name : Names \cup {Nothing, "staff"},
                                batch : Batches \cup {Nothing}, state : {"none", "live", "deleted"},
                                touched : BOOLEAN]]
         /\ source \in [Refs -> 0..MaxTargets]
         /\ reversal \in [Reversers -> [of : Batches \cup {Nothing}, blocked : BOOLEAN, plan : SUBSET Ids]]
  BY DEF RecordTypeOK

\* A file has one record or two.
LEMMA FileLines ==
  ASSUME NEW f \in Files
  PROVE  Len(f) \in 1..2 /\ \A i \in 1..Len(f) : f[i].ref \in Refs /\ f[i].name \in Names
<1>1. CASE \E x \in Records : f = <<x>>
  BY <1>1 DEF Records
<1>2. CASE \E x, y \in {z \in Records : DomainOf[z.ref] = "clients"} : f = <<x, y>>
  <2>1. PICK x \in Records, y \in Records : f = <<x, y>>
    BY <1>2
  <2>2. Len(f) = 2 /\ f[1] = x /\ f[2] = y
    BY <2>1
  <2>3. \A i \in 1..2 : i = 1 \/ i = 2
    OBVIOUS
  <2> QED BY <2>2, <2>3 DEF Records
<1> QED BY <1>1, <1>2 DEF Files

\* A step of a batch that writes no item: it starts, looks a reference up, ends or is left.
LEMMA BatchStepKeeps ==
  ASSUME RecordDiscipline, NEW b \in Batches, RecordTypeOK',
         UNCHANGED <<target, source, record, reversal>>,
         \A c \in Batches \ {b} : batch'[c] = batch[c],
         batch'[b].at # 0 => batch'[b].state = "running",
         \/ batch'[b].state = batch[b].state
         \/ batch[b].state \in {"none", "running"} /\ batch'[b].state \in {"running", "completed"}
  PROVE  RecordDiscipline'
<1>1. \A c \in Batches : batch'[c].state = "reversed" <=> batch[c].state = "reversed"
  OBVIOUS
<1>2. CreatedAreItemised' /\ ItemsHaveTargets'
  BY DEF RecordDiscipline, CreatedAreItemised, ItemsHaveTargets
<1>3. GoneTogether' /\ UpdatesAreFinal'
  <2>1. \A k \in Ids : target[k].state # "none" => target[k].batch \in Batches
    BY DEF RecordDiscipline, CreatedAreItemised
  <2> QED BY <1>1, <2>1 DEF RecordDiscipline, GoneTogether, UpdatesAreFinal
<1>4. RunningIsUnexamined'
  <2>1. \A c \in Batches : Targets(c)' = Targets(c)
    BY DEF Targets
  <2>2. \A v \in Reversers : reversal[v].of # Nothing => batch'[reversal[v].of].state = batch[reversal[v].of].state
    BY DEF RecordDiscipline, RunningIsUnexamined
  <2> QED BY <2>1, <2>2 DEF RecordDiscipline, RunningIsUnexamined
<1> QED BY <1>2, <1>3, <1>4 DEF RecordDiscipline

\* The four of them.
LEMMA BatchesGoOn ==
  ASSUME RecordParameters, RecordDiscipline, NEW b \in Batches,
         StartBatch(b) \/ LookUp(b) \/ FinishBatch(b) \/ AbandonBatch(b)
  PROVE  RecordDiscipline'
<1> USE DEF RecordParameters
<1>1. /\ batch \in [Batches -> [file : Files \cup {<<>>}, at : 0..3, runs : Nat, hand : Looked,
                                state : {"none", "running", "completed", "partially_blocked", "reversed"}]]
      /\ source \in [Refs -> 0..MaxTargets]
      /\ UNCHANGED <<target, source, record, reversal>>
  BY RecordTypes DEF RecordDiscipline, StartBatch, LookUp, FinishBatch, AbandonBatch
<1>2. batch[b].at # 0 => batch[b].state = "running"
  BY DEF RecordDiscipline, RunningIsUnexamined
<1>3. CASE StartBatch(b)
  <2>1. PICK f \in Files : batch' = [batch EXCEPT ![b].file = f, ![b].state = "running", ![b].at = 1]
    BY <1>3 DEF StartBatch
  <2>2. batch[b].state = "none"
    BY <1>3 DEF StartBatch
  <2>5. batch' = [batch EXCEPT ![b] = [batch[b] EXCEPT !.file = f, !.state = "running", !.at = 1]]
    BY <1>1, <2>1
  <2>6. batch[b] \in [file : Files \cup {<<>>}, at : 0..3, runs : Nat, hand : Looked,
                     state : {"none", "running", "completed", "partially_blocked", "reversed"}]
    BY <1>1
  <2>3. /\ batch' \in [Batches -> [file : Files \cup {<<>>}, at : 0..3, runs : Nat, hand : Looked,
                                   state : {"none", "running", "completed", "partially_blocked", "reversed"}]]
        /\ \A c \in Batches \ {b} : batch'[c] = batch[c]
        /\ batch'[b].state = "running"
    BY <1>1, <2>1, <2>5, <2>6
  <2>4. RecordTypeOK'
    BY <1>1, <2>3 DEF RecordDiscipline, RecordTypeOK
  <2> QED BY <1>1, <2>2, <2>3, <2>4, BatchStepKeeps
<1>4. CASE LookUp(b)
  <2>1. PICK w \in BOOLEAN : batch' = [batch EXCEPT ![b].hand =
              [target |-> source[InHand(b).ref], read |-> TRUE, warn |-> w]]
    <3> DEFINE k == source[InHand(b).ref]
               w == k # 0 /\ (\/ Domain(b) \notin Updating \/ TouchedSinceImport(k)
                              \/ target[k].name = InHand(b).name)
    <3>1. w \in BOOLEAN
      OBVIOUS
    <3>2. batch' = [batch EXCEPT ![b].hand = [target |-> k, read |-> TRUE, warn |-> w]]
      BY <1>4 DEF LookUp
    <3> QED BY <3>1, <3>2
  <2>2. source[InHand(b).ref] \in 0..MaxTargets
    <3>1. batch[b].file \in Files \cup {<<>>} /\ batch[b].at \in 1..Len(batch[b].file)
      BY <1>1, <1>4 DEF LookUp, Works
    <3>2. batch[b].file \in Files
      BY <3>1
    <3>3. InHand(b).ref \in Refs
      BY <3>1, <3>2, FileLines DEF InHand
    <3> QED BY <1>1, <3>3
  <2>3. /\ batch' \in [Batches -> [file : Files \cup {<<>>}, at : 0..3, runs : Nat, hand : Looked,
                                   state : {"none", "running", "completed", "partially_blocked", "reversed"}]]
        /\ \A c \in Batches \ {b} : batch'[c] = batch[c]
        /\ batch'[b].state = batch[b].state /\ batch'[b].at = batch[b].at
    <3> DEFINE R == [file : Files \cup {<<>>}, at : 0..3, runs : Nat, hand : Looked,
                   state : {"none", "running", "completed", "partially_blocked", "reversed"}]
               e == [target |-> source[InHand(b).ref], read |-> TRUE, warn |-> w]
               new == [batch[b] EXCEPT !.hand = e]
    <3>1. e \in Looked
      BY <2>2 DEF Looked
    <3>2. batch \in [Batches -> R] /\ batch[b] \in R /\ batch' = [batch EXCEPT ![b].hand = e]
      BY <1>1, <2>1
    <3> HIDE DEF e
    <3>3. new \in R /\ new.state = batch[b].state /\ new.at = batch[b].at /\ batch' = [batch EXCEPT ![b] = new]
      BY <3>1, <3>2
    <3> HIDE DEF R, new
    <3>4. batch' \in [Batches -> R] /\ batch'[b] = new /\ \A c \in Batches \ {b} : batch'[c] = batch[c]
      BY <3>2, <3>3
    <3> QED BY <3>3, <3>4 DEF R
  <2>4. RecordTypeOK'
    BY <1>1, <2>3 DEF RecordDiscipline, RecordTypeOK
  <2> QED BY <1>1, <1>2, <2>3, <2>4, BatchStepKeeps
<1>5. CASE FinishBatch(b)
  <2>1. batch' = [batch EXCEPT ![b].state = "completed", ![b].at = 0] /\ batch[b].state = "running"
    BY <1>5 DEF FinishBatch
  <2>5. batch' = [batch EXCEPT ![b] = [batch[b] EXCEPT !.state = "completed", !.at = 0]]
    BY <1>1, <2>1
  <2>6. batch[b] \in [file : Files \cup {<<>>}, at : 0..3, runs : Nat, hand : Looked,
                     state : {"none", "running", "completed", "partially_blocked", "reversed"}]
    BY <1>1
  <2>3. /\ batch' \in [Batches -> [file : Files \cup {<<>>}, at : 0..3, runs : Nat, hand : Looked,
                                   state : {"none", "running", "completed", "partially_blocked", "reversed"}]]
        /\ \A c \in Batches \ {b} : batch'[c] = batch[c]
        /\ batch'[b].state = "completed" /\ batch'[b].at = 0
    BY <1>1, <2>1, <2>5, <2>6, SMTT(30)
  <2>4. RecordTypeOK'
    BY <1>1, <2>3 DEF RecordDiscipline, RecordTypeOK
  <2> QED BY <1>1, <2>1, <2>3, <2>4, BatchStepKeeps
<1>6. CASE AbandonBatch(b)
  <2>1. batch' = [batch EXCEPT ![b].at = 0, ![b].hand = Unread] /\ Unread \in Looked
    BY <1>6 DEF AbandonBatch, Looked, Unread
  <2>5. batch' = [batch EXCEPT ![b] = [batch[b] EXCEPT !.at = 0, !.hand = Unread]]
    BY <1>1, <2>1
  <2>6. batch[b] \in [file : Files \cup {<<>>}, at : 0..3, runs : Nat, hand : Looked,
                     state : {"none", "running", "completed", "partially_blocked", "reversed"}]
    BY <1>1
  <2>3. /\ batch' \in [Batches -> [file : Files \cup {<<>>}, at : 0..3, runs : Nat, hand : Looked,
                                   state : {"none", "running", "completed", "partially_blocked", "reversed"}]]
        /\ \A c \in Batches \ {b} : batch'[c] = batch[c]
        /\ batch'[b].state = batch[b].state /\ batch'[b].at = 0
    BY <1>1, <2>1, <2>5, <2>6, SMTT(30)
  <2>4. RecordTypeOK'
    BY <1>1, <2>3 DEF RecordDiscipline, RecordTypeOK
  <2> QED BY <1>1, <2>3, <2>4, BatchStepKeeps
<1> QED BY <1>3, <1>4, <1>5, <1>6

\* What an item changes of its batch and of the report.
LEMMA ItemWrites ==
  ASSUME RecordParameters, RecordDiscipline, NEW b \in Batches, Works(b),
         NEW disp \in Dispositions, NEW k \in 0..MaxTargets, Item(b, disp, k)
  PROVE  /\ InHand(b).ref \in Refs /\ InHand(b).name \in Names
         /\ batch[b].state = "running" /\ record[b][InHand(b).ref].disp = Nothing
         /\ batch' \in [Batches -> [file : Files \cup {<<>>}, at : 0..3, runs : Nat, hand : Looked,
                                    state : {"none", "running", "completed", "partially_blocked", "reversed"}]]
         /\ record' \in [Batches -> [Refs -> [disp : Dispositions \cup {Nothing}, target : 0..MaxTargets]]]
         /\ UNCHANGED reversal
         /\ \A c \in Batches : batch'[c].state = batch[c].state
         /\ \A c \in Batches \ {b} : batch'[c] = batch[c] /\ record'[c] = record[c]
         /\ record'[b][InHand(b).ref] = [disp |-> disp, target |-> k]
         /\ \A r \in Refs \ {InHand(b).ref} : record'[b][r] = record[b][r]
<1> USE DEF RecordParameters
<1>1. /\ batch \in [Batches -> [file : Files \cup {<<>>}, at : 0..3, runs : Nat, hand : Looked,
                                state : {"none", "running", "completed", "partially_blocked", "reversed"}]]
      /\ record \in [Batches -> [Refs -> [disp : Dispositions \cup {Nothing}, target : 0..MaxTargets]]]
  BY RecordTypes DEF RecordDiscipline
<1>2. batch[b].file \in Files /\ batch[b].at \in 1..Len(batch[b].file)
  BY <1>1 DEF Works
<1>3. InHand(b).ref \in Refs /\ InHand(b).name \in Names /\ batch[b].at \in 1..2
  <2>1. Len(batch[b].file) \in 1..2
    BY <1>2, FileLines
  <2> QED BY <1>2, <2>1, FileLines DEF InHand
<1>4. batch[b].state = "running"
  <2>1. batch[b].at # 0
    BY <1>3
  <2> QED BY <2>1 DEF RecordDiscipline, RunningIsUnexamined
<1> DEFINE ref == InHand(b).ref
<1>5. /\ record[b][ref].disp = Nothing
      /\ record' = [record EXCEPT ![b][ref] = [disp |-> disp, target |-> k]]
      /\ batch' = [batch EXCEPT ![b].at = @ + 1, ![b].hand = Unread]
      /\ UNCHANGED reversal
  BY DEF Item, Itemised
<1>6. Unread \in Looked /\ batch[b].at + 1 \in 0..3
  BY <1>3 DEF Unread, Looked
<1>7. ref \in Refs
  BY <1>3
<1>8. /\ batch' \in [Batches -> [file : Files \cup {<<>>}, at : 0..3, runs : Nat, hand : Looked,
                                 state : {"none", "running", "completed", "partially_blocked", "reversed"}]]
      /\ \A c \in Batches : batch'[c].state = batch[c].state
      /\ \A c \in Batches \ {b} : batch'[c] = batch[c]
  <2> DEFINE R == [file : Files \cup {<<>>}, at : 0..3, runs : Nat, hand : Looked,
                   state : {"none", "running", "completed", "partially_blocked", "reversed"}]
             new == [batch[b] EXCEPT !.at = @ + 1, !.hand = Unread]
  <2>1. batch[b] \in R
    BY <1>1
  <2>2. new \in R /\ new.state = batch[b].state
    BY <1>6, <2>1
  <2>3. batch' = [batch EXCEPT ![b] = new] /\ batch \in [Batches -> R]
    BY <1>1, <1>5
  <2> HIDE DEF R, new
  <2>4. batch' \in [Batches -> R]
    BY <2>2, <2>3
  <2>5. batch'[b] = new /\ \A c \in Batches \ {b} : batch'[c] = batch[c]
    BY <2>3
  <2> QED BY <2>2, <2>4, <2>5 DEF R
<1> HIDE DEF ref
<1>9. /\ record' \in [Batches -> [Refs -> [disp : Dispositions \cup {Nothing}, target : 0..MaxTargets]]]
      /\ record'[b][ref] = [disp |-> disp, target |-> k]
      /\ \A r \in Refs \ {ref} : record'[b][r] = record[b][r]
      /\ \A c \in Batches \ {b} : record'[c] = record[c]
  BY <1>1, <1>5, <1>7
<1> QED BY <1>3, <1>4, <1>5, <1>8, <1>9 DEF ref

\* An item of a running batch concerns no exam and no reversal.
LEMMA ItemsAreNotExamined ==
  ASSUME RecordParameters, RecordDiscipline, NEW b \in Batches, Works(b),
         NEW disp \in Dispositions, NEW k \in 0..MaxTargets, Item(b, disp, k)
  PROVE  RunningIsUnexamined' /\ UpdatesAreFinal'
<1>1. /\ batch[b].state = "running" /\ UNCHANGED reversal
      /\ \A c \in Batches : batch'[c].state = batch[c].state
      /\ \A c \in Batches \ {b} : batch'[c] = batch[c] /\ record'[c] = record[c]
  BY ItemWrites
<1>2. \A c \in Batches \ {b} : Targets(c)' = Targets(c)
  BY <1>1 DEF Targets
<1>3. \A v \in Reversers : reversal[v].of # Nothing => reversal[v].of \in Batches \ {b}
  BY <1>1 DEF RecordDiscipline, RunningIsUnexamined
<1>4. \A c \in Batches : batch'[c].at # 0 => batch'[c].state = "running"
  BY <1>1 DEF RecordDiscipline, RunningIsUnexamined
<1>5. RunningIsUnexamined'
  BY <1>1, <1>2, <1>3, <1>4 DEF RecordDiscipline, RunningIsUnexamined
<1>6. UpdatesAreFinal'
  BY <1>1 DEF RecordDiscipline, UpdatesAreFinal
<1> QED BY <1>5, <1>6

\* A new target gets the reference, which nothing had.
LEMMA CreatingKeeps ==
  ASSUME RecordParameters, RecordDiscipline, NEW b \in Batches, Works(b), Create(b)
  PROVE  RecordDiscipline'
<1> DEFINE ref == InHand(b).ref
           new(k) == [ref |-> ref, name |-> InHand(b).name, batch |-> b, state |-> "live", touched |-> FALSE]
<1>1. PICK k \in Ids : /\ target[k].state = "none"
                       /\ target' = [target EXCEPT ![k] = new(k)]
                       /\ source' = [source EXCEPT ![ref] = k]
                       /\ Item(b, "accepted", k)
  BY DEF Create, RecordSource
<1>2. source[ref] = 0
  BY DEF Create, Unimported
<1>3. k \in 1..MaxTargets /\ k # 0 /\ k \in 0..MaxTargets /\ "accepted" \in Dispositions
  BY DEF Ids, Dispositions, RecordParameters
<1>4. /\ ref \in Refs /\ InHand(b).name \in Names
      /\ batch[b].state = "running" /\ record[b][ref].disp = Nothing
      /\ batch' \in [Batches -> [file : Files \cup {<<>>}, at : 0..3, runs : Nat, hand : Looked,
                                 state : {"none", "running", "completed", "partially_blocked", "reversed"}]]
      /\ record' \in [Batches -> [Refs -> [disp : Dispositions \cup {Nothing}, target : 0..MaxTargets]]]
      /\ UNCHANGED reversal
      /\ \A c \in Batches : batch'[c].state = batch[c].state
      /\ \A c \in Batches \ {b} : batch'[c] = batch[c] /\ record'[c] = record[c]
      /\ record'[b][ref] = [disp |-> "accepted", target |-> k]
      /\ \A r \in Refs \ {ref} : record'[b][r] = record[b][r]
  BY <1>1, <1>3, ItemWrites
<1>5. RunningIsUnexamined' /\ UpdatesAreFinal'
  BY <1>1, <1>3, ItemsAreNotExamined
<1>6. /\ target \in [Ids -> [ref : Refs \cup {Nothing}, name : Names \cup {Nothing, "staff"},
                             batch : Batches \cup {Nothing}, state : {"none", "live", "deleted"},
                             touched : BOOLEAN]]
      /\ source \in [Refs -> 0..MaxTargets]
      /\ Nothing \notin Batches /\ Nothing \notin Dispositions
  BY RecordTypes DEF RecordDiscipline, RecordParameters
<1>7. target[k].batch = Nothing
  BY <1>1 DEF RecordDiscipline, CreatedAreItemised
<1>8. /\ target' \in [Ids -> [ref : Refs \cup {Nothing}, name : Names \cup {Nothing, "staff"},
                              batch : Batches \cup {Nothing}, state : {"none", "live", "deleted"},
                              touched : BOOLEAN]]
      /\ source' \in [Refs -> 0..MaxTargets]
      /\ \A i \in Ids \ {k} : target'[i] = target[i]
      /\ target'[k].ref = ref /\ target'[k].batch = b /\ target'[k].state = "live"
      /\ source'[ref] = k /\ \A r \in Refs \ {ref} : source'[r] = source[r]
  <2>1. new(k) \in [ref : Refs \cup {Nothing}, name : Names \cup {Nothing, "staff"},
                    batch : Batches \cup {Nothing}, state : {"none", "live", "deleted"}, touched : BOOLEAN]
    BY <1>4
  <2>2. target'[k] = new(k) /\ \A i \in Ids \ {k} : target'[i] = target[i]
    BY <1>1, <1>6
  <2>3. new(k).ref = ref /\ new(k).batch = b /\ new(k).state = "live"
    OBVIOUS
  <2>4. source' \in [Refs -> 0..MaxTargets] /\ source'[ref] = k /\ \A r \in Refs \ {ref} : source'[r] = source[r]
    BY <1>1, <1>3, <1>4, <1>6
  <2>5. target' \in [Ids -> [ref : Refs \cup {Nothing}, name : Names \cup {Nothing, "staff"},
                             batch : Batches \cup {Nothing}, state : {"none", "live", "deleted"},
                             touched : BOOLEAN]]
    <3> HIDE DEF new, ref
    <3> QED BY <1>1, <1>6, <2>1
  <2> HIDE DEF new, ref
  <2> QED BY <2>2, <2>3, <2>4, <2>5
<1> HIDE DEF new, ref
<1>9. RecordTypeOK'
  BY <1>4, <1>8, RecordTypes DEF RecordDiscipline, RecordTypeOK
<1>10. CreatedAreItemised'
  <2> SUFFICES ASSUME NEW i \in Ids
               PROVE  /\ target'[i].state = "none" => target'[i].ref = Nothing /\ target'[i].batch = Nothing
                      /\ target'[i].state # "none" =>
                          /\ target'[i].batch \in Batches /\ target'[i].ref \in Refs /\ source'[target'[i].ref] = i
                          /\ record'[target'[i].batch][target'[i].ref].disp = "accepted"
                          /\ record'[target'[i].batch][target'[i].ref].target = i
    BY DEF CreatedAreItemised
  <2>1. CASE i = k
    BY <1>4, <1>8, <2>1
  <2>2. CASE i # k /\ target[i].state = "none"
    BY <1>8, <2>2 DEF RecordDiscipline, CreatedAreItemised
  <2>3. CASE i # k /\ target[i].state # "none"
    <3> DEFINE c == target[i].batch
               r == target[i].ref
    <3>1. /\ c \in Batches /\ r \in Refs /\ source[r] = i /\ target'[i] = target[i]
          /\ record[c][r].disp = "accepted" /\ record[c][r].target = i
      BY <1>8, <2>3 DEF RecordDiscipline, CreatedAreItemised
    <3>2. i # 0
      BY DEF Ids
    <3>3. r # ref /\ source'[r] = i
      BY <1>2, <1>8, <3>1, <3>2
    <3>4. record'[c][r] = record[c][r]
      <4>1. CASE c = b
        BY <1>4, <3>1, <3>3, <4>1
      <4>2. CASE c # b
        BY <1>4, <3>1, <4>2
      <4> QED BY <4>1, <4>2
    <3> QED BY <2>3, <3>1, <3>3, <3>4
  <2> QED BY <2>1, <2>2, <2>3
<1>11. ItemsHaveTargets'
  <2> SUFFICES ASSUME NEW c \in Batches, NEW r \in Refs
               PROVE  /\ record'[c][r].target # 0 <=> record'[c][r].disp \in {"accepted", "updated"}
                      /\ record'[c][r].disp = "accepted" => target'[record'[c][r].target].batch = c
    BY DEF ItemsHaveTargets
  <2>1. CASE c = b /\ r = ref
    BY <1>3, <1>4, <1>8, <2>1
  <2>2. CASE ~(c = b /\ r = ref)
    <3>1. record'[c][r] = record[c][r]
      BY <1>4, <2>2
    <3>2. /\ record[c][r].target # 0 <=> record[c][r].disp \in {"accepted", "updated"}
          /\ record[c][r].disp = "accepted" => target[record[c][r].target].batch = c
      BY DEF RecordDiscipline, ItemsHaveTargets
    <3>3. record[c][r].target \in 0..MaxTargets
      BY RecordTypes DEF RecordDiscipline
    <3>4. ASSUME record[c][r].disp = "accepted" PROVE target'[record[c][r].target] = target[record[c][r].target]
      <4>1. record[c][r].target \in Ids /\ record[c][r].target # k
        BY <1>6, <1>7, <3>2, <3>3, <3>4 DEF Ids, RecordParameters
      <4> QED BY <1>8, <4>1
    <3> QED BY <3>1, <3>2, <3>4
  <2> QED BY <2>1, <2>2
<1>12. GoneTogether'
  <2> SUFFICES ASSUME NEW i \in Ids, target'[i].state # "none"
               PROVE  target'[i].state = "deleted" <=> batch'[target'[i].batch].state = "reversed"
    BY DEF GoneTogether
  <2>1. CASE i = k
    BY <1>4, <1>8, <2>1
  <2>2. CASE i # k
    <3>1. target'[i] = target[i] /\ target[i].batch \in Batches
      BY <1>8, <2>2 DEF RecordDiscipline, CreatedAreItemised
    <3>2. target[i].state = "deleted" <=> batch[target[i].batch].state = "reversed"
      BY <3>1 DEF RecordDiscipline, GoneTogether
    <3>3. batch'[target[i].batch].state = batch[target[i].batch].state
      BY <1>4, <3>1
    <3> QED BY <3>1, <3>2, <3>3
  <2> QED BY <2>1, <2>2
<1> QED BY <1>5, <1>9, <1>10, <1>11, <1>12 DEF RecordDiscipline

\* Targets that keep their reference, batch and state, in a step that changes nothing else.
LEMMA TouchingKeeps ==
  ASSUME RecordParameters, RecordDiscipline,
         target' \in [Ids -> [ref : Refs \cup {Nothing}, name : Names \cup {Nothing, "staff"},
                              batch : Batches \cup {Nothing}, state : {"none", "live", "deleted"},
                              touched : BOOLEAN]],
         \A i \in Ids : /\ target'[i].ref = target[i].ref /\ target'[i].batch = target[i].batch
                        /\ target'[i].state = target[i].state,
         UNCHANGED <<source, batch, record, reversal>>
  PROVE  RecordDiscipline'
<1>1. RecordTypeOK'
  BY RecordTypes DEF RecordDiscipline, RecordTypeOK
<1>2. CreatedAreItemised'
  BY DEF RecordDiscipline, CreatedAreItemised
<1>3. ItemsHaveTargets'
  <2>1. \A c \in Batches : \A r \in Refs : record[c][r].disp = "accepted" => record[c][r].target \in Ids
    BY RecordTypes DEF RecordDiscipline, ItemsHaveTargets, Ids, RecordParameters
  <2> QED BY <2>1 DEF RecordDiscipline, ItemsHaveTargets
<1>4. RunningIsUnexamined' /\ UpdatesAreFinal'
  BY DEF RecordDiscipline, RunningIsUnexamined, UpdatesAreFinal, Targets
<1>5. GoneTogether'
  BY DEF RecordDiscipline, GoneTogether
<1> QED BY <1>1, <1>2, <1>3, <1>4, <1>5 DEF RecordDiscipline

\* The same with an item that creates nothing.
LEMMA OtherItemsKeep ==
  ASSUME RecordParameters, RecordDiscipline,
         target' \in [Ids -> [ref : Refs \cup {Nothing}, name : Names \cup {Nothing, "staff"},
                              batch : Batches \cup {Nothing}, state : {"none", "live", "deleted"},
                              touched : BOOLEAN]],
         \A i \in Ids : /\ target'[i].ref = target[i].ref /\ target'[i].batch = target[i].batch
                        /\ target'[i].state = target[i].state,
         UNCHANGED source, NEW b \in Batches, Works(b),
         NEW disp \in Dispositions \ {"accepted"}, NEW k \in 0..MaxTargets,
         k # 0 <=> disp = "updated", Item(b, disp, k)
  PROVE  RecordDiscipline'
<1> DEFINE ref == InHand(b).ref
<1>1. disp \in Dispositions /\ disp # "accepted"
  OBVIOUS
<1>2. /\ ref \in Refs /\ record[b][ref].disp = Nothing
      /\ batch' \in [Batches -> [file : Files \cup {<<>>}, at : 0..3, runs : Nat, hand : Looked,
                                 state : {"none", "running", "completed", "partially_blocked", "reversed"}]]
      /\ record' \in [Batches -> [Refs -> [disp : Dispositions \cup {Nothing}, target : 0..MaxTargets]]]
      /\ UNCHANGED reversal
      /\ \A c \in Batches : batch'[c].state = batch[c].state
      /\ \A c \in Batches \ {b} : batch'[c] = batch[c] /\ record'[c] = record[c]
      /\ record'[b][ref] = [disp |-> disp, target |-> k]
      /\ \A r \in Refs \ {ref} : record'[b][r] = record[b][r]
  BY <1>1, ItemWrites
<1>3. RunningIsUnexamined' /\ UpdatesAreFinal'
  BY <1>1, ItemsAreNotExamined
<1> HIDE DEF ref
<1>4. RecordTypeOK'
  BY <1>2, RecordTypes DEF RecordDiscipline, RecordTypeOK
<1>5. Nothing # "accepted"
  BY DEF RecordParameters, Dispositions
<1>6. \A c \in Batches : \A r \in Refs : record[c][r].disp = "accepted" =>
         record'[c][r] = record[c][r] /\ record[c][r].target \in Ids
  <2> SUFFICES ASSUME NEW c \in Batches, NEW r \in Refs, record[c][r].disp = "accepted"
               PROVE  record'[c][r] = record[c][r] /\ record[c][r].target \in Ids
    OBVIOUS
  <2>1. ~(c = b /\ r = ref)
    BY <1>2, <1>5
  <2>2. record[c][r].target \in 0..MaxTargets /\ record[c][r].target # 0
    BY RecordTypes DEF RecordDiscipline, ItemsHaveTargets
  <2>3. record[c][r].target \in Ids
    BY <2>2 DEF Ids, RecordParameters
  <2> QED BY <1>2, <2>1, <2>3
<1>7. CreatedAreItemised'
  BY <1>6 DEF RecordDiscipline, CreatedAreItemised
<1>8. ItemsHaveTargets'
  <2> SUFFICES ASSUME NEW c \in Batches, NEW r \in Refs
               PROVE  /\ record'[c][r].target # 0 <=> record'[c][r].disp \in {"accepted", "updated"}
                      /\ record'[c][r].disp = "accepted" => target'[record'[c][r].target].batch = c
    BY DEF ItemsHaveTargets
  <2>1. CASE c = b /\ r = ref
    BY <1>1, <1>2, <2>1
  <2>2. CASE ~(c = b /\ r = ref)
    <3>1. record'[c][r] = record[c][r]
      BY <1>2, <2>2
    <3> QED BY <1>6, <3>1 DEF RecordDiscipline, ItemsHaveTargets
  <2> QED BY <2>1, <2>2
<1>9. GoneTogether'
  <2>1. \A i \in Ids : target[i].state # "none" => target[i].batch \in Batches
    BY DEF RecordDiscipline, CreatedAreItemised
  <2> SUFFICES ASSUME NEW i \in Ids, target'[i].state # "none"
               PROVE  target'[i].state = "deleted" <=> batch'[target'[i].batch].state = "reversed"
    BY DEF GoneTogether
  <2>2. target[i].state = "deleted" <=> batch[target[i].batch].state = "reversed"
    BY DEF RecordDiscipline, GoneTogether
  <2>3. batch'[target[i].batch].state = batch[target[i].batch].state
    BY <1>2, <2>1
  <2> QED BY <2>2, <2>3
<1> QED BY <1>3, <1>4, <1>7, <1>8, <1>9 DEF RecordDiscipline

\* Every applier: a record is created, updates, or is reported without a target.
LEMMA ApplyingKeeps ==
  ASSUME RecordParameters, RecordDiscipline, NEW b \in Batches, Works(b),
         Create(b) \/ Update(b) \/ Warn(b) \/ Refuse(b)
  PROVE  RecordDiscipline'
<1>1. /\ target \in [Ids -> [ref : Refs \cup {Nothing}, name : Names \cup {Nothing, "staff"},
                             batch : Batches \cup {Nothing}, state : {"none", "live", "deleted"},
                             touched : BOOLEAN]]
      /\ batch[b].hand \in Looked /\ 0 \in 0..MaxTargets
  BY RecordTypes DEF RecordDiscipline, RecordParameters
<1>2. CASE Update(b)
  <2> DEFINE k == batch[b].hand.target
  <2>1. /\ k # 0 /\ target' = [target EXCEPT ![k].name = InHand(b).name]
        /\ Item(b, "updated", k) /\ UNCHANGED source
    BY <1>2 DEF Update
  <2>2. k \in 0..MaxTargets /\ k \in Ids
    BY <1>1, <2>1 DEF Looked, Ids, RecordParameters
  <2>3. InHand(b).name \in Names
    <3>1. "updated" \in Dispositions
      BY DEF Dispositions
    <3> QED BY <2>1, <2>2, <3>1, ItemWrites
  <2> HIDE DEF k
  <2>4. /\ target' \in [Ids -> [ref : Refs \cup {Nothing}, name : Names \cup {Nothing, "staff"},
                                batch : Batches \cup {Nothing}, state : {"none", "live", "deleted"},
                                touched : BOOLEAN]]
        /\ \A i \in Ids : /\ target'[i].ref = target[i].ref /\ target'[i].batch = target[i].batch
                          /\ target'[i].state = target[i].state
    BY <1>1, <2>1, <2>2, <2>3
  <2>5. "updated" \in Dispositions \ {"accepted"}
    BY DEF Dispositions
  <2> QED BY <2>1, <2>2, <2>4, <2>5, OtherItemsKeep
<1>3. CASE Warn(b) \/ Refuse(b)
  <2>1. PICK disp \in {"warned", "refused"} : Item(b, disp, 0)
    BY <1>3 DEF Warn, Refuse
  <2>2. UNCHANGED <<target, source>> /\ disp \in Dispositions \ {"accepted"} /\ disp # "updated"
    BY <1>3 DEF Warn, Refuse, Dispositions
  <2> QED BY <1>1, <2>1, <2>2, OtherItemsKeep
<1>4. CASE Create(b)
  BY <1>4, CreatingKeeps
<1> QED BY <1>2, <1>3, <1>4

\* Staff edit a target: its name, and that it was touched.
LEMMA StaffKeep ==
  ASSUME RecordParameters, RecordDiscipline, NEW k \in Ids, Touch(k)
  PROVE  RecordDiscipline'
<1>1. /\ target' = [target EXCEPT ![k].name = "staff", ![k].touched = TRUE]
      /\ UNCHANGED <<source, batch, record, reversal>>
  BY DEF Touch
<1>2. target \in [Ids -> [ref : Refs \cup {Nothing}, name : Names \cup {Nothing, "staff"},
                          batch : Batches \cup {Nothing}, state : {"none", "live", "deleted"},
                          touched : BOOLEAN]]
  BY RecordTypes DEF RecordDiscipline
<1>3. target'[k] = [target[k] EXCEPT !.name = "staff", !.touched = TRUE]
      /\ \A i \in Ids \ {k} : target'[i] = target[i]
  BY <1>1, <1>2
<1>4. /\ target' \in [Ids -> [ref : Refs \cup {Nothing}, name : Names \cup {Nothing, "staff"},
                              batch : Batches \cup {Nothing}, state : {"none", "live", "deleted"},
                              touched : BOOLEAN]]
      /\ \A i \in Ids : /\ target'[i].ref = target[i].ref /\ target'[i].batch = target[i].batch
                        /\ target'[i].state = target[i].state
  <2>1. target[k] \in [ref : Refs \cup {Nothing}, name : Names \cup {Nothing, "staff"},
                     batch : Batches \cup {Nothing}, state : {"none", "live", "deleted"}, touched : BOOLEAN]
    BY <1>2
  <2>2. /\ target'[k] \in [ref : Refs \cup {Nothing}, name : Names \cup {Nothing, "staff"},
                     batch : Batches \cup {Nothing}, state : {"none", "live", "deleted"}, touched : BOOLEAN]
        /\ target'[k].ref = target[k].ref /\ target'[k].batch = target[k].batch
        /\ target'[k].state = target[k].state
    BY <1>3, <2>1
  <2> QED BY <1>1, <1>2, <1>3, <2>2
<1> QED BY <1>1, <1>4, TouchingKeeps

\* The items of an ended batch: if none blocks the reversal, each was created by the batch,
\* and everything the batch created is among their targets.
LEMMA UnblockedItems ==
  ASSUME RecordParameters, RecordDiscipline, NEW b \in Batches,
         \A r \in Refs : record[b][r].disp # "updated"
  PROVE  \A k \in Ids : k \in Targets(b) <=> target[k].batch = b
<1> SUFFICES ASSUME NEW k \in Ids PROVE k \in Targets(b) <=> target[k].batch = b
  OBVIOUS
<1>1. k # 0 /\ b # Nothing
  BY DEF Ids, RecordParameters
<1>2. ASSUME k \in Targets(b) PROVE target[k].batch = b
  <2>1. PICK r \in Refs : record[b][r].target = k
    BY <1>2 DEF Targets
  <2> QED BY <1>1, <2>1 DEF RecordDiscipline, ItemsHaveTargets
<1>3. ASSUME target[k].batch = b PROVE k \in Targets(b)
  <2>1. target[k].state # "none"
    BY <1>1, <1>3 DEF RecordDiscipline, CreatedAreItemised
  <2>2. target[k].ref \in Refs /\ record[b][target[k].ref].target = k
    BY <1>3, <2>1 DEF RecordDiscipline, CreatedAreItemised
  <2> QED BY <1>1, <2>2 DEF Targets
<1> QED BY <1>2, <1>3

\* An exam finds what the items of an ended batch are; recording what blocks a reversal
\* leaves a reversed batch reversed.
LEMMA ExamsKeep ==
  ASSUME RecordParameters, RecordDiscipline, NEW v \in Reversers,
         (\E b \in Batches : Exam(v, b)) \/ RecordBlockers(v)
  PROVE  RecordDiscipline'
<1>1. /\ batch \in [Batches -> [file : Files \cup {<<>>}, at : 0..3, runs : Nat, hand : Looked,
                                state : {"none", "running", "completed", "partially_blocked", "reversed"}]]
      /\ record \in [Batches -> [Refs -> [disp : Dispositions \cup {Nothing}, target : 0..MaxTargets]]]
      /\ reversal \in [Reversers -> [of : Batches \cup {Nothing}, blocked : BOOLEAN, plan : SUBSET Ids]]
      /\ Nothing \notin Batches
  BY RecordTypes DEF RecordDiscipline, RecordParameters
<1>2. ASSUME NEW b \in Batches, Exam(v, b) PROVE RecordDiscipline'
  <2>1. /\ batch[b].state \in {"completed", "partially_blocked"}
        /\ reversal' = [reversal EXCEPT ![v] = [of |-> b, blocked |-> Blocks(b), plan |-> Targets(b)]]
        /\ UNCHANGED <<target, source, batch, record>>
    BY <1>2 DEF Exam, Examined
  <2>2. Blocks(b) \in BOOLEAN
    BY DEF Blocks
  <2>3. Targets(b) \in SUBSET Ids
    BY <1>1 DEF Targets, Ids, RecordParameters
  <2>4. /\ reversal' \in [Reversers -> [of : Batches \cup {Nothing}, blocked : BOOLEAN, plan : SUBSET Ids]]
        /\ reversal'[v].of = b /\ (reversal'[v].blocked <=> Blocks(b)) /\ reversal'[v].plan = Targets(b)
        /\ \A w \in Reversers \ {v} : reversal'[w] = reversal[w]
    BY <1>1, <2>1, <2>2, <2>3
  <2>5. RecordTypeOK'
    BY <2>1, <2>4 DEF RecordDiscipline, RecordTypeOK
  <2>6. ~Blocks(b) => \A r \in Refs : record[b][r].disp # "updated"
    BY DEF Blocks, RecordDiscipline, ItemsHaveTargets
  <2>7. \A c \in Batches : Targets(c)' = Targets(c)
    BY <2>1 DEF Targets
  <2>8. RunningIsUnexamined'
    <3> SUFFICES ASSUME NEW w \in Reversers, reversal'[w].of # Nothing
                 PROVE  /\ reversal'[w].of \in Batches
                        /\ batch[reversal'[w].of].state \in {"completed", "partially_blocked", "reversed"}
                        /\ ~reversal'[w].blocked =>
                              /\ reversal'[w].plan = Targets(reversal'[w].of)
                              /\ \A r \in Refs : record[reversal'[w].of][r].disp # "updated"
      BY <2>1, <2>7 DEF RecordDiscipline, RunningIsUnexamined
    <3>1. CASE w = v
      BY <2>1, <2>4, <2>6, <3>1
    <3>2. CASE w # v
      BY <2>4, <3>2 DEF RecordDiscipline, RunningIsUnexamined
    <3> QED BY <3>1, <3>2
  <2>9. CreatedAreItemised' /\ ItemsHaveTargets' /\ GoneTogether' /\ UpdatesAreFinal'
    BY <2>1 DEF RecordDiscipline, CreatedAreItemised, ItemsHaveTargets, GoneTogether, UpdatesAreFinal
  <2> QED BY <2>5, <2>8, <2>9 DEF RecordDiscipline
<1>3. CASE RecordBlockers(v)
  <2> DEFINE b == reversal[v].of
  <2>1. /\ b # Nothing
        /\ batch' = [batch EXCEPT ![b].state = IF @ = "reversed" THEN @ ELSE "partially_blocked"]
        /\ reversal' = [reversal EXCEPT ![v].of = Nothing, ![v].plan = {}]
        /\ UNCHANGED <<target, source, record>>
    BY <1>3 DEF RecordBlockers, Answered
  <2>2. b \in Batches /\ batch[b].state \in {"completed", "partially_blocked", "reversed"} /\ batch[b].at = 0
    BY <2>1 DEF RecordDiscipline, RunningIsUnexamined
  <2> HIDE DEF b
  <2>3. /\ batch' \in [Batches -> [file : Files \cup {<<>>}, at : 0..3, runs : Nat, hand : Looked,
                                   state : {"none", "running", "completed", "partially_blocked", "reversed"}]]
        /\ \A c \in Batches \ {b} : batch'[c] = batch[c]
        /\ batch'[b].state = (IF batch[b].state = "reversed" THEN "reversed" ELSE "partially_blocked")
        /\ batch'[b].at = 0
    <3>1. batch[b] \in [file : Files \cup {<<>>}, at : 0..3, runs : Nat, hand : Looked,
                      state : {"none", "running", "completed", "partially_blocked", "reversed"}]
      BY <1>1, <2>2
    <3> DEFINE new == [batch[b] EXCEPT !.state = IF @ = "reversed" THEN @ ELSE "partially_blocked"]
    <3>2. /\ new \in [file : Files \cup {<<>>}, at : 0..3, runs : Nat, hand : Looked,
                      state : {"none", "running", "completed", "partially_blocked", "reversed"}]
          /\ new.state = (IF batch[b].state = "reversed" THEN "reversed" ELSE "partially_blocked")
          /\ new.at = 0
      BY <2>2, <3>1
    <3>3. batch' = [batch EXCEPT ![b] = new]
      BY <1>1, <2>1, <2>2
    <3> HIDE DEF new
    <3> QED BY <1>1, <2>2, <3>2, <3>3
  <2>4. /\ reversal' \in [Reversers -> [of : Batches \cup {Nothing}, blocked : BOOLEAN, plan : SUBSET Ids]]
        /\ reversal'[v].of = Nothing /\ \A w \in Reversers \ {v} : reversal'[w] = reversal[w]
    BY <1>1, <2>1
  <2>5. RecordTypeOK'
    BY <2>1, <2>3, <2>4, RecordTypes DEF RecordDiscipline, RecordTypeOK
  <2>6. \A c \in Batches : Targets(c)' = Targets(c)
    BY <2>1 DEF Targets
  <2>7. \A c \in Batches : /\ batch'[c].state = "reversed" <=> batch[c].state = "reversed"
                           /\ batch'[c].at # 0 => batch'[c].state = "running"
                           /\ batch[c].state \in {"completed", "partially_blocked", "reversed"} =>
                              batch'[c].state \in {"completed", "partially_blocked", "reversed"}
    <3> SUFFICES ASSUME NEW c \in Batches
                 PROVE  /\ batch'[c].state = "reversed" <=> batch[c].state = "reversed"
                        /\ batch'[c].at # 0 => batch'[c].state = "running"
                        /\ batch[c].state \in {"completed", "partially_blocked", "reversed"} =>
                           batch'[c].state \in {"completed", "partially_blocked", "reversed"}
      OBVIOUS
    <3>1. batch[c].at # 0 => batch[c].state = "running"
      BY DEF RecordDiscipline, RunningIsUnexamined
    <3>2. CASE c = b
      BY <2>2, <2>3, <3>2
    <3>3. CASE c # b
      BY <2>3, <3>1, <3>3
    <3> QED BY <3>2, <3>3
  <2>8. RunningIsUnexamined'
    <3>1. ASSUME NEW w \in Reversers, reversal'[w].of # Nothing
          PROVE  /\ reversal'[w].of \in Batches
                 /\ batch'[reversal'[w].of].state \in {"completed", "partially_blocked", "reversed"}
                 /\ ~reversal'[w].blocked =>
                       /\ reversal'[w].plan = Targets(reversal'[w].of)
                       /\ \A r \in Refs : record[reversal'[w].of][r].disp # "updated"
      <4>1. w # v /\ reversal'[w] = reversal[w]
        BY <2>4, <3>1
      <4> QED BY <2>7, <3>1, <4>1 DEF RecordDiscipline, RunningIsUnexamined
    <3>2. \A c \in Batches : batch'[c].at # 0 => batch'[c].state = "running"
      BY <2>7
    <3>3. record' = record
      BY <2>1
    <3> QED BY <2>6, <3>1, <3>2, <3>3 DEF RunningIsUnexamined
  <2>9. CreatedAreItemised' /\ ItemsHaveTargets'
    BY <2>1 DEF RecordDiscipline, CreatedAreItemised, ItemsHaveTargets
  <2>10. GoneTogether' /\ UpdatesAreFinal'
    <3>1. \A k \in Ids : target[k].state # "none" => target[k].batch \in Batches
      BY DEF RecordDiscipline, CreatedAreItemised
    <3> QED BY <2>1, <2>7, <3>1 DEF RecordDiscipline, GoneTogether, UpdatesAreFinal
  <2> QED BY <2>5, <2>8, <2>9, <2>10 DEF RecordDiscipline
<1> QED BY <1>2, <1>3

\* A reversal deletes what its batch created, all of it, and nothing else.
LEMMA ReversingKeeps ==
  ASSUME RecordParameters, RecordDiscipline, NEW v \in Reversers, ReverseImportBatch(v)
  PROVE  RecordDiscipline'
<1> DEFINE b == reversal[v].of
           P == reversal[v].plan
<1>1. /\ batch \in [Batches -> [file : Files \cup {<<>>}, at : 0..3, runs : Nat, hand : Looked,
                                state : {"none", "running", "completed", "partially_blocked", "reversed"}]]
      /\ target \in [Ids -> [ref : Refs \cup {Nothing}, name : Names \cup {Nothing, "staff"},
                             batch : Batches \cup {Nothing}, state : {"none", "live", "deleted"},
                             touched : BOOLEAN]]
      /\ record \in [Batches -> [Refs -> [disp : Dispositions \cup {Nothing}, target : 0..MaxTargets]]]
      /\ reversal \in [Reversers -> [of : Batches \cup {Nothing}, blocked : BOOLEAN, plan : SUBSET Ids]]
      /\ Nothing \notin Batches
  BY RecordTypes DEF RecordDiscipline, RecordParameters
<1>2. /\ b # Nothing /\ ~reversal[v].blocked
      /\ target' = [k \in Ids |-> IF k \in P THEN [target[k] EXCEPT !.state = "deleted"] ELSE target[k]]
      /\ batch' = [batch EXCEPT ![b].state = "reversed", ![b].runs = @ + 1]
      /\ reversal' = [reversal EXCEPT ![v].of = Nothing, ![v].plan = {}]
      /\ UNCHANGED <<source, record>>
  BY DEF ReverseImportBatch, Answered
<1>3. /\ b \in Batches /\ batch[b].state \in {"completed", "partially_blocked", "reversed"} /\ batch[b].at = 0
      /\ P = Targets(b) /\ \A r \in Refs : record[b][r].disp # "updated"
  BY <1>2 DEF RecordDiscipline, RunningIsUnexamined
<1> HIDE DEF b, P
<1>4. \A k \in Ids : k \in P <=> target[k].batch = b
  BY <1>3, UnblockedItems
<1>5. /\ batch' \in [Batches -> [file : Files \cup {<<>>}, at : 0..3, runs : Nat, hand : Looked,
                                 state : {"none", "running", "completed", "partially_blocked", "reversed"}]]
      /\ \A c \in Batches \ {b} : batch'[c] = batch[c]
      /\ batch'[b].state = "reversed" /\ batch'[b].at = 0
  <2>1. batch[b] \in [file : Files \cup {<<>>}, at : 0..3, runs : Nat, hand : Looked,
                      state : {"none", "running", "completed", "partially_blocked", "reversed"}]
    BY <1>1, <1>3
  <2> DEFINE new == [batch[b] EXCEPT !.state = "reversed", !.runs = @ + 1]
  <2>2. batch' = [batch EXCEPT ![b] = new]
    BY <1>1, <1>2, <1>3
  <2>3. new \in [file : Files \cup {<<>>}, at : 0..3, runs : Nat, hand : Looked,
                      state : {"none", "running", "completed", "partially_blocked", "reversed"}]
    <3>1. batch[b].runs + 1 \in Nat
      BY <2>1
    <3>2. [batch[b] EXCEPT !.state = "reversed"]
            \in [file : Files \cup {<<>>}, at : 0..3, runs : Nat, hand : Looked,
                 state : {"none", "running", "completed", "partially_blocked", "reversed"}]
      BY <2>1
    <3>3. new = [[batch[b] EXCEPT !.state = "reversed"] EXCEPT !.runs = batch[b].runs + 1]
      BY <2>1
    <3> HIDE DEF new
    <3> QED BY <3>1, <3>2, <3>3
  <2>4. new.state = "reversed" /\ new.at = 0
    BY <1>3, <2>1
  <2> HIDE DEF new
  <2> QED BY <1>1, <1>3, <2>2, <2>3, <2>4
<1>6. /\ reversal' \in [Reversers -> [of : Batches \cup {Nothing}, blocked : BOOLEAN, plan : SUBSET Ids]]
      /\ reversal'[v].of = Nothing /\ \A w \in Reversers \ {v} : reversal'[w] = reversal[w]
  <2> DEFINE R == [of : Batches \cup {Nothing}, blocked : BOOLEAN, plan : SUBSET Ids]
             new == [reversal[v] EXCEPT !.of = Nothing, !.plan = {}]
  <2>1. new \in R /\ new.of = Nothing /\ reversal' = [reversal EXCEPT ![v] = new]
    BY <1>1, <1>2
  <2>2. reversal \in [Reversers -> R]
    BY <1>1
  <2> HIDE DEF R, new
  <2>3. reversal' \in [Reversers -> R] /\ reversal'[v] = new /\ \A w \in Reversers \ {v} : reversal'[w] = reversal[w]
    BY <2>1, <2>2
  <2> QED BY <2>1, <2>3 DEF R
<1>7. /\ target' \in [Ids -> [ref : Refs \cup {Nothing}, name : Names \cup {Nothing, "staff"},
                              batch : Batches \cup {Nothing}, state : {"none", "live", "deleted"},
                              touched : BOOLEAN]]
      /\ \A k \in Ids : /\ target'[k].ref = target[k].ref /\ target'[k].batch = target[k].batch
                        /\ target'[k].state = IF target[k].batch = b THEN "deleted" ELSE target[k].state
  <2>1. ASSUME NEW k \in Ids
        PROVE  /\ target'[k] \in [ref : Refs \cup {Nothing}, name : Names \cup {Nothing, "staff"},
                     batch : Batches \cup {Nothing}, state : {"none", "live", "deleted"}, touched : BOOLEAN]
               /\ target'[k].ref = target[k].ref /\ target'[k].batch = target[k].batch
               /\ target'[k].state = IF target[k].batch = b THEN "deleted" ELSE target[k].state
    <3>1. target[k] \in [ref : Refs \cup {Nothing}, name : Names \cup {Nothing, "staff"},
                     batch : Batches \cup {Nothing}, state : {"none", "live", "deleted"}, touched : BOOLEAN]
      BY <1>1
    <3>2. CASE k \in P
      <4>1. target'[k] = [target[k] EXCEPT !.state = "deleted"] /\ target[k].batch = b
        BY <1>2, <1>4, <3>2
      <4> QED BY <3>1, <4>1
    <3>3. CASE k \notin P
      <4>1. target'[k] = target[k] /\ target[k].batch # b
        BY <1>2, <1>4, <3>3
      <4> QED BY <3>1, <4>1
    <3> QED BY <3>2, <3>3
  <2> QED BY <1>2, <2>1
<1>8. RecordTypeOK'
  BY <1>2, <1>5, <1>6, <1>7, RecordTypes DEF RecordDiscipline, RecordTypeOK
<1>9. \A k \in Ids : target[k].batch = b => target[k].state # "none"
  BY <1>1, <1>3 DEF RecordDiscipline, CreatedAreItemised
<1>10. CreatedAreItemised'
  <2>1. \A k \in Ids : target'[k].state # "none" <=> target[k].state # "none"
    BY <1>7, <1>9
  <2> QED BY <1>2, <1>7, <2>1 DEF RecordDiscipline, CreatedAreItemised
<1>11. ItemsHaveTargets'
  <2>1. \A c \in Batches : \A r \in Refs : record[c][r].disp = "accepted" => record[c][r].target \in Ids
    BY RecordTypes DEF RecordDiscipline, ItemsHaveTargets, Ids, RecordParameters
  <2> QED BY <1>2, <1>7, <2>1 DEF RecordDiscipline, ItemsHaveTargets
<1>12. RunningIsUnexamined'
  <2>1. \A c \in Batches : Targets(c)' = Targets(c)
    BY <1>2 DEF Targets
  <2>2. \A c \in Batches : /\ batch'[c].at # 0 => batch'[c].state = "running"
                           /\ batch[c].state \in {"completed", "partially_blocked", "reversed"} =>
                              batch'[c].state \in {"completed", "partially_blocked", "reversed"}
    BY <1>5 DEF RecordDiscipline, RunningIsUnexamined
  <2>3. ASSUME NEW w \in Reversers, reversal'[w].of # Nothing
        PROVE  /\ reversal'[w].of \in Batches
               /\ batch'[reversal'[w].of].state \in {"completed", "partially_blocked", "reversed"}
               /\ ~reversal'[w].blocked =>
                     /\ reversal'[w].plan = Targets(reversal'[w].of)
                     /\ \A r \in Refs : record[reversal'[w].of][r].disp # "updated"
    <3>1. w # v /\ reversal'[w] = reversal[w]
      BY <1>6, <2>3
    <3> QED BY <2>2, <2>3, <3>1 DEF RecordDiscipline, RunningIsUnexamined
  <2>4. record' = record
    BY <1>2
  <2> QED BY <2>1, <2>2, <2>3, <2>4 DEF RunningIsUnexamined
<1>13. GoneTogether'
  <2> SUFFICES ASSUME NEW k \in Ids, target'[k].state # "none"
               PROVE  target'[k].state = "deleted" <=> batch'[target'[k].batch].state = "reversed"
    BY DEF GoneTogether
  <2>1. CASE target[k].batch = b
    BY <1>5, <1>7, <2>1
  <2>2. CASE target[k].batch # b
    <3>1. target'[k].state = target[k].state /\ target'[k].batch = target[k].batch
      BY <1>7, <2>2
    <3>2. target[k].batch \in Batches \ {b}
      BY <2>2, <3>1 DEF RecordDiscipline, CreatedAreItemised
    <3>3. batch'[target[k].batch] = batch[target[k].batch]
      BY <1>5, <3>2
    <3> QED BY <3>1, <3>3 DEF RecordDiscipline, GoneTogether
  <2> QED BY <2>1, <2>2
<1>14. UpdatesAreFinal'
  BY <1>2, <1>3, <1>5 DEF RecordDiscipline, UpdatesAreFinal
<1> QED BY <1>8, <1>10, <1>11, <1>12, <1>13, <1>14 DEF RecordDiscipline

\* The invariant of the record domains holds from the start and after every step.
THEOREM RecordsStayInStep == RecordParameters /\ RecordSpec => []RecordDiscipline
<1>1. RecordParameters /\ RecordInit => RecordDiscipline
  <2> SUFFICES ASSUME RecordParameters, RecordInit PROVE RecordDiscipline
    OBVIOUS
  <2> USE DEF RecordParameters
  <2>1. /\ target = [k \in Ids |-> Absent] /\ source = [r \in Refs |-> 0]
        /\ batch = [b \in Batches |-> [file |-> <<>>, state |-> "none", at |-> 0, hand |-> Unread, runs |-> 0]]
        /\ record = [b \in Batches |-> [r \in Refs |-> [disp |-> Nothing, target |-> 0]]]
        /\ reversal = [v \in Reversers |-> [of |-> Nothing, blocked |-> FALSE, plan |-> {}]]
    BY DEF RecordInit
  <2>2. Unread \in Looked /\ Nothing \notin {"accepted", "updated"}
    BY DEF Unread, Looked, Dispositions
  <2>3. /\ batch \in [Batches -> [file : Files \cup {<<>>}, at : 0..3, runs : Nat, hand : Looked,
                                  state : {"none", "running", "completed", "partially_blocked", "reversed"}]]
        /\ \A b \in Batches : batch[b].state = "none" /\ batch[b].at = 0
    <3> HIDE DEF Files, Looked, Unread
    <3> QED BY <2>1, <2>2
  <2>4. /\ target \in [Ids -> [ref : Refs \cup {Nothing}, name : Names \cup {Nothing, "staff"},
                               batch : Batches \cup {Nothing}, state : {"none", "live", "deleted"},
                               touched : BOOLEAN]]
        /\ \A k \in Ids : target[k].state = "none" /\ target[k].ref = Nothing /\ target[k].batch = Nothing
    BY <2>1 DEF Absent
  <2>5. /\ record \in [Batches -> [Refs -> [disp : Dispositions \cup {Nothing}, target : 0..MaxTargets]]]
        /\ \A b \in Batches : \A r \in Refs : record[b][r].target = 0 /\ record[b][r].disp = Nothing
    BY <2>1
  <2>6. /\ reversal \in [Reversers -> [of : Batches \cup {Nothing}, blocked : BOOLEAN, plan : SUBSET Ids]]
        /\ \A v \in Reversers : reversal[v].of = Nothing
    BY <2>1
  <2>7. RecordTypeOK
    <3>1. source \in [Refs -> 0..MaxTargets]
      BY <2>1
    <3> QED BY <2>3, <2>4, <2>5, <2>6, <3>1 DEF RecordTypeOK
  <2>8. CreatedAreItemised /\ ItemsHaveTargets /\ RunningIsUnexamined /\ GoneTogether /\ UpdatesAreFinal
    BY <2>2, <2>3, <2>4, <2>5, <2>6
       DEF CreatedAreItemised, ItemsHaveTargets, RunningIsUnexamined, GoneTogether, UpdatesAreFinal
  <2> QED BY <2>7, <2>8 DEF RecordDiscipline
<1>2. ASSUME RecordParameters, RecordDiscipline, RecordNext PROVE RecordDiscipline'
  <2>1. ASSUME NEW b \in Batches, StartBatch(b) \/ LookUp(b) \/ FinishBatch(b) \/ AbandonBatch(b)
        PROVE  RecordDiscipline'
    BY <1>2, <2>1, BatchesGoOn
  <2>2. ASSUME NEW b \in Batches,
               \/ ApplyClientRecord(b) \/ ApplyMatterRecord(b) \/ ApplyNoteRecord(b) \/ ApplyDocumentRecord(b)
               \/ ApplyTimeEntryRecord(b) \/ ApplyBillRecord(b) \/ ApplyOtherRecord(b)
        PROVE  RecordDiscipline'
    <3>1. Works(b) /\ (Create(b) \/ Update(b) \/ Warn(b) \/ Refuse(b))
      BY <2>2 DEF ApplyClientRecord, ApplyMatterRecord, ApplyNoteRecord, ApplyDocumentRecord,
                  ApplyTimeEntryRecord, ApplyBillRecord, ApplyOtherRecord, Applies
    <3> QED BY <1>2, <3>1, ApplyingKeeps
  <2>3. ASSUME NEW k \in Ids, Touch(k) PROVE RecordDiscipline'
    BY <1>2, <2>3, StaffKeep
  <2>4. ASSUME NEW v \in Reversers, (\E b \in Batches : Exam(v, b)) \/ RecordBlockers(v) PROVE RecordDiscipline'
    BY <1>2, <2>4, ExamsKeep
  <2>5. ASSUME NEW v \in Reversers, ReverseImportBatch(v) PROVE RecordDiscipline'
    BY <1>2, <2>5, ReversingKeeps
  <2> QED BY <1>2, <2>1, <2>2, <2>3, <2>4, <2>5 DEF RecordNext
<1>3. RecordDiscipline /\ UNCHANGED recordVars => RecordDiscipline'
  <2> SUFFICES ASSUME RecordDiscipline, UNCHANGED recordVars PROVE RecordDiscipline'
    OBVIOUS
  <2>1. UNCHANGED <<target, source, batch, record, reversal>>
    BY DEF recordVars
  <2>2. RecordTypeOK'
    BY <2>1 DEF RecordDiscipline, RecordTypeOK
  <2>3. CreatedAreItemised' /\ ItemsHaveTargets' /\ GoneTogether' /\ UpdatesAreFinal'
    BY <2>1 DEF RecordDiscipline, CreatedAreItemised, ItemsHaveTargets, GoneTogether, UpdatesAreFinal
  <2>4. RunningIsUnexamined'
    BY <2>1 DEF RecordDiscipline, RunningIsUnexamined, Targets
  <2> QED BY <2>2, <2>3, <2>4 DEF RecordDiscipline
<1>4. ASSUME RecordParameters PROVE RecordSpec => []RecordDiscipline
  <2>1. RecordInit => RecordDiscipline
    BY <1>1, <1>4
  <2>2. RecordDiscipline /\ [RecordNext]_recordVars => RecordDiscipline'
    BY <1>2, <1>3, <1>4
  <2> QED BY <2>1, <2>2, PTL DEF RecordSpec
<1> QED BY <1>4

\* A line of the source system lands once, however many batches carry it at once.
THEOREM LinesLandOnce == RecordParameters /\ RecordSpec => []ImportedOnce
<1>1. ASSUME RecordParameters PROVE RecordDiscipline => ImportedOnce
  <2> SUFFICES ASSUME RecordDiscipline, NEW j \in Ids, NEW k \in Ids, target[j].ref # Nothing,
                      target[j].ref = target[k].ref
               PROVE  j = k
    BY DEF ImportedOnce
  <2>1. target[j].state # "none" /\ target[k].state # "none"
    BY DEF RecordDiscipline, CreatedAreItemised
  <2> QED BY <2>1 DEF RecordDiscipline, CreatedAreItemised
<1>2. ASSUME RecordParameters PROVE RecordSpec => []ImportedOnce
  <2>1. RecordDiscipline => ImportedOnce
    BY <1>1, <1>2
  <2>2. RecordSpec => []RecordDiscipline
    BY <1>2, RecordsStayInStep
  <2> QED BY <2>1, <2>2, PTL
<1> QED BY <1>2

\* A batch is reversed exactly when everything it created is gone, and never when it
\* updated something (reverse.ts).
THEOREM BatchesAreWhole == RecordParameters /\ RecordSpec => [](AllOrNothing /\ UpdatesAreFinal)
<1>1. ASSUME RecordParameters PROVE RecordDiscipline => AllOrNothing /\ UpdatesAreFinal
  <2> SUFFICES ASSUME RecordDiscipline, NEW b \in Batches, NEW k \in Ids, target[k].batch = b
               PROVE  target[k].state = "deleted" <=> batch[b].state = "reversed"
    BY DEF RecordDiscipline, AllOrNothing
  <2>1. target[k].state # "none"
    BY <1>1 DEF RecordDiscipline, CreatedAreItemised, RecordParameters
  <2> QED BY <2>1 DEF RecordDiscipline, GoneTogether
<1>2. ASSUME RecordParameters PROVE RecordSpec => [](AllOrNothing /\ UpdatesAreFinal)
  <2>1. RecordDiscipline => AllOrNothing /\ UpdatesAreFinal
    BY <1>1, <1>2
  <2>2. RecordSpec => []RecordDiscipline
    BY <1>2, RecordsStayInStep
  <2> QED BY <2>1, <2>2, PTL
<1> QED BY <1>2

=============================================================================
