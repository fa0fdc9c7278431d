----------------------------- MODULE LedgerProofs -----------------------------
(***************************************************************************)
(* For any sessions, ledgers, amounts and earmarks.  Posting: the ledger    *)
(* locks alone keep the stored running balances equal to the sums of their  *)
(* lines, no ledger below zero, and closed ledgers empty.  Money: what is   *)
(* set aside stays covered, every account's cash book agrees with its       *)
(* ledgers, and a posting is reversed once and exactly.  Refinement: the    *)
(* sessions, interleaved statement by statement, do what ClientLedger does. *)
(***************************************************************************)
EXTENDS LedgerPosting, SumProofs, SequenceTheorems, TLAPS

-----------------------------------------------------------------------------
(* Typing of the postings and the jobs built from them. *)

\* The four posting builders return postings.
LEMMA PostingTypes ==
  ASSUME NEW l \in Ledgers, NEW t \in Ledgers, NEW x \in Int
  PROVE  /\ ReceiptPosting(l, x) \in Posting
         /\ PaymentPosting(l, x) \in Posting
         /\ TransferPosting(l, t, x) \in Posting
  BY AccountsAssumption DEF ReceiptPosting, PaymentPosting, TransferPosting, Posting, Line,
                            CashLine, LedgerLine

\* A function on 1..n is a sequence.
LEMMA FunctionIsSeq ==
  ASSUME NEW S, NEW n \in Nat, NEW f \in [1..n -> S]
  PROVE  f \in Seq(S)
  OBVIOUS

\* Turning the signs of a posting's lines yields a posting on the same ledgers.
LEMMA MirrorTypes ==
  ASSUME NEW p \in Posting, NEW n \in Nat
  PROVE  /\ MirrorPosting(p, n) \in Posting
         /\ LedgersOf(MirrorPosting(p, n)) = LedgersOf(p)
<1>1. /\ p.lines \in Seq(Line)
      /\ \A i \in DOMAIN p.lines : p.lines[i] \in Line
  BY DEF Posting
<1>2. \A i \in DOMAIN p.lines :
         /\ [p.lines[i] EXCEPT !.amount = -@] \in Line
         /\ [p.lines[i] EXCEPT !.amount = -@].ledger = p.lines[i].ledger
  BY <1>1 DEF Line
<1>3. MirrorPosting(p, n).lines \in Seq(Line)
  <2>1. Len(p.lines) \in Nat /\ DOMAIN p.lines = 1..Len(p.lines)
    BY <1>1, LenProperties
  <2>2. MirrorPosting(p, n).lines \in [1..Len(p.lines) -> Line]
    BY <1>2, <2>1 DEF MirrorPosting
  <2> QED BY <2>1, <2>2, FunctionIsSeq
<1>4. MirrorPosting(p, n) \in Posting
  BY <1>3 DEF MirrorPosting, Posting
<1>5. LedgersOf(MirrorPosting(p, n)) = LedgersOf(p)
  BY <1>2 DEF LedgersOf, MirrorPosting
<1> QED BY <1>4, <1>5

\* Ledgers named by a posting's lines are ledgers.
LEMMA LedgersOfType ==
  ASSUME NEW p \in Posting
  PROVE  /\ LedgersOf(p) \subseteq Ledgers
         /\ \A i \in DOMAIN p.lines :
              p.lines[i].side = "matter_ledger" => p.lines[i].ledger \in LedgersOf(p)
<1>1. \A i \in DOMAIN p.lines : p.lines[i] \in Line
  BY DEF Posting
<1> QED BY <1>1, LedgersAssumption DEF LedgersOf, Line

\* An index into a concatenation is one into its first or its second part.
LEMMA IndexSplit ==
  ASSUME NEW a \in Nat, NEW b \in Nat, NEW i \in 1..(a + b)
  PROVE  /\ i <= a => i \in 1..a
         /\ ~(i <= a) => i - a \in 1..b
  OBVIOUS

\* A job made of one or two postings locks every ledger its lines land on.
LEMMA PostJobTypes ==
  ASSUME NEW ps \in Seq(Posting), Len(ps) \in {1, 2}
  PROVE  PostJob(ps) \in Job /\ JobOK(PostJob(ps)) /\ PostJob(ps).op = "post"
<1> DEFINE W == UNION {LedgersOf(ps[i]) : i \in DOMAIN ps}
<1>1. \A i \in DOMAIN ps : ps[i] \in Posting /\ ps[i].lines \in Seq(Line)
  <2>1. \A i \in DOMAIN ps : ps[i] \in Posting
    BY ElementOfSeq, LenProperties
  <2> QED BY <2>1 DEF Posting
<1>2. W \subseteq Ledgers
  BY <1>1, LedgersOfType
<1>3. CASE Len(ps) = 1
  <2>1. LinesOf(ps) = ps[1].lines /\ 1 \in DOMAIN ps
    BY <1>3 DEF LinesOf
  <2>2. \A i \in DOMAIN LinesOf(ps) : LinesOf(ps)[i].side = "matter_ledger" => LinesOf(ps)[i].ledger \in W
    BY <1>1, <2>1, LedgersOfType
  <2> QED BY <1>1, <1>2, <2>1, <2>2 DEF PostJob, NoJob, Job, JobOK
<1>4. CASE Len(ps) = 2
  <2>1. LinesOf(ps) = ps[1].lines \o ps[2].lines /\ 1 \in DOMAIN ps /\ 2 \in DOMAIN ps
    BY <1>4 DEF LinesOf
  <2>2. LinesOf(ps) \in Seq(Line)
    BY <1>1, <2>1
  <2>3. ASSUME NEW i \in DOMAIN LinesOf(ps), LinesOf(ps)[i].side = "matter_ledger"
        PROVE  LinesOf(ps)[i].ledger \in W
    <3>1. /\ Len(ps[1].lines) \in Nat /\ DOMAIN ps[1].lines = 1..Len(ps[1].lines)
          /\ Len(ps[2].lines) \in Nat /\ DOMAIN ps[2].lines = 1..Len(ps[2].lines)
      BY <1>1, <2>1, LenProperties
    <3> DEFINE n1 == Len(ps[1].lines)
               n2 == Len(ps[2].lines)
    <3>0. i \in 1..(n1 + n2)
      <4>1. DOMAIN LinesOf(ps) = 1..Len(LinesOf(ps))
        BY <2>2, LenProperties
      <4>2. Len(LinesOf(ps)) = n1 + n2
        BY <1>1, <2>1, ConcatProperties
      <4>3. DOMAIN LinesOf(ps) = 1..(n1 + n2)
        BY ONLY <4>1, <4>2
      <4> QED BY ONLY <2>3, <4>3
    <3>2. LinesOf(ps)[i] = IF i <= n1 THEN ps[1].lines[i] ELSE ps[2].lines[i - n1]
      BY <1>1, <2>1, <3>0, ConcatProperties
    <3>3. /\ i <= n1 => i \in DOMAIN ps[1].lines
          /\ ~(i <= n1) => i - n1 \in DOMAIN ps[2].lines
      <4> HIDE DEF n1, n2
      <4>1. n1 \in Nat /\ n2 \in Nat
        BY <3>1 DEF n1, n2
      <4>2. /\ i <= n1 => i \in 1..n1
            /\ ~(i <= n1) => i - n1 \in 1..n2
        BY <3>0, <4>1, IndexSplit
      <4> QED BY <3>1, <4>2 DEF n1, n2
    <3>4. CASE i <= n1
      BY <1>1, <2>1, <2>3, <3>2, <3>3, <3>4, LedgersOfType
    <3>5. CASE ~(i <= n1)
      BY <1>1, <2>1, <2>3, <3>2, <3>3, <3>5, LedgersOfType
    <3> QED BY <3>4, <3>5
  <2> QED BY <1>1, <1>2, <2>1, <2>2, <2>3 DEF PostJob, NoJob, Job, JobOK
<1> QED BY <1>3, <1>4

\* Nothing is set aside on a ledger without an active earmark.
LEMMA NothingMarked ==
  ASSUME NEW em, NEW l, ActiveOn(em, l) = {}
  PROVE  Marked(em, l) = 0
  BY SumOfNone DEF Marked, AmountOf

-----------------------------------------------------------------------------
(* The inductive invariant. *)

IInv == TypeOK /\ LockDiscipline

\* An idle session's job is well formed.
LEMMA NoJobOK == NoJob \in Job /\ JobOK(NoJob)
  BY DEF NoJob, Job, JobOK

\* No session holds anything at the start.
LEMMA InitIInv == Init => IInv
<1> SUFFICES ASSUME Init PROVE IInv
  OBVIOUS
<1>1. TypeOK
  BY NoJobOK DEF Init, TypeOK, LedgerStatus, EarmarkRow, NoEarmark
<1>2. LockDiscipline
  BY NoJobOK DEF Init, LockDiscipline, WritesUnderLock, ReadyStillHolds, EndsUnderRowLock,
    IdleIsClean, OnOpenLedgersOnly, StoredBalanceIsTheSum, NeverBelowZero, NoEarmark, NoJob
<1> QED BY <1>1, <1>2 DEF IInv

\* An idle session taking up a well-formed job.
LEMMA StartIInv ==
  ASSUME IInv, NEW s \in Sessions, NEW name, NEW j \in Job, JobOK(j), Start(s, name, j)
  PROVE  IInv'
<1> USE DEF Start, committed, locks, writes
<1>1. TypeOK'
  BY DEF IInv, TypeOK
<1>2. \A t \in Sessions : JobOK(job[t])'
  BY DEF IInv, TypeOK, LockDiscipline, JobOK
<1>3. WritesUnderLock'
  BY DEF IInv, TypeOK, LockDiscipline, WritesUnderLock, IdleIsClean, Landable, Opens
<1>4. ReadyStillHolds'
  BY DEF IInv, TypeOK, LockDiscipline, ReadyStillHolds, Holds
<1>5. EndsUnderRowLock' /\ IdleIsClean' /\ OnOpenLedgersOnly' /\ StoredBalanceIsTheSum' /\ NeverBelowZero'
  BY DEF IInv, TypeOK, LockDiscipline, EndsUnderRowLock, IdleIsClean, OnOpenLedgersOnly,
    StoredBalanceIsTheSum, NeverBelowZero
<1> QED BY <1>1, <1>2, <1>3, <1>4, <1>5 DEF IInv, LockDiscipline

\* Jobs that open, close or reopen a ledger.
LEMMA LedgerJobTypes ==
  ASSUME NEW l \in Ledgers
  PROVE  /\ LedgerJob("open", l, "open") \in Job /\ JobOK(LedgerJob("open", l, "open"))
         /\ LedgerJob("reopen", l, "open") \in Job /\ JobOK(LedgerJob("reopen", l, "open"))
         /\ LedgerJob("close", l, "closed") \in Job /\ JobOK(LedgerJob("close", l, "closed"))
<1>1. LedgerJob("open", l, "open") \in Job /\ LedgerJob("reopen", l, "open") \in Job
  BY NoJobOK DEF LedgerJob, Job
<1>2. LedgerJob("close", l, "closed") \in Job
  BY NoJobOK DEF LedgerJob, Job
<1>3. /\ JobOK(LedgerJob("open", l, "open")) /\ JobOK(LedgerJob("reopen", l, "open"))
      /\ JobOK(LedgerJob("close", l, "closed"))
  BY DEF LedgerJob, NoJob, JobOK
<1> QED BY <1>1, <1>2, <1>3

\* Jobs that place an earmark.
LEMMA PlaceJobTypes ==
  ASSUME NEW l \in Ledgers, NEW x \in Nat, x > 0,
         NEW j, j = [LedgerJob("place", l, "same") EXCEPT !.amount = x]
  PROVE  j \in Job /\ JobOK(j)
<1>1. j \in Job
  BY NoJobOK DEF LedgerJob, Job
<1>2. JobOK(j)
  BY DEF LedgerJob, NoJob, JobOK
<1> QED BY <1>1, <1>2

\* Jobs that release one.
LEMMA ReleaseJobTypes ==
  ASSUME NEW e \in EarmarkIds, NEW x \in Nat,
         NEW j, j = [NoJob EXCEPT !.op = "release", !.earmark = e, !.amount = x]
  PROVE  j \in Job /\ JobOK(j)
<1>1. j \in Job
  BY NoJobOK DEF Job
<1>2. JobOK(j)
  BY DEF NoJob, JobOK
<1> QED BY <1>1, <1>2

\* Every operation starts with a well-formed job, or holds its earmark row.
LEMMA BeginIInv ==
  ASSUME IInv, NEW s \in Sessions, Begin(s)
  PROVE  IInv'
<1> USE AmountsAssumption, LedgersAssumption
<1>1. ASSUME NEW l \in Ledgers, NEW x \in Amounts, StartReceipt(s, l, x)
      PROVE  IInv'
  <2> DEFINE ps == <<ReceiptPosting(l, x)>>
             j == [PostJob(ps) EXCEPT !.to = IF status[l] = "none" THEN "open" ELSE "same"]
  <2>1. ps \in Seq(Posting) /\ Len(ps) = 1
    BY PostingTypes
  <2>2. PostJob(ps) \in Job /\ JobOK(PostJob(ps)) /\ PostJob(ps).op = "post"
    BY <2>1, PostJobTypes
  <2>3. j \in Job /\ JobOK(j)
    BY <2>2 DEF Job, JobOK
  <2> QED BY <1>1, <2>3, StartIInv DEF StartReceipt
<1>2. ASSUME NEW l \in Ledgers, NEW x \in Amounts, StartPlace(s, l, x)
      PROVE  IInv'
  <2> DEFINE j == [LedgerJob("place", l, "same") EXCEPT !.amount = x]
  <2>1. j \in Job /\ JobOK(j)
    BY PlaceJobTypes
  <2> QED BY <1>2, <2>1, StartIInv DEF StartPlace
<1>3. ASSUME NEW l \in Ledgers, NEW x \in Amounts, NEW e \in EarmarkIds \cup {0},
             StartPayment(s, l, x, e)
      PROVE  IInv'
  <2> DEFINE ps == <<PaymentPosting(l, x)>>
             j == [PostJob(ps) EXCEPT !.earmark = e, !.amount = x]
  <2>1. ps \in Seq(Posting) /\ Len(ps) = 1
    BY PostingTypes
  <2>2. PostJob(ps) \in Job /\ JobOK(PostJob(ps)) /\ PostJob(ps).op = "post"
    BY <2>1, PostJobTypes
  <2>3. j \in Job /\ JobOK(j)
    BY <2>2 DEF Job, JobOK
  <2> QED BY <1>3, <2>3, StartIInv DEF StartPayment
<1>4. ASSUME NEW f \in Ledgers, NEW t \in Ledgers, NEW x \in Amounts, StartTransfer(s, f, t, x)
      PROVE  IInv'
  <2> DEFINE ps == <<TransferPosting(f, t, x)>>
  <2>1. ps \in Seq(Posting) /\ Len(ps) = 1
    BY PostingTypes
  <2> QED BY <1>4, <2>1, PostJobTypes, StartIInv DEF StartTransfer
<1>5. ASSUME NEW f \in Ledgers, NEW t \in Ledgers, NEW x \in Amounts, StartCrossAccount(s, f, t, x)
      PROVE  IInv'
  <2> DEFINE ps == <<PaymentPosting(f, x), ReceiptPosting(t, x)>>
  <2>1. ps \in Seq(Posting) /\ Len(ps) = 2
    BY PostingTypes
  <2> QED BY <1>5, <2>1, PostJobTypes, StartIInv DEF StartCrossAccount
<1>6. ASSUME NEW n \in DOMAIN posted PROVE posted[n] \in Posting /\ n \in Nat
  BY ElementOfSeq, LenProperties DEF IInv, TypeOK
<1>7. ASSUME NEW n \in DOMAIN posted, StartReversal(s, n)
      PROVE  IInv'
  <2> DEFINE ps == <<MirrorPosting(posted[n], n)>>
  <2>1. ps \in Seq(Posting) /\ Len(ps) = 1
    BY <1>6, MirrorTypes
  <2> QED BY <1>7, <2>1, PostJobTypes, StartIInv DEF StartReversal
<1>8. ASSUME NEW n \in DOMAIN posted, NEW h \in Amounts \cup {0},
             NEW l \in LedgersOf(posted[n]), StartDishonour(s, n, h, l)
      PROVE  IInv'
  <2> DEFINE full == MirrorPosting(posted[n], n)
             ps == IF h = 0 THEN <<full>> ELSE <<full, ReceiptPosting(l, h)>>
             j == [PostJob(ps) EXCEPT !.system = TRUE]
  <2>1. l \in Ledgers
    BY <1>6, LedgersOfType
  <2>2. ps \in Seq(Posting) /\ Len(ps) \in {1, 2}
    BY <1>6, <2>1, MirrorTypes, PostingTypes
  <2>3. PostJob(ps) \in Job /\ JobOK(PostJob(ps)) /\ PostJob(ps).op = "post"
    BY <2>2, PostJobTypes
  <2>4. j \in Job /\ JobOK(j)
    BY <2>3 DEF Job, JobOK
  <2> QED BY <1>8, <2>4, StartIInv DEF StartDishonour
<1>9. ASSUME NEW l \in Ledgers, StartOpen(s, l) \/ StartClose(s, l) \/ StartReopen(s, l)
      PROVE  IInv'
  <2>1. /\ LedgerJob("open", l, "open") \in Job /\ JobOK(LedgerJob("open", l, "open"))
        /\ LedgerJob("close", l, "closed") \in Job /\ JobOK(LedgerJob("close", l, "closed"))
        /\ LedgerJob("reopen", l, "open") \in Job /\ JobOK(LedgerJob("reopen", l, "open"))
    BY LedgerJobTypes
  <2> QED BY <1>9, <2>1, StartIInv DEF StartOpen, StartClose, StartReopen
<1>10. ASSUME NEW e \in EarmarkIds, NEW x \in Amounts, StartRelease(s, e, x)
       PROVE  IInv'
  <2> DEFINE j == [NoJob EXCEPT !.op = "release", !.earmark = e, !.amount = x]
  <2> USE <1>10 DEF StartRelease, committed
  <2>1. j \in Job /\ JobOK(j)
    BY ReleaseJobTypes
  <2>2. TypeOK'
    BY <2>1 DEF IInv, TypeOK
  <2>3. \A t \in Sessions : JobOK(job[t])'
    BY <2>1 DEF IInv, TypeOK, LockDiscipline, JobOK
  <2>4. WritesUnderLock'
    BY DEF IInv, TypeOK, LockDiscipline, WritesUnderLock, IdleIsClean, Landable, Opens
  <2>5. ReadyStillHolds'
    BY DEF IInv, TypeOK, LockDiscipline, ReadyStillHolds, Holds, NoJob
  <2>6. EndsUnderRowLock' /\ IdleIsClean'
    BY FreeAssumption DEF IInv, TypeOK, LockDiscipline, EndsUnderRowLock, IdleIsClean
  <2>7. OnOpenLedgersOnly' /\ StoredBalanceIsTheSum' /\ NeverBelowZero'
    BY DEF IInv, LockDiscipline, OnOpenLedgersOnly, StoredBalanceIsTheSum, NeverBelowZero
  <2> QED BY <2>2, <2>3, <2>4, <2>5, <2>6, <2>7 DEF IInv, LockDiscipline
<1> QED BY <1>1, <1>2, <1>3, <1>4, <1>5, <1>7, <1>8, <1>9, <1>10 DEF Begin

-----------------------------------------------------------------------------
(* The statements. *)

\* A session takes a free ledger row: no row another session holds changes hands.
LEMMA LockLedgerIInv ==
  ASSUME IInv, NEW s \in Sessions, LockLedger(s)
  PROVE  IInv'
<1> USE DEF LockLedger, Lockable, committed, writes
<1>1. lock' \in [Ledgers -> Sessions \cup {Free}]
  BY DEF IInv, TypeOK
<1>2. \A k \in Ledgers : lock[k] # Free => lock'[k] = lock[k]
  BY DEF IInv, TypeOK
<1>3. TypeOK'
  BY <1>1 DEF IInv, TypeOK
<1>4. \A t \in Sessions : JobOK(job[t])'
  BY DEF IInv, TypeOK, LockDiscipline, JobOK
<1>5. WritesUnderLock'
  BY <1>2, FreeAssumption DEF IInv, TypeOK, LockDiscipline, WritesUnderLock, Landable, Opens
<1>6. ReadyStillHolds'
  <2>1. \A t \in Sessions : job[t].wanted \subseteq Ledgers
    BY DEF IInv, TypeOK, Job
  <2> QED BY <1>2, <2>1, FreeAssumption DEF IInv, LockDiscipline, ReadyStillHolds, Holds
<1>7. /\ EndsUnderRowLock' /\ IdleIsClean' /\ OnOpenLedgersOnly'
      /\ StoredBalanceIsTheSum' /\ NeverBelowZero'
  BY DEF IInv, LockDiscipline, EndsUnderRowLock, IdleIsClean, OnOpenLedgersOnly,
    StoredBalanceIsTheSum, NeverBelowZero
<1> QED BY <1>3, <1>4, <1>5, <1>6, <1>7 DEF IInv, LockDiscipline

\* The line a working session inserts next.
LEMMA NextLineType ==
  ASSUME IInv, NEW s \in Sessions, next[s] \in DOMAIN job[s].lines
  PROVE  /\ job[s].lines[next[s]] \in Line
         /\ job[s].lines[next[s]].amount \in Int
         /\ job[s].lines[next[s]].side = "matter_ledger" =>
              /\ job[s].lines[next[s]].ledger \in job[s].wanted
              /\ job[s].lines[next[s]].ledger \in Ledgers
              /\ job[s].op = "post"
<1>1. job[s].lines \in Seq(Line) /\ job[s].wanted \subseteq Ledgers
  BY DEF IInv, TypeOK, Job
<1>2. job[s].lines[next[s]] \in Line
  BY <1>1, ElementOfSeq, LenProperties
<1>3. job[s].lines[next[s]].amount \in Int
  BY <1>2 DEF Line
<1>4. job[s].lines # << >>
  OBVIOUS
<1> QED BY <1>1, <1>2, <1>3, <1>4 DEF IInv, LockDiscipline, JobOK

\* Adding to one value of an integer function.
LEMMA AddAt ==
  ASSUME NEW S, NEW f \in [S -> Int], NEW k, NEW x \in Int
  PROVE  [f EXCEPT ![k] = @ + x] \in [S -> Int]
<1>1. \A i \in S : [f EXCEPT ![k] = @ + x][i] \in Int
  OBVIOUS
<1> QED BY <1>1

\* A cash-book line touches no ledger.
LEMMA InsertCashLineIInv ==
  ASSUME IInv, NEW s \in Sessions, InsertCashLine(s)
  PROVE  IInv'
<1> USE DEF InsertCashLine, committed, locks
<1>1. job[s].lines[next[s]].amount \in Int
  BY NextLineType
<1>2. TypeOK'
  <2>1. cash' \in [Sessions -> [Accounts -> Int]]
    <3> DEFINE ln == job[s].lines[next[s]]
    <3>1. cash[s] \in [Accounts -> Int] /\ cash \in [Sessions -> [Accounts -> Int]]
      BY DEF IInv, TypeOK
    <3>2. cash' = [cash EXCEPT ![s] = [cash[s] EXCEPT ![ln.account] = @ + ln.amount]]
      OBVIOUS
    <3> HIDE DEF ln
    <3>3. [cash[s] EXCEPT ![ln.account] = @ + ln.amount] \in [Accounts -> Int]
      BY <1>1, <3>1, AddAt DEF ln
    <3> QED BY <3>1, <3>2, <3>3
  <2>2. next' \in [Sessions -> Nat]
    BY DEF IInv, TypeOK
  <2> QED BY <2>1, <2>2 DEF IInv, TypeOK
<1>3. \A t \in Sessions : JobOK(job[t])'
  BY DEF IInv, LockDiscipline, JobOK
<1>4. WritesUnderLock' /\ ReadyStillHolds'
  BY DEF IInv, LockDiscipline, WritesUnderLock, Landable, Opens, ReadyStillHolds, Holds
<1>5. /\ EndsUnderRowLock' /\ IdleIsClean' /\ OnOpenLedgersOnly'
      /\ StoredBalanceIsTheSum' /\ NeverBelowZero'
  BY DEF IInv, LockDiscipline, EndsUnderRowLock, IdleIsClean, OnOpenLedgersOnly,
    StoredBalanceIsTheSum, NeverBelowZero
<1> QED BY <1>2, <1>3, <1>4, <1>5 DEF IInv, LockDiscipline

\* A ledger line extends a running balance the session already owns, or starts
\* from the committed one under the ledger's lock.
LEMMA InsertLedgerLineIInv ==
  ASSUME IInv, NEW s \in Sessions, InsertLedgerLine(s)
  PROVE  IInv'
<1> DEFINE ln == job[s].lines[next[s]]
           l == ln.ledger
           prior == IF l \in touched[s] THEN run[s][l] ELSE balance[l]
           bal == prior + ln.amount
           short == ln.amount < 0 /\ Marked(earmark, l) > 0 /\ Marked(earmark, l) > bal
           freed == IF short THEN AutoReleased(earmark, l, bal) ELSE {}
<1>1. /\ l \in Ledgers /\ l \in job[s].wanted /\ job[s].op = "post" /\ ln.amount \in Int
  BY NextLineType DEF InsertLedgerLine
<1>2. lock[l] = s
  BY <1>1 DEF InsertLedgerLine, Holds
<1>3. freed \subseteq EarmarkIds /\ \A e \in freed : earmark[e].state = "active"
  BY DEF AutoReleased, ActiveOn
<1>4. bal \in Int
  BY <1>1 DEF IInv, TypeOK
<1>5. /\ pc[s] = "work" /\ Landable(s, l) /\ bal >= 0
      /\ \A e \in freed : rowLock[e] \in {Free, s}
      /\ run' = [run EXCEPT ![s][l] = bal]
      /\ net' = [net EXCEPT ![s][l] = @ + ln.amount]
      /\ touched' = [touched EXCEPT ![s] = @ \cup {l}]
      /\ ends' = [ends EXCEPT ![s] = @ \cup freed]
      /\ rowLock' = [e \in EarmarkIds |-> IF e \in freed THEN s ELSE rowLock[e]]
      /\ next' = [next EXCEPT ![s] = @ + 1]
      /\ UNCHANGED <<committed, lock, pc, job, cash>>
  BY DEF InsertLedgerLine, NotBelowZero, RowLockable
<1> HIDE DEF freed, bal, l
<1> USE DEF committed
<1>6. TypeOK'
  <2>1. run' \in [Sessions -> [Ledgers -> Int]] /\ net' \in [Sessions -> [Ledgers -> Int]]
    BY <1>1, <1>4, <1>5 DEF IInv, TypeOK
  <2>2. touched' \in [Sessions -> SUBSET Ledgers] /\ ends' \in [Sessions -> SUBSET EarmarkIds]
    BY <1>1, <1>3, <1>5 DEF IInv, TypeOK
  <2>3. rowLock' \in [EarmarkIds -> Sessions \cup {Free}] /\ next' \in [Sessions -> Nat]
    BY <1>5 DEF IInv, TypeOK
  <2> QED BY <1>5, <2>1, <2>2, <2>3 DEF IInv, TypeOK
<1>7. \A t \in Sessions : JobOK(job[t])'
  BY <1>5 DEF IInv, LockDiscipline, JobOK
<1>8. WritesUnderLock'
  <2> SUFFICES ASSUME NEW t \in Sessions, NEW k \in Ledgers
               PROVE  IF k \in touched'[t]
                      THEN /\ lock'[k] = t /\ k \in job'[t].wanted /\ job'[t].op = "post"
                           /\ run'[t][k] = balance'[k] + net'[t][k] /\ run'[t][k] >= 0
                           /\ Landable(t, k)'
                      ELSE net'[t][k] = 0
    BY DEF WritesUnderLock
  <2>1. IF k \in touched[t]
        THEN /\ lock[k] = t /\ k \in job[t].wanted /\ job[t].op = "post"
             /\ run[t][k] = balance[k] + net[t][k] /\ run[t][k] >= 0
             /\ Landable(t, k)
        ELSE net[t][k] = 0
    BY DEF IInv, LockDiscipline, WritesUnderLock
  <2>2. Landable(t, k)' <=> Landable(t, k)
    BY <1>5 DEF Landable, Opens
  <2>3. CASE t = s /\ k = l
    <3>1. run'[s][l] = bal /\ net'[s][l] = net[s][l] + ln.amount /\ l \in touched'[s]
      BY <1>1, <1>5 DEF IInv, TypeOK
    <3>2. net[s][l] \in Int /\ balance[l] \in Int /\ run[s][l] \in Int
      BY <1>1 DEF IInv, TypeOK
    <3>3. bal = balance[l] + net[s][l] + ln.amount
      BY <1>1, <2>1, <2>3, <3>2 DEF bal, l
    <3> QED BY <1>1, <1>2, <1>5, <2>2, <2>3, <3>1, <3>2, <3>3
  <2>4. CASE ~(t = s /\ k = l)
    <3>1. run'[t][k] = run[t][k] /\ net'[t][k] = net[t][k] /\ (k \in touched'[t] <=> k \in touched[t])
      BY <1>1, <1>5, <2>4 DEF IInv, TypeOK
    <3> QED BY <1>5, <2>1, <2>2, <3>1
  <2> QED BY <2>3, <2>4
<1>9. ReadyStillHolds'
  BY <1>5 DEF IInv, LockDiscipline, ReadyStillHolds, Holds
<1>10. EndsUnderRowLock'
  <2>1. \A t \in Sessions, e \in EarmarkIds :
          e \in ends'[t] => e \in ends[t] \/ (t = s /\ e \in freed)
    <3>1. ends \in [Sessions -> SUBSET EarmarkIds] /\ ends' = [ends EXCEPT ![s] = ends[s] \cup freed]
      BY <1>5 DEF IInv, TypeOK
    <3> QED BY ONLY <3>1
  <2>2. \A e \in freed : \A t \in Sessions : e \in ends[t] => t = s
    BY <1>3, <1>5, FreeAssumption DEF IInv, LockDiscipline, EndsUnderRowLock
  <2>3. \A t \in Sessions : ends'[t] \subseteq EarmarkIds
    BY <1>6 DEF TypeOK
  <2> QED BY <1>3, <1>5, <2>1, <2>2, <2>3 DEF IInv, LockDiscipline, EndsUnderRowLock
<1>11. IdleIsClean'
  BY <1>5 DEF IInv, TypeOK, LockDiscipline, IdleIsClean
<1>12. OnOpenLedgersOnly' /\ StoredBalanceIsTheSum' /\ NeverBelowZero'
  BY <1>5 DEF IInv, LockDiscipline, OnOpenLedgersOnly, StoredBalanceIsTheSum, NeverBelowZero
<1> QED BY <1>6, <1>7, <1>8, <1>9, <1>10, <1>11, <1>12 DEF IInv, LockDiscipline

\* A payment that consumes its earmark locks the earmark row first.
LEMMA SettlePostingIInv ==
  ASSUME IInv, NEW s \in Sessions, SettlePosting(s)
  PROVE  IInv'
<1> DEFINE e == job[s].earmark
<1>1. e \in EarmarkIds \cup {0} /\ job[s].op = "post" /\ Holds(s) /\ pc[s] = "work"
  BY DEF SettlePosting, IInv, TypeOK, Job
<1>2. /\ pc' = [pc EXCEPT ![s] = "ready"]
      /\ UNCHANGED <<committed, lock, job, next, touched, run, net, cash>>
      /\ \/ UNCHANGED <<rowLock, ends>>
         \/ /\ e \in EarmarkIds /\ earmark[e].state = "active" /\ rowLock[e] = Free
            /\ rowLock' = [rowLock EXCEPT ![e] = s]
            /\ ends' = [ends EXCEPT ![s] = {e}]
  BY <1>1 DEF SettlePosting
<1> HIDE DEF e
<1> USE DEF committed
<1>3. TypeOK'
  <2>1. rowLock' \in [EarmarkIds -> Sessions \cup {Free}] /\ ends' \in [Sessions -> SUBSET EarmarkIds]
    <3>1. /\ ends \in [Sessions -> SUBSET EarmarkIds]
          /\ rowLock \in [EarmarkIds -> Sessions \cup {Free}]
      BY DEF IInv, TypeOK
    <3>2. CASE UNCHANGED <<rowLock, ends>>
      BY <3>1, <3>2
    <3>3. CASE e \in EarmarkIds /\ rowLock' = [rowLock EXCEPT ![e] = s] /\ ends' = [ends EXCEPT ![s] = {e}]
      BY <3>1, <3>3
    <3> QED BY <1>2, <3>2, <3>3
  <2>2. pc' \in [Sessions -> {"idle", "work", "ready"}]
    BY <1>2 DEF IInv, TypeOK
  <2> QED BY <1>2, <2>1, <2>2 DEF IInv, TypeOK
<1>4. \A t \in Sessions : JobOK(job[t])'
  BY <1>2 DEF IInv, LockDiscipline, JobOK
<1>5. WritesUnderLock'
  BY <1>2 DEF IInv, LockDiscipline, WritesUnderLock, Landable, Opens
<1>6. ReadyStillHolds'
  BY <1>1, <1>2 DEF IInv, TypeOK, LockDiscipline, ReadyStillHolds, Holds
<1>7. EndsUnderRowLock'
  <2>1. /\ ends \in [Sessions -> SUBSET EarmarkIds] /\ rowLock \in [EarmarkIds -> Sessions \cup {Free}]
        /\ \A t \in Sessions : \A f \in ends[t] : rowLock[f] = t /\ earmark[f].state = "active"
    BY DEF IInv, TypeOK, LockDiscipline, EndsUnderRowLock
  <2>2. CASE UNCHANGED <<rowLock, ends>>
    BY <1>2, <2>1, <2>2 DEF EndsUnderRowLock
  <2>3. CASE ~UNCHANGED <<rowLock, ends>>
    <3>1. \A t \in Sessions : \A f \in ends'[t] : (t = s /\ f = e) \/ (t # s /\ f \in ends[t] /\ f # e)
      BY <1>2, <2>1, <2>3, FreeAssumption
    <3> QED BY <1>2, <2>1, <2>3, <3>1 DEF EndsUnderRowLock
  <2> QED BY <2>2, <2>3
<1>8. IdleIsClean'
  BY <1>1, <1>2 DEF IInv, TypeOK, LockDiscipline, IdleIsClean
<1>9. OnOpenLedgersOnly' /\ StoredBalanceIsTheSum' /\ NeverBelowZero'
  BY <1>2 DEF IInv, LockDiscipline, OnOpenLedgersOnly, StoredBalanceIsTheSum, NeverBelowZero
<1> QED BY <1>3, <1>4, <1>5, <1>6, <1>7, <1>8, <1>9 DEF IInv, LockDiscipline

\* What an operation that posts nothing checks, it checks under its lock.
LEMMA CheckLedgerIInv ==
  ASSUME IInv, NEW s \in Sessions, CheckLedger(s)
  PROVE  IInv'
<1> USE DEF CheckLedger, Empty, committed, locks, writes
<1>1. TypeOK'
  BY DEF IInv, TypeOK
<1>2. \A t \in Sessions : JobOK(job[t])'
  BY DEF IInv, LockDiscipline, JobOK
<1>3. WritesUnderLock'
  BY DEF IInv, LockDiscipline, WritesUnderLock, Landable, Opens
<1>4. ASSUME job[s].op = "place", NEW l \in job[s].wanted PROVE status[l] = "open"
  <2>1. Marked(earmark, l) + job[s].amount <= balance[l]
    BY <1>4
  <2>2. l \in Ledgers /\ job[s].amount \in Nat /\ balance[l] \in Int
    BY <1>4 DEF IInv, TypeOK, Job
  <2>3. job[s].amount > 0
    BY <1>4 DEF IInv, LockDiscipline, JobOK
  <2> SUFFICES ASSUME status[l] # "open" PROVE FALSE
    OBVIOUS
  <2>4. balance[l] = 0
    BY <2>2 DEF IInv, LockDiscipline, OnOpenLedgersOnly, StoredBalanceIsTheSum
  <2>5. ActiveOn(earmark, l) = {}
    BY DEF IInv, LockDiscipline, OnOpenLedgersOnly, ActiveOn
  <2>6. Marked(earmark, l) = 0
    BY <2>5, NothingMarked
  <2> QED BY <2>1, <2>2, <2>3, <2>4, <2>6
<1>5. ASSUME job[s].op = "close", NEW l \in job[s].wanted
      PROVE  balance[l] = 0 /\ \A e \in EarmarkIds : earmark[e].state = "active" => earmark[e].ledger # l
  BY <1>5 DEF ActiveOn
<1>6. ReadyStillHolds'
  BY <1>4, <1>5 DEF IInv, TypeOK, LockDiscipline, ReadyStillHolds, Holds
<1>7. EndsUnderRowLock' /\ OnOpenLedgersOnly' /\ StoredBalanceIsTheSum' /\ NeverBelowZero'
  BY DEF IInv, LockDiscipline, EndsUnderRowLock, OnOpenLedgersOnly,
    StoredBalanceIsTheSum, NeverBelowZero
<1>8. IdleIsClean'
  BY DEF IInv, TypeOK, LockDiscipline, IdleIsClean
<1> QED BY <1>1, <1>2, <1>3, <1>6, <1>7, <1>8 DEF IInv, LockDiscipline

-----------------------------------------------------------------------------
(* The end of a transaction. *)

\* The session's own rows are free again, every other session's stay held.
LEMMA EndTransactionFacts ==
  ASSUME IInv, NEW s \in Sessions, EndTransaction(s)
  PROVE  /\ lock' \in [Ledgers -> Sessions \cup {Free}]
         /\ rowLock' \in [EarmarkIds -> Sessions \cup {Free}]
         /\ pc' \in [Sessions -> {"idle", "work", "ready"}]
         /\ job' \in [Sessions -> Job] /\ next' \in [Sessions -> Nat]
         /\ touched' \in [Sessions -> SUBSET Ledgers] /\ ends' \in [Sessions -> SUBSET EarmarkIds]
         /\ run' \in [Sessions -> [Ledgers -> Int]] /\ net' \in [Sessions -> [Ledgers -> Int]]
         /\ cash' \in [Sessions -> [Accounts -> Int]]
         /\ pc'[s] = "idle" /\ job'[s] = NoJob /\ touched'[s] = {} /\ ends'[s] = {}
         /\ \A l \in Ledgers : net'[s][l] = 0
         /\ \A t \in Sessions \ {s} :
              /\ pc'[t] = pc[t] /\ job'[t] = job[t] /\ touched'[t] = touched[t]
              /\ run'[t] = run[t] /\ net'[t] = net[t] /\ ends'[t] = ends[t]
              /\ \A l \in Ledgers : lock[l] = t => lock'[l] = t
              /\ \A e \in EarmarkIds : rowLock[e] = t => rowLock'[e] = t
<1> USE DEF EndTransaction, IInv, TypeOK
<1>1. lock' \in [Ledgers -> Sessions \cup {Free}] /\ rowLock' \in [EarmarkIds -> Sessions \cup {Free}]
  OBVIOUS
<1>2. /\ pc' \in [Sessions -> {"idle", "work", "ready"}] /\ next' \in [Sessions -> Nat]
      /\ touched' \in [Sessions -> SUBSET Ledgers] /\ ends' \in [Sessions -> SUBSET EarmarkIds]
  OBVIOUS
<1>3. job' \in [Sessions -> Job]
  BY NoJobOK
<1>4. /\ run' \in [Sessions -> [Ledgers -> Int]] /\ net' \in [Sessions -> [Ledgers -> Int]]
      /\ cash' \in [Sessions -> [Accounts -> Int]]
  OBVIOUS
<1>5. /\ pc'[s] = "idle" /\ job'[s] = NoJob /\ touched'[s] = {} /\ ends'[s] = {}
      /\ \A l \in Ledgers : net'[s][l] = 0
  OBVIOUS
<1>6. \A t \in Sessions \ {s} :
        /\ pc'[t] = pc[t] /\ job'[t] = job[t] /\ touched'[t] = touched[t]
        /\ run'[t] = run[t] /\ net'[t] = net[t] /\ ends'[t] = ends[t]
        /\ \A l \in Ledgers : lock[l] = t => lock'[l] = t
        /\ \A e \in EarmarkIds : rowLock[e] = t => rowLock'[e] = t
  OBVIOUS
<1> HIDE DEF EndTransaction, IInv, TypeOK
<1> QED BY <1>1, <1>2, <1>3, <1>4, <1>5, <1>6

\* A transaction that does not commit changes nothing another session relies on.
LEMMA AbortIInv ==
  ASSUME IInv, NEW s \in Sessions, Abort(s)
  PROVE  IInv'
<1> USE DEF committed
<1>1. EndTransaction(s) /\ UNCHANGED committed
  BY DEF Abort
<1>0. /\ pc'[s] = "idle" /\ job'[s] = NoJob /\ touched'[s] = {} /\ ends'[s] = {}
      /\ \A l \in Ledgers : net'[s][l] = 0
      /\ \A t \in Sessions \ {s} :
           /\ pc'[t] = pc[t] /\ job'[t] = job[t] /\ touched'[t] = touched[t]
           /\ run'[t] = run[t] /\ net'[t] = net[t] /\ ends'[t] = ends[t]
           /\ \A l \in Ledgers : lock[l] = t => lock'[l] = t
           /\ \A e \in EarmarkIds : rowLock[e] = t => rowLock'[e] = t
  BY <1>1, EndTransactionFacts
<1>2. TypeOK'
  BY <1>1, EndTransactionFacts DEF IInv, TypeOK
<1>3. \A t \in Sessions : JobOK(job'[t])
  BY <1>0, <1>1, NoJobOK DEF IInv, LockDiscipline
<1>4. WritesUnderLock'
  <2> SUFFICES ASSUME NEW t \in Sessions, NEW k \in Ledgers
               PROVE  IF k \in touched'[t]
                      THEN /\ lock'[k] = t /\ k \in job'[t].wanted /\ job'[t].op = "post"
                           /\ run'[t][k] = balance'[k] + net'[t][k] /\ run'[t][k] >= 0
                           /\ Landable(t, k)'
                      ELSE net'[t][k] = 0
    BY DEF WritesUnderLock
  <2>1. CASE t = s
    BY <1>0, <1>1, <2>1
  <2>2. CASE t # s
    BY <1>0, <1>1, <2>2 DEF IInv, LockDiscipline, WritesUnderLock, Landable, Opens
  <2> QED BY <2>1, <2>2
<1>5. ReadyStillHolds'
  <2>1. \A t \in Sessions : job[t].wanted \subseteq Ledgers
    BY DEF IInv, TypeOK, Job
  <2> QED BY <1>0, <1>1, <2>1 DEF IInv, LockDiscipline, ReadyStillHolds, Holds
<1>6. EndsUnderRowLock' /\ IdleIsClean'
  <2>1. \A t \in Sessions : ends[t] \subseteq EarmarkIds
    BY DEF IInv, TypeOK
  <2> QED BY <1>0, <1>1, <2>1 DEF IInv, LockDiscipline, EndsUnderRowLock, IdleIsClean
<1>7. OnOpenLedgersOnly' /\ StoredBalanceIsTheSum' /\ NeverBelowZero'
  BY <1>1 DEF IInv, LockDiscipline, OnOpenLedgersOnly, StoredBalanceIsTheSum, NeverBelowZero
<1> QED BY <1>2, <1>3, <1>4, <1>5, <1>6, <1>7 DEF IInv, LockDiscipline

\* A committed transaction leaves only earmarks that were active before, or a
\* fresh one on a ledger it checked, or on the ledger of one it split.
LEMMA CommitEarmarksFacts ==
  ASSUME IInv, NEW s \in Sessions, CommitEarmarks(s)
  PROVE  /\ earmark' \in [EarmarkIds -> EarmarkRow]
         /\ \A e \in EarmarkIds : earmark'[e].state = "active" =>
              \/ earmark'[e] = earmark[e]
              \/ job[s].op = "place" /\ earmark'[e].ledger \in job[s].wanted
              \/ \E f \in EarmarkIds : /\ earmark[f].state = "active"
                                      /\ earmark'[e].ledger = earmark[f].ledger
         /\ \A e \in EarmarkIds : earmark[e].state = "active" /\ e \notin ends[s] =>
              earmark'[e] = earmark[e]
<1> DEFINE fresh == FreshEarmark(s)
           b == job[s].earmark
<1>1. /\ earmark \in [EarmarkIds -> EarmarkRow] /\ ends[s] \subseteq EarmarkIds
      /\ \A e \in EarmarkIds : /\ earmark[e].ledger \in Ledgers \cup {0}
                               /\ earmark[e].amount \in Nat
      /\ job[s].wanted \subseteq Ledgers /\ job[s].amount \in Nat
  BY DEF IInv, TypeOK, Job, EarmarkRow
<1>2. Ended(s) \in [EarmarkIds -> EarmarkRow]
  <2>1. \A e \in EarmarkIds, st \in {"consumed", "released"} :
          [earmark[e] EXCEPT !.state = st] \in EarmarkRow
    BY <1>1 DEF EarmarkRow
  <2> QED BY <1>1, <2>1 DEF Ended
<1>3. \A e \in EarmarkIds :
        /\ e \notin ends[s] => Ended(s)[e] = earmark[e]
        /\ e \in ends[s] => Ended(s)[e].state # "active"
  <2>1. \A e \in EarmarkIds, st \in {"consumed", "released"} :
          [earmark[e] EXCEPT !.state = st].state = st
    BY <1>1 DEF EarmarkRow
  <2> QED BY <2>1 DEF Ended
<1>4. ASSUME fresh.amount # 0
      PROVE  /\ fresh.amount \in Nat /\ fresh.ledger \in Ledgers \cup {0}
             /\ \/ job[s].op = "place" /\ fresh.ledger \in job[s].wanted
                \/ \E f \in EarmarkIds : /\ earmark[f].state = "active"
                                        /\ fresh.ledger = earmark[f].ledger
  <2>1. CASE job[s].op = "place"
    <3>1. job[s].wanted # {}
      BY <2>1 DEF IInv, LockDiscipline, JobOK
    <3> QED BY <1>1, <2>1, <3>1 DEF FreshEarmark
  <2>2. CASE job[s].op # "place"
    <3>1. fresh.amount = Residual(s) /\ Residual(s) # 0
      BY <1>4, <2>2 DEF FreshEarmark
    <3>2. b \in ends[s] /\ b \in EarmarkIds /\ job[s].amount < earmark[b].amount
      BY <1>1, <3>1 DEF Residual
    <3>3. Residual(s) = earmark[b].amount - job[s].amount
      BY <3>2 DEF Residual
    <3>4. Residual(s) \in Nat /\ Residual(s) > 0
      BY <1>1, <3>2, <3>3
    <3>5. earmark[b].state = "active"
      BY <3>2 DEF IInv, LockDiscipline, EndsUnderRowLock
    <3>6. fresh.ledger = earmark[b].ledger
      BY <2>2, <3>4 DEF FreshEarmark
    <3> QED BY <1>1, <3>1, <3>2, <3>4, <3>5, <3>6
  <2> QED BY <2>1, <2>2
<1>5. CASE fresh.amount = 0
  BY <1>1, <1>2, <1>3, <1>5 DEF CommitEarmarks
<1>6. CASE fresh.amount # 0
  <2>1. PICK e \in NextIds(earmark) : earmark' = Placed(Ended(s), e, fresh.ledger, fresh.amount)
    BY <1>6 DEF CommitEarmarks
  <2>2. e \in EarmarkIds /\ earmark[e].state = "none"
    BY <2>1 DEF NextIds, Unused
  <2> DEFINE row == [state |-> "active", ledger |-> fresh.ledger, amount |-> fresh.amount]
  <2>3. row \in EarmarkRow
    BY <1>4, <1>6 DEF EarmarkRow
  <2>4. earmark' = [Ended(s) EXCEPT ![e] = row]
    BY <2>1 DEF Placed
  <2>5. row.ledger = fresh.ledger
    OBVIOUS
  <2> HIDE DEF row
  <2>6. earmark' \in [EarmarkIds -> EarmarkRow]
    BY <1>2, <2>3, <2>4
  <2>7. earmark'[e] = row /\ \A f \in EarmarkIds \ {e} : earmark'[f] = Ended(s)[f]
    BY <1>2, <2>2, <2>4
  <2> HIDE DEF fresh
  <2> QED BY <1>3, <1>4, <1>6, <2>2, <2>5, <2>6, <2>7
<1> QED BY <1>5, <1>6

\* What a commit changes on a ledger, it changes under that ledger's lock.
LEMMA CommitLedgerFacts ==
  ASSUME IInv, NEW s \in Sessions, Commit(s), NEW k \in Ledgers
  PROVE  /\ lock[k] # s => /\ status'[k] = status[k] /\ balance'[k] = balance[k]
                            /\ total'[k] = total[k]
         /\ balance'[k] = total'[k] /\ total'[k] >= 0
         /\ k \in touched[s] => Landable(s, k) /\ k \in job[s].wanted /\ job[s].op = "post"
         /\ k \notin touched[s] => total'[k] = total[k]
         /\ status'[k] = "closed" /\ status[k] # "closed" =>
              /\ balance[k] = 0 /\ k \notin touched[s]
              /\ \A e \in EarmarkIds : earmark[e].state = "active" => earmark[e].ledger # k
              /\ job[s].op = "close"
         /\ status'[k] = status[k] \/ status'[k] \in {"open", "closed"}
         /\ k \in job[s].wanted /\ job[s].to # "same" => status'[k] = job[s].to
<1>1. /\ status'[k] = IF k \in job[s].wanted /\ job[s].to # "same" THEN job[s].to ELSE status[k]
      /\ balance'[k] = IF k \in touched[s] THEN run[s][k] ELSE balance[k]
      /\ total'[k] = total[k] + net[s][k]
      /\ pc[s] = "ready"
  BY DEF Commit, StatusAfter
<1>2. /\ IF k \in touched[s]
         THEN /\ lock[k] = s /\ k \in job[s].wanted /\ job[s].op = "post"
              /\ run[s][k] = balance[k] + net[s][k] /\ run[s][k] >= 0
              /\ Landable(s, k)
         ELSE net[s][k] = 0
      /\ balance[k] = total[k] /\ total[k] >= 0
  BY DEF IInv, LockDiscipline, WritesUnderLock, StoredBalanceIsTheSum, NeverBelowZero
<1>3. total[k] \in Int /\ balance[k] \in Int /\ net[s][k] \in Int
  BY DEF IInv, TypeOK
<1>4. job[s].op # "release" => Holds(s)
  BY <1>1 DEF IInv, LockDiscipline, ReadyStillHolds
<1>5. /\ job[s].to \in {"same", "open", "closed"}
      /\ job[s].op \in {"none", "post", "open", "place", "release", "close", "reopen"}
  BY DEF IInv, TypeOK, Job
<1>6. JobOK(job[s])
  BY DEF IInv, LockDiscipline
<1>7. lock[k] # s => status'[k] = status[k] /\ balance'[k] = balance[k] /\ total'[k] = total[k]
  BY <1>1, <1>2, <1>3, <1>4, <1>5, <1>6 DEF JobOK, Holds
<1>8. status'[k] = "closed" /\ status[k] # "closed" =>
        /\ balance[k] = 0 /\ k \notin touched[s]
        /\ \A e \in EarmarkIds : earmark[e].state = "active" => earmark[e].ledger # k
        /\ job[s].op = "close"
  <2> SUFFICES ASSUME status'[k] = "closed", status[k] # "closed"
               PROVE  /\ balance[k] = 0 /\ k \notin touched[s]
                      /\ \A e \in EarmarkIds : earmark[e].state = "active" => earmark[e].ledger # k
                      /\ job[s].op = "close"
    OBVIOUS
  <2>1. k \in job[s].wanted /\ job[s].to = "closed"
    BY <1>1
  <2>2. job[s].op = "close"
    BY <1>5, <1>6, <2>1 DEF JobOK
  <2> QED BY <1>1, <1>2, <2>1, <2>2 DEF IInv, LockDiscipline, ReadyStillHolds
<1> QED BY <1>1, <1>2, <1>3, <1>5, <1>7, <1>8

\* A commit lets go of every lock and leaves the others with theirs.
LEMMA CommitIInv ==
  ASSUME IInv, NEW s \in Sessions, Commit(s)
  PROVE  IInv'
<1>1. EndTransaction(s) /\ CommitEarmarks(s) /\ pc[s] = "ready"
  BY DEF Commit
<1>2. /\ pc'[s] = "idle" /\ job'[s] = NoJob /\ touched'[s] = {} /\ ends'[s] = {}
      /\ \A l \in Ledgers : net'[s][l] = 0
      /\ \A t \in Sessions \ {s} :
           /\ pc'[t] = pc[t] /\ job'[t] = job[t] /\ touched'[t] = touched[t]
           /\ run'[t] = run[t] /\ net'[t] = net[t] /\ ends'[t] = ends[t]
           /\ \A l \in Ledgers : lock[l] = t => lock'[l] = t
           /\ \A e \in EarmarkIds : rowLock[e] = t => rowLock'[e] = t
  BY <1>1, EndTransactionFacts
<1>3. \A k \in Ledgers :
        /\ lock[k] # s => /\ status'[k] = status[k] /\ balance'[k] = balance[k]
                           /\ total'[k] = total[k]
        /\ balance'[k] = total'[k] /\ total'[k] >= 0
        /\ k \in touched[s] => Landable(s, k) /\ k \in job[s].wanted /\ job[s].op = "post"
        /\ k \notin touched[s] => total'[k] = total[k]
        /\ status'[k] = "closed" /\ status[k] # "closed" =>
             /\ balance[k] = 0 /\ k \notin touched[s]
             /\ \A e \in EarmarkIds : earmark[e].state = "active" => earmark[e].ledger # k
             /\ job[s].op = "close"
        /\ status'[k] = status[k] \/ status'[k] \in {"open", "closed"}
        /\ k \in job[s].wanted /\ job[s].to # "same" => status'[k] = job[s].to
  BY CommitLedgerFacts
<1>4. /\ earmark' \in [EarmarkIds -> EarmarkRow]
      /\ \A e \in EarmarkIds : earmark'[e].state = "active" =>
           \/ earmark'[e] = earmark[e]
           \/ job[s].op = "place" /\ earmark'[e].ledger \in job[s].wanted
           \/ \E f \in EarmarkIds : /\ earmark[f].state = "active"
                                   /\ earmark'[e].ledger = earmark[f].ledger
      /\ \A e \in EarmarkIds : earmark[e].state = "active" /\ e \notin ends[s] =>
           earmark'[e] = earmark[e]
  BY <1>1, CommitEarmarksFacts
<1>5. \A t \in Sessions \ {s} : \A k \in Ledgers : lock[k] = t => lock[k] # s
  OBVIOUS
<1>6. \A t \in Sessions : ends[t] \subseteq EarmarkIds /\ job[t].wanted \subseteq Ledgers
  BY DEF IInv, TypeOK, Job
<1>7. TypeOK'
  <2>1. job[s].postings \in Seq(Posting) /\ posted \in Seq(Posting)
    BY DEF IInv, TypeOK, Job
  <2>2. posted' \in Seq(Posting)
    BY <2>1, ConcatProperties DEF Commit
  <2>3. status' \in [Ledgers -> LedgerStatus]
    BY DEF IInv, TypeOK, Commit, StatusAfter, Job, LedgerStatus
  <2>4. balance' \in [Ledgers -> Int] /\ total' \in [Ledgers -> Int] /\ book' \in [Accounts -> Int]
    BY DEF IInv, TypeOK, Commit
  <2>5. /\ lock' \in [Ledgers -> Sessions \cup {Free}]
        /\ rowLock' \in [EarmarkIds -> Sessions \cup {Free}]
        /\ pc' \in [Sessions -> {"idle", "work", "ready"}]
        /\ job' \in [Sessions -> Job] /\ next' \in [Sessions -> Nat]
        /\ touched' \in [Sessions -> SUBSET Ledgers] /\ ends' \in [Sessions -> SUBSET EarmarkIds]
        /\ run' \in [Sessions -> [Ledgers -> Int]] /\ net' \in [Sessions -> [Ledgers -> Int]]
        /\ cash' \in [Sessions -> [Accounts -> Int]]
    BY <1>1, EndTransactionFacts
  <2> QED BY <1>4, <2>2, <2>3, <2>4, <2>5 DEF TypeOK
<1>8. \A t \in Sessions : JobOK(job'[t])
  BY <1>2, NoJobOK DEF IInv, LockDiscipline
<1>9. WritesUnderLock'
  <2> SUFFICES ASSUME NEW t \in Sessions, NEW k \in Ledgers
               PROVE  IF k \in touched'[t]
                      THEN /\ lock'[k] = t /\ k \in job'[t].wanted /\ job'[t].op = "post"
                           /\ run'[t][k] = balance'[k] + net'[t][k] /\ run'[t][k] >= 0
                           /\ Landable(t, k)'
                      ELSE net'[t][k] = 0
    BY DEF WritesUnderLock
  <2>1. CASE t = s
    BY <1>2, <2>1
  <2>2. CASE t # s
    BY <1>2, <1>3, <2>2 DEF IInv, LockDiscipline, WritesUnderLock, Landable, Opens
  <2> QED BY <2>1, <2>2
<1>10. ReadyStillHolds'
  <2> SUFFICES ASSUME NEW t \in Sessions, t # s, pc[t] = "ready", job[t].op # "release"
               PROVE  /\ Holds(t)'
                      /\ job[t].op = "place" => \A l \in job[t].wanted : status'[l] = "open"
                      /\ job[t].op = "close" => \A l \in job[t].wanted :
                           /\ balance'[l] = 0
                           /\ \A e \in EarmarkIds : earmark'[e].state = "active" => earmark'[e].ledger # l
    BY <1>2 DEF ReadyStillHolds
  <2>1. /\ \A l \in job[t].wanted : lock[l] = t
        /\ job[t].op = "place" => \A l \in job[t].wanted : status[l] = "open"
        /\ job[t].op = "close" => \A l \in job[t].wanted :
             balance[l] = 0 /\ \A e \in EarmarkIds : earmark[e].state = "active" => earmark[e].ledger # l
    BY DEF IInv, LockDiscipline, ReadyStillHolds, Holds
  <2>2. \A l \in job[t].wanted : /\ lock'[l] = t /\ status'[l] = status[l] /\ balance'[l] = balance[l]
    BY <1>2, <1>3, <1>6, <2>1
  <2>3. ASSUME job[t].op = "close", NEW l \in job[t].wanted,
               NEW e \in EarmarkIds, earmark'[e].state = "active"
        PROVE  earmark'[e].ledger # l
    <3>1. job[s].op = "place" => \A k \in job[s].wanted : lock[k] = s
      BY <1>1 DEF IInv, LockDiscipline, ReadyStillHolds, Holds
    <3> QED BY <1>4, <2>1, <2>3, <3>1
  <2> QED BY <1>2, <2>1, <2>2, <2>3 DEF Holds
<1>11. EndsUnderRowLock'
  <2> SUFFICES ASSUME NEW t \in Sessions, t # s, NEW e \in ends[t]
               PROVE  rowLock'[e] = t /\ earmark'[e].state = "active"
    BY <1>2 DEF EndsUnderRowLock
  <2>1. rowLock[e] = t /\ earmark[e].state = "active" /\ e \in EarmarkIds
    BY <1>6 DEF IInv, LockDiscipline, EndsUnderRowLock
  <2>2. e \notin ends[s]
    BY <2>1 DEF IInv, LockDiscipline, EndsUnderRowLock
  <2> QED BY <1>2, <1>4, <2>1, <2>2
<1>12. IdleIsClean'
  BY <1>2 DEF IInv, LockDiscipline, IdleIsClean
<1>13. OnOpenLedgersOnly'
  <2>1. ASSUME NEW l \in Ledgers, status'[l] # "open" PROVE total'[l] = 0
    <3>1. status[l] # "open" => total[l] = 0
      BY DEF IInv, LockDiscipline, OnOpenLedgersOnly
    <3>2. balance[l] = total[l]
      BY DEF IInv, LockDiscipline, StoredBalanceIsTheSum
    <3>3. CASE status'[l] = "closed" /\ status[l] # "closed"
      BY <1>3, <3>2, <3>3
    <3>4. CASE status'[l] = status[l]
      <4>1. l \notin touched[s]
        BY <1>3, <2>1, <3>4 DEF Landable, Opens
      <4> QED BY <1>3, <2>1, <3>1, <3>4, <4>1
    <3> QED BY <1>3, <2>1, <3>3, <3>4
  <2>2. ASSUME NEW k \in Ledgers, status[k] = "open",
               \E f \in EarmarkIds : earmark[f].state = "active" /\ earmark[f].ledger = k
        PROVE  status'[k] = "open"
    BY <1>3, <2>2
  <2>3. \A f \in EarmarkIds : earmark[f].state = "active" =>
          earmark[f].ledger \in Ledgers /\ status[earmark[f].ledger] = "open"
    BY DEF IInv, LockDiscipline, OnOpenLedgersOnly
  <2>4. ASSUME job[s].op = "place", NEW k \in job[s].wanted PROVE k \in Ledgers /\ status'[k] = "open"
    <3>1. k \in Ledgers /\ status[k] = "open"
      BY <1>1, <1>6, <2>4 DEF IInv, LockDiscipline, ReadyStillHolds
    <3> QED BY <1>3, <2>4, <3>1
  <2>5. ASSUME NEW e \in EarmarkIds, earmark'[e].state = "active"
        PROVE  earmark'[e].ledger \in Ledgers /\ status'[earmark'[e].ledger] = "open"
    BY <1>4, <2>2, <2>3, <2>4, <2>5
  <2> QED BY <2>1, <2>5 DEF OnOpenLedgersOnly
<1>14. StoredBalanceIsTheSum' /\ NeverBelowZero'
  BY <1>3 DEF StoredBalanceIsTheSum, NeverBelowZero
<1> QED BY <1>7, <1>8, <1>9, <1>10, <1>11, <1>12, <1>13, <1>14 DEF IInv, LockDiscipline

-----------------------------------------------------------------------------
(* The theorems. *)

\* Every step keeps the invariant.
LEMMA NextIInv == IInv /\ [Next]_vars => IInv'
<1> SUFFICES ASSUME IInv, [Next]_vars PROVE IInv'
  OBVIOUS
<1>1. CASE UNCHANGED vars
  BY <1>1 DEF vars, committed, locks, writes, IInv, TypeOK, LockDiscipline, JobOK, WritesUnderLock,
    Landable, Opens, ReadyStillHolds, Holds, EndsUnderRowLock, IdleIsClean, OnOpenLedgersOnly,
    StoredBalanceIsTheSum, NeverBelowZero
<1>2. ASSUME NEW s \in Sessions,
             \/ Begin(s)
             \/ LockLedger(s) \/ InsertCashLine(s) \/ InsertLedgerLine(s)
             \/ SettlePosting(s) \/ CheckLedger(s)
             \/ Commit(s) \/ Abort(s)
      PROVE  IInv'
  BY <1>2, BeginIInv, LockLedgerIInv, InsertCashLineIInv, InsertLedgerLineIInv, SettlePostingIInv,
    CheckLedgerIInv, CommitIInv, AbortIInv
<1> QED BY <1>1, <1>2 DEF Next

\* The inductive invariant holds of every reachable state.
THEOREM LocksSuffice == Spec => []IInv
<1>1. Init => IInv
  BY InitIInv
<1>2. IInv /\ [Next]_vars => IInv'
  BY NextIInv
<1> QED BY <1>1, <1>2, PTL DEF Spec

\* Rows, locks and each session's writes keep their types.
THEOREM TypeCorrect == Spec => []TypeOK
<1>1. IInv => TypeOK
  BY DEF IInv
<1> QED BY <1>1, LocksSuffice, PTL

\* What the locks protect: the invariant the posting sessions rest on.
THEOREM LockDisciplineHolds == Spec => []LockDiscipline
<1>1. IInv => LockDiscipline
  BY DEF IInv
<1> QED BY <1>1, LocksSuffice, PTL

\* The running balance stored with the newest line of a ledger is the sum of
\* all its lines, however many sessions post to it at once.
THEOREM RunningBalanceCorrect == Spec => []StoredBalanceIsTheSum
<1>1. IInv => StoredBalanceIsTheSum
  BY DEF IInv, LockDiscipline
<1> QED BY <1>1, LocksSuffice, PTL

\* No ledger's lines ever sum to less than zero.
THEOREM NoLedgerBelowZero == Spec => []NeverBelowZero
<1>1. IInv => NeverBelowZero
  BY DEF IInv, LockDiscipline
<1> QED BY <1>1, LocksSuffice, PTL

\* A closed ledger holds no money and no active earmark.
THEOREM ClosedMeansEmpty == Spec => []ClosedLedgersAreEmpty
<1>1. IInv => ClosedLedgersAreEmpty
  BY DEF IInv, LockDiscipline, OnOpenLedgersOnly, ClosedLedgersAreEmpty, ActiveOn
<1> QED BY <1>1, LocksSuffice, PTL

-----------------------------------------------------------------------------
(* What lists of lines add up to. *)

\* The amounts of a list of lines are integers, and their indices finite.
LEMMA MovedType ==
  ASSUME NEW ls \in Seq(Line)
  PROVE  /\ DOMAIN ls = 1..Len(ls) /\ Len(ls) \in Nat /\ IsFiniteSet(DOMAIN ls)
         /\ \A i \in DOMAIN ls : ls[i] \in Line /\ Moved(ls)[i] = ls[i].amount /\ Moved(ls)[i] \in Int
<1>1. DOMAIN ls = 1..Len(ls) /\ Len(ls) \in Nat
  BY LenProperties
<1>2. IsFiniteSet(1..Len(ls))
  BY <1>1, FS_Interval
<1>3. \A i \in DOMAIN ls : ls[i] \in Line
  BY <1>1, ElementOfSeq
<1> QED BY <1>1, <1>2, <1>3 DEF Moved, Line

\* What the lines of a class add up to; both nets are of this form.
ClassSum(ls, C) == SumFunctionOnSet(Moved(ls), {i \in DOMAIN ls : ls[i] \in C})

OnLedger(l) == {ln \in Line : ln.ledger = l}
InBook(a) == {ln \in Line : ln.side = "cash_book" /\ ln.account = a}

\* The net of a ledger, or of an account in the cash book, is the sum of a class of lines.
LEMMA NetsAreClassSums ==
  ASSUME NEW ls \in Seq(Line)
  PROVE  /\ \A l : LedgerNet(ls, l) = ClassSum(ls, OnLedger(l))
         /\ \A a : CashNet(ls, a) = ClassSum(ls, InBook(a))
<1>1. \A i \in DOMAIN ls : ls[i] \in Line
  BY MovedType
<1>2. \A l : {i \in DOMAIN ls : ls[i] \in OnLedger(l)} = {i \in DOMAIN ls : ls[i].ledger = l}
  BY <1>1 DEF OnLedger
<1>3. \A a : {i \in DOMAIN ls : ls[i] \in InBook(a)}
               = {i \in DOMAIN ls : ls[i].side = "cash_book" /\ ls[i].account = a}
  BY <1>1 DEF InBook
<1> QED BY <1>2, <1>3 DEF LedgerNet, CashNet, ClassSum

\* A class of lines adds up to an integer.
LEMMA ClassSumType ==
  ASSUME NEW ls \in Seq(Line), NEW C
  PROVE  ClassSum(ls, C) \in Int
<1> DEFINE I == {i \in DOMAIN ls : ls[i] \in C}
<1>1. IsFiniteSet(I) /\ \A i \in I : Moved(ls)[i] \in Int
  BY MovedType, FS_Subset
<1> HIDE DEF I
<1>2. SumFunctionOnSet(Moved(ls), I) \in Int
  BY <1>1, SumType
<1> QED BY <1>2 DEF ClassSum, I

\* No lines add up to nothing, one line to its amount where it is of the class.
LEMMA ClassSumOfNone ==
  ASSUME NEW C
  PROVE  ClassSum(<< >>, C) = 0
<1>1. {i \in DOMAIN << >> : << >>[i] \in C} = {}
  OBVIOUS
<1> QED BY <1>1, SumOfNone DEF ClassSum

\* One line adds its amount to the classes it is in.
LEMMA ClassSumOfOne ==
  ASSUME NEW ln \in Line, NEW C
  PROVE  ClassSum(<<ln>>, C) = IF ln \in C THEN ln.amount ELSE 0
<1> DEFINE I == {i \in DOMAIN <<ln>> : <<ln>>[i] \in C}
           f == Moved(<<ln>>)
<1>0. DOMAIN <<ln>> = {1} /\ <<ln>>[1] = ln
  OBVIOUS
<1>1. /\ f[1] = ln.amount /\ ln.amount \in Int
      /\ I = IF ln \in C THEN {1} ELSE {}
  BY <1>0 DEF Moved, Line
<1>2. IsFiniteSet(I)
  <2>1. IsFiniteSet({1}) /\ IsFiniteSet({})
    BY FS_Singleton, FS_EmptySet
  <2> HIDE DEF I
  <2> QED BY <1>1, <2>1
<1> HIDE DEF I, f
<1>3. SumFunctionOnSet(f, I) = IF 1 \in I THEN f[1] ELSE 0
  BY <1>1, <1>2, SumOfOne
<1> QED BY <1>1, <1>3 DEF ClassSum, I, f

\* Two lists one after the other add up to what each does.
LEMMA ClassSumOfConcat ==
  ASSUME NEW ls \in Seq(Line), NEW ms \in Seq(Line), NEW C
  PROVE  ClassSum(ls \o ms, C) = ClassSum(ls, C) + ClassSum(ms, C)
<1> DEFINE n == Len(ls)
           all == ls \o ms
           I == {i \in DOMAIN all : all[i] \in C}
           A == {i \in DOMAIN ls : ls[i] \in C}
           B == {i \in DOMAIN ms : ms[i] \in C}
           Bn == {i + n : i \in B}
<1>1. /\ all \in Seq(Line) /\ Len(all) = n + Len(ms) /\ n \in Nat /\ Len(ms) \in Nat
      /\ DOMAIN all = 1..(n + Len(ms)) /\ DOMAIN ls = 1..n /\ DOMAIN ms = 1..Len(ms)
      /\ \A i \in 1..n : all[i] = ls[i]
      /\ \A i \in 1..Len(ms) : all[i + n] = ms[i]
  <2>1. all \in Seq(Line)
    OBVIOUS
  <2>2. /\ Len(all) = n + Len(ms) /\ DOMAIN all = 1..Len(all)
        /\ n \in Nat /\ Len(ms) \in Nat /\ DOMAIN ls = 1..n /\ DOMAIN ms = 1..Len(ms)
    BY ConcatProperties, LenProperties
  <2>3. \A i \in 1..(n + Len(ms)) : all[i] = IF i <= n THEN ls[i] ELSE ms[i - n]
    BY ConcatProperties
  <2> HIDE DEF n, all
  <2>4. \A i \in 1..n : i \in 1..(n + Len(ms)) /\ i <= n
    BY <2>2
  <2>5. \A i \in 1..Len(ms) : /\ i + n \in 1..(n + Len(ms)) /\ ~(i + n <= n)
                              /\ (i + n) - n = i
    BY <2>2
  <2>6. \A i \in 1..n : all[i] = ls[i]
    BY <2>3, <2>4
  <2>7. \A i \in 1..Len(ms) : all[i + n] = ms[i]
    BY <2>3, <2>5
  <2> QED BY <2>1, <2>2, <2>6, <2>7
<1> HIDE DEF n, all
<1>2. A \subseteq I /\ Bn = I \ A
  <2>1. \A i \in A : i \in I
    <3>1. \A i \in 1..n : i \in 1..(n + Len(ms))
      BY <1>1
    <3> QED BY <1>1, <3>1
  <2>2. \A i \in Bn : i \in I /\ i \notin A
    <3>1. \A i \in 1..Len(ms) : i + n \in 1..(n + Len(ms)) /\ i + n \notin 1..n
      BY <1>1
    <3> QED BY <1>1, <3>1
  <2>3. ASSUME NEW i \in I, i \notin A PROVE i \in Bn
    <3>1. i \in 1..(n + Len(ms)) /\ all[i] \in C
      BY <1>1
    <3>2. i \notin 1..n
      BY <2>3, <3>1, <1>1
    <3>3. i - n \in 1..Len(ms) /\ (i - n) + n = i
      BY <3>1, <3>2, <1>1
    <3>4. i - n \in B
      BY <3>1, <3>3, <1>1
    <3> QED BY <3>3, <3>4
  <2> HIDE DEF A, I, Bn
  <2> QED BY <2>1, <2>2, <2>3
<1>3. /\ IsFiniteSet(I) /\ IsFiniteSet(B) /\ IsFiniteSet(A)
      /\ \A i \in I : Moved(all)[i] \in Int
  BY <1>1, MovedType, FS_Subset
<1>4. SumFunctionOnSet(Moved(all), I)
        = SumFunctionOnSet(Moved(all), A) + SumFunctionOnSet(Moved(all), Bn)
  <2> HIDE DEF I, A, B, Bn
  <2> QED BY <1>2, <1>3, SumSplits
<1>5. SumFunctionOnSet(Moved(all), A) = SumFunctionOnSet(Moved(ls), A)
  <2>1. \A i \in A : Moved(all)[i] = Moved(ls)[i]
    BY <1>1, <1>2 DEF Moved
  <2> HIDE DEF A
  <2> QED BY <1>3, <2>1, SumAgrees
<1>6. SumFunctionOnSet(Moved(all), Bn) = SumFunctionOnSet(Moved(ms), B)
  <2>1. \A i \in B : Moved(ms)[i] \in Int /\ Moved(all)[i + n] = Moved(ms)[i]
    <3>1. \A i \in 1..Len(ms) : i + n \in 1..(n + Len(ms))
      BY <1>1
    <3>2. \A i \in DOMAIN ms : Moved(ms)[i] \in Int
      BY MovedType
    <3> QED BY <1>1, <3>1, <3>2 DEF Moved
  <2>2. B \subseteq Int
    BY <1>1
  <2> HIDE DEF B
  <2> QED BY <1>1, <1>3, <2>1, <2>2, SumShifts
<1> QED BY <1>4, <1>5, <1>6 DEF ClassSum, all

\* The mirror of a list adds up to the opposite.
LEMMA ClassSumOfMirror ==
  ASSUME NEW p \in Posting, NEW n \in Nat, NEW C \in SUBSET Line,
         \A ln \in Line : ln \in C <=> [ln EXCEPT !.amount = -@] \in C
  PROVE  ClassSum(MirrorPosting(p, n).lines, C) = -ClassSum(p.lines, C)
<1> DEFINE m == MirrorPosting(p, n).lines
           I == {i \in DOMAIN p.lines : p.lines[i] \in C}
<1>1. /\ p.lines \in Seq(Line) /\ DOMAIN m = DOMAIN p.lines
      /\ \A i \in DOMAIN p.lines : m[i] = [p.lines[i] EXCEPT !.amount = -@]
  BY DEF Posting, MirrorPosting
<1>2. /\ IsFiniteSet(DOMAIN p.lines)
      /\ \A i \in DOMAIN p.lines :
           p.lines[i] \in Line /\ Moved(p.lines)[i] = p.lines[i].amount /\ Moved(p.lines)[i] \in Int
  BY <1>1, MovedType
<1>3. {i \in DOMAIN m : m[i] \in C} = I
  <2>1. \A i \in DOMAIN p.lines : m[i] \in C <=> p.lines[i] \in C
    <3> HIDE DEF m
    <3> QED BY <1>1, <1>2
  <2> HIDE DEF m
  <2> QED BY <2>1, <1>1
<1>4. \A i \in I : Moved(p.lines)[i] \in Int /\ Moved(m)[i] = -Moved(p.lines)[i]
  <2>1. \A i \in I : Moved(m)[i] = m[i].amount
    <3> HIDE DEF m
    <3> QED BY <1>1 DEF Moved
  <2>2. \A i \in I : m[i].amount = -p.lines[i].amount
    <3>1. \A ln \in Line : [ln EXCEPT !.amount = -@].amount = -ln.amount
      BY DEF Line
    <3> HIDE DEF m
    <3> QED BY <3>1, <1>1, <1>2
  <2> QED BY <2>1, <2>2, <1>2
<1>5. IsFiniteSet(I)
  BY <1>2, FS_Subset
<1>6. SumFunctionOnSet(Moved(m), I) = -SumFunctionOnSet(Moved(p.lines), I)
  <2> HIDE DEF I, m
  <2> QED BY <1>4, <1>5, SumNegates
<1> QED BY <1>3, <1>6 DEF ClassSum

\* What a list adds to a ledger and to a cash book: nothing when it is empty, the sum of
\* its parts when it is made of two, the opposite when it is mirrored.
LEMMA NetsType ==
  ASSUME NEW ls \in Seq(Line)
  PROVE  /\ \A l : LedgerNet(ls, l) \in Int
         /\ \A a : CashNet(ls, a) \in Int
BY NetsAreClassSums, ClassSumType

\* No lines move nothing.
LEMMA NetsOfNone ==
  /\ \A l : LedgerNet(<< >>, l) = 0
  /\ \A a : CashNet(<< >>, a) = 0
<1>1. << >> \in Seq(Line)
  OBVIOUS
<1> QED BY <1>1, NetsAreClassSums, ClassSumOfNone

\* One line moves its own ledger and its own account.
LEMMA NetsOfOne ==
  ASSUME NEW ln \in Line
  PROVE  /\ \A l : LedgerNet(<<ln>>, l) = IF ln.ledger = l THEN ln.amount ELSE 0
         /\ \A a : CashNet(<<ln>>, a) = IF ln.side = "cash_book" /\ ln.account = a
                                          THEN ln.amount ELSE 0
<1>1. <<ln>> \in Seq(Line)
  OBVIOUS
<1>2. /\ \A l : LedgerNet(<<ln>>, l) = ClassSum(<<ln>>, OnLedger(l))
      /\ \A a : CashNet(<<ln>>, a) = ClassSum(<<ln>>, InBook(a))
  BY <1>1, NetsAreClassSums
<1>3. \A C : ClassSum(<<ln>>, C) = IF ln \in C THEN ln.amount ELSE 0
  BY ClassSumOfOne
<1>4. /\ \A l : ln \in OnLedger(l) <=> ln.ledger = l
      /\ \A a : ln \in InBook(a) <=> ln.side = "cash_book" /\ ln.account = a
  BY DEF OnLedger, InBook
<1> QED BY <1>2, <1>3, <1>4

\* Two lists of lines together move what they move apart.
LEMMA NetsOfConcat ==
  ASSUME NEW ls \in Seq(Line), NEW ms \in Seq(Line)
  PROVE  /\ ls \o ms \in Seq(Line)
         /\ \A l : LedgerNet(ls \o ms, l) = LedgerNet(ls, l) + LedgerNet(ms, l)
         /\ \A a : CashNet(ls \o ms, a) = CashNet(ls, a) + CashNet(ms, a)
<1>1. ls \o ms \in Seq(Line)
  BY ConcatProperties
<1> DEFINE all == ls \o ms
<1>2. /\ \A l : LedgerNet(all, l) = ClassSum(all, OnLedger(l))
      /\ \A a : CashNet(all, a) = ClassSum(all, InBook(a))
  <2> HIDE DEF all
  <2> QED BY <1>1, NetsAreClassSums DEF all
<1>3. /\ \A l : /\ LedgerNet(ls, l) = ClassSum(ls, OnLedger(l))
                 /\ LedgerNet(ms, l) = ClassSum(ms, OnLedger(l))
      /\ \A a : /\ CashNet(ls, a) = ClassSum(ls, InBook(a))
                 /\ CashNet(ms, a) = ClassSum(ms, InBook(a))
  BY NetsAreClassSums
<1>4. \A C : ClassSum(all, C) = ClassSum(ls, C) + ClassSum(ms, C)
  BY ClassSumOfConcat
<1> HIDE DEF all
<1>5. /\ \A l : LedgerNet(all, l) = LedgerNet(ls, l) + LedgerNet(ms, l)
      /\ \A a : CashNet(all, a) = CashNet(ls, a) + CashNet(ms, a)
  BY <1>2, <1>3, <1>4
<1> QED BY <1>1, <1>5 DEF all

\* A mirror posting takes back what the posting moved.
LEMMA NetsOfMirror ==
  ASSUME NEW p \in Posting, NEW n \in Nat
  PROVE  /\ \A l \in Ledgers : LedgerNet(MirrorPosting(p, n).lines, l) = -LedgerNet(p.lines, l)
         /\ \A a \in Accounts : CashNet(MirrorPosting(p, n).lines, a) = -CashNet(p.lines, a)
<1>1. MirrorPosting(p, n).lines \in Seq(Line) /\ p.lines \in Seq(Line)
  BY MirrorTypes DEF Posting
<1>2. \A ln \in Line : /\ [ln EXCEPT !.amount = -@] \in Line
                       /\ [ln EXCEPT !.amount = -@].ledger = ln.ledger
                       /\ [ln EXCEPT !.amount = -@].side = ln.side
                       /\ [ln EXCEPT !.amount = -@].account = ln.account
  BY DEF Line
<1>3. \A l : \A ln \in Line : ln \in OnLedger(l) <=> [ln EXCEPT !.amount = -@] \in OnLedger(l)
  BY <1>2 DEF OnLedger
<1>4. \A a : \A ln \in Line : ln \in InBook(a) <=> [ln EXCEPT !.amount = -@] \in InBook(a)
  BY <1>2 DEF InBook
<1>5. (\A l : OnLedger(l) \in SUBSET Line) /\ (\A a : InBook(a) \in SUBSET Line)
  BY DEF OnLedger, InBook
<1> DEFINE ms == MirrorPosting(p, n).lines
<1>6. /\ \A l : ClassSum(ms, OnLedger(l)) = -ClassSum(p.lines, OnLedger(l))
      /\ \A a : ClassSum(ms, InBook(a)) = -ClassSum(p.lines, InBook(a))
  BY <1>3, <1>4, <1>5, ClassSumOfMirror
<1>7. /\ \A l : /\ LedgerNet(ms, l) = ClassSum(ms, OnLedger(l))
                 /\ LedgerNet(p.lines, l) = ClassSum(p.lines, OnLedger(l))
      /\ \A a : /\ CashNet(ms, a) = ClassSum(ms, InBook(a))
                 /\ CashNet(p.lines, a) = ClassSum(p.lines, InBook(a))
  BY <1>1, NetsAreClassSums
<1> HIDE DEF ms
<1> QED BY <1>6, <1>7 DEF ms

-----------------------------------------------------------------------------
(* Balance: the bank moves by what the account's ledgers move. *)

\* What a list of lines adds to the ledgers of an account together.
LedgersNet(ls, a) == SumFunctionOnSet([l \in Ledgers |-> LedgerNet(ls, l)], LedgersIn(a))
Even(ls) == \A a \in Accounts : CashNet(ls, a) = LedgersNet(ls, a)

\* The ledgers of an account are among the ledgers.
LEMMA LedgersInFinite ==
  ASSUME NEW a
  PROVE  IsFiniteSet(LedgersIn(a)) /\ LedgersIn(a) \subseteq Ledgers
BY LedgersAssumption, FS_Subset DEF LedgersIn

\* Lists that are even make an even list.
LEMMA EvenConcat ==
  ASSUME NEW ls \in Seq(Line), NEW ms \in Seq(Line), Even(ls), Even(ms)
  PROVE  Even(ls \o ms)
<1> SUFFICES ASSUME NEW a \in Accounts PROVE CashNet(ls \o ms, a) = LedgersNet(ls \o ms, a)
  BY DEF Even
<1> DEFINE f == [l \in Ledgers |-> LedgerNet(ls, l)]
           g == [l \in Ledgers |-> LedgerNet(ms, l)]
           h == [l \in Ledgers |-> LedgerNet(ls \o ms, l)]
           L == LedgersIn(a)
<1>1. IsFiniteSet(L) /\ \A l \in L : f[l] \in Int /\ g[l] \in Int /\ h[l] = f[l] + g[l]
  BY LedgersInFinite, NetsType, NetsOfConcat
<1>2. SumFunctionOnSet(h, L) = SumFunctionOnSet(f, L) + SumFunctionOnSet(g, L)
  <2> HIDE DEF f, g, h, L
  <2> QED BY <1>1, SumAdds
<1> QED BY <1>2, NetsOfConcat DEF Even, LedgersNet

\* The mirror of an even list is even.
LEMMA EvenMirror ==
  ASSUME NEW p \in Posting, NEW n \in Nat, Even(p.lines)
  PROVE  Even(MirrorPosting(p, n).lines)
<1> DEFINE ms == MirrorPosting(p, n).lines
<1> SUFFICES ASSUME NEW a \in Accounts PROVE CashNet(ms, a) = LedgersNet(ms, a)
  BY DEF Even
<1> DEFINE f == [l \in Ledgers |-> LedgerNet(p.lines, l)]
           g == [l \in Ledgers |-> LedgerNet(ms, l)]
           L == LedgersIn(a)
<1>1. IsFiniteSet(L) /\ \A l \in L : f[l] \in Int /\ g[l] = -f[l]
  <2>1. p.lines \in Seq(Line)
    BY DEF Posting
  <2> QED BY <2>1, LedgersInFinite, NetsType, NetsOfMirror
<1>2. SumFunctionOnSet(g, L) = -SumFunctionOnSet(f, L)
  <2> HIDE DEF f, g, L
  <2> QED BY <1>1, SumNegates
<1> QED BY <1>2, NetsOfMirror DEF Even, LedgersNet

\* What one line adds to the ledgers of an account.
LEMMA LedgersNetOfOne ==
  ASSUME NEW ln \in Line, NEW a \in Accounts
  PROVE  LedgersNet(<<ln>>, a) = IF ln.ledger \in LedgersIn(a) THEN ln.amount ELSE 0
<1> DEFINE f == [l \in Ledgers |-> LedgerNet(<<ln>>, l)]
           L == LedgersIn(a)
           k == ln.ledger
<1>1. \A l \in Ledgers : f[l] = IF k = l THEN ln.amount ELSE 0
  BY NetsOfOne
<1>2. ln.amount \in Int /\ IsFiniteSet(L) /\ L \subseteq Ledgers
  BY LedgersInFinite DEF Line
<1>3. CASE k \in Ledgers
  <2>1. f[k] = ln.amount /\ \A l \in L \ {k} : f[l] = 0
    BY <1>1, <1>2, <1>3
  <2>2. SumFunctionOnSet(f, L) = IF k \in L THEN f[k] ELSE 0
    <3> HIDE DEF f, L, k
    <3> QED BY <1>2, <2>1, SumOfOne
  <2> QED BY <2>1, <2>2 DEF LedgersNet
<1>4. CASE k \notin Ledgers
  <2>1. k \notin L /\ \A l \in L : f[l] = 0
    BY <1>1, <1>2, <1>4
  <2>2. SumFunctionOnSet(f, L) = 0
    <3> HIDE DEF f, L, k
    <3> QED BY <1>2, <2>1, SumOfZeros
  <2> QED BY <2>1, <2>2 DEF LedgersNet
<1> QED BY <1>3, <1>4

\* A list of two lines adds what each adds.
LEMMA NetsOfPair ==
  ASSUME NEW ln \in Line, NEW mn \in Line, NEW a \in Accounts
  PROVE  /\ CashNet(<<ln, mn>>, a) = CashNet(<<ln>>, a) + CashNet(<<mn>>, a)
         /\ LedgersNet(<<ln, mn>>, a) = LedgersNet(<<ln>>, a) + LedgersNet(<<mn>>, a)
<1> DEFINE ls == <<ln>>
           ms == <<mn>>
           both == <<ln, mn>>
           f == [l \in Ledgers |-> LedgerNet(ls, l)]
           g == [l \in Ledgers |-> LedgerNet(ms, l)]
           h == [l \in Ledgers |-> LedgerNet(both, l)]
           L == LedgersIn(a)
<1>1. both = ls \o ms /\ ls \in Seq(Line) /\ ms \in Seq(Line)
  <2>1. ls \in Seq(Line) /\ ms \in Seq(Line)
    OBVIOUS
  <2>2. both = ls \o ms
    <3>1. /\ ls \o ms \in Seq(Line) /\ both \in Seq(Line)
          /\ Len(ls \o ms) = 2 /\ Len(both) = 2
      BY <2>1, ConcatProperties
    <3>2. (ls \o ms)[1] = ln /\ (ls \o ms)[2] = mn
      BY <2>1, ConcatProperties
    <3>3. \A i \in 1..2 : both[i] = (ls \o ms)[i]
      BY <3>2
    <3> HIDE DEF ls, ms, both
    <3> QED BY <3>1, <3>3, SeqEqual
  <2> QED BY <2>1, <2>2
<1>2. /\ \A l : LedgerNet(both, l) = LedgerNet(ls, l) + LedgerNet(ms, l)
      /\ CashNet(both, a) = CashNet(ls, a) + CashNet(ms, a)
  <2> HIDE DEF ls, ms, both
  <2> QED BY <1>1, NetsOfConcat
<1>3. IsFiniteSet(L) /\ \A l \in L : f[l] \in Int /\ g[l] \in Int /\ h[l] = f[l] + g[l]
  <2> HIDE DEF ls, ms, both
  <2> QED BY <1>1, <1>2, LedgersInFinite, NetsType
<1>4. SumFunctionOnSet(h, L) = SumFunctionOnSet(f, L) + SumFunctionOnSet(g, L)
  <2> HIDE DEF f, g, h, L
  <2> QED BY <1>3, SumAdds
<1> QED BY <1>2, <1>4 DEF LedgersNet

\* Every posting an operation builds balances and lands on a ledger.
LEMMA BuildersAreSound ==
  ASSUME NEW l \in Ledgers, NEW t \in Ledgers, NEW x \in Int
  PROVE  /\ Sound(ReceiptPosting(l, x)) /\ LedgersOf(ReceiptPosting(l, x)) = {l}
         /\ Sound(PaymentPosting(l, x)) /\ LedgersOf(PaymentPosting(l, x)) = {l}
         /\ AccountOf[l] = AccountOf[t] => Sound(TransferPosting(l, t, x))
<1>0. l # 0 /\ t # 0 /\ -x \in Int
  BY LedgersAssumption
<1>1. ASSUME NEW y \in Int PROVE Even(<<CashLine(AccountOf[l], y), LedgerLine(l, y)>>)
  <2> SUFFICES ASSUME NEW a \in Accounts
               PROVE  LET two == <<CashLine(AccountOf[l], y), LedgerLine(l, y)>>
                      IN  CashNet(two, a) = LedgersNet(two, a)
    BY DEF Even
  <2> DEFINE c == CashLine(AccountOf[l], y)
             d == LedgerLine(l, y)
  <2>1. c \in Line /\ d \in Line
    BY AccountsAssumption DEF Line, CashLine, LedgerLine
  <2>2. /\ CashNet(<<c>>, a) = IF AccountOf[l] = a THEN y ELSE 0
        /\ CashNet(<<d>>, a) = 0
    BY <2>1, NetsOfOne DEF CashLine, LedgerLine
  <2>3. /\ LedgersNet(<<c>>, a) = 0
        /\ LedgersNet(<<d>>, a) = IF AccountOf[l] = a THEN y ELSE 0
    BY <2>1, LedgersNetOfOne, LedgersAssumption DEF CashLine, LedgerLine, LedgersIn
  <2> HIDE DEF c, d
  <2>4. CashNet(<<c, d>>, a) = LedgersNet(<<c, d>>, a)
    BY <2>1, <2>2, <2>3, NetsOfPair
  <2> QED BY <2>4 DEF c, d
<1>2. ASSUME AccountOf[l] = AccountOf[t]
      PROVE  Even(<<LedgerLine(l, -x), LedgerLine(t, x)>>)
  <2> SUFFICES ASSUME NEW a \in Accounts
               PROVE  LET two == <<LedgerLine(l, -x), LedgerLine(t, x)>>
                      IN  CashNet(two, a) = LedgersNet(two, a)
    BY DEF Even
  <2> DEFINE c == LedgerLine(l, -x)
             d == LedgerLine(t, x)
  <2>1. c \in Line /\ d \in Line
    BY AccountsAssumption DEF Line, LedgerLine
  <2>2. CashNet(<<c>>, a) = 0 /\ CashNet(<<d>>, a) = 0
    BY <2>1, NetsOfOne DEF LedgerLine
  <2>3. /\ LedgersNet(<<c>>, a) = IF AccountOf[l] = a THEN -x ELSE 0
        /\ LedgersNet(<<d>>, a) = IF AccountOf[l] = a THEN x ELSE 0
    BY <1>2, <2>1, LedgersNetOfOne DEF LedgerLine, LedgersIn
  <2> HIDE DEF c, d
  <2>4. CashNet(<<c, d>>, a) = LedgersNet(<<c, d>>, a)
    BY <2>1, <2>2, <2>3, NetsOfPair
  <2> QED BY <2>4 DEF c, d
<1>3. /\ LedgersOf(ReceiptPosting(l, x)) = {l} /\ LedgersOf(PaymentPosting(l, x)) = {l}
      /\ LedgersOf(TransferPosting(l, t, x)) # {}
  <2>1. DOMAIN ReceiptPosting(l, x).lines = {1, 2} /\ DOMAIN PaymentPosting(l, x).lines = {1, 2}
    BY DEF ReceiptPosting, PaymentPosting
  <2>2. LedgersOf(ReceiptPosting(l, x)) = {l}
    BY <1>0, <2>1 DEF LedgersOf, ReceiptPosting, CashLine, LedgerLine
  <2>3. LedgersOf(PaymentPosting(l, x)) = {l}
    BY <1>0, <2>1 DEF LedgersOf, PaymentPosting, CashLine, LedgerLine
  <2>4. 1 \in DOMAIN TransferPosting(l, t, x).lines /\ TransferPosting(l, t, x).lines[1].ledger = l
    BY DEF TransferPosting, LedgerLine
  <2> QED BY <1>0, <2>2, <2>3, <2>4 DEF LedgersOf
<1>4. /\ Even(ReceiptPosting(l, x).lines) /\ Even(PaymentPosting(l, x).lines)
      /\ AccountOf[l] = AccountOf[t] => Even(TransferPosting(l, t, x).lines)
  BY <1>0, <1>1, <1>2 DEF ReceiptPosting, PaymentPosting, TransferPosting
<1> QED BY <1>3, <1>4 DEF Sound, Balanced, Even, LedgersNet

\* A mirror balances and lands where its original does.
LEMMA MirrorIsSound ==
  ASSUME NEW p \in Posting, NEW n \in Nat, Sound(p)
  PROVE  Sound(MirrorPosting(p, n))
<1>1. Even(p.lines)
  BY DEF Sound, Balanced, Even, LedgersNet
<1>2. Even(MirrorPosting(p, n).lines) /\ LedgersOf(MirrorPosting(p, n)) = LedgersOf(p)
  BY <1>1, EvenMirror, MirrorTypes
<1> QED BY <1>2 DEF Sound, Balanced, Even, LedgersNet

\* The lines of one or two balanced postings are even.
LEMMA LinesAreEven ==
  ASSUME NEW ps \in Seq(Posting), Len(ps) \in {0, 1, 2},
         \A i \in DOMAIN ps : Sound(ps[i])
  PROVE  LinesOf(ps) \in Seq(Line) /\ Even(LinesOf(ps))
<1>1. \A i \in DOMAIN ps : ps[i].lines \in Seq(Line) /\ Even(ps[i].lines)
  <2>1. \A i \in DOMAIN ps : ps[i] \in Posting
    BY ElementOfSeq, LenProperties
  <2> QED BY <2>1 DEF Posting, Sound, Balanced, Even, LedgersNet
<1>2. CASE Len(ps) = 0
  <2>1. LinesOf(ps) = << >>
    BY <1>2 DEF LinesOf
  <2>2. \A a \in Accounts : LedgersNet(<< >>, a) = 0
    <3> SUFFICES ASSUME NEW a \in Accounts PROVE LedgersNet(<< >>, a) = 0
      OBVIOUS
    <3> DEFINE f == [l \in Ledgers |-> LedgerNet(<< >>, l)]
               L == LedgersIn(a)
    <3>1. IsFiniteSet(L) /\ \A l \in L : f[l] = 0
      BY LedgersInFinite, NetsOfNone
    <3>2. SumFunctionOnSet(f, L) = 0
      <4> HIDE DEF f, L
      <4> QED BY <3>1, SumOfZeros
    <3> QED BY <3>2 DEF LedgersNet
  <2> QED BY <2>1, <2>2, NetsOfNone DEF Even
<1>3. CASE Len(ps) = 1
  <2>1. LinesOf(ps) = ps[1].lines /\ 1 \in DOMAIN ps
    BY <1>3 DEF LinesOf
  <2> QED BY <1>1, <2>1
<1>4. CASE Len(ps) = 2
  <2>1. LinesOf(ps) = ps[1].lines \o ps[2].lines /\ 1 \in DOMAIN ps /\ 2 \in DOMAIN ps
    BY <1>4 DEF LinesOf
  <2> QED BY <1>1, <2>1, EvenConcat, NetsOfConcat
<1> QED BY <1>2, <1>3, <1>4

-----------------------------------------------------------------------------
(* What earmarks add up to. *)

\* The amounts of some earmark rows: a natural number, no larger for fewer rows.
LEMMA AmountOfType ==
  ASSUME NEW em \in [EarmarkIds -> EarmarkRow], NEW es \in SUBSET EarmarkIds
  PROVE  AmountOf(em, es) \in Nat
<1> DEFINE f == [e \in EarmarkIds |-> em[e].amount]
<1>1. IsFiniteSet(es) /\ \A e \in es : f[e] \in Nat
  BY EarmarksAssumption, FS_Subset DEF EarmarkRow
<1>2. SumFunctionOnSet(f, es) \in Nat
  <2> HIDE DEF f
  <2> QED BY <1>1, SumNotNegative
<1> QED BY <1>2 DEF AmountOf

\* Fewer earmarks hold no more.
LEMMA AmountOfFewer ==
  ASSUME NEW em \in [EarmarkIds -> EarmarkRow], NEW fs \in SUBSET EarmarkIds, NEW es \in SUBSET fs
  PROVE  AmountOf(em, es) <= AmountOf(em, fs)
<1> DEFINE f == [e \in EarmarkIds |-> em[e].amount]
<1>1. IsFiniteSet(fs) /\ \A e \in fs : f[e] \in Nat
  BY EarmarksAssumption, FS_Subset DEF EarmarkRow
<1>2. SumFunctionOnSet(f, es) <= SumFunctionOnSet(f, fs)
  <2> HIDE DEF f
  <2> QED BY <1>1, SumGrows
<1> QED BY <1>2 DEF AmountOf

\* Rows that agree have the same amounts.
LEMMA AmountOfSame ==
  ASSUME NEW em, NEW en, NEW es \in SUBSET EarmarkIds, \A e \in es : em[e] = en[e]
  PROVE  AmountOf(em, es) = AmountOf(en, es)
<1> DEFINE f == [e \in EarmarkIds |-> em[e].amount]
           g == [e \in EarmarkIds |-> en[e].amount]
<1>1. IsFiniteSet(es) /\ \A e \in es : f[e] = g[e]
  BY EarmarksAssumption, FS_Subset
<1>2. SumFunctionOnSet(f, es) = SumFunctionOnSet(g, es)
  <2> HIDE DEF f, g
  <2> QED BY <1>1, SumAgrees
<1> QED BY <1>2 DEF AmountOf

\* One row apart from the others.
LEMMA AmountOfOneApart ==
  ASSUME NEW em \in [EarmarkIds -> EarmarkRow], NEW es \in SUBSET EarmarkIds, NEW e \in es
  PROVE  AmountOf(em, es) = em[e].amount + AmountOf(em, es \ {e})
<1> DEFINE f == [d \in EarmarkIds |-> em[d].amount]
<1>1. IsFiniteSet(es) /\ \A d \in es : f[d] \in Int
  <2>1. IsFiniteSet(es) /\ \A d \in es : f[d] \in Nat
    BY EarmarksAssumption, FS_Subset DEF EarmarkRow
  <2> HIDE DEF f
  <2> QED BY <2>1
<1>2. SumFunctionOnSet(f, es) = f[e] + SumFunctionOnSet(f, es \ {e})
  <2> HIDE DEF f
  <2> QED BY <1>1, SumTakesOut
<1> QED BY <1>2 DEF AmountOf

\* Rows in two parts.
LEMMA AmountOfParts ==
  ASSUME NEW em \in [EarmarkIds -> EarmarkRow], NEW fs \in SUBSET EarmarkIds, NEW es \in SUBSET fs
  PROVE  AmountOf(em, fs) = AmountOf(em, es) + AmountOf(em, fs \ es)
<1> DEFINE f == [d \in EarmarkIds |-> em[d].amount]
<1>1. IsFiniteSet(fs) /\ \A d \in fs : f[d] \in Int
  <2>1. IsFiniteSet(fs) /\ \A d \in fs : f[d] \in Nat
    BY EarmarksAssumption, FS_Subset DEF EarmarkRow
  <2> HIDE DEF f
  <2> QED BY <2>1
<1>2. SumFunctionOnSet(f, fs) = SumFunctionOnSet(f, es) + SumFunctionOnSet(f, fs \ es)
  <2> HIDE DEF f
  <2> QED BY <1>1, SumSplits
<1> QED BY <1>2 DEF AmountOf

\* Releasing the newest first, until what is left fits: it fits.
LEMMA AutoReleaseFits ==
  ASSUME NEW em \in [EarmarkIds -> EarmarkRow], NEW l, NEW bal \in Nat
  PROVE  AmountOf(em, ActiveOn(em, l) \ AutoReleased(em, l, bal)) <= bal
<1> DEFINE A == ActiveOn(em, l)
           Upto(e) == {f \in A : f <= e}
           Above(e) == {f \in A : f > e}
           R == A \ AutoReleased(em, l, bal)
<1>1. A \subseteq EarmarkIds /\ \A e \in A : e \in Nat
  BY EarmarksAssumption DEF ActiveOn
<1>2. ASSUME NEW e \in R PROVE AmountOf(em, Upto(e)) <= bal
  <2>1. e \in A /\ ~(Marked(em, l) - AmountOf(em, Above(e)) > bal)
    BY DEF AutoReleased
  <2>2. Above(e) \in SUBSET A /\ A \ Above(e) = Upto(e)
    BY <1>1, <2>1
  <2>3. Marked(em, l) = AmountOf(em, Above(e)) + AmountOf(em, Upto(e))
    <3> HIDE DEF A, Above, Upto
    <3>1. AmountOf(em, A) = AmountOf(em, Above(e)) + AmountOf(em, A \ Above(e))
      BY <1>1, <2>2, AmountOfParts
    <3> QED BY <2>2, <3>1 DEF Marked, A
  <2>4. AmountOf(em, Above(e)) \in Nat /\ AmountOf(em, Upto(e)) \in Nat
    BY <1>1, AmountOfType
  <2> HIDE DEF A, Above, Upto, R
  <2> QED BY <2>1, <2>3, <2>4
<1>3. CASE R = {}
  <2>1. AmountOf(em, R) = 0
    BY <1>3, SumOfNone DEF AmountOf
  <2> QED BY <2>1
<1>4. CASE R # {}
  <2>1. R \in SUBSET Nat /\ IsFiniteSet(R)
    BY <1>1, EarmarksAssumption, FS_Subset
  <2>2. PICK e \in R : \A f \in R : f <= e
    <3> HIDE DEF R
    <3> QED BY <1>4, <2>1, LargestNatural
  <2>3. R \in SUBSET Upto(e) /\ Upto(e) \in SUBSET EarmarkIds
    BY <1>1, <2>2
  <2>4. AmountOf(em, R) <= AmountOf(em, Upto(e)) /\ AmountOf(em, Upto(e)) <= bal
    <3>1. AmountOf(em, Upto(e)) <= bal
      BY <1>2
    <3> HIDE DEF R, Upto
    <3> QED BY <2>3, <3>1, AmountOfFewer
  <2>5. AmountOf(em, R) \in Nat /\ AmountOf(em, Upto(e)) \in Nat
    BY <2>3, AmountOfType
  <2> HIDE DEF R, Upto
  <2> QED BY <2>4, <2>5 DEF R, A
<1> QED BY <1>3, <1>4

-----------------------------------------------------------------------------
(* The inductive invariant: what holds of each session, and of what is committed. *)

MInv == IInv /\ MoneyDiscipline

CommittedSound ==
  /\ \A n \in DOMAIN posted : Sound(posted[n])
  /\ EarmarksCovered
  /\ BookAgreesWithLedgers
  /\ ReversalsExactAndOnce

\* A session between transactions.
AtRest(s) ==
  /\ pc[s] = "idle" /\ job[s] = NoJob /\ next[s] = 1
  /\ touched[s] = {} /\ ends[s] = {}
  /\ \A l \in Ledgers : net[s][l] = 0
  /\ \A a \in Accounts : cash[s][a] = 0

\* Nothing has been inserted before the first line.
LEMMA NothingInserted ==
  ASSUME NEW s, next[s] = 1
  PROVE  Inserted(s) = << >>
BY SubSeqEmpty DEF Inserted

RestIsSound == \A s \in Sessions : AtRest(s) => SessionSound(s)

\* A session at rest has nothing to answer for.
LEMMA AtRestIsSound == RestIsSound
<1> SUFFICES ASSUME NEW s \in Sessions, AtRest(s) PROVE SessionSound(s)
  BY DEF RestIsSound
<1>1. JobSound(job[s])
  BY DEF AtRest, JobSound, NoJob
<1>2. WritesAreItsLines(s)
  <2>1. Len(job[s].lines) = 0
    BY DEF AtRest, NoJob
  <2> QED BY <2>1, NothingInserted, NetsOfNone DEF AtRest, WritesAreItsLines
<1> QED BY <1>1, <1>2 DEF AtRest, SessionSound, ChecksStand, EndsAreItsOwn, CoverKept, NoJob

\* A session whose own state stands, while what is committed stands.
LEMMA UntouchedSession ==
  ASSUME NEW t \in Sessions, SessionSound(t), UNCHANGED <<status, balance, earmark, posted>>,
         pc'[t] = pc[t], job'[t] = job[t], next'[t] = next[t], touched'[t] = touched[t],
         run'[t] = run[t], net'[t] = net[t], cash'[t] = cash[t], ends'[t] = ends[t]
  PROVE  SessionSound(t)'
<1>1. JobSound(job[t])'
  BY DEF SessionSound, JobSound, Mirrors, Sound
<1>2. WritesAreItsLines(t)'
  BY DEF SessionSound, WritesAreItsLines, Inserted
<1>3. ChecksStand(t)'
  BY DEF SessionSound, ChecksStand, Reversible, Reversed
<1>4. EndsAreItsOwn(t)'
  BY DEF SessionSound, EndsAreItsOwn
<1>5. CoverKept(t)'
  BY DEF SessionSound, CoverKept, Kept, Left, Residual
<1> QED BY <1>1, <1>2, <1>3, <1>4, <1>5 DEF SessionSound

\* What is committed stays sound while it stands.
LEMMA UntouchedCommitted ==
  ASSUME CommittedSound, UNCHANGED committed
  PROVE  CommittedSound'
BY DEF CommittedSound, committed, EarmarksCovered, BookAgreesWithLedgers, ReversalsExactAndOnce, Sound

\* A step of one session that commits nothing.
LEMMA OneSessionSteps ==
  ASSUME MoneyDiscipline, NEW s \in Sessions, UNCHANGED committed, SessionSound(s)',
         \A t \in Sessions \ {s} :
           /\ pc'[t] = pc[t] /\ job'[t] = job[t] /\ next'[t] = next[t] /\ touched'[t] = touched[t]
           /\ run'[t] = run[t] /\ net'[t] = net[t] /\ cash'[t] = cash[t] /\ ends'[t] = ends[t]
  PROVE  MoneyDiscipline'
<1>1. \A t \in Sessions : SessionSound(t)'
  <2> SUFFICES ASSUME NEW t \in Sessions, t # s PROVE SessionSound(t)'
    OBVIOUS
  <2> QED BY UntouchedSession DEF MoneyDiscipline, committed
<1>2. CommittedSound'
  BY UntouchedCommitted DEF MoneyDiscipline, CommittedSound
<1> QED BY <1>1, <1>2 DEF MoneyDiscipline, CommittedSound

\* Nothing is posted or earmarked at the start.
LEMMA InitMoney == Init => MoneyDiscipline
<1> SUFFICES ASSUME Init PROVE MoneyDiscipline
  OBVIOUS
<1>1. \A s \in Sessions : SessionSound(s)
  <2>1. \A s \in Sessions : AtRest(s)
    BY DEF Init, AtRest
  <2> QED BY <2>1, AtRestIsSound DEF RestIsSound
<1>2. \A n \in DOMAIN posted : FALSE
  BY DEF Init
<1>3. EarmarksCovered
  <2>1. \A l \in Ledgers : ActiveOn(earmark, l) = {}
    BY DEF Init, ActiveOn, NoEarmark
  <2>2. \A l \in Ledgers : Marked(earmark, l) = 0 /\ balance[l] = 0
    BY <2>1, NothingMarked DEF Init
  <2> QED BY <2>2 DEF EarmarksCovered
<1>4. BookAgreesWithLedgers
  <2> SUFFICES ASSUME NEW a \in Accounts PROVE book[a] = SumFunctionOnSet(balance, LedgersIn(a))
    BY DEF BookAgreesWithLedgers
  <2>1. \A l \in LedgersIn(a) : balance[l] = 0
    BY LedgersInFinite DEF Init
  <2>2. SumFunctionOnSet(balance, LedgersIn(a)) = 0
    BY <2>1, LedgersInFinite, SumOfZeros
  <2> QED BY <2>2 DEF Init
<1> QED BY <1>1, <1>2, <1>3, <1>4 DEF MoneyDiscipline, ReversalsExactAndOnce

-----------------------------------------------------------------------------
(* Starting: every operation hands over a sound job. *)

\* A posting, alone or with its mirror, is a sound job.
LEMMA PostJobSound ==
  ASSUME NEW ps \in Seq(Posting), Len(ps) \in {1, 2},
         \A i \in DOMAIN ps : Sound(ps[i]) /\ Mirrors(ps[i]),
         Len(ps) = 2 => ps[2].reverses = 0,
         NEW j, j.op = "post", j.postings = ps, j.lines = LinesOf(ps),
         j.wanted = UNION {LedgersOf(ps[i]) : i \in DOMAIN ps},
         j.system => j.earmark = 0
  PROVE  JobSound(j)
BY DEF JobSound

\* A session at its start has written nothing yet.
LEMMA StartMoney ==
  ASSUME MInv, NEW s \in Sessions, NEW name, NEW j \in Job, JobSound(j), j.op # "release",
         Start(s, name, j)
  PROVE  MoneyDiscipline'
<1>1. /\ pc[s] = "idle" /\ pc' = [pc EXCEPT ![s] = "work"] /\ job' = [job EXCEPT ![s] = j]
      /\ UNCHANGED <<committed, next, touched, run, net, cash, ends>>
  BY DEF Start, writes
<1>2. /\ pc \in [Sessions -> {"idle", "work", "ready"}] /\ job \in [Sessions -> Job]
      /\ j.lines \in Seq(Line)
  BY DEF MInv, IInv, TypeOK, Job
<1>3. pc'[s] = "work" /\ job'[s] = j
  BY <1>1, <1>2
<1>4. touched[s] = {} /\ ends[s] = {} /\ next[s] = 1
  BY <1>1 DEF MInv, IInv, LockDiscipline, IdleIsClean, MoneyDiscipline, SessionSound, WritesAreItsLines
<1>5. SessionSound(s)'
  <2>1. JobSound(job[s])'
    BY <1>1, <1>3 DEF JobSound, Mirrors, Sound, committed
  <2>2. WritesAreItsLines(s)'
    <3>1. Inserted(s) = << >> /\ Inserted(s)' = << >>
      <4>1. next'[s] = 1
        BY <1>1, <1>4
      <4> QED BY <1>4, <4>1, SubSeqEmpty DEF Inserted
    <3>2. /\ \A l \in Ledgers : net[s][l] = LedgerNet(Inserted(s), l)
          /\ \A a \in Accounts : cash[s][a] = CashNet(Inserted(s), a)
          /\ touched[s] = {Inserted(s)[i].ledger : i \in DOMAIN Inserted(s)} \ {0}
      BY DEF MInv, MoneyDiscipline, SessionSound, WritesAreItsLines
    <3>3. 1 \in 1..(Len(j.lines) + 1)
      BY <1>2, LenProperties
    <3> QED BY <1>1, <1>3, <1>4, <3>1, <3>2, <3>3 DEF WritesAreItsLines
  <2>3. ChecksStand(s)' /\ EndsAreItsOwn(s)' /\ CoverKept(s)'
    BY <1>1, <1>3, <1>4 DEF ChecksStand, EndsAreItsOwn, CoverKept
  <2> QED BY <2>1, <2>2, <2>3 DEF SessionSound
<1>6. \A t \in Sessions \ {s} : pc'[t] = pc[t] /\ job'[t] = job[t]
  BY <1>1, <1>2
<1> QED BY <1>1, <1>5, <1>6, OneSessionSteps DEF MInv

\* Reversals and first postings of a job.
LEMMA FirstHand ==
  ASSUME NEW l \in Ledgers, NEW t \in Ledgers, NEW x \in Int
  PROVE  /\ Mirrors(ReceiptPosting(l, x)) /\ ReceiptPosting(l, x).reverses = 0
         /\ Mirrors(PaymentPosting(l, x)) /\ PaymentPosting(l, x).reverses = 0
         /\ Mirrors(TransferPosting(l, t, x)) /\ TransferPosting(l, t, x).reverses = 0
BY DEF Mirrors, ReceiptPosting, PaymentPosting, TransferPosting

\* The operations hand over sound jobs: each posts lines that agree in both books.
LEMMA BeginMoney ==
  ASSUME MInv, NEW s \in Sessions, Begin(s)
  PROVE  MoneyDiscipline'
<1> USE AmountsAssumption, LedgersAssumption
<1>0. \A n \in DOMAIN posted : posted[n] \in Posting /\ n \in Nat /\ Sound(posted[n]) /\ n # 0
  <2>1. \A n \in DOMAIN posted : posted[n] \in Posting /\ n \in Nat /\ n # 0
    BY ElementOfSeq, LenProperties DEF MInv, IInv, TypeOK
  <2> QED BY <2>1 DEF MInv, MoneyDiscipline
<1>1. ASSUME NEW l \in Ledgers, NEW x \in Amounts, StartReceipt(s, l, x)
      PROVE  MoneyDiscipline'
  <2> DEFINE ps == <<ReceiptPosting(l, x)>>
             j == [PostJob(ps) EXCEPT !.to = IF status[l] = "none" THEN "open" ELSE "same"]
  <2>1. ps \in Seq(Posting) /\ Len(ps) = 1 /\ DOMAIN ps = {1} /\ ps[1] = ReceiptPosting(l, x)
    BY PostingTypes
  <2>2. Sound(ps[1]) /\ Mirrors(ps[1])
    BY <2>1, BuildersAreSound, FirstHand
  <2>3. PostJob(ps) \in Job
    BY <2>1, PostJobTypes
  <2>4. j \in Job /\ j.op = "post" /\ ~j.system
    BY <2>3 DEF Job, PostJob, NoJob
  <2>5. j.postings = ps /\ j.lines = LinesOf(ps) /\ j.wanted = UNION {LedgersOf(ps[i]) : i \in DOMAIN ps}
    <3> HIDE DEF ps
    <3> QED BY DEF PostJob, NoJob
  <2>6. JobSound(j)
    <3> HIDE DEF ps, j
    <3> QED BY <2>1, <2>2, <2>4, <2>5, PostJobSound
  <2> QED BY <1>1, <2>4, <2>6, StartMoney DEF StartReceipt
<1>2. ASSUME NEW l \in Ledgers, NEW x \in Amounts, NEW e \in EarmarkIds \cup {0},
             StartPayment(s, l, x, e)
      PROVE  MoneyDiscipline'
  <2> DEFINE ps == <<PaymentPosting(l, x)>>
             j == [PostJob(ps) EXCEPT !.earmark = e, !.amount = x]
  <2>1. ps \in Seq(Posting) /\ Len(ps) = 1 /\ DOMAIN ps = {1} /\ ps[1] = PaymentPosting(l, x)
    BY PostingTypes
  <2>2. Sound(ps[1]) /\ Mirrors(ps[1])
    BY <2>1, BuildersAreSound, FirstHand
  <2>3. PostJob(ps) \in Job
    BY <2>1, PostJobTypes
  <2>4. j \in Job /\ j.op = "post" /\ ~j.system
    BY <2>3 DEF Job, PostJob, NoJob
  <2>5. j.postings = ps /\ j.lines = LinesOf(ps) /\ j.wanted = UNION {LedgersOf(ps[i]) : i \in DOMAIN ps}
    <3> HIDE DEF ps
    <3> QED BY DEF PostJob, NoJob
  <2>6. JobSound(j)
    <3> HIDE DEF ps, j
    <3> QED BY <2>1, <2>2, <2>4, <2>5, PostJobSound
  <2> QED BY <1>2, <2>4, <2>6, StartMoney DEF StartPayment
<1>3. ASSUME NEW f \in Ledgers, NEW t \in Ledgers, NEW x \in Amounts, StartTransfer(s, f, t, x)
      PROVE  MoneyDiscipline'
  <2> DEFINE ps == <<TransferPosting(f, t, x)>>
             j == PostJob(ps)
  <2>1. ps \in Seq(Posting) /\ Len(ps) = 1 /\ DOMAIN ps = {1} /\ ps[1] = TransferPosting(f, t, x)
    BY PostingTypes
  <2>2. Sound(ps[1]) /\ Mirrors(ps[1])
    BY <1>3, <2>1, BuildersAreSound, FirstHand DEF StartTransfer
  <2>3. j \in Job
    BY <2>1, PostJobTypes
  <2>4. j.op = "post" /\ ~j.system
    BY DEF PostJob, NoJob
  <2>5. j.postings = ps /\ j.lines = LinesOf(ps) /\ j.wanted = UNION {LedgersOf(ps[i]) : i \in DOMAIN ps}
    <3> HIDE DEF ps
    <3> QED BY DEF PostJob, NoJob
  <2>6. JobSound(j)
    <3> HIDE DEF ps, j
    <3> QED BY <2>1, <2>2, <2>4, <2>5, PostJobSound
  <2> QED BY <1>3, <2>3, <2>4, <2>6, StartMoney DEF StartTransfer
<1>4. ASSUME NEW f \in Ledgers, NEW t \in Ledgers, NEW x \in Amounts, StartCrossAccount(s, f, t, x)
      PROVE  MoneyDiscipline'
  <2> DEFINE ps == <<PaymentPosting(f, x), ReceiptPosting(t, x)>>
             j == PostJob(ps)
  <2>1. /\ ps \in Seq(Posting) /\ Len(ps) = 2 /\ DOMAIN ps = {1, 2}
        /\ ps[1] = PaymentPosting(f, x) /\ ps[2] = ReceiptPosting(t, x)
    BY PostingTypes
  <2>2. Sound(ps[1]) /\ Mirrors(ps[1]) /\ Sound(ps[2]) /\ Mirrors(ps[2]) /\ ps[2].reverses = 0
    BY <2>1, BuildersAreSound, FirstHand
  <2>3. j \in Job
    BY <2>1, PostJobTypes
  <2>4. j.op = "post" /\ ~j.system
    BY DEF PostJob, NoJob
  <2>5. j.postings = ps /\ j.lines = LinesOf(ps) /\ j.wanted = UNION {LedgersOf(ps[i]) : i \in DOMAIN ps}
    <3> HIDE DEF ps
    <3> QED BY DEF PostJob, NoJob
  <2>6. JobSound(j)
    <3> HIDE DEF ps, j
    <3> QED BY <2>1, <2>2, <2>4, <2>5, PostJobSound
  <2> QED BY <1>4, <2>3, <2>4, <2>6, StartMoney DEF StartCrossAccount
<1>5. ASSUME NEW n \in DOMAIN posted, StartReversal(s, n)
      PROVE  MoneyDiscipline'
  <2> DEFINE full == MirrorPosting(posted[n], n)
             ps == <<full>>
             j == PostJob(ps)
  <2>1. ps \in Seq(Posting) /\ Len(ps) = 1 /\ DOMAIN ps = {1} /\ ps[1] = full
    BY <1>0, MirrorTypes
  <2>2. Sound(full) /\ Mirrors(full)
    BY <1>0, <1>5, MirrorIsSound DEF Mirrors, MirrorPosting, StartReversal
  <2>3. j \in Job
    BY <2>1, PostJobTypes
  <2>4. j.op = "post" /\ ~j.system
    BY DEF PostJob, NoJob
  <2>5. j.postings = ps /\ j.lines = LinesOf(ps) /\ j.wanted = UNION {LedgersOf(ps[i]) : i \in DOMAIN ps}
    <3> HIDE DEF ps
    <3> QED BY DEF PostJob, NoJob
  <2>6. JobSound(j)
    <3> HIDE DEF full, ps, j
    <3> QED BY <2>1, <2>2, <2>4, <2>5, PostJobSound
  <2> QED BY <1>5, <2>3, <2>4, <2>6, StartMoney DEF StartReversal
<1>6. ASSUME NEW n \in DOMAIN posted, NEW h \in Amounts \cup {0},
             NEW l \in LedgersOf(posted[n]), StartDishonour(s, n, h, l)
      PROVE  MoneyDiscipline'
  <2> DEFINE full == MirrorPosting(posted[n], n)
             ps == IF h = 0 THEN <<full>> ELSE <<full, ReceiptPosting(l, h)>>
             j == [PostJob(ps) EXCEPT !.system = TRUE]
  <2>1. l \in Ledgers
    BY <1>0, LedgersOfType
  <2>2. /\ ps \in Seq(Posting) /\ Len(ps) \in {1, 2} /\ DOMAIN ps \subseteq {1, 2} /\ ps[1] = full
        /\ h = 0 => DOMAIN ps = {1}
        /\ Len(ps) = 2 => ps[2] = ReceiptPosting(l, h)
        /\ h # 0 => ps[2] = ReceiptPosting(l, h)
    BY <1>0, <2>1, MirrorTypes, PostingTypes
  <2>3. Sound(full) /\ Mirrors(full)
    BY <1>0, <1>6, MirrorIsSound DEF Mirrors, MirrorPosting, StartDishonour
  <2>4. /\ Sound(ReceiptPosting(l, h)) /\ Mirrors(ReceiptPosting(l, h))
        /\ ReceiptPosting(l, h).reverses = 0
    <3>1. h \in Int
      OBVIOUS
    <3> QED BY <2>1, <3>1, BuildersAreSound, FirstHand
  <2>5. (\A i \in DOMAIN ps : Sound(ps[i]) /\ Mirrors(ps[i])) /\ (Len(ps) = 2 => ps[2].reverses = 0)
    <3> HIDE DEF full, ps
    <3> QED BY <2>2, <2>3, <2>4
  <2>6. PostJob(ps) \in Job
    BY <2>2, PostJobTypes
  <2>7. j \in Job /\ j.op = "post" /\ j.earmark = 0
    <3> HIDE DEF ps
    <3> QED BY <2>6 DEF Job, PostJob, NoJob
  <2>8. j.postings = ps /\ j.lines = LinesOf(ps) /\ j.wanted = UNION {LedgersOf(ps[i]) : i \in DOMAIN ps}
    <3> HIDE DEF ps
    <3> QED BY DEF PostJob, NoJob
  <2>9. JobSound(j)
    <3> HIDE DEF full, ps, j
    <3> QED BY <2>2, <2>5, <2>7, <2>8, PostJobSound
  <2> QED BY <1>6, <2>7, <2>9, StartMoney DEF StartDishonour
<1>7. ASSUME NEW l \in Ledgers, StartOpen(s, l) \/ StartClose(s, l) \/ StartReopen(s, l)
      PROVE  MoneyDiscipline'
  <2>1. /\ LedgerJob("open", l, "open") \in Job /\ LedgerJob("close", l, "closed") \in Job
        /\ LedgerJob("reopen", l, "open") \in Job
    BY LedgerJobTypes
  <2>2. /\ JobSound(LedgerJob("open", l, "open")) /\ LedgerJob("open", l, "open").op = "open"
        /\ JobSound(LedgerJob("close", l, "closed")) /\ LedgerJob("close", l, "closed").op = "close"
        /\ JobSound(LedgerJob("reopen", l, "open")) /\ LedgerJob("reopen", l, "open").op = "reopen"
    BY DEF LedgerJob, NoJob, JobSound
  <2> QED BY <1>7, <2>1, <2>2, StartMoney DEF StartOpen, StartClose, StartReopen
<1>8. ASSUME NEW l \in Ledgers, NEW x \in Amounts, StartPlace(s, l, x)
      PROVE  MoneyDiscipline'
  <2> DEFINE j == [LedgerJob("place", l, "same") EXCEPT !.amount = x]
  <2>1. j \in Job
    BY PlaceJobTypes
  <2>2. JobSound(j) /\ j.op = "place"
    BY DEF LedgerJob, NoJob, JobSound
  <2> QED BY <1>8, <2>1, <2>2, StartMoney DEF StartPlace
<1>9. ASSUME NEW e \in EarmarkIds, NEW x \in Amounts, StartRelease(s, e, x)
      PROVE  MoneyDiscipline'
  <2> DEFINE j == [NoJob EXCEPT !.op = "release", !.earmark = e, !.amount = x]
  <2>1. /\ pc[s] = "idle" /\ pc' = [pc EXCEPT ![s] = "ready"] /\ job' = [job EXCEPT ![s] = j]
        /\ ends' = [ends EXCEPT ![s] = {e}]
        /\ UNCHANGED <<committed, next, touched, run, net, cash>>
    BY <1>9 DEF StartRelease
  <2>2. /\ pc \in [Sessions -> {"idle", "work", "ready"}] /\ job \in [Sessions -> Job]
        /\ ends \in [Sessions -> SUBSET EarmarkIds]
    BY DEF MInv, IInv, TypeOK
  <2>3. pc'[s] = "ready" /\ job'[s] = j /\ ends'[s] = {e}
    BY <2>1, <2>2
  <2>4. touched[s] = {} /\ next[s] = 1
    BY <2>1 DEF MInv, IInv, LockDiscipline, IdleIsClean, MoneyDiscipline, SessionSound, WritesAreItsLines
  <2>5. /\ j.op = "release" /\ j.earmark = e /\ j.amount = x /\ ~j.system /\ j.wanted = {}
        /\ j.postings = << >> /\ j.lines = << >> /\ e # 0
    BY EarmarksAssumption DEF NoJob
  <2>6. SessionSound(s)'
    <3> HIDE DEF j
    <3>1. JobSound(job[s])'
      BY <2>3, <2>5 DEF JobSound
    <3>2. WritesAreItsLines(s)'
      <4>1. Inserted(s) = << >> /\ Inserted(s)' = << >>
        <5>1. next'[s] = 1
          BY <2>1, <2>4
        <5> QED BY <2>4, <5>1, SubSeqEmpty DEF Inserted
      <4>2. /\ \A l \in Ledgers : net[s][l] = LedgerNet(Inserted(s), l)
            /\ \A a \in Accounts : cash[s][a] = CashNet(Inserted(s), a)
            /\ touched[s] = {Inserted(s)[i].ledger : i \in DOMAIN Inserted(s)} \ {0}
        BY DEF MInv, MoneyDiscipline, SessionSound, WritesAreItsLines
      <4>3. Len(j.lines) = 0
        BY <2>5
      <4> QED BY <2>1, <2>3, <2>4, <4>1, <4>2, <4>3 DEF WritesAreItsLines
    <3>3. ChecksStand(s)' /\ EndsAreItsOwn(s)' /\ CoverKept(s)'
      BY <2>1, <2>3, <2>4, <2>5 DEF ChecksStand, EndsAreItsOwn, CoverKept
    <3> QED BY <3>1, <3>2, <3>3 DEF SessionSound
  <2>7. \A t \in Sessions \ {s} : pc'[t] = pc[t] /\ job'[t] = job[t] /\ ends'[t] = ends[t]
    BY <2>1, <2>2
  <2> QED BY <2>1, <2>6, <2>7, OneSessionSteps DEF MInv
<1> QED BY <1>1, <1>2, <1>3, <1>4, <1>5, <1>6, <1>7, <1>8, <1>9 DEF Begin

-----------------------------------------------------------------------------
(* The statements of a transaction. *)

\* A ledger is locked, and what is free on it is read under the lock.
LEMMA LockLedgerMoney ==
  ASSUME MInv, NEW s \in Sessions, LockLedger(s)
  PROVE  MoneyDiscipline'
<1>1. SessionSound(s)
  BY DEF MInv, MoneyDiscipline
<1>2. UNCHANGED <<committed, pc, job, writes>>
  BY DEF LockLedger
<1>3. SessionSound(s)'
  BY <1>1, <1>2, UntouchedSession DEF committed, writes
<1> QED BY <1>2, <1>3, OneSessionSteps DEF MInv, writes

\* Inserting a line adds it to what has been inserted.
LEMMA InsertedGrows ==
  ASSUME MInv, NEW s \in Sessions, next[s] \in DOMAIN job[s].lines,
         next' = [next EXCEPT ![s] = @ + 1], UNCHANGED job
  PROVE  LET ln == job[s].lines[next[s]] IN
         /\ Inserted(s) \in Seq(Line) /\ ln \in Line
         /\ next'[s] = next[s] + 1 /\ next'[s] \in 1..(Len(job[s].lines) + 1)
         /\ Inserted(s)' = Inserted(s) \o <<ln>>
         /\ \A l : LedgerNet(Inserted(s)', l)
                     = LedgerNet(Inserted(s), l) + (IF ln.ledger = l THEN ln.amount ELSE 0)
         /\ \A a : CashNet(Inserted(s)', a)
                     = CashNet(Inserted(s), a)
                       + (IF ln.side = "cash_book" /\ ln.account = a THEN ln.amount ELSE 0)
         /\ {Inserted(s)'[i].ledger : i \in DOMAIN Inserted(s)'}
              = {Inserted(s)[i].ledger : i \in DOMAIN Inserted(s)} \cup {ln.ledger}
<1> DEFINE ln == job[s].lines[next[s]]
           ls == job[s].lines
           k == next[s]
           old == Inserted(s)
<1>1. ls \in Seq(Line) /\ next \in [Sessions -> Nat] /\ k \in Nat
  BY DEF MInv, IInv, TypeOK, Job
<1>2. k \in 1..Len(ls) /\ Len(ls) \in Nat
  BY <1>1, LenProperties
<1>3. ln \in Line
  BY <1>1, <1>2, ElementOfSeq
<1>4. next'[s] = k + 1 /\ k + 1 \in 1..(Len(ls) + 1)
  BY <1>1, <1>2
<1>5. old \in Seq(Line)
  <2>1. \A i \in 1..(k - 1) : ls[i] \in Line
    BY <1>1, <1>2, ElementOfSeq
  <2> QED BY <1>1, <2>1, SubSeqProperties DEF Inserted
<1>6. Inserted(s)' = old \o <<ln>>
  <2>1. Inserted(s)' = SubSeq(ls, 1, k)
    <3>1. Inserted(s)' = SubSeq(ls, 1, (k + 1) - 1)
      BY <1>4 DEF Inserted
    <3>2. (k + 1) - 1 = k
      BY <1>1
    <3> QED BY <3>1, <3>2
  <2>2. 1 \in 1..Len(ls)
    BY <1>2
  <2>3. k \in 1..Len(ls)
    BY <1>2
  <2> QED BY <1>1, <2>1, <2>2, <2>3, SubSeqRecursiveSecond DEF Inserted
<1>7. /\ <<ln>> \in Seq(Line) /\ Len(<<ln>>) = 1 /\ <<ln>>[1] = ln
  BY <1>3
<1>8. /\ \A l : LedgerNet(old \o <<ln>>, l) = LedgerNet(old, l) + LedgerNet(<<ln>>, l)
      /\ \A a : CashNet(old \o <<ln>>, a) = CashNet(old, a) + CashNet(<<ln>>, a)
  BY <1>5, <1>7, NetsOfConcat
<1>9. /\ \A l : LedgerNet(<<ln>>, l) = IF ln.ledger = l THEN ln.amount ELSE 0
      /\ \A a : CashNet(<<ln>>, a) = IF ln.side = "cash_book" /\ ln.account = a THEN ln.amount ELSE 0
  BY <1>3, NetsOfOne
<1>10. {(old \o <<ln>>)[i].ledger : i \in DOMAIN (old \o <<ln>>)}
         = {old[i].ledger : i \in DOMAIN old} \cup {ln.ledger}
  <2> DEFINE one == <<ln>>
             n == Len(old)
             all == old \o one
  <2>1. /\ all \in Seq(Line) /\ Len(all) = n + 1
        /\ \A i \in 1..(n + 1) : all[i] = IF i <= n THEN old[i] ELSE one[i - n]
    BY <1>5, <1>7, ConcatProperties
  <2>2. n \in Nat /\ DOMAIN old = 1..n /\ DOMAIN all = 1..(n + 1)
    BY <1>5, <2>1, LenProperties
  <2> HIDE DEF old, one, n, all
  <2>3. (\A i \in 1..n : all[i] = old[i]) /\ all[n + 1] = one[1]
    <3>1. (n + 1) - n = 1 /\ n + 1 \in 1..(n + 1) /\ ~(n + 1 <= n)
      BY <2>2
    <3>2. \A i \in 1..n : i \in 1..(n + 1) /\ i <= n
      BY <2>2
    <3> QED BY <2>1, <3>1, <3>2
  <2>4. 1..(n + 1) = 1..n \cup {n + 1}
    BY <2>2
  <2>5. one[1] = ln
    BY <1>7 DEF one
  <2>6. {all[i].ledger : i \in DOMAIN all} = {old[i].ledger : i \in DOMAIN old} \cup {ln.ledger}
    <3> HIDE DEF ln
    <3>1. \A i \in DOMAIN all : \/ i \in DOMAIN old /\ all[i] = old[i]
                                \/ i = n + 1 /\ all[i] = ln
      BY <2>2, <2>3, <2>4, <2>5
    <3>2. \A i \in DOMAIN old : i \in DOMAIN all /\ all[i] = old[i]
      BY <2>2, <2>3, <2>4
    <3>3. n + 1 \in DOMAIN all /\ all[n + 1] = ln
      BY <2>2, <2>3, <2>4, <2>5
    <3> QED BY <3>1, <3>2, <3>3
  <2> QED BY <2>6 DEF all, one
<1> HIDE DEF old, ln
<1>11. /\ \A l : LedgerNet(Inserted(s)', l)
                   = LedgerNet(old, l) + (IF ln.ledger = l THEN ln.amount ELSE 0)
       /\ \A a : CashNet(Inserted(s)', a)
                   = CashNet(old, a) + (IF ln.side = "cash_book" /\ ln.account = a THEN ln.amount ELSE 0)
       /\ {Inserted(s)'[i].ledger : i \in DOMAIN Inserted(s)'}
            = {old[i].ledger : i \in DOMAIN old} \cup {ln.ledger}
  BY <1>6, <1>8, <1>9, <1>10
<1> QED BY <1>3, <1>4, <1>5, <1>6, <1>11 DEF old, ln

\* A cash-book line is written to the account it names.
LEMMA InsertCashLineMoney ==
  ASSUME MInv, NEW s \in Sessions, InsertCashLine(s)
  PROVE  MoneyDiscipline'
<1> DEFINE ln == job[s].lines[next[s]]
<1>1. /\ pc[s] = "work" /\ next[s] \in DOMAIN job[s].lines /\ ln.side = "cash_book"
      /\ cash' = [cash EXCEPT ![s][ln.account] = @ + ln.amount]
      /\ next' = [next EXCEPT ![s] = @ + 1]
      /\ UNCHANGED <<committed, pc, job, touched, run, net, ends>>
  BY DEF InsertCashLine
<1>2. /\ ln \in Line /\ next'[s] \in 1..(Len(job[s].lines) + 1)
      /\ \A l : LedgerNet(Inserted(s)', l)
                  = LedgerNet(Inserted(s), l) + (IF ln.ledger = l THEN ln.amount ELSE 0)
      /\ \A a : CashNet(Inserted(s)', a)
                  = CashNet(Inserted(s), a)
                    + (IF ln.side = "cash_book" /\ ln.account = a THEN ln.amount ELSE 0)
      /\ {Inserted(s)'[i].ledger : i \in DOMAIN Inserted(s)'}
           = {Inserted(s)[i].ledger : i \in DOMAIN Inserted(s)} \cup {ln.ledger}
      /\ Inserted(s) \in Seq(Line)
  BY <1>1, InsertedGrows
<1>3. ln.ledger = 0 /\ ln.account \in Accounts /\ ln.amount \in Int
  BY <1>1, <1>2 DEF Line
<1>4. /\ next \in [Sessions -> Nat] /\ cash \in [Sessions -> [Accounts -> Int]]
      /\ \A l : LedgerNet(Inserted(s), l) \in Int
  BY <1>2, NetsType DEF MInv, IInv, TypeOK
<1> HIDE DEF ln
<1>5. \A t \in Sessions \ {s} : cash'[t] = cash[t] /\ next'[t] = next[t]
  BY <1>1, <1>4
<1>6. \A a \in Accounts : cash'[s][a] = cash[s][a] + (IF ln.account = a THEN ln.amount ELSE 0)
  BY <1>1, <1>3, <1>4
<1>7. SessionSound(s)
  BY DEF MInv, MoneyDiscipline
<1>8. WritesAreItsLines(s)'
  <2>1. ASSUME NEW l \in Ledgers PROVE net'[s][l] = LedgerNet(Inserted(s)', l)
    <3>1. l # ln.ledger
      BY <1>3, LedgersAssumption
    <3>2. LedgerNet(Inserted(s)', l) = LedgerNet(Inserted(s), l) + 0
      BY <1>2, <3>1
    <3>3. LedgerNet(Inserted(s), l) \in Int
      BY <1>4
    <3>4. net[s][l] = LedgerNet(Inserted(s), l)
      BY <1>7 DEF SessionSound, WritesAreItsLines
    <3> QED BY <1>1, <3>2, <3>3, <3>4
  <2>2. \A a \in Accounts : cash'[s][a] = CashNet(Inserted(s)', a)
    BY <1>1, <1>2, <1>6, <1>7 DEF SessionSound, WritesAreItsLines
  <2>3. touched'[s] = {Inserted(s)'[i].ledger : i \in DOMAIN Inserted(s)'} \ {0}
    BY <1>1, <1>2, <1>3, <1>7 DEF SessionSound, WritesAreItsLines
  <2> QED BY <1>1, <1>2, <2>1, <2>2, <2>3 DEF WritesAreItsLines
<1>9. JobSound(job[s])' /\ ChecksStand(s)' /\ EndsAreItsOwn(s)' /\ CoverKept(s)'
  BY <1>1, <1>7 DEF SessionSound, JobSound, Mirrors, Sound, ChecksStand, EndsAreItsOwn, CoverKept,
    Kept, Left, Residual, committed
<1>10. SessionSound(s)'
  BY <1>8, <1>9 DEF SessionSound
<1> QED BY <1>1, <1>5, <1>10, OneSessionSteps DEF MInv

\* Less is set aside on a ledger the more of its earmarks a session ends.
LEMMA KeptShrinks ==
  ASSUME TypeOK, NEW l, NEW A \in SUBSET EarmarkIds, NEW B \in SUBSET A
  PROVE  /\ AmountOf(earmark, ActiveOn(earmark, l) \ A) <= AmountOf(earmark, ActiveOn(earmark, l) \ B)
         /\ AmountOf(earmark, ActiveOn(earmark, l) \ A) \in Nat
         /\ AmountOf(earmark, ActiveOn(earmark, l) \ B) \in Nat
         /\ AmountOf(earmark, ActiveOn(earmark, l) \ B) <= Marked(earmark, l)
         /\ Marked(earmark, l) \in Nat
<1> DEFINE on == ActiveOn(earmark, l)
<1>1. /\ on \in SUBSET EarmarkIds /\ on \ A \in SUBSET (on \ B) /\ on \ B \in SUBSET on
      /\ on \ A \in SUBSET EarmarkIds /\ on \ B \in SUBSET EarmarkIds
  BY DEF ActiveOn
<1>2. earmark \in [EarmarkIds -> EarmarkRow]
  BY DEF TypeOK
<1> HIDE DEF on
<1>3. /\ AmountOf(earmark, on \ A) <= AmountOf(earmark, on \ B)
      /\ AmountOf(earmark, on \ B) <= AmountOf(earmark, on)
      /\ AmountOf(earmark, on \ A) \in Nat /\ AmountOf(earmark, on \ B) \in Nat
      /\ AmountOf(earmark, on) \in Nat
  BY <1>1, <1>2, AmountOfType, AmountOfFewer
<1> QED BY <1>3 DEF on, Marked

\* A ledger line leaves what is still set aside on its ledger covered: the system has
\* released what would not be, staff are refused.
LEMMA InsertLedgerLineMoney ==
  ASSUME MInv, NEW s \in Sessions, InsertLedgerLine(s)
  PROVE  MoneyDiscipline'
<1> DEFINE ln == job[s].lines[next[s]]
           l == ln.ledger
           prior == IF l \in touched[s] THEN run[s][l] ELSE balance[l]
           bal == prior + ln.amount
           short == ln.amount < 0 /\ Marked(earmark, l) > 0 /\ Marked(earmark, l) > bal
           freed == IF short THEN AutoReleased(earmark, l, bal) ELSE {}
<1>1. /\ pc[s] = "work" /\ next[s] \in DOMAIN job[s].lines /\ ln.side = "matter_ledger"
      /\ bal >= 0 /\ (short => job[s].system)
      /\ run' = [run EXCEPT ![s][l] = bal]
      /\ net' = [net EXCEPT ![s][l] = @ + ln.amount]
      /\ touched' = [touched EXCEPT ![s] = @ \cup {l}]
      /\ ends' = [ends EXCEPT ![s] = @ \cup freed]
      /\ next' = [next EXCEPT ![s] = @ + 1]
      /\ UNCHANGED <<committed, pc, job, cash>>
  BY DEF InsertLedgerLine, NotBelowZero, MayRelease
<1>2. /\ ln \in Line /\ next'[s] \in 1..(Len(job[s].lines) + 1)
      /\ \A k : LedgerNet(Inserted(s)', k)
                  = LedgerNet(Inserted(s), k) + (IF ln.ledger = k THEN ln.amount ELSE 0)
      /\ \A a : CashNet(Inserted(s)', a)
                  = CashNet(Inserted(s), a)
                    + (IF ln.side = "cash_book" /\ ln.account = a THEN ln.amount ELSE 0)
      /\ {Inserted(s)'[i].ledger : i \in DOMAIN Inserted(s)'}
           = {Inserted(s)[i].ledger : i \in DOMAIN Inserted(s)} \cup {ln.ledger}
      /\ Inserted(s) \in Seq(Line)
  BY <1>1, InsertedGrows
<1>3. l \in Ledgers /\ l \in job[s].wanted /\ job[s].op = "post" /\ ln.amount \in Int /\ l # 0
  <2>1. l \in Ledgers /\ l \in job[s].wanted /\ job[s].op = "post" /\ ln.amount \in Int
    BY <1>1, NextLineType DEF MInv
  <2> QED BY <2>1, LedgersAssumption
<1>4. /\ next \in [Sessions -> Nat] /\ run \in [Sessions -> [Ledgers -> Int]]
      /\ net \in [Sessions -> [Ledgers -> Int]] /\ touched \in [Sessions -> SUBSET Ledgers]
      /\ ends \in [Sessions -> SUBSET EarmarkIds] /\ balance \in [Ledgers -> Int]
      /\ earmark \in [EarmarkIds -> EarmarkRow] /\ job[s].amount \in Nat /\ TypeOK
      /\ \A a : CashNet(Inserted(s), a) \in Int
  BY <1>2, NetsType DEF MInv, IInv, TypeOK, Job
<1>5. /\ freed \subseteq ActiveOn(earmark, l) /\ bal \in Nat /\ prior \in Int
      /\ freed \in SUBSET EarmarkIds
  <2>1. prior \in Int
    BY <1>3, <1>4
  <2>2. bal \in Nat
    <3> HIDE DEF prior, ln, l
    <3> QED BY <1>1, <1>3, <2>1
  <2> QED BY <2>1, <2>2 DEF AutoReleased, ActiveOn
<1>6. SessionSound(s)
  BY DEF MInv, MoneyDiscipline
<1>7. ~job[s].system => ends[s] = {} /\ freed = {}
  <2>1. ~job[s].system => freed = {}
    BY <1>1
  <2> QED BY <2>1, <1>1, <1>6 DEF SessionSound, EndsAreItsOwn
<1>8. job[s].system => job[s].earmark = 0
  BY <1>6 DEF SessionSound, JobSound
<1> HIDE DEF ln, l, prior, bal, short, freed
<1>9. \A t \in Sessions \ {s} :
        /\ next'[t] = next[t] /\ touched'[t] = touched[t] /\ run'[t] = run[t]
        /\ net'[t] = net[t] /\ ends'[t] = ends[t]
  BY <1>1, <1>4
<1>10. /\ touched'[s] = touched[s] \cup {l} /\ ends'[s] = ends[s] \cup freed
       /\ \A k \in Ledgers : /\ run'[s][k] = IF k = l THEN bal ELSE run[s][k]
                             /\ net'[s][k] = net[s][k] + (IF k = l THEN ln.amount ELSE 0)
  BY <1>1, <1>3, <1>4, <1>5
<1>11. WritesAreItsLines(s)'
  <2>1. \A k \in Ledgers : net'[s][k] = LedgerNet(Inserted(s)', k)
    BY <1>2, <1>6, <1>10 DEF SessionSound, WritesAreItsLines, l
  <2>2. ASSUME NEW a \in Accounts PROVE cash'[s][a] = CashNet(Inserted(s)', a)
    <3>1. CashNet(Inserted(s)', a) = CashNet(Inserted(s), a) + 0
      BY <1>1, <1>2
    <3>2. cash[s][a] = CashNet(Inserted(s), a) /\ CashNet(Inserted(s), a) \in Int
      BY <1>4, <1>6 DEF SessionSound, WritesAreItsLines
    <3> QED BY <1>1, <3>1, <3>2
  <2>3. touched'[s] = {Inserted(s)'[i].ledger : i \in DOMAIN Inserted(s)'} \ {0}
    BY <1>2, <1>3, <1>6, <1>10 DEF SessionSound, WritesAreItsLines, l
  <2> QED BY <1>1, <1>2, <2>1, <2>2, <2>3 DEF WritesAreItsLines
<1>12. EndsAreItsOwn(s)'
  <2>1. \A e \in freed : earmark[e].ledger = l
    BY <1>5 DEF ActiveOn
  <2> QED BY <1>1, <1>3, <1>6, <1>7, <1>10, <2>1 DEF SessionSound, EndsAreItsOwn, committed
<1>13. CoverKept(s)'
  <2> DEFINE keeps(k) == AmountOf(earmark, ActiveOn(earmark, k) \ (ends[s] \cup freed))
  <2>1. 0 \notin EarmarkIds
    BY EarmarksAssumption
  <2>2. job[s].earmark \notin ends[s] /\ job[s].earmark \notin ends'[s]
    BY <1>4, <1>5, <1>7, <1>8, <1>10, <2>1
  <2>3. \A k : /\ keeps(k) \in Nat /\ keeps(k) <= Kept(s, k) /\ Kept(s, k) \in Nat
               /\ Kept(s, k) <= Marked(earmark, k) /\ Marked(earmark, k) \in Nat
    <3>1. ends[s] \cup freed \in SUBSET EarmarkIds /\ ends[s] \in SUBSET (ends[s] \cup freed)
      BY <1>4, <1>5
    <3> QED BY <1>4, <3>1, KeptShrinks DEF Kept
  <2>4. ASSUME NEW k \in touched'[s] PROVE keeps(k) <= run'[s][k]
    <3>1. CASE k # l
      <4>1. k \in touched[s] /\ k \in Ledgers /\ run'[s][k] = run[s][k] /\ run[s][k] \in Int
        BY <1>4, <1>10, <2>4, <3>1
      <4>2. Kept(s, k) + 0 <= run[s][k]
        BY <1>6, <2>2, <4>1 DEF SessionSound, CoverKept, Left
      <4> HIDE DEF keeps
      <4> QED BY <2>3, <4>1, <4>2
    <3>2. CASE k = l /\ short
      <4>1. AmountOf(earmark, ActiveOn(earmark, l) \ freed) <= bal
        BY <1>4, <1>5, <3>2, AutoReleaseFits DEF freed
      <4>2. /\ keeps(l) <= AmountOf(earmark, ActiveOn(earmark, l) \ freed)
            /\ AmountOf(earmark, ActiveOn(earmark, l) \ freed) \in Nat
        <5>1. ends[s] \cup freed \in SUBSET EarmarkIds /\ freed \in SUBSET (ends[s] \cup freed)
          BY <1>4, <1>5
        <5> QED BY <1>4, <5>1, KeptShrinks
      <4>3. run'[s][l] = bal
        BY <1>3, <1>10
      <4> HIDE DEF keeps
      <4> QED BY <1>5, <2>3, <3>2, <4>1, <4>2, <4>3
    <3>3. CASE k = l /\ ~short
      <4>0. Kept(s, l) \in Nat /\ Kept(s, l) <= Marked(earmark, l) /\ Marked(earmark, l) \in Nat
        BY <2>3
      <4> HIDE DEF keeps
      <4>1. run'[s][l] = bal
        BY <1>3, <1>10
      <4>2. Kept(s, l) <= prior
        <5>1. CASE l \in touched[s]
          <6>1. Kept(s, l) + 0 <= run[s][l] /\ run[s][l] \in Int
            BY <1>3, <1>4, <1>6, <2>2, <5>1 DEF SessionSound, CoverKept, Left
          <6>2. prior = run[s][l]
            BY <5>1 DEF prior
          <6> QED BY <4>0, <6>1, <6>2
        <5>2. CASE l \notin touched[s]
          <6>1. Marked(earmark, l) <= balance[l] /\ balance[l] \in Int
            BY <1>3, <1>4 DEF MInv, MoneyDiscipline, EarmarksCovered
          <6>2. prior = balance[l]
            BY <5>2 DEF prior
          <6> QED BY <4>0, <6>1, <6>2
        <5> QED BY <5>1, <5>2
      <4>3. ~(ln.amount < 0) \/ ~(Marked(earmark, l) > 0) \/ ~(Marked(earmark, l) > bal)
        BY <3>3 DEF short
      <4>4. bal = prior + ln.amount
        BY DEF bal
      <4>5. Kept(s, l) <= bal
        BY <1>3, <1>5, <4>0, <4>2, <4>3, <4>4
      <4> QED BY <1>5, <2>3, <3>3, <4>1, <4>5
    <3> QED BY <3>1, <3>2, <3>3
  <2>5. /\ \A k : Kept(s, k)' = keeps(k) /\ Left(s, k)' = 0
        /\ \A k : keeps(k) \in Nat
    BY <1>1, <1>10, <2>2, <2>3 DEF Kept, Left, committed
  <2> HIDE DEF keeps
  <2> QED BY <2>4, <2>5 DEF CoverKept
<1>14. JobSound(job[s])' /\ ChecksStand(s)'
  BY <1>1, <1>6 DEF SessionSound, JobSound, Mirrors, Sound, ChecksStand, committed
<1>15. SessionSound(s)'
  BY <1>11, <1>12, <1>13, <1>14 DEF SessionSound
<1> QED BY <1>1, <1>9, <1>15, OneSessionSteps DEF MInv

\* The last statement of a posting: the earmark it pays from leaves what it had covered.
LEMMA SettlePostingMoney ==
  ASSUME MInv, NEW s \in Sessions, SettlePosting(s)
  PROVE  MoneyDiscipline'
<1> DEFINE e == job[s].earmark
           pays == e # 0 /\ earmark[e].state = "active"
<1>1. /\ pc[s] = "work" /\ job[s].op = "post" /\ next[s] = Len(job[s].lines) + 1
      /\ \A i \in DOMAIN job[s].postings :
           job[s].postings[i].reverses # 0 => Reversible(job[s].postings[i].reverses)
      /\ e # 0 => {earmark[e].ledger} = job[s].wanted
      /\ ends' = IF pays THEN [ends EXCEPT ![s] = {e}] ELSE ends
      /\ pc' = [pc EXCEPT ![s] = "ready"]
      /\ UNCHANGED <<committed, job, next, touched, run, net, cash>>
  BY DEF SettlePosting
<1>2. /\ pc \in [Sessions -> {"idle", "work", "ready"}] /\ ends \in [Sessions -> SUBSET EarmarkIds]
      /\ earmark \in [EarmarkIds -> EarmarkRow] /\ job[s].amount \in Nat /\ e \in EarmarkIds \cup {0}
      /\ touched[s] \subseteq Ledgers /\ run[s] \in [Ledgers -> Int] /\ TypeOK
  BY DEF MInv, IInv, TypeOK, Job
<1>3. SessionSound(s)
  BY DEF MInv, MoneyDiscipline
<1>4. pays => ~job[s].system /\ ends[s] = {}
  BY <1>1, <1>3 DEF SessionSound, JobSound, EndsAreItsOwn
<1>5. /\ pc'[s] = "ready" /\ ends'[s] = IF pays THEN {e} ELSE ends[s]
      /\ \A t \in Sessions \ {s} : pc'[t] = pc[t] /\ ends'[t] = ends[t]
  BY <1>1, <1>2
<1>6. JobSound(job[s])' /\ WritesAreItsLines(s)' /\ ChecksStand(s)'
  <2>1. JobSound(job[s])'
    BY <1>1, <1>3 DEF SessionSound, JobSound, Mirrors, Sound, committed
  <2>2. WritesAreItsLines(s)'
    BY <1>1, <1>3, <1>5 DEF SessionSound, WritesAreItsLines, Inserted
  <2>3. ChecksStand(s)'
    BY <1>1, <1>5 DEF ChecksStand, Reversible, Reversed, committed
  <2> QED BY <2>1, <2>2, <2>3
<1>7. EndsAreItsOwn(s)'
  BY <1>1, <1>3, <1>4, <1>5 DEF SessionSound, EndsAreItsOwn, committed
<1>8. CASE ~pays
  <2>1. CoverKept(s)'
    BY <1>1, <1>3, <1>5, <1>8 DEF SessionSound, CoverKept, Kept, Left, Residual, committed
  <2> QED BY <1>1, <1>5, <1>6, <1>7, <2>1, OneSessionSteps DEF MInv, SessionSound
<1>9. CASE pays
  <2>1. e \in EarmarkIds /\ ends'[s] = {e} /\ ends[s] = {}
    BY <1>2, <1>4, <1>5, <1>9
  <2>2. ASSUME NEW k \in touched[s] PROVE Kept(s, k)' + Left(s, k)' <= run'[s][k]
    <3>1. k \in job[s].wanted /\ k \in Ledgers
      BY <1>2, <2>2 DEF MInv, IInv, LockDiscipline, WritesUnderLock
    <3>2. earmark[e].ledger = k /\ e \in ActiveOn(earmark, k)
      BY <1>1, <1>9, <2>1, <3>1 DEF ActiveOn
    <3>3. Kept(s, k) + 0 <= run[s][k] /\ Kept(s, k) = AmountOf(earmark, ActiveOn(earmark, k))
      <4>1. ActiveOn(earmark, k) \ {} = ActiveOn(earmark, k)
        OBVIOUS
      <4> QED BY <1>3, <2>1, <2>2, <4>1 DEF SessionSound, CoverKept, Left, Kept
    <3>4. /\ AmountOf(earmark, ActiveOn(earmark, k))
              = earmark[e].amount + AmountOf(earmark, ActiveOn(earmark, k) \ {e})
          /\ AmountOf(earmark, ActiveOn(earmark, k) \ {e}) \in Nat
      <4>1. /\ ActiveOn(earmark, k) \in SUBSET EarmarkIds
            /\ ActiveOn(earmark, k) \ {e} \in SUBSET EarmarkIds
        BY DEF ActiveOn
      <4> QED BY <1>2, <3>2, <4>1, AmountOfOneApart, AmountOfType
    <3>5. Kept(s, k)' = AmountOf(earmark, ActiveOn(earmark, k) \ {e})
      BY <1>1, <2>1 DEF Kept, committed
    <3>6. Left(s, k)' = IF job[s].amount < earmark[e].amount THEN earmark[e].amount - job[s].amount ELSE 0
      BY <1>1, <2>1, <3>2 DEF Left, Residual, committed
    <3>7. earmark[e].amount \in Nat /\ run[s][k] \in Int /\ job[s].amount \in Nat /\ run'[s][k] = run[s][k]
      BY <1>1, <1>2, <2>1, <3>1 DEF EarmarkRow
    <3> HIDE DEF e
    <3> QED BY <3>3, <3>4, <3>5, <3>6, <3>7
  <2>3. CoverKept(s)'
    BY <1>1, <2>2 DEF CoverKept
  <2> QED BY <1>1, <1>5, <1>6, <1>7, <2>3, OneSessionSteps DEF MInv, SessionSound
<1> QED BY <1>8, <1>9

\* The checks of the operations that post nothing hold as they are made.
LEMMA CheckLedgerMoney ==
  ASSUME MInv, NEW s \in Sessions, CheckLedger(s)
  PROVE  MoneyDiscipline'
<1>1. /\ pc[s] = "work" /\ pc' = [pc EXCEPT ![s] = "ready"]
      /\ UNCHANGED <<committed, job, writes>>
      /\ \A l \in job[s].wanted :
           CASE job[s].op = "open"   -> status[l] = "none"
             [] job[s].op = "place"  -> Marked(earmark, l) + job[s].amount <= balance[l]
             [] job[s].op = "close"  -> status[l] = "open" /\ Empty(l)
             [] job[s].op = "reopen" -> status[l] = "closed"
             [] OTHER -> FALSE
  BY DEF CheckLedger
<1>2. /\ pc \in [Sessions -> {"idle", "work", "ready"}] /\ job[s].lines \in Seq(Line)
      /\ job[s].postings \in Seq(Posting)
  BY DEF MInv, IInv, TypeOK, Job
<1>3. SessionSound(s) /\ JobOK(job[s])
  BY DEF MInv, MoneyDiscipline, IInv, LockDiscipline
<1>4. pc'[s] = "ready" /\ \A t \in Sessions \ {s} : pc'[t] = pc[t]
  BY <1>1, <1>2
<1>5. job[s].op # "post"
  <2> SUFFICES ASSUME job[s].op = "post" PROVE FALSE
    OBVIOUS
  <2>1. PICK l : l \in LedgersOf(job[s].postings[1]) /\ 1 \in DOMAIN job[s].postings
    <3>1. Len(job[s].postings) \in {1, 2} /\ \A i \in DOMAIN job[s].postings : Sound(job[s].postings[i])
      BY <1>3 DEF SessionSound, JobSound
    <3>2. 1 \in DOMAIN job[s].postings
      BY <1>2, <3>1, LenProperties
    <3> QED BY <3>1, <3>2 DEF Sound
  <2>2. l \in job[s].wanted
    BY <1>3, <2>1 DEF SessionSound, JobSound
  <2> QED BY <1>1, <2>2
<1>6. job[s].op # "release"
  BY <1>1, <1>3 DEF SessionSound, EndsAreItsOwn
<1>7. WritesAreItsLines(s)'
  <2>1. Len(job[s].lines) = 0
    BY <1>3, <1>5 DEF JobOK
  <2>2. next[s] = 1
    BY <1>3, <2>1 DEF SessionSound, WritesAreItsLines
  <2> QED BY <1>1, <1>3, <1>4, <2>1, <2>2 DEF SessionSound, WritesAreItsLines, Inserted, writes
<1>8. ChecksStand(s)'
  <2>1. \A i \in DOMAIN job[s].postings : FALSE
    BY <1>3, <1>5 DEF SessionSound, JobSound
  <2> QED BY <1>1, <1>4, <2>1 DEF ChecksStand, committed
<1>9. JobSound(job[s])' /\ EndsAreItsOwn(s)' /\ CoverKept(s)'
  BY <1>1, <1>3, <1>4, <1>5, <1>6 DEF SessionSound, JobSound, Mirrors, Sound, EndsAreItsOwn, CoverKept,
    Kept, Left, Residual, committed, writes
<1> QED BY <1>1, <1>4, <1>7, <1>8, <1>9, OneSessionSteps DEF MInv, SessionSound, writes

\* A session at the end of its transaction is at rest, whatever the transaction did.
LEMMA EndIsAtRest ==
  ASSUME MInv, NEW s \in Sessions, EndTransaction(s)
  PROVE  /\ AtRest(s)'
         /\ \A t \in Sessions \ {s} :
              /\ pc'[t] = pc[t] /\ job'[t] = job[t] /\ next'[t] = next[t] /\ touched'[t] = touched[t]
              /\ run'[t] = run[t] /\ net'[t] = net[t] /\ cash'[t] = cash[t] /\ ends'[t] = ends[t]
BY DEF EndTransaction, AtRest, MInv, IInv, TypeOK

\* The same of the state after a step.
LEMMA AtRestThenIsSound == RestIsSound'
BY AtRestIsSound, PTL

\* A transaction that ends without a commit leaves the books as they were.
LEMMA AbortMoney ==
  ASSUME MInv, NEW s \in Sessions, Abort(s)
  PROVE  MoneyDiscipline'
<1>1. EndTransaction(s) /\ UNCHANGED committed
  BY DEF Abort
<1>2. AtRest(s)'
  BY <1>1, EndIsAtRest
<1>3. SessionSound(s)'
  BY <1>2, AtRestThenIsSound DEF RestIsSound
<1> QED BY <1>1, <1>2, <1>3, EndIsAtRest, OneSessionSteps DEF MInv

-----------------------------------------------------------------------------
(* The commit: what it leaves set aside. *)

\* What a residual or a whole release leaves, with what is kept, was set aside before.
LEMMA LeftFits ==
  ASSUME MInv, NEW s \in Sessions, NEW l \in Ledgers
  PROVE  /\ Kept(s, l) \in Nat /\ Left(s, l) \in Nat /\ Marked(earmark, l) \in Nat
         /\ Kept(s, l) + Left(s, l) <= Marked(earmark, l)
<1> DEFINE e == job[s].earmark
           on == ActiveOn(earmark, l)
<1>1. /\ earmark \in [EarmarkIds -> EarmarkRow] /\ job[s].amount \in Nat /\ TypeOK
      /\ ends[s] \in SUBSET EarmarkIds
  BY DEF MInv, IInv, TypeOK, Job
<1>2. Kept(s, l) \in Nat /\ Kept(s, l) <= Marked(earmark, l) /\ Marked(earmark, l) \in Nat
  BY <1>1, KeptShrinks DEF Kept
<1>3. CASE ~(e \in ends[s] /\ earmark[e].ledger = l)
  <2>1. Left(s, l) = 0
    BY <1>3 DEF Left
  <2> QED BY <1>2, <2>1
<1>4. CASE e \in ends[s] /\ earmark[e].ledger = l
  <2>1. e \in EarmarkIds /\ earmark[e].state = "active"
    BY <1>1, <1>4 DEF MInv, IInv, LockDiscipline, EndsUnderRowLock
  <2>2. e \in on /\ on \in SUBSET EarmarkIds
    BY <1>4, <2>1 DEF ActiveOn
  <2>3. Marked(earmark, l) = earmark[e].amount + AmountOf(earmark, on \ {e})
    <3> HIDE DEF on, e
    <3>1. AmountOf(earmark, on) = earmark[e].amount + AmountOf(earmark, on \ {e})
      BY <1>1, <2>2, AmountOfOneApart
    <3> QED BY <3>1 DEF Marked, on
  <2>4. Kept(s, l) <= AmountOf(earmark, on \ {e}) /\ AmountOf(earmark, on \ {e}) \in Nat
    <3>1. {e} \in SUBSET ends[s]
      BY <1>4
    <3> HIDE DEF e
    <3> QED BY <1>1, <3>1, KeptShrinks DEF Kept, on
  <2>5. Left(s, l) = IF job[s].amount < earmark[e].amount THEN earmark[e].amount - job[s].amount ELSE 0
    BY <1>4 DEF Left, Residual
  <2>6. earmark[e].amount \in Nat
    BY <1>1, <2>1 DEF EarmarkRow
  <2> HIDE DEF e, on
  <2> QED BY <1>1, <1>2, <2>3, <2>4, <2>5, <2>6
<1> QED BY <1>3, <1>4

\* What a transaction sets aside afresh on a ledger.
Fresh(s, l) == IF job[s].op = "place" THEN IF l \in job[s].wanted THEN job[s].amount ELSE 0
               ELSE Left(s, l)

\* What a placement adds to a ledger is what it had left to place.
LEMMA FreshIsLeft ==
  ASSUME MInv, NEW s \in Sessions, NEW l \in Ledgers
  PROVE  /\ Fresh(s, l) = IF FreshEarmark(s).amount # 0 /\ FreshEarmark(s).ledger = l
                           THEN FreshEarmark(s).amount ELSE 0
         /\ FreshEarmark(s).amount \in Nat
<1>1. /\ earmark \in [EarmarkIds -> EarmarkRow] /\ job[s].amount \in Nat
      /\ ends[s] \in SUBSET EarmarkIds /\ 0 \notin Ledgers /\ Amounts \subseteq Nat \ {0}
      /\ JobSound(job[s])
  BY LedgersAssumption, AmountsAssumption DEF MInv, IInv, TypeOK, Job, MoneyDiscipline, SessionSound
<1>2. CASE job[s].op = "place"
  <2>1. PICK k \in Ledgers : job[s].wanted = {k}
    BY <1>1, <1>2 DEF JobSound
  <2>2. FreshEarmark(s).ledger = k /\ FreshEarmark(s).amount = job[s].amount /\ job[s].amount # 0
    BY <1>1, <1>2, <2>1 DEF FreshEarmark, JobSound
  <2> QED BY <1>1, <1>2, <2>1, <2>2 DEF Fresh
<1>3. CASE job[s].op # "place"
  <2>1. /\ FreshEarmark(s).amount = Residual(s)
        /\ FreshEarmark(s).ledger = IF Residual(s) > 0 THEN earmark[job[s].earmark].ledger ELSE 0
    BY <1>3 DEF FreshEarmark
  <2>2. Residual(s) \in Nat
    <3>1. job[s].earmark \in ends[s] => earmark[job[s].earmark].amount \in Nat
      BY <1>1 DEF EarmarkRow
    <3> QED BY <1>1, <3>1 DEF Residual
  <2>3. Residual(s) # 0 => job[s].earmark \in ends[s]
    BY DEF Residual
  <2> QED BY <1>3, <2>1, <2>2, <2>3 DEF Fresh, Left
<1> QED BY <1>2, <1>3

\* The earmark rows after a commit, one by one.
LEMMA RowsAfterCommit ==
  ASSUME MInv, NEW s \in Sessions, Commit(s)
  PROVE  /\ \A e \in ends[s] : /\ earmark'[e].state # "active" /\ earmark[e].state = "active"
                               /\ earmark'[e].ledger = earmark[e].ledger
         /\ FreshEarmark(s).amount = 0 => \A e \in EarmarkIds \ ends[s] : earmark'[e] = earmark[e]
         /\ FreshEarmark(s).amount # 0 =>
              /\ lock[FreshEarmark(s).ledger] \in {Free, s}
              /\ \E f \in EarmarkIds \ ends[s] :
                   /\ earmark[f].state = "none"
                   /\ earmark'[f] = [state |-> "active", ledger |-> FreshEarmark(s).ledger,
                                     amount |-> FreshEarmark(s).amount]
                   /\ \A e \in EarmarkIds \ (ends[s] \cup {f}) : earmark'[e] = earmark[e]
<1>1. /\ earmark \in [EarmarkIds -> EarmarkRow] /\ ends[s] \in SUBSET EarmarkIds
      /\ CommitEarmarks(s)
  BY DEF MInv, IInv, TypeOK, Commit
<1>2. /\ \A e \in ends[s] : /\ Ended(s)[e].state # "active" /\ earmark[e].state = "active"
                             /\ Ended(s)[e].ledger = earmark[e].ledger
      /\ \A e \in EarmarkIds \ ends[s] : Ended(s)[e] = earmark[e]
      /\ DOMAIN Ended(s) = EarmarkIds
  <2>1. \A e \in ends[s] : earmark[e].state = "active" /\ e \in EarmarkIds
    BY <1>1 DEF MInv, IInv, LockDiscipline, EndsUnderRowLock
  <2>2. \A e \in EarmarkIds, st \in {"consumed", "released"} :
          /\ [earmark[e] EXCEPT !.state = st].state = st
          /\ [earmark[e] EXCEPT !.state = st].ledger = earmark[e].ledger
    BY <1>1 DEF EarmarkRow
  <2> QED BY <2>1, <2>2 DEF Ended
<1>3. CASE FreshEarmark(s).amount = 0
  BY <1>1, <1>2, <1>3 DEF CommitEarmarks
<1>4. CASE FreshEarmark(s).amount # 0
  <2> DEFINE row == [state |-> "active", ledger |-> FreshEarmark(s).ledger,
                     amount |-> FreshEarmark(s).amount]
  <2>1. PICK f \in NextIds(earmark) : earmark' = [Ended(s) EXCEPT ![f] = row]
    BY <1>1, <1>4 DEF CommitEarmarks, Placed
  <2>2. f \in EarmarkIds /\ earmark[f].state = "none" /\ f \notin ends[s]
    BY <1>2, <2>1 DEF NextIds, Unused
  <2>3. lock[FreshEarmark(s).ledger] \in {Free, s}
    BY <1>1, <1>4 DEF CommitEarmarks
  <2>4. earmark'[f] = row /\ \A e \in EarmarkIds \ {f} : earmark'[e] = Ended(s)[e]
    <3> HIDE DEF row
    <3> QED BY <1>2, <2>1, <2>2
  <2> QED BY <1>1, <1>2, <1>4, <2>2, <2>3, <2>4
<1> QED BY <1>3, <1>4

\* What is set aside on a ledger after a commit: what the transaction kept and what it
\* sets aside afresh.
LEMMA MarkedAfterCommit ==
  ASSUME MInv, NEW s \in Sessions, Commit(s), NEW l \in Ledgers
  PROVE  Marked(earmark', l) = Kept(s, l) + Fresh(s, l)
<1> DEFINE on == ActiveOn(earmark, l)
           later == ActiveOn(earmark', l)
           kept == on \ ends[s]
           fresh == FreshEarmark(s)
<1>1. /\ earmark \in [EarmarkIds -> EarmarkRow] /\ earmark' \in [EarmarkIds -> EarmarkRow]
      /\ ends[s] \in SUBSET EarmarkIds /\ kept \in SUBSET EarmarkIds
  BY CommitEarmarksFacts DEF MInv, IInv, TypeOK, Commit, ActiveOn
<1>2. Kept(s, l) \in Nat
  BY LeftFits
<1>3. CASE fresh.amount = 0
  <2>1. \A e \in EarmarkIds : e \in later <=> e \in kept
    BY <1>3, RowsAfterCommit DEF ActiveOn
  <2>2. later = kept
    BY <1>1, <2>1 DEF ActiveOn
  <2>3. \A e \in kept : earmark'[e] = earmark[e]
    BY <1>1, <1>3, RowsAfterCommit
  <2>4. AmountOf(earmark', kept) = AmountOf(earmark, kept)
    <3> HIDE DEF kept
    <3> QED BY <1>1, <2>3, AmountOfSame
  <2>5. Fresh(s, l) = 0
    BY <1>3, FreshIsLeft
  <2> QED BY <1>2, <2>2, <2>4, <2>5 DEF Marked, Kept
<1>4. CASE fresh.amount # 0
  <2>1. PICK f \in EarmarkIds \ ends[s] :
          /\ earmark[f].state = "none"
          /\ earmark'[f] = [state |-> "active", ledger |-> fresh.ledger, amount |-> fresh.amount]
          /\ \A e \in EarmarkIds \ (ends[s] \cup {f}) : earmark'[e] = earmark[e]
    BY <1>4, RowsAfterCommit
  <2>2. \A e \in ends[s] : earmark'[e].state # "active"
    BY RowsAfterCommit
  <2>3. f \notin kept /\ \A e \in kept : earmark'[e] = earmark[e]
    BY <1>1, <2>1 DEF ActiveOn
  <2>4. AmountOf(earmark', kept) = AmountOf(earmark, kept)
    <3> HIDE DEF kept
    <3> QED BY <1>1, <2>3, AmountOfSame
  <2>5. CASE fresh.ledger = l
    <3>1. \A e \in EarmarkIds : e \in later <=> e \in kept \/ e = f
      BY <2>1, <2>2, <2>5 DEF ActiveOn
    <3>2. later \in SUBSET EarmarkIds /\ f \in later /\ later \ {f} = kept
      BY <1>1, <2>1, <2>3, <3>1 DEF ActiveOn
    <3>3. AmountOf(earmark', later) = earmark'[f].amount + AmountOf(earmark', later \ {f})
      <4> HIDE DEF later
      <4> QED BY <1>1, <3>2, AmountOfOneApart
    <3>4. earmark'[f].amount = fresh.amount /\ Fresh(s, l) = fresh.amount /\ fresh.amount \in Nat
      BY <1>4, <2>1, <2>5, FreshIsLeft
    <3> DEFINE m == AmountOf(earmark', later)
    <3>5. m = fresh.amount + Kept(s, l)
      BY <2>4, <3>2, <3>3, <3>4 DEF Kept
    <3> HIDE DEF m, fresh
    <3>6. m = Kept(s, l) + Fresh(s, l)
      BY <1>2, <3>4, <3>5
    <3> QED BY <3>6 DEF m, Marked
  <2>6. CASE fresh.ledger # l
    <3>1. \A e \in EarmarkIds : e \in later <=> e \in kept
      BY <2>1, <2>2, <2>6 DEF ActiveOn
    <3>2. later = kept
      BY <1>1, <3>1 DEF ActiveOn
    <3>3. Fresh(s, l) = 0
      BY <2>6, FreshIsLeft
    <3> QED BY <1>2, <2>4, <3>2, <3>3 DEF Marked, Kept
  <2> QED BY <2>5, <2>6
<1> QED BY <1>3, <1>4

\* Who is ready to post holds its ledgers, and what it is about to post is sound.
LEMMA ReadyToPost ==
  ASSUME MInv, NEW t \in Sessions, pc[t] = "ready", NEW i \in DOMAIN job[t].postings
  PROVE  /\ job[t].op = "post" /\ job[t].postings[i] \in Posting
         /\ Sound(job[t].postings[i]) /\ Mirrors(job[t].postings[i])
         /\ \A l \in LedgersOf(job[t].postings[i]) : l \in job[t].wanted /\ lock[l] = t
         /\ job[t].postings[i].reverses # 0 => Reversible(job[t].postings[i].reverses)
         /\ i \in {1, 2} /\ (i = 2 => job[t].postings[i].reverses = 0)
<1>1. SessionSound(t) /\ job[t].postings \in Seq(Posting)
  BY DEF MInv, MoneyDiscipline, IInv, TypeOK, Job
<1>2. job[t].op = "post"
  BY <1>1 DEF SessionSound, JobSound
<1>3. /\ job[t].wanted = UNION {LedgersOf(job[t].postings[k]) : k \in DOMAIN job[t].postings}
      /\ Sound(job[t].postings[i]) /\ Mirrors(job[t].postings[i])
      /\ Len(job[t].postings) \in {1, 2}
      /\ Len(job[t].postings) = 2 => job[t].postings[2].reverses = 0
  BY <1>1, <1>2 DEF SessionSound, JobSound
<1>4. i \in {1, 2} /\ (i = 2 => Len(job[t].postings) = 2) /\ job[t].postings[i] \in Posting
  BY <1>1, <1>3, ElementOfSeq, LenProperties
<1>5. \A l \in job[t].wanted : lock[l] = t
  BY <1>2 DEF MInv, IInv, LockDiscipline, ReadyStillHolds, Holds
<1>6. job[t].postings[i].reverses # 0 => Reversible(job[t].postings[i].reverses)
  BY <1>1 DEF SessionSound, ChecksStand
<1> QED BY <1>2, <1>3, <1>4, <1>5, <1>6

\* The transaction log after a commit.
LEMMA PostedAfterCommit ==
  ASSUME MInv, NEW s \in Sessions, Commit(s)
  PROVE  /\ Len(posted) \in Nat /\ DOMAIN posted = 1..Len(posted)
         /\ \A n \in DOMAIN posted : n \in DOMAIN posted' /\ posted'[n] = posted[n]
         /\ \A n \in DOMAIN posted' \ DOMAIN posted :
              /\ n - Len(posted) \in DOMAIN job[s].postings
              /\ posted'[n] = job[s].postings[n - Len(posted)]
              /\ n \in Nat /\ n > Len(posted)
<1> DEFINE ps == job[s].postings
           N == Len(posted)
           K == Len(ps)
<1>1. /\ posted \in Seq(Posting) /\ ps \in Seq(Posting) /\ posted' = posted \o ps
  BY DEF MInv, IInv, TypeOK, Job, Commit
<1>2. /\ N \in Nat /\ K \in Nat /\ DOMAIN posted = 1..N /\ DOMAIN ps = 1..K
      /\ posted' \in Seq(Posting) /\ Len(posted') = N + K
      /\ \A i \in 1..(N + K) : posted'[i] = IF i <= N THEN posted[i] ELSE ps[i - N]
  BY <1>1, LenProperties, ConcatProperties
<1>3. DOMAIN posted' = 1..(N + K)
  BY <1>2, LenProperties
<1> HIDE DEF N, K, ps
<1>4. /\ \A n \in 1..N : n \in 1..(N + K) /\ n <= N
      /\ \A n \in 1..(N + K) : n \notin 1..N => n - N \in 1..K /\ ~(n <= N) /\ n > N /\ n \in Nat
  BY <1>2
<1>5. \A n \in DOMAIN posted : n \in DOMAIN posted' /\ posted'[n] = posted[n]
  BY <1>2, <1>3, <1>4
<1>6. \A n \in DOMAIN posted' \ DOMAIN posted :
        n - N \in DOMAIN ps /\ posted'[n] = ps[n - N] /\ n \in Nat /\ n > N
  BY <1>2, <1>3, <1>4
<1> QED BY <1>2, <1>5, <1>6 DEF N, ps

\* A commit leaves what others hold locked as they saw it.
LEMMA HeldByOthers ==
  ASSUME MInv, NEW s \in Sessions, Commit(s), NEW t \in Sessions, t # s,
         NEW l \in Ledgers, lock[l] = t, NEW X \in SUBSET EarmarkIds
  PROVE  /\ AmountOf(earmark', ActiveOn(earmark', l) \ X) <= AmountOf(earmark, ActiveOn(earmark, l) \ X)
         /\ AmountOf(earmark', ActiveOn(earmark', l) \ X) \in Nat
         /\ AmountOf(earmark, ActiveOn(earmark, l) \ X) \in Nat
<1> DEFINE A == ActiveOn(earmark', l) \ X
           B == ActiveOn(earmark, l) \ X
<1>1. earmark \in [EarmarkIds -> EarmarkRow]
  BY DEF MInv, IInv, TypeOK
<1>2. ASSUME NEW e \in A PROVE e \in B /\ earmark'[e] = earmark[e]
  <2>1. e \in EarmarkIds /\ e \notin X /\ earmark'[e].state = "active" /\ earmark'[e].ledger = l
    BY DEF ActiveOn
  <2>2. earmark'[e] = earmark[e]
    <3>1. e \notin ends[s]
      BY <2>1, RowsAfterCommit
    <3>2. CASE FreshEarmark(s).amount = 0
      BY <2>1, <3>1, <3>2, RowsAfterCommit
    <3>3. CASE FreshEarmark(s).amount # 0
      <4>1. /\ lock[FreshEarmark(s).ledger] \in {Free, s}
            /\ \E f \in EarmarkIds \ ends[s] :
                 /\ earmark'[f] = [state |-> "active", ledger |-> FreshEarmark(s).ledger,
                                   amount |-> FreshEarmark(s).amount]
                 /\ \A d \in EarmarkIds \ (ends[s] \cup {f}) : earmark'[d] = earmark[d]
        BY <3>3, RowsAfterCommit
      <4>2. FreshEarmark(s).ledger # l
        BY <4>1, FreeAssumption
      <4> QED BY <2>1, <3>1, <4>1, <4>2
    <3> QED BY <3>2, <3>3
  <2> QED BY <2>1, <2>2 DEF ActiveOn
<1>3. A \in SUBSET B /\ B \in SUBSET EarmarkIds /\ A \in SUBSET EarmarkIds
  BY <1>2 DEF ActiveOn
<1> HIDE DEF A, B
<1>4. AmountOf(earmark', A) = AmountOf(earmark, A)
  BY <1>2, <1>3, AmountOfSame
<1>5. AmountOf(earmark, A) <= AmountOf(earmark, B) /\ AmountOf(earmark, A) \in Nat
      /\ AmountOf(earmark, B) \in Nat
  BY <1>1, <1>3, AmountOfFewer, AmountOfType
<1> QED BY <1>4, <1>5 DEF A, B

\* Two sessions ready to reverse the same transaction would hold the same ledger.
LEMMA OneReversalReady ==
  ASSUME MInv, NEW s \in Sessions, NEW t \in Sessions, t # s, pc[s] = "ready", pc[t] = "ready",
         NEW i \in DOMAIN job[s].postings, NEW k \in DOMAIN job[t].postings,
         job[s].postings[i].reverses # 0
  PROVE  job[s].postings[i].reverses # job[t].postings[k].reverses
<1> SUFFICES ASSUME job[s].postings[i].reverses = job[t].postings[k].reverses PROVE FALSE
  OBVIOUS
<1> DEFINE n == job[s].postings[i].reverses
<1>1. /\ job[s].postings[i] = MirrorPosting(posted[n], n) /\ job[t].postings[k] = MirrorPosting(posted[n], n)
  BY ReadyToPost DEF Mirrors
<1>2. PICK l : l \in LedgersOf(job[s].postings[i])
  BY ReadyToPost DEF Sound
<1>3. lock[l] = s
  BY <1>2, ReadyToPost
<1>4. LedgersOf(job[s].postings[i]) = LedgersOf(MirrorPosting(posted[n], n))
  BY <1>1
<1>5. LedgersOf(job[t].postings[k]) = LedgersOf(MirrorPosting(posted[n], n))
  BY <1>1
<1>6. lock[l] = t
  <2>1. l \in LedgersOf(job[t].postings[k])
    BY <1>2, <1>4, <1>5
  <2> QED BY <2>1, ReadyToPost
<1> QED BY <1>3, <1>6

\* What other sessions have established stands through a commit.
LEMMA OthersAtCommit ==
  ASSUME MInv, NEW s \in Sessions, Commit(s), NEW t \in Sessions, t # s
  PROVE  SessionSound(t)'
<1>1. /\ pc'[t] = pc[t] /\ job'[t] = job[t] /\ next'[t] = next[t] /\ touched'[t] = touched[t]
      /\ run'[t] = run[t] /\ net'[t] = net[t] /\ cash'[t] = cash[t] /\ ends'[t] = ends[t]
  BY EndIsAtRest DEF Commit
<1>2. SessionSound(t) /\ pc[s] = "ready" /\ IInv
  BY DEF MInv, MoneyDiscipline, Commit
<1>3. /\ ends[t] \in SUBSET EarmarkIds /\ job[t].wanted \subseteq Ledgers /\ touched[t] \subseteq Ledgers
      /\ balance \in [Ledgers -> Int] /\ run[t] \in [Ledgers -> Int] /\ job[t].amount \in Nat
  BY DEF MInv, IInv, TypeOK, Job
<1>4. \A l \in Ledgers : lock[l] = t => status'[l] = status[l] /\ balance'[l] = balance[l]
  BY <1>2, CommitLedgerFacts
<1>5. \A e \in ends[t] : earmark'[e] = earmark[e]
  <2>1. \A e \in ends[t] : earmark[e].state = "active" /\ e \notin ends[s] /\ e \in EarmarkIds
    BY <1>3 DEF MInv, IInv, LockDiscipline, EndsUnderRowLock
  <2> QED BY <1>2, <2>1, CommitEarmarksFacts DEF Commit
<1>6. JobSound(job[t])'
  <2>1. \A p : Mirrors(p) => Mirrors(p)'
    BY PostedAfterCommit DEF Mirrors
  <2> QED BY <1>1, <1>2, <2>1 DEF SessionSound, JobSound, Sound
<1>7. WritesAreItsLines(t)'
  BY <1>1, <1>2 DEF SessionSound, WritesAreItsLines, Inserted
<1>8. ChecksStand(t)'
  <2> SUFFICES ASSUME pc[t] = "ready"
               PROVE  /\ job[t].op = "open" => \A l \in job[t].wanted : status'[l] = "none"
                      /\ job[t].op = "close" => \A l \in job[t].wanted : status'[l] = "open"
                      /\ job[t].op = "reopen" => \A l \in job[t].wanted : status'[l] = "closed"
                      /\ job[t].op = "place" => \A l \in job[t].wanted :
                           Marked(earmark', l) + job[t].amount <= balance'[l]
                      /\ \A i \in DOMAIN job[t].postings :
                           job[t].postings[i].reverses # 0 => Reversible(job[t].postings[i].reverses)'
    BY <1>1 DEF ChecksStand, Reversible, Reversed
  <2>1. job[t].op # "release" => \A l \in job[t].wanted : l \in Ledgers /\ lock[l] = t
    BY <1>3 DEF MInv, IInv, LockDiscipline, ReadyStillHolds, Holds
  <2>2. /\ job[t].op = "open" => \A l \in job[t].wanted : status'[l] = "none"
        /\ job[t].op = "close" => \A l \in job[t].wanted : status'[l] = "open"
        /\ job[t].op = "reopen" => \A l \in job[t].wanted : status'[l] = "closed"
    BY <1>2, <1>4, <2>1 DEF SessionSound, ChecksStand
  <2>3. ASSUME job[t].op = "place", NEW l \in job[t].wanted
        PROVE  Marked(earmark', l) + job[t].amount <= balance'[l]
    <3>1. Marked(earmark, l) + job[t].amount <= balance[l] /\ balance'[l] = balance[l] /\ balance[l] \in Int
      BY <1>2, <1>3, <1>4, <2>1, <2>3 DEF SessionSound, ChecksStand
    <3>2. Marked(earmark', l) <= Marked(earmark, l) /\ Marked(earmark, l) \in Nat /\ Marked(earmark', l) \in Nat
      <4>1. /\ {} \in SUBSET EarmarkIds /\ ActiveOn(earmark, l) \ {} = ActiveOn(earmark, l)
            /\ ActiveOn(earmark', l) \ {} = ActiveOn(earmark', l)
        OBVIOUS
      <4>2. l \in Ledgers /\ lock[l] = t
        BY <2>1, <2>3
      <4> QED BY <4>1, <4>2, HeldByOthers DEF Marked
    <3> QED BY <1>3, <3>1, <3>2
  <2>4. ASSUME NEW i \in DOMAIN job[t].postings, job[t].postings[i].reverses # 0,
               Reversed(job[t].postings[i].reverses)'
        PROVE  FALSE
    <3>1. PICK m \in DOMAIN posted' : posted'[m].reverses = job[t].postings[i].reverses
      BY <1>1, <2>4 DEF Reversed
    <3>2. CASE m \in DOMAIN posted
      BY <2>4, <3>1, <3>2, PostedAfterCommit, ReadyToPost DEF Reversible, Reversed
    <3>3. CASE m \notin DOMAIN posted
      <4>1. /\ m - Len(posted) \in DOMAIN job[s].postings
            /\ posted'[m] = job[s].postings[m - Len(posted)]
        BY <3>1, <3>3, PostedAfterCommit
      <4> QED BY <1>2, <2>4, <3>1, <4>1, OneReversalReady
    <3> QED BY <3>2, <3>3
  <2> QED BY <2>2, <2>3, <2>4 DEF Reversible
<1>9. EndsAreItsOwn(t)'
  BY <1>1, <1>2, <1>5 DEF SessionSound, EndsAreItsOwn
<1>10. CoverKept(t)'
  <2> SUFFICES ASSUME NEW l \in touched[t] PROVE Kept(t, l)' + Left(t, l)' <= run[t][l]
    BY <1>1 DEF CoverKept
  <2>1. l \in Ledgers /\ lock[l] = t
    BY <1>3 DEF MInv, IInv, LockDiscipline, WritesUnderLock
  <2>2. Kept(t, l)' <= Kept(t, l) /\ Kept(t, l)' \in Nat /\ Kept(t, l) \in Nat
    BY <1>1, <1>3, <2>1, HeldByOthers DEF Kept
  <2>3. Left(t, l)' = Left(t, l) /\ Left(t, l) \in Nat
    BY <1>1, <1>5, <2>1, LeftFits DEF Left, Residual
  <2>4. Kept(t, l) + Left(t, l) <= run[t][l] /\ run[t][l] \in Int
    BY <1>2, <1>3, <2>1 DEF SessionSound, CoverKept
  <2> QED BY <2>2, <2>3, <2>4
<1> QED BY <1>6, <1>7, <1>8, <1>9, <1>10 DEF SessionSound

\* A commit changes a ledger's balance by what its lines add to it.
LEMMA BalanceAfterCommit ==
  ASSUME MInv, NEW s \in Sessions, Commit(s)
  PROVE  /\ job[s].lines = LinesOf(job[s].postings) /\ Inserted(s) = job[s].lines
         /\ job[s].lines \in Seq(Line) /\ Even(job[s].lines)
         /\ balance \in [Ledgers -> Int] /\ balance' \in [Ledgers -> Int]
         /\ \A l \in Ledgers : balance'[l] = balance[l] + LedgerNet(job[s].lines, l)
         /\ \A a \in Accounts : book'[a] = book[a] + CashNet(job[s].lines, a)
<1>1. /\ SessionSound(s) /\ JobOK(job[s]) /\ pc[s] = "ready"
      /\ job[s].lines \in Seq(Line) /\ job[s].postings \in Seq(Posting)
      /\ balance \in [Ledgers -> Int] /\ book \in [Accounts -> Int]
      /\ run[s] \in [Ledgers -> Int] /\ net[s] \in [Ledgers -> Int]
  BY DEF MInv, MoneyDiscipline, IInv, TypeOK, LockDiscipline, Job, Commit
<1>2. job[s].lines = LinesOf(job[s].postings) /\ Len(job[s].postings) \in {0, 1, 2}
  <2>1. CASE job[s].op = "post"
    BY <1>1, <2>1 DEF SessionSound, JobSound
  <2>2. CASE job[s].op # "post"
    <3>1. job[s].lines = << >> /\ job[s].postings = << >>
      BY <1>1, <2>2 DEF JobOK, SessionSound, JobSound
    <3>2. LinesOf(<< >>) = << >> /\ Len(<< >>) = 0
      BY DEF LinesOf
    <3> QED BY <3>1, <3>2
  <2> QED BY <2>1, <2>2
<1>3. Inserted(s) = job[s].lines
  <2>1. next[s] = Len(job[s].lines) + 1 /\ Len(job[s].lines) \in Nat
    BY <1>1, LenProperties DEF SessionSound, WritesAreItsLines
  <2>2. next[s] - 1 = Len(job[s].lines)
    BY <2>1
  <2> QED BY <1>1, <2>2, SubSeqFull DEF Inserted
<1>4. Even(job[s].lines)
  <2>1. \A i \in DOMAIN job[s].postings : Sound(job[s].postings[i])
    BY <1>1, ReadyToPost
  <2> QED BY <1>1, <1>2, <2>1, LinesAreEven
<1>5. /\ balance' = [l \in Ledgers |-> IF l \in touched[s] THEN run[s][l] ELSE balance[l]]
      /\ book' = [a \in Accounts |-> book[a] + cash[s][a]]
  BY DEF Commit
<1>6. \A l \in Ledgers : net[s][l] = LedgerNet(job[s].lines, l)
  BY <1>1, <1>3 DEF SessionSound, WritesAreItsLines
<1>7. \A l \in Ledgers : balance'[l] = balance[l] + net[s][l]
  <2>1. \A l \in Ledgers : IF l \in touched[s] THEN run[s][l] = balance[l] + net[s][l] ELSE net[s][l] = 0
    BY DEF MInv, IInv, LockDiscipline, WritesUnderLock
  <2> QED BY <1>1, <1>5, <2>1
<1>8. \A a \in Accounts : book'[a] = book[a] + CashNet(job[s].lines, a)
  BY <1>1, <1>3, <1>5 DEF SessionSound, WritesAreItsLines
<1>9. balance' \in [Ledgers -> Int]
  BY <1>1, <1>5
<1> QED BY <1>1, <1>2, <1>3, <1>4, <1>6, <1>7, <1>8, <1>9

\* The cash book of an account and its ledgers move together.
LEMMA BookAfterCommit ==
  ASSUME MInv, NEW s \in Sessions, Commit(s)
  PROVE  BookAgreesWithLedgers'
<1> SUFFICES ASSUME NEW a \in Accounts
             PROVE  book'[a] = SumFunctionOnSet(balance', LedgersIn(a))
  BY DEF BookAgreesWithLedgers
<1> DEFINE L == LedgersIn(a)
           f == [l \in Ledgers |-> LedgerNet(job[s].lines, l)]
<1>1. IsFiniteSet(L) /\ L \subseteq Ledgers
  BY LedgersInFinite
<1>2. \A l \in L : balance[l] \in Int /\ f[l] \in Int /\ balance'[l] = balance[l] + f[l]
  BY <1>1, BalanceAfterCommit, NetsType
<1>3. SumFunctionOnSet(balance', L) = SumFunctionOnSet(balance, L) + SumFunctionOnSet(f, L)
  <2> HIDE DEF L, f
  <2> QED BY <1>1, <1>2, SumAdds
<1>4. CashNet(job[s].lines, a) = SumFunctionOnSet(f, L)
  BY BalanceAfterCommit DEF Even, LedgersNet
<1>5. book[a] = SumFunctionOnSet(balance, L)
  BY DEF MInv, MoneyDiscipline, BookAgreesWithLedgers
<1>6. book'[a] = book[a] + CashNet(job[s].lines, a)
  BY BalanceAfterCommit
<1> HIDE DEF f, L
<1> QED BY <1>3, <1>4, <1>5, <1>6 DEF L

\* What is set aside stays covered: a posting left it so, a placement was checked, the
\* others set aside no more than they ended.
LEMMA CoveredAfterCommit ==
  ASSUME MInv, NEW s \in Sessions, Commit(s), NEW l \in Ledgers
  PROVE  /\ Marked(earmark', l) <= balance'[l]
         /\ job[s].op # "place" => Marked(earmark', l) <= Marked(earmark, l)
         /\ Marked(earmark', l) \in Nat /\ Marked(earmark, l) \in Nat
<1>1. /\ SessionSound(s) /\ pc[s] = "ready" /\ Marked(earmark, l) <= balance[l]
      /\ balance[l] \in Int /\ run[s][l] \in Int /\ job[s].amount \in Nat
      /\ ends[s] \in SUBSET EarmarkIds
  BY DEF MInv, MoneyDiscipline, EarmarksCovered, IInv, TypeOK, Job, Commit
<1>2. /\ Kept(s, l) \in Nat /\ Left(s, l) \in Nat /\ Marked(earmark, l) \in Nat
      /\ Kept(s, l) + Left(s, l) <= Marked(earmark, l)
  BY LeftFits
<1>3. Marked(earmark', l) = Kept(s, l) + Fresh(s, l)
  BY MarkedAfterCommit
<1>4. balance'[l] = IF l \in touched[s] THEN run[s][l] ELSE balance[l]
  BY DEF Commit
<1>5. CASE job[s].op # "place"
  <2>1. Fresh(s, l) = Left(s, l)
    BY <1>5 DEF Fresh
  <2>2. l \in touched[s] => Kept(s, l) + Left(s, l) <= run[s][l]
    BY <1>1 DEF SessionSound, CoverKept
  <2> QED BY <1>1, <1>2, <1>3, <1>4, <1>5, <2>1, <2>2
<1>6. CASE job[s].op = "place"
  <2>1. l \notin touched[s]
    BY <1>6 DEF MInv, IInv, LockDiscipline, WritesUnderLock
  <2>2. Fresh(s, l) = IF l \in job[s].wanted THEN job[s].amount ELSE 0
    BY <1>6 DEF Fresh
  <2>3. l \in job[s].wanted => Marked(earmark, l) + job[s].amount <= balance[l]
    BY <1>1, <1>6 DEF SessionSound, ChecksStand
  <2> QED BY <1>1, <1>2, <1>3, <1>4, <1>6, <2>1, <2>2, <2>3
<1> QED BY <1>5, <1>6

\* Reversals stay exact and single.
LEMMA ReversalsAfterCommit ==
  ASSUME MInv, NEW s \in Sessions, Commit(s)
  PROVE  ReversalsExactAndOnce' /\ \A n \in DOMAIN posted' : Sound(posted'[n])
<1> DEFINE N == Len(posted)
           ps == job[s].postings
<1>1. /\ N \in Nat /\ DOMAIN posted = 1..N
      /\ \A n \in DOMAIN posted : n \in DOMAIN posted' /\ posted'[n] = posted[n]
      /\ \A n \in DOMAIN posted' \ DOMAIN posted :
           n - N \in DOMAIN ps /\ posted'[n] = ps[n - N] /\ n \in Nat /\ n > N
  BY PostedAfterCommit
<1>2. pc[s] = "ready"
  BY DEF Commit
<1>3. \A i \in DOMAIN ps :
        /\ Sound(ps[i]) /\ Mirrors(ps[i]) /\ i \in {1, 2} /\ (i = 2 => ps[i].reverses = 0)
        /\ ps[i].reverses # 0 => Reversible(ps[i].reverses)
  BY <1>2, ReadyToPost
<1>4. ReversalsExactAndOnce /\ \A n \in DOMAIN posted : Sound(posted[n])
  BY DEF MInv, MoneyDiscipline
<1> HIDE DEF N, ps
<1>5. \A n \in DOMAIN posted' : Sound(posted'[n])
  BY <1>1, <1>3, <1>4
<1>6. ASSUME NEW n \in DOMAIN posted', posted'[n].reverses # 0, NEW m, m = posted'[n].reverses
      PROVE  /\ m < n /\ posted'[m].kind # "reversal"
             /\ posted'[n] = MirrorPosting(posted'[m], m)
             /\ \A k \in DOMAIN posted' \ {n} : posted'[k].reverses # m
  <2>1. CASE n \in DOMAIN posted
    <3>1. /\ m < n /\ posted[m].kind # "reversal" /\ posted[n] = MirrorPosting(posted[m], m)
          /\ \A k \in DOMAIN posted \ {n} : posted[k].reverses # m
      BY <1>1, <1>4, <1>6, <2>1 DEF ReversalsExactAndOnce
    <3>2. m \in DOMAIN posted
      <4>1. posted[n] \in Posting /\ n \in 1..N
        BY <1>1, <2>1, ElementOfSeq, LenProperties DEF MInv, IInv, TypeOK
      <4>2. m \in Nat /\ m # 0
        BY <1>1, <1>6, <2>1, <4>1 DEF Posting
      <4> QED BY <1>1, <3>1, <4>1, <4>2
    <3>3. ASSUME NEW k \in DOMAIN posted' \ DOMAIN posted PROVE posted'[k].reverses # m
      <4>1. k - N \in DOMAIN ps /\ posted'[k] = ps[k - N]
        BY <1>1
      <4>2. Reversed(m)
        BY <1>1, <1>6, <2>1 DEF Reversed
      <4> QED BY <1>3, <1>6, <4>1, <4>2 DEF Reversible
    <3> QED BY <1>1, <2>1, <3>1, <3>2, <3>3
  <2>2. CASE n \notin DOMAIN posted
    <3>1. n - N \in DOMAIN ps /\ posted'[n] = ps[n - N] /\ n \in Nat /\ n > N
      BY <1>1, <2>2
    <3>2. /\ m \in DOMAIN posted /\ posted[m].kind # "reversal"
          /\ ps[n - N] = MirrorPosting(posted[m], m) /\ ~Reversed(m) /\ n - N = 1
      BY <1>3, <1>6, <3>1 DEF Mirrors, Reversible
    <3>3. m < n
      BY <1>1, <3>1, <3>2
    <3>4. \A k \in DOMAIN posted : posted[k].reverses # m
      BY <3>2 DEF Reversed
    <3>5. ASSUME NEW k \in DOMAIN posted' \ DOMAIN posted, k # n PROVE posted'[k].reverses # m
      <4>1. k - N \in DOMAIN ps /\ posted'[k] = ps[k - N] /\ k \in Nat
        BY <1>1
      <4>2. k - N \in {1, 2}
        BY <1>3, <4>1
      <4>3. k - N # 1
        BY <1>1, <3>1, <3>2, <3>5, <4>1
      <4>4. posted'[k].reverses = 0
        BY <1>3, <4>1, <4>2, <4>3
      <4> QED BY <1>6, <4>4
    <3> QED BY <1>1, <3>1, <3>2, <3>3, <3>4, <3>5
  <2> QED BY <2>1, <2>2
<1> QED BY <1>5, <1>6 DEF ReversalsExactAndOnce

\* A commit keeps the books, the earmarks and the reversals.
LEMMA CommitMoney ==
  ASSUME MInv, NEW s \in Sessions, Commit(s)
  PROVE  MoneyDiscipline'
<1>1. SessionSound(s)'
  BY EndIsAtRest, AtRestThenIsSound DEF RestIsSound, Commit
<1>2. \A t \in Sessions : SessionSound(t)'
  BY <1>1, OthersAtCommit
<1>3. EarmarksCovered'
  BY CoveredAfterCommit DEF EarmarksCovered
<1> QED BY <1>2, <1>3, BookAfterCommit, ReversalsAfterCommit DEF MoneyDiscipline

-----------------------------------------------------------------------------
(* The theorems. *)

\* Every step keeps them.
LEMMA NextMoney == MInv /\ [Next]_vars => MoneyDiscipline'
<1> SUFFICES ASSUME MInv, [Next]_vars PROVE MoneyDiscipline'
  OBVIOUS
<1>1. CASE UNCHANGED vars
  <2>1. \A t \in Sessions : SessionSound(t)'
    BY <1>1, UntouchedSession DEF MInv, MoneyDiscipline, vars, committed, writes
  <2>2. CommittedSound'
    BY <1>1, UntouchedCommitted DEF MInv, MoneyDiscipline, CommittedSound, vars
  <2> QED BY <2>1, <2>2 DEF MoneyDiscipline, CommittedSound
<1>2. ASSUME NEW s \in Sessions,
             \/ Begin(s)
             \/ LockLedger(s) \/ InsertCashLine(s) \/ InsertLedgerLine(s)
             \/ SettlePosting(s) \/ CheckLedger(s)
             \/ Commit(s) \/ Abort(s)
      PROVE  MoneyDiscipline'
  BY <1>2, BeginMoney, LockLedgerMoney, InsertCashLineMoney, InsertLedgerLineMoney,
    SettlePostingMoney, CheckLedgerMoney, CommitMoney, AbortMoney
<1> QED BY <1>1, <1>2 DEF Next

\* Every state of every session keeps both halves of the discipline.
THEOREM MoneySuffices == Spec => []MInv
<1>1. Init => MInv
  BY InitIInv, InitMoney DEF MInv
<1>2. MInv /\ [Next]_vars => MInv'
  BY NextIInv, NextMoney DEF MInv
<1> QED BY <1>1, <1>2, PTL DEF Spec

\* The locks and the money together, in every reachable state.
THEOREM DisciplineHolds == Spec => []Discipline
<1>1. MInv => Discipline
  BY DEF MInv, IInv, Discipline
<1> QED BY <1>1, MoneySuffices, PTL

\* No ledger is ever left under what is set aside on it, whoever pays, places, releases
\* and consumes at the same time.
THEOREM EarmarksStayCovered == Spec => []EarmarksCovered
<1>1. MInv => EarmarksCovered
  BY DEF MInv, MoneyDiscipline
<1> QED BY <1>1, MoneySuffices, PTL

\* Every account's cash book is the sum of its ledgers' running balances.
THEOREM BooksAgree == Spec => []BookAgreesWithLedgers
<1>1. MInv => BookAgreesWithLedgers
  BY DEF MInv, MoneyDiscipline
<1> QED BY <1>1, MoneySuffices, PTL

\* A posting is reversed at most once, by its exact mirror, and never again.
THEOREM ReversalsHold == Spec => []ReversalsExactAndOnce
<1>1. MInv => ReversalsExactAndOnce
  BY DEF MInv, MoneyDiscipline
<1> QED BY <1>1, MoneySuffices, PTL

-----------------------------------------------------------------------------
(* Both modules speak of the same lines and earmark rows. *)

\* Sums, nets and balance mean the same on both sides.
LEMMA SamePostings ==
  /\ \A ls, l : Abstract!LedgerNet(ls, l) = LedgerNet(ls, l)
  /\ \A p : Abstract!Balanced(p) = Balanced(p)
  /\ \A p : Abstract!LedgersOf(p) = LedgersOf(p)
  /\ \A ps : Abstract!LinesOf(ps) = LinesOf(ps)
  /\ \A p, n : Abstract!MirrorPosting(p, n) = MirrorPosting(p, n)
<1>1. \A f, S : Abstract!SumFunctionOnSet(f, S) = SumFunctionOnSet(f, S)
  BY DEF Abstract!SumFunctionOnSet, SumFunctionOnSet, Abstract!FoldFunctionOnSet,
         FoldFunctionOnSet, Abstract!MapThenFoldSet, MapThenFoldSet
<1>2. \A ls : Abstract!Moved(ls) = Moved(ls)
  BY DEF Abstract!Moved, Moved
<1>3. \A ls, l : Abstract!LedgerNet(ls, l) = LedgerNet(ls, l)
  BY <1>1, <1>2, Zenon DEF Abstract!LedgerNet, LedgerNet
<1>4. \A ls, a : Abstract!CashNet(ls, a) = CashNet(ls, a)
  BY <1>1, <1>2, Zenon DEF Abstract!CashNet, CashNet
<1>5. \A a : Abstract!LedgersIn(a) = LedgersIn(a)
  BY DEF Abstract!LedgersIn, LedgersIn
<1>6. ASSUME NEW p PROVE Abstract!Balanced(p) = Balanced(p)
  <2>1. [l \in Ledgers |-> Abstract!LedgerNet(p.lines, l)] = [l \in Ledgers |-> LedgerNet(p.lines, l)]
    BY <1>3, Zenon
  <2> QED BY <1>1, <1>4, <1>5, <2>1, Zenon DEF Abstract!Balanced, Balanced
<1>7. \A p : Abstract!LedgersOf(p) = LedgersOf(p)
  BY DEF Abstract!LedgersOf, LedgersOf
<1>8. \A ps : Abstract!LinesOf(ps) = LinesOf(ps)
  BY DEF Abstract!LinesOf, LinesOf
<1>9. \A p, n : Abstract!MirrorPosting(p, n) = MirrorPosting(p, n)
  BY DEF Abstract!MirrorPosting, MirrorPosting
<1> QED BY <1>3, <1>6, <1>7, <1>8, <1>9

\* What is set aside, and the rows that are free, too.
LEMMA SameEarmarks ==
  /\ \A em, l : Abstract!Marked(em, l) = Marked(em, l)
  /\ \A em : Abstract!Unused(em) = Unused(em)
  /\ \A em, e, l, x : Abstract!Placed(em, e, l, x) = Placed(em, e, l, x)
  /\ Abstract!NoEarmark = NoEarmark
<1>1. \A f, S : Abstract!SumFunctionOnSet(f, S) = SumFunctionOnSet(f, S)
  BY DEF Abstract!SumFunctionOnSet, SumFunctionOnSet, Abstract!FoldFunctionOnSet,
         FoldFunctionOnSet, Abstract!MapThenFoldSet, MapThenFoldSet
<1>2. \A em, l : Abstract!ActiveOn(em, l) = ActiveOn(em, l)
  BY DEF Abstract!ActiveOn, ActiveOn
<1>3. \A em, es : Abstract!AmountOf(em, es) = AmountOf(em, es)
  BY <1>1, Zenon DEF Abstract!AmountOf, AmountOf
<1>4. \A em, l : Abstract!Marked(em, l) = Marked(em, l)
  BY <1>2, <1>3, Zenon DEF Abstract!Marked, Marked
<1>5. \A em : Abstract!Unused(em) = Unused(em)
  BY DEF Abstract!Unused, Unused
<1>6. \A em, e, l, x : Abstract!Placed(em, e, l, x) = Placed(em, e, l, x)
  BY DEF Abstract!Placed, Placed
<1> QED BY <1>4, <1>5, <1>6 DEF Abstract!NoEarmark, NoEarmark

-----------------------------------------------------------------------------
(* What a commit does, operation by operation. *)

\* A commit that posts nothing leaves the log and every balance alone.
LEMMA QuietCommit ==
  ASSUME MInv, NEW s \in Sessions, Commit(s), job[s].op # "post"
  PROVE  posted' = posted /\ balance' = balance
<1>1. job[s].postings = << >> /\ job[s].lines = << >> /\ posted \in Seq(Posting)
  BY DEF MInv, MoneyDiscipline, SessionSound, JobSound, IInv, TypeOK, LockDiscipline, JobOK
<1>2. posted' = posted
  BY <1>1, ConcatEmptySeq DEF Commit
<1>3. balance \in [Ledgers -> Int] /\ balance' \in [Ledgers -> Int]
  BY BalanceAfterCommit
<1>4. ASSUME NEW l \in Ledgers PROVE balance'[l] = balance[l]
  <2>1. balance'[l] = balance[l] + LedgerNet(<< >>, l)
    BY <1>1, BalanceAfterCommit
  <2> QED BY <1>3, <2>1, NetsOfNone
<1> QED BY <1>2, <1>3, <1>4

\* A session that ends no earmark and places none leaves the rows alone.
LEMMA RowsLeftAlone ==
  ASSUME MInv, NEW s \in Sessions, ends[s] = {}
  PROVE  Ended(s) = earmark /\ Residual(s) = 0
BY DEF MInv, IInv, TypeOK, Ended, Residual

\* Opening, closing and reopening change the status of one ledger.
LEMMA LedgerCommit ==
  ASSUME MInv, NEW s \in Sessions, Commit(s), job[s].op \in {"open", "close", "reopen"}
  PROVE  \E l \in Ledgers : Abstract!OpenLedger(l) \/ Abstract!CloseLedger(l) \/ Abstract!ReopenLedger(l)
<1>1. /\ SessionSound(s) /\ JobOK(job[s]) /\ pc[s] = "ready" /\ status \in [Ledgers -> LedgerStatus]
  BY DEF MInv, MoneyDiscipline, IInv, TypeOK, LockDiscipline, Commit
<1>2. PICK l \in Ledgers : job[s].wanted = {l}
  BY <1>1 DEF SessionSound, JobSound
<1>3. posted' = posted /\ balance' = balance
  BY QuietCommit
<1>4. earmark' = earmark
  <2>1. ends[s] = {}
    BY <1>1 DEF SessionSound, EndsAreItsOwn
  <2>2. Ended(s) = earmark /\ FreshEarmark(s).amount = 0
    BY <2>1, RowsLeftAlone DEF FreshEarmark
  <2> QED BY <2>2 DEF Commit, CommitEarmarks
<1>5. status' = [status EXCEPT ![l] = job[s].to]
  <2>1. job[s].to # "same"
    BY <1>1 DEF JobOK
  <2> QED BY <1>1, <1>2, <2>1 DEF Commit, StatusAfter
<1>6. CASE job[s].op = "open"
  <2>1. status[l] = "none" /\ job[s].to = "open"
    BY <1>1, <1>2, <1>6 DEF SessionSound, ChecksStand, JobOK
  <2> QED BY <1>3, <1>4, <1>5, <2>1 DEF Abstract!OpenLedger
<1>7. CASE job[s].op = "close"
  <2>1. status[l] = "open" /\ job[s].to = "closed"
    BY <1>1, <1>2, <1>7 DEF SessionSound, ChecksStand, JobOK
  <2>2. balance[l] = 0 /\ ActiveOn(earmark, l) = {}
    BY <1>1, <1>2, <1>7 DEF MInv, IInv, LockDiscipline, ReadyStillHolds, ActiveOn
  <2>3. Abstract!Marked(earmark, l) = 0
    BY <2>2, NothingMarked, SameEarmarks
  <2> QED BY <1>3, <1>4, <1>5, <2>1, <2>2, <2>3 DEF Abstract!CloseLedger
<1>8. CASE job[s].op = "reopen"
  <2>1. status[l] = "closed" /\ job[s].to = "open"
    BY <1>1, <1>2, <1>8 DEF SessionSound, ChecksStand, JobOK
  <2> QED BY <1>3, <1>4, <1>5, <2>1 DEF Abstract!ReopenLedger
<1> QED BY <1>6, <1>7, <1>8

\* A placement and a release leave every ledger's status alone.
LEMMA StatusLeftAlone ==
  ASSUME MInv, NEW s \in Sessions, Commit(s), job[s].to = "same"
  PROVE  status' = status
BY DEF MInv, IInv, TypeOK, Commit, StatusAfter

\* Placing sets aside an amount the ledger holds.
LEMMA PlaceCommit ==
  ASSUME MInv, NEW s \in Sessions, Commit(s), job[s].op = "place"
  PROVE  \E l \in Ledgers : Abstract!PlaceEarmark(l)
<1>1. SessionSound(s) /\ JobOK(job[s])
  BY DEF MInv, MoneyDiscipline, IInv, LockDiscipline
<1>2. PICK l \in Ledgers : job[s].wanted = {l}
  BY <1>1 DEF SessionSound, JobSound
<1>3. posted' = posted /\ balance' = balance /\ status' = status
  BY <1>1, QuietCommit, StatusLeftAlone DEF JobOK
<1>4. job[s].amount \in Amounts /\ job[s].amount # 0
  BY <1>1, AmountsAssumption DEF SessionSound, JobSound
<1>5. FreshEarmark(s) = [ledger |-> l, amount |-> job[s].amount]
  BY <1>2 DEF FreshEarmark
<1>6. Ended(s) = earmark
  BY <1>1, RowsLeftAlone DEF SessionSound, EndsAreItsOwn
<1>7. PICK e \in NextIds(earmark) : earmark' = Placed(earmark, e, l, job[s].amount)
  BY <1>4, <1>5, <1>6 DEF Commit, CommitEarmarks
<1>8. e \in Abstract!Unused(earmark) /\ earmark' = Abstract!Placed(earmark, e, l, job[s].amount)
  BY <1>7, SameEarmarks DEF NextIds
<1>9. Abstract!Marked(earmark', l) <= balance[l]
  BY <1>3, CoveredAfterCommit, SameEarmarks
<1> QED BY <1>3, <1>4, <1>8, <1>9 DEF Abstract!PlaceEarmark

\* A release ends one row; what it leaves of a part stands on a fresh one.
LEMMA ReleaseCommit ==
  ASSUME MInv, NEW s \in Sessions, Commit(s), job[s].op = "release"
  PROVE  \E e \in EarmarkIds : Abstract!ReleaseEarmark(e)
<1>1. /\ SessionSound(s) /\ JobOK(job[s]) /\ pc[s] = "ready"
      /\ earmark \in [EarmarkIds -> EarmarkRow] /\ ends[s] \in SUBSET EarmarkIds
  BY DEF MInv, MoneyDiscipline, IInv, TypeOK, LockDiscipline, Commit
<1> DEFINE e == job[s].earmark
           ended == [earmark EXCEPT ![e].state = "released"]
<1>2. ends[s] = {e} /\ e \in EarmarkIds /\ job[s].amount \in Amounts
  BY <1>1 DEF SessionSound, EndsAreItsOwn, JobSound
<1>3. earmark[e].state = "active" /\ earmark[e].amount \in Nat
  BY <1>1, <1>2 DEF MInv, IInv, LockDiscipline, EndsUnderRowLock, EarmarkRow
<1>4. posted' = posted /\ balance' = balance /\ status' = status
  BY <1>1, QuietCommit, StatusLeftAlone DEF JobOK
<1>5. Ended(s) = ended
  BY <1>1, <1>2 DEF Ended
<1>6. FreshEarmark(s).amount = Residual(s) /\ FreshEarmark(s).ledger =
        IF Residual(s) > 0 THEN earmark[e].ledger ELSE 0
  BY DEF FreshEarmark
<1>7. CASE Residual(s) = 0
  <2>1. earmark' = ended
    BY <1>5, <1>6, <1>7 DEF Commit, CommitEarmarks
  <2>2. Abstract!ReleaseEarmark(e)
    BY <1>3, <1>4, <2>1 DEF Abstract!ReleaseEarmark
  <2> QED BY <1>2, <2>2
<1>8. CASE Residual(s) # 0
  <2>1. job[s].amount \in Nat \ {0}
    BY <1>2, AmountsAssumption
  <2>2. Residual(s) = earmark[e].amount - job[s].amount /\ Residual(s) \in 1..(earmark[e].amount - 1)
    BY <1>3, <1>8, <2>1 DEF Residual
  <2>3. PICK f \in NextIds(earmark) : earmark' = Placed(ended, f, earmark[e].ledger, Residual(s))
    <3>1. FreshEarmark(s).amount = Residual(s) /\ FreshEarmark(s).ledger = earmark[e].ledger
      BY <1>6, <2>2
    <3>2. CommitEarmarks(s)
      BY DEF Commit
    <3> HIDE DEF e, ended
    <3> QED BY <1>5, <1>8, <3>1, <3>2 DEF CommitEarmarks
  <2>4. f \in Abstract!Unused(earmark) /\ earmark' = Abstract!Placed(ended, f, earmark[e].ledger, Residual(s))
    BY <2>3, SameEarmarks DEF NextIds
  <2>5. Abstract!ReleaseEarmark(e)
    BY <1>3, <1>4, <2>2, <2>4 DEF Abstract!ReleaseEarmark
  <2> QED BY <1>2, <2>5
<1> QED BY <1>7, <1>8

-----------------------------------------------------------------------------
(* A commit that posts. *)

\* The lines of a concatenation name what either part names.
LEMMA LedgersOfConcat ==
  ASSUME NEW as \in Seq(Line), NEW bs \in Seq(Line)
  PROVE  {(as \o bs)[i].ledger : i \in DOMAIN (as \o bs)}
           = {as[i].ledger : i \in DOMAIN as} \cup {bs[i].ledger : i \in DOMAIN bs}
<1> DEFINE n == Len(as)
           m == Len(bs)
           cs == as \o bs
<1>1. /\ n \in Nat /\ m \in Nat /\ DOMAIN as = 1..n /\ DOMAIN bs = 1..m
      /\ DOMAIN cs = 1..(n + m)
      /\ \A i \in 1..(n + m) : cs[i] = IF i <= n THEN as[i] ELSE bs[i - n]
  <2>1. n \in Nat /\ m \in Nat /\ DOMAIN as = 1..n /\ DOMAIN bs = 1..m
    BY LenProperties
  <2>2. cs \in Seq(Line) /\ Len(cs) = n + m
    BY ConcatProperties
  <2>3. DOMAIN cs = 1..(n + m)
    BY <2>2, LenProperties
  <2>4. \A i \in 1..(n + m) : cs[i] = IF i <= n THEN as[i] ELSE bs[i - n]
    BY ConcatProperties
  <2> QED BY <2>1, <2>3, <2>4
<1> HIDE DEF n, m, cs
<1>2. ASSUME NEW i \in DOMAIN cs
      PROVE  cs[i].ledger \in {as[j].ledger : j \in DOMAIN as} \cup {bs[j].ledger : j \in DOMAIN bs}
  <2>1. CASE i <= n
    <3>1. i \in 1..n /\ cs[i] = as[i]
      BY <1>1, <2>1, IndexSplit
    <3> QED BY <1>1, <3>1
  <2>2. CASE ~(i <= n)
    <3>1. i - n \in 1..m /\ cs[i] = bs[i - n]
      BY <1>1, <2>2, IndexSplit
    <3> QED BY <1>1, <3>1
  <2> QED BY <2>1, <2>2
<1>3. ASSUME NEW i \in DOMAIN as PROVE as[i].ledger \in {cs[j].ledger : j \in DOMAIN cs}
  <2>1. i \in 1..(n + m) /\ i <= n
    BY <1>1
  <2> QED BY <1>1, <2>1
<1>4. ASSUME NEW i \in DOMAIN bs PROVE bs[i].ledger \in {cs[j].ledger : j \in DOMAIN cs}
  <2>1. i + n \in 1..(n + m) /\ ~(i + n <= n) /\ (i + n) - n = i
    BY <1>1
  <2> QED BY <1>1, <2>1
<1> QED BY <1>2, <1>3, <1>4 DEF cs

\* The ledgers a job locks, those its postings name and, once every line is in, those
\* the session has written on are the same.
LEMMA WrittenLedgers ==
  ASSUME MInv, NEW s \in Sessions, pc[s] = "ready", job[s].op = "post"
  PROVE  /\ job[s].wanted = UNION {LedgersOf(job[s].postings[i]) : i \in DOMAIN job[s].postings}
         /\ touched[s] = job[s].wanted
<1> DEFINE ps == job[s].postings
           ls == job[s].lines
<1>1. /\ SessionSound(s) /\ JobOK(job[s])
      /\ ps \in Seq(Posting) /\ ls \in Seq(Line) /\ touched[s] \subseteq Ledgers
  BY DEF MInv, MoneyDiscipline, IInv, TypeOK, LockDiscipline, Job
<1>2. /\ job[s].wanted = UNION {LedgersOf(ps[i]) : i \in DOMAIN ps}
      /\ ls = LinesOf(ps) /\ Len(ps) \in {1, 2}
  BY <1>1 DEF SessionSound, JobSound
<1>3. touched[s] = {ls[i].ledger : i \in DOMAIN ls} \ {0}
  <2>1. next[s] = Len(ls) + 1 /\ Len(ls) \in Nat
    BY <1>1, LenProperties DEF SessionSound, WritesAreItsLines
  <2>2. Inserted(s) = ls
    BY <1>1, <2>1, SubSeqFull DEF Inserted
  <2> QED BY <1>1, <2>2 DEF SessionSound, WritesAreItsLines
<1>4. \A i \in DOMAIN ps : ps[i].lines \in Seq(Line)
  <2>1. \A i \in DOMAIN ps : ps[i] \in Posting
    BY <1>1, ElementOfSeq, LenProperties
  <2> QED BY <2>1 DEF Posting
<1>5. touched[s] = UNION {LedgersOf(ps[i]) : i \in DOMAIN ps}
  <2>1. CASE Len(ps) = 1
    <3>1. ls = ps[1].lines /\ DOMAIN ps = {1}
      BY <1>1, <1>2, <2>1, LenProperties DEF LinesOf
    <3> QED BY <1>3, <3>1 DEF LedgersOf
  <2>2. CASE Len(ps) = 2
    <3> DEFINE as == ps[1].lines
               bs == ps[2].lines
    <3>1. ls = as \o bs /\ DOMAIN ps = {1, 2}
      BY <1>1, <1>2, <2>2, LenProperties DEF LinesOf
    <3>2. as \in Seq(Line) /\ bs \in Seq(Line)
      BY <1>4, <3>1
    <3>3. {(as \o bs)[i].ledger : i \in DOMAIN (as \o bs)}
            = {as[i].ledger : i \in DOMAIN as} \cup {bs[i].ledger : i \in DOMAIN bs}
      <4> HIDE DEF as, bs
      <4> QED BY <3>2, LedgersOfConcat
    <3>4. touched[s] = ({as[i].ledger : i \in DOMAIN as} \cup {bs[i].ledger : i \in DOMAIN bs}) \ {0}
      BY <1>3, <3>1, <3>3
    <3>5. UNION {LedgersOf(ps[i]) : i \in DOMAIN ps} = LedgersOf(ps[1]) \cup LedgersOf(ps[2])
      BY <3>1
    <3> QED BY <3>4, <3>5 DEF LedgersOf
  <2> QED BY <1>2, <2>1, <2>2
<1> QED BY <1>2, <1>5

\* What was appended to a sequence is what follows its old end.
LEMMA TailOfConcat ==
  ASSUME NEW S, NEW as \in Seq(S), NEW bs \in Seq(S)
  PROVE  SubSeq(as \o bs, Len(as) + 1, Len(as \o bs)) = bs
<1> DEFINE n == Len(as)
           m == Len(bs)
           cs == as \o bs
           ds == SubSeq(cs, n + 1, n + m)
<1>1. n \in Nat /\ m \in Nat /\ cs \in Seq(S) /\ Len(cs) = n + m
  BY LenProperties, ConcatProperties
<1>2. \A i \in 1..(n + m) : cs[i] = IF i <= n THEN as[i] ELSE bs[i - n]
  BY ConcatProperties
<1>3. ds \in Seq(S) /\ Len(ds) = m /\ \A i \in 1..m : ds[i] = cs[n + i]
  <2> HIDE DEF n, m, cs
  <2>1. \A i \in (n + 1)..(n + m) : cs[i] \in S
    BY <1>1, ElementOfSeq
  <2> QED BY <1>1, <2>1, SubSeqProperties
<1>4. \A i \in 1..m : ds[i] = bs[i]
  <2> SUFFICES ASSUME NEW i \in 1..m PROVE ds[i] = bs[i]
    OBVIOUS
  <2> HIDE DEF n, m, cs, ds
  <2>1. n + i \in 1..(n + m) /\ ~(n + i <= n) /\ (n + i) - n = i
    BY <1>1
  <2> QED BY <1>2, <1>3, <2>1
<1>5. ds = bs
  BY <1>1, <1>3, <1>4, SeqEqual
<1> QED BY <1>1, <1>5

\* Every earmark row a posting changes was free or active and is on a ledger it posts to.
LEMMA RowsOfThePosting ==
  ASSUME MInv, NEW s \in Sessions, Commit(s), job[s].op = "post", NEW e \in EarmarkIds,
         earmark'[e] # earmark[e]
  PROVE  earmark'[e].ledger \in job[s].wanted /\ earmark[e].state \in {"none", "active"}
<1>1. SessionSound(s)
  BY DEF MInv, MoneyDiscipline
<1>2. \A f \in ends[s] : earmark[f].ledger \in job[s].wanted
  BY <1>1 DEF SessionSound, EndsAreItsOwn
<1>3. CASE e \in ends[s]
  <2>1. earmark[e].state = "active" /\ earmark'[e].ledger = earmark[e].ledger
    BY <1>3, RowsAfterCommit
  <2> QED BY <1>2, <1>3, <2>1
<1>4. CASE e \notin ends[s]
  <2>1. FreshEarmark(s).amount # 0
    BY <1>4, RowsAfterCommit
  <2>2. earmark[e].state = "none" /\ earmark'[e].ledger = FreshEarmark(s).ledger
    <3>1. PICK f \in EarmarkIds \ ends[s] :
            /\ earmark[f].state = "none"
            /\ earmark'[f] = [state |-> "active", ledger |-> FreshEarmark(s).ledger,
                              amount |-> FreshEarmark(s).amount]
            /\ \A d \in EarmarkIds \ (ends[s] \cup {f}) : earmark'[d] = earmark[d]
      BY <2>1, RowsAfterCommit
    <3>2. e = f
      BY <1>4, <3>1
    <3> QED BY <3>1, <3>2
  <2>3. /\ FreshEarmark(s).amount = Residual(s)
        /\ FreshEarmark(s).ledger = IF Residual(s) > 0 THEN earmark[job[s].earmark].ledger ELSE 0
    BY DEF FreshEarmark
  <2>4. job[s].earmark \in ends[s]
    BY <2>1, <2>3 DEF Residual
  <2>5. Residual(s) > 0
    <3>1. earmark[job[s].earmark].amount \in Nat /\ job[s].amount \in Nat
      BY <2>4 DEF MInv, IInv, TypeOK, EarmarkRow, Job
    <3> QED BY <2>1, <2>3, <3>1 DEF Residual
  <2> QED BY <1>2, <2>2, <2>3, <2>4, <2>5
<1> QED BY <1>3, <1>4

\* A commit of postings is one Post of ClientLedger.
LEMMA PostCommit ==
  ASSUME MInv, NEW s \in Sessions, Commit(s), job[s].op = "post"
  PROVE  Abstract!Appended # << >> /\ Abstract!Post(Abstract!Appended)
<1> DEFINE ps == job[s].postings
           W == UNION {LedgersOf(ps[i]) : i \in DOMAIN ps}
<1>1. /\ SessionSound(s) /\ JobOK(job[s]) /\ pc[s] = "ready" /\ status \in [Ledgers -> LedgerStatus]
      /\ posted \in Seq(Posting) /\ ps \in Seq(Posting)
  BY DEF MInv, MoneyDiscipline, IInv, TypeOK, LockDiscipline, Commit, Job
<1>2. posted' = posted \o ps /\ Len(ps) \in {1, 2}
  BY <1>1 DEF Commit, SessionSound, JobSound
<1>3. Abstract!Appended = ps /\ ps # << >>
  <2>1. /\ Len(posted) \in Nat /\ Len(ps) \in Nat /\ posted' \in Seq(Posting)
        /\ Len(posted') = Len(posted) + Len(ps)
    BY <1>1, <1>2, LenProperties, ConcatProperties
  <2>2. SubSeq(posted \o ps, Len(posted) + 1, Len(posted \o ps)) = ps
    BY <1>1, <1>2, <2>1, TailOfConcat
  <2>3. Abstract!Appended = ps
    BY <1>2, <2>2, Zenon DEF Abstract!Appended
  <2>4. ps # << >>
    <3>1. Len(<< >>) = 0
      BY EmptySeq
    <3>2. ps = << >> => Len(ps) = 0
      BY <3>1, Zenon
    <3>3. Len(ps) # 0
      <4>1. \A k \in {1, 2} : k # 0
        OBVIOUS
      <4> QED BY <1>2, <4>1, Zenon
    <3> QED BY <3>2, <3>3, Zenon
  <2> QED BY <2>3, <2>4
<1>4. touched[s] = job[s].wanted /\ job[s].wanted = W /\ W \subseteq Ledgers
  <2>1. touched[s] \subseteq Ledgers
    BY DEF MInv, IInv, TypeOK
  <2> QED BY <1>1, <2>1, WrittenLedgers
<1>5. \A i \in DOMAIN ps : Abstract!Balanced(ps[i]) /\ Abstract!ExactReversal(ps[i])
  <2> SUFFICES ASSUME NEW i \in DOMAIN ps
               PROVE  Abstract!Balanced(ps[i]) /\ Abstract!ExactReversal(ps[i])
    OBVIOUS
  <2>1. /\ Sound(ps[i]) /\ Mirrors(ps[i])
        /\ ps[i].reverses # 0 => Reversible(ps[i].reverses)
    BY <1>1, ReadyToPost
  <2>2. Abstract!Balanced(ps[i])
    BY <2>1, SamePostings DEF Sound
  <2>3. Abstract!ExactReversal(ps[i])
    BY <2>1, SamePostings DEF Mirrors, Reversible, Reversed, Abstract!ExactReversal, Abstract!Reversed
  <2> QED BY <2>2, <2>3
<1>6. balance' = [l \in Ledgers |-> balance[l] + Abstract!LedgerNet(Abstract!LinesOf(ps), l)]
  <2>1. job[s].lines = LinesOf(ps) /\ balance' \in [Ledgers -> Int]
    BY BalanceAfterCommit
  <2>2. \A l \in Ledgers : balance'[l] = balance[l] + LedgerNet(LinesOf(ps), l)
    BY <2>1, BalanceAfterCommit
  <2> QED BY <2>1, <2>2, SamePostings
<1>7. ASSUME NEW l \in W
      PROVE  /\ status[l] # "closed" /\ StatusAfter(s, l) = "open"
             /\ balance'[l] >= 0
             /\ Abstract!Marked(earmark', l) <= balance'[l]
             /\ Abstract!Marked(earmark', l) <= Abstract!Marked(earmark, l)
  <2>1. l \in touched[s] /\ l \in Ledgers /\ l \in job[s].wanted
    BY <1>4
  <2>2. Landable(s, l) /\ run[s][l] >= 0
    BY <2>1 DEF MInv, IInv, LockDiscipline, WritesUnderLock
  <2>3. job[s].to \in {"same", "open"}
    BY <1>1 DEF JobOK, MInv, IInv, TypeOK, Job
  <2>4. status[l] # "closed" /\ StatusAfter(s, l) = "open"
    BY <2>1, <2>2, <2>3 DEF Landable, Opens, StatusAfter
  <2>5. balance'[l] >= 0
    BY <2>1, <2>2 DEF Commit
  <2>6. Marked(earmark', l) <= balance'[l] /\ Marked(earmark', l) <= Marked(earmark, l)
    BY <2>1, CoveredAfterCommit
  <2> QED BY <2>4, <2>5, <2>6, SameEarmarks
<1>8. status' = [l \in Ledgers |-> IF l \in W THEN "open" ELSE status[l]]
  <2>1. \A l \in Ledgers : StatusAfter(s, l) = IF l \in W THEN "open" ELSE status[l]
    BY <1>4, <1>7 DEF StatusAfter
  <2> QED BY <2>1 DEF Commit
<1>9. UNION {Abstract!LedgersOf(ps[i]) : i \in DOMAIN ps} = W
  BY SamePostings
<1>10. \A e \in EarmarkIds : earmark'[e] # earmark[e] =>
         earmark'[e].ledger \in W /\ earmark[e].state \in {"none", "active"}
  BY <1>4, RowsOfThePosting
<1>11. Abstract!Post(ps)
  <2> HIDE DEF ps, W
  <2>1. posted' = posted \o ps
    BY <1>2
  <2>2. \A l \in W : /\ status[l] # "closed" /\ balance'[l] >= 0
                     /\ Abstract!Marked(earmark', l) <= balance'[l]
                     /\ Abstract!Marked(earmark', l) <= Abstract!Marked(earmark, l)
    BY <1>7
  <2> QED BY <2>1, <2>2, <1>5, <1>6, <1>8, <1>9, <1>10, Zenon DEF Abstract!Post
<1> QED BY <1>3, <1>11

-----------------------------------------------------------------------------
(* The refinement. *)

\* A session with nothing to do leaves every row alone.
LEMMA NothingCommit ==
  ASSUME MInv, NEW s \in Sessions, Commit(s), job[s].op = "none"
  PROVE  UNCHANGED <<status, balance, earmark, posted>>
<1>1. SessionSound(s) /\ JobOK(job[s])
  BY DEF MInv, MoneyDiscipline, IInv, LockDiscipline
<1>2. Ended(s) = earmark /\ FreshEarmark(s).amount = 0
  BY <1>1, RowsLeftAlone DEF SessionSound, EndsAreItsOwn, FreshEarmark
<1> QED BY <1>1, <1>2, QuietCommit, StatusLeftAlone DEF JobOK, Commit, CommitEarmarks

\* A statement before the last changes no committed row.
LEMMA StatementsCommitNothing ==
  ASSUME NEW s \in Sessions,
         \/ Begin(s) \/ LockLedger(s) \/ InsertCashLine(s) \/ InsertLedgerLine(s)
         \/ SettlePosting(s) \/ CheckLedger(s) \/ Abort(s)
  PROVE  UNCHANGED <<status, balance, earmark, posted>>
<1>1. Begin(s) => UNCHANGED committed
  BY DEF Begin, StartReceipt, StartPayment, StartTransfer, StartCrossAccount, StartReversal,
    StartDishonour, StartOpen, StartClose, StartReopen, StartPlace, StartRelease, Start
<1> QED BY <1>1 DEF LockLedger, InsertCashLine, InsertLedgerLine, SettlePosting, CheckLedger,
    Abort, committed

\* The first state of the sessions is the first of the ledger.
LEMMA InitImplements == Init => Abstract!Init
BY SameEarmarks DEF Init, Abstract!Init

\* Every step of the sessions is a step of the ledger or none.
LEMMA NextImplements == MInv /\ [Next]_vars => [Abstract!Next]_(Abstract!vars)
<1> SUFFICES ASSUME MInv, [Next]_vars
             PROVE  Abstract!Next \/ UNCHANGED <<status, balance, earmark, posted>>
  BY DEF Abstract!vars
<1>1. CASE UNCHANGED vars
  BY <1>1 DEF vars, committed
<1>2. ASSUME NEW s \in Sessions, Commit(s)
      PROVE  Abstract!Next \/ UNCHANGED <<status, balance, earmark, posted>>
  <2>1. job[s].op \in {"none", "post", "open", "place", "release", "close", "reopen"}
    BY DEF MInv, IInv, TypeOK, Job
  <2> QED BY <1>2, <2>1, PostCommit, LedgerCommit, PlaceCommit, ReleaseCommit, NothingCommit
          DEF Abstract!Next
<1> QED BY <1>1, <1>2, StatementsCommitNothing DEF Next

\* The database sessions, whatever their number and however their statements interleave,
\* implement the atomic client ledger: postings land whole, balanced and appended, no
\* ledger goes below zero or below its earmarks, a closed one takes nothing.
THEOREM SessionsImplementTheLedger == Spec => ImplementsClientLedger
<1>1. MInv /\ [Next]_vars => [Abstract!Next]_(Abstract!vars)
  BY NextImplements
<1> QED BY <1>1, InitImplements, MoneySuffices, PTL DEF Spec, ImplementsClientLedger, Abstract!Spec
===============================================================================
