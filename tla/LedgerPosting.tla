---------------------------- MODULE LedgerPosting ----------------------------
(***************************************************************************)
(* The client-money operations as database sessions running at once, one    *)
(* action per statement that reads or locks something another session can   *)
(* change.  READ COMMITTED: a statement sees what is committed, plus its    *)
(* own transaction's writes, which land together at Commit.                 *)
(*                                                                         *)
(* Not modelled as guards, because the locks must suffice without them: the *)
(* unique (matter_ledger, entry_no) index and the deferred shape assertion, *)
(* which is stated below as an invariant instead.  Checks that live in      *)
(* other parts (capability, the period lock, instruments and dormant cases  *)
(* at close) can only refuse: Abort covers them, and crashes, and deadlock  *)
(* victims.                                                                 *)
(***************************************************************************)
EXTENDS MoneyLines

CONSTANTS
  Sessions,     \* database connections with a transaction of their own
  Free,         \* the holder of an unlocked row
  MaxPosted,    \* bound: transactions posted in one behaviour
  Operations    \* the operations an instance lets sessions start

ASSUME FreeAssumption == Free \notin Sessions
ASSUME BoundAssumption == MaxPosted \in Nat

VARIABLES
  status, balance, earmark, posted,   \* committed, as in ClientLedger
  total,     \* sum of each ledger's committed lines
  book,      \* sum of each account's committed cash-book lines
  lock,      \* who holds each ledger row FOR UPDATE
  rowLock,   \* who holds each earmark row
  pc,        \* idle, working through its statements, or ready to commit
  job,       \* what the session's transaction is doing
  next,      \* the line it inserts next
  touched,   \* the ledgers it has inserted lines on
  run,       \* the running balance its latest line on a ledger stored
  net,       \* what its lines add to a ledger
  cash,      \* what its lines add to a cash book
  ends       \* the earmark rows it has released or consumed

committed == <<status, balance, earmark, posted, total, book>>
locks == <<lock, rowLock>>
writes == <<next, touched, run, net, cash, ends>>
vars == <<committed, locks, pc, job, writes>>

Job == [op : {"none", "post", "open", "place", "release", "close", "reopen"},
        wanted : SUBSET Ledgers,               \* ledgers to lock
        postings : Seq(Posting),
        lines : Seq(Line),
        to : {"same", "open", "closed"},       \* status it gives them
        earmark : EarmarkIds \cup {0},
        amount : Nat,
        system : BOOLEAN]

NoJob == [op |-> "none", wanted |-> {}, postings |-> << >>, lines |-> << >>,
          to |-> "same", earmark |-> 0, amount |-> 0, system |-> FALSE]

Init ==
  /\ status = [l \in Ledgers |-> "none"]
  /\ balance = [l \in Ledgers |-> 0]
  /\ earmark = [e \in EarmarkIds |-> NoEarmark]
  /\ posted = << >>
  /\ total = [l \in Ledgers |-> 0]
  /\ book = [a \in Accounts |-> 0]
  /\ lock = [l \in Ledgers |-> Free]
  /\ rowLock = [e \in EarmarkIds |-> Free]
  /\ pc = [s \in Sessions |-> "idle"]
  /\ job = [s \in Sessions |-> NoJob]
  /\ next = [s \in Sessions |-> 1]
  /\ touched = [s \in Sessions |-> {}]
  /\ run = [s \in Sessions |-> [l \in Ledgers |-> 0]]
  /\ net = [s \in Sessions |-> [l \in Ledgers |-> 0]]
  /\ cash = [s \in Sessions |-> [a \in Accounts |-> 0]]
  /\ ends = [s \in Sessions |-> {}]

Reversed(n) == \E m \in DOMAIN posted : posted[m].reverses = n

Holds(s) == \A l \in job[s].wanted : lock[l] = s

\* A row ensureLedgerInTx inserted in this transaction, no other has it yet.
Opens(s) == job[s].op \in {"post", "open"} /\ job[s].to = "open"

(***************************************************************************)
(* Starting an operation: its pre-reads, outside any lock.                  *)
(***************************************************************************)
Start(s, name, j) ==
  /\ name \in Operations
  /\ pc[s] = "idle"
  /\ pc' = [pc EXCEPT ![s] = "work"]
  /\ job' = [job EXCEPT ![s] = j]
  /\ UNCHANGED <<committed, locks, writes>>

PostJob(ps) == [NoJob EXCEPT !.op = "post", !.postings = ps, !.lines = LinesOf(ps),
                             !.wanted = UNION {LedgersOf(ps[i]) : i \in DOMAIN ps}]

StartReceipt(s, l, x) ==
  /\ status[l] # "closed"
  /\ Start(s, "receipt", [PostJob(<<ReceiptPosting(l, x)>>) EXCEPT
                            !.to = IF status[l] = "none" THEN "open" ELSE "same"])

StartPayment(s, l, x, e) ==
  /\ status[l] # "none"
  /\ e # 0 => earmark[e].state # "none"
  /\ Start(s, "payment", [PostJob(<<PaymentPosting(l, x)>>) EXCEPT
                            !.earmark = e, !.amount = x])

StartTransfer(s, f, t, x) ==
  /\ f # t /\ AccountOf[f] = AccountOf[t]
  /\ status[f] = "open" /\ status[t] = "open"
  /\ Start(s, "transfer", PostJob(<<TransferPosting(f, t, x)>>))

StartCrossAccount(s, f, t, x) ==
  /\ AccountOf[f] # AccountOf[t]
  /\ status[f] = "open" /\ status[t] = "open"
  /\ Start(s, "cross", PostJob(<<PaymentPosting(f, x), ReceiptPosting(t, x)>>))

StartReversal(s, n) ==
  /\ ~Reversed(n) /\ posted[n].kind # "reversal"
  /\ Start(s, "reversal", PostJob(<<MirrorPosting(posted[n], n)>>))

\* A dishonoured receipt: reversed by the system, the honoured part re-received.
StartDishonour(s, n, h, l) ==
  /\ posted[n].kind = "receipt" /\ h < posted[n].lines[1].amount
  /\ LET full == MirrorPosting(posted[n], n)
     IN  Start(s, "dishonour", [PostJob(IF h = 0 THEN <<full>> ELSE <<full, ReceiptPosting(l, h)>>)
                                 EXCEPT !.system = TRUE])

LedgerJob(op, l, to) == [NoJob EXCEPT !.op = op, !.wanted = {l}, !.to = to]

StartOpen(s, l) == status[l] = "none" /\ Start(s, "open", LedgerJob("open", l, "open"))
StartClose(s, l) == status[l] # "none" /\ Start(s, "close", LedgerJob("close", l, "closed"))
StartReopen(s, l) == status[l] # "none" /\ Start(s, "reopen", LedgerJob("reopen", l, "open"))

StartPlace(s, l, x) ==
  /\ status[l] = "open"
  /\ Start(s, "place", [LedgerJob("place", l, "same") EXCEPT !.amount = x])

\* Releases lock no ledger: the earmark row alone, re-read once it is held.
StartRelease(s, e, x) ==
  /\ earmark[e].state = "active" /\ rowLock[e] = Free /\ x <= earmark[e].amount
  /\ "release" \in Operations
  /\ pc[s] = "idle"
  /\ pc' = [pc EXCEPT ![s] = "ready"]
  /\ job' = [job EXCEPT ![s] = [NoJob EXCEPT !.op = "release", !.earmark = e, !.amount = x]]
  /\ rowLock' = [rowLock EXCEPT ![e] = s]
  /\ ends' = [ends EXCEPT ![s] = {e}]
  /\ UNCHANGED <<committed, lock, next, touched, run, net, cash>>

(***************************************************************************)
(* The statements of a transaction.                                        *)
(***************************************************************************)
NoWait(l) == TRUE                  \* broken form: a plain SELECT

\* SELECT ... FOR UPDATE waits while another session holds the row.
Lockable(l) == lock[l] = Free

\* The ledgers are locked in ascending id order.
LockLedger(s) ==
  /\ pc[s] = "work" /\ ~Holds(s)
  /\ LET l == Min({k \in job[s].wanted : lock[k] # s})
     IN  Lockable(l) /\ lock' = [lock EXCEPT ![l] = s]
  /\ UNCHANGED <<committed, rowLock, pc, job, writes>>

\* A line lands on an open ledger, or on the one this transaction opens.
Landable(s, l) == status[l] = IF Opens(s) THEN "none" ELSE "open"

InsertCashLine(s) ==
  LET ln == job[s].lines[next[s]] IN
  /\ pc[s] = "work" /\ Holds(s) /\ next[s] \in DOMAIN job[s].lines
  /\ ln.side = "cash_book"
  /\ cash' = [cash EXCEPT ![s][ln.account] = @ + ln.amount]
  /\ next' = [next EXCEPT ![s] = @ + 1]
  /\ UNCHANGED <<committed, locks, pc, job, touched, run, net, ends>>

NoFloor(bal) == TRUE               \* broken form: the below-zero rule dropped

\* The below-zero rule of ledger_line_guard.
NotBelowZero(bal) == bal >= 0

NoCover(s) == TRUE                 \* broken form: everyone releases earmarks

\* Only the system's own postings may cut into earmarked money.
MayRelease(s) == job[s].system

NoRowWait(s, e) == TRUE            \* broken form: the earmark row is not locked

RowLockable(s, e) == rowLock[e] \in {Free, s}

\* ledger_line_guard, then the cover rule of a line that takes money out:
\* staff never cut into the active earmarks, the system releases them.
InsertLedgerLine(s) ==
  LET ln == job[s].lines[next[s]]
      l == ln.ledger
      prior == IF l \in touched[s] THEN run[s][l] ELSE balance[l]
      bal == prior + ln.amount
      short == ln.amount < 0 /\ Marked(earmark, l) > 0 /\ Marked(earmark, l) > bal
      freed == IF short THEN AutoReleased(earmark, l, bal) ELSE {}
  IN
  /\ pc[s] = "work" /\ Holds(s) /\ next[s] \in DOMAIN job[s].lines
  /\ ln.side = "matter_ledger"
  /\ Landable(s, l)
  /\ NotBelowZero(bal)
  /\ short => MayRelease(s)
  /\ \A e \in freed : RowLockable(s, e)
  /\ run' = [run EXCEPT ![s][l] = bal]
  /\ net' = [net EXCEPT ![s][l] = @ + ln.amount]
  /\ touched' = [touched EXCEPT ![s] = @ \cup {l}]
  /\ ends' = [ends EXCEPT ![s] = @ \cup freed]
  /\ rowLock' = [e \in EarmarkIds |-> IF e \in freed THEN s ELSE rowLock[e]]
  /\ next' = [next EXCEPT ![s] = @ + 1]
  /\ UNCHANGED <<committed, lock, pc, job, cash>>

ManyReversals(n) == TRUE           \* broken form: no unique index on `reverses`

Reversible(n) == ~Reversed(n)

\* The unique `reverses`, and the earmark an executed payment consumes.
SettlePosting(s) ==
  LET e == job[s].earmark IN
  /\ pc[s] = "work" /\ Holds(s) /\ job[s].op = "post"
  /\ next[s] = Len(job[s].lines) + 1
  /\ \A i \in DOMAIN job[s].postings :
       job[s].postings[i].reverses # 0 => Reversible(job[s].postings[i].reverses)
  /\ e # 0 => {earmark[e].ledger} = job[s].wanted
  /\ IF e # 0 /\ earmark[e].state = "active"
     THEN /\ rowLock[e] = Free
          /\ rowLock' = [rowLock EXCEPT ![e] = s]
          /\ ends' = [ends EXCEPT ![s] = {e}]
     ELSE UNCHANGED <<rowLock, ends>>
  /\ pc' = [pc EXCEPT ![s] = "ready"]
  /\ UNCHANGED <<committed, lock, job, next, touched, run, net, cash>>

CloseUnchecked(l) == ActiveOn(earmark, l) = {}   \* broken form: the balance is not looked at

\* closeLedger's own rule, on top of the ledger being open.
Empty(l) == balance[l] = 0 /\ ActiveOn(earmark, l) = {}

\* The checks of the operations that post nothing, under the ledger lock.
CheckLedger(s) ==
  /\ pc[s] = "work" /\ Holds(s)
  /\ \A l \in job[s].wanted :
       CASE job[s].op = "open"   -> status[l] = "none"
         [] job[s].op = "place"  -> Marked(earmark, l) + job[s].amount <= balance[l]
         [] job[s].op = "close"  -> status[l] = "open" /\ Empty(l)
         [] job[s].op = "reopen" -> status[l] = "closed"
         [] OTHER -> FALSE
  /\ pc' = [pc EXCEPT ![s] = "ready"]
  /\ UNCHANGED <<committed, locks, job, writes>>

(***************************************************************************)
(* The end of a transaction.                                               *)
(***************************************************************************)
\* The earmark rows as the transaction leaves them, its fresh row aside.
Ended(s) == [e \in EarmarkIds |->
  IF e \in ends[s]
  THEN [earmark[e] EXCEPT !.state =
          IF e = job[s].earmark /\ job[s].op = "post" THEN "consumed" ELSE "released"]
  ELSE earmark[e]]

\* What of the named earmark outlives the payment or the partial release.
Residual(s) == IF job[s].earmark \in ends[s] /\ job[s].amount < earmark[job[s].earmark].amount
               THEN earmark[job[s].earmark].amount - job[s].amount ELSE 0

FreshEarmark(s) ==
  IF job[s].op = "place"
  THEN [ledger |-> CHOOSE l \in job[s].wanted : TRUE, amount |-> job[s].amount]
  ELSE [ledger |-> IF Residual(s) > 0 THEN earmark[job[s].earmark].ledger ELSE 0,
        amount |-> Residual(s)]

CommitEarmarks(s) ==
  LET fresh == FreshEarmark(s) IN
  IF fresh.amount = 0 THEN earmark' = Ended(s)
  ELSE /\ \E e \in NextIds(earmark) :
            earmark' = Placed(Ended(s), e, fresh.ledger, fresh.amount)
       /\ lock[fresh.ledger] \in {Free, s}      \* the row's foreign key waits

EndTransaction(s) ==
  /\ pc' = [pc EXCEPT ![s] = "idle"]
  /\ job' = [job EXCEPT ![s] = NoJob]
  /\ lock' = [l \in Ledgers |-> IF lock[l] = s THEN Free ELSE lock[l]]
  /\ rowLock' = [e \in EarmarkIds |-> IF rowLock[e] = s THEN Free ELSE rowLock[e]]
  /\ next' = [next EXCEPT ![s] = 1]
  /\ touched' = [touched EXCEPT ![s] = {}]
  /\ run' = [run EXCEPT ![s] = [l \in Ledgers |-> 0]]
  /\ net' = [net EXCEPT ![s] = [l \in Ledgers |-> 0]]
  /\ cash' = [cash EXCEPT ![s] = [a \in Accounts |-> 0]]
  /\ ends' = [ends EXCEPT ![s] = {}]

StatusAlways(s, l) == IF l \in job[s].wanted THEN job[s].to ELSE status[l]   \* broken form

\* The status a ledger row gets.
StatusAfter(s, l) ==
  IF l \in job[s].wanted /\ job[s].to # "same" THEN job[s].to ELSE status[l]

Commit(s) ==
  /\ pc[s] = "ready"
  /\ Len(posted) + Len(job[s].postings) <= MaxPosted
  /\ status' = [l \in Ledgers |-> StatusAfter(s, l)]
  /\ balance' = [l \in Ledgers |-> IF l \in touched[s] THEN run[s][l] ELSE balance[l]]
  /\ total' = [l \in Ledgers |-> total[l] + net[s][l]]
  /\ book' = [a \in Accounts |-> book[a] + cash[s][a]]
  /\ posted' = posted \o job[s].postings
  /\ CommitEarmarks(s)
  /\ EndTransaction(s)

\* A refusal, an error, a deadlock victim, a lost connection: nothing lands.
Abort(s) ==
  /\ pc[s] # "idle"
  /\ EndTransaction(s)
  /\ UNCHANGED committed

Begin(s) ==
  \/ \E l \in Ledgers, x \in Amounts : StartReceipt(s, l, x) \/ StartPlace(s, l, x)
  \/ \E l \in Ledgers, x \in Amounts, e \in EarmarkIds \cup {0} : StartPayment(s, l, x, e)
  \/ \E f \in Ledgers, t \in Ledgers, x \in Amounts :
       StartTransfer(s, f, t, x) \/ StartCrossAccount(s, f, t, x)
  \/ \E n \in DOMAIN posted : StartReversal(s, n)
  \/ \E n \in DOMAIN posted, h \in Amounts \cup {0} :
       \E l \in LedgersOf(posted[n]) : StartDishonour(s, n, h, l)
  \/ \E l \in Ledgers : StartOpen(s, l) \/ StartClose(s, l) \/ StartReopen(s, l)
  \/ \E e \in EarmarkIds, x \in Amounts : StartRelease(s, e, x)

Next ==
  \E s \in Sessions :
    \/ Begin(s)
    \/ LockLedger(s) \/ InsertCashLine(s) \/ InsertLedgerLine(s)
    \/ SettlePosting(s) \/ CheckLedger(s)
    \/ Commit(s) \/ Abort(s)

Spec == Init /\ [][Next]_vars

(***************************************************************************)
(* Properties.                                                             *)
(***************************************************************************)
\* The types of the committed rows, the locks and each session's own writes.
TypeOK ==
  /\ status \in [Ledgers -> LedgerStatus]
  /\ balance \in [Ledgers -> Int] /\ total \in [Ledgers -> Int]
  /\ book \in [Accounts -> Int]
  /\ earmark \in [EarmarkIds -> EarmarkRow]
  /\ posted \in Seq(Posting)
  /\ lock \in [Ledgers -> Sessions \cup {Free}]
  /\ rowLock \in [EarmarkIds -> Sessions \cup {Free}]
  /\ pc \in [Sessions -> {"idle", "work", "ready"}]
  /\ job \in [Sessions -> Job]
  /\ next \in [Sessions -> Nat]
  /\ touched \in [Sessions -> SUBSET Ledgers]
  /\ run \in [Sessions -> [Ledgers -> Int]]
  /\ net \in [Sessions -> [Ledgers -> Int]]
  /\ cash \in [Sessions -> [Accounts -> Int]]
  /\ ends \in [Sessions -> SUBSET EarmarkIds]

\* The below-zero rule of ledger_line_guard, over what the lines really sum
\* to and not over the running balance the guard happened to read.
NeverBelowZero == \A l \in Ledgers : total[l] >= 0

\* ledger_balance() returns the running balance of the newest line: it is the
\* sum of all the ledger's lines, although each line was computed from a read.
StoredBalanceIsTheSum == \A l \in Ledgers : balance[l] = total[l]

\* Every account's cash book equals the running balances of its ledgers, as
\* the monthly certification compares them.
BookAgreesWithLedgers == \A a \in Accounts :
  book[a] = SumFunctionOnSet(balance, LedgersIn(a))

\* No movement leaves a ledger under its active earmarks, with earmarks placed,
\* split by partial releases, consumed and auto-released around it.
EarmarksCovered == \A l \in Ledgers : Marked(earmark, l) <= balance[l]

\* What closeLedger checked stays true for as long as the ledger is closed.
ClosedLedgersAreEmpty == \A l \in Ledgers :
  status[l] = "closed" => total[l] = 0 /\ ActiveOn(earmark, l) = {}

\* z_assert_txn_shape and the unique `reverses` never have to fire: every
\* posted reversal mirrors its transaction, once, and is not reversed itself.
ReversalsExactAndOnce == \A n \in DOMAIN posted :
  posted[n].reverses # 0 =>
    LET m == posted[n].reverses IN
    /\ m < n /\ posted[m].kind # "reversal"
    /\ posted[n] = MirrorPosting(posted[m], m)
    /\ \A k \in DOMAIN posted \ {n} : posted[k].reverses # m

(***************************************************************************)
(* Why the locks suffice: the invariant the proofs rest on.                 *)
(***************************************************************************)
\* What each operation's job looks like.
JobOK(j) ==
  /\ \A i \in DOMAIN j.lines : j.lines[i].side = "matter_ledger" => j.lines[i].ledger \in j.wanted
  /\ j.op # "post" => j.lines = << >>
  /\ j.op \notin {"post", "release"} => j.earmark = 0
  /\ j.op = "post" => j.to # "closed"
  /\ j.op \in {"none", "place", "release"} => j.to = "same"
  /\ j.op = "place" => j.amount > 0 /\ j.wanted # {}
  /\ j.op = "close" => j.to = "closed"
  /\ j.op \in {"open", "reopen"} => j.to = "open"

\* A session has written on a ledger only while it holds its lock, from a
\* running balance nobody can have moved since.
WritesUnderLock == \A s \in Sessions, l \in Ledgers :
  IF l \in touched[s]
  THEN /\ lock[l] = s /\ l \in job[s].wanted /\ job[s].op = "post"
       /\ run[s][l] = balance[l] + net[s][l] /\ run[s][l] >= 0
       /\ Landable(s, l)
  ELSE net[s][l] = 0

\* Whoever is ready to commit still holds what its checks were made under.
ReadyStillHolds == \A s \in Sessions :
  /\ pc[s] = "ready" /\ job[s].op # "release" => Holds(s)
  /\ pc[s] = "ready" /\ job[s].op = "place" => \A l \in job[s].wanted : status[l] = "open"
  /\ pc[s] = "ready" /\ job[s].op = "close" =>
       \A l \in job[s].wanted :
         balance[l] = 0 /\ \A e \in EarmarkIds : earmark[e].state = "active" => earmark[e].ledger # l

\* An earmark row a session has ended is locked by it and still active for others.
EndsUnderRowLock == \A s \in Sessions : \A e \in ends[s] :
  rowLock[e] = s /\ earmark[e].state = "active"

\* Between transactions a session owns no writes.
IdleIsClean == \A s \in Sessions : pc[s] = "idle" => touched[s] = {} /\ ends[s] = {}

\* Money and active earmarks stand on open ledgers only.
OnOpenLedgersOnly ==
  /\ \A l \in Ledgers : status[l] # "open" => total[l] = 0
  /\ \A e \in EarmarkIds : earmark[e].state = "active" =>
       earmark[e].ledger \in Ledgers /\ status[earmark[e].ledger] = "open"

LockDiscipline ==
  /\ \A s \in Sessions : JobOK(job[s])
  /\ WritesUnderLock
  /\ ReadyStillHolds
  /\ EndsUnderRowLock
  /\ IdleIsClean
  /\ OnOpenLedgersOnly
  /\ StoredBalanceIsTheSum
  /\ NeverBelowZero

\* What each operation hands over: postings that balance and land on a ledger, a
\* reversal being the mirror of what it reverses; one ledger for the others.
Sound(p) == Balanced(p) /\ LedgersOf(p) # {}

Mirrors(p) == p.reverses # 0 =>
  /\ p.reverses \in DOMAIN posted /\ posted[p.reverses].kind # "reversal"
  /\ p = MirrorPosting(posted[p.reverses], p.reverses)

JobSound(j) ==
  /\ j.op = "post" =>
       /\ j.lines = LinesOf(j.postings) /\ Len(j.postings) \in {1, 2}
       /\ j.wanted = UNION {LedgersOf(j.postings[i]) : i \in DOMAIN j.postings}
       /\ \A i \in DOMAIN j.postings : Sound(j.postings[i]) /\ Mirrors(j.postings[i])
       /\ Len(j.postings) = 2 => j.postings[2].reverses = 0
  /\ j.op # "post" => j.postings = << >>
  /\ j.op \in {"open", "close", "reopen", "place"} => \E l \in Ledgers : j.wanted = {l}
  /\ j.op \in {"place", "release"} => j.amount \in Amounts
  /\ j.op = "release" => j.earmark # 0 /\ j.wanted = {}
  /\ j.system => j.earmark = 0

\* What a session has written is what the lines it has inserted so far add up to.
Inserted(s) == SubSeq(job[s].lines, 1, next[s] - 1)

WritesAreItsLines(s) ==
  /\ next[s] \in 1..(Len(job[s].lines) + 1)
  /\ pc[s] = "idle" => next[s] = 1
  /\ pc[s] = "ready" => next[s] = Len(job[s].lines) + 1
  /\ touched[s] = {Inserted(s)[i].ledger : i \in DOMAIN Inserted(s)} \ {0}
  /\ \A l \in Ledgers : net[s][l] = LedgerNet(Inserted(s), l)
  /\ \A a \in Accounts : cash[s][a] = CashNet(Inserted(s), a)

\* The checks that were made under the lock stand until the commit.
ChecksStand(s) == pc[s] = "ready" =>
  /\ job[s].op = "open" => \A l \in job[s].wanted : status[l] = "none"
  /\ job[s].op = "close" => \A l \in job[s].wanted : status[l] = "open"
  /\ job[s].op = "reopen" => \A l \in job[s].wanted : status[l] = "closed"
  /\ job[s].op = "place" => \A l \in job[s].wanted : Marked(earmark, l) + job[s].amount <= balance[l]
  /\ \A i \in DOMAIN job[s].postings :
       job[s].postings[i].reverses # 0 => Reversible(job[s].postings[i].reverses)

\* What a session ends: the system's payments cut into the ledgers they pay from, the
\* others end the one earmark they name, at the last statement.
EndsAreItsOwn(s) ==
  /\ ends[s] # {} => job[s].op \in {"post", "release"}
  /\ job[s].op = "post" => \A e \in ends[s] : earmark[e].ledger \in job[s].wanted
  /\ pc[s] = "work" /\ ~job[s].system => ends[s] = {}
  /\ ~job[s].system => ends[s] \subseteq {job[s].earmark}
  /\ pc[s] # "idle" /\ job[s].op = "release" => ends[s] = {job[s].earmark} /\ pc[s] = "ready"

\* What a transaction leaves set aside on a ledger it has written on is covered by the
\* balance it leaves, whatever others release meanwhile.
Kept(s, l) == AmountOf(earmark, ActiveOn(earmark, l) \ ends[s])
Left(s, l) == IF job[s].earmark \in ends[s] /\ earmark[job[s].earmark].ledger = l
              THEN Residual(s) ELSE 0

CoverKept(s) == \A l \in touched[s] : Kept(s, l) + Left(s, l) <= run[s][l]

SessionSound(s) ==
  /\ JobSound(job[s])
  /\ WritesAreItsLines(s)
  /\ ChecksStand(s)
  /\ EndsAreItsOwn(s)
  /\ CoverKept(s)

MoneyDiscipline ==
  /\ \A s \in Sessions : SessionSound(s)
  /\ \A n \in DOMAIN posted : Sound(posted[n])
  /\ EarmarksCovered
  /\ BookAgreesWithLedgers
  /\ ReversalsExactAndOnce

\* Both together: every step of every session preserves them.
Discipline == LockDiscipline /\ MoneyDiscipline

\* The sessions together do what the abstract ledger does one step at a time.
Abstract == INSTANCE ClientLedger
ImplementsClientLedger == Abstract!Spec
=============================================================================
