----------------------------- MODULE Receivables -----------------------------
(***************************************************************************)
(* What happens to issued bills: payments and credit notes applied, taken    *)
(* back and corrected, write-offs, interest, disputes, and the reminders     *)
(* that chase what is outstanding.  A session runs one transaction at a      *)
(* time: it waits for the rows it locks, collects its journal entries and    *)
(* reminder changes, and publishes them when it commits.                     *)
(*                                                                         *)
(* The outstanding amount of a bill is the sum of its journal.  Receipt      *)
(* numbers, collection attribution, interest proposals and arrangements are    *)
(* left out.                                                                *)
(***************************************************************************)
EXTENDS Integers, Sequences, FiniteSets, FiniteSetsExt, Functions

CONSTANTS
  Bills, Payments, Notes, Sessions,
  None,          \* no session, no source, no change
  Total,         \* what each bill was issued for
  Worth,         \* the amount of each payment and credit note
  BillOf,        \* the bill of each credit note
  Amounts,       \* bound: what an entry is for
  LastStep,      \* the last step of every reminder sequence
  MaxEntries,    \* bound: entries in the journal
  Operations     \* the operations an instance explores

Sources == Payments \cup Notes
Stops == {"stopped_paid", "stopped_disputed", "held_manual", "held_trust_cover"}
Statuses == Stops \cup {"running", "exhausted"}

\* What the constants are.
NoneAssumption == None \notin Sessions \cup Sources \cup Statuses /\ Payments \cap Notes = {}
BillAssumption ==
  /\ Bills \subseteq Nat /\ IsFiniteSet(Bills)
  /\ Total \in [Bills -> Nat] /\ BillOf \in [Notes -> Bills]
AmountAssumption ==
  /\ Amounts \subseteq Nat \ {0} /\ Worth \in [Sources -> Nat]
  /\ LastStep \in Nat \ {0} /\ MaxEntries \in Nat

VARIABLES
  journal,    \* the committed bill_journal_entry rows after the issue totals
  source,     \* the payments and credit notes: none, live or corrected
  disputed,   \* the bills with an open dispute
  reminder,   \* each bill's reminder: status, steps done, whether the next is due
  contacts,   \* the steps each bill's client was contacted for, in order
  lock,       \* who holds each row and advisory lock
  job         \* what each session is doing

rows == <<journal, source, disputed, reminder, contacts>>
vars == <<rows, lock, job>>

Kinds == {"payment_allocation", "credit_application", "write_off", "interest_charge", "reversal"}
Entry == [bill : Bills, kind : Kinds, amount : Int, source : Sources \cup {None}, of : Nat]

BillRow(b) == <<"bill", b>>
SourceKey(x) == <<"source", x>>
ReminderRow(b) == <<"reminder", b>>
DisputeRow(b) == <<"dispute", b>>
Lockables == {BillRow(b) : b \in Bills} \cup {SourceKey(x) : x \in Sources}
         \cup {ReminderRow(b) : b \in Bills} \cup {DisputeRow(b) : b \in Bills}

NoChange == [b \in Bills |-> None]
NoJob == [step |-> "idle", op |-> "none", bill |-> 0, source |-> None, amount |-> 0,
          todo |-> {}, writes |-> << >>, status |-> NoChange, sends |-> FALSE]

TypeOK ==
  /\ \A i \in DOMAIN journal : journal[i] \in Entry
  /\ source \in [Sources -> {"none", "live", "corrected"}]
  /\ disputed \subseteq Bills
  /\ reminder \in [Bills -> [status : Statuses, step : 0..LastStep, due : BOOLEAN]]
  /\ \A b \in Bills : reminder[b].step = LastStep => reminder[b].status = "exhausted"
  /\ \A b \in Bills : contacts[b] \in Seq(1..LastStep)
  /\ lock \in [Lockables -> Sessions \cup {None}]
  /\ \A s \in Sessions :
       /\ job[s].step \in {"idle", "source", "chosen", "resolving", "listed", "written"}
       /\ job[s].status \in [Bills -> Statuses \cup {None}]

Init ==
  /\ journal = << >>
  /\ source = [x \in Sources |-> "none"]
  /\ disputed = {}
  /\ reminder = [b \in Bills |-> [status |-> "running", step |-> 0, due |-> FALSE]]
  /\ contacts = [b \in Bills |-> << >>]
  /\ lock = [x \in Lockables |-> None]
  /\ job = [s \in Sessions |-> NoJob]

(***************************************************************************)
(* The journal as it stands, or as a transaction sees it with its writes.    *)
(***************************************************************************)
Entered(j) == [i \in DOMAIN j |-> j[i].amount]
Moved(b, j) == SumFunctionOnSet(Entered(j), {i \in DOMAIN j : j[i].bill = b})
Outstanding(b, j) == Total[b] + Moved(b, j)

Reversed(i, j) == \E k \in DOMAIN j : j[k].of = i
Live(x, j) == {i \in DOMAIN j : j[i].source = x /\ j[i].kind # "reversal" /\ ~Reversed(i, j)}
Used(x, j) == -SumFunctionOnSet(Entered(j), Live(x, j))
Seen(s) == journal \o job[s].writes

EntryOf(b, kind, amount, x, of) ==
  [bill |-> b, kind |-> kind, amount |-> amount, source |-> x, of |-> of]

\* Room for the entries of this transaction and of the others (bound).
RoomFor(n) ==
  n + Len(journal) + MapThenSumSet(LAMBDA s : Len(job[s].writes), Sessions) <= MaxEntries

(***************************************************************************)
(* Locks: a row held by nobody or by this transaction is not waited for.     *)
(***************************************************************************)
Mine(s, x) == lock[x] \in {None, s}
NoWait(s, b) == TRUE
BillFree(s, b) == Mine(s, BillRow(b))
Locks(s, xs) == lock' = [x \in Lockables |-> IF x \in xs THEN s ELSE lock[x]]
Releases(s) == lock' = [x \in Lockables |-> IF lock[x] = s THEN None ELSE lock[x]]

Starts(s, op) == job[s].step = "idle" /\ op \in Operations
Becomes(s, j) == job' = [job EXCEPT ![s] = j]
Abort(s) == Becomes(s, NoJob) /\ Releases(s) /\ UNCHANGED rows

\* The reminder change an entry brings: a paid bill stops a running reminder, and
\* a bill that owes again lets a paid one run.  An UPDATE ... WHERE status = 'x'
\* passes a row of another status by without waiting for it.
StatusAfterEntry(e, j) ==
  LET status == reminder[e.bill].status
  IN  CASE e.kind # "reversal" /\ Outstanding(e.bill, j) = 0 /\ status = "running" -> "stopped_paid"
        [] e.kind = "reversal" /\ Outstanding(e.bill, j) > 0 /\ status = "stopped_paid" -> "running"
        [] OTHER -> None

\* The transaction writes entry e and the change it brings, then goes on to `step'.
Enters(s, j, e, step, held) ==
  LET change == StatusAfterEntry(e, Seen(s) \o <<e>>)
  IN  /\ RoomFor(1)
      /\ change # None => Mine(s, ReminderRow(e.bill))
      /\ Becomes(s, [j EXCEPT !.step = step, !.writes = Append(@, e),
                              !.status[e.bill] = IF change = None THEN @ ELSE change])
      /\ Locks(s, held \cup (IF change = None THEN {} ELSE {ReminderRow(e.bill)}))

(***************************************************************************)
(* Payments and credit notes: the advisory lock, the remainder, the bill.    *)
(***************************************************************************)
Record(x) ==
  /\ source[x] = "none" /\ lock[SourceKey(x)] = None
  /\ x \in Notes => lock[BillRow(BillOf[x])] = None
  /\ source' = [source EXCEPT ![x] = "live"]
  /\ UNCHANGED <<journal, disputed, reminder, contacts, lock, job>>

Remainder(x) == Worth[x] - Used(x, journal)

NoSourceLock(s, x) == TRUE
SourceFree(s, x) == Mine(s, SourceKey(x))

\* n to each bill of bs, from source x.
Take(s, op, x, bs, n) ==
  /\ Starts(s, op) /\ SourceFree(s, x)
  /\ n * Cardinality(bs) <= Remainder(x)
  /\ Becomes(s, [NoJob EXCEPT !.step = "source", !.op = op, !.source = x, !.todo = bs, !.amount = n])
  /\ Locks(s, {SourceKey(x)})
  /\ UNCHANGED rows

\* A payment may be recorded by the transaction that allocates it.
Allocate(s, x, bs, n) ==
  /\ x \in Payments /\ source[x] \in {"none", "live"} /\ bs # {}
  /\ Take(s, "payment_allocation", x, bs, n)
ApplyCredit(s, x, n) ==
  x \in Notes /\ source[x] = "live" /\ Take(s, "credit_application", x, {BillOf[x]}, n)

Enter(s) ==
  LET j == job[s]
      b == Min(j.todo)
      rest == j.todo \ {b}
  IN  /\ j.step = "source" /\ BillFree(s, b)
      /\ IF j.amount <= Outstanding(b, journal)
         THEN /\ Enters(s, [j EXCEPT !.todo = rest], EntryOf(b, j.op, -j.amount, j.source, 0),
                        IF rest = {} THEN "written" ELSE "source", {BillRow(b)})
              /\ UNCHANGED rows
         ELSE Abort(s)

(***************************************************************************)
(* Unallocation and correction.  The entry is read before the bill is        *)
(* locked; the unique reversal is what decides between two of them.          *)
(***************************************************************************)
Unallocate(s, i) ==
  /\ Starts(s, "unallocate")
  /\ journal[i].kind = "payment_allocation" /\ ~Reversed(i, journal)
  /\ Becomes(s, [NoJob EXCEPT !.step = "chosen", !.op = "unallocate", !.todo = {i}])
  /\ UNCHANGED <<rows, lock>>

Correct(s, x) ==
  /\ Starts(s, "correct") /\ SourceFree(s, x)
  /\ x \in Payments /\ source[x] = "live"
  /\ Becomes(s, [NoJob EXCEPT !.step = "chosen", !.op = "correct", !.source = x,
                              !.todo = Live(x, journal)])
  /\ Locks(s, {SourceKey(x)})
  /\ UNCHANGED rows

AnyTarget(i, j) == TRUE
Reversible(i, j) == ~Reversed(i, j)

Reverse(s, i) ==
  LET e == journal[i]
  IN  /\ job[s].step = "chosen" /\ i \in job[s].todo
      /\ \A k \in job[s].todo : e.bill <= journal[k].bill
      /\ BillFree(s, e.bill)
      /\ IF Reversible(i, journal)
         THEN /\ Enters(s, [job[s] EXCEPT !.todo = @ \ {i}],
                        EntryOf(e.bill, "reversal", -e.amount, e.source, i), "chosen",
                        {BillRow(e.bill)})
              /\ UNCHANGED rows
         ELSE Abort(s)

AllReversed(s) ==
  /\ job[s].step = "chosen" /\ job[s].todo = {}
  /\ Becomes(s, [job[s] EXCEPT !.step = "written"])
  /\ UNCHANGED <<rows, lock>>

(***************************************************************************)
(* Write-offs and interest.  Interest leaves the reminder alone.             *)
(***************************************************************************)
WriteOff(s, b, n) ==
  /\ Starts(s, "write_off") /\ BillFree(s, b) /\ n <= Outstanding(b, journal)
  /\ Enters(s, [NoJob EXCEPT !.op = "write_off"], EntryOf(b, "write_off", -n, None, 0), "written",
            {BillRow(b)})
  /\ UNCHANGED rows

ChargeInterest(s, b, n) ==
  /\ Starts(s, "interest") /\ BillFree(s, b) /\ RoomFor(1)
  /\ Becomes(s, [NoJob EXCEPT !.step = "written", !.op = "interest",
                              !.writes = <<EntryOf(b, "interest_charge", n, None, 0)>>])
  /\ Locks(s, {BillRow(b)})
  /\ UNCHANGED rows

(***************************************************************************)
(* Disputes.  Raising locks the bill; resolving locks the dispute only, and  *)
(* reads what is outstanding before it looks at the reminder.                *)
(***************************************************************************)
RaiseDispute(s, b) ==
  LET stops == reminder[b].status = "running"
  IN  /\ Starts(s, "dispute") /\ BillFree(s, b) /\ b \notin disputed
      /\ stops => Mine(s, ReminderRow(b))
      /\ Becomes(s, [NoJob EXCEPT !.step = "written", !.op = "raise", !.bill = b,
                                  !.status[b] = IF stops THEN "stopped_disputed" ELSE None])
      /\ Locks(s, {BillRow(b)} \cup (IF stops THEN {ReminderRow(b)} ELSE {}))
      /\ UNCHANGED rows

ResolveDispute(s, b) ==
  /\ Starts(s, "dispute") /\ Mine(s, DisputeRow(b)) /\ b \in disputed
  /\ Becomes(s, [NoJob EXCEPT !.step = "resolving", !.op = "resolve", !.bill = b,
                              !.amount = Outstanding(b, journal)])
  /\ Locks(s, {DisputeRow(b)})
  /\ UNCHANGED rows

OnlyOwing(n) == IF n > 0 THEN "running" ELSE None
StatusResolved(n) == IF n > 0 THEN "running" ELSE "stopped_paid"

Resume(s) ==
  LET b == job[s].bill
      stopped == reminder[b].status = "stopped_disputed"
  IN  /\ job[s].step = "resolving"
      /\ stopped => Mine(s, ReminderRow(b))
      /\ Becomes(s, [job[s] EXCEPT !.step = "written",
                       !.status[b] = IF stopped THEN StatusResolved(job[s].amount) ELSE None])
      /\ Locks(s, IF stopped THEN {ReminderRow(b)} ELSE {})
      /\ UNCHANGED rows

(***************************************************************************)
(* Reminders by hand: one statement, or the rows locked throughout.          *)
(***************************************************************************)
Sets(b, r) ==
  /\ lock[ReminderRow(b)] = None
  /\ reminder' = [reminder EXCEPT ![b] = r]
  /\ UNCHANGED <<journal, source, disputed, contacts, lock, job>>

StatusResumed(b) == IF reminder[b].step < LastStep THEN "running" ELSE "exhausted"

Hold(b) ==
  /\ "hold" \in Operations /\ reminder[b].status = "running"
  /\ Sets(b, [reminder[b] EXCEPT !.status = "held_manual"])

Release(b) ==
  /\ reminder[b].status = "held_manual"
  /\ Sets(b, [reminder[b] EXCEPT !.status = StatusResumed(b), !.due = FALSE])

AssignSequence(b) ==
  /\ "assign" \in Operations /\ lock[BillRow(b)] = None
  /\ Sets(b, [status |-> "running", step |-> 0, due |-> FALSE])

SpacingElapses(b) ==
  /\ reminder[b].status = "running" /\ ~reminder[b].due
  /\ reminder' = [reminder EXCEPT ![b].due = TRUE]
  /\ UNCHANGED <<journal, source, disputed, contacts, lock, job>>

(***************************************************************************)
(* The scheduler lists the parked reminders and then the due ones, and       *)
(* handles each in a transaction of its own that locks the reminder.         *)
(***************************************************************************)
List(s, op, bs) ==
  /\ Starts(s, "remind")
  /\ Becomes(s, [NoJob EXCEPT !.step = "listed", !.op = op, !.todo = bs])
  /\ UNCHANGED <<rows, lock>>

ListParked(s) == List(s, "unpark", {b \in Bills : reminder[b].status = "held_trust_cover"})
ListDue(s) == List(s, "remind", {b \in Bills : reminder[b].status = "running" /\ reminder[b].due})

NeverContacted(b, n) == FALSE
Contacted(b, n) == n \in {contacts[b][i] : i \in DOMAIN contacts[b]}

\* What the scheduler finds for a listed bill, once it holds its reminder: covered
\* says whether the firm already holds the client's money for this matter.
Finding(s, b, covered) ==
  LET owes == Outstanding(b, journal) > 0
      status == reminder[b].status
  IN  CASE job[s].op = "unpark" /\ status = "held_trust_cover" /\ ~owes -> "stopped_paid"
        [] job[s].op = "unpark" /\ status = "held_trust_cover" /\ ~covered -> StatusResumed(b)
        [] job[s].op = "remind" /\ status = "running" /\ ~owes -> "stopped_paid"
        [] job[s].op = "remind" /\ status = "running" /\ covered -> "held_trust_cover"
        [] job[s].op = "remind" /\ status = "running" /\ reminder[b].step = LastStep -> "exhausted"
        [] OTHER -> None

Examine(s, b, covered) ==
  LET f == Finding(s, b, covered)
      sends == job[s].op = "remind" /\ reminder[b].status = "running" /\ f = None
  IN  /\ job[s].step = "listed" /\ b \in job[s].todo /\ Mine(s, ReminderRow(b))
      /\ Becomes(s, [job[s] EXCEPT !.step = "written", !.bill = b, !.todo = @ \ {b},
                                   !.status[b] = f, !.sends = sends])
      /\ Locks(s, {ReminderRow(b)})
      /\ UNCHANGED rows

NextStep(b) == reminder[b].step + 1

ListDone(s) == job[s].step = "listed" /\ job[s].todo = {} /\ Abort(s)

(***************************************************************************)
(* Commit: entries, corrections, disputes, reminders and contacts together.  *)
(***************************************************************************)
PastLast(step) == step > LastStep
Exhausts(step) == step = LastStep

ReminderAfter(s, b) ==
  LET j == job[s]
      sent == j.sends /\ j.bill = b
      step == IF sent THEN NextStep(b) ELSE reminder[b].step
  IN  [status |-> IF sent /\ Exhausts(step) THEN "exhausted"
                  ELSE IF j.status[b] = None THEN reminder[b].status ELSE j.status[b],
       step |-> step,
       due |-> reminder[b].due /\ ~sent /\ ~(j.op = "unpark" /\ j.status[b] = "running")]

Commit(s) ==
  LET j == job[s]
  IN  /\ j.step = "written"
      /\ journal' = journal \o j.writes
      /\ source' = CASE j.op = "correct" -> [source EXCEPT ![j.source] = "corrected"]
                     [] j.op = "payment_allocation" -> [source EXCEPT ![j.source] = "live"]
                     [] OTHER -> source
      /\ disputed' = CASE j.op = "raise" -> disputed \cup {j.bill}
                       [] j.op = "resolve" -> disputed \ {j.bill}
                       [] OTHER -> disputed
      /\ reminder' = [b \in Bills |-> ReminderAfter(s, b)]
      /\ contacts' = IF j.sends /\ ~Contacted(j.bill, NextStep(j.bill))
                     THEN [contacts EXCEPT ![j.bill] = Append(@, NextStep(j.bill))]
                     ELSE contacts
      /\ Becomes(s, IF j.op \in {"remind", "unpark"}
                    THEN [NoJob EXCEPT !.step = "listed", !.op = j.op, !.todo = j.todo]
                    ELSE NoJob)
      /\ Releases(s)

\* A refusal, an error, a deadlock broken or a process that stopped.
Fail(s) == job[s].step # "idle" /\ Abort(s)

Next ==
  \/ \E x \in Sources : Record(x)
  \/ \E b \in Bills : Hold(b) \/ Release(b) \/ AssignSequence(b) \/ SpacingElapses(b)
  \/ \E s \in Sessions :
       \/ \E x \in Sources, n \in Amounts :
            (\E bs \in SUBSET Bills : Allocate(s, x, bs, n)) \/ ApplyCredit(s, x, n)
       \/ \E i \in DOMAIN journal : Unallocate(s, i) \/ Reverse(s, i)
       \/ \E x \in Sources : Correct(s, x)
       \/ \E b \in Bills, n \in Amounts : WriteOff(s, b, n) \/ ChargeInterest(s, b, n)
       \/ \E b \in Bills : RaiseDispute(s, b) \/ ResolveDispute(s, b)
       \/ \E b \in Bills, covered \in BOOLEAN : Examine(s, b, covered)
       \/ ListParked(s) \/ ListDue(s) \/ ListDone(s)
       \/ Enter(s) \/ AllReversed(s) \/ Resume(s) \/ Commit(s) \/ Fail(s)

Spec == Init /\ [][Next]_vars

(***************************************************************************)
(* Properties.                                                              *)
(***************************************************************************)

\* However payments, credits, write-offs and their reversals interleave, no bill is
\* paid beyond its total, no payment or note is used beyond its amount, and a
\* corrected payment is used for nothing (allocateInTx, applyCredit, correctPayment).
NeverOverpaid ==
  /\ \A b \in Bills : Outstanding(b, journal) >= 0
  /\ \A x \in Sources : Used(x, journal) <= Worth[x]
  /\ \A x \in Payments : source[x] = "corrected" => Live(x, journal) = {}

\* An entry is taken back at most once, by a later entry of the same bill and source
\* that cancels it exactly, though both reversals read it unreversed (unallocateInTx).
ReversedOnce ==
  \A i, k \in DOMAIN journal :
    journal[k].of = i =>
      /\ i < k /\ journal[k].amount = -journal[i].amount
      /\ journal[k].bill = journal[i].bill /\ journal[k].source = journal[i].source
      /\ \A m \in DOMAIN journal : journal[m].of = i => m = k

\* A reminder stopped for a dispute has an open dispute to resolve: nothing else
\* would let it run again (raiseDispute, resolveDispute).
StopHasItsDispute ==
  \A b \in Bills : reminder[b].status = "stopped_disputed" => b \in disputed

\* "No step skipped, none re-sent" (reminders.ts), with two schedulers at work, holds
\* and releases between them, and sequences reassigned, which restarts the count.
StepsInOrder == \A b \in Bills : contacts[b] = [i \in 1..Len(contacts[b]) |-> i]

\* A bill owes what its entries say.
BillsAddUp == NeverOverpaid /\ ReversedOnce

\* A client is chased for each step once and in order, and not while there is a dispute.
ChasedInOrder == StopHasItsDispute /\ StepsInOrder

\* "A paid stop with outstanding restored returns to running" (payments.ts): nobody
\* reminds a client whose reminder says paid while money is owed.
PaidStopMeansPaid ==
  \A b \in Bills : reminder[b].status = "stopped_paid" => Outstanding(b, journal) = 0

(***************************************************************************)
(* Why: an entry's meaning, and what each session still holds of the rows    *)
(* it decided by.                                                            *)
(***************************************************************************)
Taking == {"payment_allocation", "credit_application"}
TakingBack == {"unallocate", "correct"}
Job == [step : {"idle", "source", "chosen", "resolving", "listed", "written"},
        op : Taking \cup TakingBack \cup {"none", "write_off", "interest", "raise", "resolve", "remind", "unpark"},
        bill : Nat, source : Sources \cup {None}, amount : Int, todo : SUBSET Nat,
        writes : Seq(Entry), status : [Bills -> Statuses \cup {None}], sends : BOOLEAN]

\* Only reversals name an entry; what takes from a source names it.
Means(e) ==
  /\ e.kind = "reversal" <=> e.of # 0
  /\ e.kind \in Taking \cup {"write_off"} => e.amount < 0
  /\ e.kind = "interest_charge" => e.amount > 0
  /\ e.kind \in Taking => e.source \in IF e.kind = "credit_application" THEN Notes ELSE Payments
  /\ e.kind \in {"write_off", "interest_charge"} => e.source = None

\* Entry e takes back an allocation of journal j.
TakesBack(e, j) ==
  /\ e.of \in DOMAIN j /\ j[e.of].kind = "payment_allocation"
  /\ e.kind = "reversal" /\ e.amount = -j[e.of].amount
  /\ e.bill = j[e.of].bill /\ e.source = j[e.of].source

JournalMeans ==
  /\ journal \in Seq(Entry)
  /\ \A i \in DOMAIN journal : Means(journal[i])
  /\ \A i \in DOMAIN journal : journal[i].of # 0 => journal[i].of < i /\ TakesBack(journal[i], journal)

\* Whoever has written on a bill holds it, and leaves it owing nothing less than zero.
WritesUnderBill(s) ==
  LET w == job[s].writes
  IN  /\ \A k \in DOMAIN w : Means(w[k]) /\ lock[BillRow(w[k].bill)] = s
      /\ \A b \in Bills : Outstanding(b, journal) + Moved(b, w) >= 0

\* Whoever takes from a source holds it, and takes no more than is left.
TakesWithin(s) ==
  LET j == job[s]
  IN  j.op \in Taking =>
        /\ j.source \in (IF j.op = "credit_application" THEN Notes ELSE Payments)
        /\ j.op = "payment_allocation" => source[j.source] # "corrected"
        /\ lock[SourceKey(j.source)] = s
        /\ j.amount \in Amounts /\ j.todo \subseteq Bills /\ IsFiniteSet(j.todo)
        /\ \A k \in DOMAIN j.writes :
             /\ j.writes[k].kind = j.op /\ j.writes[k].amount = -j.amount
             /\ j.writes[k].source = j.source /\ j.writes[k].bill \notin j.todo
        /\ Used(j.source, journal) + j.amount * (Cardinality(j.todo) + Len(j.writes)) <= Worth[j.source]

\* Whoever takes entries back holds their bills, so nobody else takes back the same; a
\* correction has every live entry of its payment before it.
TakesEachBackOnce(s) ==
  LET j == job[s]
      back == {j.writes[k].of : k \in DOMAIN j.writes}
  IN  j.op \in TakingBack =>
        /\ j.todo \subseteq DOMAIN journal /\ back \cap j.todo = {}
        /\ \A i \in j.todo : journal[i].kind = "payment_allocation"
        /\ \A k \in DOMAIN j.writes :
             /\ TakesBack(j.writes[k], journal) /\ ~Reversed(j.writes[k].of, journal)
             /\ \A m \in DOMAIN j.writes : j.writes[m].of = j.writes[k].of => m = k
        /\ j.op = "correct" =>
             /\ j.source \in Payments /\ lock[SourceKey(j.source)] = s
             /\ Live(j.source, journal) \subseteq j.todo \cup back
             /\ j.step = "written" => j.todo = {}

\* The other operations write one entry or none.
WritesItsKind(s) ==
  LET j == job[s]
  IN  /\ j.step = "idle" => j = NoJob
      /\ j.op \in {"none", "raise", "resolve", "remind", "unpark"} => j.writes = << >>
      /\ j.op \in {"write_off", "interest"} =>
           \A k \in DOMAIN j.writes : j.writes[k].kind \in {"write_off", "interest_charge"}
      /\ j.step = "source" => j.op \in Taking /\ j.todo # {}
      /\ j.step = "chosen" => j.op \in TakingBack
      /\ j.step = "resolving" => j.op = "resolve"
      /\ j.step = "listed" => j.op \in {"remind", "unpark"} /\ j.todo \subseteq Bills
      /\ j.step = "written" /\ j.op \in {"remind", "unpark"} => j.todo \subseteq Bills

\* A reminder a session is to change is locked by it and still short of its last step.
RemindsUnderLock(s) ==
  LET j == job[s]
  IN  /\ \A b \in Bills : j.status[b] # None => lock[ReminderRow(b)] = s /\ reminder[b].step # LastStep
      /\ j.sends => /\ j.op = "remind" /\ j.step = "written" /\ j.bill \in Bills
                    /\ lock[ReminderRow(j.bill)] = s /\ reminder[j.bill].step # LastStep

\* Raising and resolving a dispute of one bill exclude each other.
DisputesInTurn(s) ==
  LET j == job[s]
  IN  /\ \A b \in Bills : j.status[b] = "stopped_disputed" => j.op = "raise" /\ j.bill = b
      /\ j.op = "raise" => j.bill \in Bills \ disputed /\ lock[BillRow(j.bill)] = s
      /\ j.op = "resolve" =>
           /\ j.bill \in disputed /\ lock[DisputeRow(j.bill)] = s
           /\ j.step = "written" /\ reminder[j.bill].status = "stopped_disputed" =>
                j.status[j.bill] # None

Discipline ==
  /\ TypeOK /\ job \in [Sessions -> Job] /\ DOMAIN contacts = Bills
  /\ JournalMeans
  /\ \A s \in Sessions :
       /\ WritesItsKind(s) /\ WritesUnderBill(s) /\ TakesWithin(s) /\ TakesEachBackOnce(s)
       /\ RemindsUnderLock(s) /\ DisputesInTurn(s)
  /\ BillsAddUp /\ ChasedInOrder
  /\ \A b \in Bills : reminder[b].step <= Len(contacts[b])
=============================================================================
