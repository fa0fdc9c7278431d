---------------------------- MODULE OfficeLedger ----------------------------
\* The office's books: the bridge that brings the receivables' journal into the office
\* ledger, and the office's own bank lines and supplier bills. The parts share no row;
\* each has its own variables and its own next-state relation.
EXTENDS Integers, FiniteSets

-----------------------------------------------------------------------------
(***************************************************************************)
(* The bridge from the receivables' journal to the office ledger           *)
(* (lib/ops/gl: sync, journals, setup, shared).  A run of the gl-sync job  *)
(* is one transaction: it lists the entries that have no live journal and  *)
(* posts one journal for each, a savepoint around every posting.  Staff    *)
(* press "sync now" while the job runs, reverse journals, post opening     *)
(* balances and lock months.  Every posting takes the gapless journal      *)
(* number, whose counter it holds until its transaction ends.              *)
(***************************************************************************)
CONSTANTS
    Entries,        \* bill_journal_entry rows of one month
    Runs,           \* runs of the bridge
    Openers,        \* staff posting opening balances
    MaxReversals,   \* journals reversed by hand
    MaxCrashes      \* runs that die

VARIABLES
    written,        \* entries the receivables have written
    live,           \* unreversed journals of each entry
    run,            \* the runs: what they listed, what they have posted
    opener,         \* opening balances: idle, checked
    openings,       \* unreversed opening-balance journals
    locked,         \* gl_period of the month
    reversals, crashes

bridgeVars == <<written, live, run, opener, openings, locked, reversals, crashes>>

NoRun == [at |-> "idle", todo |-> {}, posted |-> {}]

BridgeTypeOK ==
    /\ written \subseteq Entries /\ live \in [Entries -> Nat]
    /\ run \in [Runs -> [at : {"idle", "posting"}, todo : SUBSET Entries, posted : SUBSET Entries]]
    /\ opener \in [Openers -> {"idle", "checked"}] /\ openings \in Nat
    /\ locked \in BOOLEAN /\ reversals \in 0..MaxReversals /\ crashes \in 0..MaxCrashes

BridgeInit ==
    /\ written = {} /\ live = [e \in Entries |-> 0] /\ run = [r \in Runs |-> NoRun]
    /\ opener = [o \in Openers |-> "idle"] /\ openings = 0
    /\ locked = FALSE /\ reversals = 0 /\ crashes = 0

-----------------------------------------------------------------------------
\* The receivables append an entry and know nothing of the office ledger.
AppendEntry(e) ==
    /\ e \notin written /\ written' = written \cup {e}
    /\ UNCHANGED <<live, run, opener, openings, locked, reversals, crashes>>

\* The entries without a live journal, as committed; a reversed one is posted
\* again.
NeverPosted(e) == live[e] = 0 /\ reversals = 0
Unbridged(e) == live[e] = 0

GlSync(r) ==
    /\ run[r] = NoRun
    /\ run' = [run EXCEPT ![r] = [NoRun EXCEPT !.at = "posting", !.todo = {e \in written : Unbridged(e)}]]
    /\ UNCHANGED <<written, live, opener, openings, locked, reversals, crashes>>

\* The counter of the journal numbers is held by whoever has posted.
CounterFree(r) == \A q \in Runs \ {r} : run[q].posted = {}

\* gl_journal_source_unique: one live posting per bridged entry.
AsListed(e) == TRUE
RefFree(e) == live[e] = 0

PostEntry(r, e) ==
    /\ run[r].at = "posting" /\ e \in run[r].todo /\ CounterFree(r)
    /\ run' = [run EXCEPT ![r].todo = @ \ {e},
           ![r].posted = IF RefFree(e) /\ ~locked THEN @ \cup {e} ELSE @]   \* else rolled back to the savepoint
    /\ UNCHANGED <<written, live, opener, openings, locked, reversals, crashes>>

CommitSync(r) ==
    /\ run[r].at = "posting" /\ run[r].todo = {}
    /\ live' = [e \in Entries |-> IF e \in run[r].posted THEN live[e] + 1 ELSE live[e]]
    /\ run' = [run EXCEPT ![r] = NoRun]
    /\ UNCHANGED <<written, opener, openings, locked, reversals, crashes>>

Crash(r) ==
    /\ run[r] # NoRun /\ crashes < MaxCrashes
    /\ run' = [run EXCEPT ![r] = NoRun] /\ crashes' = crashes + 1
    /\ UNCHANGED <<written, live, opener, openings, locked, reversals>>

-----------------------------------------------------------------------------
\* The mirror is posted today, in a month that is never locked here; the
\* original is no longer live, so the next run posts its entry again.
ReverseBridged(e) ==
    /\ live[e] > 0 /\ reversals < MaxReversals
    /\ \A r \in Runs : run[r].posted = {}
    /\ live' = [live EXCEPT ![e] = @ - 1] /\ reversals' = reversals + 1
    /\ UNCHANGED <<written, run, opener, openings, locked, crashes>>

\* Opening balances: looked for first, posted under a date of their own.
CheckOpening(o) ==
    /\ opener[o] = "idle" /\ openings = 0 /\ opener' = [opener EXCEPT ![o] = "checked"]
    /\ UNCHANGED <<written, live, run, openings, locked, reversals, crashes>>

PostOpeningBalances(o) ==
    /\ opener[o] = "checked" /\ \A r \in Runs : run[r].posted = {}
    /\ openings' = openings + 1 /\ opener' = [opener EXCEPT ![o] = "idle"]
    /\ UNCHANGED <<written, live, run, locked, reversals, crashes>>

ReverseOpening ==
    /\ openings > 0 /\ reversals < MaxReversals
    /\ openings' = openings - 1 /\ reversals' = reversals + 1
    /\ UNCHANGED <<written, live, run, opener, locked, crashes>>

\* One way: a locked month never reopens.
LockGlMonth ==
    /\ ~locked /\ locked' = TRUE
    /\ UNCHANGED <<written, live, run, opener, openings, reversals, crashes>>

BridgeNext ==
    \/ \E e \in Entries : AppendEntry(e) \/ ReverseBridged(e)
    \/ \E r \in Runs : GlSync(r) \/ CommitSync(r) \/ Crash(r) \/ \E e \in Entries : PostEntry(r, e)
    \/ \E o \in Openers : CheckOpening(o) \/ PostOpeningBalances(o)
    \/ ReverseOpening \/ LockGlMonth

BridgeSpec == BridgeInit /\ [][BridgeNext]_bridgeVars

\* The scheduler calls the job again and again, and a run goes on to its end
\* unless it dies, which it does a bounded number of times.
BridgeFairness ==
    \A r \in Runs :
        /\ WF_bridgeVars(GlSync(r)) /\ WF_bridgeVars(CommitSync(r))
        /\ \A e \in Entries : WF_bridgeVars(PostEntry(r, e))
BridgeFairSpec == BridgeSpec /\ BridgeFairness

-----------------------------------------------------------------------------
\* sync.ts:2-3: every entry "becomes exactly one balanced office-ledger
\* journal" - never two live ones, though runs overlap, die and repeat, and
\* journals are reversed under them.
BridgedOnce == \A e \in Entries : live[e] <= 1

BridgeParameters == MaxReversals \in Nat /\ MaxCrashes \in Nat

\* One run at a time has posted anything, and what it posted has no live journal until
\* it commits.
OnePosts == \A r, q \in Runs : run[r].posted # {} /\ run[q].posted # {} => r = q
PostsTheUnbridged == \A r \in Runs : \A e \in run[r].posted : live[e] = 0

\* The inductive invariant of the bridge.
BridgeDiscipline == BridgeTypeOK /\ BridgedOnce /\ OnePosts /\ PostsTheUnbridged

Written(e) == e \in written
Bridged(e) == live[e] = 1 \/ locked

\* What the receivables write is in the office ledger in the end, unless its
\* month was locked first.
EveryEntryBridged == \A e \in Entries : Written(e) ~> Bridged(e)

\* Not kept: journals.ts: "opening balances are already posted" - once.  Two
\* openings at once each find none posted.
OneOpening == openings <= 1

-----------------------------------------------------------------------------
(***************************************************************************)
(* The office bank: statement lines, supplier bills and the journals that  *)
(* settle them (lib/ops/gl: banking, reconcile, bills, journals).  Every   *)
(* verb is one transaction that locks its statement line first; the        *)
(* automatic run is one transaction over all the lines it listed, and      *)
(* people settle the same lines by hand while it goes on.                  *)
(***************************************************************************)
CONSTANTS
    Lines,      \* statement lines, each of one unit of money
    Ruled,      \* those a posting rule matches
    Bills,      \* supplier bills
    Receipts,   \* journals the bridge posted before the statement arrived
    Sessions,   \* staff at work
    Total,      \* what a bill owes
    Blank

VARIABLES
    line,       \* gl_statement_line: status, matched_journal, matched bill
    bill,       \* gl_bill: status, amount_paid
    journal,    \* gl_journal.status, by what the journal is for
    session     \* what each session has in hand, uncommitted

bankVars == <<line, bill, journal, session>>

Journals == Lines \cup Bills \cup Receipts
NoStep == [at |-> "idle"]
NoLine == [status |-> "none", journal |-> Blank, bill |-> Blank]

BankTypeOK ==
    /\ line \in [Lines -> [status : {"none", "unmatched", "matched", "ignored"},
                           journal : Journals \cup {Blank}, bill : Bills \cup {Blank}]]
    /\ bill \in [Bills -> [status : {"none", "draft", "approved", "paid", "void"}, paid : 0..Total]]
    /\ journal \in [Journals -> {"none", "posted", "reversed"}]
    /\ \A s \in Sessions : session[s].at \in {"idle", "paying", "matching", "auto"}

BankInit ==
    /\ line = [l \in Lines |-> NoLine]
    /\ bill = [b \in Bills |-> [status |-> "none", paid |-> 0]]
    /\ journal = [j \in Journals |-> IF j \in Receipts THEN "posted" ELSE "none"]
    /\ session = [s \in Sessions |-> NoStep]

\* Lines locked by a transaction in hand, and its bill.
Held(s) == CASE session[s].at = "idle" -> {}
             [] session[s].at = "auto" -> session[s].posted
             [] OTHER -> {session[s].line}
LineFree(s, l) == \A q \in Sessions \ {s} : l \notin Held(q)
BillFree(s, b) == \A q \in Sessions \ {s} : session[q].at = "paying" => session[q].bill # b

Settle(l, j, b) == line' = [line EXCEPT ![l] = [status |-> "matched", journal |-> j, bill |-> b]]
Done(s) == session' = [session EXCEPT ![s] = NoStep]

-----------------------------------------------------------------------------
\* The import is deduplicated by the line's hash: importing again adds nothing.
ImportStatementRows(rows) ==
    /\ line' = [l \in Lines |-> IF l \in rows /\ line[l] = NoLine
                               THEN [NoLine EXCEPT !.status = "unmatched"] ELSE line[l]]
    /\ UNCHANGED <<bill, journal, session>>

CreateGlBill(b) ==
    /\ bill[b].status = "none" /\ bill' = [bill EXCEPT ![b].status = "draft"]
    /\ UNCHANGED <<line, journal, session>>

ApproveGlBill(b) ==
    /\ bill[b].status = "draft"
    /\ bill' = [bill EXCEPT ![b].status = "approved"] /\ journal' = [journal EXCEPT ![b] = "posted"]
    /\ UNCHANGED <<line, session>>

VoidGlBill(b) ==
    /\ bill[b].status = "draft" /\ bill' = [bill EXCEPT ![b].status = "void"]
    /\ UNCHANGED <<line, journal, session>>

\* Any posted journal reverses: its lines, its bill, stay as they are.
ReverseGlJournal(j) ==
    /\ journal[j] = "posted" /\ journal' = [journal EXCEPT ![j] = "reversed"]
    /\ UNCHANGED <<line, bill, session>>

-----------------------------------------------------------------------------
\* Received or spent, or moved between two accounts of the firm: the line gets
\* a journal of its own and is matched with it.
AnyLine(l) == TRUE
Unsettled(l) == line[l].status = "unmatched"

Book(s, l) ==
    /\ session[s] = NoStep /\ Unsettled(l) /\ LineFree(s, l)
    /\ journal' = [journal EXCEPT ![l] = "posted"] /\ Settle(l, l, Blank)
    /\ UNCHANGED <<bill, session>>

ReceiveInTx(s, l) == Book(s, l)
ReconcileTransfer(s, l) == Book(s, l)

ReconcileIgnore(s, l) ==
    /\ session[s] = NoStep /\ Unsettled(l) /\ LineFree(s, l)
    /\ line' = [line EXCEPT ![l].status = "ignored"]
    /\ UNCHANGED <<bill, journal, session>>

\* A bill is paid by what it is read to owe, its row locked until the commit.
ReconcileMatchBill(s, l, b) ==
    /\ session[s] = NoStep /\ Unsettled(l) /\ LineFree(s, l)
    /\ BillFree(s, b) /\ bill[b].status = "approved" /\ bill[b].paid < Total
    /\ session' = [session EXCEPT ![s] = [at |-> "paying", line |-> l, bill |-> b, paid |-> bill[b].paid + 1]]
    /\ UNCHANGED <<line, bill, journal>>

PayBill(s) ==
    /\ session[s].at = "paying"
    /\ LET l == session[s].line  b == session[s].bill  paid == session[s].paid
       IN /\ bill' = [bill EXCEPT ![b] = [status |-> IF paid = Total THEN "paid" ELSE @.status, paid |-> paid]]
          /\ journal' = [journal EXCEPT ![l] = "posted"] /\ Settle(l, l, b)
    /\ Done(s)

\* An existing journal: posted, for the amount, and no line's so far - looked
\* up without a lock on it.
ReconcileMatchJournal(s, l, j) ==
    /\ session[s] = NoStep /\ Unsettled(l) /\ LineFree(s, l)
    /\ journal[j] = "posted" /\ \A k \in Lines : line[k].journal # j
    /\ session' = [session EXCEPT ![s] = [at |-> "matching", line |-> l, journal |-> j]]
    /\ UNCHANGED <<line, bill, journal>>

SettleWithJournal(s) ==
    /\ session[s].at = "matching" /\ Settle(session[s].line, session[s].journal, Blank)
    /\ Done(s) /\ UNCHANGED <<bill, journal>>

-----------------------------------------------------------------------------
\* The automatic run lists, then locks and looks at each line again; one that
\* was settled meanwhile refuses the whole run.
AutoReconcile(s) ==
    /\ session[s] = NoStep /\ \E l \in Ruled : Unsettled(l)
    /\ session' = [session EXCEPT ![s] = [at |-> "auto", todo |-> {l \in Ruled : Unsettled(l)}, posted |-> {}]]
    /\ UNCHANGED <<line, bill, journal>>

AutoPost(s, l) ==
    /\ session[s].at = "auto" /\ l \in session[s].todo /\ LineFree(s, l)
    /\ IF Unsettled(l)
       THEN session' = [session EXCEPT ![s].todo = @ \ {l}, ![s].posted = @ \cup {l}]
       ELSE Done(s)
    /\ UNCHANGED <<line, bill, journal>>

CommitAuto(s) ==
    /\ session[s].at = "auto" /\ session[s].todo = {}
    /\ line' = [l \in Lines |-> IF l \in session[s].posted
           THEN [status |-> "matched", journal |-> l, bill |-> Blank] ELSE line[l]]
    /\ journal' = [j \in Journals |-> IF j \in session[s].posted THEN "posted" ELSE journal[j]]
    /\ Done(s) /\ UNCHANGED bill

BankNext ==
    \/ \E rows \in SUBSET Lines : rows # {} /\ ImportStatementRows(rows)
    \/ \E b \in Bills : CreateGlBill(b) \/ ApproveGlBill(b) \/ VoidGlBill(b)
    \/ \E j \in Journals : ReverseGlJournal(j)
    \/ \E s \in Sessions :
        \/ AutoReconcile(s) \/ CommitAuto(s) \/ PayBill(s) \/ SettleWithJournal(s)
        \/ \E l \in Lines :
            \/ AutoPost(s, l) \/ ReceiveInTx(s, l) \/ ReconcileTransfer(s, l) \/ ReconcileIgnore(s, l)
            \/ \E b \in Bills : ReconcileMatchBill(s, l, b)
            \/ \E j \in Receipts : ReconcileMatchJournal(s, l, j)

BankSpec == BankInit /\ [][BankNext]_bankVars

-----------------------------------------------------------------------------
\* What a supplier bill shows as paid is what the bank lines matched to it
\* moved, and never more than its total, though two of them are matched at once.
PaidByItsLines ==
    \A b \in Bills :
        /\ bill[b].paid = Cardinality({l \in Lines : line[l].bill = b})
        /\ bill[b].status = "paid" <=> bill[b].paid = Total

\* Every statement line is booked once: a line that has a journal of its own
\* is matched to it and to no other, whatever the automatic run and the people
\* at the screen did to it at the same time.
BookedOnce ==
    \A l \in Lines :
        /\ journal[l] # "none" <=> line[l].journal = l
        /\ line[l].status = "matched" <=> line[l].journal # Blank

\* The three kinds of journal are apart, a line or a bill is one of finitely many, and
\* a bill owes something.
BankParameters ==
    /\ Lines \cap Receipts = {} /\ Lines \cap Bills = {} /\ Receipts \cap Bills = {}
    /\ Blank \notin Journals /\ Ruled \subseteq Lines
    /\ IsFiniteSet(Lines) /\ Total \in Nat \ {0}

\* What each session has in hand.
Step ==
    {NoStep}
    \cup [at : {"paying"}, line : Lines, bill : Bills, paid : Nat]
    \cup [at : {"matching"}, line : Lines, journal : Receipts]
    \cup [at : {"auto"}, todo : SUBSET Ruled, posted : SUBSET Lines]

\* A line in hand is one session's, and nothing has settled it; a bill being paid is one
\* session's, which goes by what the bill shows.
HeldApart == \A s, q \in Sessions : s # q => Held(s) \cap Held(q) = {}
HeldUnsettled == \A s \in Sessions : \A l \in Held(s) : Unsettled(l)
PaysWhatItRead ==
    \A s \in Sessions : session[s].at = "paying" =>
        LET b == session[s].bill
        IN /\ BillFree(s, b) /\ bill[b].status = "approved"
           /\ session[s].paid = bill[b].paid + 1 /\ session[s].paid <= Total
OpenLinesAreBare ==
    \A l \in Lines : line[l].status # "matched" => line[l].journal = Blank /\ line[l].bill = Blank

\* The inductive invariant of the office bank.
BankDiscipline ==
    /\ BankTypeOK /\ session \in [Sessions -> Step]
    /\ HeldApart /\ HeldUnsettled /\ PaysWhatItRead /\ OpenLinesAreBare
    /\ BookedOnce /\ PaidByItsLines

\* Not kept: reconcile.ts:346: "that journal is already matched to another line".
\* Two lines matched to one journal at once both look before either commits.
JournalMatchedOnce ==
    \A k, l \in Lines : k # l /\ line[k].journal # Blank => line[k].journal # line[l].journal

\* Not kept: a settled bill or line stands on a journal that is posted.  The
\* reversal of a journal looks at no bill and no line.
StandsOnItsJournal ==
    /\ \A b \in Bills : bill[b].status \in {"approved", "paid"} => journal[b] = "posted"
    /\ \A l \in Lines : line[l].journal # Blank => journal[line[l].journal] = "posted"
=============================================================================
