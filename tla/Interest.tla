------------------------------ MODULE Interest ------------------------------
(***************************************************************************)
(* Simple daily interest on one overdue bill: charges staff add on demand,     *)
(* and proposals the accrual job parks until somebody approves them.  Every    *)
(* posting locks the bill, so what it reads of the journal it also writes.    *)
(*                                                                         *)
(* A payment is dated with the database's day; the last day that accrues is    *)
(* yesterday in the firm's own time zone, whose midnight comes earlier than   *)
(* the database's, later or with it.  The rate is one unit a day for each      *)
(* unit owed, and rounding is left out.                                      *)
(***************************************************************************)
EXTENDS Integers, FiniteSets, FiniteSetsExt

CONSTANTS
  Worth,       \* the bill's principal
  Due,         \* the first day that accrues: due date and grace
  LastDay,     \* bound: days
  Zone,        \* 1, -1 or 0: the firm's midnight comes before the database's, after or with it
  Runs,        \* runs of the accrual job
  MaxProposals \* bound: proposals parked

\* What the constants are.
InterestParameters ==
  /\ Worth \in Nat /\ Due \in Nat \ {0} /\ LastDay \in Nat \ {0} /\ MaxProposals \in Nat
  /\ Zone \in {-1, 0, 1}

VARIABLES
  today,      \* the database's day, and how far from it the firm's is
  paid,       \* what was allocated with each effective date
  charges,    \* interest_charge: period, amount and the day it was posted
  proposal,   \* interest_charge_proposal, by number: period, state
  sweep       \* the runs that found no proposal pending and have the bill to do

interestVars == <<today, paid, charges, proposal, sweep>>

Days == 1..LastDay
Numbers == 1..MaxProposals
Blank == [from |-> 0, to |-> 0, state |-> "none"]

\* How far the firm's day is from the database's until the later midnight, and after the earlier.
Low == IF Zone = -1 THEN -1 ELSE 0
High == IF Zone = 1 THEN 1 ELSE 0

InterestTypeOK ==
  /\ today \in [day : Days, off : {Low, High}]
  /\ paid \in [Days -> 0..Worth] /\ SumFunctionOnSet(paid, Days) <= Worth
  /\ charges \subseteq [from : Days, to : Days, amount : Nat \ {0}, posted : Days] /\ IsFiniteSet(charges)
  /\ \A c \in charges : c.from <= c.to
  /\ proposal \in [Numbers -> [from : Days \cup {0}, to : Days \cup {0},
                              state : {"none", "pending", "approved", "dismissed"}]]
  /\ sweep \subseteq Runs

InterestInit ==
  /\ today = [day |-> 1, off |-> Low]
  /\ paid = [d \in Days |-> 0] /\ charges = {}
  /\ proposal = [n \in Numbers |-> Blank] /\ sweep = {}

\* What was owed at the end of a day, and what accrues over a period.
Owed(d) == Worth - SumFunctionOnSet(paid, 1..d)
Accrues(from, to) == SumFunctionOnSet([d \in from..to |-> Owed(d)], from..to)

FirmDay == today.day + today.off
ToToday == FirmDay
AccrualFrontier == FirmDay - 1
FromDue == Due
Earliest == Max({Due} \cup {c.to + 1 : c \in charges})

Overlaps(from, to) == \E c \in charges : from <= c.to /\ c.from <= to
\* computeChargeInTx: not before the due date, past any charged period, not empty.
MayCharge(from, to) ==
  /\ from >= Earliest /\ from <= to /\ ~Overlaps(from, to)
  /\ to <= LastDay /\ Accrues(from, to) > 0

\* Midnight at the database, or at the firm; in one zone it is both.
Tick ==
  /\ \/ today.off = High /\ today.day < LastDay /\ today' = [day |-> today.day + 1, off |-> Low]
     \/ today.off < High /\ today' = [day |-> today.day, off |-> High]
  /\ UNCHANGED <<paid, charges, proposal, sweep>>

Allocate(n) ==
  /\ n <= Owed(LastDay)
  /\ paid' = [paid EXCEPT ![today.day] = @ + n]
  /\ UNCHANGED <<today, charges, proposal, sweep>>

Post(from, to) ==
  charges' = charges \cup {[from |-> from, to |-> to, amount |-> Accrues(from, to), posted |-> today.day]}

\* On demand.  The bill's page names no period: all that has accrued is charged.
AddInterestCharge ==
  /\ MayCharge(Earliest, AccrualFrontier)
  /\ Post(Earliest, AccrualFrontier) /\ UNCHANGED <<today, paid, proposal, sweep>>

(***************************************************************************)
(* The accrual job lists the bills without a pending proposal, then parks.    *)
(***************************************************************************)
Pending == {n \in Numbers : proposal[n].state = "pending"}
NonePending == Pending = {}

ListBill(r) ==
  /\ r \notin sweep /\ NonePending /\ Owed(LastDay) > 0
  /\ sweep' = sweep \cup {r} /\ UNCHANGED <<today, paid, charges, proposal>>

\* The unique index lets one proposal of the bill wait at a time.
IndexAdmits == NonePending
GenerateInterestProposal(r, n) ==
  /\ r \in sweep /\ sweep' = sweep \ {r}
  /\ IF IndexAdmits /\ MayCharge(Earliest, AccrualFrontier)
       THEN /\ proposal[n].state = "none" /\ \A m \in 1..(n - 1) : proposal[m].state # "none"
            /\ proposal' = [proposal EXCEPT ![n] = [from |-> Earliest, to |-> AccrualFrontier, state |-> "pending"]]
       ELSE UNCHANGED proposal
  /\ UNCHANGED <<today, paid, charges>>

\* Approved: the amount is worked out again, and nothing accruing dismisses it.
ApproveInterestProposal(n) ==
  LET p == proposal[n]
  IN  /\ p.state = "pending" /\ p.from >= Earliest /\ ~Overlaps(p.from, p.to)
      /\ IF Accrues(p.from, p.to) > 0
           THEN Post(p.from, p.to) /\ proposal' = [proposal EXCEPT ![n].state = "approved"]
           ELSE UNCHANGED charges /\ proposal' = [proposal EXCEPT ![n].state = "dismissed"]
      /\ UNCHANGED <<today, paid, sweep>>

DismissInterestProposal(n) ==
  /\ proposal[n].state = "pending"
  /\ proposal' = [proposal EXCEPT ![n].state = "dismissed"]
  /\ UNCHANGED <<today, paid, charges, sweep>>

InterestNext ==
  \/ Tick
  \/ \E n \in 1..Worth : Allocate(n)
  \/ AddInterestCharge
  \/ \E r \in Runs : ListBill(r)
  \/ \E r \in Runs, n \in Numbers : GenerateInterestProposal(r, n)
  \/ \E n \in Numbers : ApproveInterestProposal(n) \/ DismissInterestProposal(n)

InterestSpec == InterestInit /\ [][InterestNext]_interestVars

(***************************************************************************)
(* Properties.                                                               *)
(***************************************************************************)
\* A charge once posted is what its days accrue, for ever: no payment recorded later
\* lowers the balance of a day already charged.  One posted while the database's clock was
\* still in its last day, as the firm's midnight comes first, is more by what is paid on that
\* day at most.
ChargesStand ==
  \A c \in charges :
    /\ c.to < c.posted => c.amount = Accrues(c.from, c.to)
    /\ Accrues(c.from, c.to) <= c.amount /\ c.amount <= Accrues(c.from, c.to) + paid[c.to]

\* Why: what is charged, or proposed, reaches at most the day payments are dated with.
InterestDiscipline ==
  /\ InterestTypeOK
  /\ \A c \in charges : c.to <= c.posted /\ c.posted <= today.day
  /\ \A n \in Pending : proposal[n].from \in 1..proposal[n].to /\ proposal[n].to <= today.day
  /\ ChargesStand

\* Not kept where the firm's midnight comes first: a charge is "simple daily interest on the
\* day-by-day outstanding principal" (interest.ts:147-148).
ChargesExact == \A c \in charges : c.amount = Accrues(c.from, c.to)

\* Not kept: a proposal that waits can be approved: nothing supersedes one whose
\* days were charged on demand (0021:12-14, 35), and the job passes its bill by.
PendingCanPost == \A n \in Pending : proposal[n].from >= Earliest
=============================================================================
