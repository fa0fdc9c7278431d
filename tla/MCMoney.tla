------------------------------ MODULE MCMoney -------------------------------
(***************************************************************************)
(* Small instances of client money around its ledgers and of the bills it   *)
(* pays. The bills are those of Receivables itself; every other module has  *)
(* an instance. A behaviour is of one of them; the instances share the      *)
(* variables of this module and never a state, so one run asks the same     *)
(* question of several components.                                          *)
(***************************************************************************)
EXTENDS Receivables, TLC

CONSTANTS
  s1, s2, c1, c2, p1, p2, n1, x1,
  Modes      \* which of the instances behave

\* The instance a behaviour is of, and the variables the instances share.
VARIABLES which, v1, v2, v3, v4, v5, v6, v7, v8

\* What the bill was issued for, what a payment and a note are worth, the note's bill.
MCTotal == [b \in Bills |-> 1]
MCWorth == [x \in Sources |-> 1]
MCBillOf == [x \in Notes |-> 1]

Applied == INSTANCE HeldFunds WITH
  run <- v1, item <- v2, pay <- v3, funds <- v4, due <- v5, moved <- v6,
  receipts <- v7, job <- v8, outstanding <- v1, available <- v2, claims <- v3,
  items <- v4, runs <- v5, entrance <- v6, Items <- {1, 2}, Sessions <- {s1, s2},
  Amount <- [i \in {1, 2} |-> 1], MaxHeld <- 2, MaxDue <- 2, SelfHealable <- {},
  Crashes <- TRUE, Bills <- {x1}, Worth <- 2, Held <- 2, MaxClaims <- 2, MaxRuns <- 2

Cheques == INSTANCE Instruments WITH
  inst <- v1, bal <- v2, swept <- v3, Outbound <- {c1, c2, x1}, Inbound <- {p1, p2},
  Face <- 2

Lawful == INSTANCE StatutoryMoney WITH
  required <- v1, due <- v2, calc <- v3, holding <- v4, contra <- v5, client <- v6,
  ledger <- v1, dcase <- v2, pay <- v3, register <- v4, listed <- v5, row <- v1,
  entries <- v2, advisory <- v3, refused <- v4, statement <- v5, refusal <- v6,
  incident <- v7, entering <- v8, Calcs <- {c1, c2}, Pooled <- {p1, p2},
  MaxMoney <- 2, Ledgers <- {s1, s2}, Cases <- {c1, c2}, Payments <- {p1, p2},
  MinAttempts <- 1, Sessions <- {s1, s2, x1}, Nil <- None, Statements <- {x1},
  Refusals <- {x1}, MaxEntries <- 3

OwedMoney == INSTANCE Receivables WITH
  journal <- v1, source <- v2, disputed <- v3, reminder <- v4, contacts <- v5,
  lock <- v6, job <- v7, Bills <- {1}, Payments <- {x1}, Notes <- {n1},
  Sessions <- {s1, s2}, Total <- [b \in {1} |-> 2], Worth <- [x \in {x1, n1} |-> 2],
  BillOf <- [x \in {n1} |-> 1], Amounts <- {1, 2}, LastStep <- 2, MaxEntries <- 3,
  Operations <- {"payment_allocation", "credit_application", "unallocate", "correct", "write_off", "interest", "assign", "hold"}

Charged == INSTANCE Interest WITH
  today <- v1, paid <- v2, charges <- v3, proposal <- v4, sweep <- v5, Worth <- 2,
  Due <- 1, LastDay <- 4, Zone <- 1, Runs <- {s1, s2}, MaxProposals <- 2

\* What the proofs about these modules suppose of their constants.
ASSUME ParametersHold ==
  /\ NoneAssumption /\ BillAssumption /\ AmountAssumption
  /\ OwedMoney!NoneAssumption /\ OwedMoney!BillAssumption /\ OwedMoney!AmountAssumption
  /\ Applied!ItemParameters /\ Applied!SweepParameters /\ Cheques!InstrumentParameters
  /\ Lawful!AsideParameters /\ Lawful!DormantParameters /\ Lawful!RegistersParameters
  /\ Charged!InterestParameters

\* The variables an instance leaves unused are 0.
Spare8 == v8 = 0
Spare7 == v7 = 0 /\ Spare8
Spare6 == v6 = 0 /\ Spare7
Spare5 == v5 = 0 /\ Spare6
Spare4 == v4 = 0 /\ Spare5
Spare3 == v3 = 0 /\ Spare4
Spare2 == v2 = 0 /\ Spare3
Spare1 == v1 = 0 /\ Spare2

MCInit ==
  /\ Init
  /\ which \in Modes
  /\ \/ which = "receivables" /\ Spare1
     \/ which = "held_funds" /\ Applied!ItemInit
     \/ which = "sweep" /\ Applied!SweepInit /\ Spare7
     \/ which = "instruments" /\ Cheques!InstrumentInit /\ Spare4
     \/ which = "set_aside" /\ Lawful!AsideInit /\ Spare7
     \/ which = "dormancy" /\ Lawful!DormantInit /\ Spare6
     \/ which = "registers" /\ Lawful!RegistersInit
     \/ which = "receivables_money" /\ OwedMoney!Init /\ Spare8
     \/ which = "interest" /\ Charged!InterestInit /\ Spare6

MCNext ==
  \/ /\ which = "receivables" /\ Next
     /\ UNCHANGED <<which, v1, v2, v3, v4, v5, v6, v7, v8>>
  \/ /\ which = "held_funds" /\ Applied!ItemNext
     /\ UNCHANGED <<which, vars>>
  \/ /\ which = "sweep" /\ Applied!SweepNext
     /\ UNCHANGED <<which, vars, v7, v8>>
  \/ /\ which = "instruments" /\ Cheques!InstrumentNext
     /\ UNCHANGED <<which, vars, v4, v5, v6, v7, v8>>
  \/ /\ which = "set_aside" /\ Lawful!AsideNext
     /\ UNCHANGED <<which, vars, v7, v8>>
  \/ /\ which = "dormancy" /\ Lawful!DormantNext
     /\ UNCHANGED <<which, vars, v6, v7, v8>>
  \/ /\ which = "registers" /\ Lawful!RegistersNext
     /\ UNCHANGED <<which, vars>>
  \/ /\ which = "receivables_money" /\ OwedMoney!Next
     /\ UNCHANGED <<which, vars, v8>>
  \/ /\ which = "interest" /\ Charged!InterestNext
     /\ UNCHANGED <<which, vars, v6, v7, v8>>

all == <<which, vars, v1, v2, v3, v4, v5, v6, v7, v8>>
MCSpec == MCInit /\ [][MCNext]_all

-----------------------------------------------------------------------------
\* The inductive invariant of every instance: the types its module gives, and why
\* what it promises holds.
StatesOK ==
  CASE which = "receivables" -> Discipline
    [] which = "held_funds" -> Applied!ItemDiscipline
    [] which = "sweep" -> Applied!SweepDiscipline
    [] which = "instruments" -> Cheques!InstrumentDiscipline
    [] which = "set_aside" -> Lawful!AsideDiscipline
    [] which = "dormancy" -> Lawful!DormantDiscipline
    [] which = "registers" -> Lawful!RegistersDiscipline
    [] which = "receivables_money" -> OwedMoney!Discipline
    [] which = "interest" -> Charged!InterestDiscipline

\* Client money leaves once for what it was taken for, whichever door, run or job
\* took it and whichever died on the way, and it comes back once.
MovedOnce ==
  \* what left a ledger for a bill was received on it once
  /\ which = "held_funds" => Applied!OneTransferOneReceipt
  \* no bill and no claim is paid more than it was made for
  /\ which = "sweep" => Applied!PaidWithinClaim
  \* a stopped or dishonoured instrument's money comes back once, and the ledger
  \* shows it
  /\ which = "instruments" => Cheques!OneReversalEach
  \* each calculation moves its difference once
  /\ which = "set_aside" => Lawful!MovedOncePerCalculation
  \* a case is remitted by one payment, after its attempts, on the register
  /\ which = "dormancy" => Lawful!RemittedOnce


\* Statements go out once, and a reported incident stays reported.
SentAndReportedOnce ==
  [][
     /\ which = "registers" => Lawful!SendsAndReportsOnce]_all

\* payments.ts:424-426: "a transfer prepared for a specific bill executes through the
\* held-funds bridge, never here - this door would move the money and leave the bill
\* unpaid".
NoMoneyWithoutBill ==
  /\ which = "held_funds" => Applied!NoMoneyWithoutBill

Symmetry == Permutations({s1, s2})

FundsSymmetry == Permutations({s1, s2}) \cup Permutations({c1, c2}) \cup Permutations({p1, p2})
=============================================================================
