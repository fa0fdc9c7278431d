----------------------------- MODULE MCRecords ------------------------------
(***************************************************************************)
(* Small instances of the records that must agree with one another and of   *)
(* how a bill's money comes in. The account clients are told to pay is      *)
(* that of PaymentDetails itself; every other module has an instance. A     *)
(* behaviour is of one of them, as in MCMoney.                              *)
(***************************************************************************)
EXTENDS PaymentDetails, TLC

CONSTANTS
  s1, s2, b1, b2, c1, c2, t2, l2, x1, y1, z1, None,
  Modes      \* which of the instances behave

\* The instance a behaviour is of, and the variables the instances share.
VARIABLES which, v1, v2, v3, v4, v5, v6, v7, v8, v9

\* Two clients of the source system, and one line of each other kind.
SourceRefs == {s1, s2} \cup {"matters", "notes", "documents", "time", "bills", "other"}

Agreeing == INSTANCE Reconciliation WITH
  posted <- v1, arrived <- v2, presented <- v3, build <- v4, groups <- v5, exc <- v6,
  exam <- v7, seen <- v8, Accounts <- {x1}, Txns <- {t2}, Lines <- {l2},
  AccountOf <- [t \in {t2, l2} |-> x1], Value <- [t \in {t2, l2} |-> -1],
  DateOf <- [t \in {t2, l2} |-> 1], Instruments <- {t2}, Dates <- {1, 2, 3},
  Balances <- {-1, 0}, MaxBuilds <- 3, MaxGroups <- 2, MaxExceptions <- 3

Closing == INSTANCE PeriodClose WITH
  posted <- v1, landed <- v2, close <- v3, certRec <- v4, job <- v5,
  Clerks <- {s1, s2}, Closes <- {b1, b2}, NLedgers <- 2, MaxPosted <- 3

Office == INSTANCE OfficeLedger WITH
  written <- v1, live <- v2, run <- v3, opener <- v4, openings <- v5, locked <- v6,
  reversals <- v7, crashes <- v8, line <- v1, bill <- v2, journal <- v3,
  session <- v4, Entries <- {b1, b2}, Runs <- {s1, s2}, Openers <- {x1},
  MaxReversals <- 2, MaxCrashes <- 1, Lines <- {b1, b2, x1}, Ruled <- {b1, b2},
  Bills <- {y1}, Receipts <- {z1}, Sessions <- {s1, s2}, Total <- 2, Blank <- NoOne

Audit == INSTANCE Register WITH
  entry <- v1, seqno <- v2, head <- v3, cursor <- v4, seen <- v5, proc <- v6,
  figure <- v1, drawn <- v2, flight <- v3, visible <- v4, named <- v5, cache <- v6,
  unseen <- v7, late <- v8, refresh <- v9,
  Writers <- {s1, s2}, Jobs <- {b1, b2}, MaxSeq <- 4, Matters <- {1, 2},
  Refreshes <- {s1, s2}, MaxPosition <- 2

Importing == INSTANCE Imports WITH
  target <- v1, source <- v2, batch <- v3, record <- v4, reversal <- v5,
  ledger <- v1, moneyBatch <- v2, report <- v3, Refs <- SourceRefs,
  DomainOf <- [r \in SourceRefs |-> IF r \in {s1, s2} THEN "clients" ELSE r],
  Names <- {c1, c2}, Batches <- {b1, b2}, Reversers <- {x1}, Nothing <- NoOne,
  MaxTargets <- 2, MoneyRefs <- {s1, s2}, MoneyBatches <- {b1, b2},
  Amounts <- {-1, 1, 2}, MaxEntries <- 4

Numbered == INSTANCE Numbering WITH
  today <- v1, formats <- v2, counters <- v3, issued <- v4, call <- v5, change <- v6,
  Callers <- {s1, s2}, Days <- {1, 2}, Base <- 3, Width <- 1, MaxSerial <- 2,
  MaxFormats <- 2

Paid == INSTANCE Collected WITH
  request <- v1, asked <- v2, active <- v3, charge <- v4, available <- v5,
  policy <- v6, billPaid <- v7, lock <- v8, doing <- v9, taken <- v1, touched <- v2,
  mirrored <- v3, receipted <- v4, open <- v5, disputed <- v6, held <- v7,
  desk <- v8, Requests <- {b1, b2}, Bills <- {x1}, Charges <- {c1, c2},
  Workers <- {s1, s2}, Absent <- None, Minimum <- 1, Wanted <- 2, Expected <- 2,
  OfficePayments <- {c1, c2}, OpenBills <- {b1, b2}, NoOne <- None,
  PaymentWorth <- 2, Total <- 1

Plans == INSTANCE Arrangements WITH
  arr <- v1, slots <- v2, collected <- v3, owed <- v4, allocated <- v5,
  reminder <- v6, adopting <- v7, todo <- v8, Arrangements <- {1, 2}, Bills <- {1},
  Count <- 1, CoversFuture <- {2}, MaxOwed <- 1, MaxSlots <- 2

Plan == INSTANCE Arrangements WITH
  arr <- v1, slots <- v2, collected <- v3, owed <- v4, allocated <- v5,
  reminder <- v6, adopting <- v7, todo <- v8, Arrangements <- {1}, Bills <- {1},
  Count <- 2, CoversFuture <- {1}, MaxOwed <- 1, MaxSlots <- 3

\* What the proofs about these modules suppose of their constants.
ASSUME ParametersHold ==
  /\ Parameters /\ Audit!ChainParameters /\ Audit!PositionParameters
  /\ Office!BridgeParameters /\ Office!BankParameters /\ Importing!RecordParameters
  /\ Closing!CloseParameters /\ Agreeing!ReconParameters
  /\ Numbered!SerialParameters
  /\ Paid!ChannelParameters /\ Paid!UnallocatedParameters

\* The variables an instance leaves unused are 0.
Spare9 == v9 = 0
Spare8 == v8 = 0 /\ Spare9
Spare7 == v7 = 0 /\ Spare8
Spare6 == v6 = 0 /\ Spare7
Spare5 == v5 = 0 /\ Spare6
Spare4 == v4 = 0 /\ Spare5
Spare3 == v3 = 0 /\ Spare4
Spare2 == v2 = 0 /\ Spare3
Spare1 == v1 = 0 /\ Spare2

\* The account's versions while another instance behaves: one, and nobody at work.
Resting ==
  /\ version = <<[state |-> "approved", author |-> y1, superseded |-> FALSE]>>
  /\ needsApproval = FALSE /\ sent = {} /\ filed = {}
  /\ lock = [n \in Numbers |-> NoOne] /\ job = [s \in Staff |-> NoJob]

MCInit ==
  /\ which \in Modes
  /\ \/ which = "payment_details" /\ Init /\ Spare1
     \/ which = "reconciliation" /\ Agreeing!Init /\ Spare9 /\ Resting
     \/ which = "period_close" /\ Closing!Init /\ Spare6 /\ Resting
     \/ which = "office_bridge" /\ Office!BridgeInit /\ Spare9 /\ Resting
     \/ which = "office_bank" /\ Office!BankInit /\ Spare5 /\ Resting
     \/ which = "register" /\ Audit!ChainInit /\ Spare7 /\ Resting
     \/ which = "positions" /\ Audit!PositionInit /\ Resting
     \/ which = "imports" /\ Importing!RecordInit /\ Spare6 /\ Resting
     \/ which = "money_replay" /\ Importing!MoneyInit /\ Spare4 /\ Resting
     \/ which = "numbers" /\ Numbered!SerialInit /\ Spare7 /\ Resting
     \/ which = "channel" /\ Paid!ChannelInit /\ Resting
     \/ which = "unallocated" /\ Paid!UnallocatedInit /\ Spare9 /\ Resting
     \/ which = "plans" /\ Plans!PlanInit /\ Spare9 /\ Resting
     \/ which = "plan" /\ Plan!PlanInit /\ Spare9 /\ Resting

MCNext ==
  \/ /\ which = "payment_details" /\ Next
     /\ UNCHANGED <<which, v1, v2, v3, v4, v5, v6, v7, v8, v9>>
  \/ /\ which = "reconciliation" /\ Agreeing!Next
     /\ UNCHANGED <<which, vars, v9>>
  \/ /\ which = "period_close" /\ Closing!Next
     /\ UNCHANGED <<which, vars, v6, v7, v8, v9>>
  \/ /\ which = "office_bridge" /\ Office!BridgeNext
     /\ UNCHANGED <<which, vars, v9>>
  \/ /\ which = "office_bank" /\ Office!BankNext
     /\ UNCHANGED <<which, vars, v5, v6, v7, v8, v9>>
  \/ /\ which = "register" /\ Audit!ChainNext
     /\ UNCHANGED <<which, vars, v7, v8, v9>>
  \/ /\ which = "positions" /\ Audit!PositionNext
     /\ UNCHANGED <<which, vars>>
  \/ /\ which = "imports" /\ Importing!RecordNext
     /\ UNCHANGED <<which, vars, v6, v7, v8, v9>>
  \/ /\ which = "money_replay" /\ Importing!MoneyNext
     /\ UNCHANGED <<which, vars, v4, v5, v6, v7, v8, v9>>
  \/ /\ which = "numbers" /\ Numbered!SerialNext
     /\ UNCHANGED <<which, vars, v7, v8, v9>>
  \/ /\ which = "channel" /\ Paid!ChannelNext
     /\ UNCHANGED <<which, vars>>
  \/ /\ which = "unallocated" /\ Paid!UnallocatedNext
     /\ UNCHANGED <<which, vars, v9>>
  \/ /\ which = "plans" /\ Plans!PlanNext
     /\ UNCHANGED <<which, vars, v9>>
  \/ /\ which = "plan" /\ Plan!PlanNext
     /\ UNCHANGED <<which, vars, v9>>

all == <<which, vars, v1, v2, v3, v4, v5, v6, v7, v8, v9>>
MCSpec == MCInit /\ [][MCNext]_all

-----------------------------------------------------------------------------
\* The rows and the transactions of every instance have the types its module gives;
\* of the account's versions, the register, the cached positions, the office bridge
\* and bank, imported records, the period close, the reconciliation, the numbers, the
\* payment channel, unallocated money and arrangements, the inductive invariant holds
\* that contains them.
StatesOK ==
  CASE which = "payment_details" -> Discipline
    [] which = "reconciliation" -> Agreeing!ReconDiscipline
    [] which = "period_close" -> Closing!CloseDiscipline
    [] which = "office_bridge" -> Office!BridgeDiscipline
    [] which = "office_bank" -> Office!BankDiscipline
    [] which = "register" -> Audit!ChainDiscipline
    [] which = "positions" -> Audit!PositionDiscipline
    [] which = "imports" -> Importing!RecordDiscipline
    [] which = "money_replay" -> Importing!MoneyTypeOK
    [] which = "numbers" -> Numbered!SerialDiscipline
    [] which = "channel" -> Paid!ChannelDiscipline
    [] which = "unallocated" -> Paid!UnallocatedDiscipline
    [] which = "plans" -> Plans!PlanDiscipline
    [] which = "plan" -> Plan!PlanDiscipline

\* What a month was certified on stays true of it.
CertifiedHolds ==
  \* an exception a certified build left open is on its account's newest one
  /\ which = "reconciliation" => Agreeing!NoneStranded
  \* a carried exception stays the same item of its account
  /\ which = "reconciliation" => Agreeing!LineageKept
  \* an instrument is presented exactly when a certified build matched it
  /\ which = "reconciliation" => Agreeing!PresentedWhenMatched
  \* a statement line is in the groups of one certified build
  /\ which = "reconciliation" => Agreeing!LinesUsedOnce
  \* a certified period takes only postings that were past its lock already
  /\ which = "period_close" => Closing!OnlyThoseInFlightLand

\* What is entered is entered once: a bank line, a receivables entry, a line of
\* another system, a document's number, whoever works on the same one.
EnteredOnce ==
  \* a supplier bill shows as paid what its bank lines moved
  /\ which = "office_bank" => Office!PaidByItsLines
  \* a statement line is booked once
  /\ which = "office_bank" => Office!BookedOnce
  \* a receivables entry has one live journal at most
  /\ which = "office_bridge" => Office!BridgedOnce
  \* a line of the source system lands once
  /\ which = "imports" => Importing!ImportedOnce
  \* the numbers of a gapless counter are one each, without a gap
  /\ which = "numbers" => Numbered!NoGaps
  \* a number comes again only from what the new format did not carry on
  /\ which = "numbers" => Numbered!RepeatsOnlyPastTheSeed

\* What watches the records sees them all: the verifier, the anomaly scan, the
\* recomputation of cached positions.
NothingHidden ==
  \* the verifier's walk never finds a break that no one made
  /\ which = "register" => Audit!RunChainVerificationFindsNothing
  \* the anomaly cursor passes no entry that was not evaluated
  /\ which = "register" => Audit!NothingSkipped
  \* a cached position that is out of date is one the next recomputation lists
  /\ which = "positions" => Audit!StaleIsListed

\* An import is all there or all gone, and its report says which.
BatchesWholeOrNot ==
  \* a batch is reversed exactly when everything it created is gone
  /\ which = "imports" => Importing!AllOrNothing
  \* a batch that updated something is never reversed
  /\ which = "imports" => Importing!UpdatesAreFinal
  \* a refused batch leaves no money row behind
  /\ which = "money_replay" => Importing!RefusedLeavesNothing
  \* a batch nobody posted after can be taken back
  /\ which = "money_replay" => Importing!UntouchedUnwinds
  \* what the report calls accepted is on the ledger
  /\ which = "money_replay" => Importing!ReportIsTrue

\* Money that comes in counts once, on a bill, on an instalment or in client money.
CollectedOnce ==
  \* what a reference of the payment channel asks for is settled once
  /\ which = "channel" => Paid!SettledOnce
  \* unallocated money is on bills or once in client money
  /\ which = "unallocated" => Paid!InOnePlace
  \* one live arrangement covers a bill
  /\ which = "plans" => Plans!OneLiveCover
  \* a completed arrangement was paid to the last instalment
  /\ which = "plan" => Plan!CompletedMeansPaid

Symmetry == Permutations({s1, s2}) \cup Permutations({b1, b2})

BooksSymmetry == Permutations({s1, s2}) \cup Permutations({b1, b2}) \cup Permutations({c1, c2})
=============================================================================
