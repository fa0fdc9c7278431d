--------------------------- MODULE StatutoryMoney ---------------------------
\* What the law asks of client money: what is set aside of it, what lies dormant, and the
\* registers, statements and reports about it. Each part has its own variables and its own
\* next-state relation.
EXTENDS Integers, FiniteSets, FiniteSetsExt

-----------------------------------------------------------------------------
(* The statutory set-aside: the requirement on one statutory account, its      *)
(* scheduled calculations and the confirmed movements against pooled accounts. *)
(* setAside.ts, set_aside_calculation_guard (0014), the contra rules of        *)
(* post_money_transaction (0012) and the reversal door of receipts.ts.         *)
CONSTANTS Calcs, Pooled,
          MaxMoney   \* bound: units of money in a pooled account

\* What the constants are.
AsideParameters == IsFiniteSet(Calcs) /\ Pooled # {} /\ MaxMoney \in Nat

VARIABLES required,   \* what the formula gives today
          due,        \* the schedule's window since the last calculation is over
          calc,       \* set_aside_calculation rows with their two transactions
          holding,    \* the holding ledger of the statutory account
          contra,     \* per pooled account, its contra ledger
          client      \* per pooled account, its clients' ledgers together

asideVars == <<required, due, calc, holding, contra, client>>

AsideInit ==
  /\ required = 0 /\ due = FALSE
  /\ calc = [c \in Calcs |-> [st |-> "none", delta |-> 0, pooled |-> CHOOSE a \in Pooled : TRUE,
                              stat |-> "none", pool |-> "none"]]
  /\ holding = 0
  /\ contra = [a \in Pooled |-> 0]
  /\ client = [a \in Pooled |-> 0]

\* The account must be a statutory one and the pack must declare a formula.
EstablishSetAsideRequirement ==
  /\ ~due /\ \A c \in Calcs : calc[c].st = "none"
  /\ due' = TRUE
  /\ UNCHANGED <<required, calc, holding, contra, client>>

\* Client money comes and goes; the cash book of a contra-carrying account stays >= 0.
CashBook(a) == client[a] + contra[a]

ClientMoneyMoves(a, n) ==
  /\ client[a] + n \in 0..MaxMoney /\ CashBook(a) + n >= 0
  /\ client' = [client EXCEPT ![a] = @ + n]
  /\ UNCHANGED <<required, due, calc, holding, contra>>

\* The measures the formula names are read again for each calculation.
FormulaMoves ==
  /\ required' \in 0..MaxMoney /\ required' # required
  /\ UNCHANGED <<due, calc, holding, contra, client>>

WindowPasses ==
  /\ ~due /\ \E c \in Calcs : calc[c].st # "none"
  /\ due' = TRUE
  /\ UNCHANGED <<required, calc, holding, contra, client>>

\* Evidence only: the row keeps what was required and what was held.
RunSetAsideRecalculation(c) ==
  /\ due /\ calc[c].st = "none"
  /\ calc' = [calc EXCEPT ![c].st = "calculated", ![c].delta = required - holding]
  /\ due' = FALSE
  /\ UNCHANGED <<required, holding, contra, client>>

\* Mutant: a calculation that has its movement is confirmed again.
MovedOrNot(c) == TRUE

\* The row is locked and looked at; the guard allows the link once.
Unmoved(c) == calc[c].st = "calculated"

\* Both transactions, their authorisation and the link commit together.
ConfirmSetAsideMovement(c, a) ==
  LET d == calc[c].delta IN
  /\ calc[c].st # "none" /\ Unmoved(c)
  /\ d # 0
  /\ holding + d >= 0 /\ contra[a] - d <= 0 /\ CashBook(a) - d >= 0
  /\ holding' = holding + d
  /\ contra' = [contra EXCEPT ![a] = @ - d]
  /\ calc' = [calc EXCEPT ![c] = [st |-> "moved", delta |-> d, pooled |-> a,
                                  stat |-> "stands", pool |-> "stands"]]
  /\ UNCHANGED <<required, due, client>>

\* reverseMoneyTransaction undoes either half alone, once.
ReverseStatutoryHalf(c) ==
  /\ calc[c].stat = "stands"
  /\ holding - calc[c].delta >= 0
  /\ calc' = [calc EXCEPT ![c].stat = "reversed"]
  /\ holding' = holding - calc[c].delta
  /\ UNCHANGED <<required, due, contra, client>>

ReversePooledHalf(c) ==
  LET a == calc[c].pooled IN
  /\ calc[c].pool = "stands"
  /\ contra[a] + calc[c].delta <= 0 /\ CashBook(a) + calc[c].delta >= 0
  /\ calc' = [calc EXCEPT ![c].pool = "reversed"]
  /\ contra' = [contra EXCEPT ![a] = @ + calc[c].delta]
  /\ UNCHANGED <<required, due, holding, client>>

AsideNext ==
  \/ EstablishSetAsideRequirement \/ FormulaMoves \/ WindowPasses
  \/ \E a \in Pooled, n \in {-1, 1} : ClientMoneyMoves(a, n)
  \/ \E c \in Calcs :
       \/ RunSetAsideRecalculation(c)
       \/ \E a \in Pooled : ConfirmSetAsideMovement(c, a)
       \/ ReverseStatutoryHalf(c) \/ ReversePooledHalf(c)

AsideSpec == AsideInit /\ [][AsideNext]_asideVars

-----------------------------------------------------------------------------
AsideTypeOK ==
  /\ required \in 0..MaxMoney /\ due \in BOOLEAN
  /\ calc \in [Calcs -> [st : {"none", "calculated", "moved"}, delta : Int, pooled : Pooled,
                         stat : {"none", "stands", "reversed"}, pool : {"none", "stands", "reversed"}]]
  /\ holding \in Nat /\ contra \in [Pooled -> Int] /\ client \in [Pooled -> 0..MaxMoney]
  /\ \A a \in Pooled : contra[a] <= 0 /\ CashBook(a) >= 0

Deltas(cs) == SumFunctionOnSet([c \in Calcs |-> calc[c].delta], cs)

(* Each calculation moves its difference once: the holding ledger and the     *)
(* contra ledgers hold exactly the halves that were not reversed              *)
(* (setAside.ts: confirmSetAsideMovement).                                     *)
MovedOncePerCalculation ==
  /\ holding = Deltas({c \in Calcs : calc[c].stat = "stands"})
  /\ \A a \in Pooled :
       contra[a] = -Deltas({c \in Calcs : calc[c].pool = "stands" /\ calc[c].pooled = a})

\* Why: only a confirmed calculation has its two halves.
AsideDiscipline ==
  /\ AsideTypeOK
  /\ \A c \in Calcs : calc[c].st # "moved" => calc[c].stat = "none" /\ calc[c].pool = "none"
  /\ MovedOncePerCalculation

(* Not kept: the reversal door takes one half of a movement without the other. *)
ContraMirrorsHolding == holding = -MapThenSumSet(LAMBDA a : contra[a], Pooled)

-----------------------------------------------------------------------------
(* Dormant client money: the detection job, contact attempts, resolution and   *)
(* the two doors a remittance payment can be executed by.  dormancy.ts, the    *)
(* execution core of payments.ts, ledger closing (lifecycle.ts), 0014.         *)
CONSTANTS Ledgers, Cases, Payments, Nil,
          MinAttempts   \* minimum_contact_attempts of the active pack

\* What the constant is.
DormantParameters == MinAttempts \in Nat

VARIABLES ledger,     \* [bal, open, quiet]: quiet when nothing moved for the pack's months
          dcase,      \* dormant_case rows with their contact attempts
          pay,        \* remittance-purpose money_payment rows
          register,   \* remittance_register: [case, pay]
          listed      \* what the detection's read-only transaction listed, still to insert

dormantVars == <<ledger, dcase, pay, register, listed>>

Live(c) == dcase[c].st \in {"open", "contact_in_progress"}
LiveOn(l) == {c \in Cases : Live(c) /\ dcase[c].ledger = l}

DormantInit ==
  /\ ledger = [l \in Ledgers |-> [bal |-> 0, open |-> TRUE, quiet |-> FALSE]]
  /\ dcase = [c \in Cases |-> [st |-> "none", ledger |-> Nil, attempts |-> 0]]
  /\ pay = [p \in Payments |-> [st |-> "none", ledger |-> Nil, case |-> Nil]]
  /\ register = {}
  /\ listed = {}

Receive(l) ==
  /\ ledger[l].open /\ ledger[l].bal = 0
  /\ ledger' = [ledger EXCEPT ![l].bal = 1, ![l].quiet = FALSE]
  /\ UNCHANGED <<dcase, pay, register, listed>>

MonthsPass(l) ==
  /\ ~ledger[l].quiet
  /\ ledger' = [ledger EXCEPT ![l].quiet = TRUE]
  /\ UNCHANGED <<dcase, pay, register, listed>>

\* An ordinary payment to the client who was found.
PayOut(l) ==
  /\ ledger[l].open /\ ledger[l].bal = 1
  /\ ledger' = [ledger EXCEPT ![l].bal = 0, ![l].quiet = FALSE]
  /\ UNCHANGED <<dcase, pay, register, listed>>

CloseLedger(l) ==
  /\ ledger[l].open /\ ledger[l].bal = 0 /\ LiveOn(l) = {}
  /\ ledger' = [ledger EXCEPT ![l].open = FALSE]
  /\ UNCHANGED <<dcase, pay, register, listed>>

\* Another run of the job may be in flight: it listed the same ledgers.
ListDormant ==
  /\ \E l \in Ledgers : /\ ledger[l].open /\ ledger[l].bal > 0 /\ ledger[l].quiet /\ LiveOn(l) = {}
                        /\ l \notin listed
                        /\ listed' = listed \cup {l}
  /\ UNCHANGED <<ledger, dcase, pay, register>>

\* Mutant: no index keeps a second case off the ledger.
AnyCaseFits(l) == TRUE

\* dormant_case_one_live: the insert is refused and the rest of the list is left.
NoLiveCase(l) == LiveOn(l) = {}

OpenCase(l, c) ==
  /\ l \in listed /\ dcase[c].st = "none"
  /\ IF NoLiveCase(l)
     THEN /\ dcase' = [dcase EXCEPT ![c] = [st |-> "open", ledger |-> l, attempts |-> 0]]
          /\ listed' \in {listed, listed \ {l}}
     ELSE /\ listed' = {}
          /\ UNCHANGED dcase
  /\ UNCHANGED <<ledger, pay, register>>

RecordContactAttempt(c) ==
  /\ Live(c) /\ dcase[c].attempts < MinAttempts
  /\ dcase' = [dcase EXCEPT ![c].attempts = @ + 1, ![c].st = "contact_in_progress"]
  /\ UNCHANGED <<ledger, pay, register, listed>>

ResolveDormantCase(c) ==
  /\ Live(c)
  /\ dcase' = [dcase EXCEPT ![c].st = "resolved"]
  /\ UNCHANGED <<ledger, pay, register, listed>>

\* Draft, submission and approval; nothing relates the case to the ledger.
AuthoriseRemittance(p, l, c) ==
  /\ pay[p].st = "none" /\ ledger[l].open /\ dcase[c].st # "none"
  /\ pay' = [pay EXCEPT ![p] = [st |-> "authorised", ledger |-> l, case |-> c]]
  /\ UNCHANGED <<ledger, dcase, register, listed>>

\* executePaymentCoreInTx: the posting is refused on an empty or closed ledger.
CanPay(p) == ledger[pay[p].ledger].bal = 1 /\ ledger[pay[p].ledger].open
Paid(p) == /\ pay' = [pay EXCEPT ![p].st = "executed"]
           /\ ledger' = [ledger EXCEPT ![pay[p].ledger].bal = 0, ![pay[p].ledger].quiet = FALSE]
Blocks(p) == /\ ~CanPay(p)
             /\ pay' = [pay EXCEPT ![p].st = "blocked"]
             /\ UNCHANGED <<ledger, dcase, register, listed>>

\* Mutant: the case is not looked at again under its lock.
AnyCaseRemits(c) == dcase[c].attempts >= MinAttempts

MayRemit(c) == Live(c) /\ dcase[c].attempts >= MinAttempts

ExecuteRemittance(p) ==
  /\ pay[p].st = "authorised" /\ MayRemit(pay[p].case)
  /\ \/ /\ CanPay(p) /\ Paid(p)
        /\ register' = register \cup {[case |-> pay[p].case, pay |-> p]}
        /\ dcase' = [dcase EXCEPT ![pay[p].case].st = "remitted"]
        /\ UNCHANGED listed
     \/ Blocks(p)

\* executeMoneyPayment takes any purpose, past the case and the register.
ExecuteMoneyPayment(p) ==
  /\ pay[p].st = "authorised"
  /\ \/ /\ CanPay(p) /\ Paid(p)
        /\ UNCHANGED <<dcase, register, listed>>
     \/ Blocks(p)

ResubmitBlockedPayment(p) ==
  /\ pay[p].st = "blocked"
  /\ pay' = [pay EXCEPT ![p].st = "authorised"]
  /\ UNCHANGED <<ledger, dcase, register, listed>>

DormantNext ==
  \/ ListDormant
  \/ \E l \in Ledgers : Receive(l) \/ MonthsPass(l) \/ PayOut(l) \/ CloseLedger(l)
  \/ \E c \in Cases : \/ RecordContactAttempt(c) \/ ResolveDormantCase(c)
                      \/ \E l \in Ledgers : OpenCase(l, c)
  \/ \E p \in Payments :
       \/ \E l \in Ledgers, c \in Cases : AuthoriseRemittance(p, l, c)
       \/ ExecuteRemittance(p) \/ ExecuteMoneyPayment(p) \/ ResubmitBlockedPayment(p)

DormantSpec == DormantInit /\ [][DormantNext]_dormantVars

-----------------------------------------------------------------------------
DormantTypeOK ==
  /\ ledger \in [Ledgers -> [bal : {0, 1}, open : BOOLEAN, quiet : BOOLEAN]]
  /\ dcase \in [Cases -> [st : {"none", "open", "contact_in_progress", "resolved", "remitted"},
                          ledger : Ledgers \cup {Nil}, attempts : Nat]]
  /\ pay \in [Payments -> [st : {"none", "authorised", "executed", "blocked"},
                           ledger : Ledgers \cup {Nil}, case : Cases \cup {Nil}]]
  /\ register \subseteq [case : Cases, pay : Payments] /\ listed \subseteq Ledgers

(* However many runs of the job listed a ledger, it has one live case.         *)
OneLiveCase == \A l \in Ledgers : Cardinality(LiveOn(l)) <= 1

(* A case is remitted by one executed payment, after its contact attempts, and *)
(* the permanent register says which (dormancy.ts: executeRemittance).         *)
RemittedOnce ==
  /\ \A c \in Cases :
       LET rows == {r \in register : r.case = c}
       IN /\ Cardinality(rows) = IF dcase[c].st = "remitted" THEN 1 ELSE 0
          /\ rows # {} => dcase[c].attempts >= MinAttempts
  /\ \A r \in register : pay[r.pay].st = "executed" /\ pay[r.pay].case = r.case

\* Why: a case is live alone on its ledger, and has one row of the register, of a payment
\* that names it, if it is remitted.
OnTheRegister(c) == \E r \in register : r.case = c
DormantDiscipline ==
  /\ DormantTypeOK
  /\ \A p \in Payments : pay[p].st # "none" => pay[p].ledger \in Ledgers /\ pay[p].case \in Cases
  /\ \A c, d \in Cases : Live(c) /\ Live(d) /\ dcase[c].ledger = dcase[d].ledger => c = d
  /\ \A r, q \in register : r.case = q.case => r = q
  /\ \A r \in register : /\ pay[r.pay].st = "executed" /\ pay[r.pay].case = r.case
                         /\ dcase[r.case].attempts >= MinAttempts
  /\ \A c \in Cases : dcase[c].st = "remitted" <=> OnTheRegister(c)

(* Violated: executeMoneyPayment looks only for held-funds items, so it pays   *)
(* a remittance without attempts, register row or remitted case.  dormancy.ts  *)
(* 157-162: the same transaction writes the register row and the attempts gate *)
(* the execution; the dormant page sends remittances to the payment ceremony.  *)
EveryRemittanceRegistered ==
  \A p \in Payments : pay[p].st = "executed" => \E r \in register : r.pay = p

(* Not kept: a remittance may name the case of another ledger.                 *)
RemitsItsOwnLedger == \A r \in register : pay[r.pay].ledger = dcase[r.case].ledger

(* Not kept: a ledger listed, paid out and closed gets its case all the same.  *)
CasesOnOpenLedgers == \A c \in Cases : Live(c) => ledger[dcase[c].ledger].open

-----------------------------------------------------------------------------
(* Statutory register entries, client money statements and incidents:         *)
(* statutory.ts, the entry-number trigger and unique indexes of 0014.         *)
CONSTANTS Sessions, Statements, Refusals,
          MaxEntries   \* bound: entries of the register

\* What the constants are.
RegistersParameters == MaxEntries \in Nat /\ "free" \notin Sessions

VARIABLES row,        \* the register's row exists (committed)
          entries,    \* the committed entry numbers of the register
          advisory,   \* who holds advisory lock (4203, register)
          refused,    \* appends refused by a unique index once the row stood
          statement,  \* [st, sent]: sent counts its outbound messages
          refusal,    \* refused_operation rows: incidents promoted from each
          incident,   \* deficiency_incident.state, of the incident of each refusal
          entering

registersVars == <<row, entries, advisory, refused, statement, refusal, incident, entering>>

NotEntering == [at |-> "idle"]

RegistersInit ==
  /\ row = FALSE /\ entries = {} /\ advisory = "free" /\ refused = 0
  /\ statement = [x \in Statements |-> [st |-> "none", sent |-> 0]]
  /\ refusal = [r \in Refusals |-> 0]
  /\ incident = [r \in Refusals |-> "none"]
  /\ entering = [s \in Sessions |-> NotEntering]

Registers == <<row, entries, advisory, refused, entering>>
Others == <<statement, refusal, incident>>

-----------------------------------------------------------------------------
(* An entry: look for the register's row, take the lock, number, commit. *)

FindRegister(s) ==
  /\ entering[s].at = "idle"
  /\ entering' = [entering EXCEPT ![s] = [at |-> "found", new |-> ~row]]
  /\ UNCHANGED <<row, entries, advisory, refused>> /\ UNCHANGED Others

\* Another's uncommitted row is waited for, and then refuses this one.
Inserting == \E t \in Sessions : entering[t].at \in {"locked", "numbered"} /\ entering[t].new

\* Mutant: entries are numbered without the advisory lock.
NoLock(s) == TRUE

LockIsFree(s) == advisory = "free"

TakeLock(s) ==
  /\ entering[s].at = "found"
  /\ entering[s].new => ~Inserting /\ ~row
  /\ LockIsFree(s)
  /\ advisory' = s
  /\ entering' = [entering EXCEPT ![s] = [at |-> "locked", new |-> @.new]]
  /\ UNCHANGED <<row, entries, refused>> /\ UNCHANGED Others

\* The first entries of a register race for its row; the loser is refused.
RowTaken(s) ==
  /\ entering[s].at = "found" /\ entering[s].new /\ row
  /\ entering' = [entering EXCEPT ![s] = NotEntering]
  /\ UNCHANGED <<row, entries, advisory, refused>> /\ UNCHANGED Others

\* The trigger takes the highest committed number plus one.
NumberEntry(s) ==
  /\ entering[s].at = "locked" /\ Cardinality(entries) < MaxEntries
  /\ entering' = [entering EXCEPT ![s] = [at |-> "numbered", new |-> entering[s].new, no |-> Cardinality(entries) + 1]]
  /\ UNCHANGED <<row, entries, advisory, refused>> /\ UNCHANGED Others

CommitEntry(s) ==
  /\ entering[s].at = "numbered"
  /\ IF entering[s].no \in entries
     THEN refused' = refused + 1 /\ UNCHANGED <<row, entries>>
     ELSE row' = TRUE /\ entries' = entries \cup {entering[s].no} /\ UNCHANGED refused
  /\ advisory' = IF advisory = s THEN "free" ELSE advisory
  /\ entering' = [entering EXCEPT ![s] = NotEntering]
  /\ UNCHANGED Others

\* The request dies or is refused: its row, its entry and its lock go.
AbortEntry(s) ==
  /\ entering[s].at \in {"locked", "numbered"}
  /\ advisory' = IF advisory = s THEN "free" ELSE advisory
  /\ entering' = [entering EXCEPT ![s] = NotEntering]
  /\ UNCHANGED <<row, entries, refused>> /\ UNCHANGED Others

-----------------------------------------------------------------------------
(* Statements and incidents: one locked row each. *)

GenerateClientMoneyStatement(x) ==
  /\ statement[x].st = "none"
  /\ statement' = [statement EXCEPT ![x].st = "generated"]
  /\ UNCHANGED <<refusal, incident>> /\ UNCHANGED Registers

NotYetIssued(x) == statement[x].st = "generated"

IssueClientMoneyStatement(x, channel) ==
  /\ NotYetIssued(x)
  /\ statement' = [statement EXCEPT ![x] = [st |-> channel,
                     sent |-> IF channel = "email" THEN @.sent + 1 ELSE @.sent]]
  /\ UNCHANGED <<refusal, incident>> /\ UNCHANGED Registers

PromoteRefusalToIncident(r) ==
  /\ refusal[r] = 0
  /\ refusal' = [refusal EXCEPT ![r] = @ + 1]
  /\ incident' = [incident EXCEPT ![r] = "open"]
  /\ UNCHANGED statement /\ UNCHANGED Registers

\* Mutant: recording a rectification reopens what was reported.
RectifyAlways(r) ==
  /\ incident[r] # "none"
  /\ incident' = [incident EXCEPT ![r] = "rectified"]
  /\ UNCHANGED <<statement, refusal>> /\ UNCHANGED Registers

\* A reported incident keeps its state: only the rectification is recorded.
RectifyIncident(r) ==
  /\ incident[r] # "none"
  /\ incident' = [incident EXCEPT ![r] = IF @ = "open" THEN "rectified" ELSE @]
  /\ UNCHANGED <<statement, refusal>> /\ UNCHANGED Registers

ReportIncident(r) ==
  /\ incident[r] \in {"open", "rectified"}
  /\ incident' = [incident EXCEPT ![r] = "reported"]
  /\ UNCHANGED <<statement, refusal>> /\ UNCHANGED Registers

RegistersNext ==
  \/ \E s \in Sessions : \/ FindRegister(s) \/ TakeLock(s) \/ RowTaken(s)
                         \/ NumberEntry(s) \/ CommitEntry(s) \/ AbortEntry(s)
  \/ \E x \in Statements : \/ GenerateClientMoneyStatement(x)
                           \/ \E ch \in {"email", "print", "portal"} : IssueClientMoneyStatement(x, ch)
  \/ \E r \in Refusals : PromoteRefusalToIncident(r) \/ RectifyIncident(r) \/ ReportIncident(r)

RegistersSpec == RegistersInit /\ [][RegistersNext]_registersVars

-----------------------------------------------------------------------------
RegistersTypeOK ==
  /\ row \in BOOLEAN /\ entries \subseteq 1..MaxEntries
  /\ advisory \in Sessions \cup {"free"} /\ refused \in Nat
  /\ statement \in [Statements -> [st : {"none", "generated", "email", "print", "portal"}, sent : Nat]]
  /\ refusal \in [Refusals -> Nat]
  /\ incident \in [Refusals -> {"none", "open", "rectified", "reported"}]
  /\ entering \in [Sessions -> [at : {"idle"}] \cup [at : {"found", "locked"}, new : BOOLEAN]
                               \cup [at : {"numbered"}, new : BOOLEAN, no : 1..MaxEntries]]

(* The entries of a register are dense and, once the register has its row, no *)
(* entry is refused for a number another took (statutory.ts: lock 4203).      *)
EntriesNeverCollide ==
  /\ entries = 1..Cardinality(entries)
  /\ refused = 0

(* A statement goes out at most once, by one channel, and a refusal has at     *)
(* most one incident, which nothing moves once it is reported.                 *)
SendsAndReportsOnce ==
  /\ \A x \in Statements : statement[x].st \in {"email", "print", "portal"} =>
                             statement'[x] = statement[x]
  /\ \A r \in Refusals : /\ refusal'[r] <= 1
                         /\ incident[r] = "reported" => incident'[r] = "reported"
SentAndReportedOnce == [][SendsAndReportsOnce]_registersVars

\* Why: who has locked or numbered holds the advisory lock, and numbered from what stands;
\* an incident has its refusal.
AtTheRegister(s) == entering[s].at \in {"locked", "numbered"}
RegistersDiscipline ==
  /\ RegistersTypeOK
  /\ EntriesNeverCollide
  /\ \A s \in Sessions : /\ AtTheRegister(s) => advisory = s
                         /\ entering[s].at = "numbered" => entering[s].no = Cardinality(entries) + 1
  /\ \A r \in Refusals : refusal[r] <= 1 /\ (refusal[r] = 0 => incident[r] = "none")
=============================================================================
