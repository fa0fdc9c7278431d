----------------------------- MODULE Collected ------------------------------
\* Money that clients pay in: through the payment channel, and unallocated until somebody
\* says what it is for. Each part has its own variables and its own next-state relation.
EXTENDS Integers, FiniteSets, FiniteSetsExt, Functions

-----------------------------------------------------------------------------
(***************************************************************************)
(* Payments that arrive by an outside channel.  A client pays against a        *)
(* payment reference - of an issued bill, or of the request raised when the    *)
(* money held for a matter falls below its minimum.  The channel reports the    *)
(* payment started, then settled or failed, as often as it likes.             *)
(*                                                                         *)
(* A session runs one transaction at a time and locks rows as it goes:        *)
(* settling takes the charge, its reference, then the request; cancelling a    *)
(* request takes the request, then its reference.  What a settled bill does   *)
(* to its instalments is in Arrangements.                                    *)
(***************************************************************************)
CONSTANTS
  Requests,          \* the requests the policy may raise
  Bills,             \* the bills with a payment reference
  Charges,           \* the events a channel reports
  Workers,
  Absent,            \* no session, no target, no charge
  Minimum, Wanted,   \* the policy's minimum and target
  Expected           \* what each bill's reference expects

Targets == Requests \cup Bills

VARIABLES
  request,     \* top_up_request: none, pending_confirmation, issued, satisfied, cancelled
  asked,       \* the amount each request asks for
  active,      \* the targets with a live payment_reference
  charge,      \* channel_payment: its target, amount and state
  available,   \* what the matter's client ledgers have available
  policy,      \* arming_version, and the armings that raised their alert
  billPaid,    \* office payments allocated to each bill
  lock, doing

rows == <<request, asked, active, charge, available, policy, billPaid>>
channelVars == <<rows, lock, doing>>

Amounts == 1..Wanted
PolicyRow == <<"policy", Absent>>
Lockables == {PolicyRow} \cup {<<"request", r>> : r \in Requests}
         \cup {<<"reference", t>> : t \in Targets} \cup {<<"charge", c>> : c \in Charges}
NoJob == [step |-> "idle", on |-> Absent, charge |-> Absent, amount |-> 0]
Unused == [target |-> Absent, amount |-> 0, state |-> "none"]
Open == {"pending_confirmation", "issued"}

ChannelParameters ==
  /\ Absent \notin Workers /\ Requests \cap Bills = {}
  /\ Wanted \in Nat /\ Expected \in Nat /\ Minimum \in 0..Wanted

Charge == [target : Targets \cup {Absent}, amount : 0..Wanted,
           state : {"none", "started", "settled", "failed"}]
Doing == [step : {"idle", "evaluate", "confirm", "cancel", "start", "charge", "reference", "request"},
          on : Targets \cup {Absent}, charge : Charges \cup {Absent}, amount : 0..Wanted]

ChannelTypeOK ==
  /\ request \in [Requests -> Open \cup {"none", "satisfied", "cancelled"}]
  /\ asked \in [Requests -> 0..Wanted]
  /\ active \subseteq Targets
  /\ charge \in [Charges -> Charge]
  /\ available \in 0..(2 * Wanted)
  /\ policy \in [arming : Nat, fired : SUBSET Nat]
  /\ billPaid \in [Bills -> 0..Expected]
  /\ lock \in [Lockables -> Workers \cup {Absent}]
  /\ doing \in [Workers -> Doing]

ChannelInit ==
  /\ request = [r \in Requests |-> "none"] /\ asked = [r \in Requests |-> 0]
  /\ active = Bills /\ charge = [c \in Charges |-> Unused]
  /\ available = Minimum /\ policy = [arming |-> 1, fired |-> {}]
  /\ billPaid = [b \in Bills |-> 0]
  /\ lock = [x \in Lockables |-> Absent] /\ doing = [s \in Workers |-> NoJob]

NeverWaits(s, x) == TRUE
Unlocked(s, x) == lock[x] \in {s, Absent}
ReferenceFree(s, t) == Unlocked(s, <<"reference", t>>)
Takes(s, x) == lock' = [lock EXCEPT ![x] = s]
Frees(s) == lock' = [x \in Lockables |-> IF lock[x] = s THEN Absent ELSE lock[x]]
Becomes(s, j) == doing' = [doing EXCEPT ![s] = j]
Commits(s) == Becomes(s, NoJob) /\ Frees(s)

\* A refusal, a lost connection, or the database breaking a deadlock.
Abort(s) == doing[s].step # "idle" /\ Commits(s) /\ UNCHANGED rows

(***************************************************************************)
(* The funds policy: a shortfall raises one request and one alert per arming. *)
(***************************************************************************)
NoneOpen == \A r \in Requests : request[r] \notin Open
Unfired == policy.arming \notin policy.fired

StartEvaluate(s) ==
  /\ doing[s].step = "idle" /\ Unlocked(s, PolicyRow) /\ Takes(s, PolicyRow)
  /\ available < Minimum /\ NoneOpen /\ Unfired
  /\ Becomes(s, [NoJob EXCEPT !.step = "evaluate", !.amount = Wanted - available])
  /\ UNCHANGED rows

EvaluateFundsPolicy(s, r) ==
  /\ doing[s].step = "evaluate" /\ request[r] = "none"
  /\ \E autoIssue \in BOOLEAN :
       /\ request' = [request EXCEPT ![r] = IF autoIssue THEN "issued" ELSE "pending_confirmation"]
       /\ active' = IF autoIssue THEN active \cup {r} ELSE active
  /\ asked' = [asked EXCEPT ![r] = doing[s].amount]
  /\ policy' = [policy EXCEPT !.fired = @ \cup {policy.arming}]
  /\ Commits(s) /\ UNCHANGED <<charge, available, billPaid>>

\* Confirming and cancelling take the request's row first.
TakeRequest(s, step, r, states) ==
  /\ doing[s].step = "idle" /\ Unlocked(s, <<"request", r>>) /\ Takes(s, <<"request", r>>)
  /\ request[r] \in states
  /\ Becomes(s, [NoJob EXCEPT !.step = step, !.on = r]) /\ UNCHANGED rows
StartConfirm(s, r) == TakeRequest(s, "confirm", r, {"pending_confirmation"})
StartCancel(s, r) == TakeRequest(s, "cancel", r, Open)

ConfirmTopUpRequest(s) ==
  LET r == doing[s].on
  IN  /\ doing[s].step = "confirm"
      /\ request' = [request EXCEPT ![r] = "issued"] /\ active' = active \cup {r}
      /\ Commits(s) /\ UNCHANGED <<asked, charge, available, policy, billPaid>>

CancelTopUpRequest(s) ==
  LET r == doing[s].on
  IN  /\ doing[s].step = "cancel" /\ (r \in active => ReferenceFree(s, r))
      /\ request' = [request EXCEPT ![r] = "cancelled"] /\ active' = active \ {r}
      /\ Commits(s) /\ UNCHANGED <<asked, charge, available, policy, billPaid>>

\* Other money moves through the matter's ledgers.
FundsMove == available' \in {0, Minimum} /\ UNCHANGED <<request, asked, active, charge, policy, billPaid, lock, doing>>

(***************************************************************************)
(* The channel's reports.                                                    *)
(***************************************************************************)
StartReport(s, c, t, n) ==
  /\ doing[s].step = "idle" /\ charge[c].state = "none" /\ t \in active
  /\ Becomes(s, [NoJob EXCEPT !.step = "start", !.on = t, !.charge = c, !.amount = n])
  /\ UNCHANGED <<rows, lock>>

\* The new row's foreign key waits for whoever holds the reference.
StartChannelPayment(s) ==
  LET j == doing[s]
  IN  /\ j.step = "start" /\ charge[j.charge].state = "none" /\ Unlocked(s, <<"reference", j.on>>)
      /\ charge' = [charge EXCEPT ![j.charge] = [target |-> j.on, amount |-> j.amount, state |-> "started"]]
      /\ Commits(s) /\ UNCHANGED <<request, asked, active, available, policy, billPaid>>

FailChannelPayment(c) ==
  /\ lock[<<"charge", c>>] = Absent /\ charge[c].state = "started"
  /\ charge' = [charge EXCEPT ![c].state = "failed"]
  /\ UNCHANGED <<request, asked, active, available, policy, billPaid, lock, doing>>

StartSettle(s, c) ==
  /\ doing[s].step = "idle" /\ Unlocked(s, <<"charge", c>>) /\ Takes(s, <<"charge", c>>)
  /\ charge[c].state = "started"
  /\ Becomes(s, [NoJob EXCEPT !.step = "charge", !.charge = c, !.on = charge[c].target, !.amount = charge[c].amount])
  /\ UNCHANGED rows

LockReference(s) ==
  LET t == doing[s].on
  IN  /\ doing[s].step = "charge" /\ ReferenceFree(s, t) /\ t \in active
      /\ Takes(s, <<"reference", t>>)
      /\ Becomes(s, [doing[s] EXCEPT !.step = "reference"]) /\ UNCHANGED rows

Settled(c) == charge' = [charge EXCEPT ![c].state = "settled"]

\* The bill's share of the payment; its reference ends when its expectation is met.
SettleBill(s) ==
  LET j == doing[s]
      left == Expected - billPaid[j.on]
  IN  /\ j.step = "reference" /\ j.on \in Bills
      /\ billPaid' = [billPaid EXCEPT ![j.on] = @ + Min({j.amount, left})]
      /\ active' = IF j.amount >= Expected THEN active \ {j.on} ELSE active
      /\ Settled(j.charge) /\ Commits(s) /\ UNCHANGED <<request, asked, available, policy>>

LockRequest(s) ==
  LET r == doing[s].on
  IN  /\ doing[s].step = "reference" /\ r \in Requests /\ Unlocked(s, <<"request", r>>)
      /\ Takes(s, <<"request", r>>)
      /\ Becomes(s, [doing[s] EXCEPT !.step = "request"]) /\ UNCHANGED rows

\* The money is receipted, the request satisfied whatever the amount, and the
\* policy armed again if the minimum is reached.
SatisfyTopUp(s) ==
  LET j == doing[s]
      recovered == available + j.amount >= Minimum
  IN  /\ j.step = "request" /\ request[j.on] = "issued"
      /\ available + j.amount <= 2 * Wanted
      /\ recovered => Unlocked(s, PolicyRow)
      /\ request' = [request EXCEPT ![j.on] = "satisfied"] /\ active' = active \ {j.on}
      /\ available' = available + j.amount
      /\ policy' = IF recovered THEN [policy EXCEPT !.arming = @ + 1] ELSE policy
      /\ Settled(j.charge) /\ Commits(s) /\ UNCHANGED <<asked, billPaid>>

ChannelNext ==
  \/ \E s \in Workers :
       \/ StartEvaluate(s)
       \/ \E r \in Requests : EvaluateFundsPolicy(s, r) \/ StartConfirm(s, r) \/ StartCancel(s, r)
       \/ ConfirmTopUpRequest(s) \/ CancelTopUpRequest(s)
       \/ \E c \in Charges, t \in Targets, n \in Amounts : StartReport(s, c, t, n)
       \/ \E c \in Charges : StartSettle(s, c)
       \/ StartChannelPayment(s) \/ LockReference(s) \/ SettleBill(s) \/ LockRequest(s) \/ SatisfyTopUp(s)
       \/ Abort(s)
  \/ \E c \in Charges : FailChannelPayment(c)
  \/ FundsMove

ChannelSpec == ChannelInit /\ [][ChannelNext]_channelVars

(***************************************************************************)
(* Properties.                                                               *)
(***************************************************************************)
\* What a reference asks for is paid in full by a charge.
PaysFor(c, t) == /\ charge[c].target = t /\ charge[c].state = "settled"
                 /\ (t \in Bills => charge[c].amount >= Expected)

\* However often and however many at a time a client pays what a reference asks
\* for, it is settled once: the second payment is refused (channel.ts:296-305).
SettledOnce ==
  \A t \in Targets :
    Cardinality({c \in Charges : PaysFor(c, t)}) <= 1

\* The inductive invariant: what a session is about to write on is locked and as it read it;
\* a reference ends with what it asked for; the policy has one request open.
Holding(s, x) == lock[x] = s
SettlingSteps == {"charge", "reference", "request"}
SessionHolds(s) ==
  LET j == doing[s]
  IN  /\ j.step = "evaluate" => Holding(s, PolicyRow) /\ NoneOpen /\ Unfired
      /\ j.step \in {"confirm", "cancel"} =>
           /\ j.on \in Requests /\ Holding(s, <<"request", j.on>>)
           /\ request[j.on] \in (IF j.step = "confirm" THEN {"pending_confirmation"} ELSE Open)
      /\ j.step = "start" => j.on \in Targets /\ j.charge \in Charges
      /\ j.step \in SettlingSteps =>
           /\ j.charge \in Charges /\ Holding(s, <<"charge", j.charge>>)
           /\ charge[j.charge] = [target |-> j.on, amount |-> j.amount, state |-> "started"]
           /\ j.on \in Targets
      /\ j.step \in SettlingSteps \ {"charge"} => j.on \in active /\ Holding(s, <<"reference", j.on>>)
      /\ j.step = "request" => j.on \in Requests /\ Holding(s, <<"request", j.on>>)

Spent(t) == IF t \in Requests THEN request[t] = "satisfied" ELSE t \notin active
OneRequestOpen == \A q, r \in Requests : request[q] \in Open /\ request[r] \in Open => q = r

ChannelDiscipline ==
  /\ ChannelTypeOK
  /\ \A s \in Workers : SessionHolds(s)
  /\ \A c \in Charges : charge[c].state # "none" => charge[c].target \in Targets
  /\ \A c \in Charges, t \in Targets : PaysFor(c, t) => Spent(t)
  /\ \A c, d \in Charges, t \in Targets : PaysFor(c, t) /\ PaysFor(d, t) => c = d
  /\ \A r \in Requests : request[r] = "issued" => r \in active
  /\ OneRequestOpen

\* Not kept: two transactions never wait for each other's rows: cancelling a
\* request and settling its payment take the request and the reference in opposite
\* orders.
NoDeadlock ==
  ~\E s, u \in Workers, r \in Requests :
     /\ s # u /\ doing[s].step = "cancel" /\ doing[s].on = r
     /\ doing[u].step = "reference" /\ doing[u].on = r

\* Not kept: a policy whose money has come back is armed (topups.ts:8-9): only a
\* settled request arms it, so one cancelled or paid in part ends the policy for
\* good.
ArmedWhenRecovered == available >= Minimum /\ NoneOpen => Unfired

-----------------------------------------------------------------------------
(***************************************************************************)
(* What becomes of an office payment that no bill has taken.  Staff allocate  *)
(* it over a statement's bills or correct it with a mirror; the routing job,   *)
(* where the country pack asks for it, receipts it to the payer's one open     *)
(* client ledger and mirrors it on the office side in the same transaction.   *)
(*                                                                         *)
(* The job lists its candidates and looks for each one's ledger in            *)
(* transactions of their own; a payment is then taken under its advisory       *)
(* lock.  Journal entries of one bill and one payment are summed.             *)
(***************************************************************************)
CONSTANTS
  OfficePayments, OpenBills, NoOne,
  PaymentWorth,   \* each payment's amount
  Total    \* what each bill was issued for

VARIABLES
  taken,       \* payment by bill: the allocation that stands
  touched,     \* the payments with an entry on any bill, standing or reversed
  mirrored,    \* the payments with a correcting mirror
  receipted,   \* the client-money receipts posted from each payment
  open,        \* whether the payer's client ledger is open
  disputed,    \* the bills with an open dispute
  held,        \* who holds each payment's advisory lock and each bill's row
  desk

moneyRows == <<taken, touched, mirrored, receipted, open, disputed>>
unallocatedVars == <<moneyRows, held, desk>>

AtRest == [step |-> "idle", todo |-> {}, payment |-> {}, splits |-> [b \in OpenBills |-> 0]]

UnallocatedParameters == IsFiniteSet(OpenBills) /\ IsFiniteSet(OfficePayments)
                         /\ PaymentWorth \in Nat /\ Total \in Nat

Desk == [step : {"idle", "statement", "allocate", "list", "home", "route"},
         todo : SUBSET OfficePayments, payment : SUBSET OfficePayments, splits : [OpenBills -> Nat]]

UnallocatedTypeOK ==
  /\ taken \in [OfficePayments -> [OpenBills -> Nat]]
  /\ touched \subseteq OfficePayments /\ mirrored \subseteq OfficePayments
  /\ receipted \in [OfficePayments -> Nat]
  /\ open \in BOOLEAN /\ disputed \subseteq OpenBills
  /\ held \in [OfficePayments \cup OpenBills -> Workers \cup {NoOne}]
  /\ desk \in [Workers -> Desk]

UnallocatedInit ==
  /\ taken = [p \in OfficePayments |-> [b \in OpenBills |-> 0]]
  /\ touched = {} /\ mirrored = {} /\ receipted = [p \in OfficePayments |-> 0]
  /\ open = TRUE /\ disputed = {}
  /\ held = [x \in OfficePayments \cup OpenBills |-> NoOne] /\ desk = [s \in Workers |-> AtRest]

Outstanding(b) == Total - SumFunctionOnSet([p \in OfficePayments |-> taken[p][b]], OfficePayments)
Remainder(p) == PaymentWorth - SumFunctionOnSet(taken[p], OpenBills)

WaitsForNobody(s, xs) == TRUE
IsFree(s, xs) == \A x \in xs : held[x] \in {s, NoOne}
Locks(s, xs) == held' = [x \in DOMAIN held |-> IF x \in xs THEN s ELSE held[x]]
LetsGo(s) == held' = [x \in DOMAIN held |-> IF held[x] = s THEN NoOne ELSE held[x]]
Turns(s, j) == desk' = [desk EXCEPT ![s] = j]
Refused(s) == desk[s].step # "idle" /\ Turns(s, AtRest) /\ LetsGo(s) /\ UNCHANGED moneyRows

(***************************************************************************)
(* One-action allocation over a statement: the splits are worked out first,   *)
(* skipping disputed bills, and checked again under the locks.               *)
(***************************************************************************)
\* What each bill of the order gets of n, the earlier ones first.
SplitOver(order, n) ==
  LET owing == [b \in OpenBills |-> IF b \in disputed THEN 0 ELSE Outstanding(b)]
      before(b) == SumFunctionOnSet(owing, {c \in OpenBills : order[c] < order[b]})
  IN  [b \in OpenBills |-> Max({0, Min({owing[b], n - before(b)})})]

StartStatement(s, p, order) ==
  LET splits == SplitOver(order, Remainder(p))
  IN  /\ desk[s].step = "idle" /\ \E b \in OpenBills : splits[b] > 0
      /\ Turns(s, [AtRest EXCEPT !.step = "statement", !.payment = {p}, !.splits = splits])
      /\ UNCHANGED <<moneyRows, held>>

LockPayment(s, from, to, p) ==
  /\ desk[s].step = from /\ desk[s].payment = {p} /\ IsFree(s, {p}) /\ Locks(s, {p})
  /\ Turns(s, [desk[s] EXCEPT !.step = to]) /\ UNCHANGED moneyRows

AllocateInTx(s, p) ==
  LET j == desk[s]
      bs == {b \in OpenBills : j.splits[b] > 0}
  IN  /\ j.step = "allocate" /\ j.payment = {p} /\ p \notin mirrored
      /\ SumFunctionOnSet(j.splits, OpenBills) <= Remainder(p)
      /\ IsFree(s, bs) /\ \A b \in bs : j.splits[b] <= Outstanding(b)
      /\ taken' = [taken EXCEPT ![p] = [b \in OpenBills |-> @[b] + j.splits[b]]]
      /\ touched' = touched \cup {p}
      /\ Turns(s, AtRest) /\ LetsGo(s)
      /\ UNCHANGED <<mirrored, receipted, open, disputed>>

\* The correcting mirror takes back what stands first.
CorrectPayment(p) ==
  /\ held[p] = NoOne /\ p \notin mirrored
  /\ \A b \in OpenBills : taken[p][b] > 0 => held[b] = NoOne
  /\ taken' = [taken EXCEPT ![p] = [b \in OpenBills |-> 0]]
  /\ mirrored' = mirrored \cup {p}
  /\ UNCHANGED <<touched, receipted, open, disputed, held, desk>>

(***************************************************************************)
(* The routing job.                                                          *)
(***************************************************************************)
Fresh(p) == p \notin touched /\ p \notin mirrored
Listed(p) == TRUE

RouteUnallocatedRemainders(s) ==
  /\ desk[s].step = "idle" /\ \E p \in OfficePayments : Fresh(p)
  /\ Turns(s, [AtRest EXCEPT !.step = "list", !.todo = {p \in OfficePayments : Fresh(p)}])
  /\ UNCHANGED <<moneyRows, held>>

\* No single open ledger: skipped with the reason.
ResolveHome(s, p) ==
  /\ desk[s].step = "list" /\ p \in desk[s].todo
  /\ Turns(s, IF open THEN [desk[s] EXCEPT !.step = "home", !.payment = {p}, !.todo = @ \ {p}]
                ELSE [desk[s] EXCEPT !.todo = @ \ {p}])
  /\ UNCHANGED <<moneyRows, held>>

StillFresh(p) == Fresh(p)
LedgerTakes == open

RouteOneInTx(s, p) ==
  /\ desk[s].step = "route" /\ desk[s].payment = {p}
  /\ IF StillFresh(p) /\ LedgerTakes
       THEN receipted' = [receipted EXCEPT ![p] = @ + 1] /\ mirrored' = mirrored \cup {p}
       ELSE UNCHANGED <<receipted, mirrored>>
  /\ Turns(s, [desk[s] EXCEPT !.step = "list", !.payment = {}]) /\ LetsGo(s)
  /\ UNCHANGED <<taken, touched, open, disputed>>

RunEnds(s) == desk[s].step = "list" /\ desk[s].todo = {} /\ Turns(s, AtRest) /\ UNCHANGED <<moneyRows, held>>

SetLedger == open' = ~open /\ UNCHANGED <<taken, touched, mirrored, receipted, disputed, held, desk>>
Dispute(b) ==
  /\ held[b] = NoOne
  /\ disputed' = IF b \in disputed THEN disputed \ {b} ELSE disputed \cup {b}
  /\ UNCHANGED <<taken, touched, mirrored, receipted, open, held, desk>>

Orders == {f \in [OpenBills -> 1..Cardinality(OpenBills)] : IsInjective(f)}

UnallocatedNext ==
  \/ \E s \in Workers :
       \/ \E p \in OfficePayments :
            \/ \E order \in Orders : StartStatement(s, p, order)
            \/ LockPayment(s, "statement", "allocate", p) \/ AllocateInTx(s, p)
            \/ ResolveHome(s, p) \/ LockPayment(s, "home", "route", p) \/ RouteOneInTx(s, p)
       \/ RouteUnallocatedRemainders(s) \/ RunEnds(s) \/ Refused(s)
  \/ \E p \in OfficePayments : CorrectPayment(p)
  \/ \E b \in OpenBills : Dispute(b)
  \/ SetLedger

UnallocatedSpec == UnallocatedInit /\ [][UnallocatedNext]_unallocatedVars

(***************************************************************************)
(* Properties.                                                               *)
(***************************************************************************)
\* The money of one payment is in one place: on bills, or once in client money,
\* never both, whichever of staff and the job's runs comes first.
InOnePlace ==
  \A p \in OfficePayments :
    receipted[p] > 0 => receipted[p] = 1 /\ p \in mirrored /\ Remainder(p) = PaymentWorth

\* The inductive invariant: a payment with no entry is on no bill, a mirrored one on none any
\* more, and only a mirrored one has been receipted, once; no payment and no bill is overdrawn.
UnallocatedDiscipline ==
  /\ UnallocatedTypeOK
  /\ \A p \in OfficePayments :
       /\ p \notin touched \/ p \in mirrored => \A b \in OpenBills : taken[p][b] = 0
       /\ receipted[p] > 0 => receipted[p] = 1 /\ p \in mirrored
       /\ Remainder(p) >= 0
  /\ \A b \in OpenBills : Outstanding(b) >= 0

\* Not kept: a statement's allocation passes disputed bills by (statements.ts:6-9):
\* the dispute is looked up before the bill is locked, so one raised meanwhile is
\* paid.
DisputedPassedBy ==
  [][\A b \in disputed : \A p \in OfficePayments : taken'[p][b] <= taken[p][b]]_taken
=============================================================================
