----------------------------- MODULE HeldFunds ------------------------------
\* Paying bills from held money: one item from its run to its receipt, and the sweeps that
\* find what to pay. Each part has its own variables and its own next-state relation.
EXTENDS FiniteSets, FiniteSetsExt, Functions, Integers

-----------------------------------------------------------------------------
(***************************************************************************)
(* Applying held client money to bills: one application run, its items, one  *)
(* firm-transfer payment per item, and the doors that act on them: the run   *)
(* itself, the authorisation queue, the bridge, the self-heal, and the       *)
(* payments screen, which knows the payment but not the item.                *)
(*                                                                         *)
(* One action per committed transaction.  The bridge and the plain execution *)
(* hold the ledger and bill rows from their checks to their commit, so each  *)
(* is one action; what they read before it may have changed (PaymentDocument *)
(* has their statements, and the approvals, refusals and entitlements).      *)
(***************************************************************************)
CONSTANTS
  Items,          \* entitlements with a bill to pay, in order of id
  Sessions,
  Amount,         \* what each item transfers
  MaxHeld,        \* bound: funds on the ledger
  MaxDue,         \* bound: outstanding on the bill
  SelfHealable,   \* transferred by another door before payments were routed here
  Crashes         \* whether a process may stop between two transactions

\* What the constants are.
ItemAssumption == Items \subseteq Nat \ {0} /\ SelfHealable \subseteq Items
AmountAssumption == Amount \in [Items -> Nat \ {0}]
BoundAssumption == MaxHeld \in Nat /\ MaxDue \in Nat /\ Crashes \in BOOLEAN
ItemParameters == ItemAssumption /\ AmountAssumption /\ BoundAssumption

VARIABLES
  run,        \* the application run's state
  item,       \* each funds_application row's state
  pay,        \* the state of the item's money_payment
  funds,      \* what the ledger holds
  due,        \* what is outstanding on the bill
  moved,      \* withdrawals posted for the item's payment
  receipts,   \* receivable payments written, and allocated, for the item
  job         \* where each session is between its transactions

rows == <<run, item, pay, funds, due, moved, receipts>>
itemVars == <<rows, job>>

Open == {"previewed", "awaiting_authorisation"}
FinalRun == {"completed", "completed_with_refusals"}
FinalPay == {"executed", "rejected", "cancelled"}

NoJob == [step |-> "idle", items |-> {}]
Steps == {"idle", "drafting", "refusing", "bridge", "blocking", "heal", "plain",
          "plain_blocking", "recompute"}

ItemTypeOK ==
  /\ run \in {"none", "previewed", "committing", "abandoned"} \cup FinalRun
  /\ item \in [Items -> Open \cup {"none", "completed", "refused"}]
  /\ pay \in [Items -> {"none", "pending_authorisation", "authorised", "blocked"} \cup FinalPay]
  /\ funds \in Nat /\ due \in Nat
  /\ moved \in [Items -> Nat] /\ receipts \in [Items -> Nat]
  /\ job \in [Sessions -> [step : Steps, items : SUBSET Items]]

InitAfter(old) ==
  /\ run = IF old = {} THEN "none" ELSE "committing"
  /\ item = [i \in Items |-> IF i \in old THEN "awaiting_authorisation" ELSE "none"]
  /\ pay = [i \in Items |-> IF i \in old THEN "executed" ELSE "none"]
  /\ moved = [i \in Items |-> IF i \in old THEN 1 ELSE 0]
  /\ receipts = [i \in Items |-> 0]
  /\ funds \in 0..MaxHeld /\ due \in 0..MaxDue
  /\ job = [s \in Sessions |-> NoJob]

\* No run yet, or one whose items an older release transferred without completing.
ItemInit == InitAfter({}) \/ InitAfter(SelfHealable)

\* The session moves on to `step', about `is'; Ends is the end of its request.
Goes(s, step, is) == job' = [job EXCEPT ![s] = [step |-> step, items |-> is]]
Ends(s) == job' = [job EXCEPT ![s] = NoJob]
At(s, step) == job[s].step = step
ItemOf(s) == CHOOSE i \in job[s].items : TRUE
Starts(s) == At(s, "idle")

Candidate(i) == Amount[i] <= funds /\ Amount[i] <= due

Preview ==
  /\ run = "none"
  /\ run' = "previewed"
  /\ item' = [i \in Items |-> IF Candidate(i) THEN "previewed" ELSE "none"]
  /\ UNCHANGED <<pay, funds, due, moved, receipts, job>>

Abandon ==
  /\ run = "previewed" /\ run' = "abandoned"
  /\ UNCHANGED <<item, pay, funds, due, moved, receipts, job>>

CommitRun(s) ==
  /\ Starts(s) /\ run = "previewed"
  /\ run' = "committing"
  /\ Goes(s, "drafting", {i \in Items : item[i] = "previewed"})
  /\ UNCHANGED <<item, pay, funds, due, moved, receipts>>

\* The next item, verified again without locks: its payment drafted and submitted.
DraftItem(s) ==
  LET i == Min(job[s].items)
  IN  /\ At(s, "drafting") /\ job[s].items # {}
      /\ IF Candidate(i)
         THEN /\ item' = [item EXCEPT ![i] = "awaiting_authorisation"]
              /\ pay' = [pay EXCEPT ![i] = "pending_authorisation"]
              /\ Goes(s, "drafting", job[s].items \ {i})
         ELSE Goes(s, "refusing", job[s].items) /\ UNCHANGED <<item, pay>>
      /\ UNCHANGED <<run, funds, due, moved, receipts>>

RefuseItem(s) ==
  LET i == Min(job[s].items)
  IN  /\ At(s, "refusing")
      /\ item' = [item EXCEPT ![i] = "refused"]
      /\ Goes(s, "drafting", job[s].items \ {i})
      /\ UNCHANGED <<run, pay, funds, due, moved, receipts>>

AllDrafted(s) ==
  /\ At(s, "drafting") /\ job[s].items = {}
  /\ Goes(s, "recompute", {})
  /\ UNCHANGED rows

AnyOpen == \E i \in Items : item[i] \in Open

RecomputeRun(s) ==
  /\ At(s, "recompute")
  /\ run' = IF run # "committing" \/ AnyOpen THEN run
            ELSE IF \E i \in Items : item[i] = "refused" THEN "completed_with_refusals"
            ELSE "completed"
  /\ Ends(s)
  /\ UNCHANGED <<item, pay, funds, due, moved, receipts>>

(***************************************************************************)
(* The authorisation queue.  The last approval goes on to the bridge.        *)
(***************************************************************************)
Approve(s, i) ==
  /\ Starts(s) /\ item[i] = "awaiting_authorisation" /\ pay[i] = "pending_authorisation"
  /\ pay' = [pay EXCEPT ![i] = "authorised"]
  /\ Goes(s, "bridge", {i})
  /\ UNCHANGED <<run, item, funds, due, moved, receipts>>

Rejects(s, i) ==
  /\ Starts(s) /\ item[i] = "awaiting_authorisation" /\ pay[i] = "pending_authorisation"
  /\ pay' = [pay EXCEPT ![i] = "rejected"]
  /\ item' = [item EXCEPT ![i] = "refused"]
  /\ UNCHANGED <<run, funds, due, moved, receipts>>

RejectAlone(s, i) == Rejects(s, i) /\ Ends(s)
RejectItem(s, i) == Rejects(s, i) /\ Goes(s, "recompute", {})

(***************************************************************************)
(* The bridge: both worlds in one transaction, or a refusal that blocks the  *)
(* payment and refuses the item in another.                                  *)
(***************************************************************************)
LoadBridge(s, i) ==
  /\ Starts(s) /\ item[i] = "awaiting_authorisation" /\ pay[i] = "authorised"
  /\ Goes(s, "bridge", {i})
  /\ UNCHANGED rows

PaysBill(i) ==
  /\ receipts' = [receipts EXCEPT ![i] = @ + 1]
  /\ due' = due - Amount[i]
  /\ item' = [item EXCEPT ![i] = "completed"]

MovesMoney(i) ==
  /\ funds' = funds - Amount[i]
  /\ moved' = [moved EXCEPT ![i] = @ + 1]
  /\ pay' = [pay EXCEPT ![i] = "executed"]

\* money_payment_guard: what may become executed, and blocked.
NoTransitionCheck(i) == TRUE
MayExecute(i) == pay[i] = "authorised"
MayBlock(i) == pay[i] \in {"authorised", "blocked"}

Bridge(s) ==
  LET i == ItemOf(s)
  IN  /\ At(s, "bridge")
      /\ \/ /\ Candidate(i) /\ MayExecute(i)
            /\ MovesMoney(i) /\ PaysBill(i)
            /\ Goes(s, "recompute", {})
         \/ /\ ~Candidate(i)
            /\ Goes(s, "blocking", {i})
            /\ UNCHANGED <<item, pay, funds, due, moved, receipts>>
         \/ /\ Candidate(i) /\ ~MayExecute(i)     \* overtaken: an error, not a refusal
            /\ Ends(s)
            /\ UNCHANGED <<item, pay, funds, due, moved, receipts>>
      /\ UNCHANGED run

BlockItem(s) ==
  LET i == ItemOf(s)
  IN  /\ At(s, "blocking")
      /\ IF MayBlock(i)
         THEN /\ pay' = [pay EXCEPT ![i] = "blocked"]
              /\ item' = [item EXCEPT ![i] = "refused"]
              /\ Goes(s, "recompute", {})
         ELSE Ends(s) /\ UNCHANGED <<item, pay>>
      /\ UNCHANGED <<run, funds, due, moved, receipts>>

(***************************************************************************)
(* The self-heal of an item whose payment executed without it: the item is   *)
(* read, and checked, in an earlier transaction than the one that completes. *)
(***************************************************************************)
LoadHealAny(s, i) ==
  /\ Starts(s) /\ pay[i] = "executed"
  /\ Goes(s, "heal", {i})
  /\ UNCHANGED rows

LoadHeal(s, i) ==
  /\ Starts(s) /\ item[i] = "awaiting_authorisation" /\ pay[i] = "executed"
  /\ Goes(s, "heal", {i})
  /\ UNCHANGED rows

Heal(s) ==
  LET i == ItemOf(s)
  IN  /\ At(s, "heal")
      /\ IF Amount[i] <= due THEN PaysBill(i) /\ Goes(s, "recompute", {})
                             ELSE Ends(s) /\ UNCHANGED <<item, due, receipts>>
      /\ UNCHANGED <<run, pay, funds, moved>>

(***************************************************************************)
(* The payments screen, on the same payments.                                *)
(***************************************************************************)
ScreenMoves(i, from, to) ==
  /\ pay[i] \in from
  /\ pay' = [pay EXCEPT ![i] = to]
  /\ UNCHANGED <<run, item, funds, due, moved, receipts, job>>

ScreenAuthorise(i) == ScreenMoves(i, {"pending_authorisation"}, "authorised")
ScreenReject(i) == ScreenMoves(i, {"pending_authorisation"}, "rejected")
ScreenCancel(i) == ScreenMoves(i, {"pending_authorisation", "blocked"}, "cancelled")
ScreenResubmit(i) == ScreenMoves(i, {"blocked"}, "authorised")

\* The plain door turns away a payment whose item awaits it.
PlainDoor(i) == item[i] # "awaiting_authorisation"

LoadPlain(s, i) ==
  /\ Starts(s) /\ pay[i] = "authorised" /\ PlainDoor(i)
  /\ Goes(s, "plain", {i})
  /\ UNCHANGED rows

Plain(s) ==
  LET i == ItemOf(s)
  IN  /\ At(s, "plain")
      /\ \/ /\ Amount[i] <= funds /\ MayExecute(i)
            /\ MovesMoney(i) /\ Ends(s)
         \/ /\ Amount[i] > funds
            /\ Goes(s, "plain_blocking", {i}) /\ UNCHANGED <<pay, funds, moved>>
         \/ /\ Amount[i] <= funds /\ ~MayExecute(i)
            /\ Ends(s) /\ UNCHANGED <<pay, funds, moved>>
      /\ UNCHANGED <<run, item, due, receipts>>

PlainBlock(s) ==
  LET i == ItemOf(s)
  IN  /\ At(s, "plain_blocking")
      /\ pay' = [pay EXCEPT ![i] = IF @ = "authorised" THEN "blocked" ELSE @]
      /\ Ends(s)
      /\ UNCHANGED <<run, item, funds, due, moved, receipts>>

(***************************************************************************)
(* Everybody else: receipts and payments on the ledger, entries on the bill. *)
(***************************************************************************)
OtherPosting(x) ==
  /\ funds' = x
  /\ UNCHANGED <<run, item, pay, due, moved, receipts, job>>

OtherEntry(x) ==
  /\ due' = x
  /\ UNCHANGED <<run, item, pay, funds, moved, receipts, job>>

Crash(s) ==
  /\ Crashes /\ ~Starts(s)
  /\ Ends(s)
  /\ UNCHANGED rows

\* A request, once begun, going on to its next transaction.
Continues(s) ==
  \/ DraftItem(s) \/ RefuseItem(s) \/ AllDrafted(s) \/ RecomputeRun(s)
  \/ Bridge(s) \/ BlockItem(s) \/ Heal(s) \/ Plain(s) \/ PlainBlock(s)

ItemNext ==
  \/ Preview \/ Abandon
  \/ \E s \in Sessions : CommitRun(s) \/ Continues(s) \/ Crash(s)
  \/ \E s \in Sessions, i \in Items :
       Approve(s, i) \/ RejectItem(s, i) \/ LoadBridge(s, i) \/ LoadHeal(s, i) \/ LoadPlain(s, i)
  \/ \E i \in Items :
       ScreenAuthorise(i) \/ ScreenReject(i) \/ ScreenCancel(i) \/ ScreenResubmit(i)
  \/ \E x \in 0..MaxHeld : OtherPosting(x)
  \/ \E x \in 0..MaxDue : OtherEntry(x)

ItemSpec == ItemInit /\ [][ItemNext]_itemVars

\* A server goes on with a request it has begun; nobody has to begin one.
ItemFairSpec == ItemSpec /\ \A s \in Sessions : WF_itemVars(Continues(s))

(***************************************************************************)
(* Properties.                                                              *)
(***************************************************************************)

\* Money leaves once per payment, exactly when it says executed; no bill is paid by
\* a transfer that did not move, and a completed item did both (executeBridge), but for
\* what an older release moved and is healed.
OneTransferOneReceipt ==
  \A i \in Items :
    /\ moved[i] = (IF pay[i] = "executed" THEN 1 ELSE 0)
    /\ i \notin SelfHealable => /\ receipts[i] <= moved[i]
                                /\ item[i] = "completed" => receipts[i] = 1

\* A run that finished left nothing open, whichever request counted its items last,
\* and what an item came to is never revised afterwards (recomputeRunState).
FinishedRunsStaySettled ==
  /\ run \in FinalRun => ~AnyOpen
  /\ run = "completed" => \A i \in Items : item[i] # "refused"

Settled == run = "committing" /\ ~AnyOpen
Finished == run \in FinalRun

\* Requests that finish the last item together still finish the run: the later of
\* them counts after both committed.  Assumes no process stops in between.
SettledRunsFinish == Settled ~> Finished

\* "This door would move the money and leave the bill unpaid" (payments.ts): no
\* door moves an item's money alone.
NoMoneyWithoutBill == \A i \in Items : moved[i] <= receipts[i]

\* An item whose payment is over is over too: rejected and cancelled payments do not
\* leave an item awaiting an authorisation nobody can give.
NoDeadWait ==
  \A i \in Items : item[i] = "awaiting_authorisation" => pay[i] \notin {"rejected", "cancelled"}

\* The self-heal completes an item once: one transfer pays its bill once.
HealedOnce == \A i \in Items : receipts[i] <= 1

(***************************************************************************)
(* Why: what a payment says of its item, and what a session that has read   *)
(* either may still count on.                                               *)
(***************************************************************************)

\* Nobody pays an item before it is drafted, and what may still be executed belongs to an
\* item that waits for it or was refused; one that waits has not moved its money.
PaymentFollowsItem(i) ==
  /\ item[i] \in {"none", "previewed"} => pay[i] = "none"
  /\ pay[i] \in {"pending_authorisation", "authorised", "blocked"} =>
       item[i] \in {"awaiting_authorisation", "refused"}
  /\ item[i] = "awaiting_authorisation" /\ pay[i] = "executed" => i \in SelfHealable

\* One session drafts the run, from items nobody has touched; the others have one item
\* each, healed only if an older release moved it, and never one that awaits its bridge
\* when it came by the plain door.
Drafts(s) == job[s].step \in {"drafting", "refusing"}
AboutOne == {"bridge", "blocking", "heal", "plain", "plain_blocking"}
HoldsItems(s) ==
  /\ Drafts(s) => /\ run \notin {"none", "previewed"}
                  /\ \A i \in job[s].items : item[i] = "previewed"
                  /\ \A q \in Sessions : Drafts(q) => q = s
  /\ At(s, "refusing") => job[s].items # {}
  /\ job[s].step \in AboutOne => \E i \in Items : job[s].items = {i}
  /\ At(s, "heal") => \A i \in job[s].items : i \in SelfHealable /\ pay[i] = "executed"
  /\ job[s].step \in {"plain", "plain_blocking"} =>
       \A i \in job[s].items : item[i] \in {"refused", "completed"}

ItemDiscipline ==
  /\ ItemTypeOK
  /\ \A i \in Items : PaymentFollowsItem(i)
  /\ \A s \in Sessions : HoldsItems(s)
  /\ run = "none" => \A i \in Items : item[i] = "none"
  /\ OneTransferOneReceipt
  /\ FinishedRunsStaySettled

-----------------------------------------------------------------------------
(***************************************************************************)
(* Paying bills from held money without naming the entitlements            *)
(* (lib/ops/billing: runHeldFunds): a sweep reads which bills of a matter  *)
(* can be paid, records a claim for each, and previews a run over the      *)
(* whole matter; the run is committed by the sweep itself (the bill's and  *)
(* the billing run's doors) or later (the firm-wide door).  Every claim is *)
(* a transaction of its own.  HeldFunds has what becomes of one item       *)
(* between its doors; here committing is one step, and so is deciding.     *)
(***************************************************************************)
CONSTANTS
    Bills,       \* bills of one matter
    Worth,       \* what each bill is issued for
    Held,        \* what the client ledger holds at first
    MaxClaims,   \* bound: entitlements recorded
    MaxRuns      \* bound: runs previewed

\* What the constants are.
SweepParameters == Worth \in Nat /\ Held \in Nat /\ MaxClaims \in Nat /\ MaxRuns \in Nat

VARIABLES
    outstanding,   \* bill_outstanding
    available,     \* ledger_available
    claims,        \* entitlement rows
    items,         \* funds_application rows: run, claim, amount, state
    runs,          \* application_run states
    entrance       \* the door each sweep came by, and what it found to claim

sweepVars == <<outstanding, available, claims, items, runs, entrance>>

Idle == [step |-> "idle", direct |-> FALSE, todo |-> {}]
Claims == [id : 1..MaxClaims, bill : Bills, amount : 1..Held]
States == {"previewed", "awaiting", "completed", "refused"}
ItemRows == [run : 1..MaxRuns, claim : Claims, amount : 1..Held, state : States]
Entrances == [step : {"idle", "claiming"}, direct : BOOLEAN, todo : SUBSET [bill : Bills, amount : 1..Held]]

SweepTypeOK ==
    /\ outstanding \in [Bills -> 0..Worth] /\ available \in 0..Held
    /\ claims \subseteq Claims /\ IsFiniteSet(claims)
    /\ items \subseteq ItemRows /\ IsFiniteSet(items)
    /\ runs \in [1..MaxRuns -> {"none", "previewed", "committed"}]
    /\ entrance \in [Sessions -> Entrances]

SweepInit ==
    /\ outstanding = [b \in Bills |-> Worth] /\ available = Held /\ claims = {} /\ items = {}
    /\ runs = [r \in 1..MaxRuns |-> "none"] /\ entrance = [s \in Sessions |-> Idle]

\* Everybody else: money comes onto the ledger and leaves it, clients pay.
LedgerMoves(x) == available' = x /\ UNCHANGED <<outstanding, claims, items, runs, entrance>>
ClientPays(b) ==
    /\ outstanding[b] > 0 /\ outstanding' = [outstanding EXCEPT ![b] = @ - 1]
    /\ UNCHANGED <<available, claims, items, runs, entrance>>

-----------------------------------------------------------------------------
\* entitlement_consumed: what was executed, not what is under way.
AmountIn(set) == SumFunctionOnSet([i \in set |-> i.amount], set)
Consumed(c) == AmountIn({i \in items : i.claim = c /\ i.state = "completed"})
Headroom(c) == c.amount - Consumed(c)
Awaited(b) == \E i \in items : i.claim.bill = b /\ i.state = "awaiting"
Payable(b) == outstanding[b] > 0 /\ available > 0 /\ ~Awaited(b)
AlreadyEntitled(b) == \E c \in claims : c.bill = b /\ Headroom(c) > 0
Unclaimed(b) == Payable(b) /\ ~AlreadyEntitled(b)

\* The facts, in one read-only transaction.
Sweep(s, bills, direct) ==
    /\ entrance[s] = Idle /\ \E b \in bills : Payable(b)
    /\ entrance' = [entrance EXCEPT ![s] =
         [step |-> "claiming", direct |-> direct,
          todo |-> {[bill |-> b, amount |-> Min({outstanding[b], available})] : b \in {c \in bills : Unclaimed(c)}}]]
    /\ UNCHANGED <<outstanding, available, claims, items, runs>>

ApplyHeldFundsToBills(s, b) == Sweep(s, {b}, TRUE)
PrepareFirmWideHeldFunds(s) == Sweep(s, Bills, FALSE)

\* establishEntitlement; entitlement_guard refuses one beyond what the bill
\* still owes, and the sweep stops there, its earlier claims recorded.
EstablishEntitlement(s) ==
    \E f \in entrance[s].todo :
        /\ IF f.amount <= outstanding[f.bill]
           THEN /\ Cardinality(claims) < MaxClaims
                /\ claims' = claims \cup
                     {[id |-> Cardinality(claims) + 1, bill |-> f.bill, amount |-> f.amount]}
                /\ entrance' = [entrance EXCEPT ![s].todo = @ \ {f}]
           ELSE entrance' = [entrance EXCEPT ![s] = Idle] /\ UNCHANGED claims
        /\ UNCHANGED <<outstanding, available, items, runs>>

\* deriveCandidates: every actionable claim of the matter, whoever made it.
Candidates == {c \in claims : Headroom(c) > 0 /\ available > 0 /\ outstanding[c.bill] > 0}
Fits(c) == Min({Headroom(c), available, outstanding[c.bill]})

PreviewRun(s) ==
    /\ entrance[s].step = "claiming" /\ entrance[s].todo = {}
    /\ \E r \in 1..MaxRuns :
        /\ runs[r] = "none" /\ \A q \in 1..(r - 1) : runs[q] # "none"
        /\ runs' = [runs EXCEPT ![r] = IF entrance[s].direct THEN "committed" ELSE "previewed"]
        /\ items' = items \cup {[run |-> r, claim |-> c, amount |-> Fits(c),
                                 state |-> IF entrance[s].direct THEN "awaiting" ELSE "previewed"] : c \in Candidates}
    /\ entrance' = [entrance EXCEPT ![s] = Idle]
    /\ UNCHANGED <<outstanding, available, claims>>

-----------------------------------------------------------------------------
\* What an item needs, when it is drafted and again when it executes.
WithoutHeadroom(i) == i.amount <= available /\ i.amount <= outstanding[i.claim.bill]
Verified(i) == i.amount <= Headroom(i.claim) /\ i.amount <= available /\ i.amount <= outstanding[i.claim.bill]
Moves(i, to) == items' = (items \ {i}) \cup {[i EXCEPT !.state = to]}

CommitHeldFundsApplication(r) ==
    /\ runs[r] = "previewed" /\ runs' = [runs EXCEPT ![r] = "committed"]
    /\ items' = {IF i.run # r THEN i
                 ELSE [i EXCEPT !.state = IF Verified(i) THEN "awaiting" ELSE "refused"] : i \in items}
    /\ UNCHANGED <<outstanding, available, claims, entrance>>

Execute(i) ==
    /\ i.state = "awaiting" /\ Verified(i) /\ Moves(i, "completed")
    /\ available' = available - i.amount /\ outstanding' = [outstanding EXCEPT ![i.claim.bill] = @ - i.amount]
    /\ UNCHANGED <<claims, runs, entrance>>

Refuse(i) ==
    /\ i.state = "awaiting" /\ Moves(i, "refused")
    /\ UNCHANGED <<outstanding, available, claims, runs, entrance>>

SweepNext ==
    \/ \E x \in 0..Held : LedgerMoves(x)
    \/ \E b \in Bills : ClientPays(b)
    \/ \E s \in Sessions :
        \/ \E b \in Bills : ApplyHeldFundsToBills(s, b)
        \/ PrepareFirmWideHeldFunds(s) \/ EstablishEntitlement(s) \/ PreviewRun(s)
    \/ \E r \in 1..MaxRuns : CommitHeldFundsApplication(r)
    \/ \E i \in items : Execute(i) \/ Refuse(i)

SweepSpec == SweepInit /\ [][SweepNext]_sweepVars

-----------------------------------------------------------------------------
\* However many claims and runs a bill ended up with, what left the ledger for
\* it never exceeds what it was issued for, nor any claim what it was made for.
PaidOn(b) == AmountIn({i \in items : i.claim.bill = b /\ i.state = "completed"})
PaidWithinClaim ==
    /\ \A c \in claims : Headroom(c) >= 0
    /\ \A b \in Bills : outstanding[b] + PaidOn(b) <= Worth

\* Why: a claim has one item in a run, which waits for its run to be committed and moves
\* its amount once.
SweepDiscipline ==
    /\ SweepTypeOK
    /\ \A i \in items : i.claim \in claims /\ runs[i.run] # "none"
    /\ \A i \in items : runs[i.run] = "previewed" => i.state = "previewed"
    /\ \A i, j \in items : i.run = j.run /\ i.claim = j.claim => i = j
    /\ PaidWithinClaim

\* Not kept: runHeldFunds.ts: "a bill whose transfer already awaits authorisation
\* is left alone - a sweep re-run never queues the same money twice".  A claim has
\* headroom while its transfer only awaits authorisation.
QueuedOnce ==
    \A i, j \in items : i.state = "awaiting" /\ j.state = "awaiting" /\ i.claim.bill = j.claim.bill => i = j

\* Not kept: runHeldFunds.ts: "a bill already carrying an actionable entitlement
\* with headroom is never entitled twice".  Two sweeps at once each find no claim.
EntitledOnce ==
    \A c, d \in claims : c.bill = d.bill /\ Headroom(c) > 0 /\ Headroom(d) > 0 => c = d
=============================================================================
