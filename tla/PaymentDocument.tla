--------------------------- MODULE PaymentDocument ---------------------------
(***************************************************************************)
(* The money-out document: drafted, submitted, counted approvals, executed   *)
(* through the posting protocol, and blocked in a transaction of its own     *)
(* when the execution is refused.  A session runs one operation at a time,   *)
(* one action per statement that locks a row or reads what others change.    *)
(*                                                                         *)
(* The ledger is here the funds it can pay out; LedgerPosting has its lines. *)
(* Capabilities, instruments, earmarks and dormant cases are left out.       *)
(***************************************************************************)
EXTENDS Naturals, Sequences, FiniteSets, Functions

CONSTANTS
  Docs, Sessions, Staff, Ledgers, Entitlements,
  None,            \* no session, no person, no entitlement
  Counter,         \* the number series of payments
  Amounts,
  Threshold,       \* at or above it two approvals are required
  SelfAllowed,     \* the setting money.self_authorisation
  Gapless,         \* the allocation mode the firm chose for payment numbers
  EntitledTo,      \* each entitlement's amount
  MaxHeld,         \* bound: funds on a ledger
  MaxRefusals      \* bound: refusals captured for one document

ASSUME NoneAssumption == None \notin Sessions \cup Staff \cup Entitlements \cup Ledgers \cup Docs
ASSUME ParameterAssumption ==
  /\ Amounts \subseteq Nat \ {0} /\ Threshold \in Nat
  /\ SelfAllowed \in BOOLEAN /\ Gapless \in BOOLEAN
  /\ EntitledTo \in [Entitlements -> Nat] /\ MaxHeld \in Nat /\ MaxRefusals \in Nat
ASSUME FiniteAssumption == IsFiniteSet(Docs) /\ IsFiniteSet(Sessions)

VARIABLES
  doc,        \* the payment documents
  approvals,  \* the approved payment_authorisation rows of each, oldest first
  funds,      \* what each ledger can pay out
  ent,        \* the entitlements: notice and cancellation
  paid,       \* withdrawals posted for each document
  refusals,   \* refused_operation rows of each document
  blocks,     \* times it moved from authorised to blocked
  entries,    \* register entries saying that it did
  lock,       \* who holds each ledger, document, entitlement or counter row
  job         \* what each session is doing

rows == <<doc, approvals, funds, ent, paid, refusals, blocks, entries>>
vars == <<rows, lock, job>>

States == {"none", "draft", "pending_authorisation", "authorised", "executed",
           "rejected", "cancelled", "blocked"}
Finished == {"executed", "rejected", "cancelled"}

DocRow == [state : States, required : Nat, by : Staff \cup {None},
           ledger : Ledgers \cup {None}, amount : Nat, ent : Entitlements \cup {None}]
EntRow == [notice : {"awaited", "given", "elapsed"}, cancelled : BOOLEAN]

Lockables == Ledgers \cup Docs \cup Entitlements \cup {Counter}

NoJob == [step |-> "idle", op |-> "none", who |-> None, on |-> None, seen |-> << >>]

Job == [step : {"idle", "locked", "loaded", "ledger", "counter", "posted", "marked",
                "refused", "captured", "checked"},
        op : {"none", "submit", "authorise", "reject", "cancel", "resubmit", "execute",
              "cancelEntitlement"},
        who : Staff \cup {None},
        on : Docs \cup Entitlements \cup {None},
        seen : {<< >>} \cup (States \X Seq(Staff))]

TypeOK ==
  /\ doc \in [Docs -> DocRow]
  /\ approvals \in [Docs -> Seq(Staff)]
  /\ funds \in [Ledgers -> Nat]
  /\ ent \in [Entitlements -> EntRow]
  /\ paid \in [Docs -> Nat] /\ refusals \in [Docs -> Nat]
  /\ blocks \in [Docs -> Nat] /\ entries \in [Docs -> Nat]
  /\ lock \in [Lockables -> Sessions \cup {None}]
  /\ job \in [Sessions -> Job]

Init ==
  /\ doc = [d \in Docs |-> [state |-> "none", required |-> 0, by |-> None, ledger |-> None,
                            amount |-> 0, ent |-> None]]
  /\ approvals = [d \in Docs |-> << >>]
  /\ funds = [l \in Ledgers |-> MaxHeld]
  /\ ent \in [Entitlements -> {[notice |-> n, cancelled |-> FALSE] : n \in {"awaited", "elapsed"}}]
  /\ paid = [d \in Docs |-> 0] /\ refusals = paid /\ blocks = paid /\ entries = paid
  /\ lock = [x \in Lockables |-> None]
  /\ job = [s \in Sessions |-> NoJob]

(***************************************************************************)
(* Rows, locks and transactions.                                            *)
(***************************************************************************)
Waits(x) == lock[x] = None
Keeps(s, x) == lock' = [lock EXCEPT ![x] = s]
Releases(s) == lock' = [x \in Lockables |-> IF lock[x] = s THEN None ELSE lock[x]]
Ends(s) == job' = [job EXCEPT ![s] = NoJob]
Steps(s, step) == job' = [job EXCEPT ![s].step = step]
Abort(s) == Releases(s) /\ Ends(s) /\ UNCHANGED rows

\* The transitions money_payment_guard lets a row make; a finished row makes none.
AnyTransition(old, new) == TRUE
MayBecome(old, new) ==
  <<old, new>> \in ({"draft"} \X {"pending_authorisation", "cancelled"})
              \cup ({"pending_authorisation"} \X {"authorised", "rejected", "cancelled"})
              \cup ({"authorised"} \X {"executed", "blocked"})
              \cup ({"blocked"} \X {"authorised", "cancelled"})

Moves(d, new) == doc' = [doc EXCEPT ![d].state = new]

Executed(ds, e) == {d \in Docs : ds[d].ent = e /\ ds[d].state = "executed"}
Consumed(ds, e) == SumFunctionOnSet([d \in Docs |-> ds[d].amount], Executed(ds, e))

(***************************************************************************)
(* Drafting: the funds are read without a lock, so the check is advisory.   *)
(***************************************************************************)
Draft(d, by, l, x, e) ==
  /\ doc[d].state = "none"
  /\ x <= funds[l]
  /\ doc' = [doc EXCEPT ![d] = [state |-> "draft", required |-> 0, by |-> by,
                                ledger |-> l, amount |-> x, ent |-> e]]
  /\ UNCHANGED <<approvals, funds, ent, paid, refusals, blocks, entries, lock, job>>

(***************************************************************************)
(* The operations that select the document FOR UPDATE, check the row they   *)
(* read, write and commit.                                                  *)
(***************************************************************************)
NoDocLock(s, d) == TRUE
DocLock(s, d) == Waits(d)

Take(s, who, op, d) ==
  /\ job[s].step = "idle" /\ doc[d].state # "none"
  /\ DocLock(s, d) /\ Keeps(s, d)
  /\ job' = [job EXCEPT ![s] = [step |-> "locked", op |-> op, who |-> who, on |-> d,
                                seen |-> <<doc[d].state, approvals[d]>>]]
  /\ UNCHANGED rows

\* One of them finishing: it saw the state `from', the guard lets the row move on.
Finishes(s, op, from, to) ==
  LET d == job[s].on
  IN  /\ job[s].step = "locked" /\ job[s].op = op
      /\ job[s].seen[1] \in from
      /\ to # doc[d].state => MayBecome(doc[d].state, to)
      /\ Releases(s)

RequiredApprovals(d) == IF doc[d].amount >= Threshold THEN 2 ELSE 1

Submit(s) ==
  LET d == job[s].on
  IN  /\ Finishes(s, "submit", {"draft"}, "pending_authorisation")
      /\ doc' = [doc EXCEPT ![d].state = "pending_authorisation",
                            ![d].required = RequiredApprovals(d)]
      /\ Ends(s)
      /\ UNCHANGED <<approvals, funds, ent, paid, refusals, blocks, entries>>

MayApprove(who, d, prior) ==
  /\ who = doc[d].by => SelfAllowed
  /\ \A i \in DOMAIN prior : prior[i] # who

Authorise(s) ==
  LET d == job[s].on
      who == job[s].who
      prior == job[s].seen[2]
      complete == Len(prior) + 1 >= doc[d].required
  IN  /\ Finishes(s, "authorise", {"pending_authorisation"},
                  IF complete THEN "authorised" ELSE doc[d].state)
      /\ MayApprove(who, d, prior)
      /\ approvals' = [approvals EXCEPT ![d] = Append(@, who)]
      /\ IF complete THEN Moves(d, "authorised") ELSE UNCHANGED doc
      /\ Ends(s)
      /\ UNCHANGED <<funds, ent, paid, refusals, blocks, entries>>

Reject(s) ==
  /\ Finishes(s, "reject", {"pending_authorisation"}, "rejected")
  /\ job[s].who # doc[job[s].on].by
  /\ Moves(job[s].on, "rejected")
  /\ Ends(s)
  /\ UNCHANGED <<approvals, funds, ent, paid, refusals, blocks, entries>>

Cancel(s) ==
  /\ Finishes(s, "cancel", {"draft", "pending_authorisation", "blocked"}, "cancelled")
  /\ Moves(job[s].on, "cancelled")
  /\ Ends(s)
  /\ UNCHANGED <<approvals, funds, ent, paid, refusals, blocks, entries>>

\* Back to authorised, committed; the execution that follows starts at Load.
Resubmit(s) ==
  /\ Finishes(s, "resubmit", {"blocked"}, "authorised")
  /\ Moves(job[s].on, "authorised")
  /\ Ends(s)
  /\ UNCHANGED <<approvals, funds, ent, paid, refusals, blocks, entries>>

(***************************************************************************)
(* Execution: a pre-read in a transaction of its own, then one transaction   *)
(* that locks the ledger, draws the number, posts and marks the document.    *)
(***************************************************************************)
Load(s, d) ==
  /\ job[s].step = "idle" /\ doc[d].state = "authorised"
  /\ job' = [job EXCEPT ![s] = [NoJob EXCEPT !.step = "loaded", !.op = "execute", !.on = d]]
  /\ UNCHANGED <<rows, lock>>

LockLedger(s) ==
  /\ job[s].step = "loaded"
  /\ Waits(doc[job[s].on].ledger) /\ Keeps(s, doc[job[s].on].ledger)
  /\ Steps(s, "ledger")
  /\ UNCHANGED rows

\* A gapless number holds its counter row to the end, a sequence holds nothing.
NumberNotHeld(s) == UNCHANGED lock
HoldsNumber(s) == IF Gapless THEN Waits(Counter) /\ Keeps(s, Counter) ELSE UNCHANGED lock

Number(s) ==
  /\ job[s].step = "ledger"
  /\ HoldsNumber(s)
  /\ Steps(s, "counter")
  /\ UNCHANGED rows

Refuse(s) == Releases(s) /\ Steps(s, "refused") /\ UNCHANGED rows

AnyFunds(d) == TRUE
EnoughFunds(d) == doc[d].amount <= funds[doc[d].ledger]

Post(s) ==
  /\ job[s].step = "counter"
  /\ IF EnoughFunds(job[s].on) THEN Steps(s, "posted") /\ UNCHANGED <<rows, lock>>
                               ELSE Refuse(s)

Actionable(e) == ent[e].notice = "elapsed" /\ ~ent[e].cancelled /\ Consumed(doc, e) < EntitledTo[e]
Covered(d) ==
  doc[d].ent # None => /\ Actionable(doc[d].ent)
                       /\ doc[d].amount <= EntitledTo[doc[d].ent] - Consumed(doc, doc[d].ent)

\* The update to executed waits for the row, then the guard sees its latest state.
MarkExecuted(s) ==
  LET d == job[s].on
  IN  /\ job[s].step = "posted" /\ Waits(d)
      /\ MayBecome(doc[d].state, "executed")
      /\ IF Covered(d) THEN Keeps(s, d) /\ Steps(s, "marked") /\ UNCHANGED rows
                       ELSE Refuse(s)

\* Somebody else finished or blocked the document: not a refusal, nothing captured.
Overtaken(s) ==
  /\ job[s].step = "posted" /\ Waits(job[s].on)
  /\ ~MayBecome(doc[job[s].on].state, "executed")
  /\ Abort(s)

Commit(s) ==
  LET d == job[s].on
  IN  /\ job[s].step = "marked"
      /\ Moves(d, "executed")
      /\ funds' = [funds EXCEPT ![doc[d].ledger] = @ - doc[d].amount]
      /\ paid' = [paid EXCEPT ![d] = @ + 1]
      /\ Releases(s) /\ Ends(s)
      /\ UNCHANGED <<approvals, ent, refusals, blocks, entries>>

(***************************************************************************)
(* The refusal: captured in a second transaction, the block in a third.      *)
(***************************************************************************)
NoCapture(s) == UNCHANGED refusals
Captures(s) == refusals' = [refusals EXCEPT ![job[s].on] = @ + 1]

Capture(s) ==
  /\ job[s].step = "refused" /\ refusals[job[s].on] < MaxRefusals
  /\ Captures(s)
  /\ Steps(s, "captured")
  /\ UNCHANGED <<doc, approvals, funds, ent, paid, blocks, entries, lock>>

Block(s) ==
  LET d == job[s].on
      still == doc[d].state = "authorised"
  IN  /\ job[s].step = "captured" /\ Waits(d)
      /\ IF still THEN Moves(d, "blocked") ELSE UNCHANGED doc
      /\ blocks' = [blocks EXCEPT ![d] = @ + (IF still THEN 1 ELSE 0)]
      /\ entries' = [entries EXCEPT ![d] = @ + 1]
      /\ Ends(s)
      /\ UNCHANGED <<approvals, funds, ent, paid, refusals, lock>>

(***************************************************************************)
(* Entitlements: the notice, its period, and the cancellation, whose guard   *)
(* looks for executed payments when the row is updated.                      *)
(***************************************************************************)
Notice(e) ==
  /\ ent[e].notice = "awaited" /\ ~ent[e].cancelled /\ Waits(e)
  /\ ent' = [ent EXCEPT ![e].notice = "given"]
  /\ UNCHANGED <<doc, approvals, funds, paid, refusals, blocks, entries, lock, job>>

NoticeElapses(e) ==
  /\ ent[e].notice = "given"
  /\ ent' = [ent EXCEPT ![e].notice = "elapsed"]
  /\ UNCHANGED <<doc, approvals, funds, paid, refusals, blocks, entries, lock, job>>

CheckCancel(s, e) ==
  /\ job[s].step = "idle" /\ Waits(e) /\ ~ent[e].cancelled
  /\ Consumed(doc, e) = 0
  /\ Keeps(s, e)
  /\ job' = [job EXCEPT ![s] = [NoJob EXCEPT !.step = "checked", !.op = "cancelEntitlement",
                                             !.on = e]]
  /\ UNCHANGED rows

CancelEntitlement(s) ==
  /\ job[s].step = "checked"
  /\ ent' = [ent EXCEPT ![job[s].on].cancelled = TRUE]
  /\ Releases(s) /\ Ends(s)
  /\ UNCHANGED <<doc, approvals, funds, paid, refusals, blocks, entries>>

\* Other postings on the ledger, under its lock: money in, and out by other doors.
OtherPosting(l, x) ==
  /\ Waits(l) /\ x \in 0..MaxHeld
  /\ funds' = [funds EXCEPT ![l] = x]
  /\ UNCHANGED <<doc, approvals, ent, paid, refusals, blocks, entries, lock, job>>

\* A check that refuses, a lost connection or a stopped process, at any point.
Fails(s) == job[s].step # "idle" /\ Abort(s)

Next ==
  \/ \E d \in Docs, by \in Staff, l \in Ledgers, x \in Amounts, e \in Entitlements \cup {None} :
       Draft(d, by, l, x, e)
  \/ \E s \in Sessions, who \in Staff, d \in Docs,
       op \in {"submit", "authorise", "reject", "cancel", "resubmit"} : Take(s, who, op, d)
  \/ \E s \in Sessions :
       \/ Submit(s) \/ Authorise(s) \/ Reject(s) \/ Cancel(s) \/ Resubmit(s)
       \/ LockLedger(s) \/ Number(s) \/ Post(s) \/ MarkExecuted(s) \/ Overtaken(s) \/ Commit(s)
       \/ Capture(s) \/ Block(s) \/ CancelEntitlement(s) \/ Fails(s)
       \/ \E d \in Docs : Load(s, d)
       \/ \E e \in Entitlements : CheckCancel(s, e)
  \/ \E e \in Entitlements : Notice(e) \/ NoticeElapses(e)
  \/ \E l \in Ledgers, x \in 0..MaxHeld : OtherPosting(l, x)

Spec == Init /\ [][Next]_vars

(***************************************************************************)
(* Properties.                                                              *)
(***************************************************************************)

\* A document's money leaves once, and exactly when the document says executed,
\* whatever executors, retries and cancellations overlap (payments.ts header).
PaidWhenExecuted == \A d \in Docs : paid[d] = (IF doc[d].state = "executed" THEN 1 ELSE 0)

\* Nothing is authorised, blocked or executed without as many approvals, of
\* different people, as submission froze; the requester's only where allowed.
Approved(row, as) ==
  /\ Cardinality({as[i] : i \in DOMAIN as}) = Len(as)
  /\ row.state \in {"authorised", "blocked", "executed"} =>
       /\ Len(as) >= row.required
       /\ SelfAllowed \/ \A i \in DOMAIN as : as[i] # row.by

DualControl == \A d \in Docs : Approved(doc[d], approvals[d])

\* The executed transfers against an entitlement stay within its amount, though
\* the guard that checks the headroom locks neither the entitlement nor its payments.
HeadroomKept == \A e \in Entitlements : Consumed(doc, e) <= EntitledTo[e]

\* Every block has its refusal on file, captured and committed before it (refusal.ts).
BlockedOnRecord == \A d \in Docs : blocks[d] <= refusals[d]

\* "A consumed entitlement can no longer be cancelled" (0013, entitlement_guard).
ConsumedNeverCancelled == \A e \in Entitlements : ent[e].cancelled => Consumed(doc, e) = 0

\* The register says authorised -> blocked only of a document that was blocked.
BlocksHonestlyRegistered == \A d \in Docs : entries[d] <= blocks[d]

(***************************************************************************)
(* Why: what every session still holds of the rows its checks were made on. *)
(***************************************************************************)
HeldBy(s) ==
  LET d == job[s].on
      step == job[s].step
  IN
  /\ step \notin {"idle", "checked"} => d \in Docs /\ doc[d].state # "none"
  /\ step = "locked" => /\ lock[d] = s /\ job[s].who \in Staff
                        /\ job[s].seen = <<doc[d].state, approvals[d]>>
  /\ step \in {"ledger", "counter", "posted", "marked"} => lock[doc[d].ledger] = s
  /\ step \in {"counter", "posted", "marked"} /\ Gapless => lock[Counter] = s
  /\ step \in {"posted", "marked"} => EnoughFunds(d)
  /\ step = "marked" => /\ lock[d] = s /\ doc[d].state = "authorised"
                        /\ Gapless /\ doc[d].ent # None =>
                             Consumed(doc, doc[d].ent) + doc[d].amount <= EntitledTo[doc[d].ent]

\* A row that was never drafted has no ledger and no approvals; the requester's own
\* approval is never among those counted, unless the firm allows it.
DocSound(d) ==
  /\ IF doc[d].state = "none" THEN approvals[d] = << >> ELSE doc[d].ledger \in Ledgers
  /\ SelfAllowed \/ \A i \in DOMAIN approvals[d] : approvals[d][i] # doc[d].by

\* The refusals a document has on file cover its blocks and those about to be made.
Capturing(d) == {s \in Sessions : job[s].step = "captured" /\ job[s].on = d}
CapturesCover == \A d \in Docs : blocks[d] + Cardinality(Capturing(d)) <= refusals[d]

Discipline ==
  /\ TypeOK
  /\ \A s \in Sessions : HeldBy(s)
  /\ \A d \in Docs : DocSound(d)
  /\ PaidWhenExecuted
  /\ DualControl
  /\ CapturesCover
  /\ Gapless => HeadroomKept
=============================================================================
