--------------------------- MODULE PaymentDetails ---------------------------
(***************************************************************************)
(* Where clients are told to pay: numbered versions of the firm's account,   *)
(* saved and approved by staff, and what reads them - bills sent to clients  *)
(* and the bank file of a held-funds run.                                    *)
(*                                                                         *)
(* A member of staff runs one transaction at a time: it reads which version  *)
(* governs, then writes under row locks, then commits.  The number of a new  *)
(* version is unique, so two insertions never run side by side.              *)
(***************************************************************************)
EXTENDS Integers, Sequences, FiniteSets, FiniteSetsExt

CONSTANTS
  Staff,
  NoOne,         \* nobody: no lock
  Recorded,      \* whether the firm starts with a version that governs
  MaxVersions    \* bound: versions recorded

\* The marker for "nobody" is not a member of staff; the bound is one.
Parameters == NoOne \notin Staff /\ MaxVersions \in Nat \ {0}

VARIABLES
  version,        \* the committed payment_details rows, in the order of their numbers
  needsApproval,  \* the setting billing.payment_details_require_approval
  lock,           \* who holds each row, and (0) the number of the next one
  job,            \* what each member of staff is doing
  sent,           \* the version on each bill despatched (0: without details)
  filed           \* the version each bank file credits

rows == <<version, needsApproval, sent, filed>>
vars == <<rows, lock, job>>

Numbers == 0..MaxVersions
Row == [state : {"pending", "approved"}, author : Staff, superseded : BOOLEAN]
NoJob == [step |-> "idle", before |-> {}, approves |-> 0, adds |-> << >>, ends |-> {}]

TypeOK ==
  /\ version \in Seq(Row) /\ Len(version) <= MaxVersions
  /\ needsApproval \in BOOLEAN
  /\ lock \in [Numbers -> Staff \cup {NoOne}]
  /\ \A s \in Staff : job[s].step \in {"idle", "save_pending", "save_approved", "approve", "written", "send"}
  /\ sent \subseteq Numbers /\ filed \subseteq Numbers

Init ==
  /\ \E s \in Staff :
       version = IF Recorded THEN <<[state |-> "approved", author |-> s, superseded |-> FALSE]>> ELSE << >>
  /\ needsApproval \in BOOLEAN
  /\ lock = [n \in Numbers |-> NoOne] /\ job = [s \in Staff |-> NoJob]
  /\ sent = {} /\ filed = {}

(***************************************************************************)
(* The one resolver: approved and not superseded.                            *)
(***************************************************************************)
Pending == {n \in DOMAIN version : version[n].state = "pending"}
Approved == DOMAIN version \ Pending
Governing == {n \in Approved : ~version[n].superseded}
LatestRow == Len(version)
GoverningRow == IF Governing = {} THEN 0 ELSE Max(Governing)

\* The before-update trigger: what is superseded stays as it is.
StillGoverns(n) == ~version[n].superseded

NeverWaits(s, ns) == TRUE
Mine(s, ns) == \A n \in ns : lock[n] \in {s, NoOne}
Holds(s, ns) == lock' = [n \in Numbers |-> IF n \in ns THEN s ELSE lock[n]]
Frees(s) == lock' = [n \in Numbers |-> IF lock[n] = s THEN NoOne ELSE lock[n]]
Becomes(s, j) == job' = [job EXCEPT ![s] = j]
Starts(s, step, approves) ==
  /\ job[s].step = "idle"
  /\ Becomes(s, [NoJob EXCEPT !.step = step, !.approves = approves, !.before = {GoverningRow} \ {0}])
  /\ UNCHANGED <<rows, lock>>

Abort(s) ==
  /\ job[s].step # "idle"
  /\ Becomes(s, NoJob) /\ Frees(s) /\ UNCHANGED rows

(***************************************************************************)
(* Saving and approving: the predecessor is superseded before the successor   *)
(* is written, and the after-trigger supersedes whatever else it can see.     *)
(***************************************************************************)
StartSave(s) ==
  /\ Len(version) < MaxVersions
  /\ IF needsApproval THEN Pending = {} /\ Starts(s, "save_pending", 0) ELSE Starts(s, "save_approved", 0)
StartApprove(s, n) == n \in Pending /\ Starts(s, "approve", n)

Insert(s, state) ==
  /\ Mine(s, {0}) /\ Len(version) < MaxVersions
  /\ Becomes(s, [job[s] EXCEPT !.step = "written", !.ends = IF state = "pending" THEN {} ELSE Governing,
                  !.adds = <<[state |-> state, author |-> s, superseded |-> FALSE]>>])

SavePending(s) ==
  /\ job[s].step = "save_pending" /\ Pending = {}
  /\ Insert(s, "pending") /\ Holds(s, {0}) /\ UNCHANGED rows

SaveApproved(s) ==
  /\ job[s].step = "save_approved"
  /\ \A n \in job[s].before : StillGoverns(n)
  /\ Mine(s, job[s].before \cup Governing)
  /\ Insert(s, "approved") /\ Holds(s, {0} \cup job[s].before \cup Governing)
  /\ UNCHANGED rows

Approve(s) ==
  LET n == job[s].approves
  IN  /\ job[s].step = "approve" /\ n \in Pending /\ version[n].author # s
      /\ \A m \in job[s].before : StillGoverns(m)
      /\ Mine(s, {n} \cup job[s].before \cup Governing)
      /\ Becomes(s, [job[s] EXCEPT !.step = "written", !.ends = Governing])
      /\ Holds(s, {n} \cup job[s].before \cup Governing)
      /\ UNCHANGED rows

Commit(s) ==
  LET j == job[s]
      After(n) == IF n = j.approves THEN [version[n] EXCEPT !.state = "approved"]
                  ELSE [version[n] EXCEPT !.superseded = @ \/ n \in j.ends]
  IN  /\ j.step = "written"
      /\ version' = [n \in DOMAIN version |-> After(n)] \o j.adds
      /\ Becomes(s, NoJob) /\ Frees(s)
      /\ UNCHANGED <<needsApproval, sent, filed>>

\* The setting is the firm's to change at any time.
SetNeedsApproval == needsApproval' = ~needsApproval /\ UNCHANGED <<version, sent, filed, lock, job>>

(***************************************************************************)
(* The readers.  A bill resolves its payment block as it is despatched and    *)
(* goes out when its transaction commits; the bank file is one read, of the    *)
(* approved version recorded last.                                           *)
(***************************************************************************)
Resolved == GoverningRow
StartSend(s) ==
  /\ job[s].step = "idle"
  /\ Becomes(s, [NoJob EXCEPT !.step = "send", !.approves = Resolved])
  /\ UNCHANGED <<rows, lock>>

SendBill(s) ==
  /\ job[s].step = "send"
  /\ sent' = sent \cup {job[s].approves}
  /\ Becomes(s, NoJob) /\ UNCHANGED <<version, needsApproval, filed, lock>>

Credited == Max(Approved)
HeldFundsRunAba ==
  /\ Approved # {} /\ filed' = filed \cup {Credited}
  /\ UNCHANGED <<version, needsApproval, sent, lock, job>>

Next ==
  \/ \E s \in Staff :
       \/ StartSave(s) \/ SavePending(s) \/ SaveApproved(s)
       \/ \E n \in 1..MaxVersions : StartApprove(s, n)
       \/ Approve(s) \/ Commit(s) \/ Abort(s) \/ StartSend(s) \/ SendBill(s)
  \/ SetNeedsApproval \/ HeldFundsRunAba

Spec == Init /\ [][Next]_vars

(***************************************************************************)
(* Properties.                                                               *)
(***************************************************************************)
\* Where a version already governed, exactly one governs for ever after, whoever
\* saves and approves at once (paymentDetails.ts:94-95).
OneSuccessor == Recorded => Cardinality(Governing) = 1

\* No client and no bank is ever given an account that still awaits its approval.
NothingPendingGoesOut == (sent \cup filed) \cap Pending = {}

\* The account clients and the bank are given was approved, and where one governed
\* exactly one always does.
AccountIsApproved == NothingPendingGoesOut /\ OneSuccessor

(***************************************************************************)
(* Why: whoever has written a successor holds the version that governs, and  *)
(* the pending one he approves, until his commit ends the one and makes the   *)
(* other govern.  So there is at most one such writer at a time.             *)
(***************************************************************************)
Job == [step : {"idle", "save_pending", "save_approved", "approve", "written", "send"},
        before : SUBSET Nat, approves : Nat, adds : Seq(Row), ends : SUBSET Nat]

Clean(j) ==
  /\ j.step \notin {"approve", "written", "send"} => j.approves = 0
  /\ j.step # "written" => j.adds = << >> /\ j.ends = {}
  /\ j.step = "send" => j.approves \in Approved \cup {0}

New(j, state) == \E r \in Row : r.state = state /\ ~r.superseded /\ j.adds = <<r>>

AddsPending(j) == j.approves = 0 /\ j.ends = {} /\ New(j, "pending")

Succeeds(s, j) ==
  /\ j.ends \subseteq Approved
  /\ Recorded => j.ends = Governing /\ \A n \in Governing : lock[n] = s
  /\ \/ j.approves = 0 /\ New(j, "approved")
     \/ j.approves \in Pending /\ lock[j.approves] = s /\ j.adds = << >>

WritesWhatItHolds(s) == job[s].step = "written" =>
  /\ AddsPending(job[s]) \/ Succeeds(s, job[s])
  /\ job[s].adds # << >> => lock[0] = s /\ Len(version) < MaxVersions

Discipline ==
  /\ TypeOK /\ job \in [Staff -> Job]
  /\ \A s \in Staff : Clean(job[s]) /\ WritesWhatItHolds(s)
  /\ \A n \in Pending : ~version[n].superseded
  /\ OneSuccessor
  /\ sent \subseteq Approved \cup {0} /\ filed \subseteq Approved

\* Not kept: one version governs at any instant (paymentDetails.ts:94): of two
\* first versions, one approved while another is saved, both do - the index is not
\* unique.
OneGoverns == Cardinality(Governing) <= 1

\* Not kept: the bank file credits the account that governs (aba.ts:2-4, "the
\* governing payment-details record"): it takes the approved version recorded last.
BankFileCreditsGoverning == Approved # {} => Credited \in Governing
=============================================================================
