-------------------------- MODULE MatterLifecycle ---------------------------
\* A matter's life: its opening behind the conflict gate, and its closing, reopening,
\* archiving and holding. Each part has its own variables and its own next-state relation.
EXTENDS Integers, FiniteSets, Sequences

-----------------------------------------------------------------------------
\* Opening a matter, from nothing or from an intake record, behind the conflict
\* gate (src/lib/ops/matters/createMatter.ts, intake.ts, conflictRecords.ts,
\* runConflictCheck.ts, the triggers intake_guard and conflict_check_guard).
\*
\* A check is run unattached, resolved at most once and attached at most once.
\* Creating a matter verifies the named check and attaches it later in the
\* transaction, after the counter of matter numbers was taken: two steps.  A
\* conversion holds the intake's row lock from its checks to its commit.
CONSTANTS Staff,        \* the staff, one session each
          Intakes,      \* the intake records
          Checks,       \* the conflict checks there may be
          MaxMatters,   \* bound: matters opened
          NoOne         \* no check, no intake, nothing attached

VARIABLES intake,     \* each intake's state and the matter it became
          check,      \* each check: run, resolved, what it is attached to
          required,   \* whether opening a matter needs a resolved check
          matter,     \* the matters in the order of their numbers: what each was opened on
          sess

openingVars == <<intake, check, required, matter, sess>>

NoCheck == [run |-> FALSE, resolved |-> FALSE, to |-> NoOne]
Idle == [at |-> "idle", check |-> NoOne, intake |-> NoOne]

OpeningTypeOK ==
  /\ \A i \in Intakes : /\ intake[i].state \in {"none", "open", "closed", "converted"}
                        /\ intake[i].became \in 0..MaxMatters
  /\ \A k \in Checks : check[k].to \in {NoOne} \union Intakes \union 1..MaxMatters
  /\ required \in BOOLEAN /\ Len(matter) <= MaxMatters
  /\ \A s \in Staff : sess[s].at \in {"idle", "create", "convert"}

OpeningInit ==
  /\ intake = [i \in Intakes |-> [state |-> "none", became |-> 0]]
  /\ check = [k \in Checks |-> NoCheck]
  /\ required \in BOOLEAN
  /\ matter = <<>>
  /\ sess = [s \in Staff |-> Idle]

IsIdle(s) == sess[s].at = "idle"
Free(s) == sess' = [sess EXCEPT ![s] = Idle]

\* What keeps an intake for one conversion: the row's lock, held by nobody else, and
\* intake_guard, to which a converted record is immutable.
LockedAndGuarded(s, i) == intake[i].state # "converted" /\ \A t \in Staff \ {s} : sess[t].intake # i
Unguarded(s, i) == TRUE
IntakeFree(s, i) == LockedAndGuarded(s, i)

CreateIntake(i) ==
  /\ intake[i].state = "none" /\ intake' = [intake EXCEPT ![i].state = "open"]
  /\ UNCHANGED <<check, required, matter, sess>>

MoveIntake(s, i, from, to) ==
  /\ IsIdle(s) /\ IntakeFree(s, i) /\ intake[i].state = from /\ intake' = [intake EXCEPT ![i].state = to]
  /\ UNCHANGED <<check, required, matter, sess>>

CloseIntake(s, i) == MoveIntake(s, i, "open", "closed")
ReopenIntake(s, i) == MoveIntake(s, i, "closed", "open")

RunConflictCheck(k) ==
  /\ ~check[k].run /\ check' = [check EXCEPT ![k].run = TRUE]
  /\ UNCHANGED <<intake, required, matter, sess>>

RecordConflictResolution(k) ==
  /\ check[k].run /\ ~check[k].resolved /\ check' = [check EXCEPT ![k].resolved = TRUE]
  /\ UNCHANGED <<intake, required, matter, sess>>

\* One conditional update: only an unattached check is attached.
AttachConflictCheck(k, to) ==
  /\ check[k].run /\ check[k].to = NoOne
  /\ check' = [check EXCEPT ![k].to = to]
  /\ UNCHANGED <<intake, required, matter, sess>>

Targets == {i \in Intakes : intake[i].state # "none"} \union DOMAIN matter

\* The gate: no check where none is required, else a resolved unattached one.
Clears(k) == ~required \/ (k # NoOne /\ check[k].resolved /\ check[k].to = NoOne)
AnyClears(k) == ~required \/ (k # NoOne /\ check[k].run /\ check[k].to = NoOne)
VerifyResolvedCheck(k) == Clears(k)

StartCreateMatter(s, k) ==
  /\ IsIdle(s) /\ VerifyResolvedCheck(k) /\ Len(matter) < MaxMatters
  /\ sess' = [sess EXCEPT ![s] = [Idle EXCEPT !.at = "create", !.check = k]]
  /\ UNCHANGED <<intake, check, required, matter>>

\* The number is taken and the matter inserted; the attachment is the conditional
\* update, whose count of rows is not looked at.
CreateMatter(s) ==
  LET k == sess[s].check  n == Len(matter) + 1 IN
  /\ sess[s].at = "create" /\ n <= MaxMatters
  /\ matter' = Append(matter, [check |-> k, intake |-> NoOne, gated |-> required])
  /\ check' = IF k # NoOne /\ check[k].to = NoOne THEN [check EXCEPT ![k].to = n] ELSE check
  /\ Free(s) /\ UNCHANGED <<intake, required>>

\* A conversion is cleared by any resolved check attached to the intake.
ClearedBy(i) == {k \in Checks : check[k].resolved /\ check[k].to = i}

StartConvertIntake(s, i) ==
  /\ IsIdle(s) /\ IntakeFree(s, i) /\ intake[i].state = "open"
  /\ required => ClearedBy(i) # {}
  /\ Len(matter) < MaxMatters
  /\ sess' = [sess EXCEPT ![s] = [Idle EXCEPT !.at = "convert", !.intake = i]]
  /\ UNCHANGED <<intake, check, required, matter>>

ConvertIntake(s) ==
  LET i == sess[s].intake  n == Len(matter) + 1 IN
  /\ sess[s].at = "convert" /\ IntakeFree(s, i) /\ n <= MaxMatters
  /\ matter' = Append(matter, [check |-> NoOne, intake |-> i, gated |-> required])
  /\ intake' = [intake EXCEPT ![i] = [state |-> "converted", became |-> n]]
  /\ Free(s) /\ UNCHANGED <<check, required>>

\* A refusal or a lost connection; the number goes back with the transaction.
Abort(s) == ~IsIdle(s) /\ Free(s) /\ UNCHANGED <<intake, check, required, matter>>

OpeningNext ==
  \/ \E i \in Intakes : CreateIntake(i)
  \/ \E k \in Checks : \/ RunConflictCheck(k) \/ RecordConflictResolution(k)
                       \/ \E t \in Targets : AttachConflictCheck(k, t)
  \/ \E s \in Staff : \/ CreateMatter(s) \/ ConvertIntake(s) \/ Abort(s)
                      \/ \E k \in {c \in Checks : check[c].run} \union {NoOne} : StartCreateMatter(s, k)
                      \/ \E i \in Intakes : CloseIntake(s, i) \/ ReopenIntake(s, i) \/ StartConvertIntake(s, i)

OpeningSpec == OpeningInit /\ [][OpeningNext]_openingVars

\* An intake becomes one matter: whatever two conversions do at once, each matter
\* opened from it is the one its record names.
ConvertedOnce ==
  \A n \in DOMAIN matter : matter[n].intake # NoOne => intake[matter[n].intake].became = n

\* Every matter opened behind the gate was cleared: by its own resolved check, or
\* by a resolved one that is still attached to the intake it came from.
OpenedWhenCleared ==
  \A n \in DOMAIN matter : matter[n].gated =>
    IF matter[n].intake = NoOne THEN check[matter[n].check].resolved
    ELSE ClearedBy(matter[n].intake) # {}

\* Not kept: "this conflict check is already attached elsewhere"
\* (createMatter.ts:191).  Two creations verify one check before either attaches it.
OneMatterPerCheck ==
  \A n, o \in DOMAIN matter : n # o /\ matter[n].check # NoOne => matter[n].check # matter[o].check

-----------------------------------------------------------------------------
\* A matter's status: closing it directly or through an approved request,
\* reopening, archiving, holding and resuming it, and the same moves made on a
\* selection of matters by a bulk run that can be reversed
\* (src/lib/ops/matters/matterLifecycle.ts, src/lib/ops/bulk/runs.ts, the
\* triggers matter_guard and z_assert_close_position).
\*
\* A close holds the matter's row lock and its ledgers' locks from its checks to
\* its commit, so it is two steps here; a receipt or a time entry that wants one
\* of those rows waits.  The status a time entry checks, and the images a bulk
\* commit verifies, are read without a lock: those are two steps as well.
CONSTANTS Matters,    \* the matters
          Requests,   \* the close requests there may be
          Bulks       \* the bulk runs there may be

VARIABLES status,     \* each matter's status
          held,       \* whether the matter's ledgers hold client money
          unbilled,   \* whether unbilled work is recorded on the matter
          approval,   \* the setting matter.close_requires_approval
          req,        \* the close requests
          bulk,       \* the committed bulk runs: kind, items with their images, reversal
          visit       \* what each staff member has in flight

closingVars == <<status, held, unbilled, approval, req, bulk, visit>>

Statuses == {"open", "on_hold", "closed", "archived"}
Live == {"open", "on_hold"}

\* The rules of the four bulk kinds: from which statuses, and to which.
From == [matter_close |-> Live, matter_reopen |-> {"closed", "archived"},
         matter_hold |-> {"open"}, matter_resume |-> {"on_hold"}]
After == [matter_close |-> "closed", matter_reopen |-> "open",
          matter_hold |-> "on_hold", matter_resume |-> "open"]
Kinds == DOMAIN From

NoReq == [matter |-> NoOne, by |-> NoOne, state |-> "none"]
NoImage == [m \in Matters |-> "none"]
NoBulk == [kind |-> "none", before |-> NoImage, reversed |-> FALSE]
AtRest == [at |-> "idle", matter |-> NoOne, req |-> NoOne, kind |-> "none", before |-> NoImage]

ClosingTypeOK ==
  /\ status \in [Matters -> Statuses]
  /\ held \in [Matters -> BOOLEAN] /\ unbilled \in [Matters -> BOOLEAN]
  /\ approval \in BOOLEAN
  /\ req \in [Requests -> [matter: Matters \union {NoOne}, by: Staff \union {NoOne},
               state: {"none", "pending", "approved", "rejected", "withdrawn"}]]
  /\ \A b \in Bulks : bulk[b].kind \in Kinds \union {"none"}
  /\ \A s \in Staff : visit[s].at \in {"idle", "close", "receipt", "entry", "dry_run", "verified"}

\* A matter is opened with the firm's settings as they are.
ClosingInit ==
  /\ status = [m \in Matters |-> "open"]
  /\ held \in [Matters -> BOOLEAN]
  /\ unbilled = [m \in Matters |-> FALSE]
  /\ approval \in BOOLEAN
  /\ req = [r \in Requests |-> NoReq]
  /\ bulk = [b \in Bulks |-> NoBulk]
  /\ visit = [s \in Staff |-> AtRest]

\* Nobody is between the checks and the commit of a close, or between the ledger
\* lock and the commit of a receipt, on this matter.
NoneInside(m) == \A s \in Staff : visit[s].matter = m => visit[s].at \notin {"close", "receipt"}
NoWait(m) == TRUE
LockFree(m) == NoneInside(m)

IsAtRest(s) == visit[s].at = "idle"
Ends(s) == visit' = [visit EXCEPT ![s] = AtRest]

\* The money guard: no client money held.  The conditions: no unbilled work (the
\* setting matter.close_condition_unbilled is "block").
MoneyCloseGuard(m) == ~held[m]
CloseAllowed(m) == MoneyCloseGuard(m) /\ ~unbilled[m]

Pending(m) == {r \in Requests : req[r].matter = m /\ req[r].state = "pending"}

\* The approval path writes a request; held money refuses even that.
RequestClose(s, m, r) ==
  /\ IsAtRest(s) /\ LockFree(m) /\ approval /\ status[m] \in Live
  /\ MoneyCloseGuard(m) /\ Pending(m) = {} /\ req[r] = NoReq
  /\ req' = [req EXCEPT ![r] = [matter |-> m, by |-> s, state |-> "pending"]]
  /\ UNCHANGED <<status, held, unbilled, approval, bulk, visit>>

\* The direct path: locks, checks, then (CommitClose) the born-approved request
\* and the status.
StartClose(s, m) ==
  /\ IsAtRest(s) /\ LockFree(m) /\ ~approval /\ status[m] \in Live /\ CloseAllowed(m)
  /\ visit' = [visit EXCEPT ![s] = [AtRest EXCEPT !.at = "close", !.matter = m]]
  /\ UNCHANGED <<status, held, unbilled, approval, req, bulk>>

\* Another staff member approves: everything is checked again under the locks.
ApproveCloseRequest(s, r) ==
  LET m == req[r].matter IN
  /\ IsAtRest(s) /\ req[r].state = "pending" /\ req[r].by # s
  /\ LockFree(m) /\ status[m] \in Live /\ CloseAllowed(m)
  /\ \A t \in Staff : visit[t].req # r
  /\ visit' = [visit EXCEPT ![s] = [AtRest EXCEPT !.at = "close", !.matter = m, !.req = r]]
  /\ UNCHANGED <<status, held, unbilled, approval, req, bulk>>

\* z_assert_close_position: a close leaves no pending request behind.
NoneStays(m, r) == Pending(m) \subseteq {r}
AnyStays(m, r) == TRUE
NoPendingStays(m, r) == NoneStays(m, r)

CommitClose(s) ==
  LET m == visit[s].matter  r == visit[s].req IN
  /\ visit[s].at = "close" /\ NoPendingStays(m, r)
  /\ status' = [status EXCEPT ![m] = "closed"]
  /\ req' = IF r = NoOne THEN req ELSE [req EXCEPT ![r].state = "approved"]
  /\ Ends(s)
  /\ UNCHANGED <<held, unbilled, approval, bulk>>

\* The trigger's refusal ends the transaction.
CloseRefused(s) ==
  /\ visit[s].at = "close" /\ ~NoPendingStays(visit[s].matter, visit[s].req)
  /\ Ends(s) /\ UNCHANGED <<status, held, unbilled, approval, req, bulk>>

\* Only the request's row is locked by these two.
RejectCloseRequest(s, r) ==
  /\ IsAtRest(s) /\ req[r].state = "pending" /\ req[r].by # s /\ \A t \in Staff : visit[t].req # r
  /\ req' = [req EXCEPT ![r].state = "rejected"]
  /\ UNCHANGED <<status, held, unbilled, approval, bulk, visit>>

WithdrawCloseRequest(s, r) ==
  /\ IsAtRest(s) /\ req[r].state = "pending" /\ req[r].by = s /\ \A t \in Staff : visit[t].req # r
  /\ req' = [req EXCEPT ![r].state = "withdrawn"]
  /\ UNCHANGED <<status, held, unbilled, approval, bulk, visit>>

\* The moves of one matter, each under its row lock.
Move(s, m, from, to) ==
  /\ IsAtRest(s) /\ LockFree(m) /\ status[m] \in from
  /\ status' = [status EXCEPT ![m] = to]
  /\ UNCHANGED <<held, unbilled, approval, req, bulk, visit>>

ReopenMatter(s, m) == Move(s, m, {"closed", "archived"}, "open")
ArchiveMatter(s, m) == MoneyCloseGuard(m) /\ Move(s, m, {"closed"}, "archived")
HoldMatter(s, m) == Move(s, m, {"open"}, "on_hold")
ResumeMatter(s, m) == Move(s, m, {"on_hold"}, "open")

\* A receipt locks the matter's ledger, or opens one (its foreign key waits for
\* the matter's lock).  It looks at the ledger's status, never at the matter's.
StartReceipt(s, m) ==
  /\ IsAtRest(s) /\ LockFree(m) /\ ~held[m]
  /\ visit' = [visit EXCEPT ![s] = [AtRest EXCEPT !.at = "receipt", !.matter = m]]
  /\ UNCHANGED <<status, held, unbilled, approval, req, bulk>>

CommitReceipt(s) ==
  /\ visit[s].at = "receipt"
  /\ held' = [held EXCEPT ![visit[s].matter] = TRUE]
  /\ Ends(s) /\ UNCHANGED <<status, unbilled, approval, req, bulk>>

\* The money is paid out again, under the ledger's lock.
PayOut(s, m) ==
  /\ IsAtRest(s) /\ LockFree(m) /\ held[m]
  /\ held' = [held EXCEPT ![m] = FALSE]
  /\ UNCHANGED <<status, unbilled, approval, req, bulk, visit>>

\* A time entry reads the matter's status, then inserts.
StartEntry(s, m) ==
  /\ IsAtRest(s) /\ status[m] \in Live /\ ~unbilled[m]
  /\ visit' = [visit EXCEPT ![s] = [AtRest EXCEPT !.at = "entry", !.matter = m]]
  /\ UNCHANGED <<status, held, unbilled, approval, req, bulk>>

CommitEntry(s) ==
  /\ visit[s].at = "entry" /\ LockFree(visit[s].matter)
  /\ unbilled' = [unbilled EXCEPT ![visit[s].matter] = TRUE]
  /\ Ends(s) /\ UNCHANGED <<status, held, approval, req, bulk>>

WriteOff(s, m) ==
  /\ IsAtRest(s) /\ unbilled[m]
  /\ unbilled' = [unbilled EXCEPT ![m] = FALSE]
  /\ UNCHANGED <<status, held, approval, req, bulk, visit>>

SetApproval ==
  approval' = ~approval /\ UNCHANGED <<status, held, unbilled, req, bulk, visit>>

\* A dry run keeps on the screen every matter the kind applies to, with its image.
DryRunBulk(s, k) ==
  LET Included == {m \in Matters : /\ status[m] \in From[k]
                                   /\ k = "matter_close" => CloseAllowed(m)}
  IN /\ IsAtRest(s) /\ (k = "matter_close" => ~approval) /\ Included # {}
     /\ visit' = [visit EXCEPT ![s] = [AtRest EXCEPT !.at = "dry_run", !.kind = k,
                   !.before = [m \in Matters |-> IF m \in Included THEN status[m] ELSE "none"]]]
     /\ UNCHANGED <<status, held, unbilled, approval, req, bulk>>

ItemsOf(before) == {m \in Matters : before[m] # "none"}

\* The commit compares every image with the matter's status, without a lock.
VerifyBulk(s) ==
  /\ visit[s].at = "dry_run" /\ (visit[s].kind = "matter_close" => ~approval)
  /\ \A m \in ItemsOf(visit[s].before) : status[m] = visit[s].before[m]
  /\ visit' = [visit EXCEPT ![s].at = "verified"]
  /\ UNCHANGED <<status, held, unbilled, approval, req, bulk>>

\* Then each item goes through the matter's own operation, all or none.
ItemMoves(m, k) ==
  /\ LockFree(m) /\ status[m] \in From[k]
  /\ k = "matter_close" => CloseAllowed(m) /\ NoPendingStays(m, NoOne)

CommitBulk(s, b) ==
  LET k == visit[s].kind  Listed == ItemsOf(visit[s].before) IN
  /\ visit[s].at = "verified" /\ bulk[b] = NoBulk
  /\ \A m \in Listed : ItemMoves(m, k)
  /\ status' = [m \in Matters |-> IF m \in Listed THEN After[k] ELSE status[m]]
  /\ bulk' = [bulk EXCEPT ![b] = [kind |-> k, before |-> visit[s].before, reversed |-> FALSE]]
  /\ Ends(s) /\ UNCHANGED <<held, unbilled, approval, req>>

AbandonBulk(s) ==
  /\ visit[s].at \in {"dry_run", "verified"} /\ Ends(s)
  /\ UNCHANGED <<status, held, unbilled, approval, req, bulk>>

\* What the reversal of one item leaves the matter at: its image.
Restored(k, image) == image
RestoredOpen(k, image) == IF k = "matter_close" THEN "open" ELSE image
UndoneTo(k, image) == Restored(k, image)

\* An item still where the run left it is moved back; closing again is subject to
\* the close's guards, and an item that cannot go back is left, and recorded as
\* blocked.  A pending request fails the whole reversal: the trigger raises.
ReverseBulk(s, b) ==
  LET k == bulk[b].kind  before == bulk[b].before
      Still == {m \in ItemsOf(before) : status[m] = After[k]}
      Back == {m \in Still : k = "matter_reopen" => CloseAllowed(m)}
  IN /\ IsAtRest(s) /\ bulk[b] # NoBulk /\ ~bulk[b].reversed
     /\ \A m \in Still : LockFree(m)
     /\ k = "matter_reopen" => \A m \in Back : NoPendingStays(m, NoOne)
     /\ status' = [m \in Matters |-> IF m \in Back THEN UndoneTo(k, before[m]) ELSE status[m]]
     /\ bulk' = [bulk EXCEPT ![b].reversed = TRUE]
     /\ UNCHANGED <<held, unbilled, approval, req, visit>>

OneMatter(s, m) ==
  \/ StartClose(s, m) \/ ReopenMatter(s, m) \/ ArchiveMatter(s, m) \/ HoldMatter(s, m) \/ ResumeMatter(s, m)
  \/ StartReceipt(s, m) \/ PayOut(s, m) \/ StartEntry(s, m) \/ WriteOff(s, m)
  \/ \E r \in Requests : RequestClose(s, m, r)

OneRequest(s, r) == ApproveCloseRequest(s, r) \/ RejectCloseRequest(s, r) \/ WithdrawCloseRequest(s, r)
OneBulk(s) ==
  \/ VerifyBulk(s) \/ AbandonBulk(s)
  \/ \E k \in Kinds : DryRunBulk(s, k)
  \/ \E b \in Bulks : CommitBulk(s, b) \/ ReverseBulk(s, b)

ClosingNext ==
  \/ SetApproval
  \/ \E s \in Staff :
       \/ CommitClose(s) \/ CloseRefused(s) \/ CommitReceipt(s) \/ CommitEntry(s) \/ OneBulk(s)
       \/ \E m \in Matters : OneMatter(s, m)
       \/ \E r \in Requests : OneRequest(s, r)

ClosingSpec == ClosingInit /\ [][ClosingNext]_closingVars

\* Whichever door a matter is closed by - directly, by the approval of a request
\* made when the position was another, by a bulk run or by the reversal of one -
\* no client money is held on it and no unbilled work is left at the commit.
ClosesFresh ==
  \A m \in Matters : status[m] \in Live /\ status'[m] = "closed" => ~held[m] /\ ~unbilled[m]
ClosedOnFreshPosition == [][ClosesFresh]_closingVars

\* A request waits for a decision only on a matter that can still be closed, though
\* the approval setting may be switched off while it waits.
PendingOnLiveMatters ==
  \A r \in Requests : req[r].state = "pending" => status[req[r].matter] \in Live

\* The reversal of a bulk run puts back the status each item had before it - a
\* matter on hold that was closed is on hold again, an archived one that was
\* reopened is archived - or leaves the item where it stands.
GivesBack ==
  \A b \in Bulks : bulk'[b].reversed /\ ~bulk[b].reversed =>
    \A m \in Matters : status'[m] # status[m] => status'[m] = bulk[b].before[m]
ReversalGivesBack == [][GivesBack]_closingVars

\* Not kept, for the images are compared before the matters' rows are locked: the
\* image a bulk run records is the status the matter had when the run moved it
\* (runs.ts: "every item still in its before-state").
ImagesAreTrue ==
  [][\A b \in Bulks : bulk[b] = NoBulk /\ bulk'[b] # NoBulk =>
       \A m \in ItemsOf(bulk'[b].before) : status[m] = bulk'[b].before[m]]_closingVars

\* Not kept: no work is recorded on a closed matter.
ClosedReadOnly ==
  [][\A m \in Matters : status[m] \notin Live /\ status'[m] = status[m] => (unbilled'[m] => unbilled[m])]_closingVars
=============================================================================
