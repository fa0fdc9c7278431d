------------------------------- MODULE Drafting -------------------------------
(* Billing before issue: captured items, the draft groups that claim them,    *)
(* the edits and the approval of a group, its issue, and billing runs.         *)
(* lib/ops/billing/{drafting,issue,runs,timeEntries,disbursements}.ts, and the *)
(* guards of 0008 and 0010.  The sibling bills of a group change state and    *)
(* total together, so a group has one of each; their shares are in Cents.     *)
EXTENDS Naturals, FiniteSets, Functions

CONSTANTS Sessions, Items, Groups, Runs, Matters,
          MatterOf,   \* the matter of each item
          Manual,     \* the source of a line that has no item
          None,
          MaxValue, MaxTax   \* bounds: an item's value, the moves of the tax rule

ASSUME NoneAssumption == None \notin Sessions \cup Groups \cup Runs /\ Manual \notin Items
ASSUME WorkAssumption == MatterOf \in [Items -> Matters] /\ IsFiniteSet(Items)
ASSUME BoundAssumption == MaxValue \in Nat \ {0} /\ MaxTax \in Nat

VARIABLES item,      \* time_entry and disbursement
          group,     \* bill_group, its bill and bill_line rows
          run,       \* billing_run.state
          taxRule,   \* the rule deedbox.line_tax evaluates
          approval,  \* the setting bill.approval_required
          lock,      \* who holds a matter's row
          job        \* what each session is in the middle of

vars == <<item, group, run, taxRule, approval, lock, job>>

Sources == Items \cup {Manual}
Idle == [at |-> "idle"]
NoLines == [x \in {} |-> 0]
NoGroup == [st |-> "none", pending |-> FALSE, run |-> None, lines |-> NoLines, total |-> 0]

LineTax(amount) == amount * taxRule
LineOf(value) == [orig |-> value, amt |-> value, tax |-> LineTax(value)]
Charged(lines) == [x \in DOMAIN lines |-> lines[x].amt + lines[x].tax]
LinesTotal(lines) == SumFunctionOnSet(Charged(lines), DOMAIN lines)
Without(lines, x) == [y \in DOMAIN lines \ {x} |-> lines[y]]

IsUnbilled(i) == item[i].st = "unbilled" /\ ~item[i].deleted

\* Every edit ends by recomputing the group's total from its lines.
RecomputeTotal(g, lines) == [group EXCEPT ![g].lines = lines, ![g].total = LinesTotal(lines)]

\* Items whose pointer sits on the lines of these groups go back to unbilled.
Released(gs, xs) ==
  [i \in Items |-> IF item[i].group \in gs /\ i \in xs
                   THEN [item[i] EXCEPT !.st = "unbilled", !.group = None] ELSE item[i]]

Free(s) == job[s].at = "idle"
\* Mutant: drafts of one matter do not wait for each other.
NeverWaits(m) == TRUE

LockFree(m) == lock[m] = None

Init ==
  /\ item = [i \in Items |-> [st |-> "unbilled", deleted |-> FALSE, val |-> 1, group |-> None]]
  /\ group = [g \in Groups |-> NoGroup]
  /\ run = [r \in Runs |-> "none"]
  /\ taxRule = 0
  /\ approval \in BOOLEAN
  /\ lock = [m \in Matters |-> None]
  /\ job = [s \in Sessions |-> Idle]

-----------------------------------------------------------------------------
(* Capture: each is one update under the item's row lock. *)

EditItem(i, v) ==
  /\ IsUnbilled(i)
  /\ item' = [item EXCEPT ![i].val = v]
  /\ UNCHANGED <<group, run, taxRule, approval, lock, job>>

WriteOffUnbilledItem(i) ==
  /\ IsUnbilled(i)
  /\ item' = [item EXCEPT ![i].st = "written_off"]
  /\ UNCHANGED <<group, run, taxRule, approval, lock, job>>

SoftDeleteUnbilledItem(i) ==
  /\ IsUnbilled(i)
  /\ item' = [item EXCEPT ![i].deleted = TRUE]
  /\ UNCHANGED <<group, run, taxRule, approval, lock, job>>

RestoreUnbilledItem(i) ==
  /\ item[i].deleted
  /\ item[i].st # "written_off"  \* billed_item_guard: terminal
  /\ item' = [item EXCEPT ![i].deleted = FALSE]
  /\ UNCHANGED <<group, run, taxRule, approval, lock, job>>

-----------------------------------------------------------------------------
(* A draft: the matter's row is locked, the items are read without a lock,    *)
(* the lines are written from what was read and the items are claimed.        *)

\* The read that decides: an item that is not unbilled refuses the draft.
LoadUnbilledItems(s, m, its, r) ==
  /\ LockFree(m)
  /\ \A i \in its : MatterOf[i] = m /\ IsUnbilled(i)
  /\ lock' = [lock EXCEPT ![m] = s]
  /\ job' = [job EXCEPT ![s] =
       [at |-> "loaded", matter |-> m, run |-> r, todo |-> job[s].todo,
        read |-> [i \in its |-> item[i].val]]]

BeginDraft(s, m) ==
  /\ Free(s)
  /\ \E its \in SUBSET Items \ {{}} :
       /\ LockFree(m)
       /\ \A i \in its : MatterOf[i] = m /\ IsUnbilled(i)
       /\ lock' = [lock EXCEPT ![m] = s]
       /\ job' = [job EXCEPT ![s] = [at |-> "loaded", matter |-> m, run |-> None, todo |-> {},
                                     read |-> [i \in its |-> item[i].val]]]
  /\ UNCHANGED <<item, group, run, taxRule, approval>>

\* Where a run goes on once a matter is drafted or excluded.
NextMatter(j) == IF j.run = None THEN Idle ELSE [at |-> "building", run |-> j.run, todo |-> j.todo]

\* The claim takes only items that are still unbilled; the lines stand regardless.
CreateDraftBillGroup(s, g) ==
  LET j == job[s]
      lines == [i \in DOMAIN j.read |-> LineOf(j.read[i])]
  IN /\ j.at = "loaded"
     /\ group[g].st = "none"
     /\ group' = [group EXCEPT ![g] = [st |-> "draft", pending |-> FALSE, run |-> j.run,
                                       lines |-> lines, total |-> LinesTotal(lines)]]
     /\ item' = [i \in Items |->
          IF i \in DOMAIN j.read /\ item[i].st = "unbilled"
          THEN [item[i] EXCEPT !.st = "on_draft", !.group = g] ELSE item[i]]
     /\ lock' = [lock EXCEPT ![j.matter] = None]
     /\ job' = [job EXCEPT ![s] = NextMatter(j)]
     /\ UNCHANGED <<run, taxRule, approval>>

-----------------------------------------------------------------------------
(* Edits of a group, each under the group's row lock. *)

Editable(g) == group[g].st = "draft"
Frame == UNCHANGED <<run, taxRule, approval, lock, job>>

\* Mutant: the total is left as it was.
RemoveWithoutTotal(g, x) ==
  /\ Editable(g)
  /\ x \in DOMAIN group[g].lines
  /\ item' = Released({g}, {x})
  /\ group' = [group EXCEPT ![g].lines = Without(@, x)]
  /\ Frame

\* Removing one line releases the item that points to it.
RemoveDraftLine(g, x) ==
  /\ Editable(g)
  /\ x \in DOMAIN group[g].lines
  /\ item' = Released({g}, {x})
  /\ group' = RecomputeTotal(g, Without(group[g].lines, x))
  /\ Frame

WriteDownDraftItem(g, x, to) ==
  /\ Editable(g)
  /\ x \in DOMAIN group[g].lines
  /\ to < group[g].lines[x].orig
  /\ group' = RecomputeTotal(g, [group[g].lines EXCEPT ![x].amt = to, ![x].tax = LineTax(to)])
  /\ UNCHANGED item
  /\ Frame

\* Lines are drafted onto draft bills only.
AddManualDraftLine(g) ==
  /\ Editable(g)
  /\ ~group[g].pending
  /\ Manual \notin DOMAIN group[g].lines  \* bound: one manual line
  /\ group' = RecomputeTotal(g, [x \in DOMAIN group[g].lines \cup {Manual} |->
                                   IF x = Manual THEN LineOf(1) ELSE group[g].lines[x]])
  /\ UNCHANGED item
  /\ Frame

Retaxed(lines) == [x \in DOMAIN lines |-> [lines[x] EXCEPT !.tax = LineTax(lines[x].amt)]]

\* The tax is evaluated again, then every sibling goes up together.
SubmitForApproval(g) ==
  /\ approval
  /\ Editable(g)
  /\ ~group[g].pending
  /\ group' = [RecomputeTotal(g, Retaxed(group[g].lines)) EXCEPT ![g].pending = TRUE]
  /\ UNCHANGED item
  /\ Frame

SendBackToDraft(g) ==
  /\ Editable(g)
  /\ group[g].pending
  /\ group' = [group EXCEPT ![g].pending = FALSE]
  /\ UNCHANGED item
  /\ Frame

AbandonGroups(gs) ==
  /\ item' = Released(gs, Items)
  /\ group' = [g \in Groups |-> IF g \in gs
                                THEN [group[g] EXCEPT !.st = "abandoned", !.lines = NoLines]
                                ELSE group[g]]

AbandonDraftGroup(g) ==
  /\ Editable(g)
  /\ AbandonGroups({g})
  /\ Frame

-----------------------------------------------------------------------------
(* Issue: one transaction under the group's and the bills' row locks. *)

StaleTax(g) == \E x \in DOMAIN group[g].lines :
                 group[g].lines[x].tax # LineTax(group[g].lines[x].amt)

\* What issueBillGroup refuses: an empty bill, an unapproved one, an approved
\* one whose tax has moved, a total that is not the sum of its lines.
MayIssue(g) ==
  /\ Editable(g)
  /\ group[g].lines # NoLines
  /\ group[g].pending \/ ~approval
  /\ group[g].pending => ~StaleTax(g)
  /\ ~StaleTax(g) => group[g].total = LinesTotal(group[g].lines)

\* Mutant: a draft issues with the tax it was drafted with.
IssueWithoutRefresh(g) ==
  /\ group' = [group EXCEPT ![g].st = "issued"]
  /\ item' = [i \in Items |-> IF item[i].st = "on_draft" /\ item[i].group = g
                              THEN [item[i] EXCEPT !.st = "billed"] ELSE item[i]]

IssueBillGroup(g) ==
  LET lines == IF StaleTax(g) THEN Retaxed(group[g].lines) ELSE group[g].lines
  IN /\ group' = [RecomputeTotal(g, lines) EXCEPT ![g].st = "issued"]
     /\ item' = [i \in Items |-> IF item[i].st = "on_draft" /\ item[i].group = g
                                 THEN [item[i] EXCEPT !.st = "billed"] ELSE item[i]]

IssueByHand(g) ==
  /\ MayIssue(g)
  /\ IssueBillGroup(g)
  /\ Frame

-----------------------------------------------------------------------------
(* A billing run: a transaction to open it, one per matter, one to close.     *)

HasUnbilled(m) == \E i \in Items : MatterOf[i] = m /\ IsUnbilled(i)

\* A filter names any of the matters; those with unbilled work are included.
CreateBillingRun(s, r) ==
  /\ Free(s)
  /\ run[r] = "none"
  /\ run' = [run EXCEPT ![r] = "building"]
  /\ \E ms \in SUBSET Matters :
       job' = [job EXCEPT ![s] = [at |-> "building", run |-> r,
                                  todo |-> {m \in ms : HasUnbilled(m)}]]
  /\ UNCHANGED <<item, group, taxRule, approval, lock>>

\* The items are listed in a read-only transaction of their own.
ListUnbilled(s, m) ==
  /\ job[s].at = "building"
  /\ m \in job[s].todo
  /\ job' = [job EXCEPT ![s] = [at |-> "listed", run |-> @.run, todo |-> @.todo \ {m}, matter |-> m,
                                its |-> {i \in Items : MatterOf[i] = m /\ IsUnbilled(i)}]]
  /\ UNCHANGED <<item, group, run, taxRule, approval, lock>>

BeginRunDraft(s) ==
  LET j == job[s] IN
  /\ j.at = "listed"
  /\ j.its # {}
  /\ LoadUnbilledItems(s, j.matter, j.its, j.run)
  /\ UNCHANGED <<item, group, run, taxRule, approval>>

\* A refusal excludes the matter and the run continues.
ExcludeMatter(s) ==
  LET j == job[s] IN
  /\ j.at = "listed"
  /\ LockFree(j.matter)
  /\ j.its = {} \/ \E i \in j.its : ~IsUnbilled(i)
  /\ job' = [job EXCEPT ![s] = NextMatter(j)]
  /\ UNCHANGED <<item, group, run, taxRule, approval, lock>>

RunIntoReview(s) ==
  /\ job[s].at = "building"
  /\ job[s].todo = {}
  /\ run' = [run EXCEPT ![job[s].run] = "in_review"]
  /\ job' = [job EXCEPT ![s] = Idle]
  /\ UNCHANGED <<item, group, taxRule, approval, lock>>

DraftsOf(r) == {g \in Groups : group[g].run = r /\ group[g].st = "draft"}

\* Issuing lists the run's drafts, issues them one by one, then marks the run.
IssueBillingRun(s, r) ==
  /\ Free(s)
  /\ run[r] = "in_review"
  /\ DraftsOf(r) # {}
  /\ job' = [job EXCEPT ![s] = [at |-> "issuing", run |-> r, todo |-> DraftsOf(r)]]
  /\ UNCHANGED <<item, group, run, taxRule, approval, lock>>

IssueNext(s, g) ==
  /\ job[s].at = "issuing"
  /\ g \in job[s].todo
  /\ MayIssue(g)
  /\ IssueBillGroup(g)
  /\ job' = [job EXCEPT ![s].todo = @ \ {g}]
  /\ UNCHANGED <<run, taxRule, approval, lock>>

\* Mutant: a stopped run is marked issued.
StopsAndMarks(s, g) ==
  /\ job[s].at = "issuing"
  /\ g \in job[s].todo
  /\ ~MayIssue(g)
  /\ job' = [job EXCEPT ![s].todo = {}]
  /\ UNCHANGED <<item, group, run, taxRule, approval, lock>>

\* The first refusal stops the iteration; the rest stays in review.
IssueStops(s, g) ==
  /\ job[s].at = "issuing"
  /\ g \in job[s].todo
  /\ ~MayIssue(g)
  /\ job' = [job EXCEPT ![s] = Idle]
  /\ UNCHANGED <<item, group, run, taxRule, approval, lock>>

\* billing_run_guard refuses the mark on a run that is already finished.
RunIssued(s) ==
  /\ job[s].at = "issuing"
  /\ job[s].todo = {}
  /\ run' = IF run[job[s].run] = "in_review" THEN [run EXCEPT ![job[s].run] = "issued"] ELSE run
  /\ job' = [job EXCEPT ![s] = Idle]
  /\ UNCHANGED <<item, group, taxRule, approval, lock>>

AbandonBillingRun(r) ==
  /\ run[r] = "in_review"
  /\ AbandonGroups(DraftsOf(r))
  /\ run' = [run EXCEPT ![r] = "abandoned"]
  /\ UNCHANGED <<taxRule, approval, lock, job>>

-----------------------------------------------------------------------------
(* The surroundings: a pack moves the tax rule, a setting changes, a process  *)
(* stops between two statements.                                              *)

TaxRuleMoves ==
  /\ taxRule < MaxTax
  /\ taxRule' = taxRule + 1
  /\ UNCHANGED <<item, group, run, approval, lock, job>>

SetApproval ==
  /\ approval' = ~approval
  /\ UNCHANGED <<item, group, run, taxRule, lock, job>>

Crash(s) ==
  /\ ~Free(s)
  /\ job' = [job EXCEPT ![s] = Idle]
  /\ lock' = [m \in Matters |-> IF lock[m] = s THEN None ELSE lock[m]]
  /\ UNCHANGED <<item, group, run, taxRule, approval>>

\* The steps of a request that has begun.
Continues(s) ==
  \/ \E g \in Groups : CreateDraftBillGroup(s, g) \/ IssueNext(s, g) \/ IssueStops(s, g)
  \/ \E m \in Matters : ListUnbilled(s, m)
  \/ BeginRunDraft(s) \/ ExcludeMatter(s) \/ RunIntoReview(s) \/ RunIssued(s)

Requests ==
  \/ \E i \in Items : \/ \E v \in 1..MaxValue : EditItem(i, v)
                      \/ WriteOffUnbilledItem(i) \/ SoftDeleteUnbilledItem(i)
                      \/ RestoreUnbilledItem(i)
  \/ \E s \in Sessions : \/ \E m \in Matters : BeginDraft(s, m)
                         \/ \E r \in Runs : CreateBillingRun(s, r) \/ IssueBillingRun(s, r)
  \/ \E g \in Groups : \/ \E x \in Sources : \/ RemoveDraftLine(g, x)
                                             \/ \E v \in 0..MaxValue : WriteDownDraftItem(g, x, v)
                       \/ AddManualDraftLine(g) \/ SubmitForApproval(g) \/ SendBackToDraft(g)
                       \/ AbandonDraftGroup(g) \/ IssueByHand(g)
  \/ \E r \in Runs : AbandonBillingRun(r)
  \/ TaxRuleMoves \/ SetApproval

Next == Requests \/ \E s \in Sessions : Continues(s) \/ Crash(s)
Spec == Init /\ [][Next]_vars

-----------------------------------------------------------------------------
ItemRow == [st : {"unbilled", "on_draft", "billed", "written_off"}, deleted : BOOLEAN,
            val : 1..MaxValue, group : Groups \cup {None}]
LineRow == [orig : Nat, amt : Nat, tax : Nat]
GroupRow(xs) == [st : {"none", "draft", "issued", "abandoned"}, pending : BOOLEAN,
                 run : Runs \cup {None}, lines : [xs -> LineRow], total : Nat]
Values == UNION {[is -> 1..MaxValue] : is \in SUBSET Items}

Job == {Idle}
  \cup [at : {"loaded"}, matter : Matters, run : Runs \cup {None}, todo : SUBSET Matters,
        read : Values]
  \cup [at : {"building"}, run : Runs, todo : SUBSET Matters]
  \cup [at : {"listed"}, run : Runs, todo : SUBSET Matters, matter : Matters,
        its : SUBSET Items]
  \cup [at : {"issuing"}, run : Runs, todo : SUBSET Groups]

TypeOK ==
  /\ item \in [Items -> ItemRow]
  /\ group = [g \in Groups |-> group[g]]
  /\ \A g \in Groups : /\ DOMAIN group[g].lines \subseteq Sources
                       /\ group[g] \in GroupRow(DOMAIN group[g].lines)
  /\ run \in [Runs -> {"none", "building", "in_review", "issued", "abandoned"}]
  /\ taxRule \in Nat /\ approval \in BOOLEAN
  /\ lock \in [Matters -> Sessions \cup {None}]
  /\ job \in [Sessions -> Job]

\* An item stands on the lines of one live group at most: whoever drafts it
\* second is refused, whichever screen or run the drafts come from
\* (drafting.ts:4-5), and a removed or abandoned line frees it first.
BilledOnce ==
  \A i \in Items, g, h \in Groups :
    i \in DOMAIN group[g].lines /\ i \in DOMAIN group[h].lines => g = h

\* The recorded total of a group is the sum over its lines after every edit, so
\* that the check of issue.ts:315 never refuses a group for its own history.
TotalFollowsLines ==
  \A g \in Groups : group[g].st \in {"draft", "issued"} => group[g].total = LinesTotal(group[g].lines)

\* The lines of an issued group are taxed under one rule, however often the rule
\* moved while the group was drafted, edited and approved (issue.ts:70-75).
OneRulePerBill ==
  \A g \in Groups : group[g].st = "issued" =>
    \E rule \in 0..taxRule : \A x \in DOMAIN group[g].lines :
      group[g].lines[x].tax = group[g].lines[x].amt * rule

\* A run that is issued or abandoned leaves no group of its own in draft,
\* whoever edits, issues or abandons its groups one by one meanwhile.
FinishedRunsHoldNoDrafts ==
  \A r \in Runs : run[r] \in {"issued", "abandoned"} => DraftsOf(r) = {}

\* What a bill may rest on: its items are on no other, its total is that of its lines, it
\* is taxed under one rule, and its run leaves no draft behind.
BilledRight ==
  /\ BilledOnce
  /\ TotalFollowsLines
  /\ OneRulePerBill
  /\ FinishedRunsHoldNoDrafts

\* Not kept: the items are read before they are claimed, and the claim passes
\* over an item written off in between, whose line stays on the bill.
WrittenOffNeverBilled ==
  \A i \in Items, g \in Groups :
    group[g].st = "issued" /\ i \in DOMAIN group[g].lines => item[i].st = "billed"

\* Not kept: an edit between the read and the claim changes the item, and the
\* line keeps the value that was read.
DraftedAtValue ==
  \A i \in Items, g \in Groups :
    item[i].group = g /\ i \in DOMAIN group[g].lines => group[g].lines[i].orig = item[i].val

(***************************************************************************)
(* Why: what an item's pointer says of the lines, and what every session    *)
(* still holds of what it has read.                                         *)
(***************************************************************************)

\* An item points to the group whose lines it is on, a draft or an issued one; only
\* one written off after it was read stands on lines it does not point to.
StandsOn(i, state) ==
  \E g \in Groups : /\ item[i].group = g /\ group[g].st = state
                    /\ i \in DOMAIN group[g].lines
PointerSound(i) ==
  /\ item[i].st \in {"unbilled", "written_off"} => item[i].group = None
  /\ item[i].st = "on_draft" => StandsOn(i, "draft")
  /\ item[i].st = "billed" => StandsOn(i, "issued")
  /\ \A g \in Groups : i \in DOMAIN group[g].lines =>
       item[i].st = "written_off" \/ item[i].group = g

\* What a session loaded is on no lines yet, and the matter's row is its own.
Loaded(s) ==
  job[s].at = "loaded" =>
    /\ lock[job[s].matter] = s
    /\ \A i \in DOMAIN job[s].read : /\ MatterOf[i] = job[s].matter
                                     /\ \A g \in Groups : i \notin DOMAIN group[g].lines

\* A run is built by one session, and issued from the drafts that are left of it.
Builds(s, r) == job[s].at \in {"loaded", "building", "listed"} /\ job[s].run = r
Works(s) ==
  \A r \in Runs :
    /\ Builds(s, r) => run[r] = "building" /\ \A q \in Sessions : Builds(q, r) => q = s
    /\ job[s].at = "issuing" /\ job[s].run = r =>
         run[r] \notin {"none", "building"} /\ DraftsOf(r) \subseteq job[s].todo

Discipline ==
  /\ TypeOK
  /\ \A i \in Items : PointerSound(i)
  /\ \A s \in Sessions : Loaded(s) /\ Works(s)
  /\ BilledRight
=============================================================================
