------------------------------ MODULE Workflow ------------------------------
\* Workflow on a matter: the stages copied from a template, and the proposals that move
\* the dates and owners of tasks. They touch different columns of a task; each part has
\* its own variables and its own next-state relation.
EXTENDS Integers, FiniteSets

-----------------------------------------------------------------------------
(***************************************************************************)
(* Workflow templates and the stages of one matter (lib/ops/workflow:      *)
(* templates, apply, hooks).  An application copies the template's stages  *)
(* and their tasks onto the matter while the template's administrator may  *)
(* replace them: it reads the tree in one statement and writes the copies  *)
(* in later ones, holding the matter but not the template.                 *)
(***************************************************************************)
CONSTANTS
    Templates,     \* templates of the matter's practice area
    Actors,        \* staff applying a template
    MaxStages,     \* stages of a template
    MaxVersions    \* trees a template goes through

VARIABLES
    template,      \* workflow_template and its template_stage tree
    stage,         \* matter_stage: state, entered_at, template_origin
    tasks,         \* the task of each stage: state and whether it is dated
    status,        \* matter.status: open or closed
    applying       \* applications in flight

stageVars == <<template, stage, tasks, status, applying>>

Positions == 1..MaxStages
NoTask == [made |-> FALSE, done |-> FALSE, deleted |-> FALSE, dated |-> FALSE]
NoStage == [state |-> "none", entered |-> FALSE, origin |-> <<>>]
Idle == [at |-> "idle"]

StageTypeOK ==
    /\ template \in [Templates -> [active : BOOLEAN, version : 0..MaxVersions, size : 0..MaxStages]]
    /\ \A k \in Positions :
        /\ stage[k].state \in {"none", "pending", "current", "done"} /\ stage[k].entered \in BOOLEAN
        /\ stage[k].state # "none" => stage[k].origin \in Templates \X (1..MaxVersions)
    /\ tasks \in [Positions -> [made : BOOLEAN, done : BOOLEAN, deleted : BOOLEAN, dated : BOOLEAN]]
    /\ status \in {"open", "closed"}
    /\ \A a \in Actors : applying[a].at \in {"idle", "copying"}

StageInit ==
    /\ template = [t \in Templates |-> [active |-> FALSE, version |-> 0, size |-> 0]]
    /\ stage = [k \in Positions |-> NoStage] /\ tasks = [k \in Positions |-> NoTask]
    /\ status = "open" /\ applying = [a \in Actors |-> Idle]

\* The matter is held by an application until it commits.
MatterFree == \A a \in Actors : applying[a] = Idle
Carried == {k \in Positions : stage[k].state # "none"}
StageTaskOpen(k) == tasks[k].made /\ ~tasks[k].done /\ ~tasks[k].deleted
Current == {k \in Positions : stage[k].state = "current"}

-----------------------------------------------------------------------------
\* The tree is inserted with the template.
CreateWorkflowTemplate(t, n) ==
    /\ template[t].version = 0
    /\ template' = [template EXCEPT ![t] = [active |-> TRUE, version |-> 1, size |-> n]]
    /\ UNCHANGED <<stage, tasks, status, applying>>

\* Copied stages name their template stage, which the operation counts and the
\* foreign key enforces: a referenced tree is never replaced.
AnyTree(t) == TRUE
Unreferenced(t) == \A k \in Carried : stage[k].origin[1] # t

ReplaceTemplateStages(t, n) ==
    /\ template[t].version \in 1..(MaxVersions - 1) /\ Unreferenced(t)
    /\ template' = [template EXCEPT ![t].version = @ + 1, ![t].size = n]
    /\ UNCHANGED <<stage, tasks, status, applying>>

SetWorkflowTemplateActive(t) ==
    /\ template[t].version > 0
    /\ template' = [template EXCEPT ![t].active = ~@]
    /\ UNCHANGED <<stage, tasks, status, applying>>

-----------------------------------------------------------------------------
\* The application takes the matter, finds the template active and the matter
\* without stages, and reads the stages it will copy.  Over an untouched
\* skeleton it would replace it, but deedbox_app may not delete a matter_stage:
\* that application fails whole, so it is not a step.
ApplyTemplate(a, t) ==
    /\ MatterFree /\ status = "open" /\ template[t].active /\ Carried = {}
    /\ applying' = [applying EXCEPT ![a] =
           [at |-> "copying", template |-> t, version |-> template[t].version, size |-> template[t].size]]
    /\ UNCHANGED <<template, stage, tasks, status>>

\* The practice area's one active template, when a matter is created.
ApplyTemplateIfAny(a) ==
    /\ Cardinality({t \in Templates : template[t].active}) = 1
    /\ \E t \in Templates : ApplyTemplate(a, t)

\* Every copy names a template stage that still is one, or all of it fails.
NoOrigin(a) == 0
OriginOf(a) == applying[a].version
StillThere(a) == applying[a].version = template[applying[a].template].version

CopyStages(a) ==
    /\ applying[a].at = "copying"
    /\ IF StillThere(a)
       THEN /\ stage' = [k \in Positions |-> IF k > applying[a].size THEN NoStage
                ELSE [state |-> "pending", entered |-> FALSE,
                      origin |-> <<applying[a].template, OriginOf(a)>>]]
            /\ tasks' = [k \in Positions |-> IF k > applying[a].size THEN NoTask
                ELSE [NoTask EXCEPT !.made = TRUE]]
       ELSE UNCHANGED <<stage, tasks>>
    /\ applying' = [applying EXCEPT ![a] = Idle]
    /\ UNCHANGED <<template, status>>

-----------------------------------------------------------------------------
\* Entering a stage demotes the current one: done when the matter moves on,
\* pending when it moves back.  The stage's open tasks are dated on first
\* entry, or again when the user asks.
EnterStage(k, recompute) ==
    /\ MatterFree /\ status = "open" /\ k \in Carried
    /\ LET forward == \A c \in Current : c < k
           dating == ~stage[k].entered \/ recompute
       IN /\ stage' = [j \in Positions |->
                 CASE j = k -> [stage[j] EXCEPT !.state = "current", !.entered = TRUE]
                   [] j \in Current \ {k} -> [stage[j] EXCEPT !.state = IF forward THEN "done" ELSE "pending"]
                   [] OTHER -> stage[j]]
          /\ tasks' = [tasks EXCEPT ![k].dated = @ \/ (dating /\ StageTaskOpen(k))]
    /\ UNCHANGED <<template, status, applying>>

\* completeStage takes neither the matter nor looks at its status.
CompleteStage(k) ==
    /\ k \in Current /\ stage' = [stage EXCEPT ![k].state = "done"]
    /\ UNCHANGED <<template, tasks, status, applying>>

Reopen(k) ==
    /\ stage' = [j \in Positions |->
           CASE j = k -> [stage[j] EXCEPT !.state = "current"]
             [] j \in Current \ {k} -> [stage[j] EXCEPT !.state = "pending"]
             [] OTHER -> stage[j]]
    /\ UNCHANGED <<template, tasks, status, applying>>

AnyReopens(k) == MatterFree /\ status = "open" /\ k \in Carried /\ Reopen(k)
ReopenStage(k) == MatterFree /\ status = "open" /\ stage[k].state = "done" /\ Reopen(k)

-----------------------------------------------------------------------------
\* The stage's task, as its owner works on it while the matter is open.
SetStageTaskDone(k) ==
    /\ status = "open" /\ tasks[k].made /\ ~tasks[k].deleted
    /\ tasks' = [tasks EXCEPT ![k].done = ~@]
    /\ UNCHANGED <<template, stage, status, applying>>

SoftDeleteStageTask(k) ==
    /\ status = "open" /\ tasks[k].made /\ ~tasks[k].deleted
    /\ tasks' = [tasks EXCEPT ![k].deleted = TRUE]
    /\ UNCHANGED <<template, stage, status, applying>>

RestoreStageTask(k) ==
    /\ status = "open" /\ tasks[k].deleted
    /\ tasks' = [tasks EXCEPT ![k].deleted = FALSE]
    /\ UNCHANGED <<template, stage, status, applying>>

\* The matter closes and reopens under its own lock.
MoveMatter ==
    /\ MatterFree /\ status' = (IF status = "open" THEN "closed" ELSE "open")
    /\ UNCHANGED <<template, stage, tasks, applying>>

StageNext ==
    \/ \E t \in Templates, n \in Positions : CreateWorkflowTemplate(t, n) \/ ReplaceTemplateStages(t, n)
    \/ \E t \in Templates : SetWorkflowTemplateActive(t)
    \/ \E a \in Actors : ApplyTemplateIfAny(a) \/ CopyStages(a) \/ \E t \in Templates : ApplyTemplate(a, t)
    \/ \E k \in Positions :
        \/ CompleteStage(k) \/ ReopenStage(k) \/ SetStageTaskDone(k) \/ SoftDeleteStageTask(k) \/ RestoreStageTask(k)
        \/ \E recompute \in BOOLEAN : EnterStage(k, recompute)
    \/ MoveMatter

StageSpec == StageInit /\ [][StageNext]_stageVars

-----------------------------------------------------------------------------
\* apply.ts: "application is whole or not at all".  The stages a matter
\* carries, each with its task, are all of one tree of one template, and that
\* tree is still the template's - whatever its administrator did meanwhile.
WholeTree ==
    Carried # {} =>
        \E t \in Templates :
            /\ Carried = 1..template[t].size
            /\ \A k \in Carried :
                stage[k].origin = <<t, template[t].version>> /\ tasks[k].made

\* A stage is current or done only once it was entered, so that its tasks were
\* dated, and at most one is current - through going on, going back,
\* completing and reopening in any order.
MovedWhenEntered ==
    /\ \A k \in Positions : stage[k].state \in {"current", "done"} => stage[k].entered
    /\ Cardinality(Current) <= 1

\* Not kept: apply.ts:4-5: "stage-entry due rules rest null until the stage is
\* entered" - and no longer: an open task of an entered stage is dated.  One
\* that was done or deleted at the entry comes back undated.
DatedOnceEntered ==
    \A k \in Positions : stage[k].entered /\ StageTaskOpen(k) => tasks[k].dated

\* Not kept: apply.ts:247: "stages move on open matters only".  Completing one
\* does not look at the matter.
StagesMoveOpen == [][status = "closed" => stage' = stage]_stageVars

-----------------------------------------------------------------------------
(***************************************************************************)
(* Anchor dates, staffing, and the proposals they raise over a matter's    *)
(* tasks (lib/ops/workflow: anchors, tasks).  A date or an owner that      *)
(* depends on an anchor or on the responsible lawyer moves only when a     *)
(* proposal is confirmed; in between, people edit, finish and delete the   *)
(* same tasks.  Raising a proposal computes it with the register's head    *)
(* already held, so nothing commits until it does; deciding one holds the  *)
(* proposal, then each task it looks at again.                             *)
(***************************************************************************)
CONSTANTS
    Tasks, Definitions,
    RuleOf,       \* the anchor definition of each task's due rule
    Staff,
    MaxDate       \* dates are 1..MaxDate, 0 is none

VARIABLES
    anchor,       \* matter_anchor_date per definition
    responsible,  \* the matter's responsible lawyer
    task,         \* owner, due_date, done, deleted
    dates,        \* the pending date_recompute_proposal: its items
    slots,        \* the pending slot_reresolution_proposal: its items
    images        \* the items of the last slot run: before-image and real owner

proposalVars == <<anchor, responsible, task, dates, slots, images>>

Dates == 0..MaxDate
Nothing == {}      \* no pending proposal, or a computation without items
DateItem == [task : Tasks, old : Dates, new : Dates]
SlotItem == [task : Tasks, old : Staff, new : Staff]

ProposalTypeOK ==
    /\ anchor \in [Definitions -> Dates] /\ responsible \in Staff
    /\ task \in [Tasks -> [owner : Staff, due : Dates, done : BOOLEAN, deleted : BOOLEAN]]
    /\ dates \subseteq DateItem /\ slots \subseteq SlotItem
    /\ images \subseteq [before : Staff, actual : Staff]

ProposalInit ==
    /\ anchor = [d \in Definitions |-> 0]
    /\ \E s \in Staff :
        /\ responsible = s
        /\ task = [i \in Tasks |-> [owner |-> s, due |-> 0, done |-> FALSE, deleted |-> FALSE]]
    /\ dates = Nothing /\ slots = Nothing
    /\ images = {}

OpenTasks == {i \in Tasks : ~task[i].done /\ ~task[i].deleted}

-----------------------------------------------------------------------------
\* Every open task whose rule names the definition and whose date differs.
ComputeDependents(d, value) ==
    {[task |-> i, old |-> task[i].due, new |-> value] :
        i \in {j \in OpenTasks : RuleOf[j] = d /\ task[j].due # value}}

\* A proposal is raised only when something depends, and the schema supersedes
\* whatever the matter had pending on insert.
Supersede(items, pending) == IF items = Nothing THEN pending ELSE items

SetAnchorValue(d, value) ==
    /\ anchor' = [anchor EXCEPT ![d] = value]
    /\ dates' = Supersede(ComputeDependents(d, value), dates)
    /\ UNCHANGED <<responsible, task, slots, images>>

RaiseSlotReresolution(to) ==
    {[task |-> i, old |-> task[i].owner, new |-> to] : i \in {j \in OpenTasks : task[j].owner # to}}

ChangeStaffing(to) ==
    /\ to # responsible /\ responsible' = to
    /\ slots' = Supersede(RaiseSlotReresolution(to), slots)
    /\ UNCHANGED <<anchor, task, dates, images>>

-----------------------------------------------------------------------------
\* Confirmed items move tasks that are still open; a date whatever it has
\* become since, an owner only when it is the one the proposal showed.
AnyOwner(item) == TRUE
OwnerUnmoved(item) == task[item.task].owner = item.old

DecideRecomputeProposal(accepted) ==
    /\ dates # Nothing /\ dates' = Nothing
    /\ LET applied == {item \in dates : item.task \in accepted \cap OpenTasks}
       IN task' = [i \in Tasks |->
              IF \E item \in applied : item.task = i
              THEN [task[i] EXCEPT !.due = (CHOOSE item \in applied : item.task = i).new] ELSE task[i]]
    /\ UNCHANGED <<anchor, responsible, slots, images>>

DecideSlotProposal(accepted) ==
    /\ slots # Nothing /\ slots' = Nothing
    /\ LET applied == {item \in slots : item.task \in accepted \cap OpenTasks /\ OwnerUnmoved(item)}
       IN /\ task' = [i \in Tasks |->
                 IF \E item \in applied : item.task = i
                 THEN [task[i] EXCEPT !.owner = (CHOOSE item \in applied : item.task = i).new] ELSE task[i]]
          /\ images' = {[before |-> item.old, actual |-> task[item.task].owner] : item \in applied}
          /\ UNCHANGED <<anchor, responsible, dates>>

-----------------------------------------------------------------------------
\* A task as people work on it while its matter is open.
EditTask(i, due, owner) ==
    /\ ~task[i].deleted /\ task' = [task EXCEPT ![i].due = due, ![i].owner = owner]
    /\ UNCHANGED <<anchor, responsible, dates, slots, images>>

SetTaskDone(i) ==
    /\ ~task[i].deleted /\ task' = [task EXCEPT ![i].done = ~@]
    /\ UNCHANGED <<anchor, responsible, dates, slots, images>>

SoftDeleteTask(i) ==
    /\ ~task[i].deleted /\ task' = [task EXCEPT ![i].deleted = TRUE]
    /\ UNCHANGED <<anchor, responsible, dates, slots, images>>

RestoreTask(i) ==
    /\ task[i].deleted /\ task' = [task EXCEPT ![i].deleted = FALSE]
    /\ UNCHANGED <<anchor, responsible, dates, slots, images>>

ProposalNext ==
    \/ \E d \in Definitions, value \in 1..MaxDate : SetAnchorValue(d, value)
    \/ \E to \in Staff : ChangeStaffing(to)
    \/ \E accepted \in SUBSET Tasks : DecideRecomputeProposal(accepted) \/ DecideSlotProposal(accepted)
    \/ \E i \in Tasks :
        \/ \E due \in Dates, owner \in Staff : EditTask(i, due, owner)
        \/ SetTaskDone(i) \/ SoftDeleteTask(i) \/ RestoreTask(i)

ProposalSpec == ProposalInit /\ [][ProposalNext]_proposalVars

-----------------------------------------------------------------------------
\* What a slot run records as before is what it replaced, though people change
\* owners between the proposal and its decision: reversing the run would give
\* each task back to the person who had it.
SlotImagesTrue == \A image \in images : image.before = image.actual

\* Not kept: anchors.ts:5-6: "the freshest computation is the only pending
\* proposal". What is pending proposes the dates the anchors now have.  A later
\* value that no open task differs from raises nothing and leaves the earlier
\* proposal waiting.
FreshestPending ==
    \A item \in dates : item.new = anchor[RuleOf[item.task]]
=============================================================================
