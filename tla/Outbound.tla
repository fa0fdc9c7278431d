------------------------------ MODULE Outbound ------------------------------
\* What the office sends by itself: queued messages, and scheduled reports. Each part has
\* its own variables and its own next-state relation.
EXTENDS Integers, FiniteSets

-----------------------------------------------------------------------------
(***************************************************************************)
(* The outbound message queue (lib/ops/outbound/messages.ts): messages are *)
(* queued with their rendered copy, dispatched by the job outbound-dispatch*)
(* one transaction each, and retried by staff as new rows.  A transaction  *)
(* of the dispatcher takes the oldest queued row that nobody has locked,   *)
(* hands it to the mail service while it holds the lock, and marks it; the *)
(* copy of a despatched bill is filed afterwards, in transactions of its   *)
(* own.  A dispatcher may die between any two of these steps.              *)
(***************************************************************************)
CONSTANTS
    Rows,       \* the ids the queue may give out, 1..n
    Bills,      \* those that are bill despatches, sent with an attachment
    Workers,    \* runs of the job outbound-dispatch
    NoOne,      \* the retry_of of a message that retries nothing
    MaxDeaths   \* bound: how many dispatchers die

VARIABLES
    state,     \* outbound_message.state, "none" before the row exists
    source,    \* outbound_message.retry_of
    reached,   \* how many copies of each message the mail service took
    copies,    \* documents filed for each message (external_ref)
    noted,     \* the register's note that a copy could not be filed
    at,        \* where each dispatcher stands
    holds,     \* the row it works on
    deaths     \* how many dispatchers died while they delivered each row

queueVars == <<state, source, reached, copies, noted, at, holds, deaths>>

Working == {"deliver", "mark_sent", "mark_failed"}   \* inside the row's transaction
Filing == {"target", "store", "file", "note"}

QueueTypeOK ==
    /\ state \in [Rows -> {"none", "queued", "sent", "failed"}]
    /\ source \in [Rows -> Rows \cup {NoOne}]
    /\ reached \in [Rows -> Nat] /\ copies \in [Rows -> Nat] /\ deaths \in [Rows -> Nat]
    /\ noted \in [Rows -> BOOLEAN]
    /\ at \in [Workers -> {"idle"} \cup Working \cup Filing]
    /\ holds \in [Workers -> Rows \cup {NoOne}]

QueueInit ==
    /\ state = [m \in Rows |-> "none"] /\ source = [m \in Rows |-> NoOne]
    /\ reached = [m \in Rows |-> 0] /\ copies = [m \in Rows |-> 0]
    /\ noted = [m \in Rows |-> FALSE] /\ deaths = [m \in Rows |-> 0]
    /\ at = [w \in Workers |-> "idle"] /\ holds = [w \in Workers |-> NoOne]

Died == Cardinality({m \in Rows : deaths[m] > 0})

\* A row is born queued, with the next id.
Insert(of) ==
    \E m \in Rows :
        /\ state[m] = "none" /\ \A k \in Rows : k < m => state[k] # "none"
        /\ state' = [state EXCEPT ![m] = "queued"]
        /\ source' = [source EXCEPT ![m] = of]
        /\ UNCHANGED <<reached, copies, noted, at, holds, deaths>>

QueueOutboundMessage == Insert(NoOne)

\* Retrying reads the failed row without a lock and leaves it as it is, so
\* nothing refuses a second retry of it.
RetryOutboundMessage(m) == state[m] = "failed" /\ Insert(m)

-----------------------------------------------------------------------------
\* for update skip locked
AnyQueued(m) == TRUE
Unlocked(m) == \A w \in Workers : ~(holds[w] = m /\ at[w] \in Working)

Waiting == {m \in Rows : state[m] = "queued" /\ Unlocked(m)}

Go(w, m, place) ==
    /\ at' = [at EXCEPT ![w] = place]
    /\ holds' = [holds EXCEPT ![w] = IF place = "idle" THEN NoOne ELSE m]

TakeOldest(w) ==
    /\ at[w] = "idle"
    /\ \E m \in Waiting :
        /\ \A k \in Waiting : m <= k
        /\ Go(w, m, "deliver")
    /\ UNCHANGED <<state, source, reached, copies, noted, deaths>>

\* What the transport may do with a message: the mail service takes it and
\* says so; the transport refuses it before it is sent (a channel nobody
\* binds, a rendering nobody presents, no converter); the service takes it or
\* not, and the answer is an error or is lost.
Outcomes == {[taken |-> 1, ok |-> TRUE], [taken |-> 0, ok |-> FALSE], [taken |-> 1, ok |-> FALSE]}

Deliver(w) ==
    /\ at[w] = "deliver"
    /\ \E o \in Outcomes :
        /\ reached' = [reached EXCEPT ![holds[w]] = @ + o.taken]
        /\ Go(w, holds[w], IF o.ok THEN "mark_sent" ELSE "mark_failed")
    /\ UNCHANGED <<state, source, copies, noted, deaths>>

\* The mark commits with the transaction; only a queued row takes one
\* (outbound_message_guard), so a second mark ends its transaction instead.
SentOnly(m, outcome) == state' = [state EXCEPT ![m] = IF outcome = "sent" THEN outcome ELSE @]
Marked(m, outcome) == state' = [state EXCEPT ![m] = IF @ = "queued" THEN outcome ELSE @]

MarkAndCommit(w) ==
    LET sent == at[w] = "mark_sent" IN
    /\ at[w] \in {"mark_sent", "mark_failed"}
    /\ Marked(holds[w], IF sent THEN "sent" ELSE "failed")
    /\ Go(w, holds[w], IF sent /\ holds[w] \in Bills THEN "target" ELSE "idle")
    /\ UNCHANGED <<source, reached, copies, noted, deaths>>

-----------------------------------------------------------------------------
\* fileDespatchedBillCopy: the bill and the sender (or a copy already there),
\* then the bytes, then the rows; any failure is noted on the register.
FindTarget(w) ==
    /\ at[w] = "target"
    /\ \/ copies[holds[w]] > 0 /\ Go(w, holds[w], "idle")
       \/ copies[holds[w]] = 0 /\ \E next \in {"store", "note"} : Go(w, holds[w], next)
    /\ UNCHANGED <<state, source, reached, copies, noted, deaths>>

StoreBytes(w) ==
    /\ at[w] = "store"
    /\ \E next \in {"file", "note"} : Go(w, holds[w], next)
    /\ UNCHANGED <<state, source, reached, copies, noted, deaths>>

FileCopy(w) ==
    /\ at[w] = "file"
    /\ \/ /\ copies' = [copies EXCEPT ![holds[w]] = @ + 1]
          /\ Go(w, holds[w], "idle")
       \/ Go(w, holds[w], "note") /\ UNCHANGED copies
    /\ UNCHANGED <<state, source, reached, noted, deaths>>

NoteFailure(w) ==
    /\ at[w] = "note"
    /\ \E written \in BOOLEAN : noted' = [noted EXCEPT ![holds[w]] = @ \/ written]
    /\ Go(w, holds[w], "idle")
    /\ UNCHANGED <<state, source, reached, copies, deaths>>

\* A dispatcher dies: its open transaction is rolled back, what it did
\* outside the database stays done.
Die(w) ==
    /\ at[w] # "idle" /\ Died < MaxDeaths /\ deaths[holds[w]] = 0
    /\ deaths' = [deaths EXCEPT ![holds[w]] = @ + 1]
    /\ Go(w, holds[w], "idle")
    /\ UNCHANGED <<state, source, reached, copies, noted>>

Works(w) ==
    \/ TakeOldest(w) \/ Deliver(w) \/ MarkAndCommit(w)
    \/ FindTarget(w) \/ StoreBytes(w) \/ FileCopy(w) \/ NoteFailure(w)

QueueNext ==
    \/ QueueOutboundMessage
    \/ \E m \in Rows : RetryOutboundMessage(m)
    \/ \E w \in Workers : Works(w) \/ Die(w)

QueueSpec == QueueInit /\ [][QueueNext]_queueVars

\* The scheduler keeps running the job, and a dispatcher that lives goes on.
QueueFairSpec == QueueSpec /\ \A w \in Workers : WF_queueVars(Works(w))

-----------------------------------------------------------------------------
\* "At-least-once, honestly": the mail service gets one row twice only when a
\* dispatcher died between handing it over and committing the mark, never
\* because two dispatchers ran together.
TwiceOnlyAfterDeath == \A m \in Rows : reached[m] <= 1 + deaths[m]

Queued(m) == state[m] = "queued"
Ended(m) == state[m] \in {"sent", "failed"}

\* Every queued message is marked in the end, whoever dies on the way.
EveryMessageEnds == \A m \in Rows : Queued(m) ~> Ended(m)

-----------------------------------------------------------------------------
(***************************************************************************)
(* A scheduled report and the job that sends it (lib/ops/reports:          *)
(* schedules).  A run lists the due schedules, reads the recipients in one *)
(* transaction, serves each in a transaction of its own, and advances the  *)
(* schedule in a last one; nothing is locked in between.  Runs overlap or  *)
(* die, people leave and return, and the owner pauses and resumes.         *)
(***************************************************************************)
CONSTANTS
    Recipients, Runners,
    MaxPeriods,   \* times the schedule falls due
    MaxCrashes    \* runs that die

VARIABLES
    schedule,   \* report_schedule: created, active, due (next_run_at <= now)
    staff,      \* recipients who are active staff
    job,        \* the runs: at, the recipients as read, those still to serve
    sent,       \* copies queued to each recipient since it last fell due
    excused,    \* a run died or overlapped another since then
    periods, crashes

reportVars == <<schedule, staff, job, sent, excused, periods, crashes>>

Idle == [at |-> "idle", seen |-> {}, todo |-> {}]
Running == {w \in Runners : job[w] # Idle}

ReportTypeOK ==
    /\ schedule \in [created : BOOLEAN, active : BOOLEAN, due : BOOLEAN]
    /\ staff \subseteq Recipients
    /\ job \in [Runners -> [at : {"idle", "listed", "serving"}, seen : SUBSET Recipients, todo : SUBSET Recipients]]
    /\ sent \in [Recipients -> Nat] /\ excused \in BOOLEAN
    /\ periods \in 0..MaxPeriods /\ crashes \in 0..MaxCrashes

ReportInit ==
    /\ schedule = [created |-> FALSE, active |-> FALSE, due |-> FALSE] /\ staff = Recipients
    /\ job = [w \in Runners |-> Idle] /\ sent = [r \in Recipients |-> 0]
    /\ excused = FALSE /\ periods = 0 /\ crashes = 0

-----------------------------------------------------------------------------
\* Every recipient is active when the schedule is made; it is due at once.
CreateReportSchedule ==
    /\ ~schedule.created /\ staff = Recipients
    /\ schedule' = [created |-> TRUE, active |-> TRUE, due |-> TRUE]
    /\ UNCHANGED <<staff, job, sent, excused, periods, crashes>>

\* Resuming needs an active recipient.
SetSchedulePaused(paused) ==
    /\ schedule.created /\ schedule.active = paused
    /\ paused \/ staff # {}
    /\ schedule' = [schedule EXCEPT !.active = ~paused]
    /\ UNCHANGED <<staff, job, sent, excused, periods, crashes>>

\* A recipient leaves the firm or returns.
MoveStaff(r) ==
    /\ staff' = IF r \in staff THEN staff \ {r} ELSE staff \cup {r}
    /\ UNCHANGED <<schedule, job, sent, excused, periods, crashes>>

\* next_run_at passes.
FallDue ==
    /\ schedule.created /\ ~schedule.due /\ periods < MaxPeriods
    /\ schedule' = [schedule EXCEPT !.due = TRUE] /\ periods' = periods + 1
    /\ sent' = [r \in Recipients |-> 0] /\ excused' = (Running # {})
    /\ UNCHANGED <<staff, job, crashes>>

-----------------------------------------------------------------------------
RunDueSchedules(w) ==
    /\ job[w] = Idle /\ schedule.active /\ schedule.due
    /\ job' = [job EXCEPT ![w].at = "listed"]
    /\ excused' = (excused \/ Running # {})
    /\ UNCHANGED <<schedule, staff, sent, periods, crashes>>

\* Who is active is read once, for the whole run.
ReadRecipients(w) ==
    /\ job[w].at = "listed"
    /\ job' = [job EXCEPT ![w] = [at |-> "serving", seen |-> staff, todo |-> staff]]
    /\ UNCHANGED <<schedule, staff, sent, excused, periods, crashes>>

\* One recipient, under that recipient's own sight of the matters: the copy is
\* stored, registered and queued, or the unit fails and is noted as a skip.
SendTo(w, r, succeeds) ==
    /\ r \in job[w].todo
    /\ sent' = IF succeeds THEN [sent EXCEPT ![r] = @ + 1] ELSE sent
    /\ job' = [job EXCEPT ![w].todo = @ \ {r}]
    /\ UNCHANGED <<schedule, staff, excused, periods, crashes>>

\* Advances whatever the units came to; nobody to serve pauses the schedule.
StaysDue(w) == [schedule EXCEPT !.active = (job[w].seen # {})]
OnlyIfAllSent(w) ==
    [schedule EXCEPT !.active = (@ /\ job[w].seen # {}),
                     !.due = \E r \in job[w].seen : sent[r] = 0]
Advanced(w) ==
    IF job[w].seen = {} THEN [schedule EXCEPT !.active = FALSE] ELSE [schedule EXCEPT !.due = FALSE]

FinishRun(w) ==
    /\ job[w].at = "serving" /\ job[w].todo = {}
    /\ schedule' = Advanced(w) /\ job' = [job EXCEPT ![w] = Idle]
    /\ UNCHANGED <<staff, sent, excused, periods, crashes>>

Crash(w) ==
    /\ job[w] # Idle /\ crashes < MaxCrashes
    /\ job' = [job EXCEPT ![w] = Idle] /\ crashes' = crashes + 1 /\ excused' = TRUE
    /\ UNCHANGED <<schedule, staff, sent, periods>>

ReportNext ==
    \/ CreateReportSchedule \/ FallDue
    \/ \E paused \in BOOLEAN : SetSchedulePaused(paused)
    \/ \E r \in Recipients : MoveStaff(r)
    \/ \E w \in Runners :
        \/ RunDueSchedules(w) \/ ReadRecipients(w) \/ FinishRun(w) \/ Crash(w)
        \/ \E r \in Recipients, succeeds \in BOOLEAN : SendTo(w, r, succeeds)

ReportSpec == ReportInit /\ [][ReportNext]_reportVars

\* The platform calls the job again and again, and a run goes on unless it
\* dies.  Whether a unit succeeds is nobody's promise.
ReportFairness ==
    \A w \in Runners :
        /\ WF_reportVars(RunDueSchedules(w)) /\ WF_reportVars(ReadRecipients(w)) /\ WF_reportVars(FinishRun(w))
        /\ \A r \in Recipients : WF_reportVars(\E succeeds \in BOOLEAN : SendTo(w, r, succeeds))
ReportFairSpec == ReportSpec /\ ReportFairness

-----------------------------------------------------------------------------
\* schedules.ts: per due schedule, per active recipient, one unit.  A recipient
\* gets a period's report twice only when a run died or two of them overlapped.
OnceUnlessOverlapped == excused \/ \A r \in Recipients : sent[r] <= 1

Due == schedule.active /\ schedule.due

\* schedules.ts: "one failure never blocks the rest" - nor the schedule.  A due
\* schedule is served or paused in the end, whichever units fail, unless it is
\* paused and resumed or falls due again for ever.
DueIsServed == Due ~> ~Due
=============================================================================
