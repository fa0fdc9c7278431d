-------------------------------- MODULE Capture --------------------------------
\* How work reaches billing: timers, the queue of suggested entries fed by signals,
\* and the thresholds of an estimate or a budget (src/lib/ops/billing/timers.ts, suggestions.ts, timeEntries.ts,
\* thresholds.ts, estimates.ts, the triggers suggested_entry_guard
\* and those of 0009_billing_guardrails.sql).
\*
\* Suggestions and the timer are one person's, of one matter and day, so that every
\* entry made supersedes the suggestions still pending.
EXTENDS Integers, FiniteSets

CONSTANTS Timers, Signals, Requests,
          MaxClock,   \* bound: the time that passes
          MaxMeasure, \* bound: what the guarded measure grows to
          MaxArming,  \* bound: the revisions of the estimate
          NoOne

VARIABLES timer,       \* each timer; worked is the time it truly ran
          suggestion,  \* the state of each signal's suggestion
          entries,     \* the time entries made from each timer and signal
          estimate,    \* the guarded amount: its measure, limit, arming and alerts
          clock,
          req          \* what each request has read or locked

vars == <<timer, suggestion, entries, estimate, clock, req>>

Idle == [at |-> "idle", on |-> NoOne, arming |-> 0]
NoTimer == [state |-> "none", acc |-> 0, since |-> 0, worked |-> 0]
Resolved == {"accepted", "merged", "discarded", "superseded"}

TypeOK ==
  /\ \A t \in Timers : timer[t].state \in {"none", "running", "paused", "gone"} /\ timer[t].acc \in 0..MaxClock
  /\ \A s \in Signals : suggestion[s] \in {"none", "held", "pending"} \union Resolved
  /\ estimate.measure \in 0..MaxMeasure /\ estimate.arming \in 1..MaxArming

Init ==
  /\ timer = [t \in Timers |-> NoTimer]
  /\ suggestion = [s \in Signals |-> "none"]
  /\ entries = [x \in Timers \union Signals |-> 0]
  /\ estimate = [measure |-> 0, limit |-> 1, arming |-> 1, alerts |-> [n \in 1..MaxArming |-> 0]]
  /\ clock = 0 /\ req = [r \in Requests |-> Idle]

IsIdle(r) == req[r].at = "idle"
Free(r) == req' = [req EXCEPT ![r] = Idle]

\* Rows are locked when read: the timer by its owner's request, the suggestion, whose
\* guard (a resolved suggestion is immutable) stands behind the lock.
LockFree(x) == \A r \in Requests : req[r].on # x
NeverWaits(x) == TRUE
RowFree(x) == LockFree(x)
Locks(r, what, x) == IsIdle(r) /\ RowFree(x) /\ req' = [req EXCEPT ![r] = [Idle EXCEPT !.at = what, !.on = x]]

Tick ==
  /\ clock < MaxClock /\ clock' = clock + 1
  /\ timer' = [t \in Timers |-> IF timer[t].state = "running" THEN [timer[t] EXCEPT !.worked = @ + 1] ELSE timer[t]]
  /\ UNCHANGED <<suggestion, entries, estimate, req>>

Ran(t) == timer[t].acc + (IF timer[t].state = "running" THEN clock - timer[t].since ELSE 0)

StartTimer(t) ==
  /\ timer[t].state = "none" /\ timer' = [timer EXCEPT ![t].state = "running", ![t].since = clock]
  /\ UNCHANGED <<suggestion, entries, estimate, clock, req>>
PauseTimer(t) ==
  /\ timer[t].state = "running" /\ RowFree(t)
  /\ timer' = [timer EXCEPT ![t].state = "paused", ![t].acc = Ran(t)]
  /\ UNCHANGED <<suggestion, entries, estimate, clock, req>>
Restarted(t) == clock
NotRestarted(t) == timer[t].since
Since(t) == Restarted(t)
ResumeTimer(t) ==
  /\ timer[t].state = "paused" /\ RowFree(t)
  /\ timer' = [timer EXCEPT ![t].state = "running", ![t].since = Since(t)]
  /\ UNCHANGED <<suggestion, entries, estimate, clock, req>>
DiscardTimer(t) ==
  /\ timer[t].state \in {"running", "paused"} /\ RowFree(t)
  /\ timer' = [timer EXCEPT ![t].state = "gone"] /\ UNCHANGED <<suggestion, entries, estimate, clock, req>>

\* An entry supersedes every other pending suggestion; it waits for their locks.
SupersededBy(x) == [s \in Signals |-> IF suggestion[s] = "pending" /\ s # x THEN "superseded" ELSE suggestion[s]]
NoneLocked(r) == \A s \in Signals, q \in Requests \ {r} : suggestion[s] = "pending" => req[q].on # s
CreateTimeEntry(r, x) ==
  /\ NoneLocked(r) /\ entries' = [entries EXCEPT ![x] = @ + 1] /\ Free(r) /\ UNCHANGED <<estimate, clock>>

StartStop(r, t) ==
  /\ timer[t].state \in {"running", "paused"} /\ Locks(r, "stop", t)
  /\ UNCHANGED <<timer, suggestion, entries, estimate, clock>>
\* The timer's row is deleted with the entry it became.
StopTimer(r) ==
  LET t == req[r].on IN
  /\ req[r].at = "stop" /\ CreateTimeEntry(r, t)
  /\ timer' = [timer EXCEPT ![t].state = "gone"] /\ suggestion' = SupersededBy(t)

\* A signal is taken once, whatever replays it; a matter its person cannot see holds it.
IngestSignal(s) ==
  /\ suggestion[s] = "none" /\ \E to \in {"held", "pending"} : suggestion' = [suggestion EXCEPT ![s] = to]
  /\ UNCHANGED <<timer, entries, estimate, clock, req>>
AssignSuggestionMatter(s) ==
  /\ suggestion[s] = "held" /\ RowFree(s) /\ suggestion' = [suggestion EXCEPT ![s] = "pending"]
  /\ UNCHANGED <<timer, entries, estimate, clock, req>>
StartAccept(r, s) ==
  /\ suggestion[s] = "pending" /\ Locks(r, "accept", s)
  /\ UNCHANGED <<timer, suggestion, entries, estimate, clock>>

AcceptSuggestion(r) ==
  LET s == req[r].on IN
  /\ req[r].at = "accept" /\ CreateTimeEntry(r, s)
  /\ suggestion' = [SupersededBy(s) EXCEPT ![s] = "accepted"] /\ UNCHANGED timer
MergeOrDiscard(s, to) ==
  /\ RowFree(s) /\ suggestion[s] = "pending" /\ suggestion' = [suggestion EXCEPT ![s] = to]
  /\ UNCHANGED <<timer, entries, estimate, clock, req>>
MergeSuggestion(s) == (\E x \in DOMAIN entries : entries[x] > 0) /\ MergeOrDiscard(s, "merged")
DiscardSuggestion(s) == MergeOrDiscard(s, "discarded")

\* The measure grows as items are captured, and shrinks as they are written off.
MeasureMoves ==
  /\ \E m \in 0..MaxMeasure : estimate' = [estimate EXCEPT !.measure = m]
  /\ UNCHANGED <<timer, suggestion, entries, clock, req>>
\* A revision, or a raised budget, arms the thresholds again.
ReviseEstimate ==
  /\ estimate.arming < MaxArming
  /\ \E l \in 1..MaxMeasure : estimate' = [estimate EXCEPT !.limit = l, !.arming = @ + 1]
  /\ UNCHANGED <<timer, suggestion, entries, clock, req>>

\* The sweep reads the estimate and its measure, and fires what is crossed.
StartEvaluate(r) ==
  /\ IsIdle(r) /\ estimate.measure >= estimate.limit
  /\ req' = [req EXCEPT ![r] = [Idle EXCEPT !.at = "fire", !.arming = estimate.arming]]
  /\ UNCHANGED <<timer, suggestion, entries, estimate, clock>>
NotFired(n) == estimate.alerts[n] = 0
AnyFiring(n) == TRUE
MayFire(n) == NotFired(n)
EvaluateThresholds(r) ==
  LET n == req[r].arming IN
  /\ req[r].at = "fire"
  /\ estimate' = IF MayFire(n) THEN [estimate EXCEPT !.alerts[n] = @ + 1] ELSE estimate
  /\ Free(r) /\ UNCHANGED <<timer, suggestion, entries, clock>>

\* A refusal, a lost connection, or the database breaking a deadlock of two requests
\* that each lock one suggestion and supersede the other.
Abort(r) == ~IsIdle(r) /\ Free(r) /\ UNCHANGED <<timer, suggestion, entries, estimate, clock>>

Next ==
  \/ Tick \/ MeasureMoves \/ ReviseEstimate
  \/ \E t \in Timers : StartTimer(t) \/ PauseTimer(t) \/ ResumeTimer(t) \/ DiscardTimer(t)
  \/ \E s \in Signals : IngestSignal(s) \/ AssignSuggestionMatter(s) \/ MergeSuggestion(s) \/ DiscardSuggestion(s)
  \/ \E r \in Requests :
       \/ StopTimer(r) \/ AcceptSuggestion(r) \/ StartEvaluate(r) \/ EvaluateThresholds(r) \/ Abort(r)
       \/ \E t \in Timers : StartStop(r, t)
       \/ \E s \in Signals : StartAccept(r, s)

Spec == Init /\ [][Next]_vars

\* A timer or a signal becomes one entry at most: whatever two requests read, and
\* whether the suggestion was accepted, merged, discarded or superseded first.
OneEntryEach == \A x \in DOMAIN entries : entries[x] <= 1

\* A suggestion is resolved once: an acceptance that read it pending does not bill what
\* was merged, discarded or superseded meanwhile.
StaysResolved == \A s \in Signals : suggestion[s] \in Resolved => suggestion'[s] = suggestion[s]
ResolvedStays == [][StaysResolved]_vars

\* A timer counts the time it truly ran, through pauses and resumptions.
TimerIsTrue == \A t \in Timers : timer[t].state \in {"running", "paused"} => Ran(t) = timer[t].worked

\* A threshold fires once for each arming, however many sweeps find it crossed.
FiredOnce == \A n \in 1..MaxArming : estimate.alerts[n] <= 1
=============================================================================
