--------------------------- MODULE IntakeInterface ---------------------------
(***************************************************************************)
(* The doors an integration key opens (lib/ops/interface): the submission  *)
(* door, the matter bundle, notes and documents onto a matter, and reading *)
(* templates.  A request is a row of short transactions - authenticate,    *)
(* rate limit, replay, validate, create or reject - so that requests with  *)
(* one idempotency key, the staff who revoke the key or change its         *)
(* defaults, and the minute that passes come between any two of them.      *)
(* A granular call without external_ref has a reference of its own.        *)
(***************************************************************************)
EXTENDS Integers, FiniteSets

CONSTANTS
    Callers,     \* requests in flight at one time
    Refs,        \* idempotency keys (external_ref)
    NoRef,       \* the reference of a request that reads templates
    Limit        \* rate_limit.per_minute of the key

VARIABLES
    key,         \* integration_key: revoked, templates_read; its defaults row
    outcome,     \* the created or rejected row of each reference
    effects,     \* how many times the records of a reference were created
    answers,     \* the acknowledgements returned for each reference
    rows,        \* inbound_submission rows of the last minute
    reads,       \* evidenced template reads of the last minute
    episodes,    \* rate_limited events of the minute's bucket
    caller       \* the requests: door, reference, where they stand

vars == <<key, outcome, effects, answers, rows, reads, episodes, caller>>

Doors == {"submission", "bundle", "notes", "documents", "templates"}
Places == {"idle", "limit", "episode", "replay", "validate", "create", "reject", "raced", "read", "evidence"}

TypeOK ==
    /\ key \in [revoked : BOOLEAN, defaults : BOOLEAN, templates : BOOLEAN]
    /\ outcome \in [Refs -> {"none", "created", "rejected"}]
    /\ effects \in [Refs -> 0..Cardinality(Callers)]
    /\ answers \in [Refs -> SUBSET {"created", "rejected"}]
    /\ rows \in Nat /\ reads \in Nat /\ episodes \in Nat
    /\ caller \in [Callers -> [at : Places, door : Doors, ref : Refs \cup {NoRef}]]

Idle == [at |-> "idle", door |-> "templates", ref |-> NoRef]

Init ==
    /\ key = [revoked |-> FALSE, defaults |-> FALSE, templates |-> FALSE]
    /\ outcome = [r \in Refs |-> "none"] /\ effects = [r \in Refs |-> 0]
    /\ answers = [r \in Refs |-> {}]
    /\ rows = 0 /\ reads = 0 /\ episodes = 0
    /\ caller = [c \in Callers |-> Idle]

Go(c, place) == caller' = [caller EXCEPT ![c].at = place]
Done(c) == caller' = [caller EXCEPT ![c] = Idle]
Ref(c) == caller[c].ref

-----------------------------------------------------------------------------
\* Staff with keys.manage; a revoked key is immutable.
RevokeIntegrationKey ==
    /\ ~key.revoked /\ key' = [key EXCEPT !.revoked = TRUE]
    /\ UNCHANGED <<outcome, effects, answers, rows, reads, episodes, caller>>

SetKeyTemplatesRead ==
    /\ ~key.revoked /\ key' = [key EXCEPT !.templates = ~@]
    /\ UNCHANGED <<outcome, effects, answers, rows, reads, episodes, caller>>

SetIntakeKeyDefaults ==
    /\ key' = [key EXCEPT !.defaults = TRUE]
    /\ UNCHANGED <<outcome, effects, answers, rows, reads, episodes, caller>>

ClearIntakeKeyDefaults ==
    /\ key.defaults /\ key' = [key EXCEPT !.defaults = FALSE]
    /\ UNCHANGED <<outcome, effects, answers, rows, reads, episodes, caller>>

\* The minute passes: a new bucket, and the rows that count are gone.
Tick ==
    /\ rows' = 0 /\ reads' = 0 /\ episodes' = 0
    /\ UNCHANGED <<key, outcome, effects, answers, caller>>

-----------------------------------------------------------------------------
\* The request authenticates against the key as it is read now; a revoked key,
\* or a templates door that is not enabled, is refused with evidence.
Authenticate(c, door, ref) ==
    /\ caller[c].at = "idle" /\ ~key.revoked
    /\ door = "templates" => key.templates /\ ref = NoRef
    /\ door # "templates" => ref \in Refs
    /\ caller' = [caller EXCEPT ![c] = [at |-> "limit", door |-> door, ref |-> ref]]
    /\ UNCHANGED <<key, outcome, effects, answers, rows, reads, episodes>>

\* The rate limit counts what is committed; requests in flight are not.
UpTo(n) == n <= Limit
Under(n) == n < Limit

CheckRate(c) ==
    /\ caller[c].at = "limit"
    /\ IF Under(IF caller[c].door = "templates" THEN reads ELSE rows)
       THEN Go(c, IF caller[c].door = "templates" THEN "read" ELSE "replay")
       ELSE IF episodes = 0 THEN Go(c, "episode") ELSE Done(c)
    /\ UNCHANGED <<key, outcome, effects, answers, rows, reads, episodes>>

RegisterEpisode(c) ==
    /\ caller[c].at = "episode" /\ episodes' = episodes + 1 /\ Done(c)
    /\ UNCHANGED <<key, outcome, effects, answers, rows, reads>>

\* A reference that has its row is answered from it, and the replay leaves a
\* row of its own.
Replay(c) ==
    /\ answers' = [answers EXCEPT ![Ref(c)] = @ \cup {outcome[Ref(c)]}]
    /\ rows' = rows + 1 /\ Done(c)
    /\ UNCHANGED <<key, outcome, effects, reads, episodes>>

ReplayIfSeen(c) ==
    /\ caller[c].at = "replay"
    /\ IF outcome[Ref(c)] # "none" THEN Replay(c)
       ELSE Go(c, "validate") /\ UNCHANGED <<key, outcome, effects, answers, rows, reads, episodes>>

ReplayRaced(c) == caller[c].at = "raced" /\ Replay(c)

\* The payload is what it is: well-formed or not.
Validate(c) ==
    /\ caller[c].at = "validate" /\ \E place \in {"create", "reject"} : Go(c, place)
    /\ UNCHANGED <<key, outcome, effects, answers, rows, reads, episodes>>

-----------------------------------------------------------------------------
\* The unique index over (key, idempotency_key) among created and rejected.
AnyTime(ref) == TRUE
SlotFree(ref) == outcome[ref] = "none"

Record(c, what) ==
    /\ outcome' = [outcome EXCEPT ![Ref(c)] = what]
    /\ answers' = [answers EXCEPT ![Ref(c)] = @ \cup {what}]
    /\ rows' = rows + 1

\* Whatever is created stamps last_used_at on the key, which its guard
\* refuses once the key is revoked.
Unstamped == TRUE
StampAccepted == ~key.revoked

Create(c) ==
    /\ caller[c].at = "create" /\ SlotFree(Ref(c)) /\ StampAccepted
    /\ Record(c, "created") /\ effects' = [effects EXCEPT ![Ref(c)] = @ + 1]
    /\ Done(c) /\ UNCHANGED <<key, reads, episodes>>

\* One transaction each: an intake record and its prospect; a client, a matter
\* opened under the key's defaults, its notes and documents; notes; documents.
HandleInboundSubmission(c) == caller[c].door = "submission" /\ Create(c)
IntakeMatterBundle(c) == caller[c].door = "bundle" /\ key.defaults /\ Create(c)
IntakeAddNotes(c) == caller[c].door = "notes" /\ Create(c)
IntakeAddDocuments(c) == caller[c].door = "documents" /\ Create(c)

\* The firm's own discipline refuses: intake is closed, an extra field is
\* unknown, the key has no defaults, the matter may not be opened.  The
\* submission door rejects in this transaction, the others in the next one.
RefuseCreation(c) ==
    /\ caller[c].at = "create" /\ caller[c].door # "submission" /\ Go(c, "reject")
    /\ UNCHANGED <<key, outcome, effects, answers, rows, reads, episodes>>

RejectDoor(c) ==
    /\ \/ caller[c].at = "reject"
       \/ caller[c].at = "create" /\ caller[c].door = "submission"
    /\ SlotFree(Ref(c)) /\ Record(c, "rejected") /\ Done(c)
    /\ UNCHANGED <<key, effects, reads, episodes>>

LoseRace(c) ==
    /\ caller[c].at \in {"create", "reject"} /\ ~SlotFree(Ref(c)) /\ Go(c, "raced")
    /\ UNCHANGED <<key, outcome, effects, answers, rows, reads, episodes>>

\* The key was revoked under way: the transaction fails and nothing is answered.
FailRevoked(c) ==
    /\ \/ caller[c].at = "create" /\ SlotFree(Ref(c))
       \/ caller[c].at = "evidence"
    /\ ~StampAccepted /\ Done(c)
    /\ UNCHANGED <<key, outcome, effects, answers, rows, reads, episodes>>

\* Templates: the read comes first, the answer only with its evidence.
ReadTemplates(c) ==
    /\ caller[c].at = "read" /\ Go(c, "evidence")
    /\ UNCHANGED <<key, outcome, effects, answers, rows, reads, episodes>>

EvidenceRead(c) ==
    /\ caller[c].at = "evidence" /\ StampAccepted
    /\ reads' = reads + 1 /\ Done(c)
    /\ UNCHANGED <<key, outcome, effects, answers, rows, episodes>>

Next ==
    \/ RevokeIntegrationKey \/ SetKeyTemplatesRead \/ SetIntakeKeyDefaults \/ ClearIntakeKeyDefaults \/ Tick
    \/ \E c \in Callers :
        \/ \E door \in Doors, ref \in Refs \cup {NoRef} : Authenticate(c, door, ref)
        \/ CheckRate(c) \/ RegisterEpisode(c) \/ ReplayIfSeen(c) \/ ReplayRaced(c) \/ Validate(c)
        \/ HandleInboundSubmission(c) \/ IntakeMatterBundle(c) \/ IntakeAddNotes(c) \/ IntakeAddDocuments(c)
        \/ RefuseCreation(c) \/ RejectDoor(c) \/ LoseRace(c) \/ FailRevoked(c)
        \/ ReadTemplates(c) \/ EvidenceRead(c)

Spec == Init /\ [][Next]_vars

-----------------------------------------------------------------------------
\* One reference creates its records at most once and gets one answer, the
\* one its durable row holds, however many requests carry it at once.
OneAnswerPerReference ==
    \A r \in Refs :
        /\ effects[r] = (IF outcome[r] = "created" THEN 1 ELSE 0)
        /\ answers[r] \subseteq {outcome[r]}

\* The rate limit is overrun by no more than the requests already past it.
OverrunByThoseInFlight ==
    /\ rows <= Limit - 1 + Cardinality(Callers)
    /\ reads <= Limit - 1 + Cardinality(Callers)

\* keys.ts:4: revocation is "immediate by construction" - a request that
\* authenticated before it creates nothing and reads no template after it.  The read of the
\* key's own identity is not in it.
GrantsNothing ==
    key.revoked => effects' = effects /\ reads' <= reads
RevokedGrantsNothing == [][GrantsNothing]_vars

\* Not kept: submissions.ts:4-5: "one aggregated register event per limiting
\* episode".  Requests past the limit together each register one.
OneEventPerEpisode == episodes <= 1
=============================================================================
