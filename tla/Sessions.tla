------------------------------- MODULE Sessions -------------------------------
\* Sign-in sessions of staff, portal clients and examiners, and the many ways one
\* ends (src/lib/ops/security/sessions.ts, staff.ts, examiners.ts,
\* src/lib/ops/portal/invites.ts and sessions.ts, the triggers staff_guard,
\* session_guard and portal_invite_guard).
\*
\* Whatever ends sessions reads the live ones and then ends them, in one
\* transaction; several may have read the same session.  Staff sessions end by a
\* conditional update, a grant's by an unconditional one, which the guard of an
\* ended session refuses together with everything its transaction did.
EXTENDS Integers, FiniteSets

CONSTANTS Staff, Invites, Grants, \* who signs in: the staff, the parties by invite, the examiners by grant
          Slots,                  \* bound: the sessions there may be
          Actors,                 \* the requests and jobs in flight at once
          NoOne

Owners == Staff \union Invites \union Grants

VARIABLES account,  \* each owner: a staff account, an invite, a grant
          session,  \* each session
          device,   \* each owner's device: new, known or revoked
          act       \* what each actor has read

vars == <<account, session, device, act>>

NoSession == [state |-> "none", owner |-> NoOne, pending |-> FALSE, stale |-> FALSE, endings |-> 0]
Idle == [at |-> "idle", who |-> NoOne, ids |-> {}]

TypeOK ==
  /\ \A o \in Owners : account[o] \in {"invited", "active", "inactive"}
  /\ \A o \in Owners : device[o] \in {"new", "known", "revoked"}
  /\ \A i \in Slots : /\ session[i].state \in {"none", "live", "ended"} /\ session[i].owner \in Owners \union {NoOne}
                      /\ session[i].endings \in Nat
  /\ \A a \in Actors : act[a].ids \subseteq Slots

Init ==
  /\ account = [o \in Owners |-> IF o \in Invites THEN "invited" ELSE "active"]
  /\ session = [i \in Slots |-> NoSession]
  /\ device = [o \in Owners |-> "new"]
  /\ act = [a \in Actors |-> Idle]

IsIdle(a) == act[a].at = "idle"
Free(a) == act' = [act EXCEPT ![a] = Idle]
Starts(a, what, who, ids) == IsIdle(a) /\ act' = [act EXCEPT ![a] = [at |-> what, who |-> who, ids |-> ids]]
Live(o) == {i \in Slots : session[i].state = "live" /\ session[i].owner = o}
Unused == {i \in Slots : session[i].state = "none"}

\* No other actor holds the owner's row: the invite an acceptance locks (its guard
\* stands behind the lock), the grant or the device a revocation locks.
NoneHolds(o) == \A a \in Actors : act[a].at \in {"accept", "revoke"} => act[a].who # o
NeverWaits(o) == TRUE
RowFree(o) == NoneHolds(o)

Opened(o, i, pending) == [NoSession EXCEPT !.state = "live", !.owner = o, !.pending = pending]

\* A sign-in: the account and the device are read, then the session is written.
StartSignIn(a, o) ==
  /\ account[o] = "active" /\ device[o] # "revoked" /\ Starts(a, "signin", o, {})
  /\ UNCHANGED <<account, session, device>>

\* Staff on a new device, or from a novel network, may have to verify the sign-in.
EstablishSession(a) ==
  LET o == act[a].who IN
  /\ act[a].at = "signin" /\ RowFree(o)
  /\ \E i \in Unused, pending \in IF o \in Staff THEN BOOLEAN ELSE {FALSE} :
       session' = [session EXCEPT ![i] = Opened(o, i, pending)]
  /\ device' = [device EXCEPT ![o] = IF @ = "new" THEN "known" ELSE @]
  /\ Free(a) /\ UNCHANGED account

CompleteStepUp(i) ==
  /\ session[i].state = "live" /\ session[i].owner \in Staff
  /\ session' = [session EXCEPT ![i].pending = FALSE]
  /\ UNCHANGED <<account, device, act>>

\* Time passes over a session's idle or absolute window.
Lapse(i) ==
  /\ session[i].state = "live" /\ ~session[i].stale
  /\ session' = [session EXCEPT ![i].stale = TRUE]
  /\ UNCHANGED <<account, device, act>>

\* Whoever ends sessions first reads which are live: a sign-out, an administrator ending
\* all of a person's, a revocation, the timeout job.
StartEnding(a, ids) ==
  /\ ids # {} /\ Starts(a, "ending", NoOne, ids) /\ UNCHANGED <<account, session, device>>
EndSession(a, i) == session[i].state = "live" /\ StartEnding(a, {i})
EndAllSessionsFor(a, o) == StartEnding(a, Live(o))
VerifiedTimeouts(a) ==
  StartEnding(a, {i \in Slots : session[i].state = "live" /\ session[i].stale /\ ~session[i].pending})
RunSessionTimeouts(a) == StartEnding(a, {i \in Slots : session[i].state = "live" /\ session[i].stale})

\* A request past its session's windows or its grant ends the session and is refused: the
\* refusal rolls the ending back.  Who ends the session meanwhile waits for that and then
\* goes on as if the request had not been: the wait is left out.
ResolveExpired(a, i) ==
  /\ session[i].state = "live"
  /\ \/ session[i].stale
     \/ session[i].owner \in Grants /\ account[session[i].owner] # "active"
  /\ Starts(a, "refuse", NoOne, {i}) /\ UNCHANGED <<account, session, device>>

\* The conditional update; session_guard stands behind it.
StillLive(ids) == {i \in ids : session[i].state = "live"}
AsRead(ids) == ids
Ends(ids) == StillLive(ids)

\* Each ending with its entry in the register.
Ended(ids) == [i \in Slots |-> IF i \in ids THEN [session[i] EXCEPT !.state = "ended", !.endings = @ + 1]
                               ELSE session[i]]

CommitEnding(a) ==
  /\ act[a].at = "ending" /\ session' = Ended(Ends(act[a].ids))
  /\ Free(a) /\ UNCHANGED <<account, device>>

\* A deactivation ends the person's sessions in the staff trigger, silently.
DeactivateStaff(o) ==
  /\ o \in Staff /\ account[o] = "active" /\ RowFree(o)
  /\ account' = [account EXCEPT ![o] = "inactive"]
  /\ session' = [i \in Slots |-> IF i \in Live(o) THEN [session[i] EXCEPT !.state = "ended"] ELSE session[i]]
  /\ UNCHANGED <<device, act>>

ReactivateStaff(o) ==
  /\ o \in Staff /\ account[o] = "inactive" /\ account' = [account EXCEPT ![o] = "active"]
  /\ UNCHANGED <<session, device, act>>

\* A device is revoked, or a grant, under its row's lock.
StartRevoke(a, o) ==
  /\ \/ o \in Staff /\ device[o] = "known"
     \/ o \in Grants /\ account[o] = "active"
  /\ RowFree(o) /\ Starts(a, "revoke", o, Live(o)) /\ UNCHANGED <<account, session, device>>

RevokeDevice(a) ==
  LET o == act[a].who IN
  /\ act[a].at = "revoke" /\ o \in Staff
  /\ device' = [device EXCEPT ![o] = "revoked"] /\ session' = Ended(Ends(act[a].ids))
  /\ Free(a) /\ UNCHANGED account

\* The unconditional endings: none of them may have ended meanwhile.
RevokeExaminer(a) ==
  LET o == act[a].who IN
  /\ act[a].at = "revoke" /\ o \in Grants /\ StillLive(act[a].ids) = act[a].ids
  /\ account' = [account EXCEPT ![o] = "inactive"] /\ session' = Ended(act[a].ids)
  /\ Free(a) /\ UNCHANGED device

Expired == {i \in Slots : /\ session[i].state = "live" /\ session[i].owner \in Grants
                          /\ account[session[i].owner] = "inactive"}
RunExaminerExpiry(a) ==
  /\ Expired # {} /\ Starts(a, "expiry", NoOne, Expired) /\ UNCHANGED <<account, session, device>>
CommitExpiry(a) ==
  /\ act[a].at = "expiry" /\ StillLive(act[a].ids) = act[a].ids
  /\ session' = Ended(act[a].ids) /\ Free(a) /\ UNCHANGED <<account, device>>

\* The window of a grant closes.
GrantExpires(o) ==
  /\ o \in Grants /\ account[o] = "active" /\ account' = [account EXCEPT ![o] = "inactive"]
  /\ UNCHANGED <<session, device, act>>

\* An invite is accepted once, under its lock, with the first session.
StartAcceptInvite(a, o) ==
  /\ o \in Invites /\ account[o] = "invited" /\ RowFree(o) /\ Starts(a, "accept", o, {})
  /\ UNCHANGED <<account, session, device>>
AcceptPortalInvite(a) ==
  LET o == act[a].who IN
  /\ act[a].at = "accept" /\ account' = [account EXCEPT ![o] = "active"]
  /\ \E i \in Unused : session' = [session EXCEPT ![i] = Opened(o, i, FALSE)]
  /\ device' = [device EXCEPT ![o] = "known"] /\ Free(a)

\* A revocation waits for an acceptance in flight, and ends the session it opened.
RevokePortalInvite(o) ==
  /\ o \in Invites /\ account[o] # "inactive" /\ RowFree(o)
  /\ account' = [account EXCEPT ![o] = "inactive"]
  /\ session' = [i \in Slots |-> IF i \in Live(o) THEN [session[i] EXCEPT !.state = "ended"] ELSE session[i]]
  /\ UNCHANGED <<device, act>>

Abort(a) == ~IsIdle(a) /\ Free(a) /\ UNCHANGED <<account, session, device>>

Next ==
  \/ \E i \in Slots : CompleteStepUp(i) \/ Lapse(i)
  \/ \E o \in Owners : DeactivateStaff(o) \/ ReactivateStaff(o) \/ GrantExpires(o) \/ RevokePortalInvite(o)
  \/ \E a \in Actors :
       \/ EstablishSession(a) \/ CommitEnding(a) \/ RevokeDevice(a) \/ RevokeExaminer(a) \/ CommitExpiry(a)
       \/ AcceptPortalInvite(a) \/ RunSessionTimeouts(a) \/ RunExaminerExpiry(a) \/ Abort(a)
       \/ \E o \in Owners : \/ StartSignIn(a, o) \/ EndAllSessionsFor(a, o)
                          \/ StartRevoke(a, o) \/ StartAcceptInvite(a, o)
       \/ \E i \in Slots : ResolveExpired(a, i) \/ EndSession(a, i)

Spec == Init /\ [][Next]_vars

\* The timeout job is scheduled again and again and its connection is not lost every
\* time; another actor's transaction ends, one way or the other.
FairSpec ==
  Spec /\ \A a \in Actors : /\ SF_vars(RunSessionTimeouts(a)) /\ SF_vars(CommitEnding(a))
                             /\ WF_vars(Abort(a))

\* A session's end is registered once, however many requests, jobs and revocations
\* read it live and end it.
EndedOnce == \A i \in Slots : session[i].endings <= 1

\* Not kept: a request whose session is past its windows or its grant leaves it ended with
\* its reason (sessions.ts:365-383).  Both throw inside the transaction that ended it.
RefusedIsEnded == [][\A a \in Actors : act[a].at = "refuse" /\ act'[a].at = "idle" =>
                       \A i \in act[a].ids : session'[i].state = "ended"]_vars

\* An invite that was revoked stays revoked: an acceptance that read it open does not
\* bring it back, and its sessions are not live then.
RevokedStay ==
  \A o \in Invites : account[o] = "inactive" => account'[o] = "inactive"
RevokedInvitesStay == [][RevokedStay]_vars

Outlived(i) == session[i].state = "live" /\ session[i].stale
Over(i) == session[i].state = "ended"

\* A session past its windows is ended in the end.
StaleSessionsEnd == \A i \in Slots : Outlived(i) ~> Over(i)
=============================================================================
