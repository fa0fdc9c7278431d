----------------------------- MODULE MCProgress -----------------------------
(***************************************************************************)
(* What must happen in the end: small instances of the modules whose jobs   *)
(* and servers go on by themselves, each under the fairness of its own      *)
(* module. A behaviour is of one of them; they share the variables, not     *)
(* the state.                                                               *)
(***************************************************************************)
EXTENDS Arrangements, TLC

CONSTANTS
  s1, s2, x1, g1, NoOne

\* The instance a behaviour is of, and the variables the instances share.
VARIABLES which, v1, v2, v3, v4, v5, v6, v7, v8

Run == INSTANCE HeldFunds WITH
  run <- v1, item <- v2, pay <- v3, funds <- v4, due <- v5, moved <- v6,
  receipts <- v7, job <- v8, Items <- {1, 2}, Sessions <- {s1, s2},
  Amount <- [i \in {1, 2} |-> 1], MaxHeld <- 1, MaxDue <- 1, SelfHealable <- {1},
  Crashes <- FALSE, Worth <- 0, Held <- 0, MaxClaims <- 0, MaxRuns <- 0,
  outstanding <- 0, available <- 0, claims <- 0, items <- 0, runs <- 0, entrance <- 0

Signing == INSTANCE Sessions WITH
  account <- v1, session <- v2, device <- v3, act <- v4, Staff <- {x1},
  Invites <- {}, Grants <- {g1}, Slots <- {1}, Actors <- {s1, s2}

Files == INSTANCE Documents WITH
  doc <- v1, text <- v2, open <- v3, act <- v4, Docs <- {x1}, Users <- {s1},
  Sweepers <- {s2}, MaxVersions <- 1, Requests <- {}, Shares <- {}, Folders <- {},
  Doorkeepers <- {}, Nobody <- NoOne, MaxViews <- 0, MaxServes <- 0, visit <- 0,
  request <- 0, share <- 0, parent <- 0

Sending == INSTANCE Outbound WITH
  state <- v1, source <- v2, reached <- v3, copies <- v4, noted <- v5, at <- v6,
  holds <- v7, deaths <- v8, schedule <- v1, staff <- v2, job <- v3, sent <- v4,
  excused <- v5, periods <- v6, crashes <- v7, Rows <- {1, 2}, Bills <- {1},
  Workers <- {s1, s2}, MaxDeaths <- 1, Recipients <- {x1, g1}, Runners <- {s1},
  MaxPeriods <- 1, MaxCrashes <- 1

Bridge == INSTANCE OfficeLedger WITH
  written <- v1, live <- v2, run <- v3, opener <- v4, openings <- v5, locked <- v6,
  reversals <- v7, crashes <- v8, Entries <- {1, 2}, Runs <- {s1, s2}, Openers <- {},
  MaxReversals <- 1, MaxCrashes <- 1, Lines <- {}, Ruled <- {}, Bills <- {},
  Receipts <- {}, Sessions <- {}, Total <- 0, Blank <- 0, line <- 0, bill <- 0,
  journal <- 0, session <- 0

\* The variables an instance leaves unused are 0.
Spare8 == v8 = 0
Spare7 == v7 = 0 /\ Spare8
Spare6 == v6 = 0 /\ Spare7
Spare5 == v5 = 0 /\ Spare6
Spare4 == v4 = 0 /\ Spare5
Spare3 == v3 = 0 /\ Spare4
Spare2 == v2 = 0 /\ Spare3
Spare1 == v1 = 0 /\ Spare2

Resting ==
  /\ arr = 0 /\ slots = 0 /\ collected = 0 /\ owed = 0 /\ allocated = 0
  /\ reminder = 0 /\ adopting = 0 /\ todo = 0

MCInit ==
  \/ which = "overdue" /\ PlanInit /\ Spare1
  \/ which = "held_funds" /\ Run!ItemInit /\ Resting
  \/ which = "sessions" /\ Signing!Init /\ Spare5 /\ Resting
  \/ which = "documents" /\ Files!FileInit /\ Spare5 /\ Resting
  \/ which = "outbound" /\ Sending!QueueInit /\ Resting
  \/ which = "reports" /\ Sending!ReportInit /\ Spare8 /\ Resting
  \/ which = "bridge" /\ Bridge!BridgeInit /\ Resting

MCNext ==
  \/ /\ which = "overdue" /\ PlanNext
     /\ UNCHANGED <<which, v1, v2, v3, v4, v5, v6, v7, v8>>
  \/ /\ which = "held_funds" /\ Run!ItemNext
     /\ UNCHANGED <<which, planVars>>
  \/ /\ which = "sessions" /\ Signing!Next
     /\ UNCHANGED <<which, planVars, v5, v6, v7, v8>>
  \/ /\ which = "documents" /\ Files!FileNext
     /\ UNCHANGED <<which, planVars, v5, v6, v7, v8>>
  \/ /\ which = "outbound" /\ Sending!QueueNext
     /\ UNCHANGED <<which, planVars>>
  \/ /\ which = "reports" /\ Sending!ReportNext
     /\ UNCHANGED <<which, planVars, v8>>
  \/ /\ which = "bridge" /\ Bridge!BridgeNext
     /\ UNCHANGED <<which, planVars>>

all == <<which, planVars, v1, v2, v3, v4, v5, v6, v7, v8>>
MCSpec == MCInit /\ [][MCNext]_all

\* An action of one instance, as a step of this module.
InOverdue(A) == which = "overdue" /\ A /\ UNCHANGED <<which, v1, v2, v3, v4, v5, v6, v7, v8>>
InRun(A) == which = "held_funds" /\ A /\ UNCHANGED <<which, planVars>>
InSigning(A) == which = "sessions" /\ A /\ UNCHANGED <<which, planVars, v5, v6, v7, v8>>
InFiles(A) == which = "documents" /\ A /\ UNCHANGED <<which, planVars, v5, v6, v7, v8>>
InSending(A) == which = "outbound" /\ A /\ UNCHANGED <<which, planVars>>
InReports(A) == which = "reports" /\ A /\ UNCHANGED <<which, planVars, v8>>
InBridge(A) == which = "bridge" /\ A /\ UNCHANGED <<which, planVars>>

\* What the schedulers and the servers of each instance go on doing: the fairness of
\* each module's own FairSpec.
MCFairness ==
  /\ WF_all(InOverdue(List("miss"))) /\ \A k \in Keys : WF_all(InOverdue(HandleMiss(k)))
  /\ \A s \in {s1, s2} : WF_all(InRun(Run!Continues(s)))
  /\ \A s \in {s1, s2} :
       /\ SF_all(InSigning(Signing!RunSessionTimeouts(s))) /\ SF_all(InSigning(Signing!CommitEnding(s)))
       /\ WF_all(InSigning(Signing!Abort(s)))
  /\ WF_all(InFiles(Files!StartSweep(s2))) /\ SF_all(InFiles(Files!RunDocumentTextSweep(s2)))
  /\ \A s \in {s1, s2} : WF_all(InSending(Sending!Works(s)))
  /\ \A s \in {s1, s2} :
       /\ WF_all(InBridge(Bridge!GlSync(s))) /\ WF_all(InBridge(Bridge!CommitSync(s)))
       /\ \A e \in {1, 2} : WF_all(InBridge(Bridge!PostEntry(s, e)))
  /\ WF_all(InReports(Sending!RunDueSchedules(s1))) /\ WF_all(InReports(Sending!ReadRecipients(s1)))
  /\ WF_all(InReports(Sending!FinishRun(s1)))
  /\ \A r \in {x1, g1} : WF_all(InReports(\E succeeds \in BOOLEAN : Sending!SendTo(s1, r, succeeds)))
MCFairSpec == MCSpec /\ MCFairness

-----------------------------------------------------------------------------
\* Money does not get stuck on the way.
OwedAndHeldMoveOn ==
  \* an instalment past its grace is paid, missed or moved, or its arrangement ends
  /\ \A k \in Keys : (which = "overdue" /\ PastGrace(k)) ~>
        (which = "overdue" /\ ~PastGrace(k))
  \* the requests that finish the last items finish the run
  /\ (which = "held_funds" /\ Run!Settled) ~>
        (which = "held_funds" /\ Run!Finished)
  \* what the receivables write is bridged, unless its month was locked first
  /\ \A e \in {1, 2} : (which = "bridge" /\ Bridge!Written(e)) ~>
        (which = "bridge" /\ Bridge!Bridged(e))

\* What a job looks for it deals with in the end, whoever dies or fails on the way.
JobsCatchUp ==
  \* a session past its windows is ended
  /\ (which = "sessions" /\ Signing!Outlived(1)) ~>
        (which = "sessions" /\ Signing!Over(1))
  \* a version without text is given text, or found to have none
  /\ (which = "documents" /\ <<x1, 1>> \in Files!Textless) ~>
        (which = "documents" /\ <<x1, 1>> \notin Files!Textless)
  \* every queued message is marked
  /\ \A m \in {1, 2} : (which = "outbound" /\ Sending!Queued(m)) ~>
        (which = "outbound" /\ Sending!Ended(m))
  \* a due schedule is served or paused
  /\ (which = "reports" /\ Sending!Due) ~>
        (which = "reports" /\ ~Sending!Due)
=============================================================================
