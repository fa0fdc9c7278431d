----------------------------- MODULE MCPractice -----------------------------
(***************************************************************************)
(* Small instances of the modules of a practice: its matters and the        *)
(* people on them, the work recorded and drafted, who signs in and what     *)
(* they see, what is filed and sent, and what the firm configures. The      *)
(* work drafted and issued is that of Drafting itself; every other module   *)
(* has an instance. A behaviour is of one of them, as in MCMoney.           *)
(***************************************************************************)
EXTENDS Drafting, Integers, TLC

CONSTANTS
  s1, s2, b1, b2, c1, c2, x1, g1, NoOne,
  Modes      \* which of the instances behave

\* The instance a behaviour is of, and the variables the instances share.
VARIABLES which, v1, v2, v3, v4, v5, v6, v7, v8, v9, v10, v11

\* All the work is on one matter.
MCMatterOf == [i \in Items |-> CHOOSE m \in Matters : TRUE]

\* One message is for the shared filing mailbox, the others for one inbox.
Letters == {1, 2, 3}
Box(m) == IF m = 1 THEN g1 ELSE x1

\* Whole, negative and money numbers, one that is whole cents and one that is not.
Numeral(type, num, den) ==
  [t |-> type, v |-> [p |-> num, q |-> den], rounded |-> type = "money" /\ 100 % den = 0]
Numerals == {Numeral("integer", 3, 1), Numeral("decimal", -1, 3), Numeral("money", 5, 2), Numeral("money", 1, 8)}

Life == INSTANCE MatterLifecycle WITH
  intake <- v1, check <- v2, required <- v3, matter <- v4, sess <- v5, status <- v1,
  held <- v2, unbilled <- v3, approval <- v4, req <- v5, bulk <- v6, visit <- v7,
  Staff <- {s1, s2}, Intakes <- {b1, b2}, Checks <- {c1, c2}, MaxMatters <- 2,
  Matters <- {x1}, Requests <- {"request"}, Bulks <- {"bulk"}

Merging == INSTANCE PartyMerge WITH
  into <- v1, pointer <- v2, settled <- v3, rows <- v4, link <- v5, merges <- v6,
  sess <- v7, Parties <- {b1, b2, x1}, Matters <- {"matter"}, Intakes <- {},
  Staff <- {s1, s2}, MaxRows <- 1, MaxMerges <- 2

Pair == INSTANCE PartyMerge WITH
  into <- v1, pointer <- v2, settled <- v3, rows <- v4, link <- v5, merges <- v6,
  sess <- v7, Parties <- {b1, b2}, Matters <- {"matter"}, Intakes <- {},
  Staff <- {s1, s2}, MaxRows <- 2, MaxMerges <- 2

\* Nobody is linked here: the three clients of one matter are enough.
Trio == INSTANCE PartyMerge WITH
  into <- v1, pointer <- v2, settled <- v3, rows <- v4, link <- v5, merges <- v6,
  sess <- v7, Parties <- {b1, b2, x1}, Matters <- {"matter"}, Intakes <- {},
  Staff <- {s1, s2}, MaxRows <- 3, MaxMerges <- 1

Work == INSTANCE Workflow WITH
  template <- v1, stage <- v2, tasks <- v3, status <- v4, applying <- v5,
  anchor <- v1, responsible <- v2, task <- v3, dates <- v4, slots <- v5,
  images <- v6, Templates <- {b1, b2}, Actors <- {x1}, MaxStages <- 2,
  MaxVersions <- 2, Tasks <- {b1, b2}, Definitions <- {x1},
  RuleOf <- [i \in {b1, b2} |-> x1], Staff <- {s1, s2}, MaxDate <- 1

Captured == INSTANCE Capture WITH
  timer <- v1, suggestion <- v2, entries <- v3, estimate <- v4, clock <- v5,
  req <- v6, Timers <- {x1}, Signals <- {b1, b2}, Requests <- {s1, s2},
  MaxClock <- 2, MaxMeasure <- 1, MaxArming <- 2

ToTheCent == INSTANCE Cents WITH
  item <- v1, costType <- v2, originals <- v1, value <- v2, cuts <- v3, target <- v4,
  weights <- v5, taken <- v6, fan <- v7, Totals <- 1..60,
  Rates <- {0, 5, 10, 15, 20}, Values <- {2, 5, 7},
  Splits <- {<<100>>, <<50, 50>>, <<33, 33, 34>>, <<25, 25, 25, 25>>, <<70, 20, 10>>}

Signing == INSTANCE Sessions WITH
  account <- v1, session <- v2, device <- v3, act <- v4, Staff <- {x1},
  Invites <- {c1}, Grants <- {g1}, Slots <- {b1, b2}, Actors <- {s1, s2}

Sight == INSTANCE Visibility WITH
  role <- v1, active <- v2, caps <- v3, scope <- v4, home <- v5, grants <- v6,
  blocks <- v7, restricted <- v8, rows <- v9, responsible <- v10, sess <- v11,
  Staff <- {s1, s2}, Roles <- {c1, c2}, Users <- {b1, b2}, Scopes <- {"assignment"}

Files == INSTANCE Documents WITH
  doc <- v1, text <- v2, open <- v3, act <- v4, request <- v1, share <- v2,
  parent <- v3, visit <- v4, Docs <- {x1}, Users <- {s1, s2}, Sweepers <- {c1},
  MaxVersions <- 2, Requests <- {x1}, Shares <- {c1}, Folders <- {b1, b2},
  Doorkeepers <- {s1, s2}, Nobody <- NoOne, MaxViews <- 1, MaxServes <- 3

Post == INSTANCE Mailbox WITH
  mail <- v1, conn <- v2, token <- v3, open <- v4, poll <- v5, Inboxes <- {x1},
  Mails <- Letters, BoxOf <- Box, Shared <- g1, Pollers <- {s1, s2}

Sending == INSTANCE Outbound WITH
  state <- v1, source <- v2, reached <- v3, copies <- v4, noted <- v5, at <- v6,
  holds <- v7, deaths <- v8, schedule <- v1, staff <- v2, job <- v3, sent <- v4,
  excused <- v5, periods <- v6, crashes <- v7, Rows <- {1, 2, 3}, Bills <- {1, 2},
  Workers <- {s1, s2}, MaxDeaths <- 2, Recipients <- {b1, b2}, Runners <- {s1, s2},
  MaxPeriods <- 2, MaxCrashes <- 1

Doorway == INSTANCE IntakeInterface WITH
  key <- v1, outcome <- v2, effects <- v3, answers <- v4, rows <- v5, reads <- v6,
  episodes <- v7, caller <- v8, Callers <- {s1, s2}, Refs <- {x1}, NoRef <- NoOne,
  Limit <- 1

Firm == INSTANCE Configuration WITH
  history <- v1, cancelled <- v2, now <- v3, items <- v1, fields <- v2, chosen <- v3,
  job <- v4, state <- v1, grants <- v2, alerts <- v3, exported <- v4, acting <- v5,
  reinstated <- v6, Values <- {0, 1}, Default <- 0, Grace <- 1, Horizon <- 6,
  Items <- {1, 2}, Shipped <- {1}, Fields <- {b1, b2}, Owners <- {x1},
  Actors <- {s1, s2}, Nothing <- 0, Administrators <- {s1, s2, x1}, Limit <- 3,
  MaxAlerts <- 4

Sums == INSTANCE Formulas WITH
  value <- v1, was <- v2, Literals <- Numerals, Dates <- 0..9, NonWorking <- {0, 6},
  Holidays <- {8, 9}, MaxPlaces <- 3, MaxDays <- 3, Bound <- 12

\* The variables an instance leaves unused are 0.
Spare11 == v11 = 0
Spare10 == v10 = 0 /\ Spare11
Spare9 == v9 = 0 /\ Spare10
Spare8 == v8 = 0 /\ Spare9
Spare7 == v7 = 0 /\ Spare8
Spare6 == v6 = 0 /\ Spare7
Spare5 == v5 = 0 /\ Spare6
Spare4 == v4 = 0 /\ Spare5
Spare3 == v3 = 0 /\ Spare4
Spare2 == v2 = 0 /\ Spare3
Spare1 == v1 = 0 /\ Spare2

\* The work of the practice while another instance behaves: unbilled, and nobody drafts it.
Resting ==
  /\ item = [i \in Items |-> [st |-> "unbilled", deleted |-> FALSE, val |-> 1, group |-> None]]
  /\ group = [g \in Groups |-> NoGroup] /\ run = [r \in Runs |-> "none"]
  /\ taxRule = 0 /\ approval = FALSE
  /\ lock = [m \in Matters |-> None] /\ job = [s \in Sessions |-> Idle]

MCInit ==
  /\ which \in Modes
  /\ \/ which = "drafting" /\ Init /\ Spare1
     \/ which = "opening" /\ Life!OpeningInit /\ Spare6 /\ Resting
     \/ which = "closing" /\ Life!ClosingInit /\ Spare8 /\ Resting
     \/ which = "merging" /\ Merging!Init /\ Spare8 /\ Resting
     \/ which = "merging_two" /\ Pair!Init /\ Spare8 /\ Resting
     \/ which = "merging_three" /\ Trio!Init /\ v5 = {} /\ Spare8 /\ Resting
     \/ which = "stages" /\ Work!StageInit /\ Spare6 /\ Resting
     \/ which = "proposals" /\ Work!ProposalInit /\ Spare7 /\ Resting
     \/ which = "capture" /\ Captured!Init /\ Spare7 /\ Resting
     \/ which = "disbursements" /\ ToTheCent!CostInit /\ Spare3 /\ Resting
     \/ which = "shares" /\ ToTheCent!ShareInit /\ Spare8 /\ Resting
     \/ which = "sessions" /\ Signing!Init /\ Spare5 /\ Resting
     \/ which = "visibility" /\ Sight!Init /\ Resting
     \/ which = "documents" /\ Files!FileInit /\ Spare5 /\ Resting
     \/ which = "doors" /\ Files!DoorInit /\ Spare5 /\ Resting
     \/ which = "mailbox" /\ Post!Init /\ Spare6 /\ Resting
     \/ which = "outbound" /\ Sending!QueueInit /\ Spare9 /\ Resting
     \/ which = "reports" /\ Sending!ReportInit /\ Spare8 /\ Resting
     \/ which = "intake" /\ Doorway!Init /\ Spare9 /\ Resting
     \/ which = "settings" /\ Firm!SettingInit /\ Spare4 /\ Resting
     \/ which = "lists" /\ Firm!ListInit /\ Spare5 /\ Resting
     \/ which = "private" /\ Firm!PrivateInit /\ Spare7 /\ Resting
     \/ which = "formulas" /\ Sums!Init /\ Spare3 /\ Resting

MCNext ==
  \/ /\ which = "drafting" /\ Next
     /\ UNCHANGED <<which, v1, v2, v3, v4, v5, v6, v7, v8, v9, v10, v11>>
  \/ /\ which = "opening" /\ Life!OpeningNext
     /\ UNCHANGED <<which, vars, v6, v7, v8, v9, v10, v11>>
  \/ /\ which = "closing" /\ Life!ClosingNext
     /\ UNCHANGED <<which, vars, v8, v9, v10, v11>>
  \/ /\ which = "merging" /\ Merging!Next
     /\ UNCHANGED <<which, vars, v8, v9, v10, v11>>
  \/ /\ which = "merging_two" /\ Pair!Next
     /\ UNCHANGED <<which, vars, v8, v9, v10, v11>>
  \/ /\ which = "merging_three" /\ Trio!Next
     /\ UNCHANGED <<which, vars, v8, v9, v10, v11>>
  \/ /\ which = "stages" /\ Work!StageNext
     /\ UNCHANGED <<which, vars, v6, v7, v8, v9, v10, v11>>
  \/ /\ which = "proposals" /\ Work!ProposalNext
     /\ UNCHANGED <<which, vars, v7, v8, v9, v10, v11>>
  \/ /\ which = "capture" /\ Captured!Next
     /\ UNCHANGED <<which, vars, v7, v8, v9, v10, v11>>
  \/ /\ which = "disbursements" /\ ToTheCent!CostNext
     /\ UNCHANGED <<which, vars, v3, v4, v5, v6, v7, v8, v9, v10, v11>>
  \/ /\ which = "shares" /\ ToTheCent!ShareNext
     /\ UNCHANGED <<which, vars, v8, v9, v10, v11>>
  \/ /\ which = "sessions" /\ Signing!Next
     /\ UNCHANGED <<which, vars, v5, v6, v7, v8, v9, v10, v11>>
  \/ /\ which = "visibility" /\ Sight!Next
     /\ UNCHANGED <<which, vars>>
  \/ /\ which = "documents" /\ Files!FileNext
     /\ UNCHANGED <<which, vars, v5, v6, v7, v8, v9, v10, v11>>
  \/ /\ which = "doors" /\ Files!DoorNext
     /\ UNCHANGED <<which, vars, v5, v6, v7, v8, v9, v10, v11>>
  \/ /\ which = "mailbox" /\ Post!Next
     /\ UNCHANGED <<which, vars, v6, v7, v8, v9, v10, v11>>
  \/ /\ which = "outbound" /\ Sending!QueueNext
     /\ UNCHANGED <<which, vars, v9, v10, v11>>
  \/ /\ which = "reports" /\ Sending!ReportNext
     /\ UNCHANGED <<which, vars, v8, v9, v10, v11>>
  \/ /\ which = "intake" /\ Doorway!Next
     /\ UNCHANGED <<which, vars, v9, v10, v11>>
  \/ /\ which = "settings" /\ Firm!SettingNext
     /\ UNCHANGED <<which, vars, v4, v5, v6, v7, v8, v9, v10, v11>>
  \/ /\ which = "lists" /\ Firm!ListNext
     /\ UNCHANGED <<which, vars, v5, v6, v7, v8, v9, v10, v11>>
  \/ /\ which = "private" /\ Firm!PrivateNext
     /\ UNCHANGED <<which, vars, v7, v8, v9, v10, v11>>
  \/ /\ which = "formulas" /\ Sums!Next
     /\ UNCHANGED <<which, vars, v3, v4, v5, v6, v7, v8, v9, v10, v11>>

all == <<which, vars, v1, v2, v3, v4, v5, v6, v7, v8, v9, v10, v11>>
MCSpec == MCInit /\ [][MCNext]_all

-----------------------------------------------------------------------------
\* The rows and the transactions of every instance have the types its module gives;
\* of the work drafted, the inductive invariant holds that contains them.
StatesOK ==
  CASE which = "drafting" -> Discipline
    [] which = "opening" -> Life!OpeningTypeOK
    [] which = "closing" -> Life!ClosingTypeOK
    [] which = "merging" -> Merging!TypeOK
    [] which = "merging_two" -> Pair!TypeOK
    [] which = "merging_three" -> Trio!TypeOK
    [] which = "stages" -> Work!StageTypeOK
    [] which = "proposals" -> Work!ProposalTypeOK
    [] which = "capture" -> Captured!TypeOK
    [] which = "disbursements" -> ToTheCent!CostTypeOK
    [] which = "shares" -> ToTheCent!ShareTypeOK
    [] which = "sessions" -> Signing!TypeOK
    [] which = "visibility" -> Sight!TypeOK
    [] which = "documents" -> Files!FileTypeOK
    [] which = "doors" -> Files!DoorTypeOK
    [] which = "mailbox" -> Post!TypeOK
    [] which = "outbound" -> Sending!QueueTypeOK
    [] which = "reports" -> Sending!ReportTypeOK
    [] which = "intake" -> Doorway!TypeOK
    [] which = "settings" -> Firm!SettingTypeOK
    [] which = "lists" -> Firm!ListTypeOK
    [] which = "private" -> Firm!PrivateTypeOK
    [] which = "formulas" -> Sums!TypeOK

\* A matter is opened once and cleared, on parties that exist, goes through one whole
\* tree of stages, and is asked to close only while it can be.
MattersHold ==
  \* an intake becomes one matter
  /\ which = "opening" => Life!ConvertedOnce
  \* every matter opened behind the gate was cleared
  /\ which = "opening" => Life!OpenedWhenCleared
  \* the redirects of merged parties end at an active one
  /\ which = "merging" => Merging!RedirectsEnd
  \* a request waits only on a matter that can still be closed
  /\ which = "closing" => Life!PendingOnLiveMatters
  \* the stages are those of one template, as it was when it was applied
  /\ which = "stages" => Work!WholeTree
  \* a stage is current or done only once entered, one is current
  /\ which = "stages" => Work!MovedWhenEntered
  \* what a slot run records as before is what it replaced
  /\ which = "proposals" => Work!SlotImagesTrue

\* Work is recorded as it was done, once, and shared out to the cent.
WorkIsTrue ==
  \* a timer counts the time it truly ran
  /\ which = "capture" => Captured!TimerIsTrue
  \* a timer or a signal becomes one entry
  /\ which = "capture" => Captured!OneEntryEach
  \* an estimate's threshold fires once for each arming
  /\ which = "capture" => Captured!FiredOnce
  \* a net derived from a typed total lands on it to the cent
  /\ which = "disbursements" => ToTheCent!TotalsLand
  \* no cent is lost over the payers, nobody is written down below zero
  /\ which = "shares" => ToTheCent!WriteDownsFit
  \* what a bill collects is all attributed
  /\ which = "shares" => ToTheCent!FansAreWhole

\* A change of many rows is whole, and looks at what is there when it commits.
ChangesAreWhole ==
  [][
     \* nothing live names the party that was absorbed
     /\ which = "merging" => Merging!MovesEverything
     /\ which = "merging_two" => Pair!MovesEverything
     /\ which = "merging_three" => Trio!MovesEverything
     \* a merge undone has been put back whole
     /\ which = "merging" => Merging!UndoesWhole
     /\ which = "merging_two" => Pair!UndoesWhole
     /\ which = "merging_three" => Trio!UndoesWhole
     \* by whichever door, no client money and no unbilled work are left on a closed
     \* matter
     /\ which = "closing" => Life!ClosesFresh
     \* the reversal of a bulk run puts back the status it recorded
     /\ which = "closing" => Life!GivesBack
     \* a resolved suggestion is not resolved again
     /\ which = "capture" => Captured!StaysResolved]_all

\* What two requests, polls or runs may both attempt is done once.
DoneOnce ==
  \* one end-of-session event for a session
  /\ which = "sessions" => Signing!EndedOnce
  \* one signed copy for each signed request, none for others
  /\ which = "doors" => Files!SignedOnce
  \* a message is filed once, however many polls list it
  /\ which = "mailbox" => Post!FiledOnce
  \* a message goes out again only where a dispatcher died over it
  /\ which = "outbound" => Sending!TwiceOnlyAfterDeath
  \* a reference has one effect and one answer
  /\ which = "intake" => Doorway!OneAnswerPerReference
  \* one copy to a recipient each time a schedule falls due, unless runs overlap or
  \* die
  /\ which = "reports" => Sending!OnceUnlessOverlapped
  \* one active field for a scope and key
  /\ which = "lists" => Firm!OneActiveField

\* Rows that are kept twice, counted or computed agree with what they stand for.
RowsAgree ==
  \* the restricted flag says whether there are grants
  /\ which = "visibility" => Sight!RestrictedMirror
  \* the dry run shows exactly who gains and loses sight
  /\ which = "visibility" => Sight!PreviewIsExact
  \* the head names the newest version
  /\ which = "documents" => Files!HeadIsNewest
  \* every serve of a share is on its counter, and only serves at once pass its budget
  /\ which = "doors" => Files!ServesCounted
  \* a folder lies in one that exists
  /\ which = "doors" => Files!ParentsExist
  \* an inbox's watermark passes only messages that were filed
  /\ which = "mailbox" => Post!NonePassedBy
  \* the limit is passed only by requests in flight together
  /\ which = "intake" => Doorway!OverrunByThoseInFlight
  \* the alert that reaches the limit suspends
  /\ which = "private" => Firm!ThirdSuspends
  \* a value names an item that exists
  /\ which = "lists" => Firm!NothingDangles
  \* money marked rounded is whole cents
  /\ which = "formulas" => Sums!RoundedIsCents
  \* a rounded value is the nearest, or the next one up or down, for its mode
  /\ which = "formulas" => Sums!RoundsRight
  \* days added land on a working day, with as many between
  /\ which = "formulas" => Sums!WorkingDaysAdd

\* What was ended, protected or passed stays so against whatever was read before it.
NothingComesBack ==
  [][
     \* a revoked invitation stays revoked
     /\ which = "sessions" => Signing!RevokedStay
     \* a locked or held document is not changed or deleted
     /\ which = "documents" => Files!Protects
     \* a revoked key creates nothing and reads no template
     /\ which = "intake" => Doorway!GrantsNothing
     \* what governed an earlier instant does not change, but inside the grace
     /\ which = "settings" => Firm!KeepsPast
     \* a retired namespace stays retired and frozen
     /\ which = "private" => Firm!StaysRetired]_all

Symmetry == Permutations({s1, s2}) \cup Permutations({b1, b2})

PlatformSymmetry == Permutations({s1, s2}) \cup Permutations({b1, b2}) \cup Permutations({c1, c2})
=============================================================================
