----------------------------- MODULE Arrangements -----------------------------
(***************************************************************************)
(* Payment arrangements: instalments over the bills they cover, paid as      *)
(* collections cover them, notified, collected and missed by scheduled jobs, *)
(* reactivated and cancelled by staff, settled by the payment channel.       *)
(*                                                                         *)
(* One action per committed transaction, except where a job or the issue of  *)
(* a bill acts on what an earlier statement read.  Every instalment is for   *)
(* one unit.  Receivables has the journal, disputes and the other stops.     *)
(***************************************************************************)
EXTENDS Integers, Sequences, FiniteSets, FiniteSetsExt

CONSTANTS
  Arrangements, Bills,
  Count,        \* the instalments of a new arrangement
  CoversFuture, \* the arrangements that adopt bills issued later
  MaxOwed,      \* bound: what a bill is issued for
  MaxSlots      \* bound: instalments of one arrangement, replacements included

ASSUME IdAssumption == Arrangements \subseteq Nat \ {0} /\ Bills \subseteq Nat \ {0}
ASSUME ParameterAssumption ==
  /\ Count \in Nat \ {0} /\ MaxSlots \in Nat /\ MaxOwed \in Nat \ {0}
  /\ CoversFuture \subseteq Arrangements

VARIABLES
  arr,        \* each payment_arrangement: its state and the bills it covers
  slots,      \* its instalments, in sequence: state, how near the due date, channel
  collected,  \* allocations less unallocations on its bills since it was created
  owed,       \* what is outstanding on each bill; 0 until it is issued
  allocated,  \* allocations not taken back, of each bill
  reminder,   \* the reminder status of each bill
  adopting,   \* what the issue of a bill read: the arrangement that adopts it
  todo        \* the instalments each job has listed and not handled yet

money == <<collected, owed, allocated>>
planVars == <<arr, slots, money, reminder, adopting, todo>>

Jobs == {"notify", "collect", "miss"}
LiveStates == {"active", "broken"}
Unsettled == {"scheduled", "notified", "collecting"}

\* How near an instalment's date is: Ahead of its notice, Due from the notice to the end
\* of the grace, then Overdue.
Ahead == 0      Due == 1      Overdue == 2

Slot == [state : Unsettled \cup {"paid", "missed"}, near : Ahead..Overdue,
         channel : {"none", "started", "settled", "failed"}]
NewSlot == [state |-> "scheduled", near |-> Ahead, channel |-> "none"]

Keys == {<<a, i>> : a \in Arrangements, i \in 1..MaxSlots}
SlotAt(k) == slots[k[1]][k[2]]
Existing == {k \in Keys : k[2] \in DOMAIN slots[k[1]]}

PlanTypeOK ==
  /\ arr \in [Arrangements -> [state : LiveStates \cup {"none", "completed", "cancelled"},
                               covers : SUBSET Bills]]
  /\ slots \in [Arrangements -> Seq(Slot)] /\ collected \in [Arrangements -> Int]
  /\ owed \in [Bills -> Nat] /\ allocated \in [Bills -> Nat]
  /\ reminder \in [Bills -> {"none", "running", "stopped_paid", "stopped_arrangement"}]
  /\ adopting \in [Bills -> Arrangements \cup {0}]
  /\ todo \in [Jobs -> SUBSET Keys]

PlanInit ==
  /\ arr = [a \in Arrangements |-> [state |-> "none", covers |-> {}]]
  /\ slots = [a \in Arrangements |-> << >>]
  /\ collected = [a \in Arrangements |-> 0]
  /\ owed = [b \in Bills |-> 0] /\ allocated = owed
  /\ reminder = [b \in Bills |-> "none"]
  /\ adopting = [b \in Bills |-> 0]
  /\ todo = [j \in Jobs |-> {}]

(***************************************************************************)
(* Cumulative coverage: an instalment is paid when collections meet the sum  *)
(* of the instalments up to it, missed ones included.                        *)
(***************************************************************************)
Covering(b) == {a \in Arrangements : b \in arr[a].covers}
CoveredActive(b) == \E a \in Covering(b) : arr[a].state = "active"
Covered(b) == \E a \in Covering(b) : arr[a].state \in LiveStates

PaysUpTo(ss, n) ==
  [i \in DOMAIN ss |-> IF ss[i].state \in Unsettled /\ n >= i
                       THEN [ss[i] EXCEPT !.state = "paid"] ELSE ss[i]]

NoneOpen(ss) == \A i \in DOMAIN ss : ss[i].state \notin Unsettled
AllPaid(ss) == \A i \in DOMAIN ss : ss[i].state = "paid"

ScopeClear(a, due) == a \in CoversFuture => \A b \in arr[a].covers : due[b] = 0

\* Coverage applied for bill b, to the instalments ss, with n collected by each arrangement
\* and what is due on each bill.
CoversLive(a, b) == b \in arr[a].covers /\ arr[a].state \in LiveStates

PaidSlots(b, n, ss) ==
  [a \in Arrangements |-> IF CoversLive(a, b) THEN PaysUpTo(ss[a], n[a]) ELSE ss[a]]

CoverageOf(b, n, due, ss) ==
  /\ slots' = PaidSlots(b, n, ss)
  /\ arr' = [a \in Arrangements |->
               IF /\ CoversLive(a, b) /\ arr[a].state = "active"
                  /\ AllPaid(slots'[a]) /\ ScopeClear(a, due)
               THEN [arr[a] EXCEPT !.state = "completed"] ELSE arr[a]]

AnyBill(b) == TRUE
Payable(b) == owed[b] > 0

\* A unit is allocated to b in a transaction that has made the instalments ss.
Allocated(b, ss) ==
  /\ owed' = [owed EXCEPT ![b] = @ - 1]
  /\ allocated' = [allocated EXCEPT ![b] = @ + 1]
  /\ collected' = [a \in Arrangements |-> collected[a] + (IF a \in Covering(b) THEN 1 ELSE 0)]
  /\ reminder' = [reminder EXCEPT ![b] =
                    IF owed[b] = 1 /\ @ = "running" THEN "stopped_paid" ELSE @]
  /\ CoverageOf(b, collected', owed', ss)

Allocate(b) ==
  /\ Payable(b) /\ Allocated(b, slots)
  /\ UNCHANGED <<adopting, todo>>

Unallocate(b) ==
  /\ allocated[b] > 0
  /\ owed' = [owed EXCEPT ![b] = @ + 1]
  /\ allocated' = [allocated EXCEPT ![b] = @ - 1]
  /\ collected' = [a \in Arrangements |-> collected[a] - (IF a \in Covering(b) THEN 1 ELSE 0)]
  /\ reminder' = [reminder EXCEPT ![b] = IF @ = "stopped_paid" THEN "running" ELSE @]
  /\ UNCHANGED <<arr, slots, adopting, todo>>

(***************************************************************************)
(* Staff: create, reactivate, cancel.                                       *)
(***************************************************************************)
Stopped(bs) == [b \in Bills |-> IF b \in bs /\ reminder[b] = "running"
                                THEN "stopped_arrangement" ELSE reminder[b]]

\* A bill whose arrangement lets go is reminded of again, or is found paid.
Resumed(bs) == [b \in Bills |-> IF b \notin bs \/ reminder[b] # "stopped_arrangement" THEN reminder[b]
                                ELSE IF owed[b] > 0 THEN "running" ELSE "stopped_paid"]

Create(a, bs) ==
  /\ arr[a].state = "none" /\ (bs # {} \/ a \in CoversFuture)
  /\ \A b \in bs : owed[b] > 0 /\ ~Covered(b)
  /\ arr' = [arr EXCEPT ![a] = [state |-> "active", covers |-> bs]]
  /\ slots' = [slots EXCEPT ![a] = [i \in 1..Count |-> NewSlot]]
  /\ reminder' = Stopped(bs)
  /\ UNCHANGED <<money, adopting, todo>>

\* Live instalments move to new dates; one is appended for every missed row there is.
Reactivate(a) ==
  LET ss == slots[a]
      missed == Cardinality({i \in DOMAIN ss : ss[i].state = "missed"})
      moved == [i \in DOMAIN ss |-> IF ss[i].state \in Unsettled
                                    THEN [ss[i] EXCEPT !.near = Ahead] ELSE ss[i]]
  IN  /\ arr[a].state = "broken" /\ \E i \in DOMAIN ss : ss[i].state # "paid"
      /\ Len(ss) + missed <= MaxSlots
      /\ arr' = [arr EXCEPT ![a].state = "active"]
      /\ slots' = [slots EXCEPT ![a] = moved \o [i \in 1..missed |-> NewSlot]]
      /\ reminder' = Stopped(arr[a].covers)
      /\ UNCHANGED <<money, adopting, todo>>

Cancel(a) ==
  /\ arr[a].state \in LiveStates
  /\ arr' = [arr EXCEPT ![a].state = "cancelled"]
  /\ reminder' = Resumed(arr[a].covers)
  /\ UNCHANGED <<slots, money, adopting, todo>>

(***************************************************************************)
(* Issuing a bill.  The arrangement that adopts it is read first and joined  *)
(* after; the guard on the coverage row only asks that it is still live.     *)
(***************************************************************************)
Adopters == {a \in CoversFuture : arr[a].state = "active"}

ReadAdopter(b) ==
  /\ reminder[b] = "none" /\ adopting[b] = 0 /\ Adopters # {}
  /\ adopting' = [adopting EXCEPT ![b] = Min(Adopters)]
  /\ UNCHANGED <<arr, slots, money, reminder, todo>>

Issue(b, n) ==
  LET a == adopting[b]
  IN  /\ reminder[b] = "none" /\ (a = 0 => Adopters = {})
      /\ owed' = [owed EXCEPT ![b] = n]
      /\ \/ /\ a = 0
            /\ reminder' = [reminder EXCEPT ![b] = "running"]
            /\ UNCHANGED arr
         \/ /\ a # 0 /\ arr[a].state \in LiveStates
            /\ reminder' = [reminder EXCEPT ![b] = "stopped_arrangement"]
            /\ arr' = [arr EXCEPT ![a].covers = @ \cup {b}]
      /\ adopting' = [adopting EXCEPT ![b] = 0]
      /\ UNCHANGED <<slots, collected, allocated, todo>>

IssueFails(b) ==
  /\ adopting[b] # 0 /\ adopting' = [adopting EXCEPT ![b] = 0]
  /\ UNCHANGED <<arr, slots, money, reminder, todo>>

(***************************************************************************)
(* The jobs list in one transaction and handle each instalment in another,   *)
(* which looks at the instalment's state again and at nothing else.          *)
(***************************************************************************)
WithinNotice(k) == /\ SlotAt(k).state = "scheduled" /\ SlotAt(k).near >= Due
                   /\ arr[k[1]].state = "active"
Collectable(k) == /\ SlotAt(k).state = "notified" /\ SlotAt(k).near >= Due
                  /\ arr[k[1]].state = "active"
NotCollecting(k) == /\ SlotAt(k).state \in Unsettled \ {"collecting"} /\ SlotAt(k).near = Overdue
                    /\ arr[k[1]].state \in LiveStates
Missable(k) == /\ SlotAt(k).state \in Unsettled /\ SlotAt(k).near = Overdue
               /\ arr[k[1]].state \in LiveStates

Listed(j) == {k \in Existing : CASE j = "notify" -> WithinNotice(k)
                                 [] j = "collect" -> Collectable(k)
                                 [] OTHER -> Missable(k)}

List(j) ==
  /\ todo[j] = {} /\ Listed(j) # {}
  /\ todo' = [todo EXCEPT ![j] = Listed(j)]
  /\ UNCHANGED <<arr, slots, money, reminder, adopting>>

Handles(j, k) == k \in todo[j] /\ todo' = [todo EXCEPT ![j] = @ \ {k}]
SetsSlot(k, slot) == slots' = [slots EXCEPT ![k[1]][k[2]] = slot]

Skip(j, k) ==
  /\ Handles(j, k)
  /\ SlotAt(k).state \notin (CASE j = "notify" -> {"scheduled"}
                               [] j = "collect" -> {"notified"}
                               [] OTHER -> Unsettled)
  /\ UNCHANGED <<arr, slots, money, reminder, adopting>>

Notify(k) ==
  /\ Handles("notify", k) /\ SlotAt(k).state = "scheduled"
  /\ SetsSlot(k, [SlotAt(k) EXCEPT !.state = "notified"])
  /\ UNCHANGED <<arr, money, reminder, adopting>>

Collect(k) ==
  /\ Handles("collect", k) /\ SlotAt(k).state = "notified"
  /\ SetsSlot(k, [SlotAt(k) EXCEPT !.state = "collecting", !.channel = "started"])
  /\ UNCHANGED <<arr, money, reminder, adopting>>

\* Instalment k, unpaid among the instalments ss, is missed.
Misses(k, ss) ==
  LET a == k[1]
      breaks == arr[a].state = "active"
  IN  /\ slots' = [ss EXCEPT ![a][k[2]].state = "missed"]
      /\ arr' = IF breaks THEN [arr EXCEPT ![a].state = "broken"] ELSE arr
      /\ reminder' = [b \in Bills |-> IF /\ breaks /\ b \in arr[a].covers
                                         /\ reminder[b] = "stopped_arrangement"
                                      THEN "running" ELSE reminder[b]]

\* Coverage goes first, through any bill of the arrangement.
Miss(k) ==
  LET bills == arr[k[1]].covers
      after(b) == PaidSlots(b, collected, slots)
  IN  /\ Handles("miss", k) /\ SlotAt(k).state \in Unsettled
      /\ \/ bills = {} /\ Misses(k, slots)
         \/ \E b \in bills :
              IF after(b)[k[1]][k[2]].state = "paid"
              THEN CoverageOf(b, collected, owed, slots) /\ UNCHANGED reminder
              ELSE Misses(k, after(b))
      /\ UNCHANGED <<money, adopting>>

(***************************************************************************)
(* The payment channel: a collection settles, paying its instalment and then *)
(* the arrangement's oldest bill that owes, or fails and changes no figure.  *)
(***************************************************************************)
Settle(k) ==
  LET a == k[1]
      bills == {b \in arr[a].covers : Payable(b)}
      paid == [SlotAt(k) EXCEPT !.channel = "settled",
                                !.state = IF @ = "missed" THEN @ ELSE "paid"]
      ss == [slots EXCEPT ![a][k[2]] = paid]
  IN  /\ k \in Existing /\ SlotAt(k).channel = "started"
      /\ IF bills # {} THEN Allocated(Min(bills), ss)
                       ELSE slots' = ss /\ UNCHANGED <<arr, money, reminder>>
      /\ UNCHANGED <<adopting, todo>>

ChannelFails(k) ==
  /\ k \in Existing /\ SlotAt(k).channel = "started"
  /\ SetsSlot(k, [SlotAt(k) EXCEPT !.channel = "failed"])
  /\ UNCHANGED <<arr, money, reminder, adopting, todo>>

\* Dates come in the order of the instalments.
DayPasses(k) ==
  /\ k \in Existing /\ SlotAt(k).state \in Unsettled /\ SlotAt(k).near < Overdue
  /\ \A i \in 1..(k[2] - 1) :
       slots[k[1]][i].state \in Unsettled => slots[k[1]][i].near > SlotAt(k).near
  /\ SetsSlot(k, [SlotAt(k) EXCEPT !.near = @ + 1])
  /\ UNCHANGED <<arr, money, reminder, adopting, todo>>

HandleMiss(k) == Miss(k) \/ Skip("miss", k)

PlanNext ==
  \/ \E a \in Arrangements : (\E bs \in SUBSET Bills : Create(a, bs)) \/ Reactivate(a) \/ Cancel(a)
  \/ \E b \in Bills : Allocate(b) \/ Unallocate(b) \/ ReadAdopter(b) \/ IssueFails(b)
  \/ \E b \in Bills, n \in 1..MaxOwed : Issue(b, n)
  \/ \E j \in Jobs : List(j)
  \/ \E j \in Jobs, k \in Keys : Skip(j, k)
  \/ \E k \in Keys : \/ Notify(k) \/ Collect(k) \/ Miss(k)
                     \/ Settle(k) \/ ChannelFails(k) \/ DayPasses(k)

PlanSpec == PlanInit /\ [][PlanNext]_planVars

\* The scheduler runs miss detection again and again, and a run goes through its list.
FairSpec == PlanSpec /\ WF_planVars(List("miss")) /\ \A k \in Keys : WF_planVars(HandleMiss(k))

(***************************************************************************)
(* Properties.                                                              *)
(***************************************************************************)

\* "One live arrangement covers any bill, ever" (arrangements.ts), though a broken
\* one may come back and a new bill may be adopted meanwhile.
OneLiveCover ==
  \A b \in Bills : Cardinality({a \in Covering(b) : arr[a].state \in LiveStates}) <= 1

\* A completed arrangement was paid to the last instalment: none was missed or is open,
\* and no job that had listed one changes it afterwards (applyInstalmentCoverageInTx).
CompletedMeansPaid ==
  \A a \in Arrangements : arr[a].state = "completed" =>
    \A i \in DOMAIN slots[a] : slots[a][i].state = "paid"

PastGrace(k) == /\ k \in Existing
                /\ SlotAt(k).state \in Unsettled /\ SlotAt(k).near = Overdue
                /\ arr[k[1]].state \in LiveStates

\* The inductive invariant: a bill has one live arrangement and none before it is issued,
\* nor any money; instalments are made with their arrangement; and what a job has listed is
\* there when it comes to it.
Apart ==
  \A b \in Bills : \A a, d \in Arrangements : CoversLive(a, b) /\ CoversLive(d, b) => a = d
NotIssuedYet ==
  \A b \in Bills : reminder[b] = "none" => owed[b] = 0 /\ allocated[b] = 0 /\ Covering(b) = {}

PlanDiscipline ==
  /\ PlanTypeOK
  /\ Apart
  /\ NotIssuedYet
  /\ \A a \in Arrangements : arr[a].state = "none" => DOMAIN slots[a] = {}
  /\ \A j \in Jobs : todo[j] \subseteq Existing
  /\ CompletedMeansPaid

\* Whatever the jobs, staff and channel do around it, an instalment whose grace has
\* passed is paid, missed or moved, or its arrangement ends (runMissedInstalmentDetection).
OverdueSettles ==
  \A k \in Keys : PastGrace(k) ~> ~PastGrace(k)

\* "Each gets a fresh replacement slot appended, so the plan keeps its full count":
\* a reactivated arrangement asks for as many instalments as it was made for.
PlanKeepsItsCount ==
  \A a \in Arrangements : arr[a].state = "active" =>
    Cardinality({i \in DOMAIN slots[a] : slots[a][i].state # "missed"}) = Count

\* "The coverage ladder excludes missed rows, so a replaced slot's amount is counted
\* exactly once": the unmissed instalments that collections meet are paid.
ReplacedSlotsCountOnce ==
  \A a \in Arrangements : arr[a].state \in LiveStates =>
    \A i \in DOMAIN slots[a] : slots[a][i].state \in Unsettled =>
      collected[a] < Cardinality({m \in 1..i : slots[a][m].state # "missed"})

\* One collection of one instalment pays one instalment: what a transaction collects and
\* what it marks paid agree (the settlement of a collection, channel.ts).
OneCollectionPaysOne ==
  [][\A a \in Arrangements :
       LET paid(ss) == Cardinality({i \in DOMAIN ss : ss[i].state = "paid"})
       IN  collected[a]' > collected[a] => paid(slots'[a]) <= paid(slots[a]) + 1]_planVars

\* "While an arrangement is active the covered bills' reminders stop, and a broken
\* arrangement resumes them": a bill stopped for an arrangement has an active one.
StopHasItsArrangement ==
  \A b \in Bills : reminder[b] = "stopped_arrangement" => CoveredActive(b)

\* The stored method is charged for active arrangements only.
CollectsOnlyWhenActive ==
  [][\A k \in Existing : SlotAt(k).channel = "none" /\ SlotAt(k)'.channel = "started"
       => arr[k[1]].state = "active"]_planVars
=============================================================================
