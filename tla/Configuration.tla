--------------------------- MODULE Configuration ----------------------------
\* What a firm configures: a setting and its history, choice lists with the custom
\* fields over them, and the private layer. The parts share no row; each has its own
\* variables and its own next-state relation.
EXTENDS Integers, FiniteSets, FiniteSetsExt

-----------------------------------------------------------------------------
(***************************************************************************)
(* One firm setting over its insert-only, effective-dated history          *)
(* (lib/ops/config: settings).  A change appends a row that governs from   *)
(* its instant on; a change still to come is cancelled by appending a row  *)
(* one second later with the value that governed before it.  A tick is a   *)
(* second; transactions are shorter.                                       *)
(***************************************************************************)
CONSTANTS
    Values,       \* values the definition allows
    Default,      \* its neutral default
    Grace,        \* seconds a change may be dated back (60 in the code)
    Horizon       \* instants are 1..Horizon

VARIABLES
    history,      \* firm_setting: at, value, and the change the value comes from
    cancelled,    \* instants of cancelled changes
    now

settingVars == <<history, cancelled, now>>

Instants == 1..Horizon
Row == [at : Instants, value : Values, from : 0..Horizon]

SettingTypeOK ==
    /\ history \subseteq Row /\ \A r, s \in history : r.at = s.at => r = s
    /\ cancelled \subseteq Instants /\ now \in Instants

SettingInit == history = {} /\ cancelled = {} /\ now = 1

\* current_setting_value: the newest row effective by then, or the default.
Governs(rows, t) ==
    LET effective == {r \in rows : r.at <= t}
    IN IF effective = {} THEN [at |-> 0, value |-> Default, from |-> 0]
       ELSE CHOOSE r \in effective : \A s \in effective : s.at <= r.at

\* One row an instant (the table's unique constraint).
AnyInstant(t) == t \in Instants
FreeInstant(t) == t \in Instants /\ \A r \in history : r.at # t

-----------------------------------------------------------------------------
ChangeSetting(value, t) ==
    /\ t >= now - Grace /\ FreeInstant(t)
    /\ history' = history \cup {[at |-> t, value |-> value, from |-> t]}
    /\ UNCHANGED <<cancelled, now>>

RevertSetting == ChangeSetting(Default, now)

\* Only a row still to come is cancelled; a cancellation is a row like another
\* and can be cancelled in turn.
AnyRow(r) == TRUE
Scheduled(r) == r.at > now

CancelScheduledSetting(r) ==
    /\ Scheduled(r) /\ FreeInstant(r.at + 1)
    /\ LET prior == Governs(history, r.at - 1)
       IN history' = history \cup {[prior EXCEPT !.at = r.at + 1]}
    /\ cancelled' = IF r.from = r.at THEN cancelled \cup {r.at} ELSE cancelled \ {r.at - 1}
    /\ UNCHANGED now

Tick == now < Horizon /\ now' = now + 1 /\ UNCHANGED <<history, cancelled>>

SettingNext ==
    \/ \E value \in Values, t \in Instants : ChangeSetting(value, t)
    \/ RevertSetting \/ (\E r \in history : CancelScheduledSetting(r)) \/ Tick

SettingSpec == SettingInit /\ [][SettingNext]_settingVars

-----------------------------------------------------------------------------
\* settings.ts: "a setting cannot be back-dated".  Whatever is changed,
\* reverted and cancelled, in whatever order, what governed before the clock's
\* grace is what will always be said to have governed.
KeepsPast ==
    \A t \in Instants : t < now - Grace => Governs(history', t).value = Governs(history, t).value
PastIsFixed == [][KeepsPast]_settingVars

\* Not kept: settings.ts:15-17: cancelling restores "the value in force before it".
\* Past the second it cannot help, a cancelled change never governs.
CancelledNeverGoverns == now \in cancelled \/ Governs(history, now).from \notin cancelled

-----------------------------------------------------------------------------
(***************************************************************************)
(* A firm's choice list and the custom fields over it (lib/ops/config:     *)
(* lists, fields).  Everything is checked with plain reads and written     *)
(* after; a foreign key stands behind every use of an item, a unique index *)
(* behind the active fields of one key, a trigger behind what ships.       *)
(***************************************************************************)
CONSTANTS
    Items,          \* items the list may come to hold
    Shipped,        \* those it ships with
    Fields,         \* definitions of one scope and key
    Owners,         \* records with a value of the choice field
    Actors,
    Nothing

VARIABLES
    items,          \* choice_item rows
    fields,         \* custom_field_definition.active, or "none"
    chosen,         \* custom_field_value: the item each owner's value names
    job             \* what each actor has read and is about to write

listVars == <<items, fields, chosen, job>>

Idle == [op |-> "idle", item |-> Nothing, field |-> Nothing, owner |-> Nothing, order |-> <<>>]
ItemRow == [exists : BOOLEAN, active : BOOLEAN, position : 0..(2 * Cardinality(Items))]
Listed == {i \in Items : items[i].exists}

ListTypeOK ==
    /\ items \in [Items -> ItemRow] /\ fields \in [Fields -> {"none", "active", "inactive"}]
    /\ chosen \in [Owners -> Items \cup {Nothing}]
    /\ \A a \in Actors : job[a].op \in {"idle", "reorder", "delete", "write", "define", "activate"}

Orders(is) == {q \in [1..Cardinality(is) -> is] : \A m, n \in DOMAIN q : m # n => q[m] # q[n]}

ListInit ==
    /\ \E q \in Orders(Shipped) :
         items = [i \in Items |-> [exists |-> i \in Shipped, active |-> i \in Shipped,
                                   position |-> IF i \in Shipped THEN CHOOSE n \in DOMAIN q : q[n] = i ELSE 0]]
    /\ fields = [f \in Fields |-> "none"] /\ chosen = [o \in Owners |-> Nothing]
    /\ job = [a \in Actors |-> Idle]

Begins(a, j) == job[a] = Idle /\ job' = [job EXCEPT ![a] = j] /\ UNCHANGED <<items, fields, chosen>>
Ends(a) == job' = [job EXCEPT ![a] = Idle]

-----------------------------------------------------------------------------
AddChoiceItem(i) ==
    /\ ~items[i].exists
    /\ items' = [items EXCEPT ![i] =
         [exists |-> TRUE, active |-> TRUE, position |-> Max({0} \cup {items[j].position : j \in Listed}) + 1]]
    /\ UNCHANGED <<fields, chosen, job>>

\* Shipped time categories stay active.
SetItemActive(i, active) ==
    /\ items[i].exists /\ items[i].active # active /\ (active \/ i \notin Shipped)
    /\ items' = [items EXCEPT ![i].active = active]
    /\ UNCHANGED <<fields, chosen, job>>

\* The order must name what the list held when it was read; what was added
\* since keeps its place, what was deleted since is passed over.
ReadOrder(a) == \E q \in Orders(Listed) : Begins(a, [Idle EXCEPT !.op = "reorder", !.order = q])
ReorderChoiceItems(a) ==
    /\ job[a].op = "reorder" /\ Ends(a)
    /\ items' = [i \in Items |->
         IF items[i].exists /\ \E n \in DOMAIN job[a].order : job[a].order[n] = i
         THEN [items[i] EXCEPT !.position = CHOOSE n \in DOMAIN job[a].order : job[a].order[n] = i]
         ELSE items[i]]
    /\ UNCHANGED <<fields, chosen>>

\* Every foreign key onto the item is counted, then the row goes; the keys
\* themselves have the last word.
Used(i) == \E o \in Owners : chosen[o] = i
AsCounted(i) == items[i].exists
Unreferenced(i) == items[i].exists /\ ~Used(i)

CountUses(a, i) ==
    /\ items[i].exists /\ i \notin Shipped /\ ~Used(i)
    /\ Begins(a, [Idle EXCEPT !.op = "delete", !.item = i])
DeleteUnusedChoiceItem(a) ==
    /\ job[a].op = "delete" /\ Ends(a)
    /\ items' = IF Unreferenced(job[a].item)
                THEN [items EXCEPT ![job[a].item] = [exists |-> FALSE, active |-> FALSE, position |-> 0]]
                ELSE items
    /\ UNCHANGED <<fields, chosen>>

-----------------------------------------------------------------------------
\* defineCustomField and setCustomFieldActive look for another active field of
\* the key; the partial unique index decides.
NoDuplicate == \A f \in Fields : fields[f] # "active"
AsLookedUp == TRUE
KeyFree == NoDuplicate

LookUpKey(a, f) ==
    /\ NoDuplicate
    /\ Begins(a, [Idle EXCEPT !.op = IF fields[f] = "none" THEN "define" ELSE "activate", !.field = f])
DefineCustomField(a) ==
    /\ job[a].op = "define" /\ Ends(a)
    /\ fields' = IF KeyFree /\ fields[job[a].field] = "none" THEN [fields EXCEPT ![job[a].field] = "active"] ELSE fields
    /\ UNCHANGED <<items, chosen>>
ActivateCustomField(a) ==
    /\ job[a].op = "activate" /\ Ends(a)
    /\ fields' = IF KeyFree THEN [fields EXCEPT ![job[a].field] = "active"] ELSE fields
    /\ UNCHANGED <<items, chosen>>
DeactivateCustomField(f) ==
    /\ fields[f] = "active" /\ fields' = [fields EXCEPT ![f] = "inactive"]
    /\ UNCHANGED <<items, chosen, job>>

\* writeCustomFieldValueInTx: the field is active, the item active in its list;
\* then the row, if the item is still there.  No value clears the row.
CheckValue(a, o, f, i) ==
    /\ fields[f] = "active" /\ items[i].active
    /\ Begins(a, [Idle EXCEPT !.op = "write", !.owner = o, !.item = i])
WriteCustomFieldValue(a) ==
    /\ job[a].op = "write" /\ Ends(a)
    /\ chosen' = IF items[job[a].item].exists THEN [chosen EXCEPT ![job[a].owner] = job[a].item] ELSE chosen
    /\ UNCHANGED <<items, fields>>
ClearValue(o) ==
    /\ chosen[o] # Nothing /\ chosen' = [chosen EXCEPT ![o] = Nothing]
    /\ UNCHANGED <<items, fields, job>>

ListNext ==
    \/ \E i \in Items : AddChoiceItem(i) \/ \E active \in BOOLEAN : SetItemActive(i, active)
    \/ \E f \in Fields : DeactivateCustomField(f)
    \/ \E o \in Owners : ClearValue(o)
    \/ \E a \in Actors :
        \/ ReadOrder(a) \/ ReorderChoiceItems(a) \/ DeleteUnusedChoiceItem(a)
        \/ DefineCustomField(a) \/ ActivateCustomField(a) \/ WriteCustomFieldValue(a)
        \/ \E i \in Items : CountUses(a, i)
        \/ \E f \in Fields : LookUpKey(a, f)
        \/ \E o \in Owners, f \in Fields, i \in Items : CheckValue(a, o, f, i)

ListSpec == ListInit /\ [][ListNext]_listVars

-----------------------------------------------------------------------------
\* lists.ts: "hard delete only where nothing anywhere refers to the item".
\* However a deletion and a new use meet, no record names an item that is gone.
NothingDangles == \A o \in Owners : chosen[o] # Nothing => items[chosen[o]].exists

\* Two definitions of one key are never active together, however they were
\* defined, retired and brought back.
OneActiveField == \A f, g \in Fields : fields[f] = "active" /\ fields[g] = "active" => f = g

-----------------------------------------------------------------------------
(***************************************************************************)
(* The life of one private namespace (lib/ops/config: privateLayer).       *)
(* Every verb reads the namespace without a lock, decides, and then        *)
(* updates it; the schema refuses to move a retired one.  A reported       *)
(* violation raises an alert - from there on it holds the register's head, *)
(* so the alerts it counts are all there are - and the third inside the    *)
(* window suspends the namespace in the same transaction.                  *)
(***************************************************************************)
CONSTANTS
    Administrators,       \* administrators and the platform reporting violations
    Limit,        \* alerts that suspend (3 in the code)
    MaxAlerts     \* alerts inside one window

VARIABLES
    state,        \* private_namespace.state
    grants,       \* what the principal's role may do: read, nothing, or frozen
    alerts,       \* violation alerts of the last 60 minutes
    exported,     \* a full export was taken in the last 7 days
    acting,       \* what each actor has read and is about to do
    reinstated    \* registered again by hand since it was last suspended

privateVars == <<state, grants, alerts, exported, acting, reinstated>>

Verbs == {"suspend", "reinstate", "retire", "report"}
NoVerb == [verb |-> "none", seen |-> "none", count |-> 0]

PrivateTypeOK ==
    /\ state \in {"none", "registered", "suspended", "retired"}
    /\ grants \in {"none", "read", "revoked", "frozen"}
    /\ alerts \in 0..MaxAlerts /\ exported \in BOOLEAN /\ reinstated \in BOOLEAN
    /\ \A a \in Administrators : acting[a].verb \in Verbs \cup {"none"}

PrivateInit ==
    /\ state = "none" /\ grants = "none" /\ alerts = 0 /\ exported = FALSE
    /\ acting = [a \in Administrators |-> NoVerb] /\ reinstated = FALSE

Done(a) == acting' = [acting EXCEPT ![a] = NoVerb]

-----------------------------------------------------------------------------
\* The row, the role and its grants; the name is unique.
RegisterNamespace ==
    /\ state = "none" /\ state' = "registered" /\ grants' = "read"
    /\ UNCHANGED <<alerts, exported, acting, reinstated>>

MayStart(verb) ==
    CASE verb = "suspend" -> state = "registered"
      [] verb = "reinstate" -> state = "suspended"
      [] verb = "retire" -> state # "retired" /\ exported
      [] verb = "report" -> alerts < MaxAlerts

LoadNamespace(a, verb) ==
    /\ acting[a] = NoVerb /\ state # "none" /\ MayStart(verb)
    /\ acting' = [acting EXCEPT ![a] = [verb |-> verb, seen |-> state, count |-> alerts]]
    /\ UNCHANGED <<state, grants, alerts, exported, reinstated>>

\* private_namespace_guard: what a verb does to a namespace retired meanwhile
\* fails whole.
AnyState == TRUE
NotRetired == state # "retired"

SuspendNamespace(a) ==
    /\ acting[a].verb = "suspend" /\ Done(a)
    /\ IF NotRetired THEN state' = "suspended" /\ grants' = "revoked" /\ reinstated' = FALSE
                     ELSE UNCHANGED <<state, grants, reinstated>>
    /\ UNCHANGED <<alerts, exported>>

ReinstateNamespace(a) ==
    /\ acting[a].verb = "reinstate" /\ Done(a)
    /\ IF NotRetired THEN state' = "registered" /\ grants' = "read" /\ reinstated' = TRUE
                     ELSE UNCHANGED <<state, grants, reinstated>>
    /\ UNCHANGED <<alerts, exported>>

RetireNamespace(a) ==
    /\ acting[a].verb = "retire" /\ Done(a)
    /\ IF NotRetired THEN state' = "retired" /\ grants' = "frozen" ELSE UNCHANGED <<state, grants>>
    /\ UNCHANGED <<alerts, exported, reinstated>>

\* The alert, then the count, with the head held.
CountedWhenRead(a) == acting[a].count + 1
CountedNow(a) == alerts + 1

ReportPrivateLayerViolation(a) ==
    /\ acting[a].verb = "report" /\ alerts < MaxAlerts /\ Done(a)
    /\ IF acting[a].seen # "registered" \/ CountedNow(a) < Limit
       THEN alerts' = alerts + 1 /\ UNCHANGED <<state, grants, reinstated>>
       ELSE IF NotRetired
       THEN alerts' = alerts + 1 /\ state' = "suspended" /\ grants' = "revoked" /\ reinstated' = FALSE
       ELSE UNCHANGED <<alerts, state, grants, reinstated>>    \* the alert is lost with it
    /\ UNCHANGED exported

\* A full export is on the register, or is no longer recent; the window passes.
Export == exported' = ~exported /\ UNCHANGED <<state, grants, alerts, acting, reinstated>>
WindowPasses == alerts > 0 /\ alerts' = 0 /\ UNCHANGED <<state, grants, exported, acting, reinstated>>

PrivateNext ==
    \/ RegisterNamespace \/ Export \/ WindowPasses
    \/ \E a \in Administrators :
        \/ \E verb \in Verbs : LoadNamespace(a, verb)
        \/ SuspendNamespace(a) \/ ReinstateNamespace(a) \/ RetireNamespace(a) \/ ReportPrivateLayerViolation(a)

PrivateSpec == PrivateInit /\ [][PrivateNext]_privateVars

-----------------------------------------------------------------------------
\* privateLayer.ts: "on the THIRD alert inside 60 minutes suspends the
\* namespace".  However many reports are made at once, a namespace with that
\* many alerts reads nothing, unless somebody reinstated it.
ThirdSuspends == alerts >= Limit /\ grants = "read" => reinstated

\* "Retirement (terminal)": nothing read before the retirement and done after
\* it brings the namespace or its role back.
StaysRetired == state = "retired" => state' = "retired" /\ grants' = "frozen"
RetiredIsTerminal == [][StaysRetired]_privateVars
=============================================================================
