------------------------------ MODULE Visibility ------------------------------
\* Who sees a matter: the restriction rows and their mirror, the last-guardian
\* assertion, the staffing rows, and the dry run that shows who gains and who loses
\* sight (src/lib/ops/matters/restriction.ts, staffing.ts,
\* src/lib/ops/security/restrictionDelta.ts, the predicate of 0054 and the
\* triggers of 0004).
\*
\* One matter.  A change of its restriction or its staffing holds the matter's row
\* lock from its first read to its commit; changes of staff and roles do not touch
\* that lock.
EXTENDS Integers, FiniteSets

CONSTANTS Staff,   \* the staff members
          Roles,   \* the roles
          Users,   \* those who change restriction or staffing, one session each
          Scopes,  \* the values of visibility.staff_scope, or some of them
          NoOne

VARIABLES role, active,   \* each staff member's role; the active ones
          caps,           \* what each role may: "restriction.manage", "matter.see_all_offices"
          scope, home,    \* the firm's scope; the staff of the matter's office
          grants, blocks, \* the restriction rows
          restricted,     \* the mirror on the matter
          rows,           \* the live staffing rows: who, and in what role on the matter
          responsible,    \* the mirror on the matter
          sess            \* each user's uncommitted writes

vars == <<role, active, caps, scope, home, grants, blocks, restricted, rows, responsible, sess>>
people == <<role, active, caps>>
firm == <<scope, home>>

Capabilities == {"restriction.manage", "matter.see_all_offices"}
Grantees == ({"staff"} \X Staff) \union ({"role"} \X Roles)
Idle == [at |-> "idle", change |-> NoOne, restricted |-> FALSE]

TypeOK ==
  /\ role \in [Staff -> Roles] /\ active \subseteq Staff
  /\ caps \in [Roles -> SUBSET Capabilities] /\ home \subseteq Staff
  /\ grants \subseteq Grantees /\ blocks \subseteq Staff /\ restricted \in BOOLEAN
  /\ rows \subseteq Staff \X {"responsible_lawyer", "assisting"}
  /\ responsible \in Staff
  /\ \A u \in Users : sess[u].at \in {"idle", "restriction"}

Init ==
  /\ role \in [Staff -> Roles] /\ active = Staff
  /\ caps \in [Roles -> SUBSET Capabilities]
  /\ scope \in Scopes /\ home \in SUBSET Staff /\ (scope # "office" => home = {})
  /\ grants = {} /\ blocks = {} /\ restricted = FALSE
  /\ responsible \in Staff /\ rows = {<<responsible, "responsible_lawyer">>}
  /\ sess = [u \in Users |-> Idle]

IsIdle(u) == sess[u].at = "idle"
NoneInside == \A u \in Users : IsIdle(u)
NoWait == TRUE
MatterFree == NoneInside

Named(g, s) == <<"staff", s>> \in g \/ <<"role", role[s]>> \in g
Guards(s, g, b) == s \in active /\ "restriction.manage" \in caps[role[s]] /\ s \notin b /\ Named(g, s)
GuardianExists(g, b) == g = {} \/ \E s \in Staff : Guards(s, g, b)

\* The four changes of a restriction; adding what is there meets the unique index,
\* removing what is not is refused.
Changes == ({"add_grant", "remove_grant"} \X Grantees) \union ({"add_block", "remove_block"} \X Staff)
Fits(c) == CASE c[1] = "add_grant" -> c[2] \notin grants [] c[1] = "remove_grant" -> c[2] \in grants
             [] c[1] = "add_block" -> c[2] \notin blocks [] c[1] = "remove_block" -> c[2] \in blocks
GrantsAfter(c) == CASE c[1] = "add_grant" -> grants \union {c[2]} [] c[1] = "remove_grant" -> grants \ {c[2]}
                    [] OTHER -> grants
BlocksAfter(c) == CASE c[1] = "add_block" -> blocks \union {c[2]} [] c[1] = "remove_block" -> blocks \ {c[2]}
                    [] OTHER -> blocks

\* The write, its mirror trigger and the guardian assertion, over what this
\* transaction sees; the change shows to others at the commit.
ChangeRestriction(u, c) ==
  /\ IsIdle(u) /\ MatterFree /\ Fits(c)
  /\ GuardianExists(GrantsAfter(c), BlocksAfter(c))
  /\ sess' = [sess EXCEPT ![u] = [at |-> "restriction", change |-> c, restricted |-> GrantsAfter(c) # {}]]
  /\ UNCHANGED <<people, firm, grants, blocks, restricted, rows, responsible>>

\* The row this transaction added or deleted; another's stay as they are.
CommitRestriction(u) ==
  LET w == sess[u] IN
  /\ w.at = "restriction"
  /\ grants' = GrantsAfter(w.change) /\ blocks' = BlocksAfter(w.change) /\ restricted' = w.restricted
  /\ sess' = [sess EXCEPT ![u] = Idle]
  /\ UNCHANGED <<people, firm, rows, responsible>>

Rollback(u) ==
  /\ ~IsIdle(u) /\ sess' = [sess EXCEPT ![u] = Idle]
  /\ UNCHANGED <<people, firm, grants, blocks, restricted, rows, responsible>>

\* Staffing: rows end, assisting rows start, the responsibility moves.  Ending the
\* responsible row asks for a successor's name, any name; the responsibility moves
\* when the name is not the one the matter carried.
ChangeStaffing(ended, add, new) ==
  LET kept == (rows \ ended) \union {<<s, "assisting">> : s \in add}
      moves == new # NoOne /\ new # responsible
  IN /\ MatterFree /\ ended \subseteq rows /\ add \subseteq active
     /\ (\E r \in ended : r[2] = "responsible_lawyer") => new # NoOne
     /\ moves => new \in active
     /\ rows' = IF moves THEN {r \in kept : r[2] = "assisting"} \union {<<new, "responsible_lawyer">>} ELSE kept
     /\ responsible' = IF moves THEN new ELSE responsible
     /\ UNCHANGED <<people, firm, grants, blocks, restricted, sess>>

\* A staff member or a role changes; the guardian assertion runs on the result.
Keeps(r, a, k) ==
  grants = {} \/ \E s \in a : /\ "restriction.manage" \in k[r[s]] /\ s \notin blocks
                              /\ (<<"staff", s>> \in grants \/ <<"role", r[s]>> \in grants)
ChangePeople(r, a, k) ==
  /\ Keeps(r, a, k) /\ role' = r /\ active' = a /\ caps' = k
  /\ UNCHANGED <<firm, grants, blocks, restricted, rows, responsible, sess>>

ChangeStaffRole(s, r) == role[s] # r /\ ChangePeople([role EXCEPT ![s] = r], active, caps)
DeactivateStaff(s) == s \in active /\ ChangePeople(role, active \ {s}, caps)
ReactivateStaff(s) == s \notin active /\ ChangePeople(role, active \union {s}, caps)
SetRoleCapability(r, k) ==
  ChangePeople(role, active, [caps EXCEPT ![r] = IF k \in @ THEN @ \ {k} ELSE @ \union {k}])

Next ==
  \/ \E u \in Users : CommitRestriction(u) \/ Rollback(u) \/ \E c \in Changes : ChangeRestriction(u, c)
  \/ \E ended \in SUBSET rows, add \in SUBSET Staff, new \in Staff \union {NoOne} : ChangeStaffing(ended, add, new)
  \/ \E s \in Staff : DeactivateStaff(s) \/ ReactivateStaff(s) \/ \E r \in Roles : ChangeStaffRole(s, r)
  \/ \E r \in Roles, k \in Capabilities : SetRoleCapability(r, k)

Spec == Init /\ [][Next]_vars

\* The predicate the row security evaluates, over the mirror.
InScope(s) ==
  \/ scope = "all_staff"
  \/ "matter.see_all_offices" \in caps[role[s]]
  \/ scope = "office" /\ s \in home
  \/ scope = "assignment" /\ (s = responsible \/ \E r \in rows : r[1] = s)
Visible(s, g, b, flag) ==
  /\ s \in active /\ s \notin b
  /\ IF flag THEN Named(g, s) ELSE InScope(s)
PortalVisible(flag) == ~flag

\* What the dry run replays, over the rows.
ScopeOf(s) == CASE scope = "office" -> s \in home
                [] scope = "assignment" -> s = responsible \/ \E r \in rows : r[1] = s
                [] OTHER -> TRUE
RestrictionOverridesBlocks(s, g, b) == IF g # {} THEN Named(g, s) ELSE s \notin b /\ ScopeOf(s)
BlocksFirst(s, g, b) == s \notin b /\ (IF g # {} THEN Named(g, s) ELSE ScopeOf(s))
Sees(s, g, b) == s \in active /\ BlocksFirst(s, g, b)
Delta(c) ==
  [gains |-> {s \in Staff : ~Sees(s, grants, blocks) /\ Sees(s, GrantsAfter(c), BlocksAfter(c))},
   loses |-> {s \in Staff : Sees(s, grants, blocks) /\ ~Sees(s, GrantsAfter(c), BlocksAfter(c))},
   portalLoses |-> grants = {} /\ GrantsAfter(c) # {}, portalGains |-> grants # {} /\ GrantsAfter(c) = {}]

\* What the change does to the predicate once its trigger has run.
Effect(c) ==
  LET flag == GrantsAfter(c) # {} IN
  [gains |-> {s \in Staff : /\ ~Visible(s, grants, blocks, restricted)
                            /\ Visible(s, GrantsAfter(c), BlocksAfter(c), flag)},
   loses |-> {s \in Staff : /\ Visible(s, grants, blocks, restricted)
                            /\ ~Visible(s, GrantsAfter(c), BlocksAfter(c), flag)},
   portalLoses |-> PortalVisible(restricted) /\ ~PortalVisible(flag),
   portalGains |-> ~PortalVisible(restricted) /\ PortalVisible(flag)]

\* The restricted flag, which the predicate reads, says whether there are grants,
\* whatever changes wait on each other.
RestrictedMirror == restricted = (grants # {})

\* In a firm that shows every matter to all staff, or gives nobody sight of all
\* offices, the dry run shows exactly who gains and who loses sight, staff and
\* clients, when the change is committed.
PreviewIsExact ==
  (scope = "all_staff" \/ \A r \in Roles : "matter.see_all_offices" \notin caps[r]) =>
    \A c \in Changes : Fits(c) => Delta(c) = Effect(c)

\* Not kept: the dry run returns "exactly who gains and who loses sight"
\* (restrictionDelta.ts:2).  It does not know the capability to see all offices.
DeltaExact == \A c \in Changes : Fits(c) => Delta(c) = Effect(c)

\* Not kept: every restricted matter keeps an active, unblocked guardian ("the
\* last-guardian invariant, enforced uniformly on every write path that could break
\* it", 0004:188).  The assertion sees committed rows and its own only.
GuardiansRemain == GuardianExists(grants, blocks)

\* Not kept: "a matter is never without a responsible lawyer" (staffing.ts:48).  The
\* successor named may be the lawyer whose row ends.
AlwaysResponsible == <<responsible, "responsible_lawyer">> \in rows
=============================================================================
