--------------------------- MODULE DraftingProofs ---------------------------
(***************************************************************************)
(* Bills before and after their issue, for any items, groups, runs,         *)
(* matters, numbers and arrangements: no item is billed twice, a group's    *)
(* total is the sum over its lines, an issued group is taxed under one      *)
(* rule, a run that ended leaves nothing in draft, a gapless counter's      *)
(* numbers have no gap, and a bill is in one live arrangement, which is     *)
(* complete only when it is paid.                                           *)
(***************************************************************************)
EXTENDS Drafting, Numbering, Arrangements, SumProofs, SequenceTheorems

-----------------------------------------------------------------------------
(* Lines and what they add up to. *)

\* The lines of a group add up to a natural number.
LEMMA TotalType ==
  ASSUME NEW xs \in SUBSET Sources, NEW ls \in [xs -> LineRow]
  PROVE  LinesTotal(ls) \in Nat
<1>1. IsFiniteSet(Sources)
  BY WorkAssumption, FS_AddElement DEF Sources
<1>2. IsFiniteSet(DOMAIN ls)
  BY <1>1, FS_Subset
<1>3. \A x \in DOMAIN ls : Charged(ls)[x] \in Nat
  BY DEF Charged, LineRow
<1> QED BY <1>2, <1>3, SumNotNegative DEF LinesTotal

\* A line made or taxed again under the rule is a line.
LEMMA LineType ==
  ASSUME taxRule \in Nat, NEW a \in Nat
  PROVE  /\ LineTax(a) \in Nat /\ LineTax(a) = a * taxRule
         /\ LineOf(a) \in LineRow /\ LineOf(a).amt = a /\ LineOf(a).tax = LineTax(a)
<1>1. a * taxRule \in Nat
  OBVIOUS
<1> QED BY <1>1 DEF LineTax, LineOf, LineRow

\* The rows of a typed state.
LEMMA RowTypes ==
  ASSUME TypeOK
  PROVE  /\ \A i \in Items : item[i] \in ItemRow
         /\ \A g \in Groups : /\ group[g].lines \in [DOMAIN group[g].lines -> LineRow]
                              /\ DOMAIN group[g].lines \in SUBSET Sources
                              /\ group[g] \in GroupRow(DOMAIN group[g].lines)
         /\ DOMAIN group = Groups
<1>1. \A i \in Items : item[i] \in ItemRow
  BY DEF TypeOK
<1>2. \A g \in Groups : group[g].lines \in [DOMAIN group[g].lines -> LineRow]
  BY DEF TypeOK, GroupRow
<1>3. DOMAIN group = Groups
  BY DEF TypeOK
<1> QED BY <1>1, <1>2, <1>3 DEF TypeOK

-----------------------------------------------------------------------------
(* The rows and the sessions, apart: most steps disturb one of them only. *)

RowsTyped ==
  /\ item \in [Items -> ItemRow]
  /\ group = [g \in Groups |-> group[g]]
  /\ \A g \in Groups : /\ DOMAIN group[g].lines \subseteq Sources
                       /\ group[g] \in GroupRow(DOMAIN group[g].lines)

RowsSound ==
  /\ RowsTyped
  /\ \A i \in Items : PointerSound(i)
  /\ BilledOnce /\ TotalFollowsLines

SessionsTyped ==
  /\ run \in [Runs -> {"none", "building", "in_review", "issued", "abandoned"}]
  /\ taxRule \in Nat /\ approval \in BOOLEAN
  /\ lock \in [Matters -> Sessions \cup {None}]
  /\ job \in [Sessions -> Job]

SessionsSound ==
  /\ SessionsTyped
  /\ \A s \in Sessions : Loaded(s)
  /\ \A s \in Sessions : Works(s)
  /\ FinishedRunsHoldNoDrafts

\* The discipline is of the rows, of the sessions, and that bills have one rule.
LEMMA Parts == Discipline <=> RowsSound /\ SessionsSound /\ OneRulePerBill
  BY DEF Discipline, BilledRight, RowsSound, SessionsSound, RowsTyped, SessionsTyped, TypeOK

\* The same of the next state.
LEMMA PartsNext == RowsSound' /\ SessionsSound' /\ OneRulePerBill' => Discipline'
  BY DEF Discipline, BilledRight, RowsSound, SessionsSound, RowsTyped, SessionsTyped, TypeOK

\* No group gets an item it did not have, and no draft of a run appears.
Shrinks ==
  /\ \A g \in Groups, i \in Items : i \in DOMAIN group[g].lines' => i \in DOMAIN group[g].lines
  /\ \A r \in Runs : DraftsOf(r)' \subseteq DraftsOf(r)

\* The sessions hold what they held when lines only go.
LEMMA SessionsKept ==
  ASSUME SessionsSound, Shrinks, UNCHANGED <<run, approval, lock, job>>, taxRule' \in Nat
  PROVE  SessionsSound'
<1>1. SessionsTyped'
  BY DEF SessionsSound, SessionsTyped
<1>2. ASSUME NEW s \in Sessions PROVE Loaded(s)'
  <2>1. Loaded(s)
    BY DEF SessionsSound
  <2>2. ASSUME job[s].at = "loaded", NEW i \in DOMAIN job[s].read
        PROVE  i \in Items
    <3>1. job[s] \in Job
      BY DEF SessionsSound, SessionsTyped
    <3>2. job[s].read \in Values
      BY <3>1, <2>2 DEF Job, Idle
    <3> QED BY <3>2, <2>2 DEF Values
  <2> QED BY <2>1, <2>2 DEF Loaded, Shrinks
<1>3. ASSUME NEW s \in Sessions PROVE Works(s)'
  <2>1. Works(s)
    BY DEF SessionsSound
  <2> QED BY <2>1 DEF Works, Builds, Shrinks
<1>4. FinishedRunsHoldNoDrafts'
  BY DEF SessionsSound, FinishedRunsHoldNoDrafts, Shrinks
<1> QED BY <1>1, <1>2, <1>3, <1>4 DEF SessionsSound

-----------------------------------------------------------------------------
(* The edits of a group, its abandonment and its issue. *)

\* What a draft group becomes by an edit: another draft of the same run, with no item
\* it did not have, and the total of its lines.
Edited(g, row) ==
  /\ DOMAIN row.lines \subseteq Sources /\ row \in GroupRow(DOMAIN row.lines)
  /\ row.st = "draft" /\ row.run = group[g].run
  /\ row.total = LinesTotal(row.lines)
  /\ \A i \in Items : i \in DOMAIN row.lines => i \in DOMAIN group[g].lines

\* Items that left the lines of a group go back to unbilled, no other item moves.
Leaves(g, row) ==
  \A i \in Items :
    IF i \in DOMAIN group[g].lines /\ i \notin DOMAIN row.lines /\ item[i].group = g
    THEN item'[i] = [item[i] EXCEPT !.st = "unbilled", !.group = None]
    ELSE item'[i] = item[i]

\* An edit keeps every item on the lines of one group.
LEMMA EditKeepsRows ==
  ASSUME RowsSound, NEW g \in Groups, Editable(g), NEW row, Edited(g, row), Leaves(g, row),
         group' = [group EXCEPT ![g] = row], item' = [i \in Items |-> item'[i]]
  PROVE  RowsSound' /\ Shrinks
<1>1. /\ item \in [Items -> ItemRow] /\ DOMAIN group = Groups
      /\ \A h \in Groups : group[h] \in GroupRow(DOMAIN group[h].lines)
      /\ \A i \in Items : item[i] \in ItemRow
  BY DEF RowsSound, RowsTyped
<1>2. group'[g] = row /\ \A h \in Groups \ {g} : group'[h] = group[h]
  BY <1>1
<1>3. DOMAIN group' = Groups
  BY <1>1
<1>4. ASSUME NEW i \in Items PROVE item'[i] \in ItemRow
  <2>1. item[i] \in ItemRow
    BY <1>1
  <2>2. [item[i] EXCEPT !.st = "unbilled", !.group = None] \in ItemRow
    BY <2>1 DEF ItemRow
  <2>3. item'[i] = item[i] \/ item'[i] = [item[i] EXCEPT !.st = "unbilled", !.group = None]
    BY DEF Leaves
  <2> QED BY <2>1, <2>2, <2>3
<1>5. RowsTyped'
  <2>1. group' = [h \in Groups |-> group'[h]]
    BY <1>1
  <2>2. item' \in [Items -> ItemRow]
    BY <1>4
  <2>3. \A h \in Groups : /\ DOMAIN group'[h].lines \subseteq Sources
                          /\ group'[h] \in GroupRow(DOMAIN group'[h].lines)
    BY <1>2 DEF Edited, RowsSound, RowsTyped
  <2> QED BY <2>1, <2>2, <2>3 DEF RowsTyped, ItemRow, GroupRow, LineRow, Sources
<1>6. \A h \in Groups, i \in Items : i \in DOMAIN group'[h].lines => i \in DOMAIN group[h].lines
  BY <1>2 DEF Edited
<1>7. \A h \in Groups : /\ group'[h].st = group[h].st
                        /\ group'[h].run = group[h].run
  BY <1>2 DEF Edited, Editable
<1>8. Shrinks
  BY <1>6, <1>7 DEF Shrinks, DraftsOf
<1>9. ASSUME NEW i \in Items PROVE PointerSound(i)'
  <2>1. PointerSound(i)
    BY DEF RowsSound
  <2>2. CASE i \in DOMAIN group[g].lines /\ i \notin DOMAIN row.lines /\ item[i].group = g
    <3>1. item'[i].st = "unbilled" /\ item'[i].group = None
      BY <1>1, <2>2 DEF Leaves, ItemRow
    <3>2. item[i].st # "written_off"
      BY <2>1, <2>2, NoneAssumption DEF PointerSound
    <3>3. \A h \in Groups : i \notin DOMAIN group'[h].lines
      BY <1>2, <1>6, <2>1, <2>2, <3>2 DEF PointerSound
    <3> QED BY <3>1, <3>3 DEF PointerSound
  <2>3. CASE ~(i \in DOMAIN group[g].lines /\ i \notin DOMAIN row.lines /\ item[i].group = g)
    <3>1. item'[i] = item[i]
      BY <2>3 DEF Leaves
    <3>2. \A h \in Groups : item[i].group = h /\ i \in DOMAIN group[h].lines =>
                              i \in DOMAIN group'[h].lines
      BY <1>2, <2>3
    <3>3. \A state : StandsOn(i, state) => StandsOn(i, state)'
      BY <3>1, <3>2, <1>7 DEF StandsOn
    <3> QED BY <2>1, <3>1, <3>3, <1>6 DEF PointerSound
  <2> QED BY <2>2, <2>3
<1>10. BilledOnce'
  BY <1>6 DEF RowsSound, BilledOnce
<1>11. TotalFollowsLines'
  BY <1>2 DEF RowsSound, TotalFollowsLines, Edited
<1> QED BY <1>5, <1>8, <1>9, <1>10, <1>11 DEF RowsSound

\* Abandoning drafts frees what is on them.
LEMMA AbandonKeepsRows ==
  ASSUME RowsSound, NEW gs \in SUBSET Groups, \A g \in gs : Editable(g), AbandonGroups(gs)
  PROVE  RowsSound' /\ Shrinks
<1>1. /\ item \in [Items -> ItemRow] /\ DOMAIN group = Groups
      /\ \A h \in Groups : group[h] \in GroupRow(DOMAIN group[h].lines)
      /\ \A i \in Items : item[i] \in ItemRow
  BY DEF RowsSound, RowsTyped
<1>2. \A h \in Groups :
        IF h \in gs THEN group'[h] = [group[h] EXCEPT !.st = "abandoned", !.lines = NoLines]
        ELSE group'[h] = group[h]
  BY DEF AbandonGroups
<1>3. /\ DOMAIN NoLines = {} /\ NoLines \in [{} -> LineRow]
  BY DEF NoLines
<1>4. \A h \in gs : /\ group'[h].st = "abandoned" /\ group'[h].lines = NoLines
                    /\ group'[h].run = group[h].run
                    /\ group'[h] \in GroupRow({})
  BY <1>1, <1>2, <1>3 DEF GroupRow
<1>5. \A i \in Items :
        IF item[i].group \in gs
        THEN item'[i] = [item[i] EXCEPT !.st = "unbilled", !.group = None]
        ELSE item'[i] = item[i]
  BY DEF AbandonGroups, Released
<1>6. RowsTyped'
  <2>1. group' = [h \in Groups |-> group'[h]]
    BY DEF AbandonGroups
  <2>2. item' \in [Items -> ItemRow]
    <3>1. ASSUME NEW i \in Items PROVE item'[i] \in ItemRow
      <4>1. item[i] \in ItemRow
        BY <1>1
      <4>2. [item[i] EXCEPT !.st = "unbilled", !.group = None] \in ItemRow
        BY <4>1 DEF ItemRow
      <4>3. item'[i] = item[i] \/ item'[i] = [item[i] EXCEPT !.st = "unbilled", !.group = None]
        BY <1>5
      <4> QED BY <4>1, <4>2, <4>3
    <3>2. item' = [i \in Items |-> item'[i]]
      BY DEF AbandonGroups, Released
    <3> QED BY <3>1, <3>2
  <2>3. \A h \in Groups : /\ DOMAIN group'[h].lines \subseteq Sources
                          /\ group'[h] \in GroupRow(DOMAIN group'[h].lines)
    BY <1>2, <1>3, <1>4 DEF RowsSound, RowsTyped
  <2> QED BY <2>1, <2>2, <2>3 DEF RowsTyped, ItemRow, GroupRow, LineRow, Sources
<1>7. \A h \in Groups, i \in Items : i \in DOMAIN group'[h].lines =>
                                       i \in DOMAIN group[h].lines /\ h \notin gs
  BY <1>2, <1>3, <1>4
<1>8. Shrinks
  BY <1>2, <1>4, <1>7 DEF Shrinks, DraftsOf
<1>9. ASSUME NEW i \in Items PROVE PointerSound(i)'
  <2>1. PointerSound(i)
    BY DEF RowsSound
  <2>2. CASE item[i].group \in gs
    <3>1. item'[i].st = "unbilled" /\ item'[i].group = None
      BY <1>1, <1>5, <2>2 DEF ItemRow
    <3>2. item[i].st # "written_off"
      BY <2>1, <2>2, NoneAssumption DEF PointerSound
    <3>3. \A h \in Groups : i \notin DOMAIN group'[h].lines
      BY <1>7, <2>1, <2>2, <3>2 DEF PointerSound
    <3> QED BY <3>1, <3>3 DEF PointerSound
  <2>3. CASE item[i].group \notin gs
    <3>1. item'[i] = item[i]
      BY <2>3, <1>5
    <3>2. \A state : StandsOn(i, state) => StandsOn(i, state)'
      BY <3>1, <2>3, <1>2 DEF StandsOn
    <3> QED BY <2>1, <3>1, <3>2, <1>7 DEF PointerSound
  <2> QED BY <2>2, <2>3
<1>10. BilledOnce'
  BY <1>7 DEF RowsSound, BilledOnce
<1>11. TotalFollowsLines'
  BY <1>2, <1>4 DEF RowsSound, TotalFollowsLines
<1> QED BY <1>6, <1>8, <1>9, <1>10, <1>11 DEF RowsSound

\* A group that is issued keeps its lines, taxed as they are or again, and what points to
\* it is billed.
LEMMA IssueKeepsRows ==
  ASSUME RowsSound, taxRule \in Nat, NEW g \in Groups, MayIssue(g), IssueBillGroup(g)
  PROVE  /\ RowsSound' /\ Shrinks
         /\ \A x \in DOMAIN group'[g].lines :
              group'[g].lines[x].tax = group'[g].lines[x].amt * taxRule
         /\ group'[g].st = "issued" /\ \A h \in Groups \ {g} : group'[h] = group[h]
<1> DEFINE ls == IF StaleTax(g) THEN Retaxed(group[g].lines) ELSE group[g].lines
           row == [group[g] EXCEPT !.lines = ls, !.total = LinesTotal(ls), !.st = "issued"]
<1>1. /\ item \in [Items -> ItemRow] /\ DOMAIN group = Groups
      /\ \A h \in Groups : group[h] \in GroupRow(DOMAIN group[h].lines)
      /\ \A i \in Items : item[i] \in ItemRow
      /\ DOMAIN group[g].lines \in SUBSET Sources
      /\ group[g].lines \in [DOMAIN group[g].lines -> LineRow]
  BY DEF RowsSound, RowsTyped, GroupRow
<1>2. Retaxed(group[g].lines) \in [DOMAIN group[g].lines -> LineRow]
  <2>1. \A x \in DOMAIN group[g].lines :
           /\ group[g].lines[x] \in LineRow /\ group[g].lines[x].amt \in Nat
           /\ LineTax(group[g].lines[x].amt) \in Nat
    BY <1>1, LineType DEF LineRow
  <2> QED BY <2>1 DEF Retaxed, LineRow
<1>3. ls \in [DOMAIN group[g].lines -> LineRow]
  BY <1>1, <1>2
<1>4. \A x \in DOMAIN ls : ls[x].tax = ls[x].amt * taxRule
  <2>1. \A x \in DOMAIN group[g].lines :
           /\ group[g].lines[x] \in LineRow /\ group[g].lines[x].amt \in Nat
    BY <1>1 DEF LineRow
  <2>2. CASE StaleTax(g)
    <3>1. \A x \in DOMAIN ls : /\ ls[x] = [group[g].lines[x] EXCEPT !.tax = LineTax(group[g].lines[x].amt)]
                               /\ x \in DOMAIN group[g].lines
      BY <2>2 DEF Retaxed
    <3>2. \A x \in DOMAIN ls : /\ ls[x].amt = group[g].lines[x].amt
                               /\ ls[x].tax = LineTax(group[g].lines[x].amt)
      BY <3>1, <2>1 DEF LineRow
    <3> QED BY <3>2 DEF LineTax
  <2>3. CASE ~StaleTax(g)
    <3>1. ls = group[g].lines
      BY <2>3
    <3> QED BY <2>3, <3>1 DEF StaleTax, LineTax
  <2> QED BY <2>2, <2>3
<1>5. LinesTotal(ls) \in Nat
  BY <1>1, <1>3, TotalType
<1>6. group' = [group EXCEPT ![g] = row]
  BY <1>1 DEF IssueBillGroup, RecomputeTotal
<1> HIDE DEF ls
<1>7. /\ row.st = "issued" /\ row.lines = ls /\ row.total = LinesTotal(ls)
      /\ row.run = group[g].run /\ row \in GroupRow(DOMAIN group[g].lines)
  BY <1>1, <1>3, <1>5 DEF GroupRow
<1>8. DOMAIN ls = DOMAIN group[g].lines
  BY <1>3
<1> HIDE DEF row
<1>9. group'[g] = row /\ \A h \in Groups \ {g} : group'[h] = group[h]
  BY <1>1, <1>6
<1>10. \A i \in Items :
         IF item[i].st = "on_draft" /\ item[i].group = g
         THEN item'[i] = [item[i] EXCEPT !.st = "billed"] ELSE item'[i] = item[i]
  BY DEF IssueBillGroup
<1>11. RowsTyped'
  <2>1. group' = [h \in Groups |-> group'[h]]
    BY <1>1, <1>6
  <2>2. item' \in [Items -> ItemRow]
    <3>1. \A i \in Items : item'[i] \in ItemRow
      BY <1>1, <1>10 DEF ItemRow
    <3>2. item' = [i \in Items |-> item'[i]]
      BY DEF IssueBillGroup
    <3> QED BY <3>1, <3>2
  <2>3. \A h \in Groups : /\ DOMAIN group'[h].lines \subseteq Sources
                          /\ group'[h] \in GroupRow(DOMAIN group'[h].lines)
    BY <1>1, <1>7, <1>8, <1>9 DEF RowsSound, RowsTyped
  <2> QED BY <2>1, <2>2, <2>3 DEF RowsTyped, ItemRow, GroupRow, LineRow, Sources
<1>12. \A h \in Groups : /\ DOMAIN group'[h].lines = DOMAIN group[h].lines
                         /\ group'[h].run = group[h].run
  BY <1>7, <1>8, <1>9
<1>13. Shrinks
  BY <1>7, <1>9, <1>12 DEF Shrinks, DraftsOf
<1>14. group[g].st = "draft"
  BY DEF MayIssue, Editable
<1>15. ASSUME NEW i \in Items PROVE PointerSound(i)'
  <2>1. PointerSound(i) /\ item[i] \in ItemRow
    BY <1>1 DEF RowsSound
  <2>2. CASE item[i].st = "on_draft" /\ item[i].group = g
    <3>1. item'[i].st = "billed" /\ item'[i].group = g
      BY <2>1, <2>2, <1>10 DEF ItemRow
    <3>2. i \in DOMAIN group[g].lines
      BY <2>1, <2>2 DEF PointerSound, StandsOn
    <3>3. StandsOn(i, "issued")'
      BY <3>1, <3>2, <1>7, <1>9, <1>12 DEF StandsOn
    <3>4. \A h \in Groups : i \in DOMAIN group'[h].lines => item'[i].group = h
      BY <1>12, <2>1, <2>2, <3>1 DEF PointerSound
    <3> QED BY <3>1, <3>3, <3>4 DEF PointerSound
  <2>3. CASE ~(item[i].st = "on_draft" /\ item[i].group = g)
    <3>1. item'[i] = item[i]
      BY <2>3, <1>10
    <3>2. item[i].st = "on_draft" => StandsOn(i, "draft")'
      BY <2>1, <2>3, <3>1, <1>9, <1>12 DEF PointerSound, StandsOn
    <3>3. item[i].st = "billed" => StandsOn(i, "issued")'
      BY <2>1, <3>1, <1>9, <1>12, <1>14 DEF PointerSound, StandsOn
    <3> QED BY <2>1, <3>1, <3>2, <3>3, <1>12 DEF PointerSound
  <2> QED BY <2>2, <2>3
<1>16. BilledOnce'
  BY <1>12 DEF RowsSound, BilledOnce
<1>17. TotalFollowsLines'
  BY <1>7, <1>9 DEF RowsSound, TotalFollowsLines
<1> QED BY <1>4, <1>7, <1>9, <1>11, <1>13, <1>15, <1>16, <1>17 DEF RowsSound

-----------------------------------------------------------------------------
(* A draft is created from what was loaded. *)

\* What a session in the middle of something has.
LEMMA JobTypes ==
  ASSUME SessionsTyped, NEW s \in Sessions
  PROVE  /\ job[s] \in Job
         /\ job[s].at = "loaded" =>
              /\ job[s].matter \in Matters /\ job[s].run \in Runs \cup {None}
              /\ job[s].todo \in SUBSET Matters
              /\ DOMAIN job[s].read \in SUBSET Items
              /\ job[s].read \in [DOMAIN job[s].read -> 1..MaxValue]
         /\ job[s].at = "building" => job[s].run \in Runs /\ job[s].todo \in SUBSET Matters
         /\ job[s].at = "listed" => /\ job[s].run \in Runs /\ job[s].todo \in SUBSET Matters
                                    /\ job[s].matter \in Matters /\ job[s].its \in SUBSET Items
         /\ job[s].at = "issuing" => job[s].run \in Runs /\ job[s].todo \in SUBSET Groups
<1>1. job[s] \in Job
  BY DEF SessionsTyped
<1>2. ASSUME job[s].at = "loaded"
      PROVE  /\ job[s].matter \in Matters /\ job[s].run \in Runs \cup {None}
             /\ job[s].todo \in SUBSET Matters /\ job[s].read \in Values
  BY <1>1, <1>2 DEF Job, Idle
<1>3. ASSUME job[s].at = "loaded"
      PROVE  /\ DOMAIN job[s].read \in SUBSET Items
             /\ job[s].read \in [DOMAIN job[s].read -> 1..MaxValue]
  BY <1>2, <1>3 DEF Values
<1>4. ASSUME job[s].at = "building"
      PROVE  job[s].run \in Runs /\ job[s].todo \in SUBSET Matters
  BY <1>1, <1>4 DEF Job, Idle
<1>5. ASSUME job[s].at = "listed"
      PROVE  /\ job[s].run \in Runs /\ job[s].todo \in SUBSET Matters
             /\ job[s].matter \in Matters /\ job[s].its \in SUBSET Items
  BY <1>1, <1>5 DEF Job, Idle
<1>6. ASSUME job[s].at = "issuing"
      PROVE  job[s].run \in Runs /\ job[s].todo \in SUBSET Groups
  BY <1>1, <1>6 DEF Job, Idle
<1> QED BY <1>1, <1>2, <1>3, <1>4, <1>5, <1>6

\* The group that comes of it is a draft with the loaded items, and no other group changes.
LEMMA CreatedRow ==
  ASSUME RowsSound, SessionsSound, NEW s \in Sessions, NEW g \in Groups,
         CreateDraftBillGroup(s, g)
  PROVE  /\ group'[g].st = "draft" /\ group'[g].run = job[s].run
         /\ DOMAIN group'[g].lines = DOMAIN job[s].read
         /\ group'[g] \in GroupRow(DOMAIN group'[g].lines)
         /\ group'[g].total = LinesTotal(group'[g].lines)
         /\ DOMAIN job[s].read \in SUBSET Items
         /\ \A h \in Groups \ {g} : group'[h] = group[h]
         /\ group' = [h \in Groups |-> group'[h]]
<1> DEFINE is == DOMAIN job[s].read
           ls == [i \in is |-> LineOf(job[s].read[i])]
           row == [st |-> "draft", pending |-> FALSE, run |-> job[s].run,
                   lines |-> ls, total |-> LinesTotal(ls)]
<1>1. /\ job[s].at = "loaded" /\ job[s].run \in Runs \cup {None}
      /\ is \in SUBSET Items /\ job[s].read \in [is -> 1..MaxValue]
  BY JobTypes DEF CreateDraftBillGroup, SessionsSound
<1>2. \A i \in is : LineOf(job[s].read[i]) \in LineRow
  <2>1. taxRule \in Nat
    BY DEF SessionsSound, SessionsTyped
  <2>2. ASSUME NEW i \in is PROVE job[s].read[i] \in Nat
    BY <1>1, BoundAssumption
  <2> QED BY <2>1, <2>2, LineType
<1>3. ls \in [is -> LineRow]
  BY <1>2
<1>4. is \in SUBSET Sources
  BY <1>1 DEF Sources
<1>5. LinesTotal(ls) \in Nat
  BY <1>3, <1>4, TotalType
<1>6. group' = [group EXCEPT ![g] = row]
  BY DEF CreateDraftBillGroup
<1> HIDE DEF ls
<1>7. row \in GroupRow(is) /\ DOMAIN ls = is
  BY <1>1, <1>3, <1>5 DEF GroupRow
<1>8. DOMAIN group = Groups
  BY DEF RowsSound, RowsTyped
<1>9. group'[g] = row /\ \A h \in Groups \ {g} : group'[h] = group[h]
  BY <1>6, <1>8
<1>10. group' = [h \in Groups |-> group'[h]]
  BY <1>6, <1>8
<1> QED BY <1>1, <1>7, <1>9, <1>10

\* What was loaded stood on no lines and belongs to one matter, so the items stay on the
\* lines of one group.
LEMMA CreateKeepsRows ==
  ASSUME RowsSound, SessionsSound, NEW s \in Sessions, NEW g \in Groups,
         CreateDraftBillGroup(s, g)
  PROVE  RowsSound'
<1>1. /\ item \in [Items -> ItemRow]
      /\ \A h \in Groups : DOMAIN group[h].lines \subseteq Sources
      /\ \A h \in Groups : group[h] \in GroupRow(DOMAIN group[h].lines)
      /\ \A i \in Items : item[i] \in ItemRow
  BY DEF RowsSound, RowsTyped
<1>2. /\ group'[g].st = "draft" /\ DOMAIN group'[g].lines = DOMAIN job[s].read
      /\ group'[g] \in GroupRow(DOMAIN group'[g].lines)
      /\ group'[g].total = LinesTotal(group'[g].lines)
      /\ DOMAIN job[s].read \in SUBSET Items
      /\ \A h \in Groups \ {g} : group'[h] = group[h]
      /\ group' = [h \in Groups |-> group'[h]]
  BY CreatedRow
<1>3. \A i \in DOMAIN job[s].read, h \in Groups : i \notin DOMAIN group[h].lines
  <2>1. Loaded(s) /\ job[s].at = "loaded"
    BY DEF SessionsSound, CreateDraftBillGroup
  <2> QED BY <2>1 DEF Loaded
<1>4. \A i \in Items :
        IF i \in DOMAIN job[s].read /\ item[i].st = "unbilled"
        THEN item'[i] = [item[i] EXCEPT !.st = "on_draft", !.group = g] ELSE item'[i] = item[i]
  BY DEF CreateDraftBillGroup
<1>5. group[g].st = "none"
  BY DEF CreateDraftBillGroup
<1>6. RowsTyped'
  <2>1. ASSUME NEW i \in Items PROVE item'[i] \in ItemRow
    <3>1. item[i] \in ItemRow
      BY <1>1
    <3>2. [item[i] EXCEPT !.st = "on_draft", !.group = g] \in ItemRow
      BY <3>1 DEF ItemRow
    <3>3. item'[i] = item[i] \/ item'[i] = [item[i] EXCEPT !.st = "on_draft", !.group = g]
      BY <1>4
    <3> QED BY <3>1, <3>2, <3>3
  <2>2. item' = [i \in Items |-> item'[i]]
    BY DEF CreateDraftBillGroup
  <2>3. item' \in [Items -> ItemRow]
    BY <2>1, <2>2
  <2>4. \A h \in Groups : /\ DOMAIN group'[h].lines \subseteq Sources
                          /\ group'[h] \in GroupRow(DOMAIN group'[h].lines)
    BY <1>1, <1>2 DEF Sources
  <2> QED BY <1>2, <2>3, <2>4 DEF RowsTyped, ItemRow, GroupRow, LineRow, Sources
<1>7. ASSUME NEW i \in Items PROVE PointerSound(i)'
  <2>1. PointerSound(i) /\ item[i] \in ItemRow
    BY <1>1 DEF RowsSound
  <2>2. \A state \in {"draft", "issued"} : StandsOn(i, state) /\ item'[i] = item[i] => StandsOn(i, state)'
    BY <1>2, <1>5 DEF StandsOn
  <2>3. CASE i \in DOMAIN job[s].read /\ item[i].st = "unbilled"
    <3>1. item'[i].st = "on_draft" /\ item'[i].group = g
      BY <2>1, <2>3, <1>4 DEF ItemRow
    <3>2. StandsOn(i, "draft")'
      BY <3>1, <2>3, <1>2 DEF StandsOn
    <3>3. \A h \in Groups : i \in DOMAIN group'[h].lines => h = g
      BY <1>2, <1>3, <2>3
    <3> QED BY <3>1, <3>2, <3>3 DEF PointerSound
  <2>4. CASE i \in DOMAIN job[s].read /\ item[i].st # "unbilled"
    <3>1. item'[i] = item[i]
      BY <2>4, <1>4
    <3>2. item[i].st = "written_off"
      BY <2>1, <2>4, <1>3 DEF PointerSound, StandsOn, ItemRow
    <3> QED BY <2>1, <3>1, <3>2 DEF PointerSound
  <2>5. CASE i \notin DOMAIN job[s].read
    <3>1. item'[i] = item[i]
      BY <2>5, <1>4
    <3>2. \A h \in Groups : i \in DOMAIN group'[h].lines => i \in DOMAIN group[h].lines
      BY <2>5, <1>2
    <3> QED BY <2>1, <2>2, <3>1, <3>2 DEF PointerSound
  <2> QED BY <2>3, <2>4, <2>5
<1>8. BilledOnce'
  <2>1. BilledOnce
    BY DEF RowsSound
  <2> QED BY <2>1, <1>2, <1>3 DEF BilledOnce
<1>9. TotalFollowsLines'
  BY <1>2 DEF RowsSound, TotalFollowsLines
<1> QED BY <1>6, <1>7, <1>8, <1>9 DEF RowsSound

-----------------------------------------------------------------------------
(* A session moves on. *)

\* What a step of one session owes the others: their locks, the items they loaded on no
\* lines, the runs they build or issue where they are and with no draft they did not list.
LeavesAlone(s) ==
  \A q \in Sessions \ {s} :
    /\ job'[q] = job[q]
    /\ \A m \in Matters : lock[m] = q => lock'[m] = q
    /\ job[q].at = "loaded" => \A i \in DOMAIN job[q].read, g \in Groups :
         i \in DOMAIN group[g].lines' => i \in DOMAIN group[g].lines
    /\ \A r \in Runs :
         /\ Builds(q, r) => run'[r] = run[r] /\ ~Builds(s, r)'
         /\ job[q].at = "issuing" /\ job[q].run = r =>
              run'[r] \notin {"none", "building"} /\ DraftsOf(r)' \subseteq DraftsOf(r)

\* The others then hold what they held, and what is left to show is of the session itself.
LEMMA SessionMoves ==
  ASSUME SessionsSound, NEW s \in Sessions, LeavesAlone(s), SessionsTyped',
         Loaded(s)', Works(s)', FinishedRunsHoldNoDrafts'
  PROVE  SessionsSound'
<1>1. ASSUME NEW q \in Sessions, q # s PROVE Loaded(q)'
  <2>1. Loaded(q) /\ job'[q] = job[q]
    BY <1>1 DEF SessionsSound, LeavesAlone
  <2>2. job[q].at = "loaded" => job[q].matter \in Matters
    BY JobTypes DEF SessionsSound
  <2> QED BY <1>1, <2>1, <2>2 DEF Loaded, LeavesAlone
<1>2. ASSUME NEW q \in Sessions, q # s PROVE Works(q)'
  <2>1. \A p \in Sessions : Works(p)
    BY DEF SessionsSound
  <2>2. \A p \in Sessions \ {s} : job'[p] = job[p]
    BY DEF LeavesAlone
  <2>3. ASSUME NEW r \in Runs, Builds(q, r)'
        PROVE  run'[r] = "building" /\ \A p \in Sessions : Builds(p, r)' => p = q
    <3>1. Builds(q, r)
      BY <1>2, <2>2, <2>3 DEF Builds
    <3>2. run[r] = "building" /\ \A p \in Sessions : Builds(p, r) => p = q
      BY <2>1, <3>1 DEF Works
    <3>3. run'[r] = run[r] /\ ~Builds(s, r)'
      BY <1>2, <3>1 DEF LeavesAlone
    <3>4. \A p \in Sessions \ {s} : Builds(p, r)' => Builds(p, r)
      BY <2>2 DEF Builds
    <3> QED BY <3>2, <3>3, <3>4
  <2>4. ASSUME NEW r \in Runs, job[q].at = "issuing", job[q].run = r
        PROVE  run'[r] \notin {"none", "building"} /\ DraftsOf(r)' \subseteq job[q].todo
    BY <1>2, <2>1, <2>4 DEF LeavesAlone, Works
  <2> QED BY <1>2, <2>2, <2>3, <2>4 DEF Works
<1> QED BY <1>1, <1>2 DEF SessionsSound

\* Where a run goes on is a job.
LEMMA NextMatterType ==
  ASSUME NEW r \in Runs \cup {None}, NEW ms \in SUBSET Matters, NEW j, j.run = r, j.todo = ms
  PROVE  /\ NextMatter(j) \in Job /\ NextMatter(j).at \in {"idle", "building"}
         /\ NextMatter(j).at = "building" => NextMatter(j).run = r
<1>1. CASE r = None
  BY <1>1 DEF NextMatter, Job, Idle
<1>2. CASE r # None
  <2>1. NextMatter(j) = [at |-> "building", run |-> r, todo |-> ms]
    BY <1>2 DEF NextMatter
  <2>2. [at |-> "building", run |-> r, todo |-> ms] \in [at : {"building"}, run : Runs, todo : SUBSET Matters]
    BY <1>2
  <2> QED BY <2>1, <2>2 DEF Job
<1> QED BY <1>1, <1>2

\* A draft is created: the run it is of is being built by this session, and what the
\* others loaded is of matters they locked themselves.
LEMMA CreateKeepsSessions ==
  ASSUME RowsSound, SessionsSound, NEW s \in Sessions, NEW g \in Groups,
         CreateDraftBillGroup(s, g)
  PROVE  SessionsSound'
<1>1. /\ job[s].at = "loaded" /\ job[s].matter \in Matters /\ job[s].run \in Runs \cup {None}
      /\ job[s].todo \in SUBSET Matters
  BY JobTypes DEF SessionsSound, CreateDraftBillGroup
<1>2. /\ DOMAIN group'[g].lines = DOMAIN job[s].read /\ group'[g].run = job[s].run
      /\ \A h \in Groups \ {g} : group'[h] = group[h]
      /\ DOMAIN job[s].read \in SUBSET Items
  BY CreatedRow
<1>3. /\ UNCHANGED <<run, taxRule, approval>>
      /\ lock' = [lock EXCEPT ![job[s].matter] = None]
      /\ job' = [job EXCEPT ![s] = NextMatter(job[s])]
  BY DEF CreateDraftBillGroup
<1>4. /\ NextMatter(job[s]) \in Job /\ NextMatter(job[s]).at \in {"idle", "building"}
      /\ NextMatter(job[s]).at = "building" => NextMatter(job[s]).run = job[s].run
  BY <1>1, NextMatterType
<1>5. job'[s] = NextMatter(job[s]) /\ \A q \in Sessions \ {s} : job'[q] = job[q]
  BY <1>3 DEF SessionsSound, SessionsTyped
<1>6. SessionsTyped'
  BY <1>1, <1>3, <1>4 DEF SessionsSound, SessionsTyped
<1>7. /\ \A q \in Sessions : Loaded(q) /\ Works(q)
      /\ FinishedRunsHoldNoDrafts
  BY DEF SessionsSound
<1>8. lock[job[s].matter] = s /\ \A i \in DOMAIN job[s].read : MatterOf[i] = job[s].matter
  BY <1>1, <1>7 DEF Loaded
<1>9. \A r \in Runs : job[s].run = r => /\ Builds(s, r) /\ run[r] = "building"
                                        /\ \A q \in Sessions : Builds(q, r) => q = s
  BY <1>1, <1>7 DEF Works, Builds
<1>10. \A r \in Runs : job[s].run # r => DraftsOf(r)' \subseteq DraftsOf(r)
  BY <1>2 DEF DraftsOf
<1>11. LeavesAlone(s)
  <2>1. ASSUME NEW q \in Sessions \ {s}, NEW m \in Matters, lock[m] = q
        PROVE  lock'[m] = q
    <3>1. m # job[s].matter
      BY <1>8, <2>1
    <3> QED BY <1>3, <2>1, <3>1 DEF SessionsSound, SessionsTyped
  <2>2. ASSUME NEW q \in Sessions \ {s}, job[q].at = "loaded", NEW i \in DOMAIN job[q].read,
               NEW h \in Groups, i \in DOMAIN group'[h].lines
        PROVE  i \in DOMAIN group[h].lines
    <3>1. lock[job[q].matter] = q /\ MatterOf[i] = job[q].matter
      BY <1>7, <2>2 DEF Loaded
    <3>2. job[q].matter # job[s].matter
      BY <1>8, <3>1
    <3>3. i \notin DOMAIN job[s].read
      BY <1>8, <3>1, <3>2
    <3> QED BY <1>2, <2>2, <3>3
  <2>3. ASSUME NEW q \in Sessions \ {s}, NEW r \in Runs, Builds(q, r) PROVE ~Builds(s, r)'
    <3>1. job[s].run # r
      BY <1>9, <2>3
    <3> QED BY <1>4, <1>5, <3>1 DEF Builds
  <2>4. ASSUME NEW q \in Sessions \ {s}, NEW r \in Runs, job[q].at = "issuing", job[q].run = r
        PROVE  run'[r] \notin {"none", "building"} /\ DraftsOf(r)' \subseteq DraftsOf(r)
    <3>1. run[r] \notin {"none", "building"}
      BY <1>7, <2>4 DEF Works
    <3>2. job[s].run # r
      BY <1>9, <3>1
    <3> QED BY <1>3, <1>10, <3>1, <3>2
  <2> QED BY <1>3, <1>5, <2>1, <2>2, <2>3, <2>4 DEF LeavesAlone
<1>12. Loaded(s)'
  BY <1>4, <1>5 DEF Loaded
<1>13. Works(s)'
  <2>1. ASSUME NEW r \in Runs, Builds(s, r)'
        PROVE  run'[r] = "building" /\ \A q \in Sessions : Builds(q, r)' => q = s
    <3>1. job[s].run = r
      BY <1>4, <1>5, <2>1 DEF Builds
    <3>2. \A q \in Sessions \ {s} : Builds(q, r)' => Builds(q, r)
      BY <1>5 DEF Builds
    <3> QED BY <1>3, <1>9, <3>1, <3>2
  <2> QED BY <1>4, <1>5, <2>1 DEF Works
<1>14. FinishedRunsHoldNoDrafts'
  <2>1. ASSUME NEW r \in Runs, run[r] \in {"issued", "abandoned"} PROVE DraftsOf(r)' = {}
    <3>1. job[s].run # r
      BY <1>9, <2>1
    <3> QED BY <1>7, <1>10, <2>1, <3>1 DEF FinishedRunsHoldNoDrafts
  <2> QED BY <1>3, <2>1 DEF FinishedRunsHoldNoDrafts
<1> QED BY <1>6, <1>11, <1>12, <1>13, <1>14, SessionMoves

-----------------------------------------------------------------------------
(* The steps, one by one. *)

\* What was issued stays as it was, what is issued is taxed under the rule of the day.
LEMMA RulesKept ==
  ASSUME OneRulePerBill, taxRule \in Nat, taxRule' \in Nat, taxRule <= taxRule',
         \A g \in Groups : group'[g].st = "issued" =>
           \/ group[g].st = "issued" /\ group'[g].lines = group[g].lines
           \/ \A x \in DOMAIN group'[g].lines :
                group'[g].lines[x].tax = group'[g].lines[x].amt * taxRule
  PROVE  OneRulePerBill'
<1>1. ASSUME NEW g \in Groups, group'[g].st = "issued"
      PROVE  \E rule \in 0..taxRule : \A x \in DOMAIN group'[g].lines :
               group'[g].lines[x].tax = group'[g].lines[x].amt * rule
  <2>1. CASE group[g].st = "issued" /\ group'[g].lines = group[g].lines
    BY <2>1 DEF OneRulePerBill
  <2>2. CASE \A x \in DOMAIN group'[g].lines :
               group'[g].lines[x].tax = group'[g].lines[x].amt * taxRule
    <3>1. taxRule \in 0..taxRule
      OBVIOUS
    <3> QED BY <2>2, <3>1
  <2> QED BY <1>1, <2>1, <2>2
<1>2. \A rule \in 0..taxRule : rule \in 0..taxRule'
  OBVIOUS
<1> QED BY <1>1, <1>2 DEF OneRulePerBill

\* An item is edited, written off, deleted or restored under its row lock.
LEMMA ItemStepsKeep ==
  ASSUME Discipline, NEW i \in Items, UNCHANGED <<group, run, taxRule, approval, lock, job>>,
         NEW row, row \in ItemRow, item' = [item EXCEPT ![i] = row], row.group = item[i].group,
         row.st = item[i].st \/ (item[i].st = "unbilled" /\ row.st = "written_off")
  PROVE  Discipline'
<1>1. RowsSound /\ SessionsSound /\ OneRulePerBill
  BY Parts
<1>2. /\ item \in [Items -> ItemRow] /\ \A k \in Items : PointerSound(k)
      /\ taxRule \in Nat
  BY <1>1 DEF RowsSound, RowsTyped, SessionsSound, SessionsTyped
<1>3. item' \in [Items -> ItemRow]
  BY <1>2
<1>4. \A k \in Items : /\ item'[k].group = item[k].group
                       /\ \/ item'[k].st = item[k].st
                          \/ item[k].st = "unbilled" /\ item'[k].st = "written_off"
  BY <1>2
<1>5. ASSUME NEW k \in Items PROVE PointerSound(k)'
  <2>1. PointerSound(k)
    BY <1>2
  <2>2. \A state : StandsOn(k, state)' <=> StandsOn(k, state)
    BY <1>4 DEF StandsOn
  <2> QED BY <1>4, <2>1, <2>2 DEF PointerSound
<1>6. RowsSound'
  BY <1>1, <1>3, <1>5 DEF RowsSound, RowsTyped, BilledOnce, TotalFollowsLines
<1>7. Shrinks
  BY DEF Shrinks, DraftsOf
<1>8. SessionsSound'
  BY <1>1, <1>2, <1>7, SessionsKept
<1>9. OneRulePerBill'
  BY <1>1 DEF OneRulePerBill
<1> QED BY <1>6, <1>8, <1>9, PartsNext

LEMMA ItemsKeep ==
  ASSUME Discipline, NEW i \in Items,
         \/ \E v \in 1..MaxValue : EditItem(i, v)
         \/ WriteOffUnbilledItem(i) \/ SoftDeleteUnbilledItem(i) \/ RestoreUnbilledItem(i)
  PROVE  Discipline'
<1>1. item[i] \in ItemRow
  BY DEF Discipline, TypeOK
<1>2. ASSUME NEW v \in 1..MaxValue, EditItem(i, v) PROVE Discipline'
  <2>1. [item[i] EXCEPT !.val = v] \in ItemRow
    BY <1>1 DEF ItemRow
  <2>2. item' = [item EXCEPT ![i] = [item[i] EXCEPT !.val = v]]
    BY <1>2 DEF EditItem
  <2> QED BY <1>1, <1>2, <2>1, <2>2, ItemStepsKeep DEF EditItem, ItemRow
<1>3. CASE WriteOffUnbilledItem(i)
  <2>1. [item[i] EXCEPT !.st = "written_off"] \in ItemRow
    BY <1>1 DEF ItemRow
  <2>2. item' = [item EXCEPT ![i] = [item[i] EXCEPT !.st = "written_off"]]
    BY <1>3 DEF WriteOffUnbilledItem
  <2> QED BY <1>1, <1>3, <2>1, <2>2, ItemStepsKeep DEF WriteOffUnbilledItem, ItemRow, IsUnbilled
<1>4. CASE SoftDeleteUnbilledItem(i)
  <2>1. [item[i] EXCEPT !.deleted = TRUE] \in ItemRow
    BY <1>1 DEF ItemRow
  <2>2. item' = [item EXCEPT ![i] = [item[i] EXCEPT !.deleted = TRUE]]
    BY <1>4 DEF SoftDeleteUnbilledItem
  <2> QED BY <1>1, <1>4, <2>1, <2>2, ItemStepsKeep DEF SoftDeleteUnbilledItem, ItemRow
<1>5. CASE RestoreUnbilledItem(i)
  <2>1. [item[i] EXCEPT !.deleted = FALSE] \in ItemRow
    BY <1>1 DEF ItemRow
  <2>2. item' = [item EXCEPT ![i] = [item[i] EXCEPT !.deleted = FALSE]]
    BY <1>5 DEF RestoreUnbilledItem
  <2> QED BY <1>1, <1>5, <2>1, <2>2, ItemStepsKeep DEF RestoreUnbilledItem, ItemRow
<1> QED BY <1>2, <1>3, <1>4, <1>5

\* An edit of a draft keeps everything, whatever it does to the lines.
LEMMA EditKeeps ==
  ASSUME Discipline, NEW g \in Groups, Editable(g), NEW row, Edited(g, row), Leaves(g, row),
         group' = [group EXCEPT ![g] = row], item' = [i \in Items |-> item'[i]],
         UNCHANGED <<run, taxRule, approval, lock, job>>
  PROVE  Discipline'
<1>1. RowsSound /\ SessionsSound /\ OneRulePerBill
  BY Parts
<1>2. RowsSound' /\ Shrinks
  BY <1>1, EditKeepsRows
<1>3. taxRule \in Nat
  BY <1>1 DEF SessionsSound, SessionsTyped
<1>4. SessionsSound'
  BY <1>1, <1>2, <1>3, SessionsKept
<1>5. DOMAIN group = Groups
  BY <1>1 DEF RowsSound, RowsTyped
<1>6. group'[g] = row /\ \A h \in Groups \ {g} : group'[h] = group[h]
  BY <1>5
<1>7. \A h \in Groups : group'[h].st = "issued" =>
        group[h].st = "issued" /\ group'[h].lines = group[h].lines
  BY <1>6 DEF Edited
<1>8. OneRulePerBill'
  BY <1>1, <1>3, <1>7, RulesKept
<1> QED BY <1>2, <1>4, <1>8, PartsNext

\* The row that RecomputeTotal makes of a draft is an edited one.
LEMMA RecomputedRow ==
  ASSUME TypeOK, NEW g \in Groups, Editable(g), NEW xs \in SUBSET Sources,
         NEW ls \in [xs -> LineRow], \A i \in Items : i \in xs => i \in DOMAIN group[g].lines,
         NEW p \in BOOLEAN
  PROVE  /\ Edited(g, [group[g] EXCEPT !.lines = ls, !.total = LinesTotal(ls), !.pending = p])
         /\ RecomputeTotal(g, ls) = [group EXCEPT ![g] = [group[g] EXCEPT !.lines = ls, !.total = LinesTotal(ls)]]
         /\ DOMAIN ls = xs
<1> DEFINE row == [group[g] EXCEPT !.lines = ls, !.total = LinesTotal(ls), !.pending = p]
<1>1. group[g] \in GroupRow(DOMAIN group[g].lines) /\ DOMAIN group = Groups
  BY RowTypes
<1>2. LinesTotal(ls) \in Nat
  BY TotalType
<1>3. /\ row.st = "draft" /\ row.run = group[g].run /\ row.lines = ls
      /\ row.total = LinesTotal(ls) /\ row \in GroupRow(xs)
  BY <1>1, <1>2 DEF GroupRow, Editable
<1>4. DOMAIN ls = xs
  OBVIOUS
<1>5. RecomputeTotal(g, ls) = [group EXCEPT ![g] = [group[g] EXCEPT !.lines = ls, !.total = LinesTotal(ls)]]
  BY <1>1 DEF RecomputeTotal
<1> HIDE DEF row
<1>6. Edited(g, row)
  BY <1>3, <1>4 DEF Edited
<1> QED BY <1>4, <1>5, <1>6 DEF row

LEMMA EditsKeep ==
  ASSUME Discipline, NEW g \in Groups,
         \/ \E x \in Sources : \/ RemoveDraftLine(g, x)
                               \/ \E v \in 0..MaxValue : WriteDownDraftItem(g, x, v)
         \/ AddManualDraftLine(g) \/ SubmitForApproval(g) \/ SendBackToDraft(g)
  PROVE  Discipline'
<1>1. /\ group[g].lines \in [DOMAIN group[g].lines -> LineRow] /\ DOMAIN group = Groups
      /\ DOMAIN group[g].lines \in SUBSET Sources
      /\ group[g] \in GroupRow(DOMAIN group[g].lines)
  BY RowTypes DEF Discipline
<1>2. /\ taxRule \in Nat /\ TypeOK /\ item = [i \in Items |-> item[i]]
      /\ group[g].pending \in BOOLEAN
  BY <1>1 DEF Discipline, TypeOK, GroupRow
<1>3. \A x \in DOMAIN group[g].lines :
        /\ group[g].lines[x] \in LineRow /\ group[g].lines[x].amt \in Nat
        /\ LineTax(group[g].lines[x].amt) \in Nat
  BY <1>1, <1>2, LineType DEF LineRow
<1>4. ASSUME NEW x \in Sources, RemoveDraftLine(g, x) PROVE Discipline'
  <2> DEFINE ls == Without(group[g].lines, x)
             row == [group[g] EXCEPT !.lines = ls, !.total = LinesTotal(ls)]
  <2>1. ls \in [DOMAIN group[g].lines \ {x} -> LineRow]
    BY <1>1 DEF Without
  <2>2. DOMAIN group[g].lines \ {x} \in SUBSET Sources
    BY <1>1
  <2>3. Editable(g) /\ x \in DOMAIN group[g].lines
    BY <1>4 DEF RemoveDraftLine
  <2> HIDE DEF ls
  <2>4. /\ Edited(g, [group[g] EXCEPT !.lines = ls, !.total = LinesTotal(ls), !.pending = group[g].pending])
        /\ RecomputeTotal(g, ls) = [group EXCEPT ![g] = row]
        /\ DOMAIN ls = DOMAIN group[g].lines \ {x}
    BY <1>2, <2>1, <2>2, <2>3, RecomputedRow
  <2>5. row = [group[g] EXCEPT !.lines = ls, !.total = LinesTotal(ls), !.pending = group[g].pending]
    BY <1>1 DEF GroupRow
  <2>6. /\ item' = Released({g}, {x}) /\ group' = [group EXCEPT ![g] = row]
        /\ UNCHANGED <<run, taxRule, approval, lock, job>>
    BY <1>4, <2>4 DEF RemoveDraftLine, Frame, ls
  <2>7. row.lines = ls
    BY <1>1 DEF GroupRow
  <2>8. Leaves(g, row)
    <3>1. ASSUME NEW i \in Items
          PROVE  IF i = x /\ item[i].group = g
                 THEN item'[i] = [item[i] EXCEPT !.st = "unbilled", !.group = None]
                 ELSE item'[i] = item[i]
      BY <2>6 DEF Released
    <3>2. \A i \in Items : i \in DOMAIN group[g].lines /\ i \notin DOMAIN row.lines <=> i = x
      BY <2>3, <2>4, <2>7
    <3> QED BY <3>1, <3>2 DEF Leaves
  <2>9. item' = [i \in Items |-> item'[i]]
    BY <2>6 DEF Released
  <2> HIDE DEF row
  <2> QED BY <2>3, <2>4, <2>5, <2>6, <2>8, <2>9, EditKeeps
<1>5. ASSUME NEW ls \in [DOMAIN group[g].lines -> LineRow], NEW p \in BOOLEAN, Editable(g),
             group' = [group EXCEPT ![g] = [group[g] EXCEPT !.lines = ls,
                                              !.total = LinesTotal(ls), !.pending = p]],
             item' = item, UNCHANGED <<run, taxRule, approval, lock, job>>
      PROVE  Discipline'
  <2> DEFINE row == [group[g] EXCEPT !.lines = ls, !.total = LinesTotal(ls), !.pending = p]
  <2>1. Edited(g, row)
    BY <1>1, <1>2, <1>5, RecomputedRow
  <2>2. row.lines = ls
    BY <1>1 DEF GroupRow
  <2> HIDE DEF row
  <2>3. Leaves(g, row)
    BY <1>5, <2>2 DEF Leaves
  <2>4. item' = [i \in Items |-> item'[i]]
    BY <1>2, <1>5
  <2>5. group' = [group EXCEPT ![g] = row]
    BY <1>5 DEF row
  <2> QED BY <1>5, <2>1, <2>3, <2>4, <2>5, EditKeeps
<1>6. ASSUME NEW x \in Sources, NEW v \in 0..MaxValue, WriteDownDraftItem(g, x, v)
      PROVE  Discipline'
  <2> DEFINE ls == [group[g].lines EXCEPT ![x].amt = v, ![x].tax = LineTax(v)]
  <2>1. v \in Nat /\ LineTax(v) \in Nat
    BY <1>2, LineType
  <2>2. x \in DOMAIN group[g].lines /\ Editable(g)
    BY <1>6 DEF WriteDownDraftItem
  <2>3. ls \in [DOMAIN group[g].lines -> LineRow]
    BY <1>1, <2>1, <2>2 DEF LineRow
  <2> HIDE DEF ls
  <2>4. RecomputeTotal(g, ls) = [group EXCEPT ![g] = [group[g] EXCEPT !.lines = ls, !.total = LinesTotal(ls)]]
    BY <1>1, <1>2, <2>2, <2>3, RecomputedRow
  <2>5. [group[g] EXCEPT !.lines = ls, !.total = LinesTotal(ls)]
          = [group[g] EXCEPT !.lines = ls, !.total = LinesTotal(ls), !.pending = group[g].pending]
    BY <1>1 DEF GroupRow
  <2>6. group' = RecomputeTotal(g, ls) /\ item' = item /\ UNCHANGED <<run, taxRule, approval, lock, job>>
    BY <1>6 DEF WriteDownDraftItem, Frame, ls
  <2> QED BY <1>2, <1>5, <2>2, <2>3, <2>4, <2>5, <2>6
<1>7. CASE SubmitForApproval(g)
  <2> DEFINE ls == Retaxed(group[g].lines)
  <2>1. ls \in [DOMAIN group[g].lines -> LineRow]
    BY <1>1, <1>3 DEF Retaxed, LineRow
  <2>2. Editable(g)
    BY <1>7 DEF SubmitForApproval
  <2> HIDE DEF ls
  <2>3. RecomputeTotal(g, ls) = [group EXCEPT ![g] = [group[g] EXCEPT !.lines = ls, !.total = LinesTotal(ls)]]
    BY <1>1, <1>2, <2>2, <2>1, RecomputedRow
  <2>4. group' = [RecomputeTotal(g, ls) EXCEPT ![g].pending = TRUE]
    BY <1>7 DEF SubmitForApproval, ls
  <2>5. group' = [group EXCEPT ![g] = [group[g] EXCEPT !.lines = ls, !.total = LinesTotal(ls), !.pending = TRUE]]
    BY <1>1, <2>3, <2>4
  <2>6. item' = item /\ UNCHANGED <<run, taxRule, approval, lock, job>>
    BY <1>7 DEF SubmitForApproval, Frame
  <2> QED BY <1>5, <2>1, <2>2, <2>5, <2>6
<1>8. CASE SendBackToDraft(g)
  <2>1. /\ Editable(g) /\ item' = item /\ UNCHANGED <<run, taxRule, approval, lock, job>>
        /\ group' = [group EXCEPT ![g].pending = FALSE]
    BY <1>8 DEF SendBackToDraft, Frame
  <2>2. group[g].total = LinesTotal(group[g].lines)
    BY <2>1 DEF Discipline, BilledRight, TotalFollowsLines, Editable
  <2>3. [group[g] EXCEPT !.pending = FALSE]
          = [group[g] EXCEPT !.lines = group[g].lines, !.total = LinesTotal(group[g].lines), !.pending = FALSE]
    BY <1>1, <2>2 DEF GroupRow
  <2>4. group' = [group EXCEPT ![g] = [group[g] EXCEPT !.lines = group[g].lines,
                                         !.total = LinesTotal(group[g].lines), !.pending = FALSE]]
    BY <1>1, <2>1, <2>3
  <2> QED BY <1>1, <1>5, <2>1, <2>4
<1>9. CASE AddManualDraftLine(g)
  <2> DEFINE xs == DOMAIN group[g].lines \cup {Manual}
             ls == [x \in xs |-> IF x = Manual THEN LineOf(1) ELSE group[g].lines[x]]
             row == [group[g] EXCEPT !.lines = ls, !.total = LinesTotal(ls)]
  <2>1. Editable(g)
    BY <1>9 DEF AddManualDraftLine
  <2>2. LineOf(1) \in LineRow
    BY <1>2, LineType
  <2>3. ls \in [xs -> LineRow] /\ xs \in SUBSET Sources
    BY <1>1, <2>2 DEF Sources
  <2>4. \A i \in Items : i \in xs => i \in DOMAIN group[g].lines
    BY NoneAssumption
  <2>5. group' = RecomputeTotal(g, ls) /\ item' = item /\ UNCHANGED <<run, taxRule, approval, lock, job>>
    BY <1>9 DEF AddManualDraftLine, Frame
  <2> HIDE DEF ls, xs
  <2>6. /\ Edited(g, [group[g] EXCEPT !.lines = ls, !.total = LinesTotal(ls), !.pending = group[g].pending])
        /\ RecomputeTotal(g, ls) = [group EXCEPT ![g] = row]
        /\ DOMAIN ls = xs
    BY <1>2, <2>1, <2>3, <2>4, RecomputedRow
  <2>7. row = [group[g] EXCEPT !.lines = ls, !.total = LinesTotal(ls), !.pending = group[g].pending]
    BY <1>1 DEF GroupRow
  <2>8. row.lines = ls
    BY <1>1 DEF GroupRow
  <2>9. \A i \in Items : i \in DOMAIN group[g].lines => i \in DOMAIN ls
    BY <2>6 DEF xs
  <2> HIDE DEF row
  <2>10. Leaves(g, row)
    BY <2>5, <2>8, <2>9 DEF Leaves
  <2>11. item' = [i \in Items |-> item'[i]]
    BY <1>2, <2>5
  <2> QED BY <2>1, <2>5, <2>6, <2>7, <2>10, <2>11, EditKeeps
<1> QED BY <1>4, <1>6, <1>7, <1>8, <1>9

\* Abandoning by hand.
LEMMA AbandonKeeps ==
  ASSUME Discipline, NEW g \in Groups, AbandonDraftGroup(g)
  PROVE  Discipline'
<1>1. RowsSound /\ SessionsSound /\ OneRulePerBill
  BY Parts
<1>2. /\ Editable(g) /\ AbandonGroups({g}) /\ UNCHANGED <<run, taxRule, approval, lock, job>>
  BY DEF AbandonDraftGroup, Frame
<1>3. RowsSound' /\ Shrinks
  BY <1>1, <1>2, AbandonKeepsRows
<1>4. taxRule \in Nat
  BY <1>1 DEF SessionsSound, SessionsTyped
<1>5. SessionsSound'
  BY <1>1, <1>2, <1>3, <1>4, SessionsKept
<1>6. \A h \in Groups : group'[h].st = "issued" =>
        group[h].st = "issued" /\ group'[h].lines = group[h].lines
  <2>1. group[g] \in GroupRow(DOMAIN group[g].lines)
    BY <1>1 DEF RowsSound, RowsTyped
  <2>2. group'[g].st = "abandoned" /\ \A h \in Groups \ {g} : group'[h] = group[h]
    BY <1>2, <2>1 DEF AbandonGroups, GroupRow
  <2> QED BY <2>2
<1>7. OneRulePerBill'
  BY <1>1, <1>2, <1>4, <1>6, RulesKept
<1> QED BY <1>3, <1>5, <1>7, PartsNext

\* A run is abandoned with the drafts it has left; whoever issues it finds none.
LEMMA AbandonRunKeeps ==
  ASSUME Discipline, NEW r \in Runs, AbandonBillingRun(r)
  PROVE  Discipline'
<1>1. RowsSound /\ SessionsSound /\ OneRulePerBill
  BY Parts
<1>2. /\ run[r] = "in_review" /\ AbandonGroups(DraftsOf(r))
      /\ run' = [run EXCEPT ![r] = "abandoned"] /\ UNCHANGED <<taxRule, approval, lock, job>>
  BY DEF AbandonBillingRun
<1>3. DraftsOf(r) \in SUBSET Groups /\ \A g \in DraftsOf(r) : Editable(g)
  BY DEF DraftsOf, Editable
<1>4. RowsSound' /\ Shrinks
  BY <1>1, <1>2, <1>3, AbandonKeepsRows
<1>5. \A g \in Groups : group[g] \in GroupRow(DOMAIN group[g].lines)
  BY <1>1 DEF RowsSound, RowsTyped
<1>6. \A g \in Groups : IF g \in DraftsOf(r)
                        THEN group'[g].st = "abandoned" ELSE group'[g] = group[g]
  BY <1>2, <1>5 DEF AbandonGroups, GroupRow
<1>7. DraftsOf(r)' = {}
  BY <1>6 DEF DraftsOf
<1>8. /\ run \in [Runs -> {"none", "building", "in_review", "issued", "abandoned"}]
      /\ taxRule \in Nat /\ SessionsTyped
  BY <1>1 DEF SessionsSound, SessionsTyped
<1>9. run'[r] = "abandoned" /\ \A q \in Runs \ {r} : run'[q] = run[q]
  BY <1>2, <1>8
<1>10. SessionsTyped'
  BY <1>2, <1>8 DEF SessionsTyped
<1>11. ASSUME NEW s \in Sessions PROVE Loaded(s)'
  <2>1. Loaded(s)
    BY <1>1 DEF SessionsSound
  <2>2. job[s].at = "loaded" => DOMAIN job[s].read \in SUBSET Items
    BY <1>8, JobTypes
  <2> QED BY <1>2, <1>4, <2>1, <2>2 DEF Loaded, Shrinks
<1>12. ASSUME NEW s \in Sessions PROVE Works(s)'
  <2>1. Works(s)
    BY <1>1 DEF SessionsSound
  <2>2. \A q \in Runs, p \in Sessions : Builds(p, q)' <=> Builds(p, q)
    BY <1>2 DEF Builds
  <2>3. ~Builds(s, r)
    BY <1>2, <2>1 DEF Works
  <2>4. \A q \in Runs : DraftsOf(q)' \subseteq DraftsOf(q)
    BY <1>4 DEF Shrinks
  <2> QED BY <1>2, <1>9, <2>1, <2>2, <2>3, <2>4 DEF Works
<1>13. FinishedRunsHoldNoDrafts'
  <2>1. FinishedRunsHoldNoDrafts
    BY <1>1 DEF SessionsSound
  <2> QED BY <1>4, <1>7, <1>9, <2>1 DEF FinishedRunsHoldNoDrafts, Shrinks
<1>14. SessionsSound'
  BY <1>10, <1>11, <1>12, <1>13 DEF SessionsSound
<1>15. \A g \in Groups : group'[g].st = "issued" =>
         group[g].st = "issued" /\ group'[g].lines = group[g].lines
  BY <1>6
<1>16. OneRulePerBill'
  BY <1>1, <1>2, <1>8, <1>15, RulesKept
<1> QED BY <1>4, <1>14, <1>16, PartsNext

\* Issuing, by hand or as the next of a run.
LEMMA IssueKeeps ==
  ASSUME Discipline, NEW g \in Groups,
         IssueByHand(g) \/ \E s \in Sessions : IssueNext(s, g)
  PROVE  Discipline'
<1>1. RowsSound /\ SessionsSound /\ OneRulePerBill
  BY Parts
<1>2. /\ MayIssue(g) /\ IssueBillGroup(g) /\ UNCHANGED <<run, taxRule, approval, lock>>
  BY DEF IssueByHand, IssueNext, Frame
<1>3. taxRule \in Nat /\ SessionsTyped
  BY <1>1 DEF SessionsSound, SessionsTyped
<1>4. /\ RowsSound' /\ Shrinks
      /\ \A x \in DOMAIN group'[g].lines :
           group'[g].lines[x].tax = group'[g].lines[x].amt * taxRule
      /\ group'[g].st = "issued" /\ \A h \in Groups \ {g} : group'[h] = group[h]
  BY <1>1, <1>2, <1>3, IssueKeepsRows
<1>5. \A h \in Groups : group'[h].st = "issued" =>
         \/ group[h].st = "issued" /\ group'[h].lines = group[h].lines
         \/ \A x \in DOMAIN group'[h].lines :
              group'[h].lines[x].tax = group'[h].lines[x].amt * taxRule
  BY <1>4
<1>6. OneRulePerBill'
  BY <1>1, <1>2, <1>3, <1>5, RulesKept
<1>7. CASE IssueByHand(g)
  <2>1. job' = job
    BY <1>7 DEF IssueByHand, Frame
  <2>2. SessionsSound'
    BY <1>1, <1>2, <1>3, <1>4, <2>1, SessionsKept
  <2> QED BY <1>4, <1>6, <2>2, PartsNext
<1>8. ASSUME NEW s \in Sessions, IssueNext(s, g) PROVE Discipline'
  <2>1. /\ job[s].at = "issuing" /\ job[s].run \in Runs /\ job[s].todo \in SUBSET Groups
        /\ job[s] \in Job
    BY <1>3, <1>8, JobTypes DEF IssueNext
  <2>2. job' = [job EXCEPT ![s].todo = @ \ {g}]
    BY <1>8 DEF IssueNext
  <2>3. job[s] \in [at : {"issuing"}, run : Runs, todo : SUBSET Groups]
    BY <2>1 DEF Job, Idle
  <2>4. /\ job'[s].at = "issuing" /\ job'[s].run = job[s].run
        /\ job'[s].todo = job[s].todo \ {g} /\ job'[s] \in Job
        /\ \A q \in Sessions \ {s} : job'[q] = job[q]
        /\ job' \in [Sessions -> Job]
    <3>1. job \in [Sessions -> Job]
      BY <1>3 DEF SessionsTyped
    <3>2. /\ job'[s] = [job[s] EXCEPT !.todo = job[s].todo \ {g}]
          /\ \A q \in Sessions \ {s} : job'[q] = job[q]
      BY <2>2, <3>1
    <3>3. job'[s] \in [at : {"issuing"}, run : Runs, todo : SUBSET Groups]
      BY <2>3, <3>2
    <3>4. /\ job'[s].at = "issuing" /\ job'[s].run = job[s].run
          /\ job'[s].todo = job[s].todo \ {g}
      BY <2>3, <3>2
    <3>5. job'[s] \in Job
      BY <3>3 DEF Job
    <3>6. job' \in [Sessions -> Job]
      BY <2>2, <3>1, <3>2, <3>5
    <3> QED BY <3>2, <3>4, <3>5, <3>6
  <2>5. SessionsTyped'
    BY <1>2, <1>3, <2>4 DEF SessionsTyped
  <2>6. /\ \A q \in Sessions : Loaded(q) /\ Works(q)
        /\ FinishedRunsHoldNoDrafts
    BY <1>1 DEF SessionsSound
  <2>7. \A r \in Runs : ~Builds(s, r)'
    BY <2>4 DEF Builds
  <2>8. LeavesAlone(s)
    <3>1. ASSUME NEW q \in Sessions, job[q].at = "loaded" PROVE DOMAIN job[q].read \in SUBSET Items
      BY <1>3, <3>1, JobTypes
    <3>2. \A q \in Sessions, r \in Runs : job[q].at = "issuing" /\ job[q].run = r =>
            run[r] \notin {"none", "building"}
      BY <2>6 DEF Works
    <3> QED BY <1>2, <1>4, <2>4, <2>7, <3>1, <3>2 DEF LeavesAlone, Shrinks
  <2>9. Loaded(s)'
    BY <2>4 DEF Loaded
  <2>10. Works(s)'
    <3>1. \A r \in Runs : job[s].run = r =>
            run[r] \notin {"none", "building"} /\ DraftsOf(r) \subseteq job[s].todo
      BY <2>1, <2>6 DEF Works
    <3>2. \A r \in Runs : g \notin DraftsOf(r)' /\ DraftsOf(r)' \subseteq DraftsOf(r)
      BY <1>4 DEF DraftsOf, Shrinks
    <3> QED BY <1>2, <2>4, <2>7, <3>1, <3>2 DEF Works
  <2>11. FinishedRunsHoldNoDrafts'
    BY <1>2, <1>4, <2>6 DEF FinishedRunsHoldNoDrafts, Shrinks
  <2>12. SessionsSound'
    BY <1>1, <2>5, <2>8, <2>9, <2>10, <2>11, SessionMoves
  <2> QED BY <1>4, <1>6, <2>12, PartsNext
<1> QED BY <1>7, <1>8

\* Steps that move a session, its locks and its run, and no row.
LEMMA QuietStep ==
  ASSUME Discipline, NEW s \in Sessions, NEW j \in Job, job' = [job EXCEPT ![s] = j],
         UNCHANGED <<item, group, taxRule, approval>>,
         lock' \in [Matters -> Sessions \cup {None}],
         run' \in [Runs -> {"none", "building", "in_review", "issued", "abandoned"}],
         \A q \in Sessions \ {s}, m \in Matters : lock[m] = q => lock'[m] = q,
         \A q \in Sessions \ {s}, r \in Runs :
           /\ Builds(q, r) => run'[r] = run[r] /\ ~Builds(s, r)'
           /\ job[q].at = "issuing" /\ job[q].run = r => run'[r] \notin {"none", "building"},
         Loaded(s)', Works(s)', FinishedRunsHoldNoDrafts'
  PROVE  Discipline'
<1>1. RowsSound /\ SessionsSound /\ OneRulePerBill
  BY Parts
<1>2. RowsSound' /\ OneRulePerBill'
  BY <1>1 DEF RowsSound, RowsTyped, BilledOnce, TotalFollowsLines, PointerSound, StandsOn,
              OneRulePerBill
<1>3. SessionsTyped'
  BY <1>1 DEF SessionsSound, SessionsTyped
<1>4. \A q \in Sessions \ {s} : job'[q] = job[q]
  BY <1>1 DEF SessionsSound, SessionsTyped
<1>5. LeavesAlone(s)
  BY <1>4 DEF LeavesAlone, DraftsOf
<1>6. SessionsSound'
  BY <1>1, <1>3, <1>5, SessionMoves
<1> QED BY <1>2, <1>6, PartsNext

\* A request ends, or dies, and lets its locks go.
LEMMA EndsKeep ==
  ASSUME Discipline, NEW s \in Sessions, job' = [job EXCEPT ![s] = Idle],
         UNCHANGED <<item, group, run, taxRule, approval>>,
         lock' = lock \/ lock' = [m \in Matters |-> IF lock[m] = s THEN None ELSE lock[m]]
  PROVE  Discipline'
<1>1. RowsSound /\ SessionsSound /\ SessionsTyped
  BY Parts DEF SessionsSound
<1>2. job'[s] = Idle /\ Idle \in Job
  BY <1>1 DEF SessionsTyped, Job
<1>3. Loaded(s)' /\ Works(s)' /\ \A r \in Runs : ~Builds(s, r)'
  BY <1>2 DEF Loaded, Works, Builds, Idle
<1>4. lock' \in [Matters -> Sessions \cup {None}]
  BY <1>1 DEF SessionsTyped
<1>5. \A q \in Sessions \ {s}, m \in Matters : lock[m] = q => lock'[m] = q
  BY <1>1 DEF SessionsTyped
<1>6. FinishedRunsHoldNoDrafts'
  BY <1>1 DEF SessionsSound, FinishedRunsHoldNoDrafts, DraftsOf
<1>7. \A q \in Sessions, r \in Runs : job[q].at = "issuing" /\ job[q].run = r =>
        run[r] \notin {"none", "building"}
  BY <1>1 DEF SessionsSound, Works
<1> QED BY <1>1, <1>2, <1>3, <1>4, <1>5, <1>6, <1>7, QuietStep DEF SessionsTyped

\* A draft begins, by hand or in a run: unbilled items stand on no lines.
LEMMA LoadKeeps ==
  ASSUME Discipline, NEW s \in Sessions, NEW m \in Matters, LockFree(m),
         NEW its \in SUBSET Items, \A i \in its : MatterOf[i] = m /\ IsUnbilled(i),
         NEW r \in Runs \cup {None}, NEW left \in SUBSET Matters,
         r \in Runs => Builds(s, r),
         lock' = [lock EXCEPT ![m] = s],
         job' = [job EXCEPT ![s] = [at |-> "loaded", matter |-> m, run |-> r, todo |-> left,
                                    read |-> [i \in its |-> item[i].val]]],
         UNCHANGED <<item, group, run, taxRule, approval>>
  PROVE  Discipline'
<1> DEFINE rd == [i \in its |-> item[i].val]
           j == [at |-> "loaded", matter |-> m, run |-> r, todo |-> left, read |-> rd]
<1>1. RowsSound /\ SessionsSound /\ SessionsTyped
  BY Parts DEF SessionsSound
<1>2. rd \in Values /\ DOMAIN rd = its
  <2>1. \A i \in its : item[i].val \in 1..MaxValue
    BY <1>1 DEF RowsSound, RowsTyped, ItemRow
  <2>2. rd \in [its -> 1..MaxValue]
    BY <2>1
  <2> QED BY <2>2 DEF Values
<1>3. job' = [job EXCEPT ![s] = j]
  OBVIOUS
<1> HIDE DEF rd
<1>4. j \in Job
  BY <1>2 DEF Job
<1>5. job'[s] = j /\ \A q \in Sessions \ {s} : job'[q] = job[q]
  BY <1>1, <1>3 DEF SessionsTyped
<1>6. /\ job'[s].at = "loaded" /\ job'[s].matter = m /\ job'[s].run = r
      /\ DOMAIN job'[s].read = its
  BY <1>2, <1>5
<1> HIDE DEF j
<1>7. lock' \in [Matters -> Sessions \cup {None}] /\ lock'[m] = s
  BY <1>1 DEF SessionsTyped
<1>8. \A q \in Sessions \ {s}, x \in Matters : lock[x] = q => lock'[x] = q
  BY <1>1, NoneAssumption DEF SessionsTyped, LockFree
<1>9. \A i \in its, g \in Groups : i \notin DOMAIN group[g].lines
  <2>1. ASSUME NEW i \in its PROVE PointerSound(i) /\ item[i].st = "unbilled"
    BY <1>1 DEF RowsSound, IsUnbilled
  <2> QED BY <2>1, NoneAssumption DEF PointerSound
<1>10. Loaded(s)'
  BY <1>6, <1>7, <1>9 DEF Loaded
<1>11. \A q \in Runs : Builds(s, q)' => q = r
  BY <1>6 DEF Builds
<1>12. \A q \in Sessions : Works(q)
  BY <1>1 DEF SessionsSound
<1>13. \A q \in Sessions \ {s}, x \in Runs : Builds(q, x)' <=> Builds(q, x)
  BY <1>5 DEF Builds
<1>14. ASSUME r \in Runs
       PROVE  run[r] = "building" /\ \A p \in Sessions : Builds(p, r) => p = s
  BY <1>12, <1>14 DEF Works
<1>15. Works(s)'
  BY <1>6, <1>11, <1>13, <1>14 DEF Works
<1>16. \A q \in Sessions \ {s}, x \in Runs : Builds(q, x) => ~Builds(s, x)'
  BY <1>11, <1>14
<1>17. \A q \in Sessions, x \in Runs : job[q].at = "issuing" /\ job[q].run = x =>
         run[x] \notin {"none", "building"}
  BY <1>12 DEF Works
<1>18. FinishedRunsHoldNoDrafts'
  BY <1>1 DEF SessionsSound, FinishedRunsHoldNoDrafts, DraftsOf
<1>19. run' \in [Runs -> {"none", "building", "in_review", "issued", "abandoned"}]
  BY <1>1 DEF SessionsTyped
<1> QED BY <1>3, <1>4, <1>7, <1>8, <1>10, <1>15, <1>16, <1>17, <1>18, <1>19, QuietStep

LEMMA DraftsBegin ==
  ASSUME Discipline, NEW s \in Sessions,
         (\E m \in Matters : BeginDraft(s, m)) \/ BeginRunDraft(s)
  PROVE  Discipline'
<1>1. SessionsTyped
  BY Parts DEF SessionsSound
<1>2. ASSUME NEW m \in Matters, BeginDraft(s, m) PROVE Discipline'
  <2>1. PICK its \in SUBSET Items : 
          /\ LockFree(m) /\ \A i \in its : MatterOf[i] = m /\ IsUnbilled(i)
          /\ lock' = [lock EXCEPT ![m] = s]
          /\ job' = [job EXCEPT ![s] = [at |-> "loaded", matter |-> m, run |-> None, todo |-> {},
                                        read |-> [i \in its |-> item[i].val]]]
    BY <1>2 DEF BeginDraft
  <2>2. UNCHANGED <<item, group, run, taxRule, approval>>
    BY <1>2 DEF BeginDraft
  <2>3. /\ None \in Runs \cup {None} /\ {} \in SUBSET Matters
        /\ None \in Runs => Builds(s, None)
    BY NoneAssumption
  <2> QED BY <2>1, <2>2, <2>3, LoadKeeps
<1>3. CASE BeginRunDraft(s)
  <2>1. /\ job[s].at = "listed" /\ job[s].run \in Runs /\ job[s].todo \in SUBSET Matters
        /\ job[s].matter \in Matters /\ job[s].its \in SUBSET Items
    BY <1>1, <1>3, JobTypes DEF BeginRunDraft
  <2>2. Builds(s, job[s].run)
    BY <2>1 DEF Builds
  <2>3. /\ LockFree(job[s].matter)
        /\ \A i \in job[s].its : MatterOf[i] = job[s].matter /\ IsUnbilled(i)
        /\ lock' = [lock EXCEPT ![job[s].matter] = s]
        /\ job' = [job EXCEPT ![s] =
             [at |-> "loaded", matter |-> job[s].matter, run |-> job[s].run, todo |-> job[s].todo,
              read |-> [i \in job[s].its |-> item[i].val]]]
        /\ UNCHANGED <<item, group, run, taxRule, approval>>
    BY <1>3 DEF BeginRunDraft, LoadUnbilledItems
  <2> QED BY <2>1, <2>2, <2>3, LoadKeeps
<1> QED BY <1>2, <1>3

\* A run is opened, lists a matter, passes over it, goes into review or is issued.
LEMMA RunStepsKeep ==
  ASSUME Discipline, NEW s \in Sessions,
         \/ \E r \in Runs : CreateBillingRun(s, r) \/ IssueBillingRun(s, r)
         \/ \E m \in Matters : ListUnbilled(s, m)
         \/ ExcludeMatter(s) \/ RunIntoReview(s) \/ RunIssued(s)
  PROVE  Discipline'
<1>1. RowsSound /\ SessionsSound /\ SessionsTyped
  BY Parts DEF SessionsSound
<1>2. /\ job \in [Sessions -> Job] /\ lock \in [Matters -> Sessions \cup {None}]
      /\ run \in [Runs -> {"none", "building", "in_review", "issued", "abandoned"}]
  BY <1>1 DEF SessionsTyped
<1>3. /\ \A q \in Sessions : Works(q)
      /\ FinishedRunsHoldNoDrafts
  BY <1>1 DEF SessionsSound
<1>4. \A q \in Sessions, x \in Runs :
        /\ Builds(q, x) => run[x] = "building" /\ \A p \in Sessions : Builds(p, x) => p = q
        /\ job[q].at = "issuing" /\ job[q].run = x =>
             run[x] \notin {"none", "building"} /\ DraftsOf(x) \subseteq job[q].todo
  BY <1>3 DEF Works
<1>5. ASSUME NEW r \in Runs, CreateBillingRun(s, r) PROVE Discipline'
  <2>1. PICK ms \in SUBSET Matters :
          job' = [job EXCEPT ![s] = [at |-> "building", run |-> r, todo |-> {m \in ms : HasUnbilled(m)}]]
    BY <1>5 DEF CreateBillingRun
  <2> DEFINE left == {m \in ms : HasUnbilled(m)}
             j == [at |-> "building", run |-> r, todo |-> left]
  <2>2. left \in SUBSET Matters
    OBVIOUS
  <2> HIDE DEF left
  <2>3. j \in Job /\ job' = [job EXCEPT ![s] = j]
    BY <2>1, <2>2 DEF Job, left
  <2>4. run[r] = "none" /\ run' = [run EXCEPT ![r] = "building"] /\ UNCHANGED <<item, group, taxRule, approval, lock>>
    BY <1>5 DEF CreateBillingRun
  <2>5. /\ job'[s].at = "building" /\ job'[s].run = r
        /\ \A q \in Sessions \ {s} : job'[q] = job[q]
    BY <1>2, <2>3
  <2>6. /\ run'[r] = "building" /\ \A x \in Runs \ {r} : run'[x] = run[x]
        /\ run' \in [Runs -> {"none", "building", "in_review", "issued", "abandoned"}]
    BY <1>2, <2>4
  <2>7. \A q \in Sessions : ~Builds(q, r) /\ ~(job[q].at = "issuing" /\ job[q].run = r)
    BY <1>4, <2>4
  <2>8. \A q \in Sessions \ {s}, x \in Runs :
           /\ Builds(q, x) => run'[x] = run[x] /\ ~Builds(s, x)'
           /\ job[q].at = "issuing" /\ job[q].run = x => run'[x] \notin {"none", "building"}
    BY <1>4, <2>5, <2>6, <2>7 DEF Builds
  <2>9. Loaded(s)'
    BY <2>5 DEF Loaded
  <2>10. Works(s)'
    BY <2>5, <2>6, <2>7 DEF Works, Builds
  <2>11. FinishedRunsHoldNoDrafts'
    BY <1>3, <2>4, <2>6 DEF FinishedRunsHoldNoDrafts, DraftsOf
  <2> QED BY <1>2, <2>3, <2>4, <2>6, <2>8, <2>9, <2>10, <2>11, QuietStep
<1>6. ASSUME NEW j \in Job, job' = [job EXCEPT ![s] = j], j.at \in {"idle", "building", "listed"},
             \A r \in Runs : j.at # "idle" /\ j.run = r => Builds(s, r),
             UNCHANGED <<item, group, run, taxRule, approval, lock>>
      PROVE  Discipline'
  <2>1. job'[s] = j /\ \A q \in Sessions \ {s} : job'[q] = job[q]
    BY <1>2, <1>6
  <2>2. \A r \in Runs : Builds(s, r)' => Builds(s, r)
    BY <1>6, <2>1 DEF Builds
  <2>3. Loaded(s)'
    BY <1>6, <2>1 DEF Loaded
  <2>4. \A q \in Sessions, r \in Runs : Builds(q, r)' => Builds(q, r)
    BY <2>1, <2>2 DEF Builds
  <2>5. Works(s)'
    BY <1>4, <1>6, <2>1, <2>2, <2>4 DEF Works
  <2>6. FinishedRunsHoldNoDrafts'
    BY <1>3, <1>6 DEF FinishedRunsHoldNoDrafts, DraftsOf
  <2>7. \A q \in Sessions \ {s}, x \in Runs :
           /\ Builds(q, x) => run'[x] = run[x] /\ ~Builds(s, x)'
           /\ job[q].at = "issuing" /\ job[q].run = x => run'[x] \notin {"none", "building"}
    BY <1>4, <1>6, <2>2
  <2> QED BY <1>2, <1>6, <2>3, <2>5, <2>6, <2>7, QuietStep
<1>7. ASSUME NEW m \in Matters, ListUnbilled(s, m) PROVE Discipline'
  <2> DEFINE its == {i \in Items : MatterOf[i] = m /\ IsUnbilled(i)}
             j == [at |-> "listed", run |-> job[s].run, todo |-> job[s].todo \ {m}, matter |-> m,
                   its |-> its]
  <2>1. job[s].at = "building" /\ job[s].run \in Runs /\ job[s].todo \in SUBSET Matters
    BY <1>1, <1>7, JobTypes DEF ListUnbilled
  <2>2. its \in SUBSET Items
    OBVIOUS
  <2>3. job' = [job EXCEPT ![s] = j] /\ UNCHANGED <<item, group, run, taxRule, approval, lock>>
    BY <1>2, <1>7 DEF ListUnbilled
  <2> HIDE DEF its
  <2>4. j \in Job
    BY <2>1, <2>2 DEF Job
  <2>5. Builds(s, job[s].run)
    BY <2>1 DEF Builds
  <2> QED BY <1>6, <2>3, <2>4, <2>5
<1>8. CASE ExcludeMatter(s)
  <2>1. /\ job[s].at = "listed" /\ job[s].run \in Runs /\ job[s].todo \in SUBSET Matters
    BY <1>1, <1>8, JobTypes DEF ExcludeMatter
  <2>2. /\ NextMatter(job[s]) \in Job /\ NextMatter(job[s]).at \in {"idle", "building"}
        /\ NextMatter(job[s]).at = "building" => NextMatter(job[s]).run = job[s].run
    BY <2>1, NextMatterType
  <2>3. Builds(s, job[s].run)
    BY <2>1 DEF Builds
  <2>4. /\ job' = [job EXCEPT ![s] = NextMatter(job[s])]
        /\ UNCHANGED <<item, group, run, taxRule, approval, lock>>
    BY <1>8 DEF ExcludeMatter
  <2> QED BY <1>6, <2>2, <2>3, <2>4
<1>9. ASSUME NEW r \in Runs, IssueBillingRun(s, r) PROVE Discipline'
  <2> DEFINE j == [at |-> "issuing", run |-> r, todo |-> DraftsOf(r)]
  <2>1. /\ run[r] = "in_review" /\ job' = [job EXCEPT ![s] = j]
        /\ UNCHANGED <<item, group, run, taxRule, approval, lock>>
    BY <1>9 DEF IssueBillingRun
  <2>2. DraftsOf(r) \in SUBSET Groups /\ DraftsOf(r)' = DraftsOf(r)
    BY <2>1 DEF DraftsOf
  <2>3. j \in Job
    BY <2>2 DEF Job
  <2>4. /\ job'[s].at = "issuing" /\ job'[s].run = r /\ job'[s].todo = DraftsOf(r)
    BY <1>2, <2>1
  <2>5. Loaded(s)' /\ Works(s)' /\ \A x \in Runs : ~Builds(s, x)'
    BY <2>1, <2>2, <2>4 DEF Loaded, Works, Builds
  <2>6. FinishedRunsHoldNoDrafts'
    BY <1>3, <2>1 DEF FinishedRunsHoldNoDrafts, DraftsOf
  <2> HIDE DEF j
  <2> QED BY <1>2, <1>4, <2>1, <2>3, <2>5, <2>6, QuietStep
<1>10. CASE RunIntoReview(s) \/ RunIssued(s)
  <2> DEFINE r == job[s].run
  <2>1. job[s].at \in {"building", "issuing"} /\ r \in Runs /\ job[s].todo = {}
    BY <1>1, <1>10, JobTypes DEF RunIntoReview, RunIssued
  <2>2. /\ job' = [job EXCEPT ![s] = Idle] /\ UNCHANGED <<item, group, taxRule, approval, lock>>
        /\ Idle \in Job
    BY <1>10 DEF RunIntoReview, RunIssued, Job
  <2>3. \/ job[s].at = "building" /\ run' = [run EXCEPT ![r] = "in_review"]
        \/ run' = run
        \/ job[s].at = "issuing" /\ run[r] = "in_review" /\ run' = [run EXCEPT ![r] = "issued"]
    BY <1>10 DEF RunIntoReview, RunIssued
  <2>4. job'[s] = Idle
    BY <1>2, <2>2
  <2>5. Loaded(s)' /\ Works(s)' /\ \A x \in Runs : ~Builds(s, x)'
    BY <2>4 DEF Loaded, Works, Builds, Idle
  <2>6. job[s].at = "building" => \A q \in Sessions \ {s} : ~Builds(q, r)
    BY <1>4, <2>1 DEF Builds
  <2>7. job[s].at = "issuing" => DraftsOf(r) = {}
    BY <1>4, <2>1
  <2> HIDE DEF r
  <2>8. /\ run' \in [Runs -> {"none", "building", "in_review", "issued", "abandoned"}]
        /\ \A x \in Runs \ {r} : run'[x] = run[x]
        /\ \/ job[s].at = "building" /\ run'[r] = "in_review"
           \/ run'[r] = run[r]
           \/ job[s].at = "issuing" /\ run[r] = "in_review" /\ run'[r] = "issued"
    BY <1>2, <2>1, <2>3
  <2>9. \A q \in Sessions \ {s}, x \in Runs :
           /\ Builds(q, x) => run'[x] = run[x] /\ ~Builds(s, x)'
           /\ job[q].at = "issuing" /\ job[q].run = x => run'[x] \notin {"none", "building"}
    <3>1. ASSUME NEW q \in Sessions \ {s}, NEW x \in Runs, Builds(q, x)
          PROVE  run'[x] = run[x]
      <4>1. run[x] = "building"
        BY <1>4, <3>1
      <4> QED BY <2>6, <2>8, <3>1, <4>1
    <3>2. ASSUME NEW q \in Sessions \ {s}, NEW x \in Runs, job[q].at = "issuing", job[q].run = x
          PROVE  run'[x] \notin {"none", "building"}
      <4>1. run[x] \notin {"none", "building"}
        BY <1>4, <3>2
      <4> QED BY <2>8, <4>1
    <3> QED BY <2>5, <3>1, <3>2
  <2>10. FinishedRunsHoldNoDrafts'
    <3>1. \A x \in Runs : DraftsOf(x)' = DraftsOf(x)
      BY <2>2 DEF DraftsOf
    <3>2. ASSUME NEW x \in Runs, run'[x] \in {"issued", "abandoned"} PROVE DraftsOf(x) = {}
      BY <1>3, <2>7, <2>8, <3>2 DEF FinishedRunsHoldNoDrafts
    <3> QED BY <3>1, <3>2 DEF FinishedRunsHoldNoDrafts
  <2> QED BY <1>2, <2>2, <2>5, <2>8, <2>9, <2>10, QuietStep
<1> QED BY <1>5, <1>7, <1>8, <1>9, <1>10

\* The rule moves, the setting changes.
LEMMA SurroundingsKeep ==
  ASSUME Discipline, TaxRuleMoves \/ SetApproval
  PROVE  Discipline'
<1>1. RowsSound /\ SessionsSound /\ OneRulePerBill
  BY Parts
<1>2. UNCHANGED <<item, group, run, lock, job>>
  BY DEF TaxRuleMoves, SetApproval
<1>3. taxRule \in Nat /\ taxRule' \in Nat /\ taxRule <= taxRule' /\ approval' \in BOOLEAN
  <2>1. taxRule \in Nat /\ approval \in BOOLEAN
    BY <1>1 DEF SessionsSound, SessionsTyped
  <2>2. CASE TaxRuleMoves
    BY <2>1, <2>2 DEF TaxRuleMoves
  <2>3. CASE SetApproval
    <3>1. (~approval) \in BOOLEAN
      OBVIOUS
    <3>2. approval' = (~approval) /\ taxRule' = taxRule
      BY <2>3 DEF SetApproval
    <3>3. approval' \in BOOLEAN
      BY <3>1, <3>2, Zenon
    <3> QED BY <2>1, <3>2, <3>3
  <2> QED BY <2>2, <2>3
<1>4. RowsSound'
  BY <1>1, <1>2 DEF RowsSound, RowsTyped, BilledOnce, TotalFollowsLines, PointerSound, StandsOn
<1>5. SessionsSound'
  BY <1>1, <1>2, <1>3 DEF SessionsSound, SessionsTyped, Loaded, Works, Builds, DraftsOf,
                          FinishedRunsHoldNoDrafts
<1>6. OneRulePerBill'
  BY <1>1, <1>2, <1>3, RulesKept
<1> QED BY <1>4, <1>5, <1>6, PartsNext

-----------------------------------------------------------------------------
(* The theorems. *)

LEMMA InitHolds == Init => Discipline
<1> SUFFICES ASSUME Init PROVE Discipline
  OBVIOUS
<1>1. /\ \A i \in Items : item[i] = [st |-> "unbilled", deleted |-> FALSE, val |-> 1, group |-> None]
      /\ item = [i \in Items |-> item[i]]
      /\ \A g \in Groups : group[g] = NoGroup
      /\ group = [g \in Groups |-> group[g]]
  BY DEF Init
<1>2. /\ run = [r \in Runs |-> "none"] /\ taxRule = 0 /\ approval \in BOOLEAN
      /\ lock = [m \in Matters |-> None] /\ job = [s \in Sessions |-> Idle]
  BY DEF Init
<1>3. /\ DOMAIN NoLines = {} /\ NoLines \in [{} -> LineRow] /\ NoGroup \in GroupRow({})
      /\ NoGroup.lines = NoLines /\ NoGroup.st = "none"
  BY DEF NoLines, NoGroup, GroupRow
<1>4. [st |-> "unbilled", deleted |-> FALSE, val |-> 1, group |-> None] \in ItemRow
  BY BoundAssumption DEF ItemRow
<1>5. TypeOK
  <2>1. item \in [Items -> ItemRow]
    BY <1>1, <1>4
  <2>2. \A g \in Groups : /\ DOMAIN group[g].lines \subseteq Sources
                          /\ group[g] \in GroupRow(DOMAIN group[g].lines)
    BY <1>1, <1>3
  <2>3. job \in [Sessions -> Job]
    BY <1>2 DEF Job
  <2> QED BY <1>1, <1>2, <2>1, <2>2, <2>3 DEF TypeOK
<1>6. ASSUME NEW i \in Items PROVE PointerSound(i)
  BY <1>1, <1>3 DEF PointerSound
<1>7. ASSUME NEW s \in Sessions PROVE Loaded(s) /\ Works(s)
  BY <1>2 DEF Loaded, Works, Builds, Idle
<1>8. BilledOnce /\ TotalFollowsLines /\ OneRulePerBill /\ FinishedRunsHoldNoDrafts
  BY <1>1, <1>2, <1>3 DEF BilledOnce, TotalFollowsLines, OneRulePerBill, FinishedRunsHoldNoDrafts
<1> QED BY <1>5, <1>6, <1>7, <1>8 DEF Discipline, BilledRight

LEMMA NextKeeps == Discipline /\ [Next]_vars => Discipline'
<1> SUFFICES ASSUME Discipline, [Next]_vars PROVE Discipline'
  OBVIOUS
<1>1. CASE UNCHANGED vars
  <2>1. RowsSound /\ SessionsSound /\ OneRulePerBill
    BY Parts
  <2>2. RowsSound'
    BY <1>1, <2>1 DEF vars, RowsSound, RowsTyped, BilledOnce, TotalFollowsLines, PointerSound,
                      StandsOn
  <2>3. SessionsSound'
    BY <1>1, <2>1 DEF vars, SessionsSound, SessionsTyped, Loaded, Works, Builds, DraftsOf,
                      FinishedRunsHoldNoDrafts
  <2>4. OneRulePerBill'
    BY <1>1, <2>1 DEF vars, OneRulePerBill
  <2> QED BY <2>2, <2>3, <2>4, PartsNext
<1>2. ASSUME NEW s \in Sessions, NEW g \in Groups, CreateDraftBillGroup(s, g) PROVE Discipline'
  <2>1. RowsSound /\ SessionsSound /\ OneRulePerBill
    BY Parts
  <2>2. RowsSound' /\ SessionsSound'
    BY <1>2, <2>1, CreateKeepsRows, CreateKeepsSessions
  <2>3. /\ group'[g].st = "draft" /\ \A h \in Groups \ {g} : group'[h] = group[h]
        /\ taxRule' = taxRule /\ taxRule \in Nat
    BY <1>2, <2>1, CreatedRow DEF CreateDraftBillGroup, SessionsSound, SessionsTyped
  <2>4. OneRulePerBill'
    BY <2>1, <2>3, RulesKept
  <2> QED BY <2>2, <2>4, PartsNext
<1>3. ASSUME NEW s \in Sessions, NEW g \in Groups, IssueStops(s, g) PROVE Discipline'
  BY <1>3, EndsKeep DEF IssueStops
<1>4. ASSUME NEW s \in Sessions, Crash(s) PROVE Discipline'
  BY <1>4, EndsKeep DEF Crash
<1>5. CASE Requests
  BY <1>5, ItemsKeep, DraftsBegin, RunStepsKeep, EditsKeep, AbandonKeeps, IssueKeeps,
     AbandonRunKeeps, SurroundingsKeep DEF Requests
<1>6. ASSUME NEW s \in Sessions, Continues(s) PROVE Discipline'
  BY <1>2, <1>3, <1>6, IssueKeeps, DraftsBegin, RunStepsKeep DEF Continues
<1> QED BY <1>1, <1>4, <1>5, <1>6 DEF Next

\* Whoever drafts, edits, issues or abandons at the same time, by hand or in runs, and
\* wherever a process stops (billing/drafting.ts, issue.ts, runs.ts): the rows point at
\* one another as the lines stand, and every session still holds what it read.
THEOREM DraftsAreHeld == Spec => []Discipline
<1> QED BY InitHolds, NextKeeps, PTL DEF Spec

\* An item stands on the lines of one group, a group's total is the sum over its lines, an
\* issued group is taxed under one rule, and a run that ended holds no drafts.
THEOREM WorkBilledOnce == Spec => []BilledRight
<1>1. Discipline => BilledRight
  BY DEF Discipline, BilledRight
<1> QED BY <1>1, DraftsAreHeld, PTL

-----------------------------------------------------------------------------
(* Document numbers: counters, their replacements, and what is drawn. *)

\* A number is of the counter that its format's mode and reset give its date.
LEMMA PartitionFits ==
  ASSUME SerialParameters, NEW fm \in Format, NEW date \in Days
  PROVE  /\ Partition(fm, date) \in Partitions
         /\ fm.mode = "sequence" => Partition(fm, date) = Stream
         /\ fm.mode = "gapless" => /\ Partition(fm, date) # Stream
                                   /\ Partition(fm, date) = IF fm.reset = "daily" THEN date ELSE All
<1>1. fm.mode \in {"gapless", "sequence"} /\ fm.reset \in {"never", "daily"}
  BY DEF Format, AllocationModes, Resets
<1>2. date \in Int /\ date # Stream /\ All # Stream
  BY DEF SerialParameters, All, Stream
<1>3. CASE fm.mode = "sequence"
  BY <1>3 DEF Partition, Partitions
<1>4. CASE fm.mode = "gapless" /\ fm.reset = "daily"
  BY <1>2, <1>4 DEF Partition, Partitions
<1>5. CASE fm.mode = "gapless" /\ fm.reset = "never"
  BY <1>2, <1>5 DEF Partition, Partitions
<1> QED BY <1>1, <1>3, <1>4, <1>5

\* What the types say of formats, counters and numbers.
LEMMA SerialTypes ==
  ASSUME SerialParameters, SerialTypeOK
  PROVE  /\ Active \in Nat /\ Active \in 1..MaxFormats /\ DOMAIN formats = 1..Active
         /\ \A f \in 1..Active : formats[f] \in Format
         /\ DOMAIN counters = 1..Active /\ counters = [f \in 1..Active |-> counters[f]]
         /\ \A f \in 1..Active : RowsOK(counters[f])
         /\ \A f \in 1..Active : \A p \in DOMAIN counters[f] : counters[f][p] \in Counter
         /\ issued \in SUBSET Number /\ IsFiniteSet(issued)
         /\ \A c \in Callers : call[c].at = "drawn" => call[c].num \in Number
         /\ Spent \in SUBSET Number
<1>1. formats \in Seq(Format) /\ Active \in 1..MaxFormats /\ MaxFormats \in Nat
  BY DEF SerialTypeOK, SerialParameters
<1>2. Active \in Nat /\ DOMAIN formats = 1..Active /\ \A f \in 1..Active : formats[f] \in Format
  BY <1>1 DEF Active
<1>3. counters = [f \in 1..Active |-> counters[f]] /\ \A f \in 1..Active : RowsOK(counters[f])
  BY DEF SerialTypeOK
<1>4. DOMAIN counters = 1..Active
  <2> DEFINE g == [f \in 1..Active |-> counters[f]]
  <2>1. DOMAIN g = 1..Active
    OBVIOUS
  <2>2. counters = g
    BY <1>3
  <2> QED BY <2>1, <2>2
<1>5. \A f \in 1..Active : \A p \in DOMAIN counters[f] : counters[f][p] \in Counter
  BY <1>3 DEF RowsOK
<1>6. issued \in SUBSET Number /\ IsFiniteSet(issued)
  BY DEF SerialTypeOK
<1>7. ASSUME NEW c \in Callers, call[c].at = "drawn"
      PROVE  call[c].num \in Number
  <2>1. call[c] = AtRest \/ call[c] \in [at : {"read"}, fmt : 1..Active, date : Days]
        \/ call[c] \in [at : {"drawn"}, num : Number, new : BOOLEAN]
    BY DEF SerialTypeOK
  <2> QED BY <1>7, <2>1 DEF AtRest
<1>8. Spent \in SUBSET Number
  BY <1>6, <1>7 DEF Spent
<1> QED BY <1>1, <1>2, <1>3, <1>4, <1>5, <1>6, <1>7, <1>8

\* The highest next of some counters is above all of theirs.
LEMMA HighestIsAbove ==
  ASSUME NEW rows, RowsOK(rows), IsFiniteSet(DOMAIN rows), \A p \in DOMAIN rows : 1 <= rows[p].next
  PROVE  /\ HighestNext(rows) \in Nat /\ 1 <= HighestNext(rows)
         /\ \A p \in DOMAIN rows : rows[p].next <= HighestNext(rows)
<1>1. CASE DOMAIN rows = {}
  BY <1>1 DEF HighestNext
<1>2. CASE DOMAIN rows # {}
  <2> DEFINE T == {rows[p].next : p \in DOMAIN rows}
  <2>1. \A p \in DOMAIN rows : rows[p].next \in Nat
    BY DEF RowsOK, Counter
  <2>2. T \in SUBSET Nat /\ T # {}
    BY <1>2, <2>1
  <2>3. IsFiniteSet(T)
    <3> DEFINE g == [p \in DOMAIN rows |-> rows[p].next]
    <3>1. g \in Surjection(DOMAIN rows, T)
      BY DEF Surjection
    <3> QED BY <3>1, FS_Surjection
  <2>4. \E n \in T : \A m \in T : m <= n
    BY <2>2, <2>3, LargestNatural
  <2>5. \E n \in T : \A p \in DOMAIN rows : n >= rows[p].next
    BY <2>1, <2>2, <2>4
  <2>6. HighestNext(rows) = CHOOSE n \in T : \A p \in DOMAIN rows : n >= rows[p].next
    BY <1>2 DEF HighestNext
  <2> HIDE DEF T
  <2>7. HighestNext(rows) \in T /\ \A p \in DOMAIN rows : HighestNext(rows) >= rows[p].next
    BY <2>5, <2>6
  <2>8. PICK p \in DOMAIN rows : TRUE
    BY <1>2
  <2>9. HighestNext(rows) \in Nat
    BY <2>2, <2>7
  <2>10. \A q \in DOMAIN rows : rows[q].next <= HighestNext(rows)
    BY <2>1, <2>7, <2>9
  <2>11. 1 <= rows[p].next /\ rows[p].next \in Nat /\ rows[p].next <= HighestNext(rows)
    BY <2>1, <2>8, <2>10
  <2> QED BY <2>9, <2>10, <2>11
<1> QED BY <1>1, <1>2

\* The parts of the discipline that speak of the rows of one format.
LEMMA RowsAreFit ==
  ASSUME SerialParameters, SerialDiscipline
  PROVE  /\ \A f \in 1..Active :
              /\ Accepted(formats[f]) /\ IsFiniteSet(DOMAIN counters[f])
              /\ formats[f].mode = "sequence" => DOMAIN counters[f] = {Stream}
              /\ formats[f].mode = "gapless" =>
                   DOMAIN counters[f] \subseteq IF formats[f].reset = "daily" THEN Days ELSE {All}
              /\ \A p \in DOMAIN counters[f] :
                   1 <= counters[f][p].from /\ counters[f][p].from <= counters[f][p].next
         /\ \A f \in Nat : \A p : /\ CounterOf(f, p) = IF p \in DOMAIN counters[f] THEN counters[f][p]
                                                      ELSE [from |-> 1, next |-> 1, restarted |-> f > 1]
         /\ \A f \in 1..Active : \A p : CounterOf(f, p) \in Counter /\ 1 <= CounterOf(f, p).from
                                        /\ CounterOf(f, p).from <= CounterOf(f, p).next
<1>1. \A f \in 1..Active : RowsFit(formats[f], counters[f])
  BY DEF SerialDiscipline
<1>2. \A f \in Nat : \A p : CounterOf(f, p) = IF p \in DOMAIN counters[f] THEN counters[f][p]
                                              ELSE [from |-> 1, next |-> 1, restarted |-> f > 1]
  BY DEF CounterOf, Fresh
<1>3. \A f \in 1..Active :
        /\ Accepted(formats[f]) /\ IsFiniteSet(DOMAIN counters[f])
        /\ formats[f].mode = "sequence" => DOMAIN counters[f] = {Stream}
        /\ formats[f].mode = "gapless" =>
             DOMAIN counters[f] \subseteq IF formats[f].reset = "daily" THEN Days ELSE {All}
        /\ \A p \in DOMAIN counters[f] :
             1 <= counters[f][p].from /\ counters[f][p].from <= counters[f][p].next
  BY <1>1 DEF RowsFit
<1>4. ASSUME NEW f \in 1..Active, NEW p
      PROVE  CounterOf(f, p) \in Counter /\ 1 <= CounterOf(f, p).from
             /\ CounterOf(f, p).from <= CounterOf(f, p).next
  <2>1. Active \in Nat /\ \A q \in DOMAIN counters[f] : counters[f][q] \in Counter
    BY SerialTypes DEF SerialDiscipline
  <2>2. f \in Nat
    BY <2>1
  <2>3. CASE p \in DOMAIN counters[f]
    BY <1>2, <1>3, <2>1, <2>2, <2>3
  <2>4. CASE p \notin DOMAIN counters[f]
    <3>1. CounterOf(f, p) = [from |-> 1, next |-> 1, restarted |-> f > 1]
      BY <1>2, <2>2, <2>4
    <3> QED BY <3>1 DEF Counter
  <2> QED BY <2>3, <2>4
<1> QED BY <1>2, <1>3, <1>4

\* A counter moves on, made if it was not there; the others stay.
LEMMA RowMoves ==
  ASSUME SerialParameters, SerialDiscipline, NEW f \in 1..Active, NEW date \in Days,
         NEW p, p = Partition(formats[f], date), formats' = formats,
         NEW rows \in [DOMAIN counters[f] \cup {p} -> Counter],
         rows[p].from = CounterOf(f, p).from, CounterOf(f, p).next <= rows[p].next,
         \A q \in DOMAIN counters[f] : q # p => rows[q] = counters[f][q],
         \A g \in 1..Active : g # f => counters'[g] = counters[g], counters'[f] = rows
  PROVE  \A g \in 1..Active : RowsOK(counters'[g]) /\ RowsFit(formats[g], counters'[g])
<1>1. SerialTypeOK
  BY DEF SerialDiscipline
<1>2. /\ Active \in Nat /\ \A g \in 1..Active : formats[g] \in Format
      /\ DOMAIN counters = 1..Active /\ counters = [g \in 1..Active |-> counters[g]]
      /\ \A g \in 1..Active : RowsOK(counters[g])
  BY <1>1, SerialTypes
<1>7. /\ p \in Partitions /\ Accepted(formats[f]) /\ IsFiniteSet(DOMAIN rows)
      /\ formats[f].mode = "sequence" => DOMAIN rows = {Stream}
      /\ formats[f].mode = "gapless" => DOMAIN rows \subseteq IF formats[f].reset = "daily" THEN Days ELSE {All}
  <2>1. /\ Accepted(formats[f]) /\ IsFiniteSet(DOMAIN counters[f])
        /\ formats[f].mode = "sequence" => DOMAIN counters[f] = {Stream}
        /\ formats[f].mode = "gapless" =>
             DOMAIN counters[f] \subseteq IF formats[f].reset = "daily" THEN Days ELSE {All}
    BY RowsAreFit
  <2>2. /\ p \in Partitions /\ (formats[f].mode = "sequence" => p = Stream)
        /\ (formats[f].mode = "gapless" => p = IF formats[f].reset = "daily" THEN date ELSE All)
    BY <1>2, PartitionFits
  <2>3. IsFiniteSet(DOMAIN rows)
    BY <2>1, FS_AddElement
  <2>4. formats[f].mode = "gapless" => p \in IF formats[f].reset = "daily" THEN Days ELSE {All}
    BY <2>2
  <2> QED BY <2>1, <2>2, <2>3, <2>4
<1>8. \A q \in DOMAIN rows : rows[q] \in Counter /\ 1 <= rows[q].from /\ rows[q].from <= rows[q].next
  <2>1. \A q \in DOMAIN counters[f] : counters[f][q] \in Counter /\ 1 <= counters[f][q].from
                                      /\ counters[f][q].from <= counters[f][q].next
    BY <1>1, RowsAreFit, SerialTypes
  <2>2. CounterOf(f, p) \in Counter /\ 1 <= CounterOf(f, p).from /\ CounterOf(f, p).from <= CounterOf(f, p).next
    BY RowsAreFit
  <2>3. rows[p] \in Counter /\ 1 <= rows[p].from /\ rows[p].from <= rows[p].next
    BY <2>2 DEF Counter
  <2> QED BY <2>1, <2>3
<1>9. RowsOK(rows) /\ RowsFit(formats[f], rows)
  <2>1. rows \in [DOMAIN rows -> Counter] /\ DOMAIN rows \subseteq Partitions
    BY <1>2, <1>7 DEF RowsOK
  <2> QED BY <1>7, <1>8, <2>1 DEF RowsOK, RowsFit
<1>10. \A g \in 1..Active : RowsFit(formats[g], counters[g])
  BY DEF SerialDiscipline
<1> QED BY <1>2, <1>9, <1>10

\* What a counter that moves on keeps: where it began, and whether it started again.
LEMMA RowsGrow ==
  ASSUME SerialParameters, SerialDiscipline, NEW f \in 1..Active, NEW p,
         NEW rows \in [DOMAIN counters[f] \cup {p} -> Counter],
         rows[p].from = CounterOf(f, p).from, CounterOf(f, p).next <= rows[p].next,
         rows[p].restarted = CounterOf(f, p).restarted,
         \A q \in DOMAIN counters[f] : q # p => rows[q] = counters[f][q],
         \A g \in 1..Active : g # f => counters'[g] = counters[g], counters'[f] = rows
  PROVE  /\ \A g \in 1..Active :
              /\ DOMAIN counters[g] \subseteq DOMAIN counters'[g]
              /\ \A q \in DOMAIN counters[g] :
                   /\ counters'[g][q].from = counters[g][q].from
                   /\ counters'[g][q].restarted = counters[g][q].restarted
                   /\ counters[g][q].next <= counters'[g][q].next
                   /\ g # f \/ q # p => counters'[g][q] = counters[g][q]
              /\ \A q \in DOMAIN counters'[g] \ DOMAIN counters[g] :
                   g = f /\ q = p /\ counters'[g][q].restarted = (g > 1)
         /\ \A g \in 1..Active : \A q : g # f \/ q # p => CounterOf(g, q)' = CounterOf(g, q)
         /\ CounterOf(f, p)' = rows[p]
<1>1. Active \in Nat /\ \A g \in 1..Active : \A q \in DOMAIN counters[g] : counters[g][q] \in Counter
  BY SerialTypes DEF SerialDiscipline
<1>2. CounterOf(f, p) \in Counter /\ f \in Nat
      /\ CounterOf(f, p) = IF p \in DOMAIN counters[f] THEN counters[f][p]
                           ELSE [from |-> 1, next |-> 1, restarted |-> f > 1]
  BY <1>1, RowsAreFit
<1>3. \A g \in 1..Active : \A q \in DOMAIN counters[g] : counters[g][q].next <= counters[g][q].next
  BY <1>1 DEF Counter
<1>4. ASSUME NEW g \in 1..Active
      PROVE  /\ DOMAIN counters[g] \subseteq DOMAIN counters'[g]
             /\ \A q \in DOMAIN counters[g] :
                  /\ counters'[g][q].from = counters[g][q].from
                  /\ counters'[g][q].restarted = counters[g][q].restarted
                  /\ counters[g][q].next <= counters'[g][q].next
                  /\ g # f \/ q # p => counters'[g][q] = counters[g][q]
             /\ \A q \in DOMAIN counters'[g] \ DOMAIN counters[g] :
                  g = f /\ q = p /\ counters'[g][q].restarted = (g > 1)
  <2>1. CASE g # f
    BY <1>3, <2>1
  <2>2. CASE g = f
    <3>1. p \in DOMAIN counters[f] => CounterOf(f, p) = counters[f][p]
      BY <1>2
    <3>2. p \notin DOMAIN counters[f] => rows[p].restarted = (f > 1)
      BY <1>2
    <3> QED BY <1>3, <2>2, <3>1, <3>2
  <2> QED BY <2>1, <2>2
<1>5. ASSUME NEW g \in 1..Active, NEW q, g # f \/ q # p
      PROVE  CounterOf(g, q)' = CounterOf(g, q)
  <2>1. /\ q \in DOMAIN counters'[g] <=> q \in DOMAIN counters[g]
        /\ q \in DOMAIN counters[g] => counters'[g][q] = counters[g][q]
    BY <1>5
  <2> QED BY <2>1 DEF CounterOf
<1>6. CounterOf(f, p)' = rows[p]
  BY DEF CounterOf
<1> QED BY <1>4, <1>5, <1>6

\* While counters grow, what was drawn in time stays below what later formats began with.
LEMMA SeedsStand ==
  ASSUME SerialParameters, SerialDiscipline, formats' = formats, change' = change,
         \A g \in 1..Active :
           /\ DOMAIN counters[g] \subseteq DOMAIN counters'[g]
           /\ \A q \in DOMAIN counters[g] :
                /\ counters'[g][q].from = counters[g][q].from
                /\ counters'[g][q].restarted = counters[g][q].restarted
                /\ counters[g][q].next <= counters'[g][q].next
           /\ \A q \in DOMAIN counters'[g] \ DOMAIN counters[g] : counters'[g][q].restarted = (g > 1),
         \A g \in 1..Active : \A q \in DOMAIN counters'[g] : counters'[g][q].next \in Nat,
         \A i \in Spent' : i \in Spent \/ (i.fmt \in 1..Active /\ (i.late \/ (i.fmt = Active /\ change = AtRest)))
  PROVE  Seeded'
<1>1. /\ Active \in Nat /\ Active' = Active
      /\ \A g \in 1..Active : \A q \in DOMAIN counters[g] : counters[g][q] \in Counter
      /\ Spent \in SUBSET Number
  BY SerialTypes DEF SerialDiscipline, Active
<1>2. Seeded /\ SpentFits
  BY DEF SerialDiscipline
<1>3. ASSUME NEW i \in Spent', NEW g \in Nat, i.fmt < g, ~Exempt(i), g <= Active \/ (change # AtRest /\ g = Active + 1)
      PROVE  i \in Spent
  <2>1. CASE i \in Spent
    BY <2>1
  <2>2. CASE i.fmt = Active /\ change = AtRest
    BY <1>1, <1>3, <2>2
  <2>3. CASE i.late
    BY <1>3, <2>3 DEF Exempt
  <2> QED BY <2>1, <2>2, <2>3
<1>4. ASSUME NEW g \in 1..Active, NEW i \in Spent', i.fmt < g, ~Exempt(i)
      PROVE  /\ \E q \in DOMAIN counters'[g] : i.n < counters'[g][q].next
             /\ \A q \in DOMAIN counters'[g] :
                  ~counters'[g][q].restarted /\ (q \in Days => q = i.date) => i.n < counters'[g][q].from
  <2>0. g \in Nat /\ g <= Active
    BY <1>1
  <2>1. i \in Spent
    BY <1>3, <1>4, <2>0
  <2>2. /\ \E q \in DOMAIN counters[g] : i.n < counters[g][q].next
        /\ \A q \in DOMAIN counters[g] :
             ~counters[g][q].restarted /\ (q \in Days => q = i.date) => i.n < counters[g][q].from
    BY <1>2, <1>4, <2>1 DEF Seeded, SeedsAbove
  <2>3. i \in Number /\ i.fmt \in Nat /\ i.n \in Nat /\ i.fmt \in 1..Active
    BY <1>1, <1>2, <2>1 DEF SpentFits, Number
  <2>4. g > 1
    BY <1>1, <1>4, <2>3
  <2>5. PICK q \in DOMAIN counters[g] : i.n < counters[g][q].next
    BY <2>2
  <2>6. q \in DOMAIN counters'[g] /\ i.n < counters'[g][q].next
    <3>1. counters[g][q].next \in Nat
      BY <1>1 DEF Counter
    <3>2. q \in DOMAIN counters'[g] /\ counters'[g][q].next \in Nat
      OBVIOUS
    <3>3. counters[g][q].next <= counters'[g][q].next
      OBVIOUS
    <3> QED BY <2>3, <2>5, <3>1, <3>2, <3>3
  <2>7. ASSUME NEW r \in DOMAIN counters'[g], ~counters'[g][r].restarted, r \in Days => r = i.date
        PROVE  i.n < counters'[g][r].from
    <3>1. r \in DOMAIN counters[g]
      BY <2>4, <2>7
    <3> QED BY <2>2, <2>7, <3>1
  <2> QED BY <2>6, <2>7
<1>5. \A g \in 1..Active : SeedsAbove(g, counters[g])'
  BY <1>4 DEF SeedsAbove, Exempt
<1>6. ASSUME change # AtRest
      PROVE  SeedsAbove(Active + 1, change.rows)'
  <2>1. SeedsAbove(Active + 1, change.rows)
    BY <1>2, <1>6 DEF Seeded
  <2>2. \A i \in Spent' : i.fmt < Active + 1 /\ ~Exempt(i) => i \in Spent
    BY <1>1, <1>3, <1>6
  <2> QED BY <1>1, <2>1, <2>2 DEF SeedsAbove, Exempt
<1> QED BY <1>1, <1>5, <1>6 DEF Seeded

\* Nothing drawn, nothing written: a day passes, a format is read, a transaction or a
\* replacement ends.
LEMMA SerialFewer ==
  ASSUME SerialParameters, SerialDiscipline, SerialTypeOK', UNCHANGED <<formats, counters, issued>>,
         \A c \in Callers : call'[c].at = "drawn" => call'[c] = call[c], change' \in {change, AtRest}
  PROVE  SerialDiscipline'
<1>1. \A i \in Spent' : i \in Spent
  BY DEF Spent
<1>2. Active' = Active /\ \A f, p : CounterOf(f, p)' = CounterOf(f, p)
  BY DEF Active, CounterOf, Fresh
<1>3. \A f \in 1..Active' : RowsFit(formats[f], counters[f])'
  BY <1>2 DEF SerialDiscipline, RowsFit, Accepted
<1>4. Replaces'
  <2>1. CASE change' = change
    BY <2>1 DEF SerialDiscipline, Replaces, RowsFit, Accepted, Active
  <2>2. CASE change' = AtRest
    BY <2>2 DEF Replaces
  <2> QED BY <2>1, <2>2
<1>5. SpentFits'
  BY <1>1, <1>2 DEF SerialDiscipline, SpentFits, Partition
<1>6. DrawnFits'
  <2>1. ASSUME NEW c \in Callers, call'[c].at = "drawn"
        PROVE  /\ call'[c] = call[c] /\ call[c].at = "drawn"
               /\ \A f, p : \A d \in Callers : Drawing(d, f, p)' => Drawing(d, f, p) /\ call'[d] = call[d]
    BY <2>1 DEF Drawing
  <2> QED BY <1>2, <2>1 DEF SerialDiscipline, DrawnFits, Partition
<1>7. Seeded'
  <2>1. \A f \in 1..Active' : SeedsAbove(f, counters[f])'
    BY <1>1, <1>2 DEF SerialDiscipline, Seeded, SeedsAbove, Exempt
  <2>2. ASSUME change' # AtRest
        PROVE  SeedsAbove(Active + 1, change.rows)'
    <3>1. change' = change /\ change # AtRest
      BY <2>2
    <3> QED BY <1>1, <1>2, <3>1 DEF SerialDiscipline, Seeded, SeedsAbove, Exempt
  <2> QED BY <2>1, <2>2 DEF Seeded
<1>8. NoGaps'
  BY <1>2 DEF SerialDiscipline, NoGaps
<1> QED BY <1>3, <1>4, <1>5, <1>6, <1>7, <1>8 DEF SerialDiscipline

\* The transactions after one of them changes.
LEMMA CallersAfter ==
  ASSUME SerialTypeOK, NEW c \in Callers, NEW x, call' = [call EXCEPT ![c] = x]
  PROVE  /\ DOMAIN call' = Callers /\ call'[c] = x
         /\ \A d \in Callers \ {c} : call'[d] = call[d]
<1>1. DOMAIN call = Callers
  BY DEF SerialTypeOK
<1> QED BY <1>1

\* Nothing is drawn or written: the steps that only let go, look or wait.
LEMMA SerialStill ==
  ASSUME SerialParameters, SerialDiscipline,
         \/ NextDay \/ AbortReplace \/ UNCHANGED serialVars
         \/ \E c \in Callers : Abort(c)
         \/ \E c \in Callers, date \in Days : ReadFormat(c, date)
  PROVE  SerialDiscipline'
<1>1. SerialTypeOK
  BY DEF SerialDiscipline
<1>2. CASE NextDay
  <2>1. SerialTypeOK'
    BY <1>1, <1>2 DEF NextDay, SerialTypeOK, Active, RowsOK, Counter
  <2> QED BY <1>2, <2>1, SerialFewer DEF NextDay
<1>3. CASE AbortReplace
  <2>1. SerialTypeOK'
    BY <1>1, <1>3 DEF AbortReplace, SerialTypeOK, Active, RowsOK, Counter
  <2> QED BY <1>3, <2>1, SerialFewer DEF AbortReplace
<1>4. CASE UNCHANGED serialVars
  <2>1. SerialTypeOK'
    BY <1>1, <1>4 DEF serialVars, SerialTypeOK, Active, RowsOK, Counter
  <2> QED BY <1>4, <2>1, SerialFewer DEF serialVars
<1>5. ASSUME NEW c \in Callers, Abort(c)
      PROVE  SerialDiscipline'
  <2>1. call'[c] = AtRest /\ DOMAIN call' = Callers /\ \A d \in Callers \ {c} : call'[d] = call[d]
    BY <1>1, <1>5, CallersAfter DEF Abort
  <2>2. SerialTypeOK'
    BY <1>1, <1>5, <2>1 DEF Abort, SerialTypeOK, Active, RowsOK, Counter
  <2>3. \A d \in Callers : call'[d].at = "drawn" => call'[d] = call[d]
    BY <2>1 DEF AtRest
  <2> QED BY <1>5, <2>2, <2>3, SerialFewer DEF Abort
<1>6. ASSUME NEW c \in Callers, NEW date \in Days, ReadFormat(c, date)
      PROVE  SerialDiscipline'
  <2>1. /\ call'[c] = [at |-> "read", fmt |-> Active, date |-> date]
        /\ DOMAIN call' = Callers /\ \A d \in Callers \ {c} : call'[d] = call[d]
    BY <1>1, <1>6, CallersAfter DEF ReadFormat
  <2>2. call'[c] \in [at : {"read"}, fmt : 1..Active, date : Days] /\ call'[c].at # "drawn"
    BY <2>1, <1>1, SerialTypes
  <2>3. SerialTypeOK'
    BY <1>1, <1>6, <2>1, <2>2 DEF ReadFormat, SerialTypeOK, Active, RowsOK, Counter
  <2>4. \A d \in Callers : call'[d].at = "drawn" => call'[d] = call[d]
    BY <2>1, <2>2
  <2> QED BY <1>6, <2>3, <2>4, SerialFewer DEF ReadFormat
<1> QED BY <1>2, <1>3, <1>4, <1>5, <1>6

\* The number a transaction draws: the next of the counter of its date.
LEMMA DrawsNext ==
  ASSUME SerialParameters, SerialDiscipline, NEW c \in Callers, Draw(c),
         NEW f, f = call[c].fmt, NEW date, date = call[c].date,
         NEW p, p = Partition(formats[f], date), NEW num, num = Drawn(c, p)
  PROVE  /\ f \in 1..Active /\ date \in Days /\ num \in Number
         /\ num.fmt = f /\ num.date = date /\ num.part = p
         /\ num.n = CounterOf(f, p).next /\ num.late = Passed(f) /\ num.restarted = CounterOf(f, p).restarted
         /\ CounterFree(f, p) \/ p = Stream
         /\ DOMAIN call' = Callers /\ call'[c].at = "drawn" /\ call'[c].num = num
         /\ call'[c] \in [at : {"drawn"}, num : Number, new : BOOLEAN]
         /\ \A d \in Callers \ {c} : call'[d] = call[d]
<1>1. SerialTypeOK
  BY DEF SerialDiscipline
<1>2. call[c] \in [at : {"read"}, fmt : 1..Active, date : Days]
  BY <1>1 DEF SerialTypeOK, Draw, AtRest
<1>3. f \in 1..Active /\ date \in Days
  BY <1>2
<1>4. PICK k : k = CounterOf(f, p)
  OBVIOUS
<1>5. k \in Counter
  BY <1>3, <1>4, RowsAreFit
<1>6. PICK late \in BOOLEAN : late = Passed(f)
  BY DEF Passed
<1>7. num = [fmt |-> f, part |-> p, date |-> date, n |-> k.next, late |-> late, restarted |-> k.restarted]
  BY <1>4, <1>6 DEF Drawn
<1>8. p \in Partitions
  BY <1>1, <1>3, PartitionFits, SerialTypes
<1>9. num \in Number /\ num.fmt = f /\ num.date = date /\ num.part = p /\ num.n = k.next
      /\ num.late = late /\ num.restarted = k.restarted
  <2>1. f \in Nat
    BY <1>1, <1>3, SerialTypes
  <2> QED BY <1>3, <1>5, <1>7, <1>8, <2>1 DEF Number, Counter
<1>10. PICK new \in BOOLEAN : new = (p \notin DOMAIN counters[f])
  OBVIOUS
<1>11. /\ CounterFree(f, p) \/ p = Stream
       /\ call' = [call EXCEPT ![c] = [at |-> "drawn", num |-> num, new |-> new]]
  BY <1>10 DEF Draw
<1>12. /\ DOMAIN call' = Callers /\ call'[c] = [at |-> "drawn", num |-> num, new |-> new]
       /\ \A d \in Callers \ {c} : call'[d] = call[d]
  BY <1>1, <1>11, CallersAfter
<1> QED BY <1>3, <1>4, <1>6, <1>9, <1>11, <1>12

\* The types after a step that moves counters and transactions only.
LEMMA TypesAfter ==
  ASSUME SerialParameters, SerialTypeOK, formats' = formats, change' = change, today' = today,
         counters' = [g \in 1..Active |-> counters'[g]], \A g \in 1..Active : RowsOK(counters'[g]),
         issued' \subseteq Number, IsFiniteSet(issued'), DOMAIN call' = Callers, NEW c \in Callers,
         \A d \in Callers \ {c} : call'[d] = call[d],
         call'[c] = AtRest \/ call'[c] \in [at : {"drawn"}, num : Number, new : BOOLEAN]
  PROVE  SerialTypeOK'
<1>1. Active' = Active
  BY DEF Active
<1>2. today' \in Days /\ formats' \in Seq(Format) /\ Active' \in 1..MaxFormats
  BY <1>1 DEF SerialTypeOK
<1>3. counters' = [g \in 1..Active' |-> counters'[g]] /\ \A g \in 1..Active' : RowsOK(counters[g])'
  BY <1>1 DEF RowsOK, Counter
<1>4. change' = AtRest \/ (change'.at = "copied" /\ change'.to \in Format /\ RowsOK(change.rows)')
  BY DEF SerialTypeOK, RowsOK, Counter
<1>5. \A d \in Callers :
        \/ call'[d] = AtRest
        \/ call'[d] \in [at : {"read"}, fmt : 1..Active', date : Days]
        \/ call'[d] \in [at : {"drawn"}, num : Number, new : BOOLEAN]
  BY <1>1 DEF SerialTypeOK
<1> QED BY <1>2, <1>3, <1>4, <1>5 DEF SerialTypeOK

\* A gapless number is drawn: its counter's row is locked, and nothing else has changed.
LEMMA SerialDrawsGapless ==
  ASSUME SerialParameters, SerialDiscipline, NEW c \in Callers, UNCHANGED <<today, formats, issued, change, counters>>,
         NEW f \in 1..Active, NEW date \in Days, NEW num \in Number, NEW new \in BOOLEAN,
         num.fmt = f, num.date = date, num.part = Partition(formats[f], date),
         num.n = CounterOf(f, num.part).next, num.restarted = CounterOf(f, num.part).restarted,
         CounterFree(f, num.part), num.part # Stream,
         DOMAIN call' = Callers, call'[c] = [at |-> "drawn", num |-> num, new |-> new],
         \A d \in Callers \ {c} : call'[d] = call[d]
  PROVE  SerialDiscipline'
<1>1. SerialTypeOK
  BY DEF SerialDiscipline
<1>2. SerialTypeOK'
  <2>1. \A g \in 1..Active : RowsOK(counters'[g])
    BY <1>1, SerialTypes
  <2>2. counters' = [g \in 1..Active |-> counters'[g]] /\ issued' \subseteq Number /\ IsFiniteSet(issued')
    BY <1>1 DEF SerialTypeOK
  <2>3. call'[c] \in [at : {"drawn"}, num : Number, new : BOOLEAN]
    OBVIOUS
  <2> QED BY <1>1, <2>1, <2>2, <2>3, TypesAfter
<1>3. Active' = Active /\ \A g, q : CounterOf(g, q)' = CounterOf(g, q)
  BY DEF Active, CounterOf, Fresh
<1>4. \A i \in Spent' : i \in Spent
  BY DEF Spent
<1>5. /\ \A g \in 1..Active' : RowsFit(formats[g], counters[g])'
      /\ Replaces'
  BY <1>3 DEF SerialDiscipline, Replaces, RowsFit, Accepted, Active
<1>6. SpentFits'
  BY <1>3, <1>4 DEF SerialDiscipline, SpentFits, Partition
<1>7. Seeded'
  BY <1>3, <1>4 DEF SerialDiscipline, Seeded, SeedsAbove, Exempt
<1>8. NoGaps'
  BY <1>3 DEF SerialDiscipline, NoGaps
<1>9. ASSUME NEW d \in Callers, d # c, call'[d].at = "drawn"
      PROVE  /\ call'[d] = call[d] /\ call[d].at = "drawn"
             /\ \A e \in Callers : Drawing(e, call[d].num.fmt, call[d].num.part)' =>
                  Drawing(e, call[d].num.fmt, call[d].num.part) /\ call'[e] = call[e]
  <2>1. call'[d] = call[d] /\ call[d].at = "drawn"
    BY <1>9
  <2>2. ~Drawing(d, f, num.part)
    BY DEF CounterFree
  <2>3. call[d].num.fmt # f \/ call[d].num.part # num.part
    BY <2>1, <2>2 DEF Drawing
  <2> QED BY <2>1, <2>3 DEF Drawing
<1>10. ASSUME NEW d \in Callers, call'[d].at = "drawn", NEW x, x = call'[d].num
       PROVE  /\ x.fmt \in 1..Active /\ x.part = Partition(formats[x.fmt], x.date)
              /\ CounterOf(x.fmt, x.part).from <= x.n /\ x.restarted = CounterOf(x.fmt, x.part).restarted
              /\ x.part # Stream => x.n = CounterOf(x.fmt, x.part).next
              /\ \A e \in Callers \ {d} : Drawing(e, x.fmt, x.part)' => x.part = Stream /\ call'[e].num.n # x.n
              /\ x.part = Stream => \A i \in issued : i.fmt = x.fmt => i.n # x.n
  <2>1. CASE d = c
    <3>1. x = num /\ CounterOf(f, num.part).from <= num.n
      BY <1>10, <2>1, RowsAreFit
    <3>2. \A e \in Callers \ {c} : ~Drawing(e, f, num.part)'
      BY DEF CounterFree, Drawing
    <3> QED BY <2>1, <3>1, <3>2
  <2>2. CASE d # c
    BY <1>9, <1>10, <2>2 DEF SerialDiscipline, DrawnFits
  <2> QED BY <2>1, <2>2
<1>11. DrawnFits'
  BY <1>3, <1>10 DEF DrawnFits, Partition
<1> QED BY <1>2, <1>5, <1>6, <1>7, <1>8, <1>11 DEF SerialDiscipline

\* A number of the sequence is drawn: the sequence moves on, for good.
LEMMA SerialDrawsStream ==
  ASSUME SerialParameters, SerialDiscipline, NEW c \in Callers, Draw(c), NEW num,
         num = Drawn(c, Stream), Partition(formats[call[c].fmt], call[c].date) = Stream
  PROVE  SerialDiscipline'
<1>1. SerialTypeOK
  BY DEF SerialDiscipline
<1>2. PICK f, date : f = call[c].fmt /\ date = call[c].date
  OBVIOUS
<1>3. Stream = Partition(formats[f], date)
  BY <1>2
<1>4. /\ f \in 1..Active /\ date \in Days /\ num \in Number
      /\ num.fmt = f /\ num.date = date /\ num.part = Stream
      /\ num.n = CounterOf(f, Stream).next /\ num.late = Passed(f) /\ num.restarted = CounterOf(f, Stream).restarted
      /\ DOMAIN call' = Callers /\ call'[c].at = "drawn" /\ call'[c].num = num
      /\ call'[c] \in [at : {"drawn"}, num : Number, new : BOOLEAN]
      /\ \A d \in Callers \ {c} : call'[d] = call[d]
  BY <1>2, <1>3, DrawsNext
<1>5. /\ Active \in Nat /\ f \in Nat /\ \A g \in 1..Active : formats[g] \in Format
      /\ DOMAIN counters = 1..Active /\ RowsOK(counters[f])
      /\ \A g \in 1..Active : \A q \in DOMAIN counters[g] : counters[g][q] \in Counter
      /\ Spent \in SUBSET Number
  BY <1>1, <1>4, SerialTypes
<1>6. DOMAIN counters[f] = {Stream} /\ CounterOf(f, Stream) = counters[f][Stream]
  <2>1. formats[f].mode # "gapless"
    BY <1>3, <1>4, <1>5, PartitionFits
  <2>2. formats[f].mode = "sequence"
    BY <1>4, <1>5, <2>1 DEF Format, AllocationModes
  <2>3. DOMAIN counters[f] = {Stream}
    BY <1>4, <2>2, RowsAreFit
  <2> QED BY <1>5, <2>3, RowsAreFit
<1>7. PICK m \in Nat : m = num.n + 1
  BY <1>4 DEF Number
<1>8. CounterOf(f, Stream).next <= m /\ CounterOf(f, Stream) \in Counter
      /\ CounterOf(f, Stream).next \in Nat /\ 1 <= CounterOf(f, Stream).from
      /\ CounterOf(f, Stream).from <= CounterOf(f, Stream).next
  BY <1>4, <1>5, <1>7, RowsAreFit DEF Number, Counter
<1>9. formats' = formats /\ issued' = issued /\ change' = change /\ today' = today
  BY DEF Draw
<1>10. PICK row : row = [CounterOf(f, Stream) EXCEPT !.next = m]
  OBVIOUS
<1>11. row \in Counter /\ row.next = m /\ row.from = CounterOf(f, Stream).from
       /\ row.restarted = CounterOf(f, Stream).restarted
  BY <1>8, <1>10 DEF Counter
<1>12. PICK rows : rows = [q \in {Stream} |-> row]
  OBVIOUS
<1>13. counters' = [counters EXCEPT ![f] = rows]
  <2>1. counters' = [counters EXCEPT ![f][Stream].next = @ + 1]
    BY <1>2, <1>3 DEF Draw
  <2>2. row = [counters[f][Stream] EXCEPT !.next = counters[f][Stream].next + 1]
    BY <1>4, <1>6, <1>7, <1>10
  <2>3. counters' = [counters EXCEPT ![f] = [counters[f] EXCEPT ![Stream] = row]]
    BY <2>1, <2>2
  <2>4. counters[f] = [q \in DOMAIN counters[f] |-> counters[f][q]]
    BY <1>5 DEF RowsOK
  <2>5. [counters[f] EXCEPT ![Stream] = row] = rows
    BY <1>6, <1>12, <2>4
  <2> QED BY <2>3, <2>5
<1>14. /\ rows \in [DOMAIN counters[f] \cup {Stream} -> Counter] /\ rows[Stream] = row
       /\ \A q \in DOMAIN counters[f] : q # Stream => rows[q] = counters[f][q]
  BY <1>6, <1>11, <1>12
<1>15. /\ Active' = Active /\ counters' = [g \in 1..Active |-> counters'[g]]
       /\ \A g \in 1..Active : RowsOK(counters'[g]) /\ RowsFit(formats[g], counters'[g])
       /\ \A g \in 1..Active : g # f => counters'[g] = counters[g]
       /\ counters'[f] = rows /\ DOMAIN rows = DOMAIN counters[f] \cup {Stream}
  <2>1. counters' = [g \in 1..Active |-> IF g = f THEN rows ELSE counters[g]]
    BY <1>1, <1>5, <1>13 DEF SerialTypeOK
  <2>2. counters'[f] = rows /\ \A g \in 1..Active : g # f => counters'[g] = counters[g]
    BY <1>4, <2>1
  <2>3. counters' = [g \in 1..Active |-> counters'[g]]
    BY <2>1
  <2>4. \A g \in 1..Active : RowsOK(counters'[g]) /\ RowsFit(formats[g], counters'[g])
    BY <1>3, <1>4, <1>8, <1>9, <1>11, <1>14, <2>2, RowMoves
  <2> QED BY <1>9, <1>14, <2>2, <2>3, <2>4 DEF Active
<1>16. /\ \A g \in 1..Active :
            /\ DOMAIN counters[g] \subseteq DOMAIN counters'[g]
            /\ \A q \in DOMAIN counters[g] :
                 /\ counters'[g][q].from = counters[g][q].from
                 /\ counters'[g][q].restarted = counters[g][q].restarted
                 /\ counters[g][q].next <= counters'[g][q].next
                 /\ g # f \/ q # Stream => counters'[g][q] = counters[g][q]
            /\ \A q \in DOMAIN counters'[g] \ DOMAIN counters[g] :
                 g = f /\ q = Stream /\ counters'[g][q].restarted = (g > 1)
       /\ \A g \in 1..Active : \A q : g # f \/ q # Stream => CounterOf(g, q)' = CounterOf(g, q)
       /\ CounterOf(f, Stream)' = rows[Stream]
  BY <1>4, <1>8, <1>11, <1>14, <1>15, RowsGrow
<1>17. SerialTypeOK'
  <2>1. issued' \subseteq Number /\ IsFiniteSet(issued')
    BY <1>1, <1>9 DEF SerialTypeOK
  <2>2. counters' = [g \in 1..Active |-> counters'[g]] /\ \A g \in 1..Active : RowsOK(counters'[g])
    BY <1>15
  <2>3. /\ formats' = formats /\ change' = change /\ today' = today /\ DOMAIN call' = Callers
        /\ \A d \in Callers \ {c} : call'[d] = call[d]
        /\ call'[c] = AtRest \/ call'[c] \in [at : {"drawn"}, num : Number, new : BOOLEAN]
    BY <1>4, <1>9
  <2> QED BY <1>1, <2>1, <2>2, <2>3, TypesAfter
<1>18. \A i \in Spent' : i \in Spent \/ i = num
  BY <1>4, <1>9 DEF Spent
<1>19. \A g \in 1..Active' : RowsFit(formats[g], counters[g])'
  BY <1>9, <1>15 DEF RowsFit, Accepted
<1>20. Replaces'
  BY <1>9 DEF SerialDiscipline, Replaces, RowsFit, Accepted, Active
<1>21. SpentFits /\ DrawnFits
  BY DEF SerialDiscipline
<1>22. SpentFits'
  <2>1. ASSUME NEW i \in Spent'
        PROVE  /\ i.fmt \in 1..Active /\ i.part = Partition(formats[i.fmt], i.date)
               /\ i.part \in DOMAIN counters'[i.fmt] /\ i.n < counters'[i.fmt][i.part].next
    <3>1. CASE i = num
      BY <1>3, <1>4, <1>7, <1>8, <1>11, <1>14, <1>15, <3>1
    <3>2. CASE i \in Spent
      <4>1. /\ i.fmt \in 1..Active /\ i.part = Partition(formats[i.fmt], i.date)
            /\ i.part \in DOMAIN counters[i.fmt] /\ i.n < counters[i.fmt][i.part].next /\ i.n \in Nat
        BY <1>5, <1>21, <3>2 DEF SpentFits, Number
      <4>2. i.part \in DOMAIN counters'[i.fmt] /\ counters[i.fmt][i.part].next <= counters'[i.fmt][i.part].next
        BY <1>16, <4>1
      <4>3. counters[i.fmt][i.part].next \in Nat /\ counters'[i.fmt][i.part].next \in Nat
        <5>1. counters'[i.fmt][i.part] \in Counter /\ counters[i.fmt][i.part] \in Counter
          BY <1>5, <1>15, <4>1, <4>2 DEF RowsOK
        <5> QED BY <5>1 DEF Counter
      <4> QED BY <4>1, <4>2, <4>3
    <3> QED BY <1>18, <3>1, <3>2
  <2> QED BY <1>9, <1>15, <2>1 DEF SpentFits, Partition
<1>23. ASSUME NEW d \in Callers, call'[d].at = "drawn", NEW x, x = call'[d].num
       PROVE  /\ x.fmt \in 1..Active /\ x.part = Partition(formats[x.fmt], x.date)
              /\ CounterOf(x.fmt, x.part)'.from <= x.n /\ x.restarted = CounterOf(x.fmt, x.part)'.restarted
              /\ x.part # Stream => x.n = CounterOf(x.fmt, x.part)'.next
              /\ \A e \in Callers \ {d} : Drawing(e, x.fmt, x.part)' => x.part = Stream /\ call'[e].num.n # x.n
              /\ x.part = Stream => \A i \in issued : i.fmt = x.fmt => i.n # x.n
  <2>1. \A i \in Spent : i.fmt = f /\ i.part = Stream => i.n < num.n
    BY <1>4, <1>6, <1>21 DEF SpentFits
  <2>2. CASE d = c
    <3>1. x = num /\ CounterOf(f, Stream)' = row
      BY <1>4, <1>14, <1>16, <1>23, <2>2
    <3>2. ASSUME NEW e \in Callers \ {c}, Drawing(e, f, Stream)'
          PROVE  call'[e].num.n # num.n
      <4>1. call'[e] = call[e] /\ call[e].at = "drawn" /\ call[e].num.fmt = f /\ call[e].num.part = Stream
        BY <1>4, <3>2 DEF Drawing
      <4>2. call[e].num \in Spent
        BY <4>1 DEF Spent
      <4> QED BY <1>4, <1>5, <2>1, <4>1, <4>2 DEF Number
    <3>3. ASSUME NEW i \in issued, i.fmt = f
          PROVE  i.n # num.n
      <4>1. i \in Spent
        BY DEF Spent
      <4>2. i.part \in DOMAIN counters[f]
        BY <1>21, <3>3, <4>1 DEF SpentFits
      <4> QED BY <1>4, <1>5, <1>6, <2>1, <3>3, <4>1, <4>2 DEF Number
    <3> QED BY <1>3, <1>4, <1>8, <1>11, <2>2, <3>1, <3>2, <3>3
  <2>3. CASE d # c
    <3>1. call'[d] = call[d] /\ call[d].at = "drawn" /\ x = call[d].num
      BY <1>4, <1>23, <2>3
    <3>2. /\ x.fmt \in 1..Active /\ x.part = Partition(formats[x.fmt], x.date)
          /\ CounterOf(x.fmt, x.part).from <= x.n /\ x.restarted = CounterOf(x.fmt, x.part).restarted
          /\ x.part # Stream => x.n = CounterOf(x.fmt, x.part).next
          /\ \A e \in Callers \ {d} : Drawing(e, x.fmt, x.part) => x.part = Stream /\ call[e].num.n # x.n
          /\ x.part = Stream => \A i \in issued : i.fmt = x.fmt => i.n # x.n
      BY <1>21, <3>1 DEF DrawnFits
    <3>3. /\ CounterOf(x.fmt, x.part)'.from = CounterOf(x.fmt, x.part).from
          /\ CounterOf(x.fmt, x.part)'.restarted = CounterOf(x.fmt, x.part).restarted
          /\ x.part # Stream => CounterOf(x.fmt, x.part)' = CounterOf(x.fmt, x.part)
      <4>1. CASE x.fmt # f \/ x.part # Stream
        BY <1>16, <3>2, <4>1
      <4>2. CASE x.fmt = f /\ x.part = Stream
        BY <1>11, <1>14, <1>16, <4>2
      <4> QED BY <4>1, <4>2
    <3>4. ASSUME NEW e \in Callers \ {d}, Drawing(e, x.fmt, x.part)'
          PROVE  x.part = Stream /\ call'[e].num.n # x.n
      <4>1. CASE e = c
        <5>1. x.fmt = f /\ x.part = Stream /\ call'[e].num = num
          BY <1>4, <3>4, <4>1 DEF Drawing
        <5>2. x \in Spent
          BY <3>1, <5>1 DEF Spent
        <5> QED BY <1>4, <1>5, <2>1, <5>1, <5>2 DEF Number
      <4>2. CASE e # c
        BY <1>4, <3>2, <3>4, <4>2 DEF Drawing
      <4> QED BY <4>1, <4>2
    <3>5. CounterOf(x.fmt, x.part)'.from <= x.n /\ x.restarted = CounterOf(x.fmt, x.part)'.restarted
      BY <3>2, <3>3
    <3>6. x.part # Stream => x.n = CounterOf(x.fmt, x.part)'.next
      BY <3>2, <3>3
    <3> QED BY <3>2, <3>4, <3>5, <3>6
  <2> QED BY <2>2, <2>3
<1>24. DrawnFits'
  <2>1. \A g, day : Partition(formats[g], day)' = Partition(formats[g], day)
    BY <1>9 DEF Partition
  <2> QED BY <1>9, <1>15, <1>23, <2>1 DEF DrawnFits
<1>25. Seeded'
  <2>1. \A g \in 1..Active : \A q \in DOMAIN counters'[g] : counters'[g][q].next \in Nat
    BY <1>15 DEF RowsOK, Counter
  <2>2. \A i \in Spent' : i \in Spent \/ (i.fmt \in 1..Active /\ (i.late \/ (i.fmt = Active /\ change = AtRest)))
    <3>1. ~Passed(f) => f = Active /\ change = AtRest
      BY <1>4, <1>5 DEF Passed
    <3>2. Passed(f) => num.late
      BY <1>4
    <3> QED BY <1>4, <1>18, <3>1, <3>2
  <2>3. \A g \in 1..Active :
          /\ DOMAIN counters[g] \subseteq DOMAIN counters'[g]
          /\ \A q \in DOMAIN counters[g] :
               /\ counters'[g][q].from = counters[g][q].from
               /\ counters'[g][q].restarted = counters[g][q].restarted
               /\ counters[g][q].next <= counters'[g][q].next
          /\ \A q \in DOMAIN counters'[g] \ DOMAIN counters[g] : counters'[g][q].restarted = (g > 1)
    BY <1>16
  <2> QED BY <1>9, <2>1, <2>2, <2>3, SeedsStand
<1>26. NoGaps'
  <2>1. \A g \in 1..Active : /\ DOMAIN counters'[g] \ {Stream} = DOMAIN counters[g] \ {Stream}
                             /\ \A q \in DOMAIN counters[g] \ {Stream} : counters'[g][q] = counters[g][q]
    BY <1>16
  <2> QED BY <1>9, <1>15, <2>1 DEF SerialDiscipline, NoGaps
<1> QED BY <1>17, <1>19, <1>20, <1>22, <1>24, <1>25, <1>26 DEF SerialDiscipline

\* A transaction that commits writes the number it drew.
LEMMA CommitsNumber ==
  ASSUME SerialParameters, SerialDiscipline, NEW c \in Callers, Commit(c), NEW num, num = call[c].num
  PROVE  \E j \in Number :
           /\ j.fmt = num.fmt /\ j.part = num.part /\ j.date = num.date /\ j.n = num.n /\ j.restarted = num.restarted
           /\ num.part # Stream /\ Passed(num.fmt) => j.late
           /\ num.part = Stream => j = num
           /\ issued' = issued \cup {j} /\ issued' \subseteq Number /\ IsFiniteSet(issued')
           /\ call[c].at = "drawn" /\ call'[c] = AtRest /\ DOMAIN call' = Callers
           /\ \A d \in Callers \ {c} : call'[d] = call[d]
<1>1. SerialTypeOK /\ call[c].at = "drawn"
  BY DEF SerialDiscipline, Commit
<1>2. num \in Number /\ issued \in SUBSET Number /\ IsFiniteSet(issued)
  BY <1>1, SerialTypes
<1>3. PICK late \in BOOLEAN : late = (num.late \/ (num.part # Stream /\ Passed(num.fmt)))
  OBVIOUS
<1>4. PICK j : j = [num EXCEPT !.late = late]
  OBVIOUS
<1>5. j \in Number /\ j.fmt = num.fmt /\ j.part = num.part /\ j.date = num.date /\ j.n = num.n
      /\ j.restarted = num.restarted /\ j.late = late
  BY <1>2, <1>4 DEF Number
<1>6. num.part = Stream => j = num
  <2>1. SUFFICES ASSUME num.part = Stream
                 PROVE  j = num
    OBVIOUS
  <2>2. num.late \in BOOLEAN
    BY <1>2 DEF Number
  <2>3. late = num.late
    BY <1>3, <2>1, <2>2
  <2> QED BY <1>2, <1>4, <2>3 DEF Number
<1>7. num.part # Stream /\ Passed(num.fmt) => j.late
  BY <1>3, <1>5
<1>8. issued' = issued \cup {j}
  <2>1. issued' = issued \cup {[num EXCEPT !.late = @ \/ (num.part # Stream /\ Passed(num.fmt))]}
    BY DEF Commit
  <2>2. [num EXCEPT !.late = @ \/ (num.part # Stream /\ Passed(num.fmt))] = j
    BY <1>2, <1>3, <1>4 DEF Number
  <2> QED BY <2>1, <2>2
<1>9. issued' \subseteq Number /\ IsFiniteSet(issued')
  BY <1>2, <1>5, <1>8, FS_AddElement
<1>10. call'[c] = AtRest /\ DOMAIN call' = Callers /\ \A d \in Callers \ {c} : call'[d] = call[d]
  BY <1>1, CallersAfter DEF Commit
<1> QED BY <1>1, <1>5, <1>6, <1>7, <1>8, <1>9, <1>10

\* The other transactions after one of them has written its number.
LEMMA DrawnAfterCommit ==
  ASSUME SerialParameters, SerialDiscipline, formats' = formats,
         NEW c \in Callers, NEW num, num = call[c].num, call[c].at = "drawn", call'[c] = AtRest,
         \A d \in Callers \ {c} : call'[d] = call[d],
         NEW j, j.fmt = num.fmt, j.n = num.n, issued' = issued \cup {j},
         \A g \in 1..Active : \A q : g # num.fmt \/ q # num.part \/ num.part = Stream =>
           CounterOf(g, q)' = CounterOf(g, q)
  PROVE  DrawnFits'
<1>1. SerialTypeOK /\ DrawnFits
  BY DEF SerialDiscipline
<1>2. /\ Active' = Active /\ Active \in Nat /\ \A g \in 1..Active : formats[g] \in Format
      /\ \A d \in Callers : call[d].at = "drawn" => call[d].num \in Number
  BY <1>1, SerialTypes DEF Active
<1>3. \A g, day : Partition(formats[g], day)' = Partition(formats[g], day)
  BY DEF Partition
<1>4. num.fmt \in 1..Active /\ num.part = Partition(formats[num.fmt], num.date)
  BY <1>1 DEF DrawnFits
<1>5. ASSUME NEW d \in Callers, call'[d].at = "drawn", NEW x, x = call'[d].num
      PROVE  /\ x.fmt \in 1..Active /\ x.part = Partition(formats[x.fmt], x.date)
             /\ CounterOf(x.fmt, x.part)'.from <= x.n /\ x.restarted = CounterOf(x.fmt, x.part)'.restarted
             /\ x.part # Stream => x.n = CounterOf(x.fmt, x.part)'.next
             /\ \A e \in Callers \ {d} : Drawing(e, x.fmt, x.part)' => x.part = Stream /\ call'[e].num.n # x.n
             /\ x.part = Stream => \A i \in issued' : i.fmt = x.fmt => i.n # x.n
  <2>1. d # c
    BY <1>5 DEF AtRest
  <2>2. call'[d] = call[d] /\ call[d].at = "drawn" /\ x = call[d].num
    BY <1>5, <2>1
  <2>3. /\ x.fmt \in 1..Active /\ x.part = Partition(formats[x.fmt], x.date)
        /\ CounterOf(x.fmt, x.part).from <= x.n /\ x.restarted = CounterOf(x.fmt, x.part).restarted
        /\ x.part # Stream => x.n = CounterOf(x.fmt, x.part).next
        /\ \A e \in Callers \ {d} : Drawing(e, x.fmt, x.part) => x.part = Stream /\ call[e].num.n # x.n
        /\ x.part = Stream => \A i \in issued : i.fmt = x.fmt => i.n # x.n
    BY <1>1, <2>2 DEF DrawnFits
  <2>4. \A e \in Callers \ {c} : Drawing(e, num.fmt, num.part) => num.part = Stream
    BY <1>1 DEF DrawnFits
  <2>5. CounterOf(x.fmt, x.part)' = CounterOf(x.fmt, x.part)
    BY <2>1, <2>2, <2>3, <2>4 DEF Drawing
  <2>6. ASSUME NEW e \in Callers \ {d}, Drawing(e, x.fmt, x.part)'
        PROVE  x.part = Stream /\ call'[e].num.n # x.n
    <3>1. e # c
      BY <2>6 DEF Drawing, AtRest
    <3> QED BY <2>3, <2>6, <3>1 DEF Drawing
  <2>7. ASSUME x.part = Stream, num.fmt = x.fmt
        PROVE  num.n # x.n
    <3>1. num \in Number /\ x \in Number
      BY <1>2, <2>2
    <3>2. num.date \in Days /\ x.date \in Days
      BY <3>1 DEF Number
    <3>3. formats[x.fmt] \in Format
      BY <1>2, <2>3
    <3>4. formats[x.fmt].mode = "sequence"
      <4>1. formats[x.fmt].mode # "gapless"
        BY <2>3, <2>7, <3>2, <3>3, PartitionFits
      <4> QED BY <3>3, <4>1 DEF Format, AllocationModes
    <3>5. num.part = Stream
      BY <1>4, <2>7, <3>2, <3>3, <3>4, PartitionFits
    <3>6. Drawing(c, x.fmt, x.part)
      BY <2>7, <3>5 DEF Drawing
    <3> QED BY <2>1, <2>3, <3>6
  <2>8. x.part = Stream => \A i \in issued' : i.fmt = x.fmt => i.n # x.n
    BY <2>3, <2>7
  <2>9. CounterOf(x.fmt, x.part)'.from <= x.n /\ x.restarted = CounterOf(x.fmt, x.part)'.restarted
    BY <2>3, <2>5
  <2>10. x.part # Stream => x.n = CounterOf(x.fmt, x.part)'.next
    BY <2>3, <2>5
  <2> QED BY <2>3, <2>6, <2>8, <2>9, <2>10
<1> QED BY <1>2, <1>3, <1>5 DEF DrawnFits

\* A number of the sequence is written: it was drawn for good already.
LEMMA SerialWritesStream ==
  ASSUME SerialParameters, SerialDiscipline, NEW c \in Callers, Commit(c), call[c].num.part = Stream
  PROVE  SerialDiscipline'
<1>1. PICK num : num = call[c].num
  OBVIOUS
<1>2. PICK j \in Number :
           /\ j.fmt = num.fmt /\ j.part = num.part /\ j.date = num.date /\ j.n = num.n /\ j.restarted = num.restarted
           /\ num.part # Stream /\ Passed(num.fmt) => j.late
           /\ num.part = Stream => j = num
           /\ issued' = issued \cup {j} /\ issued' \subseteq Number /\ IsFiniteSet(issued')
           /\ call[c].at = "drawn" /\ call'[c] = AtRest /\ DOMAIN call' = Callers
           /\ \A d \in Callers \ {c} : call'[d] = call[d]
  BY <1>1, CommitsNumber
<1>3. SerialTypeOK
  BY DEF SerialDiscipline
<1>4. UNCHANGED <<today, formats, change, counters>>
  BY DEF Commit
<1>5. Active' = Active /\ \A g, q : CounterOf(g, q)' = CounterOf(g, q)
  BY <1>4 DEF Active, CounterOf, Fresh
<1>6. \A i \in Spent' : i \in Spent
  <2>1. num \in Spent
    BY <1>1, <1>2 DEF Spent
  <2> QED BY <1>1, <1>2, <2>1 DEF Spent, AtRest
<1>7. SerialTypeOK'
  <2>1. \A g \in 1..Active : RowsOK(counters'[g])
    BY <1>3, <1>4, SerialTypes
  <2>2. counters' = [g \in 1..Active |-> counters'[g]]
    BY <1>3, <1>4 DEF SerialTypeOK
  <2> QED BY <1>2, <1>3, <1>4, <2>1, <2>2, TypesAfter
<1>8. /\ \A g \in 1..Active' : RowsFit(formats[g], counters[g])'
      /\ Replaces'
  BY <1>4, <1>5 DEF SerialDiscipline, Replaces, RowsFit, Accepted, Active
<1>9. SpentFits'
  BY <1>4, <1>5, <1>6 DEF SerialDiscipline, SpentFits, Partition
<1>10. Seeded'
  BY <1>4, <1>5, <1>6 DEF SerialDiscipline, Seeded, SeedsAbove, Exempt
<1>11. DrawnFits'
  BY <1>1, <1>2, <1>4, <1>5, DrawnAfterCommit
<1>12. NoGaps'
  <2> SUFFICES ASSUME NEW g \in 1..Active, NEW p \in DOMAIN counters[g] \ {Stream}
               PROVE  LET held == {i \in issued' : i.fmt = g /\ i.part = p}
                          own == {i.n : i \in held}
                      IN /\ Cardinality(held) = Cardinality(own)
                         /\ own = counters[g][p].from..(counters[g][p].next - 1)
    BY <1>4, <1>5 DEF NoGaps
  <2>1. {i \in issued' : i.fmt = g /\ i.part = p} = {i \in issued : i.fmt = g /\ i.part = p}
    BY <1>1, <1>2
  <2> QED BY <2>1 DEF SerialDiscipline, NoGaps
<1> QED BY <1>7, <1>8, <1>9, <1>10, <1>11, <1>12 DEF SerialDiscipline

\* One number more, the next of its counter, leaves no gap and no number twice.
LEMMA OneMoreNoGap ==
  ASSUME NEW H, IsFiniteSet(H), NEW a \in Nat, NEW b \in Nat, a <= b,
         NEW O, O = a..(b - 1), \A i \in H : i.n \in O, Cardinality(H) = Cardinality(O),
         NEW j, j.n = b
  PROVE  Cardinality(H \cup {j}) = Cardinality(O \cup {b}) /\ O \cup {b} = a..b
<1>1. IsFiniteSet(O)
  <2>1. a \in Int /\ b - 1 \in Int
    OBVIOUS
  <2> QED BY <2>1, FS_Interval
<1>2. b \notin O
  OBVIOUS
<1>3. j \notin H
  BY <1>2
<1>4. O \cup {b} = a..b
  OBVIOUS
<1>5. Cardinality(H \cup {j}) = Cardinality(H) + 1
  BY <1>3, FS_AddElement
<1>6. Cardinality(O \cup {b}) = Cardinality(O) + 1
  BY <1>1, <1>2, FS_AddElement
<1> QED BY <1>4, <1>5, <1>6

\* A gapless number is written: its counter moves on with its transaction.
LEMMA SerialWritesGapless ==
  ASSUME SerialParameters, SerialDiscipline, NEW c \in Callers, Commit(c), call[c].num.part # Stream
  PROVE  SerialDiscipline'
<1>1. PICK num, f, p, date : num = call[c].num /\ f = num.fmt /\ p = num.part /\ date = num.date
  OBVIOUS
<1>2. PICK j \in Number :
           /\ j.fmt = num.fmt /\ j.part = num.part /\ j.date = num.date /\ j.n = num.n /\ j.restarted = num.restarted
           /\ num.part # Stream /\ Passed(num.fmt) => j.late
           /\ num.part = Stream => j = num
           /\ issued' = issued \cup {j} /\ issued' \subseteq Number /\ IsFiniteSet(issued')
           /\ call[c].at = "drawn" /\ call'[c] = AtRest /\ DOMAIN call' = Callers
           /\ \A d \in Callers \ {c} : call'[d] = call[d]
  BY <1>1, CommitsNumber
<1>3. SerialTypeOK /\ SpentFits /\ DrawnFits /\ p # Stream
  BY <1>1 DEF SerialDiscipline
<1>4. PICK k : k = CounterOf(f, p)
  OBVIOUS
<1>5. /\ f \in 1..Active /\ p = Partition(formats[f], date) /\ k.from <= num.n /\ num.n = k.next
  BY <1>1, <1>2, <1>3, <1>4 DEF DrawnFits
<1>6. /\ Active \in Nat /\ f \in Nat /\ num \in Number /\ date \in Days /\ num.n \in Nat
      /\ DOMAIN counters = 1..Active /\ counters = [g \in 1..Active |-> counters[g]]
      /\ \A g \in 1..Active : RowsOK(counters[g])
      /\ \A g \in 1..Active : \A q \in DOMAIN counters[g] : counters[g][q] \in Counter
      /\ Spent \in SUBSET Number
  <2>1. num \in Number
    BY <1>1, <1>2, <1>3, SerialTypes
  <2>2. date \in Days /\ num.n \in Nat
    BY <1>1, <2>1 DEF Number
  <2> QED BY <1>3, <1>5, <2>1, <2>2, SerialTypes
<1>7. /\ k \in Counter /\ 1 <= k.from /\ k.from <= k.next
      /\ k = IF p \in DOMAIN counters[f] THEN counters[f][p] ELSE [from |-> 1, next |-> 1, restarted |-> f > 1]
  BY <1>4, <1>5, <1>6, RowsAreFit
<1>8. PICK row : row = [k EXCEPT !.next = num.n + 1]
  OBVIOUS
<1>9. row \in Counter /\ row.next = num.n + 1 /\ row.from = k.from /\ row.restarted = k.restarted
  <2>1. k \in Counter /\ num.n + 1 \in Nat
    BY <1>6, <1>7
  <2> QED BY <1>8, <2>1 DEF Counter
<1>10. PICK rows : rows = [q \in DOMAIN counters[f] \cup {p} |-> IF q = p THEN row ELSE counters[f][q]]
  OBVIOUS
<1>11. /\ rows \in [DOMAIN counters[f] \cup {p} -> Counter] /\ rows[p] = row
       /\ DOMAIN rows = DOMAIN counters[f] \cup {p}
       /\ \A q \in DOMAIN counters[f] : q # p => rows[q] = counters[f][q]
  BY <1>5, <1>6, <1>9, <1>10
<1>12. formats' = formats /\ change' = change /\ today' = today
  BY DEF Commit
<1>13. counters' = [counters EXCEPT ![f] = rows]
  <2>1. rows = Advanced(num)
    BY <1>1, <1>4, <1>8, <1>10 DEF Advanced
  <2> QED BY <1>1, <1>3, <2>1 DEF Commit
<1>14. /\ Active' = Active /\ counters' = [g \in 1..Active |-> counters'[g]]
       /\ \A g \in 1..Active : g # f => counters'[g] = counters[g]
       /\ counters'[f] = rows
  <2>1. counters' = [g \in 1..Active |-> IF g = f THEN rows ELSE counters[g]]
    BY <1>6, <1>13
  <2>2. counters'[f] = rows /\ \A g \in 1..Active : g # f => counters'[g] = counters[g]
    BY <1>5, <2>1
  <2>3. counters' = [g \in 1..Active |-> counters'[g]]
    BY <2>1
  <2> QED BY <1>12, <2>2, <2>3 DEF Active
<1>15. CounterOf(f, p).next <= rows[p].next /\ rows[p].from = CounterOf(f, p).from
       /\ rows[p].restarted = CounterOf(f, p).restarted
  <2>1. k.next <= num.n + 1
    BY <1>5, <1>6
  <2> QED BY <1>4, <1>9, <1>11, <2>1
<1>16. \A g \in 1..Active : RowsOK(counters'[g]) /\ RowsFit(formats[g], counters'[g])
  BY <1>5, <1>6, <1>11, <1>12, <1>14, <1>15, RowMoves
<1>17. /\ \A g \in 1..Active :
            /\ DOMAIN counters[g] \subseteq DOMAIN counters'[g]
            /\ \A q \in DOMAIN counters[g] :
                 /\ counters'[g][q].from = counters[g][q].from
                 /\ counters'[g][q].restarted = counters[g][q].restarted
                 /\ counters[g][q].next <= counters'[g][q].next
                 /\ g # f \/ q # p => counters'[g][q] = counters[g][q]
            /\ \A q \in DOMAIN counters'[g] \ DOMAIN counters[g] :
                 g = f /\ q = p /\ counters'[g][q].restarted = (g > 1)
       /\ \A g \in 1..Active : \A q : g # f \/ q # p => CounterOf(g, q)' = CounterOf(g, q)
       /\ CounterOf(f, p)' = rows[p]
  BY <1>5, <1>11, <1>14, <1>15, RowsGrow
<1>18. SerialTypeOK'
  <2>1. \A g \in 1..Active : RowsOK(counters'[g])
    BY <1>16
  <2> QED BY <1>2, <1>3, <1>12, <1>14, <2>1, TypesAfter
<1>19. \A g \in 1..Active' : RowsFit(formats[g], counters[g])'
  BY <1>12, <1>14, <1>16 DEF RowsFit, Accepted
<1>20. Replaces'
  BY <1>12 DEF SerialDiscipline, Replaces, RowsFit, Accepted, Active
<1>21. \A i \in Spent' : i \in Spent \/ i = j
  BY <1>2 DEF Spent, AtRest
<1>22. SpentFits'
  <2>1. ASSUME NEW i \in Spent'
        PROVE  /\ i.fmt \in 1..Active /\ i.part = Partition(formats[i.fmt], i.date)
               /\ i.part \in DOMAIN counters'[i.fmt] /\ i.n < counters'[i.fmt][i.part].next
    <3>1. CASE i = j
      <4>1. i.fmt = f /\ i.part = p /\ i.date = date /\ i.n = num.n
        BY <1>1, <1>2, <3>1
      <4>2. p \in DOMAIN counters'[f] /\ counters'[f][p].next = num.n + 1
        BY <1>9, <1>11, <1>14
      <4> QED BY <1>5, <1>6, <4>1, <4>2
    <3>2. CASE i \in Spent
      <4>1. /\ i.fmt \in 1..Active /\ i.part = Partition(formats[i.fmt], i.date)
            /\ i.part \in DOMAIN counters[i.fmt] /\ i.n < counters[i.fmt][i.part].next /\ i.n \in Nat
        BY <1>3, <1>6, <3>2 DEF SpentFits, Number
      <4>2. i.part \in DOMAIN counters'[i.fmt] /\ counters[i.fmt][i.part].next <= counters'[i.fmt][i.part].next
        BY <1>17, <4>1
      <4>3. counters[i.fmt][i.part].next \in Nat /\ counters'[i.fmt][i.part].next \in Nat
        <5>1. counters'[i.fmt][i.part] \in Counter /\ counters[i.fmt][i.part] \in Counter
          BY <1>6, <1>16, <4>1, <4>2 DEF RowsOK
        <5> QED BY <5>1 DEF Counter
      <4> QED BY <4>1, <4>2, <4>3
    <3> QED BY <1>21, <3>1, <3>2
  <2> QED BY <1>12, <1>14, <2>1 DEF SpentFits, Partition
<1>23. DrawnFits'
  <2>1. \A g \in 1..Active : \A q : g # num.fmt \/ q # num.part \/ num.part = Stream =>
          CounterOf(g, q)' = CounterOf(g, q)
    BY <1>1, <1>3, <1>17
  <2> QED BY <1>1, <1>2, <1>12, <2>1, DrawnAfterCommit
<1>24. Seeded'
  <2>1. \A g \in 1..Active : \A q \in DOMAIN counters'[g] : counters'[g][q].next \in Nat
    BY <1>16 DEF RowsOK, Counter
  <2>2. \A i \in Spent' : i \in Spent \/ (i.fmt \in 1..Active /\ (i.late \/ (i.fmt = Active /\ change = AtRest)))
    <3>1. ~Passed(f) => f = Active /\ change = AtRest
      BY <1>5, <1>6 DEF Passed
    <3>2. Passed(f) => j.late
      BY <1>1, <1>2, <1>3
    <3>3. j.fmt = f
      BY <1>1, <1>2
    <3> QED BY <1>5, <1>21, <3>1, <3>2, <3>3
  <2>3. \A g \in 1..Active :
          /\ DOMAIN counters[g] \subseteq DOMAIN counters'[g]
          /\ \A q \in DOMAIN counters[g] :
               /\ counters'[g][q].from = counters[g][q].from
               /\ counters'[g][q].restarted = counters[g][q].restarted
               /\ counters[g][q].next <= counters'[g][q].next
          /\ \A q \in DOMAIN counters'[g] \ DOMAIN counters[g] : counters'[g][q].restarted = (g > 1)
    BY <1>17
  <2> QED BY <1>12, <2>1, <2>2, <2>3, SeedsStand
<1>25. NoGaps'
  <2> SUFFICES ASSUME NEW g \in 1..Active, NEW q \in DOMAIN counters'[g] \ {Stream}
               PROVE  LET held == {i \in issued' : i.fmt = g /\ i.part = q}
                          own == {i.n : i \in held}
                      IN /\ Cardinality(held) = Cardinality(own)
                         /\ own = counters'[g][q].from..(counters'[g][q].next - 1)
    BY <1>14 DEF NoGaps
  <2>1. PICK H : H = {i \in issued : i.fmt = g /\ i.part = q}
    OBVIOUS
  <2>2. q \in DOMAIN counters[g] => /\ Cardinality(H) = Cardinality({i.n : i \in H})
                                    /\ {i.n : i \in H} = counters[g][q].from..(counters[g][q].next - 1)
    BY <2>1 DEF SerialDiscipline, NoGaps
  <2>3. CASE g # f \/ q # p
    <3>1. {i \in issued' : i.fmt = g /\ i.part = q} = H
      BY <1>1, <1>2, <2>1, <2>3
    <3>2. q \in DOMAIN counters[g] /\ counters'[g][q] = counters[g][q]
      BY <1>17, <2>3
    <3> QED BY <2>2, <3>1, <3>2
  <2>4. CASE g = f /\ q = p
    <3>1. {i \in issued' : i.fmt = g /\ i.part = q} = H \cup {j}
      BY <1>1, <1>2, <2>1, <2>4
    <3>2. IsFiniteSet(H)
      BY <1>3, <2>1, FS_Subset DEF SerialTypeOK
    <3>3. Cardinality(H) = Cardinality({i.n : i \in H}) /\ {i.n : i \in H} = k.from..(k.next - 1)
      <4>1. CASE p \in DOMAIN counters[f]
        BY <1>7, <2>2, <2>4, <4>1
      <4>2. CASE p \notin DOMAIN counters[f]
        <5>1. \A i \in issued : ~(i.fmt = f /\ i.part = p)
          BY <1>3, <4>2 DEF SpentFits, Spent
        <5>2. H = {} /\ {i.n : i \in H} = {}
          BY <2>1, <2>4, <5>1
        <5>3. k.from = 1 /\ k.next = 1
          BY <1>7, <4>2
        <5>4. k.from..(k.next - 1) = {}
          BY <5>3
        <5> QED BY <5>2, <5>4
      <4> QED BY <4>1, <4>2
    <3>4. /\ Cardinality(H \cup {j}) = Cardinality({i.n : i \in H \cup {j}})
          /\ {i.n : i \in H \cup {j}} = k.from..k.next
      <4>1. k.from \in Nat /\ k.next \in Nat /\ j.n = k.next
        BY <1>2, <1>5, <1>7 DEF Counter
      <4>2. PICK O : O = {i.n : i \in H}
        OBVIOUS
      <4>3. O = k.from..(k.next - 1) /\ Cardinality(H) = Cardinality(O) /\ \A i \in H : i.n \in O
        BY <3>3, <4>2
      <4>4. Cardinality(H \cup {j}) = Cardinality(O \cup {k.next}) /\ O \cup {k.next} = k.from..k.next
        BY <1>7, <3>2, <4>1, <4>3, OneMoreNoGap
      <4>5. {i.n : i \in H \cup {j}} = O \cup {k.next}
        BY <4>1, <4>2
      <4> QED BY <4>4, <4>5
    <3>5. counters'[g][q].from = k.from /\ counters'[g][q].next - 1 = k.next
      BY <1>5, <1>6, <1>9, <1>11, <1>14, <2>4
    <3> QED BY <3>1, <3>4, <3>5
  <2> QED BY <2>3, <2>4
<1> QED BY <1>18, <1>19, <1>20, <1>22, <1>23, <1>24, <1>25 DEF SerialDiscipline

\* What is drawn in time from any format so far is below the next of some counter of
\* the active one, and of the one that goes on with its date.
LEMMA ActiveIsAbove ==
  ASSUME SerialParameters, SerialDiscipline, NEW i \in Spent, ~Exempt(i), NEW rows, rows = counters[Active]
  PROVE  /\ \E p \in DOMAIN rows : i.n < rows[p].next
         /\ formats[Active].mode = "gapless" =>
              \A p \in DOMAIN rows : ~rows[p].restarted /\ (p \in Days => p = i.date) => i.n < rows[p].next
<1>1. SerialTypeOK /\ SpentFits /\ Seeded
  BY DEF SerialDiscipline
<1>2. /\ Active \in 1..Active /\ Active \in Nat /\ formats[Active] \in Format /\ i \in Number
      /\ \A p \in DOMAIN rows : rows[p] \in Counter
  <2>1. Active \in 1..MaxFormats /\ Active \in Nat
    BY <1>1, SerialTypes
  <2>2. Active \in 1..Active
    BY <2>1, <1>1 DEF SerialTypeOK
  <2> QED BY <1>1, <2>1, <2>2, SerialTypes
<1>3. i.n \in Nat /\ i.date \in Days /\ i.fmt \in Nat
  BY <1>2 DEF Number
<1>4. \A p \in DOMAIN rows : rows[p].from \in Nat /\ rows[p].next \in Nat /\ rows[p].from <= rows[p].next
  BY <1>2, RowsAreFit DEF Counter
<1>5. /\ i.fmt \in 1..Active /\ i.part = Partition(formats[i.fmt], i.date)
      /\ i.part \in DOMAIN counters[i.fmt] /\ i.n < counters[i.fmt][i.part].next
  BY <1>1 DEF SpentFits
<1>6. CASE i.fmt < Active
  <2>1. /\ \E p \in DOMAIN rows : i.n < rows[p].next
        /\ \A p \in DOMAIN rows : ~rows[p].restarted /\ (p \in Days => p = i.date) => i.n < rows[p].from
    BY <1>1, <1>2, <1>6 DEF Seeded, SeedsAbove
  <2>2. ASSUME NEW p \in DOMAIN rows, i.n < rows[p].from
        PROVE  i.n < rows[p].next
    BY <1>3, <1>4, <2>2
  <2> QED BY <2>1, <2>2
<1>7. CASE i.fmt = Active
  <2>1. i.part \in DOMAIN rows /\ i.n < rows[i.part].next
    BY <1>5, <1>7
  <2>2. ASSUME formats[Active].mode = "gapless", NEW p \in DOMAIN rows, p \in Days => p = i.date
        PROVE  p = i.part
    <3>1. i.part = IF formats[Active].reset = "daily" THEN i.date ELSE All
      BY <1>2, <1>3, <1>5, <1>7, <2>2, PartitionFits
    <3>2. DOMAIN rows \subseteq IF formats[Active].reset = "daily" THEN Days ELSE {All}
      BY <1>2, <2>2, RowsAreFit
    <3> QED BY <2>2, <3>1, <3>2
  <2> QED BY <2>1, <2>2
<1> QED BY <1>2, <1>3, <1>5, <1>6, <1>7

\* The counters a replacement goes on from.
LEMMA CarriedFits ==
  ASSUME SerialParameters, SerialDiscipline, NEW to \in Format, Accepted(to),
         NEW R, R = Carried(formats[Active], to)
  PROVE  /\ RowsOK(R) /\ RowsFit(to, R) /\ \A p \in DOMAIN R : R[p].from = R[p].next
         /\ SeedsAbove(Active + 1, R)
<1>1. SerialTypeOK
  BY DEF SerialDiscipline
<1>2. PICK rows, old : rows = counters[Active] /\ old = formats[Active]
  OBVIOUS
<1>3. /\ Active \in 1..Active /\ Active \in Nat /\ old \in Format /\ RowsOK(rows) /\ Spent \in SUBSET Number
      /\ \A p \in DOMAIN rows : rows[p] \in Counter
  <2>1. Active \in 1..Active /\ Active \in Nat
    BY <1>1 DEF SerialTypeOK, SerialParameters
  <2> QED BY <1>1, <1>2, <2>1, SerialTypes
<1>4. /\ Accepted(old) /\ IsFiniteSet(DOMAIN rows)
      /\ old.mode = "sequence" => DOMAIN rows = {Stream}
      /\ old.mode = "gapless" => DOMAIN rows \subseteq IF old.reset = "daily" THEN Days ELSE {All}
      /\ \A p \in DOMAIN rows : 1 <= rows[p].from /\ rows[p].from <= rows[p].next
  BY <1>2, <1>3, RowsAreFit
<1>5. \A p \in DOMAIN rows : rows[p].from \in Nat /\ rows[p].next \in Nat /\ 1 <= rows[p].next
  <2>1. ASSUME NEW p \in DOMAIN rows
        PROVE  rows[p].from \in Nat /\ rows[p].next \in Nat
    BY <1>3 DEF Counter
  <2> QED BY <1>4, <2>1
<1>6. \A i \in Spent : i.n \in Nat
  BY <1>3 DEF Number
<1>7. old.mode \in {"gapless", "sequence"} /\ to.mode \in {"gapless", "sequence"}
  BY <1>3 DEF Format, AllocationModes
<1>8. PICK seed : seed = IF old.mode = "sequence" THEN rows[Stream].next ELSE HighestNext(rows)
  OBVIOUS
<1>9. PICK start : start = [from |-> seed, next |-> seed, restarted |-> FALSE]
  OBVIOUS
<1>10. CASE old.mode = "gapless" /\ to.mode = "gapless" /\ old.reset = to.reset
  <2>1. R = [p \in DOMAIN rows |-> [rows[p] EXCEPT !.from = rows[p].next]]
    BY <1>2, <1>10 DEF Carried
  <2>2. DOMAIN R = DOMAIN rows /\ \A p \in DOMAIN rows : R[p] = [rows[p] EXCEPT !.from = rows[p].next]
    BY <2>1
  <2>3. \A p \in DOMAIN rows : /\ R[p] \in Counter /\ R[p].from = rows[p].next /\ R[p].next = rows[p].next
                               /\ R[p].restarted = rows[p].restarted
    BY <1>3, <2>2 DEF Counter
  <2>4. R \in [DOMAIN rows -> Counter]
    BY <2>1, <2>3
  <2>5. RowsOK(R)
    BY <1>3, <2>2, <2>4 DEF RowsOK
  <2>6. RowsFit(to, R) /\ \A p \in DOMAIN R : R[p].from = R[p].next
    BY <1>4, <1>5, <1>10, <2>2, <2>3 DEF RowsFit
  <2>7. ASSUME NEW i \in Spent, ~Exempt(i)
        PROVE  /\ \E p \in DOMAIN R : i.n < R[p].next
               /\ \A p \in DOMAIN R : ~R[p].restarted /\ (p \in Days => p = i.date) => i.n < R[p].from
    <3>1. /\ \E p \in DOMAIN rows : i.n < rows[p].next
          /\ \A p \in DOMAIN rows : ~rows[p].restarted /\ (p \in Days => p = i.date) => i.n < rows[p].next
      BY <1>2, <1>10, <2>7, ActiveIsAbove
    <3> QED BY <2>2, <2>3, <3>1
  <2> QED BY <2>5, <2>6, <2>7 DEF SeedsAbove
<1>11. CASE ~(old.mode = "gapless" /\ to.mode = "gapless" /\ old.reset = to.reset)
  <2>1. PICK q : q = Partition(to, today)
    OBVIOUS
  <2>2. R = [p \in {q} |-> start]
    BY <1>2, <1>8, <1>9, <1>11, <2>1 DEF Carried
  <2>3. DOMAIN R = {q} /\ R[q] = start
    BY <2>2
  <2>4. seed \in Nat /\ 1 <= seed /\ \A p \in DOMAIN rows : rows[p].next <= seed
    <3>1. CASE old.mode = "sequence"
      BY <1>4, <1>5, <1>8, <3>1
    <3>2. CASE old.mode = "gapless"
      BY <1>3, <1>4, <1>5, <1>8, <3>2, HighestIsAbove
    <3> QED BY <1>7, <3>1, <3>2
  <2>5. start \in Counter /\ start.from = seed /\ start.next = seed
    BY <1>9, <2>4 DEF Counter
  <2>6. today \in Days
    BY <1>1 DEF SerialTypeOK
  <2>7. /\ q \in Partitions
        /\ to.mode = "sequence" => q = Stream
        /\ to.mode = "gapless" => q = IF to.reset = "daily" THEN today ELSE All
    BY <2>1, <2>6, PartitionFits
  <2>8. RowsOK(R)
    <3>1. R \in [{q} -> Counter]
      BY <2>2, <2>5
    <3> QED BY <2>3, <2>7, <3>1 DEF RowsOK
  <2>9. RowsFit(to, R) /\ \A p \in DOMAIN R : R[p].from = R[p].next
    <3>1. IsFiniteSet({q})
      BY FS_Singleton
    <3>2. to.mode = "gapless" => {q} \subseteq IF to.reset = "daily" THEN Days ELSE {All}
      BY <2>6, <2>7
    <3>3. \A p \in DOMAIN R : 1 <= R[p].from /\ R[p].from <= R[p].next /\ R[p].from = R[p].next
      BY <2>3, <2>4, <2>5
    <3> QED BY <2>3, <2>7, <3>1, <3>2, <3>3 DEF RowsFit
  <2>10. ASSUME NEW i \in Spent, ~Exempt(i)
         PROVE  i.n < seed
    <3>1. PICK p \in DOMAIN rows : i.n < rows[p].next
      BY <1>2, <2>10, ActiveIsAbove
    <3> QED BY <1>5, <1>6, <2>4, <3>1
  <2> QED BY <2>3, <2>5, <2>8, <2>9, <2>10 DEF SeedsAbove
<1> QED BY <1>10, <1>11

\* A replacement starts: what it goes on from is above all that was drawn in time.
LEMMA SerialStarts ==
  ASSUME SerialParameters, SerialDiscipline, NEW to \in Format, StartReplace(to)
  PROVE  SerialDiscipline'
<1>1. SerialTypeOK
  BY DEF SerialDiscipline
<1>2. PICK R : R = Carried(formats[Active], to)
  OBVIOUS
<1>3. /\ RowsOK(R) /\ RowsFit(to, R) /\ \A p \in DOMAIN R : R[p].from = R[p].next
      /\ SeedsAbove(Active + 1, R)
  BY <1>2, CarriedFits DEF StartReplace
<1>4. change' = [at |-> "copied", to |-> to, rows |-> R] /\ UNCHANGED <<today, formats, counters, issued, call>>
      /\ Active < MaxFormats
  BY <1>2 DEF StartReplace
<1>5. change'.at = "copied" /\ change'.to = to /\ change'.rows = R
  BY <1>4
<1>6. /\ Active' = Active /\ Spent' = Spent /\ \A g, q : CounterOf(g, q)' = CounterOf(g, q)
      /\ \A d \in Callers : \A g, q : Drawing(d, g, q)' = Drawing(d, g, q)
  BY <1>4 DEF Active, Spent, CounterOf, Fresh, Drawing
<1>7. SerialTypeOK'
  BY <1>1, <1>3, <1>4, <1>5, <1>6 DEF SerialTypeOK, RowsOK, Counter
<1>8. \A g \in 1..Active' : RowsFit(formats[g], counters[g])'
  BY <1>4, <1>6 DEF SerialDiscipline, RowsFit, Accepted
<1>9. Replaces'
  BY <1>3, <1>4, <1>5, <1>6 DEF Replaces, RowsFit, Accepted
<1>10. SpentFits'
  BY <1>4, <1>6 DEF SerialDiscipline, SpentFits, Partition
<1>11. DrawnFits'
  BY <1>4, <1>6 DEF SerialDiscipline, DrawnFits, Partition
<1>12. Seeded'
  <2>1. \A g \in 1..Active' : SeedsAbove(g, counters[g])'
    BY <1>4, <1>6 DEF SerialDiscipline, Seeded, SeedsAbove, Exempt
  <2>2. SeedsAbove(Active + 1, change.rows)'
    BY <1>3, <1>5, <1>6 DEF SeedsAbove, Exempt
  <2> QED BY <2>1, <2>2 DEF Seeded
<1>13. NoGaps'
  BY <1>4, <1>6 DEF SerialDiscipline, NoGaps
<1> QED BY <1>7, <1>8, <1>9, <1>10, <1>11, <1>12, <1>13 DEF SerialDiscipline

\* A replacement is committed: its format is the active one, and has given no number.
LEMMA SerialReplaced ==
  ASSUME SerialParameters, SerialDiscipline, CommitReplace
  PROVE  SerialDiscipline'
<1>1. SerialTypeOK /\ SpentFits /\ DrawnFits /\ Seeded
  BY DEF SerialDiscipline
<1>2. PICK to, rows, n : to = change.to /\ rows = change.rows /\ n = Active + 1
  OBVIOUS
<1>3. change # AtRest /\ formats' = Append(formats, to) /\ counters' = Append(counters, rows)
      /\ change' = AtRest /\ UNCHANGED <<today, issued, call>>
  BY <1>2 DEF CommitReplace
<1>4. /\ to \in Format /\ RowsOK(rows) /\ Active < MaxFormats
      /\ RowsFit(to, rows) /\ \A p \in DOMAIN rows : rows[p].from = rows[p].next
      /\ SeedsAbove(n, rows)
  BY <1>1, <1>2, <1>3 DEF SerialDiscipline, SerialTypeOK, Replaces, Seeded
<1>5. /\ Active \in Nat /\ Active \in 1..Active /\ formats \in Seq(Format) /\ Len(formats) = Active
      /\ DOMAIN counters = 1..Active /\ counters = [g \in 1..Active |-> counters[g]]
      /\ \A g \in 1..Active : RowsOK(counters[g])
      /\ issued \in SUBSET Number /\ IsFiniteSet(issued) /\ MaxFormats \in Nat
  <2>1. Active \in Nat /\ Active \in 1..Active /\ formats \in Seq(Format) /\ Len(formats) = Active
    BY <1>1 DEF SerialTypeOK, SerialParameters, Active
  <2> QED BY <1>1, <2>1, SerialTypes DEF SerialParameters
<1>6. /\ formats' \in Seq(Format) /\ Active' = n /\ n \in 1..MaxFormats /\ n \in Nat /\ formats'[n] = to
      /\ \A g \in 1..Active : formats'[g] = formats[g]
  <2>1. formats' \in Seq(Format) /\ Len(formats') = Active + 1 /\ formats'[Active + 1] = to
        /\ \A g \in 1..Active : formats'[g] = formats[g]
    BY <1>3, <1>4, <1>5
  <2> QED BY <1>2, <1>4, <1>5, <2>1 DEF Active
<1>7. /\ counters' = [g \in 1..n |-> counters'[g]] /\ counters'[n] = rows
      /\ \A g \in 1..Active : counters'[g] = counters[g]
  <2>1. PICK S : S = {counters[g] : g \in 1..Active} \cup {rows}
    OBVIOUS
  <2>2. counters \in Seq(S) /\ Len(counters) = Active /\ rows \in S
    BY <1>5, <2>1
  <2>3. counters' \in Seq(S) /\ Len(counters') = n /\ counters'[n] = rows
        /\ \A g \in 1..Active : counters'[g] = counters[g]
    BY <1>2, <1>3, <2>2
  <2>4. counters' = [g \in 1..n |-> counters'[g]]
    BY <2>3
  <2> QED BY <2>3, <2>4
<1>8. \A g \in 1..n : g \in 1..Active \/ g = n
  BY <1>2, <1>5
<1>9. /\ Spent' = Spent /\ \A d \in Callers : \A g, q : Drawing(d, g, q)' = Drawing(d, g, q)
      /\ \A g \in 1..Active : \A q : CounterOf(g, q)' = CounterOf(g, q)
      /\ \A g \in 1..Active : g \in 1..n
  <2>1. Spent' = Spent /\ \A d \in Callers : \A g, q : Drawing(d, g, q)' = Drawing(d, g, q)
    BY <1>3 DEF Spent, Drawing
  <2>2. \A g \in 1..Active : \A q : CounterOf(g, q)' = CounterOf(g, q)
    BY <1>7 DEF CounterOf, Fresh
  <2> QED BY <1>2, <1>5, <2>1, <2>2
<1>10. SerialTypeOK'
  <2>1. \A g \in 1..n : RowsOK(counters'[g])
    BY <1>4, <1>5, <1>7, <1>8
  <2>2. (\A g \in 1..Active : RowsOK(counters[g]))'
    BY <1>6, <2>1 DEF RowsOK, Counter
  <2>3. \A c \in Callers :
          \/ call'[c] = AtRest
          \/ call'[c] \in [at : {"read"}, fmt : 1..n, date : Days]
          \/ call'[c] \in [at : {"drawn"}, num : Number, new : BOOLEAN]
    <3> SUFFICES ASSUME NEW c \in Callers, call[c] \in [at : {"read"}, fmt : 1..Active, date : Days]
                 PROVE  call[c] \in [at : {"read"}, fmt : 1..n, date : Days]
      BY <1>1, <1>3 DEF SerialTypeOK
    <3> QED BY <1>9
  <2> QED BY <1>1, <1>3, <1>6, <1>7, <2>2, <2>3 DEF SerialTypeOK
<1>11. \A g \in 1..Active' : RowsFit(formats[g], counters[g])'
  <2>1. \A g \in 1..n : RowsFit(formats'[g], counters'[g])
    BY <1>4, <1>6, <1>7, <1>8 DEF SerialDiscipline
  <2> QED BY <1>6, <2>1 DEF RowsFit, Accepted
<1>12. Replaces'
  BY <1>3 DEF Replaces
<1>13. SpentFits'
  <2>1. ASSUME NEW i \in Spent
        PROVE  /\ i.fmt \in 1..n /\ i.part = Partition(formats'[i.fmt], i.date)
               /\ i.part \in DOMAIN counters'[i.fmt] /\ i.n < counters'[i.fmt][i.part].next
    BY <1>1, <1>6, <1>7, <1>9 DEF SpentFits
  <2> QED BY <1>6, <1>9, <2>1 DEF SpentFits, Partition
<1>14. DrawnFits'
  <2>1. ASSUME NEW d \in Callers, call'[d].at = "drawn", NEW x, x = call'[d].num
        PROVE  /\ x.fmt \in 1..n /\ x.part = Partition(formats'[x.fmt], x.date)
               /\ CounterOf(x.fmt, x.part)'.from <= x.n /\ x.restarted = CounterOf(x.fmt, x.part)'.restarted
               /\ x.part # Stream => x.n = CounterOf(x.fmt, x.part)'.next
               /\ \A e \in Callers \ {d} : Drawing(e, x.fmt, x.part)' => x.part = Stream /\ call'[e].num.n # x.n
               /\ x.part = Stream => \A i \in issued : i.fmt = x.fmt => i.n # x.n
    <3>1. /\ x.fmt \in 1..Active /\ x.part = Partition(formats[x.fmt], x.date)
          /\ CounterOf(x.fmt, x.part).from <= x.n /\ x.restarted = CounterOf(x.fmt, x.part).restarted
          /\ x.part # Stream => x.n = CounterOf(x.fmt, x.part).next
          /\ \A e \in Callers \ {d} : Drawing(e, x.fmt, x.part) => x.part = Stream /\ call[e].num.n # x.n
          /\ x.part = Stream => \A i \in issued : i.fmt = x.fmt => i.n # x.n
      BY <1>1, <1>3, <2>1 DEF DrawnFits
    <3>2. CounterOf(x.fmt, x.part)' = CounterOf(x.fmt, x.part) /\ formats'[x.fmt] = formats[x.fmt] /\ x.fmt \in 1..n
      BY <1>6, <1>9, <3>1
    <3>3. CounterOf(x.fmt, x.part)'.from <= x.n /\ x.restarted = CounterOf(x.fmt, x.part)'.restarted
      BY <3>1, <3>2
    <3>4. x.part # Stream => x.n = CounterOf(x.fmt, x.part)'.next
      BY <3>1, <3>2
    <3>5. \A e \in Callers \ {d} : Drawing(e, x.fmt, x.part)' => x.part = Stream /\ call'[e].num.n # x.n
      BY <1>3, <1>9, <3>1
    <3> QED BY <3>1, <3>2, <3>3, <3>4, <3>5
  <2> SUFFICES ASSUME NEW c \in Callers, call'[c].at = "drawn"
               PROVE  (LET num == call[c].num
                           k == CounterOf(num.fmt, num.part)
                       IN /\ num.fmt \in 1..Active /\ num.part = Partition(formats[num.fmt], num.date)
                          /\ k.from <= num.n /\ num.restarted = k.restarted
                          /\ num.part # Stream => num.n = k.next
                          /\ \A d \in Callers \ {c} : Drawing(d, num.fmt, num.part) => num.part = Stream /\ call[d].num.n # num.n
                          /\ num.part = Stream => \A i \in issued : i.fmt = num.fmt => i.n # num.n)'
    BY DEF DrawnFits
  <2>2. PICK x : x = call'[c].num
    OBVIOUS
  <2>3. /\ x.fmt \in 1..n /\ x.part = Partition(formats'[x.fmt], x.date)
        /\ CounterOf(x.fmt, x.part)'.from <= x.n /\ x.restarted = CounterOf(x.fmt, x.part)'.restarted
        /\ x.part # Stream => x.n = CounterOf(x.fmt, x.part)'.next
        /\ \A e \in Callers \ {c} : Drawing(e, x.fmt, x.part)' => x.part = Stream /\ call'[e].num.n # x.n
        /\ x.part = Stream => \A i \in issued : i.fmt = x.fmt => i.n # x.n
    BY <2>1, <2>2
  <2>4. (call[c].num.fmt \in 1..Active /\ call[c].num.part = Partition(formats[call[c].num.fmt], call[c].num.date))'
    BY <1>6, <2>2, <2>3 DEF Partition
  <2>5. (CounterOf(call[c].num.fmt, call[c].num.part).from <= call[c].num.n
         /\ call[c].num.restarted = CounterOf(call[c].num.fmt, call[c].num.part).restarted)'
    BY <2>2, <2>3
  <2>6. (call[c].num.part # Stream => call[c].num.n = CounterOf(call[c].num.fmt, call[c].num.part).next)'
    BY <2>2, <2>3
  <2>7. (\A d \in Callers \ {c} : Drawing(d, call[c].num.fmt, call[c].num.part) =>
           call[c].num.part = Stream /\ call[d].num.n # call[c].num.n)'
    BY <2>2, <2>3
  <2>8. (call[c].num.part = Stream => \A i \in issued : i.fmt = call[c].num.fmt => i.n # call[c].num.n)'
    BY <1>3, <2>2, <2>3
  <2> QED BY <2>4, <2>5, <2>6, <2>7, <2>8
<1>15. Seeded'
  <2>1. \A g \in 1..n : SeedsAbove(g, counters'[g])
    BY <1>1, <1>4, <1>7, <1>8 DEF Seeded
  <2>2. (\A g \in 1..Active : SeedsAbove(g, counters[g]))'
    BY <1>6, <1>9, <2>1 DEF SeedsAbove, Exempt
  <2> QED BY <1>3, <2>2 DEF Seeded
<1>16. NoGaps'
  <2> SUFFICES ASSUME NEW g \in 1..n, NEW q \in DOMAIN counters'[g] \ {Stream}
               PROVE  LET held == {i \in issued : i.fmt = g /\ i.part = q}
                          own == {i.n : i \in held}
                      IN /\ Cardinality(held) = Cardinality(own)
                         /\ own = counters'[g][q].from..(counters'[g][q].next - 1)
    BY <1>3, <1>6 DEF NoGaps
  <2>1. CASE g \in 1..Active
    BY <1>7, <2>1 DEF SerialDiscipline, NoGaps
  <2>2. CASE g = n
    <3>1. \A i \in issued : i.fmt # n
      BY <1>1, <1>2, <1>5 DEF SpentFits, Spent
    <3>2. PICK H : H = {i \in issued : i.fmt = g /\ i.part = q}
      OBVIOUS
    <3>3. H = {} /\ {i.n : i \in H} = {}
      BY <2>2, <3>1, <3>2
    <3>4. rows[q] \in Counter /\ rows[q].from = rows[q].next
      BY <1>4, <1>7, <2>2 DEF RowsOK
    <3>5. rows[q].from..(rows[q].next - 1) = {}
      BY <3>4 DEF Counter
    <3> QED BY <1>7, <2>2, <3>2, <3>3, <3>5
  <2> QED BY <1>8, <2>1, <2>2
<1> QED BY <1>10, <1>11, <1>12, <1>13, <1>14, <1>15, <1>16 DEF SerialDiscipline

\* One format, whose counters nothing has used, holds what it must.
LEMMA SerialFirst ==
  ASSUME SerialParameters, SerialInit
  PROVE  SerialDiscipline
<1>1. PICK mode \in AllocationModes, dated \in BOOLEAN :
       /\ formats = <<[mode |-> mode, reset |-> "never", dated |-> dated]>>
       /\ counters = <<IF mode = "sequence"
                         THEN [p \in {Stream} |-> [from |-> 1, next |-> 1, restarted |-> FALSE]]
                         ELSE [p \in {} |-> 0]>>
  BY DEF SerialInit
<1>2. PICK fm, rows : fm = [mode |-> mode, reset |-> "never", dated |-> dated]
       /\ rows = IF mode = "sequence" THEN [p \in {Stream} |-> [from |-> 1, next |-> 1, restarted |-> FALSE]]
                 ELSE [p \in {} |-> 0]
  OBVIOUS
<1>3. formats = <<fm>> /\ counters = <<rows>>
  BY <1>1, <1>2
<1>4. today \in Days /\ issued = {} /\ call = [c \in Callers |-> AtRest] /\ change = AtRest
  BY DEF SerialInit
<1>5. fm \in Format /\ fm.mode = mode /\ fm.reset = "never"
  BY <1>2 DEF Format, Resets
<1>6. /\ formats \in Seq(Format) /\ Active = 1 /\ formats[1] = fm /\ counters[1] = rows
      /\ counters = [g \in 1..1 |-> counters[g]]
  BY <1>3, <1>5 DEF Active
<1>7. \A g \in 1..1 : g = 1
  OBVIOUS
<1>8. RowsOK(rows) /\ RowsFit(fm, rows) /\ \A p \in DOMAIN rows : p = Stream
  <2>1. CASE mode = "sequence"
    <3>1. rows = [p \in {Stream} |-> [from |-> 1, next |-> 1, restarted |-> FALSE]]
      BY <1>2, <2>1
    <3>2. DOMAIN rows = {Stream} /\ rows \in [{Stream} -> Counter] /\ rows[Stream].from = 1 /\ rows[Stream].next = 1
      BY <3>1 DEF Counter
    <3>3. IsFiniteSet({Stream})
      BY FS_Singleton
    <3> QED BY <1>5, <2>1, <3>2, <3>3 DEF RowsOK, RowsFit, Accepted, Partitions
  <2>2. CASE mode # "sequence"
    <3>1. rows = [p \in {} |-> 0]
      BY <1>2, <2>2
    <3>2. DOMAIN rows = {} /\ rows \in [{} -> Counter]
      BY <3>1
    <3>3. IsFiniteSet({})
      BY FS_EmptySet
    <3> QED BY <1>5, <2>2, <3>2, <3>3 DEF RowsOK, RowsFit, Accepted
  <2> QED BY <2>1, <2>2
<1>9. SerialTypeOK
  <2>1. Active \in 1..MaxFormats /\ \A f \in 1..Active : RowsOK(counters[f])
    BY <1>6, <1>7, <1>8 DEF SerialParameters
  <2>2. counters = [f \in 1..Active |-> counters[f]]
    BY <1>6
  <2>3. IsFiniteSet(issued) /\ issued \subseteq Number
    BY <1>4, FS_EmptySet
  <2> QED BY <1>4, <1>6, <2>1, <2>2, <2>3 DEF SerialTypeOK
<1>10. Spent = {}
  BY <1>4 DEF Spent, AtRest
<1> QED BY <1>4, <1>6, <1>7, <1>8, <1>9, <1>10 DEF SerialDiscipline, Replaces, SpentFits, DrawnFits, Seeded, SeedsAbove, NoGaps, AtRest

\* What is not cut is shown as it is.
LEMMA ShownWhole ==
  ASSUME SerialParameters, NEW i \in Number, ~Cut(i)
  PROVE  Shown(i.n) = i.n
<1>1. i.n \in Nat /\ Base ^ Width \in Nat
  BY DEF Number, SerialParameters
<1>2. i.n < Base ^ Width
  BY <1>1 DEF Cut
<1> QED BY <1>2 DEF Shown

\* A repeated number is out of its counter, or past its width.
LEMMA RepeatsFollow ==
  ASSUME SerialParameters, SerialDiscipline
  PROVE  RepeatsOnlyPastTheSeed
<1>1. SerialTypeOK /\ SpentFits /\ DrawnFits /\ Seeded
  BY DEF SerialDiscipline
<1> SUFFICES ASSUME NEW c \in Callers, call[c].at = "drawn", NEW i \in issued, NEW num, num = call[c].num,
                    Rendering(i) = Rendering(num), ~i.late, ~Passed(num.fmt), ~i.restarted,
                    ~num.restarted, ~Cut(i), ~Cut(num)
             PROVE  FALSE
  BY DEF RepeatsOnlyPastTheSeed
<1>2. PICK f, k : f = Active /\ k = CounterOf(f, num.part)
  OBVIOUS
<1>3. /\ Active \in Nat /\ f \in Nat /\ f \in 1..Active /\ \A g \in 1..Active : formats[g] \in Format
      /\ i \in Number /\ num \in Number /\ i \in Spent
      /\ \A p \in DOMAIN counters[f] : counters[f][p] \in Counter
  <2>1. Active \in Nat /\ Active \in 1..Active
    BY <1>1 DEF SerialTypeOK, SerialParameters
  <2>2. i \in Spent
    BY DEF Spent
  <2> QED BY <1>1, <1>2, <2>1, <2>2, SerialTypes
<1>4. i.n \in Nat /\ num.n \in Nat /\ i.date \in Days /\ num.date \in Days
  BY <1>3 DEF Number
<1>5. num.fmt = f
  <2>1. num.fmt \in 1..Active
    BY <1>1 DEF DrawnFits
  <2> QED BY <1>2, <1>3, <2>1 DEF Passed
<1>6. /\ num.part = Partition(formats[f], num.date) /\ k.from <= num.n /\ num.restarted = k.restarted
      /\ num.part # Stream => num.n = k.next
      /\ num.part = Stream => \A j \in issued : j.fmt = f => j.n # num.n
  BY <1>1, <1>2, <1>5 DEF DrawnFits
<1>7. /\ i.fmt \in 1..Active /\ i.part = Partition(formats[i.fmt], i.date)
      /\ i.part \in DOMAIN counters[i.fmt] /\ i.n < counters[i.fmt][i.part].next
  BY <1>1, <1>3 DEF SpentFits
<1>8. i.n = num.n
  BY <1>3, ShownWhole DEF Rendering
<1>9. (IF formats[i.fmt].dated THEN i.date ELSE All) = (IF formats[f].dated THEN num.date ELSE All)
  BY <1>5 DEF Rendering
<1>10. /\ k \in Counter
       /\ k = IF num.part \in DOMAIN counters[f] THEN counters[f][num.part]
              ELSE [from |-> 1, next |-> 1, restarted |-> f > 1]
       /\ Accepted(formats[f])
  BY <1>2, <1>3, RowsAreFit
<1>11. /\ formats[f].mode = "sequence" => num.part = Stream
       /\ formats[f].mode = "gapless" => num.part # Stream
       /\ formats[f].mode = "gapless" => num.part = IF formats[f].reset = "daily" THEN num.date ELSE All
  BY <1>3, <1>4, <1>6, PartitionFits
<1>12. formats[f].mode \in {"gapless", "sequence"}
  BY <1>3 DEF Format, AllocationModes
<1>13. num.date # All /\ All \notin Days /\ Stream \notin Days
  BY <1>4 DEF SerialParameters
<1>14. formats[f].reset = "daily" => i.date = num.date
  BY <1>9, <1>10, <1>13 DEF Accepted
<1>15. CASE i.fmt = f
  <2>1. num.part # Stream
    BY <1>6, <1>8, <1>15
  <2>2. formats[f].mode = "gapless"
    BY <1>11, <1>12, <2>1
  <2>3. i.part = IF formats[f].reset = "daily" THEN i.date ELSE All
    BY <1>3, <1>4, <1>7, <1>15, <2>2, PartitionFits
  <2>4. i.part = num.part
    BY <1>11, <1>14, <2>2, <2>3
  <2>5. num.part \in DOMAIN counters[f] /\ i.n < counters[f][num.part].next
    BY <1>7, <1>15, <2>4
  <2>6. num.n = counters[f][num.part].next
    BY <1>6, <1>10, <2>1, <2>5
  <2> QED BY <1>4, <1>8, <2>5, <2>6
<1>16. CASE i.fmt < f
  <2>1. \A p \in DOMAIN counters[f] : ~counters[f][p].restarted /\ (p \in Days => p = i.date) => i.n < counters[f][p].from
    BY <1>1, <1>3, <1>16 DEF Seeded, SeedsAbove, Exempt
  <2>2. num.part \in Days => num.part = i.date
    BY <1>11, <1>12, <1>13, <1>14
  <2>3. CASE num.part \in DOMAIN counters[f]
    <3>1. k = counters[f][num.part]
      BY <1>10, <2>3
    <3>2. ~counters[f][num.part].restarted
      BY <1>6, <3>1
    <3>3. i.n < k.from
      BY <2>1, <2>2, <2>3, <3>1, <3>2
    <3>4. k.from \in Nat
      BY <1>10 DEF Counter
    <3> QED BY <1>4, <1>6, <1>8, <3>3, <3>4
  <2>4. CASE num.part \notin DOMAIN counters[f]
    <3>1. f > 1
      BY <1>3, <1>7, <1>16
    <3>2. k = [from |-> 1, next |-> 1, restarted |-> f > 1]
      BY <1>10, <2>4
    <3>3. k.restarted
      BY <3>1, <3>2
    <3> QED BY <1>6, <3>3
  <2> QED BY <2>3, <2>4
<1> QED BY <1>2, <1>3, <1>7, <1>15, <1>16

\* Every step keeps the numbers in step.
LEMMA SerialDisciplineStays ==
  ASSUME SerialParameters, SerialDiscipline, [SerialNext]_serialVars
  PROVE  SerialDiscipline'
<1>1. CASE \/ NextDay \/ AbortReplace \/ UNCHANGED serialVars
           \/ \E c \in Callers : Abort(c)
           \/ \E c \in Callers, date \in Days : ReadFormat(c, date)
  BY <1>1, SerialStill
<1>2. ASSUME NEW c \in Callers, Draw(c)
      PROVE  SerialDiscipline'
  <2>1. PICK f, date : f = call[c].fmt /\ date = call[c].date
    OBVIOUS
  <2>2. PICK p : p = Partition(formats[f], date)
    OBVIOUS
  <2>3. PICK num : num = Drawn(c, p)
    OBVIOUS
  <2>4. CASE p = Stream
    BY <1>2, <2>1, <2>2, <2>3, <2>4, SerialDrawsStream
  <2>5. CASE p # Stream
    <3>1. /\ f \in 1..Active /\ date \in Days /\ num \in Number
          /\ num.fmt = f /\ num.date = date /\ num.part = p
          /\ num.n = CounterOf(f, p).next /\ num.restarted = CounterOf(f, p).restarted
          /\ CounterFree(f, p) /\ DOMAIN call' = Callers
          /\ call'[c] \in [at : {"drawn"}, num : Number, new : BOOLEAN] /\ call'[c].num = num
          /\ \A d \in Callers \ {c} : call'[d] = call[d]
      BY <1>2, <2>1, <2>2, <2>3, <2>5, DrawsNext
    <3>2. UNCHANGED <<today, formats, issued, change, counters>>
      BY <1>2, <2>1, <2>2, <2>5 DEF Draw
    <3>3. PICK new \in BOOLEAN : call'[c] = [at |-> "drawn", num |-> num, new |-> new]
      BY <3>1
    <3> QED BY <2>2, <2>5, <3>1, <3>2, <3>3, SerialDrawsGapless
  <2> QED BY <2>4, <2>5
<1>3. ASSUME NEW c \in Callers, Commit(c)
      PROVE  SerialDiscipline'
  BY <1>3, SerialWritesStream, SerialWritesGapless
<1>4. ASSUME NEW to \in Format, StartReplace(to)
      PROVE  SerialDiscipline'
  BY <1>4, SerialStarts
<1>5. CASE CommitReplace
  BY <1>5, SerialReplaced
<1> QED BY <1>1, <1>2, <1>3, <1>4, <1>5 DEF SerialNext

\* Whatever the days, formats, transactions and replacements, the counters of numbers
\* and the numbers drawn stay in step.
THEOREM NumbersStayInStep == SerialParameters /\ SerialSpec => []SerialDiscipline
<1>1. ASSUME SerialParameters PROVE SerialSpec => []SerialDiscipline
  <2>1. SerialInit => SerialDiscipline
    BY <1>1, SerialFirst
  <2>2. SerialDiscipline /\ [SerialNext]_serialVars => SerialDiscipline'
    BY <1>1, SerialDisciplineStays
  <2> QED BY <2>1, <2>2, PTL DEF SerialSpec
<1> QED BY <1>1

\* 0051: a gapless counter is locked to the end of the transaction that moves it, so
\* that its numbers run without a gap from where it began, each on one document.
THEOREM GaplessNumbers == SerialParameters /\ SerialSpec => []NoGaps
<1>1. SerialDiscipline => NoGaps
  BY DEF SerialDiscipline
<1> QED BY <1>1, NumbersStayInStep, PTL

\* A number drawn is on a document already only in the cases that the code leaves open:
\* a format whose counters were carried on, a date that was not seeded, a width outgrown.
THEOREM RepeatsWhereTheCodeLetsThem == SerialParameters /\ SerialSpec => []RepeatsOnlyPastTheSeed
<1>1. ASSUME SerialParameters PROVE SerialSpec => []RepeatsOnlyPastTheSeed
  <2>1. SerialDiscipline => RepeatsOnlyPastTheSeed
    BY <1>1, RepeatsFollow
  <2>2. SerialSpec => []SerialDiscipline
    BY <1>1, NumbersStayInStep
  <2> QED BY <2>1, <2>2, PTL
<1> QED BY <1>1

-----------------------------------------------------------------------------
(* Payment arrangements. *)

\* Instalments to apply coverage to: those there are, paid where the arrangement is complete.
Instalments(ss) ==
  /\ ss \in [Arrangements -> Seq(Slot)]
  /\ \A a \in Arrangements :
       /\ DOMAIN ss[a] = DOMAIN slots[a]
       /\ arr[a].state = "completed" => \A i \in DOMAIN ss[a] : ss[a][i].state = "paid"

\* What most steps do: no cover is new, nothing comes back to life, instalments are only
\* added, and a bill is not issued.
QuietArrangements ==
  \A a \in Arrangements :
    /\ arr'[a].covers = arr[a].covers
    /\ arr'[a].state \in LiveStates => arr[a].state \in LiveStates
    /\ arr'[a].state = "none" => DOMAIN slots'[a] = {}
    /\ DOMAIN slots[a] \subseteq DOMAIN slots'[a]
    /\ arr'[a].state = "completed" => \A i \in DOMAIN slots'[a] : slots'[a][i].state = "paid"
QuietBills ==
  \A b \in Bills : reminder'[b] = "none" =>
    reminder[b] = "none" /\ owed'[b] = owed[b] /\ allocated'[b] = allocated[b]

\* Such a step keeps the invariant if it keeps the types.
LEMMA QuietKeeps ==
  ASSUME PlanDiscipline, PlanTypeOK', QuietArrangements, QuietBills,
         \A j \in Jobs : todo'[j] \subseteq todo[j] \cup Existing
  PROVE  PlanDiscipline'
<1>1. Apart'
  BY DEF PlanDiscipline, Apart, CoversLive, QuietArrangements
<1>2. NotIssuedYet'
  <2>1. \A b \in Bills : Covering(b)' = Covering(b)
    BY DEF Covering, QuietArrangements
  <2> QED BY <2>1 DEF PlanDiscipline, NotIssuedYet, QuietBills
<1>3. Existing \subseteq Existing'
  BY DEF Existing, Keys, QuietArrangements
<1>4. \A j \in Jobs : todo'[j] \subseteq Existing'
  BY <1>3 DEF PlanDiscipline
<1>5. CompletedMeansPaid'
  BY DEF CompletedMeansPaid, QuietArrangements
<1> QED BY <1>1, <1>2, <1>4, <1>5 DEF PlanDiscipline, QuietArrangements

\* A function on the places of a sequence is one.
LEMMA SameLength ==
  ASSUME NEW S, NEW s \in Seq(S), NEW t, t = [i \in DOMAIN s |-> t[i]],
         \A i \in DOMAIN s : t[i] \in S
  PROVE  t \in Seq(S)
<1>1. DOMAIN s = 1..Len(s) /\ Len(s) \in Nat
  BY LenProperties
<1>2. t \in [1..Len(s) -> S]
  BY <1>1
<1> QED BY <1>1, <1>2, SeqDef

\* Coverage marks instalments paid and nothing else.
LEMMA PaysUpToKeeps ==
  ASSUME NEW s \in Seq(Slot), NEW n
  PROVE  /\ PaysUpTo(s, n) \in Seq(Slot) /\ DOMAIN PaysUpTo(s, n) = DOMAIN s
         /\ \A i \in DOMAIN s : /\ s[i].state = "paid" => PaysUpTo(s, n)[i].state = "paid"
                                /\ PaysUpTo(s, n)[i].state = "paid" \/ PaysUpTo(s, n)[i] = s[i]
<1> DEFINE t == PaysUpTo(s, n)
<1>1. \A i \in DOMAIN s : s[i] \in Slot
  BY LenProperties, ElementOfSeq
<1>2. ASSUME NEW i \in DOMAIN s PROVE t[i] \in Slot
  <2>1. [s[i] EXCEPT !.state = "paid"] \in Slot
    BY <1>1 DEF Slot
  <2>2. t[i] = s[i] \/ t[i] = [s[i] EXCEPT !.state = "paid"]
    BY DEF PaysUpTo
  <2> QED BY <1>1, <2>1, <2>2
<1>3. t = [i \in DOMAIN s |-> t[i]]
  BY DEF PaysUpTo
<1>4. t \in Seq(Slot)
  <2> HIDE DEF t
  <2> QED BY <1>2, <1>3, SameLength
<1>5. \A i \in DOMAIN s : t[i].state = "paid" \/ t[i] = s[i]
  BY <1>1 DEF PaysUpTo, Slot
<1>6. \A i \in DOMAIN s : s[i].state = "paid" => t[i].state = "paid"
  BY <1>5
<1> QED BY <1>3, <1>4, <1>5, <1>6

\* Coverage over good instalments gives good instalments.
LEMMA CoverageInstalments ==
  ASSUME NEW ss, Instalments(ss), NEW b \in Bills, NEW n
  PROVE  Instalments(PaidSlots(b, n, ss))
<1>1. ASSUME NEW a \in Arrangements
      PROVE  /\ PaidSlots(b, n, ss)[a] \in Seq(Slot)
             /\ DOMAIN PaidSlots(b, n, ss)[a] = DOMAIN slots[a]
             /\ arr[a].state = "completed" =>
                  \A i \in DOMAIN ss[a] : PaidSlots(b, n, ss)[a][i].state = "paid"
  <2>1. ss[a] \in Seq(Slot) /\ DOMAIN ss[a] = DOMAIN slots[a]
    BY DEF Instalments
  <2>2. PaidSlots(b, n, ss)[a] = PaysUpTo(ss[a], n[a]) \/ PaidSlots(b, n, ss)[a] = ss[a]
    BY DEF PaidSlots
  <2> QED BY <2>1, <2>2, PaysUpToKeeps DEF Instalments
<1>2. PaidSlots(b, n, ss) = [a \in Arrangements |-> PaidSlots(b, n, ss)[a]]
  BY DEF PaidSlots
<1>3. \A a \in Arrangements : DOMAIN ss[a] = DOMAIN slots[a]
  BY DEF Instalments
<1> QED BY <1>1, <1>2, <1>3 DEF Instalments

\* Applying coverage completes an arrangement only when it is paid.
LEMMA CoverageKeeps ==
  ASSUME PlanDiscipline, NEW ss, Instalments(ss), NEW b \in Bills, NEW n, NEW due,
         CoverageOf(b, n, due, ss)
  PROVE  /\ QuietArrangements /\ slots' \in [Arrangements -> Seq(Slot)]
         /\ arr' \in [Arrangements -> [state : LiveStates \cup {"none", "completed", "cancelled"},
                                       covers : SUBSET Bills]]
<1>1. Instalments(slots')
  BY CoverageInstalments DEF CoverageOf
<1>2. arr \in [Arrangements -> [state : LiveStates \cup {"none", "completed", "cancelled"},
                                covers : SUBSET Bills]]
  BY DEF PlanDiscipline, PlanTypeOK
<1>3. ASSUME NEW a \in Arrangements
      PROVE  \/ arr'[a] = arr[a]
             \/ /\ arr[a].state = "active" /\ AllPaid(slots'[a])
                /\ arr'[a] = [arr[a] EXCEPT !.state = "completed"]
  BY DEF CoverageOf
<1>4. ASSUME NEW a \in Arrangements
      PROVE  /\ arr'[a] \in [state : LiveStates \cup {"none", "completed", "cancelled"},
                             covers : SUBSET Bills]
             /\ arr'[a].covers = arr[a].covers
             /\ \/ arr'[a].state = arr[a].state
                \/ arr[a].state = "active" /\ arr'[a].state = "completed" /\ AllPaid(slots'[a])
  <2>1. arr[a] \in [state : LiveStates \cup {"none", "completed", "cancelled"},
                    covers : SUBSET Bills]
    BY <1>2
  <2>2. CASE arr'[a] = arr[a]
    BY <2>1, <2>2
  <2>3. CASE /\ arr[a].state = "active" /\ AllPaid(slots'[a])
             /\ arr'[a] = [arr[a] EXCEPT !.state = "completed"]
    BY <2>1, <2>3
  <2> QED BY <1>3, <2>2, <2>3
<1>5. arr' = [a \in Arrangements |-> arr'[a]]
  BY DEF CoverageOf
<1>6. \A a \in Arrangements : DOMAIN slots'[a] = DOMAIN slots[a]
  BY <1>1 DEF Instalments
<1>7. ASSUME NEW a \in Arrangements, arr'[a].state = "completed"
      PROVE  \A i \in DOMAIN slots'[a] : slots'[a][i].state = "paid"
  <2>1. CASE arr[a].state = "completed"
    BY <1>1, <2>1 DEF Instalments
  <2>2. CASE AllPaid(slots'[a])
    BY <2>2 DEF AllPaid
  <2> QED BY <1>4, <1>7, <2>1, <2>2
<1>8. QuietArrangements
  BY <1>4, <1>6, <1>7 DEF QuietArrangements, LiveStates, PlanDiscipline
<1>9. arr' \in [Arrangements -> [state : LiveStates \cup {"none", "completed", "cancelled"},
                                 covers : SUBSET Bills]]
  BY <1>4, <1>5
<1> QED BY <1>1, <1>8, <1>9 DEF Instalments

\* One instalment changed among good instalments.
LEMMA OneInstalment ==
  ASSUME PlanDiscipline, NEW ss, Instalments(ss), NEW k \in Existing, NEW slot \in Slot,
         arr[k[1]].state = "completed" => slot.state = "paid"
  PROVE  Instalments([ss EXCEPT ![k[1]][k[2]] = slot])
<1> DEFINE a == k[1]  new == [ss[a] EXCEPT ![k[2]] = slot]
<1>1. a \in Arrangements /\ k[2] \in DOMAIN slots[a]
  BY DEF Existing, Keys
<1>2. ss[a] \in Seq(Slot) /\ k[2] \in 1..Len(ss[a]) /\ DOMAIN ss[a] = 1..Len(ss[a])
  BY <1>1, LenProperties DEF Instalments
<1>3. new \in Seq(Slot) /\ DOMAIN new = DOMAIN ss[a]
  BY <1>2, ExceptSeq
<1>4. \A i \in DOMAIN ss[a] : new[i] = IF i = k[2] THEN slot ELSE ss[a][i]
  BY <1>2
<1> DEFINE all == [ss EXCEPT ![a] = new]
<1>5. all[a] = new /\ all \in [Arrangements -> Seq(Slot)]
       /\ \A d \in Arrangements \ {a} : all[d] = ss[d]
  <2> HIDE DEF new
  <2> QED BY <1>1, <1>3 DEF Instalments
<1>6. arr[a].state = "completed" => \A i \in DOMAIN new : new[i].state = "paid"
  BY <1>1, <1>3, <1>4 DEF Instalments
<1>7. Instalments(all)
  <2> HIDE DEF new, all
  <2> QED BY <1>1, <1>3, <1>5, <1>6 DEF Instalments
<1>8. all = [ss EXCEPT ![k[1]][k[2]] = slot]
  OBVIOUS
<1> QED BY <1>7, <1>8

\* The instalments there are, are good; and what good instalments may become.
LEMMA InstalmentsAsTheyAre ==
  ASSUME PlanDiscipline
  PROVE  /\ Instalments(slots)
         /\ \A k \in Existing : SlotAt(k) \in Slot /\ k[1] \in Arrangements
         /\ \A k \in Existing : arr[k[1]].state = "completed" => SlotAt(k).state = "paid"
<1>1. ASSUME NEW k \in Existing PROVE SlotAt(k) \in Slot /\ k[1] \in Arrangements
  <2>1. k[1] \in Arrangements /\ k[2] \in DOMAIN slots[k[1]]
    BY DEF Existing, Keys
  <2>2. slots[k[1]] \in Seq(Slot)
    BY <2>1 DEF PlanDiscipline, PlanTypeOK
  <2> QED BY <2>1, <2>2, LenProperties, ElementOfSeq DEF SlotAt
<1>2. Instalments(slots)
  BY DEF Instalments, PlanDiscipline, PlanTypeOK, CompletedMeansPaid
<1>3. ASSUME NEW k \in Existing, arr[k[1]].state = "completed" PROVE SlotAt(k).state = "paid"
  BY <1>3 DEF SlotAt, Existing, Keys, PlanDiscipline, CompletedMeansPaid
<1> QED BY <1>1, <1>2, <1>3

\* A step that leaves the arrangements alone and has good instalments after it.
LEMMA SameArrangements ==
  ASSUME PlanDiscipline, Instalments(slots'), arr' = arr
  PROVE  QuietArrangements
BY DEF Instalments, QuietArrangements, PlanDiscipline

\* An allocation, in a transaction that has made good instalments.
LEMMA AllocatedKeeps ==
  ASSUME PlanDiscipline, NEW ss, Instalments(ss), NEW b \in Bills, Payable(b), Allocated(b, ss),
         UNCHANGED <<adopting, todo>>
  PROVE  PlanDiscipline'
<1>1. /\ owed \in [Bills -> Nat] /\ allocated \in [Bills -> Nat]
      /\ collected \in [Arrangements -> Int]
      /\ reminder \in [Bills -> {"none", "running", "stopped_paid", "stopped_arrangement"}]
  BY DEF PlanDiscipline, PlanTypeOK
<1>2. CoverageOf(b, collected', owed', ss)
  BY DEF Allocated
<1>3. /\ QuietArrangements /\ slots' \in [Arrangements -> Seq(Slot)]
      /\ arr' \in [Arrangements -> [state : LiveStates \cup {"none", "completed", "cancelled"},
                                    covers : SUBSET Bills]]
  BY <1>2, CoverageKeeps
<1>4. owed' \in [Bills -> Nat] /\ allocated' \in [Bills -> Nat]
  BY <1>1 DEF Allocated, Payable
<1>5. collected' \in [Arrangements -> Int]
  BY <1>1 DEF Allocated
<1>6. reminder' \in [Bills -> {"none", "running", "stopped_paid", "stopped_arrangement"}]
  BY <1>1 DEF Allocated
<1>7. PlanTypeOK'
  BY <1>3, <1>4, <1>5, <1>6 DEF PlanDiscipline, PlanTypeOK
<1>8. reminder[b] # "none"
  BY DEF Payable, PlanDiscipline, NotIssuedYet
<1>9. QuietBills
  BY <1>1, <1>8 DEF QuietBills, Allocated
<1> QED BY <1>3, <1>7, <1>9, QuietKeeps DEF PlanDiscipline

\* An instalment is missed, among good instalments.
LEMMA MissesKeeps ==
  ASSUME PlanDiscipline, NEW ss, Instalments(ss), NEW k \in Existing,
         ss[k[1]][k[2]].state # "paid", Misses(k, ss), UNCHANGED <<money, adopting>>,
         todo' \in [Jobs -> SUBSET Keys], \A j \in Jobs : todo'[j] \subseteq todo[j]
  PROVE  PlanDiscipline'
<1> DEFINE a == k[1]  slot == [ss[a][k[2]] EXCEPT !.state = "missed"]
<1>1. a \in Arrangements /\ k[2] \in DOMAIN ss[a]
  BY DEF Existing, Keys, Instalments
<1>2. ss[a] \in Seq(Slot) /\ ss[a][k[2]] \in Slot
  <2>1. ss[a] \in Seq(Slot)
    BY <1>1 DEF Instalments
  <2> QED BY <1>1, <2>1, LenProperties, ElementOfSeq
<1>3. slot \in Slot
  BY <1>2 DEF Slot
<1>4. arr[a].state # "completed"
  BY <1>1 DEF Instalments
<1>5. slots' = [ss EXCEPT ![k[1]][k[2]] = slot]
  BY DEF Misses
<1>6. Instalments(slots')
  <2> HIDE DEF slot
  <2> QED BY <1>3, <1>4, <1>5, OneInstalment
<1>7. arr \in [Arrangements -> [state : LiveStates \cup {"none", "completed", "cancelled"},
                                covers : SUBSET Bills]]
  BY DEF PlanDiscipline, PlanTypeOK
<1>8. \/ arr' = arr
      \/ /\ arr[a].state = "active"
         /\ arr' = [arr EXCEPT ![a] = [arr[a] EXCEPT !.state = "broken"]]
  BY DEF Misses
<1>9. arr' \in [Arrangements -> [state : LiveStates \cup {"none", "completed", "cancelled"},
                                 covers : SUBSET Bills]]
  <2>1. [arr[a] EXCEPT !.state = "broken"] \in
          [state : LiveStates \cup {"none", "completed", "cancelled"}, covers : SUBSET Bills]
    BY <1>1, <1>7 DEF LiveStates
  <2> QED BY <1>7, <1>8, <2>1
<1>10. \A d \in Arrangements :
         /\ arr'[d].covers = arr[d].covers
         /\ \/ arr'[d].state = arr[d].state
            \/ arr[d].state = "active" /\ arr'[d].state = "broken"
  <2>1. ASSUME NEW d \in Arrangements
        PROVE  arr'[d] = arr[d] \/ /\ arr[d].state = "active"
                                   /\ arr'[d] = [arr[d] EXCEPT !.state = "broken"]
    BY <1>1, <1>7, <1>8
  <2>2. \A d \in Arrangements :
          /\ [arr[d] EXCEPT !.state = "broken"].covers = arr[d].covers
          /\ [arr[d] EXCEPT !.state = "broken"].state = "broken"
    BY <1>7
  <2> QED BY <2>1, <2>2
<1>11. QuietArrangements
  BY <1>6, <1>10 DEF QuietArrangements, Instalments, LiveStates, PlanDiscipline
<1>12. /\ reminder' \in [Bills -> {"none", "running", "stopped_paid", "stopped_arrangement"}]
       /\ QuietBills
  BY DEF Misses, money, QuietBills, PlanDiscipline, PlanTypeOK
<1>13. PlanTypeOK'
  BY <1>6, <1>9, <1>12 DEF Instalments, PlanDiscipline, PlanTypeOK, money
<1> QED BY <1>11, <1>12, <1>13, QuietKeeps

(* One lemma for each action. *)

\* The types of what a step leaves alone carry over.
LEMMA TypesOfTheRest ==
  ASSUME PlanDiscipline,
         arr' \in [Arrangements -> [state : LiveStates \cup {"none", "completed", "cancelled"},
                                   covers : SUBSET Bills]],
         slots' \in [Arrangements -> Seq(Slot)],
         reminder' \in [Bills -> {"none", "running", "stopped_paid", "stopped_arrangement"}],
         UNCHANGED <<money, adopting>>, todo' \in [Jobs -> SUBSET Keys]
  PROVE  PlanTypeOK'
BY DEF PlanDiscipline, PlanTypeOK, money

LEMMA AllocateKeepsPlans ==
  ASSUME PlanDiscipline, NEW b \in Bills, Allocate(b)
  PROVE  PlanDiscipline'
BY InstalmentsAsTheyAre, AllocatedKeeps DEF Allocate

LEMMA UnallocateKeepsPlans ==
  ASSUME PlanDiscipline, NEW b \in Bills, Unallocate(b)
  PROVE  PlanDiscipline'
<1>1. /\ owed \in [Bills -> Nat] /\ allocated \in [Bills -> Nat]
      /\ collected \in [Arrangements -> Int]
      /\ reminder \in [Bills -> {"none", "running", "stopped_paid", "stopped_arrangement"}]
  BY DEF PlanDiscipline, PlanTypeOK
<1>2. owed' \in [Bills -> Nat] /\ allocated' \in [Bills -> Nat]
  BY <1>1 DEF Unallocate
<1>3. collected' \in [Arrangements -> Int]
  BY <1>1 DEF Unallocate
<1>4. reminder' \in [Bills -> {"none", "running", "stopped_paid", "stopped_arrangement"}]
  BY <1>1 DEF Unallocate
<1>5. PlanTypeOK'
  BY <1>2, <1>3, <1>4 DEF Unallocate, PlanDiscipline, PlanTypeOK
<1>6. reminder[b] # "none"
  BY DEF Unallocate, PlanDiscipline, NotIssuedYet
<1>7. QuietBills
  BY <1>1, <1>6 DEF QuietBills, Unallocate
<1>8. QuietArrangements
  BY InstalmentsAsTheyAre, SameArrangements DEF Unallocate
<1> QED BY <1>5, <1>7, <1>8, QuietKeeps DEF Unallocate, PlanDiscipline

\* A plan is made for bills that no live arrangement covers.
LEMMA CreateKeepsPlans ==
  ASSUME PlanDiscipline, NEW a \in Arrangements, NEW bs \in SUBSET Bills, Create(a, bs)
  PROVE  PlanDiscipline'
<1> DEFINE Row == [state : LiveStates \cup {"none", "completed", "cancelled"}, covers : SUBSET Bills]
           new == [state |-> "active", covers |-> bs]
           plan == [i \in 1..Count |-> NewSlot]
<1>1. arr \in [Arrangements -> Row] /\ slots \in [Arrangements -> Seq(Slot)]
  BY DEF PlanDiscipline, PlanTypeOK
<1>2. plan \in Seq(Slot)
  <2>1. NewSlot \in Slot
    BY DEF NewSlot, Slot, Unsettled, Ahead, Due, Overdue
  <2>2. plan \in [1..Count -> Slot]
    BY <2>1
  <2> QED BY <2>2, SeqDef, ParameterAssumption
<1>3. new \in Row
  BY DEF LiveStates
<1>4. arr' \in [Arrangements -> Row] /\ arr'[a] = new /\ \A d \in Arrangements \ {a} : arr'[d] = arr[d]
  <2> HIDE DEF new, Row
  <2> QED BY <1>1, <1>3 DEF Create, new
<1>5. /\ slots' \in [Arrangements -> Seq(Slot)] /\ slots'[a] = plan
      /\ \A d \in Arrangements \ {a} : slots'[d] = slots[d]
  <2> HIDE DEF plan
  <2> QED BY <1>1, <1>2 DEF Create, plan
<1>6. /\ reminder' \in [Bills -> {"none", "running", "stopped_paid", "stopped_arrangement"}]
      /\ \A b \in Bills : reminder'[b] = "none" => reminder[b] = "none"
  BY DEF Create, Stopped, PlanDiscipline, PlanTypeOK
<1>7. PlanTypeOK'
  <2>1. UNCHANGED <<money, adopting, todo>> /\ todo \in [Jobs -> SUBSET Keys]
    BY DEF Create, PlanDiscipline, PlanTypeOK
  <2> HIDE DEF Row, new, plan
  <2> QED BY <1>4, <1>5, <1>6, <2>1, TypesOfTheRest DEF Row
<1>8. Apart'
  <2>1. ASSUME NEW b \in Bills, NEW d \in Arrangements, CoversLive(d, b)'
        PROVE  CoversLive(d, b) \/ (d = a /\ b \in bs)
    <3>1. CASE d = a
      BY <1>4, <2>1, <3>1 DEF CoversLive
    <3>2. CASE d # a
      BY <1>4, <2>1, <3>2 DEF CoversLive
    <3> QED BY <3>1, <3>2
  <2>2. \A b \in bs, d \in Arrangements : ~CoversLive(d, b)
    BY DEF Create, Covered, Covering, CoversLive
  <2>3. ASSUME NEW b \in Bills \ bs, NEW d \in Arrangements, CoversLive(d, b)' PROVE CoversLive(d, b)
    BY <2>1, <2>3
  <2> QED BY <2>1, <2>2, <2>3 DEF Apart, PlanDiscipline
<1>9. NotIssuedYet'
  <2>1. \A b \in bs : reminder[b] # "none"
    BY DEF Create, PlanDiscipline, NotIssuedYet
  <2>2. \A b \in Bills \ bs : Covering(b)' \subseteq Covering(b)
    BY <1>4 DEF Covering
  <2>3. UNCHANGED <<owed, allocated>>
    BY DEF Create, money
  <2> QED BY <1>6, <2>1, <2>2, <2>3 DEF PlanDiscipline, NotIssuedYet
<1>10. \A d \in Arrangements : arr'[d].state = "none" => DOMAIN slots'[d] = {}
  BY <1>4, <1>5 DEF PlanDiscipline
<1>11. Existing \subseteq Existing'
  <2>1. DOMAIN slots[a] = {}
    BY DEF Create, PlanDiscipline
  <2> QED BY <1>5, <2>1 DEF Existing, Keys
<1>12. \A j \in Jobs : todo'[j] \subseteq Existing'
  BY <1>11 DEF Create, PlanDiscipline
<1>13. CompletedMeansPaid'
  BY <1>4, <1>5 DEF PlanDiscipline, CompletedMeansPaid
<1> QED BY <1>7, <1>8, <1>9, <1>10, <1>12, <1>13 DEF PlanDiscipline

\* A broken arrangement still covers its bills, so bringing it back covers none twice.
LEMMA ReactivateKeepsPlans ==
  ASSUME PlanDiscipline, NEW a \in Arrangements, Reactivate(a)
  PROVE  PlanDiscipline'
<1> DEFINE ss == slots[a]
           missed == Cardinality({i \in DOMAIN ss : ss[i].state = "missed"})
           moved == [i \in DOMAIN ss |-> IF ss[i].state \in Unsettled
                                         THEN [ss[i] EXCEPT !.near = Ahead] ELSE ss[i]]
           more == [i \in 1..missed |-> NewSlot]
<1>1. ss \in Seq(Slot) /\ DOMAIN ss = 1..Len(ss) /\ Len(ss) \in Nat
  BY LenProperties DEF PlanDiscipline, PlanTypeOK
<1>2. missed \in Nat
  <2>1. IsFiniteSet(DOMAIN ss)
    BY <1>1, FS_Interval
  <2>2. IsFiniteSet({i \in DOMAIN ss : ss[i].state = "missed"})
    BY <2>1, FS_Subset
  <2> QED BY <2>2, FS_CardinalityType
<1>3. moved \in Seq(Slot) /\ DOMAIN moved = DOMAIN ss
  <2>1. ASSUME NEW i \in DOMAIN ss PROVE moved[i] \in Slot
    <3>1. ss[i] \in Slot
      BY <1>1, ElementOfSeq
    <3>2. [ss[i] EXCEPT !.near = Ahead] \in Slot
      BY <3>1 DEF Slot, Ahead, Due, Overdue
    <3> QED BY <3>1, <3>2
  <2>2. moved = [i \in DOMAIN ss |-> moved[i]]
    OBVIOUS
  <2> HIDE DEF moved
  <2> QED BY <1>1, <2>1, <2>2, SameLength
<1>4. more \in Seq(Slot)
  <2>1. NewSlot \in Slot
    BY DEF NewSlot, Slot, Unsettled, Ahead, Due, Overdue
  <2> HIDE DEF missed
  <2>2. more \in [1..missed -> Slot]
    BY <2>1
  <2> QED BY <1>2, <2>2, SeqDef
<1>5. moved \o more \in Seq(Slot) /\ DOMAIN ss \subseteq DOMAIN (moved \o more)
  <2> HIDE DEF moved, more, ss
  <2>1. moved \o more \in Seq(Slot) /\ Len(moved \o more) = Len(moved) + Len(more)
    BY <1>3, <1>4, ConcatProperties
  <2>2. DOMAIN moved = 1..Len(moved) /\ Len(moved) \in Nat /\ Len(more) \in Nat
    BY <1>3, <1>4, LenProperties
  <2>3. DOMAIN (moved \o more) = 1..Len(moved \o more)
    BY <2>1, LenProperties
  <2> QED BY <1>3, <2>1, <2>2, <2>3
<1>6. arr[a].state = "broken" /\ arr' = [arr EXCEPT ![a] = [arr[a] EXCEPT !.state = "active"]]
  BY DEF Reactivate
<1>7. slots' = [slots EXCEPT ![a] = moved \o more]
  BY DEF Reactivate
<1> DEFINE Row == [state : LiveStates \cup {"none", "completed", "cancelled"}, covers : SUBSET Bills]
<1>8. arr \in [Arrangements -> Row] /\ slots \in [Arrangements -> Seq(Slot)]
  BY DEF PlanDiscipline, PlanTypeOK
<1>9. /\ arr' \in [Arrangements -> Row] /\ arr'[a].covers = arr[a].covers /\ arr'[a].state = "active"
      /\ \A d \in Arrangements \ {a} : arr'[d] = arr[d]
  <2>1. /\ [arr[a] EXCEPT !.state = "active"] \in Row
        /\ [arr[a] EXCEPT !.state = "active"].covers = arr[a].covers
        /\ [arr[a] EXCEPT !.state = "active"].state = "active"
    BY <1>8 DEF LiveStates
  <2> QED BY <1>6, <1>8, <2>1
<1>10. /\ slots' \in [Arrangements -> Seq(Slot)] /\ slots'[a] = moved \o more
       /\ \A d \in Arrangements \ {a} : slots'[d] = slots[d]
  <2> HIDE DEF moved, more
  <2> QED BY <1>5, <1>7, <1>8
<1>11. QuietArrangements
  <2> HIDE DEF moved, more
  <2> QED BY <1>5, <1>6, <1>9, <1>10 DEF QuietArrangements, LiveStates, PlanDiscipline, CompletedMeansPaid
<1>12. /\ reminder' \in [Bills -> {"none", "running", "stopped_paid", "stopped_arrangement"}]
       /\ QuietBills
  BY DEF Reactivate, Stopped, money, QuietBills, PlanDiscipline, PlanTypeOK
<1>13. UNCHANGED <<money, adopting, todo>> /\ todo \in [Jobs -> SUBSET Keys]
  BY DEF Reactivate, PlanDiscipline, PlanTypeOK
<1>14. PlanTypeOK'
  <2> HIDE DEF Row, moved, more
  <2> QED BY <1>9, <1>10, <1>12, <1>13, TypesOfTheRest DEF Row
<1> QED BY <1>11, <1>12, <1>13, <1>14, QuietKeeps

LEMMA CancelKeepsPlans ==
  ASSUME PlanDiscipline, NEW a \in Arrangements, Cancel(a)
  PROVE  PlanDiscipline'
<1> DEFINE Row == [state : LiveStates \cup {"none", "completed", "cancelled"}, covers : SUBSET Bills]
<1>1. arr \in [Arrangements -> Row] /\ slots \in [Arrangements -> Seq(Slot)]
  BY DEF PlanDiscipline, PlanTypeOK
<1>2. arr' = [arr EXCEPT ![a] = [arr[a] EXCEPT !.state = "cancelled"]]
  BY DEF Cancel
<1>3. /\ arr' \in [Arrangements -> Row] /\ arr'[a].covers = arr[a].covers /\ arr'[a].state = "cancelled"
      /\ \A d \in Arrangements \ {a} : arr'[d] = arr[d]
  <2>1. /\ [arr[a] EXCEPT !.state = "cancelled"] \in Row
        /\ [arr[a] EXCEPT !.state = "cancelled"].covers = arr[a].covers
        /\ [arr[a] EXCEPT !.state = "cancelled"].state = "cancelled"
    BY <1>1
  <2> QED BY <1>1, <1>2, <2>1
<1>4. QuietArrangements
  BY <1>3 DEF Cancel, QuietArrangements, LiveStates, PlanDiscipline, CompletedMeansPaid
<1>5. /\ reminder' \in [Bills -> {"none", "running", "stopped_paid", "stopped_arrangement"}]
      /\ QuietBills
  BY DEF Cancel, Resumed, money, QuietBills, PlanDiscipline, PlanTypeOK
<1>6. UNCHANGED <<slots, money, adopting, todo>> /\ todo \in [Jobs -> SUBSET Keys]
  BY DEF Cancel, PlanDiscipline, PlanTypeOK
<1>7. PlanTypeOK'
  <2> HIDE DEF Row
  <2> QED BY <1>1, <1>3, <1>5, <1>6, TypesOfTheRest DEF Row
<1> QED BY <1>4, <1>5, <1>6, <1>7, QuietKeeps

\* The bill that an arrangement adopts had no cover before it was issued.
LEMMA IssueKeepsPlans ==
  ASSUME PlanDiscipline, NEW b \in Bills, NEW n \in 1..MaxOwed, Issue(b, n)
  PROVE  PlanDiscipline'
<1> DEFINE Row == [state : LiveStates \cup {"none", "completed", "cancelled"}, covers : SUBSET Bills]
           a == adopting[b]
<1>1. /\ arr \in [Arrangements -> Row] /\ owed \in [Bills -> Nat]
      /\ adopting \in [Bills -> Arrangements \cup {0}]
      /\ reminder \in [Bills -> {"none", "running", "stopped_paid", "stopped_arrangement"}]
  BY DEF PlanDiscipline, PlanTypeOK
<1>2. \/ arr' = arr
      \/ /\ a \in Arrangements /\ arr[a].state \in LiveStates
         /\ arr' = [arr EXCEPT ![a] = [arr[a] EXCEPT !.covers = @ \cup {b}]]
  BY <1>1 DEF Issue
<1>3. \A d \in Arrangements :
        /\ arr'[d] \in Row /\ arr'[d].state = arr[d].state
        /\ arr'[d].covers = arr[d].covers
              \/ (d = a /\ arr'[d].covers = arr[d].covers \cup {b})
  <2>1. CASE arr' = arr
    BY <1>1, <2>1
  <2>2. CASE /\ a \in Arrangements /\ arr[a].state \in LiveStates
             /\ arr' = [arr EXCEPT ![a] = [arr[a] EXCEPT !.covers = @ \cup {b}]]
    <3>1. /\ [arr[a] EXCEPT !.covers = @ \cup {b}] \in Row
          /\ [arr[a] EXCEPT !.covers = @ \cup {b}].covers = arr[a].covers \cup {b}
          /\ [arr[a] EXCEPT !.covers = @ \cup {b}].state = arr[a].state
      BY <1>1, <2>2
    <3> QED BY <1>1, <2>2, <3>1
  <2> QED BY <1>2, <2>1, <2>2
<1>4. arr' \in [Arrangements -> Row]
  <2>1. DOMAIN arr' = Arrangements /\ arr' = [d \in Arrangements |-> arr'[d]]
    BY <1>1, <1>2
  <2> HIDE DEF Row
  <2> QED BY <1>3, <2>1
<1>5. /\ reminder' \in [Bills -> {"none", "running", "stopped_paid", "stopped_arrangement"}]
      /\ reminder'[b] # "none"
      /\ \A x \in Bills \ {b} : reminder'[x] = reminder[x]
  BY <1>1 DEF Issue
<1>6. owed' \in [Bills -> Nat] /\ \A x \in Bills \ {b} : owed'[x] = owed[x]
  BY <1>1, ParameterAssumption DEF Issue
<1>7. adopting' \in [Bills -> Arrangements \cup {0}]
  BY <1>1 DEF Issue
<1>8. UNCHANGED <<slots, collected, allocated, todo>>
  BY DEF Issue
<1>9. PlanTypeOK'
  <2> HIDE DEF Row
  <2> QED BY <1>4, <1>5, <1>6, <1>7, <1>8 DEF PlanDiscipline, PlanTypeOK, Row
<1>10. Covering(b) = {}
  BY DEF Issue, PlanDiscipline, NotIssuedYet
<1>11. Apart'
  <2>1. ASSUME NEW x \in Bills \ {b}, NEW d \in Arrangements, CoversLive(d, x)'
        PROVE  CoversLive(d, x)
    BY <1>3, <2>1 DEF CoversLive
  <2>2. ASSUME NEW d \in Arrangements, CoversLive(d, b)' PROVE d = a
    BY <1>3, <1>10, <2>2 DEF CoversLive, Covering
  <2> QED BY <2>1, <2>2 DEF Apart, PlanDiscipline
<1>12. NotIssuedYet'
  <2>1. \A x \in Bills \ {b} : Covering(x)' \subseteq Covering(x)
    BY <1>3 DEF Covering
  <2> QED BY <1>5, <1>6, <1>8, <2>1 DEF PlanDiscipline, NotIssuedYet
<1>13. \A d \in Arrangements : arr'[d].state = "none" => DOMAIN slots'[d] = {}
  BY <1>3, <1>8 DEF PlanDiscipline
<1>14. \A j \in Jobs : todo'[j] \subseteq Existing'
  BY <1>8 DEF PlanDiscipline, Existing
<1>15. CompletedMeansPaid'
  BY <1>3, <1>8 DEF PlanDiscipline, CompletedMeansPaid
<1> QED BY <1>9, <1>11, <1>12, <1>13, <1>14, <1>15 DEF PlanDiscipline

\* What is read for an issue, or given up, and what a job lists, changes no row.
LEMMA ReadsKeepPlans ==
  ASSUME PlanDiscipline, UNCHANGED <<arr, slots, money, reminder>>,
         adopting' \in [Bills -> Arrangements \cup {0}],
         todo' \in [Jobs -> SUBSET Keys], \A j \in Jobs : todo'[j] \subseteq todo[j] \cup Existing
  PROVE  PlanDiscipline'
<1>1. QuietArrangements
  BY InstalmentsAsTheyAre, SameArrangements
<1>2. PlanTypeOK' /\ QuietBills
  BY DEF money, PlanDiscipline, PlanTypeOK, QuietBills
<1> QED BY <1>1, <1>2, QuietKeeps

LEMMA ReadAdopterKeepsPlans ==
  ASSUME PlanDiscipline, NEW b \in Bills, ReadAdopter(b)
  PROVE  PlanDiscipline'
<1>1. Adopters \subseteq Arrangements /\ Adopters # {} /\ Adopters \subseteq Nat
  BY ParameterAssumption, IdAssumption DEF ReadAdopter, Adopters
<1>2. \E x \in Adopters : \A y \in Adopters : x <= y
  BY <1>1, LeastNatural
<1>3. Min(Adopters) \in Adopters
  BY <1>2 DEF Min
<1>4. adopting' \in [Bills -> Arrangements \cup {0}]
  BY <1>1, <1>3 DEF ReadAdopter, PlanDiscipline, PlanTypeOK
<1> QED BY <1>4, ReadsKeepPlans DEF ReadAdopter, PlanDiscipline, PlanTypeOK

LEMMA ListKeepsPlans ==
  ASSUME PlanDiscipline, NEW j \in Jobs, List(j)
  PROVE  PlanDiscipline'
<1>1. Listed(j) \subseteq Existing /\ Existing \subseteq Keys
  BY DEF Listed, Existing
<1>2. todo' \in [Jobs -> SUBSET Keys] /\ \A i \in Jobs : todo'[i] \subseteq todo[i] \cup Existing
  BY <1>1 DEF List, PlanDiscipline, PlanTypeOK
<1> QED BY <1>2, ReadsKeepPlans DEF List, PlanDiscipline, PlanTypeOK

\* What a job handles is there, and leaves its list.
LEMMA HandlesOne ==
  ASSUME PlanDiscipline, NEW j \in Jobs, NEW k, Handles(j, k)
  PROVE  /\ k \in Existing /\ todo' \in [Jobs -> SUBSET Keys]
         /\ \A i \in Jobs : todo'[i] \subseteq todo[i]
BY DEF Handles, PlanDiscipline, PlanTypeOK

\* One instalment changes and nothing else but a job's list.
LEMMA SetsSlotKeepsPlans ==
  ASSUME PlanDiscipline, NEW k \in Existing, NEW slot \in Slot, SetsSlot(k, slot),
         arr[k[1]].state = "completed" => slot.state = "paid",
         UNCHANGED <<arr, money, reminder, adopting>>,
         todo' \in [Jobs -> SUBSET Keys], \A j \in Jobs : todo'[j] \subseteq todo[j]
  PROVE  PlanDiscipline'
<1>1. Instalments(slots')
  BY InstalmentsAsTheyAre, OneInstalment DEF SetsSlot
<1>2. QuietArrangements
  BY <1>1, SameArrangements
<1>3. PlanTypeOK' /\ QuietBills
  BY <1>1 DEF Instalments, money, PlanDiscipline, PlanTypeOK, QuietBills
<1> QED BY <1>2, <1>3, QuietKeeps

LEMMA HandlingKeepsPlans ==
  ASSUME PlanDiscipline, NEW k \in Keys, Notify(k) \/ Collect(k)
  PROVE  PlanDiscipline'
<1>1. PICK j \in Jobs : Handles(j, k)
  BY DEF Notify, Collect, Jobs
<1>2. /\ k \in Existing /\ todo' \in [Jobs -> SUBSET Keys]
      /\ \A i \in Jobs : todo'[i] \subseteq todo[i]
  BY <1>1, HandlesOne
<1>3. SlotAt(k) \in Slot /\ SlotAt(k).state # "paid"
  BY <1>2, InstalmentsAsTheyAre DEF Notify, Collect
<1>4. arr[k[1]].state # "completed"
  BY <1>2, <1>3, InstalmentsAsTheyAre
<1>5. PICK slot \in Slot : SetsSlot(k, slot)
  <2>1. [SlotAt(k) EXCEPT !.state = "notified"] \in Slot
    BY <1>3 DEF Slot, Unsettled
  <2>2. [SlotAt(k) EXCEPT !.state = "collecting", !.channel = "started"] \in Slot
    BY <1>3 DEF Slot, Unsettled
  <2> QED BY <2>1, <2>2 DEF Notify, Collect
<1> QED BY <1>2, <1>4, <1>5, SetsSlotKeepsPlans DEF Notify, Collect

LEMMA SkipKeepsPlans ==
  ASSUME PlanDiscipline, NEW j \in Jobs, NEW k \in Keys, Skip(j, k)
  PROVE  PlanDiscipline'
<1>1. Handles(j, k) /\ UNCHANGED <<arr, slots, money, reminder, adopting>>
  BY DEF Skip
<1>2. adopting \in [Bills -> Arrangements \cup {0}]
  BY DEF PlanDiscipline, PlanTypeOK
<1> QED BY <1>1, <1>2, HandlesOne, ReadsKeepPlans

\* Detection applies coverage first, through one of the bills, and an instalment that is
\* still unpaid is missed.
LEMMA MissKeepsPlans ==
  ASSUME PlanDiscipline, NEW k \in Keys, Miss(k)
  PROVE  PlanDiscipline'
<1> DEFINE after(b) == PaidSlots(b, collected, slots)
<1>1. /\ k \in Existing /\ todo' \in [Jobs -> SUBSET Keys]
      /\ \A i \in Jobs : todo'[i] \subseteq todo[i]
  BY HandlesOne DEF Miss, Jobs
<1>2. UNCHANGED <<money, adopting>> /\ SlotAt(k).state # "paid"
  BY DEF Miss, Unsettled
<1>3. k[1] \in Arrangements /\ arr[k[1]].covers \subseteq Bills
  BY <1>1, InstalmentsAsTheyAre DEF PlanDiscipline, PlanTypeOK
<1>4. CASE Misses(k, slots)
  BY <1>1, <1>2, <1>4, InstalmentsAsTheyAre, MissesKeeps DEF SlotAt
<1>5. CASE \E b \in arr[k[1]].covers :
             IF after(b)[k[1]][k[2]].state = "paid"
             THEN CoverageOf(b, collected, owed, slots) /\ UNCHANGED reminder
             ELSE Misses(k, after(b))
  <2>1. PICK b \in Bills :
             IF after(b)[k[1]][k[2]].state = "paid"
             THEN CoverageOf(b, collected, owed, slots) /\ UNCHANGED reminder
             ELSE Misses(k, after(b))
    BY <1>3, <1>5
  <2>2. Instalments(after(b))
    BY InstalmentsAsTheyAre, CoverageInstalments
  <2>3. CASE after(b)[k[1]][k[2]].state = "paid"
    <3>1. CoverageOf(b, collected, owed, slots) /\ reminder' = reminder
      BY <2>1, <2>3
    <3>2. /\ QuietArrangements /\ slots' \in [Arrangements -> Seq(Slot)]
          /\ arr' \in [Arrangements -> [state : LiveStates \cup {"none", "completed", "cancelled"},
                                        covers : SUBSET Bills]]
      BY <3>1, InstalmentsAsTheyAre, CoverageKeeps
    <3>3. PlanTypeOK' /\ QuietBills
      BY <1>1, <1>2, <3>1, <3>2, TypesOfTheRest DEF money, PlanDiscipline, PlanTypeOK, QuietBills
    <3> QED BY <1>1, <3>2, <3>3, QuietKeeps
  <2>4. CASE after(b)[k[1]][k[2]].state # "paid"
    <3>1. Misses(k, after(b))
      BY <2>1, <2>4
    <3> HIDE DEF after
    <3> QED BY <1>1, <1>2, <2>2, <2>4, <3>1, MissesKeeps
  <2> QED BY <2>3, <2>4
<1> QED BY <1>4, <1>5 DEF Miss

\* A settled collection pays its instalment, and the oldest bill that owes.
LEMMA SettleKeepsPlans ==
  ASSUME PlanDiscipline, NEW k \in Keys, Settle(k)
  PROVE  PlanDiscipline'
<1> DEFINE a == k[1]
           bills == {b \in arr[a].covers : Payable(b)}
           slot == [SlotAt(k) EXCEPT !.channel = "settled",
                                     !.state = IF @ = "missed" THEN @ ELSE "paid"]
           ss == [slots EXCEPT ![k[1]][k[2]] = slot]
<1>1. k \in Existing /\ UNCHANGED <<adopting, todo>>
  BY DEF Settle
<1>2. SlotAt(k) \in Slot /\ a \in Arrangements
  BY <1>1, InstalmentsAsTheyAre
<1>3. slot \in Slot
  BY <1>2 DEF Slot
<1>4. arr[a].state = "completed" => slot.state = "paid"
  BY <1>1, <1>2, InstalmentsAsTheyAre DEF Slot
<1>5. Instalments(ss)
  <2> HIDE DEF slot
  <2> QED BY <1>1, <1>3, <1>4, InstalmentsAsTheyAre, OneInstalment
<1>6. CASE bills # {}
  <2>1. bills \subseteq Nat /\ bills \subseteq Bills
    BY <1>2, IdAssumption DEF PlanDiscipline, PlanTypeOK
  <2>2. \E x \in bills : \A y \in bills : x <= y
    <3> HIDE DEF bills
    <3> QED BY <1>6, <2>1, LeastNatural
  <2>3. Min(bills) \in bills
    <3> HIDE DEF bills
    <3> QED BY <2>2 DEF Min
  <2>4. Allocated(Min(bills), ss)
    BY <1>6 DEF Settle
  <2>5. Min(bills) \in Bills /\ Payable(Min(bills))
    BY <2>1, <2>3
  <2> HIDE DEF ss, bills
  <2> QED BY <1>1, <1>5, <2>4, <2>5, AllocatedKeeps
<1>7. CASE bills = {}
  <2>1. slots' = ss /\ UNCHANGED <<arr, money, reminder>>
    BY <1>7 DEF Settle
  <2>2. todo' \in [Jobs -> SUBSET Keys] /\ \A j \in Jobs : todo'[j] \subseteq todo[j]
    BY <1>1 DEF PlanDiscipline, PlanTypeOK
  <2> HIDE DEF slot
  <2> QED BY <1>1, <1>3, <1>4, <2>1, <2>2, SetsSlotKeepsPlans DEF SetsSlot
<1> QED BY <1>6, <1>7

LEMMA ChannelFailsKeepsPlans ==
  ASSUME PlanDiscipline, NEW k \in Keys, ChannelFails(k)
  PROVE  PlanDiscipline'
<1> DEFINE slot == [SlotAt(k) EXCEPT !.channel = "failed"]
<1>1. k \in Existing /\ SlotAt(k) \in Slot
  BY InstalmentsAsTheyAre DEF ChannelFails
<1>2. slot \in Slot /\ slot.state = SlotAt(k).state
  BY <1>1 DEF Slot
<1>3. arr[k[1]].state = "completed" => slot.state = "paid"
  BY <1>1, <1>2, InstalmentsAsTheyAre
<1>4. todo' \in [Jobs -> SUBSET Keys] /\ \A j \in Jobs : todo'[j] \subseteq todo[j]
  BY DEF ChannelFails, PlanDiscipline, PlanTypeOK
<1>5. SetsSlot(k, slot) /\ UNCHANGED <<arr, money, reminder, adopting>>
  BY DEF ChannelFails
<1> HIDE DEF slot
<1> QED BY <1>1, <1>2, <1>3, <1>4, <1>5, SetsSlotKeepsPlans

LEMMA DayPassesKeepsPlans ==
  ASSUME PlanDiscipline, NEW k \in Keys, DayPasses(k)
  PROVE  PlanDiscipline'
<1> DEFINE slot == [SlotAt(k) EXCEPT !.near = @ + 1]
<1>1. k \in Existing /\ SlotAt(k) \in Slot /\ SlotAt(k).near < Overdue
  BY InstalmentsAsTheyAre DEF DayPasses
<1>2. slot \in Slot /\ slot.state = SlotAt(k).state
  BY <1>1 DEF Slot, Ahead, Due, Overdue
<1>3. arr[k[1]].state = "completed" => slot.state = "paid"
  BY <1>1, <1>2, InstalmentsAsTheyAre
<1>4. todo' \in [Jobs -> SUBSET Keys] /\ \A j \in Jobs : todo'[j] \subseteq todo[j]
  BY DEF DayPasses, PlanDiscipline, PlanTypeOK
<1>5. SetsSlot(k, slot) /\ UNCHANGED <<arr, money, reminder, adopting>>
  BY DEF DayPasses
<1> HIDE DEF slot
<1> QED BY <1>1, <1>2, <1>3, <1>4, <1>5, SetsSlotKeepsPlans

LEMMA PlanInductive ==
  PlanDiscipline /\ [PlanNext]_planVars => PlanDiscipline'
<1> SUFFICES ASSUME PlanDiscipline, [PlanNext]_planVars PROVE PlanDiscipline'
  OBVIOUS
<1>1. ASSUME NEW a \in Arrangements, NEW bs \in SUBSET Bills, Create(a, bs) PROVE PlanDiscipline'
  BY <1>1, CreateKeepsPlans
<1>2. ASSUME NEW a \in Arrangements, Reactivate(a) \/ Cancel(a) PROVE PlanDiscipline'
  BY <1>2, ReactivateKeepsPlans, CancelKeepsPlans
<1>3. ASSUME NEW b \in Bills, Allocate(b) \/ Unallocate(b) \/ ReadAdopter(b) PROVE PlanDiscipline'
  BY <1>3, AllocateKeepsPlans, UnallocateKeepsPlans, ReadAdopterKeepsPlans
<1>4. ASSUME NEW b \in Bills, IssueFails(b) PROVE PlanDiscipline'
  BY <1>4, ReadsKeepPlans DEF IssueFails, PlanDiscipline, PlanTypeOK
<1>5. ASSUME NEW b \in Bills, NEW n \in 1..MaxOwed, Issue(b, n) PROVE PlanDiscipline'
  BY <1>5, IssueKeepsPlans
<1>6. ASSUME NEW j \in Jobs, List(j) PROVE PlanDiscipline'
  BY <1>6, ListKeepsPlans
<1>7. ASSUME NEW j \in Jobs, NEW k \in Keys, Skip(j, k) PROVE PlanDiscipline'
  BY <1>7, SkipKeepsPlans
<1>8. ASSUME NEW k \in Keys, Notify(k) \/ Collect(k) \/ Miss(k) PROVE PlanDiscipline'
  BY <1>8, HandlingKeepsPlans, MissKeepsPlans
<1>9. ASSUME NEW k \in Keys, Settle(k) \/ ChannelFails(k) \/ DayPasses(k) PROVE PlanDiscipline'
  BY <1>9, SettleKeepsPlans, ChannelFailsKeepsPlans, DayPassesKeepsPlans
<1>10. CASE UNCHANGED planVars
  <2>1. UNCHANGED <<arr, slots, money, reminder, adopting, todo>>
    BY <1>10 DEF planVars
  <2> QED BY <2>1, ReadsKeepPlans DEF PlanDiscipline, PlanTypeOK
<1> QED BY <1>1, <1>2, <1>3, <1>4, <1>5, <1>6, <1>7, <1>8, <1>9, <1>10 DEF PlanNext

LEMMA PlanStarts ==
  PlanInit => PlanDiscipline
<1> SUFFICES ASSUME PlanInit PROVE PlanDiscipline
  OBVIOUS
<1>1. << >> \in Seq(Slot) /\ DOMAIN << >> = {}
  BY EmptySeq
<1>2. PlanTypeOK
  BY <1>1 DEF PlanInit, PlanTypeOK, Jobs
<1>3. Apart /\ NotIssuedYet /\ CompletedMeansPaid
  BY DEF PlanInit, Apart, NotIssuedYet, CompletedMeansPaid, CoversLive, LiveStates, Covering
<1>4. \A a \in Arrangements : arr[a].state = "none" => DOMAIN slots[a] = {}
  BY <1>1 DEF PlanInit
<1>5. \A j \in Jobs : todo[j] \subseteq Existing
  BY DEF PlanInit
<1> QED BY <1>2, <1>3, <1>4, <1>5 DEF PlanDiscipline

\* One live arrangement covers any bill, and a completed one is paid to the last instalment,
\* for any arrangements, bills and instalments, whatever the jobs, staff, the channel and the
\* issue of bills do between each other's statements (arrangements.ts).
THEOREM PlansStayInStep == PlanSpec => []PlanDiscipline
<1>1. PlanInit => PlanDiscipline
  BY PlanStarts
<1>2. PlanDiscipline /\ [PlanNext]_planVars => PlanDiscipline'
  BY PlanInductive
<1> QED BY <1>1, <1>2, PTL DEF PlanSpec

\* So a bill is never in two plans at once, nor a plan done with an instalment unpaid.
THEOREM OneArrangementCovers == PlanSpec => [](OneLiveCover /\ CompletedMeansPaid)
<1>1. ASSUME PlanDiscipline, NEW b \in Bills
      PROVE  Cardinality({a \in Covering(b) : arr[a].state \in LiveStates}) <= 1
  <2> DEFINE live == {a \in Covering(b) : arr[a].state \in LiveStates}
  <2>1. \A a, d \in live : a = d
    BY <1>1 DEF PlanDiscipline, Apart, CoversLive, Covering
  <2>2. Cardinality(live) <= 1
    <3> HIDE DEF live
    <3> QED BY <2>1, AtMostOne
  <2> QED BY <2>2
<1>2. PlanDiscipline => OneLiveCover /\ CompletedMeansPaid
  BY <1>1 DEF OneLiveCover, PlanDiscipline
<1> QED BY <1>2, PlansStayInStep, PTL
=============================================================================
