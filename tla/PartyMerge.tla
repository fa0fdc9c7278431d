----------------------------- MODULE PartyMerge -----------------------------
\* Merging a party into another and undoing it, among staff who change clients
\* and add parties meanwhile (src/lib/ops/matters/merge.ts, matterParties.ts,
\* the triggers party_state_guard, party_link_guard and
\* matter_client_row_maintain).
\*
\* A file is a matter or an intake record: it points at one party (the client,
\* the prospect) and has rows naming others.  A settled file - a closed matter, a
\* converted intake - keeps its pointer.  A merge holds the locks of both parties
\* from its checks to its commit; whoever inserts or updates a foreign key to one
\* of them waits, but has read the party's state before.  A merge and an undo take
\* what they change statement by statement, each from what is committed by then, and
\* keep it locked; others see the changes at the commit.
EXTENDS Integers, FiniteSets, SequencesExt

CONSTANTS Parties,   \* the parties
          Matters,   \* the matters
          Intakes,   \* the intake records
          Staff,     \* the staff, one session each
          MaxRows,   \* bound: rows naming a party on a file
          MaxMerges, \* bound: merges
          NoOne      \* no party, no file

Files == Matters \union Intakes

VARIABLES into,     \* the redirect of a merged party, NoOne while it is active
          pointer,  \* the party each file points at
          settled,  \* the files that keep their pointer
          rows,     \* the rows naming a party on a file, in the order of their ids
          link,     \* the live links between parties
          merges,   \* the committed merges with the items they recorded
          sess      \* what each staff member has in flight

vars == <<into, pointer, settled, rows, link, merges, sess>>

\* What a merge or an undo takes: files, rows that change their party, rows that end
\* and matters to which the client trigger adds a row.
Idle == [at |-> "idle", p |-> NoOne, q |-> NoOne, f |-> NoOne, g |-> 0, mark |-> 0,
         done |-> {}, kept |-> {}, todo |-> {}, reading |-> {}, blocked |-> FALSE]
Active(p) == into[p] = NoOne

TypeOK ==
  /\ into \in [Parties -> Parties \union {NoOne}]
  /\ pointer \in [Files -> Parties] /\ settled \subseteq Files
  /\ \A i \in DOMAIN rows : rows[i].file \in Files /\ rows[i].party \in Parties /\ rows[i].live \in BOOLEAN
  /\ link \subseteq Parties \X Parties
  /\ \A s \in Staff : sess[s].at \in {"idle", "merge", "rows", "files", "undo", "change", "add"}

Init ==
  /\ into = [p \in Parties |-> NoOne]
  /\ pointer \in [Files -> Parties]
  /\ settled = {} /\ rows = <<>> /\ merges = <<>>
  /\ link \in {{}} \union {{<<p, q>>} : p, q \in Parties} /\ \A l \in link : l[1] # l[2]
  /\ sess = [s \in Staff |-> Idle]

IsIdle(s) == sess[s].at = "idle"
Free(s) == sess' = [sess EXCEPT ![s] = Idle]

Merging(s) == sess[s].at \in {"merge", "rows", "files"}
Taken(s, kind) == {x[2] : x \in {y \in sess[s].done : y[1] = kind}}

\* Nobody is inside a merge of this party.
NoneMerges(p) == \A s \in Staff : Merging(s) => p \notin {sess[s].p, sess[s].q}
NeverWaits(p) == TRUE
PartyFree(p) == NoneMerges(p)
\* No uncommitted row of the client trigger names it: the foreign key holds the party.
Unreferred(p) == \A s \in Staff : \A f \in Taken(s, "add") : pointer[f] # p
FileFree(f) == \A s \in Staff : (sess[s].at \in {"change", "add"} => sess[s].f # f) /\ f \notin Taken(s, "file")
RowFree(i) == \A s \in Staff : i \notin Taken(s, "row") \union Taken(s, "end")

Holds(rs, f, p) == \E i \in DOMAIN rs : rs[i] = [file |-> f, party |-> p, live |-> TRUE]
\* matter_party_unique, intake_party_unique: one live row for a party on a file.
Unique(rs) == \A i, j \in DOMAIN rs : i < j /\ rs[i].live => rs[i] # rs[j]
Add(rs, f, p) == Append(rs, [file |-> f, party |-> p, live |-> TRUE])

\* The trigger on the client column: the old client stays on the matter as a
\* related party.
ClientMoved(rs, f, old) == IF Holds(rs, f, old) THEN rs ELSE Add(rs, f, old)

\* Both parties are locked in the order of their ids, then read.
StartMerge(s, a, b) ==
  /\ IsIdle(s) /\ a # b /\ \A p \in {a, b} : PartyFree(p) /\ Unreferred(p) /\ Active(p)
  /\ Len(merges) < MaxMerges
  /\ sess' = [sess EXCEPT ![s] = [Idle EXCEPT !.at = "merge", !.p = a, !.q = b, !.mark = Len(rows)]]
  /\ UNCHANGED <<into, pointer, settled, rows, link, merges>>

\* Links between the two deactivate, as does one the survivor already has; any
\* other has to be aimed anew, which party_link_guard refuses.
Renamed(l, a, b) == <<IF l[1] = a THEN b ELSE l[1], IF l[2] = a THEN b ELSE l[2]>>
LinksOf(a) == {l \in link : a \in {l[1], l[2]}}
Ends(l, a, b) == LET n == Renamed(l, a, b) IN n[1] = n[2] \/ n \in link
LinkGuardAllows(a, b) == \A l \in LinksOf(a) : Ends(l, a, b)

\* The rows of the absorbed party: a duplicate of the survivor's ends, the others
\* are renamed.
Tagged(kind, xs) == {kind} \X xs
RowMoves(a) == {i \in DOMAIN rows : rows[i].live /\ rows[i].party = a}
TakeRows(s) ==
  LET ms == RowMoves(sess[s].p)
      twice == {i \in ms : Holds(rows, rows[i].file, sess[s].q)}
  IN /\ sess[s].at = "merge" /\ \A i \in ms : RowFree(i)
     /\ sess' = [sess EXCEPT ![s].at = "rows", ![s].done = Tagged("row", ms \ twice) \union Tagged("end", twice)]
     /\ UNCHANGED <<into, pointer, settled, rows, link, merges>>

\* The files that point at it, settled ones excepted. The client trigger adds a row on
\* the way to each matter whose old client is not a related party.
TakeFiles(s) ==
  LET fs == {f \in Files \ settled : pointer[f] = sess[s].p}
  IN /\ sess[s].at = "rows" /\ \A f \in fs : FileFree(f)
     /\ sess' = [sess EXCEPT ![s].at = "files", ![s].kept = settled,
                   ![s].done = @ \union Tagged("file", fs) \union Tagged("add", fs \cap Matters)]
     /\ UNCHANGED <<into, pointer, settled, rows, link, merges>>

WithResidue(rs, fs) ==
  LET new == SetToSeq(fs)
  IN rs \o [i \in DOMAIN new |-> [file |-> new[i], party |-> pointer[new[i]], live |-> TRUE]]
\* The sweep ends the rows newer than a mark that name a party.
Sweep(rs, mark, p) ==
  [i \in DOMAIN rs |-> IF i > mark /\ rs[i].party = p THEN [rs[i] EXCEPT !.live = FALSE] ELSE rs[i]]

CommitMerge(s) ==
  LET a == sess[s].p  b == sess[s].q
      moved == [i \in DOMAIN rows |-> IF i \in Taken(s, "row") THEN [rows[i] EXCEPT !.party = b]
                                      ELSE IF i \in Taken(s, "end") THEN [rows[i] EXCEPT !.live = FALSE]
                                      ELSE rows[i]]
      after == Sweep(WithResidue(moved, Taken(s, "add")), sess[s].mark, a)
  IN /\ sess[s].at = "files" /\ LinkGuardAllows(a, b)
     /\ Unique(after) /\ Len(after) <= MaxRows
     /\ pointer' = [f \in Files |-> IF f \in Taken(s, "file") THEN b ELSE pointer[f]]
     /\ rows' = after
     /\ link' = link \ LinksOf(a)
     /\ into' = [into EXCEPT ![a] = b]
     /\ merges' = Append(merges, [from |-> a, to |-> b, files |-> Taken(s, "file"), links |-> LinksOf(a),
                    renamed |-> Taken(s, "row"), ended |-> Taken(s, "end"), state |-> "done"])
     /\ Free(s) /\ UNCHANGED settled

\* The guard's refusal rolls the merge back.
MergeRefused(s) ==
  /\ sess[s].at = "files" /\ ~LinkGuardAllows(sess[s].p, sess[s].q)
  /\ Free(s) /\ UNCHANGED <<into, pointer, settled, rows, link, merges>>

\* An undo locks the merge's record; it notes the newest row there is, and the party
\* is active again for its own statements.
StartUndo(s, g) ==
  LET m == merges[g] IN
  /\ IsIdle(s) /\ m.state = "done" /\ \A t \in Staff : sess[t].at = "undo" => sess[t].g # g
  /\ PartyFree(m.from)
  /\ sess' = [sess EXCEPT ![s] = [Idle EXCEPT !.at = "undo", !.g = g, !.mark = Len(rows), !.done = Tagged("end", m.ended),
                                !.todo = Tagged("file", m.files) \union Tagged("row", m.renamed)]]
  /\ UNCHANGED <<into, pointer, settled, rows, link, merges>>

\* Each item is read without a lock: what is as the merge left it is to go back, the
\* rest is blocked.
Intact(m, x) ==
  IF x[1] = "file" THEN x[2] \notin settled /\ pointer[x[2]] = m.to
  ELSE rows[x[2]].live /\ rows[x[2]].party = m.to

ReadItem(s, x) ==
  /\ sess[s].at = "undo" /\ sess[s].reading = {} /\ x \in sess[s].todo
  /\ IF Intact(merges[sess[s].g], x)
     THEN sess' = [sess EXCEPT ![s].reading = {x}, ![s].todo = @ \ {x}]
     ELSE sess' = [sess EXCEPT ![s].blocked = TRUE, ![s].todo = @ \ {x}]
  /\ UNCHANGED <<into, pointer, settled, rows, link, merges>>

\* Then it is written by its id, over what has become of it. The guards refuse a settled
\* file; the trigger's row holds the party it names.
WriteItem(s) == \E x \in sess[s].reading :
  LET f == x[2]
      adds == x[1] = "file" /\ f \in Matters /\ ~Holds(rows, f, pointer[f])
  IN /\ IF x[1] = "file" THEN FileFree(f) /\ f \notin settled ELSE RowFree(f)
     /\ adds => PartyFree(pointer[f])
     /\ sess' = [sess EXCEPT ![s].reading = {},
                   ![s].done = @ \union {x} \union (IF adds THEN {<<"add", f>>} ELSE {})]
     /\ UNCHANGED <<into, pointer, settled, rows, link, merges>>

WhenAllBack(s) == ~sess[s].blocked
AnyBack(s) == TRUE
NothingBlocked(s) == WhenAllBack(s)

\* Afterwards the rows newer than the mark that name the survivor are swept: the
\* trigger added them while the clients went back.
CommitUndo(s) ==
  LET g == sess[s].g  m == merges[g]
      restored == [i \in DOMAIN rows |->
                     IF i \in Taken(s, "row") THEN [rows[i] EXCEPT !.party = m.from]
                     ELSE IF i \in m.ended THEN [rows[i] EXCEPT !.live = TRUE] ELSE rows[i]]
      after == Sweep(WithResidue(restored, Taken(s, "add")), sess[s].mark, m.to)
  IN /\ sess[s].at = "undo" /\ sess[s].todo = {} /\ sess[s].reading = {}
     /\ \A i \in DOMAIN rows : after[i].live # restored[i].live => RowFree(i)
     /\ Unique(after) /\ Len(after) <= MaxRows
     /\ into' = [into EXCEPT ![m.from] = NoOne]
     /\ pointer' = [f \in Files |-> IF f \in Taken(s, "file") THEN m.from ELSE pointer[f]]
     /\ rows' = after
     /\ link' = link \union m.links
     /\ merges' = [merges EXCEPT ![g].state = IF NothingBlocked(s) THEN "undone" ELSE "partly"]
     /\ Free(s) /\ UNCHANGED settled

\* A change of client: the matter is locked, the party read, the update's foreign
\* key waits for a merge of that party.
StartChangeClient(s, m, p) ==
  /\ IsIdle(s) /\ FileFree(m) /\ m \notin settled /\ pointer[m] # p /\ Active(p)
  /\ sess' = [sess EXCEPT ![s] = [Idle EXCEPT !.at = "change", !.f = m, !.p = p]]
  /\ UNCHANGED <<into, pointer, settled, rows, link, merges>>

ChangeClient(s) ==
  LET m == sess[s].f IN
  /\ sess[s].at = "change" /\ PartyFree(sess[s].p) /\ Len(rows) < MaxRows
  /\ ~Holds(rows, m, pointer[m]) => PartyFree(pointer[m])
  /\ pointer' = [pointer EXCEPT ![m] = sess[s].p]
  /\ rows' = ClientMoved(rows, m, pointer[m])
  /\ Free(s) /\ UNCHANGED <<into, settled, link, merges>>

StartAddParty(s, f, p) ==
  /\ IsIdle(s) /\ FileFree(f) /\ Active(p) /\ ~Holds(rows, f, p) /\ Len(rows) < MaxRows
  /\ sess' = [sess EXCEPT ![s] = [Idle EXCEPT !.at = "add", !.f = f, !.p = p]]
  /\ UNCHANGED <<into, pointer, settled, rows, link, merges>>

AddMatterParty(s) ==
  /\ sess[s].at = "add" /\ PartyFree(sess[s].p) /\ ~Holds(rows, sess[s].f, sess[s].p) /\ Len(rows) < MaxRows
  /\ rows' = Add(rows, sess[s].f, sess[s].p)
  /\ Free(s) /\ UNCHANGED <<into, pointer, settled, link, merges>>

SoftDeleteMatterParty(s, i) ==
  /\ IsIdle(s) /\ rows[i].live /\ RowFree(i)
  /\ rows' = [rows EXCEPT ![i].live = FALSE]
  /\ UNCHANGED <<into, pointer, settled, link, merges, sess>>

\* A matter is closed or reopened, an intake converted for good; nothing looks at
\* the party the file points at.
Settle(f) ==
  /\ FileFree(f) /\ settled' = settled \union {f}
  /\ f \notin settled
  /\ UNCHANGED <<into, pointer, rows, link, merges, sess>>

Reopen(m) ==
  /\ FileFree(m) /\ m \in settled /\ settled' = settled \ {m}
  /\ UNCHANGED <<into, pointer, rows, link, merges, sess>>

\* A lost connection, the deadlock detector's choice or the unique index ends a
\* transaction.
Abort(s) ==
  /\ ~IsIdle(s) /\ Free(s) /\ UNCHANGED <<into, pointer, settled, rows, link, merges>>

Next ==
  \/ \E f \in Files : Settle(f)
  \/ \E m \in Matters : Reopen(m)
  \/ \E s \in Staff :
       \/ TakeRows(s) \/ TakeFiles(s) \/ CommitMerge(s) \/ MergeRefused(s)
       \/ WriteItem(s) \/ CommitUndo(s) \/ \E x \in sess[s].todo : ReadItem(s, x)
       \/ ChangeClient(s) \/ AddMatterParty(s) \/ Abort(s)
       \/ \E a, b \in Parties : StartMerge(s, a, b)
       \/ \E g \in DOMAIN merges : StartUndo(s, g)
       \/ \E m \in Matters, p \in Parties : StartChangeClient(s, m, p)
       \/ \E f \in Files, p \in Parties : StartAddParty(s, f, p)
       \/ \E i \in DOMAIN rows : SoftDeleteMatterParty(s, i)

Spec == Init /\ [][Next]_vars

\* Following the redirects from a merged party ends at an active one, whatever
\* merges ran at once and in whichever order they were undone: no party leads back
\* to itself.
RedirectsEnd ==
  \A S \in SUBSET Parties : S # {} => \E p \in S : into[p] \notin S

\* A merge leaves nothing behind: no live row or link names the absorbed party, the rows
\* the trigger adds meanwhile included, and no open file points at it, but one that was
\* settled when the merge listed the files and reopened before it committed.
MovesEverything ==
  \A s \in Staff : LET a == sess[s].p IN
    sess[s].at = "files" /\ into[a] = NoOne /\ into'[a] # NoOne =>
      /\ \A f \in Files \ settled : pointer'[f] = a => f \in sess[s].kept
      /\ \A i \in DOMAIN rows' : rows'[i].live => rows'[i].party # a
      /\ \A l \in link' : a \notin {l[1], l[2]}
MergeMovesEverything == [][MovesEverything]_vars

\* A merge recorded as undone has been put back whole: each file, row and link it
\* moved names the absorbed party again, which is active, and the duplicates it ended
\* live again; a row it renamed lives unless it was deleted after the undo read it.
UndoesWhole ==
  \A g \in DOMAIN merges : merges[g].state = "done" /\ merges'[g].state = "undone" =>
    LET m == merges[g] IN
    /\ into'[m.from] = NoOne /\ m.links \subseteq link'
    /\ \A f \in m.files : pointer'[f] = m.from
    /\ \A i \in m.renamed \union m.ended : rows'[i].party = m.from
    /\ \A i \in m.ended : rows'[i].live
UndoneMeansRestored == [][UndoesWhole]_vars

\* Not kept: "touched rows block individually" (merge.ts:452). What changes between the
\* reading of an item and its writing is written over, and counts as reversed.
TouchedBlock == [][\A g \in DOMAIN merges : merges[g].state = "done" /\ merges'[g].state = "undone" =>
  /\ \A f \in merges[g].files : pointer[f] = merges[g].to
  /\ \A i \in merges[g].renamed : rows[i].live /\ rows[i].party = merges[g].to]_vars

\* Not kept: "a matter client must be an active party (never merged or deleted)"
\* (0006:247).  A closed matter keeps its client through a merge and is reopened.
OpenClientsActive == \A m \in Matters \ settled : Active(pointer[m])

\* Not kept: a merge whose parties are active, and that the dry run shows with the
\* links it will repoint, gets past them; the link guard refuses to aim a link anew.
LinkedPartiesMerge == \A s \in Staff : sess[s].at = "files" => LinkGuardAllows(sess[s].p, sess[s].q)
=============================================================================
