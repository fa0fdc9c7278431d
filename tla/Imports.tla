------------------------------ MODULE Imports -------------------------------
\* Imports: records of the source system one transaction each, and client money a whole
\* batch in one. A batch is of one kind, and the parts share no row; each has its own
\* variables and its own next-state relation.
EXTENDS Integers, Sequences, FiniteSets, SequencesExt

-----------------------------------------------------------------------------
(***************************************************************************)
(* The import batch engine (lib/ops/imports) on its record domains: a real *)
(* batch commits every record in a transaction of its own, a client or     *)
(* matter whose source reference has landed before is updated unless staff *)
(* touched it, and a reversal examines the whole batch in one transaction  *)
(* and takes it back in another.  What a record says is a name; whatever   *)
(* else it holds only decides whether its applier refuses it.  A folder of *)
(* the documents domain lands like a document and is left standing by a    *)
(* reversal.  The money domains are in the second half.                    *)
(***************************************************************************)
CONSTANTS
    Refs,        \* source references
    DomainOf,    \* the record domain each belongs to
    Names,       \* what a record of the source file says of its client
    Batches,     \* import batches
    Reversers,   \* requests to reverse a batch
    Nothing,     \* no target, no batch, no answer
    MaxTargets   \* bound: targets that may be created

Ids == 1..MaxTargets
Domains == {"clients", "matters", "notes", "documents", "time", "bills", "other"}
Updating == {"clients", "matters"}              \* the others never re-apply
Reversible == {"clients", "notes", "documents"} \* matters block, the rest have no reverser
\* One record of any domain, or two clients, possibly the same one twice.
Records == [ref : Refs, name : Names]
Files == {<<x>> : x \in Records}
         \cup {<<x, y>> : x, y \in {z \in Records : DomainOf[z.ref] = "clients"}}
Dispositions == {"accepted", "updated", "warned", "refused"}

VARIABLES
    target,      \* what records created: their reference, batch, name, ...
    source,      \* source_reference: the target of each reference
    batch,       \* import_batch: file, state, position and what the record in hand has read
    record,      \* import_record: disposition and target by batch and reference
    reversal     \* a reversal: the batch, and what its exam found

recordVars == <<target, source, batch, record, reversal>>

Absent == [ref |-> Nothing, name |-> Nothing, batch |-> Nothing, state |-> "none", touched |-> FALSE]
Unread == [target |-> 0, warn |-> FALSE, read |-> FALSE]

Looked == [target : 0..MaxTargets, warn : BOOLEAN, read : BOOLEAN]

RecordTypeOK ==
    /\ target \in [Ids -> [ref : Refs \cup {Nothing}, name : Names \cup {Nothing, "staff"},
                          batch : Batches \cup {Nothing}, state : {"none", "live", "deleted"},
                          touched : BOOLEAN]]
    /\ source \in [Refs -> 0..MaxTargets]
    /\ batch \in [Batches -> [file : Files \cup {<<>>}, at : 0..3, runs : Nat, hand : Looked,
                             state : {"none", "running", "completed", "partially_blocked", "reversed"}]]
    /\ record \in [Batches -> [Refs -> [disp : Dispositions \cup {Nothing}, target : 0..MaxTargets]]]
    /\ reversal \in [Reversers -> [of : Batches \cup {Nothing}, blocked : BOOLEAN, plan : SUBSET Ids]]

RecordInit ==
    /\ target = [k \in Ids |-> Absent] /\ source = [r \in Refs |-> 0]
    /\ batch = [b \in Batches |-> [file |-> <<>>, state |-> "none", at |-> 0, hand |-> Unread, runs |-> 0]]
    /\ record = [b \in Batches |-> [r \in Refs |-> [disp |-> Nothing, target |-> 0]]]
    /\ reversal = [v \in Reversers |-> [of |-> Nothing, blocked |-> FALSE, plan |-> {}]]

-----------------------------------------------------------------------------
\* The real batch.  at is the record in hand; 0 means that no process runs it.

StartBatch(b) ==
    /\ batch[b].state = "none"
    /\ \E f \in Files : batch' = [batch EXCEPT ![b].file = f, ![b].state = "running", ![b].at = 1]
    /\ UNCHANGED <<target, source, record, reversal>>

InHand(b) == batch[b].file[batch[b].at]
Domain(b) == DomainOf[batch[b].file[1].ref]
Works(b) == batch[b].at \in 1..Len(batch[b].file)

\* touchedSinceImport: a register event of anybody but an import.
TouchedSinceImport(k) == target[k].touched

\* The first half of an applier: the source reference, and whether its target
\* is not to be updated - of a domain that never is, touched, or saying the
\* same already.
LookUp(b) ==
    LET k == source[InHand(b).ref]
    IN /\ Works(b) /\ ~batch[b].hand.read
       /\ batch' = [batch EXCEPT ![b].hand =
            [target |-> k, read |-> TRUE,
             warn |-> k # 0 /\ (\/ Domain(b) \notin Updating \/ TouchedSinceImport(k)
                               \/ target[k].name = InHand(b).name)]]
       /\ UNCHANGED <<target, source, record, reversal>>

\* unique (source_system, source_ref, target_type) on source_reference.
NoIndex(r) == TRUE
Unimported(r) == source[r] = 0
RecordSource(r, k) == source' = [source EXCEPT ![r] = k]

\* unique (batch, source_ref) on import_record: the file's second line with a
\* reference cannot be itemised, not even as a refusal, and the run throws.
Itemised(b) == record[b][InHand(b).ref].disp # Nothing

\* The record commits together with its item.
Item(b, disp, k) ==
    /\ ~Itemised(b)
    /\ record' = [record EXCEPT ![b][InHand(b).ref] = [disp |-> disp, target |-> k]]
    /\ batch' = [batch EXCEPT ![b].at = @ + 1, ![b].hand = Unread]
    /\ UNCHANGED reversal

Create(b) ==
    /\ batch[b].hand.target = 0 /\ Unimported(InHand(b).ref)
    /\ \E k \in Ids :
        /\ target[k].state = "none" /\ \A i \in 1..(k - 1) : target[i].state # "none"
        /\ target' = [target EXCEPT ![k] = [ref |-> InHand(b).ref, name |-> InHand(b).name,
                                            batch |-> b, state |-> "live", touched |-> FALSE]]
        /\ RecordSource(InHand(b).ref, k)
        /\ Item(b, "accepted", k)

Update(b) ==
    LET k == batch[b].hand.target
    IN /\ k # 0 /\ ~batch[b].hand.warn
       /\ target' = [target EXCEPT ![k].name = InHand(b).name]
       /\ Item(b, "updated", k) /\ UNCHANGED source

Warn(b) == batch[b].hand.warn /\ Item(b, "warned", 0) /\ UNCHANGED <<target, source>>

\* A new record that names something that does not resolve or breaks a rule of
\* its domain, or whose reference another batch landed meanwhile, is refused in
\* a transaction of its own.
Refuse(b) == batch[b].hand.target = 0 /\ Item(b, "refused", 0) /\ UNCHANGED <<target, source>>

Applies(b, domain) == Works(b) /\ batch[b].hand.read /\ Domain(b) = domain

\* A client is refused only without its name.
ApplyClientRecord(b) == Applies(b, "clients") /\ (Create(b) \/ Update(b) \/ Warn(b) \/ Refuse(b))

\* A matter needs its client imported, its lawyer, office and practice area.
ApplyMatterRecord(b) == Applies(b, "matters") /\ (Create(b) \/ Update(b) \/ Warn(b) \/ Refuse(b))

\* The others need their matter imported and those they name on staff; a bill
\* that its lines and journal add up, a cost that its matter is open.
ApplyNoteRecord(b) == Applies(b, "notes") /\ (Create(b) \/ Warn(b) \/ Refuse(b))
ApplyDocumentRecord(b) == Applies(b, "documents") /\ (Create(b) \/ Warn(b) \/ Refuse(b))
ApplyTimeEntryRecord(b) == Applies(b, "time") /\ (Create(b) \/ Warn(b) \/ Refuse(b))
ApplyBillRecord(b) == Applies(b, "bills") /\ (Create(b) \/ Warn(b) \/ Refuse(b))
ApplyOtherRecord(b) == Applies(b, "other") /\ (Create(b) \/ Warn(b) \/ Refuse(b))

FinishBatch(b) ==
    /\ batch[b].at = Len(batch[b].file) + 1 /\ batch[b].state = "running"
    /\ batch' = [batch EXCEPT ![b].state = "completed", ![b].at = 0]
    /\ UNCHANGED <<target, source, record, reversal>>

\* The process dies, or the run throws over a line it cannot itemise: the
\* records so far stay and the batch is running for ever.
AbandonBatch(b) ==
    /\ batch[b].at # 0
    /\ batch' = [batch EXCEPT ![b].at = 0, ![b].hand = Unread]
    /\ UNCHANGED <<target, source, record, reversal>>

\* A member of staff edits what was imported.
Touch(k) ==
    /\ target[k].state = "live"
    /\ target' = [target EXCEPT ![k].name = "staff", ![k].touched = TRUE]
    /\ UNCHANGED <<source, batch, record, reversal>>

-----------------------------------------------------------------------------
\* The reversal.  The exam reads the batch, its items and who touched their
\* targets; items without a target wrote nothing.
Targets(b) == {record[b][r].target : r \in Refs} \ {0}

Blocks(b) ==
    \E r \in Refs :
        /\ record[b][r].target # 0
        /\ \/ record[b][r].disp = "updated" \/ Domain(b) = "matters"
           \/ TouchedSinceImport(record[b][r].target)

PerItem(b) == [blocked |-> FALSE, plan |-> {k \in Targets(b) : ~TouchedSinceImport(k)}]
Examined(b) == [blocked |-> Blocks(b), plan |-> Targets(b)]

Exam(v, b) ==
    /\ reversal[v].of = Nothing /\ batch[b].state \in {"completed", "partially_blocked"}
    /\ reversal' = [reversal EXCEPT ![v] = [of |-> b, blocked |-> Examined(b).blocked,
                                            plan |-> Examined(b).plan]]
    /\ UNCHANGED <<target, source, batch, record>>

Answered(v) == reversal' = [reversal EXCEPT ![v].of = Nothing, ![v].plan = {}]

\* import_batch_guard lets a reversed batch be written reversed again, and
\* refuses to write it partially_blocked.
RecordBlockers(v) ==
    LET b == reversal[v].of
    IN /\ b # Nothing /\ reversal[v].blocked
       /\ batch' = [batch EXCEPT ![b].state = IF @ = "reversed" THEN @ ELSE "partially_blocked"]
       /\ Answered(v)
       /\ UNCHANGED <<target, source, record>>

ReverseImportBatch(v) ==
    LET b == reversal[v].of
    IN /\ b # Nothing /\ ~reversal[v].blocked
       /\ reversal[v].plan = {} \/ Domain(b) \in Reversible
       /\ target' = [k \in Ids |-> IF k \in reversal[v].plan
                                  THEN [target[k] EXCEPT !.state = "deleted"] ELSE target[k]]
       /\ batch' = [batch EXCEPT ![b].state = "reversed", ![b].runs = @ + 1]
       /\ Answered(v)
       /\ UNCHANGED <<source, record>>

RecordNext ==
    \/ \E b \in Batches :
        \/ StartBatch(b) \/ LookUp(b) \/ FinishBatch(b) \/ AbandonBatch(b)
        \/ ApplyClientRecord(b) \/ ApplyMatterRecord(b) \/ ApplyNoteRecord(b) \/ ApplyDocumentRecord(b)
        \/ ApplyTimeEntryRecord(b) \/ ApplyBillRecord(b) \/ ApplyOtherRecord(b)
    \/ \E k \in Ids : Touch(k)
    \/ \E v \in Reversers : (\E b \in Batches : Exam(v, b)) \/ RecordBlockers(v) \/ ReverseImportBatch(v)

RecordSpec == RecordInit /\ [][RecordNext]_recordVars

-----------------------------------------------------------------------------
\* A line of the source system lands once, however many batches carry it at
\* the same time.
ImportedOnce == \A j, k \in Ids : target[j].ref # Nothing /\ target[j].ref = target[k].ref => j = k

\* A reversal is all or nothing: a batch is reversed exactly when everything
\* it created is gone.
AllOrNothing ==
    \A b \in Batches : \A k \in Ids : target[k].batch = b /\ batch[b].at = 0 =>
        (target[k].state = "deleted" <=> batch[b].state = "reversed")

\* A batch with an item that cannot be taken back is never reversed: what it
\* updated keeps the source's value, and no before-image exists.
UpdatesAreFinal ==
    \A b \in Batches : batch[b].state = "reversed" => \A r \in Refs : record[b][r].disp # "updated"

RecordParameters == MaxTargets \in Nat /\ Nothing \notin Refs \cup Batches \cup Dispositions

\* What was created has its batch's item, and its reference names it.
CreatedAreItemised ==
    \A k \in Ids :
        /\ target[k].state = "none" => target[k].ref = Nothing /\ target[k].batch = Nothing
        /\ target[k].state # "none" =>
            LET b == target[k].batch  r == target[k].ref
            IN /\ b \in Batches /\ r \in Refs /\ source[r] = k
               /\ record[b][r].disp = "accepted" /\ record[b][r].target = k

\* An item has a target if it was accepted, which its batch created, or updated.
ItemsHaveTargets ==
    \A b \in Batches : \A r \in Refs :
        /\ record[b][r].target # 0 <=> record[b][r].disp \in {"accepted", "updated"}
        /\ record[b][r].disp = "accepted" => target[record[b][r].target].batch = b

\* A batch that a process runs is running, and one that was examined has ended: what the
\* exam found is what its items are.
RunningIsUnexamined ==
    /\ \A b \in Batches : batch[b].at # 0 => batch[b].state = "running"
    /\ \A v \in Reversers : reversal[v].of # Nothing =>
        LET b == reversal[v].of
        IN /\ b \in Batches /\ batch[b].state \in {"completed", "partially_blocked", "reversed"}
           /\ ~reversal[v].blocked => /\ reversal[v].plan = Targets(b)
                                      /\ \A r \in Refs : record[b][r].disp # "updated"

\* What a batch created is gone when the batch is reversed, and only then.
GoneTogether ==
    \A k \in Ids : target[k].state # "none" =>
        (target[k].state = "deleted" <=> batch[target[k].batch].state = "reversed")

\* The inductive invariant of the record domains.
RecordDiscipline ==
    /\ RecordTypeOK /\ CreatedAreItemised /\ ItemsHaveTargets /\ RunningIsUnexamined
    /\ GoneTogether /\ UpdatesAreFinal

\* Not kept: pipeline.ts:83: "The binding safety rule: touched by any non-import
\* actor => never updated".  The update does not look again.
BindingSafetyRule ==
    [][\A k \in Ids : target[k].touched /\ target'[k].name # target[k].name => target'[k].name = "staff"]_recordVars

\* Not kept: reverse.ts:2-4: "If any created record has been touched by a non-
\* import actor since import, NOTHING reverses".  What is looked at is not locked.
TouchedNeverReversed ==
    [][\A k \in Ids : target[k].touched => target'[k].state = target[k].state]_recordVars

\* Not kept: reverse.ts:10-11: "ONE import.batch_reversed register entry carries
\* the run".  Two reversals at once both find the batch completed.
ReversedByOneRun == \A b \in Batches : batch[b].runs <= 1

-----------------------------------------------------------------------------
(***************************************************************************)
(* Client-money imports onto one matter ledger (applyMoneyFullHistory and  *)
(* applyOpeningBalances in lib/ops/imports/pipeline.ts, runMoneyBatch in   *)
(* batches.ts, reverseImportBatch in reverse.ts), among the postings and   *)
(* reversals of staff.  A money batch is one transaction that takes the    *)
(* ledger's row before it looks at its balance, so it is one step here;    *)
(* every posting is refused when it would take the ledger below zero.      *)
(***************************************************************************)
CONSTANTS
    MoneyRefs,        \* source references of movements
    MoneyBatches,     \* import batches
    Amounts,     \* signed amounts of movements; kind carries the direction
    MaxEntries   \* bound: transactions on the ledger

VARIABLES
    ledger,      \* the ledger's transactions, in the order of their ids
    moneyBatch,       \* import_batch.state, "none" before it runs
    report       \* the import_record rows: batch, reference and disposition

moneyVars == <<ledger, moneyBatch, report>>

ByHand == "staff"
\* A file: a movement for each of some references.  entered is its place by
\* entered_at, in the file's order where two are equal.
Orders == {place \in [MoneyRefs -> 1..Cardinality(MoneyRefs)] : IsInjective(place)}
MoneyFiles == {{[ref |-> r, amount |-> amount[r], entered |-> place[r]] : r \in refs} :
            refs \in SUBSET MoneyRefs \ {{}}, amount \in [MoneyRefs -> Amounts], place \in Orders}

MoneyTypeOK ==
    /\ \A i \in DOMAIN ledger :
        /\ ledger[i].by \in MoneyBatches \cup {ByHand} /\ ledger[i].amount \in Int
        /\ ledger[i].kind \in {"movement", "opening", "reversal"}
        /\ ledger[i].ref \in MoneyRefs \cup {ByHand} /\ ledger[i].reverses \in 0..(i - 1)
    /\ moneyBatch \in [MoneyBatches -> {"none", "completed", "refused", "reversed"}]
    /\ \A o \in report : o.batch \in MoneyBatches /\ o.ref \in MoneyRefs /\ o.disp \in {"accepted", "warned", "refused"}

MoneyInit == ledger = <<>> /\ moneyBatch = [b \in MoneyBatches |-> "none"] /\ report = {}

-----------------------------------------------------------------------------
Sum(s) == FoldLeft(LAMBDA total, t : total + t.amount, 0, s)

\* What the posting function accepts: the ledger stays at or above zero
\* after every one of the transactions.
Fits(s) == \A n \in 0..Len(s) : Sum(ledger) + Sum(SubSeq(s, 1, n)) >= 0

IsReversed(i) == \E j \in DOMAIN ledger : ledger[j].reverses = i
Landed(ref) == \E i \in DOMAIN ledger : ledger[i].ref = ref /\ ledger[i].kind # "reversal"

Posting(kind, by, ref, amount, reverses) ==
    [kind |-> kind, by |-> by, ref |-> ref, amount |-> amount, reverses |-> reverses]

Room(n) == Len(ledger) + n <= MaxEntries

-----------------------------------------------------------------------------
\* The movements of a file in the order of their entered_at; those whose
\* reference has landed are warned about and skipped.
Chronological(f) == SetToSortSeq(f, LAMBDA x, y : x.entered < y.entered)

Replay(b, f) ==
    LET fresh == Chronological({m \in f : ~Landed(m.ref)})
    IN [i \in DOMAIN fresh |-> Posting("movement", b, fresh[i].ref, fresh[i].amount, 0)]

Report(b, f, outcome) ==
    report' = report \cup {[batch |-> b, ref |-> m.ref,
                            disp |-> IF Landed(m.ref) THEN "warned" ELSE outcome] : m \in f}

\* A refusal anywhere discards the whole replay, and the report says so of
\* the movements that had been accepted (those the replay never came to are
\* covered by its line for the batch).
AsDecided == "accepted"
RolledBack == "refused"
PartOf(s) == CHOOSE n \in 0..(Len(s) - 1) :
    /\ \A k \in 0..n : Sum(ledger) + Sum(SubSeq(s, 1, k)) >= 0
    /\ Sum(ledger) + Sum(SubSeq(s, 1, n + 1)) < 0
KeepPart(s) == ledger' = ledger \o SubSeq(s, 1, PartOf(s))
Discard(s) == UNCHANGED ledger

ApplyMoneyFullHistory(b, f) ==
    /\ moneyBatch[b] = "none" /\ Room(Cardinality(f))
    /\ IF Fits(Replay(b, f))
       THEN /\ ledger' = ledger \o Replay(b, f)
            /\ moneyBatch' = [moneyBatch EXCEPT ![b] = "completed"] /\ Report(b, f, "accepted")
       ELSE /\ Discard(Replay(b, f))
            /\ moneyBatch' = [moneyBatch EXCEPT ![b] = "refused"] /\ Report(b, f, RolledBack)

\* One opening balance per ledger, ever: one that was reversed still counts.
HasOpening == \E i \in DOMAIN ledger : ledger[i].kind = "opening"

ApplyOpeningBalances(b, ref, amount, closing) ==
    LET f == {[ref |-> ref, amount |-> amount, entered |-> 1]}
        refused == amount # closing \/ amount <= 0 \/ HasOpening
    IN /\ moneyBatch[b] = "none" /\ Room(1)
       /\ moneyBatch' = [moneyBatch EXCEPT ![b] = IF ~Landed(ref) /\ refused THEN "refused" ELSE "completed"]
       /\ IF Landed(ref) \/ refused
          THEN Report(b, f, "refused") /\ UNCHANGED ledger
          ELSE Report(b, f, "accepted") /\ ledger' = Append(ledger, Posting("opening", b, ref, amount, 0))

\* A validating run rolls everything back and leaves only its report, which
\* no reversal looks at.

\* Staff post on the ledger, and reverse single transactions of it.
StaffPost(amount) ==
    /\ Room(1)
    /\ LET t == Posting("movement", ByHand, ByHand, amount, 0)
       IN Fits(<<t>>) /\ ledger' = Append(ledger, t)
    /\ UNCHANGED <<moneyBatch, report>>

Mirror(by, i) == Posting("reversal", by, ledger[i].ref, -ledger[i].amount, i)

StaffReverse(i) ==
    /\ Room(1) /\ ledger[i].kind # "reversal" /\ ~IsReversed(i) /\ Fits(<<Mirror(ByHand, i)>>)
    /\ ledger' = Append(ledger, Mirror(ByHand, i))
    /\ UNCHANGED <<moneyBatch, report>>

-----------------------------------------------------------------------------
\* The reversal of a batch takes its accepted transactions newest first, so
\* that no intermediate balance dips below zero; one that staff reversed
\* already, or a balance that staff have spent, refuses all of it.
Accepted(b) == {i \in DOMAIN ledger : ledger[i].by = b /\ ledger[i].kind # "reversal"}

OldestFirst(b) == SetToSortSeq(Accepted(b), LAMBDA x, y : x < y)
NewestFirst(b) == SetToSortSeq(Accepted(b), LAMBDA x, y : x > y)

Unwinding(b) == LET ids == NewestFirst(b) IN [n \in DOMAIN ids |-> Mirror(b, ids[n])]

CanReverse(b) == Fits(Unwinding(b)) /\ \A i \in Accepted(b) : ~IsReversed(i)

ReverseMoneyBatch(b) ==
    /\ moneyBatch[b] = "completed" /\ Accepted(b) # {} /\ Room(Cardinality(Accepted(b)))
    /\ CanReverse(b)
    /\ ledger' = ledger \o Unwinding(b)
    /\ moneyBatch' = [moneyBatch EXCEPT ![b] = "reversed"]
    /\ UNCHANGED report

MoneyNext ==
    \/ \E b \in MoneyBatches :
        \/ \E f \in MoneyFiles : ApplyMoneyFullHistory(b, f)
        \/ \E r \in MoneyRefs, a \in Amounts, c \in Amounts : ApplyOpeningBalances(b, r, a, c)
        \/ ReverseMoneyBatch(b)
    \/ \E a \in Amounts : StaffPost(a)
    \/ \E i \in DOMAIN ledger : StaffReverse(i)

MoneySpec == MoneyInit /\ [][MoneyNext]_moneyVars

-----------------------------------------------------------------------------
\* A refused batch leaves no money row behind, and a reversed one none that
\* still counts.
RefusedLeavesNothing ==
    \A b \in MoneyBatches :
        /\ moneyBatch[b] = "refused" => Accepted(b) = {}
        /\ moneyBatch[b] = "reversed" => \A i \in Accepted(b) : IsReversed(i)

\* A batch that nobody posted after can always be taken back: unwinding in
\* the opposite order retraces balances the ledger has already stood at.
UntouchedUnwinds ==
    \A b \in MoneyBatches :
        moneyBatch[b] = "completed" /\ (\A i \in DOMAIN ledger : \A j \in Accepted(b) : i > j => i \in Accepted(b))
            => CanReverse(b)

\* What the report of a batch calls accepted is on the ledger, by that batch.
ReportIsTrue ==
    \A o \in report : o.disp = "accepted" <=> \E i \in Accepted(o.batch) : ledger[i].ref = o.ref
=============================================================================
