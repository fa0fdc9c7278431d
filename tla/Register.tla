------------------------------ MODULE Register ------------------------------
\* The register of events and the cached positions that follow it. Each part has its own
\* variables and its own next-state relation.
EXTENDS Integers, FiniteSets, FiniteSetsExt

-----------------------------------------------------------------------------
\* The register of events: the hash chain its trigger keeps, the job that evaluates
\* entries past a cursor and the job that verifies the chain
\* (src/lib/db/register.ts, src/lib/ops/security/anomalyJobs.ts, the triggers of
\* 0001 and 0027).
\*
\* An append takes the chain head's row lock, the last lock of its transaction, and
\* the next number of a sequence that does not roll back.  A hash is modelled by
\* what it binds: the number of the entry before.
CONSTANTS Writers,   \* operations that append an entry
          Jobs,      \* runs of the evaluation job in flight at once
          MaxSeq     \* bound: numbers drawn

\* What the constant is.
ChainParameters == MaxSeq \in Nat

VARIABLES entry,    \* the committed entries by number: what each was linked to
          seqno,    \* the last number drawn
          head,     \* the head of the chain: the number of the last entry
          cursor,   \* how far the rule has been evaluated
          seen,     \* the entries evaluated, and how often
          proc      \* each process: its draft entry, or what it read

chainVars == <<entry, seqno, head, cursor, seen, proc>>

Procs == Writers \union Jobs
Idle == [at |-> "idle", seq |-> 0, prev |-> 0, batch |-> {}]
Appending(n, k) == [at |-> "append", seq |-> n, prev |-> k, batch |-> {}]
Evaluating(b) == [at |-> "evaluate", seq |-> 0, prev |-> 0, batch |-> b]

ProcRow == [at : {"idle", "append", "evaluate"}, seq : 0..MaxSeq, prev : 0..MaxSeq,
            batch : SUBSET (1..MaxSeq)]

ChainTypeOK ==
  /\ entry \in [1..MaxSeq -> -1..MaxSeq] /\ seqno \in 0..MaxSeq /\ head \in 0..MaxSeq
  /\ cursor \in 0..MaxSeq /\ seen \in [1..MaxSeq -> Nat]
  /\ proc \in [Procs -> ProcRow]

NoEntry == -1

ChainInit ==
  /\ entry = [n \in 1..MaxSeq |-> NoEntry] /\ seqno = 0 /\ head = 0
  /\ cursor = 0 /\ seen = [n \in 1..MaxSeq |-> 0]
  /\ proc = [p \in Procs |-> Idle]

IsIdle(p) == proc[p].at = "idle"
Free(p) == proc' = [proc EXCEPT ![p] = Idle]
Committed == {n \in 1..MaxSeq : entry[n] # NoEntry}

\* The chain head's row lock.
NoneAppends(p) == \A q \in Procs : proc[q].at = "append" => q = p
NeverQueues(p) == TRUE
HeadFree(p) == NoneAppends(p)

\* The trigger: lock, draw a number, link to the head's entry.
EmitRegister(w) ==
  /\ IsIdle(w) /\ HeadFree(w) /\ seqno < MaxSeq
  /\ seqno' = seqno + 1
  /\ proc' = [proc EXCEPT ![w] = Appending(seqno + 1, head)]
  /\ UNCHANGED <<entry, head, cursor, seen>>

CommitEntry(w) ==
  /\ w \in Writers /\ proc[w].at = "append"
  /\ entry' = [entry EXCEPT ![proc[w].seq] = proc[w].prev] /\ head' = proc[w].seq
  /\ Free(w) /\ UNCHANGED <<seqno, cursor, seen>>

\* The operation fails after its entry: the number is gone, the link is not.
Rollback(p) ==
  /\ ~IsIdle(p) /\ Free(p) /\ UNCHANGED <<entry, seqno, head, cursor, seen>>

\* The evaluation reads the cursor, then what lies past it.
Past(c) == {n \in Committed : n > c}
StartEvaluation(j) ==
  /\ j \in Jobs /\ IsIdle(j) /\ Past(cursor) # {}
  /\ proc' = [proc EXCEPT ![j] = Evaluating(Past(cursor))]
  /\ UNCHANGED <<entry, seqno, head, cursor, seen>>

Newest(b) == CHOOSE n \in b : \A m \in b : m <= n

\* Alerts are raised and the cursor moves in one transaction; a cursor that would
\* move back is refused by its guard.
Evaluate(j) ==
  /\ proc[j].at = "evaluate" /\ Newest(proc[j].batch) >= cursor
  /\ seen' = [n \in 1..MaxSeq |-> IF n \in proc[j].batch THEN seen[n] + 1 ELSE seen[n]]
  /\ cursor' = Newest(proc[j].batch)
  /\ Free(j) /\ UNCHANGED <<entry, seqno, head>>

ChainNext ==
  \/ \E w \in Writers : EmitRegister(w) \/ CommitEntry(w)
  \/ \E j \in Jobs : StartEvaluation(j) \/ Evaluate(j)
  \/ \E p \in Procs : Rollback(p)

ChainSpec == ChainInit /\ [][ChainNext]_chainVars

\* The verifier's walk from the first entry: each entry is linked to the one before
\* it.  It never finds a break that no one made, however appends overlap and fail.
Before(n) == Newest({m \in Committed : m < n} \union {0})
Breaks == {n \in Committed : entry[n] # Before(n)}
RunChainVerificationFindsNothing == Breaks = {}

\* The cursor never passes an entry that was not evaluated: entries become visible
\* in the order of their numbers.
NothingSkipped == \A n \in Committed : n <= cursor => seen[n] > 0

(* Why: appends take turns, so numbers commit in their order. *)

\* One process appends at a time, with the last number, on the entry that is the head.
Appends(p) == proc[p].at = "append"
TakesItsTurn(p) ==
  Appends(p) => /\ proc[p].seq = seqno /\ proc[p].prev = head /\ head < seqno
                /\ NoneAppends(p)

\* What a run of the evaluation has read is all there was past its cursor, and what has
\* committed since comes after it.
ReadsOn(p) ==
  proc[p].at = "evaluate" =>
    /\ proc[p].batch # {} /\ proc[p].batch \subseteq Committed
    /\ \A n \in Committed : n \in proc[p].batch \/ seen[n] > 0 \/ \A m \in proc[p].batch : m < n

ChainDiscipline ==
  /\ ChainTypeOK
  /\ head <= seqno /\ cursor <= head
  /\ head \in Committed \union {0} /\ \A n \in Committed : n <= head
  /\ \A p \in Procs : TakesItsTurn(p) /\ ReadsOn(p)
  /\ RunChainVerificationFindsNothing
  /\ NothingSkipped

\* Not kept: "the cursor advances in the SAME transaction, so evaluation is
\* exactly-once per entry" (anomalyJobs.ts:7-9).  Two runs of the job read one cursor.
EvaluatedOnce == \A n \in 1..MaxSeq : seen[n] <= 1

-----------------------------------------------------------------------------
(***************************************************************************)
(* The display cache of matter positions (lib/ops/reports: experience).    *)
(* Each row carries the register position it was computed from; the job,   *)
(* and a few screens right after a change, recompute the rows of matters   *)
(* the register has named since.  The verifier compares rows with fresh    *)
(* figures and corrects them where they stand.  Both are one transaction   *)
(* of many statements: every statement sees what is committed by then, and *)
(* a row written is locked until the commit.                               *)
(*                                                                         *)
(* The position a row carries is an entry's id, an identity: an insert     *)
(* draws it before its trigger waits for the chain's head, so ids become   *)
(* visible in another order than they are drawn, unlike the chain's seq.   *)
(***************************************************************************)
CONSTANTS
    Matters,      \* numbered
    Refreshes,    \* recomputations and verifications
    MaxPosition   \* bound: register entries

\* What the constants are.
PositionParameters == MaxPosition \in Nat /\ Matters \subseteq Nat

VARIABLES
    figure,   \* the matter's position as the journals have it
    drawn,    \* the last id drawn for an entry
    flight,   \* the changes that have drawn their id and wait for the head of the chain
    visible,  \* the highest id of a committed entry
    named,    \* the highest id of a committed entry that names the matter
    cache,    \* matter_position_cache: the figure, its frontier, who wrote it last
    unseen,   \* matters whose last change no entry names
    late,     \* matters whose last change became visible behind a frontier already read
    refresh

positionVars == <<figure, drawn, flight, visible, named, cache, unseen, late, refresh>>

NoRow == -1      \* no row yet
NoRefresh == [at |-> "idle", frontier |-> 0, todo |-> {}, listed |-> {}, value |-> NoRow, wrote |-> {}]
Rows == [matter : Matters, value : -1..MaxPosition]

CacheRow == [value : -1..MaxPosition, frontier : 0..MaxPosition, by : {"job", "verifier"}]
ChangeRow == [id : 1..MaxPosition, ms : SUBSET Matters, name : SUBSET Matters]
RefreshRow == [at : {"idle", "frontier", "rows", "row", "sample", "correct"},
           frontier : 0..MaxPosition, todo : SUBSET Matters, listed : SUBSET Rows,
           value : -1..MaxPosition, wrote : SUBSET Rows]

PositionTypeOK ==
    /\ figure \in [Matters -> 0..MaxPosition] /\ named \in [Matters -> 0..MaxPosition]
    /\ drawn \in 0..MaxPosition /\ visible \in 0..MaxPosition /\ flight \subseteq ChangeRow
    /\ cache \in [Matters -> CacheRow] /\ unseen \subseteq Matters /\ late \subseteq Matters
    /\ refresh \in [Refreshes -> RefreshRow]

PositionInit ==
    /\ figure = [m \in Matters |-> 0] /\ named = [m \in Matters |-> 0]
    /\ drawn = 0 /\ visible = 0 /\ flight = {}
    /\ cache = [m \in Matters |-> [value |-> NoRow, frontier |-> 0, by |-> "job"]]
    /\ unseen = {} /\ late = {} /\ refresh = [j \in Refreshes |-> NoRefresh]

-----------------------------------------------------------------------------
\* An operation changes the positions of some matters and its entry names one,
\* or none: a ledger transfer names the matter the money leaves, a corrected
\* payment names no matter.
DrawId(ms, name) ==
    /\ drawn < MaxPosition /\ drawn' = drawn + 1
    /\ flight' = flight \cup {[id |-> drawn + 1, ms |-> ms, name |-> name]}
    /\ UNCHANGED <<figure, visible, named, cache, unseen, late, refresh>>

EditEntry(m) == DrawId({m}, {m})
LedgerTransfer(from, to) == from # to /\ DrawId({from, to}, {from})
CorrectPayment(m) == DrawId({m}, {})

\* Any of those waiting takes the head next, and commits.  A figure is the id of the
\* change that set it.
Later(a, b) == IF a < b THEN b ELSE a
Behind(m, id) == id <= cache[m].frontier \/ \E j \in Refreshes : id <= refresh[j].frontier
CommitChange(t) ==
    /\ flight' = flight \ {t} /\ visible' = Later(visible, t.id)
    /\ figure' = [m \in Matters |-> IF m \in t.ms THEN t.id ELSE figure[m]]
    /\ named' = [m \in Matters |-> IF m \in t.name THEN Later(named[m], t.id) ELSE named[m]]
    /\ unseen' = (unseen \cup t.ms) \ t.name
    /\ late' = (late \ t.name) \cup {m \in t.ms : Behind(m, t.id)}
    /\ UNCHANGED <<drawn, cache, refresh>>

\* The operation fails after its entry: its id is gone.
RollbackChange(t) ==
    /\ flight' = flight \ {t}
    /\ UNCHANGED <<figure, drawn, visible, named, cache, unseen, late, refresh>>

-----------------------------------------------------------------------------
\* What the operations write: the jobs only read it.
operationVars == <<figure, drawn, flight, visible, named, unseen, late>>

\* recomputePositionCache: the frontier first, then the stale rows, then each
\* of them in order, then the commit.
ReadFrontier(j) ==
    /\ refresh[j] = NoRefresh
    /\ refresh' = [refresh EXCEPT ![j] = [@ EXCEPT !.at = "frontier", !.frontier = visible]]
    /\ UNCHANGED <<operationVars, cache>>

Stale(m) == cache[m].value = NoRow \/ named[m] > cache[m].frontier

ListStale(j) ==
    /\ refresh[j].at = "frontier"
    /\ refresh' = [refresh EXCEPT ![j] = [@ EXCEPT !.at = "rows", !.todo = {m \in Matters : Stale(m)}]]
    /\ UNCHANGED <<operationVars, cache>>

Computes(j, at, next, m) ==
    /\ refresh[j].at = at /\ refresh[j].todo # {} /\ m = Min(refresh[j].todo)
    /\ refresh' = [refresh EXCEPT ![j] = [@ EXCEPT !.at = next, !.value = figure[m]]]
    /\ UNCHANGED <<operationVars, cache>>

RowFree(j, m) == \A k \in Refreshes \ {j} : \A r \in refresh[k].wrote : r.matter # m

Writes(j, at, next, m) ==
    /\ refresh[j].at = at /\ m = Min(refresh[j].todo) /\ RowFree(j, m)
    /\ LET row == [matter |-> m, value |-> refresh[j].value]
       IN refresh' = [refresh EXCEPT ![j] = [@ EXCEPT !.at = next, !.todo = refresh[j].todo \ {m}, !.value = NoRow,
                                              !.wrote = refresh[j].wrote \cup {row}]]
    /\ UNCHANGED <<operationVars, cache>>

Recompute(j) == \E m \in refresh[j].todo : Computes(j, "rows", "row", m) \/ Writes(j, "row", "rows", m)

Value(j, m) == (CHOOSE r \in refresh[j].wrote : r.matter = m).value
Wrote(j) == {r.matter : r \in refresh[j].wrote}

FrontierAtCommit(j) == visible
Frontier(j) == refresh[j].frontier

CommitRecompute(j) ==
    /\ refresh[j].at = "rows" /\ refresh[j].todo = {}
    /\ cache' = [m \in Matters |-> IF m \in Wrote(j)
                                   THEN [value |-> Value(j, m), frontier |-> Frontier(j), by |-> "job"]
                                   ELSE cache[m]]
    /\ refresh' = [refresh EXCEPT ![j] = NoRefresh]
    /\ UNCHANGED operationVars

\* verifyPositionCache: the rows as cached, each against its fresh figure; one
\* that differs takes the fresh figure and keeps its frontier.
ListSample(j) ==
    /\ refresh[j] = NoRefresh
    /\ LET rows == {m \in Matters : cache[m].value # NoRow}
       IN refresh' = [refresh EXCEPT ![j] = [@ EXCEPT !.at = "sample", !.todo = rows,
                              !.listed = {[matter |-> m, value |-> cache[m].value] : m \in rows}]]
    /\ UNCHANGED <<operationVars, cache>>

Same(j, m) ==
    /\ refresh[j].at = "sample" /\ m = Min(refresh[j].todo) /\ [matter |-> m, value |-> figure[m]] \in refresh[j].listed
    /\ refresh' = [refresh EXCEPT ![j] = [@ EXCEPT !.todo = refresh[j].todo \ {m}]]
    /\ UNCHANGED <<operationVars, cache>>

Diverged(j, m) ==
    /\ [matter |-> m, value |-> figure[m]] \notin refresh[j].listed
    /\ Computes(j, "sample", "correct", m)

Verify(j) == \E m \in refresh[j].todo : Same(j, m) \/ Diverged(j, m) \/ Writes(j, "correct", "sample", m)

CommitVerify(j) ==
    /\ refresh[j].at = "sample" /\ refresh[j].todo = {}
    /\ cache' = [m \in Matters |-> IF m \in Wrote(j)
                                   THEN [cache[m] EXCEPT !.value = Value(j, m), !.by = "verifier"]
                                   ELSE cache[m]]
    /\ refresh' = [refresh EXCEPT ![j] = NoRefresh]
    /\ UNCHANGED operationVars

\* A statement fails, or two jobs wait for each other's rows: all is undone.
Fail(j) ==
    /\ refresh[j] # NoRefresh /\ refresh' = [refresh EXCEPT ![j] = NoRefresh]
    /\ UNCHANGED <<operationVars, cache>>

PositionNext ==
    \/ \E m \in Matters : EditEntry(m) \/ CorrectPayment(m) \/ \E n \in Matters : LedgerTransfer(m, n)
    \/ \E t \in flight : CommitChange(t) \/ RollbackChange(t)
    \/ \E j \in Refreshes :
        \/ ReadFrontier(j) \/ ListStale(j) \/ Recompute(j) \/ CommitRecompute(j)
        \/ ListSample(j) \/ Verify(j) \/ CommitVerify(j) \/ Fail(j)

PositionSpec == PositionInit /\ [][PositionNext]_positionVars

-----------------------------------------------------------------------------
\* A row that is out of date is one the next recomputation lists, whatever runs at once,
\* unless the change was one no entry names, became visible behind a frontier that had been
\* read, or the verifier wrote the row last.
StaleIsListed ==
    \A m \in Matters :
        \/ cache[m].value = figure[m] \/ Stale(m)
        \/ m \in unseen \cup late \/ cache[m].by = "verifier"

\* Not kept: "Recompute stale cache rows past the register frontier" (experience.ts:161), of
\* changes whose entries name the matter.  A change that becomes visible behind a frontier
\* that a recomputation has read stays behind it.
PastTheFrontier ==
    \A m \in Matters :
        cache[m].value = figure[m] \/ Stale(m) \/ m \in unseen \/ cache[m].by = "verifier"

\* Why: what a recomputation read of a matter is its figure, unless an entry past the
\* frontier names the matter now, its change is named by none, or came behind a frontier.
AsOf(value, frontier, m) == value = figure[m] \/ m \in unseen \cup late \/ named[m] > frontier
ReadAsOf(x) ==
    /\ x.at \in {"frontier", "rows", "row"} => \A r \in x.wrote : AsOf(r.value, x.frontier, r.matter)
    /\ x.at = "row" => Min(x.todo) \in x.todo /\ AsOf(x.value, x.frontier, Min(x.todo))

PositionDiscipline ==
    /\ PositionTypeOK
    /\ \A t \in flight : t.name \subseteq t.ms
    /\ \A m \in Matters :
        \/ cache[m].by = "verifier" \/ cache[m].value = NoRow
        \/ AsOf(cache[m].value, cache[m].frontier, m)
    /\ \A j \in Refreshes : ReadAsOf(refresh[j])
=============================================================================
