------------------------------ MODULE Numbering ------------------------------
(***************************************************************************)
(* The numbers of one purpose (bills, receipts, matters): formats that      *)
(* supersede one another, the counter of a gapless format and the sequence  *)
(* of the other kind, and transactions that draw a number for what they     *)
(* write and commit or fail. A daily format counts each acting date apart.  *)
(***************************************************************************)
EXTENDS Integers, Sequences, FiniteSets

CONSTANTS
  Callers,      \* transactions that allocate
  Days,         \* acting dates, and the days of the database's clock
  Base, Width,  \* a serial is shown in Width digits of this base
  MaxSerial,    \* bounds the serials drawn
  MaxFormats    \* bounds the formats

VARIABLES
  today,      \* the day of the database's clock
  formats,    \* the formats in the order they were made: the last one is active
  counters,   \* of each format, its counters and its sequence
  issued,     \* the numbers that documents carry
  call,       \* the allocating transactions
  change      \* the replacement under way

serialVars == <<today, formats, counters, issued, call, change>>

Resets == {"never", "daily"}
AllocationModes == {"gapless", "sequence"}
Format == [mode : AllocationModes, reset : Resets, dated : BOOLEAN]

\* The keys of the counters: one for each date, one for a format without partitions,
\* and the sequence.
All == 0
Stream == -1
Partitions == Days \cup {All, Stream}

\* from: where the counter began; restarted: at one, in a format that replaced another.
Counter == [from : Nat, next : Nat, restarted : BOOLEAN]

Number == [fmt : Nat, part : Partitions, date : Days, n : Nat, late : BOOLEAN, restarted : BOOLEAN]
AtRest == [at |-> "idle"]

Active == Len(formats)

\* A daily format must show the date, or its partitions would collide.
Accepted(f) == f.reset = "daily" => f.dated

Partition(f, date) ==
  CASE f.mode = "sequence" -> Stream
    [] f.mode = "gapless" /\ f.reset = "daily" -> date
    [] OTHER -> All

Cut(i) == i.n >= Base ^ Width

\* lpad fills up to the width, and cuts what is longer.
Shown(n) ==
  LET fits(k) == n \div Base ^ k < Base ^ Width
      digits == CHOOSE k \in 1..n : fits(k) /\ \A j \in 1..(k - 1) : ~fits(j)
  IN IF n < Base ^ Width THEN n ELSE n \div Base ^ digits

Rendering(i) == <<IF formats[i.fmt].dated THEN i.date ELSE All, Shown(i.n)>>

-----------------------------------------------------------------------------
SerialInit ==
  /\ today \in Days
  /\ \E mode \in AllocationModes, dated \in BOOLEAN :
       /\ formats = <<[mode |-> mode, reset |-> "never", dated |-> dated]>>
       /\ counters = <<IF mode = "sequence"
                         THEN [p \in {Stream} |-> [from |-> 1, next |-> 1, restarted |-> FALSE]]
                         ELSE [p \in {} |-> 0]>>
  /\ issued = {}
  /\ call = [c \in Callers |-> AtRest]
  /\ change = AtRest

NextDay ==
  /\ today + 1 \in Days
  /\ today' = today + 1
  /\ UNCHANGED <<formats, counters, issued, call, change>>

\* The active format is read without a lock, for the acting date of the document.
ReadFormat(c, date) ==
  /\ call[c] = AtRest
  /\ call' = [call EXCEPT ![c] = [at |-> "read", fmt |-> Active, date |-> date]]
  /\ UNCHANGED <<today, formats, counters, issued, change>>

Drawing(c, f, p) == call[c].at = "drawn" /\ call[c].num.fmt = f /\ call[c].num.part = p

\* The counter's row, once made or moved, is locked to the end of its transaction.
CounterFree(f, p) == \A c \in Callers : ~Drawing(c, f, p)

\* A counter's first row refers to the format, whose row a replacement holds.
FormatFree(f) == change = AtRest \/ f # Active

Fresh(f) == [from |-> 1, next |-> 1, restarted |-> f > 1]
CounterOf(f, p) == IF p \in DOMAIN counters[f] THEN counters[f][p] ELSE Fresh(f)

\* A number drawn after the counters of its format were carried to the next one.
Passed(f) == f < Active \/ change # AtRest

Drawn(c, p) ==
  LET f == call[c].fmt
      k == CounterOf(f, p)
  IN [fmt |-> f, part |-> p, date |-> call[c].date, n |-> k.next,
      late |-> Passed(f), restarted |-> k.restarted]

\* A gapless counter moves with the transaction; the sequence moves at once, and for good.
Draw(c) ==
  /\ call[c].at = "read"
  /\ LET f == call[c].fmt
         p == Partition(formats[f], call[c].date)
         num == Drawn(c, p)
     IN /\ CounterFree(f, p) \/ p = Stream
        /\ p \notin DOMAIN counters[f] => FormatFree(f)
        /\ num.n <= MaxSerial
        /\ call' = [call EXCEPT ![c] = [at |-> "drawn", num |-> num, new |-> p \notin DOMAIN counters[f]]]
        /\ counters' = IF p = Stream THEN [counters EXCEPT ![f][p].next = @ + 1] ELSE counters
  /\ UNCHANGED <<today, formats, issued, change>>

Taken(num) == \E i \in issued : Rendering(i) = Rendering(num)

\* The counter's row as the transaction leaves it.
Advanced(num) ==
  LET k == [CounterOf(num.fmt, num.part) EXCEPT !.next = num.n + 1]
  IN [p \in DOMAIN counters[num.fmt] \cup {num.part} |->
        IF p = num.part THEN k ELSE counters[num.fmt][p]]

\* The document is written with its number, which no other may carry.
Commit(c) ==
  /\ call[c].at = "drawn"
  /\ LET num == call[c].num
         gapless == num.part # Stream
     IN /\ ~Taken(num)
        /\ issued' = issued \cup {[num EXCEPT !.late = @ \/ (gapless /\ Passed(num.fmt))]}
        /\ counters' = IF gapless THEN [counters EXCEPT ![num.fmt] = Advanced(num)] ELSE counters
  /\ call' = [call EXCEPT ![c] = AtRest]
  /\ UNCHANGED <<today, formats, change>>

\* The rest of the transaction fails, or its number is taken.
Abort(c) ==
  /\ call[c] # AtRest
  /\ call' = [call EXCEPT ![c] = AtRest]
  /\ UNCHANGED <<today, formats, counters, issued, change>>

-----------------------------------------------------------------------------
HighestNext(rows) ==
  IF DOMAIN rows = {} THEN 1
  ELSE CHOOSE n \in {rows[p].next : p \in DOMAIN rows} : \A p \in DOMAIN rows : n >= rows[p].next

\* What the new format starts from: every counter where the reset stays, one seed
\* above them all where it changes, for the database's day if that is daily.
Carried(old, to) ==
  LET rows == counters[Active]
      seed == IF old.mode = "sequence" THEN rows[Stream].next ELSE HighestNext(rows)
      start == [from |-> seed, next |-> seed, restarted |-> FALSE]
  IN IF old.mode = "gapless" /\ to.mode = "gapless" /\ old.reset = to.reset
       THEN [p \in DOMAIN rows |-> [rows[p] EXCEPT !.from = rows[p].next]]
       ELSE [p \in {Partition(to, today)} |-> start]

\* The active format's row is locked, its counters are read as they are committed. A
\* second replacement waits on that row, and then the unique index refuses it.
StartReplace(to) ==
  /\ change = AtRest
  /\ Active < MaxFormats
  /\ Accepted(to)
  /\ \A c \in Callers : call[c].at = "drawn" => ~(call[c].new /\ call[c].num.fmt = Active)
  /\ change' = [at |-> "copied", to |-> to, rows |-> Carried(formats[Active], to)]
  /\ UNCHANGED <<today, formats, counters, issued, call>>

CommitReplace ==
  /\ change # AtRest
  /\ formats' = Append(formats, change.to)
  /\ counters' = Append(counters, change.rows)
  /\ change' = AtRest
  /\ UNCHANGED <<today, issued, call>>

AbortReplace ==
  /\ change # AtRest
  /\ change' = AtRest
  /\ UNCHANGED <<today, formats, counters, issued, call>>

SerialNext ==
  \/ NextDay
  \/ \E c \in Callers, date \in Days : ReadFormat(c, date)
  \/ \E c \in Callers : Draw(c) \/ Commit(c) \/ Abort(c)
  \/ \E to \in Format : StartReplace(to)
  \/ CommitReplace \/ AbortReplace

SerialSpec == SerialInit /\ [][SerialNext]_serialVars

-----------------------------------------------------------------------------
RowsOK(rows) == rows \in [DOMAIN rows -> Counter] /\ DOMAIN rows \subseteq Partitions

SerialTypeOK ==
  /\ today \in Days
  /\ formats \in Seq(Format) /\ Active \in 1..MaxFormats
  /\ counters = [f \in 1..Active |-> counters[f]]
  /\ \A f \in 1..Active : RowsOK(counters[f])
  /\ issued \subseteq Number /\ IsFiniteSet(issued)
  /\ DOMAIN call = Callers
  /\ \A c \in Callers :
       \/ call[c] = AtRest
       \/ call[c] \in [at : {"read"}, fmt : 1..Active, date : Days]
       \/ call[c] \in [at : {"drawn"}, num : Number, new : BOOLEAN]
  /\ change = AtRest \/ (change.at = "copied" /\ change.to \in Format /\ RowsOK(change.rows))

\* 0051: a gapless counter is locked inside the committing transaction, so that one
\* that fails leaves no gap: the numbers of a counter run from where it began to the
\* next one, each on one document.
NoGaps ==
  \A f \in 1..Active : \A p \in DOMAIN counters[f] \ {Stream} :
    LET held == {i \in issued : i.fmt = f /\ i.part = p}
        own == {i.n : i \in held}
    IN /\ Cardinality(held) = Cardinality(own)
       /\ own = counters[f][p].from..(counters[f][p].next - 1)

\* A number drawn is not on a document already, however often the format is replaced,
\* unless one of the two was drawn from a format whose counters had been carried on,
\* comes from a date that the change of reset or mode did not seed, or has outgrown
\* the width of its format.
RepeatsOnlyPastTheSeed ==
  \A c \in Callers : call[c].at = "drawn" =>
    \A i \in issued : Rendering(i) = Rendering(call[c].num) =>
      LET num == call[c].num
      IN \/ i.late \/ num.late \/ Passed(num.fmt)
         \/ i.restarted \/ num.restarted
         \/ Cut(i) \/ Cut(num)

\* 0051:121: "so no number can repeat". It does, in each of the cases above, and the
\* document then cannot be written: a gapless counter gives the same number again.
NeverRepeats ==
  \A c \in Callers : call[c].at = "drawn" => ~Taken(call[c].num)

-----------------------------------------------------------------------------
\* What the proofs suppose: days are not the keys of other counters, bounds are numbers.
SerialParameters ==
  /\ Days \subseteq Int \ {All, Stream} /\ Base ^ Width \in Nat
  /\ MaxSerial \in Nat /\ MaxFormats \in Nat \ {0}

\* The counters of a format: finitely many, with the keys of its mode and reset.
RowsFit(fm, rows) ==
  /\ Accepted(fm) /\ IsFiniteSet(DOMAIN rows)
  /\ fm.mode = "sequence" => DOMAIN rows = {Stream}
  /\ fm.mode = "gapless" => DOMAIN rows \subseteq IF fm.reset = "daily" THEN Days ELSE {All}
  /\ \A p \in DOMAIN rows : 1 <= rows[p].from /\ rows[p].from <= rows[p].next

\* A replacement goes on from counters of its own, each where it begins.
Replaces ==
  change # AtRest =>
    /\ Active < MaxFormats /\ RowsFit(change.to, change.rows)
    /\ \A p \in DOMAIN change.rows : change.rows[p].from = change.rows[p].next

\* What is drawn from the sequence is drawn for good, as what is issued.
Spent == issued \cup {call[c].num : c \in {d \in Callers : call[d].at = "drawn" /\ call[d].num.part = Stream}}

\* A number is of a counter of its format, for its date, and below the counter's next.
SpentFits ==
  \A i \in Spent :
    /\ i.fmt \in 1..Active /\ i.part = Partition(formats[i.fmt], i.date)
    /\ i.part \in DOMAIN counters[i.fmt] /\ i.n < counters[i.fmt][i.part].next

\* A transaction's number is the next of its counter, and nobody else's.
DrawnFits ==
  \A c \in Callers : call[c].at = "drawn" =>
    LET num == call[c].num
        k == CounterOf(num.fmt, num.part)
    IN /\ num.fmt \in 1..Active /\ num.part = Partition(formats[num.fmt], num.date)
       /\ k.from <= num.n /\ num.restarted = k.restarted
       /\ num.part # Stream => num.n = k.next
       /\ \A d \in Callers \ {c} : Drawing(d, num.fmt, num.part) => num.part = Stream /\ call[d].num.n # num.n
       /\ num.part = Stream => \A i \in issued : i.fmt = num.fmt => i.n # num.n

\* What was drawn in time from an earlier format is below every counter that a later
\* one begins with: below the start of the counter that goes on with its own date, and
\* below the next of one of them whatever its date.
Exempt(i) == i.late \/ i.restarted
SeedsAbove(f, rows) ==
  \A i \in Spent : i.fmt < f /\ ~Exempt(i) =>
    /\ \E p \in DOMAIN rows : i.n < rows[p].next
    /\ \A p \in DOMAIN rows : ~rows[p].restarted /\ (p \in Days => p = i.date) => i.n < rows[p].from

Seeded ==
  /\ \A f \in 1..Active : SeedsAbove(f, counters[f])
  /\ change # AtRest => SeedsAbove(Active + 1, change.rows)

\* The inductive invariant of the numbers.
SerialDiscipline ==
  /\ SerialTypeOK /\ \A f \in 1..Active : RowsFit(formats[f], counters[f])
  /\ Replaces /\ SpentFits /\ DrawnFits /\ Seeded /\ NoGaps
=============================================================================
