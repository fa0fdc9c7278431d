---------------------------- MODULE Reconciliation ----------------------------
(***************************************************************************)
(* Reconciling client accounts with their bank statements: one build at a    *)
(* time per account, match groups, exceptions that later builds carry or     *)
(* resolve, and the certification that locks a build for good.  The verbs of *)
(* a build take its row lock, so each is one action; the certification's     *)
(* statements each read what is committed by then, and postings, statement   *)
(* lines and the builds of other accounts do not wait for it.                *)
(*                                                                         *)
(* The operator types an exception's kind and amount; here they are those of *)
(* the item it is about.                                                     *)
(***************************************************************************)
EXTENDS Integers, Sequences, FiniteSets, FiniteSetsExt

CONSTANTS
  Accounts, Txns, Lines,
  AccountOf,     \* the account of each transaction and statement line
  Value,         \* its signed amount
  DateOf,        \* its effective or line date
  Instruments,   \* the payments that are backed by an outbound instrument
  Dates, Balances,
  MaxBuilds,     \* bound: reconciliations built
  MaxGroups,     \* bound: match groups standing at a time
  MaxExceptions  \* bound: exceptions raised

\* What the constants are.
DataAssumption ==
  /\ Instruments \subseteq Txns /\ Txns \cap Lines = {}
  /\ AccountOf \in [Txns \cup Lines -> Accounts]
  /\ Value \in [Txns \cup Lines -> Int \ {0}]
  /\ DateOf \in [Txns \cup Lines -> Int] /\ {MaxBuilds, MaxGroups, MaxExceptions} \subseteq Nat

VARIABLES
  posted,     \* committed transactions
  arrived,    \* ingested statement lines
  presented,  \* the instruments presented at the bank
  build,      \* the reconciliations, by id
  groups,     \* match groups: [build, lines, txns]
  exc,        \* exceptions, by id
  exam,       \* how far each build's certification is: none, covered, equal
  seen        \* the transactions committed when a build was certified

vars == <<posted, arrived, presented, build, groups, exc, exam, seen>>

Builds == DOMAIN build
Excs == DOMAIN exc

BuildRow == [account : Accounts, date : Dates, balance : Balances,
             status : {"in_progress", "certified"}]
Linked == ({"transaction"} \X Txns) \cup ({"instrument"} \X Instruments) \cup ({"line"} \X Lines)
ExcRow == [first : 1..MaxBuilds, build : 1..MaxBuilds, linked : Linked,
           state : {"open", "resolved", "carried_forward"},
           by : 0..MaxBuilds,       \* resolved_in
           to : Nat]                \* carried_to

\* The rows and their checks in 0014: carried means a successor row, resolved means a build.
TypeOK ==
  /\ posted \subseteq Txns /\ arrived \subseteq Lines /\ presented \subseteq Instruments
  /\ build \in Seq(BuildRow) /\ Len(build) <= MaxBuilds
  /\ groups \subseteq [build : Builds, lines : SUBSET Lines, txns : SUBSET Txns]
  /\ exc \in Seq(ExcRow)
  /\ \A i \in Excs : /\ exc[i].to \in IF exc[i].state = "carried_forward" THEN Excs ELSE {0}
                     /\ (exc[i].state = "resolved") = (exc[i].by # 0)
  /\ exam \in [1..MaxBuilds -> {"none", "covered", "equal"}]
  /\ seen \in [1..MaxBuilds -> SUBSET Txns]

Init ==
  /\ posted = {} /\ arrived = {} /\ presented = {}
  /\ build = << >> /\ groups = {} /\ exc = << >>
  /\ exam = [b \in 1..MaxBuilds |-> "none"]
  /\ seen = [b \in 1..MaxBuilds |-> {}]

Certified(b) == build[b].status = "certified"
InProgress(b) == build[b].status = "in_progress" /\ exam[b] = "none"

Post(t) ==
  /\ t \notin posted
  /\ posted' = posted \cup {t}
  /\ UNCHANGED <<arrived, presented, build, groups, exc, exam, seen>>

IngestLine(l) ==
  /\ l \notin arrived
  /\ arrived' = arrived \cup {l}
  /\ UNCHANGED <<posted, presented, build, groups, exc, exam, seen>>

(***************************************************************************)
(* Building: the unpresented instruments are excepted, then every exception  *)
(* still open on a certified build of the account is carried into this one.  *)
(***************************************************************************)
RaisedThere(a) ==
  {i \in Excs : exc[i].state = "open" /\ Certified(exc[i].build) /\ build[exc[i].build].account = a
                /\ exc[i].first = exc[i].build}

AllPriors(a) == {i \in Excs : Certified(exc[i].build) /\ build[exc[i].build].account = a}

OpenPriors(a) ==
  {i \in Excs : exc[i].state = "open" /\ Certified(exc[i].build) /\ build[exc[i].build].account = a}

Unpresented(a, d) ==
  {t \in Instruments \cap posted : AccountOf[t] = a /\ t \notin presented /\ DateOf[t] <= d}

Fresh(b, x) == [first |-> b, build |-> b, linked |-> x, state |-> "open", by |-> 0, to |-> 0]

FreshSuccessor(i, b) == Fresh(b, exc[i].linked)
Successor(i, b) == [exc[i] EXCEPT !.build = b]

InOrder(S) == [k \in 1..Cardinality(S) |-> CHOOSE i \in S : Cardinality({j \in S : j < i}) = k - 1]

BuildReconciliation(a, d, x) ==
  LET b == Len(build) + 1
      excepted == {t \in Unpresented(a, d) :
                     \A i \in OpenPriors(a) : exc[i].linked # <<"instrument", t>>}
      ts == CHOOSE s \in [1..Cardinality(excepted) -> excepted] : \A t \in excepted : \E k \in DOMAIN s : s[k] = t
      carried == InOrder(OpenPriors(a))
      base == Len(exc) + Len(ts)
  IN  /\ b <= MaxBuilds /\ base + Len(carried) <= MaxExceptions
      /\ \A c \in Builds : build[c].account = a => build[c].date # d /\ Certified(c)
      /\ build' = Append(build, [account |-> a, date |-> d, balance |-> x, status |-> "in_progress"])
      /\ exc' = [i \in Excs |-> IF i \in OpenPriors(a)
                                THEN [exc[i] EXCEPT !.state = "carried_forward",
                                        !.to = base + (CHOOSE k \in DOMAIN carried : carried[k] = i)]
                                ELSE exc[i]]
                \o [k \in DOMAIN ts |-> Fresh(b, <<"instrument", ts[k]>>)]
                \o [k \in DOMAIN carried |-> Successor(carried[k], b)]
      /\ UNCHANGED <<posted, arrived, presented, groups, exam, seen>>

(***************************************************************************)
(* The verbs of a build in progress.                                        *)
(***************************************************************************)
CreateMatchGroup(b, ls, ts) ==
  /\ InProgress(b) /\ ls \cup ts # {} /\ Cardinality(groups) < MaxGroups
  /\ ls \subseteq {l \in arrived : AccountOf[l] = build[b].account}
  /\ ts \subseteq posted
  /\ groups' = groups \cup {[build |-> b, lines |-> ls, txns |-> ts]}
  /\ UNCHANGED <<posted, arrived, presented, build, exc, exam, seen>>

DissolveMatchGroup(g) ==
  /\ InProgress(g.build)
  /\ groups' = groups \ {g}
  /\ UNCHANGED <<posted, arrived, presented, build, exc, exam, seen>>

CreateException(b, x) ==
  /\ InProgress(b) /\ x[2] \in posted \cup arrived /\ Len(exc) < MaxExceptions
  /\ \A i \in Excs : exc[i].build = b => exc[i].linked # x
  /\ exc' = Append(exc, Fresh(b, x))
  /\ UNCHANGED <<posted, arrived, presented, build, groups, exam, seen>>

\* Any open exception, of this or a prior build, of this account or another.
ResolveException(b, i) ==
  /\ InProgress(b) /\ exc[i].state = "open"
  /\ exc' = [exc EXCEPT ![i].state = "resolved", ![i].by = b]
  /\ UNCHANGED <<posted, arrived, presented, build, groups, exam, seen>>

(***************************************************************************)
(* The certification, statement by statement.                               *)
(***************************************************************************)
SumOf(S) == MapThenSumSet(LAMBDA x : Value[x], S)
GroupsOf(b) == {g \in groups : g.build = b}
History(b) == {g \in groups : Certified(g.build) /\ build[g.build].account = build[b].account}
LinesIn(G) == UNION {g.lines : g \in G}
TxnsIn(G) == UNION {g.txns : g \in G}

Balanced(b) == \A g \in GroupsOf(b) : SumOf(g.lines) = SumOf(g.txns)

AnyLines(b) == TRUE
UnusedLines(b) == LinesIn(GroupsOf(b)) \cap LinesIn(History(b)) = {}

InScope(b, x) == AccountOf[x] = build[b].account /\ DateOf[x] <= build[b].date

LinesCovered(b) ==
  \A l \in arrived : InScope(b, l) =>
    \/ l \in LinesIn(GroupsOf(b) \cup {g \in groups : Certified(g.build)})
    \/ \E i \in Excs : exc[i].build = b /\ exc[i].linked = <<"line", l>>

Excepted(b, t) ==
  \E i \in Excs : exc[i].build = b /\ exc[i].state # "resolved"
                  /\ exc[i].linked \in {<<"transaction", t>>, <<"instrument", t>>}

Covered(b, t) == t \in TxnsIn(GroupsOf(b) \cup History(b)) \/ Excepted(b, t)

PriorsSettled(b) == OpenPriors(build[b].account) = {}

ExamineCoverage(b) ==
  /\ InProgress(b)
  /\ Balanced(b) /\ UnusedLines(b) /\ LinesCovered(b)
  /\ \A t \in posted : InScope(b, t) => Covered(b, t)
  /\ PriorsSettled(b)
  /\ exam' = [exam EXCEPT ![b] = "covered"]
  /\ UNCHANGED <<posted, arrived, presented, build, groups, exc, seen>>

\* What the open exceptions add to the statement: receipts not banked, less payments
\* not presented, plus the bank's own errors.
Outstanding(b) ==
  MapThenSumSet(LAMBDA i : IF exc[i].linked[1] = "line" THEN -Value[exc[i].linked[2]]
                                                       ELSE Value[exc[i].linked[2]],
                {i \in Excs : exc[i].build = b /\ exc[i].state = "open"})
BookTotal(b) == SumOf({t \in posted : InScope(b, t)})

ExamineEquation(b) ==
  /\ exam[b] = "covered"
  /\ build[b].balance + Outstanding(b) = BookTotal(b)
  /\ exam' = [exam EXCEPT ![b] = "equal"]
  /\ UNCHANGED <<posted, arrived, presented, build, groups, exc, seen>>

NotPresented(b) == {}
PresentedBy(b) == Instruments \cap TxnsIn(GroupsOf(b))

Certify(b) ==
  /\ exam[b] = "equal"
  /\ build' = [build EXCEPT ![b].status = "certified"]
  /\ presented' = presented \cup PresentedBy(b)
  /\ exam' = [exam EXCEPT ![b] = "none"]
  /\ seen' = [seen EXCEPT ![b] = posted]
  /\ UNCHANGED <<posted, arrived, groups, exc>>

Refused(b) ==
  /\ exam[b] # "none"
  /\ exam' = [exam EXCEPT ![b] = "none"]
  /\ UNCHANGED <<posted, arrived, presented, build, groups, exc, seen>>

Next ==
  \/ \E t \in Txns : Post(t)
  \/ \E l \in Lines : IngestLine(l)
  \/ \E a \in Accounts, d \in Dates, x \in Balances : BuildReconciliation(a, d, x)
  \/ \E b \in Builds :
       \/ \E ls \in SUBSET Lines, ts \in SUBSET Txns : CreateMatchGroup(b, ls, ts)
       \/ \E x \in Linked : CreateException(b, x)
       \/ \E i \in Excs : ResolveException(b, i)
       \/ ExamineCoverage(b) \/ ExamineEquation(b) \/ Certify(b) \/ Refused(b)
  \/ \E g \in groups : DissolveMatchGroup(g)

Spec == Init /\ [][Next]_vars

(***************************************************************************)
(* Properties.                                                              *)
(***************************************************************************)
Latest(b) == \A c \in Builds : Certified(c) /\ build[c].account = build[b].account => c <= b

\* An exception left open by a certified build is never stranded behind a later one:
\* what is open is on the account's newest certification (carry-forward in the build).
NoneStranded == \A i \in Excs : exc[i].state = "open" /\ Certified(exc[i].build) => Latest(exc[i].build)

\* An exception carried from build to build stays the same item of the same account,
\* ageing from the build that first raised it (recon.ts: "lineage preserved").
LineageKept ==
  \A i \in Excs : exc[i].state = "carried_forward" =>
    LET s == exc[exc[i].to]
    IN  /\ s.linked = exc[i].linked /\ s.first = exc[i].first
        /\ build[s.build].account = build[exc[i].build].account /\ s.build > exc[i].build

\* A statement line explains one transaction in the account's certified history.
LinesUsedOnce ==
  \A g, h \in groups : Certified(g.build) /\ Certified(h.build) /\ g.build # h.build
                         => g.lines \cap h.lines = {}

\* An instrument is presented exactly when a certified match covers its payment.
PresentedWhenMatched ==
  presented = Instruments \cap TxnsIn({g \in groups : Certified(g.build)})

\* What the proofs suppose: the constants, and that instruments can be counted.
ReconParameters == DataAssumption /\ IsFiniteSet(Instruments)

\* A build that is not certified is its account's last, so there is one.
OpenIsLast ==
  \A b, c \in Builds : build[b].account = build[c].account /\ ~Certified(b) => c <= b

\* What a certification found of lines and priors still holds at its later statements.
ExaminedStands ==
  \A b \in 1..MaxBuilds : exam[b] # "none" =>
    b \in Builds /\ ~Certified(b) /\ UnusedLines(b) /\ PriorsSettled(b)

\* Exceptions and groups are of a build, the lines of a group of its account.
OfABuild ==
  /\ \A i \in Excs : exc[i].build \in Builds
  /\ \A g \in groups : \A l \in g.lines : AccountOf[l] = build[g.build].account

\* The inductive invariant of the reconciliation.
ReconDiscipline ==
  /\ TypeOK /\ OfABuild /\ OpenIsLast /\ ExaminedStands
  /\ NoneStranded /\ LineageKept /\ LinesUsedOnce /\ PresentedWhenMatched

\* "Certification takes the account's serialisation" (recon.ts): a certified build has
\* every transaction in its scope that was committed when it certified.
CoveredWhenCertified ==
  \A b \in Builds : Certified(b) =>
    \A t \in seen[b] : InScope(b, t) =>
      \/ t \in TxnsIn(GroupsOf(b) \cup History(b))
      \/ \E i \in Excs : exc[i].build = b /\ exc[i].linked[2] = t

\* "Member uniqueness across certified history" (recon.ts), of transactions too.
TransactionsUsedOnce ==
  \A g, h \in groups : Certified(g.build) /\ Certified(h.build) /\ g.build # h.build
                         => g.txns \cap h.txns = {}

\* "Resolve a PRIOR certified build's open exception in this build" (recon.ts): of the
\* same account.
ResolvedByOwnAccount ==
  \A i \in Excs : exc[i].state = "resolved" =>
    build[exc[i].by].account = build[exc[i].build].account
=============================================================================
