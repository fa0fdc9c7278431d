------------------------------ MODULE PeriodClose ------------------------------
(* The certification of a period against postings in flight: close.ts, the    *)
(* guard that writes the balance listing and the period lock of 0014.  Each   *)
(* statement of the certification and of its trigger sees what is committed   *)
(* when it starts; a posting is seen whole, at its commit.                    *)
EXTENDS Naturals, FiniteSets, FiniteSetsExt

CONSTANTS Clerks, Closes,
          NLedgers,    \* ledgers in the order of the trigger's loop
          MaxPosted    \* bound: postings, each of one unit in

VARIABLES posted,     \* per ledger, the units of its committed lines
          landed,     \* postings dated in the period, committed after its certificate
          close,      \* period_close and its balance_listing_line rows
          certRec,    \* a certified reconciliation stands at the period end
          job

vars == <<posted, landed, close, certRec, job>>

ListedLedgers == 1..NLedgers
Idle == [at |-> "idle"]
Sum(f) == MapThenSumSet(LAMBDA l : f[l], ListedLedgers)
Unlisted == [l \in ListedLedgers |-> 0]
NoClose == [status |-> "none", listing |-> Unlisted, total |-> 0, report |-> Unlisted, inFlight |-> {}]

\* Every close here covers every account: one certified close locks the period.
Certified == \E c \in Closes : close[c].status = "certified"

Init ==
  /\ posted = Unlisted
  /\ landed = {}
  /\ close = [c \in Closes |-> NoClose]
  /\ certRec = FALSE
  /\ job = [s \in Clerks |-> Idle]

Free(s) == job[s].at = "idle"

-----------------------------------------------------------------------------
(* A posting: its line's trigger looks for a certified close, then commits.   *)

\* Mutant: postings are not held to the period lock.
AlwaysOpen == TRUE

PeriodOpen == ~Certified

StartPosting(s, l, in) ==
  /\ Free(s)
  /\ in => PeriodOpen
  /\ job' = [job EXCEPT ![s] = [at |-> "posting", ledger |-> l, in |-> in]]
  /\ UNCHANGED <<posted, landed, close, certRec>>

CommitPosting(s) ==
  /\ job[s].at = "posting"
  /\ Sum(posted) < MaxPosted
  /\ posted' = [posted EXCEPT ![job[s].ledger] = @ + 1]
  /\ landed' = IF job[s].in /\ Certified THEN landed \cup {s} ELSE landed
  /\ job' = [job EXCEPT ![s] = Idle]
  /\ UNCHANGED <<close, certRec>>

\* certifyReconciliation, the subject of Reconciliation.
ReconciliationCertified ==
  /\ ~certRec
  /\ certRec' = TRUE
  /\ UNCHANGED <<posted, landed, close, job>>

-----------------------------------------------------------------------------
(* The close. *)

\* One row per period: the calendar's job and the screen find it or meet the unique index.
Unique(c) == \A d \in Closes : close[d].status = "none"

MaterialiseCloseObligations(c) ==
  /\ Unique(c)
  /\ close' = [close EXCEPT ![c].status = "due"]
  /\ UNCHANGED <<posted, landed, certRec, job>>

OpenPeriodClose(c) ==
  /\ close[c].status = "due" \/ Unique(c)
  /\ close' = [close EXCEPT ![c].status = "in_progress"]
  /\ UNCHANGED <<posted, landed, certRec, job>>

\* The row is locked for the whole certification: another waits, then is refused.
Certifies(s) == job[s].at \in {"report", "insert", "add", "book"}
Certifying(c) == \E s \in Clerks : Certifies(s) /\ job[s].close = c

\* The checks, and the report's own reading of every balance.
StartCertify(s, c) ==
  /\ Free(s)
  /\ close[c].status = "in_progress"
  /\ ~Certifying(c)
  /\ Sum(posted) > 0 => certRec   \* an account with lines is reconciled
  /\ job' = [job EXCEPT ![s] = [at |-> "report", close |-> c]]
  /\ UNCHANGED <<posted, landed, close, certRec>>

\* The report's one statement, then the update whose trigger writes the listing.
ReportBalances(s) ==
  /\ job[s].at = "report"
  /\ job' = [job EXCEPT ![s] = [at |-> "insert", close |-> job[s].close, next |-> 1,
                                rows |-> Unlisted, total |-> 0, report |-> posted]]
  /\ UNCHANGED <<posted, landed, close, certRec>>

\* The trigger's loop: a ledger's row is inserted by one statement ...
InsertListingRow(s) ==
  /\ job[s].at = "insert"
  /\ job' = [job EXCEPT ![s].at = "add", ![s].rows[job[s].next] = posted[job[s].next]]
  /\ UNCHANGED <<posted, landed, close, certRec>>

\* ... and its balance, read again by the next one, is added to the total.
AddToTotal(s) ==
  /\ job[s].at = "add"
  /\ job' = [job EXCEPT ![s].at = IF job[s].next = NLedgers THEN "book" ELSE "insert",
                        ![s].total = @ + posted[job[s].next], ![s].next = @ + 1]
  /\ UNCHANGED <<posted, landed, close, certRec>>

TotalsTheBank(total) == total = Sum(posted)

\* The book is read and compared; certificate, listing and report commit together.
Certify(s) ==
  LET j == job[s] IN
  /\ j.at = "book"
  /\ TotalsTheBank(j.total)
  /\ close' = [close EXCEPT ![j.close] =
       [status |-> "certified", listing |-> j.rows, total |-> j.total, report |-> j.report,
        inFlight |-> {t \in Clerks : job[t].at = "posting" /\ job[t].in}]]
  /\ job' = [job EXCEPT ![s] = Idle]
  /\ UNCHANGED <<posted, landed, certRec>>

\* The discrepancy raises: the whole certification is undone.
RefuseCertificate(s) ==
  /\ job[s].at = "book"
  /\ ~TotalsTheBank(job[s].total)
  /\ job' = [job EXCEPT ![s] = Idle]
  /\ UNCHANGED <<posted, landed, close, certRec>>

Next ==
  \/ ReconciliationCertified
  \/ \E c \in Closes : MaterialiseCloseObligations(c) \/ OpenPeriodClose(c)
  \/ \E s \in Clerks :
       \/ \E l \in ListedLedgers, in \in BOOLEAN : StartPosting(s, l, in)
       \/ \E c \in Closes : StartCertify(s, c)
       \/ CommitPosting(s) \/ ReportBalances(s) \/ InsertListingRow(s) \/ AddToTotal(s)
       \/ Certify(s) \/ RefuseCertificate(s)

Spec == Init /\ [][Next]_vars

-----------------------------------------------------------------------------
Listings == [ListedLedgers -> Nat]
InHand ==
  {Idle} \cup [at : {"posting"}, ledger : ListedLedgers, in : BOOLEAN]
  \cup [at : {"report"}, close : Closes]
  \cup [at : {"insert", "add"}, close : Closes, next : ListedLedgers, rows : Listings, total : Nat, report : Listings]
  \cup [at : {"book"}, close : Closes, next : {NLedgers + 1}, rows : Listings, total : Nat, report : Listings]
TypeOK ==
  /\ posted \in Listings /\ certRec \in BOOLEAN /\ landed \subseteq Clerks
  /\ close \in [Closes -> [status : {"none", "due", "in_progress", "certified"}, listing : Listings,
                           total : Nat, report : Listings, inFlight : SUBSET Clerks]]
  /\ job \in [Clerks -> InHand]

CloseParameters == NLedgers \in Nat \ {0} /\ MaxPosted \in Nat

(* Only a posting whose line had passed the lock when the certificate was     *)
(* given lands in the certified period (0014: z_assert_period_open).          *)
OnlyThoseInFlightLand ==
  landed \subseteq UNION {close[c].inFlight : c \in Closes}

\* A period has one close; who certifies it is alone, and it is in progress.
OneClose == \A c, d \in Closes : close[c].status # "none" /\ close[d].status # "none" => c = d
CertifiersAlone ==
  \A s \in Clerks : Certifies(s) =>
    /\ close[job[s].close].status = "in_progress"
    /\ \A t \in Clerks : Certifies(t) => t = s

\* A certificate knows the postings that were past the lock, as long as they are.
InFlightIsKnown ==
  \A c \in Closes :
    IF close[c].status = "certified"
    THEN \A s \in Clerks : job[s].at = "posting" /\ job[s].in => s \in close[c].inFlight
    ELSE close[c].inFlight = {}

\* The inductive invariant of the close.
CloseDiscipline ==
  TypeOK /\ OneClose /\ CertifiersAlone /\ InFlightIsKnown /\ OnlyThoseInFlightLand

(* Not kept: the lock takes no lock, so a posting past its check lands in a   *)
(* period certified meanwhile.  close.ts:10-12 says a certified close locks   *)
(* its period on the posting path forever.                                    *)
NothingLandsInCertified == landed = {}

(* Not kept: rows and total are read by different statements.  The trigger's  *)
(* comment says the listing totals the bank position, refused otherwise.      *)
ListingTotalsTheBank ==
  \A c \in Closes : close[c].status = "certified" => Sum(close[c].listing) = close[c].total
=============================================================================
