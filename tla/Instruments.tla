------------------------------ MODULE Instruments ------------------------------
(* Cheques and transfers behind the postings of one ledger: instruments.ts,   *)
(* instrument_guard of 0013, the certification that presents and clears them  *)
(* (0014) and the reversal door of receipts.ts, which looks at none of them.  *)
EXTENDS Naturals, FiniteSets

CONSTANTS Outbound, Inbound, None,
          Face    \* the amount of every instrument

\* What the constants are.
InstrumentParameters ==
  /\ Face \in Nat /\ IsFiniteSet(Outbound) /\ IsFiniteSet(Inbound) /\ Outbound \cap Inbound = {}

VARIABLES inst,     \* instrument rows with their transaction's reversal
          bal,      \* the ledger's balance
          swept     \* the ids the stale sweep listed and has still to visit

instrumentVars == <<inst, bal, swept>>

All == Outbound \cup Inbound
States == {"none", "created", "presented", "stale", "cancelled", "replaced",
           "received", "banked", "cleared", "dishonoured"}

InstrumentInit ==
  /\ inst = [i \in All |-> [st |-> "none", rev |-> "none", by |-> None, replaces |-> None, honoured |-> 0]]
  /\ bal = 0
  /\ swept = {}

\* instrument_guard: what a row may become.
Moves ==
  [created |-> {"presented", "stale", "cancelled"}, stale |-> {"presented", "cancelled"},
   cancelled |-> {"replaced"}, received |-> {"banked"}, banked |-> {"cleared", "dishonoured"}]

GuardAllows(from, to) == from \in DOMAIN Moves /\ to \in Moves[from]

\* A receipt or a payment creates its instrument with its transaction.
ReceiveBy(i) ==
  /\ i \in Inbound /\ inst[i].st = "none"
  /\ inst' = [inst EXCEPT ![i].st = "received"]
  /\ bal' = bal + Face
  /\ UNCHANGED swept

PayBy(i) ==
  /\ i \in Outbound /\ inst[i].st = "none"
  /\ bal >= Face
  /\ inst' = [inst EXCEPT ![i].st = "created"]
  /\ bal' = bal - Face
  /\ UNCHANGED swept

\* Mutant: the posting does not look for an earlier reversal.
ReverseAgain(i) == TRUE

\* post_money_transaction: a transaction reverses at most once, never below zero.
CanReverse(i) == inst[i].rev = "none"
Enough(i) == i \in Inbound => bal >= Face
Reversed(i) == IF i \in Inbound THEN bal - Face ELSE bal + Face

BankInstrument(i) ==
  /\ inst[i].st = "received"
  /\ inst' = [inst EXCEPT ![i].st = "banked"]
  /\ UNCHANGED <<bal, swept>>

\* The code takes a received one too; its last update then meets the guard.
DishonourInstrument(i, honoured) ==
  /\ inst[i].st \in {"banked", "received"}
  /\ i \in Inbound /\ CanReverse(i) /\ Enough(i)
  /\ GuardAllows(inst[i].st, "dishonoured")
  /\ inst' = [inst EXCEPT ![i].st = "dishonoured", ![i].rev = "dishonour", ![i].honoured = honoured]
  /\ bal' = bal - Face + honoured   \* a fresh receipt of the honoured part
  /\ UNCHANGED swept

CancelInstrument(i) ==
  /\ inst[i].st \in {"created", "stale"}
  /\ CanReverse(i)
  /\ inst' = [inst EXCEPT ![i].st = "cancelled", ![i].rev = "cancel"]
  /\ bal' = Reversed(i)
  /\ UNCHANGED swept

\* The columns replaced_by and replaces are unique: an instrument is linked once each way.
UniqueLinks(old, fresh) == \A i \in All : inst[i].by # fresh /\ inst[i].replaces # old

LinkReplacementInstrument(old, fresh) ==
  /\ inst[old].st = "cancelled"
  /\ inst[fresh].st = "created"
  /\ UniqueLinks(old, fresh)
  /\ inst' = [inst EXCEPT ![old].st = "replaced", ![old].by = fresh, ![fresh].replaces = old]
  /\ UNCHANGED <<bal, swept>>

\* The money screen reverses a transaction whatever instrument it has.
ReverseMoneyTransaction(i) ==
  /\ inst[i].st # "none"
  /\ CanReverse(i) /\ Enough(i)
  /\ inst' = [inst EXCEPT ![i].rev = "plain"]
  /\ bal' = Reversed(i)
  /\ UNCHANGED swept

\* A reconciliation that matched their transactions is certified.
ReconciliationInstruments(is) ==
  /\ is # {} /\ \A i \in is : inst[i].st \in {"created", "stale", "banked"}
  /\ inst' = [i \in All |-> IF i \in is
                THEN [inst[i] EXCEPT !.st = IF i \in Outbound THEN "presented" ELSE "cleared"]
                ELSE inst[i]]
  /\ UNCHANGED <<bal, swept>>

\* The sweep lists what is due, then visits one at a time: others act in between.
ListStale ==
  /\ swept = {}
  /\ \E due \in SUBSET {i \in All : inst[i].st = "created"} : due # {} /\ swept' = due
  /\ UNCHANGED <<inst, bal>>

StillCreated(i) == inst[i].st = "created"

SweepOne(i) ==
  /\ i \in swept
  /\ inst' = IF StillCreated(i) /\ GuardAllows(inst[i].st, "stale")
             THEN [inst EXCEPT ![i].st = "stale"] ELSE inst
  /\ swept' = swept \ {i}
  /\ UNCHANGED bal

InstrumentNext ==
  \/ \E i \in All :
       \/ ReceiveBy(i) \/ PayBy(i) \/ BankInstrument(i) \/ CancelInstrument(i)
       \/ \E h \in {0, Face \div 2} : DishonourInstrument(i, h)
       \/ \E j \in All : LinkReplacementInstrument(i, j)
       \/ ReverseMoneyTransaction(i) \/ SweepOne(i)
  \/ \E is \in SUBSET All : ReconciliationInstruments(is)
  \/ ListStale

InstrumentSpec == InstrumentInit /\ [][InstrumentNext]_instrumentVars

-----------------------------------------------------------------------------
InstrumentTypeOK ==
  /\ inst \in [All -> [st : States, rev : {"none", "plain", "cancel", "dishonour"},
                       by : All \cup {None}, replaces : All \cup {None}, honoured : {0, Face \div 2}]]
  /\ bal \in Nat /\ swept \subseteq All

(* The money of an instrument comes back once and the row says how: a         *)
(* cancelled or replaced one by its cancellation, a dishonoured one by its    *)
(* dishonour, and the ledger holds what the standing instruments moved.       *)
OneReversalEach ==
  /\ \A i \in All : /\ inst[i].st \in {"cancelled", "replaced"} <=> inst[i].rev = "cancel"
                    /\ inst[i].st = "dishonoured" <=> inst[i].rev = "dishonour"
  /\ LET standing(S) == Cardinality({i \in S : inst[i].st # "none" /\ inst[i].rev = "none"})
         honoured == Cardinality({i \in Inbound : inst[i].honoured > 0})
     IN bal + Face * standing(Outbound) = Face * standing(Inbound) + (Face \div 2) * honoured

\* Why: nothing received is ever out, what is not yet made is not reversed, and only a
\* dishonoured receipt keeps a part that was honoured.
InstrumentDiscipline ==
  /\ InstrumentTypeOK
  /\ \A i \in Inbound : inst[i].st \notin {"created", "stale"}
  /\ \A i \in All : /\ inst[i].st = "none" => inst[i].rev = "none"
                    /\ inst[i].honoured > 0 => i \in Inbound /\ inst[i].rev = "dishonour"
  /\ OneReversalEach

(* Not kept: the reversal door does not look at the instrument, so one whose  *)
(* money is back stays out; cancelling it is refused, and its ledger cannot   *)
(* close until the bank presents what was reversed.                           *)
OutstandingIsOwed ==
  \A i \in All : inst[i].st \in {"created", "stale", "presented"} => inst[i].rev # "plain"
=============================================================================
