---------------------------- MODULE ClientLedger ----------------------------
(***************************************************************************)
(* What the client-money spine promises, whatever locks and statements it   *)
(* uses: postings are atomic, balanced and only ever appended; no ledger    *)
(* goes below zero or below what is earmarked on it; a closed ledger is     *)
(* empty and takes nothing; a posting is reversed at most once, exactly.    *)
(***************************************************************************)
EXTENDS MoneyLines

VARIABLES
  status,    \* each ledger: not opened yet, open or closed
  balance,   \* each ledger's running balance
  earmark,   \* the earmark rows
  posted     \* the money transactions, in commit order

vars == <<status, balance, earmark, posted>>

Init ==
  /\ status = [l \in Ledgers |-> "none"]
  /\ balance = [l \in Ledgers |-> 0]
  /\ earmark = [e \in EarmarkIds |-> NoEarmark]
  /\ posted = << >>

Reversed(n) == \E m \in DOMAIN posted : posted[m].reverses = n

ExactReversal(p) ==
  p.reverses # 0 =>
    /\ p.reverses \in DOMAIN posted /\ ~Reversed(p.reverses)
    /\ posted[p.reverses].kind # "reversal"
    /\ p = MirrorPosting(posted[p.reverses], p.reverses)

OpenLedger(l) ==
  /\ status[l] = "none"
  /\ status' = [status EXCEPT ![l] = "open"]
  /\ UNCHANGED <<balance, earmark, posted>>

CloseLedger(l) ==
  /\ status[l] = "open" /\ balance[l] = 0 /\ Marked(earmark, l) = 0
  /\ status' = [status EXCEPT ![l] = "closed"]
  /\ UNCHANGED <<balance, earmark, posted>>

ReopenLedger(l) ==
  /\ status[l] = "closed"
  /\ status' = [status EXCEPT ![l] = "open"]
  /\ UNCHANGED <<balance, earmark, posted>>

\* Money already on the ledger is set aside, never more than it holds.
PlaceEarmark(l) ==
  /\ \E e \in Unused(earmark), x \in Amounts : earmark' = Placed(earmark, e, l, x)
  /\ Marked(earmark', l) <= balance[l]
  /\ UNCHANGED <<status, balance, posted>>

\* A whole or partial release: one row ends, the rest stands on a fresh row.
ReleaseEarmark(e) ==
  /\ earmark[e].state = "active"
  /\ LET ended == [earmark EXCEPT ![e].state = "released"]
     IN  \/ earmark' = ended
         \/ \E f \in Unused(earmark), x \in 1..(earmark[e].amount - 1) :
              earmark' = Placed(ended, f, earmark[e].ledger, x)
  /\ UNCHANGED <<status, balance, posted>>

\* One database transaction of postings, all of them or none.
Post(ps) ==
  LET ls == LinesOf(ps)
      touched == UNION {LedgersOf(ps[i]) : i \in DOMAIN ps}
  IN
  /\ posted' = posted \o ps
  /\ \A i \in DOMAIN ps : Balanced(ps[i]) /\ ExactReversal(ps[i])
  /\ balance' = [l \in Ledgers |-> balance[l] + LedgerNet(ls, l)]
  /\ \A l \in touched :
       /\ status[l] # "closed"
       /\ balance'[l] >= 0
       /\ Marked(earmark', l) <= balance'[l]
       /\ Marked(earmark', l) <= Marked(earmark, l)
  /\ status' = [l \in Ledgers |-> IF l \in touched THEN "open" ELSE status[l]]
  /\ \A e \in EarmarkIds :
       earmark'[e] # earmark[e] =>
         /\ earmark'[e].ledger \in touched
         /\ earmark[e].state \in {"none", "active"}

\* The postings of one step: what it appends to the transaction log.
Appended == SubSeq(posted', Len(posted) + 1, Len(posted'))

Next ==
  \/ \E l \in Ledgers : OpenLedger(l) \/ CloseLedger(l) \/ ReopenLedger(l) \/ PlaceEarmark(l)
  \/ \E e \in EarmarkIds : ReleaseEarmark(e)
  \/ Appended # << >> /\ Post(Appended)

Spec == Init /\ [][Next]_vars
=============================================================================
