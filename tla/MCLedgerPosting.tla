--------------------------- MODULE MCLedgerPosting ---------------------------
(* Small instances of LedgerPosting: ledgers 1 and 2 of one account, 3 of another. *)
EXTENDS LedgerPosting, TLC

CONSTANTS a1, a2

MCAccountOf == [l \in Ledgers |-> IF l = 3 THEN a2 ELSE a1]
\* Bound: what follows a third posting is explored where everything so far was for
\* one unit and one earmark was used.
AllUnits ==
  /\ \A n \in DOMAIN posted : \A k \in DOMAIN posted[n].lines : posted[n].lines[k].amount \in {-1, 1}
  /\ \A e \in EarmarkIds : earmark[e] # NoEarmark => e = 1
Small == Len(posted) < 3 \/ AllUnits

Symmetry == Permutations(Sessions)
=============================================================================
