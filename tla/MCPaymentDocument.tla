-------------------------- MODULE MCPaymentDocument --------------------------
(* Small instances of PaymentDocument: payments that need two approvals,      *)
(* which are those of the module itself and draw on no entitlement, and firm  *)
(* transfers against one.  A behaviour is of one of them; the variables of    *)
(* the other keep one value.                                                  *)
EXTENDS PaymentDocument, TLC

CONSTANT MCEntitled

MCEntitledTo == [e \in Entitlements |-> MCEntitled]

CONSTANTS l1, l2, e1, ann

VARIABLE which                                  \* the instance a behaviour is of
VARIABLES v1, v2, v3, v4, v5, v6, v7, v8, v9, v10

\* Two firm transfers against one entitlement, drawn on two ledgers.
Transfers ==
  INSTANCE PaymentDocument WITH
    doc <- v1, approvals <- v2, funds <- v3, ent <- v4, paid <- v5, refusals <- v6,
    blocks <- v7, entries <- v8, lock <- v9, job <- v10,
    Staff <- {ann}, Ledgers <- {l1, l2}, Entitlements <- {e1},
    EntitledTo <- [e \in {e1} |-> 1], Threshold <- 5, MaxRefusals <- 0

others == <<v1, v2, v3, v4, v5, v6, v7, v8, v9, v10>>
all == <<which, vars, others>>

Unused ==
  /\ v1 = 0 /\ v2 = 0 /\ v3 = 0 /\ v4 = 0 /\ v5 = 0
  /\ v6 = 0 /\ v7 = 0 /\ v8 = 0 /\ v9 = 0 /\ v10 = 0

MCInit ==
  /\ Init
  /\ \/ which = "approvals" /\ Unused
     \/ which = "transfers" /\ Transfers!Init

MCNext ==
  \/ which = "approvals" /\ Next /\ UNCHANGED <<which, others>>
  \/ which = "transfers" /\ Transfers!Next /\ UNCHANGED <<which, vars>>

MCSpec == MCInit /\ [][MCNext]_all

\* No firm transfer takes an entitlement beyond its amount (the guard of 0013), and what
\* the sessions at them hold is as the proofs have it.
TransfersHeadroomKept == which = "transfers" => Transfers!HeadroomKept /\ Transfers!Discipline

Symmetry == Permutations(Sessions) \cup Permutations(Docs)
PeopleSymmetry == Symmetry \cup Permutations(Staff)
=============================================================================
