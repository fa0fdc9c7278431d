-------------------------- MODULE HeldFundsProofs ---------------------------
(***************************************************************************)
(* Held money and the reconciliation, for any set of items, amounts, bills   *)
(* and sessions, and of accounts, builds and groups.  Of one item: money     *)
(* leaves once for a payment that says executed, a bill is paid only by what *)
(* left, and a run that finished left nothing open.  Of the sweeps: however  *)
(* many claims they record, no bill is paid more than it was issued for.  Of *)
(* the bank statement: what a build certifies stands, and what it leaves     *)
(* open is carried on.  One lemma per action says it keeps the discipline.   *)
(***************************************************************************)
EXTENDS HeldFunds, Reconciliation, SumProofs

\* The item a session takes next is one of its items.
LEMMA LeastIsMember ==
  ASSUME NEW T \in SUBSET Nat, T # {}
  PROVE  Min(T) \in T
<1>1. \E x \in T : \A y \in T : x <= y
  BY LeastNatural
<1> QED BY <1>1 DEF Min

\* The one item of a session.
LEMMA OneItem ==
  ASSUME NEW s \in Sessions, NEW i, job[s].items = {i}
  PROVE  ItemOf(s) = i
BY DEF ItemOf

\* What the constants are, apart.
LEMMA Amounts ==
  ASSUME ItemParameters
  PROVE  /\ \A i \in Items : Amount[i] \in Nat \ {0} /\ i \in Nat
         /\ Items \in SUBSET Nat
BY DEF ItemParameters, ItemAssumption, AmountAssumption

\* Nobody has drafted anything before the run is previewed.
LEMMA PreviewKeeps ==
  ASSUME ItemParameters, ItemDiscipline, Preview
  PROVE  ItemDiscipline'
<1> USE DEF ItemDiscipline
<1>1. ItemTypeOK'
  BY DEF Preview, ItemTypeOK, Open
<1>2. \A i \in Items : PaymentFollowsItem(i)'
  BY DEF Preview, ItemTypeOK, PaymentFollowsItem
<1>3. \A s \in Sessions : HoldsItems(s)'
  BY DEF Preview, ItemTypeOK, PaymentFollowsItem, HoldsItems, Drafts, At, Steps, AboutOne
<1>4. OneTransferOneReceipt'
  BY DEF Preview, ItemTypeOK, OneTransferOneReceipt
<1>5. FinishedRunsStaySettled'
  BY DEF Preview, FinishedRunsStaySettled, FinalRun
<1> QED BY <1>1, <1>2, <1>3, <1>4, <1>5 DEF Preview

\* Only a run nobody drafts from is abandoned.
LEMMA AbandonKeeps ==
  ASSUME ItemParameters, ItemDiscipline, Abandon
  PROVE  ItemDiscipline'
<1> USE DEF ItemDiscipline
<1>1. ItemTypeOK'
  BY DEF Abandon, ItemTypeOK
<1>2. \A i \in Items : PaymentFollowsItem(i)'
  BY DEF Abandon, PaymentFollowsItem
<1>3. \A s \in Sessions : HoldsItems(s)'
  BY DEF Abandon, HoldsItems, Drafts, At
<1>4. OneTransferOneReceipt'
  BY DEF Abandon, OneTransferOneReceipt
<1>5. FinishedRunsStaySettled'
  BY DEF Abandon, FinishedRunsStaySettled, FinalRun
<1> QED BY <1>1, <1>2, <1>3, <1>4, <1>5 DEF Abandon

\* The run has one session that drafts: the one that commits it.
LEMMA CommitRunKeeps ==
  ASSUME ItemParameters, ItemDiscipline, NEW s \in Sessions, CommitRun(s)
  PROVE  ItemDiscipline'
<1> USE DEF ItemDiscipline
<1>1. ItemTypeOK'
  BY DEF CommitRun, Starts, At, Goes, ItemTypeOK, Steps, Open, NoJob, FinalPay, FinalRun
<1>2. \A i \in Items : PaymentFollowsItem(i)'
  BY DEF CommitRun, Starts, At, Goes, ItemTypeOK, PaymentFollowsItem
<1>3. \A q \in Sessions : HoldsItems(q)'
  BY DEF CommitRun, Starts, At, Goes, ItemTypeOK, PaymentFollowsItem, HoldsItems, Drafts,
     AboutOne, NoJob
<1>4. OneTransferOneReceipt'
  BY DEF CommitRun, Starts, At, Goes, ItemTypeOK, PaymentFollowsItem, OneTransferOneReceipt
<1>5. FinishedRunsStaySettled'
  BY DEF CommitRun, Starts, At, Goes, ItemTypeOK, PaymentFollowsItem, HoldsItems, Drafts,
     FinishedRunsStaySettled, FinalRun, Open, AnyOpen
<1> QED BY <1>1, <1>2, <1>3, <1>4, <1>5 DEF CommitRun, Starts, At, Goes, ItemTypeOK,
   PaymentFollowsItem, HoldsItems, Drafts

\* Moving on to count the run changes no row.
LEMMA AllDraftedKeeps ==
  ASSUME ItemParameters, ItemDiscipline, NEW s \in Sessions, AllDrafted(s)
  PROVE  ItemDiscipline'
<1> USE DEF ItemDiscipline
<1>1. ItemTypeOK'
  BY DEF AllDrafted, At, Goes, rows, ItemTypeOK, Steps, Open, NoJob, FinalPay, FinalRun
<1>2. \A i \in Items : PaymentFollowsItem(i)'
  BY DEF AllDrafted, At, Goes, rows, ItemTypeOK, PaymentFollowsItem
<1>3. \A q \in Sessions : HoldsItems(q)'
  BY DEF AllDrafted, At, Goes, rows, ItemTypeOK, PaymentFollowsItem, HoldsItems, Drafts, AboutOne,
     NoJob
<1>4. OneTransferOneReceipt'
  BY DEF AllDrafted, At, Goes, rows, ItemTypeOK, PaymentFollowsItem, OneTransferOneReceipt
<1>5. FinishedRunsStaySettled'
  BY DEF AllDrafted, At, Goes, rows, ItemTypeOK, PaymentFollowsItem, HoldsItems, Drafts,
     FinishedRunsStaySettled, FinalRun, Open, AnyOpen
<1> QED BY <1>1, <1>2, <1>3, <1>4, <1>5 DEF AllDrafted, At, Goes, rows, ItemTypeOK,
   PaymentFollowsItem, HoldsItems, Drafts

\* A run finishes when no item is open.
LEMMA RecomputeRunKeeps ==
  ASSUME ItemParameters, ItemDiscipline, NEW s \in Sessions, RecomputeRun(s)
  PROVE  ItemDiscipline'
<1> USE DEF ItemDiscipline
<1>1. ItemTypeOK'
  BY DEF RecomputeRun, At, Ends, ItemTypeOK, Steps, Open, NoJob, FinalPay, FinalRun
<1>2. \A i \in Items : PaymentFollowsItem(i)'
  BY DEF RecomputeRun, At, Ends, ItemTypeOK, PaymentFollowsItem
<1>3. \A q \in Sessions : HoldsItems(q)'
  BY DEF RecomputeRun, At, Ends, ItemTypeOK, PaymentFollowsItem, HoldsItems, Drafts, AboutOne, NoJob
<1>4. OneTransferOneReceipt'
  BY DEF RecomputeRun, At, Ends, ItemTypeOK, PaymentFollowsItem, OneTransferOneReceipt
<1>5. FinishedRunsStaySettled'
  BY DEF RecomputeRun, At, Ends, ItemTypeOK, PaymentFollowsItem, HoldsItems, Drafts,
     FinishedRunsStaySettled, FinalRun, Open, AnyOpen
<1> QED BY <1>1, <1>2, <1>3, <1>4, <1>5 DEF RecomputeRun, At, Ends, ItemTypeOK,
   PaymentFollowsItem, HoldsItems, Drafts

\* An authorised payment is of an item that awaits it.
LEMMA ApproveKeeps ==
  ASSUME ItemParameters, ItemDiscipline, NEW s \in Sessions, NEW i \in Items, Approve(s, i)
  PROVE  ItemDiscipline'
<1> USE DEF ItemDiscipline
<1>1. ItemTypeOK'
  BY DEF Approve, Starts, At, Goes, ItemTypeOK, Steps, Open, NoJob, FinalPay, FinalRun
<1>2. \A j \in Items : PaymentFollowsItem(j)'
  BY DEF Approve, Starts, At, Goes, ItemTypeOK, PaymentFollowsItem
<1>3. \A q \in Sessions : HoldsItems(q)'
  BY DEF Approve, Starts, At, Goes, ItemTypeOK, PaymentFollowsItem, HoldsItems, Drafts, AboutOne,
     NoJob
<1>4. OneTransferOneReceipt'
  BY DEF Approve, Starts, At, Goes, ItemTypeOK, PaymentFollowsItem, OneTransferOneReceipt
<1>5. FinishedRunsStaySettled'
  BY DEF Approve, Starts, At, Goes, ItemTypeOK, PaymentFollowsItem, HoldsItems, Drafts,
     FinishedRunsStaySettled, FinalRun, Open, AnyOpen
<1> QED BY <1>1, <1>2, <1>3, <1>4, <1>5 DEF Approve, Starts, At, Goes, ItemTypeOK,
   PaymentFollowsItem, HoldsItems, Drafts

\* A rejection ends the payment and refuses its item together.
LEMMA RejectItemKeeps ==
  ASSUME ItemParameters, ItemDiscipline, NEW s \in Sessions, NEW i \in Items, RejectItem(s, i)
  PROVE  ItemDiscipline'
<1> USE DEF ItemDiscipline
<1>1. ItemTypeOK'
  BY DEF RejectItem, Rejects, Starts, At, Goes, ItemTypeOK, Steps, Open, NoJob, FinalPay, FinalRun
<1>2. \A j \in Items : PaymentFollowsItem(j)'
  BY DEF RejectItem, Rejects, Starts, At, Goes, ItemTypeOK, PaymentFollowsItem
<1>3. \A q \in Sessions : HoldsItems(q)'
  BY DEF RejectItem, Rejects, Starts, At, Goes, ItemTypeOK, PaymentFollowsItem, HoldsItems,
     Drafts, AboutOne, NoJob
<1>4. OneTransferOneReceipt'
  BY DEF RejectItem, Rejects, Starts, At, Goes, ItemTypeOK, PaymentFollowsItem,
     OneTransferOneReceipt
<1>5. FinishedRunsStaySettled'
  BY DEF RejectItem, Rejects, Starts, At, Goes, ItemTypeOK, PaymentFollowsItem, HoldsItems,
     Drafts, FinishedRunsStaySettled, FinalRun, Open, AnyOpen
<1> QED BY <1>1, <1>2, <1>3, <1>4, <1>5 DEF RejectItem, Rejects, Starts, At, Goes, ItemTypeOK,
   PaymentFollowsItem, HoldsItems, Drafts

\* Loading an item for the bridge changes no row.
LEMMA LoadBridgeKeeps ==
  ASSUME ItemParameters, ItemDiscipline, NEW s \in Sessions, NEW i \in Items, LoadBridge(s, i)
  PROVE  ItemDiscipline'
<1> USE DEF ItemDiscipline
<1>1. ItemTypeOK'
  BY DEF LoadBridge, Starts, At, Goes, rows, ItemTypeOK, Steps, Open, NoJob, FinalPay, FinalRun
<1>2. \A j \in Items : PaymentFollowsItem(j)'
  BY DEF LoadBridge, Starts, At, Goes, rows, ItemTypeOK, PaymentFollowsItem
<1>3. \A q \in Sessions : HoldsItems(q)'
  BY DEF LoadBridge, Starts, At, Goes, rows, ItemTypeOK, PaymentFollowsItem, HoldsItems, Drafts,
     AboutOne, NoJob
<1>4. OneTransferOneReceipt'
  BY DEF LoadBridge, Starts, At, Goes, rows, ItemTypeOK, PaymentFollowsItem, OneTransferOneReceipt
<1>5. FinishedRunsStaySettled'
  BY DEF LoadBridge, Starts, At, Goes, rows, ItemTypeOK, PaymentFollowsItem, HoldsItems, Drafts,
     FinishedRunsStaySettled, FinalRun, Open, AnyOpen
<1> QED BY <1>1, <1>2, <1>3, <1>4, <1>5 DEF LoadBridge, Starts, At, Goes, rows, ItemTypeOK,
   PaymentFollowsItem, HoldsItems, Drafts

\* Only an item an older release moved is loaded to be healed.
LEMMA LoadHealKeeps ==
  ASSUME ItemParameters, ItemDiscipline, NEW s \in Sessions, NEW i \in Items, LoadHeal(s, i)
  PROVE  ItemDiscipline'
<1> USE DEF ItemDiscipline
<1>1. ItemTypeOK'
  BY DEF LoadHeal, Starts, At, Goes, rows, ItemTypeOK, Steps, Open, NoJob, FinalPay, FinalRun
<1>2. \A j \in Items : PaymentFollowsItem(j)'
  BY DEF LoadHeal, Starts, At, Goes, rows, ItemTypeOK, PaymentFollowsItem
<1>3. \A q \in Sessions : HoldsItems(q)'
  BY DEF LoadHeal, Starts, At, Goes, rows, ItemTypeOK, PaymentFollowsItem, HoldsItems, Drafts,
     AboutOne, NoJob
<1>4. OneTransferOneReceipt'
  BY DEF LoadHeal, Starts, At, Goes, rows, ItemTypeOK, PaymentFollowsItem, OneTransferOneReceipt
<1>5. FinishedRunsStaySettled'
  BY DEF LoadHeal, Starts, At, Goes, rows, ItemTypeOK, PaymentFollowsItem, HoldsItems, Drafts,
     FinishedRunsStaySettled, FinalRun, Open, AnyOpen
<1> QED BY <1>1, <1>2, <1>3, <1>4, <1>5 DEF LoadHeal, Starts, At, Goes, rows, ItemTypeOK,
   PaymentFollowsItem, HoldsItems, Drafts

\* The plain door takes no item that awaits its payment, nor one not yet drafted.
LEMMA LoadPlainKeeps ==
  ASSUME ItemParameters, ItemDiscipline, NEW s \in Sessions, NEW i \in Items, LoadPlain(s, i)
  PROVE  ItemDiscipline'
<1> USE DEF ItemDiscipline
<1>1. ItemTypeOK'
  BY DEF LoadPlain, PlainDoor, Starts, At, Goes, rows, ItemTypeOK, Steps, Open, NoJob, FinalPay,
     FinalRun
<1>2. \A j \in Items : PaymentFollowsItem(j)'
  BY DEF LoadPlain, PlainDoor, Starts, At, Goes, rows, ItemTypeOK, PaymentFollowsItem
<1>3. \A q \in Sessions : HoldsItems(q)'
  BY DEF LoadPlain, PlainDoor, Starts, At, Goes, rows, ItemTypeOK, PaymentFollowsItem, HoldsItems,
     Drafts, AboutOne, NoJob
<1>4. OneTransferOneReceipt'
  BY DEF LoadPlain, PlainDoor, Starts, At, Goes, rows, ItemTypeOK, PaymentFollowsItem,
     OneTransferOneReceipt
<1>5. FinishedRunsStaySettled'
  BY DEF LoadPlain, PlainDoor, Starts, At, Goes, rows, ItemTypeOK, PaymentFollowsItem, HoldsItems,
     Drafts, FinishedRunsStaySettled, FinalRun, Open, AnyOpen
<1> QED BY <1>1, <1>2, <1>3, <1>4, <1>5 DEF LoadPlain, PlainDoor, Starts, At, Goes, rows,
   ItemTypeOK, PaymentFollowsItem, HoldsItems, Drafts

\* A process that stops takes only its own work with it.
LEMMA CrashKeeps ==
  ASSUME ItemParameters, ItemDiscipline, NEW s \in Sessions, Crash(s)
  PROVE  ItemDiscipline'
<1> USE DEF ItemDiscipline
<1>1. ItemTypeOK'
  BY DEF Crash, Starts, At, Ends, rows, ItemTypeOK, Steps, Open, NoJob, FinalPay, FinalRun
<1>2. \A i \in Items : PaymentFollowsItem(i)'
  BY DEF Crash, Starts, At, Ends, rows, ItemTypeOK, PaymentFollowsItem
<1>3. \A q \in Sessions : HoldsItems(q)'
  BY DEF Crash, Starts, At, Ends, rows, ItemTypeOK, PaymentFollowsItem, HoldsItems, Drafts,
     AboutOne, NoJob
<1>4. OneTransferOneReceipt'
  BY DEF Crash, Starts, At, Ends, rows, ItemTypeOK, PaymentFollowsItem, OneTransferOneReceipt
<1>5. FinishedRunsStaySettled'
  BY DEF Crash, Starts, At, Ends, rows, ItemTypeOK, PaymentFollowsItem, HoldsItems, Drafts,
     FinishedRunsStaySettled, FinalRun, Open, AnyOpen
<1> QED BY <1>1, <1>2, <1>3, <1>4, <1>5 DEF Crash, Starts, At, Ends, rows, ItemTypeOK,
   PaymentFollowsItem, HoldsItems, Drafts

\* Drafting takes an item nobody has touched, or leaves it to be refused.
LEMMA DraftItemKeeps ==
  ASSUME ItemParameters, ItemDiscipline, NEW s \in Sessions, DraftItem(s)
  PROVE  ItemDiscipline'
<1> USE DEF ItemDiscipline
<1> DEFINE i == Min(job[s].items)
<1>1. i \in Items /\ i \in job[s].items /\ item[i] = "previewed" /\ pay[i] = "none"
  <2>1. job[s].items \in SUBSET Items /\ job[s].items # {} /\ Drafts(s)
    BY DEF DraftItem, At, HoldsItems, Drafts, ItemTypeOK
  <2>2. i \in job[s].items
    BY <2>1, Amounts, LeastIsMember
  <2> QED BY <2>1, <2>2 DEF HoldsItems, PaymentFollowsItem
<1>2. \A q \in Sessions : Drafts(q) => q = s
  BY DEF DraftItem, At, HoldsItems, Drafts
<1>3. run \in {"committing", "abandoned"} \cup FinalRun /\ run \notin FinalRun
  BY <1>1 DEF DraftItem, At, HoldsItems, Drafts, FinishedRunsStaySettled, AnyOpen, Open, ItemTypeOK
<1>4. /\ At(s, "drafting")
      /\ IF Candidate(i)
         THEN /\ item' = [item EXCEPT ![i] = "awaiting_authorisation"]
              /\ pay' = [pay EXCEPT ![i] = "pending_authorisation"]
              /\ Goes(s, "drafting", job[s].items \ {i})
         ELSE Goes(s, "refusing", job[s].items) /\ UNCHANGED <<item, pay>>
      /\ UNCHANGED <<run, funds, due, moved, receipts>>
  BY DEF DraftItem
<1> HIDE DEF i
<1>5. ItemTypeOK'
  BY <1>1, <1>2, <1>3, <1>4 DEF At, Goes, ItemTypeOK, Steps, Open, NoJob, FinalPay, FinalRun
<1>6. \A j \in Items : PaymentFollowsItem(j)'
  BY <1>1, <1>2, <1>3, <1>4 DEF At, Goes, ItemTypeOK, PaymentFollowsItem
<1>7. \A q \in Sessions : HoldsItems(q)'
  BY <1>1, <1>2, <1>3, <1>4 DEF At, Goes, ItemTypeOK, PaymentFollowsItem, HoldsItems, Drafts,
     AboutOne, NoJob
<1>8. OneTransferOneReceipt'
  BY <1>1, <1>2, <1>3, <1>4 DEF At, Goes, ItemTypeOK, PaymentFollowsItem, OneTransferOneReceipt
<1>9. FinishedRunsStaySettled'
  BY <1>1, <1>2, <1>3, <1>4 DEF At, Goes, ItemTypeOK, PaymentFollowsItem, HoldsItems, Drafts,
     FinishedRunsStaySettled, FinalRun, Open, AnyOpen
<1> QED BY <1>1, <1>2, <1>3, <1>4, <1>5, <1>6, <1>7, <1>8, <1>9 DEF At, Goes, ItemTypeOK,
   PaymentFollowsItem, HoldsItems, Drafts

\* An item refused by the run has no payment yet.
LEMMA RefuseItemKeeps ==
  ASSUME ItemParameters, ItemDiscipline, NEW s \in Sessions, RefuseItem(s)
  PROVE  ItemDiscipline'
<1> USE DEF ItemDiscipline
<1> DEFINE i == Min(job[s].items)
<1>1. i \in Items /\ i \in job[s].items /\ item[i] = "previewed" /\ pay[i] = "none"
  <2>1. job[s].items \in SUBSET Items /\ job[s].items # {} /\ Drafts(s)
    BY DEF RefuseItem, At, HoldsItems, Drafts, ItemTypeOK
  <2>2. i \in job[s].items
    BY <2>1, Amounts, LeastIsMember
  <2> QED BY <2>1, <2>2 DEF HoldsItems, PaymentFollowsItem
<1>2. \A q \in Sessions : Drafts(q) => q = s
  BY DEF RefuseItem, At, HoldsItems, Drafts
<1>3. run \in {"committing", "abandoned"} \cup FinalRun /\ run \notin FinalRun
  BY <1>1 DEF RefuseItem, At, HoldsItems, Drafts, FinishedRunsStaySettled, AnyOpen, Open, ItemTypeOK
<1>4. /\ At(s, "refusing")
      /\ item' = [item EXCEPT ![i] = "refused"]
      /\ Goes(s, "drafting", job[s].items \ {i})
      /\ UNCHANGED <<run, pay, funds, due, moved, receipts>>
  BY DEF RefuseItem
<1> HIDE DEF i
<1>5. ItemTypeOK'
  BY <1>1, <1>2, <1>3, <1>4 DEF At, Goes, ItemTypeOK, Steps, Open, NoJob, FinalPay, FinalRun
<1>6. \A j \in Items : PaymentFollowsItem(j)'
  BY <1>1, <1>2, <1>3, <1>4 DEF At, Goes, ItemTypeOK, PaymentFollowsItem
<1>7. \A q \in Sessions : HoldsItems(q)'
  BY <1>1, <1>2, <1>3, <1>4 DEF At, Goes, ItemTypeOK, PaymentFollowsItem, HoldsItems, Drafts,
     AboutOne, NoJob
<1>8. OneTransferOneReceipt'
  BY <1>1, <1>2, <1>3, <1>4 DEF At, Goes, ItemTypeOK, PaymentFollowsItem, OneTransferOneReceipt
<1>9. FinishedRunsStaySettled'
  BY <1>1, <1>2, <1>3, <1>4 DEF At, Goes, ItemTypeOK, PaymentFollowsItem, HoldsItems, Drafts,
     FinishedRunsStaySettled, FinalRun, Open, AnyOpen
<1> QED BY <1>1, <1>2, <1>3, <1>4, <1>5, <1>6, <1>7, <1>8, <1>9 DEF At, Goes, ItemTypeOK,
   PaymentFollowsItem, HoldsItems, Drafts

\* The bridge moves the money and pays the bill, or does neither.
LEMMA BridgeKeeps ==
  ASSUME ItemParameters, ItemDiscipline, NEW s \in Sessions, Bridge(s)
  PROVE  ItemDiscipline'
<1> USE DEF ItemDiscipline
<1>1. PICK i \in Items : job[s].items = {i}
  BY DEF Bridge, At, HoldsItems, AboutOne
<1>2. ItemOf(s) = i
  BY <1>1, OneItem
<1>3. Amount[i] \in Nat \ {0}
  BY Amounts
<1>4. ItemTypeOK'
  BY <1>1, <1>2, <1>3 DEF Bridge, Candidate, MayExecute, MovesMoney, PaysBill, At, Goes, Ends,
     ItemTypeOK, Steps, Open, NoJob, FinalPay, FinalRun
<1>5. \A j \in Items : PaymentFollowsItem(j)'
  BY <1>1, <1>2, <1>3 DEF Bridge, Candidate, MayExecute, MovesMoney, PaysBill, At, Goes, Ends,
     ItemTypeOK, PaymentFollowsItem
<1>6. \A q \in Sessions : HoldsItems(q)'
  BY <1>1, <1>2, <1>3 DEF Bridge, Candidate, MayExecute, MovesMoney, PaysBill, At, Goes, Ends,
     ItemTypeOK, PaymentFollowsItem, HoldsItems, Drafts, AboutOne, NoJob
<1>7. OneTransferOneReceipt'
  BY <1>1, <1>2, <1>3 DEF Bridge, Candidate, MayExecute, MovesMoney, PaysBill, At, Goes, Ends,
     ItemTypeOK, PaymentFollowsItem, OneTransferOneReceipt
<1>8. FinishedRunsStaySettled'
  BY <1>1, <1>2, <1>3 DEF Bridge, Candidate, MayExecute, MovesMoney, PaysBill, At, Goes, Ends,
     ItemTypeOK, PaymentFollowsItem, HoldsItems, Drafts, FinishedRunsStaySettled, FinalRun, Open,
     AnyOpen
<1> QED BY <1>1, <1>2, <1>3, <1>4, <1>5, <1>6, <1>7, <1>8 DEF Bridge, Candidate, MayExecute,
   MovesMoney, PaysBill, At, Goes, Ends, ItemTypeOK, PaymentFollowsItem, HoldsItems, Drafts

\* A payment blocked by the bridge refuses its item.
LEMMA BlockItemKeeps ==
  ASSUME ItemParameters, ItemDiscipline, NEW s \in Sessions, BlockItem(s)
  PROVE  ItemDiscipline'
<1> USE DEF ItemDiscipline
<1>1. PICK i \in Items : job[s].items = {i}
  BY DEF BlockItem, At, HoldsItems, AboutOne
<1>2. ItemOf(s) = i
  BY <1>1, OneItem
<1>3. Amount[i] \in Nat \ {0}
  BY Amounts
<1>4. ItemTypeOK'
  BY <1>1, <1>2, <1>3 DEF BlockItem, MayBlock, At, Goes, Ends, ItemTypeOK, Steps, Open, NoJob,
     FinalPay, FinalRun
<1>5. \A j \in Items : PaymentFollowsItem(j)'
  BY <1>1, <1>2, <1>3 DEF BlockItem, MayBlock, At, Goes, Ends, ItemTypeOK, PaymentFollowsItem
<1>6. \A q \in Sessions : HoldsItems(q)'
  BY <1>1, <1>2, <1>3 DEF BlockItem, MayBlock, At, Goes, Ends, ItemTypeOK, PaymentFollowsItem,
     HoldsItems, Drafts, AboutOne, NoJob
<1>7. OneTransferOneReceipt'
  BY <1>1, <1>2, <1>3 DEF BlockItem, MayBlock, At, Goes, Ends, ItemTypeOK, PaymentFollowsItem,
     OneTransferOneReceipt
<1>8. FinishedRunsStaySettled'
  BY <1>1, <1>2, <1>3 DEF BlockItem, MayBlock, At, Goes, Ends, ItemTypeOK, PaymentFollowsItem,
     HoldsItems, Drafts, FinishedRunsStaySettled, FinalRun, Open, AnyOpen
<1> QED BY <1>1, <1>2, <1>3, <1>4, <1>5, <1>6, <1>7, <1>8 DEF BlockItem, MayBlock, At, Goes, Ends,
   ItemTypeOK, PaymentFollowsItem, HoldsItems, Drafts

\* The self-heal pays the bill of what an older release moved.
LEMMA HealKeeps ==
  ASSUME ItemParameters, ItemDiscipline, NEW s \in Sessions, Heal(s)
  PROVE  ItemDiscipline'
<1> USE DEF ItemDiscipline
<1>1. PICK i \in Items : job[s].items = {i}
  BY DEF Heal, At, HoldsItems, AboutOne
<1>2. ItemOf(s) = i
  BY <1>1, OneItem
<1>3. Amount[i] \in Nat \ {0}
  BY Amounts
<1>4. i \in SelfHealable /\ pay[i] = "executed"
  BY <1>1 DEF Heal, At, HoldsItems
<1>5. ItemTypeOK'
  BY <1>1, <1>2, <1>3, <1>4 DEF Heal, PaysBill, At, Goes, Ends, ItemTypeOK, Steps, Open, NoJob,
     FinalPay, FinalRun
<1>6. \A j \in Items : PaymentFollowsItem(j)'
  BY <1>1, <1>2, <1>3, <1>4 DEF Heal, PaysBill, At, Goes, Ends, ItemTypeOK, PaymentFollowsItem
<1>7. \A q \in Sessions : HoldsItems(q)'
  BY <1>1, <1>2, <1>3, <1>4 DEF Heal, PaysBill, At, Goes, Ends, ItemTypeOK, PaymentFollowsItem,
     HoldsItems, Drafts, AboutOne, NoJob
<1>8. OneTransferOneReceipt'
  BY <1>1, <1>2, <1>3, <1>4 DEF Heal, PaysBill, At, Goes, Ends, ItemTypeOK, PaymentFollowsItem,
     OneTransferOneReceipt
<1>9. FinishedRunsStaySettled'
  BY <1>1, <1>2, <1>3, <1>4 DEF Heal, PaysBill, At, Goes, Ends, ItemTypeOK, PaymentFollowsItem,
     HoldsItems, Drafts, FinishedRunsStaySettled, FinalRun, Open, AnyOpen
<1> QED BY <1>1, <1>2, <1>3, <1>4, <1>5, <1>6, <1>7, <1>8, <1>9 DEF Heal, PaysBill, At, Goes,
   Ends, ItemTypeOK, PaymentFollowsItem, HoldsItems, Drafts

\* The plain door moves the money of an item that is over.
LEMMA PlainKeeps ==
  ASSUME ItemParameters, ItemDiscipline, NEW s \in Sessions, Plain(s)
  PROVE  ItemDiscipline'
<1> USE DEF ItemDiscipline
<1>1. PICK i \in Items : job[s].items = {i}
  BY DEF Plain, At, HoldsItems, AboutOne
<1>2. ItemOf(s) = i
  BY <1>1, OneItem
<1>3. Amount[i] \in Nat \ {0}
  BY Amounts
<1>4. item[i] \in {"refused", "completed"}
  BY <1>1 DEF Plain, At, HoldsItems
<1>5. ItemTypeOK'
  BY <1>1, <1>2, <1>3, <1>4 DEF Plain, MovesMoney, MayExecute, At, Goes, Ends, ItemTypeOK, Steps,
     Open, NoJob, FinalPay, FinalRun
<1>6. \A j \in Items : PaymentFollowsItem(j)'
  BY <1>1, <1>2, <1>3, <1>4 DEF Plain, MovesMoney, MayExecute, At, Goes, Ends, ItemTypeOK,
     PaymentFollowsItem
<1>7. \A q \in Sessions : HoldsItems(q)'
  BY <1>1, <1>2, <1>3, <1>4 DEF Plain, MovesMoney, MayExecute, At, Goes, Ends, ItemTypeOK,
     PaymentFollowsItem, HoldsItems, Drafts, AboutOne, NoJob
<1>8. OneTransferOneReceipt'
  BY <1>1, <1>2, <1>3, <1>4 DEF Plain, MovesMoney, MayExecute, At, Goes, Ends, ItemTypeOK,
     PaymentFollowsItem, OneTransferOneReceipt
<1>9. FinishedRunsStaySettled'
  BY <1>1, <1>2, <1>3, <1>4 DEF Plain, MovesMoney, MayExecute, At, Goes, Ends, ItemTypeOK,
     PaymentFollowsItem, HoldsItems, Drafts, FinishedRunsStaySettled, FinalRun, Open, AnyOpen
<1> QED BY <1>1, <1>2, <1>3, <1>4, <1>5, <1>6, <1>7, <1>8, <1>9 DEF Plain, MovesMoney, MayExecute,
   At, Goes, Ends, ItemTypeOK, PaymentFollowsItem, HoldsItems, Drafts

\* The plain door blocks what it cannot pay.
LEMMA PlainBlockKeeps ==
  ASSUME ItemParameters, ItemDiscipline, NEW s \in Sessions, PlainBlock(s)
  PROVE  ItemDiscipline'
<1> USE DEF ItemDiscipline
<1>1. PICK i \in Items : job[s].items = {i}
  BY DEF PlainBlock, At, HoldsItems, AboutOne
<1>2. ItemOf(s) = i
  BY <1>1, OneItem
<1>3. Amount[i] \in Nat \ {0}
  BY Amounts
<1>4. item[i] \in {"refused", "completed"}
  BY <1>1 DEF PlainBlock, At, HoldsItems
<1>5. ItemTypeOK'
  BY <1>1, <1>2, <1>3, <1>4 DEF PlainBlock, At, Ends, ItemTypeOK, Steps, Open, NoJob, FinalPay,
     FinalRun
<1>6. \A j \in Items : PaymentFollowsItem(j)'
  BY <1>1, <1>2, <1>3, <1>4 DEF PlainBlock, At, Ends, ItemTypeOK, PaymentFollowsItem
<1>7. \A q \in Sessions : HoldsItems(q)'
  BY <1>1, <1>2, <1>3, <1>4 DEF PlainBlock, At, Ends, ItemTypeOK, PaymentFollowsItem, HoldsItems,
     Drafts, AboutOne, NoJob
<1>8. OneTransferOneReceipt'
  BY <1>1, <1>2, <1>3, <1>4 DEF PlainBlock, At, Ends, ItemTypeOK, PaymentFollowsItem,
     OneTransferOneReceipt
<1>9. FinishedRunsStaySettled'
  BY <1>1, <1>2, <1>3, <1>4 DEF PlainBlock, At, Ends, ItemTypeOK, PaymentFollowsItem, HoldsItems,
     Drafts, FinishedRunsStaySettled, FinalRun, Open, AnyOpen
<1> QED BY <1>1, <1>2, <1>3, <1>4, <1>5, <1>6, <1>7, <1>8, <1>9 DEF PlainBlock, At, Ends,
   ItemTypeOK, PaymentFollowsItem, HoldsItems, Drafts

\* The payments screen moves a payment that is still open, and nothing else.
LEMMA ScreenKeeps ==
  ASSUME ItemParameters, ItemDiscipline, NEW i \in Items,
         (\/ ScreenAuthorise(i) \/ ScreenReject(i) \/ ScreenCancel(i) \/ ScreenResubmit(i))
  PROVE  ItemDiscipline'
<1> USE DEF ItemDiscipline
<1>1. ItemTypeOK'
  BY DEF ScreenMoves, ScreenAuthorise, ScreenReject, ScreenCancel, ScreenResubmit, At, ItemTypeOK,
     Steps, Open, NoJob, FinalPay, FinalRun
<1>2. \A j \in Items : PaymentFollowsItem(j)'
  BY DEF ScreenMoves, ScreenAuthorise, ScreenReject, ScreenCancel, ScreenResubmit, At, ItemTypeOK,
     PaymentFollowsItem
<1>3. \A s \in Sessions : HoldsItems(s)'
  BY DEF ScreenMoves, ScreenAuthorise, ScreenReject, ScreenCancel, ScreenResubmit, At, ItemTypeOK,
     PaymentFollowsItem, HoldsItems, Drafts, AboutOne, NoJob
<1>4. OneTransferOneReceipt'
  BY DEF ScreenMoves, ScreenAuthorise, ScreenReject, ScreenCancel, ScreenResubmit, At, ItemTypeOK,
     PaymentFollowsItem, OneTransferOneReceipt
<1>5. FinishedRunsStaySettled'
  BY DEF ScreenMoves, ScreenAuthorise, ScreenReject, ScreenCancel, ScreenResubmit, At, ItemTypeOK,
     PaymentFollowsItem, HoldsItems, Drafts, FinishedRunsStaySettled, FinalRun, Open, AnyOpen
<1> QED BY <1>1, <1>2, <1>3, <1>4, <1>5 DEF ScreenMoves, ScreenAuthorise, ScreenReject,
   ScreenCancel, ScreenResubmit, At, ItemTypeOK, PaymentFollowsItem, HoldsItems, Drafts



\* What others post to the ledger or the bill is no item's business.
LEMMA OthersKeep ==
  ASSUME ItemParameters, ItemDiscipline,
         (\E x \in 0..MaxHeld : OtherPosting(x)) \/ (\E x \in 0..MaxDue : OtherEntry(x))
  PROVE  ItemDiscipline'
<1> USE DEF ItemDiscipline
<1>1. UNCHANGED <<run, item, pay, moved, receipts, job>> /\ funds' \in Nat /\ due' \in Nat
  BY DEF OtherPosting, OtherEntry, ItemTypeOK, ItemParameters, BoundAssumption
<1>2. ItemTypeOK'
  BY <1>1 DEF ItemTypeOK
<1>3. \A i \in Items : PaymentFollowsItem(i)'
  BY <1>1 DEF PaymentFollowsItem
<1>4. \A s \in Sessions : HoldsItems(s)'
  BY <1>1 DEF HoldsItems, Drafts, At
<1>5. OneTransferOneReceipt' /\ FinishedRunsStaySettled'
  BY <1>1 DEF OneTransferOneReceipt, FinishedRunsStaySettled, AnyOpen
<1> QED BY <1>1, <1>2, <1>3, <1>4, <1>5

-----------------------------------------------------------------------------
(* The discipline is inductive. *)

\* It holds before there is a run, and after an older release moved some items.
LEMMA ItemDisciplineStarts ==
  ASSUME ItemParameters, ItemInit
  PROVE  ItemDiscipline
<1> USE DEF ItemDiscipline
<1>1. PICK old \in SUBSET SelfHealable : InitAfter(old)
  BY DEF ItemInit
<1>2. ItemTypeOK /\ \A s \in Sessions : job[s] = NoJob
  BY <1>1 DEF InitAfter, ItemTypeOK, NoJob, Steps, Open, FinalPay, FinalRun, ItemParameters,
     BoundAssumption, ItemAssumption
<1>3. \A i \in Items : PaymentFollowsItem(i)
  BY <1>1 DEF InitAfter, PaymentFollowsItem
<1>4. \A s \in Sessions : HoldsItems(s)
  BY <1>2 DEF HoldsItems, Drafts, At, AboutOne, NoJob
<1>5. OneTransferOneReceipt
  BY <1>1 DEF InitAfter, OneTransferOneReceipt
<1>6. FinishedRunsStaySettled
  BY <1>1 DEF InitAfter, FinishedRunsStaySettled, FinalRun
<1> QED BY <1>1, <1>2, <1>3, <1>4, <1>5, <1>6 DEF InitAfter

\* Every action keeps it.
LEMMA ItemDisciplineStays ==
  ASSUME ItemParameters, ItemDiscipline, [ItemNext]_itemVars
  PROVE  ItemDiscipline'
<1>1. CASE Preview
  BY <1>1, PreviewKeeps
<1>2. CASE Abandon
  BY <1>2, AbandonKeeps
<1>3. ASSUME NEW s \in Sessions, CommitRun(s) \/ Continues(s) \/ Crash(s)
      PROVE  ItemDiscipline'
  <2>1. CASE CommitRun(s)
    BY <2>1, CommitRunKeeps
  <2>2. CASE Continues(s)
    BY <2>2, DraftItemKeeps, RefuseItemKeeps, AllDraftedKeeps, RecomputeRunKeeps, BridgeKeeps,
       BlockItemKeeps, HealKeeps, PlainKeeps, PlainBlockKeeps DEF Continues
  <2>3. CASE Crash(s)
    BY <2>3, CrashKeeps
  <2> QED BY <1>3, <2>1, <2>2, <2>3
<1>4. ASSUME NEW s \in Sessions, NEW i \in Items,
             \/ Approve(s, i) \/ RejectItem(s, i) \/ LoadBridge(s, i)
             \/ LoadHeal(s, i) \/ LoadPlain(s, i)
      PROVE  ItemDiscipline'
  BY <1>4, ApproveKeeps, RejectItemKeeps, LoadBridgeKeeps, LoadHealKeeps, LoadPlainKeeps
<1>5. ASSUME NEW i \in Items,
             ScreenAuthorise(i) \/ ScreenReject(i) \/ ScreenCancel(i) \/ ScreenResubmit(i)
      PROVE  ItemDiscipline'
  BY <1>5, ScreenKeeps
<1>6. CASE (\E x \in 0..MaxHeld : OtherPosting(x)) \/ (\E x \in 0..MaxDue : OtherEntry(x))
  BY <1>6, OthersKeep
<1>7. CASE UNCHANGED itemVars
  BY <1>7 DEF itemVars, rows, ItemDiscipline, ItemTypeOK, PaymentFollowsItem, HoldsItems, Drafts,
     At, OneTransferOneReceipt, FinishedRunsStaySettled, AnyOpen
<1> QED BY <1>1, <1>2, <1>3, <1>4, <1>5, <1>6, <1>7 DEF ItemNext

\* An item, its payment and the sessions working on it stay in step (heldFunds.ts and
\* payments.ts), whatever the amounts, the doors taken and the processes that stop.
THEOREM ItemsStayInStep == ItemParameters /\ ItemSpec => []ItemDiscipline
<1>1. ASSUME ItemParameters PROVE ItemSpec => []ItemDiscipline
  <2>1. ItemInit => ItemDiscipline
    BY <1>1, ItemDisciplineStarts
  <2>2. ItemDiscipline /\ [ItemNext]_itemVars => ItemDiscipline'
    BY <1>1, ItemDisciplineStays
  <2> QED BY <2>1, <2>2, PTL DEF ItemSpec
<1> QED BY <1>1

\* Money leaves once for each payment that says executed, and a completed item has the one
\* receipt its transfer earned (executeBridge).
THEOREM TransfersMatchReceipts == ItemParameters /\ ItemSpec => []OneTransferOneReceipt
<1>1. ItemDiscipline => OneTransferOneReceipt
  BY DEF ItemDiscipline
<1> QED BY <1>1, ItemsStayInStep, PTL

\* A run that finished left nothing open and stays finished, whoever recomputed it last
\* (recomputeRunState).
THEOREM RunsStaySettled == ItemParameters /\ ItemSpec => []FinishedRunsStaySettled
<1>1. ItemDiscipline => FinishedRunsStaySettled
  BY DEF ItemDiscipline
<1> QED BY <1>1, ItemsStayInStep, PTL

-----------------------------------------------------------------------------
(* The sweep: what the items of a claim, and of a bill, have moved. *)

\* What some items are for is a number; nothing, when there are none.
LEMMA AmountInIsNatural ==
  ASSUME NEW S, IsFiniteSet(S), \A i \in S : i.amount \in Nat
  PROVE  AmountIn(S) \in Nat /\ AmountIn({}) = 0
<1> DEFINE f == [i \in S |-> i.amount]
<1>1. \A i \in S : f[i] \in Nat
  OBVIOUS
<1> HIDE DEF f
<1>2. SumFunctionOnSet(f, S) \in Nat
  BY <1>1, SumNotNegative
<1> QED BY <1>2, SumOfNone DEF AmountIn, f

\* One item more adds its amount.
LEMMA AmountInGrows ==
  ASSUME NEW S, IsFiniteSet(S), \A i \in S : i.amount \in Nat, NEW x, x \notin S, x.amount \in Nat
  PROVE  AmountIn(S \cup {x}) = AmountIn(S) + x.amount
<1> DEFINE T == S \cup {x}
           f == [i \in T |-> i.amount]
           g == [i \in S |-> i.amount]
<1>1. IsFiniteSet(T) /\ T \ {x} = S /\ x \in T
  BY FS_AddElement
<1>2. /\ \A i \in T : f[i] \in Int
      /\ f[x] = x.amount
      /\ \A i \in S : f[i] = g[i]
  OBVIOUS
<1>3. AmountIn(T) = SumFunctionOnSet(f, T) /\ AmountIn(S) = SumFunctionOnSet(g, S)
  BY DEF AmountIn
<1> HIDE DEF T, f, g
<1>4. SumFunctionOnSet(f, T) = f[x] + SumFunctionOnSet(f, T \ {x})
  BY <1>1, <1>2, SumTakesOut
<1>5. SumFunctionOnSet(f, S) = SumFunctionOnSet(g, S)
  BY <1>2, SumAgrees
<1>6. AmountIn(S) \in Nat
  BY AmountInIsNatural
<1> QED BY <1>1, <1>2, <1>3, <1>4, <1>5, <1>6 DEF T

\* What an item is typed as, apart.
LEMMA ItemFields ==
  ASSUME SweepParameters, SweepTypeOK, NEW i \in items
  PROVE  /\ i \in ItemRows /\ i.amount \in Nat /\ i.amount \in 1..Held /\ i.run \in 1..MaxRuns /\ i.claim \in Claims
         /\ i.claim.bill \in Bills /\ i.claim.amount \in Nat /\ i.state \in States
<1>1. i \in ItemRows
  BY DEF SweepTypeOK
<1>2. i.claim \in Claims /\ i.amount \in 1..Held /\ i.run \in 1..MaxRuns /\ i.state \in States
  BY <1>1 DEF ItemRows
<1>3. i.claim.bill \in Bills /\ i.claim.amount \in 1..Held
  BY <1>2 DEF Claims
<1> QED BY <1>1, <1>2, <1>3 DEF SweepParameters

\* What was consumed of a claim, and paid on a bill, is a number.
LEMMA MovedIsNatural ==
  ASSUME SweepParameters, SweepTypeOK
  PROVE  /\ \A c : Consumed(c) \in Nat
         /\ \A b : PaidOn(b) \in Nat
<1>1. ASSUME NEW S \in SUBSET items PROVE AmountIn(S) \in Nat
  <2>1. IsFiniteSet(S)
    BY FS_Subset DEF SweepTypeOK
  <2>2. \A i \in S : i.amount \in Nat
    BY ItemFields
  <2> QED BY <2>1, <2>2, AmountInIsNatural
<1> QED BY <1>1 DEF Consumed, PaidOn

\* The smallest of some amounts is one of them, and none is smaller.
LEMMA SmallestIsLeast ==
  ASSUME NEW T \in SUBSET Nat, T # {}
  PROVE  Min(T) \in T /\ \A y \in T : Min(T) <= y
<1>1. \E x \in T : \A y \in T : x <= y
  BY LeastNatural
<1> QED BY <1>1 DEF Min

\* A step that moves no money and rewrites no item keeps the discipline.
LEMMA NothingMoved ==
  ASSUME SweepParameters, SweepDiscipline, SweepTypeOK', items' = items, runs' = runs,
         claims \subseteq claims', \A c \in claims' : c \notin claims => c.amount \in Nat,
         \A b \in Bills : outstanding'[b] <= outstanding[b]
  PROVE  SweepDiscipline'
<1>1. \A c : Consumed(c)' = Consumed(c)
  BY DEF Consumed
<1>2. \A b : PaidOn(b)' = PaidOn(b)
  BY DEF PaidOn
<1>3. ASSUME NEW c \in claims' PROVE Headroom(c)' >= 0
  <2>1. CASE c \in claims
    BY <1>1, <2>1 DEF SweepDiscipline, PaidWithinClaim, Headroom
  <2>2. CASE c \notin claims
    <3>1. {i \in items : i.claim = c /\ i.state = "completed"} = {}
      BY <2>2 DEF SweepDiscipline
    <3>2. Consumed(c) = 0
      BY <3>1, SumOfNone DEF Consumed, AmountIn
    <3> QED BY <1>1, <2>2, <3>2 DEF Headroom
  <2> QED BY <2>1, <2>2
<1>4. ASSUME NEW b \in Bills PROVE outstanding'[b] + PaidOn(b)' <= Worth
  <2>1. outstanding[b] + PaidOn(b) <= Worth /\ outstanding'[b] <= outstanding[b]
    BY DEF SweepDiscipline, PaidWithinClaim
  <2>2. outstanding[b] \in Nat /\ outstanding'[b] \in Nat /\ PaidOn(b) \in Nat /\ Worth \in Nat
    BY MovedIsNatural DEF SweepDiscipline, SweepTypeOK, SweepParameters
  <2> QED BY <1>2, <2>1, <2>2
<1> QED BY <1>3, <1>4 DEF SweepDiscipline, PaidWithinClaim

\* A sweep that begins, a claim, a client's payment and the ledger's other traffic move no item.
LEMMA SweepsAndClaimsKeep ==
  ASSUME SweepParameters, SweepDiscipline,
         \/ \E x \in 0..Held : LedgerMoves(x)
         \/ \E b \in Bills : ClientPays(b)
         \/ \E s \in Sessions, bills \in SUBSET Bills, direct \in BOOLEAN : Sweep(s, bills, direct)
         \/ \E s \in Sessions : EstablishEntitlement(s)
  PROVE  SweepDiscipline'
<1> USE DEF SweepDiscipline
<1>1. \A b \in Bills : outstanding[b] \in Nat /\ outstanding[b] \in 0..Worth
  BY DEF SweepParameters, SweepTypeOK
<1>2. ASSUME NEW x \in 0..Held, LedgerMoves(x) PROVE SweepDiscipline'
  <2>1. SweepTypeOK'
    BY <1>2 DEF LedgerMoves, SweepTypeOK
  <2> QED BY <1>1, <1>2, <2>1, NothingMoved DEF LedgerMoves
<1>3. ASSUME NEW b \in Bills, ClientPays(b) PROVE SweepDiscipline'
  <2>1. \A c \in Bills : outstanding'[c] <= outstanding[c] /\ outstanding'[c] \in 0..Worth
    BY <1>1, <1>3 DEF ClientPays, SweepTypeOK, SweepParameters
  <2>2. SweepTypeOK'
    BY <1>3, <2>1 DEF ClientPays, SweepTypeOK
  <2> QED BY <1>3, <2>1, <2>2, NothingMoved DEF ClientPays
<1>4. ASSUME NEW s \in Sessions, NEW bills \in SUBSET Bills, NEW direct \in BOOLEAN, Sweep(s, bills, direct)
      PROVE  SweepDiscipline'
  <2> DEFINE t == {[bill |-> b, amount |-> Min({outstanding[b], available})] : b \in {c \in bills : Unclaimed(c)}}
  <2>1. ASSUME NEW b \in bills, Unclaimed(b) PROVE Min({outstanding[b], available}) \in 1..Held
    <3>1. outstanding[b] \in Nat /\ available \in Nat /\ available <= Held /\ outstanding[b] > 0 /\ available > 0
      BY <1>1, <2>1 DEF Unclaimed, Payable, SweepTypeOK, SweepParameters
    <3>2. Min({outstanding[b], available}) \in {outstanding[b], available}
          /\ \A y \in {outstanding[b], available} : Min({outstanding[b], available}) <= y
      <4>1. {outstanding[b], available} \in SUBSET Nat /\ {outstanding[b], available} # {}
        BY <3>1
      <4> QED BY <4>1, SmallestIsLeast
    <3> QED BY <3>1, <3>2 DEF SweepParameters
  <2>2. t \in SUBSET [bill : Bills, amount : 1..Held]
    <3>1. ASSUME NEW b \in bills, Unclaimed(b)
          PROVE  [bill |-> b, amount |-> Min({outstanding[b], available})] \in [bill : Bills, amount : 1..Held]
      <4>1. b \in Bills
        OBVIOUS
      <4> QED BY <2>1, <3>1, <4>1
    <3> QED BY <3>1
  <2>3. entrance' = [entrance EXCEPT ![s] = [step |-> "claiming", direct |-> direct, todo |-> t]]
    BY <1>4 DEF Sweep
  <2> HIDE DEF t
  <2>4. [step |-> "claiming", direct |-> direct, todo |-> t] \in Entrances
    BY <2>2 DEF Entrances
  <2>5. SweepTypeOK'
    BY <1>4, <2>3, <2>4 DEF Sweep, SweepTypeOK
  <2> QED BY <1>1, <1>4, <2>5, NothingMoved DEF Sweep
<1>5. ASSUME NEW s \in Sessions, EstablishEntitlement(s) PROVE SweepDiscipline'
  <2>1. PICK f \in entrance[s].todo :
          /\ IF f.amount <= outstanding[f.bill]
             THEN /\ Cardinality(claims) < MaxClaims
                  /\ claims' = claims \cup
                       {[id |-> Cardinality(claims) + 1, bill |-> f.bill, amount |-> f.amount]}
                  /\ entrance' = [entrance EXCEPT ![s].todo = @ \ {f}]
             ELSE entrance' = [entrance EXCEPT ![s] = Idle] /\ UNCHANGED claims
          /\ UNCHANGED <<outstanding, available, items, runs>>
    BY <1>5 DEF EstablishEntitlement
  <2>2. entrance[s] \in Entrances /\ f.bill \in Bills /\ f.amount \in 1..Held
    BY DEF SweepTypeOK, Entrances
  <2>3. entrance' \in [Sessions -> Entrances]
    <3>1. entrance \in [Sessions -> Entrances]
      BY DEF SweepTypeOK
    <3>2. [entrance[s] EXCEPT !.todo = entrance[s].todo \ {f}] \in Entrances
      BY <2>2 DEF Entrances
    <3>3. Idle \in Entrances
      BY DEF Entrances, Idle
    <3> QED BY <2>1, <3>1, <3>2, <3>3
  <2>4. claims' \subseteq Claims /\ IsFiniteSet(claims') /\ claims \subseteq claims'
    <3>1. CASE claims' = claims
      BY <3>1 DEF SweepTypeOK
    <3>2. CASE claims' # claims
      <4> DEFINE c == [id |-> Cardinality(claims) + 1, bill |-> f.bill, amount |-> f.amount]
      <4>1. claims' = claims \cup {c} /\ Cardinality(claims) < MaxClaims
        BY <2>1, <3>2
      <4>2. Cardinality(claims) \in Nat
        BY FS_CardinalityType DEF SweepTypeOK
      <4>3. Cardinality(claims) + 1 \in 1..MaxClaims
        BY <4>1, <4>2 DEF SweepParameters
      <4>4. c \in Claims
        BY <2>2, <4>3 DEF Claims
      <4> HIDE DEF c
      <4> QED BY <4>1, <4>4, FS_AddElement DEF SweepTypeOK
    <3> QED BY <3>1, <3>2
  <2>5. SweepTypeOK'
    BY <2>1, <2>3, <2>4 DEF SweepTypeOK
  <2>6. \A c \in claims' : c.amount \in Nat
    BY <2>4 DEF Claims, SweepParameters
  <2>7. \A b \in Bills : outstanding'[b] <= outstanding[b]
    BY <1>1, <2>1
  <2> QED BY <2>1, <2>4, <2>5, <2>6, <2>7, NothingMoved
<1> QED BY <1>2, <1>3, <1>4, <1>5

\* A run is previewed with one item for each claim that can be paid.
LEMMA PreviewRunKeeps ==
  ASSUME SweepParameters, SweepDiscipline, NEW s \in Sessions, PreviewRun(s)
  PROVE  SweepDiscipline'
<1> USE DEF SweepDiscipline
<1>1. PICK r \in 1..MaxRuns :
        /\ runs[r] = "none"
        /\ runs' = [runs EXCEPT ![r] = IF entrance[s].direct THEN "committed" ELSE "previewed"]
        /\ items' = items \cup {[run |-> r, claim |-> c, amount |-> Fits(c),
                                 state |-> IF entrance[s].direct THEN "awaiting" ELSE "previewed"] : c \in Candidates}
  BY DEF PreviewRun
<1> DEFINE st == IF entrance[s].direct THEN "awaiting" ELSE "previewed"
           new(c) == [run |-> r, claim |-> c, amount |-> Fits(c), state |-> st]
           N == {new(c) : c \in Candidates}
<1>2. UNCHANGED <<outstanding, available, claims>> /\ entrance' = [entrance EXCEPT ![s] = Idle]
  BY DEF PreviewRun
<1>3. ASSUME NEW c \in Candidates PROVE c \in claims /\ Fits(c) \in 1..Held
  <2>1. /\ c \in claims /\ c \in Claims /\ Headroom(c) > 0 /\ available > 0 /\ outstanding[c.bill] > 0
    BY DEF Candidates, SweepTypeOK
  <2>2. Headroom(c) \in Nat /\ available \in Nat /\ available <= Held /\ outstanding[c.bill] \in Nat /\ Held \in Nat
    <3>1. Consumed(c) \in Nat /\ c.amount \in Nat /\ c.bill \in Bills
      BY <2>1, MovedIsNatural DEF Claims, SweepParameters
    <3> QED BY <2>1, <3>1 DEF Headroom, SweepTypeOK, SweepParameters
  <2>3. Fits(c) \in {Headroom(c), available, outstanding[c.bill]}
        /\ \A y \in {Headroom(c), available, outstanding[c.bill]} : Fits(c) <= y
    <3>1. {Headroom(c), available, outstanding[c.bill]} \in SUBSET Nat
          /\ {Headroom(c), available, outstanding[c.bill]} # {}
      BY <2>2
    <3> QED BY <3>1, SmallestIsLeast DEF Fits
  <2> QED BY <2>1, <2>2, <2>3
<1>4. N \in SUBSET ItemRows /\ IsFiniteSet(N)
  <2>1. st \in States
    BY DEF States
  <2>2. \A c \in Candidates : c \in Claims
    BY <1>3 DEF SweepTypeOK
  <2>3. IsFiniteSet(Candidates)
    BY FS_Subset DEF Candidates, SweepTypeOK
  <2> HIDE DEF st
  <2>4. IsFiniteSet(N)
    <3> DEFINE g == [c \in Candidates |-> new(c)]
    <3> HIDE DEF new
    <3>1. g \in [Candidates -> N] /\ \A x \in N : \E c \in Candidates : g[c] = x
      OBVIOUS
    <3> HIDE DEF g, N
    <3>2. g \in Surjection(Candidates, N)
      BY <3>1 DEF Surjection
    <3> QED BY <2>3, <3>2, FS_Surjection
  <2> QED BY <1>3, <2>1, <2>2, <2>4 DEF ItemRows
<1>5. \A i \in N : i.run = r /\ i.claim \in claims /\ i.state = st /\ i.state # "completed"
  BY <1>3
<1>6. \A i, j \in N : i.claim = j.claim => i = j
  OBVIOUS
<1>7. items' = items \cup N /\ runs' = [runs EXCEPT ![r] = IF entrance[s].direct THEN "committed" ELSE "previewed"]
      /\ (runs'[r] = "previewed" => st = "previewed")
  BY <1>1 DEF SweepTypeOK
<1> HIDE DEF N, st, new
<1>8. SweepTypeOK'
  <2>1. entrance' \in [Sessions -> Entrances]
    BY <1>2 DEF SweepTypeOK, Entrances, Idle
  <2>2. IsFiniteSet(items')
    BY <1>4, <1>7, FS_Union DEF SweepTypeOK
  <2> QED BY <1>2, <1>4, <1>7, <2>1, <2>2 DEF SweepTypeOK
<1>9. \A i \in items : i.run # r /\ i.run \in 1..MaxRuns
  BY <1>1, ItemFields
<1>10. \A c : Consumed(c)' = Consumed(c)
  <2>1. ASSUME NEW c PROVE {i \in items' : i.claim = c /\ i.state = "completed"}
                           = {i \in items : i.claim = c /\ i.state = "completed"}
    BY <1>5, <1>7
  <2> QED BY <2>1 DEF Consumed
<1>11. \A b : PaidOn(b)' = PaidOn(b)
  <2>1. ASSUME NEW b PROVE {i \in items' : i.claim.bill = b /\ i.state = "completed"}
                           = {i \in items : i.claim.bill = b /\ i.state = "completed"}
    BY <1>5, <1>7
  <2> QED BY <2>1 DEF PaidOn
<1>12. PaidWithinClaim'
  BY <1>2, <1>10, <1>11 DEF PaidWithinClaim, Headroom
<1>13. \A i \in items' : i.claim \in claims' /\ runs'[i.run] # "none"
  BY <1>2, <1>5, <1>7, <1>9 DEF SweepTypeOK
<1>14. \A i \in items' : runs'[i.run] = "previewed" => i.state = "previewed"
  BY <1>5, <1>7, <1>9 DEF SweepTypeOK
<1>15. \A i, j \in items' : i.run = j.run /\ i.claim = j.claim => i = j
  BY <1>5, <1>6, <1>7, <1>9
<1> QED BY <1>8, <1>12, <1>13, <1>14, <1>15

\* An item of a committed run that takes another state is the same item.
LEMMA MovesKeepsRows ==
  ASSUME SweepParameters, SweepDiscipline, NEW i \in items, i.state = "awaiting",
         NEW to \in {"completed", "refused"}, Moves(i, to)
  PROVE  \E k \in ItemRows :
           /\ k.run = i.run /\ k.claim = i.claim /\ k.amount = i.amount /\ k.state = to
           /\ items' = (items \ {i}) \cup {k} /\ k \notin items
           /\ items' \subseteq ItemRows /\ IsFiniteSet(items')
           /\ \A j, l \in items' : j.run = l.run /\ j.claim = l.claim => j = l
           /\ \A j \in items' : \E l \in items : j.run = l.run /\ j.claim = l.claim
           /\ \A j \in items' : runs[j.run] = "previewed" => j.state = "previewed"
<1> USE DEF SweepDiscipline
<1> DEFINE k == [i EXCEPT !.state = to]
<1>1. i \in ItemRows /\ items \subseteq ItemRows /\ IsFiniteSet(items)
  BY DEF SweepTypeOK
<1>2. k \in ItemRows /\ k.run = i.run /\ k.claim = i.claim /\ k.amount = i.amount /\ k.state = to
  BY <1>1 DEF ItemRows, States
<1>3. items' = (items \ {i}) \cup {k}
  BY DEF Moves
<1> HIDE DEF k
<1>4. k # i
  BY <1>2
<1>5. k \notin items
  BY <1>2, <1>4
<1>6. IsFiniteSet(items \ {i})
  BY <1>1, FS_Subset
<1>7. IsFiniteSet(items')
  BY <1>3, <1>6, FS_AddElement
<1>8. \A j \in items \ {i} : ~(j.run = k.run /\ j.claim = k.claim)
  BY <1>2
<1>9. runs[k.run] # "previewed"
  BY <1>2
<1>10. items' \subseteq ItemRows
  BY <1>1, <1>2, <1>3
<1>11. \A j, l \in items' : j.run = l.run /\ j.claim = l.claim => j = l
  BY <1>3, <1>8
<1>12. \A j \in items' : \E l \in items : j.run = l.run /\ j.claim = l.claim
  BY <1>2, <1>3
<1>13. \A j \in items' : runs[j.run] = "previewed" => j.state = "previewed"
  BY <1>3, <1>9
<1> USE <1>2
<1> WITNESS k \in ItemRows
<1> QED BY <1>2, <1>3, <1>5, <1>7, <1>10, <1>11, <1>12, <1>13

\* What executes was within its claim and within what its bill still owed.
LEMMA SweepExecuteKeeps ==
  ASSUME SweepParameters, SweepDiscipline, NEW i \in items, Execute(i)
  PROVE  SweepDiscipline'
<1> USE DEF SweepDiscipline
<1>1. PICK k \in ItemRows :
        /\ k.run = i.run /\ k.claim = i.claim /\ k.amount = i.amount /\ k.state = "completed"
        /\ items' = (items \ {i}) \cup {k} /\ k \notin items
        /\ items' \subseteq ItemRows /\ IsFiniteSet(items')
        /\ \A j, l \in items' : j.run = l.run /\ j.claim = l.claim => j = l
        /\ \A j \in items' : \E l \in items : j.run = l.run /\ j.claim = l.claim
        /\ \A j \in items' : runs[j.run] = "previewed" => j.state = "previewed"
  BY MovesKeepsRows DEF Execute
<1> DEFINE cl == i.claim
           bl == i.claim.bill
           n == i.amount
<1>2. /\ n \in Nat /\ n \in 1..Held /\ cl \in Claims /\ cl \in claims /\ bl \in Bills /\ cl.amount \in Nat
      /\ i.state = "awaiting" /\ n <= Headroom(cl) /\ n <= available /\ n <= outstanding[bl]
  BY ItemFields DEF Execute, Verified
<1>3. /\ available' = available - n /\ outstanding' = [outstanding EXCEPT ![bl] = @ - n]
      /\ UNCHANGED <<claims, runs, entrance>>
  BY DEF Execute
<1> HIDE DEF n, cl, bl
<1>4. /\ \A b \in Bills : outstanding[b] \in Nat /\ outstanding[b] <= Worth
      /\ \A b \in Bills : outstanding'[b] = IF b = bl THEN outstanding[b] - n ELSE outstanding[b]
      /\ available \in Nat /\ available <= Held /\ Held \in Nat /\ Worth \in Nat
  BY <1>3 DEF SweepTypeOK, SweepParameters
<1>5. SweepTypeOK'
  <2>1. available' \in 0..Held
    BY <1>2, <1>3, <1>4
  <2>2. \A b \in Bills : outstanding'[b] \in 0..Worth
    BY <1>2, <1>4
  <2>3. outstanding' \in [Bills -> 0..Worth]
    BY <1>3, <2>2 DEF SweepTypeOK
  <2> QED BY <1>1, <1>3, <2>1, <2>3 DEF SweepTypeOK
<1>6. ASSUME NEW S \in SUBSET items, i \notin S
      PROVE  AmountIn(S \cup {k}) = AmountIn(S) + n /\ AmountIn(S) \in Nat
  <2>1. IsFiniteSet(S)
    BY FS_Subset DEF SweepTypeOK
  <2>2. \A j \in S : j.amount \in Nat
    BY ItemFields
  <2>3. k \notin S /\ k.amount \in Nat /\ k.amount = n
    BY <1>1, <1>2 DEF n
  <2> QED BY <2>1, <2>2, <2>3, AmountInGrows, AmountInIsNatural
<1>7. ASSUME NEW c \in claims PROVE Headroom(c)' >= 0
  <2> DEFINE S == {j \in items : j.claim = c /\ j.state = "completed"}
  <2>1. i \notin S /\ S \in SUBSET items
    BY <1>2
  <2>2. {j \in items' : j.claim = c /\ j.state = "completed"} = IF c = cl THEN S \cup {k} ELSE S
    BY <1>1, <1>2 DEF cl
  <2>3. Consumed(c) = AmountIn(S)
    BY DEF Consumed
  <2>4. Consumed(c)' = AmountIn(IF c = cl THEN S \cup {k} ELSE S)
    BY <2>2 DEF Consumed
  <2> HIDE DEF S
  <2>5. Consumed(c) \in Nat /\ Consumed(c)' = IF c = cl THEN Consumed(c) + n ELSE Consumed(c)
    BY <1>6, <2>1, <2>3, <2>4
  <2>6. c.amount - Consumed(c) >= 0 /\ c.amount \in Nat
    BY DEF PaidWithinClaim, Headroom, SweepTypeOK, Claims, SweepParameters
  <2> QED BY <1>2, <2>5, <2>6 DEF Headroom
<1>8. ASSUME NEW b \in Bills PROVE outstanding'[b] + PaidOn(b)' <= Worth
  <2> DEFINE S == {j \in items : j.claim.bill = b /\ j.state = "completed"}
  <2>1. i \notin S /\ S \in SUBSET items
    BY <1>2
  <2>2. {j \in items' : j.claim.bill = b /\ j.state = "completed"} = IF b = bl THEN S \cup {k} ELSE S
    BY <1>1, <1>2 DEF bl
  <2>3. PaidOn(b) = AmountIn(S)
    BY DEF PaidOn
  <2>4. PaidOn(b)' = AmountIn(IF b = bl THEN S \cup {k} ELSE S)
    BY <2>2 DEF PaidOn
  <2> HIDE DEF S
  <2>5. PaidOn(b) \in Nat /\ PaidOn(b)' = IF b = bl THEN PaidOn(b) + n ELSE PaidOn(b)
    BY <1>6, <2>1, <2>3, <2>4
  <2>6. outstanding[b] + PaidOn(b) <= Worth
    BY DEF PaidWithinClaim
  <2> QED BY <1>2, <1>4, <2>5, <2>6
<1>9. PaidWithinClaim'
  BY <1>3, <1>7, <1>8 DEF PaidWithinClaim
<1>10. \A j \in items' : j.claim \in claims' /\ runs'[j.run] # "none"
  BY <1>1, <1>3
<1> QED BY <1>1, <1>3, <1>5, <1>9, <1>10

\* What is refused moved nothing.
LEMMA SweepRefuseKeeps ==
  ASSUME SweepParameters, SweepDiscipline, NEW i \in items, Refuse(i)
  PROVE  SweepDiscipline'
<1> USE DEF SweepDiscipline
<1>1. PICK k \in ItemRows :
        /\ k.run = i.run /\ k.claim = i.claim /\ k.amount = i.amount /\ k.state = "refused"
        /\ items' = (items \ {i}) \cup {k} /\ k \notin items
        /\ items' \subseteq ItemRows /\ IsFiniteSet(items')
        /\ \A j, l \in items' : j.run = l.run /\ j.claim = l.claim => j = l
        /\ \A j \in items' : \E l \in items : j.run = l.run /\ j.claim = l.claim
        /\ \A j \in items' : runs[j.run] = "previewed" => j.state = "previewed"
  BY MovesKeepsRows DEF Refuse
<1>2. i.state = "awaiting" /\ UNCHANGED <<outstanding, available, claims, runs, entrance>>
  BY DEF Refuse
<1>3. SweepTypeOK'
  BY <1>1, <1>2 DEF SweepTypeOK
<1>4. \A c : Consumed(c)' = Consumed(c)
  <2>1. ASSUME NEW c PROVE {j \in items' : j.claim = c /\ j.state = "completed"}
                           = {j \in items : j.claim = c /\ j.state = "completed"}
    BY <1>1, <1>2
  <2> QED BY <2>1 DEF Consumed
<1>5. \A b : PaidOn(b)' = PaidOn(b)
  <2>1. ASSUME NEW b PROVE {j \in items' : j.claim.bill = b /\ j.state = "completed"}
                           = {j \in items : j.claim.bill = b /\ j.state = "completed"}
    BY <1>1, <1>2
  <2> QED BY <2>1 DEF PaidOn
<1>6. PaidWithinClaim'
  BY <1>2, <1>4, <1>5 DEF PaidWithinClaim, Headroom
<1>7. \A j \in items' : j.claim \in claims' /\ runs'[j.run] # "none"
  BY <1>1, <1>2
<1> QED BY <1>1, <1>2, <1>3, <1>6, <1>7

\* The items of a run that is committed wait for it: none has moved anything.
LEMMA SweepCommitKeeps ==
  ASSUME SweepParameters, SweepDiscipline, NEW r \in 1..MaxRuns, CommitHeldFundsApplication(r)
  PROVE  SweepDiscipline'
<1> USE DEF SweepDiscipline
<1> DEFINE st(i) == IF Verified(i) THEN "awaiting" ELSE "refused"
           new(i) == IF i.run # r THEN i ELSE [i EXCEPT !.state = st(i)]
<1>1. /\ runs[r] = "previewed" /\ runs' = [runs EXCEPT ![r] = "committed"]
      /\ items' = {new(i) : i \in items}
      /\ UNCHANGED <<outstanding, available, claims, entrance>>
  BY DEF CommitHeldFundsApplication
<1>2. ASSUME NEW i \in items
      PROVE  /\ new(i) \in ItemRows /\ new(i).run = i.run /\ new(i).claim = i.claim
             /\ i.run # r => new(i) = i
             /\ i.run = r => new(i).state \in {"awaiting", "refused"} /\ i.state = "previewed"
  <2>1. i \in ItemRows
    BY ItemFields
  <2>2. i.run = r => i.state = "previewed"
    BY <1>1
  <2>3. st(i) \in States /\ st(i) \in {"awaiting", "refused"}
    BY DEF States
  <2> HIDE DEF st
  <2>4. [i EXCEPT !.state = st(i)] \in ItemRows
    BY <2>1, <2>3 DEF ItemRows
  <2>5. LET k == [i EXCEPT !.state = st(i)]
        IN  k.run = i.run /\ k.claim = i.claim /\ k.state = st(i)
    BY <2>1 DEF ItemRows
  <2> QED BY <2>1, <2>2, <2>3, <2>4, <2>5
<1> HIDE DEF new, st
<1>3. IsFiniteSet(items')
  <2> DEFINE g == [i \in items |-> new(i)]
             N == {new(i) : i \in items}
  <2>1. g \in [items -> N] /\ \A x \in N : \E i \in items : g[i] = x
    OBVIOUS
  <2> HIDE DEF g, N
  <2>2. g \in Surjection(items, N)
    BY <2>1 DEF Surjection
  <2>3. IsFiniteSet(N)
    BY <2>2, FS_Surjection DEF SweepTypeOK
  <2> QED BY <1>1, <2>3 DEF N
<1>4. SweepTypeOK'
  BY <1>1, <1>2, <1>3 DEF SweepTypeOK
<1>5. \A j \in items' : \E i \in items : j = new(i)
  BY <1>1
<1>6. \A x : x \in items' /\ x.state = "completed" <=> x \in items /\ x.state = "completed"
  <2>1. ASSUME NEW x \in items', x.state = "completed" PROVE x \in items
    BY <1>2, <1>5, <2>1
  <2>2. ASSUME NEW x \in items, x.state = "completed" PROVE x \in items'
    <3>1. x.run # r /\ new(x) = x
      BY <1>2, <2>2
    <3> QED BY <1>1, <3>1
  <2> QED BY <2>1, <2>2
<1>7. \A c : Consumed(c)' = Consumed(c)
  <2>1. ASSUME NEW c PROVE {j \in items' : j.claim = c /\ j.state = "completed"}
                           = {j \in items : j.claim = c /\ j.state = "completed"}
    BY <1>6
  <2> QED BY <2>1 DEF Consumed
<1>8. \A b : PaidOn(b)' = PaidOn(b)
  <2>1. ASSUME NEW b PROVE {j \in items' : j.claim.bill = b /\ j.state = "completed"}
                           = {j \in items : j.claim.bill = b /\ j.state = "completed"}
    BY <1>6
  <2> QED BY <2>1 DEF PaidOn
<1>9. PaidWithinClaim'
  BY <1>1, <1>7, <1>8 DEF PaidWithinClaim, Headroom
<1>10. \A i \in items : i.run \in 1..MaxRuns
  BY ItemFields
<1>11. ASSUME NEW j \in items'
       PROVE  /\ j.claim \in claims' /\ runs'[j.run] # "none"
              /\ runs'[j.run] = "previewed" => j.state = "previewed"
  <2>1. PICK i \in items : j = new(i)
    BY <1>5
  <2>2. j.run = i.run /\ j.claim = i.claim /\ (i.run # r => j = i)
    BY <1>2, <2>1
  <2>3. runs'[i.run] = IF i.run = r THEN "committed" ELSE runs[i.run]
    BY <1>1, <1>10 DEF SweepTypeOK
  <2> QED BY <1>1, <2>2, <2>3
<1>12. \A j, l \in items' : j.run = l.run /\ j.claim = l.claim => j = l
  BY <1>2, <1>5
<1> QED BY <1>4, <1>9, <1>11, <1>12

\* No claim, no item, nothing paid.
LEMMA SweepBegins ==
  ASSUME SweepParameters, SweepInit
  PROVE  SweepDiscipline
<1>1. items = {} /\ claims = {} /\ IsFiniteSet({})
  BY FS_EmptySet DEF SweepInit
<1>2. SweepTypeOK
  BY <1>1 DEF SweepInit, SweepTypeOK, SweepParameters, Idle, Entrances
<1>3. \A b : PaidOn(b) = 0
  <2>1. \A b : {i \in items : i.claim.bill = b /\ i.state = "completed"} = {}
    BY <1>1
  <2> QED BY <2>1, SumOfNone DEF PaidOn, AmountIn
<1>4. PaidWithinClaim
  BY <1>1, <1>3 DEF PaidWithinClaim, SweepInit, SweepParameters
<1> QED BY <1>1, <1>2, <1>4 DEF SweepDiscipline

\* Every step keeps it.
LEMMA SweepStays ==
  ASSUME SweepParameters, SweepDiscipline, [SweepNext]_sweepVars
  PROVE  SweepDiscipline'
<1>1. ASSUME NEW s \in Sessions,
             (\E b \in Bills : ApplyHeldFundsToBills(s, b)) \/ PrepareFirmWideHeldFunds(s)
      PROVE  SweepDiscipline'
  <2>1. \E bills \in SUBSET Bills, direct \in BOOLEAN : Sweep(s, bills, direct)
    BY <1>1 DEF ApplyHeldFundsToBills, PrepareFirmWideHeldFunds
  <2> QED BY <2>1, SweepsAndClaimsKeep
<1>2. CASE UNCHANGED sweepVars
  <2>1. UNCHANGED <<outstanding, available, claims, items, runs, entrance>>
    BY <1>2 DEF sweepVars
  <2>2. SweepTypeOK'
    BY <2>1 DEF SweepDiscipline, SweepTypeOK
  <2>3. \A b \in Bills : outstanding'[b] <= outstanding[b]
    BY <2>1 DEF SweepDiscipline, SweepTypeOK, SweepParameters
  <2> QED BY <2>1, <2>2, <2>3, NothingMoved
<1> QED BY <1>1, <1>2, SweepsAndClaimsKeep, PreviewRunKeeps, SweepCommitKeeps, SweepExecuteKeeps,
           SweepRefuseKeeps DEF SweepNext

\* For any bills, claims, runs and sessions: a claim has one item in a run, which waits for
\* its run to be committed and moves its amount once (runHeldFunds.ts, entitlement_guard,
\* entitlement_consumed).
THEOREM SweepsStayInStep == SweepParameters /\ SweepSpec => []SweepDiscipline
<1>1. ASSUME SweepParameters PROVE SweepSpec => []SweepDiscipline
  <2>1. SweepInit => SweepDiscipline
    BY <1>1, SweepBegins
  <2>2. SweepDiscipline /\ [SweepNext]_sweepVars => SweepDiscipline'
    BY <1>1, SweepStays
  <2> QED BY <2>1, <2>2, PTL DEF SweepSpec
<1> QED BY <1>1

\* However many claims and runs sweeps record for a bill, what leaves the ledger for it never
\* exceeds what it was issued for, nor any claim what it was made for.
THEOREM BillsPaidWithinClaims == SweepParameters /\ SweepSpec => []PaidWithinClaim
<1>1. SweepDiscipline => PaidWithinClaim
  BY DEF SweepDiscipline
<1> QED BY <1>1, SweepsStayInStep, PTL

-----------------------------------------------------------------------------
(* The reconciliation: exceptions carried on, groups used once. *)

\* The members of a finite set of numbers in their order: each has its place, and each
\* place its member.
LEMMA PlacesInOrder ==
  ASSUME NEW S \in SUBSET Nat, IsFiniteSet(S)
  PROVE  /\ Cardinality(S) \in Nat
         /\ \A i \in S : \E k \in 1..Cardinality(S) : InOrder(S)[k] = i
         /\ \A k \in 1..Cardinality(S) : InOrder(S)[k] \in S
<1> DEFINE Below(i) == {j \in S : j < i}
           Rank(i) == Cardinality(Below(i))
           f == [i \in S |-> Rank(i) + 1]
<1>1. Cardinality(S) \in Nat
  BY FS_CardinalityType
<1>2. \A i \in S : IsFiniteSet(Below(i)) /\ Rank(i) \in Nat
  BY FS_Subset, FS_CardinalityType
<1>3. ASSUME NEW i \in S, NEW T \in SUBSET S, Below(i) \subseteq T, i \in T
      PROVE  Rank(i) < Cardinality(T)
  <2>0. IsFiniteSet(T)
    BY FS_Subset
  <2>1. IsFiniteSet(T) /\ Cardinality(T) \in Nat /\ i \notin Below(i)
    BY <2>0, FS_CardinalityType
  <2>2. Rank(i) <= Cardinality(T) /\ (Cardinality(T) = Rank(i) => T = Below(i))
    BY <1>3, <2>1, FS_Subset
  <2> QED BY <1>2, <1>3, <2>1, <2>2
<1>4. \A i \in S : Rank(i) < Cardinality(S)
  BY <1>3
<1>5. \A i, j \in S : i < j => Rank(i) < Rank(j)
  <2> SUFFICES ASSUME NEW i \in S, NEW j \in S, i < j PROVE Rank(i) < Rank(j)
    OBVIOUS
  <2>1. Below(i) \subseteq Below(j) /\ i \in Below(j) /\ Below(j) \subseteq S
    <3>1. \A l \in S : l \in Nat /\ i \in Nat /\ j \in Nat
      OBVIOUS
    <3>2. \A l \in S : l < i => l < j
      BY <3>1
    <3> QED BY <3>2
  <2> HIDE DEF Below
  <2> QED BY <1>3, <2>1
<1>6. \A i, j \in S : Rank(i) = Rank(j) => i = j
  <2> SUFFICES ASSUME NEW i \in S, NEW j \in S, Rank(i) = Rank(j) PROVE i = j
    OBVIOUS
  <2>1. i \in Nat /\ j \in Nat /\ Rank(i) \in Nat
    BY <1>2
  <2>2. ~(i < j) /\ ~(j < i)
    BY <1>5, <2>1
  <2> QED BY <2>1, <2>2
<1>7. \A k \in 1..Cardinality(S) : InOrder(S)[k] = CHOOSE i \in S : Rank(i) = k - 1
  BY DEF InOrder
<1> HIDE DEF Rank
<1>8. \A i \in S : Rank(i) + 1 \in 1..Cardinality(S) /\ InOrder(S)[Rank(i) + 1] = i
  <2> SUFFICES ASSUME NEW i \in S
               PROVE  Rank(i) + 1 \in 1..Cardinality(S) /\ InOrder(S)[Rank(i) + 1] = i
    OBVIOUS
  <2>1. Rank(i) + 1 \in 1..Cardinality(S) /\ (Rank(i) + 1) - 1 = Rank(i)
    <3>1. Rank(i) \in Nat /\ Rank(i) < Cardinality(S)
      BY <1>2, <1>4
    <3> QED BY <1>1, <3>1
  <2>2. InOrder(S)[Rank(i) + 1] = CHOOSE j \in S : Rank(j) = Rank(i)
    BY <1>7, <2>1
  <2>3. (CHOOSE j \in S : Rank(j) = Rank(i)) = i
    BY <1>6
  <2> QED BY <2>1, <2>2, <2>3
<1>9. f \in Injection(S, 1..Cardinality(S))
  BY <1>2, <1>6, <1>8 DEF Injection, IsInjective
<1>10. f \in Surjection(S, 1..Cardinality(S))
  <2>1. IsFiniteSet(1..Cardinality(S)) /\ Cardinality(1..Cardinality(S)) = Cardinality(S)
    BY <1>1, FS_Interval
  <2> QED BY <1>9, <2>1, FS_Injection
<1>11. \A k \in 1..Cardinality(S) : \E i \in S : f[i] = k
  BY <1>10 DEF Surjection
<1> QED BY <1>1, <1>8, <1>11

\* A finite set is listed by a sequence of its length.
LEMMA ListedInSomeOrder ==
  ASSUME NEW S, IsFiniteSet(S)
  PROVE  LET ts == CHOOSE s \in [1..Cardinality(S) -> S] : \A t \in S : \E k \in DOMAIN s : s[k] = t
         IN  ts \in Seq(S) /\ Len(ts) = Cardinality(S) /\ DOMAIN ts = 1..Len(ts)
<1>1. Cardinality(S) \in Nat /\ ExistsBijection(1..Cardinality(S), S)
  BY FS_CardinalityType
<1>2. PICK f \in Bijection(1..Cardinality(S), S) : TRUE
  BY <1>1 DEF ExistsBijection
<1>3. f \in [1..Cardinality(S) -> S] /\ \A t \in S : \E k \in DOMAIN f : f[k] = t
  BY <1>2 DEF Bijection, Surjection
<1> DEFINE ts == CHOOSE s \in [1..Cardinality(S) -> S] : \A t \in S : \E k \in DOMAIN s : s[k] = t
<1>4. ts \in [1..Cardinality(S) -> S]
  BY <1>3
<1> HIDE DEF ts
<1>5. ts \in Seq(S) /\ Len(ts) = Cardinality(S) /\ DOMAIN ts = 1..Len(ts)
  BY <1>1, <1>4
<1> QED BY <1>5 DEF ts

\* Two sequences joined: where the members of each are.
LEMMA TwoJoined ==
  ASSUME NEW T, NEW p \in Seq(T), NEW q \in Seq(T)
  PROVE  /\ p \o q \in Seq(T) /\ Len(p \o q) = Len(p) + Len(q) /\ DOMAIN (p \o q) = 1..(Len(p) + Len(q))
         /\ Len(p) \in Nat /\ Len(q) \in Nat
         /\ \A i \in 1..Len(p) : (p \o q)[i] = p[i]
         /\ \A i \in 1..Len(q) : (p \o q)[Len(p) + i] = q[i]
         /\ \A i \in 1..(Len(p) + Len(q)) : i > Len(p) =>
              i - Len(p) \in 1..Len(q) /\ (p \o q)[i] = q[i - Len(p)]
OBVIOUS

\* Three sequences joined, the later two of rows of a kind: so are those after the first.
LEMMA ThreeJoined ==
  ASSUME NEW T, NEW W \in SUBSET T, NEW p \in Seq(T), NEW q \in Seq(W), NEW r \in Seq(W),
         NEW j, j = p \o q \o r
  PROVE  /\ j \in Seq(T) /\ Len(j) = Len(p) + Len(q) + Len(r) /\ DOMAIN j = 1..Len(j)
         /\ \A i \in 1..Len(p) : j[i] = p[i]
         /\ \A i \in 1..Len(r) : j[Len(p) + Len(q) + i] = r[i]
         /\ \A i \in 1..Len(j) : i > Len(p) => j[i] \in W
<1>0. q \in Seq(T) /\ r \in Seq(T)
  OBVIOUS
<1>1. PICK h \in Seq(T) : h = p \o q
  BY <1>0, TwoJoined
<1>2. /\ Len(h) = Len(p) + Len(q) /\ Len(p) \in Nat /\ Len(q) \in Nat
      /\ \A i \in 1..Len(p) : h[i] = p[i]
      /\ \A i \in 1..Len(h) : i > Len(p) => i - Len(p) \in 1..Len(q) /\ h[i] = q[i - Len(p)]
  BY <1>0, <1>1, TwoJoined
<1>3. j = h \o r
  BY <1>1
<1>4. /\ j \in Seq(T) /\ Len(j) = Len(h) + Len(r) /\ DOMAIN j = 1..Len(j) /\ Len(r) \in Nat
      /\ \A i \in 1..Len(h) : j[i] = h[i]
      /\ \A i \in 1..Len(r) : j[Len(h) + i] = r[i]
      /\ \A i \in 1..Len(j) : i > Len(h) => i - Len(h) \in 1..Len(r) /\ j[i] = r[i - Len(h)]
  BY <1>0, <1>3, TwoJoined
<1>5. \A i \in 1..Len(p) : i \in 1..Len(h)
  BY <1>2
<1>6. ASSUME NEW i \in 1..Len(j), i > Len(p)
      PROVE  j[i] \in W
  <2>1. CASE i > Len(h)
    BY <1>4, <2>1
  <2>2. CASE ~(i > Len(h))
    <3>1. i \in 1..Len(h)
      BY <1>2, <1>4, <2>2
    <3>2. i - Len(p) \in 1..Len(q) /\ j[i] = q[i - Len(p)]
      BY <1>2, <1>4, <1>6, <3>1
    <3> QED BY <3>2
  <2> QED BY <2>1, <2>2
<1> QED BY <1>2, <1>4, <1>5, <1>6

\* What the types say of builds, exceptions and groups.
LEMMA ReconTypes ==
  ASSUME ReconParameters, TypeOK
  PROVE  /\ Builds = 1..Len(build) /\ Len(build) \in Nat /\ Len(build) <= MaxBuilds /\ MaxBuilds \in Nat
         /\ Excs = 1..Len(exc) /\ Len(exc) \in Nat
         /\ \A b \in Builds : build[b] \in BuildRow /\ b \in 1..MaxBuilds
         /\ \A i \in Excs : exc[i] \in ExcRow
         /\ \A i \in Excs : /\ exc[i].state = "carried_forward" => exc[i].to \in Excs
                            /\ exc[i].state # "carried_forward" => exc[i].to = 0
                            /\ exc[i].state # "resolved" => exc[i].by = 0
         /\ \A g \in groups : g.build \in Builds /\ g.lines \in SUBSET Lines /\ g.txns \in SUBSET Txns
<1>1. MaxBuilds \in Nat
  BY DEF ReconParameters, DataAssumption
<1>2. build \in Seq(BuildRow) /\ exc \in Seq(ExcRow) /\ Len(build) <= MaxBuilds
      /\ groups \in SUBSET [build : Builds, lines : SUBSET Lines, txns : SUBSET Txns]
  BY DEF TypeOK
<1>3. /\ Builds = 1..Len(build) /\ Len(build) \in Nat /\ \A b \in Builds : build[b] \in BuildRow
      /\ Excs = 1..Len(exc) /\ Len(exc) \in Nat /\ \A i \in Excs : exc[i] \in ExcRow
  BY <1>2 DEF Builds, Excs
<1>4. \A b \in Builds : b \in 1..MaxBuilds
  BY <1>1, <1>2, <1>3
<1>5. \A g \in groups : g.build \in Builds /\ g.lines \in SUBSET Lines /\ g.txns \in SUBSET Txns
  BY <1>2
<1>6. \A i \in Excs : /\ exc[i].state = "carried_forward" => exc[i].to \in Excs
                      /\ exc[i].state # "carried_forward" => exc[i].to = 0
                      /\ exc[i].state # "resolved" => exc[i].by = 0
  <2>1. \A i \in Excs : /\ exc[i].to \in IF exc[i].state = "carried_forward" THEN Excs ELSE {0}
                        /\ (exc[i].state = "resolved") = (exc[i].by # 0)
    BY DEF TypeOK
  <2> QED BY <2>1
<1> QED BY <1>1, <1>2, <1>3, <1>4, <1>5, <1>6

\* An exception raised or carried is one of the rows there can be.
LEMMA FreshRow ==
  ASSUME ReconParameters, NEW b \in 1..MaxBuilds, NEW x \in Linked
  PROVE  /\ Fresh(b, x) \in ExcRow /\ Fresh(b, x).build = b /\ Fresh(b, x).state = "open"
         /\ Fresh(b, x).by = 0 /\ Fresh(b, x).to = 0
<1>1. MaxBuilds \in Nat
  BY DEF ReconParameters, DataAssumption
<1>2. b \in 1..MaxBuilds /\ 0 \in 0..MaxBuilds
  BY <1>1
<1> QED BY <1>2 DEF Fresh, ExcRow

\* A build adds itself, in progress, and exceptions of its own; those that were open for
\* its account are carried, each to one of those.
LEMMA BuildAdds ==
  ASSUME ReconParameters, ReconDiscipline,
         NEW a \in Accounts, NEW d \in Dates, NEW x \in Balances, BuildReconciliation(a, d, x)
  PROVE  /\ Len(build) + 1 <= MaxBuilds
         /\ build' = Append(build, [account |-> a, date |-> d, balance |-> x, status |-> "in_progress"])
         /\ \A c \in Builds : build[c].account = a => Certified(c)
         /\ exc' \in Seq(ExcRow) /\ DOMAIN exc' = 1..Len(exc') /\ Len(exc) <= Len(exc')
         /\ \A i \in Excs :
              /\ exc'[i].first = exc[i].first /\ exc'[i].build = exc[i].build
              /\ exc'[i].linked = exc[i].linked /\ exc'[i].by = exc[i].by
              /\ i \notin OpenPriors(a) => exc'[i] = exc[i]
              /\ i \in OpenPriors(a) =>
                   /\ exc'[i].state = "carried_forward" /\ exc'[i].to \in DOMAIN exc'
                   /\ exc'[exc'[i].to].linked = exc[i].linked /\ exc'[exc'[i].to].first = exc[i].first
                   /\ exc'[exc'[i].to].build = Len(build) + 1
         /\ \A i \in DOMAIN exc' \ Excs :
              exc'[i].build = Len(build) + 1 /\ exc'[i].state = "open" /\ exc'[i].by = 0 /\ exc'[i].to = 0
         /\ UNCHANGED <<posted, arrived, presented, groups, exam, seen>>
<1> DEFINE b == Len(build) + 1
           O == OpenPriors(a)
           excepted == {t \in Unpresented(a, d) : \A i \in O : exc[i].linked # <<"instrument", t>>}
           ts == CHOOSE s \in [1..Cardinality(excepted) -> excepted] :
                   \A t \in excepted : \E k \in DOMAIN s : s[k] = t
           carried == InOrder(O)
           base == Len(exc) + Len(ts)
           p == [i \in Excs |-> IF i \in O
                                THEN [exc[i] EXCEPT !.state = "carried_forward",
                                        !.to = base + (CHOOSE k \in DOMAIN carried : carried[k] = i)]
                                ELSE exc[i]]
           q == [k \in DOMAIN ts |-> Fresh(b, <<"instrument", ts[k]>>)]
           r == [k \in DOMAIN carried |-> Successor(carried[k], b)]
           W == {row \in ExcRow : row.build = b /\ row.state = "open" /\ row.by = 0 /\ row.to = 0}
<1>1. /\ b <= MaxBuilds
      /\ build' = Append(build, [account |-> a, date |-> d, balance |-> x, status |-> "in_progress"])
      /\ \A c \in Builds : build[c].account = a => Certified(c)
      /\ exc' = p \o q \o r
      /\ UNCHANGED <<posted, arrived, presented, groups, exam, seen>>
  BY DEF BuildReconciliation
<1>2. /\ Excs = 1..Len(exc) /\ Len(exc) \in Nat /\ Len(build) \in Nat /\ MaxBuilds \in Nat
      /\ \A i \in Excs : exc[i] \in ExcRow
      /\ \A i \in Excs : exc[i].state # "carried_forward" => exc[i].to = 0
      /\ \A i \in Excs : exc[i].state # "resolved" => exc[i].by = 0
  <2>1. TypeOK
    BY DEF ReconDiscipline
  <2> HIDE DEF b, O, excepted, ts, carried, base, p, q, r
  <2> QED BY <2>1, ReconTypes
<1>3. b \in 1..MaxBuilds
  <2>1. b <= MaxBuilds
    BY <1>1
  <2>2. Len(build) \in Nat /\ MaxBuilds \in Nat
    BY <1>2
  <2> QED BY <2>1, <2>2
<1>4. O \in SUBSET Nat /\ O \subseteq Excs /\ IsFiniteSet(O)
  <2>1. O \subseteq 1..Len(exc)
    BY <1>2 DEF OpenPriors
  <2>2. IsFiniteSet(1..Len(exc))
    <3>1. 1 \in Int /\ Len(exc) \in Int
      BY <1>2
    <3> QED BY <3>1, FS_Interval
  <2> QED BY <1>2, <2>1, <2>2, FS_Subset
<1> HIDE DEF O
<1>5. /\ Cardinality(O) \in Nat /\ DOMAIN carried = 1..Cardinality(O)
      /\ \A i \in O : \E k \in 1..Cardinality(O) : carried[k] = i
      /\ \A k \in 1..Cardinality(O) : carried[k] \in O
  <2>1. DOMAIN carried = 1..Cardinality(O)
    BY DEF InOrder
  <2> HIDE DEF carried
  <2> QED BY <1>4, <2>1, PlacesInOrder DEF carried
<1>6. IsFiniteSet(excepted) /\ excepted \subseteq Instruments
  <2>1. excepted \subseteq Instruments
    BY DEF Unpresented
  <2>2. IsFiniteSet(Instruments)
    BY DEF ReconParameters
  <2> QED BY <2>1, <2>2, FS_Subset
<1> HIDE DEF excepted
<1>7. ts \in Seq(excepted) /\ DOMAIN ts = 1..Len(ts) /\ Len(ts) \in Nat
  BY <1>6, ListedInSomeOrder
<1> HIDE DEF carried, ts
<1>8. \A k \in 1..Len(ts) : q[k] \in ExcRow /\ q[k].build = b /\ q[k].state = "open" /\ q[k].by = 0 /\ q[k].to = 0
  <2> SUFFICES ASSUME NEW k \in 1..Len(ts)
               PROVE  /\ q[k] \in ExcRow /\ q[k].build = b /\ q[k].state = "open"
                      /\ q[k].by = 0 /\ q[k].to = 0
    OBVIOUS
  <2>1. ts[k] \in Instruments
    BY <1>6, <1>7
  <2>2. <<"instrument", ts[k]>> \in Linked
    BY <2>1 DEF Linked
  <2>3. q[k] = Fresh(b, <<"instrument", ts[k]>>)
    BY <1>7
  <2> HIDE DEF b
  <2> QED BY <1>3, <2>2, <2>3, FreshRow
<1>9. q \in Seq(W) /\ Len(q) = Len(ts)
  <2> HIDE DEF b, q, W
  <2>1. \A k \in 1..Len(ts) : q[k] \in W
    BY <1>8 DEF W
  <2>2. q = [k \in 1..Len(ts) |-> q[k]]
    BY <1>7 DEF q
  <2> QED BY <1>7, <2>1, <2>2
<1>10. \A i \in O : exc[i].state = "open" /\ exc[i].by = 0 /\ exc[i].to = 0 /\ exc[i] \in ExcRow
  <2> SUFFICES ASSUME NEW i \in O
               PROVE  exc[i].state = "open" /\ exc[i].by = 0 /\ exc[i].to = 0 /\ exc[i] \in ExcRow
    OBVIOUS
  <2>1. i \in Excs /\ exc[i].state = "open" /\ exc[i] \in ExcRow
    BY <1>2, <1>4 DEF O, OpenPriors
  <2>2. /\ exc[i].state # "carried_forward" => exc[i].to = 0
        /\ exc[i].state # "resolved" => exc[i].by = 0
    BY <1>2, <2>1
  <2> QED BY <2>1, <2>2
<1>11. \A k \in 1..Cardinality(O) :
          /\ r[k] \in ExcRow /\ r[k].build = b /\ r[k].linked = exc[carried[k]].linked
          /\ r[k].first = exc[carried[k]].first /\ r[k].state = "open" /\ r[k].by = 0 /\ r[k].to = 0
  <2> SUFFICES ASSUME NEW k \in 1..Cardinality(O)
               PROVE  /\ r[k] \in ExcRow /\ r[k].build = b /\ r[k].linked = exc[carried[k]].linked
                      /\ r[k].first = exc[carried[k]].first /\ r[k].state = "open" /\ r[k].by = 0 /\ r[k].to = 0
    OBVIOUS
  <2>1. r[k] = [exc[carried[k]] EXCEPT !.build = b]
    BY <1>5 DEF Successor
  <2>2. exc[carried[k]] \in ExcRow /\ exc[carried[k]].state = "open" /\ exc[carried[k]].by = 0
        /\ exc[carried[k]].to = 0
    BY <1>5, <1>10
  <2> HIDE DEF b, r
  <2> QED BY <1>3, <2>1, <2>2 DEF ExcRow
<1>12. r \in Seq(W) /\ Len(r) = Cardinality(O)
  <2> HIDE DEF b, r, W
  <2>1. \A k \in 1..Cardinality(O) : r[k] \in W
    BY <1>11 DEF W
  <2>2. r = [k \in 1..Cardinality(O) |-> r[k]]
    BY <1>5 DEF r
  <2> QED BY <1>5, <2>1, <2>2
<1>13. ASSUME NEW i \in O
       PROVE  \E k \in 1..Len(r) : /\ carried[k] = i /\ p[i] = [exc[i] EXCEPT !.state = "carried_forward", !.to = base + k]
  <2>1. \E k \in DOMAIN carried : carried[k] = i
    BY <1>5
  <2>2. (CHOOSE k \in DOMAIN carried : carried[k] = i) \in DOMAIN carried
        /\ carried[CHOOSE k \in DOMAIN carried : carried[k] = i] = i
    BY <2>1
  <2> QED BY <1>4, <1>5, <1>12, <2>2
<1>14. \A i \in Excs \ O : p[i] = exc[i]
  OBVIOUS
<1>15. p = [i \in 1..Len(exc) |-> p[i]]
  BY <1>2
<1>16. base = Len(exc) + Len(q) /\ base \in Nat
  BY <1>2, <1>7, <1>9
<1> HIDE DEF p, q, r, base, b, W
<1>17. \A i \in O : p[i] \in ExcRow /\ p[i].first = exc[i].first /\ p[i].build = exc[i].build
                    /\ p[i].linked = exc[i].linked /\ p[i].by = exc[i].by /\ p[i].state = "carried_forward"
  <2> SUFFICES ASSUME NEW i \in O
               PROVE  /\ p[i] \in ExcRow /\ p[i].first = exc[i].first /\ p[i].build = exc[i].build
                      /\ p[i].linked = exc[i].linked /\ p[i].by = exc[i].by /\ p[i].state = "carried_forward"
    OBVIOUS
  <2>1. PICK k \in 1..Len(r) : p[i] = [exc[i] EXCEPT !.state = "carried_forward", !.to = base + k]
    BY <1>13
  <2>2. base + k \in Nat
    BY <1>12, <1>16
  <2> QED BY <1>10, <2>1, <2>2 DEF ExcRow
<1>18. p \in Seq(ExcRow) /\ Len(p) = Len(exc)
  <2>1. \A i \in 1..Len(exc) : p[i] \in ExcRow
    BY <1>2, <1>14, <1>17
  <2>2. p \in [1..Len(exc) -> ExcRow] /\ Len(exc) \in Nat
    BY <1>2, <1>15, <2>1
  <2> QED BY <2>2
<1>19. /\ exc' \in Seq(ExcRow) /\ Len(exc') = Len(p) + Len(q) + Len(r) /\ DOMAIN exc' = 1..Len(exc')
       /\ \A i \in 1..Len(p) : exc'[i] = p[i]
       /\ \A i \in 1..Len(r) : exc'[Len(p) + Len(q) + i] = r[i]
       /\ \A i \in 1..Len(exc') : i > Len(p) => exc'[i] \in W
  <2>1. exc' = p \o q \o r
    BY <1>1
  <2>2. W \in SUBSET ExcRow
    BY DEF W
  <2>3. PICK j : j = exc'
    OBVIOUS
  <2>4. p \in Seq(ExcRow) /\ q \in Seq(W) /\ r \in Seq(W) /\ j = p \o q \o r
    BY <1>9, <1>12, <1>18, <2>1, <2>3
  <2>5. /\ j \in Seq(ExcRow) /\ Len(j) = Len(p) + Len(q) + Len(r) /\ DOMAIN j = 1..Len(j)
        /\ \A i \in 1..Len(p) : j[i] = p[i]
        /\ \A i \in 1..Len(r) : j[Len(p) + Len(q) + i] = r[i]
        /\ \A i \in 1..Len(j) : i > Len(p) => j[i] \in W
    BY <2>2, <2>4, ThreeJoined
  <2> QED BY ONLY <2>3, <2>5, Zenon
<1>20. ASSUME NEW i \in O
       PROVE  /\ exc'[i].to \in DOMAIN exc' /\ exc'[exc'[i].to].linked = exc[i].linked
              /\ exc'[exc'[i].to].first = exc[i].first /\ exc'[exc'[i].to].build = b
  <2>1. PICK k \in 1..Len(r) : carried[k] = i /\ p[i] = [exc[i] EXCEPT !.state = "carried_forward", !.to = base + k]
    BY <1>13
  <2>2. exc'[i] = p[i]
    BY <1>2, <1>4, <1>18, <1>19
  <2>3. exc'[i].to = base + k
    BY <1>10, <2>1, <2>2 DEF ExcRow
  <2>4. base + k \in DOMAIN exc' /\ exc'[base + k] = r[k]
    BY <1>12, <1>16, <1>18, <1>19
  <2> QED BY <1>11, <1>12, <2>1, <2>3, <2>4
<1>21. \A i \in DOMAIN exc' \ Excs :
         exc'[i].build = b /\ exc'[i].state = "open" /\ exc'[i].by = 0 /\ exc'[i].to = 0
  <2> SUFFICES ASSUME NEW i \in DOMAIN exc', i \notin Excs
               PROVE  exc'[i].build = b /\ exc'[i].state = "open" /\ exc'[i].by = 0 /\ exc'[i].to = 0
    OBVIOUS
  <2>1. i \in 1..Len(exc') /\ i > Len(p)
    BY <1>2, <1>18, <1>19
  <2> QED BY <1>19, <2>1 DEF W
<1>22. \A i \in Excs :
         /\ exc'[i].first = exc[i].first /\ exc'[i].build = exc[i].build
         /\ exc'[i].linked = exc[i].linked /\ exc'[i].by = exc[i].by
         /\ i \notin O => exc'[i] = exc[i]
         /\ i \in O => exc'[i].state = "carried_forward"
  BY <1>2, <1>14, <1>17, <1>18, <1>19
<1>23. Len(exc) <= Len(exc')
  BY <1>2, <1>9, <1>7, <1>12, <1>5, <1>18, <1>19
<1> QED BY <1>1, <1>19, <1>20, <1>21, <1>22, <1>23 DEF b, O

\* Where builds keep their rows and groups theirs, what is used and by whom stays.
LEMMA SameGroups ==
  ASSUME ReconParameters, TypeOK, groups' = groups, \A c \in Builds : build'[c] = build[c],
         NEW b \in Builds
  PROVE  UnusedLines(b)' = UnusedLines(b)
<1>1. \A g \in groups : g.build \in Builds
  BY ReconTypes
<1>2. GroupsOf(b)' = GroupsOf(b)
  BY DEF GroupsOf
<1>3. History(b)' = History(b)
  BY <1>1 DEF History, Certified
<1> QED BY <1>2, <1>3 DEF UnusedLines, LinesIn

\* A build of an account keeps the discipline: what is left open and carried is its own.
LEMMA ReconBuilds ==
  ASSUME ReconParameters, ReconDiscipline,
         NEW a \in Accounts, NEW d \in Dates, NEW x \in Balances, BuildReconciliation(a, d, x)
  PROVE  ReconDiscipline'
<1> DEFINE n == Len(build) + 1
           row == [account |-> a, date |-> d, balance |-> x, status |-> "in_progress"]
           O == OpenPriors(a)
<1>1. /\ TypeOK /\ OfABuild /\ OpenIsLast /\ ExaminedStands
      /\ NoneStranded /\ LineageKept /\ LinesUsedOnce /\ PresentedWhenMatched
  BY DEF ReconDiscipline
<1>2. /\ Builds = 1..Len(build) /\ Len(build) \in Nat /\ Len(build) <= MaxBuilds /\ MaxBuilds \in Nat
      /\ Excs = 1..Len(exc) /\ Len(exc) \in Nat
      /\ \A c \in Builds : build[c] \in BuildRow
  BY <1>1, ReconTypes
<1>3. /\ \A i \in Excs : /\ exc[i].state = "carried_forward" => exc[i].to \in Excs
                         /\ exc[i].state # "carried_forward" => exc[i].to = 0
                         /\ exc[i].state # "resolved" => exc[i].by = 0
      /\ \A g \in groups : g.build \in Builds /\ g.lines \in SUBSET Lines /\ g.txns \in SUBSET Txns
  BY <1>1, ReconTypes
<1>4. /\ n <= MaxBuilds /\ build' = Append(build, row)
      /\ \A c \in Builds : build[c].account = a => Certified(c)
      /\ exc' \in Seq(ExcRow) /\ DOMAIN exc' = 1..Len(exc') /\ Len(exc) <= Len(exc')
      /\ UNCHANGED <<posted, arrived, presented, groups, exam, seen>>
  BY BuildAdds
<1>5. \A i \in Excs :
        /\ exc'[i].first = exc[i].first /\ exc'[i].build = exc[i].build
        /\ exc'[i].linked = exc[i].linked /\ exc'[i].by = exc[i].by
        /\ i \notin O => exc'[i] = exc[i]
        /\ i \in O =>
             /\ exc'[i].state = "carried_forward" /\ exc'[i].to \in DOMAIN exc'
             /\ exc'[exc'[i].to].linked = exc[i].linked /\ exc'[exc'[i].to].first = exc[i].first
             /\ exc'[exc'[i].to].build = n
  BY BuildAdds
<1>6. \A i \in DOMAIN exc' \ Excs :
        exc'[i].build = n /\ exc'[i].state = "open" /\ exc'[i].by = 0 /\ exc'[i].to = 0
  BY BuildAdds
<1>7. /\ build' \in Seq(BuildRow) /\ Len(build') = n /\ build'[n] = row
      /\ Builds' = 1..n /\ Builds' = Builds \cup {n} /\ n \notin Builds
      /\ \A c \in Builds : build'[c] = build[c]
  <2>1. row \in BuildRow
    BY DEF BuildRow
  <2>2. build \in Seq(BuildRow)
    BY <1>1 DEF TypeOK
  <2> HIDE DEF row
  <2>3. /\ build' \in Seq(BuildRow) /\ Len(build') = n /\ build'[n] = row /\ DOMAIN build' = 1..n
        /\ \A c \in 1..Len(build) : build'[c] = build[c]
    BY <1>4, <2>1, <2>2
  <2>4. 1..n = (1..Len(build)) \cup {n} /\ n \notin 1..Len(build)
    BY <1>2
  <2> QED BY <1>2, <2>3, <2>4 DEF Builds
<1>8. /\ \A c \in Builds : /\ (build'[c].status = "certified") = Certified(c)
                            /\ build'[c].account = build[c].account
      /\ build'[n].status # "certified" /\ build'[n].account = a
  BY <1>7 DEF Certified
<1>9. Excs' = DOMAIN exc' /\ Excs \subseteq Excs'
  BY <1>2, <1>4 DEF Excs
<1>10. \A i \in Excs : i \in O <=> exc[i].state = "open" /\ Certified(exc[i].build)
                                   /\ build[exc[i].build].account = a
  BY DEF OpenPriors
<1>11. \A i \in Excs : exc[i].build \in Builds
  BY <1>1 DEF OfABuild
<1> HIDE DEF n, row, O
<1>12. TypeOK'
  <2>1. /\ posted' \subseteq Txns /\ arrived' \subseteq Lines /\ presented' \subseteq Instruments
        /\ build' \in Seq(BuildRow) /\ Len(build') <= MaxBuilds
        /\ exam' \in [1..MaxBuilds -> {"none", "covered", "equal"}]
        /\ seen' \in [1..MaxBuilds -> SUBSET Txns] /\ exc' \in Seq(ExcRow)
    BY <1>1, <1>4, <1>7 DEF TypeOK
  <2>2. groups' \subseteq [build : Builds', lines : SUBSET Lines, txns : SUBSET Txns]
    <3>1. groups \subseteq [build : Builds, lines : SUBSET Lines, txns : SUBSET Txns]
      BY <1>1 DEF TypeOK
    <3>2. Builds \subseteq Builds' /\ groups' = groups
      BY <1>4, <1>7
    <3> QED BY <3>1, <3>2
  <2>3. ASSUME NEW i \in Excs'
        PROVE  /\ exc'[i].to \in IF exc'[i].state = "carried_forward" THEN Excs' ELSE {0}
               /\ (exc'[i].state = "resolved") = (exc'[i].by # 0)
    <3>1. CASE i \in O /\ i \in Excs
      <4>1. exc[i].by = 0
        BY <1>3, <1>10, <3>1
      <4> QED BY <1>5, <1>9, <3>1, <4>1
    <3>2. CASE i \in Excs /\ i \notin O
      <4>1. exc'[i] = exc[i]
        BY <1>5, <3>2
      <4>2. /\ exc[i].to \in IF exc[i].state = "carried_forward" THEN Excs ELSE {0}
            /\ (exc[i].state = "resolved") = (exc[i].by # 0)
        BY <1>1, <3>2 DEF TypeOK
      <4> QED BY <1>9, <4>1, <4>2
    <3>3. CASE i \notin Excs
      BY <1>6, <1>9, <3>3
    <3> QED BY <3>1, <3>2, <3>3
  <2> QED BY <2>1, <2>2, <2>3 DEF TypeOK
<1>13. OfABuild'
  <2>1. ASSUME NEW i \in Excs'
        PROVE  exc'[i].build \in Builds'
    BY <1>5, <1>6, <1>7, <1>9, <1>11
  <2>2. ASSUME NEW g \in groups', NEW l \in g.lines
        PROVE  AccountOf[l] = build'[g.build].account
    <3>1. g \in groups /\ g.build \in Builds
      BY <1>3, <1>4
    <3>2. AccountOf[l] = build[g.build].account
      BY <1>1, <3>1 DEF OfABuild
    <3> QED BY <1>8, <3>1, <3>2
  <2> QED BY <2>1, <2>2 DEF OfABuild
<1>14. OpenIsLast'
  <2> SUFFICES ASSUME NEW b \in Builds', NEW c \in Builds',
                      build'[b].account = build'[c].account, build'[b].status # "certified"
               PROVE  c <= b
    BY DEF OpenIsLast, Certified
  <2>1. CASE b = n
    <3>1. n \in Nat
      BY <1>2 DEF n
    <3> QED BY <1>7, <2>1, <3>1
  <2>2. CASE b \in Builds
    <3>1. ~Certified(b) /\ build[b].account # a
      BY <1>4, <1>8, <2>2
    <3>2. c \in Builds /\ build[c].account = build[b].account
      BY <1>7, <1>8, <2>2, <3>1
    <3> QED BY <1>1, <2>2, <3>1, <3>2 DEF OpenIsLast
  <2> QED BY <1>7, <2>1, <2>2
<1>15. ExaminedStands'
  <2> SUFFICES ASSUME NEW b \in 1..MaxBuilds, exam'[b] # "none"
               PROVE  b \in Builds' /\ ~Certified(b)' /\ UnusedLines(b)' /\ PriorsSettled(b)'
    BY DEF ExaminedStands
  <2>1. b \in Builds /\ ~Certified(b) /\ UnusedLines(b) /\ PriorsSettled(b)
    BY <1>1, <1>4 DEF ExaminedStands
  <2>2. UnusedLines(b)'
    BY <1>1, <1>4, <1>7, <2>1, SameGroups
  <2>3. ASSUME NEW i \in Excs', exc'[i].state = "open", build'[exc'[i].build].status = "certified",
               build'[exc'[i].build].account = build'[b].account
        PROVE  FALSE
    <3>1. i \in Excs
      BY <1>6, <1>8, <1>9, <2>3
    <3>2. exc'[i] = exc[i]
      BY <1>5, <2>3, <3>1
    <3>3. i \in OpenPriors(build[b].account)
      BY <1>8, <1>11, <2>1, <2>3, <3>1, <3>2 DEF OpenPriors
    <3> QED BY <2>1, <3>3 DEF PriorsSettled
  <2>4. PriorsSettled(b)'
    BY <2>3 DEF PriorsSettled, OpenPriors, Certified
  <2> QED BY <1>7, <1>8, <2>1, <2>2, <2>4 DEF Certified
<1>16. NoneStranded'
  <2> SUFFICES ASSUME NEW i \in Excs', exc'[i].state = "open", build'[exc'[i].build].status = "certified",
                      NEW c \in Builds', build'[c].status = "certified", build'[c].account = build'[exc'[i].build].account
               PROVE  c <= exc'[i].build
    BY DEF NoneStranded, Latest, Certified
  <2>1. i \in Excs
    BY <1>6, <1>8, <1>9
  <2>2. exc'[i] = exc[i] /\ exc[i].build \in Builds
    BY <1>5, <1>11, <2>1
  <2>3. c \in Builds /\ Certified(c) /\ Certified(exc[i].build)
        /\ build[c].account = build[exc[i].build].account
    BY <1>7, <1>8, <2>2
  <2> QED BY <1>1, <2>1, <2>2, <2>3 DEF NoneStranded, Latest
<1>17. LineageKept'
  <2> SUFFICES ASSUME NEW i \in Excs', exc'[i].state = "carried_forward"
               PROVE  /\ exc'[exc'[i].to].linked = exc'[i].linked /\ exc'[exc'[i].to].first = exc'[i].first
                      /\ build'[exc'[exc'[i].to].build].account = build'[exc'[i].build].account
                      /\ exc'[exc'[i].to].build > exc'[i].build
    BY DEF LineageKept
  <2>1. i \in Excs /\ exc[i].build \in Builds
    BY <1>6, <1>9, <1>11
  <2>2. CASE i \in O
    <3>1. exc'[exc'[i].to].build = n /\ exc'[i].build = exc[i].build
          /\ exc'[exc'[i].to].linked = exc'[i].linked /\ exc'[exc'[i].to].first = exc'[i].first
      BY <1>5, <2>1, <2>2
    <3>2. build'[exc[i].build].account = a
      BY <1>8, <1>10, <2>1, <2>2
    <3>3. n > exc[i].build
      BY <1>2, <2>1 DEF n
    <3> QED BY <1>8, <3>1, <3>2, <3>3
  <2>3. CASE i \notin O
    <3>1. exc'[i] = exc[i]
      BY <1>5, <2>1, <2>3
    <3>2. exc[i].to \in Excs
      BY <1>3, <2>1, <3>1
    <3> DEFINE s == exc[i].to
    <3>3. exc'[s].linked = exc[s].linked /\ exc'[s].first = exc[s].first /\ exc'[s].build = exc[s].build
      BY <1>5, <3>2
    <3>4. /\ exc[s].linked = exc[i].linked /\ exc[s].first = exc[i].first
          /\ build[exc[s].build].account = build[exc[i].build].account /\ exc[s].build > exc[i].build
      BY <1>1, <2>1, <3>1 DEF LineageKept
    <3>5. exc[s].build \in Builds
      BY <1>11, <3>2
    <3> QED BY <1>8, <2>1, <3>1, <3>3, <3>4, <3>5
  <2> QED BY <2>2, <2>3
<1>18. LinesUsedOnce'
  BY <1>1, <1>3, <1>4, <1>8 DEF LinesUsedOnce, Certified
<1>19. PresentedWhenMatched'
  <2>1. {g \in groups' : build'[g.build].status = "certified"} = {g \in groups : Certified(g.build)}
    BY <1>3, <1>4, <1>8
  <2> QED BY <1>1, <1>4, <2>1 DEF PresentedWhenMatched, TxnsIn, Certified
<1> QED BY <1>12, <1>13, <1>14, <1>15, <1>16, <1>17, <1>18, <1>19 DEF ReconDiscipline

\* A step that touches no build, group, exception or presentation keeps what is said of them.
LEMMA ReconUntouched ==
  ASSUME ReconDiscipline, UNCHANGED <<presented, build, groups, exc>>
  PROVE  /\ OfABuild' /\ OpenIsLast' /\ NoneStranded' /\ LineageKept' /\ LinesUsedOnce' /\ PresentedWhenMatched'
         /\ Builds' = Builds /\ Excs' = Excs
         /\ \A b : /\ Certified(b)' = Certified(b) /\ UnusedLines(b)' = UnusedLines(b)
                   /\ PriorsSettled(b)' = PriorsSettled(b)
<1>1. OfABuild /\ OpenIsLast /\ NoneStranded /\ LineageKept /\ LinesUsedOnce /\ PresentedWhenMatched
  BY DEF ReconDiscipline
<1>2. Builds' = Builds /\ Excs' = Excs
  BY DEF Builds, Excs
<1>3. \A b : Certified(b)' = Certified(b)
  BY DEF Certified
<1>4. \A b : UnusedLines(b)' = UnusedLines(b)
  BY DEF UnusedLines, GroupsOf, History, LinesIn, Certified
<1>5. \A b : PriorsSettled(b)' = PriorsSettled(b)
  BY <1>2 DEF PriorsSettled, OpenPriors, Certified
<1>6. OfABuild' /\ OpenIsLast'
  BY <1>1, <1>2 DEF OfABuild, OpenIsLast, Certified
<1>7. NoneStranded'
  BY <1>1, <1>2 DEF NoneStranded, Latest, Certified
<1>8. LineageKept'
  BY <1>1, <1>2 DEF LineageKept
<1>9. LinesUsedOnce' /\ PresentedWhenMatched'
  BY <1>1 DEF LinesUsedOnce, PresentedWhenMatched, TxnsIn, Certified
<1> QED BY <1>2, <1>3, <1>4, <1>5, <1>6, <1>7, <1>8, <1>9

\* A transaction or a line that arrives is of no build yet.
LEMMA ReconArrives ==
  ASSUME ReconParameters, ReconDiscipline,
         \/ \E t \in Txns : Post(t)
         \/ \E l \in Lines : IngestLine(l)
  PROVE  ReconDiscipline'
<1>1. UNCHANGED <<presented, build, groups, exc, exam, seen>>
  BY DEF Post, IngestLine
<1>2. TypeOK /\ ExaminedStands
  BY DEF ReconDiscipline
<1>3. Builds' = Builds /\ Excs' = Excs
  BY <1>1, ReconUntouched
<1>4. posted' \subseteq Txns /\ arrived' \subseteq Lines
  BY <1>2 DEF Post, IngestLine, TypeOK
<1>5. TypeOK'
  BY <1>1, <1>2, <1>3, <1>4 DEF TypeOK
<1>6. ExaminedStands'
  BY <1>1, <1>2, ReconUntouched DEF ExaminedStands
<1> QED BY <1>1, <1>5, <1>6, ReconUntouched DEF ReconDiscipline

\* An examination finds lines and priors settled of a build in progress, goes on, or ends.
LEMMA ReconExamines ==
  ASSUME ReconParameters, ReconDiscipline, NEW b \in Builds,
         ExamineCoverage(b) \/ ExamineEquation(b) \/ Refused(b)
  PROVE  ReconDiscipline'
<1>1. UNCHANGED <<posted, arrived, presented, build, groups, exc, seen>>
  BY DEF ExamineCoverage, ExamineEquation, Refused
<1>2. TypeOK /\ ExaminedStands
  BY DEF ReconDiscipline
<1>3. b \in 1..MaxBuilds
  BY <1>2, ReconTypes
<1>4. Builds' = Builds /\ Excs' = Excs
  BY <1>1, ReconUntouched
<1>5. PICK v \in {"none", "covered", "equal"} : exam' = [exam EXCEPT ![b] = v]
  BY DEF ExamineCoverage, ExamineEquation, Refused
<1>6. exam \in [1..MaxBuilds -> {"none", "covered", "equal"}]
  BY <1>2 DEF TypeOK
<1>7. exam' \in [1..MaxBuilds -> {"none", "covered", "equal"}]
  BY <1>5, <1>6
<1>8. TypeOK'
  BY <1>1, <1>2, <1>4, <1>7 DEF TypeOK
<1>9. exam'[b] # "none" => ~Certified(b) /\ UnusedLines(b) /\ PriorsSettled(b)
  <2>1. CASE ExamineCoverage(b)
    BY <2>1 DEF ExamineCoverage, InProgress, Certified
  <2>2. CASE ExamineEquation(b)
    BY <1>2, <1>3, <2>2 DEF ExamineEquation, ExaminedStands
  <2>3. CASE Refused(b)
    BY <1>3, <1>6, <2>3 DEF Refused
  <2> QED BY <2>1, <2>2, <2>3
<1>10. ASSUME NEW c \in 1..MaxBuilds, exam'[c] # "none"
       PROVE  c \in Builds /\ ~Certified(c) /\ UnusedLines(c) /\ PriorsSettled(c)
  <2>1. CASE c = b
    BY <1>9, <1>10, <2>1
  <2>2. CASE c # b
    <3>1. exam[c] # "none"
      BY <1>5, <1>6, <1>10, <2>2
    <3> QED BY <1>2, <3>1 DEF ExaminedStands
  <2> QED BY <2>1, <2>2
<1>11. ExaminedStands'
  BY <1>1, <1>4, <1>10, ReconUntouched DEF ExaminedStands
<1> QED BY <1>1, <1>8, <1>11, ReconUntouched DEF ReconDiscipline

\* Groups are made and dissolved in builds in progress: what is certified or under
\* examination has the same, or fewer.
LEMMA ReconGroups ==
  ASSUME ReconParameters, ReconDiscipline,
         \/ \E b \in Builds : \E ls \in SUBSET Lines, ts \in SUBSET Txns : CreateMatchGroup(b, ls, ts)
         \/ \E g \in groups : DissolveMatchGroup(g)
  PROVE  ReconDiscipline'
<1>1. UNCHANGED <<posted, arrived, presented, build, exc, exam, seen>>
  BY DEF CreateMatchGroup, DissolveMatchGroup
<1>2. /\ TypeOK /\ OfABuild /\ OpenIsLast /\ ExaminedStands
      /\ NoneStranded /\ LineageKept /\ LinesUsedOnce /\ PresentedWhenMatched
  BY DEF ReconDiscipline
<1>3. Builds' = Builds /\ Excs' = Excs
  BY <1>1 DEF Builds, Excs
<1>4. \A g \in groups : g.build \in Builds /\ g.lines \in SUBSET Lines /\ g.txns \in SUBSET Txns
  BY <1>2, ReconTypes
<1>5. /\ \A g \in groups' \ groups :
           /\ g \in [build : Builds, lines : SUBSET Lines, txns : SUBSET Txns] /\ InProgress(g.build)
           /\ \A l \in g.lines : AccountOf[l] = build[g.build].account
      /\ \A g \in groups \ groups' : InProgress(g.build)
  <2>1. CASE \E b \in Builds : \E ls \in SUBSET Lines, ts \in SUBSET Txns : CreateMatchGroup(b, ls, ts)
    <3>1. PICK b \in Builds, ls \in SUBSET Lines, ts \in SUBSET Txns : CreateMatchGroup(b, ls, ts)
      BY <2>1
    <3>2. groups' = groups \cup {[build |-> b, lines |-> ls, txns |-> ts]} /\ InProgress(b)
          /\ \A l \in ls : AccountOf[l] = build[b].account
      BY <3>1 DEF CreateMatchGroup
    <3> QED BY <3>2
  <2>2. CASE \E h \in groups : DissolveMatchGroup(h)
    <3>1. PICK h \in groups : DissolveMatchGroup(h)
      BY <2>2
    <3>2. groups' = groups \ {h} /\ InProgress(h.build)
      BY <3>1 DEF DissolveMatchGroup
    <3> QED BY <3>2
  <2> QED BY <2>1, <2>2
<1>6. \A b : Certified(b)' = Certified(b)
  BY <1>1 DEF Certified
<1>7. \A b : InProgress(b) => ~Certified(b) /\ exam[b] = "none"
  BY DEF InProgress, Certified
<1>8. {g \in groups' : Certified(g.build)} = {g \in groups : Certified(g.build)}
  BY <1>5, <1>7
<1>9. TypeOK'
  <2>1. groups \subseteq [build : Builds, lines : SUBSET Lines, txns : SUBSET Txns]
    BY <1>2 DEF TypeOK
  <2>2. groups' \subseteq [build : Builds', lines : SUBSET Lines, txns : SUBSET Txns]
    BY <1>3, <1>5, <2>1
  <2> QED BY <1>1, <1>2, <1>3, <2>2 DEF TypeOK
<1>10. OfABuild'
  <2>1. \A i \in Excs' : exc'[i].build \in Builds'
    BY <1>1, <1>2, <1>3 DEF OfABuild
  <2>2. ASSUME NEW g \in groups', NEW l \in g.lines
        PROVE  AccountOf[l] = build'[g.build].account
    BY <1>1, <1>2, <1>5 DEF OfABuild
  <2> QED BY <2>1, <2>2 DEF OfABuild
<1>11. OpenIsLast' /\ NoneStranded' /\ LineageKept'
  BY <1>1, <1>2, <1>3 DEF OpenIsLast, NoneStranded, Latest, LineageKept, Certified
<1>12. ExaminedStands'
  <2> SUFFICES ASSUME NEW b \in 1..MaxBuilds, exam'[b] # "none"
               PROVE  b \in Builds' /\ ~Certified(b)' /\ UnusedLines(b)' /\ PriorsSettled(b)'
    BY DEF ExaminedStands
  <2>1. b \in Builds /\ ~Certified(b) /\ UnusedLines(b) /\ PriorsSettled(b) /\ exam[b] # "none"
    BY <1>1, <1>2 DEF ExaminedStands
  <2>2. \A g \in groups' : g.build = b => g \in groups
    BY <1>5, <1>7, <2>1
  <2>3. GroupsOf(b)' \subseteq GroupsOf(b)
    BY <2>2 DEF GroupsOf
  <2>4. \A g \in groups' : Certified(g.build) => g \in groups
    BY <1>8
  <2>5. History(b)' \subseteq History(b)
    BY <1>1, <1>6, <2>4 DEF History, Certified
  <2>6. UnusedLines(b)'
    <3>1. LinesIn(GroupsOf(b))' \subseteq LinesIn(GroupsOf(b))
      BY <2>3 DEF LinesIn
    <3>2. LinesIn(History(b))' \subseteq LinesIn(History(b))
      BY <2>5 DEF LinesIn
    <3>3. LinesIn(GroupsOf(b)) \cap LinesIn(History(b)) = {}
      BY <2>1 DEF UnusedLines
    <3>4. LinesIn(GroupsOf(b))' \cap LinesIn(History(b))' = {}
      BY <3>1, <3>2, <3>3
    <3> QED BY <3>4 DEF UnusedLines
  <2>7. PriorsSettled(b)'
    BY <1>1, <1>3, <2>1 DEF PriorsSettled, OpenPriors, Certified
  <2> QED BY <1>3, <1>6, <2>1, <2>6, <2>7
<1>13. LinesUsedOnce'
  <2> SUFFICES ASSUME NEW g \in groups', NEW h \in groups', Certified(g.build), Certified(h.build),
                      g.build # h.build
               PROVE  g.lines \cap h.lines = {}
    BY <1>6 DEF LinesUsedOnce
  <2>1. g \in groups /\ h \in groups
    BY <1>8
  <2> QED BY <1>2, <2>1 DEF LinesUsedOnce
<1>14. PresentedWhenMatched'
  BY <1>1, <1>2, <1>6, <1>8 DEF PresentedWhenMatched, TxnsIn
<1> QED BY <1>9, <1>10, <1>11, <1>12, <1>13, <1>14 DEF ReconDiscipline

\* An exception is raised in a build in progress, or an open one is resolved there: what
\* is open on certified builds is the same or less, and what is carried stays carried.
LEMMA ReconExcepts ==
  ASSUME ReconParameters, ReconDiscipline, NEW b \in Builds,
         \/ \E x \in Linked : CreateException(b, x)
         \/ \E i \in Excs : ResolveException(b, i)
  PROVE  ReconDiscipline'
<1>1. UNCHANGED <<posted, arrived, presented, build, groups, exam, seen>> /\ InProgress(b)
  BY DEF CreateException, ResolveException
<1>2. /\ TypeOK /\ OfABuild /\ OpenIsLast /\ ExaminedStands
      /\ NoneStranded /\ LineageKept /\ LinesUsedOnce /\ PresentedWhenMatched
  BY DEF ReconDiscipline
<1>3. /\ Excs = 1..Len(exc) /\ Len(exc) \in Nat /\ b \in 1..MaxBuilds /\ MaxBuilds \in Nat
      /\ \A i \in Excs : exc[i] \in ExcRow
  BY <1>2, ReconTypes
<1>4. \A i \in Excs : /\ exc[i].state = "carried_forward" => exc[i].to \in Excs
                      /\ exc[i].state # "carried_forward" => exc[i].to = 0
                      /\ exc[i].state # "resolved" => exc[i].by = 0
  BY <1>2, ReconTypes
<1>5. Builds' = Builds /\ \A c : Certified(c)' = Certified(c)
  BY <1>1 DEF Builds, Certified
<1>6. /\ exc' \in Seq(ExcRow) /\ Excs \subseteq Excs'
      /\ \A i \in Excs :
           /\ exc'[i].first = exc[i].first /\ exc'[i].build = exc[i].build /\ exc'[i].linked = exc[i].linked
           /\ exc'[i].to = exc[i].to /\ exc'[i].by \in Nat
           /\ \/ exc'[i].state = exc[i].state /\ exc'[i].by = exc[i].by
              \/ exc[i].state = "open" /\ exc'[i].state = "resolved" /\ exc'[i].by # 0
      /\ \A i \in Excs' \ Excs :
           exc'[i].build = b /\ exc'[i].state = "open" /\ exc'[i].by = 0 /\ exc'[i].to = 0
  <2>0. exc \in Seq(ExcRow)
    BY <1>2 DEF TypeOK
  <2>1. CASE \E x \in Linked : CreateException(b, x)
    <3>1. PICK x \in Linked : exc' = Append(exc, Fresh(b, x))
      BY <2>1 DEF CreateException
    <3>2. PICK row : row = Fresh(b, x)
      OBVIOUS
    <3>3. row \in ExcRow /\ row.build = b /\ row.state = "open" /\ row.by = 0 /\ row.to = 0
      BY <1>3, <3>2, FreshRow
    <3>4. exc' = Append(exc, row)
      BY <3>1, <3>2
    <3>5. exc' \in Seq(ExcRow) /\ DOMAIN exc' = 1..(Len(exc) + 1) /\ exc'[Len(exc) + 1] = row
          /\ \A i \in 1..Len(exc) : exc'[i] = exc[i]
      BY <2>0, <3>3, <3>4
    <3>6. \A i \in Excs' \ Excs : i = Len(exc) + 1
      BY <1>3, <3>5 DEF Excs
    <3>7. \A i \in Excs : exc[i].by \in Nat
      BY <1>3 DEF ExcRow
    <3>8. Excs \subseteq Excs' /\ \A i \in Excs : exc'[i] = exc[i]
      BY <1>3, <3>5 DEF Excs
    <3>9. \A i \in Excs' \ Excs : exc'[i] = row
      BY <3>5, <3>6
    <3> QED BY <3>3, <3>5, <3>7, <3>8, <3>9
  <2>2. CASE \E i \in Excs : ResolveException(b, i)
    <3>1. PICK k \in Excs : exc' = [exc EXCEPT ![k].state = "resolved", ![k].by = b] /\ exc[k].state = "open"
      BY <2>2 DEF ResolveException
    <3>2. exc[k] \in ExcRow /\ b \in 0..MaxBuilds /\ b # 0
      BY <1>3
    <3>3. PICK row : row = [exc[k] EXCEPT !.state = "resolved", !.by = b]
      OBVIOUS
    <3>4. /\ row \in ExcRow /\ row.first = exc[k].first /\ row.build = exc[k].build /\ row.linked = exc[k].linked
          /\ row.to = exc[k].to /\ row.by = b /\ row.state = "resolved"
      BY <3>2, <3>3 DEF ExcRow
    <3>5. exc' = [exc EXCEPT ![k] = row]
      <4>1. k \in DOMAIN exc /\ exc = [i \in DOMAIN exc |-> exc[i]]
        BY <2>0 DEF Excs
      <4> QED BY <3>1, <3>3, <4>1
    <3>6. exc' \in Seq(ExcRow) /\ DOMAIN exc' = DOMAIN exc
      BY <2>0, <3>4, <3>5 DEF Excs
    <3>7. exc'[k] = row /\ \A i \in Excs : i # k => exc'[i] = exc[i]
      BY <3>5 DEF Excs
    <3>8. \A i \in Excs : exc[i].by \in Nat
      BY <1>3 DEF ExcRow
    <3>9. Excs' = Excs
      BY <3>6 DEF Excs
    <3>10. b \in Nat
      BY <1>3
    <3>11. ASSUME NEW i \in Excs
           PROVE  /\ exc'[i].first = exc[i].first /\ exc'[i].build = exc[i].build
                  /\ exc'[i].linked = exc[i].linked /\ exc'[i].to = exc[i].to /\ exc'[i].by \in Nat
                  /\ \/ exc'[i].state = exc[i].state /\ exc'[i].by = exc[i].by
                     \/ exc[i].state = "open" /\ exc'[i].state = "resolved" /\ exc'[i].by # 0
      <4>1. CASE i = k
        BY <3>1, <3>2, <3>4, <3>7, <3>10, <4>1
      <4>2. CASE i # k
        BY <3>7, <3>8, <4>2
      <4> QED BY <4>1, <4>2
    <3> QED BY <3>6, <3>9, <3>11
  <2> QED BY <2>1, <2>2
<1>7. \A i \in Excs' : exc'[i].state # "open" \/ ~Certified(exc'[i].build) \/ i \in Excs
  BY <1>1, <1>6 DEF InProgress, Certified
<1>8. \A i \in Excs' : exc'[i].state = "carried_forward" => i \in Excs /\ exc[i].state = "carried_forward"
  BY <1>6
<1>9. TypeOK'
  <2>1. ASSUME NEW i \in Excs'
        PROVE  /\ exc'[i].to \in IF exc'[i].state = "carried_forward" THEN Excs' ELSE {0}
               /\ (exc'[i].state = "resolved") = (exc'[i].by # 0)
    <3>1. CASE i \in Excs
      <4>1. /\ exc[i].to \in IF exc[i].state = "carried_forward" THEN Excs ELSE {0}
            /\ (exc[i].state = "resolved") = (exc[i].by # 0)
        BY <1>2, <3>1 DEF TypeOK
      <4>2. CASE exc'[i].state = exc[i].state /\ exc'[i].by = exc[i].by
        BY <1>6, <3>1, <4>1, <4>2
      <4>3. CASE exc[i].state = "open" /\ exc'[i].state = "resolved" /\ exc'[i].by # 0
        BY <1>6, <3>1, <4>1, <4>3
      <4> QED BY <1>6, <3>1, <4>2, <4>3
    <3>2. CASE i \notin Excs
      BY <1>6, <3>2
    <3> QED BY <3>1, <3>2
  <2> QED BY <1>1, <1>2, <1>5, <1>6, <2>1 DEF TypeOK
<1>10. OfABuild'
  BY <1>1, <1>2, <1>5, <1>6 DEF OfABuild
<1>11. OpenIsLast' /\ LinesUsedOnce' /\ PresentedWhenMatched'
  BY <1>1, <1>2, <1>5 DEF OpenIsLast, LinesUsedOnce, PresentedWhenMatched, TxnsIn, Certified
<1>12. ExaminedStands'
  <2> SUFFICES ASSUME NEW c \in 1..MaxBuilds, exam'[c] # "none"
               PROVE  c \in Builds' /\ ~Certified(c)' /\ UnusedLines(c)' /\ PriorsSettled(c)'
    BY DEF ExaminedStands
  <2>1. c \in Builds /\ ~Certified(c) /\ UnusedLines(c) /\ PriorsSettled(c)
    BY <1>1, <1>2 DEF ExaminedStands
  <2>2. UnusedLines(c)'
    BY <1>1, <1>2, <2>1, SameGroups
  <2>3. ASSUME NEW i \in Excs', exc'[i].state = "open", build'[exc'[i].build].status = "certified",
               build'[exc'[i].build].account = build'[c].account
        PROVE  FALSE
    <3>1. i \in Excs
      BY <1>1, <1>7, <2>3 DEF Certified
    <3>2. exc[i].state = "open" /\ exc'[i].build = exc[i].build
      BY <1>6, <2>3, <3>1
    <3>3. i \in OpenPriors(build[c].account)
      BY <1>1, <2>3, <3>1, <3>2 DEF OpenPriors, Certified
    <3> QED BY <2>1, <3>3 DEF PriorsSettled
  <2>4. PriorsSettled(c)'
    BY <2>3 DEF PriorsSettled, OpenPriors, Certified
  <2> QED BY <1>5, <2>1, <2>2, <2>4
<1>13. NoneStranded'
  <2> SUFFICES ASSUME NEW i \in Excs', exc'[i].state = "open", build'[exc'[i].build].status = "certified",
                      NEW c \in Builds', build'[c].status = "certified",
                      build'[c].account = build'[exc'[i].build].account
               PROVE  c <= exc'[i].build
    BY DEF NoneStranded, Latest, Certified
  <2>1. i \in Excs
    BY <1>1, <1>7 DEF Certified
  <2>2. exc'[i].build = exc[i].build /\ exc[i].state = "open"
    BY <1>6, <2>1
  <2> QED BY <1>1, <1>2, <1>5, <2>1, <2>2 DEF NoneStranded, Latest, Certified
<1>14. LineageKept'
  <2> SUFFICES ASSUME NEW i \in Excs', exc'[i].state = "carried_forward"
               PROVE  /\ exc'[exc'[i].to].linked = exc'[i].linked /\ exc'[exc'[i].to].first = exc'[i].first
                      /\ build'[exc'[exc'[i].to].build].account = build'[exc'[i].build].account
                      /\ exc'[exc'[i].to].build > exc'[i].build
    BY DEF LineageKept
  <2>1. i \in Excs /\ exc[i].state = "carried_forward" /\ exc[i].to \in Excs
    BY <1>4, <1>8
  <2>2. PICK s : s = exc[i].to
    OBVIOUS
  <2>3. /\ exc'[i].to = s /\ exc'[i].linked = exc[i].linked /\ exc'[i].first = exc[i].first
        /\ exc'[i].build = exc[i].build
        /\ exc'[s].linked = exc[s].linked /\ exc'[s].first = exc[s].first /\ exc'[s].build = exc[s].build
    BY <1>6, <2>1, <2>2
  <2>4. /\ exc[s].linked = exc[i].linked /\ exc[s].first = exc[i].first
        /\ build[exc[s].build].account = build[exc[i].build].account /\ exc[s].build > exc[i].build
    BY <1>2, <2>1, <2>2 DEF LineageKept
  <2> QED BY <1>1, <2>3, <2>4
<1> QED BY <1>9, <1>10, <1>11, <1>12, <1>13, <1>14 DEF ReconDiscipline

\* Certifying locks the account's last build: what it leaves open is its own, the lines of
\* its groups are in no certified group, and what it presents is what its groups cover.
LEMMA ReconCertifies ==
  ASSUME ReconParameters, ReconDiscipline, NEW b \in Builds, Certify(b)
  PROVE  ReconDiscipline'
<1>1. /\ exam[b] = "equal" /\ build' = [build EXCEPT ![b].status = "certified"]
      /\ presented' = presented \cup PresentedBy(b)
      /\ exam' = [exam EXCEPT ![b] = "none"] /\ seen' = [seen EXCEPT ![b] = posted]
      /\ UNCHANGED <<posted, arrived, groups, exc>>
  BY DEF Certify
<1>2. /\ TypeOK /\ OfABuild /\ OpenIsLast /\ ExaminedStands
      /\ NoneStranded /\ LineageKept /\ LinesUsedOnce /\ PresentedWhenMatched
  BY DEF ReconDiscipline
<1>3. /\ Builds = 1..Len(build) /\ Len(build) \in Nat /\ b \in 1..MaxBuilds
      /\ \A c \in Builds : build[c] \in BuildRow
      /\ \A g \in groups : g.build \in Builds
  BY <1>2, ReconTypes
<1>4. ~Certified(b) /\ UnusedLines(b) /\ PriorsSettled(b)
  BY <1>1, <1>2, <1>3 DEF ExaminedStands
<1>5. /\ build' \in Seq(BuildRow) /\ Len(build') = Len(build) /\ Builds' = Builds
      /\ \A c \in Builds : /\ build'[c].account = build[c].account
                           /\ (build'[c].status = "certified") = (c = b \/ Certified(c))
                           /\ c # b => build'[c] = build[c]
  <2>1. build \in Seq(BuildRow) /\ b \in DOMAIN build
    BY <1>2 DEF TypeOK, Builds
  <2>2. PICK row : row = [build[b] EXCEPT !.status = "certified"]
    OBVIOUS
  <2>3. row \in BuildRow /\ row.account = build[b].account /\ row.status = "certified"
    BY <1>3, <2>2 DEF BuildRow
  <2>4. build' = [build EXCEPT ![b] = row]
    BY <1>1, <2>1, <2>2
  <2>5. build' \in Seq(BuildRow) /\ Len(build') = Len(build) /\ DOMAIN build' = DOMAIN build
    BY <2>1, <2>3, <2>4
  <2>6. build'[b] = row /\ \A c \in Builds : c # b => build'[c] = build[c]
    BY <2>1, <2>4 DEF Builds
  <2>7. Builds' = Builds
    BY <2>5 DEF Builds
  <2>8. ASSUME NEW c \in Builds
        PROVE  /\ build'[c].account = build[c].account
               /\ (build'[c].status = "certified") = (c = b \/ Certified(c))
    <3>1. CASE c = b
      BY <2>3, <2>6, <3>1
    <3>2. CASE c # b
      BY <2>6, <3>2 DEF Certified
    <3> QED BY <3>1, <3>2
  <2> QED BY <2>5, <2>6, <2>7, <2>8
<1>6. Excs' = Excs /\ \A i \in Excs : exc[i].build \in Builds
  BY <1>1, <1>2 DEF Excs, OfABuild
<1>7. \A c \in Builds : build[c].account = build[b].account => c <= b
  BY <1>2, <1>4 DEF OpenIsLast
<1>8. TypeOK'
  <2>1. presented' \subseteq Instruments
    BY <1>1, <1>2 DEF TypeOK, PresentedBy
  <2>2. exam' \in [1..MaxBuilds -> {"none", "covered", "equal"}]
    BY <1>1, <1>2, <1>3 DEF TypeOK
  <2>3. seen' \in [1..MaxBuilds -> SUBSET Txns]
    BY <1>1, <1>2, <1>3 DEF TypeOK
  <2>4. Len(build) <= MaxBuilds
    BY <1>2 DEF TypeOK
  <2> QED BY <1>1, <1>2, <1>5, <1>6, <2>1, <2>2, <2>3, <2>4 DEF TypeOK
<1>9. OfABuild'
  <2>1. \A g \in groups : \A l \in g.lines : AccountOf[l] = build'[g.build].account
    BY <1>2, <1>3, <1>5 DEF OfABuild
  <2> QED BY <1>1, <1>5, <1>6, <2>1 DEF OfABuild
<1>10. OpenIsLast'
  BY <1>2, <1>5 DEF OpenIsLast, Certified
<1>11. ExaminedStands'
  <2> SUFFICES ASSUME NEW c \in 1..MaxBuilds, exam'[c] # "none"
               PROVE  c \in Builds' /\ ~Certified(c)' /\ UnusedLines(c)' /\ PriorsSettled(c)'
    BY DEF ExaminedStands
  <2>1. c # b /\ exam[c] # "none"
    <3>1. exam \in [1..MaxBuilds -> {"none", "covered", "equal"}]
      BY <1>2 DEF TypeOK
    <3> QED BY <1>1, <1>3, <3>1
  <2>2. c \in Builds /\ ~Certified(c) /\ UnusedLines(c) /\ PriorsSettled(c)
    BY <1>2, <2>1 DEF ExaminedStands
  <2>3. build[c].account # build[b].account
    <3>1. build[c].account = build[b].account => c <= b /\ b <= c
      BY <1>2, <1>7, <2>2 DEF OpenIsLast
    <3> QED BY <1>3, <2>1, <2>2, <3>1
  <2>4. GroupsOf(c)' = GroupsOf(c)
    BY <1>1 DEF GroupsOf
  <2>5. History(c)' = History(c)
    <3>1. \A g \in groups : /\ build'[g.build].account = build[g.build].account
                            /\ (build'[g.build].status = "certified") = (g.build = b \/ Certified(g.build))
      BY <1>3, <1>5
    <3>2. build'[c].account = build[c].account
      BY <1>5, <2>2
    <3>3. \A g \in groups : build[g.build].account = build[c].account => g.build # b
      BY <2>3
    <3> QED BY <1>1, <3>1, <3>2, <3>3 DEF History, Certified
  <2>6. UnusedLines(c)'
    BY <2>2, <2>4, <2>5 DEF UnusedLines, LinesIn
  <2>7. ASSUME NEW i \in Excs', exc'[i].state = "open", build'[exc'[i].build].status = "certified",
               build'[exc'[i].build].account = build'[c].account
        PROVE  FALSE
    <3>1. i \in Excs /\ exc'[i] = exc[i] /\ exc[i].build \in Builds /\ exc[i].state = "open"
      BY <1>1, <1>6, <2>7
    <3>2. build[exc[i].build].account = build[c].account
      BY <1>5, <2>2, <2>7, <3>1
    <3>3. Certified(exc[i].build)
      BY <1>5, <2>3, <2>7, <3>1, <3>2
    <3>4. i \in OpenPriors(build[c].account)
      BY <3>1, <3>2, <3>3 DEF OpenPriors
    <3> QED BY <2>2, <3>4 DEF PriorsSettled
  <2>8. PriorsSettled(c)'
    BY <2>7 DEF PriorsSettled, OpenPriors, Certified
  <2>9. ~Certified(c)'
    BY <1>5, <2>1, <2>2 DEF Certified
  <2> QED BY <1>5, <2>2, <2>6, <2>8, <2>9
<1>12. NoneStranded'
  <2> SUFFICES ASSUME NEW i \in Excs', exc'[i].state = "open", build'[exc'[i].build].status = "certified",
                      NEW c \in Builds', build'[c].status = "certified",
                      build'[c].account = build'[exc'[i].build].account
               PROVE  c <= exc'[i].build
    BY DEF NoneStranded, Latest, Certified
  <2>1. i \in Excs /\ exc'[i] = exc[i] /\ exc[i].build \in Builds /\ exc[i].state = "open" /\ c \in Builds
    BY <1>1, <1>5, <1>6
  <2>2. build[c].account = build[exc[i].build].account
    BY <1>5, <2>1
  <2>3. CASE exc[i].build = b
    BY <1>7, <2>1, <2>2, <2>3
  <2>4. CASE exc[i].build # b
    <3>1. Certified(exc[i].build)
      BY <1>5, <2>1, <2>4
    <3>2. build[exc[i].build].account # build[b].account
      <4>1. i \notin OpenPriors(build[b].account)
        BY <1>4 DEF PriorsSettled
      <4> QED BY <2>1, <3>1, <4>1 DEF OpenPriors
    <3>3. Certified(c)
      BY <1>5, <2>1, <2>2, <3>2
    <3> QED BY <1>2, <2>1, <2>2, <3>1, <3>3 DEF NoneStranded, Latest
  <2> QED BY <2>3, <2>4
<1>13. LineageKept'
  <2> SUFFICES ASSUME NEW i \in Excs, exc[i].state = "carried_forward"
               PROVE  /\ exc[exc[i].to].linked = exc[i].linked /\ exc[exc[i].to].first = exc[i].first
                      /\ build'[exc[exc[i].to].build].account = build'[exc[i].build].account
                      /\ exc[exc[i].to].build > exc[i].build
    BY <1>1, <1>6 DEF LineageKept
  <2>1. exc[i].to \in Excs
    BY <1>2, ReconTypes
  <2>2. /\ exc[exc[i].to].linked = exc[i].linked /\ exc[exc[i].to].first = exc[i].first
        /\ build[exc[exc[i].to].build].account = build[exc[i].build].account
        /\ exc[exc[i].to].build > exc[i].build
    BY <1>2 DEF LineageKept
  <2>3. exc[i].build \in Builds /\ exc[exc[i].to].build \in Builds
    BY <1>6, <2>1
  <2> QED BY <1>5, <2>2, <2>3
<1>14. ASSUME NEW g \in groups, NEW h \in groups, g.build = b, h.build # b, Certified(h.build)
       PROVE  g.lines \cap h.lines = {}
  <2>1. CASE build[h.build].account = build[b].account
    <3>1. g \in GroupsOf(b) /\ h \in History(b)
      BY <1>14, <2>1 DEF GroupsOf, History
    <3>2. g.lines \subseteq LinesIn(GroupsOf(b)) /\ h.lines \subseteq LinesIn(History(b))
      BY <3>1 DEF LinesIn
    <3> QED BY <1>4, <3>2 DEF UnusedLines
  <2>2. CASE build[h.build].account # build[b].account
    <3>1. \A l \in g.lines : AccountOf[l] = build[b].account
      BY <1>2, <1>14 DEF OfABuild
    <3>2. \A l \in h.lines : AccountOf[l] = build[h.build].account
      BY <1>2 DEF OfABuild
    <3> QED BY <2>2, <3>1, <3>2
  <2> QED BY <2>1, <2>2
<1>15. LinesUsedOnce'
  <2> SUFFICES ASSUME NEW g \in groups, NEW h \in groups, build'[g.build].status = "certified",
                      build'[h.build].status = "certified", g.build # h.build
               PROVE  g.lines \cap h.lines = {}
    BY <1>1 DEF LinesUsedOnce, Certified
  <2>1. (g.build = b \/ Certified(g.build)) /\ (h.build = b \/ Certified(h.build))
    BY <1>3, <1>5
  <2>2. CASE g.build = b
    BY <1>14, <2>1, <2>2
  <2>3. CASE h.build = b
    <3>1. h.lines \cap g.lines = {}
      BY <1>14, <2>1, <2>3
    <3> QED BY <3>1
  <2>4. CASE g.build # b /\ h.build # b
    BY <1>2, <2>1, <2>4 DEF LinesUsedOnce
  <2> QED BY <2>2, <2>3, <2>4
<1>16. PresentedWhenMatched'
  <2>1. {g \in groups : build'[g.build].status = "certified"} = {g \in groups : Certified(g.build)} \cup GroupsOf(b)
    BY <1>3, <1>5 DEF GroupsOf
  <2>2. presented = Instruments \cap TxnsIn({g \in groups : Certified(g.build)})
    BY <1>2 DEF PresentedWhenMatched
  <2>3. TxnsIn({g \in groups : Certified(g.build)} \cup GroupsOf(b))
          = TxnsIn({g \in groups : Certified(g.build)}) \cup TxnsIn(GroupsOf(b))
    BY DEF TxnsIn
  <2>4. presented' = Instruments \cap TxnsIn({g \in groups : build'[g.build].status = "certified"})
    BY <1>1, <2>1, <2>2, <2>3 DEF PresentedBy
  <2> QED BY <1>1, <2>4 DEF PresentedWhenMatched, TxnsIn, Certified
<1> QED BY <1>8, <1>9, <1>10, <1>11, <1>12, <1>13, <1>15, <1>16 DEF ReconDiscipline

\* The inductive invariant: a build that is not certified is its account's last, and
\* what its examination found of lines and priors stands until it certifies.
THEOREM ReconStaysInStep == ReconParameters /\ Spec => []ReconDiscipline
<1> SUFFICES ASSUME ReconParameters PROVE Spec => []ReconDiscipline
  OBVIOUS
<1>1. Init => ReconDiscipline
  <2> SUFFICES ASSUME Init PROVE ReconDiscipline
    OBVIOUS
  <2>1. Builds = {} /\ Excs = {} /\ groups = {} /\ Len(build) = 0 /\ MaxBuilds \in Nat
    BY DEF Init, Builds, Excs, ReconParameters, DataAssumption
  <2>2. TypeOK
    BY <2>1 DEF Init, TypeOK
  <2>3. OfABuild /\ OpenIsLast /\ NoneStranded /\ LineageKept /\ LinesUsedOnce
    BY <2>1 DEF OfABuild, OpenIsLast, NoneStranded, LineageKept, LinesUsedOnce
  <2>4. ExaminedStands
    BY DEF Init, ExaminedStands
  <2>5. PresentedWhenMatched
    BY <2>1 DEF Init, PresentedWhenMatched, TxnsIn
  <2> QED BY <2>2, <2>3, <2>4, <2>5 DEF ReconDiscipline
<1>2. ReconDiscipline /\ [Next]_vars => ReconDiscipline'
  <2> SUFFICES ASSUME ReconDiscipline, [Next]_vars PROVE ReconDiscipline'
    OBVIOUS
  <2>1. CASE (\E t \in Txns : Post(t)) \/ (\E l \in Lines : IngestLine(l))
    BY <2>1, ReconArrives
  <2>2. ASSUME NEW a \in Accounts, NEW d \in Dates, NEW x \in Balances, BuildReconciliation(a, d, x)
        PROVE  ReconDiscipline'
    BY <2>2, ReconBuilds
  <2>3. ASSUME NEW b \in Builds, \E ls \in SUBSET Lines, ts \in SUBSET Txns : CreateMatchGroup(b, ls, ts)
        PROVE  ReconDiscipline'
    BY <2>3, ReconGroups
  <2>4. CASE \E g \in groups : DissolveMatchGroup(g)
    BY <2>4, ReconGroups
  <2>5. ASSUME NEW b \in Builds,
               (\E x \in Linked : CreateException(b, x)) \/ (\E i \in Excs : ResolveException(b, i))
        PROVE  ReconDiscipline'
    BY <2>5, ReconExcepts
  <2>6. ASSUME NEW b \in Builds, ExamineCoverage(b) \/ ExamineEquation(b) \/ Refused(b)
        PROVE  ReconDiscipline'
    BY <2>6, ReconExamines
  <2>7. ASSUME NEW b \in Builds, Certify(b)
        PROVE  ReconDiscipline'
    BY <2>7, ReconCertifies
  <2>8. CASE UNCHANGED vars
    BY <2>8, ReconUntouched DEF vars, ReconDiscipline, TypeOK, ExaminedStands
  <2> QED BY <2>1, <2>2, <2>3, <2>4, <2>5, <2>6, <2>7, <2>8 DEF Next
<1> QED BY <1>1, <1>2, PTL DEF Spec

\* An exception a certified build leaves open is never stranded behind a later one.
THEOREM NothingLeftBehind == ReconParameters /\ Spec => []NoneStranded
BY ReconStaysInStep, PTL DEF ReconDiscipline

\* A carried exception stays the same item of the same account and ages from its first build.
THEOREM ExceptionsAge == ReconParameters /\ Spec => []LineageKept
BY ReconStaysInStep, PTL DEF ReconDiscipline

\* A statement line is in one certified build's groups only, whatever was certified between
\* the statements of its certification.
THEOREM LinesExplainOnce == ReconParameters /\ Spec => []LinesUsedOnce
BY ReconStaysInStep, PTL DEF ReconDiscipline

\* An instrument is presented exactly when a certified group covers its payment.
THEOREM PresentedAtTheBank == ReconParameters /\ Spec => []PresentedWhenMatched
BY ReconStaysInStep, PTL DEF ReconDiscipline
=============================================================================
