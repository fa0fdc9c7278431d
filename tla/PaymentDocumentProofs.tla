------------------------ MODULE PaymentDocumentProofs ------------------------
(***************************************************************************)
(* For any documents, sessions and people: a document's money leaves once,  *)
(* under as many approvals as were asked for, and every block has its       *)
(* refusal on file.  With numbers that hold their counter, an entitlement   *)
(* is never exceeded.                                                      *)
(***************************************************************************)
EXTENDS PaymentDocument, SumProofs, SequenceTheorems

-----------------------------------------------------------------------------
(* Rows and sums. *)

\* What is consumed of an entitlement depends on the executed documents alone.
LEMMA ConsumedSame ==
  ASSUME TypeOK,
         \A d \in Docs : /\ doc'[d].state = "executed" <=> doc[d].state = "executed"
                         /\ doc[d].state = "executed" => /\ doc'[d].ent = doc[d].ent
                                                         /\ doc'[d].amount = doc[d].amount
  PROVE  \A e : Consumed(doc', e) = Consumed(doc, e)
<1> SUFFICES ASSUME NEW e PROVE Consumed(doc', e) = Consumed(doc, e)
  OBVIOUS
<1> DEFINE f == [d \in Docs |-> doc[d].amount]
           g == [d \in Docs |-> doc'[d].amount]
           S == Executed(doc, e)
<1>1. Executed(doc', e) = S
  BY DEF Executed
<1>2. IsFiniteSet(S) /\ \A d \in S : f[d] = g[d]
  BY FiniteAssumption, FS_Subset DEF Executed
<1>3. SumFunctionOnSet(g, S) = SumFunctionOnSet(f, S)
  <2> HIDE DEF f, g, S
  <2> QED BY <1>2, SumAgrees
<1> QED BY <1>1, <1>3 DEF Consumed

\* Executed amounts add up to a natural number.
LEMMA ConsumedType ==
  ASSUME TypeOK, NEW e
  PROVE  Consumed(doc, e) \in Nat
<1> DEFINE f == [d \in Docs |-> doc[d].amount]
           S == Executed(doc, e)
<1>1. IsFiniteSet(S) /\ \A d \in S : f[d] \in Nat
  BY FiniteAssumption, FS_Subset DEF Executed, TypeOK, DocRow
<1>2. SumFunctionOnSet(f, S) \in Nat
  <2> HIDE DEF f, S
  <2> QED BY <1>1, SumNotNegative
<1> QED BY <1>2 DEF Consumed

\* Executing a document adds its amount to what its entitlement has consumed, and leaves
\* the other entitlements alone.
LEMMA ConsumedGrows ==
  ASSUME TypeOK, NEW d \in Docs, doc[d].state # "executed", Moves(d, "executed")
  PROVE  \A e : Consumed(doc', e) = Consumed(doc, e) + (IF doc[d].ent = e THEN doc[d].amount ELSE 0)
<1> SUFFICES ASSUME NEW e
             PROVE  Consumed(doc', e) = Consumed(doc, e) + (IF doc[d].ent = e THEN doc[d].amount ELSE 0)
  OBVIOUS
<1> DEFINE f == [k \in Docs |-> doc[k].amount]
           g == [k \in Docs |-> doc'[k].amount]
           S == Executed(doc, e)
           T == Executed(doc', e)
<1>1. \A k \in Docs : doc'[k] = IF k = d THEN [doc[d] EXCEPT !.state = "executed"] ELSE doc[k]
  BY DEF Moves, TypeOK
<1>2. \A k \in Docs : doc[k] \in DocRow
  BY DEF TypeOK
<1>3. /\ doc'[d].state = "executed" /\ doc'[d].ent = doc[d].ent /\ doc'[d].amount = doc[d].amount
      /\ doc[d].amount \in Nat
  BY <1>1, <1>2 DEF DocRow
<1>4. T = IF doc[d].ent = e THEN S \cup {d} ELSE S
  BY <1>1, <1>3 DEF Executed
<1>5. d \notin S /\ IsFiniteSet(S) /\ S \subseteq Docs
  BY FiniteAssumption, FS_Subset DEF Executed
<1>6. \A k \in Docs : f[k] = g[k] /\ f[k] \in Nat
  BY <1>1, <1>2, <1>3 DEF DocRow
<1>7. f[d] = doc[d].amount
  OBVIOUS
<1>8. Consumed(doc, e) = SumFunctionOnSet(f, S) /\ Consumed(doc', e) = SumFunctionOnSet(g, T)
  BY DEF Consumed
<1>9. IsFiniteSet(T) /\ T \subseteq Docs
  BY FiniteAssumption, FS_Subset DEF Executed
<1>10. SumFunctionOnSet(f, S) \in Int
  <2> HIDE DEF f, S
  <2> QED BY <1>5, <1>6, SumType
<1>11. SumFunctionOnSet(g, T) = SumFunctionOnSet(f, T)
  <2> HIDE DEF f, g, T
  <2> QED BY <1>6, <1>9, SumAgrees
<1>12. doc[d].ent = e => SumFunctionOnSet(f, T) = f[d] + SumFunctionOnSet(f, S)
  <2> SUFFICES ASSUME doc[d].ent = e PROVE SumFunctionOnSet(f, T) = f[d] + SumFunctionOnSet(f, S)
    OBVIOUS
  <2>1. d \in T /\ T \ {d} = S
    BY <1>4, <1>5
  <2>2. \A k \in T : f[k] \in Int
    BY <1>6, <1>9
  <2> HIDE DEF f, S, T
  <2>3. SumFunctionOnSet(f, T) = f[d] + SumFunctionOnSet(f, T \ {d})
    BY <1>9, <2>1, <2>2, SumTakesOut
  <2> QED BY <2>1, <2>3
<1> HIDE DEF f, g, S, T
<1>13. CASE doc[d].ent = e
  BY <1>3, <1>7, <1>8, <1>10, <1>11, <1>12, <1>13
<1>14. CASE doc[d].ent # e
  BY <1>4, <1>8, <1>10, <1>11, <1>14
<1> QED BY <1>13, <1>14

\* Releasing keeps what others hold; so does taking a row nobody holds.
LEMMA LockFacts ==
  ASSUME TypeOK, NEW s \in Sessions
  PROVE  /\ Releases(s) =>
              /\ lock' \in [Lockables -> Sessions \cup {None}]
              /\ \A t \in Sessions \ {s} : \A x \in Lockables : lock[x] = t => lock'[x] = t
         /\ \A y \in Lockables : Waits(y) /\ Keeps(s, y) =>
              /\ lock' \in [Lockables -> Sessions \cup {None}]
              /\ \A t \in Sessions : \A x \in Lockables : lock[x] = t => lock'[x] = t
              /\ lock'[y] = s
BY NoneAssumption DEF TypeOK, Releases, Waits, Keeps

\* A job's next step is a job, and no other session's.
LEMMA StepFacts ==
  ASSUME TypeOK, NEW s \in Sessions
  PROVE  /\ NoJob \in Job
         /\ Ends(s) => /\ job' \in [Sessions -> Job] /\ job'[s] = NoJob
                       /\ \A t \in Sessions \ {s} : job'[t] = job[t]
         /\ \A step \in {"idle", "locked", "loaded", "ledger", "counter", "posted", "marked",
                         "refused", "captured", "checked"} : Steps(s, step) =>
              /\ job' \in [Sessions -> Job]
              /\ job'[s].step = step /\ job'[s].on = job[s].on
              /\ \A t \in Sessions \ {s} : job'[t] = job[t]
<1>1. NoJob \in Job
  BY DEF NoJob, Job
<1>2. job \in [Sessions -> Job] /\ job[s] \in Job
  BY DEF TypeOK
<1>3. Ends(s) => /\ job' \in [Sessions -> Job] /\ job'[s] = NoJob
                 /\ \A t \in Sessions \ {s} : job'[t] = job[t]
  BY <1>1, <1>2 DEF Ends
<1>4. ASSUME NEW step \in {"idle", "locked", "loaded", "ledger", "counter", "posted", "marked",
                           "refused", "captured", "checked"}, Steps(s, step)
      PROVE  /\ job' \in [Sessions -> Job]
             /\ job'[s].step = step /\ job'[s].on = job[s].on
             /\ \A t \in Sessions \ {s} : job'[t] = job[t]
  <2>1. [job[s] EXCEPT !.step = step] \in Job
    BY <1>2 DEF Job
  <2>2. job' = [job EXCEPT ![s] = [job[s] EXCEPT !.step = step]]
    BY <1>4, <1>2 DEF Steps
  <2>3. [job[s] EXCEPT !.step = step].step = step /\ [job[s] EXCEPT !.step = step].on = job[s].on
    BY <1>2 DEF Job
  <2> QED BY <1>2, <2>1, <2>2, <2>3
<1> QED BY <1>1, <1>3, <1>4

-----------------------------------------------------------------------------
(* What the others hold. *)

\* A session that took no step, and lost no lock.
Unmoved(t) == job'[t] = job[t] /\ \A x \in Lockables : lock[x] = t => lock'[x] = t

\* Its rows stand: documents keep what they were drafted with, those it has locked their
\* state and approvals too, its ledger's funds cover what they covered, and while it
\* holds the number nothing more is consumed.
Stand(t) ==
  /\ \A d \in Docs : doc[d].state # "none" =>
       /\ doc'[d].state # "none" /\ doc'[d].ledger = doc[d].ledger
       /\ doc'[d].amount = doc[d].amount /\ doc'[d].ent = doc[d].ent
  /\ \A d \in Docs : doc[d].state # "none" /\ lock[d] = t =>
       doc'[d].state = doc[d].state /\ approvals'[d] = approvals[d]
  /\ \A l \in Ledgers : lock[l] = t => funds'[l] = funds[l]
  /\ Gapless /\ lock[Counter] = t => \A e \in Entitlements : Consumed(doc', e) = Consumed(doc, e)

\* Then all its checks still hold.
LEMMA UnmovedHolds ==
  ASSUME Discipline, NEW t \in Sessions, Unmoved(t), Stand(t)
  PROVE  HeldBy(t)'
<1> DEFINE d == job[t].on
<1>1. HeldBy(t) /\ job'[t] = job[t] /\ TypeOK /\ Counter \in Lockables
  BY DEF Discipline, Unmoved, Lockables
<1>2. CASE job[t].step \in {"idle", "checked"}
  BY <1>1, <1>2 DEF HeldBy
<1>3. CASE job[t].step \notin {"idle", "checked"}
  <2>1. d \in Docs /\ doc[d].state # "none" /\ d \in Lockables
    BY <1>1, <1>3 DEF HeldBy, Lockables
  <2>2. /\ doc'[d].state # "none" /\ doc'[d].ledger = doc[d].ledger
        /\ doc'[d].amount = doc[d].amount /\ doc'[d].ent = doc[d].ent
    BY <2>1 DEF Stand
  <2>3. doc[d].ledger \in Ledgers /\ doc[d].ledger \in Lockables
    BY <2>1 DEF Discipline, DocSound, Lockables
  <2>4. lock[d] = t => /\ lock'[d] = t /\ doc'[d].state = doc[d].state
                       /\ approvals'[d] = approvals[d]
    BY <2>1 DEF Stand, Unmoved
  <2>5. lock[doc[d].ledger] = t => /\ lock'[doc[d].ledger] = t
                                   /\ funds'[doc[d].ledger] = funds[doc[d].ledger]
    BY <2>3 DEF Stand, Unmoved
  <2>6. lock[Counter] = t => lock'[Counter] = t
    BY <1>1 DEF Unmoved
  <2>7. doc[d].ent # None => doc[d].ent \in Entitlements
    BY <1>1, <2>1 DEF TypeOK, DocRow
  <2>8. job[t].step \in {"posted", "marked"} => EnoughFunds(d)'
    BY <1>1, <2>2, <2>5 DEF HeldBy, EnoughFunds
  <2>9. job[t].step = "marked" /\ Gapless /\ doc[d].ent # None =>
          Consumed(doc', doc'[d].ent) + doc'[d].amount <= EntitledTo[doc'[d].ent]
    <3> SUFFICES ASSUME job[t].step = "marked", Gapless, doc[d].ent # None
                 PROVE  Consumed(doc', doc'[d].ent) + doc'[d].amount <= EntitledTo[doc'[d].ent]
      OBVIOUS
    <3>1. lock[Counter] = t /\ Consumed(doc, doc[d].ent) + doc[d].amount <= EntitledTo[doc[d].ent]
      BY <1>1 DEF HeldBy
    <3> QED BY <2>2, <2>7, <3>1 DEF Stand
  <2> QED BY <1>1, <2>1, <2>2, <2>4, <2>5, <2>6, <2>8, <2>9 DEF HeldBy
<1> QED BY <1>2, <1>3
-----------------------------------------------------------------------------
(* Steps that change no document. *)

\* Fewer captures are covered by the same refusals.
LEMMA FewerCaptures ==
  ASSUME CapturesCover, TypeOK, NEW d \in Docs, Capturing(d)' \subseteq Capturing(d),
         blocks'[d] = blocks[d], refusals'[d] = refusals[d]
  PROVE  blocks'[d] + Cardinality(Capturing(d)') <= refusals'[d]
<1>1. IsFiniteSet(Capturing(d))
  BY FiniteAssumption, FS_Subset DEF Capturing
<1>2. /\ Cardinality(Capturing(d)) \in Nat /\ Cardinality(Capturing(d)') \in Nat
      /\ Cardinality(Capturing(d)') <= Cardinality(Capturing(d))
  BY <1>1, FS_Subset, FS_CardinalityType
<1>3. blocks[d] \in Nat /\ refusals[d] \in Nat
  BY DEF TypeOK
<1> QED BY <1>2, <1>3 DEF CapturesCover

\* A step that leaves the documents alone, and whose session still holds what it needs.
LEMMA CalmStep ==
  ASSUME Discipline, TypeOK', UNCHANGED <<doc, approvals, paid, refusals, blocks>>,
         \A t \in Sessions : \A l \in Ledgers : lock[l] = t => funds'[l] = funds[l],
         \A t \in Sessions : Unmoved(t) \/ (HeldBy(t)' /\ job'[t].step # "captured")
  PROVE  Discipline'
<1>1. \A t \in Sessions : Stand(t)
  BY DEF Stand
<1>2. \A t \in Sessions : HeldBy(t)'
  BY <1>1, UnmovedHolds
<1>3. \A d \in Docs : DocSound(d)'
  BY DEF Discipline, DocSound
<1>4. PaidWhenExecuted' /\ DualControl' /\ (Gapless => HeadroomKept')
  BY DEF Discipline, PaidWhenExecuted, DualControl, HeadroomKept
<1>5. \A d \in Docs : Capturing(d)' \subseteq Capturing(d)
  BY DEF Capturing, Unmoved
<1>6. CapturesCover'
  BY <1>5, FewerCaptures DEF CapturesCover, Discipline
<1> QED BY <1>2, <1>3, <1>4, <1>6 DEF Discipline

\* A session selects a document FOR UPDATE and sees its state and its approvals.
LEMMA TakeKeeps ==
  ASSUME Discipline, NEW s \in Sessions, NEW who \in Staff, NEW d \in Docs,
         NEW op \in {"submit", "authorise", "reject", "cancel", "resubmit"},
         Take(s, who, op, d)
  PROVE  Discipline'
<1> DEFINE j == [step |-> "locked", op |-> op, who |-> who, on |-> d,
                 seen |-> <<doc[d].state, approvals[d]>>]
<1>1. /\ TypeOK /\ UNCHANGED rows /\ job' = [job EXCEPT ![s] = j] /\ doc[d].state # "none"
      /\ Waits(d) /\ Keeps(s, d) /\ d \in Lockables
  BY DEF Discipline, Take, DocLock, Lockables
<1>2. j \in Job
  <2>1. doc[d].state \in States /\ approvals[d] \in Seq(Staff)
    BY <1>1 DEF TypeOK, DocRow
  <2> QED BY <2>1 DEF Job
<1>3. /\ job' \in [Sessions -> Job] /\ job'[s] = j
      /\ \A t \in Sessions \ {s} : job'[t] = job[t]
  <2> HIDE DEF j
  <2> QED BY <1>1, <1>2 DEF TypeOK
<1>4. /\ lock' \in [Lockables -> Sessions \cup {None}] /\ lock'[d] = s
      /\ \A t \in Sessions : \A x \in Lockables : lock[x] = t => lock'[x] = t
  BY <1>1, LockFacts
<1>5. TypeOK'
  BY <1>1, <1>3, <1>4 DEF TypeOK, rows
<1>6. HeldBy(s)'
  BY <1>1, <1>3, <1>4 DEF HeldBy, rows
<1>7. \A t \in Sessions : Unmoved(t) \/ (HeldBy(t)' /\ job'[t].step # "captured")
  BY <1>3, <1>4, <1>6 DEF Unmoved
<1> QED BY <1>1, <1>5, <1>7, CalmStep DEF rows

\* An execution loads its document, locks its ledger, draws its number, posts, and locks
\* the document; a check refuses it, or it ends.
LEMMA CalmSessionStep ==
  ASSUME Discipline, NEW s \in Sessions, UNCHANGED rows,
         job' \in [Sessions -> Job], \A t \in Sessions \ {s} : job'[t] = job[t],
         lock' \in [Lockables -> Sessions \cup {None}],
         \A t \in Sessions \ {s} : \A x \in Lockables : lock[x] = t => lock'[x] = t,
         HeldBy(s)', job'[s].step # "captured"
  PROVE  Discipline'
<1>1. TypeOK'
  BY DEF Discipline, TypeOK, rows
<1>2. \A t \in Sessions : Unmoved(t) \/ (HeldBy(t)' /\ job'[t].step # "captured")
  BY DEF Unmoved
<1> QED BY <1>1, <1>2, CalmStep DEF rows

\* An execution reads its document, in a transaction of its own.
LEMMA LoadKeeps ==
  ASSUME Discipline, NEW s \in Sessions, NEW d \in Docs, Load(s, d)
  PROVE  Discipline'
<1> DEFINE j == [NoJob EXCEPT !.step = "loaded", !.op = "execute", !.on = d]
<1>1. j \in Job /\ j.step = "loaded" /\ j.on = d
  BY DEF NoJob, Job
<1>2. UNCHANGED <<rows, lock>> /\ job' = [job EXCEPT ![s] = j] /\ doc[d].state = "authorised"
  BY DEF Load
<1>3. /\ job' \in [Sessions -> Job] /\ job'[s] = j
      /\ \A t \in Sessions \ {s} : job'[t] = job[t]
  <2> HIDE DEF j
  <2> QED BY <1>1, <1>2 DEF Discipline, TypeOK
<1>4. HeldBy(s)'
  BY <1>1, <1>2, <1>3 DEF HeldBy, rows
<1> QED BY <1>1, <1>2, <1>3, <1>4, CalmSessionStep DEF Discipline, TypeOK

\* The ledger of the document is locked before anything is checked on it.
LEMMA LockLedgerKeeps ==
  ASSUME Discipline, NEW s \in Sessions, LockLedger(s)
  PROVE  Discipline'
<1> DEFINE d == job[s].on
<1>1. /\ d \in Docs /\ doc[d].state # "none" /\ doc[d].ledger \in Ledgers
      /\ doc[d].ledger \in Lockables
  BY DEF Discipline, LockLedger, HeldBy, DocSound, Lockables
<1>2. TypeOK /\ Waits(doc[d].ledger) /\ Keeps(s, doc[d].ledger) /\ Steps(s, "ledger") /\ UNCHANGED rows
  BY DEF Discipline, LockLedger
<1>3. /\ job' \in [Sessions -> Job] /\ job'[s].step = "ledger" /\ job'[s].on = d
      /\ \A t \in Sessions \ {s} : job'[t] = job[t]
  BY <1>2, StepFacts
<1>4. /\ lock' \in [Lockables -> Sessions \cup {None}] /\ lock'[doc[d].ledger] = s
      /\ \A t \in Sessions : \A x \in Lockables : lock[x] = t => lock'[x] = t
  BY <1>1, <1>2, LockFacts
<1>5. HeldBy(s)'
  BY <1>1, <1>2, <1>3, <1>4 DEF HeldBy, rows
<1> QED BY <1>2, <1>3, <1>4, <1>5, CalmSessionStep

\* The number's counter, if it is held, is held to the end.
LEMMA NumberKeeps ==
  ASSUME Discipline, NEW s \in Sessions, Number(s)
  PROVE  Discipline'
<1> DEFINE d == job[s].on
<1>1. /\ d \in Docs /\ doc[d].state # "none" /\ doc[d].ledger \in Lockables
      /\ lock[doc[d].ledger] = s /\ Counter \in Lockables
  BY DEF Discipline, Number, HeldBy, DocSound, Lockables
<1>2. TypeOK /\ HoldsNumber(s) /\ Steps(s, "counter") /\ UNCHANGED rows
  BY DEF Discipline, Number
<1>3. /\ job' \in [Sessions -> Job] /\ job'[s].step = "counter" /\ job'[s].on = d
      /\ \A t \in Sessions \ {s} : job'[t] = job[t]
  BY <1>2, StepFacts
<1>4. /\ lock' \in [Lockables -> Sessions \cup {None}]
      /\ \A t \in Sessions : \A x \in Lockables : lock[x] = t => lock'[x] = t
      /\ Gapless => lock'[Counter] = s
  BY <1>1, <1>2, LockFacts DEF HoldsNumber, TypeOK
<1>5. HeldBy(s)'
  BY <1>1, <1>2, <1>3, <1>4 DEF HeldBy, rows
<1> QED BY <1>2, <1>3, <1>4, <1>5, CalmSessionStep

\* A refusal lets go of everything but the document it is about.
LEMMA RefuseKeeps ==
  ASSUME Discipline, NEW s \in Sessions, Refuse(s), job[s].step \notin {"idle", "checked"}
  PROVE  Discipline'
<1> DEFINE d == job[s].on
<1>1. d \in Docs /\ doc[d].state # "none"
  BY DEF Discipline, HeldBy
<1>2. TypeOK /\ Releases(s) /\ Steps(s, "refused") /\ UNCHANGED rows
  BY DEF Discipline, Refuse
<1>3. /\ job' \in [Sessions -> Job] /\ job'[s].step = "refused" /\ job'[s].on = d
      /\ \A t \in Sessions \ {s} : job'[t] = job[t]
  BY <1>2, StepFacts
<1>4. /\ lock' \in [Lockables -> Sessions \cup {None}]
      /\ \A t \in Sessions \ {s} : \A x \in Lockables : lock[x] = t => lock'[x] = t
  BY <1>2, LockFacts
<1>5. HeldBy(s)'
  BY <1>1, <1>2, <1>3 DEF HeldBy, rows
<1> QED BY <1>2, <1>3, <1>4, <1>5, CalmSessionStep

\* A posting is made only of money the ledger has.
LEMMA PostKeeps ==
  ASSUME Discipline, NEW s \in Sessions, Post(s)
  PROVE  Discipline'
<1> DEFINE d == job[s].on
<1>1. job[s].step = "counter" /\ TypeOK /\ HeldBy(s)
  BY DEF Discipline, Post
<1>2. CASE EnoughFunds(d)
  <2>1. Steps(s, "posted") /\ UNCHANGED <<rows, lock>>
    BY <1>2 DEF Post
  <2>2. /\ job' \in [Sessions -> Job] /\ job'[s].step = "posted" /\ job'[s].on = d
        /\ \A t \in Sessions \ {s} : job'[t] = job[t]
    BY <1>1, <2>1, StepFacts
  <2>3. HeldBy(s)'
    BY <1>1, <1>2, <2>1, <2>2 DEF HeldBy, rows, EnoughFunds
  <2> QED BY <1>1, <2>1, <2>2, <2>3, CalmSessionStep DEF TypeOK
<1>3. CASE ~EnoughFunds(d)
  BY <1>1, <1>3, RefuseKeeps DEF Post
<1> QED BY <1>2, <1>3

\* The guard finds the document still authorised, and within what is left of its
\* entitlement; the document's row is held from here on.
LEMMA MarkExecutedKeeps ==
  ASSUME Discipline, NEW s \in Sessions, MarkExecuted(s)
  PROVE  Discipline'
<1> DEFINE d == job[s].on
<1>1. /\ job[s].step = "posted" /\ TypeOK /\ HeldBy(s) /\ Waits(d)
      /\ MayBecome(doc[d].state, "executed")
  BY DEF Discipline, MarkExecuted
<1>2. d \in Docs /\ d \in Lockables /\ doc[d].state = "authorised"
  BY <1>1 DEF HeldBy, Lockables, MayBecome
<1>3. CASE Covered(d)
  <2>1. Keeps(s, d) /\ Steps(s, "marked") /\ UNCHANGED rows
    BY <1>3 DEF MarkExecuted
  <2>2. /\ job' \in [Sessions -> Job] /\ job'[s].step = "marked" /\ job'[s].on = d
        /\ \A t \in Sessions \ {s} : job'[t] = job[t]
    BY <1>1, <2>1, StepFacts
  <2>3. /\ lock' \in [Lockables -> Sessions \cup {None}] /\ lock'[d] = s
        /\ \A t \in Sessions : \A x \in Lockables : lock[x] = t => lock'[x] = t
    BY <1>1, <1>2, <2>1, LockFacts
  <2>4. doc[d].ent # None => Consumed(doc, doc[d].ent) + doc[d].amount <= EntitledTo[doc[d].ent]
    <3> SUFFICES ASSUME doc[d].ent # None
                 PROVE  Consumed(doc, doc[d].ent) + doc[d].amount <= EntitledTo[doc[d].ent]
      OBVIOUS
    <3>1. doc[d].ent \in Entitlements /\ doc[d].amount \in Nat
      BY <1>1, <1>2 DEF TypeOK, DocRow
    <3>2. Consumed(doc, doc[d].ent) \in Nat /\ EntitledTo[doc[d].ent] \in Nat
      BY <1>1, <3>1, ConsumedType, ParameterAssumption
    <3>3. doc[d].amount <= EntitledTo[doc[d].ent] - Consumed(doc, doc[d].ent)
      BY <1>3 DEF Covered
    <3> QED BY <3>1, <3>2, <3>3
  <2>5. lock'[doc[d].ledger] = s /\ (Gapless => lock'[Counter] = s) /\ EnoughFunds(d)
    <3>1. doc[d].ledger \in Lockables /\ Counter \in Lockables
      BY <1>2 DEF Discipline, DocSound, Lockables
    <3>2. lock[doc[d].ledger] = s /\ (Gapless => lock[Counter] = s) /\ EnoughFunds(d)
      BY <1>1 DEF HeldBy
    <3> QED BY <2>3, <3>1, <3>2
  <2>6. HeldBy(s)'
    <3>1. UNCHANGED <<doc, approvals, funds>>
      BY <2>1 DEF rows
    <3> QED BY <1>2, <2>2, <2>3, <2>4, <2>5, <3>1 DEF HeldBy, EnoughFunds
  <2> QED BY <2>1, <2>2, <2>3, <2>6, CalmSessionStep
<1>4. CASE ~Covered(d)
  BY <1>1, <1>4, RefuseKeeps DEF MarkExecuted
<1> QED BY <1>3, <1>4

\* A session that gives up leaves no trace but the rows others had.
LEMMA AbortKeeps ==
  ASSUME Discipline, NEW s \in Sessions, Abort(s)
  PROVE  Discipline'
<1>1. TypeOK /\ Releases(s) /\ Ends(s) /\ UNCHANGED rows
  BY DEF Discipline, Abort
<1>2. /\ job' \in [Sessions -> Job] /\ job'[s].step = "idle"
      /\ \A t \in Sessions \ {s} : job'[t] = job[t]
  BY <1>1, StepFacts DEF NoJob
<1>3. HeldBy(s)'
  BY <1>2 DEF HeldBy
<1> QED BY <1>1, <1>2, <1>3, LockFacts, CalmSessionStep

\* The cancellation of an entitlement looks for executed payments under its row lock.
LEMMA CheckCancelKeeps ==
  ASSUME Discipline, NEW s \in Sessions, NEW e \in Entitlements, CheckCancel(s, e)
  PROVE  Discipline'
<1> DEFINE j == [NoJob EXCEPT !.step = "checked", !.op = "cancelEntitlement", !.on = e]
<1>1. j \in Job /\ j.step = "checked"
  BY DEF NoJob, Job
<1>2. TypeOK /\ UNCHANGED rows /\ job' = [job EXCEPT ![s] = j] /\ Waits(e) /\ Keeps(s, e) /\ e \in Lockables
  BY DEF CheckCancel, Discipline, Lockables
<1>3. /\ job' \in [Sessions -> Job] /\ job'[s] = j
      /\ \A t \in Sessions \ {s} : job'[t] = job[t]
  <2> HIDE DEF j
  <2> QED BY <1>1, <1>2 DEF TypeOK
<1>4. HeldBy(s)'
  BY <1>1, <1>3 DEF HeldBy
<1> QED BY <1>1, <1>2, <1>3, <1>4, LockFacts, CalmSessionStep

-----------------------------------------------------------------------------
(* Steps of entitlements and of the other postings on a ledger. *)

\* A notice, its end, a cancellation.
LEMMA EntitlementKeeps ==
  ASSUME Discipline,
         \/ \E e \in Entitlements : Notice(e) \/ NoticeElapses(e)
         \/ \E s \in Sessions : CancelEntitlement(s)
  PROVE  Discipline'
<1>1. ent' \in [Entitlements -> EntRow]
  <2>1. \A e \in Entitlements, n \in {"given", "elapsed"} :
          /\ [ent[e] EXCEPT !.notice = n] \in EntRow
          /\ [ent[e] EXCEPT !.cancelled = TRUE] \in EntRow
    BY DEF Discipline, TypeOK, EntRow
  <2>2. CASE \E e \in Entitlements : Notice(e) \/ NoticeElapses(e)
    <3>1. PICK e \in Entitlements, n \in {"given", "elapsed"} : ent' = [ent EXCEPT ![e].notice = n]
      BY <2>2 DEF Notice, NoticeElapses
    <3> QED BY <2>1, <3>1 DEF Discipline, TypeOK
  <2>3. CASE \E s \in Sessions : CancelEntitlement(s)
    <3>1. PICK e : ent' = [ent EXCEPT ![e].cancelled = TRUE]
      BY <2>3 DEF CancelEntitlement
    <3>2. CASE e \in Entitlements
      BY <2>1, <3>1, <3>2 DEF Discipline, TypeOK
    <3>3. CASE e \notin Entitlements
      BY <3>1, <3>3 DEF Discipline, TypeOK
    <3> QED BY <3>2, <3>3
  <2> QED BY <2>2, <2>3
<1>2. UNCHANGED <<doc, approvals, funds, paid, refusals, blocks, entries>> /\ TypeOK
  BY DEF Notice, NoticeElapses, CancelEntitlement, Discipline
<1>3. CASE \E e \in Entitlements : Notice(e) \/ NoticeElapses(e)
  <2>1. UNCHANGED <<lock, job>>
    BY <1>3 DEF Notice, NoticeElapses
  <2>2. TypeOK' /\ \A t \in Sessions : Unmoved(t)
    BY <1>1, <1>2, <2>1 DEF TypeOK, Unmoved
  <2> QED BY <1>2, <2>2, CalmStep
<1>4. ASSUME NEW s \in Sessions, CancelEntitlement(s) PROVE Discipline'
  <2>1. Releases(s) /\ Ends(s)
    BY <1>4 DEF CancelEntitlement
  <2>2. /\ job' \in [Sessions -> Job] /\ job'[s].step = "idle"
        /\ \A t \in Sessions \ {s} : job'[t] = job[t]
    BY <1>2, <2>1, StepFacts DEF NoJob
  <2>3. /\ lock' \in [Lockables -> Sessions \cup {None}]
        /\ \A t \in Sessions \ {s} : \A x \in Lockables : lock[x] = t => lock'[x] = t
    BY <1>2, <2>1, LockFacts
  <2>4. HeldBy(s)'
    BY <2>2 DEF HeldBy
  <2>5. TypeOK'
    BY <1>1, <1>2, <2>2, <2>3 DEF TypeOK
  <2>6. \A t \in Sessions : Unmoved(t) \/ (HeldBy(t)' /\ job'[t].step # "captured")
    BY <2>2, <2>3, <2>4 DEF Unmoved
  <2> QED BY <1>2, <2>5, <2>6, CalmStep
<1> QED BY <1>3, <1>4

\* What else is posted on a ledger waits for whoever holds it.
LEMMA OtherPostingKeeps ==
  ASSUME Discipline, NEW l \in Ledgers, NEW x \in 0..MaxHeld, OtherPosting(l, x)
  PROVE  Discipline'
<1>1. /\ TypeOK /\ funds' = [funds EXCEPT ![l] = x] /\ Waits(l) /\ x \in Nat
      /\ UNCHANGED <<doc, approvals, ent, paid, refusals, blocks, entries, lock, job>>
  BY ParameterAssumption DEF Discipline, OtherPosting
<1>2. TypeOK' /\ \A t \in Sessions : Unmoved(t)
  BY <1>1 DEF TypeOK, Unmoved
<1>3. \A t \in Sessions : \A k \in Ledgers : lock[k] = t => funds'[k] = funds[k]
  BY <1>1, NoneAssumption DEF Waits, TypeOK
<1> QED BY <1>1, <1>2, <1>3, CalmStep

-----------------------------------------------------------------------------
(* Steps that change one document. *)

\* What a session sees of the document it holds is what the document is.
LEMMA FinishFacts ==
  ASSUME Discipline, NEW s \in Sessions, NEW op, NEW from, NEW to, Finishes(s, op, from, to)
  PROVE  /\ job[s].on \in Docs /\ doc[job[s].on] \in DocRow /\ doc[job[s].on].state # "none"
         /\ doc[job[s].on].state \in from /\ job[s].seen[2] = approvals[job[s].on]
         /\ approvals[job[s].on] \in Seq(Staff) /\ job[s].who \in Staff
         /\ lock[job[s].on] = s
         /\ to # doc[job[s].on].state => MayBecome(doc[job[s].on].state, to)
<1> DEFINE d == job[s].on
<1>1. /\ job[s].step = "locked" /\ job[s].seen[1] \in from /\ HeldBy(s) /\ TypeOK
      /\ to # doc[d].state => MayBecome(doc[d].state, to)
  BY DEF Discipline, Finishes
<1>2. d \in Docs /\ doc[d].state # "none" /\ lock[d] = s /\ job[s].who \in Staff
  BY <1>1 DEF HeldBy
<1>3. job[s].seen = <<doc[d].state, approvals[d]>>
  BY <1>1 DEF HeldBy
<1>4. job[s].seen[1] = doc[d].state /\ job[s].seen[2] = approvals[d]
  BY <1>3
<1>5. doc[d] \in DocRow /\ approvals[d] \in Seq(Staff)
  BY <1>1, <1>2 DEF TypeOK
<1> QED BY <1>1, <1>2, <1>4, <1>5

\* An operation that changes the state of the document it holds, and not to or from executed.
LEMMA FinishKeeps ==
  ASSUME Discipline, NEW s \in Sessions, NEW d \in Docs, d = job[s].on, lock[d] = s,
         doc[d].state \notin {"none", "executed"}, doc'[d].state \notin {"none", "executed"},
         doc'[d].ledger = doc[d].ledger, doc'[d].amount = doc[d].amount,
         doc'[d].ent = doc[d].ent, doc'[d].by = doc[d].by,
         \A k \in Docs \ {d} : doc'[k] = doc[k] /\ approvals'[k] = approvals[k],
         doc' \in [Docs -> DocRow], approvals' \in [Docs -> Seq(Staff)],
         Releases(s), Ends(s), UNCHANGED <<funds, ent, paid, refusals, blocks, entries>>,
         SelfAllowed \/ \A i \in DOMAIN approvals'[d] : approvals'[d][i] # doc[d].by,
         Approved(doc'[d], approvals'[d])
  PROVE  Discipline'
<1>1. TypeOK
  BY DEF Discipline
<1>2. /\ job' \in [Sessions -> Job] /\ job'[s].step = "idle"
      /\ \A t \in Sessions \ {s} : job'[t] = job[t]
  BY <1>1, StepFacts DEF NoJob
<1>3. /\ lock' \in [Lockables -> Sessions \cup {None}]
      /\ \A t \in Sessions \ {s} : \A x \in Lockables : lock[x] = t => lock'[x] = t
  BY <1>1, LockFacts
<1>4. TypeOK'
  BY <1>1, <1>2, <1>3 DEF TypeOK
<1>5. \A e : Consumed(doc', e) = Consumed(doc, e)
  <2>1. \A k \in Docs : /\ doc'[k].state = "executed" <=> doc[k].state = "executed"
                        /\ doc[k].state = "executed" => /\ doc'[k].ent = doc[k].ent
                                                        /\ doc'[k].amount = doc[k].amount
    OBVIOUS
  <2> QED BY <1>1, <2>1, ConsumedSame
<1>6. \A t \in Sessions \ {s} : Stand(t) /\ Unmoved(t)
  BY <1>2, <1>3, <1>5 DEF Stand, Unmoved
<1>7. \A t \in Sessions : HeldBy(t)'
  <2>1. HeldBy(s)'
    BY <1>2 DEF HeldBy
  <2> QED BY <1>6, <2>1, UnmovedHolds
<1>8. \A k \in Docs : DocSound(k)'
  <2>1. \A k \in Docs \ {d} : DocSound(k)'
    BY DEF Discipline, DocSound
  <2>2. DocSound(d)'
    BY DEF Discipline, DocSound
  <2> QED BY <2>1, <2>2
<1>9. PaidWhenExecuted' /\ DualControl' /\ (Gapless => HeadroomKept')
  <2>1. DualControl'
    BY DEF Discipline, DualControl
  <2>2. PaidWhenExecuted'
    BY DEF Discipline, PaidWhenExecuted
  <2>3. Gapless => HeadroomKept'
    BY <1>5 DEF Discipline, HeadroomKept
  <2> QED BY <2>1, <2>2, <2>3
<1>10. CapturesCover'
  <2>1. \A k \in Docs : Capturing(k)' \subseteq Capturing(k)
    BY <1>2 DEF Capturing
  <2> QED BY <1>1, <2>1, FewerCaptures DEF CapturesCover, Discipline
<1> QED BY <1>4, <1>7, <1>8, <1>9, <1>10 DEF Discipline

\* The indices of a sequence one longer.
LEMMA OneMoreIndex ==
  ASSUME NEW n \in Nat
  PROVE  /\ \A i \in 1..(n + 1) : i \in 1..n \/ i = n + 1
         /\ 1..n \subseteq 1..(n + 1) /\ n + 1 \in 1..(n + 1)
         /\ IsFiniteSet(1..n)
BY FS_Interval

\* One more approval, of somebody who has not given one.
LEMMA OneMoreApproval ==
  ASSUME NEW as \in Seq(Staff), NEW who \in Staff, \A i \in DOMAIN as : as[i] # who,
         Cardinality({as[i] : i \in DOMAIN as}) = Len(as)
  PROVE  LET bs == Append(as, who) IN
         /\ bs \in Seq(Staff) /\ Len(bs) = Len(as) + 1
         /\ \A i \in DOMAIN bs : (\E k \in DOMAIN as : bs[i] = as[k]) \/ bs[i] = who
         /\ Cardinality({bs[i] : i \in DOMAIN bs}) = Len(bs)
<1> DEFINE bs == Append(as, who)
           n == Len(as)
           A == {as[i] : i \in DOMAIN as}
           B == {bs[i] : i \in DOMAIN bs}
<1>1. /\ n \in Nat /\ DOMAIN as = 1..n
      /\ bs \in Seq(Staff) /\ Len(bs) = n + 1 /\ DOMAIN bs = 1..(n + 1)
      /\ \A i \in 1..n : bs[i] = as[i]
      /\ bs[n + 1] = who
  <2>1. n \in Nat /\ DOMAIN as = 1..n
    BY LenProperties
  <2>2. bs \in Seq(Staff) /\ Len(bs) = n + 1 /\ (\A i \in 1..n : bs[i] = as[i]) /\ bs[n + 1] = who
    BY AppendProperties, Zenon
  <2>3. DOMAIN bs = 1..Len(bs)
    <3> HIDE DEF bs
    <3> QED BY <2>2, LenProperties
  <2> QED BY <2>1, <2>2, <2>3, Zenon
<1>2. /\ \A i \in 1..(n + 1) : i \in 1..n \/ i = n + 1
      /\ 1..n \subseteq 1..(n + 1) /\ n + 1 \in 1..(n + 1)
      /\ IsFiniteSet(1..n)
  BY <1>1, OneMoreIndex, Zenon
<1>3. B = A \cup {who} /\ who \notin A
  <2> HIDE DEF n, bs
  <2> QED BY <1>1, <1>2
<1>4. IsFiniteSet(A)
  <2>1. IsFiniteSet(1..n)
    BY <1>2
  <2>2. as \in Surjection(1..n, A)
    <3>1. as \in [1..n -> A]
      BY <1>1, LenProperties
    <3> QED BY <1>1, <3>1 DEF Surjection
  <2> QED BY <2>1, <2>2, FS_Surjection
<1>5. Cardinality(B) = n + 1
  <2>1. Cardinality(A) = n
    OBVIOUS
  <2> HIDE DEF A, B, n
  <2> QED BY <1>3, <1>4, <2>1, FS_AddElement
<1>6. \A i \in DOMAIN bs : (\E k \in DOMAIN as : bs[i] = as[k]) \/ bs[i] = who
  <2> HIDE DEF n, bs
  <2> QED BY <1>1, <1>2
<1> QED BY <1>1, <1>5, <1>6

\* A document as it moves: the state alone changes.
LEMMA MovedDocument ==
  ASSUME TypeOK, NEW d \in Docs, NEW new \in States, Moves(d, new)
  PROVE  /\ doc' \in [Docs -> DocRow] /\ doc'[d].state = new
         /\ doc'[d].required = doc[d].required /\ doc'[d].by = doc[d].by
         /\ doc'[d].ledger = doc[d].ledger /\ doc'[d].amount = doc[d].amount
         /\ doc'[d].ent = doc[d].ent
         /\ \A k \in Docs \ {d} : doc'[k] = doc[k]
<1>1. doc \in [Docs -> DocRow] /\ doc' = [doc EXCEPT ![d].state = new]
  BY DEF TypeOK, Moves
<1>2. doc[d] \in DocRow
  BY <1>1
<1>3. /\ [doc[d] EXCEPT !.state = new] \in DocRow
      /\ [doc[d] EXCEPT !.state = new].state = new
      /\ [doc[d] EXCEPT !.state = new].required = doc[d].required
      /\ [doc[d] EXCEPT !.state = new].by = doc[d].by
      /\ [doc[d] EXCEPT !.state = new].ledger = doc[d].ledger
      /\ [doc[d] EXCEPT !.state = new].amount = doc[d].amount
      /\ [doc[d] EXCEPT !.state = new].ent = doc[d].ent
  BY <1>2 DEF DocRow
<1> QED BY <1>1, <1>3

\* Submission freezes the number of approvals.
LEMMA SubmitKeeps ==
  ASSUME Discipline, NEW s \in Sessions, Submit(s)
  PROVE  Discipline'
<1> DEFINE d == job[s].on
           new == [doc[d] EXCEPT !.state = "pending_authorisation", !.required = RequiredApprovals(d)]
<1>1. /\ d \in Docs /\ doc[d] \in DocRow /\ doc[d].state = "draft" /\ lock[d] = s
      /\ TypeOK /\ DocSound(d) /\ Approved(doc[d], approvals[d])
  BY FinishFacts DEF Submit, Discipline, DualControl
<1>2. /\ new \in DocRow /\ new.state = "pending_authorisation" /\ new.by = doc[d].by
      /\ new.ledger = doc[d].ledger /\ new.amount = doc[d].amount /\ new.ent = doc[d].ent
  <2>1. RequiredApprovals(d) \in Nat
    BY DEF RequiredApprovals
  <2> QED BY <1>1, <2>1 DEF DocRow, States
<1>3. doc' = [doc EXCEPT ![d] = new]
  BY <1>1 DEF Submit, TypeOK
<1>4. /\ doc' \in [Docs -> DocRow] /\ doc'[d] = new /\ \A k \in Docs \ {d} : doc'[k] = doc[k]
  <2> HIDE DEF new
  <2> QED BY <1>1, <1>2, <1>3 DEF TypeOK
<1>5. /\ Releases(s) /\ Ends(s) /\ UNCHANGED <<funds, ent, paid, refusals, blocks, entries>>
      /\ approvals' = approvals /\ approvals \in [Docs -> Seq(Staff)]
  BY <1>1 DEF Submit, Finishes, TypeOK
<1>6. Approved(doc'[d], approvals'[d])
  BY <1>1, <1>2, <1>4, <1>5 DEF Approved
<1> HIDE DEF new
<1> QED BY <1>1, <1>2, <1>4, <1>5, <1>6, FinishKeeps DEF DocSound

\* An approval is of somebody allowed to, who has not approved before.
LEMMA AuthoriseKeeps ==
  ASSUME Discipline, NEW s \in Sessions, Authorise(s)
  PROVE  Discipline'
<1> DEFINE d == job[s].on
           who == job[s].who
           as == approvals[d]
           bs == Append(as, who)
           complete == Len(as) + 1 >= doc[d].required
<1>1. /\ d \in Docs /\ doc[d] \in DocRow /\ doc[d].state = "pending_authorisation" /\ lock[d] = s
      /\ TypeOK /\ DocSound(d) /\ Approved(doc[d], as)
      /\ as \in Seq(Staff) /\ who \in Staff /\ job[s].seen[2] = as
  BY FinishFacts DEF Authorise, Discipline, DualControl
<1>2. /\ MayApprove(who, d, as) /\ approvals' = [approvals EXCEPT ![d] = bs]
      /\ IF complete THEN Moves(d, "authorised") ELSE UNCHANGED doc
      /\ Releases(s) /\ Ends(s) /\ UNCHANGED <<funds, ent, paid, refusals, blocks, entries>>
  BY <1>1 DEF Authorise, Finishes
<1>3. /\ bs \in Seq(Staff) /\ Len(bs) = Len(as) + 1
      /\ \A i \in DOMAIN bs : (\E k \in DOMAIN as : bs[i] = as[k]) \/ bs[i] = who
      /\ Cardinality({bs[i] : i \in DOMAIN bs}) = Len(bs)
  <2>1. (\A i \in DOMAIN as : as[i] # who) /\ Cardinality({as[i] : i \in DOMAIN as}) = Len(as)
    BY <1>1, <1>2 DEF MayApprove, Approved
  <2> HIDE DEF as, who
  <2> QED BY <1>1, <2>1, OneMoreApproval
<1>4. SelfAllowed \/ \A i \in DOMAIN bs : bs[i] # doc[d].by
  <2>1. SelfAllowed \/ (who # doc[d].by /\ \A i \in DOMAIN as : as[i] # doc[d].by)
    BY <1>1, <1>2 DEF MayApprove, DocSound
  <2> HIDE DEF as, bs, who, d
  <2> QED BY <1>3, <2>1
<1>5. /\ approvals' \in [Docs -> Seq(Staff)] /\ approvals'[d] = bs
      /\ \A k \in Docs \ {d} : approvals'[k] = approvals[k]
  <2> HIDE DEF bs
  <2> QED BY <1>1, <1>2, <1>3 DEF TypeOK
<1>6. /\ doc' \in [Docs -> DocRow] /\ \A k \in Docs \ {d} : doc'[k] = doc[k]
      /\ doc'[d].by = doc[d].by /\ doc'[d].ledger = doc[d].ledger
      /\ doc'[d].amount = doc[d].amount /\ doc'[d].ent = doc[d].ent
      /\ doc'[d].required = doc[d].required
      /\ doc'[d].state = IF complete THEN "authorised" ELSE "pending_authorisation"
  <2> HIDE DEF complete
  <2>1. CASE complete
    <3>1. "authorised" \in States
      BY DEF States
    <3> QED BY <1>1, <1>2, <2>1, <3>1, MovedDocument
  <2>2. CASE ~complete
    BY <1>1, <1>2, <2>2 DEF TypeOK
  <2> QED BY <2>1, <2>2
<1>7. Approved(doc'[d], approvals'[d])
  <2>1. doc'[d].state \in {"authorised", "blocked", "executed"} => Len(bs) >= doc'[d].required
    <3> HIDE DEF bs
    <3> QED BY <1>3, <1>6
  <2> HIDE DEF bs
  <2> QED BY <1>3, <1>4, <1>5, <1>6, <2>1 DEF Approved
<1> HIDE DEF bs, as, complete
<1> QED BY <1>1, <1>2, <1>4, <1>5, <1>6, <1>7, FinishKeeps

\* Rejecting, cancelling and resubmitting move the document on; approvals stay.
LEMMA MoveKeeps ==
  ASSUME Discipline, NEW s \in Sessions, Reject(s) \/ Cancel(s) \/ Resubmit(s)
  PROVE  Discipline'
<1> DEFINE d == job[s].on
<1>1. PICK op, from, new :
        /\ Finishes(s, op, from, new) /\ Moves(d, new) /\ Ends(s)
        /\ new \in {"rejected", "cancelled", "authorised"}
        /\ from \subseteq {"draft", "pending_authorisation", "blocked"}
        /\ new = "authorised" => from = {"blocked"}
        /\ UNCHANGED <<approvals, funds, ent, paid, refusals, blocks, entries>>
  <2>1. CASE Reject(s)
    BY <2>1 DEF Reject
  <2>2. CASE Cancel(s)
    BY <2>2 DEF Cancel
  <2>3. CASE Resubmit(s)
    BY <2>3 DEF Resubmit
  <2> QED BY <2>1, <2>2, <2>3
<1>2. /\ d \in Docs /\ doc[d] \in DocRow /\ doc[d].state \in from /\ lock[d] = s
      /\ TypeOK /\ DocSound(d) /\ Approved(doc[d], approvals[d])
  BY <1>1, FinishFacts DEF Discipline, DualControl
<1>3. /\ doc' \in [Docs -> DocRow] /\ doc'[d].state = new
      /\ doc'[d].required = doc[d].required /\ doc'[d].by = doc[d].by
      /\ doc'[d].ledger = doc[d].ledger /\ doc'[d].amount = doc[d].amount
      /\ doc'[d].ent = doc[d].ent
      /\ \A k \in Docs \ {d} : doc'[k] = doc[k]
  <2>1. new \in States
    BY <1>1 DEF States
  <2> QED BY <1>1, <1>2, <2>1, MovedDocument
<1>4. Approved(doc'[d], approvals'[d])
  BY <1>1, <1>2, <1>3 DEF Approved
<1>5. Releases(s) /\ approvals' \in [Docs -> Seq(Staff)]
  BY <1>1, <1>2 DEF Finishes, TypeOK
<1> QED BY <1>1, <1>2, <1>3, <1>4, <1>5, FinishKeeps DEF DocSound

\* The document is marked executed and its money leaves, together.
LEMMA CommitKeeps ==
  ASSUME Discipline, NEW s \in Sessions, Commit(s)
  PROVE  Discipline'
<1>0. PICK d : d = job[s].on
  OBVIOUS
<1> USE <1>0
<1> DEFINE l == doc[d].ledger
<1>1. job[s].step = "marked" /\ HeldBy(s) /\ TypeOK
  BY DEF Discipline, Commit
<1>2. /\ d \in Docs /\ doc[d] \in DocRow /\ lock[d] = s /\ doc[d].state = "authorised"
      /\ lock[l] = s /\ (Gapless => lock[Counter] = s) /\ doc[d].amount <= funds[l]
      /\ Gapless /\ doc[d].ent # None =>
           Consumed(doc, doc[d].ent) + doc[d].amount <= EntitledTo[doc[d].ent]
  BY <1>1 DEF HeldBy, TypeOK, EnoughFunds
<1>3. l \in Ledgers /\ DocSound(d) /\ Approved(doc[d], approvals[d])
  BY <1>2 DEF Discipline, DocSound, DualControl
<1>4. /\ Moves(d, "executed") /\ funds' = [funds EXCEPT ![l] = @ - doc[d].amount]
      /\ paid' = [paid EXCEPT ![d] = @ + 1] /\ Releases(s) /\ Ends(s)
      /\ UNCHANGED <<approvals, ent, refusals, blocks, entries>>
  BY DEF Commit
<1>5. /\ doc' \in [Docs -> DocRow] /\ doc'[d].state = "executed"
      /\ doc'[d].required = doc[d].required /\ doc'[d].by = doc[d].by
      /\ doc'[d].ledger = doc[d].ledger /\ doc'[d].amount = doc[d].amount
      /\ doc'[d].ent = doc[d].ent
      /\ \A k \in Docs \ {d} : doc'[k] = doc[k]
  <2>1. "executed" \in States
    BY DEF States
  <2> QED BY <1>1, <1>2, <1>4, <2>1, MovedDocument
<1>6. funds' \in [Ledgers -> Nat] /\ \A k \in Ledgers \ {l} : funds'[k] = funds[k]
  <2>1. funds[l] \in Nat /\ doc[d].amount \in Nat
    BY <1>1, <1>2, <1>3 DEF TypeOK, DocRow
  <2>2. funds[l] - doc[d].amount \in Nat
    BY <1>2, <2>1
  <2> QED BY <1>1, <1>3, <1>4, <2>2 DEF TypeOK
<1>7. /\ job' \in [Sessions -> Job] /\ job'[s].step = "idle"
      /\ \A t \in Sessions \ {s} : job'[t] = job[t]
  BY <1>1, <1>4, StepFacts DEF NoJob
<1>8. /\ lock' \in [Lockables -> Sessions \cup {None}]
      /\ \A t \in Sessions \ {s} : \A x \in Lockables : lock[x] = t => lock'[x] = t
  BY <1>1, <1>4, LockFacts
<1>9. paid' \in [Docs -> Nat] /\ paid'[d] = 1 /\ \A k \in Docs \ {d} : paid'[k] = paid[k]
  <2>1. paid[d] = 0
    BY <1>2 DEF Discipline, PaidWhenExecuted
  <2> QED BY <1>1, <1>2, <1>4, <2>1 DEF TypeOK
<1>10. TypeOK'
  BY <1>1, <1>4, <1>5, <1>6, <1>7, <1>8, <1>9 DEF TypeOK
<1>11. \A t \in Sessions : HeldBy(t)'
  <2>1. HeldBy(s)'
    BY <1>7 DEF HeldBy
  <2>2. \A t \in Sessions \ {s} : Stand(t) /\ Unmoved(t)
    <3> SUFFICES ASSUME NEW t \in Sessions \ {s} PROVE Stand(t) /\ Unmoved(t)
      OBVIOUS
    <3>1. Unmoved(t)
      BY <1>7, <1>8 DEF Unmoved
    <3>2. lock[d] # t /\ lock[l] # t /\ ~(Gapless /\ lock[Counter] = t)
      BY <1>2
    <3>3. \A k \in Ledgers : lock[k] = t => funds'[k] = funds[k]
      BY <1>6, <3>2
    <3>4. \A k \in Docs : doc[k].state # "none" =>
            /\ doc'[k].state # "none" /\ doc'[k].ledger = doc[k].ledger
            /\ doc'[k].amount = doc[k].amount /\ doc'[k].ent = doc[k].ent
      BY <1>5
    <3>5. \A k \in Docs : doc[k].state # "none" /\ lock[k] = t =>
            doc'[k].state = doc[k].state /\ approvals'[k] = approvals[k]
      BY <1>4, <1>5, <3>2
    <3> QED BY <3>1, <3>2, <3>3, <3>4, <3>5 DEF Stand
  <2> QED BY <2>1, <2>2, UnmovedHolds
<1>12. \A k \in Docs : DocSound(k)'
  <2>1. \A k \in Docs \ {d} : DocSound(k)'
    BY <1>4, <1>5 DEF Discipline, DocSound
  <2>2. DocSound(d)'
    BY <1>2, <1>3, <1>4, <1>5 DEF DocSound
  <2> QED BY <2>1, <2>2
<1>13. PaidWhenExecuted'
  BY <1>5, <1>9 DEF Discipline, PaidWhenExecuted
<1>14. DualControl'
  <2>1. Approved(doc'[d], approvals'[d])
    BY <1>2, <1>3, <1>4, <1>5 DEF Approved
  <2> QED BY <1>4, <1>5, <2>1 DEF Discipline, DualControl
<1>15. Gapless => HeadroomKept'
  <2> SUFFICES ASSUME Gapless, NEW e \in Entitlements
               PROVE  Consumed(doc', e) <= EntitledTo[e]
    BY DEF HeadroomKept
  <2>1. Consumed(doc', e) = Consumed(doc, e) + (IF doc[d].ent = e THEN doc[d].amount ELSE 0)
    BY <1>1, <1>2, <1>4, ConsumedGrows
  <2>2. Consumed(doc, e) <= EntitledTo[e] /\ Consumed(doc, e) \in Nat
    BY <1>1, ConsumedType DEF Discipline, HeadroomKept
  <2>3. e # None
    BY NoneAssumption
  <2> QED BY <1>2, <2>1, <2>2, <2>3
<1>16. CapturesCover'
  <2>1. \A k \in Docs : Capturing(k)' \subseteq Capturing(k)
    BY <1>7 DEF Capturing
  <2> QED BY <1>1, <1>4, <2>1, FewerCaptures DEF CapturesCover, Discipline
<1> QED BY <1>10, <1>11, <1>12, <1>13, <1>14, <1>15, <1>16 DEF Discipline

\* A refusal is put on file before the block it leads to.
LEMMA CaptureKeeps ==
  ASSUME Discipline, NEW s \in Sessions, Capture(s)
  PROVE  Discipline'
<1>0. PICK d : d = job[s].on
  OBVIOUS
<1> USE <1>0
<1>1. /\ job[s].step = "refused" /\ HeldBy(s) /\ TypeOK /\ Steps(s, "captured")
      /\ refusals' = [refusals EXCEPT ![d] = @ + 1]
      /\ UNCHANGED <<doc, approvals, funds, ent, paid, blocks, entries, lock>>
  BY DEF Discipline, Capture, Captures
<1>2. d \in Docs /\ doc[d].state # "none"
  BY <1>1 DEF HeldBy
<1>3. /\ job' \in [Sessions -> Job] /\ job'[s].step = "captured" /\ job'[s].on = d
      /\ \A t \in Sessions \ {s} : job'[t] = job[t]
  BY <1>1, StepFacts
<1>4. /\ refusals' \in [Docs -> Nat] /\ refusals'[d] = refusals[d] + 1
      /\ \A k \in Docs \ {d} : refusals'[k] = refusals[k]
  BY <1>1, <1>2 DEF TypeOK
<1>5. TypeOK'
  BY <1>1, <1>3, <1>4 DEF TypeOK
<1>6. \A t \in Sessions : HeldBy(t)'
  <2>1. HeldBy(s)'
    BY <1>1, <1>2, <1>3 DEF HeldBy
  <2>2. \A t \in Sessions \ {s} : Stand(t) /\ Unmoved(t)
    BY <1>1, <1>3 DEF Stand, Unmoved
  <2> QED BY <2>1, <2>2, UnmovedHolds
<1>7. /\ \A k \in Docs : DocSound(k)'
      /\ PaidWhenExecuted' /\ DualControl' /\ (Gapless => HeadroomKept')
  BY <1>1 DEF Discipline, DocSound, PaidWhenExecuted, DualControl, HeadroomKept
<1>8. CapturesCover'
  <2>1. \A k \in Docs \ {d} : Capturing(k)' \subseteq Capturing(k)
    BY <1>3 DEF Capturing
  <2>2. \A k \in Docs \ {d} : blocks'[k] + Cardinality(Capturing(k)') <= refusals'[k]
    BY <1>1, <1>4, <2>1, FewerCaptures DEF Discipline
  <2>3. Capturing(d)' = Capturing(d) \cup {s} /\ s \notin Capturing(d)
    BY <1>1, <1>3 DEF Capturing
  <2>4. IsFiniteSet(Capturing(d))
    BY FiniteAssumption, FS_Subset DEF Capturing
  <2>5. Cardinality(Capturing(d)') = Cardinality(Capturing(d)) + 1 /\ Cardinality(Capturing(d)) \in Nat
    BY <2>3, <2>4, FS_AddElement, FS_CardinalityType
  <2>6. blocks[d] + Cardinality(Capturing(d)) <= refusals[d] /\ blocks[d] \in Nat /\ refusals[d] \in Nat
    BY <1>1, <1>2 DEF Discipline, CapturesCover, TypeOK
  <2>7. blocks'[d] + Cardinality(Capturing(d)') <= refusals'[d]
    BY <1>1, <1>4, <2>5, <2>6
  <2>8. \A k \in Docs : blocks'[k] + Cardinality(Capturing(k)') <= refusals'[k]
    BY <2>2, <2>7
  <2> QED BY <2>8 DEF CapturesCover
<1> QED BY <1>5, <1>6, <1>7, <1>8 DEF Discipline

\* A document is blocked only if it is still authorised, and nobody holds it.
LEMMA BlockKeeps ==
  ASSUME Discipline, NEW s \in Sessions, Block(s)
  PROVE  Discipline'
<1>0. PICK d : d = job[s].on
  OBVIOUS
<1> USE <1>0
<1> DEFINE still == doc[d].state = "authorised"
<1>1. /\ job[s].step = "captured" /\ HeldBy(s) /\ TypeOK /\ Waits(d) /\ Ends(s)
      /\ IF still THEN Moves(d, "blocked") ELSE UNCHANGED doc
      /\ blocks' = [blocks EXCEPT ![d] = @ + (IF still THEN 1 ELSE 0)]
      /\ entries' = [entries EXCEPT ![d] = @ + 1]
      /\ UNCHANGED <<approvals, funds, ent, paid, refusals, lock>>
  BY DEF Discipline, Block
<1>2. d \in Docs /\ doc[d].state # "none"
  BY <1>1 DEF HeldBy
<1>3. /\ doc' \in [Docs -> DocRow]
      /\ doc'[d].state = IF still THEN "blocked" ELSE doc[d].state
      /\ doc'[d].required = doc[d].required /\ doc'[d].by = doc[d].by
      /\ doc'[d].ledger = doc[d].ledger /\ doc'[d].amount = doc[d].amount
      /\ doc'[d].ent = doc[d].ent
      /\ \A k \in Docs \ {d} : doc'[k] = doc[k]
  <2>1. "blocked" \in States
    BY DEF States
  <2>2. CASE still
    BY <1>1, <1>2, <2>1, <2>2, MovedDocument
  <2>3. CASE ~still
    BY <1>1, <2>3 DEF TypeOK
  <2> QED BY <2>2, <2>3
<1>4. /\ job' \in [Sessions -> Job] /\ job'[s].step = "idle"
      /\ \A t \in Sessions \ {s} : job'[t] = job[t]
  BY <1>1, StepFacts DEF NoJob
<1>5. /\ blocks' \in [Docs -> Nat] /\ blocks'[d] \in {blocks[d], blocks[d] + 1}
      /\ \A k \in Docs \ {d} : blocks'[k] = blocks[k]
      /\ entries' \in [Docs -> Nat]
  <2> HIDE DEF still
  <2> QED BY <1>1, <1>2 DEF TypeOK
<1>6. TypeOK'
  BY <1>1, <1>3, <1>4, <1>5 DEF TypeOK
<1>7. \A e : Consumed(doc', e) = Consumed(doc, e)
  <2>1. \A k \in Docs : /\ doc'[k].state = "executed" <=> doc[k].state = "executed"
                        /\ doc[k].state = "executed" => /\ doc'[k].ent = doc[k].ent
                                                        /\ doc'[k].amount = doc[k].amount
    BY <1>3
  <2> QED BY <1>1, <2>1, ConsumedSame
<1>8. \A t \in Sessions : HeldBy(t)'
  <2>1. HeldBy(s)'
    BY <1>4 DEF HeldBy
  <2>2. \A t \in Sessions \ {s} : lock[d] # t
    BY <1>1, NoneAssumption DEF Waits
  <2>3. \A t \in Sessions \ {s} : Stand(t) /\ Unmoved(t)
    BY <1>1, <1>3, <1>4, <1>7, <2>2 DEF Stand, Unmoved
  <2> QED BY <2>1, <2>3, UnmovedHolds
<1>9. \A k \in Docs : DocSound(k)'
  <2>1. \A k \in Docs \ {d} : DocSound(k)'
    BY <1>1, <1>3 DEF Discipline, DocSound
  <2>2. DocSound(d)'
    BY <1>1, <1>2, <1>3 DEF Discipline, DocSound
  <2> QED BY <2>1, <2>2
<1>10. PaidWhenExecuted'
  BY <1>1, <1>3 DEF Discipline, PaidWhenExecuted
<1>11. DualControl'
  <2>1. Approved(doc[d], approvals[d])
    BY <1>2 DEF Discipline, DualControl
  <2>2. Approved(doc'[d], approvals'[d])
    BY <1>1, <1>3, <2>1 DEF Approved
  <2> QED BY <1>1, <1>3, <2>2 DEF Discipline, DualControl
<1>12. Gapless => HeadroomKept'
  BY <1>7 DEF Discipline, HeadroomKept
<1>13. CapturesCover'
  <2>1. \A k \in Docs : Capturing(k)' \subseteq Capturing(k)
    BY <1>4 DEF Capturing
  <2>2. \A k \in Docs \ {d} : blocks'[k] + Cardinality(Capturing(k)') <= refusals'[k]
    BY <1>1, <1>5, <2>1, FewerCaptures DEF Discipline
  <2>3. Capturing(d)' = Capturing(d) \ {s} /\ s \in Capturing(d)
    BY <1>1, <1>4 DEF Capturing
  <2>4. IsFiniteSet(Capturing(d))
    BY FiniteAssumption, FS_Subset DEF Capturing
  <2>5. /\ Cardinality(Capturing(d)') \in Nat /\ Cardinality(Capturing(d)) \in Nat
        /\ Cardinality(Capturing(d)) = Cardinality(Capturing(d)') + 1
    BY <2>3, <2>4, SmallerFinite
  <2>6. blocks[d] + Cardinality(Capturing(d)) <= refusals[d] /\ blocks[d] \in Nat /\ refusals[d] \in Nat
    BY <1>1, <1>2 DEF Discipline, CapturesCover, TypeOK
  <2>7. blocks'[d] + Cardinality(Capturing(d)') <= refusals'[d]
    BY <1>1, <1>5, <2>5, <2>6
  <2>8. \A k \in Docs : blocks'[k] + Cardinality(Capturing(k)') <= refusals'[k]
    BY <2>2, <2>7
  <2> QED BY <2>8 DEF CapturesCover
<1> QED BY <1>6, <1>8, <1>9, <1>10, <1>11, <1>12, <1>13 DEF Discipline

\* A document begins as a draft, with nothing approved.
LEMMA DraftKeeps ==
  ASSUME Discipline, NEW d \in Docs, NEW by \in Staff, NEW l \in Ledgers, NEW x \in Amounts,
         NEW e \in Entitlements \cup {None}, Draft(d, by, l, x, e)
  PROVE  Discipline'
<1> DEFINE new == [state |-> "draft", required |-> 0, by |-> by, ledger |-> l,
                   amount |-> x, ent |-> e]
<1>1. /\ TypeOK /\ doc[d].state = "none" /\ doc' = [doc EXCEPT ![d] = new]
      /\ UNCHANGED <<approvals, funds, ent, paid, refusals, blocks, entries, lock, job>>
  BY DEF Discipline, Draft
<1>2. new \in DocRow
  BY ParameterAssumption DEF DocRow, States
<1>3. /\ doc' \in [Docs -> DocRow] /\ doc'[d] = new /\ \A k \in Docs \ {d} : doc'[k] = doc[k]
  <2> HIDE DEF new
  <2> QED BY <1>1, <1>2 DEF TypeOK
<1>4. doc'[d].state = "draft" /\ doc'[d].ledger = l /\ approvals[d] = << >>
  BY <1>1, <1>3 DEF Discipline, DocSound
<1> HIDE DEF new
<1>5. TypeOK'
  BY <1>1, <1>3 DEF TypeOK
<1>6. \A k : Consumed(doc', k) = Consumed(doc, k)
  <2>1. \A k \in Docs : /\ doc'[k].state = "executed" <=> doc[k].state = "executed"
                        /\ doc[k].state = "executed" => /\ doc'[k].ent = doc[k].ent
                                                        /\ doc'[k].amount = doc[k].amount
    BY <1>1, <1>3, <1>4
  <2> QED BY <1>1, <2>1, ConsumedSame
<1>7. \A t \in Sessions : HeldBy(t)'
  <2>1. \A t \in Sessions : Stand(t) /\ Unmoved(t)
    BY <1>1, <1>3, <1>6 DEF Stand, Unmoved
  <2> QED BY <2>1, UnmovedHolds
<1>8. \A k \in Docs : DocSound(k)'
  <2>1. \A k \in Docs \ {d} : DocSound(k)'
    BY <1>1, <1>3 DEF Discipline, DocSound
  <2>2. DocSound(d)'
    BY <1>1, <1>4 DEF DocSound
  <2> QED BY <2>1, <2>2
<1>9. PaidWhenExecuted'
  BY <1>1, <1>3, <1>4 DEF Discipline, PaidWhenExecuted
<1>10. DualControl'
  <2>1. Approved(doc[d], approvals[d])
    BY DEF Discipline, DualControl
  <2>2. Approved(doc'[d], approvals'[d])
    BY <1>1, <1>4, <2>1 DEF Approved
  <2> QED BY <1>1, <1>3, <2>2 DEF Discipline, DualControl
<1>11. Gapless => HeadroomKept'
  BY <1>6 DEF Discipline, HeadroomKept
<1>12. CapturesCover'
  <2>1. \A k \in Docs : Capturing(k)' \subseteq Capturing(k)
    BY <1>1 DEF Capturing
  <2> QED BY <1>1, <2>1, FewerCaptures DEF CapturesCover, Discipline
<1> QED BY <1>5, <1>7, <1>8, <1>9, <1>10, <1>11, <1>12 DEF Discipline

-----------------------------------------------------------------------------
(* The invariant. *)

\* Nothing is drafted, held or consumed at the start.
LEMMA InitHolds == Init => Discipline
<1> SUFFICES ASSUME Init PROVE Discipline
  OBVIOUS
<1>1. /\ \A d \in Docs : /\ doc[d] = [state |-> "none", required |-> 0, by |-> None,
                                      ledger |-> None, amount |-> 0, ent |-> None]
                        /\ approvals[d] = << >>
                        /\ paid[d] = 0 /\ refusals[d] = 0 /\ blocks[d] = 0
      /\ \A s \in Sessions : job[s] = NoJob
  BY DEF Init
<1>2. TypeOK
  <2>1. doc \in [Docs -> DocRow]
    BY DEF Init, DocRow, States
  <2>2. approvals \in [Docs -> Seq(Staff)]
    <3>1. << >> \in Seq(Staff)
      BY EmptySeq
    <3> QED BY <3>1 DEF Init
  <2>3. ent \in [Entitlements -> EntRow]
    <3>1. \A n \in {"awaited", "elapsed"} : [notice |-> n, cancelled |-> FALSE] \in EntRow
      BY DEF EntRow
    <3> QED BY <3>1 DEF Init
  <2>4. /\ paid \in [Docs -> Nat] /\ refusals \in [Docs -> Nat]
        /\ blocks \in [Docs -> Nat] /\ entries \in [Docs -> Nat]
        /\ funds \in [Ledgers -> Nat] /\ lock \in [Lockables -> Sessions \cup {None}]
    BY ParameterAssumption DEF Init
  <2>5. job \in [Sessions -> Job]
    BY DEF Init, NoJob, Job
  <2> QED BY <2>1, <2>2, <2>3, <2>4, <2>5 DEF TypeOK
<1>3. \A s \in Sessions : HeldBy(s)
  BY <1>1 DEF HeldBy, NoJob
<1>4. /\ \A d \in Docs : DocSound(d)
      /\ PaidWhenExecuted
  BY <1>1 DEF DocSound, PaidWhenExecuted
<1>5. DualControl
  <2> SUFFICES ASSUME NEW d \in Docs PROVE Approved(doc[d], approvals[d])
    BY DEF DualControl
  <2>1. approvals[d] = << >> /\ doc[d].state = "none"
    BY <1>1
  <2>2. DOMAIN approvals[d] = {} /\ Len(approvals[d]) = 0
    BY <2>1, EmptySeq
  <2>3. {approvals[d][i] : i \in DOMAIN approvals[d]} = {}
    BY <2>2
  <2>4. Cardinality({approvals[d][i] : i \in DOMAIN approvals[d]}) = Len(approvals[d])
    BY <2>2, <2>3, FS_EmptySet
  <2>5. doc[d].state \notin {"authorised", "blocked", "executed"}
    BY <2>1
  <2> QED BY <2>4, <2>5 DEF Approved
<1>6. CapturesCover
  <2> SUFFICES ASSUME NEW d \in Docs PROVE blocks[d] + Cardinality(Capturing(d)) <= refusals[d]
    BY DEF CapturesCover
  <2>1. Capturing(d) = {}
    BY <1>1 DEF Capturing, NoJob
  <2>2. Cardinality(Capturing(d)) = 0
    BY <2>1, FS_EmptySet
  <2> QED BY <1>1, <2>2
<1>7. HeadroomKept
  <2> SUFFICES ASSUME NEW e \in Entitlements PROVE Consumed(doc, e) <= EntitledTo[e]
    BY DEF HeadroomKept
  <2>1. Executed(doc, e) = {}
    BY <1>1 DEF Executed
  <2>2. Consumed(doc, e) = 0
    BY <2>1, SumOfNone DEF Consumed
  <2>3. EntitledTo[e] \in Nat
    BY ParameterAssumption
  <2> QED BY <2>2, <2>3
<1> QED BY <1>2, <1>3, <1>4, <1>5, <1>6, <1>7 DEF Discipline

\* Every step keeps it.
LEMMA NextKeeps ==
  ASSUME Discipline, [Next]_vars
  PROVE  Discipline'
<1>1. CASE UNCHANGED vars
  <2>1. UNCHANGED <<rows, lock, job>>
    BY <1>1 DEF vars
  <2>2. /\ UNCHANGED <<doc, approvals, paid, refusals, blocks, funds, ent, entries, lock, job>>
        /\ TypeOK
    BY <2>1 DEF rows, Discipline
  <2>3. TypeOK' /\ \A t \in Sessions : Unmoved(t)
    BY <2>2 DEF TypeOK, Unmoved
  <2> QED BY <2>2, <2>3, CalmStep
<1>2. CASE \E d \in Docs, by \in Staff, l \in Ledgers, x \in Amounts,
              e \in Entitlements \cup {None} : Draft(d, by, l, x, e)
  BY <1>2, DraftKeeps
<1>3. CASE \E s \in Sessions, who \in Staff, d \in Docs,
              op \in {"submit", "authorise", "reject", "cancel", "resubmit"} : Take(s, who, op, d)
  BY <1>3, TakeKeeps
<1>4. ASSUME NEW s \in Sessions,
             \/ Submit(s) \/ Authorise(s) \/ Reject(s) \/ Cancel(s) \/ Resubmit(s)
             \/ LockLedger(s) \/ Number(s) \/ Post(s) \/ MarkExecuted(s) \/ Overtaken(s) \/ Commit(s)
             \/ Capture(s) \/ Block(s) \/ CancelEntitlement(s) \/ Fails(s)
             \/ \E d \in Docs : Load(s, d)
             \/ \E e \in Entitlements : CheckCancel(s, e)
      PROVE  Discipline'
  <2>1. CASE Submit(s)
    BY <2>1, SubmitKeeps
  <2>2. CASE Authorise(s)
    BY <2>2, AuthoriseKeeps
  <2>3. CASE Reject(s) \/ Cancel(s) \/ Resubmit(s)
    BY <2>3, MoveKeeps
  <2>4. CASE LockLedger(s)
    BY <2>4, LockLedgerKeeps
  <2>5. CASE Number(s)
    BY <2>5, NumberKeeps
  <2>6. CASE Post(s)
    BY <2>6, PostKeeps
  <2>7. CASE MarkExecuted(s)
    BY <2>7, MarkExecutedKeeps
  <2>8. CASE Overtaken(s) \/ Fails(s)
    BY <2>8, AbortKeeps DEF Overtaken, Fails
  <2>9. CASE Commit(s)
    BY <2>9, CommitKeeps
  <2>10. CASE Capture(s)
    BY <2>10, CaptureKeeps
  <2>11. CASE Block(s)
    BY <2>11, BlockKeeps
  <2>12. CASE CancelEntitlement(s)
    BY <2>12, EntitlementKeeps
  <2>13. CASE \E d \in Docs : Load(s, d)
    BY <2>13, LoadKeeps
  <2>14. CASE \E e \in Entitlements : CheckCancel(s, e)
    BY <2>14, CheckCancelKeeps
  <2> QED BY <1>4, <2>1, <2>2, <2>3, <2>4, <2>5, <2>6, <2>7, <2>8, <2>9, <2>10, <2>11, <2>12,
             <2>13, <2>14
<1>5. CASE \E e \in Entitlements : Notice(e) \/ NoticeElapses(e)
  BY <1>5, EntitlementKeeps
<1>6. CASE \E l \in Ledgers, x \in 0..MaxHeld : OtherPosting(l, x)
  BY <1>6, OtherPostingKeeps
<1> QED BY <1>1, <1>2, <1>3, <1>4, <1>5, <1>6 DEF Next

\* Whatever the sessions' order, each holds what its checks were made on, and what the
\* documents, their approvals, their refusals and their entitlements say is in keeping.
THEOREM DisciplineHolds == Spec => []Discipline
<1>1. Discipline /\ [Next]_vars => Discipline'
  BY NextKeeps
<1> QED BY <1>1, InitHolds, PTL DEF Spec

\* A document's money leaves exactly once, when the document says executed.
THEOREM MoneyLeavesOnce == Spec => []PaidWhenExecuted
<1>1. Discipline => PaidWhenExecuted
  BY DEF Discipline
<1> QED BY <1>1, DisciplineHolds, PTL

\* Nothing is authorised or executed without its approvals, of different people.
THEOREM ApprovalsSuffice == Spec => []DualControl
<1>1. Discipline => DualControl
  BY DEF Discipline
<1> QED BY <1>1, DisciplineHolds, PTL

\* Every block has its refusal on file.
THEOREM BlocksAreOnRecord == Spec => []BlockedOnRecord
<1>1. Discipline => BlockedOnRecord
  <2> SUFFICES ASSUME Discipline, NEW d \in Docs PROVE blocks[d] <= refusals[d]
    BY DEF BlockedOnRecord
  <2>1. IsFiniteSet(Capturing(d))
    BY FiniteAssumption, FS_Subset DEF Capturing
  <2>2. Cardinality(Capturing(d)) \in Nat
    BY <2>1, FS_CardinalityType
  <2>3. blocks[d] + Cardinality(Capturing(d)) <= refusals[d]
    BY DEF Discipline, CapturesCover
  <2>4. blocks[d] \in Nat /\ refusals[d] \in Nat
    BY DEF Discipline, TypeOK
  <2> QED BY <2>2, <2>3, <2>4
<1> QED BY <1>1, DisciplineHolds, PTL

\* Where payments draw gapless numbers, no entitlement is exceeded: the counter row,
\* held to the end, is what serialises the executions of two ledgers.
THEOREM EntitlementsKept == Spec => [](Gapless => HeadroomKept)
<1>1. Discipline => (Gapless => HeadroomKept)
  BY DEF Discipline
<1> QED BY <1>1, DisciplineHolds, PTL
=============================================================================
