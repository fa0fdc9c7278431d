----------------------------- MODULE MoneyLines -----------------------------
(***************************************************************************)
(* The vocabulary of the client-money ledgers: accounts, matter ledgers,    *)
(* earmarks, and the balanced postings the money operations hand to         *)
(* post_money_transaction.  No variables: the abstract ClientLedger and the *)
(* statement-level LedgerPosting both build on it.                          *)
(***************************************************************************)
EXTENDS Integers, Sequences, FiniteSets, FiniteSetsExt, Functions

CONSTANTS
  Accounts,      \* the firm's client bank accounts
  Ledgers,       \* ids of matter ledgers; ids order the locks
  AccountOf,     \* the account each ledger belongs to
  EarmarkIds,    \* ids of earmark rows; a higher id is placed later
  Amounts        \* the amounts operations move, in cents

ASSUME LedgersAssumption == Ledgers \subseteq Nat \ {0} /\ IsFiniteSet(Ledgers)
ASSUME AccountsAssumption == AccountOf \in [Ledgers -> Accounts]
ASSUME EarmarksAssumption == EarmarkIds \subseteq Nat \ {0} /\ IsFiniteSet(EarmarkIds)
ASSUME AmountsAssumption == Amounts \subseteq Nat \ {0}

LedgerStatus == {"none", "open", "closed"}

\* A cash-book line names no ledger; a matter-ledger line always does.
Line ==
  [side : {"cash_book"}, account : Accounts, ledger : {0}, amount : Int] \cup
  [side : {"matter_ledger"}, account : Accounts, ledger : Ledgers, amount : Int]

CashLine(a, x) == [side |-> "cash_book", account |-> a, ledger |-> 0, amount |-> x]
LedgerLine(l, x) ==
  [side |-> "matter_ledger", account |-> AccountOf[l], ledger |-> l, amount |-> x]

Posting == [kind : {"receipt", "payment_out", "ledger_transfer", "reversal"},
            lines : Seq(Line),
            reverses : Nat]

\* The line lists the operations build, cash line first.
ReceiptPosting(l, x) ==
  [kind |-> "receipt", reverses |-> 0,
   lines |-> <<CashLine(AccountOf[l], x), LedgerLine(l, x)>>]

PaymentPosting(l, x) ==
  [kind |-> "payment_out", reverses |-> 0,
   lines |-> <<CashLine(AccountOf[l], -x), LedgerLine(l, -x)>>]

TransferPosting(f, t, x) ==
  [kind |-> "ledger_transfer", reverses |-> 0,
   lines |-> <<LedgerLine(f, -x), LedgerLine(t, x)>>]

LedgerSideMirror(p, n) ==          \* broken form: the bank leg keeps its sign
  [kind |-> "reversal", reverses |-> n,
   lines |-> [i \in DOMAIN p.lines |-> IF p.lines[i].side = "cash_book" THEN p.lines[i]
                                      ELSE [p.lines[i] EXCEPT !.amount = -@]]]

\* Every line of transaction n with its sign turned.
MirrorPosting(p, n) ==
  [kind |-> "reversal", reverses |-> n,
   lines |-> [i \in DOMAIN p.lines |-> [p.lines[i] EXCEPT !.amount = -@]]]

LinesOf(ps) == IF Len(ps) = 0 THEN << >>
               ELSE IF Len(ps) = 1 THEN ps[1].lines
               ELSE ps[1].lines \o ps[2].lines

LedgersOf(p) == {p.lines[i].ledger : i \in DOMAIN p.lines} \ {0}

\* What a list of lines adds to a ledger, and to an account's cash book.
Moved(ls) == [i \in DOMAIN ls |-> ls[i].amount]
LedgerNet(ls, l) == SumFunctionOnSet(Moved(ls), {i \in DOMAIN ls : ls[i].ledger = l})
CashNet(ls, a) == SumFunctionOnSet(Moved(ls),
  {i \in DOMAIN ls : ls[i].side = "cash_book" /\ ls[i].account = a})

\* z_assert_txn_shape: a posting moves the bank by what it moves the account's ledgers.
LedgersIn(a) == {l \in Ledgers : AccountOf[l] = a}
Balanced(p) == \A a \in Accounts :
  CashNet(p.lines, a) = SumFunctionOnSet([l \in Ledgers |-> LedgerNet(p.lines, l)], LedgersIn(a))

(***************************************************************************)
(* Earmark rows.                                                           *)
(***************************************************************************)
NoEarmark == [state |-> "none", ledger |-> 0, amount |-> 0]

EarmarkRow == [state : {"none", "active", "released", "consumed"},
               ledger : Ledgers \cup {0},
               amount : Nat]

ActiveOn(em, l) == {e \in EarmarkIds : em[e].state = "active" /\ em[e].ledger = l}
AmountOf(em, es) == SumFunctionOnSet([e \in EarmarkIds |-> em[e].amount], es)

\* ledger_active_earmarks: what a ledger has set aside.
Marked(em, l) == AmountOf(em, ActiveOn(em, l))

\* The system's auto-release: newest first, until what is left fits `bal`.
AutoReleased(em, l, bal) ==
  {e \in ActiveOn(em, l) :
     Marked(em, l) - AmountOf(em, {f \in ActiveOn(em, l) : f > e}) > bal}

Unused(em) == {e \in EarmarkIds : em[e].state = "none"}
NextIds(em) == {e \in Unused(em) : \A f \in Unused(em) : e <= f}
Placed(em, e, l, x) == [em EXCEPT ![e] = [state |-> "active", ledger |-> l, amount |-> x]]
=============================================================================
