------------------------------- MODULE Cents --------------------------------
\* Two computations to the cent that meet in a bill and share no row: the amount of a
\* disbursement typed with its tax, and money divided over payers and staff. Each part
\* has its own variables and its own next-state relation.
EXTENDS Integers, Sequences, FiniteSets, SequencesExt, Functions

-----------------------------------------------------------------------------
\* A disbursement and the cost types it defaults from; its amount is given, is the cost
\* type's, or is derived from the tax-inclusive total of the supplier's document
\* (src/lib/ops/billing/disbursements.ts, the function line_tax).
CONSTANTS Totals,   \* the totals and amounts typed, in cents
          Rates     \* the tax rates, in hundredths

VARIABLES item,      \* the disbursement, or the refusal of what was typed
          costType   \* the cost type: none, active or inactive

costVars == <<item, costType>>

NoItem == [state |-> "none", amount |-> 0, total |-> 0, rate |-> 0]

CostTypeOK ==
  /\ item.state \in {"none", "unbilled", "refused", "drafted", "deleted"}
  /\ item.amount \in Int /\ costType \in {"none", "active", "inactive"}

CostInit == item = NoItem /\ costType = "none"

RoundHalfUp(n, d) == (2 * n + d) \div (2 * d)
LineTax(net, rate) == RoundHalfUp(net * rate, 100)

\* The tax guessed from the total, and the two cents around it.
Around(g) == {g - 1, g, g + 1}
Guess(total, rate) == RoundHalfUp(total * rate, 100 + rate)
OnTheTotal(total, rate) == Around(RoundHalfUp(total * rate, 100))
Guesses(total, rate) == Around(Guess(total, rate))

\* The nets the check accepts: their tax lands on the total.
Derived(total, rate) ==
  {net \in {total - g : g \in Guesses(total, rate)} : net > 0 /\ LineTax(net, rate) = total - net}

CreateFromTotal(total, rate) ==
  /\ item.state = "none"
  /\ \/ \E net \in Derived(total, rate) :
          item' = [state |-> "unbilled", amount |-> net, total |-> total, rate |-> rate]
     \/ /\ Derived(total, rate) = {}
        /\ item' = [state |-> "refused", amount |-> 0, total |-> total, rate |-> rate]
  /\ UNCHANGED costType

\* An amount of its own, or the default of a cost type, which must be active.
CreateDisbursement(amount, rate) ==
  /\ item.state = "none"
  /\ \E named \in BOOLEAN : named => costType = "active"
  /\ item' = [state |-> "unbilled", amount |-> amount, total |-> 0, rate |-> rate] /\ UNCHANGED costType

\* The total typed is not kept: an edited amount stands on its own.
EditDisbursement(amount) ==
  /\ item.state = "unbilled" /\ item' = [item EXCEPT !.amount = amount, !.total = 0] /\ UNCHANGED costType
SoftDeleteUnbilledItem ==
  /\ item.state = "unbilled" /\ item' = [item EXCEPT !.state = "deleted"] /\ UNCHANGED costType
RestoreUnbilledItem ==
  /\ item.state = "deleted" /\ item' = [item EXCEPT !.state = "unbilled"] /\ UNCHANGED costType
Drafts == item.state = "unbilled" /\ item' = [item EXCEPT !.state = "drafted"] /\ UNCHANGED costType

CreateCostType == costType = "none" /\ costType' = "active" /\ UNCHANGED item
DeactivateCostType == costType = "active" /\ costType' = "inactive" /\ UNCHANGED item

CostNext ==
  \/ \E total \in Totals, rate \in Rates : CreateFromTotal(total, rate) \/ CreateDisbursement(total, rate)
  \/ \E amount \in Totals : EditDisbursement(amount)
  \/ SoftDeleteUnbilledItem \/ RestoreUnbilledItem \/ Drafts \/ CreateCostType \/ DeactivateCostType

CostSpec == CostInit /\ [][CostNext]_costVars

\* The tax billing will add to a derived net lands on the total typed, to the cent; and
\* a total is refused only when no net at all would land on it: the three guesses miss
\* none, at any rate.
TotalsLand ==
  /\ item.state # "refused" /\ item.total > 0 => item.amount + LineTax(item.amount, item.rate) = item.total
  /\ item.state = "refused" => \A net \in 1..item.total : net + LineTax(net, item.rate) # item.total

-----------------------------------------------------------------------------
(***************************************************************************)
(* Money divided to the cent: an item's value over the bills of the payers    *)
(* who share it, a write-down over those bills, and what a bill collects       *)
(* over the staff it is attributed to.  Amounts are whole cents; the code's   *)
(* floating-point shares are exact fractions here.                           *)
(***************************************************************************)
CONSTANTS
  Values,    \* bound: the values an item may have, in cents
  Splits     \* bound: the percentages payers share in, and staff's weights

VARIABLES
  originals,   \* the item's value on each payer's bill
  value,       \* the item's value
  cuts,        \* what each bill was written down to
  target,      \* what the item was written down to
  weights,     \* the bill's attribution over staff
  taken,       \* the amount of the last allocation to the bill
  fan          \* its collection_attribution rows, in the order of the shares

shareVars == <<originals, value, cuts, target, weights, taken, fan>>

Total(s) == FoldSeq(LAMBDA x, sum : sum + x, 0, s)

ShareTypeOK ==
  /\ value \in Values /\ target \in 0..value /\ taken \in Nat
  /\ Len(cuts) = Len(originals) /\ \A i \in DOMAIN cuts : cuts[i] \in Int
  /\ weights \in Splits /\ \A i \in DOMAIN fan : fan[i] \in Int

(***************************************************************************)
(* Largest remainder: floors first, then a cent each to the greatest          *)
(* fractions, ties in the order of the shares.                               *)
(***************************************************************************)
Raw(v, shares, i) == v * shares[i]
Floor(v, shares, i) == Raw(v, shares, i) \div Total(shares)
Fraction(v, shares, i) == Raw(v, shares, i) % Total(shares)
Rank(v, shares, i) ==
  Cardinality({j \in DOMAIN shares :
    \/ Fraction(v, shares, j) > Fraction(v, shares, i)
    \/ Fraction(v, shares, j) = Fraction(v, shares, i) /\ j < i})
FloorsOnly(v, shares) == [i \in DOMAIN shares |-> Floor(v, shares, i)]
SplitByShares(v, shares) ==
  LET residual == v - Total(FloorsOnly(v, shares))
  IN  [i \in DOMAIN shares |->
         Floor(v, shares, i) + IF Rank(v, shares, i) < residual THEN 1 ELSE 0]

Halves(v, shares) == [i \in DOMAIN shares |-> (2 * Raw(v, shares, i) + Total(shares)) \div (2 * Total(shares))]
Cuts(t, of) == SplitByShares(t, of)

\* All but the last share rounded half up; the last takes the rest.
RoundedShares(n, ws) == [i \in DOMAIN ws |-> (2 * n * ws[i] + Total(ws)) \div (2 * Total(ws))]
Fan(n, ws) ==
  LET rounded == RoundedShares(n, ws)
  IN  [rounded EXCEPT ![Len(ws)] = n - Total(Front(rounded))]

ShareInit ==
  /\ value \in Values /\ weights \in Splits
  /\ \E shares \in Splits : originals = SplitByShares(value, shares)
  /\ cuts = originals /\ target = value /\ taken = 0 /\ fan = << >>

\* One write-down replaces another; the split is always of the original values.
WriteDownDraftItem(t) ==
  /\ 0 <= t /\ t < value
  /\ target' = t /\ cuts' = Cuts(t, originals)
  /\ UNCHANGED <<originals, value, weights, taken, fan>>

Allocate(n) ==
  /\ n > 0 /\ taken' = n /\ fan' = Fan(n, weights)
  /\ UNCHANGED <<originals, value, cuts, target, weights>>

ReplaceBillAttribution(ws) ==
  /\ weights' = ws
  /\ UNCHANGED <<originals, value, cuts, target, taken, fan>>

ShareNext ==
  \/ \E t \in 0..value : WriteDownDraftItem(t)
  \/ \E n \in 1..value : Allocate(n)
  \/ \E ws \in Splits : ReplaceBillAttribution(ws)

ShareSpec == ShareInit /\ [][ShareNext]_shareVars

(***************************************************************************)
(* Properties.                                                               *)
(***************************************************************************)
\* No cent of an item is lost or made over its payers' bills, and a payer is
\* never written down to more than was charged - without the repair loop of
\* drafting.ts:484-493, which the split never needs.
WriteDownsFit ==
  /\ Total(originals) = value /\ Total(cuts) = target
  /\ \A i \in DOMAIN cuts : 0 <= cuts[i] /\ cuts[i] <= originals[i]

\* What a bill collects is all attributed (0011:348 z_assert_collection_fan).
FansAreWhole == fan # << >> => Total(fan) = taken

\* Not kept: nobody is credited a negative collection: three shares of two cents
\* rounded up leave the fourth one below zero.  (the last share takes what is
\* left).
FansAreCredits == \A i \in DOMAIN fan : fan[i] >= 0
=============================================================================
