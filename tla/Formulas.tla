------------------------------ MODULE Formulas ------------------------------
(***************************************************************************)
(* The expression language of pack formulas (lib/ops/config: expression).  *)
(* Numbers are exact fractions in lowest terms; money loses its rounded    *)
(* mark in arithmetic and regains it by an explicit round; a date moves by *)
(* days or by working days.  A behaviour is one evaluation, leaf by leaf:  *)
(* the value so far, combined with a literal or a measure at each step, or *)
(* the refusal.  Text, lists and the size limits are left out.             *)
(***************************************************************************)
EXTENDS Integers, FiniteSets, FiniteSetsExt

CONSTANTS
    Literals,       \* numbers of the formulas
    Dates,          \* days, numbered; day 0 is a Sunday
    NonWorking,     \* weekdays that do not work, 0..6
    Holidays,
    MaxPlaces,      \* places a round may ask for (10 in the code)
    MaxDays,        \* days a formula adds
    Bound           \* bound: numerators and denominators

VARIABLES
    value,          \* the value so far, or the refusal
    was             \* the step that gave it, and what it was before

vars == <<value, was>>

-----------------------------------------------------------------------------
\* Exact fractions: denominator above zero, lowest terms.
Abs(n) == IF n < 0 THEN -n ELSE n
Gcd(a, b) == Max({d \in 1..Max({Abs(a), Abs(b), 1}) : a % d = 0 /\ b % d = 0})
Rat(p, q) ==
    LET g == Gcd(p, q)
    IN IF q < 0 THEN [p |-> -p \div g, q |-> -q \div g] ELSE [p |-> p \div g, q |-> q \div g]
Radd(a, b) == Rat(a.p * b.q + b.p * a.q, a.q * b.q)
Rneg(a) == Rat(-a.p, a.q)
Rmul(a, b) == Rat(a.p * b.p, a.q * b.q)
Rdiv(a, b) == Rat(a.p * b.q, a.q * b.p)
Rcmp(a, b) == a.p * b.q - b.p * a.q

Number(t, r) == [t |-> t, v |-> r, rounded |-> FALSE]
Money(r, rounded) == [t |-> "money", v |-> r, rounded |-> rounded]
Date(d) == [t |-> "date", v |-> Rat(d, 1), rounded |-> FALSE]
Refused == [t |-> "refused", v |-> Rat(0, 1), rounded |-> FALSE]
Numeric(v) == v.t \in {"integer", "decimal", "money"}

\* A money literal counts as rounded when it is whole cents.
Literal(t, r) == IF t = "money" THEN Money(r, 100 % r.q = 0) ELSE Number(t, r)

\* Money stays money, unrounded; whole numbers stay whole while they can.
NumericResult(types, r) ==
    IF "money" \in types THEN Money(r, FALSE)
    ELSE Number(IF "decimal" \in types \/ r.q # 1 THEN "decimal" ELSE "integer", r)

Operator(op, a, b) ==
    CASE ~Numeric(a) \/ ~Numeric(b) -> Refused
      [] op = "+" -> NumericResult({a.t, b.t}, Radd(a.v, b.v))
      [] op = "-" -> NumericResult({a.t, b.t}, Radd(a.v, Rneg(b.v)))
      [] op = "*" -> IF a.t = "money" /\ b.t = "money" THEN Refused ELSE NumericResult({a.t, b.t}, Rmul(a.v, b.v))
      [] op = "/" -> IF b.v.p = 0 THEN Refused
                     ELSE IF a.t = "money" /\ b.t = "money" THEN Number("decimal", Rdiv(a.v, b.v))
                     ELSE NumericResult({a.t, b.t}, Rdiv(a.v, b.v))

\* The extremes keep whichever argument they are, its mark with it.
Extreme(name, a, b) ==
    IF ~Numeric(a) \/ ~Numeric(b) THEN Refused
    ELSE IF (name = "min" /\ Rcmp(b.v, a.v) < 0) \/ (name = "max" /\ Rcmp(b.v, a.v) > 0) THEN b ELSE a

\* The only narrowing.  Division of big integers truncates towards zero.
Truncate(n, d) == IF n < 0 THEN -((-n) \div d) ELSE n \div d
SignedHalf(num, div) ==
    LET rem == num - Truncate(num, div) * div IN rem * 2 >= div
HalfReached(num, div) ==
    LET rem == num - Truncate(num, div) * div IN Abs(rem) * 2 >= div

AnyPlaces(places) == TRUE
Cents(places) == places <= 2

Round(a, places, mode) ==
    LET num == a.v.p * 10^places
        away == \/ mode = "up" /\ num % a.v.q # 0
                \/ mode = "half_up" /\ num % a.v.q # 0 /\ HalfReached(num, a.v.q)
        q == Truncate(num, a.v.q) + (IF ~away THEN 0 ELSE IF num < 0 THEN -1 ELSE 1)
        r == Rat(q, 10^places)
    IN IF ~Numeric(a) THEN Refused
       ELSE IF a.t = "money" THEN Money(r, Cents(places))
       ELSE Number(IF a.t = "integer" /\ places = 0 THEN "integer" ELSE "decimal", r)

\* moneyCents: what leaves as cents is money, marked, with no smaller fraction.
Exits(a) == a.t = "money" /\ a.rounded /\ 100 % a.v.q = 0

-----------------------------------------------------------------------------
\* The business calendar.
IsWorking(d) == d % 7 \notin NonWorking /\ d \notin Holidays

\* Working days in (a, b], negative when b is earlier.
BusinessDaysBetween(a, b) ==
    IF a <= b THEN Cardinality({d \in (a + 1)..b : IsWorking(d)})
    ELSE -Cardinality({d \in (b + 1)..a : IsWorking(d)})

\* Day by day, counting the working ones it lands on.
CountsEveryDay(d) == TRUE
Lands(d) == IsWorking(d)

AddBusinessDays(d, n) ==
    LET step == IF n < 0 THEN -1 ELSE 1
        walk[left \in 0..Abs(n), t \in (d - 10 * MaxDays)..(d + 10 * MaxDays)] ==
            IF left = 0 THEN t ELSE walk[IF Lands(t + step) THEN left - 1 ELSE left, t + step]
    IN walk[Abs(n), d]

-----------------------------------------------------------------------------
Small(v) == Abs(v.v.p) <= Bound /\ v.v.q <= Bound
Becomes(v, step) == Small(v) /\ value' = v /\ was' = [step EXCEPT !.before = value]
Step(name, x, mode) == [name |-> name, x |-> x, mode |-> mode, before |-> Refused]

Init == value \in Literals \cup {Date(d) : d \in Dates} /\ was = Step("literal", 0, "")

Combine(op, b) == value # Refused /\ Becomes(Operator(op, value, b), Step("operator", 0, op))
MinMax(name, b) == value # Refused /\ Becomes(Extreme(name, value, b), Step("extreme", 0, name))
Negate == Numeric(value) /\ Becomes(NumericResult({value.t}, Rneg(value.v)), Step("neg", 0, ""))
RoundTo(places, mode) == value # Refused /\ Becomes(Round(value, places, mode), Step("round", places, mode))

\* if(value < b, value, b): a comparison chooses a branch and computes nothing.
IfLess(b) ==
    /\ value # Refused
    /\ Becomes(IF ~Numeric(value) THEN Refused ELSE IF Rcmp(value.v, b.v) < 0 THEN value ELSE b, Step("if", 0, ""))

\* A measure without a value refuses, unless value_or names another.
MeasureValue(bare) ==
    /\ value # Refused /\ Becomes(IF bare THEN Refused ELSE value, Step("measure", 0, ""))

AddDays(n) == value.t = "date" /\ Becomes(Date(value.v.p + n), Step("days", n, ""))
AddWorkingDays(n) ==
    /\ value.t = "date" /\ Becomes(Date(AddBusinessDays(value.v.p, n)), Step("business", n, ""))

Next ==
    \/ \E b \in Literals :
        \/ \E op \in {"+", "-", "*", "/"} : Combine(op, b)
        \/ \E name \in {"min", "max"} : MinMax(name, b)
        \/ IfLess(b)
    \/ Negate \/ \E places \in 0..MaxPlaces, mode \in {"half_up", "up", "down"} : RoundTo(places, mode)
    \/ \E bare \in BOOLEAN : MeasureValue(bare)
    \/ \E n \in -MaxDays..MaxDays : AddDays(n) \/ AddWorkingDays(n)

Spec == Init /\ [][Next]_vars

TypeOK ==
    /\ value.t \in {"integer", "decimal", "money", "date", "refused"} /\ value.v.q > 0
    /\ Gcd(value.v.p, value.v.q) = 1 /\ (value.t = "integer" => value.v.q = 1)

-----------------------------------------------------------------------------
\* "The one exit for money: exact cents": whatever formula led to it, a value
\* that carries the rounded mark leaves; the exit never finds a fraction of a
\* cent under it.
RoundedIsCents == value.rounded => Exits(value)

\* "round is the ONLY narrowing": a round goes to the nearest multiple of the
\* unit, ties away from zero, or to the next one up or down from zero.
RoundsRight ==
    LET scaled == Rmul(value.v, Rat(10^was.x, 1))
        from == Rmul(was.before.v, Rat(10^was.x, 1))
        gap == Abs(scaled.p) * from.q - Abs(from.p)      \* in units of 1/from.q
    IN was.name = "round" /\ value # Refused =>
         /\ scaled.q = 1 /\ (scaled.p < 0 => from.p < 0) /\ (scaled.p > 0 => from.p > 0)
         /\ was.mode = "down" => gap <= 0 /\ gap > -from.q
         /\ was.mode = "up" => gap >= 0 /\ gap < from.q
         /\ was.mode = "half_up" => 2 * gap <= from.q /\ 2 * gap > -from.q

\* Adding working days ends on a working day, as many working days on as were
\* asked for - counted from the other end when they are taken away.
WorkingDaysAdd ==
    LET a == was.before.v.p
        b == value.v.p
    IN was.name = "business" /\ was.x # 0 =>
         /\ IsWorking(b)
         /\ was.x > 0 => BusinessDaysBetween(a, b) = was.x
         /\ was.x < 0 => BusinessDaysBetween(b, a - 1) = -was.x - 1
=============================================================================
