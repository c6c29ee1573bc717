--------------------------- MODULE MoneyArithmetic ---------------------------
(***************************************************************************)
(* Payment and refunds of one order in the arithmetic the engine has:      *)
(* amounts are binary floating-point numbers, exact only up to a number of *)
(* significant bits, infinite from a limit on.  OrderRules computes with   *)
(* unbounded integers; here the same rules meet the edges of the number    *)
(* type, with the widths of the type as constants.                         *)
(*                                                                         *)
(* An operator marked "Mutant" is not part of the model: see OrderRules.   *)
(***************************************************************************)
EXTENDS Integers

CONSTANTS Precision,  \* significant bits of a number: 53
          Limit,      \* the least number that is not finite: 2^1024
          Scale,      \* minor units in a currency unit: 100
          MaxRefunds, \* bound: refunds accepted
          INF, NegINF, NaN

ASSUME MoneyAssumption ==
  /\ {Precision, Limit, Scale} \subseteq Nat \ {0}
  /\ MaxRefunds \in Nat
  /\ INF \notin Int /\ NegINF \notin Int \cup {INF} /\ NaN \notin Int \cup {INF, NegINF}

VARIABLES
  paid,       \* orders.paid_amount_minor
  refunded,   \* orders.refunded_amount_minor
  status,
  exact,      \* not in the code: the sum of the accepted refunds in exact arithmetic
  refunds     \* not in the code: how many there were

vars == <<paid, refunded, status, exact, refunds>>

\* Every whole number below is exact: Number.MAX_SAFE_INTEGER + 1.
SafeLimit == 2 ^ Precision

\* The distance between neighbouring numbers at n.
Spacing(n) ==
  2 ^ (CHOOSE k \in 0..n : /\ n < 2 ^ (Precision + k)
                           /\ k = 0 \/ 2 ^ (Precision + k - 1) <= n)

\* The nearest number to the natural n, of two equally near ones the even one.
Nearest(n) ==
  LET unit == Spacing(n)
      low == n \div unit
      rest == 2 * (n % unit)
      rounded == IF rest < unit \/ (rest = unit /\ low % 2 = 0)
                 THEN low * unit ELSE (low + 1) * unit
  IN  IF rounded >= Limit THEN INF ELSE rounded

\* The positive whole amounts a payload can name: all that are finite.
Amounts == {v \in 1..(Limit - 1) : Nearest(v) = v}

Times(x, y) == Nearest(x * y)

Plus(x, y) ==
  IF NaN \in {x, y} THEN NaN
  ELSE IF INF \in {x, y} THEN INF
  ELSE Nearest(x + y)

\* x - y, both natural or infinite.
Minus(x, y) ==
  IF NaN \in {x, y} \/ (x = INF /\ y = INF) THEN NaN
  ELSE IF x = INF THEN INF
  ELSE IF y = INF THEN NegINF
  ELSE IF x >= y THEN Nearest(x - y)
  ELSE -Nearest(y - x)

\* x > y for a positive x.  Every comparison with NaN is false.
Greater(x, y) ==
  /\ NaN \notin {x, y} /\ y # INF
  /\ y = NegINF \/ x = INF \/ x > y

-----------------------------------------------------------------------------
MoneyTypeOK ==
  /\ {paid, refunded} \subseteq 0..(Limit - 1) \cup {INF}
  /\ status \in {"CREATED", "PAID", "PARTIALLY_REFUNDED", "REFUNDED"}
  /\ exact \in Nat \cup {INF}
  /\ refunds \in 0..MaxRefunds

Init ==
  /\ paid = 0 /\ refunded = 0 /\ exact = 0 /\ refunds = 0
  /\ status = "CREATED"

\* Math.round(value * 100) of a positive whole amount.
ReadPositiveAmountMinor(v) == Times(v, Scale)

CapturePayment(v) ==
  /\ status = "CREATED"
  /\ paid' = ReadPositiveAmountMinor(v)
  /\ status' = "PAID"
  /\ UNCHANGED <<refunded, exact, refunds>>

\* Mutant: earlier refunds are forgotten.
RefundableOfPaid == paid

RefundableAmountMinor == Minus(paid, refunded)

IssueRefund(v) ==
  LET amount == ReadPositiveAmountMinor(v)
  IN  /\ status # "CREATED"
      /\ ~Greater(amount, RefundableAmountMinor)
      /\ refunded' = Plus(refunded, amount)
      /\ status' = IF refunded' = paid THEN "REFUNDED" ELSE "PARTIALLY_REFUNDED"
      /\ exact' = IF INF \in {exact, amount} THEN INF ELSE exact + amount
      /\ refunds < MaxRefunds /\ refunds' = refunds + 1
      /\ UNCHANGED paid

Next == \E v \in Amounts : CapturePayment(v) \/ IssueRefund(v)

Spec == Init /\ [][Next]_vars

-----------------------------------------------------------------------------
\* Refunds of a payment below the limit of exact numbers add up exactly, whatever
\* amounts they name: they never exceed the payment, and REFUNDED means that all of
\* it was given back.
SafePaymentsExact ==
  paid \in 0..(SafeLimit - 1) =>
    /\ refunded = exact /\ exact <= paid
    /\ status = "REFUNDED" <=> paid > 0 /\ exact = paid
=============================================================================
