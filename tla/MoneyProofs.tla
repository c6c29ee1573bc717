----------------------------- MODULE MoneyProofs -----------------------------
(***************************************************************************)
(* Refunds of a payment below the limit of exact numbers add up, for every *)
(* precision, limit and scale of the numbers.                              *)
(*                                                                         *)
(* The provers know nothing of powers.  What is needed of them is that     *)
(* 2 ^ n is the number of subsets of 1..n.                                 *)
(***************************************************************************)
EXTENDS MoneyArithmetic, FiniteSetTheorems, TLAPS

LEMMA PowerCounts ==
  ASSUME NEW n \in Nat
  PROVE  /\ IsFiniteSet(SUBSET (1..n))
         /\ Cardinality(SUBSET (1..n)) = 2 ^ n
         /\ 2 ^ n \in Nat
<1>1. IsFiniteSet(1..n) /\ Cardinality(1..n) = n
  BY FS_Interval
<1>2. IsFiniteSet(SUBSET (1..n)) /\ Cardinality(SUBSET (1..n)) = 2 ^ Cardinality(1..n)
  BY <1>1, FS_SUBSET
<1>3. Cardinality(SUBSET (1..n)) \in Nat
  BY <1>2, FS_CardinalityType
<1> QED
  BY <1>1, <1>2, <1>3

LEMMA PowersGrow ==
  ASSUME NEW m \in Nat, NEW n \in Nat, m <= n
  PROVE  2 ^ m <= 2 ^ n
<1>1. (SUBSET (1..m)) \subseteq SUBSET (1..n)
  OBVIOUS
<1>2. Cardinality(SUBSET (1..m)) <= Cardinality(SUBSET (1..n))
  BY <1>1, PowerCounts, FS_Subset
<1> QED
  BY <1>2, PowerCounts

\* A number is less than its power: the singletons and the empty set are subsets.
LEMMA PowerExceeds ==
  ASSUME NEW n \in Nat
  PROVE  n < 2 ^ n
<1> DEFINE single == [i \in 0..n |-> IF i = 0 THEN {} ELSE {i}]
<1>1. \A i \in 0..n : single[i] \in SUBSET (1..n)
  OBVIOUS
<1>2. \A i, j \in 0..n : single[i] = single[j] => i = j
  OBVIOUS
<1>3. single \in Injection(0..n, SUBSET (1..n))
  BY <1>1, <1>2 DEF Injection, IsInjective
<1>4. Cardinality(0..n) <= Cardinality(SUBSET (1..n))
  BY <1>3, PowerCounts, FS_Injection
<1>5. Cardinality(0..n) = n + 1
  BY FS_Interval
<1>6. Cardinality(SUBSET (1..n)) = 2 ^ n /\ 2 ^ n \in Nat
  BY PowerCounts
<1> HIDE DEF single
<1> QED
  BY <1>4, <1>5, <1>6

LEMMA PowerPositive ==
  ASSUME NEW n \in Nat
  PROVE  2 ^ n \in Nat \ {0}
<1>1. 2 ^ n \in Nat /\ n < 2 ^ n
  BY PowerCounts, PowerExceeds
<1> QED
  BY <1>1

-----------------------------------------------------------------------------
\* Rounding.

\* A set of natural numbers has a least element.
LEMMA LeastNumber ==
  ASSUME NEW T \in SUBSET Nat, T # {}
  PROVE  \E x \in T : \A y \in T : x <= y
<1> DEFINE R == {ss \in Nat \X Nat : ss[1] < ss[2]}
<1>1. R = OpToRel(<, Nat)
  BY DEF OpToRel
<1>2. IsWellFoundedOn(R, Nat)
  BY <1>1, NatLessThanWellFounded, Zenon
<1>3. \A x, y \in T : y < x => <<y, x>> \in R
  OBVIOUS
<1> HIDE DEF R
<1>4. PICK x \in T : \A y \in T : <<y, x>> \notin R
  BY <1>2, WFMin
<1>5. ASSUME NEW y \in T PROVE x <= y
  <2>1. ~(y < x)
    BY <1>3, <1>4
  <2>2. x \in Nat /\ y \in Nat
    OBVIOUS
  <2> QED
    BY <2>1, <2>2
<1> QED
  BY <1>5

\* k places are cut off a number n to fit it into the precision.
Cut(n, k) ==
  /\ n < 2 ^ (Precision + k)
  /\ k = 0 \/ 2 ^ (Precision + k - 1) <= n

LEMMA CutExists ==
  ASSUME NEW n \in Nat
  PROVE  \E k \in 0..n : Cut(n, k)
<1> DEFINE T == {k \in 0..n : n < 2 ^ (Precision + k)}
<1>1. Precision \in Nat \ {0}
  BY MoneyAssumption
<1>2. n < 2 ^ (Precision + n)
  <2>1. n < 2 ^ n /\ 2 ^ n <= 2 ^ (Precision + n)
    BY <1>1, PowerExceeds, PowersGrow
  <2>2. 2 ^ n \in Nat /\ 2 ^ (Precision + n) \in Nat
    BY <1>1, PowerPositive
  <2> QED
    BY <2>1, <2>2
<1>3. T \in SUBSET Nat /\ n \in T
  BY <1>2
<1>4. PICK k \in T : \A j \in T : k <= j
  BY <1>3, LeastNumber
<1>5. CASE k = 0
  BY <1>4, <1>5 DEF Cut
<1>6. CASE k # 0
  <2>1. k - 1 \in 0..n /\ k - 1 \notin T
    BY <1>4, <1>6
  <2>2. ~(n < 2 ^ (Precision + (k - 1)))
    BY <2>1
  <2>3. Precision + (k - 1) = Precision + k - 1 /\ Precision + k - 1 \in Nat
    BY <1>1, <2>1
  <2>4. 2 ^ (Precision + k - 1) \in Nat
    BY <2>3, PowerPositive
  <2>5. 2 ^ (Precision + k - 1) <= n
    BY <2>2, <2>3, <2>4
  <2> QED
    BY <1>4, <2>5 DEF Cut
<1> QED
  BY <1>5, <1>6

\* Neighbours of a number have a whole distance, which is 1 as long as it is safe and
\* never exceeds a positive number.
LEMMA SpacingBounds ==
  ASSUME NEW n \in Nat
  PROVE  /\ Spacing(n) \in Nat \ {0}
         /\ n < SafeLimit => Spacing(n) = 1
         /\ n > 0 => Spacing(n) <= n
<1> DEFINE k == CHOOSE k \in 0..n : Cut(n, k)
<1>1. Spacing(n) = 2 ^ k
  BY DEF Spacing, Cut
<1>2. k \in 0..n /\ Cut(n, k)
  BY CutExists
<1> HIDE DEF k
<1>3. Precision \in Nat \ {0} /\ k \in Nat
  BY <1>2, MoneyAssumption
<1>4. 2 ^ k \in Nat \ {0}
  BY <1>3, PowerPositive
<1>5. 2 ^ 0 = 1
  OBVIOUS
<1>6. CASE k = 0
  BY <1>1, <1>5, <1>6
<1>7. CASE k # 0
  <2>1. 2 ^ (Precision + k - 1) <= n
    BY <1>2, <1>7 DEF Cut
  <2>2. Precision + k - 1 \in Nat /\ k <= Precision + k - 1 /\ Precision <= Precision + k - 1
    BY <1>3, <1>7
  <2>3. 2 ^ k <= 2 ^ (Precision + k - 1) /\ 2 ^ Precision <= 2 ^ (Precision + k - 1)
    BY <1>3, <2>2, PowersGrow
  <2>4. 2 ^ Precision \in Nat /\ 2 ^ (Precision + k - 1) \in Nat
    BY <1>3, <2>2, PowerPositive
  <2>5. 2 ^ k <= n /\ ~(n < 2 ^ Precision)
    BY <1>4, <2>1, <2>3, <2>4
  <2> QED
    BY <1>1, <1>4, <2>5 DEF SafeLimit
<1> QED
  BY <1>6, <1>7

\* Rounding yields a number of the type, a safe one as it is and no positive one as 0.
LEMMA NearestBounds ==
  ASSUME NEW n \in Nat
  PROVE  /\ Nearest(n) \in 0..(Limit - 1) \cup {INF}
         /\ n < SafeLimit /\ n < Limit => Nearest(n) = n
         /\ n > 0 => Nearest(n) # 0
<1>1. PICK unit : unit = Spacing(n)
  OBVIOUS
<1>2. unit \in Nat \ {0} /\ (n < SafeLimit => unit = 1) /\ (n > 0 => unit <= n)
  BY <1>1, SpacingBounds
<1>3. PICK low : low = n \div unit
  OBVIOUS
<1>4. PICK mod : mod = n % unit
  OBVIOUS
<1>5. low \in Nat /\ mod \in 0..(unit - 1) /\ n = unit * low + mod
  BY <1>2, <1>3, <1>4
<1>6. PICK rounded : rounded = IF 2 * mod < unit \/ (2 * mod = unit /\ low % 2 = 0)
                               THEN low * unit ELSE (low + 1) * unit
  OBVIOUS
<1>7. Nearest(n) = IF rounded >= Limit THEN INF ELSE rounded
  BY <1>1, <1>3, <1>4, <1>6 DEF Nearest
<1>8. rounded \in Nat
  <2>1. low * unit \in Nat /\ (low + 1) * unit \in Nat
    BY <1>2, <1>5
  <2> QED
    BY <1>6, <2>1
<1>9. n < SafeLimit => rounded = n
  <2> SUFFICES ASSUME n < SafeLimit PROVE rounded = n
    OBVIOUS
  <2>1. unit = 1 /\ mod = 0
    BY <1>2, <1>5
  <2>2. low = n /\ rounded = low * unit
    BY <1>5, <1>6, <2>1
  <2> QED
    BY <1>5, <2>1, <2>2
<1>10. n > 0 => rounded # 0
  <2> SUFFICES ASSUME n > 0 PROVE rounded # 0
    OBVIOUS
  <2>1. low # 0
    BY <1>2, <1>5
  <2>2. low * unit >= 1 /\ (low + 1) * unit >= 1
    BY <1>2, <1>5, <2>1
  <2> QED
    BY <1>6, <2>2
<1>11. Limit \in Nat /\ INF \notin Int
  BY MoneyAssumption
<1> QED
  BY <1>7, <1>8, <1>9, <1>10, <1>11

Numbers == 0..(Limit - 1) \cup {INF}

\* An amount is a positive number, however large.
LEMMA AmountRead ==
  ASSUME NEW v \in Amounts
  PROVE  ReadPositiveAmountMinor(v) \in Numbers \ {0}
<1>1. v \in Nat \ {0} /\ Scale \in Nat \ {0}
  BY MoneyAssumption DEF Amounts
<1>2. v * Scale \in Nat /\ v * Scale > 0
  BY <1>1
<1> QED
  BY <1>2, NearestBounds DEF ReadPositiveAmountMinor, Times, Numbers

-----------------------------------------------------------------------------
\* Nothing has moved before the capture, and a payment is never nothing.
Captured ==
  IF status = "CREATED" THEN paid = 0 /\ refunded = 0 /\ exact = 0 ELSE paid # 0

RefundsExact ==
  paid \in 0..(SafeLimit - 1) =>
    /\ refunded = exact /\ exact \in 0..paid
    /\ status = "REFUNDED" <=> paid > 0 /\ exact = paid

\* The invariant.
RoundingInv == MoneyTypeOK /\ Captured /\ RefundsExact

LEMMA InitRounding == Init => RoundingInv
<1> SUFFICES ASSUME Init PROVE RoundingInv
  OBVIOUS
<1>1. Limit \in Nat \ {0} /\ MaxRefunds \in Nat
  BY MoneyAssumption
<1>2. MoneyTypeOK
  BY <1>1 DEF Init, MoneyTypeOK
<1>3. Captured /\ RefundsExact
  BY DEF Init, Captured, RefundsExact
<1> QED
  BY <1>2, <1>3 DEF RoundingInv

LEMMA CaptureKeeps ==
  ASSUME RoundingInv, NEW v \in Amounts, CapturePayment(v)
  PROVE  RoundingInv'
<1>1. /\ status = "CREATED" /\ status' = "PAID"
      /\ paid' \in Numbers \ {0}
      /\ refunded' = refunded /\ exact' = exact /\ refunds' = refunds
  BY AmountRead DEF CapturePayment
<1>2. refunded = 0 /\ exact = 0
  BY <1>1 DEF RoundingInv, Captured
<1>3. MoneyTypeOK'
  BY <1>1 DEF RoundingInv, MoneyTypeOK, Numbers
<1>4. Captured'
  BY <1>1 DEF Captured
<1>5. RefundsExact'
  BY <1>1, <1>2 DEF RefundsExact
<1> QED
  BY <1>3, <1>4, <1>5 DEF RoundingInv

\* A refund of a safe payment is computed without rounding: what is left of the payment
\* is exact, the amount does not exceed it, and so is what they add up to.
LEMMA RefundOfSafePayment ==
  ASSUME RoundingInv, NEW amount \in Numbers,
         paid \in 0..(SafeLimit - 1), ~Greater(amount, RefundableAmountMinor)
  PROVE  /\ amount \in Nat /\ amount # INF
         /\ exact \in Nat /\ exact # INF
         /\ Plus(refunded, amount) = exact + amount
         /\ exact + amount <= paid
<1>1. /\ INF \notin Int /\ NegINF \notin Int \cup {INF} /\ NaN \notin Int \cup {INF, NegINF}
      /\ Limit \in Nat /\ Precision \in Nat
  BY MoneyAssumption
<1>2. SafeLimit \in Nat
  BY <1>1, PowerPositive DEF SafeLimit
<1>3. paid \in Nat /\ paid < SafeLimit /\ paid < Limit
  BY <1>1, <1>2 DEF RoundingInv, MoneyTypeOK
<1>4. refunded = exact /\ exact \in 0..paid
  BY DEF RoundingInv, RefundsExact
<1>5. /\ paid - refunded \in Nat
      /\ paid - refunded < SafeLimit /\ paid - refunded < Limit
  BY <1>1, <1>2, <1>3, <1>4
<1>6. Nearest(paid - refunded) = paid - refunded
  BY <1>5, NearestBounds
<1>7. RefundableAmountMinor = paid - refunded
  <2>1. paid \notin {INF, NaN} /\ refunded \notin {INF, NaN} /\ paid >= refunded
    BY <1>1, <1>3, <1>4
  <2> QED
    BY <1>6, <2>1 DEF RefundableAmountMinor, Minus
<1>8. amount \in Nat /\ amount <= paid - refunded
  <2>1. amount \in 0..(Limit - 1) \/ amount = INF
    BY DEF Numbers
  <2>2. /\ paid - refunded \notin {INF, NegINF, NaN}
        /\ amount # NaN
    BY <1>1, <1>5, <2>1
  <2>3. amount # INF /\ ~(amount > paid - refunded)
    BY <1>7, <2>2 DEF Greater
  <2>4. amount \in Nat
    BY <1>1, <2>1, <2>3
  <2> QED
    BY <1>5, <2>3, <2>4
<1>9. /\ refunded + amount \in Nat /\ refunded + amount <= paid
      /\ refunded + amount < SafeLimit /\ refunded + amount < Limit
  BY <1>1, <1>2, <1>3, <1>4, <1>8
<1>10. Nearest(refunded + amount) = refunded + amount
  BY <1>9, NearestBounds
<1>11. Plus(refunded, amount) = refunded + amount
  <2>1. INF \notin {refunded, amount} /\ NaN \notin {refunded, amount}
    BY <1>1, <1>4, <1>8
  <2> QED
    BY <1>10, <2>1 DEF Plus
<1>12. exact \in Nat /\ exact # INF /\ amount # INF
  BY <1>1, <1>3, <1>4, <1>8
<1> QED
  BY <1>4, <1>8, <1>9, <1>11, <1>12

LEMMA RefundKeeps ==
  ASSUME RoundingInv, NEW v \in Amounts, IssueRefund(v)
  PROVE  RoundingInv'
<1>1. PICK amount \in Numbers : amount = ReadPositiveAmountMinor(v)
  BY AmountRead
<1>2. /\ status # "CREATED"
      /\ ~Greater(amount, RefundableAmountMinor)
      /\ refunded' = Plus(refunded, amount)
      /\ status' = IF refunded' = paid THEN "REFUNDED" ELSE "PARTIALLY_REFUNDED"
      /\ exact' = IF INF \in {exact, amount} THEN INF ELSE exact + amount
      /\ refunds < MaxRefunds /\ refunds' = refunds + 1
      /\ paid' = paid
  BY <1>1 DEF IssueRefund
<1>3. MoneyTypeOK'
  <2>1. MoneyTypeOK /\ MaxRefunds \in Nat
    BY MoneyAssumption DEF RoundingInv
  <2>2. Plus(refunded, amount) \in Numbers
    <3>1. refunded \in Numbers /\ NaN \notin Numbers
      BY <2>1, MoneyAssumption DEF MoneyTypeOK, Numbers
    <3>2. CASE INF \in {refunded, amount}
      BY <3>1, <3>2 DEF Plus, Numbers
    <3>3. CASE INF \notin {refunded, amount}
      <4>1. refunded + amount \in Nat
        BY <3>1, <3>3, MoneyAssumption DEF Numbers
      <4>2. Plus(refunded, amount) = Nearest(refunded + amount)
        BY <3>1, <3>3 DEF Plus
      <4> QED
        BY <4>1, <4>2, NearestBounds DEF Numbers
    <3> QED
      BY <3>2, <3>3
  <2>3. exact' \in Nat \cup {INF}
    <3>1. exact \in Nat \cup {INF} /\ amount \in Nat \cup {INF}
      BY <2>1, MoneyAssumption DEF MoneyTypeOK, Numbers
    <3> QED
      BY <1>2, <3>1
  <2>4. refunds' \in 0..MaxRefunds
    BY <1>2, <2>1 DEF MoneyTypeOK
  <2> QED
    BY <1>2, <2>1, <2>2, <2>3, <2>4 DEF MoneyTypeOK, Numbers
<1>4. Captured' /\ paid # 0
  BY <1>2 DEF RoundingInv, Captured
<1>5. RefundsExact'
  <2> SUFFICES ASSUME paid \in 0..(SafeLimit - 1)
               PROVE  /\ refunded' = exact' /\ exact' \in 0..paid
                      /\ status' = "REFUNDED" <=> paid > 0 /\ exact' = paid
    BY <1>2 DEF RefundsExact, SafeLimit
  <2>1. /\ amount \in Nat /\ amount # INF /\ exact \in Nat /\ exact # INF
        /\ Plus(refunded, amount) = exact + amount /\ exact + amount <= paid
    BY <1>2, RefundOfSafePayment
  <2>2. paid \in Nat /\ paid > 0
    <3>1. Precision \in Nat
      BY MoneyAssumption
    <3>2. SafeLimit \in Nat
      BY <3>1, PowerPositive DEF SafeLimit
    <3> QED
      BY <1>4, <3>2
  <2>3. refunded' = exact + amount /\ exact' = exact + amount
    BY <1>2, <2>1
  <2>4. exact' \in 0..paid
    BY <2>1, <2>2, <2>3
  <2> QED
    BY <1>2, <2>2, <2>3, <2>4
<1> QED
  BY <1>3, <1>4, <1>5 DEF RoundingInv

\* The invariant is inductive: no capture and no refund, of any amount, leaves it.
THEOREM RoundingStep == RoundingInv /\ [Next]_vars => RoundingInv'
<1> SUFFICES ASSUME RoundingInv, [Next]_vars PROVE RoundingInv'
  OBVIOUS
<1>1. CASE \E v \in Amounts : CapturePayment(v)
  BY <1>1, CaptureKeeps
<1>2. CASE \E v \in Amounts : IssueRefund(v)
  BY <1>2, RefundKeeps
<1>3. CASE UNCHANGED vars
  BY <1>3 DEF vars, RoundingInv, MoneyTypeOK, Captured, RefundsExact, SafeLimit
<1> QED
  BY <1>1, <1>2, <1>3 DEF Next

\* Money of the number type stays money: amounts are numbers or infinite, and no order
\* is ever worth NaN, although what is left of an infinite payment may be.
THEOREM MoneyTyped == Spec => []MoneyTypeOK
<1>1. RoundingInv => MoneyTypeOK
  BY DEF RoundingInv
<1> QED
  BY <1>1, InitRounding, RoundingStep, PTL DEF Spec

\* Refunds of a payment below the limit of exact numbers add up exactly, for numbers of
\* any precision: rounding and overflow never let issueRefund give back more than was
\* paid, and REFUNDED means all of it.
THEOREM SafeMoneyExact == Spec => []SafePaymentsExact
<1>1. RoundingInv => SafePaymentsExact
  <2> SUFFICES ASSUME RoundingInv, paid \in 0..(SafeLimit - 1)
               PROVE  /\ refunded = exact /\ exact <= paid
                      /\ status = "REFUNDED" <=> paid > 0 /\ exact = paid
    BY DEF SafePaymentsExact
  <2>1. /\ refunded = exact /\ exact \in 0..paid
        /\ status = "REFUNDED" <=> paid > 0 /\ exact = paid
    BY DEF RoundingInv, RefundsExact
  <2>2. exact <= paid
    BY <2>1
  <2> QED
    BY <2>1, <2>2
<1> QED
  BY <1>1, InitRounding, RoundingStep, PTL DEF Spec
=============================================================================
