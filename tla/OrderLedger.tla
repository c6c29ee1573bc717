----------------------------- MODULE OrderLedger -----------------------------
(***************************************************************************)
(* What the engine promises about every order, whatever is delivered, in   *)
(* which order and through which failures: an order is opened once, paid   *)
(* once or cancelled unpaid, and refunded step by step up to what was      *)
(* paid; nothing else ever happens to its status or its money.             *)
(***************************************************************************)
EXTENDS Integers

CONSTANT OrderIds

VARIABLE ledger   \* [OrderIds -> status, paid and refunded minor units]

NoEntry == [status |-> "DOES_NOT_EXIST", paid |-> 0, refunded |-> 0]

Init == ledger = [o \in OrderIds |-> NoEntry]

Open(o) ==
  /\ ledger[o].status = "DOES_NOT_EXIST"
  /\ ledger' = [ledger EXCEPT ![o] = [@ EXCEPT !.status = "CREATED"]]

Cancel(o) ==
  /\ ledger[o].status = "CREATED"
  /\ ledger' = [ledger EXCEPT ![o] = [@ EXCEPT !.status = "CANCELLED"]]

\* Some positive amount is captured, in full and once.
Capture(o) ==
  LET amount == ledger'[o].paid
  IN  /\ ledger[o].status = "CREATED"
      /\ amount \in Nat \ {0}
      /\ ledger' = [ledger EXCEPT ![o] =
           [status |-> "PAID", paid |-> amount, refunded |-> @.refunded]]

\* Some positive part of what is left of the payment is refunded.
Refund(o) ==
  LET total == ledger'[o].refunded
      status == IF total = ledger[o].paid THEN "REFUNDED" ELSE "PARTIALLY_REFUNDED"
  IN  /\ ledger[o].status \in {"PAID", "PARTIALLY_REFUNDED"}
      /\ total \in (ledger[o].refunded + 1)..ledger[o].paid
      /\ ledger' = [ledger EXCEPT ![o] =
           [status |-> status, paid |-> @.paid, refunded |-> total]]

Next == \E o \in OrderIds : Open(o) \/ Cancel(o) \/ Capture(o) \/ Refund(o)

Spec == Init /\ [][Next]_ledger
=============================================================================
