-------------------------- MODULE MCMoneyArithmetic --------------------------
(***************************************************************************)
(* The number type cut down to three significant bits and a limit of 64    *)
(* (see Money.cfg).                                                        *)
(***************************************************************************)
EXTENDS MoneyArithmetic
=============================================================================
