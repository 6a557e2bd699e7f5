---------------------------- MODULE MCRepayment -----------------------------
(***************************************************************************)
(* One instalment without interest.                                        *)
(***************************************************************************)
EXTENDS Repayment

NoInterest == [i \in 1 .. 1 |-> 0]
=============================================================================
