----------------------------- MODULE MCDeposits -----------------------------
(***************************************************************************)
(* An instance of Deposits: one order, whose customer may send a coin      *)
(* worth the expected amount and one worth less.                           *)
(***************************************************************************)
EXTENDS Deposits

CONSTANTS o1, whole, part

MCOrders == {o1}
MCCoins == {whole, part}
MCFor == [c \in MCCoins |-> o1]
MCFull == {whole}

=============================================================================
