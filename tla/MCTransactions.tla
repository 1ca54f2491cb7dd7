---------------------------- MODULE MCTransactions ----------------------------
(* Transactions of two goroutines. *)
EXTENDS Transactions

CONSTANTS g1, g2
===============================================================================
