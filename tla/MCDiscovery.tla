------------------------------ MODULE MCDiscovery ------------------------------
(* Discovery of one service with two instances, by two clients and the watch. *)
EXTENDS Discovery

CONSTANTS n1, i1, i2

\* Each instance has an address of its own.
MCNameOf == [i \in Insts |-> n1]
MCOwnServer == [i \in Insts |-> i]
===============================================================================
