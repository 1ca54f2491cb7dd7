--------------------------- MODULE MCDynamicProperty ---------------------------
(* DynamicProperty on a small instance. *)
EXTENDS DynamicProperty
===============================================================================
