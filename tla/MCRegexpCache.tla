----------------------------- MODULE MCRegexpCache -----------------------------
(* RegexpCache with three requests, a valid expression and one that is not. *)
EXTENDS RegexpCache

CONSTANTS c1, c2, c3, good, bad, one, other
MCMatches == {<<good, one>>}
===============================================================================
