----------------------------- MODULE MCRunWaits -----------------------------
(* Values for the constants of RunWaits; the bounds are in the cfgs. *)
EXTENDS RunWaits

CONSTANTS root, c1, c2

OneChild    == {c1}
TwoChildren == {c1, c2}
=============================================================================
