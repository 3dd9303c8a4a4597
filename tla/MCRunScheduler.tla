--------------------------- MODULE MCRunScheduler ---------------------------
(* Values for the constants of RunScheduler; the bounds are in the cfgs. *)
EXTENDS RunScheduler

CONSTANTS worker, request   \* the polling loop and a waiting HTTP request

MCDrain == {worker, request}
=============================================================================
