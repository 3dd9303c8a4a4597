-------------------------- MODULE MCThreadRequests --------------------------
(* Two requests with one key, for an interaction or for a new session.       *)
EXTENDS ThreadRequests

CONSTANTS q1, q2, k1

MCThreads == 1 .. 3
MCRuns == 1 .. 2
MCKeyOf == [q \in {q1, q2} |-> k1]
=============================================================================
