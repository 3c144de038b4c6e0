--------------------------- MODULE MCRateLimiter ---------------------------
(* Small instances of RateLimiter for TLC.                                   *)
EXTENDS RateLimiter, TLC

\* A token every second and a half for an address; for an account two, one
\* every two thirds of a second.
OfAddress == [k \in Kind |-> [capacity |-> 1, refill_tokens |-> 2, refill_interval_secs |-> 3]]
OfAccount == [k \in Kind |-> [capacity |-> 2, refill_tokens |-> 3, refill_interval_secs |-> 2]]

Requests == Permutations(Request)

=============================================================================
