---------------------------- MODULE TokenBucket ----------------------------
(* What the rate limiter promises: every bucket fills at its rate up to its  *)
(* burst, and a request is charged to a bucket only for a whole token.  Over *)
(* any stretch of time a bucket therefore pays for its burst and what its    *)
(* rate brings in, and for no request more.  A bucket may lose credit, which *)
(* is never to the advantage of a client.                                    *)
EXTENDS Integers

CONSTANTS
  Bucket,   \* the buckets
  Request,  \* the requests
  One(_),   \* the price of a request, in the bucket's own unit
  Rate(_),  \* what one tick of the clock adds
  Burst(_)  \* what the bucket holds at most

VARIABLES
  level,  \* bucket -> its credit
  paid    \* bucket -> the requests charged to it

Init ==
  /\ level = [b \in Bucket |-> Burst(b)]
  /\ paid = [b \in Bucket |-> {}]

Least(x, y) == IF x <= y THEN x ELSE y

Tick ==
  /\ level' = [b \in Bucket |-> Least(Burst(b), level[b] + Rate(b))]
  /\ UNCHANGED paid

Take(b, r) ==
  /\ r \notin paid[b]
  /\ paid' = [paid EXCEPT ![b] = @ \cup {r}]
  /\ \E l \in 0 .. level[b] - One(b) : level' = [level EXCEPT ![b] = l]

Next == Tick \/ \E b \in Bucket, r \in Request : Take(b, r)

Spec == Init /\ [][Next]_<<level, paid>>

=============================================================================
