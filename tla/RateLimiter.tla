---------------------------- MODULE RateLimiter ----------------------------
(* The rate limiter of thewiki: a middleware that first peeks at the bucket  *)
(* of the client's address, then resolves the session and charges a token to *)
(* the user's bucket or to the address's, and the two stores that keep the   *)
(* buckets: a map in the process with a task that drops idle entries, and a  *)
(* script in Redis whose keys expire.                                        *)
(*                                                                           *)
(* Time is counted in ticks, Second of them in a second.  The credit of a    *)
(* bucket is counted in shares of a token, one token being as many shares as *)
(* its refill interval has ticks, so that a tick brings in refill_tokens     *)
(* shares.  The code keeps the same numbers as floating-point tokens, which  *)
(* are exact here.                                                           *)
EXTENDS Integers, FiniteSets

CONSTANTS
  Ip,          \* addresses
  User,        \* accounts
  Request,     \* the requests; each is answered once
  Kind,        \* classes of methods: "read", "write"
  Anonymous,   \* kind -> the limit of an address
  Authenticated,  \* kind -> the limit of an account, or Nil: that of an address
  Second,      \* ticks per second
  IdleWindow,  \* GC_IDLE_WINDOW, in ticks
  Lag,         \* ticks between a handler's reading of the clock and its turn
  Skew,        \* ticks by which the clock of a replica may be behind
  Backends,    \* the stores the operator may configure
  MaxTime,     \* bound on the clock
  Nil          \* no user, no override, no bucket

Limit == [capacity : Nat \ {0}, refill_tokens : Nat \ {0},
          refill_interval_secs : Nat \ {0}]

\* validate_rate_limit_bucket: no number of a limit is zero.
ASSUME LimitsAssumption ==
  /\ Anonymous \in [Kind -> Limit]
  /\ Authenticated \in [Kind -> Limit \cup {Nil}]
  /\ Nil \notin Limit

ASSUME TimeAssumption ==
  /\ Second \in Nat \ {0}
  /\ IdleWindow \in Nat
  /\ Lag \in Nat
  /\ Skew \in Nat
  /\ MaxTime \in Nat
  /\ Backends \subseteq {"memory", "redis"}

ASSUME KeysAssumption ==
  /\ Ip \cap User = {}
  /\ Nil \notin User
  /\ Nil \notin [tokens : Nat, last_refill : Int, last_seen : Int]

Bucket == (Ip \cup User) \X Kind

ASSUME NilAssumption == Nil \notin Bucket

VARIABLES
  now,      \* the time
  backend,  \* the configured store
  bucket,   \* bucket -> its entry in the store, Nil while it has none
  h         \* request -> the middleware's state

vars == <<now, backend, bucket, h>>

-----------------------------------------------------------------------------
(* Buckets.                                                                *)

\* Anonymous limits apply to an account that has none of its own.
LimitOf(b) ==
  IF b[1] \in User /\ Authenticated[b[2]] # Nil THEN Authenticated[b[2]]
  ELSE Anonymous[b[2]]

One(b) == LimitOf(b).refill_interval_secs * Second
Full(b) == LimitOf(b).capacity * One(b)
Rate(b) == LimitOf(b).refill_tokens

Least(x, y) == IF x <= y THEN x ELSE y
Most(x, y) == IF x <= y THEN y ELSE x
DivUp(x, y) == (x + y - 1) \div y

\* A key that has expired in Redis is absent: its TTL is four intervals from
\* the last write.
Entry(b) ==
  IF backend = "redis" /\ bucket[b] # Nil
     /\ now - bucket[b].last_seen >= 4 * One(b)
  THEN Nil ELSE bucket[b]

\* A bucket seen for the first time starts full.
Seeded(b, at) ==
  IF Entry(b) = Nil
  THEN [tokens |-> Full(b), last_refill |-> at, last_seen |-> at]
  ELSE Entry(b)

\* Mutant of Credit: the bucket keeps what exceeds its capacity.
CreditUncapped(b, e, at) ==
  IF at <= e.last_refill THEN e.tokens
  ELSE e.tokens + (at - e.last_refill) * Rate(b)

\* The credit of entry e at a time; a clock that went back adds none.
Credit(b, e, at) ==
  IF at <= e.last_refill THEN e.tokens
  ELSE Least(Full(b), e.tokens + (at - e.last_refill) * Rate(b))

\* When the next token is there, as the store says: whole seconds from the map
\* in the process, milliseconds (ticks) from Redis; at least one.
retry_after(b, tokens) ==
  IF backend = "memory"
  THEN Most(1, DivUp(One(b) - tokens, Rate(b) * Second)) * Second
  ELSE Most(1, DivUp(One(b) - tokens, Rate(b)))

\* The Retry-After header: whole seconds, the rest cut off; at least one.
rate_limited_response(wait) == Most(1, wait \div Second) * Second

\* What a handler may take for the current time.
Clock == {at \in now - (IF backend = "memory" THEN Lag ELSE Skew) .. now : at >= 0}

-----------------------------------------------------------------------------
(* The middleware.                                                         *)

Idle == [pc |-> "idle", ip |-> Nil, user |-> Nil, kind |-> Nil, bucket |-> Nil,
         retry |-> 0, time |-> 0]

Init ==
  /\ now = 0
  /\ backend \in Backends
  /\ bucket = [b \in Bucket |-> Nil]
  /\ h = [r \in Request |-> Idle]

Refuse(r, req, b, tokens) ==
  h' = [h EXCEPT ![r] = [req EXCEPT !.pc = "refused", !.bucket = b, !.time = now,
                     !.retry = rate_limited_response(retry_after(b, tokens))]]

\* The request goes on to its handler, charged to bucket b.
Serve(r, b) ==
  h' = [h EXCEPT ![r] = [h[r] EXCEPT !.pc = "served", !.bucket = b, !.time = now]]

\* A request arrives; the bucket of its address is looked at, not charged.
\* Redis keeps the default peek, which allows.
Peek(r) ==
  /\ h[r].pc = "idle"
  /\ \E ip \in Ip, user \in User \cup {Nil}, kind \in Kind, at \in Clock :
       LET b == <<ip, kind>>
           req == [Idle EXCEPT !.ip = ip, !.user = user, !.kind = kind]
       IN IF backend = "memory" /\ bucket[b] # Nil /\ Credit(b, bucket[b], at) < One(b)
          THEN Refuse(r, req, b, Credit(b, bucket[b], at))
          ELSE h' = [h EXCEPT ![r] = [req EXCEPT !.pc = "check"]]
  /\ UNCHANGED <<now, backend, bucket>>

\* The principal to charge: the account of a session that is found and not
\* expired, else the address.
resolve_key(r) == {h[r].ip} \cup ({h[r].user} \ {Nil})

\* What is left of the credit when a request is checked: a token less, if
\* there is one.
Spent(b, tokens) == IF tokens >= One(b) THEN tokens - One(b) ELSE tokens

\* The map in the process keeps the later of its refill times.
InMemory(b, at) ==
  LET e == Seeded(b, at)
  IN [tokens |-> Spent(b, Credit(b, e, at)), last_refill |-> Most(at, e.last_refill),
      last_seen |-> at]

\* Redis writes back the time of the caller; its own clock counts for the TTL.
InRedis(b, at) ==
  [tokens |-> Spent(b, Credit(b, Seeded(b, at), at)), last_refill |-> at, last_seen |-> now]

Charged(b, at) == IF backend = "memory" THEN InMemory(b, at) ELSE InRedis(b, at)

\* Mutant of Check: the address pays for every request of its users too.
CheckBoth(r) ==
  /\ h[r].pc = "check"
  /\ \E key \in resolve_key(r), at \in Clock :
       LET b == <<key, h[r].kind>>
           i == <<h[r].ip, h[r].kind>>
       IN /\ Credit(b, Seeded(b, at), at) >= One(b)
          /\ Credit(i, Seeded(i, at), at) >= One(i)
          /\ bucket' = [bucket EXCEPT ![i] = Charged(i, at), ![b] = Charged(b, at)]
          /\ Serve(r, b)
  /\ UNCHANGED <<now, backend>>

\* Refill and consume in one step.
Check(r) ==
  /\ h[r].pc = "check"
  /\ \E key \in resolve_key(r), at \in Clock :
       LET b == <<key, h[r].kind>>
           tokens == Credit(b, Seeded(b, at), at)
       IN /\ bucket' = [bucket EXCEPT ![b] = Charged(b, at)]
          /\ IF tokens >= One(b) THEN Serve(r, b) ELSE Refuse(r, h[r], b, tokens)
  /\ UNCHANGED <<now, backend>>

\* Redis is out of reach: the request is let through and charged to nobody.
FailOpen(r) ==
  /\ backend = "redis"
  /\ h[r].pc = "check"
  /\ Serve(r, Nil)
  /\ UNCHANGED <<now, backend, bucket>>

-----------------------------------------------------------------------------
(* Time.                                                                   *)

Tick ==
  /\ now < MaxTime
  /\ now' = now + 1
  /\ UNCHANGED <<backend, bucket, h>>

\* The sweep drops an entry nobody has used for the idle window.  It visits
\* the entries one after the other, whenever its timer fires.
PruneIdle(b) ==
  /\ backend = "memory"
  /\ bucket[b] # Nil
  /\ \E at \in Clock : at - bucket[b].last_seen >= IdleWindow
  /\ bucket' = [bucket EXCEPT ![b] = Nil]
  /\ UNCHANGED <<now, backend, h>>

Next ==
  \/ \E r \in Request : Peek(r) \/ Check(r) \/ FailOpen(r)
  \/ \E b \in Bucket : PruneIdle(b)
  \/ Tick

Spec == Init /\ [][Next]_vars

-----------------------------------------------------------------------------
(* Properties.                                                             *)

State == [pc : {"idle", "check", "served", "refused"}, ip : Ip \cup {Nil},
          user : User \cup {Nil}, kind : Kind \cup {Nil}, bucket : Bucket \cup {Nil},
          retry : Nat, time : Nat]

\* Every bucket holds between nothing and its capacity, and every request
\* that waits for its check has an address and a kind.
TypeOK ==
  /\ now \in 0 .. MaxTime
  /\ backend \in Backends
  /\ DOMAIN bucket = Bucket
  /\ \A b \in Bucket : bucket[b] # Nil =>
       bucket[b] \in [tokens : 0 .. Full(b), last_refill : 0 .. now, last_seen : 0 .. now]
  /\ h \in [Request -> State]
  /\ \A r \in Request : h[r].pc # "idle" => h[r].ip \in Ip /\ h[r].kind \in Kind

Paid(b) == {r \in Request : h[r].pc = "served" /\ h[r].bucket = b}

Allowance(b) == Full(b) + Lag * Rate(b)

\* The credit the store would grant at the present time.
Level(b) ==
  IF Entry(b) = Nil THEN Allowance(b)
  ELSE Least(Allowance(b), bucket[b].tokens + (now - bucket[b].last_refill) * Rate(b))

Promise == INSTANCE TokenBucket WITH
  level <- [b \in Bucket |-> Level(b)], paid <- [b \in Bucket |-> Paid(b)],
  Burst <- Allowance

\* Each served request took a whole token from a bucket that fills at its
\* rate up to its capacity.
KeepsPromise == Promise!Spec

\* The credit of the bucket that refused r, d ticks after the refusal.
CreditAfter(r, d) ==
  Credit(h[r].bucket, bucket[h[r].bucket], now + d)

JustRefused(r) == h[r].pc # "refused" /\ h'[r].pc = "refused"

\* What the header cuts off the wait the store asks for, at most.
CutOff == IF backend = "memory" THEN 0 ELSE Second - 1

\* A request is refused only by a bucket that its own clients have drained:
\* the users behind one address pay from buckets of their own and do not drain
\* the address ("without one user starving the others").  A client that then
\* waits as long as it is told finds a token of the map in the process, unless
\* somebody else took it; with Redis it may come too early, by less than a
\* second.
RefusalIsFair ==
  [][\A r \in Request : JustRefused(r) =>
       /\ Cardinality(Paid(h'[r].bucket)) >= LimitOf(h'[r].bucket).capacity
       /\ CreditAfter(r, h[r].retry + CutOff)' >= One(h'[r].bucket)]_vars

\* With either store the wait that a client is told is enough ("rounded up to
\* whole seconds").
WaitIsEnough ==
  [][\A r \in Request : JustRefused(r) =>
       CreditAfter(r, h[r].retry)' >= One(h'[r].bucket)]_vars

=============================================================================
