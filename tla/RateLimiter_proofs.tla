------------------------ MODULE RateLimiter_proofs -------------------------
(* The buckets of RateLimiter stay well formed, each of them keeps the       *)
(* promise of TokenBucket, and none refuses without cause, for any number of *)
(* requests, addresses, accounts and kinds and any limits.                   *)
EXTENDS RateLimiter, FiniteSetTheorems, TLAPS

-----------------------------------------------------------------------------
(* Arithmetic.                                                             *)

LEMMA Distributes ==
  ASSUME NEW x \in Int, NEW y \in Int, NEW R \in Int
  PROVE  (x + y) * R = x * R + y * R
  OBVIOUS

LEMMA Grows ==
  ASSUME NEW x \in Int, NEW y \in Int, NEW R \in Nat, x <= y
  PROVE  x * R <= y * R
<1>1. (y - x) * R \in Nat
  BY y - x \in Nat
<1>2. y * R = x * R + (y - x) * R
  BY y = x + (y - x), Distributes, y - x \in Int
<1> QED BY <1>1, <1>2

LEMMA GainSplits ==
  ASSUME NEW l \in Int, NEW at \in Int, NEW t \in Int, NEW R \in Int
  PROVE  (t - l) * R = (at - l) * R + (t - at) * R
<1>1. t - l = (at - l) + (t - at) /\ at - l \in Int /\ t - at \in Int
  OBVIOUS
<1> QED BY <1>1, Distributes

\* What the numbers of a bucket are like.
LEMMA Sizes ==
  ASSUME NEW b \in Bucket
  PROVE  /\ One(b) \in Nat \ {0}
         /\ Rate(b) \in Nat \ {0}
         /\ Full(b) \in Nat /\ One(b) <= Full(b)
         /\ Lag * Rate(b) \in Nat
         /\ Allowance(b) = Full(b) + Lag * Rate(b)
         /\ Allowance(b) \in Nat
<1> DEFINE l == LimitOf(b)
<1>1. l \in Limit
  BY LimitsAssumption DEF LimitOf, Bucket
<1>2. One(b) \in Nat \ {0}
  <2>1. l.refill_interval_secs \in Nat \ {0} /\ Second \in Nat \ {0}
    BY <1>1, TimeAssumption DEF Limit
  <2> QED BY <2>1 DEF One
<1>3. Rate(b) \in Nat \ {0}
  BY <1>1 DEF Limit, Rate
<1>4. l.capacity \in Nat \ {0}
  BY <1>1 DEF Limit
<1>5. Full(b) \in Nat /\ One(b) <= Full(b)
  <2> HIDE DEF l
  <2>1. Full(b) = l.capacity * One(b)
    BY DEF Full, l
  <2>2. 1 * One(b) <= l.capacity * One(b)
    BY <1>2, <1>4, Grows
  <2>3. l.capacity * One(b) \in Nat
    BY <1>2, <1>4
  <2> QED BY <1>2, <2>1, <2>2, <2>3
<1>6. Lag * Rate(b) \in Nat
  BY <1>3, TimeAssumption
<1> QED BY <1>2, <1>3, <1>5, <1>6 DEF Allowance

-----------------------------------------------------------------------------
(* Types.                                                                  *)

EntryOf(b) == [tokens : 0 .. Full(b), last_refill : 0 .. now, last_seen : 0 .. now]

\* A request is put down to a bucket only once it is answered.
Unanswered == \A r \in Request : h[r].pc \in {"idle", "check"} => h[r].bucket = Nil

TypeInv == TypeOK /\ Unanswered

LEMMA EntryIsNotNil ==
  ASSUME NEW b \in Bucket, now \in Nat, NEW e \in EntryOf(b)
  PROVE  e # Nil
<1>1. Full(b) \in Nat
  BY Sizes
<1>2. e \in [tokens : Nat, last_refill : Int, last_seen : Int]
  BY <1>1 DEF EntryOf
<1> QED BY <1>2, KeysAssumption

LEMMA ClockRuns ==
  ASSUME now \in Nat, NEW at \in Clock
  PROVE  at \in 0 .. now
  BY TimeAssumption DEF Clock

LEMMA CreditInRange ==
  ASSUME now \in Nat, NEW b \in Bucket, NEW e \in EntryOf(b), NEW at \in 0 .. now
  PROVE  Credit(b, e, at) \in 0 .. Full(b)
<1>1. Full(b) \in Nat /\ Rate(b) \in Nat
  BY Sizes
<1>2. e.tokens \in 0 .. Full(b) /\ e.last_refill \in 0 .. now
  BY DEF EntryOf
<1>3. CASE at <= e.last_refill
  BY <1>1, <1>2, <1>3 DEF Credit
<1>4. CASE ~(at <= e.last_refill)
  <2> DEFINE g == (at - e.last_refill) * Rate(b)
  <2>1. g \in Nat
    BY <1>1, <1>2, <1>4, at - e.last_refill \in Nat
  <2>2. Credit(b, e, at) = Least(Full(b), e.tokens + g)
    BY <1>4 DEF Credit
  <2> HIDE DEF g
  <2> QED BY <1>1, <1>2, <2>1, <2>2 DEF Least
<1> QED BY <1>3, <1>4

LEMMA SeededIsEntry ==
  ASSUME TypeOK, NEW b \in Bucket, NEW at \in 0 .. now
  PROVE  Seeded(b, at) \in EntryOf(b)
<1>1. CASE Entry(b) = Nil
  BY <1>1, Sizes DEF Seeded, EntryOf
<1>2. CASE Entry(b) # Nil
  BY <1>2 DEF Seeded, Entry, EntryOf, TypeOK
<1> QED BY <1>1, <1>2

\* The header keeps the wait to less than a second.
LEMMA ToldWait ==
  ASSUME NEW wait \in Nat
  PROVE  /\ rate_limited_response(wait) \in Nat \ {0}
         /\ wait <= rate_limited_response(wait) + (Second - 1)
<1>1. PICK S \in Nat \ {0} : S = Second
  BY TimeAssumption
<1> DEFINE q == wait \div S
           m == Most(1, q)
<1>2. q \in Nat /\ wait < q * S + S
  OBVIOUS
<1> HIDE DEF q
<1>3. m \in Nat \ {0} /\ q <= m
  BY <1>2 DEF Most
<1> HIDE DEF m
<1>4. q * S <= m * S /\ m * S \in Nat \ {0} /\ q * S \in Nat
  BY <1>2, <1>3, Grows
<1>5. rate_limited_response(wait) = m * S
  BY <1>1 DEF rate_limited_response, m, q
<1> QED BY <1>1, <1>2, <1>4, <1>5

LEMMA RetryIsNat ==
  ASSUME NEW b \in Bucket, NEW tokens \in Int
  PROVE  retry_after(b, tokens) \in Nat
<1>1. One(b) \in Nat \ {0} /\ Rate(b) \in Nat \ {0} /\ Second \in Nat \ {0}
  BY Sizes, TimeAssumption
<1>2. \A x \in Int, y \in Nat \ {0} : DivUp(x, y) \in Int
  BY DEF DivUp
<1>3. Rate(b) * Second \in Nat \ {0}
  BY <1>1
<1>4. \A n \in Int : Most(1, n) \in Nat
  BY DEF Most
<1>5. One(b) - tokens \in Int
  BY <1>1
<1>6. Most(1, DivUp(One(b) - tokens, Rate(b) * Second)) \in Nat
  BY <1>2, <1>3, <1>4, <1>5
<1>7. Most(1, DivUp(One(b) - tokens, Rate(b))) \in Nat
  BY <1>1, <1>2, <1>4, <1>5
<1>8. Most(1, DivUp(One(b) - tokens, Rate(b) * Second)) * Second \in Nat
  BY <1>1, <1>6
<1> QED BY <1>7, <1>8 DEF retry_after

LEMMA InitTyped == Init => TypeInv
<1> SUFFICES ASSUME Init PROVE TypeInv
  OBVIOUS
<1>1. Idle \in State
  BY DEF Idle, State
<1>2. h \in [Request -> State]
  BY <1>1 DEF Init
<1>3. TypeOK
  BY <1>2, TimeAssumption DEF Init, TypeOK, Idle
<1>4. Unanswered
  BY DEF Init, Unanswered, Idle
<1> QED BY <1>3, <1>4 DEF TypeInv

LEMMA PeekTyped ==
  ASSUME TypeInv, NEW r \in Request, Peek(r)
  PROVE  TypeInv'
<1> USE DEF TypeInv
<1>1. PICK ip \in Ip, user \in User \cup {Nil}, kind \in Kind, at \in Clock :
        LET b == <<ip, kind>>
            req == [Idle EXCEPT !.ip = ip, !.user = user, !.kind = kind]
        IN IF backend = "memory" /\ bucket[b] # Nil /\ Credit(b, bucket[b], at) < One(b)
           THEN Refuse(r, req, b, Credit(b, bucket[b], at))
           ELSE h' = [h EXCEPT ![r] = [req EXCEPT !.pc = "check"]]
  BY DEF Peek
<1> DEFINE b == <<ip, kind>>
           req == [Idle EXCEPT !.ip = ip, !.user = user, !.kind = kind]
<1>2. UNCHANGED <<now, backend, bucket>>
  BY DEF Peek
<1>3. b \in Bucket
  BY DEF Bucket
<1>4. now \in Nat /\ at \in 0 .. now
  <2>1. now \in Nat
    BY DEF TypeOK
  <2> QED BY <2>1, ClockRuns
<1>5. CASE backend = "memory" /\ bucket[b] # Nil /\ Credit(b, bucket[b], at) < One(b)
  <2>1. Credit(b, bucket[b], at) \in Int
    <3>1. bucket[b] \in EntryOf(b)
      BY <1>3, <1>5 DEF TypeOK, EntryOf
    <3>2. Credit(b, bucket[b], at) \in 0 .. Full(b) /\ Full(b) \in Nat
      BY <1>3, <1>4, <3>1, CreditInRange, Sizes
    <3> QED BY <3>2
  <2> DEFINE d == rate_limited_response(retry_after(b, Credit(b, bucket[b], at)))
  <2>2. d \in Nat
    BY <1>3, <2>1, RetryIsNat, ToldWait
  <2>3. h' = [h EXCEPT ![r] = [req EXCEPT !.pc = "refused", !.bucket = b,
                                          !.time = now, !.retry = d]]
    BY <1>1, <1>5 DEF Refuse
  <2> HIDE DEF d, b
  <2>4. [req EXCEPT !.pc = "refused", !.bucket = b, !.time = now, !.retry = d] \in State
    BY <1>3, <1>4, <2>2 DEF Idle, State
  <2> QED BY <1>2, <2>3, <2>4 DEF TypeOK, Unanswered, Idle, State
<1>6. CASE ~(backend = "memory" /\ bucket[b] # Nil /\ Credit(b, bucket[b], at) < One(b))
  <2>1. h' = [h EXCEPT ![r] = [req EXCEPT !.pc = "check"]]
    BY <1>1, <1>6
  <2>2. [req EXCEPT !.pc = "check"] \in State
    BY DEF Idle, State
  <2> QED BY <1>2, <2>1, <2>2 DEF TypeOK, Unanswered, Idle, State
<1> QED BY <1>5, <1>6

\* A check, by the bucket and the time it picks.
LEMMA CheckPicks ==
  ASSUME TypeInv, NEW r \in Request, Check(r)
  PROVE  /\ h[r].pc = "check"
         /\ UNCHANGED <<now, backend>>
         /\ \E b \in Bucket : \E at \in Clock :
              /\ bucket' = [bucket EXCEPT ![b] = Charged(b, at)]
              /\ IF Credit(b, Seeded(b, at), at) >= One(b)
                 THEN Serve(r, b)
                 ELSE Refuse(r, h[r], b, Credit(b, Seeded(b, at), at))
<1>1. h[r].pc = "check" /\ UNCHANGED <<now, backend>>
  BY DEF Check
<1>2. h[r].ip \in Ip /\ h[r].kind \in Kind /\ h[r].user \in User \cup {Nil}
  <2>1. h[r] \in State
    BY DEF TypeInv, TypeOK
  <2>2. h[r].user \in User \cup {Nil}
    BY <2>1 DEF State
  <2>3. h[r].pc # "idle" => h[r].ip \in Ip /\ h[r].kind \in Kind
    BY DEF TypeInv, TypeOK
  <2> QED BY <1>1, <2>2, <2>3
<1>3. PICK key \in resolve_key(r), at \in Clock :
        LET b == <<key, h[r].kind>>
            tokens == Credit(b, Seeded(b, at), at)
        IN /\ bucket' = [bucket EXCEPT ![b] = Charged(b, at)]
           /\ IF tokens >= One(b) THEN Serve(r, b) ELSE Refuse(r, h[r], b, tokens)
  BY DEF Check
<1> DEFINE b == <<key, h[r].kind>>
<1>4. key \in Ip \cup User
  BY <1>2 DEF resolve_key
<1>5. b \in Bucket
  BY <1>2, <1>4 DEF Bucket
<1> QED BY <1>1, <1>3, <1>5

LEMMA ChargedIsEntry ==
  ASSUME TypeOK, NEW b \in Bucket, NEW at \in 0 .. now
  PROVE  /\ Charged(b, at) \in EntryOf(b)
         /\ Charged(b, at) # Nil
         /\ Credit(b, Seeded(b, at), at) \in 0 .. Full(b)
<1> DEFINE e == Seeded(b, at)
           c == Credit(b, e, at)
<1>1. now \in Nat
  BY DEF TypeOK
<1>2. One(b) \in Nat \ {0} /\ Full(b) \in Nat
  BY Sizes
<1>3. e \in EntryOf(b)
  BY SeededIsEntry
<1> HIDE DEF e
<1>4. c \in 0 .. Full(b)
  BY <1>1, <1>3, CreditInRange
<1> HIDE DEF c
<1>5. (IF c >= One(b) THEN c - One(b) ELSE c) \in 0 .. Full(b)
  BY <1>2, <1>4
<1>6. Most(at, e.last_refill) \in 0 .. now
  BY <1>1, <1>3 DEF EntryOf, Most
<1>7. Charged(b, at) \in EntryOf(b)
  BY <1>1, <1>5, <1>6 DEF Charged, InMemory, InRedis, Spent, EntryOf, c, e
<1>8. Charged(b, at) # Nil
  BY <1>1, <1>7, EntryIsNotNil
<1> QED BY <1>4, <1>7, <1>8 DEF c, e

LEMMA CheckTyped ==
  ASSUME TypeInv, NEW r \in Request, Check(r)
  PROVE  TypeInv'
<1> USE DEF TypeInv
<1>1. h[r].pc = "check" /\ UNCHANGED <<now, backend>>
  BY CheckPicks
<1>2. PICK b \in Bucket : \E at \in Clock :
        /\ bucket' = [bucket EXCEPT ![b] = Charged(b, at)]
        /\ IF Credit(b, Seeded(b, at), at) >= One(b)
           THEN Serve(r, b)
           ELSE Refuse(r, h[r], b, Credit(b, Seeded(b, at), at))
  BY CheckPicks
<1>3. PICK at \in Clock :
        /\ bucket' = [bucket EXCEPT ![b] = Charged(b, at)]
        /\ IF Credit(b, Seeded(b, at), at) >= One(b)
           THEN Serve(r, b)
           ELSE Refuse(r, h[r], b, Credit(b, Seeded(b, at), at))
  BY <1>2
<1> DEFINE c == Credit(b, Seeded(b, at), at)
           d == rate_limited_response(retry_after(b, c))
<1>4. now \in Nat /\ at \in 0 .. now
  <2>1. now \in Nat
    BY DEF TypeOK
  <2> QED BY <2>1, ClockRuns
<1>5. Charged(b, at) \in EntryOf(b) /\ Charged(b, at) # Nil
  BY <1>4, ChargedIsEntry
<1>6. c \in Int
  <2>1. c \in 0 .. Full(b) /\ Full(b) \in Nat
    BY <1>4, ChargedIsEntry, Sizes
  <2> QED BY <2>1
<1>7. d \in Nat
  BY <1>6, RetryIsNat, ToldWait
<1>8. h \in [Request -> State] /\ h[r] \in State
  BY DEF TypeOK
<1>9. PICK g \in State :
        /\ h' = [h EXCEPT ![r] = g]
        /\ g.pc \in {"served", "refused"} /\ g.ip = h[r].ip /\ g.kind = h[r].kind
  <2>1. CASE c >= One(b)
    <3> DEFINE g == [h[r] EXCEPT !.pc = "served", !.bucket = b, !.time = now]
    <3>1. g \in State /\ g.pc = "served" /\ g.ip = h[r].ip /\ g.kind = h[r].kind
      BY <1>4, <1>8 DEF State
    <3>2. h' = [h EXCEPT ![r] = g]
      BY <1>3, <2>1 DEF Serve
    <3> QED BY <3>1, <3>2
  <2>2. CASE ~(c >= One(b))
    <3> DEFINE g == [h[r] EXCEPT !.pc = "refused", !.bucket = b, !.time = now, !.retry = d]
    <3>1. h' = [h EXCEPT ![r] = g]
      BY <1>3, <2>2 DEF Refuse
    <3> HIDE DEF d
    <3>2. g \in State /\ g.pc = "refused" /\ g.ip = h[r].ip /\ g.kind = h[r].kind
      BY <1>4, <1>7, <1>8 DEF State
    <3> QED BY <3>1, <3>2
  <2> QED BY <2>1, <2>2
<1>10. h' \in [Request -> State]
  BY <1>8, <1>9
<1>11. \A s \in Request : h'[s].pc # "idle" => h'[s].ip \in Ip /\ h'[s].kind \in Kind
  BY <1>1, <1>8, <1>9 DEF TypeOK
<1>12. \A k \in Bucket : bucket'[k] # Nil => bucket'[k] \in EntryOf(k)
  BY <1>3, <1>5 DEF TypeOK, EntryOf
<1>13. Unanswered'
  BY <1>8, <1>9 DEF Unanswered
<1> QED BY <1>1, <1>3, <1>10, <1>11, <1>12, <1>13 DEF TypeOK, EntryOf

LEMMA FailOpenTyped ==
  ASSUME TypeInv, NEW r \in Request, FailOpen(r)
  PROVE  TypeInv'
<1> USE DEF TypeInv
<1>1. h[r] \in State /\ now \in Nat /\ h[r].pc = "check"
  BY DEF TypeOK, FailOpen
<1> DEFINE g == [h[r] EXCEPT !.pc = "served", !.bucket = Nil, !.time = now]
<1>2. g \in State /\ g.pc = "served" /\ g.ip = h[r].ip /\ g.kind = h[r].kind
  BY <1>1 DEF State
<1>3. h' = [h EXCEPT ![r] = g] /\ UNCHANGED <<now, backend, bucket>>
  BY DEF FailOpen, Serve
<1> HIDE DEF g
<1>4. h' \in [Request -> State]
  BY <1>2, <1>3 DEF TypeOK
<1>5. \A s \in Request : h'[s].pc # "idle" => h'[s].ip \in Ip /\ h'[s].kind \in Kind
  BY <1>1, <1>2, <1>3 DEF TypeOK
<1>6. Unanswered'
  BY <1>2, <1>3 DEF Unanswered, TypeOK
<1> QED BY <1>3, <1>4, <1>5, <1>6 DEF TypeOK

LEMMA TickTyped ==
  ASSUME TypeInv, Tick
  PROVE  TypeInv'
<1> USE DEF TypeInv
<1>1. now' = now + 1 /\ now' \in 0 .. MaxTime /\ UNCHANGED <<backend, bucket, h>>
  BY TimeAssumption DEF Tick, TypeOK
<1>2. \A b \in Bucket : bucket'[b] # Nil => bucket'[b] \in EntryOf(b)'
  <2> SUFFICES ASSUME NEW b \in Bucket, bucket[b] # Nil
               PROVE  bucket[b] \in EntryOf(b)'
    BY <1>1
  <2>1. bucket[b] \in EntryOf(b) /\ Full(b)' = Full(b)
    BY DEF TypeOK, EntryOf, Full, One, LimitOf
  <2>2. now \in Nat
    BY DEF TypeOK
  <2> QED BY <1>1, <2>1, <2>2 DEF EntryOf
<1> QED BY <1>1, <1>2 DEF TypeOK, Unanswered, EntryOf

LEMMA PruneIdleTyped ==
  ASSUME TypeInv, NEW b \in Bucket, PruneIdle(b)
  PROVE  TypeInv'
<1>1. bucket' = [bucket EXCEPT ![b] = Nil] /\ UNCHANGED <<now, backend, h>>
  BY DEF PruneIdle
<1> QED BY <1>1 DEF TypeInv, TypeOK, Unanswered

LEMMA NextTyped == TypeInv /\ [Next]_vars => TypeInv'
<1> SUFFICES ASSUME TypeInv, [Next]_vars PROVE TypeInv'
  OBVIOUS
<1>1. ASSUME NEW r \in Request, Peek(r) PROVE TypeInv'
  BY <1>1, PeekTyped
<1>2. ASSUME NEW r \in Request, Check(r) PROVE TypeInv'
  BY <1>2, CheckTyped
<1>3. ASSUME NEW r \in Request, FailOpen(r) PROVE TypeInv'
  BY <1>3, FailOpenTyped
<1>4. ASSUME NEW b \in Bucket, PruneIdle(b) PROVE TypeInv'
  BY <1>4, PruneIdleTyped
<1>5. CASE Tick
  BY <1>5, TickTyped
<1>6. CASE UNCHANGED vars
  BY <1>6 DEF vars, TypeInv, TypeOK, Unanswered
<1> QED BY <1>1, <1>2, <1>3, <1>4, <1>5, <1>6 DEF Next

LEMMA Typed == Spec => []TypeInv
<1> QED BY InitTyped, NextTyped, PTL DEF Spec

\* Whatever the limits, the windows and the lags, every bucket of the rate
\* limiter stays between nothing and its capacity, and every request that
\* waits for its check has an address and a kind.
THEOREM TypeCorrect == Spec => []TypeOK
<1>1. TypeInv => TypeOK
  BY DEF TypeInv
<1> QED BY <1>1, Typed, PTL

-----------------------------------------------------------------------------
(* The promise.  It needs the clocks of the replicas to agree, and windows   *)
(* in which an idle bucket would have filled by itself.                      *)

WindowsFill ==
  \A b \in Bucket :
    /\ (IdleWindow - 2 * Lag) * Rate(b) >= Full(b)
    /\ (4 * One(b) - Lag) * Rate(b) >= Full(b)

\* How an entry's two times are apart.
Ages ==
  \A b \in Bucket : bucket[b] # Nil =>
    IF backend = "memory" THEN bucket[b].last_refill <= bucket[b].last_seen + Lag
    ELSE bucket[b].last_seen = bucket[b].last_refill

LevelOf(b, e, t) ==
  Least(Allowance(b), e.tokens + (t - e.last_refill) * Rate(b))

LEMMA SizesDoNotChange ==
  ASSUME NEW b \in Bucket
  PROVE  One(b)' = One(b) /\ Full(b)' = Full(b) /\ Rate(b)' = Rate(b)
         /\ Allowance(b)' = Allowance(b)
  BY DEF One, Full, Rate, Allowance, LimitOf

LEMMA ClockIsNear ==
  ASSUME TypeInv, Skew = 0, NEW at \in Clock
  PROVE  /\ now \in Nat /\ at \in 0 .. now
         /\ now - at <= Lag
         /\ backend # "memory" => at = now
<1>1. now \in Nat /\ Lag \in Nat
  BY TimeAssumption DEF TypeInv, TypeOK
<1>2. at \in 0 .. now
  BY <1>1, ClockRuns
<1> QED BY <1>1, <1>2 DEF Clock

\* A lag of at most Lag brings in at most what the allowance has on top of
\* the capacity.
LEMMA GainOfLag ==
  ASSUME NEW b \in Bucket, NEW d \in Int, d <= Lag
  PROVE  d * Rate(b) <= Lag * Rate(b) /\ (d >= 0 => d * Rate(b) \in Nat)
<1>1. Rate(b) \in Nat /\ Lag \in Nat
  BY Sizes, TimeAssumption
<1>2. d * Rate(b) <= Lag * Rate(b)
  BY <1>1, Grows
<1>3. d >= 0 => d * Rate(b) \in Nat
  BY <1>1
<1> QED BY <1>2, <1>3

LEMMA ChargedLevel ==
  ASSUME TypeInv, Skew = 0, NEW b \in Bucket, NEW at \in Clock
  PROVE  LET e == Seeded(b, at)
             c == Credit(b, e, at)
         IN /\ c >= One(b) => LevelOf(b, Charged(b, at), now) \in 0 .. LevelOf(b, e, now) - One(b)
            /\ c < One(b) => LevelOf(b, Charged(b, at), now) = LevelOf(b, e, now)
<1> DEFINE e == Seeded(b, at)
           c == Credit(b, e, at)
           F == Full(b)
           O == One(b)
           R == Rate(b)
           A == Allowance(b)
           l == e.last_refill
           t == e.tokens
           m == IF at <= l THEN l ELSE at
           g == (at - l) * R
           q == (now - m) * R
<1>1. now \in Nat /\ at \in 0 .. now /\ now - at <= Lag /\ (backend # "memory" => at = now)
  BY ClockIsNear
<1>2. e \in EntryOf(b)
  BY <1>1, SeededIsEntry DEF TypeInv
<1>3. F \in Nat /\ O \in Nat /\ O <= F /\ A \in Nat /\ A - F = Lag * R /\ R \in Nat \ {0}
  BY Sizes
<1> HIDE DEF e
<1>4. l \in 0 .. now /\ t \in 0 .. F
  BY <1>2 DEF EntryOf
<1>5. m \in 0 .. now /\ now - m <= Lag
  BY <1>1, <1>4, TimeAssumption
<1>6. q \in Nat /\ q <= A - F
  <2>1. now - m \in Int /\ now - m >= 0
    BY <1>1, <1>5
  <2> HIDE DEF m, F, A, R
  <2>2. (now - m) * Rate(b) <= Lag * Rate(b) /\ (now - m) * Rate(b) \in Nat
    BY <1>5, <2>1, GainOfLag
  <2> QED BY <1>3, <2>2 DEF R
<1>7. g \in Int /\ (g <= 0 <=> at <= l)
  <2>1. at - l \in Int /\ R \in Int
    BY <1>1, <1>3, <1>4
  <2>2. CASE at <= l
    <3>1. l - at \in Nat
      BY <1>1, <1>4, <2>2
    <3>2. (l - at) * R \in Nat
      BY <1>3, <3>1
    <3>3. (at - l) * R + (l - at) * R = ((at - l) + (l - at)) * R
      BY <2>1, <3>1, Distributes
    <3>4. (at - l) + (l - at) = 0 /\ 0 * R = 0
      BY <1>1, <1>3, <1>4
    <3>5. g \in Int
      BY <2>1
    <3> QED BY <2>2, <3>2, <3>3, <3>4, <3>5
  <2>3. CASE ~(at <= l)
    <3>1. 1 <= at - l
      BY <1>1, <1>4, <2>3
    <3>2. 1 * R <= (at - l) * R
      BY <1>3, <2>1, <3>1, Grows
    <3>3. g \in Int
      BY <2>1
    <3> QED BY <1>3, <2>3, <3>2, <3>3
  <2> QED BY <2>2, <2>3
<1>8. c = IF g <= 0 THEN t ELSE Least(F, t + g)
  BY <1>7 DEF Credit
<1>9. c \in Int
  <2>1. c \in 0 .. F
    BY <1>1, <1>2, CreditInRange
  <2> QED BY <1>3, <2>1
<1>10. LevelOf(b, e, now) = Least(A, IF g <= 0 THEN t + q ELSE t + g + q)
  <2>1. CASE at <= l
    BY <1>7, <2>1 DEF LevelOf
  <2>2. CASE ~(at <= l)
    <3>1. (now - l) * R = g + q
      <4>1. now \in Int /\ l \in Int /\ at \in Int /\ R \in Int
        BY <1>1, <1>3, <1>4
      <4>2. (now - l) * R = (at - l) * R + (now - at) * R
        BY <4>1, GainSplits
      <4> QED BY <2>2, <4>2
    <3>2. t + (g + q) = t + g + q
      BY <1>4, <1>3, <1>6, <1>7
    <3>3. LevelOf(b, e, now) = Least(A, t + (g + q))
      BY <3>1 DEF LevelOf
    <3> QED BY <1>7, <2>2, <3>2, <3>3
  <2> QED BY <2>1, <2>2
<1>11. Charged(b, at).last_refill = m
  BY <1>1, <1>4 DEF Charged, InMemory, InRedis, Spent, Most, e
<1>12. Charged(b, at).tokens = IF c >= O THEN c - O ELSE c
  BY DEF Charged, InMemory, InRedis, Spent, e
<1>13. LevelOf(b, Charged(b, at), now) = Least(A, (IF c >= O THEN c - O ELSE c) + q)
  BY <1>11, <1>12 DEF LevelOf
<1> HIDE DEF c, F, O, R, A, l, t, m, g, q
<1>14. /\ c >= O => Least(A, c - O + q) \in 0 .. Least(A, IF g <= 0 THEN t + q ELSE t + g + q) - O
       /\ c < O => Least(A, c + q) = Least(A, IF g <= 0 THEN t + q ELSE t + g + q)
  BY <1>3, <1>4, <1>6, <1>7, <1>8, <1>9 DEF Least
<1>15. /\ c >= O => LevelOf(b, Charged(b, at), now) \in 0 .. LevelOf(b, e, now) - O
       /\ c < O => LevelOf(b, Charged(b, at), now) = LevelOf(b, e, now)
  BY <1>3, <1>9, <1>10, <1>13, <1>14
<1> QED BY <1>15 DEF c, O, e

LEMMA AgesStep ==
  ASSUME TypeInv, Ages, Skew = 0, [Next]_vars
  PROVE  Ages'
<1>1. ASSUME NEW r \in Request, Check(r) PROVE Ages'
  <2>1. UNCHANGED backend
    BY <1>1, CheckPicks
  <2>2. PICK b \in Bucket : \E at \in Clock : bucket' = [bucket EXCEPT ![b] = Charged(b, at)]
    BY <1>1, CheckPicks
  <2>3. PICK at \in Clock : bucket' = [bucket EXCEPT ![b] = Charged(b, at)]
    BY <2>2
  <2>4. now \in Nat /\ at \in 0 .. now /\ now - at <= Lag /\ (backend # "memory" => at = now)
    BY ClockIsNear
  <2>5. Seeded(b, at).last_refill \in 0 .. now
    BY <2>4, SeededIsEntry DEF TypeInv, EntryOf
  <2> DEFINE e == Charged(b, at)
  <2>6. IF backend = "memory" THEN e.last_refill <= e.last_seen + Lag
        ELSE e.last_seen = e.last_refill
    BY <2>4, <2>5, TimeAssumption DEF Charged, InMemory, InRedis, Spent, Most
  <2> HIDE DEF e
  <2> QED BY <2>1, <2>3, <2>6 DEF Ages, TypeInv, TypeOK, e
<1>2. ASSUME NEW b \in Bucket, PruneIdle(b) PROVE Ages'
  BY <1>2 DEF PruneIdle, Ages, TypeInv, TypeOK
<1>3. ASSUME UNCHANGED <<backend, bucket>> PROVE Ages'
  BY <1>3 DEF Ages
<1> QED BY <1>1, <1>2, <1>3 DEF Next, Peek, FailOpen, Tick, vars

-----------------------------------------------------------------------------
(* Each step of the limiter is a step of the promise or a stutter.         *)

levels == [b \in Bucket |-> Level(b)]
payers == [b \in Bucket |-> Paid(b)]

LEMMA InitPromised == Init => Promise!Init
<1> SUFFICES ASSUME Init PROVE Promise!Init
  OBVIOUS
<1>1. \A b \in Bucket : Level(b) = Allowance(b) /\ Paid(b) = {}
  BY DEF Init, Level, Entry, Paid, Idle
<1> QED BY <1>1 DEF Promise!Init

\* The credit of a bucket is that of its entry.
LEMMA LevelIsOfEntry ==
  ASSUME NEW b \in Bucket
  PROVE  Level(b) = IF Entry(b) = Nil THEN Allowance(b) ELSE LevelOf(b, bucket[b], now)
  BY DEF Level, LevelOf

LEMMA LevelInRange ==
  ASSUME TypeInv, NEW b \in Bucket
  PROVE  Level(b) \in 0 .. Allowance(b)
<1>1. Allowance(b) \in Nat
  BY Sizes
<1>2. CASE Entry(b) = Nil
  BY <1>1, <1>2 DEF Level
<1>3. CASE Entry(b) # Nil
  <2>1. bucket[b] \in EntryOf(b)
    BY <1>3 DEF Entry, TypeInv, TypeOK, EntryOf
  <2>2. bucket[b].tokens \in Nat /\ bucket[b].last_refill \in 0 .. now /\ now \in Nat
    BY <2>1, Sizes DEF EntryOf, TypeInv, TypeOK
  <2>3. (now - bucket[b].last_refill) * Rate(b) \in Nat
    <3>1. now - bucket[b].last_refill \in Nat /\ Rate(b) \in Nat
      BY <2>2, Sizes
    <3> QED BY <3>1
  <2> QED BY <1>1, <1>3, <2>2, <2>3 DEF Level, Least
<1> QED BY <1>2, <1>3

LEMMA OtherLevels ==
  ASSUME NEW b \in Bucket, bucket'[b] = bucket[b], UNCHANGED <<now, backend>>
  PROVE  Level(b)' = Level(b)
  BY SizesDoNotChange DEF Level, Entry

LEMMA CheckedLevel ==
  ASSUME TypeInv, Skew = 0, NEW b \in Bucket, NEW at \in Clock,
         bucket' = [bucket EXCEPT ![b] = Charged(b, at)], UNCHANGED <<now, backend>>
  PROVE  LET c == Credit(b, Seeded(b, at), at)
         IN /\ c >= One(b) => Level(b)' \in 0 .. Level(b) - One(b)
            /\ c < One(b) => Level(b)' = Level(b)
<1> DEFINE e == Seeded(b, at)
           c == Credit(b, e, at)
           n == Charged(b, at)
<1>1. now \in Nat /\ at \in 0 .. now /\ now - at <= Lag /\ (backend # "memory" => at = now)
  BY ClockIsNear
<1>2. /\ One(b) \in Nat \ {0} /\ Full(b) \in Nat /\ One(b) <= Full(b)
      /\ Allowance(b) \in Nat /\ Allowance(b) = Full(b) + Lag * Rate(b)
  BY Sizes
<1>3. /\ c >= One(b) => LevelOf(b, n, now) \in 0 .. LevelOf(b, e, now) - One(b)
      /\ c < One(b) => LevelOf(b, n, now) = LevelOf(b, e, now)
  BY ChargedLevel
<1>4. n # Nil
  BY <1>1, ChargedIsEntry DEF TypeInv
<1>5. bucket'[b] = n
  BY DEF TypeInv, TypeOK
<1>6. backend = "redis" => n.last_seen = now
  BY DEF Charged, InMemory, InRedis, Spent
<1>7. Entry(b)' = n
  BY <1>1, <1>2, <1>5, <1>6, SizesDoNotChange DEF Entry
<1>8. Level(b)' = LevelOf(b, n, now)
  BY <1>4, <1>5, <1>7, SizesDoNotChange DEF Level, LevelOf
<1>9. CASE Entry(b) # Nil
  <2>1. e = bucket[b]
    BY <1>9 DEF Seeded, Entry
  <2>2. Level(b) = LevelOf(b, e, now)
    BY <1>9, <2>1, LevelIsOfEntry
  <2> QED BY <1>3, <1>8, <2>2
<1>10. CASE Entry(b) = Nil
  <2>1. e = [tokens |-> Full(b), last_refill |-> at, last_seen |-> at]
    BY <1>10 DEF Seeded
  <2>2. c = Full(b)
    BY <1>1, <2>1 DEF Credit
  <2>3. Level(b) = Allowance(b)
    BY <1>10 DEF Level
  <2>4. LevelOf(b, e, now) <= Allowance(b) /\ LevelOf(b, e, now) \in Int
    <3> DEFINE g == (now - at) * Rate(b)
    <3>1. g \in Int
      BY <1>1, Sizes
    <3>2. LevelOf(b, e, now) = Least(Allowance(b), Full(b) + g)
      BY <2>1 DEF LevelOf
    <3> HIDE DEF g
    <3> QED BY <1>2, <3>1, <3>2 DEF Least
  <2> HIDE DEF c, n, e
  <2>5. /\ c >= One(b) => Level(b)' \in 0 .. Level(b) - One(b)
        /\ c < One(b) => Level(b)' = Level(b)
    BY <1>2, <1>3, <1>8, <2>2, <2>3, <2>4
  <2> QED BY <2>5 DEF c, e
<1> QED BY <1>9, <1>10

\* What the credit of an entry is worth after d ticks without use.
LEMMA Matures ==
  ASSUME TypeInv, NEW b \in Bucket, bucket[b] # Nil, NEW d \in Int,
         (d - Lag) * Rate(b) >= Full(b), NEW t \in Int, t - bucket[b].last_refill >= d
  PROVE  bucket[b].tokens + (t - bucket[b].last_refill) * Rate(b) >= Allowance(b)
<1> DEFINE l == bucket[b].last_refill
<1>1. l \in Int /\ bucket[b].tokens \in Nat
  <2>1. bucket[b] \in EntryOf(b) /\ Full(b) \in Nat
    BY Sizes DEF EntryOf, TypeInv, TypeOK
  <2> QED BY <2>1 DEF EntryOf
<1>2. Rate(b) \in Nat /\ Lag \in Int /\ Full(b) \in Nat /\ Lag * Rate(b) \in Nat
      /\ Allowance(b) = Full(b) + Lag * Rate(b)
  BY Sizes, TimeAssumption
<1> HIDE DEF l
<1>3. d * Rate(b) <= (t - l) * Rate(b)
  BY <1>1, <1>2, Grows, t - l \in Int DEF l
<1>4. d * Rate(b) = (d - Lag) * Rate(b) + Lag * Rate(b)
  <2>1. d = (d - Lag) + Lag /\ d - Lag \in Int
    BY <1>2
  <2>2. ((d - Lag) + Lag) * Rate(b) = (d - Lag) * Rate(b) + Lag * Rate(b)
    BY <1>2, <2>1, Distributes
  <2> QED BY <2>1, <2>2
<1>5. d * Rate(b) \in Int /\ (d - Lag) * Rate(b) \in Int /\ (t - l) * Rate(b) \in Int
  BY <1>1, <1>2
<1>6. bucket[b].tokens + (t - l) * Rate(b) >= Allowance(b)
  BY <1>1, <1>2, <1>3, <1>4, <1>5
<1> QED BY <1>6 DEF l

\* A tick fills every bucket at its rate; the expiry of a key changes nothing.
LEMMA TickLevel ==
  ASSUME TypeInv, Ages, Skew = 0, WindowsFill, Tick, NEW b \in Bucket
  PROVE  Level(b)' = Least(Allowance(b), Level(b) + Rate(b))
<1> DEFINE l == bucket[b].last_refill
           x == bucket[b].tokens + (now - l) * Rate(b)
           y == bucket[b].tokens + ((now + 1) - l) * Rate(b)
           gone == backend = "redis" /\ bucket[b] # Nil
                   /\ (now + 1) - bucket[b].last_seen >= 4 * One(b)
<1>1. now \in Nat /\ now' = now + 1 /\ UNCHANGED <<backend, bucket, h>>
  BY DEF Tick, TypeInv, TypeOK
<1>2. Allowance(b) \in Nat /\ Rate(b) \in Nat /\ One(b) \in Nat
  BY Sizes
<1>3. One(b)' = One(b) /\ Rate(b)' = Rate(b) /\ Allowance(b)' = Allowance(b)
  BY SizesDoNotChange
<1>4. Entry(b)' = IF gone THEN Nil ELSE bucket[b]
  BY <1>1, <1>3 DEF Entry
<1>5. Level(b)' = IF Entry(b)' = Nil THEN Allowance(b) ELSE Least(Allowance(b), y)
  <2>1. y = (bucket[b].tokens + (now - bucket[b].last_refill) * Rate(b))'
    BY <1>1, <1>3
  <2>2. Allowance(b)' = Allowance(b)
    BY <1>3
  <2> HIDE DEF y
  <2> QED BY <2>1, <2>2 DEF Level
<1> HIDE DEF gone
<1>6. CASE Entry(b) = Nil
  <2>1. Entry(b)' = Nil
    <3>1. CASE bucket[b] = Nil
      BY <1>4, <3>1
    <3>2. CASE bucket[b] # Nil
      <4>1. bucket[b].last_seen \in Int
        BY <1>1, <3>2 DEF TypeInv, TypeOK
      <4>2. backend = "redis" /\ now - bucket[b].last_seen >= 4 * One(b)
        BY <1>6, <3>2 DEF Entry
      <4>3. (now + 1) - bucket[b].last_seen >= 4 * One(b)
        BY <1>1, <1>2, <4>1, <4>2
      <4>4. gone
        BY <3>2, <4>2, <4>3 DEF gone
      <4> QED BY <1>4, <4>4
    <3> QED BY <3>1, <3>2
  <2>2. Level(b) = Allowance(b) /\ Level(b)' = Allowance(b)
    BY <1>6, <1>5, <2>1 DEF Level
  <2> QED BY <1>2, <2>2 DEF Least
<1>7. CASE Entry(b) # Nil
  <2>1. bucket[b] # Nil
    BY <1>7 DEF Entry
  <2>2. l \in Int /\ bucket[b].last_seen \in Int /\ bucket[b].tokens \in Int
    <3>1. Full(b) \in Nat
      BY Sizes
    <3> QED BY <1>1, <2>1, <3>1 DEF TypeInv, TypeOK
  <2>3. Level(b) = Least(Allowance(b), x)
    BY <1>7 DEF Level
  <2>4. y = x + Rate(b) /\ x \in Int
    <3>1. (now + 1) - l = (now - l) + 1 /\ now - l \in Int
      BY <1>1, <2>2
    <3>2. ((now - l) + 1) * Rate(b) = (now - l) * Rate(b) + 1 * Rate(b)
      BY <1>2, <3>1, Distributes
    <3>3. (now - l) * Rate(b) \in Int /\ 1 * Rate(b) = Rate(b)
      BY <1>2, <3>1
    <3>4. ((now + 1) - l) * Rate(b) = (now - l) * Rate(b) + Rate(b)
      BY <3>1, <3>2, <3>3
    <3> HIDE DEF l
    <3> QED BY <1>2, <2>2, <3>3, <3>4
  <2>5. Level(b)' = Least(Allowance(b), y)
    <3>1. CASE Entry(b)' # Nil
      BY <1>5, <3>1
    <3>2. CASE Entry(b)' = Nil
      <4>1. backend = "redis" /\ (now + 1) - bucket[b].last_seen >= 4 * One(b)
        <5>1. gone
          BY <1>4, <2>1, <3>2
        <5> QED BY <5>1 DEF gone
      <4>2. bucket[b].last_seen = l
        BY <2>1, <4>1 DEF Ages
      <4>3. (4 * One(b) - Lag) * Rate(b) >= Full(b)
        BY DEF WindowsFill
      <4>4. y >= Allowance(b)
        <5>1. 4 * One(b) \in Int /\ now + 1 \in Int /\ (now + 1) - l >= 4 * One(b)
          BY <1>1, <1>2, <4>1, <4>2
        <5> DEFINE d == 4 * One(b)
                   u == now + 1
        <5>2. d \in Int /\ u \in Int /\ u - bucket[b].last_refill >= d
              /\ (d - Lag) * Rate(b) >= Full(b)
          BY <4>3, <5>1
        <5> HIDE DEF d, u
        <5>3. bucket[b].tokens + (u - bucket[b].last_refill) * Rate(b) >= Allowance(b)
          BY <2>1, <5>2, Matures
        <5> QED BY <5>3 DEF u
      <4>5. Level(b)' = Allowance(b)
        BY <1>5, <3>2
      <4> HIDE DEF y
      <4>6. y \in Int
        BY <1>2, <2>4
      <4> QED BY <1>2, <4>4, <4>5, <4>6 DEF Least
    <3> QED BY <3>1, <3>2
  <2> HIDE DEF x, y
  <2> QED BY <1>2, <2>3, <2>4, <2>5 DEF Least
<1> QED BY <1>6, <1>7

\* The sweep drops only buckets that have filled by themselves.
LEMMA PruneLevel ==
  ASSUME TypeInv, Ages, Skew = 0, WindowsFill, NEW b \in Bucket, PruneIdle(b)
  PROVE  Level(b)' = Level(b)
<1>1. PICK at \in Clock : at - bucket[b].last_seen >= IdleWindow
  BY DEF PruneIdle
<1>2. backend = "memory" /\ bucket[b] # Nil /\ bucket' = [bucket EXCEPT ![b] = Nil]
      /\ UNCHANGED <<now, backend>>
  BY DEF PruneIdle
<1>3. now \in Nat /\ at \in 0 .. now
  BY ClockIsNear
<1>4. bucket[b].last_seen \in Int /\ bucket[b].last_refill \in Int
      /\ bucket[b].tokens \in Int
  <2>1. Full(b) \in Nat
    BY Sizes
  <2> QED BY <1>2, <1>3, <2>1 DEF TypeInv, TypeOK
<1>5. bucket[b].last_refill <= bucket[b].last_seen + Lag
  BY <1>2 DEF Ages
<1>6. IdleWindow \in Int /\ Lag \in Int
  BY TimeAssumption
<1>7. now - bucket[b].last_refill >= IdleWindow - Lag
  BY <1>1, <1>3, <1>4, <1>5, <1>6
<1>8. ((IdleWindow - Lag) - Lag) * Rate(b) >= Full(b)
  <2>1. (IdleWindow - Lag) - Lag = IdleWindow - 2 * Lag
    BY <1>6
  <2> QED BY <2>1 DEF WindowsFill
<1> DEFINE x == bucket[b].tokens + (now - bucket[b].last_refill) * Rate(b)
<1>9. x >= Allowance(b)
  BY <1>2, <1>3, <1>6, <1>7, <1>8, Matures, IdleWindow - Lag \in Int
<1>10. Allowance(b) \in Nat /\ x \in Int
  <2>1. now - bucket[b].last_refill \in Int /\ Rate(b) \in Int
    BY <1>3, <1>4, Sizes
  <2> QED BY <1>4, <2>1, Sizes
<1>11. Entry(b) = bucket[b]
  BY <1>2 DEF Entry
<1>12. Level(b) = Allowance(b)
  <2>1. Level(b) = Least(Allowance(b), x)
    BY <1>2, <1>11 DEF Level
  <2> HIDE DEF x
  <2> QED BY <1>9, <1>10, <2>1 DEF Least
<1>13. bucket'[b] = Nil
  BY <1>2 DEF TypeInv, TypeOK
<1>14. Level(b)' = Allowance(b)
  BY <1>2, <1>13, SizesDoNotChange DEF Level, Entry
<1> QED BY <1>12, <1>14

\* A step that leaves credit and charges alone is a stutter of the promise.
LEMMA Stutters ==
  ASSUME \A b \in Bucket : Level(b)' = Level(b) /\ Paid(b)' = Paid(b)
  PROVE  levels' = levels /\ payers' = payers
  BY DEF levels, payers

\* A step that charges nobody new.
LEMMA PaidStays ==
  ASSUME TypeInv, NEW r \in Request, h[r].pc \in {"idle", "check"},
         NEW g, h' = [h EXCEPT ![r] = g], g.pc # "served" \/ g.bucket = Nil,
         NEW b \in Bucket
  PROVE  Paid(b)' = Paid(b)
<1>1. b # Nil
  BY NilAssumption
<1>2. \A s \in Request : h'[s] = IF s = r THEN g ELSE h[s]
  BY DEF TypeInv, TypeOK
<1> QED BY <1>1, <1>2 DEF Paid

LEMMA ServedPays ==
  ASSUME TypeInv, NEW r \in Request, h[r].pc = "check", NEW k \in Bucket, Serve(r, k),
         NEW b \in Bucket
  PROVE  /\ r \notin Paid(b)
         /\ Paid(b)' = IF b = k THEN Paid(b) \cup {r} ELSE Paid(b)
<1> DEFINE g == [h[r] EXCEPT !.pc = "served", !.bucket = k, !.time = now]
<1>1. g.pc = "served" /\ g.bucket = k
  BY DEF TypeInv, TypeOK, State
<1>2. h' = [h EXCEPT ![r] = g]
  BY DEF Serve
<1> HIDE DEF g
<1>3. \A s \in Request : h'[s] = IF s = r THEN g ELSE h[s]
  BY <1>2 DEF TypeInv, TypeOK
<1> QED BY <1>1, <1>3 DEF Paid

LEMMA CheckPromised ==
  ASSUME TypeInv, Skew = 0, NEW r \in Request, Check(r)
  PROVE  \/ levels' = levels /\ payers' = payers
         \/ \E b \in Bucket :
              /\ r \notin payers[b]
              /\ payers' = [payers EXCEPT ![b] = @ \cup {r}]
              /\ \E l \in 0 .. levels[b] - One(b) : levels' = [levels EXCEPT ![b] = l]
<1>1. h[r].pc = "check" /\ UNCHANGED <<now, backend>>
  BY CheckPicks
<1>2. PICK b \in Bucket : \E at \in Clock :
        /\ bucket' = [bucket EXCEPT ![b] = Charged(b, at)]
        /\ IF Credit(b, Seeded(b, at), at) >= One(b)
           THEN Serve(r, b)
           ELSE Refuse(r, h[r], b, Credit(b, Seeded(b, at), at))
  BY CheckPicks
<1>3. PICK at \in Clock :
        /\ bucket' = [bucket EXCEPT ![b] = Charged(b, at)]
        /\ IF Credit(b, Seeded(b, at), at) >= One(b)
           THEN Serve(r, b)
           ELSE Refuse(r, h[r], b, Credit(b, Seeded(b, at), at))
  BY <1>2
<1> DEFINE c == Credit(b, Seeded(b, at), at)
<1>4. \A k \in Bucket \ {b} : Level(k)' = Level(k)
  <2> SUFFICES ASSUME NEW k \in Bucket \ {b} PROVE Level(k)' = Level(k)
    OBVIOUS
  <2>1. bucket'[k] = bucket[k]
    BY <1>3 DEF TypeInv, TypeOK
  <2> QED BY <1>1, <2>1, OtherLevels
<1>5. /\ c >= One(b) => Level(b)' \in 0 .. Level(b) - One(b)
      /\ c < One(b) => Level(b)' = Level(b)
  BY <1>1, <1>3, CheckedLevel
<1>6. c \in Int /\ One(b) \in Int
  <2>1. now \in Nat /\ at \in 0 .. now
    BY ClockIsNear
  <2>2. c \in 0 .. Full(b) /\ Full(b) \in Nat
    BY <2>1, ChargedIsEntry, Sizes DEF TypeInv
  <2> QED BY <2>2, Sizes
<1>7. CASE c >= One(b)
  <2>1. Serve(r, b)
    BY <1>3, <1>7
  <2>2. \A k \in Bucket : /\ r \notin Paid(k)
                         /\ Paid(k)' = IF k = b THEN Paid(k) \cup {r} ELSE Paid(k)
    BY <1>1, <2>1, ServedPays
  <2>3. payers' = [payers EXCEPT ![b] = @ \cup {r}] /\ r \notin payers[b]
    BY <2>2 DEF payers
  <2>4. PICK l \in 0 .. Level(b) - One(b) : Level(b)' = l
    BY <1>5, <1>7
  <2>5. levels' = [levels EXCEPT ![b] = l] /\ levels[b] = Level(b)
    BY <1>4, <2>4 DEF levels
  <2> QED BY <2>3, <2>4, <2>5
<1>8. CASE ~(c >= One(b))
  <2> DEFINE d == rate_limited_response(retry_after(b, c))
             g == [h[r] EXCEPT !.pc = "refused", !.bucket = b, !.time = now, !.retry = d]
  <2>1. h' = [h EXCEPT ![r] = g]
    BY <1>3, <1>8 DEF Refuse
  <2>2. g.pc # "served"
    BY DEF TypeInv, TypeOK, State
  <2> HIDE DEF g
  <2>3. \A k \in Bucket : Paid(k)' = Paid(k)
    BY <1>1, <2>1, <2>2, PaidStays
  <2>4. Level(b)' = Level(b)
    BY <1>5, <1>6, <1>8
  <2> QED BY <1>4, <2>3, <2>4, Stutters
<1> QED BY <1>7, <1>8

\* A peek lets the request wait for its check or refuses it.
LEMMA PeekAnswers ==
  ASSUME NEW r \in Request, Peek(r)
  PROVE  \E g : h' = [h EXCEPT ![r] = g] /\ g.pc # "served"
<1>1. PICK ip \in Ip, user \in User \cup {Nil}, kind \in Kind, at \in Clock :
        LET b == <<ip, kind>>
            req == [Idle EXCEPT !.ip = ip, !.user = user, !.kind = kind]
        IN IF backend = "memory" /\ bucket[b] # Nil /\ Credit(b, bucket[b], at) < One(b)
           THEN Refuse(r, req, b, Credit(b, bucket[b], at))
           ELSE h' = [h EXCEPT ![r] = [req EXCEPT !.pc = "check"]]
  BY DEF Peek
<1> DEFINE b == <<ip, kind>>
           req == [Idle EXCEPT !.ip = ip, !.user = user, !.kind = kind]
           d == rate_limited_response(retry_after(b, Credit(b, bucket[b], at)))
           refused == [req EXCEPT !.pc = "refused", !.bucket = b, !.time = now, !.retry = d]
           waiting == [req EXCEPT !.pc = "check"]
<1>2. h' = [h EXCEPT ![r] = refused] \/ h' = [h EXCEPT ![r] = waiting]
  BY <1>1 DEF Refuse
<1>3. refused.pc # "served" /\ waiting.pc # "served"
  BY DEF Idle
<1> QED BY <1>2, <1>3

LEMMA PeekPromised ==
  ASSUME TypeInv, NEW r \in Request, Peek(r)
  PROVE  levels' = levels /\ payers' = payers
<1>1. PICK g : h' = [h EXCEPT ![r] = g] /\ g.pc # "served"
  BY PeekAnswers
<1>2. h[r].pc = "idle" /\ UNCHANGED <<now, backend, bucket>>
  BY DEF Peek
<1>3. \A b \in Bucket : Level(b)' = Level(b) /\ Paid(b)' = Paid(b)
  BY <1>1, <1>2, OtherLevels, PaidStays
<1> QED BY <1>3, Stutters

LEMMA FailOpenPromised ==
  ASSUME TypeInv, NEW r \in Request, FailOpen(r)
  PROVE  levels' = levels /\ payers' = payers
<1> DEFINE g == [h[r] EXCEPT !.pc = "served", !.bucket = Nil, !.time = now]
<1>1. h' = [h EXCEPT ![r] = g] /\ h[r].pc = "check" /\ UNCHANGED <<now, backend, bucket>>
  BY DEF FailOpen, Serve
<1>2. g.bucket = Nil
  BY DEF TypeInv, TypeOK, State
<1> HIDE DEF g
<1>3. \A b \in Bucket : Level(b)' = Level(b) /\ Paid(b)' = Paid(b)
  BY <1>1, <1>2, OtherLevels, PaidStays
<1> QED BY <1>3, Stutters

LEMMA NextPromised ==
  ASSUME TypeInv, Ages, Skew = 0, WindowsFill, [Next]_vars
  PROVE  [Promise!Next]_<<levels, payers>>
<1>1. ASSUME NEW r \in Request, Check(r) PROVE [Promise!Next]_<<levels, payers>>
  BY <1>1, CheckPromised DEF Promise!Next, Promise!Take, levels, payers
<1>2. ASSUME NEW r \in Request, Peek(r) PROVE levels' = levels /\ payers' = payers
  BY <1>2, PeekPromised
<1>3. ASSUME NEW r \in Request, FailOpen(r) PROVE levels' = levels /\ payers' = payers
  BY <1>3, FailOpenPromised
<1>4. ASSUME NEW b \in Bucket, PruneIdle(b) PROVE levels' = levels /\ payers' = payers
  <2>1. bucket' = [bucket EXCEPT ![b] = Nil] /\ UNCHANGED <<now, backend, h>>
    BY <1>4 DEF PruneIdle
  <2>2. \A k \in Bucket : Paid(k)' = Paid(k)
    BY <2>1 DEF Paid
  <2>3. Level(b)' = Level(b)
    BY <1>4, PruneLevel
  <2>4. \A k \in Bucket \ {b} : bucket'[k] = bucket[k]
    BY <2>1 DEF TypeInv, TypeOK
  <2>5. \A k \in Bucket \ {b} : Level(k)' = Level(k)
    BY <2>1, <2>4, OtherLevels
  <2> QED BY <2>2, <2>3, <2>5, Stutters
<1>5. CASE Tick
  <2>1. \A b \in Bucket : Level(b)' = Least(Allowance(b), Level(b) + Rate(b))
    BY <1>5, TickLevel
  <2>2. payers' = payers
    BY <1>5 DEF Tick, Paid, payers
  <2>3. levels' = [b \in Bucket |-> Least(Allowance(b), levels[b] + Rate(b))]
    BY <2>1 DEF levels
  <2>4. Promise!Tick
    BY <2>2, <2>3 DEF Promise!Tick, Promise!Least, Least, levels, payers
  <2> QED BY <2>4 DEF Promise!Next
<1>6. CASE UNCHANGED vars
  <2>1. UNCHANGED <<now, backend, bucket, h>>
    BY <1>6 DEF vars
  <2>2. \A b \in Bucket : Level(b)' = Level(b) /\ Paid(b)' = Paid(b)
    BY <2>1, OtherLevels DEF Paid
  <2> QED BY <2>2, Stutters
<1> QED BY <1>1, <1>2, <1>3, <1>4, <1>5, <1>6 DEF Next

\* Provided the clocks of the replicas agree and the idle window and the TTL
\* of a key are long enough for an empty bucket to fill, the rate limiter
\* keeps the promise of TokenBucket with either store: the sweep, the expiry
\* of keys, the failing open and the checks of many requests in any order
\* never give a bucket credit that time did not bring.
THEOREM PromiseKept ==
  ASSUME Skew = 0, WindowsFill
  PROVE  Spec => KeepsPromise
<1>1. Init => TypeInv /\ Ages
  <2>1. Init => Ages
    BY DEF Init, Ages
  <2> QED BY <2>1, InitTyped
<1>2. TypeInv /\ Ages /\ [Next]_vars => TypeInv' /\ Ages'
  BY NextTyped, AgesStep
<1>3. TypeInv /\ Ages /\ [Next]_vars => [Promise!Next]_<<levels, payers>>
  BY NextPromised
<1> QED BY <1>1, <1>2, <1>3, InitPromised, PTL DEF Spec, KeepsPromise, Promise!Spec, levels, payers

-----------------------------------------------------------------------------
(* Refusals.                                                                *)

\* What is missing from a bucket was paid for, request by request.
Drained ==
  \A b \in Bucket :
    /\ IsFiniteSet(Paid(b))
    /\ bucket[b] # Nil => Full(b) <= bucket[b].tokens + Cardinality(Paid(b)) * One(b)

LEMMA CreditKeepsTokens ==
  ASSUME now \in Nat, NEW b \in Bucket, NEW e \in EntryOf(b), NEW at \in 0 .. now
  PROVE  e.tokens <= Credit(b, e, at)
<1>1. Full(b) \in Nat /\ Rate(b) \in Nat
  BY Sizes
<1>2. e.tokens \in 0 .. Full(b) /\ e.last_refill \in 0 .. now
  BY DEF EntryOf
<1>3. CASE at <= e.last_refill
  BY <1>2, <1>3 DEF Credit
<1>4. CASE ~(at <= e.last_refill)
  <2> DEFINE g == (at - e.last_refill) * Rate(b)
  <2>1. g \in Nat
    BY <1>1, <1>2, <1>4, at - e.last_refill \in Nat
  <2>2. Credit(b, e, at) = Least(Full(b), e.tokens + g)
    BY <1>4 DEF Credit
  <2> HIDE DEF g
  <2> QED BY <1>1, <1>2, <2>1, <2>2 DEF Least
<1> QED BY <1>3, <1>4

LEMMA SeededDrained ==
  ASSUME TypeInv, Drained, NEW b \in Bucket, NEW at \in 0 .. now
  PROVE  /\ Credit(b, Seeded(b, at), at) \in 0 .. Full(b)
         /\ Full(b) <= Credit(b, Seeded(b, at), at) + Cardinality(Paid(b)) * One(b)
<1> DEFINE paid == Cardinality(Paid(b)) * One(b)
           e == Seeded(b, at)
           c == Credit(b, e, at)
<1>1. now \in Nat /\ TypeOK
  BY DEF TypeInv, TypeOK
<1>2. Full(b) \in Nat /\ paid \in Nat
  BY Sizes, FS_CardinalityType DEF Drained
<1>3. e \in EntryOf(b)
  BY <1>1, SeededIsEntry
<1>4. Full(b) <= e.tokens + paid
  <2>1. CASE Entry(b) = Nil
    <3>1. e.tokens = Full(b)
      BY <2>1 DEF Seeded
    <3> HIDE DEF paid, e
    <3> QED BY <1>2, <3>1
  <2>2. CASE Entry(b) # Nil
    <3>1. e = bucket[b] /\ bucket[b] # Nil
      BY <2>2 DEF Seeded, Entry
    <3> QED BY <3>1 DEF Drained
  <2> QED BY <2>1, <2>2
<1> HIDE DEF e
<1>5. e.tokens <= c /\ c \in 0 .. Full(b)
  BY <1>1, <1>3, CreditKeepsTokens, CreditInRange
<1>6. e.tokens \in Nat
  BY <1>2, <1>3 DEF EntryOf
<1> HIDE DEF paid, c
<1>7. Full(b) <= c + paid /\ c \in 0 .. Full(b)
  BY <1>2, <1>4, <1>5, <1>6
<1> QED BY <1>7 DEF e, c, paid

\* A bucket without a whole token has paid for as many requests as it holds.
LEMMA RefusedPaid ==
  ASSUME NEW b \in Bucket, NEW c \in Int, NEW n \in Nat, c < One(b),
         Full(b) <= c + n * One(b)
  PROVE  n >= LimitOf(b).capacity
<1>1. PICK k \in Nat, O \in Nat \ {0} : k = LimitOf(b).capacity /\ O = One(b) /\ Full(b) = k * O
  <2>1. LimitOf(b) \in Limit
    BY LimitsAssumption DEF LimitOf, Bucket
  <2> QED BY <2>1, Sizes DEF Limit, Full
<1> SUFFICES ASSUME n < k PROVE FALSE
  BY <1>1
<1>2. (n + 1) * O <= k * O
  BY Grows
<1>3. (n + 1) * O = n * O + 1 * O
  BY Distributes
<1>4. n * O \in Nat /\ k * O \in Nat /\ 1 * O = O
  OBVIOUS
<1>5. k * O <= c + n * O /\ c < O
  BY <1>1
<1> QED BY <1>2, <1>3, <1>4, <1>5

LEMMA DivUpReaches ==
  ASSUME NEW x \in Int, NEW y \in Nat \ {0}
  PROVE  DivUp(x, y) \in Int /\ x <= DivUp(x, y) * y
<1> DEFINE n == x + y - 1
           q == n \div y
<1>1. n \in Int /\ q \in Int
  OBVIOUS
<1>2. \A m \in Int : m < (m \div y) * y + y
  OBVIOUS
<1>3. q * y \in Int
  BY <1>1
<1>4. n < q * y + y
  BY <1>1, <1>2
<1>5. DivUp(x, y) = q
  BY DEF DivUp
<1> HIDE DEF q
<1> QED BY <1>1, <1>3, <1>4, <1>5

\* The wait a refusal states brings in what is missing of a token.
LEMMA RetryBrings ==
  ASSUME NEW b \in Bucket, NEW c \in Int
  PROVE  /\ retry_after(b, c) \in Nat \ {0}
         /\ One(b) <= c + retry_after(b, c) * Rate(b)
<1>1. PICK O \in Nat, R \in Nat \ {0}, S \in Nat \ {0} : O = One(b) /\ R = Rate(b) /\ S = Second
  BY Sizes, TimeAssumption
<1>2. \A n \in Int : Most(1, n) \in Nat \ {0} /\ n <= Most(1, n)
  BY DEF Most
<1>3. R * S \in Nat \ {0} /\ O - c \in Int
  OBVIOUS
<1>4. CASE backend = "memory"
  <2> DEFINE q == DivUp(O - c, R * S)
             m == Most(1, q)
  <2>1. q \in Int /\ O - c <= q * (R * S)
    BY <1>3, DivUpReaches
  <2> HIDE DEF q
  <2>2. m \in Nat \ {0} /\ q <= m
    BY <1>2, <2>1
  <2> HIDE DEF m
  <2>3. q * (R * S) <= m * (R * S)
    BY <1>3, <2>1, <2>2, Grows
  <2>4. m * (R * S) = (m * S) * R /\ m * S \in Nat \ {0}
    BY <2>2
  <2>5. q * (R * S) \in Int /\ m * (R * S) \in Int
    BY <1>3, <2>1, <2>2
  <2>6. O <= c + (m * S) * R
    BY <2>1, <2>3, <2>4, <2>5
  <2>7. retry_after(b, c) = m * S
    BY <1>1, <1>4 DEF retry_after, m, q
  <2> QED BY <1>1, <2>4, <2>6, <2>7
<1>5. CASE backend # "memory"
  <2> DEFINE q == DivUp(O - c, R)
             m == Most(1, q)
  <2>1. q \in Int /\ O - c <= q * R
    BY <1>3, DivUpReaches
  <2> HIDE DEF q
  <2>2. m \in Nat \ {0} /\ q <= m
    BY <1>2, <2>1
  <2> HIDE DEF m
  <2>3. q * R <= m * R
    BY <2>1, <2>2, Grows
  <2>4. q * R \in Int /\ m * R \in Int
    BY <2>1, <2>2
  <2>5. O <= c + m * R
    BY <2>1, <2>3, <2>4
  <2>6. retry_after(b, c) = m
    BY <1>1, <1>5 DEF retry_after, m, q
  <2> QED BY <1>1, <2>2, <2>5, <2>6
<1> QED BY <1>4, <1>5

\* So does the wait in the header, with what it cuts off.
LEMMA ToldBrings ==
  ASSUME NEW b \in Bucket, NEW c \in Int,
         NEW told, told = rate_limited_response(retry_after(b, c)) + CutOff
  PROVE  told \in Nat \ {0} /\ One(b) <= c + told * Rate(b)
<1>1. PICK w \in Nat \ {0} : w = retry_after(b, c) /\ One(b) <= c + w * Rate(b)
  BY RetryBrings
<1>2. PICK O \in Nat, R \in Nat \ {0}, S \in Nat \ {0} : O = One(b) /\ R = Rate(b) /\ S = Second
  BY Sizes, TimeAssumption
<1>3. told \in Nat \ {0} /\ w <= told
  <2>1. CASE backend = "memory"
    <3> DEFINE n == Most(1, DivUp(O - c, R * S))
    <3>1. R * S \in Nat \ {0}
      BY <1>2
    <3>2. n \in Nat \ {0}
      <4>1. DivUp(O - c, R * S) \in Int
        BY <3>1, DivUpReaches
      <4> QED BY <4>1 DEF Most
    <3>3. w = n * S
      BY <1>1, <1>2, <2>1 DEF retry_after
    <3> HIDE DEF n
    <3>4. (n * S) \div S = n
      BY <3>2
    <3>5. rate_limited_response(w) = n * S
      BY <1>2, <3>2, <3>3, <3>4 DEF rate_limited_response, Most
    <3>6. n * S \in Nat \ {0}
      BY <3>2
    <3> QED BY <1>1, <2>1, <3>3, <3>5, <3>6 DEF CutOff
  <2>2. CASE backend # "memory"
    BY <1>1, <1>2, <2>2, ToldWait DEF CutOff
  <2> QED BY <2>1, <2>2
<1>4. w * R <= told * R
  BY <1>1, <1>2, <1>3, Grows
<1>5. w * R \in Int /\ told * R \in Int
  BY <1>2, <1>3
<1> QED BY <1>1, <1>2, <1>3, <1>4, <1>5

\* An entry that was worth c at some time until now holds a token when the wait
\* is over.
LEMMA WaitFills ==
  ASSUME now \in Nat, NEW b \in Bucket, NEW e \in EntryOf(b), NEW c \in Int,
         NEW at \in 0 .. now, NEW d \in Nat \ {0}, One(b) <= c + d * Rate(b),
         c = Credit(b, e, at), c < One(b)
  PROVE  Credit(b, e, now + d) >= One(b)
<1>1. PICK O \in Nat, R \in Nat, F \in Nat, x \in Nat, l \in 0 .. now :
        O = One(b) /\ R = Rate(b) /\ F = Full(b) /\ O <= F /\ x = e.tokens /\ l = e.last_refill
  <2>1. One(b) \in Nat /\ Rate(b) \in Nat /\ Full(b) \in Nat /\ One(b) <= Full(b)
    BY Sizes
  <2>2. e.tokens \in Nat /\ e.last_refill \in 0 .. now
    BY <2>1 DEF EntryOf
  <2> QED BY <2>1, <2>2
<1>2. Credit(b, e, now + d) = Least(F, x + (now + d - l) * R)
  <2>1. ~(now + d <= l)
    BY <1>1
  <2> QED BY <1>1, <2>1 DEF Credit
<1>3. O <= x + (now + d - l) * R
  <2>1. CASE at <= l
    <3>1. c = x
      BY <1>1, <2>1 DEF Credit
    <3>2. d * R <= (now + d - l) * R
      BY <1>1, d <= now + d - l, now + d - l \in Int, Grows
    <3>3. d * R \in Int /\ (now + d - l) * R \in Int
      BY <1>1
    <3> QED BY <1>1, <3>1, <3>2, <3>3
  <2>2. CASE ~(at <= l)
    <3> DEFINE g == at - l
               u == now - at
    <3>1. g \in Nat /\ u \in Nat /\ now + d - l = (g + u) + d
      BY <1>1, <2>2
    <3>2. c = x + g * R
      <4>1. c = Least(F, x + g * R)
        BY <1>1, <2>2 DEF Credit
      <4> QED BY <1>1, <4>1 DEF Least
    <3> HIDE DEF g, u
    <3>3. (g + u) + d = g + (u + d) /\ u + d \in Int
      BY <3>1
    <3>4. (g + (u + d)) * R = g * R + (u + d) * R
      BY <3>1, <3>3, Distributes
    <3>5. d * R <= (u + d) * R
      BY <1>1, <3>1, <3>3, Grows
    <3>6. g * R \in Int /\ d * R \in Int /\ (u + d) * R \in Int
      BY <1>1, <3>1
    <3> QED BY <1>1, <3>1, <3>2, <3>3, <3>4, <3>5, <3>6
  <2> QED BY <2>1, <2>2
<1>4. (now + d - l) * R \in Int
  BY <1>1
<1> DEFINE gain == (now + d - l) * R
<1> HIDE DEF gain
<1>5. Credit(b, e, now + d) = Least(F, x + gain) /\ O <= x + gain /\ gain \in Int
  BY <1>2, <1>3, <1>4 DEF gain
<1> QED BY <1>1, <1>5 DEF Least

\* Nothing is paid from the bucket, and its entry stays or is dropped.
LEMMA DrainedStays ==
  ASSUME Drained, NEW b \in Bucket, Paid(b)' = Paid(b),
         bucket'[b] = bucket[b] \/ bucket'[b] = Nil
  PROVE  /\ IsFiniteSet(Paid(b)')
         /\ bucket'[b] # Nil =>
              Full(b) <= bucket'[b].tokens + Cardinality(Paid(b)') * One(b)
  BY DEF Drained

LEMMA CheckDrains ==
  ASSUME TypeInv, Drained, NEW r \in Request, Check(r)
  PROVE  Drained'
<1>1. h[r].pc = "check" /\ UNCHANGED <<now, backend>>
  BY CheckPicks
<1>2. PICK b \in Bucket : \E at \in Clock :
        /\ bucket' = [bucket EXCEPT ![b] = Charged(b, at)]
        /\ IF Credit(b, Seeded(b, at), at) >= One(b)
           THEN Serve(r, b)
           ELSE Refuse(r, h[r], b, Credit(b, Seeded(b, at), at))
  BY CheckPicks
<1>3. PICK at \in Clock :
        /\ bucket' = [bucket EXCEPT ![b] = Charged(b, at)]
        /\ IF Credit(b, Seeded(b, at), at) >= One(b)
           THEN Serve(r, b)
           ELSE Refuse(r, h[r], b, Credit(b, Seeded(b, at), at))
  BY <1>2
<1> DEFINE c == Credit(b, Seeded(b, at), at)
<1>4. at \in 0 .. now
  BY ClockRuns DEF TypeInv, TypeOK
<1>5. c \in Int /\ Full(b) <= c + Cardinality(Paid(b)) * One(b)
  <2>1. Full(b) \in Nat
    BY Sizes
  <2> QED BY <1>4, <2>1, SeededDrained
<1>6. bucket'[b].tokens = IF c >= One(b) THEN c - One(b) ELSE c
  <2>1. bucket'[b] = Charged(b, at)
    BY <1>3 DEF TypeInv, TypeOK
  <2> QED BY <2>1 DEF Charged, InMemory, InRedis, Spent
<1>7. \A k \in Bucket \ {b} : bucket'[k] = bucket[k]
  BY <1>3 DEF TypeInv, TypeOK
<1>8. Full(b) \in Nat /\ One(b) \in Nat /\ IsFiniteSet(Paid(b))
  BY Sizes DEF Drained
<1>9. CASE c >= One(b)
  <2>1. Serve(r, b)
    BY <1>3, <1>9
  <2>2. \A k \in Bucket : /\ r \notin Paid(k)
                         /\ Paid(k)' = IF k = b THEN Paid(k) \cup {r} ELSE Paid(k)
    BY <1>1, <2>1, ServedPays
  <2>3. \A k \in Bucket \ {b} :
          /\ IsFiniteSet(Paid(k)')
          /\ bucket'[k] # Nil =>
               Full(k) <= bucket'[k].tokens + Cardinality(Paid(k)') * One(k)
    BY <1>7, <2>2, DrainedStays
  <2>4. PICK n \in Nat : n = Cardinality(Paid(b))
    BY <1>8, FS_CardinalityType
  <2>5. IsFiniteSet(Paid(b)') /\ Cardinality(Paid(b)') = n + 1
    BY <1>8, <2>2, <2>4, FS_AddElement
  <2>6. (n + 1) * One(b) = n * One(b) + 1 * One(b)
    BY <1>8, Distributes
  <2>7. n * One(b) \in Int /\ (n + 1) * One(b) \in Int /\ 1 * One(b) = One(b)
    BY <1>8
  <2>8. Full(b) <= (c - One(b)) + (n + 1) * One(b)
    <3> HIDE DEF c
    <3> QED BY <1>5, <1>8, <2>4, <2>6, <2>7
  <2>9. Full(b) <= bucket'[b].tokens + Cardinality(Paid(b)') * One(b)
    BY <1>6, <1>9, <2>5, <2>8
  <2> QED BY <2>3, <2>5, <2>9, SizesDoNotChange DEF Drained
<1>10. CASE ~(c >= One(b))
  <2> DEFINE d == rate_limited_response(retry_after(b, c))
             g == [h[r] EXCEPT !.pc = "refused", !.bucket = b, !.time = now, !.retry = d]
  <2>1. h' = [h EXCEPT ![r] = g]
    BY <1>3, <1>10 DEF Refuse
  <2>2. g.pc # "served"
    BY DEF TypeInv, TypeOK, State
  <2> HIDE DEF g
  <2>3. \A k \in Bucket : Paid(k)' = Paid(k)
    BY <1>1, <2>1, <2>2, PaidStays
  <2>4. \A k \in Bucket \ {b} :
          /\ IsFiniteSet(Paid(k)')
          /\ bucket'[k] # Nil =>
               Full(k) <= bucket'[k].tokens + Cardinality(Paid(k)') * One(k)
    BY <1>7, <2>3, DrainedStays
  <2>5. Full(b) <= bucket'[b].tokens + Cardinality(Paid(b)') * One(b)
    BY <1>5, <1>6, <1>10, <2>3
  <2>6. IsFiniteSet(Paid(b)')
    BY <1>8, <2>3
  <2> QED BY <2>4, <2>5, <2>6, SizesDoNotChange DEF Drained
<1> QED BY <1>9, <1>10

LEMMA PeekIsFree ==
  ASSUME TypeInv, NEW r \in Request, Peek(r)
  PROVE  \A b \in Bucket : Paid(b)' = Paid(b) /\ bucket'[b] = bucket[b]
<1>1. PICK g : h' = [h EXCEPT ![r] = g] /\ g.pc # "served"
  BY PeekAnswers
<1>2. h[r].pc = "idle" /\ bucket' = bucket
  BY DEF Peek
<1> QED BY <1>1, <1>2, PaidStays

LEMMA NextDrains ==
  ASSUME TypeInv, Drained, [Next]_vars
  PROVE  Drained'
<1> DEFINE Spares == \A b \in Bucket : /\ Paid(b)' = Paid(b)
                                       /\ bucket'[b] = bucket[b] \/ bucket'[b] = Nil
<1>1. ASSUME NEW r \in Request, Check(r) PROVE Drained'
  BY <1>1, CheckDrains
<1>2. ASSUME NEW r \in Request, Peek(r) PROVE Spares
  BY <1>2, PeekIsFree
<1>3. ASSUME NEW r \in Request, FailOpen(r) PROVE Spares
  <2> DEFINE g == [h[r] EXCEPT !.pc = "served", !.bucket = Nil, !.time = now]
  <2>1. h' = [h EXCEPT ![r] = g] /\ h[r].pc = "check" /\ bucket' = bucket
    BY <1>3 DEF FailOpen, Serve
  <2>2. g.bucket = Nil
    BY DEF TypeInv, TypeOK, State
  <2> HIDE DEF g
  <2> QED BY <2>1, <2>2, PaidStays
<1>4. ASSUME NEW b \in Bucket, PruneIdle(b) PROVE Spares
  <2>1. bucket' = [bucket EXCEPT ![b] = Nil] /\ \A k \in Bucket : Paid(k)' = Paid(k)
    BY <1>4 DEF PruneIdle, Paid
  <2> QED BY <2>1 DEF TypeInv, TypeOK
<1>5. ASSUME Tick PROVE Spares
  <2>1. bucket' = bucket /\ \A b \in Bucket : Paid(b)' = Paid(b)
    BY <1>5 DEF Tick, Paid
  <2> QED BY <2>1
<1>6. ASSUME UNCHANGED vars PROVE Spares
  <2>1. bucket' = bucket /\ \A b \in Bucket : Paid(b)' = Paid(b)
    BY <1>6 DEF vars, Paid
  <2> QED BY <2>1
<1>7. Spares => Drained'
  <2> SUFFICES ASSUME Spares PROVE Drained'
    OBVIOUS
  <2>1. \A b \in Bucket :
          /\ IsFiniteSet(Paid(b)')
          /\ bucket'[b] # Nil =>
               Full(b) <= bucket'[b].tokens + Cardinality(Paid(b)') * One(b)
    BY DrainedStays
  <2> QED BY <2>1, SizesDoNotChange DEF Drained
<1> QED BY <1>1, <1>2, <1>3, <1>4, <1>5, <1>6, <1>7 DEF Next

\* A bucket that refuses r, worth c in the entry it keeps.
LEMMA FairRefusal ==
  ASSUME now \in Nat, NEW r \in Request, NEW b \in Bucket, NEW c \in Int, c < One(b),
         IsFiniteSet(Paid(b)), Full(b) <= c + Cardinality(Paid(b)) * One(b),
         UNCHANGED <<now, backend>>, h'[r].bucket = b, h'[r].retry = rate_limited_response(retry_after(b, c)),
         Paid(b)' = Paid(b),
         NEW e \in EntryOf(b), e = bucket'[b], NEW at \in 0 .. now, c = Credit(b, e, at)
  PROVE  /\ Cardinality(Paid(h'[r].bucket)) >= LimitOf(h'[r].bucket).capacity
         /\ CreditAfter(r, h[r].retry + CutOff)' >= One(h'[r].bucket)
<1>1. PICK n \in Nat : n = Cardinality(Paid(b))
  BY FS_CardinalityType
<1>2. n >= LimitOf(b).capacity
  BY <1>1, RefusedPaid
<1>3. PICK d \in Nat \ {0} :
        d = h'[r].retry + CutOff /\ One(b) <= c + d * Rate(b)
  BY ToldBrings
<1>4. Credit(b, e, now + d) >= One(b)
  BY <1>3, WaitFills
<1>5. CreditAfter(r, h[r].retry + CutOff)' = Credit(b, e, now + d)
  BY <1>3 DEF CutOff, CreditAfter, Credit, Full, Rate, One, LimitOf
<1> QED BY <1>1, <1>2, <1>4, <1>5

LEMMA CheckFair ==
  ASSUME TypeInv, Drained, NEW r \in Request, Check(r), JustRefused(r)
  PROVE  /\ Cardinality(Paid(h'[r].bucket)) >= LimitOf(h'[r].bucket).capacity
         /\ CreditAfter(r, h[r].retry + CutOff)' >= One(h'[r].bucket)
<1>1. h[r].pc = "check" /\ UNCHANGED <<now, backend>>
  BY CheckPicks
<1>2. PICK b \in Bucket : \E at \in Clock :
        /\ bucket' = [bucket EXCEPT ![b] = Charged(b, at)]
        /\ IF Credit(b, Seeded(b, at), at) >= One(b)
           THEN Serve(r, b)
           ELSE Refuse(r, h[r], b, Credit(b, Seeded(b, at), at))
  BY CheckPicks
<1>3. PICK at \in Clock :
        /\ bucket' = [bucket EXCEPT ![b] = Charged(b, at)]
        /\ IF Credit(b, Seeded(b, at), at) >= One(b)
           THEN Serve(r, b)
           ELSE Refuse(r, h[r], b, Credit(b, Seeded(b, at), at))
  BY <1>2
<1> DEFINE c == Credit(b, Seeded(b, at), at)
           d == rate_limited_response(retry_after(b, c))
           g == [h[r] EXCEPT !.pc = "refused", !.bucket = b, !.time = now, !.retry = d]
<1>4. now \in Nat /\ at \in 0 .. now
  BY ClockRuns DEF TypeInv, TypeOK
<1>5. ~(c >= One(b))
  <2> SUFFICES ASSUME c >= One(b) PROVE FALSE
    OBVIOUS
  <2>1. Serve(r, b)
    BY <1>3
  <2>2. h'[r].pc = "served"
    BY <2>1 DEF Serve, TypeInv, TypeOK, State
  <2> QED BY <2>2 DEF JustRefused
<1>6. h' = [h EXCEPT ![r] = g]
  BY <1>3, <1>5 DEF Refuse
<1>7. g.pc = "refused" /\ g.bucket = b /\ g.retry = d
  BY DEF TypeInv, TypeOK, State
<1> HIDE DEF g
<1>8. h'[r].bucket = b /\ h'[r].retry = d
  BY <1>6, <1>7 DEF TypeInv, TypeOK
<1>9. Paid(b)' = Paid(b)
  BY <1>1, <1>6, <1>7, PaidStays
<1>10. IsFiniteSet(Paid(b)) /\ Full(b) <= c + Cardinality(Paid(b)) * One(b)
  BY <1>4, SeededDrained DEF Drained
<1> DEFINE e == Charged(b, at)
<1>11. e \in EntryOf(b) /\ c \in 0 .. Full(b)
  BY <1>4, ChargedIsEntry DEF TypeInv
<1>12. c \in Int /\ c < One(b)
  BY <1>5, <1>11, Sizes
<1>13. e = bucket'[b]
  BY <1>3 DEF TypeInv, TypeOK
<1>14. c = Credit(b, e, at)
  <2>1. e.tokens = c
    BY <1>5 DEF Charged, InMemory, InRedis, Spent
  <2>2. at <= e.last_refill
    <3>1. Seeded(b, at).last_refill \in Int
      <4>1. Seeded(b, at) \in EntryOf(b)
        BY <1>4, SeededIsEntry DEF TypeInv
      <4> QED BY <1>4, <4>1 DEF EntryOf
    <3>2. e.last_refill = IF backend = "memory" THEN Most(at, Seeded(b, at).last_refill)
                          ELSE at
      BY DEF Charged, InMemory, InRedis, Spent
    <3> QED BY <1>4, <3>1, <3>2 DEF Most
  <2> HIDE DEF e, c
  <2> QED BY <2>1, <2>2 DEF Credit
<1> HIDE DEF e, c
<1> QED BY <1>1, <1>4, <1>8, <1>9, <1>10, <1>11, <1>12, <1>13, <1>14, FairRefusal DEF d

LEMMA PeekFair ==
  ASSUME TypeInv, Drained, NEW r \in Request, Peek(r), JustRefused(r)
  PROVE  /\ Cardinality(Paid(h'[r].bucket)) >= LimitOf(h'[r].bucket).capacity
         /\ CreditAfter(r, h[r].retry + CutOff)' >= One(h'[r].bucket)
<1>1. PICK ip \in Ip, user \in User \cup {Nil}, kind \in Kind, at \in Clock :
        LET b == <<ip, kind>>
            req == [Idle EXCEPT !.ip = ip, !.user = user, !.kind = kind]
        IN IF backend = "memory" /\ bucket[b] # Nil /\ Credit(b, bucket[b], at) < One(b)
           THEN Refuse(r, req, b, Credit(b, bucket[b], at))
           ELSE h' = [h EXCEPT ![r] = [req EXCEPT !.pc = "check"]]
  BY DEF Peek
<1> DEFINE b == <<ip, kind>>
           req == [Idle EXCEPT !.ip = ip, !.user = user, !.kind = kind]
           e == bucket[b]
           c == Credit(b, e, at)
           d == rate_limited_response(retry_after(b, c))
           g == [req EXCEPT !.pc = "refused", !.bucket = b, !.time = now, !.retry = d]
<1>2. h[r].pc = "idle" /\ UNCHANGED <<now, backend, bucket>>
  BY DEF Peek
<1>3. b \in Bucket
  BY DEF Bucket
<1>4. now \in Nat /\ at \in 0 .. now
  BY ClockRuns DEF TypeInv, TypeOK
<1>5. e # Nil /\ c < One(b)
  <2> SUFFICES ASSUME ~(e # Nil /\ c < One(b)) PROVE FALSE
    OBVIOUS
  <2> DEFINE w == [req EXCEPT !.pc = "check"]
  <2>1. h' = [h EXCEPT ![r] = w]
    BY <1>1
  <2>2. w.pc = "check"
    BY DEF Idle
  <2> HIDE DEF w
  <2> QED BY <2>1, <2>2 DEF JustRefused, TypeInv, TypeOK
<1>6. h' = [h EXCEPT ![r] = g]
  <2> DEFINE w == [req EXCEPT !.pc = "check"]
  <2>1. h' = [h EXCEPT ![r] = g] \/ h' = [h EXCEPT ![r] = w]
    BY <1>1 DEF Refuse
  <2>2. w.pc = "check"
    BY DEF Idle
  <2> HIDE DEF w, g
  <2> QED BY <2>1, <2>2 DEF JustRefused, TypeInv, TypeOK
<1>7. g.pc = "refused" /\ g.bucket = b /\ g.retry = d
  BY DEF Idle
<1> HIDE DEF g, b
<1>8. h'[r].bucket = b /\ h'[r].retry = d
  BY <1>6, <1>7 DEF TypeInv, TypeOK
<1>9. Paid(b)' = Paid(b)
  BY <1>3, PeekIsFree
<1>10. e \in EntryOf(b)
  BY <1>3, <1>5 DEF TypeInv, TypeOK, EntryOf
<1>11. e.tokens <= c /\ c \in 0 .. Full(b)
  BY <1>3, <1>4, <1>10, CreditKeepsTokens, CreditInRange
<1>12. IsFiniteSet(Paid(b)) /\ Full(b) <= c + Cardinality(Paid(b)) * One(b)
  <2>1. IsFiniteSet(Paid(b)) /\ Full(b) <= e.tokens + Cardinality(Paid(b)) * One(b)
    BY <1>3, <1>5 DEF Drained
  <2>2. Full(b) \in Nat /\ One(b) \in Nat /\ Cardinality(Paid(b)) \in Nat
    BY <1>3, <2>1, Sizes, FS_CardinalityType
  <2>3. e.tokens \in Nat
    BY <1>10, <2>2 DEF EntryOf
  <2> DEFINE paid == Cardinality(Paid(b)) * One(b)
  <2>4. paid \in Nat
    BY <2>2
  <2> HIDE DEF paid, e, c
  <2>5. Full(b) <= c + paid
    BY <1>11, <2>1, <2>2, <2>3, <2>4 DEF paid
  <2> QED BY <2>1, <2>5 DEF paid
<1>13. c \in Int
  BY <1>3, <1>11, Sizes
<1>14. e = bucket'[b]
  BY <1>2
<1> HIDE DEF e
<1>15. c = Credit(b, e, at)
  OBVIOUS
<1> HIDE DEF c
<1> QED
  BY <1>2, <1>3, <1>4, <1>5, <1>8, <1>9, <1>10, <1>12, <1>13, <1>14, <1>15, FairRefusal DEF d

LEMMA RefusedByOwn ==
  ASSUME TypeInv, Next, NEW r \in Request, JustRefused(r)
  PROVE  Peek(r) \/ Check(r)
<1> DEFINE Answers(s, g) == h' = [h EXCEPT ![s] = g]
<1>1. h \in [Request -> State] /\ h'[r].pc = "refused" /\ h[r].pc # "refused"
  BY DEF TypeInv, TypeOK, JustRefused
<1>2. \A s \in Request : ~(UNCHANGED h) /\ (s # r => \A g : ~Answers(s, g))
  BY <1>1
<1>3. ASSUME NEW s \in Request, Check(s) PROVE Check(r)
  <2>1. \E b \in Bucket : \E c : Serve(s, b) \/ Refuse(s, h[s], b, c)
    BY <1>3, CheckPicks
  <2>2. \E g : Answers(s, g)
    BY <2>1 DEF Serve, Refuse
  <2> QED BY <1>2, <1>3, <2>2
<1>4. ASSUME NEW s \in Request, Peek(s) PROVE Peek(r)
  BY <1>2, <1>4, PeekAnswers
<1>5. ASSUME NEW s \in Request PROVE ~FailOpen(s)
  <2> SUFFICES ASSUME FailOpen(s) PROVE FALSE
    OBVIOUS
  <2> DEFINE g == [h[s] EXCEPT !.pc = "served", !.bucket = Nil, !.time = now]
  <2>1. Answers(s, g) /\ g.pc = "served"
    BY <1>1 DEF FailOpen, Serve, State
  <2> HIDE DEF g
  <2> QED BY <1>1, <1>2, <2>1
<1>6. ~Tick /\ \A b \in Bucket : ~PruneIdle(b)
  BY <1>2 DEF Tick, PruneIdle
<1> QED BY <1>3, <1>4, <1>5, <1>6 DEF Next

\* A request is refused only by a bucket whose own clients have drained it,
\* and the wait it is told brings a token, with Redis when less than a second
\* is added, whatever the clocks of the replicas say, however many requests, addresses and accounts
\* there are and however their peeks, checks and the sweep interleave.
THEOREM RefusalsAreFair == Spec => RefusalIsFair
<1>1. Init => TypeInv /\ Drained
  <2>1. Init => Drained
    <3> SUFFICES ASSUME Init, NEW b \in Bucket
                 PROVE  IsFiniteSet(Paid(b)) /\ bucket[b] = Nil
      BY DEF Drained
    <3>1. Paid(b) = {}
      BY DEF Init, Paid, Idle
    <3> QED BY <3>1, FS_EmptySet DEF Init
  <2> QED BY <2>1, InitTyped
<1>2. TypeInv /\ Drained /\ [Next]_vars => TypeInv' /\ Drained'
  BY NextTyped, NextDrains
<1>3. TypeInv /\ Drained /\ [Next]_vars =>
        [\A r \in Request : JustRefused(r) =>
           /\ Cardinality(Paid(h'[r].bucket)) >= LimitOf(h'[r].bucket).capacity
           /\ CreditAfter(r, h[r].retry + CutOff)' >= One(h'[r].bucket)]_vars
  <2> SUFFICES ASSUME TypeInv, Drained, Next, NEW r \in Request, JustRefused(r)
               PROVE  /\ Cardinality(Paid(h'[r].bucket)) >= LimitOf(h'[r].bucket).capacity
                      /\ CreditAfter(r, h[r].retry + CutOff)' >= One(h'[r].bucket)
    OBVIOUS
  <2>1. Peek(r) \/ Check(r)
    BY RefusedByOwn
  <2> QED BY <2>1, CheckFair, PeekFair
<1> QED BY <1>1, <1>2, <1>3, PTL DEF Spec, RefusalIsFair

=============================================================================
