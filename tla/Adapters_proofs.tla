-------------------------- MODULE Adapters_proofs ---------------------------
(* Theorems about the storage adapters: connections, locks and rows stay     *)
(* well formed, and, as long as no statement of libsql runs outside a        *)
(* transaction, a call takes effect at once or not at all.                   *)
EXTENDS Adapters, FiniteSetTheorems, TLAPS

-----------------------------------------------------------------------------
(* Rows.                                                                     *)

Table(v) == v = [k \in Key |-> v[k]] /\ \A k \in Key : v[k] \in Value(k)

\* What a transaction has written.
Part(m) ==
  /\ m = [k \in DOMAIN m |-> m[k]]
  /\ \A k \in DOMAIN m : k \in Key /\ m[k] \in Value(k)

Parts == {m \in UNION {[D -> UNION {Value(k) : k \in Key}] : D \in SUBSET Key} : Part(m)}

LEMMA PartsArePart == \A m : m \in Parts <=> Part(m)
  <1> SUFFICES ASSUME NEW m, Part(m) PROVE m \in Parts
    BY DEF Parts
  <1>1. DOMAIN m \in SUBSET Key
    BY DEF Part
  <1>2. \A k \in DOMAIN m : m[k] \in UNION {Value(q) : q \in Key}
    BY DEF Part
  <1>3. m \in [DOMAIN m -> UNION {Value(k) : k \in Key}]
    BY <1>2 DEF Part
  <1> QED
    BY <1>1, <1>3 DEF Parts

\* A transaction that has written nothing sees what is committed.
LEMMA NothingWritten ==
  ASSUME NEW m, Part(m), DOMAIN m = {}, NEW v, Table(v)
  PROVE  Over(m, v) = v
  BY DEF Part, Table, Over

LEMMA EmptyPart == Part(<<>>) /\ DOMAIN <<>> = {}
  BY DEF Part

LEMMA SeenThrough ==
  ASSUME NEW m, Part(m), NEW v, Table(v)
  PROVE  /\ Table(Over(m, v))
         /\ \A k \in Key : Over(m, v)[k] = IF k \in DOMAIN m THEN m[k] ELSE v[k]
  <1>1. DOMAIN m \cup DOMAIN v = Key
    BY DEF Part, Table
  <1> QED
    BY <1>1 DEF Part, Table, Over

\* The rows W of a table.
Written(W, v) == [k \in W |-> v[k]]

\* w is what the transaction that wrote m sees, but for the rows W.
Rewrites(W, m, v, w) ==
  /\ Part(m) /\ Table(v) /\ Table(w)
  /\ W \subseteq Key
  /\ \A k \in Key \ W : w[k] = Over(m, v)[k]

\* What is left when w is written over m in this way.
Laid(W, m, v, w, wrote) ==
  /\ Part(wrote)
  /\ DOMAIN wrote = W \cup DOMAIN m
  /\ \A k \in W : wrote[k] = w[k]
  /\ \A k \in DOMAIN m \ W : wrote[k] = m[k]
  /\ Over(wrote, v) = w
  /\ W = {} => wrote = m

LEMMA WrittenOver ==
  ASSUME NEW m, NEW v, NEW w, NEW W, Rewrites(W, m, v, w)
  PROVE  Laid(W, m, v, w, Over(Written(W, w), m))
  <1> USE DEF Rewrites, Written
  <1> DEFINE wrote == Over(Written(W, w), m)
  <1>1. wrote = [k \in W \cup DOMAIN m |-> IF k \in W THEN w[k] ELSE m[k]]
    BY DEF Over
  <1>2. DOMAIN m \subseteq Key
    BY DEF Part
  <1> HIDE DEF wrote
  <1>3. Part(wrote)
    BY <1>1, <1>2 DEF Part, Table
  <1>4. W = {} => wrote = m
    BY <1>1 DEF Part
  <1>5. Over(wrote, v) = w
    <2>1. Table(Over(wrote, v))
      BY <1>3, SeenThrough
    <2>2. \A k \in Key : Over(wrote, v)[k] = w[k]
      BY <1>1, <1>3, SeenThrough
    <2> QED
      BY <2>1, <2>2 DEF Table
  <1> QED
    BY <1>1, <1>2, <1>3, <1>4, <1>5 DEF wrote, Laid

-----------------------------------------------------------------------------
(* Statements and programs.                                                  *)

\* A statement that names a row of the table and fits it.
Sound(s) ==
  /\ s.key \in Key
  /\ \/ s.do \in {"insert", "claim", "put", "decide"} /\ s.val \in Value(s.key)
     \/ s.do = "expect"
     \/ s.do = "read" /\ s.key = LinkRows
     \/ s.do = "pair" /\ s.val \in 1 .. LongestSlug /\ s.key = NS(s.val)

LEMMA Rows ==
  /\ \A n \in 1 .. LongestSlug + 1 : NS(n) \in Key /\ Value(NS(n)) = {Nil} \cup 0 .. LongestSlug + 1
  /\ \A m, n : NS(m) = NS(n) => m = n
  /\ {PageRow, PendingRow, UserRow, LinkRows} \subseteq Key
  /\ \A k \in {PageRow, PendingRow, UserRow, LinkRows} : Value(k) = {Nil, "pending"} \cup Request
  /\ \A r \in Request : AuditRow(r) \in Key /\ Value(AuditRow(r)) = {Nil, "pending"} \cup Request
  /\ \A n : NS(n) \notin {PageRow, PendingRow, UserRow, LinkRows}
  /\ \A n, r : NS(n) # AuditRow(r) /\ PageRow # AuditRow(r)
  BY DEF Key, Value, NS, PageRow, PendingRow, UserRow, LinkRows, AuditRow

\* A statement either fails or has one outcome, which differs from what it
\* found only in the rows it writes.
LEMMA StatementRuns ==
  ASSUME dialect \in {"sqlite", "postgres", "libsql"},
         NEW s, Sound(s), NEW v, Table(v)
  PROVE  /\ Writes(s) \subseteq Key
         /\ \A w \in After(s, v) :
              /\ Table(w)
              /\ After(s, v) = {w}
              /\ \A k \in Key \ Writes(s) : w[k] = v[k]
  <1> USE AdaptersAssumption
  <1>1. CASE s.do \in {"insert", "claim", "put", "decide"}
    <2>1. Writes(s) = {s.key}
      BY <1>1 DEF Writes
    <2>2. \A w \in After(s, v) : \E x \in Value(s.key) :
            w = [v EXCEPT ![s.key] = x] /\ After(s, v) = {w}
      BY <1>1 DEF After, Sound, Table
    <2> QED
      BY <2>1, <2>2 DEF Sound, Table
  <1>2. CASE s.do \in {"expect", "read"}
    <2>1. Writes(s) = {}
      BY <1>2 DEF Writes
    <2>2. \A w \in After(s, v) : w = v /\ After(s, v) = {w}
      BY <1>2 DEF After
    <2> QED
      BY <2>1, <2>2
  <1>3. CASE s.do = "pair"
    <2> DEFINE n == s.val
               x == IF v[NS(n + 1)] = Unpaired THEN n ELSE v[NS(n + 1)]
    <2>1. n \in 1 .. LongestSlug /\ n + 1 \in 1 .. LongestSlug + 1 /\ s.key = NS(n)
      BY <1>3 DEF Sound
    <2>2. NS(n) \in Key /\ NS(n + 1) \in Key /\ NS(n) # NS(n + 1)
          /\ n + 1 \in Value(NS(n)) /\ n \in Value(NS(n + 1))
      BY <2>1, Rows
    <2>3. Writes(s) = {NS(n), NS(n + 1)}
      BY <1>3, <2>1 DEF Writes
    <2>4. x \in Value(NS(n + 1))
      BY <2>2 DEF Table
    <2>5. \A w \in After(s, v) :
            w = [v EXCEPT ![NS(n)] = n + 1, ![NS(n + 1)] = x] /\ After(s, v) = {w}
      BY <1>3, <2>1, <2>2 DEF After, Table
    <2> HIDE DEF x, n
    <2> QED
      BY <2>2, <2>3, <2>4, <2>5 DEF Table
  <1> QED
    BY <1>1, <1>2, <1>3 DEF Sound

Called == [op : Offered("sqlite"), arg : 1 .. LongestSlug]

\* The programs are short and their statements fit the table.
LEMMA ProgramsFit ==
  ASSUME NEW c \in Called, NEW r \in Request
  PROVE  LET p == Program(c, r)
         IN  /\ Len(p) \in 1 .. 3
             /\ DOMAIN p = 1 .. Len(p)
             /\ \A i \in 1 .. Len(p) : Sound(p[i])
  <1> USE AdaptersAssumption DEF Called, Offered
  <1>0. c.arg \in 1 .. LongestSlug + 1 /\ c.arg + 1 \in 1 .. LongestSlug + 1
    OBVIOUS
  <1>1. CASE c.op = "namespace"
    BY <1>0, <1>1, Rows DEF Program, create, Insert, Claim, Pair, Sound, Unpaired
  <1>2. CASE c.op = "talk"
    BY <1>0, <1>2, Rows DEF Program, create_talk, Insert, Sound, Unpaired
  <1>3. CASE c.op = "page"
    BY <1>3, Rows DEF Program, commit_page_audit, Insert, Sound
  <1>4. CASE c.op = "decide"
    BY <1>4, Rows DEF Program, decide, Expect, Decide, Sound
  <1>5. CASE c.op = "replace"
    BY <1>5, Rows DEF Program, replace_for_source, Put, Sound
  <1>6. CASE c.op = "user"
    BY <1>6, Rows DEF Program, create_user, Insert, Sound
  <1>7. CASE c.op = "list"
    BY <1>7, Rows DEF Program, list_backlinks_to, Read, Sound
  <1> QED
    BY <1>1, <1>2, <1>3, <1>4, <1>5, <1>6, <1>7

-----------------------------------------------------------------------------
(* Whole programs.                                                           *)

Then(s, all) == UNION {After(s, y) : y \in all}

\* A fold over at most three statements, unfolded.
LEMMA Folds ==
  ASSUME NEW n \in 1 .. 3, NEW p, DOMAIN p = 1 .. n, NEW a
  PROVE  /\ n = 1 => AfterAll(p, a) = Then(p[1], {a})
         /\ n = 2 => AfterAll(p, a) = Then(p[2], Then(p[1], {a}))
         /\ n = 3 => AfterAll(p, a) = Then(p[3], Then(p[2], Then(p[1], {a})))
  <1> DEFINE D == 1 .. n
             M(S) == Max(S)
             F(f) == [x \in SUBSET D |->
                       IF x = {} THEN {a} ELSE Then(p[M(x)], f[x \ {M(x)}])]
             it == CHOOSE it : it = F(it)
             g1 == F([x \in SUBSET D |-> {a}])
             g2 == F(g1)
             g == F(g2)
  <1>1. ASSUME NEW x \in SUBSET D, x # {}
        PROVE  M(x) \in x /\ \A y \in x : M(x) >= y
    <2>1. D \subseteq {1, 2, 3}
      OBVIOUS
    <2>2. \E m \in x : \A y \in x : m >= y
      <3>1. CASE 3 \in x
        BY <3>1, <2>1
      <3>2. CASE 3 \notin x /\ 2 \in x
        BY <3>2, <2>1
      <3>3. CASE 3 \notin x /\ 2 \notin x
        <4>1. 1 \in x /\ \A y \in x : y = 1
          BY <3>3, <2>1, <1>1
        <4> QED BY <4>1
      <3> QED
        BY <3>1, <3>2, <3>3
    <2> QED
      BY <2>2 DEF Max
  <1>2. AfterAll(p, a) = it[D]
    BY DEF AfterAll, FoldLeft, MapThenFoldSet, Then
  <1> HIDE DEF M
  <1>4. F(g) = g
    <2> SUFFICES ASSUME NEW x \in SUBSET D, x # {}
                 PROVE  g[x \ {M(x)}] = g2[x \ {M(x)}]
      OBVIOUS
    <2> DEFINE y == x \ {M(x)}
               z == y \ {M(y)}
    <2>1. y = {} \/ z = {} \/ z \ {M(z)} = {}
      <3> SUFFICES ASSUME y # {}, z # {}
                   PROVE  z \ {M(z)} = {}
        OBVIOUS
      <3>1. y \in SUBSET D /\ z \in SUBSET D
        OBVIOUS
      <3>2. M(x) \in x /\ M(y) \in y /\ M(z) \in z
        BY <1>1, <3>1
      <3>3. x \subseteq 1 .. 3 /\ y \subseteq x /\ z \subseteq y
        OBVIOUS
      <3>4. M(x) \in 1 .. 3 /\ M(y) \in 1 .. 3 /\ M(z) \in 1 .. 3
        BY <3>2, <3>3
      <3>5. M(x) # M(y) /\ M(x) # M(z) /\ M(y) # M(z)
        BY <3>2
      <3>6. ASSUME NEW e \in z, e # M(z)
            PROVE  FALSE
        <4>1. e \in 1 .. 3 /\ e # M(x) /\ e # M(y)
          BY <3>3
        <4> QED
          BY <4>1, <3>4, <3>5, <3>6
      <3> QED
        BY <3>6
    <2>2. y \in SUBSET D /\ z \in SUBSET D /\ z \ {M(z)} \in SUBSET D
      OBVIOUS
    <2> QED
      BY <2>1, <2>2
  <1>5. it = F(it)
    BY <1>4
  <1> HIDE DEF it
  <1>6. it[{}] = {a}
    BY <1>5
  <1>7. ASSUME NEW x \in SUBSET D, x # {}
        PROVE  it[x] = Then(p[M(x)], it[x \ {M(x)}])
    BY <1>5, <1>7
  <1>8. ASSUME NEW k \in 1 .. n
        PROVE  M(1 .. k) = k /\ (1 .. k) \ {k} = 1 .. k - 1
    <2>1. 1 .. k \in SUBSET D /\ k \in 1 .. k
      OBVIOUS
    <2>2. M(1 .. k) \in 1 .. k /\ M(1 .. k) >= k
      BY <2>1, <1>1
    <2> QED
      BY <2>2
  <1>9. ASSUME NEW k \in 1 .. n
        PROVE  it[1 .. k] = Then(p[k], it[1 .. k - 1])
    <2>1. 1 .. k \in SUBSET D /\ 1 .. k # {}
      OBVIOUS
    <2> HIDE DEF D
    <2> QED
      BY <2>1, <1>7, <1>8
  <1>10. it[1 .. 0] = {a}
    BY <1>6
  <1>11. it[1 .. 1] = Then(p[1], {a})
    <2>1. 1 \in 1 .. n /\ 1 - 1 = 0
      OBVIOUS
    <2> HIDE DEF D
    <2> QED BY <2>1, <1>9, <1>10
  <1>12. n \in {2, 3} => it[1 .. 2] = Then(p[2], Then(p[1], {a}))
    <2>1. n \in {2, 3} => 2 \in 1 .. n /\ 2 - 1 = 1
      OBVIOUS
    <2> QED BY <2>1, <1>9, <1>11
  <1>13. n = 3 => it[1 .. 3] = Then(p[3], Then(p[2], Then(p[1], {a})))
    <2>1. n = 3 => 3 \in 1 .. n /\ 3 - 1 = 2
      OBVIOUS
    <2> QED BY <2>1, <1>9, <1>12
  <1> QED
    BY <1>2, <1>11, <1>12, <1>13

-----------------------------------------------------------------------------
(* Handlers.                                                                 *)

Pcs == {"idle", "begin", "run", "commit", "again", "answer", "ok", "refused", "lost"}

Handler ==
  [pc : Pcs, call : Called \cup {Nil}, at : 1 .. 4, mine : Parts,
   lock : {"none", "shared", "reserved", "pending"}, seen : {Nil, "pending"} \cup Request]

Holder(r) == t[r].lock \in {"reserved", "pending"}

Prog(r) == Program(t[r].call, r)

\* What a handler's record holds depends on where it is.
Shape(r) ==
  /\ t[r].pc # "idle" => t[r].call \in Calls[dialect]
  /\ t[r].pc \in {"idle", "begin"} => t[r].at = 1
  /\ t[r].pc = "run" => t[r].at <= Len(Prog(r))
  /\ t[r].pc = "commit" => t[r].at = Len(Prog(r)) + 1
  /\ t[r].pc = "again" => t[r].call.op = "decide"
  /\ t[r].pc \notin {"run", "commit"} => t[r].mine = <<>> /\ t[r].lock = "none"
  /\ dialect # "sqlite" => t[r].lock = "none"
  /\ dialect = "libsql" /\ Single(r) => t[r].mine = <<>>

TypeInv ==
  /\ dialect \in DOMAIN Calls
  /\ Table(rows)
  /\ t \in [Request -> Handler]
  /\ \A r \in Request : Shape(r)
  /\ dialect # "libsql" => Cardinality(Connected) <= PoolSize
  /\ \A r, o \in Request : Holder(r) /\ Holder(o) => r = o

LEMMA CallsAreCalls ==
  ASSUME NEW d \in DOMAIN Calls
  PROVE  Calls[d] \subseteq Called /\ d \in {"sqlite", "postgres", "libsql"}
  BY AdaptersAssumption DEF Called, Offered

LEMMA InitType == Init => TypeInv
  <1> SUFFICES ASSUME Init PROVE TypeInv
    OBVIOUS
  <1>1. Table(rows)
    BY DEF Init, Table, Key, Value, PendingRow
  <1>2. <<>> \in Parts
    BY EmptyPart, PartsArePart
  <1>3. Idle \in Handler
    BY <1>2 DEF Idle, Handler, Pcs
  <1>4. t \in [Request -> Handler] /\ \A r \in Request : t[r] = Idle
    BY <1>3 DEF Init
  <1>5. \A r \in Request : Shape(r) /\ ~Holder(r)
    BY <1>4 DEF Shape, Holder, Idle
  <1>6. Connected = {}
    BY <1>4 DEF Connected, Idle
  <1>7. Cardinality(Connected) <= PoolSize
    BY <1>6, FS_EmptySet, AdaptersAssumption
  <1> QED
    BY <1>1, <1>4, <1>5, <1>7 DEF TypeInv, Init

\* Statement r is about to run, and what it runs in.
LEMMA Running ==
  ASSUME TypeInv, NEW r \in Request, t[r].pc \in {"run", "commit"}
  PROVE  /\ dialect \in {"sqlite", "postgres", "libsql"}
         /\ t[r].call \in Called
         /\ Len(Prog(r)) \in 1 .. 3
         /\ DOMAIN Prog(r) = 1 .. Len(Prog(r))
         /\ \A i \in 1 .. Len(Prog(r)) : Sound(Prog(r)[i])
         /\ t[r].pc = "run" => t[r].at \in 1 .. Len(Prog(r)) /\ Sound(Statement(r))
         /\ Session(r) \in Connected
         /\ dialect # "libsql" => Session(r) = r
         /\ ~Single(r) /\ Connected = {r} => Session(r) = r
  <1>1. dialect \in {"sqlite", "postgres", "libsql"} /\ t[r].call \in Called
    BY CallsAreCalls DEF TypeInv, Shape
  <1>2. Len(Prog(r)) \in 1 .. 3 /\ DOMAIN Prog(r) = 1 .. Len(Prog(r))
        /\ \A i \in 1 .. Len(Prog(r)) : Sound(Prog(r)[i])
    BY <1>1, ProgramsFit DEF Prog
  <1>3. t[r].pc = "run" => t[r].at \in 1 .. Len(Prog(r)) /\ Sound(Statement(r))
    <2>1. t[r].at \in 1 .. 4
      BY DEF TypeInv, Handler
    <2> QED
      BY <1>2, <2>1 DEF TypeInv, Shape, Statement, Prog
  <1>4. Session(r) \in Connected
    BY DEF Session, Connected
  <1>5. ~Single(r) /\ Connected = {r} => Session(r) = r
    BY DEF Session
  <1> QED
    BY <1>1, <1>2, <1>3, <1>4, <1>5 DEF Session

LEMMA ViewIsTable ==
  ASSUME TypeInv, NEW r \in Request, t[r].pc \in {"run", "commit"}
  PROVE  Table(View(r))
  <1>1. Session(r) \in Request
    BY Running DEF Connected
  <1>2. Part(t[Session(r)].mine)
    BY <1>1, PartsArePart DEF TypeInv, Handler
  <1> QED
    BY <1>2, SeenThrough DEF View, TypeInv

-----------------------------------------------------------------------------
(* Steps.                                                                    *)

\* Handler r runs its statement in the transaction of x and finds v.
Runs(r, x, v) ==
  LET s == Statement(r)
      wrote == Written(Writes(s), v)
      alone == dialect = "libsql" /\ Single(r)
  IN /\ t[r].pc = "run"
     /\ x = Session(r)
     /\ MayRun(r)
     /\ v \in After(s, View(r))
     /\ t' \in [Request -> Handler]
     /\ dialect' = dialect
     /\ rows' = IF alone /\ x = r THEN Over(wrote, rows) ELSE rows
     /\ t'[r].at = t[r].at + 1
     /\ t'[r].call = t[r].call
     /\ t'[r].lock = IF dialect = "sqlite" THEN LockAfter(r) ELSE t[r].lock
     /\ t'[r].seen = IF s.do = "read" THEN v[s.key] ELSE t[r].seen
     /\ t'[r].pc = IF alone THEN "answer"
                   ELSE IF t[r].at = Len(Prog(r)) THEN "commit" ELSE "run"
     /\ t'[x].mine = IF alone /\ x = r THEN t[x].mine ELSE Over(wrote, t[x].mine)
     /\ \A q \in Request \ {x} : t'[q].mine = t[q].mine
     /\ \A q \in Request \ {r} :
          /\ t'[q].pc = t[q].pc /\ t'[q].call = t[q].call /\ t'[q].at = t[q].at
          /\ t'[q].lock = t[q].lock /\ t'[q].seen = t[q].seen

LEMMA OneReplaced ==
  ASSUME NEW S, NEW f \in [Request -> S], NEW r \in Request, NEW g \in S
  PROVE  LET e == [f EXCEPT ![r] = g]
         IN  e \in [Request -> S] /\ e[r] = g /\ \A q \in Request \ {r} : e[q] = f[q]
  OBVIOUS

\* The record of one handler and what another one's has written are replaced.
Rewriting(r, x, m, a, l, s, p) ==
  t' = [t EXCEPT ![x].mine = m, ![r].at = a, ![r].lock = l, ![r].seen = s, ![r].pc = p]

Rewritten(r, x, m, a, l, s, p) ==
  /\ t' \in [Request -> Handler]
  /\ t'[r].at = a /\ t'[r].lock = l /\ t'[r].seen = s /\ t'[r].pc = p
  /\ t'[r].call = t[r].call
  /\ t'[x].mine = m
  /\ \A q \in Request \ {x} : t'[q].mine = t[q].mine
  /\ \A q \in Request \ {r} :
       /\ t'[q].pc = t[q].pc /\ t'[q].call = t[q].call /\ t'[q].at = t[q].at
       /\ t'[q].lock = t[q].lock /\ t'[q].seen = t[q].seen

LEMMA RecordsChange ==
  ASSUME t \in [Request -> Handler], NEW r \in Request, NEW x \in Request,
         NEW m \in Parts, NEW a \in 1 .. 4,
         NEW l \in {"none", "shared", "reserved", "pending"},
         NEW s \in {Nil, "pending"} \cup Request, NEW p \in Pcs,
         Rewriting(r, x, m, a, l, s, p)
  PROVE  Rewritten(r, x, m, a, l, s, p)
  <1> USE DEF Rewritten, Rewriting
  <1>1. PICK t1 : t1 = [t EXCEPT ![x].mine = m]
    OBVIOUS
  <1>2. /\ t1 \in [Request -> Handler] /\ t1[x].mine = m
        /\ \A q \in Request \ {x} : t1[q] = t[q]
        /\ \A q \in Request : /\ t1[q].pc = t[q].pc /\ t1[q].call = t[q].call
                              /\ t1[q].at = t[q].at /\ t1[q].lock = t[q].lock
                              /\ t1[q].seen = t[q].seen
    BY <1>1 DEF Handler
  <1>3. t' = [t1 EXCEPT ![r] = [[[[@ EXCEPT !.at = a] EXCEPT !.lock = l] EXCEPT !.seen = s]
                                   EXCEPT !.pc = p]]
    BY <1>1
  <1>4. PICK h \in Handler : h = t1[r]
    BY <1>2
  <1>5. PICK g : g = [[[[h EXCEPT !.at = a] EXCEPT !.lock = l] EXCEPT !.seen = s]
                        EXCEPT !.pc = p]
    OBVIOUS
  <1>6. g \in Handler /\ g.at = a /\ g.lock = l /\ g.seen = s /\ g.pc = p
        /\ g.call = h.call /\ g.mine = h.mine
    BY <1>5 DEF Handler
  <1>7. t' = [t1 EXCEPT ![r] = g]
    BY <1>3, <1>4, <1>5
  <1> HIDE DEF Handler
  <1>8. /\ t' \in [Request -> Handler] /\ t'[r] = g
        /\ \A q \in Request \ {r} : t'[q] = t1[q]
    <2>1. PICK e : e = [t1 EXCEPT ![r] = g]
      OBVIOUS
    <2>2. e \in [Request -> Handler] /\ e[r] = g /\ \A q \in Request \ {r} : e[q] = t1[q]
      BY <1>2, <1>6, <2>1, OneReplaced
    <2>3. t' = e
      BY <1>7, <2>1
    <2> QED
      BY <2>2, <2>3
  <1>9. t'[x].mine = m /\ \A q \in Request \ {x} : t'[q].mine = t[q].mine
    BY <1>2, <1>4, <1>6, <1>8
  <1> QED
    BY <1>2, <1>4, <1>6, <1>8, <1>9

\* What Execute makes of the state when the statement succeeds.
Finds(r, v) ==
  LET s == Statement(r)
      x == Session(r)
      wrote == Written(Writes(s), v)
      alone == dialect = "libsql" /\ Single(r)
  IN /\ t' = [t EXCEPT
          ![x].mine = IF alone /\ x = r THEN @ ELSE Over(wrote, @),
          ![r].at = @ + 1,
          ![r].lock = IF dialect = "sqlite" THEN LockAfter(r) ELSE @,
          ![r].seen = IF s.do = "read" THEN v[s.key] ELSE @,
          ![r].pc = IF alone THEN "answer"
                    ELSE IF t[r].at = Len(Prog(r)) THEN "commit" ELSE @]
     /\ rows' = IF alone /\ x = r THEN Over(wrote, rows) ELSE rows
     /\ UNCHANGED dialect

LEMMA ExecuteRuns ==
  ASSUME TypeInv, NEW r \in Request, Execute(r)
  PROVE  \/ After(Statement(r), View(r)) = {} /\ End(r, "refused")
         \/ \E x \in Connected : \E v : Table(v) /\ Runs(r, x, v)
  <1> SUFFICES ASSUME NEW v \in After(Statement(r), View(r)), Finds(r, v)
               PROVE  \E x \in Connected : \E w : Table(w) /\ Runs(r, x, w)
    BY DEF Execute, Finds, Prog, Written
  <1>0. t[r].pc = "run" /\ MayRun(r)
    BY DEF Execute
  <1>1. PICK x \in Connected : x = Session(r)
    BY <1>0, Running
  <1>2. x \in Request /\ Part(t[x].mine) /\ t[x].mine \in Parts /\ View(r) = Over(t[x].mine, rows)
    BY <1>1, PartsArePart DEF Connected, View, TypeInv, Handler
  <1>3. Table(rows) /\ Sound(Statement(r)) /\ dialect \in {"sqlite", "postgres", "libsql"}
        /\ t[r].at \in 1 .. 3
    BY <1>0, Running DEF TypeInv
  <1>4. Table(View(r))
    BY <1>0, ViewIsTable
  <1>5. Table(v) /\ Writes(Statement(r)) \subseteq Key
        /\ \A k \in Key \ Writes(Statement(r)) : v[k] = View(r)[k]
    BY <1>3, <1>4, StatementRuns
  <1> DEFINE wrote == Written(Writes(Statement(r)), v)
             alone == dialect = "libsql" /\ Single(r)
  <1>6. Over(wrote, t[x].mine) \in Parts
    <2>1. \A k \in Key \ Writes(Statement(r)) : v[k] = Over(t[x].mine, rows)[k]
      BY <1>2, <1>5
    <2>2. PICK m, W : m = t[x].mine /\ W = Writes(Statement(r))
      OBVIOUS
    <2>3. Part(Over(Written(W, v), m))
      <3>1. Rewrites(W, m, rows, v)
        BY <1>2, <1>3, <1>5, <2>1, <2>2 DEF Rewrites
      <3> QED
        BY <3>1, WrittenOver DEF Laid
    <2> QED
      BY <2>2, <2>3, PartsArePart
  <1>7. PICK m \in Parts : m = IF alone /\ x = r THEN t[x].mine ELSE Over(wrote, t[x].mine)
    BY <1>2, <1>6
  <1>8. PICK l \in {"none", "shared", "reserved", "pending"} :
          l = IF dialect = "sqlite" THEN LockAfter(r) ELSE t[r].lock
    BY DEF LockAfter, TypeInv, Handler
  <1>9. PICK s \in {Nil, "pending"} \cup Request :
          s = IF Statement(r).do = "read" THEN v[Statement(r).key] ELSE t[r].seen
    <2>1. Statement(r).do = "read" => Statement(r).key = LinkRows
      BY <1>3 DEF Sound
    <2>2. v[LinkRows] \in {Nil, "pending"} \cup Request
      BY <1>5, Rows DEF Table
    <2> QED
      BY <2>1, <2>2 DEF TypeInv, Handler
  <1>10. PICK p \in Pcs : p = IF alone THEN "answer"
                              ELSE IF t[r].at = Len(Prog(r)) THEN "commit" ELSE "run"
    BY DEF Pcs
  <1>11. PICK a \in 1 .. 4 : a = t[r].at + 1
    BY <1>3
  <1>12. t \in [Request -> Handler]
    BY DEF TypeInv
  <1>13. Rewriting(r, x, m, a, l, s, p)
    BY <1>0, <1>1, <1>2, <1>7, <1>8, <1>9, <1>10, <1>11, <1>12 DEF Finds, Prog, Handler, Rewriting
  <1>14. rows' = (IF alone /\ x = r THEN Over(wrote, rows) ELSE rows) /\ dialect' = dialect
    BY <1>1 DEF Finds
  <1>15. Rewritten(r, x, m, a, l, s, p)
    <2> HIDE DEF wrote, alone
    <2> QED
      BY <1>2, <1>12, <1>13, RecordsChange
  <1>16. Runs(r, x, v)
    BY <1>0, <1>1, <1>7, <1>8, <1>9, <1>10, <1>11, <1>14, <1>15 DEF Runs, Rewritten
  <1> QED
    BY <1>5, <1>16

-----------------------------------------------------------------------------
(* Types.                                                                    *)

\* Only the record of handler r changes.
Alone(r) == t' \in [Request -> Handler] /\ \A q \in Request \ {r} : t'[q] = t[q]

\* The call of r ends, with its transaction.
Closed(r, pc) ==
  /\ Alone(r)
  /\ t'[r].pc = pc /\ t'[r].mine = <<>> /\ t'[r].lock = "none"
  /\ t'[r].call = t[r].call /\ t'[r].at = t[r].at /\ t'[r].seen = t[r].seen

LEMMA Closes ==
  ASSUME t \in [Request -> Handler], NEW r \in Request, NEW pc \in Pcs,
         t' = [t EXCEPT ![r].pc = pc, ![r].mine = <<>>, ![r].lock = "none"]
  PROVE  Closed(r, pc)
  <1>0. <<>> \in Parts
    BY EmptyPart, PartsArePart
  <1>1. PICK h \in Handler : h = t[r]
    OBVIOUS
  <1>2. PICK g : g = [[[h EXCEPT !.pc = pc] EXCEPT !.mine = <<>>] EXCEPT !.lock = "none"]
    OBVIOUS
  <1>3. /\ g \in Handler /\ g.pc = pc /\ g.mine = <<>> /\ g.lock = "none"
        /\ g.call = h.call /\ g.at = h.at /\ g.seen = h.seen
    BY <1>0, <1>2 DEF Handler
  <1>4. PICK e : e = [t EXCEPT ![r] = g]
    OBVIOUS
  <1>5. e \in [Request -> Handler] /\ e[r] = g /\ \A q \in Request \ {r} : e[q] = t[q]
    BY <1>3, <1>4, OneReplaced
  <1>6. t' = e
    BY <1>1, <1>2, <1>4
  <1> QED
    BY <1>1, <1>3, <1>5, <1>6 DEF Closed, Alone

\* What is left to show of a step that changes one handler alone.
Fits(r) ==
  /\ Alone(r)
  /\ dialect' = dialect
  /\ Table(rows')
  /\ Shape(r)'
  /\ Holder(r)' => Holder(r)
  /\ \/ t'[r].pc \in {"run", "commit"} => t[r].pc \in {"run", "commit"}
     \/ dialect # "libsql" => Cardinality(Connected) < PoolSize

LEMMA ConnectedFinite == IsFiniteSet(Connected)
  BY FS_Subset, AdaptersAssumption DEF Connected

LEMMA OneConnects ==
  ASSUME NEW C, IsFiniteSet(C), NEW r
  PROVE  IsFiniteSet(C \cup {r}) /\ Cardinality(C \cup {r}) <= Cardinality(C) + 1
  <1>0. Cardinality(C) \in Nat
    BY FS_CardinalityType
  <1>1. CASE r \in C
    <2>1. PICK D : D = C \cup {r}
      OBVIOUS
    <2>2. D = C
      BY <1>1, <2>1
    <2>3. Cardinality(D) <= Cardinality(C) + 1 /\ IsFiniteSet(D)
      BY <1>0, <2>2
    <2> QED
      BY <2>1, <2>3, Zenon
  <1>2. CASE r \notin C
    <2>1. IsFiniteSet(C \cup {r}) /\ Cardinality(C \cup {r}) = Cardinality(C) + 1
      BY <1>2, FS_AddElement
    <2> QED
      BY <2>1, <1>0
  <1> QED
    BY <1>1, <1>2

LEMMA FitsType ==
  ASSUME TypeInv, NEW r \in Request, Fits(r)
  PROVE  TypeInv'
  <1> USE DEF TypeInv, Fits, Alone
  <1>1. \A q \in Request : Shape(q)'
    BY DEF Shape, Prog, Single
  <1>2. \A q, o \in Request : Holder(q)' /\ Holder(o)' => q = o
    BY DEF Holder
  <1>3. ASSUME dialect # "libsql" PROVE Cardinality(Connected') <= PoolSize
    <2>1. CASE t'[r].pc \in {"run", "commit"} => t[r].pc \in {"run", "commit"}
      <3>1. Connected' \subseteq Connected
        BY <2>1 DEF Connected
      <3>2. Cardinality(Connected') <= Cardinality(Connected)
        BY <3>1, ConnectedFinite, FS_Subset
      <3>3. Connected' \in SUBSET Connected /\ IsFiniteSet(Connected')
        BY <3>1, ConnectedFinite, FS_Subset
      <3> QED
        BY <1>3, <3>2, <3>3, ConnectedFinite, FS_CardinalityType, AdaptersAssumption
    <2>2. CASE Cardinality(Connected) < PoolSize
      <3>1. Connected' \subseteq Connected \cup {r}
        BY DEF Connected
      <3>2. Cardinality(Connected \cup {r}) <= Cardinality(Connected) + 1
            /\ IsFiniteSet(Connected \cup {r})
        BY ConnectedFinite, OneConnects
      <3>3. IsFiniteSet(Connected')
            /\ Cardinality(Connected') <= Cardinality(Connected \cup {r})
        BY <3>1, <3>2, FS_Subset
      <3> QED
        BY <2>2, <3>2, <3>3, ConnectedFinite, FS_CardinalityType, AdaptersAssumption
    <2> QED
      BY <1>3, <2>1, <2>2
  <1> QED
    BY <1>1, <1>2, <1>3

LEMMA ClosedFits ==
  ASSUME TypeInv, NEW r \in Request, NEW pc \in Pcs \ {"idle", "begin", "run", "commit"},
         Closed(r, pc), dialect' = dialect, Table(rows'), t[r].pc # "idle",
         pc = "again" => t[r].call.op = "decide"
  PROVE  TypeInv'
  <1>1. Shape(r)'
    BY DEF Closed, Alone, TypeInv, Shape, Single
  <1>2. Fits(r)
    BY <1>1 DEF Closed, Fits, Holder
  <1> QED
    BY <1>2, FitsType

\* One handler goes on to another place, and that is all.
LEMMA GoesOn ==
  ASSUME t \in [Request -> Handler], NEW r \in Request, NEW pc \in Pcs,
         t' = [t EXCEPT ![r].pc = pc]
  PROVE  /\ Alone(r)
         /\ t'[r].pc = pc /\ t'[r].mine = t[r].mine /\ t'[r].lock = t[r].lock
         /\ t'[r].call = t[r].call /\ t'[r].at = t[r].at /\ t'[r].seen = t[r].seen
  BY DEF Alone, Handler

LEMMA ComeAlone ==
  ASSUME t \in [Request -> Handler], NEW r \in Request, dialect \in DOMAIN Calls,
         NEW c \in Calls[dialect],
         t' = [t EXCEPT ![r].pc = "begin", ![r].call = c]
  PROVE  /\ Alone(r)
         /\ t'[r].pc = "begin" /\ t'[r].call = c /\ t'[r].mine = t[r].mine
         /\ t'[r].lock = t[r].lock /\ t'[r].at = t[r].at /\ t'[r].seen = t[r].seen
  <1>1. c \in Called
    BY CallsAreCalls
  <1>2. PICK h \in Handler : h = t[r]
    OBVIOUS
  <1>3. PICK g : g = [[h EXCEPT !.pc = "begin"] EXCEPT !.call = c]
    OBVIOUS
  <1>4. /\ g \in Handler /\ g.pc = "begin" /\ g.call = c
        /\ g.mine = h.mine /\ g.lock = h.lock /\ g.at = h.at /\ g.seen = h.seen
    BY <1>1, <1>3 DEF Handler, Pcs
  <1>5. PICK e : e = [t EXCEPT ![r] = g]
    OBVIOUS
  <1>6. e \in [Request -> Handler] /\ e[r] = g /\ \A q \in Request \ {r} : e[q] = t[q]
    BY <1>4, <1>5, OneReplaced
  <1>7. t' = e
    BY <1>2, <1>3, <1>5
  <1> QED
    BY <1>2, <1>4, <1>6, <1>7 DEF Alone

LEMMA WaitAlone ==
  ASSUME t \in [Request -> Handler], NEW r \in Request,
         t' = [t EXCEPT ![r].lock = "pending"]
  PROVE  /\ Alone(r)
         /\ t'[r].lock = "pending" /\ t'[r].pc = t[r].pc /\ t'[r].mine = t[r].mine
         /\ t'[r].call = t[r].call /\ t'[r].at = t[r].at /\ t'[r].seen = t[r].seen
  BY DEF Alone, Handler

LEMMA ExecuteType ==
  ASSUME TypeInv, NEW r \in Request, NEW x \in Connected, NEW v, Table(v), Runs(r, x, v)
  PROVE  TypeInv'
  <1>1. /\ t[r].at \in 1 .. Len(Prog(r)) /\ Len(Prog(r)) \in 1 .. 3 /\ Sound(Statement(r))
        /\ dialect \in {"sqlite", "postgres", "libsql"} /\ Writes(Statement(r)) \subseteq Key
        /\ \A k \in Key \ Writes(Statement(r)) : v[k] = View(r)[k]
    <2>1. t[r].pc = "run" /\ v \in After(Statement(r), View(r))
      BY DEF Runs
    <2>2. Table(View(r))
      BY <2>1, ViewIsTable
    <2> QED
      BY <2>1, <2>2, Running, StatementRuns
  <1>2. Table(rows')
    <2>1. DOMAIN Written(Writes(Statement(r)), v) = Writes(Statement(r))
          /\ Part(Written(Writes(Statement(r)), v))
      BY <1>1 DEF Written, Part, Table
    <2>2. Table(Over(Written(Writes(Statement(r)), v), rows))
      BY <2>1, SeenThrough DEF TypeInv
    <2> QED
      BY <2>2 DEF Runs, TypeInv
  <1>3. x # r => dialect = "libsql" /\ ~Single(x)
    <2>1. x = Session(r)
      BY DEF Runs
    <2> QED
      BY <2>1 DEF Session
  <1>4. dialect' = dialect /\ \A q \in Request : Single(q)' = Single(q) /\ Prog(q)' = Prog(q)
    BY DEF Runs, Single, Prog
  <1>5. ASSUME NEW q \in Request \ {r}
        PROVE  Shape(q)'
    <2>1. CASE q = x
      <3>1. t[q].pc \in {"run", "commit"}
        BY <2>1 DEF Connected
      <3> QED
        BY <1>3, <1>4, <2>1, <3>1 DEF Runs, Shape, TypeInv
    <2>2. CASE q # x
      BY <1>4, <2>2 DEF Runs, Shape, TypeInv
    <2> QED
      BY <2>1, <2>2
  <1>6. Shape(r)'
    <2>1. t[r].call \in Calls[dialect] /\ t[r].pc = "run"
      BY DEF Runs, TypeInv, Shape
    <2>2. dialect # "sqlite" => t'[r].lock = "none"
      BY DEF Runs, TypeInv, Shape
    <2>3. CASE dialect = "libsql" /\ Single(r)
      <3>1. t'[r].mine = <<>>
        BY <2>3 DEF Runs, TypeInv, Shape
      <3>2. t'[r].pc = "answer" /\ t'[r].call = t[r].call
        BY <2>3 DEF Runs
      <3> QED
        BY <1>4, <2>1, <2>2, <2>3, <3>1, <3>2 DEF Shape
    <2>4. CASE ~(dialect = "libsql" /\ Single(r))
      <3>1. t'[r].call = t[r].call /\ t'[r].at = t[r].at + 1
            /\ t'[r].pc = IF t[r].at = Len(Prog(r)) THEN "commit" ELSE "run"
        BY <2>4 DEF Runs
      <3>2. CASE t[r].at = Len(Prog(r))
        BY <1>1, <1>4, <2>1, <2>2, <2>4, <3>1, <3>2 DEF Shape
      <3>3. CASE t[r].at # Len(Prog(r))
        BY <1>1, <1>4, <2>1, <2>2, <2>4, <3>1, <3>3 DEF Shape
      <3> QED
        BY <3>2, <3>3
    <2> QED
      BY <2>3, <2>4
  <1>7. \A q, o \in Request : Holder(q)' /\ Holder(o)' => q = o
    <2>1. \A q \in Request \ {r} : Holder(q)' = Holder(q)
      BY DEF Runs, Holder
    <2>2. ASSUME Holder(r)', ~Holder(r), NEW o \in Request \ {r}
          PROVE  ~Holder(o)
      <3>1. dialect = "sqlite" /\ t'[r].lock = LockAfter(r) /\ MayRun(r)
        BY <2>2 DEF Runs, Holder
      <3>2. Writes(Statement(r)) # {}
        BY <2>2, <3>1 DEF LockAfter, Holder
      <3>3. Holder(o) => t[o].pc \in {"run", "commit"}
        BY DEF TypeInv, Shape, Holder
      <3> QED
        BY <3>1, <3>2, <3>3 DEF MayRun, Others, Connected, Holder
    <2> QED
      BY <2>1, <2>2 DEF TypeInv
  <1>8. dialect # "libsql" => Cardinality(Connected') <= PoolSize
    <2>1. Connected' \subseteq Connected
      BY DEF Connected, Runs
    <2>2. Cardinality(Connected') <= Cardinality(Connected) /\ IsFiniteSet(Connected')
      BY <2>1, ConnectedFinite, FS_Subset
    <2> QED
      BY <2>2, ConnectedFinite, FS_CardinalityType, AdaptersAssumption DEF TypeInv
  <1>9. t' \in [Request -> Handler] /\ dialect' \in DOMAIN Calls
    BY DEF Runs, TypeInv
  <1> QED
    BY <1>2, <1>4, <1>5, <1>6, <1>7, <1>8, <1>9 DEF TypeInv

LEMMA NextType == TypeInv /\ [Next]_vars => TypeInv'
  <1> SUFFICES ASSUME TypeInv, [Next]_vars PROVE TypeInv'
    OBVIOUS
  <1>0. t \in [Request -> Handler] /\ Table(rows) /\ \A r \in Request : Shape(r)
    BY DEF TypeInv
  <1>1. ASSUME NEW r \in Request, Come(r) PROVE TypeInv'
    <2>1. PICK c \in Calls[dialect] :
            t' = [t EXCEPT ![r].pc = "begin", ![r].call = c] /\ UNCHANGED <<dialect, rows>>
      BY <1>1 DEF Come
    <2>2. /\ Alone(r) /\ t'[r].pc = "begin" /\ t'[r].call = c /\ t'[r].mine = t[r].mine
          /\ t'[r].lock = t[r].lock /\ t'[r].at = t[r].at
      BY <2>1, <1>0, ComeAlone DEF TypeInv
    <2>3. t[r].pc = "idle"
      BY <1>1 DEF Come
    <2>4. Shape(r)'
      BY <1>0, <2>1, <2>2, <2>3 DEF Shape
    <2>5. Fits(r)
      BY <1>0, <2>1, <2>2, <2>3, <2>4 DEF Fits, Holder
    <2> QED
      BY <2>5, FitsType
  <1>2. ASSUME NEW r \in Request, Begin(r) PROVE TypeInv'
    <2>1. /\ Alone(r) /\ t'[r].pc = "run" /\ t'[r].mine = t[r].mine
          /\ t'[r].lock = t[r].lock /\ t'[r].call = t[r].call /\ t'[r].at = t[r].at
      BY <1>0, <1>2, GoesOn DEF Begin, Pcs
    <2>2. t[r].pc = "begin" /\ Free(r) /\ dialect' = dialect /\ rows' = rows
      BY <1>2 DEF Begin
    <2>3. t[r].call \in Called
      BY <1>0, <2>2, CallsAreCalls DEF Shape, TypeInv
    <2>4. 1 <= Len(Prog(r))
      BY <2>3, ProgramsFit DEF Prog
    <2>5. Shape(r)'
      BY <1>0, <2>1, <2>2, <2>4 DEF Shape, Prog, Single
    <2>6. Fits(r)
      BY <1>0, <2>1, <2>2, <2>5 DEF Fits, Holder, Free
    <2> QED
      BY <2>6, FitsType
  <1>3. ASSUME NEW r \in Request, Execute(r) PROVE TypeInv'
    <2>1. CASE End(r, "refused")
      <3>1. t[r].pc = "run" /\ dialect' = dialect /\ rows' = rows
        BY <1>3, <2>1 DEF Execute, End
      <3>2. Closed(r, "refused")
        BY <1>0, <2>1, Closes DEF End, Pcs
      <3> QED
        BY <1>0, <3>1, <3>2, ClosedFits DEF Pcs
    <2>2. CASE \E x \in Connected : \E v : Table(v) /\ Runs(r, x, v)
      BY <2>2, ExecuteType
    <2> QED
      BY <1>3, <2>1, <2>2, ExecuteRuns
  <1>4. ASSUME NEW r \in Request, Wait(r) PROVE TypeInv'
    <2>1. /\ Alone(r) /\ t'[r].lock = "pending" /\ t'[r].pc = t[r].pc
          /\ t'[r].mine = t[r].mine /\ t'[r].call = t[r].call /\ t'[r].at = t[r].at
      BY <1>0, <1>4, WaitAlone DEF Wait
    <2>2. t[r].pc = "commit" /\ t[r].lock = "reserved" /\ dialect' = dialect /\ rows' = rows
      BY <1>4 DEF Wait
    <2>3. Shape(r)'
      BY <1>0, <2>1, <2>2 DEF Shape, Prog, Single
    <2>4. Fits(r)
      BY <1>0, <2>1, <2>2, <2>3 DEF Fits, Holder
    <2> QED
      BY <2>4, FitsType
  <1>5. ASSUME NEW r \in Request, Commit(r) PROVE TypeInv'
    <2>1. t[r].pc = "commit" /\ dialect' = dialect /\ rows' = View(r)
      BY <1>5 DEF Commit
    <2>2. PICK pc \in {"again", "answer"} :
            pc = IF t[r].call.op = "decide" THEN "again" ELSE "answer"
      OBVIOUS
    <2>3. t' = [t EXCEPT ![r].pc = pc, ![r].mine = <<>>, ![r].lock = "none"]
      BY <1>5, <2>2 DEF Commit
    <2>4. Closed(r, pc)
      BY <1>0, <2>2, <2>3, Closes DEF Pcs
    <2>5. Table(rows')
      BY <2>1, ViewIsTable
    <2> QED
      BY <2>1, <2>2, <2>4, <2>5, ClosedFits DEF Pcs
  <1>6. ASSUME NEW r \in Request, ReadAgain(r) PROVE TypeInv'
    <2>1. /\ Alone(r) /\ t'[r].pc = "answer" /\ t'[r].mine = t[r].mine
          /\ t'[r].lock = t[r].lock /\ t'[r].call = t[r].call /\ t'[r].at = t[r].at
      BY <1>0, <1>6, GoesOn DEF ReadAgain, Pcs
    <2>2. t[r].pc = "again" /\ dialect' = dialect /\ rows' = rows
      BY <1>6 DEF ReadAgain
    <2>3. Shape(r)'
      BY <1>0, <2>1, <2>2 DEF Shape, Single
    <2>4. Fits(r)
      BY <1>0, <2>1, <2>2, <2>3 DEF Fits, Holder
    <2> QED
      BY <2>4, FitsType
  <1>7. ASSUME NEW r \in Request, NEW pc \in {"ok", "refused", "lost"}, End(r, pc),
               t[r].pc # "idle"
        PROVE  TypeInv'
    <2>1. Closed(r, pc)
      BY <1>0, <1>7, Closes DEF End, Pcs
    <2> QED
      BY <1>0, <1>7, <2>1, ClosedFits DEF Pcs, End
  <1>8. ASSUME NEW r \in Request, Reply(r) \/ GiveUp(r) \/ Drop(r) PROVE TypeInv'
    BY <1>7, <1>8 DEF Reply, GiveUp, Blocked, Drop
  <1>9. CASE UNCHANGED vars
    BY <1>9 DEF vars, TypeInv, Shape, Single, Prog, Connected, Holder
  <1> QED
    BY <1>1, <1>2, <1>3, <1>4, <1>5, <1>6, <1>8, <1>9 DEF Next, Step

LEMMA TypeInvariant == Spec => []TypeInv
  BY InitType, NextType, PTL DEF Spec

LEMMA TypeImplied == TypeInv => TypeOK
  <1> SUFFICES ASSUME TypeInv PROVE TypeOK
    OBVIOUS
  <1>1. dialect \in {"sqlite", "postgres", "libsql"}
    BY CallsAreCalls DEF TypeInv
  <1>2. \A k \in Key : rows[k] \in Value(k)
    BY DEF TypeInv, Table
  <1>3. ASSUME NEW r \in Request
        PROVE  /\ t[r].pc \in Pcs
               /\ t[r].lock \in {"none", "shared", "reserved", "pending"}
               /\ t[r].pc \notin {"run", "commit"} => t[r].mine = <<>> /\ t[r].lock = "none"
               /\ t[r].seen \in Value(LinkRows)
    BY Rows DEF TypeInv, Handler, Shape
  <1>4. Cardinality({r \in Request : t[r].lock \in {"reserved", "pending"}}) <= 1
    <2> DEFINE H == {r \in Request : t[r].lock \in {"reserved", "pending"}}
    <2>1. CASE H = {}
      BY <2>1, FS_EmptySet
    <2>2. CASE H # {}
      <3>1. PICK r : H = {r}
        BY <2>2 DEF TypeInv, Holder
      <3> HIDE DEF H
      <3>2. Cardinality(H) = 1
        BY <3>1, FS_Singleton
      <3> QED
        BY <3>2 DEF H
    <2> QED
      BY <2>1, <2>2
  <1> QED
    BY <1>1, <1>2, <1>3, <1>4 DEF TypeOK, TypeInv, Pcs

\* Calls, connections and locks stay well formed, for any number of requests,
\* any pool and any calls the adapters have: no more connections are in use
\* than the pool has, nothing is left of a transaction that has ended, and at
\* most one writer holds the file.
THEOREM TypesHold == Spec => []TypeOK
  BY TypeInvariant, TypeImplied, PTL

-----------------------------------------------------------------------------
(* Isolation.                                                                *)

\* After its first k statements a program has made z of the rows a.
Follows(p, k, a, z) ==
  \/ k = 0 /\ z = a
  \/ k = 1 /\ After(p[1], a) = {z}
  \/ k = 2 /\ \E y : After(p[1], a) = {y} /\ After(p[2], y) = {z}
  \/ k = 3 /\ \E x, y : After(p[1], a) = {x} /\ After(p[2], x) = {y} /\ After(p[3], y) = {z}

LEMMA FollowsOn ==
  ASSUME NEW k \in 0 .. 2, NEW p, NEW a, NEW y, NEW z,
         Follows(p, k, a, y), After(p[k + 1], y) = {z}
  PROVE  Follows(p, k + 1, a, z)
  BY DEF Follows

LEMMA FollowsAll ==
  ASSUME NEW n \in 1 .. 3, NEW p, DOMAIN p = 1 .. n, NEW a, NEW z, Follows(p, n, a, z)
  PROVE  AfterAll(p, a) = {z}
  <1>1. \A s, y : Then(s, {y}) = After(s, y)
    BY DEF Then
  <1>2. /\ n = 1 => AfterAll(p, a) = Then(p[1], {a})
        /\ n = 2 => AfterAll(p, a) = Then(p[2], Then(p[1], {a}))
        /\ n = 3 => AfterAll(p, a) = Then(p[3], Then(p[2], Then(p[1], {a})))
    BY Folds
  <1>3. CASE n = 1
    BY <1>1, <1>2, <1>3 DEF Follows
  <1>4. CASE n = 2
    <2>1. PICK y : After(p[1], a) = {y} /\ After(p[2], y) = {z}
      BY <1>4 DEF Follows
    <2> QED
      BY <1>1, <1>2, <1>4, <2>1
  <1>5. CASE n = 3
    <2>1. PICK x, y : After(p[1], a) = {x} /\ After(p[2], x) = {y} /\ After(p[3], y) = {z}
      BY <1>5 DEF Follows
    <2> QED
      BY <1>1, <1>2, <1>5, <2>1
  <1> QED
    BY <1>3, <1>4, <1>5

LEMMA FollowsFails ==
  ASSUME NEW n \in 1 .. 3, NEW p, DOMAIN p = 1 .. n, NEW a,
         NEW k \in 0 .. n - 1, NEW y, Follows(p, k, a, y), After(p[k + 1], y) = {}
  PROVE  AfterAll(p, a) = {}
  <1>1. \A s, x : Then(s, {x}) = After(s, x)
    BY DEF Then
  <1>2. \A s : Then(s, {}) = {}
    BY DEF Then
  <1>3. /\ n = 1 => AfterAll(p, a) = Then(p[1], {a})
        /\ n = 2 => AfterAll(p, a) = Then(p[2], Then(p[1], {a}))
        /\ n = 3 => AfterAll(p, a) = Then(p[3], Then(p[2], Then(p[1], {a})))
    BY Folds
  <1>4. CASE k = 0
    <2>1. After(p[1], a) = {}
      BY <1>4 DEF Follows
    <2>2. Then(p[1], {a}) = {}
      BY <1>1, <2>1
    <2>3. n = 1 \/ n = 2 \/ n = 3
      OBVIOUS
    <2> QED
      BY <1>2, <1>3, <2>2, <2>3, Zenon
  <1>5. CASE k = 1
    <2>1. After(p[1], a) = {y} /\ After(p[2], y) = {}
      BY <1>5 DEF Follows
    <2>2. Then(p[2], Then(p[1], {a})) = {} /\ n \in {2, 3}
      BY <1>1, <1>5, <2>1
    <2> QED
      BY <1>2, <1>3, <2>2
  <1>6. CASE k = 2
    <2>1. PICK x : After(p[1], a) = {x} /\ After(p[2], x) = {y} /\ After(p[3], y) = {}
      BY <1>6 DEF Follows
    <2> QED
      BY <1>1, <1>2, <1>3, <1>6, <2>1
  <1> QED
    BY <1>4, <1>5, <1>6

LEMMA FollowsStays ==
  ASSUME dialect' = dialect, NEW p, NEW k, NEW a, NEW z
  PROVE  Follows(p, k, a, z)' <=> Follows(p, k, a, z)
  <1>1. ASSUME NEW s, NEW v PROVE After(s, v)' = After(s, v)
    BY DEF After
  <1> QED
    BY <1>1 DEF Follows

\* What a transaction sees is what its statements make of the committed rows.
Done(r) == Follows(Prog(r), t[r].at - 1, rows, Over(t[r].mine, rows))

\* A pointer between namespaces points back.
Mutual(v) ==
  \A m \in 1 .. LongestSlug + 1 :
    v[NS(m)] \notin {Nil, Unpaired} =>
      v[NS(m)] \in 1 .. LongestSlug + 1 /\ v[NS(v[NS(m)])] = m

\* After k statements, a Postgres transaction has written rows of its own that
\* are not in the table yet.
First(c) == IF c.op = "user" THEN UserRow ELSE NS(c.arg)

Inserts(c, r, k, m, v) ==
  /\ k = 0 => DOMAIN m = {}
  /\ k = 1 => DOMAIN m = {First(c)} /\ m[First(c)] = IF c.op = "user" THEN r ELSE Unpaired
  /\ k \in {2, 3} =>
       /\ DOMAIN m = {NS(c.arg), NS(c.arg + 1)}
       /\ m[NS(c.arg)] = IF k = 3 THEN c.arg + 1 ELSE Unpaired
       /\ m[NS(c.arg + 1)] = c.arg
  /\ \A q \in DOMAIN m : v[q] = Nil

Inserted(r) == Inserts(t[r].call, r, t[r].at - 1, t[r].mine, rows)

SqliteInv ==
  dialect = "sqlite" =>
    \A r \in Connected :
      /\ Done(r)
      /\ t[r].at > 1 => t[r].lock # "none"
      /\ DOMAIN t[r].mine # {} => Holder(r)

PostgresInv ==
  dialect = "postgres" =>
    /\ Mutual(rows)
    /\ \A r \in Connected : Inserted(r)
    /\ \A r, o \in Connected : r # o => DOMAIN t[r].mine \cap DOMAIN t[o].mine = {}

LibsqlInv ==
  dialect = "libsql" =>
    /\ \A r, o \in Connected : r = o
    /\ \A r \in Connected : Done(r)

\* A reader was told what is in the table until it ends.
SeenHolds(r) ==
  /\ t[r].pc \in {"idle", "begin"} => t[r].seen = Nil
  /\ t[r].pc # "idle" /\ t[r].call.op # "list" => t[r].seen = Nil
  /\ t[r].pc = "commit" /\ t[r].call.op = "list" => t[r].seen = rows[LinkRows]

AtomicInv ==
  /\ \A r \in Connected : t[r].at = 1 => t[r].mine = <<>>
  /\ \A r \in Request : SeenHolds(r)
  /\ SqliteInv
  /\ PostgresInv
  /\ LibsqlInv

\* No statement of libsql runs outside a transaction.
NoLooseStatements == "libsql" \in DOMAIN Calls => \A c \in Calls["libsql"] : c.op # "user"

LEMMA NoneIsSingle ==
  ASSUME TypeInv, NoLooseStatements, dialect = "libsql", NEW r \in Request, t[r].pc # "idle"
  PROVE  ~Single(r)
  <1>1. t[r].call \in Calls["libsql"] /\ "libsql" \in DOMAIN Calls
    BY DEF TypeInv, Shape
  <1>2. t[r].call.op \in Offered("libsql")
    BY <1>1, AdaptersAssumption
  <1> QED
    BY <1>1, <1>2 DEF NoLooseStatements, Offered, Single

\* What the adapters have.
LEMMA CallOffered ==
  ASSUME TypeInv, NEW r \in Request, t[r].pc # "idle"
  PROVE  t[r].call.op \in Offered(dialect) /\ t[r].call.arg \in 1 .. LongestSlug
  BY AdaptersAssumption DEF TypeInv, Shape

-----------------------------------------------------------------------------
(* The kinds of step.                                                        *)

\* A connection is taken.
Enters(r) ==
  /\ t[r].pc = "begin" /\ t'[r].pc = "run" /\ Free(r)
  /\ t'[r].at = 1 /\ t'[r].mine = <<>> /\ t'[r].call = t[r].call /\ t'[r].seen = t[r].seen

\* At most the lock changes, from one kind of holding to another.
Stays(r) ==
  /\ t[r].pc \in {"run", "commit"}
  /\ t'[r].pc = t[r].pc /\ t'[r].at = t[r].at /\ t'[r].mine = t[r].mine
  /\ t'[r].call = t[r].call /\ t'[r].seen = t[r].seen
  /\ t[r].lock # "none" => t'[r].lock # "none"
  /\ Holder(r) => Holder(r)'

\* r has no connection afterwards.
Leaves(r) ==
  /\ t'[r].pc \notin {"idle", "run", "commit"}
  /\ IF t[r].pc = "idle" THEN t'[r].pc = "begin"
     ELSE t'[r].pc # "begin" /\ t'[r].call = t[r].call
  /\ t'[r].seen = t[r].seen

\* Nothing is written.
Passes(r) ==
  /\ Alone(r) /\ rows' = rows /\ dialect' = dialect
  /\ Enters(r) \/ Stays(r) \/ Leaves(r)

\* A transaction is committed.
Lands(r) ==
  /\ Alone(r) /\ dialect' = dialect
  /\ t[r].pc = "commit" /\ MayCommit(r)
  /\ Leaves(r)
  /\ rows' = Over(t[r].mine, rows)

\* A statement is run in the transaction of r.
Works(r, v) == Table(v) /\ Runs(r, r, v) /\ ~(dialect = "libsql" /\ Single(r))

LEMMA SessionIsOwn ==
  ASSUME TypeInv, NoLooseStatements, LibsqlInv, NEW r \in Connected
  PROVE  Session(r) = r
  <1>0. r \in Request /\ t[r].pc \in {"run", "commit"}
    BY DEF Connected
  <1>1. CASE dialect = "libsql"
    <2>1. Connected = {r}
      BY <1>1 DEF LibsqlInv
    <2>2. ~Single(r)
      BY <1>0, <1>1, NoneIsSingle
    <2> QED
      BY <1>0, <2>1, <2>2, Running
  <1>2. CASE dialect # "libsql"
    BY <1>0, <1>2, Running
  <1> QED
    BY <1>1, <1>2

LEMMA StepKinds ==
  ASSUME TypeInv, NoLooseStatements, LibsqlInv, Next
  PROVE  \E r \in Request : Passes(r) \/ Lands(r) \/ \E v : Works(r, v)
  <1>0. t \in [Request -> Handler] /\ \A r \in Request : Shape(r)
    BY DEF TypeInv
  <1>1. ASSUME NEW r \in Request, Come(r) PROVE Passes(r)
    <2>1. PICK c \in Calls[dialect] :
            t' = [t EXCEPT ![r].pc = "begin", ![r].call = c] /\ UNCHANGED <<dialect, rows>>
      BY <1>1 DEF Come
    <2>2. Alone(r) /\ t'[r].pc = "begin" /\ t'[r].seen = t[r].seen
      BY <2>1, <1>0, ComeAlone DEF TypeInv
    <2>3. t[r].pc = "idle"
      BY <1>1 DEF Come
    <2> QED
      BY <2>1, <2>2, <2>3 DEF Passes, Leaves
  <1>2. ASSUME NEW r \in Request, Begin(r) PROVE Passes(r)
    <2>1. /\ Alone(r) /\ t'[r].pc = "run" /\ t'[r].mine = t[r].mine
          /\ t'[r].call = t[r].call /\ t'[r].at = t[r].at /\ t'[r].seen = t[r].seen
      BY <1>0, <1>2, GoesOn DEF Begin, Pcs
    <2> QED
      BY <1>0, <1>2, <2>1 DEF Begin, Shape, Passes, Enters
  <1>3. ASSUME NEW r \in Request, NEW pc \in {"ok", "refused", "lost"}, End(r, pc),
               t[r].pc # "idle"
        PROVE  Passes(r)
    <2>1. Closed(r, pc)
      BY <1>0, <1>3, Closes DEF End, Pcs
    <2> QED
      BY <1>3, <2>1 DEF Closed, Passes, Leaves, End
  <1>4. ASSUME NEW r \in Request, Execute(r) PROVE Passes(r) \/ \E v : Works(r, v)
    <2>1. t[r].pc = "run" /\ r \in Connected
      BY <1>4 DEF Execute, Connected
    <2>2. CASE End(r, "refused")
      BY <1>3, <2>1, <2>2
    <2>3. ASSUME NEW x \in Connected, NEW v, Table(v), Runs(r, x, v) PROVE Works(r, v)
      <3>1. x = r
        BY <2>1, <2>3, SessionIsOwn DEF Runs
      <3>2. dialect = "libsql" => ~Single(r)
        BY <2>1, NoneIsSingle
      <3> QED
        BY <2>3, <3>1, <3>2 DEF Works
    <2> QED
      BY <1>4, <2>2, <2>3, ExecuteRuns
  <1>5. ASSUME NEW r \in Request, Wait(r) PROVE Passes(r)
    <2>1. /\ Alone(r) /\ t'[r].lock = "pending" /\ t'[r].pc = t[r].pc /\ t'[r].mine = t[r].mine
          /\ t'[r].call = t[r].call /\ t'[r].at = t[r].at /\ t'[r].seen = t[r].seen
      BY <1>0, <1>5, WaitAlone DEF Wait
    <2> QED
      BY <1>5, <2>1 DEF Wait, Passes, Stays, Holder
  <1>6. ASSUME NEW r \in Request, Commit(r) PROVE Lands(r)
    <2>1. t[r].pc = "commit" /\ MayCommit(r) /\ dialect' = dialect /\ rows' = View(r)
      BY <1>6 DEF Commit
    <2>2. PICK pc \in {"again", "answer"} :
            pc = IF t[r].call.op = "decide" THEN "again" ELSE "answer"
      OBVIOUS
    <2>3. t' = [t EXCEPT ![r].pc = pc, ![r].mine = <<>>, ![r].lock = "none"]
      BY <1>6, <2>2 DEF Commit
    <2>4. Closed(r, pc)
      BY <1>0, <2>2, <2>3, Closes DEF Pcs
    <2>5. Session(r) = r
      BY <2>1, SessionIsOwn DEF Connected
    <2> QED
      BY <2>1, <2>2, <2>4, <2>5 DEF Closed, Lands, Leaves, View
  <1>7. ASSUME NEW r \in Request, ReadAgain(r) PROVE Passes(r)
    <2>1. /\ Alone(r) /\ t'[r].pc = "answer" /\ t'[r].mine = t[r].mine
          /\ t'[r].call = t[r].call /\ t'[r].at = t[r].at /\ t'[r].seen = t[r].seen
      BY <1>0, <1>7, GoesOn DEF ReadAgain, Pcs
    <2> QED
      BY <1>7, <2>1 DEF ReadAgain, Passes, Leaves
  <1>8. ASSUME NEW r \in Request, Reply(r) \/ GiveUp(r) \/ Drop(r) PROVE Passes(r)
    BY <1>3, <1>8 DEF Reply, GiveUp, Blocked, Drop
  <1> QED
    BY <1>1, <1>2, <1>4, <1>5, <1>6, <1>7, <1>8 DEF Next, Step

-----------------------------------------------------------------------------
(* What a statement adds to its transaction.                                 *)

Adds(r, v) ==
  /\ r \in Connected /\ t[r].pc = "run"
  /\ t[r].at \in 1 .. Len(Prog(r)) /\ Len(Prog(r)) \in 1 .. 3
  /\ Sound(Statement(r)) /\ Statement(r) = Prog(r)[t[r].at] /\ Writes(Statement(r)) \subseteq Key
  /\ After(Statement(r), Over(t[r].mine, rows)) = {v}
  /\ Over(t'[r].mine, rows) = v
  /\ DOMAIN t'[r].mine = Writes(Statement(r)) \cup DOMAIN t[r].mine
  /\ \A k \in Writes(Statement(r)) : t'[r].mine[k] = v[k]
  /\ \A k \in DOMAIN t[r].mine \ Writes(Statement(r)) : t'[r].mine[k] = t[r].mine[k]
  /\ Writes(Statement(r)) = {} => t'[r].mine = t[r].mine
  /\ rows' = rows /\ dialect' = dialect
  /\ Prog(r)' = Prog(r) /\ t'[r].at = t[r].at + 1

LEMMA WorkAdds ==
  ASSUME TypeInv, NEW r \in Request, NEW v, Works(r, v)
  PROVE  Adds(r, v)
  <1>1. /\ t[r].pc = "run" /\ Session(r) = r /\ v \in After(Statement(r), View(r))
        /\ rows' = rows /\ dialect' = dialect
        /\ t'[r].mine = Over(Written(Writes(Statement(r)), v), t[r].mine)
        /\ t'[r].at = t[r].at + 1 /\ t'[r].call = t[r].call /\ Table(v)
    BY DEF Works, Runs
  <1>2. r \in Connected /\ Prog(r)' = Prog(r)
    BY <1>1 DEF Connected, Prog
  <1>3. /\ t[r].at \in 1 .. Len(Prog(r)) /\ Len(Prog(r)) \in 1 .. 3 /\ Sound(Statement(r))
        /\ dialect \in {"sqlite", "postgres", "libsql"}
    BY <1>1, Running
  <1>4. Statement(r) = Prog(r)[t[r].at]
    BY DEF Statement, Prog
  <1>5. View(r) = Over(t[r].mine, rows)
    BY <1>1 DEF View
  <1>6. Table(View(r))
    BY <1>1, ViewIsTable
  <1>7. /\ Writes(Statement(r)) \subseteq Key
        /\ After(Statement(r), View(r)) = {v}
        /\ \A k \in Key \ Writes(Statement(r)) : v[k] = View(r)[k]
    BY <1>1, <1>3, <1>6, StatementRuns
  <1>8. Rewrites(Writes(Statement(r)), t[r].mine, rows, v)
    <2>1. Part(t[r].mine) /\ Table(rows)
      BY PartsArePart DEF TypeInv, Handler
    <2> QED
      BY <1>1, <1>5, <1>7, <2>1 DEF Rewrites
  <1>9. /\ DOMAIN t'[r].mine = Writes(Statement(r)) \cup DOMAIN t[r].mine
        /\ \A k \in Writes(Statement(r)) : t'[r].mine[k] = v[k]
        /\ \A k \in DOMAIN t[r].mine \ Writes(Statement(r)) : t'[r].mine[k] = t[r].mine[k]
        /\ Over(t'[r].mine, rows) = v
        /\ Writes(Statement(r)) = {} => t'[r].mine = t[r].mine
    <2>1. PICK W, m, a, w : W = Writes(Statement(r)) /\ m = t[r].mine /\ a = rows
                            /\ w = Over(Written(W, v), m)
      OBVIOUS
    <2>2. /\ DOMAIN w = W \cup DOMAIN m
          /\ \A k \in W : w[k] = v[k]
          /\ \A k \in DOMAIN m \ W : w[k] = m[k]
          /\ Over(w, a) = v
          /\ W = {} => w = m
      <3>1. Rewrites(W, m, a, v)
        BY <1>8, <2>1
      <3>2. Laid(W, m, a, v, Over(Written(W, v), m))
        BY <3>1, WrittenOver
      <3> QED
        BY <3>2, <2>1 DEF Laid
    <2>3. t'[r].mine = w
      BY <1>1, <2>1
    <2> QED
      BY <2>1, <2>2, <2>3
  <1> QED
    BY <1>1, <1>2, <1>3, <1>4, <1>5, <1>7, <1>9 DEF Adds

\* A handler whose view is due to its program stays so when it works on.
LEMMA DoneOn ==
  ASSUME TypeInv, NEW r \in Request, NEW v, Works(r, v), Done(r)
  PROVE  Done(r)'
  <1>1. PICK k, p, a, y :
          k \in 0 .. 2 /\ k = t[r].at - 1 /\ p = Prog(r) /\ a = rows /\ y = Over(t[r].mine, rows)
    <2>1. t[r].at - 1 \in 0 .. 2
      BY WorkAdds DEF Adds
    <2> QED
      BY <2>1
  <1>2. After(p[k + 1], y) = {v} /\ Follows(p, k, a, y)
    <2>1. After(p[t[r].at], y) = {v} /\ t[r].at = k + 1
      <3>1. Adds(r, v)
        BY WorkAdds
      <3>2. t[r].at = k + 1 /\ Statement(r) = p[t[r].at]
        BY <1>1, <3>1 DEF Adds
      <3>3. After(Statement(r), y) = {v}
        BY <1>1, <3>1 DEF Adds
      <3> QED
        BY <3>2, <3>3
    <2>2. Follows(p, k, a, y)
      BY <1>1 DEF Done
    <2> QED
      BY <2>1, <2>2
  <1>3. Follows(p, k + 1, a, v)
    <2>1. k \in 0 .. 2
      BY <1>1
    <2> QED
      BY <1>2, <2>1, FollowsOn
  <1>4. /\ dialect' = dialect /\ k + 1 = t'[r].at - 1 /\ p = Prog(r)' /\ a = rows'
        /\ v = Over(t'[r].mine, rows')
    <2>1. Adds(r, v)
      BY WorkAdds
    <2>2. t[r].at \in Nat
      BY <2>1 DEF Adds
    <2>3. k + 1 = t'[r].at - 1
      BY <1>1, <2>1, <2>2 DEF Adds
    <2>4. dialect' = dialect /\ p = Prog(r)' /\ a = rows' /\ v = Over(t'[r].mine, rows')
      BY <1>1, <2>1 DEF Adds
    <2> QED
      BY <2>3, <2>4
  <1>5. Follows(p, k + 1, a, v)'
    BY <1>3, <1>4, FollowsStays
  <1> QED
    BY <1>4, <1>5 DEF Done

\* Nothing a view depends on has changed.
LEMMA DoneStays ==
  ASSUME NEW r \in Request, Done(r), dialect' = dialect, rows' = rows,
         t'[r].at = t[r].at, t'[r].mine = t[r].mine, t'[r].call = t[r].call
  PROVE  Done(r)'
  <1>1. PICK k, p, a, z :
          k = t[r].at - 1 /\ p = Prog(r) /\ a = rows /\ z = Over(t[r].mine, rows)
    OBVIOUS
  <1>2. k = t'[r].at - 1 /\ p = Prog(r)' /\ a = rows' /\ z = Over(t'[r].mine, rows')
    BY <1>1 DEF Prog
  <1>3. Follows(p, k, a, z)'
    BY <1>1, FollowsStays DEF Done
  <1> QED
    BY <1>2, <1>3 DEF Done

-----------------------------------------------------------------------------
(* Isolation is kept.                                                        *)

Kept(q) ==
  /\ t'[q].pc = t[q].pc /\ t'[q].at = t[q].at /\ t'[q].mine = t[q].mine
  /\ t'[q].call = t[q].call /\ t'[q].lock = t[q].lock /\ t'[q].seen = t[q].seen
  /\ dialect' = dialect

Moves(r) == Passes(r) \/ Lands(r) \/ \E v : Works(r, v)

LEMMA OthersKept ==
  ASSUME NEW r \in Request, Moves(r), NEW q \in Request \ {r}
  PROVE  Kept(q)
  BY DEF Moves, Passes, Lands, Alone, Works, Runs, Kept

\* Who is connected after a step of r.
LEMMA ConnectedAfter ==
  ASSUME NEW r \in Request, Moves(r)
  PROVE  /\ dialect' = dialect
         /\ \A q \in Connected' : q # r => q \in Connected /\ Kept(q)
         /\ r \in Connected' =>
              \/ Enters(r) /\ rows' = rows
              \/ Stays(r) /\ rows' = rows /\ r \in Connected
              \/ \E v : Works(r, v)
  <1>1. \A q \in Connected' : q # r => q \in Connected /\ Kept(q)
    BY OthersKept DEF Connected, Kept
  <1>2. dialect' = dialect
    BY DEF Moves, Passes, Lands, Works, Runs
  <1>3. ASSUME r \in Connected', ~\E v : Works(r, v)
        PROVE  (Enters(r) \/ Stays(r)) /\ rows' = rows
    BY <1>3 DEF Moves, Passes, Lands, Leaves, Connected
  <1>4. Stays(r) => r \in Connected
    BY DEF Stays, Connected
  <1> QED
    BY <1>1, <1>2, <1>3, <1>4

\* Nothing has been written before the first statement.
LEMMA FirstsKept ==
  ASSUME TypeInv, AtomicInv, NEW r \in Request, Moves(r)
  PROVE  \A q \in Connected' : t'[q].at = 1 => t'[q].mine = <<>>
  <1> SUFFICES ASSUME NEW q \in Connected', t'[q].at = 1 PROVE t'[q].mine = <<>>
    OBVIOUS
  <1>1. CASE q # r
    BY <1>1, ConnectedAfter DEF Kept, AtomicInv
  <1>2. CASE q = r /\ Enters(r)
    BY <1>2 DEF Enters
  <1>3. CASE q = r /\ Stays(r)
    BY <1>3 DEF Stays, AtomicInv, Connected
  <1>4. ASSUME q = r, NEW v, Works(r, v) PROVE FALSE
    <2>1. Adds(r, v)
      BY <1>4, WorkAdds
    <2>2. t'[r].at = t[r].at + 1 /\ t[r].at \in 1 .. 4
      BY <2>1 DEF Adds
    <2> QED
      BY <1>4, <2>2
  <1> QED
    BY <1>1, <1>2, <1>3, <1>4, ConnectedAfter

\* A transaction that has not begun is due.
LEMMA DoneFirst ==
  ASSUME NEW q \in Request, t'[q].at = 1, t'[q].mine = <<>>, Table(rows')
  PROVE  Done(q)'
  <1>1. Over(<<>>, rows') = rows'
    BY EmptyPart, NothingWritten
  <1>2. PICK k, p, a, z : k = t'[q].at - 1 /\ p = Prog(q)' /\ a = rows' /\ z = Over(t'[q].mine, rows')
    OBVIOUS
  <1>3. k = 0 /\ z = a
    BY <1>1, <1>2
  <1>4. Follows(p, k, a, z)'
    BY <1>3 DEF Follows
  <1> QED
    BY <1>2, <1>4 DEF Done

LEMMA LibsqlKept ==
  ASSUME TypeInv, TypeInv', AtomicInv, NoLooseStatements, NEW r \in Request, Moves(r),
         dialect = "libsql"
  PROVE  /\ \A q, o \in Connected' : q = o
         /\ \A q \in Connected' : Done(q)'
  <1>1. ASSUME Enters(r) PROVE Connected = {}
    <2>1. \A o \in Connected : Single(o)
      BY <1>1, NoneIsSingle DEF Enters, Free
    <2>2. \A o \in Connected : ~Single(o)
      BY NoneIsSingle DEF Connected
    <2> QED
      BY <2>1, <2>2
  <1>2. \A q, o \in Connected' : q = o
    <2>1. \A v : Works(r, v) => r \in Connected
      BY WorkAdds DEF Adds
    <2> QED
      BY <1>1, <2>1, ConnectedAfter DEF AtomicInv, LibsqlInv
  <1>3. ASSUME NEW q \in Connected' PROVE Done(q)'
    <2>0. q \in Request
      BY DEF Connected
    <2>1. CASE q # r
      <3>1. q \in Connected /\ Kept(q)
        BY <2>1, ConnectedAfter
      <3>2. r \notin Connected
        BY <2>1, <3>1 DEF AtomicInv, LibsqlInv
      <3>3. rows' = rows
        BY <3>2, WorkAdds DEF Moves, Passes, Lands, Connected, Adds
      <3> QED
        BY <2>0, <3>1, <3>3, DoneStays DEF Kept, AtomicInv, LibsqlInv
    <2>2. CASE q = r /\ Enters(r)
      BY <2>0, <2>2, DoneFirst DEF Enters, TypeInv
    <2>3. CASE q = r /\ Stays(r) /\ r \in Connected /\ rows' = rows
      BY <2>0, <2>3, ConnectedAfter, DoneStays DEF Stays, AtomicInv, LibsqlInv
    <2>4. ASSUME q = r, NEW v, Works(r, v) PROVE Done(q)'
      <3>1. r \in Connected
        BY <2>4, WorkAdds DEF Adds
      <3> QED
        BY <2>4, <3>1, DoneOn DEF AtomicInv, LibsqlInv
    <2> QED
      BY <1>3, <2>1, <2>2, <2>3, <2>4, ConnectedAfter
  <1> QED
    BY <1>2, <1>3

\* SQLite: a transaction that has written can only be committed when no other
\* one has read.
LEMMA SqliteLands ==
  ASSUME TypeInv, AtomicInv, dialect = "sqlite", NEW r \in Request, Lands(r),
         NEW q \in Connected, q # r
  PROVE  rows' = rows \/ t[q].at = 1
  <1>1. r \in Connected /\ Part(t[r].mine) /\ Table(rows) /\ rows' = Over(t[r].mine, rows)
    BY PartsArePart DEF Lands, Connected, TypeInv, Handler
  <1>2. CASE DOMAIN t[r].mine = {}
    BY <1>1, <1>2, NothingWritten
  <1>3. CASE DOMAIN t[r].mine # {}
    <2>1. t[r].lock \in {"reserved", "pending"}
      BY <1>1, <1>3 DEF AtomicInv, SqliteInv, Holder
    <2>2. t[q].lock = "none"
      BY <1>1, <2>1 DEF Lands, MayCommit, Others
    <2>3. ~(t[q].at > 1) /\ t[q].at \in 1 .. 4
      BY <2>2 DEF AtomicInv, SqliteInv, Connected, TypeInv, Handler
    <2> QED
      BY <2>3
  <1> QED
    BY <1>2, <1>3

LEMMA SqliteKept ==
  ASSUME TypeInv, TypeInv', AtomicInv, NEW r \in Request, Moves(r),
         dialect = "sqlite", NEW q \in Connected'
  PROVE  /\ Done(q)'
         /\ t'[q].at > 1 => t'[q].lock # "none"
         /\ DOMAIN t'[q].mine # {} => Holder(q)'
  <1>0. q \in Request /\ \A o \in Connected : Done(o) /\ (t[o].at > 1 => t[o].lock # "none")
                                              /\ (DOMAIN t[o].mine # {} => Holder(o))
    BY DEF Connected, AtomicInv, SqliteInv
  <1>1. CASE q # r
    <2>1. q \in Connected /\ Kept(q)
      BY <1>1, ConnectedAfter
    <2>2. /\ t'[q].at > 1 => t'[q].lock # "none"
          /\ DOMAIN t'[q].mine # {} => Holder(q)'
      BY <1>0, <2>1 DEF Kept, Holder
    <2>3. CASE rows' = rows
      BY <1>0, <2>1, <2>2, <2>3, DoneStays DEF Kept
    <2>4. CASE rows' # rows
      <3>1. Lands(r)
        BY <2>4, WorkAdds DEF Moves, Passes, Adds
      <3>2. t[q].at = 1
        BY <1>1, <2>1, <2>4, <3>1, SqliteLands
      <3>3. t[q].mine = <<>>
        BY <2>1, <3>2 DEF AtomicInv
      <3> QED
        BY <1>0, <2>1, <2>2, <3>2, <3>3, DoneFirst DEF Kept, TypeInv
    <2> QED
      BY <2>3, <2>4
  <1>2. CASE q = r /\ Enters(r)
    <2>1. t'[q].at = 1 /\ t'[q].mine = <<>>
      BY <1>2 DEF Enters
    <2>2. Done(q)'
      BY <1>0, <2>1, DoneFirst DEF TypeInv
    <2> QED
      BY <2>1, <2>2, EmptyPart
  <1>3. CASE q = r /\ Stays(r) /\ r \in Connected /\ rows' = rows
    <2>1. Done(q)'
      BY <1>0, <1>3, ConnectedAfter, DoneStays DEF Stays
    <2> QED
      BY <1>0, <1>3, <2>1 DEF Stays
  <1>4. ASSUME q = r, NEW v, Works(r, v)
        PROVE  /\ Done(q)'
               /\ t'[q].at > 1 => t'[q].lock # "none"
               /\ DOMAIN t'[q].mine # {} => Holder(q)'
    <2>1. Adds(r, v)
      BY <1>4, WorkAdds
    <2>2. r \in Connected /\ Done(q)'
      BY <1>0, <1>4, <2>1, DoneOn DEF Adds
    <2>3. t'[r].lock = LockAfter(r)
      BY <1>4 DEF Works, Runs
    <2>4. LockAfter(r) # "none"
      BY DEF LockAfter
    <2>5. CASE Writes(Statement(r)) # {}
      BY <1>4, <2>2, <2>3, <2>4, <2>5 DEF LockAfter, Holder
    <2>6. CASE Writes(Statement(r)) = {}
      <3>1. t'[r].mine = t[r].mine
        BY <2>1, <2>6 DEF Adds
      <3>2. Holder(r) => Holder(r)'
        BY <2>3, <2>6 DEF LockAfter, Holder
      <3> QED
        BY <1>0, <1>4, <2>2, <2>3, <2>4, <3>1, <3>2
    <2> QED
      BY <2>5, <2>6
  <1> QED
    BY <1>1, <1>2, <1>3, <1>4, ConnectedAfter

LEMMA OnlyListsRead ==
  ASSUME NEW c \in Called, NEW r \in Request
  PROVE  LET p == Program(c, r)
         IN  /\ \A i \in 1 .. Len(p) : p[i].do = "read" <=> c.op = "list"
             /\ c.op = "list" => Len(p) = 1 /\ p[1] = Read(LinkRows)
  <1> USE DEF Called, Offered
  <1>1. CASE c.op = "namespace"
    BY <1>1 DEF Program, create, Insert, Claim, Pair
  <1>2. CASE c.op = "talk"
    BY <1>2 DEF Program, create_talk, Insert
  <1>3. CASE c.op = "page"
    BY <1>3 DEF Program, commit_page_audit, Insert
  <1>4. CASE c.op = "decide"
    BY <1>4 DEF Program, decide, Expect, Decide
  <1>5. CASE c.op = "replace"
    BY <1>5 DEF Program, replace_for_source, Put
  <1>6. CASE c.op = "user"
    BY <1>6 DEF Program, create_user, Insert
  <1>7. CASE c.op = "list"
    BY <1>7 DEF Program, list_backlinks_to, Read
  <1> QED
    BY <1>1, <1>2, <1>3, <1>4, <1>5, <1>6, <1>7

LEMMA SeenKept ==
  ASSUME TypeInv, TypeInv', AtomicInv, NoLooseStatements, NEW r \in Request, Moves(r),
         NEW q \in Request
  PROVE  SeenHolds(q)'
  <1>0. SeenHolds(q)
    BY DEF AtomicInv
  <1>1. CASE q # r
    <2>1. Kept(q)
      BY <1>1, OthersKept
    <2>2. ASSUME t[q].pc = "commit", t[q].call.op = "list"
          PROVE  rows' = rows
      <3>1. dialect = "sqlite"
        BY <2>2, CallOffered, CallsAreCalls DEF Offered, TypeInv
      <3>2. t[q].at > 1 /\ q \in Connected
        <4>1. PICK n \in 1 .. 3 : n = Len(Prog(q))
          BY <2>2, Running
        <4>2. t[q].at = n + 1
          BY <2>2, <4>1 DEF TypeInv, Shape
        <4>3. t[q].at > 1
          BY <4>2
        <4> QED
          BY <2>2, <4>3 DEF Connected
      <3>3. Lands(r) => rows' = rows
        BY <1>1, <3>1, <3>2, SqliteLands
      <3> QED
        BY <3>3, WorkAdds DEF Moves, Passes, Adds
    <2> QED
      BY <1>0, <2>1, <2>2 DEF SeenHolds, Kept
  <1>2. CASE q = r /\ Passes(r)
    BY <1>0, <1>2 DEF Passes, Enters, Stays, Leaves, SeenHolds
  <1>3. CASE q = r /\ Lands(r)
    BY <1>0, <1>3 DEF Lands, Leaves, SeenHolds
  <1>4. ASSUME q = r, NEW v, Works(r, v) PROVE SeenHolds(q)'
    <2>1. Adds(r, v)
      BY <1>4, WorkAdds
    <2>2. /\ t[r].pc = "run" /\ t'[r].pc \in {"run", "commit"} /\ t'[r].call = t[r].call
          /\ t'[r].seen = IF Statement(r).do = "read" THEN v[Statement(r).key] ELSE t[r].seen
      BY <1>4 DEF Works, Runs
    <2>3. t[r].call \in Called /\ t[r].at \in 1 .. Len(Prog(r)) /\ r \in Connected
      BY <2>1, <2>2, Running DEF Adds
    <2>4. CASE t[r].call.op # "list"
      <3>1. Statement(r).do # "read"
        BY <2>3, <2>4, OnlyListsRead DEF Statement, Prog
      <3> QED
        BY <1>0, <1>4, <2>2, <2>4, <3>1 DEF SeenHolds
    <2>5. CASE t[r].call.op = "list"
      <3>1. Statement(r) = Read(LinkRows) /\ t[r].at = 1
        BY <2>3, <2>5, OnlyListsRead DEF Statement, Prog
      <3>2. Over(t[r].mine, rows) = rows
        BY <2>3, <3>1, EmptyPart, NothingWritten DEF AtomicInv, TypeInv
      <3>3. v = rows
        BY <2>1, <3>1, <3>2 DEF Adds, After, Read
      <3> QED
        BY <1>4, <2>1, <2>2, <2>5, <3>1, <3>3 DEF SeenHolds, Read, Adds
    <2> QED
      BY <2>4, <2>5
  <1> QED
    BY <1>1, <1>2, <1>3, <1>4 DEF Moves

-----------------------------------------------------------------------------
(* Postgres: what a transaction writes is not there yet, and nobody else can *)
(* put it there.                                                             *)

\* The programs that Postgres is sent.
Sent(c, r, p) ==
  /\ c.arg \in 1 .. LongestSlug
  /\ \/ c.op = "namespace" /\ Len(p) = 3
        /\ p[1] = Insert(NS(c.arg), Unpaired)
        /\ p[2] = Claim(NS(c.arg + 1), c.arg) /\ p[3] = Pair(c.arg)
     \/ c.op = "talk" /\ Len(p) = 1 /\ p[1] = Insert(NS(c.arg), Unpaired)
     \/ c.op = "user" /\ Len(p) = 1 /\ p[1] = Insert(UserRow, r)

LEMMA PostgresPrograms ==
  ASSUME TypeInv, dialect = "postgres", NEW r \in Connected
  PROVE  Sent(t[r].call, r, Prog(r))
  <1>1. r \in Request /\ t[r].pc # "idle"
    BY DEF Connected
  <1>2. t[r].call.op \in {"namespace", "talk", "user"} /\ t[r].call.arg \in 1 .. LongestSlug
    BY <1>1, CallOffered DEF Offered
  <1> QED
    BY <1>2 DEF Sent, Prog, Program, create, create_talk, create_user

\* What an insertion finds and leaves.
LEMMA InsertRuns ==
  ASSUME dialect = "postgres", NEW k \in Key, NEW x, NEW s \in {Insert(k, x), Claim(k, x)},
         NEW a, Table(a)
  PROVE  /\ Writes(s) = {k}
         /\ a[k] = Nil => After(s, a) = {[a EXCEPT ![k] = x]}
         /\ a[k] # Nil => After(s, a) = {}
  BY DEF After, Insert, Claim, Writes

\* What the pairing finds and leaves.
Paired(n, a) ==
  [a EXCEPT ![NS(n)] = n + 1, ![NS(n + 1)] = IF @ = Unpaired THEN n ELSE @]

LEMMA PairRuns ==
  ASSUME NEW n \in 1 .. LongestSlug, NEW a
  PROVE  /\ Writes(Pair(n)) = {NS(n), NS(n + 1)}
         /\ After(Pair(n), a) = IF UniquePairs(Paired(n, a)) THEN {Paired(n, a)} ELSE {}
  BY DEF After, Pair, Writes, Paired

\* The keys and values of such a program.
LEMMA SentFits ==
  ASSUME NEW c, NEW r, NEW p, Sent(c, r, p)
  PROVE  /\ c.arg \in 1 .. LongestSlug /\ c.arg \in Nat /\ c.arg # 0
         /\ c.arg + 1 \in 1 .. LongestSlug + 1 /\ c.arg \in 1 .. LongestSlug + 1
         /\ NS(c.arg) \in Key /\ NS(c.arg + 1) \in Key /\ NS(c.arg) # NS(c.arg + 1)
         /\ First(c) \in Key
         /\ p[1] = Insert(First(c), IF c.op = "user" THEN r ELSE Unpaired)
         /\ Len(p) = 3 => First(c) = NS(c.arg) /\ c.op = "namespace"
                          /\ p[2] = Claim(NS(c.arg + 1), c.arg) /\ p[3] = Pair(c.arg)
         /\ Len(p) \in {1, 3}
  <1> USE AdaptersAssumption
  <1>1. /\ c.arg \in 1 .. LongestSlug /\ c.arg \in Nat /\ c.arg # 0
        /\ c.arg + 1 \in 1 .. LongestSlug + 1 /\ c.arg \in 1 .. LongestSlug + 1
        /\ c.arg + 1 # c.arg
    BY DEF Sent
  <1>2. NS(c.arg) \in Key /\ NS(c.arg + 1) \in Key /\ NS(c.arg) # NS(c.arg + 1) /\ UserRow \in Key
    BY <1>1, Rows
  <1> QED
    BY <1>1, <1>2 DEF Sent, First

LEMMA SentLength ==
  ASSUME NEW c, NEW r, NEW p, Sent(c, r, p), NEW k
  PROVE  /\ k \in 0 .. Len(p) => k \in {0, 1, 2, 3} /\ (k \in {2, 3} => Len(p) = 3)
         /\ k \in 0 .. Len(p) - 1 => k \in {0, 1, 2} /\ (k \in {1, 2} => Len(p) = 3)
  <1>1. PICK l \in {1, 3} : l = Len(p)
    BY SentFits
  <1>2. CASE l = 1
    BY <1>1, <1>2
  <1>3. CASE l = 3
    BY <1>1, <1>3
  <1> QED
    BY <1>1, <1>2, <1>3

\* A transaction that has written little.
LEMMA OverOne ==
  ASSUME NEW a, Table(a), NEW m, Part(m), NEW k, DOMAIN m = {k}
  PROVE  Over(m, a) = [a EXCEPT ![k] = m[k]]
  <1>1. PICK w : w = Over(m, a)
    OBVIOUS
  <1>2. Table(w) /\ \A q \in Key : w[q] = IF q = k THEN m[k] ELSE a[q]
    BY <1>1, SeenThrough
  <1>3. w = [a EXCEPT ![k] = m[k]]
    BY <1>2 DEF Table
  <1> QED
    BY <1>1, <1>3

LEMMA OverTwo ==
  ASSUME NEW a, Table(a), NEW m, Part(m), NEW k, NEW l, k # l, DOMAIN m = {k, l}
  PROVE  Over(m, a) = [[a EXCEPT ![k] = m[k]] EXCEPT ![l] = m[l]]
  <1>1. PICK w : w = Over(m, a)
    OBVIOUS
  <1>2. Table(w) /\ \A q \in Key : w[q] = IF q = k THEN m[k] ELSE IF q = l THEN m[l] ELSE a[q]
    BY <1>1, SeenThrough
  <1>3. w = [[a EXCEPT ![k] = m[k]] EXCEPT ![l] = m[l]]
    BY <1>2 DEF Table
  <1> QED
    BY <1>1, <1>3

\* A new pair leaves pointers mutual.
LEMMA PairIsUnique ==
  ASSUME NEW a, Mutual(a), NEW w, NEW n \in 1 .. LongestSlug,
         a[NS(n)] = Nil, a[NS(n + 1)] = Nil, w[NS(n)] = n + 1, w[NS(n + 1)] = n,
         \A i \in 1 .. LongestSlug + 1 : i \notin {n, n + 1} => w[NS(i)] = a[NS(i)]
  PROVE  UniquePairs(w) /\ Mutual(w)
  <1> USE AdaptersAssumption
  <1>0. n \in 1 .. LongestSlug + 1 /\ n + 1 \in 1 .. LongestSlug + 1 /\ n # n + 1 /\ n # 0 /\ n + 1 # 0
    OBVIOUS
  <1>1. ASSUME NEW i \in 1 .. LongestSlug + 1, i \notin {n, n + 1}, w[NS(i)] \notin {Nil, Unpaired}
        PROVE  /\ w[NS(i)] \in 1 .. LongestSlug + 1 /\ w[NS(i)] \notin {n, n + 1}
               /\ w[NS(w[NS(i)])] = i
    <2>1. w[NS(i)] = a[NS(i)]
      BY <1>1
    <2>2. PICK j \in 1 .. LongestSlug + 1 : j = a[NS(i)] /\ a[NS(j)] = i
      BY <1>1, <2>1 DEF Mutual
    <2>3. i # Nil
      OBVIOUS
    <2>4. j \notin {n, n + 1}
      BY <2>2, <2>3
    <2> QED
      BY <2>1, <2>2, <2>4
  <1>2. UniquePairs(w)
    <2> SUFFICES ASSUME NEW i \in 1 .. LongestSlug + 1, NEW j \in 1 .. LongestSlug + 1,
                        i # j, w[NS(i)] = w[NS(j)], w[NS(i)] \notin {Nil, Unpaired}
                 PROVE  FALSE
      BY DEF UniquePairs
    <2>1. CASE i \notin {n, n + 1} /\ j \notin {n, n + 1}
      BY <1>1, <2>1
    <2>2. CASE i \in {n, n + 1} /\ j \notin {n, n + 1}
      BY <1>1, <2>2
    <2>3. CASE i \notin {n, n + 1} /\ j \in {n, n + 1}
      BY <1>1, <2>3
    <2>4. CASE i \in {n, n + 1} /\ j \in {n, n + 1}
      BY <1>0, <2>4
    <2> QED
      BY <2>1, <2>2, <2>3, <2>4
  <1>3. Mutual(w)
    <2> SUFFICES ASSUME NEW i \in 1 .. LongestSlug + 1, w[NS(i)] \notin {Nil, Unpaired}
                 PROVE  w[NS(i)] \in 1 .. LongestSlug + 1 /\ w[NS(w[NS(i)])] = i
      BY DEF Mutual
    <2>1. CASE i = n
      BY <1>0, <2>1
    <2>2. CASE i = n + 1
      BY <1>0, <2>2
    <2> QED
      BY <1>1, <2>1, <2>2
  <1> QED
    BY <1>2, <1>3

\* So does a row that has not been paired, and any other row.
LEMMA LoneIsMutual ==
  ASSUME NEW a, Mutual(a), NEW w, NEW n \in 1 .. LongestSlug,
         a[NS(n)] = Nil, w[NS(n)] = Unpaired,
         \A i \in 1 .. LongestSlug + 1 : i # n => w[NS(i)] = a[NS(i)]
  PROVE  Mutual(w)
  <1> USE AdaptersAssumption
  <1> SUFFICES ASSUME NEW i \in 1 .. LongestSlug + 1, w[NS(i)] \notin {Nil, Unpaired}
               PROVE  w[NS(i)] \in 1 .. LongestSlug + 1 /\ w[NS(w[NS(i)])] = i
    BY DEF Mutual
  <1>1. i # n /\ w[NS(i)] = a[NS(i)] /\ i # Nil
    OBVIOUS
  <1>2. PICK j \in 1 .. LongestSlug + 1 : j = a[NS(i)] /\ a[NS(j)] = i
    BY <1>1 DEF Mutual
  <1>3. j # n
    BY <1>1, <1>2
  <1> QED
    BY <1>1, <1>2, <1>3

\* What the statements of such a program make of the rows, one by one.
LEMMA InsertsFollow ==
  ASSUME dialect = "postgres", NEW c, NEW r, NEW p, Sent(c, r, p), NEW a, Table(a), Mutual(a),
         NEW m, Part(m), NEW k \in 0 .. Len(p), Inserts(c, r, k, m, a)
  PROVE  Follows(p, k, a, Over(m, a))
  <1> DEFINE n == c.arg
             x == IF c.op = "user" THEN r ELSE Unpaired
             y == [a EXCEPT ![First(c)] = x]
             z == [y EXCEPT ![NS(n + 1)] = n]
  <1>0. PICK w : w = Over(m, a)
    OBVIOUS
  <1>1. CASE k = 0
    BY <1>1, NothingWritten DEF Inserts, Follows
  <1>2. ASSUME k # 0 PROVE After(p[1], a) = {y}
    <2>1. a[First(c)] = Nil
      <3>1. k \in {1, 2, 3}
        BY <1>2, SentLength
      <3>2. k \in {2, 3} => First(c) = NS(n)
        BY SentFits, SentLength
      <3>3. First(c) \in DOMAIN m
        BY <3>1, <3>2 DEF Inserts
      <3> QED
        BY <3>3 DEF Inserts
    <2>2. p[1] = Insert(First(c), x) /\ First(c) \in Key
      BY SentFits
    <2> QED
      BY <2>1, <2>2, InsertRuns
  <1>3. CASE k = 1
    <2>1. m[First(c)] = x /\ DOMAIN m = {First(c)}
      BY <1>3 DEF Inserts
    <2>2. w = y
      BY <1>0, <2>1, OverOne
    <2>3. After(p[1], a) = {w}
      BY <1>2, <1>3, <2>2
    <2> QED
      BY <1>0, <1>3, <2>3 DEF Follows
  <1>4. ASSUME k \in {2, 3}
        PROVE  /\ After(p[2], y) = {z} /\ Table(z)
               /\ z[NS(n)] = Unpaired /\ z[NS(n + 1)] = n
               /\ \A q \in Key \ {NS(n), NS(n + 1)} : z[q] = a[q]
               /\ a[NS(n)] = Nil /\ a[NS(n + 1)] = Nil
    <2>1. /\ First(c) = NS(n) /\ p[2] = Claim(NS(n + 1), n) /\ x = Unpaired
          /\ NS(n) \in Key /\ NS(n + 1) \in Key /\ NS(n) # NS(n + 1)
          /\ n \in 1 .. LongestSlug /\ n \in 1 .. LongestSlug + 1 /\ n + 1 \in 1 .. LongestSlug + 1
      <3>1. Len(p) = 3
        BY <1>4, SentLength
      <3> QED
        BY <3>1, SentFits DEF Sent
    <2>2. a[NS(n)] = Nil /\ a[NS(n + 1)] = Nil
      BY <1>4 DEF Inserts
    <2>3. Unpaired \in Value(NS(n)) /\ n \in Value(NS(n + 1))
      BY <2>1, Rows, AdaptersAssumption DEF Unpaired
    <2>4. Table(y) /\ y[NS(n + 1)] = Nil
      BY <2>1, <2>2, <2>3 DEF Table
    <2>5. After(p[2], y) = {z}
      <3>1. PICK b : b = y
        OBVIOUS
      <3>2. After(p[2], b) = {[b EXCEPT ![NS(n + 1)] = n]}
        <4>1. Table(b) /\ b[NS(n + 1)] = Nil
          BY <2>4, <3>1
        <4> HIDE DEF y
        <4> QED
          BY <2>1, <4>1, InsertRuns
      <3> QED
        BY <3>1, <3>2
    <2>6. Table(z)
      BY <2>1, <2>3, <2>4 DEF Table
    <2>7. /\ z[NS(n)] = Unpaired /\ z[NS(n + 1)] = n
          /\ \A q \in Key \ {NS(n), NS(n + 1)} : z[q] = a[q]
      BY <2>1, <2>4 DEF Table
    <2> QED
      BY <2>2, <2>5, <2>6, <2>7
  <1> HIDE DEF y, z
  <1>5. CASE k = 2
    <2>1. Table(w) /\ \A q \in Key : w[q] = IF q \in DOMAIN m THEN m[q] ELSE a[q]
      BY <1>0, SeenThrough
    <2>2. \A q \in Key : w[q] = z[q]
      BY <1>4, <1>5, <2>1 DEF Inserts
    <2>3. w = z
      BY <1>4, <1>5, <2>1, <2>2 DEF Table
    <2>4. After(p[1], a) = {y} /\ After(p[2], y) = {w}
      BY <1>2, <1>4, <1>5, <2>3
    <2> QED
      BY <1>0, <1>5, <2>4 DEF Follows
  <1>6. CASE k = 3
    <2>1. Table(w) /\ \A q \in Key : w[q] = IF q \in DOMAIN m THEN m[q] ELSE a[q]
      BY <1>0, SeenThrough
    <2>2. Len(p) = 3
      BY <1>6, SentLength
    <2>3. /\ p[3] = Pair(n) /\ n \in 1 .. LongestSlug /\ n # 0
          /\ NS(n) \in Key /\ NS(n + 1) \in Key /\ NS(n) # NS(n + 1)
      BY <2>2, SentFits
    <2>4. /\ DOMAIN m = {NS(n), NS(n + 1)} /\ m[NS(n)] = n + 1 /\ m[NS(n + 1)] = n
      BY <1>6 DEF Inserts
    <2>5. \A q \in Key : w[q] = Paired(n, z)[q]
      BY <1>4, <1>6, <2>1, <2>3, <2>4 DEF Paired, Table, Unpaired
    <2>6. w = Paired(n, z)
      <3>1. Paired(n, z) = [q \in Key |-> Paired(n, z)[q]]
        BY <1>4, <1>6, <2>3 DEF Paired, Table
      <3>2. w = [q \in Key |-> w[q]]
        BY <2>1 DEF Table
      <3> QED
        BY <2>5, <3>1, <3>2
    <2>7. UniquePairs(w)
      <3>1. \A i \in 1 .. LongestSlug + 1 :
              i \notin {n, n + 1} => NS(i) \in Key \ {NS(n), NS(n + 1)}
        BY Rows
      <3>2. /\ w[NS(n)] = n + 1 /\ w[NS(n + 1)] = n
            /\ \A i \in 1 .. LongestSlug + 1 : i \notin {n, n + 1} => w[NS(i)] = a[NS(i)]
        BY <2>1, <2>3, <2>4, <3>1
      <3> QED
        BY <1>4, <1>6, <2>3, <3>2, PairIsUnique
    <2>8. After(p[3], z) = {w}
      BY <2>3, <2>6, <2>7, PairRuns
    <2>9. After(p[1], a) = {y} /\ After(p[2], y) = {z}
      BY <1>2, <1>4, <1>6
    <2> QED
      BY <1>0, <1>6, <2>8, <2>9 DEF Follows
  <1>7. k \in {0, 1, 2, 3}
    BY SentLength
  <1> QED
    BY <1>1, <1>3, <1>5, <1>6, <1>7

\* When all of them have run, pointers are mutual.
LEMMA InsertsMutual ==
  ASSUME NEW c, NEW r, NEW p, Sent(c, r, p), NEW a, Table(a), Mutual(a),
         NEW m, Part(m), Inserts(c, r, Len(p), m, a)
  PROVE  Mutual(Over(m, a))
  <1> DEFINE n == c.arg
  <1>1. PICK w : w = Over(m, a)
    OBVIOUS
  <1>2. \A q \in Key : w[q] = IF q \in DOMAIN m THEN m[q] ELSE a[q]
    BY <1>1, SeenThrough
  <1>3. \A i \in 1 .. LongestSlug + 1 : NS(i) \in Key
    BY Rows
  <1>4. n \in 1 .. LongestSlug /\ n + 1 \in 1 .. LongestSlug + 1 /\ n \in 1 .. LongestSlug + 1
    BY SentFits
  <1>5. CASE c.op = "user"
    <2>1. DOMAIN m = {UserRow}
      BY <1>5 DEF Inserts, Sent, First
    <2>2. \A i \in 1 .. LongestSlug + 1 : w[NS(i)] = a[NS(i)]
      BY <1>2, <1>3, <2>1, Rows
    <2>3. Mutual(w)
      BY <2>2 DEF Mutual
    <2> QED
      BY <1>1, <2>3
  <1>6. CASE c.op = "talk"
    <2>1. DOMAIN m = {NS(n)} /\ m[NS(n)] = Unpaired /\ a[NS(n)] = Nil
      BY <1>6 DEF Inserts, Sent, First
    <2>2. w[NS(n)] = Unpaired /\ \A i \in 1 .. LongestSlug + 1 : i # n => w[NS(i)] = a[NS(i)]
      <3>1. \A i : NS(i) = NS(n) => i = n
        BY Rows
      <3> QED
        BY <1>2, <1>3, <1>4, <2>1, <3>1
    <2>3. Mutual(w)
      BY <1>4, <2>1, <2>2, LoneIsMutual
    <2> QED
      BY <1>1, <2>3
  <1>7. CASE c.op = "namespace"
    <2>1. /\ DOMAIN m = {NS(n), NS(n + 1)} /\ m[NS(n)] = n + 1 /\ m[NS(n + 1)] = n
          /\ a[NS(n)] = Nil /\ a[NS(n + 1)] = Nil
      BY <1>7 DEF Inserts, Sent
    <2>2. /\ w[NS(n)] = n + 1 /\ w[NS(n + 1)] = n
          /\ \A i \in 1 .. LongestSlug + 1 : i \notin {n, n + 1} => w[NS(i)] = a[NS(i)]
      <3>1. \A i : (NS(i) = NS(n) => i = n) /\ (NS(i) = NS(n + 1) => i = n + 1)
        BY Rows
      <3> QED
        BY <1>2, <1>3, <1>4, <2>1, <3>1
    <2>3. Mutual(w)
      BY <1>4, <2>1, <2>2, PairIsUnique
    <2> QED
      BY <1>1, <2>3
  <1> QED
    BY <1>5, <1>6, <1>7 DEF Sent

\* A statement more: it makes v of what the transaction sees, which leaves w.
Extends(s, m, a, v, w) ==
  /\ After(s, Over(m, a)) = {v}
  /\ DOMAIN w = Writes(s) \cup DOMAIN m
  /\ \A q \in Writes(s) : w[q] = v[q]
  /\ \A q \in DOMAIN m \ Writes(s) : w[q] = m[q]

LEMMA InsertsOn ==
  ASSUME dialect = "postgres", NEW c, NEW r, NEW p, Sent(c, r, p), NEW a, Table(a),
         NEW m, Part(m), NEW k \in 0 .. Len(p) - 1, Inserts(c, r, k, m, a),
         NEW v, NEW w, NEW s, s = p[k + 1], Extends(s, m, a, v, w)
  PROVE  Inserts(c, r, k + 1, w, a)
  <1> USE DEF Extends
  <1> DEFINE n == c.arg
             x == IF c.op = "user" THEN r ELSE Unpaired
  <1>0. PICK o : o = Over(m, a)
    OBVIOUS
  <1>1. Table(o) /\ \A q \in Key : o[q] = IF q \in DOMAIN m THEN m[q] ELSE a[q]
    BY <1>0, SeenThrough
  <1>2. CASE k = 0
    <2>1. p[1] = Insert(First(c), x) /\ First(c) \in Key
      BY SentFits
    <2>2. Writes(p[1]) = {First(c)} /\ After(p[1], o) = {v}
      <3>1. s = p[1]
        BY <1>2
      <3>2. Writes(p[1]) = {First(c)}
        <4>1. PICK e : e = p[1]
          OBVIOUS
        <4>2. e = Insert(First(c), x) /\ First(c) \in Key
          BY <2>1, <4>1
        <4>3. Writes(e) = {First(c)}
          BY <4>2 DEF Insert, Writes
        <4> QED
          BY <4>1, <4>3
      <3> QED
        BY <1>0, <3>1, <3>2, Zenon
    <2>3. o[First(c)] = Nil /\ v = [o EXCEPT ![First(c)] = x]
      <3>1. PICK e : e = p[1]
        OBVIOUS
      <3>2. e = Insert(First(c), x) /\ First(c) \in Key /\ After(e, o) = {v}
        BY <2>1, <2>2, <3>1
      <3>3. /\ o[First(c)] = Nil => After(e, o) = {[o EXCEPT ![First(c)] = x]}
            /\ o[First(c)] # Nil => After(e, o) = {}
        BY <1>1, <3>2, InsertRuns
      <3> QED
        BY <3>2, <3>3
    <2>4. DOMAIN m = {}
      BY <1>2 DEF Inserts
    <2>5. DOMAIN w = {First(c)} /\ w[First(c)] = x /\ a[First(c)] = Nil
      BY <1>1, <1>2, <2>1, <2>2, <2>3, <2>4 DEF Table
    <2> QED
      BY <1>2, <2>5 DEF Inserts
  <1>3. ASSUME k \in {1, 2}
        PROVE  /\ First(c) = NS(n) /\ x = Unpaired /\ n # 0
               /\ p[2] = Claim(NS(n + 1), n) /\ p[3] = Pair(n)
               /\ NS(n) \in Key /\ NS(n + 1) \in Key /\ NS(n) # NS(n + 1)
               /\ n \in 1 .. LongestSlug
    <2>1. Len(p) = 3
      BY <1>3, SentLength
    <2> QED
      BY <2>1, SentFits DEF Sent
  <1>4. CASE k = 1
    <2>1. DOMAIN m = {NS(n)} /\ m[NS(n)] = Unpaired /\ a[NS(n)] = Nil
      BY <1>3, <1>4 DEF Inserts
    <2>2. Writes(p[2]) = {NS(n + 1)} /\ After(p[2], o) = {v}
      BY <1>0, <1>1, <1>3, <1>4, InsertRuns
    <2>3. o[NS(n + 1)] = Nil /\ v = [o EXCEPT ![NS(n + 1)] = n]
      BY <1>1, <1>3, <1>4, <2>2, InsertRuns
    <2>4. /\ DOMAIN w = {NS(n), NS(n + 1)} /\ w[NS(n)] = Unpaired /\ w[NS(n + 1)] = n
          /\ a[NS(n)] = Nil /\ a[NS(n + 1)] = Nil
      BY <1>1, <1>3, <1>4, <2>1, <2>2, <2>3 DEF Table
    <2>5. Inserts(c, r, 2, w, a)
      <3>1. \A q \in DOMAIN w : a[q] = Nil
        BY <2>4
      <3>2. 2 # 0 /\ 2 # 1 /\ 2 # 3
        OBVIOUS
      <3> QED
        BY <2>4, <3>1, <3>2, Zenon DEF Inserts
    <2>6. k + 1 = 2
      BY <1>4
    <2> QED
      BY <2>5, <2>6, Zenon
  <1>5. CASE k = 2
    <2>1. /\ DOMAIN m = {NS(n), NS(n + 1)} /\ m[NS(n)] = Unpaired /\ m[NS(n + 1)] = n
          /\ a[NS(n)] = Nil /\ a[NS(n + 1)] = Nil
      BY <1>5 DEF Inserts
    <2>2. Writes(p[3]) = {NS(n), NS(n + 1)} /\ After(p[3], o) = {v}
      BY <1>0, <1>3, <1>5, PairRuns
    <2>3. v = Paired(n, o)
      <3>1. After(p[3], o) = IF UniquePairs(Paired(n, o)) THEN {Paired(n, o)} ELSE {}
        BY <1>3, <1>5, PairRuns
      <3> QED
        BY <2>2, <3>1
    <2>4. v[NS(n)] = n + 1 /\ v[NS(n + 1)] = n
      BY <1>1, <1>3, <1>5, <2>1, <2>3 DEF Paired, Table, Unpaired
    <2>5. DOMAIN w = {NS(n), NS(n + 1)} /\ w[NS(n)] = n + 1 /\ w[NS(n + 1)] = n
      BY <1>5, <2>1, <2>2, <2>4
    <2>6. Inserts(c, r, 3, w, a)
      <3>1. \A q \in DOMAIN w : a[q] = Nil
        BY <2>1, <2>5
      <3>2. 3 # 0 /\ 3 # 1
        OBVIOUS
      <3> QED
        BY <2>1, <2>5, <3>1, <3>2, Zenon DEF Inserts
    <2>7. k + 1 = 3
      BY <1>5
    <2> QED
      BY <2>6, <2>7, Zenon
  <1>6. k \in {0, 1, 2}
    BY SentLength
  <1> QED
    BY <1>2, <1>4, <1>5, <1>6

LEMMA InsertedOn ==
  ASSUME TypeInv, dialect = "postgres", NEW r \in Request, NEW v, Works(r, v), Inserted(r)
  PROVE  Inserted(r)'
  <1>1. PICK c, p, a, m, w, k :
          /\ c = t[r].call /\ p = Prog(r) /\ a = rows /\ m = t[r].mine /\ w = t'[r].mine
          /\ k = t[r].at - 1
    OBVIOUS
  <1>2. Adds(r, v)
    BY WorkAdds
  <1>3. Sent(c, r, p)
    BY <1>1, <1>2, PostgresPrograms DEF Adds
  <1>4. Table(a) /\ Part(m)
    BY <1>1, PartsArePart DEF TypeInv, Handler
  <1>5. k \in 0 .. Len(p) - 1 /\ k + 1 = t[r].at
    <2>1. PICK at, l : at = t[r].at /\ l = Len(p)
      OBVIOUS
    <2>2. l \in 1 .. 3 /\ at \in 1 .. l /\ k = at - 1
      BY <1>1, <1>2, <2>1 DEF Adds
    <2>3. k \in 0 .. l - 1 /\ k + 1 = at
      BY <2>2
    <2> QED
      BY <2>1, <2>3
  <1>6. Statement(r) = p[k + 1]
    BY <1>1, <1>2, <1>5 DEF Adds
  <1>7. Extends(Statement(r), m, a, v, w)
    BY <1>1, <1>2 DEF Adds, Extends
  <1>8. Inserts(c, r, k, m, a)
    BY <1>1 DEF Inserted
  <1>9. Inserts(c, r, k + 1, w, a)
    BY <1>3, <1>4, <1>5, <1>6, <1>7, <1>8, InsertsOn
  <1>10. k + 1 = t'[r].at - 1 /\ t'[r].call = c /\ rows' = a
    <2>1. t'[r].at = t[r].at + 1 /\ rows' = rows
      BY <1>2 DEF Adds
    <2>2. t'[r].at - 1 = t[r].at
      <3>1. PICK at \in 1 .. 4 : at = t[r].at
        BY DEF TypeInv, Handler
      <3> QED
        BY <2>1, <3>1
    <2> QED
      BY <1>1, <1>5, <2>1, <2>2 DEF Works, Runs
  <1> QED
    BY <1>1, <1>9, <1>10, Zenon DEF Inserted

LEMMA InsertedDone ==
  ASSUME TypeInv, dialect = "postgres", NEW r \in Connected, Inserted(r), Mutual(rows)
  PROVE  Done(r)
  <1>1. PICK c, p, a, m, k :
          /\ c = t[r].call /\ p = Prog(r) /\ a = rows /\ m = t[r].mine /\ k = t[r].at - 1
    OBVIOUS
  <1>2. Sent(c, r, p)
    BY <1>1, PostgresPrograms
  <1>3. Table(a) /\ Part(m) /\ Mutual(a)
    BY <1>1, PartsArePart DEF TypeInv, Handler, Connected
  <1>4. k \in 0 .. Len(p)
    <2>1. PICK at \in 1 .. 4, l \in 1 .. 3 : at = t[r].at /\ l = Len(p)
      BY <1>1, Running DEF Connected, TypeInv, Handler
    <2>2. at <= l + 1
      <3>1. r \in Request /\ t[r].pc \in {"run", "commit"} /\ Shape(r)
        BY DEF Connected, TypeInv
      <3>2. CASE t[r].pc = "run"
        <4>1. at <= l
          BY <1>1, <2>1, <3>1, <3>2 DEF Shape
        <4> QED
          BY <4>1
      <3>3. CASE t[r].pc = "commit"
        BY <1>1, <2>1, <3>1, <3>3 DEF Shape
      <3> QED
        BY <3>1, <3>2, <3>3
    <2>3. k = at - 1
      BY <1>1, <2>1
    <2>4. k \in 0 .. l
      BY <2>1, <2>2, <2>3
    <2> QED
      BY <2>1, <2>4
  <1>5. Inserts(c, r, k, m, a)
    BY <1>1 DEF Inserted
  <1>6. Follows(p, k, a, Over(m, a))
    BY <1>2, <1>3, <1>4, <1>5, InsertsFollow
  <1> QED
    BY <1>1, <1>6 DEF Done

LEMMA MutualLands ==
  ASSUME TypeInv, dialect = "postgres", NEW r \in Request, Lands(r), Inserted(r), Mutual(rows)
  PROVE  Mutual(rows')
  <1>1. PICK c, p, a, m, k :
          /\ c = t[r].call /\ p = Prog(r) /\ a = rows /\ m = t[r].mine /\ k = t[r].at - 1
    OBVIOUS
  <1>0. r \in Connected /\ t[r].pc = "commit" /\ rows' = Over(m, a)
    BY <1>1 DEF Lands, Connected
  <1>2. Sent(c, r, p)
    BY <1>0, <1>1, PostgresPrograms
  <1>3. Table(a) /\ Part(m) /\ Mutual(a)
    BY <1>1, PartsArePart DEF TypeInv, Handler
  <1>4. k = Len(p)
    <2>1. PICK at \in 1 .. 4, l \in 1 .. 3 : at = t[r].at /\ l = Len(p)
      BY <1>0, <1>1, Running DEF TypeInv, Handler
    <2>2. at = l + 1
      BY <1>0, <1>1, <2>1 DEF TypeInv, Shape
    <2>3. k = at - 1
      BY <1>1, <2>1
    <2>4. k = l
      BY <2>2, <2>3
    <2> QED
      BY <2>1, <2>4
  <1>5. Inserts(c, r, Len(p), m, a)
    BY <1>1, <1>4 DEF Inserted
  <1>6. Mutual(Over(m, a))
    BY <1>2, <1>3, <1>5, InsertsMutual
  <1> QED
    BY <1>0, <1>6

LEMMA PostgresKept ==
  ASSUME TypeInv, TypeInv', AtomicInv, NEW r \in Request, Moves(r), dialect = "postgres"
  PROVE  /\ Mutual(rows')
         /\ \A q \in Connected' : Inserted(q)'
         /\ \A q, o \in Connected' : q # o => DOMAIN t'[q].mine \cap DOMAIN t'[o].mine = {}
  <1>0. /\ Mutual(rows) /\ \A q \in Connected : q \in Request /\ Inserted(q)
        /\ \A q, o \in Connected : q # o => DOMAIN t[q].mine \cap DOMAIN t[o].mine = {}
    BY DEF AtomicInv, PostgresInv, Connected
  <1>1. Lands(r) => r \in Connected
    BY DEF Lands, Connected
  <1>2. rows' = rows \/ Lands(r)
    BY WorkAdds DEF Moves, Passes, Adds
  <1>3. Mutual(rows')
    <2>1. CASE rows' = rows
      BY <1>0, <2>1
    <2>2. CASE Lands(r)
      BY <1>0, <1>1, <2>2, MutualLands
    <2> QED
      BY <1>2, <2>1, <2>2
  <1>4. ASSUME NEW q \in Connected, q # r, Kept(q)
        PROVE  Inserted(q)'
    <2>1. \A k \in DOMAIN t[q].mine : rows'[k] = Nil
      <3>1. \A k \in DOMAIN t[q].mine : rows[k] = Nil /\ k \in Key
        BY <1>0, <1>4, PartsArePart DEF Inserted, Inserts, TypeInv, Handler, Part
      <3>2. CASE rows' = rows
        BY <3>1, <3>2
      <3>3. CASE Lands(r)
        <4>1. Part(t[r].mine) /\ Table(rows) /\ rows' = Over(t[r].mine, rows)
          BY <3>3, PartsArePart DEF Lands, TypeInv, Handler
        <4>2. \A k \in Key : rows'[k] = IF k \in DOMAIN t[r].mine THEN t[r].mine[k] ELSE rows[k]
          BY <4>1, SeenThrough
        <4> QED
          BY <1>0, <1>1, <1>4, <3>1, <3>3, <4>2
      <3> QED
        BY <1>2, <3>2, <3>3
    <2>2. PICK c, m, k : c = t[q].call /\ m = t[q].mine /\ k = t[q].at - 1
      OBVIOUS
    <2>3. c = t'[q].call /\ m = t'[q].mine /\ k = t'[q].at - 1
      BY <1>4, <2>2 DEF Kept
    <2>4. Inserts(c, q, k, m, rows)
      BY <1>0, <1>4, <2>2 DEF Inserted
    <2>5. PICK b : b = rows'
      OBVIOUS
    <2>6. Inserts(c, q, k, m, b)
      BY <2>1, <2>2, <2>4, <2>5 DEF Inserts
    <2> QED
      BY <2>3, <2>5, <2>6 DEF Inserted
  <1>5. ASSUME Enters(r), dialect' = dialect PROVE Inserted(r)' /\ DOMAIN t'[r].mine = {}
    <2>1. t'[r].at = 1 /\ t'[r].mine = <<>>
      BY <1>5 DEF Enters
    <2>2. DOMAIN t'[r].mine = {}
      BY <2>1, EmptyPart
    <2>3. PICK c, m, k, b : c = t'[r].call /\ m = t'[r].mine /\ k = t'[r].at - 1 /\ b = rows'
      OBVIOUS
    <2>4. k = 0 /\ DOMAIN m = {}
      BY <2>1, <2>2, <2>3
    <2>5. Inserts(c, r, k, m, b)
      BY <2>4 DEF Inserts
    <2> QED
      BY <2>2, <2>3, <2>5 DEF Inserted
  <1>6. ASSUME Stays(r), rows' = rows PROVE Inserted(r)' /\ t'[r].mine = t[r].mine /\ r \in Connected
    <2>1. r \in Connected
      BY <1>6 DEF Stays, Connected
    <2>2. Inserted(r)
      BY <1>0, <2>1
    <2> QED
      BY <1>6, <2>1, <2>2 DEF Stays, Inserted
  <1>7. ASSUME NEW v, Works(r, v)
        PROVE  /\ Inserted(r)' /\ r \in Connected
               /\ \A q \in Connected \ {r} : DOMAIN t'[r].mine \cap DOMAIN t[q].mine = {}
    <2>1. Adds(r, v)
      BY <1>7, WorkAdds
    <2>2. r \in Connected /\ DOMAIN t'[r].mine = Writes(Statement(r)) \cup DOMAIN t[r].mine
      BY <2>1 DEF Adds
    <2>3. MayRun(r)
      BY <1>7 DEF Works, Runs
    <2>4. \A q \in Connected \ {r} : Writes(Statement(r)) \cap DOMAIN t[q].mine = {}
      BY <2>3 DEF MayRun, Others
    <2> QED
      BY <1>0, <1>7, <2>2, <2>4, InsertedOn
  <1>8. ASSUME r \in Connected'
        PROVE  /\ Inserted(r)'
               /\ \A q \in Connected \ {r} : DOMAIN t'[r].mine \cap DOMAIN t[q].mine = {}
    BY <1>0, <1>5, <1>6, <1>7, <1>8, ConnectedAfter
  <1>9. \A q \in Connected' : q # r => q \in Connected /\ Kept(q)
    BY ConnectedAfter
  <1>10. \A q \in Connected' : Inserted(q)'
    BY <1>4, <1>8, <1>9
  <1>11. \A q, o \in Connected' : q # o => DOMAIN t'[q].mine \cap DOMAIN t'[o].mine = {}
    <2> SUFFICES ASSUME NEW q \in Connected', NEW o \in Connected', q # o
                 PROVE  DOMAIN t'[q].mine \cap DOMAIN t'[o].mine = {}
      OBVIOUS
    <2>1. CASE q # r /\ o # r
      BY <1>0, <1>9, <2>1 DEF Kept
    <2>2. CASE q = r
      BY <1>8, <1>9, <2>2 DEF Kept
    <2>3. CASE o = r
      BY <1>8, <1>9, <2>3 DEF Kept
    <2> QED
      BY <2>1, <2>2, <2>3
  <1> QED
    BY <1>3, <1>10, <1>11

-----------------------------------------------------------------------------
(* The invariant.                                                            *)

LEMMA InitAtomic == Init => AtomicInv
  <1> SUFFICES ASSUME Init PROVE AtomicInv
    OBVIOUS
  <1>1. \A r \in Request : t[r] = Idle
    BY DEF Init
  <1>2. Connected = {}
    BY <1>1 DEF Connected, Idle
  <1>3. \A r \in Request : SeenHolds(r)
    BY <1>1 DEF SeenHolds, Idle
  <1>4. Mutual(rows)
    <2>1. \A i \in 1 .. LongestSlug + 1 : NS(i) \in Key /\ NS(i) # PendingRow
      BY Rows
    <2>2. \A i \in 1 .. LongestSlug + 1 : rows[NS(i)] = Nil
      BY <2>1 DEF Init
    <2> QED
      BY <2>2 DEF Mutual
  <1> QED
    BY <1>2, <1>3, <1>4 DEF AtomicInv, SqliteInv, PostgresInv, LibsqlInv

LEMMA MovesAtomic ==
  ASSUME TypeInv, TypeInv', AtomicInv, NoLooseStatements, NEW r \in Request, Moves(r)
  PROVE  AtomicInv'
  <1>0. dialect' = dialect
    BY ConnectedAfter
  <1>1. \A q \in Connected' : t'[q].at = 1 => t'[q].mine = <<>>
    BY FirstsKept
  <1>2. \A q \in Request : SeenHolds(q)'
    BY SeenKept
  <1>3. SqliteInv'
    BY <1>0, SqliteKept DEF SqliteInv
  <1>4. PostgresInv'
    BY <1>0, PostgresKept DEF PostgresInv
  <1>5. LibsqlInv'
    BY <1>0, LibsqlKept DEF LibsqlInv
  <1> QED
    BY <1>1, <1>2, <1>3, <1>4, <1>5 DEF AtomicInv

LEMMA RestAtomic ==
  ASSUME TypeInv, AtomicInv, UNCHANGED vars
  PROVE  AtomicInv'
  <1>0. dialect' = dialect /\ rows' = rows /\ t' = t
    BY DEF vars
  <1>1. Connected' = Connected
    BY <1>0 DEF Connected
  <1>2. \A r \in Connected : Done(r) => Done(r)'
    BY <1>0, DoneStays DEF Connected
  <1>3. \A r \in Connected : (Inserted(r)' <=> Inserted(r)) /\ (Holder(r)' <=> Holder(r))
    BY <1>0 DEF Inserted, Holder
  <1>4. \A r \in Request : SeenHolds(r)'
    BY <1>0 DEF AtomicInv, SeenHolds
  <1>5. Mutual(rows) => Mutual(rows')
    BY <1>0
  <1>6. SqliteInv'
    BY <1>0, <1>1, <1>2, <1>3 DEF AtomicInv, SqliteInv
  <1>7. PostgresInv'
    BY <1>0, <1>1, <1>3, <1>5 DEF AtomicInv, PostgresInv
  <1>8. LibsqlInv'
    BY <1>0, <1>1, <1>2 DEF AtomicInv, LibsqlInv
  <1> QED
    BY <1>0, <1>1, <1>4, <1>6, <1>7, <1>8 DEF AtomicInv

LEMMA NextAtomic ==
  ASSUME NoLooseStatements, TypeInv, TypeInv', AtomicInv, [Next]_vars
  PROVE  AtomicInv'
  <1>1. CASE Next
    <2>1. \E r \in Request : Moves(r)
      BY <1>1, StepKinds DEF AtomicInv, Moves
    <2> QED
      BY <2>1, MovesAtomic
  <1>2. CASE UNCHANGED vars
    BY <1>2, RestAtomic
  <1> QED
    BY <1>1, <1>2

LEMMA AllDone ==
  ASSUME TypeInv, AtomicInv, NEW r \in Connected
  PROVE  Done(r)
  <1>1. dialect \in {"sqlite", "postgres", "libsql"}
    BY CallsAreCalls DEF TypeInv
  <1>2. CASE dialect = "postgres"
    BY <1>2, InsertedDone DEF AtomicInv, PostgresInv
  <1> QED
    BY <1>1, <1>2 DEF AtomicInv, SqliteInv, LibsqlInv

-----------------------------------------------------------------------------
(* Calls are atomic.                                                         *)

LEMMA SameEffects ==
  ASSUME NEW p, NEW a PROVE Store!AfterAll(p, a) = AfterAll(p, a)
  BY DEF Store!AfterAll, AfterAll, Store!FoldLeft, FoldLeft, Store!MapThenFoldSet,
         MapThenFoldSet, Store!Max, Max, Store!After, After, Store!UniquePairs, UniquePairs,
         Store!Unpaired, Unpaired, Store!NS, NS

LEMMA SamePrograms ==
  ASSUME NEW c, NEW r PROVE Store!Program(c, r) = Program(c, r)
  BY DEF Store!Program, Program, Store!create, create, Store!create_talk, create_talk,
         Store!commit_page_audit, commit_page_audit, Store!decide, decide,
         Store!replace_for_source, replace_for_source, Store!create_user, create_user,
         Store!list_backlinks_to, list_backlinks_to, Store!Insert, Insert, Store!Claim, Claim,
         Store!Pair, Pair, Store!Expect, Expect, Store!Decide, Decide, Store!Put, Put,
         Store!Read, Read, Store!NS, NS, Store!PageRow, PageRow, Store!PendingRow, PendingRow,
         Store!UserRow, UserRow, Store!LinkRows, LinkRows, Store!AuditRow, AuditRow,
         Store!Unpaired, Unpaired

\* The variables of the atomic store.
Stages == [r \in Request |-> Stage(t[r].pc)]
CallsOf == [r \in Request |-> t[r].call]
Told(r) == IF t[r].pc \in {"again", "answer", "ok"} THEN t[r].seen ELSE Nil
Seen == [r \in Request |-> Told(r)]

\* What a step of r leaves of them.
Turns(r, g, c, w) ==
  /\ Stages' = [Stages EXCEPT ![r] = g]
  /\ CallsOf' = [CallsOf EXCEPT ![r] = c]
  /\ Seen' = [Seen EXCEPT ![r] = w]

LEMMA OneTurns ==
  ASSUME NEW r \in Request, \A q \in Request \ {r} :
           t'[q].pc = t[q].pc /\ t'[q].call = t[q].call /\ t'[q].seen = t[q].seen,
         NEW g, g = Stage(t'[r].pc), NEW c, c = t'[r].call,
         NEW w, w = IF t'[r].pc \in {"again", "answer", "ok"} THEN t'[r].seen ELSE Nil
  PROVE  Turns(r, g, c, w)
  <1>2. \A q \in Request : Stage(t'[q].pc) = IF q = r THEN g ELSE Stage(t[q].pc)
    OBVIOUS
  <1>3. \A q \in Request : t'[q].call = IF q = r THEN c ELSE t[q].call
    OBVIOUS
  <1>4. \A q \in Request : Told(q)' = IF q = r THEN w ELSE Told(q)
    BY DEF Told
  <1>5. Stages' = [q \in Request |-> IF q = r THEN g ELSE Stage(t[q].pc)]
    BY <1>2 DEF Stages
  <1>6. CallsOf' = [q \in Request |-> IF q = r THEN c ELSE t[q].call]
    BY <1>3 DEF CallsOf
  <1>7. Seen' = [q \in Request |-> IF q = r THEN w ELSE Told(q)]
    BY <1>4 DEF Seen
  <1> QED
    BY <1>5, <1>6, <1>7 DEF Turns, Stages, CallsOf, Seen

\* Nothing of them changes.
LEMMA OneRests ==
  ASSUME NEW r \in Request,
         Turns(r, Stage(t[r].pc), t[r].call, Told(r))
  PROVE  Stages' = Stages /\ CallsOf' = CallsOf /\ Seen' = Seen
  BY DEF Turns, Stages, CallsOf, Seen

\* The stage of a call tells what may become of it.
LEMMA StagesAre ==
  ASSUME NEW r \in Request
  PROVE  /\ Stages[r] = Stage(t[r].pc) /\ CallsOf[r] = t[r].call
         /\ t[r].pc \in {"begin", "run", "commit"} => Stage(t[r].pc) = "asked"
         /\ t[r].pc \in {"again", "answer"} => Stage(t[r].pc) = "applied"
         /\ t[r].pc \in {"idle", "ok", "refused", "lost"} => Stage(t[r].pc) = t[r].pc
  BY DEF Stages, CallsOf, Stage

\* The variables of the store are these.
LEMMA StoreSteps ==
  /\ Store!Next <=> \E r \in Request : Store!Ask(r) \/ Store!Apply(r) \/ Store!Answer(r)
                                       \/ Store!Refuse(r) \/ Store!Vanish(r)
  /\ Store!vars = <<dialect, rows, Stages, CallsOf, Seen>>
  /\ Store!Asking = {r \in Request : Stages[r] \in {"asked", "applied"}}
  BY DEF Store!Next, Store!vars, Stages, CallsOf, Seen, Told, Store!Asking

LEMMA AsksInStore ==
  ASSUME NEW r \in Request, NEW c \in Calls[dialect], t[r].pc = "idle",
         Turns(r, "asked", c, Told(r)), dialect' = dialect, rows' = rows
  PROVE  Store!Ask(r)
  <1>1. Stages[r] = "idle"
    BY StagesAre
  <1>2. Seen' = Seen
    BY DEF Turns, Seen
  <1> QED
    BY <1>1, <1>2 DEF Turns, Store!Ask, Store!Reach, Stages, CallsOf, Seen, Told

LEMMA AppliesInStore ==
  ASSUME TypeInv, AtomicInv, NEW r \in Request, t[r].pc = "commit",
         Turns(r, "applied", t[r].call, t[r].seen), dialect' = dialect,
         rows' = Over(t[r].mine, rows)
  PROVE  Store!Apply(r)
  <1>1. r \in Connected /\ Stages[r] = "asked" /\ CallsOf[r] = t[r].call /\ Told(r) = Nil
    BY StagesAre DEF Connected, Told
  <1>2. rows' \in AfterAll(Prog(r), rows)
    <2>1. PICK n \in 1 .. 3 : n = Len(Prog(r))
      BY Running
    <2>2. PICK p, a, z : p = Prog(r) /\ a = rows /\ z = Over(t[r].mine, rows)
      OBVIOUS
    <2>3. DOMAIN p = 1 .. n
      BY <2>1, <2>2, Running
    <2>4. t[r].at - 1 = n
      <3>1. t[r].at = n + 1
        BY <2>1 DEF TypeInv, Shape
      <3> QED
        BY <3>1
    <2>5. Follows(p, n, a, z)
      <3>1. Done(r)
        BY <1>1, AllDone
      <3> QED
        BY <2>2, <2>4, <3>1, Zenon DEF Done
    <2>6. AfterAll(p, a) = {z}
      BY <2>3, <2>5, FollowsAll
    <2> QED
      BY <2>2, <2>6
  <1>3. rows' \in Store!AfterAll(Store!Program(CallsOf[r], r), rows)
    <2>1. Store!Program(CallsOf[r], r) = Prog(r)
      BY <1>1, SamePrograms DEF Prog
    <2>2. Store!AfterAll(Prog(r), rows) = AfterAll(Prog(r), rows)
      BY SameEffects
    <2> QED
      BY <1>2, <2>1, <2>2
  <1>4. Seen' = IF t[r].call.op = "list" THEN [Seen EXCEPT ![r] = rows[LinkRows]] ELSE Seen
    <2>1. t[r].call.op = "list" => t[r].seen = rows[LinkRows]
      BY DEF AtomicInv, SeenHolds
    <2>2. t[r].call.op # "list" => t[r].seen = Told(r)
      BY <1>1 DEF AtomicInv, SeenHolds
    <2>3. [Seen EXCEPT ![r] = Told(r)] = Seen
      BY DEF Seen
    <2> QED
      BY <2>1, <2>2, <2>3 DEF Turns
  <1>5. CallsOf' = CallsOf
    BY DEF Turns, CallsOf
  <1>6. Store!LinkRows = LinkRows
    BY DEF Store!LinkRows, LinkRows
  <1>7. Stages' = [Stages EXCEPT ![r] = "applied"]
    BY DEF Turns
  <1> QED
    BY <1>1, <1>3, <1>4, <1>5, <1>6, <1>7
       DEF Store!Apply, Store!Reach, Stages, CallsOf, Seen, Told

LEMMA AnswersInStore ==
  ASSUME NEW r \in Request, t[r].pc = "answer",
         Turns(r, "ok", t[r].call, t[r].seen), dialect' = dialect, rows' = rows
  PROVE  Store!Answer(r)
  <1>1. Stages[r] = "applied" /\ Told(r) = t[r].seen
    BY StagesAre DEF Told
  <1>2. Seen' = Seen /\ CallsOf' = CallsOf
    BY <1>1 DEF Turns, Seen, CallsOf
  <1> QED
    BY <1>1, <1>2 DEF Turns, Store!Answer, Store!Reach, Stages, CallsOf, Seen, Told

LEMMA VanishesInStore ==
  ASSUME NEW r \in Request, t[r].pc \in {"begin", "run", "commit", "again", "answer"},
         Turns(r, "lost", t[r].call, Nil), dialect' = dialect, rows' = rows
  PROVE  Store!Vanish(r)
  <1>1. Stages[r] \in {"asked", "applied"}
    BY StagesAre
  <1>2. CallsOf' = CallsOf
    BY DEF Turns, CallsOf
  <1> QED
    BY <1>1, <1>2
       DEF Turns, Store!Vanish, Store!Reach, Store!Untold, Store!Asking, Stages, CallsOf, Seen, Told

\* Somebody else is about, or the rows do not allow it.
Refusable(r) ==
  \/ \E o \in Request \ {r} : t[o].pc \in {"begin", "run", "commit", "again", "answer"}
  \/ t[r].pc = "run" /\ AfterAll(Prog(r), rows) = {}

LEMMA RefusesInStore ==
  ASSUME NEW r \in Request, t[r].pc \in {"begin", "run", "commit", "again", "answer"},
         t[r].pc \in {"again", "answer"} => t[r].pc = "again" /\ t[r].call.op = "decide",
         Turns(r, "refused", t[r].call, Nil), dialect' = dialect, rows' = rows, Refusable(r)
  PROVE  Store!Refuse(r)
  <1>1. \A o \in Request : t[o].pc \in {"begin", "run", "commit", "again", "answer"} =>
          Stages[o] \in {"asked", "applied"}
    BY StagesAre
  <1>2. r \in Store!Asking
    BY <1>1, StoreSteps
  <1>6. Stages[r] = "applied" => CallsOf[r].op = "decide"
    BY StagesAre
  <1>3. Store!Asking = {r} =>
          Stages[r] = "asked" /\ Store!AfterAll(Store!Program(CallsOf[r], r), rows) = {}
    <2>1. CASE \E o \in Request \ {r} : t[o].pc \in {"begin", "run", "commit", "again", "answer"}
      BY <1>1, <2>1, StoreSteps
    <2>2. CASE t[r].pc = "run" /\ AfterAll(Prog(r), rows) = {}
      <3>1. Stages[r] = "asked" /\ CallsOf[r] = t[r].call
        BY <2>2, StagesAre
      <3>2. Store!Program(CallsOf[r], r) = Prog(r)
        BY <3>1, SamePrograms DEF Prog
      <3>3. Store!AfterAll(Prog(r), rows) = {}
        BY <2>2, SameEffects
      <3> QED
        BY <3>1, <3>2, <3>3
    <2> QED
      BY <2>1, <2>2 DEF Refusable
  <1>4. CallsOf' = CallsOf
    BY DEF Turns, CallsOf
  <1>5. Stages' = [Stages EXCEPT ![r] = "refused"] /\ Seen' = [Seen EXCEPT ![r] = Nil]
    BY DEF Turns
  <1> QED
    BY <1>2, <1>3, <1>4, <1>5, <1>6
       DEF Store!Refuse, Store!Reach, Store!Untold, Stages, CallsOf, Seen, Told

\* A statement that fails in its turn would have failed by itself.
LEMMA FailsAlone ==
  ASSUME TypeInv, AtomicInv, NoLooseStatements, NEW r \in Request, t[r].pc = "run",
         After(Statement(r), View(r)) = {}
  PROVE  AfterAll(Prog(r), rows) = {}
  <1>1. r \in Connected /\ View(r) = Over(t[r].mine, rows)
    BY SessionIsOwn DEF Connected, View, AtomicInv
  <1>2. PICK n \in 1 .. 3 : n = Len(Prog(r))
    BY Running
  <1>3. PICK at \in 1 .. n : at = t[r].at
    BY <1>2, Running
  <1>4. PICK k \in 0 .. n - 1 : k = at - 1 /\ k + 1 = at
    OBVIOUS
  <1>5. PICK p, a, y : p = Prog(r) /\ a = rows /\ y = Over(t[r].mine, rows)
    OBVIOUS
  <1>6. DOMAIN p = 1 .. n
    BY <1>2, <1>5, Running
  <1>7. Follows(p, k, a, y)
    <2>1. Done(r)
      BY <1>1, AllDone
    <2> QED
      BY <1>2, <1>4, <1>5, <1>3, <2>1, Zenon DEF Done
  <1>8. After(p[k + 1], y) = {}
    <2>1. Statement(r) = p[at]
      BY <1>5, <1>3 DEF Statement, Prog
    <2> QED
      BY <1>1, <1>4, <1>5, <2>1
  <1>9. AfterAll(p, a) = {}
    BY <1>6, <1>7, <1>8, FollowsFails
  <1> QED
    BY <1>5, <1>9

\* Whoever has to give up has somebody in the way.
LEMMA BlockedByOthers ==
  ASSUME TypeInv, NEW r \in Request, Blocked(r)
  PROVE  Refusable(r)
  <1> USE AdaptersAssumption
  <1>1. ASSUME t[r].pc \in {"begin", "again"}, ~Free(r) PROVE \E o \in Connected : o # r
    <2>1. Connected # {}
      <3>1. CASE dialect = "libsql"
        BY <1>1, <3>1 DEF Free
      <3>2. CASE dialect # "libsql"
        <4>1. ~(Cardinality(Connected) < PoolSize) /\ PoolSize > 0
          BY <1>1, <3>2 DEF Free
        <4>2. Connected = {} => Cardinality(Connected) = 0
          BY FS_EmptySet
        <4> QED
          BY <4>1, <4>2
      <3> QED
        BY <3>1, <3>2
    <2> QED
      BY <1>1, <2>1 DEF Connected
  <1>2. \E o \in Connected : o # r
    <2>1. CASE t[r].pc = "begin" /\ ~Free(r)
      BY <1>1, <2>1
    <2>2. CASE t[r].pc = "again" /\ (~Free(r) \/ \E o \in Connected : t[o].lock = "pending")
      BY <1>1, <2>2 DEF Connected
    <2>3. CASE dialect = "sqlite" /\ t[r].pc = "run" /\ ~MayRun(r)
      BY <2>3 DEF MayRun, Others
    <2>4. CASE dialect = "sqlite" /\ t[r].pc = "commit" /\ ~MayCommit(r)
      BY <2>4 DEF MayCommit, Others
    <2> QED
      BY <2>1, <2>2, <2>3, <2>4 DEF Blocked
  <1> QED
    BY <1>2 DEF Refusable, Connected

Turned(r) ==
  /\ \A q \in Request \ {r} :
       t'[q].pc = t[q].pc /\ t'[q].call = t[q].call /\ t'[q].seen = t[q].seen
  /\ dialect' = dialect

\* A step between the question and the moment the call takes effect, or
\* between that moment and the answer.
LEMMA RestsInStore ==
  ASSUME NEW r \in Request, Turned(r), rows' = rows,
         t'[r].call = t[r].call, t'[r].seen = t[r].seen,
         \/ t[r].pc \in {"begin", "run", "commit"} /\ t'[r].pc \in {"begin", "run", "commit"}
         \/ t[r].pc \in {"again", "answer"} /\ t'[r].pc \in {"again", "answer"}
  PROVE  UNCHANGED Store!vars
  <1>1. PICK g, c, w : g = Stage(t'[r].pc) /\ c = t'[r].call
          /\ w = IF t'[r].pc \in {"again", "answer", "ok"} THEN t'[r].seen ELSE Nil
    OBVIOUS
  <1>2. Turns(r, g, c, w)
    BY <1>1, OneTurns DEF Turned
  <1>3. g = Stage(t[r].pc)
    BY <1>1 DEF Stage
  <1>4. c = t[r].call /\ w = Told(r)
    BY <1>1 DEF Told
  <1>5. Stages' = Stages /\ CallsOf' = CallsOf /\ Seen' = Seen
    BY <1>2, <1>3, <1>4, OneRests
  <1> QED
    BY <1>5 DEF Store!vars, Stages, CallsOf, Seen, Told, Turned

\* The call of r ends.
LEMMA EndTurns ==
  ASSUME NEW r \in Request, NEW pc \in {"ok", "refused", "lost"}, Closed(r, pc)
  PROVE  Turns(r, pc, t[r].call, IF pc = "ok" THEN t[r].seen ELSE Nil)
  <1>1. PICK w : w = IF pc = "ok" THEN t[r].seen ELSE Nil
    OBVIOUS
  <1>2. pc = Stage(t'[r].pc)
    BY DEF Closed, Stage
  <1>3. Turns(r, pc, t[r].call, w)
    BY <1>1, <1>2, OneTurns DEF Closed, Alone
  <1> QED
    BY <1>1, <1>3

LEMMA NextInStore ==
  ASSUME NoLooseStatements, TypeInv, AtomicInv, Next
  PROVE  Store!Next \/ UNCHANGED Store!vars
  <1>0. t \in [Request -> Handler] /\ \A r \in Request : Shape(r)
    BY DEF TypeInv
  <1>1. ASSUME NEW r \in Request, Come(r) PROVE Store!Ask(r)
    <2>1. PICK c \in Calls[dialect] :
            t' = [t EXCEPT ![r].pc = "begin", ![r].call = c] /\ UNCHANGED <<dialect, rows>>
      BY <1>1 DEF Come
    <2>2. Alone(r) /\ t'[r].pc = "begin" /\ t'[r].call = c /\ t'[r].seen = t[r].seen
      BY <2>1, <1>0, ComeAlone DEF TypeInv
    <2>3. t[r].pc = "idle" /\ Told(r) = Nil
      BY <1>1 DEF Come, Told
    <2>4. Stage(t'[r].pc) = "asked"
      BY <2>2 DEF Stage
    <2>5. Turns(r, "asked", c, Told(r))
      BY <2>2, <2>3, <2>4, OneTurns DEF Alone
    <2> QED
      BY <2>1, <2>3, <2>5, AsksInStore
  <1>2. ASSUME NEW r \in Request, Begin(r) PROVE UNCHANGED Store!vars
    <2>1. /\ Alone(r) /\ t'[r].pc = "run" /\ t'[r].call = t[r].call /\ t'[r].seen = t[r].seen
      BY <1>0, <1>2, GoesOn DEF Begin, Pcs
    <2> QED
      BY <1>2, <2>1, RestsInStore DEF Begin, Alone, Turned
  <1>3. ASSUME NEW r \in Request, NEW pc \in {"ok", "refused", "lost"}, End(r, pc)
        PROVE  /\ Turns(r, pc, t[r].call, IF pc = "ok" THEN t[r].seen ELSE Nil)
               /\ dialect' = dialect /\ rows' = rows
    <2>1. Closed(r, pc)
      BY <1>0, <1>3, Closes DEF End, Pcs
    <2> QED
      BY <1>3, <2>1, EndTurns DEF End
  <1>4. ASSUME NEW r \in Request, Execute(r) PROVE Store!Refuse(r) \/ UNCHANGED Store!vars
    <2>1. t[r].pc = "run" /\ r \in Connected
      BY <1>4 DEF Execute, Connected
    <2>2. CASE After(Statement(r), View(r)) = {} /\ End(r, "refused")
      <3>1. Refusable(r)
        BY <2>1, <2>2, FailsAlone DEF Refusable
      <3>2. Turns(r, "refused", t[r].call, Nil) /\ dialect' = dialect /\ rows' = rows
        BY <1>3, <2>2
      <3> QED
        BY <2>1, <3>1, <3>2, RefusesInStore
    <2>3. ASSUME NEW x \in Connected, NEW v, Table(v), Runs(r, x, v) PROVE UNCHANGED Store!vars
      <3>1. ~(dialect = "libsql" /\ Single(r))
        BY <2>1, NoneIsSingle
      <3>2. /\ t'[r].pc \in {"run", "commit"} /\ t'[r].call = t[r].call /\ rows' = rows
            /\ Turned(r)
            /\ t'[r].seen = IF Statement(r).do = "read" THEN v[Statement(r).key] ELSE t[r].seen
        BY <2>3, <3>1 DEF Runs, Turned
      <3>3. PICK g, c, w : g = Stage(t'[r].pc) /\ c = t'[r].call
              /\ w = IF t'[r].pc \in {"again", "answer", "ok"} THEN t'[r].seen ELSE Nil
        OBVIOUS
      <3>4. Turns(r, g, c, w)
        BY <3>2, <3>3, OneTurns DEF Turned
      <3>5. g = "asked" /\ Stage(t[r].pc) = "asked"
        BY <2>1, <3>2, <3>3 DEF Stage
      <3>6. c = t[r].call /\ w = Told(r)
        BY <2>1, <3>2, <3>3 DEF Told
      <3>7. Stages' = Stages /\ CallsOf' = CallsOf /\ Seen' = Seen
        BY <3>4, <3>5, <3>6, OneRests
      <3> QED
        BY <3>2, <3>7 DEF Store!vars, Stages, CallsOf, Seen, Told, Turned
    <2> QED
      BY <1>4, <2>2, <2>3, ExecuteRuns
  <1>5. ASSUME NEW r \in Request, Wait(r) PROVE UNCHANGED Store!vars
    <2>1. /\ Alone(r) /\ t'[r].pc = t[r].pc /\ t'[r].call = t[r].call /\ t'[r].seen = t[r].seen
      BY <1>0, <1>5, WaitAlone DEF Wait
    <2> QED
      BY <1>5, <2>1, RestsInStore DEF Wait, Alone, Turned
  <1>6. ASSUME NEW r \in Request, Commit(r) PROVE Store!Apply(r)
    <2>1. t[r].pc = "commit" /\ dialect' = dialect /\ rows' = View(r)
      BY <1>6 DEF Commit
    <2>2. PICK pc \in {"again", "answer"} :
            pc = IF t[r].call.op = "decide" THEN "again" ELSE "answer"
      OBVIOUS
    <2>3. t' = [t EXCEPT ![r].pc = pc, ![r].mine = <<>>, ![r].lock = "none"]
      BY <1>6, <2>2 DEF Commit
    <2>4. Closed(r, pc)
      BY <1>0, <2>2, <2>3, Closes DEF Pcs
    <2>5. Session(r) = r
      BY <2>1, SessionIsOwn DEF Connected, AtomicInv
    <2>6. Stage(t'[r].pc) = "applied"
      BY <2>2, <2>4 DEF Closed, Stage
    <2>7. Turns(r, "applied", t[r].call, t[r].seen)
      BY <2>2, <2>4, <2>6, OneTurns DEF Closed, Alone
    <2> QED
      BY <2>1, <2>5, <2>7, AppliesInStore DEF View
  <1>7. ASSUME NEW r \in Request, ReadAgain(r) PROVE UNCHANGED Store!vars
    <2>1. /\ Alone(r) /\ t'[r].pc = "answer" /\ t'[r].call = t[r].call /\ t'[r].seen = t[r].seen
      BY <1>0, <1>7, GoesOn DEF ReadAgain, Pcs
    <2> QED
      BY <1>7, <2>1, RestsInStore DEF ReadAgain, Alone, Turned
  <1>8. ASSUME NEW r \in Request, Reply(r) PROVE Store!Answer(r)
    <2>1. t[r].pc = "answer" /\ End(r, "ok")
      BY <1>8 DEF Reply
    <2>2. Turns(r, "ok", t[r].call, t[r].seen) /\ dialect' = dialect /\ rows' = rows
      BY <1>3, <2>1
    <2> QED
      BY <2>1, <2>2, AnswersInStore
  <1>9. ASSUME NEW r \in Request, GiveUp(r) PROVE Store!Refuse(r)
    <2>1. t[r].pc \in {"begin", "run", "commit", "again"} /\ End(r, "refused") /\ Refusable(r)
      BY <1>9, BlockedByOthers DEF GiveUp, Blocked
    <2>3. t[r].pc = "again" => t[r].call.op = "decide"
      BY DEF TypeInv, Shape
    <2>2. Turns(r, "refused", t[r].call, Nil) /\ dialect' = dialect /\ rows' = rows
      BY <1>3, <2>1
    <2> QED
      BY <2>1, <2>2, <2>3, RefusesInStore
  <1>10. ASSUME NEW r \in Request, Drop(r) PROVE Store!Vanish(r)
    <2>1. t[r].pc \in {"begin", "run", "commit", "again", "answer"} /\ End(r, "lost")
      BY <1>0, <1>10 DEF Drop, Handler, Pcs
    <2>2. Turns(r, "lost", t[r].call, Nil) /\ dialect' = dialect /\ rows' = rows
      BY <1>3, <2>1
    <2> QED
      BY <2>1, <2>2, VanishesInStore
  <1> QED
    BY <1>1, <1>2, <1>4, <1>5, <1>6, <1>7, <1>8, <1>9, <1>10, StoreSteps DEF Next, Step

LEMMA InitInStore == Init => Store!Init
  <1> SUFFICES ASSUME Init PROVE Store!Init
    OBVIOUS
  <1>1. rows = Store!Start
    BY DEF Init, Store!Start, Store!Key, Key, Store!PendingRow, PendingRow
  <1>2. \A r \in Request : t[r] = Idle
    BY DEF Init
  <1>3. /\ Stages = [r \in Request |-> "idle"]
        /\ CallsOf = [r \in Request |-> Nil] /\ Seen = [r \in Request |-> Nil]
    BY <1>2 DEF Stages, Stage, Idle, CallsOf, Seen, Told
  <1> QED
    BY <1>1, <1>3 DEF Store!Init, Stages, CallsOf, Seen, Told

\* As long as no statement of libsql runs outside a transaction, the adapters
\* do what the storage traits promise, for any number of requests, any pool,
\* any calls they have and whichever statements interleave: a call takes effect
\* at once between the question and the answer or not at all, a reader is told
\* a state the store was in, and nobody is refused unless the rows forbid it or
\* somebody else is about.
THEOREM CallsAreAtomic ==
  ASSUME NoLooseStatements
  PROVE  Spec => Store!Spec
  <1>1. Init => Store!Init /\ AtomicInv
    BY InitInStore, InitAtomic
  <1>2. TypeInv /\ TypeInv' /\ AtomicInv /\ [Next]_vars => AtomicInv'
    BY NextAtomic
  <1>3. TypeInv /\ AtomicInv /\ [Next]_vars => [Store!Next]_(Store!vars)
    <2>1. ASSUME TypeInv, AtomicInv, Next PROVE [Store!Next]_(Store!vars)
      BY <2>1, NextInStore
    <2>2. ASSUME UNCHANGED vars PROVE UNCHANGED Store!vars
      BY <2>2 DEF vars, Store!vars
    <2> QED
      BY <2>1, <2>2
  <1> QED
    BY <1>1, <1>2, <1>3, TypeInvariant, PTL DEF Spec, Store!Spec

=============================================================================
