------------------------------ MODULE Adapters ------------------------------
(* The storage adapters.  The SQLite and Postgres ones run a call on a       *)
(* connection of a pool, the libsql one on the one connection of the         *)
(* process.  A transaction sees its own writes over the committed rows.      *)
(* SQLite keeps others out with locks on the whole file, Postgres with locks *)
(* on the rows written.  The locks are those of SQLite without a write-ahead *)
(* log, which nothing asks for, and libsql is taken in its local mode.       *)
EXTENDS Statements, FiniteSets

CONSTANTS
  Calls,     \* dialect -> the calls its store is sent
  PoolSize   \* max_connections

ASSUME AdaptersAssumption ==
  /\ PoolSize \in Nat \ {0}
  /\ LongestSlug \in Nat \ {0}
  /\ IsFiniteSet(Request)
  /\ Nil \notin Nat
  /\ DOMAIN Calls \subseteq {"sqlite", "postgres", "libsql"}
  /\ \A d \in DOMAIN Calls : Calls[d] \subseteq [op : Offered(d), arg : 1 .. LongestSlug]

VARIABLES
  rows,  \* what is committed
  t      \* request -> the state of its call

vars == <<dialect, rows, t>>

Idle ==
  [pc |-> "idle", call |-> Nil, at |-> 1, mine |-> <<>>, lock |-> "none", seen |-> Nil]

Init ==
  /\ dialect \in DOMAIN Calls
  /\ rows = [k \in Key |-> IF k = PendingRow THEN "pending" ELSE Nil]
  /\ t = [r \in Request |-> Idle]

-----------------------------------------------------------------------------
(* Connections and locks.                                                    *)

\* A statement by itself, which libsql commits at once.
Single(r) == t[r].call.op \in {"user", "list"}

Connected == {r \in Request : t[r].pc \in {"run", "commit"}}

Others(r) == Connected \ {r}

\* The pool has a connection to spare; libsql opens no transaction inside
\* another, and needs none for a single statement.
Free(r) ==
  IF dialect = "libsql"
  THEN Single(r) \/ \A o \in Connected : Single(o)
  ELSE Cardinality(Connected) < PoolSize

\* The transaction a statement runs in: its own, or on the one connection of
\* libsql whichever is open.
Session(r) ==
  LET open == {o \in Connected : ~Single(o)}
  IN IF dialect = "libsql" /\ open # {} THEN CHOOSE o \in open : TRUE ELSE r

\* The rows of one table laid over those of another.
Over(new, old) ==
  [k \in DOMAIN new \cup DOMAIN old |-> IF k \in DOMAIN new THEN new[k] ELSE old[k]]

View(r) == Over(t[Session(r)].mine, rows)

Statement(r) == Program(t[r].call, r)[t[r].at]

\* SQLite: any number of readers and one writer, which keeps new readers out
\* once it wants to commit.  Postgres: who writes a row waits for whoever has
\* written it.
MayRun(r) ==
  LET s == Statement(r)
  IN CASE dialect = "sqlite" ->
            \A o \in Others(r) :
              /\ t[r].lock = "none" => t[o].lock # "pending"
              /\ Writes(s) # {} => t[o].lock \notin {"reserved", "pending"}
       [] dialect = "postgres" ->
            \A o \in Others(r) : Writes(s) \cap DOMAIN t[o].mine = {}
       [] dialect = "libsql" -> TRUE

\* The lock a statement leaves a SQLite connection with.
LockAfter(r) ==
  IF Writes(Statement(r)) # {} THEN "reserved"
  ELSE IF t[r].lock = "none" THEN "shared" ELSE t[r].lock

\* A SQLite writer waits for the readers to end.
MayCommit(r) ==
  dialect = "sqlite" /\ t[r].lock \in {"reserved", "pending"} =>
    \A o \in Others(r) : t[o].lock = "none"

-----------------------------------------------------------------------------
(* A call.                                                                   *)

Come(r) ==
  /\ t[r].pc = "idle"
  /\ \E c \in Calls[dialect] : t' = [t EXCEPT ![r].pc = "begin", ![r].call = c]
  /\ UNCHANGED <<dialect, rows>>

\* Mutant of Begin: the pool has no bound.
BeginUnbounded(r) ==
  /\ t[r].pc = "begin"
  /\ t' = [t EXCEPT ![r].pc = "run"]
  /\ UNCHANGED <<dialect, rows>>

\* pool.begin() or conn.transaction(): a connection, and no lock yet.
Begin(r) ==
  /\ t[r].pc = "begin"
  /\ Free(r)
  /\ t' = [t EXCEPT ![r].pc = "run"]
  /\ UNCHANGED <<dialect, rows>>

\* Mutant of End: the statements stand by themselves, and what has been written
\* stays.
EndKeeps(r, pc) ==
  /\ rows' = View(r)
  /\ t' = [t EXCEPT ![r].pc = pc, ![r].mine = <<>>, ![r].lock = "none"]
  /\ UNCHANGED dialect

\* The end of a call without effect: the transaction is rolled back.
End(r, pc) ==
  /\ t' = [t EXCEPT ![r].pc = pc, ![r].mine = <<>>, ![r].lock = "none"]
  /\ UNCHANGED <<dialect, rows>>

Execute(r) ==
  LET s == Statement(r)
      x == Session(r)
      last == t[r].at = Len(Program(t[r].call, r))
      after == After(s, View(r))
  IN /\ t[r].pc = "run"
     /\ MayRun(r)
     /\ \/ /\ after = {}
           /\ End(r, "refused")
        \/ \E v \in after :
             LET wrote == [k \in Writes(s) |-> v[k]]
                 alone == dialect = "libsql" /\ Single(r)
             IN /\ t' = [t EXCEPT
                     ![x].mine = IF alone /\ x = r THEN @ ELSE Over(wrote, @),
                     ![r].at = @ + 1,
                     ![r].lock = IF dialect = "sqlite" THEN LockAfter(r) ELSE @,
                     ![r].seen = IF s.do = "read" THEN v[s.key] ELSE @,
                     ![r].pc = IF alone THEN "answer" ELSE IF last THEN "commit" ELSE @]
                /\ rows' = IF alone /\ x = r THEN Over(wrote, rows) ELSE rows
                /\ UNCHANGED dialect

\* The writer is waiting for the readers, and nobody may start to read.
Wait(r) ==
  /\ t[r].pc = "commit"
  /\ ~MayCommit(r)
  /\ t[r].lock = "reserved"
  /\ t' = [t EXCEPT ![r].lock = "pending"]
  /\ UNCHANGED <<dialect, rows>>

\* The connection goes back to the pool; a decision is read again on another.
Commit(r) ==
  /\ t[r].pc = "commit"
  /\ MayCommit(r)
  /\ rows' = View(r)
  /\ t' = [t EXCEPT ![r].pc = IF t[r].call.op = "decide" THEN "again" ELSE "answer",
                    ![r].mine = <<>>, ![r].lock = "none"]
  /\ UNCHANGED dialect

\* The row is read once more for the answer, by a statement of its own.
ReadAgain(r) ==
  /\ t[r].pc = "again"
  /\ Free(r)
  /\ \A o \in Connected : t[o].lock # "pending"
  /\ t' = [t EXCEPT ![r].pc = "answer"]
  /\ UNCHANGED <<dialect, rows>>

Reply(r) ==
  /\ t[r].pc = "answer"
  /\ End(r, "ok")

\* acquire_timeout runs out, or the busy timeout of SQLite.  Postgres waits
\* for a row as long as it takes, libsql does not wait.
Blocked(r) ==
  \/ t[r].pc = "begin" /\ ~Free(r)
  \/ t[r].pc = "again" /\ (~Free(r) \/ \E o \in Connected : t[o].lock = "pending")
  \/ dialect = "sqlite" /\ t[r].pc = "run" /\ ~MayRun(r)
  \/ dialect = "sqlite" /\ t[r].pc = "commit" /\ ~MayCommit(r)

GiveUp(r) == Blocked(r) /\ End(r, "refused")

\* The handler is dropped, and its transaction rolled back.
Drop(r) ==
  /\ t[r].pc \notin {"idle", "ok", "refused", "lost"}
  /\ End(r, "lost")

Step(r) ==
  Begin(r) \/ Execute(r) \/ Wait(r) \/ Commit(r) \/ ReadAgain(r) \/ Reply(r) \/ GiveUp(r)

Next == \E r \in Request : Come(r) \/ Step(r) \/ Drop(r)

Spec == Init /\ [][Next]_vars

\* The runtime polls some call that can go on, or whose time is up, as long as
\* there is one; there are finitely many, each of finitely many steps.
FairSpec == Spec /\ WF_vars(\E r \in Request : Step(r))

-----------------------------------------------------------------------------
(* Properties.                                                               *)

\* Every call is well formed, no more connections are in use than the pool
\* has, and one writer at most holds the file.
TypeOK ==
  /\ dialect \in {"sqlite", "postgres", "libsql"}
  /\ \A k \in Key : rows[k] \in Value(k)
  /\ \A r \in Request :
       /\ t[r].pc \in {"idle", "begin", "run", "commit", "again", "answer",
                       "ok", "refused", "lost"}
       /\ t[r].lock \in {"none", "shared", "reserved", "pending"}
       /\ t[r].pc \notin {"run", "commit"} => t[r].mine = <<>> /\ t[r].lock = "none"
       /\ t[r].seen \in Value(LinkRows)
  /\ dialect # "libsql" => Cardinality(Connected) <= PoolSize
  /\ Cardinality({r \in Request : t[r].lock \in {"reserved", "pending"}}) <= 1

Stage(pc) ==
  CASE pc \in {"begin", "run", "commit"} -> "asked"
    [] pc \in {"again", "answer"} -> "applied"
    [] OTHER -> pc

Store == INSTANCE AtomicStore WITH
  stage <- [r \in Request |-> Stage(t[r].pc)],
  call <- [r \in Request |-> t[r].call],
  seen <- [r \in Request |->
             IF t[r].pc \in {"again", "answer", "ok"} THEN t[r].seen ELSE Nil]

\* Calls take effect one at a time and entirely or not at all, none is
\* refused without somebody in its way, and everybody is answered.
IsAtomic == Store!LiveSpec

=============================================================================
