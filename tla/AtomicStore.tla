---------------------------- MODULE AtomicStore -----------------------------
(* What the storage traits promise: a call takes effect at once, between the *)
(* question and the answer, or not at all.  What was answered is there, what *)
(* was refused left nothing behind, save a decision that was made and could  *)
(* not be read again for the answer; a reader never sees half an edit, and a *)
(* call that nobody disturbs is refused only for what the rows say.          *)
EXTENDS Statements

CONSTANT Calls  \* dialect -> the calls its store is sent

VARIABLES
  rows,   \* the store
  stage,  \* request -> how far its call is
  call,   \* request -> its call
  seen    \* request -> what it was told the rows it asked for are

vars == <<dialect, rows, stage, call, seen>>

Asking == {r \in Request : stage[r] \in {"asked", "applied"}}

Start == [k \in Key |-> IF k = PendingRow THEN "pending" ELSE Nil]

Init ==
  /\ rows = Start
  /\ stage = [r \in Request |-> "idle"]
  /\ call = [r \in Request |-> Nil]
  /\ seen = [r \in Request |-> Nil]

Reach(r, s) == stage' = [stage EXCEPT ![r] = s]

Ask(r) ==
  /\ stage[r] = "idle"
  /\ Reach(r, "asked")
  /\ \E c \in Calls[dialect] : call' = [call EXCEPT ![r] = c]
  /\ UNCHANGED <<dialect, rows, seen>>

Apply(r) ==
  /\ stage[r] = "asked"
  /\ Reach(r, "applied")
  /\ rows' \in AfterAll(Program(call[r], r), rows)
  /\ seen' = IF call[r].op = "list" THEN [seen EXCEPT ![r] = rows[LinkRows]] ELSE seen
  /\ UNCHANGED <<dialect, call>>

Answer(r) ==
  /\ stage[r] = "applied"
  /\ Reach(r, "ok")
  /\ UNCHANGED <<dialect, rows, call, seen>>

Untold(r) == seen' = [seen EXCEPT ![r] = Nil]

\* The rows do not allow it, or others are about; they also keep a decision
\* that has taken effect from being read again.
Refuse(r) ==
  /\ Reach(r, "refused")
  /\ r \in Asking
  /\ Asking = {r} => stage[r] = "asked" /\ AfterAll(Program(call[r], r), rows) = {}
  /\ stage[r] = "applied" => call[r].op = "decide"
  /\ Untold(r)
  /\ UNCHANGED <<dialect, rows, call>>

\* The handler ends with its call under way.
Vanish(r) ==
  /\ Reach(r, "lost")
  /\ r \in Asking
  /\ Untold(r)
  /\ UNCHANGED <<dialect, rows, call>>

Next == \E r \in Request : Ask(r) \/ Apply(r) \/ Answer(r) \/ Refuse(r) \/ Vanish(r)

Spec == Init /\ [][Next]_vars

\* Everybody who asks is answered: as each asks once, nobody is left asking.
LiveSpec == Spec /\ ((Asking # {}) ~> (Asking = {}))

=============================================================================
