------------------------------ MODULE Requests ------------------------------
(* What the handlers of the smaller services have in common: a request is an *)
(* actor that takes its storage calls one after the other, may be lost       *)
(* between two of them, and writes its audit entry in a call of its own,     *)
(* after the change it records.                                              *)
EXTENDS Integers, FiniteSets

CONSTANTS
  Request,  \* the requests; each is served once
  Topics,   \* the services in the instance
  Load,     \* service -> the number of requests it is sent
  Lossy,    \* TRUE: a handler may end between two of its calls
  Nil       \* nothing

ASSUME RequestsAssumption == IsFiniteSet(Request)

VARIABLES
  topic,    \* the service this behaviour is about: services share no row
  h,        \* request -> the state of its handler
  audit,    \* the requests that have an entry in the audit log
  changed   \* history: the requests whose own call changed a row

shared == <<topic, h, audit, changed>>

Idle == [pc |-> "idle", op |-> Nil, key |-> Nil, seen |-> Nil]

Over == {"done", "refused", "lost"}

InFlight(r) == h[r].pc \notin {"idle"} \cup Over

Arrived == {r \in Request : h[r].pc # "idle"}

\* A request for operation op of service t comes in and gets as far as pc.
\* One that is refused on what it reads first changes nothing and has no action.
Arrive(r, t, op, key, pc, seen) ==
  /\ topic = t
  /\ h[r].pc = "idle"
  /\ Cardinality(Arrived) < Load[t]
  /\ h' = [h EXCEPT ![r] = [pc |-> pc, op |-> op, key |-> key, seen |-> seen]]

At(r, op, pc) == h[r].op = op /\ h[r].pc = pc

Go(r, pc) == h' = [h EXCEPT ![r].pc = pc]

GoWith(r, pc, seen) == h' = [h EXCEPT ![r].pc = pc, ![r].seen = seen]

\* The call of r found a row to change, or not.
Changes(r) == changed' = changed \cup {r}

\* The audit entry of a change that has been made.
Log(r) ==
  /\ h[r].pc = "log"
  /\ audit' = audit \cup {r}
  /\ Go(r, "done")
  /\ UNCHANGED changed

\* A storage error, a client that goes away, a kill.
Lose(r) ==
  /\ Lossy
  /\ InFlight(r)
  /\ Go(r, "lost")
  /\ UNCHANGED <<audit, changed>>

=============================================================================
