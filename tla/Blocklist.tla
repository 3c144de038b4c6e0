----------------------------- MODULE Blocklist ------------------------------
(* The blocklist: two tables that administrators edit, and the snapshot of   *)
(* both that the middleware and the page handlers consult, rebuilt after     *)
(* every change by the request that made it.                                 *)
EXTENDS Requests

CONSTANT Entries  \* the addresses and patterns that may be listed

Kind == {"ip", "url"}

\* A list of each kind.
Lists == [Kind -> SUBSET Entries]

VARIABLES
  blocked,   \* id of a row, the request that created it -> [kind, entry] or Nil
  snapshot,  \* what is enforced
  current,   \* history: the changes that what is enforced was read after
  newest     \* history: the changes that something installed was read after

blVars == <<blocked, snapshot, current, newest>>

-----------------------------------------------------------------------------

Rows == {blocked[i] : i \in {j \in Request : blocked[j] # Nil}}

Listed(k) == {row.entry : row \in {x \in Rows : x.kind = k}}

BlInit ==
  /\ blocked = [i \in Request |-> Nil]
  /\ snapshot = [k \in Kind |-> {}]
  /\ current = [k \in Kind |-> {}]
  /\ newest = [k \in Kind |-> {}]

\* An administrator adds an entry; the column is UNIQUE.
BlockEntry(r) ==
  /\ \E k \in Kind : \E e \in Entries \ Listed(k) :
       /\ blocked' = [blocked EXCEPT ![r] = [kind |-> k, entry |-> e]]
       /\ Arrive(r, "blocklist", "block", r, "ip", Nil)
  /\ Changes(r)
  /\ UNCHANGED <<snapshot, current, newest, audit>>

ReadForUnblock(r) ==
  /\ \E i \in Request :
       /\ blocked[i] # Nil
       /\ Arrive(r, "blocklist", "unblock", i, "unblock", Nil)
  /\ UNCHANGED <<blVars, audit, changed>>

\* Mutant of Unblock: the handler does not refresh.
UnblockUnrefreshed(r) ==
  /\ At(r, "unblock", "unblock")
  /\ blocked' = [blocked EXCEPT ![h[r].key] = Nil]
  /\ IF blocked[h[r].key] # Nil
     THEN Changes(r) /\ Go(r, "log")
     ELSE Go(r, "refused") /\ UNCHANGED changed
  /\ UNCHANGED <<snapshot, current, newest, audit>>

\* The DELETE finds the row, or finds it gone since it was read.
Unblock(r) ==
  /\ At(r, "unblock", "unblock")
  /\ blocked' = [blocked EXCEPT ![h[r].key] = Nil]
  /\ IF blocked[h[r].key] # Nil
     THEN Changes(r) /\ Go(r, "ip")
     ELSE Go(r, "refused") /\ UNCHANGED changed
  /\ UNCHANGED <<snapshot, current, newest, audit>>

\* A table as it is read, and which changes had been made by then.
Reading(k) == [list |-> Listed(k), of |-> changed]

\* The refresh reads one table, then the other, then swaps the snapshot.
ReadAddresses(r) ==
  /\ h[r].pc = "ip"
  /\ GoWith(r, "url", [ip |-> Reading("ip")])
  /\ UNCHANGED <<blVars, audit, changed>>

ReadPatterns(r) ==
  /\ h[r].pc = "url"
  /\ GoWith(r, "install", [ip |-> h[r].seen.ip, url |-> Reading("url")])
  /\ UNCHANGED <<blVars, audit, changed>>

\* Whatever is enforced is replaced, also what was read later than this.
Install(r) ==
  /\ h[r].pc = "install"
  /\ snapshot' = [k \in Kind |-> h[r].seen[k].list]
  /\ current' = [k \in Kind |-> h[r].seen[k].of]
  /\ newest' = [k \in Kind |-> newest[k] \cup h[r].seen[k].of]
  /\ Go(r, "log")
  /\ UNCHANGED <<blocked, audit, changed>>

\* The process ends and starts again: the requests it served are lost, and
\* the snapshot is read before anybody is served.
Restart ==
  /\ topic = "blocklist"
  /\ Lossy
  /\ \E r \in Request : InFlight(r)
  /\ h' = [r \in Request |-> IF InFlight(r) THEN [h[r] EXCEPT !.pc = "lost"] ELSE h[r]]
  /\ snapshot' = [k \in Kind |-> Listed(k)]
  /\ current' = [k \in Kind |-> changed]
  /\ newest' = [k \in Kind |-> changed]
  /\ UNCHANGED <<blocked, audit, changed>>

BlStep(r) ==
  \/ BlockEntry(r)
  \/ ReadForUnblock(r) \/ Unblock(r)
  \/ ReadAddresses(r) \/ ReadPatterns(r) \/ Install(r)

-----------------------------------------------------------------------------

BlRows == [kind : Kind, entry : Entries]

BlTypeOK ==
  /\ blocked \in [Request -> BlRows \cup {Nil}]
  /\ snapshot \in Lists
  /\ current \in [Kind -> SUBSET Request]
  /\ newest \in [Kind -> SUBSET Request]

\* What is listed and not enforced, or enforced and not listed.
Lag(list, enforced) == (list \ enforced) \cup (enforced \ list)

\* The changes that what is enforced of a kind does not know of.
Unseen(k) == changed \ current[k]

\* The request has yet to refresh, or was lost before it could.
Unrefreshed(r) == h[r].pc \in {"ip", "url", "install", "lost"}

\* Something installed knew of the change: an older read has overtaken it.
Overtaken(r, k) == r \in newest[k] \ current[k]

\* What is enforced differs from what is listed by no more than one entry for
\* every change it does not know of, and it knows of every change but those
\* whose request has yet to refresh, or was lost before it could and nobody
\* has refreshed since ("a persisted-but-not-enforced entry"), and those that
\* an older read has put out of force again.
SnapshotTrails ==
  \A k \in Kind :
    Cardinality(Lag(Listed(k), snapshot[k]))
      <= Cardinality({r \in Unseen(k) : Unrefreshed(r) \/ Overtaken(r, k)})

\* Once every administrator has had the answer, what is listed is enforced.
SnapshotIsCurrent ==
  (\A r \in Request : h[r].pc \in {"idle", "done", "refused"})
    => \A k \in Kind : snapshot[k] = Listed(k)

=============================================================================
