------------------------------ MODULE Services ------------------------------
(* The smaller services of the server side by side.  No two of them share a  *)
(* row, so a behaviour is about one of them, the topic; what they have in    *)
(* common is the way of their requests and the audit log.                    *)
EXTENDS Namespaces, Blocklist, Accounts, Media, Listing

vars == <<shared, nsVars, blVars, acVars, mdVars, lsVars>>

Init ==
  /\ topic \in Topics
  /\ h = [r \in Request |-> Idle]
  /\ audit = {}
  /\ changed = {}
  /\ NsInit /\ BlInit /\ AcInit /\ MdInit /\ LsInit

NamespaceStep(r) == NsStep(r) /\ UNCHANGED <<topic, blVars, acVars, mdVars, lsVars>>

BlocklistStep(r) == BlStep(r) /\ UNCHANGED <<topic, nsVars, acVars, mdVars, lsVars>>

AccountStep(r) == AcStep(r) /\ UNCHANGED <<topic, nsVars, blVars, mdVars, lsVars>>

MediaStep(r) == MdStep(r) /\ UNCHANGED <<topic, nsVars, blVars, acVars, lsVars>>

ListingStep(r) == LsStep(r) /\ UNCHANGED <<topic, nsVars, blVars, acVars, mdVars>>

RequestStep(r) ==
  (Log(r) \/ Lose(r)) /\ UNCHANGED <<topic, nsVars, blVars, acVars, mdVars, lsVars>>

ServerStep ==
  /\ UNCHANGED topic
  /\ \/ Restart /\ UNCHANGED <<nsVars, acVars, mdVars, lsVars>>
     \/ (\E s \in SessionId : Expire(s)) /\ UNCHANGED <<nsVars, blVars, mdVars, lsVars>>
     \/ Tick /\ UNCHANGED <<nsVars, blVars, acVars, mdVars>>

Next ==
  \/ \E r \in Request :
       \/ NamespaceStep(r) \/ BlocklistStep(r) \/ AccountStep(r)
       \/ MediaStep(r) \/ ListingStep(r)
       \/ RequestStep(r)
  \/ ServerStep

Spec == Init /\ [][Next]_vars

-----------------------------------------------------------------------------

\* Every table, and every request, is of the kind the handlers expect.
TypeOK ==
  /\ audit \subseteq Request /\ changed \subseteq Request
  /\ NsTypeOK /\ BlTypeOK /\ AcTypeOK /\ MdTypeOK /\ LsTypeOK

\* The entry is a call of its own after the change, and made from what was read
\* before it; still, the log and the changes agree ("the audit log should match
\* real state transitions").  A change that has been answered with success is
\* in the log, save a revocation of a role that the request had read as not
\* held, and what is answered without its entry when the store refuses that.
\* An entry tells of a change its request made, save that roles are assigned
\* and revoked by requests that cannot tell.
LogMatchesChanges ==
  /\ \A r \in changed : h[r].pc = "done" =>
       \/ r \in audit
       \/ h[r].op = "revoke" /\ h[r].seen.role = Nil
       \/ Lossy /\ h[r].op \in {"register", "login", "logout"}
  /\ \A r \in audit : r \in changed \/ h[r].op \in {"assign", "revoke"}

=============================================================================
