-------------------------- MODULE Requests_proofs ---------------------------
(* What the theorems about the smaller services rest on: the handlers of     *)
(* requests stay well formed, and those of a behaviour are all of its topic, *)
(* so that a step is a step of one service.  Then the first two of those:    *)
(* partners stay partners and pages keep their namespace, and what a log-out, *)
(* an assignment and the row of the anonymous editor promise is kept.        *)
EXTENDS Services, TLAPS

-----------------------------------------------------------------------------
(* The state of a handler.                                                   *)

Handlers ==
  /\ DOMAIN h = Request
  /\ \A r \in Request :
       h[r] = [pc |-> h[r].pc, op |-> h[r].op, key |-> h[r].key, seen |-> h[r].seen]

\* A step of r leaves the other handlers alone.
Only(r) == \A q \in Request \ {r} : h'[q] = h[q]

\* A request that comes in.
LEMMA ArriveStep ==
  ASSUME Handlers, NEW r \in Request, NEW t, NEW op, NEW key, NEW pc, NEW seen,
         Arrive(r, t, op, key, pc, seen)
  PROVE  /\ Handlers' /\ Only(r) /\ topic = t /\ h[r].pc = "idle"
         /\ h'[r].pc = pc /\ h'[r].op = op /\ h'[r].key = key /\ h'[r].seen = seen
  BY DEF Handlers, Only, Arrive

\* A handler that goes on to another call.
LEMMA GoStep ==
  ASSUME Handlers, NEW r \in Request, NEW pc, Go(r, pc)
  PROVE  /\ Handlers' /\ Only(r)
         /\ h'[r].pc = pc /\ h'[r].op = h[r].op /\ h'[r].key = h[r].key
         /\ h'[r].seen = h[r].seen
  <1>1. h'[r] = [h[r] EXCEPT !.pc = pc]
    BY DEF Handlers, Go
  <1>2. h'[r] = [pc |-> pc, op |-> h[r].op, key |-> h[r].key, seen |-> h[r].seen]
    BY <1>1 DEF Handlers
  <1>3. QED
    BY <1>2 DEF Handlers, Only, Go

\* A handler that goes on with what it has read.
LEMMA GoWithStep ==
  ASSUME Handlers, NEW r \in Request, NEW pc, NEW seen, GoWith(r, pc, seen)
  PROVE  /\ Handlers' /\ Only(r)
         /\ h'[r].pc = pc /\ h'[r].op = h[r].op /\ h'[r].key = h[r].key
         /\ h'[r].seen = seen
  <1>1. h'[r] = [[h[r] EXCEPT !.pc = pc] EXCEPT !.seen = seen]
    BY DEF Handlers, GoWith
  <1>2. h'[r] = [pc |-> pc, op |-> h[r].op, key |-> h[r].key, seen |-> seen]
    BY <1>1 DEF Handlers
  <1>3. QED
    BY <1>2 DEF Handlers, Only, GoWith

-----------------------------------------------------------------------------
(* The operations of each service and where its handlers can be.             *)

NsOps == {"create", "seed", "rename", "delete", "page"}
NsPcs == {"reread", "insert", "rename", "check", "delete"}

BlOps == {"block", "unblock"}
BlPcs == {"unblock", "ip", "url", "install"}

AcOps ==
  {"register", "login", "logout", "logoutAll", "assign", "revoke",
   "createRole", "updateRole", "deleteRole", "edit"}
AcPcs == {"session", "authorise", "read", "write", "ensure", "insert", "log"}

MdOps == {"upload", "regenerate", "discard"}
MdPcs == {"row", "put", "cleanup", "clear", "object", "variant", "bytes", "objects"}

LsOps == {"add", "remove", "prune", "walk"}
LsPcs == {"insert", "slice"}

Serves(r, t, ops, pcs) ==
  /\ topic = t
  /\ h[r].op \in ops
  /\ h[r].pc \in pcs \cup {"log"} \cup Over

InService(r) ==
  \/ Serves(r, "namespaces", NsOps, NsPcs)
  \/ Serves(r, "blocklist", BlOps, BlPcs)
  \/ Serves(r, "accounts", AcOps, AcPcs)
  \/ Serves(r, "media", MdOps, MdPcs)
  \/ Serves(r, "listing", LsOps, LsPcs)

Served == \A r \in Request : h[r].pc = "idle" \/ InService(r)

\* A step of r that belongs to a service with these operations.
Moves(r, t, ops, pcs) ==
  /\ \/ topic = t /\ h[r].pc = "idle"
     \/ h[r].op \in ops /\ h[r].pc \in pcs
  /\ h'[r].op \in ops
  /\ h'[r].pc \in pcs \cup {"log"} \cup Over

\* These places are those of one service only.
LEMMA AccountPcs ==
  ASSUME Served, NEW r \in Request, h[r].pc = "authorise"
  PROVE  topic = "accounts" /\ h[r].op \in AcOps
  BY DEF Served, InService, Serves, Over, NsPcs, BlPcs, MdPcs, LsPcs

LEMMA MediaPcs ==
  ASSUME Served, NEW r \in Request, h[r].pc \in {"clear", "object", "variant"}
  PROVE  topic = "media" /\ h[r].op \in MdOps
  BY DEF Served, InService, Serves, Over, NsPcs, BlPcs, AcPcs, LsPcs

LEMMA BlocklistPcs ==
  ASSUME Served, NEW r \in Request, h[r].pc \in {"ip", "url", "install"}
  PROVE  topic = "blocklist" /\ h[r].op \in BlOps
  BY DEF Served, InService, Serves, Over, NsPcs, AcPcs, MdPcs, LsPcs

LEMMA NamespacesMove ==
  ASSUME Handlers, NEW r \in Request, NsStep(r)
  PROVE  Handlers' /\ Only(r) /\ Moves(r, "namespaces", NsOps, NsPcs)
  <1> USE DEF Only, Moves, At, Over, NsOps, NsPcs
  <1>1. CASE CreateNamespace(r)
    BY <1>1, ArriveStep DEF CreateNamespace
  <1>2. CASE Reread(r)
    BY <1>2, GoStep DEF Reread
  <1>3. CASE ReadForSeed(r)
    BY <1>3, ArriveStep DEF ReadForSeed
  <1>4. CASE Seed(r)
    BY <1>4, GoStep DEF Seed
  <1>5. CASE ReadForRename(r)
    BY <1>5, ArriveStep DEF ReadForRename
  <1>6. CASE Rename(r)
    BY <1>6, GoStep DEF Rename
  <1>7. CASE ReadForDelete(r)
    BY <1>7, ArriveStep DEF ReadForDelete
  <1>8. CASE CheckEmpty(r)
    BY <1>8, GoStep DEF CheckEmpty
  <1>9. CASE Delete(r)
    BY <1>9, GoStep DEF Delete
  <1>10. CASE ResolveForPage(r)
    BY <1>10, ArriveStep DEF ResolveForPage
  <1>11. CASE InsertPage(r)
    BY <1>11, GoStep DEF InsertPage
  <1>12. QED
    BY <1>1, <1>2, <1>3, <1>4, <1>5, <1>6, <1>7, <1>8, <1>9, <1>10, <1>11 DEF NsStep

LEMMA BlocklistMove ==
  ASSUME Handlers, Served, NEW r \in Request, BlStep(r)
  PROVE  Handlers' /\ Only(r) /\ Moves(r, "blocklist", BlOps, BlPcs)
  <1> USE DEF Only, Moves, At, Over, BlOps, BlPcs
  <1>1. CASE BlockEntry(r)
    BY <1>1, ArriveStep DEF BlockEntry
  <1>2. CASE ReadForUnblock(r)
    BY <1>2, ArriveStep DEF ReadForUnblock
  <1>3. CASE Unblock(r)
    BY <1>3, GoStep DEF Unblock
  <1>4. CASE ReadAddresses(r)
    BY <1>4, GoWithStep, BlocklistPcs DEF ReadAddresses
  <1>5. CASE ReadPatterns(r)
    BY <1>5, GoWithStep, BlocklistPcs DEF ReadPatterns
  <1>6. CASE Install(r)
    BY <1>6, GoStep, BlocklistPcs DEF Install
  <1>7. QED
    BY <1>1, <1>2, <1>3, <1>4, <1>5, <1>6 DEF BlStep

LEMMA AccountsMove ==
  ASSUME Handlers, Served, NEW r \in Request, AcStep(r)
  PROVE  Handlers' /\ Only(r) /\ Moves(r, "accounts", AcOps, AcPcs)
  <1> USE DEF Only, Moves, At, Over, AcOps, AcPcs
  <1>1. CASE Register(r)
    BY <1>1, ArriveStep DEF Register
  <1>2. CASE CheckPassword(r)
    BY <1>2, ArriveStep DEF CheckPassword
  <1>3. CASE OpenSession(r)
    BY <1>3, GoStep DEF OpenSession
  <1>4. CASE GoUnlogged(r)
    BY <1>4, GoStep DEF GoUnlogged
  <1>5. CASE Authenticate(r)
    BY <1>5, ArriveStep DEF Authenticate
  <1>6. CASE Authorise(r)
    BY <1>6, GoStep, AccountPcs DEF Authorise
  <1>7. CASE Logout(r)
    BY <1>7, GoStep DEF Logout
  <1>8. CASE LogoutAll(r)
    BY <1>8, GoStep DEF LogoutAll
  <1>9. CASE CreateRole(r)
    BY <1>9, GoStep DEF CreateRole
  <1>10. CASE ReadHeld(r)
    BY <1>10, GoStep, GoWithStep DEF ReadHeld, ReadRow
  <1>11. CASE Assign(r)
    BY <1>11, GoStep DEF Assign
  <1>12. CASE Revoke(r)
    BY <1>12, GoStep DEF Revoke
  <1>13. CASE ReadRole(r)
    BY <1>13, GoStep, GoWithStep DEF ReadRole, ReadRow
  <1>14. CASE UpdateRole(r)
    BY <1>14, GoStep DEF UpdateRole
  <1>15. CASE CountHolders(r)
    BY <1>15, GoStep DEF CountHolders
  <1>16. CASE DeleteRole(r)
    BY <1>16, GoStep DEF DeleteRole
  <1>17. CASE FindAnonymous(r)
    BY <1>17, ArriveStep DEF FindAnonymous
  <1>18. CASE EnsureAnonymous(r)
    BY <1>18, GoStep DEF EnsureAnonymous
  <1>19. CASE InsertEdit(r)
    BY <1>19, GoStep DEF InsertEdit
  <1>20. QED
    BY <1>1, <1>2, <1>3, <1>4, <1>5, <1>6, <1>7, <1>8, <1>9, <1>10, <1>11, <1>12, <1>13, <1>14, <1>15, <1>16, <1>17, <1>18, <1>19 DEF AcStep

LEMMA MediaMove ==
  ASSUME Handlers, Served, NEW r \in Request, MdStep(r)
  PROVE  Handlers' /\ Only(r) /\ Moves(r, "media", MdOps, MdPcs)
  <1> USE DEF Only, Moves, At, Over, MdOps, MdPcs
  <1>1. CASE LookForHash(r)
    BY <1>1, ArriveStep DEF LookForHash
  <1>2. CASE InsertMedia(r)
    BY <1>2, GoStep DEF InsertMedia
  <1>3. CASE PutBytes(r)
    BY <1>3, GoStep DEF PutBytes
  <1>4. CASE PutFails(r)
    BY <1>4, GoStep DEF PutFails
  <1>5. CASE Cleanup(r)
    BY <1>5, GoStep DEF Cleanup
  <1>6. CASE Fetch(r)
    BY <1>6, ArriveStep DEF Fetch
  <1>7. CASE ClearVariants(r)
    BY <1>7, GoStep, MediaPcs DEF ClearVariants
  <1>8. CASE PutObject(r)
    BY <1>8, GoStep, MediaPcs DEF PutObject
  <1>9. CASE PutVariant(r)
    BY <1>9, GoStep, MediaPcs DEF PutVariant
  <1>10. CASE FindMedia(r)
    BY <1>10, ArriveStep DEF FindMedia
  <1>11. CASE DeleteBytes(r)
    BY <1>11, GoStep DEF DeleteBytes
  <1>12. CASE DeleteObjects(r)
    BY <1>12, GoStep DEF DeleteObjects
  <1>13. CASE DeleteMedia(r)
    BY <1>13, GoStep DEF DeleteMedia
  <1>14. QED
    BY <1>1, <1>2, <1>3, <1>4, <1>5, <1>6, <1>7, <1>8, <1>9, <1>10, <1>11, <1>12, <1>13 DEF MdStep

LEMMA ListingMove ==
  ASSUME Handlers, NEW r \in Request, LsStep(r)
  PROVE  Handlers' /\ Only(r) /\ Moves(r, "listing", LsOps, LsPcs)
  <1> USE DEF Only, Moves, At, Over, LsOps, LsPcs
  <1>1. CASE Stamp(r)
    BY <1>1, ArriveStep DEF Stamp
  <1>2. CASE InsertRow(r)
    BY <1>2, GoStep DEF InsertRow
  <1>3. CASE RemoveRow(r)
    BY <1>3, ArriveStep DEF RemoveRow
  <1>4. CASE Prune(r)
    BY <1>4, ArriveStep DEF Prune
  <1>5. CASE StartWalk(r)
    BY <1>5, ArriveStep DEF StartWalk
  <1>6. CASE ReadSlice(r)
    BY <1>6, GoWithStep DEF ReadSlice
  <1>7. QED
    BY <1>1, <1>2, <1>3, <1>4, <1>5, <1>6 DEF LsStep

-----------------------------------------------------------------------------
(* Every step is a step of the topic.                                        *)

Ready == Handlers /\ Served

\* A step of a service is taken only when it is the topic, and leaves every
\* handler with the topic.
LEMMA NamespacesTopic ==
  ASSUME Ready, NEW r \in Request, NsStep(r), UNCHANGED topic
  PROVE  topic = "namespaces" /\ Ready'
  <1>1. Handlers' /\ Only(r) /\ Moves(r, "namespaces", NsOps, NsPcs)
    BY NamespacesMove DEF Ready
  <1>2. topic = "namespaces"
    BY <1>1 DEF Moves, Ready, Served, InService, Serves, NsPcs,
                   NsOps, BlOps, AcOps, MdOps, LsOps
  <1>3. Served'
    BY <1>1, <1>2 DEF Moves, Only, Ready, Served, InService, Serves
  <1>4. QED
    BY <1>1, <1>2, <1>3 DEF Ready

LEMMA BlocklistTopic ==
  ASSUME Ready, NEW r \in Request, BlStep(r), UNCHANGED topic
  PROVE  topic = "blocklist" /\ Ready'
  <1>1. Handlers' /\ Only(r) /\ Moves(r, "blocklist", BlOps, BlPcs)
    BY BlocklistMove DEF Ready
  <1>2. topic = "blocklist"
    BY <1>1 DEF Moves, Ready, Served, InService, Serves, BlPcs,
                   NsOps, BlOps, AcOps, MdOps, LsOps
  <1>3. Served'
    BY <1>1, <1>2 DEF Moves, Only, Ready, Served, InService, Serves
  <1>4. QED
    BY <1>1, <1>2, <1>3 DEF Ready

LEMMA AccountsTopic ==
  ASSUME Ready, NEW r \in Request, AcStep(r), UNCHANGED topic
  PROVE  topic = "accounts" /\ Ready'
  <1>1. Handlers' /\ Only(r) /\ Moves(r, "accounts", AcOps, AcPcs)
    BY AccountsMove DEF Ready
  <1>2. topic = "accounts"
    BY <1>1 DEF Moves, Ready, Served, InService, Serves, AcPcs,
                   NsOps, BlOps, AcOps, MdOps, LsOps
  <1>3. Served'
    BY <1>1, <1>2 DEF Moves, Only, Ready, Served, InService, Serves
  <1>4. QED
    BY <1>1, <1>2, <1>3 DEF Ready

LEMMA MediaTopic ==
  ASSUME Ready, NEW r \in Request, MdStep(r), UNCHANGED topic
  PROVE  topic = "media" /\ Ready'
  <1>1. Handlers' /\ Only(r) /\ Moves(r, "media", MdOps, MdPcs)
    BY MediaMove DEF Ready
  <1>2. topic = "media"
    BY <1>1 DEF Moves, Ready, Served, InService, Serves, MdPcs,
                   NsOps, BlOps, AcOps, MdOps, LsOps
  <1>3. Served'
    BY <1>1, <1>2 DEF Moves, Only, Ready, Served, InService, Serves
  <1>4. QED
    BY <1>1, <1>2, <1>3 DEF Ready

LEMMA ListingTopic ==
  ASSUME Ready, NEW r \in Request, LsStep(r), UNCHANGED topic
  PROVE  topic = "listing" /\ Ready'
  <1>1. Handlers' /\ Only(r) /\ Moves(r, "listing", LsOps, LsPcs)
    BY ListingMove DEF Ready
  <1>2. topic = "listing"
    BY <1>1 DEF Moves, Ready, Served, InService, Serves, LsPcs,
                   NsOps, BlOps, AcOps, MdOps, LsOps
  <1>3. Served'
    BY <1>1, <1>2 DEF Moves, Only, Ready, Served, InService, Serves
  <1>4. QED
    BY <1>1, <1>2, <1>3 DEF Ready

\* So are the entry in the audit log and the loss of a request.
LEMMA RequestTopic ==
  ASSUME Ready, NEW r \in Request, Log(r) \/ Lose(r), UNCHANGED topic
  PROVE  /\ Ready' /\ Only(r)
         /\ h[r].pc # "idle" /\ h'[r].pc \in {"done", "lost"}
         /\ h'[r].op = h[r].op /\ h'[r].key = h[r].key /\ h'[r].seen = h[r].seen
  <1>1. h[r].pc # "idle" /\ \E pc \in {"done", "lost"} : Go(r, pc)
    BY DEF Log, Lose, InFlight
  <1>2. /\ Handlers' /\ Only(r) /\ h'[r].pc \in {"done", "lost"}
        /\ h'[r].op = h[r].op /\ h'[r].key = h[r].key /\ h'[r].seen = h[r].seen
    BY <1>1, GoStep DEF Ready
  <1>3. Served'
    BY <1>1, <1>2 DEF Only, Ready, Served, InService, Serves, Over
  <1>4. QED
    BY <1>1, <1>2, <1>3 DEF Ready

\* A restart loses every request that is being served.
LEMMA RestartTopic ==
  ASSUME Ready, Restart, UNCHANGED topic
  PROVE  /\ Ready' /\ topic = "blocklist"
         /\ \A r \in Request :
              /\ InFlight(r) => h'[r].pc = "lost" /\ h'[r].op = h[r].op
              /\ ~InFlight(r) => h'[r] = h[r]
  <1>1. ASSUME NEW r \in Request, InFlight(r)
        PROVE  h'[r] = [pc |-> "lost", op |-> h[r].op, key |-> h[r].key, seen |-> h[r].seen]
    <2>1. h[r] = [pc |-> h[r].pc, op |-> h[r].op, key |-> h[r].key, seen |-> h[r].seen]
      BY DEF Ready, Handlers
    <2>2. h'[r] = [h[r] EXCEPT !.pc = "lost"]
      BY <1>1 DEF Restart
    <2>3. QED
      BY <2>1, <2>2
  <1>2. ASSUME NEW r \in Request, ~InFlight(r)
        PROVE  h'[r] = h[r]
    BY <1>2 DEF Restart
  <1>3. Handlers'
    <2>1. DOMAIN h' = Request
      BY DEF Restart
    <2>2. ASSUME NEW r \in Request
          PROVE  h'[r] = [pc |-> h'[r].pc, op |-> h'[r].op, key |-> h'[r].key,
                          seen |-> h'[r].seen]
      <3>1. CASE InFlight(r)
        <4>1. h'[r] = [pc |-> "lost", op |-> h[r].op, key |-> h[r].key, seen |-> h[r].seen]
          BY <1>1, <3>1
        <4>2. QED
          BY <4>1
      <3>2. CASE ~InFlight(r)
        BY <1>2, <3>2 DEF Ready, Handlers
      <3>3. QED
        BY <3>1, <3>2
    <2>3. QED
      BY <2>1, <2>2 DEF Handlers
  <1>4. Served'
    <2> SUFFICES ASSUME NEW r \in Request, h'[r].pc # "idle"
                 PROVE  InService(r)'
      BY DEF Served
    <2>1. CASE InFlight(r)
      <3>1. h'[r].pc = "lost" /\ h'[r].op = h[r].op
        <4>1. h'[r] = [pc |-> "lost", op |-> h[r].op, key |-> h[r].key, seen |-> h[r].seen]
          BY <1>1, <2>1
        <4>2. QED
          BY <4>1
      <3>2. h[r].pc # "idle" /\ InService(r)
        BY <2>1 DEF Ready, Served, InFlight
      <3>3. QED
        BY <3>1, <3>2 DEF InService, Serves, Over
    <2>2. CASE ~InFlight(r)
      BY <1>2, <2>2 DEF Ready, Served, InService, Serves
    <2>3. QED
      BY <2>1, <2>2
  <1>5. QED
    BY <1>1, <1>2, <1>3, <1>4 DEF Ready, Restart

LEMMA ReadyInit == Init => Ready
  BY DEF Init, Idle, Ready, Handlers, Served

LEMMA ReadyNext == Ready /\ [Next]_vars => Ready'
  <1> SUFFICES ASSUME Ready, [Next]_vars
               PROVE  Ready'
    OBVIOUS
  <1>1. ASSUME NEW r \in Request, NamespaceStep(r)
        PROVE  Ready'
    BY <1>1, NamespacesTopic DEF NamespaceStep
  <1>2. ASSUME NEW r \in Request, BlocklistStep(r)
        PROVE  Ready'
    BY <1>2, BlocklistTopic DEF BlocklistStep
  <1>3. ASSUME NEW r \in Request, AccountStep(r)
        PROVE  Ready'
    BY <1>3, AccountsTopic DEF AccountStep
  <1>4. ASSUME NEW r \in Request, MediaStep(r)
        PROVE  Ready'
    BY <1>4, MediaTopic DEF MediaStep
  <1>5. ASSUME NEW r \in Request, ListingStep(r)
        PROVE  Ready'
    BY <1>5, ListingTopic DEF ListingStep
  <1>6. ASSUME NEW r \in Request, RequestStep(r)
        PROVE  Ready'
    BY <1>6, RequestTopic DEF RequestStep
  <1>7. CASE ServerStep
    <2>1. ASSUME UNCHANGED <<h, topic>>
          PROVE  Ready'
      BY <2>1 DEF Ready, Handlers, Served, InService, Serves
    <2>2. QED
      BY <1>7, <2>1, RestartTopic DEF ServerStep, Expire, Tick
  <1>8. CASE UNCHANGED vars
    BY <1>8 DEF vars, shared, Ready, Handlers, Served, InService, Serves
  <1>9. QED
    BY <1>1, <1>2, <1>3, <1>4, <1>5, <1>6, <1>7, <1>8 DEF Next

\* In every behaviour of the smaller services, the handlers are well formed
\* and at a call of the service that the behaviour is about.
THEOREM HandlersReady == Spec => []Ready
  BY ReadyInit, ReadyNext, PTL DEF Spec


-----------------------------------------------------------------------------
(* The inductive invariant.                                                  *)

\* The ids that r makes name nothing yet.
Unused(r) == namespace[<<r, "own">>] = Nil /\ namespace[<<r, "talk">>] = Nil

\* What a handler holds, depending on where it is.
NsHolds(r) ==
  /\ h[r].pc = "idle" \/ At(r, "seed", "insert") => Unused(r)
  /\ h[r].pc # "idle" /\ h[r].op \in {"rename", "delete", "page"} => h[r].key \in NsId
  /\ At(r, "seed", "insert") => h[r].seen \in Slug

NsInv ==
  /\ NsTypeOK
  /\ PairingIsMutual
  /\ PagesKeepNamespace
  /\ topic = "namespaces" => \A r \in Request : NsHolds(r)

-----------------------------------------------------------------------------
(* Rows.                                                                     *)

LEMMA RowPaired ==
  ASSUME NEW x \in NsRows, NEW p \in NsId \cup {Nil}
  PROVE  /\ [x EXCEPT !.paired = p] \in NsRows
         /\ [x EXCEPT !.paired = p].slug = x.slug
         /\ [x EXCEPT !.paired = p].is_talk = x.is_talk
         /\ [x EXCEPT !.paired = p].paired = p
  BY DEF NsRows

LEMMA RowRenamed ==
  ASSUME NEW x \in NsRows, NEW d \in Request
  PROVE  /\ [x EXCEPT !.display = d] \in NsRows
         /\ [x EXCEPT !.display = d].slug = x.slug
         /\ [x EXCEPT !.display = d].is_talk = x.is_talk
         /\ [x EXCEPT !.display = d].paired = x.paired
  BY DEF NsRows

\* A row that is there is a row.
LEMMA RowThere ==
  ASSUME NsTypeOK, NEW n \in NsId, Exists(n)
  PROVE  namespace[n] \in NsRows
  BY DEF NsTypeOK, Exists

-----------------------------------------------------------------------------
(* What the statements do to the table.                                      *)

\* The rows of r are the only ones that a step of r adds.
OnlyAdds(r) ==
  \A n \in NsId : namespace'[n] # Nil => namespace[n] # Nil \/ n[1] = r

NsSafe == NsTypeOK /\ PairingIsMutual /\ PagesKeepNamespace

LEMMA NewTalkSafe ==
  ASSUME NsSafe, NEW r \in Request, Unused(r),
         NEW s \in Slug, s + 1 \in Slug, namespace' = WithNewTalk(r, s),
         UNCHANGED housed
  PROVE  NsSafe' /\ OnlyAdds(r)
  <1> DEFINE own == <<r, "own">>
             talk == <<r, "talk">>
             subject == NsRow(s, r, FALSE, talk)
             beside == NsRow(s + 1, r, TRUE, own)
  <1>1. own \in NsId /\ talk \in NsId /\ own # talk
    BY DEF NsId
  <1>2. /\ subject \in NsRows /\ subject.slug = s /\ subject.is_talk = FALSE
        /\ subject.paired = talk
        /\ beside \in NsRows /\ beside.slug = s + 1 /\ beside.paired = own
    BY <1>1 DEF NsRow, NsRows
  <1>3. /\ namespace \in [NsId -> NsRows \cup {Nil}]
        /\ namespace' = [namespace EXCEPT ![own] = subject, ![talk] = beside]
    BY DEF NsSafe, NsTypeOK, WithNewTalk
  <1>4. namespace[own] = Nil /\ namespace[talk] = Nil
    BY DEF Unused
  <1>5. own[1] = r /\ talk[1] = r
    OBVIOUS
  <1>6. s \in Nat /\ s + 1 \in Nat /\ s = (s + 1) - 1
    BY NamespacesAssumption DEF Slug
  <1> HIDE DEF own, talk, subject, beside
  <1>7. /\ namespace'[own] = subject /\ namespace'[talk] = beside
        /\ \A n \in NsId \ {own, talk} : namespace'[n] = namespace[n]
        /\ namespace' \in [NsId -> NsRows \cup {Nil}]
    BY <1>1, <1>2, <1>3
  <1>8. subject # Nil /\ beside # Nil
    BY <1>2, NamespacesAssumption
  <1>9. NsTypeOK'
    BY <1>7 DEF NsSafe, NsTypeOK
  <1>10. PagesKeepNamespace'
    BY <1>7, <1>8 DEF NsSafe, PagesKeepNamespace, NsTypeOK, Exists
  <1>11. PairingIsMutual'
    <2> SUFFICES ASSUME NEW n \in NsId, Exists(n)', namespace'[n].paired # Nil,
                        NEW m, m = namespace'[n].paired
                 PROVE  /\ namespace'[m] # Nil /\ namespace'[m].paired = n
                        /\ namespace'[m].slug \in {namespace'[n].slug - 1, namespace'[n].slug + 1}
                        /\ namespace'[n].is_talk => ~namespace'[m].is_talk
      BY DEF PairingIsMutual, Exists
    <2>1. CASE n = own
      BY <1>1, <1>2, <1>6, <1>7, <1>8, <2>1
    <2>2. CASE n = talk
      BY <1>1, <1>2, <1>6, <1>7, <1>8, <2>2
    <2>3. CASE n \notin {own, talk}
      <3>1. /\ namespace[n] # Nil /\ m = namespace[n].paired /\ m # Nil
            /\ namespace[n] = namespace'[n] /\ namespace[n] \in NsRows
        BY <1>7, <2>3 DEF Exists
      <3>2. /\ namespace[m] # Nil /\ namespace[m].paired = n
            /\ namespace[m].slug \in {namespace[n].slug - 1, namespace[n].slug + 1}
            /\ namespace[n].is_talk => ~namespace[m].is_talk
        BY <3>1 DEF NsSafe, PairingIsMutual, Exists
      <3>3. m \in NsId \ {own, talk}
        BY <1>4, <3>1, <3>2 DEF NsRows
      <3>4. QED
        BY <1>7, <3>1, <3>2, <3>3
    <2>4. QED
      BY <2>1, <2>2, <2>3
  <1>12. OnlyAdds(r)
    BY <1>5, <1>7 DEF OnlyAdds
  <1>13. QED
    BY <1>9, <1>10, <1>11, <1>12 DEF NsSafe

LEMMA OverExistingSafe ==
  ASSUME NsSafe, NEW r \in Request, Unused(r),
         NEW s \in Slug, NEW e \in Named(s + 1), namespace' = OverExisting(r, s, e),
         UniquePairs(namespace'), UNCHANGED housed
  PROVE  NsSafe' /\ OnlyAdds(r)
  <1> DEFINE own == <<r, "own">>
             subject == NsRow(s, r, FALSE, e)
             below == [namespace[e] EXCEPT !.paired = IF @ = Nil THEN own ELSE @]
  <1>1. own \in NsId /\ namespace[own] = Nil /\ own[1] = r
    BY DEF NsId, Unused
  <1>2. /\ e \in NsId /\ Exists(e) /\ namespace[e] \in NsRows /\ namespace[e].slug = s + 1
        /\ e # own
    BY <1>1, RowThere DEF Named, Exists, NsSafe
  <1>3. /\ subject \in NsRows /\ subject.slug = s /\ subject.is_talk = FALSE
        /\ subject.paired = e
    BY <1>1, <1>2 DEF NsRow, NsRows
  <1>4. /\ below \in NsRows /\ below.slug = s + 1
        /\ below.paired = IF namespace[e].paired = Nil THEN own ELSE namespace[e].paired
    <2>1. namespace[e].paired \in NsId \cup {Nil}
      BY <1>2 DEF NsRows
    <2>2. QED
      BY <1>1, <1>2, <2>1, RowPaired
  <1>5. /\ namespace \in [NsId -> NsRows \cup {Nil}]
        /\ namespace' = [namespace EXCEPT ![own] = subject, ![e] = below]
    BY <1>2 DEF NsSafe, NsTypeOK, OverExisting
  <1>6. s \in Nat /\ s + 1 \in Nat /\ s = (s + 1) - 1
    BY NamespacesAssumption DEF Slug
  <1> HIDE DEF own, subject, below
  <1>7. /\ namespace'[own] = subject /\ namespace'[e] = below
        /\ \A n \in NsId \ {own, e} : namespace'[n] = namespace[n]
        /\ namespace' \in [NsId -> NsRows \cup {Nil}]
    BY <1>1, <1>2, <1>3, <1>4, <1>5
  <1>8. subject # Nil /\ below # Nil
    BY <1>3, <1>4, NamespacesAssumption
  <1>9. NsTypeOK'
    BY <1>7 DEF NsSafe, NsTypeOK
  <1>10. PagesKeepNamespace'
    BY <1>7, <1>8 DEF NsSafe, PagesKeepNamespace, NsTypeOK, Exists
  \* Were it a partner of another, the index on the pairing would refuse it.
  <1>11. namespace[e].paired = Nil
    <2> SUFFICES ASSUME namespace[e].paired # Nil
                 PROVE  FALSE
      OBVIOUS
    <2> DEFINE x == namespace[e].paired
    <2>1. x \in NsId /\ Exists(x) /\ namespace[x].paired = e
      BY <1>2 DEF NsSafe, PairingIsMutual, NsRows
    <2> HIDE DEF x
    <2>2. x # own
      BY <1>1, <2>1 DEF Exists
    <2>3. namespace'[x] # Nil /\ namespace'[x].paired = e
      <3>1. CASE x = e
        BY <1>4, <1>7, <1>8, <2>1, <3>1 DEF x
      <3>2. CASE x # e
        BY <1>7, <2>1, <2>2, <3>2 DEF Exists
      <3>3. QED
        BY <3>1, <3>2
    <2>4. e # Nil
      BY <1>2, NamespacesAssumption
    <2>5. QED
      BY <1>1, <1>3, <1>7, <1>8, <2>1, <2>2, <2>3, <2>4 DEF UniquePairs
  <1>12. PairingIsMutual'
    <2> SUFFICES ASSUME NEW n \in NsId, Exists(n)', namespace'[n].paired # Nil,
                        NEW m, m = namespace'[n].paired
                 PROVE  /\ namespace'[m] # Nil /\ namespace'[m].paired = n
                        /\ namespace'[m].slug \in {namespace'[n].slug - 1, namespace'[n].slug + 1}
                        /\ namespace'[n].is_talk => ~namespace'[m].is_talk
      BY DEF PairingIsMutual, Exists
    <2>1. CASE n = own
      BY <1>1, <1>3, <1>4, <1>6, <1>7, <1>8, <1>11, <2>1
    <2>2. CASE n = e
      BY <1>2, <1>3, <1>4, <1>6, <1>7, <1>8, <1>11, <2>2
    <2>3. CASE n \notin {own, e}
      <3>1. /\ namespace[n] # Nil /\ m = namespace[n].paired /\ m # Nil
            /\ namespace[n] = namespace'[n] /\ namespace[n] \in NsRows
        BY <1>7, <2>3 DEF Exists
      <3>2. /\ namespace[m] # Nil /\ namespace[m].paired = n
            /\ namespace[m].slug \in {namespace[n].slug - 1, namespace[n].slug + 1}
            /\ namespace[n].is_talk => ~namespace[m].is_talk
        BY <3>1 DEF NsSafe, PairingIsMutual, Exists
      <3>3. n # Nil
        BY NamespacesAssumption
      <3>4. m \in NsId \ {own, e}
        BY <1>1, <1>11, <3>1, <3>2, <3>3 DEF NsRows
      <3>5. QED
        BY <1>7, <3>1, <3>2, <3>4
    <2>4. QED
      BY <2>1, <2>2, <2>3
  <1>13. OnlyAdds(r)
    BY <1>1, <1>2, <1>7 DEF OnlyAdds, Exists
  <1>14. QED
    BY <1>9, <1>10, <1>12, <1>13 DEF NsSafe

LEMMA InsertSafe ==
  ASSUME NsSafe, NEW r \in Request, Unused(r), NEW s \in Slug, Insert(r, s),
         UNCHANGED housed
  PROVE  NsSafe' /\ OnlyAdds(r)
  BY NewTalkSafe, OverExistingSafe DEF Insert

LEMMA RenameSafe ==
  ASSUME NsSafe, NEW r \in Request, NEW n \in NsId, Exists(n),
         namespace' = [namespace EXCEPT ![n].display = r], UNCHANGED housed
  PROVE  NsSafe' /\ OnlyAdds(r)
  <1> DEFINE row == [namespace[n] EXCEPT !.display = r]
  <1>1. /\ row \in NsRows /\ row.slug = namespace[n].slug
        /\ row.is_talk = namespace[n].is_talk /\ row.paired = namespace[n].paired
    BY RowThere, RowRenamed DEF NsSafe
  <1>2. /\ namespace \in [NsId -> NsRows \cup {Nil}]
        /\ namespace' = [namespace EXCEPT ![n] = row]
    BY DEF NsSafe, NsTypeOK
  <1> HIDE DEF row
  <1>3. /\ namespace'[n] = row /\ \A m \in NsId \ {n} : namespace'[m] = namespace[m]
        /\ namespace' \in [NsId -> NsRows \cup {Nil}]
    BY <1>1, <1>2
  <1>4. row # Nil
    BY <1>1, NamespacesAssumption
  <1>5. \A m \in NsId :
          /\ namespace'[m] # Nil <=> namespace[m] # Nil
          /\ namespace'[m].slug = namespace[m].slug
          /\ namespace'[m].is_talk = namespace[m].is_talk
          /\ namespace'[m].paired = namespace[m].paired
    BY <1>1, <1>3, <1>4 DEF Exists
  <1>6. NsTypeOK'
    BY <1>3 DEF NsSafe, NsTypeOK
  <1>7. PagesKeepNamespace'
    BY <1>5 DEF NsSafe, PagesKeepNamespace, NsTypeOK, Exists
  <1>8. PairingIsMutual'
    <2> SUFFICES ASSUME NEW x \in NsId, Exists(x)', namespace'[x].paired # Nil,
                        NEW m, m = namespace'[x].paired
                 PROVE  /\ namespace'[m] # Nil /\ namespace'[m].paired = x
                        /\ namespace'[m].slug \in {namespace'[x].slug - 1, namespace'[x].slug + 1}
                        /\ namespace'[x].is_talk => ~namespace'[m].is_talk
      BY DEF PairingIsMutual, Exists
    <2>1. /\ namespace[x] # Nil /\ m = namespace[x].paired /\ m # Nil
          /\ namespace[x] \in NsRows
      BY <1>5 DEF Exists, NsSafe, NsTypeOK
    <2>2. /\ namespace[m] # Nil /\ namespace[m].paired = x
          /\ namespace[m].slug \in {namespace[x].slug - 1, namespace[x].slug + 1}
          /\ namespace[x].is_talk => ~namespace[m].is_talk
      BY <2>1 DEF NsSafe, PairingIsMutual, Exists
    <2>3. m \in NsId
      BY <2>1 DEF NsRows
    <2>4. QED
      BY <1>5, <2>1, <2>2, <2>3
  <1>9. QED
    BY <1>5, <1>6, <1>7, <1>8 DEF NsSafe, OnlyAdds

\* The partner of a namespace that goes is single again.
LEMMA WithoutSafe ==
  ASSUME NsSafe, NEW r \in Request, NEW n \in NsId, PagesIn(n) = {},
         namespace' = Without(n), UNCHANGED housed
  PROVE  NsSafe' /\ OnlyAdds(r)
  <1>1. ASSUME NEW m \in NsId, Exists(m)
        PROVE  /\ [namespace[m] EXCEPT !.paired = Nil] \in NsRows
               /\ [namespace[m] EXCEPT !.paired = Nil].paired = Nil
    BY <1>1, RowThere, RowPaired DEF NsSafe
  <1>2. ASSUME NEW m \in NsId
        PROVE  /\ m = n => namespace'[m] = Nil
               /\ m # n /\ Exists(m) /\ namespace[m].paired = n =>
                    namespace'[m] \in NsRows /\ namespace'[m].paired = Nil
               /\ m # n /\ ~(Exists(m) /\ namespace[m].paired = n) =>
                    namespace'[m] = namespace[m]
    <2>1. CASE m = n
      BY <2>1 DEF Without
    <2>2. CASE m # n /\ Exists(m) /\ namespace[m].paired = n
      <3> DEFINE row == [namespace[m] EXCEPT !.paired = Nil]
      <3>1. namespace'[m] = row
        BY <2>2 DEF Without
      <3>2. row \in NsRows /\ row.paired = Nil
        BY <1>1, <2>2
      <3> HIDE DEF row
      <3>3. QED
        BY <2>2, <3>1, <3>2
    <2>3. CASE m # n /\ ~(Exists(m) /\ namespace[m].paired = n)
      BY <2>3 DEF Without
    <2>4. QED
      BY <2>1, <2>2, <2>3
  <1>3. NsTypeOK'
    <2>1. ASSUME NEW m \in NsId
          PROVE  namespace'[m] \in NsRows \cup {Nil}
      BY <1>2 DEF NsSafe, NsTypeOK
    <2>2. DOMAIN namespace' = NsId /\ namespace' = [m \in NsId |-> namespace'[m]]
      BY DEF Without
    <2>3. QED
      BY <2>1, <2>2 DEF NsSafe, NsTypeOK
  <1>4. PagesKeepNamespace'
    <2> SUFFICES ASSUME NEW p \in Request, housed[p] # Nil
                 PROVE  namespace'[housed[p]] # Nil
      BY DEF PagesKeepNamespace, Exists
    <2>1. housed[p] \in NsId /\ housed[p] # n /\ Exists(housed[p])
      BY DEF NsSafe, NsTypeOK, PagesKeepNamespace, PagesIn
    <2>2. QED
      BY <1>2, <2>1, NamespacesAssumption DEF Exists
  <1>5. PairingIsMutual'
    <2> SUFFICES ASSUME NEW x \in NsId, Exists(x)', namespace'[x].paired # Nil,
                        NEW m, m = namespace'[x].paired
                 PROVE  /\ namespace'[m] # Nil /\ namespace'[m].paired = x
                        /\ namespace'[m].slug \in {namespace'[x].slug - 1, namespace'[x].slug + 1}
                        /\ namespace'[x].is_talk => ~namespace'[m].is_talk
      BY DEF PairingIsMutual, Exists
    <2>1. x # n /\ namespace'[x] = namespace[x] /\ namespace[x].paired # n
      BY <1>2 DEF Exists
    <2>2. /\ namespace[x] # Nil /\ m = namespace[x].paired /\ m # Nil
          /\ namespace[x] \in NsRows
      BY <2>1 DEF Exists, NsSafe, NsTypeOK
    <2>3. /\ namespace[m] # Nil /\ namespace[m].paired = x
          /\ namespace[m].slug \in {namespace[x].slug - 1, namespace[x].slug + 1}
          /\ namespace[x].is_talk => ~namespace[m].is_talk
      BY <2>2 DEF NsSafe, PairingIsMutual, Exists
    <2>4. m \in NsId /\ m # n
      BY <2>1, <2>2 DEF NsRows
    <2>5. namespace'[m] = namespace[m]
      BY <1>2, <2>1, <2>3, <2>4
    <2>6. QED
      BY <2>1, <2>2, <2>3, <2>5
  <1>6. OnlyAdds(r)
    BY <1>2 DEF OnlyAdds, Exists
  <1>7. QED
    BY <1>3, <1>4, <1>5, <1>6 DEF NsSafe

\* A page goes only into a namespace that is there.
LEMMA HouseSafe ==
  ASSUME NsSafe, NEW r \in Request, NEW n \in NsId, Exists(n),
         housed' = [housed EXCEPT ![r] = n], UNCHANGED namespace
  PROVE  NsSafe' /\ OnlyAdds(r)
  BY DEF NsSafe, NsTypeOK, PairingIsMutual, PagesKeepNamespace, OnlyAdds, Exists

LEMMA SameTablesSafe ==
  ASSUME NsSafe, NEW r \in Request, UNCHANGED nsVars
  PROVE  NsSafe' /\ OnlyAdds(r)
  BY DEF NsSafe, NsTypeOK, PairingIsMutual, PagesKeepNamespace, OnlyAdds, Exists, nsVars

-----------------------------------------------------------------------------
(* Every step keeps the invariant.                                           *)

LEMMA NamespaceInit == Init => NsInv
  BY DEF Init, NsInit, Idle, NsInv, NsTypeOK, PairingIsMutual, PagesKeepNamespace,
         Exists, NsHolds, At, Unused, NsId

LEMMA NamespaceStepSafe ==
  ASSUME NsSafe, Ready, NEW r \in Request, NsHolds(r), NsStep(r)
  PROVE  NsSafe' /\ OnlyAdds(r) /\ NsHolds(r)'
  <1> USE DEF NsHolds, At, Ready
  <1>1. CASE CreateNamespace(r)
    <2>1. PICK s \in Slug :
            /\ Arrive(r, "namespaces", "create", <<r, "own">>, "reread", Nil)
            /\ Insert(r, s)
      BY <1>1 DEF CreateNamespace
    <2>2. h[r].pc = "idle" /\ NsHolds(r)'
      BY <2>1, ArriveStep
    <2>3. UNCHANGED housed
      BY <1>1 DEF CreateNamespace
    <2>4. QED
      BY <2>1, <2>2, <2>3, InsertSafe
  <1>2. CASE Reread(r)
    <2>1. UNCHANGED nsVars
      BY <1>2 DEF Reread, nsVars
    <2>2. NsHolds(r)'
      BY <1>2, GoStep DEF Reread
    <2>3. QED
      BY <2>1, <2>2, SameTablesSafe
  <1>3. CASE ReadForSeed(r)
    <2>1. UNCHANGED nsVars
      BY <1>3 DEF ReadForSeed, nsVars
    <2>2. NsHolds(r)'
      <3>1. PICK s \in Slug : Arrive(r, "namespaces", "seed", Nil, "insert", s)
        BY <1>3 DEF ReadForSeed
      <3>2. h[r].pc = "idle" /\ h'[r].op = "seed" /\ h'[r].pc = "insert" /\ h'[r].seen = s
        BY <3>1, ArriveStep
      <3>3. Unused(r) /\ Unused(r)'
        BY <2>1, <3>2 DEF Unused, nsVars
      <3>4. QED
        BY <3>2, <3>3
    <2>3. QED
      BY <2>1, <2>2, SameTablesSafe
  <1>4. CASE Seed(r)
    <2>1. h[r].seen \in Slug /\ Unused(r)
      BY <1>4 DEF Seed
    <2>2. NsHolds(r)'
      BY <1>4, GoStep DEF Seed
    <2>3. UNCHANGED housed /\ (Insert(r, h[r].seen) \/ UNCHANGED namespace)
      BY <1>4 DEF Seed
    <2>4. QED
      BY <2>1, <2>2, <2>3, InsertSafe, SameTablesSafe DEF nsVars
  <1>5. CASE ReadForRename(r)
    <2>1. UNCHANGED nsVars
      BY <1>5 DEF ReadForRename, nsVars
    <2>2. NsHolds(r)'
      BY <1>5, <2>1, ArriveStep DEF ReadForRename, nsVars
    <2>3. QED
      BY <2>1, <2>2, SameTablesSafe
  <1>6. CASE Rename(r)
    <2>1. h[r].key \in NsId /\ UNCHANGED housed
      BY <1>6 DEF Rename
    <2>2. NsHolds(r)'
      BY <1>6, <2>1, GoStep DEF Rename
    <2>3. \/ /\ Exists(h[r].key)
             /\ namespace' = [namespace EXCEPT ![h[r].key].display = r]
          \/ UNCHANGED namespace
      BY <1>6 DEF Rename
    <2>4. QED
      BY <2>1, <2>2, <2>3, RenameSafe, SameTablesSafe DEF nsVars
  <1>7. CASE ReadForDelete(r)
    <2>1. UNCHANGED nsVars
      BY <1>7 DEF ReadForDelete, nsVars
    <2>2. NsHolds(r)'
      BY <1>7, <2>1, ArriveStep DEF ReadForDelete, nsVars
    <2>3. QED
      BY <2>1, <2>2, SameTablesSafe
  <1>8. CASE CheckEmpty(r)
    <2>1. UNCHANGED nsVars
      BY <1>8 DEF CheckEmpty, nsVars
    <2>2. NsHolds(r)'
      BY <1>8, GoStep DEF CheckEmpty
    <2>3. QED
      BY <2>1, <2>2, SameTablesSafe
  <1>9. CASE Delete(r)
    <2>1. h[r].key \in NsId /\ UNCHANGED housed
      BY <1>9 DEF Delete
    <2>2. NsHolds(r)'
      BY <1>9, <2>1, GoStep DEF Delete
    <2>3. \/ PagesIn(h[r].key) = {} /\ namespace' = Without(h[r].key)
          \/ UNCHANGED namespace
      BY <1>9 DEF Delete
    <2>4. QED
      BY <2>1, <2>2, <2>3, WithoutSafe, SameTablesSafe DEF nsVars
  <1>10. CASE ResolveForPage(r)
    <2>1. UNCHANGED nsVars
      BY <1>10 DEF ResolveForPage, nsVars
    <2>2. NsHolds(r)'
      BY <1>10, <2>1, ArriveStep DEF ResolveForPage, nsVars
    <2>3. QED
      BY <2>1, <2>2, SameTablesSafe
  <1>11. CASE InsertPage(r)
    <2>1. h[r].key \in NsId /\ UNCHANGED namespace
      BY <1>11 DEF InsertPage
    <2>2. NsHolds(r)'
      BY <1>11, <2>1, GoStep DEF InsertPage
    <2>3. \/ Exists(h[r].key) /\ housed' = [housed EXCEPT ![r] = h[r].key]
          \/ UNCHANGED housed
      BY <1>11 DEF InsertPage
    <2>4. QED
      BY <2>1, <2>2, <2>3, HouseSafe, SameTablesSafe DEF nsVars
  <1>12. QED
    BY <1>1, <1>2, <1>3, <1>4, <1>5, <1>6, <1>7, <1>8, <1>9, <1>10, <1>11 DEF NsStep

\* The others keep what they hold: what is added is named after r.
LEMMA OthersHold ==
  ASSUME NEW r \in Request, Only(r), OnlyAdds(r), NEW q \in Request \ {r}, NsHolds(q)
  PROVE  NsHolds(q)'
  <1>1. <<q, "own">> \in NsId /\ <<q, "talk">> \in NsId
    BY DEF NsId
  <1>2. <<q, "own">>[1] # r /\ <<q, "talk">>[1] # r
    OBVIOUS
  <1>3. h'[q] = h[q]
    BY DEF Only
  <1>4. Unused(q) => Unused(q)'
    BY <1>1, <1>2 DEF Unused, OnlyAdds
  <1>5. QED
    BY <1>3, <1>4 DEF NsHolds, At

LEMMA NamespaceNext == NsInv /\ Ready /\ [Next]_vars => NsInv'
  <1> SUFFICES ASSUME NsInv, Ready, [Next]_vars
               PROVE  NsInv'
    OBVIOUS
  <1>1. NsSafe
    BY DEF NsInv, NsSafe
  <1>2. ASSUME NEW r \in Request, NamespaceStep(r)
        PROVE  NsInv'
    <2>1. NsStep(r) /\ UNCHANGED topic
      BY <1>2 DEF NamespaceStep
    <2>2. topic = "namespaces" /\ Only(r)
      BY <2>1, NamespacesTopic, NamespacesMove DEF Ready
    <2>3. NsHolds(r)
      BY <2>2 DEF NsInv
    <2>4. NsSafe' /\ OnlyAdds(r) /\ NsHolds(r)'
      BY <1>1, <2>1, <2>3, NamespaceStepSafe
    <2>5. \A q \in Request : NsHolds(q)'
      BY <2>2, <2>4, OthersHold DEF NsInv
    <2>6. QED
      BY <2>4, <2>5 DEF NsInv, NsSafe
  <1>3. ASSUME NEW r \in Request, RequestStep(r)
        PROVE  NsInv'
    <2>1. (Log(r) \/ Lose(r)) /\ UNCHANGED topic /\ UNCHANGED nsVars
      BY <1>3 DEF RequestStep
    <2>2. /\ Only(r) /\ h[r].pc # "idle" /\ h'[r].pc \in {"done", "lost"}
          /\ h'[r].op = h[r].op /\ h'[r].key = h[r].key
      BY <2>1, RequestTopic
    <2>3. NsSafe' /\ OnlyAdds(r)
      BY <1>1, <2>1, SameTablesSafe
    <2>4. NsHolds(r) => NsHolds(r)'
      BY <2>2 DEF NsHolds, At
    <2>5. topic = "namespaces" => \A q \in Request : NsHolds(q)'
      BY <2>2, <2>3, <2>4, OthersHold DEF NsInv
    <2>6. QED
      BY <2>1, <2>3, <2>5 DEF NsInv, NsSafe
  <1>4. ASSUME topic # "namespaces", UNCHANGED topic, UNCHANGED nsVars
        PROVE  NsInv'
    BY <1>4 DEF NsInv, NsTypeOK, PairingIsMutual, PagesKeepNamespace, Exists, nsVars
  <1>5. ASSUME NEW r \in Request,
               BlocklistStep(r) \/ AccountStep(r) \/ MediaStep(r) \/ ListingStep(r)
        PROVE  NsInv'
    <2>1. UNCHANGED topic /\ UNCHANGED nsVars
      BY <1>5 DEF BlocklistStep, AccountStep, MediaStep, ListingStep
    <2>2. topic # "namespaces"
      BY <1>5, <2>1, BlocklistTopic, AccountsTopic, MediaTopic, ListingTopic
         DEF BlocklistStep, AccountStep, MediaStep, ListingStep
    <2>3. QED
      BY <1>4, <2>1, <2>2
  <1>6. CASE ServerStep
    BY <1>4, <1>6 DEF ServerStep, Restart, Expire, Tick
  <1>7. CASE UNCHANGED vars
    BY <1>7 DEF vars, shared, nsVars, NsInv, NsTypeOK, PairingIsMutual, PagesKeepNamespace,
                Exists, NsHolds, At, Unused
  <1>8. QED
    BY <1>2, <1>3, <1>5, <1>6, <1>7 DEF Next

THEOREM NamespaceInvariant == Spec => []NsInv
  BY NamespaceInit, NamespaceNext, HandlersReady, PTL DEF Spec

\* However many namespaces are created over each other's talk names, deleted
\* and created again, by requests and at start-up: a namespace that points at
\* a partner is the one the partner points at, and their names fit.
THEOREM PairsAreMutual == Spec => []PairingIsMutual
  <1>1. NsInv => PairingIsMutual
    BY DEF NsInv
  <1>2. QED
    BY <1>1, NamespaceInvariant, PTL

\* However many pages are inserted between the pre-flight look of a deletion
\* and the deletion, no page is without its namespace.
THEOREM PagesAreHoused == Spec => []PagesKeepNamespace
  <1>1. NsInv => PagesKeepNamespace
    BY DEF NsInv
  <1>2. QED
    BY <1>1, NamespaceInvariant, PTL


-----------------------------------------------------------------------------
(* The inductive invariant.                                                  *)

\* No session has been opened under the id of r yet.
Unopened(r) == h[r].pc = "idle" \/ At(r, "login", "session")

Opened(s) == s \in Founder \/ (s \in Request /\ ~Unopened(s))

WithSession ==
  {"logout", "logoutAll", "assign", "revoke", "createRole", "updateRole", "deleteRole"}

Presented ==
  [session : SessionId, user : UserId, role : RoleRows \cup {Nil}]

Credited == users[Anonymous] # Nil \/ NameTaken

\* What a handler holds, depending on where it is.
AcHolds(r) ==
  /\ h[r].pc = "idle" => users[r] = Nil
  /\ Unopened(r) => sessions[r] = Nil /\ r \notin ended
  /\ h[r].pc # "idle" /\ h[r].op = "login" => h[r].key \in UserId
  /\ h[r].pc # "idle" /\ h[r].op \in WithSession =>
       h[r].seen \in Presented /\ Opened(h[r].seen.session)
  /\ h[r].pc # "idle" /\ h[r].op \in {"assign", "revoke"} => h[r].key \in UserId \X RoleId
  /\ h[r].pc # "idle" /\ h[r].op \in {"updateRole", "deleteRole"} => Target(r) \in RoleId
  /\ At(r, "updateRole", "write") => h[r].seen.role \in RoleRows
  /\ At(r, "edit", "insert") => Credited

AcSafe == AcTypeOK /\ LogoutIsFinal

AcInv ==
  /\ AcSafe
  /\ topic = "accounts" => \A r \in Request : AcHolds(r)

\* What a step of r leaves to the others.
AcFrame(r) ==
  /\ \A q \in Request \ {r} : users'[q] = users[q]
  /\ \A q \in Request \ {r} : Unopened(q) /\ sessions[q] = Nil /\ q \notin ended =>
       sessions'[q] = Nil /\ q \notin ended'
  /\ \A q \in Request : ~Unopened(q) => ~Unopened(q)'
  /\ Credited => Credited'

-----------------------------------------------------------------------------
(* Steps that change no table.                                               *)

\* A handler opens its session only when it has just checked a password.
LEMMA OpenedStays ==
  ASSUME NEW r \in Request, Only(r), h'[r].pc # "idle",
         h'[r].op = "login" /\ h'[r].pc = "session" => h[r].pc = "idle"
  PROVE  \A q \in Request : ~Unopened(q) => ~Unopened(q)'
  BY DEF Only, Unopened, At

LEMMA SessionStays ==
  ASSUME NEW r \in Request, AcFrame(r), h'[r].seen.session = h[r].seen.session,
         Opened(h[r].seen.session)
  PROVE  Opened(h[r].seen.session)'
  <1>1. PICK s : s = h[r].seen.session
    OBVIOUS
  <1>2. s \in Founder \/ (s \in Request /\ ~Unopened(s))
    BY <1>1 DEF Opened
  <1>3. s \in Founder \/ (s \in Request /\ ~Unopened(s))'
    BY <1>2 DEF AcFrame
  <1>4. h'[r].seen.session = s
    BY <1>1
  <1>5. QED
    BY <1>3, <1>4 DEF Opened, Unopened, At

LEMMA SameAccounts ==
  ASSUME AcSafe, NEW r \in Request, UNCHANGED acVars,
         \A q \in Request : ~Unopened(q) => ~Unopened(q)'
  PROVE  AcSafe' /\ AcFrame(r)
  BY DEF AcSafe, AcTypeOK, LogoutIsFinal, AcFrame, acVars, Credited, NameTaken

LEMMA RolesChange ==
  ASSUME AcSafe, NEW r \in Request, UNCHANGED <<users, sessions, ended>>,
         roles' \in [RoleId -> RoleRows \cup {Nil}], held' \subseteq UserId \X RoleId,
         \A q \in Request : ~Unopened(q) => ~Unopened(q)'
  PROVE  AcSafe' /\ AcFrame(r)
  BY DEF AcSafe, AcTypeOK, LogoutIsFinal, AcFrame, Credited, NameTaken

\* A handler that goes on with what it holds.
LEMMA GoesOn ==
  ASSUME NEW r \in Request, AcHolds(r), AcFrame(r), h[r].pc # "idle",
         h'[r].pc \notin {"idle", "session", "insert"},
         h'[r].pc = "write" => h[r].op # "updateRole",
         h'[r].op = h[r].op, h'[r].key = h[r].key, h'[r].seen = h[r].seen
  PROVE  AcHolds(r)'
  <1>1. Opened(h[r].seen.session) => Opened(h[r].seen.session)'
    BY SessionStays
  <1>2. QED
    BY <1>1 DEF AcHolds, Unopened, At, Target

LEMMA ReadRowStep ==
  ASSUME Handlers, NEW r \in Request, h[r].seen \in Presented, ReadRow(r),
         roles[Target(r)] \in RoleRows \cup {Nil}
  PROVE  /\ Only(r)
         /\ h'[r].pc = "write" /\ h'[r].op = h[r].op /\ h'[r].key = h[r].key
         /\ h'[r].seen \in Presented /\ h'[r].seen.session = h[r].seen.session
         /\ h'[r].seen.role = roles[Target(r)]
  <1> DEFINE seen == [h[r].seen EXCEPT !.role = roles[Target(r)]]
  <1>1. /\ seen \in Presented /\ seen.session = h[r].seen.session
        /\ seen.role = roles[Target(r)]
    BY DEF Presented
  <1>2. GoWith(r, "write", seen)
    BY DEF ReadRow
  <1> HIDE DEF seen
  <1>3. QED
    BY <1>1, <1>2, GoWithStep

LEMMA AccountInit == Init => AcInv
  <1> SUFFICES ASSUME Init
               PROVE  AcInv
    OBVIOUS
  <1>1. AcTypeOK
    BY AccountsAssumption
       DEF Init, AcInit, AcTypeOK, UserId, SessionId, RoleId, RoleRow, RoleRows, Perm
  <1>2. ended = {}
    BY DEF Init, AcInit
  <1>3. ASSUME NEW r \in Request
        PROVE  AcHolds(r)
    <2>1. h[r].pc = "idle" /\ h[r].op = Nil
      BY DEF Init, Idle
    <2>2. users[r] = Nil /\ sessions[r] = Nil
      BY AccountsAssumption DEF Init, AcInit, UserId, SessionId
    <2>3. QED
      BY <1>2, <2>1, <2>2 DEF AcHolds, At
  <1>4. QED
    BY <1>1, <1>2, <1>3 DEF AcInv, AcSafe, LogoutIsFinal

-----------------------------------------------------------------------------
(* Every step keeps the invariant.                                           *)

LEMMA AccountStepSafe ==
  ASSUME AcSafe, Ready, \A q \in Request : AcHolds(q), NEW r \in Request, AcStep(r)
  PROVE  AcSafe' /\ AcFrame(r) /\ AcHolds(r)'
  <1> USE DEF At, Ready, WithSession
  <1>1. CASE Register(r)
    <2>1. PICK name \in {"own", "Anonymous"} :
            users' = [users EXCEPT ![r] = name]
      BY <1>1 DEF Register
    <2>2. /\ Only(r) /\ h[r].pc = "idle" /\ h'[r].pc = "log" /\ h'[r].op = "register"
          /\ UNCHANGED <<sessions, roles, held, ended>>
      BY <1>1, ArriveStep DEF Register
    <2>3. r \in UserId /\ r # Anonymous /\ users[r] = Nil
      BY <2>2, AccountsAssumption DEF UserId, AcHolds
    <2>4. AcSafe'
      BY <2>1, <2>2, <2>3 DEF AcSafe, AcTypeOK, LogoutIsFinal
    <2>5. /\ users'[r] \in {"own", "Anonymous"}
          /\ \A u \in UserId \ {r} : users'[u] = users[u]
      BY <2>1, <2>3 DEF AcSafe, AcTypeOK
    <2>6. Credited => Credited'
      <3>1. CASE users[Anonymous] # Nil
        BY <2>3, <2>5, <3>1 DEF Credited, UserId
      <3>2. CASE NameTaken
        <4>1. PICK u \in UserId : users[u] = "Anonymous"
          BY <3>2 DEF NameTaken
        <4>2. CASE u = r
          BY <2>3, <4>1, <4>2, AccountsAssumption
        <4>3. CASE u # r
          BY <2>5, <4>1, <4>3 DEF Credited, NameTaken
        <4>4. QED
          BY <4>2, <4>3
      <3>3. QED
        BY <3>1, <3>2 DEF Credited
    <2>7. AcFrame(r)
      BY <2>2, <2>5, <2>6, OpenedStays DEF AcFrame, UserId
    <2>8. AcHolds(r)'
      BY <2>2 DEF AcHolds, Unopened
    <2>9. QED
      BY <2>4, <2>7, <2>8
  <1>2. CASE CheckPassword(r)
    <2>1. UNCHANGED acVars
      BY <1>2 DEF CheckPassword
    <2>2. /\ Only(r) /\ h'[r].pc # "idle"
          /\ h'[r].op = "login" /\ h'[r].pc = "session" => h[r].pc = "idle"
      BY <1>2, ArriveStep DEF CheckPassword
    <2>3. AcSafe' /\ AcFrame(r)
      BY <2>1, <2>2, OpenedStays, SameAccounts
    <2>4. AcHolds(r)'
      <3>1. PICK u \in Given : Arrive(r, "accounts", "login", u, "session", Nil)
        BY <1>2 DEF CheckPassword
      <3>2. h[r].pc = "idle" /\ h'[r].op = "login" /\ h'[r].pc = "session" /\ h'[r].key = u
        BY <3>1, ArriveStep
      <3>3. sessions'[r] = Nil /\ r \notin ended'
        BY <2>1, <3>2 DEF AcHolds, Unopened, acVars
      <3>4. QED
        BY <3>2, <3>3 DEF AcHolds, Given
    <2>5. QED
      BY <2>3, <2>4
  <1>3. CASE OpenSession(r)
    <2>1. /\ Only(r) /\ h[r].pc = "session" /\ h[r].op = "login"
          /\ h'[r].pc = "log" /\ h'[r].op = "login" /\ h'[r].key = h[r].key
          /\ sessions' = [sessions EXCEPT ![r] = h[r].key]
          /\ UNCHANGED <<users, roles, held, ended>>
      BY <1>3, GoStep DEF OpenSession
    <2>2. h[r].key \in UserId /\ r \notin ended
      BY <2>1 DEF AcHolds, Unopened
    <2>3. AcSafe'
      BY <2>1, <2>2 DEF AcSafe, AcTypeOK, LogoutIsFinal, SessionId
    <2>4. AcFrame(r)
      <3>1. \A p \in Request : ~Unopened(p) => ~Unopened(p)'
        BY <2>1, OpenedStays
      <3>2. \A p \in Request \ {r} : sessions'[p] = sessions[p]
        BY <2>1 DEF AcSafe, AcTypeOK, SessionId
      <3>3. QED
        BY <2>1, <3>1, <3>2 DEF AcFrame, Credited, NameTaken
    <2>5. AcHolds(r)'
      BY <2>1, <2>2 DEF AcHolds, Unopened
    <2>6. QED
      BY <2>3, <2>4, <2>5
  <1>4. CASE GoUnlogged(r)
    <2>1. UNCHANGED acVars
      BY <1>4 DEF GoUnlogged
    <2>2. /\ Only(r) /\ h'[r].pc # "idle"
          /\ h'[r].op = "login" /\ h'[r].pc = "session" => h[r].pc = "idle"
      BY <1>4, GoStep DEF GoUnlogged
    <2>3. AcSafe' /\ AcFrame(r)
      BY <2>1, <2>2, OpenedStays, SameAccounts
    <2>4. AcHolds(r)'
      BY <1>4, <2>3, GoStep, GoesOn DEF GoUnlogged
    <2>5. QED
      BY <2>3, <2>4
  <1>5. CASE Authenticate(r)
    <2>1. UNCHANGED acVars
      BY <1>5 DEF Authenticate
    <2>2. /\ Only(r) /\ h'[r].pc # "idle"
          /\ h'[r].op = "login" /\ h'[r].pc = "session" => h[r].pc = "idle"
      BY <1>5, ArriveStep DEF Authenticate
    <2>3. AcSafe' /\ AcFrame(r)
      BY <2>1, <2>2, OpenedStays, SameAccounts
    <2>4. AcHolds(r)'
      <3>1. PICK s \in SessionId, op \in WithSession :
              /\ sessions[s] # Nil
              /\ \E target \in Targets(op) :
                   Arrive(r, "accounts", op, target, "authorise",
                          [session |-> s, user |-> sessions[s], role |-> Nil])
        BY <1>5 DEF Authenticate
      <3> PICK target \in Targets(op) :
            Arrive(r, "accounts", op, target, "authorise",
                   [session |-> s, user |-> sessions[s], role |-> Nil])
        BY <3>1
      <3>2. /\ h[r].pc = "idle" /\ h'[r].op = op /\ h'[r].key = target
            /\ h'[r].pc = "authorise"
            /\ h'[r].seen = [session |-> s, user |-> sessions[s], role |-> Nil]
        BY <3>1, ArriveStep
      <3>3. h'[r].seen \in Presented /\ h'[r].seen.session = s
        BY <3>1, <3>2 DEF Presented, AcSafe, AcTypeOK
      <3>4. Opened(s)
        BY <3>1 DEF Opened, SessionId, AcHolds
      <3>5. Opened(h[r].seen.session)'
        <4>1. Opened(s)'
          BY <2>3, <3>4 DEF Opened, AcFrame
        <4>2. QED
          BY <3>3, <4>1 DEF Opened, Unopened, At
      <3>6. op \in {"assign", "revoke"} => target \in UserId \X RoleId
        BY DEF Targets, Given, Defined
      <3>7. op \in {"updateRole", "deleteRole"} => target[2] \in RoleId
        BY DEF Targets, Defined
      <3>8. QED
        BY <3>2, <3>3, <3>5, <3>6, <3>7 DEF AcHolds, Unopened, Target
    <2>5. QED
      BY <2>3, <2>4
  <1>6. CASE Authorise(r)
    <2>1. UNCHANGED acVars
      BY <1>6 DEF Authorise, Touch, acVars
    <2>2. /\ Only(r) /\ h'[r].pc # "idle"
          /\ h'[r].op = "login" /\ h'[r].pc = "session" => h[r].pc = "idle"
      BY <1>6, GoStep DEF Authorise
    <2>3. AcSafe' /\ AcFrame(r)
      BY <2>1, <2>2, OpenedStays, SameAccounts
    <2>4. AcHolds(r)'
      BY <1>6, <2>3, GoStep, GoesOn DEF Authorise
    <2>5. QED
      BY <2>3, <2>4
  <1>7. CASE Logout(r)
    <2> DEFINE s == h[r].seen.session
    <2>1. /\ Only(r) /\ h[r].pc = "read" /\ h[r].op = "logout" /\ h'[r].pc = "log"
          /\ h'[r].op = h[r].op /\ h'[r].key = h[r].key /\ h'[r].seen = h[r].seen
          /\ UNCHANGED <<users, roles, held>>
          /\ sessions' = [sessions EXCEPT ![s] = Nil] /\ ended' = ended \cup {s}
      BY <1>7, GoStep DEF Logout
    <2>2. s \in SessionId /\ Opened(s)
      BY <2>1 DEF AcHolds, Presented
    <2> HIDE DEF s
    <2>3. AcSafe'
      BY <2>1, <2>2 DEF AcSafe, AcTypeOK, LogoutIsFinal
    <2>4. \A q \in Request : ~Unopened(q) => ~Unopened(q)'
      BY <2>1, OpenedStays
    <2>5. \A q \in Request : Unopened(q) => q # s
      BY <2>2, AccountsAssumption DEF Opened
    <2>6. AcFrame(r)
      BY <2>1, <2>4, <2>5 DEF AcFrame, AcSafe, AcTypeOK, SessionId, Credited, NameTaken
    <2>7. AcHolds(r)'
      BY <2>1, <2>6, GoesOn
    <2>8. QED
      BY <2>3, <2>6, <2>7
  <1>8. CASE LogoutAll(r)
    <2> DEFINE mine == {s \in SessionId : sessions[s] = h[r].seen.user}
    <2>1. /\ Only(r) /\ h[r].pc = "read" /\ h[r].op = "logoutAll" /\ h'[r].pc = "done"
          /\ h'[r].op = h[r].op /\ h'[r].key = h[r].key /\ h'[r].seen = h[r].seen
          /\ UNCHANGED <<users, roles, held>>
          /\ sessions' = [s \in SessionId |-> IF s \in mine THEN Nil ELSE sessions[s]]
          /\ ended' = ended \cup mine
      BY <1>8, GoStep DEF LogoutAll
    <2>2. mine \subseteq SessionId /\ \A s \in mine : sessions[s] # Nil
      BY <2>1, AccountsAssumption DEF AcHolds, Presented
    <2> HIDE DEF mine
    <2>3. AcSafe'
      BY <2>1, <2>2 DEF AcSafe, AcTypeOK, LogoutIsFinal
    <2>4. \A q \in Request : ~Unopened(q) => ~Unopened(q)'
      BY <2>1, OpenedStays
    <2>5. AcFrame(r)
      BY <2>1, <2>2, <2>4 DEF AcFrame, SessionId, Credited, NameTaken
    <2>6. AcHolds(r)'
      BY <2>1, <2>5, GoesOn
    <2>7. QED
      BY <2>3, <2>5, <2>6
  <1>9. CASE CreateRole(r)
    <2>1. /\ Only(r) /\ h[r].pc # "idle" /\ h'[r].pc \in {"log", "done", "refused"}
          /\ h'[r].op = h[r].op /\ h'[r].key = h[r].key /\ h'[r].seen = h[r].seen
          /\ UNCHANGED <<users, sessions, ended>>
      BY <1>9, GoStep DEF CreateRole
    <2>3. roles' \in [RoleId -> RoleRows \cup {Nil}]
      <3>1. PICK perms \in SUBSET Perm : roles' = [roles EXCEPT ![r] = RoleRow(r, perms)]
        BY <1>9 DEF CreateRole
      <3>2. RoleRow(r, perms) \in RoleRows
        BY DEF RoleRow, RoleRows, RoleId
      <3>3. QED
        BY <3>1, <3>2 DEF AcSafe, AcTypeOK
    <2>4. held' \subseteq UserId \X RoleId
      BY <1>9 DEF CreateRole, AcSafe, AcTypeOK
    <2>5. AcSafe' /\ AcFrame(r)
      BY <2>1, <2>3, <2>4, OpenedStays, RolesChange
    <2>6. AcHolds(r)'
      BY <2>1, <2>5, GoesOn
    <2>7. QED
      BY <2>5, <2>6
  <1>10. CASE ReadHeld(r)
    <2>1. /\ h[r].op \in {"assign", "revoke"} /\ h[r].pc = "read" /\ UNCHANGED acVars
          /\ \/ \E pc \in {"refused", "write", "done"} : Go(r, pc)
             \/ ReadRow(r)
      BY <1>10 DEF ReadHeld
    <2>2. h[r].seen \in Presented /\ Target(r) \in RoleId
      BY <2>1 DEF AcHolds, Target
    <2>3. roles[Target(r)] \in RoleRows \cup {Nil}
      BY <2>2 DEF AcSafe, AcTypeOK
    <2>4. CASE \E pc \in {"refused", "write", "done"} : Go(r, pc)
      <3>1. /\ Only(r) /\ h'[r].pc \in {"refused", "write", "done"}
            /\ h'[r].op = h[r].op /\ h'[r].key = h[r].key /\ h'[r].seen = h[r].seen
        BY <2>4, GoStep
      <3>2. AcSafe' /\ AcFrame(r)
        BY <2>1, <3>1, OpenedStays, SameAccounts
      <3>3. AcHolds(r)'
        BY <2>1, <3>1, <3>2, GoesOn
      <3>4. QED
        BY <3>2, <3>3
    <2>5. CASE ReadRow(r)
      <3>1. /\ Only(r) /\ h'[r].pc = "write" /\ h'[r].op = h[r].op /\ h'[r].key = h[r].key
            /\ h'[r].seen \in Presented /\ h'[r].seen.session = h[r].seen.session
        BY <2>2, <2>3, <2>5, ReadRowStep
      <3>2. AcSafe' /\ AcFrame(r)
        BY <2>1, <3>1, OpenedStays, SameAccounts
      <3>3. Opened(h[r].seen.session)'
        BY <2>1, <3>1, <3>2, SessionStays DEF AcHolds
      <3>4. AcHolds(r)'
        BY <2>1, <3>1, <3>3 DEF AcHolds, Unopened, Target
      <3>5. QED
        BY <3>2, <3>4
    <2>6. QED
      BY <2>1, <2>4, <2>5
  <1>11. CASE Assign(r)
    <2>1. /\ Only(r) /\ h[r].pc # "idle" /\ h'[r].pc \in {"log", "done", "refused"}
          /\ h'[r].op = h[r].op /\ h'[r].key = h[r].key /\ h'[r].seen = h[r].seen
          /\ UNCHANGED <<users, sessions, ended>>
      BY <1>11, GoStep DEF Assign
    <2>2. h[r].key \in UserId \X RoleId
      BY <1>11 DEF Assign, AcHolds
    <2>3. roles' \in [RoleId -> RoleRows \cup {Nil}]
      BY <1>11 DEF Assign, AcSafe, AcTypeOK
    <2>4. held' \subseteq UserId \X RoleId
      BY <1>11, <2>2 DEF Assign, AcSafe, AcTypeOK
    <2>5. AcSafe' /\ AcFrame(r)
      BY <2>1, <2>3, <2>4, OpenedStays, RolesChange
    <2>6. AcHolds(r)'
      BY <2>1, <2>5, GoesOn
    <2>7. QED
      BY <2>5, <2>6
  <1>12. CASE Revoke(r)
    <2>1. /\ Only(r) /\ h[r].pc # "idle" /\ h'[r].pc \in {"log", "done", "refused"}
          /\ h'[r].op = h[r].op /\ h'[r].key = h[r].key /\ h'[r].seen = h[r].seen
          /\ UNCHANGED <<users, sessions, ended>>
      BY <1>12, GoStep DEF Revoke
    <2>3. roles' \in [RoleId -> RoleRows \cup {Nil}]
      BY <1>12 DEF Revoke, AcSafe, AcTypeOK
    <2>4. held' \subseteq UserId \X RoleId
      BY <1>12 DEF Revoke, AcSafe, AcTypeOK
    <2>5. AcSafe' /\ AcFrame(r)
      BY <2>1, <2>3, <2>4, OpenedStays, RolesChange
    <2>6. AcHolds(r)'
      BY <2>1, <2>5, GoesOn
    <2>7. QED
      BY <2>5, <2>6
  <1>13. CASE ReadRole(r)
    <2>1. /\ h[r].op = "updateRole" /\ h[r].pc = "read" /\ UNCHANGED acVars
          /\ \/ Go(r, "refused")
             \/ roles[Target(r)] # Nil /\ ReadRow(r)
      BY <1>13 DEF ReadRole
    <2>2. h[r].seen \in Presented /\ Target(r) \in RoleId
      BY <2>1 DEF AcHolds
    <2>3. roles[Target(r)] \in RoleRows \cup {Nil}
      BY <2>2 DEF AcSafe, AcTypeOK
    <2>4. CASE Go(r, "refused")
      <3>1. /\ Only(r) /\ h'[r].pc = "refused"
            /\ h'[r].op = h[r].op /\ h'[r].key = h[r].key /\ h'[r].seen = h[r].seen
        BY <2>4, GoStep
      <3>2. AcSafe' /\ AcFrame(r)
        BY <2>1, <3>1, OpenedStays, SameAccounts
      <3>3. AcHolds(r)'
        BY <2>1, <3>1, <3>2, GoesOn
      <3>4. QED
        BY <3>2, <3>3
    <2>5. CASE roles[Target(r)] # Nil /\ ReadRow(r)
      <3>1. /\ Only(r) /\ h'[r].pc = "write" /\ h'[r].op = h[r].op /\ h'[r].key = h[r].key
            /\ h'[r].seen \in Presented /\ h'[r].seen.session = h[r].seen.session
            /\ h'[r].seen.role \in RoleRows
        BY <2>2, <2>3, <2>5, ReadRowStep
      <3>2. AcSafe' /\ AcFrame(r)
        BY <2>1, <3>1, OpenedStays, SameAccounts
      <3>3. Opened(h[r].seen.session)'
        BY <2>1, <3>1, <3>2, SessionStays DEF AcHolds
      <3>4. AcHolds(r)'
        BY <2>1, <3>1, <3>3 DEF AcHolds, Unopened, Target
      <3>5. QED
        BY <3>2, <3>4
    <2>6. QED
      BY <2>1, <2>4, <2>5
  <1>14. CASE UpdateRole(r)
    <2>1. /\ Only(r) /\ h[r].pc # "idle" /\ h'[r].pc \in {"log", "done", "refused"}
          /\ h'[r].op = h[r].op /\ h'[r].key = h[r].key /\ h'[r].seen = h[r].seen
          /\ UNCHANGED <<users, sessions, ended>>
      BY <1>14, GoStep DEF UpdateRole
    <2>2. Target(r) \in RoleId /\ h[r].seen.role \in RoleRows
      BY <1>14 DEF UpdateRole, AcHolds
    <2>3. roles' \in [RoleId -> RoleRows \cup {Nil}]
      <3>1. CASE \E perms \in SUBSET Perm :
                   roles' = [roles EXCEPT ![Target(r)] = RoleRow(h[r].seen.role.title, perms)]
        <4>1. PICK perms \in SUBSET Perm :
                roles' = [roles EXCEPT ![Target(r)] = RoleRow(h[r].seen.role.title, perms)]
          BY <3>1
        <4>2. RoleRow(h[r].seen.role.title, perms) \in RoleRows
          BY <2>2 DEF RoleRow, RoleRows
        <4>3. QED
          BY <2>2, <4>1, <4>2 DEF AcSafe, AcTypeOK
      <3>2. CASE roles' = [roles EXCEPT ![Target(r)] = RoleRow(r, h[r].seen.role.perms)]
        <4>1. RoleRow(r, h[r].seen.role.perms) \in RoleRows
          BY <2>2 DEF RoleRow, RoleRows, RoleId
        <4>2. QED
          BY <2>2, <3>2, <4>1 DEF AcSafe, AcTypeOK
      <3>3. CASE UNCHANGED roles
        BY <3>3 DEF AcSafe, AcTypeOK
      <3>4. QED
        BY <1>14, <3>1, <3>2, <3>3 DEF UpdateRole
    <2>4. held' \subseteq UserId \X RoleId
      BY <1>14 DEF UpdateRole, AcSafe, AcTypeOK
    <2>5. AcSafe' /\ AcFrame(r)
      BY <2>1, <2>3, <2>4, OpenedStays, RolesChange
    <2>6. AcHolds(r)'
      BY <2>1, <2>5, GoesOn
    <2>7. QED
      BY <2>5, <2>6
  <1>15. CASE CountHolders(r)
    <2>1. UNCHANGED acVars
      BY <1>15 DEF CountHolders
    <2>2. /\ Only(r) /\ h'[r].pc # "idle"
          /\ h'[r].op = "login" /\ h'[r].pc = "session" => h[r].pc = "idle"
      BY <1>15, GoStep DEF CountHolders
    <2>3. AcSafe' /\ AcFrame(r)
      BY <2>1, <2>2, OpenedStays, SameAccounts
    <2>4. AcHolds(r)'
      BY <1>15, <2>3, GoStep, GoesOn DEF CountHolders
    <2>5. QED
      BY <2>3, <2>4
  <1>16. CASE DeleteRole(r)
    <2>1. /\ Only(r) /\ h[r].pc # "idle" /\ h'[r].pc \in {"log", "done", "refused"}
          /\ h'[r].op = h[r].op /\ h'[r].key = h[r].key /\ h'[r].seen = h[r].seen
          /\ UNCHANGED <<users, sessions, ended>>
      BY <1>16, GoStep DEF DeleteRole
    <2>3. roles' \in [RoleId -> RoleRows \cup {Nil}]
      BY <1>16 DEF DeleteRole, AcSafe, AcTypeOK
    <2>4. held' \subseteq UserId \X RoleId
      BY <1>16 DEF DeleteRole, AcSafe, AcTypeOK
    <2>5. AcSafe' /\ AcFrame(r)
      BY <2>1, <2>3, <2>4, OpenedStays, RolesChange
    <2>6. AcHolds(r)'
      BY <2>1, <2>5, GoesOn
    <2>7. QED
      BY <2>5, <2>6
  <1>17. CASE FindAnonymous(r)
    <2>1. UNCHANGED acVars
      BY <1>17 DEF FindAnonymous
    <2>2. /\ Only(r) /\ h'[r].pc # "idle"
          /\ h'[r].op = "login" /\ h'[r].pc = "session" => h[r].pc = "idle"
      BY <1>17, ArriveStep DEF FindAnonymous
    <2>3. AcSafe' /\ AcFrame(r)
      BY <2>1, <2>2, OpenedStays, SameAccounts
    <2>4. AcHolds(r)'
      <3>1. /\ h'[r].op = "edit" /\ h'[r].pc \in {"ensure", "insert"}
            /\ h'[r].pc = "insert" => users[Anonymous] # Nil
        BY <1>17, ArriveStep DEF FindAnonymous
      <3>2. QED
        BY <2>1, <3>1 DEF AcHolds, Unopened, Credited, acVars
    <2>5. QED
      BY <2>3, <2>4
  <1>18. CASE EnsureAnonymous(r)
    <2>1. /\ Only(r) /\ h[r].pc # "idle" /\ h'[r].op = "edit" /\ h'[r].pc = "insert"
          /\ UNCHANGED <<sessions, roles, held, ended>>
          /\ users' = IF NameTaken THEN users ELSE [users EXCEPT ![Anonymous] = "Anonymous"]
      BY <1>18, GoStep DEF EnsureAnonymous
    <2>2. AcSafe'
      BY <2>1 DEF AcSafe, AcTypeOK, LogoutIsFinal
    <2>3. Credited'
      BY <2>1 DEF Credited, NameTaken, AcSafe, AcTypeOK, UserId
    <2>4. \A q \in Request : users'[q] = users[q]
      BY <2>1, AccountsAssumption DEF AcSafe, AcTypeOK, UserId
    <2>5. AcFrame(r)
      BY <2>1, <2>3, <2>4, OpenedStays DEF AcFrame
    <2>6. AcHolds(r)'
      BY <2>1, <2>3 DEF AcHolds, Unopened
    <2>7. QED
      BY <2>2, <2>5, <2>6
  <1>19. CASE InsertEdit(r)
    <2>1. UNCHANGED acVars
      BY <1>19 DEF InsertEdit
    <2>2. /\ Only(r) /\ h'[r].pc # "idle"
          /\ h'[r].op = "login" /\ h'[r].pc = "session" => h[r].pc = "idle"
      BY <1>19, GoStep DEF InsertEdit
    <2>3. AcSafe' /\ AcFrame(r)
      BY <2>1, <2>2, OpenedStays, SameAccounts
    <2>4. AcHolds(r)'
      BY <1>19, <2>3, GoStep, GoesOn DEF InsertEdit
    <2>5. QED
      BY <2>3, <2>4
  <1>20. QED
    BY <1>1, <1>2, <1>3, <1>4, <1>5, <1>6, <1>7, <1>8, <1>9, <1>10, <1>11, <1>12, <1>13, <1>14, <1>15, <1>16, <1>17, <1>18, <1>19 DEF AcStep

\* The others keep what they hold.
LEMMA AcOthersHold ==
  ASSUME NEW r \in Request, Only(r), AcFrame(r), NEW q \in Request \ {r}, AcHolds(q)
  PROVE  AcHolds(q)'
  <1>1. h'[q] = h[q] /\ users'[q] = users[q]
    BY DEF Only, AcFrame
  <1>2. Unopened(q) => Unopened(q) /\ sessions'[q] = Nil /\ q \notin ended'
    BY DEF AcFrame, AcHolds
  <1>3. Opened(h[q].seen.session) => Opened(h[q].seen.session)'
    <2>1. PICK s : s = h[q].seen.session
      OBVIOUS
    <2>2. Opened(s) => Opened(s)'
      BY DEF Opened, AcFrame
    <2>3. QED
      BY <1>1, <2>1, <2>2 DEF Opened, Unopened, At
  <1>4. Credited => Credited'
    BY DEF AcFrame
  <1>5. QED
    BY <1>1, <1>2, <1>3, <1>4 DEF AcHolds, Unopened, At, Target

LEMMA AccountNext == AcInv /\ Ready /\ [Next]_vars => AcInv'
  <1> SUFFICES ASSUME AcInv, Ready, [Next]_vars
               PROVE  AcInv'
    OBVIOUS
  <1>1. AcSafe
    BY DEF AcInv
  <1>2. ASSUME NEW r \in Request, AccountStep(r)
        PROVE  AcInv'
    <2>1. AcStep(r) /\ UNCHANGED topic
      BY <1>2 DEF AccountStep
    <2>2. topic = "accounts" /\ Only(r)
      BY <2>1, AccountsTopic, AccountsMove DEF Ready
    <2>3. AcSafe' /\ AcFrame(r) /\ AcHolds(r)'
      BY <1>1, <2>1, <2>2, AccountStepSafe DEF AcInv
    <2>4. \A q \in Request : AcHolds(q)'
      BY <2>2, <2>3, AcOthersHold DEF AcInv
    <2>5. QED
      BY <2>3, <2>4 DEF AcInv
  <1>3. ASSUME NEW r \in Request, RequestStep(r)
        PROVE  AcInv'
    <2>1. (Log(r) \/ Lose(r)) /\ UNCHANGED topic /\ UNCHANGED acVars
      BY <1>3 DEF RequestStep
    <2>2. /\ Only(r) /\ h[r].pc # "idle" /\ h'[r].pc \in {"done", "lost"}
          /\ h'[r].op = h[r].op /\ h'[r].key = h[r].key /\ h'[r].seen = h[r].seen
      BY <2>1, RequestTopic
    <2>3. AcSafe' /\ AcFrame(r)
      BY <1>1, <2>1, <2>2, OpenedStays, SameAccounts
    <2>4. AcHolds(r) => AcHolds(r)'
      BY <2>2, <2>3, GoesOn
    <2>5. topic = "accounts" => \A q \in Request : AcHolds(q)'
      BY <2>2, <2>3, <2>4, AcOthersHold DEF AcInv
    <2>6. QED
      BY <2>1, <2>3, <2>5 DEF AcInv
  <1>4. ASSUME topic # "accounts", UNCHANGED topic, UNCHANGED acVars
        PROVE  AcInv'
    BY <1>4 DEF AcInv, AcSafe, AcTypeOK, LogoutIsFinal, acVars
  <1>5. ASSUME NEW r \in Request,
               NamespaceStep(r) \/ BlocklistStep(r) \/ MediaStep(r) \/ ListingStep(r)
        PROVE  AcInv'
    <2>1. UNCHANGED topic /\ UNCHANGED acVars
      BY <1>5 DEF NamespaceStep, BlocklistStep, MediaStep, ListingStep
    <2>2. topic # "accounts"
      BY <1>5, <2>1, NamespacesTopic, BlocklistTopic, MediaTopic, ListingTopic
         DEF NamespaceStep, BlocklistStep, MediaStep, ListingStep
    <2>3. QED
      BY <1>4, <2>1, <2>2
  <1>6. ASSUME NEW s \in SessionId, Expire(s), UNCHANGED topic
        PROVE  AcInv'
    <2>1. /\ sessions' = [sessions EXCEPT ![s] = Nil]
          /\ UNCHANGED <<h, users, roles, held, ended>>
      BY <1>6 DEF Expire
    <2>2. AcSafe'
      BY <1>1, <2>1 DEF AcSafe, AcTypeOK, LogoutIsFinal
    <2>3. ASSUME NEW q \in Request, AcHolds(q)
          PROVE  AcHolds(q)'
      BY <1>1, <2>1, <2>3 DEF AcSafe, AcTypeOK, SessionId, AcHolds, Unopened, Opened, At, Target,
                              Credited, NameTaken
    <2>4. QED
      BY <1>6, <2>2, <2>3 DEF AcInv
  <1>7. CASE ServerStep
    <2>1. ASSUME Restart \/ Tick, UNCHANGED acVars, UNCHANGED topic
          PROVE  AcInv'
      BY <1>4, <2>1 DEF Restart, Tick
    <2>2. Tick => UNCHANGED topic
      BY <1>7 DEF ServerStep
    <2>3. QED
      BY <1>6, <1>7, <2>1 DEF ServerStep
  <1>8. CASE UNCHANGED vars
    <2>1. UNCHANGED <<topic, h, users, sessions, roles, held, ended>>
      BY <1>8 DEF vars, shared, acVars
    <2>2. AcSafe'
      BY <1>1, <2>1 DEF AcSafe, AcTypeOK, LogoutIsFinal
    <2>3. ASSUME NEW q \in Request, AcHolds(q)
          PROVE  AcHolds(q)'
      BY <2>1, <2>3 DEF AcHolds, Unopened, Opened, At, Target, Credited, NameTaken
    <2>4. QED
      BY <2>1, <2>2, <2>3 DEF AcInv
  <1>9. QED
    BY <1>2, <1>3, <1>5, <1>7, <1>8 DEF Next

THEOREM AccountInvariant == Spec => []AcInv
  BY AccountInit, AccountNext, HandlersReady, PTL DEF Spec

\* However many requests have been authenticated by a session that a log-out
\* deletes, none of them brings it back.
THEOREM LogoutsAreFinal == Spec => []LogoutIsFinal
  <1>1. AcInv => LogoutIsFinal
    BY DEF AcInv, AcSafe
  <1>2. QED
    BY <1>1, AccountInvariant, PTL

\* However many anonymous editors create their common row at once, and whoever
\* registers under its name, an edit comes to its insert with an author to
\* credit or because the name was taken.
THEOREM AnonymousCredited == Spec => []AnonymousUnlessTaken
  <1>1. AcInv /\ Ready => AnonymousUnlessTaken
    <2> SUFFICES ASSUME AcInv, Ready, NEW r \in Request, At(r, "edit", "insert")
                 PROVE  users[Anonymous] # Nil \/ NameTaken
      BY DEF AnonymousUnlessTaken
    <2>1. topic = "accounts"
      BY DEF Ready, Served, InService, Serves, At, NsOps, BlOps, MdOps, LsOps
    <2>2. QED
      BY <2>1 DEF AcInv, AcHolds, Credited
  <1>2. QED
    BY <1>1, AccountInvariant, HandlersReady, PTL

\* A user loses a role only by a revocation, whoever deletes roles meanwhile.
THEOREM RolesStay == Spec => RolesNotDetached
  <1> DEFINE Revoked ==
        \A p \in held \ held' : \E r \in Request : At(r, "revoke", "write") /\ h[r].key = p
  <1>1. Ready /\ [Next]_vars => [Revoked]_held
    <2> SUFFICES ASSUME Ready, [Next]_vars
                 PROVE  held \subseteq held' \/ Revoked
      OBVIOUS
    <2>1. ASSUME NEW r \in Request, AcStep(r)
          PROVE  held \subseteq held' \/ Revoked
      <3>1. CASE Revoke(r)
        BY <3>1 DEF Revoke
      <3>2. CASE Assign(r)
        BY <3>2 DEF Assign
      <3>3. CASE Register(r) \/ CheckPassword(r) \/ OpenSession(r) \/ GoUnlogged(r)
        BY <3>3 DEF Register, CheckPassword, OpenSession, GoUnlogged, acVars
      <3>4. CASE Authenticate(r) \/ Authorise(r) \/ Logout(r) \/ LogoutAll(r)
        BY <3>4 DEF Authenticate, Authorise, Logout, LogoutAll, acVars
      <3>5. CASE CreateRole(r) \/ ReadHeld(r) \/ ReadRole(r) \/ UpdateRole(r)
        BY <3>5 DEF CreateRole, ReadHeld, ReadRole, UpdateRole, acVars
      <3>6. CASE CountHolders(r) \/ DeleteRole(r)
        BY <3>6 DEF CountHolders, DeleteRole, acVars
      <3>7. CASE FindAnonymous(r) \/ EnsureAnonymous(r) \/ InsertEdit(r)
        BY <3>7 DEF FindAnonymous, EnsureAnonymous, InsertEdit, acVars
      <3>8. QED
        BY <2>1, <3>1, <3>2, <3>3, <3>4, <3>5, <3>6, <3>7 DEF AcStep
    <2>2. ASSUME NEW r \in Request, ~AccountStep(r)
          PROVE  NamespaceStep(r) \/ BlocklistStep(r) \/ MediaStep(r) \/ ListingStep(r)
                   \/ RequestStep(r) => UNCHANGED held
      BY DEF NamespaceStep, BlocklistStep, MediaStep, ListingStep, RequestStep, acVars
    <2>3. ServerStep => UNCHANGED held
      BY DEF ServerStep, Expire, acVars
    <2>4. UNCHANGED vars => UNCHANGED held
      BY DEF vars, acVars
    <2>5. QED
      BY <2>1, <2>2, <2>3, <2>4 DEF Next, AccountStep
  <1>2. QED
    BY <1>1, HandlersReady, PTL DEF Spec, RolesNotDetached

=============================================================================
