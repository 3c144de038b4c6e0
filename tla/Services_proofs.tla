-------------------------- MODULE Services_proofs ---------------------------
(* Theorems about the services together: the types of every table, the log   *)
(* that matches the changes, the media that are served, the snapshot of the  *)
(* blocklist, and the feeds that are read in slices.                         *)
EXTENDS Requests_proofs, FiniteSetTheorems, SequenceTheorems

-----------------------------------------------------------------------------
(* The audit log.                                                            *)

\* A handler is here after its change and before its entry.
Owing == {"log", "reread", "ip", "url", "install"}

LogHolds(r) ==
  /\ r \in changed => h[r].pc \in Owing \cup Over
  /\ h[r].pc \in Owing => r \in changed \/ h[r].op \in {"assign", "revoke"}
  /\ r \in changed /\ h[r].pc = "done" =>
       \/ r \in audit
       \/ h[r].op = "revoke" /\ h[r].seen.role = Nil
       \/ Lossy /\ h[r].op \in {"register", "login", "logout"}
  /\ r \in audit =>
       h[r].pc = "done" /\ (r \in changed \/ h[r].op \in {"assign", "revoke"})

\* A step of r writes nobody else's entry.
LogFrame(r) ==
  /\ changed \subseteq changed' /\ changed' \subseteq changed \cup {r}
  /\ audit \subseteq audit' /\ audit' \subseteq audit \cup {r}

LogInv ==
  /\ audit \subseteq Request /\ changed \subseteq Request
  /\ \A r \in Request : LogHolds(r)

LEMMA NamespacesLog ==
  ASSUME Ready, NEW r \in Request, LogHolds(r), NsStep(r)
  PROVE  LogHolds(r)' /\ LogFrame(r)
  <1> USE DEF Ready, At, Over, LogHolds, LogFrame, Owing, Changes
  <1>1. CASE CreateNamespace(r)
    BY <1>1, ArriveStep DEF CreateNamespace
  <1>2. CASE Reread(r)
    BY <1>2, GoStep DEF Reread
  <1>3. CASE ReadForSeed(r)
    BY <1>3, ArriveStep DEF ReadForSeed
  <1>4. CASE Seed(r)
    BY <1>4, GoStep DEF Seed
  <1>5. CASE ReadForRename(r)
    BY <1>5, ArriveStep DEF ReadForRename
  <1>6. CASE Rename(r)
    BY <1>6, GoStep DEF Rename
  <1>7. CASE ReadForDelete(r)
    BY <1>7, ArriveStep DEF ReadForDelete
  <1>8. CASE CheckEmpty(r)
    BY <1>8, GoStep DEF CheckEmpty
  <1>9. CASE Delete(r)
    BY <1>9, GoStep DEF Delete
  <1>10. CASE ResolveForPage(r)
    BY <1>10, ArriveStep DEF ResolveForPage
  <1>11. CASE InsertPage(r)
    BY <1>11, GoStep DEF InsertPage
  <1>12. QED
    BY <1>1, <1>2, <1>3, <1>4, <1>5, <1>6, <1>7, <1>8, <1>9, <1>10, <1>11 DEF NsStep

LEMMA BlocklistLog ==
  ASSUME Ready, NEW r \in Request, LogHolds(r), BlStep(r)
  PROVE  LogHolds(r)' /\ LogFrame(r)
  <1> USE DEF Ready, At, Over, LogHolds, LogFrame, Owing, Changes
  <1>1. CASE BlockEntry(r)
    BY <1>1, ArriveStep DEF BlockEntry
  <1>2. CASE ReadForUnblock(r)
    BY <1>2, ArriveStep DEF ReadForUnblock
  <1>3. CASE Unblock(r)
    BY <1>3, GoStep DEF Unblock
  <1>4. CASE ReadAddresses(r)
    BY <1>4, GoWithStep DEF ReadAddresses
  <1>5. CASE ReadPatterns(r)
    BY <1>5, GoWithStep DEF ReadPatterns
  <1>6. CASE Install(r)
    BY <1>6, GoStep DEF Install
  <1>7. QED
    BY <1>1, <1>2, <1>3, <1>4, <1>5, <1>6 DEF BlStep

LEMMA AccountsLog ==
  ASSUME Ready, NEW r \in Request, LogHolds(r), AcStep(r)
  PROVE  LogHolds(r)' /\ LogFrame(r)
  <1> USE DEF Ready, At, Over, LogHolds, LogFrame, Owing, Changes
  <1>1. CASE Register(r)
    BY <1>1, ArriveStep DEF Register
  <1>2. CASE CheckPassword(r)
    BY <1>2, ArriveStep DEF CheckPassword
  <1>3. CASE OpenSession(r)
    BY <1>3, GoStep DEF OpenSession
  <1>4. CASE GoUnlogged(r)
    BY <1>4, GoStep DEF GoUnlogged
  <1>5. CASE Authenticate(r)
    BY <1>5, ArriveStep DEF Authenticate
  <1>6. CASE Authorise(r)
    BY <1>6, GoStep DEF Authorise
  <1>7. CASE Logout(r)
    BY <1>7, GoStep DEF Logout
  <1>8. CASE LogoutAll(r)
    BY <1>8, GoStep DEF LogoutAll
  <1>9. CASE CreateRole(r)
    BY <1>9, GoStep DEF CreateRole
  <1>10. CASE ReadHeld(r)
    BY <1>10, GoStep, GoWithStep DEF ReadHeld, ReadRow
  <1>11. CASE Assign(r)
    BY <1>11, GoStep DEF Assign
  <1>12. CASE Revoke(r)
    BY <1>12, GoStep DEF Revoke
  <1>13. CASE ReadRole(r)
    BY <1>13, GoStep, GoWithStep DEF ReadRole, ReadRow
  <1>14. CASE UpdateRole(r)
    BY <1>14, GoStep DEF UpdateRole
  <1>15. CASE CountHolders(r)
    BY <1>15, GoStep DEF CountHolders
  <1>16. CASE DeleteRole(r)
    BY <1>16, GoStep DEF DeleteRole
  <1>17. CASE FindAnonymous(r)
    BY <1>17, ArriveStep DEF FindAnonymous
  <1>18. CASE EnsureAnonymous(r)
    BY <1>18, GoStep DEF EnsureAnonymous
  <1>19. CASE InsertEdit(r)
    BY <1>19, GoStep DEF InsertEdit
  <1>20. QED
    BY <1>1, <1>2, <1>3, <1>4, <1>5, <1>6, <1>7, <1>8, <1>9, <1>10, <1>11, <1>12,
       <1>13, <1>14, <1>15, <1>16, <1>17, <1>18, <1>19 DEF AcStep

LEMMA MediaLog ==
  ASSUME Ready, NEW r \in Request, LogHolds(r), MdStep(r),
         UNCHANGED <<audit, changed>>
  PROVE  LogHolds(r)' /\ LogFrame(r)
  <1> USE DEF Ready, At, Over, LogHolds, LogFrame, Owing, Changes
  <1>1. CASE LookForHash(r)
    BY <1>1, ArriveStep DEF LookForHash
  <1>2. CASE InsertMedia(r)
    BY <1>2, GoStep DEF InsertMedia
  <1>3. CASE PutBytes(r)
    BY <1>3, GoStep DEF PutBytes
  <1>4. CASE PutFails(r)
    BY <1>4, GoStep DEF PutFails
  <1>5. CASE Cleanup(r)
    BY <1>5, GoStep DEF Cleanup
  <1>6. CASE Fetch(r)
    BY <1>6, ArriveStep DEF Fetch
  <1>7. CASE ClearVariants(r)
    BY <1>7, GoStep DEF ClearVariants
  <1>8. CASE PutObject(r)
    BY <1>8, GoStep DEF PutObject
  <1>9. CASE PutVariant(r)
    BY <1>9, GoStep DEF PutVariant
  <1>10. CASE FindMedia(r)
    BY <1>10, ArriveStep DEF FindMedia
  <1>11. CASE DeleteBytes(r)
    BY <1>11, GoStep DEF DeleteBytes
  <1>12. CASE DeleteObjects(r)
    BY <1>12, GoStep DEF DeleteObjects
  <1>13. CASE DeleteMedia(r)
    BY <1>13, GoStep DEF DeleteMedia
  <1>14. QED
    BY <1>1, <1>2, <1>3, <1>4, <1>5, <1>6, <1>7, <1>8, <1>9, <1>10, <1>11, <1>12, <1>13 DEF MdStep

LEMMA ListingLog ==
  ASSUME Ready, NEW r \in Request, LogHolds(r), LsStep(r),
         UNCHANGED <<audit, changed>>
  PROVE  LogHolds(r)' /\ LogFrame(r)
  <1> USE DEF Ready, At, Over, LogHolds, LogFrame, Owing, Changes
  <1>1. CASE Stamp(r)
    BY <1>1, ArriveStep DEF Stamp
  <1>2. CASE InsertRow(r)
    BY <1>2, GoStep DEF InsertRow
  <1>3. CASE RemoveRow(r)
    BY <1>3, ArriveStep DEF RemoveRow
  <1>4. CASE Prune(r)
    BY <1>4, ArriveStep DEF Prune
  <1>5. CASE StartWalk(r)
    BY <1>5, ArriveStep DEF StartWalk
  <1>6. CASE ReadSlice(r)
    BY <1>6, GoWithStep DEF ReadSlice
  <1>7. QED
    BY <1>1, <1>2, <1>3, <1>4, <1>5, <1>6 DEF LsStep

LEMMA LogOthers ==
  ASSUME NEW r \in Request, LogFrame(r), NEW q \in Request \ {r}, LogHolds(q), h'[q] = h[q]
  PROVE  LogHolds(q)'
  BY DEF LogFrame, LogHolds

LEMMA LogInit == Init => LogInv
  BY DEF Init, Idle, LogInv, LogHolds, Owing

LEMMA LogNext == Ready /\ LogInv /\ [Next]_vars => LogInv'
  <1> SUFFICES ASSUME Ready, LogInv, [Next]_vars
               PROVE  LogInv'
    OBVIOUS
  <1>0. audit \subseteq Request /\ changed \subseteq Request /\ \A r \in Request : LogHolds(r)
    BY DEF LogInv
  <1>1. ASSUME NEW r \in Request, Only(r), LogFrame(r), LogHolds(r)'
        PROVE  LogInv'
    <2>1. ASSUME NEW q \in Request \ {r}
          PROVE  LogHolds(q)'
      BY <1>0, <1>1, LogOthers DEF Only
    <2>2. QED
      BY <1>0, <1>1, <2>1 DEF LogInv, LogFrame
  <1>2. ASSUME NEW r \in Request, NamespaceStep(r)
        PROVE  LogInv'
    BY <1>0, <1>1, <1>2, NamespacesMove, NamespacesLog DEF NamespaceStep, Ready
  <1>3. ASSUME NEW r \in Request, AccountStep(r)
        PROVE  LogInv'
    BY <1>0, <1>1, <1>3, AccountsMove, AccountsLog DEF AccountStep, Ready
  <1>4. ASSUME NEW r \in Request, MediaStep(r)
        PROVE  LogInv'
    BY <1>0, <1>1, <1>4, MediaMove, MediaLog DEF MediaStep, MdStep, Ready
  <1>5. ASSUME NEW r \in Request, ListingStep(r)
        PROVE  LogInv'
    BY <1>0, <1>1, <1>5, ListingMove, ListingLog DEF ListingStep, LsStep, Ready
  <1>6. ASSUME NEW r \in Request, BlocklistStep(r)
        PROVE  LogInv'
    BY <1>0, <1>1, <1>6, BlocklistMove, BlocklistLog DEF BlocklistStep, Ready
  <1>7. ASSUME NEW r \in Request, RequestStep(r)
        PROVE  LogInv'
    <2>1. (Log(r) \/ Lose(r)) /\ UNCHANGED topic
      BY <1>7 DEF RequestStep
    <2>2. Only(r) /\ h'[r].op = h[r].op /\ h'[r].seen = h[r].seen
      BY <2>1, RequestTopic
    <2>3. CASE Log(r)
      BY <1>0, <1>1, <2>2, <2>3, GoStep DEF Log, Ready, LogFrame, LogHolds, Owing, Over
    <2>4. CASE Lose(r)
      BY <1>0, <1>1, <2>2, <2>4, GoStep
         DEF Lose, InFlight, Ready, LogFrame, LogHolds, Owing, Over
    <2>5. QED
      BY <2>1, <2>3, <2>4
  <1>8. CASE ServerStep
    <2>1. UNCHANGED <<audit, changed>> /\ UNCHANGED topic
      BY <1>8 DEF ServerStep, Restart, Expire, Tick
    <2>2. CASE UNCHANGED h
      BY <1>0, <2>1, <2>2 DEF LogInv, LogHolds
    <2>3. CASE Restart
      <3>1. ASSUME NEW q \in Request
            PROVE  LogHolds(q)'
        <4>1. CASE InFlight(q)
          BY <1>0, <2>1, <2>3, <4>1, RestartTopic DEF LogHolds, InFlight, Owing, Over
        <4>2. CASE ~InFlight(q)
          BY <1>0, <2>1, <2>3, <4>2, RestartTopic DEF LogHolds
        <4>3. QED
          BY <4>1, <4>2
      <3>2. QED
        BY <1>0, <2>1, <3>1 DEF LogInv
    <2>4. QED
      BY <1>8, <2>2, <2>3 DEF ServerStep, Expire, Tick
  <1>9. CASE UNCHANGED vars
    BY <1>0, <1>9 DEF vars, shared, LogInv, LogHolds
  <1>10. QED
    BY <1>2, <1>3, <1>4, <1>5, <1>6, <1>7, <1>8, <1>9 DEF Next

THEOREM LogInvariant == Spec => []LogInv
  BY LogInit, LogNext, HandlersReady, PTL DEF Spec

\* Over all services, and however many requests: what has been changed and
\* answered is in the audit log, with the exceptions that LogMatchesChanges
\* names, and an entry tells of a change.
THEOREM LogMatches == Spec => []LogMatchesChanges
  <1>1. LogInv => LogMatchesChanges
    BY DEF LogInv, LogHolds, LogMatchesChanges
  <1>2. QED
    BY <1>1, LogInvariant, PTL

-----------------------------------------------------------------------------
(* The media.                                                                *)

Uploading(r) == h[r].pc # "idle" /\ h[r].op = "upload"

\* What a handler holds, depending on where it is.
MdHolds(r) ==
  /\ h[r].pc = "idle" => h[r].op # "discard"
  /\ h[r].pc # "idle" /\ h[r].op \in MdOps => h[r].key \in Request
  /\ Uploading(r) => h[r].key = r /\ h[r].seen \in Content
  /\ media[r] # Nil => Uploading(r) /\ h[r].pc # "row"
  /\ media[r] # Nil /\ r \notin bytes =>
       h[r].pc \in {"put", "cleanup", "refused", "lost"} \/ Discarded(r)
  /\ \A m \in Request : h[r].pc = "variant" /\ h[r].key = m =>
       inline \/ m \in objects \/ Discarded(m)

VariantsStored == \A m \in variants : inline \/ m \in objects \/ Discarded(m)

MdSafe == MdTypeOK /\ NothingOutlivesMedia /\ VariantsStored

MdInv ==
  /\ MdSafe
  /\ topic = "media" => \A r \in Request : MdHolds(r)
  /\ topic # "media" => inline /\ variants = {} /\ media = [m \in Request |-> Nil]

\* What a step leaves to the others.
MdFrame(r) ==
  /\ \A m \in Request \ {r} : media'[m] # Nil =>
       media[m] # Nil /\ (m \in bytes => m \in bytes' \/ Discarded(m))
  /\ \A m \in Request : Discarded(m) => Discarded(m)'
  /\ \A m \in objects : m \in objects' \/ Discarded(m)

LEMMA DiscardedStays ==
  ASSUME NEW r \in Request, Only(r), \A q \in Request : MdHolds(q),
         h[r].pc = "idle" \/ (h'[r].op = h[r].op /\ h'[r].key = h[r].key)
  PROVE  \A m \in Request : Discarded(m) => Discarded(m)'
  <1> SUFFICES ASSUME NEW m \in Request, NEW d \in Request,
                      h[d].op = "discard", h[d].key = m
               PROVE  h'[d].op = "discard" /\ h'[d].key = m
    BY DEF Discarded
  <1>1. h[d].pc # "idle"
    BY DEF MdHolds
  <1>2. QED
    BY <1>1 DEF Only

LEMMA DiscardedKey ==
  ASSUME NEW r \in Request, h[r].op = "discard"
  PROVE  \A m \in Request : m = h[r].key => Discarded(m)
  BY DEF Discarded

LEMMA MediaStepSafe ==
  ASSUME MdSafe, Ready, \A q \in Request : MdHolds(q), NEW r \in Request, MdStep(r),
         UNCHANGED topic
  PROVE  MdSafe' /\ MdFrame(r) /\ MdHolds(r)'
  <1> USE DEF Ready, At, MdHolds, Uploading, MdOps
  <1>0. UNCHANGED inline
    BY DEF MdStep
  <1>1. CASE LookForHash(r)
    <2>1. /\ Only(r) /\ h[r].pc = "idle" /\ h'[r].pc = "row" /\ h'[r].op = "upload"
          /\ h'[r].key = r /\ h'[r].seen \in Content
      BY <1>1, ArriveStep DEF LookForHash
    <2>2. UNCHANGED <<media, bytes, variants, objects>>
      BY <1>1, <2>1, ArriveStep DEF LookForHash, mdStore, Cascade
    <2>3. \A m \in Request : Discarded(m) => Discarded(m)'
      BY <2>1, DiscardedStays
    <2>4. MdSafe'
      BY <1>0, <2>1, <2>2, <2>3, MediaAssumption
         DEF MdSafe, MdTypeOK, NothingOutlivesMedia, VariantsStored
    <2>5. MdFrame(r)
      BY <2>1, <2>2, <2>3 DEF MdFrame, MdSafe, MdTypeOK
    <2>6. MdHolds(r)'
      BY <1>0, <2>1, <2>2, <2>3, MediaAssumption DEF MdSafe, MdTypeOK, MdFrame
    <2>7. QED
      BY <2>4, <2>5, <2>6
  <1>2. CASE InsertMedia(r)
    <2>1. /\ Only(r) /\ h[r].pc = "row" /\ h[r].op = "upload" /\ h'[r].pc \in {"put", "refused"}
          /\ h'[r].op = h[r].op /\ h'[r].key = h[r].key /\ h'[r].seen = h[r].seen
      BY <1>2, GoStep DEF InsertMedia
    <2>2. /\ UNCHANGED <<bytes, variants, objects>>
          /\ \/ media' = [media EXCEPT ![r] = h[r].seen] /\ h'[r].pc = "put"
             \/ media' = media
      BY <1>2, <2>1, GoStep DEF InsertMedia, mdStore, Cascade
    <2>3. \A m \in Request : Discarded(m) => Discarded(m)'
      BY <2>1, DiscardedStays
    <2>4. MdSafe'
      BY <1>0, <2>1, <2>2, <2>3, MediaAssumption
         DEF MdSafe, MdTypeOK, NothingOutlivesMedia, VariantsStored
    <2>5. MdFrame(r)
      BY <2>1, <2>2, <2>3 DEF MdFrame, MdSafe, MdTypeOK
    <2>6. MdHolds(r)'
      BY <1>0, <2>1, <2>2, <2>3, MediaAssumption DEF MdSafe, MdTypeOK, MdFrame
    <2>7. QED
      BY <2>4, <2>5, <2>6
  <1>3. CASE PutBytes(r)
    <2>1. /\ Only(r) /\ h[r].pc = "put" /\ h[r].op = "upload" /\ h'[r].pc \in {"clear", "done"}
          /\ h'[r].op = h[r].op /\ h'[r].key = h[r].key /\ h'[r].seen = h[r].seen
      BY <1>3, GoStep DEF PutBytes
    <2>2. /\ inline => media[r] # Nil
          /\ bytes' = bytes \cup {r} /\ UNCHANGED <<media, variants, objects>>
      BY <1>3, <2>1, GoStep DEF PutBytes, mdStore, Cascade
    <2>3. \A m \in Request : Discarded(m) => Discarded(m)'
      BY <2>1, DiscardedStays
    <2>4. MdSafe'
      BY <1>0, <2>1, <2>2, <2>3, MediaAssumption
         DEF MdSafe, MdTypeOK, NothingOutlivesMedia, VariantsStored
    <2>5. MdFrame(r)
      BY <2>1, <2>2, <2>3 DEF MdFrame, MdSafe, MdTypeOK
    <2>6. MdHolds(r)'
      BY <1>0, <2>1, <2>2, <2>3, MediaAssumption DEF MdSafe, MdTypeOK, MdFrame
    <2>7. QED
      BY <2>4, <2>5, <2>6
  <1>4. CASE PutFails(r)
    <2>1. /\ Only(r) /\ h[r].pc = "put" /\ h[r].op = "upload" /\ h'[r].pc \in {"cleanup"}
          /\ h'[r].op = h[r].op /\ h'[r].key = h[r].key /\ h'[r].seen = h[r].seen
      BY <1>4, GoStep DEF PutFails
    <2>2. UNCHANGED <<media, bytes, variants, objects>>
      BY <1>4, <2>1, GoStep DEF PutFails, mdStore, Cascade
    <2>3. \A m \in Request : Discarded(m) => Discarded(m)'
      BY <2>1, DiscardedStays
    <2>4. MdSafe'
      BY <1>0, <2>1, <2>2, <2>3, MediaAssumption
         DEF MdSafe, MdTypeOK, NothingOutlivesMedia, VariantsStored
    <2>5. MdFrame(r)
      BY <2>1, <2>2, <2>3 DEF MdFrame, MdSafe, MdTypeOK
    <2>6. MdHolds(r)'
      BY <1>0, <2>1, <2>2, <2>3, MediaAssumption DEF MdSafe, MdTypeOK, MdFrame
    <2>7. QED
      BY <2>4, <2>5, <2>6
  <1>5. CASE Cleanup(r)
    <2>1. /\ Only(r) /\ h[r].pc = "cleanup" /\ h[r].op = "upload" /\ h'[r].pc \in {"refused"}
          /\ h'[r].op = h[r].op /\ h'[r].key = h[r].key /\ h'[r].seen = h[r].seen
      BY <1>5, GoStep DEF Cleanup
    <2>2. /\ UNCHANGED objects
          /\ \/ /\ media' = [media EXCEPT ![r] = Nil]
                /\ variants' = variants \ {r}
                /\ bytes' = IF inline THEN bytes \ {r} ELSE bytes
             \/ UNCHANGED <<media, bytes, variants>>
      BY <1>5, <2>1, GoStep DEF Cleanup, mdStore, Cascade
    <2>3. \A m \in Request : Discarded(m) => Discarded(m)'
      BY <2>1, DiscardedStays
    <2>4. MdSafe'
      BY <1>0, <2>1, <2>2, <2>3, MediaAssumption
         DEF MdSafe, MdTypeOK, NothingOutlivesMedia, VariantsStored
    <2>5. MdFrame(r)
      BY <2>1, <2>2, <2>3 DEF MdFrame, MdSafe, MdTypeOK
    <2>6. MdHolds(r)'
      BY <1>0, <2>1, <2>2, <2>3, MediaAssumption DEF MdSafe, MdTypeOK, MdFrame
    <2>7. QED
      BY <2>4, <2>5, <2>6
  <1>6. CASE Fetch(r)
    <2>1. /\ Only(r) /\ h[r].pc = "idle" /\ h'[r].pc = "clear" /\ h'[r].op = "regenerate"
          /\ h'[r].key \in Request
      BY <1>6, ArriveStep DEF Fetch
    <2>2. UNCHANGED <<media, bytes, variants, objects>>
      BY <1>6, <2>1, ArriveStep DEF Fetch, mdStore, Cascade
    <2>3. \A m \in Request : Discarded(m) => Discarded(m)'
      BY <2>1, DiscardedStays
    <2>4. MdSafe'
      BY <1>0, <2>1, <2>2, <2>3, MediaAssumption
         DEF MdSafe, MdTypeOK, NothingOutlivesMedia, VariantsStored
    <2>5. MdFrame(r)
      BY <2>1, <2>2, <2>3 DEF MdFrame, MdSafe, MdTypeOK
    <2>6. MdHolds(r)'
      BY <1>0, <2>1, <2>2, <2>3, MediaAssumption DEF MdSafe, MdTypeOK, MdFrame
    <2>7. QED
      BY <2>4, <2>5, <2>6
  <1>7. CASE ClearVariants(r)
    <2>0. h[r].op \in MdOps
      BY <1>7, MediaPcs DEF ClearVariants
    <2>1. /\ Only(r) /\ h[r].pc = "clear" /\ h[r].op \in MdOps /\ h'[r].pc \in {"variant", "object"}
          /\ h'[r].op = h[r].op /\ h'[r].key = h[r].key /\ h'[r].seen = h[r].seen
          /\ h'[r].pc = "variant" => inline
      BY <1>7, <2>0, GoStep DEF ClearVariants
    <2>2. variants' \subseteq variants /\ UNCHANGED <<media, bytes, objects>>
      BY <1>7, <2>1, GoStep DEF ClearVariants, mdStore, Cascade
    <2>3. \A m \in Request : Discarded(m) => Discarded(m)'
      BY <2>1, DiscardedStays
    <2>4. MdSafe'
      BY <1>0, <2>1, <2>2, <2>3, <2>0, MediaAssumption
         DEF MdSafe, MdTypeOK, NothingOutlivesMedia, VariantsStored
    <2>5. MdFrame(r)
      BY <2>1, <2>2, <2>3, <2>0 DEF MdFrame, MdSafe, MdTypeOK
    <2>6. MdHolds(r)'
      BY <1>0, <2>1, <2>2, <2>3, MediaAssumption DEF MdSafe, MdTypeOK, MdFrame
    <2>7. QED
      BY <2>4, <2>5, <2>6
  <1>8. CASE PutObject(r)
    <2>0. h[r].op \in MdOps
      BY <1>8, MediaPcs DEF PutObject
    <2>1. /\ Only(r) /\ h[r].pc = "object" /\ h[r].op \in MdOps /\ h'[r].pc \in {"variant", "done"}
          /\ h'[r].op = h[r].op /\ h'[r].key = h[r].key /\ h'[r].seen = h[r].seen
      BY <1>8, <2>0, GoStep DEF PutObject
    <2>2. /\ UNCHANGED <<media, bytes, variants>>
          /\ \/ objects' = objects \cup {h[r].key}
             \/ UNCHANGED objects /\ h'[r].pc = "done"
      BY <1>8, <2>1, GoStep DEF PutObject, mdStore, Cascade
    <2>3. \A m \in Request : Discarded(m) => Discarded(m)'
      BY <2>1, DiscardedStays
    <2>4. MdSafe'
      BY <1>0, <2>1, <2>2, <2>3, <2>0, MediaAssumption
         DEF MdSafe, MdTypeOK, NothingOutlivesMedia, VariantsStored
    <2>5. MdFrame(r)
      BY <2>1, <2>2, <2>3, <2>0 DEF MdFrame, MdSafe, MdTypeOK
    <2>6. MdHolds(r)'
      BY <1>0, <2>1, <2>2, <2>3, MediaAssumption DEF MdSafe, MdTypeOK, MdFrame
    <2>7. QED
      BY <2>4, <2>5, <2>6
  <1>9. CASE PutVariant(r)
    <2>0. h[r].op \in MdOps
      BY <1>9, MediaPcs DEF PutVariant
    <2>1. /\ Only(r) /\ h[r].pc = "variant" /\ h[r].op \in MdOps /\ h'[r].pc \in {"done"}
          /\ h'[r].op = h[r].op /\ h'[r].key = h[r].key /\ h'[r].seen = h[r].seen
      BY <1>9, <2>0, GoStep DEF PutVariant
    <2>2. /\ UNCHANGED <<media, bytes, objects>>
          /\ \/ media[h[r].key] # Nil /\ variants' = variants \cup {h[r].key}
             \/ UNCHANGED variants
      BY <1>9, <2>1, GoStep DEF PutVariant, mdStore, Cascade
    <2>3. \A m \in Request : Discarded(m) => Discarded(m)'
      BY <2>1, DiscardedStays
    <2>4. MdSafe'
      BY <1>0, <2>1, <2>2, <2>3, <2>0, MediaAssumption
         DEF MdSafe, MdTypeOK, NothingOutlivesMedia, VariantsStored
    <2>5. MdFrame(r)
      BY <2>1, <2>2, <2>3, <2>0 DEF MdFrame, MdSafe, MdTypeOK
    <2>6. MdHolds(r)'
      BY <1>0, <2>1, <2>2, <2>3, MediaAssumption DEF MdSafe, MdTypeOK, MdFrame
    <2>7. QED
      BY <2>4, <2>5, <2>6
  <1>10. CASE FindMedia(r)
    <2>1. /\ Only(r) /\ h[r].pc = "idle" /\ h'[r].pc = "bytes" /\ h'[r].op = "discard"
          /\ h'[r].key \in Request
      BY <1>10, ArriveStep DEF FindMedia
    <2>2. UNCHANGED <<media, bytes, variants, objects>>
      BY <1>10, <2>1, ArriveStep DEF FindMedia, mdStore, Cascade
    <2>3. \A m \in Request : Discarded(m) => Discarded(m)'
      BY <2>1, DiscardedStays
    <2>4. MdSafe'
      BY <1>0, <2>1, <2>2, <2>3, MediaAssumption
         DEF MdSafe, MdTypeOK, NothingOutlivesMedia, VariantsStored
    <2>5. MdFrame(r)
      BY <2>1, <2>2, <2>3 DEF MdFrame, MdSafe, MdTypeOK
    <2>6. MdHolds(r)'
      BY <1>0, <2>1, <2>2, <2>3, MediaAssumption DEF MdSafe, MdTypeOK, MdFrame
    <2>7. QED
      BY <2>4, <2>5, <2>6
  <1>11. CASE DeleteBytes(r)
    <2>0. \A m \in Request : m = h[r].key => Discarded(m)
      BY <1>11, DiscardedKey DEF DeleteBytes
    <2>1. /\ Only(r) /\ h[r].pc = "bytes" /\ h[r].op = "discard" /\ h'[r].pc \in {"objects"}
          /\ h'[r].op = h[r].op /\ h'[r].key = h[r].key /\ h'[r].seen = h[r].seen
      BY <1>11, <2>0, GoStep DEF DeleteBytes
    <2>2. bytes' = bytes \ {h[r].key} /\ UNCHANGED <<media, variants, objects>>
      BY <1>11, <2>1, GoStep DEF DeleteBytes, mdStore, Cascade
    <2>3. \A m \in Request : Discarded(m) => Discarded(m)'
      BY <2>1, DiscardedStays
    <2>4. MdSafe'
      BY <1>0, <2>1, <2>2, <2>3, <2>0, MediaAssumption
         DEF MdSafe, MdTypeOK, NothingOutlivesMedia, VariantsStored
    <2>5. MdFrame(r)
      BY <2>1, <2>2, <2>3, <2>0 DEF MdFrame, MdSafe, MdTypeOK
    <2>6. MdHolds(r)'
      BY <1>0, <2>1, <2>2, <2>3, MediaAssumption DEF MdSafe, MdTypeOK, MdFrame
    <2>7. QED
      BY <2>4, <2>5, <2>6
  <1>12. CASE DeleteObjects(r)
    <2>0. \A m \in Request : m = h[r].key => Discarded(m)
      BY <1>12, DiscardedKey DEF DeleteObjects
    <2>1. /\ Only(r) /\ h[r].pc = "objects" /\ h[r].op = "discard" /\ h'[r].pc \in {"row"}
          /\ h'[r].op = h[r].op /\ h'[r].key = h[r].key /\ h'[r].seen = h[r].seen
      BY <1>12, <2>0, GoStep DEF DeleteObjects
    <2>2. objects' \subseteq objects /\ objects \ {h[r].key} \subseteq objects'
          /\ UNCHANGED <<media, bytes, variants>>
      BY <1>12, <2>1, GoStep DEF DeleteObjects, mdStore, Cascade
    <2>3. \A m \in Request : Discarded(m) => Discarded(m)'
      BY <2>1, DiscardedStays
    <2>4. MdSafe'
      BY <1>0, <2>1, <2>2, <2>3, <2>0, MediaAssumption
         DEF MdSafe, MdTypeOK, NothingOutlivesMedia, VariantsStored
    <2>5. MdFrame(r)
      BY <2>1, <2>2, <2>3, <2>0 DEF MdFrame, MdSafe, MdTypeOK
    <2>6. MdHolds(r)'
      BY <1>0, <2>1, <2>2, <2>3, MediaAssumption DEF MdSafe, MdTypeOK, MdFrame
    <2>7. QED
      BY <2>4, <2>5, <2>6
  <1>13. CASE DeleteMedia(r)
    <2>1. /\ Only(r) /\ h[r].pc = "row" /\ h[r].op = "discard" /\ h'[r].pc \in {"done", "refused"}
          /\ h'[r].op = h[r].op /\ h'[r].key = h[r].key /\ h'[r].seen = h[r].seen
      BY <1>13, GoStep DEF DeleteMedia
    <2>2. /\ UNCHANGED objects
          /\ media' = [media EXCEPT ![h[r].key] = Nil] /\ variants' = variants \ {h[r].key}
          /\ bytes' = IF inline THEN bytes \ {h[r].key} ELSE bytes
      BY <1>13, <2>1, GoStep DEF DeleteMedia, mdStore, Cascade
    <2>3. \A m \in Request : Discarded(m) => Discarded(m)'
      BY <2>1, DiscardedStays
    <2>4. MdSafe'
      BY <1>0, <2>1, <2>2, <2>3, MediaAssumption
         DEF MdSafe, MdTypeOK, NothingOutlivesMedia, VariantsStored
    <2>5. MdFrame(r)
      BY <2>1, <2>2, <2>3 DEF MdFrame, MdSafe, MdTypeOK
    <2>6. MdHolds(r)'
      BY <1>0, <2>1, <2>2, <2>3, MediaAssumption DEF MdSafe, MdTypeOK, MdFrame
    <2>7. QED
      BY <2>4, <2>5, <2>6
  <1>14. QED
    BY <1>1, <1>2, <1>3, <1>4, <1>5, <1>6, <1>7, <1>8, <1>9, <1>10, <1>11, <1>12, <1>13 DEF MdStep

\* The others keep what they hold.
LEMMA MdOthersHold ==
  ASSUME NEW r \in Request, Only(r), MdFrame(r), UNCHANGED inline,
         NEW q \in Request \ {r}, MdHolds(q)
  PROVE  MdHolds(q)'
  <1>1. h'[q] = h[q]
    BY DEF Only
  <1>2. Discarded(q) => Discarded(q)'
    BY DEF MdFrame
  <1>3. media'[q] # Nil /\ q \notin bytes' => media[q] # Nil /\ (q \notin bytes \/ Discarded(q))
    BY DEF MdFrame
  <1>4. ASSUME NEW m \in Request, m \in objects \/ Discarded(m)
        PROVE  m \in objects' \/ Discarded(m)'
    BY <1>4 DEF MdFrame
  <1>5. media'[q] # Nil => media[q] # Nil
    BY DEF MdFrame
  <1>6. QED
    BY <1>1, <1>2, <1>3, <1>4, <1>5 DEF MdHolds, Uploading

LEMMA MediaInit == Init => MdInv
  <1> SUFFICES ASSUME Init
               PROVE  MdInv
    OBVIOUS
  <1>1. /\ inline \in BOOLEAN /\ (topic # "media" => inline)
        /\ media = [m \in Request |-> Nil] /\ bytes = {} /\ variants = {} /\ objects = {}
    BY DEF Init, MdInit
  <1>2. MdSafe
    BY <1>1 DEF MdSafe, MdTypeOK, NothingOutlivesMedia, VariantsStored
  <1>3. ASSUME NEW r \in Request
        PROVE  MdHolds(r)
    <2>1. h[r].pc = "idle" /\ h[r].op = Nil
      BY DEF Init, Idle
    <2>2. Nil # "discard"
      BY MediaAssumption
    <2>3. QED
      BY <1>1, <2>1, <2>2 DEF MdHolds, Uploading
  <1>4. QED
    BY <1>1, <1>2, <1>3 DEF MdInv

LEMMA MediaNext == MdInv /\ Ready /\ [Next]_vars => MdInv'
  <1> SUFFICES ASSUME MdInv, Ready, [Next]_vars
               PROVE  MdInv'
    OBVIOUS
  <1>1. ASSUME NEW r \in Request, MediaStep(r)
        PROVE  MdInv'
    <2>1. MdStep(r) /\ UNCHANGED topic /\ UNCHANGED inline
      BY <1>1 DEF MediaStep, MdStep
    <2>2. topic = "media" /\ Only(r)
      BY <2>1, MediaTopic, MediaMove DEF Ready
    <2>3. MdSafe' /\ MdFrame(r) /\ MdHolds(r)'
      BY <2>1, <2>2, MediaStepSafe DEF MdInv
    <2>4. \A q \in Request : MdHolds(q)'
      BY <2>1, <2>2, <2>3, MdOthersHold DEF MdInv
    <2>5. QED
      BY <2>1, <2>2, <2>3, <2>4 DEF MdInv
  <1>2. ASSUME topic # "media", UNCHANGED topic, UNCHANGED mdVars
        PROVE  MdInv'
    BY <1>2 DEF MdInv, MdSafe, MdTypeOK, NothingOutlivesMedia, VariantsStored, mdVars, mdStore
  <1>3. ASSUME NEW r \in Request, RequestStep(r)
        PROVE  MdInv'
    <2>1. (Log(r) \/ Lose(r)) /\ UNCHANGED topic /\ UNCHANGED mdVars
      BY <1>3 DEF RequestStep
    <2>2. CASE topic # "media"
      BY <1>2, <2>1, <2>2
    <2>3. CASE topic = "media"
      <3>1. /\ Only(r) /\ h[r].pc # "idle" /\ h'[r].pc \in {"done", "lost"}
            /\ h'[r].op = h[r].op /\ h'[r].key = h[r].key /\ h'[r].seen = h[r].seen
        BY <2>1, RequestTopic
      <3>2. \A m \in Request : Discarded(m) => Discarded(m)'
        BY <2>3, <3>1, DiscardedStays DEF MdInv
      <3>3. UNCHANGED <<inline, media, bytes, variants, objects>>
        BY <2>1 DEF mdVars, mdStore
      <3>4. MdFrame(r)
        BY <3>2, <3>3 DEF MdFrame
      <3>5. MdSafe'
        BY <3>2, <3>3 DEF MdInv, MdSafe, MdTypeOK, NothingOutlivesMedia, VariantsStored
      <3>6. MdHolds(r)'
        <4>1. h[r].pc \in {"put", "cleanup", "refused", "lost"} => h'[r].pc = "lost"
          BY <2>1, <3>1, GoStep DEF Log, Lose, Ready
        <4>2. MdHolds(r)
          BY <2>3 DEF MdInv
        <4>3. QED
          BY <3>1, <3>2, <3>3, <4>1, <4>2 DEF MdHolds, Uploading
      <3>7. \A q \in Request : MdHolds(q)'
        BY <2>3, <3>1, <3>3, <3>4, <3>6, MdOthersHold DEF MdInv
      <3>8. QED
        BY <2>1, <2>3, <3>5, <3>7 DEF MdInv
    <2>4. QED
      BY <2>2, <2>3
  <1>4. ASSUME NEW r \in Request,
               NamespaceStep(r) \/ BlocklistStep(r) \/ AccountStep(r) \/ ListingStep(r)
        PROVE  MdInv'
    <2>1. UNCHANGED topic /\ UNCHANGED mdVars
      BY <1>4 DEF NamespaceStep, BlocklistStep, AccountStep, ListingStep
    <2>2. topic # "media"
      BY <1>4, <2>1, NamespacesTopic, BlocklistTopic, AccountsTopic, ListingTopic
         DEF NamespaceStep, BlocklistStep, AccountStep, ListingStep
    <2>3. QED
      BY <1>2, <2>1, <2>2
  <1>5. CASE ServerStep
    BY <1>2, <1>5 DEF ServerStep, Restart, Expire, Tick
  <1>6. CASE UNCHANGED vars
    <2>1. UNCHANGED <<topic, h, inline, media, bytes, variants, objects>>
      BY <1>6 DEF vars, shared, mdVars, mdStore
    <2>2. \A m \in Request : Discarded(m) => Discarded(m)'
      BY <2>1 DEF Discarded
    <2>3. MdSafe'
      BY <2>1, <2>2 DEF MdInv, MdSafe, MdTypeOK, NothingOutlivesMedia, VariantsStored
    <2>4. ASSUME NEW r \in Request, MdHolds(r)
          PROVE  MdHolds(r)'
      BY <2>1, <2>2, <2>4 DEF MdHolds, Uploading
    <2>5. QED
      BY <2>1, <2>3, <2>4 DEF MdInv
  <1>7. QED
    BY <1>1, <1>3, <1>4, <1>5, <1>6 DEF Next

THEOREM MediaInvariant == Spec => []MdInv
  BY MediaInit, MediaNext, HandlersReady, PTL DEF Spec

\* What is listed can be served: however many uploads of the same content,
\* deletions of one media and regenerations overlap, only a failed upload or a
\* deletion leaves a row without its bytes or a variant without its object; and
\* in the database bytes and variants go with their media, also those that are
\* written late.
THEOREM MediaStaysWhole == Spec => []MediaIsWhole
  <1>1. MdInv => MediaIsServed
    BY DEF MdInv, MdSafe, VariantsStored, MdHolds, MediaIsServed, MdTypeOK
  <1>2. MdInv => NothingOutlivesMedia
    BY DEF MdInv, MdSafe
  <1>3. MdInv => MediaIsWhole
    BY <1>1, <1>2 DEF MediaIsWhole
  <1>4. QED
    BY <1>3, MediaInvariant, PTL

-----------------------------------------------------------------------------
(* The blocklist.                                                            *)

Refreshes == {"url", "install"}

\* What a refresh holds: one table, then both.
TableRead == [list : SUBSET Entries, of : SUBSET Request]

Read(pc) == IF pc = "url" THEN [ip : TableRead] ELSE [ip : TableRead, url : TableRead]

BlInv ==
  /\ BlTypeOK
  /\ topic = "blocklist" =>
       \A r \in Request : h[r].pc \in Refreshes => h[r].seen \in Read(h[r].pc)

LEMMA BlocklistNext == BlInv /\ LogInv /\ Ready /\ [Next]_vars => BlInv'
  <1> SUFFICES ASSUME BlInv, LogInv, Ready, [Next]_vars
               PROVE  BlInv'
    OBVIOUS
  <1>0. BlTypeOK /\ Handlers /\ changed \subseteq Request
    BY DEF BlInv, Ready, LogInv
  <1>1. ASSUME topic # "blocklist", UNCHANGED topic, UNCHANGED blVars
        PROVE  BlInv'
    BY <1>0, <1>1 DEF BlInv, BlTypeOK, blVars
  <1>2. ASSUME NEW r \in Request, BlocklistStep(r)
        PROVE  BlInv'
    <2>1. BlStep(r) /\ UNCHANGED topic
      BY <1>2 DEF BlocklistStep
    <2>2. topic = "blocklist"
      BY <2>1, BlocklistTopic DEF Ready
    <2>3. \A q \in Request : h[q].pc \in Refreshes => h[q].seen \in Read(h[q].pc)
      BY <2>2 DEF BlInv
    <2>4. \A k \in Kind : Reading(k) \in TableRead
      BY <1>0 DEF BlTypeOK, BlRows, Rows, Listed, Reading, TableRead
    <2>5. ASSUME BlTypeOK', Only(r), h'[r].pc \in Refreshes => h'[r].seen \in Read(h'[r].pc)
          PROVE  BlInv'
      BY <2>3, <2>5 DEF BlInv, Only
    <2>6. CASE BlockEntry(r)
      <3>1. BlTypeOK'
        BY <1>0, <2>6 DEF BlockEntry, BlTypeOK, BlRows
      <3>2. Only(r) /\ h'[r].pc = "ip"
        BY <1>0, <2>6, ArriveStep DEF BlockEntry
      <3>3. QED
        BY <2>5, <3>1, <3>2 DEF Refreshes
    <2>7. CASE ReadForUnblock(r)
      <3>1. BlTypeOK'
        BY <1>0, <2>7 DEF ReadForUnblock, BlTypeOK, blVars
      <3>2. Only(r) /\ h'[r].pc = "unblock"
        BY <1>0, <2>7, ArriveStep DEF ReadForUnblock
      <3>3. QED
        BY <2>5, <3>1, <3>2 DEF Refreshes
    <2>8. CASE Unblock(r)
      <3>1. BlTypeOK'
        BY <1>0, <2>8 DEF Unblock, BlTypeOK
      <3>2. Only(r) /\ h'[r].pc \in {"ip", "refused"}
        BY <1>0, <2>8, GoStep DEF Unblock
      <3>3. QED
        BY <2>5, <3>1, <3>2 DEF Refreshes
    <2>9. CASE ReadAddresses(r)
      <3>1. BlTypeOK'
        BY <1>0, <2>9 DEF ReadAddresses, BlTypeOK, blVars
      <3>2. Only(r) /\ h'[r].seen = [ip |-> Reading("ip")] /\ h'[r].pc = "url"
        BY <1>0, <2>9, GoWithStep DEF ReadAddresses
      <3>3. h'[r].seen \in Read("url")
        BY <2>4, <3>2 DEF Read, Kind
      <3>4. QED
        BY <2>5, <3>1, <3>2, <3>3
    <2>10. CASE ReadPatterns(r)
      <3>1. BlTypeOK'
        BY <1>0, <2>10 DEF ReadPatterns, BlTypeOK, blVars
      <3>2. /\ Only(r) /\ h'[r].pc = "install"
            /\ h'[r].seen = [ip |-> h[r].seen.ip, url |-> Reading("url")]
        BY <1>0, <2>10, GoWithStep DEF ReadPatterns
      <3>3. h[r].seen \in [ip : TableRead]
        BY <2>3, <2>10 DEF ReadPatterns, Refreshes, Read
      <3>4. h'[r].seen \in Read("install")
        BY <2>4, <3>2, <3>3 DEF Read, Kind
      <3>5. QED
        BY <2>5, <3>1, <3>2, <3>4
    <2>11. CASE Install(r)
      <3>1. h[r].seen \in [ip : TableRead, url : TableRead]
        BY <2>3, <2>11 DEF Install, Refreshes, Read
      <3>2. \A k \in Kind : h[r].seen[k].list \subseteq Entries /\ h[r].seen[k].of \subseteq Request
        BY <3>1 DEF TableRead, Kind
      <3>3. BlTypeOK'
        BY <1>0, <2>11, <3>2 DEF Install, BlTypeOK, Lists
      <3>4. Only(r) /\ h'[r].pc = "log"
        BY <1>0, <2>11, GoStep DEF Install
      <3>5. QED
        BY <2>5, <3>3, <3>4 DEF Refreshes
    <2>12. QED
      BY <2>1, <2>6, <2>7, <2>8, <2>9, <2>10, <2>11 DEF BlStep
  <1>3. ASSUME NEW r \in Request, RequestStep(r)
        PROVE  BlInv'
    <2>1. (Log(r) \/ Lose(r)) /\ UNCHANGED topic /\ UNCHANGED blVars
      BY <1>3 DEF RequestStep
    <2>2. Only(r) /\ h'[r].pc \in {"done", "lost"}
      BY <2>1, RequestTopic
    <2>3. QED
      BY <1>0, <2>1, <2>2 DEF BlInv, BlTypeOK, blVars, Only, Refreshes
  <1>4. ASSUME NEW r \in Request,
               NamespaceStep(r) \/ AccountStep(r) \/ MediaStep(r) \/ ListingStep(r)
        PROVE  BlInv'
    <2>1. UNCHANGED topic /\ UNCHANGED blVars
      BY <1>4 DEF NamespaceStep, AccountStep, MediaStep, ListingStep
    <2>2. topic # "blocklist"
      BY <1>4, NamespacesTopic, AccountsTopic, MediaTopic, ListingTopic
         DEF NamespaceStep, AccountStep, MediaStep, ListingStep, Ready
    <2>3. QED
      BY <1>1, <2>1, <2>2
  <1>5. CASE ServerStep
    <2>1. CASE Restart
      <3>1. snapshot' \in Lists
        BY <1>0, <2>1 DEF Restart, BlTypeOK, BlRows, Rows, Listed, Lists
      <3>2. BlTypeOK'
        BY <1>0, <2>1, <3>1, Zenon DEF Restart, BlTypeOK
      <3>3. \A q \in Request : h'[q] = h[q] \/ h'[q].pc = "lost"
        BY <1>5, <2>1, RestartTopic DEF ServerStep
      <3>4. QED
        BY <1>5, <3>2, <3>3 DEF ServerStep, BlInv, Refreshes
    <2>2. CASE UNCHANGED h /\ UNCHANGED blVars
      BY <1>0, <1>5, <2>2 DEF ServerStep, BlInv, BlTypeOK, blVars
    <2>3. QED
      BY <1>5, <2>1, <2>2 DEF ServerStep, Expire, Tick
  <1>6. CASE UNCHANGED vars
    BY <1>0, <1>6 DEF vars, shared, BlInv, BlTypeOK, blVars
  <1>7. QED
    BY <1>2, <1>3, <1>4, <1>5, <1>6 DEF Next

-----------------------------------------------------------------------------
(* The snapshot.  A table that was read lags behind the table as it is now by *)
(* the changes made since it was read, one entry each; and the change of a    *)
(* request that has refreshed was known to something that has been installed. *)

Within(lag, owing) == IsFiniteSet(lag) /\ Cardinality(lag) <= Cardinality(owing)

\* A list that was read after the changes in of lags by the others in all.
Behind(list, enforced, all, of) ==
  of \subseteq all /\ Within(Lag(list, enforced), all \ of)

SnapshotFollows ==
  \A k \in Kind : Behind(Listed(k), snapshot[k], changed, current[k])

ReadBy(r) == IF h[r].pc = "url" THEN {"ip"} ELSE Kind

\* What r has read knows of the change of r.
RefreshFollows(r) ==
  h[r].pc \in Refreshes =>
    \A k \in ReadBy(r) :
      /\ r \in h[r].seen[k].of
      /\ Behind(Listed(k), h[r].seen[k].list, changed, h[r].seen[k].of)

Refreshed(r) ==
  r \in changed =>
    /\ h[r].pc # "refused"
    /\ h[r].pc \in {"log", "done"} => \A k \in Kind : r \in newest[k]

TrailHolds(r) ==
  /\ RefreshFollows(r)
  /\ Refreshed(r)
  /\ h[r].pc = "idle" => blocked[r] = Nil
  /\ At(r, "unblock", "unblock") => h[r].key \in Request

TrailInv ==
  IF topic = "blocklist" THEN SnapshotFollows /\ \A r \in Request : TrailHolds(r)
  ELSE BlInit

\* A list that has just been read lags behind nothing.
LEMMA FreshBehind ==
  ASSUME NEW list, NEW all
  PROVE  Behind(list, list, all, all)
  BY FS_EmptySet DEF Behind, Within, Lag

\* Two states of a list differ in e at most.
ButFor(list, next, e) == list \ {e} \subseteq next /\ next \ {e} \subseteq list

\* One of those who owe, r, is new.
Joins(owing, more, r) ==
  IsFiniteSet(more) /\ owing \subseteq more /\ r \in more /\ r \notin owing

LEMMA AtMostOneMore ==
  ASSUME NEW S, NEW e, IsFiniteSet(S)
  PROVE  IsFiniteSet(S \cup {e}) /\ Cardinality(S \cup {e}) <= Cardinality(S) + 1
  <1>1. Cardinality(S) \in Nat
    BY FS_CardinalityType
  <1>2. /\ IsFiniteSet(S \cup {e})
        /\ Cardinality(S \cup {e}) = IF e \in S THEN Cardinality(S) ELSE Cardinality(S) + 1
    BY FS_AddElement
  <1>3. QED
    BY <1>1, <1>2

\* One more entry differs, and one more request owes a refresh.
LEMMA LagGrows ==
  ASSUME NEW list, NEW next, NEW enforced, NEW e, NEW owing, NEW more, NEW r,
         ButFor(list, next, e), Joins(owing, more, r),
         Within(Lag(list, enforced), owing)
  PROVE  Within(Lag(next, enforced), more)
  <1> DEFINE lag == Lag(list, enforced)
  <1>1. IsFiniteSet(lag \cup {e}) /\ Cardinality(lag \cup {e}) <= Cardinality(lag) + 1
    BY AtMostOneMore DEF Within
  <1>2. Lag(next, enforced) \subseteq lag \cup {e}
    BY DEF Lag, ButFor
  <1>3. /\ IsFiniteSet(Lag(next, enforced))
        /\ Cardinality(Lag(next, enforced)) <= Cardinality(lag \cup {e})
    BY <1>1, <1>2, FS_Subset
  <1>4. IsFiniteSet(more \ {r}) /\ Cardinality(more \ {r}) = Cardinality(more) - 1
    BY FS_RemoveElement DEF Joins
  <1>5. owing \subseteq more \ {r}
    BY DEF Joins
  <1>6. Cardinality(owing) <= Cardinality(more \ {r}) /\ IsFiniteSet(owing)
    BY <1>4, <1>5, FS_Subset
  <1>7. /\ Cardinality(lag) <= Cardinality(owing)
        /\ IsFiniteSet(lag)
    BY DEF Within
  <1>8. /\ Cardinality(lag) \in Nat /\ Cardinality(owing) \in Nat
        /\ Cardinality(more) \in Nat /\ Cardinality(lag \cup {e}) \in Nat
        /\ Cardinality(Lag(next, enforced)) \in Nat
    BY <1>1, <1>3, <1>6, <1>7, FS_CardinalityType DEF Joins
  <1> HIDE DEF lag
  <1>9. QED
    BY <1>1, <1>3, <1>4, <1>6, <1>7, <1>8 DEF Within

\* One more change has been made, by r.
LEMMA ChangeBehind ==
  ASSUME NEW list, NEW next, NEW enforced, NEW e, NEW all, NEW of, NEW r,
         IsFiniteSet(all), r \notin all, ButFor(list, next, e),
         Behind(list, enforced, all, of)
  PROVE  Behind(next, enforced, all \cup {r}, of)
  <1>1. of \subseteq all /\ Within(Lag(list, enforced), all \ of)
    BY DEF Behind
  <1>2. IsFiniteSet(all \cup {r})
    BY FS_AddElement
  <1>3. IsFiniteSet((all \cup {r}) \ of)
    BY <1>2, FS_Subset
  <1>4. Joins(all \ of, (all \cup {r}) \ of, r)
    BY <1>1, <1>3 DEF Joins
  <1>5. Within(Lag(next, enforced), (all \cup {r}) \ of)
    BY <1>1, <1>4, LagGrows
  <1>6. QED
    BY <1>1, <1>5 DEF Behind

\* A row that comes or goes changes what is listed by its entry.
LEMMA RowAdded ==
  ASSUME BlTypeOK, NEW r \in Request, blocked[r] = Nil,
         NEW k \in Kind, NEW e \in Entries,
         blocked' = [blocked EXCEPT ![r] = [kind |-> k, entry |-> e]], NEW kk \in Kind
  PROVE  ButFor(Listed(kk), Listed(kk)', e)
  <1>1. \A i \in Request \ {r} : blocked'[i] = blocked[i]
    BY DEF BlTypeOK
  <1>2. blocked'[r] = [kind |-> k, entry |-> e]
    BY DEF BlTypeOK
  <1>3. QED
    BY <1>1, <1>2 DEF Listed, Rows, ButFor

LEMMA RowRemoved ==
  ASSUME BlTypeOK, NEW i \in Request, blocked[i] # Nil,
         blocked' = [blocked EXCEPT ![i] = Nil], NEW kk \in Kind
  PROVE  ButFor(Listed(kk), Listed(kk)', blocked[i].entry)
  <1>1. \A j \in Request \ {i} : blocked'[j] = blocked[j]
    BY DEF BlTypeOK
  <1>2. blocked'[i] = Nil
    BY DEF BlTypeOK
  <1>3. QED
    BY <1>1, <1>2 DEF Listed, Rows, ButFor

\* A request that changes a table adds its change to those not known of.
LEMMA ChangeFollows ==
  ASSUME TrailInv, LogInv, topic = "blocklist", NEW r \in Request, NEW e,
         Only(r), Changes(r), r \notin changed,
         h'[r].pc = "ip", UNCHANGED <<snapshot, current, newest>>,
         \A k \in Kind : ButFor(Listed(k), Listed(k)', e)
  PROVE  SnapshotFollows' /\ \A q \in Request : RefreshFollows(q)' /\ Refreshed(q)'
  <1>1. changed' = changed \cup {r} /\ IsFiniteSet(changed)
    BY RequestsAssumption, FS_Subset DEF Changes, LogInv
  <1>2. SnapshotFollows'
    <2> SUFFICES ASSUME NEW k \in Kind
                 PROVE  Behind(Listed(k)', snapshot[k], changed \cup {r}, current[k])
      BY <1>1 DEF SnapshotFollows
    <2>1. Behind(Listed(k), snapshot[k], changed, current[k])
      BY DEF TrailInv, SnapshotFollows
    <2>2. QED
      BY <1>1, <2>1, ChangeBehind
  <1>3. ASSUME NEW q \in Request
        PROVE  RefreshFollows(q)' /\ Refreshed(q)'
    <2>1. CASE q = r
      BY <2>1 DEF RefreshFollows, Refreshed, Refreshes
    <2>2. CASE q # r
      <3>1. h'[q] = h[q]
        BY <2>2 DEF Only
      <3>2. Refreshed(q)'
        BY <1>1, <2>2, <3>1 DEF TrailInv, TrailHolds, Refreshed
      <3> SUFFICES ASSUME h[q].pc \in Refreshes, NEW k \in ReadBy(q)
                   PROVE  /\ q \in h[q].seen[k].of
                          /\ Behind(Listed(k)', h[q].seen[k].list, changed \cup {r},
                                    h[q].seen[k].of)
        BY <1>1, <3>1, <3>2 DEF RefreshFollows, ReadBy
      <3>3. /\ k \in Kind /\ q \in h[q].seen[k].of
            /\ Behind(Listed(k), h[q].seen[k].list, changed, h[q].seen[k].of)
        BY DEF TrailInv, TrailHolds, RefreshFollows, ReadBy, Kind
      <3>4. QED
        BY <1>1, <3>3, ChangeBehind
    <2>3. QED
      BY <2>1, <2>2
  <1>4. QED
    BY <1>2, <1>3

\* A step that changes no table and installs nothing.
LEMMA QuietFollows ==
  ASSUME TrailInv, topic = "blocklist", UNCHANGED blVars, UNCHANGED changed
  PROVE  /\ SnapshotFollows'
         /\ \A q \in Request : h'[q] = h[q] => RefreshFollows(q)' /\ Refreshed(q)'
  <1>1. \A k \in Kind : Listed(k)' = Listed(k)
    BY DEF blVars, Listed, Rows
  <1>2. SnapshotFollows'
    BY <1>1 DEF TrailInv, SnapshotFollows, blVars
  <1>3. ASSUME NEW q \in Request, h'[q] = h[q]
        PROVE  RefreshFollows(q)' /\ Refreshed(q)'
    <2>1. \A k \in ReadBy(q) : k \in Kind
      BY DEF ReadBy, Kind
    <2>2. QED
      BY <1>1, <1>3, <2>1
         DEF TrailInv, TrailHolds, RefreshFollows, Refreshed, ReadBy, blVars
  <1>4. QED
    BY <1>2, <1>3

\* What r installs lags by the changes made since r read it, and the change of
\* r has been known to something installed from now on.
LEMMA InstallFollows ==
  ASSUME TrailInv, Handlers, topic = "blocklist", NEW r \in Request, Install(r)
  PROVE  SnapshotFollows' /\ \A q \in Request : RefreshFollows(q)' /\ Refreshed(q)'
  <1>1. /\ h[r].pc = "install"
        /\ \A k \in Kind : /\ snapshot'[k] = h[r].seen[k].list
                           /\ current'[k] = h[r].seen[k].of
                           /\ newest'[k] = newest[k] \cup h[r].seen[k].of
        /\ UNCHANGED <<blocked, changed>>
    BY DEF Install
  <1>2. Only(r) /\ h'[r].pc = "log"
    BY GoStep DEF Install
  <1>3. \A k \in Kind : Listed(k)' = Listed(k)
    BY <1>1 DEF Listed, Rows
  <1>4. \A k \in Kind : /\ r \in h[r].seen[k].of
                       /\ Behind(Listed(k), h[r].seen[k].list, changed, h[r].seen[k].of)
    BY <1>1 DEF TrailInv, TrailHolds, RefreshFollows, ReadBy, Refreshes
  <1>5. SnapshotFollows'
    BY <1>1, <1>3, <1>4 DEF SnapshotFollows
  <1>6. ASSUME NEW q \in Request
        PROVE  RefreshFollows(q)' /\ Refreshed(q)'
    <2>1. CASE q = r
      BY <1>1, <1>2, <1>4, <2>1 DEF RefreshFollows, Refreshed, Refreshes
    <2>2. CASE q # r
      <3>1. h'[q] = h[q]
        BY <1>2, <2>2 DEF Only
      <3>2. \A k \in ReadBy(q) : k \in Kind
        BY DEF ReadBy, Kind
      <3>3. RefreshFollows(q)'
        BY <1>1, <1>3, <3>1, <3>2 DEF TrailInv, TrailHolds, RefreshFollows, ReadBy
      <3>4. Refreshed(q)'
        BY <1>1, <3>1 DEF TrailInv, TrailHolds, Refreshed
      <3>5. QED
        BY <3>3, <3>4
    <2>3. QED
      BY <2>1, <2>2
  <1>7. QED
    BY <1>5, <1>6

\* What r has just read lags behind nothing.
LEMMA ReadFollows ==
  ASSUME TrailInv, Handlers, topic = "blocklist", NEW r \in Request, r \in changed,
         ReadAddresses(r) \/ ReadPatterns(r)
  PROVE  SnapshotFollows' /\ \A q \in Request : RefreshFollows(q)' /\ Refreshed(q)'
  <1>1. UNCHANGED blVars /\ UNCHANGED changed /\ Only(r)
    BY GoWithStep DEF ReadAddresses, ReadPatterns
  <1>2. \A k \in Kind : Listed(k)' = Listed(k)
    BY <1>1 DEF blVars, Listed, Rows
  <1>3. \A k \in Kind : /\ Reading(k).list = Listed(k) /\ r \in Reading(k).of
                       /\ Behind(Listed(k), Reading(k).list, changed, Reading(k).of)
    BY FreshBehind DEF Reading
  <1>4. RefreshFollows(r)' /\ Refreshed(r)'
    <2>1. CASE ReadAddresses(r)
      <3>1. h'[r].pc = "url" /\ h'[r].seen = [ip |-> Reading("ip")]
        BY <2>1, GoWithStep DEF ReadAddresses
      <3>2. h'[r].seen["ip"] = Reading("ip")
        BY <3>1
      <3>3. QED
        BY <1>1, <1>2, <1>3, <3>1, <3>2 DEF RefreshFollows, Refreshed, ReadBy, Kind
    <2>2. CASE ReadPatterns(r)
      <3>1. /\ h[r].pc = "url" /\ h'[r].pc = "install"
            /\ h'[r].seen = [ip |-> h[r].seen.ip, url |-> Reading("url")]
        BY <2>2, GoWithStep DEF ReadPatterns
      <3>2. h'[r].seen["ip"] = h[r].seen["ip"] /\ h'[r].seen["url"] = Reading("url")
        BY <3>1
      <3>3. /\ r \in h[r].seen["ip"].of
            /\ Behind(Listed("ip"), h[r].seen["ip"].list, changed, h[r].seen["ip"].of)
        BY <3>1 DEF TrailInv, TrailHolds, RefreshFollows, ReadBy, Refreshes
      <3>4. QED
        BY <1>1, <1>2, <1>3, <3>1, <3>2, <3>3 DEF RefreshFollows, Refreshed, ReadBy, Kind
    <2>3. QED
      BY <2>1, <2>2
  <1>5. QED
    BY <1>1, <1>4, QuietFollows DEF Only

\* What a step of r leaves to the others.
LEMMA TrailOthers ==
  ASSUME TrailInv, topic = "blocklist", NEW r \in Request, Only(r),
         \A q \in Request \ {r} : blocked[q] = Nil => blocked'[q] = Nil
  PROVE  \A q \in Request \ {r} :
           /\ h'[q].pc = "idle" => blocked'[q] = Nil
           /\ At(q, "unblock", "unblock")' => h'[q].key \in Request
  BY DEF TrailInv, TrailHolds, Only, At

LEMMA TrailNext == BlInv /\ LogInv /\ TrailInv /\ Ready /\ [Next]_vars => TrailInv'
  <1> SUFFICES ASSUME BlInv, LogInv, TrailInv, Ready, [Next]_vars
               PROVE  TrailInv'
    OBVIOUS
  <1>1. Handlers /\ BlTypeOK
    BY DEF Ready, BlInv
  <1>2. ASSUME topic # "blocklist", UNCHANGED topic, UNCHANGED blVars
        PROVE  TrailInv'
    BY <1>2 DEF TrailInv, BlInit, blVars
  <1>3. ASSUME NEW r \in Request, BlocklistStep(r)
        PROVE  TrailInv'
    <2>1. BlStep(r) /\ UNCHANGED topic
      BY <1>3 DEF BlocklistStep
    <2>2. topic = "blocklist"
      BY <2>1, BlocklistTopic
    <2>3. \A q \in Request : TrailHolds(q)
      BY <2>2 DEF TrailInv
    <2>4. ASSUME SnapshotFollows', \A q \in Request : RefreshFollows(q)' /\ Refreshed(q)', Only(r),
                 h'[r].pc # "idle", At(r, "unblock", "unblock")' => h'[r].key \in Request,
                 \A q \in Request \ {r} : blocked[q] = Nil => blocked'[q] = Nil
          PROVE  TrailInv'
      BY <2>1, <2>2, <2>4, TrailOthers DEF TrailInv, TrailHolds
    <2>5. ASSUME UNCHANGED blVars, UNCHANGED changed, Only(r),
                 h[r].pc \in {"idle", "unblock"},
                 h'[r].pc \in {"unblock", "refused"},
                 At(r, "unblock", "unblock")' => h'[r].key \in Request
          PROVE  TrailInv'
      <3>1. SnapshotFollows' /\ \A q \in Request \ {r} : RefreshFollows(q)' /\ Refreshed(q)'
        BY <2>2, <2>5, QuietFollows DEF Only
      <3>2. r \notin changed
        BY <2>5 DEF LogInv, LogHolds, Owing, Over
      <3>3. RefreshFollows(r)' /\ Refreshed(r)'
        BY <2>5, <3>2 DEF RefreshFollows, Refreshed, Refreshes
      <3>4. QED
        BY <2>4, <2>5, <3>1, <3>3 DEF blVars
    <2>6. CASE BlockEntry(r)
      <3>1. PICK k \in Kind, e \in Entries :
              /\ blocked' = [blocked EXCEPT ![r] = [kind |-> k, entry |-> e]]
              /\ Arrive(r, "blocklist", "block", r, "ip", Nil)
        BY <2>6 DEF BlockEntry
      <3>2. Only(r) /\ h[r].pc = "idle" /\ h'[r].pc = "ip"
        BY <1>1, <3>1, ArriveStep
      <3>3. blocked[r] = Nil
        BY <2>3, <3>2 DEF TrailHolds
      <3>4. \A kk \in Kind : ButFor(Listed(kk), Listed(kk)', e)
        BY <1>1, <3>1, <3>3, RowAdded
      <3>5. SnapshotFollows' /\ \A q \in Request : RefreshFollows(q)' /\ Refreshed(q)'
        <4>1. r \notin changed
          BY <3>2 DEF LogInv, LogHolds, Owing, Over
        <4>2. QED
          BY <2>2, <2>6, <3>2, <3>4, <4>1, ChangeFollows DEF BlockEntry
      <3>6. QED
        BY <1>1, <2>4, <3>1, <3>2, <3>5 DEF Only, At, BlTypeOK
    <2>7. CASE ReadForUnblock(r)
      <3>1. PICK i \in Request : Arrive(r, "blocklist", "unblock", i, "unblock", Nil)
        BY <2>7 DEF ReadForUnblock
      <3>2. Only(r) /\ h[r].pc = "idle" /\ h'[r].pc = "unblock" /\ h'[r].key = i
        BY <1>1, <3>1, ArriveStep
      <3>3. QED
        BY <2>5, <2>7, <3>2 DEF ReadForUnblock
    <2>8. CASE Unblock(r) /\ blocked[h[r].key] # Nil
      <3>1. PICK i \in Request : i = h[r].key
        BY <2>3, <2>8 DEF Unblock, TrailHolds
      <3>2. PICK e : e = blocked[i].entry
        OBVIOUS
      <3>3. /\ blocked' = [blocked EXCEPT ![i] = Nil] /\ blocked[i] # Nil
            /\ h[r].pc = "unblock" /\ Changes(r) /\ Go(r, "ip")
            /\ UNCHANGED <<snapshot, current, newest>>
        BY <2>8, <3>1 DEF Unblock, At
      <3>4. Only(r) /\ h'[r].pc = "ip"
        BY <1>1, <3>3, GoStep
      <3>5. \A kk \in Kind : ButFor(Listed(kk), Listed(kk)', e)
        BY <1>1, <3>2, <3>3, RowRemoved
      <3>6. SnapshotFollows' /\ \A q \in Request : RefreshFollows(q)' /\ Refreshed(q)'
        <4>1. r \notin changed
          BY <3>3 DEF LogInv, LogHolds, Owing, Over
        <4>2. QED
          BY <2>2, <3>3, <3>4, <3>5, <4>1, ChangeFollows
      <3>7. QED
        BY <1>1, <2>4, <3>3, <3>4, <3>6 DEF Only, At, BlTypeOK
    <2>9. CASE Unblock(r) /\ blocked[h[r].key] = Nil
      <3>1. PICK i \in Request : i = h[r].key
        BY <2>3, <2>9 DEF Unblock, TrailHolds
      <3>2. blocked' = blocked
        BY <1>1, <2>9, <3>1 DEF Unblock, BlTypeOK
      <3>3. /\ h[r].pc = "unblock" /\ Go(r, "refused")
            /\ UNCHANGED <<snapshot, current, newest, changed>>
        BY <2>9 DEF Unblock, At
      <3>4. Only(r) /\ h'[r].pc = "refused"
        BY <1>1, <3>3, GoStep
      <3>5. QED
        BY <2>5, <3>2, <3>3, <3>4 DEF blVars, At
    <2>10. CASE ReadAddresses(r) \/ ReadPatterns(r)
      <3>1. SnapshotFollows' /\ \A q \in Request : RefreshFollows(q)' /\ Refreshed(q)'
        <4>1. h[r].pc \in {"ip", "url"} /\ h[r].op \in BlOps
          BY <2>10, BlocklistPcs DEF ReadAddresses, ReadPatterns, Ready
        <4>2. r \in changed
          BY <4>1 DEF LogInv, LogHolds, Owing, BlOps
        <4>3. QED
          BY <1>1, <2>2, <2>10, <4>2, ReadFollows
      <3>2. Only(r) /\ h'[r].pc \in {"url", "install"} /\ UNCHANGED blVars
        BY <1>1, <2>10, GoWithStep DEF ReadAddresses, ReadPatterns
      <3>3. QED
        BY <2>4, <3>1, <3>2 DEF Only, At, blVars
    <2>11. CASE Install(r)
      <3>1. SnapshotFollows' /\ \A q \in Request : RefreshFollows(q)' /\ Refreshed(q)'
        BY <1>1, <2>2, <2>11, InstallFollows
      <3>2. Only(r) /\ h'[r].pc = "log" /\ blocked' = blocked
        BY <1>1, <2>11, GoStep DEF Install
      <3>3. QED
        BY <2>4, <3>1, <3>2 DEF At
    <2>12. QED
      BY <2>1, <2>6, <2>7, <2>8, <2>9, <2>10, <2>11 DEF BlStep
  <1>4. ASSUME NEW r \in Request, RequestStep(r)
        PROVE  TrailInv'
    <2>1. (Log(r) \/ Lose(r)) /\ UNCHANGED topic /\ UNCHANGED blVars
      BY <1>4 DEF RequestStep
    <2>2. /\ Only(r) /\ h[r].pc # "idle" /\ h'[r].pc \in {"done", "lost"}
          /\ UNCHANGED changed
      BY <2>1, RequestTopic DEF Log, Lose
    <2>3. CASE topic = "blocklist"
      <3>1. SnapshotFollows' /\ \A q \in Request \ {r} : RefreshFollows(q)' /\ Refreshed(q)'
        BY <2>1, <2>2, <2>3, QuietFollows DEF Only
      <3>2. RefreshFollows(r)'
        BY <2>2 DEF RefreshFollows, Refreshes
      <3>3. Refreshed(r)'
        <4>1. CASE Log(r)
          BY <2>1, <2>2, <2>3, <4>1 DEF Log, TrailInv, TrailHolds, Refreshed, blVars
        <4>2. CASE Lose(r)
          BY <1>1, <4>2, GoStep DEF Lose, Refreshed
        <4>3. QED
          BY <2>1, <4>1, <4>2
      <3>5. \A q \in Request \ {r} : TrailHolds(q)'
        <4>1. blocked' = blocked
          BY <2>1 DEF blVars
        <4>2. QED
          BY <2>2, <2>3, <3>1, <4>1, TrailOthers DEF TrailHolds
      <3>6. TrailHolds(r)'
        BY <2>2, <3>2, <3>3 DEF TrailHolds, At
      <3>7. QED
        BY <2>1, <2>3, <3>1, <3>5, <3>6 DEF TrailInv
    <2>4. QED
      BY <1>2, <2>1, <2>3
  <1>5. ASSUME NEW r \in Request,
               NamespaceStep(r) \/ AccountStep(r) \/ MediaStep(r) \/ ListingStep(r)
        PROVE  TrailInv'
    <2>1. UNCHANGED topic /\ UNCHANGED blVars
      BY <1>5 DEF NamespaceStep, AccountStep, MediaStep, ListingStep
    <2>2. topic # "blocklist"
      BY <1>5, NamespacesTopic, AccountsTopic, MediaTopic, ListingTopic
         DEF NamespaceStep, AccountStep, MediaStep, ListingStep
    <2>3. QED
      BY <1>2, <2>1, <2>2
  <1>6. ASSUME UNCHANGED <<h, changed, topic>>, UNCHANGED blVars
        PROVE  TrailInv'
    <2>1. CASE topic = "blocklist"
      <3>1. SnapshotFollows' /\ \A q \in Request : RefreshFollows(q)' /\ Refreshed(q)'
        BY <1>6, <2>1, QuietFollows
      <3>2. QED
        BY <1>6, <2>1, <3>1 DEF TrailInv, TrailHolds, At, blVars
    <2>2. QED
      BY <1>2, <1>6, <2>1
  <1>7. CASE Restart /\ UNCHANGED topic
    <2>1. /\ topic = "blocklist" /\ UNCHANGED <<blocked, changed>>
          /\ \A k \in Kind : /\ snapshot'[k] = Listed(k)
                             /\ current'[k] = changed /\ newest'[k] = changed
      BY <1>7 DEF Restart
    <2>2. /\ \A q \in Request : (h'[q].pc = "lost" /\ h[q].pc # "idle") \/ h'[q] = h[q]
          /\ \A q \in Request : h'[q].pc \notin Refreshes \cup {"unblock"}
      <3>1. \A q \in Request : /\ InFlight(q) => h'[q].pc = "lost"
                               /\ ~InFlight(q) => h'[q] = h[q]
        BY <1>7, RestartTopic
      <3>2. QED
        BY <3>1 DEF InFlight, Over, Refreshes
    <2>3. \A k \in Kind : Listed(k)' = Listed(k)
      BY <2>1 DEF Listed, Rows
    <2>4. SnapshotFollows'
      BY <2>1, <2>3, FreshBehind DEF SnapshotFollows
    <2>5. ASSUME NEW q \in Request
          PROVE  TrailHolds(q)'
      <3>1. RefreshFollows(q)' /\ (At(q, "unblock", "unblock")' => h'[q].key \in Request)
        BY <2>2 DEF RefreshFollows, At
      <3>2. h'[q].pc = "idle" => blocked'[q] = Nil
        BY <2>1, <2>2 DEF TrailInv, TrailHolds
      <3>3. Refreshed(q)'
        BY <2>1, <2>2 DEF TrailInv, TrailHolds, Refreshed
      <3>4. QED
        BY <3>1, <3>2, <3>3 DEF TrailHolds
    <2>6. QED
      BY <1>7, <2>1, <2>4, <2>5 DEF TrailInv
  <1>8. CASE ServerStep
    BY <1>2, <1>6, <1>7, <1>8 DEF ServerStep, Expire, Tick
  <1>9. CASE UNCHANGED vars
    BY <1>6, <1>9 DEF vars, shared
  <1>10. QED
    BY <1>3, <1>4, <1>5, <1>8, <1>9 DEF Next

LEMMA TrailInit == Init => TrailInv
  <1> SUFFICES ASSUME Init
               PROVE  TrailInv
    OBVIOUS
  <1>1. \A r \in Request : h[r].pc = "idle" /\ h[r].op = Nil /\ blocked[r] = Nil
    BY DEF Init, Idle, BlInit
  <1>2. \A k \in Kind : snapshot[k] = Listed(k)
    BY <1>1 DEF Init, BlInit, Listed, Rows
  <1>3. SnapshotFollows
    BY <1>2, FreshBehind DEF Init, BlInit, SnapshotFollows
  <1>4. \A r \in Request : TrailHolds(r)
    BY <1>1 DEF TrailHolds, RefreshFollows, Refreshed, Refreshes, At
  <1>5. BlInit
    BY DEF Init
  <1>6. QED
    BY <1>3, <1>4, <1>5, Zenon DEF TrailInv

-----------------------------------------------------------------------------
(* The listings.                                                             *)

Stamped == [at : 0 .. LastTime, id : 0 .. Cardinality(Request)]

LsInv ==
  /\ LsTypeOK
  /\ topic = "listing" =>
       \A r \in Request : At(r, "add", "insert") => h[r].key \in Stamped

LEMMA ArrivedCount ==
  ASSUME NEW r \in Request, h[r].pc = "idle"
  PROVE  Cardinality(Arrived) + 1 \in 0 .. Cardinality(Request)
  <1>1. Arrived \subseteq Request \ {r}
    BY DEF Arrived
  <1>2. /\ IsFiniteSet(Request \ {r})
        /\ Cardinality(Request \ {r}) = Cardinality(Request) - 1
    BY RequestsAssumption, FS_RemoveElement
  <1>3. Cardinality(Arrived) \in Nat /\ Cardinality(Arrived) <= Cardinality(Request \ {r})
    BY <1>1, <1>2, FS_Subset, FS_CardinalityType
  <1>4. Cardinality(Request) \in Nat
    BY RequestsAssumption, FS_CardinalityType
  <1>5. QED
    BY <1>2, <1>3, <1>4

LEMMA ListingNext == LsInv /\ Ready /\ [Next]_vars => LsInv'
  <1> SUFFICES ASSUME LsInv, Ready, [Next]_vars
               PROVE  LsInv'
    OBVIOUS
  <1>0. LsTypeOK /\ Handlers
    BY DEF LsInv, Ready
  <1>1. ASSUME topic # "listing", UNCHANGED topic, UNCHANGED lsVars
        PROVE  LsInv'
    BY <1>0, <1>1 DEF LsInv, LsTypeOK, lsVars
  <1>2. ASSUME NEW r \in Request, ListingStep(r)
        PROVE  LsInv'
    <2>1. LsStep(r) /\ UNCHANGED topic
      BY <1>2 DEF ListingStep
    <2>2. topic = "listing"
      BY <2>1, ListingTopic DEF Ready
    <2>3. \A q \in Request : At(q, "add", "insert") => h[q].key \in Stamped
      BY <2>2 DEF LsInv
    <2>4. Only(r)
      BY <2>1, ListingMove DEF Ready
    <2>5. ASSUME LsTypeOK', h'[r].pc # "insert"
          PROVE  LsInv'
      BY <2>3, <2>4, <2>5 DEF LsInv, Only, At
    <2>6. CASE Stamp(r)
      <3>1. LsTypeOK'
        BY <1>0, <2>6 DEF Stamp, LsTypeOK
      <3>2. /\ h[r].pc = "idle"
            /\ h'[r].key = [at |-> clock, id |-> Cardinality(Arrived) + 1]
        BY <1>0, <2>6, ArriveStep DEF Stamp
      <3>3. h'[r].key \in Stamped
        BY <1>0, <3>2, ArrivedCount DEF LsTypeOK, Stamped
      <3>4. QED
        BY <2>3, <2>4, <3>1, <3>3 DEF LsInv, Only, At
    <2>7. CASE InsertRow(r)
      <3>1. h[r].key \in Stamped
        BY <2>3, <2>7 DEF InsertRow
      <3>2. LsTypeOK'
        BY <1>0, <2>7, <3>1 DEF InsertRow, LsTypeOK, Stamped
      <3>3. h'[r].pc = "done"
        BY <1>0, <2>7, GoStep DEF InsertRow
      <3>4. QED
        BY <2>5, <3>2, <3>3
    <2>8. CASE RemoveRow(r) \/ Prune(r) \/ StartWalk(r)
      <3>1. LsTypeOK'
        BY <1>0, <2>8 DEF RemoveRow, Prune, StartWalk, LsTypeOK
      <3>2. h'[r].pc \in {"done", "slice"}
        BY <1>0, <2>8, ArriveStep DEF RemoveRow, Prune, StartWalk
      <3>3. QED
        BY <2>5, <3>1, <3>2
    <2>9. CASE ReadSlice(r)
      <3>1. LsTypeOK'
        BY <1>0, <2>9 DEF ReadSlice, LsTypeOK
      <3>2. h'[r].pc \in {"done", "slice"}
        BY <1>0, <2>9, GoWithStep DEF ReadSlice
      <3>3. QED
        BY <2>5, <3>1, <3>2
    <2>10. QED
      BY <2>1, <2>6, <2>7, <2>8, <2>9 DEF LsStep
  <1>3. ASSUME NEW r \in Request, RequestStep(r)
        PROVE  LsInv'
    <2>1. (Log(r) \/ Lose(r)) /\ UNCHANGED topic /\ UNCHANGED lsVars
      BY <1>3 DEF RequestStep
    <2>2. Only(r) /\ h'[r].pc \in {"done", "lost"}
      BY <2>1, RequestTopic
    <2>3. QED
      BY <1>0, <2>1, <2>2 DEF LsInv, LsTypeOK, lsVars, Only, At
  <1>4. ASSUME NEW r \in Request,
               NamespaceStep(r) \/ BlocklistStep(r) \/ AccountStep(r) \/ MediaStep(r)
        PROVE  LsInv'
    <2>1. UNCHANGED topic /\ UNCHANGED lsVars
      BY <1>4 DEF NamespaceStep, BlocklistStep, AccountStep, MediaStep
    <2>2. topic # "listing"
      BY <1>4, NamespacesTopic, BlocklistTopic, AccountsTopic, MediaTopic
         DEF NamespaceStep, BlocklistStep, AccountStep, MediaStep
    <2>3. QED
      BY <1>1, <2>1, <2>2
  <1>5. CASE ServerStep
    <2>1. CASE Restart /\ UNCHANGED lsVars
      BY <1>1, <1>5, <2>1 DEF ServerStep, Restart
    <2>2. CASE UNCHANGED h /\ UNCHANGED lsVars
      BY <1>0, <1>5, <2>2 DEF ServerStep, LsInv, LsTypeOK, lsVars, At
    <2>3. CASE Tick
      <3>1. LsTypeOK'
        BY <1>0, <2>3, ListingAssumption DEF Tick, LsTypeOK
      <3>2. UNCHANGED h
        BY <2>3 DEF Tick
      <3>3. QED
        BY <1>5, <3>1, <3>2 DEF ServerStep, LsInv, At
    <2>4. QED
      BY <1>5, <2>1, <2>2, <2>3 DEF ServerStep, Expire
  <1>6. CASE UNCHANGED vars
    BY <1>0, <1>6 DEF vars, shared, LsInv, LsTypeOK, lsVars, At
  <1>7. QED
    BY <1>2, <1>3, <1>4, <1>5, <1>6 DEF Next

-----------------------------------------------------------------------------
(* The order of a listing, and what a walk has of it.                        *)

LEMMA Division ==
  ASSUME NEW d \in Int, d > 0, NEW v \in Int
  PROVE  /\ v = d * (v \div d) + (v % d)
         /\ v \div d \in Int /\ v % d \in Int /\ 0 <= v % d /\ v % d < d
  <1>1. v = d * (v \div d) + (v % d)
    OBVIOUS
  <1>2. v \div d \in Int /\ v % d \in Int /\ 0 <= v % d /\ v % d < d
    OBVIOUS
  <1>3. QED
    BY <1>1, <1>2

\* Adding a divisor does not change whether it divides.
LEMMA StillDivides ==
  ASSUME NEW d \in Int, d > 0, NEW v \in Int, v % d = 0
  PROVE  (v + d) % d = 0
  <1> DEFINE q == v \div d
             k == (v + d) \div d
             m == (v + d) % d
  <1>1. v = d * q /\ q \in Int
    BY Division
  <1>2. v + d = d * k + m
    BY Division
  <1>3. k \in Int /\ m \in Int /\ 0 <= m /\ m < d
    BY Division
  <1> HIDE DEF q, k, m
  <1>4. m = d * (q + 1 - k)
    BY <1>1, <1>2, <1>3
  <1>5. m = 0
    <2>1. CASE q + 1 - k >= 1
      BY <1>1, <1>3, <1>4, <2>1
    <2>2. CASE q + 1 - k <= -1
      BY <1>1, <1>3, <1>4, <2>2
    <2>3. CASE q + 1 - k = 0
      BY <1>4, <2>3
    <2>4. QED
      BY <1>1, <1>3, <2>1, <2>2, <2>3
  <1>6. QED
    BY <1>5 DEF m

\* No two times have the same text, with their fractions or without.
LEMMA TextsDiffer ==
  ASSUME NEW t \in Nat, NEW u \in Nat, Text(t) = Text(u)
  PROVE  t = u
  <1>1. PerSecond \in Int /\ PerSecond > 0
    BY ListingAssumption
  <1>2. \A v \in Int : v % PerSecond = 0 => (v + PerSecond) % PerSecond = 0
    BY <1>1, StillDivides
  <1>3. CASE t % PerSecond = 0 /\ u % PerSecond = 0
    BY <1>1, <1>3 DEF Text
  <1>4. CASE t % PerSecond = 0 /\ u % PerSecond # 0
    BY <1>1, <1>2, <1>4 DEF Text
  <1>5. CASE t % PerSecond # 0 /\ u % PerSecond = 0
    BY <1>1, <1>2, <1>5 DEF Text
  <1>6. CASE t % PerSecond # 0 /\ u % PerSecond # 0
    BY <1>6 DEF Text
  <1>7. QED
    BY <1>3, <1>4, <1>5, <1>6

Precedes(order, x, y) == IF order = "oldest" THEN Before(x, y) ELSE Before(y, x)

Ordered(order, walked) ==
  \A i, j \in 1 .. Len(walked) : i < j => Precedes(order, walked[i], walked[j])

\* The cursor has not passed x.
Ahead(order, walked, x) == walked = <<>> \/ Precedes(order, walked[Len(walked)], x)

\* The rows of a listing are in a strict and total order.
LEMMA OrderIsStrict ==
  ASSUME LsTypeOK, NEW order, NEW x \in Stamped, NEW y \in Stamped, NEW z \in Stamped
  PROVE  /\ ~Precedes(order, x, x)
         /\ Precedes(order, x, y) /\ Precedes(order, y, z) => Precedes(order, x, z)
         /\ x # y /\ ~Precedes(order, y, x) => Precedes(order, x, y)
  <1>1. /\ x.at \in Nat /\ y.at \in Nat /\ z.at \in Nat
        /\ x.id \in Int /\ y.id \in Int /\ z.id \in Int
    BY ListingAssumption, RequestsAssumption, FS_CardinalityType DEF Stamped
  <1>2. \A t \in Nat : Text(t) \in Nat
    BY ListingAssumption DEF Text
  <1>3. x # y => x.at # y.at \/ x.id # y.id
    BY DEF Stamped
  <1>4. x # y => Text(x.at) # Text(y.at) \/ x.id # y.id
    BY <1>1, <1>3, TextsDiffer
  <1>5. /\ Text(x.at) \in Nat /\ Text(y.at) \in Nat /\ Text(z.at) \in Nat
    BY <1>1, <1>2
  <1>6. QED
    BY <1>1, <1>4, <1>5 DEF Precedes, Before

\* The first rows of what is left, all of them if the limit allows.
IsSlice(order, left, slice, limit) ==
  /\ \A i, j \in 1 .. Len(slice) :
       i < j => slice[i] # slice[j] /\ ~Precedes(order, slice[j], slice[i])
  /\ \A x \in left \ Range(slice) :
       Len(slice) = limit /\ \A i \in 1 .. Len(slice) : ~Precedes(order, x, slice[i])

\* What a slice adds to a walk: rows in order, all ahead of the cursor, and
\* none left out but those that are ahead of the new cursor.
LEMMA SliceFollows ==
  ASSUME LsTypeOK, NEW order, NEW walked \in Seq(Stamped), Ordered(order, walked),
         NEW left, left = {x \in rows : Ahead(order, walked, x)},
         NEW slice \in Seq(left), NEW limit \in Nat \ {0},
         IsSlice(order, left, slice, limit)
  PROVE  /\ walked \o slice \in Seq(Stamped)
         /\ Ordered(order, walked \o slice)
         /\ Range(walked \o slice) = Range(walked) \cup Range(slice)
         /\ \A x \in left \ Range(slice) : Ahead(order, walked \o slice, x)
  <1> DEFINE both == walked \o slice
  <1>1. left \subseteq Stamped
    BY DEF LsTypeOK, Stamped
  <1>2. slice \in Seq(Stamped) /\ Len(walked) \in Nat /\ Len(slice) \in Nat
    BY <1>1, SeqMonotonic, LenProperties
  <1>3. /\ both \in Seq(Stamped) /\ Len(both) = Len(walked) + Len(slice)
        /\ \A i \in 1 .. Len(walked) + Len(slice) :
             both[i] = IF i <= Len(walked) THEN walked[i] ELSE slice[i - Len(walked)]
    BY <1>2, ConcatProperties
  <1>4. /\ DOMAIN both = 1 .. Len(both) /\ DOMAIN slice = 1 .. Len(slice)
        /\ DOMAIN walked = 1 .. Len(walked)
    BY <1>2, <1>3, LenProperties
  <1> HIDE DEF both
  <1>5. /\ \A i \in 1 .. Len(walked) : i \in 1 .. Len(both) /\ both[i] = walked[i]
        /\ \A i \in 1 .. Len(slice) :
             Len(walked) + i \in 1 .. Len(both) /\ both[Len(walked) + i] = slice[i]
        /\ \A i \in 1 .. Len(both) :
             \/ i \in 1 .. Len(walked)
             \/ /\ i - Len(walked) \in 1 .. Len(slice)
                /\ both[i] = slice[i - Len(walked)]
    <2>1. ASSUME NEW i \in 1 .. Len(walked)
          PROVE  i \in 1 .. Len(both) /\ both[i] = walked[i]
      BY <1>2, <1>3
    <2>2. ASSUME NEW i \in 1 .. Len(slice)
          PROVE  Len(walked) + i \in 1 .. Len(both) /\ both[Len(walked) + i] = slice[i]
      <3>1. /\ Len(walked) + i \in 1 .. Len(walked) + Len(slice)
            /\ ~(Len(walked) + i <= Len(walked)) /\ Len(walked) + i - Len(walked) = i
        BY <1>2
      <3>2. QED
        BY <1>3, <3>1
    <2>3. ASSUME NEW i \in 1 .. Len(both), i \notin 1 .. Len(walked)
          PROVE  /\ i - Len(walked) \in 1 .. Len(slice)
                 /\ both[i] = slice[i - Len(walked)]
      BY <1>2, <1>3, <2>3
    <2>4. QED
      BY <2>1, <2>2, <2>3
  <1>6. /\ \A i \in 1 .. Len(walked) : walked[i] \in Stamped
        /\ \A i \in 1 .. Len(slice) : slice[i] \in left /\ slice[i] \in Stamped
    BY <1>2, ElementOfSeq
  <1>7. ASSUME NEW i \in 1 .. Len(walked), NEW x \in left
        PROVE  Precedes(order, walked[i], x)
    <2>1. walked # <<>> /\ Len(walked) \in 1 .. Len(walked)
      BY <1>2, EmptySeq
    <2>2. Precedes(order, walked[Len(walked)], x)
      BY <2>1 DEF Ahead
    <2>3. i = Len(walked) \/ Precedes(order, walked[i], walked[Len(walked)])
      BY <1>2, <2>1 DEF Ordered
    <2>4. QED
      BY <1>1, <1>6, <2>1, <2>2, <2>3, OrderIsStrict
  <1>8. Ordered(order, both)
    <2> SUFFICES ASSUME NEW i \in 1 .. Len(both), NEW j \in 1 .. Len(both), i < j
                 PROVE  Precedes(order, both[i], both[j])
      BY DEF Ordered
    <2>1. CASE i \in 1 .. Len(walked) /\ j \in 1 .. Len(walked)
      BY <1>5, <2>1 DEF Ordered
    <2>2. CASE i \in 1 .. Len(walked) /\ j - Len(walked) \in 1 .. Len(slice)
      <3>1. both[i] = walked[i] /\ both[j] = slice[j - Len(walked)]
        BY <1>2, <1>3, <2>2
      <3>2. QED
        BY <1>6, <1>7, <2>2, <3>1
    <2>3. CASE i - Len(walked) \in 1 .. Len(slice) /\ j - Len(walked) \in 1 .. Len(slice)
      <3>1. /\ both[i] = slice[i - Len(walked)] /\ both[j] = slice[j - Len(walked)]
            /\ i - Len(walked) < j - Len(walked)
        BY <1>2, <1>3, <2>3
      <3>2. both[i] # both[j] /\ ~Precedes(order, both[j], both[i])
        BY <2>3, <3>1 DEF IsSlice
      <3>3. both[i] \in Stamped /\ both[j] \in Stamped
        BY <1>6, <2>3, <3>1
      <3>4. QED
        BY <3>2, <3>3, OrderIsStrict
    <2>4. CASE i - Len(walked) \in 1 .. Len(slice) /\ j \in 1 .. Len(walked)
      BY <1>2, <2>4
    <2>5. QED
      BY <1>5, <2>1, <2>2, <2>3, <2>4
  <1>9. Range(both) = Range(walked) \cup Range(slice)
    <2>1. ASSUME NEW i \in 1 .. Len(both)
          PROVE  both[i] \in Range(walked) \cup Range(slice)
      BY <1>4, <1>5 DEF Range
    <2>2. ASSUME NEW i \in 1 .. Len(walked)
          PROVE  walked[i] \in Range(both)
      BY <1>4, <1>5 DEF Range
    <2>3. ASSUME NEW i \in 1 .. Len(slice)
          PROVE  slice[i] \in Range(both)
      BY <1>4, <1>5 DEF Range
    <2>4. Range(both) \subseteq Range(walked) \cup Range(slice)
      BY <1>4, <2>1 DEF Range
    <2>5. Range(walked) \subseteq Range(both) /\ Range(slice) \subseteq Range(both)
      BY <1>4, <2>2, <2>3 DEF Range
    <2>6. QED
      BY <2>4, <2>5
  <1>10. ASSUME NEW x \in left \ Range(slice)
         PROVE  Ahead(order, both, x)
    <2>1. Len(slice) \in 1 .. Len(slice) /\ Len(walked) + Len(slice) = Len(both)
      BY <1>2, <1>3 DEF IsSlice
    <2>2. both[Len(both)] = slice[Len(slice)]
      BY <1>5, <2>1
    <2>3. ~Precedes(order, x, slice[Len(slice)]) /\ x # slice[Len(slice)]
      BY <1>4, <2>1 DEF Range, IsSlice
    <2>4. slice[Len(slice)] \in Stamped /\ x \in Stamped
      BY <1>1, <1>6, <2>1
    <2>5. Precedes(order, slice[Len(slice)], x)
      BY <2>3, <2>4, OrderIsStrict
    <2>6. QED
      BY <2>2, <2>5 DEF Ahead
  <1>11. QED
    BY <1>3, <1>8, <1>9, <1>10 DEF both

Walks ==
  [order : {"newest", "oldest"}, present : SUBSET Stamped, walked : Seq(Stamped)]

\* What was there from the start has been returned or is ahead of the cursor.
WalkHolds(r) ==
  LET walk == h[r].seen
  IN /\ walk \in Walks
     /\ Ordered(walk.order, walk.walked)
     /\ h[r].pc = "slice" =>
          \A x \in walk.present : x \in Range(walk.walked) \/ Ahead(walk.order, walk.walked, x)
     /\ h[r].pc = "done" => walk.present \subseteq Range(walk.walked)

\* An entry that is gone was too old to keep.
EntryHolds(r) ==
  /\ h[r].key \in Stamped
  /\ padded /\ h[r].pc = "done" /\ h[r].key \notin rows => h[r].key.at < clock - Retention

ListHolds(r) ==
  /\ h[r].pc # "log"
  /\ h[r].pc # "idle" /\ h[r].op = "add" => EntryHolds(r)
  /\ h[r].pc # "idle" /\ h[r].op = "walk" => WalkHolds(r)

WalkInv == topic = "listing" => \A r \in Request : ListHolds(r)

\* The next slice.
LEMMA SliceHolds ==
  ASSUME LsTypeOK, Handlers, NEW r \in Request, WalkHolds(r), ReadSlice(r)
  PROVE  WalkHolds(r)'
  <1> DEFINE walk == h[r].seen
             left == {x \in rows : walk.walked = <<>> \/ InOrder(r, Last(walk.walked), x)}
  <1>1. h[r].pc = "slice" /\ UNCHANGED <<padded, rows>>
    BY DEF ReadSlice, At
  <1>2. PICK slice \in Slices(r, left) :
          GoWith(r, IF left \subseteq Range(slice) THEN "done" ELSE "slice",
                 [walk EXCEPT !.walked = @ \o slice, !.present = @ \cap rows])
    BY DEF ReadSlice
  <1>3. PICK order, walked, present :
          /\ order \in {"newest", "oldest"} /\ walked \in Seq(Stamped)
          /\ present \subseteq Stamped
          /\ walk = [order |-> order, present |-> present, walked |-> walked]
    BY DEF WalkHolds, Walks
  <1>4. /\ walk.order = order /\ walk.walked = walked /\ walk.present = present
        /\ Ordered(order, walked)
        /\ \A x \in present : x \in Range(walked) \/ Ahead(order, walked, x)
    BY <1>1, <1>3 DEF WalkHolds
  <1>5. left = {x \in rows : Ahead(order, walked, x)}
    BY <1>4 DEF InOrder, Precedes, Ahead, Last
  <1>6. PICK now : now = [walk EXCEPT !.walked = @ \o slice, !.present = @ \cap rows]
    OBVIOUS
  <1>7. now = [order |-> order, present |-> present \cap rows, walked |-> walked \o slice]
    <2>1. PICK w : w = walk
      OBVIOUS
    <2>2. now = [[w EXCEPT !.walked = w.walked \o slice] EXCEPT !.present = w.present \cap rows]
      BY <1>6, <2>1
    <2>3. w = [order |-> order, present |-> present, walked |-> walked]
      BY <1>3, <2>1
    <2>4. QED
      BY <2>2, <2>3
  <1>8. /\ h'[r].seen = now
        /\ h'[r].pc = IF left \subseteq Range(slice) THEN "done" ELSE "slice"
    BY <1>2, <1>6, GoWithStep
  <1>9. slice \in Seq(left) /\ IsSlice(order, left, slice, SliceSize)
    <2>1. PICK n \in 0 .. SliceSize : slice \in [1 .. n -> left]
      BY <1>2 DEF Slices
    <2>2. n \in Nat
      BY <2>1, ListingAssumption
    <2>3. slice \in Seq(left)
      BY <2>1, <2>2, SeqDef
    <2>4. DOMAIN slice = 1 .. Len(slice)
      BY <2>3, LenProperties
    <2>5. \A x, y : InOrder(r, x, y) = Precedes(order, x, y)
      BY <1>4 DEF InOrder, Precedes
    <2> HIDE DEF walk, left
    <2>6. QED
      BY <1>2, <2>3, <2>4, <2>5 DEF Slices, IsSlice
  <1> HIDE DEF walk, left
  <1>10. /\ walked \o slice \in Seq(Stamped)
         /\ Ordered(order, walked \o slice)
         /\ Range(walked \o slice) = Range(walked) \cup Range(slice)
         /\ \A x \in left \ Range(slice) : Ahead(order, walked \o slice, x)
    <2>1. SliceSize \in Nat \ {0}
      BY ListingAssumption
    <2>2. QED
      BY <1>3, <1>4, <1>5, <1>9, <2>1, SliceFollows
  <1>11. /\ now \in Walks /\ now.order = order
         /\ now.walked = walked \o slice /\ now.present = present \cap rows
    BY <1>3, <1>7, <1>10 DEF Walks
  <1>12. /\ Ordered(order, walked \o slice)'
         /\ \A x : Ahead(order, walked \o slice, x)' = Ahead(order, walked \o slice, x)
    <2>1. PICK both : both = walked \o slice
      OBVIOUS
    <2>2. \A x, y : Precedes(order, x, y)' = Precedes(order, x, y)
      BY <1>1 DEF Precedes, Before, Text
    <2>3. Ordered(order, both)' = Ordered(order, both)
      BY <2>2 DEF Ordered
    <2>4. \A x : Ahead(order, both, x)' = Ahead(order, both, x)
      BY <2>2 DEF Ahead
    <2>5. QED
      BY <1>10, <2>1, <2>3, <2>4
  <1>13. \A x \in present \cap rows : x \in Range(walked) \/ x \in left
    BY <1>4, <1>5
  <1>14. h'[r].pc = "slice" =>
           \A x \in now.present : x \in Range(now.walked) \/ Ahead(order, now.walked, x)'
    BY <1>10, <1>11, <1>12, <1>13
  <1>15. h'[r].pc = "done" => now.present \subseteq Range(now.walked)
    BY <1>8, <1>10, <1>11, <1>13
  <1>16. QED
    BY <1>8, <1>11, <1>12, <1>14, <1>15 DEF WalkHolds

\* What the others hold, when rows come or when those that go are too old.
LEMMA ListOthersHold ==
  ASSUME LsTypeOK, LsTypeOK', NEW q \in Request, h'[q] = h[q], ListHolds(q),
         padded' = padded, clock <= clock',
         \A x \in rows \ rows' : padded => x.at < clock' - Retention
  PROVE  ListHolds(q)'
  <1>1. clock \in Int /\ clock' \in Int /\ Retention \in Int
    BY ListingAssumption DEF LsTypeOK
  <1>2. WalkHolds(q) => WalkHolds(q)'
    <2>1. \A o, x, y : Precedes(o, x, y)' = Precedes(o, x, y)
      BY DEF Precedes, Before, Text
    <2>2. QED
      BY <2>1 DEF WalkHolds, Ordered, Ahead
  <1>3. EntryHolds(q) => EntryHolds(q)'
    <2> SUFFICES ASSUME EntryHolds(q), padded, h[q].pc = "done", h[q].key \notin rows'
                 PROVE  h[q].key.at < clock' - Retention
      BY DEF EntryHolds
    <2>1. CASE h[q].key \in rows
      BY <2>1
    <2>2. CASE h[q].key \notin rows
      <3>1. h[q].key.at < clock - Retention /\ h[q].key.at \in Int
        BY <2>2 DEF EntryHolds, Stamped
      <3>2. QED
        BY <1>1, <3>1
    <2>3. QED
      BY <2>1, <2>2
  <1>4. QED
    BY <1>2, <1>3 DEF ListHolds

\* What r holds after a step of its own.
LEMMA ListOwnHolds ==
  ASSUME LsTypeOK, LsTypeOK', Handlers, NEW r \in Request, ListHolds(r),
         At(r, "add", "insert") => h[r].key \in Stamped, LsStep(r)
  PROVE  ListHolds(r)'
  <1>1. CASE Stamp(r)
    <2>1. /\ h[r].pc = "idle" /\ h'[r].pc = "insert" /\ h'[r].op = "add"
          /\ h'[r].key = [at |-> clock, id |-> Cardinality(Arrived) + 1]
      BY <1>1, ArriveStep DEF Stamp
    <2>2. h'[r].key \in Stamped
      BY <2>1, ArrivedCount DEF LsTypeOK, Stamped
    <2>3. QED
      BY <2>1, <2>2 DEF ListHolds, EntryHolds
  <1>2. CASE InsertRow(r)
    <2>1. h'[r].pc = "done" /\ h'[r].op = "add" /\ h'[r].key = h[r].key
      BY <1>2, GoStep DEF InsertRow, At
    <2>2. h[r].key \in Stamped /\ h[r].key \in rows'
      BY <1>2 DEF InsertRow
    <2>3. QED
      BY <2>1, <2>2 DEF ListHolds, EntryHolds
  <1>3. CASE RemoveRow(r) \/ Prune(r)
    <2>1. h'[r].pc = "done" /\ h'[r].op \in {"remove", "prune"}
      BY <1>3, ArriveStep DEF RemoveRow, Prune
    <2>2. QED
      BY <2>1 DEF ListHolds
  <1>4. CASE StartWalk(r)
    <2>1. PICK order \in {"newest", "oldest"} :
            Arrive(r, "listing", "walk", Nil, "slice",
                   [order |-> order, present |-> rows, walked |-> <<>>])
      BY <1>4 DEF StartWalk
    <2>2. /\ h'[r].pc = "slice" /\ h'[r].op = "walk"
          /\ h'[r].seen = [order |-> order, present |-> rows, walked |-> <<>>]
      BY <2>1, ArriveStep
    <2>3. rows \subseteq Stamped /\ <<>> \in Seq(Stamped) /\ Len(<<>>) = 0
      BY EmptySeq DEF LsTypeOK, Stamped
    <2>4. h'[r].seen \in Walks
      BY <2>2, <2>3 DEF Walks
    <2>5. \A o, x : Ordered(o, <<>>)' /\ Ahead(o, <<>>, x)'
      BY <2>3 DEF Ordered, Ahead
    <2>6. WalkHolds(r)'
      BY <2>2, <2>4, <2>5 DEF WalkHolds
    <2>7. QED
      BY <2>2, <2>6 DEF ListHolds
  <1>5. CASE ReadSlice(r)
    <2>1. h[r].pc = "slice" /\ h[r].op = "walk"
      BY <1>5 DEF ReadSlice, At
    <2>2. WalkHolds(r)'
      BY <1>5, <2>1, SliceHolds DEF ListHolds
    <2>3. h'[r].pc \in {"done", "slice"} /\ h'[r].op = "walk"
      BY <1>5, <2>1, GoWithStep DEF ReadSlice
    <2>4. QED
      BY <2>2, <2>3 DEF ListHolds
  <1>6. QED
    BY <1>1, <1>2, <1>3, <1>4, <1>5 DEF LsStep

LEMMA WalkNext == LsInv /\ LsInv' /\ WalkInv /\ Ready /\ [Next]_vars => WalkInv'
  <1> SUFFICES ASSUME LsInv, LsInv', WalkInv, Ready, [Next]_vars
               PROVE  WalkInv'
    OBVIOUS
  <1>1. LsTypeOK /\ LsTypeOK' /\ Handlers
    BY DEF LsInv, Ready
  <1>2. clock \in Int /\ Retention \in Int
    BY <1>1, ListingAssumption DEF LsTypeOK
  <1>3. ASSUME topic # "listing", UNCHANGED topic
        PROVE  WalkInv'
    BY <1>3 DEF WalkInv
  <1>4. ASSUME NEW r \in Request, ListingStep(r)
        PROVE  WalkInv'
    <2>1. LsStep(r) /\ UNCHANGED topic
      BY <1>4 DEF ListingStep
    <2>2. topic = "listing" /\ Only(r)
      BY <1>1, <2>1, ListingTopic, ListingMove
    <2>3. /\ \A q \in Request : ListHolds(q)
          /\ At(r, "add", "insert") => h[r].key \in Stamped
      BY <2>2 DEF WalkInv, LsInv
    <2>4. ListHolds(r)'
      BY <1>1, <2>1, <2>3, ListOwnHolds
    <2>5. padded' = padded /\ clock' = clock
      BY <2>1 DEF LsStep, Stamp, InsertRow, RemoveRow, Prune, StartWalk, ReadSlice
    <2>6. \A x \in rows \ rows' : padded => x.at < clock' - Retention
      <3>1. CASE Prune(r)
        BY <2>5, <3>1 DEF Prune, Text
      <3>2. CASE RemoveRow(r)
        BY <3>2 DEF RemoveRow
      <3>3. CASE Stamp(r) \/ InsertRow(r) \/ StartWalk(r) \/ ReadSlice(r)
        BY <3>3 DEF Stamp, InsertRow, StartWalk, ReadSlice
      <3>4. QED
        BY <2>1, <3>1, <3>2, <3>3 DEF LsStep
    <2>7. ASSUME NEW q \in Request, q # r
          PROVE  ListHolds(q)'
      BY <1>1, <1>2, <2>2, <2>3, <2>5, <2>6, <2>7, ListOthersHold DEF Only
    <2>8. QED
      BY <2>4, <2>7 DEF WalkInv
  <1>5. ASSUME NEW r \in Request, RequestStep(r)
        PROVE  WalkInv'
    <2> SUFFICES ASSUME topic = "listing", NEW q \in Request
                 PROVE  ListHolds(q)'
      BY <1>3, <1>5 DEF WalkInv, RequestStep
    <2>1. (Log(r) \/ Lose(r)) /\ UNCHANGED topic /\ UNCHANGED lsVars
      BY <1>5 DEF RequestStep
    <2>2. ListHolds(q) /\ ListHolds(r)
      BY DEF WalkInv
    <2>3. /\ Only(r) /\ h[r].pc # "idle" /\ h'[r].op = h[r].op
          /\ h'[r].key = h[r].key /\ h'[r].seen = h[r].seen
      BY <2>1, RequestTopic
    <2>4. Lose(r) /\ h'[r].pc = "lost"
      BY <1>1, <2>1, <2>2, GoStep DEF Log, Lose, ListHolds
    <2>5. CASE q = r
      <3>1. \A o, w : Ordered(o, w)' = Ordered(o, w)
        BY <2>1 DEF lsVars, Ordered, Precedes, Before, Text
      <3>2. h[r].op = "walk" => WalkHolds(r)'
        BY <2>2, <2>3, <2>4, <3>1 DEF ListHolds, WalkHolds
      <3>3. h[r].op = "add" => EntryHolds(r)'
        BY <2>2, <2>3, <2>4 DEF ListHolds, EntryHolds
      <3>4. QED
        BY <2>3, <2>4, <2>5, <3>2, <3>3 DEF ListHolds
    <2>6. CASE q # r
      <3>1. padded' = padded /\ clock' = clock /\ rows' = rows
        BY <2>1 DEF lsVars
      <3>2. QED
        BY <1>1, <1>2, <2>2, <2>3, <2>6, <3>1, ListOthersHold DEF Only
    <2>7. QED
      BY <2>5, <2>6
  <1>6. ASSUME NEW r \in Request,
               NamespaceStep(r) \/ BlocklistStep(r) \/ AccountStep(r) \/ MediaStep(r)
        PROVE  WalkInv'
    <2>1. topic # "listing" /\ UNCHANGED topic
      BY <1>6, NamespacesTopic, BlocklistTopic, AccountsTopic, MediaTopic
         DEF NamespaceStep, BlocklistStep, AccountStep, MediaStep
    <2>2. QED
      BY <1>3, <2>1
  <1>7. CASE ServerStep
    <2>1. CASE Tick
      <3>1. /\ UNCHANGED <<h, topic>> /\ padded' = padded /\ rows' = rows
            /\ clock' = clock + 1
        BY <1>7, <2>1 DEF ServerStep, Tick
      <3>2. ASSUME topic = "listing", NEW q \in Request
            PROVE  ListHolds(q)'
        BY <1>1, <1>2, <3>1, <3>2, ListOthersHold DEF WalkInv
      <3>3. QED
        BY <3>1, <3>2 DEF WalkInv
    <2>2. QED
      BY <1>3, <1>7, <2>1 DEF ServerStep, Restart, Expire
  <1>8. CASE UNCHANGED vars
    <2>1. UNCHANGED <<h, topic>> /\ padded' = padded /\ rows' = rows /\ clock' = clock
      BY <1>8 DEF vars, shared, lsVars
    <2>2. ASSUME topic = "listing", NEW q \in Request
          PROVE  ListHolds(q)'
      BY <1>1, <1>2, <2>1, <2>2, ListOthersHold DEF WalkInv
    <2>3. QED
      BY <2>1, <2>2 DEF WalkInv
  <1>9. QED
    BY <1>4, <1>5, <1>6, <1>7, <1>8 DEF Next

\* A sequence without repetitions has as many elements as places.
LEMMA NoRepetition ==
  ASSUME NEW S, NEW w \in Seq(S), \A i, j \in 1 .. Len(w) : i < j => w[i] # w[j]
  PROVE  Cardinality(Range(w)) = Len(w)
  <1>1. Len(w) \in Nat /\ w \in [1 .. Len(w) -> S] /\ DOMAIN w = 1 .. Len(w)
    BY LenProperties
  <1>2. \A i, j \in 1 .. Len(w) : w[i] = w[j] => i = j
    BY <1>1
  <1>3. w \in [1 .. Len(w) -> Range(w)] /\ \A t \in Range(w) : \E i \in 1 .. Len(w) : w[i] = t
    BY <1>1 DEF Range
  <1>4. w \in Bijection(1 .. Len(w), Range(w))
    BY <1>1, <1>2, <1>3 DEF Bijection, Injection, Surjection, IsInjective
  <1>5. ExistsBijection(1 .. Len(w), Range(w))
    BY <1>4 DEF ExistsBijection
  <1>6. IsFiniteSet(1 .. Len(w)) /\ Cardinality(1 .. Len(w)) = Len(w)
    BY <1>1, FS_Interval
  <1>7. QED
    BY <1>5, <1>6, FS_Bijection

-----------------------------------------------------------------------------
(* The types.                                                                *)

LEMMA ListsInit == Init => BlInv /\ LsInv
  <1> SUFFICES ASSUME Init
               PROVE  BlInv /\ LsInv
    OBVIOUS
  <1>1. \A r \in Request : h[r].pc = "idle"
    BY DEF Init, Idle
  <1>2. BlTypeOK
    BY DEF Init, BlInit, BlTypeOK, Lists
  <1>3. LsTypeOK
    <2>1. Cardinality(Request) \in Nat
      BY RequestsAssumption, FS_CardinalityType
    <2>2. QED
      BY <2>1, ListingAssumption DEF Init, LsInit, Old, LsTypeOK
  <1>4. QED
    BY <1>1, <1>2, <1>3 DEF BlInv, LsInv, Refreshes, At

\* However refreshes interleave, and whoever is lost between a change and its
\* refresh, what is enforced differs from what is listed by at most one entry
\* for every change it does not know of; and a change it does not know of is
\* one whose request has yet to refresh or was lost before anybody read the
\* change, or one that was in force until an older read was installed over it
\* (refresh_blocklist_snapshot, refresh_from).
THEOREM SnapshotStaysClose == Spec => []SnapshotTrails
  <1>1. Spec => [](BlInv /\ LsInv)
    BY ListsInit, BlocklistNext, ListingNext, LogInvariant, HandlersReady, PTL DEF Spec
  <1>2. Spec => []TrailInv
    BY <1>1, TrailInit, TrailNext, LogInvariant, HandlersReady, PTL DEF Spec
  <1>3. TrailInv /\ LogInv /\ Ready => SnapshotTrails
    <2> SUFFICES ASSUME TrailInv, LogInv, Ready, NEW k \in Kind,
                        NEW owed, owed = {r \in Unseen(k) : Unrefreshed(r) \/ Overtaken(r, k)}
                 PROVE  Cardinality(Lag(Listed(k), snapshot[k])) <= Cardinality(owed)
      BY DEF SnapshotTrails
    <2>1. CASE topic = "blocklist"
      <3>1. ASSUME NEW r \in Unseen(k)
            PROVE  Unrefreshed(r) \/ Overtaken(r, k)
        <4>1. r \in Request /\ r \in changed /\ r \notin current[k]
          BY <3>1 DEF Unseen, LogInv
        <4>2. h[r].pc \in Owing \cup Over
          BY <4>1 DEF LogInv, LogHolds
        <4>3. h[r].pc \in {"log", "ip", "url", "install", "done", "lost", "refused"}
          BY <2>1, <4>1, <4>2 DEF Ready, Served, InService, Serves, Owing, Over, BlPcs
        <4>4. h[r].pc # "refused"
          BY <4>1, <2>1 DEF TrailInv, TrailHolds, Refreshed
        <4>5. h[r].pc \in {"log", "done"} => r \in newest[k]
          BY <2>1, <4>1 DEF TrailInv, TrailHolds, Refreshed
        <4>6. QED
          BY <4>1, <4>3, <4>4, <4>5 DEF Unrefreshed, Overtaken
      <3>2. owed = changed \ current[k]
        BY <3>1 DEF Unseen
      <3>3. QED
        BY <2>1, <3>2 DEF TrailInv, SnapshotFollows, Behind, Within
    <2>2. CASE topic # "blocklist"
      <3>1. Lag(Listed(k), snapshot[k]) = {}
        BY <2>2 DEF TrailInv, BlInit, Listed, Rows, Lag
      <3>2. owed \subseteq Request
        BY DEF Unseen, LogInv
      <3>3. QED
        BY <3>1, <3>2, RequestsAssumption, FS_Subset, FS_EmptySet, FS_CardinalityType
    <2>3. QED
      BY <2>1, <2>2
  <1>4. QED
    BY <1>2, <1>3, LogInvariant, HandlersReady, PTL

\* Every table of every service keeps its type, for any number of requests.
THEOREM ServicesTyped == Spec => []TypeOK
  <1>1. Spec => [](BlInv /\ LsInv)
    BY ListsInit, BlocklistNext, ListingNext, LogInvariant, HandlersReady, PTL DEF Spec
  <1>2. LogInv /\ NsInv /\ AcInv /\ MdInv /\ BlInv /\ LsInv => TypeOK
    BY DEF LogInv, NsInv, AcInv, AcSafe, MdInv, MdSafe, BlInv, LsInv, TypeOK
  <1>3. QED
    BY <1>1, <1>2, LogInvariant, NamespaceInvariant, AccountInvariant, MediaInvariant, PTL

\* What a listing holds in every behaviour.
THEOREM ListingInvariant == Spec => [](LsTypeOK /\ Ready /\ WalkInv)
  <1>1. Spec => []LsInv
    BY ListsInit, ListingNext, HandlersReady, PTL DEF Spec
  <1>2. Init => WalkInv
    BY DEF Init, Idle, WalkInv, ListHolds
  <1>3. Spec => []WalkInv
    BY <1>1, <1>2, WalkNext, HandlersReady, PTL DEF Spec
  <1>4. LsInv => LsTypeOK
    BY DEF LsInv
  <1>5. QED
    BY <1>1, <1>3, <1>4, HandlersReady, PTL

\* A walk is a walk of a listing.
LEMMA ListingOps ==
  ASSUME Ready, NEW r \in Request, h[r].pc = "done", h[r].op \in {"walk", "add"}
  PROVE  topic = "listing"
  BY DEF Ready, Served, InService, Serves, NsOps, BlOps, AcOps, MdOps

\* A client that follows the cursors to the end has every row that was there
\* all along, and none twice, whatever is inserted and removed in between, for
\* any limit and any number of writers (recent_changes list, finalise_page).
THEOREM WalksAreComplete == Spec => []WalkIsComplete
  <1>1. LsTypeOK /\ Ready /\ WalkInv => WalkIsComplete
    <2> SUFFICES ASSUME LsTypeOK, Ready, WalkInv, NEW r \in Request, At(r, "walk", "done"),
                        NEW w, w = h[r].seen.walked
                 PROVE  /\ h[r].seen.present \subseteq {w[i] : i \in DOMAIN w}
                        /\ Cardinality({w[i] : i \in DOMAIN w}) = Len(w)
      BY DEF WalkIsComplete
    <2>1. WalkHolds(r)
      BY ListingOps DEF WalkInv, ListHolds, At
    <2>2. /\ w \in Seq(Stamped) /\ Ordered(h[r].seen.order, w)
          /\ h[r].seen.present \subseteq Range(w)
      BY <2>1 DEF WalkHolds, Walks, At
    <2>3. ASSUME NEW i \in 1 .. Len(w), NEW j \in 1 .. Len(w), i < j
          PROVE  w[i] # w[j]
      <3>1. w[i] \in Stamped /\ Precedes(h[r].seen.order, w[i], w[j])
        BY <2>2, <2>3, ElementOfSeq DEF Ordered
      <3>2. ~Precedes(h[r].seen.order, w[i], w[i])
        BY <3>1, OrderIsStrict
      <3>3. QED
        BY <3>1, <3>2
    <2>4. Cardinality(Range(w)) = Len(w)
      BY <2>2, <2>3, NoRepetition
    <2>5. QED
      BY <2>2, <2>4 DEF Range
  <1>2. QED
    BY <1>1, ListingInvariant, PTL

\* The audit log is returned in the order of time, and its pruner takes no
\* entry that is younger than the retention (audit_log list, prune).
THEOREM LogStaysChronological == Spec => []LogIsChronological
  <1>1. LsTypeOK /\ Ready /\ WalkInv => LogIsChronological
    <2> SUFFICES ASSUME LsTypeOK, Ready, WalkInv, padded, NEW r \in Request
                 PROVE  /\ At(r, "walk", "done") /\ h[r].seen.order = "newest" =>
                             \A i, j \in DOMAIN h[r].seen.walked :
                               i < j => h[r].seen.walked[i].at >= h[r].seen.walked[j].at
                        /\ At(r, "add", "done") /\ h[r].key \notin rows =>
                             h[r].key.at < clock - Retention
      BY DEF LogIsChronological
    <2>1. ASSUME At(r, "walk", "done"), h[r].seen.order = "newest",
                 NEW w, w = h[r].seen.walked,
                 NEW i \in DOMAIN w, NEW j \in DOMAIN w, i < j
          PROVE  w[i].at >= w[j].at
      <3>1. WalkHolds(r)
        BY <2>1, ListingOps DEF WalkInv, ListHolds, At
      <3>2. w \in Seq(Stamped) /\ Ordered("newest", w)
        BY <2>1, <3>1 DEF WalkHolds, Walks
      <3>3. i \in 1 .. Len(w) /\ j \in 1 .. Len(w)
        BY <2>1, <3>2, LenProperties
      <3>4. w[i] \in Stamped /\ w[j] \in Stamped /\ Precedes("newest", w[i], w[j])
        BY <2>1, <3>2, <3>3, ElementOfSeq DEF Ordered
      <3>5. w[i].at \in Nat /\ w[j].at \in Nat
        BY <3>4, ListingAssumption DEF Stamped
      <3>6. QED
        BY <3>4, <3>5 DEF Precedes, Before, Text
    <2>2. ASSUME At(r, "add", "done"), h[r].key \notin rows
          PROVE  h[r].key.at < clock - Retention
      BY <2>2, ListingOps DEF WalkInv, ListHolds, EntryHolds, At
    <2>3. QED
      BY <2>1, <2>2
  <1>2. QED
    BY <1>1, ListingInvariant, PTL

=============================================================================
