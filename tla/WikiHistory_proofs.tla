------------------------- MODULE WikiHistory_proofs -------------------------
(* Theorems about the revision history of WikiPages: handlers that write    *)
(* back rows they read long before never join two pages' histories, nobody  *)
(* rewrites a revision or the log, every write is logged, the texts the     *)
(* policy covers were approved, and why a page may be without a text.       *)
(* Then those about requests admitted one at a time: the history of a page  *)
(* is a line, its level is the one logged last, and the writes that were    *)
(* let through are those the level lets through.                            *)
EXTENDS WikiPages_proofs

-----------------------------------------------------------------------------
(* What a step may do to the pages and the revisions.                       *)

\* Handler r inserts its revision under the head it has read.
Inserts(r) ==
  /\ h[r].pc = "commit" /\ h[r].op \in {"update", "revert", "approve"}
  /\ page[h[r].page] # Nil
  /\ h'[r].pc = IF h[r].op = "revert" \/ h[r].gql THEN "index" ELSE "links"
  /\ page' = [page EXCEPT ![h[r].page] = [h[r].row EXCEPT !.head = r]]
  /\ revision' = [revision EXCEPT
       ![r] = [page |-> h[r].page, parent |-> h[r].row.head,
               author |-> h[r].author, body |-> h[r].body]]
  /\ h[r].op = "update" => Live(h[r].gql, h[r].user)
  /\ audit' = Append(audit, Entry(h[r], r, h[r].pend, Nil))

\* Handler r writes back the row it has read, with another level.
Relevels(r) ==
  /\ h[r].pc = "commit" /\ h[r].op = "protect" /\ page[h[r].page] # Nil
  /\ h'[r].pc = "done"
  /\ page' = [page EXCEPT ![h[r].page] = [h[r].row EXCEPT !.level = h[r].level]]
  /\ audit' = Append(audit, Entry(h[r], Nil, Nil, h[r].level))
  /\ UNCHANGED revision

\* Handler r logs something else, or nothing.
Notes(r) ==
  \/ UNCHANGED audit /\ h'[r].pc # "queue"
  \/ \E e : /\ audit' = Append(audit, e)
            /\ e.action = h[r].op /\ e.action \in {"update", "reject"}
            /\ e.page = h[r].page /\ e.rev = Nil

\* Handler r deletes a page with its revisions.
Deletes(r) ==
  /\ h[r].pc = "commit" /\ h[r].op = "delete" /\ page[h[r].page] # Nil
  /\ h'[r].pc = "index"
  /\ audit' = Append(audit, Entry(h[r], Nil, Nil, Nil))
  /\ page' = [page EXCEPT ![h[r].page] = Nil]
  /\ revision' = [s \in Req |->
       IF revision[s] # Nil /\ revision[s].page = h[r].page THEN Nil ELSE revision[s]]

\* Every step of a handler does one of these or leaves both tables alone.
LEMMA CommitFrame ==
  ASSUME TypeInv, NEW r \in Req, Step(r) \/ Lose(r)
  PROVE  \/ UNCHANGED <<page, revision>> /\ Notes(r)
         \/ Inserts(r) \/ Relevels(r) \/ Deletes(r)
  <1>f. Fail(r) => UNCHANGED <<page, revision>> /\ Notes(r)
    BY GotoMoves DEF Fail, tables, Notes
  <1>1. CASE CommitLive(r)
    <2>1. CASE ~Fail(r)
      <3>1. h'[r].pc = IF h[r].op = "revert" \/ h[r].gql THEN "index" ELSE "links"
        BY <1>1, <2>1, GotoMoves DEF CommitLive
      <3>2. QED
        BY <1>1, <2>1, <3>1 DEF CommitLive, CommitRevision, Inserts, Log
    <2>2. QED
      BY <1>f, <2>1
  <1>2. CASE CommitProtect(r)
    BY <1>f, <1>2, GotoMoves DEF CommitProtect, Relevels, Log
  <1>3. CASE CommitDelete(r)
    BY <1>f, <1>3, GotoMoves DEF CommitDelete, Deletes, Log
  <1>4. CASE CommitQueued(r)
    BY <1>4 DEF CommitQueued, Notes, Log, Entry
  <1>5. CASE PersistPending(r) \/ Decide(r)
    BY <1>f, <1>5, GotoMoves DEF PersistPending, Decide, Notes
  <1>6. CASE LogRejection(r)
    <2>1. h[r].op = "reject"
      BY <1>6 DEF LogRejection, TypeInv, Shape
    <2>2. QED
      BY <1>f, <1>6, <2>1 DEF LogRejection, Notes, Log, Entry
  <1>7. CASE RefreshLinks(r)
    BY <1>f, <1>7, GotoMoves DEF RefreshLinks, Notes, tables
  <1>8. CASE ReplaceCategories(r) \/ Index(r)
    BY <1>f, <1>8, GotoMoves DEF ReplaceCategories, Index, Notes, tables
  <1>9. CASE SettleTags(r)
    <2>1. CASE ~Fail(r)
      <3>1. PICK t : h' = [h EXCEPT ![r].pc = "index", ![r].tags = t]
        BY <1>9, <2>1 DEF SettleTags
      <3>2. h'[r].pc = "index"
        BY <3>1 DEF TypeInv, WellFormed, Context
      <3>3. QED
        BY <1>9, <2>1, <3>2 DEF SettleTags, Notes, tables
    <2>2. QED
      BY <1>f, <2>1
  <1>10. CASE Lose(r)
    BY <1>f, <1>10 DEF Lose
  <1>11. QED
    BY <1>1, <1>2, <1>3, <1>4, <1>5, <1>6, <1>7, <1>8, <1>9, <1>10 DEF Step

\* A revision that is there after a step was there before, unless the step
\* inserted it; the pages after a step were there before.
LEMMA RevisionFrame ==
  ASSUME TypeInv, NEW r \in Req, Step(r) \/ Lose(r)
  PROVE  /\ \A s \in Req : revision'[s] # Nil =>
              \/ s = r /\ Inserts(r)
              \/ revision[s] # Nil /\ revision'[s] = revision[s]
         /\ \A p \in Req : page'[p] # Nil => page[p] # Nil
  <1>1. CASE Inserts(r)
    BY <1>1 DEF Inserts, TypeInv, WellFormed
  <1>2. CASE Deletes(r)
    BY <1>2 DEF Deletes, TypeInv, WellFormed
  <1>3. CASE Relevels(r)
    BY <1>3 DEF Relevels, TypeInv, WellFormed
  <1>4. CASE UNCHANGED <<page, revision>>
    BY <1>4
  <1>5. QED
    BY <1>1, <1>2, <1>3, <1>4, CommitFrame

-----------------------------------------------------------------------------
(* The inductive invariant.  HistoryStaysOnPage is not inductive: a handler  *)
(* inserts under, or writes back, a head it read earlier, so that head must  *)
(* still be a revision of the page if the page is still there.  That holds   *)
(* because a deleted page never comes back under its old name.               *)

\* Names are minted by the request they come from, which has then started.
NamesAreFresh ==
  /\ \A p \in Req : page[p] # Nil => h[p].pc # "idle"
  /\ \A r \in Req : h[r].pc # "idle" => h[h[r].page].pc # "idle"
  /\ \A r \in Req : revision[r] # Nil => h[r].pc \notin {"idle", "commit", "decide"}

\* The head a handler has read is on the page, as long as the page exists.
HeldHeadsStayOnPage ==
  \A r \in Req :
    /\ h[r].pc \in {"commit", "decide"} /\ h[r].op # "reject"
    /\ page[h[r].page] # Nil /\ h[r].row.head # Nil
    => /\ revision[h[r].row.head] # Nil
       /\ revision[h[r].row.head].page = h[r].page

HistoryInv ==
  /\ NamesAreFresh
  /\ HeldHeadsStayOnPage
  /\ HistoryStaysOnPage

\* Initially there are no pages.
LEMMA HistoryInit == Init => HistoryInv
  <1> SUFFICES ASSUME Init PROVE HistoryInv
    OBVIOUS
  <1>1. \A r \in Req : h[r].pc = "idle" /\ page[r] = Nil /\ revision[r] = Nil
    BY IdleIsContext DEF Init
  <1>2. QED
    BY <1>1 DEF HistoryInv, NamesAreFresh, HeldHeadsStayOnPage, HistoryStaysOnPage

\* The rows of the two tables, spelled out for the steps below.
LEMMA HistoryTypes ==
  ASSUME TypeInv
  PROVE  /\ \A p \in Req : page[p] # Nil => page[p] \in PageRow
         /\ \A p \in Req : page[p] # Nil => page[p].head \in Req \cup {Nil}
         /\ \A r \in Req : revision[r] # Nil =>
              /\ revision[r].page \in Req
              /\ revision[r].parent \in Req \cup {Nil}
         /\ \A r \in Req : h[r].pc # "idle" => h[r].page \in Req
         /\ \A r \in Req : h[r].pc \in {"commit", "decide"} /\ h[r].op # "reject" =>
              h[r].row \in PageRow /\ h[r].row.head \in Req \cup {Nil}
         /\ Nil \notin Req
  BY NilAssumption DEF TypeInv, WellFormed, PageRow, RevisionRow, Shape

\* Names stay fresh.
LEMMA NamesStep ==
  ASSUME TypeInv, HistoryInv, NEW r \in Req, Step(r) \/ Lose(r)
  PROVE  NamesAreFresh'
  <1>1. /\ InFlight(r) /\ h'[r].page = h[r].page
        /\ h'[r].pc \notin {"idle", "decide"}
        /\ h'[r].pc = "commit" => h[r].pc = "decide"
        /\ \A s \in Req \ {r} : h'[s] = h[s]
    BY StepMoves DEF Kept
  <1>2. \A s \in Req : h[s].pc # "idle" <=> h'[s].pc # "idle"
    BY <1>1 DEF InFlight
  <1>3. \A p \in Req : page'[p] # Nil => page[p] # Nil
    BY RevisionFrame
  <1>4. \A s \in Req : revision'[s] # Nil =>
          revision[s] # Nil \/ (s = r /\ h'[r].pc \in {"index", "links"})
    BY RevisionFrame DEF Inserts
  <1>5. \A s \in Req : revision'[s] # Nil => h'[s].pc \notin {"idle", "commit", "decide"}
    BY <1>1, <1>4 DEF HistoryInv, NamesAreFresh
  <1>6. \A s \in Req : h'[s].pc # "idle" => h'[h'[s].page].pc # "idle"
    BY <1>1, <1>2, HistoryTypes DEF HistoryInv, NamesAreFresh
  <1>7. QED
    BY <1>2, <1>3, <1>5, <1>6 DEF HistoryInv, NamesAreFresh

\* The heads other handlers have read survive every step of one handler.
LEMMA HeldStep ==
  ASSUME TypeInv, HistoryInv, NEW r \in Req, Step(r) \/ Lose(r)
  PROVE  HeldHeadsStayOnPage'
  <1>1. /\ InFlight(r) /\ Kept(r)
        /\ h'[r].pc \notin {"idle", "decide"}
        /\ h'[r].pc = "commit" => h[r].pc = "decide"
        /\ \A s \in Req \ {r} : h'[s] = h[s]
    BY StepMoves
  <1> SUFFICES ASSUME NEW s \in Req, h'[s].pc \in {"commit", "decide"},
                      h'[s].op # "reject", page'[h'[s].page] # Nil, h'[s].row.head # Nil
               PROVE  /\ revision'[h'[s].row.head] # Nil
                      /\ revision'[h'[s].row.head].page = h'[s].page
    BY DEF HeldHeadsStayOnPage
  <1> DEFINE p == h[s].page
             x == h[s].row.head
  <1>2. h'[s].page = p /\ h'[s].row = h[s].row /\ h[s].pc \in {"commit", "decide"}
        /\ h[s].op # "reject"
    BY <1>1 DEF Kept
  <1>3. p \in Req /\ x \in Req
    BY <1>2, HistoryTypes
  <1>4. page[p] # Nil
    BY <1>2, <1>3, RevisionFrame
  <1>5. revision[x] # Nil /\ revision[x].page = p
    BY <1>2, <1>4 DEF HistoryInv, HeldHeadsStayOnPage
  <1>6. CASE Inserts(r)
    <2>1. x # r
      BY <1>5, <1>6 DEF Inserts, HistoryInv, NamesAreFresh
    <2>2. revision'[x] = revision[x]
      BY <1>3, <1>6, <2>1 DEF Inserts, TypeInv, WellFormed
    <2>3. QED
      BY <1>2, <1>5, <2>2
  <1>7. CASE Deletes(r)
    <2>1. h[r].page # p
      BY <1>2, <1>3, <1>7 DEF Deletes, TypeInv, WellFormed
    <2>2. revision'[x] = revision[x]
      BY <1>3, <1>5, <1>7, <2>1 DEF Deletes
    <2>3. QED
      BY <1>2, <1>5, <2>2
  <1>8. CASE UNCHANGED revision
    BY <1>2, <1>5, <1>8
  <1>9. QED
    BY <1>6, <1>7, <1>8, CommitFrame DEF Relevels

\* No step joins the histories of two pages.
LEMMA PageHistoryStep ==
  ASSUME TypeInv, HistoryInv, NEW r \in Req, Step(r) \/ Lose(r)
  PROVE  HistoryStaysOnPage'
  <1> DEFINE p == h[r].page
             row == h[r].row
  <1>1. p \in Req
    BY StepMoves, HistoryTypes DEF InFlight
  <1>2. HistoryStaysOnPage
    BY DEF HistoryInv
  <1>3. CASE Inserts(r)
    <2>1. row \in PageRow /\ row.head \in Req \cup {Nil} /\ revision[r] = Nil
      BY <1>3, HistoryTypes DEF Inserts, HistoryInv, NamesAreFresh
    <2>2. page[p] # Nil /\ (row.head # Nil => revision[row.head] # Nil /\ revision[row.head].page = p)
      BY <1>3 DEF Inserts, HistoryInv, HeldHeadsStayOnPage
    <2>3. page' = [page EXCEPT ![p] = [row EXCEPT !.head = r]]
          /\ revision' = [revision EXCEPT
               ![r] = [page |-> p, parent |-> row.head, author |-> h[r].author, body |-> h[r].body]]
      BY <1>3 DEF Inserts
    <2> HIDE DEF p, row
    <2>4. page'[p] # Nil /\ page'[p].head = r /\ \A z \in Req \ {p} : page'[z] = page[z]
      BY <1>1, <2>1, <2>3, RowIsNotNil DEF TypeInv, WellFormed, PageRow
    <2>5. revision'[r].page = p /\ revision'[r].parent = row.head
          /\ \A z \in Req \ {r} : revision'[z] = revision[z]
      BY <2>3 DEF TypeInv, WellFormed
    <2>6. revision'[r] # Nil
      <3>1. TypeInv'
        BY StepType, NextType DEF Next
      <3>2. h[r].author \in User /\ h[r].body \in Req
        BY <1>3 DEF Inserts, TypeInv, WellFormed, Context, Shape, Publishing
      <3>3. QED
        BY <1>1, <2>1, <2>3, <3>2, NilAssumption DEF TypeInv, WellFormed, RevisionRow
    <2>7. \A z \in Req : page'[z] # Nil <=> page[z] # Nil
      BY <2>2, <2>4
    <2>8. ASSUME NEW z \in Req, page'[z] # Nil, page'[z].head # Nil
          PROVE  revision'[page'[z].head] # Nil /\ revision'[page'[z].head].page = z
      <3>1. CASE z = p
        BY <2>4, <2>5, <2>6, <3>1
      <3>2. CASE z # p
        BY <1>2, <2>1, <2>4, <2>5, <2>8, <3>2, HistoryTypes DEF HistoryStaysOnPage
      <3>3. QED
        BY <3>1, <3>2
    <2>9. ASSUME NEW s \in Req, revision'[s] # Nil
          PROVE  /\ page'[revision'[s].page] # Nil
                 /\ revision'[s].parent # Nil =>
                      /\ revision'[revision'[s].parent] # Nil
                      /\ revision'[revision'[s].parent].page = revision'[s].page
      <3>1. CASE s = r
        BY <2>1, <2>2, <2>4, <2>5, <3>1
      <3>2. CASE s # r
        <4>1. revision'[s] = revision[s] /\ revision[s].page \in Req
              /\ revision[s].parent \in Req \cup {Nil}
          BY <2>5, <2>9, <3>2, HistoryTypes
        <4>2. page[revision[s].page] # Nil
              /\ (revision[s].parent # Nil =>
                    /\ revision[revision[s].parent] # Nil
                    /\ revision[revision[s].parent].page = revision[s].page)
          BY <1>2, <2>9, <4>1 DEF HistoryStaysOnPage
        <4>3. revision[s].parent # r
          BY <2>1, <4>2, HistoryTypes
        <4>4. QED
          BY <2>5, <2>7, <4>1, <4>2, <4>3
      <3>3. QED
        BY <3>1, <3>2
    <2>10. QED
      BY <2>8, <2>9 DEF HistoryStaysOnPage
  <1>4. CASE Relevels(r)
    <2>1. row \in PageRow /\ page[p] # Nil /\ h[r].level \in Level
          /\ (row.head # Nil => revision[row.head] # Nil /\ revision[row.head].page = p)
      BY <1>4, HistoryTypes
         DEF Relevels, HistoryInv, HeldHeadsStayOnPage, TypeInv, WellFormed, Context
    <2>2. page' = [page EXCEPT ![p] = [row EXCEPT !.level = h[r].level]] /\ UNCHANGED revision
      BY <1>4 DEF Relevels
    <2> HIDE DEF p, row
    <2>3. page'[p] # Nil /\ page'[p].head = row.head /\ \A z \in Req \ {p} : page'[z] = page[z]
      BY <1>1, <2>1, <2>2, RowIsNotNil DEF TypeInv, WellFormed, PageRow
    <2>4. QED
      BY <1>2, <2>1, <2>2, <2>3 DEF HistoryStaysOnPage
  <1>5. CASE Deletes(r)
    <2>1. page' = [page EXCEPT ![p] = Nil]
          /\ \A s \in Req : revision'[s] =
               IF revision[s] # Nil /\ revision[s].page = p THEN Nil ELSE revision[s]
      BY <1>5 DEF Deletes
    <2> HIDE DEF p
    <2>2. page'[p] = Nil /\ \A z \in Req \ {p} : page'[z] = page[z]
      BY <1>1, <2>1 DEF TypeInv, WellFormed
    <2>3. \A z \in Req : page'[z] # Nil => z # p /\ page'[z] = page[z]
      BY <2>2
    <2>4. \A s \in Req : revision'[s] # Nil => revision'[s] = revision[s] /\ revision[s].page # p
      BY <2>1
    <2>5. \A s \in Req : revision[s] # Nil /\ revision[s].page # p => revision'[s] = revision[s]
      BY <2>1
    <2>6. ASSUME NEW z \in Req, page'[z] # Nil, page'[z].head # Nil
          PROVE  revision'[page'[z].head] # Nil /\ revision'[page'[z].head].page = z
      BY <1>2, <2>3, <2>5, <2>6, HistoryTypes DEF HistoryStaysOnPage
    <2>7. ASSUME NEW s \in Req, revision'[s] # Nil
          PROVE  /\ page'[revision'[s].page] # Nil
                 /\ revision'[s].parent # Nil =>
                      /\ revision'[revision'[s].parent] # Nil
                      /\ revision'[revision'[s].parent].page = revision'[s].page
      BY <1>2, <2>2, <2>4, <2>5, <2>7, HistoryTypes DEF HistoryStaysOnPage
    <2>8. QED
      BY <2>6, <2>7 DEF HistoryStaysOnPage
  <1>6. CASE UNCHANGED <<page, revision>>
    BY <1>2, <1>6 DEF HistoryStaysOnPage
  <1>7. QED
    BY <1>3, <1>4, <1>5, <1>6, CommitFrame

\* Every admission keeps the invariant: what a handler reads is on the page,
\* and a new page has a name no handler holds.
LEMMA HistoryStart ==
  ASSUME TypeInv, NothingOutlivesPage, HistoryInv, NEW r \in Req, Start(r)
  PROVE  HistoryInv'
  <1>1. CASE Reads(r)
    <2>1. /\ h[r].pc = "idle" /\ (\A s \in Req \ {r} : h'[s] = h[s])
          /\ h'[r].pc \in {"commit", "decide"} /\ UNCHANGED <<page, revision>>
      BY <1>1 DEF Reads, tables
    <2>2. h'[r].page \in Req /\ page[h'[r].page] # Nil
      <3>1. TypeInv'
        BY StartType
      <3>2. h'[r].page \in Req
        BY <2>1, <3>1 DEF TypeInv, Shape
      <3>3. page[h'[r].page] # Nil
        BY <1>1 DEF Reads, Undecided, NothingOutlivesPage
      <3>4. QED
        BY <3>2, <3>3
    <2>3. NamesAreFresh'
      BY <2>1, <2>2, HistoryTypes DEF HistoryInv, NamesAreFresh
    <2>4. h'[r].op # "reject" => h'[r].row = page[h'[r].page]
      BY <1>1 DEF Reads
    <2>5. HeldHeadsStayOnPage'
      BY <2>1, <2>2, <2>4 DEF HistoryInv, HeldHeadsStayOnPage, HistoryStaysOnPage
    <2>6. QED
      BY <2>1, <2>3, <2>5 DEF HistoryInv, HistoryStaysOnPage
  <1>2. CASE Creates(r)
    <2>1. /\ h[r].pc = "idle" /\ (\A s \in Req \ {r} : h'[s] = h[s])
          /\ h'[r].pc \in {"queue", "links", "index"} /\ h'[r].page = r
          /\ page'[r] # Nil /\ page'[r].head \in {Nil, r}
          /\ (page'[r].head = r => revision'[r] # Nil)
          /\ (revision'[r] # revision[r] => revision'[r].page = r /\ revision'[r].parent = Nil)
          /\ (\A p \in Req \ {r} : page'[p] = page[p])
          /\ \A s \in Req \ {r} : revision'[s] = revision[s]
      BY <1>2 DEF Creates
    <2>2. page[r] = Nil /\ revision[r] = Nil
      BY <2>1 DEF HistoryInv, NamesAreFresh
    <2>3. \A s \in Req \ {r} : h[s].pc # "idle" => h[s].page # r /\ h[s].page \in Req
      BY <2>1, HistoryTypes DEF HistoryInv, NamesAreFresh
    <2>4. NamesAreFresh'
      BY <2>1, <2>2, <2>3 DEF HistoryInv, NamesAreFresh
    <2>5. HeldHeadsStayOnPage'
      <3> SUFFICES ASSUME NEW s \in Req, h'[s].pc \in {"commit", "decide"},
                          h'[s].op # "reject", page'[h'[s].page] # Nil, h'[s].row.head # Nil
                   PROVE  /\ revision'[h'[s].row.head] # Nil
                          /\ revision'[h'[s].row.head].page = h'[s].page
        BY DEF HeldHeadsStayOnPage
      <3>1. s # r /\ h'[s] = h[s]
        BY <2>1
      <3>2. page[h[s].page] # Nil /\ h[s].row.head \in Req
        BY <2>1, <2>3, <3>1, HistoryTypes
      <3>3. revision[h[s].row.head] # Nil /\ revision[h[s].row.head].page = h[s].page
        BY <3>1, <3>2 DEF HistoryInv, HeldHeadsStayOnPage
      <3>4. h[s].row.head # r
        BY <2>2, <3>3
      <3>5. QED
        BY <2>1, <3>1, <3>2, <3>3, <3>4
    <2>6. HistoryStaysOnPage'
      <3>1. \A p \in Req : page[p] # Nil => page'[p] = page[p]
        BY <2>1, <2>2
      <3>2. \A s \in Req : revision[s] # Nil => revision'[s] = revision[s]
        BY <2>1, <2>2
      <3>3. ASSUME NEW p \in Req, page'[p] # Nil, page'[p].head # Nil
            PROVE  revision'[page'[p].head] # Nil /\ revision'[page'[p].head].page = p
        <4>1. CASE p = r
          BY <2>1, <2>2, <3>3, <4>1
        <4>2. CASE p # r
          BY <2>1, <3>2, <3>3, <4>2, HistoryTypes DEF HistoryInv, HistoryStaysOnPage
        <4>3. QED
          BY <4>1, <4>2
      <3>4. ASSUME NEW s \in Req, revision'[s] # Nil
            PROVE  /\ page'[revision'[s].page] # Nil
                   /\ revision'[s].parent # Nil =>
                        /\ revision'[revision'[s].parent] # Nil
                        /\ revision'[revision'[s].parent].page = revision'[s].page
        <4>1. CASE s = r
          BY <2>1, <2>2, <3>4, <4>1
        <4>2. CASE s # r
          BY <2>1, <3>1, <3>2, <3>4, <4>2, HistoryTypes DEF HistoryInv, HistoryStaysOnPage
        <4>3. QED
          BY <4>1, <4>2
      <3>5. QED
        BY <3>3, <3>4 DEF HistoryStaysOnPage
    <2>7. QED
      BY <2>4, <2>5, <2>6 DEF HistoryInv
  <1>3. QED
    BY <1>1, <1>2, StartMoves

\* Every step keeps the invariant.
LEMMA HistoryNext ==
  TypeInv /\ NothingOutlivesPage /\ HistoryInv /\ [Next]_vars => HistoryInv'
  <1> SUFFICES ASSUME TypeInv, NothingOutlivesPage, HistoryInv, [Next]_vars
               PROVE  HistoryInv'
    OBVIOUS
  <1>1. CASE UNCHANGED vars
    BY <1>1 DEF vars, HistoryInv, NamesAreFresh, HeldHeadsStayOnPage, HistoryStaysOnPage
  <1>2. ASSUME NEW r \in Req, Step(r) \/ Lose(r) PROVE HistoryInv'
    BY <1>2, NamesStep, HeldStep, PageHistoryStep DEF HistoryInv
  <1>3. QED
    BY <1>1, <1>2, HistoryStart DEF Next

\* The invariant holds in every reachable state.
THEOREM HistoryInvariant == Spec => []HistoryInv
  BY HistoryInit, HistoryNext, TypeInvariant, NothingOutlives, PTL DEF Spec

\* The head of a page and the parent of a revision are always revisions of
\* the same page, whatever stale rows handlers write back.
THEOREM HistoryOnPage == Spec => []HistoryStaysOnPage
  <1>1. HistoryInv => HistoryStaysOnPage
    BY DEF HistoryInv
  <1>2. QED
    BY <1>1, HistoryInvariant, PTL

\* Appending keeps what was there.
LEMMA AppendKeeps ==
  ASSUME NEW S, NEW s \in Seq(S), NEW e
  PROVE  SubSeq(Append(s, e), 1, Len(s)) = s /\ Len(Append(s, e)) = Len(s) + 1
  OBVIOUS

\* No revision and no audit entry is ever edited; a revision goes only in the
\* deletion of its page, and the log never loses an entry.
THEOREM AppendOnly == Spec => HistoryIsAppendOnly
  <1> DEFINE Stays(s) == \/ revision'[s] = revision[s]
                         \/ revision'[s] = Nil /\ page'[revision[s].page] = Nil
             AppendsOnly ==
               /\ \A r \in Req : revision[r] # Nil =>
                    \/ revision'[r] = revision[r]
                    \/ revision'[r] = Nil /\ page'[revision[r].page] = Nil
               /\ Len(audit') \in {Len(audit), Len(audit) + 1}
               /\ SubSeq(audit', 1, Len(audit)) = audit
  <1>1. ASSUME TypeInv, HistoryInv, NEW r \in Req, Start(r) \/ Step(r) \/ Lose(r),
               NEW s \in Req, revision[s] # Nil
        PROVE  Stays(s)
    <2>1. CASE Reads(r)
      BY <2>1 DEF Reads, tables
    <2>2. CASE Creates(r)
      BY <1>1, <2>2 DEF Creates, HistoryInv, NamesAreFresh
    <2>3. CASE Inserts(r)
      BY <1>1, <2>3 DEF Inserts, HistoryInv, NamesAreFresh, TypeInv, WellFormed
    <2>4. CASE Deletes(r)
      BY <1>1, <2>4, HistoryTypes DEF Deletes, TypeInv, WellFormed
    <2>5. CASE UNCHANGED revision
      BY <2>5
    <2>6. QED
      BY <1>1, <2>1, <2>2, <2>3, <2>4, <2>5, StartMoves, CommitFrame DEF Relevels
  <1>2. ASSUME TypeInv, NEW r \in Req, Start(r) \/ Step(r) \/ Lose(r)
        PROVE  /\ Len(audit') \in {Len(audit), Len(audit) + 1}
               /\ SubSeq(audit', 1, Len(audit)) = audit
    <2>1. UNCHANGED audit \/ \E e : audit' = Append(audit, e)
      BY <1>2, StartMoves, StepFrame DEF Reads, Creates, LogFrame, tables
    <2>2. audit \in Seq(AuditRow)
      BY <1>2 DEF TypeInv, WellFormed
    <2>3. SubSeq(audit, 1, Len(audit)) = audit
      BY <2>2
    <2>4. QED
      BY <2>1, <2>2, <2>3, AppendKeeps
  <1>3. TypeInv /\ HistoryInv /\ [Next]_vars => [AppendsOnly]_vars
    BY <1>1, <1>2 DEF Next
  <1>4. QED
    BY <1>3, TypeInvariant, HistoryInvariant, PTL DEF Spec, HistoryIsAppendOnly

-----------------------------------------------------------------------------
(* The log.  EveryWriteLogged is not inductive: that an entry stays the only *)
(* one of its revision needs that nobody has logged the name of a request    *)
(* before it commits, and that a queued edit was logged is a fact about the  *)
(* handler that is about to queue it.                                        *)

\* The log names requests that have started, and revisions of requests that
\* have committed.
EntriesAreFresh ==
  \A e \in Entries :
    /\ h[e.page].pc # "idle"
    /\ e.rev # Nil => h[e.rev].pc \notin {"idle", "commit", "decide"}

\* The log has the edit of request q to page p as one that made no revision.
Announced(q, p) ==
  \E e \in Entries : e.action = h[q].op /\ e.page = p /\ e.rev = Nil

QueueIsAnnounced ==
  \A q \in Req :
    /\ h[q].pc = "queue" => Announced(q, h[q].page)
    /\ pending[q] # Nil => Announced(q, pending[q].page)

\* The log has revision s, of page p, exactly once.
LoggedOnce(s, p) ==
  \E i \in 1 .. Len(audit) :
    /\ audit[i].rev = s
    /\ audit[i].page = p
    /\ \A j \in 1 .. Len(audit) : audit[j].rev = s => j = i

LogInv ==
  /\ EntriesAreFresh
  /\ QueueIsAnnounced
  /\ EveryWriteLogged

\* Initially nothing is written and nothing logged.
LEMMA LogInit == Init => LogInv
  <1> SUFFICES ASSUME Init PROVE LogInv
    OBVIOUS
  <1>1. Entries = {} /\ \A r \in Req : h[r].pc = "idle" /\ revision[r] = Nil /\ pending[r] = Nil
    BY IdleIsContext DEF Init, Entries
  <1>2. QED
    BY <1>1 DEF LogInv, EntriesAreFresh, QueueIsAnnounced, EveryWriteLogged

\* What an entry names, spelled out.
LEMMA EntryTypes ==
  ASSUME TypeInv
  PROVE  \A e \in Entries : e.page \in Req /\ e.rev \in Req \cup {Nil}
  <1>1. \A i \in 1 .. Len(audit) : audit[i] \in AuditRow
    BY DEF TypeInv, WellFormed
  <1>2. QED
    BY <1>1 DEF Entries, AuditRow

\* A revision logged once stays so while others are logged.
LEMMA StaysLoggedOnce ==
  ASSUME TypeInv, NEW s \in Req, NEW p \in Req, LoggedOnce(s, p),
         \/ UNCHANGED audit
         \/ \E e : audit' = Append(audit, e) /\ e.rev # s
  PROVE  LoggedOnce(s, p)'
  <1>1. CASE UNCHANGED audit
    BY <1>1 DEF LoggedOnce
  <1>2. CASE \E e : audit' = Append(audit, e) /\ e.rev # s
    <2>1. PICK e : audit' = Append(audit, e) /\ e.rev # s
      BY <1>2
    <2>2. PICK i \in 1 .. Len(audit) :
            /\ audit[i].rev = s /\ audit[i].page = p
            /\ \A j \in 1 .. Len(audit) : audit[j].rev = s => j = i
      BY DEF LoggedOnce
    <2>3. i \in 1 .. Len(audit') /\ audit'[i] = audit[i]
      BY <2>1, EntriesOfAppend
    <2>4. \A j \in 1 .. Len(audit') : audit'[j].rev = s => j = i
      BY <2>1, <2>2, EntriesOfAppend
    <2>5. QED
      BY <2>2, <2>3, <2>4 DEF LoggedOnce
  <1>3. QED
    BY <1>1, <1>2

\* A revision nobody has logged is logged once by the entry appended for it.
LEMMA BecomesLoggedOnce ==
  ASSUME TypeInv, NEW s \in Req, NEW e, audit' = Append(audit, e), e.rev = s,
         \A x \in Entries : x.rev # s
  PROVE  LoggedOnce(s, e.page)'
  <1>1. \A j \in 1 .. Len(audit) : audit'[j].rev # s
    BY EntriesOfAppend DEF Entries
  <1>2. /\ Len(audit') \in 1 .. Len(audit') /\ audit'[Len(audit')] = e
        /\ \A j \in 1 .. Len(audit') : j = Len(audit') \/ j \in 1 .. Len(audit)
    BY EntriesOfAppend
  <1>3. QED
    BY <1>1, <1>2 DEF LoggedOnce

\* EveryWriteLogged in terms of the two operators.
LEMMA WriteLoggedParts ==
  EveryWriteLogged <=>
    /\ \A r \in Req : revision[r] # Nil => LoggedOnce(r, revision[r].page)
    /\ \A q \in Req : pending[q] # Nil => Announced(q, pending[q].page)
  <1>1. \A r \in Req : LoggedOnce(r, revision[r].page) <=>
          \E i \in 1 .. Len(audit) :
            /\ audit[i].rev = r
            /\ audit[i].page = revision[r].page
            /\ \A j \in 1 .. Len(audit) : audit[j].rev = r => j = i
    BY DEF LoggedOnce
  <1>2. \A q \in Req : Announced(q, pending[q].page) <=>
          \E e \in Entries :
            e.action = h[q].op /\ e.page = pending[q].page /\ e.rev = Nil
    BY DEF Announced
  <1>3. QED
    BY <1>1, <1>2 DEF EveryWriteLogged

\* The log grows by what the step writes, and its names stay fresh.
LEMMA LogStep ==
  ASSUME TypeInv, QueueInv, HistoryInv, LogInv, NEW r \in Req, Step(r) \/ Lose(r)
  PROVE  LogInv'
  <1>1. /\ InFlight(r) /\ Kept(r) /\ h'[r].pc \notin {"idle", "decide"}
        /\ h'[r].pc = "commit" => h[r].pc = "decide"
        /\ \A s \in Req \ {r} : h'[s] = h[s]
    BY StepMoves
  <1>2. h[r].page \in Req /\ h[h[r].page].pc # "idle" /\ r # Nil
    BY <1>1, HistoryTypes DEF HistoryInv, NamesAreFresh, InFlight
  <1>3. \A s \in Req : /\ h[s].pc # "idle" => h'[s].pc # "idle"
                       /\ h[s].pc \notin {"idle", "commit", "decide"} =>
                            h'[s].pc \notin {"idle", "commit", "decide"}
    BY <1>1 DEF InFlight
  <1>4. \/ UNCHANGED audit /\ h'[r].pc # "queue" /\ ~Inserts(r)
        \/ \E e : /\ audit' = Append(audit, e)
                  /\ e.page = h[r].page /\ e.action = h[r].op
                  /\ \/ e.rev = Nil /\ ~Inserts(r)
                     \/ e.rev = r /\ Inserts(r)
    <2>1. CASE Inserts(r)
      BY <2>1 DEF Inserts, Entry
    <2>2. CASE Relevels(r)
      BY <2>2, <2>1 DEF Relevels, Entry
    <2>3. CASE Deletes(r)
      BY <2>3, <2>1 DEF Deletes, Entry
    <2>4. CASE Notes(r) /\ ~Inserts(r)
      BY <2>4 DEF Notes
    <2>5. QED
      BY <2>1, <2>2, <2>3, <2>4, CommitFrame
  <1>5. Inserts(r) => /\ h'[r].pc \in {"index", "links"}
                      /\ \A x \in Entries : x.rev # r
    BY <1>2 DEF Inserts, LogInv, EntriesAreFresh
  <1>6. Entries \subseteq Entries'
    BY <1>4, EntriesOfAppend DEF Entries
  <1>7. EntriesAreFresh'
    <2> SUFFICES ASSUME NEW e \in Entries'
                 PROVE  /\ h'[e.page].pc # "idle"
                        /\ e.rev # Nil => h'[e.rev].pc \notin {"idle", "commit", "decide"}
      BY DEF EntriesAreFresh
    <2>1. CASE e \in Entries
      BY <1>3, <2>1, EntryTypes DEF LogInv, EntriesAreFresh
    <2>2. CASE e \notin Entries
      <3>1. e.page = h[r].page /\ (e.rev = Nil \/ (e.rev = r /\ Inserts(r)))
        BY <1>4, <2>2, EntriesOfAppend DEF Entries
      <3>2. QED
        BY <1>2, <1>3, <1>5, <3>1
    <2>3. QED
      BY <2>1, <2>2
  <1>8. \A q \in Req : h'[q].pc = "queue" => Announced(q, h[q].page)'
    <2> SUFFICES ASSUME NEW q \in Req, h'[q].pc = "queue" PROVE Announced(q, h[q].page)'
      OBVIOUS
    <2>1. h'[q].op = h[q].op /\ h'[q].page = h[q].page
      BY <1>1 DEF Kept
    <2>2. CASE q # r
      <3>1. h[q].pc = "queue" /\ h[q].page \in Req
        BY <1>1, <2>2, HistoryTypes
      <3>2. Announced(q, h[q].page)
        BY <3>1 DEF LogInv, QueueIsAnnounced
      <3>3. QED
        BY <1>6, <2>1, <3>2 DEF Announced
    <2>3. CASE q = r
      <3>1. PICK e : audit' = Append(audit, e) /\ e.page = h[r].page /\ e.action = h[r].op
                     /\ e.rev = Nil
        BY <1>4, <1>5, <2>3
      <3>2. e \in Entries'
        BY <3>1, EntriesOfAppend
      <3>3. QED
        BY <2>1, <2>3, <3>1, <3>2 DEF Announced
    <2>4. QED
      BY <2>2, <2>3
  <1>9. \A q \in Req : pending'[q] # Nil => Announced(q, pending[q].page)'
    <2> SUFFICES ASSUME NEW q \in Req, pending'[q] # Nil PROVE Announced(q, pending[q].page)'
      OBVIOUS
    <2>1. h'[q].op = h[q].op
      BY <1>1 DEF Kept
    <2>2. QueueFrame(r, q)
      BY StepFrame
    <2>3. CASE pending[q] # Nil /\ pending'[q].page = pending[q].page
      BY <1>6, <2>1, <2>3 DEF Announced, LogInv, QueueIsAnnounced
    <2>4. CASE q = r /\ h[r].pc = "queue" /\ pending'[q].page = h[r].page
      BY <1>6, <2>1, <2>4 DEF Announced, LogInv, QueueIsAnnounced
    <2>5. QED
      BY <2>2, <2>3, <2>4 DEF QueueFrame, Undecided
  <1>10. \A s \in Req : revision'[s] # Nil => LoggedOnce(s, revision[s].page)'
    <2> SUFFICES ASSUME NEW s \in Req, revision'[s] # Nil
                 PROVE  LoggedOnce(s, revision[s].page)'
      OBVIOUS
    <2>1. CASE s = r /\ Inserts(r)
      <3>1. PICK e : audit' = Append(audit, e) /\ e.page = h[r].page /\ e.rev = r
        BY <1>4, <2>1
      <3>2. revision'[r].page = h[r].page
        BY <2>1 DEF Inserts, TypeInv, WellFormed
      <3>3. LoggedOnce(s, e.page)'
        BY <1>5, <2>1, <3>1, BecomesLoggedOnce
      <3>4. QED
        BY <3>1, <3>2, <3>3, <2>1
    <2>2. CASE ~(s = r /\ Inserts(r))
      <3>1. revision[s] # Nil /\ revision'[s] = revision[s]
        BY <2>2, RevisionFrame
      <3>2. PICK p \in Req : p = revision[s].page
        BY <3>1, HistoryTypes
      <3>3. LoggedOnce(s, p)
        BY <3>1, <3>2, WriteLoggedParts DEF LogInv
      <3>4. UNCHANGED audit \/ \E e : audit' = Append(audit, e) /\ e.rev # s
        BY <1>4, <2>2, NilAssumption
      <3>5. LoggedOnce(s, p)'
        BY <3>3, <3>4, StaysLoggedOnce
      <3>6. QED
        BY <3>1, <3>2, <3>5
    <2>3. QED
      BY <2>1, <2>2
  <1>11. QueueIsAnnounced'
    <2>1. \A q \in Req : h'[q].page = h[q].page
      BY <1>1 DEF Kept
    <2>2. QED
      BY <1>8, <1>9, <2>1 DEF QueueIsAnnounced
  <1>12. EveryWriteLogged'
    BY <1>9, <1>10 DEF EveryWriteLogged, LoggedOnce, Announced
  <1>13. QED
    BY <1>7, <1>11, <1>12 DEF LogInv

\* A request that is admitted logs its own name or nothing.
LEMMA LogStart ==
  ASSUME TypeInv, QueueInv, HistoryInv, LogInv, NEW r \in Req, Start(r)
  PROVE  LogInv'
  <1>1. \A q \in Req : pending[q] # Nil => q # r \/ h[r].pc # "idle"
    BY DEF QueueInv, ProposersAreDone
  <1>2. CASE Reads(r)
    <2>1. /\ h[r].pc = "idle" /\ h'[r].pc \in {"commit", "decide"}
          /\ \A s \in Req \ {r} : h'[s] = h[s]
          /\ UNCHANGED <<pending, revision, audit>>
      BY <1>2 DEF Reads, tables
    <2>2. \A s \in Req : h[s].pc # "idle" => h'[s] = h[s]
      BY <2>1
    <2>3. Entries' = Entries
      BY <2>1 DEF Entries
    <2>4. EntriesAreFresh'
      BY <2>2, <2>3, EntryTypes DEF LogInv, EntriesAreFresh
    <2>5. QueueIsAnnounced'
      BY <1>1, <2>1, <2>3 DEF LogInv, QueueIsAnnounced, Announced
    <2>6. EveryWriteLogged'
      BY <1>1, <2>1, <2>3 DEF LogInv, EveryWriteLogged
    <2>7. QED
      BY <2>4, <2>5, <2>6 DEF LogInv
  <1>3. CASE Creates(r)
    <2>1. /\ h[r].pc = "idle" /\ h'[r].pc \in {"queue", "links", "index"}
          /\ h'[r].op = "create" /\ h'[r].page = r
          /\ \A s \in Req \ {r} : h'[s] = h[s] /\ revision'[s] = revision[s]
          /\ UNCHANGED pending
          /\ h'[r].pc # "queue" => page'[r].head = r /\ revision'[r].page = r
          /\ h'[r].pc = "queue" => page'[r].head = Nil /\ revision'[r] = revision[r]
      BY <1>3 DEF Creates
    <2>2. PICK e : /\ audit' = Append(audit, e) /\ e.action = "create" /\ e.page = r
                   /\ e.rev = page'[r].head
      BY <1>3 DEF Creates
    <2>3. Entries' = Entries \cup {e}
      BY <2>2, EntriesOfAppend
    <2>4. \A s \in Req : h[s].pc # "idle" => s # r /\ h'[s] = h[s]
      BY <2>1
    <2>5. revision[r] = Nil /\ r # Nil /\ \A x \in Entries : x.rev # r
      BY <2>1, NilAssumption DEF HistoryInv, NamesAreFresh, LogInv, EntriesAreFresh
    <2>6. EntriesAreFresh'
      BY <2>1, <2>2, <2>3, <2>4, EntryTypes DEF LogInv, EntriesAreFresh
    <2>7. \A q \in Req \ {r} :
            /\ h'[q].pc = "queue" => Announced(q, h[q].page)'
            /\ pending'[q] # Nil => Announced(q, pending[q].page)'
      BY <2>1, <2>3 DEF LogInv, QueueIsAnnounced, Announced
    <2>8. h'[r].pc = "queue" => Announced(r, h[r].page)'
      BY <2>1, <2>2, <2>3 DEF Announced
    <2>9. pending'[r] = Nil
      BY <1>1, <2>1
    <2>10. \A s \in Req : revision'[s] # Nil => LoggedOnce(s, revision[s].page)'
      <3> SUFFICES ASSUME NEW s \in Req, revision'[s] # Nil
                   PROVE  LoggedOnce(s, revision[s].page)'
        OBVIOUS
      <3>1. CASE s = r
        <4>1. e.rev = r /\ revision'[r].page = r
          BY <2>1, <2>2, <2>5, <3>1
        <4>2. LoggedOnce(r, e.page)'
          BY <2>2, <2>5, <4>1, BecomesLoggedOnce
        <4>3. QED
          BY <2>2, <3>1, <4>1, <4>2
      <3>2. CASE s # r
        <4>1. revision[s] # Nil /\ revision'[s] = revision[s]
          BY <2>1, <3>2
        <4>2. PICK p \in Req : p = revision[s].page
          BY <4>1, HistoryTypes
        <4>3. LoggedOnce(s, p)
          BY <4>1, <4>2, WriteLoggedParts DEF LogInv
        <4>4. e.rev # s
          BY <2>1, <2>2, <3>2, NilAssumption
        <4>5. LoggedOnce(s, p)'
          BY <2>2, <4>3, <4>4, StaysLoggedOnce
        <4>6. QED
          BY <4>1, <4>2, <4>5
      <3>3. QED
        BY <3>1, <3>2
    <2>11. \A q \in Req :
             /\ h'[q].pc = "queue" => Announced(q, h[q].page)'
             /\ pending'[q] # Nil => Announced(q, pending[q].page)'
      BY <2>7, <2>8, <2>9
    <2>12. QueueIsAnnounced'
      BY <2>11 DEF QueueIsAnnounced
    <2>13. EveryWriteLogged'
      BY <2>10, <2>11 DEF EveryWriteLogged, LoggedOnce, Announced
    <2>14. QED
      BY <2>6, <2>12, <2>13 DEF LogInv
  <1>4. QED
    BY <1>2, <1>3, StartMoves

\* The invariant of the log holds in every reachable state.
THEOREM LogInvariant == Spec => []LogInv
  <1>1. TypeInv /\ QueueInv /\ HistoryInv /\ LogInv /\ [Next]_vars => LogInv'
    <2> SUFFICES ASSUME TypeInv, QueueInv, HistoryInv, LogInv, [Next]_vars
                 PROVE  LogInv'
      OBVIOUS
    <2>1. CASE UNCHANGED vars
      BY <2>1 DEF vars, LogInv, EntriesAreFresh, QueueIsAnnounced, Announced,
         EveryWriteLogged, Entries
    <2>2. QED
      BY <2>1, LogStart, LogStep DEF Next
  <1>2. QED
    BY <1>1, LogInit, TypeInvariant, QueueInvariant, HistoryInvariant, PTL DEF Spec

\* Every revision is in the log exactly once, under its page, and every queued
\* edit was logged before it was queued, wherever a handler was lost.
THEOREM WritesAreLogged == Spec => []EveryWriteLogged
  <1>1. LogInv => EveryWriteLogged
    BY DEF LogInv
  <1>2. QED
    BY <1>1, LogInvariant, PTL

-----------------------------------------------------------------------------
(* The texts.  CoveredTextWasApproved is not inductive: the text a handler   *)
(* is about to publish must have passed the policy already, and it keeps     *)
(* having passed it because the request it came from never changes.          *)

\* The approval policy covers text b.
Covered(b) == ~h[b].gql /\ needs_approval(h[b].user)

\* The log has the approval of text b.
Approved(b) == \E e \in Entries : e.action = "approve" /\ e.pend = b

\* Text b may be in the history.
MayBePublic(b) == h[b].pc # "idle" /\ (Covered(b) => Approved(b))

PublicTextsMayBe ==
  \A r \in Req : revision[r] # Nil => MayBePublic(revision[r].body)

\* An update holds its own text, an approval the one under review, and a
\* revert one that has been in the history.
HeldTextsMayBe ==
  \A r \in Req :
    /\ h[r].pc = "commit" /\ h[r].op = "update" => h[r].body = r
    /\ h[r].pc \in {"commit", "decide"} /\ h[r].op = "approve" =>
         h[r].body = h[r].pend
    /\ h[r].pc = "commit" /\ h[r].op = "revert" => MayBePublic(h[r].body)

TextInv == PublicTextsMayBe /\ HeldTextsMayBe

\* Initially there are no texts.
LEMMA TextInit == Init => TextInv
  <1> SUFFICES ASSUME Init PROVE TextInv
    OBVIOUS
  <1>1. \A r \in Req : h[r].pc = "idle" /\ revision[r] = Nil
    BY IdleIsContext DEF Init
  <1>2. QED
    BY <1>1 DEF TextInv, PublicTextsMayBe, HeldTextsMayBe

\* Texts are named by requests.
LEMMA TextTypes ==
  ASSUME TypeInv
  PROVE  /\ \A r \in Req : revision[r] # Nil => revision[r].body \in Req
         /\ \A r \in Req : h[r].pc = "commit" /\ h[r].op \in {"update", "revert", "approve"}
              => h[r].body \in Req
  BY DEF TypeInv, WellFormed, RevisionRow, Shape, Publishing

\* What may be public stays so while the log grows and its request stands.
LEMMA StaysPublic ==
  ASSUME NEW b \in Req, MayBePublic(b), Entries \subseteq Entries',
         h'[b].pc # "idle", h'[b].gql = h[b].gql, h'[b].user = h[b].user
  PROVE  MayBePublic(b)'
  <1>1. Covered(b)' => Covered(b)
    BY DEF Covered, needs_approval
  <1>2. Approved(b) => Approved(b)'
    BY DEF Approved
  <1>3. QED
    BY <1>1, <1>2 DEF MayBePublic

\* No step of a handler publishes a covered text before its approval.
LEMMA TextStep ==
  ASSUME TypeInv, QueueInv, TextInv, NEW r \in Req, Step(r) \/ Lose(r)
  PROVE  TextInv'
  <1>1. /\ InFlight(r) /\ Kept(r) /\ h'[r].pc \notin {"idle", "decide"}
        /\ h'[r].pc = "commit" => h[r].pc = "decide" /\ h[r].op = "approve"
        /\ \A s \in Req \ {r} : h'[s] = h[s]
    BY StepMoves
  <1>2. Entries \subseteq Entries'
    <2>1. UNCHANGED audit \/ \E e : audit' = Append(audit, e)
      BY CommitFrame DEF Inserts, Relevels, Deletes, Notes
    <2>2. QED
      BY <2>1, EntriesOfAppend DEF Entries
  <1>3. \A b \in Req : MayBePublic(b) => MayBePublic(b)'
    <2> SUFFICES ASSUME NEW b \in Req, MayBePublic(b) PROVE MayBePublic(b)'
      OBVIOUS
    <2>1. h'[b].pc # "idle" /\ h'[b].gql = h[b].gql /\ h'[b].user = h[b].user
      BY <1>1 DEF Kept, MayBePublic
    <2>2. QED
      BY <1>2, <2>1, StaysPublic
  <1>4. HeldTextsMayBe'
    <2> SUFFICES ASSUME NEW s \in Req
                 PROVE  /\ h'[s].pc = "commit" /\ h'[s].op = "update" => h'[s].body = s
                        /\ h'[s].pc \in {"commit", "decide"} /\ h'[s].op = "approve" =>
                             h'[s].body = h'[s].pend
                        /\ h'[s].pc = "commit" /\ h'[s].op = "revert" =>
                             MayBePublic(h[s].body)'
      BY DEF HeldTextsMayBe
    <2>1. CASE s = r
      BY <1>1, <2>1 DEF Kept, TextInv, HeldTextsMayBe
    <2>2. CASE s # r
      <3>1. h'[s] = h[s]
        BY <1>1, <2>2
      <3>2. h[s].pc = "commit" /\ h[s].op = "revert" =>
              h[s].body \in Req /\ MayBePublic(h[s].body)
        BY TextTypes DEF TextInv, HeldTextsMayBe
      <3>3. h[s].pc = "commit" /\ h[s].op = "revert" => MayBePublic(h[s].body)'
        <4> SUFFICES ASSUME h[s].pc = "commit", h[s].op = "revert"
                     PROVE  MayBePublic(h[s].body)'
          OBVIOUS
        <4>1. PICK b \in Req : b = h[s].body
          BY <3>2
        <4>2. MayBePublic(b)'
          BY <1>3, <3>2, <4>1
        <4>3. QED
          BY <3>1, <4>1, <4>2
      <3>4. QED
        BY <3>1, <3>3 DEF TextInv, HeldTextsMayBe
    <2>3. QED
      BY <2>1, <2>2
  <1>5. PublicTextsMayBe'
    <2> SUFFICES ASSUME NEW s \in Req, revision'[s] # Nil
                 PROVE  MayBePublic(revision[s].body)'
      BY DEF PublicTextsMayBe
    <2>1. CASE s = r /\ Inserts(r)
      <3>1. PICK b \in Req : b = h[r].body
        BY <2>1, TextTypes DEF Inserts
      <3>2. revision'[r].body = b
        BY <2>1, <3>1 DEF Inserts, TypeInv, WellFormed
      <3>3. CASE h[r].op = "update"
        <4>1. b = r /\ Live(h[r].gql, h[r].user)
          BY <2>1, <3>1, <3>3 DEF Inserts, TextInv, HeldTextsMayBe
        <4>2. ~Covered(r)'
          BY <1>1, <4>1 DEF Covered, Live, Kept, needs_approval
        <4>3. MayBePublic(b)'
          BY <1>1, <4>1, <4>2 DEF MayBePublic
        <4>4. QED
          BY <2>1, <3>2, <4>3
      <3>4. CASE h[r].op = "approve"
        <4>1. b = h[r].pend /\ h[b].pc = "done"
          BY <1>1, <2>1, <3>1, <3>4, NilAssumption
             DEF Inserts, TextInv, HeldTextsMayBe, QueueInv, ProposersAreDone, InFlight
        <4>2. PICK e : audit' = Append(audit, e) /\ e.action = "approve" /\ e.pend = b
          BY <2>1, <3>4, <4>1 DEF Inserts, Entry
        <4>3. Approved(b)'
          BY <4>2, EntriesOfAppend DEF Approved
        <4>4. MayBePublic(b)'
          BY <1>1, <4>1, <4>3 DEF MayBePublic, InFlight
        <4>5. QED
          BY <2>1, <3>2, <4>4
      <3>5. CASE h[r].op = "revert"
        <4>1. MayBePublic(b)
          BY <2>1, <3>1, <3>5 DEF Inserts, TextInv, HeldTextsMayBe
        <4>2. MayBePublic(b)'
          BY <1>3, <4>1
        <4>3. QED
          BY <2>1, <3>2, <4>2
      <3>6. QED
        BY <2>1, <3>3, <3>4, <3>5 DEF Inserts
    <2>2. CASE ~(s = r /\ Inserts(r))
      <3>1. revision[s] # Nil /\ revision'[s] = revision[s]
        BY <2>2, RevisionFrame
      <3>2. PICK b \in Req : b = revision[s].body
        BY <3>1, TextTypes
      <3>3. MayBePublic(b)'
        BY <1>3, <3>1, <3>2 DEF TextInv, PublicTextsMayBe
      <3>4. QED
        BY <3>1, <3>2, <3>3
    <2>3. QED
      BY <2>1, <2>2
  <1>6. QED
    BY <1>4, <1>5 DEF TextInv

\* A creation is live only if the policy does not cover it, and a revert
\* copies what may be public.
LEMMA TextStart ==
  ASSUME TypeInv, HistoryInv, TextInv, NEW r \in Req, Start(r)
  PROVE  TextInv'
  <1>1. h[r].pc = "idle" /\ h'[r].pc # "idle" /\ \A s \in Req \ {r} : h'[s] = h[s]
    BY StartMoves DEF Reads, Creates
  <1>2. Entries \subseteq Entries'
    <2>1. UNCHANGED audit \/ \E e : audit' = Append(audit, e)
      BY StartMoves DEF Reads, Creates, tables
    <2>2. QED
      BY <2>1, EntriesOfAppend DEF Entries
  <1>3. \A b \in Req : MayBePublic(b) => MayBePublic(b)'
    <2> SUFFICES ASSUME NEW b \in Req, MayBePublic(b) PROVE MayBePublic(b)'
      OBVIOUS
    <2>1. b # r
      BY <1>1 DEF MayBePublic
    <2>2. h'[b] = h[b] /\ h[b].pc # "idle"
      BY <1>1, <2>1 DEF MayBePublic
    <2>3. QED
      BY <1>2, <2>2, StaysPublic
  <1>4. ASSUME NEW s \in Req, s # r
        PROVE  /\ h'[s].pc = "commit" /\ h'[s].op = "update" => h'[s].body = s
               /\ h'[s].pc \in {"commit", "decide"} /\ h'[s].op = "approve" =>
                    h'[s].body = h'[s].pend
               /\ h'[s].pc = "commit" /\ h'[s].op = "revert" => MayBePublic(h[s].body)'
    <2>1. h'[s] = h[s]
      BY <1>1, <1>4
    <2>2. h[s].pc = "commit" /\ h[s].op = "revert" => MayBePublic(h[s].body)'
      <3> SUFFICES ASSUME h[s].pc = "commit", h[s].op = "revert"
                   PROVE  MayBePublic(h[s].body)'
        OBVIOUS
      <3>1. PICK b \in Req : b = h[s].body
        BY TextTypes
      <3>2. MayBePublic(b)'
        BY <1>3, <3>1 DEF TextInv, HeldTextsMayBe
      <3>3. QED
        BY <2>1, <3>1, <3>2
    <2>3. QED
      BY <2>1, <2>2 DEF TextInv, HeldTextsMayBe
  <1>5. ASSUME NEW s \in Req, revision[s] # Nil, revision'[s] = revision[s]
        PROVE  MayBePublic(revision[s].body)'
    <2>1. PICK b \in Req : b = revision[s].body
      BY <1>5, TextTypes
    <2>2. MayBePublic(b)'
      BY <1>3, <1>5, <2>1 DEF TextInv, PublicTextsMayBe
    <2>3. QED
      BY <1>5, <2>1, <2>2
  <1>6. CASE Reads(r)
    <2>1. UNCHANGED revision
      BY <1>6 DEF Reads, tables
    <2>2. /\ h'[r].op = "update" => h'[r].body = r
          /\ h'[r].op = "approve" => h'[r].body = h'[r].pend
          /\ h'[r].op = "revert" =>
               \E v \in Req : revision[v] # Nil /\ h'[r].body = revision[v].body
      BY <1>6 DEF Reads
    <2>3. h'[r].op = "revert" => MayBePublic(h[r].body)'
      <3> SUFFICES ASSUME h'[r].op = "revert" PROVE MayBePublic(h[r].body)'
        OBVIOUS
      <3>1. PICK v \in Req : revision[v] # Nil /\ h'[r].body = revision[v].body
        BY <2>2
      <3>2. PICK b \in Req : b = revision[v].body
        BY <3>1, TextTypes
      <3>3. MayBePublic(b)'
        BY <1>3, <3>1, <3>2 DEF TextInv, PublicTextsMayBe
      <3>4. QED
        BY <3>1, <3>2, <3>3
    <2>4. HeldTextsMayBe'
      <3> SUFFICES ASSUME NEW s \in Req
                   PROVE  /\ h'[s].pc = "commit" /\ h'[s].op = "update" => h'[s].body = s
                          /\ h'[s].pc \in {"commit", "decide"} /\ h'[s].op = "approve" =>
                               h'[s].body = h'[s].pend
                          /\ h'[s].pc = "commit" /\ h'[s].op = "revert" =>
                               MayBePublic(h[s].body)'
        BY DEF HeldTextsMayBe
      <3>1. CASE s = r
        BY <2>2, <2>3, <3>1
      <3>2. CASE s # r
        BY <1>4, <3>2
      <3>3. QED
        BY <3>1, <3>2
    <2>5. PublicTextsMayBe'
      BY <1>5, <2>1 DEF PublicTextsMayBe
    <2>6. QED
      BY <2>4, <2>5 DEF TextInv
  <1>7. CASE Creates(r)
    <2>1. /\ h'[r].pc \in {"queue", "links", "index"}
          /\ \A s \in Req \ {r} : revision'[s] = revision[s]
          /\ h'[r].pc # "queue" =>
               Live(h'[r].gql, h'[r].user) /\ revision'[r].body = r
          /\ h'[r].pc = "queue" => revision'[r] = revision[r]
      BY <1>7 DEF Creates
    <2>2. HeldTextsMayBe'
      <3> SUFFICES ASSUME NEW s \in Req
                   PROVE  /\ h'[s].pc = "commit" /\ h'[s].op = "update" => h'[s].body = s
                          /\ h'[s].pc \in {"commit", "decide"} /\ h'[s].op = "approve" =>
                               h'[s].body = h'[s].pend
                          /\ h'[s].pc = "commit" /\ h'[s].op = "revert" =>
                               MayBePublic(h[s].body)'
        BY DEF HeldTextsMayBe
      <3>1. CASE s = r
        BY <2>1, <3>1
      <3>2. CASE s # r
        BY <1>4, <3>2
      <3>3. QED
        BY <3>1, <3>2
    <2>3. PublicTextsMayBe'
      <3> SUFFICES ASSUME NEW s \in Req, revision'[s] # Nil
                   PROVE  MayBePublic(revision[s].body)'
        BY DEF PublicTextsMayBe
      <3>1. CASE s # r \/ h'[r].pc = "queue"
        BY <1>5, <2>1, <3>1
      <3>2. CASE s = r /\ h'[r].pc # "queue"
        <4>1. ~Covered(r)'
          BY <2>1, <3>2 DEF Covered, Live, needs_approval
        <4>2. MayBePublic(r)'
          BY <1>1, <4>1 DEF MayBePublic
        <4>3. QED
          BY <2>1, <3>2, <4>2
      <3>3. QED
        BY <3>1, <3>2
    <2>4. QED
      BY <2>2, <2>3 DEF TextInv
  <1>8. QED
    BY <1>6, <1>7, StartMoves

\* The invariant of the texts holds in every reachable state.
THEOREM TextInvariant == Spec => []TextInv
  <1>1. TypeInv /\ QueueInv /\ HistoryInv /\ TextInv /\ [Next]_vars => TextInv'
    <2> SUFFICES ASSUME TypeInv, QueueInv, HistoryInv, TextInv, [Next]_vars
                 PROVE  TextInv'
      OBVIOUS
    <2>1. CASE UNCHANGED vars
      BY <2>1 DEF vars, TextInv, PublicTextsMayBe, HeldTextsMayBe, MayBePublic,
         Covered, Approved, Entries, needs_approval
    <2>2. QED
      BY <2>1, TextStart, TextStep DEF Next
  <1>2. QED
    BY <1>1, TextInit, TypeInvariant, QueueInvariant, HistoryInvariant, PTL DEF Spec

\* A text the approval policy covers is in the history only if somebody
\* approved it, however it got there.
THEOREM CoveredTextsApproved == Spec => []CoveredTextWasApproved
  <1>1. TextInv => CoveredTextWasApproved
    BY DEF TextInv, PublicTextsMayBe, CoveredTextWasApproved, MayBePublic, Covered, Approved
  <1>2. QED
    BY <1>1, TextInvariant, PTL

-----------------------------------------------------------------------------
(* Headless pages.  HeadlessAwaitsText is not inductive: a page with a head  *)
(* loses it to a handler that writes back a row without, so what handlers    *)
(* hold must be known as well.                                               *)

\* The edit that created page p is on its way to the queue, was lost on the
\* way, or is in the queue.
Proposed(p) == Stands(p, "queue") \/ (pending[p] # Nil /\ pending[p].page = p)

\* Page p has a head, and no handler is about to take it away.
HeadStays(p) ==
  /\ page[p].head # Nil
  /\ \A r \in Req :
       h[r].pc \in {"commit", "decide"} /\ h[r].op # "reject" /\ h[r].page = p
       => h[r].row.head # Nil

\* A text approved for page p has been published, and seen by whoever wrote
\* the page back, or is going to be, unless its handler was lost.
ApprovedShow(p) ==
  \/ page[p].head # Nil
  \/ WrittenBackEmpty(p)
  \/ \A q \in Req :
       pending[q] # Nil /\ pending[q].page = p /\ pending[q].status = "approved" =>
         \E r \in Req : h[r].op = "approve" /\ Carries(r, q)

HeadlessInv ==
  /\ \A p \in Req : page[p] # Nil => h[p].op = "create" /\ h[p].page = p
  /\ \A p \in Req : page[p] # Nil => Proposed(p) \/ HeadStays(p)
  /\ \A p \in Req : page[p] # Nil => ApprovedShow(p)

\* A queued edit stays in the queue until its page is deleted.
LEMMA QueueStays ==
  ASSUME TypeInv, QueueInv, NEW r \in Req, Step(r), NEW q \in Req, pending[q] # Nil
  PROVE  \/ pending'[q] # Nil /\ pending'[q].page = pending[q].page
         \/ page'[pending[q].page] = Nil
  <1>1. h[q].pc = "done" /\ pending[q] \in PendingRow /\ pending \in [Req -> PendingRow \cup {Nil}]
    BY DEF QueueInv, ProposersAreDone, TypeInv, WellFormed
  <1>f. Fail(r) => UNCHANGED pending
    BY DEF Fail, tables
  <1>0. CASE UNCHANGED pending
    BY <1>0
  <1>2. CASE CommitDelete(r) /\ ~Fail(r)
    <2>1. /\ page' = [page EXCEPT ![h[r].page] = Nil]
          /\ pending'[q] = IF pending[q].page = h[r].page THEN Nil ELSE pending[q]
      BY <1>2 DEF CommitDelete
    <2>2. pending[q].page \in Req
      BY <1>1 DEF PendingRow
    <2>3. QED
      BY <2>1, <2>2 DEF TypeInv, WellFormed
  <1>3. CASE PersistPending(r) /\ ~Fail(r)
    BY <1>1, <1>3 DEF PersistPending
  <1>4. CASE Decide(r) /\ ~Fail(r)
    <2>1. h[r].pend \in Req /\ pending' = [pending EXCEPT ![h[r].pend].status = Verdict(h[r].op),
                                                          ![h[r].pend].reviewer = h[r].user]
      BY <1>4 DEF Decide, Verdict, TypeInv, Shape
    <2>2. CASE q # h[r].pend
      BY <1>1, <2>1, <2>2
    <2>3. CASE q = h[r].pend
      <3>1. pending'[q] = [pending[q] EXCEPT !.status = Verdict(h[r].op),
                                             !.reviewer = h[r].user]
        BY <1>1, <2>1, <2>3
      <3>2. h[r].user \in User /\ Verdict(h[r].op) \in {"approved", "rejected"}
        BY DEF TypeInv, WellFormed, Context, Verdict
      <3>3. /\ [pending[q] EXCEPT !.status = Verdict(h[r].op), !.reviewer = h[r].user]
                 \in PendingRow
            /\ [pending[q] EXCEPT !.status = Verdict(h[r].op),
                                  !.reviewer = h[r].user].page = pending[q].page
        BY <1>1, <3>2, DecidedRow
      <3>4. QED
        BY <3>1, <3>3, NilAssumption
    <2>4. QED
      BY <2>2, <2>3
  <1>5. CASE CommitLive(r) \/ CommitQueued(r) \/ CommitProtect(r)
    BY <1>0, <1>f, <1>5 DEF CommitLive, CommitRevision, CommitQueued, CommitProtect
  <1>6. CASE LogRejection(r) \/ RefreshLinks(r) \/ ReplaceCategories(r) \/ SettleTags(r) \/ Index(r)
    BY <1>0, <1>f, <1>6
       DEF LogRejection, RefreshLinks, ReplaceCategories, SettleTags, Index, tables
  <1>7. QED
    BY <1>0, <1>f, <1>2, <1>3, <1>4, <1>5, <1>6 DEF Step

\* A handler that is about to queue the edit of a page that is there does so.
LEMMA QueueHappens ==
  ASSUME TypeInv, NEW r \in Req, Step(r), h[r].pc = "queue", page[h[r].page] # Nil
  PROVE  pending'[r] # Nil /\ pending'[r].page = h[r].page
  <1>1. PersistPending(r)
    BY DEF Step, CommitLive, CommitQueued, CommitProtect, CommitDelete, Decide,
       LogRejection, RefreshLinks, ReplaceCategories, SettleTags, Index
  <1> DEFINE q == [page |-> h[r].page, parent |-> h[r].row.head, author |-> h[r].user,
                   status |-> "pending", reviewer |-> Nil]
  <1>2. pending' = [pending EXCEPT ![r] = q]
    BY <1>1 DEF PersistPending
  <1>3. h[r].page \in Req /\ h[r].row.head \in Req \cup {Nil} /\ h[r].user \in User
    BY DEF TypeInv, WellFormed, Context, Shape, PageRow
  <1>4. q \in PendingRow
    BY <1>3 DEF PendingRow
  <1>5. QED
    BY <1>2, <1>4, NilAssumption DEF TypeInv, WellFormed

\* What a step does to a page that is there afterwards: nothing, or a revision
\* of handler r's becomes its head, or r writes back the head it has read.
LEMMA PageFrame ==
  ASSUME TypeInv, NEW r \in Req, Step(r) \/ Lose(r), NEW p \in Req, page'[p] # Nil
  PROVE  /\ page[p] # Nil
         /\ \/ page'[p] = page[p]
            \/ h[r].page = p /\ Inserts(r) /\ page'[p].head = r
            \/ h[r].page = p /\ Relevels(r) /\ page'[p].head = h[r].row.head
  <1>1. page[p] # Nil
    BY RevisionFrame
  <1>2. CASE Inserts(r)
    <2>1. h[r].page \in Req /\ h[r].row \in PageRow
      BY <1>2, HistoryTypes DEF Inserts
    <2>2. page'[p] = IF p = h[r].page THEN [h[r].row EXCEPT !.head = r] ELSE page[p]
      BY <1>2 DEF Inserts, TypeInv, WellFormed
    <2>3. [h[r].row EXCEPT !.head = r].head = r
      BY <2>1 DEF PageRow
    <2>4. QED
      BY <1>1, <1>2, <2>2, <2>3
  <1>3. CASE Relevels(r)
    <2>1. h[r].page \in Req /\ h[r].row \in PageRow
      BY <1>3, HistoryTypes DEF Relevels
    <2>2. page'[p] = IF p = h[r].page THEN [h[r].row EXCEPT !.level = h[r].level]
                     ELSE page[p]
      BY <1>3 DEF Relevels, TypeInv, WellFormed
    <2>3. [h[r].row EXCEPT !.level = h[r].level].head = h[r].row.head
      BY <2>1 DEF PageRow
    <2>4. QED
      BY <1>1, <1>3, <2>2, <2>3
  <1>4. CASE Deletes(r)
    BY <1>1, <1>4 DEF Deletes, TypeInv, WellFormed
  <1>5. CASE UNCHANGED page
    BY <1>1, <1>5
  <1>6. QED
    BY <1>2, <1>3, <1>4, <1>5, CommitFrame

\* The text a page was created with is not forgotten while the page is there.
LEMMA ProposedStep ==
  ASSUME TypeInv, QueueInv, LostAreDone, NEW r \in Req, Moves(r),
         NEW p \in Req, page[p] # Nil, page'[p] # Nil, h[p].page = p, Proposed(p)
  PROVE  Proposed(p)'
  <1>1. /\ InFlight(r) /\ \A s \in Req \ {r} : h'[s] = h[s]
    BY StepMoves DEF Moves
  <1>2. CASE Stands(p, "queue") /\ p # r
    <2>1. lost'[p] = lost[p]
      BY <1>2 DEF Moves, Lose, LostAreDone
    <2>2. QED
      BY <1>1, <1>2, <2>1 DEF Proposed, Stands
  <1>3. CASE Stands(p, "queue") /\ p = r
    <2>1. h[r].pc = "queue"
      BY <1>1, <1>3, NilAssumption DEF Stands, Stage, LostAreDone, InFlight
    <2>2. CASE Step(r)
      BY <1>3, <2>1, <2>2, QueueHappens DEF Proposed
    <2>3. CASE Lose(r)
      BY <1>3, <2>1, <2>3 DEF Lose, LostAreDone, Proposed, Stands
    <2>4. QED
      BY <2>2, <2>3 DEF Moves
  <1>4. CASE pending[p] # Nil /\ pending[p].page = p
    <2>1. CASE Step(r)
      BY <1>4, <2>1, QueueStays DEF Proposed
    <2>2. CASE Lose(r)
      BY <1>4, <2>2 DEF Lose, Fail, tables, Proposed
    <2>3. QED
      BY <2>1, <2>2 DEF Moves
  <1>5. QED
    BY <1>2, <1>3, <1>4 DEF Proposed

\* A head that nobody is about to take away stays.
LEMMA HeadStaysStep ==
  ASSUME TypeInv, NEW r \in Req, Step(r) \/ Lose(r),
         NEW p \in Req, page'[p] # Nil, HeadStays(p)
  PROVE  HeadStays(p)'
  <1>1. /\ Kept(r) /\ h'[r].pc \notin {"idle", "decide"}
        /\ h'[r].pc = "commit" => h[r].pc = "decide"
        /\ \A s \in Req \ {r} : h'[s] = h[s]
    BY StepMoves
  <1>2. ASSUME NEW s \in Req, h'[s].pc \in {"commit", "decide"}, h'[s].op # "reject",
               h'[s].page = p
        PROVE  h'[s].row.head # Nil
    BY <1>1, <1>2 DEF HeadStays, Kept
  <1>3. page'[p].head # Nil
    BY PageFrame, NilAssumption DEF HeadStays, Relevels
  <1>4. QED
    BY <1>2, <1>3 DEF HeadStays

\* An approved text shows, or will, or was lost, or has been written over.
LEMMA ShowStep ==
  ASSUME TypeInv, NothingOutlivesPage, QueueInv, CarriedInv, NEW r \in Req, Moves(r),
         NEW p \in Req, page'[p] # Nil, ApprovedShow(p)
  PROVE  ApprovedShow(p)'
  <1>1. /\ InFlight(r) /\ Kept(r) /\ \A s \in Req \ {r} : h'[s] = h[s]
    BY StepMoves DEF Moves
  <1>2. LostAreDone /\ ReviewersKeepPage /\ lost[r] = Nil
    BY <1>1 DEF CarriedInv, LostAreDone, InFlight
  <1>3. CASE page'[p].head # Nil
    BY <1>3 DEF ApprovedShow
  <1>4. CASE h[r].page = p /\ Relevels(r) /\ page'[p].head = Nil /\ h[r].row.head = Nil
    <2>1. UNCHANGED lost
      <3>1. h[r].op = "protect"
        BY <1>4 DEF Relevels
      <3>2. CASE Lose(r)
        <4>1. UNCHANGED audit
          BY <3>2 DEF Lose, Fail, tables
        <4>2. PICK e : audit' = Append(audit, e)
          BY <1>4 DEF Relevels
        <4>3. QED
          BY <4>1, <4>2, EntriesOfAppend
      <3>3. QED
        BY <3>2 DEF Moves
    <2>2. WrittenBackEmpty(p)'
      BY <1>1, <1>2, <1>4, <2>1 DEF WrittenBackEmpty, Relevels, Kept
    <2>3. QED
      BY <2>2 DEF ApprovedShow
  <1>5. CASE page'[p] = page[p] /\ page[p].head = Nil
    <2>1. CASE WrittenBackEmpty(p)
      <3>1. PICK s \in Req : /\ h[s].op = "protect" /\ h[s].page = p /\ h[s].row.head = Nil
                             /\ h[s].pc = "done" /\ lost[s] = Nil
        BY <2>1 DEF WrittenBackEmpty
      <3>2. s # r
        BY <1>1, <3>1 DEF InFlight
      <3>3. h'[s] = h[s] /\ lost'[s] = lost[s]
        BY <1>1, <1>2, <3>2 DEF Moves, Lose, LostAreDone
      <3>4. WrittenBackEmpty(p)'
        BY <3>1, <3>3 DEF WrittenBackEmpty
      <3>5. QED
        BY <3>4 DEF ApprovedShow
    <2>2. CASE ~WrittenBackEmpty(p)
      <3> SUFFICES ASSUME NEW q \in Req, pending'[q] # Nil, pending'[q].page = p,
                          pending'[q].status = "approved"
                   PROVE  \E s \in Req : h'[s].op = "approve" /\ Carries(s, q)'
        BY DEF ApprovedShow
      <3>1. CASE pending'[q] = pending[q]
        <4>1. PICK s \in Req : h[s].op = "approve" /\ Carries(s, q)
          BY <1>5, <2>2, <3>1 DEF ApprovedShow
        <4>2. h'[s].op = h[s].op
          BY <1>1 DEF Kept
        <4>3. CASE s = r /\ CommitRevision(r)
          <5>1. h[r].pend = q /\ h[r].pc = "commit" /\ h[r].page = p
            <6>1. h[r].pend = q /\ h[r].pc = "commit"
              BY <1>2, <4>1, <4>3, NilAssumption DEF Carries, Stands, Stage
            <6>2. QED
              BY <1>2, <3>1, <6>1, NilAssumption DEF ReviewersKeepPage
          <5>2. page' = [page EXCEPT ![p] = [h[r].row EXCEPT !.head = r]]
            BY <4>3, <5>1 DEF CommitRevision
          <5>3. h[r].row \in PageRow
            BY <4>1, <4>3, <5>1, HistoryTypes
          <5>4. page'[p].head = r
            BY <5>2, <5>3 DEF PageRow, TypeInv, WellFormed
          <5>5. QED
            BY <1>5, <5>4, NilAssumption
        <4>4. QED
          BY <1>2, <3>1, <4>1, <4>2, <4>3, CarrierMoves
      <3>2. CASE /\ h[r].pc = "decide" /\ q = h[r].pend
                 /\ h'[r].pc \in {"commit", "log"}
                 /\ pending'[q].status = Verdict(h[r].op)
        <4>1. h[r].op = "approve"
          BY <3>2 DEF Verdict
        <4>2. QED
          BY <3>2, <4>1, DecidedCarries DEF Kept
      <3>3. QED
        BY <3>1, <3>2, StepFrame DEF QueueFrame, Moves
    <2>3. QED
      BY <2>1, <2>2
  <1>6. QED
    BY <1>3, <1>4, <1>5, PageFrame, NilAssumption DEF Moves

\* A step of a handler leaves no page without its edit or its head.
LEMMA HeadlessStep ==
  ASSUME TypeInv, NothingOutlivesPage, QueueInv, CarriedInv, HeadlessInv,
         NEW r \in Req, Moves(r)
  PROVE  HeadlessInv'
  <1>1. Kept(r) /\ \A s \in Req \ {r} : h'[s] = h[s]
    BY StepMoves DEF Moves
  <1>2. \A p \in Req : page'[p] # Nil => page[p] # Nil
    BY RevisionFrame DEF Moves
  <1>3. \A p \in Req : page'[p] # Nil => h'[p].op = "create" /\ h'[p].page = p
    BY <1>1, <1>2 DEF Kept, HeadlessInv
  <1>4. ASSUME NEW p \in Req, page'[p] # Nil PROVE Proposed(p)' \/ HeadStays(p)'
    BY <1>2, <1>4, ProposedStep, HeadStaysStep DEF HeadlessInv, CarriedInv, Moves
  <1>5. ASSUME NEW p \in Req, page'[p] # Nil PROVE ApprovedShow(p)'
    BY <1>2, <1>5, ShowStep DEF HeadlessInv
  <1>6. QED
    BY <1>3, <1>4, <1>5 DEF HeadlessInv

\* A new page is live or its edit is about to be queued.
LEMMA HeadlessStart ==
  ASSUME TypeInv, NothingOutlivesPage, HistoryInv, CarriedInv, HeadlessInv,
         NEW r \in Req, Start(r), UNCHANGED lost
  PROVE  HeadlessInv'
  <1>1. h[r].pc = "idle" /\ h'[r].pc # "idle" /\ \A s \in Req \ {r} : h'[s] = h[s]
    BY StartMoves DEF Reads, Creates
  <1>2. page[r] = Nil
    BY <1>1 DEF HistoryInv, NamesAreFresh
  <1>3. UNCHANGED pending
    BY StartMoves DEF Reads, Creates, tables
  <1>4. lost[r] = Nil
    BY <1>1 DEF CarriedInv, LostAreDone
  <1>5. ASSUME NEW p \in Req, p # r, page'[p] = page[p], ApprovedShow(p)
        PROVE  ApprovedShow(p)'
    <2>1. \A s \in Req, q \in Req : Carries(s, q) => s # r /\ Carries(s, q)'
      BY <1>1, <1>4, NilAssumption DEF Carries, Stands, Stage
    <2>2. WrittenBackEmpty(p) => WrittenBackEmpty(p)'
      BY <1>1 DEF WrittenBackEmpty
    <2>3. QED
      BY <1>1, <1>3, <1>5, <2>1, <2>2 DEF ApprovedShow
  <1>6. \A p \in Req \ {r} : h'[p] = h[p] /\ (Proposed(p) => Proposed(p)')
    BY <1>1, <1>3 DEF Proposed, Stands
  <1>7. CASE Reads(r)
    <2>1. UNCHANGED page /\ (h'[r].op # "reject" => h'[r].row = page[h'[r].page])
      BY <1>7 DEF Reads, tables
    <2>2. ASSUME NEW p \in Req, page[p] # Nil, HeadStays(p) PROVE HeadStays(p)'
      BY <1>1, <2>1, <2>2 DEF HeadStays
    <2>3. QED
      BY <1>2, <1>5, <1>6, <2>1, <2>2 DEF HeadlessInv
  <1>8. CASE Creates(r)
    <2>1. /\ h'[r].op = "create" /\ h'[r].page = r
          /\ h'[r].pc \in {"queue", "links", "index"}
          /\ h'[r].pc # "queue" => page'[r].head = r
          /\ \A p \in Req \ {r} : page'[p] = page[p]
      BY <1>8 DEF Creates
    <2>2. \A s \in Req \ {r} : h[s].pc # "idle" => h[s].page # r
      BY <1>1 DEF HistoryInv, NamesAreFresh
    <2>3. Proposed(r)' \/ HeadStays(r)'
      <3>1. CASE h'[r].pc = "queue"
        BY <3>1 DEF Proposed, Stands
      <3>2. CASE h'[r].pc # "queue"
        BY <1>1, <2>1, <2>2, <3>2, HistoryTypes DEF HeadStays
      <3>3. QED
        BY <3>1, <3>2
    <2>4. ApprovedShow(r)'
      <3>1. \A q \in Req : pending[q] # Nil => pending[q].page # r
        BY <1>2 DEF NothingOutlivesPage
      <3>2. QED
        BY <1>3, <3>1 DEF ApprovedShow
    <2>5. ASSUME NEW p \in Req, p # r, page'[p] # Nil PROVE Proposed(p)' \/ HeadStays(p)'
      <3>1. page'[p] = page[p] /\ h'[p] = h[p] /\ (Proposed(p) \/ HeadStays(p))
        BY <1>1, <2>1, <2>5 DEF HeadlessInv
      <3>2. HeadStays(p) => HeadStays(p)'
        BY <1>1, <2>1, <2>5, <3>1 DEF HeadStays
      <3>3. QED
        BY <1>6, <2>5, <3>1, <3>2
    <2>6. QED
      BY <1>1, <1>5, <2>1, <2>3, <2>4, <2>5 DEF HeadlessInv
  <1>9. QED
    BY <1>7, <1>8, StartMoves

\* The invariant of the headless pages holds in every reachable state.
THEOREM HeadlessInvariant == Spec => []HeadlessInv
  <1>1. Init => HeadlessInv
    BY DEF Init, HeadlessInv
  <1>2. TypeInv /\ NothingOutlivesPage /\ QueueInv /\ HistoryInv /\ CarriedInv /\ HeadlessInv
        /\ [Next]_vars => HeadlessInv'
    <2> SUFFICES ASSUME TypeInv, NothingOutlivesPage, QueueInv, HistoryInv, CarriedInv,
                        HeadlessInv, [Next]_vars
                 PROVE  HeadlessInv'
      OBVIOUS
    <2>1. CASE UNCHANGED vars
      BY <2>1 DEF vars, HeadlessInv, Proposed, Stands, HeadStays, ApprovedShow,
         WrittenBackEmpty, Carries
    <2>2. QED
      BY <2>1, HeadlessStart, HeadlessStep DEF Next, Moves
  <1>3. QED
    BY <1>1, <1>2, TypeInvariant, NothingOutlives, QueueInvariant, HistoryInvariant,
       CarriedInvariant, PTL DEF Spec

\* A page has no head only because the text it was created with is still to
\* be accepted or was lost on its way to the queue; and a text that was
\* approved for such a page is about to show, or its handler was lost before
\* publishing it, or a protect wrote the page back as it was before.
THEOREM HeadlessAwaits == Spec => []HeadlessAwaitsText
  <1>1. HeadlessInv => HeadlessAwaitsText
    BY DEF HeadlessInv, HeadlessAwaitsText, Proposed, HeadStays, ApprovedShow, Carries
  <1>2. QED
    BY <1>1, HeadlessInvariant, PTL

-----------------------------------------------------------------------------
(* One request at a time.  What a handler has read is then still true when   *)
(* it commits, which is all that HistoryIsLinear and LevelsHold lack to be   *)
(* inductive.                                                                *)

OneAtATime == \A r, s \in Req : InFlight(r) /\ InFlight(s) => r = s

\* The row a handler has read is the row of the page.
RowsAreCurrent ==
  \A r \in Req : h[r].pc \in {"commit", "decide"} /\ h[r].op # "reject" =>
    h[r].row = page[h[r].page]

\* The level a handler has read lets its write through.
LevelsAdmit ==
  \A r \in Req :
    h[r].pc = "commit" /\ h[r].op \in {"update", "revert"} /\ ~h[r].gql
    => check_protection(h[r].row.level, h[r].user)

AloneInv ==
  /\ OneAtATime
  /\ RowsAreCurrent
  /\ LevelsAdmit

\* A step of the only handler in flight leaves it the only one.
LEMMA AloneStep ==
  ASSUME TypeInv, AloneInv, NEW r \in Req, Step(r) \/ Lose(r)
  PROVE  AloneInv'
  <1>1. /\ InFlight(r) /\ Kept(r) /\ h'[r].pc \notin {"idle", "decide"}
        /\ h'[r].pc = "commit" => h[r].pc = "decide" /\ h[r].op = "approve"
        /\ \A s \in Req \ {r} : h'[s] = h[s]
    BY StepMoves
  <1>2. \A s \in Req \ {r} : ~InFlight(s)
    BY <1>1 DEF AloneInv, OneAtATime
  <1>3. OneAtATime'
    BY <1>1, <1>2 DEF OneAtATime, InFlight
  <1>4. h'[r].pc = "commit" => UNCHANGED page
    BY CommitFrame DEF Inserts, Relevels, Deletes
  <1>5. RowsAreCurrent'
    BY <1>1, <1>2, <1>4 DEF RowsAreCurrent, AloneInv, InFlight, Kept
  <1>6. LevelsAdmit'
    BY <1>1, <1>2 DEF LevelsAdmit, InFlight, Kept
  <1>7. QED
    BY <1>3, <1>5, <1>6 DEF AloneInv

\* A request is admitted when there is no other, with the row it has read.
LEMMA AloneStart ==
  ASSUME Serial, TypeInv, AloneInv, NEW r \in Req, Start(r)
  PROVE  AloneInv'
  <1>1. /\ \A s \in Req : ~InFlight(s)
        /\ \A s \in Req \ {r} : h'[s] = h[s]
    BY StartMoves DEF Reads, Creates
  <1>2. OneAtATime'
    BY <1>1 DEF OneAtATime, InFlight
  <1>3. CASE Reads(r)
    <2>1. UNCHANGED page /\ (h'[r].op # "reject" => h'[r].row = page[h'[r].page])
          /\ (h'[r].op \in {"update", "revert"} =>
                h'[r].gql \/ check_protection(h'[r].row.level, h'[r].user))
      BY <1>3 DEF Reads, tables
    <2>2. RowsAreCurrent'
      BY <1>1, <2>1 DEF RowsAreCurrent, InFlight
    <2>3. LevelsAdmit'
      BY <1>1, <2>1 DEF LevelsAdmit, InFlight, check_protection
    <2>4. QED
      BY <1>2, <2>2, <2>3 DEF AloneInv
  <1>4. CASE Creates(r)
    <2>1. h'[r].pc \in {"queue", "links", "index"}
      BY <1>4 DEF Creates
    <2>2. RowsAreCurrent' /\ LevelsAdmit'
      BY <1>1, <2>1 DEF RowsAreCurrent, LevelsAdmit, InFlight
    <2>3. QED
      BY <1>2, <2>2 DEF AloneInv
  <1>5. QED
    BY <1>3, <1>4, StartMoves

\* One request at a time, for a whole behaviour.
THEOREM AloneInvariant == ASSUME Serial PROVE Spec => []AloneInv
  <1>1. Init => AloneInv
    <2>1. Init => \A r \in Req : h[r].pc = "idle"
      BY IdleIsContext DEF Init
    <2>2. QED
      BY <2>1 DEF AloneInv, OneAtATime, RowsAreCurrent, LevelsAdmit, InFlight
  <1>2. TypeInv /\ AloneInv /\ [Next]_vars => AloneInv'
    <2> SUFFICES ASSUME TypeInv, AloneInv, [Next]_vars PROVE AloneInv'
      OBVIOUS
    <2>1. CASE UNCHANGED vars
      BY <2>1 DEF vars, AloneInv, OneAtATime, RowsAreCurrent, LevelsAdmit, InFlight,
         check_protection
    <2>2. QED
      BY <2>1, AloneStart, AloneStep DEF Next
  <1>3. QED
    BY <1>1, <1>2, TypeInvariant, PTL DEF Spec

-----------------------------------------------------------------------------
(* The history is a line.                                                    *)

\* A new revision goes under the head, and nothing else does.
LEMMA LinearStep ==
  ASSUME TypeInv, HistoryInv, AloneInv, HistoryIsLinear, NEW r \in Req, Step(r) \/ Lose(r)
  PROVE  HistoryIsLinear'
  <1> DEFINE p == h[r].page
  <1>1. CASE Inserts(r)
    <2>1. /\ p \in Req /\ h[r].row = page[p] /\ page[p] # Nil /\ page[p] \in PageRow
          /\ page[p].head \in Req \cup {Nil} /\ r # Nil
      BY <1>1, HistoryTypes DEF Inserts, AloneInv, RowsAreCurrent
    <2>2. page'[p].head = r /\ \A z \in Req \ {p} : page'[z] = page[z]
      BY <1>1, <2>1 DEF Inserts, TypeInv, WellFormed, PageRow
    <2>3. revision'[r].parent = page[p].head /\ \A s \in Req \ {r} : revision'[s] = revision[s]
      BY <1>1, <2>1 DEF Inserts, TypeInv, WellFormed
    <2>4. revision[r] = Nil
      BY <1>1 DEF Inserts, HistoryInv, NamesAreFresh
    <2>5. \A z \in Req : page[z] # Nil /\ page[z].head # Nil =>
            page[z].head # r /\ revision[page[z].head].page = z
      BY <2>4 DEF HistoryInv, HistoryStaysOnPage
    <2>6. \A s \in Req : revision[s] # Nil => revision[s].parent # r
      BY <2>1, <2>4 DEF HistoryInv, HistoryStaysOnPage
    <2> HIDE DEF p
    <2>7. ASSUME NEW z \in Req, NEW s \in Req, page'[z] # Nil, page'[z].head # Nil,
                 revision'[s] # Nil
          PROVE  revision'[s].parent # page'[z].head
      <3>1. CASE z = p
        BY <2>1, <2>2, <2>3, <2>5, <2>6, <2>7, <3>1
      <3>2. CASE z # p /\ s = r
        BY <2>1, <2>2, <2>3, <2>5, <2>7, <3>2
      <3>3. CASE z # p /\ s # r
        BY <2>2, <2>3, <2>7, <3>3 DEF HistoryIsLinear, HeadIsTip
      <3>4. QED
        BY <3>1, <3>2, <3>3
    <2>8. ASSUME NEW s \in Req, NEW t \in Req, revision'[s] # Nil, revision'[t] # Nil,
                 revision'[s].parent # Nil, revision'[s].parent = revision'[t].parent
          PROVE  s = t
      <3>1. CASE s = r \/ t = r
        BY <2>1, <2>3, <2>8, <3>1 DEF HistoryIsLinear, HeadIsTip
      <3>2. CASE s # r /\ t # r
        BY <2>3, <2>8, <3>2 DEF HistoryIsLinear
      <3>3. QED
        BY <3>1, <3>2
    <2>9. QED
      BY <2>7, <2>8 DEF HistoryIsLinear, HeadIsTip
  <1>2. CASE Relevels(r)
    <2>1. p \in Req /\ h[r].row = page[p] /\ page[p] # Nil /\ page[p] \in PageRow
      BY <1>2, HistoryTypes DEF Relevels, AloneInv, RowsAreCurrent
    <2>2. page'[p].head = page[p].head /\ (\A z \in Req \ {p} : page'[z] = page[z])
          /\ UNCHANGED revision
      BY <1>2, <2>1 DEF Relevels, TypeInv, WellFormed, PageRow
    <2>3. QED
      BY <2>1, <2>2 DEF HistoryIsLinear, HeadIsTip
  <1>3. CASE Deletes(r)
    <2>1. \A z \in Req : page'[z] # Nil => page'[z] = page[z]
      BY <1>3 DEF Deletes, TypeInv, WellFormed
    <2>2. \A s \in Req : revision'[s] # Nil => revision'[s] = revision[s]
      BY <1>3 DEF Deletes
    <2>3. QED
      BY <2>1, <2>2 DEF HistoryIsLinear, HeadIsTip
  <1>4. CASE UNCHANGED <<page, revision>>
    BY <1>4 DEF HistoryIsLinear, HeadIsTip
  <1>5. QED
    BY <1>1, <1>2, <1>3, <1>4, CommitFrame

\* A new page has a history of its own.
LEMMA LinearStart ==
  ASSUME TypeInv, HistoryInv, HistoryIsLinear, NEW r \in Req, Start(r)
  PROVE  HistoryIsLinear'
  <1>1. CASE Reads(r)
    BY <1>1 DEF Reads, tables, HistoryIsLinear, HeadIsTip
  <1>2. CASE Creates(r)
    <2>1. /\ revision[r] = Nil /\ r # Nil
          /\ \A z \in Req \ {r} : page'[z] = page[z]
          /\ \A s \in Req \ {r} : revision'[s] = revision[s]
          /\ page'[r].head \in {Nil, r}
          /\ revision'[r] # Nil => revision'[r].parent = Nil
      BY <1>2, NilAssumption DEF Creates, HistoryInv, NamesAreFresh
    <2>2. \A s \in Req : revision[s] # Nil => revision[s].parent # r
      BY <2>1, HistoryTypes DEF HistoryInv, HistoryStaysOnPage
    <2>3. QED
      BY <2>1, <2>2 DEF HistoryIsLinear, HeadIsTip
  <1>3. QED
    BY <1>1, <1>2, StartMoves

\* When requests come one at a time the history of every page is a line that
\* ends in its head, through every update, revert, approval and deletion.
THEOREM HistoryLinear == ASSUME Serial PROVE Spec => []HistoryIsLinear
  <1>1. Init => HistoryIsLinear
    BY DEF Init, HistoryIsLinear, HeadIsTip
  <1>2. TypeInv /\ HistoryInv /\ AloneInv /\ HistoryIsLinear /\ [Next]_vars => HistoryIsLinear'
    <2> SUFFICES ASSUME TypeInv, HistoryInv, AloneInv, HistoryIsLinear, [Next]_vars
                 PROVE  HistoryIsLinear'
      OBVIOUS
    <2>1. CASE UNCHANGED vars
      BY <2>1 DEF vars, HistoryIsLinear, HeadIsTip
    <2>2. QED
      BY <2>1, LinearStart, LinearStep DEF Next
  <1>3. QED
    BY <1>1, <1>2, TypeInvariant, HistoryInvariant, AloneInvariant, PTL DEF Spec

-----------------------------------------------------------------------------
(* Levels.                                                                   *)

\* The places in the log where the level of page p was set.
Protects(p) ==
  {i \in 1 .. Len(audit) : audit[i].action = "protect" /\ audit[i].page = p}

\* The level of a page whose last protect entry sets level x.
LevelOf(p, x) ==
  \/ Protects(p) = {} /\ x = "None"
  \/ \E i \in Protects(p) : (\A j \in Protects(p) : j <= i) /\ audit[i].level = x

\* An entry that does not protect the page leaves its level in the log alone.
LEMMA LevelStays ==
  ASSUME TypeInv, NEW p \in Req, NEW x, LevelOf(p, x),
         \/ UNCHANGED audit
         \/ \E e : audit' = Append(audit, e) /\ ~(e.action = "protect" /\ e.page = p)
  PROVE  LevelOf(p, x)'
  <1>1. CASE UNCHANGED audit
    BY <1>1 DEF LevelOf, Protects
  <1>2. CASE \E e : audit' = Append(audit, e) /\ ~(e.action = "protect" /\ e.page = p)
    <2>1. PICK e : audit' = Append(audit, e) /\ ~(e.action = "protect" /\ e.page = p)
      BY <1>2
    <2>2. Protects(p)' = Protects(p)
      BY <2>1, EntriesOfAppend DEF Protects
    <2>3. \A i \in Protects(p) : audit'[i] = audit[i]
      BY <2>1, EntriesOfAppend DEF Protects
    <2>4. QED
      BY <2>2, <2>3 DEF LevelOf
  <1>3. QED
    BY <1>1, <1>2

\* An entry that protects the page sets its level in the log.
LEMMA LevelIsSet ==
  ASSUME TypeInv, NEW p \in Req, NEW e, audit' = Append(audit, e),
         e.action = "protect", e.page = p
  PROVE  LevelOf(p, e.level)'
  <1>1. Len(audit') \in Protects(p)' /\ audit'[Len(audit')] = e
    BY EntriesOfAppend DEF Protects
  <1>2. \A j \in Protects(p)' : j <= Len(audit')
    BY EntriesOfAppend DEF Protects
  <1>3. QED
    BY <1>1, <1>2 DEF LevelOf

\* LevelIsLogged in terms of the operator.
LEMMA LevelIsLoggedParts ==
  LevelIsLogged <=> \A p \in Req : page[p] # Nil => LevelOf(p, page[p].level)
  BY DEF LevelIsLogged, LevelOf, Protects

\* A step changes a level only with the entry that says so.
LEMMA LevelStep ==
  ASSUME TypeInv, AloneInv, LevelIsLogged, NEW r \in Req, Step(r) \/ Lose(r)
  PROVE  LevelIsLogged'
  <1> SUFFICES ASSUME NEW p \in Req, page'[p] # Nil
               PROVE  LevelOf(p, page[p].level)'
    BY DEF LevelIsLogged, LevelOf, Protects
  <1>1. page[p] # Nil /\ LevelOf(p, page[p].level)
    BY RevisionFrame, LevelIsLoggedParts
  <1>2. CASE Relevels(r) /\ p = h[r].page
    <2>1. PICK e : audit' = Append(audit, e) /\ e.action = "protect" /\ e.page = p
                   /\ e.level = h[r].level
      BY <1>2 DEF Relevels, Entry
    <2>2. LevelOf(p, e.level)'
      BY <2>1, LevelIsSet
    <2>3. h[r].row \in PageRow /\ h[r].level \in Level
      BY <1>2, HistoryTypes DEF Relevels, TypeInv, WellFormed, Context
    <2>4. page'[p].level = h[r].level
      BY <1>2, <2>3 DEF Relevels, TypeInv, WellFormed, PageRow
    <2>5. QED
      BY <2>1, <2>2, <2>4
  <1>3. CASE ~(Relevels(r) /\ p = h[r].page)
    <2>1. page'[p].level = page[p].level
      <3>1. CASE Inserts(r)
        <4>1. h[r].page \in Req /\ h[r].row = page[h[r].page] /\ page[h[r].page] \in PageRow
          BY <3>1, HistoryTypes DEF Inserts, AloneInv, RowsAreCurrent
        <4>2. QED
          BY <3>1, <4>1 DEF Inserts, TypeInv, WellFormed, PageRow
      <3>2. CASE Relevels(r)
        BY <1>3, <3>2 DEF Relevels, TypeInv, WellFormed
      <3>3. CASE Deletes(r)
        BY <3>3 DEF Deletes, TypeInv, WellFormed
      <3>4. CASE UNCHANGED page
        BY <3>4
      <3>5. QED
        BY <3>1, <3>2, <3>3, <3>4, CommitFrame
    <2>2. \/ UNCHANGED audit
          \/ \E e : audit' = Append(audit, e) /\ ~(e.action = "protect" /\ e.page = p)
      <3>1. CASE Inserts(r)
        BY <3>1 DEF Inserts, Entry
      <3>2. CASE Relevels(r)
        BY <1>3, <3>2 DEF Relevels, Entry
      <3>3. CASE Deletes(r)
        BY <3>3 DEF Deletes, Entry
      <3>4. CASE Notes(r)
        BY <3>4 DEF Notes
      <3>5. QED
        BY <3>1, <3>2, <3>3, <3>4, CommitFrame
    <2>3. PICK x : x = page[p].level
      OBVIOUS
    <2>4. LevelOf(p, x)'
      BY <1>1, <2>2, <2>3, LevelStays
    <2>5. QED
      BY <2>1, <2>3, <2>4
  <1>4. QED
    BY <1>2, <1>3

\* A new page has no level and no protect entries.
LEMMA LevelStart ==
  ASSUME TypeInv, HistoryInv, LogInv, LevelIsLogged, NEW r \in Req, Start(r)
  PROVE  LevelIsLogged'
  <1>1. CASE Reads(r)
    BY <1>1 DEF Reads, tables, LevelIsLogged
  <1>2. CASE Creates(r)
    <2> SUFFICES ASSUME NEW p \in Req, page'[p] # Nil
                 PROVE  LevelOf(p, page[p].level)'
      BY DEF LevelIsLogged, LevelOf, Protects
    <2>1. PICK e : audit' = Append(audit, e) /\ e.action = "create"
      BY <1>2 DEF Creates
    <2>2. page'[r].level = "None" /\ \A z \in Req \ {r} : page'[z] = page[z]
      BY <1>2 DEF Creates
    <2>3. CASE p = r
      <3>1. Protects(r) = {}
        BY <1>2 DEF Creates, Protects, LogInv, EntriesAreFresh, Entries
      <3>2. LevelOf(r, "None")
        BY <3>1 DEF LevelOf
      <3>3. LevelOf(r, "None")'
        BY <2>1, <3>2, LevelStays
      <3>4. QED
        BY <2>2, <2>3, <3>3
    <2>4. CASE p # r
      <3>1. page'[p] = page[p] /\ LevelOf(p, page[p].level)
        BY <2>2, <2>4, LevelIsLoggedParts
      <3>2. PICK x : x = page[p].level
        OBVIOUS
      <3>3. LevelOf(p, x)'
        BY <2>1, <3>1, <3>2, LevelStays
      <3>4. QED
        BY <3>1, <3>2, <3>3
    <2>5. QED
      BY <2>3, <2>4
  <1>3. QED
    BY <1>1, <1>2, StartMoves

\* Entry i, a write of the REST API, is one that level entry j, the last of
\* its page before it, lets through.
Heeds(i, j) ==
  /\ j < i
  /\ audit[j].action = "protect" /\ audit[j].page = audit[i].page
  /\ \A k \in j + 1 .. i - 1 :
       ~(audit[k].action = "protect" /\ audit[k].page = audit[i].page)
  /\ audit[i].action \in {"update", "revert"} /\ audit[i].rev # Nil
  /\ ~h[audit[i].rev].gql
  => check_protection(audit[j].level, audit[i].actor)

\* Entries of the past go on heeding the levels of the past.
LEMMA PastHeeds ==
  ASSUME TypeInv, WritesRespectLevel,
         \A s \in Req : (\E e \in Entries : e.rev = s) => h'[s].gql = h[s].gql,
         \/ UNCHANGED audit
         \/ \E e : audit' = Append(audit, e)
  PROVE  \A i, j \in 1 .. Len(audit) : Heeds(i, j)'
  <1> SUFFICES ASSUME NEW i \in 1 .. Len(audit), NEW j \in 1 .. Len(audit)
               PROVE  Heeds(i, j)'
    OBVIOUS
  <1>1. Heeds(i, j)
    BY DEF WritesRespectLevel, Heeds
  <1>2. /\ \A k \in 1 .. Len(audit) : audit'[k] = audit[k]
        /\ Len(audit) \in Nat
    BY EntriesOfAppend DEF TypeInv, WellFormed
  <1>3. audit[i] \in Entries /\ (audit[i].rev # Nil => audit[i].rev \in Req)
    BY EntryTypes DEF Entries
  <1>4. audit'[i] = audit[i] /\ audit'[j] = audit[j]
    BY <1>2
  <1>5. \A k \in j + 1 .. i - 1 : audit'[k] = audit[k]
    BY <1>2
  <1>6. audit[i].rev # Nil => h'[audit[i].rev].gql = h[audit[i].rev].gql
    BY <1>3
  <1>7. QED
    BY <1>1, <1>4, <1>5, <1>6 DEF Heeds, check_protection

\* A write is logged under the level it has been checked against.
LEMMA RespectStep ==
  ASSUME TypeInv, HistoryInv, LogInv, AloneInv, LevelsHold, NEW r \in Req, Step(r) \/ Lose(r)
  PROVE  WritesRespectLevel'
  <1>1. /\ InFlight(r) /\ Kept(r) /\ \A s \in Req \ {r} : h'[s] = h[s]
    BY StepMoves
  <1>2. UNCHANGED audit \/ \E e : audit' = Append(audit, e)
    BY CommitFrame DEF Inserts, Relevels, Deletes, Notes
  <1>3. \A i, j \in 1 .. Len(audit) : Heeds(i, j)'
    BY <1>1, <1>2, PastHeeds DEF Kept, LevelsHold
  <1>4. ASSUME NEW e, audit' = Append(audit, e), NEW j \in 1 .. Len(audit)
        PROVE  Heeds(Len(audit), j)'
    <2> DEFINE n == Len(audit)
               p == h[r].page
    <2>1. /\ n \in Nat /\ Len(audit') = n + 1 /\ audit'[n + 1] = e
          /\ \A k \in 1 .. n : audit'[k] = audit[k]
      BY <1>4, EntriesOfAppend
    <2>2. CASE Inserts(r) /\ h[r].op \in {"update", "revert"} /\ ~h[r].gql
      <3>1. /\ p \in Req /\ page[p] # Nil /\ h[r].row = page[p]
            /\ e.page = p /\ e.actor = h[r].user
        BY <1>4, <2>1, <2>2, HistoryTypes DEF Inserts, AloneInv, RowsAreCurrent, Entry
      <3>2. check_protection(page[p].level, h[r].user)
        BY <2>2, <3>1 DEF Inserts, AloneInv, LevelsAdmit
      <3>3. LevelOf(p, page[p].level)
        BY <3>1, LevelIsLoggedParts DEF LevelsHold
      <3> SUFFICES ASSUME audit[j].action = "protect", audit[j].page = p,
                          \A k \in j + 1 .. n :
                            ~(audit[k].action = "protect" /\ audit[k].page = p)
                   PROVE  check_protection(audit[j].level, h[r].user)
        BY <2>1, <3>1 DEF Heeds, check_protection
      <3>4. j \in Protects(p) /\ \A i \in Protects(p) : i <= j
        BY <2>1 DEF Protects
      <3>5. Protects(p) \subseteq Nat
        BY <2>1 DEF Protects
      <3>6. audit[j].level = page[p].level
        BY <3>3, <3>4, <3>5 DEF LevelOf
      <3>7. QED
        BY <3>2, <3>6
    <2>3. CASE ~(Inserts(r) /\ h[r].op \in {"update", "revert"} /\ ~h[r].gql)
      <3>1. ~(e.action \in {"update", "revert"} /\ e.rev # Nil /\ ~h'[e.rev].gql)
        <4>1. CASE Inserts(r)
          <5>1. e.action = h[r].op /\ e.rev = r
            BY <1>4, <2>1, <4>1 DEF Inserts, Entry
          <5>2. QED
            BY <1>1, <2>3, <4>1, <5>1 DEF Kept
        <4>2. CASE Relevels(r)
          BY <1>4, <2>1, <4>2 DEF Relevels, Entry
        <4>3. CASE Deletes(r)
          BY <1>4, <2>1, <4>3 DEF Deletes, Entry
        <4>4. CASE Notes(r)
          <5>1. e.rev = Nil
            BY <1>4, <2>1, <4>4, EntriesOfAppend DEF Notes
          <5>2. QED
            BY <5>1
        <4>5. QED
          BY <4>1, <4>2, <4>3, <4>4, CommitFrame
      <3>2. QED
        BY <2>1, <3>1 DEF Heeds
    <2>4. QED
      BY <2>2, <2>3
  <1>5. \A i, j \in 1 .. Len(audit') : Heeds(i, j)'
    <2>1. CASE UNCHANGED audit
      BY <1>3, <2>1
    <2>2. CASE \E e : audit' = Append(audit, e)
      <3>1. PICK e : audit' = Append(audit, e)
        BY <2>2
      <3>2. Len(audit) \in Nat /\ Len(audit') = Len(audit) + 1
        BY <3>1, EntriesOfAppend
      <3> SUFFICES ASSUME NEW i \in 1 .. Len(audit'), NEW j \in 1 .. Len(audit')
                   PROVE  Heeds(i, j)'
        OBVIOUS
      <3>3. CASE ~(j < i)
        BY <3>3 DEF Heeds
      <3>4. CASE j < i /\ i # Len(audit')
        BY <1>3, <3>2, <3>4
      <3>5. CASE j < i /\ i = Len(audit')
        <4>1. j \in 1 .. Len(audit)
          BY <3>2, <3>5
        <4>2. Heeds(Len(audit), j)'
          BY <1>4, <3>1, <4>1
        <4>3. QED
          BY <3>5, <4>2 DEF Heeds
      <3>6. QED
        BY <3>3, <3>4, <3>5
    <2>3. QED
      BY <1>2, <2>1, <2>2
  <1>6. QED
    BY <1>5 DEF WritesRespectLevel, Heeds

\* A request that is admitted adds no write to the log but its own creation.
LEMMA RespectStart ==
  ASSUME TypeInv, LogInv, WritesRespectLevel, NEW r \in Req, Start(r)
  PROVE  WritesRespectLevel'
  <1>1. h[r].pc = "idle" /\ \A s \in Req \ {r} : h'[s] = h[s]
    BY StartMoves DEF Reads, Creates
  <1>2. UNCHANGED audit \/ \E e : audit' = Append(audit, e) /\ e.action = "create"
    BY StartMoves DEF Reads, Creates, tables
  <1>3. \A s \in Req : (\E e \in Entries : e.rev = s) => h'[s].gql = h[s].gql
    BY <1>1, NilAssumption DEF LogInv, EntriesAreFresh
  <1>4. \A i, j \in 1 .. Len(audit) : Heeds(i, j)'
    BY <1>2, <1>3, PastHeeds
  <1>5. CASE UNCHANGED audit
    BY <1>4, <1>5 DEF WritesRespectLevel, Heeds
  <1>6. CASE \E e : audit' = Append(audit, e) /\ e.action = "create"
    <2>1. PICK e : audit' = Append(audit, e) /\ e.action = "create"
      BY <1>6
    <2>2. /\ Len(audit) \in Nat /\ Len(audit') = Len(audit) + 1
          /\ audit'[Len(audit) + 1] = e
      BY <2>1, EntriesOfAppend
    <2>3. ASSUME NEW i \in 1 .. Len(audit'), NEW j \in 1 .. Len(audit')
          PROVE  Heeds(i, j)'
      <3>1. CASE i = Len(audit')
        BY <2>1, <2>2, <3>1 DEF Heeds
      <3>2. CASE i # Len(audit') /\ j < i
        BY <1>4, <2>2, <3>2
      <3>3. CASE ~(j < i)
        BY <3>3 DEF Heeds
      <3>4. QED
        BY <3>1, <3>2, <3>3
    <2>4. QED
      BY <2>3 DEF WritesRespectLevel, Heeds
  <1>7. QED
    BY <1>2, <1>5, <1>6

\* When requests come one at a time the level of every page is the one its
\* last protect entry set, and no update or revert got past the level in
\* force when it was logged.
THEOREM LevelsAlwaysHold == ASSUME Serial PROVE Spec => []LevelsHold
  <1>1. Init => LevelsHold
    BY DEF Init, LevelsHold, LevelIsLogged, WritesRespectLevel
  <1>2. TypeInv /\ HistoryInv /\ LogInv /\ AloneInv /\ LevelsHold /\ [Next]_vars => LevelsHold'
    <2> SUFFICES ASSUME TypeInv, HistoryInv, LogInv, AloneInv, LevelsHold, [Next]_vars
                 PROVE  LevelsHold'
      OBVIOUS
    <2>1. CASE UNCHANGED vars
      BY <2>1 DEF vars, LevelsHold, LevelIsLogged, WritesRespectLevel, check_protection
    <2>2. ASSUME NEW r \in Req, Start(r) \/ Step(r) \/ Lose(r) PROVE LevelsHold'
      BY <2>2, LevelStart, LevelStep, RespectStart, RespectStep DEF LevelsHold
    <2>3. QED
      BY <2>1, <2>2 DEF Next
  <1>3. QED
    BY <1>1, <1>2, TypeInvariant, HistoryInvariant, LogInvariant, AloneInvariant, PTL DEF Spec

-----------------------------------------------------------------------------
(* Derived data, while every handler runs to its end.  An approval leaves    *)
(* the search document behind, so this is about wikis without approvals.     *)
(* DerivedFollowsHead speaks of moments of rest; in between, the page of the *)
(* handler that is refreshing is behind, by what that handler has left to do.*)

Refreshes(r) == h[r].pc \in {"links", "categories", "tags", "index"}

\* What handler r has left to do is all that is left to do for its page.
OnTheWay(r) ==
  LET p == h[r].page
  IN /\ h[r].op \in {"create", "update", "revert", "delete"}
     /\ h[r].op = "delete" => h[r].pc = "index" /\ page[p] = Nil
     /\ h[r].op # "delete" =>
          /\ page[p] # Nil /\ page[p].head = r
          /\ revision[r].body = h[r].body
     /\ h[r].pc # "index" => h[r].op # "delete" /\ Refreshing(r)
     /\ h[r].pc = "links" /\ h[r].op = "create" => tags[p] = Nil /\ h[r].tags = Nil
     /\ h[r].pc \in {"categories", "tags"} => links[p] = h[r].body
     /\ h[r].pc = "index" /\ h[r].op # "delete" /\ Refreshing(r) =>
          links[p] = h[r].body /\ h[r].tags = tags[p]

\* What is derived from page p is what its head says.
CaughtUp(p) ==
  /\ page[p] = Nil => doc[p] = Nil
  /\ page[p] # Nil /\ page[p].head # Nil =>
       /\ DocFollows(p)
       /\ Refreshing(page[p].head) => LinksFollow(p) /\ doc[p].tags = tags[p]

DerivedInv ==
  /\ \A r \in Req : h[r].op # "approve"
  /\ \A r \in Req : Refreshes(r) => OnTheWay(r)
  /\ \A p \in Req : (\A r \in Req : Refreshes(r) => h[r].page # p) => CaughtUp(p)

\* A page is still caught up after a step that changes nothing it says.
LEMMA StaysCaughtUp ==
  ASSUME NEW p \in Req, CaughtUp(p),
         page'[p] = Nil <=> page[p] = Nil,
         page[p] # Nil => page'[p].head = page[p].head,
         page[p] # Nil /\ page[p].head # Nil =>
           /\ revision'[page[p].head].body = revision[page[p].head].body
           /\ h'[page[p].head].op = h[page[p].head].op
           /\ h'[page[p].head].gql = h[page[p].head].gql,
         doc'[p] = doc[p], links'[p] = links[p], tags'[p] = tags[p]
  PROVE  CaughtUp(p)'
  BY DEF CaughtUp, DocFollows, LinksFollow, Refreshing

\* The heads of pages are revisions of requests that have started.
LEMMA HeadTypes ==
  ASSUME TypeInv, HistoryInv, NEW p \in Req, page[p] # Nil, page[p].head # Nil
  PROVE  /\ page[p].head \in Req
         /\ revision[page[p].head] # Nil /\ revision[page[p].head].page = p
         /\ h[page[p].head].pc \notin {"idle", "commit", "decide"}
  BY HistoryTypes DEF HistoryInv, HistoryStaysOnPage, NamesAreFresh

\* A step of a handler that is not refreshing yet: what it does to pages,
\* revisions and derived data.
LEMMA EarlyFrame ==
  ASSUME TypeInv, NEW r \in Req, Step(r), ~Refreshes(r)
  PROVE  \/ UNCHANGED derived /\ Inserts(r)
         \/ UNCHANGED derived /\ ~Refreshes(r)' /\ (Relevels(r) \/ UNCHANGED <<page, revision>>)
         \/ Deletes(r) /\ \A p \in Req \ {h[r].page} :
              doc'[p] = doc[p] /\ links'[p] = links[p] /\ tags'[p] = tags[p]
  <1>1. CASE Fail(r)
    BY <1>1, GotoMoves DEF Fail, tables, Refreshes
  <1>2. CASE CommitLive(r) /\ ~Fail(r)
    <2>1. UNCHANGED derived
      BY <1>2 DEF CommitLive, CommitRevision
    <2>2. Inserts(r)
      BY <1>2, GotoMoves DEF CommitLive, CommitRevision, Inserts, Log
    <2>3. QED
      BY <2>1, <2>2
  <1>3. CASE CommitProtect(r) /\ ~Fail(r)
    <2>1. Relevels(r) /\ UNCHANGED derived
      BY <1>3, GotoMoves DEF CommitProtect, Relevels, Log
    <2>2. QED
      BY <2>1 DEF Relevels, Refreshes
  <1>4. CASE CommitDelete(r) /\ ~Fail(r)
    <2>1. Deletes(r)
      BY <1>4, GotoMoves DEF CommitDelete, Deletes, Log
    <2>2. QED
      BY <1>4, <2>1 DEF CommitDelete, TypeInv, WellFormed
  <1>5. CASE (CommitQueued(r) \/ PersistPending(r) \/ LogRejection(r)) /\ ~Fail(r)
    BY <1>5, GotoMoves DEF CommitQueued, PersistPending, LogRejection, Refreshes
  <1>6. CASE Decide(r) /\ ~Fail(r)
    BY <1>6, GotoMoves DEF Decide, Refreshes
  <1>7. QED
    BY <1>1, <1>2, <1>3, <1>4, <1>5, <1>6
       DEF Step, Refreshes, RefreshLinks, ReplaceCategories, SettleTags, Index

\* Before it refreshes, a handler leaves every page but its own caught up.
LEMMA EarlyStep ==
  ASSUME TypeInv, HistoryInv, AloneInv, DerivedInv, NEW r \in Req, Step(r), ~Refreshes(r)
  PROVE  DerivedInv'
  <1> DEFINE x == h[r].page
  <1>1. /\ InFlight(r) /\ Kept(r) /\ \A s \in Req \ {r} : h'[s] = h[s]
    BY StepMoves
  <1>2. \A s \in Req : ~Refreshes(s)
    BY <1>1 DEF AloneInv, OneAtATime, InFlight, Refreshes
  <1>3. \A p \in Req : CaughtUp(p)
    BY <1>2 DEF DerivedInv
  <1>4. \A s \in Req : h'[s].op # "approve" /\ h'[s].op = h[s].op /\ h'[s].gql = h[s].gql
    BY <1>1 DEF Kept, DerivedInv
  <1>5. \A s \in Req \ {r} : ~Refreshes(s)'
    BY <1>1, <1>2 DEF Refreshes
  <1>6. CASE UNCHANGED derived /\ Inserts(r)
    <2>1. /\ x \in Req /\ h[r].row \in PageRow /\ r # Nil
          /\ page[x] # Nil /\ revision[r] = Nil
      BY <1>6, HistoryTypes DEF Inserts, HistoryInv, NamesAreFresh
    <2>2. /\ page'[x].head = r /\ page'[x] # Nil
          /\ \A p \in Req \ {x} : page'[p] = page[p]
          /\ revision'[r].body = h[r].body
          /\ \A s \in Req \ {r} : revision'[s] = revision[s]
      <3>1. page'[x] \in PageRow
        BY <1>6, <2>1 DEF Inserts, TypeInv, WellFormed, PageRow
      <3>2. QED
        BY <1>6, <2>1, <3>1, NilAssumption DEF Inserts, TypeInv, WellFormed, PageRow
    <2>3. OnTheWay(r)'
      BY <1>1, <1>4, <1>6, <2>2 DEF OnTheWay, Inserts, Kept, Refreshing
    <2>4. ASSUME NEW p \in Req, p # x PROVE CaughtUp(p)'
      <3>1. page[p] # Nil /\ page[p].head # Nil => page[p].head \in Req \ {r}
        BY <2>1, HeadTypes
      <3>2. QED
        BY <1>3, <1>4, <1>6, <2>2, <2>4, <3>1, StaysCaughtUp DEF derived
    <2>5. Refreshes(r)' /\ h'[r].page = x
      BY <1>1, <1>6 DEF Inserts, Refreshes, Kept
    <2>6. QED
      BY <1>4, <1>5, <2>3, <2>4, <2>5 DEF DerivedInv
  <1>7. CASE UNCHANGED derived /\ ~Refreshes(r)' /\ (Relevels(r) \/ UNCHANGED <<page, revision>>)
    <2>1. \A p \in Req : /\ page'[p] = Nil <=> page[p] = Nil
                         /\ page[p] # Nil => page'[p].head = page[p].head
      <3>1. CASE Relevels(r)
        <4>1. /\ x \in Req /\ page[x] # Nil /\ h[r].row = page[x] /\ page[x] \in PageRow
              /\ h[r].level \in Level
          BY <3>1, HistoryTypes DEF Relevels, AloneInv, RowsAreCurrent, TypeInv, WellFormed, Context
        <4>2. page'[x].head = page[x].head /\ page'[x] \in PageRow
              /\ \A p \in Req \ {x} : page'[p] = page[p]
          BY <3>1, <4>1 DEF Relevels, TypeInv, WellFormed, PageRow
        <4>3. page'[x] # Nil
          BY <4>2, NilAssumption
        <4>4. QED
          BY <4>1, <4>2, <4>3
      <3>2. QED
        BY <1>7, <3>1
    <2>2. UNCHANGED revision
      BY <1>7 DEF Relevels
    <2>3. ASSUME NEW p \in Req PROVE CaughtUp(p)'
      <3>1. page[p] # Nil /\ page[p].head # Nil => page[p].head \in Req
        BY HeadTypes
      <3>2. QED
        BY <1>3, <1>4, <1>7, <2>1, <2>2, <3>1, StaysCaughtUp DEF derived
    <2>4. QED
      BY <1>4, <1>5, <1>7, <2>3 DEF DerivedInv
  <1>8. CASE Deletes(r) /\ \A p \in Req \ {x} :
               doc'[p] = doc[p] /\ links'[p] = links[p] /\ tags'[p] = tags[p]
    <2>1. /\ x \in Req /\ h[r].op = "delete" /\ h'[r].pc = "index" /\ h'[r].page = x
          /\ page'[x] = Nil /\ \A p \in Req \ {x} : page'[p] = page[p]
      BY <1>1, <1>8, HistoryTypes DEF Deletes, Kept, TypeInv, WellFormed
    <2>2. OnTheWay(r)'
      BY <1>4, <2>1 DEF OnTheWay
    <2>3. ASSUME NEW p \in Req, p # x PROVE CaughtUp(p)'
      <3>1. page[p] # Nil /\ page[p].head # Nil =>
              page[p].head \in Req /\ revision'[page[p].head] = revision[page[p].head]
        BY <1>8, <2>3, HeadTypes DEF Deletes
      <3>2. QED
        BY <1>3, <1>4, <1>8, <2>1, <2>3, <3>1, StaysCaughtUp
    <2>4. Refreshes(r)'
      BY <2>1 DEF Refreshes
    <2>5. QED
      BY <1>4, <1>5, <2>1, <2>2, <2>3, <2>4 DEF DerivedInv
  <1>9. QED
    BY <1>6, <1>7, <1>8, EarlyFrame

\* A refresh that goes on after this step is on the way to the index.
LEMMA RefreshMoves ==
  ASSUME TypeInv, DerivedInv, NEW r \in Req, Step(r), Refreshes(r)
  PROVE  /\ UNCHANGED <<page, revision>>
         /\ \A p \in Req \ {h[r].page} :
              doc'[p] = doc[p] /\ links'[p] = links[p] /\ tags'[p] = tags[p]
         /\ \/ Refreshes(r)' /\ OnTheWay(r)'
            \/ ~Refreshes(r)' /\ CaughtUp(h[r].page)'
  <1> DEFINE x == h[r].page
  <1>1. OnTheWay(r) /\ x \in Req /\ h[r] \in Context
    BY DEF DerivedInv, TypeInv, WellFormed, Shape, Refreshes
  <1>2. Kept(r)
    BY StepMoves
  <1>3. Refreshing(r)' <=> Refreshing(r)
    BY <1>2 DEF Kept, Refreshing
  <1>4. h[r].pc # "index" => page[x] # Nil /\ h[r].op \in {"create", "update"}
    BY <1>1 DEF OnTheWay, Refreshing
  <1>5. ASSUME NEW pc, Goto(r, pc) PROVE h'[r].pc = pc /\ h'[r].tags = h[r].tags
    BY <1>1, <1>5 DEF Goto, TypeInv, WellFormed, Context
  <1>6. CASE RefreshLinks(r)
    <2>1. /\ h[r].pc = "links" /\ UNCHANGED <<page, revision, doc, tags>>
          /\ \E pc \in {"categories", "tags", "index"} :
               Goto(r, pc) /\ (pc = "index" => h[r].op = "create")
          /\ links' = [links EXCEPT ![x] = h[r].body]
      BY <1>4, <1>6 DEF RefreshLinks, Fail, tables
    <2>2. links'[x] = h[r].body /\ \A p \in Req \ {x} : links'[p] = links[p]
      BY <1>1, <2>1 DEF TypeInv, WellFormed
    <2>3. Refreshes(r)' /\ h'[r].tags = h[r].tags /\ h'[r].pc # "links"
          /\ (h'[r].pc = "index" => h[r].op = "create")
      BY <1>5, <2>1 DEF Refreshes
    <2>4. OnTheWay(r)'
      BY <1>1, <1>2, <1>3, <1>4, <2>1, <2>2, <2>3 DEF OnTheWay, Kept, Refreshes
    <2>5. QED
      BY <2>1, <2>2, <2>3, <2>4
  <1>7. CASE ReplaceCategories(r)
    <2>1. /\ h[r].pc = "categories" /\ UNCHANGED <<page, revision, doc, links, tags>>
          /\ Goto(r, "tags")
      BY <1>4, <1>7 DEF ReplaceCategories, Fail, tables
    <2>2. Refreshes(r)' /\ h'[r].pc = "tags"
      BY <1>5, <2>1 DEF Refreshes
    <2>3. OnTheWay(r)'
      BY <1>1, <1>2, <1>3, <1>4, <2>1, <2>2 DEF OnTheWay, Kept
    <2>4. QED
      BY <2>1, <2>2, <2>3
  <1>8. CASE SettleTags(r)
    <2>1. PICK t : /\ h[r].pc = "tags" /\ UNCHANGED <<page, revision, doc, links>>
                   /\ h' = [h EXCEPT ![r].pc = "index", ![r].tags = t]
                   /\ \/ tags' = [tags EXCEPT ![x] = r] /\ t = r
                      \/ UNCHANGED tags /\ t = tags[x]
      BY <1>4, <1>8 DEF SettleTags, Fail, tables, derived
    <2>2. h'[r].pc = "index" /\ h'[r].tags = t
      BY <1>1, <2>1 DEF TypeInv, WellFormed, Context
    <2>3. tags'[x] = t /\ \A p \in Req \ {x} : tags'[p] = tags[p]
      BY <1>1, <2>1 DEF TypeInv, WellFormed
    <2>4. Refreshes(r)'
      BY <2>2 DEF Refreshes
    <2>5. OnTheWay(r)'
      BY <1>1, <1>2, <1>3, <1>4, <2>1, <2>2, <2>3 DEF OnTheWay, Kept
    <2>6. QED
      BY <2>1, <2>3, <2>4, <2>5
  <1>9. CASE Index(r)
    <2> DEFINE d == IF h[r].op = "delete" THEN Nil
                    ELSE [body |-> h[r].body, tags |-> h[r].tags]
    <2>1. /\ h[r].pc = "index" /\ UNCHANGED <<page, revision, links, tags>>
          /\ Goto(r, "done") /\ doc' = [doc EXCEPT ![x] = d]
      BY <1>9 DEF Index, tables
    <2>2. doc'[x] = d /\ \A p \in Req \ {x} : doc'[p] = doc[p]
      BY <1>1, <2>1 DEF TypeInv, WellFormed
    <2>3. h'[r].pc = "done"
      BY <1>5, <2>1
    <2>4. CASE h[r].op = "delete"
      BY <1>1, <1>2, <2>1, <2>2, <2>3, <2>4 DEF OnTheWay, CaughtUp, Refreshes, Kept
    <2>5. CASE h[r].op # "delete"
      <3>1. h[r].body \in Req
        BY <1>1, <2>1, <2>5 DEF OnTheWay, TypeInv, Shape, Publishing
      <3>2. d \in SearchDoc /\ d.body = h[r].body /\ d.tags = h[r].tags
        BY <1>1, <2>5, <3>1 DEF SearchDoc, Context
      <3>3. d # Nil
        BY <3>2, NilAssumption
      <3>4. /\ page[x] # Nil /\ page[x].head = r /\ revision[r].body = h[r].body
            /\ Refreshing(r) => links[x] = h[r].body /\ h[r].tags = tags[x]
        BY <1>1, <2>1, <2>5 DEF OnTheWay
      <3>5. CaughtUp(x)'
        BY <1>2, <1>3, <2>1, <2>2, <3>2, <3>3, <3>4
           DEF CaughtUp, DocFollows, LinksFollow, Kept
      <3>6. QED
        BY <2>1, <2>2, <2>3, <3>5 DEF Refreshes
    <2>6. QED
      BY <2>4, <2>5
  <1>10. QED
    BY <1>6, <1>7, <1>8, <1>9
       DEF Step, Refreshes, CommitLive, CommitQueued, CommitProtect, CommitDelete,
           PersistPending, Decide, LogRejection

\* A handler that refreshes does what is left, or has nothing left to do.
LEMMA LateStep ==
  ASSUME TypeInv, HistoryInv, AloneInv, DerivedInv, NEW r \in Req, Step(r), Refreshes(r)
  PROVE  DerivedInv'
  <1> DEFINE x == h[r].page
  <1>1. /\ InFlight(r) /\ Kept(r) /\ \A s \in Req \ {r} : h'[s] = h[s]
    BY StepMoves
  <1>2. \A s \in Req \ {r} : ~Refreshes(s) /\ ~Refreshes(s)'
    BY <1>1 DEF AloneInv, OneAtATime, InFlight, Refreshes
  <1>3. \A s \in Req : h'[s].op # "approve" /\ h'[s].op = h[s].op /\ h'[s].gql = h[s].gql
    BY <1>1 DEF Kept, DerivedInv
  <1>4. /\ UNCHANGED <<page, revision>>
        /\ \A p \in Req \ {x} :
             doc'[p] = doc[p] /\ links'[p] = links[p] /\ tags'[p] = tags[p]
        /\ \/ Refreshes(r)' /\ OnTheWay(r)'
           \/ ~Refreshes(r)' /\ CaughtUp(h[r].page)'
    BY RefreshMoves
  <1>5. ASSUME NEW p \in Req, p # x PROVE CaughtUp(p)'
    <2>1. CaughtUp(p)
      BY <1>2, <1>5 DEF DerivedInv
    <2>2. page[p] # Nil /\ page[p].head # Nil => page[p].head \in Req
      BY HeadTypes
    <2>3. QED
      BY <1>3, <1>4, <1>5, <2>1, <2>2, StaysCaughtUp
  <1>6. CASE Refreshes(r)' /\ OnTheWay(r)'
    <2>1. h'[r].page = x
      BY <1>1 DEF Kept
    <2>2. QED
      BY <1>2, <1>3, <1>5, <1>6, <2>1 DEF DerivedInv
  <1>7. CASE ~Refreshes(r)' /\ CaughtUp(h[r].page)'
    <2>1. ASSUME NEW p \in Req PROVE CaughtUp(p)'
      BY <1>1, <1>5, <1>7 DEF Kept
    <2>2. QED
      BY <1>2, <1>3, <1>7, <2>1 DEF DerivedInv
  <1>8. QED
    BY <1>4, <1>6, <1>7

\* A request is admitted when every page is caught up; a new page that is
\* live is what its handler is going to refresh.
LEMMA DerivedStart ==
  ASSUME Serial, "approve" \notin Ops, TypeInv, NothingOutlivesPage, HistoryInv,
         DerivedInv, NEW r \in Req, Start(r)
  PROVE  DerivedInv'
  <1>1. /\ h[r].pc = "idle" /\ (\A s \in Req : ~InFlight(s))
        /\ h'[r].op # "approve" /\ \A s \in Req \ {r} : h'[s] = h[s]
    BY StartMoves DEF Reads, Creates
  <1>2. \A p \in Req : CaughtUp(p)
    BY <1>1 DEF DerivedInv, InFlight, Refreshes
  <1>3. /\ \A s \in Req \ {r} : ~Refreshes(s)'
        /\ \A s \in Req : h'[s].op # "approve"
    BY <1>1 DEF InFlight, Refreshes, DerivedInv
  <1>4. \A p \in Req : page[p] # Nil /\ page[p].head # Nil => page[p].head \in Req \ {r}
    BY <1>1, HeadTypes
  <1>5. CASE Reads(r)
    <2>1. UNCHANGED <<page, revision, doc, links, tags>> /\ h'[r].pc \in {"commit", "decide"}
      BY <1>5 DEF Reads, tables, derived
    <2>2. ASSUME NEW p \in Req PROVE CaughtUp(p)'
      BY <1>1, <1>2, <1>4, <2>1, StaysCaughtUp
    <2>3. QED
      BY <1>3, <2>1, <2>2 DEF DerivedInv, Refreshes
  <1>6. CASE Creates(r)
    <2>1. /\ h'[r].op = "create" /\ h'[r].page = r /\ h'[r].body = r /\ h'[r].tags = Nil
          /\ h'[r].pc \in {"queue", "links", "index"}
          /\ h'[r].pc = "links" <=> h'[r].pc # "queue" /\ ~h'[r].gql
          /\ \A p \in Req \ {r} : page'[p] = page[p]
          /\ \A t \in Req \ {r} : revision'[t] = revision[t]
          /\ page'[r] # Nil
          /\ h'[r].pc # "queue" => page'[r].head = r /\ revision'[r].body = r
          /\ h'[r].pc = "queue" => page'[r].head = Nil
          /\ UNCHANGED <<doc, links, tags>>
      BY <1>6 DEF Creates, derived
    <2>2. tags[r] = Nil
      BY <1>1 DEF NothingOutlivesPage, HistoryInv, NamesAreFresh
    <2>3. h'[r].pc # "queue" => OnTheWay(r)'
      BY <2>1, <2>2 DEF OnTheWay, Refreshing
    <2>4. h'[r].pc = "queue" => CaughtUp(r)' /\ ~Refreshes(r)'
      BY <2>1 DEF CaughtUp, Refreshes
    <2>5. ASSUME NEW p \in Req, p # r PROVE CaughtUp(p)'
      BY <1>1, <1>2, <1>4, <2>1, <2>5, StaysCaughtUp
    <2>6. h'[r].pc # "queue" => Refreshes(r)'
      BY <2>1 DEF Refreshes
    <2>7. QED
      BY <1>3, <2>1, <2>3, <2>4, <2>5, <2>6 DEF DerivedInv
  <1>7. QED
    BY <1>5, <1>6, StartMoves

\* The invariant of the derived data holds in every reachable state.
THEOREM DerivedInvariant ==
  ASSUME Serial, ~Faults, "approve" \notin Ops
  PROVE  Spec => []DerivedInv
  <1>1. Init => DerivedInv
    <2> SUFFICES ASSUME Init PROVE DerivedInv
      OBVIOUS
    <2>1. /\ \A r \in Req : h[r].pc = "idle" /\ h[r].op = "create"
          /\ \A p \in Req : page[p] = Nil /\ doc[p] = Nil
      BY IdleIsContext DEF Init
    <2>2. QED
      BY <2>1 DEF DerivedInv, Refreshes, CaughtUp
  <1>2. TypeInv /\ NothingOutlivesPage /\ HistoryInv /\ AloneInv /\ DerivedInv /\ [Next]_vars
        => DerivedInv'
    <2> SUFFICES ASSUME TypeInv, NothingOutlivesPage, HistoryInv, AloneInv, DerivedInv,
                        [Next]_vars
                 PROVE  DerivedInv'
      OBVIOUS
    <2>1. CASE UNCHANGED vars
      BY <2>1 DEF vars, DerivedInv, Refreshes, OnTheWay, CaughtUp, DocFollows,
         LinksFollow, Refreshing
    <2>2. QED
      BY <2>1, DerivedStart, EarlyStep, LateStep DEF Next, Lose
  <1>3. QED
    BY <1>1, <1>2, TypeInvariant, NothingOutlives, HistoryInvariant, AloneInvariant, PTL
       DEF Spec

\* When requests come one at a time, none is lost and none is an approval,
\* everything derived from a page is at rest what the page's head says, and
\* a deleted page has no search document.
THEOREM DerivedFollows ==
  ASSUME Serial, ~Faults, "approve" \notin Ops
  PROVE  Spec => []DerivedFollowsHead
  <1>1. DerivedInv => DerivedFollowsHead
    BY DEF DerivedInv, DerivedFollowsHead, Quiet, InFlight, Refreshes, CaughtUp
  <1>2. QED
    BY <1>1, DerivedInvariant, PTL

=============================================================================
