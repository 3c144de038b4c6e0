-------------------------- MODULE WikiPages_proofs --------------------------
(* Theorems about WikiPages, for any set of requests, accounts and slugs:   *)
(* its types, what goes with a page, and the moderation queue, where what is *)
(* decided stays decided, is published at most once, and is what the log     *)
(* says.                                                                     *)
EXTENDS WikiPages, TLAPS

-----------------------------------------------------------------------------
(* Type correctness.  What a handler holds depends on where it is: the page *)
(* row before the commit, the text until it is indexed, the pending row     *)
(* while it decides.                                                        *)

Publishing == {"create", "update", "revert", "approve"}

Shape(c) ==
  /\ c.pc # "idle" => c.page \in Req
  /\ c.pc = "commit" => c.op \in {"update", "delete", "revert", "protect", "approve"}
  /\ c.pc = "decide" => c.op \in {"approve", "reject"}
  /\ c.pc \in {"commit", "decide", "log"} /\ c.op \in {"approve", "reject"} =>
       c.pend \in Req
  /\ c.pc = "log" => c.op = "reject"
  /\ c.pc = "queue" => c.op \in {"create", "update"}
  /\ c.pc \in {"links", "categories", "tags", "index"} =>
       c.op \in Publishing \cup {"delete"}
  /\ c.pc \in {"commit", "decide", "queue"} /\ c.op # "reject" => c.row \in PageRow
  /\ c.pc \notin {"idle", "done"} /\ c.op \in Publishing => c.body \in Req

TypeInv ==
  /\ WellFormed
  /\ \A r \in Req : Shape(h[r])

\* The record of a request nobody has served yet.
LEMMA IdleIsContext ==
  /\ Idle \in Context /\ Shape(Idle)
  /\ Idle.op = "create" /\ Idle.pend = Nil /\ Idle.tags = Nil /\ Idle.pc = "idle"
  BY RolesAssumption DEF Idle, Context, Shape, AllOps, Level, Publishing, Stage

\* A handler that only moves its program counter keeps its type.
LEMMA GotoType ==
  ASSUME TypeInv, NEW r \in Req, NEW pc, Goto(r, pc),
         [h[r] EXCEPT !.pc = pc] \in Context, Shape([h[r] EXCEPT !.pc = pc])
  PROVE  h' \in [Req -> Context] /\ \A s \in Req : Shape(h'[s])
  BY DEF TypeInv, WellFormed, Goto

\* The record a handler holds stays well formed when its program counter
\* takes another value.
LEMMA PcType ==
  ASSUME NEW c \in Context,
         NEW pc \in Stage
  PROVE  /\ [c EXCEPT !.pc = pc] \in Context
         /\ [c EXCEPT !.pc = pc].pc = pc
         /\ [c EXCEPT !.pc = pc].op = c.op
         /\ [c EXCEPT !.pc = pc].page = c.page
         /\ [c EXCEPT !.pc = pc].row = c.row
         /\ [c EXCEPT !.pc = pc].body = c.body
         /\ [c EXCEPT !.pc = pc].pend = c.pend
  BY DEF Context

\* The initial state is well formed.
LEMMA InitType == Init => TypeInv
  <1> SUFFICES ASSUME Init PROVE TypeInv
    OBVIOUS
  <1>1. WellFormed
    BY IdleIsContext DEF Init, WellFormed
  <1>2. QED
    BY <1>1, IdleIsContext DEF TypeInv, Init

\* Admitting a request with a well-formed record keeps the handlers so.
LEMMA BeginType ==
  ASSUME TypeInv, NEW r \in Req, NEW c \in Context, Shape(c), Begin(r, c)
  PROVE  h' \in [Req -> Context] /\ \A s \in Req : Shape(h'[s])
  BY DEF TypeInv, WellFormed, Begin

\* A handler that ends keeps the types, whatever it ends for.
LEMMA DoneType ==
  ASSUME TypeInv, NEW r \in Req, Goto(r, "done"), h[r].pc # "idle"
  PROVE  h' \in [Req -> Context] /\ \A s \in Req : Shape(h'[s])
  <1>1. h[r] \in Context /\ Shape(h[r])
    BY DEF TypeInv, WellFormed
  <1>2. [h[r] EXCEPT !.pc = "done"] \in Context /\ Shape([h[r] EXCEPT !.pc = "done"])
    BY <1>1, PcType DEF Shape, Stage
  <1>3. QED
    BY <1>2, GotoType

\* A handler that fails keeps the types.
LEMMA FailType ==
  ASSUME TypeInv, NEW r \in Req, Fail(r), h[r].pc # "idle"
  PROVE  TypeInv'
  BY DoneType DEF Fail, TypeInv, WellFormed, tables, derived

\* The audit entry of a handler on a page is well formed.
LEMMA EntryType ==
  ASSUME NEW c \in Context, c.page \in Req,
         NEW rev \in Req \cup {Nil}, NEW pend \in Req \cup {Nil},
         NEW level \in Level \cup {Nil}
  PROVE  Entry(c, rev, pend, level) \in AuditRow
  BY DEF Entry, AuditRow, Context

\* Appending a well-formed entry keeps the log well formed.
LEMMA LogType ==
  ASSUME TypeInv, NEW e \in AuditRow, Log(e)
  PROVE  audit' \in Seq(AuditRow)
  BY DEF TypeInv, WellFormed, Log

\* A creation keeps the types.
LEMMA CreateType ==
  ASSUME TypeInv, NEW r \in Req, NEW u \in User, NEW slug \in Slug,
         NEW gql \in BOOLEAN, NEW labels \in BOOLEAN,
         Create(r, u, slug, gql, labels)
  PROVE  TypeInv'
  <1> DEFINE live == Live(gql, u)
             row == [slug |-> slug, head |-> Nil, level |-> "None"]
             pc == IF ~live THEN "queue" ELSE IF gql THEN "index" ELSE "links"
             ctx == [Idle EXCEPT !.pc = pc, !.gql = gql, !.user = u,
                       !.author = u, !.page = r, !.row = row, !.body = r,
                       !.labels = labels]
  <1>1. row \in PageRow
    BY DEF PageRow, Level
  <1>2. pc \in {"queue", "index", "links"} /\ pc \in Stage
    BY DEF Stage
  <1>3. labels \in BOOLEAN
    OBVIOUS
  <1>4. ctx \in Context /\ Shape(ctx) /\ ctx.page = r /\ ctx.row = row
    <2> HIDE DEF pc, row
    <2>1. ctx \in Context
      BY <1>1, <1>2, <1>3, IdleIsContext DEF Context
    <2>2. ctx.pc = pc /\ ctx.op = "create" /\ ctx.page = r /\ ctx.row = row /\ ctx.body = r
      BY IdleIsContext DEF Context
    <2> HIDE DEF ctx
    <2>3. QED
      BY <2>1, <2>2, <1>1, <1>2 DEF Shape, Publishing
  <1>5. Begin(r, ctx)
    BY DEF Create
  <1>6. h' \in [Req -> Context] /\ \A s \in Req : Shape(h'[s])
    <2> HIDE DEF ctx
    <2> QED BY <1>4, <1>5, BeginType
  <1>7. page' = [page EXCEPT ![r] = [row EXCEPT !.head = IF live THEN r ELSE Nil]]
    BY DEF Create, Idle
  <1>8. page' \in [Req -> PageRow \cup {Nil}]
    BY <1>1, <1>7 DEF TypeInv, WellFormed, PageRow
  <1>9. revision' \in [Req -> RevisionRow \cup {Nil}]
    BY DEF Create, TypeInv, WellFormed, RevisionRow
  <1>10. audit' \in Seq(AuditRow)
    <2>1. Log(Entry(ctx, IF live THEN r ELSE Nil, Nil, Nil))
      BY DEF Create
    <2> HIDE DEF ctx, live
    <2>2. Entry(ctx, IF live THEN r ELSE Nil, Nil, Nil) \in AuditRow
      BY <1>4, EntryType
    <2>3. QED
      BY <2>1, <2>2, LogType
  <1>11. QED
    BY <1>6, <1>8, <1>9, <1>10 DEF Create, TypeInv, WellFormed, derived

\* A request that has only read keeps the types.
LEMMA ReadType ==
  ASSUME TypeInv, NEW r \in Req, NEW c \in Context, Shape(c), Begin(r, c),
         UNCHANGED <<tables, derived>>
  PROVE  TypeInv'
  BY BeginType DEF TypeInv, WellFormed, tables, derived

\* An update that has read its page keeps the types.
LEMMA ReadForUpdateType ==
  ASSUME TypeInv, NEW r \in Req, NEW u \in User, NEW p \in Req,
         NEW gql \in BOOLEAN, NEW labels \in BOOLEAN,
         ReadForUpdate(r, u, p, gql, labels)
  PROVE  TypeInv'
  <1> DEFINE row == page[p]
             ctx == [Idle EXCEPT !.pc = "commit", !.op = "update", !.gql = gql,
                       !.user = u, !.author = u, !.page = p, !.row = row,
                       !.body = r, !.labels = labels]
  <1>1. row \in PageRow /\ labels \in BOOLEAN /\ "commit" \in Stage /\ "update" \in AllOps
    BY DEF ReadForUpdate, TypeInv, WellFormed, Stage, AllOps
  <1>2. ctx \in Context /\ Shape(ctx)
    <2> HIDE DEF row
    <2>1. ctx \in Context
      BY <1>1, IdleIsContext DEF Context
    <2>2. ctx.pc = "commit" /\ ctx.op = "update" /\ ctx.page = p /\ ctx.row = row /\ ctx.body = r
      BY IdleIsContext DEF Context
    <2> HIDE DEF ctx
    <2>3. QED
      BY <2>1, <2>2, <1>1 DEF Shape, Publishing
  <1>3. Begin(r, ctx) /\ UNCHANGED <<tables, derived>>
    BY DEF ReadForUpdate
  <1> HIDE DEF ctx
  <1>4. QED
    BY <1>2, <1>3, ReadType

\* A deletion that has read its page keeps the types.
LEMMA ReadForDeleteType ==
  ASSUME TypeInv, NEW r \in Req, NEW u \in User, NEW p \in Req,
         NEW gql \in BOOLEAN, ReadForDelete(r, u, p, gql)
  PROVE  TypeInv'
  <1> DEFINE row == page[p]
             ctx == [Idle EXCEPT !.pc = "commit", !.op = "delete", !.gql = gql,
                       !.user = u, !.page = p, !.row = row]
  <1>1. row \in PageRow /\ "commit" \in Stage /\ "delete" \in AllOps
    BY DEF ReadForDelete, TypeInv, WellFormed, Stage, AllOps
  <1>2. ctx \in Context /\ Shape(ctx)
    <2> HIDE DEF row
    <2>1. ctx \in Context
      BY <1>1, IdleIsContext DEF Context
    <2>2. ctx.pc = "commit" /\ ctx.op = "delete" /\ ctx.page = p /\ ctx.row = row
      BY IdleIsContext DEF Context
    <2> HIDE DEF ctx
    <2>3. QED
      BY <2>1, <2>2, <1>1 DEF Shape, Publishing
  <1>3. Begin(r, ctx) /\ UNCHANGED <<tables, derived>>
    BY DEF ReadForDelete
  <1> HIDE DEF ctx
  <1>4. QED
    BY <1>2, <1>3, ReadType

\* A revert that has read its page and the text to copy keeps the types.
LEMMA ReadForRevertType ==
  ASSUME TypeInv, NEW r \in Req, NEW u \in User, NEW p \in Req,
         NEW gql \in BOOLEAN, NEW v \in Req, ReadForRevert(r, u, p, gql, v)
  PROVE  TypeInv'
  <1> DEFINE row == page[p]
             text == revision[v].body
             ctx == [Idle EXCEPT !.pc = "commit", !.op = "revert", !.gql = gql,
                       !.user = u, !.author = u, !.page = p, !.row = row,
                       !.body = text]
  <1>1. row \in PageRow /\ "commit" \in Stage /\ "revert" \in AllOps
    BY DEF ReadForRevert, TypeInv, WellFormed, Stage, AllOps
  <1>2. text \in Req
    BY DEF ReadForRevert, TypeInv, WellFormed, RevisionRow
  <1>3. ctx \in Context /\ Shape(ctx)
    <2> HIDE DEF row, text
    <2>1. ctx \in Context
      BY <1>1, <1>2, IdleIsContext DEF Context
    <2>2. ctx.pc = "commit" /\ ctx.op = "revert" /\ ctx.page = p /\ ctx.row = row /\ ctx.body = text
      BY IdleIsContext DEF Context
    <2> HIDE DEF ctx
    <2>3. QED
      BY <2>1, <2>2, <1>1, <1>2 DEF Shape, Publishing
  <1>4. Begin(r, ctx) /\ UNCHANGED <<tables, derived>>
    BY DEF ReadForRevert
  <1> HIDE DEF ctx
  <1>5. QED
    BY <1>3, <1>4, ReadType

\* A protection change that has read its page keeps the types.
LEMMA ReadForProtectType ==
  ASSUME TypeInv, NEW r \in Req, NEW u \in User, NEW p \in Req,
         NEW level \in Level, ReadForProtect(r, u, p, level)
  PROVE  TypeInv'
  <1> DEFINE row == page[p]
             ctx == [Idle EXCEPT !.pc = "commit", !.op = "protect", !.user = u,
                       !.page = p, !.row = row, !.level = level]
  <1>1. row \in PageRow /\ "commit" \in Stage /\ "protect" \in AllOps
    BY DEF ReadForProtect, TypeInv, WellFormed, Stage, AllOps
  <1>2. ctx \in Context /\ Shape(ctx)
    <2> HIDE DEF row
    <2>1. ctx \in Context
      BY <1>1, IdleIsContext DEF Context
    <2>2. ctx.pc = "commit" /\ ctx.op = "protect" /\ ctx.page = p /\ ctx.row = row
      BY IdleIsContext DEF Context
    <2> HIDE DEF ctx
    <2>3. QED
      BY <2>1, <2>2, <1>1 DEF Shape, Publishing
  <1>3. Begin(r, ctx) /\ UNCHANGED <<tables, derived>>
    BY DEF ReadForProtect
  <1> HIDE DEF ctx
  <1>4. QED
    BY <1>2, <1>3, ReadType

\* An approval that has read the pending row and the page keeps the types.
LEMMA ReadForApproveType ==
  ASSUME TypeInv, NEW r \in Req, NEW u \in User, NEW q \in Req,
         ReadForApprove(r, u, q)
  PROVE  TypeInv'
  <1> DEFINE p == pending[q].page
             a == pending[q].author
             row == page[p]
             ctx == [Idle EXCEPT !.pc = "decide", !.op = "approve", !.user = u,
                       !.author = a, !.page = p, !.row = row, !.body = q,
                       !.pend = q]
  <1>1. p \in Req /\ a \in User /\ page[p] # Nil
    BY DEF ReadForApprove, Reviewable, TypeInv, WellFormed, PendingRow
  <1>2. row \in PageRow /\ "decide" \in Stage /\ "approve" \in AllOps
    BY <1>1 DEF TypeInv, WellFormed, Stage, AllOps
  <1>3. ctx \in Context /\ Shape(ctx)
    <2> HIDE DEF row, a, p
    <2>1. ctx \in Context
      BY <1>1, <1>2, IdleIsContext DEF Context
    <2>2. ctx.pc = "decide" /\ ctx.op = "approve" /\ ctx.page = p /\ ctx.row = row
          /\ ctx.body = q /\ ctx.pend = q
      BY IdleIsContext DEF Context
    <2> HIDE DEF ctx
    <2>3. QED
      BY <2>1, <2>2, <1>1, <1>2 DEF Shape, Publishing
  <1>4. Begin(r, ctx) /\ UNCHANGED <<tables, derived>>
    BY DEF ReadForApprove
  <1> HIDE DEF ctx
  <1>5. QED
    BY <1>3, <1>4, ReadType

\* A rejection that has read the pending row keeps the types.
LEMMA ReadForRejectType ==
  ASSUME TypeInv, NEW r \in Req, NEW u \in User, NEW q \in Req,
         ReadForReject(r, u, q)
  PROVE  TypeInv'
  <1> DEFINE p == pending[q].page
             ctx == [Idle EXCEPT !.pc = "decide", !.op = "reject", !.user = u,
                       !.page = p, !.pend = q]
  <1>1. p \in Req /\ "decide" \in Stage /\ "reject" \in AllOps
    BY DEF ReadForReject, Reviewable, TypeInv, WellFormed, PendingRow, Stage, AllOps
  <1>2. ctx \in Context /\ Shape(ctx)
    <2> HIDE DEF p
    <2>1. ctx \in Context
      BY <1>1, IdleIsContext DEF Context
    <2>2. ctx.pc = "decide" /\ ctx.op = "reject" /\ ctx.page = p /\ ctx.pend = q
      BY IdleIsContext DEF Context
    <2> HIDE DEF ctx
    <2>3. QED
      BY <2>1, <2>2, <1>1 DEF Shape, Publishing
  <1>3. Begin(r, ctx) /\ UNCHANGED <<tables, derived>>
    BY DEF ReadForReject
  <1> HIDE DEF ctx
  <1>4. QED
    BY <1>2, <1>3, ReadType

\* A handler that goes on keeps the types when its record still has the
\* shape its next stage asks for.
LEMMA MoveType ==
  ASSUME TypeInv, NEW r \in Req, NEW pc \in Stage, Goto(r, pc), InFlight(r),
         h[r].op = "reject" <=> pc = "log",
         pc = "log" => h[r].pc = "decide",
         pc = "commit" => h[r].pc = "decide" /\ h[r].op = "approve",
         pc = "queue" => h[r].pc = "commit" /\ h[r].op = "update",
         pc # "decide",
         pc \in {"links", "categories", "tags", "index"} =>
           h[r].op \in Publishing \cup {"delete"}
  PROVE  h' \in [Req -> Context] /\ \A s \in Req : Shape(h'[s])
  <1>1. h[r] \in Context /\ Shape(h[r])
    BY DEF TypeInv, WellFormed
  <1>2. [h[r] EXCEPT !.pc = pc] \in Context
    BY <1>1, PcType
  <1>3. Shape([h[r] EXCEPT !.pc = pc])
    BY <1>1, PcType DEF Shape, InFlight, Stage, Publishing
  <1>4. QED
    BY <1>2, <1>3, GotoType

\* Committing a revision keeps the types of the tables.
LEMMA CommitRevisionType ==
  ASSUME TypeInv, NEW r \in Req, h[r].pc = "commit",
         h[r].op \in {"update", "revert", "approve"}, CommitRevision(r)
  PROVE  /\ page' \in [Req -> PageRow \cup {Nil}]
         /\ revision' \in [Req -> RevisionRow \cup {Nil}]
         /\ audit' \in Seq(AuditRow)
         /\ UNCHANGED <<pending, derived>>
  <1>1. h[r] \in Context /\ h[r].page \in Req /\ h[r].row \in PageRow
        /\ h[r].body \in Req /\ h[r].pend \in Req \cup {Nil} /\ h[r].author \in User
    BY DEF TypeInv, WellFormed, Shape, Publishing, Context
  <1>2. h[r].row.head \in Req \cup {Nil} /\ [h[r].row EXCEPT !.head = r] \in PageRow
    BY <1>1 DEF PageRow
  <1>3. page' = [page EXCEPT ![h[r].page] = [h[r].row EXCEPT !.head = r]]
    BY DEF CommitRevision
  <1>4. page' \in [Req -> PageRow \cup {Nil}]
    BY <1>2, <1>3 DEF TypeInv, WellFormed
  <1>5. revision' \in [Req -> RevisionRow \cup {Nil}]
    BY <1>1, <1>2 DEF CommitRevision, TypeInv, WellFormed, RevisionRow
  <1>6. audit' \in Seq(AuditRow)
    <2>1. Entry(h[r], r, h[r].pend, Nil) \in AuditRow
      BY <1>1, EntryType
    <2>2. QED
      BY <2>1, LogType DEF CommitRevision
  <1>7. QED
    BY <1>4, <1>5, <1>6 DEF CommitRevision

\* The commit of a live edit, a revert or an approval keeps the types.
LEMMA CommitLiveType ==
  ASSUME TypeInv, NEW r \in Req, CommitLive(r)
  PROVE  TypeInv'
  <1>1. CASE Fail(r)
    BY <1>1, FailType DEF CommitLive
  <1>2. CASE CommitRevision(r)
             /\ Goto(r, IF h[r].op = "revert" \/ h[r].gql THEN "index" ELSE "links")
    <2> DEFINE pc == IF h[r].op = "revert" \/ h[r].gql THEN "index" ELSE "links"
    <2>1. pc \in {"index", "links"} /\ pc \in Stage
      BY DEF Stage
    <2>2. Goto(r, pc) /\ InFlight(r)
      BY <1>2 DEF CommitLive, InFlight
    <2> HIDE DEF pc
    <2>3. h' \in [Req -> Context] /\ \A s \in Req : Shape(h'[s])
      BY <2>1, <2>2, MoveType DEF CommitLive, Publishing
    <2>4. QED
      BY <1>2, <2>3, CommitRevisionType DEF CommitLive, TypeInv, WellFormed, derived
  <1>3. QED
    BY <1>1, <1>2 DEF CommitLive

\* The audit entry of a queued edit keeps the types.
LEMMA CommitQueuedType ==
  ASSUME TypeInv, NEW r \in Req, CommitQueued(r)
  PROVE  TypeInv'
  <1>1. h[r] \in Context /\ h[r].page \in Req
    BY DEF CommitQueued, TypeInv, WellFormed, Shape
  <1>2. audit' \in Seq(AuditRow)
    BY <1>1, EntryType, LogType DEF CommitQueued
  <1>3. h' \in [Req -> Context] /\ \A s \in Req : Shape(h'[s])
    BY MoveType DEF CommitQueued, InFlight, Stage
  <1>4. QED
    BY <1>2, <1>3 DEF CommitQueued, TypeInv, WellFormed, derived

\* A change of protection level keeps the types.
LEMMA CommitProtectType ==
  ASSUME TypeInv, NEW r \in Req, CommitProtect(r)
  PROVE  TypeInv'
  <1>1. CASE Fail(r)
    BY <1>1, FailType DEF CommitProtect
  <1>2. CASE ~Fail(r)
    <2>1. h[r] \in Context /\ h[r].page \in Req /\ h[r].row \in PageRow
          /\ h[r].level \in Level
      BY DEF CommitProtect, TypeInv, WellFormed, Shape, Context
    <2>2. [h[r].row EXCEPT !.level = h[r].level] \in PageRow
      BY <2>1 DEF PageRow
    <2>3. page' \in [Req -> PageRow \cup {Nil}]
      BY <1>2, <2>2 DEF CommitProtect, TypeInv, WellFormed
    <2>4. audit' \in Seq(AuditRow)
      BY <1>2, <2>1, EntryType, LogType DEF CommitProtect
    <2>5. h' \in [Req -> Context] /\ \A s \in Req : Shape(h'[s])
      BY <1>2, DoneType DEF CommitProtect
    <2>6. QED
      BY <1>2, <2>3, <2>4, <2>5 DEF CommitProtect, TypeInv, WellFormed, derived
  <1>3. QED
    BY <1>1, <1>2

\* A deletion keeps the types.
LEMMA CommitDeleteType ==
  ASSUME TypeInv, NEW r \in Req, CommitDelete(r)
  PROVE  TypeInv'
  <1>1. CASE Fail(r)
    BY <1>1, FailType DEF CommitDelete
  <1>2. CASE ~Fail(r)
    <2>1. h[r] \in Context /\ h[r].page \in Req
      BY DEF CommitDelete, TypeInv, WellFormed, Shape
    <2>2. page' \in [Req -> PageRow \cup {Nil}]
          /\ revision' \in [Req -> RevisionRow \cup {Nil}]
          /\ pending' \in [Req -> PendingRow \cup {Nil}]
      BY <1>2 DEF CommitDelete, TypeInv, WellFormed
    <2>3. links' \in [Req -> Req \cup {Nil}] /\ categories' \in [Req -> Req \cup {Nil}]
          /\ tags' \in [Req -> Req \cup {Nil}] /\ doc' = doc
      BY <1>2 DEF CommitDelete, TypeInv, WellFormed
    <2>4. audit' \in Seq(AuditRow)
      BY <1>2, <2>1, EntryType, LogType DEF CommitDelete
    <2>5. h' \in [Req -> Context] /\ \A s \in Req : Shape(h'[s])
      BY <1>2, MoveType DEF CommitDelete, InFlight, Stage
    <2>6. QED
      BY <2>2, <2>3, <2>4, <2>5 DEF TypeInv, WellFormed
  <1>3. QED
    BY <1>1, <1>2

\* Queueing an edit keeps the types.
LEMMA PersistPendingType ==
  ASSUME TypeInv, NEW r \in Req, PersistPending(r)
  PROVE  TypeInv'
  <1>1. CASE Fail(r)
    BY <1>1, FailType DEF PersistPending
  <1>2. CASE ~Fail(r)
    <2>1. h[r] \in Context /\ h[r].page \in Req /\ h[r].row \in PageRow
          /\ h[r].user \in User
      BY DEF PersistPending, TypeInv, WellFormed, Shape, Context
    <2>2. h[r].row.head \in Req \cup {Nil}
      BY <2>1 DEF PageRow
    <2>3. pending' \in [Req -> PendingRow \cup {Nil}]
      BY <1>2, <2>1, <2>2 DEF PersistPending, TypeInv, WellFormed, PendingRow
    <2>4. h' \in [Req -> Context] /\ \A s \in Req : Shape(h'[s])
      BY <1>2, DoneType DEF PersistPending
    <2>5. QED
      BY <1>2, <2>3, <2>4 DEF PersistPending, TypeInv, WellFormed, derived
  <1>3. QED
    BY <1>1, <1>2

\* A row of the queue with a decision and its reviewer filled in.
LEMMA DecidedRow ==
  ASSUME NEW q \in PendingRow, NEW u \in User, NEW s \in {"approved", "rejected"}
  PROVE  /\ [q EXCEPT !.status = s, !.reviewer = u] \in PendingRow
         /\ [q EXCEPT !.status = s, !.reviewer = u].page = q.page
  <1>1. u # Nil
    BY NilAssumption
  <1>2. QED
    BY <1>1 DEF PendingRow

\* A decision keeps the types.
LEMMA DecideType ==
  ASSUME TypeInv, NEW r \in Req, Decide(r)
  PROVE  TypeInv'
  <1>1. CASE Fail(r)
    BY <1>1, FailType DEF Decide
  <1>2. CASE ~Fail(r)
    <2> DEFINE q == h[r].pend
               verdict == IF h[r].op = "approve" THEN "approved" ELSE "rejected"
               pc == IF h[r].op = "approve" THEN "commit" ELSE "log"
    <2>1. h[r] \in Context /\ h[r].user \in User /\ q \in Req
          /\ h[r].op \in {"approve", "reject"}
      BY DEF Decide, TypeInv, WellFormed, Shape, Context
    <2>2. pending[q] \in PendingRow /\ verdict \in {"approved", "rejected"}
      BY <1>2, <2>1 DEF Decide, Undecided, TypeInv, WellFormed
    <2>3. pending' = [pending EXCEPT ![q].status = verdict, ![q].reviewer = h[r].user]
      BY <1>2 DEF Decide
    <2>4. pending' \in [Req -> PendingRow \cup {Nil}]
      <3> HIDE DEF q, verdict
      <3>1. [pending[q] EXCEPT !.status = verdict, !.reviewer = h[r].user] \in PendingRow
        BY <2>1, <2>2, DecidedRow
      <3>2. pending' = [pending EXCEPT
              ![q] = [pending[q] EXCEPT !.status = verdict, !.reviewer = h[r].user]]
        BY <2>1, <2>3 DEF TypeInv, WellFormed
      <3>3. QED
        BY <2>1, <3>1, <3>2 DEF TypeInv, WellFormed
    <2>5. pc \in Stage /\ (pc = "log" <=> h[r].op = "reject") /\ pc \in {"commit", "log"}
          /\ (pc = "commit" => h[r].op = "approve")
      BY <2>1 DEF Stage
    <2>6. Goto(r, pc) /\ InFlight(r) /\ h[r].pc = "decide"
      BY <1>2 DEF Decide, InFlight
    <2>7. h' \in [Req -> Context] /\ \A s \in Req : Shape(h'[s])
      <3> HIDE DEF pc
      <3> QED BY <2>5, <2>6, MoveType
    <2>8. QED
      BY <1>2, <2>4, <2>7 DEF Decide, TypeInv, WellFormed, derived
  <1>3. QED
    BY <1>1, <1>2

\* Logging a rejection keeps the types.
LEMMA LogRejectionType ==
  ASSUME TypeInv, NEW r \in Req, LogRejection(r)
  PROVE  TypeInv'
  <1>1. CASE Fail(r)
    BY <1>1, FailType DEF LogRejection
  <1>2. CASE ~Fail(r)
    <2>1. h[r] \in Context /\ h[r].page \in Req /\ h[r].pend \in Req \cup {Nil}
      BY DEF LogRejection, TypeInv, WellFormed, Shape, Context
    <2>2. audit' \in Seq(AuditRow)
      BY <1>2, <2>1, EntryType, LogType DEF LogRejection
    <2>3. h' \in [Req -> Context] /\ \A s \in Req : Shape(h'[s])
      BY <1>2, DoneType DEF LogRejection
    <2>4. QED
      BY <1>2, <2>2, <2>3 DEF LogRejection, TypeInv, WellFormed, derived
  <1>3. QED
    BY <1>1, <1>2

\* Refreshing the links of a page keeps the types.
LEMMA RefreshLinksType ==
  ASSUME TypeInv, NEW r \in Req, RefreshLinks(r)
  PROVE  TypeInv'
  <1>1. CASE Fail(r)
    BY <1>1, FailType DEF RefreshLinks
  <1>2. CASE ~Fail(r)
    <2>1. h[r] \in Context /\ h[r].op \in Publishing \cup {"delete"}
      BY DEF RefreshLinks, TypeInv, WellFormed, Shape
    <2>2. PICK pc \in {"done", "categories", "tags", "index"} : Goto(r, pc)
      BY <1>2 DEF RefreshLinks
    <2>3. h' \in [Req -> Context] /\ \A s \in Req : Shape(h'[s])
      BY <2>1, <2>2, MoveType DEF RefreshLinks, InFlight, Stage, Publishing
    <2>4. links' \in [Req -> Req \cup {Nil}]
      <3>1. h[r].body \in Req \cup {Nil}
        BY <2>1 DEF Context
      <3>2. QED
        BY <1>2, <3>1 DEF RefreshLinks, TypeInv, WellFormed
    <2>5. QED
      BY <1>2, <2>3, <2>4 DEF RefreshLinks, TypeInv, WellFormed, tables
  <1>3. QED
    BY <1>1, <1>2

\* Replacing the categories of a page keeps the types.
LEMMA ReplaceCategoriesType ==
  ASSUME TypeInv, NEW r \in Req, ReplaceCategories(r)
  PROVE  TypeInv'
  <1>1. CASE Fail(r)
    BY <1>1, FailType DEF ReplaceCategories
  <1>2. CASE ~Fail(r)
    <2>1. h[r].op \in Publishing \cup {"delete"}
      BY DEF ReplaceCategories, TypeInv, WellFormed, Shape
    <2>2. h' \in [Req -> Context] /\ \A s \in Req : Shape(h'[s])
      BY <1>2, <2>1, MoveType DEF ReplaceCategories, InFlight, Stage, Publishing
    <2>3. QED
      BY <1>2, <2>2 DEF ReplaceCategories, TypeInv, WellFormed, tables
  <1>3. QED
    BY <1>1, <1>2

\* Assigning or reading the tags of a page keeps the types.
LEMMA SettleTagsType ==
  ASSUME TypeInv, NEW r \in Req, SettleTags(r)
  PROVE  TypeInv'
  <1>1. CASE Fail(r)
    BY <1>1, FailType DEF SettleTags
  <1>2. CASE ~Fail(r)
    <2>1. h[r] \in Context /\ Shape(h[r])
      BY DEF TypeInv, WellFormed
    <2>2. tags[h[r].page] \in Req \cup {Nil}
      BY <2>1 DEF SettleTags, Shape, TypeInv, WellFormed
    <2>3. PICK t \in Req \cup {Nil} : h' = [h EXCEPT ![r].pc = "index", ![r].tags = t]
      BY <1>2, <2>2 DEF SettleTags
    <2> DEFINE c == [h[r] EXCEPT !.pc = "index", !.tags = t]
    <2>4. c \in Context /\ c.pc = "index" /\ c.op = h[r].op /\ c.page = h[r].page
          /\ c.body = h[r].body
      BY <2>1 DEF Context, Stage
    <2>5. h' = [h EXCEPT ![r] = c]
      BY <2>3 DEF TypeInv, WellFormed
    <2> HIDE DEF c
    <2>6. Shape(c)
      BY <2>1, <2>4 DEF SettleTags, Shape, Publishing
    <2>7. h' \in [Req -> Context] /\ \A s \in Req : Shape(h'[s])
      BY <2>4, <2>5, <2>6 DEF TypeInv, WellFormed
    <2>8. QED
      BY <1>2, <2>7 DEF SettleTags, TypeInv, WellFormed, tables, derived
  <1>3. QED
    BY <1>1, <1>2

\* Handing a document to the indexer keeps the types.
LEMMA IndexType ==
  ASSUME TypeInv, NEW r \in Req, Index(r)
  PROVE  TypeInv'
  <1>1. h[r] \in Context /\ h[r].op \in Publishing \cup {"delete"} /\ h[r].page \in Req
        /\ (h[r].op # "delete" => h[r].body \in Req) /\ h[r].tags \in Req \cup {Nil}
    BY DEF Index, TypeInv, WellFormed, Shape, Context, Publishing
  <1>2. doc' \in [Req -> SearchDoc \cup {Nil}]
    BY <1>1 DEF Index, TypeInv, WellFormed, SearchDoc
  <1>3. h' \in [Req -> Context] /\ \A s \in Req : Shape(h'[s])
    BY DoneType DEF Index
  <1>4. QED
    BY <1>2, <1>3 DEF Index, TypeInv, WellFormed, tables

\* Admitting a request keeps the types.
LEMMA StartType == ASSUME TypeInv, NEW r \in Req, Start(r) PROVE TypeInv'
  BY ParameterAssumption, CreateType, ReadForUpdateType, ReadForDeleteType,
     ReadForRevertType, ReadForProtectType, ReadForApproveType, ReadForRejectType
     DEF Start, Rest, MutationRoot, createPage, updatePage, deletePage, revertPage

\* A step of a handler keeps the types.
LEMMA StepType == ASSUME TypeInv, NEW r \in Req, Step(r) PROVE TypeInv'
  BY CommitLiveType, CommitQueuedType, CommitProtectType, CommitDeleteType,
     PersistPendingType, DecideType, LogRejectionType, RefreshLinksType,
     ReplaceCategoriesType, SettleTagsType, IndexType
     DEF Step

\* Every step keeps the types.
LEMMA NextType == TypeInv /\ [Next]_vars => TypeInv'
  <1> SUFFICES ASSUME TypeInv, [Next]_vars PROVE TypeInv'
    OBVIOUS
  <1>1. CASE UNCHANGED vars
    BY <1>1 DEF TypeInv, WellFormed, vars
  <1>2. ASSUME NEW r \in Req, Start(r) PROVE TypeInv'
    BY <1>2, StartType
  <1>3. ASSUME NEW r \in Req, Step(r) PROVE TypeInv'
    BY <1>3, StepType
  <1>4. ASSUME NEW r \in Req, Lose(r) PROVE TypeInv'
    BY <1>4, FailType DEF Lose, InFlight
  <1>5. QED
    BY <1>1, <1>2, <1>3, <1>4 DEF Next

\* Every reachable row and every handler is well formed, whatever requests
\* arrive, however they interleave and wherever they are lost; and a handler
\* holds what its stage needs.
THEOREM TypeInvariant == Spec => []TypeInv
  BY InitType, NextType, PTL DEF Spec

\* Every row of every table is well formed at all times, decided rows name
\* their reviewer and undecided ones none, and a lost request was lost before
\* some step.
THEOREM TypeCorrect == Spec => []TypeOK
  <1>1. Init => TypeInv /\ TypeOK
    BY InitType DEF TypeInv, TypeOK, Init
  <1>2. TypeInv /\ TypeOK /\ [Next]_vars => TypeOK'
    <2> SUFFICES ASSUME TypeInv, TypeOK, [Next]_vars PROVE TypeOK'
      OBVIOUS
    <2>1. WellFormed'
      BY NextType DEF TypeInv
    <2>2. \A r \in Req : h[r].pc \in Stage
      BY DEF TypeOK, WellFormed, Context
    <2>3. lost' \in [Req -> Stage \cup {Nil}]
      BY <2>2 DEF Next, Lose, TypeOK, vars
    <2>4. QED
      BY <2>1, <2>3 DEF TypeOK
  <1>3. QED
    BY <1>1, <1>2, TypeInvariant, PTL DEF Spec

-----------------------------------------------------------------------------
(* Nothing outlives its page.  The invariant is inductive together with the *)
(* types: every step that writes a row of a page looks first whether the    *)
(* page is there, and the deletion takes all of them in one transaction.    *)

\* Steps that leave the set of pages and all that hangs on a page alone.
LEMMA OutliveUnchanged ==
  ASSUME NothingOutlivesPage,
         \A p \in Req : page'[p] = Nil => page[p] = Nil,
         \A q \in Req : pending'[q] # Nil =>
           pending[q] # Nil /\ pending'[q].page = pending[q].page,
         UNCHANGED <<links, categories, tags>>, TypeInv
  PROVE  NothingOutlivesPage'
  BY DEF NothingOutlivesPage, TypeInv, WellFormed, PendingRow

\* Initially there is nothing.
LEMMA OutliveInit == Init => NothingOutlivesPage
  BY DEF Init, NothingOutlivesPage

\* No admission lets anything outlive its page.
LEMMA OutliveStart ==
  ASSUME TypeInv, NothingOutlivesPage, NEW r \in Req, Start(r)
  PROVE  NothingOutlivesPage'
  <1>1. CASE UNCHANGED <<tables, derived>>
    BY <1>1 DEF NothingOutlivesPage, tables, derived
  <1>2. CASE \E u \in User, gql \in BOOLEAN, labels \in BOOLEAN, slug \in Slug :
               Create(r, u, slug, gql, labels)
    <2>1. PICK u \in User, gql \in BOOLEAN, labels \in BOOLEAN, slug \in Slug :
                 Create(r, u, slug, gql, labels)
      BY <1>2
    <2>2. page'[r] # Nil /\ \A p \in Req \ {r} : page'[p] = page[p]
      BY <2>1, NilAssumption DEF Create, Idle, PageRow, Level, TypeInv, WellFormed
    <2>3. UNCHANGED <<pending, links, categories, tags>>
      BY <2>1 DEF Create, derived
    <2>4. QED
      BY <2>2, <2>3, OutliveUnchanged
  <1>3. QED
    BY <1>1, <1>2, ParameterAssumption
       DEF Start, Rest, MutationRoot, createPage, updatePage, deletePage, revertPage,
           ReadForUpdate, ReadForDelete, ReadForRevert, ReadForProtect, ReadForApprove,
           ReadForReject

\* A row with another head, or another level, is still a row.
LEMMA RowIsNotNil ==
  ASSUME NEW row \in PageRow
  PROVE  /\ \A x \in Req \cup {Nil} : [row EXCEPT !.head = x] # Nil
         /\ \A l \in Level : [row EXCEPT !.level = l] # Nil
  BY NilAssumption DEF PageRow

\* No step of a handler lets anything outlive its page.
LEMMA OutliveStep ==
  ASSUME TypeInv, NothingOutlivesPage, NEW r \in Req, Step(r)
  PROVE  NothingOutlivesPage'
  <1> USE DEF TypeInv, WellFormed
  <1>0. CASE UNCHANGED <<page, pending, links, categories, tags>>
    BY <1>0 DEF NothingOutlivesPage
  <1>f. Fail(r) => UNCHANGED <<page, pending, links, categories, tags>>
    BY DEF Fail, tables, derived
  <1>1. CASE CommitLive(r)
    <2>1. CASE CommitRevision(r) /\ page[h[r].page] # Nil
      <3>1. h[r].page \in Req /\ h[r].row \in PageRow
        BY <1>1 DEF CommitLive, Shape
      <3>2. \A p \in Req : page'[p] = Nil => page[p] = Nil
        BY <2>1, <3>1, RowIsNotNil DEF CommitRevision
      <3>3. QED
        BY <2>1, <3>2, OutliveUnchanged DEF CommitRevision, derived
    <2>2. QED
      BY <1>0, <1>f, <1>1, <2>1 DEF CommitLive
  <1>2. CASE CommitQueued(r)
    BY <1>0, <1>2 DEF CommitQueued, derived
  <1>3. CASE CommitProtect(r)
    <2>1. CASE ~Fail(r)
      <3>1. h[r].page \in Req /\ h[r].row \in PageRow /\ h[r].level \in Level
        BY <1>3 DEF CommitProtect, Shape, Context
      <3>2. \A p \in Req : page'[p] = Nil => page[p] = Nil
        BY <1>3, <2>1, <3>1, RowIsNotNil DEF CommitProtect
      <3>3. QED
        BY <1>3, <2>1, <3>2, OutliveUnchanged DEF CommitProtect, derived
    <2>2. QED
      BY <1>0, <1>f, <2>1
  <1>4. CASE CommitDelete(r)
    <2>1. CASE ~Fail(r)
      <3> DEFINE p == h[r].page
      <3>1. p \in Req
        BY <1>4 DEF CommitDelete, Shape
      <3>2. page' = [page EXCEPT ![p] = Nil] /\ links' = [links EXCEPT ![p] = Nil]
            /\ categories' = [categories EXCEPT ![p] = Nil]
            /\ tags' = [tags EXCEPT ![p] = Nil]
        BY <1>4, <2>1 DEF CommitDelete
      <3>3. \A q \in Req : pending'[q] # Nil =>
              pending[q] # Nil /\ pending'[q] = pending[q] /\ pending[q].page # p
        BY <1>4, <2>1 DEF CommitDelete
      <3>4. \A q \in Req : pending[q] # Nil => pending[q].page \in Req
        BY DEF PendingRow
      <3> HIDE DEF p
      <3>5. QED
        BY <3>1, <3>2, <3>3, <3>4 DEF NothingOutlivesPage
    <2>2. QED
      BY <1>0, <1>f, <2>1
  <1>5. CASE PersistPending(r)
    <2>1. CASE ~Fail(r)
      <3>1. page[h[r].page] # Nil /\ UNCHANGED <<page, derived>>
        BY <1>5, <2>1 DEF PersistPending
      <3>2. \A q \in Req : pending'[q] # Nil => page[pending'[q].page] # Nil
        BY <1>5, <2>1 DEF PersistPending, NothingOutlivesPage
      <3>3. QED
        BY <3>1, <3>2 DEF NothingOutlivesPage, derived
    <2>2. QED
      BY <1>0, <1>f, <2>1
  <1>6. CASE Decide(r)
    <2>1. CASE ~Fail(r)
      <3>1. h[r].pend \in Req /\ pending[h[r].pend] \in PendingRow
        BY <1>6, <2>1 DEF Decide, Undecided, Shape
      <3>2. \A q \in Req : pending'[q] # Nil =>
              pending[q] # Nil /\ pending'[q].page = pending[q].page
        BY <1>6, <2>1, <3>1, NilAssumption DEF Decide, PendingRow
      <3>3. QED
        BY <1>6, <2>1, <3>2, OutliveUnchanged DEF Decide, derived
    <2>2. QED
      BY <1>0, <1>f, <2>1
  <1>7. CASE LogRejection(r)
    BY <1>0, <1>f, <1>7 DEF LogRejection, derived
  <1>8. CASE RefreshLinks(r)
    <2>1. CASE ~Fail(r)
      <3>1. UNCHANGED <<tables, categories, tags>>
            /\ \A p \in Req : page[p] = Nil => links'[p] = links[p]
        BY <1>8, <2>1 DEF RefreshLinks
      <3>2. QED
        BY <3>1 DEF NothingOutlivesPage, tables
    <2>2. QED
      BY <1>0, <1>f, <2>1
  <1>9. CASE ReplaceCategories(r)
    <2>1. CASE ~Fail(r)
      <3>1. UNCHANGED <<tables, links, tags>>
            /\ \A p \in Req : page[p] = Nil => categories'[p] = categories[p]
        BY <1>9, <2>1 DEF ReplaceCategories
      <3>2. QED
        BY <3>1 DEF NothingOutlivesPage, tables
    <2>2. QED
      BY <1>0, <1>f, <2>1
  <1>10. CASE SettleTags(r)
    <2>1. CASE ~Fail(r)
      <3>1. UNCHANGED <<tables, links, categories>>
            /\ \A p \in Req : page[p] = Nil => tags'[p] = tags[p]
        BY <1>10, <2>1 DEF SettleTags, derived
      <3>2. QED
        BY <3>1 DEF NothingOutlivesPage, tables
    <2>2. QED
      BY <1>0, <1>f, <2>1
  <1>11. CASE Index(r)
    BY <1>0, <1>11 DEF Index, tables
  <1>12. QED
    BY <1>1, <1>2, <1>3, <1>4, <1>5, <1>6, <1>7, <1>8, <1>9, <1>10, <1>11 DEF Step

\* No queued edit, link, category or tag outlives its page, however many
\* requests interleave with the deletion and wherever any of them is lost.
THEOREM NothingOutlives == Spec => []NothingOutlivesPage
  <1>1. TypeInv /\ NothingOutlivesPage /\ [Next]_vars => NothingOutlivesPage'
    <2> SUFFICES ASSUME TypeInv, NothingOutlivesPage, [Next]_vars
                 PROVE  NothingOutlivesPage'
      OBVIOUS
    <2>1. CASE UNCHANGED vars
      BY <2>1 DEF vars, NothingOutlivesPage
    <2>2. ASSUME NEW r \in Req, Lose(r) PROVE NothingOutlivesPage'
      BY <2>2 DEF Lose, Fail, tables, derived, NothingOutlivesPage
    <2>3. QED
      BY <2>1, <2>2, OutliveStart, OutliveStep DEF Next
  <1>2. QED
    BY <1>1, OutliveInit, TypeInvariant, PTL DEF Spec

-----------------------------------------------------------------------------
(* How a step moves the handlers: one goes on, keeping what it has read.    *)

\* The parts of a handler's record no step changes.
Kept(r) ==
  /\ h'[r].op = h[r].op /\ h'[r].gql = h[r].gql
  /\ h'[r].user = h[r].user /\ h'[r].author = h[r].author
  /\ h'[r].page = h[r].page /\ h'[r].row = h[r].row
  /\ h'[r].body = h[r].body /\ h'[r].pend = h[r].pend

\* Moving the program counter of a handler changes nothing else.
LEMMA GotoMoves ==
  ASSUME TypeInv, NEW r \in Req, NEW pc, Goto(r, pc)
  PROVE  /\ \A s \in Req \ {r} : h'[s] = h[s]
         /\ Kept(r)
         /\ h'[r].pc = pc
  BY DEF TypeInv, WellFormed, Goto, Kept, Context

\* A step, or a loss, moves one handler in flight and never back.
LEMMA StepMoves ==
  ASSUME TypeInv, NEW r \in Req, Step(r) \/ Lose(r)
  PROVE  /\ InFlight(r)
         /\ \A s \in Req \ {r} : h'[s] = h[s]
         /\ Kept(r)
         /\ h'[r].pc \notin {"idle", "decide"}
         /\ h'[r].pc = "commit" => h[r].pc = "decide" /\ h[r].op = "approve"
  <1>1. CASE \E pc \in Stage \ {"idle", "decide", "commit"} : Goto(r, pc) /\ InFlight(r)
    BY <1>1, GotoMoves
  <1>2. CASE Decide(r) /\ Goto(r, "commit") /\ h[r].op = "approve"
    BY <1>2, GotoMoves DEF Decide, InFlight
  <1>3. CASE SettleTags(r) /\ ~Fail(r)
    <2>1. PICK t : h' = [h EXCEPT ![r].pc = "index", ![r].tags = t]
      BY <1>3 DEF SettleTags
    <2>2. h[r] \in Context
      BY DEF TypeInv, WellFormed
    <2>3. h'[r] = [h[r] EXCEPT !.pc = "index", !.tags = t]
          /\ \A s \in Req \ {r} : h'[s] = h[s]
      BY <2>1 DEF TypeInv, WellFormed
    <2>4. Kept(r) /\ h'[r].pc = "index"
      BY <2>2, <2>3 DEF Kept, Context
    <2>5. QED
      BY <1>3, <2>3, <2>4 DEF SettleTags, InFlight
  <1>4. CASE Fail(r) /\ InFlight(r)
    BY <1>1, <1>4 DEF Fail, Stage
  <1>5. Lose(r) => Fail(r) /\ InFlight(r)
    BY DEF Lose
  <1>6. CASE CommitLive(r)
    BY <1>1, <1>4, <1>6 DEF CommitLive, InFlight, Stage
  <1>7. CASE CommitQueued(r)
    BY <1>1, <1>7 DEF CommitQueued, InFlight, Stage
  <1>8. CASE CommitProtect(r)
    BY <1>1, <1>4, <1>8 DEF CommitProtect, InFlight, Stage
  <1>9. CASE CommitDelete(r)
    BY <1>1, <1>4, <1>9 DEF CommitDelete, InFlight, Stage
  <1>10. CASE PersistPending(r)
    BY <1>1, <1>4, <1>10 DEF PersistPending, InFlight, Stage
  <1>11. CASE Decide(r)
    BY <1>1, <1>2, <1>4, <1>11 DEF Decide, InFlight, Stage
  <1>12. CASE LogRejection(r)
    BY <1>1, <1>4, <1>12 DEF LogRejection, InFlight, Stage
  <1>13. CASE RefreshLinks(r)
    BY <1>1, <1>4, <1>13 DEF RefreshLinks, InFlight, Stage
  <1>14. CASE ReplaceCategories(r)
    BY <1>1, <1>4, <1>14 DEF ReplaceCategories, InFlight, Stage
  <1>15. CASE SettleTags(r)
    BY <1>3, <1>4, <1>15 DEF SettleTags, InFlight
  <1>16. CASE Index(r)
    BY <1>1, <1>16 DEF Index, InFlight, Stage
  <1>17. QED
    BY <1>4, <1>5, <1>6, <1>7, <1>8, <1>9, <1>10, <1>11, <1>12, <1>13, <1>14,
       <1>15, <1>16 DEF Step

\* A request that reads is admitted for a page that exists; a reviewer's
\* pending row exists, is undecided and is somebody else's.  The text a
\* handler holds is its own, that of an old revision or the one under review.
Reads(r) ==
  /\ h[r].pc = "idle"
  /\ \A s \in Req \ {r} : h'[s] = h[s]
  /\ h'[r].pc \in {"commit", "decide"}
  /\ h'[r].op \notin {"approve", "reject"} =>
       /\ h'[r].pc = "commit" /\ h'[r].pend = Nil
       /\ h'[r].row = page[h'[r].page] /\ page[h'[r].page] # Nil
  /\ h'[r].op \in {"approve", "reject"} =>
       /\ h'[r].pc = "decide" /\ h'[r].pend \in Req
       /\ Undecided(h'[r].pend)
       /\ pending[h'[r].pend].author # h'[r].user
       /\ h'[r].page = pending[h'[r].pend].page
  /\ h'[r].op = "approve" =>
       /\ h'[r].row = page[h'[r].page] /\ page[h'[r].page] # Nil
       /\ h'[r].body = h'[r].pend
  /\ h'[r].op = "update" => h'[r].body = r
  /\ h'[r].op = "revert" =>
       \E v \in Req : revision[v] # Nil /\ h'[r].body = revision[v].body
  /\ h'[r].op \in {"update", "revert"} =>
       h'[r].gql \/ check_protection(h'[r].row.level, h'[r].user)
  /\ h'[r].op \in Ops
  /\ Serial => \A s \in Req : ~InFlight(s)
  /\ UNCHANGED <<tables, derived>>

\* A creation takes the request's own name for the page.  Either it is live,
\* and the page gets its first revision, or it is queued.
Creates(r) ==
  /\ h[r].pc = "idle"
  /\ \A s \in Req \ {r} : h'[s] = h[s]
  /\ h'[r].pc \in {"queue", "links", "index"} /\ h'[r].op = "create"
  /\ h'[r].page = r /\ h'[r].pend = Nil /\ h'[r].body = r
  /\ h'[r].pc = "links" <=> h'[r].pc # "queue" /\ ~h'[r].gql
  /\ h'[r].tags = Nil
  /\ Serial => \A s \in Req : ~InFlight(s)
  /\ \A p \in Req \ {r} : page'[p] = page[p]
  /\ \A s \in Req \ {r} : revision'[s] = revision[s]
  /\ page'[r] # Nil /\ page'[r].head \in {Nil, r} /\ page'[r].level = "None"
  /\ page'[r].head = r => revision'[r] # Nil
  /\ revision'[r] # revision[r] =>
       revision'[r].page = r /\ revision'[r].parent = Nil
  /\ h'[r].pc # "queue" =>
       /\ Live(h'[r].gql, h'[r].user)
       /\ page'[r].head = r
       /\ revision'[r].page = r /\ revision'[r].parent = Nil /\ revision'[r].body = r
  /\ h'[r].pc = "queue" => page'[r].head = Nil /\ revision'[r] = revision[r]
  /\ \E e : /\ audit' = Append(audit, e)
            /\ e.action = "create" /\ e.page = r /\ e.pend = Nil
            /\ e.rev = page'[r].head
  /\ UNCHANGED <<pending, derived>>

\* Admitting a request installs its record and touches no other's.
LEMMA BeginMoves ==
  ASSUME TypeInv, NEW r \in Req, NEW c, Begin(r, c)
  PROVE  /\ h[r].pc = "idle" /\ h'[r] = c /\ c.op \in Ops
         /\ Serial => \A s \in Req : ~InFlight(s)
         /\ \A s \in Req \ {r} : h'[s] = h[s]
  BY DEF TypeInv, WellFormed, Begin

\* Every admission is a creation or only reads.
LEMMA StartMoves ==
  ASSUME TypeInv, NEW r \in Req, Start(r)
  PROVE  Reads(r) \/ Creates(r)
  <1>1. ASSUME NEW u \in User, NEW slug \in Slug, NEW gql \in BOOLEAN,
               NEW labels \in BOOLEAN, Create(r, u, slug, gql, labels)
        PROVE  Creates(r)
    <2> DEFINE live == Live(gql, u)
               row == [slug |-> slug, head |-> Nil, level |-> "None"]
               pc == IF ~live THEN "queue" ELSE IF gql THEN "index" ELSE "links"
               ctx == [Idle EXCEPT !.pc = pc, !.gql = gql, !.user = u,
                         !.author = u, !.page = r, !.row = row, !.body = r,
                         !.labels = labels]
    <2>1. ctx.pc = pc /\ ctx.op = "create" /\ ctx.page = r /\ ctx.pend = Nil
          /\ ctx.row = row /\ ctx.body = r /\ ctx.tags = Nil
          /\ ctx.gql = gql /\ ctx.user = u
      <3> HIDE DEF pc, row
      <3> QED BY IdleIsContext DEF Context
    <2>2. Begin(r, ctx)
      BY <1>1 DEF Create
    <2>3. page' = [page EXCEPT ![r] = [row EXCEPT !.head = IF live THEN r ELSE Nil]]
      BY <1>1, <2>1 DEF Create
    <2>4. \/ live /\ revision' = [revision EXCEPT
                ![r] = [page |-> r, parent |-> Nil, author |-> u, body |-> r]]
          \/ ~live /\ revision' = revision
      BY <1>1 DEF Create
    <2>5. Log(Entry(ctx, IF live THEN r ELSE Nil, Nil, Nil))
      BY <1>1 DEF Create
    <2>6. UNCHANGED <<pending, derived>>
      BY <1>1 DEF Create
    <2>7. /\ pc \in {"queue", "links", "index"} /\ (pc = "queue" <=> ~live)
          /\ (pc = "links" <=> live /\ ~gql) /\ (live <=> Live(gql, u))
      OBVIOUS
    <2> HIDE DEF ctx, pc, live
    <2>8. /\ h[r].pc = "idle" /\ h'[r] = ctx
          /\ Serial => \A s \in Req : ~InFlight(s)
          /\ \A s \in Req \ {r} : h'[s] = h[s]
      BY <2>2, BeginMoves
    <2>9. /\ \A p \in Req \ {r} : page'[p] = page[p]
          /\ page'[r] \in PageRow
          /\ page'[r].head = IF live THEN r ELSE Nil
          /\ page'[r].level = "None"
      BY <2>3 DEF TypeInv, WellFormed, PageRow, Level
    <2>10. page'[r] # Nil
      BY <2>9, NilAssumption
    <2>11. /\ \A s \in Req \ {r} : revision'[s] = revision[s]
           /\ live => revision'[r] = [page |-> r, parent |-> Nil, author |-> u, body |-> r]
           /\ ~live => revision'[r] = revision[r]
      BY <2>4 DEF TypeInv, WellFormed
    <2>12. live => /\ revision'[r] # Nil /\ revision'[r].page = r
                   /\ revision'[r].parent = Nil /\ revision'[r].body = r
      <3>1. [page |-> r, parent |-> Nil, author |-> u, body |-> r] \in RevisionRow
        BY DEF RevisionRow
      <3>2. QED
        BY <2>11, <3>1, NilAssumption
    <2>13. \E e : /\ audit' = Append(audit, e)
                 /\ e.action = "create" /\ e.page = r /\ e.pend = Nil
                 /\ e.rev = page'[r].head
      BY <2>1, <2>5, <2>9 DEF Log, Entry
    <2>14. r # Nil
      BY NilAssumption
    <2>15. QED
      BY <2>1, <2>6, <2>7, <2>8, <2>9, <2>10, <2>11, <2>12, <2>13, <2>14 DEF Creates
  <1>2. ASSUME NEW u \in User, NEW p \in Req, NEW gql \in BOOLEAN,
               NEW labels \in BOOLEAN, ReadForUpdate(r, u, p, gql, labels)
        PROVE  Reads(r)
    <2> DEFINE row == page[p]
               ctx == [Idle EXCEPT !.pc = "commit", !.op = "update", !.gql = gql,
                         !.user = u, !.author = u, !.page = p, !.row = row,
                         !.body = r, !.labels = labels]
    <2>1. ctx.pc = "commit" /\ ctx.op = "update" /\ ctx.page = p /\ ctx.pend = Nil
          /\ ctx.row = row /\ ctx.body = r /\ ctx.gql = gql /\ ctx.user = u
      <3> HIDE DEF row
      <3> QED BY IdleIsContext DEF Context
    <2>2. Begin(r, ctx) /\ page[p] # Nil /\ UNCHANGED <<tables, derived>>
          /\ (gql \/ check_protection(page[p].level, u))
      BY <1>2 DEF ReadForUpdate
    <2> HIDE DEF ctx
    <2>3. QED
      BY <2>1, <2>2, BeginMoves DEF Reads
  <1>3. ASSUME NEW u \in User, NEW p \in Req, NEW gql \in BOOLEAN,
               ReadForDelete(r, u, p, gql)
        PROVE  Reads(r)
    <2> DEFINE row == page[p]
               ctx == [Idle EXCEPT !.pc = "commit", !.op = "delete", !.gql = gql,
                         !.user = u, !.page = p, !.row = row]
    <2>1. ctx.pc = "commit" /\ ctx.op = "delete" /\ ctx.page = p /\ ctx.pend = Nil
          /\ ctx.row = row
      <3> HIDE DEF row
      <3> QED BY IdleIsContext DEF Context
    <2>2. Begin(r, ctx) /\ page[p] # Nil /\ UNCHANGED <<tables, derived>>
      BY <1>3 DEF ReadForDelete
    <2> HIDE DEF ctx
    <2>3. QED
      BY <2>1, <2>2, BeginMoves DEF Reads
  <1>4. ASSUME NEW u \in User, NEW p \in Req, NEW gql \in BOOLEAN, NEW v \in Req,
               ReadForRevert(r, u, p, gql, v)
        PROVE  Reads(r)
    <2> DEFINE row == page[p]
               text == revision[v].body
               ctx == [Idle EXCEPT !.pc = "commit", !.op = "revert", !.gql = gql,
                         !.user = u, !.author = u, !.page = p, !.row = row,
                         !.body = text]
    <2>1. ctx.pc = "commit" /\ ctx.op = "revert" /\ ctx.page = p /\ ctx.pend = Nil
          /\ ctx.row = row /\ ctx.body = text /\ ctx.gql = gql /\ ctx.user = u
      <3> HIDE DEF row, text
      <3> QED BY IdleIsContext DEF Context
    <2>2. Begin(r, ctx) /\ page[p] # Nil /\ UNCHANGED <<tables, derived>>
          /\ (gql \/ check_protection(page[p].level, u)) /\ revision[v] # Nil
      BY <1>4 DEF ReadForRevert
    <2> HIDE DEF ctx
    <2>3. QED
      BY <2>1, <2>2, BeginMoves DEF Reads
  <1>5. ASSUME NEW u \in User, NEW p \in Req, NEW level \in Level,
               ReadForProtect(r, u, p, level)
        PROVE  Reads(r)
    <2> DEFINE row == page[p]
               ctx == [Idle EXCEPT !.pc = "commit", !.op = "protect", !.user = u,
                         !.page = p, !.row = row, !.level = level]
    <2>1. ctx.pc = "commit" /\ ctx.op = "protect" /\ ctx.page = p /\ ctx.pend = Nil
          /\ ctx.row = row
      <3> HIDE DEF row
      <3> QED BY IdleIsContext DEF Context
    <2>2. Begin(r, ctx) /\ page[p] # Nil /\ UNCHANGED <<tables, derived>>
      BY <1>5 DEF ReadForProtect
    <2> HIDE DEF ctx
    <2>3. QED
      BY <2>1, <2>2, BeginMoves DEF Reads
  <1>6. ASSUME NEW u \in User, NEW q \in Req, ReadForApprove(r, u, q)
        PROVE  Reads(r)
    <2> DEFINE p == pending[q].page
               a == pending[q].author
               row == page[p]
               ctx == [Idle EXCEPT !.pc = "decide", !.op = "approve", !.user = u,
                         !.author = a, !.page = p, !.row = row, !.body = q,
                         !.pend = q]
    <2>1. ctx.pc = "decide" /\ ctx.op = "approve" /\ ctx.page = p /\ ctx.pend = q
          /\ ctx.row = row /\ ctx.user = u /\ ctx.body = q
      <3> HIDE DEF row, a, p
      <3> QED BY IdleIsContext DEF Context
    <2>2. Begin(r, ctx) /\ page[p] # Nil /\ UNCHANGED <<tables, derived>>
          /\ Undecided(q) /\ pending[q].author # u
      BY <1>6 DEF ReadForApprove, Reviewable, Undecided
    <2> HIDE DEF ctx
    <2>3. QED
      BY <2>1, <2>2, BeginMoves DEF Reads
  <1>7. ASSUME NEW u \in User, NEW q \in Req, ReadForReject(r, u, q)
        PROVE  Reads(r)
    <2> DEFINE p == pending[q].page
               ctx == [Idle EXCEPT !.pc = "decide", !.op = "reject", !.user = u,
                         !.page = p, !.pend = q]
    <2>1. ctx.pc = "decide" /\ ctx.op = "reject" /\ ctx.page = p /\ ctx.pend = q
          /\ ctx.user = u
      <3> HIDE DEF p
      <3> QED BY IdleIsContext DEF Context
    <2>2. Begin(r, ctx) /\ UNCHANGED <<tables, derived>>
          /\ Undecided(q) /\ pending[q].author # u
      BY <1>7 DEF ReadForReject, Reviewable, Undecided
    <2> HIDE DEF ctx
    <2>3. QED
      BY <2>1, <2>2, BeginMoves DEF Reads
  <1>8. QED
    BY <1>1, <1>2, <1>3, <1>4, <1>5, <1>6, <1>7, ParameterAssumption
       DEF Start, Rest, MutationRoot, createPage, updatePage, deletePage, revertPage


-----------------------------------------------------------------------------
(* What a step may do to the queue and to the log.                          *)

Verdict(op) == IF op = "approve" THEN "approved" ELSE "rejected"

\* A row of the queue after a step of handler r: as before, or queued by r,
\* or undecided before and decided by r.
QueueFrame(r, q) ==
  \/ pending'[q] = pending[q]
  \/ /\ q = r /\ h[r].pc = "queue" /\ pending'[q].page = h[r].page
     /\ pending'[q].status = "pending"
  \/ /\ h[r].pc = "decide" /\ q = h[r].pend /\ Undecided(q)
     /\ h'[r].pc \in {"commit", "log"}
     /\ pending'[q].status = Verdict(h[r].op)
     /\ pending'[q].reviewer = h[r].user
     /\ pending'[q].author = pending[q].author
     /\ pending'[q].page = pending[q].page

\* The log after a step of handler r: as before, or with one more entry of
\* r's, which names a decision only if r has just carried it out.
LogFrame(r) ==
  \/ UNCHANGED audit
  \/ \E e : /\ audit' = Append(audit, e)
            /\ e.action = h[r].op /\ e.actor = h[r].user
            /\ \/ e.pend = Nil /\ e.action # "approve"
               \/ /\ e.pend = h[r].pend
                  /\ h[r].pc \in {"commit", "log"}
                  /\ h'[r].pc \notin {"commit", "log"}

\* Every step of a handler stays within both frames.
LEMMA StepFrame ==
  ASSUME TypeInv, NEW r \in Req, Step(r) \/ Lose(r)
  PROVE  LogFrame(r) /\ \A q \in Req : pending'[q] # Nil => QueueFrame(r, q)
  <1> USE DEF TypeInv, WellFormed
  <1>0. CASE UNCHANGED <<pending, audit>>
    BY <1>0 DEF LogFrame, QueueFrame
  <1>f. Fail(r) => UNCHANGED <<pending, audit>>
    BY DEF Fail, tables
  <1>1. CASE CommitLive(r)
    <2>1. CASE CommitRevision(r)
               /\ Goto(r, IF h[r].op = "revert" \/ h[r].gql THEN "index" ELSE "links")
      <3>1. UNCHANGED pending /\ audit' = Append(audit, Entry(h[r], r, h[r].pend, Nil))
        BY <2>1 DEF CommitRevision, Log
      <3>2. h'[r].pc \in {"index", "links"} /\ h[r].pc = "commit"
        BY <1>1, <2>1, GotoMoves DEF CommitLive
      <3>3. QED
        BY <3>1, <3>2 DEF LogFrame, QueueFrame, Entry
    <2>2. QED
      BY <1>0, <1>f, <1>1, <2>1 DEF CommitLive
  <1>2. CASE CommitQueued(r)
    BY <1>2 DEF CommitQueued, LogFrame, QueueFrame, Log, Entry
  <1>3. CASE CommitProtect(r)
    <2>1. CASE ~Fail(r)
      BY <1>3, <2>1 DEF CommitProtect, LogFrame, QueueFrame, Log, Entry
    <2>2. QED
      BY <1>0, <1>f, <2>1
  <1>4. CASE CommitDelete(r)
    <2>1. CASE ~Fail(r)
      <3>1. \A q \in Req : pending'[q] # Nil => pending'[q] = pending[q]
        BY <1>4, <2>1 DEF CommitDelete
      <3>2. LogFrame(r)
        BY <1>4, <2>1 DEF CommitDelete, LogFrame, Log, Entry
      <3>3. QED
        BY <3>1, <3>2 DEF QueueFrame
    <2>2. QED
      BY <1>0, <1>f, <2>1
  <1>5. CASE PersistPending(r)
    <2>1. CASE ~Fail(r)
      BY <1>5, <2>1 DEF PersistPending, LogFrame, QueueFrame
    <2>2. QED
      BY <1>0, <1>f, <2>1
  <1>6. CASE Decide(r)
    <2>1. CASE ~Fail(r)
      <3>1. h[r].pend \in Req /\ pending[h[r].pend] \in PendingRow
        BY <1>6, <2>1 DEF Decide, Undecided, Shape
      <3>2. UNCHANGED audit /\ Undecided(h[r].pend) /\ h[r].pc = "decide"
            /\ pending' = [pending EXCEPT ![h[r].pend].status = Verdict(h[r].op),
                                          ![h[r].pend].reviewer = h[r].user]
        BY <1>6, <2>1 DEF Decide, Verdict
      <3>3. h'[r].pc \in {"commit", "log"}
        BY <1>6, <2>1, GotoMoves DEF Decide
      <3>4. \A q \in Req \ {h[r].pend} : pending'[q] = pending[q]
        BY <3>2
      <3>5. /\ pending'[h[r].pend].status = Verdict(h[r].op)
            /\ pending'[h[r].pend].reviewer = h[r].user
            /\ pending'[h[r].pend].author = pending[h[r].pend].author
            /\ pending'[h[r].pend].page = pending[h[r].pend].page
        BY <3>1, <3>2 DEF PendingRow
      <3>6. QED
        BY <3>2, <3>3, <3>4, <3>5 DEF LogFrame, QueueFrame
    <2>2. QED
      BY <1>0, <1>f, <2>1
  <1>7. CASE LogRejection(r)
    <2>1. CASE ~Fail(r)
      <3>1. h'[r].pc = "done"
        BY <1>7, <2>1, GotoMoves DEF LogRejection
      <3>2. QED
        BY <1>7, <2>1, <3>1 DEF LogRejection, LogFrame, QueueFrame, Log, Entry
    <2>2. QED
      BY <1>0, <1>f, <2>1
  <1>8. CASE RefreshLinks(r) \/ ReplaceCategories(r) \/ SettleTags(r) \/ Index(r)
    BY <1>0, <1>f, <1>8
       DEF RefreshLinks, ReplaceCategories, SettleTags, Index, tables
  <1>9. CASE Lose(r)
    BY <1>0, <1>f, <1>9 DEF Lose
  <1>10. QED
    BY <1>1, <1>2, <1>3, <1>4, <1>5, <1>6, <1>7, <1>8, <1>9 DEF Step

-----------------------------------------------------------------------------
(* The inductive invariant.  LogAgreesWithQueue is not inductive: that a    *)
(* later entry agrees follows from what the handler that will write it has  *)
(* decided, and that a decided row does not come back after a deletion from *)
(* the request that queued it being over.                                   *)

\* Handler r has decided and not yet logged its decision.
Deciding(r) == h[r].pc \in {"commit", "log"} /\ h[r].op \in {"approve", "reject"}

\* A request whose edit is in the queue, under review or in the log is over.
ProposersAreDone ==
  /\ \A q \in Req : pending[q] # Nil => h[q].pc = "done"
  /\ \A r \in Req : h[r].pc # "idle" /\ h[r].pend # Nil =>
       /\ h[r].op \in {"approve", "reject"}
       /\ h[r].pend \in Req /\ h[h[r].pend].pc = "done"
  /\ \A e \in Entries : e.pend # Nil => e.pend \in Req /\ h[e.pend].pc = "done"

\* Reviewers decide edits of others, and what they decided is in the queue.
DecisionsHold ==
  /\ \A r \in Req : h[r].pc = "decide" =>
       pending[h[r].pend] = Nil \/ pending[h[r].pend].author # h[r].user
  /\ \A r \in Req : Deciding(r) =>
       \/ pending[h[r].pend] = Nil
       \/ /\ pending[h[r].pend].status = Verdict(h[r].op)
          /\ pending[h[r].pend].reviewer = h[r].user
          /\ pending[h[r].pend].author # h[r].user

\* One handler carries a decision out, and nobody has logged it before.
DecidedOnce ==
  /\ \A r, s \in Req : Deciding(r) /\ Deciding(s) /\ h[r].pend = h[s].pend => r = s
  /\ \A r \in Req : Deciding(r) => \A e \in Entries : e.pend # h[r].pend

QueueInv ==
  /\ ProposersAreDone
  /\ DecisionsHold
  /\ DecidedOnce
  /\ LogAgreesWithQueue
  /\ PublishedAtMostOnce

\* The entries of a log with one more entry.
LEMMA EntriesOfAppend ==
  ASSUME TypeInv, NEW e, audit' = Append(audit, e)
  PROVE  /\ Entries' = Entries \cup {e}
         /\ Len(audit') = Len(audit) + 1
         /\ Len(audit) \in Nat
         /\ audit'[Len(audit) + 1] = e
         /\ \A i \in 1 .. Len(audit) : audit'[i] = audit[i]
  BY DEF Entries, TypeInv, WellFormed

\* Initially the queue and the log are empty.
LEMMA QueueInit == Init => QueueInv
  <1> SUFFICES ASSUME Init PROVE QueueInv
    OBVIOUS
  <1>1. Entries = {} /\ Len(audit) = 0
    BY DEF Init, Entries
  <1>2. \A r \in Req : h[r] = Idle /\ h[r].pc = "idle" /\ pending[r] = Nil
    BY IdleIsContext DEF Init
  <1>3. QED
    BY <1>1, <1>2 DEF QueueInv, ProposersAreDone, DecisionsHold, DecidedOnce,
       Deciding, LogAgreesWithQueue, PublishedAtMostOnce

\* Requests that are over stay over.
LEMMA ProposersStep ==
  ASSUME TypeInv, ProposersAreDone, NEW r \in Req, Step(r) \/ Lose(r)
  PROVE  ProposersAreDone'
  <1>1. /\ InFlight(r) /\ h'[r].pc # "idle" /\ h'[r].pend = h[r].pend
        /\ h'[r].op = h[r].op /\ \A s \in Req \ {r} : h'[s] = h[s]
    BY StepMoves DEF Kept
  <1>2. \A q \in Req : h[q].pc = "done" => h'[q].pc = "done"
    BY <1>1 DEF InFlight
  <1>3. LogFrame(r) /\ \A q \in Req : pending'[q] # Nil => QueueFrame(r, q)
    BY StepFrame
  <1>4. \A q \in Req : pending'[q] # Nil => h'[q].pc = "done"
    <2> SUFFICES ASSUME NEW q \in Req, pending'[q] # Nil PROVE h'[q].pc = "done"
      OBVIOUS
    <2>1. CASE pending[q] # Nil
      BY <1>2, <2>1 DEF ProposersAreDone
    <2>2. CASE pending[q] = Nil
      <3>1. q = r /\ h[r].pc = "queue"
        BY <1>3, <2>2 DEF QueueFrame, Undecided
      <3>2. PersistPending(r) \/ Fail(r)
        BY <3>1 DEF Step, Lose, CommitLive, CommitQueued, CommitProtect, CommitDelete,
           Decide, LogRejection, RefreshLinks, ReplaceCategories, SettleTags, Index
      <3>3. Goto(r, "done")
        BY <3>2 DEF PersistPending, Fail
      <3>4. QED
        BY <3>1, <3>3, GotoMoves
    <2>3. QED
      BY <2>1, <2>2
  <1>5. \A s \in Req : h'[s].pc # "idle" /\ h'[s].pend # Nil =>
          /\ h'[s].op \in {"approve", "reject"}
          /\ h'[s].pend \in Req /\ h'[h'[s].pend].pc = "done"
    BY <1>1, <1>2 DEF ProposersAreDone, InFlight
  <1>6. \A e \in Entries' : e.pend # Nil => e.pend \in Req /\ h'[e.pend].pc = "done"
    <2>1. CASE UNCHANGED audit
      BY <1>2, <2>1 DEF ProposersAreDone, Entries
    <2>2. CASE \E e : audit' = Append(audit, e) /\ e.pend \in {Nil, h[r].pend}
      <3>1. PICK e : audit' = Append(audit, e) /\ e.pend \in {Nil, h[r].pend}
        BY <2>2
      <3>2. Entries' = Entries \cup {e}
        BY <3>1, EntriesOfAppend
      <3>3. QED
        BY <1>1, <1>2, <3>1, <3>2 DEF ProposersAreDone, InFlight
    <2>3. QED
      BY <1>3, <2>1, <2>2 DEF LogFrame
  <1>7. QED
    BY <1>4, <1>5, <1>6 DEF ProposersAreDone

\* A handler that decides finds the row undecided; one that has decided
\* keeps its decision until it has logged it.
LEMMA DecidingMoves ==
  ASSUME TypeInv, NEW r \in Req, Step(r) \/ Lose(r), NEW s \in Req, Deciding(s)'
  PROVE  /\ h'[s].pend = h[s].pend /\ h'[s].op = h[s].op /\ h'[s].user = h[s].user
         /\ \/ Deciding(s)
            \/ s = r /\ h[r].pc = "decide" /\ Undecided(h[r].pend)
               /\ pending'[h[r].pend].status = Verdict(h[r].op)
               /\ pending'[h[r].pend].reviewer = h[r].user
               /\ pending'[h[r].pend].author = pending[h[r].pend].author
               /\ UNCHANGED audit
  <1>1. /\ InFlight(r) /\ Kept(r)
        /\ \A t \in Req \ {r} : h'[t] = h[t]
    BY StepMoves
  <1>2. CASE s # r
    BY <1>1, <1>2 DEF Deciding
  <1>3. CASE s = r /\ Deciding(r)
    BY <1>1, <1>3 DEF Kept
  <1>4. CASE s = r /\ ~Deciding(r)
    <2>1. h'[r].pc \in {"commit", "log"} /\ h[r].pc \notin {"commit", "log"}
          /\ h[r].op \in {"approve", "reject"}
      BY <1>1, <1>4 DEF Deciding, Kept
    <2>2. ~Goto(r, "done") /\ ~Goto(r, "index") /\ ~Goto(r, "links")
          /\ ~Goto(r, "queue") /\ ~Goto(r, "tags") /\ ~Goto(r, "categories")
      BY <2>1, GotoMoves
    <2>3. Decide(r) /\ ~Fail(r)
      <3>1. h[r].pc # "tags" \/ ~SettleTags(r)
        <4> SUFFICES ASSUME h[r].pc = "tags" PROVE FALSE
          BY DEF SettleTags
        <4>1. Shape(h[r])
          BY DEF TypeInv
        <4>2. h[r].op = "approve"
          BY <4>1, <2>1 DEF Shape, Publishing
        <4>3. SettleTags(r) \/ Fail(r)
          BY DEF Step, Lose, CommitLive, CommitQueued, CommitProtect, CommitDelete,
             PersistPending, Decide, LogRejection, RefreshLinks, ReplaceCategories, Index
        <4>4. PICK t : h' = [h EXCEPT ![r].pc = "index", ![r].tags = t]
          BY <4>3, <2>2 DEF SettleTags, Fail
        <4>5. h'[r].pc = "index"
          BY <4>4 DEF TypeInv, WellFormed, Context
        <4>6. QED
          BY <4>5, <2>1
      <3>2. QED
        BY <2>1, <2>2, <3>1 DEF Step, Lose, Fail, CommitLive, CommitQueued,
           CommitProtect, CommitDelete, PersistPending, LogRejection,
           RefreshLinks, ReplaceCategories, SettleTags, Index
    <2>4. h[r].pend \in Req /\ pending[h[r].pend] \in PendingRow
          /\ h[r].pc = "decide" /\ Undecided(h[r].pend) /\ UNCHANGED audit
          /\ pending' = [pending EXCEPT ![h[r].pend].status = Verdict(h[r].op),
                                        ![h[r].pend].reviewer = h[r].user]
      BY <2>3 DEF Decide, Undecided, TypeInv, WellFormed, Shape, Verdict
    <2>5. /\ pending'[h[r].pend].status = Verdict(h[r].op)
          /\ pending'[h[r].pend].reviewer = h[r].user
          /\ pending'[h[r].pend].author = pending[h[r].pend].author
      BY <2>4 DEF TypeInv, WellFormed, PendingRow
    <2>6. QED
      BY <1>1, <1>4, <2>4, <2>5 DEF Kept
  <1>5. QED
    BY <1>2, <1>3, <1>4

\* What a reviewer has decided stays in the queue until the page goes.
LEMMA DecisionsStep ==
  ASSUME TypeInv, QueueInv, NEW r \in Req, Step(r) \/ Lose(r)
  PROVE  DecisionsHold'
  <1>1. /\ InFlight(r) /\ Kept(r) /\ h'[r].pc # "decide"
        /\ \A s \in Req \ {r} : h'[s] = h[s]
    BY StepMoves
  <1>2. \A q \in Req : pending'[q] # Nil => QueueFrame(r, q)
    BY StepFrame
  <1>3. \A s \in Req : h[s].pc # "idle" /\ h[s].pend # Nil =>
          h[s].pend \in Req /\ h[h[s].pend].pc = "done"
    BY DEF QueueInv, ProposersAreDone
  <1>4. \A s \in Req : h[s].pc \in {"commit", "decide", "log"} /\ h[s].op \in {"approve", "reject"}
          => h[s].pend \in Req /\ h[s].pend # Nil
    BY NilAssumption DEF TypeInv, Shape
  <1>5. \A s \in Req : h[s].pc = "decide" => h[s].op \in {"approve", "reject"}
    BY DEF TypeInv, Shape
  <1>6. ASSUME NEW s \in Req, h'[s].pc = "decide"
        PROVE  pending'[h'[s].pend] = Nil \/ pending'[h'[s].pend].author # h'[s].user
    <2>1. s # r /\ h'[s] = h[s] /\ h[s].pc = "decide"
      BY <1>1, <1>6
    <2> DEFINE q == h[s].pend
    <2>2. q \in Req /\ h[q].pc = "done" /\ (pending[q] = Nil \/ pending[q].author # h[s].user)
      BY <1>3, <1>4, <1>5, <2>1 DEF QueueInv, DecisionsHold
    <2>3. pending'[q] # Nil => pending[q] # Nil /\ pending'[q].author = pending[q].author
      BY <1>2, <2>2 DEF QueueFrame, Undecided
    <2>4. QED
      BY <2>1, <2>2, <2>3
  <1>7. ASSUME NEW s \in Req, Deciding(s)'
        PROVE  \/ pending'[h'[s].pend] = Nil
               \/ /\ pending'[h'[s].pend].status = Verdict(h'[s].op)
                  /\ pending'[h'[s].pend].reviewer = h'[s].user
                  /\ pending'[h'[s].pend].author # h'[s].user
    <2> DEFINE q == h[s].pend
    <2>1. h'[s].pend = q /\ h'[s].op = h[s].op /\ h'[s].user = h[s].user
      BY <1>7, DecidingMoves
    <2>2. CASE Deciding(s)
      <3>1. q \in Req /\ h[q].pc = "done"
        BY <1>3, <1>4, <2>2 DEF Deciding
      <3>2. \/ pending[q] = Nil
            \/ /\ pending[q].status = Verdict(h[s].op)
               /\ pending[q].reviewer = h[s].user
               /\ pending[q].author # h[s].user
        BY <2>2 DEF QueueInv, DecisionsHold
      <3>3. pending'[q] # Nil => pending'[q] = pending[q]
        <4>1. ~(Undecided(q) /\ pending[q].status = Verdict(h[s].op))
          BY DEF Undecided, Verdict
        <4>2. QED
          BY <1>2, <3>1, <3>2, <4>1 DEF QueueFrame, Undecided
      <3>4. QED
        BY <2>1, <3>2, <3>3
    <2>3. CASE ~Deciding(s)
      <3>1. s = r /\ h[r].pc = "decide" /\ Undecided(q)
            /\ pending'[q].status = Verdict(h[r].op)
            /\ pending'[q].reviewer = h[r].user
            /\ pending'[q].author = pending[q].author
        BY <1>7, <2>3, DecidingMoves
      <3>2. pending[q].author # h[r].user
        BY <3>1 DEF QueueInv, DecisionsHold, Undecided
      <3>3. QED
        BY <2>1, <3>1, <3>2
    <2>4. QED
      BY <2>2, <2>3
  <1>8. QED
    BY <1>6, <1>7 DEF DecisionsHold

\* A handler that has just logged its decision has nothing left to log.
LEMMA LoggedIsOver ==
  ASSUME TypeInv, NEW r \in Req, Step(r) \/ Lose(r),
         NEW e, audit' = Append(audit, e), e.pend # Nil
  PROVE  /\ e.pend = h[r].pend /\ e.action = h[r].op /\ e.actor = h[r].user
         /\ h[r].pc \in {"commit", "log"} /\ ~Deciding(r)'
  <1>1. Len(audit') = Len(audit) + 1 /\ Len(audit) \in Nat /\ audit'[Len(audit) + 1] = e
    BY EntriesOfAppend
  <1>2. audit' # audit
    BY <1>1
  <1>3. PICK f : /\ audit' = Append(audit, f)
                 /\ f.action = h[r].op /\ f.actor = h[r].user
                 /\ \/ f.pend = Nil
                    \/ /\ f.pend = h[r].pend
                       /\ h[r].pc \in {"commit", "log"}
                       /\ h'[r].pc \notin {"commit", "log"}
    BY <1>2, StepFrame DEF LogFrame
  <1>4. f = e
    BY <1>1, <1>3, EntriesOfAppend
  <1>5. QED
    BY <1>3, <1>4 DEF Deciding

\* The log never calls an entry an approval without naming the edit.
LEMMA ApproveNamesEdit ==
  ASSUME TypeInv, NEW r \in Req, Step(r) \/ Lose(r),
         NEW e, audit' = Append(audit, e), e.action = "approve"
  PROVE  e.pend # Nil
  <1>1. Len(audit') = Len(audit) + 1 /\ Len(audit) \in Nat /\ audit'[Len(audit) + 1] = e
    BY EntriesOfAppend
  <1>2. PICK f : /\ audit' = Append(audit, f) /\ f.action = h[r].op
                 /\ \/ f.pend = Nil /\ f.action # "approve"
                    \/ f.pend = h[r].pend /\ h[r].pc \in {"commit", "log"}
    BY <1>1, StepFrame DEF LogFrame
  <1>3. f = e
    BY <1>1, <1>2, EntriesOfAppend
  <1>4. h[r].pc \in {"commit", "log"} /\ h[r].op = "approve" => h[r].pend \in Req
    BY DEF TypeInv, Shape
  <1>5. QED
    BY <1>2, <1>3, <1>4, NilAssumption

\* No second handler carries the same decision out, and none repeats it.
LEMMA OnceStep ==
  ASSUME TypeInv, QueueInv, NEW r \in Req, Step(r) \/ Lose(r)
  PROVE  DecidedOnce'
  <1>1. \A s \in Req : Deciding(s) =>
          h[s].pend \in Req /\ (Undecided(h[s].pend) => FALSE)
    BY NilAssumption
       DEF QueueInv, DecisionsHold, Deciding, Undecided, Verdict, TypeInv, Shape
  <1>2. ASSUME NEW s \in Req, NEW t \in Req, Deciding(s)', Deciding(t)',
               h'[s].pend = h'[t].pend
        PROVE  s = t
    <2>1. h'[s].pend = h[s].pend /\ h'[t].pend = h[t].pend
      BY <1>2, DecidingMoves
    <2>2. Deciding(s) \/ (s = r /\ Undecided(h[r].pend))
      BY <1>2, DecidingMoves
    <2>3. Deciding(t) \/ (t = r /\ Undecided(h[r].pend))
      BY <1>2, DecidingMoves
    <2>4. QED
      BY <1>1, <1>2, <2>1, <2>2, <2>3 DEF QueueInv, DecidedOnce
  <1>3. ASSUME NEW s \in Req, Deciding(s)', NEW e \in Entries'
        PROVE  e.pend # h'[s].pend
    <2>1. h'[s].pend = h[s].pend
      BY <1>3, DecidingMoves
    <2>2. h[s].pend \in Req /\ h[s].pend # Nil
      <3>1. h'[s].pc \in {"commit", "log"} /\ h'[s].op \in {"approve", "reject"}
        BY <1>3 DEF Deciding
      <3>2. TypeInv'
        BY StepType, NextType DEF Next
      <3>3. QED
        BY <2>1, <3>1, <3>2, NilAssumption DEF TypeInv, Shape
    <2>3. CASE e \in Entries
      <3>1. CASE Deciding(s)
        BY <2>1, <2>3, <3>1 DEF QueueInv, DecidedOnce
      <3>2. CASE ~Deciding(s)
        <4>1. s = r /\ Undecided(h[s].pend)
          BY <1>3, <3>2, DecidingMoves
        <4>2. QED
          BY <2>1, <2>2, <2>3, <4>1 DEF QueueInv, LogAgreesWithQueue, Undecided
      <3>3. QED
        BY <3>1, <3>2
    <2>4. CASE e \notin Entries
      <3>1. PICK f : audit' = Append(audit, f)
        BY <1>3, <2>4, StepFrame DEF LogFrame, Entries
      <3>2. e = f
        BY <1>3, <2>4, <3>1, EntriesOfAppend
      <3>3. CASE e.pend = Nil
        BY <2>1, <2>2, <3>3
      <3>4. CASE e.pend # Nil
        <4>1. e.pend = h[r].pend /\ h[r].pc \in {"commit", "log"} /\ ~Deciding(r)'
          BY <3>1, <3>2, <3>4, LoggedIsOver
        <4>2. s # r
          BY <1>3, <4>1
        <4>3. Deciding(s)
          BY <1>3, <4>2, DecidingMoves
        <4>4. CASE Deciding(r)
          BY <2>1, <4>1, <4>2, <4>3, <4>4 DEF QueueInv, DecidedOnce
        <4>5. CASE ~Deciding(r)
          BY <3>4, <4>1, <4>5 DEF QueueInv, ProposersAreDone, Deciding
        <4>6. QED
          BY <4>4, <4>5
      <3>5. QED
        BY <3>3, <3>4
    <2>5. QED
      BY <2>3, <2>4
  <1>4. QED
    BY <1>2, <1>3 DEF DecidedOnce

\* What the log says of a row stays what the queue says of it.
LEMMA AgreesStep ==
  ASSUME TypeInv, QueueInv, NEW r \in Req, Step(r) \/ Lose(r)
  PROVE  LogAgreesWithQueue'
  <1>1. \A q \in Req : pending'[q] # Nil => QueueFrame(r, q)
    BY StepFrame
  <1>2. ASSUME NEW e \in Entries, e.pend # Nil, pending'[e.pend] # Nil
        PROVE  /\ pending'[e.pend] = pending[e.pend] /\ pending[e.pend] # Nil
    <2>1. e.pend \in Req /\ h[e.pend].pc = "done"
      BY <1>2 DEF QueueInv, ProposersAreDone
    <2>2. ~Undecided(e.pend)
      BY <1>2 DEF QueueInv, LogAgreesWithQueue, Undecided
    <2>3. QED
      BY <1>1, <1>2, <2>1, <2>2 DEF QueueFrame
  <1>3. ASSUME NEW e, audit' = Append(audit, e), e.pend # Nil, pending'[e.pend] # Nil
        PROVE  /\ pending'[e.pend].status = Verdict(e.action)
               /\ pending'[e.pend].reviewer = e.actor
               /\ pending'[e.pend].author # e.actor
    <2>1. e.pend = h[r].pend /\ e.action = h[r].op /\ e.actor = h[r].user
          /\ h[r].pc \in {"commit", "log"}
      BY <1>3, LoggedIsOver
    <2>2. Deciding(r) /\ h[r].pend \in Req /\ h[h[r].pend].pc = "done"
      BY <1>3, <2>1 DEF QueueInv, ProposersAreDone, Deciding
    <2>3. pending'[h[r].pend] = pending[h[r].pend]
      BY <1>1, <1>3, <2>1, <2>2 DEF QueueFrame
    <2>4. QED
      BY <1>3, <2>1, <2>2, <2>3 DEF QueueInv, DecisionsHold
  <1>4. ASSUME NEW e \in Entries', e.pend # Nil, pending'[e.pend] # Nil
        PROVE  /\ pending'[e.pend].status = Verdict(e.action)
               /\ pending'[e.pend].reviewer = e.actor
               /\ pending'[e.pend].author # e.actor
    <2>1. CASE e \in Entries
      BY <1>2, <1>4, <2>1 DEF QueueInv, LogAgreesWithQueue, Verdict
    <2>2. CASE e \notin Entries
      <3>1. PICK f : audit' = Append(audit, f)
        BY <1>4, <2>2, StepFrame DEF LogFrame, Entries
      <3>2. e = f
        BY <1>4, <2>2, <3>1, EntriesOfAppend
      <3>3. QED
        BY <1>3, <1>4, <3>1, <3>2
    <2>3. QED
      BY <2>1, <2>2
  <1>5. QED
    BY <1>4 DEF LogAgreesWithQueue, Verdict

\* A second publication of an edit is never logged.
LEMMA PublishedStep ==
  ASSUME TypeInv, QueueInv, NEW r \in Req, Step(r) \/ Lose(r)
  PROVE  PublishedAtMostOnce'
  <1>1. CASE UNCHANGED audit
    BY <1>1 DEF QueueInv, PublishedAtMostOnce
  <1>2. ASSUME NEW e, audit' = Append(audit, e)
        PROVE  PublishedAtMostOnce'
    <2> DEFINE n == Len(audit)
    <2>1. /\ Len(audit') = n + 1 /\ n \in Nat /\ audit'[n + 1] = e
          /\ \A i \in 1 .. n : audit'[i] = audit[i] /\ audit[i] \in Entries
      BY <1>2, EntriesOfAppend DEF Entries
    <2>2. e.action = "approve" => e.pend # Nil
      BY <1>2, ApproveNamesEdit
    <2>3. ASSUME e.action = "approve", NEW i \in 1 .. n
          PROVE  audit[i].pend # e.pend
      <3>1. e.pend = h[r].pend /\ e.action = h[r].op /\ h[r].pc \in {"commit", "log"}
        BY <1>2, <2>2, <2>3, LoggedIsOver
      <3>2. Deciding(r)
        BY <2>3, <3>1 DEF Deciding
      <3>3. QED
        BY <2>1, <3>1, <3>2 DEF QueueInv, DecidedOnce
    <2> HIDE DEF n
    <2>4. ASSUME NEW i \in 1 .. n + 1, NEW j \in 1 .. n + 1,
                 audit'[i].action = "approve", audit'[j].action = "approve",
                 audit'[i].pend = audit'[j].pend
          PROVE  i = j
      <3>1. CASE i \in 1 .. n /\ j \in 1 .. n
        BY <2>1, <2>4, <3>1 DEF QueueInv, PublishedAtMostOnce, n
      <3>2. CASE i = n + 1 /\ j \in 1 .. n
        BY <2>1, <2>3, <2>4, <3>2
      <3>3. CASE j = n + 1 /\ i \in 1 .. n
        BY <2>1, <2>3, <2>4, <3>3
      <3>4. QED
        BY <2>1, <3>1, <3>2, <3>3
    <2>5. QED
      BY <2>1, <2>4 DEF PublishedAtMostOnce
  <1>3. QED
    BY <1>1, <1>2, StepFrame DEF LogFrame

\* Every admission keeps the invariant: a creation adds an entry that decides
\* nothing, and a reviewer opens an undecided edit of somebody else's.
LEMMA QueueStart ==
  ASSUME TypeInv, QueueInv, NEW r \in Req, Start(r)
  PROVE  QueueInv'
  <1>1. Reads(r) \/ Creates(r)
    BY StartMoves
  <1>2. h[r].pc = "idle" /\ (\A s \in Req \ {r} : h'[s] = h[s]) /\ UNCHANGED pending
    BY <1>1 DEF Reads, Creates, tables
  <1>3. ~Deciding(r)'
    BY <1>1 DEF Reads, Creates, Deciding
  <1>4. \A q \in Req : h[q].pc = "done" => h'[q] = h[q]
    BY <1>2
  <1>5. \/ UNCHANGED audit
        \/ \E e : audit' = Append(audit, e) /\ e.action = "create" /\ e.pend = Nil
    BY <1>1 DEF Reads, Creates, tables
  <1>6. \A e \in Entries' : e \in Entries \/ (e.action = "create" /\ e.pend = Nil)
    <2>1. CASE UNCHANGED audit
      BY <2>1 DEF Entries
    <2>2. CASE ~UNCHANGED audit
      BY <1>5, <2>2, EntriesOfAppend
    <2>3. QED
      BY <2>1, <2>2
  <1>7. ProposersAreDone'
    <2>1. h'[r].pend # Nil =>
            h'[r].op \in {"approve", "reject"} /\ h'[r].pend \in Req /\ pending[h'[r].pend] # Nil
      BY <1>1 DEF Reads, Creates, Undecided
    <2>2. QED
      BY <1>2, <1>4, <1>6, <2>1 DEF QueueInv, ProposersAreDone
  <1>8. DecisionsHold'
    <2>1. h'[r].pc = "decide" => pending[h'[r].pend].author # h'[r].user
      BY <1>1 DEF Reads, Creates
    <2>2. QED
      BY <1>2, <1>3, <2>1 DEF QueueInv, DecisionsHold, Deciding
  <1>9. DecidedOnce'
    <2>1. \A s \in Req : Deciding(s) => h[s].pend # Nil
      BY NilAssumption DEF Deciding, TypeInv, Shape
    <2>2. \A s \in Req : Deciding(s)' => Deciding(s) /\ h'[s] = h[s]
      BY <1>2, <1>3 DEF Deciding
    <2>3. QED
      BY <1>6, <2>1, <2>2 DEF QueueInv, DecidedOnce
  <1>10. LogAgreesWithQueue'
    BY <1>2, <1>6 DEF QueueInv, LogAgreesWithQueue
  <1>11. PublishedAtMostOnce'
    <2>1. CASE UNCHANGED audit
      BY <2>1 DEF QueueInv, PublishedAtMostOnce
    <2>2. CASE \E e : audit' = Append(audit, e) /\ e.action = "create"
      <3>1. PICK e : audit' = Append(audit, e) /\ e.action = "create"
        BY <2>2
      <3>2. /\ Len(audit') = Len(audit) + 1 /\ Len(audit) \in Nat
            /\ audit'[Len(audit) + 1] = e
            /\ \A i \in 1 .. Len(audit) : audit'[i] = audit[i]
        BY <3>1, EntriesOfAppend
      <3>3. QED
        BY <3>1, <3>2 DEF QueueInv, PublishedAtMostOnce
    <2>3. QED
      BY <1>5, <2>1, <2>2
  <1>12. QED
    BY <1>7, <1>8, <1>9, <1>10, <1>11 DEF QueueInv

\* Every step keeps the invariant.
LEMMA QueueNext == TypeInv /\ QueueInv /\ [Next]_vars => QueueInv'
  <1> SUFFICES ASSUME TypeInv, QueueInv, [Next]_vars PROVE QueueInv'
    OBVIOUS
  <1>1. CASE UNCHANGED vars
    BY <1>1 DEF vars, QueueInv, ProposersAreDone, DecisionsHold, DecidedOnce,
       Deciding, LogAgreesWithQueue, PublishedAtMostOnce, Entries
  <1>2. ASSUME NEW r \in Req, Step(r) \/ Lose(r) PROVE QueueInv'
    BY <1>2, ProposersStep, DecisionsStep, OnceStep, AgreesStep, PublishedStep
       DEF QueueInv
  <1>3. QED
    BY <1>1, <1>2, QueueStart DEF Next

\* The invariant holds in every reachable state.
THEOREM QueueInvariant == Spec => []QueueInv
  BY QueueInit, QueueNext, TypeInvariant, PTL DEF Spec

\* However many reviewers open the same queued edit, however often its
\* approval is retried and wherever an attempt is lost, the edit is published
\* at most once.
THEOREM PublishedOnce == Spec => []PublishedAtMostOnce
  <1>1. QueueInv => PublishedAtMostOnce
    BY DEF QueueInv
  <1>2. QED
    BY <1>1, QueueInvariant, PTL

\* What the log says was decided, and by whom, is what the queue says, and
\* nobody decides an edit of their own.
THEOREM LogAgrees == Spec => []LogAgreesWithQueue
  <1>1. QueueInv => LogAgreesWithQueue
    BY DEF QueueInv
  <1>2. QED
    BY <1>1, QueueInvariant, PTL

\* A decision is never revised: the row stays as it was decided until the
\* page it belongs to is deleted.
THEOREM FinalDecisions == Spec => DecisionsAreFinal
  <1> DEFINE Final == \A q \in Req : pending[q] # Nil /\ pending[q].status # "pending" =>
                        pending'[q] \in {pending[q], Nil}
  <1>1. TypeInv /\ QueueInv /\ [Next]_vars => [Final]_vars
    <2> SUFFICES ASSUME TypeInv, QueueInv, [Next]_vars, ~UNCHANGED vars,
                        NEW q \in Req, pending[q] # Nil, pending[q].status # "pending"
                 PROVE  pending'[q] \in {pending[q], Nil}
      OBVIOUS
    <2>1. h[q].pc = "done"
      BY DEF QueueInv, ProposersAreDone
    <2>2. ASSUME NEW r \in Req, Step(r) \/ Lose(r)
          PROVE  pending'[q] \in {pending[q], Nil}
      BY <2>1, <2>2, StepFrame DEF QueueFrame, Undecided
    <2>3. ASSUME NEW r \in Req, Start(r)
          PROVE  pending'[q] \in {pending[q], Nil}
      BY <2>3, StartMoves DEF Reads, Creates, tables
    <2>4. QED
      BY <2>2, <2>3 DEF Next
  <1>2. QED
    BY <1>1, TypeInvariant, QueueInvariant, PTL DEF Spec, DecisionsAreFinal

-----------------------------------------------------------------------------
(* Decisions are carried out.  That a decision without an entry has its      *)
(* handler, alive or lost, before the step that writes the entry holds        *)
(* because that step cannot be refused while the row is there: it fails only  *)
(* for a page that is gone, and the row goes with its page.                   *)

\* A step of handler r, or its loss.
Moves(r) == (Step(r) /\ UNCHANGED lost) \/ Lose(r)

\* A lost request does nothing more.
LostAreDone ==
  /\ lost \in [Req -> Stage \cup {Nil}]
  /\ \A r \in Req : lost[r] # Nil => h[r].pc = "done"

\* A reviewer's handler has read the page of the row it decides.
ReviewersKeepPage ==
  \A r \in Req : h[r].pc # "idle" /\ h[r].pend # Nil =>
    \/ pending[h[r].pend] = Nil
    \/ pending[h[r].pend].page = h[r].page

\* Handler s has decided row q and stands, or was lost, before what follows.
Carries(s, q) ==
  /\ h[s].pend = q
  /\ \/ h[s].op = "approve" /\ Stands(s, "commit")
     \/ h[s].op = "reject" /\ Stands(s, "log")

CarriedInv ==
  /\ LostAreDone
  /\ ReviewersKeepPage
  /\ DecisionsAreCarriedOut

\* A handler that carries a decision keeps doing so until the step that
\* writes the entry and, for an approval, the revision.
LEMMA CarrierMoves ==
  ASSUME TypeInv, NothingOutlivesPage, LostAreDone, ReviewersKeepPage,
         NEW r \in Req, Moves(r), NEW s \in Req, NEW q \in Req,
         pending[q] # Nil, Carries(s, q)
  PROVE  \/ Carries(s, q)' /\ h'[s].user = h[s].user
         \/ /\ s = r /\ \E e : audit' = Append(audit, e) /\ e.pend = q
            /\ h[r].op = "approve" => CommitLive(r) /\ CommitRevision(r)
  <1>1. /\ InFlight(r) /\ Kept(r) /\ \A t \in Req \ {r} : h'[t] = h[t]
    BY StepMoves DEF Moves
  <1>2. lost[r] = Nil
    BY <1>1 DEF LostAreDone, InFlight
  <1>3. \A t \in Req \ {r} : lost'[t] = lost[t]
    BY DEF Moves, Lose, LostAreDone
  <1>4. CASE s # r
    BY <1>1, <1>3, <1>4 DEF Carries, Stands
  <1>5. CASE s = r
    <2>1. /\ h[r].pend = q
          /\ \/ h[r].op = "approve" /\ h[r].pc = "commit"
             \/ h[r].op = "reject" /\ h[r].pc = "log"
      BY <1>2, <1>5, NilAssumption DEF Carries, Stands, Stage
    <2>2. page[h[r].page] # Nil
      <3>1. h[r].pc # "idle" /\ h[r].pend # Nil
        BY <2>1, NilAssumption
      <3>2. pending[q].page = h[r].page
        BY <2>1, <3>1 DEF ReviewersKeepPage
      <3>3. QED
        BY <3>2 DEF NothingOutlivesPage
    <2>3. CASE Lose(r)
      <3>1. lost'[r] = h[r].pc
        BY <2>3 DEF Lose, LostAreDone
      <3>2. QED
        BY <1>1, <1>5, <2>1, <3>1 DEF Carries, Stands, Kept
    <2>4. CASE CommitLive(r) /\ h[r].op = "approve"
      <3>1. CommitRevision(r)
        BY <2>2, <2>4 DEF CommitLive
      <3>2. audit' = Append(audit, Entry(h[r], r, q, Nil))
        BY <2>1, <3>1 DEF CommitRevision, Log
      <3>3. Entry(h[r], r, q, Nil).pend = q
        BY DEF Entry
      <3>4. QED
        BY <1>5, <2>4, <3>1, <3>2, <3>3
    <2>5. CASE LogRejection(r) /\ h[r].op = "reject"
      <3>1. audit' = Append(audit, Entry(h[r], Nil, q, Nil))
        BY <2>1, <2>2, <2>5 DEF LogRejection, Log
      <3>2. Entry(h[r], Nil, q, Nil).pend = q
        BY DEF Entry
      <3>3. QED
        BY <1>5, <2>5, <3>1, <3>2
    <2>6. QED
      BY <2>1, <2>3, <2>4, <2>5
         DEF Moves, Step, CommitLive, CommitQueued, CommitProtect, CommitDelete,
             PersistPending, Decide, LogRejection, RefreshLinks, ReplaceCategories,
             SettleTags, Index
  <1>6. QED
    BY <1>4, <1>5

\* The first half of the invariant: a lost request stays lost, a reviewer's
\* handler keeps the page of its row.
LEMMA KeepPageStep ==
  ASSUME TypeInv, QueueInv, LostAreDone, ReviewersKeepPage, NEW r \in Req, Moves(r)
  PROVE  LostAreDone' /\ ReviewersKeepPage'
  <1>1. /\ InFlight(r) /\ Kept(r) /\ h'[r].pc # "idle"
        /\ \A t \in Req \ {r} : h'[t] = h[t]
    BY StepMoves DEF Moves
  <1>2. LostAreDone'
    <2>1. h[r].pc \in Stage
      BY DEF TypeInv, WellFormed, Context
    <2>2. lost[r] = Nil
      BY <1>1 DEF LostAreDone, InFlight
    <2>3. CASE UNCHANGED lost
      BY <1>1, <2>2, <2>3 DEF LostAreDone
    <2>4. CASE Lose(r)
      <3>1. h'[r].pc = "done"
        BY <2>4, GotoMoves DEF Lose, Fail
      <3>2. QED
        BY <1>1, <2>1, <2>4, <3>1 DEF Lose, LostAreDone
    <2>5. QED
      BY <2>3, <2>4 DEF Moves
  <1>3. ASSUME NEW s \in Req, h'[s].pc # "idle", h'[s].pend # Nil, pending'[h'[s].pend] # Nil
        PROVE  pending'[h'[s].pend].page = h'[s].page
    <2>1. /\ h[s].pc # "idle" /\ h'[s].pend = h[s].pend /\ h'[s].page = h[s].page
      BY <1>1, <1>3 DEF Kept, InFlight
    <2>2. h[s].pend \in Req /\ h[h[s].pend].pc = "done"
      BY <1>3, <2>1 DEF QueueInv, ProposersAreDone
    <2>3. QueueFrame(r, h[s].pend)
      BY <1>3, <2>1, <2>2, StepFrame DEF Moves
    <2>4. pending[h[s].pend] # Nil
      BY <1>3, <2>1, <2>2, <2>3 DEF QueueFrame, Undecided
    <2>5. pending[h[s].pend].page = h[s].page
      BY <1>3, <2>1, <2>4 DEF ReviewersKeepPage
    <2>6. QED
      BY <2>1, <2>2, <2>3, <2>5 DEF QueueFrame
  <1>4. QED
    BY <1>2, <1>3 DEF ReviewersKeepPage

\* A handler that has just decided row q carries the decision.
LEMMA DecidedCarries ==
  ASSUME TypeInv, NEW r \in Req, Moves(r), h[r].pc = "decide",
         h'[r].pc \in {"commit", "log"}
  PROVE  Carries(r, h[r].pend)' /\ Kept(r)
  <1>1. Kept(r)
    BY StepMoves DEF Moves
  <1>2. h[r].op \in {"approve", "reject"} /\ h'[r].op = h[r].op /\ h'[r].pend = h[r].pend
    BY <1>1 DEF Kept, TypeInv, Shape
  <1>3. h'[r].pc = "commit" => h[r].op = "approve"
    BY StepMoves DEF Moves
  <1>4. h'[r].pc = "log" => h[r].op = "reject"
    <2>1. CASE Lose(r)
      BY <2>1, GotoMoves DEF Lose, Fail
    <2>2. CASE Step(r)
      BY <1>2, <2>2, StepType DEF TypeInv, Shape
    <2>3. QED
      BY <2>1, <2>2 DEF Moves
  <1>5. Carries(r, h[r].pend)'
    BY <1>2, <1>3, <1>4 DEF Carries, Stands
  <1>6. QED
    BY <1>1, <1>5

\* Every decision stays carried out, or on the way.
LEMMA CarriedStep ==
  ASSUME TypeInv, NothingOutlivesPage, QueueInv, CarriedInv, NEW r \in Req, Moves(r)
  PROVE  DecisionsAreCarriedOut'
  <1> USE DEF CarriedInv
  <1>1. /\ InFlight(r) /\ Kept(r) /\ \A t \in Req \ {r} : h'[t] = h[t]
    BY StepMoves DEF Moves
  <1>2. Entries \subseteq Entries'
    BY StepFrame, EntriesOfAppend DEF LogFrame, Moves, Entries
  <1> SUFFICES ASSUME NEW q \in Req, pending'[q] # Nil, pending'[q].status # "pending"
               PROVE  \/ \E e \in Entries' : e.pend = q
                      \/ \E s \in Req : Carries(s, q)' /\ h'[s].user = pending'[q].reviewer
    BY DEF DecisionsAreCarriedOut, Carries
  <1>3. CASE pending'[q] = pending[q]
    <2>1. CASE \E e \in Entries : e.pend = q
      BY <1>2, <2>1
    <2>2. CASE \E s \in Req : Carries(s, q) /\ h[s].user = pending[q].reviewer
      <3>1. PICK s \in Req : Carries(s, q) /\ h[s].user = pending[q].reviewer
        BY <2>2
      <3>2. CASE Carries(s, q)' /\ h'[s].user = h[s].user
        BY <1>3, <3>1, <3>2
      <3>3. CASE \E e : audit' = Append(audit, e) /\ e.pend = q
        BY <3>3, EntriesOfAppend
      <3>4. QED
        BY <1>3, <3>1, <3>2, <3>3, CarrierMoves
    <2>3. QED
      BY <1>3, <2>1, <2>2 DEF DecisionsAreCarriedOut, Carries
  <1>4. CASE /\ h[r].pc = "decide" /\ q = h[r].pend
             /\ h'[r].pc \in {"commit", "log"}
             /\ pending'[q].reviewer = h[r].user
    <2>1. Carries(r, q)' /\ h'[r].user = h[r].user
      BY <1>4, DecidedCarries DEF Kept
    <2>2. QED
      BY <1>4, <2>1
  <1>5. QED
    BY <1>3, <1>4, StepFrame DEF QueueFrame, Moves

\* A request that is admitted carries no decision and disturbs none.
LEMMA CarriedStart ==
  ASSUME TypeInv, QueueInv, CarriedInv, NEW r \in Req, Start(r), UNCHANGED lost
  PROVE  CarriedInv'
  <1> USE DEF CarriedInv
  <1>1. /\ h[r].pc = "idle" /\ UNCHANGED pending
        /\ \A s \in Req \ {r} : h'[s] = h[s]
        /\ h'[r].pend # Nil => h'[r].page = pending[h'[r].pend].page
        /\ audit' = audit \/ \E e : audit' = Append(audit, e)
    BY StartMoves DEF Reads, Creates, tables
  <1>2. lost[r] = Nil
    BY <1>1 DEF LostAreDone
  <1>3. LostAreDone'
    BY <1>1, <1>2 DEF LostAreDone
  <1>4. ReviewersKeepPage'
    BY <1>1 DEF ReviewersKeepPage
  <1>5. Entries \subseteq Entries'
    BY <1>1, EntriesOfAppend DEF Entries
  <1>6. \A s \in Req : Stands(s, "commit") \/ Stands(s, "log") => s # r
    BY <1>1, <1>2, NilAssumption DEF Stands, Stage
  <1>7. DecisionsAreCarriedOut'
    <2> SUFFICES ASSUME NEW q \in Req, pending[q] # Nil, pending[q].status # "pending"
                 PROVE  \/ \E e \in Entries' : e.pend = q
                        \/ \E s \in Req : Carries(s, q)' /\ h'[s].user = pending[q].reviewer
      BY <1>1 DEF DecisionsAreCarriedOut, Carries
    <2>1. CASE \E e \in Entries : e.pend = q
      BY <1>5, <2>1
    <2>2. CASE \E s \in Req : Carries(s, q) /\ h[s].user = pending[q].reviewer
      <3>1. PICK s \in Req : Carries(s, q) /\ h[s].user = pending[q].reviewer
        BY <2>2
      <3>2. s # r
        BY <1>6, <3>1 DEF Carries
      <3>3. Carries(s, q)' /\ h'[s].user = h[s].user
        BY <1>1, <3>1, <3>2 DEF Carries, Stands
      <3>4. QED
        BY <3>1, <3>3
    <2>3. QED
      BY <2>1, <2>2 DEF DecisionsAreCarriedOut, Carries
  <1>8. QED
    BY <1>3, <1>4, <1>7

\* The invariant holds in every reachable state.
THEOREM CarriedInvariant == Spec => []CarriedInv
  <1>1. Init => CarriedInv
    BY IdleIsContext DEF Init, CarriedInv, LostAreDone, ReviewersKeepPage,
       DecisionsAreCarriedOut
  <1>2. TypeInv /\ NothingOutlivesPage /\ QueueInv /\ CarriedInv /\ [Next]_vars => CarriedInv'
    <2> SUFFICES ASSUME TypeInv, NothingOutlivesPage, QueueInv, CarriedInv, [Next]_vars
                 PROVE  CarriedInv'
      OBVIOUS
    <2>1. CASE UNCHANGED vars
      BY <2>1 DEF vars, CarriedInv, LostAreDone, ReviewersKeepPage,
         DecisionsAreCarriedOut, Entries, Stands
    <2>2. ASSUME NEW r \in Req, Moves(r) PROVE CarriedInv'
      BY <2>2, KeepPageStep, CarriedStep DEF CarriedInv
    <2>3. QED
      BY <2>1, <2>2, CarriedStart DEF Next, Moves
  <1>3. QED
    BY <1>1, <1>2, TypeInvariant, NothingOutlives, QueueInvariant, PTL DEF Spec

\* What was decided has its entry in the log, and an approved text its
\* revision, or else the request that decided it is before that very step, or
\* was lost there: no other request comes between, and no step on the way can
\* be refused.
THEOREM DecisionsCarriedOut == Spec => []DecisionsAreCarriedOut
  <1>1. CarriedInv => DecisionsAreCarriedOut
    BY DEF CarriedInv
  <1>2. QED
    BY <1>1, CarriedInvariant, PTL

=============================================================================
