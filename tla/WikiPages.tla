----------------------------- MODULE WikiPages -----------------------------
(***************************************************************************)
(* The page store of thewiki and the request handlers that change it.      *)
(*                                                                         *)
(* A handler is not one transaction: it reads rows, decides, commits one   *)
(* audited transaction built from what it read, and then refreshes derived *)
(* data (links, categories, tags, search) in further transactions.  Every  *)
(* `.await` between two storage calls is a point where other requests run  *)
(* or where this one is lost, so each request is an actor with a program   *)
(* counter and the rows it has read.                                       *)
(*                                                                         *)
(* Every UUID a request mints (page, revision, pending revision) is named  *)
(* by the request that minted it; a request mints at most one of each.     *)
(* A text is named by the request that submitted it.                       *)
(***************************************************************************)
EXTENDS Naturals, Sequences

CONSTANTS
  Req,          \* the HTTP requests of a run; each is served at most once
  User,         \* the accounts that may send one, Anonymous among them
  Anonymous,    \* the singleton anonymous account
  Slug,         \* page slugs of one namespace
  Perms,        \* account -> its permission bits, as a set of names
  Scope,        \* [moderation.approval] require_approval_for
  NewUsers,     \* accounts younger than the approval window
  Ops,          \* the operations the requests may be
  GraphQL,      \* whether requests come over GraphQL, too
  Labelling,    \* subset of BOOLEAN: TRUE when edits carry categories, tags
  ProtectTo,    \* the levels protect requests ask for
  Serial,       \* TRUE: a request is admitted only when none is in flight
  Faults,       \* whether a handler can be lost between two of its steps
  Nil           \* SQL NULL and the absent row

Level == {"None", "SemiProtected", "Protected", "FullyProtected"}

AllOps ==
  {"create", "update", "delete", "revert", "protect", "approve", "reject"}

PageRow == [slug : Slug, head : Req \cup {Nil}, level : Level]

RevisionRow ==
  [page : Req, parent : Req \cup {Nil}, author : User, body : Req]

\* A reviewer is named on a row from its decision on.
PendingRow ==
  {q \in [page : Req, parent : Req \cup {Nil}, author : User,
          status : {"pending", "approved", "rejected"}, reviewer : User \cup {Nil}] :
     q.status = "pending" <=> q.reviewer = Nil}

\* An audit entry, with the metadata the properties look at: the revision
\* made live, the pending revision decided, the protection level set.
AuditRow ==
  [action : AllOps, page : Req, actor : User,
   rev : Req \cup {Nil}, pend : Req \cup {Nil}, level : Level \cup {Nil}]

\* Where a handler stands: before which of its steps.
Stage ==
  {"idle", "commit", "decide", "queue", "log", "links", "categories", "tags",
   "index", "done"}

SearchDoc == [body : Req, tags : Req \cup {Nil}]

ASSUME RolesAssumption ==
  /\ Anonymous \in User
  /\ Perms \in [User -> SUBSET {"EDIT", "PROTECT", "REVIEW_EDITS"}]
  /\ Perms[Anonymous] = {}
  /\ NewUsers \subseteq User

ASSUME ParameterAssumption ==
  /\ Scope \in {"None", "Anonymous", "NewUsers", "All"}
  /\ Ops \subseteq AllOps
  /\ GraphQL \in BOOLEAN
  /\ Labelling \subseteq BOOLEAN
  /\ ProtectTo \subseteq Level
  /\ Serial \in BOOLEAN
  /\ Faults \in BOOLEAN

ASSUME NilAssumption ==
  Nil \notin Req \cup User \cup Level \cup PageRow \cup RevisionRow
             \cup PendingRow \cup SearchDoc \cup Stage

VARIABLES
  page,        \* table pages: id -> row or Nil
  revision,    \* table revisions
  pending,     \* table pending_revisions
  audit,       \* table audit_log, in insertion order
  links,       \* page_links: the text a page's outbound links come from
  categories,  \* page_categories: the request whose set the page carries
  tags,        \* page_tags: likewise
  doc,         \* the page's search document once the indexer has caught up
  h,           \* per request: program counter, arguments, rows it has read
  lost         \* history: the step a lost request did not come to, or Nil

tables == <<page, revision, pending, audit>>
derived == <<links, categories, tags, doc>>
vars == <<page, revision, pending, audit, links, categories, tags, doc, h, lost>>

Idle ==
  [pc |-> "idle", op |-> "create", gql |-> FALSE, user |-> Anonymous,
   author |-> Anonymous, page |-> Nil, row |-> Nil, body |-> Nil,
   pend |-> Nil, level |-> "None", labels |-> FALSE, tags |-> Nil]

Init ==
  /\ page = [p \in Req |-> Nil]
  /\ revision = [r \in Req |-> Nil]
  /\ pending = [q \in Req |-> Nil]
  /\ audit = <<>>
  /\ links = [p \in Req |-> Nil]
  /\ categories = [p \in Req |-> Nil]
  /\ tags = [p \in Req |-> Nil]
  /\ doc = [p \in Req |-> Nil]
  /\ h = [r \in Req |-> Idle]
  /\ lost = [r \in Req |-> Nil]

-----------------------------------------------------------------------------
(* Decisions taken from what a request has read.                           *)

check_protection(level, u) ==
  \/ level = "None"
  \/ level = "SemiProtected" /\ u # Anonymous
  \/ level = "Protected" /\ "EDIT" \in Perms[u]
  \/ level = "FullyProtected" /\ "PROTECT" \in Perms[u]

needs_approval(u) ==
  \/ Scope = "Anonymous" /\ u = Anonymous
  \/ Scope = "NewUsers" /\ u \in NewUsers \cup {Anonymous}
  \/ Scope = "All"

\* A REST edit by an account in scope is queued; GraphQL edits go live.
Live(gql, u) == gql \/ ~needs_approval(u)

InFlight(r) == h[r].pc \notin {"idle", "done"}

\* Request r is admitted, with what it has read on the way in.
Begin(r, ctx) ==
  /\ h[r].pc = "idle"
  /\ ctx.op \in Ops
  /\ Serial => \A s \in Req : ~InFlight(s)
  /\ h' = [h EXCEPT ![r] = ctx]

Goto(r, pc) == h' = [h EXCEPT ![r].pc = pc]

\* A handler whose storage call fails answers with the error and stops.
Fail(r) == Goto(r, "done") /\ UNCHANGED <<tables, derived>>

Entry(ctx, rev, pend, level) ==
  [action |-> ctx.op, page |-> ctx.page, actor |-> ctx.user,
   rev |-> rev, pend |-> pend, level |-> level]

Log(entry) == audit' = Append(audit, entry)

-----------------------------------------------------------------------------
(* POST /pages and GraphQL createPage.  The handler reads nothing that     *)
(* another request can change, so it starts with its transaction; the      *)
(* UNIQUE (namespace, slug) constraint is the guard.                       *)

Create(r, u, slug, gql, labels) ==
  LET live == Live(gql, u)
      ctx == [Idle EXCEPT !.pc = IF ~live THEN "queue"
                                 ELSE IF gql THEN "index" ELSE "links",
                          !.gql = gql, !.user = u, !.author = u, !.page = r,
                          !.row = [slug |-> slug, head |-> Nil, level |-> "None"],
                          !.body = r, !.labels = labels]
  IN /\ Begin(r, ctx)
     /\ \A p \in Req : page[p] # Nil => page[p].slug # slug
     /\ page' = [page EXCEPT ![r] = [ctx.row EXCEPT !.head = IF live THEN r ELSE Nil]]
     /\ IF live
        THEN revision' = [revision EXCEPT
               ![r] = [page |-> r, parent |-> Nil, author |-> u, body |-> r]]
        ELSE UNCHANGED revision
     /\ Log(Entry(ctx, IF live THEN r ELSE Nil, Nil, Nil))
     /\ UNCHANGED <<pending, derived>>

-----------------------------------------------------------------------------
(* The first half of every other handler: read the page row, apply the     *)
(* guards, keep the row.  A request that is refused here changes nothing.  *)

ReadForUpdate(r, u, p, gql, labels) ==
  /\ page[p] # Nil
  /\ gql \/ check_protection(page[p].level, u)
  /\ Begin(r, [Idle EXCEPT !.pc = "commit", !.op = "update", !.gql = gql,
                           !.user = u, !.author = u, !.page = p,
                           !.row = page[p], !.body = r,
                           !.labels = labels])
  /\ UNCHANGED <<tables, derived>>

ReadForDelete(r, u, p, gql) ==
  /\ page[p] # Nil
  /\ gql \/ check_protection(page[p].level, u)
  /\ Begin(r, [Idle EXCEPT !.pc = "commit", !.op = "delete", !.gql = gql,
                           !.user = u, !.page = p, !.row = page[p]])
  /\ UNCHANGED <<tables, derived>>

\* Mutant of ReadForRevert: old texts come back whatever the level.
ReadForRevertUnguarded(r, u, p, gql, v) ==
  /\ u # Anonymous
  /\ page[p] # Nil
  /\ revision[v] # Nil
  /\ revision[v].page = p
  /\ Begin(r, [Idle EXCEPT !.pc = "commit", !.op = "revert", !.gql = gql,
                           !.user = u, !.author = u, !.page = p,
                           !.row = page[p], !.body = revision[v].body])
  /\ UNCHANGED <<tables, derived>>

\* The historical revision v must belong to the page.
ReadForRevert(r, u, p, gql, v) ==
  /\ u # Anonymous
  /\ page[p] # Nil
  /\ gql \/ check_protection(page[p].level, u)
  /\ revision[v] # Nil
  /\ revision[v].page = p
  /\ Begin(r, [Idle EXCEPT !.pc = "commit", !.op = "revert", !.gql = gql,
                           !.user = u, !.author = u, !.page = p,
                           !.row = page[p], !.body = revision[v].body])
  /\ UNCHANGED <<tables, derived>>

\* Asking for the level the page already has is a no-op.
ReadForProtect(r, u, p, level) ==
  /\ "PROTECT" \in Perms[u]
  /\ page[p] # Nil
  /\ page[p].level # level
  /\ Begin(r, [Idle EXCEPT !.pc = "commit", !.op = "protect", !.user = u,
                           !.page = p, !.row = page[p], !.level = level])
  /\ UNCHANGED <<tables, derived>>

\* A reviewer opens a queued edit of somebody else's.
Reviewable(u, q) ==
  /\ "REVIEW_EDITS" \in Perms[u]
  /\ pending[q] # Nil
  /\ pending[q].status = "pending"
  /\ pending[q].author # u

\* The pending row is read before the page row.  Nothing this step keeps of
\* the pending row can change later, and its status is checked again by the
\* compare-and-set, so the two reads are one step.
ReadForApprove(r, u, q) ==
  /\ Reviewable(u, q)
  /\ LET p == pending[q].page
     IN /\ page[p] # Nil
        /\ Begin(r, [Idle EXCEPT !.pc = "decide", !.op = "approve", !.user = u,
                                 !.author = pending[q].author, !.page = p,
                                 !.row = page[p], !.body = q, !.pend = q])
  /\ UNCHANGED <<tables, derived>>

ReadForReject(r, u, q) ==
  /\ Reviewable(u, q)
  /\ Begin(r, [Idle EXCEPT !.pc = "decide", !.op = "reject", !.user = u,
                           !.page = pending[q].page, !.pend = q])
  /\ UNCHANGED <<tables, derived>>

-----------------------------------------------------------------------------
(* The audited transaction.                                                *)

\* Mutants of CommitRevision: the audit entry is left to a later call; a
\* revert hangs the new revision under the one it copies; the head stays
\* behind; a revert rewrites the head revision in place.
UnloggedRevision(r) ==
  LET ctx == h[r]
  IN /\ revision' = [revision EXCEPT
          ![r] = [page |-> ctx.page, parent |-> ctx.row.head,
                  author |-> ctx.author, body |-> ctx.body]]
     /\ page' = [page EXCEPT ![ctx.page] = [ctx.row EXCEPT !.head = r]]
     /\ UNCHANGED <<audit, pending, derived>>

RevisionUnderCopied(r) ==
  LET ctx == h[r]
  IN /\ revision' = [revision EXCEPT
          ![r] = [page |-> ctx.page,
                  parent |-> IF ctx.op = "revert" THEN ctx.body ELSE ctx.row.head,
                  author |-> ctx.author, body |-> ctx.body]]
     /\ page' = [page EXCEPT ![ctx.page] = [ctx.row EXCEPT !.head = r]]
     /\ Log(Entry(ctx, r, ctx.pend, Nil))
     /\ UNCHANGED <<pending, derived>>

HeadRewritten(r) ==
  LET ctx == h[r]
  IN /\ revision' = IF ctx.row.head = Nil THEN revision
                    ELSE [revision EXCEPT ![ctx.row.head].author = ctx.author,
                                          ![ctx.row.head].body = ctx.body]
     /\ Log(Entry(ctx, ctx.row.head, ctx.pend, Nil))
     /\ UNCHANGED <<page, pending, derived>>

\* Insert a revision whose parent is the head that was read, and overwrite
\* every mutable column of the page with the row that was read.
CommitRevision(r) ==
  LET ctx == h[r]
  IN /\ revision' = [revision EXCEPT
          ![r] = [page |-> ctx.page, parent |-> ctx.row.head,
                  author |-> ctx.author, body |-> ctx.body]]
     /\ page' = [page EXCEPT ![ctx.page] = [ctx.row EXCEPT !.head = r]]
     /\ Log(Entry(ctx, r, ctx.pend, Nil))
     /\ UNCHANGED <<pending, derived>>

\* Mutants of CommitLive: the row count is not looked at and the page comes
\* back; an update ignores the approval policy.
CommitLiveUpserts(r) ==
  /\ h[r].pc = "commit"
  /\ h[r].op \in {"update", "revert", "approve"}
  /\ h[r].op = "update" => Live(h[r].gql, h[r].user)
  /\ CommitRevision(r)
  /\ Goto(r, IF h[r].op = "revert" \/ h[r].gql THEN "index" ELSE "links")

CommitLiveUnqueued(r) ==
  /\ h[r].pc = "commit"
  /\ h[r].op \in {"update", "revert", "approve"}
  /\ page[h[r].page] # Nil
  /\ CommitRevision(r)
  /\ Goto(r, IF h[r].op = "revert" \/ h[r].gql THEN "index" ELSE "links")

\* A foreign key refuses a revision, and the row count an update, of a page
\* that was deleted meanwhile.
CommitLive(r) ==
  /\ h[r].pc = "commit"
  /\ h[r].op \in {"update", "revert", "approve"}
  /\ h[r].op = "update" => Live(h[r].gql, h[r].user)
  /\ \/ /\ page[h[r].page] = Nil
        /\ Fail(r)
     \/ /\ page[h[r].page] # Nil
        /\ CommitRevision(r)
        /\ Goto(r, IF h[r].op = "revert" \/ h[r].gql THEN "index" ELSE "links")

\* A queued edit of an existing page commits its audit entry alone.
CommitQueued(r) ==
  /\ h[r].pc = "commit"
  /\ h[r].op = "update"
  /\ ~Live(h[r].gql, h[r].user)
  /\ Log(Entry(h[r], Nil, Nil, Nil))
  /\ Goto(r, "queue")
  /\ UNCHANGED <<page, revision, pending, derived>>

\* The level is changed in the row that was read, and that row written back.
CommitProtect(r) ==
  /\ h[r].pc = "commit"
  /\ h[r].op = "protect"
  /\ \/ /\ page[h[r].page] = Nil
        /\ Fail(r)
     \/ /\ page[h[r].page] # Nil
        /\ page' = [page EXCEPT ![h[r].page] = [h[r].row EXCEPT !.level = h[r].level]]
        /\ Log(Entry(h[r], Nil, Nil, h[r].level))
        /\ Goto(r, "done")
        /\ UNCHANGED <<revision, pending, derived>>

\* ON DELETE CASCADE takes everything that refers to the page with it.
CommitDelete(r) ==
  LET p == h[r].page
      Drop(table) == [x \in Req |->
        IF table[x] # Nil /\ table[x].page = p THEN Nil ELSE table[x]]
  IN /\ h[r].pc = "commit"
     /\ h[r].op = "delete"
     /\ \/ /\ page[p] = Nil
           /\ Fail(r)
        \/ /\ page[p] # Nil
           /\ page' = [page EXCEPT ![p] = Nil]
           /\ revision' = Drop(revision)
           /\ pending' = Drop(pending)
           /\ links' = [links EXCEPT ![p] = Nil]
           /\ categories' = [categories EXCEPT ![p] = Nil]
           /\ tags' = [tags EXCEPT ![p] = Nil]
           /\ Log(Entry(h[r], Nil, Nil, Nil))
           /\ Goto(r, "index")
           /\ UNCHANGED doc

-----------------------------------------------------------------------------
(* The moderation queue.                                                   *)

\* Mutant of PersistPending: the foreign key is off.
PersistPendingUnchecked(r) ==
  /\ h[r].pc = "queue"
  /\ pending' = [pending EXCEPT
       ![r] = [page |-> h[r].page, parent |-> h[r].row.head,
               author |-> h[r].user, status |-> "pending", reviewer |-> Nil]]
  /\ Goto(r, "done")
  /\ UNCHANGED <<page, revision, audit, derived>>

\* persist_pending, in a transaction of its own after the audited one.
PersistPending(r) ==
  LET p == h[r].page
  IN /\ h[r].pc = "queue"
     /\ \/ /\ page[p] = Nil
           /\ Fail(r)
        \/ /\ page[p] # Nil
           /\ pending' = [pending EXCEPT
                ![r] = [page |-> p, parent |-> h[r].row.head, author |-> h[r].user,
                        status |-> "pending", reviewer |-> Nil]]
           /\ Goto(r, "done")
           /\ UNCHANGED <<page, revision, audit, derived>>

Undecided(q) == pending[q] # Nil /\ pending[q].status = "pending"

\* Mutants of Decide: any row that exists is decided; the reviewer is not
\* recorded; an approval ends with the status; a rejection deletes the row.
DecideAnyStatus(r) ==
  /\ h[r].pc = "decide"
  /\ pending[h[r].pend] # Nil
  /\ pending' = [pending EXCEPT
       ![h[r].pend].status = IF h[r].op = "approve" THEN "approved" ELSE "rejected",
       ![h[r].pend].reviewer = h[r].user]
  /\ Goto(r, IF h[r].op = "approve" THEN "commit" ELSE "log")
  /\ UNCHANGED <<page, revision, audit, derived>>

DecideAnonymously(r) ==
  /\ h[r].pc = "decide"
  /\ Undecided(h[r].pend)
  /\ pending' = [pending EXCEPT
       ![h[r].pend].status = IF h[r].op = "approve" THEN "approved" ELSE "rejected"]
  /\ Goto(r, IF h[r].op = "approve" THEN "commit" ELSE "log")
  /\ UNCHANGED <<page, revision, audit, derived>>

DecideOnly(r) ==
  /\ h[r].pc = "decide"
  /\ Undecided(h[r].pend)
  /\ pending' = [pending EXCEPT
       ![h[r].pend].status = IF h[r].op = "approve" THEN "approved" ELSE "rejected",
       ![h[r].pend].reviewer = h[r].user]
  /\ Goto(r, IF h[r].op = "approve" THEN "done" ELSE "log")
  /\ UNCHANGED <<page, revision, audit, derived>>

DecideByDeleting(r) ==
  LET q == h[r].pend
  IN /\ h[r].pc = "decide"
     /\ Undecided(q)
     /\ pending' = IF h[r].op = "approve"
                   THEN [pending EXCEPT ![q].status = "approved",
                                        ![q].reviewer = h[r].user]
                   ELSE [pending EXCEPT ![q] = Nil]
     /\ Goto(r, IF h[r].op = "approve" THEN "commit" ELSE "log")
     /\ UNCHANGED <<page, revision, audit, derived>>

\* The compare-and-set on the status of the pending row.
Decide(r) ==
  LET q == h[r].pend
      verdict == IF h[r].op = "approve" THEN "approved" ELSE "rejected"
  IN /\ h[r].pc = "decide"
     /\ \/ /\ ~Undecided(q)
           /\ Fail(r)
        \/ /\ Undecided(q)
           /\ pending' = [pending EXCEPT ![q].status = verdict,
                                         ![q].reviewer = h[r].user]
           /\ Goto(r, IF h[r].op = "approve" THEN "commit" ELSE "log")
           /\ UNCHANGED <<page, revision, audit, derived>>

\* A rejection looks the page up again to label its audit entry, which is
\* written outside the transaction that decided.
LogRejection(r) ==
  /\ h[r].pc = "log"
  /\ \/ /\ page[h[r].page] = Nil
        /\ Fail(r)
     \/ /\ page[h[r].page] # Nil
        /\ Log(Entry(h[r], Nil, h[r].pend, Nil))
        /\ Goto(r, "done")
        /\ UNCHANGED <<page, revision, pending, derived>>

-----------------------------------------------------------------------------
(* Derived data, one transaction each, after the commit.                   *)

\* The page_links rows of the new text.  When the page is gone, a text with
\* links fails on the foreign key and one without links passes.
RefreshLinks(r) ==
  LET p == h[r].page
      next == CASE h[r].op = "approve" -> "done"
                [] h[r].op # "approve" /\ h[r].labels -> "categories"
                [] h[r].op = "update" /\ ~h[r].labels -> "tags"
                [] h[r].op = "create" /\ ~h[r].labels -> "index"
                [] OTHER -> "done"
  IN /\ h[r].pc = "links"
     /\ \/ /\ page[p] = Nil
           /\ Fail(r)
        \/ /\ Goto(r, next)
           /\ links' = IF page[p] # Nil THEN [links EXCEPT ![p] = h[r].body] ELSE links
           /\ UNCHANGED <<tables, categories, tags, doc>>

\* The categories the request carries, likewise: an empty set passes when the
\* page is gone.
ReplaceCategories(r) ==
  LET p == h[r].page
  IN /\ h[r].pc = "categories"
     /\ \/ /\ page[p] = Nil
           /\ Fail(r)
        \/ /\ categories' = IF page[p] # Nil THEN [categories EXCEPT ![p] = r]
                            ELSE categories
           /\ Goto(r, "tags")
           /\ UNCHANGED <<tables, links, tags, doc>>

\* Assign the tags the request carries, or else read those of the page.
SettleTags(r) ==
  LET p == h[r].page
      ToIndex(t) == h' = [h EXCEPT ![r].pc = "index", ![r].tags = t]
  IN /\ h[r].pc = "tags"
     /\ \/ /\ h[r].labels /\ page[p] = Nil
           /\ Fail(r)
        \/ /\ h[r].labels
           /\ tags' = IF page[p] # Nil THEN [tags EXCEPT ![p] = r] ELSE tags
           /\ ToIndex(r)
           /\ UNCHANGED <<tables, links, categories, doc>>
        \/ /\ ~h[r].labels
           /\ ToIndex(tags[p])
           /\ UNCHANGED <<tables, derived>>

\* Mutants of Index: the text indexed is the one replaced; deletions are not
\* handed over.
IndexPrevious(r) ==
  /\ h[r].pc = "index"
  /\ doc' = [doc EXCEPT ![h[r].page] =
               IF h[r].op = "delete" THEN Nil
               ELSE [body |-> IF h[r].row.head = Nil THEN h[r].body ELSE h[r].row.head,
                     tags |-> h[r].tags]]
  /\ Goto(r, "done")
  /\ UNCHANGED <<tables, links, categories, tags>>

\* Hand the document, or the deletion, to the indexer.  The indexer applies
\* jobs in the order they are handed over and an upsert replaces the whole
\* document, so doc is the index after it has caught up.
Index(r) ==
  /\ h[r].pc = "index"
  /\ doc' = [doc EXCEPT ![h[r].page] =
               IF h[r].op = "delete" THEN Nil
               ELSE [body |-> h[r].body, tags |-> h[r].tags]]
  /\ Goto(r, "done")
  /\ UNCHANGED <<tables, links, categories, tags>>

-----------------------------------------------------------------------------
\* A crash of the process, a closed connection (the framework drops the
\* handler's future) or a storage error ends a request between two steps.
Lose(r) ==
  /\ Faults
  /\ InFlight(r)
  /\ lost' = [lost EXCEPT ![r] = h[r].pc]
  /\ Fail(r)

\* The routes of the REST API.
Rest(r, u) ==
  \/ \E slug \in Slug, labels \in Labelling : Create(r, u, slug, FALSE, labels)
  \/ \E p \in Req :
       \/ \E labels \in Labelling : ReadForUpdate(r, u, p, FALSE, labels)
       \/ ReadForDelete(r, u, p, FALSE)
       \/ \E v \in Req : ReadForRevert(r, u, p, FALSE, v)
       \/ \E level \in ProtectTo : ReadForProtect(r, u, p, level)
  \/ \E q \in Req : ReadForApprove(r, u, q) \/ ReadForReject(r, u, q)

\* The GraphQL mutations: the transactions and search jobs of the REST
\* handlers, without the protection level, the approval policy, the links and
\* the labels.
createPage(r, u, slug) == Create(r, u, slug, TRUE, FALSE)
updatePage(r, u, p) == ReadForUpdate(r, u, p, TRUE, FALSE)
deletePage(r, u, p) == ReadForDelete(r, u, p, TRUE)
revertPage(r, u, p, v) == ReadForRevert(r, u, p, TRUE, v)

MutationRoot(r, u) ==
  \/ \E slug \in Slug : createPage(r, u, slug)
  \/ \E p \in Req :
       \/ updatePage(r, u, p)
       \/ deletePage(r, u, p)
       \/ \E v \in Req : revertPage(r, u, p, v)

Start(r) == \E u \in User : Rest(r, u) \/ (GraphQL /\ MutationRoot(r, u))

Step(r) ==
  \/ CommitLive(r) \/ CommitQueued(r) \/ CommitProtect(r) \/ CommitDelete(r)
  \/ PersistPending(r) \/ Decide(r) \/ LogRejection(r)
  \/ RefreshLinks(r) \/ ReplaceCategories(r) \/ SettleTags(r) \/ Index(r)

Next == \E r \in Req : Lose(r) \/ ((Start(r) \/ Step(r)) /\ UNCHANGED lost)

Spec == Init /\ [][Next]_vars

-----------------------------------------------------------------------------
(* Properties.                                                             *)

Context ==
  [pc : Stage,
   op : AllOps, gql : BOOLEAN, user : User, author : User,
   page : Req \cup {Nil}, row : PageRow \cup {Nil}, body : Req \cup {Nil},
   pend : Req \cup {Nil}, level : Level, labels : BOOLEAN,
   tags : Req \cup {Nil}]

WellFormed ==
  /\ page \in [Req -> PageRow \cup {Nil}]
  /\ revision \in [Req -> RevisionRow \cup {Nil}]
  /\ pending \in [Req -> PendingRow \cup {Nil}]
  /\ audit \in Seq(AuditRow)
  /\ links \in [Req -> Req \cup {Nil}]
  /\ categories \in [Req -> Req \cup {Nil}]
  /\ tags \in [Req -> Req \cup {Nil}]
  /\ doc \in [Req -> SearchDoc \cup {Nil}]
  /\ h \in [Req -> Context]

\* Every row of every table is well formed, and so is every handler; in
\* particular the queue names the reviewer of every decided row and of no
\* other, as the decision writes both columns in one statement.
TypeOK == WellFormed /\ lost \in [Req -> Stage \cup {Nil}]

Entries == {audit[i] : i \in 1 .. Len(audit)}

\* The head of a page and the parent of a revision are revisions of that
\* same page: a handler that writes back a row it read before a delete, or
\* before another page took the slug, must not join two histories.  The
\* foreign keys only ask that the revision exist.
HistoryStaysOnPage ==
  /\ \A p \in Req : page[p] # Nil /\ page[p].head # Nil =>
       /\ revision[page[p].head] # Nil
       /\ revision[page[p].head].page = p
  /\ \A r \in Req : revision[r] # Nil =>
       /\ page[revision[r].page] # Nil
       /\ revision[r].parent # Nil =>
            /\ revision[revision[r].parent] # Nil
            /\ revision[revision[r].parent].page = revision[r].page

\* Nothing derived from a page outlives it in the database, whatever steps
\* of other requests the delete overtook.
NothingOutlivesPage ==
  /\ \A q \in Req : pending[q] # Nil => page[pending[q].page] # Nil
  /\ \A p \in Req : page[p] = Nil =>
       links[p] = Nil /\ categories[p] = Nil /\ tags[p] = Nil

\* A queued edit is published by at most one revision, however often its
\* approval is retried and wherever an earlier attempt was lost.
PublishedAtMostOnce ==
  \A i, j \in 1 .. Len(audit) :
    /\ audit[i].action = "approve"
    /\ audit[j].action = "approve"
    /\ audit[i].pend = audit[j].pend
    => i = j

\* What the log says was decided is what the queue says: a published edit is
\* approved, by the reviewer the log names, who is not its author; a
\* rejected edit was never published.
LogAgreesWithQueue ==
  \A e \in Entries : e.pend # Nil /\ pending[e.pend] # Nil =>
    /\ pending[e.pend].status = IF e.action = "approve" THEN "approved" ELSE "rejected"
    /\ pending[e.pend].reviewer = e.actor
    /\ pending[e.pend].author # e.actor

\* Every revision is logged exactly once, by an entry naming its page, and
\* every queued edit was logged before it was queued.
EveryWriteLogged ==
  /\ \A r \in Req : revision[r] # Nil =>
       \E i \in 1 .. Len(audit) :
         /\ audit[i].rev = r
         /\ audit[i].page = revision[r].page
         /\ \A j \in 1 .. Len(audit) : audit[j].rev = r => j = i
  /\ \A q \in Req : pending[q] # Nil =>
       \E e \in Entries :
         e.action = h[q].op /\ e.page = pending[q].page /\ e.rev = Nil

\* A text sent through the REST API by an account the approval policy covers
\* is in the history only if somebody approved it, even when a revert copies
\* it later.
CoveredTextWasApproved ==
  \A r \in Req : revision[r] # Nil =>
    LET b == revision[r].body
    IN ~h[b].gql /\ needs_approval(h[b].user) =>
         \E e \in Entries : e.action = "approve" /\ e.pend = b

\* A decision is never revised, only deleted with its page.
DecisionsAreFinal ==
  [][\A q \in Req : pending[q] # Nil /\ pending[q].status # "pending" =>
       pending'[q] \in {pending[q], Nil}]_vars

\* Revisions and audit entries are never edited; a revision goes only when
\* its page does, and the log never loses an entry.
HistoryIsAppendOnly ==
  [][/\ \A r \in Req : revision[r] # Nil =>
          \/ revision'[r] = revision[r]
          \/ revision'[r] = Nil /\ page'[revision[r].page] = Nil
     /\ Len(audit') \in {Len(audit), Len(audit) + 1}
     /\ SubSeq(audit', 1, Len(audit)) = audit]_vars

\* No revision descends from the head: the head is the newest revision of
\* its line ("points at the head of the linear history").
HeadIsTip ==
  \A p, r \in Req : page[p] # Nil /\ page[p].head # Nil /\ revision[r] # Nil =>
    revision[r].parent # page[p].head

\* Two revisions never have the same parent, and the head is the last of them
\* ("keeps the history linear").
HistoryIsLinear ==
  /\ HeadIsTip
  /\ \A r, s \in Req :
       /\ revision[r] # Nil /\ revision[s] # Nil
       /\ revision[r].parent # Nil /\ revision[r].parent = revision[s].parent
       => r = s

\* The level of a page is the one its last protect entry set, or None: no
\* level change without a matching audit record.
LevelIsLogged ==
  \A p \in Req : page[p] # Nil =>
    LET Sets == {i \in 1 .. Len(audit) :
                   audit[i].action = "protect" /\ audit[i].page = p}
    IN \/ Sets = {} /\ page[p].level = "None"
       \/ \E i \in Sets : (\A j \in Sets : j <= i) /\ audit[i].level = page[p].level

\* No update or revert sent through the REST API by an account that the level
\* in force when it is logged keeps out ("every mutating page handler
\* funnels through check_protection before it touches storage").
WritesRespectLevel ==
  \A i, j \in 1 .. Len(audit) :
    /\ j < i
    /\ audit[j].action = "protect" /\ audit[j].page = audit[i].page
    /\ \A k \in j + 1 .. i - 1 :
         ~(audit[k].action = "protect" /\ audit[k].page = audit[i].page)
    /\ audit[i].action \in {"update", "revert"} /\ audit[i].rev # Nil
    /\ ~h[audit[i].rev].gql
    => check_protection(audit[j].level, audit[i].actor)

\* Between requests the level of a page is the one that was logged last, and
\* it was heeded while it held.
LevelsHold == LevelIsLogged /\ WritesRespectLevel

Quiet == \A r \in Req : ~InFlight(r)

\* The request that made the head revision refreshes everything derived from
\* the page: a revert and the GraphQL mutations leave links and tags behind.
Refreshing(r) == h[r].op # "revert" /\ ~h[r].gql

LinksFollow(p) == links[p] = revision[page[p].head].body

DocFollows(p) == doc[p] # Nil /\ doc[p].body = revision[page[p].head].body

\* At rest everything derived from a page is what its head says: the search
\* document has its text; its links, and the tags on the document, are those
\* of the page if the head came from a request that refreshes them ("so the
\* search doc isn't silently emptied"); and a deleted page has no document
\* ("deleted page must not appear in hits").
DerivedFollowsHead ==
  Quiet => \A p \in Req :
    /\ page[p] = Nil => doc[p] = Nil
    /\ page[p] # Nil /\ page[p].head # Nil =>
         /\ DocFollows(p)
         /\ Refreshing(page[p].head) => LinksFollow(p) /\ doc[p].tags = tags[p]

\* Request r stands before step pc, or was lost there.
Stands(r, pc) == h[r].pc = pc \/ lost[r] = pc

\* A decision is carried out: a decided edit has its entry in the log, which
\* an approval writes with the revision it publishes, or the request that
\* decided it is on its way there or was lost on it.  Nothing else comes
\* between the decision and its effect: not a second reviewer, not an edit
\* or a protect of the page, not a request that takes the slug.
DecisionsAreCarriedOut ==
  \A q \in Req : pending[q] # Nil /\ pending[q].status # "pending" =>
    \/ \E e \in Entries : e.pend = q
    \/ \E r \in Req :
         /\ h[r].pend = q /\ h[r].user = pending[q].reviewer
         /\ \/ h[r].op = "approve" /\ Stands(r, "commit")
            \/ h[r].op = "reject" /\ Stands(r, "log")

\* A protect that overlapped the first publication wrote page p back without
\* the head it had not seen.
WrittenBackEmpty(p) ==
  \E r \in Req :
    /\ h[r].op = "protect" /\ h[r].page = p /\ h[r].row.head = Nil
    /\ h[r].pc = "done" /\ lost[r] = Nil

\* Why a page has no head.  The text it was created with is on its way to the
\* queue, was lost on the way, or is in the queue, decided or not; and no
\* text queued for the page is approved, unless its publication is under way
\* or was lost, or a protect has emptied the page again.  A first text that
\* is rejected, or lost, leaves the name taken: nothing here says otherwise.
HeadlessAwaitsText ==
  \A p \in Req : page[p] # Nil /\ page[p].head = Nil =>
    /\ Stands(p, "queue") \/ pending[p] # Nil
    /\ \/ WrittenBackEmpty(p)
       \/ \A q \in Req :
            pending[q] # Nil /\ pending[q].page = p /\ pending[q].status = "approved" =>
              \E r \in Req : h[r].pend = q /\ h[r].op = "approve" /\ Stands(r, "commit")

=============================================================================
