# TLA+ verification of thewiki

thewiki is a wiki server in one Rust binary: an axum HTTP API (REST and
GraphQL) over SQLite, a tantivy full-text index, and a web client. This
directory holds TLA+ models of the parts whose correctness depends on the order
in which things happen, the TLC runs that check them, and theorems about them
checked by TLAPS.

    tlc -workers 2 -config PagesFaults.cfg MCWikiPages     # one run
    tlapm WikiHistory_proofs.tla                           # one proof module

Contents: [inventory](#inventory), [modules](#modules), [runs](#runs),
[bounds](#bounds), [fairness](#fairness), [proofs](#proofs),
[known behaviours](#known-behaviours), [not modelled](#not-modelled),
[plan](#plan). Paths below are relative to `src/crates`.

## Inventory

| Component | State it keeps | Operations | Where |
|---|---|---|---|
| Page handlers | rows read so far, in the handler's future | create, update, delete, revert, protect; the same but protect over GraphQL | `api/src/pages`, `api/src/graphql/mutation.rs` |
| Moderation queue | `pending_revisions` | queue an edit, approve, reject | `api/src/pending_revisions`, `storage/src/sqlite/pending_revision.rs` |
| Audited page store | `pages`, `revisions`, `audit_log` | one transaction per mutation with its audit entry | `storage/src/sqlite/page_audit.rs` |
| Derived page data | `page_links`, `page_categories`, `page_tags` | replace the set of a page | `storage/src/sqlite/{page_link,category,tag}.rs` |
| Search indexer | channel, writer buffer, committed index, marker file | upsert, delete, rebuild, commit | `search/src/indexer.rs`, `search/src/index.rs` |
| Server life cycle | process, startup rebuild task | serve, rebuild at startup, graceful stop, `reindex` | `api/src/main.rs` |
| Rate limiter | token buckets (memory or Redis) | peek, check, idle sweep | `api/src/rate_limit` |
| Blocklist | two tables and an in-memory snapshot | add, remove, refresh, hydrate at start, match | `api/src/blocklist`, `api/src/admin/blocklist.rs` |
| Namespaces | `namespaces` with talk pairing | create with talk partner, seed, rename, delete, hold pages | `api/src/namespaces`, `storage/src/sqlite/namespace.rs` |
| Accounts | `users`, `sessions`, `roles`, `user_roles`, the anonymous editor's row | register, log in and out, expire, authenticate, authorise, create, rename and delete roles, assign, revoke, edit anonymously | `api/src/auth`, `api/src/admin`, `api/src/extractors.rs`, `storage/src/sqlite/{user,role,session}.rs` |
| Media | `media`, bytes and variants in the database or a bucket | upload with deduplication, delete, make and remake variants | `api/src/media`, `storage/src/sqlite/media.rs` |
| Listings and feeds | creation times, the audit log's retention | insert, delete, prune, read a slice, walk | `storage/src/sqlite/{recent_changes,user,audit_log,notification,page}.rs` |
| Storage adapters | connections, open transactions, locks | begin, execute, commit or roll back, answer | `storage/src/{sqlite,libsql,postgres}` |
| Templates | the sources fetched for one render | walk the calls, fetch, expand | `api/src/render.rs`, `render/src/template.rs` |
| Watches, notifications | single rows | insert, mark read, list | `api/src/{watchlist,notifications}` |
| Markdown, wikilinks, diff | none | parse and print | `render/src`, `api/src/pages/revisions.rs` |
| Front end | browser state | calls the API | `src/web` |

How they interact. A handler reads the rows it needs, decides, and commits one
audited transaction built from *what it read*; it then refreshes links,
categories, tags and the search index, each in a transaction or call of its
own. Handlers share nothing but the database and the sender end of the
indexer's channel, the rate limiter's buckets and the snapshot of the
blocklist. The smaller services share no row with each other; those that write
an audit entry do so in a call of its own, after the change. The indexer has one worker task; `main.rs` starts it,
decides from the marker file whether to replay the store through its channel,
and drops it with the runtime at the end.

What is hard, and which property is about it (the full list with lines is under
`hazards` in `PROJECT.json`):

- *stale write-back*: the whole page row is written back from a read that other
  requests may have overtaken (`HistoryStaysOnPage`, `HeadIsTip`,
  `LevelsHold`, `HistoryIsLinear`);
- *several transactions per request*, with the request lost between two of them
  (`NothingOutlivesPage`, `EveryWriteLogged`, `PublishedAtMostOnce`,
  `LogAgreesWithQueue`, `DecisionsAreCarriedOut`, `HeadlessAwaitsText`,
  `LogMatchesChanges`);
- *two reviewers of one edit* (`DecisionsAreFinal`, `DecisionsAreCarriedOut`);
- *texts that reach the history by another road than the approval queue*, since
  a revert copies an old body into a live revision (`CoveredTextWasApproved`);
- *derived data refreshed differently by each handler* (`DerivedFollowsHead`);
- *a bounded, lossy channel, jobs handed over in another order than their
  commits, failing commits, kills and restarts* between the store and the index
  (`MirrorsStore`, `NeverAhead`, `Follows`, `RebuildCovers`, and
  `IndexIsCurrent`, which fails);
- *a look at a bucket and a charge to it in two calls, idle buckets that are
  dropped, keys that expire, clocks that were read earlier* (`KeepsPromise`,
  `RefusalIsFair`, and `WaitIsEnough`, which fails);
- *a snapshot rebuilt from two reads by whoever changed a table*
  (`SnapshotTrails`, and `SnapshotIsCurrent`, which fails);
- *namespaces created over each other's talk names, deleted under the pages
  that are about to be put into them* (`PairingIsMutual`, `PagesKeepNamespace`);
- *what was checked before it was used*: the holders of a role before its
  deletion, a session before its last use, the anonymous editor's row before
  the edit (`RolesNotDetached`, `LogoutIsFinal`, `AnonymousUnlessTaken`);
- *bytes and rows of a media in different stores, variants made after the
  answer* (`MediaIsWhole`);
- *cursors into a table that changes, and times compared as text*
  (`WalkIsComplete`, `LogIsChronological`);
- *templates that call each other through bodies, arguments and defaults, and
  are fetched before they are expanded* (`NoTemplateInItself`,
  `NotFoundIsTrue`, `SaysWhatIsMeant`, `Ends`, and `NothingExpandsItself`,
  which fails);
- *transactions that begin without a lock, on few connections, and are dropped
  or time out half-way* (`IsAtomic`).

## Modules

**`WikiPages`** models the page handlers, the queue and the tables they share.
A request is an actor: `h[r]` holds its program counter, its arguments and the
rows it has read; a handler is the sequence of its storage calls, and any
number of requests interleave between them. Ids minted by a request, and the
text it submits, are named by the request, so a body that is copied by a revert
keeps the name of the request that first sent it.

| Definition | Code |
|---|---|
| `page`, `revision`, `pending`, `audit` | the tables of those names, keyed by id; a missing row is `Nil` |
| `links`, `categories`, `tags` | the request whose text or set the page's rows come from |
| `doc` | the search document once the indexer has caught up with the jobs handed over |
| `Create`, `ReadFor...` | everything a handler does up to its first write; a request refused there changes nothing and has no action |
| `CommitLive`, `CommitQueued`, `CommitProtect`, `CommitDelete` | `commit_page_audit`: the mutation and its audit entry in one transaction |
| `PersistPending`, `Decide`, `LogRejection` | `persist_pending`, the compare-and-set of `decide`, the late entry of a rejection |
| `RefreshLinks` ... `Index` | the derived data, one step each |
| `Lose` | the end of a handler between two steps: a kill, a storage error, a client that closes the connection (the framework drops the future). `lost` is a history variable: the step the request did not come to |

`Create` starts with its transaction because it reads nothing another request
can change before it: the UNIQUE constraint on the slug is its guard. The reads
of a `ReadFor...` action are one step because all but the page row are read of
rows that never change, or are checked again later; each action says so.
The GraphQL mutations (`createPage` ... `revertPage`, offered when the constant
`GraphQL` is set) are the same handlers with `gql` set: same transaction and
search job, but neither protection check nor queue, links or labels.

**`SearchIndexer`** models the indexer and the life of the process around it.
The texts of a page are numbered in the order the store commits them, and a
document is the number of the text it was built from. `Edit` is the commit of a
handler, after which it owes the index a job (`owed`); `HandOver` gives any of
the jobs owed to the channel, so that handlers of one page overlap and hand over
in any order, and `Lose` is a handler that ends before it does. `Approve` is the
commit of an approval, which owes nothing, because it hands nothing over.
`Receive`, `Drain`, `Drained`, `Tick` are the iterations of `run_worker`,
`StartScan` to `EndScan` the startup rebuild, `Shutdown`, `Finish`, `Exit`,
`Crash`, `Boot`, `Reindex` the process. What may fail (a handler, the two
queries of the rebuild, a commit, the marker, an upsert, the opening of the
writer) is listed in `Failing`. `Commit` is `commit_and_mark`: the commit, then
the marker. What tantivy keeps of a buffer whose commit failed is not visible in
this repository, so all of it, none of it, or what was there before are
possible. `told` is a history variable, what the channel accepted of each page,
in its order; jobs, the writer's buffer and the index are positions in it, so
that two jobs with the same text are told apart.

**`SearchMirror`** is the abstract specification: of each page, readers find one
of the documents the index was told, each a state the store had reached by then,
and only ever move forward in that sequence. `MirrorsStore` is the refinement
`SearchIndexer => SearchMirror`, `Follows` its liveness: the last thing told is
what is shown in the end. Neither says that everything committed is told, and
it is not: see *Known behaviours* and the run `silent_lag`.

**`RateLimiter`** models the middleware and its two stores. `h[r]` is what the
middleware knows of a request, `bucket` the store's entries, `now` the time.
`Peek` is the look at the address's bucket before the session is read, `Check`
the charge to the account's or the address's (`check_at`, or the Redis script:
each one atomic), `FailOpen` a check that Redis does not answer, `PruneIdle` the
visit of the sweep to one entry; a key of Redis that has outlived its TTL is
absent (`Entry`). A handler reads the clock before its turn at the entry, so the
time it uses may be `Lag` ticks old, and with Redis, where the time is the
replica's, `Skew` ticks off. The code counts tokens in floating point; the model
counts in shares, `One(b)` of which are a token, so that every number is a
natural one and exact. `retry_after` is the wait a store asks for, in whole
seconds or in milliseconds, and `rate_limited_response` what the header makes of
it: whole seconds, the rest cut off.

**`TokenBucket`** is the abstract specification: a bucket fills at its rate up
to its burst, and serving a request takes a whole token out of it. `KeepsPromise`
is the refinement: the level of a bucket is the credit the store would grant
now (`Level`), its payers are the requests it was charged for (`Paid`).

`WikiPages` and `SearchIndexer` meet at the hand-over: `WikiPages!Index` is
where a job is handed over and takes the index after the queue has drained,
`SearchIndexer` is what happens between the commit and the reader. The rate
limiter stands in front of both and shares no state with them: a request it
refuses is one that does not arrive.

**`Services`** puts the smaller services side by side. What they have in common
is in **`Requests`**: a request is an actor with a program counter, the key it
is about and what it has read; it takes its storage calls one by one, may be
lost between two of them, and writes its entry last (`Log`). `changed` is a
history variable, the requests whose own call changed a row, so that the log can
be compared with what really happened. No two services share a row, so a
behaviour of `Services` is about one of them, its `topic`, and the state space
is the sum of theirs rather than the product.

| Module | State | Actions and the code |
|---|---|---|
| `Namespaces` | `namespace`, `housed` (the namespace a page is in) | `CreateNamespace` and `Insert` (the transaction that makes or adopts the talk namespace, rolled back by the unique index on the pairing), `Reread` (the row is read again for the answer), `Seed`, `Rename`, `ReadForDelete`, `CheckEmpty`, `Delete` (foreign keys: `RESTRICT` for pages, `SET NULL` for the partner), `ResolveForPage`, `InsertPage` |
| `Blocklist` | `blocked` (both tables), `snapshot`; as history, which changes what is enforced was read after (`current`), and which anything installed so far was (`newest`) | `BlockEntry`, `ReadForUnblock`, `Unblock`; `ReadAddresses`, `ReadPatterns`, `Install` are the three steps of `refresh_from`; `Restart` is a kill and the hydration at start |
| `Accounts` | `users`, `sessions`, `roles`, `held` | `Register`, `CheckPassword`, `OpenSession`, `Expire`; `Authenticate` reads the session, `Touch` and `Authorise` the last use and the roles; `Logout`, `LogoutAll`; the administration of roles, each a read and a write; `FindAnonymous` to `InsertEdit` |
| `Media` | `media`, `bytes`, `variants`, `objects`; `inline` for the database back end, otherwise a bucket | `LookForHash` to `Cleanup` the upload, `Fetch` to `PutVariant` the variants (after the answer, or by the command that remakes them), `FindMedia` to `DeleteMedia` the deletion |
| `Listing` | `rows`, `clock`; `padded` for the audit log | `Stamp` and `InsertRow` (the time is taken before the insert), `RemoveRow`, `Prune`, `StartWalk`, `ReadSlice`; `Text` is what a time sorts as once it is text |

A slug of `Namespaces` is the number of its `Talk_` prefixes, which is all that
the pairing goes by; a time of `Listing` counts instants, the first of each
second being the one that is written without a fraction. A permission of
`Accounts` is one of the two that administer users and roles.

**`Templates`** is the renderer's expansion. A text is a sequence of parts:
plain text, `{{{name|default}}}`, `{{name|arg=value}}`, each of which contains
texts again. Which texts there are is the constant `Body`, and `Size` is their
length, of which all that counts is that an argument is shorter than the text that
gives it. `Scanned` and `Called` are `scan_template_calls`, `Fetch` is one
iteration of `build_template_resolver`, which walks
the calls level by level; `Start` to `Finish` are `expand`, with the recursion
of `expand_body` made explicit as `frames`, so that what the code keeps in
`stack`, `depth` and `args` can be looked at while it runs.

At its end is the reference definition, `Meaning`: substitution, without a
stack. The value of an argument is what its text says in the scope of the caller
(`CallSays`), a reference says that value as it is (`RefSays`), and nothing is
looked at twice, whereas the code expands what it has substituted once more.
`Meaning(src)[n]` is the meaning where calls nest `n` deep, a recursive function
of the number, and `Shallow` says of which texts that is the whole meaning: all that they
call is there, and nests no deeper.

**`Adapters`** models what the other modules take for granted of a storage
call, below the level of rows that mean anything: a call is a sequence of SQL
statements (`Statements`: `create`, `commit_page_audit`, `decide`,
`replace_for_source`, `create_user`, `list_backlinks_to`), `Begin` takes a
connection, `Execute` runs the next statement on the committed rows and the
transaction's own, `Commit` or `End` closes it, `ReadAgain` is the second look of
a decision at its row, through the pool once more, `GiveUp` a timeout of the pool
or of a lock, `Drop` a handler that ends. `dialect` picks the adapter. The locks
(`MayRun`, `LockAfter`, `Wait`, `MayCommit`) are those of the databases: SQLite in
its rollback-journal mode, since nothing in the repository asks for another, with
its readers, one writer, and a writer waiting to commit that keeps new readers
out; Postgres with locks on the rows and unique keys written; libsql in its local
mode, one connection and no locks.

**`AtomicStore`** is the abstract specification, and what `WikiPages` and
`Services` assume by making a storage call one action: between the question and
the answer a call happens at once or not at all, and whoever asks is answered.
Only a decision may be refused after it has happened, since it is read again.
`IsAtomic` is the refinement. A call has happened once its transaction is
committed, so a refusal, a timeout or a dropped handler before that must leave
nothing behind. A refusal needs a reason: what the rows say, or another call
that is being served.

Operators named as mutants (`DecideAnyStatus`, `DrainWhole`, ...) are not
part of the models: each is one of their definitions with a plausible mistake,
kept to show that the property beside it in `PROJECT.json` notices it.

## Runs

Passing runs:

| Run | Shows |
|---|---|
| `pages_faults` | Four interleaved REST requests of any kind, each of which may be lost between any two steps, with the approval policy on: rows are consistent across tables, an edit is published at most once and by whom the log says, every revision has exactly one audit entry, decisions are final and each is in the log and, if approved, in the history, unless its own request is under way there or was lost there; a page has no text only for the reasons `HeadlessAwaitsText` lists; history is append-only, and no text the policy covers becomes live unapproved, reverts included. |
| `pages_serial` | Four requests one at a time, REST or GraphQL, three accounts, every protection level, with and without labels: history is linear, the head is its tip, the level is the logged one, no REST writer is one the level keeps out, and after every request links, search document and its tags are those of the head, and a deleted page has none. The same formulas are the sequential specification that overlap breaks, below. |
| `indexer` | From a complete index or none, with two texts and the deletion of a page handed over in any order, approvals that hand nothing over, a channel that fills, a rebuild that races them, any one failure (a handler, a query of the rebuild, a commit, the marker, an upsert, the writer), a graceful stop or a kill, and `reindex`: the index implements `SearchMirror`, and readers never find what the store has not committed. In the behaviours with neither a failure nor a full channel the last job accepted of each page becomes searchable, and a rebuild brings back every page nobody edits. |
| `rate_limit` | Three requests of an address and of an account behind it, either store, clocks read late, a sweep at any moment and expiring keys: the limiter implements `TokenBucket`; no bucket pays for more than its capacity and its rate; only a bucket whose own clients have drained it refuses, and the time the client is told to wait is enough with the map in the process, and short by less than a second with Redis. |
| `services` | Four requests to namespaces, three to the blocklist, to media or to a listing, which may start with a row, two to accounts, any of which may be lost between two calls: pairs of namespaces stay mutual and pages keep theirs, the snapshot trails the tables by the changes that have yet to be refreshed, were lost before they were, or were put out of force by an older read, roles are lost by revocation only, sessions stay ended, listed media is served, a walk of a listing misses nothing that was there throughout, and the log and the changes agree. |
| `adapters` | Three calls at once: pages, decisions, links and their readers on two SQLite connections, namespaces and accounts on two of Postgres, namespaces and pages on the one of libsql, any of them dropped or timing out at any step: the adapters implement `AtomicStore`. |
| `templates` | Every page of three and every store of three templates over eight bodies, up to four calls deep, one template rewritten at any moment of the walk, any lookup failing: the expansion ends, no template is expanded inside itself, "not found" is said only of what is not there or was passed over, a text without a diagnostic is what substitution gives, and a page whose calls are there and within the limit has none. Three more stores have chains that are longer than the limit; in two of them a template is passed over and is there. |

Runs that find a counterexample to what a comment of the code says:

| Run | Counterexample |
|---|---|
| `head_moves_back` | update commits between the read and the write of a protect: the protect writes the old head back, against "points at the head of the linear history" (`core/src/page.rs`) |
| `stale_blocklist` | two administrators change the blocklist, the first to read it is the last to install: an entry whose addition was answered is listed and not enforced until the next change, against "hydrated from storage on boot and refreshed on every admin mutation" (`api/src/blocklist/state.rs`) |
| `silent_lag` | a store of two pages, a channel of two jobs, no edit, no stop and nothing that fails: the startup rebuild hands over the wipe and a page, finds the channel full and goes on, so that the other page is missing while the marker, which the wipe has written, says the index is complete, against "if it is missing we trigger a full rebuild from storage so the index never silently lags behind a previous crash" (`api/src/main.rs`) |
| `short_wait` | Redis asks for a wait of a second and a half, the header says one: the client waits as told and finds no token, against "`retry_after` is rounded up to whole seconds" (`api/src/rate_limit/error.rs`) |
| `unbound_reference` | a template refers to an argument that the call does not give, without a default: the literal that is to be put out is expanded again, as the same reference, without end, against "Unbound, no default — emit literal so the editor can see it" (`render/src/template.rs`) |

## Bounds

- *Four requests, one slug* in `WikiPages`. A request is served once, so four
  requests are four overlapping handlers, which is what the longest hazards
  need: create, then an approval, a delete and a second creation of the same
  slug; or a queued edit, two reviewers and a delete. One slug makes every page
  compete for it. The serial run also passes with five requests and two
  accounts, at several times its cost.
- *Accounts*: the anonymous one (covered by the policy), a moderator (not
  covered, every permission) and, where levels matter, an editor between them.
  The policy is "Anonymous" where the queue matters and "None" elsewhere; the
  theorems hold for every policy and every assignment of permissions.
- *One page level* in the interleaved runs: losing a level needs one protect.
- *Indexer*: two pages, of which one is edited, two texts and a deletion,
  batches of two, a channel of three jobs, which holds a whole rebuild of two
  pages (so that `RebuildCovers` has behaviours to speak of) and fills as soon as
  an edit comes in between; one stop or kill and one failure of any kind. The
  code's numbers (100, 1024, 200) only make the same situations rarer. Two pages
  are enough for one to be edited while the other is replayed, and for a batch
  to straddle both. In `silent_lag` the channel is one job shorter than the rebuild.
- *Rate limiter*: one address and one account, so that an account pays from its
  own bucket beside its address's; capacities of one and two with rates that do
  not divide a second (two tokens in three seconds, three in two), so that
  rounding shows; two ticks per second; `Lag` of one tick, the shortest that is
  late. Both windows are as short as `WindowsFill` allows for the slower bucket,
  so that the sweep and the expiry come within `MaxTime`, eight ticks, and the
  mutant with a shorter window fails. The sweep has no timer in the model and
  may come at any time, which includes when it does.
- *Services*: four requests let a subject be created over a talk namespace,
  that be deleted, and another subject or a page come in between. Three let two
  refreshes overlap over a third change (with two entries that
  may be addresses or patterns, so that a list can lack one and keep one too many), an upload, its twin of
  the same content and a deletion meet over a media, and a walk in slices of one
  row pass over an earlier row while rows are inserted or deleted. Two accounts' requests, with a
  founder who administers, a second founder and what the requests create, are
  what each pair of administrative operations needs. `LongestSlug = 2` is the
  shortest bound with a chain of two talk names. `LastTime = 2` with two
  instants to a second has a whole second on either side of an instant that is
  not, which is where order as text and order in time differ. `Load` gives the
  number of requests of each topic.
- *Templates*: three templates and a depth of four (twenty in the code) give
  chains and cycles of each length up to three, the longest of which comes back to
  its start within the limit, over bodies in which a call stands in a body, in an
  argument, in an argument of an argument and in a default. The mutant that looks
  only at the caller, not at the whole stack, is caught. In the passing run every
  call binds the one argument there is, so that the endless expansion of an unbound
  reference, which `unbound_reference` is about, does not hide the rest. Three
  stores with a chain by way of three further templates reach beyond the limit:
  what stands at its end is called only there in one, where the last pass of the
  walk is needed; behind a call in a default in another; and behind a template
  stored while the walk is under way in the third. `PassedOver` cut down to the
  calls of defaults fails in the latter two.
- *Adapters*: three calls are two that conflict and a reader or a third one in
  the queue for two connections (five and ten in the code); the calls chosen are
  one of each shape: two inserts, an insert that may find its row, a look before
  a write, a deletion and an insertion, a single read and a single write.
- Symmetry is used over requests, and over the entries of the blocklist, in
  safety runs only.
- *Sizes*: between 170 thousand (`rate_limit`) and 1.1 million (`indexer`)
  distinct states, the longest run in about two minutes on two workers.
- `CHECK_DEADLOCK FALSE`: `WikiPages` stops once every request is served,
  the rate limiter once every request is answered and the clock is at its bound, the
  services once every request is served, a render once there is a result, the
  adapters once every call is answered.

## Fairness

`WikiPages` claims no liveness: a handler may be lost between any two of its
steps, and what that leaves is said by invariants (`DecisionsAreCarriedOut`,
`HeadlessAwaitsText`).

`SearchIndexer!FairSpec` has weak fairness of each of the worker's transitions,
of the steps of the rebuild task and of a hand-over (a handler that has committed
reaches its `try_send`, unless it is lost, which `Follows` and `RebuildCovers`
count as a failure). Nobody has to start the server again: both are claimed of
behaviours in which it stays up. The
ticker is an interval timer in the same `select!` as the receive; `select!`
picks among the ready branches at random and both are weakly fair here: a tick
is enabled only while the worker waits, and a worker that keeps receiving fills
a batch and commits by that path.

`Templates!Spec` has weak fairness of `Render`, the disjunction of the steps of
one render: the walk awaits lookups that come back, with a row or an error, and
the expansion is one synchronous call. Another request's update of a template
need not happen.

`Adapters!FairSpec` has weak fairness of the steps of the calls taken together: some
call that can go on, or whose time is up, does. There are finitely many calls of
finitely many steps each, so that this reaches every one of them; none has to come
and none is dropped by force. `Services` has no liveness to claim: each request is a fixed
sequence of calls.

## Proofs

The theorems about `WikiPages` hold for any set of requests, accounts and slugs,
any policy and any permissions. They assume `RolesAssumption`, `ParameterAssumption` and
`NilAssumption` of `WikiPages`, which type the constants, give the anonymous
account no permission, and keep `Nil` apart from the rows.

| Theorem | Module | States |
|---|---|---|
| `TypeCorrect` | `WikiPages_proofs` | `[]TypeOK` |
| `NothingOutlives` | `WikiPages_proofs` | `[]NothingOutlivesPage` |
| `PublishedOnce` | `WikiPages_proofs` | `[]PublishedAtMostOnce` |
| `LogAgrees` | `WikiPages_proofs` | `[]LogAgreesWithQueue` |
| `FinalDecisions` | `WikiPages_proofs` | `DecisionsAreFinal` |
| `DecisionsCarriedOut` | `WikiPages_proofs` | `[]DecisionsAreCarriedOut` |
| `HistoryOnPage` | `WikiHistory_proofs` | `[]HistoryStaysOnPage` |
| `AppendOnly` | `WikiHistory_proofs` | `HistoryIsAppendOnly` |
| `WritesAreLogged` | `WikiHistory_proofs` | `[]EveryWriteLogged` |
| `CoveredTextsApproved` | `WikiHistory_proofs` | `[]CoveredTextWasApproved` |
| `HeadlessAwaits` | `WikiHistory_proofs` | `[]HeadlessAwaitsText` |
| `HistoryLinear` | `WikiHistory_proofs` | `Serial` gives `[]HistoryIsLinear` |
| `LevelsAlwaysHold` | `WikiHistory_proofs` | `Serial` gives `[]LevelsHold` |
| `DerivedFollows` | `WikiHistory_proofs` | `Serial`, `~Faults` and no approvals give `[]DerivedFollowsHead` |
| `TypesHold` | `SearchIndexer_proofs` | `[]TypeOK` |
| `ReadersNeverAhead` | `SearchIndexer_proofs` | `[]NeverAhead` |
| `MirrorImplemented` | `SearchIndexer_proofs` | `MirrorsStore` |
| `TypeCorrect` | `RateLimiter_proofs` | `[]TypeOK` |
| `PromiseKept` | `RateLimiter_proofs` | `Skew = 0` and `WindowsFill` give `KeepsPromise` |
| `RefusalsAreFair` | `RateLimiter_proofs` | `RefusalIsFair` |
| `HandlersReady` | `Requests_proofs` | `[]Ready`, the shape of the handlers of `Services` |
| `PairsAreMutual` | `Requests_proofs` | `[]PairingIsMutual` |
| `PagesAreHoused` | `Requests_proofs` | `[]PagesKeepNamespace` |
| `LogoutsAreFinal` | `Requests_proofs` | `[]LogoutIsFinal` |
| `AnonymousCredited` | `Requests_proofs` | `[]AnonymousUnlessTaken` |
| `RolesStay` | `Requests_proofs` | `RolesNotDetached` |
| `LogMatches` | `Services_proofs` | `[]LogMatchesChanges` |
| `MediaStaysWhole` | `Services_proofs` | `[]MediaIsWhole`: `MediaIsServed` and `NothingOutlivesMedia` |
| `SnapshotStaysClose` | `Services_proofs` | `[]SnapshotTrails` |
| `WalksAreComplete` | `Services_proofs` | `[]WalkIsComplete` |
| `LogStaysChronological` | `Services_proofs` | `[]LogIsChronological` |
| `ServicesTyped` | `Services_proofs` | `[]TypeOK` |
| `RenderTypes` | `Templates_proofs` | `[]TypeOK` |
| `RenderIsAcyclic` | `Templates_proofs` | `[]NoTemplateInItself` |
| `NotFoundIsSaidTruly` | `Templates_proofs` | `[]NotFoundIsTrue` |
| `RenderSaysWhatIsMeant` | `Templates_proofs` | `[]SaysWhatIsMeant` |
| `TypesHold` | `Adapters_proofs` | `[]TypeOK` |
| `CallsAreAtomic` | `Adapters_proofs` | `NoLooseStatements` gives `Store!Spec`, the safety part of `IsAtomic` |

For `WikiPages` the argument is in layers, each an inductive invariant over those before it.

1. `TypeInv` adds to `TypeOK` the *shape* of a handler's record: which fields
   are set at which program counter (a row before a commit, a text until it is
   indexed, a queue row while deciding). Without it `ctx.row.head` is a field
   of `Nil` as far as the types say.
2. `QueueInv`: a queue row exists only once its proposer is done
   (`ProposersAreDone`); a reviewer past its compare-and-set still finds its
   decision in the row (`DecisionsHold`); no two reviewers are past it for the
   same row, nor one of them and a log entry (`DecidedOnce`). At-most-once
   publication is not inductive alone: a second approval past the
   compare-and-set would break it, and `DecidedOnce` says there is none. A row
   deleted with its page is why `DecisionsHold` speaks of rows that are there.
3. `CarriedInv`: a reviewer's handler is about the page of the row it decides
   (`ReviewersKeepPage`), and a lost request does nothing more (`LostAreDone`).
   That a decision has its entry or its handler is preserved because the step
   that writes the entry is refused only for a page that is gone, and the row goes
   with its page (`NothingOutlivesPage`).
4. `HistoryInv`: ids in use are ids of requests already served
   (`NamesAreFresh`), and the head a handler *holds* is, if it still exists, a
   revision of the page it is about to write (`HeldHeadsStayOnPage`). That is
   what makes writing back a stale row harmless to this property: as long as
   the page exists, so does every revision of it the handler can hold.
5. `LogInv`: entries are of requests that have started, and whoever is about to
   queue an edit has logged it (`QueueIsAnnounced`). That a revision is in the log
   *once* needs `NamesAreFresh`: a commit uses the name of its request, which
   no entry can have yet.
6. `TextInv`: the text a handler is *about to* publish may be public too. An
   update carries its own, an approval the one under review, and a revert the
   body of a revision, which by the same invariant was approved when it got there.
7. `HeadlessInv`: a page has an edit on its way to the queue, lost on the way or
   in the queue (`Proposed`), or a head that nobody is about to take away
   (`HeadStays`). A page with a head alone is not enough, since a handler that read
   the row before there was one may write it back. And a text approved for a page
   without a head is being published or was lost, unless a protect wrote the
   page back (`ApprovedShow`).

The serial properties add `AloneInv`: what the only handler in flight has read is
what the tables hold, and the level it has read lets it through. Under it the
history grows by a tip, and the level in the log is that of the row
(`LevelOf`, `Heeds`). `DerivedInv` says in addition what the handler in flight has
left to refresh (`OnTheWay`), and that every other page is caught up. It excludes
lost handlers and approvals, which leave the search document behind (Known
behaviours); the run has neither.

`StepFrame`, `CommitFrame` and their like state once what a step may do to a
table, so that the invariants above are proved against a few cases instead of
fifteen actions.

The theorems about `RateLimiter` hold for any addresses, accounts, requests and
kinds and any positive limits (`LimitsAssumption`, which
`validate_rate_limit_bucket` enforces). `PromiseKept` has two hypotheses, and
both are needed: that the clocks of the replicas agree, and that an idle bucket
fills within the idle window and within the TTL of a key (`WindowsFill`), since
a bucket that is dropped comes back full. The default limits satisfy it: they
fill in a minute, the window is ten minutes and the TTL four. The invariant is
`Ages`: how far apart an entry's two times can be, the refill that the credit is
counted from and the last use that the windows are counted from. With it
`Matures` shows that an entry old enough to be dropped is worth the whole
allowance, so that `PruneIdle` is a stutter of the promise and the expiry of a
key passes unnoticed in a tick. `ChargedLevel` is the other half: a check that
uses a time up to `Lag` old takes at least one token from the credit as of now,
and a refusal takes nothing. `RefusalIsFair` has no hypotheses: `Drained` says that what
is missing from a bucket, down to the last share, was paid for by requests it was
charged for (time, expiry and the sweep only ever add), so that a bucket without a
whole token has paid for its capacity; `RetryBrings` and `WaitFills` are the
arithmetic of the wait, rounded up to seconds or milliseconds and cut to seconds. The allowance exceeds the capacity by what `Lag`
ticks bring in: a bucket that is full as of an old time is still credited, on
top of its capacity, with what has come in since.

The theorems about `Services` hold for any finite set of requests, any founders,
entries and contents, any loads and any bound on slugs and time. They assume
that ids minted by requests are not those of the founders or of the anonymous
editor (`AccountsAssumption`), that `Nil` is no row, id or content
(`NamespacesAssumption`, `MediaAssumption`), that there are finitely many
requests (`RequestsAssumption`), and what types the numbers of the listings
(`ListingAssumption`). Each rests on `Ready`: a handler is a record whose
operation and program counter are those of the behaviour's topic, from which it
follows that a step is a step of one service and leaves the handlers of all
other requests where they are (`NamespacesTopic` and its like). Per service:

- *Namespaces*: `NsInv`. The unique index on the pairing is why adopting a talk
  namespace that has a partner fails, and the foreign key why deleting one
  clears the pointer at it; the ids a request is about to use are `Unused`, so
  that nothing points at them beforehand. `OverExistingSafe`, `WithoutSafe` and
  `RenameSafe` each take one of these writes on its own.
- *Accounts*: `AcInv`. A handler holds only sessions that have been `Opened`, so
  a new session is never one that was logged out, and the update of the last use
  touches a row or none. `RolesStay` needs only the foreign key from `held`.
- *The audit log*: `LogInv`. Between its change and its entry a handler is in one
  of the places of `Owing`, and nobody else writes its entry.
- *Media*: `MdInv`. A row without its bytes belongs to an upload that has yet to
  write them, has failed, or whose media somebody set out to delete
  (`Discarded`, which once true stays true).
- *Blocklist*: `TrailInv` counts. A list that was read after some changes lags
  behind the table by no more entries than there are other changes (`Behind`),
  whether it is enforced or still held by a refresh; and the change of a request
  that has refreshed was known to something that has been installed
  (`Refreshed`), so that if what is enforced does not know of it, an older read
  has come after.
- *Listing*: `WalkInv`. What was there from the start of a walk has been returned or
  comes after the last row returned, in an order that is total (`Ordered`).
- *Types*: `ServicesTyped` puts these together with `BlInv`, what a refresh of
  the blocklist has read, and `LsInv`, the stamp of a row not yet inserted.

The theorems about `SearchIndexer` hold for any pages, any sizes of channel and
batch, any bounds on stops and failures and any choice of what may fail
(`SizesAssumption`, `FlagsAssumption`), from a complete index or none. They rest on
one invariant, `Inv`: of each page, the position readers find, the one in the
writer's buffer, those of the jobs in the channel, in its order, and the last one
told follow on each other, and nothing was told, or is about to be, that the store
has not committed. A rebuild adds to the line like any other job, and a start of
the process cuts it back to what is on disk. That the writer may refuse an upsert,
which leaves the page without its document, is a step of `SearchMirror` (`Refuse`)
and needs no exception.

The theorems about `Adapters` hold for any finite set of requests, any pool, any bound on slugs
and any calls the adapters have (`AdaptersAssumption`; `Offered` says which adapter
has which: decisions and links are SQLite's alone, and Postgres has no audited
page mutation). The refinement maps a call to *open* until its transaction is
committed. What has to be shown is that the rows it writes then are those its
program makes of the rows committed *at that moment*, whatever was committed
since it began. `AtomicInv` says why, per database:

- SQLite: what a transaction sees is what its statements so far make of the
  committed rows (`Done`). Nobody commits over a reader's lock, and one that has
  written holds the only writer's lock (`SqliteInv`).
- Postgres: transactions run side by side and their statements see what others
  commit. Each has written rows of its own that are not in the table yet and that
  nobody else is writing (`Inserted`, and disjoint writes), so that it can be moved
  to its commit; the second pointer of a pair has to be given to a namespace that
  nobody points at, which is what `Mutual` is for.
- libsql: one connection, hence one transaction (`LibsqlInv`).

`Follows` is a program up to a statement, and `AfterAll`, the abstract effect, its
end (`FollowsAll`); programs have at most three statements (`ProgramsFit`), so that
the fold is unfolded and no induction is needed. The hypothesis `NoLooseStatements`
is that libsql is sent no single statement outside a transaction, since that one
joins the transaction of another handler (Known behaviours); the run does the same.

The theorems about `Templates` hold for any templates, any set of texts that is
closed under arguments and defaults, any stores and any limit. They assume that
`Nil` is none of these (`ConstantsAssumption`), that an argument is shorter than the text
that gives it (`TextsAssumption`), and that a default holds no reference, because the
first `}}}` closes it (`DefaultsAssumption`). `Scanned` is a recursive function, so
the first thing to prove is that it is defined (`ScannedUnfolds`): its equation has a
solution for the texts below any length (`ScansSome`) and only one (`ScansOnce`).
The induction is over the length of texts and is carried out as the least
counterexample (`Least`), which needs no induction theorem and so no operator as a
parameter. The invariant `IInv` has three parts:

- *the walk*: `lev` gives every template the level at which it was come to, and
  `Accounted` says what has become of a call in a text of level *d*: fetched at
  level *d + 1* or before, not there, stored meanwhile, or waited for in a pass
  that is still to come. Once the walk is over nothing that is waited for is called
  within the limit (`SettledCalls`). The levels are a witness, not a
  variable: the walk of the code keeps none.
- *the stack*: the frame below an argument is at the call that gives it, which was
  found neither missing, nor cyclic, nor too deep (`Waits`), since `Return` goes
  on with that call without looking again. Without it neither the limit nor
  `NoTemplateInItself` is inductive.
- *between them*: what is called in a text that is being expanded at depth *d* is
  `known` at *d* (`FrameKnown`), and grows with *d*. What has been put out calls nothing,
  which is why an output may be bound, returned and expanded again in another
  place (`OutIsText`), and what a default calls is passed over, so that it is known at
  every depth.

`SaysWhatIsMeant` needs a fourth part, `Means`. For every frame on the stack there
is, again as a witness, what it is *meant* to do (`GhostType`): its scope, what
it will have said in the end, and a rank. Three things are kept (`FrameMeans`,
`Under`, `FrameCalm`):

- *Nothing is lost.* What a frame has put out, what is pending in the frame above
  it, and what the rest of its text says are together what the frame is meant to say,
  as long as no diagnostic stands in any of them. For an argument, what is pending
  is its value in the scope of the callee.
- *Looking again is in vain.* The code expands what a reference stands for a second
  time. That changes nothing, because an output is *settled*: it holds neither
  calls nor references, since an unbound reference is expanded without end and never
  put out. `SettledIsSaid` is the lemma.
- *No cause for a diagnostic.* On a shallow page all that is called below a
  frame is there and nests no deeper than the frame's rank, and rank and depth are
  together within the limit. The rank of a body is the least that its template
  needs, which falls from call to call, hence no template on the stack
  can be called again, and "cycle" is never said.

`Meaning` and `Shallow` are recursive functions of a number, whose definition says
nothing until it is shown that the recursion has a solution: `Recursion` shows
it once for any such function, by the least number it fails for.

The attempt to prove `NotFoundIsTrue` as it was first stated, with the calls of
defaults as its only exception, failed and led to the two other cases of
`PassedOver`, which TLC then found with four templates.

Only model-checked: liveness (`Follows`, `RebuildCovers`, `Ends`, and that every call of `IsAtomic` is answered), which is out of the prover's
reach. The five properties that runs find violated have no theorem, of course.
Every other property of a passing run is a theorem.

## Known behaviours

Met while modelling, and reproducible by changing a constant of a run above;
the properties are stated so as not to claim the opposite.

- Two overlapping edits of a page read the same head and both become its
  children; the later commit is the head. `HistoryIsLinear` is checked serially.
- The write-back of `head_moves_back` also loses levels: a protect that commits
  between the read and the write of an update is undone under a `page.update`
  entry, although `api/src/pages/protect.rs` says that "an operator can never
  observe a level change without a matching audit record". `LevelsHold`,
  which is `LevelIsLogged` and `WritesRespectLevel`, is checked serially.
- After a revert, `page_links` has the links of the text reverted, and the
  search document has no tags; GraphQL mutations leave links and labels as they
  were too. Of links and tags `DerivedFollowsHead` speaks only for heads made by a
  request that refreshes them (`Refreshing`).
- GraphQL mutations consult neither the protection level nor the approval
  policy; `WritesRespectLevel` and `CoveredTextWasApproved` are about REST.
- Two overlapping handlers of a page may hand over in another order than they
  committed: the older text then stays in the index until the next edit, and an
  update handed over after a concurrent delete brings the document of the deleted
  page back. `MirrorsStore` is about the order of the channel;
  `DerivedFollowsHead` is checked serially.
- A handler that is dropped between its commit and its hand-over, or whose links
  or tags fail in between, leaves the index behind.
- An approval hands nothing to the indexer, although `docs/ARCHITECTURE.md:158`
  has the index updated "on every revision commit": what it publishes is found
  once the page is next edited or the index rebuilt.
- A queued creation leaves a page row without a revision, which keeps its slug
  after a rejection, and for good if the request is lost before it queues.
  `HeadlessAwaitsText` says how a page may come to be without a text, not that
  it will get one.
- An approval or rejection lost after its compare-and-set leaves a decided row
  that is neither published nor logged and that nobody can decide again, "an
  operator-recoverable state" (`api/src/pending_revisions/routes.rs:296`).
- A protect that overlaps the publication of a page's first text writes the row
  back without a head: the approved text is in the history, and the page has none.
- The indexer drops a job that finds the channel full, whether an edit's or the
  startup rebuild's (`silent_lag`; a warning is logged), and a kill drops what the
  channel and the writer hold; the marker shows neither, so the index lags until
  the page is next edited or `reindex` runs.
- The startup rebuild ends at the first error of a list, after its wipe, and sends
  an empty text for a page whose revision it cannot read. The model has both, for
  one slice of rows; pages without a revision, which the code sends with an empty
  text, are left out of it.
- A failed commit resets the count of what is uncommitted, so that "will retry on
  next tick" (`search/src/indexer.rs:309`) waits for the next job.
- A kill after the wipe of a rebuild has been committed and marked leaves an
  empty index that the next start takes for complete.
- The startup rebuild sends rows it listed earlier, after newer jobs of the
  same page; the older text then stays until the next edit.
- A graceful stop does not wait for the worker's final commit.
- An upsert is a deletion and an insertion; when the second is refused, the
  next commit removes the page from the index.
- A worker that cannot open its writer ends, and the server runs without it:
  every job is then dropped.
- With Redis, a replica whose clock is behind writes back the older time, and
  what the bucket was credited for since is credited again (`Skew` above zero
  breaks `KeepsPromise`). A limit that takes longer to fill than the idle window
  or the TTL is not refused by the configuration; its bucket comes back full.
- While Redis is out of reach every request is served. With Redis, addresses
  that have drained their bucket still cost a session lookup: the peek is the
  default one, which allows.
- The time to wait reaches the client in whole seconds, cut from the
  milliseconds of Redis (`short_wait`): a client that waits as told may be refused
  once more, being early by less than a second.
- A change of the blocklist whose request is lost before its refresh is listed
  and not enforced until the next change or start, and so is one that an older
  read has overtaken.
- A subject created over an existing `Talk_` namespace adopts it: if that one
  was a subject itself, with a talk side of its own, the index on the pairing
  refuses the creation; if it was paired with nobody, or has lost its partner,
  it becomes the talk side without being marked as one
  ("For a talk namespace, this points at the subject namespace",
  `core/src/namespace.rs:97`). `PairingIsMutual` claims what is left.
- A namespace deleted between its creation and the read of its answer is created
  without an entry; the request fails.
- Nothing keeps the last administrator from giving up, or losing, the role.
  `update_role` writes the whole row, so a rename restores the permissions it
  had read over a change made meanwhile. Two assignments of one role to one user
  log two entries; a revocation that loses a race logs what did not happen, and
  one that had read the role as not held revokes without an entry, although
  "the audit log should match real state transitions"
  (`api/src/admin/users.rs:348`): `LogMatchesChanges` excepts both.
- Registrations, log-ins and log-outs are answered although their entry could
  not be written. `prune_expired` is called by nobody: expired sessions stay as
  rows, and are read as if they were gone.
- The name of the anonymous editor is not reserved: once somebody has registered
  it, the row cannot be created, the conflict is taken for somebody else having
  created it, and every anonymous edit then fails on its foreign key.
- An upload of content that is there already is answered with the earlier row,
  even while that one has no bytes yet, or never gets them. Objects in a bucket
  may outlive their media, which the database back end excludes
  (`NothingOutlivesMedia`).
- Times are compared as text, and trailing zeros of a fraction are not written,
  so that a row of a whole second sorts after the rest of its second
  (`storage/src/sqlite/recent_changes.rs:128` calls the format lexicographically
  sortable). A feed may be out of order by less than a second, and `since` given
  at a whole second passes over rows. The audit log pads its times.
- A template that is called only inside the default of a reference is not
  fetched, and rendered as not found although it is there
  (`build_template_resolver` claims to "walk every `{{ns:Name}}` reference", and
  says of a missing template that it "is expected"). The same happens to a template
  that the walk finds at its last level, so that what it calls is fetched no more, if the
  expansion comes to it at a lesser depth: by way of a default, or of a
  template that was stored while the walk was under way. A template deleted
  between the read of its page and of its revision counts as empty, which the
  model leaves out. Depth and cycle checks bound the nesting and not the size: a
  template that calls the next one twice, twenty levels deep, is two to the twentieth
  texts, against "no exponential blow-up" (`docs/adr/0002-template-syntax.md`).
- The libsql adapter has one connection for all handlers, so that a statement
  outside a transaction joins whichever another handler has open, is answered
  before that one commits, and is rolled back with it: `IsAtomic` fails once
  `MCCalls` sends libsql a `user` as well. A second transaction is refused while
  one is open. The adapter is said to mirror "the SQLite one query-for-query —
  only the driver call sites differ" (`storage/src/libsql/mod.rs:7`).
- In Postgres the look for a talk namespace that is there already comes after
  the insert that failed, in a transaction that accepts no more: a subject can
  never be created over one, and the branch that reuses the row is dead.
- A SQLite transaction takes its locks as it goes, so that two decisions, or a
  decision and any writer, may find each other in the way and one is refused as
  busy. A decision that has been committed is read again on another connection;
  when none comes free, an approval is reported as failed that has been decided,
  and nothing is published.

## Not modelled

- *Most calls of the libsql and Postgres adapters.* The server opens SQLite
  alone; of the others `Adapters` has the calls that run several statements, and
  one that runs a single one. Remote libsql, SQLite in memory and with a
  write-ahead log are left out.
- *Pure functions of one request*: Markdown, wikilinks, the line diff, signature
  expansion, query parsing, scoring and snippets. They keep no state and are
  tested by example in the repository.
- *Single statements*: watches, marking notifications read, tag and category
  listings. Their cascades with a page are those of `NothingOutlivesPage`.
- *The category tree's ancestor check*: parents are given at creation only, to
  categories that are there, so no cycle can be made.
- Password hashing, the double-submit cookie, the captcha provider and the
  address taken from proxy headers: checks of one request against
  configuration, without state of the server.
- Configuration parsing, OpenAPI, static assets, telemetry, and the web client,
  which is TypeScript beside the server.
- In `WikiPages` the log keeps every entry; `Listing!Prune` is the pruner. The
  rounding of floating-point token counts. Wording, formatting, status codes and
  the notification to an author.

## Plan

Done: `WikiPages`, `SearchIndexer` with `SearchMirror`, `RateLimiter` with
`TokenBucket`, `Services` with its five parts, `Templates`, `Adapters` with `AtomicStore`; the runs above; the theorems
above. What would come next, in this order:

1. The serial theorems as a refinement: `WikiPages` with `Serial` implements a wiki in which a
   request is one step.
2. A statement about `Adapters` with loose statements of libsql: what such a call
   may be told, and what it cannot break.
