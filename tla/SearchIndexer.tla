--------------------------- MODULE SearchIndexer ---------------------------
(* The search indexer of thewiki: handlers hand jobs to a bounded channel,   *)
(* one worker applies them to a buffered writer and commits the buffer when  *)
(* the ticker fires or a batch is full, and a marker file tells the next     *)
(* start of the server whether to rebuild the index from the page store.     *)
(*                                                                           *)
(* The texts of a page are numbered in the order the store commits them; a   *)
(* page that is deleted never comes back.  Handlers of one page overlap: each*)
(* commits a text and hands it over some time later, in any order.  What the *)
(* channel accepted of a page is remembered in that order (told), and jobs,  *)
(* writer and index are positions in it.                                     *)
EXTENDS Integers, Sequences, FiniteSets

CONSTANTS
  Page,        \* the page ids
  LastText,    \* the texts of a page are numbered 1 .. LastText
  Capacity,    \* capacity of the channel (1024 in the code)
  Batch,       \* jobs per commit (commit_batch, 100 by default)
  Editable,    \* the pages that are edited while the server runs
  MaxStops,    \* bound on stops and kills of the process
  Failing,     \* what may fail: subset of Failure
  MaxFaults    \* bound on the failures

ASSUME SizesAssumption ==
  /\ LastText \in Nat \ {0}
  /\ Capacity \in Nat \ {0}
  /\ Batch \in Nat \ {0}
  /\ MaxStops \in Nat
  /\ MaxFaults \in Nat

\* A handler that is dropped, the queries of the rebuild, and the calls of
\* the writer.
Failure == {"handler", "list", "read", "commit", "marker", "upsert", "open"}

ASSUME FlagsAssumption ==
  /\ Editable \subseteq Page
  /\ Failing \subseteq Failure

Deleted == LastText + 1
Text == 1 .. LastText

\* Blank is the document of a page whose text could not be read.
Blank == -1

\* What a job leaves of a page in the index; 0 is no document.
Document == {0, Deleted, Blank} \cup Text

\* A job and, for each page it is about, its position in what was told; 0 for
\* the other pages.
Job == [kind : {"upsert", "delete", "wipe"}, at : [Page -> Nat]]

VARIABLES
  stored,    \* page -> the text in the page store, 0 or Deleted
  owed,      \* page -> the states whose handlers have not handed them over
  told,      \* page -> the document on disk when the process started, and
             \* those the channel accepted since, in its order
  chan,      \* the channel
  buffer,    \* page -> position of the document in the writer
  index,     \* page -> position of the document readers find on disk
  marker,    \* whether .last_indexed exists
  pending,   \* pending_since_commit
  worker,    \* where the worker is in its loop
  scan,      \* the startup rebuild: its stage, the rows of its slice
  proc,      \* the server process
  stops, faults

line == <<told, chan>>
life == <<proc, stops>>
store == <<stored, owed>>
writer == <<buffer, index, marker>>
vars == <<store, line, writer, pending, worker, scan, life, faults>>

NoScan == [pc |-> "off", rows |-> [p \in Page |-> 0]]
FromScratch == [NoScan EXCEPT !.pc = "wipe"]

\* The server starts on an index that is complete, or on none.
Init ==
  /\ stored \in [Page -> {0, 1}]
  /\ owed = [p \in Page |-> {}]
  /\ marker \in BOOLEAN
  /\ told = [p \in Page |-> <<IF marker THEN stored[p] ELSE 0>>]
  /\ chan = <<>>
  /\ index = [p \in Page |-> 1]
  /\ buffer = [p \in Page |-> 1]
  /\ pending = 0
  /\ worker = "select"
  /\ scan = IF marker THEN NoScan ELSE FromScratch
  /\ proc = "up"
  /\ stops = 0
  /\ faults = 0

Running == proc # "down"

\* A call that fails.
Fault(kind) == kind \in Failing /\ faults < MaxFaults /\ faults' = faults + 1

-----------------------------------------------------------------------------
(* Handlers.                                                               *)

\* What is told when documents are accepted for some pages.
Telling(docs) ==
  [p \in Page |-> IF p \in DOMAIN docs THEN Append(told[p], docs[p]) ELSE told[p]]

\* try_send never waits: on a full or closed channel the job is dropped.
try_send(kind, docs) ==
  IF worker # "exited" /\ Len(chan) < Capacity
  THEN /\ told' = Telling(docs)
       /\ chan' = Append(chan,
            [kind |-> kind,
             at |-> [p \in Page |-> IF p \in DOMAIN docs THEN Len(told[p]) + 1 ELSE 0]])
  ELSE UNCHANGED line

Sent(p, d) ==
  try_send(IF d = Deleted THEN "delete" ELSE "upsert", [q \in {p} |-> d])

\* Mutant of Edit: a text whose commit failed is handed over all the same.
EditUncommitted(p) ==
  /\ proc = "up"
  /\ p \in Editable
  /\ stored[p] # Deleted
  /\ owed' = [owed EXCEPT ![p] = @ \cup {stored[p] + 1}]
  /\ UNCHANGED <<stored, line, writer, pending, worker, scan, life, faults>>

\* A handler commits the next text of a page, or its deletion ...
Edit(p) ==
  /\ proc = "up"
  /\ p \in Editable
  /\ stored[p] # Deleted
  /\ \E s \in {stored[p] + 1} \cup (IF stored[p] = 0 THEN {} ELSE {Deleted}) :
       /\ stored' = [stored EXCEPT ![p] = s]
       /\ owed' = [owed EXCEPT ![p] = @ \cup {s}]
  /\ UNCHANGED <<line, writer, pending, worker, scan, life, faults>>

\* ... and hands it over once it has done everything else, ...
HandOver(p) ==
  /\ Running
  /\ \E d \in owed[p] :
       /\ Sent(p, d)
       /\ owed' = [owed EXCEPT ![p] = @ \ {d}]
  /\ UNCHANGED <<stored, writer, pending, worker, scan, life, faults>>

\* ... unless it is dropped before, or one of its calls in between fails.
Lose(p) ==
  /\ Running
  /\ \E d \in owed[p] : owed' = [owed EXCEPT ![p] = @ \ {d}]
  /\ Fault("handler")
  /\ UNCHANGED <<stored, line, writer, pending, worker, scan, life>>

\* An approved edit is committed like any other, but nobody hands it over.
Approve(p) ==
  /\ proc = "up"
  /\ p \in Editable
  /\ stored[p] \in 1 .. LastText - 1
  /\ stored' = [stored EXCEPT ![p] = @ + 1]
  /\ UNCHANGED <<owed, line, writer, pending, worker, scan, life, faults>>

-----------------------------------------------------------------------------
(* The writer.  A commit makes the documents durable and then writes the     *)
(* marker; either can fail.  Whether the writer keeps what it could not      *)
(* commit is up to the search library.                                       *)

Commit(docs) ==
  \/ /\ index' = docs /\ buffer' = docs /\ marker' = TRUE
     /\ UNCHANGED faults
  \/ /\ Fault("marker")
     /\ index' = docs /\ buffer' = docs /\ UNCHANGED marker
  \/ /\ Fault("commit")
     /\ buffer' \in {docs, buffer, index} /\ UNCHANGED <<index, marker>>

\* The positions in the writer once a job has been applied.
Applied(job) == [p \in Page |-> IF job.at[p] = 0 THEN buffer[p] ELSE job.at[p]]

\* An upsert deletes the old document first: when the writer refuses the new
\* one, what was told comes to nothing.
Refused(job) ==
  [p \in Page |-> IF job.at[p] = 0 THEN told[p] ELSE [told[p] EXCEPT ![job.at[p]] = 0]]

\* A wipe is committed at once.  An upsert or a deletion is buffered.
apply_job(job) ==
  IF job.kind = "wipe" THEN Commit(Applied(job)) /\ UNCHANGED told
  ELSE /\ buffer' = Applied(job)
       /\ UNCHANGED <<index, marker>>
       /\ \/ UNCHANGED <<told, faults>>
          \/ job.kind = "upsert" /\ Fault("upsert") /\ told' = Refused(job)

\* The channel yields a job, which counts towards the batch.
Take ==
  /\ chan # <<>>
  /\ apply_job(Head(chan))
  /\ chan' = Tail(chan)
  /\ pending' = pending + 1
  /\ UNCHANGED <<store, scan, life>>

\* rx.recv() yields a job.
Receive ==
  /\ Running
  /\ worker = "select"
  /\ Take
  /\ worker' = "drain"

\* Mutants of Drain: a burst is taken whole; the newest job is taken first.
DrainWhole ==
  /\ Running
  /\ worker = "drain"
  /\ Take
  /\ UNCHANGED worker

DrainNewest ==
  /\ Running
  /\ worker = "drain"
  /\ pending < Batch
  /\ chan # <<>>
  /\ apply_job(chan[Len(chan)])
  /\ chan' = SubSeq(chan, 1, Len(chan) - 1)
  /\ pending' = pending + 1
  /\ UNCHANGED <<store, worker, scan, life>>

\* rx.try_recv() yields one more, up to a full batch.
Drain ==
  /\ Running
  /\ worker = "drain"
  /\ pending < Batch
  /\ Take
  /\ UNCHANGED worker

\* Mutant of Drained: the count starts afresh with every burst.
DrainedForgets ==
  /\ Running
  /\ worker = "drain"
  /\ \/ /\ pending >= Batch
        /\ Commit(buffer)
     \/ /\ pending < Batch
        /\ chan = <<>>
        /\ UNCHANGED <<writer, faults>>
  /\ pending' = 0
  /\ worker' = "select"
  /\ UNCHANGED <<store, line, scan, life>>

\* The burst is over: a full batch is committed, and the count starts at
\* zero whether or not the commit succeeded.
Drained ==
  /\ Running
  /\ worker = "drain"
  /\ \/ /\ pending >= Batch
        /\ Commit(buffer)
        /\ pending' = 0
     \/ /\ pending < Batch
        /\ chan = <<>>
        /\ UNCHANGED <<writer, faults, pending>>
  /\ worker' = "select"
  /\ UNCHANGED <<store, line, scan, life>>

\* The ticker fires with jobs applied since the last commit.
Tick ==
  /\ Running
  /\ worker = "select"
  /\ pending > 0
  /\ Commit(buffer)
  /\ pending' = 0
  /\ UNCHANGED <<store, line, worker, scan, life>>

-----------------------------------------------------------------------------
(* The startup rebuild, a task of its own that replays the store through     *)
(* the channel: a wipe, then one upsert per page of a slice of rows.  It     *)
(* does not look at what became of a job.                                    *)

StartScan ==
  /\ Running
  /\ scan.pc = "wipe"
  /\ try_send("wipe", [p \in Page |-> 0])
  /\ scan' = [scan EXCEPT !.pc = "list"]
  /\ UNCHANGED <<store, writer, pending, worker, life, faults>>

\* Mutant of ListPages: the last row of a slice becomes the cursor and is
\* not sent.
ListPagesShort ==
  /\ Running
  /\ scan.pc = "list"
  /\ \E last \in Page :
       scan' = [pc |-> "send",
                rows |-> [p \in Page |-> IF stored[p] \in Text /\ p # last
                                         THEN stored[p] ELSE 0]]
  /\ UNCHANGED <<store, line, writer, pending, worker, life, faults>>

\* One query reads the rows of a slice (200; the pages here fit in one).
\* When it fails, the rebuild is over.
ListPages ==
  /\ Running
  /\ scan.pc = "list"
  /\ \/ /\ scan' = [pc |-> "send",
                    rows |-> [p \in Page |-> IF stored[p] \in Text THEN stored[p] ELSE 0]]
        /\ UNCHANGED faults
     \/ Fault("list") /\ scan' = NoScan
  /\ UNCHANGED <<store, line, writer, pending, worker, life>>

\* The text of the row's head revision is read when its turn comes.  When
\* that fails, as it does once the page has been deleted, it is empty.
SendPage(p) ==
  /\ Running
  /\ scan.pc = "send"
  /\ scan.rows[p] # 0
  /\ \/ Sent(p, IF stored[p] = Deleted THEN Blank ELSE scan.rows[p]) /\ UNCHANGED faults
     \/ Fault("read") /\ Sent(p, Blank)
  /\ scan' = [scan EXCEPT !.rows[p] = 0]
  /\ UNCHANGED <<store, writer, pending, worker, life>>

EndScan ==
  /\ Running
  /\ scan.pc = "send"
  /\ \A p \in Page : scan.rows[p] = 0
  /\ scan' = NoScan
  /\ UNCHANGED <<store, line, writer, pending, worker, life, faults>>

-----------------------------------------------------------------------------
(* The life of the server.                                                   *)

\* The signal: no new requests, those in flight are drained.  A request that
\* commits after the signal might as well have done so before.
Shutdown ==
  /\ proc = "up"
  /\ stops < MaxStops
  /\ proc' = "closing"
  /\ stops' = stops + 1
  /\ UNCHANGED <<store, line, writer, pending, worker, scan, faults>>

NoneInFlight == \A p \in Page : owed[p] = {}

\* Once every handle is dropped and the channel is empty, the worker commits
\* what is left and ends ...
Finish ==
  /\ proc = "closing"
  /\ NoneInFlight
  /\ scan.pc = "off"
  /\ worker = "select"
  /\ chan = <<>>
  /\ worker' = "exited"
  /\ IF pending > 0 THEN Commit(buffer) ELSE UNCHANGED <<writer, faults>>
  /\ UNCHANGED <<store, line, pending, scan, life>>

\* The document readers find of a page.
Found(p) == told[p][index[p]]

\* What is on disk is all there is: the position of a page is the first.
Afresh(docs) ==
  /\ told' = [p \in Page |-> <<docs[p]>>]
  /\ index' = [p \in Page |-> 1]
  /\ buffer' = [p \in Page |-> 1]

\* What only the memory of the process held is gone.
Stop ==
  /\ proc' = "down"
  /\ owed' = [p \in Page |-> {}]
  /\ chan' = <<>>
  /\ Afresh([p \in Page |-> Found(p)])
  /\ pending' = 0
  /\ worker' = "select"
  /\ scan' = NoScan
  /\ UNCHANGED <<stored, marker, faults>>

\* ... unless main returns first: nobody waits for the worker.
Exit ==
  /\ proc = "closing"
  /\ NoneInFlight
  /\ Stop
  /\ UNCHANGED stops

Crash ==
  /\ Running
  /\ stops < MaxStops
  /\ stops' = stops + 1
  /\ Stop

\* The marker alone decides whether the index is rebuilt.  A worker that
\* cannot open its writer ends, and the server runs without it.
Boot ==
  /\ proc = "down"
  /\ proc' = "up"
  /\ scan' = IF marker THEN NoScan ELSE FromScratch
  /\ \/ UNCHANGED <<worker, faults>>
     \/ Fault("open") /\ worker' = "exited"
  /\ UNCHANGED <<store, line, writer, pending, stops>>

\* `thewiki reindex`, while no server holds the writer's lock.
Reindex ==
  /\ proc = "down"
  /\ Afresh(stored)
  /\ marker' = TRUE
  /\ UNCHANGED <<store, chan, pending, worker, scan, life, faults>>

Work == Receive \/ Drain \/ Drained \/ Tick \/ Finish

Scan == StartScan \/ ListPages \/ EndScan \/ \E p \in Page : SendPage(p)

Next ==
  \/ \E p \in Page : Edit(p) \/ HandOver(p) \/ Lose(p) \/ Approve(p)
  \/ Work \/ Scan
  \/ Shutdown \/ Exit \/ Crash \/ Boot \/ Reindex

Spec == Init /\ [][Next]_vars

\* The runtime polls every task that can make progress, and the ticker fires.
FairSpec ==
  /\ Spec
  /\ \A p \in Page : WF_vars(HandOver(p)) /\ WF_vars(SendPage(p))
  /\ WF_vars(Receive) /\ WF_vars(Drain) /\ WF_vars(Drained) /\ WF_vars(Tick)
  /\ WF_vars(StartScan) /\ WF_vars(ListPages) /\ WF_vars(EndScan)

-----------------------------------------------------------------------------
(* Properties.                                                               *)

\* Everything is well formed, the channel within its capacity and the count
\* within a batch.
TypeOK ==
  /\ stored \in [Page -> Text \cup {0, Deleted}]
  /\ owed \in [Page -> SUBSET (Text \cup {Deleted})]
  /\ told \in [Page -> Seq(Document)]
  /\ chan \in Seq(Job) /\ Len(chan) <= Capacity
  /\ buffer \in [Page -> Nat]
  /\ index \in [Page -> Nat]
  /\ marker \in BOOLEAN
  /\ pending \in 0 .. Batch
  /\ worker \in {"select", "drain", "exited"}
  /\ scan \in [pc : {"off", "wipe", "list", "send"}, rows : [Page -> Text \cup {0}]]
  /\ proc \in {"up", "closing", "down"}
  /\ stops \in 0 .. MaxStops
  /\ faults \in 0 .. MaxFaults

Mirror == INSTANCE SearchMirror WITH
  shown <- index,
  Refusals <- "upsert" \in Failing

\* Of each page, readers find what the channel accepted of it, in that order
\* and without going back, through overlapping handlers, rebuilds, dropped
\* jobs, failed commits, stops, kills and reindexing; a document comes to
\* nothing only when the writer refuses it.
MirrorsStore == Mirror!Spec

\* Readers find no text and no deletion the store has not committed, even
\* while a rebuild replays old rows over newer jobs.
NeverAhead == \A p \in Page : Found(p) <= stored[p]

Undisturbed == proc = "up" /\ faults = 0 /\ Len(chan) < Capacity

\* While the server runs, its channel never fills and nothing fails, the last
\* thing the channel accepts of each page becomes searchable, in whichever
\* order handlers hand over.  It says nothing of texts nobody hands over.
Follows == []Undisturbed => Mirror!Follows

Shown(d) == IF d = Deleted THEN 0 ELSE d
InSync(p) == Shown(Found(p)) = Shown(stored[p])

Covered == <>[](\A p \in Page \ Editable : InSync(p))

\* A start brings every page back that nobody edits meanwhile, whatever
\* happens to the others, as long as the server runs, the channel never fills
\* and nothing fails.
RebuildCovers == []Undisturbed => Covered

\* Nothing is on its way to the index.
AtRest ==
  /\ proc = "up" /\ worker = "select" /\ pending = 0 /\ chan = <<>>
  /\ scan.pc = "off" /\ NoneInFlight

\* main.rs says of the startup rebuild: "so the index never silently lags".
\* Refuted without a failure, a stop or an edit: the rebuild does not wait
\* for room in the channel and ignores that a job was dropped, and its wipe
\* has written the marker.
IndexIsCurrent ==
  AtRest /\ stops = 0 /\ faults = 0 => \A p \in Page : InSync(p)

=============================================================================
