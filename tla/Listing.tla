------------------------------ MODULE Listing -------------------------------
(* The listings: a table sorted by the text of its creation time and by id,  *)
(* read a slice at a time from where the last slice ended, while rows come   *)
(* and go.  Feeds and logs are read newest first, pages and users oldest     *)
(* first.  A second has PerSecond instants, the first of which is written    *)
(* without a fraction.                                                       *)
EXTENDS Requests, SequencesExt

CONSTANTS
  SliceSize,  \* the limit of the client
  PerSecond,  \* the instants in a second
  Retention,  \* how long the audit log keeps an entry
  LastTime    \* bound on the clock

ASSUME ListingAssumption ==
  /\ SliceSize \in Nat \ {0} /\ PerSecond \in Nat \ {0}
  /\ Retention \in Nat /\ LastTime \in Nat

VARIABLES
  padded,  \* TRUE: the audit log, whose times are written with nine digits
  clock,   \* the time
  rows     \* the table: [at |-> creation time, id |-> id]

lsVars == <<padded, clock, rows>>

-----------------------------------------------------------------------------

\* A row from before the first request.
Old == [at |-> 0, id |-> 0]

LsInit ==
  /\ padded \in BOOLEAN /\ (topic # "listing" => padded)
  /\ clock = 0
  /\ rows \in SUBSET {Old} /\ (topic # "listing" => rows = {})

\* Mutant of Text: nobody pads.
TextTrimmed(t) ==
  IF t % PerSecond = 0 THEN t + PerSecond ELSE t

\* What the text of a time sorts as.  "Z" sorts after ".", so that a time
\* written without its zero fraction comes after the rest of its second.
Text(t) ==
  IF ~padded /\ t % PerSecond = 0 THEN t + PerSecond ELSE t

\* Mutant of Before: the cursor is the time alone.
BeforeByTime(x, y) == Text(x.at) < Text(y.at)

\* (created_at, id) < (created_at, id)
Before(x, y) ==
  \/ Text(x.at) < Text(y.at)
  \/ Text(x.at) = Text(y.at) /\ x.id < y.id

\* The time passes.
Tick ==
  /\ topic = "listing"
  /\ clock < LastTime
  /\ clock' = clock + 1
  /\ UNCHANGED <<h, padded, rows, audit, changed>>

\* A row gets its time and its id first, and is inserted some time after.
Stamp(r) ==
  /\ Arrive(r, "listing", "add", [at |-> clock, id |-> Cardinality(Arrived) + 1], "insert", Nil)
  /\ UNCHANGED <<padded, clock, rows>>

InsertRow(r) ==
  /\ At(r, "add", "insert")
  /\ rows' = rows \cup {h[r].key}
  /\ Go(r, "done")
  /\ UNCHANGED <<padded, clock>>

RemoveRow(r) ==
  /\ ~padded
  /\ \E x \in rows :
       /\ rows' = rows \ {x}
       /\ Arrive(r, "listing", "remove", x, "done", Nil)
  /\ UNCHANGED <<padded, clock>>

\* The audit log only loses what is older than the retention.
Prune(r) ==
  /\ padded
  /\ clock >= Retention
  /\ rows' = {x \in rows : ~(Text(x.at) < Text(clock - Retention))}
  /\ Arrive(r, "listing", "prune", Nil, "done", Nil)
  /\ UNCHANGED <<padded, clock>>

StartWalk(r) ==
  /\ \E order \in {"newest", "oldest"} :
       Arrive(r, "listing", "walk", Nil, "slice",
              [order |-> order, present |-> rows, walked |-> <<>>])
  /\ UNCHANGED <<padded, clock, rows>>

InOrder(r, x, y) == IF h[r].seen.order = "oldest" THEN Before(x, y) ELSE Before(y, x)

\* ORDER BY and LIMIT: no row comes before one that is returned, and all are
\* returned but those beyond the limit.
Slices(r, left) ==
  {slice \in UNION {[1 .. n -> left] : n \in 0 .. SliceSize} :
     /\ \A i, j \in DOMAIN slice :
          i < j => slice[i] # slice[j] /\ ~InOrder(r, slice[j], slice[i])
     /\ \A x \in left \ Range(slice) :
          Len(slice) = SliceSize /\ \A i \in DOMAIN slice : ~InOrder(r, x, slice[i])}

\* The cursor is the last row returned; one row more than asked for tells
\* whether there is another slice.
ReadSlice(r) ==
  LET walked == h[r].seen.walked
      left == {x \in rows : walked = <<>> \/ InOrder(r, Last(walked), x)}
  IN /\ At(r, "walk", "slice")
     /\ \E slice \in Slices(r, left) :
          GoWith(r, IF left \subseteq Range(slice) THEN "done" ELSE "slice",
                 [h[r].seen EXCEPT !.walked = @ \o slice, !.present = @ \cap rows])
     /\ UNCHANGED <<padded, clock, rows>>

LsStep(r) ==
  /\ \/ Stamp(r) \/ InsertRow(r) \/ RemoveRow(r) \/ Prune(r)
     \/ StartWalk(r) \/ ReadSlice(r)
  /\ UNCHANGED <<audit, changed>>

-----------------------------------------------------------------------------

LsTypeOK ==
  /\ padded \in BOOLEAN
  /\ clock \in 0 .. LastTime
  /\ rows \subseteq [at : 0 .. LastTime, id : 0 .. Cardinality(Request)]

\* A client that follows the cursors to the end gets every row that was there
\* all the time, and none twice, whatever is inserted and deleted between two
\* slices ("the predicate is stable even when two revisions share a timestamp").
WalkIsComplete ==
  \A r \in Request : At(r, "walk", "done") =>
    LET walked == h[r].seen.walked
    IN /\ h[r].seen.present \subseteq {walked[i] : i \in DOMAIN walked}
       /\ Cardinality({walked[i] : i \in DOMAIN walked}) = Len(walked)

\* The audit log is read in the order of time, and loses by its pruner no
\* entry younger than the retention.
LogIsChronological ==
  padded => \A r \in Request :
    /\ At(r, "walk", "done") /\ h[r].seen.order = "newest" =>
         \A i, j \in DOMAIN h[r].seen.walked :
           i < j => h[r].seen.walked[i].at >= h[r].seen.walked[j].at
    /\ At(r, "add", "done") /\ h[r].key \notin rows =>
         h[r].key.at < clock - Retention

=============================================================================
