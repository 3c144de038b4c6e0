------------------------------- MODULE Media --------------------------------
(* Media: an upload is a row, its bytes in the database or in a bucket, and  *)
(* smaller variants made after the answer; a deletion takes them away one    *)
(* by one, and a command makes the variants again.  One label stands for all *)
(* the sizes of a variant.                                                   *)
EXTENDS Requests

CONSTANT Content  \* what may be uploaded, by its hash

\* Nothing is neither a content nor an operation.
ASSUME MediaAssumption == Nil \notin Content \cup {"discard"}

VARIABLES
  inline,   \* TRUE: bytes live in the database, FALSE: in a bucket
  media,    \* id, the request that uploaded it -> its content, or Nil
  bytes,    \* the ids that have bytes
  variants, \* the ids that have a row for a variant
  objects   \* the ids that have an object in the bucket for a variant

mdStore == <<media, bytes, variants, objects>>
mdVars == <<inline, mdStore>>

-----------------------------------------------------------------------------

MdInit ==
  /\ inline \in BOOLEAN /\ (topic # "media" => inline)
  /\ media = [m \in Request |-> Nil]
  /\ bytes = {}
  /\ variants = {}
  /\ objects = {}

Stored == {media[m] : m \in {q \in Request : media[q] # Nil}}

\* No row has the hash.  One that has is the answer, and nothing changes.
LookForHash(r) ==
  /\ \E c \in Content \ Stored : Arrive(r, "media", "upload", r, "row", c)
  /\ UNCHANGED mdStore

\* The hash is UNIQUE.
InsertMedia(r) ==
  /\ At(r, "upload", "row")
  /\ \/ /\ h[r].seen \notin Stored
        /\ media' = [media EXCEPT ![r] = h[r].seen]
        /\ Go(r, "put")
     \/ /\ h[r].seen \in Stored
        /\ Go(r, "refused")
        /\ UNCHANGED media
  /\ UNCHANGED <<bytes, variants, objects>>

\* A put into the database needs the row; one into a bucket does not ask.
\* After the answer a thumbnail is made of it, or it is of no such kind.
PutBytes(r) ==
  /\ At(r, "upload", "put")
  /\ inline => media[r] # Nil
  /\ bytes' = bytes \cup {r}
  /\ \E next \in {"clear", "done"} : Go(r, next)
  /\ UNCHANGED <<media, variants, objects>>

PutFails(r) ==
  /\ At(r, "upload", "put")
  /\ Lossy \/ (inline /\ media[r] = Nil)
  /\ Go(r, "cleanup")
  /\ UNCHANGED mdStore

\* A row goes, and what refers to it.
Cascade(m) ==
  /\ media' = [media EXCEPT ![m] = Nil]
  /\ variants' = variants \ {m}
  /\ bytes' = IF inline THEN bytes \ {m} ELSE bytes
  /\ UNCHANGED objects

\* Best effort: nobody hears of a failure.
Cleanup(r) ==
  /\ At(r, "upload", "cleanup")
  /\ Cascade(r) \/ (Lossy /\ UNCHANGED mdStore)
  /\ Go(r, "refused")

-----------------------------------------------------------------------------
(* Variants: of an upload just made, or made again by the command.           *)

\* The command lists the rows and fetches the bytes of each.
Fetch(r) ==
  /\ \E m \in Request :
       /\ media[m] # Nil /\ m \in bytes
       /\ Arrive(r, "media", "regenerate", m, "clear", Nil)
  /\ UNCHANGED mdStore

\* A failure is logged, and the variants are made all the same.
ClearVariants(r) ==
  /\ h[r].pc = "clear"
  /\ variants' = variants \ {h[r].key} \/ (Lossy /\ UNCHANGED variants)
  /\ Go(r, IF inline THEN "variant" ELSE "object")
  /\ UNCHANGED <<media, bytes, objects>>

PutObject(r) ==
  /\ h[r].pc = "object"
  /\ \/ /\ objects' = objects \cup {h[r].key}
        /\ Go(r, "variant")
     \/ /\ Lossy
        /\ Go(r, "done")
        /\ UNCHANGED objects
  /\ UNCHANGED <<media, bytes, variants>>

\* Mutant of PutVariant: without the foreign key.
PutVariantUnchecked(r) ==
  /\ h[r].pc = "variant"
  /\ variants' = variants \cup {h[r].key}
  /\ Go(r, "done")
  /\ UNCHANGED <<media, bytes, objects>>

\* INSERT OR REPLACE; the foreign key refuses it when the media has gone.
PutVariant(r) ==
  /\ h[r].pc = "variant"
  /\ variants' = IF media[h[r].key] # Nil THEN variants \cup {h[r].key} ELSE variants
  /\ Go(r, "done")
  /\ UNCHANGED <<media, bytes, objects>>

-----------------------------------------------------------------------------
(* Deletion.                                                                 *)

FindMedia(r) ==
  /\ \E m \in Request :
       /\ media[m] # Nil
       /\ Arrive(r, "media", "discard", m, "bytes", Nil)
  /\ UNCHANGED mdStore

DeleteBytes(r) ==
  /\ At(r, "discard", "bytes")
  /\ bytes' = bytes \ {h[r].key}
  /\ Go(r, "objects")
  /\ UNCHANGED <<media, variants, objects>>

\* Best effort as well.
DeleteObjects(r) ==
  /\ At(r, "discard", "objects")
  /\ \/ objects' = objects \ {h[r].key}
     \/ Lossy /\ UNCHANGED objects
  /\ Go(r, "row")
  /\ UNCHANGED <<media, bytes, variants>>

DeleteMedia(r) ==
  /\ At(r, "discard", "row")
  /\ Cascade(h[r].key)
  /\ Go(r, IF media[h[r].key] # Nil THEN "done" ELSE "refused")

MdStep(r) ==
  /\ \/ LookForHash(r) \/ InsertMedia(r) \/ PutBytes(r) \/ PutFails(r) \/ Cleanup(r)
     \/ Fetch(r) \/ ClearVariants(r) \/ PutObject(r) \/ PutVariant(r)
     \/ FindMedia(r) \/ DeleteBytes(r) \/ DeleteObjects(r) \/ DeleteMedia(r)
  /\ UNCHANGED <<inline, audit, changed>>

-----------------------------------------------------------------------------

MdTypeOK ==
  /\ inline \in BOOLEAN
  /\ media \in [Request -> Content \cup {Nil}]
  /\ bytes \subseteq Request
  /\ variants \subseteq Request
  /\ objects \subseteq Request

\* Somebody set out to delete m.
Discarded(m) == \E d \in Request : h[d].op = "discard" /\ h[d].key = m

\* What is listed can be served.  A media has its bytes, unless its upload has
\* not got that far or failed, or a deletion of it has begun: neither an upload
\* of the same content nor a second deletion, nor the variants made meanwhile,
\* take them away.  A variant has its own, in the row or in the bucket, unless
\* a deletion has begun: the row comes after the object.
MediaIsServed ==
  /\ \A m \in Request : media[m] # Nil /\ m \notin bytes =>
       h[m].pc \in {"put", "cleanup", "refused", "lost"} \/ Discarded(m)
  /\ \A m \in variants : inline \/ m \in objects \/ Discarded(m)

\* In the database nothing is left of a media that has gone, although its
\* bytes and its variants may be written after it went.
NothingOutlivesMedia ==
  inline => \A m \in bytes \cup variants : media[m] # Nil

\* What is listed is there, and in the database only what is listed.
MediaIsWhole == MediaIsServed /\ NothingOutlivesMedia

=============================================================================
