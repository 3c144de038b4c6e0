----------------------- MODULE SearchIndexer_proofs ------------------------
(* Theorems about the search indexer: its channel and its count stay within  *)
(* their bounds, readers never find what the store has not committed, and    *)
(* the index implements the mirror of SearchMirror.  They rest on one        *)
(* invariant: of each page, the position on disk, the one in the writer, the *)
(* ones in the channel, in its order, and the last one told follow on each   *)
(* other, and nothing was told that the store had not committed.             *)
EXTENDS SearchIndexer, SequenceTheorems, TLAPS

-----------------------------------------------------------------------------
(* The invariant.                                                            *)

\* The states of a page are documents, and all of them are numbers.
LEMMA Documents ==
  /\ Document \subseteq Int
  /\ Text \cup {0, Deleted, Blank} = Document
  /\ \A d \in Text \cup {Deleted} : d > 0
  /\ Text \cup {0, Deleted} = 0 .. Deleted
  /\ Document \subseteq Mirror!State \cup {-1}
  BY SizesAssumption DEF Document, Text, Deleted, Blank, Mirror!State, Mirror!Deleted

\* What is in the line between the store and the readers of a page.
LineTyped ==
  /\ told \in [Page -> Seq(Document)]
  /\ chan \in Seq(Job) /\ Len(chan) <= Capacity
  /\ buffer \in [Page -> Nat] /\ index \in [Page -> Nat]

\* The jobs about a page are past what the writer holds ...
Ahead(p) ==
  \A i \in 1 .. Len(chan) :
    chan[i].at[p] # 0 => buffer[p] < chan[i].at[p] /\ chan[i].at[p] <= Len(told[p])

\* ... and in the order they were told.
InOrder(p) ==
  \A i, j \in 1 .. Len(chan) :
    i < j /\ chan[i].at[p] # 0 /\ chan[j].at[p] # 0 => chan[i].at[p] < chan[j].at[p]

ToldCommitted(p) == \A n \in 1 .. Len(told[p]) : told[p][n] <= stored[p]

LineOK(p) ==
  /\ 1 <= index[p] /\ index[p] <= buffer[p] /\ buffer[p] <= Len(told[p])
  /\ Ahead(p) /\ InOrder(p) /\ ToldCommitted(p)

\* What handlers and the rebuild are about to tell is committed.
HandsOK(p) ==
  /\ \A d \in owed[p] : d <= stored[p]
  /\ scan.rows[p] <= stored[p]

\* Between bursts there is room for a job in the batch.
Room == worker = "select" => pending < Batch

\* A process that is gone has left its channel behind.
Gone == proc = "down" => chan = <<>>

Inv ==
  /\ TypeOK /\ Room /\ Gone
  /\ \A p \in Page : LineOK(p) /\ HandsOK(p)

LEMMA InvTyped ==
  ASSUME Inv
  PROVE  /\ LineTyped
         /\ Len(chan) \in Nat
         /\ \A i \in 1 .. Len(chan) : chan[i] \in Job
         /\ \A p \in Page : Len(told[p]) \in Nat /\ stored[p] \in Document
         /\ \A p \in Page : \A n \in 1 .. Len(told[p]) : told[p][n] \in Document
         /\ \A p \in Page : told[p] \in Seq(Document)
  <1>1. LineTyped /\ stored \in [Page -> Text \cup {0, Deleted}]
    BY DEF Inv, TypeOK, LineTyped
  <1>2. Len(chan) \in Nat /\ \A i \in 1 .. Len(chan) : chan[i] \in Job
    BY <1>1, LenProperties, ElementOfSeq DEF LineTyped
  <1>3. \A p \in Page : told[p] \in Seq(Document)
    BY <1>1 DEF LineTyped
  <1>4. \A p \in Page : Len(told[p]) \in Nat
    BY <1>3, LenProperties
  <1>5. \A p \in Page : \A n \in 1 .. Len(told[p]) : told[p][n] \in Document
    BY <1>3, ElementOfSeq
  <1>6. \A p \in Page : stored[p] \in Document
    BY <1>1, Documents
  <1> QED BY <1>1, <1>2, <1>3, <1>4, <1>5, <1>6

\* A line of one document, on disk and in the writer, with nothing behind it.
LEMMA FreshLine ==
  ASSUME NEW docs \in [Page -> Document], NEW p \in Page,
         told = [q \in Page |-> <<docs[q]>>], chan = <<>>,
         index = [q \in Page |-> 1], buffer = [q \in Page |-> 1],
         docs[p] <= stored[p]
  PROVE  LineOK(p)
  <1>1. Len(chan) = 0
    BY EmptySeq
  <1>2. told[p] = <<docs[p]>> /\ Len(told[p]) = 1 /\ told[p][1] = docs[p]
    OBVIOUS
  <1>3. Ahead(p) /\ InOrder(p)
    BY <1>1 DEF Ahead, InOrder
  <1>4. ToldCommitted(p)
    BY <1>2 DEF ToldCommitted
  <1> QED BY <1>2, <1>3, <1>4 DEF LineOK

LEMMA FreshTyped ==
  ASSUME NEW docs \in [Page -> Document],
         told = [p \in Page |-> <<docs[p]>>], chan = <<>>,
         index = [p \in Page |-> 1], buffer = [p \in Page |-> 1]
  PROVE  LineTyped
  <1>1. \A p \in Page : <<docs[p]>> \in Seq(Document)
    OBVIOUS
  <1>2. chan \in Seq(Job) /\ Len(chan) = 0
    BY EmptySeq
  <1> QED BY <1>1, <1>2, SizesAssumption DEF LineTyped

LEMMA ScanTyped ==
  {NoScan, FromScratch}
    \subseteq [pc : {"off", "wipe", "list", "send"}, rows : [Page -> Text \cup {0}]]
  BY DEF NoScan, FromScratch

LEMMA InvInit == Init => Inv
  <1> SUFFICES ASSUME Init PROVE Inv
    OBVIOUS
  <1> DEFINE docs == [p \in Page |-> IF marker THEN stored[p] ELSE 0]
  <1>1. /\ stored \in [Page -> Text \cup {0, Deleted}]
        /\ \A p \in Page : stored[p] >= 0
    BY SizesAssumption DEF Init, Text, Deleted
  <1>2. /\ docs \in [Page -> Document]
        /\ \A p \in Page : docs[p] <= stored[p]
        /\ told = [p \in Page |-> <<docs[p]>>]
    BY <1>1, Documents DEF Init
  <1> HIDE DEF docs
  <1>3. LineTyped
    BY <1>2, FreshTyped DEF Init
  <1>4. \A p \in Page : LineOK(p)
    BY <1>2, FreshLine DEF Init
  <1>5. scan \in {NoScan, FromScratch} /\ owed = [p \in Page |-> {}]
    BY DEF Init
  <1>6. \A p \in Page : HandsOK(p)
    BY <1>1, <1>5 DEF HandsOK, NoScan, FromScratch
  <1>7. TypeOK
    BY <1>1, <1>3, <1>5, ScanTyped, SizesAssumption DEF TypeOK, LineTyped, Init
  <1> QED BY <1>4, <1>6, <1>7, SizesAssumption DEF Inv, Room, Gone, Init

-----------------------------------------------------------------------------
(* The line is told something.                                               *)

\* Nothing happens to the line while the store advances.
LEMMA LineStays ==
  ASSUME Inv, UNCHANGED <<told, chan, buffer, index>>, NEW p \in Page,
         stored'[p] \in Document, stored[p] <= stored'[p]
  PROVE  LineOK(p)'
  <1>1. LineOK(p)
    BY DEF Inv
  <1>2. Ahead(p)' /\ InOrder(p)'
    BY <1>1 DEF LineOK, Ahead, InOrder
  <1>3. ToldCommitted(p)'
    <2> SUFFICES ASSUME NEW n \in 1 .. Len(told[p])
                 PROVE  told[p][n] <= stored'[p]
      BY DEF ToldCommitted
    <2>1. told[p][n] \in Int /\ stored[p] \in Int /\ stored'[p] \in Int
      BY InvTyped, Documents
    <2>2. told[p][n] <= stored[p]
      BY <1>1 DEF LineOK, ToldCommitted
    <2> QED BY <2>1, <2>2
  <1> QED BY <1>1, <1>2, <1>3 DEF LineOK

\* A job is queued behind the others with a document told of each of its
\* pages, or it is dropped.
LEMMA TellStep ==
  ASSUME Inv, NEW kind \in {"upsert", "delete", "wipe"},
         NEW P \in SUBSET Page, NEW docs \in [P -> Document],
         \A p \in P : docs[p] <= stored[p],
         try_send(kind, docs), UNCHANGED <<stored, buffer, index>>
  PROVE  /\ LineTyped'
         /\ \A p \in Page : LineOK(p)'
         /\ told' = told \/ Mirror!Hear
         /\ chan' = chan \/ worker # "exited"
  <1> DEFINE at == [p \in Page |-> IF p \in P THEN Len(told[p]) + 1 ELSE 0]
             job == [kind |-> kind, at |-> at]
  <1>1. LineTyped /\ Len(chan) \in Nat /\ (\A i \in 1 .. Len(chan) : chan[i] \in Job)
        /\ \A p \in Page : told[p] \in Seq(Document) /\ Len(told[p]) \in Nat
                           /\ stored[p] \in Document
    BY InvTyped
  <1>2. CASE UNCHANGED line
    <2>1. LineTyped'
      BY <1>1, <1>2 DEF line, LineTyped
    <2>2. ASSUME NEW p \in Page
          PROVE  stored'[p] \in Document /\ stored[p] <= stored'[p]
      <3>1. stored'[p] = stored[p] /\ stored[p] \in Document /\ stored[p] \in Int
        BY <1>1, Documents
      <3> QED BY <3>1
    <2>3. \A p \in Page : LineOK(p)'
      BY <1>2, <2>2, LineStays DEF line
    <2> QED BY <1>2, <2>1, <2>3 DEF line
  <1>3. CASE /\ worker # "exited" /\ Len(chan) < Capacity
             /\ told' = Telling(docs)
             /\ chan' = Append(chan, job)
    <2>1. job \in Job
      BY <1>1 DEF Job
    <2>2. /\ chan' \in Seq(Job) /\ Len(chan') = Len(chan) + 1
          /\ \A i \in 1 .. Len(chan) : chan'[i] = chan[i]
          /\ chan'[Len(chan) + 1] = job
      BY <1>1, <1>3, <2>1, AppendProperties DEF LineTyped
    <2>3. \A p \in Page : told'[p] = IF p \in P THEN Append(told[p], docs[p]) ELSE told[p]
      BY <1>3 DEF Telling
    <2>4. ASSUME NEW p \in P
          PROVE  /\ told'[p] \in Seq(Document) /\ Len(told'[p]) = Len(told[p]) + 1
                 /\ \A n \in 1 .. Len(told[p]) : told'[p][n] = told[p][n]
                 /\ told'[p][Len(told[p]) + 1] = docs[p]
      <3>1. told[p] \in Seq(Document) /\ docs[p] \in Document
        BY <1>1
      <3>2. told'[p] = Append(told[p], docs[p])
        BY <2>3
      <3> QED BY <3>1, <3>2, AppendProperties
    <2>5. LineTyped'
      <3>1. told' \in [Page -> Seq(Document)]
        BY <1>1, <1>3, <2>3, <2>4 DEF Telling
      <3> QED BY <1>1, <1>3, <2>2, <3>1, SizesAssumption DEF LineTyped
    <2> HIDE DEF job, at
    <2>6. \A p \in Page : job.at[p] = IF p \in P THEN Len(told[p]) + 1 ELSE 0
      BY DEF job, at
    <2>7. ASSUME NEW p \in Page PROVE LineOK(p)'
      <3>1. LineOK(p)
        BY DEF Inv
      <3>2. Len(told[p]) \in Nat /\ Len(told'[p]) \in Nat /\ Len(told[p]) <= Len(told'[p])
        BY <1>1, <2>3, <2>4
      <3>3. /\ buffer[p] \in Nat /\ index[p] \in Nat /\ buffer'[p] = buffer[p]
            /\ index'[p] = index[p]
        BY <1>1 DEF LineTyped
      <3>4. \A i \in 1 .. Len(chan') :
              \/ i \in 1 .. Len(chan) /\ chan'[i] = chan[i]
              \/ i = Len(chan) + 1 /\ chan'[i] = job
        BY <1>1, <2>2
      <3>5. \A i \in 1 .. Len(chan) : chan[i].at[p] \in Nat
        BY <1>1 DEF Job
      <3>6. Ahead(p)'
        <4> SUFFICES ASSUME NEW i \in 1 .. Len(chan'), chan'[i].at[p] # 0
                     PROVE  buffer[p] < chan'[i].at[p] /\ chan'[i].at[p] <= Len(told'[p])
          BY <3>3 DEF Ahead
        <4>1. CASE i \in 1 .. Len(chan) /\ chan'[i] = chan[i]
          BY <3>1, <3>2, <3>5, <4>1 DEF LineOK, Ahead
        <4>2. CASE chan'[i] = job
          <5>1. p \in P /\ job.at[p] = Len(told[p]) + 1
            BY <2>6, <4>2
          <5>2. Len(told'[p]) = Len(told[p]) + 1
            BY <2>4, <5>1
          <5> QED BY <3>1, <3>2, <3>3, <4>2, <5>1, <5>2 DEF LineOK
        <4> QED BY <3>4, <4>1, <4>2
      <3>7. InOrder(p)'
        <4> SUFFICES ASSUME NEW i \in 1 .. Len(chan'), NEW j \in 1 .. Len(chan'), i < j,
                            chan'[i].at[p] # 0, chan'[j].at[p] # 0
                     PROVE  chan'[i].at[p] < chan'[j].at[p]
          BY DEF InOrder
        <4>1. i \in 1 .. Len(chan) /\ chan'[i] = chan[i]
          BY <1>1, <2>2, <3>4
        <4>2. CASE j \in 1 .. Len(chan) /\ chan'[j] = chan[j]
          BY <3>1, <4>1, <4>2 DEF LineOK, InOrder
        <4>3. CASE chan'[j] = job
          <5>1. job.at[p] = Len(told[p]) + 1
            BY <2>6, <4>3
          <5>2. chan[i].at[p] <= Len(told[p]) /\ chan[i].at[p] \in Nat
            BY <3>1, <3>5, <4>1 DEF LineOK, Ahead
          <5> QED BY <3>2, <4>1, <4>3, <5>1, <5>2
        <4> QED BY <3>4, <4>2, <4>3
      <3>8. ToldCommitted(p)'
        <4> SUFFICES ASSUME NEW n \in 1 .. Len(told'[p]) PROVE told'[p][n] <= stored[p]
          BY DEF ToldCommitted
        <4>1. CASE p \in P
          <5>1. n \in 1 .. Len(told[p]) \/ n = Len(told[p]) + 1
            BY <2>4, <3>2, <4>1
          <5> QED BY <2>4, <3>1, <4>1, <5>1 DEF LineOK, ToldCommitted
        <4>2. CASE p \notin P
          BY <2>3, <3>1, <4>2 DEF LineOK, ToldCommitted
        <4> QED BY <4>1, <4>2
      <3> QED BY <3>1, <3>2, <3>3, <3>6, <3>7, <3>8 DEF LineOK
    <2>8. Mirror!Hear
      <3>1. docs \in [P -> Mirror!State \cup {-1}]
        BY Documents
      <3>2. told' = [p \in Page |-> IF p \in P THEN Append(told[p], docs[p]) ELSE told[p]]
        BY <1>3 DEF Telling
      <3>3. Mirror!Tells(P)
        BY <3>1, <3>2 DEF Mirror!Tells
      <3> QED BY <3>3 DEF Mirror!Hear
    <2> QED BY <1>3, <2>5, <2>7, <2>8
  <1> QED BY <1>2, <1>3 DEF try_send

\* One document is sent for one page.
LEMMA SentOne ==
  ASSUME Inv, NEW p \in Page, NEW d \in Document, d <= stored[p],
         Sent(p, d), UNCHANGED <<stored, buffer, index>>
  PROVE  /\ LineTyped'
         /\ \A q \in Page : LineOK(q)'
         /\ told' = told \/ Mirror!Hear
  <1> DEFINE docs == [q \in {p} |-> d]
             kind == IF d = Deleted THEN "delete" ELSE "upsert"
  <1>1. kind \in {"upsert", "delete", "wipe"} /\ docs \in [{p} -> Document]
    OBVIOUS
  <1>2. (\A q \in {p} : docs[q] <= stored[q]) /\ try_send(kind, docs)
    BY DEF Sent
  <1> HIDE DEF docs, kind
  <1> QED BY <1>1, <1>2, TellStep

-----------------------------------------------------------------------------
(* The writer moves on.                                                      *)

\* A commit, whole or failed, moves readers forward and no further than the
\* documents it is given, and so it leaves the writer.
LEMMA CommitStep ==
  ASSUME LineTyped, faults \in 0 .. MaxFaults, marker \in BOOLEAN,
         NEW docs \in [Page -> Nat], Commit(docs),
         \A p \in Page : index[p] <= buffer[p] /\ buffer[p] <= docs[p]
  PROVE  /\ buffer' \in [Page -> Nat] /\ index' \in [Page -> Nat]
         /\ \A p \in Page : /\ index[p] <= index'[p] /\ index'[p] <= buffer'[p]
                            /\ buffer'[p] <= docs[p]
         /\ marker' \in BOOLEAN /\ faults' \in 0 .. MaxFaults
  <1>1. /\ index' = docs /\ buffer' = docs
        \/ /\ index' = index /\ buffer' \in {docs, buffer, index}
    BY DEF Commit
  <1>2. marker' \in BOOLEAN /\ faults' \in 0 .. MaxFaults
    <2>1. marker' = TRUE \/ marker' = marker
      BY DEF Commit
    <2>2. faults' = faults \/ (faults < MaxFaults /\ faults' = faults + 1)
      BY DEF Commit, Fault
    <2>3. MaxFaults \in Nat
      BY SizesAssumption
    <2>4. faults' \in 0 .. MaxFaults
      BY <2>2, <2>3
    <2> QED BY <2>1, <2>4
  <1>3. index \in [Page -> Nat] /\ buffer \in [Page -> Nat]
    BY DEF LineTyped
  <1>4. buffer' \in [Page -> Nat] /\ index' \in [Page -> Nat]
    BY <1>1, <1>3
  <1>5. ASSUME NEW p \in Page
        PROVE  /\ index[p] <= index'[p] /\ index'[p] <= buffer'[p]
               /\ buffer'[p] <= docs[p]
    <2>1. docs[p] \in Nat /\ buffer[p] \in Nat /\ index[p] \in Nat
      BY <1>3
    <2> QED BY <1>1, <2>1
  <1> QED BY <1>2, <1>4, <1>5

\* The buffer is committed, or it is left alone.
LEMMA Settles ==
  ASSUME Inv, UNCHANGED <<stored, told, chan>>,
         Commit(buffer) \/ UNCHANGED <<buffer, index, marker, faults>>
  PROVE  /\ LineTyped'
         /\ \A p \in Page : LineOK(p)'
         /\ index' = index \/ Mirror!Publish
         /\ marker' \in BOOLEAN /\ faults' \in 0 .. MaxFaults
  <1>1. /\ LineTyped /\ faults \in 0 .. MaxFaults /\ marker \in BOOLEAN
        /\ buffer \in [Page -> Nat] /\ index \in [Page -> Nat]
    BY InvTyped DEF Inv, TypeOK
  <1>2. \A p \in Page : index[p] <= buffer[p] /\ buffer[p] <= buffer[p]
    BY <1>1 DEF Inv, LineOK
  <1>3. /\ buffer' \in [Page -> Nat] /\ index' \in [Page -> Nat]
        /\ \A p \in Page : /\ index[p] <= index'[p] /\ index'[p] <= buffer'[p]
                           /\ buffer'[p] <= buffer[p]
        /\ marker' \in BOOLEAN /\ faults' \in 0 .. MaxFaults
    <2>1. CASE Commit(buffer)
      BY <1>1, <1>2, <2>1, CommitStep
    <2>2. CASE UNCHANGED <<buffer, index, marker, faults>>
      BY <1>1, <1>2, <2>2
    <2> QED BY <2>1, <2>2
  <1>4. LineTyped'
    BY <1>1, <1>3 DEF LineTyped
  <1>5. ASSUME NEW p \in Page PROVE LineOK(p)' /\ index'[p] \in index[p] .. Len(told[p])
    <2>1. LineOK(p)
      BY DEF Inv
    <2>2. /\ index[p] \in Nat /\ buffer[p] \in Nat /\ index'[p] \in Nat /\ buffer'[p] \in Nat
          /\ Len(told[p]) \in Nat
      BY <1>1, <1>3, InvTyped
    <2>3. /\ 1 <= index'[p] /\ index'[p] <= buffer'[p] /\ buffer'[p] <= Len(told[p])
          /\ buffer'[p] <= buffer[p] /\ index[p] <= index'[p]
      BY <1>3, <2>1, <2>2 DEF LineOK
    <2>4. Ahead(p)'
      <3> SUFFICES ASSUME NEW i \in 1 .. Len(chan), chan[i].at[p] # 0
                   PROVE  buffer'[p] < chan[i].at[p] /\ chan[i].at[p] <= Len(told[p])
        BY DEF Ahead
      <3>1. chan[i].at[p] \in Nat
        BY InvTyped DEF Job
      <3>2. buffer[p] < chan[i].at[p] /\ chan[i].at[p] <= Len(told[p])
        BY <2>1 DEF LineOK, Ahead
      <3> QED BY <2>2, <2>3, <3>1, <3>2
    <2>5. InOrder(p)' /\ ToldCommitted(p)'
      BY <2>1 DEF LineOK, InOrder, ToldCommitted
    <2> QED BY <2>2, <2>3, <2>4, <2>5 DEF LineOK
  <1>6. Mirror!Publish
    BY <1>3, <1>5 DEF Mirror!Publish
  <1> QED BY <1>3, <1>4, <1>5, <1>6

\* The oldest job is the next of its pages: the writer takes it over, and what
\* it was told comes to nothing when the writer refuses it.
LEMMA TakeStep ==
  ASSUME Inv, Take
  PROVE  /\ LineTyped'
         /\ \A p \in Page : LineOK(p)'
         /\ marker' \in BOOLEAN /\ faults' \in 0 .. MaxFaults
         /\ UNCHANGED <<told, index>> \/ Mirror!Publish \/ Mirror!Refuse
  <1> DEFINE job == Head(chan)
  <1>1. /\ LineTyped /\ faults \in 0 .. MaxFaults /\ marker \in BOOLEAN
        /\ buffer \in [Page -> Nat] /\ index \in [Page -> Nat]
        /\ Len(chan) \in Nat /\ chan \in Seq(Job) /\ chan # <<>>
        /\ \A i \in 1 .. Len(chan) : chan[i] \in Job
    BY InvTyped DEF Inv, TypeOK, Take
  <1>2. /\ chan' = Tail(chan) /\ stored' = stored /\ apply_job(job)
    BY DEF Take, store
  <1>3. /\ job \in Job /\ job = chan[1] /\ Len(chan) > 0
        /\ chan' \in Seq(Job) /\ Len(chan') = Len(chan) - 1
        /\ \A i \in 1 .. Len(chan') : chan'[i] = chan[i + 1]
    BY <1>1, <1>2, HeadTailProperties
  <1>4. 1 \in 1 .. Len(chan) /\ \A i \in 1 .. Len(chan') : i + 1 \in 1 .. Len(chan)
    BY <1>1, <1>3
  <1> HIDE DEF job
  <1>5. \A p \in Page : job.at[p] \in Nat /\ Len(told[p]) \in Nat
    BY <1>3, InvTyped DEF Job
  <1> DEFINE A == Applied(job)
  <1>6. A \in [Page -> Nat]
    BY <1>1, <1>5 DEF Applied
  <1>7. \A p \in Page : A[p] = IF job.at[p] = 0 THEN buffer[p] ELSE job.at[p]
    BY DEF Applied
  <1> HIDE DEF A
  <1>8. ASSUME NEW p \in Page
        PROVE  /\ 1 <= index[p] /\ index[p] <= buffer[p] /\ buffer[p] <= A[p]
               /\ A[p] <= Len(told[p])
               /\ \A i \in 1 .. Len(chan') :
                    chan'[i].at[p] # 0 => A[p] < chan'[i].at[p] /\ chan'[i].at[p] <= Len(told[p])
    <2>1. LineOK(p) /\ index[p] \in Nat /\ buffer[p] \in Nat
      BY <1>1 DEF Inv
    <2>2. CASE job.at[p] = 0
      BY <1>3, <1>4, <1>7, <2>1, <2>2 DEF LineOK, Ahead
    <2>3. CASE job.at[p] # 0
      <3>1. buffer[p] < job.at[p] /\ job.at[p] <= Len(told[p]) /\ A[p] = job.at[p]
        BY <1>3, <1>4, <1>7, <2>1, <2>3 DEF LineOK, Ahead
      <3>2. ASSUME NEW i \in 1 .. Len(chan'), chan'[i].at[p] # 0
            PROVE  job.at[p] < chan'[i].at[p] /\ chan'[i].at[p] <= Len(told[p])
        <4>1. i + 1 \in 1 .. Len(chan) /\ chan'[i] = chan[i + 1] /\ 1 < i + 1
          BY <1>3, <1>4
        <4> QED BY <1>3, <1>4, <2>1, <2>3, <3>2, <4>1 DEF LineOK, Ahead, InOrder
      <3> QED BY <1>5, <2>1, <3>1, <3>2 DEF LineOK
    <2> QED BY <2>2, <2>3
  <1>9. ASSUME NEW p \in Page PROVE InOrder(p)'
    <2> SUFFICES ASSUME NEW i \in 1 .. Len(chan'), NEW j \in 1 .. Len(chan'), i < j,
                        chan'[i].at[p] # 0, chan'[j].at[p] # 0
                 PROVE  chan'[i].at[p] < chan'[j].at[p]
      BY DEF InOrder
    <2>1. i + 1 < j + 1 /\ i + 1 \in 1 .. Len(chan) /\ j + 1 \in 1 .. Len(chan)
          /\ chan'[i] = chan[i + 1] /\ chan'[j] = chan[j + 1]
      BY <1>3, <1>4
    <2> QED BY <2>1 DEF Inv, LineOK, InOrder
  <1>10. Len(chan') <= Capacity
    BY <1>1, <1>3, SizesAssumption DEF LineTyped
  <1>11. CASE job.kind = "wipe"
    <2>1. Commit(A) /\ told' = told
      BY <1>2, <1>11 DEF apply_job, A
    <2>2. /\ buffer' \in [Page -> Nat] /\ index' \in [Page -> Nat]
          /\ \A p \in Page : /\ index[p] <= index'[p] /\ index'[p] <= buffer'[p]
                             /\ buffer'[p] <= A[p]
          /\ marker' \in BOOLEAN /\ faults' \in 0 .. MaxFaults
      BY <1>1, <1>6, <1>8, <2>1, CommitStep
    <2>3. LineTyped'
      BY <1>1, <1>3, <1>10, <2>1, <2>2 DEF LineTyped
    <2>4. ASSUME NEW p \in Page PROVE LineOK(p)' /\ index'[p] \in index[p] .. Len(told[p])
      <3>1. /\ index[p] \in Nat /\ index'[p] \in Nat /\ buffer'[p] \in Nat /\ A[p] \in Nat
            /\ Len(told[p]) \in Nat
        BY <1>1, <1>5, <1>6, <2>2
      <3>2. /\ 1 <= index'[p] /\ index'[p] <= buffer'[p] /\ buffer'[p] <= Len(told[p])
            /\ index[p] <= index'[p] /\ buffer'[p] <= A[p]
        BY <1>8, <2>2, <3>1
      <3>3. Ahead(p)'
        <4> SUFFICES ASSUME NEW i \in 1 .. Len(chan'), chan'[i].at[p] # 0
                     PROVE  buffer'[p] < chan'[i].at[p] /\ chan'[i].at[p] <= Len(told[p])
          BY <2>1 DEF Ahead
        <4>1. chan'[i].at[p] \in Nat
          <5>1. chan'[i] \in Job
            BY <1>1, <1>3, <1>4
          <5> QED BY <5>1 DEF Job
        <4>2. A[p] < chan'[i].at[p] /\ chan'[i].at[p] <= Len(told[p])
          BY <1>8
        <4> QED BY <3>1, <3>2, <4>1, <4>2
      <3>4. ToldCommitted(p)'
        BY <1>2, <2>1 DEF Inv, LineOK, ToldCommitted
      <3> QED BY <1>9, <2>1, <3>1, <3>2, <3>3, <3>4 DEF LineOK
    <2>5. Mirror!Publish
      BY <1>2, <2>1, <2>2, <2>4 DEF Mirror!Publish
    <2> QED BY <2>2, <2>3, <2>4, <2>5
  <1>12. CASE job.kind # "wipe"
    <2>1. /\ buffer' = A /\ index' = index /\ marker' = marker
          /\ \/ told' = told /\ faults' = faults
             \/ Fault("upsert") /\ told' = Refused(job)
      BY <1>2, <1>12 DEF apply_job, A
    <2>2. marker' \in BOOLEAN /\ faults' \in 0 .. MaxFaults
      BY <1>1, <2>1, SizesAssumption DEF Fault
    <2>3. ASSUME NEW p \in Page
          PROVE  /\ told'[p] \in Seq(Document) /\ Len(told'[p]) = Len(told[p])
                 /\ \A n \in 1 .. Len(told[p]) :
                      \/ told'[p][n] = told[p][n]
                      \/ told' # told /\ index[p] < n /\ told'[p][n] = 0
      <3>1. told[p] \in Seq(Document)
        BY InvTyped
      <3>2. CASE told'[p] = told[p]
        BY <3>1, <3>2
      <3>3. CASE told'[p] = [told[p] EXCEPT ![job.at[p]] = 0] /\ job.at[p] # 0
        <4>1. job.at[p] \in 1 .. Len(told[p]) /\ index[p] < job.at[p]
          <5>1. LineOK(p) /\ index[p] \in Nat /\ buffer[p] \in Nat
            BY <1>1 DEF Inv
          <5>2. buffer[p] < job.at[p] /\ job.at[p] <= Len(told[p])
            BY <1>3, <1>4, <3>3, <5>1 DEF LineOK, Ahead
          <5> QED BY <1>5, <5>1, <5>2 DEF LineOK
        <4>2. 0 \in Document
          BY DEF Document
        <4>3. /\ told'[p] \in Seq(Document) /\ Len(told'[p]) = Len(told[p])
              /\ \A n \in 1 .. Len(told[p]) :
                   told'[p][n] = IF n = job.at[p] THEN 0 ELSE told[p][n]
          BY <3>1, <3>3, <4>1, <4>2, ExceptSeq
        <4> QED BY <4>1, <4>3
      <3> QED BY <2>1, <3>2, <3>3 DEF Refused
    <2>4. told' \in [Page -> Seq(Document)]
      <3>1. told' = told \/ told' = Refused(job)
        BY <2>1
      <3>2. told' = [p \in Page |-> told'[p]]
        BY <1>1, <3>1 DEF LineTyped, Refused
      <3> QED BY <2>3, <3>2
    <2>5. LineTyped'
      BY <1>1, <1>3, <1>6, <1>10, <2>1, <2>4 DEF LineTyped
    <2>6. ASSUME NEW p \in Page PROVE LineOK(p)'
      <3>1. Ahead(p)' /\ 1 <= index[p] /\ index[p] <= A[p] /\ A[p] <= Len(told'[p])
        <4>1. index[p] \in Nat /\ buffer[p] \in Nat /\ A[p] \in Nat
          BY <1>1, <1>6
        <4> QED BY <1>8, <2>1, <2>3, <4>1 DEF Ahead
      <3>2. ToldCommitted(p)'
        <4> SUFFICES ASSUME NEW n \in 1 .. Len(told[p]) PROVE told'[p][n] <= stored[p]
          BY <1>2, <2>3 DEF ToldCommitted
        <4>1. told[p][n] <= stored[p]
          BY DEF Inv, LineOK, ToldCommitted
        <4>2. 0 <= stored[p]
          BY Documents DEF Inv, TypeOK
        <4> QED BY <2>3, <4>1, <4>2
      <3> QED BY <1>9, <2>1, <3>1, <3>2 DEF LineOK
    <2>7. told' = told \/ Mirror!Refuse
      <3> SUFFICES ASSUME told' # told PROVE Mirror!Refuse
        OBVIOUS
      <3>1. "upsert" \in Failing
        BY <2>1 DEF Fault
      <3>2. DOMAIN told' = Page
        BY <2>4
      <3>3. ASSUME NEW p \in Page
            PROVE  /\ DOMAIN told'[p] = DOMAIN told[p]
                   /\ DOMAIN told[p] = 1 .. Len(told[p])
        BY <2>3, InvTyped, LenProperties
      <3> QED BY <1>2, <2>1, <2>3, <3>1, <3>2, <3>3 DEF Mirror!Refuse
    <2> QED BY <2>1, <2>2, <2>5, <2>6, <2>7
  <1> QED BY <1>11, <1>12

-----------------------------------------------------------------------------
(* The line starts afresh.                                                   *)

\* What readers find of a page is a document that the store has committed.
LEMMA FoundCommitted ==
  ASSUME Inv, NEW p \in Page
  PROVE  Found(p) \in Document /\ Found(p) <= stored[p]
  <1>1. LineOK(p) /\ index[p] \in Nat /\ buffer[p] \in Nat /\ Len(told[p]) \in Nat
    BY InvTyped DEF Inv, LineTyped
  <1>2. index[p] \in 1 .. Len(told[p])
    BY <1>1 DEF LineOK
  <1> QED BY <1>1, <1>2, InvTyped DEF Found, LineOK, ToldCommitted

LEMMA AfreshStep ==
  ASSUME NEW docs \in [Page -> Document], Afresh(docs), chan' = <<>>,
         \A p \in Page : docs[p] <= stored'[p]
  PROVE  LineTyped' /\ \A p \in Page : LineOK(p)'
  <1>1. /\ told' = [p \in Page |-> <<docs[p]>>]
        /\ index' = [p \in Page |-> 1] /\ buffer' = [p \in Page |-> 1]
    BY DEF Afresh
  <1>2. \A p \in Page : <<docs[p]>> \in Seq(Document)
    OBVIOUS
  <1>3. chan' \in Seq(Job) /\ Len(chan') = 0
    BY EmptySeq
  <1>4. LineTyped'
    BY <1>1, <1>2, <1>3, SizesAssumption DEF LineTyped
  <1>5. ASSUME NEW p \in Page PROVE LineOK(p)'
    <2>1. told'[p] = <<docs[p]>> /\ Len(told'[p]) = 1 /\ told'[p][1] = docs[p]
      BY <1>1
    <2>2. Ahead(p)' /\ InOrder(p)'
      BY <1>3 DEF Ahead, InOrder
    <2>3. ToldCommitted(p)'
      BY <2>1 DEF ToldCommitted
    <2> QED BY <1>1, <2>1, <2>2, <2>3 DEF LineOK
  <1> QED BY <1>4, <1>5

-----------------------------------------------------------------------------
(* Every step.                                                               *)

\* What a step does to the line, to the hands and to the bounds.
LEMMA InvStep ==
  ASSUME Inv, [Next]_vars
  PROVE  /\ Inv'
         /\ [Mirror!Next]_Mirror!vars
  <1> USE SizesAssumption
  <1>1. /\ TypeOK /\ Room /\ Gone /\ LineTyped
        /\ \A p \in Page : stored[p] \in Document /\ stored[p] \in Int
        /\ \A p \in Page : HandsOK(p)
    BY InvTyped, Documents DEF Inv
  <1>2. ASSUME UNCHANGED <<told, chan, buffer, index>>,
               \A p \in Page : stored'[p] \in Document /\ stored[p] <= stored'[p]
        PROVE  LineTyped' /\ \A p \in Page : LineOK(p)'
    BY <1>1, <1>2, LineStays DEF LineTyped
  <1>3. ASSUME stored' = stored
        PROVE  \A p \in Page : stored'[p] \in Document /\ stored[p] <= stored'[p]
    BY <1>1, <1>3
  <1>4. ASSUME UNCHANGED <<stored, owed, scan>>
        PROVE  \A p \in Page : HandsOK(p)'
    BY <1>1, <1>4 DEF HandsOK
  <1>5. ASSUME NEW p \in Page, Edit(p) \/ Approve(p) PROVE Inv' /\ Mirror!Write(p)
    <2>1. PICK s \in {stored[p] + 1, Deleted} :
            /\ stored' = [stored EXCEPT ![p] = s]
            /\ owed' = owed \/ owed' = [owed EXCEPT ![p] = @ \cup {s}]
      BY <1>5 DEF Edit, Approve
    <2>2. /\ stored[p] # Deleted
          /\ UNCHANGED <<told, chan, buffer, index, marker, pending, worker, scan, proc,
                         stops, faults>>
      BY <1>5 DEF Edit, Approve, line, writer, life, Text, Deleted
    <2>3. stored[p] \in 0 .. Deleted
      BY <1>1, Documents DEF TypeOK
    <2>4. s \in Text \cup {Deleted} /\ stored[p] <= s /\ s \in Int
      BY <2>1, <2>2, <2>3 DEF Deleted, Text
    <2>5. \A q \in Page : stored'[q] = IF q = p THEN s ELSE stored[q]
      BY <2>1 DEF Inv, TypeOK
    <2>6. \A q \in Page : stored'[q] \in Document /\ stored[q] <= stored'[q]
      BY <1>1, <2>4, <2>5, Documents
    <2>7. ASSUME NEW q \in Page PROVE HandsOK(q)'
      <3>1. \A d \in owed[q] : d \in Int
        BY Documents DEF Inv, TypeOK
      <3>2. scan.rows[q] \in Int
        BY <1>1 DEF TypeOK, Text
      <3>3. \A d \in owed'[q] : d \in owed[q] \/ (q = p /\ d = s)
        BY <1>1, <2>1 DEF TypeOK
      <3>4. stored[q] \in Int /\ stored'[q] \in Int
        BY <1>1, <2>6, Documents
      <3> QED BY <1>1, <2>2, <2>4, <2>5, <2>6, <3>1, <3>2, <3>3, <3>4 DEF HandsOK
    <2>8. LineTyped' /\ \A q \in Page : LineOK(q)'
      BY <1>2, <2>2, <2>6
    <2>9. TypeOK'
      <3>1. owed' \in [Page -> SUBSET (Text \cup {Deleted})]
        <4>1. owed \in [Page -> SUBSET (Text \cup {Deleted})]
          BY <1>1 DEF TypeOK
        <4>2. CASE owed' = [owed EXCEPT ![p] = @ \cup {s}]
          BY <2>4, <4>1, <4>2
        <4> QED BY <2>1, <4>1, <4>2
      <3>2. stored' \in [Page -> Text \cup {0, Deleted}]
        BY <1>1, <2>1, <2>4 DEF TypeOK
      <3> QED BY <1>1, <2>2, <2>8, <3>1, <3>2 DEF TypeOK, LineTyped
    <2>10. Mirror!Write(p)
      BY <2>1, <2>2 DEF Mirror!Write, Mirror!Deleted, Deleted
    <2> QED BY <1>1, <2>2, <2>7, <2>8, <2>9, <2>10 DEF Inv, Room, Gone
  <1>6. ASSUME NEW p \in Page, HandOver(p) PROVE Inv' /\ (Mirror!Hear \/ UNCHANGED Mirror!vars)
    <2>1. PICK d \in owed[p] : Sent(p, d) /\ owed' = [owed EXCEPT ![p] = @ \ {d}]
      BY <1>6 DEF HandOver
    <2>2. /\ UNCHANGED <<stored, buffer, index, marker, pending, worker, scan, proc, stops,
                         faults>>
          /\ proc # "down"
      BY <1>6 DEF HandOver, writer, life, Running
    <2>3. d \in Document /\ d <= stored[p]
      BY <1>1, Documents DEF HandsOK, TypeOK
    <2>4. LineTyped' /\ (\A q \in Page : LineOK(q)') /\ (told' = told \/ Mirror!Hear)
      BY <2>1, <2>2, <2>3, SentOne
    <2>5. owed' \in [Page -> SUBSET (Text \cup {Deleted})] /\ \A q \in Page : owed'[q] \subseteq owed[q]
      BY <1>1, <2>1 DEF TypeOK
    <2>6. \A q \in Page : HandsOK(q)'
      BY <1>1, <2>2, <2>5 DEF HandsOK
    <2>7. TypeOK'
      BY <1>1, <2>2, <2>4, <2>5 DEF TypeOK, LineTyped
    <2> QED BY <1>1, <2>2, <2>4, <2>6, <2>7 DEF Inv, Room, Gone, Mirror!vars
  <1>7. ASSUME NEW p \in Page, Lose(p) PROVE Inv' /\ UNCHANGED Mirror!vars
    <2>1. PICK d \in owed[p] : owed' = [owed EXCEPT ![p] = @ \ {d}]
      BY <1>7 DEF Lose
    <2>2. UNCHANGED <<stored, told, chan, buffer, index, marker, pending, worker, scan, proc,
                      stops>>
      BY <1>7 DEF Lose, line, writer, life
    <2>3. faults' \in 0 .. MaxFaults
      BY <1>1, <1>7 DEF Lose, Fault, TypeOK
    <2>4. owed' \in [Page -> SUBSET (Text \cup {Deleted})] /\ \A q \in Page : owed'[q] \subseteq owed[q]
      BY <1>1, <2>1 DEF TypeOK
    <2>5. \A q \in Page : HandsOK(q)'
      BY <1>1, <2>2, <2>4 DEF HandsOK
    <2>6. LineTyped' /\ \A q \in Page : LineOK(q)'
      BY <1>2, <1>3, <2>2
    <2>7. TypeOK'
      BY <1>1, <2>2, <2>3, <2>4, <2>6 DEF TypeOK, LineTyped
    <2> QED BY <1>1, <2>2, <2>5, <2>6, <2>7 DEF Inv, Room, Gone, Mirror!vars
  <1>8. ASSUME Receive \/ Drain
        PROVE  Inv' /\ (UNCHANGED Mirror!vars \/ Mirror!Publish \/ Mirror!Refuse)
    <2>1. /\ Take /\ worker' = "drain" /\ pending < Batch /\ pending' = pending + 1
          /\ proc # "down" /\ UNCHANGED <<stored, owed, scan, proc, stops>>
      BY <1>1, <1>8 DEF Receive, Drain, Take, Running, Room, store, life
    <2>2. /\ LineTyped' /\ \A p \in Page : LineOK(p)'
          /\ marker' \in BOOLEAN /\ faults' \in 0 .. MaxFaults
          /\ UNCHANGED <<told, index>> \/ Mirror!Publish \/ Mirror!Refuse
      BY <2>1, TakeStep
    <2>3. TypeOK'
      BY <1>1, <2>1, <2>2 DEF TypeOK, LineTyped
    <2> QED BY <1>4, <2>1, <2>2, <2>3 DEF Inv, Room, Gone, Mirror!vars
  <1>9. ASSUME Drained \/ Tick \/ Finish
        PROVE  Inv' /\ (UNCHANGED Mirror!vars \/ Mirror!Publish)
    <2>1. /\ Commit(buffer) \/ UNCHANGED <<buffer, index, marker, faults>>
          /\ UNCHANGED <<stored, owed, told, chan, scan, proc, stops>>
      BY <1>9 DEF Drained, Tick, Finish, store, line, writer, life
    <2>2. /\ LineTyped' /\ \A p \in Page : LineOK(p)'
          /\ index' = index \/ Mirror!Publish
          /\ marker' \in BOOLEAN /\ faults' \in 0 .. MaxFaults
      BY <2>1, Settles
    <2>3. /\ pending' \in 0 .. Batch /\ worker' \in {"select", "drain", "exited"} /\ Room'
      BY <1>1, <1>9 DEF Drained, Tick, Finish, Room, TypeOK
    <2>4. TypeOK'
      BY <1>1, <2>1, <2>2, <2>3 DEF TypeOK, LineTyped
    <2> QED BY <1>1, <1>4, <2>1, <2>2, <2>3, <2>4 DEF Inv, Gone, Mirror!vars
  <1>10. ASSUME StartScan PROVE Inv' /\ (Mirror!Hear \/ UNCHANGED Mirror!vars)
    <2> DEFINE docs == [p \in Page |-> 0]
    <2>1. /\ UNCHANGED <<stored, owed, buffer, index, marker, pending, worker, proc, stops, faults>>
          /\ try_send("wipe", docs) /\ proc # "down"
          /\ scan' = [scan EXCEPT !.pc = "list"]
      BY <1>10 DEF StartScan, store, writer, life, Running
    <2>2. docs \in [Page -> Document] /\ \A p \in Page : docs[p] <= stored[p]
      BY <1>1, Documents DEF TypeOK
    <2> HIDE DEF docs
    <2>3. LineTyped' /\ (\A p \in Page : LineOK(p)') /\ (told' = told \/ Mirror!Hear)
      BY <2>1, <2>2, TellStep
    <2>4. /\ scan' \in [pc : {"off", "wipe", "list", "send"}, rows : [Page -> Text \cup {0}]]
          /\ scan'.rows = scan.rows
      BY <1>1, <2>1 DEF TypeOK
    <2>5. \A p \in Page : HandsOK(p)'
      BY <1>1, <2>1, <2>4 DEF HandsOK
    <2>6. TypeOK'
      BY <1>1, <2>1, <2>3, <2>4 DEF TypeOK, LineTyped
    <2> QED BY <1>1, <2>1, <2>3, <2>5, <2>6 DEF Inv, Room, Gone, Mirror!vars
  <1>11. ASSUME NEW p \in Page, SendPage(p)
         PROVE  Inv' /\ (Mirror!Hear \/ UNCHANGED Mirror!vars)
    <2>1. PICK d \in {Blank, scan.rows[p]} : Sent(p, d)
      BY <1>11 DEF SendPage
    <2>2. /\ UNCHANGED <<stored, owed, buffer, index, marker, pending, worker, proc, stops>>
          /\ faults' \in 0 .. MaxFaults /\ proc # "down"
          /\ scan' = [scan EXCEPT !.rows[p] = 0]
      BY <1>1, <1>11 DEF SendPage, Fault, store, writer, life, Running, TypeOK
    <2>3. scan.rows[p] \in Text \cup {0} /\ scan.rows[p] <= stored[p] /\ stored[p] \in 0 .. Deleted
      BY <1>1, Documents DEF TypeOK, HandsOK
    <2>4. d \in Document /\ d <= stored[p]
      BY <2>1, <2>3 DEF Document, Blank
    <2>5. LineTyped' /\ (\A q \in Page : LineOK(q)') /\ (told' = told \/ Mirror!Hear)
      BY <2>1, <2>2, <2>4, SentOne
    <2>6. /\ scan' \in [pc : {"off", "wipe", "list", "send"}, rows : [Page -> Text \cup {0}]]
          /\ \A q \in Page : scan'.rows[q] \in {scan.rows[q], 0}
      BY <1>1, <2>2 DEF TypeOK
    <2>7. \A q \in Page : HandsOK(q)'
      <3>1. \A q \in Page : stored[q] \in 0 .. Deleted
        BY <1>1, Documents DEF TypeOK
      <3> QED BY <1>1, <2>2, <2>6, <3>1 DEF HandsOK
    <2>8. TypeOK'
      BY <1>1, <2>2, <2>5, <2>6 DEF TypeOK, LineTyped
    <2> QED BY <1>1, <2>2, <2>5, <2>7, <2>8 DEF Inv, Room, Gone, Mirror!vars
  <1>12. ASSUME ListPages \/ EndScan \/ Shutdown \/ Boot \/ UNCHANGED vars
         PROVE  Inv' /\ UNCHANGED Mirror!vars
    <2>1. UNCHANGED <<stored, owed, told, chan, buffer, index, marker, pending>>
      BY <1>12 DEF ListPages, EndScan, Shutdown, Boot, store, line, writer, life, vars
    <2>2. /\ worker' \in {worker, "exited"} /\ proc' \in {proc, "closing", "up"}
          /\ stops' \in 0 .. MaxStops
      BY <1>1, <1>12 DEF ListPages, EndScan, Shutdown, Boot, life, vars, TypeOK
    <2>3. faults' \in 0 .. MaxFaults
      BY <1>1, <1>12 DEF ListPages, EndScan, Shutdown, Boot, Fault, vars, TypeOK
    <2>4. \/ scan' \in {scan, NoScan, FromScratch}
          \/ scan' = [pc |-> "send",
                      rows |-> [p \in Page |-> IF stored[p] \in Text THEN stored[p] ELSE 0]]
      BY <1>12 DEF ListPages, EndScan, Shutdown, Boot, vars
    <2>5. scan' \in [pc : {"off", "wipe", "list", "send"}, rows : [Page -> Text \cup {0}]]
      BY <1>1, <2>4, ScanTyped DEF TypeOK
    <2>6. ASSUME NEW p \in Page PROVE HandsOK(p)'
      <3>1. stored[p] \in 0 .. Deleted
        BY <1>1, Documents DEF TypeOK
      <3>2. scan'.rows[p] \in {scan.rows[p], 0, stored[p]}
        BY <2>4 DEF NoScan, FromScratch
      <3> QED BY <1>1, <2>1, <3>1, <3>2 DEF HandsOK
    <2>7. LineTyped' /\ \A p \in Page : LineOK(p)'
      BY <1>2, <1>3, <2>1
    <2>8. TypeOK'
      BY <1>1, <2>1, <2>2, <2>3, <2>5, <2>7 DEF TypeOK, LineTyped
    <2>9. Room' /\ Gone'
      BY <1>1, <2>1, <2>2 DEF Room, Gone
    <2> QED BY <2>1, <2>6, <2>7, <2>8, <2>9 DEF Inv, Mirror!vars
  <1>13. ASSUME Exit \/ Crash PROVE Inv' /\ Mirror!Forget
    <2> DEFINE docs == [p \in Page |-> Found(p)]
    <2>1. Stop /\ stops' \in 0 .. MaxStops
      BY <1>1, <1>13 DEF Exit, Crash, TypeOK
    <2>2. docs \in [Page -> Document] /\ \A p \in Page : docs[p] <= stored[p]
      BY FoundCommitted
    <2>3. /\ proc' = "down" /\ owed' = [p \in Page |-> {}] /\ chan' = <<>> /\ Afresh(docs)
          /\ pending' = 0 /\ worker' = "select" /\ scan' = NoScan
          /\ UNCHANGED <<stored, marker, faults>>
      BY <2>1 DEF Stop
    <2>4. Mirror!Forget
      BY <2>3 DEF Afresh, Found, Mirror!Forget, Mirror!Restart
    <2> HIDE DEF docs
    <2>5. LineTyped' /\ \A p \in Page : LineOK(p)'
      BY <2>2, <2>3, AfreshStep
    <2>6. ASSUME NEW p \in Page PROVE HandsOK(p)'
      <3>1. stored[p] \in 0 .. Deleted
        BY <1>1, Documents DEF TypeOK
      <3> QED BY <2>3, <3>1 DEF HandsOK, NoScan
    <2>7. TypeOK'
      <3>1. owed' \in [Page -> SUBSET (Text \cup {Deleted})]
        BY <2>3
      <3> QED BY <1>1, <2>1, <2>3, <2>5, <3>1, ScanTyped DEF TypeOK, LineTyped
    <2> QED BY <2>3, <2>4, <2>5, <2>6, <2>7 DEF Inv, Room, Gone
  <1>14. ASSUME Reindex PROVE Inv' /\ Mirror!Reload
    <2>1. /\ proc = "down" /\ Afresh(stored) /\ marker' = TRUE
          /\ UNCHANGED <<stored, owed, chan, pending, worker, scan, proc, stops, faults>>
      BY <1>14 DEF Reindex, store, life
    <2>2. chan = <<>> /\ stored \in [Page -> Document]
      BY <1>1, <2>1, Documents DEF Gone, TypeOK
    <2>3. LineTyped' /\ \A p \in Page : LineOK(p)'
      BY <1>1, <2>1, <2>2, AfreshStep
    <2>4. Mirror!Reload
      BY <2>1 DEF Afresh, Mirror!Reload, Mirror!Restart
    <2>5. TypeOK'
      BY <1>1, <2>1, <2>3 DEF TypeOK, LineTyped
    <2> QED BY <1>1, <1>4, <2>1, <2>3, <2>4, <2>5 DEF Inv, Room, Gone
  <1>15. CASE \E p \in Page : Edit(p) \/ HandOver(p) \/ Lose(p) \/ Approve(p)
    BY <1>5, <1>6, <1>7, <1>15 DEF Mirror!Next
  <1>16. CASE Scan
    BY <1>10, <1>11, <1>12, <1>16 DEF Scan, Mirror!Next
  <1>17. CASE Work
    BY <1>8, <1>9, <1>17 DEF Work, Mirror!Next
  <1>18. CASE Shutdown \/ Exit \/ Crash \/ Boot \/ Reindex \/ UNCHANGED vars
    BY <1>12, <1>13, <1>14, <1>18 DEF Mirror!Next
  <1> QED BY <1>15, <1>16, <1>17, <1>18 DEF Next

LEMMA AlwaysInv == Spec => []Inv
  <1>1. Inv /\ [Next]_vars => Inv'
    BY InvStep
  <1> QED BY InvInit, <1>1, PTL DEF Spec

-----------------------------------------------------------------------------
(* The theorems.                                                             *)

\* The indexer stays well formed: in particular no burst, however it is cut,
\* puts more than the channel holds or commits more than a batch
\* (run_worker, IndexerHandle::try_send).
THEOREM TypesHold == Spec => []TypeOK
  <1>1. Inv => TypeOK
    BY DEF Inv
  <1> QED BY AlwaysInv, <1>1, PTL

\* Readers never find a text or a deletion before the store has committed it,
\* whatever order handlers hand over in, whatever a rebuild replays and
\* whichever jobs, commits and processes are lost.
THEOREM ReadersNeverAhead == Spec => []NeverAhead
  <1>1. Inv => NeverAhead
    BY FoundCommitted DEF NeverAhead
  <1> QED BY AlwaysInv, <1>1, PTL

\* Of each page readers find the documents the channel accepted, in that
\* order and without going back: no dropped job, failed commit, full channel,
\* lost marker, rebuild, kill, stop or reindexing brings back what a later
\* job has replaced (run_worker, apply_job, commit_and_mark).  Only an upsert
\* that the writer refuses leaves a page without its document.
THEOREM MirrorImplemented == Spec => MirrorsStore
  <1>1. Init => Mirror!Init
    <2> SUFFICES ASSUME Init PROVE Mirror!Init
      OBVIOUS
    <2>1. \A p \in Page : stored[p] \in {0, 1} /\ 0 \in Mirror!State /\ 1 \in Mirror!State
      BY SizesAssumption DEF Init, Mirror!State, Mirror!Deleted
    <2>2. \A p \in Page : told[p] = <<IF marker THEN stored[p] ELSE 0>>
      BY DEF Init
    <2>3. \A p \in Page : /\ told[p] \in {<<s>> : s \in Mirror!State}
                          /\ told[p][1] <= stored[p]
      BY <2>1, <2>2
    <2> QED BY <2>1, <2>3 DEF Init, Mirror!Init
  <1>2. Inv /\ [Next]_vars => [Mirror!Next]_Mirror!vars
    BY InvStep
  <1> QED BY AlwaysInv, <1>1, <1>2, PTL DEF Spec, MirrorsStore, Mirror!Spec

=============================================================================
