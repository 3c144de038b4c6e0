---------------------------- MODULE SearchMirror ----------------------------
(* What the search index promises: it trails what it is told about the page  *)
(* store.  Of each page it is told a sequence of documents, each a state the *)
(* store has committed by then; readers find one of them and never go back   *)
(* in that sequence.  In which order it is told, how far it trails and what  *)
(* it is never told is left open; LiveSpec says it follows what it is told.  *)
EXTENDS Integers, Sequences

CONSTANTS
  Page,       \* the page ids
  LastText,   \* the texts of a page are numbered 1 .. LastText
  Refusals    \* whether a document may come to nothing

VARIABLES
  stored,     \* page -> number of the state the page store is in
  told,       \* page -> the documents told, 0 for none
  shown       \* page -> position of the document readers find

vars == <<stored, told, shown>>

\* 0 before the page exists, Deleted when it is gone for good.
Deleted == LastText + 1
State == 0 .. Deleted

Init ==
  /\ stored \in [Page -> State]
  /\ told \in [Page -> {<<s>> : s \in State}]
  /\ \A p \in Page : told[p][1] <= stored[p]
  /\ shown = [p \in Page |-> 1]

Write(p) ==
  /\ stored[p] # Deleted
  /\ \E s \in {stored[p] + 1, Deleted} : stored' = [stored EXCEPT ![p] = s]
  /\ UNCHANGED <<told, shown>>

\* Some pages are told one more document: a state they have reached, none of
\* them, or an empty text (-1).
Tells(P) ==
  \E docs \in [P -> State \cup {-1}] :
    /\ \A p \in P : docs[p] <= stored[p]
    /\ told' = [p \in Page |-> IF p \in P THEN Append(told[p], docs[p]) ELSE told[p]]

Hear ==
  /\ \E P \in SUBSET Page : Tells(P)
  /\ UNCHANGED <<stored, shown>>

\* What readers have not found yet may come to nothing.
Refuse ==
  /\ Refusals
  /\ DOMAIN told' = Page
  /\ \A p \in Page :
       /\ DOMAIN told'[p] = DOMAIN told[p]
       /\ \A n \in DOMAIN told[p] :
            told'[p][n] = told[p][n] \/ (n > shown[p] /\ told'[p][n] = 0)
  /\ UNCHANGED <<stored, shown>>

\* Any number of pages move forward at once: a commit publishes a batch.
Publish ==
  /\ DOMAIN shown' = Page
  /\ \A p \in Page : shown'[p] \in shown[p] .. Len(told[p])
  /\ UNCHANGED <<stored, told>>

\* What readers find is all there is, or all there is is told and shown.
Restart(docs) ==
  /\ told' = [p \in Page |-> <<docs[p]>>]
  /\ shown' = [p \in Page |-> 1]
  /\ UNCHANGED stored

Forget == Restart([p \in Page |-> told[p][shown[p]]])

Reload == Restart(stored)

Next ==
  \/ \E p \in Page : Write(p)
  \/ Hear \/ Refuse \/ Publish \/ Forget \/ Reload

Spec == Init /\ [][Next]_vars

\* A page has a last text, so there is a last thing it is told: in the end
\* that is shown.
Follows == <>[](\A p \in Page : shown[p] = Len(told[p]))

LiveSpec == Spec /\ Follows

=============================================================================
