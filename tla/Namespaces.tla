----------------------------- MODULE Namespaces -----------------------------
(* Namespaces: each subject namespace is created together with, or over, the *)
(* talk namespace that carries its name with a prefix, and the two point at  *)
(* each other.  A slug is the number of its talk prefixes.                   *)
EXTENDS Requests

CONSTANT LongestSlug  \* the slug that a prefix would make too long

Slug == 0 .. LongestSlug

NsId == Request \X {"own", "talk"}

VARIABLES
  namespace,  \* id -> row, Nil where there is none
  housed      \* page, named by the request that made it -> its namespace

nsVars == <<namespace, housed>>

-----------------------------------------------------------------------------

NsRows == [slug : Slug, display : Request, is_talk : BOOLEAN, paired : NsId \cup {Nil}]

\* Nothing is neither an id nor a row.
ASSUME NamespacesAssumption ==
  /\ LongestSlug \in Nat
  /\ Nil \notin NsId
  /\ Nil \notin NsRows

NsRow(slug, display, is_talk, paired) ==
  [slug |-> slug, display |-> display, is_talk |-> is_talk, paired |-> paired]

NsInit ==
  /\ namespace = [n \in NsId |-> Nil]
  /\ housed = [r \in Request |-> Nil]

Exists(n) == namespace[n] # Nil

Named(s) == {n \in NsId : Exists(n) /\ namespace[n].slug = s}

\* idx_namespaces_paired_namespace_id
UniquePairs(tab) ==
  \A n, m \in NsId :
    /\ tab[n] # Nil /\ tab[m] # Nil
    /\ tab[n].paired # Nil /\ tab[n].paired = tab[m].paired
    => n = m

\* The subject beside a talk namespace of its own.
WithNewTalk(r, s) ==
  [namespace EXCEPT
     ![<<r, "own">>] = NsRow(s, r, FALSE, <<r, "talk">>),
     ![<<r, "talk">>] = NsRow(s + 1, r, TRUE, <<r, "own">>)]

\* The subject over a namespace that has the talk name already.
OverExisting(r, s, e) ==
  [namespace EXCEPT
     ![<<r, "own">>] = NsRow(s, r, FALSE, e),
     ![e].paired = IF @ = Nil THEN <<r, "own">> ELSE @]

\* Mutant of Insert: the index on the pairing is not unique.
InsertUnindexed(r, s) ==
  /\ Named(s) = {}
  /\ s + 1 \in Slug
  /\ \/ Named(s + 1) = {} /\ namespace' = WithNewTalk(r, s)
     \/ \E e \in Named(s + 1) : namespace' = OverExisting(r, s, e)

\* The transaction of create; a violated constraint rolls it back.
Insert(r, s) ==
  /\ Named(s) = {}
  /\ s + 1 \in Slug
  /\ \/ Named(s + 1) = {} /\ namespace' = WithNewTalk(r, s)
     \/ \E e \in Named(s + 1) : namespace' = OverExisting(r, s, e)
  /\ UniquePairs(namespace')

CreateNamespace(r) ==
  /\ \E s \in Slug :
       /\ Arrive(r, "namespaces", "create", <<r, "own">>, "reread", Nil)
       /\ Insert(r, s)
  /\ Changes(r)
  /\ UNCHANGED <<housed, audit>>

\* The response and the entry are made from the row as it now is.
Reread(r) ==
  /\ At(r, "create", "reread")
  /\ Go(r, IF Exists(h[r].key) THEN "log" ELSE "refused")
  /\ UNCHANGED <<namespace, housed, audit, changed>>

\* Start-up looks for a namespace it needs and does not find it.
ReadForSeed(r) ==
  /\ \E s \in Slug :
       /\ Named(s) = {}
       /\ Arrive(r, "namespaces", "seed", Nil, "insert", s)
  /\ UNCHANGED <<namespace, housed, audit, changed>>

\* Somebody else may have created it meanwhile.
Seed(r) ==
  /\ At(r, "seed", "insert")
  /\ IF Named(h[r].seen) = {}
     THEN Insert(r, h[r].seen)
     ELSE UNCHANGED namespace
  /\ Go(r, "done")
  /\ UNCHANGED <<housed, audit, changed>>

ReadForRename(r) ==
  /\ \E n \in NsId :
       /\ Exists(n)
       /\ Arrive(r, "namespaces", "rename", n, "rename", namespace[n].display)
  /\ UNCHANGED <<namespace, housed, audit, changed>>

\* Mutant of Rename: an empty name is accepted.
RenameToNothing(r) ==
  /\ At(r, "rename", "rename")
  /\ Exists(h[r].key)
  /\ namespace' = [namespace EXCEPT ![h[r].key].display = Nil]
  /\ Changes(r)
  /\ Go(r, "log")
  /\ UNCHANGED <<housed, audit>>

Rename(r) ==
  LET n == h[r].key
  IN /\ At(r, "rename", "rename")
     /\ \/ /\ Exists(n)
           /\ namespace' = [namespace EXCEPT ![n].display = r]
           /\ Changes(r)
           /\ Go(r, "log")
        \/ /\ ~Exists(n)
           /\ Go(r, "refused")
           /\ UNCHANGED <<namespace, changed>>
     /\ UNCHANGED <<housed, audit>>

PagesIn(n) == {p \in Request : housed[p] = n}

ReadForDelete(r) ==
  /\ \E n \in NsId :
       /\ Exists(n)
       /\ Arrive(r, "namespaces", "delete", n, "check", Nil)
  /\ UNCHANGED <<namespace, housed, audit, changed>>

\* The pre-flight look for a page.
CheckEmpty(r) ==
  /\ At(r, "delete", "check")
  /\ Go(r, IF PagesIn(h[r].key) = {} THEN "delete" ELSE "refused")
  /\ UNCHANGED <<namespace, housed, audit, changed>>

\* ON DELETE SET NULL
Without(n) ==
  [m \in NsId |->
     CASE m = n -> Nil
       [] m # n /\ Exists(m) /\ namespace[m].paired = n ->
            [namespace[m] EXCEPT !.paired = Nil]
       [] OTHER -> namespace[m]]

\* Mutant of Delete: trusts the pre-flight look.
DeleteUnchecked(r) ==
  LET n == h[r].key
  IN /\ At(r, "delete", "delete")
     /\ \/ Exists(n) /\ namespace' = Without(n) /\ Changes(r) /\ Go(r, "log")
        \/ ~Exists(n) /\ Go(r, "refused") /\ UNCHANGED <<namespace, changed>>
     /\ UNCHANGED <<housed, audit>>

\* Mutant of Delete: the handler returns before it logs.
DeleteUnlogged(r) ==
  /\ At(r, "delete", "delete")
  /\ Exists(h[r].key) /\ PagesIn(h[r].key) = {}
  /\ namespace' = Without(h[r].key)
  /\ Changes(r)
  /\ Go(r, "done")
  /\ UNCHANGED <<housed, audit>>

\* The DELETE: the foreign key of pages restricts it.
Delete(r) ==
  LET n == h[r].key
  IN /\ At(r, "delete", "delete")
     /\ \/ /\ Exists(n)
           /\ PagesIn(n) = {}
           /\ namespace' = Without(n)
           /\ Changes(r)
           /\ Go(r, "log")
        \/ /\ ~Exists(n) \/ PagesIn(n) # {}
           /\ Go(r, "refused")
           /\ UNCHANGED <<namespace, changed>>
     /\ UNCHANGED <<housed, audit>>

\* A page is created in two calls: the namespace is resolved, the row inserted.
ResolveForPage(r) ==
  /\ \E n \in NsId :
       /\ Exists(n)
       /\ Arrive(r, "namespaces", "page", n, "insert", Nil)
  /\ UNCHANGED <<namespace, housed, audit, changed>>

InsertPage(r) ==
  /\ At(r, "page", "insert")
  /\ \/ /\ Exists(h[r].key)
        /\ housed' = [housed EXCEPT ![r] = h[r].key]
        /\ Go(r, "done")
     \/ /\ ~Exists(h[r].key)
        /\ Go(r, "refused")
        /\ UNCHANGED housed
  /\ UNCHANGED <<namespace, audit, changed>>

NsStep(r) ==
  \/ CreateNamespace(r) \/ Reread(r)
  \/ ReadForSeed(r) \/ Seed(r)
  \/ ReadForRename(r) \/ Rename(r)
  \/ ReadForDelete(r) \/ CheckEmpty(r) \/ Delete(r)
  \/ ResolveForPage(r) \/ InsertPage(r)

-----------------------------------------------------------------------------

NsTypeOK ==
  /\ namespace \in [NsId -> NsRows \cup {Nil}]
  /\ housed \in [Request -> NsId \cup {Nil}]

\* Whatever namespaces are created over each other's talk names, deleted and
\* created again: a namespace that points at a partner is the one the partner
\* points at, one of the two carries the other's name with the prefix, and no
\* two talk namespaces are partners ("bidirectional FK").
PairingIsMutual ==
  \A n \in NsId : Exists(n) /\ namespace[n].paired # Nil =>
    LET m == namespace[n].paired
    IN /\ Exists(m) /\ namespace[m].paired = n
       /\ namespace[m].slug \in {namespace[n].slug - 1, namespace[n].slug + 1}
       /\ namespace[n].is_talk => ~namespace[m].is_talk

\* A page never loses its namespace, although the namespace it resolved may go
\* before it is inserted, and a page may come after the pre-flight look.
PagesKeepNamespace ==
  \A p \in Request : housed[p] # Nil => Exists(housed[p])

=============================================================================
