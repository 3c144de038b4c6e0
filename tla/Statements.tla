----------------------------- MODULE Statements -----------------------------
(* The storage calls of the adapters as sequences of SQL statements over a   *)
(* table of rows, and what each statement does to it.                        *)
EXTENDS Integers, Sequences, SequencesExt

CONSTANTS
  Request,      \* the handlers that call the store, each once
  LongestSlug,  \* a namespace slug is told by the number of its "Talk_"
  Nil           \* no row

VARIABLE dialect  \* the database behind the store

\* The rows the calls below touch: namespaces by slug, and one page, pending
\* revision, account name and set of links, an audit entry per call.
Key ==
  ({"namespace"} \X (1 .. LongestSlug + 1))
    \cup ({"page", "pending", "user", "links"} \X {1})
    \cup ({"audit"} \X Request)

NS(n) == <<"namespace", n>>
PageRow == <<"page", 1>>
PendingRow == <<"pending", 1>>
UserRow == <<"user", 1>>
LinkRows == <<"links", 1>>
AuditRow(r) == <<"audit", r>>

\* A namespace row holds the number of its partner, or none.
Unpaired == 0

Value(k) ==
  {Nil} \cup IF k[1] = "namespace" THEN 0 .. LongestSlug + 1
            ELSE Request \cup {"pending"}

Insert(k, x) == [do |-> "insert", key |-> k, val |-> x]
Claim(k, x) == [do |-> "claim", key |-> k, val |-> x]
Pair(n) == [do |-> "pair", key |-> NS(n), val |-> n]
Expect(k, x) == [do |-> "expect", key |-> k, val |-> x]
Decide(k, x) == [do |-> "decide", key |-> k, val |-> x]
Put(k, x) == [do |-> "put", key |-> k, val |-> x]
Read(k) == [do |-> "read", key |-> k, val |-> Nil]

\* A subject, its discussion unless there is one already, and the pointers
\* from one to the other.  A namespace that comes as a discussion is inserted
\* as it is.
create(n) == <<Insert(NS(n), Unpaired), Claim(NS(n + 1), n), Pair(n)>>
create_talk(n) == <<Insert(NS(n), Unpaired)>>

\* A page and the audit entry of its creation.
commit_page_audit(r) == <<Insert(PageRow, r), Insert(AuditRow(r), r)>>

\* The row must be pending when it is read, and is updated if it still is.  A
\* decided row is named after the call that decided it.
decide(r) == <<Expect(PendingRow, "pending"), Decide(PendingRow, r)>>

\* The links of a page are dropped before the new ones are inserted.
replace_for_source(r) == <<Put(LinkRows, Nil), Put(LinkRows, r)>>

\* Statements without a transaction around them.
create_user(r) == <<Insert(UserRow, r)>>
list_backlinks_to == <<Read(LinkRows)>>

Program(c, r) ==
  CASE c.op = "namespace" -> create(c.arg)
    [] c.op = "talk" -> create_talk(c.arg)
    [] c.op = "page" -> commit_page_audit(r)
    [] c.op = "decide" -> decide(r)
    [] c.op = "replace" -> replace_for_source(r)
    [] c.op = "user" -> create_user(r)
    [] c.op = "list" -> list_backlinks_to

\* The calls each adapter has: the repositories of decisions and links are
\* those of SQLite alone, and the audited mutation is missing in Postgres.
Offered(d) ==
  CASE d = "sqlite" -> {"namespace", "talk", "page", "decide", "replace", "user", "list"}
    [] d = "postgres" -> {"namespace", "talk", "user"}
    [] d = "libsql" -> {"namespace", "talk", "page", "user"}

\* The rows a statement may write.
Writes(s) ==
  CASE s.do \in {"expect", "read"} -> {}
    [] s.do = "pair" -> {s.key, NS(s.val + 1)}
    [] OTHER -> {s.key}

\* idx_namespaces_paired_namespace_id
UniquePairs(rows) ==
  \A m, n \in 1 .. LongestSlug + 1 :
    m # n /\ rows[NS(m)] = rows[NS(n)] => rows[NS(m)] \in {Nil, Unpaired}

\* What a statement makes of the rows: nothing when it fails.  After a failed
\* statement Postgres accepts no other in the same transaction, so that the
\* look for the row that is already there fails, too.
After(s, rows) ==
  CASE s.do = "insert" \/ (s.do = "claim" /\ dialect = "postgres") ->
         IF rows[s.key] = Nil THEN {[rows EXCEPT ![s.key] = s.val]} ELSE {}
    [] s.do = "claim" /\ dialect # "postgres" ->
         {[rows EXCEPT ![s.key] = IF @ = Nil THEN s.val ELSE @]}
    [] s.do = "pair" ->
         LET paired == [rows EXCEPT ![s.key] = s.val + 1,
                                    ![NS(s.val + 1)] = IF @ = Unpaired THEN s.val ELSE @]
         IN IF UniquePairs(paired) THEN {paired} ELSE {}
    [] s.do = "expect" -> IF rows[s.key] = s.val THEN {rows} ELSE {}
    [] s.do = "decide" ->
         {[rows EXCEPT ![s.key] = IF @ = "pending" THEN s.val ELSE @]}
    [] s.do = "put" -> {[rows EXCEPT ![s.key] = s.val]}
    [] s.do = "read" -> {rows}

\* What a whole call makes of the rows.
AfterAll(program, rows) ==
  FoldLeft(LAMBDA all, s : UNION {After(s, x) : x \in all}, {rows}, program)

=============================================================================
