----------------------------- MODULE MCAdapters -----------------------------
(* Small instances of Adapters for TLC.                                      *)
EXTENDS Adapters

Op(op, args) == [op : {op}, arg : args]

\* The single statements of libsql are left out: they join whatever
\* transaction is open.
MCCalls ==
  [sqlite |-> [op : {"page", "decide", "replace", "list"}, arg : {1}],
   postgres |-> Op("namespace", 1 .. LongestSlug) \cup Op("user", {1}),
   libsql |-> Op("namespace", 1 .. LongestSlug) \cup Op("talk", {2}) \cup Op("page", {1})]

=============================================================================
