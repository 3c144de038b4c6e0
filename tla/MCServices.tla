----------------------------- MODULE MCServices -----------------------------
EXTENDS Services

CONSTANTS r1, r2, r3, r4

MCTopics == {"namespaces", "blocklist", "accounts", "media", "listing"}

MCLoad ==
  [namespaces |-> 4, blocklist |-> 3, accounts |-> 2, media |-> 3, listing |-> 3]

Interchangeable == Permutations(Request) \cup Permutations(Entries)

=============================================================================
