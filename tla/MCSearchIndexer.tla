-------------------------- MODULE MCSearchIndexer --------------------------
(* Small instances of SearchIndexer for TLC.                                 *)
EXTENDS SearchIndexer

=============================================================================
