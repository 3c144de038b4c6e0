---------------------------- MODULE MCWikiPages ----------------------------
(* Small instances of WikiPages for TLC: the anonymous account, an editor   *)
(* and a moderator who edits, protects and reviews.                         *)
EXTENDS WikiPages, TLC

CONSTANTS Editor, Moderator

Trusted == {"EDIT", "PROTECT", "REVIEW_EDITS"}

PermsOfTwo == (Anonymous :> {}) @@ (Moderator :> Trusted)

PermsOfStaff ==
  (Anonymous :> {}) @@ (Editor :> {"EDIT"}) @@ (Moderator :> Trusted)

Requests == Permutations(Req)

=============================================================================
