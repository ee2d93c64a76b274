---------------------------- MODULE MCIdentityWrite ----------------------------
(* Small instances of IdentityWrite for TLC. *)
EXTENDS IdentityWrite, TLC

CONSTANTS d1, d2, p1, p2, r1, r2

\* One person with a card and a face; one with a card and one with neither.
Full == (p1 :> {"card", "face"})
CardAndBare == (p1 :> {"card"} @@ p2 :> {})

\* Requests differ in their name only.
Alike == Permutations({r1, r2})
=============================================================================
