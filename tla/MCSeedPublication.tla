------------------------- MODULE MCSeedPublication -------------------------
(***************************************************************************)
(* TLC instances of SeedPublication: two generations that differ in every  *)
(* file, one with a blank input, and the directories earlier versions left *)
(* behind (complete, partial, and one whose seed file is blank).           *)
(***************************************************************************)
EXTENDS SeedPublication, TLC

CONSTANTS plan, extra, A, B

Both(x, y) == (plan :> x) @@ (extra :> y)

MCGenerations == {Both(A, A), Both(B, B), Both(A, Empty)}
MCLegacy == {Both(A, A), plan :> B, Both(Empty, A), extra :> A}

=============================================================================
