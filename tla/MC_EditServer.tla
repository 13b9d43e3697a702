--------------------------- MODULE MC_EditServer ---------------------------
(***************************************************************************)
(* Two servers and the user at one file with two contents.                 *)
(***************************************************************************)
EXTENDS EditServer, TLC

CONSTANTS p1, p2, f1, c1, c2

MCProcs == {p1, p2}
MCNames == {f1}
MCContents == {c1, c2}
MCProposed == {c2}
MCSymmetry == Permutations(MCProcs)
=============================================================================
