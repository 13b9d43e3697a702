---------------------------- MODULE MC_Bootstrap ----------------------------
(***************************************************************************)
(* Two installers, or one, and two versions with two wheels each.          *)
(***************************************************************************)
EXTENDS Bootstrap, TLC

CONSTANTS i1, i2, v1, v2, d1, d2

MCOne == {i1}
MCInstallers == {i1, i2}
MCVersions == {v1, v2}
MCDigests == {d1, d2}
MCSymmetry == Permutations(MCInstallers) \cup Permutations(MCVersions)
                  \cup Permutations(MCDigests)
=============================================================================
