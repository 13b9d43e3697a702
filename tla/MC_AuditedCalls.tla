-------------------------- MODULE MC_AuditedCalls --------------------------
(***************************************************************************)
(* Two servers and the same audit log.                                     *)
(***************************************************************************)
EXTENDS AuditedCalls, TLC

CONSTANTS p1, p2, r1, r2

MCProcs == {p1, p2}
MCRequests == {r1, r2}
MCSymmetry == Permutations(MCProcs) \cup Permutations(MCRequests)

MCPrefix(lines) == [lines |-> lines, open |-> FALSE]

\* A new log, and one of an earlier release.
MCCleanPrefixes == {MCPrefix(<<>>), MCPrefix(<<"legacy">>)}
=============================================================================
