---------------------------- MODULE MC_Approval ----------------------------
(***************************************************************************)
(* Two processes of one workspace that race for a token, which may be one  *)
(* of another workspace, of another risk, or of no action.                 *)
(***************************************************************************)
EXTENDS Approval

CONSTANTS p1, p2, n1, w1, w2, a1

MCProcs == {p1, p2}
MCWorkspaces == {w1, w2}
MCOneWorkspace == {w1}
MCWorkspaceOf == [p \in MCProcs |-> w1]
MCNonces == {n1}
MCActions == {a1}
MCRisks == {30, 50}
MCOneRisk == {30}
MCOneSecond == {1}
=============================================================================
