---------------------------- MODULE MC_ControlUI ----------------------------
(***************************************************************************)
(* Small instances of ControlUI: one browser tab and one server, or two    *)
(* tabs (which share the store object of the UI) and one server.           *)
(***************************************************************************)
EXTENDS ControlUI

CONSTANTS u1, u2, s1, ui, wa, wb, ha, hb

MCOneTab == {u1}
MCTwoTabs == {u1, u2}
MCServers == {s1}
MCServerOf == [s \in MCServers |-> wa]
MCHandles == {ui, s1}

MCPair == MCOneTab \cup MCServers
MCPairHandleOf == [t \in MCPair |-> IF t = s1 THEN s1 ELSE ui]
MCThreads == MCTwoTabs \cup MCServers
MCHandleOf == [t \in MCThreads |-> IF t = s1 THEN s1 ELSE ui]

MCBothWorkspaces == {wa, wb}
MCFirstWorkspace == {wa}
MCHashes == {ha}
MCTwoHashes == {ha, hb}
MCTypedHash == {hb}
MCNoHashes == {}
MCRisks == {30}
=============================================================================
