----------------------------- MODULE MC_Threads -----------------------------
(***************************************************************************)
(* What must go on: the file lock, the loop in which a server reads its    *)
(* client's lines, and the threads and processes of a command. They share  *)
(* nothing, so a behaviour is one of theirs and the others rest.           *)
(*                                                                         *)
(* FileLock is as GPTHands uses it on the queue of approvals. The handler  *)
(* threads of the control UI share one FileLock object; every MCP server   *)
(* process opens the lock file itself and has one thread.                  *)
(*                                                                         *)
(* The command starts two processes, both of which may leave its group.    *)
(***************************************************************************)
EXTENDS FileLock, StdioLoop, ProcessControl

CONSTANTS u1, u2, s1, s2, ui, k1, k2

MCThreads == {u1, u2, s1, s2}
MCHandles == {ui, s1, s2}
MCHandleOf == [t \in MCThreads |-> IF t \in {u1, u2} THEN ui ELSE t]
MCKids == {k1, k2}
MCUses == {"command", "windows", "tunnel_step", "tunnel_run"}

VARIABLE part

\* A command whose call has returned: none of its threads and processes goes on.
CommandIsOver ==
    /\ use = "command" /\ main = "returned"
    /\ proc = [x \in Tree |-> IF x = Root THEN "dead" ELSE "none"]
    /\ strays = {} /\ holds = {} /\ pipe = 0 /\ written = 0
    /\ reader = "eof" /\ chunk = 0 /\ captured = 0
    /\ truncated = FALSE /\ cutOff = FALSE /\ closed = FALSE

MCInit ==
    /\ part \in {"lock", "loop", "command"}
    /\ Init /\ StdioInit
    /\ IF part = "command" THEN ProcessInit ELSE CommandIsOver

MCNext ==
    \/ part = "lock" /\ Next /\ UNCHANGED <<part, stdioVars, processVars>>
    \/ part = "loop" /\ StdioNext /\ UNCHANGED <<part, lockVars, processVars>>
    \/ part = "command" /\ ProcessNext /\ UNCHANGED <<part, lockVars, stdioVars>>

\* The fairness of the three: where one rests, none of its steps that are fair is
\* enabled.
MCSpec ==
    /\ MCInit /\ [][MCNext]_<<part, lockVars, stdioVars, processVars>>
    /\ Fairness /\ WF_stdioVars(LoopStep) /\ ProcessFairness
=============================================================================
