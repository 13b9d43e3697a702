----------------------------- MODULE RunCommand -----------------------------
(***************************************************************************)
(* run_command and the curated git tools (src/gpthands/server.py), with    *)
(* what decides over them: the classification of the command (risk.py),    *)
(* the leases (policy.py), the choice of a sandbox (sandbox.py), and the   *)
(* private copy of the workspace on Windows (windows_classic.py).          *)
(*                                                                         *)
(* A command is classified, waits for its approval, and is then given what *)
(* the leases allow at that moment. Under bubblewrap and Seatbelt it       *)
(* changes the workspace itself. On Windows it runs on a copy, which is    *)
(* copied back, file by file, when it may write and its run has ended.     *)
(* Several servers and the user work in one workspace. How the processes   *)
(* of a command end is in ProcessControl; here they live or do not.        *)
(***************************************************************************)
EXTENDS Integers

CONSTANTS
    Servers,
    Files,
    Contents,
    Absent,         \* there is no such file
    Torn,           \* the file is open for writing, or was left like that
    Commands,       \* what the model may ask for
    Thresholds,     \* approval_required_from of the policies considered
    NoFile

ASSUME RunAssumption ==
    /\ Absent \notin Contents /\ Torn \notin Contents /\ Absent # Torn
    /\ NoFile \notin Files
    /\ Thresholds \subseteq {30, 40, 50}

VARIABLES
    backend,        \* what plan() finds on this machine under this policy
    inTmp,          \* the workspace is below /private/tmp (of Seatbelt alone)
    approvalFrom,   \* approval_required_from
    leases,         \* the leases that are live
    workspace,
    stage,          \* the copy each server's command works on
    pc, call,
    alive,          \* some process of the command of a server runs
    todo,           \* files still to be copied, in or back
    open,           \* the file that is being copied back
    touched,        \* history: changed by others since the server copied it
    changed,        \* history: changed by the call
    finished        \* history: the command has ended within its limits

vars == <<backend, inTmp, approvalFrom, leases, workspace, stage, pc, call, alive, todo,
          open, touched, changed, finished>>

Read == 10  Exec == 30  Network == 40  Destructive == 50

Backends == {"bubblewrap", "sandbox-exec", "windows-appcontainer", "policy-only", "none"}

Leases == {"write", "process", "network"}
Values == Contents \cup {Absent, Torn}

Pcs == {"idle", "approval", "plan", "stage", "run", "sync", "done", "failed", "dead"}
Tools == {"run_command", "git", "none"}
NoCall == [tool |-> "none", risk |-> Read, paid |-> 0, leased |-> {},
           write |-> FALSE, network |-> FALSE]
Calls == [tool : Tools, risk : {Read, Exec, Network, Destructive}, paid : {0, Exec, Network, Destructive},
          leased : SUBSET Leases, write : BOOLEAN, network : BOOLEAN]

TypeOK ==
    /\ backend \in Backends /\ inTmp \in BOOLEAN /\ approvalFrom \in Thresholds
    /\ leases \subseteq Leases
    /\ workspace \in [Files -> Values] /\ stage \in [Servers -> [Files -> Values]]
    /\ pc \in [Servers -> Pcs]
    /\ call \in [Servers -> Calls]
    /\ \A s \in Servers : call[s].tool = "none" <=> pc[s] = "idle"
    /\ alive \in [Servers -> BOOLEAN] /\ finished \in [Servers -> BOOLEAN]
    /\ todo \in [Servers -> SUBSET Files] /\ open \in [Servers -> Files \cup {NoFile}]
    /\ touched \in [Servers -> SUBSET Files] /\ changed \in [Servers -> SUBSET Files]

(***************************************************************************)
(* A command is the kind of its program (an interpreter, a network client, *)
(* a manager with network subcommands, or another) and what its arguments  *)
(* contain.                                                                *)
(***************************************************************************)
RequiresNetwork(c) ==
    c.program = "client" \/ (c.program = "manager" /\ "subcommand" \in c.args)

Classify(c) ==
    CASE c.program = "interpreter" \/ "dangerous" \in c.args -> Destructive
      [] ~(c.program = "interpreter" \/ "dangerous" \in c.args) ->
            IF RequiresNetwork(c) THEN Network ELSE Exec

-----------------------------------------------------------------------------
EmptyStage == [f \in Files |-> Absent]

Init ==
    /\ backend \in Backends /\ approvalFrom \in Thresholds
    /\ inTmp \in (IF backend = "sandbox-exec" THEN BOOLEAN ELSE {FALSE})
    /\ leases = Leases
    /\ workspace \in [Files -> Contents \cup {Absent}]
    /\ stage = [s \in Servers |-> EmptyStage]
    /\ pc = [s \in Servers |-> "idle"] /\ call = [s \in Servers |-> NoCall]
    /\ alive = [s \in Servers |-> FALSE] /\ finished = [s \in Servers |-> FALSE]
    /\ todo = [s \in Servers |-> {}] /\ open = [s \in Servers |-> NoFile]
    /\ touched = [s \in Servers |-> {}] /\ changed = [s \in Servers |-> {}]

Goto(s, from, to) == pc[s] = from /\ pc' = [pc EXCEPT ![s] = to]

machine == <<backend, inTmp, approvalFrom>>
copying == <<stage, todo, open, finished>>
history == <<touched, changed>>

OnCopy == backend = "windows-appcontainer"

\* f is given the value v; the servers in S did not do it, and work on a copy.
Change(f, v, S) ==
    /\ workspace' = [workspace EXCEPT ![f] = v]
    /\ touched' = [t \in Servers |->
            IF t \in S /\ OnCopy /\ pc[t] \in {"stage", "run", "sync", "done"}
            THEN touched[t] \cup {f} ELSE touched[t]]

-----------------------------------------------------------------------------
(* The call, up to the start of the command. Refusals that change nothing  *)
(* are left out.                                                           *)

\* validate_command: the process lease, and the network lease of a command
\* that is known to need it.
CallCommand(s, c) ==
    /\ Goto(s, "idle", "approval")
    /\ "process" \in leases
    /\ RequiresNetwork(c) => "network" \in leases
    /\ call' = [call EXCEPT ![s] =
            [NoCall EXCEPT !.tool = "run_command", !.risk = Classify(c)]]
    /\ UNCHANGED <<machine, leases, workspace, copying, alive, history>>

\* _run_curated_git: no lease, no approval.
CallGit(s) ==
    /\ Goto(s, "idle", "plan")
    /\ call' = [call EXCEPT ![s].tool = "git"]
    /\ UNCHANGED <<machine, leases, workspace, copying, alive, history>>

\* _require_approval, which takes as long as the lock of the tokens does.
Approve(s) ==
    /\ Goto(s, "approval", "plan")
    /\ call' = [call EXCEPT
            ![s].paid = IF call[s].risk >= approvalFrom THEN call[s].risk ELSE 0,
            ![s].leased = leases \ {"process"}]
    /\ UNCHANGED <<machine, leases, workspace, copying, alive, history>>

\* There is no valid token.
Refuse(s) ==
    /\ pc[s] = "approval" /\ call[s].risk >= approvalFrom
    /\ pc' = [pc EXCEPT ![s] = "idle"] /\ call' = [call EXCEPT ![s] = NoCall]
    /\ UNCHANGED <<machine, leases, workspace, copying, alive, history>>

\* What the arguments of sandbox.run evaluate to, after the approval.
MayWrite(s) == call[s].tool = "run_command" /\ "write" \in leases

\* Mutant: whatever the risk.
MayConnectAlways(s) == call[s].tool = "run_command" /\ "network" \in leases

MayConnect(s) ==
    call[s].tool = "run_command" /\ "network" \in leases /\ call[s].risk >= Network

\* sandbox.run and plan.
Plan(s) ==
    /\ backend # "none"
    /\ Goto(s, "plan", IF OnCopy THEN "stage" ELSE "run")
    /\ call' = [call EXCEPT ![s].write = MayWrite(s), ![s].network = MayConnect(s)]
    /\ alive' = [alive EXCEPT ![s] = (~OnCopy)]
    /\ todo' = [todo EXCEPT ![s] = IF OnCopy THEN Files ELSE {}]
    /\ UNCHANGED <<machine, leases, workspace, stage, open, finished, history>>

\* There is no sandbox, and the policy requires one.
PlanFails(s) ==
    /\ backend = "none"
    /\ Goto(s, "plan", "failed")
    /\ UNCHANGED <<machine, leases, workspace, copying, call, alive, history>>

-----------------------------------------------------------------------------
(* The command.                                                            *)

\* copytree, which goes from file to file.
CopyIn(s, f) ==
    /\ pc[s] = "stage" /\ f \in todo[s]
    /\ stage' = [stage EXCEPT ![s][f] = workspace[f]]
    /\ todo' = [todo EXCEPT ![s] = @ \ {f}]
    /\ touched' = [touched EXCEPT ![s] = @ \ {f}]
    /\ UNCHANGED <<machine, leases, workspace, pc, call, alive, open, finished, changed>>

\* The copy is complete, and CreateProcessW succeeds.
Launch(s) ==
    /\ todo[s] = {}
    /\ Goto(s, "stage", "run")
    /\ alive' = [alive EXCEPT ![s] = TRUE]
    /\ UNCHANGED <<machine, leases, workspace, copying, call, history>>

\* The profile of Seatbelt always lets a command write below /private/tmp.
OpenToAll == backend = "sandbox-exec" /\ inTmp

\* What else stands in the way of a command that writes to the workspace: nothing
\* without a sandbox, and with one a read-only mount, profile or ACL.
Writable(s) == backend = "policy-only" \/ OpenToAll \/ call[s].write

\* A process of the command writes or removes a file: of the copy...
CommandChangesStage(s, f, v) ==
    /\ alive[s] /\ OnCopy /\ Writable(s)
    /\ stage[s][f] # v
    /\ stage' = [stage EXCEPT ![s][f] = v]
    /\ UNCHANGED <<machine, leases, workspace, pc, call, alive, todo, open, finished, history>>

\* ... or of the workspace itself.
CommandChangesWorkspace(s, f, v) ==
    /\ alive[s] /\ ~OnCopy /\ Writable(s)
    /\ workspace[f] # v
    /\ Change(f, v, Servers \ {s})
    /\ changed' = [changed EXCEPT ![s] = @ \cup {f}]
    /\ UNCHANGED <<machine, leases, pc, call, alive, copying>>

\* The files _sync_stage_back finds.
Staged(s) == {f \in Files : stage[s][f] # Absent}

\* Mutant: copies back whoever may write.
EndRunSyncs(s) ==
    /\ Goto(s, "run", IF OnCopy THEN "sync" ELSE "done")
    /\ alive' = [alive EXCEPT ![s] = FALSE]
    /\ finished' = [finished EXCEPT ![s] = TRUE]
    /\ todo' = [todo EXCEPT ![s] = IF OnCopy THEN Staged(s) ELSE {}]
    /\ UNCHANGED <<machine, leases, workspace, call, stage, open, history>>

\* Mutant: the job goes on.
EndRunOfRoot(s) ==
    LET back == OnCopy /\ call[s].write
    IN  /\ Goto(s, "run", IF back THEN "sync" ELSE "done")
        /\ finished' = [finished EXCEPT ![s] = TRUE]
        /\ todo' = [todo EXCEPT ![s] = IF back THEN Staged(s) ELSE {}]
        /\ UNCHANGED <<machine, leases, workspace, call, alive, stage, open, history>>

\* The command has ended within its limits and its processes are gone. On
\* Windows the copy is copied back if the command had a writable one.
EndRun(s) ==
    LET back == OnCopy /\ call[s].write
    IN  /\ Goto(s, "run", IF back THEN "sync" ELSE "done")
        /\ alive' = [alive EXCEPT ![s] = FALSE]
        /\ finished' = [finished EXCEPT ![s] = TRUE]
        /\ todo' = [todo EXCEPT ![s] = IF back THEN Staged(s) ELSE {}]
        /\ UNCHANGED <<machine, leases, workspace, call, stage, open, history>>

\* Mutant: the copy is copied back in a finally clause.
RunFailsSyncing(s) ==
    /\ pc[s] \in {"stage", "run"}
    /\ pc' = [pc EXCEPT ![s] = IF call[s].write /\ OnCopy /\ pc[s] = "run"
                               THEN "sync" ELSE "failed"]
    /\ alive' = [alive EXCEPT ![s] = FALSE]
    /\ todo' = [todo EXCEPT ![s] = Staged(s)]
    /\ UNCHANGED <<machine, leases, workspace, stage, open, finished, call, history>>

\* The copy cannot be made (a file goes away, or a reparse point is in it), a
\* call of the system fails, the command takes too long or says too much: its
\* processes are ended and nothing is copied back.
RunFails(s) ==
    /\ pc[s] \in {"stage", "run"}
    /\ pc' = [pc EXCEPT ![s] = "failed"]
    /\ alive' = [alive EXCEPT ![s] = FALSE]
    /\ todo' = [todo EXCEPT ![s] = {}]
    /\ UNCHANGED <<machine, leases, workspace, stage, open, finished, call, history>>

-----------------------------------------------------------------------------
(* _sync_stage_back: copy2 of every file. It opens the target, which cuts  *)
(* it to nothing, and then writes.                                         *)

OpenTarget(s, f) ==
    /\ pc[s] = "sync" /\ open[s] = NoFile /\ f \in todo[s]
    /\ open' = [open EXCEPT ![s] = f]
    /\ Change(f, Torn, Servers \ {s})
    /\ changed' = [changed EXCEPT ![s] = @ \cup {f}]
    /\ UNCHANGED <<machine, leases, pc, call, alive, stage, todo, finished>>

FillTarget(s) ==
    /\ pc[s] = "sync" /\ open[s] # NoFile
    /\ Change(open[s], stage[s][open[s]], Servers \ {s})
    /\ todo' = [todo EXCEPT ![s] = @ \ {open[s]}]
    /\ open' = [open EXCEPT ![s] = NoFile]
    /\ UNCHANGED <<machine, leases, pc, call, alive, stage, finished, changed>>

\* copy2 or the scan for reparse points fails; what is copied stays.
SyncFails(s) ==
    /\ Goto(s, "sync", "failed")
    /\ todo' = [todo EXCEPT ![s] = {}]
    /\ open' = [open EXCEPT ![s] = NoFile]
    /\ UNCHANGED <<machine, leases, workspace, call, alive, stage, finished, history>>

Synced(s) ==
    /\ todo[s] = {}
    /\ Goto(s, "sync", "done")
    /\ UNCHANGED <<machine, leases, workspace, copying, call, alive, history>>

\* A server without a call. Each call has a directory of its own for the copy.
Forget(s) ==
    /\ pc' = [pc EXCEPT ![s] = "idle"] /\ call' = [call EXCEPT ![s] = NoCall]
    /\ stage' = [stage EXCEPT ![s] = EmptyStage]
    /\ todo' = [todo EXCEPT ![s] = {}] /\ open' = [open EXCEPT ![s] = NoFile]
    /\ finished' = [finished EXCEPT ![s] = FALSE]
    /\ changed' = [changed EXCEPT ![s] = {}] /\ touched' = [touched EXCEPT ![s] = {}]

\* The answer.
Return(s) ==
    /\ pc[s] \in {"done", "failed"}
    /\ Forget(s)
    /\ UNCHANGED <<machine, leases, workspace, alive>>

-----------------------------------------------------------------------------
(* The surroundings.                                                       *)

\* bubblewrap and a job object take the command with them when the server is
\* killed. Under Seatbelt and without a sandbox it goes on.
OutlivesServer(s) == alive[s] /\ backend \in {"sandbox-exec", "policy-only"}

\* The server is killed, and the client starts one that knows nothing of the
\* call...
Kill(s) ==
    /\ pc[s] # "idle" /\ ~OutlivesServer(s)
    /\ alive' = [alive EXCEPT ![s] = FALSE]
    /\ Forget(s)
    /\ UNCHANGED <<machine, leases, workspace>>

\* ... or leaves its command behind.
KillServerAlone(s) ==
    /\ OutlivesServer(s)
    /\ Goto(s, "run", "dead")
    /\ UNCHANGED <<machine, leases, workspace, copying, call, alive, history>>

\* A lease reaches its end; a policy is read once, so none begins again.
LeaseExpires(l) ==
    /\ l \in leases
    /\ leases' = leases \ {l}
    /\ UNCHANGED <<machine, workspace, copying, pc, call, alive, history>>

UserChanges(f, v) ==
    /\ workspace[f] # v
    /\ Change(f, v, Servers)
    /\ UNCHANGED <<machine, leases, copying, pc, call, alive, changed>>

-----------------------------------------------------------------------------
CallStep(s) ==
    \/ \E c \in Commands : CallCommand(s, c)
    \/ CallGit(s) \/ Approve(s) \/ Refuse(s) \/ Plan(s) \/ PlanFails(s)
    \/ \E f \in Files : CopyIn(s, f) \/ OpenTarget(s, f)
    \/ Launch(s) \/ EndRun(s) \/ RunFails(s)
    \/ FillTarget(s) \/ SyncFails(s) \/ Synced(s) \/ Return(s)

CommandStep(s) ==
    \E f \in Files, v \in Contents \cup {Absent} :
        CommandChangesStage(s, f, v) \/ CommandChangesWorkspace(s, f, v)

Next ==
    \/ \E s \in Servers : CallStep(s) \/ CommandStep(s) \/ Kill(s) \/ KillServerAlone(s)
    \/ \E l \in Leases : LeaseExpires(l)
    \/ \E f \in Files, v \in Contents \cup {Absent} : UserChanges(f, v)

Spec == Init /\ [][Next]_vars

-----------------------------------------------------------------------------
(* Properties.                                                             *)

\* What docs/PLATFORM_HARDENING.md:10 demands of a sandbox: the workspace is read-only
\* when no write lease is live, for a git tool always. The call may go on when the
\* lease ends (server.py:348 looks once). Seatbelt does not keep it for a workspace
\* below /private/tmp.
ReadOnlyWithoutLease ==
    \A s \in Servers :
        changed[s] # {} /\ backend # "policy-only" => "write" \in call[s].leased

\* So it is with any other workspace, and under any other sandbox: a call changes the
\* workspace only if the write lease was live when its approval came. It does not
\* through the copy either, in which a command without the lease cannot have changed
\* anything, but which may be older than the workspace.
OnlyLeasedWrites ==
    ~ OpenToAll => ReadOnlyWithoutLease

\* A sandbox is opened to the network only for a command whose risk says so,
\* under a lease that was live when the approval came, and, if the policy asks
\* for approval of network commands, with an approval of that risk.
NetworkIsApproved ==
    \A s \in Servers : call[s].network =>
        /\ "network" \in call[s].leased
        /\ call[s].risk >= Network
        /\ approvalFrom <= Network => call[s].paid >= Network

\* On Windows, when a command with a writable copy is answered with a result,
\* the workspace has every file as the command left it in the copy, whatever
\* its processes did until they were ended. Excepted are files that others
\* have changed since they were copied, and files the command removed.
ResultIsSynced ==
    \A s \in Servers :
        pc[s] = "done" /\ OnCopy /\ call[s].write =>
            \A f \in Staged(s) \ touched[s] : workspace[f] = stage[s][f]

\* On Windows, the workspace changes only when the command has ended within
\* its limits, and only in files that are in its copy: a command that is stopped
\* leaves it alone, and what the user or another server has created during the
\* run stays.
OnlyFinishedCopiesAreSynced ==
    OnCopy => \A s \in Servers : \A f \in changed[s] : finished[s] /\ stage[s][f] # Absent

=============================================================================
