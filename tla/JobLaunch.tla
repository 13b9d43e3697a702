----------------------------- MODULE JobLaunch -----------------------------
(***************************************************************************)
(* How a command gets into a Windows AppContainer and out of it            *)
(* (windows_classic.py, windows_job.py): a profile with access to the      *)
(* private copy, a suspended process, a job object that takes the process  *)
(* in, and only then the resumption; and on every way out what was made is *)
(* undone. The server may be killed at any step. What the command does     *)
(* meanwhile is in ProcessControl.                                         *)
(*                                                                         *)
(* Windows lets go of the handles of a server that dies, and closes a job, *)
(* which ends the processes in it, when its last handle goes. The calls    *)
(* that undo something are taken to succeed: their results are not looked  *)
(* at. Names of profiles are random and do not repeat.                     *)
(***************************************************************************)
Things == {"profile", "sid", "capabilities", "attributes", "handles", "job"}

VARIABLES
    step,           \* the step that is next
    owned,          \* what the call has to give back
    child,          \* the process of the command
    inJob           \* it has been taken into the job

launchVars == <<step, owned, child, inJob>>

Making == {"profile", "grant", "capabilities", "attributes", "process"}
Running == {"job", "assign", "resume", "wait"}
Undoing == {"close job", "close handles", "free"}

LaunchTypeOK ==
    /\ step \in {"idle", "over", "dead"} \cup Making \cup Running \cup Undoing
    /\ owned \subseteq Things
    /\ child \in {"none", "suspended", "runs", "gone"}
    /\ inJob \in BOOLEAN

LaunchInit == step = "idle" /\ owned = {} /\ child = "none" /\ inJob = FALSE

Moves(from, to) == step = from /\ step' = to

-----------------------------------------------------------------------------
\* The copy is ready.
BeginLaunch ==
    /\ step \in {"idle", "over", "dead"}
    /\ step' = "profile"
    /\ owned' = {} /\ child' = "none" /\ inJob' = FALSE

\* _create_profile
CreateProfile ==
    /\ Moves("profile", "grant")
    /\ owned' = owned \cup {"profile", "sid"}
    /\ UNCHANGED <<child, inJob>>

\* _grant_appcontainer_paths: access of the profile to the copy, which goes with it.
Grant ==
    /\ Moves("grant", "capabilities")
    /\ UNCHANGED <<owned, child, inJob>>

\* _capabilities: none without the network.
Capabilities ==
    /\ Moves("capabilities", "attributes")
    /\ owned' \in {owned, owned \cup {"capabilities"}}
    /\ UNCHANGED <<child, inJob>>

Attributes ==
    /\ Moves("attributes", "process")
    /\ owned' = owned \cup {"attributes"}
    /\ UNCHANGED <<child, inJob>>

\* Mutant: the process is not suspended.
CreateProcessRunning ==
    /\ Moves("process", "job")
    /\ owned' = owned \cup {"handles"}
    /\ child' = "runs"
    /\ UNCHANGED inJob

\* CreateProcessW with _CREATE_SUSPENDED
CreateProcess ==
    /\ Moves("process", "job")
    /\ owned' = owned \cup {"handles"}
    /\ child' = "suspended"
    /\ UNCHANGED inJob

\* WindowsJobObject.create: a job whose processes end when it is closed.
CreateJob ==
    /\ Moves("job", "assign")
    /\ owned' = owned \cup {"job"}
    /\ UNCHANGED <<child, inJob>>

Assign ==
    /\ Moves("assign", "resume")
    /\ inJob' = TRUE
    /\ UNCHANGED <<owned, child>>

Resume ==
    /\ Moves("resume", "wait")
    /\ child' = "runs"
    /\ UNCHANGED <<owned, inJob>>

\* The command ends.
Exit ==
    /\ child = "runs"
    /\ child' = "gone"
    /\ UNCHANGED <<step, owned, inJob>>

\* The wait is over: the command has ended, or the job is terminated, at the
\* timeout or the limit of the output or an error of the wait.
EndWait ==
    /\ Moves("wait", "close job")
    /\ child' = "gone"
    /\ UNCHANGED <<owned, inJob>>

-----------------------------------------------------------------------------
\* A step before there is a process fails. The first one has made nothing.
MakingFails ==
    /\ step \in Making
    /\ step' = "free"
    /\ UNCHANGED <<owned, child, inJob>>

\* WindowsJobError: the job cannot be made, does not take the process in, or is
\* found not to hold it; or it cannot be terminated. TerminateProcess.
JobFails ==
    /\ step \in {"job", "assign", "wait"}
    /\ step' = "close job"
    /\ child' = "gone"
    /\ \/ UNCHANGED inJob
       \/ step = "assign" /\ inJob' = TRUE
    /\ UNCHANGED owned

\* The thread cannot be resumed, or the wait ends in an error nobody expects, as of
\* the stat of the output file: no WindowsJobError, and nobody ends the process yet.
RunFails ==
    /\ step \in {"resume", "wait"}
    /\ step' = "close job"
    /\ UNCHANGED <<owned, child, inJob>>

\* Mutant: the job is left to the end of the server.
CloseJobNot ==
    /\ Moves("close job", "close handles")
    /\ UNCHANGED <<owned, child, inJob>>

\* job.close, if there is a job
CloseJob ==
    /\ Moves("close job", "close handles")
    /\ owned' = owned \ {"job"}
    /\ child' = IF inJob THEN "gone" ELSE child
    /\ UNCHANGED inJob

CloseHandles ==
    /\ Moves("close handles", "free")
    /\ owned' = owned \ {"handles"}
    /\ UNCHANGED <<child, inJob>>

\* The outer finally: each thing if it is there.
Free ==
    /\ Moves("free", "over")
    /\ owned' = owned \ {"attributes", "capabilities", "sid", "profile"}
    /\ UNCHANGED <<child, inJob>>

\* The server is killed: Windows closes its handles and its job. A profile stays.
Die ==
    /\ step \notin {"idle", "over", "dead"}
    /\ step' = "dead"
    /\ owned' = owned \cap {"profile"}
    /\ child' = IF inJob THEN "gone" ELSE child
    /\ UNCHANGED inJob

LaunchNext ==
    \/ BeginLaunch \/ CreateProfile \/ Grant \/ Capabilities \/ Attributes \/ CreateProcess
    \/ CreateJob \/ Assign \/ Resume \/ Exit \/ EndWait
    \/ MakingFails \/ JobFails \/ RunFails
    \/ CloseJob \/ CloseHandles \/ Free \/ Die

LaunchSpec == LaunchInit /\ [][LaunchNext]_launchVars

-----------------------------------------------------------------------------
\* Whatever step fails and whenever the server is killed: a command that runs is
\* in a job that the server holds, so none outlives its call or the server, and a
\* call that ends has given back all it made. (A server that is killed just after
\* CreateProcessW leaves a process that never runs, and a profile.)
LaunchIsUndone ==
    /\ child = "runs" => inJob /\ "job" \in owned
    /\ step = "over" => owned = {} /\ child \in {"none", "gone"}
    /\ step = "dead" => owned \subseteq {"profile"} /\ child # "runs"
=============================================================================
