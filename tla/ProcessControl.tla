--------------------------- MODULE ProcessControl ---------------------------
(***************************************************************************)
(* How a command is run and brought to an end: run_bounded_process         *)
(* (src/gpthands/process_control.py) and execute_tunnel_step (tunnel.py)   *)
(* on POSIX, and _wait_in_job (windows_classic.py) on Windows.             *)
(*                                                                         *)
(* On POSIX there are the command, the processes it starts, the pipe they  *)
(* all write to, a thread that reads it, and the main thread, which waits  *)
(* for the command, kills its process group, joins the reader and, if need *)
(* be, closes the pipe.                                                    *)
(*                                                                         *)
(* The two are alike but for this: the tunnel kills the group only when    *)
(* its client took too long or the user interrupted it, and does not close *)
(* the pipe then; and "tunnel-client run" has no timeout.                  *)
(*                                                                         *)
(* read(n) of a BufferedReader returns when it has n bytes or at the end   *)
(* of the file, that is when nobody holds the other end; close() waits for *)
(* a read() of another thread. A process may leave the group (setsid); in  *)
(* bubblewrap it dies with the group all the same: CanEscape is FALSE.     *)
(*                                                                         *)
(* On Windows the command is created suspended and put in a job, which no  *)
(* process leaves; they write to a file, whose size the main thread polls, *)
(* and when the job is closed all of them are killed.                      *)
(***************************************************************************)
EXTENDS Naturals, FiniteSetsExt

CONSTANTS
    Uses,               \* who runs what: run_command on POSIX or on Windows,
                        \* a tunnel step, or the tunnel
    Root, Kids,         \* the command, and the processes it may start
    CanEscape,          \* a process that left the group survives its end
    MaxOutput,          \* max_output_bytes
    ChunkSize,          \* how much one read() asks for
    PipeSize,           \* what the pipe can hold
    MaxWritten          \* bound on the bytes written

ASSUME ProcessAssumption ==
    /\ Uses \subseteq {"command", "windows", "tunnel_step", "tunnel_run"}
    /\ Root \notin Kids
    /\ CanEscape \in BOOLEAN
    /\ {MaxOutput, ChunkSize, PipeSize} \subseteq Nat \ {0}
    /\ MaxWritten \in Nat

Tree == {Root} \cup Kids

VARIABLES
    use,                    \* one of Uses, from the beginning to the end
    proc,                   \* the state of each process
    strays,                 \* the processes that left the group
    holds,                  \* the processes that have the pipe open
    pipe,                   \* bytes in the pipe; on Windows there is none
    written,                \* history: bytes ever written
    reader, chunk,          \* the reader, and what its read() has so far
    captured, truncated,    \* what it keeps of it
    main, cutOff, closed    \* the main thread; the command was timed out or interrupted

treeVars == <<proc, strays, holds>>
readVars == <<reader, chunk, captured, truncated>>
mainVars == <<main, cutOff, closed>>
processVars == <<use, treeVars, pipe, written, readVars, mainVars>>

Finished == main \in {"returned", "raised"}
ReaderAlive == reader \in {"reading", "got"}

ProcessTypeOK ==
    /\ use \in Uses
    /\ proc \in [Tree -> {"none", "suspended", "running", "doomed", "dead"}]
    /\ strays \subseteq Kids
    /\ holds \subseteq {x \in Tree : proc[x] \in {"suspended", "running", "doomed"}}
    /\ pipe \in 0..PipeSize /\ written \in 0..MaxWritten
    /\ reader \in {"reading", "got", "eof", "error", "none"}
    /\ chunk \in 0..ChunkSize /\ captured \in 0..MaxOutput
    /\ {truncated, cutOff, closed} \subseteq BOOLEAN
    /\ main \in {"wait", "kill", "reap", "killAgain", "join", "close", "rejoin", "end",
                 "contain", "size", "endJob", "read", "returned", "raised"}

\* Popen in a session of its own, and the reader's start; or CreateProcessW.
ProcessInit ==
    /\ use \in Uses
    /\ proc = [x \in Tree |-> IF x # Root THEN "none"
                              ELSE IF use = "windows" THEN "suspended" ELSE "running"]
    /\ strays = {} /\ holds = {Root}
    /\ pipe = 0 /\ written = 0
    /\ reader = IF use = "windows" THEN "none" ELSE "reading"
    /\ chunk = 0 /\ captured = 0 /\ truncated = FALSE
    /\ main = IF use = "windows" THEN "contain" ELSE "wait"
    /\ cutOff = FALSE /\ closed = FALSE

-----------------------------------------------------------------------------
(* The processes of the command. What they do does not concern the main    *)
(* thread until it looks.                                                  *)

Fork(x, k) ==
    /\ proc[x] = "running" /\ proc[k] = "none"
    /\ proc' = [proc EXCEPT ![k] = "running"]
    /\ strays' = IF x \in strays THEN strays \cup {k} ELSE strays
    /\ holds' = IF x \in holds THEN holds \cup {k} ELSE holds
    /\ UNCHANGED <<use, pipe, written, readVars, mainVars>>

Escape(k) ==
    /\ CanEscape /\ use # "windows"
    /\ proc[k] = "running" /\ k \notin strays
    /\ strays' = strays \cup {k}
    /\ UNCHANGED <<use, proc, holds, pipe, written, readVars, mainVars>>

\* A write blocks while the pipe is full, and kills when nobody reads.
Write(x) ==
    /\ proc[x] = "running" /\ x \in holds /\ ~ closed
    /\ pipe < PipeSize /\ written < MaxWritten
    /\ pipe' = IF use = "windows" THEN pipe ELSE pipe + 1
    /\ written' = written + 1
    /\ UNCHANGED <<use, treeVars, readVars, mainVars>>

LetGo(x) ==
    /\ proc[x] = "running"
    /\ holds' = holds \ {x}
    /\ holds # holds'
    /\ UNCHANGED <<use, proc, strays, pipe, written, readVars, mainVars>>

End(x, from) ==
    /\ proc[x] = from
    /\ proc' = [proc EXCEPT ![x] = "dead"]
    /\ holds' = holds \ {x}
    /\ UNCHANGED <<use, strays, pipe, written, readVars, mainVars>>

Exit(x) == End(x, "running")

\* SIGKILL takes effect.
DieKilled(x) == End(x, "doomed")

-----------------------------------------------------------------------------
(* drain_stdout.                                                           *)

EndOfFile == pipe = 0 /\ holds = {}

Pull ==
    /\ reader = "reading" /\ ~ closed
    /\ pipe > 0 /\ chunk < ChunkSize
    /\ LET n == Min({pipe, ChunkSize - chunk})
       IN  pipe' = pipe - n /\ chunk' = chunk + n
    /\ UNCHANGED <<use, treeVars, written, reader, captured, truncated, mainVars>>

ReadReturns ==
    /\ reader = "reading" /\ ~ closed
    /\ chunk = ChunkSize \/ EndOfFile
    /\ reader' = IF chunk = 0 THEN "eof" ELSE "got"
    /\ UNCHANGED <<use, treeVars, pipe, written, chunk, captured, truncated, mainVars>>

\* Mutant: output that just fits is called truncated.
KeepOffByOne ==
    LET remaining == MaxOutput - captured
    IN  /\ reader = "got"
        /\ captured' = captured + Min({chunk, remaining})
        /\ truncated' = (truncated \/ chunk >= remaining)
        /\ chunk' = 0
        /\ reader' = "reading"
        /\ UNCHANGED <<use, treeVars, pipe, written, mainVars>>

Keep ==
    LET remaining == MaxOutput - captured
    IN  /\ reader = "got"
        /\ captured' = captured + Min({chunk, remaining})
        /\ truncated' = (truncated \/ chunk > remaining)
        /\ chunk' = 0
        /\ reader' = "reading"
        /\ UNCHANGED <<use, treeVars, pipe, written, mainVars>>

\* read() of a closed file raises ValueError.
ReadFails ==
    /\ reader = "reading" /\ closed
    /\ reader' = "error"
    /\ UNCHANGED <<use, treeVars, pipe, written, chunk, captured, truncated, mainVars>>

ReaderStep == Pull \/ ReadReturns \/ Keep \/ ReadFails

-----------------------------------------------------------------------------
(* The main thread.                                                        *)

Proceed(from, to) == main = from /\ main' = to

\* run_command kills what the command has left running, the tunnel does not.
AfterExit == CASE use = "command" -> "kill" [] use = "windows" -> "size" [] OTHER -> "join"

\* "tunnel-client run" goes on until it ends or is interrupted.
MayTimeOut == use # "tunnel_run"

\* The tunnel leaves the pipe alone when it has killed the client.
Closes == use = "command" \/ ~ cutOff

WaitReturns ==
    /\ Proceed("wait", AfterExit)
    /\ proc[Root] = "dead"
    /\ UNCHANGED <<use, treeVars, pipe, written, readVars, cutOff, closed>>

\* On Windows the deadline is looked at before the command is.
WaitTimesOut ==
    /\ Proceed("wait", IF use = "windows" THEN "endJob" ELSE "kill")
    /\ MayTimeOut /\ (proc[Root] # "dead" \/ use = "windows")
    /\ cutOff' = TRUE
    /\ UNCHANGED <<use, treeVars, pipe, written, readVars, closed>>

\* The user's Ctrl-C.
Interrupt ==
    /\ Proceed("wait", "kill")
    /\ use \in {"tunnel_step", "tunnel_run"}
    /\ cutOff' = TRUE
    /\ UNCHANGED <<use, treeVars, pipe, written, readVars, closed>>

\* Mutant: only a command that timed out has its group killed.
KillOnTimeout(from) ==
    /\ Proceed(from, IF cutOff /\ from = "kill" THEN "reap" ELSE "join")
    /\ proc' = IF cutOff
               THEN [x \in Tree |-> IF proc[x] = "running" /\ x \notin strays
                                    THEN "doomed" ELSE proc[x]]
               ELSE proc
    /\ UNCHANGED <<use, strays, holds, pipe, written, readVars, cutOff, closed>>

\* Mutant: the kill reaches the command alone, as process.kill() does.
KillRoot(from) ==
    /\ Proceed(from, IF cutOff /\ from = "kill" THEN "reap" ELSE "join")
    /\ proc' = IF proc[Root] = "running" THEN [proc EXCEPT ![Root] = "doomed"] ELSE proc
    /\ UNCHANGED <<use, strays, holds, pipe, written, readVars, cutOff, closed>>

\* _kill_process_tree: killpg, which misses those that left the group.
Kill(from) ==
    /\ Proceed(from, IF cutOff /\ from = "kill" THEN "reap" ELSE "join")
    /\ proc' = [x \in Tree |-> IF proc[x] = "running" /\ x \notin strays
                               THEN "doomed" ELSE proc[x]]
    /\ UNCHANGED <<use, strays, holds, pipe, written, readVars, cutOff, closed>>

\* The second wait(), of five seconds.
Reap ==
    /\ Proceed("reap", IF proc[Root] = "dead" THEN "join" ELSE "killAgain")
    /\ UNCHANGED <<use, treeVars, pipe, written, readVars, cutOff, closed>>

\* reader.join returns, because the reader has ended or not.
Join ==
    /\ Proceed("join", IF ReaderAlive /\ Closes THEN "close" ELSE "end")
    /\ UNCHANGED <<use, treeVars, pipe, written, readVars, cutOff, closed>>

\* process.stdout.close(), which waits for a read() to return.
ClosePipe ==
    /\ Proceed("close", "rejoin")
    /\ reader # "reading"
    /\ closed' = TRUE
    /\ UNCHANGED <<use, treeVars, pipe, written, readVars, cutOff>>

Rejoin ==
    /\ Proceed("rejoin", "end")
    /\ UNCHANGED <<use, treeVars, pipe, written, readVars, cutOff, closed>>

Return ==
    /\ Proceed("end", IF cutOff \/ reader # "eof" THEN "raised" ELSE "returned")
    /\ UNCHANGED <<use, treeVars, pipe, written, readVars, cutOff, closed>>

-----------------------------------------------------------------------------
(* The main thread on Windows: _wait_in_job, and the output it leaves.     *)

\* Terminating a job, or closing its last handle.
EndedJob == [x \in Tree |-> IF proc[x] \in {"suspended", "running"} THEN "doomed" ELSE proc[x]]

\* The suspended command is put in the job, and resumed once it is there.
Contain ==
    /\ Proceed("contain", "wait")
    /\ proc' = [proc EXCEPT ![Root] = "running"]
    /\ UNCHANGED <<use, strays, holds, pipe, written, readVars, cutOff, closed>>

\* Creating the job, joining it or resuming fails. The command has not run.
ContainFails ==
    /\ Proceed("contain", "raised")
    /\ proc' = EndedJob
    /\ UNCHANGED <<use, strays, holds, pipe, written, readVars, cutOff, closed>>

\* The poll finds too much output, also when the command has just ended.
OverLimit ==
    /\ use = "windows"
    /\ Proceed("wait", "endJob") \/ Proceed("size", "endJob")
    /\ written > MaxOutput
    /\ cutOff' = TRUE
    /\ UNCHANGED <<use, treeVars, pipe, written, readVars, closed>>

WithinLimit ==
    /\ Proceed("size", "endJob")
    /\ written <= MaxOutput
    /\ UNCHANGED <<use, treeVars, pipe, written, readVars, cutOff, closed>>

\* job.terminate, and job.close whatever the outcome.
EndJob ==
    /\ Proceed("endJob", IF cutOff THEN "raised" ELSE "read")
    /\ proc' = EndedJob
    /\ UNCHANGED <<use, strays, holds, pipe, written, readVars, cutOff, closed>>

\* _read_output, of what was written since the size was looked at, too.
ReadOutput ==
    /\ Proceed("read", "returned")
    /\ captured' = Min({written, MaxOutput})
    /\ truncated' = (written > MaxOutput)
    /\ UNCHANGED <<use, treeVars, pipe, written, reader, chunk, cutOff, closed>>

MainStep ==
    \/ WaitReturns \/ WaitTimesOut \/ Kill("kill") \/ Reap \/ Kill("killAgain")
    \/ Join \/ ClosePipe \/ Rejoin \/ Return
    \/ Contain \/ ContainFails \/ OverLimit \/ WithinLimit \/ EndJob \/ ReadOutput

ProcessNext ==
    \/ \E x \in Tree :
          Write(x) \/ LetGo(x) \/ Exit(x) \/ DieKilled(x) \/ \E k \in Kids : Fork(x, k)
    \/ \E k \in Kids : Escape(k)
    \/ ReaderStep \/ MainStep \/ Interrupt

ProcessSpec == ProcessInit /\ [][ProcessNext]_processVars

\* Each thread goes on when it can, waits with a timeout end by it, and who was
\* killed dies. The processes of the command may do nothing for ever.
ProcessFairness ==
    /\ WF_processVars(MainStep) /\ WF_processVars(ReaderStep)
    /\ \A x \in Tree : WF_processVars(DieKilled(x))

ProcessFairSpec == ProcessSpec /\ ProcessFairness

-----------------------------------------------------------------------------
\* When the call is over, nobody who is still in the group, or in the job, is left
\* running: also not who was started while the command was ending. The tunnel sees
\* to it only when it has ended the client itself.
GroupIsGone ==
    Finished /\ (use \in {"command", "windows"} \/ cutOff) =>
        \A x \in Tree \ strays : proc[x] \notin {"suspended", "running"}

\* What the docstring of run_bounded_process says (process_control.py:50), and the
\* comment at the kill (line 120): no process that the command started outlives the
\* action. So it is where CanEscape is FALSE; elsewhere killpg does not reach one
\* that has left the group.
NothingOutlives ==
    Finished /\ use = "command" => \A x \in Tree : proc[x] # "running"

\* A result holds the output of the whole command, cut at the limit and marked
\* exactly when something was cut. On Windows what is written between the last
\* look at the size and the end of the job is a part of it. Until then, as long as
\* somebody can write, somebody reads: no process of the command is blocked by a
\* pipe that is full, whatever the limit on the output.
OutputIsExact ==
    /\ main = "returned" =>
          /\ captured = Min({written, MaxOutput})
          /\ truncated <=> written > MaxOutput
    /\ use # "windows" /\ holds # {} /\ ~ closed => ReaderAlive

\* A process that the call does not kill keeps the pipe open: one outside the
\* group, or, with the tunnel, any that outlives the client. close() then waits
\* for the read() it should end.
PipeIsKept == CASE use = "command" -> holds \cap strays # {}
                [] use = "windows" -> FALSE
                [] OTHER           -> holds # {} /\ ~ cutOff

\* The call ends, by its timeout at the latest, unless the pipe is kept; the
\* tunnel itself ends when its client or its user ends it.
CallEnds ==
    /\ <>[](~ PipeIsKept)
    /\ <>(use = "tunnel_run" => proc[Root] = "dead" \/ cutOff)
    => <>Finished
=============================================================================
