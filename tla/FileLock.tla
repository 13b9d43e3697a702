------------------------------ MODULE FileLock ------------------------------
(***************************************************************************)
(* The advisory file lock of src/gpthands/locking.py, as POSIX runs it.    *)
(*                                                                         *)
(* flock(2) locks belong to an open file description, not to a thread: the *)
(* kernel grants the lock to a HANDLE (one FileLock object, one os.open),  *)
(* and a second flock on the handle that already owns it succeeds at once. *)
(* On top of it the Python object keeps a flag, _held, which acquire sets  *)
(* after flock returned and release reads before, and clears after, it     *)
(* unlocks. None of those pairs is atomic, so each is two steps here.      *)
(*                                                                         *)
(* A thread is "out", then "waiting" in the retry loop of acquire, then    *)
(* "locked" (flock succeeded, flag not yet set), then in the "body" of the *)
(* with statement, then "leaving" (release saw the flag), then "unlocked"  *)
(* (the kernel lock is gone, the flag still set), then "out" again.        *)
(***************************************************************************)
CONSTANTS
    Threads,    \* threads that use the lock
    Handles,    \* FileLock objects, each with its own file descriptor
    HandleOf,   \* the object each thread goes through
    NoHandle    \* the kernel's "nobody holds this lock"

ASSUME HandleAssumption ==
    /\ HandleOf \in [Threads -> Handles]
    /\ NoHandle \notin Handles

VARIABLES
    holder,     \* kernel: the handle that owns the flock, or NoHandle
    held,       \* Python: FileLock._held of each handle
    lpc         \* where each thread is with respect to the lock

lockVars == <<holder, held, lpc>>

LockPcs == {"out", "waiting", "locked", "body", "leaving", "unlocked"}

\* The states in which a thread relies on the kernel lock being its own.
Owning == {"locked", "body", "leaving"}

TypeOK ==
    /\ holder \in Handles \cup {NoHandle}
    /\ held \in [Handles -> BOOLEAN]
    /\ lpc \in [Threads -> LockPcs]

Init ==
    /\ holder = NoHandle
    /\ held = [h \in Handles |-> FALSE]
    /\ lpc = [t \in Threads |-> "out"]

Move(t, from, to) ==
    /\ lpc[t] = from
    /\ lpc' = [lpc EXCEPT ![t] = to]

\* __enter__ calls acquire, which starts its clock and its retry loop.
Acquire(t) ==
    /\ Move(t, "out", "waiting")
    /\ UNCHANGED <<holder, held>>

\* Mutant: a shared lock instead of an exclusive one.
FlockShared(t) ==
    /\ Move(t, "waiting", "locked")
    /\ holder' = HandleOf[t]
    /\ UNCHANGED held

\* fcntl.flock(fd, LOCK_EX | LOCK_NB) succeeds.
Flock(t) ==
    /\ Move(t, "waiting", "locked")
    /\ holder \in {NoHandle, HandleOf[t]}
    /\ holder' = HandleOf[t]
    /\ UNCHANGED held

\* self._held = True, and the body of the with statement begins.
MarkHeld(t) ==
    /\ Move(t, "locked", "body")
    /\ held' = [held EXCEPT ![HandleOf[t]] = TRUE]
    /\ UNCHANGED holder

\* Mutant: acquire retries for ever.
GiveUpNever(t) == Move(t, "waiting", "out") /\ FALSE /\ UNCHANGED <<holder, held>>

\* The flock failed and the deadline has passed: acquire raises LockError.
GiveUp(t) ==
    /\ Move(t, "waiting", "out")
    /\ holder \notin {NoHandle, HandleOf[t]}
    /\ UNCHANGED <<holder, held>>

\* __exit__ calls release, which goes on only when the flag is set ...
BeginRelease(t) ==
    /\ held[HandleOf[t]]
    /\ Move(t, "body", "leaving")
    /\ UNCHANGED <<holder, held>>

\* ... and returns at once when it is not.
SkipRelease(t) ==
    /\ ~ held[HandleOf[t]]
    /\ Move(t, "body", "out")
    /\ UNCHANGED <<holder, held>>

\* Mutant: the unlock is forgotten.
UnlockForgotten(t) == Move(t, "leaving", "unlocked") /\ UNCHANGED <<holder, held>>

\* fcntl.flock(fd, LOCK_UN): no effect on a lock another handle owns.
Unlock(t) ==
    /\ Move(t, "leaving", "unlocked")
    /\ holder' = IF holder = HandleOf[t] THEN NoHandle ELSE holder
    /\ UNCHANGED held

\* self._held = False.
ClearHeld(t) ==
    /\ Move(t, "unlocked", "out")
    /\ held' = [held EXCEPT ![HandleOf[t]] = FALSE]
    /\ UNCHANGED holder

\* The process that opened the handle dies; the kernel drops its lock. The
\* handle then stands for the one its successor opens (__init__: not held).
Die(h) ==
    /\ holder' = IF holder = h THEN NoHandle ELSE holder
    /\ held' = [held EXCEPT ![h] = FALSE]
    /\ lpc' = [t \in Threads |-> IF HandleOf[t] = h THEN "out" ELSE lpc[t]]

\* Every process dies at once, as in a power loss.
DieAll ==
    /\ holder' = NoHandle
    /\ held' = [h \in Handles |-> FALSE]
    /\ lpc' = [t \in Threads |-> "out"]

AcquireStep(t) == Flock(t) \/ MarkHeld(t) \/ GiveUp(t)

ReleaseStep(t) == BeginRelease(t) \/ SkipRelease(t) \/ Unlock(t) \/ ClearHeld(t)

Next ==
    \/ \E t \in Threads : Acquire(t) \/ AcquireStep(t) \/ ReleaseStep(t)
    \/ \E h \in Handles : Die(h)
    \/ DieAll

Spec == Init /\ [][Next]_lockVars

\* A thread inside acquire or release keeps running (the loop sleeps 10 ms),
\* and the bodies of the with statements in this program are finite.
Fairness == \A t \in Threads : WF_lockVars(AcquireStep(t) \/ ReleaseStep(t))

FairSpec == Spec /\ Fairness

-----------------------------------------------------------------------------
InBody(t) == lpc[t] = "body"

\* A thread that shares its handle with no other, as every MCP server process.
Alone(t) == \A s \in Threads : HandleOf[s] = HandleOf[t] => s = t

\* No two threads that have a handle each are in the body of "with lock"
\* together, whatever those that share one do beside them: what every store of
\* the program that reads, changes and rewrites a file relies on.
MutualExclusion ==
    \A s, t \in Threads : Alone(s) /\ Alone(t) /\ InBody(s) /\ InBody(t) => s = t

Users(h) == {t \in Threads : HandleOf[t] = h}

\* A kernel lock that nobody is going to unlock makes every other process wait
\* five seconds and raise LockError for as long as its owner lives. A thread with
\* a handle of its own never leaves one behind. Threads that share a handle may:
\* one clears _held when another has just got the lock, whose release is then
\* skipped. The flag is down in that case, so that whichever of them enters next
\* takes the lock as a free one, and can release it.
NoLeakedLock ==
    \A h \in Handles :
        holder = h /\ (\A t \in Users(h) : lpc[t] \notin Owning) =>
            ~ held[h] /\ \A t \in Users(h) : ~ Alone(t)

\* A thread with a handle of its own lets the lock go whenever it has got it:
\* no acquisition is for good.
LockIsFreed ==
    \A t \in Threads : Alone(t) /\ holder = HandleOf[t] ~> holder # HandleOf[t]
=============================================================================
