-------------------------- MODULE PendingApprovals --------------------------
(***************************************************************************)
(* PendingApprovalStore (src/gpthands/pending_approvals.py): the requests  *)
(* for approval that wait for the local user, kept in one JSON file that   *)
(* every operation reads, changes and rewrites whole under a file lock.    *)
(* MCP servers open the store anew for each operation; the control UI has  *)
(* one store object, and so one lock handle, for all its handler threads.  *)
(***************************************************************************)
EXTENDS Integers

CONSTANTS
    Threads,        \* server processes and handler threads of the control UI
    Handles,        \* store objects, each with a FileLock of its own
    HandleOf,
    NoHandle,
    Workspaces, Hashes, Risks,
    MaxAge,         \* max_age_seconds of a request
    MaxTime,        \* bound on the clock
    None            \* "no value" in a thread's local variables

ASSUME PendingAssumption ==
    /\ HandleOf \in [Threads -> Handles] /\ NoHandle \notin Handles
    /\ MaxAge \in Nat /\ MaxTime \in Nat

VARIABLES
    now,                    \* int(time.time())
    queue,                  \* pending-approvals.json
    op,                     \* the operation a thread is in, or None
    qpc,                    \* and how far it is
    copy,                   \* what it read
    rows,                   \* what a list operation returns
    holder, held, lpc       \* the lock of the store: see FileLock

Lock == INSTANCE FileLock
Queue == INSTANCE PendingQueue

lockVars == <<holder, held, lpc>>
storeVars == <<now, queue, op, qpc, copy, rows, lockVars>>

QPcs == {"idle", "load", "store", "done", "failed"}

Adding(w, h, k) == [kind |-> "add", ws |-> w, hash |-> h, risk |-> k]
Removing(w, h) == [kind |-> "remove", ws |-> w, hash |-> h]
\* The cutoff of a list operation is computed before it waits for the lock.
Listing(w) == [kind |-> "list", ws |-> w, cutoff |-> now - MaxAge]

QueueTypeOK ==
    /\ now \in 0..MaxTime
    /\ queue \subseteq Queue!Rows
    /\ \A t \in Threads :
          /\ qpc[t] \in QPcs
          /\ op[t] = None <=> qpc[t] = "idle"
          /\ copy[t] # None => copy[t] \subseteq Queue!Rows
          /\ rows[t] \subseteq Queue!Rows
    /\ Lock!TypeOK

QueueInit ==
    /\ Queue!Init
    /\ op = [t \in Threads |-> None]
    /\ qpc = [t \in Threads |-> "idle"]
    /\ copy = [t \in Threads |-> None]
    /\ rows = [t \in Threads |-> {}]
    /\ Lock!Init

Begin(t, o) ==
    /\ qpc[t] = "idle"
    /\ qpc' = [qpc EXCEPT ![t] = "load"]
    /\ op' = [op EXCEPT ![t] = o]
    /\ Lock!Acquire(t)
    /\ UNCHANGED <<now, queue, copy, rows>>

TakeLock(t) ==
    /\ Lock!Flock(t) \/ Lock!MarkHeld(t)
    /\ UNCHANGED <<now, queue, op, qpc, copy, rows>>

\* LockError, which the store turns into PendingApprovalError.
LockTimeout(t) ==
    /\ Lock!GiveUp(t)
    /\ qpc' = [qpc EXCEPT ![t] = "failed"]
    /\ UNCHANGED <<now, queue, op, copy, rows>>

\* A step of the body of "with self._lock".
InLock(t, from, to) ==
    /\ qpc[t] = from
    /\ Lock!InBody(t)
    /\ qpc' = [qpc EXCEPT ![t] = to]
    /\ UNCHANGED <<now, op, lockVars>>

\* Mutant: the queue is read before the lock is taken.
LoadUnlocked(t) ==
    /\ qpc[t] = "load" /\ qpc' = [qpc EXCEPT ![t] = "store"]
    /\ copy' = [copy EXCEPT ![t] = queue]
    /\ UNCHANGED <<now, op, lockVars, queue, rows>>

Load(t) ==
    /\ InLock(t, "load", "store")
    /\ copy' = [copy EXCEPT ![t] = queue]
    /\ UNCHANGED <<queue, rows>>

\* secure_write_json replaces the file by the changed copy, in one rename.
StoreAdd(t) ==
    /\ op[t] # None /\ op[t].kind = "add"
    /\ InLock(t, "store", "done")
    /\ queue' = Queue!Put(copy[t], [ws |-> op[t].ws, hash |-> op[t].hash,
                                    risk |-> op[t].risk, seen |-> now])
    /\ copy' = [copy EXCEPT ![t] = None]
    /\ UNCHANGED rows

\* Mutant: the key of a request is its hash alone.
StoreRemoveAnywhere(t) ==
    /\ op[t] # None /\ op[t].kind = "remove"
    /\ InLock(t, "store", "done")
    /\ queue' = {r \in copy[t] : r.hash # op[t].hash}
    /\ copy' = [copy EXCEPT ![t] = None]
    /\ UNCHANGED rows

\* The file is rewritten only if the row was in the copy.
StoreRemove(t) ==
    /\ op[t] # None /\ op[t].kind = "remove"
    /\ InLock(t, "store", "done")
    /\ LET left == Queue!Without(copy[t], op[t].ws, op[t].hash)
       IN  queue' = IF left # copy[t] THEN left ELSE queue
    /\ copy' = [copy EXCEPT ![t] = None]
    /\ UNCHANGED rows

\* Mutant: the rows of every workspace are returned.
StoreListAll(t) ==
    /\ op[t] # None /\ op[t].kind = "list"
    /\ InLock(t, "store", "done")
    /\ rows' = [rows EXCEPT ![t] = copy[t]]
    /\ copy' = [copy EXCEPT ![t] = None]
    /\ UNCHANGED queue

\* The file is rewritten only if the copy held a request too old to keep.
StoreList(t) ==
    /\ op[t] # None /\ op[t].kind = "list"
    /\ InLock(t, "store", "done")
    /\ LET fresh == copy[t] \ Queue!Stale(copy[t], op[t].cutoff)
       IN  /\ queue' = IF fresh # copy[t] THEN fresh ELSE queue
           /\ rows' = [rows EXCEPT ![t] = {r \in fresh : r.ws = op[t].ws}]
    /\ copy' = [copy EXCEPT ![t] = None]

\* The file cannot be read, or its replacement cannot be written.
StoreFails(t) ==
    /\ InLock(t, "load", "failed") \/ InLock(t, "store", "failed")
    /\ copy' = [copy EXCEPT ![t] = None]
    /\ UNCHANGED <<queue, rows>>

\* __exit__ of the lock.
LeaveLock(t) ==
    /\ qpc[t] \in {"done", "failed"}
    /\ Lock!ReleaseStep(t)
    /\ UNCHANGED <<now, queue, op, qpc, copy, rows>>

\* The operation has ended, in a result or in PendingApprovalError.
Over(t, how) == qpc[t] = how /\ lpc[t] = "out"

\* Mutant: the operation is not forgotten.
ForgetAllButOp(ts) ==
    /\ qpc' = [t \in Threads |-> IF t \in ts THEN "idle" ELSE qpc[t]]
    /\ copy' = [t \in Threads |-> IF t \in ts THEN None ELSE copy[t]]
    /\ rows' = [t \in Threads |-> IF t \in ts THEN {} ELSE rows[t]]
    /\ UNCHANGED op

Forget(ts) ==
    /\ qpc' = [t \in Threads |-> IF t \in ts THEN "idle" ELSE qpc[t]]
    /\ op' = [t \in Threads |-> IF t \in ts THEN None ELSE op[t]]
    /\ copy' = [t \in Threads |-> IF t \in ts THEN None ELSE copy[t]]
    /\ rows' = [t \in Threads |-> IF t \in ts THEN {} ELSE rows[t]]

\* The process that owns a handle dies, wherever its threads are.
Crash(h) ==
    /\ Lock!Die(h)
    /\ Forget({t \in Threads : HandleOf[t] = h})
    /\ UNCHANGED <<now, queue>>

Tick ==
    /\ now < MaxTime
    /\ now' = now + 1
    /\ UNCHANGED <<queue, op, qpc, copy, rows, lockVars>>

StoreStep(t) ==
    \/ TakeLock(t) \/ LockTimeout(t)
    \/ Load(t) \/ StoreAdd(t) \/ StoreRemove(t) \/ StoreList(t) \/ StoreFails(t)
    \/ LeaveLock(t)

-----------------------------------------------------------------------------
\* With a handle per thread, the read, the change and the rewrite of each
\* operation are one atomic step on the present queue, whatever else runs and
\* whoever dies: no request is lost and none comes back. (PendingQueue)
QueueIsAtomic == Queue!Spec
=============================================================================
