---------------------------- MODULE QueueProofs ----------------------------
(***************************************************************************)
(* What is proved of the queue of pending approvals and of the control UI. *)
(*                                                                         *)
(* The UI has one handle on the lock and one selected workspace for all    *)
(* its handler threads. The theorems are about a UI that handles one form  *)
(* at a time (OwnHandles, OneTab), beside any number of servers; with two  *)
(* threads in the UI they do not hold.                                     *)
(***************************************************************************)
EXTENDS ControlUI, TLAPS

OwnHandles == \A t \in Threads : Lock!Alone(t)
OneTab == \A t, u \in UIThreads : t = u

-----------------------------------------------------------------------------
(* The store.                                                              *)

Ops ==
    [kind : {"add"}, ws : Workspaces, hash : Hashes, risk : Risks]
    \cup [kind : {"remove"}, ws : Workspaces, hash : Hashes]
    \cup [kind : {"list"}, ws : Workspaces, cutoff : Int]

StoreTyped ==
    /\ now \in Nat /\ queue \subseteq Queue!Rows
    /\ qpc \in [Threads -> QPcs] /\ lpc \in [Threads -> Lock!LockPcs]
    /\ DOMAIN op = Threads /\ DOMAIN copy = Threads /\ DOMAIN rows = Threads
    /\ \A t \in Threads : rows[t] \subseteq Queue!Rows /\ (qpc[t] = "idle" => rows[t] = {})

\* A thread that relies on the lock has it.
OwnsLock == \A t \in Threads : lpc[t] \in Lock!Owning => holder = HandleOf[t]

\* What an operation is about to change is the present queue.
CopyIsPresent == \A t \in Threads : qpc[t] = "store" => lpc[t] = "body" /\ copy[t] = queue

\* A cutoff was computed from the clock, now or earlier.
OpsTyped ==
    \A t \in Threads : op[t] # None =>
        op[t] \in Ops /\ (op[t].kind = "list" => op[t].cutoff <= now - MaxAge)

StoreInv == StoreTyped /\ OwnsLock /\ CopyIsPresent /\ OpsTyped

\* No operation has begun.
LEMMA StoreInvInit == QueueInit => StoreInv
  BY DEF QueueInit, Queue!Init, Lock!Init, StoreInv, StoreTyped, OwnsLock, CopyIsPresent, OpsTyped,
         QPcs, Lock!LockPcs, Lock!Owning

\* A thread of two that are in the lock is the other one.
LEMMA InLockAlone ==
  ASSUME OwnHandles, StoreInv, NEW t \in Threads, NEW u \in Threads,
         lpc[t] = "body", lpc[u] = "body"
  PROVE  t = u
  BY PendingAssumption DEF OwnHandles, Lock!Alone, StoreInv, OwnsLock, Lock!Owning

\* An operation begins.
LEMMA BeginKeeps ==
  ASSUME StoreInv, NEW t \in Threads, NEW o \in Ops, o.kind = "list" => o.cutoff <= now - MaxAge,
         Begin(t, o)
  PROVE  StoreInv'
<1> USE DEF Begin, Lock!Acquire, Lock!Move
<1>1. StoreTyped'
  BY DEF StoreInv, StoreTyped, QPcs, Lock!LockPcs
<1>2. OwnsLock'
  BY DEF StoreInv, StoreTyped, OwnsLock, Lock!Owning
<1>3. CopyIsPresent'
  BY DEF StoreInv, StoreTyped, CopyIsPresent
<1>4. OpsTyped'
  BY DEF StoreInv, StoreTyped, OpsTyped
<1> QED BY <1>1, <1>2, <1>3, <1>4 DEF StoreInv

\* What the lock does, in the hands of a thread that does not share it.
LEMMA LockStepKeeps ==
  ASSUME OwnHandles, StoreInv, NEW t \in Threads,
         Lock!AcquireStep(t) \/ Lock!ReleaseStep(t)
  PROVE  OwnsLock' /\ lpc' \in [Threads -> Lock!LockPcs]
         /\ \A u \in Threads \ {t} : lpc'[u] = lpc[u]
<1> USE PendingAssumption
    DEF StoreInv, StoreTyped, OwnsLock, OwnHandles, Lock!Alone, Lock!Owning, Lock!LockPcs, Lock!Move
<1>1. CASE Lock!Flock(t)
  BY <1>1 DEF Lock!Flock
<1>2. CASE Lock!MarkHeld(t)
  BY <1>2 DEF Lock!MarkHeld
<1>3. CASE Lock!GiveUp(t)
  BY <1>3 DEF Lock!GiveUp
<1>4. CASE Lock!BeginRelease(t)
  BY <1>4 DEF Lock!BeginRelease
<1>5. CASE Lock!SkipRelease(t)
  BY <1>5 DEF Lock!SkipRelease
<1>6. CASE Lock!Unlock(t)
  BY <1>6 DEF Lock!Unlock
<1>7. CASE Lock!ClearHeld(t)
  BY <1>7 DEF Lock!ClearHeld
<1> QED BY <1>1, <1>2, <1>3, <1>4, <1>5, <1>6, <1>7 DEF Lock!AcquireStep, Lock!ReleaseStep

\* A change of the queue that is a step of the abstract one, by a thread in the lock.
LEMMA InLockKeeps ==
  ASSUME OwnHandles, StoreInv, NEW t \in Threads, NEW from \in QPcs, NEW to \in QPcs \ {"idle", "store"},
         InLock(t, from, to), copy' = [copy EXCEPT ![t] = None], queue' \subseteq Queue!Rows,
         DOMAIN rows' = Threads, rows'[t] \subseteq Queue!Rows,
         \A u \in Threads \ {t} : rows'[u] = rows[u]
  PROVE  StoreInv'
<1> USE DEF InLock, Lock!InBody, lockVars
<1>1. lpc[t] = "body" /\ qpc[t] = from /\ qpc' = [qpc EXCEPT ![t] = to]
      /\ UNCHANGED <<now, op, holder, lpc>>
  OBVIOUS
<1>2. StoreTyped'
  BY <1>1 DEF StoreInv, StoreTyped
<1>3. OwnsLock' /\ OpsTyped'
  BY <1>1 DEF StoreInv, OwnsLock, OpsTyped
<1>4. CopyIsPresent'
  <2> SUFFICES ASSUME NEW u \in Threads, qpc'[u] = "store"
               PROVE  lpc'[u] = "body" /\ copy'[u] = queue'
    BY DEF CopyIsPresent
  <2>1. u # t /\ qpc[u] = "store"
    BY <1>1 DEF StoreInv, StoreTyped
  <2>2. lpc[u] = "body" /\ copy[u] = queue
    BY <2>1 DEF StoreInv, CopyIsPresent
  <2>3. FALSE
    BY <1>1, <2>1, <2>2, InLockAlone
  <2> QED BY <2>3
<1> QED BY <1>2, <1>3, <1>4 DEF StoreInv

\* An operation is over, and forgotten, with the process or without it.
LEMMA ForgetKeeps ==
  ASSUME StoreTyped, CopyIsPresent, OpsTyped, NEW ts \in SUBSET Threads, Forget(ts),
         UNCHANGED <<now, queue>>, lpc' \in [Threads -> Lock!LockPcs],
         \A t \in Threads \ ts : lpc'[t] = lpc[t]
  PROVE  StoreTyped' /\ CopyIsPresent' /\ OpsTyped'
<1> USE DEF Forget
<1>1. StoreTyped'
  BY DEF StoreTyped, QPcs
<1>2. CopyIsPresent'
  BY DEF StoreTyped, CopyIsPresent
<1>3. OpsTyped'
  BY DEF StoreTyped, OpsTyped
<1> QED BY <1>1, <1>2, <1>3

-----------------------------------------------------------------------------
(* The steps of an operation.                                              *)

\* An addition is that of the abstract queue.
LEMMA AddStep ==
  ASSUME OwnHandles, StoreInv, NEW t \in Threads, StoreAdd(t)
  PROVE  /\ StoreInv' /\ Queue!Next
         /\ op[t] \in [kind : {"add"}, ws : Workspaces, hash : Hashes, risk : Risks]
         /\ queue' = Queue!Put(queue, [ws |-> op[t].ws, hash |-> op[t].hash,
                                       risk |-> op[t].risk, seen |-> now])
<1> DEFINE r == [ws |-> op[t].ws, hash |-> op[t].hash, risk |-> op[t].risk, seen |-> now]
<1>1. op[t] \in [kind : {"add"}, ws : Workspaces, hash : Hashes, risk : Risks]
  BY DEF StoreAdd, StoreInv, OpsTyped, Ops
<1>2. r \in Queue!Rows
  BY <1>1 DEF StoreInv, StoreTyped, Queue!Rows
<1>3. copy[t] = queue /\ queue' = Queue!Put(copy[t], r)
  BY DEF StoreAdd, InLock, StoreInv, CopyIsPresent
<1>4. queue' = Queue!Put(queue, r) /\ queue' \subseteq Queue!Rows
  BY <1>2, <1>3 DEF Queue!Put, Queue!Without, StoreInv, StoreTyped
<1>5. StoreInv'
  <2>1. rows' = rows /\ copy' = [copy EXCEPT ![t] = None] /\ InLock(t, "store", "done")
    BY DEF StoreAdd
  <2>2. DOMAIN rows' = Threads /\ rows'[t] \subseteq Queue!Rows /\ \A u \in Threads \ {t} : rows'[u] = rows[u]
    BY <2>1 DEF StoreInv, StoreTyped
  <2>3. "store" \in QPcs /\ "done" \in QPcs \ {"idle", "store"}
    BY DEF QPcs
  <2> QED BY <1>4, <2>1, <2>2, <2>3, InLockKeeps
<1>6. Queue!Add(r)
  BY <1>4 DEF Queue!Add, StoreAdd, InLock
<1>7. Queue!Next
  BY <1>1, <1>6 DEF Queue!Next
<1> QED BY <1>1, <1>4, <1>5, <1>7

\* A removal is that of the abstract queue.
LEMMA RemoveStep ==
  ASSUME OwnHandles, StoreInv, NEW t \in Threads, StoreRemove(t)
  PROVE  /\ StoreInv' /\ Queue!Next
         /\ op[t] \in [kind : {"remove"}, ws : Workspaces, hash : Hashes]
         /\ queue' = Queue!Without(queue, op[t].ws, op[t].hash)
<1>1. op[t] \in [kind : {"remove"}, ws : Workspaces, hash : Hashes]
  BY DEF StoreRemove, StoreInv, OpsTyped, Ops
<1>2. copy[t] = queue
  BY DEF StoreRemove, InLock, StoreInv, CopyIsPresent
<1>3. queue' = Queue!Without(queue, op[t].ws, op[t].hash)
  BY <1>2 DEF StoreRemove
<1>4. queue' \subseteq Queue!Rows
  BY <1>3 DEF Queue!Without, StoreInv, StoreTyped
<1>5. StoreInv'
  <2>1. rows' = rows /\ copy' = [copy EXCEPT ![t] = None] /\ InLock(t, "store", "done")
    BY DEF StoreRemove
  <2>2. DOMAIN rows' = Threads /\ rows'[t] \subseteq Queue!Rows /\ \A u \in Threads \ {t} : rows'[u] = rows[u]
    BY <2>1 DEF StoreInv, StoreTyped
  <2>3. "store" \in QPcs /\ "done" \in QPcs \ {"idle", "store"}
    BY DEF QPcs
  <2> QED BY <1>4, <2>1, <2>2, <2>3, InLockKeeps
<1>6. Queue!Remove(op[t].ws, op[t].hash)
  BY <1>3 DEF Queue!Remove, StoreRemove, InLock
<1>7. Queue!Next
  BY <1>1, <1>6 DEF Queue!Next
<1> QED BY <1>1, <1>3, <1>5, <1>7

\* A listing drops what was too old when it began, or nothing.
LEMMA ListStep ==
  ASSUME OwnHandles, StoreInv, NEW t \in Threads, StoreList(t)
  PROVE  /\ StoreInv' /\ (Queue!Next \/ UNCHANGED <<now, queue>>)
         /\ queue' = queue \ Queue!Stale(queue, op[t].cutoff)
         /\ op[t].cutoff \in Int /\ op[t].cutoff <= now - MaxAge
         /\ rows' = [rows EXCEPT ![t] = {r \in queue' : r.ws = op[t].ws}]
<1> DEFINE cut == op[t].cutoff
<1>1. op[t] \in [kind : {"list"}, ws : Workspaces, cutoff : Int] /\ cut \in Int /\ cut <= now - MaxAge
  BY DEF StoreList, StoreInv, OpsTyped, Ops
<1>2. copy[t] = queue
  BY DEF StoreList, InLock, StoreInv, CopyIsPresent
<1>3. queue' = queue \ Queue!Stale(queue, cut)
      /\ rows' = [rows EXCEPT ![t] = {r \in queue' : r.ws = op[t].ws}]
  BY <1>2 DEF StoreList
<1>4. queue' \subseteq Queue!Rows
  BY <1>3 DEF StoreInv, StoreTyped
<1>5. StoreInv'
  <2>1. DOMAIN rows' = Threads /\ rows'[t] \subseteq Queue!Rows /\ \A u \in Threads \ {t} : rows'[u] = rows[u]
    BY <1>3, <1>4 DEF StoreInv, StoreTyped
  <2>2. copy' = [copy EXCEPT ![t] = None] /\ InLock(t, "store", "done")
    BY DEF StoreList
  <2>3. "store" \in QPcs /\ "done" \in QPcs \ {"idle", "store"}
    BY DEF QPcs
  <2> QED BY <1>4, <2>1, <2>2, <2>3, InLockKeeps
<1>6. UNCHANGED now
  BY DEF StoreList, InLock
<1>7. now \in Nat /\ MaxAge \in Nat /\ \A r \in queue : r.seen \in Nat
  BY PendingAssumption DEF StoreInv, StoreTyped, Queue!Rows
<1> HIDE DEF cut
<1>8. CASE cut < 0
  <2>1. Queue!Stale(queue, cut) = {}
    BY <1>1, <1>7, <1>8 DEF Queue!Stale
  <2>2. UNCHANGED <<now, queue>>
    BY <1>3, <1>6, <2>1
  <2> QED BY <1>1, <1>3, <1>5, <2>2 DEF cut
<1>9. CASE cut >= 0
  <2>1. now - cut \in MaxAge .. now /\ now - (now - cut) = cut
    BY <1>1, <1>7, <1>9
  <2>2. Queue!Prune(now - (now - cut))
    BY <1>3, <1>6, <2>1 DEF Queue!Prune
  <2>3. Queue!Next
    BY <2>1, <2>2 DEF Queue!Next
  <2> QED BY <1>1, <1>3, <1>5, <2>3 DEF cut
<1> QED BY <1>1, <1>8, <1>9

\* The other steps leave the queue alone.
LEMMA QuietStep ==
  ASSUME OwnHandles, StoreInv, NEW t \in Threads,
         TakeLock(t) \/ LockTimeout(t) \/ Load(t) \/ StoreFails(t) \/ LeaveLock(t)
  PROVE  StoreInv' /\ UNCHANGED <<now, queue, op, rows>>
<1>1. CASE TakeLock(t)
  <2>1. Lock!AcquireStep(t) /\ UNCHANGED <<now, queue, op, qpc, copy, rows>> /\ lpc[t] \in {"waiting", "locked"}
    BY <1>1 DEF TakeLock, Lock!AcquireStep, Lock!Flock, Lock!MarkHeld, Lock!Move
  <2>2. OwnsLock' /\ lpc' \in [Threads -> Lock!LockPcs] /\ \A u \in Threads \ {t} : lpc'[u] = lpc[u]
    BY <2>1, LockStepKeeps
  <2>3. StoreTyped' /\ OpsTyped'
    BY <2>1, <2>2 DEF StoreInv, StoreTyped, OpsTyped
  <2>4. CopyIsPresent'
    BY <2>1, <2>2 DEF StoreInv, CopyIsPresent
  <2> QED BY <2>1, <2>2, <2>3, <2>4 DEF StoreInv
<1>2. CASE LockTimeout(t)
  <2>1. Lock!AcquireStep(t) /\ UNCHANGED <<now, queue, op, copy, rows>> /\ lpc[t] = "waiting"
        /\ qpc' = [qpc EXCEPT ![t] = "failed"]
    BY <1>2 DEF LockTimeout, Lock!AcquireStep, Lock!GiveUp, Lock!Move
  <2>2. OwnsLock' /\ lpc' \in [Threads -> Lock!LockPcs] /\ \A u \in Threads \ {t} : lpc'[u] = lpc[u]
    BY <2>1, LockStepKeeps
  <2>3. StoreTyped' /\ OpsTyped'
    BY <2>1, <2>2 DEF StoreInv, StoreTyped, OpsTyped, QPcs
  <2>4. CopyIsPresent'
    BY <2>1, <2>2 DEF StoreInv, StoreTyped, CopyIsPresent
  <2> QED BY <2>1, <2>2, <2>3, <2>4 DEF StoreInv
<1>3. CASE Load(t)
  <2>1. /\ lpc[t] = "body" /\ qpc' = [qpc EXCEPT ![t] = "store"] /\ copy' = [copy EXCEPT ![t] = queue]
        /\ UNCHANGED <<now, op, queue, rows, holder, lpc>>
    BY <1>3 DEF Load, InLock, Lock!InBody, lockVars
  <2>2. StoreTyped' /\ OpsTyped' /\ OwnsLock'
    BY <2>1 DEF StoreInv, StoreTyped, OpsTyped, OwnsLock, QPcs
  <2>3. CopyIsPresent'
    BY <2>1 DEF StoreInv, StoreTyped, CopyIsPresent
  <2> QED BY <2>1, <2>2, <2>3 DEF StoreInv
<1>4. CASE StoreFails(t)
  <2>1. /\ qpc' = [qpc EXCEPT ![t] = "failed"] /\ copy' = [copy EXCEPT ![t] = None]
        /\ UNCHANGED <<now, op, queue, rows, holder, lpc>>
    BY <1>4 DEF StoreFails, InLock, lockVars
  <2>2. StoreTyped' /\ OpsTyped' /\ OwnsLock'
    BY <2>1 DEF StoreInv, StoreTyped, OpsTyped, OwnsLock, QPcs
  <2>3. CopyIsPresent'
    BY <2>1 DEF StoreInv, StoreTyped, CopyIsPresent
  <2> QED BY <2>1, <2>2, <2>3 DEF StoreInv
<1>5. CASE LeaveLock(t)
  <2>1. Lock!ReleaseStep(t) /\ UNCHANGED <<now, queue, op, qpc, copy, rows>> /\ qpc[t] \in {"done", "failed"}
    BY <1>5 DEF LeaveLock
  <2>2. OwnsLock' /\ lpc' \in [Threads -> Lock!LockPcs] /\ \A u \in Threads \ {t} : lpc'[u] = lpc[u]
    BY <2>1, LockStepKeeps
  <2>3. StoreTyped' /\ OpsTyped'
    BY <2>1, <2>2 DEF StoreInv, StoreTyped, OpsTyped
  <2>4. CopyIsPresent'
    BY <2>1, <2>2 DEF StoreInv, CopyIsPresent
  <2> QED BY <2>1, <2>2, <2>3, <2>4 DEF StoreInv
<1> QED BY <1>1, <1>2, <1>3, <1>4, <1>5
\* A step of an operation is one of the abstract queue, or none.
LEMMA StoreStepKeeps ==
  ASSUME OwnHandles, StoreInv, NEW t \in Threads, StoreStep(t)
  PROVE  StoreInv' /\ [Queue!Next]_<<now, queue>>
<1>1. CASE StoreAdd(t)
  BY <1>1, AddStep
<1>2. CASE StoreRemove(t)
  BY <1>2, RemoveStep
<1>3. CASE StoreList(t)
  BY <1>3, ListStep
<1>4. CASE TakeLock(t) \/ LockTimeout(t) \/ Load(t) \/ StoreFails(t) \/ LeaveLock(t)
  BY <1>4, QuietStep
<1> QED BY <1>1, <1>2, <1>3, <1>4 DEF StoreStep

\* A thread that is done with its operation forgets it.
LEMMA DoneKeeps ==
  ASSUME StoreInv, NEW t \in Threads, Forget({t}), UNCHANGED <<now, queue, lockVars>>
  PROVE  StoreInv'
<1>1. lpc' = lpc /\ holder' = holder /\ UNCHANGED <<now, queue>>
  BY DEF lockVars
<1>2. StoreTyped' /\ CopyIsPresent' /\ OpsTyped'
  BY <1>1, ForgetKeeps DEF StoreInv, StoreTyped
<1>3. OwnsLock'
  BY <1>1 DEF StoreInv, OwnsLock
<1> QED BY <1>2, <1>3 DEF StoreInv

\* A process dies, with its handle and the operations behind it.
LEMMA CrashKeeps ==
  ASSUME StoreInv, NEW h \in Handles, Crash(h)
  PROVE  StoreInv'
<1> DEFINE ts == {t \in Threads : HandleOf[t] = h}
<1>1. /\ Forget(ts) /\ UNCHANGED <<now, queue>>
      /\ holder' = IF holder = h THEN NoHandle ELSE holder
      /\ lpc' = [t \in Threads |-> IF HandleOf[t] = h THEN "out" ELSE lpc[t]]
  BY DEF Crash, Lock!Die
<1>2. lpc' \in [Threads -> Lock!LockPcs] /\ \A t \in Threads \ ts : lpc'[t] = lpc[t]
  BY <1>1 DEF StoreInv, StoreTyped, Lock!LockPcs
<1>3. StoreTyped' /\ CopyIsPresent' /\ OpsTyped'
  <2> HIDE DEF ts
  <2>1. ts \in SUBSET Threads
    BY DEF ts
  <2> QED BY <1>1, <1>2, <2>1, ForgetKeeps DEF StoreInv
<1>4. OwnsLock'
  BY <1>1 DEF StoreInv, StoreTyped, OwnsLock, Lock!Owning
<1> QED BY <1>3, <1>4 DEF StoreInv

\* Time passes.
LEMMA TickKeeps == StoreInv /\ Tick => StoreInv' /\ Queue!Next
<1> SUFFICES ASSUME StoreInv, Tick PROVE StoreInv' /\ Queue!Next
  OBVIOUS
<1>1. now' = now + 1 /\ now \in Nat /\ MaxAge \in Nat
      /\ UNCHANGED <<queue, op, qpc, copy, rows, holder, lpc>>
  BY PendingAssumption DEF Tick, lockVars, StoreInv, StoreTyped
<1>2. StoreTyped' /\ OwnsLock' /\ CopyIsPresent'
  BY <1>1 DEF StoreInv, StoreTyped, OwnsLock, CopyIsPresent
<1>3. OpsTyped'
  <2> SUFFICES ASSUME NEW t \in Threads, op'[t] # None
               PROVE  op'[t] \in Ops /\ (op'[t].kind = "list" => op'[t].cutoff <= now' - MaxAge)
    BY DEF OpsTyped
  <2>1. op[t] \in Ops /\ (op[t].kind = "list" => op[t].cutoff <= now - MaxAge) /\ op'[t] = op[t]
    BY <1>1 DEF StoreInv, OpsTyped
  <2>2. op[t].kind = "list" => op[t].cutoff \in Int
    BY <2>1 DEF Ops
  <2> QED BY <1>1, <2>1, <2>2
<1>4. Queue!Next
  BY <1>1 DEF Queue!Next, Queue!Tick
<1> QED BY <1>2, <1>3, <1>4 DEF StoreInv

-----------------------------------------------------------------------------
(* The control UI and the servers.                                         *)

\* A UI thread has a form from here ...
Handling == {"matching", "issuing", "issued", "removing"}

Forms == [hash : Hashes, risk : Risks \cup {None}, how : Hows, token : TokenSet \cup {None}]

\* ... with what it needs at each point.
FormTyped(t, where, f, issued) ==
    where \in Handling =>
        /\ t \in UIThreads /\ f \in Forms
        /\ where # "matching" => f.risk \in Risks
        /\ where \in {"issued", "removing"} => f.token \in issued

UITyped ==
    /\ pc \in [Threads -> Pcs] /\ DOMAIN form = Threads
    /\ workspace \in Workspaces
    /\ minted \subseteq TokenSet /\ tokens \subseteq minted
    /\ \A t \in Threads : FormTyped(t, pc[t], form[t], minted)

QueueInv == StoreInv /\ UITyped

\* A thread goes on, with its form as it was, a new one, or none.
LEMMA UIKeeps ==
  ASSUME UITyped, NEW t \in Threads, NEW to \in Pcs, pc' = [pc EXCEPT ![t] = to],
         form' = form \/ (\E f : form' = [form EXCEPT ![t] = f]),
         workspace' = workspace, minted \subseteq minted', minted' \subseteq TokenSet,
         tokens' \subseteq minted', FormTyped(t, to, form'[t], minted')
  PROVE  UITyped'
<1>1. pc' \in [Threads -> Pcs] /\ DOMAIN form' = Threads
  BY DEF UITyped
<1>2. ASSUME NEW u \in Threads PROVE FormTyped(u, pc'[u], form'[u], minted')
  <2>1. CASE u = t
    BY <2>1 DEF UITyped
  <2>2. CASE u # t
    <3>1. pc'[u] = pc[u] /\ form'[u] = form[u] /\ FormTyped(u, pc[u], form[u], minted)
      BY <2>2 DEF UITyped
    <3> QED BY <3>1 DEF FormTyped
  <2> QED BY <2>1, <2>2
<1> QED BY <1>1, <1>2 DEF UITyped

\* What a UI thread begins is typed.
LEMMA TypedForms ==
  ASSUME UITyped, NEW t \in UIThreads
  PROVE  /\ \A h \in Hashes : Form(h, None, "pending") \in Forms
         /\ \A h \in Hashes, k \in Risks : Form(h, k, "manual") \in Forms
         /\ pc[t] \in Handling => form[t] \in Forms
         /\ t \in Threads
  BY ControlUIAssumption DEF UITyped, FormTyped, Form, Forms, Hows

\* Every step keeps the invariant, and is a step of the abstract queue or none.
LEMMA QueueInvNext ==
  ASSUME OwnHandles, QueueInv, [Next]_vars
  PROVE  QueueInv' /\ [Queue!Next]_<<now, queue>>
<1> USE DEF QueueInv
<1>0. /\ UIThreads \subseteq Threads /\ Servers \subseteq Threads
      /\ WorkspaceOf \in [Servers -> Workspaces] /\ Trusted \subseteq Workspaces /\ TypedHashes \subseteq Hashes
  BY ControlUIAssumption
<1>1. ASSUME NEW t \in UIThreads, NEW w \in Trusted, Switch(t, w)
      PROVE  QueueInv' /\ UNCHANGED <<now, queue>>
  <2>1. UNCHANGED storeVars /\ UNCHANGED <<pc, form, tokens, minted>> /\ workspace' = w
    BY <1>1 DEF Switch
  <2>2. UITyped'
    BY <1>0, <2>1 DEF UITyped, FormTyped
  <2>3. StoreInv' /\ UNCHANGED <<now, queue>>
    BY <2>1 DEF storeVars, lockVars, StoreInv, StoreTyped, OwnsLock, CopyIsPresent, OpsTyped
  <2> QED BY <2>2, <2>3
<1>2. ASSUME NEW t \in Threads, NEW o \in Ops, o.kind = "list" => o.cutoff <= now - MaxAge, Begin(t, o)
      PROVE  StoreInv' /\ UNCHANGED <<now, queue>>
  BY <1>2, BeginKeeps DEF Begin
<1>3. Listing(workspace) \in Ops /\ Listing(workspace).cutoff <= now - MaxAge
  BY PendingAssumption DEF Listing, Ops, UITyped, StoreInv, StoreTyped
<1>4. ASSUME NEW t \in UIThreads, View(t)
      PROVE  QueueInv' /\ UNCHANGED <<now, queue>>
  <2>1. StoreInv' /\ UNCHANGED <<now, queue>>
    BY <1>0, <1>2, <1>3, <1>4 DEF View
  <2>2. UITyped'
    BY <1>0, <1>4, UIKeeps DEF View, Goto, Pcs, FormTyped, Handling, UITyped
  <2> QED BY <2>1, <2>2
<1>5. ASSUME NEW t \in UIThreads, NEW h \in Hashes, ApprovePending(t, h)
      PROVE  QueueInv' /\ UNCHANGED <<now, queue>>
  <2>1. StoreInv' /\ UNCHANGED <<now, queue>>
    BY <1>0, <1>2, <1>3, <1>5 DEF ApprovePending
  <2>2. form'[t] = Form(h, None, "pending") /\ form'[t] \in Forms
    BY <1>0, <1>5, TypedForms DEF ApprovePending, SetForm, UITyped
  <2>3. FormTyped(t, "matching", form'[t], minted')
    BY <2>2 DEF FormTyped, Handling
  <2>4. UITyped'
    BY <1>0, <1>5, <2>3, UIKeeps DEF ApprovePending, Goto, SetForm, Pcs, UITyped
  <2> QED BY <2>1, <2>4
<1>6. ASSUME NEW t \in UIThreads, NEW h \in TypedHashes, NEW k \in Risks, ApproveManually(t, h, k)
      PROVE  QueueInv' /\ UNCHANGED <<now, queue>>
  <2>1. StoreInv' /\ UNCHANGED <<now, queue>>
    BY <1>6 DEF ApproveManually, storeVars, lockVars, StoreInv, StoreTyped, OwnsLock, CopyIsPresent, OpsTyped
  <2>2. form'[t] = Form(h, k, "manual") /\ form'[t] \in Forms /\ form'[t].risk \in Risks
    BY <1>0, <1>6, TypedForms DEF ApproveManually, SetForm, UITyped, Form
  <2>3. FormTyped(t, "issuing", form'[t], minted')
    BY <2>2 DEF FormTyped, Handling
  <2>4. UITyped'
    BY <1>0, <1>6, <2>3, UIKeeps DEF ApproveManually, Goto, SetForm, Pcs, UITyped
  <2> QED BY <2>1, <2>4
<1>7. ASSUME NEW t \in Threads, Forget({t}), UNCHANGED <<now, queue, lockVars>>
      PROVE  StoreInv' /\ UNCHANGED <<now, queue>>
  BY <1>7, DoneKeeps
<1>8. ASSUME NEW t \in Threads, Match(t)
      PROVE  QueueInv' /\ UNCHANGED <<now, queue>>
  <2>1. StoreInv' /\ UNCHANGED <<now, queue>>
    BY <1>7, <1>8 DEF Match
  <2>2. PICK r \in rows[t] : form' = [form EXCEPT ![t] = [form[t] EXCEPT !.risk = r.risk]]
    BY <1>8 DEF Match, SetForm
  <2>3. r.risk \in Risks
    BY DEF StoreInv, StoreTyped, Queue!Rows
  <2>4. form[t] \in Forms /\ t \in UIThreads /\ t \in DOMAIN form
    BY <1>8 DEF Match, Goto, UITyped, FormTyped, Handling
  <2>5. form'[t] \in Forms /\ form'[t].risk \in Risks
    BY <2>2, <2>3, <2>4 DEF Forms
  <2>6. FormTyped(t, "issuing", form'[t], minted')
    BY <2>4, <2>5 DEF FormTyped, Handling
  <2>7. UITyped'
    BY <1>8, <2>2, <2>6, UIKeeps DEF Match, Goto, Pcs, UITyped
  <2> QED BY <2>1, <2>7
<1>9. ASSUME NEW t \in Threads, NoMatch(t)
      PROVE  QueueInv' /\ UNCHANGED <<now, queue>>
  <2>1. StoreInv' /\ UNCHANGED <<now, queue>>
    BY <1>7, <1>9 DEF NoMatch
  <2>2. UITyped'
    BY <1>9, UIKeeps DEF NoMatch, Goto, SetForm, Pcs, FormTyped, Handling, UITyped
  <2> QED BY <2>1, <2>2
<1>10. ASSUME NEW t \in Threads, Issue(t)
       PROVE  QueueInv' /\ UNCHANGED <<now, queue>>
  <2> DEFINE tok == [ws |-> workspace, hash |-> form[t].hash, risk |-> form[t].risk]
  <2>1. StoreInv' /\ UNCHANGED <<now, queue>>
    BY <1>10 DEF Issue, storeVars, lockVars, StoreInv, StoreTyped, OwnsLock, CopyIsPresent, OpsTyped
  <2>2. form[t] \in Forms /\ t \in UIThreads /\ t \in DOMAIN form /\ form[t].risk \in Risks
    BY <1>10 DEF Issue, Goto, UITyped, FormTyped, Handling
  <2>3. tok \in TokenSet
    BY <2>2 DEF Forms, TokenSet, UITyped
  <2>4. /\ form' = [form EXCEPT ![t] = [form[t] EXCEPT !.token = tok]]
        /\ minted' = minted \cup {tok} /\ UNCHANGED <<workspace, tokens>>
        /\ pc' = [pc EXCEPT ![t] = "issued"]
    BY <1>10 DEF Issue, Goto, SetForm
  <2> HIDE DEF tok
  <2>5. form'[t] \in Forms /\ form'[t].risk \in Risks /\ form'[t].token = tok
    BY <2>2, <2>3, <2>4 DEF Forms
  <2>6. FormTyped(t, "issued", form'[t], minted')
    BY <2>2, <2>4, <2>5 DEF FormTyped, Handling
  <2>7. minted \subseteq minted' /\ minted' \subseteq TokenSet /\ tokens' \subseteq minted'
    BY <2>3, <2>4 DEF UITyped
  <2>8. UITyped'
    BY <2>4, <2>6, <2>7, UIKeeps DEF Pcs
  <2> QED BY <2>1, <2>8
<1>11. ASSUME NEW t \in Threads, BeginRemove(t)
       PROVE  QueueInv' /\ UNCHANGED <<now, queue>>
  <2>1. form[t] \in Forms /\ t \in UIThreads
    BY <1>11 DEF BeginRemove, Goto, UITyped, FormTyped, Handling
  <2>2. Removing(workspace, form[t].hash) \in Ops /\ Removing(workspace, form[t].hash).kind = "remove"
    BY <2>1 DEF Removing, Ops, Forms, UITyped
  <2>3. StoreInv' /\ UNCHANGED <<now, queue>>
    BY <1>2, <1>11, <2>2 DEF BeginRemove
  <2>4. UITyped'
    BY <1>11, UIKeeps DEF BeginRemove, Goto, Pcs, FormTyped, Handling, UITyped
  <2> QED BY <2>3, <2>4
<1>12. ASSUME NEW t \in Threads, ReplyToken(t)
       PROVE  QueueInv' /\ UNCHANGED <<now, queue>>
  <2>1. StoreInv' /\ UNCHANGED <<now, queue>>
    BY <1>7, <1>12 DEF ReplyToken, EndOfApproval
  <2>2. form[t].token \in minted
    BY <1>12 DEF ReplyToken, EndOfApproval, Goto, UITyped, FormTyped, Handling
  <2>3. UITyped'
    BY <1>12, <2>2, UIKeeps DEF ReplyToken, EndOfApproval, Goto, SetForm, Pcs, FormTyped, Handling, UITyped
  <2> QED BY <2>1, <2>3
<1>13. ASSUME NEW t \in Threads, LoseToken(t)
       PROVE  QueueInv' /\ UNCHANGED <<now, queue>>
  <2>1. StoreInv' /\ UNCHANGED <<now, queue>>
    BY <1>7, <1>13 DEF LoseToken, EndOfApproval
  <2>2. UITyped'
    BY <1>13, UIKeeps DEF LoseToken, EndOfApproval, Goto, SetForm, Pcs, FormTyped, Handling, UITyped
  <2> QED BY <2>1, <2>2
<1>14. ASSUME NEW t \in Servers, NEW h \in Hashes, NEW k \in Risks, AskApproval(t, h, k)
       PROVE  QueueInv' /\ UNCHANGED <<now, queue>>
  <2>1. Adding(WorkspaceOf[t], h, k) \in Ops /\ Adding(WorkspaceOf[t], h, k).kind = "add"
    BY <1>0 DEF Adding, Ops
  <2>2. StoreInv' /\ UNCHANGED <<now, queue>>
    BY <1>0, <1>2, <1>14, <2>1 DEF AskApproval
  <2>3. UITyped'
    BY <1>0, <1>14, UIKeeps DEF AskApproval, Goto, Pcs, FormTyped, Handling, UITyped
  <2> QED BY <2>2, <2>3
<1>15. ASSUME NEW t \in Servers, NEW tok \in tokens, SpendToken(t, tok)
       PROVE  QueueInv' /\ UNCHANGED <<now, queue>>
  <2>1. tok.hash \in Hashes
    BY DEF UITyped, TokenSet
  <2>2. Removing(WorkspaceOf[t], tok.hash) \in Ops /\ Removing(WorkspaceOf[t], tok.hash).kind = "remove"
    BY <1>0, <2>1 DEF Removing, Ops
  <2>3. StoreInv' /\ UNCHANGED <<now, queue>>
    BY <1>0, <1>2, <1>15, <2>2 DEF SpendToken
  <2>4. UITyped'
    BY <1>0, <1>15, UIKeeps DEF SpendToken, Goto, Pcs, FormTyped, Handling, UITyped
  <2> QED BY <2>3, <2>4
<1>16. ASSUME NEW t \in Threads, Proceed(t)
       PROVE  QueueInv' /\ UNCHANGED <<now, queue>>
  <2>1. StoreInv' /\ UNCHANGED <<now, queue>>
    BY <1>7, <1>16 DEF Proceed
  <2>2. UITyped'
    BY <1>16, UIKeeps DEF Proceed, Pcs, FormTyped, Handling, UITyped
  <2> QED BY <2>1, <2>2
<1>17. ASSUME NEW t \in Threads, OnQueue(t)
       PROVE  QueueInv' /\ [Queue!Next]_<<now, queue>>
  <2>1. StoreInv' /\ [Queue!Next]_<<now, queue>>
    BY <1>17, StoreStepKeeps DEF OnQueue
  <2>2. UITyped'
    BY <1>17 DEF OnQueue, UITyped, FormTyped
  <2> QED BY <2>1, <2>2
<1>18. ASSUME NEW h \in Handles, Die(h)
       PROVE  QueueInv' /\ UNCHANGED <<now, queue>>
  <2>1. StoreInv' /\ UNCHANGED <<now, queue>>
    BY <1>18, CrashKeeps DEF Die, Crash
  <2>2. UITyped'
    BY <1>18 DEF Die, UITyped, FormTyped, Handling, Pcs
  <2> QED BY <2>1, <2>2
<1>19. CASE Clock
  <2>1. StoreInv' /\ Queue!Next
    BY <1>19, TickKeeps DEF Clock
  <2>2. UITyped'
    BY <1>19 DEF Clock, uiVars, UITyped, FormTyped
  <2> QED BY <2>1, <2>2
<1>20. CASE UNCHANGED vars
  BY <1>20 DEF vars, uiVars, storeVars, lockVars, UITyped, FormTyped, StoreInv, StoreTyped,
               OwnsLock, CopyIsPresent, OpsTyped
<1> QED BY <1>1, <1>4, <1>5, <1>6, <1>8, <1>9, <1>10, <1>11, <1>12, <1>13, <1>14, <1>15, <1>16,
           <1>17, <1>18, <1>19, <1>20
        DEF Next, Progress, UIStep

\* Nobody has a form, and nothing is issued.
LEMMA QueueInvInit == Init => QueueInv
<1> SUFFICES ASSUME Init PROVE QueueInv
  OBVIOUS
<1>1. StoreInv
  BY StoreInvInit DEF Init
<1>2. UITyped
  BY ControlUIAssumption DEF Init, UITyped, FormTyped, Handling, Pcs
<1> QED BY <1>1, <1>2 DEF QueueInv

\* PendingApprovalStore implements PendingQueue: for any number of servers and a UI
\* that handles one form at a time, each operation is one step on the present
\* queue, at the moment of its rewrite, whatever else runs and whoever dies.
THEOREM StoreIsAQueue == OwnHandles => (Spec => QueueIsAtomic)
<1> SUFFICES ASSUME OwnHandles PROVE Spec => QueueIsAtomic
  OBVIOUS
<1>1. Init => Queue!Init
  BY DEF Init, QueueInit
<1>2. QueueInv /\ [Next]_vars => QueueInv' /\ [Queue!Next]_<<now, queue>>
  BY QueueInvNext
<1> QED BY <1>1, <1>2, QueueInvInit, PTL DEF Spec, QueueIsAtomic, Queue!Spec

-----------------------------------------------------------------------------
(* One form at a time.                                                     *)

Asked(r) == <<r.ws, r.hash, r.risk>>

\* What is in the queue, and what a listing returns, a server has asked for.
RowsAsked ==
    /\ \A r \in queue : Asked(r) \in requested
    /\ \A t \in Threads : \A r \in rows[t] : Asked(r) \in requested

\* From the listing to the token the form is about one workspace, the selected one.
FormMeant(where, f, o, found, w, asked) ==
    /\ where = "matching" => o.ws = w /\ \A r \in found : r.ws = w
    /\ where = "issuing" /\ f.how = "pending" => <<w, f.hash, f.risk>> \in asked
    /\ where = "issued" => f.token.ws = w /\ f.token.hash = f.hash

FormsMeant ==
    \A t \in UIThreads : FormMeant(pc[t], form[t], op[t], rows[t], workspace, requested)

\* A removal is of a request for which a token was issued.
RemovalsIssued ==
    \A t \in Threads : op[t] # None /\ op[t].kind = "remove" =>
        \E tok \in minted : tok.ws = op[t].ws /\ tok.hash = op[t].hash

TabInv == QueueInv /\ RowsAsked /\ FormsMeant /\ RemovalsIssued

\* A thread goes on, begins an operation, or forgets one; the queue stays.
LEMMA TabKeeps ==
  ASSUME QueueInv, RowsAsked, FormsMeant, RemovalsIssued, NEW t \in Threads,
         \A u \in Threads \ {t} : /\ pc'[u] = pc[u] /\ form'[u] = form[u]
                                  /\ op'[u] = op[u] /\ rows'[u] = rows[u],
         UNCHANGED <<queue, workspace, requested>>, minted \subseteq minted',
         rows'[t] \in {rows[t], {}},
         t \in UIThreads => FormMeant(pc'[t], form'[t], op'[t], rows'[t], workspace, requested),
         op'[t] # None /\ op'[t].kind = "remove" =>
            \E tok \in minted' : tok.ws = op'[t].ws /\ tok.hash = op'[t].hash
  PROVE  RowsAsked' /\ FormsMeant' /\ RemovalsIssued'
<1>1. RowsAsked'
  <2> SUFFICES ASSUME NEW u \in Threads, NEW r \in rows'[u] PROVE Asked(r) \in requested
    BY DEF RowsAsked, Asked
  <2>1. r \in rows[u]
    BY DEF RowsAsked
  <2> QED BY <2>1 DEF RowsAsked
<1>2. FormsMeant'
  <2> SUFFICES ASSUME NEW u \in UIThreads
               PROVE  FormMeant(pc'[u], form'[u], op'[u], rows'[u], workspace', requested')
    BY DEF FormsMeant
  <2>1. CASE u = t
    BY <2>1
  <2>2. CASE u # t
    <3>1. u \in Threads \ {t}
      BY <2>2, ControlUIAssumption
    <3>2. FormMeant(pc[u], form[u], op[u], rows[u], workspace, requested)
      BY DEF FormsMeant
    <3> QED BY <3>1, <3>2
  <2> QED BY <2>1, <2>2
<1>3. RemovalsIssued'
  <2> SUFFICES ASSUME NEW u \in Threads, op'[u] # None, op'[u].kind = "remove"
               PROVE  \E tok \in minted' : tok.ws = op'[u].ws /\ tok.hash = op'[u].hash
    BY DEF RemovalsIssued
  <2>1. CASE u = t
    BY <2>1
  <2>2. CASE u # t
    BY <2>2 DEF RemovalsIssued
  <2> QED BY <2>1, <2>2
<1> QED BY <1>1, <1>2, <1>3

\* What a step of an operation does to the queue and to the rows it returns.
LEMMA OnQueueDoes ==
  ASSUME OwnHandles, QueueInv, NEW t \in Threads, OnQueue(t)
  PROVE  /\ UNCHANGED <<workspace, pc, form, tokens, minted, op>> /\ requested \subseteq requested'
         /\ \A u \in Threads \ {t} : rows'[u] = rows[u]
         /\ \/ /\ rows' = rows
               /\ op[t] \in [kind : {"add"}, ws : Workspaces, hash : Hashes, risk : Risks]
               /\ queue' = Queue!Put(queue, [ws |-> op[t].ws, hash |-> op[t].hash,
                                             risk |-> op[t].risk, seen |-> now])
               /\ requested' = requested \cup {<<op[t].ws, op[t].hash, op[t].risk>>}
            \/ /\ rows' = rows /\ op[t] # None /\ op[t].kind = "remove"
               /\ queue' = Queue!Without(queue, op[t].ws, op[t].hash)
            \/ /\ queue' = queue \ Queue!Stale(queue, op[t].cutoff)
               /\ op[t].cutoff \in Int /\ op[t].cutoff <= now - MaxAge
               /\ rows'[t] = {r \in queue' : r.ws = op[t].ws}
            \/ queue' = queue /\ rows' = rows
<1> USE DEF QueueInv
<1>1. UNCHANGED <<workspace, pc, form, tokens, minted>> /\ requested \subseteq requested'
  BY DEF OnQueue
<1>2. t \in DOMAIN rows
  BY DEF StoreInv, StoreTyped
<1>3. CASE StoreAdd(t)
  <2>1. UNCHANGED <<op, rows>> /\ requested' = requested \cup {<<op[t].ws, op[t].hash, op[t].risk>>}
    BY <1>3 DEF OnQueue, StoreAdd, InLock
  <2> QED BY <1>1, <1>3, <2>1, AddStep
<1>4. CASE StoreRemove(t)
  <2>1. UNCHANGED <<op, rows>> /\ op[t] # None /\ op[t].kind = "remove"
    BY <1>4 DEF StoreRemove, InLock
  <2> QED BY <1>1, <1>4, <2>1, RemoveStep
<1>5. CASE StoreList(t)
  <2>1. UNCHANGED op
    BY <1>5 DEF StoreList, InLock
  <2>2. /\ queue' = queue \ Queue!Stale(queue, op[t].cutoff)
        /\ op[t].cutoff \in Int /\ op[t].cutoff <= now - MaxAge
        /\ rows' = [rows EXCEPT ![t] = {r \in queue' : r.ws = op[t].ws}]
    BY <1>5, ListStep
  <2>3. rows'[t] = {r \in queue' : r.ws = op[t].ws} /\ \A u \in Threads \ {t} : rows'[u] = rows[u]
    BY <1>2, <2>2 DEF StoreInv, StoreTyped
  <2> QED BY <1>1, <2>1, <2>2, <2>3
<1>6. CASE TakeLock(t) \/ LockTimeout(t) \/ Load(t) \/ StoreFails(t) \/ LeaveLock(t)
  BY <1>1, <1>6, QuietStep
<1> QED BY <1>3, <1>4, <1>5, <1>6 DEF OnQueue, StoreStep

\* ... and so to what was asked and meant.
LEMMA OnQueueKeepsTab ==
  ASSUME OwnHandles, TabInv, NEW t \in Threads, OnQueue(t)
  PROVE  RowsAsked' /\ FormsMeant' /\ RemovalsIssued'
<1> USE DEF TabInv
<1>1. UNCHANGED <<workspace, pc, form, minted, op>> /\ requested \subseteq requested'
      /\ \A u \in Threads \ {t} : rows'[u] = rows[u]
  BY OnQueueDoes
<1>2. RowsAsked' /\ (rows' = rows \/ \A r \in rows'[t] : r.ws = op[t].ws)
  <2>1. CASE /\ rows' = rows
             /\ op[t] \in [kind : {"add"}, ws : Workspaces, hash : Hashes, risk : Risks]
             /\ queue' = Queue!Put(queue, [ws |-> op[t].ws, hash |-> op[t].hash,
                                           risk |-> op[t].risk, seen |-> now])
             /\ requested' = requested \cup {<<op[t].ws, op[t].hash, op[t].risk>>}
    <3>1. \A r \in queue' : r \in queue \/ Asked(r) = <<op[t].ws, op[t].hash, op[t].risk>>
      BY <2>1 DEF Queue!Put, Queue!Without, Asked
    <3> QED BY <2>1, <3>1 DEF RowsAsked, Asked
  <2>2. CASE rows' = rows /\ queue' = Queue!Without(queue, op[t].ws, op[t].hash)
    BY <1>1, <2>2 DEF RowsAsked, Asked, Queue!Without
  <2>3. CASE queue' = queue \ Queue!Stale(queue, op[t].cutoff) /\ rows'[t] = {r \in queue' : r.ws = op[t].ws}
    BY <1>1, <2>3 DEF RowsAsked, Asked
  <2>4. CASE queue' = queue /\ rows' = rows
    BY <1>1, <2>4 DEF RowsAsked, Asked
  <2> QED BY <2>1, <2>2, <2>3, <2>4, OnQueueDoes
<1>3. FormsMeant'
  BY <1>1, <1>2, ControlUIAssumption DEF FormsMeant, FormMeant
<1>4. RemovalsIssued'
  BY <1>1 DEF RemovalsIssued
<1> QED BY <1>2, <1>3, <1>4

\* Every step of a UI with one form at a time, and of the servers beside it, keeps
\* what was asked and meant.
LEMMA TabInvNext ==
  ASSUME OwnHandles, OneTab, TabInv, [Next]_vars
  PROVE  TabInv'
<1> USE DEF TabInv
<1>0. /\ UIThreads \subseteq Threads /\ Servers \subseteq Threads /\ UIThreads \cap Servers = {}
      /\ pc \in [Threads -> Pcs] /\ DOMAIN form = Threads
      /\ DOMAIN op = Threads /\ DOMAIN rows = Threads /\ tokens \subseteq minted
      /\ QueueInv
  BY ControlUIAssumption DEF QueueInv, UITyped, StoreInv, StoreTyped
<1> DEFINE Kept == RowsAsked' /\ FormsMeant' /\ RemovalsIssued'
<1>1. ASSUME NEW t \in UIThreads, NEW w \in Trusted, Switch(t, w) PROVE Kept
  <2>1. \A u \in UIThreads : pc'[u] = "idle"
    BY <1>1 DEF Switch, OneTab
  <2>2. FormsMeant'
    BY <2>1 DEF FormsMeant, FormMeant
  <2> QED BY <1>1, <2>2 DEF Switch, storeVars, RowsAsked, Asked, RemovalsIssued
\* A thread begins an operation, or ends one.
<1>2. ASSUME NEW t \in Threads, NEW o, Begin(t, o)
      PROVE  /\ op'[t] = o /\ rows' = rows /\ rows[t] = {} /\ UNCHANGED queue
             /\ \A u \in Threads \ {t} : op'[u] = op[u] /\ rows'[u] = rows[u]
  BY <1>0, <1>2 DEF Begin, QueueInv, StoreInv, StoreTyped
<1>3. ASSUME NEW t \in Threads, Forget({t})
      PROVE  /\ op'[t] = None /\ rows'[t] = {}
             /\ \A u \in Threads \ {t} : op'[u] = op[u] /\ rows'[u] = rows[u]
  BY <1>0, <1>3 DEF Forget
<1>4. ASSUME NEW t \in UIThreads, View(t) PROVE Kept
  <2>1. /\ op'[t] = Listing(workspace) /\ rows' = rows /\ UNCHANGED queue
        /\ \A u \in Threads \ {t} : op'[u] = op[u] /\ rows'[u] = rows[u]
    BY <1>0, <1>2, <1>4 DEF View
  <2>2. FormMeant(pc'[t], form'[t], op'[t], rows'[t], workspace, requested)
    BY <1>0, <1>4 DEF View, Goto, FormMeant
  <2> QED BY <1>0, <1>4, <2>1, <2>2, TabKeeps DEF View, Goto, Listing
<1>5. ASSUME NEW t \in UIThreads, NEW h \in Hashes, ApprovePending(t, h) PROVE Kept
  <2>1. /\ op'[t] = Listing(workspace) /\ rows' = rows /\ rows[t] = {} /\ UNCHANGED queue
        /\ \A u \in Threads \ {t} : op'[u] = op[u] /\ rows'[u] = rows[u]
    BY <1>0, <1>2, <1>5 DEF ApprovePending
  <2>2. FormMeant(pc'[t], form'[t], op'[t], rows'[t], workspace, requested)
    BY <1>0, <1>5, <2>1 DEF ApprovePending, Goto, FormMeant, Listing
  <2>3. /\ UNCHANGED <<queue, workspace, requested, minted>>
        /\ \A u \in Threads \ {t} : pc'[u] = pc[u] /\ form'[u] = form[u]
    BY <1>0, <1>5, <2>1 DEF ApprovePending, Goto, SetForm
  <2>4. op'[t].kind # "remove"
    BY <2>1 DEF Listing
  <2> QED BY <1>0, <2>1, <2>2, <2>3, <2>4, TabKeeps
<1>6. ASSUME NEW t \in UIThreads, NEW h \in TypedHashes, NEW k \in Risks, ApproveManually(t, h, k) PROVE Kept
  <2>1. FormMeant(pc'[t], form'[t], op'[t], rows'[t], workspace, requested)
    BY <1>0, <1>6 DEF ApproveManually, Goto, SetForm, FormMeant, Form
  <2>2. op'[t] # None /\ op'[t].kind = "remove" =>
            \E tok \in minted' : tok.ws = op'[t].ws /\ tok.hash = op'[t].hash
    BY <1>0, <1>6 DEF ApproveManually, storeVars, RemovalsIssued
  <2> QED BY <1>0, <1>6, <2>1, <2>2, TabKeeps DEF ApproveManually, Goto, SetForm, storeVars
<1>7. ASSUME NEW t \in Threads, Match(t) PROVE Kept
  <2>1. /\ op'[t] = None /\ rows'[t] = {}
        /\ \A u \in Threads \ {t} : op'[u] = op[u] /\ rows'[u] = rows[u]
    BY <1>3, <1>7 DEF Match
  <2>2. PICK r \in rows[t] : r.hash = form[t].hash /\ form' = [form EXCEPT ![t] = [form[t] EXCEPT !.risk = r.risk]]
    BY <1>7 DEF Match, SetForm
  <2>3. pc[t] = "matching" /\ pc'[t] = "issuing" /\ form[t] \in Forms
    BY <1>0, <1>7 DEF Match, Goto, QueueInv, UITyped, FormTyped, Handling
  <2>4. form'[t].hash = r.hash /\ form'[t].risk = r.risk
    BY <1>0, <2>2, <2>3 DEF Forms
  <2>5. t \in UIThreads => FormMeant(pc'[t], form'[t], op'[t], rows'[t], workspace, requested)
    <3>1. t \in UIThreads => r.ws = workspace
      BY <2>2, <2>3 DEF FormsMeant, FormMeant
    <3>2. <<r.ws, r.hash, r.risk>> \in requested
      BY <2>2 DEF RowsAsked, Asked
    <3> QED BY <2>3, <2>4, <3>1, <3>2 DEF FormMeant
  <2> QED BY <1>0, <1>7, <2>1, <2>2, <2>5, TabKeeps DEF Match, Goto
<1>8. ASSUME NEW t \in Threads, Forget({t}), pc' = [pc EXCEPT ![t] = "idle"],
             form' = form \/ form' = [form EXCEPT ![t] = None],
             UNCHANGED <<queue, workspace, minted, requested>>
      PROVE  Kept
  <2>1. /\ op'[t] = None /\ rows'[t] = {}
        /\ \A u \in Threads \ {t} : op'[u] = op[u] /\ rows'[u] = rows[u]
    BY <1>3, <1>8
  <2>2. FormMeant(pc'[t], form'[t], op'[t], rows'[t], workspace, requested)
    BY <1>0, <1>8 DEF FormMeant
  <2> QED BY <1>0, <1>8, <2>1, <2>2, TabKeeps
<1>9. ASSUME NEW t \in Threads, NoMatch(t) PROVE Kept
  BY <1>8, <1>9 DEF NoMatch, Goto, SetForm
<1>10. ASSUME NEW t \in Threads, Issue(t) PROVE Kept
  <2> DEFINE tok == [ws |-> workspace, hash |-> form[t].hash, risk |-> form[t].risk]
  <2>1. form[t] \in Forms /\ t \in UIThreads
    BY <1>10 DEF Issue, Goto, QueueInv, UITyped, FormTyped, Handling
  <2>2. /\ form' = [form EXCEPT ![t] = [form[t] EXCEPT !.token = tok]]
        /\ minted \subseteq minted' /\ UNCHANGED <<workspace, requested, op, rows, queue>>
        /\ pc' = [pc EXCEPT ![t] = "issued"]
    BY <1>10 DEF Issue, Goto, SetForm, storeVars
  <2>3. tok.ws = workspace /\ tok.hash = form[t].hash
    OBVIOUS
  <2> HIDE DEF tok
  <2>4. form'[t].token = tok /\ form'[t].hash = form[t].hash /\ pc'[t] = "issued"
    BY <1>0, <2>1, <2>2 DEF Forms
  <2>5. FormMeant(pc'[t], form'[t], op'[t], rows'[t], workspace, requested)
    BY <2>3, <2>4 DEF FormMeant
  <2>6. op'[t] # None /\ op'[t].kind = "remove" =>
            \E k \in minted' : k.ws = op'[t].ws /\ k.hash = op'[t].hash
    BY <2>2 DEF RemovalsIssued
  <2> QED BY <1>0, <2>2, <2>5, <2>6, TabKeeps
<1>11. ASSUME NEW t \in Threads, BeginRemove(t) PROVE Kept
  <2>1. /\ op'[t] = Removing(workspace, form[t].hash) /\ rows' = rows /\ UNCHANGED queue
        /\ \A u \in Threads \ {t} : op'[u] = op[u] /\ rows'[u] = rows[u]
    BY <1>2, <1>11 DEF BeginRemove
  <2>2. pc[t] = "issued" /\ t \in UIThreads /\ form[t].token \in minted
    BY <1>11 DEF BeginRemove, Goto, QueueInv, UITyped, FormTyped, Handling
  <2>3. form[t].token.ws = workspace /\ form[t].token.hash = form[t].hash
    BY <2>2 DEF FormsMeant, FormMeant
  <2>4. \E tok \in minted' : tok.ws = op'[t].ws /\ tok.hash = op'[t].hash
    BY <1>11, <2>1, <2>2, <2>3 DEF BeginRemove, Removing
  <2>5. FormMeant(pc'[t], form'[t], op'[t], rows'[t], workspace, requested)
    BY <1>0, <1>11 DEF BeginRemove, Goto, FormMeant
  <2> QED BY <1>0, <1>11, <2>1, <2>4, <2>5, TabKeeps DEF BeginRemove, Goto
<1>12. ASSUME NEW t \in Threads, NEW how, EndOfApproval(t, how) PROVE Kept
  BY <1>8, <1>12 DEF EndOfApproval, Goto, SetForm
<1>13. ASSUME NEW t \in Servers, NEW h \in Hashes, NEW k \in Risks, AskApproval(t, h, k) PROVE Kept
  <2>1. /\ op'[t] = Adding(WorkspaceOf[t], h, k) /\ rows' = rows /\ UNCHANGED queue
        /\ \A u \in Threads \ {t} : op'[u] = op[u] /\ rows'[u] = rows[u]
    BY <1>0, <1>2, <1>13 DEF AskApproval
  <2> QED BY <1>0, <1>13, <2>1, TabKeeps DEF AskApproval, Goto, Adding
<1>14. ASSUME NEW t \in Servers, NEW tok \in tokens, SpendToken(t, tok) PROVE Kept
  <2>1. /\ op'[t] = Removing(WorkspaceOf[t], tok.hash) /\ rows' = rows /\ UNCHANGED queue
        /\ \A u \in Threads \ {t} : op'[u] = op[u] /\ rows'[u] = rows[u]
    BY <1>0, <1>2, <1>14 DEF SpendToken
  <2>2. tok \in minted' /\ tok.ws = op'[t].ws /\ tok.hash = op'[t].hash
    BY <1>0, <1>14, <2>1 DEF SpendToken, Removing
  <2> QED BY <1>0, <1>14, <2>1, <2>2, TabKeeps DEF SpendToken, Goto
<1>15. ASSUME NEW t \in Threads, Proceed(t) PROVE Kept
  BY <1>8, <1>15 DEF Proceed
<1>16. ASSUME NEW t \in Threads, OnQueue(t) PROVE Kept
  BY <1>16, OnQueueKeepsTab
<1>17. ASSUME NEW h \in Handles, Die(h) PROVE Kept
  <2>1. /\ UNCHANGED <<queue, workspace, minted, requested>>
        /\ \A t \in Threads :
              \/ pc'[t] = "idle" /\ op'[t] = None /\ rows'[t] = {}
              \/ pc'[t] = pc[t] /\ form'[t] = form[t] /\ op'[t] = op[t] /\ rows'[t] = rows[t]
    BY <1>17 DEF Die, Crash, Forget
  <2>2. RowsAsked'
    BY <2>1 DEF RowsAsked, Asked
  <2>3. FormsMeant'
    BY <1>0, <2>1 DEF FormsMeant, FormMeant
  <2>4. RemovalsIssued'
    BY <2>1 DEF RemovalsIssued
  <2> QED BY <2>2, <2>3, <2>4
<1>18. ASSUME UNCHANGED <<queue, rows, op, requested, workspace, pc, form, minted>> PROVE Kept
  <2>1. RowsAsked'
    BY <1>18 DEF RowsAsked, Asked
  <2>2. FormsMeant'
    BY <1>18 DEF FormsMeant, FormMeant
  <2>3. RemovalsIssued'
    BY <1>18 DEF RemovalsIssued
  <2> QED BY <2>1, <2>2, <2>3
<1>19. ASSUME Clock PROVE Kept
  <2>1. UNCHANGED <<queue, rows, op, requested, workspace, pc, form, minted>>
    BY <1>19 DEF Clock, Tick, uiVars
  <2> QED BY <1>18, <2>1
<1>20. ASSUME UNCHANGED vars PROVE Kept
  <2>1. UNCHANGED <<queue, rows, op, requested, workspace, pc, form, minted>>
    BY <1>20 DEF vars, uiVars, storeVars
  <2> QED BY <1>18, <2>1
<1>21. Kept
  BY <1>1, <1>4, <1>5, <1>6, <1>7, <1>9, <1>10, <1>11, <1>12, <1>13, <1>14, <1>15, <1>16, <1>17,
     <1>19, <1>20
  DEF Next, Progress, UIStep, ReplyToken, LoseToken
<1>22. QueueInv'
  BY <1>0, QueueInvNext
<1> QED BY <1>21, <1>22

\* Nothing is asked, and nothing meant.
LEMMA TabInvInit == Init => TabInv
<1> SUFFICES ASSUME Init PROVE TabInv
  OBVIOUS
<1>1. QueueInv
  BY QueueInvInit
<1>2. RowsAsked /\ FormsMeant /\ RemovalsIssued
  BY ControlUIAssumption
  DEF Init, QueueInit, Queue!Init, RowsAsked, FormsMeant, FormMeant, RemovalsIssued
<1> QED BY <1>1, <1>2 DEF TabInv

\* Only a step of an operation changes the queue.
LEMMA OnlyOnQueue ==
  ASSUME [Next]_vars, queue' # queue
  PROVE  \E t \in Threads : OnQueue(t)
<1>1. \A t \in Threads : \A o : Begin(t, o) => queue' = queue
  BY DEF Begin
<1>2. \A h \in Handles : Crash(h) => queue' = queue
  BY DEF Crash
<1>3. UNCHANGED storeVars \/ Tick => queue' = queue
  BY DEF storeVars, Tick
<1>4. ASSUME NEW t \in UIThreads
      PROVE  /\ View(t) => queue' = queue
             /\ \A w \in Trusted : Switch(t, w) => queue' = queue
             /\ \A h \in Hashes : ApprovePending(t, h) => queue' = queue
             /\ \A h \in TypedHashes, k \in Risks : ApproveManually(t, h, k) => queue' = queue
  BY <1>1, <1>3, ControlUIAssumption DEF View, Switch, ApprovePending, ApproveManually
<1>5. ASSUME NEW t \in Servers
      PROVE  /\ \A h \in Hashes, k \in Risks : AskApproval(t, h, k) => queue' = queue
             /\ \A tok \in tokens : SpendToken(t, tok) => queue' = queue
  BY <1>1, ControlUIAssumption DEF AskApproval, SpendToken
<1>6. ASSUME NEW t \in Threads PROVE Proceed(t) \/ UIStep(t) => queue' = queue
  BY <1>1, <1>3 DEF Proceed, UIStep, Match, NoMatch, Issue, BeginRemove, ReplyToken, LoseToken, EndOfApproval
<1>7. \A h \in Handles : Die(h) => queue' = queue
  BY <1>2 DEF Die
<1>8. Clock \/ UNCHANGED vars => queue' = queue
  BY <1>3 DEF Clock, vars
<1> QED BY <1>4, <1>5, <1>6, <1>7, <1>8 DEF Next, Progress

\* A thread of the UI gets from a form to its token in one way.
LEMMA OnlyIssue ==
  ASSUME QueueInv, [Next]_vars, NEW t \in UIThreads, pc[t] = "issuing", pc'[t] = "issued"
  PROVE  Issue(t)
<1>0. t \in Threads /\ pc \in [Threads -> Pcs] /\ UIThreads \subseteq Threads /\ Servers \subseteq Threads
  BY ControlUIAssumption DEF QueueInv, UITyped
<1>1. ASSUME NEW u \in Threads, NEW to, pc' = [pc EXCEPT ![u] = to], to # "issued" PROVE FALSE
  BY <1>0, <1>1
<1>2. ASSUME pc' = pc PROVE FALSE
  BY <1>2
<1>3. ASSUME NEW u \in UIThreads
      PROVE  /\ ~ View(u)
             /\ \A w \in Trusted : ~ Switch(u, w)
             /\ \A h \in Hashes : ~ ApprovePending(u, h)
             /\ \A h \in TypedHashes, k \in Risks : ~ ApproveManually(u, h, k)
  BY <1>0, <1>1, <1>2 DEF View, Switch, ApprovePending, ApproveManually, Goto
<1>4. ASSUME NEW u \in Servers
      PROVE  /\ \A h \in Hashes, k \in Risks : ~ AskApproval(u, h, k)
             /\ \A tok \in tokens : ~ SpendToken(u, tok)
  BY <1>0, <1>1 DEF AskApproval, SpendToken, Goto
<1>5. ASSUME NEW u \in Threads
      PROVE  ~ Proceed(u) /\ ~ OnQueue(u) /\ ~ Match(u) /\ ~ NoMatch(u) /\ ~ BeginRemove(u)
             /\ ~ ReplyToken(u) /\ ~ LoseToken(u)
  BY <1>0, <1>1, <1>2
  DEF Proceed, OnQueue, Match, NoMatch, BeginRemove, ReplyToken, LoseToken, EndOfApproval, Goto
<1>6. ASSUME NEW h \in Handles PROVE ~ Die(h)
  BY <1>0 DEF Die
<1>7. ~ Clock /\ ~ UNCHANGED vars
  BY <1>2 DEF Clock, vars, uiVars
<1>8. \E u \in Threads : Issue(u)
  BY <1>3, <1>4, <1>5, <1>6, <1>7 DEF Next, Progress, UIStep
<1>9. ASSUME NEW u \in Threads, Issue(u) PROVE u = t
  BY <1>0, <1>9 DEF Issue, Goto
<1> QED BY <1>8, <1>9

\* A token that ends an approval from the queue is for a request a server of that
\* workspace had made, with its risk: the UI reads the selected workspace three times
\* on the way, and with one form at a time nobody switches it in between.
THEOREM IssuesWhatWasRequested == OwnHandles /\ OneTab => (Spec => IssuedWasRequested)
<1> SUFFICES ASSUME OwnHandles, OneTab PROVE Spec => IssuedWasRequested
  OBVIOUS
<1> DEFINE A == \A t \in UIThreads :
                   pc[t] = "issuing" /\ pc'[t] = "issued" /\ form[t].how = "pending"
                   => LET tok == form'[t].token IN <<tok.ws, tok.hash, tok.risk>> \in requested
<1>1. TabInv /\ [Next]_vars => TabInv' /\ [A]_vars
  <2> SUFFICES ASSUME TabInv, [Next]_vars PROVE TabInv' /\ A
    OBVIOUS
  <2>1. TabInv'
    BY TabInvNext
  <2>2. ASSUME NEW t \in UIThreads, pc[t] = "issuing", pc'[t] = "issued", form[t].how = "pending"
        PROVE  <<form'[t].token.ws, form'[t].token.hash, form'[t].token.risk>> \in requested
    <3> DEFINE tok == [ws |-> workspace, hash |-> form[t].hash, risk |-> form[t].risk]
    <3>1. Issue(t)
      BY <2>2, OnlyIssue DEF TabInv
    <3>2. t \in DOMAIN form /\ form[t] \in Forms
      BY <2>2, ControlUIAssumption DEF TabInv, QueueInv, UITyped, FormTyped, Handling
    <3>3. form' = [form EXCEPT ![t] = [form[t] EXCEPT !.token = tok]]
      BY <3>1 DEF Issue, SetForm
    <3>4. tok.ws = workspace /\ tok.hash = form[t].hash /\ tok.risk = form[t].risk
      OBVIOUS
    <3> HIDE DEF tok
    <3>5. form'[t].token = tok
      BY <3>2, <3>3 DEF Forms
    <3>6. <<workspace, form[t].hash, form[t].risk>> \in requested
      BY <2>2 DEF TabInv, FormsMeant, FormMeant
    <3> QED BY <3>4, <3>5, <3>6
  <2> QED BY <2>1, <2>2
<1>2. Init => TabInv
  BY TabInvInit
<1> QED BY <1>1, <1>2, PTL DEF Spec, IssuedWasRequested

\* A request leaves the queue when a token was issued for it or when it is too old:
\* what the UI and the servers do about other requests never takes it away.
THEOREM RequestsOnlyLeaveApproved == OwnHandles /\ OneTab => (Spec => RequestsLeaveApproved)
<1> SUFFICES ASSUME OwnHandles, OneTab PROVE Spec => RequestsLeaveApproved
  OBVIOUS
<1> DEFINE A == \A r \in queue :
                   (\A q \in queue' : Queue!Key(q) # Queue!Key(r))
                   => \/ r.seen < now - MaxAge
                      \/ \E tok \in minted : tok.ws = r.ws /\ tok.hash = r.hash
<1>1. TabInv /\ [Next]_vars => TabInv' /\ [A]_vars
  <2> SUFFICES ASSUME TabInv, [Next]_vars PROVE TabInv' /\ A
    OBVIOUS
  <2>1. TabInv'
    BY TabInvNext
  <2>2. ASSUME NEW r \in queue, \A q \in queue' : Queue!Key(q) # Queue!Key(r)
        PROVE  r.seen < now - MaxAge \/ \E tok \in minted : tok.ws = r.ws /\ tok.hash = r.hash
    <3>1. r \notin queue'
      BY <2>2
    <3>2. PICK t \in Threads : OnQueue(t)
      BY <3>1, OnlyOnQueue
    <3>3. CASE /\ op[t] \in [kind : {"add"}, ws : Workspaces, hash : Hashes, risk : Risks]
               /\ queue' = Queue!Put(queue, [ws |-> op[t].ws, hash |-> op[t].hash,
                                             risk |-> op[t].risk, seen |-> now])
      <4> DEFINE new == [ws |-> op[t].ws, hash |-> op[t].hash, risk |-> op[t].risk, seen |-> now]
      <4>1. new.ws = op[t].ws /\ new.hash = op[t].hash
        OBVIOUS
      <4>2. queue' = Queue!Put(queue, new)
        BY <3>3
      <4> HIDE DEF new
      <4>3. new \in queue'
        BY <4>2 DEF Queue!Put
      <4>4. Queue!Key(r) = <<new.ws, new.hash>>
        BY <3>1, <4>2 DEF Queue!Put, Queue!Without
      <4>5. Queue!Key(r) = Queue!Key(new)
        BY <4>4 DEF Queue!Key
      <4> QED BY <2>2, <4>3, <4>5
    <3>4. CASE op[t] # None /\ op[t].kind = "remove" /\ queue' = Queue!Without(queue, op[t].ws, op[t].hash)
      <4>1. Queue!Key(r) = <<op[t].ws, op[t].hash>>
        BY <3>1, <3>4 DEF Queue!Without
      <4>2. r.ws = op[t].ws /\ r.hash = op[t].hash
        BY <4>1 DEF Queue!Key
      <4> QED BY <3>4, <4>2 DEF TabInv, RemovalsIssued
    <3>5. CASE queue' = queue \ Queue!Stale(queue, op[t].cutoff) /\ op[t].cutoff \in Int /\ op[t].cutoff <= now - MaxAge
      <4>1. r.seen < op[t].cutoff
        BY <3>1, <3>5 DEF Queue!Stale
      <4>2. r.seen \in Nat /\ now \in Nat /\ MaxAge \in Nat
        BY PendingAssumption DEF TabInv, QueueInv, StoreInv, StoreTyped, Queue!Rows
      <4> QED BY <3>5, <4>1, <4>2
    <3>6. CASE queue' = queue
      BY <3>1, <3>6
    <3> QED BY <3>2, <3>3, <3>4, <3>5, <3>6, OnQueueDoes DEF TabInv
  <2> QED BY <2>1, <2>2
<1>2. Init => TabInv
  BY TabInvInit
<1> QED BY <1>1, <1>2, PTL DEF Spec, RequestsLeaveApproved

=============================================================================
