------------------------------ MODULE Approval ------------------------------
(***************************************************************************)
(* ApprovalManager (src/gpthands/approval.py): action-bound tokens issued  *)
(* by the local user, and the replay store approval-used.jsonl in which    *)
(* the MCP server processes record, under a file lock, the nonces they     *)
(* have spent.                                                             *)
(*                                                                         *)
(* A process serves one call at a time. validate first looks at the token  *)
(* alone; _consume_nonce then takes the lock, reads the store, appends the *)
(* nonce, syncs, releases, and only then does validate return and the call *)
(* count as approved. Between any two of these steps the other processes   *)
(* run, time passes, the process may be killed, or the power may fail.     *)
(* The manager's _consumed cache is written and never read: it is not here.*)
(***************************************************************************)
EXTENDS Naturals, Sequences, FiniteSets

CONSTANTS
    Procs,          \* MCP server processes
    NoProc,         \* nobody holds the lock
    Nonces,         \* 128-bit random values: the next one is always fresh
    Workspaces, Risks, Actions,
    WorkspaceOf,    \* the workspace each process is bound to
    Unbound,        \* the "action" of a token issued without an action hash
    NoToken,        \* no token was issued under this nonce yet
    TTLs,           \* lifetimes the user may choose
    MaxTime,        \* bound on the clock
    MaxUses,        \* bound on the uses of a token after which it is left alone
    PartialWrites   \* TRUE: os.write may leave only part of the line in the file

Empty == "empty"            \* what may follow the last newline of the store:
Fragment == "fragment"      \* nothing, or part of a nonce

ASSUME ApprovalAssumption ==
    /\ NoProc \notin Procs
    /\ WorkspaceOf \in [Procs -> Workspaces]
    /\ Risks \subseteq Nat /\ TTLs \subseteq Nat \ {0} /\ MaxTime \in Nat
    /\ MaxUses \in Nat \ {0, 1}
    /\ Unbound \notin Actions
    /\ {Empty, Fragment} \cap Nonces = {}
    /\ PartialWrites \in BOOLEAN

VARIABLES
    now,                    \* int(time.time())
    token,                  \* the token issued under each nonce
    pc, call,               \* the call each process is serving
    file,                   \* approval-used.jsonl as a reader sees it
    disk,                   \* the part of it that is sure to survive a power loss
    holder, held, lpc,      \* the lock of the store: see FileLock
    uses,                   \* history: the calls each token has paid for
    burned                  \* history: nonces spent for a call that got no answer

Lock == INSTANCE FileLock WITH Threads <- Procs, Handles <- Procs,
                               HandleOf <- [p \in Procs |-> p], NoHandle <- NoProc

Promise == INSTANCE OneTimeToken

lockVars == <<holder, held, lpc>>
vars == <<now, token, pc, call, file, disk, lockVars, uses, burned>>

-----------------------------------------------------------------------------
(* The replay store: the nonces that have a line of their own, and what    *)
(* follows the last newline: nothing, part of a nonce, or a whole nonce    *)
(* whose newline is missing. "whole" is history: no line was ever cut      *)
(* short.                                                                  *)

Stores == [lines : SUBSET Nonces, tail : {Empty, Fragment} \cup Nonces, whole : BOOLEAN]

\* _load_consumed_unlocked: read_text().splitlines(), blank lines dropped. A
\* nonce without its newline still counts; a fragment equals no nonce.
Consumed(s) == s.lines \cup ({s.tail} \cap Nonces)

\* os.write(fd, nonce + "\n") in full: what followed the last newline becomes
\* the beginning of this line, which is then not the nonce of anybody.
Appended(s, n) ==
    [s EXCEPT !.lines = IF s.tail = Empty THEN @ \cup {n} ELSE @, !.tail = Empty]

\* What a short count from os.write leaves: some of the digits, or all of them
\* but not the newline.
CutShort(s, n) ==
    {[s EXCEPT !.tail = t, !.whole = FALSE] : t \in IF s.tail = Empty THEN {Fragment, n} ELSE {Fragment}}

\* What a power loss can leave: every line that was synced, and each line that
\* was not or its absence.
AfterPowerLoss ==
    {s \in Stores :
        /\ disk.lines \subseteq s.lines /\ s.lines \subseteq file.lines
        /\ s.tail \in {disk.tail, file.tail} \cup (IF PartialWrites THEN {Fragment} ELSE {})
        /\ s.whole = (file.whole /\ s.tail = Empty)}

-----------------------------------------------------------------------------
Pcs == {"idle", "load", "append", "sync", "granted", "refused"}

NoCall == [nonce |-> "none"]
Calls == [nonce : Nonces, ws : Workspaces, risk : Risks, action : Actions, at : 0..MaxTime]

\* The part of a call the token has to cover.
Request(c) == [ws |-> c.ws, risk |-> c.risk, action |-> c.action, at |-> c.at]

TokenTypeOK ==
    /\ now \in 0..MaxTime
    /\ token \in [Nonces -> Promise!Token \cup {NoToken}]

CallTypeOK ==
    /\ pc \in [Procs -> Pcs]
    /\ call \in [Procs -> Calls \cup {NoCall}]
    /\ \A p \in Procs : pc[p] # "idle" => call[p] \in Calls

StoreTypeOK == file \in Stores /\ disk \in Stores

HistoryTypeOK ==
    /\ uses \in [Nonces -> Seq(Promise!Call)]
    /\ burned \in SUBSET Nonces

TypeOK == TokenTypeOK /\ CallTypeOK /\ StoreTypeOK /\ Lock!TypeOK /\ HistoryTypeOK

Init ==
    /\ now = 0
    /\ token = [n \in Nonces |-> NoToken]
    /\ pc = [p \in Procs |-> "idle"]
    /\ call = [p \in Procs |-> NoCall]
    /\ file = [lines |-> {}, tail |-> Empty, whole |-> TRUE]
    /\ disk = file
    /\ Lock!Init
    /\ uses = [n \in Nonces |-> <<>>]
    /\ burned = {}

\* issue: the user's CLI or control UI signs a token for a fresh nonce.
Issue(n, w, r, a, ttl) ==
    /\ token[n] = NoToken
    /\ token' = [token EXCEPT ![n] = [ws |-> w, risk |-> r, action |-> a, exp |-> now + ttl]]
    /\ UNCHANGED <<now, pc, call, file, disk, lockVars, uses, burned>>

\* Mutant: the workspace of the token is not compared with the server's.
ValidateAnywhere(p, n, r, a) ==
    LET c == [nonce |-> n, ws |-> WorkspaceOf[p], risk |-> r, action |-> a, at |-> now]
    IN  /\ pc[p] = "idle"
        /\ \E w \in Workspaces : Promise!Covers(token[n], [Request(c) EXCEPT !.ws = w])
        /\ pc' = [pc EXCEPT ![p] = "load"]
        /\ call' = [call EXCEPT ![p] = c]
        /\ Lock!Acquire(p)
        /\ UNCHANGED <<now, token, file, disk, uses, burned>>

\* validate up to _consume_nonce: signature, workspace, expiry, risk and action
\* of the token, none of which needs the store. A token that fails one of them
\* is refused without a change. One that passes goes to the lock.
Validate(p, n, r, a) ==
    LET c == [nonce |-> n, ws |-> WorkspaceOf[p], risk |-> r, action |-> a, at |-> now]
    IN  /\ pc[p] = "idle"
        /\ Len(uses[n]) < MaxUses
        /\ Promise!Covers(token[n], Request(c))
        /\ pc' = [pc EXCEPT ![p] = "load"]
        /\ call' = [call EXCEPT ![p] = c]
        /\ Lock!Acquire(p)
        /\ UNCHANGED <<now, token, file, disk, uses, burned>>

\* The two steps of a successful acquire.
TakeLock(p) ==
    /\ Lock!Flock(p) \/ Lock!MarkHeld(p)
    /\ UNCHANGED <<now, token, pc, call, file, disk, uses, burned>>

\* LockError after five seconds becomes ApprovalError: refused, nothing spent.
LockTimeout(p) ==
    /\ Lock!GiveUp(p)
    /\ pc' = [pc EXCEPT ![p] = "refused"]
    /\ UNCHANGED <<now, token, call, file, disk, uses, burned>>

\* A step of the body of "with self._used_lock".
InLock(p, from, to) ==
    /\ pc[p] = from
    /\ Lock!InBody(p)
    /\ pc' = [pc EXCEPT ![p] = to]
    /\ UNCHANGED <<now, token, call, lockVars, uses>>

\* Mutant: the store is read before the lock is taken.
LoadUnlocked(p) ==
    /\ pc[p] = "load" /\ pc' = [pc EXCEPT ![p] = "append"]
    /\ call[p].nonce \notin Consumed(file)
    /\ UNCHANGED <<now, token, call, lockVars, uses, file, disk, burned>>

\* The nonce is in no line of the store.
LoadFresh(p) ==
    /\ InLock(p, "load", "append")
    /\ call[p].nonce \notin Consumed(file)
    /\ UNCHANGED <<file, disk, burned>>

\* "approval token was already used".
LoadUsed(p) ==
    /\ InLock(p, "load", "refused")
    /\ call[p].nonce \in Consumed(file)
    /\ UNCHANGED <<file, disk, burned>>

AppendLine(p) ==
    /\ InLock(p, "append", "sync")
    /\ file' = Appended(file, call[p].nonce)
    /\ UNCHANGED <<disk, burned>>

\* The count os.write returns is not looked at.
AppendShort(p) ==
    /\ PartialWrites
    /\ InLock(p, "append", "sync")
    /\ file' \in CutShort(file, call[p].nonce)
    /\ UNCHANGED <<disk, burned>>

\* Mutant: the failure comes after the line was written.
StoreFailsLate(p) ==
    /\ InLock(p, "load", "refused") \/ InLock(p, "append", "refused")
    /\ file' = Appended(file, call[p].nonce)
    /\ UNCHANGED <<disk, burned>>

\* The store cannot be read, opened or written: the call is refused.
StoreFails(p) ==
    /\ InLock(p, "load", "refused") \/ InLock(p, "append", "refused")
    /\ UNCHANGED <<file, disk, burned>>

\* Mutant: no fsync.
SyncForgotten(p) == InLock(p, "sync", "granted") /\ UNCHANGED <<file, disk, burned>>

Sync(p) ==
    /\ InLock(p, "sync", "granted")
    /\ disk' = file
    /\ UNCHANGED <<file, burned>>

\* fsync raises: the line is in the file and the call is refused all the same.
SyncFails(p) ==
    /\ InLock(p, "sync", "refused")
    /\ burned' = burned \cup {call[p].nonce}
    /\ UNCHANGED <<file, disk>>

\* __exit__ of the lock, whatever the outcome of the body.
LeaveLock(p) ==
    /\ pc[p] \in {"granted", "refused"}
    /\ Lock!ReleaseStep(p)
    /\ UNCHANGED <<now, token, pc, call, file, disk, uses, burned>>

Return(p, from) ==
    /\ pc[p] = from
    /\ lpc[p] = "out"
    /\ pc' = [pc EXCEPT ![p] = "idle"]
    /\ call' = [call EXCEPT ![p] = NoCall]
    /\ UNCHANGED <<now, token, file, disk, lockVars, burned>>

\* validate returns: the call goes ahead, paid for by this token.
Grant(p) ==
    /\ Return(p, "granted")
    /\ uses' = [uses EXCEPT ![call[p].nonce] = Append(@, Request(call[p]))]

Refuse(p) ==
    /\ Return(p, "refused")
    /\ UNCHANGED uses

\* A process is killed, and its client starts another one for the workspace.
Crash(p) ==
    /\ pc[p] # "idle"
    /\ pc' = [pc EXCEPT ![p] = "idle"]
    /\ call' = [call EXCEPT ![p] = NoCall]
    /\ burned' = IF pc[p] \in {"sync", "granted"} THEN burned \cup {call[p].nonce} ELSE burned
    /\ Lock!Die(p)
    /\ UNCHANGED <<now, token, file, disk, uses>>

\* The machine stops and restarts: every process is gone, and of the store
\* what was synced is left, and perhaps more.
PowerLoss ==
    /\ file' \in AfterPowerLoss
    /\ disk' = file'
    /\ pc' = [p \in Procs |-> "idle"]
    /\ call' = [p \in Procs |-> NoCall]
    /\ burned' = burned \cup {call[p].nonce : p \in {q \in Procs : pc[q] \in {"sync", "granted"}}}
    /\ Lock!DieAll
    /\ UNCHANGED <<now, token, uses>>

Tick ==
    /\ now < MaxTime
    /\ now' = now + 1
    /\ UNCHANGED <<token, pc, call, file, disk, lockVars, uses, burned>>

Step(p) ==
    \/ TakeLock(p) \/ LockTimeout(p)
    \/ LoadFresh(p) \/ LoadUsed(p) \/ StoreFails(p)
    \/ AppendLine(p) \/ AppendShort(p) \/ Sync(p) \/ SyncFails(p)
    \/ LeaveLock(p) \/ Grant(p) \/ Refuse(p)

Next ==
    \/ \E n \in Nonces, w \in Workspaces, r \in Risks, a \in Actions \cup {Unbound}, ttl \in TTLs :
          Issue(n, w, r, a, ttl)
    \/ \E p \in Procs, n \in Nonces, r \in Risks, a \in Actions : Validate(p, n, r, a)
    \/ \E p \in Procs : Step(p) \/ Crash(p)
    \/ PowerLoss
    \/ Tick

Spec == Init /\ [][Next]_vars

\* A process in the middle of a call keeps running: the operating system
\* schedules it, and no step of it waits for anything but the bounded lock.
FairSpec == Spec /\ \A p \in Procs : WF_vars(Step(p))
-----------------------------------------------------------------------------
\* A token pays for at most one call, however many processes present it, at
\* whatever moments, and whichever of them die: the compound of the check and
\* the append in _consume_nonce is atomic across processes and restarts.
SingleUse == \A n \in Nonces : Len(uses[n]) <= 1

\* It is so as long as no line of the store is cut short: a fragment records
\* nothing, and takes the next nonce with it.
SingleUseUnlessCut == file.whole => SingleUse

\* When validate has returned, the nonce is on disk: no restart, of a process
\* or of the machine, can make the token good again (fsync before the answer),
\* unless a line is cut short.
GrantIsDurable == file.whole => \A n \in Nonces : uses[n] # <<>> => n \in disk.lines

\* The nonce that pc[p] is past recording and whose call has no answer yet.
InFlight(n) == \E p \in Procs : pc[p] \in {"sync", "granted"} /\ call[p].nonce = n

\* A token the store refuses as used has really paid for a call, or is paying
\* for one now, or went with a process that died or could not sync: no other
\* path, and in particular no lock timeout, spends a human's approval.
SpentIsAccounted ==
    \A n \in Consumed(file) : uses[n] # <<>> \/ InFlight(n) \/ n \in burned

\* Seen from outside, all of this is the one-time token of OneTimeToken: bound
\* to its workspace, risk and action, alive when examined, used at most once. It
\* is no more than that only from the moment in which a line is cut short.
KeepsPromise == Promise!Init /\ [][file'.whole => Promise!Next]_<<token, uses>>

\* Every call that presents a good token gets its answer: the wait for the
\* lock is bounded, and nothing else waits.
CallReturns == \A p \in Procs : pc[p] # "idle" ~> pc[p] = "idle"
=============================================================================
