--------------------------- MODULE ApprovalProofs ---------------------------
(***************************************************************************)
(* A token of Approval pays for at most one call, for any number of        *)
(* processes, tokens, deaths and power losses, as long as no line of the   *)
(* replay store is cut short.                                              *)
(*                                                                         *)
(* The argument: a process between its look at the store and its append    *)
(* holds the lock (CallInLock, LockOwned), so the nonce it did not find is *)
(* still not there (FreshAtAppend); a process past its append has the only *)
(* line of its nonce, and nobody has been paid for it (InFlightRecorded,   *)
(* OneInFlight); and a nonce that has paid is on disk (UsesRecorded).      *)
(***************************************************************************)
EXTENDS Approval, TLAPS

Recorded == {"sync", "granted"}

LockOwned == \A p \in Procs : lpc[p] \in Lock!Owning => holder = p

LockFlagged == \A p \in Procs : lpc[p] \in {"body", "leaving", "unlocked"} => held[p]

CallInLock ==
    \A p \in Procs :
        /\ pc[p] = "idle" => lpc[p] = "out"
        /\ pc[p] = "load" => lpc[p] \in {"waiting", "locked", "body"}
        /\ pc[p] \in {"append", "sync"} => lpc[p] = "body"
        /\ pc[p] \in {"granted", "refused"} => lpc[p] \in {"body", "leaving", "unlocked", "out"}

CallIsCovered ==
    \A p \in Procs : pc[p] # "idle" => Promise!Covers(token[call[p].nonce], Request(call[p]))

StoreIsWhole ==
    /\ file.tail = Empty /\ disk.tail = Empty
    /\ disk.lines \subseteq file.lines

FreshAtAppend == \A p \in Procs : pc[p] = "append" => call[p].nonce \notin file.lines

InFlightRecorded ==
    \A p \in Procs :
        /\ pc[p] \in Recorded => call[p].nonce \in file.lines /\ uses[call[p].nonce] = <<>>
        /\ pc[p] = "granted" => call[p].nonce \in disk.lines

OneInFlight ==
    \A p, q \in Procs :
        pc[p] \in Recorded /\ pc[q] \in Recorded /\ call[p].nonce = call[q].nonce => p = q

UsesRecorded ==
    \A n \in Nonces : uses[n] # <<>> => Len(uses[n]) = 1 /\ n \in disk.lines

-----------------------------------------------------------------------------
(* The lock: whoever is between Flock and Unlock is its holder.            *)

LockPart == Lock!TypeOK /\ LockOwned /\ LockFlagged

LEMMA LockPartInit == Init => LockPart
  BY ApprovalAssumption
  DEF Init, LockPart, Lock!Init, Lock!TypeOK, Lock!LockPcs, LockOwned, LockFlagged, Lock!Owning

LEMMA LockPartNext ==
  ASSUME LockPart,
         \/ UNCHANGED lockVars
         \/ \E p \in Procs :
               Lock!Acquire(p) \/ Lock!AcquireStep(p) \/ Lock!ReleaseStep(p) \/ Lock!Die(p)
         \/ Lock!DieAll
  PROVE  LockPart'
<1> USE ApprovalAssumption
    DEF LockPart, Lock!TypeOK, Lock!LockPcs, LockOwned, LockFlagged, Lock!Owning, Lock!Move
<1>1. CASE UNCHANGED lockVars
  BY <1>1 DEF lockVars
<1>2. ASSUME NEW p \in Procs, Lock!Acquire(p) PROVE LockPart'
  BY <1>2 DEF Lock!Acquire
<1>3. ASSUME NEW p \in Procs, Lock!AcquireStep(p) PROVE LockPart'
  BY <1>3, ZenonT(60) DEF Lock!AcquireStep, Lock!Flock, Lock!MarkHeld, Lock!GiveUp
<1>4. ASSUME NEW p \in Procs, Lock!ReleaseStep(p) PROVE LockPart'
  BY <1>4, ZenonT(60) DEF Lock!ReleaseStep, Lock!BeginRelease, Lock!SkipRelease, Lock!Unlock, Lock!ClearHeld
<1>5. ASSUME NEW p \in Procs, Lock!Die(p) PROVE LockPart'
  BY <1>5 DEF Lock!Die
<1>6. CASE Lock!DieAll
  BY <1>6 DEF Lock!DieAll
<1> QED BY <1>1, <1>2, <1>3, <1>4, <1>5, <1>6

\* Every step of Approval is a step of its lock, or leaves the lock alone.
LEMMA LockSteps ==
  ASSUME [Next]_vars
  PROVE  \/ UNCHANGED lockVars
         \/ \E p \in Procs :
               Lock!Acquire(p) \/ Lock!AcquireStep(p) \/ Lock!ReleaseStep(p) \/ Lock!Die(p)
         \/ Lock!DieAll
  BY DEF vars, Next, Issue, Validate, Step, TakeLock, LockTimeout, LoadFresh, LoadUsed,
     AppendLine, AppendShort, StoreFails, Sync, SyncFails, LeaveLock, InLock, Return,
     Grant, Refuse, Crash, PowerLoss, Tick, Lock!AcquireStep
-----------------------------------------------------------------------------
(* The calls: where a process is in its call, and what it holds there.     *)

CallPart == CallTypeOK /\ CallInLock

LEMMA CallPartInit == Init => CallPart
  BY DEF Init, CallPart, CallTypeOK, CallInLock, Pcs, Lock!Init

LEMMA CallPartNext ==
  ASSUME LockPart, CallPart, TokenTypeOK, [Next]_vars
  PROVE  CallPart'
<1> USE ApprovalAssumption DEF LockPart, CallPart, CallTypeOK, CallInLock, Pcs, Lock!TypeOK
<1>1. CASE UNCHANGED vars
  BY <1>1 DEF vars, lockVars
<1>2. CASE \E n \in Nonces, w \in Workspaces, r \in Risks, a \in Actions \cup {Unbound},
            ttl \in TTLs : Issue(n, w, r, a, ttl)
  BY <1>2 DEF Issue, lockVars
<1>3. ASSUME NEW p \in Procs, NEW n \in Nonces, NEW r \in Risks, NEW a \in Actions,
             Validate(p, n, r, a)
      PROVE  CallPart'
  <2> DEFINE c == [nonce |-> n, ws |-> WorkspaceOf[p], risk |-> r, action |-> a, at |-> now]
  <2>1. c \in Calls
    BY DEF Calls, TokenTypeOK
  <2>2. /\ pc[p] = "idle" /\ pc' = [pc EXCEPT ![p] = "load"]
        /\ call' = [call EXCEPT ![p] = c]
        /\ lpc' = [lpc EXCEPT ![p] = "waiting"]
    BY <1>3 DEF Validate, Lock!Acquire, Lock!Move
  <2> QED BY <2>1, <2>2
<1>4. ASSUME NEW p \in Procs, TakeLock(p) \/ LockTimeout(p) \/ LeaveLock(p) PROVE CallPart'
  <2>1. CASE TakeLock(p)
    BY <2>1 DEF TakeLock, Lock!Move, Lock!Flock, Lock!MarkHeld
  <2>2. CASE LockTimeout(p)
    BY <2>2 DEF LockTimeout, Lock!Move, Lock!GiveUp
  <2>3. CASE LeaveLock(p)
    BY <2>3 DEF LeaveLock, Lock!Move, Lock!ReleaseStep, Lock!BeginRelease, Lock!SkipRelease,
       Lock!Unlock, Lock!ClearHeld
  <2> QED BY <1>4, <2>1, <2>2, <2>3
<1>5. ASSUME NEW p \in Procs,
             \/ LoadFresh(p) \/ LoadUsed(p) \/ StoreFails(p)
             \/ AppendLine(p) \/ AppendShort(p) \/ Sync(p) \/ SyncFails(p)
      PROVE  CallPart'
  BY <1>5 DEF LoadFresh, LoadUsed, StoreFails, AppendLine, AppendShort, Sync, SyncFails,
     InLock, Lock!InBody, lockVars
<1>6. ASSUME NEW p \in Procs, Grant(p) \/ Refuse(p) PROVE CallPart'
  BY <1>6 DEF Grant, Refuse, Return, lockVars
<1>7. ASSUME NEW p \in Procs, Crash(p) PROVE CallPart'
  BY <1>7 DEF Crash, Lock!Die
<1>8. CASE PowerLoss
  BY <1>8 DEF PowerLoss, Lock!DieAll
<1>9. CASE Tick
  BY <1>9 DEF Tick, lockVars
<1> QED
  BY <1>1, <1>2, <1>3, <1>4, <1>5, <1>6, <1>7, <1>8, <1>9 DEF Next, Step

-----------------------------------------------------------------------------
(* The store, the tokens and the histories keep their types.               *)

DataTypeOK == TokenTypeOK /\ StoreTypeOK /\ HistoryTypeOK

LEMMA StoreTypes ==
  ASSUME NEW s \in Stores, NEW n \in Nonces
  PROVE  Appended(s, n) \in Stores /\ CutShort(s, n) \subseteq Stores
  BY DEF Stores, Appended, CutShort

LEMMA RequestType ==
  ASSUME NEW c \in Calls
  PROVE  Request(c) \in Promise!Call
  BY ApprovalAssumption DEF Calls, Request, Promise!Call

LEMMA DataTypeInit == Init => DataTypeOK
  BY ApprovalAssumption
  DEF Init, DataTypeOK, TokenTypeOK, StoreTypeOK, HistoryTypeOK, Stores

LEMMA DataTypeNext ==
  ASSUME CallTypeOK, DataTypeOK, [Next]_vars
  PROVE  DataTypeOK'
<1> USE ApprovalAssumption DEF DataTypeOK, TokenTypeOK, StoreTypeOK, HistoryTypeOK
<1>1. CASE UNCHANGED vars
  BY <1>1 DEF vars
<1>2. ASSUME NEW n \in Nonces, NEW w \in Workspaces, NEW r \in Risks,
             NEW a \in Actions \cup {Unbound}, NEW ttl \in TTLs, Issue(n, w, r, a, ttl)
      PROVE  DataTypeOK'
  <2>1. [ws |-> w, risk |-> r, action |-> a, exp |-> now + ttl] \in Promise!Token
    BY DEF Promise!Token
  <2> QED BY <1>2, <2>1 DEF Issue
<1>3. ASSUME NEW p \in Procs, NEW n \in Nonces, NEW r \in Risks, NEW a \in Actions,
             Validate(p, n, r, a)
      PROVE  DataTypeOK'
  BY <1>3 DEF Validate
<1>4. ASSUME NEW p \in Procs,
             \/ TakeLock(p) \/ LockTimeout(p) \/ LeaveLock(p) \/ Refuse(p)
             \/ LoadFresh(p) \/ LoadUsed(p) \/ StoreFails(p)
      PROVE  DataTypeOK'
  BY <1>4 DEF TakeLock, LockTimeout, LeaveLock, Refuse, Return, LoadFresh, LoadUsed,
     StoreFails, InLock
<1>5. ASSUME NEW p \in Procs, AppendLine(p) \/ AppendShort(p) PROVE DataTypeOK'
  <2>1. call[p].nonce \in Nonces
    BY <1>5 DEF CallTypeOK, AppendLine, AppendShort, InLock, Calls
  <2>2. file' \in Stores
    BY <1>5, <2>1, StoreTypes DEF AppendLine, AppendShort
  <2> QED BY <1>5, <2>2 DEF AppendLine, AppendShort, InLock
<1>6. ASSUME NEW p \in Procs, Sync(p) \/ SyncFails(p) PROVE DataTypeOK'
  <2>1. call[p].nonce \in Nonces
    BY <1>6 DEF CallTypeOK, Sync, SyncFails, InLock, Calls
  <2> QED BY <1>6, <2>1 DEF Sync, SyncFails, InLock
<1>7. ASSUME NEW p \in Procs, Grant(p) PROVE DataTypeOK'
  <2>1. call[p] \in Calls /\ call[p].nonce \in Nonces
    BY <1>7 DEF CallTypeOK, Grant, Return, Calls
  <2>2. Append(uses[call[p].nonce], Request(call[p])) \in Seq(Promise!Call)
    BY <2>1, RequestType
  <2> QED BY <1>7, <2>1, <2>2 DEF Grant, Return
<1>8. ASSUME NEW p \in Procs, Crash(p) PROVE DataTypeOK'
  <2>1. pc[p] \in {"sync", "granted"} => call[p].nonce \in Nonces
    BY DEF CallTypeOK, Calls
  <2> QED BY <1>8, <2>1 DEF Crash
<1>9. CASE PowerLoss
  <2>1. file' \in Stores /\ disk' \in Stores
    BY <1>9 DEF PowerLoss, AfterPowerLoss
  <2>2. {call[p].nonce : p \in {q \in Procs : pc[q] \in {"sync", "granted"}}} \subseteq Nonces
    BY DEF CallTypeOK, Calls
  <2> QED BY <1>9, <2>1, <2>2 DEF PowerLoss
<1>10. CASE Tick
  BY <1>10 DEF Tick
<1> QED
  BY <1>1, <1>2, <1>3, <1>4, <1>5, <1>6, <1>7, <1>8, <1>9, <1>10 DEF Next, Step
-----------------------------------------------------------------------------
(* The store: a nonce that has paid, or is about to, is recorded, once.    *)

StorePart ==
    file.whole =>
        StoreIsWhole /\ FreshAtAppend /\ InFlightRecorded /\ OneInFlight /\ UsesRecorded

LEMMA StorePartInit == Init => StorePart
  BY DEF Init, StorePart, StoreIsWhole, FreshAtAppend, InFlightRecorded, OneInFlight,
     UsesRecorded, Recorded

LEMMA StorePartNext ==
  ASSUME LockPart, CallPart, DataTypeOK, StorePart, [Next]_vars
  PROVE  StorePart'
<1> SUFFICES ASSUME file'.whole PROVE StorePart'
  BY DEF StorePart
<1> USE ApprovalAssumption
    DEF StorePart, StoreIsWhole, FreshAtAppend, InFlightRecorded, OneInFlight, UsesRecorded,
        Recorded
<1>0. /\ pc \in [Procs -> Pcs]
      /\ call \in [Procs -> Calls \cup {NoCall}]
      /\ \A p \in Procs : pc[p] # "idle" => call[p].nonce \in Nonces
  BY DEF CallPart, CallTypeOK, Calls
<1>1. CASE UNCHANGED vars
  BY <1>1 DEF vars
<1>2. CASE \E n \in Nonces, w \in Workspaces, r \in Risks, a \in Actions \cup {Unbound},
            ttl \in TTLs : Issue(n, w, r, a, ttl)
  BY <1>2 DEF Issue
<1>3. ASSUME NEW p \in Procs, NEW n \in Nonces, NEW r \in Risks, NEW a \in Actions,
             Validate(p, n, r, a)
      PROVE  StorePart'
  BY <1>0, <1>3 DEF Validate
<1>4. ASSUME NEW p \in Procs,
             \/ TakeLock(p) \/ LockTimeout(p) \/ LeaveLock(p) \/ Refuse(p)
             \/ LoadUsed(p) \/ StoreFails(p)
      PROVE  StorePart'
  BY <1>0, <1>4 DEF TakeLock, LockTimeout, LeaveLock, Refuse, Return, LoadUsed, StoreFails,
     InLock
\* The nonce is not in the store: neither recorded before nor by a caller in flight.
<1>5. ASSUME NEW p \in Procs, LoadFresh(p) PROVE StorePart'
  BY <1>0, <1>5 DEF LoadFresh, InLock, Consumed
\* The appending process holds the lock, so no other one is about to append,
\* and whoever is in flight has another nonce: its own is in the store already.
<1>6. ASSUME NEW p \in Procs, AppendLine(p) PROVE StorePart'
  <2>1. \A q \in Procs : pc[q] = "append" => q = p
    BY <1>6 DEF AppendLine, InLock, Lock!InBody, LockPart, LockOwned, Lock!Owning, CallPart,
       CallInLock
  <2>2. file \in Stores /\ file' = Appended(file, call[p].nonce)
    BY <1>6 DEF AppendLine, DataTypeOK, StoreTypeOK
  <2>3. file.whole
    BY <2>2 DEF Stores, Appended
  <2>4. /\ file'.lines = file.lines \cup {call[p].nonce} /\ file'.tail = Empty
        /\ call[p].nonce \in Nonces /\ call[p].nonce \notin file.lines
        /\ pc[p] = "append" /\ pc' = [pc EXCEPT ![p] = "sync"]
        /\ UNCHANGED <<disk, call, uses>>
    BY <1>0, <1>6, <2>2, <2>3 DEF AppendLine, InLock, Appended, Stores
  <2>5. uses[call[p].nonce] = <<>>
    BY <2>4, <2>3
  <2> QED BY <1>0, <2>1, <2>4, <2>5, <2>3
<1>7. ASSUME NEW p \in Procs, AppendShort(p) PROVE StorePart'
  BY <1>7, ZenonT(60) DEF AppendShort, CutShort, DataTypeOK, StoreTypeOK, Stores
<1>8. ASSUME NEW p \in Procs, Sync(p) PROVE StorePart'
  BY <1>0, <1>8 DEF Sync, InLock
<1>9. ASSUME NEW p \in Procs, SyncFails(p) PROVE StorePart'
  BY <1>0, <1>9 DEF SyncFails, InLock
\* The first and only payment of this nonce.
<1>10. ASSUME NEW p \in Procs, Grant(p) PROVE StorePart'
  <2> DEFINE n == call[p].nonce
  <2>1. /\ pc[p] = "granted" /\ pc' = [pc EXCEPT ![p] = "idle"]
        /\ call' = [call EXCEPT ![p] = NoCall]
        /\ uses' = [uses EXCEPT ![n] = Append(uses[n], Request(call[p]))]
        /\ UNCHANGED <<file, disk>>
    BY <1>10 DEF Grant, Return
  <2>2. n \in Nonces /\ uses[n] = <<>> /\ n \in disk.lines
    BY <1>0, <2>1
  <2>3. Len(Append(uses[n], Request(call[p]))) = 1
    BY <2>2
  <2>4. uses \in [Nonces -> Seq(Promise!Call)]
    BY DEF DataTypeOK, HistoryTypeOK
  <2>5. UsesRecorded'
    BY <2>1, <2>2, <2>3, <2>4
  <2>6. \A q \in Procs \ {p} : pc[q] \in Recorded => call[q].nonce # n
    BY <2>1
  <2> QED BY <1>0, <2>1, <2>2, <2>4, <2>5, <2>6
<1>11. ASSUME NEW p \in Procs, Crash(p) PROVE StorePart'
  BY <1>0, <1>11 DEF Crash
<1>12. CASE PowerLoss
  BY <1>12 DEF PowerLoss, AfterPowerLoss
<1>13. CASE Tick
  BY <1>13 DEF Tick
<1> QED
  BY <1>1, <1>2, <1>3, <1>4, <1>5, <1>6, <1>7, <1>8, <1>9, <1>10, <1>11, <1>12, <1>13
  DEF Next, Step
-----------------------------------------------------------------------------
(* The tokens: the call of a busy process is covered by its token.         *)

LEMMA CallIsCoveredNext ==
  ASSUME CallPart, DataTypeOK, CallIsCovered, [Next]_vars
  PROVE  CallIsCovered'
<1> USE DEF CallIsCovered
<1>0. /\ pc \in [Procs -> Pcs]
      /\ call \in [Procs -> Calls \cup {NoCall}]
      /\ \A p \in Procs : pc[p] # "idle" => call[p].nonce \in Nonces
      /\ token \in [Nonces -> Promise!Token \cup {NoToken}]
  BY DEF CallPart, CallTypeOK, Calls, DataTypeOK, TokenTypeOK
<1>1. CASE UNCHANGED vars
  BY <1>1 DEF vars
\* A token that covers a call was issued, and no token is issued twice.
<1>2. ASSUME NEW n \in Nonces, NEW w \in Workspaces, NEW r \in Risks,
             NEW a \in Actions \cup {Unbound}, NEW ttl \in TTLs, Issue(n, w, r, a, ttl)
      PROVE  CallIsCovered'
  <2>1. ASSUME NEW p \in Procs, pc[p] # "idle" PROVE token'[call[p].nonce] = token[call[p].nonce]
    BY <1>0, <1>2, <2>1 DEF Issue, Promise!Covers
  <2> QED BY <1>0, <1>2, <2>1 DEF Issue
<1>3. ASSUME NEW p \in Procs, NEW n \in Nonces, NEW r \in Risks, NEW a \in Actions,
             Validate(p, n, r, a)
      PROVE  CallIsCovered'
  BY <1>0, <1>3 DEF Validate
<1>4. ASSUME NEW p \in Procs, TakeLock(p) \/ LockTimeout(p) \/ LeaveLock(p) PROVE CallIsCovered'
  <2>1. LockTimeout(p) => pc[p] # "idle"
    BY DEF LockTimeout, Lock!GiveUp, Lock!Move, CallPart, CallInLock
  <2> QED BY <1>0, <1>4, <2>1 DEF TakeLock, LockTimeout, LeaveLock
<1>5. ASSUME NEW p \in Procs,
             \/ LoadFresh(p) \/ LoadUsed(p) \/ StoreFails(p)
             \/ AppendLine(p) \/ AppendShort(p) \/ Sync(p) \/ SyncFails(p)
      PROVE  CallIsCovered'
  BY <1>0, <1>5 DEF LoadFresh, LoadUsed, StoreFails, AppendLine, AppendShort, Sync, SyncFails,
     InLock
<1>6. ASSUME NEW p \in Procs, Grant(p) \/ Refuse(p) \/ Crash(p) PROVE CallIsCovered'
  BY <1>0, <1>6 DEF Grant, Refuse, Return, Crash
<1>7. CASE PowerLoss \/ Tick
  BY <1>0, <1>7 DEF PowerLoss, Tick
<1> QED
  BY <1>1, <1>2, <1>3, <1>4, <1>5, <1>6, <1>7 DEF Next, Step

-----------------------------------------------------------------------------
(* The theorems.                                                           *)

TypedPart == LockPart /\ CallPart /\ DataTypeOK

IInv == TypedPart /\ CallIsCovered /\ StorePart

LEMMA TypedPartInvariant == Spec => []TypedPart
<1>1. Init => TypedPart
  BY LockPartInit, CallPartInit, DataTypeInit DEF TypedPart
<1>2. TypedPart /\ [Next]_vars => TypedPart'
  BY LockSteps, LockPartNext, CallPartNext, DataTypeNext DEF TypedPart, CallPart, DataTypeOK
<1> QED
  BY <1>1, <1>2, PTL DEF Spec

LEMMA IInvInit == Init => IInv
<1>1. Init => CallIsCovered
  BY DEF Init, CallIsCovered
<1> QED
  BY <1>1, LockPartInit, CallPartInit, DataTypeInit, StorePartInit DEF IInv, TypedPart

LEMMA IInvNext ==
  ASSUME IInv, [Next]_vars
  PROVE  IInv'
<1>1. LockPart'
  BY LockSteps, LockPartNext DEF IInv, TypedPart
<1>2. CallPart' /\ DataTypeOK'
  BY CallPartNext, DataTypeNext DEF IInv, TypedPart, CallPart, DataTypeOK
<1>3. CallIsCovered'
  BY CallIsCoveredNext DEF IInv, TypedPart
<1>4. StorePart'
  BY StorePartNext DEF IInv, TypedPart
<1> QED
  BY <1>1, <1>2, <1>3, <1>4 DEF IInv, TypedPart

\* Every variable keeps its type, whatever the writes do.
THEOREM TypeCorrect == Spec => []TypeOK
<1>1. TypedPart => TypeOK
  BY DEF TypedPart, LockPart, CallPart, DataTypeOK, TypeOK
<1> QED
  BY <1>1, TypedPartInvariant, PTL

\* One process at a time is in the body of _consume_nonce, whatever the writes
\* do: the lock of the store is a lock.
THEOREM ConsumersExclude == Spec => []Lock!MutualExclusion
<1>1. TypedPart => Lock!MutualExclusion
  BY DEF TypedPart, LockPart, LockOwned, Lock!MutualExclusion, Lock!InBody,
     Lock!Owning
<1> QED
  BY <1>1, TypedPartInvariant, PTL

\* A token pays for at most one call, as long as lines are written whole: for
\* any number of racing processes, across deaths, restarts and power losses.
THEOREM TokensAreSingleUse == Spec => []SingleUseUnlessCut
<1>1. IInv /\ [Next]_vars => IInv'
  BY IInvNext
<1>2. IInv => SingleUseUnlessCut
  <2>1. ASSUME IInv, file.whole, NEW n \in Nonces, uses[n] = <<>> PROVE Len(uses[n]) = 0
    BY <2>1
  <2>2. ASSUME IInv, file.whole, NEW n \in Nonces, uses[n] # <<>> PROVE Len(uses[n]) = 1
    BY <2>2 DEF IInv, StorePart, UsesRecorded
  <2>3. ASSUME IInv, file.whole, NEW n \in Nonces PROVE Len(uses[n]) <= 1
    <3>1. Len(uses[n]) = 0 \/ Len(uses[n]) = 1
      BY <2>1, <2>2, <2>3
    <3>2. CASE Len(uses[n]) = 0
      BY <3>2
    <3>3. CASE Len(uses[n]) = 1
      BY <3>3
    <3> QED BY <3>1, <3>2, <3>3
  <2> QED BY <2>3 DEF SingleUseUnlessCut, SingleUse
<1> QED
  BY IInvInit, <1>1, <1>2, PTL DEF Spec

\* A token that has paid is on disk, where no crash can forget it.
THEOREM GrantsAreDurable == Spec => []GrantIsDurable
<1>1. IInv /\ [Next]_vars => IInv'
  BY IInvNext
<1>2. IInv => GrantIsDurable
  BY DEF IInv, StorePart, UsesRecorded, GrantIsDurable
<1> QED
  BY IInvInit, <1>1, <1>2, PTL DEF Spec

\* A step of Approval is an issue, a use or nothing to who sees only the tokens.
LEMMA PromiseStep ==
  ASSUME IInv, [Next]_vars, file'.whole
  PROVE  [Promise!Next]_<<token, uses>>
<1> USE ApprovalAssumption
<1>0. /\ pc \in [Procs -> Pcs]
      /\ \A p \in Procs : pc[p] # "idle" => call[p] \in Calls /\ call[p].nonce \in Nonces
      /\ token \in [Nonces -> Promise!Token \cup {NoToken}]
      /\ now \in Nat
      /\ uses \in [Nonces -> Seq(Promise!Call)]
  BY DEF IInv, TypedPart, CallPart, CallTypeOK, Calls, DataTypeOK, TokenTypeOK, HistoryTypeOK
<1>1. CASE UNCHANGED vars
  BY <1>1 DEF vars
<1>2. ASSUME NEW n \in Nonces, NEW w \in Workspaces, NEW r \in Risks,
             NEW a \in Actions \cup {Unbound}, NEW ttl \in TTLs, Issue(n, w, r, a, ttl)
      PROVE  Promise!Next
  <2>1. [ws |-> w, risk |-> r, action |-> a, exp |-> now + ttl] \in Promise!Token
    BY <1>0 DEF Promise!Token
  <2>2. Promise!IssueOnce(n)
    BY <1>0, <1>2, <2>1 DEF Issue, Promise!IssueOnce
  <2> QED BY <2>2 DEF Promise!Next
<1>3. ASSUME NEW p \in Procs, NEW n \in Nonces, NEW r \in Risks, NEW a \in Actions,
             Validate(p, n, r, a)
      PROVE  UNCHANGED <<token, uses>>
  BY <1>3 DEF Validate
<1>4. ASSUME NEW p \in Procs, Step(p), ~ Grant(p) PROVE UNCHANGED <<token, uses>>
  BY <1>4 DEF Step, TakeLock, LockTimeout, LoadFresh, LoadUsed, StoreFails, AppendLine,
     AppendShort, Sync, SyncFails, LeaveLock, Refuse, Return, InLock
<1>5. ASSUME NEW p \in Procs, Grant(p) PROVE Promise!Next
  <2> DEFINE n == call[p].nonce
             c == Request(call[p])
  <2>1. /\ pc[p] = "granted"
        /\ uses' = [uses EXCEPT ![n] = Append(uses[n], c)]
        /\ UNCHANGED <<token, file>>
    BY <1>5 DEF Grant, Return
  <2>2. n \in Nonces /\ uses[n] = <<>>
    BY <1>0, <2>1 DEF IInv, StorePart, InFlightRecorded, Recorded
  <2>3. c \in Promise!Call
    BY <1>0, <2>1, RequestType
  <2>4. Promise!Covers(token[n], c)
    BY <2>1 DEF IInv, CallIsCovered
  <2>5. uses'[n] = <<c>>
    BY <1>0, <2>1, <2>2, <2>3
  <2>6. Len(uses'[n]) = 1 /\ uses'[n][1] = c
    BY <2>5
  <2>7. uses' = [uses EXCEPT ![n] = uses'[n]]
    BY <1>0, <2>1, <2>2
  <2>8. Promise!UseOnce(n)
    BY <2>1, <2>2, <2>3, <2>4, <2>6, <2>7 DEF Promise!UseOnce
  <2> QED BY <2>2, <2>8 DEF Promise!Next
<1>6. ASSUME NEW p \in Procs, Crash(p) PROVE UNCHANGED <<token, uses>>
  BY <1>6 DEF Crash
<1>7. CASE PowerLoss \/ Tick
  BY <1>7 DEF PowerLoss, Tick
<1> QED
  BY <1>1, <1>2, <1>3, <1>4, <1>5, <1>6, <1>7 DEF Next

\* The processes, the store and its lock implement the one-time token.
THEOREM ApprovalKeepsPromise == Spec => KeepsPromise
<1>1. Init => Promise!Init
  BY DEF Init, Promise!Init
<1>2. IInv /\ [Next]_vars => IInv'
  BY IInvNext
<1>3. IInv /\ [Next]_vars => [file'.whole => Promise!Next]_<<token, uses>>
  BY PromiseStep
<1> QED
  BY IInvInit, <1>1, <1>2, <1>3, PTL DEF Spec, KeepsPromise
-----------------------------------------------------------------------------
(* What the store says, whatever the writes do: behind every nonce that a  *)
(* reader finds in it, now or after a power loss, there is a call.         *)

Accounted(n) == uses[n] # <<>> \/ InFlight(n) \/ n \in burned

\* A power loss may bring back what followed the last newline at the last
\* fsync, so that has to be accounted for as well.
Traces == Consumed(file) \cup ({disk.tail} \cap Nonces)

TracesAccounted == \A n \in Traces : Accounted(n)

\* A nonce that is accounted for stays so: a call in flight is paid for, or
\* goes to burned with the process, and only a call before its append gives up.
LEMMA AccountsLast ==
  ASSUME TypedPart, [Next]_vars, NEW n \in Nonces, Accounted(n)
  PROVE  Accounted(n)'
<1> USE DEF Accounted, InFlight
<1>0. /\ pc \in [Procs -> Pcs]
      /\ call \in [Procs -> Calls \cup {NoCall}]
      /\ uses \in [Nonces -> Seq(Promise!Call)]
      /\ \A p \in Procs : pc[p] # "idle" => call[p] \in Calls /\ call[p].nonce \in Nonces
      /\ \A p \in Procs : Lock!GiveUp(p) => pc[p] = "load"
  BY DEF TypedPart, CallPart, CallTypeOK, CallInLock, Calls, DataTypeOK, HistoryTypeOK,
     Lock!GiveUp, Lock!Move, Pcs
<1>1. CASE UNCHANGED vars
  BY <1>1 DEF vars
<1>2. CASE \E m \in Nonces, w \in Workspaces, r \in Risks, a \in Actions \cup {Unbound},
            ttl \in TTLs : Issue(m, w, r, a, ttl)
  BY <1>2 DEF Issue
<1>3. ASSUME NEW p \in Procs, NEW m \in Nonces, NEW r \in Risks, NEW a \in Actions,
             Validate(p, m, r, a)
      PROVE  Accounted(n)'
  BY <1>0, <1>3 DEF Validate
<1>4. ASSUME NEW p \in Procs,
             \/ TakeLock(p) \/ LockTimeout(p) \/ LeaveLock(p) \/ Refuse(p)
             \/ LoadFresh(p) \/ LoadUsed(p) \/ StoreFails(p)
             \/ AppendLine(p) \/ AppendShort(p) \/ Sync(p)
      PROVE  Accounted(n)'
  BY <1>0, <1>4 DEF TakeLock, LockTimeout, LeaveLock, Refuse, Return, LoadFresh, LoadUsed,
     StoreFails, AppendLine, AppendShort, Sync, InLock
<1>5. ASSUME NEW p \in Procs, SyncFails(p) PROVE Accounted(n)'
  BY <1>0, <1>5 DEF SyncFails, InLock
<1>6. ASSUME NEW p \in Procs, Grant(p) PROVE Accounted(n)'
  <2> DEFINE c == Request(call[p])
  <2>1. /\ pc[p] = "granted" /\ pc' = [pc EXCEPT ![p] = "idle"]
        /\ call' = [call EXCEPT ![p] = NoCall]
        /\ uses' = [uses EXCEPT ![call[p].nonce] = Append(@, c)]
        /\ UNCHANGED burned
    BY <1>6 DEF Grant, Return
  <2>2. c \in Promise!Call /\ uses[n] \in Seq(Promise!Call)
    BY <1>0, <2>1, RequestType
  <2>3. Append(uses[n], c) # <<>>
    <3> HIDE DEF c
    <3> QED BY <2>2
  <2> HIDE DEF c
  <2>4. CASE n = call[p].nonce
    <3>1. uses'[n] = Append(uses[n], c)
      BY <1>0, <2>1, <2>4
    <3> QED BY <2>3, <3>1
  <2>5. CASE n # call[p].nonce
    BY <1>0, <2>1, <2>5
  <2> QED BY <2>4, <2>5
<1>7. ASSUME NEW p \in Procs, Crash(p) PROVE Accounted(n)'
  BY <1>0, <1>7 DEF Crash
<1>8. CASE PowerLoss \/ Tick
  BY <1>0, <1>8 DEF PowerLoss, Tick
<1> QED
  BY <1>1, <1>2, <1>3, <1>4, <1>5, <1>6, <1>7, <1>8 DEF Next, Step

\* Only an append brings a nonce into the store, and it is that of its call.
LEMMA TracesAreOfCalls ==
  ASSUME TypedPart, [Next]_vars, NEW n \in Traces', n \notin Traces
  PROVE  InFlight(n)'
<1> USE DEF Traces, Consumed
<1>0. /\ pc \in [Procs -> Pcs]
      /\ file \in Stores /\ disk \in Stores
  BY DEF TypedPart, CallPart, CallTypeOK, DataTypeOK, StoreTypeOK
<1>1. ASSUME NEW p \in Procs, AppendLine(p) \/ AppendShort(p) PROVE InFlight(n)'
  <2>1. /\ pc' = [pc EXCEPT ![p] = "sync"]
        /\ UNCHANGED <<call, disk>>
        /\ file' = Appended(file, call[p].nonce) \/ file' \in CutShort(file, call[p].nonce)
    BY <1>1 DEF AppendLine, AppendShort, InLock
  <2>2. n \in Consumed(file)'
    BY <2>1
  <2>3. /\ file'.lines \subseteq file.lines \cup {call[p].nonce}
        /\ file'.tail \in {Empty, Fragment, call[p].nonce}
    <3>1. CASE file' = Appended(file, call[p].nonce)
      BY <1>0, <3>1 DEF Appended, Stores
    <3>2. CASE file' \in CutShort(file, call[p].nonce)
      <4>1. PICK t \in {Fragment, call[p].nonce} :
               file' = [file EXCEPT !.tail = t, !.whole = FALSE]
        BY <3>2 DEF CutShort
      <4> QED BY <1>0, <4>1 DEF Stores
    <3> QED BY <2>1, <3>1, <3>2
  <2>4. n = call[p].nonce
    BY ApprovalAssumption, <2>1, <2>2, <2>3
  <2> QED BY <1>0, <2>1, <2>4 DEF InFlight
<1>2. CASE PowerLoss
  BY ApprovalAssumption, <1>2 DEF PowerLoss, AfterPowerLoss
<1>3. ASSUME NEW p \in Procs, Sync(p) PROVE FALSE
  BY <1>3 DEF Sync, InLock
<1>4. ASSUME UNCHANGED <<file, disk>> PROVE FALSE
  BY <1>4
<1> QED
  BY <1>1, <1>2, <1>3, <1>4
  DEF vars, Next, Issue, Validate, Step, TakeLock, LockTimeout, LeaveLock, Refuse, Grant,
      Return, LoadFresh, LoadUsed, StoreFails, SyncFails, InLock, Crash, Tick

\* No path spends a human's approval for nothing: what the store refuses as
\* used has paid for a call, is paying for one, or went with a process that
\* died or could not sync; also when lines are cut short.
THEOREM SpendingIsAccounted == Spec => []SpentIsAccounted
<1>1. Init => TracesAccounted
  BY ApprovalAssumption DEF Init, TracesAccounted, Traces, Consumed
<1>2. TypedPart /\ TracesAccounted /\ [Next]_vars => TracesAccounted'
  <2> SUFFICES ASSUME TypedPart, TracesAccounted, [Next]_vars, NEW n \in Traces'
               PROVE  Accounted(n)'
    BY DEF TracesAccounted
  <2>1. TypedPart'
    BY LockSteps, LockPartNext, CallPartNext, DataTypeNext DEF TypedPart, CallPart, DataTypeOK
  <2>2. n \in Nonces
    BY <2>1 DEF TypedPart, DataTypeOK, StoreTypeOK, Stores, Traces, Consumed
  <2>3. CASE n \in Traces
    BY <2>2, <2>3, AccountsLast DEF TracesAccounted
  <2>4. CASE n \notin Traces
    BY <2>4, TracesAreOfCalls DEF Accounted
  <2> QED BY <2>3, <2>4
<1>3. TracesAccounted => SpentIsAccounted
  BY DEF TracesAccounted, Traces, Accounted, SpentIsAccounted
<1> QED
  BY <1>1, <1>2, <1>3, TypedPartInvariant, PTL DEF Spec
=============================================================================
