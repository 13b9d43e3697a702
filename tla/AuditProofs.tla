---------------------------- MODULE AuditProofs ----------------------------
(***************************************************************************)
(* The audit log and what clients were told, for any number of server      *)
(* processes, records, deaths and power losses. The log verifies as long   *)
(* as no line was cut short, if what earlier releases left is a log whose  *)
(* two digests agree; a damaged log is not written on; what the log says   *)
(* of a request is true, what a client was told is in it, and read as      *)
(* events it is the trail of AuditTrail.                                   *)
(*                                                                         *)
(* The argument: between its look at the end of the chain and its append a *)
(* process is in the body of the lock (CallInLock), so nobody else appends *)
(* and what it read is still the end (LinkIsEnd); the record it appends is *)
(* therefore the next of the chain; and a power loss leaves a first part   *)
(* of a chain, which is a chain. The end is also what shows it damage that *)
(* is there (DamagePart). And an event is written by the process that has  *)
(* its call (CallsMatch), so that every record in the log is one of a call *)
(* that has come that far (RecordsMatch), and every answer comes after the *)
(* sync of its record (AnswersMatch).                                      *)
(***************************************************************************)
EXTENDS AuditedCalls, SequenceTheorems, TLAPS

\* Earlier releases left no blank line beside a legacy one, and no line that
\* has no newline: otherwise the two anchors differ, and the log is rejected.
Clean == \A b \in Beginnings : ~ b.open /\ RecordAnchor(b) = VerifierAnchor(b)

\* The steps of AuditedCalls as the log sees them.
LogNext ==
    \/ \E p \in Procs :
          \/ Open(p) \/ OpenReturns(p) \/ LogStep(p) \/ Kill(p) \/ RecordAgain(p)
          \/ Return(p, "ok", "ready") \/ Return(p, "failed", "ready")
          \/ \E e \in Event : BeginRecord(p, e)
    \/ PowerLoss

LEMMA LogSteps == ASSUME [Next]_vars PROVE LogNext \/ UNCHANGED auditVars
<1>1. ASSUME NEW p \in Procs, NEW r \in Requests, Succeed(p, r) \/ Deny(p, r) PROVE LogNext
  <2>1. \A o \in Outcomes : [req |-> r, outcome |-> o] \in Event
    BY DEF Event
  <2> QED BY <1>1, <2>1 DEF Succeed, Deny, Ask, LogNext, Outcomes
<1>2. ASSUME NEW p \in Procs, CallStep(p) PROVE LogNext
  BY <1>2 DEF CallStep, OnLog, Started, AnswerResult, AnswerIsError, AnswerRpcError, Answer,
     LogNext
<1>3. ASSUME NEW p \in Procs, Start(p) \/ Crash(p) PROVE LogNext
  BY <1>3 DEF Start, Crash, LogNext
<1>4. CASE Blackout
  BY <1>4 DEF Blackout, LogNext
<1>5. CASE UNCHANGED vars
  BY <1>5 DEF vars
<1> QED BY <1>1, <1>2, <1>3, <1>4, <1>5 DEF Next

-----------------------------------------------------------------------------
(* The lock: whoever is between Flock and Unlock is its holder.            *)

LockOwned == \A p \in Procs : lpc[p] \in Lock!Owning => holder = p

LockFlagged == \A p \in Procs : lpc[p] \in {"body", "leaving", "unlocked"} => held[p]

LockPart == Lock!TypeOK /\ LockOwned /\ LockFlagged

LEMMA LockPartInit == Init => LockPart
  BY AuditAssumption
  DEF Init, AuditInit, LockPart, Lock!Init, Lock!TypeOK, Lock!LockPcs, LockOwned, LockFlagged,
      Lock!Owning

LEMMA LockPartNext == ASSUME LockPart, LogNext PROVE LockPart'
<1> USE AuditAssumption
    DEF LockPart, Lock!TypeOK, Lock!LockPcs, LockOwned, LockFlagged, Lock!Owning, Lock!Move
<1>1. CASE UNCHANGED lockVars
  BY <1>1 DEF lockVars
<1>2. ASSUME NEW p \in Procs, Lock!Acquire(p) PROVE LockPart'
  BY <1>2 DEF Lock!Acquire
<1>3. ASSUME NEW p \in Procs, Lock!AcquireStep(p) PROVE LockPart'
  BY <1>3, ZenonT(60) DEF Lock!AcquireStep, Lock!Flock, Lock!MarkHeld, Lock!GiveUp
<1>4. ASSUME NEW p \in Procs, Lock!ReleaseStep(p) PROVE LockPart'
  BY <1>4, ZenonT(60) DEF Lock!ReleaseStep, Lock!BeginRelease, Lock!SkipRelease, Lock!Unlock, Lock!ClearHeld
<1>5. ASSUME NEW p \in Procs, Lock!Die(p) PROVE LockPart'
  BY <1>5 DEF Lock!Die
<1>6. CASE Lock!DieAll
  BY <1>6 DEF Lock!DieAll
<1>7. \/ UNCHANGED lockVars
      \/ \E p \in Procs :
            Lock!Acquire(p) \/ Lock!AcquireStep(p) \/ Lock!ReleaseStep(p) \/ Lock!Die(p)
      \/ Lock!DieAll
  BY DEF LogNext, Open, OpenReturns, BeginRecord, RecordAgain, Return, LogStep, TakeLock,
     LockTimeout, OpenVerified, OpenRejected, ReadEnd, ReadEndFails, WriteRecord, WriteShort,
     WriteFails, Sync, SyncFails, LeaveLock, InLock, Kill, PowerLoss, Lock!AcquireStep
<1> QED BY <1>1, <1>2, <1>3, <1>4, <1>5, <1>6, <1>7

-----------------------------------------------------------------------------
(* Where a process is in its operation, and what it holds there.           *)

CallInLock ==
    \A p \in Procs :
        /\ apc[p] \in {"closed", "ready"} => lpc[p] = "out"
        /\ apc[p] \in {"verify", "chain"} => lpc[p] \in {"waiting", "locked", "body"}
        /\ apc[p] \in {"write", "sync"} => lpc[p] = "body"
        /\ apc[p] \in {"opened", "rejected", "ok", "failed"}
              => lpc[p] \in {"body", "leaving", "unlocked", "out"}

Serving == {"chain", "write", "sync", "ok", "failed"}

CallPart ==
    /\ apc \in [Procs -> Pcs]
    /\ DOMAIN event = Procs
    /\ \A p \in Procs : apc[p] \in Serving => event[p] \in Event
    /\ CallInLock

LEMMA CallPartInit == Init => CallPart
  BY DEF Init, AuditInit, CallPart, CallInLock, Pcs, Serving, Lock!Init

LEMMA CallPartNext == ASSUME LockPart, CallPart, LogNext PROVE CallPart'
<1> USE AuditAssumption DEF LockPart, CallPart, CallInLock, Pcs, Serving, Lock!TypeOK, Goto
<1>1. ASSUME NEW p \in Procs, Open(p) PROVE CallPart'
  BY <1>1 DEF Open, Lock!Acquire, Lock!Move
<1>2. ASSUME NEW p \in Procs, OpenReturns(p) PROVE CallPart'
  BY <1>2 DEF OpenReturns, Return, lockVars
<1>3. ASSUME NEW p \in Procs, NEW e \in Event, BeginRecord(p, e) PROVE CallPart'
  BY <1>3 DEF BeginRecord, Lock!Acquire, Lock!Move
<1>4. ASSUME NEW p \in Procs, RecordAgain(p) PROVE CallPart'
  <2>1. event'[p] \in Event
    BY <1>4 DEF RecordAgain, Event, Outcomes
  <2> QED BY <1>4, <2>1 DEF RecordAgain, Lock!Acquire, Lock!Move
<1>5. ASSUME NEW p \in Procs, Return(p, "ok", "ready") \/ Return(p, "failed", "ready")
      PROVE  CallPart'
  BY <1>5 DEF Return, lockVars
<1>6. ASSUME NEW p \in Procs, TakeLock(p) PROVE CallPart'
  BY <1>6 DEF TakeLock, Lock!Move, Lock!Flock, Lock!MarkHeld
<1>7. ASSUME NEW p \in Procs, LockTimeout(p) PROVE CallPart'
  BY <1>7 DEF LockTimeout, Lock!Move, Lock!GiveUp
<1>8. ASSUME NEW p \in Procs, LeaveLock(p) PROVE CallPart'
  BY <1>8 DEF LeaveLock, Lock!Move, Lock!ReleaseStep, Lock!BeginRelease, Lock!SkipRelease,
     Lock!Unlock, Lock!ClearHeld
<1>9. ASSUME NEW p \in Procs,
             \/ OpenVerified(p) \/ OpenRejected(p) \/ ReadEnd(p) \/ ReadEndFails(p)
             \/ WriteRecord(p) \/ WriteShort(p) \/ WriteFails(p) \/ Sync(p) \/ SyncFails(p)
      PROVE  CallPart'
  BY <1>9 DEF OpenVerified, OpenRejected, ReadEnd, ReadEndFails, WriteRecord, WriteShort,
     WriteFails, Sync, SyncFails, InLock, Lock!InBody, lockVars
<1>10. ASSUME NEW p \in Procs, Kill(p) PROVE CallPart'
  BY <1>10 DEF Kill, Lock!Die
<1>11. CASE PowerLoss
  BY <1>11 DEF PowerLoss, Lock!DieAll
<1> QED
  BY <1>1, <1>2, <1>3, <1>4, <1>5, <1>6, <1>7, <1>8, <1>9, <1>10, <1>11 DEF LogNext, LogStep

-----------------------------------------------------------------------------
(* The types of the log.                                                   *)

DataPart ==
    /\ pre \in Beginnings
    /\ file \in Files /\ disk \in Files
    /\ made \in 0..MaxRecords
    /\ torn \in BOOLEAN
    /\ DOMAIN link = Procs
    /\ \A p \in Procs : apc[p] = "write" => link[p] \in Links

\* A mark is not a record: it has other fields.
LEMMA MarksAreNoRecords ==
  ASSUME NEW r \in Record
  PROVE  r \notin {Empty, Fragment, Unterminated, Garbage}
<1>1. "seq" \in DOMAIN r
  BY DEF Record
<1>2. "seq" \notin DOMAIN Empty /\ "seq" \notin DOMAIN Fragment
      /\ "seq" \notin DOMAIN Unterminated /\ "seq" \notin DOMAIN Garbage
  BY DEF Empty, Fragment, Unterminated, Garbage
<1> QED BY <1>1, <1>2

LEMMA LinesTyped ==
  ASSUME NEW f \in Files
  PROVE  Lines(f) \in Seq(Record \cup {Garbage, Fragment})
<1>1. f.recs \in Seq(Record \cup {Garbage, Fragment})
  BY DEF Files
<1>2. f.tail \notin {Empty, Unterminated} => f.tail \in Record \cup {Garbage, Fragment}
  BY DEF Files
<1> QED BY <1>1, <1>2 DEF Lines

\* What record reads of the end of a log that parses is a number and a digest.
LEMMA EndTyped ==
  ASSUME NEW b \in Beginnings, NEW f \in Files, EndParses(f)
  PROVE  EndOfChain(b, Lines(f)) \in Links
<1> DEFINE lines == Lines(f)
<1>1. lines \in Seq(Record \cup {Garbage, Fragment})
  BY LinesTyped
<1>2. b.lines \in Seq({"legacy", "blank"})
  BY AuditAssumption DEF Beginning
<1>3. CASE lines = <<>>
  BY <1>2, <1>3 DEF EndOfChain, Links, RecordAnchor, OfBytes, Genesis, Digest
<1>4. CASE lines # <<>>
  <2>1. Len(lines) \in 1..Len(lines)
    BY <1>1, <1>4
  <2>2. lines[Len(lines)] \in Record
    BY <1>1, <1>4, <2>1 DEF EndParses
  <2>3. OfRecord(lines[Len(lines)]) \in Digest
    BY <2>2 DEF OfRecord, Digest, Record
  <2>4. lines[Len(lines)].seq + 1 \in Nat
    BY <2>2 DEF Record
  <2> QED BY <1>4, <2>3, <2>4 DEF EndOfChain, Links
<1> QED BY <1>3, <1>4

LEMMA WrittenTyped ==
  ASSUME NEW f \in Files, NEW r \in Record
  PROVE  Appended(f, r) \in Files /\ CutShort(f, r) \subseteq Files
  BY DEF Files, Appended, CutShort

LEMMA SurvivorsTyped ==
  ASSUME file \in Files, disk \in Files
  PROVE  AfterPowerLoss \subseteq Files
<1>1. ASSUME NEW n \in Len(disk.recs)..Len(file.recs)
      PROVE  SubSeq(file.recs, 1, n) \in Seq(Record \cup {Garbage})
  BY <1>1, SubSeqProperties DEF Files
<1> QED BY <1>1 DEF AfterPowerLoss, Files

LEMMA NewRecordTyped ==
  ASSUME CallPart, DataPart, NEW p \in Procs, apc[p] = "write"
  PROVE  NewRecord(p) \in Record
  BY DEF CallPart, DataPart, Serving, NewRecord, Record, Links

LEMMA DataPartInit == Init => DataPart
<1> SUFFICES ASSUME Init PROVE DataPart
  OBVIOUS
<1>1. [recs |-> <<>>, tail |-> Empty] \in Files /\ [recs |-> <<>>, tail |-> Unterminated] \in Files
  BY DEF Files
<1>2. file \in Files
  BY <1>1 DEF Init, AuditInit
<1>3. DOMAIN link = Procs /\ \A p \in Procs : apc[p] = "closed"
  BY DEF Init, AuditInit
<1>4. pre \in Beginnings /\ disk \in Files /\ torn \in BOOLEAN
  BY <1>2 DEF Init, AuditInit
<1>5. made \in 0..MaxRecords
  BY AuditAssumption DEF Init, AuditInit
<1> QED BY <1>2, <1>3, <1>4, <1>5 DEF DataPart

LEMMA DataPartNext == ASSUME CallPart, DataPart, LogNext PROVE DataPart'
<1> USE AuditAssumption DEF DataPart, Goto
<1>0. apc \in [Procs -> Pcs]
  BY DEF CallPart
<1>1. ASSUME NEW p \in Procs, Open(p) PROVE DataPart'
  BY <1>0, <1>1 DEF Open
<1>2. ASSUME NEW p \in Procs,
             OpenReturns(p) \/ Return(p, "ok", "ready") \/ Return(p, "failed", "ready")
      PROVE  DataPart'
  BY <1>0, <1>2 DEF OpenReturns, Return
<1>3. ASSUME NEW p \in Procs, NEW e \in Event, BeginRecord(p, e) PROVE DataPart'
  BY <1>0, <1>3 DEF BeginRecord
<1>4. ASSUME NEW p \in Procs, RecordAgain(p) PROVE DataPart'
  BY <1>0, <1>4 DEF RecordAgain
<1>5. ASSUME NEW p \in Procs, TakeLock(p) \/ LockTimeout(p) \/ LeaveLock(p) PROVE DataPart'
  BY <1>0, <1>5 DEF TakeLock, LockTimeout, LeaveLock
<1>6. ASSUME NEW p \in Procs,
             \/ OpenVerified(p) \/ OpenRejected(p) \/ ReadEndFails(p)
             \/ WriteFails(p) \/ Sync(p) \/ SyncFails(p)
      PROVE  DataPart'
  BY <1>0, <1>6 DEF OpenVerified, OpenRejected, ReadEndFails, WriteFails, Sync, SyncFails, InLock
<1>7. ASSUME NEW p \in Procs, ReadEnd(p) PROVE DataPart'
  <2>1. EndOfChain(pre, Lines(file)) \in Links
    BY <1>7, EndTyped DEF ReadEnd
  <2> QED BY <1>0, <1>7, <2>1 DEF ReadEnd, InLock
<1>8. ASSUME NEW p \in Procs, WriteRecord(p) \/ WriteShort(p) PROVE DataPart'
  <2>1. apc[p] = "write"
    BY <1>8 DEF WriteRecord, WriteShort, InLock
  <2>2. NewRecord(p) \in Record
    BY <2>1, NewRecordTyped
  <2>3. Appended(file, NewRecord(p)) \in Files /\ CutShort(file, NewRecord(p)) \subseteq Files
    BY <2>2, WrittenTyped
  <2>4. file' \in Files
    BY <1>8, <2>3 DEF WriteRecord, WriteShort
  <2>5. made' \in 0..MaxRecords
    BY <1>8 DEF WriteRecord, WriteShort
  <2> QED BY <1>0, <1>8, <2>4, <2>5 DEF WriteRecord, WriteShort, InLock
<1>9. ASSUME NEW p \in Procs, Kill(p) PROVE DataPart'
  BY <1>0, <1>9 DEF Kill
<1>10. CASE PowerLoss
  <2>1. file' \in Files
    BY <1>10, SurvivorsTyped DEF PowerLoss
  <2>2. torn' \in BOOLEAN
    BY <1>10 DEF PowerLoss
  <2> QED BY <1>0, <1>10, <2>1, <2>2 DEF PowerLoss
<1> QED
  BY <1>1, <1>2, <1>3, <1>4, <1>5, <1>6, <1>7, <1>8, <1>9, <1>10 DEF LogNext, LogStep

TypedPart == LockPart /\ CallPart /\ DataPart

LEMMA TypedPartInvariant == Spec => []TypedPart
<1>1. Init => TypedPart
  BY LockPartInit, CallPartInit, DataPartInit DEF TypedPart
<1>2. TypedPart /\ [Next]_vars => TypedPart'
  <2> SUFFICES ASSUME TypedPart, [Next]_vars PROVE TypedPart'
    OBVIOUS
  <2>1. CASE LogNext
    BY <2>1, LockPartNext, CallPartNext, DataPartNext DEF TypedPart
  <2>2. CASE UNCHANGED auditVars
    BY <2>2 DEF auditVars, lockVars, TypedPart, LockPart, LockOwned, LockFlagged, CallPart,
       CallInLock, DataPart, Lock!TypeOK
  <2> QED BY <2>1, <2>2, LogSteps
<1> QED BY <1>1, <1>2, PTL DEF Spec

CallsPart ==
    /\ phase \in [Procs -> Phases]
    /\ done \subseteq asked /\ asked \subseteq Requests
    /\ told \subseteq Requests \X Answers

LEMMA CallsPartNext == ASSUME CallPart, CallsPart, [Next]_vars PROVE CallsPart'
<1> USE DEF CallsPart, Phases
<1>1. ASSUME NEW p \in Procs, NEW r \in Requests, Succeed(p, r) \/ Deny(p, r) PROVE CallsPart'
  BY <1>1 DEF Succeed, Deny, Ask
<1>2. ASSUME NEW p \in Procs, Start(p) \/ OnLog(p) PROVE CallsPart'
  BY <1>2 DEF Start, OnLog, callVars
<1>3. ASSUME NEW p \in Procs, Started(p) \/ RecordAgain(p) \/ Crash(p) PROVE CallsPart'
  BY <1>3 DEF Started, RecordAgain, Crash
<1>4. ASSUME NEW p \in Procs, AnswerResult(p) \/ AnswerIsError(p) \/ AnswerRpcError(p)
      PROVE  CallsPart'
  <2>1. apc[p] \in {"ok", "failed"}
    BY <1>4 DEF AnswerResult, AnswerIsError, AnswerRpcError, Answer, Return, Goto
  <2>2. event[p].req \in Requests
    BY <2>1 DEF CallPart, Serving, Event
  <2>3. \A a \in Answers : <<event[p].req, a>> \in Requests \X Answers
    BY <2>2
  <2>4. told' \subseteq Requests \X Answers
    BY <1>4, <2>3 DEF AnswerResult, AnswerIsError, AnswerRpcError, Answer, Answers
  <2> QED BY <1>4, <2>4 DEF AnswerResult, AnswerIsError, AnswerRpcError, Answer
<1>5. CASE Blackout
  BY <1>5 DEF Blackout
<1>6. CASE UNCHANGED vars
  BY <1>6 DEF vars, callVars
<1> QED BY <1>1, <1>2, <1>3, <1>4, <1>5, <1>6 DEF Next, CallStep

\* The log and the calls keep their types, whatever is written: in particular
\* what record reads of the end of a file that parses is a number and a digest.
THEOREM CallsTypeCorrect == Spec => []TypeOK
<1>1. Init => CallsPart
  BY DEF Init, CallsPart, Phases
<1>2. TypedPart /\ CallsPart /\ [Next]_vars => CallsPart'
  BY CallsPartNext DEF TypedPart
<1>3. TypedPart /\ CallsPart => TypeOK
  BY DEF TypedPart, LockPart, CallPart, DataPart, AuditTypeOK, Serving, CallsPart, TypeOK
<1> QED BY <1>1, <1>2, <1>3, TypedPartInvariant, PTL DEF Spec

-----------------------------------------------------------------------------
(* The chain.                                                              *)

\* What holds of the log as long as no line was cut short.
Chained ==
    /\ file.tail = Empty /\ disk.tail = Empty
    /\ Len(disk.recs) <= Len(file.recs)
    /\ ChainFrom(VerifierAnchor(pre), file.recs)
    /\ \A p \in Procs : apc[p] = "write" => link[p] = EndOfChain(pre, file.recs)

ChainPart == ~ torn => Chained

\* Two processes are never both between their look and their append.
LEMMA OneWriter ==
  ASSUME LockPart, CallPart, NEW p \in Procs, NEW q \in Procs, p # q,
         lpc[p] = "body", apc[q] = "write"
  PROVE  FALSE
BY DEF LockPart, LockOwned, CallPart, CallInLock, Lock!Owning

\* The record made from the end of a chain continues it.
LEMMA ChainGrows ==
  ASSUME NEW b \in Beginnings, RecordAnchor(b) = VerifierAnchor(b),
         NEW s \in Seq(Record \cup {Garbage}), ChainFrom(VerifierAnchor(b), s),
         NEW r \in Record, r.seq = EndOfChain(b, s).seq, r.prev = EndOfChain(b, s).prev
  PROVE  ChainFrom(VerifierAnchor(b), Append(s, r))
<1> DEFINE t == Append(s, r)
<1>1. Len(t) = Len(s) + 1 /\ t[Len(s) + 1] = r /\ \A i \in 1..Len(s) : t[i] = s[i]
  BY AppendProperties
<1>2. Len(s) \in Nat
  OBVIOUS
<1>3. r \notin {Garbage, Fragment}
  BY MarksAreNoRecords
<1>4. r.seq = Len(s) + 1
        /\ r.prev = IF Len(s) + 1 = 1 THEN VerifierAnchor(b) ELSE OfRecord(s[Len(s)])
  <2>1. CASE s = <<>>
    BY <2>1 DEF EndOfChain
  <2>2. CASE s # <<>>
    <3>1. Len(s) \in 1..Len(s)
      BY <2>2
    <3>2. s[Len(s)].seq = Len(s)
      BY <3>1 DEF ChainFrom
    <3> QED BY <2>2, <3>1, <3>2 DEF EndOfChain
  <2> QED BY <2>1, <2>2
<1>5. ASSUME NEW i \in 1..Len(t)
      PROVE  /\ t[i] \notin {Garbage, Fragment}
             /\ t[i].seq = i
             /\ t[i].prev = IF i = 1 THEN VerifierAnchor(b) ELSE OfRecord(t[i - 1])
  <2>1. CASE i = Len(s) + 1
    BY <1>1, <1>2, <1>3, <1>4, <2>1
  <2>2. CASE i # Len(s) + 1
    <3>1. i \in 1..Len(s) /\ (i # 1 => i - 1 \in 1..Len(s))
      BY <1>1, <1>2, <2>2
    <3> QED BY <1>1, <3>1 DEF ChainFrom
  <2> QED BY <2>1, <2>2
<1> HIDE DEF t
<1>6. ChainFrom(VerifierAnchor(b), t)
  BY <1>5 DEF ChainFrom
<1> QED BY <1>6 DEF t

\* A first part of a chain is a chain.
LEMMA ChainShrinks ==
  ASSUME NEW a, NEW s \in Seq(Record \cup {Garbage}), ChainFrom(a, s), NEW n \in 0..Len(s)
  PROVE  Len(SubSeq(s, 1, n)) = n /\ ChainFrom(a, SubSeq(s, 1, n))
<1> DEFINE t == SubSeq(s, 1, n)
<1>1. Len(t) = n /\ \A i \in 1..n : t[i] = s[i]
  BY SubSeqProperties
<1>2. ASSUME NEW i \in 1..n
      PROVE  /\ t[i] \notin {Garbage, Fragment}
             /\ t[i].seq = i
             /\ t[i].prev = IF i = 1 THEN a ELSE OfRecord(t[i - 1])
  <2>1. i \in 1..Len(s) /\ (i # 1 => i - 1 \in 1..n)
    OBVIOUS
  <2> QED BY <1>1, <2>1 DEF ChainFrom
<1> HIDE DEF t
<1>3. Len(t) = n /\ ChainFrom(a, t)
  BY <1>1, <1>2 DEF ChainFrom
<1> QED BY <1>3 DEF t

LEMMA ChainPartInit == Clean => (Init => ChainPart)
<1> SUFFICES ASSUME Clean, Init PROVE Chained
  BY DEF ChainPart
<1>1. pre \in Beginnings /\ file = [recs |-> <<>>, tail |-> Empty] /\ disk = file
  BY DEF Init, AuditInit, Clean
<1>2. \A p \in Procs : apc[p] = "closed"
  BY DEF Init, AuditInit
<1> QED BY <1>1, <1>2 DEF Chained, ChainFrom

LEMMA ChainPartNext ==
  ASSUME Clean, TypedPart, ChainPart, LogNext
  PROVE  ChainPart'
<1> SUFFICES ASSUME ~ torn' PROVE Chained'
  BY DEF ChainPart
<1>0. /\ pre \in Beginnings /\ file \in Files /\ disk \in Files
      /\ apc \in [Procs -> Pcs] /\ DOMAIN link = Procs
      /\ LockPart /\ CallPart /\ DataPart
  BY DEF TypedPart, CallPart, DataPart
<1>1. file.recs \in Seq(Record \cup {Garbage}) /\ disk.recs \in Seq(Record \cup {Garbage})
  BY <1>0 DEF Files
<1>2. torn' = torn \/ PowerLoss \/ \E p \in Procs : WriteShort(p)
  BY DEF LogNext, Open, OpenReturns, BeginRecord, RecordAgain, Return, LogStep, TakeLock,
     LockTimeout, OpenVerified, OpenRejected, ReadEnd, ReadEndFails, WriteRecord, WriteFails,
     Sync, SyncFails, LeaveLock, InLock, Kill
<1>3. ~ torn
  BY <1>2 DEF PowerLoss, WriteShort
<1>4. Chained
  BY <1>3 DEF ChainPart
<1>5. ASSUME UNCHANGED <<pre, file, disk>>,
             \A p \in Procs : apc'[p] = "write" => apc[p] = "write" /\ link'[p] = link[p]
      PROVE  Chained'
  BY <1>4, <1>5 DEF Chained
<1>6. ASSUME NEW p \in Procs,
             \/ Open(p) \/ OpenReturns(p) \/ Return(p, "ok", "ready")
             \/ Return(p, "failed", "ready") \/ RecordAgain(p) \/ Kill(p)
             \/ \E e \in Event : BeginRecord(p, e)
      PROVE  Chained'
  <2>1. UNCHANGED <<pre, file, disk>>
    BY <1>6 DEF Open, OpenReturns, Return, RecordAgain, Kill, BeginRecord
  <2>2. \A q \in Procs : apc'[q] = "write" => apc[q] = "write" /\ link'[q] = link[q]
    BY <1>0, <1>6 DEF Open, OpenReturns, Return, RecordAgain, Kill, BeginRecord, Goto
  <2> QED BY <1>5, <2>1, <2>2
<1>7. ASSUME NEW p \in Procs,
             \/ TakeLock(p) \/ LockTimeout(p) \/ LeaveLock(p) \/ OpenVerified(p)
             \/ OpenRejected(p) \/ ReadEndFails(p) \/ WriteFails(p) \/ SyncFails(p)
      PROVE  Chained'
  <2>1. UNCHANGED <<pre, file, disk>>
    BY <1>7 DEF TakeLock, LockTimeout, LeaveLock, OpenVerified, OpenRejected, ReadEndFails,
       WriteFails, SyncFails, InLock
  <2>2. \A q \in Procs : apc'[q] = "write" => apc[q] = "write" /\ link'[q] = link[q]
    BY <1>0, <1>7 DEF TakeLock, LockTimeout, LeaveLock, OpenVerified, OpenRejected, ReadEndFails,
       WriteFails, SyncFails, InLock, Goto
  <2> QED BY <1>5, <2>1, <2>2
<1>8. ASSUME NEW p \in Procs, ReadEnd(p) PROVE Chained'
  <2>1. Lines(file) = file.recs
    BY <1>4 DEF Chained, Lines
  <2> QED BY <1>0, <1>4, <1>8, <2>1 DEF ReadEnd, InLock, Goto, Chained
<1>9. ASSUME NEW p \in Procs, Sync(p) PROVE Chained'
  <2>1. \A q \in Procs : apc'[q] = "write" => apc[q] = "write"
    BY <1>0, <1>9 DEF Sync, InLock, Goto
  <2>2. Len(file.recs) <= Len(file.recs)
    BY <1>1
  <2> QED BY <1>4, <1>9, <2>1, <2>2 DEF Sync, InLock, Chained
<1>10. ASSUME NEW p \in Procs, WriteRecord(p) PROVE Chained'
  <2> DEFINE r == NewRecord(p)
  <2>1. apc[p] = "write" /\ lpc[p] = "body"
    BY <1>10 DEF WriteRecord, InLock, Goto, Lock!InBody
  <2>2. r \in Record
    BY <1>0, <2>1, NewRecordTyped
  <2>3. r.seq = EndOfChain(pre, file.recs).seq /\ r.prev = EndOfChain(pre, file.recs).prev
    BY <1>4, <2>1 DEF Chained, NewRecord
  <2>4. file'.recs = Append(file.recs, r) /\ file'.tail = Empty
    BY <1>4, <1>10 DEF WriteRecord, Appended, Chained
  <2>5. ChainFrom(VerifierAnchor(pre), Append(file.recs, r))
    <3> HIDE DEF r
    <3> QED BY <1>0, <1>1, <1>4, <2>2, <2>3, ChainGrows DEF Chained, Clean
  <2>6. Len(disk.recs) <= Len(Append(file.recs, r))
    BY <1>1, <1>4, <2>2 DEF Chained
  <2>7. \A q \in Procs : apc'[q] # "write"
    <3>1. apc' = [apc EXCEPT ![p] = "sync"]
      BY <1>10 DEF WriteRecord, InLock, Goto
    <3> QED BY <1>0, <2>1, <3>1, OneWriter
  <2>8. UNCHANGED <<pre, disk>>
    BY <1>10 DEF WriteRecord, InLock
  <2> QED BY <1>4, <2>4, <2>5, <2>6, <2>7, <2>8 DEF Chained
<1>11. ASSUME NEW p \in Procs, WriteShort(p) PROVE FALSE
  BY <1>11 DEF WriteShort
<1>12. CASE PowerLoss
  <2>1. PICK n \in Len(disk.recs)..Len(file.recs) : file'.recs = SubSeq(file.recs, 1, n)
    BY <1>12 DEF PowerLoss, AfterPowerLoss
  <2>2. n \in 0..Len(file.recs)
    BY <1>1
  <2>3. Len(file'.recs) = n /\ ChainFrom(VerifierAnchor(pre), file'.recs)
    BY <1>1, <1>4, <2>1, <2>2, ChainShrinks DEF Chained
  <2>4. file'.tail = Empty /\ disk' = file' /\ pre' = pre
    BY <1>4, <1>12 DEF PowerLoss, Chained
  <2>5. \A p \in Procs : apc'[p] # "write"
    BY <1>12 DEF PowerLoss
  <2>6. Len(disk'.recs) <= Len(file'.recs)
    BY <2>2, <2>3, <2>4
  <2> QED BY <2>3, <2>4, <2>5, <2>6 DEF Chained
<1> QED
  BY <1>6, <1>7, <1>8, <1>9, <1>10, <1>11, <1>12 DEF LogNext, LogStep

\* However many processes append to the log, whichever of them die, and
\* whatever a power loss takes of what was not synced: as long as no line was
\* cut short, the log verifies, if it began as one that both readers of its
\* beginning take for the same.
THEOREM LogVerifies == Clean => (Spec => []VerifiesUnlessTorn)
<1> SUFFICES ASSUME Clean PROVE Spec => []VerifiesUnlessTorn
  OBVIOUS
<1>1. Init => ChainPart
  BY ChainPartInit
<1>2. TypedPart /\ ChainPart /\ [Next]_vars => ChainPart'
  <2> SUFFICES ASSUME TypedPart, ChainPart, [Next]_vars PROVE ChainPart'
    OBVIOUS
  <2>1. CASE LogNext
    BY <2>1, ChainPartNext
  <2>2. CASE UNCHANGED auditVars
    BY <2>2 DEF auditVars, ChainPart, Chained
  <2> QED BY <2>1, <2>2, LogSteps
<1>3. ChainPart => VerifiesUnlessTorn
  <2> SUFFICES ASSUME Chained PROVE Verifies(pre, file)
    BY DEF ChainPart, VerifiesUnlessTorn
  <2>1. Lines(file) = file.recs
    BY DEF Chained, Lines
  <2> QED BY <2>1 DEF Chained, Verifies
<1> QED BY <1>1, <1>2, <1>3, TypedPartInvariant, PTL DEF Spec
-----------------------------------------------------------------------------
(* What holds of the log whatever is cut short: the disk has a first part  *)
(* of the file, and nothing follows a line that does not parse.            *)

Synced ==
    /\ Len(disk.recs) <= Len(file.recs)
    /\ \A i \in 1..Len(disk.recs) : disk.recs[i] = file.recs[i]

\* A damaged line is the last one, and has nothing behind it.
DamageEnds(f) ==
    \A i \in 1..Len(f.recs) :
        f.recs[i] = Garbage => i = Len(f.recs) /\ f.tail \in {Empty, Unterminated}

Undamaged(f) == f.tail # Fragment /\ \A i \in 1..Len(f.recs) : f.recs[i] # Garbage

\* Who is about to append has found no damage, and there is none since.
DamagePart ==
    /\ Synced
    /\ DamageEnds(file) /\ DamageEnds(disk)
    /\ \A p \in Procs : apc[p] = "write" => Undamaged(file)

LEMMA MarksDiffer ==
  /\ Garbage \notin {Empty, Fragment, Unterminated}
  /\ Fragment \notin {Empty, Unterminated}
<1>1. /\ Garbage.mark = "garbage" /\ Fragment.mark = "fragment"
      /\ Empty.mark = "empty" /\ Unterminated.mark = "legacy"
  BY DEF Garbage, Fragment, Empty, Unterminated
<1>2. Garbage.mark \notin {Empty.mark, Fragment.mark, Unterminated.mark}
      /\ Fragment.mark \notin {Empty.mark, Unterminated.mark}
  BY <1>1
<1> QED BY <1>2

\* To say that damage ends the file is to say it of its lines.
LEMMA DamageOfLines ==
  ASSUME NEW f \in Files, DamageEnds(f)
  PROVE  /\ \A i \in 1..Len(Lines(f)) : Lines(f)[i] \in {Garbage, Fragment} => i = Len(Lines(f))
         /\ EndParses(f) => Undamaged(f)
<1>1. f.recs \in Seq(Record \cup {Garbage}) /\ f.tail \in {Empty, Fragment, Unterminated} \cup Record
  BY DEF Files
<1>2. Len(f.recs) \in Nat
  BY <1>1
<1>3. \A i \in 1..Len(f.recs) : f.recs[i] # Fragment
  BY <1>1, MarksDiffer, MarksAreNoRecords
<1>4. CASE f.tail \in {Empty, Unterminated}
  <2>1. Lines(f) = f.recs
    BY <1>4 DEF Lines
  <2>2. f.tail # Fragment
    BY <1>4, MarksDiffer
  <2>3. ASSUME EndParses(f), NEW i \in 1..Len(f.recs), f.recs[i] = Garbage PROVE FALSE
    <3>1. i = Len(f.recs)
      BY <2>3 DEF DamageEnds
    <3>2. f.recs # <<>>
      BY <1>1, <2>3
    <3> QED BY <2>1, <2>3, <3>1, <3>2 DEF EndParses
  <2> QED BY <1>3, <2>1, <2>2, <2>3 DEF DamageEnds, Undamaged
<1>5. CASE f.tail \notin {Empty, Unterminated}
  <2> DEFINE s == f.recs
             t == f.tail
  <2>1. Lines(f) = Append(s, t)
    BY <1>5 DEF Lines
  <2>2. \A i \in 1..Len(s) : s[i] # Garbage
    BY <1>5 DEF DamageEnds
  <2>3. /\ Len(Append(s, t)) = Len(s) + 1 /\ Append(s, t)[Len(s) + 1] = t
        /\ \A i \in 1..Len(s) : Append(s, t)[i] = s[i]
        /\ Append(s, t) # <<>>
    <3> HIDE DEF s, t
    <3>1. s \in Seq(Record \cup {Garbage}) /\ t \in {Empty, Fragment, Unterminated} \cup Record
      BY <1>1 DEF s, t
    <3> QED BY <3>1
  <2>4. EndParses(f) => t # Fragment
    BY <2>1, <2>3 DEF EndParses
  <2> HIDE DEF s, t
  <2>5. ASSUME NEW i \in 1..Len(Append(s, t)), Append(s, t)[i] \in {Garbage, Fragment}
        PROVE  i = Len(Append(s, t))
    BY <1>2, <1>3, <2>2, <2>3, <2>5 DEF s
  <2>6. \A i \in 1..Len(Lines(f)) : Lines(f)[i] \in {Garbage, Fragment} => i = Len(Lines(f))
    BY <2>1, <2>5
  <2> QED BY <2>2, <2>4, <2>6 DEF Undamaged, s, t
<1> QED BY <1>4, <1>5

\* What a write leaves of an undamaged log: its records, and at most one line more.
LEMMA WriteKeepsRecords ==
  ASSUME NEW f \in Files, NEW r \in Record, NEW g \in {Appended(f, r)} \cup CutShort(f, r)
  PROVE  /\ Len(f.recs) <= Len(g.recs) /\ Len(g.recs) <= Len(f.recs) + 1
         /\ \A i \in 1..Len(f.recs) : g.recs[i] = f.recs[i]
         /\ Undamaged(f) => DamageEnds(g)
         /\ Len(g.recs) = Len(f.recs) + 1 =>
               g.tail = Empty /\ g.recs[Len(g.recs)] = IF f.tail = Empty THEN r ELSE Garbage
<1>1. f.recs \in Seq(Record \cup {Garbage}) /\ Len(f.recs) \in Nat
  BY DEF Files
<1>2. CASE g \in CutShort(f, r)
  <2>1. PICK t \in {Fragment, r} : g = [f EXCEPT !.tail = t]
    BY <1>2 DEF CutShort
  <2>2. g.recs = f.recs
    BY <2>1 DEF Files
  <2> QED BY <1>1, <2>2 DEF DamageEnds, Undamaged
<1>3. CASE g = Appended(f, r)
  <2> DEFINE x == IF f.tail = Empty THEN r ELSE Garbage
  <2>1. g.recs = Append(f.recs, x) /\ g.tail = Empty
    BY <1>3 DEF Appended
  <2>2. x \in Record \cup {Garbage}
    OBVIOUS
  <2> HIDE DEF x
  <2>3. /\ Len(g.recs) = Len(f.recs) + 1 /\ g.recs[Len(f.recs) + 1] = x
        /\ \A i \in 1..Len(f.recs) : g.recs[i] = f.recs[i]
    BY <1>1, <2>1, <2>2
  <2>4. Undamaged(f) => DamageEnds(g)
    BY <1>1, <2>1, <2>3 DEF DamageEnds, Undamaged
  <2> QED BY <1>1, <2>1, <2>3, <2>4 DEF x
<1> QED BY <1>2, <1>3

\* What a power loss leaves: a first part of the file with all that was synced.
LEMMA LossKeepsSynced ==
  ASSUME file \in Files, disk \in Files, Synced, NEW f \in AfterPowerLoss, Survives(f)
  PROVE  /\ Len(disk.recs) <= Len(f.recs) /\ Len(f.recs) <= Len(file.recs)
         /\ \A i \in 1..Len(f.recs) : f.recs[i] = file.recs[i]
         /\ DamageEnds(file) /\ DamageEnds(disk) => DamageEnds(f)
<1>1. file.recs \in Seq(Record \cup {Garbage}) /\ disk.recs \in Seq(Record \cup {Garbage})
  BY DEF Files
<1>2. PICK n \in Len(disk.recs)..Len(file.recs) :
         f.recs = SubSeq(file.recs, 1, n) /\ f.tail \in {Empty, Fragment, disk.tail, file.tail}
  BY DEF AfterPowerLoss
<1>3. n \in 0..Len(file.recs) /\ Len(file.recs) \in Nat /\ Len(disk.recs) \in Nat
  BY <1>1, <1>2
<1>4. Len(f.recs) = n /\ \A i \in 1..n : f.recs[i] = file.recs[i]
  BY <1>1, <1>2, <1>3, SubSeqProperties
<1>5. ASSUME DamageEnds(file), DamageEnds(disk), NEW i \in 1..n, f.recs[i] = Garbage
      PROVE  i = n /\ f.tail \in {Empty, Unterminated}
  <2>1. i = Len(file.recs) /\ file.tail \in {Empty, Unterminated}
    BY <1>3, <1>4, <1>5 DEF DamageEnds
  <2>2. n = Len(file.recs) /\ i = n
    BY <1>3, <2>1
  <2>3. n = Len(disk.recs) => disk.tail \in {Empty, Unterminated}
    <3> SUFFICES ASSUME n = Len(disk.recs) PROVE disk.recs[i] = Garbage
      BY <1>5 DEF DamageEnds
    <3> QED BY <1>4, <1>5 DEF Synced
  <2>4. f.tail \in {file.tail, Empty} \/ (n = Len(disk.recs) /\ f.tail = disk.tail)
    BY <1>3, <1>4, <2>2 DEF Survives
  <2> QED BY <2>1, <2>2, <2>3, <2>4
<1>6. DamageEnds(file) /\ DamageEnds(disk) => DamageEnds(f)
  BY <1>4, <1>5 DEF DamageEnds
<1> QED BY <1>2, <1>3, <1>4, <1>6

\* The file changes by a write or a power loss, the disk by a sync or a power loss.
LEMMA WritesOfLog ==
  ASSUME LogNext, ~ PowerLoss, \A p \in Procs : ~ WriteRecord(p) /\ ~ WriteShort(p)
  PROVE  UNCHANGED file /\ ((\E p \in Procs : Sync(p)) \/ UNCHANGED disk)
BY DEF LogNext, Open, OpenReturns, BeginRecord, RecordAgain, Return, LogStep, TakeLock,
   LockTimeout, OpenVerified, OpenRejected, ReadEnd, ReadEndFails, WriteFails,
   Sync, SyncFails, LeaveLock, InLock, Kill

LEMMA DamagePartNext ==
  ASSUME TypedPart, DamagePart, LogNext
  PROVE  DamagePart'
<1> USE DEF DamagePart
<1>0. /\ file \in Files /\ disk \in Files
      /\ apc \in [Procs -> Pcs]
      /\ Len(file.recs) \in Nat
  BY DEF TypedPart, CallPart, DataPart, Files
<1>1. ASSUME NEW p \in Procs, WriteRecord(p) \/ WriteShort(p) PROVE DamagePart'
  <2> DEFINE r == NewRecord(p)
  <2>1. /\ apc[p] = "write" /\ lpc[p] = "body"
        /\ apc' = [apc EXCEPT ![p] = "sync"]
        /\ file' \in {Appended(file, r)} \cup CutShort(file, r)
        /\ UNCHANGED disk
    BY <1>1 DEF WriteRecord, WriteShort, InLock, Goto, Lock!InBody
  <2>2. r \in Record
    BY <2>1, NewRecordTyped DEF TypedPart
  <2> HIDE DEF r
  <2>3. /\ Len(file.recs) <= Len(file'.recs)
        /\ \A i \in 1..Len(file.recs) : file'.recs[i] = file.recs[i]
        /\ DamageEnds(file')
    BY <1>0, <2>1, <2>2, WriteKeepsRecords
  <2>4. \A q \in Procs : apc'[q] # "write"
    BY <1>0, <2>1, OneWriter DEF TypedPart
  <2>5. Len(file'.recs) \in Nat /\ Len(disk.recs) \in Nat
    BY <1>0, <2>1, <2>2, WrittenTyped DEF Files
  <2>6. Synced'
    BY <1>0, <2>1, <2>3, <2>5 DEF Synced
  <2>7. DamageEnds(file)' /\ DamageEnds(disk)'
    BY <2>1, <2>3 DEF DamageEnds
  <2> QED BY <2>4, <2>6, <2>7
<1>2. CASE PowerLoss
  <2>1. file' \in AfterPowerLoss /\ Survives(file') /\ disk' = file'
    BY <1>2 DEF PowerLoss
  <2>2. DamageEnds(file')
    BY <1>0, <2>1, LossKeepsSynced
  <2>3. \A p \in Procs : apc'[p] # "write"
    BY <1>2 DEF PowerLoss
  <2>4. Len(file'.recs) \in Nat
    BY <1>0, <2>1, SurvivorsTyped DEF Files
  <2>5. Synced'
    BY <2>1, <2>4 DEF Synced
  <2>6. DamageEnds(file)' /\ DamageEnds(disk)'
    BY <2>1, <2>2 DEF DamageEnds
  <2> QED BY <2>3, <2>5, <2>6
<1>3. ASSUME ~ PowerLoss, \A p \in Procs : ~ WriteRecord(p) /\ ~ WriteShort(p)
      PROVE  DamagePart'
  <2>1. UNCHANGED file /\ ((\E p \in Procs : Sync(p)) \/ UNCHANGED disk)
    BY <1>3, WritesOfLog
  <2>2. disk' \in {file, disk}
    BY <2>1 DEF Sync
  <2>3. ASSUME NEW p \in Procs, apc'[p] = "write", apc[p] # "write" PROVE Undamaged(file)
    <3>1. ReadEnd(p)
      BY <1>0, <2>3 DEF LogNext, Open, OpenReturns, BeginRecord, RecordAgain, Return, LogStep,
         TakeLock, LockTimeout, OpenVerified, OpenRejected, ReadEnd, ReadEndFails, WriteRecord,
         WriteShort, WriteFails, Sync, SyncFails, LeaveLock, InLock, Kill, PowerLoss, Goto
    <3> QED BY <1>0, <3>1, DamageOfLines DEF ReadEnd
  <2>4. \A p \in Procs : apc'[p] = "write" => Undamaged(file)'
    BY <2>1, <2>3 DEF Undamaged
  <2>5. Synced' /\ DamageEnds(file)' /\ DamageEnds(disk)'
    BY <1>0, <2>1, <2>2 DEF Synced, DamageEnds
  <2> QED BY <2>4, <2>5
<1> QED BY <1>1, <1>2, <1>3

LEMMA DamagePartInvariant == Spec => []DamagePart
<1>1. Init => DamagePart
  <2> SUFFICES ASSUME Init PROVE DamagePart
    OBVIOUS
  <2>1. file.recs = <<>> /\ disk.recs = <<>> /\ \A p \in Procs : apc[p] = "closed"
    BY DEF Init, AuditInit
  <2> QED BY <2>1 DEF DamagePart, Synced, DamageEnds
<1>2. TypedPart /\ DamagePart /\ [Next]_vars => DamagePart'
  <2> SUFFICES ASSUME TypedPart, DamagePart, [Next]_vars PROVE DamagePart'
    OBVIOUS
  <2>1. CASE LogNext
    BY <2>1, DamagePartNext
  <2>2. CASE UNCHANGED auditVars
    BY <2>2 DEF auditVars, DamagePart, Synced, DamageEnds, Undamaged
  <2> QED BY <2>1, <2>2, LogSteps
<1> QED BY <1>1, <1>2, TypedPartInvariant, PTL DEF Spec

\* A damaged log is not written on: for any number of processes, whichever of
\* them had opened it before the damage, and whatever the beginning was.
THEOREM DamageStaysLast == Spec => []DamageIsLast
<1>1. TypedPart /\ DamagePart => DamageIsLast
  <2> SUFFICES ASSUME TypedPart, DamagePart PROVE DamageIsLast
    OBVIOUS
  <2>1. file \in Files /\ DamageEnds(file)
    BY DEF TypedPart, DataPart, DamagePart
  <2> QED BY <2>1, DamageOfLines DEF DamageIsLast
<1> QED BY <1>1, TypedPartInvariant, DamagePartInvariant, PTL
-----------------------------------------------------------------------------
(* The calls and the log: what is told, and what is recorded of it.        *)

\* The events that have a line of their own.
Logged(f) == {f.recs[i].ev : i \in {j \in 1..Len(f.recs) : f.recs[j] # Garbage}}

\* Each call in progress is the only one of its request; it has had no answer,
\* and its event says whether the tool has done its work.
CallsMatch ==
    /\ \A p \in Procs : apc[p] \in Serving =>
          /\ event[p].req \in asked
          /\ \A a \in Answers : <<event[p].req, a>> \notin told
          /\ \/ phase[p] = "first" /\ event[p].outcome = "allowed" /\ event[p].req \in done
             \/ phase[p] = "second" /\ event[p].outcome = "denied_or_failed"
    /\ \A p, q \in Procs :
          apc[p] \in Serving /\ apc[q] \in Serving /\ event[p].req = event[q].req => p = q
    /\ \A r \in Requests, a \in Answers : <<r, a>> \in told => r \in asked

\* What the log denies has been given no result, and no first record of it is
\* under way that could still lead to one.
RecordsMatch ==
    \A e \in Logged(file) :
        /\ e \in Event /\ e.req \in asked
        /\ e.outcome = "allowed" => e.req \in done
        /\ e.outcome = "denied_or_failed" =>
              /\ <<e.req, "result">> \notin told
              /\ \A p \in Procs :
                    apc[p] \in Serving /\ event[p].req = e.req => phase[p] = "second"

\* As long as no line is cut short, a record is in the file from its write to
\* its sync, and on the disk from then on.
AnswersMatch ==
    ~ torn =>
        /\ file.tail = Empty /\ disk.tail = Empty
        /\ \A p \in Procs :
              /\ apc[p] = "sync" => event[p] \in Logged(file)
              /\ apc[p] = "ok" => event[p] \in Logged(disk)
        /\ \A r \in Requests :
              /\ <<r, "result">> \in told => [req |-> r, outcome |-> "allowed"] \in Logged(disk)
              /\ <<r, "isError">> \in told =>
                    [req |-> r, outcome |-> "denied_or_failed"] \in Logged(disk)

LEMMA RecordedIsLogged ==
  ASSUME NEW f, NEW r, NEW o
  PROVE  Recorded(f, r, o) <=> [req |-> r, outcome |-> o] \in Logged(f)
BY DEF Recorded, Logged

LEMMA FirstPartLogs ==
  ASSUME NEW f \in Files, NEW g \in Files, Len(g.recs) <= Len(f.recs),
         \A i \in 1..Len(g.recs) : g.recs[i] = f.recs[i]
  PROVE  Logged(g) \subseteq Logged(f)
<1>1. Len(g.recs) \in Nat /\ Len(f.recs) \in Nat
  BY DEF Files
<1>2. \A i \in 1..Len(g.recs) : i \in 1..Len(f.recs)
  BY <1>1
<1> QED BY <1>2 DEF Logged

\* A write in full after a newline logs its event; no write logs any other.
LEMMA WriteLogs ==
  ASSUME NEW f \in Files, NEW r \in Record, NEW g \in {Appended(f, r)} \cup CutShort(f, r)
  PROVE  /\ Logged(f) \subseteq Logged(g) /\ Logged(g) \subseteq Logged(f) \cup {r.ev}
         /\ g = Appended(f, r) /\ f.tail = Empty => r.ev \in Logged(g) /\ g.tail = Empty
<1>1. g \in Files
  BY WrittenTyped
<1>2. /\ Len(f.recs) <= Len(g.recs) /\ Len(g.recs) <= Len(f.recs) + 1
      /\ \A i \in 1..Len(f.recs) : g.recs[i] = f.recs[i]
      /\ Len(g.recs) = Len(f.recs) + 1 =>
            g.tail = Empty /\ g.recs[Len(g.recs)] = IF f.tail = Empty THEN r ELSE Garbage
  BY WriteKeepsRecords
<1>3. Len(g.recs) \in Nat /\ Len(f.recs) \in Nat
  BY <1>1 DEF Files
<1>4. Logged(f) \subseteq Logged(g)
  BY <1>1, <1>2, FirstPartLogs
<1>5. ASSUME NEW i \in 1..Len(g.recs), g.recs[i] # Garbage PROVE g.recs[i].ev \in Logged(f) \cup {r.ev}
  <2>1. CASE i \in 1..Len(f.recs)
    BY <1>2, <1>5, <2>1 DEF Logged
  <2>2. CASE i \notin 1..Len(f.recs)
    <3>1. i = Len(g.recs) /\ Len(g.recs) = Len(f.recs) + 1
      BY <1>2, <1>3, <2>2
    <3> QED BY <1>2, <1>5, <3>1
  <2> QED BY <2>1, <2>2
<1>6. Logged(g) \subseteq Logged(f) \cup {r.ev}
  BY <1>5 DEF Logged
<1>7. ASSUME g = Appended(f, r), f.tail = Empty PROVE r.ev \in Logged(g) /\ g.tail = Empty
  <2>1. g.recs = Append(f.recs, r) /\ g.tail = Empty
    BY <1>7 DEF Appended
  <2>2. f.recs \in Seq(Record \cup {Garbage})
    BY DEF Files
  <2>3. Len(g.recs) = Len(f.recs) + 1
    BY <2>1, <2>2
  <2>4. Len(g.recs) \in 1..Len(g.recs) /\ g.recs[Len(g.recs)] = r /\ r # Garbage
    BY <1>2, <1>3, <1>7, <2>3, MarksAreNoRecords
  <2> QED BY <2>1, <2>4 DEF Logged
<1> QED BY <1>4, <1>6, <1>7

\* Steps that do no more than move a process through its record.
Silent == UNCHANGED <<event, callVars>> /\ \A q \in Procs : apc'[q] \in Serving => apc[q] \in Serving

LEMMA OnLogIsSilent ==
  ASSUME CallPart, NEW p \in Procs, OnLog(p) \/ Start(p)
  PROVE  Silent
<1> USE DEF CallPart, Silent, Serving, Goto
<1>1. CASE Start(p)
  BY <1>1 DEF Start, Open
<1>2. CASE OnLog(p)
  <2>1. TakeLock(p) \/ LockTimeout(p) \/ LeaveLock(p) => Silent
    BY <1>2 DEF OnLog, TakeLock, LockTimeout, LeaveLock
  <2>2. OpenVerified(p) \/ OpenRejected(p) \/ ReadEnd(p) \/ ReadEndFails(p) => Silent
    BY <1>2 DEF OnLog, OpenVerified, OpenRejected, ReadEnd, ReadEndFails, InLock
  <2>3. WriteRecord(p) \/ WriteShort(p) \/ WriteFails(p) \/ Sync(p) \/ SyncFails(p) => Silent
    BY <1>2 DEF OnLog, WriteRecord, WriteShort, WriteFails, Sync, SyncFails, InLock
  <2> QED BY <1>2, <2>1, <2>2, <2>3 DEF OnLog, LogStep
<1> QED BY <1>1, <1>2

\* The end of a call, of a process or of all of them.
LEMMA CallsMatchNext ==
  ASSUME CallPart, CallsPart, CallsMatch, [Next]_vars
  PROVE  CallsMatch'
<1> USE DEF CallsMatch
<1>0. /\ apc \in [Procs -> Pcs] /\ DOMAIN event = Procs
      /\ phase \in [Procs -> Phases]
      /\ \A p \in Procs : apc[p] \in Serving => event[p] \in Event
  BY DEF CallPart, CallsPart
<1>1. ASSUME Silent PROVE CallsMatch'
  BY <1>0, <1>1 DEF Silent, callVars
<1>2. ASSUME NEW p \in Procs, NEW r \in Requests, Succeed(p, r) PROVE CallsMatch'
  <2>1. /\ phase' = [phase EXCEPT ![p] = "first"] /\ done' = done \cup {r}
        /\ r \notin asked /\ asked' = asked \cup {r} /\ UNCHANGED told
        /\ apc' = [apc EXCEPT ![p] = "chain"]
        /\ event' = [event EXCEPT ![p] = [req |-> r, outcome |-> "allowed"]]
    BY <1>2 DEF Succeed, Ask, BeginRecord, Goto
  <2>2. \A a \in Answers : <<r, a>> \notin told
    BY <2>1
  <2>3. event'[p].req = r /\ event'[p].outcome = "allowed" /\ \A q \in Procs \ {p} : event'[q] = event[q]
    BY <1>0, <2>1
  <2> QED BY <1>0, <2>1, <2>2, <2>3
<1>3. ASSUME NEW p \in Procs, NEW r \in Requests, Deny(p, r) PROVE CallsMatch'
  <2>1. /\ phase' = [phase EXCEPT ![p] = "second"] /\ UNCHANGED <<done, told>>
        /\ r \notin asked /\ asked' = asked \cup {r}
        /\ apc' = [apc EXCEPT ![p] = "chain"]
        /\ event' = [event EXCEPT ![p] = [req |-> r, outcome |-> "denied_or_failed"]]
    BY <1>3 DEF Deny, Ask, BeginRecord, Goto
  <2>2. \A a \in Answers : <<r, a>> \notin told
    BY <2>1
  <2>3. /\ event'[p].req = r /\ event'[p].outcome = "denied_or_failed"
        /\ \A q \in Procs \ {p} : event'[q] = event[q]
    BY <1>0, <2>1
  <2> QED BY <1>0, <2>1, <2>2, <2>3
<1>4. ASSUME NEW p \in Procs, RecordAgain(p) PROVE CallsMatch'
  <2>1. /\ apc[p] = "failed" /\ apc' = [apc EXCEPT ![p] = "chain"]
        /\ event' = [event EXCEPT ![p].outcome = "denied_or_failed"]
        /\ phase' = [phase EXCEPT ![p] = "second"]
        /\ UNCHANGED <<asked, done, told>>
    BY <1>4 DEF RecordAgain, Goto
  <2>2. apc[p] \in Serving /\ event[p] \in Event
    BY <1>0, <2>1 DEF Serving
  <2>3. /\ event'[p].req = event[p].req /\ event'[p].outcome = "denied_or_failed"
        /\ \A q \in Procs \ {p} : event'[q] = event[q]
    BY <1>0, <2>1, <2>2 DEF Event
  <2> QED BY <1>0, <2>1, <2>2, <2>3
<1>5. ASSUME NEW p \in Procs, NEW how, NEW from, NEW a \in Answers, how \in Serving,
             Answer(p, how, from, a)
      PROVE  CallsMatch'
  <2>1. /\ apc[p] = how /\ apc' = [apc EXCEPT ![p] = "ready"]
        /\ event' = [event EXCEPT ![p] = NoEvent]
        /\ phase' = [phase EXCEPT ![p] = "idle"]
        /\ told' = told \cup {<<event[p].req, a>>}
        /\ UNCHANGED <<asked, done>>
    BY <1>5 DEF Answer, Return, Goto
  <2>2. \A q \in Procs : apc'[q] \in Serving => q # p /\ apc[q] \in Serving /\ event'[q] = event[q]
    BY <1>0, <2>1 DEF Serving
  <2> QED BY <1>0, <1>5, <2>1, <2>2
<1>6. ASSUME NEW p \in Procs, Started(p) \/ Crash(p) PROVE CallsMatch'
  <2>1. /\ event' = [event EXCEPT ![p] = NoEvent]
        /\ apc'[p] \in {"ready", "closed"} /\ \A q \in Procs \ {p} : apc'[q] = apc[q]
        /\ UNCHANGED <<asked, done, told>>
        /\ \A q \in Procs \ {p} : phase'[q] = phase[q]
    BY <1>0, <1>6 DEF Started, Crash, OpenReturns, Return, Kill, Goto
  <2>2. \A q \in Procs : apc'[q] \in Serving =>
            q # p /\ apc[q] \in Serving /\ event'[q] = event[q] /\ phase'[q] = phase[q]
    BY <1>0, <2>1 DEF Serving
  <2> QED BY <2>1, <2>2
<1>7. CASE Blackout
  <2>1. UNCHANGED <<asked, done, told>> /\ \A p \in Procs : apc'[p] \notin Serving
    BY <1>7 DEF Blackout, PowerLoss, Serving
  <2> QED BY <2>1
<1>8. CASE UNCHANGED vars
  BY <1>8, <1>1 DEF vars, auditVars, callVars, Silent
<1>9. ASSUME NEW p \in Procs, AnswerResult(p) \/ AnswerIsError(p) \/ AnswerRpcError(p)
      PROVE  CallsMatch'
  BY <1>5, <1>9 DEF AnswerResult, AnswerIsError, AnswerRpcError, Answers, Serving
<1>10. ASSUME NEW p \in Procs, Start(p) \/ OnLog(p) PROVE CallsMatch'
  BY <1>1, <1>10, OnLogIsSilent
<1> QED
  BY <1>2, <1>3, <1>4, <1>6, <1>7, <1>8, <1>9, <1>10 DEF Next, CallStep

\* A write logs the event of a process that is about to append; no other step
\* logs anything, and a power loss takes nothing that was synced.
LEMMA LoggedNext ==
  ASSUME TypedPart, Synced, [Next]_vars
  PROVE  /\ \A e \in Logged(file)' : e \in Logged(file)
               \/ \E p \in Procs : apc[p] = "write" /\ e = event[p] /\ OnLog(p)
         /\ Logged(disk) \subseteq Logged(file)
         /\ Blackout => Logged(disk) \subseteq Logged(file)'
<1>0. file \in Files /\ disk \in Files /\ Len(file.recs) \in Nat /\ Len(disk.recs) \in Nat
  BY DEF TypedPart, DataPart, Files
<1>1. Logged(disk) \subseteq Logged(file)
  BY <1>0, FirstPartLogs DEF Synced
<1>2. ASSUME PowerLoss
      PROVE  Logged(disk) \subseteq Logged(file)' /\ Logged(file)' \subseteq Logged(file)
  <2>1. file' \in AfterPowerLoss /\ Survives(file')
    BY <1>2 DEF PowerLoss
  <2>2. /\ Len(disk.recs) <= Len(file'.recs) /\ Len(file'.recs) <= Len(file.recs)
        /\ \A i \in 1..Len(file'.recs) : file'.recs[i] = file.recs[i]
    BY <1>0, <2>1, LossKeepsSynced
  <2>3. file' \in Files /\ Len(file'.recs) \in Nat
    BY <1>0, <2>1, SurvivorsTyped DEF Files
  <2>4. \A i \in 1..Len(disk.recs) : disk.recs[i] = file'.recs[i]
    BY <1>0, <2>2, <2>3 DEF Synced
  <2>5. Logged(disk) \subseteq Logged(file')
    BY <1>0, <2>2, <2>3, <2>4, FirstPartLogs
  <2>6. Logged(file') \subseteq Logged(file)
    BY <1>0, <2>2, <2>3, FirstPartLogs
  <2> QED BY <2>5, <2>6 DEF Logged
<1>3. ASSUME NEW p \in Procs, WriteRecord(p) \/ WriteShort(p), NEW e \in Logged(file)'
      PROVE  e \in Logged(file) \/ (apc[p] = "write" /\ e = event[p])
  <2> DEFINE r == NewRecord(p)
  <2>1. apc[p] = "write" /\ file' \in {Appended(file, r)} \cup CutShort(file, r)
    BY <1>3 DEF WriteRecord, WriteShort, InLock, Goto
  <2>2. r \in Record /\ r.ev = event[p]
    BY <2>1, NewRecordTyped DEF TypedPart, NewRecord
  <2> HIDE DEF r
  <2>3. Logged(file') \subseteq Logged(file) \cup {r.ev}
    BY <1>0, <2>1, <2>2, WriteLogs
  <2>4. e \in Logged(file')
    BY <1>3 DEF Logged
  <2> QED BY <2>1, <2>2, <2>3, <2>4
<1>4. ASSUME UNCHANGED file PROVE Logged(file)' = Logged(file)
  BY <1>4 DEF Logged
<1>5. CASE LogNext
  <2>1. ASSUME NEW p \in Procs, WriteRecord(p) \/ WriteShort(p) PROVE OnLog(p)
    <3>1. apc[p] = "write" /\ apc' = [apc EXCEPT ![p] = "sync"]
      BY <2>1 DEF WriteRecord, WriteShort, InLock, Goto
    <3>2. apc'[p] = "sync"
      BY <3>1 DEF TypedPart, CallPart
    <3>3. ASSUME NEW q \in Procs, NEW r \in Requests, Succeed(q, r) \/ Deny(q, r) PROVE FALSE
      BY <3>1, <3>2, <3>3 DEF Succeed, Deny, Ask, BeginRecord, Goto, TypedPart, CallPart
    <3>4. ASSUME NEW q \in Procs, Start(q) \/ Crash(q) \/ Started(q) PROVE FALSE
      BY <3>1, <3>2, <3>4 DEF Start, Open, Crash, Kill, Started, OpenReturns, Return, Goto,
         TypedPart, CallPart
    <3>5. ASSUME NEW q \in Procs,
                 RecordAgain(q) \/ AnswerResult(q) \/ AnswerIsError(q) \/ AnswerRpcError(q)
          PROVE  FALSE
      BY <3>1, <3>2, <3>5 DEF RecordAgain, AnswerResult, AnswerIsError, AnswerRpcError, Answer,
         Return, Goto, TypedPart, CallPart
    <3>6. ~ Blackout /\ ~ UNCHANGED vars
      BY <3>1, <3>2 DEF Blackout, PowerLoss, vars, auditVars
    <3>7. UNCHANGED callVars
      BY <3>3, <3>4, <3>5, <3>6 DEF Next, CallStep, OnLog
    <3> QED BY <2>1, <3>7 DEF OnLog, LogStep
  <2>2. \/ PowerLoss \/ UNCHANGED file
        \/ \E p \in Procs : WriteRecord(p) \/ WriteShort(p)
    BY <1>5, WritesOfLog
  <2> QED BY <1>1, <1>2, <1>3, <1>4, <2>1, <2>2 DEF Blackout
<1>6. CASE UNCHANGED auditVars
  <2>1. UNCHANGED file
    BY <1>6 DEF auditVars
  <2>2. Blackout => Logged(disk) \subseteq Logged(file)'
    BY <1>2 DEF Blackout
  <2> QED BY <1>1, <1>4, <2>1, <2>2
<1> QED BY <1>5, <1>6, LogSteps

LEMMA RecordsMatchNext ==
  ASSUME TypedPart, CallsPart, Synced, CallsMatch, RecordsMatch, [Next]_vars
  PROVE  RecordsMatch'
<1>0. /\ apc \in [Procs -> Pcs] /\ DOMAIN event = Procs
      /\ phase \in [Procs -> Phases]
      /\ \A p \in Procs : apc[p] \in Serving => event[p] \in Event
      /\ CallPart
  BY DEF TypedPart, CallPart, CallsPart
<1> DEFINE Told(e) == /\ e \in Event /\ e.req \in asked
                      /\ e.outcome = "allowed" => e.req \in done
                      /\ e.outcome = "denied_or_failed" =>
                            /\ <<e.req, "result">> \notin told
                            /\ \A p \in Procs :
                                  apc[p] \in Serving /\ event[p].req = e.req => phase[p] = "second"
\* The event of a process that is about to append is as good as a logged one.
<1>1. ASSUME NEW p \in Procs, apc[p] \in Serving PROVE Told(event[p])
  <2>1. event[p] \in Event /\ event[p].req \in asked
    BY <1>0, <1>1 DEF CallsMatch
  <2>2. event[p].outcome = "allowed" => event[p].req \in done
    BY <1>1 DEF CallsMatch
  <2>3. <<event[p].req, "result">> \notin told
    BY <1>1 DEF CallsMatch, Answers
  <2>4. event[p].outcome = "denied_or_failed" =>
           \A q \in Procs : apc[q] \in Serving /\ event[q].req = event[p].req => phase[q] = "second"
    BY <1>1 DEF CallsMatch
  <2> QED BY <2>1, <2>2, <2>3, <2>4
<1>2. ASSUME NEW e \in Logged(file)' PROVE Told(e)
  BY <1>1, <1>2, LoggedNext DEF RecordsMatch, Serving
<1>3. ASSUME NEW e, Told(e) PROVE Told(e)'
  <2>1. ASSUME Silent PROVE Told(e)'
    BY <1>0, <1>3, <2>1 DEF Silent, callVars
  <2>2. ASSUME NEW p \in Procs, NEW r \in Requests, Succeed(p, r) \/ Deny(p, r) PROVE Told(e)'
    <3>1. /\ r \notin asked /\ asked' = asked \cup {r} /\ UNCHANGED told
          /\ done \subseteq done'
          /\ event'[p].req = r
          /\ \A q \in Procs \ {p} :
                apc'[q] = apc[q] /\ event'[q] = event[q] /\ phase'[q] = phase[q]
      BY <1>0, <2>2 DEF Succeed, Deny, Ask, BeginRecord, Goto
    <3> QED BY <1>3, <3>1
  <2>3. ASSUME NEW p \in Procs, RecordAgain(p) PROVE Told(e)'
    <3>1. /\ phase'[p] = "second" /\ UNCHANGED <<asked, done, told>>
          /\ \A q \in Procs \ {p} :
                apc'[q] = apc[q] /\ event'[q] = event[q] /\ phase'[q] = phase[q]
      BY <1>0, <2>3 DEF RecordAgain, Goto
    <3> QED BY <1>3, <3>1
  <2>4. ASSUME NEW p \in Procs, AnswerResult(p) \/ AnswerIsError(p) \/ AnswerRpcError(p)
        PROVE  Told(e)'
    <3>1. /\ apc[p] \in Serving /\ apc'[p] = "ready" /\ UNCHANGED <<asked, done>>
          /\ \A q \in Procs \ {p} :
                apc'[q] = apc[q] /\ event'[q] = event[q] /\ phase'[q] = phase[q]
      BY <1>0, <2>4 DEF AnswerResult, AnswerIsError, AnswerRpcError, Answer, Return, Goto, Serving
    <3>2. <<e.req, "result">> \in told' =>
             <<e.req, "result">> \in told \/ (phase[p] = "first" /\ event[p].req = e.req)
      BY <2>4 DEF AnswerResult, AnswerIsError, AnswerRpcError, Answer
    <3>3. apc'[p] \notin Serving
      BY <3>1 DEF Serving
    <3> QED BY <1>3, <3>1, <3>2, <3>3
  <2>5. ASSUME NEW p \in Procs, Started(p) \/ Crash(p) PROVE Told(e)'
    <3>1. /\ apc'[p] \in {"ready", "closed"} /\ UNCHANGED <<asked, done, told>>
          /\ \A q \in Procs \ {p} :
                apc'[q] = apc[q] /\ event'[q] = event[q] /\ phase'[q] = phase[q]
      BY <1>0, <2>5 DEF Started, Crash, OpenReturns, Return, Kill, Goto
    <3>2. apc'[p] \notin Serving
      BY <3>1 DEF Serving
    <3> QED BY <1>3, <3>1, <3>2
  <2>6. CASE Blackout
    <3>1. UNCHANGED <<asked, done, told>> /\ \A p \in Procs : apc'[p] \notin Serving
      BY <2>6 DEF Blackout, PowerLoss, Serving
    <3> QED BY <1>3, <3>1
  <2>7. CASE UNCHANGED vars
    BY <2>1, <2>7 DEF vars, auditVars, callVars, Silent
  <2>8. ASSUME NEW p \in Procs, Start(p) \/ OnLog(p) PROVE Told(e)'
    BY <1>0, <2>1, <2>8, OnLogIsSilent
  <2> QED
    BY <2>2, <2>3, <2>4, <2>5, <2>6, <2>7, <2>8 DEF Next, CallStep
<1>4. \A e \in Logged(file)' : Told(e)'
  BY <1>2, <1>3
<1> QED BY <1>4 DEF RecordsMatch

\* Earlier releases ended every line with a newline.
Terminated == \A b \in Beginnings : ~ b.open

LEMMA AnswersMatchNext ==
  ASSUME TypedPart, CallsPart, Synced, CallsMatch, AnswersMatch, [Next]_vars
  PROVE  AnswersMatch'
<1> SUFFICES ASSUME ~ torn' PROVE AnswersMatch'
  BY DEF AnswersMatch
<1>0. /\ apc \in [Procs -> Pcs] /\ DOMAIN event = Procs
      /\ phase \in [Procs -> Phases]
      /\ \A p \in Procs : apc[p] \in Serving => event[p] \in Event
      /\ CallPart /\ file \in Files
  BY DEF TypedPart, CallPart, CallsPart, DataPart
<1>1. torn' = torn \/ PowerLoss \/ \E p \in Procs : WriteShort(p)
  <2>1. LogNext => torn' = torn \/ PowerLoss \/ \E p \in Procs : WriteShort(p)
    BY DEF LogNext, Open, OpenReturns, BeginRecord, RecordAgain, Return, LogStep, TakeLock,
       LockTimeout, OpenVerified, OpenRejected, ReadEnd, ReadEndFails, WriteRecord, WriteFails,
       Sync, SyncFails, LeaveLock, InLock, Kill
  <2> QED BY <2>1, LogSteps DEF auditVars
<1>2. /\ ~ torn /\ file.tail = Empty /\ disk.tail = Empty
      /\ \A p \in Procs :
            /\ apc[p] = "sync" => event[p] \in Logged(file)
            /\ apc[p] = "ok" => event[p] \in Logged(disk)
      /\ \A r \in Requests :
            /\ <<r, "result">> \in told => [req |-> r, outcome |-> "allowed"] \in Logged(disk)
            /\ <<r, "isError">> \in told =>
                  [req |-> r, outcome |-> "denied_or_failed"] \in Logged(disk)
  <2>1. ~ torn
    BY <1>1 DEF PowerLoss, WriteShort
  <2> QED BY <2>1 DEF AnswersMatch
<1>3. Logged(disk) \subseteq Logged(file)
  BY LoggedNext
\* A step that leaves the log alone and answers nothing.
<1>4. ASSUME UNCHANGED <<file, disk, told>>,
             \A q \in Procs : apc'[q] \in {"sync", "ok"} => apc'[q] = apc[q] /\ event'[q] = event[q]
      PROVE  AnswersMatch'
  <2>1. Logged(file)' = Logged(file) /\ Logged(disk)' = Logged(disk)
    BY <1>4 DEF Logged
  <2> QED BY <1>2, <1>4, <2>1 DEF AnswersMatch
<1>5. ASSUME NEW p \in Procs, WriteRecord(p), OnLog(p) PROVE AnswersMatch'
  <2> DEFINE r == NewRecord(p)
  <2>1. /\ apc[p] = "write" /\ apc' = [apc EXCEPT ![p] = "sync"]
        /\ file' = Appended(file, r) /\ UNCHANGED <<disk, event, told>>
    BY <1>5 DEF WriteRecord, InLock, Goto, OnLog, callVars
  <2>2. r \in Record /\ r.ev = event[p]
    BY <2>1, NewRecordTyped DEF TypedPart, NewRecord
  <2> HIDE DEF r
  <2>3. Logged(file) \subseteq Logged(file') /\ event[p] \in Logged(file') /\ file'.tail = Empty
    BY <1>0, <1>2, <2>1, <2>2, WriteLogs
  <2>4. Logged(file)' = Logged(file') /\ Logged(disk)' = Logged(disk)
    BY <2>1 DEF Logged
  <2> QED BY <1>0, <1>2, <2>1, <2>3, <2>4 DEF AnswersMatch
<1>6. ASSUME NEW p \in Procs, Sync(p), OnLog(p) PROVE AnswersMatch'
  <2>1. /\ apc[p] = "sync" /\ apc' = [apc EXCEPT ![p] = "ok"]
        /\ disk' = file /\ UNCHANGED <<file, event, told>>
    BY <1>6 DEF Sync, InLock, Goto, OnLog, callVars
  <2>2. Logged(file)' = Logged(file) /\ Logged(disk)' = Logged(file)
    BY <2>1 DEF Logged
  <2> QED BY <1>0, <1>2, <1>3, <2>1, <2>2 DEF AnswersMatch
<1>7. CASE Blackout
  <2>1. disk' = file' /\ UNCHANGED told /\ \A p \in Procs : apc'[p] = "closed"
    BY <1>7 DEF Blackout, PowerLoss
  <2>2. file'.tail = Empty
    BY <1>2, <1>7 DEF Blackout, PowerLoss
  <2>3. Logged(disk) \subseteq Logged(file)' /\ Logged(disk)' = Logged(file)'
    BY <1>7, <2>1, LoggedNext DEF Logged
  <2> QED BY <1>2, <2>1, <2>2, <2>3 DEF AnswersMatch
\* The record of the answer is the one this call has just synced.
<1>8. ASSUME NEW p \in Procs, AnswerResult(p) \/ AnswerIsError(p) \/ AnswerRpcError(p)
      PROVE  AnswersMatch'
  <2>1. /\ apc[p] \in Serving /\ apc' = [apc EXCEPT ![p] = "ready"]
        /\ \A q \in Procs \ {p} : event'[q] = event[q]
        /\ UNCHANGED <<file, disk>>
    BY <1>0, <1>8 DEF AnswerResult, AnswerIsError, AnswerRpcError, Answer, Return, Goto, Serving
  <2>2. Logged(file)' = Logged(file) /\ Logged(disk)' = Logged(disk)
    BY <2>1 DEF Logged
  <2>3. event[p] = [req |-> event[p].req, outcome |-> event[p].outcome]
    BY <1>0, <2>1 DEF Event
  <2>4. AnswerResult(p) => /\ told' = told \cup {<<event[p].req, "result">>}
                           /\ [req |-> event[p].req, outcome |-> "allowed"] \in Logged(disk)
    <3> SUFFICES ASSUME AnswerResult(p)
                 PROVE  /\ told' = told \cup {<<event[p].req, "result">>}
                        /\ event[p].outcome = "allowed" /\ event[p] \in Logged(disk)
      BY <2>3
    <3> QED BY <1>2, <2>1 DEF AnswerResult, Answer, Return, Goto, CallsMatch
  <2>5. AnswerIsError(p) => /\ told' = told \cup {<<event[p].req, "isError">>}
                            /\ [req |-> event[p].req, outcome |-> "denied_or_failed"] \in Logged(disk)
    <3> SUFFICES ASSUME AnswerIsError(p)
                 PROVE  /\ told' = told \cup {<<event[p].req, "isError">>}
                        /\ event[p].outcome = "denied_or_failed" /\ event[p] \in Logged(disk)
      BY <2>3
    <3> QED BY <1>2, <2>1 DEF AnswerIsError, Answer, Return, Goto, CallsMatch
  <2>6. AnswerRpcError(p) => told' = told \cup {<<event[p].req, "rpcError">>}
    BY DEF AnswerRpcError, Answer
  <2>7. \A r \in Requests :
           /\ <<r, "result">> \in told' => [req |-> r, outcome |-> "allowed"] \in Logged(disk)
           /\ <<r, "isError">> \in told' =>
                 [req |-> r, outcome |-> "denied_or_failed"] \in Logged(disk)
    <3> DEFINE Has(r, o) == [req |-> r, outcome |-> o] \in Logged(disk)
               n == event[p].req
    <3>1. \A r \in Requests :
             /\ <<r, "result">> \in told => Has(r, "allowed")
             /\ <<r, "isError">> \in told => Has(r, "denied_or_failed")
      BY <1>2
    <3>2. \/ told' = told \cup {<<n, "result">>} /\ Has(n, "allowed")
          \/ told' = told \cup {<<n, "isError">>} /\ Has(n, "denied_or_failed")
          \/ told' = told \cup {<<n, "rpcError">>}
      BY <1>8, <2>4, <2>5, <2>6
    <3> HIDE DEF Has, n
    <3>3. \A r \in Requests :
             /\ <<r, "result">> \in told' => Has(r, "allowed")
             /\ <<r, "isError">> \in told' => Has(r, "denied_or_failed")
      <4>1. PICK a \in Answers :
               /\ told' = told \cup {<<n, a>>}
               /\ a = "result" => Has(n, "allowed")
               /\ a = "isError" => Has(n, "denied_or_failed")
        BY <3>2 DEF Answers
      <4>2. \A r, b : <<r, b>> \in told' => <<r, b>> \in told \/ (r = n /\ b = a)
        BY <4>1
      <4> QED BY <3>1, <4>1, <4>2
    <3> QED BY <3>3 DEF Has
  <2>8. \A q \in Procs : apc'[q] \in {"sync", "ok"} => apc'[q] = apc[q] /\ event'[q] = event[q]
    BY <1>0, <2>1
  <2> QED BY <1>2, <2>1, <2>2, <2>7, <2>8 DEF AnswersMatch
<1>9. ASSUME NEW p \in Procs, OnLog(p), ~ WriteRecord(p), ~ Sync(p) PROVE AnswersMatch'
  <2>1. ~ WriteShort(p)
    BY DEF WriteShort
  <2>2. UNCHANGED <<file, disk, told, event>>
    BY <1>9, <2>1 DEF OnLog, callVars, LogStep, TakeLock, LockTimeout, OpenVerified, OpenRejected,
       ReadEnd, ReadEndFails, WriteFails, SyncFails, LeaveLock, InLock
  <2>3. \A q \in Procs : apc'[q] \in {"sync", "ok"} => apc'[q] = apc[q]
    BY <1>0, <1>9, <2>1 DEF OnLog, LogStep, TakeLock, LockTimeout, OpenVerified, OpenRejected,
       ReadEnd, ReadEndFails, WriteFails, SyncFails, LeaveLock, InLock, Goto
  <2> QED BY <1>4, <2>2, <2>3
<1>10. ASSUME NEW p \in Procs, Start(p) \/ Started(p) \/ RecordAgain(p) \/ Crash(p)
       PROVE  AnswersMatch'
  <2>1. UNCHANGED <<file, disk, told>>
    BY <1>10 DEF Start, Open, callVars, Started, OpenReturns, Return, RecordAgain, Crash, Kill
  <2>2. \A q \in Procs : apc'[q] \in {"sync", "ok"} => apc'[q] = apc[q] /\ event'[q] = event[q]
    BY <1>0, <1>10 DEF Start, Open, Started, OpenReturns, Return, RecordAgain, Crash, Kill, Goto
  <2> QED BY <1>4, <2>1, <2>2
<1>11. ASSUME NEW p \in Procs, NEW r \in Requests, Succeed(p, r) \/ Deny(p, r) PROVE AnswersMatch'
  <2>1. UNCHANGED <<file, disk, told>>
    BY <1>11 DEF Succeed, Deny, Ask, BeginRecord
  <2>2. \A q \in Procs : apc'[q] \in {"sync", "ok"} => apc'[q] = apc[q] /\ event'[q] = event[q]
    BY <1>0, <1>11 DEF Succeed, Deny, Ask, BeginRecord, Goto
  <2> QED BY <1>4, <2>1, <2>2
<1>12. CASE UNCHANGED vars
  BY <1>4, <1>12 DEF vars, auditVars, callVars
<1> QED
  BY <1>5, <1>6, <1>7, <1>8, <1>9, <1>10, <1>11, <1>12 DEF Next, CallStep

CallsIInv == TypedPart /\ CallsPart /\ Synced /\ CallsMatch /\ RecordsMatch

LEMMA CallsIInvariant == Spec => []CallsIInv
<1>1. Init => CallsPart /\ CallsMatch /\ RecordsMatch
  <2> SUFFICES ASSUME Init PROVE CallsPart /\ CallsMatch /\ RecordsMatch
    OBVIOUS
  <2>1. \A p \in Procs : apc[p] \notin Serving
    BY DEF Init, AuditInit, Serving
  <2>2. Logged(file) = {}
    BY DEF Init, AuditInit, Logged
  <2>3. phase = [p \in Procs |-> "none"] /\ asked = {} /\ done = {} /\ told = {}
    BY DEF Init
  <2> QED BY <2>1, <2>2, <2>3 DEF CallsPart, Phases, CallsMatch, RecordsMatch
<1>2. /\ TypedPart /\ DamagePart /\ (TypedPart /\ DamagePart)'
      /\ CallsPart /\ CallsMatch /\ RecordsMatch /\ [Next]_vars
      => (CallsPart /\ CallsMatch /\ RecordsMatch)'
  BY CallsPartNext, CallsMatchNext, RecordsMatchNext DEF TypedPart, DamagePart
<1>3. TypedPart /\ DamagePart /\ CallsPart /\ CallsMatch /\ RecordsMatch => CallsIInv
  BY DEF DamagePart, CallsIInv
<1> QED BY <1>1, <1>2, <1>3, TypedPartInvariant, DamagePartInvariant, PTL DEF Spec

\* What the log says of a request is true, whatever the writes and the power
\* do to it: what it allows has been done, and what it denies was given no
\* result.
THEOREM RecordsStayTrue == Spec => []RecordsAreTrue
<1>1. CallsIInv => RecordsAreTrue
  <2> SUFFICES ASSUME RecordsMatch, NEW r \in Requests
               PROVE  /\ Recorded(file, r, "allowed") => r \in done
                      /\ <<r, "result">> \in told => ~ Recorded(file, r, "denied_or_failed")
    BY DEF CallsIInv, RecordsAreTrue
  <2>1. [req |-> r, outcome |-> "allowed"] \in Logged(file) => r \in done
    BY DEF RecordsMatch
  <2>2. [req |-> r, outcome |-> "denied_or_failed"] \in Logged(file) => <<r, "result">> \notin told
    BY DEF RecordsMatch
  <2> QED BY <2>1, <2>2, RecordedIsLogged
<1> QED BY <1>1, CallsIInvariant, PTL

LEMMA AnswersInvariant == Terminated => (Spec => []AnswersMatch)
<1> SUFFICES ASSUME Terminated PROVE Spec => []AnswersMatch
  OBVIOUS
<1>1. Init => AnswersMatch
  <2> SUFFICES ASSUME Init PROVE AnswersMatch
    OBVIOUS
  <2>1. file.tail = Empty /\ disk.tail = Empty /\ told = {} /\ \A p \in Procs : apc[p] = "closed"
    BY DEF Init, AuditInit, Terminated
  <2> QED BY <2>1 DEF AnswersMatch
<1>2. CallsIInv /\ AnswersMatch /\ [Next]_vars => AnswersMatch'
  BY AnswersMatchNext DEF CallsIInv
<1> QED BY <1>1, <1>2, CallsIInvariant, PTL DEF Spec

\* A client that got a result, or a tool's error, finds the record of it where
\* no crash can take it away: as long as no line is cut short, and if earlier
\* releases ended every line.
THEOREM AnswersStayRecorded == Terminated => (Spec => []AnswersAreRecorded)
<1>1. AnswersMatch => AnswersAreRecorded
  BY RecordedIsLogged DEF AnswersMatch, AnswersAreRecorded
<1> QED BY <1>1, AnswersInvariant, PTL

-----------------------------------------------------------------------------
(* The refinement: read line by line, the log is the trail of AuditTrail.  *)

\* The event a process is about to record is not in the log yet.
FreshPart == \A p \in Procs : apc[p] \in {"chain", "write"} => event[p] \notin Logged(file)

LEMMA FreshPartNext ==
  ASSUME TypedPart, CallsPart, Synced, CallsMatch, RecordsMatch, FreshPart, [Next]_vars
  PROVE  FreshPart'
<1>0. /\ apc \in [Procs -> Pcs] /\ DOMAIN event = Procs
      /\ phase \in [Procs -> Phases]
      /\ \A p \in Procs : apc[p] \in Serving => event[p] \in Event
      /\ CallPart /\ file \in Files
  BY DEF TypedPart, CallPart, CallsPart, DataPart
\* A step that logs nothing, and begins no record.
<1>1. ASSUME UNCHANGED file,
             \A q \in Procs : apc'[q] \in {"chain", "write"} =>
                apc[q] \in {"chain", "write"} /\ event'[q] = event[q]
      PROVE  FreshPart'
  <2>1. Logged(file)' = Logged(file)
    BY <1>1 DEF Logged
  <2> QED BY <1>1, <2>1 DEF FreshPart
<1>2. ASSUME NEW p \in Procs, WriteRecord(p) \/ WriteShort(p), OnLog(p) PROVE FreshPart'
  <2> SUFFICES ASSUME NEW q \in Procs, apc'[q] \in {"chain", "write"}, event'[q] \in Logged(file)'
               PROVE  FALSE
    BY DEF FreshPart
  <2>1. /\ apc[p] = "write" /\ apc' = [apc EXCEPT ![p] = "sync"] /\ UNCHANGED event
    BY <1>2 DEF WriteRecord, WriteShort, InLock, Goto, OnLog, callVars
  <2>2. q # p /\ apc[q] \in {"chain", "write"} /\ event'[q] = event[q]
    BY <1>0, <2>1
  <2> DEFINE r == NewRecord(p)
  <2>3. file' \in {Appended(file, r)} \cup CutShort(file, r)
    BY <1>2 DEF WriteRecord, WriteShort
  <2>4. r \in Record /\ r.ev = event[p]
    BY <2>1, NewRecordTyped DEF TypedPart, NewRecord
  <2> HIDE DEF r
  <2>5. Logged(file') \subseteq Logged(file) \cup {r.ev} /\ event[q] \in Logged(file')
    BY <1>0, <2>2, <2>3, <2>4, WriteLogs DEF Logged
  <2>6. event[q] = event[p]
    BY <2>2, <2>4, <2>5 DEF FreshPart
  <2> QED BY <2>1, <2>2, <2>6 DEF CallsMatch, Serving
<1>3. CASE Blackout
  BY <1>3 DEF Blackout, PowerLoss, FreshPart
<1>4. ASSUME NEW p \in Procs, OnLog(p), ~ WriteRecord(p), ~ WriteShort(p) PROVE FreshPart'
  <2>1. UNCHANGED <<file, event>>
    BY <1>4 DEF OnLog, callVars, LogStep, TakeLock, LockTimeout, OpenVerified, OpenRejected,
       ReadEnd, ReadEndFails, WriteFails, Sync, SyncFails, LeaveLock, InLock
  <2>2. \A q \in Procs : apc'[q] \in {"chain", "write"} => apc[q] \in {"chain", "write"}
    BY <1>0, <1>4 DEF OnLog, LogStep, TakeLock, LockTimeout, OpenVerified, OpenRejected,
       ReadEnd, ReadEndFails, WriteFails, Sync, SyncFails, LeaveLock, InLock, Goto
  <2> QED BY <1>1, <2>1, <2>2
<1>5. ASSUME NEW p \in Procs,
             \/ Start(p) \/ Started(p) \/ Crash(p)
             \/ AnswerResult(p) \/ AnswerIsError(p) \/ AnswerRpcError(p)
      PROVE  FreshPart'
  <2>1. UNCHANGED file
    BY <1>5 DEF Start, Open, Started, OpenReturns, Return, Crash, Kill,
       AnswerResult, AnswerIsError, AnswerRpcError, Answer
  <2>2. \A q \in Procs : apc'[q] \in {"chain", "write"} => apc'[q] = apc[q] /\ event'[q] = event[q]
    BY <1>0, <1>5 DEF Start, Open, Started, OpenReturns, Return, Crash, Kill,
       AnswerResult, AnswerIsError, AnswerRpcError, Answer, Goto
  <2> QED BY <1>1, <2>1, <2>2
\* A request is new to the log; and the log does not deny it before its second record.
<1>6. ASSUME NEW p \in Procs, UNCHANGED file, event'[p] \notin Logged(file),
             \A q \in Procs \ {p} : apc'[q] = apc[q] /\ event'[q] = event[q]
      PROVE  FreshPart'
  <2>1. Logged(file)' = Logged(file)
    BY <1>6 DEF Logged
  <2> QED BY <1>6, <2>1 DEF FreshPart
<1>7. ASSUME NEW p \in Procs, NEW r \in Requests, Succeed(p, r) \/ Deny(p, r) PROVE FreshPart'
  <2>1. /\ r \notin asked /\ event'[p].req = r /\ UNCHANGED file
        /\ \A q \in Procs \ {p} : apc'[q] = apc[q] /\ event'[q] = event[q]
    BY <1>0, <1>7 DEF Succeed, Deny, Ask, BeginRecord, Goto
  <2>2. event'[p] \notin Logged(file)
    BY <2>1 DEF RecordsMatch
  <2> QED BY <1>6, <2>1, <2>2
<1>8. ASSUME NEW p \in Procs, RecordAgain(p) PROVE FreshPart'
  <2>1. /\ phase[p] = "first" /\ apc[p] = "failed" /\ UNCHANGED file
        /\ event' = [event EXCEPT ![p].outcome = "denied_or_failed"]
        /\ \A q \in Procs \ {p} : apc'[q] = apc[q] /\ event'[q] = event[q]
    BY <1>0, <1>8 DEF RecordAgain, Goto
  <2>2. event[p] \in Event
    BY <1>0, <2>1 DEF Serving
  <2>3. event'[p].req = event[p].req /\ event'[p].outcome = "denied_or_failed"
    BY <1>0, <2>1, <2>2 DEF Event
  <2>4. event'[p] \notin Logged(file)
    BY <2>1, <2>3 DEF RecordsMatch, Serving
  <2> QED BY <1>6, <2>1, <2>4
<1>9. CASE UNCHANGED vars
  BY <1>1, <1>9 DEF vars, auditVars
<1> QED
  BY <1>2, <1>3, <1>4, <1>5, <1>7, <1>8, <1>9 DEF Next, CallStep

LEMMA FreshInvariant == Spec => []FreshPart
<1>1. Init => FreshPart
  BY DEF Init, AuditInit, FreshPart
<1>2. CallsIInv /\ FreshPart /\ [Next]_vars => FreshPart'
  BY FreshPartNext DEF CallsIInv
<1> QED BY <1>1, <1>2, CallsIInvariant, PTL DEF Spec

\* The trail of a file has an entry for each of its lines.
Entry == Event \cup {NoEvent}

LEMMA TrailTyped ==
  ASSUME NEW f \in Files
  PROVE  /\ TrailOf(f) \in Seq(Entry) /\ Len(TrailOf(f)) = Len(f.recs)
         /\ \A i \in 1..Len(f.recs) : TrailOf(f)[i] = EventOf(f.recs[i])
<1>1. f.recs \in Seq(Record \cup {Garbage}) /\ Len(f.recs) \in Nat
  BY DEF Files
<1>2. \A i \in 1..Len(f.recs) : EventOf(f.recs[i]) \in Entry
  <2> SUFFICES ASSUME NEW i \in 1..Len(f.recs) PROVE EventOf(f.recs[i]) \in Entry
    OBVIOUS
  <2>1. f.recs[i] \in Record \/ f.recs[i] = Garbage
    BY <1>1
  <2> QED BY <2>1 DEF EventOf, Entry, Record
<1>3. TrailOf(f) \in [1..Len(f.recs) -> Entry]
  BY <1>2 DEF TrailOf
<1>4. TrailOf(f) \in Seq(Entry)
  BY <1>1, <1>3, SeqDef
<1>5. Len(TrailOf(f)) \in Nat /\ 1..Len(TrailOf(f)) = 1..Len(f.recs)
  BY <1>3, <1>4, LenProperties
<1>6. Len(TrailOf(f)) = Len(f.recs)
  BY <1>1, <1>5
<1> QED BY <1>4, <1>6 DEF TrailOf

LEMMA LoggedIsInTrail ==
  ASSUME NEW f \in Files, NEW e \in Event
  PROVE  e \in Logged(f) <=> e \in Trail!ToSet(TrailOf(f))
<1>1. e # NoEvent
  <2>1. "outcome" \in DOMAIN e
    BY DEF Event
  <2>2. "outcome" \notin DOMAIN NoEvent
    BY DEF NoEvent
  <2> QED BY <2>1, <2>2
<1>2. DOMAIN TrailOf(f) = 1..Len(f.recs)
  BY DEF TrailOf
<1>3. e \in Trail!ToSet(TrailOf(f)) <=> \E i \in 1..Len(f.recs) : EventOf(f.recs[i]) = e
  BY <1>2, TrailTyped DEF Trail!ToSet
<1>4. \A i \in 1..Len(f.recs) :
         EventOf(f.recs[i]) = e <=> f.recs[i] # Garbage /\ f.recs[i].ev = e
  BY <1>1 DEF EventOf
<1> QED BY <1>3, <1>4 DEF Logged

\* A line in full is one more entry; a first part of the file is one of the trail.
LEMMA TrailGrows ==
  ASSUME NEW f \in Files, NEW r \in Record, f.tail = Empty
  PROVE  TrailOf(Appended(f, r)) = Append(TrailOf(f), r.ev)
<1> DEFINE g == Appended(f, r)
<1>1. g \in Files /\ g.recs = Append(f.recs, r)
  BY WrittenTyped DEF Appended
<1>2. f.recs \in Seq(Record \cup {Garbage}) /\ Len(f.recs) \in Nat /\ r \in Record \cup {Garbage}
  BY DEF Files
<1>3. /\ Len(g.recs) = Len(f.recs) + 1 /\ g.recs[Len(f.recs) + 1] = r
      /\ \A i \in 1..Len(f.recs) : g.recs[i] = f.recs[i]
  BY <1>1, <1>2, AppendProperties
<1>4. EventOf(r) = r.ev /\ r.ev \in Entry
  BY MarksAreNoRecords DEF EventOf, Entry, Record
<1> HIDE DEF g
<1>5. /\ TrailOf(g) \in Seq(Entry) /\ Len(TrailOf(g)) = Len(f.recs) + 1
      /\ \A i \in 1..Len(f.recs) : TrailOf(g)[i] = EventOf(f.recs[i])
      /\ TrailOf(g)[Len(f.recs) + 1] = r.ev
  <2>1. /\ TrailOf(g) \in Seq(Entry) /\ Len(TrailOf(g)) = Len(g.recs)
        /\ \A i \in 1..Len(g.recs) : TrailOf(g)[i] = EventOf(g.recs[i])
    BY <1>1, TrailTyped
  <2>2. \A i \in 1..Len(f.recs) : i \in 1..Len(g.recs)
    BY <1>2, <1>3
  <2>3. Len(f.recs) + 1 \in 1..Len(g.recs)
    BY <1>2, <1>3
  <2> QED BY <1>3, <1>4, <2>1, <2>2, <2>3
<1>6. /\ TrailOf(f) \in Seq(Entry) /\ Len(TrailOf(f)) = Len(f.recs)
      /\ \A i \in 1..Len(f.recs) : TrailOf(f)[i] = EventOf(f.recs[i])
  BY TrailTyped
<1> DEFINE a == Append(TrailOf(f), r.ev)
<1>7. /\ a \in Seq(Entry) /\ Len(a) = Len(f.recs) + 1
      /\ \A i \in 1..Len(f.recs) : a[i] = EventOf(f.recs[i])
      /\ a[Len(f.recs) + 1] = r.ev
  BY <1>4, <1>6, AppendProperties
<1> HIDE DEF a
<1>8. \A i \in 1..Len(a) : TrailOf(g)[i] = a[i]
  BY <1>2, <1>5, <1>7
<1>9. TrailOf(g) = a
  BY <1>5, <1>7, <1>8, SeqEqual
<1> QED BY <1>9 DEF a, g

LEMMA TrailShrinks ==
  ASSUME NEW f \in Files, NEW g \in Files, NEW n \in 0..Len(f.recs), Len(g.recs) = n,
         \A i \in 1..n : g.recs[i] = f.recs[i]
  PROVE  TrailOf(g) = SubSeq(TrailOf(f), 1, n)
<1>1. Len(f.recs) \in Nat /\ n \in Nat
  BY DEF Files
<1>2. /\ TrailOf(g) \in Seq(Entry) /\ Len(TrailOf(g)) = n
      /\ \A i \in 1..n : TrailOf(g)[i] = EventOf(f.recs[i])
  BY TrailTyped
<1>3. /\ TrailOf(f) \in Seq(Entry) /\ Len(TrailOf(f)) = Len(f.recs)
      /\ \A i \in 1..Len(f.recs) : TrailOf(f)[i] = EventOf(f.recs[i])
  BY TrailTyped
<1>4. ASSUME NEW i \in 1..n PROVE TrailOf(f)[i] \in Entry
  <2>1. i \in 1..Len(TrailOf(f))
    BY <1>1, <1>3
  <2> QED BY <1>3, <2>1, ElementOfSeq
<1> DEFINE s == SubSeq(TrailOf(f), 1, n)
<1>5. /\ s \in Seq(Entry) /\ Len(s) = IF 1 <= n THEN n - 1 + 1 ELSE 0
      /\ \A i \in 1..n - 1 + 1 : s[i] = TrailOf(f)[1 + i - 1]
  BY <1>1, <1>4, SubSeqProperties
<1> HIDE DEF s
<1>6. Len(s) = n /\ \A i \in 1..n : s[i] = EventOf(f.recs[i])
  BY <1>1, <1>3, <1>5
<1>7. TrailOf(g) = s
  BY <1>2, <1>5, <1>6, SeqEqual
<1> QED BY <1>7 DEF s

\* What the user sees of the log.
TrailVars == <<TrailOf(file), TrailOf(disk), done, told>>

\* Steps that neither record, nor save, nor answer, nor do anything.
LEMMA QuietSteps ==
  ASSUME UNCHANGED <<file, disk, done, told>>
  PROVE  UNCHANGED TrailVars
BY DEF TrailVars, TrailOf

LEMMA WriteMaps ==
  ASSUME TypedPart, CallsPart, CallsMatch, FreshPart, file.tail = Empty,
         NEW p \in Procs, WriteRecord(p), OnLog(p)
  PROVE  Trail!Next
<1> DEFINE r == NewRecord(p)
<1>0. /\ file \in Files /\ (\A q \in Procs : apc[q] \in Serving => event[q] \in Event)
  BY DEF TypedPart, DataPart, CallPart
<1>1. /\ apc[p] = "write" /\ file' = Appended(file, r) /\ UNCHANGED <<disk, done, told>>
  BY DEF WriteRecord, InLock, Goto, OnLog, callVars
<1>2. r \in Record /\ r.ev = event[p]
  BY <1>1, NewRecordTyped DEF TypedPart, NewRecord
<1> HIDE DEF r
<1>3. event[p] \in Event
  BY <1>0, <1>1 DEF Serving
<1>4. event[p] \notin Trail!ToSet(TrailOf(file))
  BY <1>0, <1>1, <1>3, LoggedIsInTrail DEF FreshPart
<1>5. event[p].outcome = "allowed" => event[p].req \in done
  BY <1>1 DEF CallsMatch, Serving
<1>6. <<event[p].req, "result">> \notin told
  BY <1>1 DEF CallsMatch, Serving, Answers
<1>7. TrailOf(Appended(file, r)) = Append(TrailOf(file), r.ev)
  BY <1>0, <1>2, TrailGrows
<1>8. TrailOf(file)' = Append(TrailOf(file), event[p]) /\ UNCHANGED TrailOf(disk)
  BY <1>1, <1>2, <1>7 DEF TrailOf
<1>9. Trail!Record(event[p])
  BY <1>1, <1>4, <1>5, <1>6, <1>8 DEF Trail!Record
<1>10. event[p] \in Trail!Event
  BY <1>3 DEF Event, Outcomes, Trail!Event
<1> QED BY <1>9, <1>10 DEF Trail!Next

\* The answer of a call, the record of which is on the disk.
LEMMA AnswerMaps ==
  ASSUME TypedPart, CallsPart, CallsMatch, AnswersMatch, ~ torn,
         NEW p \in Procs, AnswerResult(p) \/ AnswerIsError(p) \/ AnswerRpcError(p)
  PROVE  Trail!Next
<1> DEFINE r == event[p].req
<1>0. disk \in Files /\ CallPart
  BY DEF TypedPart, DataPart
<1>1. apc[p] \in {"ok", "failed"} /\ UNCHANGED <<file, disk, done>>
  BY DEF AnswerResult, AnswerIsError, AnswerRpcError, Answer, Return, Goto
<1>2. event[p] \in Event /\ r \in Requests
  BY <1>0, <1>1 DEF CallPart, Serving, Event
<1>3. event[p] = [req |-> r, outcome |-> event[p].outcome]
  BY <1>2 DEF Event
<1>4. \A b \in Trail!Answers : <<r, b>> \notin told
  BY <1>1 DEF CallsMatch, Serving, Answers, Trail!Answers
<1>5. apc[p] = "ok" => event[p] \in Trail!ToSet(TrailOf(disk))
  BY <1>0, <1>2, LoggedIsInTrail DEF AnswersMatch
<1>6. UNCHANGED <<TrailOf(file), TrailOf(disk), done>>
  BY <1>1 DEF TrailOf
<1>7. ASSUME AnswerResult(p) PROVE Trail!Tell(r, "result")
  <2>1. event[p].outcome = "allowed" /\ apc[p] = "ok" /\ told' = told \cup {<<r, "result">>}
    BY <1>1, <1>7 DEF AnswerResult, Answer, Return, Goto, CallsMatch, Serving
  <2>2. Trail!Has(r, "allowed")
    BY <1>3, <1>5, <2>1 DEF Trail!Has
  <2> QED BY <1>4, <1>6, <2>1, <2>2 DEF Trail!Tell
<1>8. ASSUME AnswerIsError(p) PROVE Trail!Tell(r, "isError")
  <2>1. /\ event[p].outcome = "denied_or_failed" /\ apc[p] = "ok"
        /\ told' = told \cup {<<r, "isError">>}
    BY <1>1, <1>8 DEF AnswerIsError, Answer, Return, Goto, CallsMatch, Serving
  <2>2. Trail!Has(r, "denied_or_failed")
    BY <1>3, <1>5, <2>1 DEF Trail!Has
  <2> QED BY <1>4, <1>6, <2>1, <2>2 DEF Trail!Tell
<1>9. ASSUME AnswerRpcError(p) PROVE Trail!Tell(r, "rpcError")
  <2>1. told' = told \cup {<<r, "rpcError">>}
    BY <1>9 DEF AnswerRpcError, Answer
  <2> QED BY <1>4, <1>6, <2>1 DEF Trail!Tell
<1>10. \E a \in Trail!Answers : Trail!Tell(r, a)
  BY <1>7, <1>8, <1>9 DEF Trail!Answers
<1> QED BY <1>2, <1>10 DEF Trail!Next

LEMMA BlackoutMaps ==
  ASSUME TypedPart, Synced, Blackout
  PROVE  Trail!Next
<1>0. file \in Files /\ disk \in Files /\ Len(file.recs) \in Nat /\ Len(disk.recs) \in Nat
  BY DEF TypedPart, DataPart, Files
<1>1. /\ file' \in AfterPowerLoss /\ Survives(file') /\ disk' = file'
      /\ UNCHANGED <<done, told>>
  BY DEF Blackout, PowerLoss
<1>2. /\ Len(disk.recs) <= Len(file'.recs) /\ Len(file'.recs) <= Len(file.recs)
      /\ \A i \in 1..Len(file'.recs) : file'.recs[i] = file.recs[i]
  BY <1>0, <1>1, LossKeepsSynced
<1>3. file' \in Files /\ Len(file'.recs) \in Nat
  BY <1>0, <1>1, SurvivorsTyped DEF Files
<1>4. PICK n \in 0..Len(file.recs) : n = Len(file'.recs) /\ n >= Len(disk.recs)
  BY <1>0, <1>2, <1>3
<1>5. PICK g \in Files : g = file'
  BY <1>3
<1>6. TrailOf(g) = SubSeq(TrailOf(file), 1, n)
  BY <1>0, <1>2, <1>4, <1>5, TrailShrinks
<1>7. TrailOf(file)' = TrailOf(g) /\ TrailOf(disk)' = TrailOf(g)
  BY <1>1, <1>5 DEF TrailOf
<1>8. Len(TrailOf(file)) = Len(file.recs) /\ Len(TrailOf(disk)) = Len(disk.recs)
  BY <1>0, TrailTyped
<1>9. n \in Len(TrailOf(disk))..Len(TrailOf(file))
  BY <1>0, <1>4, <1>8
<1> QED BY <1>1, <1>6, <1>7, <1>9 DEF Trail!Lose, Trail!Next

LEMMA TrailStep ==
  CallsIInv /\ FreshPart /\ AnswersMatch /\ [Next]_vars => [~ torn' => Trail!Next]_TrailVars
<1> SUFFICES ASSUME CallsIInv, FreshPart, AnswersMatch, [Next]_vars, ~ torn'
             PROVE  Trail!Next \/ UNCHANGED TrailVars
  OBVIOUS
<1> USE DEF CallsIInv
<1>1. ~ torn /\ \A p \in Procs : ~ WriteShort(p)
  <2>1. LogNext => torn' = torn \/ PowerLoss \/ \E p \in Procs : WriteShort(p)
    BY DEF LogNext, Open, OpenReturns, BeginRecord, RecordAgain, Return, LogStep, TakeLock,
       LockTimeout, OpenVerified, OpenRejected, ReadEnd, ReadEndFails, WriteRecord, WriteFails,
       Sync, SyncFails, LeaveLock, InLock, Kill
  <2>2. torn' = torn \/ PowerLoss \/ \E p \in Procs : WriteShort(p)
    BY <2>1, LogSteps DEF auditVars
  <2>3. \A p \in Procs : ~ WriteShort(p)
    BY DEF WriteShort
  <2>4. PowerLoss => ~ torn
    BY DEF PowerLoss
  <2> QED BY <2>2, <2>3, <2>4
<1>2. file.tail = Empty
  BY <1>1 DEF AnswersMatch
<1>3. ASSUME NEW p \in Procs, OnLog(p) PROVE Trail!Next \/ UNCHANGED TrailVars
  <2>1. CASE WriteRecord(p)
    BY <1>2, <1>3, <2>1, WriteMaps
  <2>2. CASE Sync(p)
    <3>1. disk' = file /\ UNCHANGED <<file, done, told>>
      BY <1>3, <2>2 DEF Sync, OnLog, callVars
    <3>2. TrailOf(disk)' = TrailOf(file) /\ UNCHANGED TrailOf(file)
      BY <3>1 DEF TrailOf
    <3> QED BY <3>1, <3>2 DEF Trail!Save, Trail!Next
  <2>3. CASE ~ WriteRecord(p) /\ ~ Sync(p)
    <3>1. UNCHANGED <<file, disk, done, told>>
      BY <1>1, <1>3, <2>3 DEF OnLog, callVars, LogStep, TakeLock, LockTimeout, OpenVerified,
         OpenRejected, ReadEnd, ReadEndFails, WriteFails, SyncFails, LeaveLock, InLock
    <3> QED BY <3>1, QuietSteps
  <2> QED BY <2>1, <2>2, <2>3
<1>4. ASSUME NEW p \in Procs, NEW r \in Requests, Succeed(p, r) PROVE Trail!Next
  <2>1. r \notin asked /\ done' = done \cup {r} /\ UNCHANGED <<file, disk, told>>
    BY <1>4 DEF Succeed, Ask, BeginRecord
  <2>2. r \notin done
    BY <2>1 DEF CallsPart
  <2>3. UNCHANGED <<TrailOf(file), TrailOf(disk), told>>
    BY <2>1 DEF TrailOf
  <2> QED BY <2>1, <2>2, <2>3 DEF Trail!Act, Trail!Next
<1>5. ASSUME NEW p \in Procs,
             \/ Start(p) \/ Started(p) \/ RecordAgain(p) \/ Crash(p)
             \/ \E r \in Requests : Deny(p, r)
      PROVE  UNCHANGED TrailVars
  <2>1. UNCHANGED <<file, disk, done, told>>
    BY <1>5 DEF Start, Open, callVars, Started, OpenReturns, Return, RecordAgain, Crash, Kill,
       Deny, Ask, BeginRecord
  <2> QED BY <2>1, QuietSteps
<1>6. ASSUME NEW p \in Procs, AnswerResult(p) \/ AnswerIsError(p) \/ AnswerRpcError(p)
      PROVE  Trail!Next
  BY <1>1, <1>6, AnswerMaps
<1>7. CASE Blackout
  BY <1>7, BlackoutMaps
<1>8. CASE UNCHANGED vars
  BY <1>8, QuietSteps DEF vars, auditVars, callVars
<1> QED BY <1>3, <1>4, <1>5, <1>6, <1>7, <1>8 DEF Next, CallStep

\* If earlier releases ended every line, and as long as no line is cut short, the
\* log is a trail: each event once and after what it reports, what was saved never
\* lost, and no answer before its record is saved.
THEOREM TrailStaysKept == Terminated => (Spec => TrailIsKept)
<1> SUFFICES ASSUME Terminated PROVE Spec => TrailIsKept
  OBVIOUS
<1>1. Init => Trail!Init
  <2> SUFFICES ASSUME Init PROVE Trail!Init
    OBVIOUS
  <2>1. file.recs = <<>> /\ disk.recs = <<>> /\ done = {} /\ told = {}
    BY DEF Init, AuditInit
  <2>2. TrailOf(file) = <<>> /\ TrailOf(disk) = <<>>
    BY <2>1 DEF TrailOf
  <2> QED BY <2>1, <2>2 DEF Trail!Init
<1>2. Spec => [](CallsIInv /\ FreshPart /\ AnswersMatch)
  BY CallsIInvariant, FreshInvariant, AnswersInvariant, PTL
<1> QED BY <1>1, <1>2, TrailStep, PTL DEF Spec, TrailIsKept, TrailVars
=============================================================================
