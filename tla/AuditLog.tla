------------------------------ MODULE AuditLog ------------------------------
(***************************************************************************)
(* AuditLogger (src/gpthands/audit.py): a JSON-lines file that every MCP   *)
(* server process of the user opens, verifies and appends to under a file  *)
(* lock. Each record holds its number and the digest of the one before it; *)
(* records of releases without the chain may precede the first.            *)
(*                                                                         *)
(* A digest is perfect: it stands for what it is the digest of. The bytes  *)
(* before the chain are lines that are "legacy" or "blank"; after them come *)
(* records, lines that no longer parse, and what follows the last newline. *)
(***************************************************************************)
EXTENDS Naturals, Sequences

CONSTANTS
    Procs,          \* processes that write the log
    NoProc,         \* nobody holds the lock
    Requests,       \* the tool calls that are recorded
    Beginnings,     \* what earlier releases may have left in the file
    MaxRecords,     \* bound on the records made
    PartialWrites   \* TRUE: os.write may leave only part of a line

\* What may follow the last newline, besides a whole record: nothing, part of
\* a record, or the last legacy line.
Empty == [mark |-> "empty"]
Fragment == [mark |-> "fragment"]
Unterminated == [mark |-> "legacy"]

Garbage == [mark |-> "garbage"]     \* a line that does not parse

Outcomes == {"allowed", "denied_or_failed"}

Beginning == [lines : Seq({"legacy", "blank"}), open : BOOLEAN]

ASSUME AuditAssumption ==
    /\ NoProc \notin Procs
    /\ Beginnings \subseteq Beginning /\ Beginnings # {}
    /\ MaxRecords \in Nat
    /\ PartialWrites \in BOOLEAN

VARIABLES
    pre,                    \* the lines before the chain; they never change
    file,                   \* the rest of the log as a reader sees it
    disk,                   \* the part of it that is sure to survive a power loss
    made,                   \* records made so far: each one differs from all others
    apc, event, link,       \* what each process does, for which event, and what
                            \* it read of the end of the chain
    torn,                   \* history: a line was cut short
    holder, held, lpc       \* the lock of the log: see FileLock

Lock == INSTANCE FileLock WITH Threads <- Procs, Handles <- Procs,
                               HandleOf <- [p \in Procs |-> p], NoHandle <- NoProc

lockVars == <<holder, held, lpc>>
auditVars == <<pre, file, disk, made, apc, event, link, torn, lockVars>>

-----------------------------------------------------------------------------
Digest == [rec : Nat, bytes : Seq({"legacy", "blank"})]

Genesis == [rec |-> 0, bytes |-> <<>>]
OfBytes(s) == [rec |-> 0, bytes |-> s]
OfRecord(r) == [rec |-> r.id, bytes |-> <<>>]

Event == [req : Requests, outcome : Outcomes]
Record == [seq : Nat, prev : Digest, id : Nat, ev : Event]

Files == [recs : Seq(Record \cup {Garbage}),
          tail : {Empty, Fragment, Unterminated} \cup Record]

\* _verify_stream: the digest of the legacy lines, which skips blank ones.
VerifierAnchor(p) == OfBytes(SelectSeq(p.lines, LAMBDA l : l = "legacy"))

\* _chain_state_locked: the digest of all the bytes of the file, if the last
\* line that is not blank is a legacy one.
RecordAnchor(p) ==
    IF \E i \in DOMAIN p.lines : p.lines[i] = "legacy" THEN OfBytes(p.lines) ELSE Genesis

\* All the lines after the prefix, the last of them perhaps without newline.
Lines(f) == IF f.tail \in {Empty, Unterminated} THEN f.recs ELSE Append(f.recs, f.tail)

\* _verify_stream, from the first record on.
ChainFrom(anchor, lines) ==
    \A i \in 1..Len(lines) :
        /\ lines[i] \notin {Garbage, Fragment}
        /\ lines[i].seq = i
        /\ lines[i].prev = IF i = 1 THEN anchor ELSE OfRecord(lines[i - 1])

Verifies(p, f) == ChainFrom(VerifierAnchor(p), Lines(f))

EndParses(f) == Lines(f) # <<>> => Lines(f)[Len(Lines(f))] \notin {Garbage, Fragment}

\* The end of the chain, as the next record needs it.
EndOfChain(p, lines) ==
    IF lines = <<>> THEN [seq |-> 1, prev |-> RecordAnchor(p)]
    ELSE [seq |-> lines[Len(lines)].seq + 1, prev |-> OfRecord(lines[Len(lines)])]

\* os.write of a line in full: it continues a line that has no newline.
Appended(f, r) ==
    [recs |-> Append(f.recs, IF f.tail = Empty THEN r ELSE Garbage), tail |-> Empty]

\* What a short count leaves: part of the record, or all but its newline.
CutShort(f, r) ==
    {[f EXCEPT !.tail = t] : t \in IF f.tail = Empty THEN {Fragment, r} ELSE {Fragment}}

\* What a power loss leaves of the lines that were not synced: the first n, and
\* behind them what was there, or part of a line.
AfterPowerLoss ==
    {[recs |-> SubSeq(file.recs, 1, n), tail |-> t] :
        n \in Len(disk.recs)..Len(file.recs), t \in {Empty, Fragment, disk.tail, file.tail}}

Survives(f) ==
    /\ f \in AfterPowerLoss
    /\ \/ f.tail = Fragment /\ PartialWrites /\ Len(f.recs) < Len(file.recs)
       \/ f.tail = IF Len(f.recs) = Len(disk.recs) THEN disk.tail ELSE Empty
       \/ f.tail = file.tail /\ Len(f.recs) = Len(file.recs)

-----------------------------------------------------------------------------
Pcs == {"closed", "verify", "opened", "rejected", "ready", "chain", "write", "sync",
        "ok", "failed"}

Links == [seq : Nat, prev : Digest]

AuditTypeOK ==
    /\ pre \in Beginnings
    /\ file \in Files /\ disk \in Files
    /\ made \in 0..MaxRecords
    /\ apc \in [Procs -> Pcs]
    /\ \A p \in Procs :
          /\ apc[p] \in {"chain", "write", "sync", "ok", "failed"} => event[p] \in Event
          /\ apc[p] = "write" => link[p] \in Links
    /\ torn \in BOOLEAN
    /\ Lock!TypeOK

NoEvent == [req |-> "none"]
NoLink == [seq |-> 0]

AuditInit ==
    /\ pre \in Beginnings
    /\ file = [recs |-> <<>>, tail |-> IF pre.open THEN Unterminated ELSE Empty]
    /\ disk = file
    /\ made = 0
    /\ apc = [p \in Procs |-> "closed"]
    /\ event = [p \in Procs |-> NoEvent]
    /\ link = [p \in Procs |-> NoLink]
    /\ torn = FALSE
    /\ Lock!Init

Goto(p, from, to) == apc[p] = from /\ apc' = [apc EXCEPT ![p] = to]

\* AuditLogger.__init__ goes to the lock to verify what is in the file.
Open(p) ==
    /\ Goto(p, "closed", "verify")
    /\ Lock!Acquire(p)
    /\ UNCHANGED <<pre, file, disk, made, event, link, torn>>

\* record goes to the lock.
BeginRecord(p, e) ==
    /\ Goto(p, "ready", "chain")
    /\ event' = [event EXCEPT ![p] = e]
    /\ Lock!Acquire(p)
    /\ UNCHANGED <<pre, file, disk, made, link, torn>>

TakeLock(p) ==
    /\ Lock!Flock(p) \/ Lock!MarkHeld(p)
    /\ UNCHANGED <<pre, file, disk, made, apc, event, link, torn>>

LockTimeout(p) ==
    /\ Lock!GiveUp(p)
    /\ Goto(p, "verify", "rejected") \/ Goto(p, "chain", "failed")
    /\ UNCHANGED <<pre, file, disk, made, event, link, torn>>

\* A step of the body of "with self._lock".
InLock(p, from, to) ==
    /\ Goto(p, from, to)
    /\ Lock!InBody(p)
    /\ UNCHANGED <<pre, event, lockVars>>

OpenVerified(p) ==
    /\ InLock(p, "verify", "opened")
    /\ Verifies(pre, file)
    /\ UNCHANGED <<file, disk, made, link, torn>>

OpenRejected(p) ==
    /\ InLock(p, "verify", "rejected")
    /\ ~ Verifies(pre, file)
    /\ UNCHANGED <<file, disk, made, link, torn>>

\* Mutant: the end of the chain is read before the lock is taken.
ReadEndUnlocked(p) ==
    /\ Goto(p, "chain", "write")
    /\ EndParses(file)
    /\ link' = [link EXCEPT ![p] = EndOfChain(pre, Lines(file))]
    /\ UNCHANGED <<pre, event, lockVars, file, disk, made, torn>>

\* Mutant: a last line that does not parse is taken for the end of the chain.
ReadEndOfAnything(p) ==
    /\ InLock(p, "chain", "write")
    /\ LET lines == SelectSeq(Lines(file), LAMBDA l : l \notin {Garbage, Fragment})
       IN  link' = [link EXCEPT ![p] = EndOfChain(pre, lines)]
    /\ UNCHANGED <<file, disk, made, torn>>

\* _chain_state_locked: the last line is a record, or there is none yet.
ReadEnd(p) ==
    /\ InLock(p, "chain", "write")
    /\ EndParses(file)
    /\ link' = [link EXCEPT ![p] = EndOfChain(pre, Lines(file))]
    /\ UNCHANGED <<file, disk, made, torn>>

\* "last audit record is malformed"; or the file cannot be read.
ReadEndFails(p) ==
    /\ InLock(p, "chain", "failed")
    /\ UNCHANGED <<file, disk, made, link, torn>>

NewRecord(p) == [seq |-> link[p].seq, prev |-> link[p].prev, id |-> made + 1, ev |-> event[p]]

WriteRecord(p) ==
    /\ made < MaxRecords
    /\ InLock(p, "write", "sync")
    /\ file' = Appended(file, NewRecord(p))
    /\ made' = made + 1
    /\ UNCHANGED <<disk, link, torn>>

\* The count os.write returns is not looked at.
WriteShort(p) ==
    /\ PartialWrites /\ made < MaxRecords
    /\ InLock(p, "write", "sync")
    /\ file' \in CutShort(file, NewRecord(p))
    /\ made' = made + 1
    /\ torn' = TRUE
    /\ UNCHANGED <<disk, link>>

WriteFails(p) ==
    /\ InLock(p, "write", "failed")
    /\ UNCHANGED <<file, disk, made, link, torn>>

\* Mutant: no fsync.
SyncForgotten(p) == InLock(p, "sync", "ok") /\ UNCHANGED <<file, disk, made, link, torn>>

Sync(p) ==
    /\ InLock(p, "sync", "ok")
    /\ disk' = file
    /\ UNCHANGED <<file, made, link, torn>>

\* fsync raises: the record is in the file, and record() fails all the same.
SyncFails(p) ==
    /\ InLock(p, "sync", "failed")
    /\ UNCHANGED <<file, disk, made, link, torn>>

LeaveLock(p) ==
    /\ apc[p] \in {"opened", "rejected", "ok", "failed"}
    /\ Lock!ReleaseStep(p)
    /\ UNCHANGED <<pre, file, disk, made, apc, event, link, torn>>

\* The operation that ends in state "how" returns to its caller.
Return(p, how, to) ==
    /\ lpc[p] = "out"
    /\ Goto(p, how, to)
    /\ event' = [event EXCEPT ![p] = NoEvent]
    /\ link' = [link EXCEPT ![p] = NoLink]
    /\ UNCHANGED <<pre, file, disk, made, torn, lockVars>>

\* The constructor returns, or raises and the server does not start.
OpenReturns(p) == Return(p, "opened", "ready") \/ Return(p, "rejected", "closed")

Kill(p) ==
    /\ apc[p] # "closed"
    /\ apc' = [apc EXCEPT ![p] = "closed"]
    /\ event' = [event EXCEPT ![p] = NoEvent]
    /\ link' = [link EXCEPT ![p] = NoLink]
    /\ Lock!Die(p)
    /\ UNCHANGED <<pre, file, disk, made, torn>>

PowerLoss ==
    /\ file' \in {f \in AfterPowerLoss : Survives(f)}
    /\ disk' = file'
    /\ torn' = (torn \/ file'.tail \notin {Empty, disk.tail})
    /\ apc' = [p \in Procs |-> "closed"]
    /\ event' = [p \in Procs |-> NoEvent]
    /\ link' = [p \in Procs |-> NoLink]
    /\ Lock!DieAll
    /\ UNCHANGED <<pre, made>>

LogStep(p) ==
    \/ TakeLock(p) \/ LockTimeout(p)
    \/ OpenVerified(p) \/ OpenRejected(p)
    \/ ReadEnd(p) \/ ReadEndFails(p)
    \/ WriteRecord(p) \/ WriteShort(p) \/ WriteFails(p) \/ Sync(p) \/ SyncFails(p)
    \/ LeaveLock(p)
-----------------------------------------------------------------------------
\* However many processes write the log, and whichever of them die, it
\* verifies, unless a line was cut short: what one process reads of the end of
\* the chain is still the end when it appends.
VerifiesUnlessTorn == ~ torn => Verifies(pre, file)

\* After a line that does not parse there is never another: a damaged log is
\* not written on, neither by a process that starts nor by one that had opened
\* it before the damage.
DamageIsLast ==
    \A i \in 1..Len(Lines(file)) :
        Lines(file)[i] \in {Garbage, Fragment} => i = Len(Lines(file))
=============================================================================
