---------------------------- MODULE AuditedCalls ----------------------------
(***************************************************************************)
(* The MCP server's _call_tool (src/gpthands/server.py) around the audit   *)
(* log: a tool runs, its outcome is recorded, and the client gets the      *)
(* result. An error of the tool OR OF THE RECORD is recorded as denied and *)
(* given to the client as the result of the tool; when that record fails,  *)
(* the client gets an RPC error. A server serves one call at a time.       *)
(***************************************************************************)
EXTENDS AuditLog

VARIABLES
    phase,      \* where the call of each process is
    asked,      \* the requests that have come: each is a call of its own
    done,       \* history: requests whose action took effect
    told        \* history: what the clients were told of each request

callVars == <<phase, asked, done, told>>
vars == <<auditVars, callVars>>

Phases == {"none", "idle", "first", "second"}
Answers == {"result", "isError", "rpcError"}

TypeOK ==
    /\ AuditTypeOK
    /\ phase \in [Procs -> Phases]
    /\ done \subseteq asked /\ asked \subseteq Requests
    /\ told \subseteq Requests \X Answers

Init ==
    /\ AuditInit
    /\ phase = [p \in Procs |-> "none"]
    /\ asked = {} /\ done = {} /\ told = {}

\* serve: the log is opened and verified, then the server reads requests.
Start(p) == phase[p] = "none" /\ Open(p) /\ UNCHANGED callVars

Started(p) ==
    /\ OpenReturns(p)
    /\ phase' = [phase EXCEPT ![p] = IF apc[p] = "opened" THEN "idle" ELSE "none"]
    /\ UNCHANGED <<asked, done, told>>

Ask(p, r, o) ==
    /\ phase[p] = "idle"
    /\ r \notin asked
    /\ asked' = asked \cup {r}
    /\ BeginRecord(p, [req |-> r, outcome |-> o])

\* The tool has returned; "allowed" is what goes into the log.
Succeed(p, r) ==
    /\ Ask(p, r, "allowed")
    /\ phase' = [phase EXCEPT ![p] = "first"]
    /\ done' = done \cup {r}
    /\ UNCHANGED told

\* The tool has raised: a refusal, or a failure.
Deny(p, r) ==
    /\ Ask(p, r, "denied_or_failed")
    /\ phase' = [phase EXCEPT ![p] = "second"]
    /\ UNCHANGED <<done, told>>

\* Mutant: the second record is taken for the first.
RecordAgainAsFirst(p) ==
    /\ phase[p] = "first"
    /\ lpc[p] = "out"
    /\ Goto(p, "failed", "chain")
    /\ event' = [event EXCEPT ![p].outcome = "denied_or_failed"]
    /\ link' = [link EXCEPT ![p] = NoLink]
    /\ Lock!Acquire(p)
    /\ UNCHANGED <<phase, pre, file, disk, made, torn, asked, done, told>>

\* Mutant: the second record repeats the event of the first.
RecordSameAgain(p) ==
    /\ phase[p] = "first"
    /\ lpc[p] = "out"
    /\ Goto(p, "failed", "chain")
    /\ link' = [link EXCEPT ![p] = NoLink]
    /\ Lock!Acquire(p)
    /\ phase' = [phase EXCEPT ![p] = "second"]
    /\ UNCHANGED <<event, pre, file, disk, made, torn, asked, done, told>>

\* record raised inside the try: its error is now the outcome of the tool.
RecordAgain(p) ==
    /\ phase[p] = "first"
    /\ lpc[p] = "out"
    /\ Goto(p, "failed", "chain")
    /\ event' = [event EXCEPT ![p].outcome = "denied_or_failed"]
    /\ link' = [link EXCEPT ![p] = NoLink]
    /\ Lock!Acquire(p)
    /\ phase' = [phase EXCEPT ![p] = "second"]
    /\ UNCHANGED <<pre, file, disk, made, torn, asked, done, told>>

Answer(p, how, from, a) ==
    /\ phase[p] = from
    /\ Return(p, how, "ready")
    /\ phase' = [phase EXCEPT ![p] = "idle"]
    /\ told' = told \cup {<<event[p].req, a>>}
    /\ UNCHANGED <<asked, done>>

AnswerResult(p) == Answer(p, "ok", "first", "result")
AnswerIsError(p) == Answer(p, "ok", "second", "isError")
AnswerRpcError(p) == Answer(p, "failed", "second", "rpcError")

OnLog(p) == LogStep(p) /\ UNCHANGED callVars

Crash(p) ==
    /\ Kill(p)
    /\ phase' = [phase EXCEPT ![p] = "none"]
    /\ UNCHANGED <<asked, done, told>>

Blackout ==
    /\ PowerLoss
    /\ phase' = [p \in Procs |-> "none"]
    /\ UNCHANGED <<asked, done, told>>

CallStep(p) ==
    OnLog(p) \/ Started(p) \/ RecordAgain(p) \/ AnswerResult(p) \/ AnswerIsError(p) \/ AnswerRpcError(p)

Next ==
    \/ \E p \in Procs : Start(p) \/ CallStep(p) \/ Crash(p)
    \/ \E p \in Procs, r \in Requests : Succeed(p, r) \/ Deny(p, r)
    \/ Blackout

Spec == Init /\ [][Next]_vars

-----------------------------------------------------------------------------
Recorded(f, r, o) ==
    \E i \in 1..Len(f.recs) : f.recs[i] # Garbage /\ f.recs[i].ev = [req |-> r, outcome |-> o]

\* A client that was given a result finds "allowed" for its request in the
\* part of the log that no crash can take away; one that was given the error
\* of a tool finds the denial there. Only an RPC error promises nothing.
AnswersAreRecorded ==
    ~ torn => \A r \in Requests :
        /\ <<r, "result">> \in told => Recorded(disk, r, "allowed")
        /\ <<r, "isError">> \in told => Recorded(disk, r, "denied_or_failed")

\* The log never says both to who was given a result; and what it allows has
\* been done, also when the client was told of an error.
RecordsAreTrue ==
    \A r \in Requests :
        /\ Recorded(file, r, "allowed") => r \in done
        /\ <<r, "result">> \in told => ~ Recorded(file, r, "denied_or_failed")

-----------------------------------------------------------------------------
\* The log as the user reads it: what was recorded, line by line.
EventOf(l) == IF l = Garbage THEN NoEvent ELSE l.ev
TrailOf(f) == [i \in 1..Len(f.recs) |-> EventOf(f.recs[i])]

Trail == INSTANCE AuditTrail WITH trail <- TrailOf(file), stable <- TrailOf(disk)

\* For as long as no line is cut short the log keeps the promise of AuditTrail,
\* whichever servers write it, die or are answered that their record failed.
TrailIsKept == Trail!Init /\ [][~ torn' => Trail!Next]_<<TrailOf(file), TrailOf(disk), done, told>>
=============================================================================
