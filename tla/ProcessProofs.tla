---------------------------- MODULE ProcessProofs ----------------------------
(***************************************************************************)
(* Theorems about ProcessControl, for any number of processes, any limit   *)
(* on the output and any size of the pipe and of a read: GroupIsGone,      *)
(* OutputIsExact and, where nobody leaves the group, NothingOutlives.      *)
(*                                                                         *)
(* The argument: once the group is killed, or the job ended, whoever runs  *)
(* has left the group, and so has whoever is started by one of them; and   *)
(* every byte that was written is in the pipe, in the chunk of the read    *)
(* that goes on, or has been counted by the reader (Counted), which ends   *)
(* at the end of the file only when nobody is left who can write.          *)
(***************************************************************************)
EXTENDS ProcessControl, TLAPS

Running == {"suspended", "running"}

Gone == \A x \in Tree \ strays : proc[x] \notin Running

OnPosix == {"wait", "kill", "reap", "killAgain", "join", "close", "rejoin", "end",
            "returned", "raised"}
OnWindows == {"contain", "wait", "size", "endJob", "read", "returned", "raised"}

\* The main thread behind the kill: it has ended the group.
GroupPart ==
    /\ use # "windows" =>
          /\ main \in OnPosix
          /\ \A x \in Tree : proc[x] # "suspended"
          /\ main \notin {"wait", "kill"} /\ (use = "command" \/ cutOff) => Gone
    /\ use = "windows" =>
          /\ main \in OnWindows
          /\ strays = {}
          /\ main \in {"read", "returned", "raised"} => Gone
    /\ main \in {"wait", "contain"} => ~ cutOff

\* What the reader has counted.
Counted == written - pipe - chunk

\* As much of n bytes as is kept.
Cut(n) == IF n <= MaxOutput THEN n ELSE MaxOutput

\* What the reader has kept is a first part of what was written, and it ends
\* where the output ends.
OutputPart ==
    /\ use # "windows" =>
          /\ pipe + chunk <= written
          /\ captured = Cut(Counted)
          /\ truncated <=> Counted > MaxOutput
          /\ reader = "eof" => holds = {} /\ pipe = 0 /\ chunk = 0
          /\ reader = "error" => closed
          /\ reader # "none"
          /\ main = "returned" => reader = "eof"
    /\ use = "windows" =>
          /\ reader = "none"
          /\ main = "returned" => captured = Cut(written) /\ (truncated <=> written > MaxOutput)

-----------------------------------------------------------------------------
LEMMA MinOfTwo ==
  ASSUME NEW a \in Nat, NEW b \in Nat
  PROVE  Min({a, b}) = IF a <= b THEN a ELSE b
<1> DEFINE m == IF a <= b THEN a ELSE b
<1>1. m \in {a, b} /\ \A y \in {a, b} : m <= y
  OBVIOUS
<1>2. Min({a, b}) \in {a, b} /\ \A y \in {a, b} : Min({a, b}) <= y
  BY <1>1 DEF Min
<1> QED BY <1>1, <1>2

LEMMA TypeInit == ProcessInit => ProcessTypeOK
<1> SUFFICES ASSUME ProcessInit PROVE ProcessTypeOK
  OBVIOUS
<1> USE ProcessAssumption DEF ProcessInit, ProcessTypeOK, Tree
<1>1. pipe \in 0..PipeSize /\ written \in 0..MaxWritten /\ chunk \in 0..ChunkSize
      /\ captured \in 0..MaxOutput
  OBVIOUS
<1>2. holds \subseteq {x \in Tree : proc[x] \in {"suspended", "running", "doomed"}}
  OBVIOUS
<1> QED BY <1>1, <1>2

\* Every step keeps the types: no counter passes its bound.
LEMMA TypeNext ==
  ASSUME ProcessTypeOK, [ProcessNext]_processVars
  PROVE  ProcessTypeOK'
<1> USE ProcessAssumption DEF ProcessTypeOK, Tree, treeVars, readVars, mainVars, Proceed
<1>1. ASSUME NEW x \in Tree, NEW k \in Kids, Fork(x, k) PROVE ProcessTypeOK'
  BY <1>1 DEF Fork
<1>2. ASSUME NEW k \in Kids, Escape(k) PROVE ProcessTypeOK'
  BY <1>2 DEF Escape
<1>3. ASSUME NEW x \in Tree, Write(x) PROVE ProcessTypeOK'
  BY <1>3 DEF Write
<1>4. ASSUME NEW x \in Tree, LetGo(x) PROVE ProcessTypeOK'
  BY <1>4 DEF LetGo
<1>5. ASSUME NEW x \in Tree, Exit(x) \/ DieKilled(x) PROVE ProcessTypeOK'
  BY <1>5 DEF Exit, DieKilled, End
<1>6. CASE Pull
  <2> DEFINE n == IF pipe <= ChunkSize - chunk THEN pipe ELSE ChunkSize - chunk
  <2>1. Min({pipe, ChunkSize - chunk}) = n
    <3>1. pipe \in Nat /\ ChunkSize - chunk \in Nat
      OBVIOUS
    <3> QED BY <3>1, MinOfTwo
  <2>2. pipe' = pipe - n /\ chunk' = chunk + n
    BY <1>6, <2>1 DEF Pull
  <2>3. pipe' \in 0..PipeSize /\ chunk' \in 0..ChunkSize
    BY <2>2
  <2> QED BY <1>6, <2>3 DEF Pull
<1>7. CASE ReadReturns \/ ReadFails
  BY <1>7 DEF ReadReturns, ReadFails
<1>8. CASE Keep
  <2> DEFINE r == MaxOutput - captured
             n == IF chunk <= r THEN chunk ELSE r
  <2>1. Min({chunk, r}) = n
    <3>1. chunk \in Nat /\ r \in Nat
      OBVIOUS
    <3> QED BY <3>1, MinOfTwo
  <2>2. captured' \in 0..MaxOutput /\ chunk' \in 0..ChunkSize /\ truncated' \in BOOLEAN
    BY <1>8, <2>1 DEF Keep
  <2> QED BY <1>8, <2>2 DEF Keep
<1>9. CASE WaitReturns \/ WaitTimesOut \/ Interrupt \/ Reap
  BY <1>9 DEF WaitReturns, WaitTimesOut, Interrupt, Reap, AfterExit
<1>10. ASSUME NEW from, Kill(from) PROVE ProcessTypeOK'
  BY <1>10 DEF Kill
<1>11. CASE Join \/ ClosePipe \/ Rejoin \/ Return
  BY <1>11 DEF Join, ClosePipe, Rejoin, Return
<1>12. CASE Contain \/ ContainFails \/ EndJob
  BY <1>12 DEF Contain, ContainFails, EndJob, EndedJob
<1>13. CASE OverLimit \/ WithinLimit
  BY <1>13 DEF OverLimit, WithinLimit
<1>14. CASE ReadOutput
  <2>1. Min({written, MaxOutput}) \in 0..MaxOutput
    BY MinOfTwo
  <2> QED BY <1>14, <2>1 DEF ReadOutput
<1>15. CASE UNCHANGED processVars
  BY <1>15 DEF processVars
<1> QED
  BY <1>1, <1>2, <1>3, <1>4, <1>5, <1>6, <1>7, <1>8, <1>9, <1>10, <1>11, <1>12, <1>13, <1>14,
     <1>15
  DEF ProcessNext, ReaderStep, MainStep

-----------------------------------------------------------------------------
(* The group.                                                              *)

\* The processes of the command by themselves put nobody into the group again.
LEMMA GoneStays ==
  ASSUME ProcessTypeOK, Gone,
         \/ UNCHANGED <<proc, strays>>
         \/ \E x \in Tree : Exit(x) \/ DieKilled(x) \/ \E k \in Kids : Fork(x, k)
         \/ \E k \in Kids : Escape(k)
  PROVE  Gone'
<1> USE DEF Gone, Running, ProcessTypeOK
<1>1. CASE UNCHANGED <<proc, strays>>
  BY <1>1
<1>2. ASSUME NEW x \in Tree, Exit(x) \/ DieKilled(x) PROVE Gone'
  BY <1>2 DEF Exit, DieKilled, End
<1>3. ASSUME NEW x \in Tree, NEW k \in Kids, Fork(x, k) PROVE Gone'
  BY <1>3 DEF Fork, Tree
<1>4. ASSUME NEW k \in Kids, Escape(k) PROVE Gone'
  BY <1>4 DEF Escape
<1> QED BY <1>1, <1>2, <1>3, <1>4

LEMMA GroupPartNext ==
  ASSUME ProcessTypeOK, GroupPart, [ProcessNext]_processVars
  PROVE  GroupPart'
<1> USE DEF GroupPart, Proceed, OnPosix, OnWindows, treeVars, readVars, mainVars
<1>0. /\ proc \in [Tree -> {"none", "suspended", "running", "doomed", "dead"}]
      /\ Root \in Tree /\ Kids \subseteq Tree
  BY DEF ProcessTypeOK, Tree
<1>1. ASSUME NEW x \in Tree, NEW k \in Kids, Fork(x, k) PROVE GroupPart'
  <2>1. Gone => Gone'
    BY <1>1, GoneStays
  <2>2. strays = {} => strays' = {}
    BY <1>1 DEF Fork
  <2>3. UNCHANGED <<use, main, cutOff>> /\ proc' = [proc EXCEPT ![k] = "running"]
    BY <1>1 DEF Fork
  <2> QED BY <1>0, <2>1, <2>2, <2>3
<1>2. ASSUME NEW k \in Kids, Escape(k) PROVE GroupPart'
  <2>1. Gone => Gone'
    BY <1>2, GoneStays
  <2> QED BY <1>2, <2>1 DEF Escape
<1>3. ASSUME NEW x \in Tree, Exit(x) \/ DieKilled(x) PROVE GroupPart'
  <2>1. Gone => Gone'
    BY <1>3, GoneStays
  <2>2. UNCHANGED <<use, main, cutOff, strays>> /\ proc' = [proc EXCEPT ![x] = "dead"]
    BY <1>3 DEF Exit, DieKilled, End
  <2> QED BY <1>0, <2>1, <2>2
\* The other steps of the command and those of the reader.
<1>4. ASSUME UNCHANGED <<use, proc, strays, main, cutOff>> PROVE GroupPart'
  BY <1>4 DEF Gone
<1>5. ASSUME NEW x \in Tree, Write(x) \/ LetGo(x) PROVE GroupPart'
  BY <1>4, <1>5 DEF Write, LetGo
<1>6. CASE ReaderStep
  BY <1>4, <1>6 DEF ReaderStep, Pull, ReadReturns, Keep, ReadFails
<1>7. CASE WaitReturns \/ WaitTimesOut \/ Interrupt
  BY <1>7 DEF WaitReturns, WaitTimesOut, Interrupt, AfterExit, Gone
<1>8. ASSUME NEW from \in {"kill", "killAgain"}, Kill(from) PROVE GroupPart'
  <2>1. use # "windows" /\ main' \in {"reap", "join"} /\ UNCHANGED <<use, cutOff, strays>>
    BY <1>8 DEF Kill
  <2>2. \A x \in Tree : proc'[x] # "suspended"
    BY <1>0, <1>8, <2>1 DEF Kill
  <2>3. \A x \in Tree \ strays : proc'[x] # "running"
    BY <1>0, <1>8 DEF Kill
  <2> QED BY <2>1, <2>2, <2>3 DEF Gone, Running
<1>9. CASE Reap \/ Join \/ ClosePipe \/ Rejoin \/ Return
  <2>1. UNCHANGED <<use, proc, strays, cutOff>> /\ main \in {"reap", "join", "close", "rejoin", "end"}
        /\ main' \in {"join", "killAgain", "close", "end", "rejoin", "returned", "raised"}
    BY <1>9 DEF Reap, Join, ClosePipe, Rejoin, Return
  <2> QED BY <2>1 DEF Gone
<1>10. CASE Contain
  BY <1>0, <1>10 DEF Contain, Gone
<1>11. CASE ContainFails \/ EndJob
  <2>1. /\ use = "windows" /\ main' \in {"read", "raised"} /\ UNCHANGED <<use, cutOff, strays>>
        /\ proc' = EndedJob
    BY <1>11 DEF ContainFails, EndJob
  <2>2. Gone'
    BY <2>1 DEF Gone, Running, EndedJob
  <2> QED BY <2>1, <2>2
<1>12. CASE OverLimit \/ WithinLimit
  BY <1>12 DEF OverLimit, WithinLimit, Gone
<1>13. CASE ReadOutput
  BY <1>13 DEF ReadOutput, Gone
<1>14. CASE UNCHANGED processVars
  BY <1>4, <1>14 DEF processVars
<1> QED
  BY <1>1, <1>2, <1>3, <1>5, <1>6, <1>7, <1>8, <1>9, <1>10, <1>11, <1>12, <1>13, <1>14
  DEF ProcessNext, MainStep
-----------------------------------------------------------------------------
(* The output.                                                             *)

LEMMA OutputPartNext ==
  ASSUME ProcessTypeOK, GroupPart, OutputPart, [ProcessNext]_processVars
  PROVE  OutputPart'
<1> USE DEF OutputPart, Proceed, treeVars, readVars, mainVars
<1>0. /\ pipe \in Nat /\ written \in Nat /\ chunk \in Nat /\ captured \in Nat
      /\ chunk <= ChunkSize /\ captured <= MaxOutput
      /\ MaxOutput \in Nat \ {0} /\ ChunkSize \in Nat \ {0}
      /\ truncated \in BOOLEAN
  BY ProcessAssumption DEF ProcessTypeOK
\* What does not touch the bytes, the reader or the end of the call.
<1>1. ASSUME UNCHANGED <<use, pipe, written, readVars>>, holds = {} => holds' = {},
             closed => closed', main' = "returned" => main = "returned"
      PROVE  OutputPart'
  BY <1>0, <1>1 DEF Counted, Cut
<1>2. ASSUME NEW x \in Tree,
             LetGo(x) \/ Exit(x) \/ DieKilled(x) \/ (\E k \in Kids : Fork(x, k) \/ Escape(k))
      PROVE  OutputPart'
  <2>1. holds = {} => holds' = {}
    BY <1>2 DEF LetGo, Exit, DieKilled, End, Fork, Escape
  <2>2. UNCHANGED <<use, pipe, written, readVars, main, closed>>
    BY <1>2 DEF LetGo, Exit, DieKilled, End, Fork, Escape
  <2> QED BY <1>1, <2>1, <2>2
<1>3. ASSUME NEW x \in Tree, Write(x) PROVE OutputPart'
  <2>1. /\ UNCHANGED <<use, holds, readVars, main, closed>>
        /\ written' = written + 1
        /\ pipe' = IF use = "windows" THEN pipe ELSE pipe + 1
        /\ x \in holds /\ proc[x] = "running"
    BY <1>3 DEF Write
  <2>2. use = "windows" => main # "returned"
    BY <2>1 DEF GroupPart, Gone, Running
  <2>3. use # "windows" => Counted' = Counted
    BY <1>0, <2>1 DEF Counted
  <2> QED BY <1>0, <2>1, <2>2, <2>3 DEF Cut
<1>4. CASE Pull
  <2> DEFINE n == IF pipe <= ChunkSize - chunk THEN pipe ELSE ChunkSize - chunk
  <2>1. Min({pipe, ChunkSize - chunk}) = n
    <3>1. pipe \in Nat /\ ChunkSize - chunk \in Nat
      BY <1>0
    <3> QED BY <3>1, MinOfTwo
  <2>2. /\ pipe' = pipe - n /\ chunk' = chunk + n /\ reader = "reading"
        /\ UNCHANGED <<use, holds, written, reader, captured, truncated, main, closed>>
    BY <1>4, <2>1 DEF Pull
  <2>3. Counted' = Counted /\ (pipe + chunk)' = pipe + chunk
    BY <1>0, <2>2 DEF Counted
  <2>4. use = "windows" => OutputPart'
    BY <2>2 DEF Cut
  <2>5. use # "windows" => main # "returned"
    BY <2>2
  <2> QED BY <2>2, <2>3, <2>4, <2>5 DEF Cut
<1>5. CASE ReadReturns
  <2>1. /\ UNCHANGED <<use, holds, pipe, written, chunk, captured, truncated, main, closed>>
        /\ reader = "reading"
        /\ chunk = ChunkSize \/ EndOfFile
        /\ reader' = IF chunk = 0 THEN "eof" ELSE "got"
    BY <1>5 DEF ReadReturns
  <2>2. reader' = "eof" => holds = {} /\ pipe = 0 /\ chunk = 0
    BY <1>0, <2>1 DEF EndOfFile
  <2> QED BY <1>0, <2>1, <2>2 DEF Counted, Cut
<1>6. CASE Keep
  <2> DEFINE r == MaxOutput - captured
             n == IF chunk <= r THEN chunk ELSE r
  <2>1. Min({chunk, r}) = n
    <3>1. chunk \in Nat /\ r \in Nat
      BY <1>0
    <3> QED BY <3>1, MinOfTwo
  <2>2. /\ UNCHANGED <<use, holds, pipe, written, main, closed>>
        /\ captured' = captured + n /\ truncated' = (truncated \/ chunk > r) /\ chunk' = 0
        /\ reader = "got" /\ reader' = "reading"
    BY <1>6, <2>1 DEF Keep
  <2>3. CASE use # "windows"
    <3>1. Counted \in Nat /\ Counted' = Counted + chunk
      BY <1>0, <2>2, <2>3 DEF Counted
    <3>2. captured' = Cut(Counted + chunk)
      BY <1>0, <2>2, <2>3, <3>1 DEF Cut
    <3>3. truncated' <=> Counted + chunk > MaxOutput
      <4>1. (truncated <=> Counted > MaxOutput) /\ captured = Cut(Counted)
        BY <2>3
      <4>2. CASE truncated
        <5>1. truncated' /\ Counted > MaxOutput
          BY <2>2, <4>1, <4>2
        <5> QED BY <1>0, <3>1, <5>1
      <4>3. CASE ~ truncated
        <5>1. Counted <= MaxOutput /\ captured = Counted
          BY <1>0, <3>1, <4>1, <4>3 DEF Cut
        <5>2. truncated' <=> chunk > r
          BY <2>2, <4>3
        <5> QED BY <1>0, <3>1, <5>1, <5>2
      <4> QED BY <4>2, <4>3
    <3>4. (pipe + chunk)' <= written'
      BY <1>0, <2>2, <2>3
    <3>5. (truncated <=> Counted > MaxOutput)' /\ (captured = Cut(Counted))'
      BY <3>1, <3>2, <3>3 DEF Cut
    <3> QED BY <2>2, <2>3, <3>4, <3>5
  <2>4. CASE use = "windows"
    BY <2>2, <2>4
  <2> QED BY <2>3, <2>4
<1>7. CASE ReadFails
  BY <1>0, <1>7 DEF ReadFails, Counted, Cut
<1>8. CASE \/ WaitReturns \/ WaitTimesOut \/ Interrupt \/ Reap \/ Join \/ Rejoin
           \/ Contain \/ ContainFails \/ OverLimit \/ WithinLimit \/ EndJob
           \/ Kill("kill") \/ Kill("killAgain")
  <2>1. UNCHANGED <<use, pipe, written, readVars, holds, closed>> /\ main' # "returned"
    BY <1>8 DEF WaitReturns, WaitTimesOut, Interrupt, Reap, Join, Rejoin, Contain, ContainFails,
                OverLimit, WithinLimit, EndJob, Kill, AfterExit
  <2> QED BY <1>1, <2>1
<1>9. CASE ClosePipe
  BY <1>1, <1>9 DEF ClosePipe
<1>10. CASE Return
  <2>1. UNCHANGED <<use, pipe, written, readVars, holds, closed>> /\ main = "end"
        /\ (main' = "returned" => reader = "eof")
    BY <1>10 DEF Return
  <2>2. use # "windows"
    BY <2>1 DEF GroupPart, OnWindows
  <2> QED BY <1>0, <2>1, <2>2 DEF Counted, Cut
<1>11. CASE ReadOutput
  <2>1. UNCHANGED <<use, written, reader>> /\ main = "read" /\ truncated' = (written > MaxOutput)
        /\ captured' = Min({written, MaxOutput})
    BY <1>11 DEF ReadOutput
  <2>2. captured' = Cut(written)
    BY <1>0, <2>1, MinOfTwo DEF Cut
  <2>3. use = "windows"
    BY <2>1 DEF GroupPart, OnPosix
  <2> QED BY <2>1, <2>2, <2>3 DEF Cut
<1>12. CASE UNCHANGED processVars
  BY <1>1, <1>12 DEF processVars
<1> QED
  BY <1>2, <1>3, <1>4, <1>5, <1>6, <1>7, <1>8, <1>9, <1>10, <1>11, <1>12
  DEF ProcessNext, ReaderStep, MainStep, Tree

-----------------------------------------------------------------------------
(* The theorems.                                                           *)

Inv == ProcessTypeOK /\ GroupPart /\ OutputPart

LEMMA InvInit == ProcessInit => Inv
<1> SUFFICES ASSUME ProcessInit PROVE Inv
  OBVIOUS
<1>1. ProcessTypeOK
  BY TypeInit
<1>2. GroupPart
  BY DEF ProcessInit, GroupPart, OnPosix, OnWindows
<1>3. OutputPart
  BY ProcessAssumption DEF ProcessInit, OutputPart, Counted, Cut
<1> QED BY <1>1, <1>2, <1>3 DEF Inv

LEMMA InvNext == Inv /\ [ProcessNext]_processVars => Inv'
  BY TypeNext, GroupPartNext, OutputPartNext DEF Inv

LEMMA InvHolds == ProcessSpec => []Inv
  BY InvInit, InvNext, PTL DEF ProcessSpec

\* No counter passes its bound, and nobody holds the pipe who is dead: the whole
\* of run_bounded_process, execute_tunnel_step and _wait_in_job.
THEOREM TypeCorrect == ProcessSpec => []ProcessTypeOK
<1>1. Inv => ProcessTypeOK
  BY DEF Inv
<1> QED BY <1>1, InvHolds, PTL

\* When the call is over nobody in the group, or in the job, is left running,
\* however many processes the command has started and whenever.
THEOREM TheGroupIsGone == ProcessSpec => []GroupIsGone
<1>1. Inv => GroupIsGone
  <2> SUFFICES ASSUME Inv, Finished, use \in {"command", "windows"} \/ cutOff
               PROVE  \A x \in Tree \ strays : proc[x] \notin {"suspended", "running"}
    BY DEF GroupIsGone
  <2>1. Gone
    BY DEF Inv, GroupPart, Finished
  <2> QED BY <2>1 DEF Gone, Running
<1> QED BY <1>1, InvHolds, PTL

\* The result is the output of the whole command, cut at the limit and marked
\* exactly when something was cut; until then somebody reads the pipe.
THEOREM TheOutputIsExact == ProcessSpec => []OutputIsExact
<1>1. Inv => OutputIsExact
  <2> SUFFICES ASSUME Inv PROVE OutputIsExact
    OBVIOUS
  <2>0. /\ pipe \in Nat /\ written \in Nat /\ chunk \in Nat /\ MaxOutput \in Nat
        /\ reader \in {"reading", "got", "eof", "error", "none"}
    BY ProcessAssumption DEF Inv, ProcessTypeOK
  <2>1. Min({written, MaxOutput}) = Cut(written)
    BY <2>0, MinOfTwo DEF Cut
  <2>2. ASSUME main = "returned"
        PROVE  captured = Cut(written) /\ (truncated <=> written > MaxOutput)
    <3>1. CASE use = "windows"
      BY <2>2, <3>1 DEF Inv, OutputPart
    <3>2. CASE use # "windows"
      <4>1. Counted = written
        BY <2>0, <2>2, <3>2 DEF Inv, OutputPart, Counted
      <4> QED BY <3>2, <4>1 DEF Inv, OutputPart
    <3> QED BY <3>1, <3>2
  <2>3. ASSUME use # "windows", holds # {}, ~ closed PROVE ReaderAlive
    BY <2>0, <2>3 DEF Inv, OutputPart, ReaderAlive
  <2> QED BY <2>1, <2>2, <2>3 DEF OutputIsExact
<1> QED BY <1>1, InvHolds, PTL

-----------------------------------------------------------------------------
(* Where a process cannot leave the group, nothing outlives the action.    *)

NoStrays == strays = {}

LEMMA NoStraysNext == ~ CanEscape /\ NoStrays /\ [ProcessNext]_processVars => NoStrays'
  BY DEF NoStrays, ProcessNext, Write, LetGo, Exit, DieKilled, End, Fork, Escape, ReaderStep, Pull,
         ReadReturns, Keep, ReadFails, MainStep, Interrupt, WaitReturns, WaitTimesOut, Kill,
         Reap, Join, ClosePipe, Rejoin, Return, Contain, ContainFails, OverLimit, WithinLimit,
         EndJob, ReadOutput, Proceed, treeVars, readVars, mainVars, processVars

\* In bubblewrap, where who leaves the group dies with it all the same, the promise
\* of the docstring holds: no process of the command runs when the call is over.
THEOREM NobodyOutlivesWithoutEscape == ~ CanEscape => (ProcessSpec => []NothingOutlives)
<1> SUFFICES ASSUME ~ CanEscape PROVE ProcessSpec => []NothingOutlives
  OBVIOUS
<1>1. ProcessInit => NoStrays
  BY DEF ProcessInit, NoStrays
<1>2. NoStrays /\ [ProcessNext]_processVars => NoStrays'
  BY NoStraysNext
<1>3. GroupIsGone /\ NoStrays => NothingOutlives
  BY DEF GroupIsGone, NoStrays, NothingOutlives
<1> QED BY <1>1, <1>2, <1>3, TheGroupIsGone, PTL DEF ProcessSpec
=============================================================================
