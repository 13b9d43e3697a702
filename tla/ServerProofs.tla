---------------------------- MODULE ServerProofs ----------------------------
(***************************************************************************)
(* What is proved of the two parts of a server that need no other: the     *)
(* file lock, and the loop in which it reads its client's lines.           *)
(*                                                                         *)
(* For threads that have a handle of their own, FileLock is a mutual       *)
(* exclusion lock that no death leaves locked, whatever threads that share *)
(* a handle do beside them. The invariant ties what such a thread believes *)
(* (where it is, and the flag _held) to what the kernel knows.             *)
(*                                                                         *)
(* For lines of any length and number, the answers of StdioLoop are those  *)
(* the lines deserve. The invariant says how much of the lines is unread,  *)
(* and that a line of which a part was dropped is one that is too long.    *)
(***************************************************************************)
EXTENDS FileLock, StdioLoop, FiniteSetTheorems, SequenceTheorems, TLAPS

-----------------------------------------------------------------------------
(* The lock.                                                               *)

\* A thread that relies on the lock owns it, and finds the flag set when it
\* comes to release it; a lock that is owned has a thread that will unlock it.
OwnerIsHolder ==
    \A t \in Threads : Alone(t) /\ lpc[t] \in Owning => holder = HandleOf[t]

BodyIsFlagged ==
    \A t \in Threads : Alone(t) /\ lpc[t] \in {"body", "leaving", "unlocked"} => held[HandleOf[t]]

LockInv == TypeOK /\ OwnerIsHolder /\ BodyIsFlagged /\ NoLeakedLock

\* No thread holds the lock.
LEMMA LockInvInit == Init => LockInv
  BY HandleAssumption
  DEF Init, LockInv, TypeOK, OwnerIsHolder, BodyIsFlagged, NoLeakedLock, Owning, LockPcs, Users

\* A step of a thread, or a death, keeps the invariant: one step per action.
LEMMA LockInvNext ==
  ASSUME LockInv, [Next]_lockVars
  PROVE  LockInv'
<1> USE HandleAssumption
    DEF LockInv, TypeOK, OwnerIsHolder, BodyIsFlagged, NoLeakedLock, Owning, LockPcs,
        Alone, Users, Move
<1>1. ASSUME NEW t \in Threads, Acquire(t) PROVE LockInv'
  BY <1>1 DEF Acquire
<1>2. ASSUME NEW t \in Threads, Flock(t) PROVE LockInv'
  <2>1. TypeOK' /\ OwnerIsHolder'
    BY <1>2 DEF Flock
  <2>2. BodyIsFlagged'
    BY <1>2 DEF Flock
  <2>3. NoLeakedLock'
    <3>1. holder' = HandleOf[t] /\ t \in Users(HandleOf[t]) /\ lpc'[t] \in Owning
      BY <1>2 DEF Flock
    <3>2. \A h \in Handles : holder' = h => \E u \in Users(h) : lpc'[u] \in Owning
      BY <3>1
    <3> QED BY <3>2
  <2> QED BY <2>1, <2>2, <2>3
<1>3. ASSUME NEW t \in Threads, MarkHeld(t) PROVE LockInv'
  BY <1>3 DEF MarkHeld
<1>4. ASSUME NEW t \in Threads, GiveUp(t) PROVE LockInv'
  BY <1>4 DEF GiveUp
<1>5. ASSUME NEW t \in Threads, BeginRelease(t) PROVE LockInv'
  BY <1>5 DEF BeginRelease
<1>6. ASSUME NEW t \in Threads, SkipRelease(t) PROVE LockInv'
  BY <1>6 DEF SkipRelease
<1>7. ASSUME NEW t \in Threads, Unlock(t) PROVE LockInv'
  BY <1>7 DEF Unlock
<1>8. ASSUME NEW t \in Threads, ClearHeld(t) PROVE LockInv'
  BY <1>8 DEF ClearHeld
<1>9. ASSUME NEW h \in Handles, Die(h) PROVE LockInv'
  BY <1>9 DEF Die
<1>10. CASE DieAll
  BY <1>10 DEF DieAll
<1>11. CASE UNCHANGED lockVars
  BY <1>11 DEF lockVars
<1> QED
  BY <1>1, <1>2, <1>3, <1>4, <1>5, <1>6, <1>7, <1>8, <1>9, <1>10, <1>11
  DEF Next, AcquireStep, ReleaseStep

\* Two threads with a handle each are not in the body of "with lock" together
\* (locking.py as the MCP server processes use it, beside the control UI).
THEOREM LockExcludes == Spec => []MutualExclusion
<1>1. LockInv => MutualExclusion
  BY DEF LockInv, OwnerIsHolder, MutualExclusion, InBody, Owning, Alone
<1>2. LockInv /\ [Next]_lockVars => LockInv'
  BY LockInvNext
<1> QED
  BY LockInvInit, <1>1, <1>2, PTL DEF Spec

\* ... and they never leave the lock behind: while one of them owns it, it is
\* on the way to unlock it, also after any number of deaths. Where threads that
\* share a handle leave it behind (locking.py:72-73, 81), the flag is down.
THEOREM LockIsNotLeaked == Spec => []NoLeakedLock
<1>1. LockInv => NoLeakedLock
  BY DEF LockInv
<1>2. LockInv /\ [Next]_lockVars => LockInv'
  BY LockInvNext
<1> QED
  BY LockInvInit, <1>1, <1>2, PTL DEF Spec

\* The types are those of every thread, also with a shared handle.
THEOREM LockTypeCorrect == Spec => []TypeOK
<1>1. Init => LockInv
  BY LockInvInit
<1>2. LockInv /\ [Next]_lockVars => LockInv'
  BY LockInvNext
<1>3. LockInv => TypeOK
  BY DEF LockInv
<1> QED
  BY <1>1, <1>2, <1>3, PTL DEF Spec

-----------------------------------------------------------------------------
(* The loop.                                                               *)

\* What is not read is the end of what was sent.
InputPart ==
    /\ Len(sent) <= MaxLines /\ Len(input) <= Len(sent)
    /\ \A i \in 1 .. Len(input) : input[i] = sent[Len(sent) - Len(input) + i]

\* Before a line nothing of it is read; what is drained is too long.
LoopPart ==
    /\ loop = "read" /\ input # <<>> => unread = Head(input).bytes
    /\ loop = "drain" => input # <<>> /\ Head(input).bytes > MaxBytes
    /\ loop = "over" => \/ eof /\ input = <<>>
                        \/ /\ Len(sent) - Len(input) > 0
                           /\ IsFatal(sent[Len(sent) - Len(input)])

\* AnswersFollowLines, of the first n lines of s and the answers out.
Owed(s, n) == {i \in 1 .. n : Deserves(s[i]) # {}}

Follow(out, s, n) ==
    /\ {out[j].line : j \in DOMAIN out} = Owed(s, n)
    /\ Len(out) = Cardinality(Owed(s, n))
    /\ \A j \in DOMAIN out :
          /\ out[j].kind \in Deserves(s[out[j].line])
          /\ j > 1 => out[j - 1].line < out[j].line

StdioInv ==
    /\ StdioTypeOK /\ InputPart /\ LoopPart
    /\ Follow(output, sent, Len(sent) - Len(input))

\* A finite number of lines deserves an answer, and each is one of the first n.
LEMMA OwedFinite ==
  ASSUME NEW s, NEW n \in Nat
  PROVE  IsFiniteSet(Owed(s, n)) /\ Cardinality(Owed(s, n)) \in Nat /\ Owed(s, n) \subseteq 1 .. n
<1>1. Owed(s, n) \subseteq 1 .. n /\ IsFiniteSet(1 .. n)
  BY FS_Interval DEF Owed
<1> QED BY <1>1, FS_Subset, FS_CardinalityType

\* The answer to the next line, the one it deserves, is the next answer.
LEMMA AnswerFollows ==
  ASSUME NEW s, NEW n \in Nat, NEW out \in Seq([line : Nat, kind : Kinds]),
         Follow(out, s, n), NEW kind \in Deserves(s[n + 1])
  PROVE  Follow(Append(out, [line |-> n + 1, kind |-> kind]), s, n + 1)
<1> DEFINE a == [line |-> n + 1, kind |-> kind]
           more == Append(out, a)
<1>1. Owed(s, n + 1) = Owed(s, n) \cup {n + 1} /\ n + 1 \notin Owed(s, n)
  BY DEF Owed
<1>2. a.line = n + 1 /\ a.kind = kind
  OBVIOUS
<1>3. Len(more) = Len(out) + 1 /\ Len(out) \in Nat /\ DOMAIN out = 1 .. Len(out)
      /\ DOMAIN more = 1 .. Len(out) + 1
      /\ more[Len(out) + 1] = a /\ \A j \in 1 .. Len(out) : more[j] = out[j]
  <2> HIDE DEF a
  <2> QED OBVIOUS
<1> HIDE DEF a, more
<1>4. {more[j].line : j \in DOMAIN more} = {out[j].line : j \in DOMAIN out} \cup {n + 1}
  <2>1. \A j \in DOMAIN out : j \in DOMAIN more /\ more[j].line = out[j].line
    BY <1>3
  <2>2. Len(out) + 1 \in DOMAIN more /\ more[Len(out) + 1].line = n + 1
    BY <1>2, <1>3
  <2>3. \A j \in DOMAIN more : j \in DOMAIN out \/ j = Len(out) + 1
    BY <1>3
  <2> QED BY <2>1, <2>2, <2>3
<1>5. {more[j].line : j \in DOMAIN more} = Owed(s, n + 1)
  BY <1>1, <1>4 DEF Follow
<1>6. Len(more) = Cardinality(Owed(s, n + 1))
  BY <1>1, <1>3, OwedFinite, FS_AddElement DEF Follow
<1>7. ASSUME NEW j \in DOMAIN more
      PROVE  /\ more[j].kind \in Deserves(s[more[j].line])
             /\ j > 1 => more[j - 1].line < more[j].line
  <2>1. CASE j = Len(out) + 1
    <3>1. more[j].kind \in Deserves(s[more[j].line])
      BY <1>2, <1>3, <2>1
    <3>2. ASSUME j > 1 PROVE more[j - 1].line < more[j].line
      <4>1. j - 1 \in DOMAIN out
        BY <1>3, <2>1, <3>2
      <4>2. out[j - 1].line \in Owed(s, n)
        BY <4>1 DEF Follow
      <4> QED BY <1>2, <1>3, <2>1, <4>1, <4>2 DEF Owed
    <3> QED BY <3>1, <3>2
  <2>2. CASE j # Len(out) + 1
    <3>1. j \in DOMAIN out /\ (j > 1 => j - 1 \in DOMAIN out)
      BY <1>3, <2>2
    <3> QED BY <1>3, <3>1 DEF Follow
  <2> QED BY <2>1, <2>2
<1> QED BY <1>5, <1>6, <1>7 DEF Follow, more, a

\* A line that deserves no answer is read, and none is given.
LEMMA SilenceFollows ==
  ASSUME NEW s, NEW n \in Nat, NEW out, Follow(out, s, n), Deserves(s[n + 1]) = {}
  PROVE  Follow(out, s, n + 1)
<1>1. Owed(s, n + 1) = Owed(s, n)
  BY DEF Owed
<1> QED BY <1>1 DEF Follow

\* What is sent later does not matter to what was read.
LEMMA SendFollows ==
  ASSUME NEW s \in Seq(Lines), NEW n \in 0 .. Len(s), NEW out, Follow(out, s, n), NEW line \in Lines
  PROVE  Follow(out, Append(s, line), n)
<1>1. \A i \in 1 .. n : Append(s, line)[i] = s[i]
  OBVIOUS
<1>2. Owed(Append(s, line), n) = Owed(s, n)
  BY <1>1 DEF Owed
<1>3. \A j \in DOMAIN out : out[j].line \in 1 .. n
  BY DEF Follow, Owed
<1> QED BY <1>1, <1>2, <1>3 DEF Follow

\* What a step that goes to the next line does to what is left.
LEMMA NextLinePart ==
  ASSUME StdioTypeOK, InputPart, input # <<>>, NextLine, UNCHANGED sent
  PROVE  /\ input' \in Seq(Lines) /\ unread' \in 0 .. MaxLength
         /\ InputPart'
         /\ input' # <<>> => unread' = Head(input').bytes
         /\ Len(sent) - Len(input) \in Nat
         /\ (Len(sent) - Len(input))' = Len(sent) - Len(input) + 1
         /\ Reading = Len(sent) - Len(input) + 1 /\ Reading \in 1 .. MaxLines
         /\ Head(input) = sent[Len(sent) - Len(input) + 1] /\ Head(input) \in Lines
<1>1. /\ sent \in Seq(Lines) /\ input \in Seq(Lines) /\ Len(sent) \in Nat /\ Len(input) \in Nat
      /\ Len(input) >= 1 /\ MaxLength \in Nat /\ MaxLines \in Nat
      /\ Len(sent) <= MaxLines /\ Len(input) <= Len(sent)
  <2> HIDE DEF Lines
  <2> QED BY StdioAssumption DEF StdioTypeOK, InputPart
<1>2. /\ Tail(input) \in Seq(Lines) /\ Len(Tail(input)) = Len(input) - 1
      /\ \A i \in 1 .. Len(input) - 1 : Tail(input)[i] = input[i + 1]
      /\ Head(input) = input[1] /\ Head(input) \in Lines
  BY <1>1
<1>3. input' = Tail(input) /\ sent' = sent
      /\ unread' = IF Tail(input) = <<>> THEN 0 ELSE Head(Tail(input)).bytes
  BY DEF NextLine
<1>4. Len(sent') - Len(input') = Len(sent) - Len(input) + 1
  BY <1>1, <1>2, <1>3
<1>5. InputPart'
  <2>1. ASSUME NEW i \in 1 .. Len(input')
        PROVE  input'[i] = sent'[Len(sent') - Len(input') + i]
    <3>1. i + 1 \in 1 .. Len(input) /\ input'[i] = input[i + 1]
      BY <1>1, <1>2, <1>3
    <3>2. input[i + 1] = sent[Len(sent) - Len(input) + (i + 1)]
      BY <3>1 DEF InputPart
    <3>3. Len(sent) - Len(input) + (i + 1) = Len(sent') - Len(input') + i
      BY <1>1, <1>4
    <3> QED BY <1>3, <3>1, <3>2, <3>3
  <2>2. Len(sent') <= MaxLines /\ Len(input') <= Len(sent')
    BY <1>1, <1>2, <1>3
  <2> QED BY <2>1, <2>2 DEF InputPart
<1>6. unread' \in 0 .. MaxLength /\ (input' # <<>> => unread' = Head(input').bytes)
  <2>1. CASE Tail(input) = <<>>
    BY <1>1, <1>3, <2>1
  <2>2. CASE Tail(input) # <<>>
    <3>1. Head(Tail(input)) \in Lines
      BY <1>2, <2>2
    <3>2. Head(Tail(input)).bytes \in 1 .. MaxLength
      BY <3>1 DEF Lines
    <3> QED BY <1>1, <1>3, <2>2, <3>2, SMTT(30)
  <2> QED BY <2>1, <2>2
<1>7. input[1] = sent[Len(sent) - Len(input) + 1]
  <2>1. 1 \in 1 .. Len(input)
    BY <1>1
  <2>2. \A i \in 1 .. Len(input) : input[i] = sent[Len(sent) - Len(input) + i]
    BY DEF InputPart
  <2> HIDE DEF Lines
  <2> QED BY <2>1, <2>2
<1>8. Reading = Len(sent) - Len(input) + 1 /\ Reading \in 1 .. MaxLines
      /\ Len(sent) - Len(input) \in Nat
  <2>1. Reading = Len(sent) - Len(input) + 1
    BY DEF Reading
  <2> HIDE DEF Reading
  <2> QED BY <1>1, <2>1
<1>9. (Len(sent) - Len(input))' = Len(sent) - Len(input) + 1
  BY <1>4
<1> QED
  <2>1. Head(input) = sent[Len(sent) - Len(input) + 1]
    BY <1>2, <1>7
  <2>2. input' \in Seq(Lines) /\ Head(input) \in Lines
    BY <1>2, <1>3
  <2> HIDE DEF Lines
  <2> QED BY <1>5, <1>6, <1>8, <1>9, <2>1, <2>2

\* The answer a line deserves is given, and the loop goes on or was ended by it.
AsDeserved(line) ==
    \/ \E kind \in Deserves(line) : Answer(kind)
    \/ Deserves(line) = {} /\ UNCHANGED output

GoesOn(line) == loop' = "read" \/ (loop' = "over" /\ IsFatal(line))

\* A line is answered, and the next one is the first.
LEMMA AnsweredStep ==
  ASSUME StdioInv, input # <<>>, NextLine, UNCHANGED <<sent, eof>>,
         GoesOn(Head(input)), AsDeserved(Head(input))
  PROVE  StdioInv'
<1> USE DEF GoesOn, AsDeserved
<1> DEFINE n == Len(sent) - Len(input)
<1>1. /\ input' \in Seq(Lines) /\ unread' \in 0 .. MaxLength
      /\ InputPart'
      /\ input' # <<>> => unread' = Head(input').bytes
      /\ n \in Nat /\ n' = n + 1 /\ Reading = n + 1 /\ Reading \in 1 .. MaxLines
      /\ Head(input) = sent[n + 1] /\ Head(input) \in Lines
  BY NextLinePart DEF StdioInv
<1>2. LoopPart'
  <2>1. CASE loop' = "read"
    BY <1>1, <2>1 DEF LoopPart
  <2>2. CASE loop' = "over" /\ IsFatal(Head(input))
    <3>1. n' > 0 /\ sent'[n'] = Head(input)
      BY <1>1
    <3>2. IsFatal(Head(input)) => IsFatal(sent[n + 1])
      BY <1>1
    <3>3. n' = n + 1 /\ sent' = sent
      BY <1>1
    <3>4. IsFatal(sent[n'])
      BY <2>2, <3>2, <3>3
    <3>5. IsFatal(sent[n'])  <=> IsFatal(sent[n])'
      BY <3>3 DEF IsFatal
    <3> QED BY <2>2, <3>1, <3>4, <3>5 DEF LoopPart
  <2> QED BY <2>1, <2>2
<1> DEFINE A == [line : 1 .. MaxLines, kind : Kinds]
<1>3. output \in Seq(A) /\ Follow(output, sent, n)
  BY DEF StdioInv, StdioTypeOK
<1>4. output' \in Seq(A) /\ Follow(output', sent, n + 1)
  <2>1. CASE Deserves(Head(input)) = {} /\ UNCHANGED output
    BY <1>1, <1>3, <2>1, SilenceFollows
  <2>2. ASSUME NEW kind \in Deserves(Head(input)), Answer(kind)
        PROVE  output' \in Seq(A) /\ Follow(output', sent, n + 1)
    <3>1. output' = Append(output, [line |-> n + 1, kind |-> kind])
      BY <1>1, <2>2 DEF Answer
    <3>2. kind \in Kinds
      BY DEF Deserves, Kinds
    <3>3. [line |-> n + 1, kind |-> kind] \in A
      BY <1>1, <3>2
    <3>4. output \in Seq([line : Nat, kind : Kinds])
      <4>1. \A a \in A : a \in [line : Nat, kind : Kinds]
        OBVIOUS
      <4> HIDE DEF A
      <4> DEFINE B == [line : Nat, kind : Kinds]
      <4>2. A \subseteq B
        BY <4>1
      <4> HIDE DEF B
      <4>3. output \in Seq(B)
        BY <1>3, <4>2
      <4> QED BY <4>3 DEF B
    <3>5. Follow(output', sent, n + 1)
      <4> HIDE DEF n
      <4> QED BY <1>1, <1>3, <3>1, <3>4, AnswerFollows
    <3>6. output' \in Seq(A)
      <4> DEFINE a == [line |-> n + 1, kind |-> kind]
      <4>1. output' = Append(output, a) /\ a \in A
        BY <3>1, <3>3
      <4> HIDE DEF A, a
      <4> QED BY <1>3, <4>1
    <3> QED BY <3>5, <3>6
  <2> QED BY <2>1, <2>2
<1>5. sent' = sent /\ eof' = eof /\ loop' \in {"read", "over"}
  OBVIOUS
<1> HIDE DEF n
<1>6. Follow(output', sent', n')
  BY <1>1, <1>4, <1>5
<1>7. StdioTypeOK'
  <2>1. sent \in Seq(Lines) /\ eof \in BOOLEAN
    BY DEF StdioInv, StdioTypeOK
  <2> QED BY <1>1, <1>4, <1>5, <2>1 DEF StdioTypeOK
<1> QED BY <1>1, <1>2, <1>6, <1>7 DEF StdioInv, n

\* A server that has read and answered nothing.
FreshServer ==
    /\ sent = <<>> /\ input = <<>> /\ unread = 0 /\ eof = FALSE
    /\ loop = "read" /\ output = <<>>

\* It satisfies the invariant.
LEMMA StdioFresh == FreshServer => StdioInv
<1> SUFFICES ASSUME FreshServer PROVE StdioInv
  OBVIOUS
<1>1. sent = <<>> /\ input = <<>> /\ output = <<>>
  BY DEF FreshServer
<1>2. unread = 0 /\ loop = "read" /\ eof = FALSE
  BY DEF FreshServer
<1>3. StdioTypeOK
  <2>1. eof \in BOOLEAN
    BY DEF FreshServer
  <2>2. unread \in 0 .. MaxLength
    BY <1>2, StdioAssumption
  <2>3. loop \in {"read", "drain", "over"}
    BY <1>2
  <2>4. sent \in Seq(Lines) /\ input \in Seq(Lines) /\ output \in Seq([line : 1 .. MaxLines, kind : Kinds])
    BY <1>1
  <2> QED BY <2>1, <2>2, <2>3, <2>4 DEF StdioTypeOK
<1>4. InputPart /\ LoopPart
  BY <1>1, <1>2, StdioAssumption DEF InputPart, LoopPart
<1>5. Follow(<<>>, sent, 0)
  <2>1. Owed(sent, 0) = {}
    BY DEF Owed
  <2> QED BY <2>1, FS_EmptySet DEF Follow
<1>6. Len(sent) - Len(input) = 0
  BY <1>1
<1> QED BY <1>1, <1>3, <1>4, <1>5, <1>6 DEF StdioInv

\* Every step of the client and of the loop keeps the invariant.
LEMMA StdioInvNext == StdioInv /\ [StdioNext]_stdioVars => StdioInv'
<1> SUFFICES ASSUME StdioInv, [StdioNext]_stdioVars PROVE StdioInv'
  OBVIOUS
<1>0. /\ StdioTypeOK /\ InputPart /\ LoopPart
      /\ Follow(output, sent, Len(sent) - Len(input))
      /\ MaxBytes \in Nat \ {0} /\ MaxLength \in Nat /\ MaxLines \in Nat
      /\ sent \in Seq(Lines) /\ input \in Seq(Lines) /\ unread \in 0 .. MaxLength
      /\ Len(sent) \in Nat /\ Len(input) \in Nat /\ Len(input) <= Len(sent)
  BY StdioAssumption DEF StdioInv, StdioTypeOK, InputPart
<1>1. ASSUME NEW line \in Lines, Send(line) PROVE StdioInv'
  <2>1. sent' = Append(sent, line) /\ input' = Append(input, line) /\ loop' = loop
        /\ output' = output /\ eof' = ~ line.ends /\ ~ eof /\ Len(sent) < MaxLines
        /\ unread' = IF input = <<>> THEN line.bytes ELSE unread
    BY <1>1 DEF Send
  <2>2. /\ sent' \in Seq(Lines) /\ input' \in Seq(Lines)
        /\ Len(sent') = Len(sent) + 1 /\ Len(input') = Len(input) + 1
        /\ \A i \in 1 .. Len(sent) : sent'[i] = sent[i]
        /\ \A i \in 1 .. Len(input) : input'[i] = input[i]
        /\ sent'[Len(sent) + 1] = line /\ input'[Len(input) + 1] = line
    BY <1>0, <2>1
  <2>3. InputPart'
    <3>1. ASSUME NEW i \in 1 .. Len(input')
          PROVE  input'[i] = sent'[Len(sent') - Len(input') + i]
      <4>1. CASE i = Len(input) + 1
        BY <1>0, <2>2, <4>1
      <4>2. CASE i # Len(input) + 1
        <5>1. i \in 1 .. Len(input) /\ Len(sent) - Len(input) + i \in 1 .. Len(sent)
              /\ Len(sent') - Len(input') + i = Len(sent) - Len(input) + i
          BY <1>0, <2>2, <4>2
        <5>2. input[i] = sent[Len(sent) - Len(input) + i]
          BY <1>0, <5>1 DEF InputPart
        <5> QED BY <2>2, <5>1, <5>2
      <4> QED BY <4>1, <4>2
    <3>2. Len(sent') <= MaxLines /\ Len(input') <= Len(sent')
      BY <1>0, <2>1, <2>2
    <3> QED BY <3>1, <3>2 DEF InputPart
  <2>4. line.bytes \in 1 .. MaxLength /\ line.ends \in BOOLEAN
    BY DEF Lines
  <2>5. input' # <<>> /\ Head(input') = IF input = <<>> THEN line ELSE Head(input)
    <3>1. Head(input') = input'[1] /\ input' # <<>>
      BY <1>0, <2>2
    <3>2. CASE input = <<>>
      BY <2>2, <3>1, <3>2
    <3>3. CASE input # <<>>
      BY <1>0, <2>2, <3>1, <3>3
    <3> QED BY <3>1, <3>2, <3>3
  <2>6. LoopPart'
    <3>1. ASSUME Len(sent) - Len(input) > 0
          PROVE  sent'[Len(sent') - Len(input')] = sent[Len(sent) - Len(input)]
                 /\ Len(sent') - Len(input') > 0
      BY <1>0, <2>2, <3>1
    <3>2. loop' # "over" => LoopPart'
      BY <1>0, <2>1, <2>5 DEF LoopPart
    <3>3. CASE loop = "over"
      <4>1. Len(sent) - Len(input) > 0 /\ IsFatal(sent[Len(sent) - Len(input)])
        BY <1>0, <2>1, <3>3 DEF LoopPart
      <4>2. IsFatal(sent'[Len(sent') - Len(input')]) /\ Len(sent') - Len(input') > 0
        BY <3>1, <4>1
      <4>3. IsFatal(sent[Len(sent) - Len(input)])' <=> IsFatal(sent'[Len(sent') - Len(input')])
        BY DEF IsFatal
      <4> QED BY <2>1, <3>3, <4>2, <4>3 DEF LoopPart
    <3> QED BY <2>1, <3>2, <3>3
  <2>7. unread' \in 0 .. MaxLength
    BY <1>0, <2>1, <2>4
  <2>8. StdioTypeOK'
    BY <1>0, <2>1, <2>2, <2>4, <2>7 DEF StdioTypeOK
  <2>9. Follow(output', sent', Len(sent') - Len(input'))
    <3>1. Len(sent') - Len(input') = Len(sent) - Len(input) /\ Len(sent) - Len(input) \in 0 .. Len(sent)
      BY <1>0, <2>2
    <3>2. Follow(output, Append(sent, line), Len(sent) - Len(input))
      BY <1>0, <3>1, SendFollows
    <3> QED BY <2>1, <3>1, <3>2
  <2> QED BY <2>3, <2>6, <2>8, <2>9 DEF StdioInv
<1>2. CASE Close
  BY <1>0, <1>2 DEF Close, StdioInv, StdioTypeOK, InputPart, LoopPart
<1>3. CASE ReadLine
  <2>1. input # <<>> /\ NextLine /\ UNCHANGED <<sent, eof>> /\ loop' = "read"
        /\ Handled(Head(input).says) /\ loop = "read" /\ Piece <= MaxBytes
    BY <1>3 DEF ReadLine
  <2>2. Head(input).bytes = unread /\ unread <= MaxBytes
    BY <1>0, <2>1 DEF LoopPart, Piece
  <2>3. ~ (Head(input).bytes > MaxBytes)
    BY <1>0, <2>2
  <2>4. \/ \E kind \in Deserves(Head(input)) : Answer(kind)
        \/ Deserves(Head(input)) = {} /\ UNCHANGED output
    <3> DEFINE x == Head(input)
    <3>1. Handled(x.says) /\ ~ (x.bytes > MaxBytes)
      BY <2>1, <2>3
    <3> HIDE DEF x
    <3>2. CASE x.says = "call"
      <4>1. Answer("result") \/ Answer("limited")
        BY <3>1, <3>2 DEF Handled
      <4>2. Deserves(x) = {"result", "limited"}
        BY <3>1, <3>2 DEF Deserves
      <4> QED BY <4>1, <4>2 DEF x
    <3>3. CASE x.says = "ask"
      <4>1. Answer("result")
        BY <3>1, <3>3 DEF Handled
      <4>2. Deserves(x) = {"result"}
        BY <3>1, <3>3 DEF Deserves
      <4> QED BY <4>1, <4>2 DEF x
    <3>4. CASE x.says = "junk"
      <4>1. Answer("parse error")
        BY <3>1, <3>4 DEF Handled
      <4>2. Deserves(x) = {"parse error"}
        BY <3>1, <3>4 DEF Deserves
      <4> QED BY <4>1, <4>2 DEF x
    <3>5. CASE x.says \notin {"call", "ask", "junk"}
      <4>1. UNCHANGED output
        BY <3>1, <3>5 DEF Handled
      <4>2. Deserves(x) = {}
        BY <3>1, <3>5 DEF Deserves
      <4> QED BY <4>1, <4>2 DEF x
    <3> QED BY <3>2, <3>3, <3>4, <3>5
  <2>5. GoesOn(Head(input)) /\ AsDeserved(Head(input))
    BY <2>1, <2>4 DEF GoesOn, AsDeserved
  <2> QED BY <2>1, <2>5, AnsweredStep
<1>12. CASE ReadFatal
  <2>1. /\ input # <<>> /\ NextLine /\ UNCHANGED <<sent, eof, output>> /\ loop' = "over"
        /\ Head(input).says = "fatal" /\ loop = "read" /\ Piece <= MaxBytes
    BY <1>12 DEF ReadFatal
  <2>2. Head(input).bytes = unread /\ unread <= MaxBytes
    BY <1>0, <2>1 DEF LoopPart, Piece
  <2>3. ~ (Head(input).bytes > MaxBytes) /\ Head(input).bytes <= MaxBytes
    BY <1>0, <2>2
  <2>4. GoesOn(Head(input)) /\ AsDeserved(Head(input))
    <3> DEFINE x == Head(input)
    <3>1. x.says = "fatal" /\ ~ (x.bytes > MaxBytes) /\ x.bytes <= MaxBytes
      BY <2>1, <2>3
    <3> HIDE DEF x
    <3>2. Deserves(x) = {} /\ IsFatal(x)
      BY <3>1 DEF Deserves, IsFatal
    <3> QED BY <2>1, <3>2 DEF x, GoesOn, AsDeserved
  <2> QED BY <2>1, <2>4, AnsweredStep
<1>4. ASSUME input # <<>>, NextLine, UNCHANGED <<sent, eof>>, loop' = "read", Answer("too long"),
             Head(input).bytes > MaxBytes
      PROVE  StdioInv'
  <2>1. Deserves(Head(input)) = {"too long"}
    <3> DEFINE x == Head(input)
    <3>1. x.bytes > MaxBytes
      BY <1>4
    <3> HIDE DEF x
    <3>2. Deserves(x) = {"too long"}
      BY <3>1 DEF Deserves
    <3> QED BY <3>2 DEF x
  <2>2. GoesOn(Head(input)) /\ AsDeserved(Head(input))
    BY <1>4, <2>1 DEF GoesOn, AsDeserved
  <2> QED BY <1>4, <2>2, AnsweredStep
<1>5. CASE ReadTooLong
  <2>0. loop = "read" /\ input # <<>> /\ Piece > MaxBytes
    BY <1>5 DEF ReadTooLong
  <2>1. Head(input).bytes = unread /\ unread > MaxBytes
    BY <1>0, <2>0 DEF LoopPart, Piece
  <2> QED BY <1>4, <1>5, <2>1 DEF ReadTooLong
<1>6. ASSUME input # <<>>, Head(input).bytes > MaxBytes, loop' = "drain", unread' = unread - Piece,
             UNCHANGED <<sent, input, eof, output>>
      PROVE  StdioInv'
  <2>1. unread' \in 0 .. MaxLength
    BY <1>0, <1>6 DEF Piece
  <2>2. StdioTypeOK'
    BY <1>0, <1>6, <2>1 DEF StdioTypeOK
  <2>3. InputPart' /\ LoopPart'
    BY <1>0, <1>6 DEF InputPart, LoopPart
  <2> QED BY <1>0, <1>6, <2>2, <2>3 DEF StdioInv
<1>7. CASE BeginDrain
  <2>1. Head(input).bytes = unread /\ unread > MaxBytes
    BY <1>0, <1>7 DEF BeginDrain, LoopPart, Piece
  <2> QED BY <1>6, <1>7, <2>1 DEF BeginDrain
<1>8. CASE Drain
  <2>1. input # <<>> /\ Head(input).bytes > MaxBytes /\ loop = "drain"
    BY <1>0, <1>8 DEF Drain, LoopPart
  <2>2. CASE EndsLine \/ unread = 0
    BY <1>4, <1>8, <2>1, <2>2 DEF Drain
  <2>3. CASE ~ (EndsLine \/ unread = 0)
    BY <1>6, <1>8, <2>1, <2>3 DEF Drain
  <2> QED BY <2>2, <2>3
<1>9. CASE EndLoop
  BY <1>0, <1>9 DEF EndLoop, StdioInv, StdioTypeOK, InputPart, LoopPart
<1>10. CASE Restart
  <2>1. FreshServer'
    BY <1>10 DEF Restart, FreshServer
  <2>2. FreshServer' => StdioInv'
    BY StdioFresh, PTL
  <2> QED BY <2>1, <2>2
<1>11. CASE UNCHANGED stdioVars
  BY <1>0, <1>11 DEF stdioVars, StdioInv, StdioTypeOK, InputPart, LoopPart
<1> QED BY <1>1, <1>2, <1>3, <1>5, <1>7, <1>8, <1>9, <1>10, <1>11, <1>12 DEF StdioNext, LoopStep

\* Whatever the client sends and however it goes away: every line that was read and
\* deserves an answer has it, in the order of the lines, and nothing else is
\* answered; no rest of a line that is too long is taken for a request.
THEOREM AnswersAlwaysFollow == StdioSpec => [](StdioTypeOK /\ AnswersFollowLines)
<1>1. StdioInit => StdioInv
  BY StdioFresh DEF StdioInit, FreshServer
<1>2. StdioInv => StdioTypeOK /\ AnswersFollowLines
  BY DEF StdioInv, LoopPart, Follow, Owed, AnswersFollowLines
<1> QED BY <1>1, <1>2, StdioInvNext, PTL DEF StdioSpec
=============================================================================
