----------------------------- MODULE EditProofs -----------------------------
(***************************************************************************)
(* What EditServer says of the editing tools, for any servers, files and   *)
(* contents, any failures and power losses: the types are right, files     *)
(* stay whole, answers are durable, nothing is left behind, what a commit  *)
(* replaces was shown, a preview is good once, and to its client a write   *)
(* is one step (AtomicFiles).                                              *)
(***************************************************************************)
EXTENDS EditServer, TLAPS

\* No value of a name is torn, or can be by a power loss.
EntriesAreWhole ==
    \A n \in Names : \A i \in DOMAIN file[n] : file[n][i].val # Torn /\ file[n][i].synced

TempsMatch ==
    \A p \in Procs :
        /\ pc[p] = "commit" => temp[p] = "synced"
        /\ pc[p] \notin {"fill", "commit", "unlink", "cleanup", "failed"} => temp[p] = "none"
        /\ pc[p] = "failed" => temp[p] \in {"none", "stuck"}

\* An edit that is applied overwrites, and its preview is still there.
JobsAreShown ==
    \A p \in Procs : pc[p] # "idle" /\ job[p].tool = "apply_edit" =>
        job[p].overwrite /\ EditOf(job[p]) \in previews[p]

\* What a job has seen of a file that now shows v: the content whose change was
\* shown, or, when it was not called destructive to overwrite it, nothing.
Saw(j, v) ==
    /\ j.tool = "apply_edit" => v = j.old
    /\ j.tool = "write_file" /\ j.overwrite /\ j.risk # "DESTRUCTIVE" => v = Absent

\* Before the commit the file is as the call has seen it, unless something raced.
JobsAreRight ==
    \A p \in Procs :
        pc[p] \in BeforeCommit /\ ~ raced[p] => Saw(job[p], Seen(job[p].name))

AppliedAreGone == \A p \in Procs : done[p] \cap previews[p] = {}

-----------------------------------------------------------------------------
(* The values of the names. A step leaves them alone, gives one name       *)
(* another value, or leaves every name one value of those it had.          *)

FileTypeOK ==
    /\ file \in [Names -> Seq(Values)]
    /\ \A n \in Names : Len(file[n]) \in 1..MaxUnsynced

\* What a name shows is the last of its values.
LEMMA SeenIsAValue ==
    ASSUME FileTypeOK, NEW n \in Names
    PROVE  /\ Len(file[n]) \in DOMAIN file[n] /\ Last(file[n]) = file[n][Len(file[n])]
           /\ Last(file[n]) \in Values
           /\ Seen(n) \in Contents \cup {Absent, Torn}
<1>1. file[n] \in Seq(Values) /\ Len(file[n]) \in 1..MaxUnsynced
    BY DEF FileTypeOK
<1>2. Len(file[n]) \in DOMAIN file[n] /\ file[n][Len(file[n])] \in Values
    BY <1>1, WriteAssumption
<1>3. Last(file[n]) = file[n][Len(file[n])]
    BY DEF Last
<1>4. Seen(n) = file[n][Len(file[n])].val
    BY <1>3 DEF Seen
<1> QED
    BY <1>2, <1>3, <1>4 DEF Values

\* A commit adds one value to one name, and to no other.
LEMMA PublishAdds ==
    ASSUME FileTypeOK, NEW p \in Procs, Publish(p), job[p] \in Jobs
    PROVE  LET n == job[p].name
               e == [val |-> job[p].new, by |-> p, synced |-> temp[p] = "synced"]
           IN  /\ FileTypeOK'
               /\ file'[n] = Append(file[n], e)
               /\ \A m \in Names \ {n} : file'[m] = file[m]
<1> DEFINE n == job[p].name
           e == [val |-> job[p].new, by |-> p, synced |-> temp[p] = "synced"]
<1>1. n \in Names /\ e \in Values
    BY EditAssumption DEF Jobs, Values
<1>2. /\ file \in [Names -> Seq(Values)] /\ Len(file[n]) \in 1..MaxUnsynced
      /\ Len(file[n]) < MaxUnsynced
      /\ file' = [file EXCEPT ![n] = Append(file[n], e)]
    BY <1>1 DEF Publish, FileTypeOK
<1>3. /\ Append(file[n], e) \in Seq(Values)
      /\ Len(Append(file[n], e)) \in 1..MaxUnsynced
    BY <1>1, <1>2, WriteAssumption
<1>4. file'[n] = Append(file[n], e) /\ \A m \in Names \ {n} : file'[m] = file[m]
    BY <1>1, <1>2
<1>5. file' \in [Names -> Seq(Values)]
    BY <1>1, <1>2, <1>3
<1>6. \A m \in Names : Len(file'[m]) \in 1..MaxUnsynced
    BY <1>3, <1>4 DEF FileTypeOK
<1> QED
    BY <1>4, <1>5, <1>6 DEF FileTypeOK

\* Names that have one value each have their type.
LEMMA OneValueEach ==
    ASSUME NEW f \in [Names -> Values], file' = [n \in Names |-> <<f[n]>>]
    PROVE  /\ FileTypeOK'
           /\ \A n \in Names : /\ Len(file'[n]) = 1 /\ DOMAIN file'[n] = {1}
                               /\ file'[n][1] = f[n] /\ Seen(n)' = f[n].val
<1>1. \A n \in Names : file'[n] = <<f[n]>> /\ f[n] \in Values
    OBVIOUS
<1>2. \A n \in Names : /\ file'[n] \in Seq(Values) /\ Len(file'[n]) = 1
                       /\ DOMAIN file'[n] = {1} /\ file'[n][1] = f[n]
    BY <1>1
<1>3. 1 \in 1..MaxUnsynced
    BY WriteAssumption
<1>4. FileTypeOK'
    BY <1>2, <1>3 DEF FileTypeOK
<1>5. \A n \in Names : Seen(n)' = f[n].val
    BY <1>1, <1>2 DEF Seen, Last
<1> QED
    BY <1>2, <1>4, <1>5

\* What the user saves is whole, and the only value of its name.
LEMMA HostChangeResets ==
    ASSUME FileTypeOK, NEW n \in Names, NEW v \in Contents \cup {Absent}, HostChange(n, v)
    PROVE  /\ FileTypeOK'
           /\ file'[n] = <<[val |-> v, by |-> Host, synced |-> TRUE]>>
           /\ \A m \in Names \ {n} : file'[m] = file[m]
<1> DEFINE e == [val |-> v, by |-> Host, synced |-> TRUE]
<1>1. e \in Values
    BY DEF Values
<1>2. file \in [Names -> Seq(Values)] /\ file' = [file EXCEPT ![n] = <<e>>]
    BY DEF HostChange, FileTypeOK
<1>3. <<e>> \in Seq(Values) /\ Len(<<e>>) \in 1..MaxUnsynced
    BY <1>1, WriteAssumption
<1>4. file'[n] = <<e>> /\ \A m \in Names \ {n} : file'[m] = file[m]
    BY <1>2
<1>5. file' \in [Names -> Seq(Values)]
    BY <1>2, <1>3
<1>6. \A m \in Names : Len(file'[m]) \in 1..MaxUnsynced
    BY <1>3, <1>4 DEF FileTypeOK
<1> QED
    BY <1>4, <1>5, <1>6 DEF FileTypeOK

\* A synced directory has the values that everybody sees.
LEMMA SyncKeepsLast ==
    ASSUME FileTypeOK, file' = [n \in Names |-> <<[Last(file[n]) EXCEPT !.by = Host]>>]
    PROVE  /\ FileTypeOK'
           /\ \A n \in Names :
                 /\ Len(file'[n]) = 1 /\ DOMAIN file'[n] = {1}
                 /\ file'[n][1].synced = Last(file[n]).synced
                 /\ file'[n][1].val = Last(file[n]).val /\ Seen(n)' = Seen(n)
<1> DEFINE f == [n \in Names |-> [Last(file[n]) EXCEPT !.by = Host]]
<1>1. ASSUME NEW n \in Names
      PROVE  /\ f[n] \in Values
             /\ f[n].val = Last(file[n]).val /\ f[n].synced = Last(file[n]).synced
    <2>1. Last(file[n]) \in Values
        BY SeenIsAValue
    <2> QED
        BY <2>1 DEF Values
<1>2. file' = [n \in Names |-> <<f[n]>>]
    OBVIOUS
<1>3. f \in [Names -> Values]
    BY <1>1
<1>4. \A n \in Names : f[n].val = Seen(n)
    BY <1>1 DEF Seen
<1> HIDE DEF f
<1>5. /\ FileTypeOK'
      /\ \A n \in Names : /\ Len(file'[n]) = 1 /\ DOMAIN file'[n] = {1}
                          /\ file'[n][1] = f[n] /\ Seen(n)' = f[n].val
    BY <1>2, <1>3, OneValueEach
<1> QED
    BY <1>1, <1>4, <1>5

\* After a power loss a name has one of its values, torn if it was not synced.
LEMMA RevertPicks ==
    ASSUME FileTypeOK, Revert
    PROVE  /\ FileTypeOK'
           /\ \A n \in Names :
                 /\ Len(file'[n]) = 1 /\ DOMAIN file'[n] = {1}
                 /\ \E i \in DOMAIN file[n] :
                       file[n][i].synced => /\ file'[n][1].synced
                                            /\ file'[n][1].val = file[n][i].val
<1>1. PICK keep \in [Names -> 1..MaxUnsynced] :
          /\ \A n \in Names : keep[n] <= Len(file[n])
          /\ file' = [n \in Names |->
                LET e == file[n][keep[n]]
                IN  <<[val |-> IF e.synced THEN e.val ELSE Torn,
                       by |-> Host, synced |-> e.synced]>>]
    BY DEF Revert
<1> DEFINE e(n) == file[n][keep[n]]
           f == [n \in Names |-> [val |-> IF e(n).synced THEN e(n).val ELSE Torn,
                                  by |-> Host, synced |-> e(n).synced]]
<1>2. \A n \in Names : keep[n] \in DOMAIN file[n] /\ e(n) \in Values
    BY <1>1, WriteAssumption DEF FileTypeOK
<1>3. \A n \in Names : f[n] \in Values
    <2> SUFFICES ASSUME NEW n \in Names PROVE f[n] \in Values
        OBVIOUS
    <2>1. e(n) \in Values
        BY <1>2
    <2> QED
        BY <2>1 DEF Values
<1>4. \A n \in Names : e(n).synced => f[n].synced /\ f[n].val = e(n).val
    <2> SUFFICES ASSUME NEW n \in Names, e(n).synced
                 PROVE  f[n].synced /\ f[n].val = e(n).val
        OBVIOUS
    <2>1. e(n) \in Values
        BY <1>2
    <2> QED
        BY <2>1 DEF Values
<1>5. file' = [n \in Names |-> <<f[n]>>] /\ f \in [Names -> Values]
    BY <1>1, <1>3
<1> HIDE DEF f
<1>6. /\ FileTypeOK'
      /\ \A n \in Names : /\ Len(file'[n]) = 1 /\ DOMAIN file'[n] = {1}
                          /\ file'[n][1] = f[n]
    BY <1>5, OneValueEach
<1> QED
    BY <1>2, <1>4, <1>6

-----------------------------------------------------------------------------
(* Types                                                                   *)

\* Where a process is and what it has: the part of TypeOK without the files.
ControlTypeOK ==
    /\ temp \in [Procs -> Temps]
    /\ pc \in [Procs -> Pcs] /\ job \in [Procs -> Jobs \cup {NoJob}]
    /\ \A p \in Procs : IF pc[p] = "idle" THEN job[p] = NoJob ELSE job[p] \in Jobs
    /\ leased \in BOOLEAN
    /\ previews \in [Procs -> SUBSET Edit] /\ done \in [Procs -> SUBSET Edit]
    /\ raced \in [Procs -> BOOLEAN]

LEMMA TypeParts == TypeOK <=> FileTypeOK /\ ControlTypeOK
BY DEF TypeOK, WriteTypeOK, FileTypeOK, ControlTypeOK

LEMMA NoJobIsNone == NoJob \notin Jobs
BY DEF NoJob, Jobs, Tools

\* Whoever takes a step: the values of the names keep their type.
LEMMA FileStep == ASSUME TypeOK, [Next]_vars PROVE FileTypeOK'
<1> USE TypeParts
<1>1. CASE UNCHANGED file
    BY <1>1 DEF FileTypeOK
<1>2. ASSUME NEW p \in Procs, OnFile(p) PROVE FileTypeOK'
    <2>1. CASE Stat(p) \/ CreateTemp(p) \/ Fill(p) \/ UnlinkTemp(p) \/ WriteError(p) \/ CleanUp(p)
        BY <2>1, <1>1 DEF Stat, CreateTemp, Fill, UnlinkTemp, WriteError, CleanUp
    <2>2. CASE Publishing(p)
        <3>1. Publish(p) /\ job[p] \in Jobs
            BY <2>2 DEF Publishing, Replace, Link, Goto, ControlTypeOK
        <3> QED
            BY <3>1, PublishAdds
    <2>3. CASE SyncDir(p)
        BY <2>3, <1>1, SyncKeepsLast DEF SyncDir
    <2> QED
        BY <1>2, <2>1, <2>2, <2>3 DEF OnFile, WriteStep
<1>3. ASSUME NEW n \in Names, NEW v \in Contents \cup {Absent}, HostSaves(n, v)
      PROVE  FileTypeOK'
    BY <1>3, HostChangeResets DEF HostSaves
<1>4. CASE PowerLoss
    BY <1>4, RevertPicks DEF PowerLoss
<1> QED
    BY <1>1, <1>2, <1>3, <1>4
    DEF Next, vars, Preview, ApplyEdit, WriteFile, Begin, Approved, NotApproved, Answer,
        AnswerError, Kill, LeaseExpires

LEMMA ControlStep == ASSUME TypeOK, JobsAreShown, [Next]_vars PROVE ControlTypeOK'
<1> USE TypeParts, NoJobIsNone DEF ControlTypeOK, Pcs, Writing
<1>1. ASSUME NEW p \in Procs, NEW n \in Names, NEW c \in Proposed, Preview(p, n, c)
      PROVE  ControlTypeOK'
    <2>1. [name |-> n, old |-> Seen(n), new |-> c] \in Edit
        BY <1>1 DEF Preview, Edit
    <2> QED
        BY <1>1, <2>1 DEF Preview
<1>2. ASSUME NEW p \in Procs, NEW j \in Jobs, Begin(p, j) PROVE ControlTypeOK'
    BY <1>2 DEF Begin, Goto
<1>3. ASSUME NEW p \in Procs, NEW e \in previews[p], ApplyEdit(p, e) PROVE ControlTypeOK'
    <2>1. [tool |-> "apply_edit", name |-> e.name, old |-> e.old, new |-> e.new,
           overwrite |-> TRUE, risk |-> "WRITE"] \in Jobs
        <3>1. e \in Edit
            OBVIOUS
        <3> QED
            BY <3>1 DEF Jobs, Edit, Tools, Risks
    <2> QED
        BY <1>2, <1>3, <2>1 DEF ApplyEdit
<1>4. ASSUME NEW p \in Procs, NEW n \in Names, NEW c \in Proposed, NEW over \in BOOLEAN,
             WriteFile(p, n, c, over)
      PROVE  ControlTypeOK'
    <2>1. [tool |-> "write_file", name |-> n, old |-> Absent, new |-> c, overwrite |-> over,
           risk |-> IF over /\ Seen(n) # Absent THEN "DESTRUCTIVE" ELSE "WRITE"] \in Jobs
        BY DEF Jobs, Tools, Risks
    <2> QED
        BY <1>2, <1>4, <2>1 DEF WriteFile
<1>5. ASSUME NEW p \in Procs, Approved(p) \/ NotApproved(p) PROVE ControlTypeOK'
    BY <1>5 DEF Approved, NotApproved, Goto
<1>6. ASSUME NEW p \in Procs, OnFile(p) PROVE ControlTypeOK'
    <2>1. raced' \in [Procs -> BOOLEAN]
        BY <1>6 DEF OnFile, Race
    <2>2. /\ temp' \in [Procs -> Temps]
          /\ pc' \in [Procs -> Pcs]
        BY <1>6 DEF OnFile, WriteStep, Stat, CreateTemp, Fill, Publishing, Replace, Link,
                    UnlinkTemp, SyncDir, WriteError, CleanUp, Goto, SetTemp, Temps
    <2>3. pc[p] # "idle" /\ pc'[p] # "idle" /\ \A q \in Procs \ {p} : pc'[q] = pc[q]
        BY <1>6 DEF OnFile, WriteStep, Stat, CreateTemp, Fill, Publishing, Replace, Link,
                    UnlinkTemp, SyncDir, WriteError, CleanUp, Goto
    <2> QED
        BY <1>6, <2>1, <2>2, <2>3 DEF OnFile
<1>7. ASSUME NEW p \in Procs, Answer(p) PROVE ControlTypeOK'
    <2>1. /\ previews' \in [Procs -> SUBSET Edit]
          /\ done' \in [Procs -> SUBSET Edit]
        <3>1. job[p] \in Jobs
            BY <1>7 DEF Answer, Goto
        <3>2. CASE job[p].tool = "apply_edit"
            <4>1. EditOf(job[p]) \in Edit
                BY <1>7, <3>2 DEF Answer, Goto, JobsAreShown
            <4> QED
                BY <1>7, <3>2, <4>1 DEF Answer
        <3>3. CASE job[p].tool # "apply_edit"
            BY <1>7, <3>3 DEF Answer
        <3> QED
            BY <3>2, <3>3
    <2> QED
        BY <1>7, <2>1 DEF Answer, Goto
<1>8. ASSUME NEW p \in Procs, AnswerError(p) PROVE ControlTypeOK'
    BY <1>8 DEF AnswerError, Goto, SetTemp, Temps
<1>9. ASSUME NEW p \in Procs, Kill(p) PROVE ControlTypeOK'
    BY <1>9 DEF Kill, Restart, SetTemp, Temps
<1>10. ASSUME NEW n \in Names, NEW v \in Contents \cup {Absent}, HostSaves(n, v)
       PROVE  ControlTypeOK'
    BY <1>10 DEF HostSaves, Race
<1>11. CASE LeaseExpires
    BY <1>11 DEF LeaseExpires
<1>12. CASE PowerLoss
    BY <1>12 DEF PowerLoss, Revert, Restart, Temps
<1>13. CASE UNCHANGED vars
    BY <1>13 DEF vars
<1> QED
    BY <1>1, <1>3, <1>4, <1>5, <1>6, <1>7, <1>8, <1>9, <1>10, <1>11, <1>12, <1>13 DEF Next

-----------------------------------------------------------------------------
(* Files                                                                   *)

LEMMA TornIsNoContent == Torn \notin Contents \cup {Absent}
<1>1. Torn \notin Contents
    BY WriteAssumption
<1> QED
    BY <1>1 DEF Torn, Absent

LEMMA EntriesStep ==
    ASSUME TypeOK, EntriesAreWhole, TempsMatch, [Next]_vars
    PROVE  EntriesAreWhole'
<1> USE TypeParts DEF EntriesAreWhole
<1>1. CASE UNCHANGED file
    BY <1>1
<1>2. ASSUME NEW p \in Procs, OnFile(p) PROVE EntriesAreWhole'
    <2>1. CASE Publishing(p)
        <3> DEFINE e == [val |-> job[p].new, by |-> p, synced |-> temp[p] = "synced"]
        <3>1. Publish(p) /\ job[p] \in Jobs /\ temp[p] = "synced"
            BY <2>1 DEF Publishing, Replace, Link, Goto, ControlTypeOK, TempsMatch
        <3>2. e.val # Torn /\ e.synced /\ job[p].name \in Names
            <4>1. job[p].new \in Contents /\ job[p].name \in Names
                BY <3>1, EditAssumption DEF Jobs
            <4>2. job[p].new # Torn
                BY <4>1, TornIsNoContent
            <4> QED
                BY <3>1, <4>1, <4>2
        <3>3. /\ file[job[p].name] \in Seq(Values) /\ e \in Values
              /\ file'[job[p].name] = Append(file[job[p].name], e)
              /\ \A m \in Names \ {job[p].name} : file'[m] = file[m]
            BY <3>1, PublishAdds, EditAssumption DEF FileTypeOK, Jobs, Values
        <3> HIDE DEF e
        <3>4. \A i \in DOMAIN file'[job[p].name] :
                  file'[job[p].name][i].val # Torn /\ file'[job[p].name][i].synced
            BY <3>2, <3>3
        <3>5. \A m \in Names \ {job[p].name} : \A i \in DOMAIN file'[m] :
                  file'[m][i].val # Torn /\ file'[m][i].synced
            BY <3>3
        <3> QED
            BY <3>4, <3>5
    <2>2. CASE SyncDir(p)
        <3> SUFFICES ASSUME DirSyncs PROVE EntriesAreWhole'
            BY <2>2, <1>1 DEF SyncDir
        <3>1. \A n \in Names : /\ DOMAIN file'[n] = {1}
                              /\ file'[n][1].synced = Last(file[n]).synced
                              /\ file'[n][1].val = Last(file[n]).val
            BY <2>2, SyncKeepsLast DEF SyncDir
        <3>2. \A n \in Names : Last(file[n]).val # Torn /\ Last(file[n]).synced
            BY SeenIsAValue
        <3> QED
            BY <3>1, <3>2
    <2>3. CASE ~ Publishing(p) /\ ~ SyncDir(p)
        BY <1>2, <2>3, <1>1
        DEF OnFile, WriteStep, Stat, CreateTemp, Fill, UnlinkTemp, WriteError, CleanUp
    <2> QED
        BY <2>1, <2>2, <2>3
<1>3. ASSUME NEW n \in Names, NEW v \in Contents \cup {Absent}, HostSaves(n, v)
      PROVE  EntriesAreWhole'
    <2> DEFINE e == [val |-> v, by |-> Host, synced |-> TRUE]
    <2>1. e.val # Torn /\ e.synced
        BY TornIsNoContent
    <2>2. file'[n] = <<e>> /\ \A m \in Names \ {n} : file'[m] = file[m]
        BY <1>3, HostChangeResets DEF HostSaves
    <2> HIDE DEF e
    <2>3. \A i \in DOMAIN file'[n] : file'[n][i].val # Torn /\ file'[n][i].synced
        BY <2>1, <2>2
    <2> QED
        BY <2>2, <2>3
<1>4. CASE PowerLoss
    BY <1>4, RevertPicks DEF PowerLoss
<1> QED
    BY <1>1, <1>2, <1>3, <1>4
    DEF Next, vars, Preview, ApplyEdit, WriteFile, Begin, Approved, NotApproved, Answer,
        AnswerError, Kill, LeaseExpires

LEMMA TempsStep ==
    ASSUME TypeOK, TempsMatch, [Next]_vars
    PROVE  TempsMatch'
<1> USE TypeParts DEF TempsMatch, ControlTypeOK, Pcs, Writing
<1>1. CASE UNCHANGED <<pc, temp>>
    BY <1>1
<1>2. ASSUME NEW p \in Procs, OnFile(p) PROVE TempsMatch'
    BY <1>2 DEF OnFile, WriteStep, Stat, CreateTemp, Fill, Publishing, Replace, Link,
                UnlinkTemp, SyncDir, WriteError, CleanUp, Goto, SetTemp
<1>3. ASSUME NEW p \in Procs,
             \/ \E j : Begin(p, j)
             \/ Approved(p) \/ NotApproved(p) \/ Answer(p) \/ AnswerError(p)
      PROVE  TempsMatch'
    BY <1>3 DEF Begin, Approved, NotApproved, Answer, AnswerError, Goto, SetTemp
<1>4. ASSUME NEW p \in Procs, Kill(p) PROVE TempsMatch'
    BY <1>4 DEF Kill, Restart, SetTemp
<1>5. CASE PowerLoss
    BY <1>5 DEF PowerLoss, Revert, Restart
<1> QED
    BY <1>1, <1>2, <1>3, <1>4, <1>5
    DEF Next, vars, Preview, ApplyEdit, WriteFile, Begin, HostSaves, LeaseExpires

\* A call gets to "written" by the sync of the directory only.
LEMMA OnlySyncEndsWriting ==
    ASSUME TypeOK, [Next]_vars, NEW q \in Procs, pc'[q] = "written"
    PROVE  pc[q] = "written" \/ SyncDir(q)
<1> USE TypeParts DEF ControlTypeOK
<1>1. ASSUME NEW p \in Procs, OnFile(p) PROVE pc[q] = "written" \/ SyncDir(q)
    BY <1>1 DEF OnFile, WriteStep, Stat, CreateTemp, Fill, Publishing, Replace, Link,
                UnlinkTemp, WriteError, CleanUp, SyncDir, Goto
<1>2. ASSUME NEW p \in Procs,
             \/ \E j : Begin(p, j)
             \/ Approved(p) \/ NotApproved(p) \/ Answer(p) \/ AnswerError(p)
      PROVE  pc[q] = "written"
    BY <1>2 DEF Begin, Approved, NotApproved, Answer, AnswerError, Goto
<1>3. ASSUME NEW p \in Procs, Kill(p) PROVE pc[q] = "written"
    BY <1>3 DEF Kill, Restart
<1>4. CASE PowerLoss
    BY <1>4 DEF PowerLoss, Restart
<1>5. CASE UNCHANGED pc
    BY <1>5
<1> QED
    BY <1>1, <1>2, <1>3, <1>4, <1>5
    DEF Next, vars, Preview, ApplyEdit, WriteFile, HostSaves, LeaseExpires

LEMMA DurableStep ==
    ASSUME TypeOK, AnswersAreDurable, [Next]_vars
    PROVE  AnswersAreDurable'
<1> USE TypeParts
<1> SUFFICES ASSUME DirSyncs, NEW q \in Procs, NEW n \in Names, pc'[q] = "written"
             PROVE  \A i \in 2..Len(file'[n]) : file'[n][i].by # q
    BY DEF AnswersAreDurable
<1>1. CASE SyncDir(q)
    <2>1. Len(file'[n]) = 1
        BY <1>1, SyncKeepsLast DEF SyncDir
    <2> QED
        BY <2>1
<1>2. CASE pc[q] = "written"
    <2>1. \A i \in 2..Len(file[n]) : file[n][i].by # q
        BY <1>2 DEF AnswersAreDurable
    <2>2. CASE file'[n] = file[n]
        BY <2>1, <2>2
    <2>3. ASSUME NEW p \in Procs, OnFile(p), file'[n] # file[n]
          PROVE  \A i \in 2..Len(file'[n]) : file'[n][i].by # q
        <3>1. CASE SyncDir(p)
            <4>1. Len(file'[n]) = 1
                BY <3>1, SyncKeepsLast DEF SyncDir
            <4> QED
                BY <4>1
        <3>2. CASE Publishing(p)
            <4> DEFINE e == [val |-> job[p].new, by |-> p, synced |-> temp[p] = "synced"]
            <4>1. Publish(p) /\ job[p] \in Jobs /\ p # q
                BY <1>2, <3>2 DEF Publishing, Replace, Link, Goto, ControlTypeOK
            <4>2. file[n] \in Seq(Values) /\ e \in Values /\ file'[n] = Append(file[n], e)
                BY <2>3, <4>1, PublishAdds, EditAssumption DEF FileTypeOK, Jobs, Values
            <4>3. e.by # q
                BY <4>1
            <4> HIDE DEF e
            <4> QED
                BY <2>1, <4>2, <4>3
        <3> QED
            BY <2>3, <3>1, <3>2
            DEF OnFile, WriteStep, Stat, CreateTemp, Fill, UnlinkTemp, WriteError, CleanUp
    <2>4. ASSUME NEW m \in Names, NEW v \in Contents \cup {Absent}, HostSaves(m, v),
                 file'[n] # file[n]
          PROVE  \A i \in 2..Len(file'[n]) : file'[n][i].by # q
        <3> DEFINE e == [val |-> v, by |-> Host, synced |-> TRUE]
        <3>0. file'[n] = <<e>>
            BY <2>4, HostChangeResets DEF HostSaves
        <3> HIDE DEF e
        <3>1. Len(file'[n]) = 1
            BY <3>0
        <3> QED
            BY <3>1
    <2>5. ~ PowerLoss
        BY DEF PowerLoss, Restart
    <2> QED
        BY <2>2, <2>3, <2>4, <2>5
        DEF Next, vars, Preview, ApplyEdit, WriteFile, Begin, Approved, NotApproved, Answer,
            AnswerError, Kill, LeaseExpires
<1> QED
    BY <1>1, <1>2, OnlySyncEndsWriting

-----------------------------------------------------------------------------
(* Previews and what a commit replaces                                     *)

LEMMA ShownStep ==
    ASSUME TypeOK, JobsAreShown, AppliedAreGone, [Next]_vars
    PROVE  JobsAreShown' /\ AppliedAreGone'
<1> USE TypeParts DEF JobsAreShown, AppliedAreGone, ControlTypeOK
<1>1. ASSUME NEW p \in Procs, NEW n \in Names, NEW c \in Proposed, Preview(p, n, c)
      PROVE  JobsAreShown' /\ AppliedAreGone'
    BY <1>1 DEF Preview
<1>2. ASSUME NEW p \in Procs, NEW e \in previews[p], ApplyEdit(p, e)
      PROVE  JobsAreShown' /\ AppliedAreGone'
    <2> DEFINE j == [tool |-> "apply_edit", name |-> e.name, old |-> e.old, new |-> e.new,
                     overwrite |-> TRUE, risk |-> "WRITE"]
    <2>1. EditOf(j) = e /\ j.overwrite
        BY DEF EditOf, Edit
    <2>2. Begin(p, j)
        BY <1>2 DEF ApplyEdit
    <2> HIDE DEF j
    <2>3. /\ job' = [job EXCEPT ![p] = j] /\ pc' = [pc EXCEPT ![p] = "approval"]
          /\ UNCHANGED <<previews, done>>
        BY <2>2 DEF Begin, Goto
    <2> QED
        BY <2>1, <2>3
<1>3. ASSUME NEW p \in Procs, NEW n \in Names, NEW c \in Proposed, NEW over \in BOOLEAN,
             WriteFile(p, n, c, over)
      PROVE  JobsAreShown' /\ AppliedAreGone'
    BY <1>3 DEF WriteFile, Begin, Goto
<1>4. ASSUME NEW p \in Procs, Approved(p) \/ NotApproved(p)
      PROVE  JobsAreShown' /\ AppliedAreGone'
    BY <1>4 DEF Approved, NotApproved, Goto
<1>5. ASSUME NEW p \in Procs, OnFile(p) PROVE JobsAreShown' /\ AppliedAreGone'
    <2>1. pc[p] # "idle" /\ \A q \in Procs \ {p} : pc'[q] = pc[q]
        BY <1>5 DEF OnFile, WriteStep, Stat, CreateTemp, Fill, Publishing, Replace, Link,
                    UnlinkTemp, SyncDir, WriteError, CleanUp, Goto
    <2> QED
        BY <1>5, <2>1 DEF OnFile
<1>6. ASSUME NEW p \in Procs, Answer(p) PROVE JobsAreShown' /\ AppliedAreGone'
    BY <1>6 DEF Answer, Goto
<1>7. ASSUME NEW p \in Procs, AnswerError(p) \/ Kill(p)
      PROVE  JobsAreShown' /\ AppliedAreGone'
    <2>1. CASE AnswerError(p)
        BY <2>1 DEF AnswerError, Goto
    <2>2. CASE Kill(p)
        BY <2>2 DEF Kill, Restart
    <2> QED
        BY <1>7, <2>1, <2>2
<1>8. CASE PowerLoss
    BY <1>8 DEF PowerLoss, Restart
<1>9. CASE UNCHANGED <<pc, job, previews, done>>
    BY <1>9
<1> QED
    BY <1>1, <1>2, <1>3, <1>4, <1>5, <1>6, <1>7, <1>8, <1>9
    DEF Next, vars, HostSaves, LeaseExpires

\* A step that is no commit, no save of the user's and no power loss shows every
\* name as it was; a commit or a save changes what one name shows.
LEMMA SeenStep ==
    ASSUME TypeOK, [Next]_vars, ~ PowerLoss
    PROVE  \A n \in Names :
              \/ Seen(n)' = Seen(n)
              \/ \E p \in Procs : OnFile(p) /\ Publishing(p) /\ n = job[p].name
              \/ \E v \in Contents \cup {Absent} : HostSaves(n, v)
<1> USE TypeParts
<1>1. CASE UNCHANGED file
    BY <1>1 DEF Seen, Last
<1>2. ASSUME NEW p \in Procs, OnFile(p), ~ Publishing(p), file' # file
      PROVE  \A n \in Names : Seen(n)' = Seen(n)
    <2>1. SyncDir(p)
        BY <1>2 DEF OnFile, WriteStep, Stat, CreateTemp, Fill, UnlinkTemp, WriteError, CleanUp
    <2> QED
        BY <1>2, <2>1, SyncKeepsLast DEF SyncDir
<1>3. ASSUME NEW p \in Procs, OnFile(p), Publishing(p)
      PROVE  \A n \in Names \ {job[p].name} : Seen(n)' = Seen(n)
    <2>1. Publish(p) /\ job[p] \in Jobs
        BY <1>3 DEF Publishing, Replace, Link, Goto, ControlTypeOK
    <2>2. \A n \in Names \ {job[p].name} : file'[n] = file[n]
        BY <2>1, PublishAdds
    <2> QED
        BY <2>2 DEF Seen, Last
<1>4. ASSUME NEW m \in Names, NEW v \in Contents \cup {Absent}, HostSaves(m, v)
      PROVE  \A n \in Names \ {m} : Seen(n)' = Seen(n)
    <2>1. \A n \in Names \ {m} : file'[n] = file[n]
        BY <1>4, HostChangeResets DEF HostSaves
    <2> QED
        BY <2>1 DEF Seen, Last
<1> QED
    BY <1>1, <1>2, <1>3, <1>4
    DEF Next, vars, Preview, ApplyEdit, WriteFile, Begin, Approved, NotApproved, Answer,
        AnswerError, Kill, LeaseExpires

LEMMA JobsStep ==
    ASSUME TypeOK, JobsAreRight, [Next]_vars
    PROVE  JobsAreRight'
<1> USE TypeParts DEF ControlTypeOK
<1> SUFFICES ASSUME NEW q \in Procs, pc'[q] \in BeforeCommit, ~ raced'[q]
             PROVE  Saw(job[q], Seen(job[q].name))'
    BY DEF JobsAreRight
<1>1. ~ PowerLoss
    BY DEF PowerLoss, Restart, BeforeCommit
<1>2. CASE pc[q] \in BeforeCommit
    <2>1. job[q] \in Jobs /\ job[q].name \in Names
        BY <1>2 DEF Jobs, BeforeCommit
    <2>2. ASSUME NEW p \in Procs, OnFile(p)
          PROVE  job' = job /\ (Publishing(p) => p # q)
        BY <2>2 DEF OnFile, Publishing, Replace, Link, Goto, BeforeCommit
    <2>3. ASSUME NEW p \in Procs,
                 \/ \E j : Begin(p, j)
                 \/ Approved(p) \/ NotApproved(p) \/ Answer(p) \/ AnswerError(p) \/ Kill(p)
          PROVE  job'[q] = job[q]
        <3>1. CASE Kill(p)
            BY <3>1 DEF Kill, Restart, BeforeCommit
        <3>2. CASE \E j : Begin(p, j)
            BY <1>2, <3>2 DEF Begin, Goto, BeforeCommit
        <3>3. CASE Approved(p) \/ NotApproved(p)
            BY <3>3 DEF Approved, NotApproved
        <3>4. CASE Answer(p) \/ AnswerError(p)
            BY <1>2, <3>4 DEF Answer, AnswerError, Goto, BeforeCommit
        <3> QED
            BY <2>3, <3>1, <3>2, <3>3, <3>4
    <2>4. job'[q] = job[q]
        BY <1>1, <2>2, <2>3
        DEF Next, vars, Preview, ApplyEdit, WriteFile, HostSaves, LeaseExpires
    <2>5. ~ raced[q]
        <3>1. ASSUME NEW p \in Procs, OnFile(p) PROVE ~ raced[q]
            <4>1. CASE Publishing(p)
                BY <2>2, <3>1, <4>1 DEF OnFile, Race
            <4>2. CASE ~ Publishing(p)
                BY <3>1, <4>2 DEF OnFile
            <4> QED
                BY <4>1, <4>2
        <3>2. ASSUME NEW n \in Names, NEW v \in Contents \cup {Absent}, HostSaves(n, v)
              PROVE  ~ raced[q]
            BY <3>2, WriteAssumption DEF HostSaves, Race
        <3>3. ASSUME NEW p \in Procs,
                     \/ \E j : Begin(p, j)
                     \/ Approved(p) \/ NotApproved(p) \/ Answer(p) \/ AnswerError(p) \/ Kill(p)
              PROVE  ~ raced[q]
            BY <1>2, <3>3
            DEF Begin, Approved, NotApproved, Answer, AnswerError, Kill, Restart, Goto,
                BeforeCommit
        <3> QED
            BY <1>1, <3>1, <3>2, <3>3
            DEF Next, vars, Preview, ApplyEdit, WriteFile, LeaseExpires
    <2>6. ASSUME NEW p \in Procs, OnFile(p), Publishing(p)
          PROVE  job[p].name # job[q].name
        BY <1>2, <2>2, <2>6 DEF OnFile, Race
    <2>7. ASSUME NEW m \in Names, NEW v \in Contents \cup {Absent}, HostSaves(m, v)
          PROVE  m # job[q].name
        BY <1>2, <2>7, WriteAssumption DEF HostSaves, Race
    <2>8. PICK n \in Names : n = job[q].name
        BY <2>1
    <2>9. Seen(n)' = Seen(n)
        BY <1>1, <2>6, <2>7, <2>8, SeenStep
    <2>10. Saw(job[q], Seen(n))
        BY <1>2, <2>5, <2>8 DEF JobsAreRight
    <2> QED
        BY <2>4, <2>8, <2>9, <2>10
<1>3. CASE pc[q] \notin BeforeCommit
    <2>1. ASSUME NEW n \in Names, NEW c \in Proposed, NEW over \in BOOLEAN,
                 WriteFile(q, n, c, over)
          PROVE  Saw(job[q], Seen(job[q].name))'
        <3> DEFINE j == [tool |-> "write_file", name |-> n, old |-> Absent, new |-> c,
                         overwrite |-> over,
                         risk |-> IF over /\ Seen(n) # Absent THEN "DESTRUCTIVE" ELSE "WRITE"]
        <3>1. job'[q] = j /\ UNCHANGED file
            BY <2>1 DEF WriteFile, Begin
        <3>2. Seen(n)' = Seen(n)
            BY <3>1 DEF Seen, Last
        <3>3. Saw(j, Seen(n)) /\ j.name = n
            BY DEF Saw
        <3> HIDE DEF j
        <3> QED
            BY <3>1, <3>2, <3>3
    <2>2. ASSUME NEW e \in previews[q], ApplyEdit(q, e)
          PROVE  Saw(job[q], Seen(job[q].name))'
        <3> DEFINE j == [tool |-> "apply_edit", name |-> e.name, old |-> e.old, new |-> e.new,
                         overwrite |-> TRUE, risk |-> "WRITE"]
        <3>1. job'[q] = j /\ UNCHANGED file /\ Seen(e.name) = e.old
            BY <2>2 DEF ApplyEdit, Begin
        <3>2. Seen(e.name)' = Seen(e.name)
            BY <3>1 DEF Seen, Last
        <3>3. Saw(j, e.old) /\ j.name = e.name
            BY DEF Saw
        <3> HIDE DEF j
        <3> QED
            BY <3>1, <3>2, <3>3
    <2>3. ASSUME NEW p \in Procs, OnFile(p) PROVE FALSE
        BY <1>3, <2>3
        DEF OnFile, WriteStep, Stat, CreateTemp, Fill, Publishing, Replace, Link,
            UnlinkTemp, SyncDir, WriteError, CleanUp, Goto, BeforeCommit
    <2>4. ASSUME NEW p \in Procs \ {q},
                 \/ \E e \in previews[p] : ApplyEdit(p, e)
                 \/ \E n \in Names, c \in Proposed, over \in BOOLEAN : WriteFile(p, n, c, over)
          PROVE  FALSE
        BY <1>3, <2>4 DEF ApplyEdit, WriteFile, Begin, Goto
    <2>5. ASSUME NEW p \in Procs,
                 Approved(p) \/ NotApproved(p) \/ Answer(p) \/ AnswerError(p) \/ Kill(p)
          PROVE  FALSE
        BY <1>3, <2>5
        DEF Approved, NotApproved, Answer, AnswerError, Kill, Restart, Goto, BeforeCommit
    <2>6. ~ UNCHANGED pc
        BY <1>3
    <2> QED
        BY <1>1, <2>1, <2>2, <2>3, <2>4, <2>5, <2>6
        DEF Next, vars, Preview, HostSaves, LeaseExpires
<1> QED
    BY <1>2, <1>3

-----------------------------------------------------------------------------
(* The theorems. All rest on one invariant, which no power loss breaks:    *)
(* what is said of the files and the temporary files, and what a call      *)
(* knows of its file and its preview.                                      *)

EditInv ==
    /\ TypeOK /\ EntriesAreWhole /\ TempsMatch /\ AnswersAreDurable
    /\ JobsAreShown /\ AppliedAreGone /\ JobsAreRight

LEMMA EditInvInit == Init => EditInv
<1> SUFFICES ASSUME Init PROVE EditInv
    OBVIOUS
<1>1. PICK f \in [Names -> Contents \cup {Absent}] :
          file = [n \in Names |-> <<[val |-> f[n], by |-> Host, synced |-> TRUE]>>]
    <2>1. file \in [Names -> {<<[val |-> v, by |-> Host, synced |-> TRUE]>> :
                                 v \in Contents \cup {Absent}}]
        BY DEF Init, WriteInit
    <2> DEFINE f == [n \in Names |-> CHOOSE v \in Contents \cup {Absent} :
                        file[n] = <<[val |-> v, by |-> Host, synced |-> TRUE]>>]
    <2>2. \A n \in Names : \E v \in Contents \cup {Absent} :
              file[n] = <<[val |-> v, by |-> Host, synced |-> TRUE]>>
        BY <2>1
    <2>3. \A n \in Names : /\ f[n] \in Contents \cup {Absent}
                           /\ file[n] = <<[val |-> f[n], by |-> Host, synced |-> TRUE]>>
        BY <2>2
    <2>4. f \in [Names -> Contents \cup {Absent}]
        BY <2>3
    <2>5. file = [n \in Names |-> file[n]]
        BY <2>1
    <2>6. file = [n \in Names |-> <<[val |-> f[n], by |-> Host, synced |-> TRUE]>>]
        BY <2>3, <2>5
    <2> QED
        BY <2>4, <2>6
<1> DEFINE e(n) == [val |-> f[n], by |-> Host, synced |-> TRUE]
<1>2. \A n \in Names : file[n] = <<e(n)>> /\ e(n) \in Values /\ e(n).val # Torn /\ e(n).synced
    BY <1>1, TornIsNoContent DEF Values
<1> HIDE DEF e
<1>3. FileTypeOK
    <2>1. ASSUME NEW n \in Names PROVE file[n] \in Seq(Values) /\ Len(file[n]) = 1
        <3>1. PICK x \in Values : file[n] = <<x>>
            BY <1>2
        <3> QED
            BY <3>1
    <2>2. 1 \in 1..MaxUnsynced
        BY WriteAssumption
    <2> QED
        BY <1>1, <2>1, <2>2 DEF FileTypeOK
<1>4. ControlTypeOK
    BY DEF Init, WriteInit, ControlTypeOK, Pcs, Temps
<1>5. EntriesAreWhole
    BY <1>2 DEF EntriesAreWhole
<1>6. TempsMatch /\ AnswersAreDurable /\ JobsAreShown /\ AppliedAreGone /\ JobsAreRight
    BY DEF Init, WriteInit, TempsMatch, AnswersAreDurable, JobsAreShown, AppliedAreGone,
           JobsAreRight, BeforeCommit
<1> QED
    BY <1>3, <1>4, <1>5, <1>6, TypeParts DEF EditInv

LEMMA EditInvStep == EditInv /\ [Next]_vars => EditInv'
<1> SUFFICES ASSUME EditInv, [Next]_vars PROVE EditInv'
    OBVIOUS
<1>1. TypeOK'
    <2>1. FileTypeOK' /\ ControlTypeOK'
        BY FileStep, ControlStep DEF EditInv
    <2> QED
        BY <2>1 DEF TypeOK, WriteTypeOK, FileTypeOK, ControlTypeOK
<1> QED
    BY <1>1, EntriesStep, TempsStep, DurableStep, ShownStep, JobsStep DEF EditInv

LEMMA EditInvariant == Spec => []EditInv
BY EditInvInit, EditInvStep, PTL DEF Spec

\* The variables keep their types, whatever fails and whoever changes the files.
THEOREM EditTypeCorrect == Spec => []TypeOK
<1>1. EditInv => TypeOK
    BY DEF EditInv
<1> QED
    BY <1>1, EditInvariant, PTL

\* No file is ever torn: data is on the disk before it has a name.
THEOREM FilesStayWhole == Spec => []FilesAreWhole
<1>1. EditInv => FilesAreWhole
    <2> SUFFICES ASSUME EditInv, NEW n \in Names PROVE Seen(n) # Torn
        BY DEF FilesAreWhole
    <2>1. FileTypeOK
        BY TypeParts DEF EditInv
    <2> QED
        BY <2>1, SeenIsAValue DEF EditInv, EntriesAreWhole, Seen
<1> QED
    BY <1>1, EditInvariant, PTL

\* A client that has its answer finds its content after a power loss.
THEOREM AnswersStayDurable == Spec => []AnswersAreDurable
<1>1. EditInv => AnswersAreDurable
    BY DEF EditInv
<1> QED
    BY <1>1, EditInvariant, PTL

\* Whichever of its other system calls fails: a call that ends has left no temporary
\* file, but for one whose last unlink failed (safe_write.py:100-105).
THEOREM NothingIsLeft == Spec => []NoLitter
<1>1. EditInv => NoLitter
    BY DEF EditInv, TempsMatch, NoLitter
<1> QED
    BY <1>1, EditInvariant, PTL

\* A commit replaces what was shown or what was called destructive, unless raced;
\* and a preview is applied once.
LEMMA CommitIsRight ==
    ASSUME EditInv, [Next]_vars, NEW p \in Procs, Commits(p)
    PROVE  /\ MayReplace(p) \/ (raced[p] /\ job[p].overwrite)
           /\ job[p].tool = "apply_edit" => EditOf(job[p]) \notin done[p]
<1> USE TypeParts DEF EditInv, ControlTypeOK
<1>1. pc[p] = "commit" /\ pc'[p] \in {"unlink", "dirsync"}
    BY DEF Commits
<1>2. job[p] \in Jobs /\ job[p].tool \in Tools /\ job[p].overwrite \in BOOLEAN
    BY <1>1 DEF Jobs
<1>3. job[p].overwrite \/ Seen(job[p].name) = Absent
    <2>1. ASSUME NEW q \in Procs, OnFile(q) PROVE job[p].overwrite \/ Seen(job[p].name) = Absent
        BY <1>1, <2>1
        DEF OnFile, WriteStep, Stat, CreateTemp, Fill, Publishing, Replace, Link,
            UnlinkTemp, SyncDir, WriteError, CleanUp, Goto
    <2>2. ASSUME NEW q \in Procs,
                 \/ \E j : Begin(q, j)
                 \/ Approved(q) \/ NotApproved(q) \/ Answer(q) \/ AnswerError(q)
          PROVE  FALSE
        BY <1>1, <2>2 DEF Begin, Approved, NotApproved, Answer, AnswerError, Goto
    <2>3. ASSUME NEW q \in Procs, Kill(q) PROVE FALSE
        BY <1>1, <2>3 DEF Kill, Restart
    <2>4. ~ PowerLoss /\ ~ UNCHANGED pc
        BY <1>1 DEF PowerLoss, Restart
    <2> QED
        BY <2>1, <2>2, <2>3, <2>4
        DEF Next, vars, Preview, ApplyEdit, WriteFile, HostSaves, LeaseExpires
<1>4. raced[p] \/ Saw(job[p], Seen(job[p].name))
    BY <1>1 DEF JobsAreRight, BeforeCommit
<1>5. MayReplace(p) \/ (raced[p] /\ job[p].overwrite)
    BY <1>2, <1>3, <1>4 DEF MayReplace, Saw, Tools
<1>6. job[p].tool = "apply_edit" => EditOf(job[p]) \notin done[p]
    BY <1>1 DEF JobsAreShown, AppliedAreGone
<1> QED
    BY <1>5, <1>6

\* No step of any server replaces a file but as it was shown or called.
THEOREM CommitsReplaceWhatWasShown == Spec => ReplacesWhatWasShownUnlessRaced
<1>1. EditInv /\ [Next]_vars =>
          [\A p \in Procs : Commits(p) => MayReplace(p) \/ (raced[p] /\ job[p].overwrite)]_vars
    BY CommitIsRight
<1> QED
    BY <1>1, EditInvariant, PTL DEF Spec, ReplacesWhatWasShownUnlessRaced

\* A preview that was applied is not applied again until it is shown again.
THEOREM PreviewsAreUsedOnce == Spec => PreviewsAreOneTime
<1>1. EditInv /\ [Next]_vars =>
          [\A p \in Procs :
              Commits(p) /\ job[p].tool = "apply_edit" => EditOf(job[p]) \notin done[p]]_vars
    BY CommitIsRight
<1> QED
    BY <1>1, EditInvariant, PTL DEF Spec, PreviewsAreOneTime
-----------------------------------------------------------------------------
(* The refinement: what a client sees of a write is AtomicFiles. The files *)
(* are compared name by name, the writes process by process.               *)

FilesVars ==
    <<[n \in Names |-> Seen(n)], [n \in Names |-> Older(n)],
      [p \in Procs |-> Asked(p)], [p \in Procs |-> Stage(p)]>>

\* To everybody the files are as they were, and so is what a power loss may do.
FilesSame == \A n \in Names : Seen(n)' = Seen(n) /\ Older(n)' = Older(n)

\* The writes are as they were, but of one process.
OthersSame(p) == \A q \in Procs \ {p} : Asked(q)' = Asked(q) /\ Stage(q)' = Stage(q)

LEMMA SameFile == ASSUME UNCHANGED file PROVE FilesSame
BY DEF FilesSame, Seen, Older, Last

LEMMA SameWrites ==
    ASSUME NEW p \in Procs, pc'[p] = pc[p], job'[p] = job[p]
    PROVE  Asked(p)' = Asked(p) /\ Stage(p)' = Stage(p)
BY DEF Asked, Stage, BeforeCommit

LEMMA NothingMoves ==
    ASSUME FilesSame, \A p \in Procs : Asked(p)' = Asked(p) /\ Stage(p)' = Stage(p)
    PROVE  UNCHANGED FilesVars
BY DEF FilesSame, FilesVars

\* Each value has its place: one is seen, the others are older.
LEMMA SeenOrOlder ==
    ASSUME FileTypeOK, NEW n \in Names, NEW i \in DOMAIN file[n]
    PROVE  file[n][i].val \in {Seen(n)} \cup Older(n)
<1>1. file[n] \in Seq(Values) /\ Len(file[n]) \in 1..MaxUnsynced
    BY DEF FileTypeOK
<1>2. Len(file[n]) \in Nat /\ i \in 1..Len(file[n])
    BY <1>1
<1>3. CASE i = Len(file[n])
    BY <1>3 DEF Seen, Last
<1>4. CASE i # Len(file[n])
    <2>1. i \in 1..Len(file[n]) - 1
        BY <1>2, <1>4
    <2> QED
        BY <2>1 DEF Older
<1> QED
    BY <1>3, <1>4

\* A name with one value has none behind it.
LEMMA OneValueNoOlder ==
    ASSUME NEW n \in Names, Len(file[n]) = 1
    PROVE  Older(n) = {}
<1>1. 1..Len(file[n]) - 1 = {}
    BY SMT
<1> QED
    BY <1>1 DEF Older

\* A new value leaves the others behind it.
LEMMA AppendedOlder ==
    ASSUME FileTypeOK, NEW n \in Names, NEW e, file'[n] = Append(file[n], e),
           e \in Values
    PROVE  Seen(n)' = e.val /\ Older(n)' = Older(n) \cup {Seen(n)}
<1> DEFINE f == file[n]
           k == Len(file[n])
<1>1. f \in Seq(Values) /\ k \in Nat /\ k >= 1
    BY WriteAssumption DEF FileTypeOK
<1>2. Len(file'[n]) = k + 1 /\ file'[n][k + 1] = e
    BY <1>1
<1>3. \A i \in 1..k : file'[n][i] = f[i]
    BY <1>1
<1>4. Seen(n) = f[k].val
    BY DEF Seen, Last
<1>5. Older(n)' = {file'[n][i].val : i \in 1..k}
    <2>1. Len(file'[n]) - 1 = k
        BY <1>1, <1>2
    <2> QED
        BY <2>1 DEF Older
<1>6. {file'[n][i].val : i \in 1..k} = {f[i].val : i \in 1..k}
    BY <1>3
<1>7. 1..k = (1..k - 1) \cup {k}
    BY <1>1
<1>8. {f[i].val : i \in 1..k} = {f[i].val : i \in 1..k - 1} \cup {f[k].val}
    BY <1>7
<1>9. Older(n) = {f[i].val : i \in 1..k - 1}
    BY DEF Older
<1> QED
    BY <1>2, <1>4, <1>5, <1>6, <1>8, <1>9 DEF Seen, Last

\* A write goes on while the files and the other writes stay.
LEMMA Proceeds ==
    ASSUME NEW p \in Procs, NEW from, NEW to, Stage(p) \in from, Stage(p)' = to, OthersSame(p)
    PROVE  Files!Proceed(p, from, to)
BY DEF Files!Proceed, OthersSame

\* What is asked of a process stays, whoever else does something.
LEMMA WritingSame ==
    ASSUME NEW p \in Procs, OthersSame(p), Asked(p)' = Asked(p)
    PROVE  [q \in Procs |-> Asked(q)]' = [q \in Procs |-> Asked(q)]
BY DEF OthersSame

LEMMA BeginMaps ==
    ASSUME TypeOK, NEW p \in Procs, NEW j \in Jobs, Begin(p, j)
    PROVE  Files!Ask(p)
<1> USE TypeParts DEF ControlTypeOK
<1>1. /\ pc[p] = "idle" /\ pc'[p] = "approval" /\ job'[p] = j
      /\ \A q \in Procs \ {p} : pc'[q] = pc[q] /\ job'[q] = job[q]
    BY DEF Begin, Goto
<1>2. Stage(p) = "none" /\ Stage(p)' = "asked"
    BY <1>1 DEF Stage, BeforeCommit
<1>3. OthersSame(p)
    BY <1>1, SameWrites DEF OthersSame
<1>4. Files!Proceed(p, {"none"}, "asked")
    BY <1>2, <1>3, Proceeds
<1>5. Asked(p)' = [name |-> j.name, new |-> j.new, overwrite |-> j.overwrite]
    BY <1>1 DEF Asked
<1>6. Asked(p)' \in Files!Write
    <2>1. j.name \in Names /\ j.new \in Contents /\ j.overwrite \in BOOLEAN
        BY EditAssumption DEF Jobs
    <2> QED
        BY <1>5, <2>1 DEF Files!Write
<1>7. [q \in Procs |-> Asked(q)]' = [[q \in Procs |-> Asked(q)] EXCEPT ![p] = Asked(p)']
    BY <1>3 DEF OthersSame
<1>8. FilesSame
    BY SameFile DEF Begin
<1> QED
    BY <1>4, <1>6, <1>7, <1>8 DEF Files!Ask, FilesSame

LEMMA FailMaps ==
    ASSUME NEW p \in Procs, Stage(p) \in {"asked", "effective"}, Stage(p)' = "failed",
           OthersSame(p), Asked(p)' = Asked(p), FilesSame
    PROVE  Files!Fail(p)
<1>1. Files!Proceed(p, {"asked", "effective"}, "failed")
    BY Proceeds
<1> QED
    BY <1>1, WritingSame DEF Files!Fail, FilesSame

\* The rename or the link is where a write takes effect.
LEMMA PublishMaps ==
    ASSUME TypeOK, NEW p \in Procs, OnFile(p), Publishing(p)
    PROVE  Files!TakeEffect(p)
<1> USE TypeParts DEF ControlTypeOK
<1>1. /\ pc[p] = "commit" /\ pc'[p] \in {"unlink", "dirsync"} /\ job[p] \in Jobs
      /\ \A q \in Procs \ {p} : pc'[q] = pc[q]
      /\ Publish(p) /\ job' = job
      /\ job[p].overwrite \/ Seen(job[p].name) = Absent
    BY DEF Publishing, Replace, Link, Goto, OnFile
<1>2. Stage(p) = "asked" /\ Stage(p)' = "effective"
    BY <1>1 DEF Stage, BeforeCommit
<1>3. OthersSame(p)
    BY <1>1, SameWrites DEF OthersSame
<1>4. Files!Proceed(p, {"asked"}, "effective")
    BY <1>2, <1>3, Proceeds
<1>5. PICK n \in Names : n = job[p].name
    BY <1>1 DEF Jobs
<1>6. PICK c \in Contents : c = job[p].new
    BY <1>1, EditAssumption DEF Jobs
<1>7. /\ Asked(p) = [name |-> n, new |-> c, overwrite |-> job[p].overwrite]
      /\ Asked(p)' = Asked(p)
    BY <1>1, <1>5, <1>6 DEF Asked
<1>8. PICK e \in Values :
          /\ e.val = c /\ file'[n] = Append(file[n], e)
          /\ \A m \in Names \ {n} : file'[m] = file[m]
    <2> DEFINE e == [val |-> c, by |-> p, synced |-> temp[p] = "synced"]
    <2>1. e \in Values /\ e.val = c
        BY DEF Values
    <2>2. file'[n] = Append(file[n], e) /\ \A m \in Names \ {n} : file'[m] = file[m]
        BY <1>1, <1>5, <1>6, PublishAdds
    <2> HIDE DEF e
    <2> QED
        BY <2>1, <2>2
<1>9. Seen(n)' = c /\ Older(n)' = Older(n) \cup {Seen(n)}
    BY <1>8, AppendedOlder
<1>10. \A m \in Names \ {n} : Seen(m)' = Seen(m) /\ Older(m)' = Older(m)
    BY <1>8 DEF Seen, Last, Older
<1>11. [m \in Names |-> Seen(m)]' = [[m \in Names |-> Seen(m)] EXCEPT ![n] = c]
    BY <1>9, <1>10
<1>12. [m \in Names |-> Older(m)]' =
           [[m \in Names |-> Older(m)] EXCEPT ![n] = Older(n) \cup {Seen(n)}]
    BY <1>9, <1>10
<1>13. Asked(p).name = n /\ Asked(p).new = c /\ Asked(p).overwrite = job[p].overwrite
    BY <1>7
<1>14. [q \in Procs |-> Asked(q)]' = [q \in Procs |-> Asked(q)]
    BY <1>3, <1>7, WritingSame
<1>15. job[p].overwrite \/ Seen(n) = Absent
    BY <1>1, <1>5
<1> QED
    BY <1>4, <1>11, <1>12, <1>13, <1>14, <1>15 DEF Files!TakeEffect

\* The sync of the directory is what an acknowledgement rests on.
LEMMA SyncMaps ==
    ASSUME TypeOK, NEW p \in Procs, OnFile(p), SyncDir(p)
    PROVE  Files!Acknowledge(p)
<1> USE TypeParts DEF ControlTypeOK
<1>1. /\ pc[p] = "dirsync" /\ pc'[p] = "written" /\ job[p] \in Jobs
      /\ \A q \in Procs \ {p} : pc'[q] = pc[q]
      /\ job' = job
    BY DEF SyncDir, Goto, OnFile
<1>2. Stage(p) = "effective" /\ Stage(p)' = "acknowledged"
    BY <1>1 DEF Stage, BeforeCommit
<1>3. OthersSame(p)
    BY <1>1, SameWrites DEF OthersSame
<1>4. Files!Proceed(p, {"effective"}, "acknowledged")
    BY <1>2, <1>3, Proceeds
<1>5. Asked(p)' = Asked(p) /\ Asked(p).name \in Names
    BY <1>1 DEF Asked, Jobs
<1>6. ASSUME DirSyncs, NEW n \in Names PROVE Seen(n)' = Seen(n) /\ Older(n)' = {}
    <2>1. Len(file'[n]) = 1 /\ Seen(n)' = Seen(n)
        BY <1>6, SyncKeepsLast DEF SyncDir
    <2>2. 1..Len(file'[n]) - 1 = {}
        BY <2>1
    <2> QED
        BY <2>1, <2>2 DEF Older
<1>7. ~ DirSyncs => FilesSame
    BY SameFile DEF SyncDir
<1>8. \A n \in Names : Seen(n)' = Seen(n) /\ Older(n)' \in {Older(n), {}}
    BY <1>6, <1>7 DEF FilesSame
<1>9. DirSyncs => Older(Asked(p).name)' = {}
    <2>1. PICK n \in Names : Asked(p).name = n /\ Asked(p)'.name = n
        BY <1>5
    <2> QED
        BY <1>6, <2>1
<1>10. [q \in Procs |-> Asked(q)]' = [q \in Procs |-> Asked(q)]
    BY <1>3, <1>5, WritingSame
<1> QED
    BY <1>4, <1>5, <1>8, <1>9, <1>10 DEF Files!Acknowledge

\* The steps of a call on its file: all but those of above are inside it.
LEMMA OnFileMaps ==
    ASSUME TypeOK, NEW p \in Procs, OnFile(p)
    PROVE  Files!Next \/ UNCHANGED FilesVars
<1> USE TypeParts DEF ControlTypeOK
<1>1. CASE Publishing(p)
    BY <1>1, PublishMaps DEF Files!Next
<1>2. CASE SyncDir(p)
    BY <1>2, SyncMaps DEF Files!Next
<1>3. CASE ~ Publishing(p) /\ ~ SyncDir(p)
    <2>1. /\ UNCHANGED <<file, job>> /\ pc[p] # "idle" /\ pc'[p] # "idle"
          /\ \A q \in Procs \ {p} : pc'[q] = pc[q]
        BY <1>3 DEF OnFile, WriteStep, Stat, CreateTemp, Fill, UnlinkTemp, WriteError, CleanUp,
                    Goto
    <2>2. FilesSame /\ OthersSame(p) /\ Asked(p)' = Asked(p)
        BY <2>1, SameFile, SameWrites DEF OthersSame, Asked
    <2>3. CASE WriteError(p)
        <3>1. Stage(p) \in {"asked", "effective"} /\ Stage(p)' = "failed"
            BY <2>3 DEF WriteError, Goto, Stage, BeforeCommit
        <3> QED
            BY <2>2, <3>1, FailMaps DEF Files!Next
    <2>4. CASE ~ WriteError(p)
        <3>1. Stage(p)' = Stage(p)
            BY <1>3, <2>4
            DEF OnFile, WriteStep, Stat, CreateTemp, Fill, UnlinkTemp, CleanUp, Goto, Stage,
                BeforeCommit
        <3> QED
            BY <2>2, <3>1, NothingMoves DEF OthersSame
    <2> QED
        BY <2>3, <2>4
<1> QED
    BY <1>1, <1>2, <1>3

\* A call that ends, or whose server does, is forgotten; the files stay.
LEMMA EndMaps ==
    ASSUME TypeOK, NEW p \in Procs, Answer(p) \/ AnswerError(p) \/ Kill(p)
    PROVE  Files!Answer(p) \/ Files!Die(p)
<1> USE TypeParts DEF ControlTypeOK
<1>1. /\ pc[p] # "idle" /\ pc'[p] = "idle" /\ UNCHANGED file
      /\ \A q \in Procs \ {p} : pc'[q] = pc[q] /\ job'[q] = job[q]
    BY DEF Answer, AnswerError, Kill, Restart, Goto
<1>2. FilesSame /\ OthersSame(p)
    BY <1>1, SameFile, SameWrites DEF OthersSame
<1>3. Stage(p)' = "none" /\ Asked(p)' = Files!NoWrite
    <2>1. Stage(p)' = "none"
        BY <1>1 DEF Stage, BeforeCommit
    <2>2. Asked(p)' = Files!NoWrite
        BY <1>1, Zenon DEF Asked, Files!NoWrite
    <2> QED
        BY <2>1, <2>2
<1>4. [q \in Procs |-> Asked(q)]' = [[q \in Procs |-> Asked(q)] EXCEPT ![p] = Files!NoWrite]
    BY <1>2, <1>3 DEF OthersSame
<1>5. Files!Leave(p)
    BY <1>2, <1>4 DEF Files!Leave, FilesSame
<1>6. CASE Answer(p) \/ AnswerError(p)
    <2>1. Stage(p) \in {"acknowledged", "failed"}
        BY <1>6 DEF Answer, AnswerError, Goto, Stage, BeforeCommit
    <2> QED
        BY <1>2, <1>3, <1>5, <2>1, Proceeds DEF Files!Answer
<1>7. CASE Kill(p)
    <2>1. pc[p] \in Pcs \ {"idle"}
        BY <1>1
    <2>2. Stage(p) \in {"asked", "effective", "acknowledged", "failed"}
        BY <2>1 DEF Pcs, Writing, Stage, BeforeCommit
    <2> QED
        BY <1>2, <1>3, <1>5, <2>2, Proceeds DEF Files!Die
<1> QED
    BY <1>6, <1>7

LEMMA HostSavesMaps ==
    ASSUME TypeOK, NEW n \in Names, NEW v \in Contents \cup {Absent}, HostSaves(n, v)
    PROVE  Files!UserChange(n)
<1> USE TypeParts
<1> DEFINE e == [val |-> v, by |-> Host, synced |-> TRUE]
<1>1. e.val = v
    OBVIOUS
<1>2. file'[n] = <<e>> /\ \A m \in Names \ {n} : file'[m] = file[m]
    BY HostChangeResets DEF HostSaves
<1> HIDE DEF e
<1>3. Len(file'[n]) = 1 /\ file'[n][1] = e
    BY <1>2
<1>4. Seen(n)' = v /\ Older(n)' = {}
    <2>1. 1..Len(file'[n]) - 1 = {}
        BY <1>3
    <2> QED
        BY <1>1, <1>3, <2>1 DEF Seen, Last, Older
<1>5. \A m \in Names \ {n} : Seen(m)' = Seen(m) /\ Older(m)' = Older(m)
    BY <1>2 DEF Seen, Last, Older
<1>6. [m \in Names |-> Seen(m)]' = [[m \in Names |-> Seen(m)] EXCEPT ![n] = v]
    BY <1>4, <1>5
<1>7. [m \in Names |-> Older(m)]' = [[m \in Names |-> Older(m)] EXCEPT ![n] = {}]
    BY <1>4, <1>5
<1>8. \A q \in Procs : Asked(q)' = Asked(q) /\ Stage(q)' = Stage(q)
    BY SameWrites DEF HostSaves
<1> QED
    BY <1>4, <1>6, <1>7, <1>8 DEF Files!UserChange, Files!Shown

\* A power loss brings back values that were there, whole, and ends all calls.
LEMMA PowerLossMaps ==
    ASSUME TypeOK, EntriesAreWhole, PowerLoss
    PROVE  Files!PowerLoss
<1> USE TypeParts
<1>1. \A n \in Names :
          /\ Len(file'[n]) = 1
          /\ \E i \in DOMAIN file[n] : file'[n][1].val = file[n][i].val
    BY RevertPicks DEF PowerLoss, EntriesAreWhole
<1>2. ASSUME NEW n \in Names
      PROVE  Seen(n)' \in {Seen(n)} \cup Older(n) /\ Older(n)' = {}
    <2>1. Len(file'[n]) = 1
        BY <1>1
    <2>2. 1..Len(file'[n]) - 1 = {}
        BY <2>1
    <2>3. Seen(n)' = file'[n][1].val /\ Older(n)' = {}
        BY <2>1, <2>2 DEF Seen, Last, Older
    <2>4. PICK i \in DOMAIN file[n] : file'[n][1].val = file[n][i].val
        BY <1>1
    <2> QED
        BY <2>3, <2>4, SeenOrOlder
<1>3. ASSUME NEW p \in Procs PROVE Asked(p)' = Files!NoWrite /\ Stage(p)' = "none"
    <2>1. pc'[p] = "idle"
        BY DEF PowerLoss, Restart
    <2>2. Asked(p)' = Files!NoWrite
        BY <2>1, Zenon DEF Asked, Files!NoWrite
    <2> QED
        BY <2>1, <2>2 DEF Stage, BeforeCommit
<1> QED
    BY <1>2, <1>3 DEF Files!PowerLoss

LEMMA FilesInit == Init => Files!Init
<1> SUFFICES ASSUME Init PROVE Files!Init
    OBVIOUS
<1>1. ASSUME NEW n \in Names PROVE Seen(n) \in Contents \cup {Absent} /\ Older(n) = {}
    <2>1. PICK v \in Contents \cup {Absent} :
              file[n] = <<[val |-> v, by |-> Host, synced |-> TRUE]>>
        BY DEF Init, WriteInit
    <2> DEFINE e == [val |-> v, by |-> Host, synced |-> TRUE]
    <2>2. e.val = v /\ file[n] = <<e>>
        BY <2>1
    <2> HIDE DEF e
    <2>3. Len(file[n]) = 1 /\ file[n][1] = e
        BY <2>2
    <2>4. Older(n) = {}
        BY <2>3, OneValueNoOlder
    <2> QED
        BY <2>2, <2>3, <2>4 DEF Seen, Last
<1>2. ASSUME NEW p \in Procs PROVE Asked(p) = Files!NoWrite /\ Stage(p) = "none"
    <2>1. pc[p] = "idle"
        BY DEF Init
    <2>2. Asked(p) = Files!NoWrite
        BY <2>1, Zenon DEF Asked, Files!NoWrite
    <2> QED
        BY <2>1, <2>2 DEF Stage, BeforeCommit
<1> QED
    BY <1>1, <1>2 DEF Files!Init, Files!Shown

LEMMA FilesStep == EditInv /\ [Next]_vars => [Files!Next]_FilesVars
<1> SUFFICES ASSUME EditInv, [Next]_vars PROVE Files!Next \/ UNCHANGED FilesVars
    OBVIOUS
<1> USE DEF EditInv
<1>1. CASE UNCHANGED <<file, pc, job>>
    BY <1>1, SameFile, SameWrites, NothingMoves
<1>2. ASSUME NEW p \in Procs, NEW j \in Jobs, Begin(p, j) PROVE Files!Next
    BY <1>2, BeginMaps DEF Files!Next
<1>3. ASSUME NEW p \in Procs, NEW e \in previews[p], ApplyEdit(p, e) PROVE Files!Next
    <2> DEFINE j == [tool |-> "apply_edit", name |-> e.name, old |-> e.old, new |-> e.new,
                     overwrite |-> TRUE, risk |-> "WRITE"]
    <2>1. e \in Edit
        BY TypeParts DEF ControlTypeOK
    <2>2. j \in Jobs
        BY <2>1 DEF Jobs, Edit, Tools, Risks
    <2>3. Begin(p, j)
        BY <1>3 DEF ApplyEdit
    <2> HIDE DEF j
    <2> QED
        BY <1>2, <2>2, <2>3
<1>4. ASSUME NEW p \in Procs, NEW n \in Names, NEW c \in Proposed, NEW over \in BOOLEAN,
             WriteFile(p, n, c, over)
      PROVE  Files!Next
    <2> DEFINE j == [tool |-> "write_file", name |-> n, old |-> Absent, new |-> c,
                     overwrite |-> over,
                     risk |-> IF over /\ Seen(n) # Absent THEN "DESTRUCTIVE" ELSE "WRITE"]
    <2>1. j \in Jobs
        BY DEF Jobs, Tools, Risks
    <2>2. Begin(p, j)
        BY <1>4 DEF WriteFile
    <2> HIDE DEF j
    <2> QED
        BY <1>2, <2>1, <2>2
<1>5. ASSUME NEW p \in Procs, Approved(p) \/ NotApproved(p)
      PROVE  Files!Next \/ UNCHANGED FilesVars
    <2>1. /\ UNCHANGED <<file, job>> /\ pc[p] = "approval"
          /\ \A q \in Procs \ {p} : pc'[q] = pc[q]
        BY <1>5, TypeParts DEF Approved, NotApproved, Goto, ControlTypeOK
    <2>2. pc'[p] = IF Approved(p) THEN "stat" ELSE "failed"
        BY <1>5, TypeParts DEF Approved, NotApproved, Goto, ControlTypeOK
    <2>3. FilesSame /\ OthersSame(p) /\ Asked(p)' = Asked(p) /\ Stage(p) = "asked"
        BY <2>1, <2>2, SameFile, SameWrites DEF OthersSame, Asked, Stage, BeforeCommit
    <2>4. CASE Approved(p)
        <3>1. Stage(p)' = "asked"
            BY <2>2, <2>4 DEF Stage, BeforeCommit
        <3> QED
            BY <2>3, <3>1, NothingMoves DEF OthersSame
    <2>5. CASE ~ Approved(p)
        <3>1. Stage(p)' = "failed"
            BY <2>2, <2>5 DEF Stage, BeforeCommit
        <3> QED
            BY <2>3, <3>1, FailMaps DEF Files!Next
    <2> QED
        BY <2>4, <2>5
<1>6. ASSUME NEW p \in Procs, OnFile(p) PROVE Files!Next \/ UNCHANGED FilesVars
    BY <1>6, OnFileMaps
<1>7. ASSUME NEW p \in Procs, Answer(p) \/ AnswerError(p) \/ Kill(p) PROVE Files!Next
    BY <1>7, EndMaps DEF Files!Next
<1>8. ASSUME NEW n \in Names, NEW v \in Contents \cup {Absent}, HostSaves(n, v)
      PROVE  Files!Next
    BY <1>8, HostSavesMaps DEF Files!Next
<1>9. CASE PowerLoss
    BY <1>9, PowerLossMaps DEF Files!Next
<1> QED
    BY <1>1, <1>3, <1>4, <1>5, <1>6, <1>7, <1>8, <1>9 DEF Next, vars, Preview, LeaseExpires

\* Whatever fails between the steps of a write, and whoever changes the files, to
\* its client it takes effect in one step, and lasts when it is acknowledged.
THEOREM WritesActAtomically == Spec => WritesAreAtomic
<1>1. Files!Spec <=> Files!Init /\ [][Files!Next]_FilesVars
    BY DEF Files!Spec, FilesVars
<1> QED
    BY <1>1, FilesInit, FilesStep, EditInvariant, PTL DEF Spec, WritesAreAtomic
=============================================================================
