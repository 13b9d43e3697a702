----------------------------- MODULE LocalProofs -----------------------------
(***************************************************************************)
(* What is proved of the parts that share nothing with the others, for any *)
(* number of launches, commits, launchers, threads, installers, versions,  *)
(* wheels, servers and commands: the launch of a command on Windows        *)
(* (JobLaunch), the gate of stable releases (ReleaseGate), the user        *)
(* installer (UserInstaller), the limit on a server's actions (Limiter),   *)
(* the release bootstrap (Bootstrap), and the trust, the policies, leases  *)
(* and the key a server starts with (Authority, whose parts do not touch   *)
(* each other). Each has an inductive invariant of its own.                *)
(*                                                                         *)
(* At the end, what is proved of each holds of them side by side: MC_Local *)
(* moves one of them and lets the others rest.                             *)
(***************************************************************************)
EXTENDS MC_Local, FiniteSetTheorems, SequenceTheorems, TLAPS

\* A set of natural numbers has a least one.
LEMMA LeastNat ==
  ASSUME NEW T \in SUBSET Nat, T # {}
  PROVE  \E m \in T : \A k \in T : m <= k
<1> DEFINE R == {ss \in Nat \X Nat : ss[1] < ss[2]}
<1>1. IsWellFoundedOn(R, Nat) /\ T \subseteq Nat
  BY NatLessThanWellFounded DEF OpToRel
<1> HIDE DEF R
<1>2. \E x \in T : \A y \in T : ~ (<<y, x>> \in R)
  BY <1>1, WFMin
<1>3. \A x, y \in Nat : y < x => <<y, x>> \in R
  BY DEF R
<1>4. PICK x \in T : \A y \in T : ~ (<<y, x>> \in R)
  BY <1>2
<1>5. \A y \in T : ~ (y < x)
  BY <1>1, <1>3, <1>4
<1>6. \A y \in T : x <= y
  BY <1>1, <1>5
<1> QED BY <1>6


-----------------------------------------------------------------------------
\* JobLaunch.

\* What there may be at each step, before the job ...
NothingRuns ==
    /\ step \in {"idle"} \cup Making => child = "none" /\ ~ inJob
    /\ step = "job" => child = "suspended"
    /\ step \in {"assign", "resume"} => child = "suspended" /\ "job" \in owned
    /\ step \in {"resume", "wait"} => inJob
    /\ step = "wait" => "job" \in owned

\* ... and on the ways out, when there may be things that are still to be freed.
StillToFree ==
    /\ step = "idle" => owned = {}
    /\ step \in Making => owned \subseteq Things \ {"handles", "job"}
    /\ step = "job" => owned \subseteq Things \ {"job"}
    /\ step \in {"close handles", "free"} => child \in {"none", "gone"}
    /\ step = "close handles" => "job" \notin owned
    /\ step = "free" => owned \cap {"handles", "job"} = {}
    /\ step = "close job" => inJob \/ child = "gone"
    /\ inJob /\ child # "gone" => "job" \in owned
    /\ step = "dead" => child \in {"none", "suspended", "gone"}

LaunchInv == LaunchTypeOK /\ NothingRuns /\ StillToFree /\ LaunchIsUndone

-----------------------------------------------------------------------------
\* LaunchInv is inductive: every step, also one that fails and the death of the
\* server, keeps each of its parts.
LEMMA LaunchInvStep == LaunchInv /\ [LaunchNext]_launchVars => LaunchInv'
<1> SUFFICES ASSUME LaunchInv, [LaunchNext]_launchVars
             PROVE  LaunchInv'
    OBVIOUS
<1> USE DEF LaunchInv, LaunchTypeOK, NothingRuns, StillToFree, LaunchIsUndone,
            Making, Running, Undoing, Things
<1>1. CASE BeginLaunch
    BY <1>1 DEF BeginLaunch
<1>2. CASE CreateProfile
    BY <1>2 DEF CreateProfile, Moves
<1>3. CASE Grant
    BY <1>3 DEF Grant, Moves
<1>4. CASE Capabilities
    BY <1>4 DEF Capabilities, Moves
<1>5. CASE Attributes
    BY <1>5 DEF Attributes, Moves
<1>6. CASE CreateProcess
    BY <1>6 DEF CreateProcess, Moves
<1>7. CASE CreateJob
    BY <1>7 DEF CreateJob, Moves
<1>8. CASE Assign
    BY <1>8 DEF Assign, Moves
<1>9. CASE Resume
    BY <1>9 DEF Resume, Moves
<1>10. CASE Exit
    BY <1>10 DEF Exit
<1>11. CASE EndWait
    BY <1>11 DEF EndWait, Moves
<1>12. CASE MakingFails
    BY <1>12 DEF MakingFails
<1>13. CASE JobFails
    BY <1>13 DEF JobFails
<1>14. CASE RunFails
    BY <1>14 DEF RunFails
<1>15. CASE CloseJob
    BY <1>15 DEF CloseJob, Moves
<1>16. CASE CloseHandles
    BY <1>16 DEF CloseHandles, Moves
<1>17. CASE Free
    BY <1>17 DEF Free, Moves
<1>18. CASE Die
    BY <1>18 DEF Die
<1>19. CASE UNCHANGED launchVars
    BY <1>19 DEF launchVars
<1> QED
    BY <1>1, <1>2, <1>3, <1>4, <1>5, <1>6, <1>7, <1>8, <1>9, <1>10, <1>11, <1>12, <1>13, <1>14, <1>15, <1>16, <1>17, <1>18, <1>19 DEF LaunchNext

\* The type invariant of JobLaunch, and that a launch is undone on every way out:
\* a command that runs is in a job the server holds, and nothing is left of a call
\* that is over.
THEOREM LaunchCorrect == LaunchSpec => [](LaunchTypeOK /\ LaunchIsUndone)
<1>1. LaunchInit => LaunchInv
    BY DEF LaunchInit, LaunchInv, LaunchTypeOK, NothingRuns, StillToFree, LaunchIsUndone,
           Making, Running, Undoing, Things
<1>2. LaunchInv => LaunchTypeOK /\ LaunchIsUndone
    BY DEF LaunchInv
<1> QED
    BY <1>1, <1>2, LaunchInvStep, PTL DEF LaunchSpec

-----------------------------------------------------------------------------
\* ReleaseGate.

\* The commits are a history: each with a tree, and with ancestors and a record
\* that are not younger; no tree holds a record of its own commit.
GateTyped ==
    /\ commits \in Seq([tree : Trees, anc : SUBSET Nat])
    /\ \A i \in DOMAIN commits :
          /\ commits[i].anc \subseteq 1 .. i
          /\ Tree(i).review.commit < i
    /\ released \subseteq DOMAIN commits

\* What ReleaseWasReviewed says of one commit of a history.
Reviewed(c, i) ==
    c[i].tree.version[Pyproject] = Stable =>
        \E j \in c[i].anc \ {i} :
            /\ c[i].tree.review = [commit |-> j, approved |-> TRUE]
            /\ c[i].tree.code \in {c[j].tree.code, Missing}
            /\ \A f \in VersionFiles :
                  c[i].tree.version[f] = Stable /\ c[i].tree.rest[f] = c[j].tree.rest[f]

GateInv == GateTyped /\ \A i \in released : Reviewed(commits, i)

\* The gate lets no commit through that promotes anything but a reviewed one.
LEMMA PassedWasReviewed ==
  ASSUME GateTyped, NEW i \in DOMAIN commits, Passes(i)
  PROVE  Reviewed(commits, i)
<1> SUFFICES ASSUME Tree(i).version[Pyproject] = Stable PROVE Reviewed(commits, i)
  BY DEF Reviewed, Tree
<1> DEFINE j == Tree(i).review.commit
<1>1. Promotes(i) /\ Approves(i)
  BY DEF Passes
<1>2. Tree(i).review \in Records /\ j < i /\ i \in Nat /\ j \in Nat
  <2>0. commits[i] \in [tree : Trees, anc : SUBSET Nat] /\ i \in Nat
    <3> DEFINE S == [tree : Trees, anc : SUBSET Nat]
    <3>1. commits \in Seq(S)
      BY DEF GateTyped
    <3> HIDE DEF S
    <3>2. commits[i] \in S /\ i \in Nat
      BY <3>1
    <3> QED BY <3>2 DEF S
  <2>1. j < i
    BY DEF GateTyped
  <2>2. Tree(i) \in Trees
    BY <2>0 DEF Tree
  <2> QED BY <2>0, <2>1, <2>2 DEF Trees, Records
<1>3. j \in commits[i].anc \ {i}
  BY <1>1, <1>2 DEF Promotes
<1>4. Tree(i).review = [commit |-> j, approved |-> TRUE]
  <2> DEFINE r == Tree(i).review
  <2>1. r \in Records /\ r.approved /\ r.commit = j
    BY <1>1, <1>2 DEF Approves
  <2> HIDE DEF r
  <2>2. r = [commit |-> r.commit, approved |-> r.approved] /\ r.approved = TRUE
    BY <2>1 DEF Records
  <2> QED BY <2>1, <2>2 DEF r
<1>5. \A f \in VersionFiles : Tree(i).version[f] = Stable /\ Tree(i).rest[f] = Tree(j).rest[f]
  BY <1>1 DEF Promotes, VersionOnly
<1>6. Tree(i).code \in {Tree(j).code, Missing}
  <2>1. "code" \notin Changed(Tree(j), Tree(i))
    BY <1>1, GateAssumption DEF Approves, Permitted
  <2>2. Tree(j).code = Tree(i).code \/ Moved(Tree(j), Tree(i))
    BY <2>1 DEF Changed
  <2> QED BY <2>2 DEF Moved
<1> QED BY <1>3, <1>4, <1>5, <1>6 DEF Reviewed, Tree

\* A history with no release in it.
LEMMA GateInvInit == GateInit => GateInv
<1> SUFFICES ASSUME GateInit PROVE GateInv
  OBVIOUS
<1>1. PICK x \in Texts, d \in Texts \cup {Missing} :
          commits = <<[tree |-> [version |-> [f \in VersionFiles |-> Prerelease],
                                 rest |-> [f \in VersionFiles |-> x], code |-> x,
                                 docs |-> d, review |-> NoRecord],
                       anc |-> {1}]>>
  BY DEF GateInit
<1> DEFINE t == [version |-> [f \in VersionFiles |-> Prerelease],
                 rest |-> [f \in VersionFiles |-> x], code |-> x,
                 docs |-> d, review |-> NoRecord]
<1>2. NoRecord \in Records
  BY GateAssumption DEF NoRecord, Records
<1>3. t \in Trees
  BY <1>2 DEF Trees
<1>4. commits = <<[tree |-> t, anc |-> {1}]>> /\ DOMAIN commits = {1} /\ released = {}
  BY <1>1 DEF GateInit
<1>5. t.review.commit = 0
  BY DEF NoRecord
<1> HIDE DEF t
<1>6. [tree |-> t, anc |-> {1}] \in [tree : Trees, anc : SUBSET Nat]
  BY <1>3
<1>7. commits[1].tree = t /\ commits[1].anc = {1}
  BY <1>4
<1> QED BY <1>4, <1>5, <1>6, <1>7 DEF GateInv, GateTyped, Tree

\* A commit leaves what is said of the released ones as it was, and a release is
\* of a commit that passed.
LEMMA GateInvNext == GateInv /\ [GateNext]_gateVars => GateInv'
<1> SUFFICES ASSUME GateInv, [GateNext]_gateVars PROVE GateInv'
  OBVIOUS
<1> USE DEF GateInv
<1>1. ASSUME NEW p \in SUBSET DOMAIN commits, NEW t \in Trees, Commit(p, t) PROVE GateInv'
  <2> DEFINE n == Len(commits) + 1
             anc == {n} \cup UNION {commits[q].anc : q \in p}
  <2>1. commits \in Seq([tree : Trees, anc : SUBSET Nat]) /\ n \in Nat /\ n > 0
        /\ DOMAIN commits = 1 .. n - 1
    BY DEF GateTyped
  <2>2. commits' = Append(commits, [tree |-> t, anc |-> anc]) /\ released' = released
    BY <1>1 DEF Commit
  <2>3. anc \subseteq 1 .. n
    BY <2>1 DEF GateTyped
  <2>4. t.review.commit < n
    <3>1. CASE t.review = NoRecord
      BY <2>1, <3>1 DEF NoRecord
    <3>2. CASE t.review.commit \in DOMAIN commits
      BY <2>1, <3>2
    <3> QED BY <1>1, <3>1, <3>2 DEF Commit
  <2> HIDE DEF anc, n
  <2>5. [tree |-> t, anc |-> anc] \in [tree : Trees, anc : SUBSET Nat]
    BY <2>1, <2>3
  <2>6. /\ commits' \in Seq([tree : Trees, anc : SUBSET Nat]) /\ DOMAIN commits' = 1 .. n
        /\ \A i \in DOMAIN commits : commits'[i] = commits[i]
        /\ commits'[n] = [tree |-> t, anc |-> anc]
    BY <2>1, <2>2, <2>5 DEF n
  <2>7. GateTyped'
    <3>1. ASSUME NEW i \in DOMAIN commits'
          PROVE  commits'[i].anc \subseteq 1 .. i /\ commits'[i].tree.review.commit < i
      <4>1. CASE i \in DOMAIN commits
        BY <2>6, <4>1 DEF GateTyped, Tree
      <4>2. CASE i = n
        BY <2>3, <2>4, <2>6, <4>2
      <4> QED BY <2>1, <2>6, <4>1, <4>2
    <3> QED BY <2>1, <2>2, <2>6, <3>1 DEF GateTyped, Tree
  <2>8. ASSUME NEW i \in released PROVE Reviewed(commits, i)'
    <3>1. i \in DOMAIN commits /\ commits[i].anc \subseteq DOMAIN commits
      BY <2>1 DEF GateTyped
    <3>2. \A j \in DOMAIN commits : Tree(j)' = Tree(j)
      BY <2>6 DEF Tree
    <3>3. Tree(i)' = Tree(i) /\ commits'[i].anc = commits[i].anc
          /\ \A j \in commits[i].anc : Tree(j)' = Tree(j)
      BY <2>6, <3>1, <3>2
    <3>4. Reviewed(commits, i)
      BY <2>8
    <3> QED BY <3>3, <3>4 DEF Reviewed, Tree
  <2> QED BY <2>2, <2>7, <2>8
<1>2. ASSUME NEW i \in DOMAIN commits, Release(i) PROVE GateInv'
  <2>1. GateTyped'
    BY <1>2 DEF Release, GateTyped, Tree
  <2>2. commits' = commits /\ released' = released \cup {i} /\ Passes(i)
    BY <1>2 DEF Release
  <2>3. Reviewed(commits, i)
    BY <2>2, PassedWasReviewed
  <2>4. \A k \in released' : Reviewed(commits, k)
    BY <2>2, <2>3
  <2>5. \A k \in released' : Reviewed(commits, k)'
    BY <2>2, <2>4
  <2> QED BY <2>1, <2>5
<1>3. CASE UNCHANGED gateVars
  BY <1>3 DEF gateVars, GateTyped, Tree
<1> QED BY <1>1, <1>2, <1>3 DEF GateNext

\* Whatever is committed, merged, pushed and reviewed: a commit that is released as
\* the stable version has an ancestor that was reviewed and approved, and differs
\* from it in nothing but the version, the record and the documents.
THEOREM StableWasReviewed == GateSpec => [](GateTypeOK /\ ReleaseWasReviewed)
<1>1. GateInv => GateTypeOK /\ ReleaseWasReviewed
  <2>1. GateInv => ReleaseWasReviewed
    BY DEF GateInv, Reviewed, ReleaseWasReviewed, Tree
  <2>2. GateInv => GateTypeOK
    <3> SUFFICES ASSUME GateTyped PROVE GateTypeOK
      BY DEF GateInv
    <3>1. commits \in Seq([tree : Trees, anc : SUBSET Nat])
      BY DEF GateTyped
    <3>2. \A i \in DOMAIN commits : commits[i].tree \in Trees
      <4> DEFINE T == Trees
                 R == [tree : T, anc : SUBSET Nat]
      <4> HIDE DEF T
      <4>1. \A c \in R : c.tree \in T
        OBVIOUS
      <4>2. \A i \in DOMAIN commits : commits[i] \in R
        <5> HIDE DEF R
        <5>1. commits \in Seq(R)
          BY <3>1 DEF R, T
        <5> QED BY <5>1
      <4> HIDE DEF R
      <4>3. \A i \in DOMAIN commits : commits[i].tree \in T
        BY <4>1, <4>2
      <4> QED BY <4>3 DEF T
    <3> QED BY <3>2 DEF GateTyped, GateTypeOK, Tree
  <2> QED BY <2>1, <2>2
<1> QED BY <1>1, GateInvInit, GateInvNext, PTL DEF GateSpec

-----------------------------------------------------------------------------
\* UserInstaller.

\* A command works on its launchers one at a time, and no backup has the name 0.
CommandTyped ==
    /\ doing \in [op : {"none", "install", "uninstall"}, left : SUBSET Kinds,
                  half : SUBSET Kinds, recs : [Kinds -> Seconds] \cup {NoRecords}]
    /\ doing.half \subseteq doing.left
    /\ \A k, m \in doing.half : k = m
    /\ doing.op = "none" <=> doing = Resting
    /\ doing.op # "none" => doing.recs \in [Kinds -> Seconds]
    /\ doing.op = "uninstall" => doing.recs = records
    /\ second # 0
    /\ \A k \in Kinds : backups[k][0] = Nothing

\* A launcher that is about to be replaced is saved. Unless an uninstall was stopped,
\* with a manifest every launcher is a wrapper.
OriginalPart ==
    /\ doing.op = "install" =>
          /\ \A k \in doing.half : /\ launchers[k] # Nothing
                                   /\ backups[k][second] = launchers[k]
                                   /\ doing.recs[k] = second
          /\ \A k \in Kinds \ doing.left : launchers[k] = Wrapper
    /\ "uninstall" \notin halted =>
          /\ records # NoRecords /\ doing.op # "uninstall" =>
                \A k \in Kinds : launchers[k] = Wrapper
          /\ doing.op = "uninstall" =>
                \A k \in doing.left : launchers[k] = IF k \in doing.half THEN Nothing ELSE Wrapper

\* Unless a command was stopped: the backups a manifest names, also one that is not
\* yet written, are what the last installation has found.
UndoPart ==
    halted = {} =>
        /\ doing.op = "none" /\ records = NoRecords => launchers = had.last
        /\ doing.op = "none" /\ records # NoRecords =>
              \A k \in Kinds : backups[k][records[k]] = had.last[k]
        /\ doing.op = "uninstall" =>
              /\ \A k \in doing.left : backups[k][doing.recs[k]] = had.last[k]
              /\ \A k \in Kinds \ doing.left : launchers[k] = had.last[k]
        /\ doing.op = "install" =>
              \A k \in Kinds :
                  /\ k \in doing.left => launchers[k] = had.last[k]
                  /\ k \in doing.left \ doing.half => doing.recs[k] = 0
                  /\ k \notin doing.left => backups[k][doing.recs[k]] = had.last[k]

InstallerInv == InstallerTypeOK /\ CommandTyped /\ OriginalPart /\ OriginalSurvives /\ UndoPart

\* The user's own launchers, and no manifest.
LEMMA InstallerInvInit == InstallerInit => InstallerInv
<1> SUFFICES ASSUME InstallerInit PROVE InstallerInv
  OBVIOUS
<1> USE InstallerAssumption
    DEF InstallerInit, Seconds, Contents, Resting, NoRecords
<1>1. InstallerTypeOK
  BY DEF InstallerTypeOK
<1>2. CommandTyped
  BY DEF CommandTyped
<1>3. OriginalPart /\ UndoPart /\ OriginalSurvives
  BY DEF OriginalPart, UndoPart, OriginalSurvives
<1> QED BY <1>1, <1>2, <1>3 DEF InstallerInv

\* What the steps of a command rely on.
LEMMA InstallerFacts ==
  ASSUME InstallerInv
  PROVE  /\ launchers \in [Kinds -> Contents]
         /\ backups \in [Kinds -> [Seconds -> Contents]]
         /\ second \in Seconds /\ second # 0 /\ 0 \in Seconds
         /\ had.first \in [Kinds -> {Nothing, Own}] /\ had.last \in [Kinds -> Contents]
  BY InstallerAssumption DEF InstallerInv, InstallerTypeOK, CommandTyped, Seconds

\* Each step of an install or an uninstall, a failure in the middle and a launcher
\* that the user puts there keep every part.
LEMMA InstallerInvNext == InstallerInv /\ [InstallerNext]_installerVars => InstallerInv'
<1> SUFFICES ASSUME InstallerInv, [InstallerNext]_installerVars
             PROVE  InstallerInv'
  OBVIOUS
<1> USE DEF InstallerInv
<1>0. /\ launchers \in [Kinds -> Contents]
      /\ backups \in [Kinds -> [Seconds -> Contents]]
      /\ second \in Seconds /\ second # 0 /\ 0 \in Seconds
      /\ had.first \in [Kinds -> {Nothing, Own}] /\ had.last \in [Kinds -> Contents]
  BY InstallerFacts
<1>1. CASE BeginInstall
  <2>1. /\ doing.op = "none" /\ doing'.op = "install" /\ doing' # Resting
        /\ doing'.left = Kinds /\ doing'.half = {} /\ doing'.recs = [k \in Kinds |-> 0]
        /\ doing' = [op |-> "install", left |-> Kinds, half |-> {}, recs |-> [k \in Kinds |-> 0]]
        /\ had'.first = had.first /\ had'.last = launchers
        /\ had' \in [first : [Kinds -> {Nothing, Own}], last : [Kinds -> Contents]]
        /\ UNCHANGED <<launchers, backups, records, second, halted>>
    BY <1>0, <1>1, InstallerAssumption DEF BeginInstall, BeginOp, Resting, InstallerTypeOK
  <2>2. InstallerTypeOK'
    BY <1>0, <2>1 DEF InstallerTypeOK, Contents
  <2>3. CommandTyped'
    BY <1>0, <2>1 DEF CommandTyped
  <2>4. OriginalPart'
    BY <1>0, <2>1 DEF OriginalPart, CommandTyped
  <2>5. OriginalSurvives'
    BY <1>0, <2>1 DEF OriginalSurvives, OriginalPart, CommandTyped
  <2>6. UndoPart'
    BY <1>0, <2>1 DEF UndoPart, OriginalPart, CommandTyped
  <2> QED BY <2>2, <2>3, <2>4, <2>5, <2>6
<1>2. ASSUME NEW k \in Kinds, BackUp(k) PROVE InstallerInv'
  <2>1. /\ doing.op = "install" /\ doing'.op = "install" /\ k \in doing.left /\ doing.half = {}
        /\ doing'.left = doing.left /\ doing'.half = {k} /\ doing' # Resting
        /\ doing'.recs = [doing.recs EXCEPT ![k] = second] /\ doing.recs \in [Kinds -> Seconds]
        /\ doing' = [op |-> "install", left |-> doing.left, half |-> {k}, recs |-> [doing.recs EXCEPT ![k] = second]]
        /\ launchers[k] # Nothing /\ backups[k][second] = Nothing
        /\ backups' = [backups EXCEPT ![k][second] = launchers[k]]
        /\ UNCHANGED <<launchers, records, second, had, halted>>
    BY <1>0, <1>2, InstallerAssumption DEF BackUp, Resting, CommandTyped
  <2>2. InstallerTypeOK'
    BY <1>0, <2>1 DEF InstallerTypeOK, Contents
  <2>3. CommandTyped'
    BY <1>0, <2>1 DEF CommandTyped
  <2>4. OriginalPart'
    BY <1>0, <2>1 DEF OriginalPart, CommandTyped
  <2>5. OriginalSurvives'
    BY <1>0, <2>1 DEF OriginalSurvives, OriginalPart, CommandTyped
  <2>6. UndoPart'
    BY <1>0, <2>1 DEF UndoPart, OriginalPart, CommandTyped
  <2> QED BY <2>2, <2>3, <2>4, <2>5, <2>6
<1>3. ASSUME NEW k \in Kinds, Place(k) PROVE InstallerInv'
  <2>1. /\ doing.op = "install" /\ doing'.op = "install" /\ k \in doing.left
        /\ doing'.left = doing.left \ {k} /\ doing'.half = {} /\ doing' # Resting /\ doing'.recs = doing.recs
        /\ doing' = [op |-> "install", left |-> doing.left \ {k}, half |-> {}, recs |-> doing.recs]
        /\ IF launchers[k] = Nothing THEN doing.half = {} ELSE doing.half = {k}
        /\ launchers' = [launchers EXCEPT ![k] = Wrapper]
        /\ UNCHANGED <<backups, records, second, had, halted>>
    BY <1>0, <1>3, InstallerAssumption DEF Place, DoneWith, Resting, CommandTyped
  <2>2. InstallerTypeOK'
    BY <1>0, <2>1 DEF InstallerTypeOK, Contents
  <2>3. CommandTyped'
    BY <1>0, <2>1 DEF CommandTyped
  <2>4. OriginalPart'
    BY <1>0, <2>1 DEF OriginalPart, CommandTyped
  <2>5. OriginalSurvives'
    BY <1>0, <2>1 DEF OriginalSurvives, OriginalPart, CommandTyped
  <2>6. UndoPart'
    BY <1>0, <2>1 DEF UndoPart, OriginalPart, CommandTyped
  <2> QED BY <2>2, <2>3, <2>4, <2>5, <2>6
<1>4. CASE EndInstall
  <2>1. /\ doing.op = "install" /\ doing.left = {} /\ doing.half = {}
        /\ doing' = Resting /\ doing'.op = "none" /\ doing'.left = {} /\ doing'.half = {}
        /\ records' = doing.recs /\ doing.recs \in [Kinds -> Seconds]
        /\ UNCHANGED <<launchers, backups, second, had, halted>>
    BY <1>0, <1>4, InstallerAssumption DEF EndInstall, Resting, CommandTyped
  <2>0. doing.recs = NoRecords => launchers = had.last
    <3>1. doing.recs = NoRecords => Kinds = {}
      BY <2>1 DEF NoRecords
    <3> QED BY <1>0, <3>1
  <2>2. InstallerTypeOK'
    BY <1>0, <2>1 DEF InstallerTypeOK, Contents
  <2>3. CommandTyped'
    BY <1>0, <2>1 DEF CommandTyped, Resting
  <2>4. OriginalPart'
    BY <1>0, <2>1 DEF OriginalPart, CommandTyped
  <2>5. OriginalSurvives'
    BY <1>0, <2>1 DEF OriginalSurvives, OriginalPart, CommandTyped
  <2>6. UndoPart'
    BY <1>0, <2>1, <2>0 DEF UndoPart, OriginalPart, CommandTyped
  <2> QED BY <2>2, <2>3, <2>4, <2>5, <2>6
<1>5. CASE BeginUninstall
  <2>1. /\ doing.op = "none" /\ records # NoRecords /\ records \in [Kinds -> Seconds]
        /\ doing' = [op |-> "uninstall", left |-> Kinds, half |-> {}, recs |-> records] /\ doing' # Resting
        /\ doing'.op = "uninstall" /\ doing'.left = Kinds /\ doing'.half = {} /\ doing'.recs = records
        /\ UNCHANGED <<launchers, backups, records, second, had, halted>>
    BY <1>0, <1>5, InstallerAssumption DEF BeginUninstall, BeginOp, Resting, InstallerTypeOK
  <2>2. InstallerTypeOK'
    BY <1>0, <2>1 DEF InstallerTypeOK, Contents
  <2>3. CommandTyped'
    BY <1>0, <2>1 DEF CommandTyped
  <2>4. OriginalPart'
    BY <1>0, <2>1 DEF OriginalPart, CommandTyped
  <2>5. OriginalSurvives'
    BY <1>0, <2>1 DEF OriginalSurvives, OriginalPart, CommandTyped
  <2>6. UndoPart'
    BY <1>0, <2>1 DEF UndoPart, OriginalPart, CommandTyped
  <2> QED BY <2>2, <2>3, <2>4, <2>5, <2>6
<1>6. ASSUME NEW k \in Kinds, Unlink(k) PROVE InstallerInv'
  <2>1. /\ doing.op = "uninstall" /\ k \in doing.left /\ doing.half = {} /\ doing.recs = records
        /\ doing' = [op |-> "uninstall", left |-> doing.left, half |-> {k}, recs |-> doing.recs] /\ doing' # Resting
        /\ doing'.op = "uninstall" /\ doing'.left = doing.left /\ doing'.half = {k} /\ doing'.recs = doing.recs
        /\ launchers' = [launchers EXCEPT ![k] = Nothing]
        /\ UNCHANGED <<backups, records, second, had, halted>>
    BY <1>0, <1>6, InstallerAssumption DEF Unlink, Resting, CommandTyped
  <2>2. InstallerTypeOK'
    BY <1>0, <2>1 DEF InstallerTypeOK, Contents
  <2>3. CommandTyped'
    BY <1>0, <2>1 DEF CommandTyped
  <2>4. OriginalPart'
    BY <1>0, <2>1 DEF OriginalPart, CommandTyped
  <2>5. OriginalSurvives'
    BY <1>0, <2>1 DEF OriginalSurvives, OriginalPart, CommandTyped, Own, Wrapper
  <2>6. UndoPart'
    BY <1>0, <2>1 DEF UndoPart, OriginalPart, CommandTyped
  <2> QED BY <2>2, <2>3, <2>4, <2>5, <2>6
<1>7. ASSUME NEW k \in Kinds, Restore(k) PROVE InstallerInv'
  <2>1. /\ doing.op = "uninstall" /\ k \in doing.half /\ k \in doing.left /\ doing.recs = records
        /\ doing.recs \in [Kinds -> Seconds] /\ \A m \in doing.half : m = k
        /\ doing' = [op |-> "uninstall", left |-> doing.left \ {k}, half |-> {}, recs |-> doing.recs] /\ doing' # Resting
        /\ doing'.op = "uninstall" /\ doing'.left = doing.left \ {k} /\ doing'.half = {} /\ doing'.recs = doing.recs
        /\ backups[k][doing.recs[k]] = Nothing => UNCHANGED <<launchers, backups>>
        /\ backups[k][doing.recs[k]] # Nothing => /\ launchers' = [launchers EXCEPT ![k] = backups[k][doing.recs[k]]]
                                                  /\ backups' = [backups EXCEPT ![k][doing.recs[k]] = Nothing]
        /\ UNCHANGED <<records, second, had, halted>>
    BY <1>0, <1>7, InstallerAssumption DEF Restore, DoneWith, Resting, CommandTyped
  <2>0. /\ backups[k][doing.recs[k]] \in Contents
        /\ launchers' \in [Kinds -> Contents] /\ backups' \in [Kinds -> [Seconds -> Contents]]
    <3>1. /\ backups[k][doing.recs[k]] \in Contents /\ doing.recs[k] \in Seconds
          /\ Nothing \in Contents
      BY <1>0, <2>1 DEF Contents
    <3>2. CASE backups[k][doing.recs[k]] = Nothing
      BY <1>0, <2>1, <3>1, <3>2
    <3>3. CASE backups[k][doing.recs[k]] # Nothing
      <4>1. launchers' \in [Kinds -> Contents]
        BY <1>0, <2>1, <3>1, <3>3
      <4>2. [backups[k] EXCEPT ![doing.recs[k]] = Nothing] \in [Seconds -> Contents]
        BY <1>0, <3>1
      <4>3. backups' = [backups EXCEPT ![k] = [backups[k] EXCEPT ![doing.recs[k]] = Nothing]]
        BY <1>0, <2>1, <3>3
      <4> QED BY <1>0, <3>1, <4>1, <4>2, <4>3
    <3> QED BY <3>2, <3>3
  <2>2. InstallerTypeOK'
    BY <1>0, <2>1, <2>0 DEF InstallerTypeOK, Contents
  <2>3. CommandTyped'
    BY <1>0, <2>1, SMTT(30) DEF CommandTyped
  <2>4. OriginalPart'
    BY <1>0, <2>1 DEF OriginalPart, CommandTyped
  <2>5. OriginalSurvives'
    BY <1>0, <2>1 DEF OriginalSurvives, OriginalPart, CommandTyped
  <2>6. UndoPart'
    BY <1>0, <2>1 DEF UndoPart, OriginalPart, CommandTyped
  <2> QED BY <2>2, <2>3, <2>4, <2>5, <2>6
<1>8. CASE EndUninstall
  <2>1. /\ doing.op = "uninstall" /\ doing.left = {} /\ doing.half = {}
        /\ doing' = Resting /\ doing'.op = "none" /\ doing'.left = {} /\ doing'.half = {}
        /\ records' = NoRecords
        /\ UNCHANGED <<launchers, backups, second, had, halted>>
    BY <1>0, <1>8, InstallerAssumption DEF EndUninstall, Resting, CommandTyped
  <2>2. InstallerTypeOK'
    BY <1>0, <2>1 DEF InstallerTypeOK, Contents
  <2>3. CommandTyped'
    BY <1>0, <2>1 DEF CommandTyped, Resting
  <2>4. OriginalPart'
    BY <1>0, <2>1 DEF OriginalPart, CommandTyped
  <2>5. OriginalSurvives'
    BY <1>0, <2>1 DEF OriginalSurvives, OriginalPart, CommandTyped
  <2>6. UndoPart'
    BY <1>0, <2>1 DEF UndoPart, OriginalPart, CommandTyped
  <2> QED BY <2>2, <2>3, <2>4, <2>5, <2>6
<1>9. CASE Halt
  <2>0. /\ doing # Resting /\ halted' = halted \cup {doing.op} /\ doing' = Resting
        /\ \/ UNCHANGED backups
           \/ \E k \in doing.half : doing.op = "install"
                                    /\ backups' = [backups EXCEPT ![k][second] = CutCopy]
        /\ UNCHANGED <<launchers, records, second, had>>
    BY <1>9 DEF Halt
  <2>1. /\ doing.op \in {"install", "uninstall"}
        /\ doing'.op = "none" /\ doing'.left = {} /\ doing'.half = {}
    <3>1. doing.op \in {"none", "install", "uninstall"} /\ (doing.op = "none" <=> doing = Resting)
      BY <1>0 DEF CommandTyped
    <3>2. Resting.op = "none" /\ Resting.left = {} /\ Resting.half = {}
      BY DEF Resting
    <3> QED BY <2>0, <3>1, <3>2
  <2>2. InstallerTypeOK'
    <3>1. CutCopy \in Contents
      BY DEF Contents
    <3>2. backups' \in [Kinds -> [Seconds -> Contents]]
      <4>1. ASSUME NEW k \in Kinds, backups' = [backups EXCEPT ![k][second] = CutCopy]
            PROVE  backups' \in [Kinds -> [Seconds -> Contents]]
        <5>1. [backups[k] EXCEPT ![second] = CutCopy] \in [Seconds -> Contents]
          BY <1>0, <3>1
        <5>2. backups' = [backups EXCEPT ![k] = [backups[k] EXCEPT ![second] = CutCopy]]
          BY <1>0, <4>1
        <5> QED BY <1>0, <5>1, <5>2
      <4>2. doing.half \subseteq Kinds
        BY <1>0 DEF CommandTyped
      <4> QED BY <1>0, <2>0, <4>1, <4>2
    <3>3. doing'.half \subseteq doing'.left /\ halted' \subseteq {"install", "uninstall"}
      BY <1>0, <2>0, <2>1 DEF InstallerTypeOK
    <3> QED BY <1>0, <2>0, <2>1, <3>2, <3>3 DEF InstallerTypeOK
  <2>3. CommandTyped'
    BY <1>0, <2>0, <2>1 DEF CommandTyped, Resting
  <2>4. OriginalPart'
    BY <1>0, <2>0, <2>1 DEF OriginalPart, CommandTyped
  <2>5. OriginalSurvives'
    BY <1>0, <2>0, <2>1 DEF OriginalSurvives, OriginalPart, CommandTyped
  <2>6. UndoPart'
    BY <1>0, <2>0, <2>1 DEF UndoPart, OriginalPart, CommandTyped
  <2> QED BY <2>2, <2>3, <2>4, <2>5, <2>6
<1>10. CASE NextSecond
  <2>1. /\ doing.op = "none" /\ second' \in Seconds /\ second' # 0
        /\ UNCHANGED <<launchers, backups, records, doing, had, halted>>
    BY <1>0, <1>10, InstallerAssumption DEF NextSecond, Resting, CommandTyped, Seconds
  <2>2. InstallerTypeOK'
    BY <1>0, <2>1 DEF InstallerTypeOK, Contents
  <2>3. CommandTyped'
    BY <1>0, <2>1 DEF CommandTyped
  <2>4. OriginalPart'
    BY <1>0, <2>1 DEF OriginalPart, CommandTyped
  <2>5. OriginalSurvives'
    BY <1>0, <2>1 DEF OriginalSurvives, OriginalPart, CommandTyped
  <2>6. UndoPart'
    BY <1>0, <2>1 DEF UndoPart, OriginalPart, CommandTyped
  <2> QED BY <2>2, <2>3, <2>4, <2>5, <2>6
<1>11. CASE UNCHANGED installerVars
  BY <1>11 DEF installerVars, InstallerTypeOK, CommandTyped, OriginalPart, OriginalSurvives, UndoPart
<1> QED
  BY <1>1, <1>2, <1>3, <1>4, <1>5, <1>6, <1>7, <1>8, <1>9, <1>10, <1>11 DEF InstallerNext

\* What the user had is never lost, and an uninstall undoes the installation:
\* however many launchers, seconds and commands.
THEOREM InstallStaysUndone == InstallerSpec => [](InstallerTypeOK /\ InstallIsUndone)
<1>1. InstallerInv => InstallerTypeOK /\ InstallIsUndone
  BY DEF InstallerInv, InstallIsUndone, UninstallUndoes, UndoPart, CommandTyped
<1> QED BY <1>1, InstallerInvInit, InstallerInvNext, PTL DEF InstallerSpec

-----------------------------------------------------------------------------
\* Limiter.

\* A sequence of some natural numbers is one of natural numbers.
LEMMA SeqOfNat ==
  ASSUME NEW S \in SUBSET Nat, NEW s \in Seq(S)
  PROVE  s \in Seq(Nat)
<1>1. Len(s) \in Nat /\ s \in [1 .. Len(s) -> S]
  OBVIOUS
<1>2. s \in [1 .. Len(s) -> Nat]
  BY <1>1
<1> QED BY <1>1, <1>2

\* The places of a sequence with an element of S, and the entries with a stamp in S.
Counted(s, S) == {i \in DOMAIN s : s[i] \in S}
Selected(E, S) == {e \in E : e[1] \in S}

\* k is what is left of s when the first d elements are gone.
DropFirst(s, k, d) ==
    /\ d \in 0 .. Len(s) /\ Len(k) = Len(s) - d
    /\ \A i \in 1 .. Len(k) : k[i] = s[i + d]

\* What is pruned is the front of a window: old stamps only, up to the first young one.
LEMMA PrunedIs ==
  ASSUME NEW S \in SUBSET Nat, NEW s \in Seq(S), NEW n \in Nat
  PROVE  /\ Pruned(s, n) \in Seq(S)
         /\ \E d \in 0 .. Len(s) :
               /\ DropFirst(s, Pruned(s, n), d)
               /\ \A i \in 1 .. d : s[i] + Window <= n
               /\ d < Len(s) => s[d + 1] + Window > n
<1> DEFINE young == {i \in DOMAIN s : s[i] + Window > n}
           least == CHOOSE i \in young : \A j \in young : i <= j
<1>0. Window \in Nat /\ Len(s) \in Nat /\ DOMAIN s = 1 .. Len(s) /\ \A i \in 1 .. Len(s) : s[i] \in Nat
  <2>1. \A i \in 1 .. Len(s) : s[i] \in S
    OBVIOUS
  <2>2. Len(s) \in Nat /\ DOMAIN s = 1 .. Len(s)
    OBVIOUS
  <2> QED BY <2>1, <2>2, LimiterAssumption
<1>1. CASE young = {}
  <2>1. Pruned(s, n) = <<>>
    BY <1>1 DEF Pruned
  <2>2. \A i \in 1 .. Len(s) : s[i] + Window <= n
    BY <1>0, <1>1
  <2>3. DropFirst(s, Pruned(s, n), Len(s))
    BY <1>0, <2>1 DEF DropFirst
  <2>4. Len(s) \in 0 .. Len(s) /\ ~ (Len(s) < Len(s))
    BY <1>0
  <2> QED BY <2>1, <2>2, <2>3, <2>4
<1>2. CASE young # {}
  <2>1. young \in SUBSET Nat /\ young \subseteq 1 .. Len(s)
    OBVIOUS
  <2>2. \E i \in young : \A j \in young : i <= j
    <3> HIDE DEF young
    <3> QED BY <1>2, <2>1, LeastNat
  <2>3. least \in young /\ \A j \in young : least <= j
    <3> HIDE DEF young
    <3> QED BY <2>2
  <2>4. Pruned(s, n) = SubSeq(s, least, Len(s))
    BY <1>2 DEF Pruned
  <2>5. least \in 1 .. Len(s) /\ s[least] + Window > n
    BY <2>3
  <2>6. \A i \in 1 .. least - 1 : s[i] + Window <= n
    <3> SUFFICES ASSUME NEW i \in 1 .. least - 1 PROVE s[i] + Window <= n
      OBVIOUS
    <3>1. i \in 1 .. Len(s) /\ ~ (least <= i)
      <4> HIDE DEF least
      <4> QED BY <1>0, <2>5
    <3>2. i \notin young
      <4> HIDE DEF least, young
      <4> QED BY <2>3, <3>1
    <3> QED BY <1>0, <3>1, <3>2
  <2> HIDE DEF least
  <2>7. /\ SubSeq(s, least, Len(s)) \in Seq(S)
        /\ Len(SubSeq(s, least, Len(s))) = Len(s) - least + 1
        /\ \A i \in 1 .. Len(s) - least + 1 : SubSeq(s, least, Len(s))[i] = s[least + i - 1]
    BY <1>0, <2>5, SubSeqProperties
  <2>8. DropFirst(s, Pruned(s, n), least - 1)
    <3>1. least - 1 \in 0 .. Len(s) /\ Len(Pruned(s, n)) = Len(s) - (least - 1)
      BY <1>0, <2>4, <2>5, <2>7
    <3>2. ASSUME NEW i \in 1 .. Len(Pruned(s, n)) PROVE Pruned(s, n)[i] = s[i + (least - 1)]
      <4>1. i \in 1 .. Len(s) - least + 1 /\ least + i - 1 = i + (least - 1)
        BY <1>0, <2>4, <2>5, <2>7
      <4> QED BY <2>4, <2>7, <4>1
    <3> QED BY <3>1, <3>2 DEF DropFirst
  <2>9. least - 1 \in 0 .. Len(s) /\ (least - 1) + 1 = least
    BY <1>0, <2>5
  <2> QED BY <2>4, <2>5, <2>6, <2>7, <2>8, <2>9
<1> QED BY <1>1, <1>2

\* A sequence has no more elements in a set than it has elements.
LEMMA CountLen ==
  ASSUME NEW s \in Seq(Nat), NEW S
  PROVE  /\ IsFiniteSet(Counted(s, S)) /\ Cardinality(Counted(s, S)) \in 0 .. Len(s)
<1>1. Len(s) \in Nat /\ Counted(s, S) \in SUBSET (1 .. Len(s))
  BY DEF Counted
<1>2. IsFiniteSet(1 .. Len(s)) /\ Cardinality(1 .. Len(s)) = Len(s)
  <2>1. /\ IsFiniteSet(1 .. Len(s))
        /\ Cardinality(1 .. Len(s)) = IF 1 > Len(s) THEN 0 ELSE Len(s) - 1 + 1
    <3>1. 1 \in Int /\ Len(s) \in Int
      BY <1>1
    <3> QED BY <3>1, FS_Interval
  <2> QED BY <1>1, <2>1
<1>3. IsFiniteSet(Counted(s, S)) /\ Cardinality(Counted(s, S)) <= Len(s)
  BY <1>1, <1>2, FS_Subset
<1>4. Cardinality(Counted(s, S)) \in Nat
  BY <1>3, FS_CardinalityType
<1> QED BY <1>1, <1>3, <1>4

\* Dropping elements that are not in S changes nothing of what is counted.
LEMMA CountDropped ==
  ASSUME NEW s \in Seq(Nat), NEW k \in Seq(Nat), NEW d, NEW S, DropFirst(s, k, d),
         \A i \in 1 .. d : s[i] \notin S
  PROVE  Cardinality(Counted(k, S)) = Cardinality(Counted(s, S))
<1> DEFINE f == [i \in Counted(k, S) |-> i + d]
<1>1. /\ d \in Nat /\ Len(s) \in Nat /\ Len(k) \in Nat /\ Len(k) + d = Len(s)
      /\ DOMAIN s = 1 .. Len(s) /\ DOMAIN k = 1 .. Len(k)
      /\ \A i \in 1 .. Len(k) : k[i] = s[i + d]
  BY DEF DropFirst
<1>2. \A i \in Counted(k, S) : i \in 1 .. Len(k) /\ k[i] \in S
  BY <1>1 DEF Counted
<1>3. \A i \in Counted(k, S) : i + d \in Counted(s, S)
  <2> SUFFICES ASSUME NEW i \in Counted(k, S) PROVE i + d \in Counted(s, S)
    OBVIOUS
  <2>1. i \in 1 .. Len(k) /\ s[i + d] \in S
    BY <1>1, <1>2
  <2>2. i + d \in 1 .. Len(s)
    BY <1>1, <2>1
  <2> QED BY <1>1, <2>1, <2>2 DEF Counted
<1>4. \A j \in Counted(s, S) : \E i \in Counted(k, S) : i + d = j
  <2> SUFFICES ASSUME NEW j \in Counted(s, S) PROVE \E i \in Counted(k, S) : i + d = j
    OBVIOUS
  <2>1. j \in 1 .. Len(s) /\ s[j] \in S
    BY <1>1 DEF Counted
  <2>2. ~ (j \in 1 .. d)
    BY <2>1
  <2>3. j - d \in 1 .. Len(k) /\ (j - d) + d = j
    BY <1>1, <2>1, <2>2
  <2>4. k[j - d] \in S
    BY <1>1, <2>1, <2>3
  <2> QED BY <1>1, <2>3, <2>4 DEF Counted
<1>5. f \in [Counted(k, S) -> Counted(s, S)] /\ \A i \in Counted(k, S) : f[i] = i + d
  BY <1>3
<1>6. \A i, j \in Counted(k, S) : f[i] = f[j] => i = j
  BY <1>1, <1>2, <1>5
<1>7. \A j \in Counted(s, S) : \E i \in Counted(k, S) : f[i] = j
  BY <1>4, <1>5
<1> HIDE DEF f
<1>8. f \in Bijection(Counted(k, S), Counted(s, S))
  BY <1>5, <1>6, <1>7 DEF Bijection, Injection, IsInjective, Surjection
<1>9. ExistsBijection(Counted(k, S), Counted(s, S))
  BY <1>8 DEF ExistsBijection
<1> QED BY <1>9, FS_Bijection, CountLen

\* An element that is appended counts when it is in S.
LEMMA CountAppended ==
  ASSUME NEW s \in Seq(Nat), NEW x \in Nat, NEW S
  PROVE  Cardinality(Counted(Append(s, x), S)) =
             IF x \in S THEN Cardinality(Counted(s, S)) + 1 ELSE Cardinality(Counted(s, S))
<1>1. /\ Len(s) \in Nat /\ DOMAIN s = 1 .. Len(s)
      /\ DOMAIN Append(s, x) = 1 .. Len(s) + 1
      /\ \A i \in 1 .. Len(s) : Append(s, x)[i] = s[i]
      /\ Append(s, x)[Len(s) + 1] = x
  OBVIOUS
<1>2. \A i \in 1 .. Len(s) + 1 : i \in 1 .. Len(s) \/ i = Len(s) + 1
  BY <1>1
<1>3. 1 .. Len(s) \subseteq 1 .. Len(s) + 1 /\ Len(s) + 1 \in 1 .. Len(s) + 1 /\ Len(s) + 1 \notin 1 .. Len(s)
  BY <1>1
<1>4. x \notin S => Counted(Append(s, x), S) = Counted(s, S)
  BY <1>1, <1>2, <1>3 DEF Counted
<1>5. x \in S => Counted(Append(s, x), S) = Counted(s, S) \cup {Len(s) + 1} /\ Len(s) + 1 \notin Counted(s, S)
  BY <1>1, <1>2, <1>3 DEF Counted
<1>6. IsFiniteSet(Counted(s, S))
  BY CountLen
<1> QED BY <1>4, <1>5, <1>6, FS_AddElement

WindowOf(n) == n - Window + 1 .. n
Waiting(n) == {t \in Callers : at[t] = "stamped" /\ stamp[t] <= n}

\* What the window of n lets in is what times knows of it.
Exact(n) == Cardinality(Selected(entries, WindowOf(n))) = Cardinality(Counted(times, WindowOf(n)))

NumberPart == IsFiniteSet(entries) /\ \A e \in entries : e[2] < Cardinality(EqualStamps(e[1]))

StampPart ==
    /\ \A t \in Callers : stamp[t] <= clock
    /\ \A i \in DOMAIN times : \E e \in entries : e[1] = times[i]

\* Once a younger stamp has pruned the window, only the threads that are stamped and
\* wait for the lock can add to it.
LatePart ==
    \A n \in 0 .. MaxTime :
        \/ Exact(n)
        \/ /\ n < clock
           /\ Cardinality(Selected(entries, WindowOf(n))) + Cardinality(Waiting(n)) <= Rate + Cardinality(Callers) - 1

SortedPart == \A i, j \in DOMAIN times : i < j => times[i] <= times[j]

LastWindowPart ==
    \A n \in 0 .. MaxTime :
        (\A e \in entries : e[1] <= n) => \/ Exact(n)
                                          \/ Len(times) >= Rate /\ \A i \in DOMAIN times : times[i] \in WindowOf(n)

StrictPart == \A e \in entries : Cardinality(Selected(entries, WindowOf(e[1]))) <= Rate

OrderPart == ~ overtaken => SortedPart /\ LastWindowPart /\ StrictPart

RateInv == NumberPart /\ StampPart /\ LatePart /\ OrderPart

EntriesWith(n) == entries \cup {<<n, Cardinality(EqualStamps(n))>>}

\* The new request is one more, and only in the windows of its stamp.
LEMMA OneMoreEntry ==
  ASSUME LimiterTypeOK, NumberPart, NEW n \in 0 .. MaxTime
  PROVE  /\ IsFiniteSet(EntriesWith(n)) /\ EntriesWith(n) \subseteq (0 .. MaxTime) \X Nat
         /\ \A e \in EntriesWith(n) : e[2] < Cardinality({x \in EntriesWith(n) : x[1] = e[1]})
         /\ \A S : /\ IsFiniteSet(Selected(EntriesWith(n), S)) /\ Cardinality(Selected(EntriesWith(n), S)) \in Nat
                   /\ IsFiniteSet(Selected(entries, S)) /\ Cardinality(Selected(entries, S)) \in Nat
                   /\ Cardinality(Selected(EntriesWith(n), S)) = IF n \in S THEN Cardinality(Selected(entries, S)) + 1
                                                    ELSE Cardinality(Selected(entries, S))
<1> DEFINE E == EntriesWith(n)
           new == <<n, Cardinality(EqualStamps(n))>>
<1>1. /\ entries \subseteq (0 .. MaxTime) \X Nat /\ IsFiniteSet(entries)
      /\ \A e \in entries : e[2] < Cardinality(EqualStamps(e[1]))
  BY DEF LimiterTypeOK, NumberPart
<1>2. \A S : Selected(entries, S) \in SUBSET entries
  BY DEF Selected
<1>3. \A S : IsFiniteSet(Selected(entries, S)) /\ Cardinality(Selected(entries, S)) \in Nat
  BY <1>1, <1>2, FS_Subset, FS_CardinalityType
<1>4. \A a : IsFiniteSet(EqualStamps(a)) /\ Cardinality(EqualStamps(a)) \in Nat
  <2>1. \A a : EqualStamps(a) \in SUBSET entries
    BY DEF EqualStamps
  <2> QED BY <1>1, <2>1, FS_Subset, FS_CardinalityType
<1>5. new \in (0 .. MaxTime) \X Nat /\ new[1] = n /\ new[2] = Cardinality(EqualStamps(n))
  BY <1>4
<1>6. new \notin entries
  <2> SUFFICES ASSUME new \in entries PROVE FALSE
    OBVIOUS
  <2>1. new[2] < Cardinality(EqualStamps(new[1]))
    BY <1>1
  <2> HIDE DEF new
  <2> QED BY <1>4, <1>5, <2>1
<1>7. E = entries \cup {new}
  BY DEF EntriesWith
<1> HIDE DEF new, E
<1>8. IsFiniteSet(E) /\ E \subseteq (0 .. MaxTime) \X Nat
  BY <1>1, <1>5, <1>7, FS_AddElement
<1>9. \A S : IF n \in S THEN Selected(E, S) = Selected(entries, S) \cup {new} /\ new \notin Selected(entries, S)
             ELSE Selected(E, S) = Selected(entries, S)
  BY <1>5, <1>6, <1>7 DEF Selected
<1>10. \A S : /\ IsFiniteSet(Selected(E, S))
              /\ Cardinality(Selected(E, S)) = IF n \in S THEN Cardinality(Selected(entries, S)) + 1
                                               ELSE Cardinality(Selected(entries, S))
  <2> SUFFICES ASSUME NEW S
               PROVE  /\ IsFiniteSet(Selected(E, S))
                      /\ Cardinality(Selected(E, S)) = IF n \in S THEN Cardinality(Selected(entries, S)) + 1
                                                       ELSE Cardinality(Selected(entries, S))
    OBVIOUS
  <2>1. CASE n \in S
    <3>1. Selected(E, S) = Selected(entries, S) \cup {new} /\ new \notin Selected(entries, S)
      BY <1>9, <2>1
    <3>2. IsFiniteSet(Selected(entries, S))
      BY <1>3
    <3>3. /\ IsFiniteSet(Selected(entries, S) \cup {new})
          /\ Cardinality(Selected(entries, S) \cup {new}) = Cardinality(Selected(entries, S)) + 1
      BY <3>1, <3>2, FS_AddElement
    <3> QED BY <2>1, <3>1, <3>3
  <2>2. CASE n \notin S
    BY <1>3, <1>9, <2>2
  <2> QED BY <2>1, <2>2
<1>11. \A S : Cardinality(Selected(E, S)) \in Nat
  BY <1>10, FS_CardinalityType
<1>12. ASSUME NEW e \in E PROVE e[2] < Cardinality({x \in E : x[1] = e[1]})
  <2>1. {x \in E : x[1] = e[1]} = Selected(E, {e[1]}) /\ EqualStamps(e[1]) = Selected(entries, {e[1]})
    BY DEF Selected, EqualStamps
  <2>2. CASE e = new
    <3>1. Cardinality(Selected(E, {n})) = Cardinality(Selected(entries, {n})) + 1
      BY <1>10
    <3>2. Cardinality(Selected(entries, {n})) \in Nat
      BY <1>3
    <3>3. e[1] = n /\ e[2] = Cardinality(Selected(entries, {n}))
      BY <1>5, <2>1, <2>2
    <3>4. e[2] < Cardinality(Selected(E, {e[1]}))
      BY <3>1, <3>2, <3>3
    <3> QED BY <2>1, <3>4
  <2>3. CASE e \in entries
    <3>1. e[2] < Cardinality(Selected(entries, {e[1]})) /\ e[2] \in Nat
      BY <1>1, <2>1, <2>3
    <3>2. Cardinality(Selected(E, {e[1]})) >= Cardinality(Selected(entries, {e[1]}))
      <4> DEFINE S == {e[1]}
      <4> HIDE DEF S
      <4>1. /\ Cardinality(Selected(entries, S)) \in Nat
            /\ Cardinality(Selected(E, S)) = IF n \in S THEN Cardinality(Selected(entries, S)) + 1
                                             ELSE Cardinality(Selected(entries, S))
        BY <1>3, <1>10
      <4>2. Cardinality(Selected(E, S)) >= Cardinality(Selected(entries, S))
        BY <4>1
      <4> QED BY <4>2 DEF S
    <3>3. Cardinality(Selected(E, {e[1]})) \in Nat /\ Cardinality(Selected(entries, {e[1]})) \in Nat
      BY <1>3, <1>11
    <3>4. e[2] < Cardinality(Selected(E, {e[1]}))
      BY <3>1, <3>2, <3>3
    <3> QED BY <2>1, <3>4
  <2> QED BY <1>7, <2>2, <2>3
<1> QED BY <1>3, <1>8, <1>10, <1>11, <1>12 DEF E

\* A stamp s prunes nothing of a window that ends with s or later.
LEMMA WindowKept ==
  ASSUME LimiterTypeOK, NEW s \in 0 .. MaxTime, NEW n \in 0 .. MaxTime, s <= n
  PROVE  Cardinality(Counted(Pruned(times, s), WindowOf(n))) = Cardinality(Counted(times, WindowOf(n)))
<1>1. times \in Seq(0 .. MaxTime) /\ 0 .. MaxTime \in SUBSET Nat /\ s \in Nat /\ n \in Nat /\ Window \in Nat
  BY LimiterAssumption DEF LimiterTypeOK
<1>2. PICK d \in 0 .. Len(times) : /\ DropFirst(times, Pruned(times, s), d)
                                   /\ \A i \in 1 .. d : times[i] + Window <= s
  BY <1>1, PrunedIs
<1>3. Pruned(times, s) \in Seq(Nat) /\ times \in Seq(Nat)
  <2>1. Pruned(times, s) \in Seq(0 .. MaxTime)
    BY <1>1, PrunedIs
  <2> QED BY <1>1, <2>1, SeqOfNat
<1>4. ASSUME NEW i \in 1 .. d PROVE times[i] \notin WindowOf(n)
  <2>1. times[i] \in Nat /\ times[i] + Window <= s
    BY <1>2, <1>3
  <2> QED BY <1>1, <2>1 DEF WindowOf
<1> QED BY <1>2, <1>3, <1>4, CountDropped

\* A set of threads has no more threads than there are, and fewer if one is not in it.
LEMMA SomeCallers ==
  ASSUME NEW W \in SUBSET Callers
  PROVE  /\ Cardinality(W) \in Nat /\ Cardinality(Callers) \in Nat \ {0}
         /\ Cardinality(W) <= Cardinality(Callers)
         /\ \A t \in Callers : t \notin W => Cardinality(W) <= Cardinality(Callers) - 1
         /\ \A V \in SUBSET W : Cardinality(V) \in Nat /\ Cardinality(V) <= Cardinality(W)
         /\ \A t \in W : \A V \in SUBSET (W \ {t}) : Cardinality(V) \in Nat /\ Cardinality(V) <= Cardinality(W) - 1
<1>1. IsFiniteSet(Callers) /\ Callers # {}
  BY LimiterAssumption
<1>2. IsFiniteSet(W) /\ Cardinality(W) <= Cardinality(Callers)
  BY <1>1, FS_Subset
<1>3. Cardinality(W) \in Nat /\ Cardinality(Callers) \in Nat /\ Cardinality(Callers) # 0
  BY <1>1, <1>2, FS_CardinalityType, FS_EmptySet
<1>4. ASSUME NEW t \in Callers, t \notin W PROVE Cardinality(W) <= Cardinality(Callers) - 1
  <2>1. W \in SUBSET (Callers \ {t})
    BY <1>4
  <2>2. IsFiniteSet(Callers \ {t}) /\ Cardinality(Callers \ {t}) = Cardinality(Callers) - 1
    BY <1>1, FS_RemoveElement
  <2>3. Cardinality(W) <= Cardinality(Callers \ {t})
    BY <2>1, <2>2, FS_Subset
  <2> QED BY <2>2, <2>3
<1>5. \A V \in SUBSET W : Cardinality(V) \in Nat /\ Cardinality(V) <= Cardinality(W)
  BY <1>2, FS_Subset, FS_CardinalityType
<1>6. ASSUME NEW t \in W, NEW V \in SUBSET (W \ {t})
      PROVE  Cardinality(V) \in Nat /\ Cardinality(V) <= Cardinality(W) - 1
  <2>1. IsFiniteSet(W \ {t}) /\ Cardinality(W \ {t}) = Cardinality(W) - 1
    BY <1>2, FS_RemoveElement
  <2>2. IsFiniteSet(V) /\ Cardinality(V) <= Cardinality(W \ {t})
    BY <2>1, FS_Subset
  <2>3. Cardinality(V) \in Nat
    BY <2>2, FS_CardinalityType
  <2> QED BY <2>1, <2>2, <2>3
<1> QED BY <1>2, <1>3, <1>4, <1>5, <1>6

\* The window is no longer than the limit, and what is pruned of it no longer than it was.
LEMMA PrunedFacts ==
  ASSUME LimiterTypeOK, StampPart, NEW s \in 0 .. MaxTime
  PROVE  /\ Pruned(times, s) \in Seq(0 .. MaxTime) /\ Len(Pruned(times, s)) \in Nat
         /\ Len(Pruned(times, s)) <= Len(times)
         /\ \A i \in DOMAIN Pruned(times, s) : \E e \in entries : e[1] = Pruned(times, s)[i]
         /\ SortedPart => /\ \A i, j \in DOMAIN Pruned(times, s) :
                                i < j => Pruned(times, s)[i] <= Pruned(times, s)[j]
                          /\ \A i \in DOMAIN Pruned(times, s) : Pruned(times, s)[i] + Window > s
         /\ (\A i \in DOMAIN times : times[i] + Window > s) => Pruned(times, s) = times
<1>1. /\ times \in Seq(0 .. MaxTime) /\ 0 .. MaxTime \in SUBSET Nat /\ s \in Nat /\ Window \in Nat
      /\ Len(times) \in Nat
  BY LimiterAssumption DEF LimiterTypeOK
<1>2. PICK d \in 0 .. Len(times) : /\ DropFirst(times, Pruned(times, s), d)
                                   /\ \A i \in 1 .. d : times[i] + Window <= s
                                   /\ d < Len(times) => times[d + 1] + Window > s
  BY <1>1, PrunedIs
<1>3. Pruned(times, s) \in Seq(0 .. MaxTime)
  BY <1>1, PrunedIs
<1> DEFINE k == Pruned(times, s)
<1>4. k \in Seq(0 .. MaxTime) /\ DropFirst(times, k, d)
  BY <1>2, <1>3
<1> HIDE DEF k
<1>5. /\ Len(k) \in Nat /\ Len(k) = Len(times) - d /\ Len(k) <= Len(times) /\ DOMAIN k = 1 .. Len(k)
      /\ \A i \in 1 .. Len(k) : k[i] = times[i + d] /\ i + d \in 1 .. Len(times)
  <2>1. Len(k) \in Nat /\ DOMAIN k = 1 .. Len(k)
    BY <1>4
  <2>2. d \in Nat /\ Len(k) = Len(times) - d /\ \A i \in 1 .. Len(k) : k[i] = times[i + d]
    BY <1>1, <1>4 DEF DropFirst
  <2>3. Len(times) \in Nat
    BY <1>1
  <2>4. \A i \in 1 .. Len(k) : i + d \in 1 .. Len(times)
    BY <2>1, <2>2, <2>3
  <2> QED BY <2>1, <2>2, <2>3, <2>4
<1>6. \A i \in 1 .. Len(times) : times[i] \in Nat
  <2>1. times \in Seq(Nat)
    BY <1>1, SeqOfNat
  <2> QED BY <2>1
<1>7. \A i \in DOMAIN k : \E e \in entries : e[1] = k[i]
  <2>1. DOMAIN times = 1 .. Len(times)
    BY <1>1
  <2> QED BY <1>5, <2>1 DEF StampPart
<1>8. ASSUME SortedPart
      PROVE  /\ \A i, j \in DOMAIN k : i < j => k[i] <= k[j]
             /\ \A i \in DOMAIN k : k[i] + Window > s
  <2>1. \A i, j \in 1 .. Len(times) : i < j => times[i] <= times[j]
    BY <1>1, <1>8 DEF SortedPart
  <2>2. \A i, j \in 1 .. Len(k) : i < j => i + d < j + d
    BY <1>5
  <2>3. \A i, j \in DOMAIN k : i < j => k[i] <= k[j]
    BY <1>5, <2>1, <2>2
  <2>4. ASSUME NEW i \in DOMAIN k PROVE k[i] + Window > s
    <3>1. d < Len(times) /\ d + 1 \in 1 .. Len(times)
      BY <1>1, <1>5
    <3>2. times[d + 1] <= times[i + d] /\ times[i + d] = k[i]
      <4>1. i + d = d + 1 \/ d + 1 < i + d
        BY <1>5
      <4>2. times[d + 1] \in Nat
        BY <1>6, <3>1
      <4> QED BY <1>5, <2>1, <3>1, <4>1, <4>2
    <3>3. times[d + 1] \in Nat /\ k[i] \in Nat
      BY <1>5, <1>6, <3>1
    <3> QED BY <1>1, <1>2, <3>1, <3>2, <3>3
  <2> QED BY <2>3, <2>4
<1>9. ASSUME \A i \in DOMAIN times : times[i] + Window > s PROVE k = times
  <2>1. d = 0
    <3> SUFFICES ASSUME d # 0 PROVE FALSE
      OBVIOUS
    <3>1. 1 \in 1 .. d /\ 1 \in DOMAIN times
      BY <1>1
    <3>2. times[1] + Window <= s /\ times[1] + Window > s /\ times[1] \in Nat
      BY <1>2, <1>9, <1>6, <1>1, <3>1
    <3> QED BY <1>1, <3>2
  <2>2. Len(k) = Len(times) /\ \A i \in 1 .. Len(k) : k[i] = times[i]
    BY <1>1, <1>5, <2>1
  <2> QED BY <1>1, <1>4, <2>2
<1> QED BY <1>4, <1>5, <1>7, <1>8, <1>9 DEF k

\* What neither lets a request in nor prunes the window.
LEMMA RateQuiet ==
  ASSUME RateInv, UNCHANGED <<times, entries, overtaken>>, clock \in 0 .. MaxTime, clock' \in {clock, clock + 1},
         \A t \in Callers : stamp'[t] <= clock',
         \A n \in 0 .. MaxTime : n < clock => Waiting(n)' \subseteq Waiting(n)
  PROVE  RateInv'
<1>0. UNCHANGED times /\ UNCHANGED entries /\ UNCHANGED overtaken
  OBVIOUS
<1>1. \A n : /\ Exact(n)' <=> Exact(n)
             /\ Selected(entries', WindowOf(n)) = Selected(entries, WindowOf(n))
  BY <1>0 DEF Exact
<1>2. \A a : EqualStamps(a)' = EqualStamps(a)
  BY <1>0 DEF EqualStamps
<1>3. NumberPart'
  BY <1>0, <1>2 DEF RateInv, NumberPart
<1>4. StampPart'
  BY <1>0 DEF RateInv, StampPart
<1>5. OrderPart'
  BY <1>0, <1>1 DEF RateInv, OrderPart, SortedPart, LastWindowPart, StrictPart
<1>6. LatePart'
  <2> SUFFICES ASSUME NEW n \in 0 .. MaxTime, ~ Exact(n)
               PROVE  /\ n < clock'
                      /\ Cardinality(Selected(entries, WindowOf(n))) + Cardinality(Waiting(n)')
                            <= Rate + Cardinality(Callers) - 1
    BY <1>0, <1>1 DEF LatePart
  <2>1. /\ n < clock
        /\ Cardinality(Selected(entries, WindowOf(n))) + Cardinality(Waiting(n)) <= Rate + Cardinality(Callers) - 1
    BY DEF RateInv, LatePart
  <2>2. Waiting(n) \in SUBSET Callers /\ Waiting(n)' \in SUBSET Waiting(n)
    BY <2>1 DEF Waiting
  <2>3. Cardinality(Waiting(n)) \in Nat /\ Cardinality(Waiting(n)') \in Nat /\ Cardinality(Callers) \in Nat
        /\ Cardinality(Waiting(n)') <= Cardinality(Waiting(n))
    BY <2>2, SomeCallers
  <2>4. Cardinality(Selected(entries, WindowOf(n))) \in Nat
    <3>1. IsFiniteSet(entries) /\ Selected(entries, WindowOf(n)) \in SUBSET entries
      BY DEF RateInv, NumberPart, Selected
    <3> QED BY <3>1, FS_Subset, FS_CardinalityType
  <2> QED BY <2>1, <2>3, <2>4, LimiterAssumption
<1> QED BY <1>3, <1>4, <1>5, <1>6 DEF RateInv

\* The thread that has had the lock waits no longer.
LEMMA LockHad ==
  ASSUME LimiterTypeOK, NEW t \in Callers, NEW to, at[t] = "stamped", to # "stamped",
         at' = [at EXCEPT ![t] = to], UNCHANGED stamp, NEW n \in 0 .. MaxTime
  PROVE  /\ Cardinality(Waiting(n)) \in Nat /\ Cardinality(Waiting(n)') \in Nat
         /\ Cardinality(Callers) \in Nat \ {0}
         /\ Cardinality(Waiting(n)') <= Cardinality(Callers) - 1
         /\ Cardinality(Waiting(n)') <= Cardinality(Waiting(n))
         /\ stamp[t] <= n => Cardinality(Waiting(n)') <= Cardinality(Waiting(n)) - 1
<1>1. at \in [Callers -> Places]
  BY DEF LimiterTypeOK
<1>2. \A o \in Callers : o # t => at'[o] = at[o]
  BY <1>1
<1>3. at'[t] # "stamped"
  BY <1>1
<1>4. Waiting(n) \in SUBSET Callers /\ Waiting(n)' \in SUBSET Waiting(n) /\ t \notin Waiting(n)'
  BY <1>2, <1>3 DEF Waiting
<1>5. stamp[t] <= n => t \in Waiting(n) /\ Waiting(n)' \in SUBSET (Waiting(n) \ {t})
  BY <1>4 DEF Waiting
<1>6. Waiting(n)' \in SUBSET Callers
  BY <1>4
<1>7. Cardinality(Waiting(n)) \in Nat /\ Cardinality(Waiting(n)') \in Nat /\ Cardinality(Callers) \in Nat \ {0}
  BY <1>4, <1>6, SomeCallers
<1>8. Cardinality(Waiting(n)') <= Cardinality(Callers) - 1
  BY <1>4, <1>6, SomeCallers
<1>9. Cardinality(Waiting(n)') <= Cardinality(Waiting(n))
  BY <1>4, SomeCallers
<1>10. stamp[t] <= n => Cardinality(Waiting(n)') <= Cardinality(Waiting(n)) - 1
  BY <1>4, <1>5, SomeCallers
<1> QED BY <1>7, <1>8, <1>9, <1>10

\* The stamps and the counts at the start of a step with the lock.
LEMMA AtLock ==
  ASSUME LimiterTypeOK, RateInv, NEW t \in Callers
  PROVE  /\ stamp[t] \in 0 .. MaxTime /\ stamp[t] \in Nat /\ stamp[t] <= clock /\ clock \in 0 .. MaxTime
         /\ Rate \in Nat \ {0} /\ Window \in Nat \ {0} /\ MaxTime \in Nat
         /\ Len(times) \in Nat /\ Len(times) <= Rate /\ times \in Seq(Nat) /\ DOMAIN times = 1 .. Len(times)
         /\ Pruned(times, stamp[t]) \in Seq(Nat) /\ Pruned(times, stamp[t]) \in Seq(0 .. MaxTime)
         /\ Len(Pruned(times, stamp[t])) \in Nat
         /\ \A n : /\ Cardinality(Selected(entries, WindowOf(n))) \in Nat
                   /\ Cardinality(Counted(times, WindowOf(n))) \in 0 .. Len(times)
                   /\ Cardinality(Counted(Pruned(times, stamp[t]), WindowOf(n)))
                         \in 0 .. Len(Pruned(times, stamp[t]))
<1>1. /\ stamp[t] \in 0 .. MaxTime /\ stamp[t] \in Nat /\ stamp[t] <= clock /\ clock \in 0 .. MaxTime
      /\ Rate \in Nat \ {0} /\ Window \in Nat \ {0} /\ MaxTime \in Nat
  BY LimiterAssumption DEF LimiterTypeOK, RateInv, StampPart
<1>2. times \in Seq(0 .. MaxTime) /\ 0 .. MaxTime \in SUBSET Nat /\ Len(times) <= Rate
  BY <1>1 DEF LimiterTypeOK
<1>3. times \in Seq(Nat)
  BY <1>2, SeqOfNat
<1>4. Pruned(times, stamp[t]) \in Seq(0 .. MaxTime)
  BY <1>1, <1>2, PrunedIs
<1>5. Pruned(times, stamp[t]) \in Seq(Nat)
  BY <1>2, <1>4, SeqOfNat
<1>6. ASSUME NEW n
      PROVE  /\ Cardinality(Selected(entries, WindowOf(n))) \in Nat
             /\ Cardinality(Counted(times, WindowOf(n))) \in 0 .. Len(times)
             /\ Cardinality(Counted(Pruned(times, stamp[t]), WindowOf(n))) \in 0 .. Len(Pruned(times, stamp[t]))
  <2>1. IsFiniteSet(entries) /\ Selected(entries, WindowOf(n)) \in SUBSET entries
    BY DEF RateInv, NumberPart, Selected
  <2>2. Cardinality(Selected(entries, WindowOf(n))) \in Nat
    BY <2>1, FS_Subset, FS_CardinalityType
  <2> QED BY <1>3, <1>5, <2>2, CountLen
<1>7. Len(times) \in Nat /\ DOMAIN times = 1 .. Len(times) /\ Len(Pruned(times, stamp[t])) \in Nat
  BY <1>3, <1>5
<1> QED BY <1>1, <1>2, <1>3, <1>4, <1>5, <1>6, <1>7

\* A request that the limit refuses.
LEMMA RateRefuse ==
  ASSUME LimiterTypeOK, RateInv, NEW t \in Callers, Refuse(t)
  PROVE  RateInv'
<1> DEFINE s == stamp[t]
           k == Pruned(times, s)
<1>0. /\ at[t] = "stamped" /\ at' = [at EXCEPT ![t] = "idle"] /\ Len(k) >= Rate /\ times' = k
      /\ stamp' = stamp /\ clock' = clock /\ entries' = entries /\ overtaken' = overtaken
  BY DEF Refuse, Goes
<1>1. /\ s \in 0 .. MaxTime /\ s \in Nat /\ s <= clock /\ clock \in 0 .. MaxTime
      /\ Rate \in Nat \ {0} /\ Window \in Nat \ {0} /\ MaxTime \in Nat
      /\ Len(times) \in Nat /\ Len(times) <= Rate /\ k \in Seq(0 .. MaxTime) /\ Len(k) \in Nat
      /\ \A n : Cardinality(Selected(entries, WindowOf(n))) \in Nat
      /\ \A n : Cardinality(Counted(times, WindowOf(n))) \in 0 .. Len(times)
  BY AtLock
<1>2. StampPart /\ NumberPart /\ LatePart /\ OrderPart
  BY DEF RateInv
<1>3. /\ \A i \in DOMAIN k : \E e \in entries : e[1] = k[i]
      /\ SortedPart => /\ \A i, j \in DOMAIN k : i < j => k[i] <= k[j]
                       /\ \A i \in DOMAIN k : k[i] + Window > s
      /\ (\A i \in DOMAIN times : times[i] + Window > s) => k = times
  BY <1>1, <1>2, PrunedFacts
<1>4. \A n \in 0 .. MaxTime : s <= n => (Exact(n) => Exact(n)')
  BY <1>0, <1>1, WindowKept DEF Exact
<1> HIDE DEF s, k
<1>5. NumberPart'
  BY <1>0, <1>2 DEF NumberPart, EqualStamps
<1>6. StampPart'
  BY <1>0, <1>2, <1>3 DEF StampPart
<1>7. ASSUME NEW n \in 0 .. MaxTime, ~ Exact(n)'
      PROVE  /\ n < clock'
             /\ Cardinality(Selected(entries', WindowOf(n))) + Cardinality(Waiting(n)')
                   <= Rate + Cardinality(Callers) - 1
  <2>1. /\ Cardinality(Waiting(n)) \in Nat /\ Cardinality(Waiting(n)') \in Nat /\ Cardinality(Callers) \in Nat
        /\ Cardinality(Waiting(n)') <= Cardinality(Callers) - 1
        /\ Cardinality(Waiting(n)') <= Cardinality(Waiting(n))
    BY <1>0, LockHad
  <2>2. CASE Exact(n)
    <3>1. n < s
      BY <1>1, <1>4, <1>7, <2>2
    <3>2. Cardinality(Selected(entries, WindowOf(n))) <= Rate
      BY <1>1, <2>2 DEF Exact
    <3>3. Cardinality(Selected(entries, WindowOf(n))) \in Nat
      BY <1>1
    <3> QED BY <1>0, <1>1, <2>1, <3>1, <3>2, <3>3
  <2>3. CASE ~ Exact(n)
    <3>1. /\ n < clock
          /\ Cardinality(Selected(entries, WindowOf(n))) + Cardinality(Waiting(n)) <= Rate + Cardinality(Callers) - 1
      BY <1>2, <2>3 DEF LatePart
    <3>2. Cardinality(Selected(entries, WindowOf(n))) \in Nat
      BY <1>1
    <3> QED BY <1>0, <1>1, <2>1, <3>1, <3>2
  <2> QED BY <2>2, <2>3
<1>8. LatePart'
  BY <1>7 DEF LatePart
<1>9. ASSUME ~ overtaken' PROVE SortedPart' /\ LastWindowPart' /\ StrictPart'
  <2>1. SortedPart /\ LastWindowPart /\ StrictPart
    BY <1>0, <1>2, <1>9 DEF OrderPart
  <2>2. SortedPart'
    BY <1>0, <1>3, <2>1 DEF SortedPart
  <2>3. StrictPart'
    BY <1>0, <2>1 DEF StrictPart
  <2>4. ASSUME NEW n \in 0 .. MaxTime, \A e \in entries : e[1] <= n
        PROVE  Exact(n)' \/ (Len(times') >= Rate /\ \A i \in DOMAIN times' : times'[i] \in WindowOf(n))
    <3>1. CASE s <= n /\ Exact(n)
      BY <1>4, <3>1
    <3>2. CASE s <= n /\ ~ Exact(n)
      <4>1. Len(times) >= Rate /\ \A i \in DOMAIN times : times[i] \in WindowOf(n)
        BY <2>1, <2>4, <3>2 DEF LastWindowPart
      <4>2. \A i \in DOMAIN times : times[i] + Window > s
        BY <1>1, <3>2, <4>1 DEF WindowOf
      <4> QED BY <1>0, <1>3, <4>1, <4>2
    <3>3. CASE ~ (s <= n)
      <4>1. ASSUME NEW i \in DOMAIN k PROVE k[i] \in WindowOf(n)
        <5>1. k[i] + Window > s
          BY <1>3, <2>1
        <5>2. k[i] <= n
          BY <1>3, <2>4
        <5>3. k[i] \in 0 .. MaxTime
          BY <1>1
        <5> QED BY <1>1, <3>3, <5>1, <5>2, <5>3 DEF WindowOf
      <4> QED BY <1>0, <4>1
    <3> QED BY <3>1, <3>2, <3>3
  <2>5. LastWindowPart'
    BY <1>0, <2>4 DEF LastWindowPart
  <2> QED BY <2>2, <2>3, <2>5
<1>10. OrderPart'
  BY <1>9 DEF OrderPart
<1> QED BY <1>5, <1>6, <1>8, <1>10 DEF RateInv

\* A request that is let in.
LEMMA RateReserve ==
  ASSUME LimiterTypeOK, RateInv, NEW t \in Callers, Reserve(t)
  PROVE  RateInv' /\ entries' \subseteq (0 .. MaxTime) \X Nat
<1> DEFINE s == stamp[t]
           k == Pruned(times, s)
<1>0. /\ at[t] = "stamped" /\ at' = [at EXCEPT ![t] = "queued"] /\ Len(k) < Rate
      /\ times' = Append(k, s) /\ stamp' = stamp /\ clock' = clock
      /\ entries' = entries \cup {<<s, Cardinality(EqualStamps(s))>>}
      /\ overtaken' = (overtaken \/ Late(t))
  BY DEF Reserve, Goes
<1>1. /\ s \in 0 .. MaxTime /\ s \in Nat /\ s <= clock /\ clock \in 0 .. MaxTime
      /\ Rate \in Nat \ {0} /\ Window \in Nat \ {0} /\ MaxTime \in Nat
      /\ Len(times) \in Nat /\ Len(times) <= Rate
      /\ k \in Seq(Nat) /\ Len(k) \in Nat
      /\ \A n : Cardinality(Selected(entries, WindowOf(n))) \in Nat
      /\ \A n : Cardinality(Counted(times, WindowOf(n))) \in 0 .. Len(times)
      /\ \A n : Cardinality(Counted(k, WindowOf(n))) \in 0 .. Len(k)
  BY AtLock
<1>2. StampPart /\ NumberPart /\ LatePart /\ OrderPart
  BY DEF RateInv
<1>3. /\ \A i \in DOMAIN k : \E e \in entries : e[1] = k[i]
      /\ SortedPart => \A i, j \in DOMAIN k : i < j => k[i] <= k[j]
      /\ (\A i \in DOMAIN times : times[i] + Window > s) => k = times
  BY <1>1, <1>2, PrunedFacts
<1>4. \A n \in 0 .. MaxTime : s <= n =>
          Cardinality(Counted(k, WindowOf(n))) = Cardinality(Counted(times, WindowOf(n)))
  BY <1>1, WindowKept
<1>5. /\ IsFiniteSet(entries') /\ entries' \subseteq (0 .. MaxTime) \X Nat
      /\ \A e \in entries' : e[2] < Cardinality({x \in entries' : x[1] = e[1]})
      /\ \A S : /\ Cardinality(Selected(entries', S)) \in Nat
                /\ Cardinality(Selected(entries, S)) \in Nat
                /\ Cardinality(Selected(entries', S)) =
                       IF s \in S THEN Cardinality(Selected(entries, S)) + 1 ELSE Cardinality(Selected(entries, S))
  <2>1. s \in 0 .. MaxTime
    BY <1>1
  <2>2. entries' = EntriesWith(s)
    BY <1>0 DEF EntriesWith
  <2> HIDE DEF s
  <2>3. /\ IsFiniteSet(EntriesWith(s)) /\ EntriesWith(s) \subseteq (0 .. MaxTime) \X Nat
        /\ \A e \in EntriesWith(s) : e[2] < Cardinality({x \in EntriesWith(s) : x[1] = e[1]})
    BY <1>2, <2>1, OneMoreEntry
  <2>4. \A S : /\ Cardinality(Selected(EntriesWith(s), S)) \in Nat
               /\ Cardinality(Selected(entries, S)) \in Nat
               /\ Cardinality(Selected(EntriesWith(s), S)) =
                      IF s \in S THEN Cardinality(Selected(entries, S)) + 1 ELSE Cardinality(Selected(entries, S))
    BY <1>2, <2>1, OneMoreEntry
  <2> QED BY <2>2, <2>3, <2>4
<1> DEFINE new == <<s, Cardinality(EqualStamps(s))>>
<1>6. entries' = entries \cup {new} /\ new[1] = s
  BY <1>0
<1> HIDE DEF s, k, new
\* The windows that end with the stamp or later know of the request.
<1>7. \A n \in 0 .. MaxTime : s <= n => (Exact(n) => Exact(n)')
  <2> SUFFICES ASSUME NEW n \in 0 .. MaxTime, s <= n, Exact(n) PROVE Exact(n)'
    OBVIOUS
  <2>1. Cardinality(Counted(Append(k, s), WindowOf(n))) =
            IF s \in WindowOf(n) THEN Cardinality(Counted(k, WindowOf(n))) + 1
            ELSE Cardinality(Counted(k, WindowOf(n)))
    BY <1>1, CountAppended
  <2>2. Cardinality(Selected(entries', WindowOf(n))) =
            IF s \in WindowOf(n) THEN Cardinality(Selected(entries, WindowOf(n))) + 1
            ELSE Cardinality(Selected(entries, WindowOf(n)))
    BY <1>5
  <2>3. Cardinality(Selected(entries, WindowOf(n))) = Cardinality(Counted(k, WindowOf(n)))
    BY <1>4 DEF Exact
  <2> QED BY <1>0, <2>1, <2>2, <2>3 DEF Exact
<1>8. NumberPart'
  BY <1>5 DEF NumberPart, EqualStamps
<1>9. \A i \in DOMAIN times' : (i \in DOMAIN k /\ times'[i] = k[i]) \/ (i = Len(k) + 1 /\ times'[i] = s)
  <2>1. DOMAIN k = 1 .. Len(k) /\ DOMAIN Append(k, s) = 1 .. Len(k) + 1
        /\ \A i \in 1 .. Len(k) : Append(k, s)[i] = k[i]
    BY <1>1
  <2>2. Append(k, s)[Len(k) + 1] = s
    BY <1>1
  <2>3. \A i \in 1 .. Len(k) + 1 : i \in 1 .. Len(k) \/ i = Len(k) + 1
    BY <1>1
  <2>4. times' = Append(k, s)
    BY <1>0
  <2> QED BY <2>1, <2>2, <2>3, <2>4
<1>10. StampPart'
  <2>1. \A i \in DOMAIN times' : \E e \in entries' : e[1] = times'[i]
    BY <1>3, <1>6, <1>9
  <2> QED BY <1>0, <1>2, <2>1 DEF StampPart
<1>11. ASSUME NEW n \in 0 .. MaxTime, ~ Exact(n)'
       PROVE  /\ n < clock'
              /\ Cardinality(Selected(entries', WindowOf(n))) + Cardinality(Waiting(n)')
                    <= Rate + Cardinality(Callers) - 1
  <2>1. /\ Cardinality(Waiting(n)) \in Nat /\ Cardinality(Waiting(n)') \in Nat /\ Cardinality(Callers) \in Nat
        /\ Cardinality(Waiting(n)') <= Cardinality(Callers) - 1
        /\ Cardinality(Waiting(n)') <= Cardinality(Waiting(n))
        /\ s <= n => Cardinality(Waiting(n)') <= Cardinality(Waiting(n)) - 1
    BY <1>0, LockHad DEF s
  <2>2. /\ Cardinality(Selected(entries, WindowOf(n))) \in Nat
        /\ Cardinality(Selected(entries', WindowOf(n))) \in Nat
        /\ Cardinality(Selected(entries', WindowOf(n))) <= Cardinality(Selected(entries, WindowOf(n))) + 1
        /\ ~ (s <= n) => Cardinality(Selected(entries', WindowOf(n))) = Cardinality(Selected(entries, WindowOf(n)))
    <3>1. ~ (s <= n) => s \notin WindowOf(n)
      BY <1>1 DEF WindowOf
    <3>2. /\ Cardinality(Selected(entries, WindowOf(n))) \in Nat
          /\ Cardinality(Selected(entries', WindowOf(n))) \in Nat
          /\ Cardinality(Selected(entries', WindowOf(n))) =
                 IF s \in WindowOf(n) THEN Cardinality(Selected(entries, WindowOf(n))) + 1
                 ELSE Cardinality(Selected(entries, WindowOf(n)))
      BY <1>5
    <3> QED BY <3>1, <3>2
  <2>3. CASE Exact(n)
    <3>1. n < s
      BY <1>1, <1>7, <1>11, <2>3
    <3>2. Cardinality(Selected(entries, WindowOf(n))) <= Rate
      BY <1>1, <2>3 DEF Exact
    <3> QED BY <1>0, <1>1, <2>1, <2>2, <3>1, <3>2
  <2>4. CASE ~ Exact(n)
    <3>1. /\ n < clock
          /\ Cardinality(Selected(entries, WindowOf(n))) + Cardinality(Waiting(n)) <= Rate + Cardinality(Callers) - 1
      BY <1>2, <2>4 DEF LatePart
    <3>2. CASE s <= n
      BY <1>0, <1>1, <2>1, <2>2, <3>1, <3>2, SMTT(30)
    <3>3. CASE ~ (s <= n)
      BY <1>0, <1>1, <2>1, <2>2, <3>1, <3>3, SMTT(30)
    <3> QED BY <3>2, <3>3
  <2> QED BY <2>3, <2>4
<1>12. LatePart'
  BY <1>11 DEF LatePart
<1>13. ASSUME ~ overtaken' PROVE SortedPart' /\ LastWindowPart' /\ StrictPart'
  <2>1. SortedPart /\ LastWindowPart /\ StrictPart
    BY <1>0, <1>2, <1>13 DEF OrderPart
  <2>2. \A e \in entries : e[1] <= s
    <3>1. ~ \E e \in entries : e[1] > s
      BY <1>0, <1>13 DEF Late, s
    <3>2. \A e \in entries : e[1] \in Nat
      BY <1>1 DEF LimiterTypeOK
    <3> QED BY <1>1, <3>1, <3>2
  \* The window of the stamp is not full, so that it is known to the last request.
  <2>3. ASSUME NEW n \in 0 .. MaxTime, s <= n, \A e \in entries : e[1] <= n PROVE Exact(n)
    <3> SUFFICES ASSUME ~ Exact(n) PROVE FALSE
      OBVIOUS
    <3>1. Len(times) >= Rate /\ \A i \in DOMAIN times : times[i] \in WindowOf(n)
      BY <2>1, <2>3 DEF LastWindowPart
    <3>2. \A i \in DOMAIN times : times[i] + Window > s
      BY <1>1, <2>3, <3>1 DEF WindowOf
    <3>3. k = times
      BY <1>3, <3>2
    <3> QED BY <1>0, <1>1, <3>1, <3>3
  <2>4. SortedPart'
    <3> SUFFICES ASSUME NEW i \in DOMAIN times', NEW j \in DOMAIN times', i < j PROVE times'[i] <= times'[j]
      BY DEF SortedPart
    <3>1. DOMAIN k = 1 .. Len(k)
      BY <1>1
    <3>2. DOMAIN times' = 1 .. Len(k) + 1
      BY <1>0, <1>1
    <3>3. i \in DOMAIN k
      BY <1>1, <3>1, <3>2
    <3>4. times'[i] = k[i] /\ k[i] <= s
      <4>1. i # Len(k) + 1
        BY <1>1, <3>1, <3>3
      <4>2. times'[i] = k[i]
        BY <1>9, <4>1
      <4> QED BY <1>3, <2>2, <3>3, <4>2
    <3>5. CASE j \in DOMAIN k /\ times'[j] = k[j]
      BY <1>3, <2>1, <3>3, <3>4, <3>5
    <3>6. CASE times'[j] = s
      BY <3>4, <3>6
    <3> QED BY <1>9, <3>5, <3>6
  <2>5. LastWindowPart'
    <3> SUFFICES ASSUME NEW n \in 0 .. MaxTime, \A e \in entries' : e[1] <= n PROVE Exact(n)'
      BY DEF LastWindowPart
    <3>1. s <= n /\ \A e \in entries : e[1] <= n
      BY <1>6
    <3> QED BY <1>7, <2>3, <3>1
  <2>6. StrictPart'
    <3>1. Cardinality(Selected(entries', WindowOf(s))) <= Rate
      <4>1. Exact(s)
        BY <1>1, <2>2, <2>3
      <4>2. Cardinality(Selected(entries, WindowOf(s))) = Cardinality(Counted(k, WindowOf(s)))
        BY <1>1, <1>4, <4>1 DEF Exact
      <4>3. Cardinality(Counted(k, WindowOf(s))) < Rate
        BY <1>0, <1>1
      <4>4. /\ Cardinality(Selected(entries, WindowOf(s))) \in Nat
            /\ Cardinality(Selected(entries', WindowOf(s))) \in Nat
            /\ Cardinality(Selected(entries', WindowOf(s))) =
                   IF s \in WindowOf(s) THEN Cardinality(Selected(entries, WindowOf(s))) + 1
                   ELSE Cardinality(Selected(entries, WindowOf(s)))
        BY <1>5
      <4> QED BY <1>1, <4>2, <4>3, <4>4
    <3>2. ASSUME NEW e \in entries PROVE Cardinality(Selected(entries', WindowOf(e[1]))) <= Rate
      <4>1. CASE e[1] = s
        BY <3>1, <4>1
      <4>2. CASE e[1] # s
        <5>1. e[1] \in Nat /\ e[1] < s
          BY <1>1, <2>2, <4>2 DEF LimiterTypeOK
        <5>2. s \notin WindowOf(e[1])
          BY <1>1, <5>1 DEF WindowOf
        <5>3. Cardinality(Selected(entries', WindowOf(e[1]))) = Cardinality(Selected(entries, WindowOf(e[1])))
          BY <1>5, <5>2
        <5> QED BY <2>1, <5>3 DEF StrictPart
      <4> QED BY <4>1, <4>2
    <3> QED BY <1>6, <3>1, <3>2 DEF StrictPart
  <2> QED BY <2>4, <2>5, <2>6
<1>14. OrderPart'
  BY <1>13 DEF OrderPart
<1> QED BY <1>5, <1>8, <1>10, <1>12, <1>14 DEF RateInv

Inside == {t \in Callers : at[t] = "inside"}

LimiterInv == LimiterTypeOK /\ SlotsAreKept /\ RateInv

\* A slot is taken by the thread that goes inside, and no two threads take the same.
LEMMA LimiterInvNext == LimiterInv /\ [LimiterNext]_limiterVars => LimiterInv'
<1> SUFFICES ASSUME LimiterInv, [LimiterNext]_limiterVars PROVE LimiterInv'
  OBVIOUS
<1>0. /\ LimiterTypeOK /\ SlotsAreKept /\ RateInv
      /\ at \in [Callers -> Places] /\ stamp \in [Callers -> 0 .. MaxTime]
      /\ Rate \in Nat \ {0} /\ Slots \in Nat \ {0} /\ Window \in Nat \ {0} /\ MaxTime \in Nat
      /\ free \in 0 .. Slots /\ clock \in 0 .. MaxTime /\ 0 .. MaxTime \in SUBSET Nat
      /\ IsFiniteSet(Inside) /\ Cardinality(Inside) \in Nat
      /\ free + Cardinality(Inside) = Slots
  <2>1. IsFiniteSet(Inside) /\ Cardinality(Inside) \in Nat
    BY LimiterAssumption, FS_Subset, FS_CardinalityType DEF Inside
  <2>2. free + Cardinality(Inside) = Slots
    BY DEF LimiterInv, SlotsAreKept, Inside
  <2> QED BY <2>1, <2>2, LimiterAssumption DEF LimiterInv, LimiterTypeOK
<1> USE DEF Goes
\* A thread that neither takes a slot nor gives one back.
<1>1. ASSUME NEW t \in Callers, UNCHANGED free, NEW to \in Places, at[t] # "inside", to # "inside",
             at' = [at EXCEPT ![t] = to]
      PROVE  SlotsAreKept' /\ at' \in [Callers -> Places]
  <2>1. Inside' = Inside
    BY <1>0, <1>1 DEF Inside
  <2> QED BY <1>0, <1>1, <2>1 DEF SlotsAreKept, Inside
<1>2. ASSUME NEW t \in Callers, Stamp(t) PROVE LimiterInv'
  <2>1. SlotsAreKept' /\ at' \in [Callers -> Places]
    BY <1>0, <1>1, <1>2 DEF Stamp, Places
  <2>9. RateInv'
    <3>1. \A n \in 0 .. MaxTime : n < clock => Waiting(n)' \subseteq Waiting(n)
      BY <1>0, <1>2 DEF Stamp, Waiting
    <3>2. \A o \in Callers : stamp'[o] <= clock'
      BY <1>0, <1>2 DEF Stamp, RateInv, StampPart
    <3> QED BY <1>0, <1>2, <3>1, <3>2, RateQuiet DEF Stamp
  <2> QED BY <1>0, <1>2, <2>1, <2>9 DEF Stamp, LimiterInv, LimiterTypeOK
<1>3. ASSUME NEW t \in Callers, Reserve(t) PROVE LimiterInv'
  <2> DEFINE kept == Pruned(times, stamp[t])
  <2>1. SlotsAreKept' /\ at' \in [Callers -> Places]
    BY <1>0, <1>1, <1>3 DEF Reserve, Places
  <2>2. kept \in Seq(0 .. MaxTime) /\ Len(kept) < Rate /\ stamp[t] \in 0 .. MaxTime
    <3>1. stamp[t] \in 0 .. MaxTime /\ StampPart
      BY <1>0 DEF RateInv
    <3>2. kept \in Seq(0 .. MaxTime)
      BY <1>0, <3>1, PrunedFacts
    <3> QED BY <1>3, <3>1, <3>2 DEF Reserve
  <2>3. times' = Append(kept, stamp[t])
    BY <1>3 DEF Reserve
  <2> HIDE DEF kept
  <2>4. times' \in Seq(0 .. MaxTime) /\ Len(times') <= Rate
    BY <1>0, <2>2, <2>3
  <2>5. RateInv' /\ entries' \subseteq (0 .. MaxTime) \X Nat
    BY <1>0, <1>3, RateReserve
  <2>6. overtaken' \in BOOLEAN
    BY <1>0, <1>3 DEF Reserve, LimiterTypeOK, Late
  <2> QED BY <1>0, <1>3, <2>1, <2>4, <2>5, <2>6 DEF Reserve, LimiterInv, LimiterTypeOK
<1>4. ASSUME NEW t \in Callers, Refuse(t) PROVE LimiterInv'
  <2>1. SlotsAreKept' /\ at' \in [Callers -> Places]
    BY <1>0, <1>1, <1>4 DEF Refuse, Places
  <2>2. times' \in Seq(0 .. MaxTime) /\ Len(times') <= Len(times) /\ Len(times) \in Nat
    <3>1. stamp[t] \in 0 .. MaxTime /\ StampPart
      BY <1>0 DEF RateInv
    <3>2. /\ Pruned(times, stamp[t]) \in Seq(0 .. MaxTime)
          /\ Len(Pruned(times, stamp[t])) <= Len(times)
      BY <1>0, <3>1, PrunedFacts
    <3>3. times' = Pruned(times, stamp[t])
      BY <1>4 DEF Refuse
    <3>4. Len(times) \in Nat
      BY <1>0 DEF LimiterTypeOK
    <3> QED BY <3>2, <3>3, <3>4
  <2>3. Len(times') <= Rate
    BY <1>0, <2>2 DEF LimiterTypeOK
  <2>4. RateInv'
    BY <1>0, <1>4, RateRefuse
  <2> QED BY <1>0, <1>4, <2>1, <2>2, <2>3, <2>4 DEF Refuse, LimiterInv, LimiterTypeOK
<1>5. ASSUME NEW t \in Callers, Enter(t) PROVE LimiterInv'
  <2>1. at[t] = "queued" /\ at' = [at EXCEPT ![t] = "inside"] /\ free' = free - 1 /\ free > 0
    BY <1>5 DEF Enter
  <2>2. Inside' = Inside \cup {t} /\ t \notin Inside
    BY <1>0, <2>1 DEF Inside
  <2>3. Cardinality(Inside') = Cardinality(Inside) + 1
    BY <1>0, <2>2, FS_AddElement
  <2>4. SlotsAreKept'
    BY <1>0, <2>1, <2>3 DEF SlotsAreKept, Inside
  <2>5. at' \in [Callers -> Places] /\ free' \in 0 .. Slots
    BY <1>0, <2>1 DEF Places
  <2>9. RateInv'
    <3>1. \A n \in 0 .. MaxTime : n < clock => Waiting(n)' \subseteq Waiting(n)
      BY <1>0, <1>5 DEF Enter, Waiting
    <3>2. \A o \in Callers : stamp'[o] <= clock'
      BY <1>0, <1>5 DEF Enter, RateInv, StampPart
    <3> QED BY <1>0, <1>5, <3>1, <3>2, RateQuiet DEF Enter
  <2> QED BY <1>0, <1>5, <2>4, <2>5, <2>9 DEF Enter, LimiterInv, LimiterTypeOK
<1>6. ASSUME NEW t \in Callers, GiveUpSlot(t) PROVE LimiterInv'
  <2>1. SlotsAreKept' /\ at' \in [Callers -> Places]
    BY <1>0, <1>1, <1>6 DEF GiveUpSlot, Places
  <2>9. RateInv'
    <3>1. \A n \in 0 .. MaxTime : n < clock => Waiting(n)' \subseteq Waiting(n)
      BY <1>0, <1>6 DEF GiveUpSlot, Waiting
    <3>2. \A o \in Callers : stamp'[o] <= clock'
      BY <1>0, <1>6 DEF GiveUpSlot, RateInv, StampPart
    <3> QED BY <1>0, <1>6, <3>1, <3>2, RateQuiet DEF GiveUpSlot
  <2> QED BY <1>0, <1>6, <2>1, <2>9 DEF GiveUpSlot, LimiterInv, LimiterTypeOK
<1>7. ASSUME NEW t \in Callers, Leave(t) PROVE LimiterInv'
  <2>1. at[t] = "inside" /\ at' = [at EXCEPT ![t] = "idle"] /\ free' = free + 1
    BY <1>7 DEF Leave
  <2>2. Inside' = Inside \ {t} /\ t \in Inside
    BY <1>0, <2>1 DEF Inside
  <2>3. Cardinality(Inside') = Cardinality(Inside) - 1 /\ Cardinality(Inside') \in Nat
    BY <1>0, <2>2, FS_RemoveElement, FS_CardinalityType
  <2>4. SlotsAreKept'
    BY <1>0, <2>1, <2>3 DEF SlotsAreKept, Inside
  <2>5. at' \in [Callers -> Places] /\ free' \in 0 .. Slots
    BY <1>0, <2>1, <2>3 DEF Places
  <2>9. RateInv'
    <3>1. \A n \in 0 .. MaxTime : n < clock => Waiting(n)' \subseteq Waiting(n)
      BY <1>0, <1>7 DEF Leave, Waiting
    <3>2. \A o \in Callers : stamp'[o] <= clock'
      BY <1>0, <1>7 DEF Leave, RateInv, StampPart
    <3> QED BY <1>0, <1>7, <3>1, <3>2, RateQuiet DEF Leave
  <2> QED BY <1>0, <1>7, <2>4, <2>5, <2>9 DEF Leave, LimiterInv, LimiterTypeOK
<1>8. CASE Elapse
  <2>9. RateInv'
    <3>1. \A n \in 0 .. MaxTime : n < clock => Waiting(n)' \subseteq Waiting(n)
      BY <1>0, <1>8 DEF Elapse, Waiting
    <3>2. \A o \in Callers : stamp'[o] <= clock'
      BY <1>0, <1>8 DEF Elapse, RateInv, StampPart
    <3> QED BY <1>0, <1>8, <3>1, <3>2, RateQuiet DEF Elapse
  <2> QED BY <1>0, <1>8, <2>9 DEF Elapse, LimiterInv, LimiterTypeOK, SlotsAreKept
<1>9. CASE UNCHANGED limiterVars
  <2>9. RateInv'
    <3>1. \A n \in 0 .. MaxTime : Waiting(n)' = Waiting(n)
      BY <1>9 DEF limiterVars, Waiting
    <3>2. \A o \in Callers : stamp'[o] <= clock'
      BY <1>0, <1>9 DEF limiterVars, RateInv, StampPart
    <3> QED BY <1>0, <1>9, <3>1, <3>2, RateQuiet DEF limiterVars
  <2> QED BY <1>0, <1>9, <2>9 DEF limiterVars, LimiterInv, LimiterTypeOK, SlotsAreKept
<1> QED BY <1>2, <1>3, <1>4, <1>5, <1>6, <1>7, <1>8, <1>9 DEF LimiterNext


\* There are no requests and no threads in a slot at the start.
LEMMA LimiterInvInit == LimiterInit => LimiterInv
<1> SUFFICES ASSUME LimiterInit PROVE LimiterInv
  OBVIOUS
<1>0. /\ IsFiniteSet({}) /\ Cardinality({}) = 0
      /\ Rate \in Nat \ {0} /\ Slots \in Nat \ {0} /\ MaxTime \in Nat /\ Cardinality(Callers) \in Nat
  BY LimiterAssumption, FS_EmptySet, FS_CardinalityType
<1>1. LimiterTypeOK
  <2>1. times \in Seq(0 .. MaxTime) /\ Len(times) <= Rate
    BY <1>0 DEF LimiterInit
  <2>2. at \in [Callers -> Places] /\ stamp \in [Callers -> 0 .. MaxTime]
    BY <1>0 DEF LimiterInit, Places
  <2>3. free \in 0 .. Slots /\ clock \in 0 .. MaxTime
    BY <1>0 DEF LimiterInit
  <2>4. overtaken \in BOOLEAN /\ entries \subseteq (0 .. MaxTime) \X Nat
    BY DEF LimiterInit
  <2> QED BY <2>1, <2>2, <2>3, <2>4 DEF LimiterTypeOK
<1>2. SlotsAreKept
  <2>1. {t \in Callers : at[t] = "inside"} = {}
    BY DEF LimiterInit
  <2>2. free = Slots /\ Slots \in Nat
    BY <1>0 DEF LimiterInit
  <2>3. Cardinality({t \in Callers : at[t] = "inside"}) = 0
    BY <1>0, <2>1
  <2>4. free + 0 = Slots
    BY <2>2
  <2> QED BY <2>3, <2>4 DEF SlotsAreKept
<1>3. times = <<>> /\ DOMAIN times = {} /\ entries = {}
  BY DEF LimiterInit
<1>4. NumberPart
  BY <1>0, <1>3 DEF NumberPart
<1>5. StampPart
  BY <1>0, <1>3 DEF LimiterInit, StampPart
<1>6. \A n \in 0 .. MaxTime : Exact(n)
  BY <1>3 DEF Exact, Selected, Counted
<1>7. LatePart
  BY <1>6 DEF LatePart
<1>8. OrderPart
  BY <1>3, <1>6 DEF OrderPart, SortedPart, LastWindowPart, StrictPart
<1> QED BY <1>1, <1>2, <1>4, <1>5, <1>7, <1>8 DEF LimiterInv, RateInv

\* However many threads there are and however they overtake each other and time out: no
\* window holds more requests than the limit, or, once a thread was overtaken, than the
\* limit and one for each of the other threads; and every slot is free or used by one
\* action.
THEOREM LimitsStayKept == LimiterSpec => [](LimiterTypeOK /\ LimitsAreKept)
<1>1. LimiterInv => LimiterTypeOK /\ LimitsAreKept
  <2> SUFFICES ASSUME LimiterInv PROVE LimiterTypeOK /\ LimitsAreKept
    OBVIOUS
  <2>1. LimiterTypeOK /\ SlotsAreKept /\ LatePart /\ OrderPart /\ NumberPart
    BY DEF LimiterInv, RateInv
  <2>2. RateIsKept
    <3> SUFFICES ASSUME NEW e \in entries
                 PROVE  Cardinality(Selected(entries, WindowOf(e[1])))
                            <= IF overtaken THEN Rate + Cardinality(Callers) - 1 ELSE Rate
      BY DEF RateIsKept, InWindow, Selected, WindowOf
    <3>1. CASE ~ overtaken
      BY <2>1, <3>1 DEF OrderPart, StrictPart
    <3>2. CASE overtaken
      <4> DEFINE n == e[1]
      <4>1. n \in 0 .. MaxTime
        BY <2>1 DEF LimiterTypeOK
      <4>2. /\ Cardinality(Selected(entries, WindowOf(n))) \in Nat
            /\ Cardinality(Callers) \in Nat \ {0} /\ Rate \in Nat
            /\ Cardinality(Waiting(n)) \in Nat
        <5>1. IsFiniteSet(entries) /\ Selected(entries, WindowOf(n)) \in SUBSET entries
          BY <2>1 DEF NumberPart, Selected
        <5>2. Cardinality(Selected(entries, WindowOf(n))) \in Nat
          BY <5>1, FS_Subset, FS_CardinalityType
        <5>3. Waiting(n) \in SUBSET Callers
          BY DEF Waiting
        <5>4. Cardinality(Waiting(n)) \in Nat /\ Cardinality(Callers) \in Nat \ {0}
          BY <5>3, SomeCallers
        <5> QED BY <5>2, <5>4, LimiterAssumption
      <4> HIDE DEF n
      <4>3. CASE Exact(n)
        <5>1. times \in Seq(0 .. MaxTime) /\ 0 .. MaxTime \in SUBSET Nat /\ Len(times) <= Rate /\ Len(times) \in Nat
          BY <2>1, LimiterAssumption DEF LimiterTypeOK
        <5>2. times \in Seq(Nat)
          BY <5>1, SeqOfNat
        <5>3. Cardinality(Counted(times, WindowOf(n))) \in 0 .. Len(times)
          BY <5>2, CountLen
        <5>4. Cardinality(Selected(entries, WindowOf(n))) <= Rate + Cardinality(Callers) - 1
          BY <4>2, <4>3, <5>1, <5>3 DEF Exact
        <5> QED BY <3>2, <5>4 DEF n
      <4>4. CASE ~ Exact(n)
        <5>1. Cardinality(Selected(entries, WindowOf(n))) + Cardinality(Waiting(n)) <= Rate + Cardinality(Callers) - 1
          BY <2>1, <4>1, <4>4 DEF LatePart
        <5>2. Cardinality(Selected(entries, WindowOf(n))) <= Rate + Cardinality(Callers) - 1
          BY <4>2, <5>1
        <5> QED BY <3>2, <5>2 DEF n
      <4> QED BY <4>3, <4>4
    <3> QED BY <3>1, <3>2
  <2> QED BY <2>1, <2>2 DEF LimitsAreKept
<1> QED BY <1>1, LimiterInvInit, LimiterInvNext, PTL DEF LimiterSpec

-----------------------------------------------------------------------------
\* Bootstrap.

Works(p) == pc[p] \in Building \cup Switching
Owns(p) == pc[p] \in {"build", "smoke", "mark", "cleanup"}

\* A directory that is being made is its maker's alone, until it is marked.
OwnedPart ==
    \A p \in Installers : Owns(p) =>
        /\ release[job[p].v].mark = None /\ release[job[p].v].env # Absent
        /\ pc[p] \in {"smoke", "mark"} => release[job[p].v].env = job[p].d
        /\ \A q \in Installers : Owns(q) /\ job[q].v = job[p].v => q = p

\* A mark is that of the wheel that is there, and whoever is to switch to a version
\* has seen its mark.
MarkPart ==
    /\ \A v \in Versions : release[v].mark # None => release[v].env = release[v].mark
    /\ \A p \in Installers :
          pc[p] \in {"try", "launch", "record"} => release[job[p].v].mark = job[p].d

\* A manifest has a digest of what is marked only, and one of its current version;
\* without one it is empty.
Faithful(man, rel) ==
    /\ \A v \in Versions : man.digests[v] # None => rel[v].mark = man.digests[v]
    /\ man.current # None => man.digests[man.current] # None
    /\ man.current = None => man.history = <<>>

ManifestPart ==
    /\ Faithful(manifest, release)
    /\ \A p \in Installers : Works(p) =>
          /\ Faithful(job[p].man, release)
          /\ job[p].op = "rollback" =>
                /\ job[p].man.history # <<>> /\ job[p].v = Last(job[p].man.history)
                /\ job[p].man.digests[job[p].v] # None

\* What a rollback would go to.
Undoes(man, old) ==
    old # None => man.history # <<>> /\ Last(man.history) = old /\ man.digests[old] # None

\* Unless it was torn: one installer at most is between launcher and manifest, and
\* the manifest it will write is one of the launcher.
TogetherPart ==
    ~ torn =>
        /\ \A p, q \in Installers : Midway(p) /\ Midway(q) => p = q
        /\ (\A p \in Installers : ~ Midway(p)) => manifest.current = launcher /\ Undoes(manifest, before)
        /\ \A p \in Installers :
              /\ pc[p] = "record" =>
                    /\ launcher = job[p].v
                    /\ before # None => /\ job[p].op = "install" /\ job[p].man.current = before
                                        /\ before # job[p].v
              /\ pc[p] = "forget" => launcher = None /\ before = None

BootInv == TypeOK /\ OwnedPart /\ MarkPart /\ ManifestPart /\ TogetherPart /\ LauncherWorks

-----------------------------------------------------------------------------
(* The sequences of a manifest.                                            *)

\* Every number up to the size of a set of numbers is the rank of one of them.
LEMMA RankExists ==
  ASSUME NEW n \in Nat, NEW K \in SUBSET (1 .. n), NEW r \in 1 .. Cardinality(K)
  PROVE  \E i \in K : Cardinality({j \in K : j <= i}) = r
<1> DEFINE C(i) == {j \in K : j <= i}
           T == {i \in 0 .. n : Cardinality(C(i)) >= r}
<1>0. IsFiniteSet(1 .. n)
  BY FS_Interval
<1>1. IsFiniteSet(K) /\ Cardinality(K) \in Nat
  BY <1>0, FS_Subset, FS_CardinalityType
<1>2. \A i \in 0 .. n : IsFiniteSet(C(i)) /\ Cardinality(C(i)) \in Nat
  <2> SUFFICES ASSUME NEW i \in 0 .. n PROVE IsFiniteSet(C(i)) /\ Cardinality(C(i)) \in Nat
    OBVIOUS
  <2>1. C(i) \in SUBSET K
    OBVIOUS
  <2> HIDE DEF C
  <2> QED BY <1>1, <2>1, FS_Subset, FS_CardinalityType
<1>3. C(n) = K
  <2>1. \A j \in K : j <= n
    OBVIOUS
  <2> QED BY <2>1
<1>4. C(0) = {}
  <2>1. \A j \in K : ~ (j <= 0)
    OBVIOUS
  <2> QED BY <2>1
<1>5. ASSUME NEW i \in 1 .. n
      PROVE  C(i) = IF i \in K THEN C(i - 1) \cup {i} ELSE C(i - 1)
  <2>1. \A j \in K : j <= i <=> j <= i - 1 \/ j = i
    OBVIOUS
  <2> QED BY <2>1
<1>6. \A i \in 1 .. n : i \notin C(i - 1)
  OBVIOUS
<1> HIDE DEF C
<1>7. n \in T /\ 0 \notin T /\ T \in SUBSET Nat
  BY <1>1, <1>3, <1>4, FS_EmptySet
<1>8. PICK i \in T : \A k \in T : i <= k
  BY <1>7, LeastNat
<1>9. i \in 1 .. n /\ i - 1 \in 0 .. n /\ i - 1 \notin T
  BY <1>7, <1>8
<1>10. Cardinality(C(i - 1)) < r /\ Cardinality(C(i)) >= r
  BY <1>2, <1>8, <1>9
<1>11. i \in K
  BY <1>2, <1>5, <1>9, <1>10
<1>12. Cardinality(C(i)) = Cardinality(C(i - 1)) + 1
  BY <1>2, <1>5, <1>6, <1>9, <1>11, FS_AddElement
<1>13. Cardinality(C(i)) = r
  BY <1>2, <1>9, <1>10, <1>12
<1> QED BY <1>11, <1>13 DEF C

\* What is kept of a history is one.
LEMMA WithoutType ==
  ASSUME NEW S, NEW s \in Seq(S), NEW x
  PROVE  Without(s, x) \in Seq(S)
<1> DEFINE kept == {i \in DOMAIN s : s[i] # x}
           Rank(i) == Cardinality({j \in kept : j <= i})
           n == Cardinality(kept)
<1>1. kept \in SUBSET (1 .. Len(s)) /\ Len(s) \in Nat
  OBVIOUS
<1>2. n \in Nat
  <2> HIDE DEF kept
  <2>1. IsFiniteSet(1 .. Len(s))
    BY <1>1, FS_Interval
  <2> QED BY <1>1, <2>1, FS_Subset, FS_CardinalityType
<1>3. \A r \in 1 .. n : \E i \in kept : Rank(i) = r
  <2> HIDE DEF kept
  <2> QED BY <1>1, RankExists
<1>4. \A i \in kept : s[i] \in S
  OBVIOUS
<1>5. Without(s, x) = [r \in 1 .. n |-> s[CHOOSE i \in kept : Rank(i) = r]]
  BY DEF Without
<1> HIDE DEF kept, Rank
<1>6. \A r \in 1 .. n : s[CHOOSE i \in kept : Rank(i) = r] \in S
  BY <1>3, <1>4
<1> HIDE DEF n
<1> QED BY <1>2, <1>5, <1>6, IsASeq

\* What is kept of a history: its end.
LEMMA LatestEnds ==
  ASSUME NEW S, NEW s \in Seq(S)
  PROVE  /\ Latest(s) \in Seq(S) /\ Len(Latest(s)) <= HistoryLimit
         /\ s # <<>> => Latest(s) # <<>> /\ Last(Latest(s)) = Last(s)
<1>1. HistoryLimit \in Nat \ {0} /\ Len(s) \in Nat
  BY BootstrapAssumption
<1>2. CASE Len(s) <= HistoryLimit
  BY <1>1, <1>2 DEF Latest
<1>3. CASE Len(s) > HistoryLimit
  <2> DEFINE m == Len(s) - HistoryLimit + 1
             t == SubSeq(s, m, Len(s))
  <2>1. m \in 1 .. Len(s) /\ Latest(s) = t
    BY <1>1, <1>3 DEF Latest
  <2>2. /\ t \in Seq(S) /\ Len(t) = HistoryLimit
        /\ \A i \in 1 .. HistoryLimit : t[i] = s[m + i - 1]
    BY <1>1, <1>3, <2>1, SubSeqProperties
  <2> HIDE DEF t
  <2>3. HistoryLimit \in 1 .. HistoryLimit /\ m + HistoryLimit - 1 = Len(s)
    BY <1>1
  <2>4. t[HistoryLimit] = s[Len(s)]
    BY <2>2, <2>3
  <2> QED BY <1>1, <2>1, <2>2, <2>4 DEF Last
<1> QED BY <1>1, <1>2, <1>3
-----------------------------------------------------------------------------
(* The manifests.                                                          *)

\* What an upgrade writes: the version it replaces is the last of the history.
LEMMA InstalledEnds ==
  ASSUME NEW man \in Manifests, NEW v \in Versions, NEW d \in Digests
  PROVE  /\ Installed(man, v, d) \in Manifests
         /\ Len(Installed(man, v, d).history) <= HistoryLimit
         /\ Installed(man, v, d).current = v
         /\ Installed(man, v, d).digests = [man.digests EXCEPT ![v] = d]
         /\ man.current \notin {None, v} =>
               /\ Installed(man, v, d).history # <<>>
               /\ Last(Installed(man, v, d).history) = man.current
<1> DEFINE kept == Without(man.history, man.current)
           full == Append(kept, man.current)
           long == IF man.current \in {None, v} THEN man.history ELSE full
           man2 == Installed(man, v, d)
<1>1. /\ man.history \in Seq(Versions) /\ man.current \in Versions \cup {None}
      /\ man.digests \in [Versions -> Digests \cup {None}]
  BY DEF Manifests
<1>2. kept \in Seq(Versions)
  BY <1>1, WithoutType
<1> HIDE DEF kept
<1>3. man.current \notin {None, v} =>
        full \in Seq(Versions) /\ full # <<>> /\ Last(full) = man.current
  BY <1>1, <1>2 DEF Last
<1> HIDE DEF full
<1>4. long \in Seq(Versions)
  BY <1>1, <1>3
<1>5. /\ Latest(long) \in Seq(Versions) /\ Len(Latest(long)) <= HistoryLimit
      /\ long # <<>> => Latest(long) # <<>> /\ Last(Latest(long)) = Last(long)
  BY <1>4, LatestEnds
<1>6. man2 = [current |-> v, history |-> Latest(long), digests |-> [man.digests EXCEPT ![v] = d]]
  BY DEF Installed, full, kept
<1>7. [man.digests EXCEPT ![v] = d] \in [Versions -> Digests \cup {None}]
  BY <1>1
<1>8. man2 \in Manifests
  BY <1>5, <1>6, <1>7 DEF Manifests
<1>9. /\ man2.current = v /\ man2.history = Latest(long)
      /\ man2.digests = [man.digests EXCEPT ![v] = d]
  BY <1>6
<1> HIDE DEF man2
<1>10. man.current \notin {None, v} => man2.history # <<>> /\ Last(man2.history) = man.current
  BY <1>3, <1>5, <1>9
<1> QED BY <1>5, <1>8, <1>9, <1>10 DEF man2

\* ... and a rollback.
LEMMA RolledBackType ==
  ASSUME NEW man \in Manifests, man.history # <<>>, man.current # None
  PROVE  /\ RolledBack(man) \in Manifests
         /\ Len(RolledBack(man).history) <= HistoryLimit
         /\ RolledBack(man).current = Last(man.history)
         /\ RolledBack(man).digests = man.digests
<1> DEFINE v == Last(man.history)
           left == Front(man.history)
           full == <<man.current>> \o left
           long == IF man.current = v THEN left ELSE full
<1>1. /\ man.history \in Seq(Versions) /\ man.current \in Versions
      /\ man.digests \in [Versions -> Digests \cup {None}]
  BY DEF Manifests
<1>2. v \in Versions
  BY <1>1 DEF Last
<1>3. left \in Seq(Versions)
  BY <1>1 DEF Front
<1>4. full \in Seq(Versions)
  <2> HIDE DEF left
  <2>1. <<man.current>> \in Seq(Versions)
    BY <1>1
  <2> QED BY <1>3, <2>1
<1> HIDE DEF v, left, full
<1>5. long \in Seq(Versions)
  BY <1>3, <1>4
<1>6. Latest(long) \in Seq(Versions) /\ Len(Latest(long)) <= HistoryLimit
  BY <1>5, LatestEnds
<1>7. RolledBack(man) = [current |-> v, history |-> Latest(long), digests |-> man.digests]
  BY DEF RolledBack, v, left, full
<1> HIDE DEF long
<1>8. RolledBack(man) \in Manifests
  BY <1>1, <1>2, <1>6, <1>7 DEF Manifests
<1> QED BY <1>6, <1>7, <1>8 DEF v

-----------------------------------------------------------------------------
(* The types.                                                              *)

BootPcs == {"idle", "forget"} \cup Building \cup Switching

PlacesTyped ==
    /\ pc \in [Installers -> BootPcs]
    /\ DOMAIN job = Installers
    /\ \A p \in Installers :
          IF pc[p] \in {"idle", "forget"} THEN job[p] = NoJob ELSE job[p] \in Jobs

\* An installer that works has a job.
LEMMA WorkerFacts ==
  ASSUME TypeOK, NEW p \in Installers, Works(p)
  PROVE  /\ job[p] \in Jobs /\ job[p].v \in Versions /\ job[p].d \in Digests
         /\ job[p].man \in Manifests /\ job[p].op \in {"install", "rollback"}
<1>1. job[p] \in Jobs
  BY DEF TypeOK, Works, Building, Switching
<1> QED BY <1>1 DEF Jobs

\* An installer goes on, with the job it has, a new one, or none.
LEMMA PlacesStep ==
  ASSUME TypeOK, NEW p \in Installers, NEW to \in BootPcs, pc' = [pc EXCEPT ![p] = to],
         \/ job' = job
         \/ \E j : job' = [job EXCEPT ![p] = j],
         IF to \in {"idle", "forget"} THEN job'[p] = NoJob ELSE job'[p] \in Jobs
  PROVE  PlacesTyped'
<1>1. PlacesTyped
  BY DEF TypeOK, PlacesTyped, BootPcs
<1>2. pc' \in [Installers -> BootPcs] /\ pc'[p] = to
      /\ \A q \in Installers \ {p} : pc'[q] = pc[q]
  BY <1>1 DEF PlacesTyped
<1>3. DOMAIN job' = Installers /\ \A q \in Installers \ {p} : job'[q] = job[q]
  BY <1>1 DEF PlacesTyped
<1>4. ASSUME NEW q \in Installers
      PROVE  IF pc'[q] \in {"idle", "forget"} THEN job'[q] = NoJob ELSE job'[q] \in Jobs
  <2>1. CASE q = p
    BY <1>2, <2>1
  <2>2. CASE q # p
    BY <1>1, <1>2, <1>3, <2>2 DEF PlacesTyped
  <2> QED BY <2>1, <2>2
<1> QED BY <1>2, <1>3, <1>4 DEF PlacesTyped

\* Every step keeps the types.
LEMMA BootTypeNext ==
  ASSUME BootInv, [Next]_vars
  PROVE  TypeOK'
<1> USE DEF Goto, SetRelease
<1>0. /\ TypeOK /\ PlacesTyped /\ release \in [Versions -> Releases]
      /\ NoRelease \in Releases /\ [NoRelease EXCEPT !.env = Part] \in Releases
      /\ NoManifest \in Manifests /\ NoManifest.history = <<>> /\ manifest \in Manifests
      /\ HistoryLimit \in Nat
  <2>1. manifest \in Manifests
    BY DEF BootInv, TypeOK
  <2>2. NoManifest \in Manifests
    BY DEF NoManifest, Manifests
  <2> QED BY <2>1, <2>2, BootstrapAssumption
       DEF BootInv, TypeOK, PlacesTyped, BootPcs, NoRelease, Releases, NoManifest
\* A step that writes no file, and one that writes a directory.
<1>1. ASSUME NEW p \in Installers, PlacesTyped', UNCHANGED <<launcher, manifest>>,
             torn' \in BOOLEAN, before' \in Versions \cup {None},
             release' \in [Versions -> Releases]
      PROVE  TypeOK'
  BY <1>0, <1>1 DEF TypeOK, PlacesTyped, BootPcs
<1>2. ASSUME NEW p \in Installers, NEW from, NEW to \in BootPcs \ {"idle", "forget"},
             Works(p), Goto(p, from, to), UNCHANGED job
      PROVE  PlacesTyped'
  BY <1>0, <1>2, WorkerFacts, PlacesStep
<1>3. ASSUME NEW p \in Installers, NEW to \in {"idle", "forget"}, pc' = [pc EXCEPT ![p] = to],
             job' = [job EXCEPT ![p] = NoJob] \/ (UNCHANGED job /\ pc[p] = "idle")
      PROVE  PlacesTyped'
  <2>1. job'[p] = NoJob
    BY <1>0, <1>3 DEF PlacesTyped
  <2> QED BY <1>0, <1>3, <2>1, PlacesStep DEF BootPcs
<1>4. ASSUME NEW p \in Installers, NEW to \in BootPcs \ {"idle", "forget"}, NEW j \in Jobs,
             Start(p, to, j)
      PROVE  PlacesTyped'
  <2>1. job'[p] = j /\ pc' = [pc EXCEPT ![p] = to] /\ job' = [job EXCEPT ![p] = j]
    BY <1>0, <1>4 DEF Start, PlacesTyped
  <2> QED BY <1>0, <1>4, <2>1, PlacesStep
<1>5. torn \in BOOLEAN /\ before \in Versions \cup {None}
  BY <1>0 DEF TypeOK
<1> USE DEF Building, Switching, Works, BootPcs
<1>6. ASSUME NEW p \in Installers, NEW v \in Versions, NEW d \in Digests, Install(p, v, d)
      PROVE  TypeOK'
  <2> DEFINE j == [op |-> "install", v |-> v, d |-> d, man |-> manifest]
  <2>1. j \in Jobs
    BY <1>0 DEF Jobs
  <2> HIDE DEF j
  <2>2. PlacesTyped'
    BY <1>4, <1>6, <2>1 DEF Install, j
  <2> QED BY <1>0, <1>1, <1>5, <1>6, <2>2 DEF Install
<1>7. ASSUME NEW p \in Installers, Rollback(p) PROVE TypeOK'
  <2> DEFINE v == Last(manifest.history)
             j == [op |-> "rollback", v |-> v, d |-> manifest.digests[v], man |-> manifest]
  <2>1. v \in Versions
    BY <1>0, <1>7 DEF Rollback, Manifests, Last
  <2>2. manifest.digests[v] \in Digests
    BY <1>0, <1>7, <2>1 DEF Rollback, Manifests
  <2>3. j \in Jobs
    BY <1>0, <2>1, <2>2 DEF Jobs
  <2>4. Start(p, "verify", j)
    BY <1>7 DEF Rollback
  <2> HIDE DEF j
  <2>5. PlacesTyped'
    BY <1>4, <2>3, <2>4
  <2> QED BY <1>0, <1>1, <1>5, <1>7, <2>5 DEF Rollback
<1>8. ASSUME NEW p \in Installers, MakeTarget(p) \/ Build(p) \/ Mark(p) PROVE TypeOK'
  <2>1. Works(p) /\ job[p].v \in Versions /\ job[p].d \in Digests
    BY <1>0, <1>8, WorkerFacts DEF MakeTarget, Build, Mark
  <2>2. PlacesTyped'
    BY <1>2, <1>8, <2>1 DEF MakeTarget, Build, Mark
  <2>3. PICK r : release' = [release EXCEPT ![job[p].v] = r]
                 /\ (r = [NoRelease EXCEPT !.env = Part]
                      \/ r = [release[job[p].v] EXCEPT !.env = job[p].d]
                      \/ r = [release[job[p].v] EXCEPT !.mark = job[p].d])
    BY <1>8 DEF MakeTarget, Build, Mark
  <2>4. release[job[p].v] \in Releases
    BY <1>0, <2>1
  <2>5. r \in Releases
    BY <1>0, <2>1, <2>3, <2>4 DEF Releases
  <2>6. release' \in [Versions -> Releases]
    BY <1>0, <2>1, <2>3, <2>5
  <2> QED BY <1>1, <1>5, <1>8, <2>2, <2>6 DEF MakeTarget, Build, Mark
<1>9. ASSUME NEW p \in Installers, Smoke(p) \/ Verify(p) PROVE TypeOK'
  <2>1. PlacesTyped'
    BY <1>2, <1>9 DEF Smoke, Verify
  <2> QED BY <1>0, <1>1, <1>5, <1>9, <2>1 DEF Smoke, Verify
<1>10. ASSUME NEW p \in Installers, CleanUp(p) PROVE TypeOK'
  <2>1. PlacesTyped'
    BY <1>3, <1>10 DEF CleanUp
  <2>2. release' \in [Versions -> Releases]
    BY <1>0, <1>10 DEF CleanUp
  <2> QED BY <1>1, <1>5, <1>10, <2>1, <2>2 DEF CleanUp
<1>11. ASSUME NEW p \in Installers, Launch(p) PROVE TypeOK'
  <2>1. PlacesTyped'
    BY <1>2, <1>11 DEF Launch
  <2>2. job[p].v \in Versions
    BY <1>0, <1>11, WorkerFacts DEF Launch
  <2>3. launcher' \in Versions \cup {None} /\ before' \in Versions \cup {None}
        /\ torn' \in BOOLEAN
    BY <1>0, <1>11, <2>2 DEF Launch, TypeOK, Overlaps
  <2> QED BY <1>0, <1>11, <2>1, <2>3 DEF Launch, TypeOK, PlacesTyped
<1>12. ASSUME NEW p \in Installers, Record(p) PROVE TypeOK'
  <2>1. PlacesTyped'
    BY <1>3, <1>12 DEF Record
  <2>2. /\ pc[p] = "record" /\ Works(p) /\ job[p].v \in Versions /\ job[p].d \in Digests
        /\ job[p].man \in Manifests /\ job[p].op \in {"install", "rollback"}
    BY <1>0, <1>12, WorkerFacts DEF Record
  <2>3. job[p].op = "rollback" => job[p].man.history # <<>> /\ job[p].man.current # None
    BY <2>2 DEF BootInv, ManifestPart, Faithful
  <2>4. manifest' \in Manifests /\ Len(manifest'.history) <= HistoryLimit
    <3>1. CASE job[p].op = "install"
      BY <1>12, <2>2, <3>1, InstalledEnds DEF Record
    <3>2. CASE job[p].op = "rollback"
      BY <1>12, <2>2, <2>3, <3>2, RolledBackType DEF Record
    <3> QED BY <2>2, <3>1, <3>2
  <2> QED BY <1>0, <1>12, <2>1, <2>4 DEF Record, TypeOK, PlacesTyped
<1>13. ASSUME NEW p \in Installers, Uninstall(p) PROVE TypeOK'
  <2>1. PlacesTyped'
    BY <1>3, <1>13 DEF Uninstall
  <2> QED BY <1>0, <1>13, <2>1 DEF Uninstall, TypeOK, PlacesTyped, Overlaps
<1>14. ASSUME NEW p \in Installers, Forget(p) PROVE TypeOK'
  <2>1. PlacesTyped'
    BY <1>0, <1>14, PlacesStep DEF Forget, PlacesTyped
  <2>2. Len(manifest'.history) <= HistoryLimit /\ manifest' \in Manifests
    BY <1>0, <1>14 DEF Forget
  <2> QED BY <1>0, <1>14, <2>1, <2>2 DEF Forget, TypeOK, PlacesTyped
<1>15. ASSUME NEW p \in Installers, Fail(p) \/ Kill(p) PROVE TypeOK'
  <2>1. PlacesTyped'
    <3>1. CASE Fail(p) /\ pc[p] \in {"build", "smoke", "mark"}
      BY <1>2, <3>1 DEF Fail
    <3>2. CASE pc' = [pc EXCEPT ![p] = "idle"] /\ job' = [job EXCEPT ![p] = NoJob]
      BY <1>3, <3>2
    <3> QED BY <1>15, <3>1, <3>2 DEF Fail, Kill
  <2>2. torn' \in BOOLEAN
    BY <1>5, <1>15 DEF Fail, Kill, Midway
  <2> QED BY <1>0, <1>1, <1>5, <1>15, <2>1, <2>2 DEF Fail, Kill
<1>16. ASSUME NEW v \in Versions, ClearAway(v) PROVE TypeOK'
  <2>1. release' \in [Versions -> Releases]
    BY <1>0, <1>16 DEF ClearAway
  <2> QED BY <1>0, <1>5, <1>16, <2>1 DEF ClearAway, TypeOK
<1>17. CASE UNCHANGED vars
  BY <1>0, <1>17 DEF vars, TypeOK
<1> QED
  BY <1>6, <1>7, <1>8, <1>9, <1>10, <1>11, <1>12, <1>13, <1>14, <1>15, <1>16, <1>17 DEF Next

-----------------------------------------------------------------------------
(* The directories.                                                        *)

\* A mark stays: who makes or removes a directory does so while it has none.
LEMMA MarksStay ==
  ASSUME BootInv, [Next]_vars, NEW v \in Versions, release[v].mark # None
  PROVE  release'[v] = release[v]
<1> USE DEF Goto, SetRelease
<1>0. release \in [Versions -> Releases] /\ NoRelease.mark = None
  BY DEF BootInv, TypeOK, NoRelease
<1>1. ASSUME NEW p \in Installers, MakeTarget(p) PROVE release'[v] = release[v]
  BY <1>0, <1>1 DEF MakeTarget
<1>2. ASSUME NEW p \in Installers, Build(p) \/ Mark(p) \/ CleanUp(p)
      PROVE  release'[v] = release[v]
  <2>1. Owns(p)
    BY <1>2 DEF Build, Mark, CleanUp, Owns
  <2>2. job[p].v # v
    BY <2>1 DEF BootInv, OwnedPart
  <2> QED BY <1>0, <1>2, <2>2 DEF Build, Mark, CleanUp
<1>3. ASSUME NEW w \in Versions, ClearAway(w) PROVE release'[v] = release[v]
  BY <1>0, <1>3 DEF ClearAway
<1>4. CASE UNCHANGED release
  BY <1>4
<1> QED
  BY <1>1, <1>2, <1>3, <1>4
  DEF Next, vars, Install, Smoke, Verify, Rollback, Launch, Record, Uninstall, Forget, Fail, Kill

\* Every step leaves a directory that is being made to its maker.
LEMMA OwnedPartNext ==
  ASSUME BootInv, [Next]_vars
  PROVE  OwnedPart'
<1> USE DEF Goto, SetRelease, Owns
<1>0. /\ TypeOK /\ OwnedPart /\ release \in [Versions -> Releases]
      /\ pc \in [Installers -> BootPcs] /\ DOMAIN job = Installers
      /\ Absent \notin Digests /\ Absent # Part
      /\ NoRelease.mark = None /\ NoRelease.env = Absent
  BY BootstrapAssumption DEF BootInv, TypeOK, BootPcs, NoRelease, Absent, Part
<1>1. ASSUME UNCHANGED release,
             \A q \in Installers : Owns(q)' =>
                 /\ Owns(q) /\ job'[q] = job[q]
                 /\ pc'[q] \in {"smoke", "mark"} => pc[q] \in {"smoke", "mark"}
      PROVE  OwnedPart'
  BY <1>0, <1>1 DEF OwnedPart
<1>2. ASSUME NEW p \in Installers,
             \/ \E v \in Versions, d \in Digests : Install(p, v, d)
             \/ Smoke(p) \/ Verify(p) \/ Rollback(p) \/ Launch(p) \/ Record(p)
             \/ Uninstall(p) \/ Forget(p) \/ Fail(p) \/ Kill(p)
      PROVE  OwnedPart'
  <2>1. UNCHANGED release
    BY <1>2 DEF Install, Smoke, Verify, Rollback, Launch, Record, Uninstall, Forget, Fail, Kill
  <2>2. \A q \in Installers \ {p} : pc'[q] = pc[q] /\ job'[q] = job[q]
    BY <1>0, <1>2
    DEF Install, Start, Smoke, Verify, Rollback, Launch, Record, Uninstall, Forget, Fail, Kill
  <2>3. Owns(p)' => /\ Owns(p) /\ job'[p] = job[p]
                    /\ pc'[p] \in {"smoke", "mark"} => pc[p] \in {"smoke", "mark"}
    BY <1>0, <1>2
    DEF Install, Start, Smoke, Verify, Rollback, Launch, Record, Uninstall, Forget, Fail, Kill
  <2> QED BY <1>1, <2>1, <2>2, <2>3
\* A step of one maker leaves the others theirs.
<1>3. ASSUME NEW p \in Installers, MakeTarget(p) \/ Build(p) \/ Mark(p) \/ CleanUp(p)
      PROVE  OwnedPart'
  <2> DEFINE v == job[p].v
  <2>1. /\ Works(p) /\ v \in Versions /\ job[p].d \in Digests
        /\ \A q \in Installers \ {p} : pc'[q] = pc[q] /\ job'[q] = job[q]
        /\ \A w \in Versions \ {v} : release'[w] = release[w]
    BY <1>0, <1>3, WorkerFacts
    DEF MakeTarget, Build, Mark, CleanUp, Works, Building, Switching
  <2>2. \A q \in Installers \ {p} : Owns(q) => job[q].v \in Versions \ {v}
    <3>1. \A q \in Installers : Owns(q) => job[q].v \in Versions
      BY <1>0, WorkerFacts DEF Works, Building
    <3>2. ASSUME NEW q \in Installers \ {p}, Owns(q) PROVE job[q].v # v
      <4>1. CASE MakeTarget(p)
        BY <1>0, <3>2, <4>1 DEF MakeTarget, OwnedPart
      <4>2. CASE Build(p) \/ Mark(p) \/ CleanUp(p)
        BY <1>0, <3>2, <4>2 DEF Build, Mark, CleanUp, OwnedPart
      <4> QED BY <1>3, <4>1, <4>2
    <3> QED BY <3>1, <3>2
  <2>3. ASSUME NEW q \in Installers \ {p}, Owns(q)
        PROVE  /\ release'[job[q].v] = release[job[q].v] /\ release[job[q].v].mark = None
               /\ release[job[q].v].env # Absent
               /\ pc[q] \in {"smoke", "mark"} => release[job[q].v].env = job[q].d
    BY <1>0, <2>1, <2>2, <2>3 DEF OwnedPart
  <2>4. Owns(p)' => /\ job'[p] = job[p] /\ release'[v].mark = None /\ release'[v].env # Absent
                    /\ pc'[p] \in {"smoke", "mark"} => release'[v].env = job[p].d
    <3>1. CASE MakeTarget(p)
      <4>1. pc'[p] = "build" /\ job' = job /\ release'[v] = [NoRelease EXCEPT !.env = Part]
        BY <1>0, <2>1, <3>1 DEF MakeTarget
      <4>2. release'[v].mark = None /\ release'[v].env = Part
        BY <4>1 DEF NoRelease
      <4> QED BY <1>0, <4>1, <4>2
    <3>2. CASE Build(p)
      <4>1. pc'[p] = "smoke" /\ job' = job
            /\ release'[v] = [release[v] EXCEPT !.env = job[p].d] /\ release[v].mark = None
        BY <1>0, <2>1, <3>2 DEF Build, OwnedPart
      <4>2. release'[v].mark = None /\ release'[v].env = job[p].d
        BY <1>0, <2>1, <4>1 DEF Releases
      <4> QED BY <1>0, <2>1, <4>1, <4>2
    <3>3. CASE Mark(p) \/ CleanUp(p)
      BY <1>0, <3>3 DEF Mark, CleanUp
    <3> QED BY <1>3, <3>1, <3>2, <3>3
  <2>5. ASSUME NEW q \in Installers, Owns(q)'
        PROVE  /\ job'[q] = job[q] /\ release'[job[q].v].mark = None
               /\ release'[job[q].v].env # Absent
               /\ pc'[q] \in {"smoke", "mark"} => release'[job[q].v].env = job[q].d
               /\ q # p => Owns(q) /\ job[q].v # v
    <3>1. CASE q = p
      BY <2>4, <2>5, <3>1
    <3>2. CASE q # p
      <4>1. Owns(q)
        BY <2>1, <2>5, <3>2
      <4> QED BY <2>1, <2>2, <2>3, <3>2, <4>1
    <3> QED BY <3>1, <3>2
  <2>6. ASSUME NEW q \in Installers, NEW r \in Installers, Owns(q)', Owns(r)',
               job'[q].v = job'[r].v
        PROVE  q = r
    <3>1. job[q].v = job[r].v
      BY <2>5, <2>6
    <3>2. CASE q = p \/ r = p
      BY <2>5, <2>6, <3>1, <3>2
    <3>3. CASE q # p /\ r # p
      <4>1. Owns(q) /\ Owns(r)
        BY <2>5, <2>6, <3>3
      <4> QED BY <1>0, <3>1, <4>1 DEF OwnedPart
    <3> QED BY <3>2, <3>3
  <2> HIDE DEF v, Owns
  <2> QED BY <2>5, <2>6 DEF OwnedPart
<1>4. ASSUME NEW v \in Versions, ClearAway(v) PROVE OwnedPart'
  BY <1>0, <1>4 DEF ClearAway, OwnedPart
<1>5. CASE UNCHANGED vars
  BY <1>1, <1>5 DEF vars
<1> QED BY <1>2, <1>3, <1>4, <1>5 DEF Next

\* Every step leaves the marked releases whole.
LEMMA MarkPartNext ==
  ASSUME BootInv, [Next]_vars
  PROVE  MarkPart'
<1> USE DEF Goto, SetRelease
<1>0. /\ TypeOK /\ MarkPart /\ release \in [Versions -> Releases]
      /\ pc \in [Installers -> BootPcs] /\ DOMAIN job = Installers
      /\ None \notin Digests
  BY BootstrapAssumption DEF BootInv, TypeOK, BootPcs
<1>1. ASSUME NEW v \in Versions, release'[v].mark # None
      PROVE  release'[v].env = release'[v].mark
  <2>1. CASE release[v].mark # None
    BY <1>0, <2>1, MarksStay DEF MarkPart
  <2>2. CASE release[v].mark = None
    <3>1. release'[v] # release[v]
      BY <1>1, <2>2
    <3>2. ASSUME NEW p \in Installers, MakeTarget(p) \/ Build(p) \/ CleanUp(p) PROVE FALSE
      <4>1. job[p].v \in Versions
        BY <1>0, <3>2, WorkerFacts DEF MakeTarget, Build, CleanUp, Works, Building
      <4>2. release'[v].mark = None
        BY <1>0, <2>2, <3>2, <4>1 DEF MakeTarget, Build, CleanUp, NoRelease, Releases
      <4> QED BY <1>1, <4>2
    <3>3. ASSUME NEW w \in Versions, ClearAway(w) PROVE FALSE
      BY <1>0, <1>1, <2>2, <3>3 DEF ClearAway, NoRelease
    <3>4. PICK p \in Installers : Mark(p)
      BY <3>1, <3>2, <3>3
      DEF Next, vars, Install, Smoke, Verify, Rollback, Launch, Record, Uninstall, Forget, Fail,
          Kill
    <3>5. Works(p) /\ Owns(p) /\ pc[p] = "mark"
      BY <3>4 DEF Mark, Works, Owns, Building
    <3>6. job[p].v = v /\ release[v].env = job[p].d
      BY <1>0, <3>1, <3>4, <3>5 DEF Mark, BootInv, OwnedPart
    <3>7. release'[v] = [release[v] EXCEPT !.mark = job[p].d]
      BY <1>0, <3>4, <3>6 DEF Mark
    <3> QED BY <1>0, <3>6, <3>7 DEF Releases
  <2> QED BY <2>1, <2>2
<1>2. ASSUME NEW p \in Installers, pc'[p] \in {"try", "launch", "record"}
      PROVE  release'[job'[p].v].mark = job'[p].d
  <2>1. ASSUME job'[p] = job[p], Works(p), release[job[p].v].mark = job[p].d
        PROVE  release'[job'[p].v].mark = job'[p].d
    <3>1. job[p].v \in Versions /\ job[p].d # None
      BY <1>0, <2>1, WorkerFacts
    <3> QED BY <2>1, <3>1, MarksStay
  <2>2. CASE pc[p] \in {"try", "launch", "record"} /\ job'[p] = job[p]
    BY <1>0, <2>1, <2>2 DEF MarkPart, Works, Switching
  <2>3. CASE Verify(p)
    BY <2>1, <2>3 DEF Verify, Works, Switching
  <2>4. CASE Mark(p)
    <3>1. job[p].v \in Versions /\ job' = job
      BY <1>0, <2>4, WorkerFacts DEF Mark, Works, Building
    <3>2. release'[job[p].v] = [release[job[p].v] EXCEPT !.mark = job[p].d]
      BY <1>0, <2>4, <3>1 DEF Mark
    <3>3. release[job[p].v] \in Releases
      BY <1>0, <3>1
    <3> QED BY <3>1, <3>2, <3>3 DEF Releases
  <2>5. (pc[p] \in {"try", "launch", "record"} /\ job'[p] = job[p]) \/ Verify(p) \/ Mark(p)
    <3>1. ASSUME NEW q \in Installers,
                 \/ \E v \in Versions, d \in Digests : Install(q, v, d)
                 \/ MakeTarget(q) \/ Build(q) \/ CleanUp(q) \/ Rollback(q) \/ Record(q)
                 \/ Uninstall(q) \/ Forget(q) \/ Fail(q) \/ Kill(q)
          PROVE  p # q /\ pc'[p] = pc[p] /\ job'[p] = job[p]
      BY <1>0, <1>2, <3>1
      DEF Install, Start, MakeTarget, Build, CleanUp, Rollback, Record, Uninstall, Forget,
          Fail, Kill
    <3>2. ASSUME NEW q \in Installers, Smoke(q) \/ Launch(q) \/ Verify(q) \/ Mark(q)
          PROVE  job' = job /\ (p # q => pc'[p] = pc[p])
      BY <1>0, <3>2 DEF Smoke, Launch, Verify, Mark
    <3>3. ASSUME Smoke(p) \/ Launch(p)
          PROVE  pc[p] \in {"try", "launch", "record"} /\ job'[p] = job[p]
      BY <1>0, <1>2, <3>3 DEF Smoke, Launch
    <3>4. ASSUME UNCHANGED <<pc, job>>
          PROVE  pc[p] \in {"try", "launch", "record"} /\ job'[p] = job[p]
      BY <1>2, <3>4
    <3> QED BY <1>2, <3>1, <3>2, <3>3, <3>4 DEF Next, vars, ClearAway
  <2> QED BY <2>2, <2>3, <2>4, <2>5
<1> QED BY <1>1, <1>2 DEF MarkPart

-----------------------------------------------------------------------------
(* The manifest.                                                           *)

\* What is in a manifest, in use or about to be written, stays true.
LEMMA FaithfulStays ==
  ASSUME BootInv, [Next]_vars, NEW man, Faithful(man, release)
  PROVE  Faithful(man, release')
  BY MarksStay DEF Faithful

\* Every step leaves the manifest naming marked releases, each with its wheel.
LEMMA ManifestPartNext ==
  ASSUME BootInv, [Next]_vars
  PROVE  ManifestPart'
<1> USE DEF Goto
<1>0. /\ TypeOK /\ ManifestPart /\ pc \in [Installers -> BootPcs] /\ DOMAIN job = Installers
      /\ manifest \in Manifests /\ None \notin Digests /\ None \notin Versions
  BY BootstrapAssumption DEF BootInv, TypeOK, BootPcs
<1> DEFINE Ready(j) ==
             /\ Faithful(j.man, release)
             /\ j.op = "rollback" => /\ j.man.history # <<>> /\ j.v = Last(j.man.history)
                                     /\ j.man.digests[j.v] # None
<1>1. ASSUME NEW p \in Installers, Works(p)' PROVE (Works(p) /\ job'[p] = job[p]) \/ Ready(job'[p])
  <2>1. ASSUME NEW q \in Installers, NEW v \in Versions, NEW d \in Digests, Install(q, v, d)
        PROVE  (Works(p) /\ job'[p] = job[p]) \/ Ready(job'[p])
    <3>1. CASE p = q
      <4> DEFINE j == [op |-> "install", v |-> v, d |-> d, man |-> manifest]
      <4>1. job'[p] = j
        BY <1>0, <2>1, <3>1 DEF Install, Start
      <4>2. j.op = "install" /\ j.man = manifest
        OBVIOUS
      <4> HIDE DEF j
      <4> QED BY <1>0, <4>1, <4>2 DEF ManifestPart
    <3>2. CASE p # q
      BY <1>0, <1>1, <2>1, <3>2 DEF Install, Start, Works
    <3> QED BY <3>1, <3>2
  <2>2. ASSUME NEW q \in Installers, Rollback(q)
        PROVE  (Works(p) /\ job'[p] = job[p]) \/ Ready(job'[p])
    <3>1. CASE p = q
      <4> DEFINE v == Last(manifest.history)
                 j == [op |-> "rollback", v |-> v, d |-> manifest.digests[v], man |-> manifest]
      <4>1. job'[p] = j /\ manifest.history # <<>> /\ manifest.digests[v] # None
        BY <1>0, <2>2, <3>1 DEF Rollback, Start
      <4>2. j.v = v /\ j.man = manifest
        OBVIOUS
      <4> HIDE DEF j
      <4> QED BY <1>0, <4>1, <4>2 DEF ManifestPart
    <3>2. CASE p # q
      BY <1>0, <1>1, <2>2, <3>2 DEF Rollback, Start, Works
    <3> QED BY <3>1, <3>2
  <2>3. ASSUME NEW q \in Installers,
               \/ MakeTarget(q) \/ Build(q) \/ Smoke(q) \/ Mark(q) \/ CleanUp(q) \/ Verify(q)
               \/ Launch(q) \/ Record(q) \/ Uninstall(q) \/ Forget(q) \/ Fail(q) \/ Kill(q)
        PROVE  Works(p) /\ job'[p] = job[p]
    BY <1>0, <1>1, <2>3
    DEF MakeTarget, Build, Smoke, Mark, CleanUp, Verify, Launch, Record, Uninstall, Forget, Fail,
        Kill, Works, Building, Switching
  <2>4. ASSUME UNCHANGED <<pc, job>> PROVE Works(p) /\ job'[p] = job[p]
    BY <1>1, <2>4 DEF Works
  <2> HIDE DEF Ready
  <2> QED BY <2>1, <2>2, <2>3, <2>4 DEF Next, vars, ClearAway
<1>2. ASSUME NEW p \in Installers, Works(p)'
      PROVE  /\ Faithful(job'[p].man, release')
             /\ job'[p].op = "rollback" =>
                   /\ job'[p].man.history # <<>> /\ job'[p].v = Last(job'[p].man.history)
                   /\ job'[p].man.digests[job'[p].v] # None
  <2>1. Ready(job'[p])
    BY <1>0, <1>1, <1>2 DEF ManifestPart
  <2> QED BY <2>1, FaithfulStays
<1> HIDE DEF Ready
<1>3. Faithful(manifest', release')
  <2>1. CASE UNCHANGED manifest
    BY <1>0, <2>1, FaithfulStays DEF ManifestPart
  <2>2. ASSUME NEW p \in Installers, Forget(p) PROVE Faithful(manifest', release')
    <3>1. manifest' = NoManifest
      BY <2>2 DEF Forget
    <3> QED BY <3>1 DEF NoManifest, Faithful
  <2>3. ASSUME NEW p \in Installers, Record(p) PROVE Faithful(manifest', release')
    <3> DEFINE v == job[p].v
               man == job[p].man
    <3>1. /\ pc[p] = "record" /\ Works(p) /\ UNCHANGED release /\ v \in Versions
          /\ job[p].d \in Digests /\ man \in Manifests
          /\ job[p].op \in {"install", "rollback"}
      BY <1>0, <2>3, WorkerFacts DEF Record, Works, Switching
    <3>2. /\ Faithful(man, release) /\ release[v].mark = job[p].d
          /\ job[p].op = "rollback" =>
                /\ man.history # <<>> /\ v = Last(man.history) /\ man.digests[v] # None
      BY <1>0, <3>1 DEF ManifestPart, BootInv, MarkPart
    <3>3. man.digests \in [Versions -> Digests \cup {None}]
      BY <3>1 DEF Manifests
    <3>4. CASE job[p].op = "install"
      <4>1. /\ manifest'.current = v /\ manifest'.digests = [man.digests EXCEPT ![v] = job[p].d]
        BY <2>3, <3>1, <3>4, InstalledEnds DEF Record
      <4>2. manifest'.digests[v] = job[p].d
            /\ \A w \in Versions \ {v} : manifest'.digests[w] = man.digests[w]
        BY <3>1, <3>3, <4>1
      <4> HIDE DEF v, man
      <4> QED BY <1>0, <3>1, <3>2, <4>1, <4>2 DEF Faithful
    <3>5. CASE job[p].op = "rollback"
      <4>1. man.current # None
        BY <3>2, <3>5 DEF Faithful
      <4>2. manifest'.current = v /\ manifest'.digests = man.digests
        BY <2>3, <3>1, <3>2, <3>5, <4>1, RolledBackType DEF Record
      <4> HIDE DEF v, man
      <4> QED BY <1>0, <3>1, <3>2, <3>5, <4>2 DEF Faithful
    <3> QED BY <3>1, <3>4, <3>5
  <2> QED
    BY <2>1, <2>2, <2>3
    DEF Next, vars, Install, MakeTarget, Build, Smoke, Mark, CleanUp, Verify, Rollback, Launch,
        Uninstall, Fail, Kill, ClearAway
<1> QED BY <1>2, <1>3 DEF ManifestPart

-----------------------------------------------------------------------------
(* Launcher and manifest.                                                  *)

\* The launcher is moved to a marked release only, and no step takes one away.
LEMMA LauncherNext ==
  ASSUME BootInv, [Next]_vars
  PROVE  LauncherWorks'
<1>0. None \notin Digests /\ None \notin Versions
  BY BootstrapAssumption
<1>1. ASSUME NEW v \in Versions, release[v].mark # None, release[v].env = release[v].mark
      PROVE  release'[v].mark # None /\ release'[v].env = release'[v].mark
  BY <1>1, MarksStay
<1>2. CASE UNCHANGED launcher
  <2>1. launcher # None => launcher \in Versions
    BY DEF BootInv, TypeOK
  <2> QED BY <1>1, <1>2, <2>1 DEF BootInv, LauncherWorks
<1>3. ASSUME NEW p \in Installers, Launch(p) PROVE LauncherWorks'
  <2>1. Works(p) /\ pc[p] = "launch" /\ launcher' = job[p].v
    BY <1>3 DEF Launch, Goto, Works, Switching
  <2>2. job[p].v \in Versions /\ job[p].d \in Digests
    BY <2>1, WorkerFacts DEF BootInv
  <2>3. release[job[p].v].mark = job[p].d /\ release[job[p].v].env = job[p].d
    BY <1>0, <2>1, <2>2 DEF BootInv, MarkPart
  <2> QED BY <1>0, <1>1, <2>1, <2>2, <2>3 DEF LauncherWorks
<1>4. ASSUME NEW p \in Installers, Uninstall(p) PROVE LauncherWorks'
  BY <1>4 DEF Uninstall, LauncherWorks
<1> QED
  BY <1>2, <1>3, <1>4
  DEF Next, vars, Install, MakeTarget, Build, Smoke, Mark, CleanUp, Verify, Rollback, Record,
      Forget, Fail, Kill, ClearAway

\* Every step keeps what the manifest and the launcher say together.
LEMMA TogetherNext ==
  ASSUME BootInv, [Next]_vars
  PROVE  TogetherPart'
<1> USE DEF Goto, Midway
<1>0. /\ TypeOK /\ TogetherPart /\ pc \in [Installers -> BootPcs] /\ DOMAIN job = Installers
      /\ None \notin Versions /\ torn \in BOOLEAN
  BY BootstrapAssumption DEF BootInv, TypeOK, BootPcs
\* Steps that touch neither launcher nor manifest, of who is not between the two.
<1>1. ASSUME UNCHANGED <<launcher, manifest, before>>, ~ torn' => ~ torn,
             ~ torn' => \A q \in Installers : /\ Midway(q)' <=> Midway(q)
                                              /\ Midway(q) => pc'[q] = pc[q] /\ job'[q] = job[q]
      PROVE  TogetherPart'
  <2> SUFFICES ASSUME ~ torn' PROVE TogetherPart'
    BY DEF TogetherPart
  <2>1. /\ \A p, q \in Installers : Midway(p) /\ Midway(q) => p = q
        /\ (\A p \in Installers : ~ Midway(p)) => manifest.current = launcher /\ Undoes(manifest, before)
        /\ \A p \in Installers :
              /\ pc[p] = "record" =>
                    /\ launcher = job[p].v
                    /\ before # None => /\ job[p].op = "install" /\ job[p].man.current = before
                                        /\ before # job[p].v
              /\ pc[p] = "forget" => launcher = None /\ before = None
    BY <1>0, <1>1 DEF TogetherPart
  <2>2. \A q \in Installers : /\ pc'[q] \in {"record", "forget"} <=> pc[q] \in {"record", "forget"}
                              /\ pc[q] \in {"record", "forget"} => pc'[q] = pc[q] /\ job'[q] = job[q]
    BY <1>1
  <2>3. \A p, q \in Installers :
          pc'[p] \in {"record", "forget"} /\ pc'[q] \in {"record", "forget"} => p = q
    BY <2>1, <2>2
  <2>4. (\A p \in Installers : pc'[p] \notin {"record", "forget"}) =>
          manifest'.current = launcher' /\ Undoes(manifest', before')
    BY <1>1, <2>1, <2>2
  <2>5. ASSUME NEW p \in Installers
        PROVE  /\ pc'[p] = "record" =>
                     /\ launcher' = job'[p].v
                     /\ before' # None => /\ job'[p].op = "install" /\ job'[p].man.current = before'
                                          /\ before' # job'[p].v
               /\ pc'[p] = "forget" => launcher' = None /\ before' = None
    <3>1. CASE pc[p] \in {"record", "forget"}
      BY <1>1, <2>1, <2>2, <3>1
    <3>2. CASE pc[p] \notin {"record", "forget"}
      BY <2>2, <3>2
    <3> QED BY <3>1, <3>2
  <2> QED BY <2>3, <2>4, <2>5 DEF TogetherPart
<1>2. ASSUME NEW p \in Installers,
             \/ \E v \in Versions, d \in Digests : Install(p, v, d)
             \/ MakeTarget(p) \/ Build(p) \/ Smoke(p) \/ Mark(p) \/ CleanUp(p) \/ Verify(p)
             \/ Rollback(p)
      PROVE  TogetherPart'
  <2>1. UNCHANGED <<launcher, manifest, before, torn>>
    BY <1>2 DEF Install, MakeTarget, Build, Smoke, Mark, CleanUp, Verify, Rollback
  <2>2. ~ Midway(p) /\ ~ Midway(p)'
        /\ \A q \in Installers \ {p} : pc'[q] = pc[q] /\ job'[q] = job[q]
    BY <1>0, <1>2
    DEF Install, Start, MakeTarget, Build, Smoke, Mark, CleanUp, Verify, Rollback
  <2> QED BY <1>1, <2>1, <2>2
<1>3. ASSUME NEW p \in Installers, Fail(p) \/ Kill(p) PROVE TogetherPart'
  <2>1. /\ UNCHANGED <<launcher, manifest, before>> /\ torn' = (torn \/ Midway(p))
        /\ ~ Midway(p)'
        /\ \A q \in Installers \ {p} : pc'[q] = pc[q] /\ job'[q] = job[q]
    BY <1>0, <1>3 DEF Fail, Kill
  <2> QED BY <1>1, <2>1
<1>4. ASSUME NEW p \in Installers, Launch(p) \/ Uninstall(p) PROVE TogetherPart'
  <2> SUFFICES ASSUME ~ torn' PROVE TogetherPart'
    BY DEF TogetherPart
  <2>1. torn' = Overlaps(p)
        /\ \A q \in Installers \ {p} : pc'[q] = pc[q] /\ job'[q] = job[q]
    BY <1>0, <1>4 DEF Launch, Uninstall
  <2>2. \A q \in Installers \ {p} : ~ Midway(q) /\ ~ Midway(q)'
    BY <2>1 DEF Overlaps
  <2>3. /\ pc'[p] \in {"record", "forget"} /\ job'[p] = job[p]
        /\ pc'[p] = "record" =>
              /\ launcher' = job[p].v
              /\ before' # None => /\ job[p].op = "install" /\ job[p].man.current = before'
                                   /\ before' # job[p].v
        /\ pc'[p] = "forget" => launcher' = None /\ before' = None
    BY <1>0, <1>4 DEF Launch, Uninstall
  <2> QED BY <2>2, <2>3 DEF TogetherPart
<1>5. ASSUME NEW p \in Installers, Record(p) \/ Forget(p) PROVE TogetherPart'
  <2> SUFFICES ASSUME ~ torn' PROVE TogetherPart'
    BY DEF TogetherPart
  <2>1. /\ Midway(p) /\ ~ Midway(p)' /\ UNCHANGED <<launcher, before, torn>>
        /\ \A q \in Installers \ {p} : pc'[q] = pc[q] /\ job'[q] = job[q]
    BY <1>0, <1>5 DEF Record, Forget
  <2>2. \A q \in Installers : ~ Midway(q)'
    BY <1>0, <2>1 DEF TogetherPart
  <2>3. manifest'.current = launcher /\ Undoes(manifest', before)
    <3>1. CASE Forget(p)
      <4>1. manifest' = NoManifest /\ launcher = None /\ before = None
        BY <1>0, <2>1, <3>1 DEF Forget, TogetherPart
      <4> QED BY <4>1 DEF NoManifest, Undoes
    <3>2. CASE Record(p)
      <4> DEFINE v == job[p].v
                 man == job[p].man
      <4>1. /\ pc[p] = "record" /\ Works(p) /\ launcher = v /\ v \in Versions
            /\ job[p].d \in Digests /\ man \in Manifests
            /\ job[p].op \in {"install", "rollback"}
            /\ before # None => job[p].op = "install" /\ man.current = before /\ before # v
        BY <1>0, <2>1, <3>2, WorkerFacts DEF Record, TogetherPart, Works, Switching
      <4>2. /\ Faithful(man, release)
            /\ job[p].op = "rollback" => man.history # <<>> /\ v = Last(man.history)
        BY <4>1 DEF BootInv, ManifestPart
      <4>3. CASE job[p].op = "install"
        <5>1. /\ manifest'.current = v
              /\ manifest'.digests = [man.digests EXCEPT ![v] = job[p].d]
              /\ man.current \notin {None, v} =>
                    manifest'.history # <<>> /\ Last(manifest'.history) = man.current
          BY <3>2, <4>1, <4>3, InstalledEnds DEF Record
        <5>2. man.digests \in [Versions -> Digests \cup {None}]
              /\ man.current \in Versions \cup {None}
          BY <4>1 DEF Manifests
        <5>3. before # None => /\ manifest'.history # <<>> /\ Last(manifest'.history) = before
                               /\ manifest'.digests[before] # None
          <6> HIDE DEF v, man
          <6> QED BY <1>0, <4>1, <4>2, <5>1, <5>2 DEF Faithful
        <5> QED BY <4>1, <5>1, <5>3 DEF Undoes
      <4>4. CASE job[p].op = "rollback"
        <5>1. man.current # None
          BY <4>2, <4>4 DEF Faithful
        <5>2. manifest'.current = v
          BY <3>2, <4>1, <4>2, <4>4, <5>1, RolledBackType DEF Record
        <5> QED BY <4>1, <4>4, <5>2 DEF Undoes
      <4> QED BY <4>1, <4>3, <4>4
    <3> QED BY <1>5, <3>1, <3>2
  <2> QED BY <2>1, <2>2, <2>3 DEF TogetherPart
<1>6. ASSUME NEW v \in Versions, ClearAway(v) PROVE TogetherPart'
  BY <1>1, <1>6 DEF ClearAway
<1>7. CASE UNCHANGED vars
  BY <1>1, <1>7 DEF vars
<1> QED BY <1>2, <1>3, <1>4, <1>5, <1>6, <1>7 DEF Next

-----------------------------------------------------------------------------
(* The theorems.                                                           *)

\* Nothing is installed.
LEMMA BootInvInit == Init => BootInv
<1> SUFFICES ASSUME Init PROVE BootInv
  OBVIOUS
<1>1. TypeOK
  <2>1. NoManifest \in Manifests /\ NoManifest.history = <<>>
    BY DEF NoManifest, Manifests
  <2>2. NoRelease \in Releases
    BY DEF NoRelease, Releases
  <2>3. 0 <= HistoryLimit /\ Len(<<>>) = 0
    BY BootstrapAssumption
  <2>4. release \in [Versions -> Releases] /\ manifest \in Manifests
        /\ Len(manifest.history) <= HistoryLimit
    BY <2>1, <2>2, <2>3 DEF Init
  <2> QED BY <2>4 DEF Init, TypeOK
<1>2. OwnedPart /\ MarkPart /\ TogetherPart /\ LauncherWorks
  BY DEF Init, OwnedPart, MarkPart, TogetherPart, LauncherWorks, Owns, Midway, NoRelease, NoManifest,
         Undoes
<1>3. ManifestPart
  BY DEF Init, ManifestPart, Faithful, NoManifest, Works, Building, Switching
<1> QED BY <1>1, <1>2, <1>3 DEF BootInv

\* All the parts together are inductive.
LEMMA BootInvNext == BootInv /\ [Next]_vars => BootInv'
  BY BootTypeNext, OwnedPartNext, MarkPartNext, ManifestPartNext, TogetherNext, LauncherNext
  DEF BootInv

\* They hold of every behaviour.
LEMMA BootInvHolds == Spec => []BootInv
  BY BootInvInit, BootInvNext, PTL DEF Spec

\* Whatever installers do, together, and wherever each is stopped: the launcher
\* starts a version that was installed whole.
THEOREM LauncherAlwaysWorks == Spec => [](TypeOK /\ LauncherWorks)
<1>1. BootInv => TypeOK /\ LauncherWorks
  BY DEF BootInv
<1> QED BY <1>1, BootInvHolds, PTL

\* ... a version is bound to one wheel ...
THEOREM VersionsStayBound == Spec => []OneWheelPerVersion
<1>1. BootInv => OneWheelPerVersion
  BY DEF BootInv, TypeOK, MarkPart, ManifestPart, Faithful, OneWheelPerVersion, Manifests, Works,
         Switching
<1> QED BY <1>1, BootInvHolds, PTL

\* ... and an upgrade can be undone, unless it was torn.
THEOREM UpgradesStayUndoable == Spec => []UpgradeCanBeUndone
<1>1. BootInv => UpgradeCanBeUndone
  BY DEF BootInv, TogetherPart, UpgradeCanBeUndone, Undoes, Quiet, Midway
<1> QED BY <1>1, BootInvHolds, PTL

-----------------------------------------------------------------------------
(* Migration                                                               *)

\* Migration is idempotent, and changes nothing of the authority a file gives.
LEMMA MigrationKeepsAuthority ==
    ASSUME NEW f \in Files
    PROVE  /\ Migrated(f) \in Files
           /\ Migrated(Migrated(f)) = Migrated(f)
           /\ PolicyOf(Migrated(f)) = PolicyOf(f)
<1> DEFINE spelt(g) == IF Renames(g) THEN {Long} ELSE g.spelt
<1>1. /\ f.version \in Int /\ f.on \in SUBSET Caps /\ f.spelt \in SUBSET {Short, Long}
      /\ f.until \in [Caps -> Expiries] /\ f.fault \in {"none", "unknown", "value"}
      /\ f = [version |-> f.version, on |-> f.on, spelt |-> f.spelt, until |-> f.until,
              fault |-> f.fault]
    BY DEF Files
<1>2. Migrated(f) = [version |-> SchemaVersion, on |-> f.on, spelt |-> spelt(f),
                     until |-> f.until, fault |-> f.fault]
    <2>1. Migrated(f) = [f EXCEPT !.version = SchemaVersion, !.spelt = spelt(f)]
        BY DEF Migrated
    <2> HIDE DEF spelt
    <2> QED
        BY <2>1 DEF Files
<1>3. SchemaVersion \in Int /\ SchemaVersion # 1 /\ spelt(f) \in SUBSET {Short, Long}
    BY <1>1 DEF SchemaVersion
<1> HIDE DEF spelt
<1>4. Migrated(f) \in Files
    BY <1>1, <1>2, <1>3 DEF Files
<1>5. ~ Renames(Migrated(f))
    BY <1>2, <1>3 DEF Renames
<1>6. Migrated(Migrated(f)) = Migrated(f)
    BY <1>2, <1>5 DEF Migrated
<1>7. /\ Migrated(f).on = f.on /\ Migrated(f).until = f.until
      /\ Migrated(Migrated(f)).spelt = Migrated(f).spelt
    BY <1>2, <1>6
<1>8. PolicyOf(Migrated(f)) = PolicyOf(f)
    BY <1>7 DEF PolicyOf
<1> QED
    BY <1>4, <1>6, <1>8

\* What a file gives is a policy.
LEMMA PolicyHasType ==
    ASSUME NEW f \in Files
    PROVE  PolicyOf(f) \in Policies
BY DEF Files, PolicyOf, Policies

-----------------------------------------------------------------------------
(* Types                                                                   *)

LEMMA NoFileHasType == NoFile \in Files /\ NoPolicy \in Policies
<1>1. NoExpiry \in Expiries
    BY DEF NoExpiry, Expiries, ExpiryKinds
<1> QED
    BY <1>1 DEF NoFile, Files, NoPolicy, Policies, SchemaVersion

LEMMA AuthorityTypeInit == AuthorityInit => AuthorityTypeOK
<1>1. Off \in ServerStates
    BY NoFileHasType DEF Off, ServerStates, Pcs
<1> SUFFICES ASSUME AuthorityInit PROVE AuthorityTypeOK
    OBVIOUS
<1>2. srv \in [Servers -> ServerStates] /\ cmd \in [Commands -> CommandJobs]
    BY <1>1 DEF AuthorityInit, CommandJobs
<1>3. policyFile \in Files /\ meant \subseteq Files
    BY NoFileHasType DEF AuthorityInit
<1> QED
    BY <1>2, <1>3 DEF AuthorityInit, AuthorityTypeOK

LEMMA AuthorityTypeStep ==
    ASSUME AuthorityTypeOK, [AuthorityNext]_authorityVars
    PROVE  AuthorityTypeOK'
<1> USE AuthorityAssumption
    DEF AuthorityTypeOK, CommandJobs, trustVars, policyVars, keyVars, BeginCommand, EndCommand
<1>1. ASSUME NEW p \in Commands, NEW w \in Workspaces, NEW op \in {"trust", "untrust"},
             ReadTrust(p, op, w)
      PROVE  AuthorityTypeOK'
    BY <1>1 DEF ReadTrust, TrustJobs
<1>2. ASSUME NEW p \in Commands, WriteTrust(p) PROVE AuthorityTypeOK'
    BY <1>2 DEF WriteTrust, TrustJobs
<1>3. ASSUME NEW p \in Commands, NEW on \in SUBSET Caps, NEW n \in 1..MaxLease,
             InitPolicy(p, on, n)
      PROVE  AuthorityTypeOK'
    <2> DEFINE f == [version |-> SchemaVersion, on |-> on, spelt |-> {Long},
                     until |-> [c \in Caps |-> IF c \in on THEN At(now + n) ELSE NoExpiry],
                     fault |-> "none"]
    <2>1. f \in Files
        <3>1. At(now + n) \in Expiries /\ NoExpiry \in Expiries
            BY DEF At, NoExpiry, Expiries, ExpiryKinds
        <3> QED
            BY <3>1 DEF Files, SchemaVersion
    <2> HIDE DEF f
    <2>2. [op |-> "policy", file |-> f] \in PolicyJobs
        BY <2>1 DEF PolicyJobs
    <2> QED
        BY <1>3, <2>2 DEF InitPolicy, f
<1>4. ASSUME NEW p \in Commands, NEW f \in HandWritten, EditPolicy(p, f) PROVE AuthorityTypeOK'
    BY <1>4 DEF EditPolicy, PolicyJobs
<1>5. ASSUME NEW p \in Commands, WritePolicy(p) PROVE AuthorityTypeOK'
    BY <1>5 DEF WritePolicy, PolicyJobs
<1>6. ASSUME NEW p \in Commands, ReadPolicy(p) PROVE AuthorityTypeOK'
    <2>1. [op |-> "migrate", file |-> Migrated(policyFile)] \in MigrateJobs
        BY MigrationKeepsAuthority DEF MigrateJobs
    <2> QED
        BY <1>6, <2>1 DEF ReadPolicy
<1>7. ASSUME NEW p \in Commands, WriteMigrated(p) PROVE AuthorityTypeOK'
    BY <1>7 DEF WriteMigrated, MigrateJobs
<1>8. ASSUME NEW p \in Commands, DropCommand(p) PROVE AuthorityTypeOK'
    BY <1>8 DEF DropCommand
<1>9. ASSUME NEW s \in Servers, NEW from, NEW r \in ServerStates, ServerGoes(s, from, r)
      PROVE  srv' \in [Servers -> ServerStates]
    BY <1>9 DEF ServerGoes
<1>10. ASSUME NEW s \in Servers, StartTrusted(s) \/ StartUntrusted(s) PROVE AuthorityTypeOK'
    <2>1. /\ [Off EXCEPT !.pc = "load", !.trust = TRUE] \in ServerStates
          /\ [Off EXCEPT !.pc = "load"] \in ServerStates
        BY NoFileHasType DEF Off, ServerStates, Pcs
    <2> QED
        BY <1>9, <1>10, <2>1 DEF StartTrusted, StartUntrusted
<1>11. ASSUME NEW s \in Servers, LoadPolicy(s) PROVE AuthorityTypeOK'
    <2>1. [srv[s] EXCEPT !.pc = "lock", !.policy = PolicyOf(policyFile), !.since = now]
              \in ServerStates
        <3>1. srv[s] \in ServerStates /\ PolicyOf(policyFile) \in Policies
            BY PolicyHasType
        <3> QED
            BY <3>1 DEF ServerStates, Pcs
    <2> QED
        BY <1>9, <1>11, <2>1 DEF LoadPolicy
<1>12. ASSUME NEW s \in Servers, LockKey(s) \/ ReadKey(s) \/ CreateKey(s) \/ WriteKey(s)
       PROVE  AuthorityTypeOK'
    <2>1. \A k \in Servers, c \in Pcs :
              /\ [srv[s] EXCEPT !.pc = c] \in ServerStates
              /\ [srv[s] EXCEPT !.pc = c, !.key = k] \in ServerStates
        <3>1. srv[s] \in ServerStates
            OBVIOUS
        <3> QED
            BY <3>1 DEF ServerStates
    <2>2. CASE LockKey(s)
        BY <1>9, <2>1, <2>2 DEF LockKey, Pcs
    <2>3. CASE ReadKey(s)
        BY <1>9, <2>1, <2>3 DEF ReadKey, Pcs
    <2>4. CASE CreateKey(s)
        BY <1>9, <2>1, <2>4 DEF CreateKey, Pcs
    <2>5. CASE WriteKey(s)
        BY <1>9, <2>1, <2>5 DEF WriteKey, Pcs
    <2> QED
        BY <1>12, <2>2, <2>3, <2>4, <2>5
<1>13. ASSUME NEW s \in Servers, Stop(s) PROVE AuthorityTypeOK'
    <2>1. Off \in ServerStates
        BY NoFileHasType DEF Off, ServerStates, Pcs
    <2> QED
        BY <1>13, <2>1 DEF Stop
<1>14. CASE Tick
    BY <1>14 DEF Tick
<1>15. CASE UNCHANGED authorityVars
    BY <1>15 DEF authorityVars
<1> QED
    BY <1>1, <1>2, <1>3, <1>4, <1>5, <1>6, <1>7, <1>8, <1>10, <1>11, <1>12, <1>13, <1>14, <1>15
    DEF AuthorityNext, TrustCommand, PolicyCommand, ServerStep

-----------------------------------------------------------------------------
(* What a step can be for one of the parts: a command begins, or ends, or  *)
(* a server moves, or time passes.                                         *)

NoneJobs(task) == task \notin TrustJobs /\ task \notin MigrateJobs

LEMMA JobsDiffer ==
    /\ NoneJobs(NoCmd)
    /\ \A f : NoneJobs([op |-> "policy", file |-> f])
    /\ TrustJobs \cap MigrateJobs = {} /\ TrustJobs \cap PolicyJobs = {}
    /\ PolicyJobs \cap MigrateJobs = {}
BY DEF NoneJobs, NoCmd, TrustJobs, MigrateJobs, PolicyJobs

\* The servers' steps leave the files of the commands alone, and the commands' steps
\* the servers and the key.
LEMMA ServersOrCommands ==
    ASSUME [AuthorityNext]_authorityVars
    PROVE  \/ \E s \in Servers : ServerStep(s) /\ UNCHANGED <<trustVars, policyVars, cmd, now>>
           \/ \E p \in Commands : /\ TrustCommand(p) \/ PolicyCommand(p)
                                  /\ UNCHANGED <<keyVars, srv, now>>
           \/ Tick
           \/ UNCHANGED authorityVars
<1>1. ASSUME NEW s \in Servers, ServerStep(s)
      PROVE  UNCHANGED <<trustVars, policyVars, cmd, now>>
    BY <1>1 DEF ServerStep, StartTrusted, StartUntrusted, LoadPolicy, LockKey, ReadKey, CreateKey,
                WriteKey, Stop
<1>2. ASSUME NEW p \in Commands, TrustCommand(p) \/ PolicyCommand(p)
      PROVE  UNCHANGED <<keyVars, srv, now>>
    BY <1>2 DEF TrustCommand, PolicyCommand, ReadTrust, WriteTrust, InitPolicy, EditPolicy,
                WritePolicy, ReadPolicy, WriteMigrated, DropCommand
<1> QED
    BY <1>1, <1>2 DEF AuthorityNext

\* Server s changes and no other, to something with these fields.
Becomes(s, to, policy, since, trust, key) ==
    \E r : /\ srv' = [srv EXCEPT ![s] = r]
           /\ r.pc = to /\ r.policy = policy /\ r.since = since
           /\ r.trust = trust /\ r.key = key

\* A start, of a server that was told Home is trusted, or was not.
Loading(s, t) ==
    /\ srv[s].pc = "off" /\ (t => Home \in trusted) /\ UNCHANGED keyVars
    /\ Becomes(s, "load", NoPolicy, 0, t, NoKey)

\* A step that keeps the policy and the trust.
GoesOn(s, to, key) == Becomes(s, to, srv[s].policy, srv[s].since, srv[s].trust, key)

\* What each step makes of its server.
ServerMove(s) ==
    \/ \E t \in BOOLEAN : Loading(s, t)
    \/ LoadPolicy(s) /\ Becomes(s, "lock", PolicyOf(policyFile), now, srv[s].trust, srv[s].key)
    \/ LockKey(s) /\ GoesOn(s, "key", srv[s].key)
    \/ ReadKey(s) /\ GoesOn(s, "serving", keyFile)
    \/ CreateKey(s) /\ GoesOn(s, "write key", srv[s].key)
    \/ WriteKey(s) /\ GoesOn(s, "serving", s)
    \/ Stop(s) /\ Becomes(s, "off", NoPolicy, 0, FALSE, NoKey)

LEMMA ServerMoves ==
    ASSUME AuthorityTypeOK, NEW s \in Servers, ServerStep(s)
    PROVE  ServerMove(s)
<1>1. srv[s] \in ServerStates
    BY DEF AuthorityTypeOK
<1>2. CASE StartTrusted(s)
    <2> DEFINE q == [Off EXCEPT !.pc = "load", !.trust = TRUE]
    <2>1. /\ q.pc = "load" /\ q.policy = NoPolicy /\ q.since = 0
          /\ q.trust = TRUE /\ q.key = NoKey
        BY <1>1 DEF ServerStates, Off
    <2>2. srv' = [srv EXCEPT ![s] = q]
        BY <1>2 DEF StartTrusted, ServerGoes
    <2> HIDE DEF q
    <2>3. Becomes(s, "load", NoPolicy, 0, TRUE, NoKey)
        BY <2>1, <2>2 DEF Becomes, GoesOn
    <2> QED
        BY <1>2, <2>3 DEF ServerMove, Loading, StartTrusted, ServerGoes, keyVars
<1>3. CASE StartUntrusted(s)
    <2> DEFINE q == [Off EXCEPT !.pc = "load"]
    <2>1. /\ q.pc = "load" /\ q.policy = NoPolicy /\ q.since = 0
          /\ q.trust = FALSE /\ q.key = NoKey
        BY <1>1 DEF ServerStates, Off
    <2>2. srv' = [srv EXCEPT ![s] = q]
        BY <1>3 DEF StartUntrusted, ServerGoes
    <2> HIDE DEF q
    <2>3. Becomes(s, "load", NoPolicy, 0, FALSE, NoKey)
        BY <2>1, <2>2 DEF Becomes, GoesOn
    <2> QED
        BY <1>3, <2>3 DEF ServerMove, Loading, StartUntrusted, ServerGoes, keyVars
<1>4. CASE LoadPolicy(s)
    <2> DEFINE q == [srv[s] EXCEPT !.pc = "lock", !.policy = PolicyOf(policyFile), !.since = now]
    <2>1. /\ q.pc = "lock" /\ q.policy = PolicyOf(policyFile) /\ q.since = now
          /\ q.trust = srv[s].trust /\ q.key = srv[s].key
        BY <1>1 DEF ServerStates, Off
    <2>2. srv' = [srv EXCEPT ![s] = q]
        BY <1>4 DEF LoadPolicy, ServerGoes
    <2> HIDE DEF q
    <2>3. Becomes(s, "lock", PolicyOf(policyFile), now, srv[s].trust, srv[s].key)
        BY <2>1, <2>2 DEF Becomes, GoesOn
    <2> QED
        BY <1>4, <2>3 DEF ServerMove
<1>5. CASE LockKey(s)
    <2> DEFINE q == [srv[s] EXCEPT !.pc = "key"]
    <2>1. /\ q.pc = "key" /\ q.policy = srv[s].policy /\ q.since = srv[s].since
          /\ q.trust = srv[s].trust /\ q.key = srv[s].key
        BY <1>1 DEF ServerStates, Off
    <2>2. srv' = [srv EXCEPT ![s] = q]
        BY <1>5 DEF LockKey, ServerGoes
    <2> HIDE DEF q
    <2>3. GoesOn(s, "key", srv[s].key)
        BY <2>1, <2>2 DEF Becomes, GoesOn
    <2> QED
        BY <1>5, <2>3 DEF ServerMove
<1>6. CASE ReadKey(s)
    <2> DEFINE q == [srv[s] EXCEPT !.pc = "serving", !.key = keyFile]
    <2>1. /\ q.pc = "serving" /\ q.policy = srv[s].policy /\ q.since = srv[s].since
          /\ q.trust = srv[s].trust /\ q.key = keyFile
        BY <1>1 DEF ServerStates, Off
    <2>2. srv' = [srv EXCEPT ![s] = q]
        BY <1>6 DEF ReadKey, ServerGoes
    <2> HIDE DEF q
    <2>3. GoesOn(s, "serving", keyFile)
        BY <2>1, <2>2 DEF Becomes, GoesOn
    <2> QED
        BY <1>6, <2>3 DEF ServerMove
<1>7. CASE CreateKey(s)
    <2> DEFINE q == [srv[s] EXCEPT !.pc = "write key"]
    <2>1. /\ q.pc = "write key" /\ q.policy = srv[s].policy /\ q.since = srv[s].since
          /\ q.trust = srv[s].trust /\ q.key = srv[s].key
        BY <1>1 DEF ServerStates, Off
    <2>2. srv' = [srv EXCEPT ![s] = q]
        BY <1>7 DEF CreateKey, ServerGoes
    <2> HIDE DEF q
    <2>3. GoesOn(s, "write key", srv[s].key)
        BY <2>1, <2>2 DEF Becomes, GoesOn
    <2> QED
        BY <1>7, <2>3 DEF ServerMove
<1>8. CASE WriteKey(s)
    <2> DEFINE q == [srv[s] EXCEPT !.pc = "serving", !.key = s]
    <2>1. /\ q.pc = "serving" /\ q.policy = srv[s].policy /\ q.since = srv[s].since
          /\ q.trust = srv[s].trust /\ q.key = s
        BY <1>1 DEF ServerStates, Off
    <2>2. srv' = [srv EXCEPT ![s] = q]
        BY <1>8 DEF WriteKey, ServerGoes
    <2> HIDE DEF q
    <2>3. GoesOn(s, "serving", s)
        BY <2>1, <2>2 DEF Becomes, GoesOn
    <2> QED
        BY <1>8, <2>3 DEF ServerMove
<1>9. CASE Stop(s)
    <2>1. /\ Off.pc = "off" /\ Off.policy = NoPolicy /\ Off.since = 0
          /\ Off.trust = FALSE /\ Off.key = NoKey
        BY DEF Off
    <2>2. Becomes(s, "off", NoPolicy, 0, FALSE, NoKey)
        BY <1>9, <2>1 DEF Stop, Becomes
    <2> QED
        BY <1>9, <2>2 DEF ServerMove
<1> QED
    BY <1>2, <1>3, <1>4, <1>5, <1>6, <1>7, <1>8, <1>9 DEF ServerStep

-----------------------------------------------------------------------------
(* Trust                                                                   *)

\* A copy of the store has nothing nobody trusted; and while no two commands have
\* overlapped there is one copy at most, and it is the store.
CopiesAreGiven ==
    \A p \in Commands : cmd[p] \in TrustJobs =>
        /\ cmd[p].copy \subseteq given
        /\ ~ raced => /\ cmd[p].copy = trusted
                      /\ \A q \in Commands : cmd[q] \in TrustJobs => q = p

TrustInv == TrustWasGiven /\ CopiesAreGiven

LEMMA TrustInvStep ==
    ASSUME AuthorityTypeOK, TrustInv, [AuthorityNext]_authorityVars
    PROVE  TrustInv'
<1> USE DEF TrustInv, TrustWasGiven, CopiesAreGiven, AuthorityTypeOK, trustVars
<1>1. ASSUME NEW p \in Commands, NEW w \in Workspaces, NEW op \in {"trust", "untrust"},
             ReadTrust(p, op, w)
      PROVE  TrustInv'
    <2> DEFINE j == [op |-> op, w |-> w, copy |-> trusted]
    <2>1. /\ cmd[p] = NoCmd /\ cmd' = [cmd EXCEPT ![p] = j] /\ j.copy = trusted
          /\ raced' = (raced \/ \E q \in Commands : cmd[q] \in TrustJobs)
          /\ UNCHANGED <<trusted, given, wish, srv>>
        BY <1>1 DEF ReadTrust, BeginCommand
    <2> HIDE DEF j
    <2> QED
        BY <2>1
<1>2. ASSUME NEW p \in Commands, WriteTrust(p) PROVE TrustInv'
    <2>1. cmd[p] \in TrustJobs /\ NoneJobs(NoCmd) /\ cmd' = [cmd EXCEPT ![p] = NoCmd]
        BY <1>2, JobsDiffer DEF WriteTrust, EndCommand
    <2>2. CASE cmd[p].op = "trust"
        BY <1>2, <2>1, <2>2 DEF WriteTrust, NoneJobs
    <2>3. CASE cmd[p].op # "trust"
        BY <1>2, <2>1, <2>3 DEF WriteTrust, NoneJobs
    <2> QED
        BY <2>2, <2>3
<1>3. ASSUME NEW p \in Commands, NEW task, task \notin TrustJobs, cmd' = [cmd EXCEPT ![p] = task],
             UNCHANGED <<trustVars, srv>>
      PROVE  TrustInv'
    BY <1>3
<1>4. ASSUME NEW p \in Commands, PolicyCommand(p) \/ DropCommand(p) PROVE TrustInv'
    <2>1. /\ \A f : [op |-> "policy", file |-> f] \notin TrustJobs
          /\ \A f : [op |-> "migrate", file |-> f] \notin TrustJobs
          /\ NoCmd \notin TrustJobs
        BY DEF TrustJobs, NoCmd
    <2>2. UNCHANGED <<trustVars, srv>>
        BY <1>4 DEF PolicyCommand, InitPolicy, EditPolicy, WritePolicy, ReadPolicy, WriteMigrated,
                    DropCommand
    <2>3. \E task : task \notin TrustJobs /\ cmd' = [cmd EXCEPT ![p] = task]
        BY <1>4, <2>1
        DEF PolicyCommand, InitPolicy, EditPolicy, WritePolicy, ReadPolicy, WriteMigrated,
            DropCommand, BeginCommand, EndCommand
    <2> QED
        BY <1>3, <2>2, <2>3
<1>5. ASSUME NEW s \in Servers, ServerStep(s), UNCHANGED <<trustVars, cmd>> PROVE TrustInv'
    <2>1. \E r : srv' = [srv EXCEPT ![s] = r] /\ (r.trust => srv[s].trust \/ Home \in trusted)
        BY <1>5, ServerMoves DEF ServerMove, Loading, GoesOn, Becomes
    <2> QED
        BY <1>5, <2>1
<1>6. CASE Tick \/ UNCHANGED authorityVars
    BY <1>6 DEF Tick, authorityVars
<1> QED
    BY <1>1, <1>2, <1>4, <1>5, <1>6, ServersOrCommands DEF TrustCommand

-----------------------------------------------------------------------------
(* Policies and leases                                                     *)

OfMeant(policy) == \E f \in meant : policy = PolicyOf(f)

\* The policy file, and what a migration is about to make of it, give what a policy
\* gave that was meant.
FilesWereMeant ==
    /\ OfMeant(PolicyOf(policyFile))
    /\ \A p \in Commands : cmd[p] \in MigrateJobs => OfMeant(PolicyOf(cmd[p].file))

\* The leases of a server have passed load when it started.
LeasesEnd ==
    \A s \in Servers :
        IF HasPolicy(s)
        THEN \A c \in Caps : /\ srv[s].policy.until[c] \in Expiries
                             /\ ~ TooFar(srv[s].policy.until[c], srv[s].since)
        ELSE srv[s].policy.on = {}

PolicyInv == AuthorityWasMeant /\ FilesWereMeant /\ LeasesEnd

\* What is meant stays meant.
LEMMA CommandsMeanPolicies ==
    ASSUME AuthorityTypeOK, PolicyInv, NEW p \in Commands, TrustCommand(p) \/ PolicyCommand(p)
    PROVE  meant \subseteq meant' /\ FilesWereMeant'
<1> USE DEF AuthorityTypeOK, PolicyInv, FilesWereMeant, OfMeant, policyVars
<1>1. ASSUME NEW task, task \notin MigrateJobs, cmd' = [cmd EXCEPT ![p] = task],
             UNCHANGED policyVars
      PROVE  meant \subseteq meant' /\ FilesWereMeant'
    BY <1>1
<1>2. /\ NoCmd \notin MigrateJobs
      /\ \A f : [op |-> "policy", file |-> f] \notin MigrateJobs
      /\ \A op \in {"trust", "untrust"} : \A w, copy :
            [op |-> op, w |-> w, copy |-> copy] \notin MigrateJobs
    BY DEF MigrateJobs, NoCmd
<1>3. ASSUME NEW w \in Workspaces, NEW op \in {"trust", "untrust"}, ReadTrust(p, op, w)
      PROVE  meant \subseteq meant' /\ FilesWereMeant'
    BY <1>1, <1>2, <1>3 DEF ReadTrust, BeginCommand
<1>4. CASE WriteTrust(p) \/ DropCommand(p)
    BY <1>1, <1>2, <1>4 DEF WriteTrust, DropCommand, EndCommand
<1>5. ASSUME NEW on \in SUBSET Caps, NEW n \in 1..MaxLease, InitPolicy(p, on, n)
      PROVE  meant \subseteq meant' /\ FilesWereMeant'
    BY <1>1, <1>2, <1>5 DEF InitPolicy, BeginCommand
<1>6. ASSUME NEW f \in HandWritten, EditPolicy(p, f)
      PROVE  meant \subseteq meant' /\ FilesWereMeant'
    BY <1>1, <1>2, <1>6 DEF EditPolicy, BeginCommand
<1>7. CASE WritePolicy(p)
    BY <1>2, <1>7 DEF WritePolicy, EndCommand
<1>8. CASE ReadPolicy(p)
    <2> DEFINE j == [op |-> "migrate", file |-> Migrated(policyFile)]
    <2>1. OfMeant(PolicyOf(j.file))
        BY MigrationKeepsAuthority
    <2>2. cmd' = [cmd EXCEPT ![p] = j] /\ UNCHANGED policyVars
        BY <1>8 DEF ReadPolicy, BeginCommand
    <2> HIDE DEF j
    <2> QED
        BY <2>1, <2>2
<1>9. CASE WriteMigrated(p)
    BY <1>2, <1>9 DEF WriteMigrated, EndCommand
<1> QED
    BY <1>3, <1>4, <1>5, <1>6, <1>7, <1>8, <1>9 DEF TrustCommand, PolicyCommand

LEMMA PolicyInvStep ==
    ASSUME AuthorityTypeOK, PolicyInv, [AuthorityNext]_authorityVars
    PROVE  PolicyInv'
<1>1. ASSUME NEW s \in Servers, ServerStep(s), UNCHANGED <<policyVars, cmd, now>>
      PROVE  PolicyInv'
    <2>1. FilesWereMeant'
        BY <1>1 DEF PolicyInv, FilesWereMeant, OfMeant, policyVars
    <2>2. srv \in [Servers -> ServerStates] /\ ServerMove(s) /\ srv[s].pc \in Pcs
        BY <1>1, ServerMoves DEF AuthorityTypeOK, ServerStates
    <2>3. ASSUME NEW r, srv' = [srv EXCEPT ![s] = r],
                 \/ /\ r.pc \in {"off", "load"} /\ r.policy = NoPolicy
                 \/ /\ r.pc \notin {"off", "load"} /\ HasPolicy(s)
                    /\ r.policy = srv[s].policy /\ r.since = srv[s].since
                 \/ /\ r.pc = "lock" /\ Loads(policyFile, now)
                    /\ r.policy = PolicyOf(policyFile) /\ r.since = now
          PROVE  AuthorityWasMeant' /\ LeasesEnd'
        <3>1. \A t \in Servers \ {s} : srv'[t] = srv[t]
            BY <2>2, <2>3
        <3>2. srv'[s] = r /\ UNCHANGED meant
            BY <1>1, <2>2, <2>3 DEF policyVars
        <3>3. CASE r.pc \in {"off", "load"} /\ r.policy = NoPolicy
            <4>1. r.policy.on = {}
                BY <3>3 DEF NoPolicy
            <4> QED
                BY <3>1, <3>2, <3>3, <4>1 DEF PolicyInv, AuthorityWasMeant, LeasesEnd, HasPolicy
        <3>4. CASE /\ r.pc \notin {"off", "load"} /\ HasPolicy(s)
                   /\ r.policy = srv[s].policy /\ r.since = srv[s].since
            BY <3>1, <3>2, <3>4 DEF PolicyInv, AuthorityWasMeant, LeasesEnd, HasPolicy
        <3>5. CASE /\ r.pc = "lock" /\ Loads(policyFile, now)
                   /\ r.policy = PolicyOf(policyFile) /\ r.since = now
            <4>1. \E f \in meant : r.policy = PolicyOf(f)
                BY <3>5 DEF PolicyInv, FilesWereMeant, OfMeant
            <4>2. \A c \in Caps : /\ r.policy.until[c] \in Expiries
                                  /\ ~ TooFar(r.policy.until[c], r.since)
                BY <3>5 DEF AuthorityTypeOK, Files, PolicyOf, Loads
            <4> QED
                BY <3>1, <3>2, <3>5, <4>1, <4>2
                DEF PolicyInv, AuthorityWasMeant, LeasesEnd, HasPolicy
        <3> QED
            BY <2>3, <3>3, <3>4, <3>5
    <2>4. \E r : /\ srv' = [srv EXCEPT ![s] = r]
                 /\ \/ /\ r.pc \in {"off", "load"} /\ r.policy = NoPolicy
                    \/ /\ r.pc \notin {"off", "load"} /\ HasPolicy(s)
                       /\ r.policy = srv[s].policy /\ r.since = srv[s].since
                    \/ /\ r.pc = "lock" /\ Loads(policyFile, now)
                       /\ r.policy = PolicyOf(policyFile) /\ r.since = now
        BY <2>2 DEF ServerMove, Loading, GoesOn, Becomes, HasPolicy, LoadPolicy, LockKey,
                    ReadKey, CreateKey, WriteKey, ServerGoes
    <2> QED
        BY <2>1, <2>3, <2>4 DEF PolicyInv
<1>2. ASSUME NEW p \in Commands, TrustCommand(p) \/ PolicyCommand(p), UNCHANGED srv
      PROVE  PolicyInv'
    BY <1>2, CommandsMeanPolicies DEF PolicyInv, AuthorityWasMeant, LeasesEnd, HasPolicy
<1>3. CASE Tick \/ UNCHANGED authorityVars
    BY <1>3 DEF Tick, authorityVars, policyVars, PolicyInv, AuthorityWasMeant, FilesWereMeant,
                OfMeant, LeasesEnd, HasPolicy
<1> QED
    BY <1>1, <1>2, <1>3, ServersOrCommands

\* No authority outlives a lease that load has let through.
LEMMA LeasesBoundAuthority == AuthorityTypeOK /\ PolicyInv => AuthorityEnds
<1> SUFFICES ASSUME AuthorityTypeOK, PolicyInv, NEW s \in Servers, NEW c \in Caps,
                    Allows(srv[s].policy, c, now)
             PROVE  now <= srv[s].since + MaxLease
    BY DEF AuthorityEnds
<1> DEFINE e == srv[s].policy.until[c]
<1>1. HasPolicy(s)
    BY DEF PolicyInv, LeasesEnd, Allows
<1>2. e \in Expiries /\ ~ TooFar(e, srv[s].since) /\ Live(e, now)
    BY <1>1 DEF PolicyInv, LeasesEnd, Allows
<1>3. now \in Nat /\ srv[s].since \in Nat /\ MaxLease \in Nat
    BY AuthorityAssumption DEF AuthorityTypeOK, ServerStates
<1> HIDE DEF e
<1> QED
    BY <1>2, <1>3 DEF TooFar, Live, Expiries

-----------------------------------------------------------------------------
(* The key                                                                 *)

\* Who is at the key file has the lock.
KeyIsLocked == \A s \in Servers : srv[s].pc \in {"key", "write key"} <=> keyLock = s

\* Nobody serves before there is a key, or while one is made; who serves has the key
\* in the file, or is the only one and has made the key that was cut short.
KeyIsShared ==
    /\ keyFile = NoKey => \A s \in Servers : srv[s].pc \notin {"serving", "write key"}
    /\ \A s \in Servers : srv[s].pc = "write key" =>
          keyFile = ShortKey /\ \A r \in Servers : ~ Serving(r)
    /\ keyFile \in Servers => \A s \in Servers : Serving(s) => srv[s].key = keyFile
    /\ keyFile = ShortKey => \A s, r \in Servers : Serving(s) /\ Serving(r) => s = r
    /\ keyFile = ShortKey => cut \/ \E s \in Servers : srv[s].pc = "write key"

KeyInv == KeyIsLocked /\ KeyIsShared

LEMMA KeyInvStep ==
    ASSUME AuthorityTypeOK, KeyInv, [AuthorityNext]_authorityVars
    PROVE  KeyInv'
<1> USE AuthorityAssumption DEF KeyInv, KeyIsLocked, KeyIsShared, Serving, keyVars
<1>1. ASSUME NEW s \in Servers, ServerStep(s) PROVE KeyInv'
    <2>1. /\ srv \in [Servers -> ServerStates] /\ ServerMove(s)
          /\ keyFile \in Servers \cup {NoKey, ShortKey}
        BY <1>1, ServerMoves DEF AuthorityTypeOK
    <2>2. NoKey # ShortKey
        BY DEF NoKey, ShortKey
    <2>3. CASE \E t \in BOOLEAN : Loading(s, t)
        <3>1. PICK r : srv' = [srv EXCEPT ![s] = r] /\ r.pc = "load"
            BY <2>3 DEF Loading, Becomes
        <3>2. srv[s].pc = "off" /\ UNCHANGED <<keyFile, keyLock, cut>>
            BY <2>3 DEF Loading
        <3>3. /\ \A q \in Servers \ {s} : srv'[q] = srv[q]
              /\ srv'[s].pc = "load"
            BY <2>1, <3>1
        <3> QED
            BY <3>2, <3>3, ZenonT(60)
    <2>4. CASE /\ LoadPolicy(s)
               /\ Becomes(s, "lock", PolicyOf(policyFile), now, srv[s].trust, srv[s].key)
        BY <2>1, <2>4, ZenonT(60) DEF Becomes, LoadPolicy, ServerGoes
    <2>5. CASE LockKey(s) /\ GoesOn(s, "key", srv[s].key)
        BY <2>1, <2>5, ZenonT(60) DEF GoesOn, Becomes, LockKey, ServerGoes
    <2>6. CASE ReadKey(s) /\ GoesOn(s, "serving", keyFile)
        BY <2>1, <2>6, ZenonT(60) DEF GoesOn, Becomes, ReadKey, ServerGoes
    <2>7. CASE CreateKey(s) /\ GoesOn(s, "write key", srv[s].key)
        BY <2>1, <2>2, <2>7, ZenonT(60) DEF GoesOn, Becomes, CreateKey, ServerGoes
    <2>8. CASE WriteKey(s) /\ GoesOn(s, "serving", s)
        BY <2>1, <2>2, <2>8, ZenonT(60) DEF GoesOn, Becomes, WriteKey, ServerGoes
    <2>9. CASE Stop(s) /\ Becomes(s, "off", NoPolicy, 0, FALSE, NoKey)
        BY <2>1, <2>2, <2>9, ZenonT(60) DEF Becomes, Stop
    <2> QED
        BY <2>1, <2>3, <2>4, <2>5, <2>6, <2>7, <2>8, <2>9 DEF ServerMove
<1>2. CASE UNCHANGED <<srv, keyVars>>
    BY <1>2
<1> QED
    BY <1>1, <1>2, ServersOrCommands DEF Tick, authorityVars

\* Who serves has one key, and a key that is short has been cut.
LEMMA SharedKeyIsOne == AuthorityTypeOK /\ KeyInv => OneKey
<1> SUFFICES ASSUME AuthorityTypeOK, KeyInv PROVE OneKey
    OBVIOUS
<1>1. ASSUME NEW s \in Servers, NEW r \in Servers, Serving(s), Serving(r)
      PROVE  srv[s].key = srv[r].key
    BY <1>1 DEF AuthorityTypeOK, KeyInv, KeyIsShared, Serving
<1>2. keyFile = ShortKey /\ keyLock = Nobody => cut
    BY AuthorityAssumption DEF KeyInv, KeyIsLocked, KeyIsShared
<1> QED
    BY <1>1, <1>2 DEF OneKey

-----------------------------------------------------------------------------
(* The invariant of the specification, and the properties that follow      *)

AuthorityInv == AuthorityTypeOK /\ TrustInv /\ PolicyInv /\ KeyInv

LEMMA AuthorityInvInit == AuthorityInit => AuthorityInv
<1> SUFFICES ASSUME AuthorityInit PROVE AuthorityInv
    OBVIOUS
<1>1. /\ \A p \in Commands : cmd[p] = NoCmd
      /\ \A s \in Servers : srv[s].pc = "off" /\ srv[s].trust = FALSE /\ srv[s].policy.on = {}
    BY DEF AuthorityInit, Off, NoPolicy
<1>2. TrustInv
    BY <1>1, JobsDiffer
    DEF AuthorityInit, TrustInv, TrustWasGiven, CopiesAreGiven, NoneJobs
<1>3. PolicyInv
    BY <1>1, JobsDiffer
    DEF AuthorityInit, PolicyInv, AuthorityWasMeant, FilesWereMeant, OfMeant, LeasesEnd,
        HasPolicy, NoneJobs
<1>4. KeyInv
    <2>1. NoKey # ShortKey
        BY DEF NoKey, ShortKey
    <2> QED
        BY <1>1, <2>1, AuthorityAssumption
        DEF AuthorityInit, KeyInv, KeyIsLocked, KeyIsShared, Serving
<1> QED
    BY <1>2, <1>3, <1>4, AuthorityTypeInit DEF AuthorityInv

\* AuthorityInv always holds: it is inductive.
THEOREM AuthorityInvariant == AuthoritySpec => []AuthorityInv
<1>1. AuthorityInit => AuthorityInv
    BY AuthorityInvInit
<1>2. AuthorityInv /\ [AuthorityNext]_authorityVars => AuthorityInv'
    BY AuthorityTypeStep, TrustInvStep, PolicyInvStep, KeyInvStep DEF AuthorityInv
<1> QED
    BY <1>1, <1>2, PTL DEF AuthoritySpec

\* Every variable of the specification keeps its type: what migrate-policy writes is
\* a policy file, what load makes of one is a policy.
THEOREM AuthorityTypeCorrect == AuthoritySpec => []AuthorityTypeOK
<1>1. AuthorityInv => AuthorityTypeOK
    BY DEF AuthorityInv
<1> QED
    BY <1>1, AuthorityInvariant, PTL

\* The trust a server starts on was given, and without a race of trust and untrust
\* it is what the last of them said (trust.py).
THEOREM TrustStaysGiven == AuthoritySpec => []TrustWasGiven
<1>1. AuthorityInv => TrustWasGiven
    BY DEF AuthorityInv, TrustInv
<1> QED
    BY <1>1, AuthorityInvariant, PTL

\* The policy of a server gives what some policy a user wrote gives, however often
\* it was migrated and however stale the migration (migrate_policy_data).
THEOREM AuthorityStaysMeant == AuthoritySpec => []AuthorityWasMeant
<1>1. AuthorityInv => AuthorityWasMeant
    BY DEF AuthorityInv, PolicyInv
<1> QED
    BY <1>1, AuthorityInvariant, PTL

\* The capabilities of a server end by its start and the longest lease, whatever
\* times, NaN or infinity the policy file has (_parse_expiry, load, _live).
THEOREM AuthorityAlwaysEnds == AuthoritySpec => []AuthorityEnds
<1>1. AuthorityInv => AuthorityEnds
    BY LeasesBoundAuthority DEF AuthorityInv
<1> QED
    BY <1>1, AuthorityInvariant, PTL

\* Servers that run together have one key, and only a cut write leaves a key that
\* no server accepts (_load_or_create_key).
THEOREM KeyStaysOne == AuthoritySpec => []OneKey
<1>1. AuthorityInv => OneKey
    BY SharedKeyIsOne DEF AuthorityInv
<1> QED
    BY <1>1, AuthorityInvariant, PTL

-----------------------------------------------------------------------------
(* The parts side by side.                                                 *)

\* Whatever part moves, each part does a step of its own or rests.
LEMMA PartsStep ==
    ASSUME s1 \in Servers, [MCNext]_MCVars
    PROVE  /\ [Next]_vars /\ [InstallerNext]_installerVars
           /\ [AuthorityNext]_authorityVars /\ [GateNext]_gateVars
           /\ [LimiterNext]_limiterVars /\ [LaunchNext]_launchVars
           /\ part' = part
<1>1. CASE UNCHANGED MCVars
  BY <1>1 DEF MCVars
<1>2. CASE part = "bootstrap" /\ MCNext
  BY <1>2 DEF MCNext
<1>3. CASE part = "installer" /\ MCNext
  BY <1>3 DEF MCNext
<1>4. CASE part = "trust" /\ MCNext
  BY <1>4 DEF MCNext, AuthorityNext, ServerStep
<1>5. CASE part = "policy" /\ MCNext
  BY <1>5 DEF MCNext, AuthorityNext, ServerStep
<1>6. CASE part = "servers" /\ MCNext
  BY <1>6 DEF MCNext, AuthorityNext
<1>7. CASE part \in {"gate", "limiter", "launch"} /\ MCNext
  BY <1>7 DEF MCNext
<1> QED
  BY <1>1, <1>2, <1>3, <1>4, <1>5, <1>6, <1>7 DEF MCNext

\* The run's specification implements that of each part, because a part that rests
\* stutters: so the type theorems above hold of the parts side by side.
LEMMA PartsAreIndependent ==
    s1 \in Servers =>
        (MCSpec => /\ Spec /\ InstallerSpec /\ AuthoritySpec
                   /\ GateSpec /\ LimiterSpec /\ LaunchSpec)
<1> SUFFICES ASSUME s1 \in Servers
             PROVE  MCSpec => /\ Spec /\ InstallerSpec /\ AuthoritySpec
                              /\ GateSpec /\ LimiterSpec /\ LaunchSpec
  OBVIOUS
<1>1. MCInit => /\ Init /\ InstallerInit /\ AuthorityInit
                /\ GateInit /\ LimiterInit /\ LaunchInit
  BY DEF MCInit
<1>2. [MCNext]_MCVars => /\ [Next]_vars /\ [InstallerNext]_installerVars
                         /\ [AuthorityNext]_authorityVars /\ [GateNext]_gateVars
                         /\ [LimiterNext]_limiterVars /\ [LaunchNext]_launchVars
  BY PartsStep
<1> QED
  BY <1>1, <1>2, PTL DEF MCSpec, Spec, InstallerSpec, AuthoritySpec, GateSpec,
         LimiterSpec, LaunchSpec

\* Every variable of the part that runs keeps its type: the type invariants of all
\* six modules, through every failure, kill and race that they model.
THEOREM LocalTypesHold == s1 \in Servers => (MCSpec => []LocalTypeOK)
<1> SUFFICES ASSUME s1 \in Servers PROVE MCSpec => []LocalTypeOK
  OBVIOUS
<1>1. /\ TypeOK /\ InstallerTypeOK /\ AuthorityTypeOK
      /\ GateTypeOK /\ LimiterTypeOK /\ LaunchTypeOK
      => LocalTypeOK
  BY DEF LocalTypeOK
<1> QED
  BY <1>1, PartsAreIndependent, LauncherAlwaysWorks, InstallStaysUndone,
     AuthorityTypeCorrect, StableWasReviewed, LimitsStayKept, LaunchCorrect, PTL
=============================================================================
