----------------------------- MODULE Bootstrap -----------------------------
(***************************************************************************)
(* The release bootstrap (scripts/release_bootstrap.py): every version is  *)
(* installed in a directory of its own, which is marked with the digest of *)
(* its wheel once it works; then the launcher is switched to it, and then  *)
(* the manifest says so. There is no lock: two installers may run at once, *)
(* each may fail or be killed at any step, and the user may clear away     *)
(* directories. A file is replaced by a rename, which is one step.         *)
(*                                                                         *)
(* A manifest file that is not there is read as an empty manifest, and     *)
(* nothing tells the two apart.                                            *)
(***************************************************************************)
EXTENDS Naturals, Sequences, SequencesExt

CONSTANTS
    Installers,     \* processes that run the script
    Versions,
    Digests,        \* of wheels; there may be several wheels of a version
    HistoryLimit    \* how many versions the history keeps: 10 in the code

None == "none"
Absent == "absent"      \* there is no such directory
Part == "part"          \* a directory in which nothing works yet

ASSUME BootstrapAssumption ==
    /\ None \notin Versions
    /\ {None, Absent, Part} \cap Digests = {}
    /\ HistoryLimit \in Nat \ {0}

VARIABLES
    release,        \* the directories: what was installed, and the marker
    launcher,       \* the version the launcher starts
    manifest,       \* install-state.json
    pc, job,        \* what each installer does
    torn,           \* history: launcher and manifest were not written together
    before          \* history: what an upgrade has replaced

vars == <<release, launcher, manifest, pc, job, torn, before>>

Releases == [env : Digests \cup {Absent, Part}, mark : Digests \cup {None}]
NoRelease == [env |-> Absent, mark |-> None]

Manifests == [current : Versions \cup {None}, history : Seq(Versions),
              digests : [Versions -> Digests \cup {None}]]
NoManifest == [current |-> None, history |-> <<>>, digests |-> [v \in Versions |-> None]]

\* What an installer is to do, with the manifest it has read.
Jobs == [op : {"install", "rollback"}, v : Versions, d : Digests, man : Manifests]
NoJob == [op |-> "none"]

Building == {"mkdir", "build", "smoke", "mark", "cleanup"}
Switching == {"verify", "try", "launch", "record"}

\* Who has replaced the launcher and not yet the manifest.
Midway(p) == pc[p] \in {"record", "forget"}

TypeOK ==
    /\ release \in [Versions -> Releases]
    /\ launcher \in Versions \cup {None}
    /\ manifest \in Manifests /\ Len(manifest.history) <= HistoryLimit
    /\ pc \in [Installers -> {"idle", "forget"} \cup Building \cup Switching]
    /\ DOMAIN job = Installers
    /\ \A p \in Installers :
          IF pc[p] \in {"idle", "forget"} THEN job[p] = NoJob ELSE job[p] \in Jobs
    /\ torn \in BOOLEAN
    /\ before \in Versions \cup {None}

Init ==
    /\ release = [v \in Versions |-> NoRelease]
    /\ launcher = None
    /\ manifest = NoManifest
    /\ pc = [p \in Installers |-> "idle"] /\ job = [p \in Installers |-> NoJob]
    /\ torn = FALSE /\ before = None

-----------------------------------------------------------------------------
(* The manifests install and rollback write.                               *)

\* Mutant: the history grows without limit.
LatestAll(s) == s

\* history[-10:]
Latest(s) == IF Len(s) <= HistoryLimit THEN s
             ELSE SubSeq(s, Len(s) - HistoryLimit + 1, Len(s))

\* [entry for entry in history if entry != current], by the places of its entries:
\* the n-th one is the one that has n - 1 of the others before it.
Without(s, x) ==
    LET kept == {i \in DOMAIN s : s[i] # x}
        Rank(i) == Cardinality({j \in kept : j <= i})
    IN  [n \in 1 .. Cardinality(kept) |-> s[CHOOSE i \in kept : Rank(i) = n]]

\* Mutant: the replaced version is not kept.
InstalledForgetting(man, v, d) ==
    [current |-> v, history |-> man.history, digests |-> [man.digests EXCEPT ![v] = d]]

Installed(man, v, d) ==
    [current |-> v,
     history |-> Latest(IF man.current \in {None, v} THEN man.history
                        ELSE Append(Without(man.history, man.current), man.current)),
     digests |-> [man.digests EXCEPT ![v] = d]]

\* The version that is left becomes the oldest of the history.
RolledBack(man) ==
    LET v == Last(man.history)
        left == Front(man.history)
    IN  [current |-> v,
         history |-> Latest(IF man.current = v THEN left ELSE <<man.current>> \o left),
         digests |-> man.digests]

-----------------------------------------------------------------------------
Goto(p, from, to) == pc[p] = from /\ pc' = [pc EXCEPT ![p] = to]

Start(p, to, j) == Goto(p, "idle", to) /\ job' = [job EXCEPT ![p] = j]

SetRelease(v, r) == release' = [release EXCEPT ![v] = r]

\* install up to the look at the target: the wheel has the digest the user
\* gives, and the manifest no other for this version.
Install(p, v, d) ==
    /\ manifest.digests[v] \in {None, d}
    /\ Start(p, IF release[v] = NoRelease THEN "mkdir" ELSE "verify",
             [op |-> "install", v |-> v, d |-> d, man |-> manifest])
    /\ UNCHANGED <<release, launcher, manifest, torn, before>>

\* mkdir, which fails if another installer was faster: see Fail.
MakeTarget(p) ==
    /\ Goto(p, "mkdir", "build")
    /\ release[job[p].v] = NoRelease
    /\ SetRelease(job[p].v, [NoRelease EXCEPT !.env = Part])
    /\ UNCHANGED <<launcher, manifest, job, torn, before>>

\* The virtual environment, and the wheel in it. (pip opens the wheel again by its
\* path: that it is still the one whose digest was taken is assumed.)
Build(p) ==
    /\ Goto(p, "build", "smoke")
    /\ SetRelease(job[p].v, [release[job[p].v] EXCEPT !.env = job[p].d])
    /\ UNCHANGED <<launcher, manifest, job, torn, before>>

\* _smoke_release, before the marker is written and before every switch.
Smoke(p) ==
    /\ Goto(p, "smoke", "mark") \/ Goto(p, "try", "launch")
    /\ release[job[p].v].env \in Digests
    /\ UNCHANGED <<release, launcher, manifest, job, torn, before>>

Mark(p) ==
    /\ Goto(p, "mark", "launch")
    /\ SetRelease(job[p].v, [release[job[p].v] EXCEPT !.mark = job[p].d])
    /\ UNCHANGED <<launcher, manifest, job, torn, before>>

\* rmtree with ignore_errors: a part may stay.
CleanUp(p) ==
    /\ Goto(p, "cleanup", "idle")
    /\ \E r \in {NoRelease, [NoRelease EXCEPT !.env = Part]} : SetRelease(job[p].v, r)
    /\ job' = [job EXCEPT ![p] = NoJob]
    /\ UNCHANGED <<launcher, manifest, torn, before>>

\* Mutant: a directory that is there is good enough.
VerifyNothing(p) ==
    /\ Goto(p, "verify", "launch")
    /\ UNCHANGED <<release, launcher, manifest, job, torn, before>>

\* Mutant: any marker will do.
VerifyAnyWheel(p) ==
    /\ Goto(p, "verify", "try")
    /\ release[job[p].v].mark # None
    /\ UNCHANGED <<release, launcher, manifest, job, torn, before>>

\* _load_release_info of a directory that was there.
Verify(p) ==
    /\ Goto(p, "verify", "try")
    /\ release[job[p].v].mark = job[p].d
    /\ UNCHANGED <<release, launcher, manifest, job, torn, before>>

\* rollback up to the choice of the version.
Rollback(p) ==
    /\ manifest.history # <<>>
    /\ LET v == Last(manifest.history)
       IN  /\ manifest.digests[v] # None
           /\ Start(p, "verify", [op |-> "rollback", v |-> v, d |-> manifest.digests[v],
                                  man |-> manifest])
    /\ UNCHANGED <<release, launcher, manifest, torn, before>>

\* Somebody else is midway: the launcher of one may meet the manifest of the other.
Overlaps(p) == \E q \in Installers \ {p} : Midway(q)

Launch(p) ==
    LET j == job[p]
    IN  /\ Goto(p, "launch", "record")
        /\ launcher' = j.v
        /\ torn' = Overlaps(p)
        /\ before' = IF j.op = "install" /\ j.man.current = launcher /\ launcher # j.v
                     THEN launcher ELSE None
        /\ UNCHANGED <<release, manifest, job>>

Record(p) ==
    LET j == job[p]
    IN  /\ Goto(p, "record", "idle")
        /\ manifest' = IF j.op = "install" THEN Installed(j.man, j.v, j.d)
                       ELSE RolledBack(j.man)
        /\ job' = [job EXCEPT ![p] = NoJob]
        /\ UNCHANGED <<release, launcher, torn, before>>

\* uninstall: the launcher, then the manifest. The releases stay.
Uninstall(p) ==
    /\ Goto(p, "idle", "forget")
    /\ launcher' = None
    /\ torn' = Overlaps(p) /\ before' = None
    /\ UNCHANGED <<release, manifest, job>>

Forget(p) ==
    /\ Goto(p, "forget", "idle")
    /\ manifest' = NoManifest
    /\ UNCHANGED <<release, launcher, job, torn, before>>

\* A step is refused or raises.
Fail(p) ==
    /\ pc[p] \notin {"idle", "cleanup"}
    /\ IF pc[p] \in {"build", "smoke", "mark"}
       THEN Goto(p, pc[p], "cleanup") /\ UNCHANGED job
       ELSE Goto(p, pc[p], "idle") /\ job' = [job EXCEPT ![p] = NoJob]
    /\ torn' = (torn \/ Midway(p))
    /\ UNCHANGED <<release, launcher, manifest, before>>

\* The script is killed. (A machine that stops may also lose files that pip wrote and
\* never synced, beside a marker that is there: that is not modelled.)
Kill(p) ==
    /\ pc[p] # "idle"
    /\ Goto(p, pc[p], "idle") /\ job' = [job EXCEPT ![p] = NoJob]
    /\ torn' = (torn \/ Midway(p))
    /\ UNCHANGED <<release, launcher, manifest, before>>

\* The user clears away what a killed installer has left, which makes every
\* later installation of the version fail.
ClearAway(v) ==
    /\ \A p \in Installers : pc[p] = "idle"
    /\ release[v] # NoRelease /\ release[v].mark = None
    /\ SetRelease(v, NoRelease)
    /\ UNCHANGED <<launcher, manifest, pc, job, torn, before>>

Next ==
    \/ \E p \in Installers :
          \/ \E v \in Versions, d \in Digests : Install(p, v, d)
          \/ MakeTarget(p) \/ Build(p) \/ Smoke(p) \/ Mark(p) \/ CleanUp(p) \/ Verify(p)
          \/ Rollback(p) \/ Launch(p) \/ Record(p) \/ Uninstall(p) \/ Forget(p)
          \/ Fail(p) \/ Kill(p)
    \/ \E v \in Versions : ClearAway(v)

Spec == Init /\ [][Next]_vars

-----------------------------------------------------------------------------
\* The launcher starts a version that was installed whole and passed its check:
\* whoever else installs, fails or is killed.
LauncherWorks ==
    launcher # None => release[launcher].mark # None
                       /\ release[launcher].env = release[launcher].mark

\* A version is bound to one wheel: the digest in the manifest, also in one that
\* is about to be written, and the marker of the directory are the same, and it
\* is the wheel that was installed.
OneWheelPerVersion ==
    \A v \in Versions :
        LET r == release[v]
        IN  r.mark # None =>
              /\ r.env = r.mark
              /\ manifest.digests[v] \in {None, r.mark}
              /\ \A p \in Installers :
                    pc[p] \in {"launch", "record"} => job[p].man.digests[v] \in {None, r.mark}

Quiet == \A p \in Installers : pc[p] = "idle"

\* After an upgrade the version it replaced is the one a rollback goes to, and
\* its digest is known; and the manifest names the version the launcher starts.
\* Unless an installer was stopped between launcher and manifest, or two were
\* there at once: the next switch mends it.
UpgradeCanBeUndone ==
    Quiet /\ ~ torn =>
        /\ manifest.current = launcher
        /\ before # None =>
              /\ manifest.history # <<>> /\ Last(manifest.history) = before
              /\ manifest.digests[before] # None

\* A rollback leaves the version that is current: it goes to a previous one.
RollbackLeavesCurrent ==
    [][\A p \in Installers :
          pc[p] = "launch" /\ pc'[p] = "record" /\ job[p].op = "rollback" =>
              launcher' # job[p].man.current]_vars
=============================================================================
