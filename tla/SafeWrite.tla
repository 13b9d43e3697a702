----------------------------- MODULE SafeWrite -----------------------------
(***************************************************************************)
(* stable_atomic_write (src/gpthands/safe_write.py), its POSIX branch: the *)
(* new content goes to a temporary file beside the target, is synced, and  *)
(* takes the target's name by a rename or, when nothing may be overwritten, *)
(* by a hard link; then the directory is synced.                           *)
(*                                                                         *)
(* A name has the values it was given since its directory was last synced: *)
(* everybody sees the last one, a power loss may bring back any of them.   *)
(* The user and the user's programs change the same files at any time.     *)
(***************************************************************************)
EXTENDS Naturals, Sequences, SequencesExt

CONSTANTS
    Procs,          \* processes that write
    Host,           \* the user and the user's programs
    Names,          \* the files
    Contents,       \* what the files may hold
    DirSyncs,       \* the file system can sync directories
    MaxUnsynced     \* bound on the values of a name

Absent == "absent"      \* the name does not exist
Torn == "torn"          \* a file whose data did not all reach the disk

ASSUME WriteAssumption ==
    /\ Host \notin Procs
    /\ {Absent, Torn} \cap Contents = {}
    /\ DirSyncs \in BOOLEAN
    /\ MaxUnsynced \in Nat \ {0, 1}

VARIABLES
    file,       \* the values of each name: who gave it (the user, once it is on
                \* the disk for good), and is its data synced
    temp,       \* the temporary file a process has still to rename or remove, or
                \* could not remove
    pc, job     \* where each process is, and what it writes

Values == [val : Contents \cup {Absent, Torn}, by : Procs \cup {Host}, synced : BOOLEAN]

\* What a process sees under a name.
Seen(n) == Last(file[n]).val

Writing == {"stat", "create", "fill", "commit", "unlink", "dirsync", "cleanup"}

Temps == {"none", "empty", "written", "synced", "stuck"}

WriteTypeOK ==
    /\ file \in [Names -> Seq(Values)]
    /\ \A n \in Names : Len(file[n]) \in 1..MaxUnsynced
    /\ temp \in [Procs -> Temps]

WriteInit ==
    /\ file \in [Names -> {<<[val |-> v, by |-> Host, synced |-> TRUE]>> :
                              v \in Contents \cup {Absent}}]
    /\ temp = [p \in Procs |-> "none"]

Goto(p, from, to) == pc[p] = from /\ pc' = [pc EXCEPT ![p] = to]

SetTemp(p, t) == temp' = [temp EXCEPT ![p] = t]

\* Mutant: the old file is removed, for the rename to find the name free.
StatRemoves(p) ==
    LET n == job[p].name
    IN  /\ Goto(p, "stat", "create")
        /\ job[p].overwrite /\ Len(file[n]) < MaxUnsynced
        /\ file' = [file EXCEPT ![n] = Append(@, [val |-> Absent, by |-> p, synced |-> TRUE])]
        /\ UNCHANGED temp

\* The target is looked at in its opened directory.
Stat(p) ==
    /\ Goto(p, "stat", "create")
    /\ job[p].overwrite \/ Seen(job[p].name) = Absent
    /\ UNCHANGED <<file, temp>>

CreateTemp(p) ==
    /\ Goto(p, "create", "fill")
    /\ SetTemp(p, "empty")
    /\ UNCHANGED file

\* Mutant: the data is not synced.
FillUnsynced(p) ==
    /\ Goto(p, "fill", "commit")
    /\ SetTemp(p, "written")
    /\ UNCHANGED file

\* _write_fd_all writes until all is written, and syncs.
Fill(p) ==
    /\ Goto(p, "fill", "commit")
    /\ SetTemp(p, "synced")
    /\ UNCHANGED file

\* The temporary file gets the target's name.
Publish(p) ==
    LET n == job[p].name
    IN  /\ Len(file[n]) < MaxUnsynced
        /\ file' = [file EXCEPT ![n] =
              Append(@, [val |-> job[p].new, by |-> p, synced |-> temp[p] = "synced"])]

Replace(p) ==
    /\ Goto(p, "commit", "dirsync")
    /\ job[p].overwrite
    /\ Publish(p)
    /\ SetTemp(p, "none")

\* Mutant: link replaces what it finds.
LinkOver(p) ==
    /\ Goto(p, "commit", "unlink")
    /\ ~ job[p].overwrite
    /\ Publish(p)
    /\ UNCHANGED temp

\* os.link, which fails if the name has appeared since Stat.
Link(p) ==
    /\ Goto(p, "commit", "unlink")
    /\ ~ job[p].overwrite
    /\ Seen(job[p].name) = Absent
    /\ Publish(p)
    /\ UNCHANGED temp

UnlinkTemp(p) ==
    /\ Goto(p, "unlink", "dirsync")
    /\ SetTemp(p, "none")
    /\ UNCHANGED file

\* Mutant: the directory is not synced.
SyncForgotten(p) == Goto(p, "dirsync", "written") /\ UNCHANGED <<file, temp>>

\* EINVAL and EROFS are taken for a file system that cannot.
SyncDir(p) ==
    /\ Goto(p, "dirsync", "written")
    /\ file' = IF DirSyncs THEN [n \in Names |-> <<[Last(file[n]) EXCEPT !.by = Host]>>]
               ELSE file
    /\ UNCHANGED temp

\* A refusal or an OSError of any of the calls. After the commit it is too late.
WriteError(p) ==
    /\ \/ Goto(p, "stat", "failed") \/ Goto(p, "create", "failed")
       \/ Goto(p, "fill", "cleanup") \/ Goto(p, "commit", "cleanup")
       \/ Goto(p, "unlink", "cleanup")
       \/ DirSyncs /\ Goto(p, "dirsync", "failed")
    /\ UNCHANGED <<file, temp>>

\* The finally clause. It takes a file that is gone for removed; any other error of
\* its unlink goes up in the place of the first one, and the file stays.
CleanUp(p) ==
    /\ Goto(p, "cleanup", "failed")
    /\ SetTemp(p, "none") \/ SetTemp(p, "stuck")
    /\ UNCHANGED file

Publishing(p) == Replace(p) \/ Link(p)

WriteStep(p) ==
    \/ Stat(p) \/ CreateTemp(p) \/ Fill(p) \/ Publishing(p) \/ UnlinkTemp(p) \/ SyncDir(p)
    \/ WriteError(p) \/ CleanUp(p)

\* The user saves or removes a file; the user's programs see to the disk.
HostChange(n, v) ==
    /\ v # Seen(n)
    /\ file' = [file EXCEPT ![n] = <<[val |-> v, by |-> Host, synced |-> TRUE]>>]

\* Of the values of a name that were not synced any may be the last.
Revert ==
    /\ \E keep \in [Names -> 1..MaxUnsynced] :
          /\ \A n \in Names : keep[n] <= Len(file[n])
          /\ file' = [n \in Names |->
                LET e == file[n][keep[n]]
                IN  <<[val |-> IF e.synced THEN e.val ELSE Torn,
                       by |-> Host, synced |-> e.synced]>>]
    /\ temp' = [p \in Procs |-> "none"]
=============================================================================
