----------------------------- MODULE EditServer -----------------------------
(***************************************************************************)
(* The editing tools of the MCP servers: preview_edit and apply_edit       *)
(* (src/gpthands/stable_server.py), write_file (src/gpthands/server.py).   *)
(*                                                                         *)
(* preview_edit shows a change of a file as it is, and keeps the id of     *)
(* (file, old content, new content) in memory. apply_edit wants the file   *)
(* unchanged and the id, asks for approval, writes, and drops the id.      *)
(* write_file calls the replacement of an existing file DESTRUCTIVE, and   *)
(* everything else WRITE; the policy says which of them needs an approval. *)
(* A server has one call at a time; the files may change during it.        *)
(***************************************************************************)
EXTENDS SafeWrite, FiniteSets

CONSTANTS
    Proposed,       \* what the model wants to write
    MaxPreviews     \* bound on the previews a server keeps

ASSUME EditAssumption == Proposed \subseteq Contents /\ MaxPreviews \in Nat \ {0}

VARIABLES
    leased,     \* the write lease is live
    previews,   \* _previews of each server
    raced,      \* history: the target changed after the call looked at it, and
                \* before it committed
    done        \* history: previews applied, and said so, since last shown

vars == <<file, temp, pc, job, leased, previews, raced, done>>

Edit == [name : Names, old : Contents, new : Proposed]

Pcs == Writing \cup {"idle", "approval", "written", "failed"}

Tools == {"apply_edit", "write_file"}
Risks == {"WRITE", "DESTRUCTIVE"}
NoJob == [tool |-> "none"]

Jobs == [tool : Tools, name : Names, old : Contents \cup {Absent}, new : Proposed,
         overwrite : BOOLEAN, risk : Risks]

TypeOK ==
    /\ WriteTypeOK
    /\ pc \in [Procs -> Pcs] /\ job \in [Procs -> Jobs \cup {NoJob}]
    /\ \A p \in Procs : IF pc[p] = "idle" THEN job[p] = NoJob ELSE job[p] \in Jobs
    /\ leased \in BOOLEAN
    /\ previews \in [Procs -> SUBSET Edit] /\ done \in [Procs -> SUBSET Edit]
    /\ raced \in [Procs -> BOOLEAN]

Init ==
    /\ WriteInit
    /\ pc = [p \in Procs |-> "idle"] /\ job = [p \in Procs |-> NoJob]
    /\ leased = TRUE
    /\ previews = [p \in Procs |-> {}] /\ done = [p \in Procs |-> {}]
    /\ raced = [p \in Procs |-> FALSE]

\* The edit a job of apply_edit carries out.
EditOf(j) == [name |-> j.name, old |-> j.old, new |-> j.new]

\* _preview_edit, of a file that can be read.
Preview(p, n, c) ==
    LET e == [name |-> n, old |-> Seen(n), new |-> c]
    IN  /\ pc[p] = "idle"
        /\ Seen(n) \in Contents
        /\ previews' = [previews EXCEPT ![p] = @ \cup {e}]
        /\ Cardinality(previews'[p]) <= MaxPreviews
        /\ done' = [done EXCEPT ![p] = @ \ {e}]
        /\ UNCHANGED <<file, temp, pc, job, leased, raced>>

\* A call begins with require_write.
Begin(p, j) ==
    /\ Goto(p, "idle", "approval")
    /\ leased
    /\ job' = [job EXCEPT ![p] = j]
    /\ raced' = [raced EXCEPT ![p] = FALSE]
    /\ UNCHANGED <<file, temp, leased, previews, done>>

\* _apply_edit up to the approval.
ApplyEdit(p, e) ==
    /\ e \in previews[p]
    /\ Seen(e.name) = e.old
    /\ Begin(p, [tool |-> "apply_edit", name |-> e.name, old |-> e.old, new |-> e.new,
                 overwrite |-> TRUE, risk |-> "WRITE"])

\* _write_file up to the approval: this is where the risk is decided. Nothing is
\* kept of the old content.
WriteFile(p, n, c, over) ==
    Begin(p, [tool |-> "write_file", name |-> n, old |-> Absent, new |-> c, overwrite |-> over,
              risk |-> IF over /\ Seen(n) # Absent THEN "DESTRUCTIVE" ELSE "WRITE"])

\* _require_approval: not needed for this risk, or the token is good.
Approved(p) ==
    /\ Goto(p, "approval", "stat")
    /\ UNCHANGED <<file, temp, job, leased, previews, raced, done>>

NotApproved(p) ==
    /\ Goto(p, "approval", "failed")
    /\ UNCHANGED <<file, temp, job, leased, previews, raced, done>>

\* Before the commit a call relies on what it has seen of the file.
BeforeCommit == {"approval", "stat", "create", "fill", "commit"}

\* The calls that have looked at a file whose value now changes.
Race(n, by) ==
    raced' = [p \in Procs |->
        p # by /\ (raced[p] \/ (pc[p] \in BeforeCommit /\ job[p].name = n))]

OnFile(p) ==
    /\ WriteStep(p)
    /\ IF Publishing(p) THEN Race(job[p].name, p) ELSE UNCHANGED raced
    /\ UNCHANGED <<job, leased, previews, done>>

\* Mutant: apply_edit does not drop the id.
AnswerKeepsPreview(p) ==
    /\ Goto(p, "written", "idle")
    /\ IF job[p].tool = "apply_edit"
       THEN /\ done' = [done EXCEPT ![p] = @ \cup {EditOf(job[p])}]
            /\ UNCHANGED previews
       ELSE UNCHANGED <<previews, done>>
    /\ job' = [job EXCEPT ![p] = NoJob]
    /\ raced' = [raced EXCEPT ![p] = FALSE]
    /\ UNCHANGED <<file, temp, leased>>

\* "applied" or "written".
Answer(p) ==
    /\ Goto(p, "written", "idle")
    /\ IF job[p].tool = "apply_edit"
       THEN /\ done' = [done EXCEPT ![p] = @ \cup {EditOf(job[p])}]
            /\ previews' = [previews EXCEPT ![p] = @ \ {EditOf(job[p])}]
       ELSE UNCHANGED <<previews, done>>
    /\ job' = [job EXCEPT ![p] = NoJob]
    /\ raced' = [raced EXCEPT ![p] = FALSE]
    /\ UNCHANGED <<file, temp, leased>>

\* The exception goes up to _call_tool. A temporary file that is still there has a
\* random name, which no later call has.
AnswerError(p) ==
    /\ Goto(p, "failed", "idle")
    /\ job' = [job EXCEPT ![p] = NoJob]
    /\ raced' = [raced EXCEPT ![p] = FALSE]
    /\ SetTemp(p, "none")
    /\ UNCHANGED <<file, leased, previews, done>>

HostSaves(n, v) ==
    /\ HostChange(n, v)
    /\ Race(n, Host)
    /\ UNCHANGED <<temp, pc, job, leased, previews, done>>

LeaseExpires ==
    /\ leased /\ leased' = FALSE
    /\ UNCHANGED <<file, temp, pc, job, previews, raced, done>>

Restart(S) ==
    /\ pc' = [p \in Procs |-> IF p \in S THEN "idle" ELSE pc[p]]
    /\ job' = [p \in Procs |-> IF p \in S THEN NoJob ELSE job[p]]
    /\ previews' = [p \in Procs |-> IF p \in S THEN {} ELSE previews[p]]
    /\ done' = [p \in Procs |-> IF p \in S THEN {} ELSE done[p]]
    /\ raced' = [p \in Procs |-> IF p \in S THEN FALSE ELSE raced[p]]
    /\ UNCHANGED leased

\* A server dies; a temporary file of its is left behind.
Kill(p) ==
    /\ pc[p] # "idle"
    /\ Restart({p})
    /\ SetTemp(p, "none")
    /\ UNCHANGED file

PowerLoss == Revert /\ Restart(Procs)

Next ==
    \/ \E p \in Procs :
          \/ \E n \in Names, c \in Proposed : Preview(p, n, c)
          \/ \E e \in previews[p] : ApplyEdit(p, e)
          \/ \E n \in Names, c \in Proposed, over \in BOOLEAN : WriteFile(p, n, c, over)
          \/ Approved(p) \/ NotApproved(p) \/ OnFile(p) \/ Answer(p) \/ AnswerError(p)
          \/ Kill(p)
    \/ \E n \in Names, v \in Contents \cup {Absent} : HostSaves(n, v)
    \/ LeaseExpires \/ PowerLoss

Spec == Init /\ [][Next]_vars

-----------------------------------------------------------------------------
\* Seen from the client: what is asked for, and how far it has come.
Asked(p) ==
    IF pc[p] = "idle" THEN [name |-> "none"]
    ELSE [name |-> job[p].name, new |-> job[p].new, overwrite |-> job[p].overwrite]

Stage(p) ==
    CASE pc[p] = "idle"                                               -> "none"
      [] pc[p] \in BeforeCommit                                       -> "asked"
      [] pc[p] \in {"unlink", "dirsync"}                              -> "effective"
      [] pc[p] = "written"                                            -> "acknowledged"
      [] pc[p] \in {"cleanup", "failed"}                              -> "failed"

\* What a power loss may bring back: the values behind the last.
Older(n) == {file[n][i].val : i \in 1..Len(file[n]) - 1}

Files == INSTANCE AtomicFiles WITH
    Durable <- DirSyncs,
    content <- [n \in Names |-> Seen(n)],
    fallback <- [n \in Names |-> Older(n)],
    writing <- [p \in Procs |-> Asked(p)],
    stage <- [p \in Procs |-> Stage(p)]

-----------------------------------------------------------------------------
\* Whatever the power loss interrupts, a file is never a part of what somebody
\* wrote: the data is on the disk before it has a name.
FilesAreWhole == \A n \in Names : Seen(n) # Torn

\* A client that is told "written" or "applied" finds its content there after
\* a power loss, unless somebody has changed the file since; where directories
\* can be synced.
AnswersAreDurable ==
    DirSyncs => \A p \in Procs, n \in Names :
        pc[p] = "written" => \A i \in 2..Len(file[n]) : file[n][i].by # p

\* A call that succeeds has left no temporary file beside the user's files, and one
\* that fails only the file that it tried to remove in the end, and could not.
NoLitter ==
    \A p \in Procs :
        /\ pc[p] = "written" => temp[p] = "none"
        /\ pc[p] = "failed" => temp[p] \in {"none", "stuck"}

Commits(p) == pc[p] = "commit" /\ pc'[p] \in {"unlink", "dirsync"}

\* What a commit may replace: the content whose change was shown, or, by a
\* write that was called destructive, anything.
MayReplace(p) ==
    LET j == job[p]
    IN  \/ Seen(j.name) = Absent
        \/ j.tool = "apply_edit" /\ Seen(j.name) = j.old
        \/ j.overwrite /\ j.risk = "DESTRUCTIVE"

\* No file is replaced but one whose change was shown or whose replacement was
\* called destructive, unless the file changed after the call looked at it. A
\* write that is not to overwrite does not do so even then.
ReplacesWhatWasShownUnlessRaced ==
    [][\A p \in Procs : Commits(p) => MayReplace(p) \/ (raced[p] /\ job[p].overwrite)]_vars

\* A preview whose application was reported is not applied again, whoever
\* brings the file back to its old content, until it is shown again.
PreviewsAreOneTime ==
    [][\A p \in Procs :
          Commits(p) /\ job[p].tool = "apply_edit" => EditOf(job[p]) \notin done[p]]_vars

\* However many steps a write has, and whatever fails between them, to its client
\* and to everybody else it is one: it takes effect at the rename or the link,
\* once, on what is there at that moment, and what was acknowledged outlives a
\* power loss. (AtomicFiles)
WritesAreAtomic == Files!Spec
=============================================================================
