--------------------------- MODULE UserInstaller ---------------------------
(***************************************************************************)
(* install-user and uninstall-user (installer.py): the launchers of the UI *)
(* and of the diagnostics, the backups of what they replace, and the       *)
(* manifest uninstall works from. One command runs at a time; it may fail  *)
(* or be killed between any two of its steps. A backup is named for the    *)
(* second of its installation, and is a copy: it may stay cut short.       *)
(***************************************************************************)
EXTENDS Naturals

CONSTANTS
    Kinds,          \* the launchers
    MaxSecond       \* bound: the last second

ASSUME InstallerAssumption == MaxSecond \in Nat \ {0}

Nothing == "nothing"
Own == "own"                \* what the user had before GPTHands
Wrapper == "wrapper"        \* what install writes
CutCopy == "cut"            \* a copy that was not finished
Contents == {Nothing, Own, Wrapper, CutCopy}

VARIABLES
    launchers, backups,     \* the files in the bin directory
    records,                \* install-manifest.json: the backup, or 0, of each launcher
    second,
    doing,                  \* the command that runs
    had,                    \* history: what the user had, and what the last install found
    halted                  \* history: the commands that were stopped midway

installerVars == <<launchers, backups, records, second, doing, had, halted>>

Seconds == 0 .. MaxSecond
NoRecords == [k \in {} |-> 0]

\* A command: the launchers left to do, the one it is in the middle of, and the
\* records it has made or read.
Resting == [op |-> "none", left |-> {}, half |-> {}, recs |-> NoRecords]

InstallerTypeOK ==
    /\ launchers \in [Kinds -> Contents]
    /\ backups \in [Kinds -> [Seconds -> Contents]]
    /\ records \in [Kinds -> Seconds] \cup {NoRecords}
    /\ second \in Seconds
    /\ doing.op \in {"none", "install", "uninstall"} /\ doing.half \subseteq doing.left
    /\ had \in [first : [Kinds -> {Nothing, Own}], last : [Kinds -> Contents]]
    /\ halted \subseteq {"install", "uninstall"}

InstallerInit ==
    /\ launchers \in [Kinds -> {Nothing, Own}]
    /\ backups = [k \in Kinds |-> [n \in Seconds |-> Nothing]]
    /\ records = NoRecords
    /\ second = 1
    /\ doing = Resting
    /\ had = [first |-> launchers, last |-> launchers]
    /\ halted = {}

-----------------------------------------------------------------------------
BeginOp(op, recs) ==
    /\ doing = Resting
    /\ doing' = [op |-> op, left |-> Kinds, half |-> {}, recs |-> recs]

DoneWith(k, recs) == doing' = [doing EXCEPT !.left = @ \ {k}, !.half = {}, !.recs = recs]

BeginInstall ==
    /\ BeginOp("install", [k \in Kinds |-> 0])
    /\ had' = [had EXCEPT !.last = launchers]
    /\ UNCHANGED <<launchers, backups, records, second, halted>>

\* Mutant: a backup of the same second is written over.
BackUpAnyway(k) ==
    /\ doing.op = "install" /\ k \in doing.left /\ doing.half = {}
    /\ launchers[k] # Nothing
    /\ doing' = [doing EXCEPT !.half = {k}, !.recs[k] = second]
    /\ backups' = [backups EXCEPT ![k][second] = launchers[k]]
    /\ UNCHANGED <<launchers, records, second, had, halted>>

\* There is a file where the launcher goes: shutil.copy2, to a name that must be
\* free. (The stamp is read once: the clock stands still during a command.)
BackUp(k) ==
    /\ doing.op = "install" /\ k \in doing.left /\ doing.half = {}
    /\ launchers[k] # Nothing /\ backups[k][second] = Nothing
    /\ doing' = [doing EXCEPT !.half = {k}, !.recs[k] = second]
    /\ backups' = [backups EXCEPT ![k][second] = launchers[k]]
    /\ UNCHANGED <<launchers, records, second, had, halted>>

\* secure_write_text of the wrapper.
Place(k) ==
    /\ doing.op = "install" /\ k \in doing.left
    /\ IF launchers[k] = Nothing THEN doing.half = {} ELSE doing.half = {k}
    /\ launchers' = [launchers EXCEPT ![k] = Wrapper]
    /\ DoneWith(k, doing.recs)
    /\ UNCHANGED <<backups, records, second, had, halted>>

\* The manifest is written when every launcher is in its place ...
EndInstall ==
    /\ doing.op = "install" /\ doing.left = {}
    /\ records' = doing.recs
    /\ doing' = Resting
    /\ UNCHANGED <<launchers, backups, second, had, halted>>

\* ... and uninstall does nothing without one.
BeginUninstall ==
    /\ records # NoRecords
    /\ BeginOp("uninstall", records)
    /\ UNCHANGED <<launchers, backups, records, second, had, halted>>

Unlink(k) ==
    /\ doing.op = "uninstall" /\ k \in doing.left /\ doing.half = {}
    /\ launchers' = [launchers EXCEPT ![k] = Nothing]
    /\ doing' = [doing EXCEPT !.half = {k}]
    /\ UNCHANGED <<backups, records, second, had, halted>>

\* Mutant: the backup is left where it is.
RestoreNothing(k) ==
    /\ doing.op = "uninstall" /\ k \in doing.half
    /\ DoneWith(k, doing.recs)
    /\ UNCHANGED <<launchers, backups, records, second, had, halted>>

\* os.replace(backup, target), if the record has a backup and it is there.
Restore(k) ==
    /\ doing.op = "uninstall" /\ k \in doing.half
    /\ LET saved == backups[k][doing.recs[k]]
       IN  IF saved = Nothing THEN UNCHANGED <<launchers, backups>>
           ELSE /\ launchers' = [launchers EXCEPT ![k] = saved]
                /\ backups' = [backups EXCEPT ![k][doing.recs[k]] = Nothing]
    /\ DoneWith(k, doing.recs)
    /\ UNCHANGED <<records, second, had, halted>>

EndUninstall ==
    /\ doing.op = "uninstall" /\ doing.left = {}
    /\ records' = NoRecords
    /\ doing' = Resting
    /\ UNCHANGED <<launchers, backups, second, had, halted>>

\* A step fails, or the command is killed, perhaps in the middle of a copy. (A machine
\* that stops may also lose a whole backup, which is not synced before the wrapper
\* is: that is not modelled.)
Halt ==
    /\ doing # Resting
    /\ \/ UNCHANGED backups
       \/ \E k \in doing.half : doing.op = "install"
                                /\ backups' = [backups EXCEPT ![k][second] = CutCopy]
    /\ doing' = Resting
    /\ halted' = halted \cup {doing.op}
    /\ UNCHANGED <<launchers, records, second, had>>

NextSecond ==
    /\ doing = Resting
    /\ second < MaxSecond
    /\ second' = second + 1
    /\ UNCHANGED <<launchers, backups, records, doing, had, halted>>

InstallerNext ==
    \/ BeginInstall \/ EndInstall \/ BeginUninstall \/ EndUninstall \/ Halt \/ NextSecond
    \/ \E k \in Kinds : BackUp(k) \/ Place(k) \/ Unlink(k) \/ Restore(k)

InstallerSpec == InstallerInit /\ [][InstallerNext]_installerVars

-----------------------------------------------------------------------------
OriginalSurvives ==
    "uninstall" \notin halted =>
        \A k \in Kinds : had.first[k] = Own =>
            launchers[k] = Own \/ \E n \in Seconds : backups[k][n] = Own

UninstallUndoes ==
    doing = Resting /\ records = NoRecords /\ halted = {} => launchers = had.last

\* What the user had is never lost: it is in its place or in a backup, however
\* often GPTHands is installed and removed and wherever an installation stops.
\* (An uninstall that stops is the exception: it may have put the file back, and
\* the next one, which works from the same manifest, takes it for the wrapper.)
\* And unless a command was stopped an uninstall leaves what the last installation
\* has found, be it the user's or a wrapper of an earlier installation.
InstallIsUndone == OriginalSurvives /\ UninstallUndoes
=============================================================================
