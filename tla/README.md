# GPTHands: models, model checking and proofs

GPTHands lets a chat model work in a local repository through an MCP server that
runs beside it: the server reads, searches, edits and runs commands, under a
policy, leases, approval tokens, quotas, an audit log and an operating system
sandbox. This directory holds TLA+ models of its components, TLC configurations
that check them on small instances, and theorems about them that TLAPS checks
for every instance.

`PROJECT.json` is the index: components, runs, mutants, the map from every
definition to the lines it models, findings, hazards, theorems. Paths of the
code are written `src/src/gpthands/...`, that is `src/gpthands/...` of the
repository; below, module names without a path are files of that package.

    tlc -config MC_Local.cfg MC_Local            # one run
    tlapm ServerProofs.tla                       # one module's proofs

## 1. The system

| component | code | state | operations | who calls it |
|---|---|---|---|---|
| File lock | `locking.py` | kernel lock of a file, `_held` flag of each object | acquire with timeout, release, close | every store below |
| Approval tokens | `approval.py` | HMAC key file, replay store `approval-used.jsonl` | issue, validate (which consumes) | CLI and control UI issue; servers validate |
| Pending queue | `pending_approvals.py`, `state.py` | `pending-approvals.json` | add, remove, list (which prunes) | servers add and remove; the UI lists and removes |
| Control UI | `control_ui.py` | selected workspace, CSRF token; threads share it and one store object | view, approve-pending, approve, switch, trust, untrust | the user's browser |
| Approval UX | `ux_server.py` | none of its own | queue the request of a refused call, remove the request of an approved one | the server |
| MCP server | `server.py`, `stable_server.py` | one-time previews, search and read bounds | initialize, tools/list, tools/call with eight tools, audit of the outcome | the MCP client, one line at a time |
| Safe writes | `safe_write.py` | the target file, a temporary file, directory entries | atomic replace, no-clobber create | write_file, apply_edit |
| Limiter | `limits.py` | window of time stamps, semaphore | reserve a rate slot, hold a concurrency slot | tools/call |
| Audit log | `audit.py` | chained JSONL file | open (verifies), record, verify | the server, several processes on one file |
| Policy and risk | `policy.py`, `risk.py` | policy file; in a server an immutable policy with lease deadlines | init-policy, migrate-policy, load, path and command checks, classification | CLI writes, the server reads |
| Trust | `trust.py` | `workspace-trust.json` | trust, untrust, is_trusted | CLI, UI, serve |
| Process control | `process_control.py` | child process group, reader thread, output buffer | run with timeout and output limit | run_command |
| OS sandbox | `sandbox.py`, `windows_*.py` | staged workspace and job object on Windows | wrap a command, run it, copy the stage back | run_command |
| Tunnel | `tunnel.py` | child process, drain thread | run one step of the tunnel client | CLI |
| Bootstrap | `scripts/release_bootstrap.py` | versions, launcher, manifest with a history | install, rollback, uninstall | the user |
| User installer | `installer.py` | launchers, backups, manifest | install-user, uninstall-user | the user |
| Release gate | `release_gate.py`, `scripts/verify_release_gate.py` | review record in the tree, git history | verify | CI |
| Command line, credentials, diagnostics, notifications, build scripts | | none | wiring, reports | the user |

Interactions that carry the safety of the system:

    user ── CLI / control UI ──issue──> token ──> user pastes it in the chat
              │        ▲                              │
         list, remove  │                              ▼
              ▼        │                    MCP client ──tools/call──> server
        pending queue <┴─────add, remove──────────────────────────────┘ │ │
                                                  validate and consume ◄┘ │
        replay store <──lock, read, append, sync──────────┘               ▼
                                                   write or run, then audit

A server process serves one call at a time, but a user runs several (one per
client and workspace), all on the same state directory. The control UI is a
`ThreadingHTTPServer`: each request has a thread. So files are shared between
processes, and inside the UI objects are shared between threads.

### What is hard about it

* The check that a nonce is unused and its recording are far apart, with other
  processes, kills, power losses and failing system calls in between.
* `flock` excludes open files, not threads. Processes that open the lock each
  for themselves are excluded; the threads of the UI share one object and are
  not, and the flag the object keeps beside the kernel lock is updated after it.
* The queue is a whole-file read, change and rename.
* The UI reads the selected workspace again at each step of one approval.
* A write tests, then waits for a human, then acts; the file, the lease and the
  limits can change in the meantime.
* Chained records are appended by several processes, after torn lines and after
  a prefix of unchained records.
* A child process has descendants, a pipe, a timeout and an output limit that
  can end in any order.
* Installations must survive a crash at each of their steps, and a repetition.
* trust, untrust and migrate-policy read a file, change it and replace it without
  a lock; the key of the tokens is made in place, with a lock, by whichever server
  starts first.
* Leases are JSON numbers, which Python also reads as NaN and Infinity.
* A line of the client may be longer than a read, end anywhere, or never.
* On Windows a command becomes one in six calls that may fail, before it runs.

### What makes each part correct

| component | correctness |
|---|---|
| lock | at most one thread in the body; no lock without somebody to release it; every acquire returns |
| tokens | a token pays for one call, one its binding covers; once paid, on disk for good; never refused as used unless it was spent or lost with a crash; every call answered |
| queue | operations are atomic; a request leaves only when removed or too old |
| UI and servers | a token approved from the queue is for a request some server of that workspace made, and still waits; requests of others stay; everybody is answered |
| server | an action is audited whatever happens; a preview is applied at most once and to the base it shows |
| safe write | old or new content, never a mixture; no-clobber really creates |
| limiter | no more than the limit in a window (but for overtaken threads), no more holders than slots, slots come back |
| stdio loop | one answer for each line that deserves one, in their order; the loop ends with its client |
| audit | records form one chain from the anchor, whoever writes; an open log verifies |
| trust | only what was given is there, and what the user withdrew stays withdrawn unless commands overlap |
| policy | a server acts on what one user meant, through every migration; authority ends |
| key | servers that run together have one key |
| process control | a run ends by its deadline, with every descendant gone |
| bootstrap | after a crash there is a version that runs, and rollback goes to one that was installed |
| user installer | what the user had is never lost, and uninstall puts back what install has found |
| release gate | a stable release contains only what was reviewed |
| Windows launch | nothing runs outside of a job, nothing is left |

## 2. Plan

Order: what protects the user's approval first, since it is what the rest of the
system leans on.

1. **done** `FileLock`, `Approval` (composes `FileLock`, implements
   `OneTimeToken`), `PendingApprovals` (composes `FileLock`, implements
   `PendingQueue`), `ControlUI` (extends `PendingApprovals`), proofs for the
   first two.
2. **done** `AuditLog` (composes `FileLock`), `AuditedCalls` (extends it with the
   server's `_call_tool`), and the theorem that a log whose lines are whole
   always verifies.
3. **done** `SafeWrite` (the steps of the replacement, with crashes) and
   `EditServer` (extends it with the preview protocol, `write_file`, and a user
   who changes the same files), with theorems for every safety property of the run.
4. **done** `RunCommand`: the classification of a command, its leases before and
   after the approval, the choice of a sandbox, the private copy on Windows, with
   theorems; `ProcessControl`: command, descendants, reader thread, timeout, with
   the loop of `tunnel.py`, which is nearly the same, and the one of
   `windows_classic.py`, which polls.
5. **done** `JobLaunch`: the launch on Windows, with its theorem.
6. **done** `Authority`: the trust store, the policy file through migration and
   load, the key file, and the servers that start from them, with theorems.
7. **done** `StdioLoop`, `Limiter`.
8. **done** `Bootstrap`, `UserInstaller`, `ReleaseGate`.
9. **done** A theorem for every safety property of every passing run, and the
   refinements `KeepsPromise` and `QueueIsAtomic`.
10. **done** Two more abstractions with their refinements proved: `AtomicFiles`
    for `SafeWrite` and `EditServer`, `AuditTrail` for `AuditLog` and
    `AuditedCalls`.
11. Open: a transaction for the private copy of `RunCommand`, which would have to
    say where the code is none (a file saved by another meanwhile is overwritten).

Small parts that share no file and no lock with each other share a run: its
initial state says which of them moves (`MC_Local`, `MC_Threads`).

## 3. The modules

| module | what it is |
|---|---|
| `FileLock` | the lock of `locking.py` |
| `OneTimeToken` | abstract: what an approval token promises |
| `Approval` | `ApprovalManager` in several processes; `Lock == INSTANCE FileLock`, `Promise == INSTANCE OneTimeToken` |
| `ApprovalProofs` | theorems about it |
| `PendingQueue` | abstract: a queue with atomic operations |
| `PendingApprovals` | `PendingApprovalStore` in several threads; `Lock`, and `Queue == INSTANCE PendingQueue` |
| `ControlUI` | extends `PendingApprovals` with the handlers of the UI and the servers |
| `QueueProofs` | theorems about the queue and the UI |
| `AuditLog` | `AuditLogger` in several processes; `Lock == INSTANCE FileLock` |
| `AuditedCalls` | extends `AuditLog` with `_call_tool` of the server; `Trail == INSTANCE AuditTrail` |
| `AuditTrail` | abstract: the events of a log, in order, which only a crash shortens, and what was told of them |
| `AuditProofs` | theorems about them |
| `SafeWrite` | `stable_atomic_write` of several processes on the user's files |
| `EditServer` | extends `SafeWrite` with `preview_edit`, `apply_edit` and `write_file`; `Files == INSTANCE AtomicFiles` |
| `AtomicFiles` | abstract: files whose writes take effect in one step, or fail |
| `EditProofs` | theorems about them |
| `ProcessControl` | `run_bounded_process`, `execute_tunnel_step` and `_wait_in_job` with the processes they run |
| `ProcessProofs` | theorems about it |
| `RunCommand` | `_run_command` and `_run_curated_git`, from the leases to the copying back |
| `RunProofs` | theorems about it |
| `JobLaunch` | `_run_classic` of `windows_classic.py` and the job object, from the profile to the undoing |
| `Authority` | the trust store, the policy file, the key file; the commands that write them and the servers that start from them |
| `StdioLoop` | `serve_stdio_bounded` and what `handle` answers |
| `Limiter` | `ActionLimiter` under threads |
| `ServerProofs` | theorems about `FileLock` and `StdioLoop` |
| `Bootstrap` | `install`, `rollback` and `uninstall` of `scripts/release_bootstrap.py` |
| `UserInstaller` | `install_user` and `uninstall_user` of `installer.py` |
| `ReleaseGate` | `verify_release_gate.py` and `release_gate.py` over a history of commits |
| `LocalProofs` | theorems about `JobLaunch`, `ReleaseGate`, `UserInstaller`, `Limiter`, `Bootstrap` and `Authority`, each with an invariant of its own, and about all of them side by side (`MC_Local`) |
| `MC_*` | instances for TLC |

### FileLock

State: `holder` is the kernel's lock (a handle or nobody), `held` the `_held`
flag, `lpc` where a thread is. `Flock` and `MarkHeld` are the system call and the
assignment after it; `Unlock` and `ClearHeld` likewise: these pairs are not
atomic in the code, and the trouble with shared handles is exactly in the gap.
`Flock` succeeds on a free lock and on one the same handle owns, as the kernel
does. `GiveUp` is the timeout; it needs a failed `flock`, but no clock. `Die`
releases the kernel lock of a process. `SkipRelease` is the early return of
`release`: threads that share a handle reach it, one handle to a thread does not.
`Alone(t)` says that a thread has a handle of its own: `MutualExclusion` is stated
for such threads, with the threads that share one running beside them.
`NoLeakedLock` is about every handle. Threads that share one can leave the kernel
lock taken with nobody to unlock it (one clears the flag just after the other has
got the lock, whose release is then skipped); what still holds is that the flag is
down then, so the next of them takes the lock as its own and frees it. The `msvcrt` branch is not
modelled: byte-range locks on Windows also exclude the threads of one handle.

### Approval and OneTimeToken

`token` holds what was issued (the HMAC is perfect: only issued tokens validate),
`pc` and `call` the call of each process, `file` the replay store as a reader sees
it and `disk` the part that survives a power loss. `Validate`, `TakeLock`,
`LoadFresh` or `LoadUsed`, `AppendLine`, `Sync`, `LeaveLock`, `Grant` follow the
code line by line, with the exits `LockTimeout`, `StoreFails`, `SyncFails` and
`Refuse`. `Crash` and `PowerLoss` may come at any step. A store is the set of its
lines and what follows the last newline. With `PartialWrites`, `AppendShort` is an
`os.write` that stores part of the line: the code ignores the count. `uses` and
`burned` are history, and so is `whole` of a store: that no line of it was ever cut
short. `SingleUseUnlessCut`, `GrantIsDurable` and `KeepsPromise` hold as long as it
is true; `SingleUse` is what the documentation says, without that condition.

In `OneTimeToken` there is a token and the calls it paid for, and nothing else;
`Approval` implements it with the same two variables.

Left out: `validate(consume=False)` (only tests call it), the cache `_consumed`
(written, never read), file permissions and ownership checks except as
`StoreFails`.

### PendingApprovals and PendingQueue

An operation is begun with its arguments (`op`; the cutoff of a list is computed
before the wait for the lock), waits for the lock, copies the file (`Load`),
stores the changed copy (`StoreAdd`, `StoreRemove`, `StoreList`), leaves the
lock, and its caller goes on. The rename of `state.py` is one step: a reader sees
the old file or the new. `created_at` is left out: it only orders the display.

### ControlUI

`workspace` is `_Server.workspace`, shared by the handler threads. An approval is
`ApprovePending` (lists), `Match` or `NoMatch`, `Issue`, `BeginRemove`, and
`ReplyToken` or `LoseToken` (the removal raised an error the handler does not
catch: the token was made, nobody sees it). Each of them reads `workspace` where
the code reads it. Servers `AskApproval` and `SpendToken`. Here a token that is
spent is gone: that it is good once is `Approval`'s part. The trust forms are
commands of `Authority`; which workspace they act on is the one selected when they
are handled, so with two tabs it may be another than the page showed. HTML, CSRF
and Host checks are not modelled.

### AuditLog and AuditedCalls

`pre` is what releases without the chain left in the file and never changes;
`file` is the rest, as records, lines that do not parse (`Garbage`) and what
follows the last newline; `disk` is the part of it that survives a power loss. A
digest is perfect: it is what it is the digest of. `VerifierAnchor` and
`RecordAnchor` are the two ways in which the code computes the digest of the
prefix: `_verify_stream` skips blank lines and `_chain_state_locked` does not.

A process opens the log (`Open`, `OpenVerified` or `OpenRejected`), and for each
record takes the lock, looks at the last line (`ReadEnd`, `ReadEndFails`), writes
(`WriteRecord`, `WriteShort`, `WriteFails`) and syncs (`Sync`, `SyncFails`). In
`AuditedCalls` a call's tool has already succeeded or raised when its record is
begun. When the record fails, the error lands in the `except` that also serves
the tool's own errors: `RecordAgain` writes a second record, that says denied,
for an action that took effect. `told` keeps what the clients were given.

`AuditTrail` has neither locks nor digests nor processes: a sequence of events, a
first part of it that no crash takes away, what was done and what was told. A record
(`Record`) is added at the end, once, after what it reports; a loss of power
(`Lose`) takes some of the end, but nothing of the stable part; and a client is
told of a request once (`Tell`), when the stable part has the record of it.
`TrailOf` reads the events off the lines, and `TrailIsKept` says that every step
of `AuditedCalls` is one of these or none, as long as no line was cut short. The
mutant `RecordSameAgain` retries a failed record with the same event: where the
first one was in the file and only its sync had failed, the event is there twice.

Left out: redaction and fingerprints of arguments, file permissions except as
failures to open.

### SafeWrite and EditServer

`file[n]` is the sequence of values a name was given since its directory was last
synced: everybody sees the last, a power loss (`Revert`) may bring back any, and
gives `Torn` if the data of that value was not synced. `temp` is the temporary
file a process owns. `Stat`, `CreateTemp`, `Fill`, `Replace` or `Link` with
`UnlinkTemp`, and `SyncDir` are the system calls in their order; `WriteError` is
an error of any of them, `CleanUp` the `finally` clause. `Link` is `os.link`,
which refuses a name that has appeared since `Stat`.

`EditServer` gives each server its `previews` and one call at a time. `Preview`
keeps (file, old, new): the id of the code is a hash of these, taken as
collision-free. `ApplyEdit` and `WriteFile` are the two tools up to the approval,
where they decide the risk; a `WriteFile` keeps nothing of what it has replaced;
`Approved` leads into the write, `Answer` drops the preview. `raced` and `done` are
history: that the target changed after the call looked at it and before its commit,
and the previews whose application was reported. The user saves or removes files at
any step (`HostSaves`), the lease ends (`LeaseExpires`), servers are killed and the
power fails.

In `AtomicFiles` a name has a content and a set of values a power loss may bring
back (`fallback`). A write is asked for, takes effect (`TakeEffect`) on what is there
at that moment, and only on nothing if it may not overwrite, and is acknowledged
(`Acknowledge`), after which there is nothing to fall back to; or it fails (`Fail`),
before or after its effect. `EditServer` implements it (`WritesAreAtomic`): the
effect is the rename or the link, the acknowledgement the sync of the directory, and
everything else a stutter. The user's change is one step of both. The mutant
`StatRemoves`, which removes the old file so that the rename finds the name free, is
not atomic: in between the name shows nothing.

Left out: the Windows branch (the same steps without link and directory sync),
path checks, the size limits, and the contents of the diff. In `CleanUp` the
`unlink` may fail too: its error takes the place of the first one, and the temporary
file stays (`stuck`). That is the only way in which a call that ends leaves one:
`NoLitter`, which is proved and in no run, says so. A server that is killed leaves
its temporary file, and nothing removes it later.

### ProcessControl

`proc` is the state of each process of the tree (`doomed` is one that was sent
SIGKILL), `strays` those that have left the process group, `holds` those that have
the pipe open, `pipe` the bytes in it. The processes fork, leave the group, write,
close the pipe and end as they like. The reader's `read` of a fixed number of
bytes pulls what there is (`Pull`) and returns when it has the number or at the
end of the file (`ReadReturns`); `Keep` is the rest of its loop. The main thread
goes `WaitReturns` or `WaitTimesOut`, `Kill`, `Reap`, `Join`, `ClosePipe`, `Rejoin`,
`Return`; `join` and the second `wait` may end by their timeout at any time.
`ClosePipe` is not enabled while the reader is in `read`: Python's buffered streams
have a lock, and `close` waits for it.

`use` says who calls: `run_command`, a step of the tunnel client, or
`tunnel-client run`, which has no timeout. The tunnel is the same loop with three
differences, each an operator: it does not kill the group after an exit
(`AfterExit`), it does not close the pipe after a kill (`Closes`), and Ctrl-C
(`Interrupt`) kills like a timeout. Ctrl-C during any other wait is not modelled.

What the code cannot reach is in the properties: `GroupIsGone` excludes `strays`
and, for the tunnel, what a client leaves behind that ends by itself; `CallEnds`
assumes that the pipe is not kept for ever (`PipeIsKept`). Under bubblewrap the
processes are in a PID namespace that ends with the group, so there are no strays
that matter (`CanEscape` is FALSE); under Seatbelt there are. A command that
starts a process with `setsid` leaves it running after the call, although
`process_control.py:50-52` speaks of all descendants (`NothingOutlives`: with the
constants of `MC_Threads` TLC refutes it in ten states, and for `CanEscape`
FALSE it is a theorem); if it also keeps standard
output, `close` (line 129) waits for it past every timeout. In the tunnel any
process that outlives the client and keeps its output has that effect
(`tunnel.py:227`). All of these are behaviours of the code and of this model.

On Windows (`use` is `windows`) the command is created suspended, put into a job
object (`Contain`, `ContainFails`) and resumed. It writes to a file, so there is
no reader: the loop looks at the deadline, waits 25 ms for the command, and looks
at the size of the file (`OverLimit`, `WithinLimit`). `EndJob` closes the job,
which ends what is left of the tree, before `ReadOutput` reads the file.

Left out: failures of the Windows API calls inside the loop, the job's limit on
the number of processes, and the fallback for systems without process groups,
where `_kill_process_tree` kills the command alone. The mutant `KillRoot` is that
fallback; `CallEnds` refutes it.

### RunCommand

A call goes through `approval`, `plan`, on Windows `stage`, `run` and perhaps
`sync`. `CallCommand` is `validate_command`: the process lease, the
classification, and the network lease of a command known to need it. Writing and
connecting are decided in `Plan`, from the leases as they are after the approval,
which waits for the lock of the tokens (`Approve`). `backend` is what `plan()`
finds on the machine: a command changes the workspace itself (bubblewrap,
Seatbelt, no sandbox) or a copy. The profile of Seatbelt opens `/private/tmp` to
every command, so there is a workspace (`inTmp`) to which it always may write
(`OpenToAll`). `CopyIn` and the pair `OpenTarget`, `FillTarget`
are one file of `copytree` and of `_sync_stage_back`: `copy2` cuts the target to
nothing and then fills it. `UserChanges`, other servers, `LeaseExpires` and the
two kinds of kill come at any step. A command is the kind of its program and what
its arguments contain; the lists of programs and patterns are data. `leased`,
`paid`, `touched`, `changed` and `finished` are history.

`_sync_stage_back` copies every regular file of the copy, not only what the
command has changed, and compares nothing: a file that the user or another server
has saved since it was copied gets its old content back, also when the command
never looked at it. `docs/PLATFORM_HARDENING.md:87` speaks of regular-file
changes, and line 123 lists conflict handling as work to be done. The properties
say what is left: only a finished run with a write lease does that
(`OnlyLeasedWrites`), never to a file that is not in the copy
(`OnlyFinishedCopiesAreSynced`), and `ResultIsSynced` speaks of files that nobody
else has touched. A removal by the command is not copied back.

Left out: how a process tree ends (`ProcessControl`; here a command lives or does
not), the copy that a killed server leaves in its temporary directory, the
AppContainer's profile, symbolic links, overlapping writes to one file, and
refusals that change nothing.

### Bootstrap

`release[v]` is the directory of a version: which wheel is installed in it (or
only a part), and which digest its marker has. An installer reads the manifest
once, at its beginning, and keeps it in `job`: it is what it will write from.
`Install` goes to `MakeTarget`, `Build`, `Smoke`, `Mark`, or, when the directory
exists, to `Verify` and `Smoke`; both to `Launch` and `Record`. `Rollback` joins
at `Verify`. `Fail` is an error at any of the steps, with `CleanUp` where the code
has its `except`; `Kill` leaves everything as it is. The writes of launcher,
marker and manifest are renames, one step each. `torn` and `before` are history:
that launcher and manifest were not written together, and what an upgrade has
replaced.

An installation that is killed before the marker leaves a directory that makes
every later installation of the version fail. `ClearAway` is the user who removes
it; a marked directory is left alone, and nobody clears while an installer runs:
the properties are about the script and not about a user who deletes what works.
After a kill between launcher and manifest the manifest names the version before;
the next upgrade then puts that one in the history and the one that ran is in none
(`UpgradeCanBeUndone` excludes it with `torn`).

Left out: a machine that stops, which could lose files that `pip` wrote and nobody
synced, beside a marker that is there (`Kill` is a kill of the script); a wheel that
is replaced between the check of its digest (line 220) and its installation by path
(line 253); symlink refusals and the metadata of the wheel (refusals that change
nothing, like every step of `Fail`), a damaged manifest, directories of the
versions other than by their marker and their working.

### Authority

Three files give a server its authority. `trusted` is the trust store: `ReadTrust`
copies it, `WriteTrust` replaces it by the changed copy, and in between another
command may do the same: the last writer wins, and an overlapping trust of another
workspace brings back what an untrust has just withdrawn. `raced` says that two
commands have overlapped; `given` and `wish` are what was ever trusted and what
the last commands said.

`policyFile` is a record of what load and migration look at: the version, where
none counts as 2 (`policy.py:94`); which flags are true; the two spellings of the network flag; the
ends of the leases; and whether something else is wrong, which only load or also
the migration refuses. `Migrated` and `Loads` translate `migrate_policy_data` and
`Policy.load`. Users write policies by `init-policy` or by hand, and both are in
`meant`; `ReadPolicy` and `WriteMigrated` are `migrate-policy`, which writes
before it validates and without a lock, so a stale migration may replace a newer
policy by an older one, migrated. What it cannot do is make an authority nobody
meant: that is `AuthorityWasMeant`. A lease end is a number, nothing, NaN,
Infinity or unreadable. NaN passes the check of `load` that refuses more than 24
hours, since no comparison with it holds, and so does `_live`, which is why it
gives nothing (`AuthorityEnds`).

`keyFile` is made by `CreateKey` and `WriteKey` under the lock `keyLock` (taken as
mutual exclusion here, which `FileLock` shows for a lock of one's own). A server
killed between them, or an `os.write` that stores less, leaves a key of the wrong
length, which every later start refuses and nothing repairs: `OneKey` says that
nothing else does.

Left out: file permissions and ownership (refusals), `max_*` fields, risk levels
and path lists of the policy (data that is copied through).

### StdioLoop and Limiter

The client sends lines of any length, with or without an end; a read takes a piece
of at most one byte more than the limit (`Piece`). `ReadLine` answers a line that
fits as `handle` does, `ReadTooLong`, `BeginDrain` and `Drain` a line that does
not. A line is what it says and how long it is; the limiter's verdict on a call is
a choice here and `Limiter` there. A line may also be `fatal` (`ReadFatal`): a text
nested too deeply for `json.loads` raises `RecursionError`, and an answer with a lone
surrogate cannot be encoded by the stream; the loop catches neither, and the server
ends without an answer. `AnswersFollowLines` says that nothing else but the client's
end of file does that.

In `Limiter` a thread takes its `stamp` before it has the lock, so stamps enter
`times` out of order. `Pruned` drops old stamps only from the front, which can only
refuse more. An overtaken thread prunes with an old clock and is counted in an old
window: `LimitsAreKept` allows it. `entries` is history: all requests that were let
in, those with one stamp told apart by a number. A thread that waits for a slot in
vain has spent its place in the window.

### JobLaunch

One step for each call that makes something (`CreateProfile` to `Resume`), one
failure for each region of the code with its own handler (`MakingFails`,
`JobFails`, `RunFails`), and the `finally` clauses. `owned` is what was made and
not given back. `Die` kills the server at any step: Windows closes its handles.
A server killed between `CreateProcessW` and the assignment to the job leaves a
process that is suspended for ever, and its profile. The `SandboxEngine` path of
`windows_sandbox.py` is overridden by `windows_classic.py` and cannot be reached.

### UserInstaller

`launchers` are the files in the bin directory, `backups` those with a time stamp
in their names, `records` the manifest. `BackUp` and `Place` for each launcher,
then the manifest; `Unlink` and `Restore`, then its removal. `Halt` is a failure
or a kill at any step, in the middle of a copy too; a machine that stops is left
out (the backup is not synced, the wrapper is: it could take the backup alone). Two sequences of legal
commands give what a user might not expect, and the property says so: installed
twice and removed, the first wrapper comes back, and the user's own file stays in
the older backup; and an uninstall that was stopped after it put a file back, and
is repeated, takes that file for the wrapper and unlinks it (`halted`).

### ReleaseGate

A commit has a tree and its ancestors; it may be a merge. `Changed` is `git diff --name-only`, which
names a file that was moved under its new name alone. `Promotes` is the check in
`verify_release_gate.py` (the record's commit is an ancestor, the versions and only
they changed in the version files), `Approves` the one in `release_gate.py`. A file
of reviewed code that is moved over an absent document of the permitted list is
not in the list of changes under its old name: it is missing from the release, and
`ReleaseWasReviewed` allows that. Nothing that was not reviewed can be added.

## 4. The runs

All TLC runs are of small instances; the bounds are the constants of each cfg.

| run | cfg | shows |
|---|---|---|
| threads | `MC_Threads` | one of three parts: two threads that share a handle and two processes with their own: the processes exclude each other, a lock left behind can be taken again, locks are freed. The stdio loop, with two lines of at most seven bytes and reads of three: answers follow lines, the loop ends. A command, a step of the tunnel, the tunnel itself, or a command in a job object, with two more processes, reads of two bytes, a limit of three, at most five written: the group is gone, the output exact, the call ends (which it could not if the pipe were not read) |
| approval | `MC_Approval` | two processes of one workspace, one token of this or another workspace, of one of two risks, bound to the action or to none, a clock of three seconds, lines that may be cut short: single use, durability and `OneTimeToken` implemented unless one was cut; nothing spent without cause, every call ends |
| approval_cut_replay | `MC_Approval_replay` | **violated**: lines cut short, a token pays twice |
| audited_calls | `MC_AuditedCalls` | two servers, two requests, three records, a log that is new or begun by an earlier release, lines that may be cut short: the log verifies unless one was; damage is never written on; what the log says is true; `AuditTrail` implemented unless a line was cut, so answers come after saved records |
| control_ui | `MC_ControlUI` | one tab, one server, two workspaces, two actions, one of them also typed by hand, requests that grow old: `PendingQueue` implemented, tokens were asked for, requests stay until approved |
| ui_switch_race | `MC_ControlUI_switch` | **violated**: one tab switches while the other approves |
| ui_lost_request | `MC_ControlUI_lost` | **violated**: two tabs share the lock, a server's request is overwritten |
| edit_server | `MC_EditServer` | two servers, one file, two contents, of which the model writes one and the user both, one preview each: `AtomicFiles` implemented, so files stay whole and a write is one step; answers are durable; only what was shown or called destructive is replaced unless the user was faster, previews are good once |
| run_command | `MC_RunCommand` | two servers and a user, one file with two contents, an interpreter, a network command and one that is neither, every backend, approval from NETWORK on: writes are leased (but in a workspace that Seatbelt opens to all), the network approved, only finished runs are copied back, completely, and over nothing that is not in the copy |
| seatbelt_tmp | `MC_RunCommand_tmp` | **violated**: the same; under Seatbelt a command writes to a workspace below `/private/tmp` without a lease |
| local | `MC_Local` | one of eight parts: two installers of releases without a lock, two versions with two wheels each, a history of two; the user installer with two launchers and two seconds; two commands and two servers on the store of trust with two workspaces; two commands on the policy file, six files by hand, leases of one second, one server; two servers that start and share the key; the gate with two version files and two commits; three threads, two requests in two ticks, one slot; the launch |
| rollback_to_itself | `MC_Bootstrap_rollback` | **violated**: one installer; a rollback goes to the version that is current |

Why the bounds are enough to be interesting: two actors make every race of a
check and an act; one token meets itself, and a fragment of its line the line of
its second use; one second is one tick across every boundary (`<=` at the expiry,
`<` at the age); two risks and two workspaces make a token that covers a call and
one that does not, for each reason;
three records make a chain with a middle, and let the second record of a failed
call meet the record of another process. `MaxUses` stops a token from being
presented again after it has paid that many times: 2 lets `SingleUse` fail. Times
are bounded by `MaxTime`, records by `MaxRecords`, the values of a name between two directory
syncs by `MaxUnsynced` (2: the value that is synced and one commit that is not, which
is what a power loss can take; a second commit to the name then waits for a sync, or
for the user), previews by `MaxPreviews`. Output is counted in
units: a limit of three lies inside the second read of two, so a chunk straddles
it; five bytes make a third, short read after it, and the pipe of two fills up. A history
of two and two versions reach the limit of the history: a version can be in it
while it is current. In `RunCommand` nothing relates two files to each other; one
file is in a copy or not, and meets two servers, the user and the command; two
contents tell a copy from what it was copied over. In `Authority` a lease of
one second, and a clock of three, put a start before, at and after every end; the
six files written by hand cover the three versions, both spellings, and each
kind of end; `MaxPolicies` counts the initial one, so a migration can meet a newer
policy. Two commits are a reviewed one and its promotion; with two trees of every
kind nothing that a third commit adds is in reach of the diff, which is of two.
Three threads in a limiter of two are the least that exceed it, with one of them
overtaken. The second in which an installation is repeated, and the next, are the
two that matter to names of backups. Lines up to seven bytes with reads of three
are short, of just the limit, of one piece, and of two and three. Symmetry is used only in runs
without liveness, over sets whose members the model does not tell apart.

The violated properties of the stores and the UI fail only under the condition
they name. As long as no line is cut short (`approval`) and with one tab
(`control_ui`) the same properties hold; and where no process can leave its group
and live on, `NothingOutlives` holds (a theorem). In every other workspace, and under
every other sandbox, `ReadOnlyWithoutLease` holds: that is `OnlyLeasedWrites`, in the
run `run_command` and a theorem.

Every property of a passing run has a mutant, an operator beside the definition
it would replace (marked `Mutant:`), that the property detects.

### Fairness

`LockIsFreed` and `CallReturns` assume weak fairness of the
steps of one thread inside one operation: the loop in `acquire` sleeps 10 ms and
has a deadline, every body is finite, and the operating system schedules a
runnable thread. Nothing is assumed of users, clients, crashes, or of who gets
the lock: the timeout alone makes the wait end. `LockIsFreed` also rests on the
bodies being finite. `LoopEnds` assumes weak fairness of the loop, one thread
whose steps are a read that returns, since its client has gone, and a `handle`
that ends; nothing is assumed of the client.

`CallEnds` assumes weak fairness of the main thread (whose waits have timeouts,
except `close`), of the reader thread, and of death after SIGKILL. Of the
processes of the command nothing is assumed: they may run for ever, silently or
not. The run `threads` checks no deadlock, since a command whose call is over has no
next step; what could be stuck before that is what `CallEnds`, `LoopEnds` and
`LockIsFreed` are about. A part that rests has no step that is fair and enabled, so
the fairness of the three does not constrain each other.

### Findings

Five places where the code does something else than the documentation says. The
runs named above show each; `PROJECT.json` quotes the lines.

1. `approval.py:160` ignores the count of `os.write`; a line that is cut short
   leaves an approved call without a record, and the token is good again.
2. `control_ui.py:228` issues the token for the workspace selected then, not for
   the one whose queue was consulted.
3. `control_ui.py:32` shares one lock handle between threads; a server's request
   can be overwritten by a stale rewrite, and nobody is asked about it.
4. `release_bootstrap.py:276` takes the version that was current out of the
   history and not the one it installs: after A, B, A the third rollback goes
   from A to A.
5. `sandbox.py:244` lets every command write below `/private/tmp`: there the
   workspace is not read-only without a write lease (`ReadOnlyWithoutLease`).

What the models also say, as the conditions of properties that hold:

* `audit.py:243` and `audit.py:76-90` compute different digests of a legacy
  prefix that has a blank line, and an accepted log is rejected after its next
  record: the condition `Clean` of `VerifiesUnlessTorn`.
* `server.py:289` decides from the existence of a file whether its replacement is
  destructive, and writes after the approval; `apply_edit` has the same window
  for an edit (`stable_server.py:137-153`): `ReplacesWhatWasShownUnlessRaced`.
* `windows_sandbox.py:207` copies the whole copy over whatever the files have
  become: section 3, `RunCommand`.
* `trust.py:46` rewrites the store from a copy: `raced` in `TrustWasGiven`.
* `approval.py:92` ignores the count of `os.write` as `approval.py:160` does: `cut`
  in `OneKey`.
* `limits.py:31` stamps before the lock: `overtaken` in `LimitsAreKept`.
* `installer.py:89` takes what is in the launcher's place for its own wrapper, also
  when a stopped uninstall has put the user's file there: `halted` in
  `InstallIsUndone`.
* `verify_release_gate.py:115` does not see the old name of a moved file:
  `ReleaseWasReviewed`.
* `windows_classic.py:261`: a server that is killed before the process is in the job
  leaves it suspended, and the profile: `LaunchIsUndone`.
* `stable_server.py:245` does not catch every error of a line: `ReadFatal`.
* What leaves the process group, and what outlives the tunnel client: section 3,
  `ProcessControl`.

## 5. The proofs

| module | theorem | states | assumes |
|---|---|---|---|
| `ServerProofs` | `LockTypeCorrect` | `Spec => []TypeOK` of `FileLock` |  |
|  | `LockExcludes` | `Spec => []MutualExclusion` |  |
|  | `LockIsNotLeaked` | `Spec => []NoLeakedLock` |  |
|  | `AnswersAlwaysFollow` | `StdioSpec => [](StdioTypeOK /\ AnswersFollowLines)` |  |
| `ApprovalProofs` | `TypeCorrect` | `Spec => []TypeOK` of `Approval` |  |
|  | `ConsumersExclude` | `Spec => []Lock!MutualExclusion` of `Approval` |  |
|  | `TokensAreSingleUse` | `Spec => []SingleUseUnlessCut` |  |
|  | `GrantsAreDurable` | `Spec => []GrantIsDurable` |  |
|  | `SpendingIsAccounted` | `Spec => []SpentIsAccounted` |  |
|  | `ApprovalKeepsPromise` | `Spec => KeepsPromise`, a refinement |  |
| `QueueProofs` | `StoreIsAQueue` | `Spec => QueueIsAtomic`, a refinement | `OwnHandles` |
|  | `IssuesWhatWasRequested` | `Spec => IssuedWasRequested` | `OwnHandles`, `OneTab` |
|  | `RequestsOnlyLeaveApproved` | `Spec => RequestsLeaveApproved` | `OwnHandles`, `OneTab` |
| `AuditProofs` | `CallsTypeCorrect` | `Spec => []TypeOK` of `AuditedCalls` |  |
|  | `LogVerifies` | `Spec => []VerifiesUnlessTorn` | `Clean` |
|  | `DamageStaysLast` | `Spec => []DamageIsLast` |  |
|  | `RecordsStayTrue` | `Spec => []RecordsAreTrue` |  |
|  | `AnswersStayRecorded` | `Spec => []AnswersAreRecorded` | `Terminated` |
|  | `TrailStaysKept` | `Spec => TrailIsKept`, a refinement | `Terminated` |
| `EditProofs` | `EditTypeCorrect` | `Spec => []TypeOK` of `EditServer` |  |
|  | `FilesStayWhole` | `Spec => []FilesAreWhole` |  |
|  | `AnswersStayDurable` | `Spec => []AnswersAreDurable` |  |
|  | `NothingIsLeft` | `Spec => []NoLitter` |  |
|  | `CommitsReplaceWhatWasShown` | `Spec => ReplacesWhatWasShownUnlessRaced` |  |
|  | `PreviewsAreUsedOnce` | `Spec => PreviewsAreOneTime` |  |
|  | `WritesActAtomically` | `Spec => WritesAreAtomic`, a refinement |  |
| `RunProofs` | `RunTypeCorrect` | `Spec => []TypeOK` of `RunCommand` |  |
|  | `WritesAreLeased` | `Spec => []OnlyLeasedWrites` |  |
|  | `NetworkNeedsApproval` | `Spec => []NetworkIsApproved` |  |
|  | `CopiesAreFinished` | `Spec => []OnlyFinishedCopiesAreSynced` |  |
|  | `ResultsAreSynced` | `Spec => []ResultIsSynced` |  |
| `ProcessProofs` | `TypeCorrect` | `ProcessSpec => []ProcessTypeOK` |  |
|  | `TheGroupIsGone` | `ProcessSpec => []GroupIsGone` |  |
|  | `TheOutputIsExact` | `ProcessSpec => []OutputIsExact` |  |
|  | `NobodyOutlivesWithoutEscape` | `ProcessSpec => []NothingOutlives` | `~ CanEscape` |
| `LocalProofs` | `LaunchCorrect` | `LaunchSpec => [](LaunchTypeOK /\ LaunchIsUndone)` |  |
|  | `StableWasReviewed` | `GateSpec => [](GateTypeOK /\ ReleaseWasReviewed)` |  |
|  | `InstallStaysUndone` | `InstallerSpec => [](InstallerTypeOK /\ InstallIsUndone)` |  |
|  | `LimitsStayKept` | `LimiterSpec => [](LimiterTypeOK /\ LimitsAreKept)` |  |
|  | `LauncherAlwaysWorks` | `Spec => [](TypeOK /\ LauncherWorks)` of `Bootstrap` |  |
|  | `VersionsStayBound` | `Spec => []OneWheelPerVersion` |  |
|  | `UpgradesStayUndoable` | `Spec => []UpgradeCanBeUndone` |  |
|  | `AuthorityTypeCorrect` | `AuthoritySpec => []AuthorityTypeOK` |  |
|  | `TrustStaysGiven` | `AuthoritySpec => []TrustWasGiven` |  |
|  | `AuthorityStaysMeant` | `AuthoritySpec => []AuthorityWasMeant` |  |
|  | `AuthorityAlwaysEnds` | `AuthoritySpec => []AuthorityEnds` |  |
|  | `KeyStaysOne` | `AuthoritySpec => []OneKey` |  |
|  | `LocalTypesHold` | `MCSpec => []LocalTypeOK` | `s1 \in Servers` |

The rest of the assumptions are those of the modules, which TLC evaluates in
every run.

The theorems about tokens allow lines that are cut short, and say nothing after the
first: the run `approval_cut_replay` shows why. `Clean` says that an earlier release
left no line without newline and no blank line beside a legacy one; the model has
the two ways of computing the digest (section 3), which agree only then.
`Terminated` is the half of it that answers need: no line without newline. `~
CanEscape` is what bubblewrap gives. `s1` is the one server of the run that reads
policies. `OwnHandles` says that no two threads share a lock object, `OneTab` that
the UI has one thread. The servers are like that: each is a process with one thread.
The UI is when its user has one tab and waits for each page; it could do otherwise,
and the runs `ui_lost_request` and `ui_switch_race` show that both properties are
then false. With these hypotheses the theorems say of any number of servers,
workspaces, actions and requests what the run `control_ui` checks for one tab.

**The lock.** Mutual exclusion is not inductive: nothing in it says that the
thread in the body owns the kernel lock. The invariant adds it, for threads that
are `Alone` on their handle: in one of the states `locked`, `body`, `leaving` the
handle is in `holder`, a holder has such a thread, and the flag is set in the
states after `MarkHeld`. Two owning threads then have one handle, so they are one.
That a lock left behind has its flag down is inductive beside it: the flag goes up
only in `MarkHeld`, by a thread that owns the lock, and who gives up owning it has
unlocked it, cleared the flag, or skipped the release because it was down.

**The token.** `SingleUse` needs to know why a second process cannot get past the
check. The inductive invariant `IInv` says: a process that is past the read of
the store is in the body of the lock; a nonce read as fresh is not in the store
as long as the lock is held; a nonce being synced is in the store; one that was
granted, and one that has paid, is in the synced part; nobody is granted a nonce
that has paid; a power loss keeps the synced part. What it says of the store (`StorePart`) it
says as long as the store is `whole`. From the invariant, a `Grant`
is the first use of its token, and the call it pays for is covered by the token,
because a token never changes and the call recorded the moment it was examined:
that is `UseOnce` of `OneTimeToken`, and every other step but `Issue` leaves both
variables alone. `SpentIsAccounted` has an invariant of its own, since it also holds
when lines are cut: a line that was cut off after its nonce and before the newline
is not in the store yet, but becomes a line of it with the next append, so what
follows the last newline has to be accounted for too (`TracesAccounted`).

**The queue.** That a step of the store is a step of `PendingQueue` needs that the
copy a thread is about to store is still the queue (`CopyIsPresent`), which holds
because it is in the body of the lock and nobody else is (`OwnsLock`, the part of
the lock's invariant it needs); and that the cutoff of a list was computed from a
clock that has not gone back (`OpsTyped`). For the UI, a row of the queue, or of a
listing somebody holds, was asked for by a server (`RowsAsked`); from the listing
to the token a form is about the selected workspace (`FormsMeant`, which is false
with two tabs); and a removal that has begun is of a request with a token
(`RemovalsIssued`).

**The log.** `VerifiesUnlessTorn` says nothing of a process that has read the end
of the chain and not yet written. `ChainPart` adds that what each such process
read is still the end, that no line was left without its newline, and that the
synced part is not longer than the file. It is kept because a process between
`ReadEnd` and `WriteRecord` is in the body of the lock (`CallInLock`), and its own
append takes it out of that state (`OneWriter`); the new record continues the
chain (`ChainGrows`), and what a power loss leaves is a first part of a chain
(`ChainShrinks`). `DamageIsLast` is weaker and holds for every beginning:
who is about to append has seen a log without damage and nobody has written since
(`DamagePart`). The answers need what ties an event to its call: a request is in
progress in one process at most, its first event says allowed and its tool has
succeeded (`CallsMatch`). A record is then one of a request that was asked and has
come so far, and while a denial is in the log nobody writes a first record for it
(`RecordsMatch`); and between write and answer the record is in the file, then in
the synced part (`AnswersMatch`).

**The trail.** The refinement needs one thing more: the event a process is about to
append is not in the log yet (`FreshPart`), neither by its own first attempt, whose
event was another, nor by another process, which would have the same call. Then an
append that stores its line is a `Record`, and `TrailOf` grows by one event
(`TrailGrows`); an append that fails is none. A sync makes the stable part the whole
trail, a power loss cuts both at the same place (`TrailShrinks`), an answer is a
`Tell` because its record is in the synced part and nobody was told before; and the
steps of a tool that succeeds are an `Act`. Whatever else a server does, taking the
lock, reading the end, dying, changes none of the four variables.

**The command.** `OnlyLeasedWrites` compares the first step of a call with its
last. The invariant carries the lease along: until the call is planned the leases
that are live are among those live at its approval, for leases only end
(`CallPart`); what it may write is decided from them; and who has changed
something may write, because a process or a copying back did it, which only a call
that may write has (`ChangePart`). `CopyPart` adds that on Windows the processes
are gone when the copying back begins, so the copy does not change under it, and
`SyncPart` that each of its files is still to be copied, is the same in both
places, or was touched by somebody else.

**The process.** `GroupPart` says where the main thread can be for each use, and
that behind its kill the group is gone and stays gone: only who runs can fork, and
who has left the group does not come back. `OutputPart` counts: what the reader has
kept is what was written, less what is in the pipe and in its hands, cut at the
limit; and when it has seen the end nobody has the pipe.

**The edit.** That a file is whole says nothing of the temporary file that will
become it. The invariant adds what each step of a writer knows: from `Fill` on the
temporary file has all of the content and is synced, and only then is it renamed;
a writer between the commit and the answer has put its content in the name's
history, or somebody has written after it; a call that applies a preview holds one
that it has and that was not reported as applied. The two action properties look at
one step: a commit, and the invariant says what the call had looked at, and that
the file still shows it unless something raced (`JobsAreRight`).

**The atomic write.** Every step of `EditServer` is mapped to one of `AtomicFiles`
or to a stutter: those before the commit leave what everybody sees, and what may
come back, alone; `Replace` and `Link` are `TakeEffect`, because `os.link` looks at
the name in the same step in which it makes it; `SyncDir` leaves one value of each
name, which is the one shown, so nothing is left to fall back to; and what `Revert`
brings back is one of the values behind the last, whole because it was synced
(`FilesAreWhole` is needed here: a torn value is none the abstract files have).

**The launch.** What runs is in the job, and the job is held, at `Resume` and after;
before it nothing runs. For each step of the way out the invariant says what can
still be owned; it is a table over `step`.

**The loop.** `AnswersFollowLines` speaks of the lines that were read; the invariant
says that what is not read is the end of what was sent, that before a line nothing
of it was read, and that what is drained is too long. Then each answer goes to the
next line and is the one that line deserves. (The attempt to prove it showed that
`Deserves` had been written with overlapping cases, of which TLC takes the first;
it is now a condition and a case.)

**The limiter.** What a window lets in is what `times` knows of it, as long as no
younger stamp has pruned it (`Exact`). When one has, the window's end is in the
past, so no thread can take a stamp of it any more, and only those that wait for
the lock with one can still add to it: at most one each, and not the one that has
pruned (`LatePart`). Without an overtaking `times` is sorted, and the window of
the last stamp is exact unless `times` is full of stamps of it, which refuses
(`OrderPart`). The rest is counting: `times` is never longer than the limit, what
is pruned is a first part of it (`PrunedIs`), and dropping elements that a window
does not have, or appending one, changes its count as it should (`CountDropped`,
`CountAppended`).

**The bootstrap.** The directory that an installer makes is its own until it is
marked (`OwnedPart`), because `mkdir` succeeds for one. A mark is that of the wheel
that is there, and who is to switch to a version has seen its mark (`MarkPart`). A
manifest, stored or about to be, has digests of what is marked (`Faithful`,
`ManifestPart`). `TogetherPart` follows an upgrade from the launcher to the
manifest, as long as one installer is at work and none was stopped between them.
That the history ends with the replaced version needs what `Without` and `Latest`
do to a sequence of any length: `Without` is therefore written with the ranks of
what stays, and `RankExists` shows that every rank is there.

**The installer.** A launcher that is about to be replaced is in a backup of this
second (`OriginalPart`); the backups a manifest names hold what the
installation found (`UndoPart`). Both go through the loop over the launchers, with
what is left of it in `doing`.

**The gate.** It is a predicate of a history that only grows: the invariant says that
ancestors and records point backwards (`GateTyped`), so a release passes on what a
commit is and not on what is added later. The theorem needs that the paths of the
version files are not those the model gives to code, documents and record: it is
now a part of `GateAssumption`.

**Side by side.** A step of `MC_Local` is a step of one part while the variables of
the others rest (`PartsStep`), so its specification implements that of each part
(the lemma `PartsAreIndependent`), and `LocalTypeOK` follows from six type theorems.

**Authority.** Three invariants that do not touch each other, since no step but a
start reads two of the files (`ServersOrCommands`). `TrustInv`: the copy of a
running command has only what was given, and while nothing has overlapped there is
one copy and it is the store. `PolicyInv`: the file, and what a migration is about
to write, give what some policy that was meant gives, because migration keeps
what `PolicyOf` makes of a file and is idempotent (`MigrationKeepsAuthority`); the
leases of a server passed `load` when it started, and by `LeasesBoundAuthority` a
lease that is live and not too far ends in time, for every kind of end. `KeyInv`:
who is between the look at the key file and its write has the lock; while a key is
being made nobody serves; and while the file is short at most one server, the one
that made it, does.

**Only model-checked**: the liveness properties `LockIsFreed`, `LoopEnds`,
`CallReturns` and `CallEnds`, since fairness and `ENABLED` are out of the prover's
reach. Every other property of a passing run is a theorem. Of the properties that
are violated, four hold under a condition that a theorem states
(`SingleUseUnlessCut` for `SingleUse`; `OneTab` and `OwnHandles` for
`IssuedWasRequested` and `RequestsLeaveApproved`; `OnlyLeasedWrites` for
`ReadOnlyWithoutLease`, with `~ OpenToAll`); `RollbackLeavesCurrent` has none.
Some theorems state what no run checks by itself: `FilesAreWhole` and
`AnswersAreRecorded` are part of what the refinements `WritesAreAtomic` and
`TrailIsKept` say, `NoLitter` and the types are said for their own sake.

## 6. Not modelled

For good:

* credentials (`credentials.py`): calls of the stores of three operating systems,
  one after another, with no state between them;
* diagnostics and notifications: reports and messages nothing depends on;
* the release scripts other than the bootstrap and the gate: they run one after
  another on a clean checkout;
* the command line other than `trust`, `untrust`, `init-policy`, `migrate-policy`
  and `serve`: it parses and prints;
* the reading tools of the server, which change nothing: search, list and read,
  with their bounds;
* path checks and patterns of commands: functions of strings, whose verdict is a
  choice or a kind in the models;
* the contents of messages, HTML and reports; the command lines of bubblewrap and
  Seatbelt and the Windows API calls (external programs);
* the Windows branches of the lock and of the safe write.

`PROJECT.json` has the status of each component.
