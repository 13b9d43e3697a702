----------------------------- MODULE Authority -----------------------------
(***************************************************************************)
(* What gives a server its authority: the store of trusted workspaces      *)
(* (trust.py), the policy file with its leases (policy.py), and the key of *)
(* the approval tokens (approval.py), as the commands of cli.py write them *)
(* and serve reads them, in that order, when a server starts.              *)
(*                                                                         *)
(* Every write replaces a file by a rename, but trust, untrust and         *)
(* migrate-policy read the file first and take no lock, so that a command  *)
(* may write what it made of an older file. The key file is the exception: *)
(* it is made in place, under a lock (FileLock), and may stay cut short.   *)
(* All servers serve one workspace, Home.                                  *)
(***************************************************************************)
EXTENDS Integers, FiniteSets

CONSTANTS
    Servers,
    Commands,       \* processes that run a command of cli.py or a form of the UI
    Workspaces,
    Home,           \* the workspace of the servers and of the policy file
    HandWritten,    \* policy files a user may write by hand
    MaxLease,       \* _MAX_LEASE_SECONDS
    MaxNow,         \* bound: the clock stops here
    MaxPolicies     \* bound: policies the users mean to have

Caps == {"write", "process", "network"}

(***************************************************************************)
(* A lease's end as the JSON file may give it: a number, null, the NaN and *)
(* Infinity that json.loads accepts, or something else.                    *)
(***************************************************************************)
ExpiryKinds == {"time", "null", "nan", "inf", "bad"}
Expiries == [kind : ExpiryKinds, at : Int]
NoExpiry == [kind |-> "null", at |-> 0]
At(t) == [kind |-> "time", at |-> t]

(***************************************************************************)
(* A policy file: its version (0 for what is no version), the capabilities *)
(* whose flag is true, the spellings it has of the network flag, the ends  *)
(* of the leases, and what else is wrong with it: a field nobody knows, or *)
(* one that only load looks at.                                            *)
(***************************************************************************)
Short == "allow_network"
Long == "allow_network_commands"

Files == [version : Int, on : SUBSET Caps, spelt : SUBSET {Short, Long},
          until : [Caps -> Expiries], fault : {"none", "unknown", "value"}]

SchemaVersion == 3

\* What load and migrate-policy take for a file that is not there.
NoFile == [version |-> SchemaVersion, on |-> {}, spelt |-> {},
           until |-> [c \in Caps |-> NoExpiry], fault |-> "none"]

\* _parse_expiry
Parses(e) == e.kind # "bad"

\* expiry > now + _MAX_LEASE_SECONDS + 1, which is false of NaN.
TooFar(e, t) == e.kind = "inf" \/ (e.kind = "time" /\ e.at > t + MaxLease + 1)

\* Mutant: a lease that is no number never ends.
LiveUnlessOver(e, t) == e.kind # "null" /\ ~ (e.kind = "time" /\ e.at <= t)

\* _live
Live(e, t) == e.kind = "inf" \/ (e.kind = "time" /\ e.at > t)

-----------------------------------------------------------------------------
(* migrate_policy_data and Policy.load                                     *)

Renames(f) == f.version = 1 /\ Short \in f.spelt

Migrates(f) ==
    /\ f.version \in 1 .. SchemaVersion
    /\ ~ (Renames(f) /\ Long \in f.spelt)
    /\ Renames(f) \/ Short \notin f.spelt
    /\ f.fault # "unknown"

\* Mutant: the capabilities of a file of version 1 are all switched on.
MigratedGenerously(f) ==
    [f EXCEPT !.version = SchemaVersion,
              !.on = IF f.version = 1 THEN Caps ELSE f.on,
              !.spelt = IF Renames(f) THEN {Long} ELSE f.spelt]

Migrated(f) ==
    [f EXCEPT !.version = SchemaVersion,
              !.spelt = IF Renames(f) THEN {Long} ELSE f.spelt]

\* Mutant: the ends of the leases are not looked at.
LoadsAnyLease(f, t) ==
    /\ Migrates(f) /\ f.fault # "value"
    /\ \A c \in Caps : Parses(f.until[c])

Loads(f, t) ==
    /\ Migrates(f) /\ f.fault # "value"
    /\ \A c \in Caps : Parses(f.until[c]) /\ ~ TooFar(f.until[c], t)

\* The Policy that load makes of a file: a flag that is not there is false.
Policies == [on : SUBSET Caps, until : [Caps -> Expiries]]
NoPolicy == [on |-> {}, until |-> NoFile.until]

PolicyOf(f) ==
    [on |-> IF Migrated(f).spelt = {} THEN f.on \ {"network"} ELSE f.on,
     until |-> f.until]

\* allow_write, allow_process and allow_network_commands
Allows(p, c, t) ==
    /\ c \in p.on /\ Live(p.until[c], t)
    /\ c = "network" => "process" \in p.on /\ Live(p.until["process"], t)

-----------------------------------------------------------------------------
NoKey == "no key"
ShortKey == "short key"
Nobody == "nobody"

ASSUME AuthorityAssumption ==
    /\ Home \in Workspaces
    /\ HandWritten \subseteq Files
    /\ MaxLease \in Nat /\ MaxNow \in Nat
    /\ {NoKey, ShortKey, Nobody} \cap Servers = {}

VARIABLES
    trusted,        \* workspace-trust.json
    policyFile,
    keyFile,        \* approval.key: not there, cut short, or made by a server
    keyLock,        \* who holds approval.key.lock
    now,
    cmd,            \* what each command is about to write
    srv,            \* each server: where it is, and the policy and key it has
    meant,          \* history: the policies users have written
    given,          \* history: the workspaces somebody has trusted
    wish,           \* history: the workspaces to be trusted, by the last command
    raced,          \* history: two commands on the store of trust have overlapped
    cut             \* history: the key file was left short

authorityVars == <<trusted, policyFile, keyFile, keyLock, now, cmd, srv, meant,
                   given, wish, raced, cut>>

policyVars == <<policyFile, meant>>
trustVars == <<trusted, given, wish, raced>>
keyVars == <<keyFile, keyLock, cut>>

NoCmd == [op |-> "none"]
TrustJobs == [op : {"trust", "untrust"}, w : Workspaces, copy : SUBSET Workspaces]
PolicyJobs == [op : {"policy"}, file : Files]
MigrateJobs == [op : {"migrate"}, file : Files]
CommandJobs == {NoCmd} \cup TrustJobs \cup PolicyJobs \cup MigrateJobs

Pcs == {"off", "load", "lock", "key", "write key", "serving"}
ServerStates == [pc : Pcs, policy : Policies, since : Nat, trust : BOOLEAN,
                 key : Servers \cup {NoKey}]
Off == [pc |-> "off", policy |-> NoPolicy, since |-> 0, trust |-> FALSE, key |-> NoKey]

AuthorityTypeOK ==
    /\ \A ws \in {trusted, given, wish} : ws \subseteq Workspaces
    /\ policyFile \in Files /\ meant \subseteq Files
    /\ keyFile \in Servers \cup {NoKey, ShortKey} /\ keyLock \in Servers \cup {Nobody}
    /\ now \in Nat
    /\ cmd \in [Commands -> CommandJobs]
    /\ srv \in [Servers -> ServerStates]
    /\ raced \in BOOLEAN /\ cut \in BOOLEAN

AuthorityInit ==
    /\ trusted = {} /\ given = {} /\ wish = {} /\ raced = FALSE
    /\ policyFile = NoFile /\ meant = {NoFile}
    /\ keyFile = NoKey /\ keyLock = Nobody /\ cut = FALSE
    /\ now = 0
    /\ cmd = [p \in Commands |-> NoCmd]
    /\ srv = [s \in Servers |-> Off]

-----------------------------------------------------------------------------
(* The commands.                                                           *)

BeginCommand(p, job) == cmd[p] = NoCmd /\ cmd' = [cmd EXCEPT ![p] = job]
EndCommand(p) == cmd' = [cmd EXCEPT ![p] = NoCmd]

\* trust and untrust up to the read of the store. untrust of a workspace that is
\* not there writes nothing.
ReadTrust(p, op, w) ==
    /\ op = "untrust" => w \in trusted
    /\ BeginCommand(p, [op |-> op, w |-> w, copy |-> trusted])
    /\ raced' = (raced \/ \E q \in Commands : cmd[q] \in TrustJobs)
    /\ UNCHANGED <<trusted, given, wish, policyVars, keyVars, now, srv>>

\* Mutant: the store is written as it was when nobody was trusted.
WriteTrustAlone(p) ==
    /\ cmd[p] \in TrustJobs
    /\ LET w == cmd[p].w
       IN  IF cmd[p].op = "trust"
           THEN trusted' = {w} /\ given' = given \cup {w} /\ wish' = wish \cup {w}
           ELSE trusted' = cmd[p].copy \ {w} /\ wish' = wish \ {w} /\ UNCHANGED given
    /\ EndCommand(p)
    /\ UNCHANGED <<raced, policyVars, keyVars, now, srv>>

\* secure_write_json of the changed copy.
WriteTrust(p) ==
    /\ cmd[p] \in TrustJobs
    /\ LET w == cmd[p].w
       IN  IF cmd[p].op = "trust"
           THEN /\ trusted' = cmd[p].copy \cup {w}
                /\ given' = given \cup {w} /\ wish' = wish \cup {w}
           ELSE trusted' = cmd[p].copy \ {w} /\ wish' = wish \ {w} /\ UNCHANGED given
    /\ EndCommand(p)
    /\ UNCHANGED <<raced, policyVars, keyVars, now, srv>>

\* init-policy for some capabilities and a number of seconds, up to the write.
InitPolicy(p, on, seconds) ==
    /\ "network" \in on => "process" \in on
    /\ BeginCommand(p, [op |-> "policy",
                 file |-> [version |-> SchemaVersion, on |-> on, spelt |-> {Long},
                           until |-> [c \in Caps |-> IF c \in on THEN At(now + seconds)
                                                     ELSE NoExpiry],
                           fault |-> "none"]])
    /\ UNCHANGED <<trustVars, policyVars, keyVars, now, srv>>

\* A policy file written by a user, or left by an older release.
EditPolicy(p, f) ==
    /\ BeginCommand(p, [op |-> "policy", file |-> f])
    /\ UNCHANGED <<trustVars, policyVars, keyVars, now, srv>>

\* _secure_write_policy of a new policy.
WritePolicy(p) ==
    /\ cmd[p] \in PolicyJobs
    /\ Cardinality(meant) < MaxPolicies
    /\ policyFile' = cmd[p].file
    /\ meant' = meant \cup {cmd[p].file}
    /\ EndCommand(p)
    /\ UNCHANGED <<trustVars, keyVars, now, srv>>

\* migrate-policy up to the write. What only load refuses is written all the same.
ReadPolicy(p) ==
    /\ policyFile # NoFile /\ Migrates(policyFile)
    /\ BeginCommand(p, [op |-> "migrate", file |-> Migrated(policyFile)])
    /\ UNCHANGED <<trustVars, policyVars, keyVars, now, srv>>

WriteMigrated(p) ==
    /\ cmd[p] \in MigrateJobs
    /\ policyFile' = cmd[p].file
    /\ EndCommand(p)
    /\ UNCHANGED <<meant, trustVars, keyVars, now, srv>>

\* A command fails before it replaces the file, or is killed.
DropCommand(p) ==
    /\ cmd[p] # NoCmd
    /\ EndCommand(p)
    /\ UNCHANGED <<trustVars, policyVars, keyVars, now, srv>>

-----------------------------------------------------------------------------
(* The servers.                                                            *)

ServerGoes(s, from, r) == srv[s].pc = from /\ srv' = [srv EXCEPT ![s] = r]

\* serve: is_trusted
StartTrusted(s) ==
    /\ Home \in trusted
    /\ ServerGoes(s, "off", [Off EXCEPT !.pc = "load", !.trust = TRUE])
    /\ UNCHANGED <<trustVars, policyVars, keyVars, now, cmd>>

\* serve --allow-untrusted
StartUntrusted(s) ==
    /\ ServerGoes(s, "off", [Off EXCEPT !.pc = "load"])
    /\ UNCHANGED <<trustVars, policyVars, keyVars, now, cmd>>

\* Policy.load
LoadPolicy(s) ==
    /\ Loads(policyFile, now)
    /\ ServerGoes(s, "load", [srv[s] EXCEPT !.pc = "lock", !.policy = PolicyOf(policyFile),
                                      !.since = now])
    /\ UNCHANGED <<trustVars, policyVars, keyVars, now, cmd>>

\* "with self._key_lock"
LockKey(s) ==
    /\ keyLock = Nobody
    /\ ServerGoes(s, "lock", [srv[s] EXCEPT !.pc = "key"])
    /\ keyLock' = s
    /\ UNCHANGED <<keyFile, cut, trustVars, policyVars, now, cmd>>

\* The key file is there and whole.
ReadKey(s) ==
    /\ keyFile \in Servers
    /\ ServerGoes(s, "key", [srv[s] EXCEPT !.pc = "serving", !.key = keyFile])
    /\ keyLock' = Nobody
    /\ UNCHANGED <<keyFile, cut, trustVars, policyVars, now, cmd>>

\* Mutant: a key of the wrong length is replaced.
ReplaceKey(s) ==
    /\ keyFile \in {NoKey, ShortKey}
    /\ ServerGoes(s, "key", [srv[s] EXCEPT !.pc = "write key"])
    /\ keyFile' = ShortKey
    /\ UNCHANGED <<keyLock, cut, trustVars, policyVars, now, cmd>>

\* It is not: os.open with O_CREAT and O_EXCL.
CreateKey(s) ==
    /\ keyFile = NoKey
    /\ ServerGoes(s, "key", [srv[s] EXCEPT !.pc = "write key"])
    /\ keyFile' = ShortKey
    /\ UNCHANGED <<keyLock, cut, trustVars, policyVars, now, cmd>>

\* os.write, whose count is not looked at.
WriteKey(s) ==
    /\ ServerGoes(s, "write key", [srv[s] EXCEPT !.pc = "serving", !.key = s])
    /\ keyFile' \in {s, ShortKey}
    /\ cut' = (cut \/ keyFile' = ShortKey)
    /\ keyLock' = Nobody
    /\ UNCHANGED <<trustVars, policyVars, now, cmd>>

\* A step is refused or raises, the server ends, or it is killed.
Stop(s) ==
    /\ srv[s].pc # "off"
    /\ srv' = [srv EXCEPT ![s] = Off]
    /\ keyLock' = IF keyLock = s THEN Nobody ELSE keyLock
    /\ cut' = (cut \/ srv[s].pc = "write key")
    /\ UNCHANGED <<keyFile, trustVars, policyVars, now, cmd>>

Tick ==
    /\ now < MaxNow
    /\ now' = now + 1
    /\ UNCHANGED <<trustVars, policyVars, keyVars, cmd, srv>>

TrustCommand(p) ==
    \/ \E w \in Workspaces, op \in {"trust", "untrust"} : ReadTrust(p, op, w)
    \/ WriteTrust(p) \/ DropCommand(p)

PolicyCommand(p) ==
    \/ \E on \in SUBSET Caps, n \in 1 .. MaxLease : InitPolicy(p, on, n)
    \/ \E f \in HandWritten : EditPolicy(p, f)
    \/ WritePolicy(p) \/ ReadPolicy(p) \/ WriteMigrated(p) \/ DropCommand(p)

ServerStep(s) ==
    \/ StartTrusted(s) \/ StartUntrusted(s) \/ LoadPolicy(s) \/ LockKey(s) \/ ReadKey(s)
    \/ CreateKey(s) \/ WriteKey(s) \/ Stop(s)

AuthorityNext ==
    \/ \E p \in Commands : TrustCommand(p) \/ PolicyCommand(p)
    \/ \E s \in Servers : ServerStep(s)
    \/ Tick

AuthoritySpec == AuthorityInit /\ [][AuthorityNext]_authorityVars

-----------------------------------------------------------------------------
Serving(s) == srv[s].pc = "serving"
HasPolicy(s) == srv[s].pc \notin {"off", "load"}

\* No race of commands makes a workspace trusted that nobody has ever trusted,
\* and the store says what the last trust or untrust of each workspace said
\* unless two of them have overlapped: withdrawn trust does not come back.
TrustWasGiven ==
    /\ trusted \subseteq given
    /\ ~ raced => trusted = wish
    /\ \A s \in Servers : srv[s].trust => Home \in given

\* A server acts on one policy as a user has written it, whatever was migrated,
\* or was written over by a stale migration: no step adds a capability, prolongs
\* a lease or mixes two policies.
AuthorityWasMeant ==
    \A s \in Servers : HasPolicy(s) => \E f \in meant : srv[s].policy = PolicyOf(f)

\* No capability of a server lives longer than the longest lease (and the second
\* load allows) from its start, whatever the policy file says and becomes:
\* SECURITY.md:48, "refuses leases longer than 24 hours".
AuthorityEnds ==
    \A s \in Servers, c \in Caps :
        Allows(srv[s].policy, c, now) => now <= srv[s].since + MaxLease

\* All servers that run have one key, or the tokens that one makes the other
\* would refuse; and the key file that is left is whole unless its writer was
\* stopped or its write cut short (after which no server starts again).
OneKey ==
    /\ \A s, r \in Servers : Serving(s) /\ Serving(r) => srv[s].key = srv[r].key
    /\ keyFile = ShortKey /\ keyLock = Nobody => cut
=============================================================================
