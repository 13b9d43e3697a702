------------------------------ MODULE MC_Local ------------------------------
(***************************************************************************)
(* The parts that share no file and no lock with the others: the release   *)
(* bootstrap, the user installer, the commands that give authority and the *)
(* servers that start from it, the gate of stable releases, the limit on a *)
(* server's actions, and the launch of a command on Windows. A behaviour   *)
(* is one of theirs: the initial state says of which; the others rest.     *)
(*                                                                         *)
(* The authority is explored in three parts for the same reason: the store *)
(* of trust and what a start makes of it; the policy file and one server;  *)
(* two servers that start and share the key.                               *)
(***************************************************************************)
EXTENDS Bootstrap, UserInstaller, Authority, ReleaseGate, Limiter, JobLaunch

CONSTANTS i1, i2, v1, v2, d1, d2, s1, s2, c1, c2, w1, w2, t1, t2, t3

MCInstallers == {i1, i2}
MCVersions == {v1, v2}
MCDigests == {d1, d2}

MCServers == {s1, s2}
MCCommands == {c1, c2}
MCWorkspaces == {w1, w2}
MCCallers == {t1, t2, t3}

\* Policy files of each version, with leases that end, never end, cannot be read
\* or are no number, and with the fields that only one of the two readers refuses.
EveryLease(e) == [c \in Caps |-> e]
NotANumber == [kind |-> "nan", at |-> 0]
Infinite == [kind |-> "inf", at |-> 0]
PolicyFile(v, spelt, e, fault) ==
    [version |-> v, on |-> IF v = 1 THEN {"process", "network"} ELSE Caps, spelt |-> spelt,
     until |-> EveryLease(e), fault |-> fault]
MCHandWritten ==
    {PolicyFile(1, {Short}, At(2), "none"),   PolicyFile(1, {Short, Long}, At(2), "none"),
     PolicyFile(2, {Long}, NotANumber, "none"), PolicyFile(2, {}, At(4), "none"),
     PolicyFile(3, {Long}, Infinite, "none"), PolicyFile(2, {Long}, At(2), "value")}

VARIABLE part

MCInit ==
    /\ part \in {"bootstrap", "installer", "trust", "policy", "servers", "gate", "limiter",
              "launch"}
    /\ Init /\ InstallerInit /\ AuthorityInit /\ GateInit /\ LimiterInit /\ LaunchInit
    /\ part # "installer" => launchers = [k \in Kinds |-> Nothing]
    /\ part # "gate" => commits[1].tree.code = "x" /\ commits[1].tree.docs = "x"

MCNext ==
    \/ /\ part = "bootstrap" /\ Next
       /\ UNCHANGED <<part, installerVars, authorityVars, gateVars, limiterVars, launchVars>>
    \/ /\ part = "installer" /\ InstallerNext
       /\ UNCHANGED <<part, vars, authorityVars, gateVars, limiterVars, launchVars>>
    \/ /\ part = "trust"
       /\ \/ \E p \in Commands : TrustCommand(p)
          \/ \E s \in Servers : StartTrusted(s) \/ Stop(s)
       /\ UNCHANGED <<part, vars, installerVars, gateVars, limiterVars, launchVars>>
    \/ /\ part = "policy"
       /\ \/ \E p \in Commands : PolicyCommand(p)
          \/ StartUntrusted(s1) \/ LoadPolicy(s1) \/ Stop(s1) \/ Tick
       /\ UNCHANGED <<part, vars, installerVars, gateVars, limiterVars, launchVars>>
    \/ /\ part = "servers"
       /\ (\E s \in Servers : ServerStep(s)) \/ Tick
       /\ UNCHANGED <<part, vars, installerVars, gateVars, limiterVars, launchVars>>
    \/ /\ part = "gate" /\ GateNext
       /\ UNCHANGED <<part, vars, installerVars, authorityVars, limiterVars, launchVars>>
    \/ /\ part = "limiter" /\ LimiterNext
       /\ UNCHANGED <<part, vars, installerVars, authorityVars, gateVars, launchVars>>
    \/ /\ part = "launch" /\ LaunchNext
       /\ UNCHANGED <<part, vars, installerVars, authorityVars, gateVars, limiterVars>>

MCVars == <<part, vars, installerVars, authorityVars, gateVars, limiterVars, launchVars>>

MCSpec == MCInit /\ [][MCNext]_MCVars

\* Every variable has a value of its type, whichever part runs.
LocalTypeOK ==
    CASE part = "bootstrap" -> TypeOK
      [] part = "installer" -> InstallerTypeOK
      [] part = "gate" -> GateTypeOK
      [] part = "limiter" -> LimiterTypeOK
      [] part = "launch" -> LaunchTypeOK
      [] OTHER -> AuthorityTypeOK
=============================================================================
