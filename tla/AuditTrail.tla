----------------------------- MODULE AuditTrail -----------------------------
(***************************************************************************)
(* What the user relies on in the audit log, with nothing of how           *)
(* src/gpthands/audit.py and _call_tool keep it: what the trail allows was *)
(* done before, nobody who was given a result is said to have been denied, *)
(* and a client has its one answer only when a trail that nothing takes    *)
(* away says why. There are no locks, digests, processes or deaths here.   *)
(***************************************************************************)
EXTENDS Sequences, SequencesExt

CONSTANT Requests       \* the tool calls

VARIABLES
    trail,      \* the events, in the order of their records
    stable,     \* the first part of them, which no crash takes away
    done,       \* the requests whose action took effect
    told        \* what the clients were told of each request

Event == [req : Requests, outcome : {"allowed", "denied_or_failed"}]
Answers == {"result", "isError", "rpcError"}

Init == trail = <<>> /\ stable = <<>> /\ done = {} /\ told = {}

\* An action takes effect.
Act(r) ==
    /\ r \notin done
    /\ done' = done \cup {r}
    /\ UNCHANGED <<trail, stable, told>>

\* An event comes once.
Record(e) ==
    /\ e \notin ToSet(trail)
    /\ e.outcome = "allowed" => e.req \in done
    /\ e.outcome = "denied_or_failed" => <<e.req, "result">> \notin told
    /\ trail' = Append(trail, e)
    /\ UNCHANGED <<stable, done, told>>

Save == stable' = trail /\ UNCHANGED <<trail, done, told>>

Has(r, o) == [req |-> r, outcome |-> o] \in ToSet(stable)

Tell(r, a) ==
    /\ \A b \in Answers : <<r, b>> \notin told
    /\ a = "result" => Has(r, "allowed")
    /\ a = "isError" => Has(r, "denied_or_failed")
    /\ told' = told \cup {<<r, a>>}
    /\ UNCHANGED <<trail, stable, done>>

\* The power fails.
Lose ==
    /\ \E n \in Len(stable)..Len(trail) : trail' = SubSeq(trail, 1, n)
    /\ stable' = trail'
    /\ UNCHANGED <<done, told>>

Next ==
    \/ \E r \in Requests : Act(r) \/ \E a \in Answers : Tell(r, a)
    \/ \E e \in Event : Record(e)
    \/ Save \/ Lose
=============================================================================
