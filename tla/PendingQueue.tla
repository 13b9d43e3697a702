---------------------------- MODULE PendingQueue ----------------------------
(***************************************************************************)
(* What the users of PendingApprovalStore rely on: a queue of requests for *)
(* approval, at most one for each workspace and action, whose operations   *)
(* take effect one at a time and on its present content. Requests leave it *)
(* when somebody removes them or when they are older than MaxAge.          *)
(***************************************************************************)
EXTENDS Integers

CONSTANTS Workspaces, Hashes, Risks, MaxAge

VARIABLES now, queue

Rows == [ws : Workspaces, hash : Hashes, risk : Risks, seen : Nat]

\* PendingApprovalStore._key: one row for each of these.
Key(r) == <<r.ws, r.hash>>

Without(q, w, h) == {r \in q : Key(r) # <<w, h>>}

Put(q, r) == Without(q, r.ws, r.hash) \cup {r}

Stale(q, cutoff) == {r \in q : r.seen < cutoff}

Init == now = 0 /\ queue = {}

Add(r) == r.seen = now /\ queue' = Put(queue, r) /\ UNCHANGED now

Remove(w, h) == queue' = Without(queue, w, h) /\ UNCHANGED now

\* Listing drops old requests, all of those of its moment or of one before.
Prune(cutoff) == queue' = queue \ Stale(queue, cutoff) /\ UNCHANGED now

Tick == now' = now + 1 /\ UNCHANGED queue

Next ==
    \/ \E w \in Workspaces, h \in Hashes :
          \/ \E k \in Risks : Add([ws |-> w, hash |-> h, risk |-> k, seen |-> now])
          \/ Remove(w, h)
    \/ \E age \in MaxAge..now : Prune(now - age)
    \/ Tick

Spec == Init /\ [][Next]_<<now, queue>>
=============================================================================
