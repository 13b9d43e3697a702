---------------------------- MODULE OneTimeToken ----------------------------
(***************************************************************************)
(* What SECURITY.md promises of an approval token, with nothing of how     *)
(* src/gpthands/approval.py keeps the promise: a token is issued once with *)
(* its binding, and pays for at most one call, a call that it covers. There *)
(* are no processes, no files, no locks and no crashes here.               *)
(***************************************************************************)
EXTENDS Naturals, Sequences

CONSTANTS Nonces, Workspaces, Risks, Actions, Unbound, NoToken

VARIABLES
    token,      \* the token issued under each nonce, or NoToken
    uses        \* the calls each token has paid for, in order

Token == [ws : Workspaces, risk : Risks, action : Actions \cup {Unbound}, exp : Nat]

\* A call that needs approval: the workspace the server is bound to, the least
\* risk that covers it, the hash of the action, and when it was examined.
Call == [ws : Workspaces, risk : Risks, action : Actions, at : Nat]

Covers(tok, c) ==
    /\ tok # NoToken
    /\ tok.ws = c.ws
    /\ c.risk <= tok.risk
    /\ tok.action = c.action
    /\ c.at <= tok.exp

Init ==
    /\ token = [n \in Nonces |-> NoToken]
    /\ uses = [n \in Nonces |-> <<>>]

IssueOnce(n) ==
    /\ token[n] = NoToken
    /\ token'[n] \in Token
    /\ token' = [token EXCEPT ![n] = token'[n]]
    /\ UNCHANGED uses

UseOnce(n) ==
    /\ uses[n] = <<>>
    /\ Len(uses'[n]) = 1
    /\ uses'[n][1] \in Call
    /\ Covers(token[n], uses'[n][1])
    /\ uses' = [uses EXCEPT ![n] = uses'[n]]
    /\ UNCHANGED token

Next == \E n \in Nonces : IssueOnce(n) \/ UseOnce(n)

Spec == Init /\ [][Next]_<<token, uses>>
=============================================================================
