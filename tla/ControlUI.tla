------------------------------ MODULE ControlUI ------------------------------
(***************************************************************************)
(* The local control UI (src/gpthands/control_ui.py) and the MCP servers   *)
(* (src/gpthands/ux_server.py) around the queue of pending approvals.      *)
(*                                                                         *)
(* A server that needs an approval and was given no token puts the request *)
(* in the queue of its workspace and refuses the call. The user sees the   *)
(* queue of the workspace SELECTED in the UI and approves a request: the   *)
(* UI lists the queue again, looks for the hash, issues a token for it and *)
(* removes the request. The server that is then given the token spends it, *)
(* removes the request again, and runs the action.                         *)
(*                                                                         *)
(* The UI is a threading HTTP server: its handler threads share the        *)
(* selected workspace, which each of them reads anew at every step, and    *)
(* the store object. That a token is good only once is Approval's part:    *)
(* here a token that is spent is gone.                                     *)
(***************************************************************************)
EXTENDS PendingApprovals

CONSTANTS
    UIThreads, Servers,     \* the two kinds of thread
    WorkspaceOf,            \* the workspace each server is bound to
    Trusted,                \* the workspaces the UI may switch to
    TypedHashes             \* the hashes the user may type into the manual form

ASSUME ControlUIAssumption ==
    /\ Threads = UIThreads \cup Servers /\ UIThreads \cap Servers = {}
    /\ WorkspaceOf \in [Servers -> Workspaces]
    /\ Trusted \subseteq Workspaces /\ Trusted # {}
    /\ TypedHashes \subseteq Hashes

VARIABLES
    workspace,      \* _Server.workspace, the workspace selected in the UI
    pc,             \* what each thread is doing
    form,           \* the approval a UI thread is handling, or None
    tokens,         \* tokens the user holds
    minted,         \* history: every token issued
    requested       \* history: every request a server has queued

uiVars == <<workspace, pc, form, tokens, minted, requested>>
vars == <<storeVars, uiVars>>

Pcs == {"idle", "viewing", "matching", "issuing", "issued", "removing",
        "adding", "clearing"}

Hows == {"pending", "manual"}

TokenSet == [ws : Workspaces, hash : Hashes, risk : Risks]

Form(h, k, how) == [hash |-> h, risk |-> k, how |-> how, token |-> None]

TypeOK ==
    /\ QueueTypeOK
    /\ workspace \in Workspaces
    /\ pc \in [Threads -> Pcs]
    /\ \A t \in Threads : form[t] # None =>
          /\ t \in UIThreads
          /\ form[t].hash \in Hashes /\ form[t].how \in Hows
          /\ form[t].token \in TokenSet \cup {None}
    /\ minted \subseteq TokenSet /\ tokens \subseteq minted
    /\ requested \subseteq Workspaces \X Hashes \X Risks

Init ==
    /\ QueueInit
    /\ workspace \in Trusted
    /\ pc = [t \in Threads |-> "idle"]
    /\ form = [t \in Threads |-> None]
    /\ tokens = {} /\ minted = {} /\ requested = {}

Goto(t, from, to) == pc[t] = from /\ pc' = [pc EXCEPT ![t] = to]

SetForm(t, f) == form' = [form EXCEPT ![t] = f]

-----------------------------------------------------------------------------
(* The handler threads of the control UI.                                  *)

\* POST /switch, for a workspace the user has trusted.
Switch(t, w) ==
    /\ pc[t] = "idle"
    /\ w \in Trusted
    /\ workspace' = w
    /\ UNCHANGED <<storeVars, pc, form, tokens, minted, requested>>

\* GET / and GET /api/status list the queue, which may also prune it.
View(t) ==
    /\ Goto(t, "idle", "viewing")
    /\ Begin(t, Listing(workspace))
    /\ UNCHANGED <<workspace, form, tokens, minted, requested>>

\* POST /approve-pending lists the queue of the selected workspace ...
ApprovePending(t, h) ==
    /\ Goto(t, "idle", "matching")
    /\ SetForm(t, Form(h, None, "pending"))
    /\ Begin(t, Listing(workspace))
    /\ UNCHANGED <<workspace, tokens, minted, requested>>

\* ... finds the one row with the hash of the form, and takes its risk ...
Match(t) ==
    /\ Goto(t, "matching", "issuing")
    /\ Over(t, "done")
    /\ \E r \in rows[t] :
          /\ r.hash = form[t].hash
          /\ SetForm(t, [form[t] EXCEPT !.risk = r.risk])
    /\ Forget({t})
    /\ UNCHANGED <<now, queue, lockVars, workspace, tokens, minted, requested>>

\* ... or refuses: no such row, or the store could not be read.
NoMatch(t) ==
    /\ Goto(t, "matching", "idle")
    /\ \/ Over(t, "failed")
       \/ Over(t, "done") /\ \A r \in rows[t] : r.hash # form[t].hash
    /\ SetForm(t, None)
    /\ Forget({t})
    /\ UNCHANGED <<now, queue, lockVars, workspace, tokens, minted, requested>>

\* POST /approve: the user types the hash and the risk.
ApproveManually(t, h, k) ==
    /\ Goto(t, "idle", "issuing")
    /\ SetForm(t, Form(h, k, "manual"))
    /\ UNCHANGED <<storeVars, workspace, tokens, minted, requested>>

\* _issue_token binds the token to the workspace selected at this moment.
Issue(t) ==
    LET tok == [ws |-> workspace, hash |-> form[t].hash, risk |-> form[t].risk]
    IN  /\ Goto(t, "issuing", "issued")
        /\ SetForm(t, [form[t] EXCEPT !.token = tok])
        /\ minted' = minted \cup {tok}
        /\ UNCHANGED <<storeVars, workspace, tokens, requested>>

\* pending_store.remove, for the workspace selected at that moment.
BeginRemove(t) ==
    /\ Goto(t, "issued", "removing")
    /\ Begin(t, Removing(workspace, form[t].hash))
    /\ UNCHANGED <<workspace, form, tokens, minted, requested>>

EndOfApproval(t, how) ==
    /\ Goto(t, "removing", "idle")
    /\ Over(t, how)
    /\ SetForm(t, None)
    /\ Forget({t})
    /\ UNCHANGED <<now, queue, lockVars, workspace, minted, requested>>

\* _token_page shows the token to the user.
ReplyToken(t) ==
    /\ EndOfApproval(t, "done")
    /\ tokens' = tokens \cup {form[t].token}

\* The remove raised: no page is sent, and nobody ever sees the token.
LoseToken(t) ==
    /\ EndOfApproval(t, "failed")
    /\ UNCHANGED tokens

-----------------------------------------------------------------------------
(* The MCP servers. A failure of the queue is swallowed in both cases.     *)

\* _require_approval without a token: _pending_add, then the call is refused.
AskApproval(s, h, k) ==
    /\ Goto(s, "idle", "adding")
    /\ Begin(s, Adding(WorkspaceOf[s], h, k))
    /\ UNCHANGED <<workspace, form, tokens, minted, requested>>

\* _require_approval with a token that validate accepts, and so spends; then
\* _pending_remove.
SpendToken(s, tok) ==
    /\ tok \in tokens
    /\ tok.ws = WorkspaceOf[s]
    /\ Goto(s, "idle", "clearing")
    /\ tokens' = tokens \ {tok}
    /\ Begin(s, Removing(WorkspaceOf[s], tok.hash))
    /\ UNCHANGED <<workspace, form, minted, requested>>

\* The operation on the queue is over: a page for a view, a refusal or the
\* approved action for a server.
Proceed(t) ==
    /\ Over(t, "done") \/ Over(t, "failed")
    /\ pc[t] \in {"viewing", "adding", "clearing"}
    /\ pc' = [pc EXCEPT ![t] = "idle"]
    /\ Forget({t})
    /\ UNCHANGED <<now, queue, lockVars, workspace, form, tokens, minted, requested>>

-----------------------------------------------------------------------------
OnQueue(t) ==
    /\ StoreStep(t)
    /\ requested' = IF StoreAdd(t)
                    THEN requested \cup {<<op[t].ws, op[t].hash, op[t].risk>>}
                    ELSE requested
    /\ UNCHANGED <<workspace, pc, form, tokens, minted>>

Die(h) ==
    /\ Crash(h)
    /\ pc' = [t \in Threads |-> IF HandleOf[t] = h THEN "idle" ELSE pc[t]]
    /\ form' = [t \in Threads |-> IF HandleOf[t] = h THEN None ELSE form[t]]
    /\ UNCHANGED <<workspace, tokens, minted, requested>>

Clock == Tick /\ UNCHANGED uiVars

UIStep(t) == Match(t) \/ NoMatch(t) \/ Issue(t) \/ BeginRemove(t) \/ ReplyToken(t) \/ LoseToken(t)

Progress(t) == OnQueue(t) \/ Proceed(t) \/ UIStep(t)

Next ==
    \/ \E t \in UIThreads :
          \/ View(t) \/ \E w \in Trusted : Switch(t, w)
          \/ \E h \in Hashes : ApprovePending(t, h)
          \/ \E h \in TypedHashes, k \in Risks : ApproveManually(t, h, k)
    \/ \E s \in Servers :
          \/ \E h \in Hashes, k \in Risks : AskApproval(s, h, k)
          \/ \E tok \in tokens : SpendToken(s, tok)
    \/ \E t \in Threads : Progress(t)
    \/ \E h \in Handles : Die(h)
    \/ Clock

Spec == Init /\ [][Next]_vars

-----------------------------------------------------------------------------
\* The token that ends an approval from the queue is for a request that a
\* server of that very workspace had queued, with the risk that server had
\* asked for. It relates the issue to the listing at the beginning of the
\* approval, across every read of the selected workspace in between.
IssuedWasRequested ==
    [][\A t \in UIThreads :
          pc[t] = "issuing" /\ pc'[t] = "issued" /\ form[t].how = "pending"
          => LET tok == form'[t].token IN <<tok.ws, tok.hash, tok.risk>> \in requested]_vars

\* A request leaves the queue of its workspace only when a token for it has
\* been issued, or when it is too old: no operation on another request, and no
\* step of another process, takes it away from the user.
RequestsLeaveApproved ==
    [][\A r \in queue :
          (\A q \in queue' : Queue!Key(q) # Queue!Key(r))
          => \/ r.seen < now - MaxAge
             \/ \E tok \in minted : tok.ws = r.ws /\ tok.hash = r.hash]_vars
=============================================================================
