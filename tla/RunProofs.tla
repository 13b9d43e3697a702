------------------------------ MODULE RunProofs ------------------------------
(***************************************************************************)
(* Theorems about RunCommand, for any servers, files and commands: all of  *)
(* its safety properties.                                                  *)
(***************************************************************************)
EXTENDS RunCommand, TLAPS

Fresh == {"idle", "approval", "plan"}

\* What a call was given, against the leases and its approval.
CallPart(s) ==
    /\ call[s].write => pc[s] \notin Fresh /\ "write" \in call[s].leased
    /\ call[s].network =>
            /\ pc[s] \notin Fresh
            /\ "network" \in call[s].leased
            /\ call[s].risk >= Network
            /\ approvalFrom <= Network => call[s].paid >= Network
    /\ pc[s] = "plan" /\ call[s].tool = "run_command" =>
            /\ leases \ {"process"} \subseteq call[s].leased
            /\ call[s].risk >= approvalFrom => call[s].paid = call[s].risk

\* What a call has changed, against what it was given.
ChangePart(s) ==
    /\ pc[s] \in Fresh => changed[s] = {}
    /\ changed[s] # {} => backend = "policy-only" \/ OpenToAll \/ call[s].write
    /\ pc[s] = "sync" => OnCopy /\ call[s].write
    /\ alive[s] => pc[s] \in {"run", "dead"}

\* Where the processes of a call, its copy and the copying back stand.
CopyPart(s) ==
    OnCopy =>
        /\ alive[s] => pc[s] = "run"
        /\ pc[s] \in Fresh \cup {"stage", "run"} => ~finished[s]
        /\ pc[s] = "sync" => finished[s]
        /\ pc[s] = "sync" => \A f \in todo[s] : stage[s][f] # Absent
        /\ changed[s] # {} => finished[s]
        /\ \A f \in changed[s] : stage[s][f] # Absent

\* While the copy is copied back, every file of it that nobody else has touched
\* is still to be copied, or is the same in both places.
SyncPart(s) ==
    OnCopy /\ (pc[s] = "sync" \/ (pc[s] = "done" /\ call[s].write)) =>
        \A f \in Staged(s) \ touched[s] :
            (pc[s] = "sync" /\ f \in todo[s]) \/ workspace[f] = stage[s][f]

IInv == TypeOK /\ \A s \in Servers : CallPart(s) /\ ChangePart(s) /\ CopyPart(s)

\* A call keeps its type when some of its fields are changed.
LEMMA GitTyped ==
  ASSUME TypeOK, NEW s \in Servers, CallGit(s)
  PROVE  call' \in [Servers -> Calls]
<1>1. call \in [Servers -> Calls]
  BY DEF TypeOK
<1>2. \A c \in Calls : [c EXCEPT !.tool = "git"] \in Calls
  BY DEF Calls, Tools
<1>3. call' = [call EXCEPT ![s] = [call[s] EXCEPT !.tool = "git"]]
  BY DEF CallGit
<1> QED BY <1>1, <1>2, <1>3

LEMMA ApproveTyped ==
  ASSUME TypeOK, NEW s \in Servers, Approve(s)
  PROVE  call' \in [Servers -> Calls]
<1> DEFINE p == IF call[s].risk >= approvalFrom THEN call[s].risk ELSE 0
           l == leases \ {"process"}
<1>1. call \in [Servers -> Calls]
  BY DEF TypeOK
<1>2. p \in {0, Exec, Network, Destructive}
  <2>1. call[s].risk \in {Read, Exec, Network, Destructive}
    BY <1>1 DEF Calls
  <2>2. approvalFrom \in {30, 40, 50}
    BY RunAssumption DEF TypeOK
  <2> QED BY <2>1, <2>2 DEF Read, Exec, Network, Destructive
<1>3. l \in SUBSET Leases
  BY DEF TypeOK
<1> HIDE DEF p, l
<1>4. \A c \in Calls : [c EXCEPT !.paid = p, !.leased = l] \in Calls
  BY <1>2, <1>3 DEF Calls
<1>5. call' = [call EXCEPT ![s] = [call[s] EXCEPT !.paid = p, !.leased = l]]
  BY DEF Approve, p, l
<1> QED BY <1>1, <1>4, <1>5

LEMMA PlanTyped ==
  ASSUME TypeOK, NEW s \in Servers, Plan(s)
  PROVE  call' \in [Servers -> Calls]
<1>1. call \in [Servers -> Calls]
  BY DEF TypeOK
<1>2. MayWrite(s) \in BOOLEAN /\ MayConnect(s) \in BOOLEAN
  BY DEF MayWrite, MayConnect
<1>3. \A c \in Calls : [c EXCEPT !.write = MayWrite(s), !.network = MayConnect(s)] \in Calls
  BY <1>2 DEF Calls
<1>4. call' = [call EXCEPT ![s] =
                 [call[s] EXCEPT !.write = MayWrite(s), !.network = MayConnect(s)]]
  BY DEF Plan
<1> QED BY <1>1, <1>3, <1>4

\* Every step keeps the types.
LEMMA TypeNext ==
  ASSUME TypeOK, [Next]_vars
  PROVE  TypeOK'
<1> USE RunAssumption
    DEF TypeOK, Goto, Change, Forget, EmptyStage, machine, copying, history, Pcs, Values,
        Tools, Calls, NoCall, Leases, Backends, Read, Exec, Network, Destructive, Staged, OnCopy
<1>1. ASSUME NEW s \in Servers, NEW c \in Commands, CallCommand(s, c) PROVE TypeOK'
  BY <1>1 DEF CallCommand, Classify
<1>2. ASSUME NEW s \in Servers, CallGit(s) PROVE TypeOK'
  <2>1. call' \in [Servers -> Calls]
    BY <1>2, GitTyped
  <2>2. \A t \in Servers : call'[t].tool = "none" <=> pc'[t] = "idle"
    BY <1>2 DEF CallGit
  <2> HIDE DEF Calls
  <2> QED BY <1>2, <2>1, <2>2 DEF CallGit
<1>3. ASSUME NEW s \in Servers, Approve(s) PROVE TypeOK'
  <2>1. call' \in [Servers -> Calls]
    BY <1>3, ApproveTyped
  <2>2. \A t \in Servers : call'[t].tool = "none" <=> pc'[t] = "idle"
    BY <1>3 DEF Approve
  <2> HIDE DEF Calls
  <2> QED BY <1>3, <2>1, <2>2 DEF Approve
<1>4. ASSUME NEW s \in Servers, Refuse(s) PROVE TypeOK'
  BY <1>4 DEF Refuse
<1>5. ASSUME NEW s \in Servers, Plan(s) PROVE TypeOK'
  <2>1. call' \in [Servers -> Calls]
    BY <1>5, PlanTyped
  <2>2. \A t \in Servers : call'[t].tool = "none" <=> pc'[t] = "idle"
    BY <1>5 DEF Plan
  <2> HIDE DEF Calls
  <2> QED BY <1>5, <2>1, <2>2 DEF Plan
<1>6. ASSUME NEW s \in Servers, PlanFails(s) PROVE TypeOK'
  BY <1>6 DEF PlanFails
<1>7. ASSUME NEW s \in Servers, NEW f \in Files, CopyIn(s, f) PROVE TypeOK'
  BY <1>7 DEF CopyIn
<1>8. ASSUME NEW s \in Servers, Launch(s) PROVE TypeOK'
  BY <1>8 DEF Launch
<1>9. ASSUME NEW s \in Servers, NEW f \in Files, NEW v \in Contents \cup {Absent},
             CommandChangesStage(s, f, v)
      PROVE  TypeOK'
  BY <1>9 DEF CommandChangesStage
<1>10. ASSUME NEW s \in Servers, NEW f \in Files, NEW v \in Contents \cup {Absent},
             CommandChangesWorkspace(s, f, v)
      PROVE  TypeOK'
  BY <1>10 DEF CommandChangesWorkspace
<1>11. ASSUME NEW s \in Servers, EndRun(s) PROVE TypeOK'
  BY <1>11 DEF EndRun
<1>12. ASSUME NEW s \in Servers, RunFails(s) PROVE TypeOK'
  BY <1>12 DEF RunFails
<1>13. ASSUME NEW s \in Servers, NEW f \in Files, OpenTarget(s, f) PROVE TypeOK'
  BY <1>13 DEF OpenTarget
<1>14. ASSUME NEW s \in Servers, FillTarget(s) PROVE TypeOK'
  BY <1>14 DEF FillTarget
<1>15. ASSUME NEW s \in Servers, SyncFails(s) PROVE TypeOK'
  BY <1>15 DEF SyncFails
<1>16. ASSUME NEW s \in Servers, Synced(s) PROVE TypeOK'
  BY <1>16 DEF Synced
<1>17. ASSUME NEW s \in Servers, Return(s) PROVE TypeOK'
  BY <1>17 DEF Return
<1>18. ASSUME NEW s \in Servers, Kill(s) PROVE TypeOK'
  BY <1>18 DEF Kill
<1>19. ASSUME NEW s \in Servers, KillServerAlone(s) PROVE TypeOK'
  BY <1>19 DEF KillServerAlone
<1>20. ASSUME NEW l \in Leases, LeaseExpires(l) PROVE TypeOK'
  BY <1>20 DEF LeaseExpires
<1>21. ASSUME NEW f \in Files, NEW v \in Contents \cup {Absent},
             UserChanges(f, v)
      PROVE  TypeOK'
  BY <1>21 DEF UserChanges
<1>22. CASE UNCHANGED vars
  BY <1>22 DEF vars
<1> HIDE DEF TypeOK
<1> QED
  BY <1>1, <1>2, <1>3, <1>4, <1>5, <1>6, <1>7, <1>8, <1>9, <1>10, <1>11,
     <1>12, <1>13, <1>14, <1>15, <1>16, <1>17, <1>18, <1>19, <1>20, <1>21, <1>22
  DEF Next, CallStep, CommandStep

\* Every step keeps what is said of the fields of a call.
LEMMA CallNext ==
  ASSUME IInv, [Next]_vars, NEW t \in Servers
  PROVE  CallPart(t)'
<1> USE RunAssumption
    DEF IInv, TypeOK, CallPart, Goto, Change, Forget, machine, copying, history, Fresh, Calls, Leases, NoCall, Network, Read, Exec, Destructive
<1>1. ASSUME NEW s \in Servers, NEW c \in Commands, CallCommand(s, c) PROVE CallPart(t)'
  BY <1>1 DEF CallCommand
<1>2. ASSUME NEW s \in Servers, CallGit(s) PROVE CallPart(t)'
  BY <1>2 DEF CallGit
<1>3. ASSUME NEW s \in Servers, Approve(s) PROVE CallPart(t)'
  BY <1>3 DEF Approve
<1>4. ASSUME NEW s \in Servers, Refuse(s) PROVE CallPart(t)'
  BY <1>4 DEF Refuse
<1>5. ASSUME NEW s \in Servers, Plan(s) PROVE CallPart(t)'
  BY <1>5 DEF Plan, MayWrite, MayConnect
<1>6. ASSUME NEW s \in Servers, PlanFails(s) PROVE CallPart(t)'
  BY <1>6 DEF PlanFails
<1>7. ASSUME NEW s \in Servers, NEW f \in Files, CopyIn(s, f) PROVE CallPart(t)'
  BY <1>7 DEF CopyIn
<1>8. ASSUME NEW s \in Servers, Launch(s) PROVE CallPart(t)'
  BY <1>8 DEF Launch
<1>9. ASSUME NEW s \in Servers, NEW f \in Files, NEW v \in Contents \cup {Absent},
             CommandChangesStage(s, f, v)
      PROVE  CallPart(t)'
  BY <1>9 DEF CommandChangesStage
<1>10. ASSUME NEW s \in Servers, NEW f \in Files, NEW v \in Contents \cup {Absent},
             CommandChangesWorkspace(s, f, v)
      PROVE  CallPart(t)'
  BY <1>10 DEF CommandChangesWorkspace
<1>11. ASSUME NEW s \in Servers, EndRun(s) PROVE CallPart(t)'
  BY <1>11 DEF EndRun
<1>12. ASSUME NEW s \in Servers, RunFails(s) PROVE CallPart(t)'
  BY <1>12 DEF RunFails
<1>13. ASSUME NEW s \in Servers, NEW f \in Files, OpenTarget(s, f) PROVE CallPart(t)'
  BY <1>13 DEF OpenTarget
<1>14. ASSUME NEW s \in Servers, FillTarget(s) PROVE CallPart(t)'
  BY <1>14 DEF FillTarget
<1>15. ASSUME NEW s \in Servers, SyncFails(s) PROVE CallPart(t)'
  BY <1>15 DEF SyncFails
<1>16. ASSUME NEW s \in Servers, Synced(s) PROVE CallPart(t)'
  BY <1>16 DEF Synced
<1>17. ASSUME NEW s \in Servers, Return(s) PROVE CallPart(t)'
  BY <1>17 DEF Return
<1>18. ASSUME NEW s \in Servers, Kill(s) PROVE CallPart(t)'
  BY <1>18 DEF Kill
<1>19. ASSUME NEW s \in Servers, KillServerAlone(s) PROVE CallPart(t)'
  BY <1>19 DEF KillServerAlone
<1>20. ASSUME NEW l \in Leases, LeaseExpires(l) PROVE CallPart(t)'
  BY <1>20 DEF LeaseExpires
<1>21. ASSUME NEW f \in Files, NEW v \in Contents \cup {Absent},
             UserChanges(f, v)
      PROVE  CallPart(t)'
  BY <1>21 DEF UserChanges
<1>22. CASE UNCHANGED vars
  BY <1>22 DEF vars
<1> HIDE DEF IInv, CallPart
<1> QED
  BY <1>1, <1>2, <1>3, <1>4, <1>5, <1>6, <1>7, <1>8, <1>9, <1>10, <1>11,
     <1>12, <1>13, <1>14, <1>15, <1>16, <1>17, <1>18, <1>19, <1>20, <1>21, <1>22
  DEF Next, CallStep, CommandStep

\* ... and of its changes.
LEMMA ChangeNext ==
  ASSUME IInv, [Next]_vars, NEW t \in Servers
  PROVE  ChangePart(t)'
<1> USE RunAssumption
    DEF IInv, TypeOK, ChangePart, Goto, Change, Forget, machine, copying, history, Fresh, OnCopy,
        OpenToAll
<1>1. ASSUME NEW s \in Servers, NEW c \in Commands, CallCommand(s, c) PROVE ChangePart(t)'
  BY <1>1 DEF CallCommand
<1>2. ASSUME NEW s \in Servers, CallGit(s) PROVE ChangePart(t)'
  BY <1>2 DEF CallGit
<1>3. ASSUME NEW s \in Servers, Approve(s) PROVE ChangePart(t)'
  BY <1>3 DEF Approve
<1>4. ASSUME NEW s \in Servers, Refuse(s) PROVE ChangePart(t)'
  BY <1>4 DEF Refuse
<1>5. ASSUME NEW s \in Servers, Plan(s) PROVE ChangePart(t)'
  BY <1>5 DEF Plan, MayWrite, MayConnect
<1>6. ASSUME NEW s \in Servers, PlanFails(s) PROVE ChangePart(t)'
  BY <1>6 DEF PlanFails
<1>7. ASSUME NEW s \in Servers, NEW f \in Files, CopyIn(s, f) PROVE ChangePart(t)'
  BY <1>7 DEF CopyIn
<1>8. ASSUME NEW s \in Servers, Launch(s) PROVE ChangePart(t)'
  BY <1>8 DEF Launch
<1>9. ASSUME NEW s \in Servers, NEW f \in Files, NEW v \in Contents \cup {Absent},
             CommandChangesStage(s, f, v)
      PROVE  ChangePart(t)'
  BY <1>9 DEF CommandChangesStage
<1>10. ASSUME NEW s \in Servers, NEW f \in Files, NEW v \in Contents \cup {Absent},
             CommandChangesWorkspace(s, f, v)
      PROVE  ChangePart(t)'
  BY <1>10 DEF CommandChangesWorkspace, Writable
<1>11. ASSUME NEW s \in Servers, EndRun(s) PROVE ChangePart(t)'
  BY <1>11 DEF EndRun
<1>12. ASSUME NEW s \in Servers, RunFails(s) PROVE ChangePart(t)'
  BY <1>12 DEF RunFails
<1>13. ASSUME NEW s \in Servers, NEW f \in Files, OpenTarget(s, f) PROVE ChangePart(t)'
  BY <1>13 DEF OpenTarget
<1>14. ASSUME NEW s \in Servers, FillTarget(s) PROVE ChangePart(t)'
  BY <1>14 DEF FillTarget
<1>15. ASSUME NEW s \in Servers, SyncFails(s) PROVE ChangePart(t)'
  BY <1>15 DEF SyncFails
<1>16. ASSUME NEW s \in Servers, Synced(s) PROVE ChangePart(t)'
  BY <1>16 DEF Synced
<1>17. ASSUME NEW s \in Servers, Return(s) PROVE ChangePart(t)'
  BY <1>17 DEF Return
<1>18. ASSUME NEW s \in Servers, Kill(s) PROVE ChangePart(t)'
  BY <1>18 DEF Kill
<1>19. ASSUME NEW s \in Servers, KillServerAlone(s) PROVE ChangePart(t)'
  BY <1>19 DEF KillServerAlone
<1>20. ASSUME NEW l \in Leases, LeaseExpires(l) PROVE ChangePart(t)'
  BY <1>20 DEF LeaseExpires
<1>21. ASSUME NEW f \in Files, NEW v \in Contents \cup {Absent},
             UserChanges(f, v)
      PROVE  ChangePart(t)'
  BY <1>21 DEF UserChanges
<1>22. CASE UNCHANGED vars
  BY <1>22 DEF vars
<1> HIDE DEF IInv, ChangePart
<1> QED
  BY <1>1, <1>2, <1>3, <1>4, <1>5, <1>6, <1>7, <1>8, <1>9, <1>10, <1>11,
     <1>12, <1>13, <1>14, <1>15, <1>16, <1>17, <1>18, <1>19, <1>20, <1>21, <1>22
  DEF Next, CallStep, CommandStep

\* ... and of its copy.
LEMMA CopyNext ==
  ASSUME IInv, [Next]_vars, NEW t \in Servers
  PROVE  CopyPart(t)'
<1> USE RunAssumption
    DEF IInv, TypeOK, CopyPart, ChangePart, Goto, Change, Forget, machine, copying, history, Fresh, OnCopy, Pcs, Values
<1>1. ASSUME NEW s \in Servers, NEW c \in Commands, CallCommand(s, c) PROVE CopyPart(t)'
  BY <1>1 DEF CallCommand
<1>2. ASSUME NEW s \in Servers, CallGit(s) PROVE CopyPart(t)'
  BY <1>2 DEF CallGit
<1>3. ASSUME NEW s \in Servers, Approve(s) PROVE CopyPart(t)'
  BY <1>3 DEF Approve
<1>4. ASSUME NEW s \in Servers, Refuse(s) PROVE CopyPart(t)'
  BY <1>4 DEF Refuse
<1>5. ASSUME NEW s \in Servers, Plan(s) PROVE CopyPart(t)'
  BY <1>5 DEF Plan
<1>6. ASSUME NEW s \in Servers, PlanFails(s) PROVE CopyPart(t)'
  BY <1>6 DEF PlanFails
<1>7. ASSUME NEW s \in Servers, NEW f \in Files, CopyIn(s, f) PROVE CopyPart(t)'
  BY <1>7 DEF CopyIn
<1>8. ASSUME NEW s \in Servers, Launch(s) PROVE CopyPart(t)'
  BY <1>8 DEF Launch
<1>9. ASSUME NEW s \in Servers, NEW f \in Files, NEW v \in Contents \cup {Absent},
             CommandChangesStage(s, f, v)
      PROVE  CopyPart(t)'
  BY <1>9 DEF CommandChangesStage
<1>10. ASSUME NEW s \in Servers, NEW f \in Files, NEW v \in Contents \cup {Absent},
             CommandChangesWorkspace(s, f, v)
      PROVE  CopyPart(t)'
  BY <1>10 DEF CommandChangesWorkspace
<1>11. ASSUME NEW s \in Servers, EndRun(s) PROVE CopyPart(t)'
  BY <1>11 DEF EndRun, Staged
<1>12. ASSUME NEW s \in Servers, RunFails(s) PROVE CopyPart(t)'
  BY <1>12 DEF RunFails
<1>13. ASSUME NEW s \in Servers, NEW f \in Files, OpenTarget(s, f) PROVE CopyPart(t)'
  BY <1>13 DEF OpenTarget
<1>14. ASSUME NEW s \in Servers, FillTarget(s) PROVE CopyPart(t)'
  BY <1>14 DEF FillTarget
<1>15. ASSUME NEW s \in Servers, SyncFails(s) PROVE CopyPart(t)'
  BY <1>15 DEF SyncFails
<1>16. ASSUME NEW s \in Servers, Synced(s) PROVE CopyPart(t)'
  BY <1>16 DEF Synced
<1>17. ASSUME NEW s \in Servers, Return(s) PROVE CopyPart(t)'
  BY <1>17 DEF Return
<1>18. ASSUME NEW s \in Servers, Kill(s) PROVE CopyPart(t)'
  BY <1>18 DEF Kill, OutlivesServer
<1>19. ASSUME NEW s \in Servers, KillServerAlone(s) PROVE CopyPart(t)'
  BY <1>19 DEF KillServerAlone, OutlivesServer
<1>20. ASSUME NEW l \in Leases, LeaseExpires(l) PROVE CopyPart(t)'
  BY <1>20 DEF LeaseExpires
<1>21. ASSUME NEW f \in Files, NEW v \in Contents \cup {Absent},
             UserChanges(f, v)
      PROVE  CopyPart(t)'
  BY <1>21 DEF UserChanges
<1>22. CASE UNCHANGED vars
  BY <1>22 DEF vars
<1> HIDE DEF IInv, CopyPart
<1> QED
  BY <1>1, <1>2, <1>3, <1>4, <1>5, <1>6, <1>7, <1>8, <1>9, <1>10, <1>11,
     <1>12, <1>13, <1>14, <1>15, <1>16, <1>17, <1>18, <1>19, <1>20, <1>21, <1>22
  DEF Next, CallStep, CommandStep

LEMMA InvInit == Init => IInv
<1> SUFFICES ASSUME Init PROVE IInv
  OBVIOUS
<1>1. TypeOK
  <2>1. call \in [Servers -> Calls]
    BY DEF Init, NoCall, Calls, Tools
  <2>2. stage \in [Servers -> [Files -> Values]] /\ workspace \in [Files -> Values]
    BY DEF Init, EmptyStage, Values
  <2>3. \A s \in Servers : call[s].tool = "none" <=> pc[s] = "idle"
    BY DEF Init, NoCall
  <2>4. pc \in [Servers -> Pcs]
    BY DEF Init, Pcs
  <2> QED
    BY <2>1, <2>2, <2>3, <2>4 DEF Init, TypeOK
<1>2. \A s \in Servers : CallPart(s)
  BY DEF Init, CallPart, NoCall
<1>3. \A s \in Servers : ChangePart(s) /\ CopyPart(s)
  BY DEF Init, ChangePart, CopyPart
<1> QED
  BY <1>1, <1>2, <1>3 DEF IInv

LEMMA InvNext == IInv /\ [Next]_vars => IInv'
<1> SUFFICES ASSUME IInv, [Next]_vars PROVE IInv'
  OBVIOUS
<1>1. TypeOK'
  BY TypeNext DEF IInv
<1>2. ASSUME NEW t \in Servers PROVE (CallPart(t) /\ ChangePart(t) /\ CopyPart(t))'
  BY CallNext, ChangeNext, CopyNext
<1> QED
  BY <1>1, <1>2 DEF IInv

\* The types hold under every backend, for every set of commands.
THEOREM RunTypeCorrect == Spec => []TypeOK
<1>1. IInv => TypeOK
  BY DEF IInv
<1> QED
  BY InvInit, InvNext, <1>1, PTL DEF Spec

\* Under a sandbox, but for a workspace below /private/tmp under Seatbelt
\* (sandbox.py:244), only a call whose approval came while the write lease was
\* live changes the workspace (server.py:348), for any number of servers that
\* end, fail or are killed at any step.
THEOREM WritesAreLeased == Spec => []OnlyLeasedWrites
<1>1. IInv => OnlyLeasedWrites
  BY DEF IInv, CallPart, ChangePart, OnlyLeasedWrites, ReadOnlyWithoutLease
<1> QED
  BY InvInit, InvNext, <1>1, PTL DEF Spec

\* A sandbox is open to the network only for a command approved as one that
\* uses it (server.py:349, risk.py:98-110).
THEOREM NetworkNeedsApproval == Spec => []NetworkIsApproved
<1>1. IInv => NetworkIsApproved
  BY DEF IInv, CallPart, NetworkIsApproved
<1> QED
  BY InvInit, InvNext, <1>1, PTL DEF Spec

\* What is copied back is the copy of a finished run, and no file beside it
\* (windows_classic.py:270-286, windows_sandbox.py:197-207).
THEOREM CopiesAreFinished == Spec => []OnlyFinishedCopiesAreSynced
<1>1. IInv => OnlyFinishedCopiesAreSynced
  BY DEF IInv, CopyPart, OnlyFinishedCopiesAreSynced
<1> QED
  BY InvInit, InvNext, <1>1, PTL DEF Spec

-----------------------------------------------------------------------------
(* The copy on its way back.                                               *)

LEMMA SyncNext ==
  ASSUME IInv, [Next]_vars, NEW t \in Servers, SyncPart(t)
  PROVE  SyncPart(t)'
<1> USE RunAssumption DEF SyncPart, Staged, Goto, machine, copying, history, OnCopy
<1>0. /\ workspace \in [Files -> Values] /\ stage \in [Servers -> [Files -> Values]]
      /\ pc \in [Servers -> Pcs] /\ call \in [Servers -> Calls]
      /\ todo \in [Servers -> SUBSET Files] /\ open \in [Servers -> Files \cup {NoFile}]
      /\ touched \in [Servers -> SUBSET Files]
  BY DEF IInv, TypeOK
<1>1. ASSUME UNCHANGED <<backend, workspace, stage, todo, touched>>, call'[t].write = call[t].write,
             pc'[t] \in {"sync", "done"} => pc'[t] = pc[t]
      PROVE  SyncPart(t)'
  BY <1>1
\* A step of one call to where nothing is copied back.
<1>2. ASSUME NEW s \in Servers, pc'[s] \notin {"sync", "done"}, UNCHANGED <<backend, workspace>>,
             \A q \in Servers \ {s} :
                /\ pc'[q] = pc[q] /\ call'[q] = call[q] /\ stage'[q] = stage[q]
                /\ todo'[q] = todo[q] /\ touched'[q] = touched[q]
      PROVE  SyncPart(t)'
  BY <1>2
<1>3. ASSUME NEW s \in Servers,
             \/ CallGit(s) \/ Approve(s) \/ Refuse(s) \/ \E c \in Commands : CallCommand(s, c)
      PROVE  SyncPart(t)'
  <2>1. pc' = [pc EXCEPT ![s] = "plan"] \/ pc' = [pc EXCEPT ![s] = "approval"]
        \/ pc' = [pc EXCEPT ![s] = "idle"]
    BY <1>3 DEF CallGit, Approve, Refuse, CallCommand
  <2>2. UNCHANGED <<backend, workspace, stage, todo, touched>>
    BY <1>3 DEF CallGit, Approve, Refuse, CallCommand
  <2>3. \A q \in Servers \ {s} : call'[q] = call[q]
    <3>1. CASE Approve(s)
      <4>1. /\ DOMAIN call = Servers
            /\ call' = [call EXCEPT
                   ![s].paid = IF call[s].risk >= approvalFrom THEN call[s].risk ELSE 0,
                   ![s].leased = leases \ {"process"}]
        BY <1>0, <3>1 DEF Approve
      <4> QED BY <4>1
    <3>2. CASE CallGit(s) \/ Refuse(s)
      BY <1>0, <3>2 DEF CallGit, Refuse
    <3>3. CASE \E c \in Commands : CallCommand(s, c)
      BY <1>0, <3>3 DEF CallCommand
    <3> QED BY <1>3, <3>1, <3>2, <3>3
  <2>4. pc'[s] \notin {"sync", "done"} /\ \A q \in Servers \ {s} : pc'[q] = pc[q]
    BY <1>0, <2>1
  <2> QED BY <1>2, <2>2, <2>3, <2>4
<1>4. ASSUME NEW s \in Servers,
             \/ Plan(s) \/ PlanFails(s) \/ Launch(s) \/ RunFails(s) \/ SyncFails(s)
             \/ Kill(s) \/ KillServerAlone(s) \/ Return(s)
      PROVE  SyncPart(t)'
  <2>1. pc'[s] \notin {"sync", "done"} /\ UNCHANGED <<backend, workspace>>
    BY <1>0, <1>4 DEF Plan, PlanFails, Launch, RunFails, SyncFails, Kill, KillServerAlone, Return,
       Forget
  <2>2. \A q \in Servers \ {s} : pc'[q] = pc[q] /\ call'[q] = call[q] /\ stage'[q] = stage[q]
    BY <1>0, <1>4 DEF Plan, PlanFails, Launch, RunFails, SyncFails, Kill, KillServerAlone, Return,
       Forget
  <2>3. \A q \in Servers \ {s} : todo'[q] = todo[q] /\ touched'[q] = touched[q]
    BY <1>0, <1>4 DEF Plan, PlanFails, Launch, RunFails, SyncFails, Kill, KillServerAlone, Return,
       Forget
  <2> QED BY <1>2, <2>1, <2>2, <2>3
<1>5. ASSUME NEW s \in Servers, NEW f \in Files, CopyIn(s, f) PROVE SyncPart(t)'
  BY <1>0, <1>5 DEF CopyIn
\* A process of the command is alive only while its run lasts.
<1>6. ASSUME NEW s \in Servers, NEW f \in Files, NEW v \in Contents \cup {Absent},
             CommandChangesStage(s, f, v)
      PROVE  SyncPart(t)'
  <2>1. pc[s] = "run"
    BY <1>6 DEF CommandChangesStage, IInv, CopyPart
  <2> QED BY <1>0, <1>6, <2>1 DEF CommandChangesStage
<1>7. ASSUME NEW s \in Servers, NEW f \in Files, NEW v \in Contents \cup {Absent},
             CommandChangesWorkspace(s, f, v)
      PROVE  SyncPart(t)'
  BY <1>7 DEF CommandChangesWorkspace
<1>8. ASSUME NEW s \in Servers, EndRun(s) PROVE SyncPart(t)'
  BY <1>0, <1>8 DEF EndRun
\* What others change, they touch.
<1>9. ASSUME NEW f \in Files, NEW v, NEW S \in SUBSET Servers, t \in S, Change(f, v, S),
             UNCHANGED <<backend, pc, call, stage, todo>>
      PROVE  SyncPart(t)'
  BY <1>0, <1>9 DEF Change
<1>10. ASSUME NEW s \in Servers, NEW f \in Files, OpenTarget(s, f) PROVE SyncPart(t)'
  <2>1. CASE s # t
    BY <1>9, <1>10, <2>1 DEF OpenTarget
  <2>2. CASE s = t
    <3>1. /\ pc[t] = "sync" /\ f \in todo[t]
          /\ workspace' = [workspace EXCEPT ![f] = Torn] /\ touched'[t] = touched[t]
          /\ UNCHANGED <<backend, pc, call, stage, todo>>
      BY <1>0, <1>10, <2>2 DEF OpenTarget, Change
    <3> QED BY <1>0, <3>1
  <2> QED BY <2>1, <2>2
<1>11. ASSUME NEW s \in Servers, FillTarget(s) PROVE SyncPart(t)'
  <2>1. open[s] \in Files
    BY <1>0, <1>11 DEF FillTarget
  <2>2. CASE s # t
    <3>1. todo'[t] = todo[t] /\ UNCHANGED <<backend, pc, call, stage>>
      BY <1>0, <1>11, <2>2 DEF FillTarget
    <3>2. Change(open[s], stage[s][open[s]], Servers \ {s})
      BY <1>11 DEF FillTarget
    <3> QED BY <1>0, <2>1, <2>2, <3>1, <3>2 DEF Change
  <2>3. CASE s = t
    <3>1. /\ pc[t] = "sync" /\ todo'[t] = todo[t] \ {open[t]}
          /\ workspace' = [workspace EXCEPT ![open[t]] = stage[t][open[t]]]
          /\ touched'[t] = touched[t]
          /\ UNCHANGED <<backend, pc, call, stage>>
      BY <1>0, <1>11, <2>3 DEF FillTarget, Change
    <3> QED BY <1>0, <2>1, <2>3, <3>1
  <2> QED BY <2>2, <2>3
<1>12. ASSUME NEW s \in Servers, Synced(s) PROVE SyncPart(t)'
  BY <1>0, <1>12 DEF Synced
<1>13. ASSUME NEW f \in Files, NEW v \in Contents \cup {Absent}, UserChanges(f, v)
       PROVE  SyncPart(t)'
  BY <1>9, <1>13 DEF UserChanges
<1>14. CASE UNCHANGED vars \/ \E l \in Leases : LeaseExpires(l)
  BY <1>1, <1>14 DEF vars, LeaseExpires
<1> QED
  BY <1>3, <1>4, <1>5, <1>6, <1>7, <1>8, <1>10, <1>11, <1>12, <1>13, <1>14
  DEF Next, CallStep, CommandStep

\* On Windows, a command with a writable copy that is answered with a result has
\* left every file of the copy in the workspace (windows_sandbox.py:197-207),
\* but for what others have changed since: for any files and servers.
THEOREM ResultsAreSynced == Spec => []ResultIsSynced
<1>1. Init => \A s \in Servers : SyncPart(s)
  BY DEF Init, SyncPart
<1>2. IInv /\ (\A s \in Servers : SyncPart(s)) /\ [Next]_vars => (\A s \in Servers : SyncPart(s))'
  BY SyncNext
<1>3. (\A s \in Servers : SyncPart(s)) => ResultIsSynced
  BY DEF SyncPart, ResultIsSynced
<1> QED
  BY InvInit, InvNext, <1>1, <1>2, <1>3, PTL DEF Spec

=============================================================================
