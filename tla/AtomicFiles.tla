---------------------------- MODULE AtomicFiles ----------------------------
(***************************************************************************)
(* What the client of the editing tools relies on, with nothing of how     *)
(* src/gpthands/safe_write.py does it: a write takes effect in one step or *)
(* not at all, whatever fails and whoever dies; and once it is acknowledged *)
(* no power loss goes back behind it. The user changes the same files.     *)
(* There are no temporary files, no links and no syncs here.               *)
(***************************************************************************)

CONSTANTS
    Procs, Names, Contents,
    Absent,         \* what a name shows that does not exist
    Durable         \* an acknowledged write is on the disk

VARIABLES
    content,        \* what everybody sees under each name
    fallback,       \* what a power loss may bring back instead
    writing,        \* the write each process has been asked for, or NoWrite
    stage           \* how far it has come

Shown == Contents \cup {Absent}
Write == [name : Names, new : Contents, overwrite : BOOLEAN]
NoWrite == [name |-> "none"]

Init ==
    /\ content \in [Names -> Shown]
    /\ fallback = [n \in Names |-> {}]
    /\ writing = [p \in Procs |-> NoWrite]
    /\ stage = [p \in Procs |-> "none"]

Proceed(p, from, to) == stage[p] \in from /\ stage' = [stage EXCEPT ![p] = to]

Ask(p) ==
    /\ Proceed(p, {"none"}, "asked")
    /\ writing'[p] \in Write
    /\ writing' = [writing EXCEPT ![p] = writing'[p]]
    /\ UNCHANGED <<content, fallback>>

TakeEffect(p) ==
    LET w == writing[p]
    IN  /\ Proceed(p, {"asked"}, "effective")
        /\ w.overwrite \/ content[w.name] = Absent
        /\ content' = [content EXCEPT ![w.name] = w.new]
        /\ fallback' = [fallback EXCEPT ![w.name] = @ \cup {content[w.name]}]
        /\ UNCHANGED writing

\* From here on a power loss brings back this write or a later one.
Acknowledge(p) ==
    /\ Proceed(p, {"effective"}, "acknowledged")
    /\ fallback' = [n \in Names |-> fallback'[n]]
    /\ \A n \in Names : fallback'[n] \in {fallback[n], {}}
    /\ Durable => fallback'[writing[p].name] = {}
    /\ UNCHANGED <<content, writing>>

\* A write that fails has taken effect or not.
Fail(p) == Proceed(p, {"asked", "effective"}, "failed") /\ UNCHANGED <<content, fallback, writing>>

Leave(p) ==
    /\ writing' = [writing EXCEPT ![p] = NoWrite]
    /\ UNCHANGED <<content, fallback>>

Answer(p) == Proceed(p, {"acknowledged", "failed"}, "none") /\ Leave(p)

Die(p) == Proceed(p, {"asked", "effective", "acknowledged", "failed"}, "none") /\ Leave(p)

UserChange(n) ==
    /\ UNCHANGED <<writing, stage>>
    /\ fallback' = [fallback EXCEPT ![n] = {}]
    /\ content'[n] \in Shown
    /\ content' = [content EXCEPT ![n] = content'[n]]

PowerLoss ==
    /\ content' = [n \in Names |-> content'[n]]
    /\ \A n \in Names : content'[n] \in {content[n]} \cup fallback[n]
    /\ fallback' = [n \in Names |-> {}]
    /\ writing' = [p \in Procs |-> NoWrite]
    /\ stage' = [p \in Procs |-> "none"]

Next ==
    \/ \E n \in Names : UserChange(n)
    \/ \E p \in Procs :
          Ask(p) \/ TakeEffect(p) \/ Acknowledge(p) \/ Fail(p) \/ Answer(p) \/ Die(p)
    \/ PowerLoss

Spec == Init /\ [][Next]_<<content, fallback, writing, stage>>
=============================================================================
