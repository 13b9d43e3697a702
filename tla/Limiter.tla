------------------------------ MODULE Limiter ------------------------------
(***************************************************************************)
(* ActionLimiter (limits.py): a limit on the requests of a window of time, *)
(* and a bounded number of slots. The window is guarded by a lock, but a   *)
(* thread takes its time stamp before it waits for the lock, so that       *)
(* stamps may enter the window out of order; and a thread that then gets   *)
(* no slot has spent its place in the window all the same.                 *)
(***************************************************************************)
EXTENDS Integers, Sequences, FiniteSets

CONSTANTS
    Callers,
    Rate,           \* requests_per_minute
    Window,         \* the minute
    Slots,          \* max_concurrent
    MaxTime         \* bound: the clock stops here

ASSUME LimiterAssumption ==
    /\ IsFiniteSet(Callers) /\ Callers # {}
    /\ Rate \in Nat \ {0} /\ Slots \in Nat \ {0} /\ Window \in Nat \ {0} /\ MaxTime \in Nat

VARIABLES
    times,          \* _times, the stamps of the window
    free,           \* _slots, the semaphore's count
    clock,
    at,             \* what each thread does
    stamp,          \* the stamp it has taken
    entries,        \* history: the stamps of all requests that were let in; those with
                    \* the same stamp are told apart by a number
    overtaken       \* history: a thread has stamped before and entered after another

limiterVars == <<times, free, clock, at, stamp, entries, overtaken>>

Places == {"idle", "stamped", "queued", "inside"}

LimiterTypeOK ==
    /\ times \in Seq(0 .. MaxTime) /\ Len(times) <= Rate
    /\ free \in 0 .. Slots
    /\ clock \in 0 .. MaxTime
    /\ at \in [Callers -> Places]
    /\ stamp \in [Callers -> 0 .. MaxTime]
    /\ entries \subseteq (0 .. MaxTime) \X Nat
    /\ overtaken \in BOOLEAN

LimiterInit ==
    /\ times = <<>>
    /\ free = Slots
    /\ clock = 0
    /\ at = [t \in Callers |-> "idle"]
    /\ stamp = [t \in Callers |-> 0]
    /\ entries = {}
    /\ overtaken = FALSE

Goes(t, from, to) == at[t] = from /\ at' = [at EXCEPT ![t] = to]

\* now = time.monotonic(), before the lock.
Stamp(t) ==
    /\ Goes(t, "idle", "stamped")
    /\ stamp' = [stamp EXCEPT ![t] = clock]
    /\ UNCHANGED <<times, free, clock, entries, overtaken>>

\* Mutant: a stamp goes when it is as old as the window less one.
PrunedTooSoon(s, t) == SelectSeq(s, LAMBDA x : x + Window > t + 1)

\* The stamps that are left when the old ones at the front are gone. One that
\* came late and stands behind a younger one stays with it.
Pruned(s, t) ==
    LET young == {i \in DOMAIN s : s[i] + Window > t}
    IN  IF young = {} THEN <<>>
        ELSE SubSeq(s, CHOOSE i \in young : \A j \in young : i <= j, Len(s))

Late(t) == \E e \in entries : e[1] > stamp[t]

EqualStamps(n) == {e \in entries : e[1] = n}

\* _reserve_rate, with the lock.
Reserve(t) ==
    /\ Goes(t, "stamped", "queued")
    /\ Len(Pruned(times, stamp[t])) < Rate
    /\ times' = Append(Pruned(times, stamp[t]), stamp[t])
    /\ entries' = entries \cup {<<stamp[t], Cardinality(EqualStamps(stamp[t]))>>}
    /\ overtaken' = (overtaken \/ Late(t))
    /\ UNCHANGED <<free, clock, stamp>>

\* The limit is reached: LimitError. What was old is gone all the same.
Refuse(t) ==
    /\ Goes(t, "stamped", "idle")
    /\ Len(Pruned(times, stamp[t])) >= Rate
    /\ times' = Pruned(times, stamp[t])
    /\ UNCHANGED <<free, clock, stamp, entries, overtaken>>

\* _slots.acquire: at once, or before the timeout.
Enter(t) ==
    /\ free > 0
    /\ Goes(t, "queued", "inside")
    /\ free' = free - 1
    /\ UNCHANGED <<times, clock, stamp, entries, overtaken>>

\* Mutant: a thread that timed out gives a slot back.
GiveUpAndRelease(t) ==
    /\ free = 0
    /\ Goes(t, "queued", "idle")
    /\ free' = free + 1
    /\ UNCHANGED <<times, clock, stamp, entries, overtaken>>

\* The timeout: LimitError.
GiveUpSlot(t) ==
    /\ free = 0
    /\ Goes(t, "queued", "idle")
    /\ UNCHANGED <<times, free, clock, stamp, entries, overtaken>>

\* The action returns or raises: the slot is released.
Leave(t) ==
    /\ Goes(t, "inside", "idle")
    /\ free' = free + 1
    /\ UNCHANGED <<times, clock, stamp, entries, overtaken>>

Elapse ==
    /\ clock < MaxTime
    /\ clock' = clock + 1
    /\ UNCHANGED <<times, free, at, stamp, entries, overtaken>>

LimiterNext ==
    \/ \E t \in Callers :
          Stamp(t) \/ Reserve(t) \/ Refuse(t) \/ Enter(t) \/ GiveUpSlot(t) \/ Leave(t)
    \/ Elapse

LimiterSpec == LimiterInit /\ [][LimiterNext]_limiterVars

-----------------------------------------------------------------------------
\* The requests with a stamp in the window that ends with n.
InWindow(n) == {e \in entries : e[1] \in n - Window + 1 .. n}

RateIsKept ==
    \A e \in entries :
        Cardinality(InWindow(e[1])) <= IF overtaken THEN Rate + Cardinality(Callers) - 1 ELSE Rate

SlotsAreKept == free + Cardinality({t \in Callers : at[t] = "inside"}) = Slots

\* No window holds more requests than the limit, unless a thread was overtaken
\* between its stamp and the lock: then it may hold one more for each of the
\* other threads. (The stdio loop of the server has one thread.) And every slot is
\* free or used by one action: none is lost in a timeout or an error, and no more
\* actions run together than there are slots.
LimitsAreKept == RateIsKept /\ SlotsAreKept
=============================================================================
