------------------------------ MODULE KeyLock -------------------------------
(***************************************************************************)
(* What MultiLock promises to its callers: a set of locks, one per key.  A *)
(* task asks for a key and gets it at a moment when it is free; whoever is *)
(* responsible for it gives it back.  This is the lock the module          *)
(* BlockCache uses.                                                        *)
(***************************************************************************)
CONSTANTS Task, Key, None

VARIABLES held,   \* the locked keys
          want    \* the key a task is waiting for, or None

Init == held = {} /\ want = [t \in Task |-> None]

Ask(t, k) ==
    /\ want[t] = None
    /\ want' = [want EXCEPT ![t] = k]
    /\ UNCHANGED held

Grant(t) ==
    /\ want[t] \in Key \ held
    /\ held' = held \cup {want[t]}
    /\ want' = [want EXCEPT ![t] = None]

\* acquire_nowait: take a free key without waiting.
Take(t, k) ==
    /\ want[t] = None
    /\ k \in Key \ held
    /\ held' = held \cup {k}
    /\ UNCHANGED want

GiveBack(k) ==
    /\ k \in held
    /\ held' = held \ {k}
    /\ UNCHANGED want

Next ==
    \/ \E t \in Task, k \in Key : Ask(t, k) \/ Take(t, k)
    \/ \E t \in Task : Grant(t)
    \/ \E k \in Key : GiveBack(k)

Spec == Init /\ [][Next]_<<held, want>>
=============================================================================
