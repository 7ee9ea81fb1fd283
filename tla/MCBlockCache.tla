---------------------------- MODULE MCBlockCache ----------------------------
(***************************************************************************)
(* Instances of BlockCache for TLC: at most MaxCalls requests arrive, and  *)
(* when all of them have been served the system rests.  Deadlock checking  *)
(* then finds tasks and threads that wait for each other.                  *)
(***************************************************************************)
EXTENDS BlockCache, TLC

CONSTANTS MaxCalls,     \* bound on the number of requests
          InitialIds,   \* ids of the objects that may exist at mount time
          t1, t2, t3

VARIABLE calls          \* number of requests so far

mcvars == <<vars, calls>>

\* Nothing is under way.
Quiescent ==
    /\ \A t \in Task : task[t].pc = "idle"
    /\ \A w \in Thread : thread[w].st \in {"idle", "dead"}
    /\ to_remove = {}
    /\ \A r \in Remover : ids[r] = {}

MCInit ==
    /\ Init
    /\ DOMAIN objects \subseteq InitialIds
    /\ calls = 0

MCCall == calls < MaxCalls /\ calls' = calls + 1 /\ \E t \in Task : Call(t)

MCStep == Step /\ UNCHANGED calls

MCRest == Quiescent /\ UNCHANGED mcvars

MCNext == MCCall \/ MCStep \/ MCRest

MCSpec == MCInit /\ [][MCNext]_mcvars

(***************************************************************************)
(* The event loop resumes every task that can go on, and the operating     *)
(* system runs every thread.                                               *)
(***************************************************************************)
Fairness ==
    /\ \A t \in Task : WF_vars(TaskStep(t))
    /\ \A w \in Thread : WF_vars(ThreadStep(w))
    /\ \A r \in Remover : WF_vars(RemoverStep(r))

FairSpec == MCSpec /\ Fairness

-----------------------------------------------------------------------------
(***************************************************************************)
(* Once requests stop arriving every operation comes to its end: nobody    *)
(* waits for a lock, an upload or room in the removal queue forever, and   *)
(* flush and expire do not go round in circles.                            *)
(***************************************************************************)
EventuallyQuiescent == <>[]Quiescent

(***************************************************************************)
(* No object is left behind in the backend: one whose row has been deleted *)
(* is eventually removed.                                                  *)
(***************************************************************************)
OrphansRemoved ==
    \A o \in ObjId :
        (o \in DOMAIN store \ DOMAIN objects) ~> (o \notin DOMAIN store \ DOMAIN objects)

(***************************************************************************)
(* The number of entries is limited by the --max-cache-entries option:     *)
(* drop lowers the limit only while it runs.  This does not hold when two  *)
(* drops overlap: the second one saves the 0 that the first one set, and   *)
(* restores it (block_cache.py:890).                                       *)
(***************************************************************************)
LimitIsTheOption ==
    (\A t \in Task : task[t].op # "drop") => max_entries = MaxEntries

-----------------------------------------------------------------------------
\* Who does what.
ExpiringOps == [t \in Task |-> {"read", "write", "copy", "drop", "remove"}]
ReadWrite == [t \in Task |-> {"read", "write"}]
WriteFlush == [t \in Task |-> IF t = t1 THEN {"read", "write", "remove"}
                              ELSE {"flush"}]
WriteCopy == [t \in Task |-> IF t = t1 THEN {"write", "remove", "copy"}
                             ELSE {"commit", "flush"}]
FaultyOps == [t \in Task |-> IF t = t1 THEN {"read", "write"} ELSE {"flush"}]
Symmetry == Permutations(Inode) \cup Permutations(Task)
InodeSymmetry == Permutations(Inode)
=============================================================================
