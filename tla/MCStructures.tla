---------------------------- MODULE MCStructures ----------------------------
(***************************************************************************)
(* The inode cache and the locks per key, the two data structures the file *)
(* system and the block cache rest on, for TLC.  A behaviour is one of one *)
(* of them; the other keeps its initial state.                             *)
(***************************************************************************)
EXTENDS InodeCache, MultiLock

VARIABLE part  \* the structure that is used

BothInit == part \in {"inodes", "lock"} /\ Init /\ LockInit

InodesStep == part = "inodes" /\ Next /\ UNCHANGED <<part, lockvars>>
LockStep == part = "lock" /\ LockNext /\ UNCHANGED <<part, vars>>

BothSpec == BothInit /\ [][InodesStep \/ LockStep]_<<part, vars, lockvars>>

FairSpec == BothSpec /\ LockFairness
=============================================================================
