--------------------------- MODULE MCCacheSettings ---------------------------
(***************************************************************************)
(* The block cache in the settings that BlockCacheSafety.cfg leaves out:   *)
(* connections that fail, a copy while the CommitTask uploads, a cache of  *)
(* no entries at all, and uploads after the last thread has died.  A       *)
(* behaviour is one of one setting.                                        *)
(***************************************************************************)
EXTENDS Integers, FiniteSets, TLC

CONSTANTS t1, t2, t3, w1, w2, r1, i1, i2, i3, n0, n1, g1, g2, zero, A,
          o1, o2, o3, o4, o5, None

VARIABLES
    part,    \* the setting
    calls, objects, inode_blocks, cache, max_entries, data, dirty, in_transit,
    locked, task, thread, to_remove, ids, store, open_inodes, failsafe

vars == <<part, calls, objects, inode_blocks, cache, max_entries, data, dirty,
          in_transit, locked, task, thread, to_remove, ids, store, open_inodes,
          failsafe>>

\* Who does what.
ReadWrite == [t \in {t1, t2} |-> {"read", "write"}]
WriteCopy == [t \in {t1, t2} |-> IF t = t1 THEN {"write", "remove", "copy"}
                                 ELSE {"commit", "flush"}]
FaultyOps == [t \in {t1, t2} |-> IF t = t1 THEN {"read", "write"} ELSE {"flush"}]

\* Of two upload threads one may lose its connection.
Fault == INSTANCE MCBlockCache WITH
    Task <- {t1, t2}, Thread <- {w1, w2}, Faulty <- {w1}, Remover <- {r1},
    DeleteMulti <- FALSE, Inode <- {i1, i2}, BlockNo <- {n0}, Gen <- {g1, g2},
    Data <- {zero, A}, Zero <- zero, ObjId <- {o1, o2, o3, o4}, MaxEntries <- 1,
    QueueSize <- 1, Ops <- FaultyOps, KernelForgets <- FALSE,
    InitialIds <- {}, MaxCalls <- 4

\* Two blocks per inode, removal in batches, and the kernel's forget.
Copy == INSTANCE MCBlockCache WITH
    Task <- {t1, t2}, Thread <- {w1}, Faulty <- {}, Remover <- {r1},
    DeleteMulti <- TRUE, Inode <- {i1, i2}, BlockNo <- {n0, n1}, Gen <- {g1, g2},
    Data <- {zero, A}, Zero <- zero, ObjId <- {o1, o2, o3, o4, o5}, MaxEntries <- 4,
    QueueSize <- 1, Ops <- WriteCopy, KernelForgets <- TRUE,
    InitialIds <- {o1}, MaxCalls <- 3

\* --max-cache-entries 0, and three blocks that compete.
Bound == INSTANCE MCBlockCache WITH
    Task <- {t1, t2}, Thread <- {w1}, Faulty <- {}, Remover <- {r1},
    DeleteMulti <- FALSE, Inode <- {i1, i2, i3}, BlockNo <- {n0}, Gen <- {g1, g2},
    Data <- {zero}, Zero <- zero, ObjId <- {o1, o2, o3, o4}, MaxEntries <- 0,
    QueueSize <- 1, Ops <- ReadWrite, KernelForgets <- FALSE,
    InitialIds <- {o1}, MaxCalls <- 3

\* The only upload thread may lose its connection.
Dead == INSTANCE MCBlockCache WITH
    Task <- {t1, t2}, Thread <- {w1}, Faulty <- {w1}, Remover <- {r1},
    DeleteMulti <- FALSE, Inode <- {i1, i2}, BlockNo <- {n0}, Gen <- {g1, g2},
    Data <- {zero, A}, Zero <- zero, ObjId <- {o1, o2, o3, o4}, MaxEntries <- 1,
    QueueSize <- 1, Ops <- FaultyOps, KernelForgets <- FALSE,
    InitialIds <- {o1}, MaxCalls <- 3

Init ==
    \/ part = "fault" /\ Fault!MCInit
    \/ part = "copy" /\ Copy!MCInit
    \/ part = "bound" /\ Bound!MCInit
    \/ part = "dead" /\ Dead!MCInit

Next ==
    /\ \/ part = "fault" /\ Fault!MCNext
       \/ part = "copy" /\ Copy!MCNext
       \/ part = "bound" /\ Bound!MCNext
       \/ part = "dead" /\ Dead!MCNext
    /\ UNCHANGED part

Spec == Init /\ [][Next]_vars

Symmetry == Permutations({i1, i2})

-----------------------------------------------------------------------------
(***************************************************************************)
(* The database and the locks stay consistent whatever fails in between.   *)
(* With failing uploads and removals: a reference count is the number of   *)
(* blocks and uploads that refer to the object; a block is linked to an    *)
(* object that another block brought into the database only if that object *)
(* is or will be in the backend, because an upload that fails takes its    *)
(* row back before it lets go of its locks; nobody is left holding a lock. *)
(* While inodes are copied: the counts are exact and nothing that is       *)
(* queued for removal is referenced.  After the upload threads have died:  *)
(* no block refers to a row that is gone (block_cache.py:383-480, 555-613, *)
(* fs.py:490-560).                                                         *)
(***************************************************************************)
StaysConsistent ==
    /\ part = "fault" => /\ Fault!RefcountExact
                         /\ Fault!DedupTargetExists
                         /\ Fault!NoDangling
                         /\ Fault!LockOwnership
    /\ part = "copy" => Copy!RefcountExact /\ Copy!RemovalSafe
    /\ part = "dead" => Dead!NoDangling /\ Dead!LockOwnership /\ Dead!RemovalSafe

(***************************************************************************)
(* expire keeps the cache within its limit, even a limit of no entries, up *)
(* to one entry per task that passed the is_full test and has not          *)
(* installed its entry yet (block_cache.py:722-760).                       *)
(***************************************************************************)
CacheBounded == part = "bound" => Bound!CacheBounded

(***************************************************************************)
(* Whatever the cache, the uploads and the removals do in the background,  *)
(* a copy included, a block reads as what was last written to it           *)
(* (BlockStore).                                                           *)
(***************************************************************************)
ImplementsBlockStore ==
    /\ part = "copy" => Copy!Abstract!Init
    /\ [][part = "copy" => \/ UNCHANGED Copy!AbstractState
                           \/ Copy!Abstract!Next]_vars
==============================================================================
