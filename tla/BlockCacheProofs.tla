-------------------------- MODULE BlockCacheProofs --------------------------
(***************************************************************************)
(* Type correctness of module BlockCache, and the bound on the number of   *)
(* cached entries that follows from counting. TypeOK is not inductive by   *)
(* itself: what a step assigns depends on which local variables are set at *)
(* the suspension point a task or thread is resumed from (ControlOK). The  *)
(* invariant Inv regroups the two: Shared speaks of the shared state and   *)
(* the threads, Tasks of the tasks. One lemma per action shows that it is  *)
(* preserved.                                                              *)
(***************************************************************************)
EXTENDS BlockCache, FiniteSetTheorems, TLAPS

\* A well-formed local state of a task.
Typed(s) == s \in TaskState /\ TaskShape(s)

\* The shared state and the upload threads are well-formed.
Shared ==
    /\ DOMAIN objects \subseteq ObjId
    /\ objects \in [DOMAIN objects -> ObjectRow]
    /\ inode_blocks \in [Block -> ObjId \cup {None}]
    /\ cache \in [Block -> CacheEntry \cup {None}]
    /\ \A b \in Block : cache[b] # None => cache[b][1] = b
    /\ max_entries \in Nat
    /\ data \in [CacheEntry -> Data]
    /\ dirty \subseteq CacheEntry
    /\ in_transit \subseteq CacheEntry
    /\ locked \subseteq Block \cup ObjId
    /\ thread \in [Thread -> UploadState]
    /\ \A w \in Thread : ThreadShape(thread[w])
    /\ to_remove \subseteq ObjId
    /\ ids \in [Remover -> SUBSET ObjId]
    /\ DOMAIN store \subseteq ObjId
    /\ store \in [DOMAIN store -> Data]
    /\ open_inodes \subseteq Inode
    /\ failsafe \in BOOLEAN

\* So are the tasks.
Tasks == /\ task \in [Task -> TaskState]
         /\ \A t \in Task : TaskShape(task[t])

\* The inductive invariant.
Inv == Shared /\ Tasks

\* Inv is the type invariant together with the control invariant.
LEMMA InvTypes == Inv <=> TypeOK /\ ControlOK
BY DEF Inv, Shared, Tasks, TypeOK, ControlOK

-----------------------------------------------------------------------------
(* Helpers.                                                                *)

\* The state of a task that executes nothing is well-formed.
LEMMA IdleTyped == Typed(IdleTask)
<1>1. IdleTask \in TaskState
  BY DEF IdleTask, TaskState, PC
<1>2. TaskShape(IdleTask)
  BY BlockCacheAssumption DEF IdleTask, TaskShape, OpNames
<1> QED  BY <1>1, <1>2 DEF Typed

\* A task goes to a well-formed local state.
LEMMA TaskMoves ==
  ASSUME Tasks, NEW t \in Task, NEW r, Typed(r), task' = [task EXCEPT ![t] = r]
  PROVE  Tasks'
<1>1. \A u \in Task : task'[u] = IF u = t THEN r ELSE task[u]
  BY DEF Tasks
<1>2. task' \in [Task -> TaskState]
  BY DEF Tasks, Typed
<1> QED  BY <1>1, <1>2 DEF Tasks, Typed

\* Steps that change a task's local state only.
LEMMA SharedStays ==
  ASSUME Shared, UNCHANGED <<database, entries, max_entries, in_transit, locked, thread,
                   removal, store, open_inodes>>
  PROVE Shared'
BY DEF Shared, database, entries, removal

\* The cached entries are CacheEntry objects.
LEMMA CachedTyped == Shared => CachedEntries \subseteq CacheEntry
BY DEF Shared, CachedEntries

\* There are finitely many blocks.
LEMMA BlockFinite == IsFiniteSet(Block)
BY BlockCacheAssumption, FS_Product DEF Block

\* The number of cached entries is a number.
LEMMA CachedFinite ==
  ASSUME Shared  PROVE  Cardinality(CachedEntries) \in Nat
<1>1. IsFiniteSet(CacheEntry)
  BY BlockCacheAssumption, BlockFinite, FS_Product DEF CacheEntry
<1>2. IsFiniteSet(CachedEntries)
  BY <1>1, CachedTyped, FS_Subset
<1> QED  BY <1>2, FS_CardinalityType

\* An entry belongs to a block.
LEMMA BlockOfEntry == \A e \in CacheEntry : BlockOf(e) \in Block
BY DEF CacheEntry, BlockOf

\* upload_if_dirty returns to a well-formed loop.
LEMMA UploadReturnsTyped ==
  ASSUME Tasks, NEW t \in Task, NEW x \in BOOLEAN,
         task[t].pc # "idle", task[t].op # "remove", task[t].el \in CacheEntry
  PROVE  Typed(UploadReturns(t, x))
<1> DEFINE s == task[t]
           again == Expiring(t) /\ ~x
           pc == IF again THEN "evict_lock" ELSE "loop"
           el == IF again THEN s.el ELSE None
           sth == (s.sth \/ x) /\ (Expiring(t) \/ task[t].op = "flush")
           r == [s EXCEPT !.pc = pc, !.el = el, !.sth = sth, !.old = None,
                          !.obj = None, !.gone = None, !.size = FALSE]
<1>1. s \in TaskState /\ TaskShape(s) /\ s.pc # "idle" /\ s.op # "remove"
  BY DEF Tasks
<1>2. UploadReturns(t, x) = r
  BY <1>1 DEF UploadReturns, TaskState
<1>3. pc \in {"loop", "evict_lock"} /\ el \in CacheEntry \cup {None}
      /\ sth \in BOOLEAN /\ (pc = "evict_lock" => el \in CacheEntry)
  OBVIOUS
<1>4. Typed(r)
  <2> HIDE DEF s, pc, el, sth
  <2>1. r \in TaskState
    BY <1>1, <1>3 DEF TaskState, PC
  <2>2. TaskShape(r)
    BY <1>1, <1>3 DEF TaskShape, TaskState
  <2> QED  BY <2>1, <2>2 DEF Typed
<1> QED  BY <1>2, <1>4

\* _deref_obj returns to a well-formed caller.
LEMMA DerefReturnsTyped ==
  ASSUME Tasks, NEW t \in Task, task[t].pc \in {"deref", "deref_lock"}
  PROVE  Typed(DerefReturns(t))
<1> DEFINE s == task[t]
           r == [s EXCEPT !.pc = "remove", !.old = None, !.gone = None, !.size = FALSE]
<1>1. s \in TaskState /\ TaskShape(s) /\ s.pc \in {"deref", "deref_lock"}
  BY DEF Tasks
<1>2. CASE s.op = "remove"
  <2>1. DerefReturns(t) = r
    BY <1>2 DEF DerefReturns
  <2> HIDE DEF s
  <2>2. r \in TaskState
    BY <1>1 DEF TaskState, PC
  <2>3. TaskShape(r)
    BY <1>1, <1>2 DEF TaskShape, TaskState
  <2> QED  BY <2>1, <2>2, <2>3 DEF Typed
<1>3. CASE s.op # "remove"
  <2>1. s.pc # "idle" /\ s.el \in CacheEntry
    BY <1>1, <1>3 DEF TaskShape
  <2> QED  BY <1>3, <2>1, UploadReturnsTyped DEF DerefReturns
<1> QED  BY <1>2, <1>3


-----------------------------------------------------------------------------
(* Steps of a task.                                                        *)

\* get() is called.
LEMMA GetCallInv ==
  ASSUME Inv, NEW t \in Task, NEW op \in {"read", "write"}, NEW b \in Block, GetCall(t, op, b)
  PROVE  Inv'
<1> DEFINE s == task[t]
           pc == IF IsFull THEN "pass" ELSE "get_lock"
           r == [s EXCEPT !.op = op, !.arg = b, !.pc = pc]
<1>0. pc \in {"pass", "get_lock"}
  BY DEF Inv, Shared
<1>1. s \in TaskState /\ TaskShape(s) /\ s = IdleTask
  BY DEF Inv, Tasks, GetCall, TaskShape
<1>2. Typed(r)
  <2> HIDE DEF s, pc
  <2>1. r \in TaskState
    BY <1>1, <1>0 DEF TaskState, PC, OpNames, IdleTask
  <2>2. TaskShape(r)
    BY <1>1, <1>0, BlockCacheAssumption DEF TaskShape, TaskState, OpNames, IdleTask
  <2> QED  BY <2>1, <2>2 DEF Typed
<1>3. task' = [task EXCEPT ![t] = r]
  BY <1>1 DEF GetCall, TaskState
<1> HIDE DEF r
<1> QED  BY <1>2, <1>3, TaskMoves, SharedStays DEF Inv, GetCall

\* The object lock is free.
LEMMA GetWaitInv ==
  ASSUME Inv, NEW t \in Task, GetWait(t)
  PROVE  Inv'
<1> DEFINE s == task[t]
           r == [s EXCEPT !.pc = "download"]
<1>1. s \in TaskState /\ TaskShape(s) /\ s.pc = "get_wait"
  BY DEF Inv, Tasks, GetWait
<1>2. Typed(r)
  <2> HIDE DEF s
  <2>1. r \in TaskState
    BY <1>1 DEF TaskState, PC, OpNames
  <2>2. TaskShape(r)
    BY <1>1 DEF TaskShape, TaskState, OpNames
  <2> QED  BY <2>1, <2>2 DEF Typed
<1>3. task' = [task EXCEPT ![t] = r]
  BY <1>1 DEF GetWait, TaskState
<1> HIDE DEF r
<1> QED  BY <1>2, <1>3, TaskMoves, SharedStays DEF Inv, GetWait

\* flush() is called.
LEMMA FlushCallInv ==
  ASSUME Inv, NEW t \in Task, FlushCall(t)
  PROVE  Inv'
<1> DEFINE s == task[t]
           r == [s EXCEPT !.op = "flush", !.pc = "pass"]
<1>1. s \in TaskState /\ TaskShape(s) /\ s = IdleTask
  BY DEF Inv, Tasks, FlushCall, TaskShape
<1>2. Typed(r)
  <2> HIDE DEF s
  <2>1. r \in TaskState
    BY <1>1 DEF TaskState, PC, OpNames, IdleTask
  <2>2. TaskShape(r)
    BY <1>1 DEF TaskShape, TaskState, OpNames, IdleTask
  <2> QED  BY <2>1, <2>2 DEF Typed
<1>3. task' = [task EXCEPT ![t] = r]
  BY <1>1 DEF FlushCall, TaskState
<1> HIDE DEF r
<1> QED  BY <1>2, <1>3, TaskMoves, SharedStays DEF Inv, FlushCall

\* A round of the CommitTask begins.
LEMMA CommitCallInv ==
  ASSUME Inv, NEW t \in Task, CommitCall(t)
  PROVE  Inv'
<1> DEFINE s == task[t]
           r == [s EXCEPT !.op = "commit", !.pc = "loop", !.todo = CachedEntries]
<1>1. s \in TaskState /\ TaskShape(s) /\ s = IdleTask
  BY DEF Inv, Tasks, CommitCall, TaskShape
<1>0. CachedEntries \subseteq CacheEntry
  BY CachedTyped DEF Inv
<1>2. Typed(r)
  <2> HIDE DEF s
  <2>1. r \in TaskState
    BY <1>1, <1>0 DEF TaskState, PC, OpNames, IdleTask
  <2>2. TaskShape(r)
    BY <1>1, <1>0 DEF TaskShape, TaskState, OpNames, IdleTask
  <2> QED  BY <2>1, <2>2 DEF Typed
<1>3. task' = [task EXCEPT ![t] = r]
  BY <1>1 DEF CommitCall, TaskState
<1> HIDE DEF r
<1> QED  BY <1>2, <1>3, TaskMoves, SharedStays DEF Inv, CommitCall

\* The CommitTask ends its round.
LEMMA CommitBreakInv ==
  ASSUME Inv, NEW t \in Task, CommitBreak(t)
  PROVE  Inv'
<1>1. task' = [task EXCEPT ![t] = IdleTask]
  BY DEF CommitBreak
<1> QED  BY <1>1, IdleTyped, TaskMoves, SharedStays DEF Inv, CommitBreak

\* copy_tree reaches a file.
LEMMA CopyCallInv ==
  ASSUME Inv, NEW t \in Task, NEW i \in Inode, NEW j \in Inode, CopyCall(t, i, j)
  PROVE  Inv'
<1> DEFINE s == task[t]
           r == [s EXCEPT !.op = "copy", !.pc = "loop", !.arg = i, !.dst = j,
                  !.todo = {e \in CachedEntries : BlockOf(e)[1] = i /\ i \in open_inodes}]
<1>1. s \in TaskState /\ TaskShape(s) /\ s = IdleTask
  BY DEF Inv, Tasks, CopyCall, TaskShape
<1>0. CachedEntries \subseteq CacheEntry
  BY CachedTyped DEF Inv
<1>2. Typed(r)
  <2> HIDE DEF s
  <2>1. r \in TaskState
    BY <1>1, <1>0 DEF TaskState, PC, OpNames, IdleTask
  <2>2. TaskShape(r)
    BY <1>1, <1>0 DEF TaskShape, TaskState, OpNames, IdleTask
  <2> QED  BY <2>1, <2>2 DEF Typed
<1>3. task' = [task EXCEPT ![t] = r]
  BY <1>1 DEF CopyCall, TaskState
<1> HIDE DEF r
<1> QED  BY <1>2, <1>3, TaskMoves, SharedStays DEF Inv, CopyCall

\* drop() is called.
LEMMA DropCallInv ==
  ASSUME Inv, NEW t \in Task, DropCall(t)
  PROVE  Inv'
<1> DEFINE s == task[t]
           r == [s EXCEPT !.op = "drop", !.pc = "pass", !.bak = max_entries]
<1>1. s \in TaskState /\ TaskShape(s) /\ s = IdleTask
  BY DEF Inv, Tasks, DropCall, TaskShape, Shared
<1>n. max_entries \in Nat
  BY DEF Inv, Shared
<1>2. Typed(r)
  <2> HIDE DEF s
  <2>1. r \in TaskState
    BY <1>1, <1>n DEF TaskState, PC, OpNames, IdleTask
  <2>2. TaskShape(r)
    BY <1>1, <1>n DEF TaskShape, TaskState, OpNames, IdleTask
  <2> QED  BY <2>1, <2>2 DEF Typed
<1>3. task' = [task EXCEPT ![t] = r]
  BY <1>1 DEF DropCall, TaskState
<1> HIDE DEF r
<1>4. Shared'
  BY DEF DropCall, Inv, Shared, database, entries, removal
<1> QED  BY <1>2, <1>3, <1>4, TaskMoves DEF Inv

\* remove() is called.
LEMMA RemoveCallInv ==
  ASSUME Inv, NEW t \in Task, NEW i \in Inode, NEW N \in SUBSET BlockNo, RemoveCall(t, i, N)
  PROVE  Inv'
<1> DEFINE s == task[t]
           r == [s EXCEPT !.op = "remove", !.pc = "remove", !.todo = {<<i, n>> : n \in N}]
<1>1. s \in TaskState /\ TaskShape(s) /\ s = IdleTask
  BY DEF Inv, Tasks, RemoveCall, TaskShape
<1>b. {<<i, n>> : n \in N} \subseteq Block
  BY DEF Block
<1>2. Typed(r)
  <2> HIDE DEF s
  <2>1. r \in TaskState
    BY <1>1, <1>b DEF TaskState, PC, OpNames, IdleTask
  <2>2. TaskShape(r)
    BY <1>1, <1>b DEF TaskShape, TaskState, OpNames, IdleTask
  <2> QED  BY <2>1, <2>2 DEF Typed
<1>3. task' = [task EXCEPT ![t] = r]
  BY <1>1 DEF RemoveCall, TaskState
<1> HIDE DEF r
<1> QED  BY <1>2, <1>3, TaskMoves, SharedStays DEF Inv, RemoveCall

\* A pass over the cache begins; need_entries is positive when expire runs.
LEMMA BeginPassInv ==
  ASSUME Inv, NEW t \in Task, BeginPass(t)
  PROVE  Inv'
<1> DEFINE s == task[t]
           n == IF Expiring(t) THEN Cardinality(CachedEntries) - max_entries ELSE 0
           r == [s EXCEPT !.pc = "loop", !.sth = FALSE, !.todo = CachedEntries, !.need = n]
<1>0. n \in Nat
  BY CachedFinite DEF Inv, Shared, BeginPass
<1>1. s \in TaskState /\ TaskShape(s) /\ s.pc = "pass" /\ CachedEntries \subseteq CacheEntry
  BY CachedTyped DEF Inv, Tasks, BeginPass
<1>2. Typed(r)
  <2> HIDE DEF s, n
  <2>1. r \in TaskState
    BY <1>1, <1>0 DEF TaskState, PC, OpNames
  <2>2. TaskShape(r)
    BY <1>1, <1>0 DEF TaskShape, TaskState, OpNames
  <2> QED  BY <2>1, <2>2 DEF Typed
<1>3. task' = [task EXCEPT ![t] = r]
  BY <1>1 DEF BeginPass, TaskState
<1> HIDE DEF r
<1> QED  BY <1>2, <1>3, TaskMoves, SharedStays DEF Inv, BeginPass

\* wait() finds nothing in transit.
LEMMA WaitNothingInv ==
  ASSUME Inv, NEW t \in Task, WaitNothing(t)
  PROVE  Inv'
<1> DEFINE s == task[t]
           r == [s EXCEPT !.pc = "pass"]
<1>1. s \in TaskState /\ TaskShape(s) /\ s.pc = "wait"
  BY DEF Inv, Tasks, WaitNothing
<1>2. Typed(r)
  <2> HIDE DEF s
  <2>1. r \in TaskState
    BY <1>1 DEF TaskState, PC, OpNames
  <2>2. TaskShape(r)
    BY <1>1 DEF TaskShape, TaskState, OpNames
  <2> QED  BY <2>1, <2>2 DEF Typed
<1>3. task' = [task EXCEPT ![t] = r]
  BY <1>1 DEF WaitNothing, TaskState
<1> HIDE DEF r
<1> QED  BY <1>2, <1>3, TaskMoves, SharedStays DEF Inv, WaitNothing

\* upload_if_dirty finds nothing to do.
LEMMA UploadSkipInv ==
  ASSUME Inv, NEW t \in Task, UploadSkip(t)
  PROVE  Inv'
<1>1. task[t].pc = "up_lock" /\ task[t].op # "remove" /\ task[t].el \in CacheEntry
  BY DEF Inv, Tasks, UploadSkip, TaskShape
<1>2. Typed(UploadReturns(t, FALSE))
  BY <1>1, UploadReturnsTyped DEF Inv
<1>3. task' = [task EXCEPT ![t] = UploadReturns(t, FALSE)]
  BY DEF UploadSkip
<1> QED  BY <1>2, <1>3, TaskMoves, SharedStays DEF Inv, UploadSkip

\* remove() returns.
LEMMA RemoveDoneInv ==
  ASSUME Inv, NEW t \in Task, RemoveDone(t)
  PROVE  Inv'
<1>1. task' = [task EXCEPT ![t] = IdleTask]
  BY DEF RemoveDone
<1> QED  BY <1>1, IdleTyped, TaskMoves, SharedStays DEF Inv, RemoveDone

\* The object to download is missing.
LEMMA DownloadMissingInv ==
  ASSUME Inv, NEW t \in Task, DownloadMissing(t)
  PROVE  Inv'
<1>1. task' = [task EXCEPT ![t] = IdleTask]
  BY DEF DownloadMissing
<1>4. Shared'
  BY DEF DownloadMissing, Inv, Shared, database, entries, removal
<1> QED  BY <1>1, IdleTyped, <1>4, TaskMoves DEF Inv

\* The failed upload_if_dirty releases the object.
LEMMA FailReleaseObjInv ==
  ASSUME Inv, NEW t \in Task, FailReleaseObj(t)
  PROVE  Inv'
<1>1. task' = [task EXCEPT ![t] = IdleTask]
  BY DEF FailReleaseObj
<1>4. Shared'
  BY DEF FailReleaseObj, Inv, Shared, database, entries, removal
<1> QED  BY <1>1, IdleTyped, <1>4, TaskMoves DEF Inv

\* The failed upload_if_dirty releases the block.
LEMMA FailReleaseBlockInv ==
  ASSUME Inv, NEW t \in Task, FailReleaseBlock(t)
  PROVE  Inv'
<1> DEFINE s == task[t]
           r == [s EXCEPT !.pc = "fail_obj"]
<1>1. s \in TaskState /\ TaskShape(s) /\ s.pc = "fail_block"
  BY DEF Inv, Tasks, FailReleaseBlock
<1>2. Typed(r)
  <2> HIDE DEF s
  <2>1. r \in TaskState
    BY <1>1 DEF TaskState, PC, OpNames
  <2>2. TaskShape(r)
    BY <1>1 DEF TaskShape, TaskState, OpNames
  <2> QED  BY <2>1, <2>2 DEF Typed
<1>3. task' = [task EXCEPT ![t] = r]
  BY <1>1 DEF FailReleaseBlock, TaskState
<1> HIDE DEF r
<1>4. Shared'
  BY DEF FailReleaseBlock, Inv, Shared, database, entries, removal
<1> QED  BY <1>2, <1>3, <1>4, TaskMoves DEF Inv

\* No worker threads.
LEMMA QueueFailsInv ==
  ASSUME Inv, NEW t \in Task, QueueFails(t)
  PROVE  Inv'
<1> DEFINE s == task[t]
           r == [s EXCEPT !.pc = "fail_block"]
<1>1. s \in TaskState /\ TaskShape(s) /\ s.pc = "queue"
  BY DEF Inv, Tasks, QueueFails
<1>2. Typed(r)
  <2> HIDE DEF s
  <2>1. r \in TaskState
    BY <1>1 DEF TaskState, PC, OpNames
  <2>2. TaskShape(r)
    BY <1>1 DEF TaskShape, TaskState, OpNames
  <2> QED  BY <2>1, <2>2 DEF Typed
<1>3. task' = [task EXCEPT ![t] = r]
  BY <1>1 DEF QueueFails, TaskState
<1> HIDE DEF r
<1>4. Shared'
  BY DEF QueueFails, Inv, Shared, database, entries, removal
<1> QED  BY <1>2, <1>3, <1>4, TaskMoves DEF Inv

\* The block is in the database only.
LEMMA GetMissInv ==
  ASSUME Inv, NEW t \in Task, GetMiss(t)
  PROVE  Inv'
<1> DEFINE s == task[t]
           o == inode_blocks[s.arg]
           r == [s EXCEPT !.pc = "get_wait", !.obj = o]
<1>1. s \in TaskState /\ TaskShape(s) /\ s.pc = "get_lock" /\ s.arg \in Block
  BY DEF Inv, Tasks, GetMiss, TaskShape
<1>0. o \in ObjId
  BY <1>1 DEF Inv, Shared, GetMiss
<1>2. Typed(r)
  <2> HIDE DEF s, o
  <2>1. r \in TaskState
    BY <1>1, <1>0 DEF TaskState, PC, OpNames
  <2>2. TaskShape(r)
    BY <1>1, <1>0 DEF TaskShape, TaskState, OpNames
  <2> QED  BY <2>1, <2>2 DEF Typed
<1>3. task' = [task EXCEPT ![t] = r]
  BY <1>1 DEF GetMiss, TaskState
<1> HIDE DEF r
<1>4. Shared'
  BY <1>1 DEF GetMiss, Inv, Shared, database, entries, removal
<1> QED  BY <1>2, <1>3, <1>4, TaskMoves DEF Inv

\* upload_if_dirty locks the block.
LEMMA UploadStartInv ==
  ASSUME Inv, NEW t \in Task, UploadStart(t)
  PROVE  Inv'
<1> DEFINE s == task[t]
           r == [s EXCEPT !.pc = "hash"]
<1>1. s \in TaskState /\ TaskShape(s) /\ s.pc = "up_lock" /\ s.el \in CacheEntry
  BY DEF Inv, Tasks, UploadStart, TaskShape
<1>2. Typed(r)
  <2> HIDE DEF s
  <2>1. r \in TaskState
    BY <1>1 DEF TaskState, PC, OpNames
  <2>2. TaskShape(r)
    BY <1>1 DEF TaskShape, TaskState, OpNames
  <2> QED  BY <2>1, <2>2 DEF Typed
<1>3. task' = [task EXCEPT ![t] = r]
  BY <1>1 DEF UploadStart, TaskState
<1> HIDE DEF r
<1>4. Shared'
  BY <1>1, BlockOfEntry DEF UploadStart, Inv, Shared, database, entries, removal
<1> QED  BY <1>2, <1>3, <1>4, TaskMoves DEF Inv

\* The body of `async with cache.get()' installs, reads or writes an entry.
LEMMA UseInv ==
  ASSUME Inv, NEW t \in Task, NEW e \in CacheEntry, NEW d \in Data, Use(t, e, d),
         locked' \subseteq locked,
         UNCHANGED <<database, max_entries, in_transit, thread, removal, store,
                     open_inodes>>
  PROVE  Inv'
<1>1. task' = [task EXCEPT ![t] = IdleTask]
  BY DEF Use
<1>2. cache' \in [Block -> CacheEntry \cup {None}]
      /\ \A b \in Block : cache'[b] # None => cache'[b][1] = b
  BY BlockOfEntry DEF Use, Inv, Shared, BlockOf
<1>3. data' \in [CacheEntry -> Data]
  BY DEF Use, Inv, Shared
<1>4. dirty' \subseteq CacheEntry
  BY DEF Use, Inv, Shared
<1>5. Shared'
  BY <1>2, <1>3, <1>4 DEF Inv, Shared, database, removal
<1> QED  BY <1>1, <1>5, IdleTyped, TaskMoves DEF Inv

\* Cache hit.
LEMMA GetCachedInv ==
  ASSUME Inv, NEW t \in Task, GetCached(t)
  PROVE  Inv'
<1> DEFINE e == cache[task[t].arg]
<1>1. task[t].arg \in Block
  BY DEF Inv, Tasks, GetCached, TaskShape
<1>2. e \in CacheEntry /\ data[e] \in Data
  BY <1>1 DEF Inv, Shared, GetCached
<1> QED  BY <1>2, UseInv DEF GetCached

\* A new, empty entry.
LEMMA GetNewInv ==
  ASSUME Inv, NEW t \in Task, GetNew(t)
  PROVE  Inv'
<1> DEFINE b == task[t].arg
           g == CHOOSE x \in FreshGens(b) : TRUE
<1>1. b \in Block
  BY DEF Inv, Tasks, GetNew, TaskShape
<1>2. g \in Gen
  BY DEF GetNew, FreshGens
<1>3. <<b, g>> \in CacheEntry
  <2> HIDE DEF b, g
  <2> QED  BY <1>1, <1>2 DEF CacheEntry
<1>4. Use(t, <<b, g>>, Zero)
  BY DEF GetNew
<1> HIDE DEF b, g
<1> QED  BY <1>3, <1>4, UseInv, BlockCacheAssumption DEF GetNew

\* The downloaded entry is installed.
LEMMA DownloadInv ==
  ASSUME Inv, NEW t \in Task, Download(t)
  PROVE  Inv'
<1> DEFINE b == task[t].arg
           g == CHOOSE x \in FreshGens(b) : TRUE
           d == store[task[t].obj]
<1>1. b \in Block
  BY DEF Inv, Tasks, Download, TaskShape
<1>2. g \in Gen
  BY DEF Download, FreshGens
<1>3. <<b, g>> \in CacheEntry /\ d \in Data
  BY <1>1, <1>2 DEF CacheEntry, Download, Inv, Shared
<1>4. Use(t, <<b, g>>, d)
  BY DEF Download
<1> HIDE DEF b, g, d
<1> QED  BY <1>3, <1>4, UseInv DEF Download

\* expire returns to get() or drop().
LEMMA ExpireDoneInv ==
  ASSUME Inv, NEW t \in Task, ExpireDone(t)
  PROVE  Inv'
<1> DEFINE s == task[t]
           r == [s EXCEPT !.pc = "get_lock"]
           q == IF s.op = "drop" THEN IdleTask ELSE r
<1>1. s \in TaskState /\ TaskShape(s) /\ s.pc = "pass" /\ s.op \in {"read", "write", "drop"}
  BY DEF Inv, Tasks, ExpireDone, Expiring
<1>2. s.op # "drop" => Typed(r)
  <2> HIDE DEF s
  <2>1. r \in TaskState
    BY <1>1 DEF TaskState, PC
  <2>2. s.op # "drop" => TaskShape(r)
    BY <1>1 DEF TaskShape, TaskState
  <2> QED  BY <2>1, <2>2 DEF Typed
<1>3. Typed(q)
  <2> HIDE DEF s, r
  <2> QED  BY <1>2, IdleTyped
<1>4. task' = [task EXCEPT ![t] = q]
  BY DEF ExpireDone
<1>5. max_entries' \in Nat
  BY <1>1 DEF ExpireDone, TaskState, Inv, Shared
<1>6. Shared'
  BY <1>5 DEF ExpireDone, Inv, Shared, database, entries, removal
<1> HIDE DEF q
<1> QED  BY <1>3, <1>4, <1>6, TaskMoves DEF Inv

\* The next entry of the snapshot.
LEMMA LoopNextInv ==
  ASSUME Inv, NEW t \in Task, NEW e, LoopNext(t, e)
  PROVE  Inv'
<1> DEFINE s == task[t]
           n == IF Expiring(t) THEN s.need - 1 ELSE s.need
           next == [s EXCEPT !.todo = @ \ {e}, !.need = n]
           x == s.op # "commit" /\ s.op # "copy"
           r1 == [next EXCEPT !.sth = x]
           r2 == [next EXCEPT !.pc = "up_lock", !.el = e]
           r3 == [next EXCEPT !.pc = "evict_lock", !.el = e]
           r == IF e \in in_transit THEN r1
                ELSE IF e \in dirty THEN r2
                ELSE IF Expiring(t) THEN r3 ELSE next
<1>1. s \in TaskState /\ TaskShape(s) /\ s.pc = "loop" /\ s.op # "remove"
  BY DEF Inv, Tasks, LoopNext, TaskShape
<1>2. e \in CacheEntry
  BY <1>1 DEF LoopNext, TaskShape
<1>3. n \in Nat
  BY <1>1 DEF LoopNext, TaskState
<1>4. next \in TaskState /\ TaskShape(next) /\ next.pc = "loop" /\ next.op = s.op
  <2> HIDE DEF s, n
  <2>1. next \in TaskState
    BY <1>1, <1>3 DEF TaskState
  <2>2. TaskShape(next)
    BY <1>1, <1>3 DEF TaskShape, TaskState
  <2> QED  BY <1>1, <2>1, <2>2 DEF TaskState
<1>5. x \in BOOLEAN
  OBVIOUS
<1>6. task' = [task EXCEPT ![t] = r]
  BY <1>1 DEF LoopNext, TaskState
<1>7. Typed(r)
  <2>0. next.op # "remove"
    BY <1>1, <1>4
  <2> HIDE DEF next, x
  <2>1. r1 \in TaskState
    BY <1>4, <1>5 DEF TaskState
  <2>2. TaskShape(r1)
    BY <1>4, <1>5 DEF TaskShape, TaskState
  <2>3. r2 \in TaskState
    BY <1>2, <1>4 DEF TaskState, PC
  <2>4. TaskShape(r2)
    BY <1>2, <1>4, <2>0 DEF TaskShape, TaskState
  <2>5. r3 \in TaskState
    BY <1>2, <1>4 DEF TaskState, PC
  <2>6. TaskShape(r3)
    BY <1>2, <1>4, <2>0 DEF TaskShape, TaskState
  <2> HIDE DEF r1, r2, r3
  <2> QED  BY <1>4, <2>1, <2>2, <2>3, <2>4, <2>5, <2>6 DEF Typed
<1> HIDE DEF r
<1> QED  BY <1>6, <1>7, TaskMoves, SharedStays DEF Inv, LoopNext

\* The pass ends.
LEMMA PassEndInv ==
  ASSUME Inv, NEW t \in Task, PassEnd(t)
  PROVE  Inv'
<1> DEFINE s == task[t]
           r1 == [s EXCEPT !.pc = "wait", !.todo = {}, !.need = 0]
           r2 == [s EXCEPT !.pc = "pass", !.todo = {}, !.need = 0]
           r == IF s.sth THEN r1 ELSE IF Expiring(t) THEN r2 ELSE IdleTask
<1>1. s \in TaskState /\ TaskShape(s) /\ s.pc = "loop"
  BY DEF Inv, Tasks, PassEnd
<1>2. Typed(r1) /\ Typed(r2)
  <2> HIDE DEF s
  <2>1. r1 \in TaskState
    BY <1>1 DEF TaskState, PC
  <2>2. TaskShape(r1)
    BY <1>1 DEF TaskShape, TaskState
  <2>3. r2 \in TaskState
    BY <1>1 DEF TaskState, PC
  <2>4. TaskShape(r2)
    BY <1>1 DEF TaskShape, TaskState
  <2> QED  BY <2>1, <2>2, <2>3, <2>4 DEF Typed
<1>3. task' = [task EXCEPT ![t] = r]
  BY DEF PassEnd
<1>4. Typed(r)
  <2> HIDE DEF s, r1, r2
  <2> QED  BY <1>2, IdleTyped
<1> HIDE DEF r
<1> QED  BY <1>3, <1>4, TaskMoves, SharedStays DEF Inv, PassEnd

\* CacheDict.remove keeps the cache well-formed.
LEMMA UncacheShared ==
  ASSUME Shared, NEW b \in Block,
         IF cache[b] # None THEN Uncache(b) ELSE UNCHANGED entries
  PROVE  /\ cache' \in [Block -> CacheEntry \cup {None}]
         /\ \A c \in Block : cache'[c] # None => cache'[c][1] = c
         /\ data' \in [CacheEntry -> Data]
         /\ dirty' \subseteq CacheEntry
BY BlockCacheAssumption DEF Shared, Uncache, entries

\* expire removes an entry.
LEMMA EvictInv ==
  ASSUME Inv, NEW t \in Task, Evict(t)
  PROVE  Inv'
<1> DEFINE s == task[t]
           b == BlockOf(s.el)
           r == [s EXCEPT !.pc = "loop", !.el = None]
<1>1. s \in TaskState /\ TaskShape(s) /\ s.pc = "evict_lock" /\ s.el \in CacheEntry
      /\ b \in Block
  BY BlockOfEntry DEF Inv, Tasks, Evict, TaskShape
<1>2. Typed(r)
  <2> HIDE DEF s
  <2>1. r \in TaskState
    BY <1>1 DEF TaskState, PC
  <2>2. TaskShape(r)
    BY <1>1 DEF TaskShape, TaskState
  <2> QED  BY <2>1, <2>2 DEF Typed
<1>3. task' = [task EXCEPT ![t] = r]
  BY DEF Evict
<1>4. cache' \in [Block -> CacheEntry \cup {None}]
      /\ (\A c \in Block : cache'[c] # None => cache'[c][1] = c)
      /\ data' \in [CacheEntry -> Data]
      /\ dirty' \subseteq CacheEntry
  <2>1. CASE UNCHANGED entries
    BY <2>1 DEF entries, Inv, Shared
  <2>2. CASE cache[b] = s.el /\ Uncache(b)
    <3>1. cache[b] # None
      BY <1>1, <2>2, BlockCacheAssumption
    <3> HIDE DEF b
    <3> QED  BY <1>1, <2>2, <3>1, UncacheShared DEF Inv
  <2> QED  BY <2>1, <2>2 DEF Evict, IsCached
<1>5. Shared'
  BY <1>4 DEF Evict, Inv, Shared, database, removal
<1> HIDE DEF r
<1> QED  BY <1>2, <1>3, <1>5, TaskMoves DEF Inv

\* upload_if_dirty inserts a new object.
LEMMA RegisterNewInv ==
  ASSUME Inv, NEW t \in Task, RegisterNew(t)
  PROVE  Inv'
<1> DEFINE s == task[t]
           b == BlockOf(s.el)
           o == CHOOSE x \in FreshIds : TRUE
           old == inode_blocks[b]
           d == data[s.el]
           r == [s EXCEPT !.pc = "queue", !.obj = o, !.old = old]
<1>1. s \in TaskState /\ TaskShape(s) /\ s.pc = "hash" /\ s.el \in CacheEntry
      /\ b \in Block
  BY BlockOfEntry DEF Inv, Tasks, RegisterNew, TaskShape
<1>2. o \in ObjId
  BY DEF RegisterNew, FreshIds
<1>3. old \in ObjId \cup {None} /\ d \in Data
  BY <1>1 DEF Inv, Shared
<1>4. Typed(r)
  <2> HIDE DEF s, o, old
  <2>1. r \in TaskState
    BY <1>1, <1>2, <1>3 DEF TaskState, PC
  <2>2. TaskShape(r)
    BY <1>1, <1>2, <1>3 DEF TaskShape, TaskState
  <2> QED  BY <2>1, <2>2 DEF Typed
<1>5. task' = [task EXCEPT ![t] = r]
  BY DEF RegisterNew
<1>6. /\ objects' = [x \in DOMAIN objects \cup {o} |->
                       IF x = o THEN [refcount |-> 1, hash |-> d, phys |-> FALSE]
                       ELSE objects[x]]
      /\ inode_blocks' = [inode_blocks EXCEPT ![b] = o]
      /\ locked' = locked \cup {o}
  BY DEF RegisterNew
<1>7. Shared'
  <2> HIDE DEF o, b, d
  <2>1. DOMAIN objects' \subseteq ObjId /\ objects' \in [DOMAIN objects' -> ObjectRow]
    BY <1>2, <1>3, <1>6 DEF Inv, Shared, ObjectRow
  <2>2. inode_blocks' \in [Block -> ObjId \cup {None}]
    BY <1>2, <1>6 DEF Inv, Shared
  <2>3. locked' \subseteq Block \cup ObjId
    BY <1>2, <1>6 DEF Inv, Shared
  <2> QED  BY <2>1, <2>2, <2>3 DEF RegisterNew, Inv, Shared, entries, removal
<1> HIDE DEF r
<1> QED  BY <1>4, <1>5, <1>7, TaskMoves DEF Inv

\* Replacing a row of objects by another row keeps the table well-formed.
LEMMA RowChange ==
  ASSUME Shared, NEW o \in DOMAIN objects, NEW row \in ObjectRow,
         objects' = [objects EXCEPT ![o] = row]
  PROVE  DOMAIN objects' \subseteq ObjId /\ objects' \in [DOMAIN objects' -> ObjectRow]
BY DEF Shared

\* upload_if_dirty links the block to an existing object.
LEMMA RegisterDupInv ==
  ASSUME Inv, NEW t \in Task, RegisterDup(t)
  PROVE  Inv'
<1> DEFINE s == task[t]
           b == BlockOf(s.el)
           old == inode_blocks[b]
           r == [s EXCEPT !.pc = "deref", !.old = old]
<1>1. s \in TaskState /\ TaskShape(s) /\ s.pc = "hash" /\ s.el \in CacheEntry
      /\ b \in Block /\ s.op # "remove"
  BY BlockOfEntry DEF Inv, Tasks, RegisterDup, TaskShape
<1>2. old \in ObjId \cup {None}
  BY <1>1 DEF Inv, Shared
<1>3. old # None => Typed(r)
  <2> HIDE DEF s, old
  <2>1. r \in TaskState
    BY <1>1, <1>2 DEF TaskState, PC
  <2>2. old # None => TaskShape(r)
    BY <1>1, <1>2 DEF TaskShape, TaskState
  <2> QED  BY <2>1, <2>2 DEF Typed
<1>4. Typed(UploadReturns(t, FALSE))
  BY <1>1, UploadReturnsTyped DEF Inv
<1>5. PICK o \in SameHash(data[s.el]) :
         IF old = o
           THEN /\ UNCHANGED database
                /\ task' = [task EXCEPT ![t] = UploadReturns(t, FALSE)]
           ELSE /\ objects' = [objects EXCEPT ![o].refcount = @ + 1]
                /\ inode_blocks' = [inode_blocks EXCEPT ![b] = o]
                /\ task' = [task EXCEPT ![t] =
                     IF old = None THEN UploadReturns(t, FALSE) ELSE r]
  BY DEF RegisterDup
<1>6. o \in DOMAIN objects /\ o \in ObjId
  BY DEF SameHash, Inv, Shared
<1>7. Tasks'
  <2>1. PICK q : Typed(q) /\ task' = [task EXCEPT ![t] = q]
    <3> HIDE DEF r, old
    <3> QED  BY <1>3, <1>4, <1>5
  <2> QED  BY <2>1, TaskMoves DEF Inv
<1>8. Shared'
  <2> HIDE DEF b, old, r
  <2>1. DOMAIN objects' \subseteq ObjId /\ objects' \in [DOMAIN objects' -> ObjectRow]
    <3> DEFINE row == [objects[o] EXCEPT !.refcount = @ + 1]
    <3>1. row \in ObjectRow
      BY <1>6 DEF Inv, Shared, ObjectRow
    <3>2. \/ objects' = objects
          \/ objects' = [objects EXCEPT ![o] = row]
      BY <1>5 DEF database
    <3> HIDE DEF row
    <3> QED  BY <1>6, <3>1, <3>2, RowChange DEF Inv, Shared
  <2>2. inode_blocks' \in [Block -> ObjId \cup {None}]
    BY <1>5, <1>6 DEF Inv, Shared, database
  <2>3. /\ dirty' \subseteq dirty /\ in_transit' \subseteq in_transit
        /\ locked' \subseteq locked
        /\ UNCHANGED <<cache, data, max_entries, thread, removal, store, open_inodes>>
    BY DEF RegisterDup
  <2> QED  BY <2>1, <2>2, <2>3 DEF Inv, Shared, removal
<1> QED  BY <1>7, <1>8 DEF Inv

\* An upload thread goes to a well-formed local state.
LEMMA ThreadMoves ==
  ASSUME Shared, NEW w \in Thread, NEW r \in UploadState, ThreadShape(r),
         thread' = [thread EXCEPT ![w] = r]
  PROVE  thread' \in [Thread -> UploadState] /\ \A v \in Thread : ThreadShape(thread'[v])
<1>1. \A v \in Thread : thread'[v] = IF v = w THEN r ELSE thread[v]
  BY DEF Shared
<1> QED  BY <1>1 DEF Shared

\* An upload thread takes the work.
LEMMA QueueUploadInv ==
  ASSUME Inv, NEW t \in Task, NEW w \in Thread, QueueUpload(t, w)
  PROVE  Inv'
<1> DEFINE s == task[t]
           r == [s EXCEPT !.pc = "deref"]
           q == IF s.old = None THEN UploadReturns(t, TRUE) ELSE r
           v == [st |-> "write", el |-> s.el, obj |-> s.obj, ok |-> FALSE]
<1>1. s \in TaskState /\ TaskShape(s) /\ s.pc = "queue" /\ s.el \in CacheEntry
      /\ s.obj \in ObjId /\ s.op # "remove"
  BY DEF Inv, Tasks, QueueUpload, TaskShape
<1>2. s.old # None => Typed(r)
  <2> HIDE DEF s
  <2>1. r \in TaskState
    BY <1>1 DEF TaskState, PC
  <2>2. s.old # None => TaskShape(r)
    BY <1>1 DEF TaskShape, TaskState
  <2> QED  BY <2>1, <2>2 DEF Typed
<1>3. Typed(UploadReturns(t, TRUE))
  BY <1>1, UploadReturnsTyped DEF Inv
<1>4. Typed(q) /\ task' = [task EXCEPT ![t] = q]
  BY <1>2, <1>3 DEF QueueUpload
<1>5. v \in UploadState /\ ThreadShape(v)
  <2> HIDE DEF s
  <2> QED  BY <1>1 DEF UploadState, ThreadState, ThreadShape
<1>6. thread' = [thread EXCEPT ![w] = v]
  BY DEF QueueUpload
<1> HIDE DEF v, q
<1>7. Shared'
  BY <1>5, <1>6, ThreadMoves DEF QueueUpload, Inv, Shared, database, entries, removal
<1> QED  BY <1>4, <1>7, TaskMoves DEF Inv

\* _deref_obj drops one of several references.
LEMMA DerefSharedInv ==
  ASSUME Inv, NEW t \in Task, DerefShared(t)
  PROVE  Inv'
<1> DEFINE o == task[t].old
<1>1. Typed(DerefReturns(t)) /\ task' = [task EXCEPT ![t] = DerefReturns(t)]
  BY DerefReturnsTyped DEF Inv, DerefShared
<1>2. o \in DOMAIN objects /\ objects[o].refcount > 1
      /\ objects' = [objects EXCEPT ![o].refcount = @ - 1]
  BY DEF DerefShared
<1>3. DOMAIN objects' \subseteq ObjId /\ objects' \in [DOMAIN objects' -> ObjectRow]
  <2> HIDE DEF o
  <2> QED  BY <1>2 DEF Inv, Shared, ObjectRow
<1>4. Shared'
  BY <1>3 DEF DerefShared, Inv, Shared, entries, removal
<1> QED  BY <1>1, <1>4, TaskMoves DEF Inv

\* _deref_obj deletes the row.
LEMMA DerefLastInv ==
  ASSUME Inv, NEW t \in Task, DerefLast(t)
  PROVE  Inv'
<1> DEFINE s == task[t]
           o == s.old
           phys == objects[o].phys
           r == [s EXCEPT !.pc = "deref_lock", !.old = None, !.gone = o, !.size = phys]
<1>1. s \in TaskState /\ TaskShape(s) /\ s.pc = "deref" /\ o \in ObjId
  BY DEF Inv, Tasks, DerefLast, TaskShape
<1>2. o \in DOMAIN objects /\ objects' = [x \in DOMAIN objects \ {o} |-> objects[x]]
  BY DEF DerefLast
<1>3. phys \in BOOLEAN
  BY <1>2 DEF Inv, Shared, ObjectRow
<1>4. Typed(r)
  <2> HIDE DEF s, phys, o
  <2>1. r \in TaskState
    BY <1>1, <1>3 DEF TaskState, PC
  <2>2. TaskShape(r)
    BY <1>1, <1>3 DEF TaskShape, TaskState
  <2> QED  BY <2>1, <2>2 DEF Typed
<1>5. task' = [task EXCEPT ![t] = r]
  BY DEF DerefLast
<1>6. Shared'
  <2> HIDE DEF o
  <2>1. DOMAIN objects' \subseteq ObjId /\ objects' \in [DOMAIN objects' -> ObjectRow]
    BY <1>2 DEF Inv, Shared
  <2> QED  BY <2>1 DEF DerefLast, Inv, Shared, entries, removal
<1> HIDE DEF r
<1> QED  BY <1>4, <1>5, <1>6, TaskMoves DEF Inv

\* _deref_obj queues the object for removal.
LEMMA DerefRemoveInv ==
  ASSUME Inv, NEW t \in Task, DerefRemove(t)
  PROVE  Inv'
<1>1. Typed(DerefReturns(t)) /\ task' = [task EXCEPT ![t] = DerefReturns(t)]
  BY DerefReturnsTyped DEF Inv, DerefRemove
<1>2. task[t].gone \in ObjId
  BY DEF DerefRemove, Inv, Tasks, TaskShape
<1>3. to_remove' \subseteq ObjId
  BY <1>2 DEF DerefRemove, Inv, Shared
<1>4. Shared'
  BY <1>3 DEF DerefRemove, Inv, Shared, database, entries
<1> QED  BY <1>1, <1>4, TaskMoves DEF Inv

\* remove() deletes one block.
LEMMA RemoveBlockInv ==
  ASSUME Inv, NEW t \in Task, NEW b, RemoveBlock(t, b)
  PROVE  Inv'
<1> DEFINE s == task[t]
           old == inode_blocks[b]
           pc == IF old = None THEN "remove" ELSE "deref"
           r == [s EXCEPT !.todo = @ \ {b}, !.old = old, !.pc = pc]
<1>1. s \in TaskState /\ TaskShape(s) /\ s.pc = "remove" /\ s.op = "remove"
  BY DEF Inv, Tasks, RemoveBlock, TaskShape
<1>2. b \in Block
  BY <1>1 DEF RemoveBlock, TaskShape
<1>3. /\ old \in ObjId \cup {None} /\ pc \in {"remove", "deref"}
      /\ pc = "deref" => old \in ObjId
  BY <1>2 DEF Inv, Shared
<1>4. Typed(r)
  <2> HIDE DEF s, old, pc
  <2>1. r \in TaskState
    BY <1>1, <1>3 DEF TaskState, PC
  <2>2. TaskShape(r)
    BY <1>1, <1>3 DEF TaskShape, TaskState
  <2> QED  BY <2>1, <2>2 DEF Typed
<1>5. task' = [task EXCEPT ![t] = r]
  BY <1>1 DEF RemoveBlock, TaskState
<1>6. inode_blocks' \in [Block -> ObjId \cup {None}]
  BY DEF RemoveBlock, Inv, Shared
<1>7. Shared'
  BY <1>2, <1>6, UncacheShared DEF RemoveBlock, Inv, Shared, removal
<1> HIDE DEF r
<1> QED  BY <1>4, <1>5, <1>7, TaskMoves DEF Inv

\* copy_tree shares the blocks.
LEMMA CopyRowsInv ==
  ASSUME Inv, NEW t \in Task, CopyRows(t)
  PROVE  Inv'
<1> DEFINE i == task[t].arg
           shared(o) == {n \in BlockNo : inode_blocks[<<i, n>>] = o}
<1>1. i \in Inode
  BY DEF Inv, Tasks, CopyRows, TaskShape
<1>2. \A o : Cardinality(shared(o)) \in Nat
  BY BlockCacheAssumption, FS_Subset, FS_CardinalityType
<1>3. objects' = [o \in DOMAIN objects |->
         [objects[o] EXCEPT !.refcount = @ + Cardinality(shared(o))]]
  BY DEF CopyRows
<1>4. DOMAIN objects' \subseteq ObjId /\ objects' \in [DOMAIN objects' -> ObjectRow]
  <2> HIDE DEF shared, i
  <2>1. \A o \in DOMAIN objects :
           [objects[o] EXCEPT !.refcount = @ + Cardinality(shared(o))] \in ObjectRow
    BY <1>2 DEF Inv, Shared, ObjectRow
  <2> QED  BY <1>3, <2>1 DEF Inv, Shared
<1>5. inode_blocks' \in [Block -> ObjId \cup {None}]
  BY <1>1 DEF CopyRows, Inv, Shared, Block
<1>6. task' = [task EXCEPT ![t] = IdleTask]
  BY DEF CopyRows
<1>7. Shared'
  BY <1>4, <1>5 DEF CopyRows, Inv, Shared, entries, removal
<1> QED  BY <1>6, <1>7, IdleTyped, TaskMoves DEF Inv

-----------------------------------------------------------------------------
(* Steps of the threads and of the kernel.                                 *)

\* perform_write succeeds.
LEMMA WriteObjectInv ==
  ASSUME Inv, NEW w \in Thread, WriteObject(w)
  PROVE  Inv'
<1> DEFINE s == thread[w]
           o == s.obj
           d == data[s.el]
           r == [s EXCEPT !.st = "finish", !.ok = TRUE]
<1>1. s \in UploadState /\ ThreadShape(s) /\ s.st = "write" /\ s.el \in CacheEntry
      /\ o \in ObjId
  BY DEF Inv, Shared, WriteObject, ThreadShape
<1>2. r \in UploadState /\ ThreadShape(r)
  <2> HIDE DEF s
  <2> QED  BY <1>1 DEF UploadState, ThreadState, ThreadShape
<1>3. thread' = [thread EXCEPT ![w] = r]
  BY DEF WriteObject
<1>4. d \in Data
  BY <1>1 DEF Inv, Shared
<1>5. store' = [x \in DOMAIN store \cup {o} |-> IF x = o THEN d ELSE store[x]]
  BY DEF WriteObject
<1>6. DOMAIN store' \subseteq ObjId /\ store' \in [DOMAIN store' -> Data]
  <2> HIDE DEF o, d
  <2> QED  BY <1>1, <1>4, <1>5 DEF Inv, Shared
<1> HIDE DEF r
<1>7. Shared'
  BY <1>2, <1>3, <1>6, ThreadMoves DEF WriteObject, Inv, Shared, database, entries, removal
<1> QED  BY <1>7 DEF Inv, Tasks, WriteObject

\* perform_write fails.
LEMMA WriteFailsInv ==
  ASSUME Inv, NEW w \in Thread, WriteFails(w)
  PROVE  Inv'
<1> DEFINE s == thread[w]
           r == [s EXCEPT !.st = "finish"]
<1>1. s \in UploadState /\ ThreadShape(s) /\ s.st = "write"
  BY DEF Inv, Shared, WriteFails
<1>2. r \in UploadState /\ ThreadShape(r)
  <2> HIDE DEF s
  <2> QED  BY <1>1 DEF UploadState, ThreadState, ThreadShape
<1>3. thread' = [thread EXCEPT ![w] = r]
  BY DEF WriteFails
<1> HIDE DEF r
<1>4. Shared'
  BY <1>2, <1>3, ThreadMoves DEF WriteFails, Inv, Shared, database, entries, removal
<1> QED  BY <1>4 DEF Inv, Tasks, WriteFails

\* The callback in the event loop.
LEMMA FinishUploadInv ==
  ASSUME Inv, NEW w \in Thread, FinishUpload(w)
  PROVE  Inv'
<1> DEFINE s == thread[w]
           o == s.obj
           r == [s EXCEPT !.st = "unlock"]
<1>1. s \in UploadState /\ ThreadShape(s) /\ s.st = "finish"
  BY DEF Inv, Shared, FinishUpload
<1>2. r \in UploadState /\ ThreadShape(r)
  <2> HIDE DEF s
  <2> QED  BY <1>1 DEF UploadState, ThreadState, ThreadShape
<1>3. thread' = [thread EXCEPT ![w] = r]
  BY DEF FinishUpload
<1>4. \/ objects' = [objects EXCEPT ![o].phys = TRUE]
      \/ objects' = [objects EXCEPT ![o].hash = None]
  BY DEF FinishUpload
<1>5. DOMAIN objects' \subseteq ObjId /\ objects' \in [DOMAIN objects' -> ObjectRow]
  <2> HIDE DEF o
  <2>1. CASE o \in DOMAIN objects
    <3> DEFINE row1 == [objects[o] EXCEPT !.phys = TRUE]
               row2 == [objects[o] EXCEPT !.hash = None]
    <3>1. row1 \in ObjectRow
      BY <2>1 DEF Inv, Shared, ObjectRow
    <3>2. row2 \in ObjectRow
      BY <2>1 DEF Inv, Shared, ObjectRow
    <3>3. \/ objects' = [objects EXCEPT ![o] = row1]
          \/ objects' = [objects EXCEPT ![o] = row2]
      BY <1>4
    <3> HIDE DEF row1, row2
    <3> QED  BY <2>1, <3>1, <3>2, <3>3, RowChange DEF Inv
  <2>2. CASE o \notin DOMAIN objects
    <3>1. objects' = objects
      BY <1>4, <2>2 DEF Inv, Shared
    <3> QED  BY <3>1 DEF Inv, Shared
  <2> QED  BY <2>1, <2>2
<1>6. dirty' \subseteq dirty
  BY DEF FinishUpload
<1> HIDE DEF r
<1>7. Shared'
  BY <1>2, <1>3, <1>5, <1>6, ThreadMoves DEF FinishUpload, Inv, Shared, removal
<1> QED  BY <1>7 DEF Inv, Tasks, FinishUpload

\* The upload thread releases the object.
LEMMA UnlockObjectInv ==
  ASSUME Inv, NEW w \in Thread, UnlockObject(w)
  PROVE  Inv'
<1> DEFINE s == thread[w]
           r == [s EXCEPT !.st = "unlock_block", !.obj = None]
<1>1. s \in UploadState /\ ThreadShape(s) /\ s.st = "unlock"
  BY DEF Inv, Shared, UnlockObject
<1>2. r \in UploadState /\ ThreadShape(r)
  <2> HIDE DEF s
  <2> QED  BY <1>1 DEF UploadState, ThreadState, ThreadShape
<1>3. thread' = [thread EXCEPT ![w] = r]
  BY DEF UnlockObject
<1> HIDE DEF r
<1>4. Shared'
  BY <1>2, <1>3, ThreadMoves DEF UnlockObject, Inv, Shared, database, entries, removal
<1> QED  BY <1>4 DEF Inv, Tasks, UnlockObject

\* The upload thread releases the block and notifies the waiting tasks.
LEMMA UnlockBlockInv ==
  ASSUME Inv, NEW w \in Thread, UnlockBlock(w)
  PROVE  Inv'
<1> DEFINE r == IF thread[w].ok THEN IdleThread ELSE [IdleThread EXCEPT !.st = "dead"]
<1>1. r \in UploadState /\ ThreadShape(r)
  BY DEF IdleThread, UploadState, ThreadState, ThreadShape
<1>2. thread' = [thread EXCEPT ![w] = r]
  BY DEF UnlockBlock
<1> HIDE DEF r
<1>3. Shared'
  BY <1>1, <1>2, ThreadMoves DEF UnlockBlock, Inv, Shared, database, entries, removal
<1>4. ASSUME NEW s \in TaskState, TaskShape(s), s.pc = "wait"
      PROVE  Typed([s EXCEPT !.pc = "pass"])
  <2>1. [s EXCEPT !.pc = "pass"] \in TaskState
    BY DEF TaskState, PC
  <2>2. TaskShape([s EXCEPT !.pc = "pass"])
    BY <1>4 DEF TaskShape, TaskState
  <2> QED  BY <2>1, <2>2 DEF Typed
<1>5. task' = [t \in Task |-> IF task[t].pc = "wait" THEN [task[t] EXCEPT !.pc = "pass"]
                             ELSE task[t]]
  BY DEF UnlockBlock
<1>6. \A t \in Task : Typed(task'[t])
  BY <1>4, <1>5 DEF Inv, Tasks, Typed
<1>7. Tasks'
  BY <1>5, <1>6 DEF Tasks, Typed
<1> QED  BY <1>3, <1>7 DEF Inv

\* Steps of a removal thread.
LEMMA RemoverInv ==
  ASSUME Inv, NEW r \in Remover, RemoverStep(r)
  PROVE  Inv'
<1>1. CASE \E o \in to_remove : RemovalTake(r, o)
  BY <1>1 DEF RemovalTake, Inv, Shared, Tasks, database, entries
<1>2. CASE RemovalDelete(r)
  <2>1. failsafe' \in BOOLEAN
    BY <1>2 DEF RemovalDelete
  <2> QED  BY <1>2, <2>1 DEF RemovalDelete, Inv, Shared, Tasks, database, entries
<1> QED  BY <1>1, <1>2 DEF RemoverStep

\* The kernel forgets or looks up an inode.
LEMMA KernelInv ==
  ASSUME Inv, NEW i \in Inode, KernelStep(i)
  PROVE  Inv'
BY DEF KernelStep, Forget, Lookup, Inv, Shared, Tasks, database, entries, removal

-----------------------------------------------------------------------------
(* The specification.                                                      *)

\* Every request.
LEMMA CallInv ==
  ASSUME Inv, NEW t \in Task, Call(t)
  PROVE  Inv'
BY GetCallInv, FlushCallInv, CommitCallInv, DropCallInv, CopyCallInv, RemoveCallInv
   DEF Call

\* Every step of a task.
LEMMA TaskInv ==
  ASSUME Inv, NEW t \in Task, TaskStep(t)
  PROVE  Inv'
BY GetCachedInv, GetNewInv, GetMissInv, GetWaitInv, DownloadInv, DownloadMissingInv,
   BeginPassInv, ExpireDoneInv, PassEndInv, CommitBreakInv, LoopNextInv,
   WaitNothingInv, EvictInv, UploadSkipInv, UploadStartInv, RegisterNewInv,
   RegisterDupInv, QueueUploadInv, QueueFailsInv, FailReleaseBlockInv,
   FailReleaseObjInv, DerefSharedInv, DerefLastInv, DerefRemoveInv, RemoveBlockInv,
   RemoveDoneInv, CopyRowsInv
   DEF TaskStep

\* Every step of an upload thread.
LEMMA ThreadInv ==
  ASSUME Inv, NEW w \in Thread, ThreadStep(w)
  PROVE  Inv'
BY WriteObjectInv, WriteFailsInv, FinishUploadInv, UnlockObjectInv, UnlockBlockInv
   DEF ThreadStep

\* The mounted file system is well-formed.
LEMMA InitInv == Init => Inv
<1> SUFFICES ASSUME Init  PROVE  Inv
  OBVIOUS
<1> DEFINE linked == {inode_blocks[b] : b \in Block} \ {None}
<1>1. PICK hash \in [linked -> Data] :
         /\ objects = [o \in linked |->
              [refcount |-> Cardinality({b \in Block : inode_blocks[b] = o}),
               hash |-> hash[o], phys |-> TRUE]]
         /\ store = hash
  BY DEF Init
<1>2. inode_blocks \in [Block -> ObjId \cup {None}] /\ linked \subseteq ObjId
  BY DEF Init
<1>3. \A o \in linked : Cardinality({b \in Block : inode_blocks[b] = o}) \in Nat \ {0}
  <2> SUFFICES ASSUME NEW o \in linked
               PROVE  Cardinality({b \in Block : inode_blocks[b] = o}) \in Nat \ {0}
    OBVIOUS
  <2> DEFINE L == {b \in Block : inode_blocks[b] = o}
  <2>1. IsFiniteSet(L) /\ L # {}
    BY BlockFinite, FS_Subset
  <2> HIDE DEF L
  <2>2. Cardinality(L) \in Nat /\ Cardinality(L) # 0
    BY <2>1, FS_CardinalityType, FS_EmptySet
  <2> QED  BY <2>2 DEF L
<1>4. objects \in [DOMAIN objects -> ObjectRow] /\ DOMAIN objects \subseteq ObjId
  <2> HIDE DEF linked
  <2> QED  BY <1>1, <1>2, <1>3 DEF ObjectRow
<1>5. DOMAIN store \subseteq ObjId /\ store \in [DOMAIN store -> Data]
  <2> HIDE DEF linked
  <2> QED  BY <1>1, <1>2
<1>6. thread \in [Thread -> UploadState] /\ \A w \in Thread : ThreadShape(thread[w])
  BY DEF Init, IdleThread, UploadState, ThreadState, ThreadShape
<1>7. Shared
  BY <1>2, <1>4, <1>5, <1>6, BlockCacheAssumption DEF Init, Shared
<1>8. Tasks
  BY IdleTyped DEF Init, Tasks, Typed
<1> QED  BY <1>7, <1>8 DEF Inv

\* Every step of the system.
LEMMA NextInv == Inv /\ [Next]_vars => Inv'
<1> SUFFICES ASSUME Inv, [Next]_vars  PROVE  Inv'
  OBVIOUS
<1>1. CASE UNCHANGED vars
  BY <1>1 DEF vars, Inv, Shared, Tasks
<1> QED
  BY <1>1, CallInv, TaskInv, ThreadInv, RemoverInv, KernelInv DEF Next, Step

(***************************************************************************)
(* Type correctness of block_cache.py's state, for every number of tasks,  *)
(* threads, files and blocks: refcounts of existing rows stay positive,    *)
(* the cache maps a block to an entry of that block, and the local         *)
(* variables a suspended task or thread will use after it is resumed are   *)
(* set (the object it will download or deref, the entry it will upload or  *)
(* evict).                                                                 *)
(***************************************************************************)
THEOREM TypeCorrect == Spec => [](TypeOK /\ ControlOK)
<1>1. Inv => TypeOK /\ ControlOK
  BY InvTypes
<1> QED  BY <1>1, InitInv, NextInv, PTL DEF Spec

-----------------------------------------------------------------------------
(* The number of cached entries. A task passes the test of is_full once    *)
(* and installs its entry much later, after other tasks have passed it     *)
(* too; so the entries still to be installed are counted with the cached.  *)

\* Suspension points of get() after the test of is_full.
Getting == {"get_lock", "get_wait", "download"}
Getters == {t \in Task : task[t].pc \in Getting}

\* The limit is never above the configured one, the one drop saved included.
Limits == /\ max_entries <= MaxEntries
          /\ \A t \in Task : task[t].bak <= MaxEntries

Bounded == /\ Limits
           /\ Cardinality(CachedEntries) + Cardinality(Getters)
                <= MaxEntries + Cardinality(Task)

\* Sets of entries and sets of tasks are finite.
LEMMA Countable ==
  /\ IsFiniteSet(Task) /\ Cardinality(Task) \in Nat
  /\ \A E \in SUBSET CacheEntry : IsFiniteSet(E) /\ Cardinality(E) \in Nat
  /\ \A T \in SUBSET Task :
        IsFiniteSet(T) /\ Cardinality(T) \in Nat /\ Cardinality(T) <= Cardinality(Task)
<1>1. IsFiniteSet(CacheEntry)
  BY BlockCacheAssumption, BlockFinite, FS_Product DEF CacheEntry
<1>2. IsFiniteSet(Task)
  BY BlockCacheAssumption
<1> QED  BY <1>1, <1>2, FS_Subset, FS_CardinalityType

\* What is counted before and after a step.
LEMMA Counted ==
  ASSUME Inv, Inv'
  PROVE  /\ CachedEntries \in SUBSET CacheEntry /\ Getters \in SUBSET Task
         /\ CachedEntries' \in SUBSET CacheEntry /\ Getters' \in SUBSET Task
BY DEF Inv, Shared, CachedEntries, Getters

\* No task but t takes a step, and t does not pass the test of is_full.
NoneEnters(t) ==
    /\ \A u \in Task \ {t} : task'[u] = task[u]
    /\ task'[t].bak \in {0, task[t].bak, max_entries}
    /\ task'[t].pc \in Getting => task[t].pc \in Getting

\* Entries leave the cache, or none does.
Shrinks == \A b \in Block : cache'[b] \in {cache[b], None}

\* Fewer entries are cached when some are removed.
LEMMA FewerCached ==
  ASSUME Shrinks  PROVE  CachedEntries' \subseteq CachedEntries
BY DEF Shrinks, CachedEntries

\* The limits are kept by the tasks that take a step.
LEMMA LimitsStay ==
  ASSUME Inv, Limits, NEW t \in Task, NoneEnters(t),
         max_entries' \in {0, max_entries, task[t].bak}
  PROVE  Limits'
<1>1. 0 <= MaxEntries /\ max_entries <= MaxEntries /\ task[t].bak <= MaxEntries
  BY BlockCacheAssumption DEF Limits
<1>2. ASSUME NEW u \in Task  PROVE task'[u].bak <= MaxEntries
  BY <1>1 DEF Limits, NoneEnters
<1> QED  BY <1>1, <1>2 DEF Limits

\* A step that installs nothing.
LEMMA NothingInstalled ==
  ASSUME Inv, Inv', Bounded, NEW t \in Task, NoneEnters(t), Shrinks,
         max_entries' \in {0, max_entries}
  PROVE  Bounded'
<1>1. Limits'
  BY LimitsStay DEF Bounded
<1>2. Getters' \subseteq Getters
  BY DEF Getters, NoneEnters
<1>3. Cardinality(Getters') <= Cardinality(Getters)
  BY <1>2, Countable, Counted, FS_Subset
<1>4. Cardinality(CachedEntries') <= Cardinality(CachedEntries)
  BY FewerCached, Countable, Counted, FS_Subset
<1>5. /\ Cardinality(CachedEntries') \in Nat /\ Cardinality(Getters') \in Nat
      /\ Cardinality(Task) \in Nat
  BY Countable, Counted
<1>6. /\ Cardinality(CachedEntries) \in Nat /\ Cardinality(Getters) \in Nat
      /\ MaxEntries \in Nat
  BY Countable, Counted, BlockCacheAssumption
<1> QED  BY <1>1, <1>3, <1>4, <1>5, <1>6 DEF Bounded

\* A step of a task that found the cache within its limit.
LEMMA WithinLimit ==
  ASSUME Inv, Inv', Limits, Limits', UNCHANGED cache,
         Cardinality(CachedEntries) <= max_entries
  PROVE  Bounded'
<1>1. CachedEntries' = CachedEntries
  BY DEF CachedEntries
<1>2. /\ Cardinality(CachedEntries) \in Nat /\ Cardinality(Getters') \in Nat
      /\ Cardinality(Task) \in Nat /\ Cardinality(Getters') <= Cardinality(Task)
  BY Countable, Counted
<1>3. max_entries \in Nat /\ MaxEntries \in Nat /\ max_entries <= MaxEntries
  BY BlockCacheAssumption DEF Inv, Shared, Limits
<1> QED  BY <1>1, <1>2, <1>3 DEF Bounded

\* A task installs its entry and leaves get().
LEMMA Installed ==
  ASSUME Inv, Inv', Bounded, NEW t \in Task, task[t].pc \in Getting,
         NEW e \in CacheEntry, NEW d, Use(t, e, d), UNCHANGED max_entries
  PROVE  Bounded'
<1>1. task' = [task EXCEPT ![t] = IdleTask]
  BY DEF Use
<1>2. (\A u \in Task \ {t} : task'[u] = task[u]) /\ task'[t] = IdleTask
  BY <1>1 DEF Inv, Tasks
<1>3. Limits'
  <2>1. NoneEnters(t)
    BY <1>2 DEF NoneEnters, IdleTask, Getting
  <2> QED  BY <2>1, LimitsStay DEF Bounded
<1>4. Getters' = Getters \ {t} /\ t \in Getters
  BY <1>2 DEF Getters, Getting, IdleTask
<1>5. Cardinality(Getters') = Cardinality(Getters) - 1
  BY <1>4, Countable, Counted, FS_RemoveElement
<1>6. CachedEntries' \subseteq CachedEntries \cup {e}
  BY DEF Use, CachedEntries, Inv, Shared
<1>7. Cardinality(CachedEntries') <= Cardinality(CachedEntries) + 1
  <2>1. IsFiniteSet(CachedEntries)
    BY Countable, Counted
  <2>2. /\ IsFiniteSet(CachedEntries \cup {e})
        /\ Cardinality(CachedEntries \cup {e}) <= Cardinality(CachedEntries) + 1
    <3>1. /\ IsFiniteSet(CachedEntries \cup {e})
          /\ Cardinality(CachedEntries \cup {e}) =
               IF e \in CachedEntries THEN Cardinality(CachedEntries)
               ELSE Cardinality(CachedEntries) + 1
      BY <2>1, FS_AddElement
    <3>2. Cardinality(CachedEntries) \in Nat
      BY <2>1, FS_CardinalityType
    <3> QED  BY <3>1, <3>2
  <2>3. Cardinality(CachedEntries') <= Cardinality(CachedEntries \cup {e})
    BY <1>6, <2>2, FS_Subset
  <2>4. /\ Cardinality(CachedEntries') \in Nat /\ Cardinality(CachedEntries) \in Nat
        /\ Cardinality(CachedEntries \cup {e}) \in Nat
    BY <2>1, <2>2, Countable, Counted, FS_CardinalityType
  <2> QED  BY <2>2, <2>3, <2>4
<1>8. /\ Cardinality(CachedEntries') \in Nat /\ Cardinality(Getters') \in Nat
      /\ Cardinality(CachedEntries) \in Nat /\ Cardinality(Getters) \in Nat
      /\ Cardinality(Task) \in Nat /\ MaxEntries \in Nat
  BY Countable, Counted, BlockCacheAssumption
<1> QED  BY <1>3, <1>5, <1>7, <1>8 DEF Bounded

-----------------------------------------------------------------------------
(* The steps.                                                              *)

\* The loops return to their caller and never to get().
LEMMA ReturnsStay ==
  ASSUME Inv, NEW t \in Task, NEW x \in BOOLEAN
  PROVE  UploadReturns(t, x).pc \notin Getting /\ UploadReturns(t, x).bak = task[t].bak
<1>1. task[t] \in TaskState
  BY DEF Inv, Tasks
<1> QED  BY <1>1 DEF UploadReturns, TaskState, Getting

LEMMA DerefStays ==
  ASSUME Inv, NEW t \in Task
  PROVE  DerefReturns(t).pc \notin Getting /\ DerefReturns(t).bak = task[t].bak
<1>1. task[t] \in TaskState
  BY DEF Inv, Tasks
<1> QED  BY <1>1, ReturnsStay DEF DerefReturns, TaskState, Getting

\* Task t goes to local state r, which is not one of get().
LEMMA MovesStay ==
  ASSUME Inv, NEW t \in Task, NEW r, task' = [task EXCEPT ![t] = r],
         r.pc \notin Getting, r.bak \in {0, task[t].bak, max_entries}
  PROVE  NoneEnters(t)
BY DEF Inv, Tasks, NoneEnters

\* A request arrives.
LEMMA CallBounded ==
  ASSUME Inv, Inv', Bounded, NEW t \in Task, Call(t)
  PROVE  Bounded'
<1>1. task \in [Task -> TaskState] /\ task[t] \in TaskState
  BY DEF Inv, Tasks
<1>2. ASSUME NEW op \in {"read", "write"}, NEW b \in Block, GetCall(t, op, b)
      PROVE  Bounded'
  <2>1. UNCHANGED <<cache, max_entries>>
    BY <1>2 DEF GetCall, entries
  <2>2. Shrinks
    BY <2>1 DEF Shrinks
  <2>3. CASE IsFull
    <3>1. NoneEnters(t)
      BY <1>1, <1>2, <2>3 DEF GetCall, NoneEnters, TaskState, Getting
    <3> QED  BY <2>1, <2>2, <3>1, NothingInstalled
  <2>4. CASE ~IsFull
    <3>1. Cardinality(CachedEntries) <= max_entries
      BY <2>4, CachedFinite DEF IsFull, Inv, Shared
    <3>2. \A u \in Task : task'[u].bak = task[u].bak
      BY <1>1, <1>2 DEF GetCall, TaskState
    <3>3. Limits /\ Limits'
      BY <2>1, <3>2 DEF Bounded, Limits
    <3> QED  BY <2>1, <3>1, <3>3, WithinLimit
  <2> QED  BY <2>3, <2>4
<1>3. ASSUME FlushCall(t)  PROVE Bounded'
  <2>1. NoneEnters(t)
    BY <1>1, <1>3 DEF FlushCall, NoneEnters, TaskState, Getting
  <2>2. Shrinks /\ max_entries' = max_entries
    BY <1>3 DEF FlushCall, entries, Shrinks
  <2> QED  BY <2>1, <2>2, NothingInstalled
<1>4. ASSUME CommitCall(t)  PROVE Bounded'
  <2>1. NoneEnters(t)
    BY <1>1, <1>4 DEF CommitCall, NoneEnters, TaskState, Getting
  <2>2. Shrinks /\ max_entries' = max_entries
    BY <1>4 DEF CommitCall, entries, Shrinks
  <2> QED  BY <2>1, <2>2, NothingInstalled
<1>5. ASSUME DropCall(t)  PROVE Bounded'
  <2>1. NoneEnters(t)
    BY <1>1, <1>5 DEF DropCall, NoneEnters, TaskState, Getting
  <2>2. Shrinks /\ max_entries' = 0
    BY <1>5 DEF DropCall, entries, Shrinks
  <2> QED  BY <2>1, <2>2, NothingInstalled
<1>6. ASSUME NEW i \in Inode, NEW j \in Inode, CopyCall(t, i, j)  PROVE Bounded'
  <2>1. NoneEnters(t)
    BY <1>1, <1>6 DEF CopyCall, NoneEnters, TaskState, Getting
  <2>2. Shrinks /\ max_entries' = max_entries
    BY <1>6 DEF CopyCall, entries, Shrinks
  <2> QED  BY <2>1, <2>2, NothingInstalled
<1>7. ASSUME NEW i \in Inode, NEW N \in SUBSET BlockNo, RemoveCall(t, i, N)
      PROVE  Bounded'
  <2>1. NoneEnters(t)
    BY <1>1, <1>7 DEF RemoveCall, NoneEnters, TaskState, Getting
  <2>2. Shrinks /\ max_entries' = max_entries
    BY <1>7 DEF RemoveCall, entries, Shrinks
  <2> QED  BY <2>1, <2>2, NothingInstalled
<1> QED  BY <1>2, <1>3, <1>4, <1>5, <1>6, <1>7 DEF Call

\* The steps of get().
LEMMA GetBounded ==
  ASSUME Inv, Inv', Bounded, NEW t \in Task,
         GetCached(t) \/ GetNew(t) \/ GetMiss(t) \/ GetWait(t) \/ Download(t)
           \/ DownloadMissing(t)
  PROVE  Bounded'
<1>1. task \in [Task -> TaskState] /\ task[t] \in TaskState
  BY DEF Inv, Tasks
<1>2. ASSUME GetCached(t)  PROVE Bounded'
  <2> DEFINE e == cache[task[t].arg]
  <2>1. e \in CacheEntry /\ task[t].pc \in Getting
    BY <1>2 DEF Inv, Shared, Tasks, GetCached, TaskShape, Getting
  <2>2. Use(t, e, data[e]) /\ UNCHANGED max_entries
    BY <1>2 DEF GetCached
  <2> HIDE DEF e
  <2> QED  BY <2>1, <2>2, Installed
<1>3. ASSUME GetNew(t) \/ Download(t)  PROVE Bounded'
  <2> DEFINE b == task[t].arg
             g == CHOOSE x \in FreshGens(b) : TRUE
  <2>1. b \in Block /\ task[t].pc \in Getting
    BY <1>3 DEF Inv, Tasks, GetNew, Download, TaskShape, Getting
  <2>2. g \in Gen
    BY <1>3 DEF GetNew, Download, FreshGens
  <2>3. <<b, g>> \in CacheEntry
    <3> HIDE DEF b, g
    <3> QED  BY <2>1, <2>2 DEF CacheEntry
  <2>4. UNCHANGED max_entries /\ \E d : Use(t, <<b, g>>, d)
    BY <1>3 DEF GetNew, Download
  <2> HIDE DEF b, g
  <2> QED  BY <2>1, <2>3, <2>4, Installed
<1>4. ASSUME GetMiss(t)  PROVE Bounded'
  <2>1. NoneEnters(t)
    BY <1>1, <1>4 DEF GetMiss, NoneEnters, TaskState, Getting
  <2>2. Shrinks /\ max_entries' = max_entries
    BY <1>4 DEF GetMiss, entries, Shrinks
  <2> QED  BY <2>1, <2>2, NothingInstalled
<1>5. ASSUME GetWait(t)  PROVE Bounded'
  <2>1. NoneEnters(t)
    BY <1>1, <1>5 DEF GetWait, NoneEnters, TaskState, Getting
  <2>2. Shrinks /\ max_entries' = max_entries
    BY <1>5 DEF GetWait, entries, Shrinks
  <2> QED  BY <2>1, <2>2, NothingInstalled
<1>6. ASSUME DownloadMissing(t)  PROVE Bounded'
  <2>1. NoneEnters(t)
    BY <1>1, <1>6 DEF DownloadMissing, NoneEnters, IdleTask, Getting
  <2>2. Shrinks /\ max_entries' = max_entries
    BY <1>6 DEF DownloadMissing, entries, Shrinks
  <2> QED  BY <2>1, <2>2, NothingInstalled
<1> QED  BY <1>2, <1>3, <1>4, <1>5, <1>6

\* The loops of expire, flush and the CommitTask.
LEMMA LoopBounded ==
  ASSUME Inv, Inv', Bounded, NEW t \in Task,
         \/ BeginPass(t) \/ ExpireDone(t) \/ PassEnd(t) \/ CommitBreak(t)
         \/ \E e \in task[t].todo : LoopNext(t, e)
         \/ WaitNothing(t) \/ Evict(t)
  PROVE  Bounded'
<1>1. task \in [Task -> TaskState] /\ task[t] \in TaskState
  BY DEF Inv, Tasks
<1>2. ASSUME ExpireDone(t)  PROVE Bounded'
  <2>1. UNCHANGED cache /\ Cardinality(CachedEntries) <= max_entries
    BY <1>2 DEF ExpireDone, entries
  <2>2. \A u \in Task : task'[u].bak \in {0, task[u].bak}
    BY <1>1, <1>2 DEF ExpireDone, TaskState, IdleTask
  <2>3. max_entries' \in {max_entries, task[t].bak}
    BY <1>2 DEF ExpireDone
  <2>4. Limits /\ Limits'
    BY <2>2, <2>3, BlockCacheAssumption DEF Bounded, Limits
  <2> QED  BY <2>1, <2>4, WithinLimit
<1>3. ASSUME BeginPass(t)  PROVE Bounded'
  <2>1. NoneEnters(t)
    BY <1>1, <1>3 DEF BeginPass, NoneEnters, TaskState, Getting
  <2>2. Shrinks /\ max_entries' = max_entries
    BY <1>3 DEF BeginPass, entries, Shrinks
  <2> QED  BY <2>1, <2>2, NothingInstalled
<1>4. ASSUME PassEnd(t)  PROVE Bounded'
  <2>1. NoneEnters(t)
    BY <1>1, <1>4 DEF PassEnd, NoneEnters, TaskState, IdleTask, Getting
  <2>2. Shrinks /\ max_entries' = max_entries
    BY <1>4 DEF PassEnd, entries, Shrinks
  <2> QED  BY <2>1, <2>2, NothingInstalled
<1>5. ASSUME CommitBreak(t)  PROVE Bounded'
  <2>1. NoneEnters(t)
    BY <1>1, <1>5 DEF CommitBreak, NoneEnters, IdleTask, Getting
  <2>2. Shrinks /\ max_entries' = max_entries
    BY <1>5 DEF CommitBreak, entries, Shrinks
  <2> QED  BY <2>1, <2>2, NothingInstalled
<1>6. ASSUME NEW e \in task[t].todo, LoopNext(t, e)  PROVE Bounded'
  <2>1. NoneEnters(t)
    BY <1>1, <1>6 DEF LoopNext, NoneEnters, TaskState, Getting
  <2>2. Shrinks /\ max_entries' = max_entries
    BY <1>6 DEF LoopNext, entries, Shrinks
  <2> QED  BY <2>1, <2>2, NothingInstalled
<1>7. ASSUME WaitNothing(t)  PROVE Bounded'
  <2>1. NoneEnters(t)
    BY <1>1, <1>7 DEF WaitNothing, NoneEnters, TaskState, Getting
  <2>2. Shrinks /\ max_entries' = max_entries
    BY <1>7 DEF WaitNothing, entries, Shrinks
  <2> QED  BY <2>1, <2>2, NothingInstalled
<1>8. ASSUME Evict(t)  PROVE Bounded'
  <2>1. NoneEnters(t)
    BY <1>1, <1>8 DEF Evict, NoneEnters, TaskState, Getting
  <2>2. Shrinks /\ max_entries' = max_entries
    BY <1>8 DEF Evict, Uncache, entries, Shrinks, Inv, Shared
  <2> QED  BY <2>1, <2>2, NothingInstalled
<1> QED  BY <1>2, <1>3, <1>4, <1>5, <1>6, <1>7, <1>8

\* upload_if_dirty.
LEMMA UploadBounded ==
  ASSUME Inv, Inv', Bounded, NEW t \in Task,
         \/ UploadSkip(t) \/ UploadStart(t) \/ RegisterNew(t) \/ RegisterDup(t)
         \/ \E w \in Thread : QueueUpload(t, w)
         \/ QueueFails(t) \/ FailReleaseBlock(t) \/ FailReleaseObj(t)
  PROVE  Bounded'
<1>1. task \in [Task -> TaskState] /\ task[t] \in TaskState
  BY DEF Inv, Tasks
<1>2. Shrinks /\ max_entries' = max_entries
  BY DEF UploadSkip, UploadStart, RegisterNew, RegisterDup, QueueUpload, QueueFails,
         FailReleaseBlock, FailReleaseObj, entries, Shrinks
<1>3. ASSUME UploadSkip(t)  PROVE NoneEnters(t)
  BY <1>3, ReturnsStay, MovesStay DEF UploadSkip
<1>4. ASSUME UploadStart(t)  PROVE NoneEnters(t)
  BY <1>1, <1>4 DEF UploadStart, NoneEnters, TaskState, Getting
<1>5. ASSUME RegisterNew(t)  PROVE NoneEnters(t)
  BY <1>1, <1>5 DEF RegisterNew, NoneEnters, TaskState, Getting
<1>6. ASSUME RegisterDup(t)  PROVE NoneEnters(t)
  <2> DEFINE b == BlockOf(task[t].el)
             r == [task[t] EXCEPT !.pc = "deref", !.old = inode_blocks[b]]
  <2>1. \/ task' = [task EXCEPT ![t] = UploadReturns(t, FALSE)]
        \/ task' = [task EXCEPT ![t] = r]
    BY <1>6 DEF RegisterDup
  <2>2. r.pc \notin Getting /\ r.bak = task[t].bak
    BY <1>1 DEF TaskState, Getting
  <2> HIDE DEF r
  <2> QED  BY <2>1, <2>2, ReturnsStay, MovesStay
<1>7. ASSUME NEW w \in Thread, QueueUpload(t, w)  PROVE NoneEnters(t)
  <2> DEFINE r == [task[t] EXCEPT !.pc = "deref"]
  <2>1. \/ task' = [task EXCEPT ![t] = UploadReturns(t, TRUE)]
        \/ task' = [task EXCEPT ![t] = r]
    BY <1>7 DEF QueueUpload
  <2>2. r.pc \notin Getting /\ r.bak = task[t].bak
    BY <1>1 DEF TaskState, Getting
  <2> HIDE DEF r
  <2> QED  BY <2>1, <2>2, ReturnsStay, MovesStay
<1>8. ASSUME QueueFails(t) \/ FailReleaseBlock(t)  PROVE NoneEnters(t)
  BY <1>1, <1>8 DEF QueueFails, FailReleaseBlock, NoneEnters, TaskState, Getting
<1>9. ASSUME FailReleaseObj(t)  PROVE NoneEnters(t)
  BY <1>1, <1>9 DEF FailReleaseObj, NoneEnters, IdleTask, Getting
<1>10. NoneEnters(t)
  BY <1>3, <1>4, <1>5, <1>6, <1>7, <1>8, <1>9
<1> QED  BY <1>2, <1>10, NothingInstalled

\* _deref_obj, remove and the end of a copy.
LEMMA RemoveBounded ==
  ASSUME Inv, Inv', Bounded, NEW t \in Task,
         \/ DerefShared(t) \/ DerefLast(t) \/ DerefRemove(t)
         \/ \E b \in task[t].todo : RemoveBlock(t, b)
         \/ RemoveDone(t) \/ CopyRows(t)
  PROVE  Bounded'
<1>1. task \in [Task -> TaskState] /\ task[t] \in TaskState
  BY DEF Inv, Tasks
<1>2. Shrinks /\ max_entries' = max_entries
  <2>1. ASSUME NEW b \in task[t].todo, RemoveBlock(t, b)
        PROVE  Shrinks /\ max_entries' = max_entries
    BY <2>1 DEF RemoveBlock, Uncache, entries, Shrinks, Inv, Shared
  <2> QED
    BY <2>1 DEF DerefShared, DerefLast, DerefRemove, RemoveDone, CopyRows, entries,
                Shrinks
<1>3. ASSUME DerefShared(t) \/ DerefRemove(t)  PROVE NoneEnters(t)
  BY <1>3, DerefStays, MovesStay DEF DerefShared, DerefRemove
<1>4. ASSUME DerefLast(t)  PROVE NoneEnters(t)
  BY <1>1, <1>4 DEF DerefLast, NoneEnters, TaskState, Getting
<1>5. ASSUME NEW b \in task[t].todo, RemoveBlock(t, b)  PROVE NoneEnters(t)
  BY <1>1, <1>5 DEF RemoveBlock, NoneEnters, TaskState, Getting
<1>6. ASSUME RemoveDone(t) \/ CopyRows(t)  PROVE NoneEnters(t)
  BY <1>1, <1>6 DEF RemoveDone, CopyRows, NoneEnters, IdleTask, Getting
<1>7. NoneEnters(t)
  BY <1>3, <1>4, <1>5, <1>6
<1> QED  BY <1>2, <1>7, NothingInstalled

\* A step that leaves the cache, the limit and what counts of the tasks.
LEMMA OthersBounded ==
  ASSUME Bounded, UNCHANGED <<cache, max_entries>>,
         \A t \in Task : /\ task'[t].bak = task[t].bak
                         /\ task'[t].pc \in Getting <=> task[t].pc \in Getting
  PROVE  Bounded'
<1>1. CachedEntries' = CachedEntries /\ Getters' = Getters
  BY DEF CachedEntries, Getters
<1>2. Limits'
  BY DEF Bounded, Limits
<1> QED  BY <1>1, <1>2 DEF Bounded

\* The threads and the kernel; a finished upload wakes the waiting tasks.
LEMMA ThreadsBounded ==
  ASSUME Inv, Bounded,
         \/ \E w \in Thread : ThreadStep(w)
         \/ \E r \in Remover : RemoverStep(r)
         \/ \E i \in Inode : KernelStep(i)
  PROVE  Bounded'
<1>1. UNCHANGED <<cache, max_entries>>
  BY DEF ThreadStep, WriteObject, WriteFails, FinishUpload, UnlockObject, UnlockBlock,
         RemoverStep, RemovalTake, RemovalDelete, KernelStep, Forget, Lookup, entries
<1>2. ASSUME NEW w \in Thread, UnlockBlock(w), NEW t \in Task
      PROVE  /\ task'[t].bak = task[t].bak
             /\ task'[t].pc \in Getting <=> task[t].pc \in Getting
  BY <1>2 DEF UnlockBlock, Inv, Tasks, TaskState, Getting
<1>3. (\E w \in Thread : UnlockBlock(w)) \/ UNCHANGED task
  BY DEF ThreadStep, WriteObject, WriteFails, FinishUpload, UnlockObject,
         RemoverStep, RemovalTake, RemovalDelete, KernelStep, Forget, Lookup
<1> QED  BY <1>1, <1>2, <1>3, OthersBounded

\* Every step of the system.
LEMMA NextBounded == Inv /\ Inv' /\ Bounded /\ [Next]_vars => Bounded'
<1> SUFFICES ASSUME Inv, Inv', Bounded, [Next]_vars  PROVE Bounded'
  OBVIOUS
<1>1. CASE UNCHANGED vars
  BY <1>1, OthersBounded DEF vars
<1>2. ASSUME NEW t \in Task, TaskStep(t)  PROVE Bounded'
  BY <1>2, GetBounded, LoopBounded, UploadBounded, RemoveBounded DEF TaskStep
<1> QED  BY <1>1, <1>2, CallBounded, ThreadsBounded DEF Next, Step

(***************************************************************************)
(* The cache holds at most one entry per task more than the configured     *)
(* limit, however many tasks pass the test of is_full before one of them   *)
(* has installed its entry, and whatever drop does to the limit meanwhile  *)
(* (block_cache.py:642-650, 731-775, 886-893).                                      *)
(***************************************************************************)
THEOREM CacheStaysBounded == Spec => []CacheBounded
<1>1. Init => Bounded
  <2> SUFFICES ASSUME Init  PROVE Bounded
    OBVIOUS
  <2>1. CachedEntries = {} /\ Getters = {}
    BY DEF Init, CachedEntries, Getters, Getting, IdleTask
  <2>2. Limits
    BY BlockCacheAssumption DEF Init, Limits, IdleTask
  <2>3. Cardinality(CachedEntries) = 0 /\ Cardinality(Getters) = 0
    BY <2>1, FS_EmptySet
  <2>4. Cardinality(Task) \in Nat /\ MaxEntries \in Nat
    BY Countable, BlockCacheAssumption
  <2> QED  BY <2>2, <2>3, <2>4 DEF Bounded
<1>2. Inv /\ Bounded => CacheBounded
  <2> SUFFICES ASSUME Inv, Bounded  PROVE CacheBounded
    OBVIOUS
  <2>1. CachedEntries \in SUBSET CacheEntry /\ Getters \in SUBSET Task
    BY DEF Inv, Shared, CachedEntries, Getters
  <2>2. /\ Cardinality(CachedEntries) \in Nat /\ Cardinality(Getters) \in Nat
        /\ Cardinality(Task) \in Nat /\ MaxEntries \in Nat
    BY <2>1, Countable, BlockCacheAssumption
  <2> QED  BY <2>2 DEF Bounded, CacheBounded
<1> QED  BY <1>1, <1>2, InitInv, NextInv, NextBounded, PTL DEF Spec

-----------------------------------------------------------------------------
(***************************************************************************)
(* Reference counts of module BlockCache: no block and no pending          *)
(* _deref_obj is left with an object whose row is gone. NoDangling is      *)
(* inductive once the types are known, because it counts the pending       *)
(* derefs: between the statement that relinks a block and the _deref_obj   *)
(* call several suspension points later, the reference lives in the task.  *)
(***************************************************************************)

(* Counting references.                                                    *)

\* Finitely many blocks and tasks refer to an object.
LEMMA LinksFinite ==
  \A o : IsFiniteSet(Links(o)) /\ IsFiniteSet(PendingDerefs(o))
BY BlockFinite, BlockCacheAssumption, FS_Subset DEF Links, PendingDerefs

\* Their numbers are natural numbers.
LEMMA Counts ==
  \A o : Cardinality(Links(o)) \in Nat /\ Cardinality(PendingDerefs(o)) \in Nat
BY LinksFinite, FS_CardinalityType

\* So they are in the next state.
LEMMA CountsNext ==
  \A o : /\ IsFiniteSet(Links(o)') /\ IsFiniteSet(PendingDerefs(o)')
         /\ Cardinality(Links(o)') \in Nat /\ Cardinality(PendingDerefs(o)') \in Nat
<1>1. \A o : IsFiniteSet(Links(o)') /\ IsFiniteSet(PendingDerefs(o)')
  BY BlockFinite, BlockCacheAssumption, FS_Subset DEF Links, PendingDerefs
<1> QED  BY <1>1, FS_CardinalityType

\* Steps that add no reference and drop no row: a task's pending deref may be
\* given up.
LEMMA QuietRefs ==
  ASSUME Inv, NoDangling, UNCHANGED inode_blocks,
         DOMAIN objects' = DOMAIN objects,
         \A o \in DOMAIN objects : objects'[o].refcount = objects[o].refcount,
         \A u \in Task : task'[u].old \in {task[u].old, None}
  PROVE  NoDangling'
<1>1. \A o \in ObjId : Cardinality(PendingDerefs(o)') <= Cardinality(PendingDerefs(o))
  <2> SUFFICES ASSUME NEW o \in ObjId
               PROVE  Cardinality(PendingDerefs(o)') <= Cardinality(PendingDerefs(o))
    OBVIOUS
  <2>1. PendingDerefs(o)' \subseteq PendingDerefs(o)
    BY BlockCacheAssumption DEF PendingDerefs
  <2> QED  BY <2>1, LinksFinite, FS_Subset
<1>2. \A o : Links(o)' = Links(o)
  BY DEF Links
<1>3. \A o \in DOMAIN objects : objects[o].refcount \in Nat
  BY DEF Inv, Shared, ObjectRow
<1>4. \A o \in DOMAIN objects :
        objects'[o].refcount >= Cardinality(Links(o)') + Cardinality(PendingDerefs(o)')
  BY <1>1, <1>2, <1>3, Counts, CountsNext DEF NoDangling, Inv, Shared
<1> QED  BY <1>4 DEF NoDangling

-----------------------------------------------------------------------------
(* Steps that leave the references alone.                                  *)

\* Requests take no reference.
LEMMA CallOld ==
  ASSUME Inv, NEW t \in Task, Call(t)
  PROVE  \A u \in Task : task'[u].old \in {task[u].old, None}
<1> DEFINE Old == \A u \in Task : task'[u].old \in {task[u].old, None}
<1>1. ASSUME NEW op \in {"read", "write"}, NEW b \in Block, GetCall(t, op, b)  PROVE Old
  BY <1>1 DEF GetCall, Inv, Tasks, TaskState
<1>2. ASSUME FlushCall(t)  PROVE Old
  BY <1>2 DEF FlushCall, Inv, Tasks, TaskState
<1>3. ASSUME CommitCall(t)  PROVE Old
  BY <1>3 DEF CommitCall, Inv, Tasks, TaskState
<1>4. ASSUME DropCall(t)  PROVE Old
  BY <1>4 DEF DropCall, Inv, Tasks, TaskState
<1>5. ASSUME NEW i \in Inode, NEW j \in Inode, CopyCall(t, i, j)  PROVE Old
  BY <1>5 DEF CopyCall, Inv, Tasks, TaskState
<1>6. ASSUME NEW i \in Inode, NEW N \in SUBSET BlockNo, RemoveCall(t, i, N)  PROVE Old
  BY <1>6 DEF RemoveCall, Inv, Tasks, TaskState
<1>7. Old
  <2> HIDE DEF Old
  <2> QED  BY <1>1, <1>2, <1>3, <1>4, <1>5, <1>6 DEF Call
<1> QED  BY <1>7

\* Requests change no reference.
LEMMA CallRefs ==
  ASSUME Inv, NoDangling, NEW t \in Task, Call(t)
  PROVE  NoDangling'
<1>1. UNCHANGED database
  BY DEF Call, GetCall, FlushCall, CommitCall, DropCall, CopyCall, RemoveCall
<1> QED  BY <1>1, CallOld, QuietRefs DEF database

\* upload_if_dirty returns without a pending deref.
LEMMA UploadReturnsOld ==
  ASSUME Tasks, NEW t \in Task, NEW x \in BOOLEAN  PROVE  UploadReturns(t, x).old = None
BY DEF UploadReturns, Tasks, TaskState

\* _deref_obj returns without a pending deref.
LEMMA DerefReturnsOld ==
  ASSUME Tasks, NEW t \in Task  PROVE  DerefReturns(t).old = None
BY UploadReturnsOld DEF DerefReturns, Tasks, TaskState

\* The steps of a task that take no reference from a block.
LEMMA QuietOld ==
  ASSUME Inv, NEW t \in Task,
         \/ GetCached(t)
         \/ GetNew(t)
         \/ GetMiss(t)
         \/ GetWait(t)
         \/ Download(t)
         \/ DownloadMissing(t)
         \/ BeginPass(t)
         \/ ExpireDone(t)
         \/ PassEnd(t)
         \/ CommitBreak(t)
         \/ WaitNothing(t)
         \/ Evict(t)
         \/ UploadSkip(t)
         \/ UploadStart(t)
         \/ QueueFails(t)
         \/ FailReleaseBlock(t)
         \/ FailReleaseObj(t)
         \/ DerefRemove(t)
         \/ RemoveDone(t)
         \/ \E e \in task[t].todo : LoopNext(t, e)
         \/ \E w \in Thread : QueueUpload(t, w)
  PROVE  \A u \in Task : task'[u].old \in {task[u].old, None}
<1> DEFINE Old == \A u \in Task : task'[u].old \in {task[u].old, None}
<1>1. ASSUME GetCached(t)  PROVE Old
  BY <1>1 DEF GetCached, Use, Inv, Tasks, TaskState, IdleTask
<1>2. ASSUME GetNew(t)  PROVE Old
  BY <1>2 DEF GetNew, Use, Inv, Tasks, TaskState, IdleTask
<1>3. ASSUME GetMiss(t)  PROVE Old
  BY <1>3 DEF GetMiss, Inv, Tasks, TaskState, IdleTask
<1>4. ASSUME GetWait(t)  PROVE Old
  BY <1>4 DEF GetWait, Inv, Tasks, TaskState, IdleTask
<1>5. ASSUME Download(t)  PROVE Old
  BY <1>5 DEF Download, Use, Inv, Tasks, TaskState, IdleTask
<1>6. ASSUME DownloadMissing(t)  PROVE Old
  BY <1>6 DEF DownloadMissing, Inv, Tasks, TaskState, IdleTask
<1>7. ASSUME BeginPass(t)  PROVE Old
  BY <1>7 DEF BeginPass, Inv, Tasks, TaskState, IdleTask
<1>8. ASSUME ExpireDone(t)  PROVE Old
  BY <1>8 DEF ExpireDone, Inv, Tasks, TaskState, IdleTask
<1>9. ASSUME PassEnd(t)  PROVE Old
  BY <1>9 DEF PassEnd, Inv, Tasks, TaskState, IdleTask
<1>10. ASSUME CommitBreak(t)  PROVE Old
  BY <1>10 DEF CommitBreak, Inv, Tasks, TaskState, IdleTask
<1>11. ASSUME WaitNothing(t)  PROVE Old
  BY <1>11 DEF WaitNothing, Inv, Tasks, TaskState, IdleTask
<1>12. ASSUME Evict(t)  PROVE Old
  BY <1>12 DEF Evict, Inv, Tasks, TaskState, IdleTask
<1>13. ASSUME UploadSkip(t)  PROVE Old
  BY <1>13, UploadReturnsOld DEF UploadSkip, Inv, Tasks, TaskState, IdleTask
<1>14. ASSUME UploadStart(t)  PROVE Old
  BY <1>14 DEF UploadStart, Inv, Tasks, TaskState, IdleTask
<1>15. ASSUME QueueFails(t)  PROVE Old
  BY <1>15 DEF QueueFails, Inv, Tasks, TaskState, IdleTask
<1>16. ASSUME FailReleaseBlock(t)  PROVE Old
  BY <1>16 DEF FailReleaseBlock, Inv, Tasks, TaskState, IdleTask
<1>17. ASSUME FailReleaseObj(t)  PROVE Old
  BY <1>17 DEF FailReleaseObj, Inv, Tasks, TaskState, IdleTask
<1>18. ASSUME DerefRemove(t)  PROVE Old
  BY <1>18, DerefReturnsOld DEF DerefRemove, Inv, Tasks, TaskState, IdleTask
<1>19. ASSUME RemoveDone(t)  PROVE Old
  BY <1>19 DEF RemoveDone, Inv, Tasks, TaskState, IdleTask
<1>20. ASSUME NEW e, LoopNext(t, e)  PROVE Old
  BY <1>20 DEF LoopNext, Inv, Tasks, TaskState
<1>21. ASSUME NEW w \in Thread, QueueUpload(t, w)  PROVE Old
  BY <1>21, UploadReturnsOld DEF QueueUpload, Inv, Tasks, TaskState
<1>22. Old
  <2> HIDE DEF Old
  <2> QED BY <1>1, <1>2, <1>3, <1>4, <1>5, <1>6, <1>7, <1>8, <1>9, <1>10, <1>11, <1>12, <1>13, <1>14, <1>15, <1>16, <1>17, <1>18, <1>19, <1>20, <1>21
<1> QED  BY <1>22

\* They do not touch the tables.
LEMMA QuietTask ==
  ASSUME Inv, NoDangling, NEW t \in Task,
         \/ GetCached(t)
         \/ GetNew(t)
         \/ GetMiss(t)
         \/ GetWait(t)
         \/ Download(t)
         \/ DownloadMissing(t)
         \/ BeginPass(t)
         \/ ExpireDone(t)
         \/ PassEnd(t)
         \/ CommitBreak(t)
         \/ WaitNothing(t)
         \/ Evict(t)
         \/ UploadSkip(t)
         \/ UploadStart(t)
         \/ QueueFails(t)
         \/ FailReleaseBlock(t)
         \/ FailReleaseObj(t)
         \/ DerefRemove(t)
         \/ RemoveDone(t)
         \/ \E e \in task[t].todo : LoopNext(t, e)
         \/ \E w \in Thread : QueueUpload(t, w)
  PROVE  NoDangling'
<1>1. \A u \in Task : task'[u].old \in {task[u].old, None}
  BY QuietOld
<1>2. UNCHANGED database
  BY DEF GetCached, GetNew, GetMiss, GetWait, Download, DownloadMissing, BeginPass, ExpireDone, PassEnd, CommitBreak, WaitNothing, Evict, UploadSkip, UploadStart, QueueFails, FailReleaseBlock, FailReleaseObj, DerefRemove, RemoveDone, LoopNext, QueueUpload
<1> QED  BY <1>1, <1>2, QuietRefs DEF database

\* Upload threads change neither links nor refcounts.
LEMMA ThreadRefs ==
  ASSUME Inv, NoDangling, NEW w \in Thread, ThreadStep(w)
  PROVE  NoDangling'
<1> DEFINE Old == \A u \in Task : task'[u].old \in {task[u].old, None}
           Rows == /\ DOMAIN objects' = DOMAIN objects
                   /\ \A o \in DOMAIN objects : objects'[o].refcount = objects[o].refcount
<1>1. ASSUME WriteObject(w) \/ WriteFails(w) \/ UnlockObject(w)
      PROVE  Old /\ Rows /\ UNCHANGED inode_blocks
  BY <1>1 DEF WriteObject, WriteFails, UnlockObject, database
<1>2. ASSUME FinishUpload(w)
      PROVE  Old /\ Rows /\ UNCHANGED inode_blocks
  <2>1. Rows
    BY <1>2 DEF FinishUpload, Inv, Shared, ObjectRow
  <2> QED  BY <1>2, <2>1 DEF FinishUpload
<1>3. ASSUME UnlockBlock(w)
      PROVE  Old /\ Rows /\ UNCHANGED inode_blocks
  BY <1>3 DEF UnlockBlock, Inv, Tasks, TaskState, database
<1>4. Old /\ Rows /\ UNCHANGED inode_blocks
  <2> HIDE DEF Old, Rows
  <2> QED  BY <1>1, <1>2, <1>3 DEF ThreadStep
<1> QED  BY <1>4, QuietRefs

\* Steps that leave tables and tasks alone.
LEMMA OtherRefs ==
  ASSUME Inv, NoDangling,
         UNCHANGED <<objects, inode_blocks, task>>
  PROVE  NoDangling'
BY QuietRefs

-----------------------------------------------------------------------------
(* Steps that move references.                                             *)

\* A block is linked to object new (or to none), its old object becomes the
\* pending deref of the task, and the refcount of new goes up by one.
LEMMA Relink ==
  ASSUME Inv, NoDangling, NEW t \in Task, NEW b \in Block,
         NEW new \in ObjId \cup {None},
         inode_blocks' = [inode_blocks EXCEPT ![b] = new],
         task'[t].old \in {inode_blocks[b], None},
         \A u \in Task \ {t} : task'[u].old = task[u].old,
         DOMAIN objects' = DOMAIN objects \cup ({new} \ {None}),
         \A o \in DOMAIN objects \ {new} : objects'[o].refcount = objects[o].refcount,
         new # None => objects'[new].refcount =
             IF new \in DOMAIN objects THEN objects[new].refcount + 1 ELSE 1,
         new # inode_blocks[b],
         new \in DOMAIN objects \cup {None}
           \/ /\ \A c \in Block : inode_blocks[c] # new
              /\ \A u \in Task : task[u].old # new
  PROVE  NoDangling'
<1>0. PICK old : old = inode_blocks[b]
  OBVIOUS
<1>1. old \in DOMAIN objects \cup {None} /\ inode_blocks \in [Block -> ObjId \cup {None}]
      /\ None \notin DOMAIN objects
  BY <1>0, BlockCacheAssumption DEF NoDangling, Inv, Shared
<1>2. \A o \in DOMAIN objects : objects[o].refcount \in Nat
  BY DEF Inv, Shared, ObjectRow
<1>3. ASSUME NEW o \in DOMAIN objects', o # new, o # old
      PROVE  objects'[o].refcount >= Cardinality(Links(o)') + Cardinality(PendingDerefs(o)')
  <2>1. o \in DOMAIN objects /\ o # None
    BY <1>1, <1>3
  <2>2. Links(o)' = Links(o) /\ PendingDerefs(o)' \subseteq PendingDerefs(o)
    BY <1>0, <1>1, <1>3, <2>1 DEF Links, PendingDerefs
  <2>3. Cardinality(PendingDerefs(o)') <= Cardinality(PendingDerefs(o))
    BY <2>2, LinksFinite, FS_Subset
  <2> QED  BY <1>2, <1>3, <2>1, <2>2, <2>3, Counts, CountsNext DEF NoDangling
<1>4. ASSUME old # None
      PROVE  objects'[old].refcount >= Cardinality(Links(old)') + Cardinality(PendingDerefs(old)')
  <2>1. Links(old)' = Links(old) \ {b} /\ b \in Links(old)
    BY <1>0, <1>1 DEF Links
  <2>2. PendingDerefs(old)' \subseteq PendingDerefs(old) \cup {t}
    BY DEF PendingDerefs
  <2>3. Cardinality(Links(old)') = Cardinality(Links(old)) - 1
    BY <2>1, LinksFinite, FS_RemoveElement
  <2>4. Cardinality(PendingDerefs(old)') <= Cardinality(PendingDerefs(old)) + 1
    <3>1. /\ IsFiniteSet(PendingDerefs(old) \cup {t})
          /\ Cardinality(PendingDerefs(old) \cup {t}) \in Nat
          /\ Cardinality(PendingDerefs(old) \cup {t}) <= Cardinality(PendingDerefs(old)) + 1
      <4>1. /\ IsFiniteSet(PendingDerefs(old) \cup {t})
            /\ \/ Cardinality(PendingDerefs(old) \cup {t}) = Cardinality(PendingDerefs(old))
               \/ Cardinality(PendingDerefs(old) \cup {t}) = Cardinality(PendingDerefs(old)) + 1
        BY LinksFinite, FS_AddElement
      <4> QED  BY <4>1, Counts
    <3>2. Cardinality(PendingDerefs(old)') <= Cardinality(PendingDerefs(old) \cup {t})
      BY <2>2, <3>1, FS_Subset
    <3> QED  BY <3>1, <3>2, Counts, CountsNext
  <2>5. old \in DOMAIN objects /\ objects'[old].refcount = objects[old].refcount
    BY <1>0, <1>1, <1>4
  <2> QED  BY <1>2, <2>3, <2>4, <2>5, Counts, CountsNext DEF NoDangling
<1>5. ASSUME new # None
      PROVE  objects'[new].refcount >= Cardinality(Links(new)') + Cardinality(PendingDerefs(new)')
  <2>1. Links(new)' = Links(new) \cup {b} /\ b \notin Links(new)
    BY <1>0, <1>1 DEF Links
  <2>2. PendingDerefs(new)' \subseteq PendingDerefs(new)
    BY <1>0, <1>1, <1>5 DEF PendingDerefs
  <2>3. Cardinality(Links(new)') = Cardinality(Links(new)) + 1
    BY <2>1, LinksFinite, FS_AddElement
  <2>4. Cardinality(PendingDerefs(new)') <= Cardinality(PendingDerefs(new))
    BY <2>2, LinksFinite, FS_Subset
  <2>5. CASE new \in DOMAIN objects
    BY <1>2, <1>5, <2>3, <2>4, <2>5, Counts, CountsNext DEF NoDangling
  <2>6. CASE new \notin DOMAIN objects
    <3>1. Links(new) = {} /\ PendingDerefs(new) = {}
      BY <1>5, <2>6 DEF Links, PendingDerefs
    <3>2. Cardinality(Links(new)) = 0 /\ Cardinality(PendingDerefs(new)) = 0
      BY <3>1, FS_EmptySet
    <3> QED  BY <1>5, <2>6, <2>3, <2>4, <3>2, Counts, CountsNext
  <2> QED  BY <2>5, <2>6
<1>6. \A o \in DOMAIN objects' :
         objects'[o].refcount >= Cardinality(Links(o)') + Cardinality(PendingDerefs(o)')
  <2> SUFFICES ASSUME NEW o \in DOMAIN objects'
               PROVE  objects'[o].refcount >= Cardinality(Links(o)') + Cardinality(PendingDerefs(o)')
    OBVIOUS
  <2>1. o # None
    BY <1>1
  <2> QED  BY <1>3, <1>4, <1>5, <2>1
<1>7. \A c \in Block : inode_blocks'[c] \in DOMAIN objects' \cup {None}
  BY <1>0, <1>1 DEF NoDangling
<1>8. \A u \in Task : task'[u].old \in DOMAIN objects' \cup {None}
  BY <1>0, <1>1 DEF NoDangling
<1> QED  BY <1>6, <1>7, <1>8 DEF NoDangling

\* A new row counts one reference.
LEMMA RegisterNewRefs ==
  ASSUME Inv, NoDangling, NEW t \in Task, RegisterNew(t)
  PROVE  NoDangling'
<1> DEFINE b == BlockOf(task[t].el)
           o == CHOOSE x \in FreshIds : TRUE
           row == [refcount |-> 1, hash |-> data[task[t].el], phys |-> FALSE]
<1>1. b \in Block
  BY BlockOfEntry DEF RegisterNew, Inv, Tasks, TaskShape
<1>2. o \in ObjId /\ ~InUse(o)
  BY DEF RegisterNew, FreshIds
<1>3. /\ o \notin DOMAIN objects
      /\ \A c \in Block : inode_blocks[c] # o
      /\ \A u \in Task : task[u].old # o
  BY <1>2 DEF InUse
<1>4. /\ inode_blocks' = [inode_blocks EXCEPT ![b] = o]
      /\ objects' = [x \in DOMAIN objects \cup {o} |-> IF x = o THEN row ELSE objects[x]]
      /\ task' = [task EXCEPT ![t].pc = "queue", ![t].obj = o, ![t].old = inode_blocks[b]]
  BY DEF RegisterNew
<1>5. task'[t].old = inode_blocks[b] /\ \A u \in Task \ {t} : task'[u].old = task[u].old
  <2> HIDE DEF b, o
  <2> QED  BY <1>4 DEF Inv, Tasks, TaskState
<1>6. /\ DOMAIN objects' = DOMAIN objects \cup ({o} \ {None})
      /\ \A x \in DOMAIN objects \ {o} : objects'[x].refcount = objects[x].refcount
      /\ objects'[o].refcount = 1
      /\ o # inode_blocks[b]
  <2> HIDE DEF b, o
  <2> QED  BY <1>1, <1>2, <1>3, <1>4, BlockCacheAssumption
<1> HIDE DEF b, o
<1> QED  BY <1>1, <1>2, <1>3, <1>4, <1>5, <1>6, Relink

\* An existing row counts one reference more.
LEMMA RegisterDupRefs ==
  ASSUME Inv, NoDangling, NEW t \in Task, RegisterDup(t)
  PROVE  NoDangling'
<1> DEFINE s == task[t]
           b == BlockOf(s.el)
           old == inode_blocks[b]
           r == [s EXCEPT !.pc = "deref", !.old = old]
<1>1. b \in Block
  BY BlockOfEntry DEF RegisterDup, Inv, Tasks, TaskShape
<1>2. PICK o \in SameHash(data[s.el]) :
         IF old = o
           THEN /\ UNCHANGED database
                /\ task' = [task EXCEPT ![t] = UploadReturns(t, FALSE)]
           ELSE /\ objects' = [objects EXCEPT ![o].refcount = @ + 1]
                /\ inode_blocks' = [inode_blocks EXCEPT ![b] = o]
                /\ task' = [task EXCEPT ![t] =
                     IF old = None THEN UploadReturns(t, FALSE) ELSE r]
  BY DEF RegisterDup
<1>3. o \in DOMAIN objects /\ o \in ObjId
  BY DEF SameHash, Inv, Shared
<1>4. UploadReturns(t, FALSE).old = None /\ r.old = old
  BY UploadReturnsOld DEF Inv, Tasks, TaskState
<1>5. CASE old = o
  <2>1. \A u \in Task : task'[u].old \in {task[u].old, None}
    <3> HIDE DEF old, r
    <3> QED  BY <1>2, <1>4, <1>5 DEF Inv, Tasks
  <2> QED  BY <1>2, <1>5, <2>1, QuietRefs DEF database
<1>6. CASE old # o
  <2>1. /\ objects' = [objects EXCEPT ![o].refcount = @ + 1]
        /\ inode_blocks' = [inode_blocks EXCEPT ![b] = o]
        /\ task'[t].old \in {old, None}
        /\ \A u \in Task \ {t} : task'[u].old = task[u].old
    <3> HIDE DEF old, r, b
    <3> QED  BY <1>2, <1>4, <1>6 DEF Inv, Tasks
  <2>2. /\ DOMAIN objects' = DOMAIN objects \cup ({o} \ {None})
        /\ \A x \in DOMAIN objects \ {o} : objects'[x].refcount = objects[x].refcount
        /\ objects'[o].refcount = objects[o].refcount + 1
    <3>1. objects \in [DOMAIN objects -> ObjectRow] /\ None \notin DOMAIN objects
      BY BlockCacheAssumption DEF Inv, Shared
    <3>2. o \in DOMAIN objects /\ objects' = [objects EXCEPT ![o].refcount = @ + 1]
      BY <1>3, <2>1
    <3> QED  BY <3>1, <3>2 DEF ObjectRow
  <2>3. inode_blocks[b] # o /\ task'[t].old \in {inode_blocks[b], None}
    BY <1>6, <2>1
  <2>4. inode_blocks' = [inode_blocks EXCEPT ![b] = o]
    BY <2>1
  <2>5. \A u \in Task \ {t} : task'[u].old = task[u].old
    BY <2>1
  <2> HIDE DEF b, r, old, s
  <2> QED  BY <1>1, <1>3, <2>2, <2>3, <2>4, <2>5, Relink
<1> QED  BY <1>5, <1>6

\* The block's reference becomes a pending deref.
LEMMA RemoveBlockRefs ==
  ASSUME Inv, NoDangling, NEW t \in Task, NEW b, RemoveBlock(t, b)
  PROVE  NoDangling'
<1>1. b \in Block
  BY DEF RemoveBlock, Inv, Tasks, TaskShape
<1>2. /\ inode_blocks' = [inode_blocks EXCEPT ![b] = None]
      /\ UNCHANGED objects
  BY DEF RemoveBlock
<1>3. task'[t].old = inode_blocks[b] /\ \A u \in Task \ {t} : task'[u].old = task[u].old
  BY DEF RemoveBlock, Inv, Tasks, TaskState
<1>4. CASE inode_blocks[b] = None
  <2>1. inode_blocks' = inode_blocks
    BY <1>2, <1>4 DEF Inv, Shared
  <2> QED  BY <1>2, <1>3, <1>4, <2>1, QuietRefs
<1>5. CASE inode_blocks[b] # None
  <2>1. DOMAIN objects' = DOMAIN objects \cup ({None} \ {None})
    BY <1>2
  <2> QED  BY <1>1, <1>2, <1>3, <1>5, <2>1, Relink
<1> QED  BY <1>4, <1>5

\* One pending deref and one count less.
LEMMA DerefSharedRefs ==
  ASSUME Inv, NoDangling, NEW t \in Task, DerefShared(t)
  PROVE  NoDangling'
<1>1. PICK o : o = task[t].old
  OBVIOUS
<1>2. /\ o \in DOMAIN objects
      /\ objects' = [objects EXCEPT ![o].refcount = @ - 1]
      /\ UNCHANGED inode_blocks
      /\ task' = [task EXCEPT ![t] = DerefReturns(t)]
  BY <1>1 DEF DerefShared
<1>3. \A u \in Task : task'[u].old = IF u = t THEN None ELSE task[u].old
  BY <1>2, DerefReturnsOld DEF Inv, Tasks
<1>4. o # None /\ None \notin DOMAIN objects
  BY <1>2, BlockCacheAssumption DEF Inv, Shared
<1>5. /\ DOMAIN objects' = DOMAIN objects
      /\ \A x \in DOMAIN objects : objects[x].refcount \in Nat
      /\ \A x \in DOMAIN objects \ {o} : objects'[x].refcount = objects[x].refcount
      /\ objects'[o].refcount = objects[o].refcount - 1
  BY <1>2 DEF Inv, Shared, ObjectRow
<1>6. \A x : Links(x)' = Links(x)
  BY <1>2 DEF Links
<1>7. Cardinality(PendingDerefs(o)') = Cardinality(PendingDerefs(o)) - 1
  <2>1. PendingDerefs(o)' = PendingDerefs(o) \ {t} /\ t \in PendingDerefs(o)
    BY <1>1, <1>3, <1>4 DEF PendingDerefs
  <2> QED  BY <2>1, LinksFinite, FS_RemoveElement
<1>8. \A x \in DOMAIN objects \ {o} : PendingDerefs(x)' = PendingDerefs(x)
  BY <1>1, <1>3, <1>4 DEF PendingDerefs
<1>9. \A x \in DOMAIN objects :
         objects'[x].refcount >= Cardinality(Links(x)') + Cardinality(PendingDerefs(x)')
  <2> SUFFICES ASSUME NEW x \in DOMAIN objects
               PROVE  objects'[x].refcount >= Cardinality(Links(x)') + Cardinality(PendingDerefs(x)')
    OBVIOUS
  <2>1. CASE x = o
    BY <1>2, <1>5, <1>6, <1>7, <2>1, Counts, CountsNext DEF NoDangling
  <2>2. CASE x # o
    BY <1>5, <1>6, <1>8, <2>2 DEF NoDangling
  <2> QED  BY <2>1, <2>2
<1> QED  BY <1>2, <1>3, <1>5, <1>9 DEF NoDangling

\* Whoever drops the last reference is alone: no block is linked to the
\* object and nobody else is about to deref it.
LEMMA LastReference ==
  ASSUME Inv, NoDangling, NEW t \in Task, NEW o \in DOMAIN objects,
         task[t].old = o, objects[o].refcount = 1
  PROVE  Links(o) = {} /\ PendingDerefs(o) = {t}
<1>1. t \in PendingDerefs(o)
  BY DEF PendingDerefs
<1>2. Cardinality(PendingDerefs(o)) # 0
  BY <1>1, LinksFinite, FS_EmptySet
<1>3. Cardinality(Links(o)) = 0 /\ Cardinality(PendingDerefs(o)) = 1
  BY <1>2, Counts DEF NoDangling
<1>4. Links(o) = {} /\ \E x : PendingDerefs(o) = {x}
  BY <1>3, LinksFinite, FS_EmptySet, FS_Singleton
<1> QED  BY <1>1, <1>4

\* So the row can be deleted.
LEMMA DerefLastRefs ==
  ASSUME Inv, NoDangling, NEW t \in Task, DerefLast(t)
  PROVE  NoDangling'
<1>1. PICK o : o = task[t].old
  OBVIOUS
<1>2. /\ o \in DOMAIN objects
      /\ objects[o].refcount = 1
      /\ objects' = [x \in DOMAIN objects \ {o} |-> objects[x]]
      /\ UNCHANGED inode_blocks
  BY <1>1 DEF DerefLast
<1>3. Links(o) = {} /\ PendingDerefs(o) = {t}
  BY <1>1, <1>2, LastReference
<1>4. \A u \in Task : task'[u].old = IF u = t THEN None ELSE task[u].old
  BY DEF DerefLast, Inv, Tasks, TaskState
<1>5. \A x \in DOMAIN objects' : Links(x)' = Links(x) /\ PendingDerefs(x)' = PendingDerefs(x)
  <2>1. None \notin DOMAIN objects
    BY BlockCacheAssumption DEF Inv, Shared
  <2> QED  BY <1>1, <1>2, <1>4, <2>1 DEF Links, PendingDerefs
<1>6. \A b \in Block : inode_blocks[b] # o
  BY <1>3 DEF Links
<1>7. \A u \in Task \ {t} : task[u].old # o
  BY <1>3 DEF PendingDerefs
<1> QED  BY <1>2, <1>4, <1>5, <1>6, <1>7 DEF NoDangling

\* Copying counts every new link.
LEMMA CopyRowsRefs ==
  ASSUME Inv, NoDangling, NEW t \in Task, CopyRows(t)
  PROVE  NoDangling'
<1>1. PICK i, j : i = task[t].arg /\ j = task[t].dst
  OBVIOUS
<1> DEFINE shared(o) == {n \in BlockNo : inode_blocks[<<i, n>>] = o}
           copies(o) == {<<j, n>> : n \in shared(o)}
<1>2. i \in Inode /\ j \in Inode
  BY <1>1 DEF CopyRows, Inv, Tasks, TaskShape
<1>3. /\ inode_blocks' = [b \in Block |-> IF b[1] = j THEN inode_blocks[<<i, b[2]>>]
                                          ELSE inode_blocks[b]]
      /\ objects' = [o \in DOMAIN objects |->
            [objects[o] EXCEPT !.refcount = @ + Cardinality(shared(o))]]
      /\ task' = [task EXCEPT ![t] = IdleTask]
  BY <1>1 DEF CopyRows
<1>4. \A u \in Task : task'[u].old = IF u = t THEN None ELSE task[u].old
  BY <1>3 DEF Inv, Tasks, IdleTask
<1>5. ASSUME NEW o \in DOMAIN objects
      PROVE  Cardinality(Links(o)') <= Cardinality(Links(o)) + Cardinality(shared(o))
  <2>1. IsFiniteSet(shared(o)) /\ Cardinality(shared(o)) \in Nat
    BY BlockCacheAssumption, FS_Subset, FS_CardinalityType
  <2>2. IsFiniteSet(copies(o)) /\ Cardinality(copies(o)) <= Cardinality(shared(o))
    <3>1. [n \in shared(o) |-> <<j, n>>] \in Surjection(shared(o), copies(o))
      BY DEF Surjection
    <3> QED  BY <2>1, <3>1, FS_Surjection
  <2>3. Cardinality(copies(o)) \in Nat
    BY <2>2, FS_CardinalityType
  <2>4. Links(o)' \subseteq Links(o) \cup copies(o)
    BY <1>2, <1>3 DEF Links, Block
  <2> HIDE DEF shared, copies
  <2>5. /\ IsFiniteSet(Links(o) \cup copies(o))
        /\ Cardinality(Links(o) \cup copies(o)) =
             Cardinality(Links(o)) + Cardinality(copies(o)) - Cardinality(Links(o) \cap copies(o))
    BY <2>2, LinksFinite, FS_Union
  <2>6. Cardinality(Links(o) \cap copies(o)) \in Nat /\ Cardinality(Links(o) \cup copies(o)) \in Nat
    BY <2>5, LinksFinite, FS_Intersection, FS_CardinalityType
  <2>7. Cardinality(Links(o)') <= Cardinality(Links(o) \cup copies(o))
    BY <2>4, <2>5, FS_Subset
  <2> QED  BY <2>1, <2>2, <2>3, <2>5, <2>6, <2>7, Counts, CountsNext
<1>6. ASSUME NEW o \in DOMAIN objects
      PROVE  Cardinality(PendingDerefs(o)') <= Cardinality(PendingDerefs(o))
  <2>1. PendingDerefs(o)' \subseteq PendingDerefs(o)
    BY <1>4, BlockCacheAssumption DEF PendingDerefs, Inv, Shared
  <2> QED  BY <2>1, LinksFinite, FS_Subset
<1>7. ASSUME NEW o \in DOMAIN objects
      PROVE  objects'[o].refcount >= Cardinality(Links(o)') + Cardinality(PendingDerefs(o)')
  <2>1. objects[o].refcount \in Nat /\ Cardinality(shared(o)) \in Nat
    BY BlockCacheAssumption, FS_Subset, FS_CardinalityType DEF Inv, Shared, ObjectRow
  <2>2. objects'[o].refcount = objects[o].refcount + Cardinality(shared(o))
    BY <1>3 DEF Inv, Shared, ObjectRow
  <2> HIDE DEF shared
  <2> QED  BY <1>5, <1>6, <2>1, <2>2, Counts, CountsNext DEF NoDangling
<1>8. DOMAIN objects' = DOMAIN objects
  BY <1>3
<1>9. \A b \in Block : inode_blocks'[b] \in DOMAIN objects \cup {None}
  BY <1>2, <1>3 DEF NoDangling, Block
<1>10. \A u \in Task : task'[u].old \in DOMAIN objects \cup {None}
  BY <1>4 DEF NoDangling
<1> QED  BY <1>7, <1>8, <1>9, <1>10 DEF NoDangling

-----------------------------------------------------------------------------
(* The specification.                                                      *)

\* Every step of a task.
LEMMA TaskRefs ==
  ASSUME Inv, NoDangling, NEW t \in Task, TaskStep(t)
  PROVE  NoDangling'
BY QuietTask, RegisterNewRefs, RegisterDupRefs, DerefSharedRefs, DerefLastRefs,
   RemoveBlockRefs, CopyRowsRefs DEF TaskStep

\* The mounted file system is consistent.
LEMMA InitRefs == Init => NoDangling
<1> SUFFICES ASSUME Init  PROVE  NoDangling
  OBVIOUS
<1>1. DOMAIN objects = {inode_blocks[b] : b \in Block} \ {None}
  BY DEF Init
<1>2. ASSUME NEW o \in DOMAIN objects
      PROVE  objects[o].refcount = Cardinality(Links(o))
  BY <1>1 DEF Init, Links
<1>3. \A t \in Task : task[t].old = None
  BY DEF Init, IdleTask
<1>4. ASSUME NEW o \in DOMAIN objects
      PROVE  Cardinality(PendingDerefs(o)) = 0
  <2>1. PendingDerefs(o) = {}
    BY <1>1, <1>3 DEF PendingDerefs
  <2> QED  BY <2>1, FS_EmptySet
<1> QED  BY <1>1, <1>2, <1>3, <1>4, Counts DEF NoDangling

\* Every step of the system.
LEMMA NextRefs == Inv /\ NoDangling /\ [Next]_vars => NoDangling'
<1> SUFFICES ASSUME Inv, NoDangling, [Next]_vars  PROVE  NoDangling'
  OBVIOUS
<1>1. CASE UNCHANGED vars
  BY <1>1, OtherRefs DEF vars
<1>2. ASSUME NEW r \in Remover, RemoverStep(r)  PROVE NoDangling'
  BY <1>2, OtherRefs DEF RemoverStep, RemovalTake, RemovalDelete, database
<1>3. ASSUME NEW i \in Inode, KernelStep(i)  PROVE NoDangling'
  BY <1>3, OtherRefs DEF KernelStep, Forget, Lookup, database
<1> QED  BY <1>1, <1>2, <1>3, CallRefs, TaskRefs, ThreadRefs DEF Next, Step

(***************************************************************************)
(* Reference safety of upload_if_dirty, _deref_obj, remove and copy_tree,  *)
(* for every number of tasks, threads, files and blocks and whatever       *)
(* uploads fail: no block and no suspended _deref_obj refers to an object  *)
(* whose row has been deleted, and no row counts fewer references than     *)
(* there are.                                                              *)
(***************************************************************************)
THEOREM NeverDangling == Spec => []NoDangling
<1>1. Spec => []Inv
  BY InitInv, NextInv, PTL DEF Spec
<1> QED  BY <1>1, InitRefs, NextRefs, PTL DEF Spec

-----------------------------------------------------------------------------
(***************************************************************************)
(* Lock discipline of module BlockCache, and what the locks protect.       *)
(* LockOwnership is inductive once it is known which local variables are   *)
(* set where (Inv): every step takes a free lock, releases one it is       *)
(* responsible for, or hands its locks to an upload thread. With it, a     *)
(* block that somebody has locked is touched by nobody else (EntryKept,    *)
(* LinkKept), so an entry stays in the cache from the moment its hash is   *)
(* computed until its upload has ended (Uploads). The new file of a copy   *)
(* is written without a lock: it is safe because nobody else knows it yet  *)
(* (Copies).                                                               *)
(***************************************************************************)
-----------------------------------------------------------------------------
(* How locks change hands.                                                 *)

\* Nobody takes or releases a lock.
LEMMA QuietLocks ==
  ASSUME LockOwnership, UNCHANGED locked,
         \A t \in Task : TaskHolds(t)' = TaskHolds(t),
         \A w \in Thread : ThreadHolds(w)' = ThreadHolds(w)
  PROVE  LockOwnership'
BY DEF LockOwnership

\* A task takes a free lock.
LEMMA TaskTakes ==
  ASSUME LockOwnership, NEW t \in Task, NEW k, k \notin locked,
         locked' = locked \cup {k},
         TaskHolds(t)' = TaskHolds(t) \cup {k},
         \A u \in Task \ {t} : TaskHolds(u)' = TaskHolds(u),
         \A w \in Thread : ThreadHolds(w)' = ThreadHolds(w)
  PROVE  LockOwnership'
<1>1. locked' = UNION ({TaskHolds(u)' : u \in Task} \cup {ThreadHolds(w)' : w \in Thread})
  BY DEF LockOwnership
<1>2. \A u \in Task : k \notin TaskHolds(u)
  BY DEF LockOwnership
<1>3. \A w \in Thread : k \notin ThreadHolds(w)
  BY DEF LockOwnership
<1>4. \A u, v \in Task : u # v => TaskHolds(u)' \cap TaskHolds(v)' = {}
  BY <1>2 DEF LockOwnership
<1>5. \A v \in Task, w \in Thread : TaskHolds(v)' \cap ThreadHolds(w)' = {}
  BY <1>3 DEF LockOwnership
<1> QED  BY <1>1, <1>4, <1>5 DEF LockOwnership

\* A task releases a lock it holds.
LEMMA TaskReleases ==
  ASSUME LockOwnership, NEW t \in Task, NEW k \in TaskHolds(t),
         locked' = locked \ {k},
         TaskHolds(t)' = TaskHolds(t) \ {k},
         \A u \in Task \ {t} : TaskHolds(u)' = TaskHolds(u),
         \A w \in Thread : ThreadHolds(w)' = ThreadHolds(w)
  PROVE  LockOwnership'
<1>1. \A u \in Task \ {t} : k \notin TaskHolds(u)
  BY DEF LockOwnership
<1>2. \A w \in Thread : k \notin ThreadHolds(w)
  BY DEF LockOwnership
<1>3. locked' = UNION ({TaskHolds(u)' : u \in Task} \cup {ThreadHolds(w)' : w \in Thread})
  BY <1>1, <1>2 DEF LockOwnership
<1>4. \A u, v \in Task : u # v => TaskHolds(u)' \cap TaskHolds(v)' = {}
  BY DEF LockOwnership
<1>5. \A v \in Task, w \in Thread : TaskHolds(v)' \cap ThreadHolds(w)' = {}
  BY DEF LockOwnership
<1> QED  BY <1>3, <1>4, <1>5 DEF LockOwnership

\* A thread releases a lock it holds.
LEMMA ThreadReleases ==
  ASSUME LockOwnership, NEW w \in Thread, NEW k \in ThreadHolds(w),
         locked' = locked \ {k},
         ThreadHolds(w)' = ThreadHolds(w) \ {k},
         \A v \in Thread \ {w} : ThreadHolds(v)' = ThreadHolds(v),
         \A t \in Task : TaskHolds(t)' = TaskHolds(t)
  PROVE  LockOwnership'
<1>1. \A v \in Thread \ {w} : k \notin ThreadHolds(v)
  BY DEF LockOwnership
<1>2. \A t \in Task : k \notin TaskHolds(t)
  BY DEF LockOwnership
<1>3. locked' = UNION ({TaskHolds(u)' : u \in Task} \cup {ThreadHolds(v)' : v \in Thread})
  BY <1>1, <1>2 DEF LockOwnership
<1>4. \A u, v \in Thread : u # v => ThreadHolds(u)' \cap ThreadHolds(v)' = {}
  BY DEF LockOwnership
<1>5. \A u \in Task, v \in Thread : TaskHolds(u)' \cap ThreadHolds(v)' = {}
  BY DEF LockOwnership
<1> QED  BY <1>3, <1>4, <1>5 DEF LockOwnership

\* A task hands its locks to a thread.
LEMMA HandedOver ==
  ASSUME LockOwnership, NEW t \in Task, NEW w \in Thread, UNCHANGED locked,
         ThreadHolds(w) = {}, ThreadHolds(w)' = TaskHolds(t), TaskHolds(t)' = {},
         \A u \in Task \ {t} : TaskHolds(u)' = TaskHolds(u),
         \A v \in Thread \ {w} : ThreadHolds(v)' = ThreadHolds(v)
  PROVE  LockOwnership'
<1>1. locked' = UNION ({TaskHolds(u)' : u \in Task} \cup {ThreadHolds(v)' : v \in Thread})
  BY DEF LockOwnership
<1>2. \A u, v \in Task : u # v => TaskHolds(u)' \cap TaskHolds(v)' = {}
  BY DEF LockOwnership
<1>3. \A u, v \in Thread : u # v => ThreadHolds(u)' \cap ThreadHolds(v)' = {}
  BY DEF LockOwnership
<1>4. \A u \in Task, v \in Thread : TaskHolds(u)' \cap ThreadHolds(v)' = {}
  BY DEF LockOwnership
<1> QED  BY <1>1, <1>2, <1>3, <1>4 DEF LockOwnership

-----------------------------------------------------------------------------
(* Steps of a task.                                                        *)

\* upload_if_dirty returns without a lock.
LEMMA UploadReturnsHolds ==
  ASSUME Tasks, NEW t \in Task, NEW x \in BOOLEAN
  PROVE  UploadReturns(t, x).pc \in {"loop", "evict_lock"}
BY DEF UploadReturns, Tasks, TaskState

\* _deref_obj returns without a lock.
LEMMA DerefReturnsHolds ==
  ASSUME Tasks, NEW t \in Task
  PROVE  DerefReturns(t).pc \in {"loop", "evict_lock", "remove"}
BY UploadReturnsHolds DEF DerefReturns, Tasks, TaskState

\* Requests take no lock.
LEMMA CallLocks ==
  ASSUME Inv, LockOwnership, NEW t \in Task, Call(t)
  PROVE  LockOwnership'
<1> DEFINE Same == \A u \in Task : TaskHolds(u)' = TaskHolds(u)
<1>1. ASSUME NEW op, NEW b, GetCall(t, op, b)  PROVE Same
  BY <1>1 DEF GetCall, TaskHolds, Inv, Tasks, TaskState
<1>2. ASSUME FlushCall(t)  PROVE Same
  BY <1>2 DEF FlushCall, TaskHolds, Inv, Tasks, TaskState
<1>3. ASSUME CommitCall(t)  PROVE Same
  BY <1>3 DEF CommitCall, TaskHolds, Inv, Tasks, TaskState
<1>4. ASSUME DropCall(t)  PROVE Same
  BY <1>4 DEF DropCall, TaskHolds, Inv, Tasks, TaskState
<1>5. ASSUME NEW i, NEW j, CopyCall(t, i, j)  PROVE Same
  BY <1>5 DEF CopyCall, TaskHolds, Inv, Tasks, TaskState
<1>6. ASSUME NEW i, NEW N, RemoveCall(t, i, N)  PROVE Same
  BY <1>6 DEF RemoveCall, TaskHolds, Inv, Tasks, TaskState
<1>7. Same
  <2> HIDE DEF Same
  <2> QED  BY <1>1, <1>2, <1>3, <1>4, <1>5, <1>6 DEF Call
<1>8. UNCHANGED <<locked, thread>>
  BY DEF Call, GetCall, FlushCall, CommitCall, DropCall, CopyCall, RemoveCall
<1>9. \A w \in Thread : ThreadHolds(w)' = ThreadHolds(w)
  BY <1>8 DEF ThreadHolds
<1> QED  BY <1>7, <1>8, <1>9, QuietLocks

\* Steps of a task that keep its locks as they are.
LEMMA QuietTaskLocks ==
  ASSUME Inv, LockOwnership, NEW t \in Task,
         \/ BeginPass(t)
         \/ ExpireDone(t)
         \/ PassEnd(t)
         \/ CommitBreak(t)
         \/ WaitNothing(t)
         \/ Evict(t)
         \/ UploadSkip(t)
         \/ DerefShared(t)
         \/ DerefLast(t)
         \/ DerefRemove(t)
         \/ RemoveDone(t)
         \/ CopyRows(t)
         \/ GetCached(t)
         \/ GetNew(t)
         \/ GetWait(t)
         \/ \E e \in task[t].todo : LoopNext(t, e)
         \/ \E b \in task[t].todo : RemoveBlock(t, b)
         \/ QueueFails(t)
  PROVE  LockOwnership'
<1> DEFINE Same == \A u \in Task : TaskHolds(u)' = TaskHolds(u)
<1>1. ASSUME BeginPass(t)  PROVE Same
  BY <1>1 DEF BeginPass, TaskHolds, Inv, Tasks, TaskState, IdleTask
<1>2. ASSUME ExpireDone(t)  PROVE Same
  BY <1>2 DEF ExpireDone, TaskHolds, Inv, Tasks, TaskState, IdleTask
<1>3. ASSUME PassEnd(t)  PROVE Same
  BY <1>3 DEF PassEnd, TaskHolds, Inv, Tasks, TaskState, IdleTask
<1>4. ASSUME CommitBreak(t)  PROVE Same
  BY <1>4 DEF CommitBreak, TaskHolds, Inv, Tasks, TaskState, IdleTask
<1>5. ASSUME WaitNothing(t)  PROVE Same
  BY <1>5 DEF WaitNothing, TaskHolds, Inv, Tasks, TaskState, IdleTask
<1>6. ASSUME Evict(t)  PROVE Same
  BY <1>6 DEF Evict, TaskHolds, Inv, Tasks, TaskState, IdleTask
<1>7. ASSUME UploadSkip(t)  PROVE Same
  BY <1>7, UploadReturnsHolds DEF UploadSkip, TaskHolds, Inv, Tasks, TaskState, IdleTask
<1>8. ASSUME DerefShared(t)  PROVE Same
  BY <1>8, DerefReturnsHolds DEF DerefShared, TaskHolds, Inv, Tasks, TaskState, IdleTask
<1>9. ASSUME DerefLast(t)  PROVE Same
  BY <1>9 DEF DerefLast, TaskHolds, Inv, Tasks, TaskState, IdleTask
<1>10. ASSUME DerefRemove(t)  PROVE Same
  BY <1>10, DerefReturnsHolds DEF DerefRemove, TaskHolds, Inv, Tasks, TaskState, IdleTask
<1>11. ASSUME RemoveDone(t)  PROVE Same
  BY <1>11 DEF RemoveDone, TaskHolds, Inv, Tasks, TaskState, IdleTask
<1>12. ASSUME CopyRows(t)  PROVE Same
  BY <1>12 DEF CopyRows, TaskHolds, Inv, Tasks, TaskState, IdleTask
<1>13. ASSUME GetCached(t)  PROVE Same
  BY <1>13 DEF GetCached, Use, TaskHolds, Inv, Tasks, TaskState, IdleTask
<1>14. ASSUME GetNew(t)  PROVE Same
  BY <1>14 DEF GetNew, Use, TaskHolds, Inv, Tasks, TaskState, IdleTask
<1>15. ASSUME GetWait(t)  PROVE Same
  BY <1>15 DEF GetWait, TaskHolds, Inv, Tasks, TaskState, IdleTask
<1>16. ASSUME NEW e, LoopNext(t, e)  PROVE Same
  <2>1. task[t].pc = "loop" /\ task'[t].pc \in {"loop", "up_lock", "evict_lock"}
    BY <1>16 DEF LoopNext, Inv, Tasks, TaskState
  <2>2. \A u \in Task \ {t} : task'[u] = task[u]
    BY <1>16 DEF LoopNext, Inv, Tasks
  <2> QED  BY <2>1, <2>2 DEF TaskHolds
<1>17. ASSUME NEW b, RemoveBlock(t, b)  PROVE Same
  <2>1. task[t].pc = "remove" /\ task'[t].pc \in {"remove", "deref"}
    BY <1>17 DEF RemoveBlock, Inv, Tasks, TaskState
  <2>2. \A u \in Task \ {t} : task'[u] = task[u]
    BY <1>17 DEF RemoveBlock, Inv, Tasks
  <2> QED  BY <2>1, <2>2 DEF TaskHolds
<1>18. ASSUME QueueFails(t)  PROVE Same
  BY <1>18 DEF QueueFails, TaskHolds, Inv, Tasks, TaskState
<1>19. Same
  <2> HIDE DEF Same
  <2> QED  BY <1>1, <1>2, <1>3, <1>4, <1>5, <1>6, <1>7, <1>8, <1>9, <1>10, <1>11, <1>12, <1>13, <1>14, <1>15, <1>16, <1>17, <1>18
<1>20. UNCHANGED <<locked, thread>>
  BY DEF BeginPass, ExpireDone, PassEnd, CommitBreak, WaitNothing, Evict, UploadSkip, DerefShared, DerefLast, DerefRemove, RemoveDone, CopyRows, GetCached, GetNew, GetWait, LoopNext, RemoveBlock, QueueFails
<1>21. \A w \in Thread : ThreadHolds(w)' = ThreadHolds(w)
  BY <1>20 DEF ThreadHolds
<1> QED  BY <1>19, <1>20, <1>21, QuietLocks

\* Steps of a task that take a lock.
LEMMA LockingTask ==
  ASSUME Inv, LockOwnership, NEW t \in Task,
         GetMiss(t) \/ UploadStart(t) \/ RegisterNew(t)
  PROVE  LockOwnership'
<1>1. \A u \in Task \ {t} : TaskHolds(u)' = TaskHolds(u)
  BY DEF GetMiss, UploadStart, RegisterNew, TaskHolds, Inv, Tasks
<1>2. \A w \in Thread : ThreadHolds(w)' = ThreadHolds(w)
  BY DEF GetMiss, UploadStart, RegisterNew, ThreadHolds
<1>3. ASSUME GetMiss(t)  PROVE LockOwnership'
  <2>1. PICK k : k = task[t].arg
    OBVIOUS
  <2>2. TaskHolds(t) = {} /\ TaskHolds(t)' = {k}
    BY <1>3, <2>1 DEF GetMiss, TaskHolds, Inv, Tasks, TaskState
  <2>3. k \notin locked /\ locked' = locked \cup {k}
    BY <1>3, <2>1 DEF GetMiss
  <2> QED  BY <1>1, <1>2, <2>2, <2>3, TaskTakes
<1>4. ASSUME UploadStart(t)  PROVE LockOwnership'
  <2>1. PICK k : k = BlockOf(task[t].el)
    OBVIOUS
  <2>2. TaskHolds(t) = {} /\ TaskHolds(t)' = {k}
    BY <1>4, <2>1 DEF UploadStart, TaskHolds, BlockOf, Inv, Tasks, TaskState
  <2>3. k \notin locked /\ locked' = locked \cup {k}
    BY <1>4, <2>1 DEF UploadStart
  <2> QED  BY <1>1, <1>2, <2>2, <2>3, TaskTakes
<1>5. ASSUME RegisterNew(t)  PROVE LockOwnership'
  <2>1. PICK k : k = CHOOSE x \in FreshIds : TRUE
    OBVIOUS
  <2>2. k \notin locked
    BY <1>5, <2>1 DEF RegisterNew, FreshIds, InUse
  <2>3. /\ task[t].pc = "hash" /\ task'[t].pc = "queue"
        /\ task'[t].obj = k /\ task'[t].el = task[t].el
        /\ locked' = locked \cup {k}
    <3>1. /\ task[t].pc = "hash" /\ locked' = locked \cup {k}
          /\ \E old : task' = [task EXCEPT ![t].pc = "queue", ![t].obj = k, ![t].old = old]
      BY <1>5, <2>1 DEF RegisterNew
    <3> QED  BY <3>1 DEF Inv, Tasks, TaskState
  <2>4. TaskHolds(t)' = TaskHolds(t) \cup {k}
    BY <2>3 DEF TaskHolds, BlockOf
  <2> QED  BY <1>1, <1>2, <2>2, <2>3, <2>4, TaskTakes
<1> QED  BY <1>3, <1>4, <1>5

\* Steps of a task that release a lock.
LEMMA UnlockingTask ==
  ASSUME Inv, LockOwnership, NEW t \in Task,
         \/ Download(t) \/ DownloadMissing(t) \/ RegisterDup(t)
         \/ FailReleaseBlock(t) \/ FailReleaseObj(t)
  PROVE  LockOwnership'
<1>1. \A u \in Task \ {t} : task'[u] = task[u]
  BY DEF Download, Use, DownloadMissing, RegisterDup, FailReleaseBlock, FailReleaseObj,
         Inv, Tasks
<1>2. \A u \in Task \ {t} : TaskHolds(u)' = TaskHolds(u)
  BY <1>1 DEF TaskHolds
<1>3. \A w \in Thread : ThreadHolds(w)' = ThreadHolds(w)
  BY DEF Download, DownloadMissing, RegisterDup, FailReleaseBlock, FailReleaseObj,
         ThreadHolds
<1>4. ASSUME Download(t) \/ DownloadMissing(t)  PROVE LockOwnership'
  <2>1. PICK k : k = task[t].arg
    OBVIOUS
  <2>2. task[t].pc = "download" /\ task'[t] = IdleTask /\ locked' = locked \ {k}
    BY <1>4, <2>1 DEF Download, Use, DownloadMissing, Inv, Tasks
  <2>3. TaskHolds(t) = {k} /\ TaskHolds(t)' = {}
    BY <2>1, <2>2 DEF TaskHolds, IdleTask
  <2> QED  BY <1>2, <1>3, <2>2, <2>3, TaskReleases
<1>5. ASSUME RegisterDup(t)  PROVE LockOwnership'
  <2>1. PICK k : k = BlockOf(task[t].el)
    OBVIOUS
  <2>2. task[t].pc = "hash" /\ locked' = locked \ {k}
    BY <1>5, <2>1 DEF RegisterDup
  <2>3. task'[t].pc \in {"loop", "evict_lock", "deref"}
    <3>1. \/ task' = [task EXCEPT ![t] = UploadReturns(t, FALSE)]
          \/ \E o : task' = [task EXCEPT ![t] = [@ EXCEPT !.pc = "deref", !.old = o]]
      BY <1>5 DEF RegisterDup
    <3>2. CASE task' = [task EXCEPT ![t] = UploadReturns(t, FALSE)]
      BY <3>2, UploadReturnsHolds DEF Inv, Tasks
    <3>3. CASE \E o : task' = [task EXCEPT ![t] = [@ EXCEPT !.pc = "deref", !.old = o]]
      BY <3>3 DEF Inv, Tasks, TaskState
    <3> QED  BY <3>1, <3>2, <3>3
  <2>4. TaskHolds(t) = {k} /\ TaskHolds(t)' = {}
    BY <2>1, <2>2, <2>3 DEF TaskHolds
  <2> QED  BY <1>2, <1>3, <2>2, <2>4, TaskReleases
<1>6. ASSUME FailReleaseBlock(t)  PROVE LockOwnership'
  <2>1. PICK k : k = BlockOf(task[t].el)
    OBVIOUS
  <2>2. task[t].pc = "fail_block" /\ task[t].obj \in ObjId /\ k \in Block
    BY <1>6, <2>1, BlockOfEntry DEF FailReleaseBlock, Inv, Tasks, TaskShape
  <2>3. task'[t].pc = "fail_obj" /\ task'[t].obj = task[t].obj /\ locked' = locked \ {k}
    BY <1>6, <2>1 DEF FailReleaseBlock, Inv, Tasks, TaskState
  <2>4. TaskHolds(t) = {k, task[t].obj} /\ TaskHolds(t)' = {task[t].obj}
    BY <2>1, <2>2, <2>3 DEF TaskHolds
  <2>5. k # task[t].obj
    BY <2>2, BlockCacheAssumption
  <2>6. k \in TaskHolds(t) /\ TaskHolds(t)' = TaskHolds(t) \ {k}
    BY <2>4, <2>5
  <2> QED  BY <1>2, <1>3, <2>3, <2>6, TaskReleases
<1>7. ASSUME FailReleaseObj(t)  PROVE LockOwnership'
  <2>1. PICK k : k = task[t].obj
    OBVIOUS
  <2>2. task[t].pc = "fail_obj" /\ task'[t] = IdleTask /\ locked' = locked \ {k}
    BY <1>7, <2>1 DEF FailReleaseObj, Inv, Tasks
  <2>3. TaskHolds(t) = {k} /\ TaskHolds(t)' = {}
    BY <2>1, <2>2 DEF TaskHolds, IdleTask
  <2> QED  BY <1>2, <1>3, <2>2, <2>3, TaskReleases
<1> QED  BY <1>4, <1>5, <1>6, <1>7

\* _queue_upload passes the block's and the object's lock to an upload
\* thread.
LEMMA QueueLocks ==
  ASSUME Inv, LockOwnership, NEW t \in Task, NEW w \in Thread, QueueUpload(t, w)
  PROVE  LockOwnership'
<1>1. \A u \in Task \ {t} : TaskHolds(u)' = TaskHolds(u)
  BY DEF QueueUpload, TaskHolds, Inv, Tasks
<1>2. \A v \in Thread \ {w} : ThreadHolds(v)' = ThreadHolds(v)
  BY DEF QueueUpload, ThreadHolds, Inv, Shared
<1>3. task[t].pc = "queue" /\ thread[w].st = "idle" /\ UNCHANGED locked
  BY DEF QueueUpload
<1>4. task'[t].pc \in {"loop", "evict_lock", "deref"}
  BY UploadReturnsHolds DEF QueueUpload, Inv, Tasks, TaskState
<1>5. thread'[w].st = "write" /\ thread'[w].el = task[t].el /\ thread'[w].obj = task[t].obj
  BY DEF QueueUpload, Inv, Shared
<1>6. ThreadHolds(w) = {} /\ TaskHolds(t)' = {}
  BY <1>3, <1>4 DEF TaskHolds, ThreadHolds
<1>7. ThreadHolds(w)' = TaskHolds(t)
  BY <1>3, <1>5 DEF TaskHolds, ThreadHolds, BlockOf
<1> QED  BY <1>1, <1>2, <1>3, <1>6, <1>7, HandedOver

-----------------------------------------------------------------------------
(* The other steps and the specification.                                  *)

\* Upload threads release what they were given.
LEMMA ThreadLocks ==
  ASSUME Inv, LockOwnership, NEW w \in Thread, ThreadStep(w)
  PROVE  LockOwnership'
<1>1. ASSUME WriteObject(w) \/ WriteFails(w) \/ FinishUpload(w)  PROVE LockOwnership'
  <2>1. UNCHANGED <<locked, task>>
    BY <1>1 DEF WriteObject, WriteFails, FinishUpload
  <2>2. \A v \in Thread : ThreadHolds(v)' = ThreadHolds(v)
    BY <1>1 DEF WriteObject, WriteFails, FinishUpload, ThreadHolds, BlockOf, Inv, Shared, UploadState
  <2>3. \A t \in Task : TaskHolds(t)' = TaskHolds(t)
    BY <2>1 DEF TaskHolds
  <2> QED  BY <2>1, <2>2, <2>3, QuietLocks
<1>2. ASSUME UnlockObject(w)  PROVE LockOwnership'
  <2>1. PICK k : k = thread[w].obj
    OBVIOUS
  <2>2. /\ thread[w].st = "unlock" /\ thread'[w].st = "unlock_block"
        /\ thread'[w].el = thread[w].el /\ locked' = locked \ {k}
        /\ k \in ObjId /\ BlockOf(thread[w].el) \in Block
    BY <1>2, <2>1, BlockOfEntry DEF UnlockObject, Inv, Shared, ThreadShape, UploadState
  <2>3. k # BlockOf(thread[w].el)
    BY <2>2, BlockCacheAssumption
  <2>4. k \in ThreadHolds(w) /\ ThreadHolds(w)' = ThreadHolds(w) \ {k}
    BY <2>1, <2>2, <2>3 DEF ThreadHolds, BlockOf
  <2>5. \A v \in Thread \ {w} : ThreadHolds(v)' = ThreadHolds(v)
    BY <1>2 DEF UnlockObject, ThreadHolds, Inv, Shared
  <2>6. \A t \in Task : TaskHolds(t)' = TaskHolds(t)
    BY <1>2 DEF UnlockObject, TaskHolds
  <2> QED  BY <2>2, <2>4, <2>5, <2>6, ThreadReleases
<1>3. ASSUME UnlockBlock(w)  PROVE LockOwnership'
  <2>1. PICK k : k = BlockOf(thread[w].el)
    OBVIOUS
  <2>2. /\ thread[w].st = "unlock_block" /\ thread'[w].st \in {"idle", "dead"}
        /\ locked' = locked \ {k}
    BY <1>3, <2>1 DEF UnlockBlock, IdleThread, Inv, Shared
  <2>3. ThreadHolds(w) = {k} /\ ThreadHolds(w)' = {}
    BY <2>1, <2>2 DEF ThreadHolds
  <2>4. \A v \in Thread \ {w} : ThreadHolds(v)' = ThreadHolds(v)
    BY <1>3 DEF UnlockBlock, ThreadHolds, Inv, Shared
  <2>5. \A t \in Task : TaskHolds(t)' = TaskHolds(t)
    BY <1>3 DEF UnlockBlock, TaskHolds, Inv, Tasks, TaskState
  <2> QED  BY <2>2, <2>3, <2>4, <2>5, ThreadReleases
<1> QED  BY <1>1, <1>2, <1>3 DEF ThreadStep

\* Steps that leave locks, tasks and threads alone.
LEMMA OtherLocks ==
  ASSUME LockOwnership, UNCHANGED <<locked, task, thread>>
  PROVE  LockOwnership'
BY QuietLocks DEF TaskHolds, ThreadHolds

\* Every step of a task.
LEMMA TaskLocks ==
  ASSUME Inv, LockOwnership, NEW t \in Task, TaskStep(t)
  PROVE  LockOwnership'
BY QuietTaskLocks, LockingTask, UnlockingTask, QueueLocks DEF TaskStep

\* Nothing is locked at first.
LEMMA InitLocks == Init => LockOwnership
<1> SUFFICES ASSUME Init  PROVE  LockOwnership
  OBVIOUS
<1>1. \A t \in Task : TaskHolds(t) = {}
  BY DEF Init, TaskHolds, IdleTask
<1>2. \A w \in Thread : ThreadHolds(w) = {}
  BY DEF Init, ThreadHolds, IdleThread
<1> QED  BY <1>1, <1>2 DEF Init, LockOwnership

\* Every step of the system.
LEMMA NextLocks == Inv /\ LockOwnership /\ [Next]_vars => LockOwnership'
<1> SUFFICES ASSUME Inv, LockOwnership, [Next]_vars  PROVE  LockOwnership'
  OBVIOUS
<1>1. CASE UNCHANGED vars
  BY <1>1, OtherLocks DEF vars
<1>2. ASSUME NEW r \in Remover, RemoverStep(r)  PROVE LockOwnership'
  BY <1>2, OtherLocks DEF RemoverStep, RemovalTake, RemovalDelete
<1>3. ASSUME NEW i \in Inode, KernelStep(i)  PROVE LockOwnership'
  BY <1>3, OtherLocks DEF KernelStep, Forget, Lookup
<1> QED  BY <1>1, <1>2, <1>3, CallLocks, TaskLocks, ThreadLocks DEF Next, Step

(***************************************************************************)
(* Lock discipline of block_cache.py, for every number of tasks, threads,  *)
(* files and blocks and whatever uploads fail: a block or object is locked *)
(* exactly while one task or one upload thread is responsible for          *)
(* releasing it, although upload_if_dirty takes the locks in one task and  *)
(* _do_upload releases them in another thread.                             *)
(***************************************************************************)
THEOREM LocksOwned == Spec => []LockOwnership
<1>1. Spec => []Inv
  BY InitInv, NextInv, PTL DEF Spec
<1> QED  BY <1>1, InitLocks, NextLocks, PTL DEF Spec

-----------------------------------------------------------------------------
(* What the locks protect.                                                 *)

\* The entries in transit are those being hashed, queued or written, and an
\* entry stays cached until its upload has been recorded.
Uploads ==
    /\ in_transit = {task[t].el : t \in {u \in Task : task[u].pc \in {"hash", "queue"}}}
                    \cup {thread[w].el : w \in {v \in Thread : thread[v].st = "write"}}
    /\ \A t \in Task : task[t].pc \in {"hash", "queue"} => IsCached(task[t].el)
    /\ \A w \in Thread : thread[w].st \in {"write", "finish"} => IsCached(thread[w].el)

\* Nobody has anything to do with block b.
Unused(b) ==
    /\ cache[b] = None /\ inode_blocks[b] = None /\ b \notin locked
    /\ \A u \in Task :
          /\ task[u].op \in {"read", "write"} => task[u].arg # b
          /\ task[u].op = "remove" => b \notin task[u].todo
          /\ \A g \in Gen :
                /\ task[u].el # <<b, g>>
                /\ task[u].op # "remove" => <<b, g>> \notin task[u].todo

\* The new file of a copy is nobody else's business until its blocks are linked.
Copies ==
    \A t \in Task : task[t].op = "copy" =>
        /\ task[t].arg # task[t].dst
        /\ \A b \in Block : b[1] = task[t].dst => Unused(b)
        /\ \A u \in Task \ {t} : task[u].dst # task[t].dst

-----------------------------------------------------------------------------
(* What a step of a task leaves alone.                                     *)

\* The suspension points at which a task holds no lock.
Outside == {"idle", "get_lock", "pass", "loop", "wait", "up_lock", "deref", "deref_lock",
            "evict_lock", "remove"}

\* A step of task t between two suspension points at which it holds no lock.
Between(t) == /\ task[t].pc \in Outside
              /\ task'[t].pc \in Outside
              /\ UNCHANGED <<in_transit, locked, thread>>

\* A task changes nobody else's local state.
LEMMA OthersStay ==
  ASSUME Inv, NEW t \in Task, Call(t) \/ TaskStep(t)
  PROVE  \A u \in Task \ {t} : task'[u] = task[u]
<1> DEFINE Same == \A u \in Task \ {t} : task'[u] = task[u]
<1> USE DEF Inv, Tasks
<1>1. ASSUME Call(t)  PROVE Same
  BY <1>1 DEF Call, GetCall, FlushCall, CommitCall, DropCall, CopyCall, RemoveCall
<1>2. ASSUME GetCached(t) \/ GetNew(t) \/ GetMiss(t) \/ GetWait(t) \/ Download(t)
             \/ DownloadMissing(t)
      PROVE Same
  BY <1>2 DEF GetCached, GetNew, GetMiss, GetWait, Download, DownloadMissing, Use
<1>3. ASSUME BeginPass(t) \/ ExpireDone(t) \/ PassEnd(t) \/ CommitBreak(t)
             \/ (\E e \in task[t].todo : LoopNext(t, e)) \/ WaitNothing(t) \/ Evict(t)
      PROVE Same
  BY <1>3 DEF BeginPass, ExpireDone, PassEnd, CommitBreak, LoopNext, WaitNothing, Evict
<1>4. ASSUME UploadSkip(t) \/ UploadStart(t) \/ RegisterNew(t) \/ RegisterDup(t)
             \/ (\E w \in Thread : QueueUpload(t, w)) \/ QueueFails(t)
             \/ FailReleaseBlock(t) \/ FailReleaseObj(t)
      PROVE Same
  BY <1>4 DEF UploadSkip, UploadStart, RegisterNew, RegisterDup, QueueUpload, QueueFails,
              FailReleaseBlock, FailReleaseObj
<1>5. ASSUME DerefShared(t) \/ DerefLast(t) \/ DerefRemove(t)
             \/ (\E b \in task[t].todo : RemoveBlock(t, b)) \/ RemoveDone(t) \/ CopyRows(t)
      PROVE Same
  BY <1>5 DEF DerefShared, DerefLast, DerefRemove, RemoveBlock, RemoveDone, CopyRows
<1>6. Same
  <2> HIDE DEF Same
  <2> QED  BY <1>1, <1>2, <1>3, <1>4, <1>5 DEF TaskStep
<1> QED  BY <1>6

\* The steps that end or begin where a task holds a lock.
LEMMA Crossings ==
  ASSUME Inv, NEW t \in Task, Call(t) \/ TaskStep(t)
  PROVE  \/ Between(t)
         \/ GetMiss(t) \/ GetWait(t) \/ Download(t) \/ DownloadMissing(t)
         \/ UploadStart(t) \/ RegisterNew(t) \/ RegisterDup(t)
         \/ \E w \in Thread : QueueUpload(t, w)
         \/ QueueFails(t) \/ FailReleaseBlock(t) \/ FailReleaseObj(t)
<1> USE DEF Between, Outside, Inv, Tasks, TaskState
<1>1. ASSUME Call(t)  PROVE Between(t)
  <2>1. ASSUME NEW op, NEW b, GetCall(t, op, b)  PROVE Between(t)
    BY <2>1 DEF GetCall
  <2>2. ASSUME FlushCall(t) \/ CommitCall(t) \/ DropCall(t)  PROVE Between(t)
    BY <2>2 DEF FlushCall, CommitCall, DropCall
  <2>3. ASSUME NEW i, NEW j, CopyCall(t, i, j)  PROVE Between(t)
    BY <2>3 DEF CopyCall
  <2>4. ASSUME NEW i, NEW N, RemoveCall(t, i, N)  PROVE Between(t)
    BY <2>4 DEF RemoveCall
  <2> HIDE DEF Between
  <2> QED  BY <1>1, <2>1, <2>2, <2>3, <2>4 DEF Call
<1>2. ASSUME GetCached(t) \/ GetNew(t) \/ Evict(t) \/ CommitBreak(t) \/ RemoveDone(t)
             \/ CopyRows(t)
      PROVE Between(t)
  BY <1>2 DEF GetCached, GetNew, Use, Evict, CommitBreak, RemoveDone, CopyRows, IdleTask
<1>3. ASSUME BeginPass(t) \/ ExpireDone(t) \/ PassEnd(t) \/ WaitNothing(t)
      PROVE Between(t)
  <2>1. ASSUME BeginPass(t) \/ WaitNothing(t)  PROVE Between(t)
    BY <2>1 DEF BeginPass, WaitNothing
  <2>2. ASSUME ExpireDone(t)  PROVE Between(t)
    BY <2>2 DEF ExpireDone, IdleTask
  <2>3. ASSUME PassEnd(t)  PROVE Between(t)
    BY <2>3 DEF PassEnd, IdleTask
  <2> QED  BY <1>3, <2>1, <2>2, <2>3
<1>4. ASSUME NEW e, LoopNext(t, e)  PROVE Between(t)
  BY <1>4 DEF LoopNext
<1>5. ASSUME UploadSkip(t) \/ DerefShared(t) \/ DerefRemove(t)  PROVE Between(t)
  BY <1>5, UploadReturnsHolds, DerefReturnsHolds DEF UploadSkip, DerefShared, DerefRemove
<1>6. ASSUME DerefLast(t)  PROVE Between(t)
  BY <1>6 DEF DerefLast
<1>7. ASSUME NEW b, RemoveBlock(t, b)  PROVE Between(t)
  BY <1>7 DEF RemoveBlock
<1> QED
  <2> HIDE DEF Between
  <2> QED  BY <1>1, <1>2, <1>3, <1>4, <1>5, <1>6, <1>7 DEF TaskStep

\* Who has a block in hand.
LEMMA UserOf ==
  ASSUME Inv, NEW t \in Task
  PROVE  /\ task[t].pc \in {"get_lock", "get_wait", "download"} => task[t].arg \in Block
         /\ task[t].pc \in {"up_lock", "hash", "queue", "fail_block", "evict_lock"} =>
               task[t].el \in CacheEntry /\ BlockOf(task[t].el) \in Block
BY BlockOfEntry DEF Inv, Tasks, TaskShape

\* A new CacheEntry object has a name.
LEMMA FreshGen ==
  \A b : FreshGens(b) # {} => (CHOOSE g \in FreshGens(b) : TRUE) \in Gen
BY DEF FreshGens

\* CacheDict.remove of another block.
LEMMA UncacheOther ==
  ASSUME Inv, NEW b \in Block, NEW c \in Block, b # c, cache[c] # None, Uncache(c)
  PROVE  cache'[b] = cache[b] /\ \A e \in CacheEntry : BlockOf(e) = b => data'[e] = data[e]
BY DEF Uncache, BlockOf, Inv, Shared

\* The use of another block's entry.
LEMMA UseOther ==
  ASSUME Inv, NEW t \in Task, NEW b \in Block, NEW x \in CacheEntry, NEW d, BlockOf(x) # b,
         Use(t, x, d)
  PROVE  cache'[b] = cache[b] /\ \A e \in CacheEntry : BlockOf(e) = b => data'[e] = data[e]
BY DEF Use, Inv, Shared

\* The steps that change the cache.
LEMMA EntrySteps ==
  ASSUME NEW t \in Task, Call(t) \/ TaskStep(t)
  PROVE  \/ UNCHANGED entries
         \/ GetCached(t) \/ GetNew(t) \/ Download(t) \/ Evict(t) \/ RegisterDup(t)
         \/ \E b \in task[t].todo : RemoveBlock(t, b)
<1>1. ASSUME Call(t)  PROVE UNCHANGED entries
  BY <1>1 DEF Call, GetCall, FlushCall, CommitCall, DropCall, CopyCall, RemoveCall
<1>2. ASSUME GetMiss(t) \/ GetWait(t) \/ DownloadMissing(t) \/ BeginPass(t) \/ ExpireDone(t)
             \/ PassEnd(t) \/ CommitBreak(t) \/ (\E e \in task[t].todo : LoopNext(t, e))
             \/ WaitNothing(t)
      PROVE UNCHANGED entries
  BY <1>2 DEF GetMiss, GetWait, DownloadMissing, BeginPass, ExpireDone, PassEnd, CommitBreak,
              LoopNext, WaitNothing
<1>3. ASSUME UploadSkip(t) \/ UploadStart(t) \/ RegisterNew(t)
             \/ (\E w \in Thread : QueueUpload(t, w)) \/ QueueFails(t)
             \/ FailReleaseBlock(t) \/ FailReleaseObj(t) \/ DerefShared(t) \/ DerefLast(t)
             \/ DerefRemove(t) \/ RemoveDone(t) \/ CopyRows(t)
      PROVE UNCHANGED entries
  BY <1>3 DEF UploadSkip, UploadStart, RegisterNew, QueueUpload, QueueFails,
              FailReleaseBlock, FailReleaseObj, DerefShared, DerefLast, DerefRemove, RemoveDone,
              CopyRows
<1> QED  BY <1>1, <1>2, <1>3 DEF TaskStep

\* The steps that change the tables.
LEMMA TableSteps ==
  ASSUME NEW t \in Task, Call(t) \/ TaskStep(t)
  PROVE  \/ UNCHANGED database
         \/ RegisterNew(t) \/ RegisterDup(t) \/ DerefShared(t) \/ DerefLast(t) \/ CopyRows(t)
         \/ \E b \in task[t].todo : RemoveBlock(t, b)
<1>1. ASSUME Call(t)  PROVE UNCHANGED database
  BY <1>1 DEF Call, GetCall, FlushCall, CommitCall, DropCall, CopyCall, RemoveCall
<1>2. ASSUME GetCached(t) \/ GetNew(t) \/ GetMiss(t) \/ GetWait(t) \/ Download(t)
             \/ DownloadMissing(t) \/ BeginPass(t) \/ ExpireDone(t)
             \/ PassEnd(t) \/ CommitBreak(t) \/ (\E e \in task[t].todo : LoopNext(t, e))
             \/ WaitNothing(t) \/ Evict(t)
      PROVE UNCHANGED database
  BY <1>2 DEF GetCached, GetNew, GetMiss, GetWait, Download, DownloadMissing, BeginPass,
              ExpireDone, PassEnd, CommitBreak, LoopNext, WaitNothing, Evict
<1>3. ASSUME UploadSkip(t) \/ UploadStart(t)
             \/ (\E w \in Thread : QueueUpload(t, w)) \/ QueueFails(t)
             \/ FailReleaseBlock(t) \/ FailReleaseObj(t) \/ DerefRemove(t) \/ RemoveDone(t)
      PROVE UNCHANGED database
  BY <1>3 DEF UploadSkip, UploadStart, QueueUpload, QueueFails, FailReleaseBlock,
              FailReleaseObj, DerefRemove, RemoveDone
<1> QED  BY <1>1, <1>2, <1>3 DEF TaskStep

\* get() uses an entry of the block it was called for, which is locked only if
\* it was downloaded.
LEMMA UsesOwn ==
  ASSUME Inv, NEW t \in Task, GetCached(t) \/ GetNew(t) \/ Download(t)
  PROVE  /\ task[t].arg \in Block
         /\ task[t].pc = "download" \/ task[t].arg \notin locked
         /\ \E x \in CacheEntry, d \in Data : BlockOf(x) = task[t].arg /\ Use(t, x, d)
<1>1. /\ task[t].arg \in Block
      /\ task[t].pc = "download" \/ task[t].arg \notin locked
  BY UserOf DEF GetCached, GetNew, Download
<1>2. ASSUME GetCached(t)
      PROVE  \E x \in CacheEntry, d \in Data : BlockOf(x) = task[t].arg /\ Use(t, x, d)
  <2>1. PICK x : x = cache[task[t].arg]
    OBVIOUS
  <2>2. x # None /\ Use(t, x, data[x])
    BY <1>2, <2>1 DEF GetCached
  <2>3. x \in CacheEntry /\ BlockOf(x) = task[t].arg
    BY <1>1, <2>1, <2>2 DEF Inv, Shared, BlockOf
  <2>4. data[x] \in Data
    BY <2>3 DEF Inv, Shared
  <2> QED  BY <2>2, <2>3, <2>4
<1>3. ASSUME GetNew(t) \/ Download(t)
      PROVE  \E x \in CacheEntry, d \in Data : BlockOf(x) = task[t].arg /\ Use(t, x, d)
  <2>1. PICK g \in Gen, d \in Data : Use(t, <<task[t].arg, g>>, d)
    <3>1. CASE GetNew(t)
      BY <3>1, FreshGen, BlockCacheAssumption DEF GetNew
    <3>2. CASE Download(t)
      BY <3>2, FreshGen DEF Download, Inv, Shared
    <3> QED  BY <1>3, <3>1, <3>2
  <2>2. <<task[t].arg, g>> \in CacheEntry /\ BlockOf(<<task[t].arg, g>>) = task[t].arg
    BY <1>1 DEF CacheEntry, BlockOf
  <2> QED  BY <2>1, <2>2
<1> QED  BY <1>1, <1>2, <1>3

\* expire and remove take out entries of free blocks.
LEMMA UncachesFree ==
  ASSUME Inv, NEW t \in Task, Evict(t) \/ \E b \in task[t].todo : RemoveBlock(t, b)
  PROVE  \/ UNCHANGED entries
         \/ \E c \in Block \ locked : cache[c] # None /\ Uncache(c)
<1>1. ASSUME Evict(t), ~ UNCHANGED entries
      PROVE  \E c \in Block \ locked : cache[c] # None /\ Uncache(c)
  <2>1. /\ BlockOf(task[t].el) \in Block \ locked
        /\ task[t].el \in CacheEntry
        /\ IsCached(task[t].el) /\ Uncache(BlockOf(task[t].el))
    BY <1>1, UserOf DEF Evict
  <2>2. cache[BlockOf(task[t].el)] # None
    BY <2>1, BlockCacheAssumption DEF IsCached
  <2> QED  BY <2>1, <2>2
<1>2. ASSUME NEW c \in task[t].todo, RemoveBlock(t, c), ~ UNCHANGED entries
      PROVE  c \in Block \ locked /\ cache[c] # None /\ Uncache(c)
  BY <1>2 DEF RemoveBlock, Inv, Tasks, TaskShape
<1> QED  BY <1>1, <1>2

\* The entry of a locked block, and its content, are left alone by everybody
\* but the task that is downloading it.
LEMMA EntryKept ==
  ASSUME Inv, NEW t \in Task, Call(t) \/ TaskStep(t), NEW b \in Block, b \in locked,
         ~(task[t].pc = "download" /\ task[t].arg = b)
  PROVE  cache'[b] = cache[b] /\ \A e \in CacheEntry : BlockOf(e) = b => data'[e] = data[e]
<1>1. CASE GetCached(t) \/ GetNew(t) \/ Download(t)
  BY <1>1, UsesOwn, UseOther
<1>2. CASE Evict(t) \/ \E c \in task[t].todo : RemoveBlock(t, c)
  BY <1>2, UncachesFree, UncacheOther DEF entries
<1>3. CASE UNCHANGED entries \/ RegisterDup(t)
  BY <1>3 DEF entries, RegisterDup
<1> QED  BY <1>1, <1>2, <1>3, EntrySteps

\* So is its link, by everybody but the task that is hashing it.
LEMMA LinkKept ==
  ASSUME Inv, Copies, NEW t \in Task, Call(t) \/ TaskStep(t), NEW b \in Block, b \in locked,
         ~(task[t].pc = "hash" /\ BlockOf(task[t].el) = b)
  PROVE  inode_blocks'[b] = inode_blocks[b]
<1>1. CASE RegisterNew(t) \/ RegisterDup(t)
  BY <1>1 DEF RegisterNew, RegisterDup, database, Inv, Shared
<1>2. CASE \E c \in task[t].todo : RemoveBlock(t, c)
  BY <1>2 DEF RemoveBlock, Inv, Shared
<1>3. CASE CopyRows(t)
  <2>1. b[1] # task[t].dst
    BY <1>3 DEF CopyRows, Copies, Unused
  <2> QED  BY <1>3, <2>1 DEF CopyRows
<1>4. CASE UNCHANGED database \/ DerefShared(t) \/ DerefLast(t)
  BY <1>4 DEF database, DerefShared, DerefLast
<1> QED  BY <1>1, <1>2, <1>3, <1>4, TableSteps

-----------------------------------------------------------------------------
(* The new file of a copy.                                                 *)

\* A task goes on with its operation or ends it; it works on what it has at
\* hand or finds in the cache.
Follows(t) ==
    /\ \/ task'[t] = IdleTask
       \/ /\ task'[t].op = task[t].op
          /\ task'[t].arg = task[t].arg
          /\ task'[t].dst = task[t].dst
    /\ task'[t].todo \subseteq
          IF task[t].op = "remove" THEN task[t].todo ELSE task[t].todo \cup CachedEntries
    /\ task'[t].el \in
          IF task[t].op = "remove" THEN {task[t].el, None} ELSE {task[t].el, None} \cup task[t].todo

\* upload_if_dirty and _deref_obj return to their callers.
LEMMA ReturnFields ==
  ASSUME Inv, NEW t \in Task
  PROVE  \A r \in {UploadReturns(t, TRUE), UploadReturns(t, FALSE), DerefReturns(t)} :
            /\ r.op = task[t].op /\ r.arg = task[t].arg /\ r.dst = task[t].dst
            /\ r.todo = task[t].todo
            /\ r.el \in {task[t].el, None}
<1>1. \A x \in BOOLEAN :
         LET r == UploadReturns(t, x)
         IN  /\ r.op = task[t].op /\ r.arg = task[t].arg /\ r.dst = task[t].dst
             /\ r.todo = task[t].todo
             /\ r.el \in {task[t].el, None}
  BY DEF UploadReturns, Inv, Tasks, TaskState
<1> QED  BY <1>1 DEF DerefReturns, Inv, Tasks, TaskState

\* Every step of a task.
LEMMA TaskFollows ==
  ASSUME Inv, NEW t \in Task, TaskStep(t)
  PROVE  Follows(t)
<1> USE DEF Follows, Inv, Tasks, TaskShape
<1>1. ASSUME GetCached(t) \/ GetNew(t) \/ Download(t) \/ DownloadMissing(t) \/ CommitBreak(t)
             \/ FailReleaseObj(t) \/ RemoveDone(t) \/ CopyRows(t)
      PROVE Follows(t)
  <2>1. task'[t] = IdleTask
    BY <1>1 DEF GetCached, GetNew, Download, Use, DownloadMissing, CommitBreak,
                FailReleaseObj, RemoveDone, CopyRows
  <2> QED  BY <2>1 DEF IdleTask
<1>2. ASSUME GetMiss(t) \/ GetWait(t) \/ BeginPass(t) \/ WaitNothing(t)  PROVE Follows(t)
  BY <1>2 DEF GetMiss, GetWait, BeginPass, WaitNothing, TaskState
<1>3. ASSUME ExpireDone(t)  PROVE Follows(t)
  BY <1>3 DEF ExpireDone, IdleTask, TaskState
<1>4. ASSUME PassEnd(t)  PROVE Follows(t)
  BY <1>4 DEF PassEnd, IdleTask, TaskState
<1>5. ASSUME NEW e \in task[t].todo, LoopNext(t, e)  PROVE Follows(t)
  BY <1>5 DEF LoopNext, TaskState
<1>6. ASSUME Evict(t) \/ UploadStart(t) \/ QueueFails(t) \/ FailReleaseBlock(t)  PROVE Follows(t)
  BY <1>6 DEF Evict, UploadStart, QueueFails, FailReleaseBlock, TaskState
<1>7. ASSUME UploadSkip(t) \/ DerefShared(t) \/ DerefRemove(t)  PROVE Follows(t)
  <2>1. task'[t] \in {UploadReturns(t, FALSE), DerefReturns(t)}
    BY <1>7 DEF UploadSkip, DerefShared, DerefRemove
  <2> QED  BY <2>1, ReturnFields
<1>8. ASSUME RegisterNew(t)  PROVE Follows(t)
  <2>1. \E o, x : task' = [task EXCEPT ![t].pc = "queue", ![t].obj = o, ![t].old = x]
    BY <1>8 DEF RegisterNew
  <2> QED  BY <2>1 DEF TaskState
<1>9. ASSUME RegisterDup(t)  PROVE Follows(t)
  <2>1. \/ task'[t] = UploadReturns(t, FALSE)
        \/ \E o : task'[t] = [task[t] EXCEPT !.pc = "deref", !.old = o]
    BY <1>9 DEF RegisterDup
  <2>2. ASSUME NEW o, task'[t] = [task[t] EXCEPT !.pc = "deref", !.old = o]  PROVE Follows(t)
    BY <2>2 DEF TaskState
  <2> QED  BY <2>1, <2>2, ReturnFields
<1>10. ASSUME NEW w \in Thread, QueueUpload(t, w)  PROVE Follows(t)
  <2>1. \/ task'[t] = UploadReturns(t, TRUE)
        \/ task'[t] = [task[t] EXCEPT !.pc = "deref"]
    BY <1>10 DEF QueueUpload
  <2>2. ASSUME task'[t] = [task[t] EXCEPT !.pc = "deref"]  PROVE Follows(t)
    BY <2>2 DEF TaskState
  <2> QED  BY <2>1, <2>2, ReturnFields
<1>11. ASSUME DerefLast(t)  PROVE Follows(t)
  BY <1>11 DEF DerefLast, TaskState
<1>12. ASSUME NEW b \in task[t].todo, RemoveBlock(t, b)  PROVE Follows(t)
  BY <1>12 DEF RemoveBlock, TaskState
<1> QED
  <2> HIDE DEF Follows, Inv, Tasks, TaskShape
  <2> QED  BY <1>1, <1>2, <1>3, <1>4, <1>5, <1>6, <1>7, <1>8, <1>9, <1>10, <1>11, <1>12
           DEF TaskStep

\* A block that is not cached has no cached entry.
LEMMA NotCached ==
  ASSUME Inv, NEW b \in Block, cache[b] = None
  PROVE  \A g \in Gen : <<b, g>> \notin CachedEntries
<1>1. \A e \in CachedEntries : e[1] # b
  BY DEF CachedEntries, Inv, Shared
<1> QED  BY <1>1

\* A block of a file that nobody sees stays unused.
LEMMA TaskUnused ==
  ASSUME Inv, NEW t \in Task, TaskStep(t), NEW b \in Block, Unused(b),
         CopyRows(t) => task[t].dst # b[1]
  PROVE  Unused(b)'
<1>1. \A g \in Gen : <<b, g>> \in CacheEntry /\ <<b, g>> \notin CachedEntries /\ <<b, g>> # None
  BY NotCached, BlockCacheAssumption DEF CacheEntry, Unused
<1>2. \A u \in Task :
          /\ task'[u].op \in {"read", "write"} => task'[u].arg # b
          /\ task'[u].op = "remove" => b \notin task'[u].todo
          /\ \A g \in Gen :
                /\ task'[u].el # <<b, g>>
                /\ task'[u].op # "remove" => <<b, g>> \notin task'[u].todo
  <2> SUFFICES ASSUME NEW u \in Task
               PROVE  /\ task'[u].op \in {"read", "write"} => task'[u].arg # b
                      /\ task'[u].op = "remove" => b \notin task'[u].todo
                      /\ \A g \in Gen :
                            /\ task'[u].el # <<b, g>>
                            /\ task'[u].op # "remove" => <<b, g>> \notin task'[u].todo
    OBVIOUS
  <2>1. CASE u = t
    <3>1. Follows(t)
      BY TaskFollows
    <3>2. CASE task'[t] = IdleTask
      <4>1. task'[t].op = None /\ task'[t].el = None /\ task'[t].todo = {}
        BY <3>2 DEF IdleTask
      <4>2. None \notin {"read", "write", "remove"}
        BY BlockCacheAssumption DEF OpNames
      <4> QED  BY <1>1, <2>1, <4>1, <4>2
    <3>3. CASE task'[t].op = task[t].op /\ task'[t].arg = task[t].arg
      BY <1>1, <2>1, <3>1, <3>3 DEF Follows, Unused
    <3> QED  BY <3>1, <3>2, <3>3 DEF Follows
  <2>2. CASE u # t
    BY <2>2, OthersStay DEF Unused
  <2> QED  BY <2>1, <2>2
<1>3. b \notin locked'
  <2>1. CASE Between(t)
    BY <2>1 DEF Between, Unused
  <2>2. CASE GetMiss(t)
    <3>1. task[t].op \in {"read", "write"}
      BY <2>2 DEF GetMiss, Inv, Tasks, TaskShape
    <3> QED  BY <2>2, <3>1 DEF GetMiss, Unused
  <2>3. CASE UploadStart(t)
    <3>1. PICK c \in Block, g \in Gen : task[t].el = <<c, g>>
      BY <2>3, UserOf DEF UploadStart, CacheEntry
    <3> QED  BY <2>3, <3>1 DEF UploadStart, Unused, BlockOf
  <2>4. CASE RegisterNew(t)
    <3>1. PICK o \in ObjId : locked' = locked \cup {o}
      BY <2>4 DEF RegisterNew, FreshIds
    <3> QED  BY <3>1, BlockCacheAssumption DEF Unused
  <2>5. CASE GetWait(t) \/ Download(t) \/ DownloadMissing(t) \/ RegisterDup(t)
             \/ (\E w \in Thread : QueueUpload(t, w))
             \/ QueueFails(t) \/ FailReleaseBlock(t) \/ FailReleaseObj(t)
    BY <2>5 DEF GetWait, Download, DownloadMissing, RegisterDup, QueueUpload, QueueFails,
                FailReleaseBlock, FailReleaseObj, Unused
  <2> QED  BY Crossings, <2>1, <2>2, <2>3, <2>4, <2>5
<1>4. cache'[b] = None
  <2>1. cache \in [Block -> CacheEntry \cup {None}]
    BY DEF Inv, Shared
  <2>2. CASE GetCached(t) \/ GetNew(t) \/ Download(t)
    <3>1. task[t].op \in {"read", "write"}
      BY <2>2 DEF GetCached, GetNew, Download, Inv, Tasks, TaskShape
    <3>2. task[t].arg # b
      BY <3>1 DEF Unused
    <3> QED  BY <2>2, <3>2, UsesOwn, UseOther DEF Unused
  <2>3. CASE Evict(t) \/ \E c \in task[t].todo : RemoveBlock(t, c)
    BY <2>1, <2>3, UncachesFree DEF entries, Uncache, Unused
  <2>4. CASE UNCHANGED entries \/ RegisterDup(t)
    BY <2>4 DEF entries, RegisterDup, Unused
  <2> QED  BY <2>2, <2>3, <2>4, EntrySteps
<1>5. inode_blocks'[b] = None
  <2>1. inode_blocks \in [Block -> ObjId \cup {None}] /\ inode_blocks[b] = None
    BY DEF Inv, Shared, Unused
  <2>2. CASE RegisterNew(t) \/ RegisterDup(t)
    <3>1. task[t].pc = "hash"
      BY <2>2 DEF RegisterNew, RegisterDup
    <3>2. task[t].el \in CacheEntry /\ \A g \in Gen : task[t].el # <<b, g>>
      BY <3>1, UserOf DEF Unused
    <3>3. BlockOf(task[t].el) # b
      BY <3>2 DEF BlockOf, CacheEntry
    <3> QED  BY <2>1, <2>2, <3>3 DEF RegisterNew, RegisterDup, database
  <2>3. CASE \E c \in task[t].todo : RemoveBlock(t, c)
    BY <2>1, <2>3 DEF RemoveBlock
  <2>4. CASE CopyRows(t)
    BY <2>1, <2>4 DEF CopyRows
  <2>5. CASE UNCHANGED database \/ DerefShared(t) \/ DerefLast(t)
    BY <2>1, <2>5 DEF database, DerefShared, DerefLast
  <2> QED  BY <2>2, <2>3, <2>4, <2>5, TableSteps
<1> QED  BY <1>2, <1>3, <1>4, <1>5 DEF Unused

\* Nor does a request concern it.
LEMMA CallUnused ==
  ASSUME Inv, NEW t \in Task, Call(t), NEW b \in Block, Unused(b),
         \E u \in Task : task[u].dst = b[1]
  PROVE  Unused(b)'
<1>1. \A g \in Gen : <<b, g>> \in CacheEntry /\ <<b, g>> \notin CachedEntries
  BY NotCached DEF CacheEntry, Unused
<1>2. UNCHANGED <<cache, inode_blocks, locked>>
  BY DEF Call, GetCall, FlushCall, CommitCall, DropCall, CopyCall, RemoveCall, entries, database
<1> DEFINE Clear(u) ==
          /\ task'[u].op \in {"read", "write"} => task'[u].arg # b
          /\ task'[u].op = "remove" => b \notin task'[u].todo
          /\ \A g \in Gen :
                /\ task'[u].el # <<b, g>>
                /\ task'[u].op # "remove" => <<b, g>> \notin task'[u].todo
<1>3. \A u \in Task \ {t} : Clear(u)
  BY OthersStay DEF Unused
<1>4. \A g \in Gen : task[t].el # <<b, g>>
  BY DEF Unused
<1>5. task[t].pc = "idle" /\ task[t].todo = {}
  <2>1. task[t].pc = "idle"
    BY DEF Call, GetCall, FlushCall, CommitCall, DropCall, CopyCall, RemoveCall
  <2>2. task[t] = IdleTask
    BY <2>1 DEF Inv, Tasks, TaskShape
  <2> QED  BY <2>1, <2>2 DEF IdleTask
<1> USE DEF Inv, Tasks, TaskState
<1>6. ASSUME NEW op \in {"read", "write"}, NEW c \in Block, GetCall(t, op, c)  PROVE Clear(t)
  <2>1. c # b
    BY <1>6 DEF GetCall, Visible
  <2> QED  BY <1>4, <1>5, <1>6, <2>1 DEF GetCall
<1>7. ASSUME FlushCall(t) \/ CommitCall(t) \/ DropCall(t)  PROVE Clear(t)
  BY <1>1, <1>4, <1>5, <1>7 DEF FlushCall, CommitCall, DropCall
<1>8. ASSUME NEW i, NEW j, CopyCall(t, i, j)  PROVE Clear(t)
  BY <1>1, <1>4, <1>5, <1>8 DEF CopyCall
<1>9. ASSUME NEW i \in Inode, NEW N \in SUBSET BlockNo, RemoveCall(t, i, N)  PROVE Clear(t)
  <2>1. i # b[1]
    BY <1>9 DEF RemoveCall, Visible
  <2>2. b \notin {<<i, n>> : n \in N}
    BY <2>1
  <2> QED  BY <1>4, <1>5, <1>9, <2>2 DEF RemoveCall
<1>10. Clear(t)
  <2> HIDE DEF Clear, Inv, Tasks, TaskState
  <2> QED  BY <1>6, <1>7, <1>8, <1>9 DEF Call
<1> QED  BY <1>2, <1>3, <1>10 DEF Unused

\* The new file of a copy stays new while others work, and until the copy links
\* its blocks.
LEMMA TaskCopies ==
  ASSUME Inv, Copies, NEW t \in Task, TaskStep(t)
  PROVE  Copies'
<1> SUFFICES ASSUME NEW u \in Task, task'[u].op = "copy"
             PROVE  /\ task'[u].arg # task'[u].dst
                    /\ \A b \in Block : b[1] = task'[u].dst => Unused(b)'
                    /\ \A v \in Task \ {u} : task'[v].dst # task'[u].dst
  BY DEF Copies
<1>1. Follows(t) /\ \A v \in Task \ {t} : task'[v] = task[v]
  BY TaskFollows, OthersStay
<1>2. IdleTask.op # "copy" /\ IdleTask.dst = None /\ None \notin Inode
  BY BlockCacheAssumption DEF IdleTask, OpNames
<1>3. task[u].op = "copy" /\ task'[u].arg = task[u].arg /\ task'[u].dst = task[u].dst
  BY <1>1, <1>2 DEF Follows
<1>4. task[u].dst \in Inode
  BY <1>3 DEF Inv, Tasks, TaskShape
<1>5. \A v \in Task : task'[v].dst \in {task[v].dst, None}
  BY <1>1, <1>2 DEF Follows
<1>6. ASSUME NEW b \in Block, b[1] = task[u].dst  PROVE Unused(b)'
  <2>1. Unused(b)
    BY <1>3, <1>6 DEF Copies
  <2>2. CASE u # t
    <3>1. task[t].dst # b[1]
      BY <1>3, <1>6, <2>2 DEF Copies
    <3> QED  BY <2>1, <3>1, TaskUnused
  <2>3. CASE u = t
    <3>1. ~CopyRows(t)
      BY <1>2, <2>3 DEF CopyRows, Inv, Tasks
    <3> QED  BY <2>1, <3>1, TaskUnused
  <2> QED  BY <2>2, <2>3
<1> QED  BY <1>2, <1>3, <1>4, <1>5, <1>6 DEF Copies

\* A new copy starts with a file nobody uses; other requests do not see it.
LEMMA CallCopies ==
  ASSUME Inv, Copies, NEW t \in Task, Call(t)
  PROVE  Copies'
<1>1. \A v \in Task \ {t} : task'[v] = task[v]
  BY OthersStay
<1>2. ASSUME NEW u \in Task \ {t}, task[u].op = "copy", NEW b \in Block, b[1] = task[u].dst
      PROVE  Unused(b)'
  BY <1>2, CallUnused DEF Copies
<1>3. task[t] = IdleTask /\ IdleTask.dst = None /\ None \notin Inode
  <2>1. task[t].pc = "idle"
    BY DEF Call, GetCall, FlushCall, CommitCall, DropCall, CopyCall, RemoveCall
  <2> QED  BY <2>1, BlockCacheAssumption DEF Inv, Tasks, TaskShape, IdleTask
<1>4. CASE \E i, j \in Inode : CopyCall(t, i, j)
  <2>1. PICK i \in Inode, j \in Inode : CopyCall(t, i, j)
    BY <1>4
  <2>2. /\ task'[t].op = "copy" /\ task'[t].arg = i /\ task'[t].dst = j
        /\ i # j /\ NewInode(j)
    BY <2>1 DEF CopyCall, Inv, Tasks, TaskState
  <2>3. \A v \in Task \ {t} : task[v].dst # j
    BY <2>2 DEF NewInode
  <2>4. ASSUME NEW b \in Block, b[1] = j  PROVE Unused(b)'
    <3>1. /\ cache[b] = None /\ inode_blocks[b] = None /\ b \notin locked
          /\ b \in {j} \X BlockNo
      BY <2>2, <2>4 DEF NewInode, Block
    <3>2. \A u \in Task : /\ task[u].arg # b
                          /\ b \notin task[u].todo
                          /\ \A g \in Gen : /\ <<b, g>> \in ({j} \X BlockNo) \X Gen
                                            /\ task[u].el # <<b, g>>
                                            /\ <<b, g>> \notin task[u].todo
      BY <2>2, <3>1 DEF NewInode
    <3>3. UNCHANGED <<cache, inode_blocks, locked>> /\ task'[t].el = task[t].el
          /\ task'[t].todo \subseteq CachedEntries
      BY <2>1 DEF CopyCall, entries, database, Inv, Tasks, TaskState
    <3>4. \A g \in Gen : <<b, g>> \notin CachedEntries
      BY <3>1, NotCached
    <3> QED  BY <1>1, <2>2, <3>1, <3>2, <3>3, <3>4 DEF Unused
  <2> QED  BY <1>1, <1>2, <2>2, <2>3, <2>4 DEF Copies
<1>5. CASE ~ \E i, j \in Inode : CopyCall(t, i, j)
  <2>1. task'[t].op # "copy" /\ task'[t].dst = None
    <3>1. ASSUME NEW op \in {"read", "write"}, NEW b, GetCall(t, op, b)
          PROVE  task'[t].op # "copy" /\ task'[t].dst = task[t].dst
      BY <3>1 DEF GetCall, Inv, Tasks, TaskState
    <3>2. ASSUME FlushCall(t) \/ CommitCall(t) \/ DropCall(t)
          PROVE  task'[t].op # "copy" /\ task'[t].dst = task[t].dst
      BY <3>2 DEF FlushCall, CommitCall, DropCall, Inv, Tasks, TaskState
    <3>3. ASSUME NEW i, NEW N, RemoveCall(t, i, N)
          PROVE  task'[t].op # "copy" /\ task'[t].dst = task[t].dst
      BY <3>3 DEF RemoveCall, Inv, Tasks, TaskState
    <3> QED  BY <1>3, <1>5, <3>1, <3>2, <3>3 DEF Call
  <2>2. \A u \in Task \ {t} : task[u].op = "copy" => task[u].dst \in Inode
    BY DEF Inv, Tasks, TaskShape
  <2> QED  BY <1>1, <1>2, <1>3, <2>1, <2>2 DEF Copies
<1> QED  BY <1>4, <1>5

\* Nobody else touches the new file either.
LEMMA NextCopies == Inv /\ Copies /\ [Next]_vars => Copies'
<1> SUFFICES ASSUME Inv, Copies, [Next]_vars  PROVE Copies'
  OBVIOUS
<1>1. ASSUME locked' \subseteq locked, UNCHANGED <<cache, inode_blocks>>,
             \A u \in Task : task'[u] = task[u] \/ task'[u] = [task[u] EXCEPT !.pc = "pass"]
      PROVE  Copies'
  <2>1. \A u \in Task : /\ task'[u].op = task[u].op /\ task'[u].arg = task[u].arg
                        /\ task'[u].dst = task[u].dst /\ task'[u].el = task[u].el
                        /\ task'[u].todo = task[u].todo
    <3>1. ASSUME NEW u \in Task, task'[u] = [task[u] EXCEPT !.pc = "pass"]
          PROVE  /\ task'[u].op = task[u].op /\ task'[u].arg = task[u].arg
                 /\ task'[u].dst = task[u].dst /\ task'[u].el = task[u].el
                 /\ task'[u].todo = task[u].todo
      BY <3>1 DEF Inv, Tasks, TaskState
    <3> QED  BY <1>1, <3>1
  <2>2. \A b \in Block : Unused(b) => Unused(b)'
    BY <1>1, <2>1 DEF Unused
  <2> QED  BY <2>1, <2>2 DEF Copies
<1>2. CASE UNCHANGED vars
  BY <1>1, <1>2 DEF vars
<1>3. ASSUME NEW w \in Thread, ThreadStep(w)  PROVE Copies'
  <2>1. /\ locked' \subseteq locked /\ UNCHANGED <<cache, inode_blocks>>
        /\ \A u \in Task : task'[u] = task[u] \/ task'[u] = [task[u] EXCEPT !.pc = "pass"]
    <3>1. CASE UnlockBlock(w)
      BY <3>1 DEF UnlockBlock, entries, database
    <3>2. CASE WriteObject(w) \/ WriteFails(w) \/ FinishUpload(w) \/ UnlockObject(w)
      BY <3>2 DEF WriteObject, WriteFails, FinishUpload, UnlockObject, entries, database
    <3> QED  BY <1>3, <3>1, <3>2 DEF ThreadStep
  <2> QED  BY <1>1, <2>1
<1>4. ASSUME NEW r \in Remover, RemoverStep(r)  PROVE Copies'
  BY <1>1, <1>4 DEF RemoverStep, RemovalTake, RemovalDelete, entries, database
<1>5. ASSUME NEW i \in Inode, KernelStep(i)  PROVE Copies'
  BY <1>1, <1>5 DEF KernelStep, Forget, Lookup, entries, database
<1> QED  BY <1>2, <1>3, <1>4, <1>5, CallCopies, TaskCopies DEF Next, Step

-----------------------------------------------------------------------------
(* Entries in transit.                                                     *)

\* An upload has its block to itself.
LEMMA OneUpload ==
  ASSUME Inv, LockOwnership
  PROVE  /\ \A t \in Task : task[t].pc \in {"hash", "queue", "fail_block"} =>
               /\ BlockOf(task[t].el) \in locked
               /\ \A u \in Task \ {t} : BlockOf(task[t].el) \notin TaskHolds(u)
               /\ \A w \in Thread : BlockOf(task[t].el) \notin ThreadHolds(w)
         /\ \A w \in Thread : thread[w].st \in {"write", "finish", "unlock", "unlock_block"} =>
               /\ BlockOf(thread[w].el) \in locked
               /\ \A v \in Thread \ {w} : BlockOf(thread[w].el) \notin ThreadHolds(v)
               /\ \A t \in Task : BlockOf(thread[w].el) \notin TaskHolds(t)
<1>1. ASSUME NEW t \in Task, task[t].pc \in {"hash", "queue", "fail_block"}
      PROVE  /\ BlockOf(task[t].el) \in locked
             /\ \A u \in Task \ {t} : BlockOf(task[t].el) \notin TaskHolds(u)
             /\ \A w \in Thread : BlockOf(task[t].el) \notin ThreadHolds(w)
  <2>1. BlockOf(task[t].el) \in TaskHolds(t)
    BY <1>1 DEF TaskHolds
  <2> HIDE DEF TaskHolds, ThreadHolds
  <2> QED  BY <2>1 DEF LockOwnership
<1>2. ASSUME NEW w \in Thread, thread[w].st \in {"write", "finish", "unlock", "unlock_block"}
      PROVE  /\ BlockOf(thread[w].el) \in locked
             /\ \A v \in Thread \ {w} : BlockOf(thread[w].el) \notin ThreadHolds(v)
             /\ \A t \in Task : BlockOf(thread[w].el) \notin TaskHolds(t)
  <2>1. BlockOf(thread[w].el) \in ThreadHolds(w)
    BY <1>2 DEF ThreadHolds
  <2> QED  BY <2>1 DEF LockOwnership
<1> QED  BY <1>1, <1>2

\* What the others upload stays in the cache and keeps its content.
LEMMA OthersUpload ==
  ASSUME Inv, LockOwnership, NEW t \in Task, Call(t) \/ TaskStep(t), NEW e \in CacheEntry,
         \/ \E u \in Task \ {t} : task[u].pc \in {"hash", "queue", "fail_block"} /\ task[u].el = e
         \/ \E w \in Thread : /\ thread[w].st \in {"write", "finish", "unlock", "unlock_block"}
                              /\ thread[w].el = e
  PROVE  cache'[BlockOf(e)] = cache[BlockOf(e)] /\ data'[e] = data[e]
<1>1. BlockOf(e) \in Block /\ BlockOf(e) \in locked /\ BlockOf(e) \notin TaskHolds(t)
  BY OneUpload, BlockOfEntry
<1>2. ~(task[t].pc = "download" /\ task[t].arg = BlockOf(e))
  BY <1>1 DEF TaskHolds
<1> QED  BY <1>1, <1>2, EntryKept

\* So does what the task itself uploads.
LEMMA OwnUpload ==
  ASSUME Inv, LockOwnership, NEW t \in Task, Call(t) \/ TaskStep(t),
         task[t].pc \in {"hash", "queue", "fail_block"}
  PROVE  /\ cache'[BlockOf(task[t].el)] = cache[BlockOf(task[t].el)]
         /\ data'[task[t].el] = data[task[t].el]
BY OneUpload, UserOf, EntryKept

\* Where a task that has an entry in hand is after a step.
LEMMA Arrivals ==
  ASSUME Inv, NEW t \in Task, Call(t) \/ TaskStep(t)
  PROVE  /\ task'[t].pc = "hash" => UploadStart(t) /\ task'[t].el = task[t].el
         /\ task'[t].pc = "queue" => RegisterNew(t) /\ task'[t].el = task[t].el
         /\ task'[t].pc = "get_wait" => GetMiss(t)
         /\ task'[t].pc = "download" => GetWait(t)
<1> USE DEF Inv, Tasks, TaskState
<1>1. CASE Between(t)
  BY <1>1 DEF Between, Outside
<1>2. CASE GetMiss(t)
  BY <1>2 DEF GetMiss
<1>3. CASE GetWait(t)
  BY <1>3 DEF GetWait
<1>4. CASE Download(t) \/ DownloadMissing(t) \/ FailReleaseObj(t)
  BY <1>4 DEF Download, Use, DownloadMissing, FailReleaseObj, IdleTask
<1>5. CASE UploadStart(t)
  BY <1>5 DEF UploadStart
<1>6. CASE RegisterNew(t)
  <2>1. \E o, x : task' = [task EXCEPT ![t].pc = "queue", ![t].obj = o, ![t].old = x]
    BY <1>6 DEF RegisterNew
  <2> QED  BY <1>6, <2>1
<1>7. CASE RegisterDup(t)
  <2>1. \/ task'[t] = UploadReturns(t, FALSE)
        \/ \E o : task'[t] = [task[t] EXCEPT !.pc = "deref", !.old = o]
    BY <1>7 DEF RegisterDup
  <2>2. task'[t].pc \in {"loop", "evict_lock", "deref"}
    BY <2>1, UploadReturnsHolds
  <2> QED  BY <2>2
<1>8. CASE \E w \in Thread : QueueUpload(t, w)
  <2>1. \/ task'[t] = UploadReturns(t, TRUE)
        \/ task'[t] = [task[t] EXCEPT !.pc = "deref"]
    BY <1>8 DEF QueueUpload
  <2>2. task'[t].pc \in {"loop", "evict_lock", "deref"}
    BY <2>1, UploadReturnsHolds
  <2> QED  BY <2>2
<1>9. CASE QueueFails(t) \/ FailReleaseBlock(t)
  BY <1>9 DEF QueueFails, FailReleaseBlock
<1> QED
  <2> HIDE DEF Inv, Tasks, TaskState
  <2> QED  BY <1>1, <1>2, <1>3, <1>4, <1>5, <1>6, <1>7, <1>8, <1>9, Crossings

\* The steps that end the hashing or queueing of an entry, and those of threads.
LEMMA Departures ==
  ASSUME Inv, NEW t \in Task, Call(t) \/ TaskStep(t)
  PROVE  /\ task[t].pc = "hash" => RegisterNew(t) \/ RegisterDup(t)
         /\ task[t].pc = "queue" => QueueFails(t) \/ \E w \in Thread : QueueUpload(t, w)
         /\ thread' = thread \/ \E w \in Thread : QueueUpload(t, w)
         /\ in_transit' = in_transit \/ UploadStart(t) \/ RegisterDup(t) \/ QueueFails(t)
<1>1. CASE Between(t)
  BY <1>1 DEF Between, Outside
<1>2. CASE GetMiss(t) \/ GetWait(t) \/ Download(t) \/ DownloadMissing(t) \/ FailReleaseBlock(t)
           \/ FailReleaseObj(t)
  BY <1>2 DEF GetMiss, GetWait, Download, DownloadMissing, FailReleaseBlock, FailReleaseObj
<1>3. CASE UploadStart(t) \/ RegisterNew(t) \/ RegisterDup(t)
  BY <1>3 DEF UploadStart, RegisterNew, RegisterDup
<1>4. CASE QueueFails(t) \/ \E w \in Thread : QueueUpload(t, w)
  BY <1>4 DEF QueueFails, QueueUpload
<1> QED  BY <1>1, <1>2, <1>3, <1>4, Crossings

\* The entries stay cached.
LEMMA TaskCachedUploads ==
  ASSUME Inv, LockOwnership, Uploads, NEW t \in Task, Call(t) \/ TaskStep(t)
  PROVE  /\ \A u \in Task : task'[u].pc \in {"hash", "queue"} => IsCached(task[u].el)'
         /\ \A w \in Thread : thread'[w].st \in {"write", "finish"} => IsCached(thread[w].el)'
<1>1. ASSUME NEW u \in Task \ {t}, task'[u].pc \in {"hash", "queue"}
      PROVE  IsCached(task[u].el)'
  <2>1. task'[u] = task[u]
    BY OthersStay
  <2>2. task[u].el \in CacheEntry /\ IsCached(task[u].el)
    BY <1>1, <2>1, UserOf DEF Uploads
  <2>3. cache'[BlockOf(task[u].el)] = cache[BlockOf(task[u].el)]
    BY <1>1, <2>1, <2>2, OthersUpload
  <2> QED  BY <2>1, <2>2, <2>3 DEF IsCached, BlockOf
<1>2. ASSUME task'[t].pc \in {"hash", "queue"}
      PROVE  IsCached(task[t].el)'
  <2>1. (UploadStart(t) \/ RegisterNew(t)) /\ task'[t].el = task[t].el
    BY <1>2, Arrivals
  <2>2. UNCHANGED cache /\ IsCached(task[t].el)
    BY <2>1 DEF UploadStart, RegisterNew, entries, Uploads
  <2> QED  BY <2>1, <2>2 DEF IsCached, BlockOf
<1>3. ASSUME NEW w \in Thread, thread'[w].st \in {"write", "finish"}, thread'[w] = thread[w]
      PROVE  IsCached(thread[w].el)'
  <2>1. thread[w].el \in CacheEntry /\ IsCached(thread[w].el)
    BY <1>3 DEF Uploads, Inv, Shared, ThreadShape
  <2>2. cache'[BlockOf(thread[w].el)] = cache[BlockOf(thread[w].el)]
    BY <1>3, <2>1, OthersUpload
  <2> QED  BY <1>3, <2>1, <2>2 DEF IsCached, BlockOf
<1>4. ASSUME NEW w \in Thread, thread'[w] # thread[w]
      PROVE  IsCached(thread[w].el)'
  <2>1. PICK v \in Thread : QueueUpload(t, v)
    BY <1>4, Departures
  <2>2. thread'[w].el = task[t].el /\ UNCHANGED cache /\ IsCached(task[t].el)
    BY <1>4, <2>1 DEF QueueUpload, entries, Uploads, Inv, Shared
  <2> QED  BY <2>2 DEF IsCached, BlockOf
<1> QED  BY <1>1, <1>2, <1>3, <1>4

\* The entries that are being hashed, queued or written.
LEMMA InTransit ==
  ASSUME Uploads, NEW e
  PROVE  e \in in_transit <=>
            \/ \E t \in Task : task[t].pc \in {"hash", "queue"} /\ task[t].el = e
            \/ \E w \in Thread : thread[w].st = "write" /\ thread[w].el = e
BY DEF Uploads

\* Nobody else uploads the entry of a task or thread.
LEMMA Exclusive ==
  ASSUME Inv, LockOwnership, NEW e
  PROVE  /\ \A t \in Task : task[t].pc \in {"hash", "queue"} /\ task[t].el = e =>
               /\ \A u \in Task \ {t} : ~(task[u].pc \in {"hash", "queue"} /\ task[u].el = e)
               /\ \A w \in Thread : ~(thread[w].st = "write" /\ thread[w].el = e)
         /\ \A w \in Thread : thread[w].st = "write" /\ thread[w].el = e =>
               /\ \A v \in Thread \ {w} : ~(thread[v].st = "write" /\ thread[v].el = e)
               /\ \A t \in Task : ~(task[t].pc \in {"hash", "queue"} /\ task[t].el = e)
BY OneUpload DEF TaskHolds, ThreadHolds

\* A step of a task keeps in_transit exact.
LEMMA TaskInTransit ==
  ASSUME Inv, LockOwnership, Uploads, NEW t \in Task, Call(t) \/ TaskStep(t), NEW e
  PROVE  e \in in_transit' <=>
            \/ \E u \in Task : task'[u].pc \in {"hash", "queue"} /\ task'[u].el = e
            \/ \E w \in Thread : thread'[w].st = "write" /\ thread'[w].el = e
<1> DEFINE H(u) == task[u].pc \in {"hash", "queue"} /\ task[u].el = e
           W(w) == thread[w].st = "write" /\ thread[w].el = e
<1> SUFFICES e \in in_transit' <=> (\E u \in Task : H(u)') \/ (\E v \in Thread : W(v)')
  OBVIOUS
<1>1. \A u \in Task \ {t} : H(u)' <=> H(u)
  BY OthersStay
<1>2. e \in in_transit <=> (\E u \in Task : H(u)) \/ (\E w \in Thread : W(w))
  BY InTransit
<1>3. \A u \in Task : H(u) => (\A v \in Task \ {u} : ~H(v)) /\ \A w \in Thread : ~W(w)
  BY Exclusive
<1>4. CASE UploadStart(t)
  <2>1. in_transit' = in_transit \cup {task[t].el} /\ thread' = thread /\ ~H(t)
    BY <1>4 DEF UploadStart
  <2>2. H(t)' <=> e = task[t].el
    BY <1>4 DEF UploadStart, Inv, Tasks, TaskState
  <2>3. \A w \in Thread : W(w)' <=> W(w)
    BY <2>1
  <2> HIDE DEF H, W
  <2> QED  BY <1>1, <1>2, <2>1, <2>2, <2>3
<1>5. CASE RegisterDup(t) \/ QueueFails(t)
  <2>1. /\ in_transit' = in_transit \ {task[t].el} /\ thread' = thread
        /\ H(t) <=> e = task[t].el
    BY <1>5 DEF RegisterDup, QueueFails
  <2>2. ~H(t)'
    BY <1>5, Arrivals DEF RegisterDup, QueueFails, UploadStart, RegisterNew
  <2>3. \A w \in Thread : W(w)' <=> W(w)
    BY <2>1
  <2> HIDE DEF H, W
  <2> QED  BY <1>1, <1>2, <1>3, <2>1, <2>2, <2>3
<1>6. ASSUME NEW w \in Thread, QueueUpload(t, w)
      PROVE  e \in in_transit' <=> (\E u \in Task : H(u)') \/ (\E v \in Thread : W(v)')
  <2>1. /\ in_transit' = in_transit /\ ~W(w)
        /\ H(t) <=> e = task[t].el
    BY <1>6 DEF QueueUpload
  <2>2. ~H(t)'
    BY <1>6, Arrivals DEF QueueUpload, UploadStart, RegisterNew
  <2>3. W(w)' <=> e = task[t].el
    BY <1>6 DEF QueueUpload, Inv, Shared
  <2>4. \A v \in Thread \ {w} : W(v)' <=> W(v)
    BY <1>6 DEF QueueUpload, Inv, Shared
  <2> HIDE DEF H, W
  <2> QED  BY <1>1, <1>2, <1>3, <2>1, <2>2, <2>3, <2>4
<1>7. CASE RegisterNew(t)
  <2>1. in_transit' = in_transit /\ thread' = thread
    BY <1>7 DEF RegisterNew
  <2>2. H(t)' <=> H(t)
    <3>1. \E o, x : task' = [task EXCEPT ![t].pc = "queue", ![t].obj = o, ![t].old = x]
      BY <1>7 DEF RegisterNew
    <3>2. task[t].pc = "hash"
      BY <1>7 DEF RegisterNew
    <3> QED  BY <3>1, <3>2 DEF Inv, Tasks, TaskState
  <2>3. \A w \in Thread : W(w)' <=> W(w)
    BY <2>1
  <2> HIDE DEF H, W
  <2> QED  BY <1>1, <1>2, <2>1, <2>2, <2>3
<1>8. CASE /\ ~UploadStart(t) /\ ~RegisterDup(t) /\ ~QueueFails(t) /\ ~RegisterNew(t)
           /\ ~ \E w \in Thread : QueueUpload(t, w)
  <2>1. /\ in_transit' = in_transit /\ thread' = thread /\ ~H(t) /\ ~H(t)'
    BY <1>8, Departures, Arrivals
  <2>2. \A w \in Thread : W(w)' <=> W(w)
    BY <2>1
  <2> HIDE DEF H, W
  <2> QED  BY <1>1, <1>2, <2>1, <2>2
<1> QED  BY <1>4, <1>5, <1>6, <1>7, <1>8

\* A step of a thread: it writes the entry, which leaves in_transit, or works on
\* after that.
LEMMA ThreadUploads ==
  ASSUME Inv, LockOwnership, Uploads, NEW w \in Thread, ThreadStep(w)
  PROVE  Uploads'
<1> DEFINE H(e) == \E t \in Task : task[t].pc \in {"hash", "queue"} /\ task[t].el = e
           W(v, e) == thread[v].st = "write" /\ thread[v].el = e
<1>1. /\ UNCHANGED entries \/ FinishUpload(w)
      /\ \A t \in Task : task'[t] = task[t] \/ (task[t].pc = "wait" /\ task'[t].pc = "pass")
      /\ \A v \in Thread \ {w} : thread'[v] = thread[v]
  <2>1. CASE UnlockBlock(w)
    BY <2>1 DEF UnlockBlock, Inv, Shared, Tasks, TaskState
  <2>2. CASE WriteObject(w) \/ WriteFails(w) \/ FinishUpload(w) \/ UnlockObject(w)
    BY <2>2 DEF WriteObject, WriteFails, FinishUpload, UnlockObject, Inv, Shared
  <2> QED  BY <2>1, <2>2 DEF ThreadStep
<1>2. UNCHANGED cache
  BY <1>1 DEF entries, FinishUpload
<1>3. \A t \in Task : task'[t].pc \in {"hash", "queue"} => IsCached(task[t].el)'
  BY <1>1, <1>2 DEF Uploads, IsCached, BlockOf
<1>4. thread'[w].st \in {"write", "finish"} =>
         thread[w].st = "write" /\ thread'[w].st = "finish" /\ thread'[w].el = thread[w].el
  <2>1. CASE UnlockBlock(w)
    BY <2>1 DEF UnlockBlock, IdleThread, Inv, Shared, UploadState
  <2>2. CASE WriteObject(w) \/ WriteFails(w)
    BY <2>2 DEF WriteObject, WriteFails, Inv, Shared, UploadState
  <2>3. CASE FinishUpload(w) \/ UnlockObject(w)
    BY <2>3 DEF FinishUpload, UnlockObject, Inv, Shared, UploadState
  <2> QED  BY <2>1, <2>2, <2>3 DEF ThreadStep
<1>5. \A v \in Thread : thread'[v].st \in {"write", "finish"} => IsCached(thread[v].el)'
  BY <1>1, <1>2, <1>4 DEF Uploads, IsCached, BlockOf
<1>6. \A e : H(e)' <=> H(e)
  BY <1>1
<1>7. \A e : e \in in_transit <=> H(e) \/ \E v \in Thread : W(v, e)
  BY InTransit
<1>8. \A e : \A v \in Thread \ {w} : W(v, e)' <=> W(v, e)
  BY <1>1
<1>9. \A e : ~W(w, e)'
  BY <1>4
<1>10. \A e : e \in in_transit' <=> H(e)' \/ \E v \in Thread : W(v, e)'
  <2>1. CASE WriteObject(w) \/ WriteFails(w)
    <3>1. in_transit' = in_transit \ {thread[w].el} /\ \A e : W(w, e) <=> e = thread[w].el
      BY <2>1 DEF WriteObject, WriteFails
    <3>2. \A e : W(w, e) => ~H(e) /\ \A v \in Thread \ {w} : ~W(v, e)
      BY Exclusive
    <3> HIDE DEF H, W
    <3> QED  BY <1>6, <1>7, <1>8, <1>9, <3>1, <3>2
  <2>2. CASE FinishUpload(w) \/ UnlockObject(w) \/ UnlockBlock(w)
    <3>1. in_transit' = in_transit /\ \A e : ~W(w, e)
      BY <2>2 DEF FinishUpload, UnlockObject, UnlockBlock
    <3> HIDE DEF H, W
    <3> QED  BY <1>6, <1>7, <1>8, <1>9, <3>1
  <2> QED  BY <2>1, <2>2 DEF ThreadStep
<1>11. in_transit' = {task'[t].el : t \in {u \in Task : task'[u].pc \in {"hash", "queue"}}}
                     \cup {thread'[v].el : v \in {x \in Thread : thread'[x].st = "write"}}
  BY <1>10
<1> QED  BY <1>3, <1>5, <1>11 DEF Uploads

\* Every step of the system.
LEMMA NextUploads == Inv /\ LockOwnership /\ Uploads /\ [Next]_vars => Uploads'
<1> SUFFICES ASSUME Inv, LockOwnership, Uploads, [Next]_vars  PROVE Uploads'
  OBVIOUS
<1>1. ASSUME NEW t \in Task, Call(t) \/ TaskStep(t)  PROVE Uploads'
  <2>1. \A e : e \in in_transit' <=>
            \/ \E u \in Task : task'[u].pc \in {"hash", "queue"} /\ task'[u].el = e
            \/ \E w \in Thread : thread'[w].st = "write" /\ thread'[w].el = e
    BY <1>1, TaskInTransit
  <2>2. in_transit' = {task'[u].el : u \in {v \in Task : task'[v].pc \in {"hash", "queue"}}}
                      \cup {thread'[v].el : v \in {x \in Thread : thread'[x].st = "write"}}
    BY <2>1
  <2> QED  BY <1>1, <2>2, TaskCachedUploads DEF Uploads
<1>2. ASSUME UNCHANGED <<cache, in_transit, task, thread>>  PROVE Uploads'
  BY <1>2 DEF Uploads, IsCached
<1>3. CASE UNCHANGED vars
  BY <1>2, <1>3 DEF vars
<1>4. ASSUME NEW r \in Remover, RemoverStep(r)  PROVE Uploads'
  BY <1>2, <1>4 DEF RemoverStep, RemovalTake, RemovalDelete, entries
<1>5. ASSUME NEW i \in Inode, KernelStep(i)  PROVE Uploads'
  BY <1>2, <1>5 DEF KernelStep, Forget, Lookup, entries
<1> QED  BY <1>1, <1>3, <1>4, <1>5, ThreadUploads DEF Next, Step

\* Nothing is in transit and no copy is under way at first.
LEMMA InitUploads == Init => Uploads /\ Copies
<1> SUFFICES ASSUME Init  PROVE Uploads /\ Copies
  OBVIOUS
<1>1. \A t \in Task : task[t].pc = "idle" /\ task[t].op = None
  BY DEF Init, IdleTask
<1>2. \A w \in Thread : thread[w].st = "idle"
  BY DEF Init, IdleThread
<1>3. None # "copy"
  BY BlockCacheAssumption DEF OpNames
<1>4. in_transit = {}
  BY DEF Init
<1> QED  BY <1>1, <1>2, <1>3, <1>4 DEF Uploads, Copies

\* The action that NoWriteInTransit speaks of.
LEMMA TransitLeftAlone ==
  ASSUME Inv, LockOwnership, Uploads, [Next]_vars, NEW e \in in_transit \cap in_transit'
  PROVE  data'[e] = data[e] /\ cache'[BlockOf(e)] = e
<1>1. \/ \E t \in Task : task[t].pc \in {"hash", "queue"} /\ task[t].el = e
      \/ \E w \in Thread : thread[w].st = "write" /\ thread[w].el = e
  BY InTransit
<1>2. e \in CacheEntry /\ cache[BlockOf(e)] = e
  BY <1>1 DEF Uploads, IsCached, Inv, Shared
<1>3. ASSUME NEW t \in Task, Call(t) \/ TaskStep(t)
      PROVE  data'[e] = data[e] /\ cache'[BlockOf(e)] = cache[BlockOf(e)]
  BY <1>1, <1>2, <1>3, OthersUpload, OwnUpload
<1>4. ASSUME NEW w \in Thread, ThreadStep(w)
      PROVE  data'[e] = data[e] /\ cache'[BlockOf(e)] = cache[BlockOf(e)]
  BY <1>4 DEF ThreadStep, WriteObject, WriteFails, FinishUpload, UnlockObject, UnlockBlock, entries
<1>5. ASSUME NEW r \in Remover, RemoverStep(r)
      PROVE  data'[e] = data[e] /\ cache'[BlockOf(e)] = cache[BlockOf(e)]
  BY <1>5 DEF RemoverStep, RemovalTake, RemovalDelete, entries
<1>6. ASSUME NEW i \in Inode, KernelStep(i)
      PROVE  data'[e] = data[e] /\ cache'[BlockOf(e)] = cache[BlockOf(e)]
  BY <1>6 DEF KernelStep, Forget, Lookup, entries
<1>7. CASE UNCHANGED vars
  BY <1>2, <1>7 DEF vars
<1> QED  BY <1>2, <1>3, <1>4, <1>5, <1>6, <1>7 DEF Next, Step

(***************************************************************************)
(* upload_if_dirty and _do_upload, for every number of tasks, threads,     *)
(* files and blocks and whatever uploads fail: while an entry is hashed,   *)
(* queued or written, nobody changes its content and nobody evicts or      *)
(* replaces it, so the object that is stored has the content whose hash    *)
(* was entered in the database.                                            *)
(***************************************************************************)
THEOREM TransitUndisturbed == Spec => NoWriteInTransit
<1>1. Spec => [](Inv /\ LockOwnership)
  BY InitInv, NextInv, InitLocks, NextLocks, PTL DEF Spec
<1>2. Spec => [](Inv /\ LockOwnership /\ Uploads)
  BY <1>1, InitUploads, NextUploads, PTL DEF Spec
<1>3. Inv /\ LockOwnership /\ Uploads /\ [Next]_vars =>
        [\A e \in in_transit \cap in_transit' :
            /\ data'[e] = data[e]
            /\ cache'[BlockOf(e)] = e]_vars
  BY TransitLeftAlone
<1> QED  BY <1>2, <1>3, PTL DEF Spec, NoWriteInTransit
=============================================================================
