----------------------------- MODULE BlockCache -----------------------------
(***************************************************************************)
(* The block cache of a mounted S3QL file system                           *)
(* (src/src/s3ql/block_cache.py), with the two database tables it keeps    *)
(* consistent (objects, inode_blocks), the backend it uploads to, the      *)
(* upload and removal threads, and the callers in fs.py and mount.py that  *)
(* use it concurrently.                                                    *)
(*                                                                         *)
(* Grain of atomicity.  All database access and all changes of the cache   *)
(* happen in trio tasks on one event loop, so what a task does between two *)
(* suspension points (await) is one step.  Upload and removal threads run  *)
(* in parallel and take their own steps.  A lock that is taken, used       *)
(* without suspending and released again is one step whose guard is that   *)
(* the lock is free: holding it longer would only delay other tasks.       *)
(***************************************************************************)
EXTENDS Naturals, FiniteSets

CONSTANTS
    Task,         \* trio tasks: FUSE request handlers and the CommitTask
    Thread,       \* upload threads (BlockCache.init)
    Faulty,       \* upload threads whose backend connection may fail
    Remover,      \* removal threads
    DeleteMulti,  \* the backend has has_delete_multi
    Inode, BlockNo,
    Gen,          \* incarnations of the CacheEntry object of one block
    Data, Zero,   \* block contents; Zero is the content of a hole
    ObjId,        \* ids of the objects table
    MaxEntries,   \* configured CacheDict.max_entries
    QueueSize,    \* capacity of to_remove
    Ops,          \* the operations each task executes
    KernelForgets,\* the kernel sends FORGET requests
    None

Block == Inode \X BlockNo

(***************************************************************************)
(* A CacheEntry object is named by its block and an incarnation, because   *)
(* the code compares entries by identity (`el is not self.cache.get(..)'). *)
(***************************************************************************)
CacheEntry == Block \X Gen

OpNames == {"read", "write", "flush", "commit", "copy", "drop", "remove"}

ASSUME BlockCacheAssumption ==
    /\ IsFiniteSet(Task) /\ IsFiniteSet(Thread)
    /\ IsFiniteSet(Inode) /\ IsFiniteSet(BlockNo) /\ IsFiniteSet(Gen)
    /\ Faulty \subseteq Thread
    /\ DeleteMulti \in BOOLEAN /\ KernelForgets \in BOOLEAN
    /\ Zero \in Data
    /\ MaxEntries \in Nat /\ QueueSize \in Nat \ {0}
    /\ Ops \in [Task -> SUBSET OpNames]
    /\ None \notin ObjId \cup CacheEntry \cup Block \cup Inode \cup Data \cup OpNames
    /\ ObjId \cap Block = {}

VARIABLES
    objects,      \* table objects: id -> refcount, hash, phys_size known
    inode_blocks, \* table inode_blocks: block -> object id
    cache,        \* CacheDict: block -> CacheEntry
    max_entries,  \* CacheDict.max_entries
    data,         \* content of each CacheEntry's file
    dirty,        \* the entries whose dirty flag is set
    in_transit,   \* the entries being uploaded
    locked,       \* MultiLock.locked_keys: blocks and object ids
    task,         \* local state of the trio tasks
    thread,       \* local state of the upload threads
    to_remove,    \* object ids queued for removal
    ids,          \* object ids a removal thread has taken from the queue
    store,        \* the backend: id -> content of s3ql_data_<id>
    open_inodes,  \* inodes the kernel knows (fs.Operations.open_inodes)
    failsafe      \* fs.Operations.failsafe

database == <<objects, inode_blocks>>
entries  == <<cache, data, dirty>>
removal  == <<to_remove, ids, failsafe>>
vars == <<objects, inode_blocks, cache, max_entries, data, dirty, in_transit,
          locked, task, thread, to_remove, ids, store, open_inodes, failsafe>>

-----------------------------------------------------------------------------
(* Local state of tasks and threads.                                       *)

(***************************************************************************)
(* pc   the suspension point the task is at                                *)
(* op   the operation it executes                                          *)
(* arg  the block of an access, the source inode of a copy; dst: the copy  *)
(* el   the entry upload_if_dirty or expire is working on                  *)
(* todo the entries of the current pass, or the blocks still to remove     *)
(* need need_entries of expire                                             *)
(* sth  sth_in_transit of expire and flush                                 *)
(* old  an object the task has taken a reference from and must deref       *)
(* obj  the object created by upload_if_dirty, or the one being downloaded *)
(* gone an object whose row the task deleted; size: it had a phys_size     *)
(* bak  max_entries saved by drop                                          *)
(***************************************************************************)
PC == {"idle", "get_lock", "get_wait", "download", "pass", "loop", "wait",
       "up_lock", "hash", "queue", "fail_block", "fail_obj", "deref",
       "deref_lock", "evict_lock", "remove"}

ThreadState == {"idle", "write", "finish", "unlock", "unlock_block",
                "dead"}

ObjectRow == [refcount : Nat \ {0}, hash : Data \cup {None}, phys : BOOLEAN]

IdleTask == [pc |-> "idle", op |-> None, arg |-> None, el |-> None,
             todo |-> {}, need |-> 0, sth |-> FALSE, old |-> None,
             obj |-> None, gone |-> None, size |-> FALSE, bak |-> 0,
             dst |-> None]

IdleThread == [st |-> "idle", el |-> None, obj |-> None, ok |-> FALSE]

TaskState ==
    [pc : PC, op : OpNames \cup {None}, arg : Block \cup Inode \cup {None},
     el : CacheEntry \cup {None}, todo : SUBSET (CacheEntry \cup Block),
     need : Nat, sth : BOOLEAN, old : ObjId \cup {None},
     obj : ObjId \cup {None}, gone : ObjId \cup {None}, size : BOOLEAN,
     bak : Nat, dst : Inode \cup {None}]

UploadState ==
    [st : ThreadState, el : CacheEntry \cup {None}, obj : ObjId \cup {None},
     ok : BOOLEAN]

TypeOK ==
    /\ DOMAIN objects \subseteq ObjId
    /\ objects \in [DOMAIN objects -> ObjectRow]
    /\ inode_blocks \in [Block -> ObjId \cup {None}]
    /\ cache \in [Block -> CacheEntry \cup {None}]
    /\ max_entries \in Nat
    /\ data \in [CacheEntry -> Data]
    /\ dirty \subseteq CacheEntry
    /\ in_transit \subseteq CacheEntry
    /\ locked \subseteq Block \cup ObjId
    /\ task \in [Task -> TaskState]
    /\ thread \in [Thread -> UploadState]
    /\ to_remove \subseteq ObjId
    /\ ids \in [Remover -> SUBSET ObjId]
    /\ DOMAIN store \subseteq ObjId
    /\ store \in [DOMAIN store -> Data]
    /\ open_inodes \subseteq Inode
    /\ failsafe \in BOOLEAN

(***************************************************************************)
(* Which local variables are set at which suspension point, and the block  *)
(* a CacheDict entry belongs to.                                           *)
(***************************************************************************)
TaskShape(s) ==
    /\ s.pc = "idle" => s = IdleTask
    /\ s.pc # "idle" => s.op \in OpNames
    /\ s.op \in {"read", "write"} => s.arg \in Block
    /\ s.op = "copy" => s.arg \in Inode /\ s.dst \in Inode
    /\ s.op = "remove" => s.todo \subseteq Block
    /\ s.op # "remove" => s.todo \subseteq CacheEntry
    /\ s.pc \in {"get_lock", "get_wait", "download"} => s.op \in {"read", "write"}
    /\ s.pc \in {"get_wait", "download", "queue", "fail_block", "fail_obj"} =>
          s.obj \in ObjId
    /\ s.pc \in {"up_lock", "hash", "queue", "fail_block", "fail_obj", "evict_lock"} =>
          s.el \in CacheEntry
    /\ s.pc \in {"deref", "deref_lock"} => s.op = "remove" \/ s.el \in CacheEntry
    /\ s.pc = "deref" => s.old \in ObjId
    /\ s.pc = "deref_lock" => s.gone \in ObjId
    /\ s.pc = "remove" => s.op = "remove"
    /\ s.op = "remove" => s.pc \in {"remove", "deref", "deref_lock"}

ThreadShape(s) ==
    /\ s.st \in {"write", "finish", "unlock", "unlock_block"} => s.el \in CacheEntry
    /\ s.st \in {"write", "finish", "unlock"} => s.obj \in ObjId

ControlOK ==
    /\ \A t \in Task : TaskShape(task[t])
    /\ \A w \in Thread : ThreadShape(thread[w])
    /\ \A b \in Block : cache[b] # None => cache[b][1] = b

(***************************************************************************)
(* A consistent file system is mounted with an empty cache: the rows of    *)
(* objects are those some block is linked to, all of them uploaded.        *)
(***************************************************************************)
Init ==
    /\ inode_blocks \in [Block -> ObjId \cup {None}]
    /\ LET linked == {inode_blocks[b] : b \in Block} \ {None} IN
       \E hash \in [linked -> Data] :
         /\ \A o, p \in linked : hash[o] = hash[p] => o = p
         /\ objects = [o \in linked |->
              [refcount |-> Cardinality({b \in Block : inode_blocks[b] = o}),
               hash |-> hash[o], phys |-> TRUE]]
         /\ store = hash
    /\ cache = [b \in Block |-> None]
    /\ max_entries = MaxEntries
    /\ data = [e \in CacheEntry |-> Zero]
    /\ dirty = {} /\ in_transit = {} /\ locked = {}
    /\ task = [t \in Task |-> IdleTask]
    /\ thread = [w \in Thread |-> IdleThread]
    /\ to_remove = {} /\ ids = [r \in Remover |-> {}]
    /\ open_inodes = Inode
    /\ failsafe = FALSE

-----------------------------------------------------------------------------
(* Helpers.                                                                *)

BlockOf(e) == e[1]

\* The entry object is the one the CacheDict holds for its block.
IsCached(e) == cache[BlockOf(e)] = e

CachedEntries == {cache[b] : b \in {c \in Block : cache[c] # None}}

\* Mutant: one entry too many counts as within the limit.
IsFullLate == Cardinality(CachedEntries) > max_entries + 1

\* CacheDict.is_full; the size limit is the same test on another quantity.
IsFull == Cardinality(CachedEntries) > max_entries

Expiring(t) == task[t].op \in {"read", "write", "drop"}

RefersTo(t, e) == task[t].el = e \/ e \in task[t].todo

\* A new CacheEntry object differs from every one still referenced.
FreshGens(b) == {g \in Gen : \A t \in Task : ~RefersTo(t, <<b, g>>)}

(***************************************************************************)
(* objects.id is AUTOINCREMENT: an id is never given out twice.  An id     *)
(* nobody refers to any more cannot be told from one that was never used.  *)
(***************************************************************************)
InUse(o) ==
    \/ o \in DOMAIN objects \cup DOMAIN store \cup to_remove \cup locked
    \/ \E b \in Block : inode_blocks[b] = o
    \/ \E t \in Task : o \in {task[t].old, task[t].obj, task[t].gone}
    \/ \E w \in Thread : thread[w].obj = o
    \/ \E r \in Remover : o \in ids[r]

FreshIds == {o \in ObjId : ~InUse(o)}

\* The new inode of a copy is not visible before its blocks are.
Visible(i) == \A t \in Task : task[t].dst # i

\* inodes.id is AUTOINCREMENT too: a new inode is one nothing refers to.
NewInode(j) ==
    /\ \A b \in {j} \X BlockNo :
          cache[b] = None /\ inode_blocks[b] = None /\ b \notin locked
    /\ \A t \in Task :
          /\ j \notin {task[t].arg, task[t].dst}
          /\ task[t].arg \notin {j} \X BlockNo
          /\ task[t].el \notin ({j} \X BlockNo) \X Gen
          /\ task[t].todo \cap ({j} \X BlockNo) = {}
          /\ task[t].todo \cap (({j} \X BlockNo) \X Gen) = {}

\* SELECT id FROM objects WHERE hash=? (the column is UNIQUE)
SameHash(d) == {o \in DOMAIN objects : objects[o].hash = d}

\* CacheDict.remove: the entry leaves the cache and its file is unlinked.
Uncache(b) ==
    /\ cache' = [cache EXCEPT ![b] = None]
    /\ data' = [data EXCEPT ![cache[b]] = Zero]
    /\ UNCHANGED dirty

\* upload_if_dirty returns r to the loop that called it.
UploadReturns(t, r) ==
    [task[t] EXCEPT !.pc = IF Expiring(t) /\ ~r THEN "evict_lock" ELSE "loop",
                    !.el = IF Expiring(t) /\ ~r THEN @ ELSE None,
                    !.sth = (@ \/ r) /\ (Expiring(t) \/ task[t].op = "flush"),
                    !.old = None, !.obj = None, !.gone = None, !.size = FALSE]

\* _deref_obj returns to remove or to upload_if_dirty.
DerefReturns(t) ==
    IF task[t].op = "remove"
      THEN [task[t] EXCEPT !.pc = "remove", !.old = None, !.gone = None,
                           !.size = FALSE]
      ELSE UploadReturns(t, task[t].obj # None)

-----------------------------------------------------------------------------
(* Access to a block: get, _get_entry and the read or write of the caller. *)

\* fs.read or fs.write (refused in failsafe mode) reaches a block through
\* get(), which expires entries first when the cache is full.
GetCall(t, op, b) ==
    /\ op \in Ops[t]
    /\ op = "write" => ~failsafe
    /\ task[t].pc = "idle"
    /\ b[1] \in open_inodes /\ Visible(b[1])
    /\ task' = [task EXCEPT ![t].op = op, ![t].arg = b,
                            ![t].pc = IF IsFull THEN "pass" ELSE "get_lock"]
    /\ UNCHANGED <<database, entries, max_entries, in_transit, locked, thread,
                   removal, store, open_inodes>>

(***************************************************************************)
(* The body of `async with cache.get()': a read, or a write or truncation  *)
(* that leaves some content d.  It runs without suspending; the operation  *)
(* ends when the lock is released.                                         *)
(***************************************************************************)
Use(t, e, content) ==
    /\ cache' = [cache EXCEPT ![BlockOf(e)] = e]
    /\ \/ /\ task[t].op = "read"
          /\ data' = [data EXCEPT ![e] = content]
          /\ dirty' = IF IsCached(e) THEN dirty ELSE dirty \ {e}
       \/ /\ task[t].op = "write"
          /\ \E d \in Data : data' = [data EXCEPT ![e] = d]
          /\ dirty' = dirty \cup {e}
    /\ task' = [task EXCEPT ![t] = IdleTask]

\* Mutant: the entry is used without taking the block's lock.
GetCachedUnlocked(t) ==
    LET b == task[t].arg IN
    /\ task[t].pc = "get_lock"
    /\ cache[b] # None
    /\ Use(t, cache[b], data[cache[b]])
    /\ UNCHANGED <<database, max_entries, in_transit, locked, thread, removal,
                   store, open_inodes>>

\* The block is in the cache.
GetCached(t) ==
    LET b == task[t].arg IN
    /\ task[t].pc = "get_lock"
    /\ b \notin locked
    /\ cache[b] # None
    /\ Use(t, cache[b], data[cache[b]])
    /\ UNCHANGED <<database, max_entries, in_transit, locked, thread, removal,
                   store, open_inodes>>

\* Neither in the cache nor in the database: a new, empty, clean entry.
GetNew(t) ==
    LET b == task[t].arg IN
    /\ task[t].pc = "get_lock"
    /\ b \notin locked
    /\ cache[b] = None
    /\ inode_blocks[b] = None
    /\ FreshGens(b) # {}
    /\ Use(t, <<b, CHOOSE g \in FreshGens(b) : TRUE>>, Zero)
    /\ UNCHANGED <<database, max_entries, in_transit, locked, thread, removal,
                   store, open_inodes>>

\* In the database only: keep the block locked and wait for the object lock.
GetMiss(t) ==
    LET b == task[t].arg IN
    /\ task[t].pc = "get_lock"
    /\ b \notin locked
    /\ cache[b] = None
    /\ inode_blocks[b] # None
    /\ locked' = locked \cup {b}
    /\ task' = [task EXCEPT ![t].pc = "get_wait", ![t].obj = inode_blocks[b]]
    /\ UNCHANGED <<database, entries, max_entries, in_transit, thread, removal,
                   store, open_inodes>>

\* The object lock is free: the object is not (any longer) being uploaded.
GetWait(t) ==
    /\ task[t].pc = "get_wait"
    /\ task[t].obj \notin locked
    /\ task' = [task EXCEPT ![t].pc = "download"]
    /\ UNCHANGED <<database, entries, max_entries, in_transit, locked, thread,
                   removal, store, open_inodes>>

\* The object arrived: install it as a clean entry, use it, release the lock.
Download(t) ==
    LET b == task[t].arg IN
    /\ task[t].pc = "download"
    /\ task[t].obj \in DOMAIN store
    /\ FreshGens(b) # {}
    /\ Use(t, <<b, CHOOSE g \in FreshGens(b) : TRUE>>, store[task[t].obj])
    /\ locked' = locked \ {b}
    /\ UNCHANGED <<database, max_entries, in_transit, thread, removal, store,
                   open_inodes>>

\* NoSuchObject: the caller sets failsafe and reports an I/O error.
DownloadMissing(t) ==
    /\ task[t].pc = "download"
    /\ task[t].obj \notin DOMAIN store
    /\ locked' = locked \ {task[t].arg}
    /\ task' = [task EXCEPT ![t] = IdleTask]
    /\ failsafe' = TRUE
    /\ UNCHANGED <<database, entries, max_entries, in_transit, thread,
                   to_remove, ids, store, open_inodes>>

-----------------------------------------------------------------------------
(* flush, the CommitTask, copy_tree's start_flush, expire and drop: loops  *)
(* over a snapshot of the cache.  The order of the snapshot is left open.  *)

FlushCall(t) ==
    /\ "flush" \in Ops[t]
    /\ task[t].pc = "idle"
    /\ task' = [task EXCEPT ![t].op = "flush", ![t].pc = "pass"]
    /\ UNCHANGED <<database, entries, max_entries, in_transit, locked, thread,
                   removal, store, open_inodes>>

\* One round of CommitTask.run; it stops at the first entry that is too young.
CommitCall(t) ==
    /\ "commit" \in Ops[t]
    /\ task[t].pc = "idle"
    /\ task' = [task EXCEPT ![t].op = "commit", ![t].pc = "loop",
                            ![t].todo = CachedEntries]
    /\ UNCHANGED <<database, entries, max_entries, in_transit, locked, thread,
                   removal, store, open_inodes>>

CommitBreak(t) ==
    /\ task[t].op = "commit"
    /\ task[t].pc = "loop"
    /\ task' = [task EXCEPT ![t] = IdleTask]
    /\ UNCHANGED <<database, entries, max_entries, in_transit, locked, thread,
                   removal, store, open_inodes>>

\* drop(): pretend that no entry may stay, and expire.
DropCall(t) ==
    /\ "drop" \in Ops[t]
    /\ task[t].pc = "idle"
    /\ max_entries' = 0
    /\ task' = [task EXCEPT ![t].op = "drop", ![t].pc = "pass",
                            ![t].bak = max_entries]
    /\ UNCHANGED <<database, entries, in_transit, locked, thread, removal,
                   store, open_inodes>>

\* copy_tree reaches a file: start_flush if the kernel knows the inode.
CopyCall(t, i, j) ==
    /\ "copy" \in Ops[t]
    /\ task[t].pc = "idle"
    /\ ~failsafe
    /\ i # j /\ Visible(i) /\ NewInode(j)
    /\ task' = [task EXCEPT ![t].op = "copy", ![t].pc = "loop",
                   ![t].arg = i, ![t].dst = j,
                   ![t].todo = {e \in CachedEntries : /\ BlockOf(e)[1] = i
                                                      /\ i \in open_inodes}]
    /\ UNCHANGED <<database, entries, max_entries, in_transit, locked, thread,
                   removal, store, open_inodes>>

\* Mutant: sth_in_transit is not reset.
BeginPassNoReset(t) ==
    LET n == Cardinality(CachedEntries) IN
    /\ task[t].pc = "pass"
    /\ Expiring(t) => n > max_entries
    /\ task' = [task EXCEPT ![t].pc = "loop", ![t].todo = CachedEntries,
                            ![t].need = IF Expiring(t) THEN n - max_entries ELSE 0]
    /\ UNCHANGED <<database, entries, max_entries, in_transit, locked, thread,
                   removal, store, open_inodes>>

\* The next pass of flush, or of expire while too many entries are cached.
BeginPass(t) ==
    LET n == Cardinality(CachedEntries) IN
    /\ task[t].pc = "pass"
    /\ Expiring(t) => n > max_entries
    /\ task' = [task EXCEPT ![t].pc = "loop", ![t].sth = FALSE,
                            ![t].todo = CachedEntries,
                            ![t].need = IF Expiring(t) THEN n - max_entries ELSE 0]
    /\ UNCHANGED <<database, entries, max_entries, in_transit, locked, thread,
                   removal, store, open_inodes>>

\* expire is done: get goes on, drop restores the limit it saved.
ExpireDone(t) ==
    /\ task[t].pc = "pass"
    /\ Expiring(t)
    /\ Cardinality(CachedEntries) <= max_entries
    /\ task' = [task EXCEPT ![t] = IF @.op = "drop" THEN IdleTask
                                   ELSE [@ EXCEPT !.pc = "get_lock"]]
    /\ max_entries' = IF task[t].op = "drop" THEN task[t].bak ELSE max_entries
    /\ UNCHANGED <<database, entries, in_transit, locked, thread, removal,
                   store, open_inodes>>

\* The next entry of the snapshot, up to the first suspension point of
\* upload_if_dirty.
LoopNext(t, e) ==
    LET next == [task[t] EXCEPT !.todo = @ \ {e},
                                !.need = IF Expiring(t) THEN @ - 1 ELSE @]
    IN
    /\ task[t].pc = "loop"
    /\ e \in task[t].todo
    /\ Expiring(t) => task[t].need > 0
    /\ task' = [task EXCEPT ![t] =
         IF e \in in_transit
           THEN [next EXCEPT !.sth = task[t].op # "commit" /\ task[t].op # "copy"]
         ELSE IF e \in dirty THEN [next EXCEPT !.pc = "up_lock", !.el = e]
         ELSE IF Expiring(t) THEN [next EXCEPT !.pc = "evict_lock", !.el = e]
         ELSE next]
    /\ UNCHANGED <<database, entries, max_entries, in_transit, locked, thread,
                   removal, store, open_inodes>>

\* End of a pass of flush, expire or the CommitTask.
PassEnd(t) ==
    /\ task[t].pc = "loop"
    /\ task[t].op # "copy"
    /\ task[t].todo = {} \/ (Expiring(t) /\ task[t].need = 0)
    /\ task' = [task EXCEPT ![t] =
         IF @.sth THEN [@ EXCEPT !.pc = "wait", !.todo = {}, !.need = 0]
         ELSE IF Expiring(t) THEN [@ EXCEPT !.pc = "pass", !.todo = {}, !.need = 0]
         ELSE IdleTask]
    /\ UNCHANGED <<database, entries, max_entries, in_transit, locked, thread,
                   removal, store, open_inodes>>

\* wait() returns at once, or after a time-out, when nothing is in transit.
WaitNothing(t) ==
    /\ task[t].pc = "wait"
    /\ in_transit = {}
    /\ task' = [task EXCEPT ![t].pc = "pass"]
    /\ UNCHANGED <<database, entries, max_entries, in_transit, locked, thread,
                   removal, store, open_inodes>>

\* Mutant: the entry is not checked again after the wait for its lock.
EvictUnchecked(t) ==
    LET e == task[t].el
        b == BlockOf(e)
    IN
    /\ task[t].pc = "evict_lock"
    /\ b \notin locked
    /\ IF cache[b] # None THEN Uncache(b) ELSE UNCHANGED entries
    /\ task' = [task EXCEPT ![t].pc = "loop", ![t].el = None]
    /\ UNCHANGED <<database, max_entries, in_transit, locked, thread, removal,
                   store, open_inodes>>

\* expire removes a clean entry; it skips one that was replaced or dirtied
\* while it waited for the lock.
Evict(t) ==
    LET e == task[t].el
        b == BlockOf(e)
    IN
    /\ task[t].pc = "evict_lock"
    /\ b \notin locked
    /\ IF IsCached(e) /\ e \notin dirty THEN Uncache(b) ELSE UNCHANGED entries
    /\ task' = [task EXCEPT ![t].pc = "loop", ![t].el = None]
    /\ UNCHANGED <<database, max_entries, in_transit, locked, thread, removal,
                   store, open_inodes>>

-----------------------------------------------------------------------------
(* upload_if_dirty, after its unlocked checks (LoopNext).                  *)

\* The block lock is free but the entry was replaced or uploaded meanwhile.
UploadSkip(t) ==
    LET e == task[t].el IN
    /\ task[t].pc = "up_lock"
    /\ BlockOf(e) \notin locked
    /\ ~IsCached(e) \/ e \notin dirty
    /\ task' = [task EXCEPT ![t] = UploadReturns(t, FALSE)]
    /\ UNCHANGED <<database, entries, max_entries, in_transit, locked, thread,
                   removal, store, open_inodes>>

\* Lock the block, mark the entry and compute its checksum in a thread.
UploadStart(t) ==
    LET e == task[t].el IN
    /\ task[t].pc = "up_lock"
    /\ BlockOf(e) \notin locked
    /\ IsCached(e) /\ e \in dirty
    /\ locked' = locked \cup {BlockOf(e)}
    /\ in_transit' = in_transit \cup {e}
    /\ task' = [task EXCEPT ![t].pc = "hash"]
    /\ UNCHANGED <<database, entries, max_entries, thread, removal, store,
                   open_inodes>>

(***************************************************************************)
(* No object with this hash: insert one, link the block to it, and lock    *)
(* it.  Requests for the lock's condition variable are served in order, so *)
(* nobody can take the lock of the new object before this task does        *)
(* (module MultiLock, property FirstRequestFirst).                         *)
(***************************************************************************)
RegisterNew(t) ==
    LET e == task[t].el
        b == BlockOf(e)
        o == CHOOSE x \in FreshIds : TRUE
    IN
    /\ task[t].pc = "hash"
    /\ SameHash(data[e]) = {}
    /\ FreshIds # {}
    /\ objects' = [x \in DOMAIN objects \cup {o} |->
                     IF x = o THEN [refcount |-> 1, hash |-> data[e], phys |-> FALSE]
                              ELSE objects[x]]
    /\ inode_blocks' = [inode_blocks EXCEPT ![b] = o]
    /\ locked' = locked \cup {o}
    /\ task' = [task EXCEPT ![t].pc = "queue", ![t].obj = o,
                            ![t].old = inode_blocks[b]]
    /\ UNCHANGED <<entries, max_entries, in_transit, thread, removal, store,
                   open_inodes>>

\* Mutant: the refcount is not increased.
RegisterDupUncounted(t) ==
    LET e == task[t].el
        b == BlockOf(e)
    IN
    /\ task[t].pc = "hash"
    /\ \E o \in SameHash(data[e]) :
         IF inode_blocks[b] = o
           THEN /\ UNCHANGED database
                /\ task' = [task EXCEPT ![t] = UploadReturns(t, FALSE)]
           ELSE /\ UNCHANGED objects
                /\ inode_blocks' = [inode_blocks EXCEPT ![b] = o]
                /\ task' = [task EXCEPT ![t] =
                     IF inode_blocks[b] = None THEN UploadReturns(t, FALSE)
                     ELSE [@ EXCEPT !.pc = "deref", !.old = inode_blocks[b]]]
    /\ dirty' = dirty \ {e}
    /\ in_transit' = in_transit \ {e}
    /\ locked' = locked \ {b}
    /\ UNCHANGED <<cache, data, max_entries, thread, removal, store,
                   open_inodes>>

\* Mutant: the block stays locked.
RegisterDupLocked(t) ==
    LET e == task[t].el
        b == BlockOf(e)
    IN
    /\ task[t].pc = "hash"
    /\ \E o \in SameHash(data[e]) :
         IF inode_blocks[b] = o
           THEN /\ UNCHANGED database
                /\ task' = [task EXCEPT ![t] = UploadReturns(t, FALSE)]
           ELSE /\ objects' = [objects EXCEPT ![o].refcount = @ + 1]
                /\ inode_blocks' = [inode_blocks EXCEPT ![b] = o]
                /\ task' = [task EXCEPT ![t] =
                     IF inode_blocks[b] = None THEN UploadReturns(t, FALSE)
                     ELSE [@ EXCEPT !.pc = "deref", !.old = inode_blocks[b]]]
    /\ dirty' = dirty \ {e}
    /\ in_transit' = in_transit \ {e}
    /\ UNCHANGED locked
    /\ UNCHANGED <<cache, data, max_entries, thread, removal, store,
                   open_inodes>>

\* An object with this hash exists: link to it, unless linked already.
RegisterDup(t) ==
    LET e == task[t].el
        b == BlockOf(e)
    IN
    /\ task[t].pc = "hash"
    /\ \E o \in SameHash(data[e]) :
         IF inode_blocks[b] = o
           THEN /\ UNCHANGED database
                /\ task' = [task EXCEPT ![t] = UploadReturns(t, FALSE)]
           ELSE /\ objects' = [objects EXCEPT ![o].refcount = @ + 1]
                /\ inode_blocks' = [inode_blocks EXCEPT ![b] = o]
                /\ task' = [task EXCEPT ![t] =
                     IF inode_blocks[b] = None THEN UploadReturns(t, FALSE)
                     ELSE [@ EXCEPT !.pc = "deref", !.old = inode_blocks[b]]]
    /\ dirty' = dirty \ {e}
    /\ in_transit' = in_transit \ {e}
    /\ locked' = locked \ {b}
    /\ UNCHANGED <<cache, data, max_entries, thread, removal, store,
                   open_inodes>>

\* _queue_upload: the channel has no buffer, an idle thread takes the work.
QueueUpload(t, w) ==
    /\ task[t].pc = "queue"
    /\ thread[w].st = "idle"
    /\ thread' = [thread EXCEPT ![w] = [st |-> "write", el |-> task[t].el,
                                        obj |-> task[t].obj, ok |-> FALSE]]
    /\ task' = [task EXCEPT ![t] = IF @.old = None THEN UploadReturns(t, TRUE)
                                   ELSE [@ EXCEPT !.pc = "deref"]]
    /\ UNCHANGED <<database, entries, max_entries, in_transit, locked, removal,
                   store, open_inodes>>

\* NoWorkerThreads: give up and release the locks.
QueueFails(t) ==
    /\ task[t].pc = "queue"
    /\ \A w \in Thread : thread[w].st = "dead"
    /\ in_transit' = in_transit \ {task[t].el}
    /\ task' = [task EXCEPT ![t].pc = "fail_block"]
    /\ UNCHANGED <<database, entries, max_entries, locked, thread, removal,
                   store, open_inodes>>

FailReleaseBlock(t) ==
    /\ task[t].pc = "fail_block"
    /\ locked' = locked \ {BlockOf(task[t].el)}
    /\ task' = [task EXCEPT ![t].pc = "fail_obj"]
    /\ UNCHANGED <<database, entries, max_entries, in_transit, thread, removal,
                   store, open_inodes>>

\* Mutant: the object's lock is forgotten on the error path.
FailReleaseNothing(t) ==
    /\ task[t].pc = "fail_obj"
    /\ task' = [task EXCEPT ![t] = IdleTask]
    /\ UNCHANGED <<database, entries, max_entries, in_transit, locked, thread,
                   removal, store, open_inodes>>

\* The exception ends the operation, whatever it was.
FailReleaseObj(t) ==
    /\ task[t].pc = "fail_obj"
    /\ locked' = locked \ {task[t].obj}
    /\ task' = [task EXCEPT ![t] = IdleTask]
    /\ UNCHANGED <<database, entries, max_entries, in_transit, thread, removal,
                   store, open_inodes>>

-----------------------------------------------------------------------------
(* _deref_obj.                                                             *)

\* Mutant: the last reference counts as one of several.
DerefSharedLast(t) ==
    LET o == task[t].old IN
    /\ task[t].pc = "deref"
    /\ o \in DOMAIN objects
    /\ objects[o].refcount >= 1
    /\ objects' = [objects EXCEPT ![o].refcount = @ - 1]
    /\ task' = [task EXCEPT ![t] = DerefReturns(t)]
    /\ UNCHANGED <<inode_blocks, entries, max_entries, in_transit, locked,
                   thread, removal, store, open_inodes>>

\* Other references remain.
DerefShared(t) ==
    LET o == task[t].old IN
    /\ task[t].pc = "deref"
    /\ o \in DOMAIN objects
    /\ objects[o].refcount > 1
    /\ objects' = [objects EXCEPT ![o].refcount = @ - 1]
    /\ task' = [task EXCEPT ![t] = DerefReturns(t)]
    /\ UNCHANGED <<inode_blocks, entries, max_entries, in_transit, locked,
                   thread, removal, store, open_inodes>>

\* Mutant: a row with two references is deleted.
DerefLastTwo(t) ==
    LET o == task[t].old IN
    /\ task[t].pc = "deref"
    /\ o \in DOMAIN objects
    /\ objects[o].refcount <= 2
    /\ objects' = [x \in DOMAIN objects \ {o} |-> objects[x]]
    /\ task' = [task EXCEPT ![t].pc = "deref_lock", ![t].old = None,
                            ![t].gone = o, ![t].size = objects[o].phys]
    /\ UNCHANGED <<inode_blocks, entries, max_entries, in_transit, locked,
                   thread, removal, store, open_inodes>>

\* Mutant: the test for a missing size is inverted.
DerefLastInverted(t) ==
    LET o == task[t].old IN
    /\ task[t].pc = "deref"
    /\ o \in DOMAIN objects
    /\ objects[o].refcount = 1
    /\ objects' = [x \in DOMAIN objects \ {o} |-> objects[x]]
    /\ task' = [task EXCEPT ![t].pc = "deref_lock", ![t].old = None,
                            ![t].gone = o, ![t].size = ~objects[o].phys]
    /\ UNCHANGED <<inode_blocks, entries, max_entries, in_transit, locked,
                   thread, removal, store, open_inodes>>

\* The last reference: delete the row, remembering whether it has a size.
DerefLast(t) ==
    LET o == task[t].old IN
    /\ task[t].pc = "deref"
    /\ o \in DOMAIN objects
    /\ objects[o].refcount = 1
    /\ objects' = [x \in DOMAIN objects \ {o} |-> objects[x]]
    /\ task' = [task EXCEPT ![t].pc = "deref_lock", ![t].old = None,
                            ![t].gone = o, ![t].size = objects[o].phys]
    /\ UNCHANGED <<inode_blocks, entries, max_entries, in_transit, locked,
                   thread, removal, store, open_inodes>>

\* Wait for the object lock, then queue the object for removal if it was
\* uploaded; a full queue makes the task wait.
DerefRemove(t) ==
    /\ task[t].pc = "deref_lock"
    /\ task[t].gone \notin locked
    /\ \/ /\ ~task[t].size
          /\ UNCHANGED to_remove
       \/ /\ task[t].size
          /\ Cardinality(to_remove) < QueueSize
          /\ to_remove' = to_remove \cup {task[t].gone}
    /\ task' = [task EXCEPT ![t] = DerefReturns(t)]
    /\ UNCHANGED <<database, entries, max_entries, in_transit, locked, thread,
                   ids, failsafe, store, open_inodes>>

-----------------------------------------------------------------------------
(* remove: truncation and deletion of files.                               *)

RemoveCall(t, i, N) ==
    /\ "remove" \in Ops[t]
    /\ task[t].pc = "idle"
    /\ N # {} /\ Visible(i)
    /\ task' = [task EXCEPT ![t].op = "remove", ![t].pc = "remove",
                            ![t].todo = {<<i, n>> : n \in N}]
    /\ UNCHANGED <<database, entries, max_entries, in_transit, locked, thread,
                   removal, store, open_inodes>>

\* Mutant: the cached entry is left behind.
RemoveBlockCached(t, b) ==
    /\ task[t].pc = "remove"
    /\ b \in task[t].todo
    /\ b \notin locked
    /\ UNCHANGED entries
    /\ inode_blocks' = [inode_blocks EXCEPT ![b] = None]
    /\ task' = [task EXCEPT ![t].todo = @ \ {b}, ![t].old = inode_blocks[b],
                   ![t].pc = IF inode_blocks[b] = None THEN @ ELSE "deref"]
    /\ UNCHANGED <<objects, max_entries, in_transit, locked, thread, removal,
                   store, open_inodes>>

\* One block: in the first pass if its lock can be had without waiting (it
\* may fail to, even for a free lock), else in the second.
RemoveBlock(t, b) ==
    /\ task[t].pc = "remove"
    /\ b \in task[t].todo
    /\ b \notin locked
    /\ IF cache[b] # None THEN Uncache(b) ELSE UNCHANGED entries
    /\ inode_blocks' = [inode_blocks EXCEPT ![b] = None]
    /\ task' = [task EXCEPT ![t].todo = @ \ {b}, ![t].old = inode_blocks[b],
                   ![t].pc = IF inode_blocks[b] = None THEN @ ELSE "deref"]
    /\ UNCHANGED <<objects, max_entries, in_transit, locked, thread, removal,
                   store, open_inodes>>

RemoveDone(t) ==
    /\ task[t].pc = "remove"
    /\ task[t].todo = {}
    /\ task' = [task EXCEPT ![t] = IdleTask]
    /\ UNCHANGED <<database, entries, max_entries, in_transit, locked, thread,
                   removal, store, open_inodes>>

-----------------------------------------------------------------------------
(* copy_tree: after start_flush, share the blocks with the new inode.      *)

\* Mutant: an object that several blocks share is counted once.
CopyRowsOnce(t) ==
    LET i == task[t].arg
        j == task[t].dst
    IN
    /\ task[t].pc = "loop"
    /\ task[t].op = "copy"
    /\ task[t].todo = {}
    /\ inode_blocks' = [b \in Block |-> IF b[1] = j THEN inode_blocks[<<i, b[2]>>]
                                        ELSE inode_blocks[b]]
    /\ objects' = [o \in DOMAIN objects |->
         [objects[o] EXCEPT !.refcount =
            IF \E n \in BlockNo : inode_blocks[<<i, n>>] = o THEN @ + 1 ELSE @]]
    /\ task' = [task EXCEPT ![t] = IdleTask]
    /\ UNCHANGED <<entries, max_entries, in_transit, locked, thread, removal,
                   store, open_inodes>>

CopyRows(t) ==
    LET i == task[t].arg
        j == task[t].dst
    IN
    /\ task[t].pc = "loop"
    /\ task[t].op = "copy"
    /\ task[t].todo = {}
    /\ inode_blocks' = [b \in Block |-> IF b[1] = j THEN inode_blocks[<<i, b[2]>>]
                                        ELSE inode_blocks[b]]
    /\ objects' = [o \in DOMAIN objects |->
         [objects[o] EXCEPT !.refcount =
            @ + Cardinality({n \in BlockNo : inode_blocks[<<i, n>>] = o})]]
    /\ task' = [task EXCEPT ![t] = IdleTask]
    /\ UNCHANGED <<entries, max_entries, in_transit, locked, thread, removal,
                   store, open_inodes>>

-----------------------------------------------------------------------------
(* _do_upload, in an upload thread.                                        *)

\* perform_write succeeds; the entry leaves in_transit before the event loop
\* learns of it.
WriteObject(w) ==
    LET o == thread[w].obj IN
    /\ thread[w].st = "write"
    /\ store' = [x \in DOMAIN store \cup {o} |->
                   IF x = o THEN data[thread[w].el] ELSE store[x]]
    /\ in_transit' = in_transit \ {thread[w].el}
    /\ thread' = [thread EXCEPT ![w].st = "finish", ![w].ok = TRUE]
    /\ UNCHANGED <<database, entries, max_entries, locked, task, removal,
                   open_inodes>>

\* perform_write raises an exception, and no object was stored.
WriteFails(w) ==
    /\ w \in Faulty
    /\ thread[w].st = "write"
    /\ in_transit' = in_transit \ {thread[w].el}
    /\ thread' = [thread EXCEPT ![w].st = "finish"]
    /\ UNCHANGED <<database, entries, max_entries, locked, task, removal, store,
                   open_inodes>>

\* Mutant: the hash of an object that was not stored is kept.
FinishUploadKeepHash(w) ==
    LET o == thread[w].obj IN
    /\ thread[w].st = "finish"
    /\ IF thread[w].ok
         THEN /\ objects' = [objects EXCEPT ![o].phys = TRUE]
              /\ dirty' = dirty \ {thread[w].el}
         ELSE UNCHANGED <<objects, dirty>>
    /\ thread' = [thread EXCEPT ![w].st = "unlock"]
    /\ UNCHANGED <<inode_blocks, cache, data, max_entries, in_transit, locked,
                   task, removal, store, open_inodes>>

\* with_event_loop: record the size and clear the dirty flag, or make sure
\* that nothing is linked to the missing object from now on.
FinishUpload(w) ==
    LET o == thread[w].obj IN
    /\ thread[w].st = "finish"
    /\ IF thread[w].ok
         THEN /\ objects' = [objects EXCEPT ![o].phys = TRUE]
              /\ dirty' = dirty \ {thread[w].el}
         ELSE /\ objects' = [objects EXCEPT ![o].hash = None]
              /\ UNCHANGED dirty
    /\ thread' = [thread EXCEPT ![w].st = "unlock"]
    /\ UNCHANGED <<inode_blocks, cache, data, max_entries, in_transit, locked,
                   task, removal, store, open_inodes>>

UnlockObject(w) ==
    /\ thread[w].st = "unlock"
    /\ locked' = locked \ {thread[w].obj}
    /\ thread' = [thread EXCEPT ![w].st = "unlock_block", ![w].obj = None]
    /\ UNCHANGED <<database, entries, max_entries, in_transit, task, removal,
                   store, open_inodes>>

\* The block lock is released and transfer_completed.notify_all() called; a
\* thread whose upload failed dies of the exception.
UnlockBlock(w) ==
    /\ thread[w].st = "unlock_block"
    /\ locked' = locked \ {BlockOf(thread[w].el)}
    /\ task' = [t \in Task |-> IF task[t].pc = "wait"
                                 THEN [task[t] EXCEPT !.pc = "pass"]
                                 ELSE task[t]]
    /\ thread' = [thread EXCEPT ![w] =
                    IF @.ok THEN IdleThread ELSE [IdleThread EXCEPT !.st = "dead"]]
    /\ UNCHANGED <<database, entries, max_entries, in_transit, removal, store,
                   open_inodes>>

-----------------------------------------------------------------------------
(* The removal threads, and the kernel's reference to an inode.            *)

RemovalTake(r, o) ==
    /\ o \in to_remove
    /\ ~DeleteMulti => ids[r] = {}
    /\ to_remove' = to_remove \ {o}
    /\ ids' = [ids EXCEPT ![r] = @ \cup {o}]
    /\ UNCHANGED <<database, entries, max_entries, in_transit, locked, task,
                   thread, failsafe, store, open_inodes>>

\* delete or delete_multi; the queue may have been refilled since the thread
\* found it empty.  NoSuchObject switches the file system to failsafe mode.
RemovalDelete(r) ==
    /\ ids[r] # {}
    /\ store' = [o \in DOMAIN store \ ids[r] |-> store[o]]
    /\ failsafe' = (failsafe \/ ~(ids[r] \subseteq DOMAIN store))
    /\ ids' = [ids EXCEPT ![r] = {}]
    /\ UNCHANGED <<database, entries, max_entries, in_transit, locked, task,
                   thread, to_remove, open_inodes>>

\* The last kernel reference to inode i goes; no request for it is pending.
Forget(i) ==
    /\ KernelForgets
    /\ i \in open_inodes
    /\ \A t \in Task : task[t].arg \notin {i} \X BlockNo
    /\ open_inodes' = open_inodes \ {i}
    /\ UNCHANGED <<database, entries, max_entries, in_transit, locked, task,
                   thread, removal, store>>

Lookup(i) ==
    /\ i \notin open_inodes
    /\ open_inodes' = open_inodes \cup {i}
    /\ UNCHANGED <<database, entries, max_entries, in_transit, locked, task,
                   thread, removal, store>>

-----------------------------------------------------------------------------
\* A request arrives.
Call(t) ==
    \/ \E op \in {"read", "write"}, b \in Block : GetCall(t, op, b)
    \/ FlushCall(t) \/ CommitCall(t) \/ DropCall(t)
    \/ \E i, j \in Inode : CopyCall(t, i, j)
    \/ \E i \in Inode, N \in SUBSET BlockNo : RemoveCall(t, i, N)

\* The event loop resumes task t.
TaskStep(t) ==
    \/ GetCached(t) \/ GetNew(t) \/ GetMiss(t) \/ GetWait(t)
    \/ Download(t) \/ DownloadMissing(t)
    \/ BeginPass(t) \/ ExpireDone(t) \/ PassEnd(t) \/ CommitBreak(t)
    \/ \E e \in task[t].todo : LoopNext(t, e)
    \/ WaitNothing(t) \/ Evict(t)
    \/ UploadSkip(t) \/ UploadStart(t) \/ RegisterNew(t) \/ RegisterDup(t)
    \/ \E w \in Thread : QueueUpload(t, w)
    \/ QueueFails(t) \/ FailReleaseBlock(t) \/ FailReleaseObj(t)
    \/ DerefShared(t) \/ DerefLast(t) \/ DerefRemove(t)
    \/ \E b \in task[t].todo : RemoveBlock(t, b)
    \/ RemoveDone(t)
    \/ CopyRows(t)

ThreadStep(w) ==
    \/ WriteObject(w) \/ WriteFails(w) \/ FinishUpload(w)
    \/ UnlockObject(w) \/ UnlockBlock(w)

RemoverStep(r) == (\E o \in to_remove : RemovalTake(r, o)) \/ RemovalDelete(r)

KernelStep(i) == Forget(i) \/ Lookup(i)

Step ==
    \/ \E t \in Task : TaskStep(t)
    \/ \E w \in Thread : ThreadStep(w)
    \/ \E r \in Remover : RemoverStep(r)
    \/ \E i \in Inode : KernelStep(i)

Next == (\E t \in Task : Call(t)) \/ Step

Spec == Init /\ [][Next]_vars

-----------------------------------------------------------------------------
(* Properties: reference counts.                                           *)

Links(o) == {b \in Block : inode_blocks[b] = o}
PendingDerefs(o) == {t \in Task : task[t].old = o}

(***************************************************************************)
(* The refcount of a row of objects is the number of blocks linked to it   *)
(* plus the number of references taken from it by a task that has still to *)
(* call _deref_obj (upload_if_dirty relinks first and derefs the old       *)
(* object after further suspension points).                                *)
(***************************************************************************)
RefcountExact ==
    \A o \in DOMAIN objects :
        objects[o].refcount = Cardinality(Links(o)) + Cardinality(PendingDerefs(o))

(***************************************************************************)
(* What survives even the loss of all upload threads, where a task gives   *)
(* up a reference it should have dropped: a row never counts fewer         *)
(* references than there are, and no block and no pending deref refers to  *)
(* an object whose row was deleted, so _deref_obj never meets a missing    *)
(* row and a block never points at an object queued for removal.           *)
(***************************************************************************)
NoDangling ==
    /\ \A o \in DOMAIN objects :
          objects[o].refcount >= Cardinality(Links(o)) + Cardinality(PendingDerefs(o))
    /\ \A b \in Block : inode_blocks[b] \in DOMAIN objects \cup {None}
    /\ \A t \in Task : task[t].old \in DOMAIN objects \cup {None}

-----------------------------------------------------------------------------
(* Properties: locks.                                                      *)

TaskHolds(t) ==
    (IF task[t].pc \in {"get_wait", "download"} THEN {task[t].arg} ELSE {})
    \cup (IF task[t].pc \in {"hash", "queue", "fail_block"}
            THEN {BlockOf(task[t].el)} ELSE {})
    \cup (IF task[t].pc \in {"queue", "fail_block", "fail_obj"}
            THEN {task[t].obj} ELSE {})

ThreadHolds(w) ==
    (IF thread[w].st \in {"write", "finish", "unlock", "unlock_block"}
       THEN {BlockOf(thread[w].el)} ELSE {})
    \cup (IF thread[w].st \in {"write", "finish", "unlock"}
            THEN {thread[w].obj} ELSE {})

(***************************************************************************)
(* MultiLock does not record owners, and the lock of an uploaded block is  *)
(* taken by a task and released by a thread.  Still a key is locked        *)
(* exactly while one task or one thread is responsible for releasing it:   *)
(* no lock is leaked, none is released twice and none by somebody else.    *)
(***************************************************************************)
LockOwnership ==
    /\ locked = UNION ({TaskHolds(t) : t \in Task} \cup {ThreadHolds(w) : w \in Thread})
    /\ \A t, u \in Task : t # u => TaskHolds(t) \cap TaskHolds(u) = {}
    /\ \A v, w \in Thread : v # w => ThreadHolds(v) \cap ThreadHolds(w) = {}
    /\ \A t \in Task, w \in Thread : TaskHolds(t) \cap ThreadHolds(w) = {}

-----------------------------------------------------------------------------
(* Properties: the backend.                                                *)

BeingUploaded(o) ==
    \/ \E t \in Task : /\ task[t].pc \in {"queue", "fail_block", "fail_obj"}
                       /\ task[t].obj = o
    \/ \E w \in Thread : thread[w].st \in {"write", "finish"} /\ thread[w].obj = o

(***************************************************************************)
(* A block is only ever de-duplicated against an object that is in the     *)
(* backend with that content, or whose upload has not failed yet: a row    *)
(* keeps its hash only as long as this is so.                              *)
(***************************************************************************)
DedupTargetExists ==
    \A o \in DOMAIN objects :
        objects[o].hash # None =>
            \/ o \in DOMAIN store /\ store[o] = objects[o].hash
            \/ BeingUploaded(o)

(***************************************************************************)
(* Only objects that are in the backend and that no row and no block       *)
(* refers to are ever on their way to removal.  _deref_obj reads phys_size *)
(* before it waits for the object's lock, so this rests on an object never *)
(* losing its last reference while it is being uploaded.                   *)
(***************************************************************************)
RemovalSafe ==
    \A o \in to_remove \cup (UNION {ids[r] : r \in Remover})
             \cup {task[t].gone : t \in {u \in Task : task[u].size}} :
        /\ o \in DOMAIN store
        /\ o \notin DOMAIN objects
        /\ Links(o) = {}

(***************************************************************************)
(* An object is removed only when nobody wants it any more: the reference  *)
(* count of its row is the number of blocks that refer to it and of        *)
(* uploads about to, and an object that waits for its removal, or is being *)
(* removed, is referenced by nobody (block_cache.py:413-480, 555-613).     *)
(***************************************************************************)
ReferencesSafe == RefcountExact /\ RemovalSafe

(***************************************************************************)
(* The entry being hashed and uploaded is left alone: until its upload has *)
(* ended nobody changes, evicts or replaces it.                            *)
(***************************************************************************)
NoWriteInTransit ==
    [][\A e \in in_transit \cap in_transit' :
          /\ data'[e] = data[e]
          /\ cache'[BlockOf(e)] = e]_vars

-----------------------------------------------------------------------------
(* Properties: the size of the cache.                                      *)

(***************************************************************************)
(* expire keeps the cache within its limit, up to one entry per task that  *)
(* passed the is_full test and has not installed its entry yet.            *)
(***************************************************************************)
CacheBounded ==
    Cardinality(CachedEntries) <= MaxEntries + Cardinality(Task)

-----------------------------------------------------------------------------
(* The abstract specification this module implements while no upload fails.*)

Saved(b) == IF inode_blocks[b] = None THEN Zero ELSE objects[inode_blocks[b]].hash
Content(b) == IF cache[b] = None THEN Saved(b) ELSE data[cache[b]]

\* What the abstract specification sees of a task.
Requests(t) ==
    IF task[t].op = "write" THEN {<<"write", task[t].arg>>}
    ELSE IF task[t].op = "remove" THEN {<<"remove", b>> : b \in task[t].todo}
    ELSE {}

AbstractState == <<[b \in Block |-> Content(b)], [b \in Block |-> Saved(b)],
                   [t \in Task |-> Requests(t)]>>

Abstract == INSTANCE BlockStore WITH
    content <- AbstractState[1], saved <- AbstractState[2],
    req <- AbstractState[3]

(***************************************************************************)
(* The content of a block changes only where a write or removal of it is   *)
(* served, so reads return what the last write left, and the database      *)
(* records what was written, whatever the cache evicts, downloads, shares, *)
(* uploads or removes.                                                     *)
(***************************************************************************)
ImplementsBlockStore == Abstract!Spec
=============================================================================
