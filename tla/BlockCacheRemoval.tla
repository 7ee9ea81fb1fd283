------------------------- MODULE BlockCacheRemoval --------------------------
(***************************************************************************)
(* Which objects module BlockCache removes. The refcounts are exact as     *)
(* long as an upload thread is left (Settled says where a task keeps a     *)
(* reference it has taken from a block). An object that lost its last      *)
(* reference is in the backend if its row had a size, and in one place     *)
(* only on its way to removal (Removing), because an object that is being  *)
(* uploaded keeps the link of its block (Linked).  The backend has the     *)
(* content a hash promises, or an upload of it is under way (Stored,       *)
(* Awaited), so de-duplication finds what it looks for.  The last part     *)
(* shows that the cache implements BlockStore.                             *)
(***************************************************************************)
EXTENDS BlockCacheProofs

\* An upload thread is left that can take work.
SomeThreadLives == \E w \in Thread : thread[w].st # "dead"

\* A task holds a reference only on its way to _deref_obj, and no upload is
\* being given up.
Settled ==
    \A t \in Task :
        /\ task[t].old # None => task[t].pc \in {"queue", "deref"}
        /\ task[t].pc \notin {"fail_block", "fail_obj"}

\* A block keeps its link to the object it is uploaded to, which has no size
\* before it is in the backend.
Linked ==
    /\ \A t \in Task : task[t].pc = "queue" =>
          /\ inode_blocks[BlockOf(task[t].el)] = task[t].obj
          /\ ~objects[task[t].obj].phys
    /\ \A w \in Thread : thread[w].st \in {"write", "finish"} =>
          /\ inode_blocks[BlockOf(thread[w].el)] = thread[w].obj
          /\ ~objects[thread[w].obj].phys
    /\ \A w \in Thread : /\ thread[w].st = "write" => ~thread[w].ok
                         /\ thread[w].st = "finish" /\ thread[w].ok =>
                               thread[w].obj \in DOMAIN store
    /\ \A o \in DOMAIN objects : objects[o].phys => o \in DOMAIN store

\* The object a task is about to queue for removal.
Leaving(t) == IF task[t].size THEN {task[t].gone} ELSE {}

\* An object without a row is on its way to removal in one place at most.
Removing ==
    /\ to_remove \subseteq DOMAIN store \ DOMAIN objects
    /\ \A r \in Remover : /\ ids[r] \subseteq DOMAIN store \ DOMAIN objects
                          /\ ids[r] \cap to_remove = {}
                          /\ \A s \in Remover \ {r} : ids[r] \cap ids[s] = {}
    /\ \A t \in Task : /\ Leaving(t) \subseteq DOMAIN store \ DOMAIN objects
                       /\ Leaving(t) \cap to_remove = {}
                       /\ \A u \in Task \ {t} : Leaving(t) \cap Leaving(u) = {}
                       /\ \A r \in Remover : Leaving(t) \cap ids[r] = {}

\* The backend holds what the hash of a row promises, or will.
Stored ==
    /\ \A t \in Task : task[t].pc = "queue" => data[task[t].el] = objects[task[t].obj].hash
    /\ \A w \in Thread : thread[w].st \in {"write", "finish"} =>
          data[thread[w].el] = objects[thread[w].obj].hash
    /\ \A o \in DOMAIN objects \cap DOMAIN store :
          objects[o].hash # None => store[o] = objects[o].hash

\* An object that is not in the backend is being uploaded, or has no hash.
Awaited ==
    \A o \in DOMAIN objects \ DOMAIN store :
        objects[o].hash # None =>
            \/ \E t \in Task : task[t].pc = "queue" /\ task[t].obj = o
            \/ \E w \in Thread : thread[w].st \in {"write", "finish"} /\ thread[w].obj = o

-----------------------------------------------------------------------------
(* Exact refcounts.                                                        *)

\* Links, refcounts and pending derefs stay as they are.
LEMMA QuietExact ==
  ASSUME RefcountExact, UNCHANGED inode_blocks,
         DOMAIN objects' = DOMAIN objects,
         \A o \in DOMAIN objects : objects'[o].refcount = objects[o].refcount,
         \A u \in Task : task'[u].old = task[u].old
  PROVE  RefcountExact'
<1>1. \A o : Links(o)' = Links(o) /\ PendingDerefs(o)' = PendingDerefs(o)
  BY DEF Links, PendingDerefs
<1> QED  BY <1>1 DEF RefcountExact

\* A block is linked to object new (or to none), its old object becomes the
\* pending deref of the task, and the refcount of new goes up by one.
LEMMA RelinkExact ==
  ASSUME Inv, NoDangling, RefcountExact, NEW t \in Task, NEW b \in Block,
         NEW new \in ObjId \cup {None},
         inode_blocks' = [inode_blocks EXCEPT ![b] = new],
         task[t].old = None,
         task'[t].old = inode_blocks[b],
         \A u \in Task \ {t} : task'[u].old = task[u].old,
         DOMAIN objects' = DOMAIN objects \cup ({new} \ {None}),
         \A o \in DOMAIN objects \ {new} : objects'[o].refcount = objects[o].refcount,
         new # None => objects'[new].refcount =
             IF new \in DOMAIN objects THEN objects[new].refcount + 1 ELSE 1,
         new # inode_blocks[b],
         new \in DOMAIN objects \cup {None}
           \/ /\ \A c \in Block : inode_blocks[c] # new
              /\ \A u \in Task : task[u].old # new
  PROVE  RefcountExact'
<1>0. PICK old : old = inode_blocks[b]
  OBVIOUS
<1>1. old \in DOMAIN objects \cup {None} /\ inode_blocks \in [Block -> ObjId \cup {None}]
      /\ None \notin DOMAIN objects
  BY <1>0, BlockCacheAssumption DEF NoDangling, Inv, Shared
<1>2. ASSUME NEW o \in DOMAIN objects', o # new, o # old
      PROVE  objects'[o].refcount = Cardinality(Links(o)') + Cardinality(PendingDerefs(o)')
  <2>1. o \in DOMAIN objects /\ o # None
    BY <1>1, <1>2
  <2>2. Links(o)' = Links(o) /\ PendingDerefs(o)' = PendingDerefs(o)
    BY <1>0, <1>1, <1>2, <2>1 DEF Links, PendingDerefs
  <2> QED  BY <1>2, <2>1, <2>2 DEF RefcountExact
<1>3. ASSUME old # None
      PROVE  objects'[old].refcount = Cardinality(Links(old)') + Cardinality(PendingDerefs(old)')
  <2>1. Links(old)' = Links(old) \ {b} /\ b \in Links(old)
    BY <1>0, <1>1 DEF Links
  <2>2. PendingDerefs(old)' = PendingDerefs(old) \cup {t} /\ t \notin PendingDerefs(old)
    BY <1>0, <1>3 DEF PendingDerefs
  <2>3. Cardinality(Links(old)') = Cardinality(Links(old)) - 1
    BY <2>1, LinksFinite, FS_RemoveElement
  <2>4. Cardinality(PendingDerefs(old)') = Cardinality(PendingDerefs(old)) + 1
    BY <2>2, LinksFinite, FS_AddElement
  <2>5. old \in DOMAIN objects /\ objects'[old].refcount = objects[old].refcount
    BY <1>0, <1>1, <1>3
  <2> QED  BY <2>3, <2>4, <2>5, Counts DEF RefcountExact
<1>4. ASSUME new # None
      PROVE  objects'[new].refcount = Cardinality(Links(new)') + Cardinality(PendingDerefs(new)')
  <2>1. Links(new)' = Links(new) \cup {b} /\ b \notin Links(new)
    BY <1>0, <1>1 DEF Links
  <2>2. PendingDerefs(new)' = PendingDerefs(new)
    BY <1>0, <1>1, <1>4 DEF PendingDerefs
  <2>3. Cardinality(Links(new)') = Cardinality(Links(new)) + 1
    BY <2>1, LinksFinite, FS_AddElement
  <2>4. CASE new \in DOMAIN objects
    BY <1>4, <2>2, <2>3, <2>4, Counts DEF RefcountExact
  <2>5. CASE new \notin DOMAIN objects
    <3>1. Links(new) = {} /\ PendingDerefs(new) = {}
      BY <1>4, <2>5 DEF Links, PendingDerefs
    <3>2. Cardinality(Links(new)) = 0 /\ Cardinality(PendingDerefs(new)) = 0
      BY <3>1, FS_EmptySet
    <3> QED  BY <1>4, <2>2, <2>3, <2>5, <3>2
  <2> QED  BY <2>4, <2>5
<1>5. ASSUME NEW o \in DOMAIN objects'
      PROVE  objects'[o].refcount = Cardinality(Links(o)') + Cardinality(PendingDerefs(o)')
  <2>1. o # None
    BY <1>1
  <2> QED  BY <1>2, <1>3, <1>4, <2>1
<1> QED  BY <1>5 DEF RefcountExact

\* Uploads are given up only when no thread is left.
LEMMA NotGivenUp ==
  ASSUME Inv, Settled, SomeThreadLives, NEW t \in Task, Call(t) \/ TaskStep(t)
  PROVE  /\ ~QueueFails(t) /\ ~FailReleaseBlock(t) /\ ~FailReleaseObj(t)
         /\ task'[t].pc \notin {"fail_block", "fail_obj"}
<1> USE DEF Inv, Tasks, TaskState
<1>1. ~QueueFails(t) /\ ~FailReleaseBlock(t) /\ ~FailReleaseObj(t)
  BY DEF QueueFails, FailReleaseBlock, FailReleaseObj, Settled, SomeThreadLives
<1>2. CASE Between(t)
  BY <1>1, <1>2 DEF Between, Outside
<1>3. CASE GetMiss(t) \/ GetWait(t) \/ UploadStart(t)
  BY <1>1, <1>3 DEF GetMiss, GetWait, UploadStart
<1>4. CASE Download(t) \/ DownloadMissing(t)
  BY <1>1, <1>4 DEF Download, Use, DownloadMissing, IdleTask
<1>5. CASE RegisterNew(t)
  <2>1. \E o, x : task' = [task EXCEPT ![t].pc = "queue", ![t].obj = o, ![t].old = x]
    BY <1>5 DEF RegisterNew
  <2> QED  BY <1>1, <2>1
<1>6. CASE RegisterDup(t) \/ \E w \in Thread : QueueUpload(t, w)
  <2>1. \/ task'[t] = UploadReturns(t, FALSE) \/ task'[t] = UploadReturns(t, TRUE)
        \/ \E o : task'[t] = [task[t] EXCEPT !.pc = "deref", !.old = o]
        \/ task'[t] = [task[t] EXCEPT !.pc = "deref"]
    BY <1>6 DEF RegisterDup, QueueUpload
  <2>2. task'[t].pc \in {"loop", "evict_lock", "deref"}
    BY <2>1, UploadReturnsHolds
  <2> QED  BY <1>1, <2>2
<1> QED
  <2> HIDE DEF Inv, Tasks, TaskState
  <2> QED  BY <1>1, <1>2, <1>3, <1>4, <1>5, <1>6, Crossings

\* Work handed to a thread: a pending deref comes next.
LEMMA QueueUploadOld ==
  ASSUME Inv, NEW t \in Task, NEW w \in Thread, QueueUpload(t, w)
  PROVE  /\ task'[t].old = task[t].old
         /\ task'[t].old # None => task'[t].pc = "deref"
<1>1. CASE task[t].old = None
  <2>1. task'[t] = UploadReturns(t, TRUE)
    BY <1>1 DEF QueueUpload, Inv, Tasks
  <2> QED  BY <1>1, <2>1, UploadReturnsOld DEF Inv
<1>2. CASE task[t].old # None
  <2>1. task'[t] = [task[t] EXCEPT !.pc = "deref"]
    BY <1>2 DEF QueueUpload, Inv, Tasks
  <2> QED  BY <2>1 DEF Inv, Tasks, TaskState
<1> QED  BY <1>1, <1>2

\* Where a step leaves the pending deref of its task.
LEMMA OldSteps ==
  ASSUME Inv, Settled, SomeThreadLives, NEW t \in Task, Call(t) \/ TaskStep(t)
  PROVE  \/ /\ UNCHANGED database
            /\ task'[t].old = task[t].old
            /\ task'[t].old # None => task'[t].pc = "deref"
         \/ RegisterNew(t) \/ RegisterDup(t) \/ DerefShared(t) \/ DerefLast(t) \/ CopyRows(t)
         \/ \E b \in task[t].todo : RemoveBlock(t, b)
<1>1. CASE Call(t)
  <2>1. task[t].pc = "idle" /\ UNCHANGED database
    BY <1>1 DEF Call, GetCall, FlushCall, CommitCall, DropCall, CopyCall, RemoveCall
  <2>2. task[t].old = None
    BY <2>1 DEF Settled
  <2> QED  BY <1>1, <2>1, <2>2, CallOld
<1>2. ASSUME NEW w \in Thread, QueueUpload(t, w)
      PROVE  /\ UNCHANGED database
             /\ task'[t].old = task[t].old
             /\ task'[t].old # None => task'[t].pc = "deref"
  BY <1>2, QueueUploadOld DEF QueueUpload
<1>3. CASE \/ GetCached(t) \/ GetNew(t) \/ GetMiss(t) \/ GetWait(t) \/ Download(t)
           \/ DownloadMissing(t) \/ BeginPass(t) \/ ExpireDone(t) \/ PassEnd(t)
           \/ CommitBreak(t) \/ WaitNothing(t) \/ Evict(t) \/ UploadSkip(t)
           \/ UploadStart(t) \/ DerefRemove(t) \/ RemoveDone(t)
           \/ \E e \in task[t].todo : LoopNext(t, e)
  <2>1. task[t].pc \notin {"queue", "deref"} /\ UNCHANGED database
    BY <1>3 DEF GetCached, GetNew, GetMiss, GetWait, Download, DownloadMissing, BeginPass,
                ExpireDone, PassEnd, CommitBreak, WaitNothing, Evict, UploadSkip, UploadStart,
                DerefRemove, RemoveDone, LoopNext
  <2>2. task[t].old = None
    BY <2>1 DEF Settled
  <2>3. task'[t].old \in {task[t].old, None}
    BY <1>3, QuietOld
  <2> QED  BY <2>1, <2>2, <2>3
<1> QED  BY <1>1, <1>2, <1>3, NotGivenUp DEF TaskStep

\* A reference is taken on the way to _deref_obj.
LEMMA TaskSettled ==
  ASSUME Inv, Settled, SomeThreadLives, NEW t \in Task, Call(t) \/ TaskStep(t)
  PROVE  Settled'
<1>1. \A u \in Task \ {t} : task'[u] = task[u]
  BY OthersStay
<1>2. task'[t].pc \notin {"fail_block", "fail_obj"}
  BY NotGivenUp
<1>3. task'[t].old # None => task'[t].pc \in {"queue", "deref"}
  <2>1. CASE RegisterNew(t)
    <3>1. \E o, x : task' = [task EXCEPT ![t].pc = "queue", ![t].obj = o, ![t].old = x]
      BY <2>1 DEF RegisterNew
    <3> QED  BY <3>1 DEF Inv, Tasks, TaskState
  <2>2. CASE RegisterDup(t)
    <3>1. \/ task'[t] = UploadReturns(t, FALSE)
          \/ \E o : task'[t] = [task[t] EXCEPT !.pc = "deref", !.old = o]
      BY <2>2 DEF RegisterDup, Inv, Tasks
    <3>2. ASSUME NEW o, task'[t] = [task[t] EXCEPT !.pc = "deref", !.old = o]
          PROVE  task'[t].pc = "deref"
      BY <3>2 DEF Inv, Tasks, TaskState
    <3> QED  BY <3>1, <3>2, UploadReturnsOld DEF Inv
  <2>3. CASE DerefShared(t)
    BY <2>3, DerefReturnsOld DEF DerefShared, Inv, Tasks
  <2>4. CASE DerefLast(t)
    BY <2>4 DEF DerefLast, Inv, Tasks, TaskState
  <2>5. CASE CopyRows(t)
    BY <2>5 DEF CopyRows, IdleTask, Inv, Tasks
  <2>6. ASSUME NEW b \in task[t].todo, RemoveBlock(t, b)
        PROVE  task'[t].old # None => task'[t].pc \in {"queue", "deref"}
    BY <2>6 DEF RemoveBlock, Inv, Tasks, TaskState
  <2> QED  BY <2>1, <2>2, <2>3, <2>4, <2>5, <2>6, OldSteps
<1> QED  BY <1>1, <1>2, <1>3 DEF Settled

\* A new row counts one reference.
LEMMA RegisterNewExact ==
  ASSUME Inv, NoDangling, RefcountExact, Settled, NEW t \in Task, RegisterNew(t)
  PROVE  RefcountExact'
<1>1. PICK o \in FreshIds :
        /\ objects' = [x \in DOMAIN objects \cup {o} |->
              IF x = o THEN [refcount |-> 1, hash |-> data[task[t].el], phys |-> FALSE]
                       ELSE objects[x]]
        /\ inode_blocks' = [inode_blocks EXCEPT ![BlockOf(task[t].el)] = o]
        /\ task' = [task EXCEPT ![t].pc = "queue", ![t].obj = o,
                                ![t].old = inode_blocks[BlockOf(task[t].el)]]
  BY DEF RegisterNew
<1>2. PICK b \in Block : b = BlockOf(task[t].el)
  BY UserOf DEF RegisterNew
<1>3. /\ o \in ObjId /\ o \notin DOMAIN objects
      /\ \A c \in Block : inode_blocks[c] # o
      /\ \A u \in Task : task[u].old # o
  BY DEF FreshIds, InUse
<1>4. task[t].old = None
  BY DEF RegisterNew, Settled
<1>5. task'[t].old = inode_blocks[b] /\ \A u \in Task \ {t} : task'[u].old = task[u].old
  BY <1>1, <1>2 DEF Inv, Tasks, TaskState
<1>6. /\ DOMAIN objects' = DOMAIN objects \cup ({o} \ {None})
      /\ \A x \in DOMAIN objects \ {o} : objects'[x].refcount = objects[x].refcount
      /\ objects'[o].refcount = 1
      /\ inode_blocks' = [inode_blocks EXCEPT ![b] = o]
  BY <1>1, <1>2, <1>3, BlockCacheAssumption
<1> QED  BY <1>3, <1>4, <1>5, <1>6, RelinkExact

\* An existing row counts one reference more.
LEMMA RegisterDupExact ==
  ASSUME Inv, NoDangling, RefcountExact, Settled, NEW t \in Task, RegisterDup(t)
  PROVE  RefcountExact'
<1>1. PICK b \in Block : b = BlockOf(task[t].el)
  BY UserOf DEF RegisterDup
<1>2. PICK r : r = [task[t] EXCEPT !.pc = "deref", !.old = inode_blocks[b]]
  OBVIOUS
<1>3. PICK o \in SameHash(data[task[t].el]) :
         IF inode_blocks[b] = o
           THEN /\ UNCHANGED database
                /\ task' = [task EXCEPT ![t] = UploadReturns(t, FALSE)]
           ELSE /\ objects' = [objects EXCEPT ![o].refcount = @ + 1]
                /\ inode_blocks' = [inode_blocks EXCEPT ![b] = o]
                /\ task' = [task EXCEPT ![t] =
                     IF inode_blocks[b] = None THEN UploadReturns(t, FALSE) ELSE r]
  BY <1>1, <1>2 DEF RegisterDup
<1>4. o \in DOMAIN objects /\ o \in ObjId
  BY DEF SameHash, Inv, Shared
<1>5. task[t].old = None /\ UploadReturns(t, FALSE).old = None /\ r.old = inode_blocks[b]
  <2>1. task[t].old = None
    BY DEF RegisterDup, Settled
  <2>2. UploadReturns(t, FALSE).old = None
    BY UploadReturnsOld DEF Inv
  <2> QED  BY <1>2, <2>1, <2>2 DEF Inv, Tasks, TaskState
<1>6. CASE inode_blocks[b] = o
  <2>1. \A u \in Task : task'[u].old = task[u].old
    BY <1>3, <1>5, <1>6 DEF Inv, Tasks
  <2> QED  BY <1>3, <1>6, <2>1, QuietExact DEF database
<1>7. CASE inode_blocks[b] # o
  <2>1. /\ task'[t].old = inode_blocks[b]
        /\ \A u \in Task \ {t} : task'[u].old = task[u].old
    BY <1>3, <1>5, <1>7 DEF Inv, Tasks
  <2>2. /\ DOMAIN objects' = DOMAIN objects \cup ({o} \ {None})
        /\ \A x \in DOMAIN objects \ {o} : objects'[x].refcount = objects[x].refcount
        /\ objects'[o].refcount = objects[o].refcount + 1
    <3>1. objects \in [DOMAIN objects -> ObjectRow] /\ None \notin DOMAIN objects
      BY BlockCacheAssumption DEF Inv, Shared
    <3>2. o \in DOMAIN objects /\ objects' = [objects EXCEPT ![o].refcount = @ + 1]
      BY <1>3, <1>4, <1>7
    <3> QED  BY <3>1, <3>2 DEF ObjectRow
  <2>3. inode_blocks' = [inode_blocks EXCEPT ![b] = o]
    BY <1>3, <1>7
  <2> QED  BY <1>4, <1>5, <1>7, <2>1, <2>2, <2>3, RelinkExact
<1> QED  BY <1>6, <1>7

\* The block's reference becomes a pending deref.
LEMMA RemoveBlockExact ==
  ASSUME Inv, NoDangling, RefcountExact, Settled, NEW t \in Task, NEW b, RemoveBlock(t, b)
  PROVE  RefcountExact'
<1>1. b \in Block /\ task[t].old = None
  BY DEF RemoveBlock, Settled, Inv, Tasks, TaskShape
<1>2. inode_blocks' = [inode_blocks EXCEPT ![b] = None] /\ UNCHANGED objects
  BY DEF RemoveBlock
<1>3. task'[t].old = inode_blocks[b] /\ \A u \in Task \ {t} : task'[u].old = task[u].old
  BY DEF RemoveBlock, Inv, Tasks, TaskState
<1>4. CASE inode_blocks[b] = None
  <2>1. inode_blocks' = inode_blocks
    BY <1>2, <1>4 DEF Inv, Shared
  <2> QED  BY <1>1, <1>2, <1>3, <1>4, <2>1, QuietExact
<1>5. CASE inode_blocks[b] # None
  <2>1. DOMAIN objects' = DOMAIN objects \cup ({None} \ {None})
    BY <1>2
  <2> QED  BY <1>1, <1>2, <1>3, <1>5, <2>1, RelinkExact
<1> QED  BY <1>4, <1>5

\* One pending deref and one count less.
LEMMA DerefSharedExact ==
  ASSUME Inv, RefcountExact, NEW t \in Task, DerefShared(t)
  PROVE  RefcountExact'
<1>1. PICK o : o = task[t].old
  OBVIOUS
<1>2. /\ o \in DOMAIN objects
      /\ objects' = [objects EXCEPT ![o].refcount = @ - 1]
      /\ UNCHANGED inode_blocks
      /\ task' = [task EXCEPT ![t] = DerefReturns(t)]
  BY <1>1 DEF DerefShared
<1>3. \A u \in Task : task'[u].old = IF u = t THEN None ELSE task[u].old
  BY <1>2, DerefReturnsOld DEF Inv, Tasks
<1>4. o # None /\ None \notin DOMAIN objects
  BY <1>2, BlockCacheAssumption DEF Inv, Shared
<1>5. /\ DOMAIN objects' = DOMAIN objects
      /\ \A x \in DOMAIN objects \ {o} : objects'[x].refcount = objects[x].refcount
      /\ objects'[o].refcount = objects[o].refcount - 1
  BY <1>2 DEF Inv, Shared, ObjectRow
<1>6. \A x : Links(x)' = Links(x)
  BY <1>2 DEF Links
<1>7. Cardinality(PendingDerefs(o)') = Cardinality(PendingDerefs(o)) - 1
  <2>1. PendingDerefs(o)' = PendingDerefs(o) \ {t} /\ t \in PendingDerefs(o)
    BY <1>1, <1>3, <1>4 DEF PendingDerefs
  <2> QED  BY <2>1, LinksFinite, FS_RemoveElement
<1>8. \A x \in DOMAIN objects \ {o} : PendingDerefs(x)' = PendingDerefs(x)
  BY <1>1, <1>3, <1>4 DEF PendingDerefs
<1>9. ASSUME NEW x \in DOMAIN objects
      PROVE  objects'[x].refcount = Cardinality(Links(x)') + Cardinality(PendingDerefs(x)')
  <2>1. CASE x = o
    BY <1>2, <1>5, <1>6, <1>7, <2>1, Counts DEF RefcountExact
  <2>2. CASE x # o
    BY <1>5, <1>6, <1>8, <2>2 DEF RefcountExact
  <2> QED  BY <2>1, <2>2
<1> QED  BY <1>5, <1>9 DEF RefcountExact

\* The row goes with its last reference.
LEMMA DerefLastExact ==
  ASSUME Inv, NoDangling, RefcountExact, NEW t \in Task, DerefLast(t)
  PROVE  RefcountExact'
<1>1. PICK o : o = task[t].old
  OBVIOUS
<1>2. /\ o \in DOMAIN objects
      /\ objects' = [x \in DOMAIN objects \ {o} |-> objects[x]]
      /\ UNCHANGED inode_blocks
  BY <1>1 DEF DerefLast
<1>3. \A u \in Task : task'[u].old = IF u = t THEN None ELSE task[u].old
  BY DEF DerefLast, Inv, Tasks, TaskState
<1>4. None \notin DOMAIN objects
  BY BlockCacheAssumption DEF Inv, Shared
<1>5. \A x \in DOMAIN objects' : Links(x)' = Links(x) /\ PendingDerefs(x)' = PendingDerefs(x)
  BY <1>1, <1>2, <1>3, <1>4 DEF Links, PendingDerefs
<1> QED  BY <1>2, <1>5 DEF RefcountExact

\* Copying counts every new link, because the new file had none before.
LEMMA CopyRowsExact ==
  ASSUME Inv, NoDangling, Copies, RefcountExact, Settled, NEW t \in Task, CopyRows(t)
  PROVE  RefcountExact'
<1>1. PICK i, j : i = task[t].arg /\ j = task[t].dst
  OBVIOUS
<1> DEFINE shared(o) == {n \in BlockNo : inode_blocks[<<i, n>>] = o}
           copies(o) == {<<j, n>> : n \in shared(o)}
<1>2. i \in Inode /\ j \in Inode /\ task[t].old = None
  BY <1>1 DEF CopyRows, Settled, Inv, Tasks, TaskShape
<1>3. /\ inode_blocks' = [b \in Block |-> IF b[1] = j THEN inode_blocks[<<i, b[2]>>]
                                          ELSE inode_blocks[b]]
      /\ objects' = [o \in DOMAIN objects |->
            [objects[o] EXCEPT !.refcount = @ + Cardinality(shared(o))]]
      /\ task' = [task EXCEPT ![t] = IdleTask]
  BY <1>1 DEF CopyRows
<1>4. \A u \in Task : task'[u].old = task[u].old
  BY <1>2, <1>3 DEF Inv, Tasks, IdleTask
<1>5. i # j /\ \A b \in Block : b[1] = j => inode_blocks[b] = None
  BY <1>1 DEF CopyRows, Copies, Unused
<1>6. ASSUME NEW o \in DOMAIN objects
      PROVE  objects'[o].refcount = Cardinality(Links(o)') + Cardinality(PendingDerefs(o)')
  <2>1. IsFiniteSet(shared(o)) /\ Cardinality(shared(o)) \in Nat
    BY BlockCacheAssumption, FS_Subset, FS_CardinalityType
  <2>2. IsFiniteSet(copies(o)) /\ Cardinality(copies(o)) = Cardinality(shared(o))
    <3>1. [n \in shared(o) |-> <<j, n>>] \in Bijection(shared(o), copies(o))
      BY DEF Bijection, Injection, Surjection, IsInjective
    <3>2. ExistsBijection(shared(o), copies(o))
      BY <3>1 DEF ExistsBijection
    <3> QED  BY <2>1, <3>2, FS_Bijection
  <2>3. o # None
    BY BlockCacheAssumption DEF Inv, Shared
  <2>4. Links(o)' = Links(o) \cup copies(o) /\ Links(o) \cap copies(o) = {}
    <3>1. \A n \in BlockNo : <<i, n>> \in Block /\ <<j, n>> \in Block
      BY <1>2 DEF Block
    <3>2. ASSUME NEW b \in Block, b[1] = j
          PROVE  b \in Links(o)' <=> b \in copies(o)
      <4>1. PICK n \in BlockNo : b = <<j, n>>
        BY <3>2 DEF Block
      <4>2. b \in Links(o)' <=> n \in shared(o)
        BY <1>3, <4>1 DEF Links
      <4>3. b \in copies(o) <=> n \in shared(o)
        BY <4>1
      <4> QED  BY <4>2, <4>3
    <3>3. \A b \in Block : b[1] = j => b \notin Links(o)
      BY <1>5, <2>3 DEF Links
    <3>4. \A b \in Block : b[1] # j => (b \in Links(o)' <=> b \in Links(o))
      BY <1>3 DEF Links
    <3>5. ASSUME NEW b \in copies(o)  PROVE b \in Block /\ b[1] = j
      <4>1. PICK n \in BlockNo : b = <<j, n>>
        OBVIOUS
      <4> QED  BY <3>1, <4>1
    <3>6. Links(o) \subseteq Block /\ Links(o)' \subseteq Block
      BY DEF Links
    <3> HIDE DEF copies
    <3> QED  BY <3>2, <3>3, <3>4, <3>5, <3>6
  <2>5. objects[o].refcount \in Nat /\ objects'[o].refcount = objects[o].refcount + Cardinality(shared(o))
    BY <1>3 DEF Inv, Shared, ObjectRow
  <2>6. PendingDerefs(o)' = PendingDerefs(o)
    BY <1>4 DEF PendingDerefs
  <2> HIDE DEF shared, copies
  <2>7. Cardinality(Links(o)') = Cardinality(Links(o)) + Cardinality(copies(o))
    <3>1. Cardinality(Links(o) \cup copies(o)) =
             Cardinality(Links(o)) + Cardinality(copies(o)) - Cardinality(Links(o) \cap copies(o))
      BY <2>2, LinksFinite, FS_Union
    <3>2. Cardinality(Links(o) \cap copies(o)) = 0
      BY <2>4, FS_EmptySet
    <3> QED  BY <2>1, <2>2, <2>4, <3>1, <3>2, Counts
  <2> QED  BY <2>1, <2>2, <2>5, <2>6, <2>7, Counts DEF RefcountExact
<1>7. DOMAIN objects' = DOMAIN objects
  BY <1>3
<1> QED  BY <1>6, <1>7 DEF RefcountExact

\* Every step of a task.
LEMMA TaskExact ==
  ASSUME Inv, NoDangling, Copies, RefcountExact, Settled, SomeThreadLives, NEW t \in Task,
         Call(t) \/ TaskStep(t)
  PROVE  RefcountExact'
<1>1. CASE UNCHANGED database /\ task'[t].old = task[t].old
  BY <1>1, OthersStay, QuietExact DEF database
<1> QED  BY <1>1, OldSteps, RegisterNewExact, RegisterDupExact, RemoveBlockExact,
            DerefSharedExact, DerefLastExact, CopyRowsExact

\* Every step of a thread.
LEMMA ThreadExact ==
  ASSUME Inv, RefcountExact, Settled, NEW w \in Thread, ThreadStep(w)
  PROVE  RefcountExact' /\ Settled'
<1>1. \A u \in Task : /\ task'[u].old = task[u].old
                      /\ task'[u].pc = task[u].pc \/ (task[u].pc = "wait" /\ task'[u].pc = "pass")
  <2>1. CASE UnlockBlock(w)
    BY <2>1 DEF UnlockBlock, Inv, Tasks, TaskState
  <2> QED  BY <2>1 DEF ThreadStep, WriteObject, WriteFails, FinishUpload, UnlockObject
<1>2. /\ DOMAIN objects' = DOMAIN objects
      /\ \A o \in DOMAIN objects : objects'[o].refcount = objects[o].refcount
      /\ UNCHANGED inode_blocks
  <2>1. CASE FinishUpload(w)
    BY <2>1 DEF FinishUpload, Inv, Shared, ObjectRow
  <2> QED  BY <2>1 DEF ThreadStep, WriteObject, WriteFails, UnlockObject, UnlockBlock, database
<1> QED  BY <1>1, <1>2, QuietExact DEF Settled

\* Every step of the system while an upload thread is left.
LEMMA NextExact ==
  Inv /\ NoDangling /\ Copies /\ SomeThreadLives /\ RefcountExact /\ Settled /\ [Next]_vars
    => RefcountExact' /\ Settled'
<1> SUFFICES ASSUME Inv, NoDangling, Copies, SomeThreadLives, RefcountExact, Settled, [Next]_vars
             PROVE  RefcountExact' /\ Settled'
  OBVIOUS
<1>1. ASSUME UNCHANGED <<objects, inode_blocks, task>>  PROVE RefcountExact' /\ Settled'
  BY <1>1, QuietExact DEF Settled
<1>2. CASE UNCHANGED vars
  BY <1>1, <1>2 DEF vars
<1>3. ASSUME NEW r \in Remover, RemoverStep(r)  PROVE RefcountExact' /\ Settled'
  BY <1>1, <1>3 DEF RemoverStep, RemovalTake, RemovalDelete, database
<1>4. ASSUME NEW i \in Inode, KernelStep(i)  PROVE RefcountExact' /\ Settled'
  BY <1>1, <1>4 DEF KernelStep, Forget, Lookup, database
<1> QED  BY <1>2, <1>3, <1>4, TaskExact, TaskSettled, ThreadExact DEF Next, Step

\* The mounted file system is consistent.
LEMMA InitExact == Init => RefcountExact /\ Settled
<1> SUFFICES ASSUME Init  PROVE  RefcountExact /\ Settled
  OBVIOUS
<1>1. DOMAIN objects = {inode_blocks[b] : b \in Block} \ {None}
  BY DEF Init
<1>2. ASSUME NEW o \in DOMAIN objects
      PROVE  objects[o].refcount = Cardinality(Links(o))
  BY <1>1 DEF Init, Links
<1>3. \A t \in Task : task[t].old = None /\ task[t].pc = "idle"
  BY DEF Init, IdleTask
<1>4. ASSUME NEW o \in DOMAIN objects
      PROVE  Cardinality(PendingDerefs(o)) = 0
  <2>1. PendingDerefs(o) = {}
    BY <1>1, <1>3 DEF PendingDerefs
  <2> QED  BY <2>1, FS_EmptySet
<1> QED  BY <1>2, <1>3, <1>4, Counts DEF RefcountExact, Settled

-----------------------------------------------------------------------------
(* The rows of objects that are being uploaded.                            *)

\* What a task does to the rows it does not delete.
LEMMA RowSteps ==
  ASSUME Inv, NEW t \in Task, Call(t) \/ TaskStep(t)
  PROVE  /\ \A o \in DOMAIN objects \cap DOMAIN objects' :
               objects'[o].phys = objects[o].phys /\ objects'[o].hash = objects[o].hash
         /\ \A o \in DOMAIN objects' \ DOMAIN objects :
               /\ RegisterNew(t) /\ task'[t].obj = o /\ o \notin DOMAIN store
               /\ ~objects'[o].phys /\ objects'[o].hash = data[task[t].el]
<1> DEFINE Kept == \A o \in DOMAIN objects \cap DOMAIN objects' :
               objects'[o].phys = objects[o].phys /\ objects'[o].hash = objects[o].hash
           Added == \A o \in DOMAIN objects' \ DOMAIN objects :
               /\ RegisterNew(t) /\ task'[t].obj = o /\ o \notin DOMAIN store
               /\ ~objects'[o].phys /\ objects'[o].hash = data[task[t].el]
<1>1. ASSUME UNCHANGED objects \/ DerefLast(t)  PROVE Kept /\ Added
  BY <1>1 DEF DerefLast
<1>2. ASSUME RegisterNew(t)  PROVE Kept /\ Added
  <2>1. PICK o \in FreshIds :
        /\ objects' = [x \in DOMAIN objects \cup {o} |->
              IF x = o THEN [refcount |-> 1, hash |-> data[task[t].el], phys |-> FALSE]
                       ELSE objects[x]]
        /\ task' = [task EXCEPT ![t].pc = "queue", ![t].obj = o,
                                ![t].old = inode_blocks[BlockOf(task[t].el)]]
    BY <1>2 DEF RegisterNew
  <2>2. o \notin DOMAIN objects /\ o \notin DOMAIN store
    BY DEF FreshIds, InUse
  <2>3. task'[t].obj = o
    BY <2>1 DEF Inv, Tasks, TaskState
  <2>4. Kept
    BY <2>1, <2>2
  <2>5. Added
    BY <1>2, <2>1, <2>2, <2>3
  <2> QED  BY <2>4, <2>5
<1>3. ASSUME NEW o \in DOMAIN objects, NEW n, objects' = [objects EXCEPT ![o].refcount = n]
      PROVE  Kept /\ Added
  BY <1>3 DEF Inv, Shared, ObjectRow
<1>4. ASSUME RegisterDup(t)  PROVE Kept /\ Added
  <2>1. UNCHANGED objects \/ \E o \in DOMAIN objects : \E n : objects' = [objects EXCEPT ![o].refcount = n]
    BY <1>4 DEF RegisterDup, SameHash, database
  <2> HIDE DEF Kept, Added
  <2> QED  BY <1>1, <1>3, <2>1
<1>5. ASSUME DerefShared(t)  PROVE Kept /\ Added
  <2>1. \E o \in DOMAIN objects : \E n : objects' = [objects EXCEPT ![o].refcount = n]
    BY <1>5 DEF DerefShared
  <2> HIDE DEF Kept, Added
  <2> QED  BY <1>3, <2>1
<1>6. ASSUME CopyRows(t)  PROVE Kept /\ Added
  <2>1. DOMAIN objects' = DOMAIN objects
    BY <1>6 DEF CopyRows
  <2>2. ASSUME NEW o \in DOMAIN objects
        PROVE  objects'[o].phys = objects[o].phys /\ objects'[o].hash = objects[o].hash
    <3>1. \E n : objects'[o] = [objects[o] EXCEPT !.refcount = n]
      BY <1>6 DEF CopyRows
    <3> QED  BY <3>1 DEF Inv, Shared, ObjectRow
  <2> QED  BY <2>1, <2>2
<1>7. ASSUME NEW b, RemoveBlock(t, b)  PROVE Kept /\ Added
  <2>1. UNCHANGED objects
    BY <1>7 DEF RemoveBlock
  <2> QED  BY <1>1, <2>1
<1>8. Kept /\ Added
  <2>1. UNCHANGED database => UNCHANGED objects
    BY DEF database
  <2> HIDE DEF Kept, Added
  <2> QED  BY <1>1, <1>2, <1>4, <1>5, <1>6, <1>7, <2>1, TableSteps
<1> QED  BY <1>8

\* An object that is being uploaded has its row.
LEMMA RowOf ==
  ASSUME Inv, NoDangling, NEW b \in Block, NEW o \in ObjId, inode_blocks[b] = o
  PROVE  o \in DOMAIN objects
BY BlockCacheAssumption DEF NoDangling

\* What the others upload keeps its link and its row.
LEMMA OthersLinked ==
  ASSUME Inv, Inv', NoDangling, NoDangling', LockOwnership, Copies, NEW t \in Task,
         Call(t) \/ TaskStep(t), NEW b \in Block, NEW o \in ObjId, inode_blocks[b] = o,
         b \in locked, b \notin TaskHolds(t)
  PROVE  /\ inode_blocks'[b] = o
         /\ o \in DOMAIN objects /\ o \in DOMAIN objects'
         /\ objects'[o].phys = objects[o].phys /\ objects'[o].hash = objects[o].hash
<1>1. ~(task[t].pc = "hash" /\ BlockOf(task[t].el) = b)
  BY DEF TaskHolds
<1>2. inode_blocks'[b] = o
  BY <1>1, LinkKept
<1>3. o \in DOMAIN objects /\ o \in DOMAIN objects'
  BY <1>2, BlockCacheAssumption DEF NoDangling
<1> QED  BY <1>2, <1>3, RowSteps

\* So does what the task hands to a thread.
LEMMA QueueLinked ==
  ASSUME Inv, Linked, NEW t \in Task, NEW w \in Thread, QueueUpload(t, w)
  PROVE  /\ inode_blocks'[BlockOf(thread'[w].el)] = thread'[w].obj
         /\ ~objects'[thread'[w].obj].phys
         /\ thread'[w].st = "write" /\ thread'[w].el = task[t].el /\ thread'[w].obj = task[t].obj
         /\ ~thread'[w].ok
         /\ \A v \in Thread \ {w} : thread'[v] = thread[v]
<1>1. task[t].pc = "queue" /\ UNCHANGED <<objects, inode_blocks>>
  BY DEF QueueUpload, database
<1>2. /\ thread'[w].st = "write" /\ thread'[w].el = task[t].el /\ thread'[w].obj = task[t].obj
      /\ ~thread'[w].ok
      /\ \A v \in Thread \ {w} : thread'[v] = thread[v]
  BY DEF QueueUpload, Inv, Shared
<1> QED  BY <1>1, <1>2 DEF Linked, BlockOf

\* A task links the block to the object it has inserted.
LEMMA RegisterLinked ==
  ASSUME Inv, NEW t \in Task, RegisterNew(t)
  PROVE  /\ inode_blocks'[BlockOf(task'[t].el)] = task'[t].obj
         /\ task'[t].obj \in DOMAIN objects'
         /\ ~objects'[task'[t].obj].phys
         /\ objects'[task'[t].obj].hash = data[task'[t].el]
<1>1. PICK o \in FreshIds :
        /\ objects' = [x \in DOMAIN objects \cup {o} |->
              IF x = o THEN [refcount |-> 1, hash |-> data[task[t].el], phys |-> FALSE]
                       ELSE objects[x]]
        /\ inode_blocks' = [inode_blocks EXCEPT ![BlockOf(task[t].el)] = o]
        /\ task' = [task EXCEPT ![t].pc = "queue", ![t].obj = o,
                                ![t].old = inode_blocks[BlockOf(task[t].el)]]
  BY DEF RegisterNew
<1>2. task'[t].obj = o /\ task'[t].el = task[t].el
  BY <1>1 DEF Inv, Tasks, TaskState
<1>3. BlockOf(task[t].el) \in Block
  BY UserOf DEF RegisterNew
<1>4. inode_blocks'[BlockOf(task[t].el)] = o
  BY <1>1, <1>3 DEF Inv, Shared
<1> QED  BY <1>1, <1>2, <1>4 DEF BlockOf

\* Tasks leave the backend alone; they only add to the removal queue.
LEMMA StoreSteps ==
  ASSUME NEW t \in Task, Call(t) \/ TaskStep(t)
  PROVE  UNCHANGED <<ids, store>> /\ (UNCHANGED to_remove \/ DerefRemove(t))
<1> DEFINE Same == UNCHANGED <<ids, store>> /\ (UNCHANGED to_remove \/ DerefRemove(t))
<1> USE DEF removal
<1>1. ASSUME Call(t)  PROVE Same
  BY <1>1 DEF Call, GetCall, FlushCall, CommitCall, DropCall, CopyCall, RemoveCall
<1>2. ASSUME GetCached(t) \/ GetNew(t) \/ GetMiss(t) \/ GetWait(t) \/ Download(t)
             \/ DownloadMissing(t) \/ BeginPass(t) \/ ExpireDone(t)
             \/ PassEnd(t) \/ CommitBreak(t) \/ (\E e \in task[t].todo : LoopNext(t, e))
             \/ WaitNothing(t) \/ Evict(t)
      PROVE Same
  BY <1>2 DEF GetCached, GetNew, GetMiss, GetWait, Download, DownloadMissing, BeginPass,
              ExpireDone, PassEnd, CommitBreak, LoopNext, WaitNothing, Evict
<1>3. ASSUME UploadSkip(t) \/ UploadStart(t) \/ RegisterNew(t) \/ RegisterDup(t)
             \/ (\E w \in Thread : QueueUpload(t, w)) \/ QueueFails(t)
             \/ FailReleaseBlock(t) \/ FailReleaseObj(t)
      PROVE Same
  BY <1>3 DEF UploadSkip, UploadStart, RegisterNew, RegisterDup, QueueUpload, QueueFails,
              FailReleaseBlock, FailReleaseObj
<1>4. ASSUME DerefShared(t) \/ DerefLast(t) \/ DerefRemove(t) \/ RemoveDone(t) \/ CopyRows(t)
             \/ \E b \in task[t].todo : RemoveBlock(t, b)
      PROVE Same
  BY <1>4 DEF DerefShared, DerefLast, DerefRemove, RemoveDone, CopyRows, RemoveBlock
<1>5. Same
  <2> HIDE DEF Same, removal
  <2> QED  BY <1>1, <1>2, <1>3, <1>4 DEF TaskStep
<1> QED  BY <1>5

\* A step of a task keeps the links of what is being uploaded.
LEMMA TaskLinked ==
  ASSUME Inv, Inv', NoDangling, NoDangling', LockOwnership, Copies, Linked, NEW t \in Task,
         Call(t) \/ TaskStep(t)
  PROVE  Linked'
<1>1. ASSUME NEW u \in Task \ {t}, task'[u].pc = "queue"
      PROVE  /\ inode_blocks'[BlockOf(task'[u].el)] = task'[u].obj
             /\ ~objects'[task'[u].obj].phys
  <2>1. task'[u] = task[u] /\ task[u].pc = "queue"
    BY <1>1, OthersStay
  <2>2. task[u].obj \in ObjId /\ BlockOf(task[u].el) \in Block
    BY <2>1, UserOf DEF Inv, Tasks, TaskShape
  <2>3. BlockOf(task[u].el) \in locked /\ BlockOf(task[u].el) \notin TaskHolds(t)
    BY <2>1, OneUpload
  <2>4. inode_blocks[BlockOf(task[u].el)] = task[u].obj /\ ~objects[task[u].obj].phys
    BY <2>1 DEF Linked
  <2>5. inode_blocks'[BlockOf(task[u].el)] = task[u].obj /\ ~objects'[task[u].obj].phys
    BY <2>2, <2>3, <2>4, OthersLinked
  <2> QED  BY <2>1, <2>5 DEF BlockOf
<1>2. ASSUME task'[t].pc = "queue"
      PROVE  /\ inode_blocks'[BlockOf(task'[t].el)] = task'[t].obj
             /\ ~objects'[task'[t].obj].phys
  BY <1>2, Arrivals, RegisterLinked
<1>3. ASSUME NEW w \in Thread, thread'[w].st \in {"write", "finish"}
      PROVE  /\ inode_blocks'[BlockOf(thread'[w].el)] = thread'[w].obj
             /\ ~objects'[thread'[w].obj].phys
  <2>1. CASE thread'[w] = thread[w]
    <3>1. thread[w].st \in {"write", "finish"}
      BY <1>3, <2>1
    <3>2. thread[w].obj \in ObjId /\ BlockOf(thread[w].el) \in Block
      BY <3>1, BlockOfEntry DEF Inv, Shared, ThreadShape
    <3>3. BlockOf(thread[w].el) \in locked /\ BlockOf(thread[w].el) \notin TaskHolds(t)
      BY <3>1, OneUpload
    <3>4. inode_blocks[BlockOf(thread[w].el)] = thread[w].obj /\ ~objects[thread[w].obj].phys
      BY <3>1 DEF Linked
    <3>5. inode_blocks'[BlockOf(thread[w].el)] = thread[w].obj /\ ~objects'[thread[w].obj].phys
      BY <3>2, <3>3, <3>4, OthersLinked
    <3> QED  BY <2>1, <3>5 DEF BlockOf
  <2>2. CASE thread'[w] # thread[w]
    <3>1. PICK v \in Thread : QueueUpload(t, v)
      BY <2>2, Departures
    <3>2. v = w
      BY <2>2, <3>1, QueueLinked
    <3> QED  BY <3>1, <3>2, QueueLinked
  <2> QED  BY <2>1, <2>2
<1>4. UNCHANGED store
  BY StoreSteps
<1>5. ASSUME NEW w \in Thread, thread'[w].ok
      PROVE  /\ thread'[w].st # "write"
             /\ thread'[w].st = "finish" => thread'[w].obj \in DOMAIN store'
  <2>1. CASE thread'[w] = thread[w]
    BY <1>4, <1>5, <2>1 DEF Linked
  <2>2. CASE thread'[w] # thread[w]
    BY <1>5, <2>2, Departures, QueueLinked
  <2> QED  BY <2>1, <2>2
<1>6. ASSUME NEW o \in DOMAIN objects', objects'[o].phys
      PROVE  o \in DOMAIN store'
  BY <1>4, <1>6, RowSteps DEF Linked
<1> QED  BY <1>1, <1>2, <1>3, <1>5, <1>6 DEF Linked

\* A thread and everybody else upload different objects.
LEMMA OtherObjects ==
  ASSUME Inv, LockOwnership, NEW w \in Thread, thread[w].st \in {"write", "finish", "unlock"}
  PROVE  /\ \A t \in Task : task[t].pc = "queue" => task[t].obj # thread[w].obj
         /\ \A v \in Thread \ {w} :
               thread[v].st \in {"write", "finish", "unlock"} => thread[v].obj # thread[w].obj
<1>1. thread[w].obj \in ThreadHolds(w)
  BY DEF ThreadHolds
<1>2. \A t \in Task : task[t].pc = "queue" => task[t].obj \in TaskHolds(t)
  BY DEF TaskHolds
<1>3. \A v \in Thread : thread[v].st \in {"write", "finish", "unlock"} => thread[v].obj \in ThreadHolds(v)
  BY DEF ThreadHolds
<1> HIDE DEF ThreadHolds, TaskHolds
<1> QED  BY <1>1, <1>2, <1>3 DEF LockOwnership

\* What a thread changes: its own state, the row of its object, and tasks that
\* wait for it.
LEMMA ThreadChanges ==
  ASSUME Inv, NEW w \in Thread, ThreadStep(w)
  PROVE  /\ UNCHANGED <<inode_blocks, cache, data, to_remove, ids>>
         /\ \A t \in Task : \/ task'[t] = task[t]
                            \/ /\ task[t].pc = "wait" /\ task'[t].pc = "pass"
                               /\ task'[t] = [task[t] EXCEPT !.pc = "pass"]
         /\ \A v \in Thread \ {w} : thread'[v] = thread[v]
         /\ DOMAIN objects' = DOMAIN objects
         /\ UNCHANGED objects \/ FinishUpload(w)
         /\ UNCHANGED store \/ WriteObject(w)
<1> USE DEF database, entries, removal
<1>1. CASE FinishUpload(w)
  BY <1>1 DEF FinishUpload, Inv, Shared
<1>2. CASE WriteObject(w) \/ WriteFails(w) \/ UnlockObject(w)
  BY <1>2 DEF WriteObject, WriteFails, UnlockObject, Inv, Shared
<1>3. CASE UnlockBlock(w)
  BY <1>3 DEF UnlockBlock, Inv, Shared, Tasks, TaskState
<1> QED  BY <1>1, <1>2, <1>3 DEF ThreadStep

\* Where a thread is after a step.
LEMMA ThreadArrives ==
  ASSUME Inv, NEW w \in Thread, ThreadStep(w)
  PROVE  /\ thread'[w].st # "write"
         /\ thread'[w].st = "finish" =>
              /\ thread[w].st = "write"
              /\ thread'[w].el = thread[w].el /\ thread'[w].obj = thread[w].obj
              /\ WriteObject(w) \/ (WriteFails(w) /\ UNCHANGED <<objects, store>>)
              /\ thread'[w].ok => WriteObject(w) \/ thread[w].ok
<1> USE DEF Inv, Shared, UploadState
<1>1. CASE WriteObject(w) \/ WriteFails(w)
  BY <1>1 DEF WriteObject, WriteFails, database
<1>2. CASE FinishUpload(w)
  BY <1>2 DEF FinishUpload
<1>3. CASE UnlockObject(w)
  BY <1>3 DEF UnlockObject
<1>4. CASE UnlockBlock(w)
  BY <1>4 DEF UnlockBlock, IdleThread
<1> QED  BY <1>1, <1>2, <1>3, <1>4 DEF ThreadStep

\* A step of a thread keeps the links of what is being uploaded.
LEMMA ThreadLinked ==
  ASSUME Inv, NoDangling, LockOwnership, Linked, NEW w \in Thread, ThreadStep(w)
  PROVE  Linked'
<1>1. DOMAIN store \subseteq DOMAIN store'
  BY ThreadChanges DEF WriteObject
<1>2. \A o \in DOMAIN objects : o # thread[w].obj => objects'[o] = objects[o]
  BY ThreadChanges DEF FinishUpload
<1>3. ASSUME NEW t \in Task, task'[t].pc = "queue"
      PROVE  /\ inode_blocks'[BlockOf(task'[t].el)] = task'[t].obj
             /\ ~objects'[task'[t].obj].phys
  <2>1. task'[t] = task[t] /\ task[t].pc = "queue"
    BY <1>3, ThreadChanges
  <2>2. inode_blocks[BlockOf(task[t].el)] = task[t].obj /\ ~objects[task[t].obj].phys
    BY <1>3, <2>1 DEF Linked
  <2>3. task[t].obj \in DOMAIN objects
    BY <1>3, <2>1, <2>2, UserOf, RowOf DEF Inv, Tasks, TaskShape
  <2>4. UNCHANGED objects \/ task[t].obj # thread[w].obj
    <3>1. FinishUpload(w) => thread[w].st = "finish"
      BY DEF FinishUpload
    <3> QED  BY <2>1, <3>1, ThreadChanges, OtherObjects
  <2> QED  BY <1>2, <2>1, <2>2, <2>3, <2>4, ThreadChanges DEF BlockOf
<1>4. ASSUME NEW v \in Thread \ {w}, thread'[v].st \in {"write", "finish"}
      PROVE  /\ inode_blocks'[BlockOf(thread'[v].el)] = thread'[v].obj
             /\ ~objects'[thread'[v].obj].phys
  <2>1. thread'[v] = thread[v]
    BY ThreadChanges
  <2>2. inode_blocks[BlockOf(thread[v].el)] = thread[v].obj /\ ~objects[thread[v].obj].phys
    BY <1>4, <2>1 DEF Linked
  <2>3. thread[v].obj \in DOMAIN objects
    BY <1>4, <2>1, <2>2, BlockOfEntry, RowOf DEF Inv, Shared, ThreadShape
  <2>4. UNCHANGED objects \/ thread[v].obj # thread[w].obj
    BY <1>4, <2>1, ThreadChanges, OtherObjects DEF FinishUpload
  <2> QED  BY <1>2, <2>1, <2>2, <2>3, <2>4, ThreadChanges DEF BlockOf
<1>5. ASSUME thread'[w].st \in {"write", "finish"}
      PROVE  /\ inode_blocks'[BlockOf(thread'[w].el)] = thread'[w].obj
             /\ ~objects'[thread'[w].obj].phys
             /\ thread'[w].st # "write"
             /\ thread'[w].ok => thread'[w].obj \in DOMAIN store'
  <2>1. /\ thread[w].st = "write" /\ thread'[w].st = "finish"
        /\ thread'[w].el = thread[w].el /\ thread'[w].obj = thread[w].obj
        /\ UNCHANGED objects
        /\ thread'[w].ok => WriteObject(w)
    BY <1>5, ThreadArrives DEF Linked, WriteObject, database
  <2>2. inode_blocks[BlockOf(thread[w].el)] = thread[w].obj /\ ~objects[thread[w].obj].phys
    BY <2>1 DEF Linked
  <2>3. WriteObject(w) => thread[w].obj \in DOMAIN store'
    BY DEF WriteObject
  <2> QED  BY <2>1, <2>2, <2>3, ThreadChanges DEF BlockOf
<1>6. ASSUME NEW v \in Thread, thread'[v].ok
      PROVE  /\ thread'[v].st # "write"
             /\ thread'[v].st = "finish" => thread'[v].obj \in DOMAIN store'
  <2>1. CASE v = w
    BY <1>5, <1>6, <2>1, ThreadArrives
  <2>2. CASE v # w
    BY <1>1, <1>6, <2>2, ThreadChanges DEF Linked
  <2> QED  BY <2>1, <2>2
<1>7. ASSUME NEW o \in DOMAIN objects', objects'[o].phys
      PROVE  o \in DOMAIN store'
  <2>1. o \in DOMAIN objects
    BY ThreadChanges
  <2>2. CASE objects'[o].phys = objects[o].phys
    BY <1>1, <1>7, <2>1, <2>2 DEF Linked
  <2>3. CASE objects'[o].phys # objects[o].phys
    <3>1. FinishUpload(w) /\ o = thread[w].obj
      BY <1>2, <2>1, <2>3, ThreadChanges
    <3>2. thread[w].ok
      BY <2>1, <2>3, <3>1 DEF FinishUpload, Inv, Shared, ObjectRow
    <3> QED  BY <1>1, <3>1, <3>2 DEF FinishUpload, Linked
  <2> QED  BY <2>2, <2>3
<1> QED  BY <1>3, <1>4, <1>5, <1>6, <1>7 DEF Linked

-----------------------------------------------------------------------------
(* Objects on their way to removal.                                        *)

\* _deref_obj and upload_if_dirty forget the object they have dealt with.
LEMMA ReturnLeaves ==
  ASSUME Inv, NEW t \in Task
  PROVE  ~UploadReturns(t, TRUE).size /\ ~UploadReturns(t, FALSE).size /\ ~DerefReturns(t).size
<1>1. \A x \in BOOLEAN : ~UploadReturns(t, x).size
  BY DEF UploadReturns, Inv, Tasks, TaskState
<1> QED  BY <1>1 DEF DerefReturns, Inv, Tasks, TaskState

\* Only _deref_obj takes an object out of the database.
LEMMA LeavingSteps ==
  ASSUME Inv, NEW t \in Task, Call(t) \/ TaskStep(t)
  PROVE  /\ DerefLast(t) \/ (Leaving(t)' \subseteq Leaving(t))
         /\ DerefRemove(t) => Leaving(t)' = {}
<1> DEFINE Same == task'[t].size => task[t].size /\ task'[t].gone = task[t].gone
           Clear == ~task'[t].size
<1> USE DEF Inv, Tasks, TaskState
<1>1. ASSUME Call(t)  PROVE Same
  <2>1. ASSUME NEW op, NEW b, GetCall(t, op, b)  PROVE Same
    BY <2>1 DEF GetCall
  <2>2. ASSUME FlushCall(t) \/ CommitCall(t) \/ DropCall(t)  PROVE Same
    BY <2>2 DEF FlushCall, CommitCall, DropCall
  <2>3. ASSUME NEW i, NEW j, CopyCall(t, i, j)  PROVE Same
    BY <2>3 DEF CopyCall
  <2>4. ASSUME NEW i, NEW N, RemoveCall(t, i, N)  PROVE Same
    BY <2>4 DEF RemoveCall
  <2> HIDE DEF Same
  <2> QED  BY <1>1, <2>1, <2>2, <2>3, <2>4 DEF Call
<1>2. ASSUME GetCached(t) \/ GetNew(t) \/ Download(t) \/ DownloadMissing(t) \/ CommitBreak(t)
             \/ FailReleaseObj(t) \/ RemoveDone(t) \/ CopyRows(t)
      PROVE Same
  <2>1. task'[t] = IdleTask
    BY <1>2 DEF GetCached, GetNew, Download, Use, DownloadMissing, CommitBreak,
                FailReleaseObj, RemoveDone, CopyRows
  <2> QED  BY <2>1 DEF IdleTask
<1>3. ASSUME GetMiss(t) \/ GetWait(t) \/ BeginPass(t) \/ WaitNothing(t)  PROVE Same
  BY <1>3 DEF GetMiss, GetWait, BeginPass, WaitNothing
<1>4. ASSUME ExpireDone(t)  PROVE Same
  BY <1>4 DEF ExpireDone, IdleTask
<1>5. ASSUME PassEnd(t)  PROVE Same
  BY <1>5 DEF PassEnd, IdleTask
<1>6. ASSUME NEW e \in task[t].todo, LoopNext(t, e)  PROVE Same
  BY <1>6 DEF LoopNext
<1>7. ASSUME Evict(t) \/ UploadStart(t) \/ QueueFails(t) \/ FailReleaseBlock(t)  PROVE Same
  BY <1>7 DEF Evict, UploadStart, QueueFails, FailReleaseBlock
<1>8. ASSUME UploadSkip(t) \/ DerefShared(t) \/ DerefRemove(t)  PROVE Clear
  <2>1. task'[t] \in {UploadReturns(t, FALSE), DerefReturns(t)}
    BY <1>8 DEF UploadSkip, DerefShared, DerefRemove
  <2> QED  BY <2>1, ReturnLeaves
<1>9. ASSUME RegisterNew(t)  PROVE Same
  <2>1. \E o, x : task' = [task EXCEPT ![t].pc = "queue", ![t].obj = o, ![t].old = x]
    BY <1>9 DEF RegisterNew
  <2> QED  BY <2>1
<1>10. ASSUME RegisterDup(t) \/ \E w \in Thread : QueueUpload(t, w)  PROVE Same
  <2>1. \/ task'[t] = UploadReturns(t, FALSE) \/ task'[t] = UploadReturns(t, TRUE)
        \/ \E o : task'[t] = [task[t] EXCEPT !.pc = "deref", !.old = o]
        \/ task'[t] = [task[t] EXCEPT !.pc = "deref"]
    BY <1>10 DEF RegisterDup, QueueUpload
  <2>2. ASSUME NEW o, task'[t] = [task[t] EXCEPT !.pc = "deref", !.old = o]  PROVE Same
    BY <2>2
  <2>3. ASSUME task'[t] = [task[t] EXCEPT !.pc = "deref"]  PROVE Same
    BY <2>3
  <2> QED  BY <2>1, <2>2, <2>3, ReturnLeaves
<1>11. ASSUME NEW b \in task[t].todo, RemoveBlock(t, b)  PROVE Same
  BY <1>11 DEF RemoveBlock
<1>12. /\ DerefLast(t) \/ Same
       /\ DerefRemove(t) => Clear
  <2>1. Clear => Same
    OBVIOUS
  <2> HIDE DEF Same, Clear, Inv, Tasks, TaskState
  <2> QED  BY <1>1, <1>2, <1>3, <1>4, <1>5, <1>6, <1>7, <1>8, <1>9, <1>10, <1>11, <2>1
           DEF TaskStep
<1> QED  BY <1>12 DEF Leaving

\* A step of a task: the last reference goes, or the object is queued.
LEMMA TaskRemoving ==
  ASSUME Inv, Linked, Removing, NEW t \in Task, Call(t) \/ TaskStep(t)
  PROVE  Removing'
<1>1. UNCHANGED <<ids, store>> /\ (UNCHANGED to_remove \/ DerefRemove(t))
  BY StoreSteps
<1>2. \A u \in Task \ {t} : Leaving(u)' = Leaving(u)
  BY OthersStay DEF Leaving
<1>3. \A o \in DOMAIN objects' : o \in DOMAIN objects \/ o \notin DOMAIN store
  BY RowSteps
<1>4. CASE DerefLast(t)
  <2>1. PICK o \in DOMAIN objects : o = task[t].old
    BY <1>4 DEF DerefLast
  <2>2. task'[t].gone = o /\ task'[t].size = objects[o].phys
    BY <1>4, <2>1 DEF DerefLast, Inv, Tasks, TaskState
  <2>3. o \notin DOMAIN objects' /\ DOMAIN objects' \subseteq DOMAIN objects
    BY <1>4, <2>1 DEF DerefLast
  <2>4. Leaving(t)' \subseteq {o} \cap DOMAIN store
    BY <2>2 DEF Leaving, Linked
  <2>5. UNCHANGED to_remove
    BY <1>4 DEF DerefLast, removal
  <2>6. o \notin to_remove /\ (\A r \in Remover : o \notin ids[r]) /\ \A u \in Task : o \notin Leaving(u)
    BY DEF Removing
  <2> QED  BY <1>1, <1>2, <2>3, <2>4, <2>5, <2>6 DEF Removing
<1>5. CASE DerefRemove(t)
  <2>1. Leaving(t)' = {}
    BY <1>5, LeavingSteps
  <2>2. to_remove' \subseteq to_remove \cup Leaving(t)
    BY <1>5 DEF DerefRemove, Leaving
  <2> QED  BY <1>1, <1>2, <1>3, <2>1, <2>2 DEF Removing
<1>6. CASE ~DerefLast(t) /\ UNCHANGED to_remove
  <2>1. Leaving(t)' \subseteq Leaving(t)
    BY <1>6, LeavingSteps
  <2>2. \A u \in Task : Leaving(u)' \subseteq Leaving(u)
    BY <1>2, <2>1
  <2> QED  BY <1>1, <1>3, <1>6, <2>2 DEF Removing
<1> QED  BY <1>1, <1>4, <1>5, <1>6

\* Threads add to the backend, and leave the rest alone.
LEMMA ThreadRemoving ==
  ASSUME Inv, Removing, NEW w \in Thread, ThreadStep(w)
  PROVE  Removing'
<1>1. /\ DOMAIN store \subseteq DOMAIN store' /\ DOMAIN objects' = DOMAIN objects
      /\ UNCHANGED <<to_remove, ids>>
  BY ThreadChanges DEF WriteObject
<1>2. \A t \in Task : Leaving(t)' = Leaving(t)
  <2> SUFFICES ASSUME NEW t \in Task  PROVE Leaving(t)' = Leaving(t)
    OBVIOUS
  <2>1. CASE task'[t] = task[t]
    BY <2>1 DEF Leaving
  <2>2. CASE task'[t] = [task[t] EXCEPT !.pc = "pass"]
    BY <2>2 DEF Leaving, Inv, Tasks, TaskState
  <2> QED  BY <2>1, <2>2, ThreadChanges
<1> QED  BY <1>1, <1>2 DEF Removing

\* The removal threads move objects from the queue out of the backend.
LEMMA RemoverRemoving ==
  ASSUME Inv, Removing, NEW r \in Remover, RemoverStep(r)
  PROVE  Removing'
<1>1. UNCHANGED <<objects, task>> /\ \A t \in Task : Leaving(t)' = Leaving(t)
  BY DEF RemoverStep, RemovalTake, RemovalDelete, Leaving, database
<1>2. ASSUME NEW o \in to_remove, RemovalTake(r, o)  PROVE Removing'
  <2>1. /\ to_remove' = to_remove \ {o} /\ ids'[r] = ids[r] \cup {o} /\ UNCHANGED store
        /\ \A s \in Remover \ {r} : ids'[s] = ids[s]
    BY <1>2 DEF RemovalTake, Inv, Shared
  <2> QED  BY <1>1, <2>1 DEF Removing
<1>3. ASSUME RemovalDelete(r)  PROVE Removing'
  <2>1. /\ UNCHANGED to_remove /\ ids'[r] = {} /\ DOMAIN store' = DOMAIN store \ ids[r]
        /\ \A s \in Remover \ {r} : ids'[s] = ids[s]
    BY <1>3 DEF RemovalDelete, Inv, Shared
  <2> QED  BY <1>1, <2>1 DEF Removing
<1> QED  BY <1>2, <1>3 DEF RemoverStep

\* They do not touch what is being uploaded.
LEMMA RemoverLinked ==
  ASSUME Inv, NoDangling, Linked, Removing, NEW r \in Remover, RemoverStep(r)
  PROVE  Linked'
<1>1. UNCHANGED <<objects, inode_blocks, task, thread>>
  BY DEF RemoverStep, RemovalTake, RemovalDelete, database
<1>2. \A o \in DOMAIN objects : o \in DOMAIN store => o \in DOMAIN store'
  BY DEF RemoverStep, RemovalTake, RemovalDelete, Removing
<1>3. \A w \in Thread : thread[w].st = "finish" => thread[w].obj \in DOMAIN objects
  <2> SUFFICES ASSUME NEW w \in Thread, thread[w].st = "finish"
               PROVE  thread[w].obj \in DOMAIN objects
    OBVIOUS
  <2>1. thread[w].obj \in ObjId /\ BlockOf(thread[w].el) \in Block
    BY BlockOfEntry DEF Inv, Shared, ThreadShape
  <2>2. inode_blocks[BlockOf(thread[w].el)] = thread[w].obj
    BY DEF Linked
  <2> QED  BY <2>1, <2>2, RowOf
<1> QED  BY <1>1, <1>2, <1>3 DEF Linked, BlockOf

\* Every step of the system.
LEMMA NextRemoving ==
  Inv /\ NoDangling /\ LockOwnership /\ Copies /\ Linked /\ Removing /\ Inv' /\ NoDangling'
      /\ [Next]_vars
    => Linked' /\ Removing'
<1> SUFFICES ASSUME Inv, NoDangling, LockOwnership, Copies, Linked, Removing, Inv', NoDangling',
                    [Next]_vars
             PROVE  Linked' /\ Removing'
  OBVIOUS
<1>1. ASSUME UNCHANGED <<objects, inode_blocks, task, thread, store, to_remove, ids>>
      PROVE  Linked' /\ Removing'
  BY <1>1 DEF Linked, Removing, Leaving, BlockOf
<1>2. CASE UNCHANGED vars
  BY <1>1, <1>2 DEF vars
<1>3. ASSUME NEW i \in Inode, KernelStep(i)  PROVE Linked' /\ Removing'
  BY <1>1, <1>3 DEF KernelStep, Forget, Lookup, database, removal
<1> QED  BY <1>2, <1>3, TaskLinked, TaskRemoving, ThreadLinked, ThreadRemoving, RemoverLinked,
            RemoverRemoving DEF Next, Step

\* Nothing is uploaded or removed at first, and what has a row is stored.
LEMMA InitRemoving == Init => Linked /\ Removing
<1> SUFFICES ASSUME Init  PROVE Linked /\ Removing
  OBVIOUS
<1>1. \A t \in Task : task[t].pc = "idle" /\ ~task[t].size
  BY DEF Init, IdleTask
<1>2. \A w \in Thread : thread[w].st = "idle"
  BY DEF Init, IdleThread
<1>3. DOMAIN objects = DOMAIN store
  BY DEF Init
<1>4. to_remove = {} /\ \A r \in Remover : ids[r] = {}
  BY DEF Init
<1>5. \A t \in Task : Leaving(t) = {}
  BY <1>1 DEF Leaving
<1> QED  BY <1>1, <1>2, <1>3, <1>4, <1>5 DEF Linked, Removing

\* What is on its way to removal is referenced by nobody.
LEMMA SafeRemoval == Inv /\ NoDangling /\ Removing => RemovalSafe
<1> SUFFICES ASSUME Inv, NoDangling, Removing,
                    NEW o \in to_remove \cup (UNION {ids[r] : r \in Remover})
                              \cup {task[t].gone : t \in {u \in Task : task[u].size}}
             PROVE  o \in DOMAIN store /\ o \notin DOMAIN objects /\ Links(o) = {}
  BY DEF RemovalSafe
<1>1. o \in DOMAIN store /\ o \notin DOMAIN objects
  <2>1. CASE o \in to_remove \/ \E r \in Remover : o \in ids[r]
    BY <2>1 DEF Removing
  <2>2. CASE \E t \in Task : task[t].size /\ task[t].gone = o
    BY <2>2 DEF Removing, Leaving
  <2> QED  BY <2>1, <2>2
<1>2. o # None
  BY <1>1, BlockCacheAssumption DEF Inv, Shared
<1> QED  BY <1>1, <1>2 DEF NoDangling, Links

-----------------------------------------------------------------------------
(* What the hashes promise.                                                *)

\* A step of a task keeps content and hash of what is being uploaded together.
LEMMA TaskStored ==
  ASSUME Inv, Inv', NoDangling, NoDangling', LockOwnership, Copies, Linked, Stored,
         NEW t \in Task, Call(t) \/ TaskStep(t)
  PROVE  Stored'
<1>1. ASSUME NEW u \in Task \ {t}, task'[u].pc = "queue"
      PROVE  data'[task'[u].el] = objects'[task'[u].obj].hash
  <2>1. task'[u] = task[u] /\ task[u].pc = "queue"
    BY <1>1, OthersStay
  <2>2. task[u].obj \in ObjId /\ BlockOf(task[u].el) \in Block /\ task[u].el \in CacheEntry
    BY <2>1, UserOf DEF Inv, Tasks, TaskShape
  <2>3. BlockOf(task[u].el) \in locked /\ BlockOf(task[u].el) \notin TaskHolds(t)
    BY <2>1, OneUpload
  <2>4. inode_blocks[BlockOf(task[u].el)] = task[u].obj
    BY <2>1 DEF Linked
  <2>5. objects'[task[u].obj].hash = objects[task[u].obj].hash
    BY <2>2, <2>3, <2>4, OthersLinked
  <2>6. data'[task[u].el] = data[task[u].el]
    BY <2>1, <2>2, OthersUpload
  <2> QED  BY <2>1, <2>5, <2>6 DEF Stored
<1>2. ASSUME task'[t].pc = "queue"
      PROVE  data'[task'[t].el] = objects'[task'[t].obj].hash
  BY <1>2, Arrivals, RegisterLinked DEF RegisterNew, entries
<1>3. ASSUME NEW w \in Thread, thread'[w].st \in {"write", "finish"}
      PROVE  data'[thread'[w].el] = objects'[thread'[w].obj].hash
  <2>1. CASE thread'[w] = thread[w]
    <3>1. thread[w].st \in {"write", "finish"}
      BY <1>3, <2>1
    <3>2. thread[w].obj \in ObjId /\ BlockOf(thread[w].el) \in Block /\ thread[w].el \in CacheEntry
      BY <3>1, BlockOfEntry DEF Inv, Shared, ThreadShape
    <3>3. BlockOf(thread[w].el) \in locked /\ BlockOf(thread[w].el) \notin TaskHolds(t)
      BY <3>1, OneUpload
    <3>4. inode_blocks[BlockOf(thread[w].el)] = thread[w].obj
      BY <3>1 DEF Linked
    <3>5. objects'[thread[w].obj].hash = objects[thread[w].obj].hash
      BY <3>2, <3>3, <3>4, OthersLinked
    <3>6. data'[thread[w].el] = data[thread[w].el]
      BY <3>1, <3>2, OthersUpload
    <3> QED  BY <2>1, <3>1, <3>5, <3>6 DEF Stored
  <2>2. CASE thread'[w] # thread[w]
    <3>1. PICK v \in Thread : QueueUpload(t, v)
      BY <2>2, Departures
    <3>2. v = w
      BY <2>2, <3>1, QueueLinked
    <3>3. UNCHANGED <<data, objects>> /\ task[t].pc = "queue"
      BY <3>1 DEF QueueUpload, entries, database
    <3> QED  BY <3>1, <3>2, <3>3, QueueLinked DEF Stored
  <2> QED  BY <2>1, <2>2
<1>4. ASSUME NEW o \in DOMAIN objects' \cap DOMAIN store', objects'[o].hash # None
      PROVE  store'[o] = objects'[o].hash
  BY <1>4, RowSteps, StoreSteps DEF Stored
<1> QED  BY <1>1, <1>2, <1>3, <1>4 DEF Stored

\* A thread stores the content that was hashed.
LEMMA ThreadStored ==
  ASSUME Inv, NoDangling, LockOwnership, Linked, Stored, NEW w \in Thread, ThreadStep(w)
  PROVE  Stored'
<1>1. \A o \in DOMAIN objects : o # thread[w].obj => objects'[o] = objects[o]
  BY ThreadChanges DEF FinishUpload
<1>2. FinishUpload(w) => thread[w].st = "finish"
  BY DEF FinishUpload
<1>3. ASSUME NEW t \in Task, task'[t].pc = "queue"
      PROVE  data'[task'[t].el] = objects'[task'[t].obj].hash
  <2>1. task'[t] = task[t] /\ task[t].pc = "queue"
    BY <1>3, ThreadChanges
  <2>2. task[t].obj \in DOMAIN objects
    BY <2>1, UserOf, RowOf DEF Linked, Inv, Tasks, TaskShape
  <2>3. UNCHANGED objects \/ task[t].obj # thread[w].obj
    BY <1>2, <2>1, ThreadChanges, OtherObjects
  <2> QED  BY <1>1, <2>1, <2>2, <2>3, ThreadChanges DEF Stored
<1>4. ASSUME NEW v \in Thread, thread'[v].st \in {"write", "finish"}
      PROVE  data'[thread'[v].el] = objects'[thread'[v].obj].hash
  <2>1. CASE v = w
    <3>1. /\ thread[w].st = "write"
          /\ thread'[w].el = thread[w].el /\ thread'[w].obj = thread[w].obj
          /\ UNCHANGED objects
      BY <1>4, <2>1, ThreadArrives DEF WriteObject, database
    <3> QED  BY <2>1, <3>1, ThreadChanges DEF Stored
  <2>2. CASE v # w
    <3>1. thread'[v] = thread[v] /\ thread[v].st \in {"write", "finish"}
      BY <1>4, <2>2, ThreadChanges
    <3>2. thread[v].obj \in DOMAIN objects
      BY <3>1, BlockOfEntry, RowOf DEF Linked, Inv, Shared, ThreadShape
    <3>3. UNCHANGED objects \/ thread[v].obj # thread[w].obj
      BY <1>2, <2>2, <3>1, ThreadChanges, OtherObjects
    <3> QED  BY <1>1, <3>1, <3>2, <3>3, ThreadChanges DEF Stored
  <2> QED  BY <2>1, <2>2
<1>5. ASSUME NEW o \in DOMAIN objects' \cap DOMAIN store', objects'[o].hash # None
      PROVE  store'[o] = objects'[o].hash
  <2>1. o \in DOMAIN objects /\ objects'[o].hash = objects[o].hash
    <3>1. o \in DOMAIN objects
      BY ThreadChanges
    <3>2. CASE FinishUpload(w)
      BY <1>5, <3>1, <3>2 DEF FinishUpload, Inv, Shared, ObjectRow
    <3> QED  BY <3>1, <3>2, ThreadChanges
  <2>2. CASE WriteObject(w)
    <3>1. store'[o] = IF o = thread[w].obj THEN data[thread[w].el] ELSE store[o]
      BY <1>5, <2>2 DEF WriteObject
    <3>2. o # thread[w].obj => o \in DOMAIN store
      BY <1>5, <2>2 DEF WriteObject
    <3>3. data[thread[w].el] = objects[thread[w].obj].hash
      BY <2>2 DEF WriteObject, Stored
    <3> QED  BY <1>5, <2>1, <3>1, <3>2, <3>3 DEF Stored
  <2>3. CASE UNCHANGED store
    BY <1>5, <2>1, <2>3 DEF Stored
  <2> QED  BY <2>2, <2>3, ThreadChanges
<1> QED  BY <1>3, <1>4, <1>5 DEF Stored

\* Every step of the system.
LEMMA NextStored ==
  Inv /\ NoDangling /\ LockOwnership /\ Copies /\ Linked /\ Stored /\ Inv' /\ NoDangling'
      /\ [Next]_vars
    => Stored'
<1> SUFFICES ASSUME Inv, NoDangling, LockOwnership, Copies, Linked, Stored, Inv', NoDangling',
                    [Next]_vars
             PROVE  Stored'
  OBVIOUS
<1>1. ASSUME UNCHANGED <<objects, data, task, thread>>, DOMAIN store' \subseteq DOMAIN store,
             \A o \in DOMAIN store' : store'[o] = store[o]
      PROVE  Stored'
  BY <1>1 DEF Stored
<1>2. CASE UNCHANGED vars
  BY <1>1, <1>2 DEF vars
<1>3. ASSUME NEW i \in Inode, KernelStep(i)  PROVE Stored'
  BY <1>1, <1>3 DEF KernelStep, Forget, Lookup, database, entries
<1>4. ASSUME NEW r \in Remover, RemoverStep(r)  PROVE Stored'
  BY <1>1, <1>4 DEF RemoverStep, RemovalTake, RemovalDelete, database, entries
<1> QED  BY <1>2, <1>3, <1>4, TaskStored, ThreadStored DEF Next, Step

\* An object that is not in the backend yet is passed from task to thread.
LEMMA TaskAwaited ==
  ASSUME Inv, Linked, Settled, SomeThreadLives, Awaited, NEW t \in Task, Call(t) \/ TaskStep(t)
  PROVE  Awaited'
<1> SUFFICES ASSUME NEW o \in DOMAIN objects' \ DOMAIN store', objects'[o].hash # None
             PROVE  \/ \E u \in Task : task'[u].pc = "queue" /\ task'[u].obj = o
                    \/ \E w \in Thread : thread'[w].st \in {"write", "finish"} /\ thread'[w].obj = o
  BY DEF Awaited
<1>1. CASE o \notin DOMAIN objects
  <2>1. RegisterNew(t) /\ task'[t].obj = o
    BY <1>1, RowSteps
  <2>2. task'[t].pc = "queue"
    <3>1. \E x, y : task' = [task EXCEPT ![t].pc = "queue", ![t].obj = x, ![t].old = y]
      BY <2>1 DEF RegisterNew
    <3> QED  BY <3>1 DEF Inv, Tasks, TaskState
  <2> QED  BY <2>1, <2>2
<1>2. CASE o \in DOMAIN objects
  <2>1. \/ \E u \in Task : task[u].pc = "queue" /\ task[u].obj = o
        \/ \E w \in Thread : thread[w].st \in {"write", "finish"} /\ thread[w].obj = o
    BY <1>2, RowSteps, StoreSteps DEF Awaited
  <2>2. ASSUME NEW w \in Thread, thread[w].st \in {"write", "finish"}  PROVE thread'[w] = thread[w]
    <3>1. ASSUME NEW v \in Thread, QueueUpload(t, v)  PROVE thread'[w] = thread[w]
      BY <2>2, <3>1 DEF QueueUpload, Inv, Shared
    <3> QED  BY <3>1, Departures
  <2>3. ASSUME task[t].pc = "queue", task[t].obj = o
        PROVE  \E w \in Thread : thread'[w].st \in {"write", "finish"} /\ thread'[w].obj = o
    <3>1. PICK w \in Thread : QueueUpload(t, w)
      BY <2>3, Departures, NotGivenUp
    <3> QED  BY <2>3, <3>1, QueueLinked
  <2>4. \A u \in Task \ {t} : task'[u] = task[u]
    BY OthersStay
  <2> QED  BY <2>1, <2>2, <2>3, <2>4
<1> QED  BY <1>1, <1>2

\* A thread stores it or takes the hash back.
LEMMA ThreadAwaited ==
  ASSUME Inv, Linked, Awaited, NEW w \in Thread, ThreadStep(w)
  PROVE  Awaited'
<1> SUFFICES ASSUME NEW o \in DOMAIN objects' \ DOMAIN store', objects'[o].hash # None
             PROVE  \/ \E u \in Task : task'[u].pc = "queue" /\ task'[u].obj = o
                    \/ \E v \in Thread : thread'[v].st \in {"write", "finish"} /\ thread'[v].obj = o
  BY DEF Awaited
<1>1. o \in DOMAIN objects /\ o \notin DOMAIN store
  BY ThreadChanges DEF WriteObject
<1>2. objects[o].hash # None
  <2>1. CASE FinishUpload(w)
    BY <1>1, <2>1 DEF FinishUpload, Inv, Shared, ObjectRow
  <2> QED  BY <2>1, ThreadChanges
<1>3. \A u \in Task : task[u].pc = "queue" => task'[u] = task[u]
  BY ThreadChanges
<1>4. ASSUME thread[w].st \in {"write", "finish"}, thread[w].obj = o
      PROVE  thread'[w].st \in {"write", "finish"} /\ thread'[w].obj = o
  <2>1. ~WriteObject(w)
    BY <1>4 DEF WriteObject
  <2>2. ~FinishUpload(w)
    <3>1. CASE thread[w].ok
      BY <1>1, <1>4, <3>1 DEF FinishUpload, Linked
    <3>2. CASE ~thread[w].ok
      BY <1>1, <1>4, <3>2 DEF FinishUpload, Inv, Shared, ObjectRow
    <3> QED  BY <3>1, <3>2
  <2>3. WriteFails(w)
    BY <1>4, <2>1, <2>2 DEF ThreadStep, UnlockObject, UnlockBlock
  <2> QED  BY <1>4, <2>3 DEF WriteFails, Inv, Shared, UploadState
<1>5. \A v \in Thread \ {w} : thread'[v] = thread[v]
  BY ThreadChanges
<1>6. \/ \E u \in Task : task[u].pc = "queue" /\ task[u].obj = o
      \/ \E v \in Thread : thread[v].st \in {"write", "finish"} /\ thread[v].obj = o
  BY <1>1, <1>2 DEF Awaited
<1> QED  BY <1>3, <1>4, <1>5, <1>6

\* Every step of the system while an upload thread is left.
LEMMA NextAwaited ==
  Inv /\ Linked /\ Removing /\ Settled /\ SomeThreadLives /\ Awaited /\ [Next]_vars => Awaited'
<1> SUFFICES ASSUME Inv, Linked, Removing, Settled, SomeThreadLives, Awaited, [Next]_vars
             PROVE  Awaited'
  OBVIOUS
<1>1. ASSUME UNCHANGED <<objects, task, thread>>, DOMAIN objects \cap DOMAIN store \subseteq DOMAIN store'
      PROVE  Awaited'
  BY <1>1 DEF Awaited
<1>2. CASE UNCHANGED vars
  BY <1>1, <1>2 DEF vars
<1>3. ASSUME NEW i \in Inode, KernelStep(i)  PROVE Awaited'
  BY <1>1, <1>3 DEF KernelStep, Forget, Lookup, database
<1>4. ASSUME NEW r \in Remover, RemoverStep(r)  PROVE Awaited'
  BY <1>1, <1>4 DEF RemoverStep, RemovalTake, RemovalDelete, database, Removing
<1> QED  BY <1>2, <1>3, <1>4, TaskAwaited, ThreadAwaited DEF Next, Step

\* At first every object is in the backend with the content its hash names.
LEMMA InitStored == Init => Stored /\ Awaited
<1> SUFFICES ASSUME Init  PROVE Stored /\ Awaited
  OBVIOUS
<1>1. \A t \in Task : task[t].pc = "idle"
  BY DEF Init, IdleTask
<1>2. \A w \in Thread : thread[w].st = "idle"
  BY DEF Init, IdleThread
<1>3. DOMAIN objects = DOMAIN store /\ \A o \in DOMAIN objects : objects[o].hash = store[o]
  <2>1. PICK linked : linked = {inode_blocks[b] : b \in Block} \ {None}
    OBVIOUS
  <2>2. PICK hash \in [linked -> Data] :
          /\ objects = [o \in linked |->
               [refcount |-> Cardinality({b \in Block : inode_blocks[b] = o}),
                hash |-> hash[o], phys |-> TRUE]]
          /\ store = hash
    BY <2>1 DEF Init
  <2> QED  BY <2>2
<1> QED  BY <1>1, <1>2, <1>3 DEF Stored, Awaited

-----------------------------------------------------------------------------
(* The specification.                                                      *)

\* A thread whose connection never fails does not die.
Lasting(w) ==
    /\ thread[w].st # "dead"
    /\ thread[w].st \in {"finish", "unlock", "unlock_block"} => thread[w].ok

\* Every step of the system.
LEMMA NextLasting ==
  ASSUME NEW w \in Thread, w \notin Faulty
  PROVE  Inv /\ Lasting(w) /\ [Next]_vars => Lasting(w)'
<1> SUFFICES ASSUME Inv, Lasting(w), [Next]_vars  PROVE Lasting(w)'
  OBVIOUS
<1>1. ASSUME thread'[w] = thread[w]  PROVE Lasting(w)'
  BY <1>1 DEF Lasting
<1>2. ASSUME NEW t \in Task, Call(t) \/ TaskStep(t)  PROVE Lasting(w)'
  <2>1. ASSUME NEW v \in Thread, QueueUpload(t, v)  PROVE Lasting(w)'
    BY <2>1 DEF QueueUpload, Lasting, Inv, Shared
  <2> QED  BY <1>1, <1>2, <2>1, Departures
<1>3. ASSUME NEW v \in Thread, ThreadStep(v)  PROVE Lasting(w)'
  <2>1. CASE v # w
    BY <1>1, <1>3, <2>1, ThreadChanges
  <2>2. CASE v = w
    <3> USE DEF Lasting, Inv, Shared, UploadState
    <3>1. CASE WriteObject(w)
      BY <3>1 DEF WriteObject
    <3>2. CASE FinishUpload(w)
      BY <3>2 DEF FinishUpload
    <3>3. CASE UnlockObject(w)
      BY <3>3 DEF UnlockObject
    <3>4. CASE UnlockBlock(w)
      BY <3>4 DEF UnlockBlock, IdleThread
    <3> QED  BY <1>3, <2>2, <3>1, <3>2, <3>3, <3>4 DEF ThreadStep, WriteFails
  <2> QED  BY <2>1, <2>2
<1>4. CASE UNCHANGED vars
  BY <1>1, <1>4 DEF vars
<1>5. ASSUME NEW i \in Inode, KernelStep(i)  PROVE Lasting(w)'
  BY <1>1, <1>5 DEF KernelStep, Forget, Lookup
<1>6. ASSUME NEW r \in Remover, RemoverStep(r)  PROVE Lasting(w)'
  BY <1>1, <1>6 DEF RemoverStep, RemovalTake, RemovalDelete
<1> QED  BY <1>2, <1>3, <1>4, <1>5, <1>6 DEF Next, Step

\* The invariants that hold whatever fails.
LEMMA Invariants ==
  Spec => [](Inv /\ LockOwnership /\ Uploads /\ Copies /\ NoDangling /\ Linked /\ Removing /\ Stored)
<1>1. Spec => []Inv
  BY InitInv, NextInv, PTL DEF Spec
<1>2. Spec => [](LockOwnership /\ NoDangling)
  BY <1>1, InitLocks, NextLocks, InitRefs, NextRefs, PTL DEF Spec
<1>3. Spec => [](Uploads /\ Copies)
  BY <1>1, <1>2, InitUploads, NextUploads, NextCopies, PTL DEF Spec
<1>4. Spec => [](Linked /\ Removing)
  BY <1>1, <1>2, <1>3, InitRemoving, NextRemoving, PTL DEF Spec
<1>5. Spec => []Stored
  BY <1>1, <1>2, <1>3, <1>4, InitStored, NextStored, PTL DEF Spec
<1> QED  BY <1>1, <1>2, <1>3, <1>4, <1>5, PTL

(***************************************************************************)
(* _deref_obj and the removal threads, for every number of tasks, threads, *)
(* files and blocks and whatever uploads fail: an object that is queued    *)
(* for removal, or being removed, is in the backend and no row and no      *)
(* block refers to it, although its phys_size is read before the wait for  *)
(* its lock.                                                               *)
(***************************************************************************)
THEOREM NothingNeededRemoved == Spec => []RemovalSafe
BY Invariants, SafeRemoval, PTL

(***************************************************************************)
(* upload_if_dirty, _deref_obj, remove and copy_tree, as long as an upload *)
(* thread is left: the refcount of a row is the number of blocks linked to *)
(* the object and of references about to be dropped. (When all threads are *)
(* dead, an upload is given up together with the reference it was about to *)
(* drop, block_cache.py:504, and the count stays too high.)                *)
(***************************************************************************)
THEOREM CountsStayExact == Spec /\ []SomeThreadLives => []RefcountExact
<1>1. Spec /\ []SomeThreadLives => [](RefcountExact /\ Settled)
  BY Invariants, InitExact, NextExact, PTL DEF Spec
<1> QED  BY <1>1, PTL

(***************************************************************************)
(* upload_if_dirty's de-duplication, as long as an upload thread is left:  *)
(* a row keeps its hash only while the object is in the backend with the   *)
(* hashed content, or is still being uploaded.                             *)
(***************************************************************************)
THEOREM DedupStaysSound == Spec /\ []SomeThreadLives => []DedupTargetExists
<1>1. Spec /\ []SomeThreadLives => [](RefcountExact /\ Settled)
  BY Invariants, InitExact, NextExact, PTL DEF Spec
<1>2. Spec /\ []SomeThreadLives => []Awaited
  BY <1>1, Invariants, InitStored, NextAwaited, PTL DEF Spec
<1>3. Stored /\ Awaited => DedupTargetExists
  BY DEF Stored, Awaited, DedupTargetExists, BeingUploaded
<1> QED  BY <1>2, <1>3, Invariants, PTL

(***************************************************************************)
(* Reference safety when the backend connection of some upload thread does *)
(* not fail, for every number of tasks, threads, files and blocks: counts  *)
(* are exact and nothing referenced is removed.                            *)
(***************************************************************************)
THEOREM ReferencesStaySafe ==
  ASSUME NEW w \in Thread, w \notin Faulty
  PROVE  Spec => []ReferencesSafe
<1>1. Spec => []Inv
  BY Invariants, PTL
<1>2. Init => Lasting(w)
  BY DEF Init, Lasting, IdleThread
<1>3. Inv /\ Lasting(w) /\ [Next]_vars => Lasting(w)'
  BY NextLasting
<1>4. Spec => []Lasting(w)
  BY <1>1, <1>2, <1>3, PTL DEF Spec
<1>5. Lasting(w) => SomeThreadLives
  BY DEF Lasting, SomeThreadLives
<1>6. RefcountExact /\ RemovalSafe => ReferencesSafe
  BY DEF ReferencesSafe
<1> QED  BY <1>4, <1>5, <1>6, CountsStayExact, NothingNeededRemoved, PTL

-----------------------------------------------------------------------------
(***************************************************************************)
(* Module BlockCache implements module BlockStore when no upload fails:    *)
(* what the file system reads from a block is what it last wrote there.    *)
(* The simulation rests on three facts about the steps in between: a clean *)
(* entry has the content the database records (Clean), a block that is     *)
(* being downloaded is neither cached nor relinked meanwhile (Fetching),   *)
(* and no row loses its hash (Hashed).                                     *)
(***************************************************************************)
\* A cached entry that is not dirty has the content the database records.
CleanAt(b) == cache[b] # None /\ cache[b] \notin dirty => data[cache[b]] = Saved(b)
Clean == \A b \in Block : CleanAt(b)

\* A block stays as it is while its object is downloaded.
Fetching ==
    \A t \in Task : task[t].pc \in {"get_wait", "download"} =>
        cache[task[t].arg] = None /\ inode_blocks[task[t].arg] = task[t].obj

\* No upload fails: a thread reaches the end of _do_upload after perform_write
\* has succeeded.
NoUploadFails == \A w \in Thread : thread[w].st = "finish" => thread[w].ok

\* Every row has a hash.
Hashed == \A o \in DOMAIN objects : objects[o].hash # None

-----------------------------------------------------------------------------
(* Steps of the abstract specification.                                    *)

\* What the abstract specification sees.
LEMMA AbstractView ==
  /\ AbstractState[1] = [b \in Block |-> Content(b)]
  /\ AbstractState[2] = [b \in Block |-> Saved(b)]
  /\ AbstractState[3] = [t \in Task |-> Requests(t)]
  /\ AbstractState[1]' = [b \in Block |-> Content(b)']
  /\ AbstractState[2]' = [b \in Block |-> Saved(b)']
  /\ AbstractState[3]' = [t \in Task |-> Requests(t)']
BY DEF AbstractState

\* Nothing happens that the file system could see.
LEMMA SimStutter ==
  ASSUME \A b \in Block : Content(b)' = Content(b) /\ Saved(b)' = Saved(b),
         \A t \in Task : Requests(t)' = Requests(t)
  PROVE  UNCHANGED <<AbstractState[1], AbstractState[2], AbstractState[3]>>
BY AbstractView

\* A request to write arrives.
LEMMA SimAskWrite ==
  ASSUME NEW t \in Task, NEW b \in Block,
         \A c \in Block : Content(c)' = Content(c) /\ Saved(c)' = Saved(c),
         \A u \in Task \ {t} : Requests(u)' = Requests(u),
         Requests(t) = {}, Requests(t)' = {<<"write", b>>}
  PROVE  Abstract!AskWrite(t, b)
BY AbstractView DEF Abstract!AskWrite

\* A request to remove arrives.
LEMMA SimAskRemove ==
  ASSUME NEW t \in Task, NEW i \in Inode, NEW N \in SUBSET BlockNo,
         \A c \in Block : Content(c)' = Content(c) /\ Saved(c)' = Saved(c),
         \A u \in Task \ {t} : Requests(u)' = Requests(u),
         Requests(t) = {}, Requests(t)' = {<<"remove", <<i, n>>>> : n \in N}
  PROVE  Abstract!AskRemove(t, i, N)
BY AbstractView DEF Abstract!AskRemove

\* A write is served, or given up without effect.
LEMMA SimWrite ==
  ASSUME NEW t \in Task, NEW b \in Block, NEW d,
         \A c \in Block : Saved(c)' = Saved(c),
         \A c \in Block \ {b} : Content(c)' = Content(c),
         Content(b)' = d,
         \A u \in Task \ {t} : Requests(u)' = Requests(u),
         Requests(t) = {<<"write", b>>}, Requests(t)' = {}
  PROVE  Abstract!Write(t, b, d)
<1>1. [c \in Block |-> Content(c)'] = [[c \in Block |-> Content(c)] EXCEPT ![b] = d]
  OBVIOUS
<1>2. [u \in Task |-> Requests(u)'] = [[u \in Task |-> Requests(u)] EXCEPT ![t] = @ \ {<<"write", b>>}]
  OBVIOUS
<1>3. [c \in Block |-> Saved(c)'] = [c \in Block |-> Saved(c)]
  OBVIOUS
<1>4. <<"write", b>> \in AbstractState[3][t]
  BY AbstractView
<1> QED  BY <1>1, <1>2, <1>3, <1>4, AbstractView, Zenon DEF Abstract!Write

\* A block is removed.
LEMMA SimRemove ==
  ASSUME NEW t \in Task, NEW b \in Block,
         \A c \in Block \ {b} : Content(c)' = Content(c) /\ Saved(c)' = Saved(c),
         Content(b)' = Zero /\ Saved(b)' = Zero,
         \A u \in Task \ {t} : Requests(u)' = Requests(u),
         <<"remove", b>> \in Requests(t), Requests(t)' = Requests(t) \ {<<"remove", b>>}
  PROVE  Abstract!Remove(t, b)
<1>1. [c \in Block |-> Content(c)'] = [[c \in Block |-> Content(c)] EXCEPT ![b] = Zero]
  OBVIOUS
<1>2. [u \in Task |-> Requests(u)'] = [[u \in Task |-> Requests(u)] EXCEPT ![t] = @ \ {<<"remove", b>>}]
  OBVIOUS
<1>3. [c \in Block |-> Saved(c)'] = [[c \in Block |-> Saved(c)] EXCEPT ![b] = Zero]
  OBVIOUS
<1>4. <<"remove", b>> \in AbstractState[3][t]
  BY AbstractView
<1> QED  BY <1>1, <1>2, <1>3, <1>4, AbstractView, Zenon DEF Abstract!Remove

\* The database records the content of a block.
LEMMA SimSave ==
  ASSUME NEW b \in Block,
         \A c \in Block : Content(c)' = Content(c),
         \A c \in Block \ {b} : Saved(c)' = Saved(c),
         Saved(b)' = Content(b),
         \A u \in Task : Requests(u)' = Requests(u)
  PROVE  Abstract!Save(b)
BY AbstractView DEF Abstract!Save

\* A file is replicated.
LEMMA SimReplicate ==
  ASSUME NEW i \in Inode, NEW j \in Inode,
         \A n \in BlockNo : Content(<<j, n>>) = Zero /\ Saved(<<j, n>>) = Zero,
         \A b \in Block : b[1] = j => Content(b)' = Saved(<<i, b[2]>>) /\ Saved(b)' = Saved(<<i, b[2]>>),
         \A b \in Block : b[1] # j => Content(b)' = Content(b) /\ Saved(b)' = Saved(b),
         \A u \in Task : Requests(u)' = Requests(u)
  PROVE  Abstract!Replicate(i, j)
<1>1. \A n \in BlockNo : <<i, n>> \in Block /\ <<j, n>> \in Block
  BY DEF Block
<1>2. \A b \in Block : b[2] \in BlockNo
  BY DEF Block
<1> QED  BY <1>1, <1>2, AbstractView DEF Abstract!Replicate, Abstract!Block, Block

-----------------------------------------------------------------------------
(* What the file system sees of the blocks a step leaves alone.            *)

\* The row a block is linked to keeps its hash while a task acts.
LEMMA TaskSaved ==
  ASSUME Inv, Inv', NoDangling, NoDangling', NEW t \in Task, Call(t) \/ TaskStep(t),
         NEW b \in Block, inode_blocks'[b] = inode_blocks[b]
  PROVE  Saved(b)' = Saved(b)
<1>1. CASE inode_blocks[b] = None
  BY <1>1 DEF Saved
<1>2. CASE inode_blocks[b] # None
  <2>1. inode_blocks[b] \in DOMAIN objects
    BY <1>2 DEF NoDangling
  <2>2. inode_blocks[b] \in DOMAIN objects'
    BY <1>2 DEF NoDangling
  <2>3. objects'[inode_blocks[b]].hash = objects[inode_blocks[b]].hash
    BY <2>1, <2>2, RowSteps
  <2> QED  BY <1>2, <2>3 DEF Saved
<1> QED  BY <1>1, <1>2

\* A block whose entry stays and whose saved content stays.
LEMMA SameView ==
  ASSUME NEW b \in Block, cache'[b] = cache[b],
         cache[b] # None => data'[cache[b]] = data[cache[b]],
         Saved(b)' = Saved(b)
  PROVE  /\ Content(b)' = Content(b)
         /\ CleanAt(b) /\ (cache[b] # None /\ cache[b] \in dirty => cache[b] \in dirty')
              => CleanAt(b)'
BY DEF Content, CleanAt

\* What is recorded and what is in a block are contents, when every row has a hash.
LEMMA ContentTyped ==
  ASSUME Inv, NoDangling, Hashed, NEW b \in Block
  PROVE  Saved(b) \in Data /\ Content(b) \in Data
<1>1. Saved(b) \in Data
  <2>1. CASE inode_blocks[b] = None
    BY <2>1, BlockCacheAssumption DEF Saved
  <2>2. CASE inode_blocks[b] # None
    <3>1. inode_blocks[b] \in DOMAIN objects
      BY <2>2 DEF NoDangling
    <3>2. objects[inode_blocks[b]] \in ObjectRow /\ objects[inode_blocks[b]].hash # None
      BY <3>1 DEF Inv, Shared, Hashed
    <3>3. objects[inode_blocks[b]].hash \in Data
      BY <3>2 DEF ObjectRow
    <3> QED  BY <2>2, <3>3 DEF Saved
  <2> QED  BY <2>1, <2>2
<1>2. Content(b) \in Data
  BY <1>1 DEF Content, Inv, Shared
<1> QED  BY <1>1, <1>2

-----------------------------------------------------------------------------
(* The requests of a task.                                                 *)

\* What ends a write.
EndsWrite(t) == GetCached(t) \/ GetNew(t) \/ Download(t) \/ DownloadMissing(t) \/ FailReleaseObj(t)

\* A request changes nothing but its task.
LEMMA CallChanges ==
  ASSUME NEW t \in Task, Call(t)
  PROVE  UNCHANGED <<database, entries>>
BY DEF Call, GetCall, FlushCall, CommitCall, DropCall, CopyCall, RemoveCall, database, entries

\* The requests of the others stay.
LEMMA OtherRequests ==
  ASSUME Inv, NEW t \in Task, Call(t) \/ TaskStep(t)
  PROVE  \A u \in Task \ {t} : Requests(u)' = Requests(u)
BY OthersStay DEF Requests

\* A thread asks for nothing.
LEMMA ThreadRequests ==
  ASSUME Inv, NEW w \in Thread, ThreadStep(w)
  PROVE  \A u \in Task : Requests(u)' = Requests(u)
<1> SUFFICES ASSUME NEW u \in Task PROVE Requests(u)' = Requests(u)
  OBVIOUS
<1>1. task'[u] = task[u] \/ task'[u] = [task[u] EXCEPT !.pc = "pass"]
  BY ThreadChanges
<1>2. task[u] \in TaskState
  BY DEF Inv, Tasks
<1>3. task'[u].op = task[u].op /\ task'[u].arg = task[u].arg /\ task'[u].todo = task[u].todo
  BY <1>1, <1>2 DEF TaskState
<1> QED  BY <1>3 DEF Requests

\* A task that is idle has asked for nothing.
LEMMA IdleRequests ==
  ASSUME NEW t \in Task
  PROVE  /\ task[t] = IdleTask => Requests(t) = {}
         /\ task'[t] = IdleTask => Requests(t)' = {}
<1>1. None # "write" /\ None # "remove"
  BY BlockCacheAssumption DEF OpNames
<1>2. IdleTask.op = None
  BY DEF IdleTask
<1> QED  BY <1>1, <1>2 DEF Requests

\* Whatever a task does, what it has asked for stays, unless it is served.
LEMMA TaskRequests ==
  ASSUME Inv, NEW t \in Task, TaskStep(t)
  PROVE  Requests(t)' = Requests(t) \/ EndsWrite(t) \/ \E b \in task[t].todo : RemoveBlock(t, b)
<1> DEFINE Stays == Requests(t)' = Requests(t)
<1>0. task[t] \in TaskState /\ TaskShape(task[t])
  BY DEF Inv, Tasks
<1>1. ASSUME task'[t] = IdleTask, task[t].op # "write", task[t].op = "remove" => task[t].todo = {}
      PROVE  Stays
  BY <1>1, IdleRequests DEF Requests
<1>2. ASSUME task'[t].op = task[t].op, task'[t].arg = task[t].arg,
             task[t].op = "remove" => task'[t].todo = task[t].todo
      PROVE  Stays
  BY <1>2 DEF Requests
<1>3. ASSUME CommitBreak(t) \/ RemoveDone(t) \/ CopyRows(t)  PROVE Stays
  <2>1. task'[t] = IdleTask /\ task[t].op # "write" /\ (task[t].op = "remove" => task[t].todo = {})
    BY <1>0, <1>3 DEF CommitBreak, RemoveDone, CopyRows, Inv, Tasks, TaskShape
  <2> QED  BY <1>1, <2>1
<1>4. ASSUME GetMiss(t) \/ GetWait(t) \/ BeginPass(t) \/ WaitNothing(t)  PROVE Stays
  <2>1. task[t].op # "remove"
    BY <1>0, <1>4 DEF GetMiss, GetWait, BeginPass, WaitNothing, TaskShape
  <2>2. task'[t].op = task[t].op /\ task'[t].arg = task[t].arg
    BY <1>0, <1>4 DEF GetMiss, GetWait, BeginPass, WaitNothing, TaskState, Inv, Tasks
  <2> QED  BY <1>2, <2>1, <2>2
<1>5. ASSUME ExpireDone(t)  PROVE Stays
  <2>1. CASE task[t].op = "drop"
    <3>1. task'[t] = IdleTask
      BY <1>5, <2>1 DEF ExpireDone, Inv, Tasks
    <3> QED  BY <1>1, <2>1, <3>1
  <2>2. CASE task[t].op # "drop"
    <3>1. task'[t] = [task[t] EXCEPT !.pc = "get_lock"]
      BY <1>5, <2>2 DEF ExpireDone, Inv, Tasks
    <3> QED  BY <1>0, <1>2, <3>1 DEF TaskState
  <2> QED  BY <2>1, <2>2
<1>6. ASSUME PassEnd(t)  PROVE Stays
  <2>1. \/ task'[t] = IdleTask /\ ~Expiring(t)
        \/ \E x : task'[t] = [task[t] EXCEPT !.pc = x, !.todo = {}, !.need = 0]
    BY <1>6 DEF PassEnd, Inv, Tasks
  <2>2. task[t].op # "remove"
    BY <1>0, <1>6 DEF PassEnd, TaskShape
  <2>3. ASSUME NEW x, task'[t] = [task[t] EXCEPT !.pc = x, !.todo = {}, !.need = 0]  PROVE Stays
    BY <1>0, <1>2, <2>2, <2>3 DEF TaskState
  <2>4. ASSUME task'[t] = IdleTask, ~Expiring(t)  PROVE Stays
    BY <1>1, <2>2, <2>4 DEF Expiring
  <2> HIDE DEF Stays
  <2> QED  BY <2>1, <2>3, <2>4
<1>7. ASSUME NEW e \in task[t].todo, LoopNext(t, e)  PROVE Stays
  <2>1. task[t].op # "remove"
    BY <1>0, <1>7 DEF LoopNext, TaskShape
  <2>2. task'[t].op = task[t].op /\ task'[t].arg = task[t].arg
    BY <1>0, <1>7 DEF LoopNext, TaskState, Inv, Tasks
  <2> QED  BY <1>2, <2>1, <2>2
<1>8. ASSUME Evict(t) \/ UploadStart(t) \/ QueueFails(t) \/ FailReleaseBlock(t) \/ DerefLast(t)
      PROVE  Stays
  <2>1. /\ task'[t].op = task[t].op /\ task'[t].arg = task[t].arg
        /\ task'[t].todo = task[t].todo
    BY <1>0, <1>8 DEF Evict, UploadStart, QueueFails, FailReleaseBlock, DerefLast, TaskState, Inv, Tasks
  <2> QED  BY <1>2, <2>1
<1>9. ASSUME task'[t] \in {UploadReturns(t, TRUE), UploadReturns(t, FALSE), DerefReturns(t)}
      PROVE  Stays
  <2>1. /\ task'[t].op = task[t].op /\ task'[t].arg = task[t].arg
        /\ task'[t].todo = task[t].todo
    BY <1>9, ReturnFields
  <2> QED  BY <1>2, <2>1
<1>10. ASSUME UploadSkip(t) \/ DerefShared(t) \/ DerefRemove(t)  PROVE Stays
  <2>1. task'[t] \in {UploadReturns(t, FALSE), DerefReturns(t)}
    BY <1>10 DEF UploadSkip, DerefShared, DerefRemove, Inv, Tasks
  <2> QED  BY <1>9, <2>1
<1>11. ASSUME RegisterNew(t)  PROVE Stays
  <2>1. \E o, x : task' = [task EXCEPT ![t].pc = "queue", ![t].obj = o, ![t].old = x]
    BY <1>11 DEF RegisterNew
  <2>2. /\ task'[t].op = task[t].op /\ task'[t].arg = task[t].arg
        /\ task'[t].todo = task[t].todo
    BY <1>0, <2>1 DEF TaskState, Inv, Tasks
  <2> QED  BY <1>2, <2>2
<1>12. ASSUME RegisterDup(t)  PROVE Stays
  <2>1. \/ task'[t] = UploadReturns(t, FALSE)
        \/ \E o : task'[t] = [task[t] EXCEPT !.pc = "deref", !.old = o]
    BY <1>12 DEF RegisterDup, Inv, Tasks
  <2>2. ASSUME NEW o, task'[t] = [task[t] EXCEPT !.pc = "deref", !.old = o]  PROVE Stays
    BY <1>0, <1>2, <2>2 DEF TaskState
  <2> HIDE DEF Stays
  <2> QED  BY <1>9, <2>1, <2>2
<1>13. ASSUME NEW w \in Thread, QueueUpload(t, w)  PROVE Stays
  <2>1. \/ task'[t] = UploadReturns(t, TRUE)
        \/ task'[t] = [task[t] EXCEPT !.pc = "deref"]
    BY <1>13 DEF QueueUpload, Inv, Tasks
  <2>2. ASSUME task'[t] = [task[t] EXCEPT !.pc = "deref"]  PROVE Stays
    BY <1>0, <1>2, <2>2 DEF TaskState
  <2> HIDE DEF Stays
  <2> QED  BY <1>9, <2>1, <2>2
<1> QED
  <2> HIDE DEF Stays
  <2> SUFFICES Stays \/ EndsWrite(t) \/ \E b \in task[t].todo : RemoveBlock(t, b)
    BY DEF Stays
  <2> QED  BY <1>3, <1>4, <1>5, <1>6, <1>7, <1>8, <1>10, <1>11, <1>12, <1>13
           DEF TaskStep, EndsWrite

-----------------------------------------------------------------------------
(* Each step is a step of the abstract specification or changes nothing it *)
(* sees, and leaves the clean entries clean.                               *)

Simulated == Abstract!Next \/ UNCHANGED <<AbstractState[1], AbstractState[2], AbstractState[3]>>

\* A step that changes no link, no hash and no entry, and asks for nothing.
LEMMA QuietSim ==
  ASSUME Clean, UNCHANGED <<cache, data, dirty>>,
         \A b \in Block : Saved(b)' = Saved(b),
         \A t \in Task : Requests(t)' = Requests(t)
  PROVE  Simulated /\ Clean'
<1>1. \A b \in Block : Content(b)' = Content(b) /\ CleanAt(b)'
  BY SameView DEF Clean
<1>2. UNCHANGED <<AbstractState[1], AbstractState[2], AbstractState[3]>>
  BY <1>1, SimStutter
<1> QED  BY <1>1, <1>2 DEF Simulated, Clean

\* A request arrives.
LEMMA CallSim ==
  ASSUME Inv, Clean, NEW t \in Task, Call(t)
  PROVE  Simulated /\ Clean'
<1>1. UNCHANGED <<cache, data, dirty>> /\ \A b \in Block : Saved(b)' = Saved(b)
  BY CallChanges DEF database, entries, Saved
<1>2. \A b \in Block : Content(b)' = Content(b) /\ CleanAt(b)'
  BY <1>1, SameView DEF Clean
<1>3. \A u \in Task \ {t} : Requests(u)' = Requests(u)
  BY OtherRequests
<1>4. task[t].pc = "idle"
  BY DEF Call, GetCall, FlushCall, CommitCall, DropCall, CopyCall, RemoveCall
<1>5. task[t] = IdleTask /\ Requests(t) = {} /\ task[t] \in TaskState
  BY <1>4, IdleRequests DEF Inv, Tasks, TaskShape
<1>6. ASSUME NEW b \in Block, GetCall(t, "write", b)
      PROVE  Simulated
  <2>1. task'[t].op = "write" /\ task'[t].arg = b
    BY <1>5, <1>6 DEF GetCall, Inv, Tasks, TaskState
  <2>2. Requests(t)' = {<<"write", b>>}
    BY <2>1 DEF Requests
  <2>3. Abstract!AskWrite(t, b)
    BY <1>1, <1>2, <1>3, <1>5, <2>2, SimAskWrite
  <2> QED  BY <2>3 DEF Simulated, Abstract!Next, Abstract!Block, Block
<1>7. ASSUME NEW i \in Inode, NEW N \in SUBSET BlockNo, RemoveCall(t, i, N)
      PROVE  Simulated
  <2>1. task'[t].op = "remove" /\ task'[t].todo = {<<i, n>> : n \in N}
    BY <1>5, <1>7 DEF RemoveCall, Inv, Tasks, TaskState
  <2>2. Requests(t)' = {<<"remove", b>> : b \in {<<i, n>> : n \in N}}
    BY <2>1 DEF Requests
  <2>3. Requests(t)' = {<<"remove", <<i, n>>>> : n \in N}
    <3>1. ASSUME NEW b \in {<<i, n>> : n \in N}
          PROVE  <<"remove", b>> \in {<<"remove", <<i, n>>>> : n \in N}
      <4>1. PICK n \in N : b = <<i, n>>
        OBVIOUS
      <4> QED  BY <4>1
    <3>2. ASSUME NEW n \in N
          PROVE  <<"remove", <<i, n>>>> \in {<<"remove", b>> : b \in {<<i, m>> : m \in N}}
      <4>1. <<i, n>> \in {<<i, m>> : m \in N}
        OBVIOUS
      <4> QED  BY <4>1, Zenon
    <3> QED  BY <2>2, <3>1, <3>2
  <2>4. Abstract!AskRemove(t, i, N)
    BY <1>1, <1>2, <1>3, <1>5, <2>3, SimAskRemove
  <2> QED  BY <2>4 DEF Simulated, Abstract!Next
<1>8. ASSUME \/ \E b \in Block : GetCall(t, "read", b)
             \/ FlushCall(t) \/ CommitCall(t) \/ DropCall(t)
             \/ \E i, j \in Inode : CopyCall(t, i, j)
      PROVE  Simulated
  <2>1. task'[t].op \in {"read", "flush", "commit", "drop", "copy"}
    <3>1. ASSUME NEW b \in Block, GetCall(t, "read", b)  PROVE task'[t].op = "read"
      BY <1>5, <3>1 DEF GetCall, Inv, Tasks, TaskState
    <3>2. ASSUME FlushCall(t) \/ CommitCall(t) \/ DropCall(t)
          PROVE  task'[t].op \in {"flush", "commit", "drop"}
      BY <1>5, <3>2 DEF FlushCall, CommitCall, DropCall, Inv, Tasks, TaskState
    <3>3. ASSUME NEW i \in Inode, NEW j \in Inode, CopyCall(t, i, j)  PROVE task'[t].op = "copy"
      BY <1>5, <3>3 DEF CopyCall, Inv, Tasks, TaskState
    <3> QED  BY <1>8, <3>1, <3>2, <3>3
  <2>2. Requests(t)' = {}
    BY <2>1 DEF Requests
  <2>3. \A u \in Task : Requests(u)' = Requests(u)
    BY <1>3, <1>5, <2>2
  <2> QED  BY <1>1, <2>3, QuietSim
<1> QED  BY <1>2, <1>6, <1>7, <1>8 DEF Call, Clean

\* What a request finds in the cache, in the backend or in neither is the
\* content of the block.
LEMMA UsesContent ==
  ASSUME Inv, NoDangling, Stored, Hashed, Fetching, NEW t \in Task,
         GetCached(t) \/ GetNew(t) \/ Download(t)
  PROVE  \E x \in CacheEntry : /\ BlockOf(x) = task[t].arg
                               /\ Use(t, x, Content(task[t].arg))
                               /\ IsCached(x) \/ cache[task[t].arg] = None
<1> DEFINE b == task[t].arg
<1>1. b \in Block
  BY UsesOwn
<1>2. CASE GetCached(t)
  <2>1. PICK x : x = cache[b]
    OBVIOUS
  <2>2. x # None /\ Use(t, x, data[x])
    BY <1>2, <2>1 DEF GetCached
  <2>3. x \in CacheEntry /\ BlockOf(x) = b
    BY <1>1, <2>1, <2>2 DEF Inv, Shared, BlockOf
  <2>4. Content(b) = data[x]
    BY <2>1, <2>2 DEF Content
  <2> QED  BY <2>1, <2>2, <2>3, <2>4 DEF IsCached
<1>3. CASE GetNew(t)
  <2>1. PICK g \in Gen : Use(t, <<b, g>>, Zero)
    BY <1>3, FreshGen DEF GetNew
  <2>2. <<b, g>> \in CacheEntry /\ BlockOf(<<b, g>>) = b
    BY <1>1 DEF CacheEntry, BlockOf
  <2>3. Content(b) = Zero /\ cache[b] = None
    BY <1>3 DEF GetNew, Content, Saved
  <2> QED  BY <2>1, <2>2, <2>3
<1>4. CASE Download(t)
  <2>1. PICK g \in Gen : Use(t, <<b, g>>, store[task[t].obj])
    BY <1>4, FreshGen DEF Download
  <2>2. <<b, g>> \in CacheEntry /\ BlockOf(<<b, g>>) = b
    BY <1>1 DEF CacheEntry, BlockOf
  <2>3. cache[b] = None /\ inode_blocks[b] = task[t].obj /\ task[t].obj \in DOMAIN store
    BY <1>4 DEF Download, Fetching
  <2>4. task[t].obj # None
    BY <2>3, BlockCacheAssumption DEF Inv, Shared
  <2>5. task[t].obj \in DOMAIN objects
    BY <1>1, <2>3, <2>4 DEF NoDangling
  <2>6. store[task[t].obj] = objects[task[t].obj].hash
    BY <2>3, <2>5 DEF Stored, Hashed
  <2>7. Content(b) = store[task[t].obj]
    BY <2>3, <2>4, <2>6 DEF Content, Saved
  <2> QED  BY <2>1, <2>2, <2>3, <2>7
<1> QED  BY <1>2, <1>3, <1>4

\* A block is read or written.
LEMMA UseSim ==
  ASSUME Inv, Inv', NoDangling, NoDangling', Stored, Hashed, Hashed', Fetching, Clean,
         NEW t \in Task, TaskStep(t), GetCached(t) \/ GetNew(t) \/ Download(t)
  PROVE  Simulated /\ Clean'
<1>1. PICK b \in Block : b = task[t].arg
  BY UsesOwn
<1>2. PICK x \in CacheEntry : BlockOf(x) = b /\ Use(t, x, Content(b)) /\ (IsCached(x) \/ cache[b] = None)
  BY <1>1, UsesContent
<1>3. UNCHANGED inode_blocks
  BY DEF GetCached, GetNew, Download, database
<1>4. \A c \in Block : Saved(c)' = Saved(c)
  BY <1>3, TaskSaved
<1>5. x # None
  BY BlockCacheAssumption
<1>6. \A c \in Block \ {b} : cache'[c] = cache[c] /\ (cache[c] # None => data'[cache[c]] = data[cache[c]])
  <2> SUFFICES ASSUME NEW c \in Block \ {b}
               PROVE  cache'[c] = cache[c] /\ (cache[c] # None => data'[cache[c]] = data[cache[c]])
    OBVIOUS
  <2>1. cache'[c] = cache[c] /\ \A e \in CacheEntry : BlockOf(e) = c => data'[e] = data[e]
    BY <1>2, UseOther
  <2>2. cache[c] # None => cache[c] \in CacheEntry /\ BlockOf(cache[c]) = c
    BY DEF Inv, Shared, BlockOf
  <2> QED  BY <2>1, <2>2
<1>7. \A c \in Block \ {b} : cache[c] # None /\ cache[c] \in dirty => cache[c] \in dirty'
  <2> SUFFICES ASSUME NEW c \in Block \ {b}, cache[c] # None, cache[c] \in dirty
               PROVE  cache[c] \in dirty'
    OBVIOUS
  <2>1. cache[c] # x
    BY <1>2 DEF Inv, Shared, BlockOf
  <2> QED  BY <1>2, <2>1 DEF Use
<1>8. \A c \in Block \ {b} : Content(c)' = Content(c) /\ CleanAt(c)'
  BY <1>4, <1>6, <1>7, SameView DEF Clean
<1>9. cache'[b] = x /\ task'[t] = IdleTask
  BY <1>2 DEF Use, Inv, Shared, Tasks
<1>10. \A u \in Task \ {t} : Requests(u)' = Requests(u)
  BY OtherRequests
<1>11. ASSUME task[t].op = "read"  PROVE Simulated /\ Clean'
  <2>1. data' = [data EXCEPT ![x] = Content(b)] /\ dirty' = IF IsCached(x) THEN dirty ELSE dirty \ {x}
    BY <1>2, <1>11 DEF Use
  <2>2. data'[x] = Content(b)
    BY <2>1 DEF Inv, Shared
  <2>3. Content(b)' = Content(b)
    BY <1>5, <1>9, <2>2 DEF Content
  <2>4. CleanAt(b)'
    <3>1. CASE IsCached(x)
      BY <1>2, <1>4, <1>9, <2>1, <2>2, <3>1 DEF CleanAt, Clean, IsCached, Content
    <3>2. CASE cache[b] = None
      BY <1>4, <1>9, <2>2, <3>2 DEF CleanAt, Content
    <3> QED  BY <1>2, <3>1, <3>2
  <2>5. Requests(t)' = Requests(t)
    BY <1>9, <1>11, IdleRequests DEF Requests
  <2>6. UNCHANGED <<AbstractState[1], AbstractState[2], AbstractState[3]>>
    BY <1>4, <1>8, <1>10, <2>3, <2>5, SimStutter
  <2> QED  BY <1>8, <2>4, <2>6 DEF Simulated, Clean
<1>12. ASSUME task[t].op = "write"  PROVE Simulated /\ Clean'
  <2>1. PICK d \in Data : data' = [data EXCEPT ![x] = d]
    BY <1>2, <1>12 DEF Use
  <2>2. dirty' = dirty \cup {x}
    BY <1>2, <1>12 DEF Use
  <2>3. Content(b)' = d
    BY <1>5, <1>9, <2>1 DEF Content, Inv, Shared
  <2>4. CleanAt(b)'
    BY <1>9, <2>2 DEF CleanAt
  <2>5. Requests(t) = {<<"write", b>>} /\ Requests(t)' = {}
    BY <1>1, <1>9, <1>12, IdleRequests DEF Requests
  <2>6. Abstract!Write(t, b, d)
    BY <1>4, <1>8, <1>10, <2>3, <2>5, SimWrite
  <2> QED  BY <1>8, <2>4, <2>6 DEF Simulated, Clean, Abstract!Next, Abstract!Block, Block
<1> QED  BY <1>2, <1>11, <1>12 DEF Use

\* An access is given up.
LEMMA AbortSim ==
  ASSUME Inv, Inv', NoDangling, NoDangling', Hashed, Clean, NEW t \in Task, TaskStep(t),
         DownloadMissing(t) \/ FailReleaseObj(t)
  PROVE  Simulated /\ Clean'
<1>1. UNCHANGED <<cache, data, dirty, inode_blocks>> /\ task'[t] = IdleTask
  BY DEF DownloadMissing, FailReleaseObj, database, entries, Inv, Tasks
<1>2. \A b \in Block : Saved(b)' = Saved(b)
  BY <1>1, TaskSaved
<1>3. \A b \in Block : Content(b)' = Content(b) /\ CleanAt(b)'
  BY <1>1, <1>2, SameView DEF Clean
<1>4. \A u \in Task \ {t} : Requests(u)' = Requests(u)
  BY OtherRequests
<1>5. Requests(t)' = {} /\ TaskShape(task[t])
  BY <1>1, IdleRequests DEF Inv, Tasks
<1>6. CASE task[t].op = "write"
  <2>1. PICK b \in Block : b = task[t].arg
    BY <1>5, <1>6 DEF TaskShape
  <2>2. Requests(t) = {<<"write", b>>}
    BY <1>6, <2>1 DEF Requests
  <2>3. Abstract!Write(t, b, Content(b))
    BY <1>2, <1>3, <1>4, <1>5, <2>2, SimWrite
  <2>4. Content(b) \in Data
    BY ContentTyped
  <2> QED  BY <1>3, <2>3, <2>4 DEF Simulated, Clean, Abstract!Next, Abstract!Block, Block
<1>7. CASE task[t].op # "write"
  <2>1. task[t].op # "remove"
    BY <1>5 DEF TaskShape, DownloadMissing, FailReleaseObj
  <2>2. Requests(t) = {}
    BY <1>7, <2>1 DEF Requests
  <2> QED  BY <1>1, <1>2, <1>4, <1>5, <2>2, QuietSim
<1> QED  BY <1>6, <1>7

\* An entry that is evicted is clean.
LEMMA EvictSim ==
  ASSUME Inv, Inv', NoDangling, NoDangling', Clean, NEW t \in Task, TaskStep(t), Evict(t)
  PROVE  Simulated /\ Clean'
<1>1. PICK b \in Block : b = BlockOf(task[t].el) /\ task[t].el \in CacheEntry
  BY UserOf DEF Evict
<1>2. UNCHANGED inode_blocks
  BY DEF Evict, database
<1>3. \A c \in Block : Saved(c)' = Saved(c)
  BY <1>2, TaskSaved
<1>4. ~EndsWrite(t) /\ ~\E c \in task[t].todo : RemoveBlock(t, c)
  BY DEF Evict, EndsWrite, GetCached, GetNew, Download, DownloadMissing, FailReleaseObj, RemoveBlock
<1>5. \A u \in Task : Requests(u)' = Requests(u)
  BY <1>4, TaskRequests, OtherRequests
<1>6. CASE UNCHANGED entries
  BY <1>3, <1>5, <1>6, QuietSim DEF entries
<1>7. CASE ~UNCHANGED entries
  <2>1. cache[b] = task[t].el /\ task[t].el \notin dirty /\ Uncache(b)
    BY <1>1, <1>7 DEF Evict, IsCached
  <2>2. cache[b] # None
    BY <1>1, <2>1, BlockCacheAssumption
  <2>3. \A c \in Block \ {b} : cache'[c] = cache[c] /\ \A e \in CacheEntry : BlockOf(e) = c => data'[e] = data[e]
    BY <1>1, <2>1, <2>2, UncacheOther
  <2>4. \A c \in Block : cache[c] # None => cache[c] \in CacheEntry /\ BlockOf(cache[c]) = c
    BY DEF Inv, Shared, BlockOf
  <2>5. \A c \in Block \ {b} : Content(c)' = Content(c) /\ CleanAt(c)'
    BY <1>3, <2>1, <2>3, <2>4, SameView DEF Clean, Uncache
  <2>6. cache'[b] = None
    BY <1>1, <2>1 DEF Uncache, Inv, Shared
  <2>7. Content(b) = Saved(b) /\ Content(b)' = Saved(b)' /\ CleanAt(b)'
    BY <1>1, <2>1, <2>2, <2>6 DEF Content, Clean, CleanAt
  <2>8. UNCHANGED <<AbstractState[1], AbstractState[2], AbstractState[3]>>
    BY <1>3, <1>5, <2>5, <2>7, SimStutter
  <2> QED  BY <2>5, <2>7, <2>8 DEF Simulated, Clean
<1> QED  BY <1>6, <1>7

\* An upload records the content of its block.
LEMMA RegisterSim ==
  ASSUME Inv, Inv', NoDangling, NoDangling', Uploads, Clean, NEW t \in Task, TaskStep(t),
         RegisterNew(t) \/ RegisterDup(t)
  PROVE  Simulated /\ Clean'
<1>1. task[t].pc = "hash"
  BY DEF RegisterNew, RegisterDup
<1>2. PICK b \in Block : b = BlockOf(task[t].el) /\ task[t].el \in CacheEntry
  BY <1>1, UserOf
<1>3. PICK e \in CacheEntry : e = task[t].el /\ BlockOf(e) = b
  BY <1>2
<1>4. cache[b] = e /\ e # None
  BY <1>1, <1>3, BlockCacheAssumption DEF Uploads, IsCached
<1>5. UNCHANGED <<cache, data>> /\ dirty \ {e} \subseteq dirty'
  BY <1>3 DEF RegisterNew, RegisterDup, entries
<1>6. Saved(b)' = data[e] /\ \A c \in Block \ {b} : inode_blocks'[c] = inode_blocks[c]
  <2>1. CASE RegisterNew(t)
    <3>1. task'[t].el = e
      BY <1>3, <2>1, Arrivals, RegisterLinked DEF RegisterNew, Inv, Tasks, TaskState
    <3>2. PICK o \in ObjId : /\ inode_blocks' = [inode_blocks EXCEPT ![b] = o]
                             /\ objects' = [x \in DOMAIN objects \cup {o} |->
                                  IF x = o THEN [refcount |-> 1, hash |-> data[e], phys |-> FALSE]
                                           ELSE objects[x]]
      <4>1. PICK o \in FreshIds : /\ inode_blocks' = [inode_blocks EXCEPT ![b] = o]
                                  /\ objects' = [x \in DOMAIN objects \cup {o} |->
                                       IF x = o THEN [refcount |-> 1, hash |-> data[e], phys |-> FALSE]
                                                ELSE objects[x]]
        BY <1>2, <1>3, <2>1 DEF RegisterNew
      <4> QED  BY <4>1 DEF FreshIds
    <3>3. inode_blocks'[b] = o /\ o # None /\ objects'[o].hash = data[e]
      BY <3>2, BlockCacheAssumption DEF Inv, Shared
    <3> QED  BY <3>2, <3>3 DEF Saved, Inv, Shared
  <2>2. CASE RegisterDup(t)
    <3>1. PICK o \in SameHash(data[e]) :
             \/ inode_blocks[b] = o /\ UNCHANGED <<objects, inode_blocks>>
             \/ /\ objects' = [objects EXCEPT ![o].refcount = @ + 1]
                /\ inode_blocks' = [inode_blocks EXCEPT ![b] = o]
      BY <1>2, <1>3, <2>2 DEF RegisterDup, database
    <3>2. o \in DOMAIN objects /\ objects[o].hash = data[e] /\ o # None
      BY BlockCacheAssumption DEF SameHash, Inv, Shared
    <3>3. inode_blocks'[b] = o
      BY <3>1 DEF Inv, Shared
    <3>4. objects'[o].hash = objects[o].hash
      BY <3>1, <3>2 DEF Inv, Shared, ObjectRow
    <3> QED  BY <3>1, <3>2, <3>3, <3>4 DEF Saved, Inv, Shared
  <2> QED  BY <2>1, <2>2
<1>7. \A c \in Block \ {b} : Saved(c)' = Saved(c)
  BY <1>6, TaskSaved
<1>8. \A c \in Block \ {b} : cache[c] # e
  BY <1>3, <1>4 DEF Inv, Shared, BlockOf
<1>9. \A c \in Block \ {b} : Content(c)' = Content(c) /\ CleanAt(c)'
  BY <1>5, <1>7, <1>8, SameView DEF Clean
<1>10. Content(b) = data[e] /\ Content(b)' = data[e] /\ CleanAt(b)'
  BY <1>4, <1>5, <1>6 DEF Content, CleanAt
<1>11. ~EndsWrite(t) /\ ~\E c \in task[t].todo : RemoveBlock(t, c)
  BY <1>1 DEF EndsWrite, GetCached, GetNew, Download, DownloadMissing, FailReleaseObj, RemoveBlock
<1>12. \A u \in Task : Requests(u)' = Requests(u)
  BY <1>11, TaskRequests, OtherRequests
<1>13. Abstract!Save(b)
  BY <1>6, <1>7, <1>9, <1>10, <1>12, SimSave
<1> QED  BY <1>9, <1>10, <1>13 DEF Simulated, Clean, Abstract!Next, Abstract!Block, Block

\* A block is removed.
LEMMA RemoveSim ==
  ASSUME Inv, Inv', NoDangling, NoDangling', Clean, NEW t \in Task, TaskStep(t),
         NEW b \in task[t].todo, RemoveBlock(t, b)
  PROVE  Simulated /\ Clean'
<1>1. task[t].pc = "remove" /\ task[t].op = "remove" /\ b \in Block /\ task[t] \in TaskState
  BY DEF RemoveBlock, Inv, Tasks, TaskShape
<1>2. inode_blocks' = [inode_blocks EXCEPT ![b] = None]
  BY DEF RemoveBlock
<1>3. \A c \in Block \ {b} : Saved(c)' = Saved(c)
  BY <1>2, TaskSaved DEF Inv, Shared
<1>4. cache'[b] = None
  BY <1>1 DEF RemoveBlock, Uncache, entries, Inv, Shared
<1>5. Saved(b)' = Zero /\ Content(b)' = Zero /\ CleanAt(b)'
  BY <1>1, <1>2, <1>4 DEF Saved, Content, CleanAt, Inv, Shared
<1>6. \A c \in Block \ {b} : Content(c)' = Content(c) /\ CleanAt(c)'
  <2>1. dirty' = dirty
    BY DEF RemoveBlock, Uncache, entries
  <2>2. \A c \in Block \ {b} : cache'[c] = cache[c] /\ \A e \in CacheEntry : BlockOf(e) = c => data'[e] = data[e]
    BY <1>1, UncacheOther DEF RemoveBlock, entries
  <2>3. \A c \in Block : cache[c] # None => cache[c] \in CacheEntry /\ BlockOf(cache[c]) = c
    BY DEF Inv, Shared, BlockOf
  <2> QED  BY <1>3, <2>1, <2>2, <2>3, SameView DEF Clean
<1>7. \A u \in Task \ {t} : Requests(u)' = Requests(u)
  BY OtherRequests
<1>8. task'[t].op = "remove" /\ task'[t].todo = task[t].todo \ {b}
  BY <1>1 DEF RemoveBlock, Inv, Tasks, TaskState
<1>9. /\ Requests(t) = {<<"remove", c>> : c \in task[t].todo}
      /\ Requests(t)' = {<<"remove", c>> : c \in task[t].todo \ {b}}
  BY <1>1, <1>8 DEF Requests
<1>10. <<"remove", b>> \in Requests(t) /\ Requests(t)' = Requests(t) \ {<<"remove", b>>}
  BY <1>9
<1>11. Abstract!Remove(t, b)
  BY <1>1, <1>3, <1>5, <1>6, <1>7, <1>10, SimRemove
<1> QED  BY <1>1, <1>5, <1>6, <1>11 DEF Simulated, Clean, Abstract!Next, Abstract!Block, Block

\* A file is replicated.
LEMMA CopySim ==
  ASSUME Inv, Inv', NoDangling, NoDangling', Copies, Clean, NEW t \in Task, TaskStep(t), CopyRows(t)
  PROVE  Simulated /\ Clean'
<1>1. PICK i \in Inode, j \in Inode : i = task[t].arg /\ j = task[t].dst
  BY DEF CopyRows, Inv, Tasks, TaskShape
<1>2. task[t].op = "copy" /\ UNCHANGED <<cache, data, dirty>>
  BY DEF CopyRows, entries
<1>3. \A b \in Block : b[1] = j => cache[b] = None /\ inode_blocks[b] = None
  BY <1>1, <1>2 DEF Copies, Unused
<1>4. inode_blocks' = [b \in Block |-> IF b[1] = j THEN inode_blocks[<<i, b[2]>>] ELSE inode_blocks[b]]
  BY <1>1 DEF CopyRows
<1>5. \A b \in Block : b[1] # j => Saved(b)' = Saved(b)
  BY <1>4, TaskSaved
<1>6. \A b \in Block : b[1] # j => Content(b)' = Content(b) /\ CleanAt(b)'
  BY <1>2, <1>5, SameView DEF Clean
<1>7. ASSUME NEW b \in Block, b[1] = j
      PROVE  Saved(b)' = Saved(<<i, b[2]>>) /\ Content(b)' = Saved(<<i, b[2]>>) /\ CleanAt(b)'
  <2>1. <<i, b[2]>> \in Block
    BY DEF Block
  <2>2. inode_blocks'[b] = inode_blocks[<<i, b[2]>>]
    BY <1>4, <1>7
  <2>3. Saved(b)' = Saved(<<i, b[2]>>)
    <3>1. CASE inode_blocks[<<i, b[2]>>] = None
      BY <2>2, <3>1 DEF Saved
    <3>2. CASE inode_blocks[<<i, b[2]>>] # None
      <4>1. inode_blocks[<<i, b[2]>>] \in DOMAIN objects
        BY <2>1, <3>2 DEF NoDangling
      <4>2. inode_blocks[<<i, b[2]>>] \in DOMAIN objects'
        BY <2>2, <3>2 DEF NoDangling
      <4>3. objects'[inode_blocks[<<i, b[2]>>]].hash = objects[inode_blocks[<<i, b[2]>>]].hash
        BY <4>1, <4>2, RowSteps
      <4> QED  BY <2>2, <3>2, <4>3 DEF Saved
    <3> QED  BY <3>1, <3>2
  <2>4. cache'[b] = None
    BY <1>2, <1>3, <1>7
  <2> QED  BY <2>3, <2>4 DEF Content, CleanAt
<1>8. \A n \in BlockNo : Content(<<j, n>>) = Zero /\ Saved(<<j, n>>) = Zero
  <2> SUFFICES ASSUME NEW n \in BlockNo
               PROVE  Content(<<j, n>>) = Zero /\ Saved(<<j, n>>) = Zero
    OBVIOUS
  <2>1. <<j, n>> \in Block /\ <<j, n>>[1] = j
    BY DEF Block
  <2> QED  BY <1>3, <2>1 DEF Content, Saved
<1>9. ~EndsWrite(t) /\ ~\E c \in task[t].todo : RemoveBlock(t, c)
  BY DEF CopyRows, EndsWrite, GetCached, GetNew, Download, DownloadMissing, FailReleaseObj, RemoveBlock
<1>10. \A u \in Task : Requests(u)' = Requests(u)
  BY <1>9, TaskRequests, OtherRequests
<1>11. Abstract!Replicate(i, j)
  BY <1>5, <1>6, <1>7, <1>8, <1>10, SimReplicate
<1> QED  BY <1>6, <1>7, <1>11 DEF Simulated, Clean, Abstract!Next

\* The other steps of a task do not show.
LEMMA TaskSim ==
  ASSUME Inv, Inv', NoDangling, NoDangling', Uploads, Copies, Stored, Hashed, Hashed', Fetching,
         Clean, NEW t \in Task, TaskStep(t)
  PROVE  Simulated /\ Clean'
<1>1. CASE GetCached(t) \/ GetNew(t) \/ Download(t)
  BY <1>1, UseSim
<1>2. CASE DownloadMissing(t) \/ FailReleaseObj(t)
  BY <1>2, AbortSim
<1>3. CASE Evict(t)
  BY <1>3, EvictSim
<1>4. CASE RegisterNew(t) \/ RegisterDup(t)
  BY <1>4, RegisterSim
<1>5. CASE \E b \in task[t].todo : RemoveBlock(t, b)
  BY <1>5, RemoveSim
<1>6. CASE CopyRows(t)
  BY <1>6, CopySim
<1>7. ASSUME ~(GetCached(t) \/ GetNew(t) \/ Download(t)), ~(DownloadMissing(t) \/ FailReleaseObj(t)),
             ~Evict(t), ~(RegisterNew(t) \/ RegisterDup(t)), ~CopyRows(t),
             ~\E b \in task[t].todo : RemoveBlock(t, b)
      PROVE  Simulated /\ Clean'
  <2>1. UNCHANGED <<cache, data, dirty>>
    BY <1>7, EntrySteps DEF entries
  <2>2. UNCHANGED inode_blocks
    BY <1>7, TableSteps DEF database, DerefShared, DerefLast
  <2>3. \A b \in Block : Saved(b)' = Saved(b)
    BY <2>2, TaskSaved
  <2>4. \A u \in Task : Requests(u)' = Requests(u)
    BY <1>7, TaskRequests, OtherRequests DEF EndsWrite
  <2> QED  BY <2>1, <2>3, <2>4, QuietSim
<1> QED  BY <1>1, <1>2, <1>3, <1>4, <1>5, <1>6, <1>7

\* An upload that ends leaves a clean entry with the content it recorded.
LEMMA ThreadSim ==
  ASSUME Inv, Inv', NoDangling, LockOwnership, Uploads, Linked, Stored, Hashed, Clean,
         NoUploadFails, NEW w \in Thread, ThreadStep(w)
  PROVE  Simulated /\ Clean'
<1>1. UNCHANGED <<inode_blocks, cache, data>> /\ (UNCHANGED objects \/ FinishUpload(w))
  BY ThreadChanges
<1>2. \A u \in Task : Requests(u)' = Requests(u)
  BY ThreadRequests
<1>3. \A o \in DOMAIN objects : objects'[o].hash = objects[o].hash
  <2>1. ASSUME FinishUpload(w)
        PROVE  \A o \in DOMAIN objects : objects'[o].hash = objects[o].hash
    <3>1. thread[w].st = "finish" /\ thread[w].ok
      BY <2>1 DEF FinishUpload, NoUploadFails
    <3>2. objects' = [objects EXCEPT ![thread[w].obj].phys = TRUE]
      BY <2>1, <3>1 DEF FinishUpload
    <3> QED  BY <3>2 DEF Inv, Shared, ObjectRow
  <2> QED  BY <1>1, <2>1
<1>4. \A b \in Block : Saved(b)' = Saved(b)
  BY <1>1, <1>3 DEF Saved, NoDangling
<1>5. \A b \in Block : Content(b)' = Content(b)
  BY <1>1, <1>4, SameView
<1>6. Simulated
  BY <1>2, <1>4, <1>5, SimStutter DEF Simulated
<1>7. CASE UNCHANGED dirty
  BY <1>1, <1>4, <1>7, SameView, <1>6 DEF Clean
<1>8. CASE ~UNCHANGED dirty
  <2>1. FinishUpload(w)
    BY <1>8 DEF ThreadStep, WriteObject, WriteFails, UnlockObject, UnlockBlock, entries
  <2>2. thread[w].st = "finish" /\ thread[w].el \in CacheEntry /\ thread[w].obj \in ObjId
    BY <2>1 DEF FinishUpload, Inv, Shared, ThreadShape
  <2>3. PICK b \in Block : b = BlockOf(thread[w].el)
    BY <2>2, BlockOfEntry
  <2>4. cache[b] = thread[w].el /\ inode_blocks[b] = thread[w].obj /\ thread[w].obj # None
    BY <2>2, <2>3, BlockCacheAssumption DEF Uploads, IsCached, Linked
  <2>5. data[thread[w].el] = Saved(b)
    BY <2>2, <2>4 DEF Stored, Saved
  <2>6. CleanAt(b)'
    BY <1>1, <1>4, <2>4, <2>5 DEF CleanAt
  <2>7. dirty' = dirty \ {thread[w].el}
    BY <1>8, <2>1 DEF FinishUpload
  <2>8. \A c \in Block \ {b} : cache[c] # thread[w].el
    BY <2>2, <2>3, BlockCacheAssumption DEF Inv, Shared, BlockOf
  <2>9. \A c \in Block \ {b} : CleanAt(c)'
    BY <1>1, <1>4, <2>7, <2>8, SameView DEF Clean
  <2> QED  BY <1>6, <2>6, <2>9 DEF Clean
<1> QED  BY <1>7, <1>8

-----------------------------------------------------------------------------
(* The rest of the invariant.                                              *)

\* A block that is being fetched stays locked.
LEMMA TaskFetching ==
  ASSUME Inv, LockOwnership, Copies, Fetching, NEW t \in Task, Call(t) \/ TaskStep(t)
  PROVE  Fetching'
<1>1. ASSUME NEW u \in Task \ {t}, task'[u].pc \in {"get_wait", "download"}
      PROVE  cache'[task'[u].arg] = None /\ inode_blocks'[task'[u].arg] = task'[u].obj
  <2>1. task'[u] = task[u] /\ task[u].pc \in {"get_wait", "download"}
    BY <1>1, OthersStay
  <2>2. PICK b \in Block : b = task[u].arg
    BY <2>1, UserOf
  <2>3. b \in TaskHolds(u)
    BY <2>1, <2>2 DEF TaskHolds
  <2>4. b \in locked /\ b \notin TaskHolds(t)
    BY <2>3 DEF LockOwnership
  <2>5. /\ ~(task[t].pc = "download" /\ task[t].arg = b)
        /\ ~(task[t].pc = "hash" /\ BlockOf(task[t].el) = b)
    BY <2>4 DEF TaskHolds
  <2>6. cache'[b] = cache[b] /\ inode_blocks'[b] = inode_blocks[b]
    BY <2>4, <2>5, EntryKept, LinkKept
  <2> QED  BY <2>1, <2>2, <2>6 DEF Fetching
<1>2. ASSUME task'[t].pc \in {"get_wait", "download"}
      PROVE  cache'[task'[t].arg] = None /\ inode_blocks'[task'[t].arg] = task'[t].obj
  <2>1. CASE GetMiss(t)
    BY <2>1 DEF GetMiss, database, entries, Inv, Tasks, TaskState
  <2>2. CASE GetWait(t)
    BY <2>2 DEF GetWait, database, entries, Fetching, Inv, Tasks, TaskState
  <2> QED  BY <1>2, <2>1, <2>2, Arrivals
<1> QED  BY <1>1, <1>2 DEF Fetching

LEMMA NextFetching ==
  Inv /\ LockOwnership /\ Copies /\ Fetching /\ [Next]_vars => Fetching'
<1> SUFFICES ASSUME Inv, LockOwnership, Copies, Fetching, [Next]_vars  PROVE Fetching'
  OBVIOUS
<1>1. ASSUME NEW w \in Thread, ThreadStep(w)  PROVE Fetching'
  <2>1. \A u \in Task : task'[u].pc \in {"get_wait", "download"} => task'[u] = task[u]
    BY <1>1, ThreadChanges
  <2> QED  BY <1>1, <2>1, ThreadChanges DEF Fetching
<1>2. ASSUME UNCHANGED <<task, cache, inode_blocks>>  PROVE Fetching'
  BY <1>2 DEF Fetching
<1>3. ASSUME NEW r \in Remover, RemoverStep(r)  PROVE Fetching'
  BY <1>2, <1>3 DEF RemoverStep, RemovalTake, RemovalDelete, database, entries
<1>4. ASSUME NEW i \in Inode, KernelStep(i)  PROVE Fetching'
  BY <1>2, <1>4 DEF KernelStep, Forget, Lookup, database, entries
<1>5. CASE UNCHANGED vars
  BY <1>2, <1>5 DEF vars
<1> QED  BY <1>1, <1>3, <1>4, <1>5, TaskFetching DEF Next, Step

\* A row is created with the hash of a content, and an upload that succeeds
\* keeps it.
LEMMA NextHashed ==
  Inv /\ NoUploadFails /\ Hashed /\ [Next]_vars => Hashed'
<1> SUFFICES ASSUME Inv, NoUploadFails, Hashed, [Next]_vars  PROVE Hashed'
  OBVIOUS
<1>1. ASSUME NEW t \in Task, Call(t) \/ TaskStep(t)  PROVE Hashed'
  <2>1. ASSUME NEW o \in DOMAIN objects' \ DOMAIN objects  PROVE objects'[o].hash # None
    <3>1. RegisterNew(t) /\ objects'[o].hash = data[task[t].el]
      BY <1>1, <2>1, RowSteps
    <3>2. task[t].el \in CacheEntry
      BY <3>1, UserOf DEF RegisterNew
    <3>3. data[task[t].el] \in Data
      BY <3>2 DEF Inv, Shared
    <3> QED  BY <3>1, <3>3, BlockCacheAssumption
  <2> QED  BY <1>1, <2>1, RowSteps DEF Hashed
<1>2. ASSUME UNCHANGED objects  PROVE Hashed'
  BY <1>2 DEF Hashed
<1>3. ASSUME NEW w \in Thread, ThreadStep(w)  PROVE Hashed'
  <2>1. CASE FinishUpload(w)
    <3>1. objects' = [objects EXCEPT ![thread[w].obj].phys = TRUE]
      BY <2>1 DEF FinishUpload, NoUploadFails
    <3> QED  BY <3>1 DEF Hashed, Inv, Shared, ObjectRow
  <2> QED  BY <1>2, <1>3, <2>1, ThreadChanges
<1>4. ASSUME NEW r \in Remover, RemoverStep(r)  PROVE Hashed'
  BY <1>2, <1>4 DEF RemoverStep, RemovalTake, RemovalDelete, database
<1>5. ASSUME NEW i \in Inode, KernelStep(i)  PROVE Hashed'
  BY <1>2, <1>5 DEF KernelStep, Forget, Lookup, database
<1>6. CASE UNCHANGED vars
  BY <1>2, <1>6 DEF vars
<1> QED  BY <1>1, <1>3, <1>4, <1>5, <1>6 DEF Next, Step

\* Every step of the system.
LEMMA NextSim ==
  /\ Inv /\ LockOwnership /\ Uploads /\ Copies /\ NoDangling /\ Linked /\ Removing /\ Stored
  /\ Inv' /\ NoDangling'
  /\ NoUploadFails /\ Hashed /\ Hashed' /\ Fetching /\ Clean /\ [Next]_vars
  => Simulated /\ Clean'
<1> SUFFICES ASSUME Inv, LockOwnership, Uploads, Copies, NoDangling, Linked, Stored, Inv', NoDangling',
                    NoUploadFails, Hashed, Hashed', Fetching, Clean, [Next]_vars
             PROVE  Simulated /\ Clean'
  OBVIOUS
<1>1. ASSUME UNCHANGED <<objects, inode_blocks, cache, data, dirty, task>>  PROVE Simulated /\ Clean'
  <2>1. \A b \in Block : Saved(b)' = Saved(b)
    BY <1>1 DEF Saved
  <2>2. \A t \in Task : Requests(t)' = Requests(t)
    BY <1>1 DEF Requests
  <2> QED  BY <1>1, <2>1, <2>2, QuietSim
<1>2. ASSUME NEW t \in Task, Call(t)  PROVE Simulated /\ Clean'
  BY <1>2, CallSim
<1>3. ASSUME NEW t \in Task, TaskStep(t)  PROVE Simulated /\ Clean'
  BY <1>3, TaskSim
<1>4. ASSUME NEW w \in Thread, ThreadStep(w)  PROVE Simulated /\ Clean'
  BY <1>4, ThreadSim
<1>5. ASSUME NEW r \in Remover, RemoverStep(r)  PROVE Simulated /\ Clean'
  BY <1>1, <1>5 DEF RemoverStep, RemovalTake, RemovalDelete, database, entries
<1>6. ASSUME NEW i \in Inode, KernelStep(i)  PROVE Simulated /\ Clean'
  BY <1>1, <1>6 DEF KernelStep, Forget, Lookup, database, entries
<1>7. CASE UNCHANGED vars
  BY <1>1, <1>7 DEF vars
<1> QED  BY <1>2, <1>3, <1>4, <1>5, <1>6, <1>7 DEF Next, Step

\* A file system that has just been mounted.
LEMMA InitSim == Init => Abstract!Init /\ Hashed /\ Fetching /\ Clean
<1> SUFFICES ASSUME Init  PROVE Abstract!Init /\ Hashed /\ Fetching /\ Clean
  OBVIOUS
<1>1. \A t \in Task : task[t] = IdleTask /\ task[t].pc = "idle"
  BY DEF Init, IdleTask
<1>2. \A b \in Block : cache[b] = None
  BY DEF Init
<1>3. \A o \in DOMAIN objects : objects[o].hash \in Data
  <2>1. PICK linked : linked = {inode_blocks[b] : b \in Block} \ {None}
    OBVIOUS
  <2>2. PICK hash \in [linked -> Data] :
          objects = [o \in linked |->
               [refcount |-> Cardinality({b \in Block : inode_blocks[b] = o}),
                hash |-> hash[o], phys |-> TRUE]]
    BY <2>1 DEF Init
  <2> QED  BY <2>2
<1>4. Hashed /\ Fetching /\ Clean
  BY <1>1, <1>2, <1>3, BlockCacheAssumption DEF Hashed, Fetching, Clean, CleanAt
<1>5. \A b \in Block : Content(b) = Saved(b) /\ Content(b) \in Data
  BY <1>2, <1>4, InitInv, InitRefs, ContentTyped DEF Content
<1>6. \A t \in Task : Requests(t) = {}
  BY <1>1, IdleRequests
<1>7. Abstract!Init
  <2>1. AbstractState[1] = AbstractState[2] /\ AbstractState[1] \in [Block -> Data]
    BY <1>5, AbstractView
  <2>2. AbstractState[3] = [t \in Task |-> {}]
    BY <1>6, AbstractView
  <2> QED  BY <2>1, <2>2 DEF Abstract!Init, Abstract!Block, Block
<1> QED  BY <1>4, <1>7

(***************************************************************************)
(* BlockCache, for every number of tasks, threads, files, blocks and       *)
(* contents and every cache size, as long as no upload fails: the content  *)
(* of a block changes only where a request to write or remove it is        *)
(* served, or where a new file is given the recorded contents of another;  *)
(* what the database records for a block is the content the block has at   *)
(* that moment.  Expiring entries, downloading them again, sharing objects *)
(* between blocks, uploading and removing objects do not show, in whatever *)
(* order tasks and threads interleave (block_cache.py:413-990).            *)
(***************************************************************************)
THEOREM BlocksKeepContent == Spec /\ []NoUploadFails => ImplementsBlockStore
<1>1. Spec => [](Inv /\ LockOwnership /\ Uploads /\ Copies /\ NoDangling /\ Linked /\ Removing /\ Stored)
  BY Invariants
<1>2. Spec => []Fetching
  BY <1>1, InitSim, NextFetching, PTL DEF Spec
<1>3. Spec /\ []NoUploadFails => []Hashed
  BY <1>1, InitSim, NextHashed, PTL DEF Spec
<1>4. Spec /\ []NoUploadFails => []Clean
  BY <1>1, <1>2, <1>3, InitSim, NextSim, PTL DEF Spec
<1>5. Spec /\ []NoUploadFails => [][Abstract!Next]_<<AbstractState[1], AbstractState[2], AbstractState[3]>>
  <2>1. Simulated => [Abstract!Next]_<<AbstractState[1], AbstractState[2], AbstractState[3]>>
    BY DEF Simulated
  <2> QED  BY <1>1, <1>2, <1>3, <1>4, <2>1, NextSim, PTL DEF Spec
<1> QED  BY <1>5, InitSim, PTL DEF Spec, ImplementsBlockStore, Abstract!Spec

(***************************************************************************)
(* The same where the backend never fails, whatever the tasks do.          *)
(***************************************************************************)
THEOREM ReliableBackendKeepsContent ==
  ASSUME Faulty = {}
  PROVE  Spec => ImplementsBlockStore
<1>1. Spec => []Inv
  BY Invariants, PTL
<1> DEFINE AllLast == \A w \in Thread : Lasting(w)
<1>2. Init => AllLast
  BY DEF Init, Lasting, IdleThread
<1>3. Inv /\ AllLast /\ [Next]_vars => AllLast'
  BY NextLasting
<1>4. AllLast => NoUploadFails
  BY DEF Lasting, NoUploadFails
<1> QED
  <2> HIDE DEF AllLast
  <2> QED  BY <1>1, <1>2, <1>3, <1>4, BlocksKeepContent, PTL DEF Spec
=============================================================================
