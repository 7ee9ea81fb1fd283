-------------------------- MODULE StructureProofs --------------------------
(***************************************************************************)
(* Proofs about the two data structures the file system and the block      *)
(* cache rest on, the inode cache and the locks per key, for every number  *)
(* of inodes, slots, tasks and keys.                                       *)
(***************************************************************************)
EXTENDS InodeCache, MultiLock, TLAPS

(***************************************************************************)
(* The inode cache implements a plain table of inodes, for every size of   *)
(* the ring and every set of inodes.                                       *)
(***************************************************************************)
(* The inductive invariant.  A slot of the ring may name an inode that was *)
(* deleted, but an inode in the cache is named by a slot, has a row, and   *)
(* equals its row unless it is dirty.                                      *)
IInv == TypeOK /\ RingCovers /\ CleanIsCurrent /\ RowsUsed

(* The ring is closed: the position stays a slot (inode_cache.py:165). *)
LEMMA AdvanceInRing == ASSUME pos \in Slot PROVE Advance(pos) \in Slot
  <1>1. CacheSize \in Nat /\ CacheSize > 0 /\ pos \in Nat /\ pos + 1 \in Nat
    BY InodeCacheAssumption DEF Slot
  <1>2. (pos + 1) % CacheSize \in 0 .. CacheSize - 1
    BY <1>1
  <1> QED BY <1>2 DEF Advance, Slot

(* The empty cache satisfies the invariant. *)
LEMMA InitInv == Init => IInv
  <1> SUFFICES ASSUME Init PROVE IInv OBVIOUS
  <1>1. 0 \in Slot BY InodeCacheAssumption DEF Slot
  <1>2. TypeOK BY <1>1 DEF Init, TypeOK
  <1>3. RingCovers BY DEF Init, RingCovers, Cached
  <1>4. CleanIsCurrent /\ RowsUsed BY DEF Init, CleanIsCurrent, RowsUsed
  <1> QED BY <1>2, <1>3, <1>4 DEF IInv

(* What setattr writes are attributes, and it writes to rows only. *)
LEMMA WrittenType ==
  ASSUME TypeOK, NEW db \in [Id -> Value \cup {NoRow}], NEW set
  PROVE  Written(db, set) \in [Id -> Value \cup {NoRow}]
  BY DEF Written, TypeOK

(* Retrieving a row, also one just inserted, keeps the invariant.          *)
(* (InodeCache.__getitem__ and create_inode)                               *)
LEMMA InstallInv ==
  ASSUME IInv, NEW i \in Id, NEW db \in [Id -> Value \cup {NoRow}],
         attrs[i] = Nothing, db[i] # NoRow,
         \A j \in Id \ {i} : db[j] = inodes[j],
         Install(i, db), used' = used \cup {i}
  PROVE  IInv'
  <1> USE DEF IInv
  <1>1. TypeOK'
    <2>1. inodes' \in [Id -> Value \cup {NoRow}]
      BY WrittenType DEF Install
    <2>2. attrs' \in [Id -> [val : Value, dirty : BOOLEAN] \cup {Nothing}]
      BY DEF Install, TypeOK
    <2>3. cached_rows' \in [Slot -> Id \cup {Nothing}]
      BY DEF Install, TypeOK
    <2>4. pos' \in Slot
      BY AdvanceInRing DEF Install, TypeOK
    <2> QED BY <2>1, <2>2, <2>3, <2>4 DEF TypeOK
  <1>2. RingCovers'
    <2> SUFFICES ASSUME NEW j \in Id, attrs'[j] # Nothing
                 PROVE  \E s \in Slot : cached_rows'[s] = j
      BY DEF RingCovers, Cached, Ring
    <2>1. CASE j = i
      BY <2>1 DEF Install, TypeOK
    <2>2. CASE j # i
      <3>1. attrs[j] # Nothing /\ j # cached_rows[pos]
        BY <2>2 DEF Install, Oldest, TypeOK
      <3>2. PICK s \in Slot : cached_rows[s] = j
        BY <3>1 DEF RingCovers, Cached, Ring
      <3>3. cached_rows'[s] = j
        BY <3>1, <3>2 DEF Install, TypeOK
      <3> QED BY <3>3
    <2> QED BY <2>1, <2>2
  <1>3. ASSUME NEW j \in Id, j # i
        PROVE  inodes'[j] = IF j = Oldest /\ attrs[j] # Nothing /\ attrs[j].dirty
                            THEN attrs[j].val ELSE inodes[j]
    BY <1>3 DEF Install, Written
  <1>4. inodes'[i] = db[i]
    BY DEF Install, Written
  <1>5. CleanIsCurrent'
    <2> SUFFICES ASSUME NEW j \in Id, attrs'[j] # Nothing
                 PROVE  /\ j \in used' /\ inodes'[j] # NoRow
                        /\ ~attrs'[j].dirty => attrs'[j].val = inodes'[j]
      BY DEF CleanIsCurrent
    <2>1. CASE j = i
      BY <2>1, <1>4 DEF Install
    <2>2. CASE j # i
      BY <2>2, <1>3 DEF Install, CleanIsCurrent
    <2> QED BY <2>1, <2>2
  <1>6. RowsUsed'
    <2> SUFFICES ASSUME NEW j \in Id, inodes'[j] # NoRow PROVE j \in used'
      BY DEF RowsUsed
    <2>1. CASE j = i
      BY <2>1
    <2>2. CASE j # i
      BY <2>2, <1>3 DEF RowsUsed, CleanIsCurrent
    <2> QED BY <2>1, <2>2
  <1> QED BY <1>1, <1>2, <1>5, <1>6

(* Every operation of the cache keeps the invariant. *)
LEMMA NextInv == IInv /\ [Next]_vars => IInv'
  <1> SUFFICES ASSUME IInv, [Next]_vars PROVE IInv'
    OBVIOUS
  <1> USE DEF IInv
  <1>1. ASSUME NEW i \in Id, __getitem__(i) PROVE IInv'
    <2>1. used' = used \cup {i}
      BY <1>1 DEF __getitem__, RowsUsed
    <2> QED BY <1>1, <2>1, InstallInv DEF __getitem__, TypeOK
  <1>2. ASSUME NEW i \in Id, NEW v \in Value, create_inode(i, v) PROVE IInv'
    <2> DEFINE db == [inodes EXCEPT ![i] = v]
    <2>1. db \in [Id -> Value \cup {NoRow}] /\ db[i] = v
      BY DEF TypeOK
    <2>2. attrs[i] = Nothing /\ v # NoRow
      BY <1>2, InodeCacheAssumption DEF create_inode, CleanIsCurrent
    <2>3. \A j \in Id \ {i} : db[j] = inodes[j]
      BY DEF TypeOK
    <2>4. Install(i, db) /\ used' = used \cup {i}
      BY <1>2 DEF create_inode
    <2> QED BY <2>1, <2>2, <2>3, <2>4, InstallInv
  <1>3. ASSUME NEW i \in Id, NEW v \in Value, __setattr__(i, v) PROVE IInv'
    <2>1. TypeOK' BY <1>3 DEF __setattr__, TypeOK
    <2>2. RingCovers' BY <1>3 DEF __setattr__, TypeOK, RingCovers, Cached, Ring
    <2>3. CleanIsCurrent' BY <1>3 DEF __setattr__, TypeOK, CleanIsCurrent
    <2>4. RowsUsed' BY <1>3 DEF __setattr__, RowsUsed
    <2> QED BY <2>1, <2>2, <2>3, <2>4
  <1>4. ASSUME NEW i \in Id, __delitem__(i) PROVE IInv'
    <2>1. TypeOK' BY <1>4 DEF __delitem__, WithoutAttrs, TypeOK
    <2>2. RingCovers'
      BY <1>4 DEF __delitem__, WithoutAttrs, TypeOK, RingCovers, Cached, Ring
    <2>3. CleanIsCurrent'
      BY <1>4 DEF __delitem__, WithoutAttrs, TypeOK, CleanIsCurrent
    <2>4. RowsUsed' BY <1>4 DEF __delitem__, TypeOK, RowsUsed
    <2> QED BY <2>1, <2>2, <2>3, <2>4
  <1>5. ASSUME NEW set, inodes' = Written(inodes, set), attrs' = Cleaned(set),
               UNCHANGED <<used, cached_rows, pos>>
        PROVE  IInv'
    <2>1. attrs' \in [Id -> [val : Value, dirty : BOOLEAN] \cup {Nothing}]
      BY <1>5 DEF Cleaned, TypeOK
    <2>2. TypeOK' BY <1>5, <2>1, WrittenType DEF TypeOK
    <2>3. RingCovers'
      BY <1>5, InodeCacheAssumption DEF Cleaned, TypeOK, RingCovers, Cached, Ring
    <2>4. CleanIsCurrent'
      BY <1>5, InodeCacheAssumption DEF Cleaned, Written, TypeOK, CleanIsCurrent
    <2>5. RowsUsed' BY <1>5 DEF Written, CleanIsCurrent, RowsUsed
    <2> QED BY <2>2, <2>3, <2>4, <2>5
  <1>6. CASE destroy
    <2>1. TypeOK' BY <1>6, WrittenType DEF destroy, TypeOK
    <2>2. Cached' = {}
      BY <1>6 DEF destroy, Cached, RingCovers
    <2>3. RingCovers' /\ CleanIsCurrent'
      BY <2>2 DEF RingCovers, CleanIsCurrent, Cached
    <2>4. RowsUsed' BY <1>6 DEF destroy, Written, CleanIsCurrent, RowsUsed
    <2> QED BY <2>1, <2>3, <2>4
  <1>7. CASE UNCHANGED vars
    BY <1>7 DEF vars, TypeOK, RingCovers, Cached, Ring, CleanIsCurrent, RowsUsed
  <1> QED BY <1>1, <1>2, <1>3, <1>4, <1>5, <1>6, <1>7 DEF Next, flush, flush_id

(* The cache is well-formed, its ring names every cached inode and no      *)
(* clean inode differs from its row: inode_cache.py for every CACHE_SIZE.  *)
THEOREM InodeCacheCorrect == Spec => [](TypeOK /\ RingCovers /\ CleanIsCurrent)
  <1>1. IInv => TypeOK /\ RingCovers /\ CleanIsCurrent BY DEF IInv
  <1> QED BY <1>1, InitInv, NextInv, PTL DEF Spec

-----------------------------------------------------------------------------
(* Refinement.                                                             *)

(* Writing changed inodes back leaves what callers see. *)
LEMMA WriteBackInvisible ==
  ASSUME IInv, NEW set, inodes' = Written(inodes, set),
         \A j \in Id : IF attrs[j] = Nothing THEN attrs'[j] = Nothing
                       ELSE \/ attrs'[j] = Nothing /\ j \in set
                            \/ attrs'[j] # Nothing /\ attrs'[j].val = attrs[j].val
                               
  PROVE  View' = View
  <1> SUFFICES ASSUME NEW j \in Id
               PROVE  (IF attrs'[j] # Nothing THEN attrs'[j].val ELSE inodes'[j])
                      = (IF attrs[j] # Nothing THEN attrs[j].val ELSE inodes[j])
    BY DEF View
  <1>1. inodes'[j] = IF j \in set /\ attrs[j] # Nothing
                     THEN IF attrs[j].dirty THEN attrs[j].val ELSE inodes[j]
                     ELSE inodes[j]
    BY DEF Written
  <1> QED BY <1>1 DEF IInv, CleanIsCurrent

(* Retrieving an inode shows the given row of it, and leaves the others. *)
LEMMA InstallView ==
  ASSUME IInv, NEW i \in Id, NEW db \in [Id -> Value \cup {NoRow}],
         db[i] # NoRow, \A j \in Id \ {i} : db[j] = inodes[j], Install(i, db)
  PROVE  View' = [View EXCEPT ![i] = db[i]]
  <1>1. ASSUME NEW j \in Id, j # i
        PROVE  (IF attrs'[j] # Nothing THEN attrs'[j].val ELSE inodes'[j])
               = (IF attrs[j] # Nothing THEN attrs[j].val ELSE inodes[j])
    BY <1>1 DEF IInv, CleanIsCurrent, Install, Written
  <1>2. attrs'[i] = [val |-> db[i], dirty |-> FALSE]
    BY DEF Install
  <1>3. attrs'[i] # Nothing
    <2>1. [val |-> db[i], dirty |-> FALSE] \in [val : Value, dirty : BOOLEAN]
      OBVIOUS
    <2> QED BY <1>2, <2>1, InodeCacheAssumption
  <1>4. ASSUME NEW j \in Id PROVE View'[j] = [View EXCEPT ![i] = db[i]][j]
    BY <1>1, <1>2, <1>3 DEF View
  <1> QED BY <1>4 DEF View

(* Every operation of the cache is an operation of the table, or invisible. *)
LEMMA StepSimulated == IInv /\ [Next]_vars => [Table!Next]_View
  <1> SUFFICES ASSUME IInv, [Next]_vars PROVE [Table!Next]_View
    OBVIOUS
  <1> USE DEF IInv
  <1>1. ASSUME NEW i \in Id, __getitem__(i) PROVE View' = View
    <2>1. View' = [View EXCEPT ![i] = inodes[i]]
      BY <1>1, InstallView DEF __getitem__, TypeOK
    <2>2. View[i] = inodes[i]
      BY <1>1 DEF __getitem__, View
    <2> QED BY <2>1, <2>2 DEF View
  <1>2. ASSUME NEW i \in Id, NEW v \in Value, create_inode(i, v)
        PROVE  Table!Create(i, v)
    <2> DEFINE db == [inodes EXCEPT ![i] = v]
    <2>1. db \in [Id -> Value \cup {NoRow}] /\ db[i] = v /\ v # NoRow
      BY InodeCacheAssumption DEF TypeOK
    <2>2. \A j \in Id \ {i} : db[j] = inodes[j]
      BY DEF TypeOK
    <2>3. View' = [View EXCEPT ![i] = v]
      BY <1>2, <2>1, <2>2, InstallView DEF create_inode
    <2>4. View[i] = NoRow
      BY <1>2 DEF create_inode, CleanIsCurrent, RowsUsed, View
    <2> QED BY <2>3, <2>4 DEF Table!Create
  <1>3. ASSUME NEW i \in Id, NEW v \in Value, __setattr__(i, v)
        PROVE  Table!Change(i, v)
    <2>1. attrs'[i] # Nothing /\ attrs'[i].val = v
      <3>1. attrs'[i] = [val |-> v, dirty |-> TRUE]
        BY <1>3 DEF __setattr__, TypeOK
      <3>2. [val |-> v, dirty |-> TRUE] \in [val : Value, dirty : BOOLEAN]
        OBVIOUS
      <3>3. attrs'[i] # Nothing
        BY <3>1, <3>2, InodeCacheAssumption
      <3> QED BY <3>1, <3>3
    <2>2. \A j \in Id \ {i} : attrs'[j] = attrs[j] /\ inodes'[j] = inodes[j]
      BY <1>3 DEF __setattr__, TypeOK
    <2>3. View' = [View EXCEPT ![i] = v]
      BY <2>1, <2>2 DEF View
    <2>4. View[i] \in Value
      BY <1>3, InodeCacheAssumption DEF __setattr__, TypeOK, View
    <2> QED BY <2>3, <2>4, InodeCacheAssumption DEF Table!Change
  <1>4. ASSUME NEW i \in Id, __delitem__(i) PROVE Table!Delete(i)
    <2>1. View' = [View EXCEPT ![i] = NoRow]
      BY <1>4 DEF __delitem__, WithoutAttrs, TypeOK, View
    <2>2. View[i] # NoRow
      BY <1>4, InodeCacheAssumption DEF __delitem__, TypeOK, View
    <2> QED BY <2>1, <2>2 DEF Table!Delete
  <1>5. ASSUME NEW set, inodes' = Written(inodes, set), attrs' = Cleaned(set)
        PROVE  View' = View
    <2>1. ASSUME NEW j \in Id, attrs[j] # Nothing
          PROVE  attrs'[j] # Nothing /\ attrs'[j].val = attrs[j].val
      BY <1>5, <2>1, InodeCacheAssumption DEF Cleaned, TypeOK
    <2>2. ASSUME NEW j \in Id, attrs[j] = Nothing PROVE attrs'[j] = Nothing
      BY <1>5, <2>2 DEF Cleaned
    <2> QED BY <1>5, <2>1, <2>2, WriteBackInvisible
  <1>6. ASSUME destroy PROVE View' = View
    <2>1. ASSUME NEW j \in Id
          PROVE  IF attrs[j] = Nothing THEN attrs'[j] = Nothing
                 ELSE attrs'[j] = Nothing /\ j \in Ring
      BY <1>6 DEF destroy, RingCovers, Cached
    <2> QED BY <1>6, <2>1, WriteBackInvisible DEF destroy
  <1>7. CASE UNCHANGED vars
    BY <1>7 DEF vars, View
  <1> QED BY <1>1, <1>2, <1>3, <1>4, <1>5, <1>6, <1>7
             DEF Next, flush, flush_id, Table!Next

(* The cache implements a plain table of inodes: whatever it expires,      *)
(* flushes or drops, no change is lost and no deleted inode comes back.    *)
(* (inode_cache.py, for every CACHE_SIZE and every set of inodes)          *)
THEOREM CacheImplementsTable == Spec => ImplementsTable
  <1>1. Init => Table!Init
    BY DEF Init, Table!Init, View
  <1> QED BY <1>1, InitInv, NextInv, StepSimulated, PTL
             DEF Spec, ImplementsTable, Table!Spec

-----------------------------------------------------------------------------
(***************************************************************************)
(* Proofs about module MultiLock, for every number of tasks and keys.      *)
(*                                                                         *)
(* A task is in at most one of three places: it owns the condition's lock, *)
(* it is queued for it, or it is in wait() (Places).  Every key that is    *)
(* being released is locked, and by one release only (Releases).  The task *)
(* that asked for a free key first is before everybody else who asks for   *)
(* it, and neither it nor the others are in wait() (Ahead).                *)
(***************************************************************************)
\* The type invariant; whoever calls has a key.
LockTypes ==
    /\ LockTypeOK
    /\ \A t \in Task : call[t] # "none" => key[t] \in Key

\* Where the tasks are.
Distinct(q) == \A i, j \in 1 .. Len(q) : q[i] = q[j] => i = j

Places ==
    /\ owner = None => lockq = <<>>
    /\ owner # None => call[owner] # "none"
    /\ \A i \in 1 .. Len(lockq) : lockq[i] # owner /\ call[lockq[i]] # "none"
    /\ \A i \in 1 .. Len(waitq) : waitq[i] # owner /\ call[waitq[i]] # "none"
    /\ Distinct(lockq) /\ Distinct(waitq)
    /\ \A i \in 1 .. Len(lockq), j \in 1 .. Len(waitq) : lockq[i] # waitq[j]

\* The keys that are being released.
Releases ==
    /\ granted \subseteq locked_keys
    /\ \A t \in Task : call[t] = "release" => key[t] \in locked_keys \ granted
    /\ \A t, u \in Task : call[t] = "release" /\ call[u] = "release" /\ key[t] = key[u] => t = u

\* Who asks for a key.
Asks(t, k) == t \in Task /\ call[t] = "acquire" /\ key[t] = k

AheadFor(k) ==
    /\ Asks(first[k], k) /\ k \notin locked_keys
    /\ Asks(owner, k) => owner = first[k]
    /\ \/ owner = first[k]
       \/ \E i \in 1 .. Len(lockq) :
             lockq[i] = first[k] /\ \A j \in 1 .. i - 1 : ~Asks(lockq[j], k)
    /\ \A i \in 1 .. Len(waitq) : ~Asks(waitq[i], k)

Ahead == \A k \in Key : first[k] # None => AheadFor(k)

-----------------------------------------------------------------------------
(* The condition's lock.                                                   *)

\* The head of the queue becomes the owner.
LEMMA HandedOver ==
  ASSUME NEW q \in Seq(Task), HandOver(q)
  PROVE  \/ q = <<>> /\ owner' = None /\ lockq' = <<>>
         \/ /\ Len(q) >= 1 /\ owner' = q[1] /\ owner' \in Task
            /\ lockq' \in Seq(Task) /\ Len(lockq') = Len(q) - 1
            /\ \A i \in 1 .. Len(lockq') : lockq'[i] = q[i + 1]
<1>1. CASE q = <<>>
  BY <1>1 DEF HandOver
<1>2. CASE q # <<>>
  BY <1>2 DEF HandOver
<1> QED  BY <1>1, <1>2

\* wait() puts a task behind the others.
LEMMA Appended ==
  ASSUME NEW q \in Seq(Task), NEW t \in Task
  PROVE  /\ Append(q, t) \in Seq(Task) /\ Len(Append(q, t)) = Len(q) + 1
         /\ Append(q, t)[Len(q) + 1] = t
         /\ \A i \in 1 .. Len(q) : Append(q, t)[i] = q[i]
OBVIOUS

\* A task that asks for the lock owns it or is the last in the queue.
LEMMA Requested ==
  ASSUME LockTypes, NEW t \in Task, RequestLock(t)
  PROVE  \/ owner = None /\ owner' = t /\ lockq' = lockq
         \/ /\ owner # None /\ owner' = owner
            /\ lockq' \in Seq(Task) /\ Len(lockq') = Len(lockq) + 1
            /\ lockq'[Len(lockq) + 1] = t
            /\ \A i \in 1 .. Len(lockq) : lockq'[i] = lockq[i]
<1>1. CASE owner = None
  BY <1>1 DEF RequestLock
<1>2. CASE owner # None
  <2>1. lockq \in Seq(Task) /\ lockq' = Append(lockq, t) /\ owner' = owner
    BY <1>2 DEF RequestLock, LockTypes, LockTypeOK
  <2> QED  BY <1>2, <2>1, Appended
<1> QED  BY <1>1, <1>2

\* notify_all() puts those who wait behind those who are queued.
LEMMA Joined ==
  ASSUME NEW q \in Seq(Task), NEW r \in Seq(Task)
  PROVE  /\ q \o r \in Seq(Task) /\ Len(q \o r) = Len(q) + Len(r)
         /\ \A i \in 1 .. Len(q) : (q \o r)[i] = q[i]
         /\ \A i \in 1 .. Len(r) : (q \o r)[Len(q) + i] = r[i]
OBVIOUS

\* What is behind the first queue comes from the second.
LEMMA JoinedFrom ==
  ASSUME NEW q \in Seq(Task), NEW r \in Seq(Task), NEW i \in 1 .. Len(q \o r)
  PROVE  \/ i \in 1 .. Len(q) /\ (q \o r)[i] = q[i]
         \/ i - Len(q) \in 1 .. Len(r) /\ (q \o r)[i] = r[i - Len(q)]
OBVIOUS

-----------------------------------------------------------------------------
(* Types.                                                                  *)

LEMMA InitTypes == LockInit => LockTypes
BY DEF LockInit, LockTypes, LockTypeOK

LEMMA NextTypes ==
  ASSUME LockTypes, [LockNext]_lockvars
  PROVE  LockTypes'
<1> USE DEF LockTypes, LockTypeOK
<1>1. ASSUME NEW t \in Task, NEW k \in Key, AcquireCall(t, k)  PROVE LockTypes'
  <2>1. owner' \in Task \cup {None} /\ lockq' \in Seq(Task)
    BY <1>1, Requested DEF AcquireCall
  <2> QED  BY <1>1, <2>1 DEF AcquireCall
<1>2. ASSUME NEW t \in Task, NEW k \in Key, ReleaseCall(t, k)  PROVE LockTypes'
  <2>1. owner' \in Task \cup {None} /\ lockq' \in Seq(Task)
    BY <1>2, Requested DEF ReleaseCall
  <2> QED  BY <1>2, <2>1 DEF ReleaseCall
<1>3. ASSUME NEW t \in Task, NEW k \in Key, AcquireNowait(t, k)  PROVE LockTypes'
  BY <1>3 DEF AcquireNowait
<1>4. ASSUME NEW t \in Task, AcquireWait(t)  PROVE LockTypes'
  <2>1. owner' \in Task \cup {None} /\ lockq' \in Seq(Task)
    BY <1>4, HandedOver DEF AcquireWait
  <2> QED  BY <1>4, <2>1 DEF AcquireWait
<1>5. ASSUME NEW t \in Task, AcquireReturn(t)  PROVE LockTypes'
  <2>1. owner' \in Task \cup {None} /\ lockq' \in Seq(Task)
    BY <1>5, HandedOver DEF AcquireReturn
  <2> QED  BY <1>5, <2>1 DEF AcquireReturn
<1>6. ASSUME NEW t \in Task, ReleaseReturn(t)  PROVE LockTypes'
  <2>1. owner' \in Task \cup {None} /\ lockq' \in Seq(Task)
    BY <1>6, HandedOver, Joined DEF ReleaseReturn
  <2> QED  BY <1>6, <2>1 DEF ReleaseReturn
<1>7. CASE UNCHANGED lockvars
  BY <1>7 DEF lockvars
<1> QED
  <2> HIDE DEF LockTypes, LockTypeOK
  <2> QED  BY <1>1, <1>2, <1>3, <1>4, <1>5, <1>6, <1>7 DEF LockNext, Resume

-----------------------------------------------------------------------------
(* Where the tasks are.                                                    *)

\* The owner leaves and the head of the queue takes its place.
LEMMA OwnerLeaves ==
  ASSUME LockTypes, Places, NEW t \in Task, owner = t, HandOver(lockq)
  PROVE  /\ owner' = None => lockq' = <<>>
         /\ owner' # None => Len(lockq) >= 1 /\ owner' = lockq[1]
         /\ lockq' \in Seq(Task)
         /\ \A i \in 1 .. Len(lockq') :
               /\ i + 1 \in 1 .. Len(lockq) /\ lockq'[i] = lockq[i + 1]
               /\ lockq'[i] # owner' /\ lockq'[i] # t
         /\ Distinct(lockq')
         /\ owner' # t
<1>0. lockq \in Seq(Task)
  BY DEF LockTypes, LockTypeOK
<1>1. CASE lockq = <<>> /\ owner' = None /\ lockq' = <<>>
  BY <1>1, MultiLockAssumption DEF Distinct
<1>2. CASE /\ Len(lockq) >= 1 /\ owner' = lockq[1] /\ owner' \in Task
           /\ lockq' \in Seq(Task) /\ Len(lockq') = Len(lockq) - 1
           /\ \A i \in 1 .. Len(lockq') : lockq'[i] = lockq[i + 1]
  BY <1>0, <1>2, MultiLockAssumption DEF Places, Distinct
<1> QED  BY <1>0, <1>1, <1>2, HandedOver

LEMMA NextPlaces ==
  ASSUME LockTypes, Places, [LockNext]_lockvars
  PROVE  Places'
<1>0. lockq \in Seq(Task) /\ waitq \in Seq(Task) /\ None \notin Task
  BY MultiLockAssumption DEF LockTypes, LockTypeOK
<1>1. ASSUME NEW t \in Task, call[t] = "none", RequestLock(t), UNCHANGED waitq,
             call'[t] # "none", \A u \in Task \ {t} : call'[u] = call[u]
      PROVE  Places'
  <2>1. /\ t # owner
        /\ \A i \in 1 .. Len(lockq) : lockq[i] # t /\ lockq[i] \in Task
        /\ \A i \in 1 .. Len(waitq) : waitq[i] # t /\ waitq[i] \in Task
    BY <1>0, <1>1 DEF Places
  <2>2. owner # None => owner \in Task
    BY DEF LockTypes, LockTypeOK
  <2>3. CASE owner = None /\ owner' = t /\ lockq' = lockq
    BY <1>0, <1>1, <2>1, <2>3 DEF Places, Distinct
  <2>4. CASE /\ owner # None /\ owner' = owner
             /\ lockq' \in Seq(Task) /\ Len(lockq') = Len(lockq) + 1
             /\ lockq'[Len(lockq) + 1] = t
             /\ \A i \in 1 .. Len(lockq) : lockq'[i] = lockq[i]
    <3>1. \A i \in 1 .. Len(lockq') : i \in 1 .. Len(lockq) \/ i = Len(lockq) + 1
      BY <1>0, <2>4
    <3>2. Distinct(lockq')
      BY <1>0, <2>1, <2>4, <3>1 DEF Places, Distinct
    <3>3. \A i \in 1 .. Len(lockq') : lockq'[i] # owner' /\ call'[lockq'[i]] # "none"
      BY <1>1, <2>1, <2>4, <3>1 DEF Places
    <3>4. \A i \in 1 .. Len(lockq'), j \in 1 .. Len(waitq) : lockq'[i] # waitq[j]
      BY <2>1, <2>4, <3>1 DEF Places
    <3>5. owner' # None => call'[owner'] # "none"
      BY <1>1, <2>1, <2>2, <2>4 DEF Places
    <3>6. \A i \in 1 .. Len(waitq') : waitq'[i] # owner' /\ call'[waitq'[i]] # "none"
      BY <1>1, <2>1, <2>4 DEF Places
    <3>7. Distinct(waitq')
      BY <1>1 DEF Places
    <3>8. owner' # None
      BY <2>4
    <3> QED  BY <1>1, <3>2, <3>3, <3>4, <3>5, <3>6, <3>7, <3>8 DEF Places
  <2> QED  BY <1>1, <2>3, <2>4, Requested
<1>2. ASSUME NEW t \in Task, NEW k \in Key, AcquireCall(t, k) \/ ReleaseCall(t, k)  PROVE Places'
  <2>1. /\ call[t] = "none" /\ RequestLock(t) /\ UNCHANGED waitq
        /\ call'[t] # "none" /\ \A u \in Task \ {t} : call'[u] = call[u]
    BY <1>2 DEF AcquireCall, ReleaseCall, LockTypes, LockTypeOK
  <2> QED  BY <1>1, <2>1
<1>3. ASSUME NEW t \in Task, AcquireWait(t)  PROVE Places'
  <2>1. HandOver(lockq) /\ owner = t /\ waitq' = Append(waitq, t) /\ UNCHANGED call
    BY <1>3 DEF AcquireWait
  <2>2. /\ waitq' \in Seq(Task) /\ Len(waitq') = Len(waitq) + 1
        /\ waitq'[Len(waitq) + 1] = t
        /\ \A i \in 1 .. Len(waitq) : waitq'[i] = waitq[i]
    BY <1>0, <2>1, Appended
  <2>3. \A i \in 1 .. Len(waitq') : i \in 1 .. Len(waitq) \/ i = Len(waitq) + 1
    BY <1>0, <2>2
  <2>4. Distinct(waitq')
    BY <1>0, <2>1, <2>2, <2>3 DEF Places, Distinct
  <2>5. \A i \in 1 .. Len(waitq') : waitq'[i] # owner' /\ call'[waitq'[i]] # "none"
    BY <1>0, <2>1, <2>2, <2>3, OwnerLeaves DEF Places
  <2>6. \A i \in 1 .. Len(lockq'), j \in 1 .. Len(waitq') : lockq'[i] # waitq'[j]
    BY <2>1, <2>2, <2>3, OwnerLeaves DEF Places
  <2>7. owner' # None => call'[owner'] # "none"
    BY <1>0, <2>1, OwnerLeaves DEF Places
  <2>8. \A i \in 1 .. Len(lockq') : lockq'[i] # owner' /\ call'[lockq'[i]] # "none"
    BY <2>1, OwnerLeaves DEF Places
  <2> QED  BY <2>1, <2>4, <2>5, <2>6, <2>7, <2>8, OwnerLeaves DEF Places
<1>4. ASSUME NEW t \in Task, AcquireReturn(t)  PROVE Places'
  <2>1. HandOver(lockq) /\ owner = t /\ UNCHANGED waitq
    BY <1>4 DEF AcquireReturn
  <2>2. \A u \in Task \ {t} : call'[u] = call[u]
    BY <1>4 DEF AcquireReturn, LockTypes, LockTypeOK
  <2>3. \A i \in 1 .. Len(lockq') : lockq'[i] \in Task \ {t} /\ call'[lockq'[i]] # "none"
    BY <1>0, <2>1, <2>2, OwnerLeaves DEF Places
  <2>4. \A i \in 1 .. Len(waitq) : waitq[i] \in Task \ {t} /\ call'[waitq[i]] # "none"
    BY <1>0, <2>1, <2>2 DEF Places
  <2>5. owner' # None => call'[owner'] # "none"
    BY <1>0, <2>1, <2>2, OwnerLeaves DEF Places
  <2>6. \A i \in 1 .. Len(waitq) : waitq[i] # owner'
    BY <1>0, <2>1, OwnerLeaves DEF Places
  <2>7. \A i \in 1 .. Len(lockq'), j \in 1 .. Len(waitq) : lockq'[i] # waitq[j]
    BY <2>1, OwnerLeaves DEF Places
  <2> QED  BY <2>1, <2>3, <2>4, <2>5, <2>6, <2>7, OwnerLeaves DEF Places
<1>5. ASSUME NEW t \in Task, ReleaseReturn(t)  PROVE Places'
  <2> DEFINE q == lockq \o waitq
  <2>1. HandOver(q) /\ owner = t /\ waitq' = <<>>
    BY <1>5 DEF ReleaseReturn
  <2>2. \A u \in Task \ {t} : call'[u] = call[u]
    BY <1>5 DEF ReleaseReturn, LockTypes, LockTypeOK
  <2>3. q \in Seq(Task)
    BY <1>0, Joined
  <2>4. ASSUME NEW i \in 1 .. Len(q)  PROVE q[i] \in Task \ {t} /\ call'[q[i]] # "none"
    <3>1. \/ i \in 1 .. Len(lockq) /\ q[i] = lockq[i]
          \/ i - Len(lockq) \in 1 .. Len(waitq) /\ q[i] = waitq[i - Len(lockq)]
      BY <1>0, JoinedFrom
    <3>2. \A j \in 1 .. Len(lockq) : lockq[j] \in Task \ {t} /\ call[lockq[j]] # "none"
      BY <1>0, <2>1 DEF Places
    <3>3. \A j \in 1 .. Len(waitq) : waitq[j] \in Task \ {t} /\ call[waitq[j]] # "none"
      BY <1>0, <2>1 DEF Places
    <3> HIDE DEF q
    <3> QED  BY <2>2, <3>1, <3>2, <3>3
  <2>5. Distinct(q)
    <3> SUFFICES ASSUME NEW i \in 1 .. Len(q), NEW j \in 1 .. Len(q), q[i] = q[j]  PROVE i = j
      BY DEF Distinct
    <3>1. \/ i \in 1 .. Len(lockq) /\ q[i] = lockq[i]
          \/ i - Len(lockq) \in 1 .. Len(waitq) /\ q[i] = waitq[i - Len(lockq)]
      BY <1>0, JoinedFrom
    <3>2. \/ j \in 1 .. Len(lockq) /\ q[j] = lockq[j]
          \/ j - Len(lockq) \in 1 .. Len(waitq) /\ q[j] = waitq[j - Len(lockq)]
      BY <1>0, JoinedFrom
    <3>3. Len(lockq) \in Nat
      BY <1>0
    <3> HIDE DEF q
    <3> QED  BY <3>1, <3>2, <3>3 DEF Places, Distinct
  <2> HIDE DEF q
  <2>6. CASE q = <<>> /\ owner' = None /\ lockq' = <<>>
    BY <2>1, <2>6 DEF Places, Distinct
  <2>7. CASE /\ Len(q) >= 1 /\ owner' = q[1] /\ owner' \in Task
             /\ lockq' \in Seq(Task) /\ Len(lockq') = Len(q) - 1
             /\ \A i \in 1 .. Len(lockq') : lockq'[i] = q[i + 1]
    <3>1. owner' # None /\ call'[owner'] # "none"
      BY <1>0, <2>3, <2>4, <2>7
    <3>2. \A i \in 1 .. Len(lockq') : i + 1 \in 1 .. Len(q) /\ lockq'[i] = q[i + 1]
      BY <2>3, <2>7
    <3>3. \A i \in 1 .. Len(lockq') : lockq'[i] # owner' /\ call'[lockq'[i]] # "none"
      <4> SUFFICES ASSUME NEW i \in 1 .. Len(lockq')
                   PROVE  lockq'[i] # owner' /\ call'[lockq'[i]] # "none"
        OBVIOUS
      <4>1. 1 \in 1 .. Len(q) /\ i + 1 # 1
        BY <2>3, <2>7
      <4> QED  BY <2>4, <2>5, <2>7, <3>2, <4>1 DEF Distinct
    <3>4. Distinct(lockq')
      BY <2>5, <2>7, <3>2 DEF Distinct
    <3>5. Len(waitq') = 0 /\ Distinct(waitq')
      BY <2>1 DEF Distinct
    <3> QED  BY <3>1, <3>3, <3>4, <3>5 DEF Places
  <2> QED  BY <2>1, <2>3, <2>6, <2>7, HandedOver
<1>6. ASSUME UNCHANGED <<owner, lockq, waitq, call>>  PROVE Places'
  BY <1>6 DEF Places, Distinct
<1>7. CASE UNCHANGED lockvars
  BY <1>6, <1>7 DEF lockvars
<1> QED  BY <1>2, <1>3, <1>4, <1>5, <1>6, <1>7 DEF LockNext, Resume, AcquireNowait

LEMMA InitPlaces == LockInit => Places
BY DEF LockInit, Places, Distinct

-----------------------------------------------------------------------------
(* What is being released is locked.                                       *)

LEMMA InitReleases == LockInit => Releases
BY DEF LockInit, Releases

LEMMA NextReleases ==
  ASSUME LockTypes, Releases, [LockNext]_lockvars
  PROVE  Releases'
<1> USE DEF Releases, LockTypes, LockTypeOK
<1>1. ASSUME NEW t \in Task, NEW k \in Key, AcquireCall(t, k)  PROVE Releases'
  BY <1>1 DEF AcquireCall
<1>2. ASSUME NEW t \in Task, NEW k \in Key, AcquireNowait(t, k)  PROVE Releases'
  BY <1>2 DEF AcquireNowait
<1>3. ASSUME NEW t \in Task, NEW k \in Key, ReleaseCall(t, k)  PROVE Releases'
  BY <1>3 DEF ReleaseCall
<1>4. ASSUME NEW t \in Task, AcquireWait(t)  PROVE Releases'
  BY <1>4 DEF AcquireWait
<1>5. ASSUME NEW t \in Task, AcquireReturn(t)  PROVE Releases'
  BY <1>5 DEF AcquireReturn
<1>6. ASSUME NEW t \in Task, ReleaseReturn(t)  PROVE Releases'
  BY <1>6 DEF ReleaseReturn
<1>7. CASE UNCHANGED lockvars
  BY <1>7 DEF lockvars
<1> QED
  <2> HIDE DEF Releases, LockTypes, LockTypeOK
  <2> QED  BY <1>1, <1>2, <1>3, <1>4, <1>5, <1>6, <1>7 DEF LockNext, Resume

-----------------------------------------------------------------------------
(* Who asked first is ahead.                                               *)

LEMMA InitAhead == LockInit => Ahead
BY DEF LockInit, Ahead

\* Who is before the others in queue q becomes the owner or stays before them.
LEMMA Advances ==
  ASSUME NEW q \in Seq(Task), HandOver(q), NEW k \in Key, NEW f \in Task,
         NEW i \in 1 .. Len(q), q[i] = f, \A j \in 1 .. i - 1 : ~Asks(q[j], k)
  PROVE  /\ Asks(owner', k) => owner' = f
         /\ \/ owner' = f
            \/ \E m \in 1 .. Len(lockq') :
                  lockq'[m] = f /\ \A j \in 1 .. m - 1 : ~Asks(lockq'[j], k)
<1>1. /\ Len(q) >= 1 /\ owner' = q[1] /\ owner' \in Task
      /\ lockq' \in Seq(Task) /\ Len(lockq') = Len(q) - 1
      /\ \A m \in 1 .. Len(lockq') : lockq'[m] = q[m + 1]
  BY HandedOver
<1>2. CASE i = 1
  BY <1>1, <1>2
<1>3. CASE i # 1
  <2>1. i - 1 \in 1 .. Len(lockq') /\ lockq'[i - 1] = f
    BY <1>1, <1>3
  <2>2. ASSUME NEW j \in 1 .. (i - 1) - 1  PROVE ~Asks(lockq'[j], k)
    <3>1. j \in 1 .. Len(lockq') /\ j + 1 \in 1 .. i - 1
      BY <1>1, <1>3
    <3> QED  BY <1>1, <3>1
  <2>3. 1 \in 1 .. i - 1
    BY <1>3
  <2> QED  BY <1>1, <2>1, <2>2, <2>3
<1> QED  BY <1>2, <1>3

\* The owner, who does not ask for k, hands the lock over.
LEMMA StaysAhead ==
  ASSUME LockTypes, Places, NEW k \in Key, first[k] # None, AheadFor(k),
         ~Asks(owner, k), NEW q \in Seq(Task), HandOver(q), Len(q) >= Len(lockq),
         \A j \in 1 .. Len(lockq) : q[j] = lockq[j],
         first'[k] = first[k], k \notin locked_keys',
         \A u \in Task : Asks(u, k)' <=> Asks(u, k),
         \A j \in 1 .. Len(waitq') : ~Asks(waitq'[j], k) /\ waitq'[j] \in Task
  PROVE  AheadFor(k)'
<1>0. lockq \in Seq(Task) /\ first[k] \in Task
  BY DEF LockTypes, LockTypeOK
<1>1. PICK i \in 1 .. Len(lockq) :
        lockq[i] = first[k] /\ \A j \in 1 .. i - 1 : ~Asks(lockq[j], k)
  BY DEF AheadFor
<1>2. i \in 1 .. Len(q) /\ \A j \in 1 .. i - 1 : j \in 1 .. Len(lockq)
  BY <1>0, <1>1
<1>3. q[i] = first[k] /\ \A j \in 1 .. i - 1 : ~Asks(q[j], k)
  BY <1>0, <1>1, <1>2
<1>4. /\ Asks(owner', k) => owner' = first[k]
      /\ \/ owner' = first[k]
         \/ \E m \in 1 .. Len(lockq') :
               lockq'[m] = first[k] /\ \A j \in 1 .. m - 1 : ~Asks(lockq'[j], k)
  BY <1>0, <1>2, <1>3, Advances
<1>5. \A u : Asks(u, k)' <=> Asks(u, k)
  BY DEF Asks
<1>6. (Asks(first[k], k) /\ k \notin locked_keys)'
  BY <1>5 DEF AheadFor, Asks
<1>7. (Asks(owner, k) => owner = first[k])'
  BY <1>4, <1>5 DEF Asks
<1>8. (\/ owner = first[k]
       \/ \E m \in 1 .. Len(lockq) :
             lockq[m] = first[k] /\ \A j \in 1 .. m - 1 : ~Asks(lockq[j], k))'
  BY <1>4, <1>5 DEF Asks
<1>9. (\A j \in 1 .. Len(waitq) : ~Asks(waitq[j], k))'
  BY <1>5 DEF Asks
<1> QED  BY <1>6, <1>7, <1>8, <1>9 DEF AheadFor

LEMMA NextAhead ==
  ASSUME LockTypes, Places, Ahead, [LockNext]_lockvars
  PROVE  Ahead'
<1>0. lockq \in Seq(Task) /\ waitq \in Seq(Task) /\ None \notin Task
  BY MultiLockAssumption DEF LockTypes, LockTypeOK
<1>1. ASSUME NEW k \in Key, first[k] # None  PROVE AheadFor(k) /\ owner # None
  BY <1>0, <1>1 DEF Ahead, AheadFor, Places
\* A new caller comes last.
<1>2. ASSUME NEW t \in Task, call[t] = "none", RequestLock(t),
             UNCHANGED <<waitq>>, NEW k \in Key, first[k] # None, first'[k] = first[k],
             k \notin locked_keys',
             \A u \in Task \ {t} : Asks(u, k)' <=> Asks(u, k)
      PROVE  AheadFor(k)'
  <2>1. AheadFor(k) /\ owner # None /\ owner \in Task
    BY <1>1, <1>2 DEF LockTypes, LockTypeOK
  <2>2. /\ owner # t /\ first[k] # t
        /\ \A i \in 1 .. Len(lockq) : lockq[i] # t /\ lockq[i] \in Task
        /\ \A i \in 1 .. Len(waitq) : waitq[i] # t /\ waitq[i] \in Task
    BY <1>0, <1>2, <2>1 DEF Places, AheadFor, Asks
  <2>3. /\ owner' = owner
        /\ lockq' \in Seq(Task) /\ Len(lockq') = Len(lockq) + 1
        /\ \A i \in 1 .. Len(lockq) : lockq'[i] = lockq[i]
    BY <1>2, <2>1, Requested
  <2>4. (Asks(first[k], k) /\ k \notin locked_keys)'
    BY <1>2, <2>1, <2>2 DEF AheadFor, Asks
  <2>5. (Asks(owner, k) => owner = first[k])'
    BY <1>2, <2>1, <2>2, <2>3 DEF AheadFor, Asks
  <2>6. CASE owner = first[k]
    BY <1>2, <2>3, <2>4, <2>5, <2>6, <2>2, <2>1 DEF AheadFor, Asks
  <2>7. CASE owner # first[k]
    <3>1. PICK i \in 1 .. Len(lockq) :
            lockq[i] = first[k] /\ \A j \in 1 .. i - 1 : ~Asks(lockq[j], k)
      BY <2>1, <2>7 DEF AheadFor
    <3>2. i \in 1 .. Len(lockq') /\ \A j \in 1 .. i - 1 : j \in 1 .. Len(lockq)
      BY <1>0, <2>3, <3>1
    <3>3. \A j \in 1 .. i - 1 : lockq'[j] = lockq[j] /\ lockq[j] \in Task \ {t} /\ ~Asks(lockq[j], k)
      BY <2>2, <2>3, <3>1, <3>2
    <3>4. (\E m \in 1 .. Len(lockq) :
             lockq[m] = first[k] /\ \A j \in 1 .. m - 1 : ~Asks(lockq[j], k))'
      BY <1>2, <2>3, <3>1, <3>2, <3>3 DEF Asks
    <3>5. (\A i_1 \in 1 .. Len(waitq) : ~Asks(waitq[i_1], k))'
      BY <1>2, <2>1, <2>2 DEF AheadFor, Asks
    <3> QED  BY <2>4, <2>5, <3>4, <3>5 DEF AheadFor
  <2> QED  BY <2>6, <2>7
<1>3. ASSUME NEW t \in Task, NEW c \in Key, AcquireCall(t, c)  PROVE Ahead'
  <2>1. ASSUME NEW k \in Key, first'[k] # None, first'[k] = first[k]  PROVE AheadFor(k)'
    <3>1. AheadFor(k)
      BY <1>1, <2>1
    <3>2. k \notin locked_keys'
      BY <1>3, <3>1 DEF AcquireCall, AheadFor
    <3>3. \A u \in Task \ {t} : Asks(u, k)' <=> Asks(u, k)
      BY <1>3 DEF AcquireCall, Asks, LockTypes, LockTypeOK
    <3> QED  BY <1>2, <1>3, <2>1, <3>2, <3>3 DEF AcquireCall
  <2>2. ASSUME NEW k \in Key, first'[k] # None, first'[k] # first[k]  PROVE AheadFor(k)'
    <3>1. k = c /\ c \notin locked_keys /\ ~AskedFor(c) /\ first'[c] = t
      BY <1>3, <2>2 DEF AcquireCall, LockTypes, LockTypeOK
    <3>2. \A u : Asks(u, k)' <=> u = t
      BY <1>3, <3>1 DEF AcquireCall, Asks, AskedFor, LockTypes, LockTypeOK
    <3>3. /\ owner # t
          /\ \A i \in 1 .. Len(lockq) : lockq[i] # t
          /\ \A i \in 1 .. Len(waitq) : waitq[i] # t
      BY <1>0, <1>3 DEF Places, AcquireCall
    <3>4. (Asks(first[k], k) /\ k \notin locked_keys)'
      BY <1>3, <3>1, <3>2 DEF AcquireCall, Asks
    <3>5. (Asks(owner, k) => owner = first[k])'
      BY <3>1, <3>2 DEF Asks
    <3>6. (\A i \in 1 .. Len(waitq) : ~Asks(waitq[i], k))'
      BY <1>3, <3>2, <3>3 DEF AcquireCall, Asks
    <3>7. (\/ owner = first[k]
           \/ \E i \in 1 .. Len(lockq) :
                 lockq[i] = first[k] /\ \A j \in 1 .. i - 1 : ~Asks(lockq[j], k))'
      <4>1. CASE owner' = t
        BY <3>1, <4>1
      <4>2. CASE /\ lockq' \in Seq(Task) /\ Len(lockq') = Len(lockq) + 1
                 /\ lockq'[Len(lockq) + 1] = t
                 /\ \A i \in 1 .. Len(lockq) : lockq'[i] = lockq[i]
        <5>1. Len(lockq) + 1 \in 1 .. Len(lockq')
          BY <1>0, <4>2
        <5>2. \A j \in 1 .. (Len(lockq) + 1) - 1 : j \in 1 .. Len(lockq)
          BY <1>0
        <5>3. \A j \in 1 .. (Len(lockq) + 1) - 1 : lockq'[j] # t
          BY <3>3, <4>2, <5>2
        <5> QED  BY <3>1, <3>2, <4>2, <5>1, <5>3 DEF Asks
      <4> QED  BY <1>3, <4>1, <4>2, Requested DEF AcquireCall
    <3> QED  BY <3>4, <3>5, <3>6, <3>7 DEF AheadFor
  <2> QED  BY <2>1, <2>2 DEF Ahead
<1>4. ASSUME NEW t \in Task, NEW c \in Key, ReleaseCall(t, c)  PROVE Ahead'
  <2> SUFFICES ASSUME NEW k \in Key, first'[k] # None  PROVE AheadFor(k)'
    BY DEF Ahead
  <2>1. first'[k] = first[k] /\ k \notin locked_keys'
    BY <1>1, <1>4 DEF ReleaseCall, AheadFor
  <2>2. \A u \in Task \ {t} : Asks(u, k)' <=> Asks(u, k)
    BY <1>4 DEF ReleaseCall, Asks, LockTypes, LockTypeOK
  <2> QED  BY <1>2, <1>4, <2>1, <2>2 DEF ReleaseCall
\* Nobody is first while the condition's lock is free.
<1>5. ASSUME NEW t \in Task, NEW c \in Key, AcquireNowait(t, c)  PROVE Ahead'
  <2>1. \A k \in Key : first'[k] = None
    BY <1>1, <1>5 DEF AcquireNowait, LockTypes, LockTypeOK
  <2> QED  BY <2>1 DEF Ahead
<1>6. ASSUME NEW t \in Task, AcquireWait(t)  PROVE Ahead'
  <2> SUFFICES ASSUME NEW k \in Key, first'[k] # None  PROVE AheadFor(k)'
    BY DEF Ahead
  <2>1. first'[k] = first[k] /\ AheadFor(k) /\ k \notin locked_keys'
    BY <1>1, <1>6 DEF AcquireWait, AheadFor
  <2>2. ~Asks(owner, k) /\ owner = t
    BY <1>6, <2>1 DEF AcquireWait, AheadFor, Asks
  <2>3. \A u \in Task : Asks(u, k)' <=> Asks(u, k)
    BY <1>6 DEF AcquireWait, Asks
  <2>4. /\ waitq' \in Seq(Task) /\ Len(waitq') = Len(waitq) + 1
        /\ waitq'[Len(waitq) + 1] = t
        /\ \A i \in 1 .. Len(waitq) : waitq'[i] = waitq[i]
    BY <1>0, <1>6, Appended DEF AcquireWait
  <2>5. \A i \in 1 .. Len(waitq') : i \in 1 .. Len(waitq) \/ i = Len(waitq) + 1
    BY <1>0, <2>4
  <2>6. \A i \in 1 .. Len(waitq') : ~Asks(waitq'[i], k) /\ waitq'[i] \in Task
    BY <1>0, <2>1, <2>2, <2>4, <2>5 DEF AheadFor
  <2>7. HandOver(lockq) /\ Len(lockq) >= Len(lockq)
    BY <1>0, <1>6 DEF AcquireWait
  <2> QED  BY <1>0, <2>1, <2>2, <2>3, <2>6, <2>7, StaysAhead
<1>7. ASSUME NEW t \in Task, AcquireReturn(t)  PROVE Ahead'
  <2> SUFFICES ASSUME NEW k \in Key, first'[k] # None  PROVE AheadFor(k)'
    BY DEF Ahead
  <2>1. k # key[t] /\ first'[k] = first[k]
    BY <1>7 DEF AcquireReturn, LockTypes, LockTypeOK
  <2>2. AheadFor(k) /\ k \notin locked_keys'
    BY <1>1, <1>7, <2>1 DEF AcquireReturn, AheadFor
  <2>3. ~Asks(owner, k)
    BY <1>7, <2>1 DEF AcquireReturn, Asks
  <2>4. \A u \in Task : Asks(u, k)' <=> Asks(u, k)
    BY <1>0, <1>7, <2>1 DEF AcquireReturn, Asks, LockTypes, LockTypeOK
  <2>5. \A i \in 1 .. Len(waitq') : ~Asks(waitq'[i], k) /\ waitq'[i] \in Task
    BY <1>0, <1>7, <2>2 DEF AcquireReturn, AheadFor
  <2>6. HandOver(lockq) /\ Len(lockq) >= Len(lockq)
    BY <1>0, <1>7 DEF AcquireReturn
  <2> QED  BY <1>0, <2>1, <2>2, <2>3, <2>4, <2>5, <2>6, StaysAhead
<1>8. ASSUME NEW t \in Task, ReleaseReturn(t)  PROVE Ahead'
  <2> SUFFICES ASSUME NEW k \in Key, first'[k] # None  PROVE AheadFor(k)'
    BY DEF Ahead
  <2>1. first'[k] = first[k] /\ AheadFor(k) /\ k \notin locked_keys'
    BY <1>1, <1>8 DEF ReleaseReturn, AheadFor
  <2>2. ~Asks(owner, k)
    BY <1>8 DEF ReleaseReturn, Asks
  <2>3. \A u \in Task : Asks(u, k)' <=> Asks(u, k)
    BY <1>8 DEF ReleaseReturn, Asks, LockTypes, LockTypeOK
  <2>4. \A i \in 1 .. Len(waitq') : ~Asks(waitq'[i], k) /\ waitq'[i] \in Task
    BY <1>8 DEF ReleaseReturn
  <2>5. PICK q \in Seq(Task) : q = lockq \o waitq
    BY <1>0, Joined
  <2>6. HandOver(q)
    BY <1>8, <2>5 DEF ReleaseReturn
  <2>7. Len(q) >= Len(lockq) /\ \A j \in 1 .. Len(lockq) : q[j] = lockq[j]
    BY <1>0, <2>5, Joined
  <2> QED  BY <1>0, <2>1, <2>2, <2>3, <2>4, <2>6, <2>7, StaysAhead
<1>9. CASE UNCHANGED lockvars
  BY <1>9 DEF lockvars, Ahead, AheadFor, Asks
<1> QED  BY <1>3, <1>4, <1>5, <1>6, <1>7, <1>8, <1>9 DEF LockNext, Resume

-----------------------------------------------------------------------------
(* The theorems.                                                           *)

LockInv == LockTypes /\ Places /\ Releases /\ Ahead

LEMMA LockInvariant == LockSpec => []LockInv
<1>1. LockInit => LockInv
  BY InitTypes, InitPlaces, InitReleases, InitAhead DEF LockInv
<1>2. LockInv /\ [LockNext]_lockvars => LockInv'
  BY NextTypes, NextPlaces, NextReleases, NextAhead DEF LockInv
<1> QED  BY <1>1, <1>2, PTL DEF LockSpec

(***************************************************************************)
(* A task that asks for a free key nobody else asks for is the next one to *)
(* get it, whatever the others do until its request is served              *)
(* (multi_lock.py:47-92, for any number of tasks and keys).                *)
(***************************************************************************)
THEOREM FirstComesFirst == LockSpec => FirstRequestFirst
<1> DEFINE Served == \A k \in Key : first[k] # None /\ k \in locked_keys' \ locked_keys =>
                        call[first[k]] = "acquire" /\ call'[first[k]] = "none"
<1>1. ASSUME LockInv, [LockNext]_lockvars  PROVE [Served]_lockvars
  <2> SUFFICES ASSUME NEW k \in Key, first[k] # None, k \in locked_keys' \ locked_keys
               PROVE  call[first[k]] = "acquire" /\ call'[first[k]] = "none"
    BY DEF lockvars
  <2>0. LockTypes /\ Places /\ AheadFor(k)
    BY <1>1 DEF LockInv, Ahead
  <2>1. PICK t \in Task : \/ AcquireReturn(t)
                          \/ \E c \in Key : AcquireNowait(t, c)
    BY <1>1 DEF LockNext, Resume, AcquireCall, ReleaseCall, AcquireWait, ReleaseReturn, lockvars
  <2>2. owner # None
    BY <2>0 DEF AheadFor, Places
  <2>3. AcquireReturn(t)
    BY <2>1, <2>2 DEF AcquireNowait
  <2>4. owner = t /\ call[t] = "acquire" /\ key[t] = k /\ call'[t] = "none"
    BY <2>0, <2>3 DEF AcquireReturn, LockTypes, LockTypeOK
  <2>5. first[k] = t
    BY <2>0, <2>4 DEF AheadFor, Asks
  <2> QED  BY <2>4, <2>5
<1> QED  BY <1>1, LockInvariant, PTL DEF LockSpec, FirstRequestFirst

\* A task's wish, as module KeyLock sees it.
Want == [t \in Task |-> IF call[t] = "acquire" THEN key[t] ELSE None]

LEMMA LockSimulated ==
  ASSUME LockInv, [LockNext]_lockvars
  PROVE  [Abstract!Next]_<<locked_keys, Want>>
<1>0. LockTypes /\ LockTypeOK /\ Releases /\ None \notin Key
  BY MultiLockAssumption DEF LockInv, LockTypes
<1> USE DEF LockTypeOK
<1>1. ASSUME NEW t \in Task, NEW k \in Key, AcquireCall(t, k)  PROVE Abstract!Ask(t, k)
  <2>1. Want[t] = None /\ Want' = [Want EXCEPT ![t] = k]
    BY <1>0, <1>1 DEF AcquireCall, Want
  <2> QED  BY <1>1, <2>1 DEF AcquireCall, Abstract!Ask, Want
<1>2. ASSUME NEW t \in Task, NEW k \in Key, AcquireNowait(t, k)  PROVE Abstract!Take(t, k)
  <2>1. Want[t] = None /\ Want' = Want
    BY <1>0, <1>2 DEF AcquireNowait, Want
  <2> QED  BY <1>2, <2>1 DEF AcquireNowait, Abstract!Take, Want
<1>3. ASSUME NEW t \in Task, NEW k \in Key, ReleaseCall(t, k)
      PROVE  Want' = Want /\ locked_keys' = locked_keys
  BY <1>0, <1>3 DEF ReleaseCall, Want
<1>4. ASSUME NEW t \in Task, AcquireWait(t)  PROVE Want' = Want /\ locked_keys' = locked_keys
  BY <1>4 DEF AcquireWait, Want
<1>5. ASSUME NEW t \in Task, AcquireReturn(t)  PROVE Abstract!Grant(t)
  <2>1. key[t] \in Key \ locked_keys /\ Want[t] = key[t]
    BY <1>0, <1>5 DEF AcquireReturn, LockTypes, Want
  <2>2. Want' = [Want EXCEPT ![t] = None]
    BY <1>0, <1>5 DEF AcquireReturn, Want
  <2> QED  BY <1>5, <2>1, <2>2 DEF AcquireReturn, Abstract!Grant, Want
<1>6. ASSUME NEW t \in Task, ReleaseReturn(t)
      PROVE  key[t] \in Key /\ Abstract!GiveBack(key[t])
  <2>1. key[t] \in locked_keys /\ key[t] \in Key
    BY <1>0, <1>6 DEF ReleaseReturn, Releases
  <2>2. Want' = Want
    BY <1>0, <1>6 DEF ReleaseReturn, Want
  <2> QED  BY <1>6, <2>1, <2>2 DEF ReleaseReturn, Abstract!GiveBack, Want
<1>7. CASE UNCHANGED lockvars
  BY <1>7 DEF lockvars, Want
<1> QED  BY <1>1, <1>2, <1>3, <1>4, <1>5, <1>6, <1>7 DEF LockNext, Resume, Abstract!Next

(***************************************************************************)
(* Although all keys share one set and one condition, the tasks see a      *)
(* plain lock per key: a key is granted only while it is free, to somebody *)
(* who asked for it, and stays locked until it is released                 *)
(* (multi_lock.py:47-92).                                                  *)
(***************************************************************************)
THEOREM LockPerKey == LockSpec => ImplementsKeyLock
<1>1. LockInit => Abstract!Init
  BY DEF LockInit, Abstract!Init
<1>2. LockInv /\ [LockNext]_lockvars => [Abstract!Next]_<<locked_keys, Want>>
  BY LockSimulated
<1> QED  BY <1>1, <1>2, LockInvariant, PTL DEF LockSpec, ImplementsKeyLock, Abstract!Spec, Want
=============================================================================
