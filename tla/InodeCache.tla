---------------------------- MODULE InodeCache ----------------------------
(***************************************************************************)
(* The write-back cache of the inodes table (inode_cache.py).  A ring of   *)
(* CacheSize slots names the cached ids in the order they were retrieved;  *)
(* a new row takes the place of the oldest one, which is written back if   *)
(* it has been changed.  All calls are made from the event loop and do not *)
(* suspend, so each is one step.                                           *)
(*                                                                         *)
(* The attributes of an inode are one value.  A caller changes the object  *)
(* the cache has given it while that object is still cached, the condition *)
(* the class documents for its callers.                                    *)
(***************************************************************************)
EXTENDS Naturals

CONSTANTS Id, Value, NoRow, CacheSize, Nothing

ASSUME InodeCacheAssumption ==
    /\ CacheSize \in Nat \ {0}
    /\ NoRow \notin Value
    /\ Nothing \notin Id \cup [val : Value, dirty : BOOLEAN]

VARIABLES
    inodes,      \* the database table: id -> attributes, or NoRow
    used,        \* ids that have been given out (AUTOINCREMENT)
    attrs,       \* id -> cached attributes, or Nothing
    cached_rows, \* the ring of cached ids
    pos          \* the slot that is used next

vars == <<inodes, used, attrs, cached_rows, pos>>

Slot == 0 .. CacheSize - 1
Cached == {i \in Id : attrs[i] # Nothing}

TypeOK ==
    /\ inodes \in [Id -> Value \cup {NoRow}]
    /\ used \subseteq Id
    /\ attrs \in [Id -> [val : Value, dirty : BOOLEAN] \cup {Nothing}]
    /\ cached_rows \in [Slot -> Id \cup {Nothing}]
    /\ pos \in Slot

Init ==
    /\ inodes = [i \in Id |-> NoRow]
    /\ used = {}
    /\ attrs = [i \in Id |-> Nothing]
    /\ cached_rows = [s \in Slot |-> Nothing]
    /\ pos = 0

(* Mutant: what is in the cache is taken for unchanged. *)
WrittenNever(db, set) == db

(* setattr: the rows after the dirty inodes of a set were written. *)
Written(db, set) ==
    [i \in Id |-> IF i \in set /\ attrs[i] # Nothing
                  THEN IF attrs[i].dirty THEN attrs[i].val ELSE db[i]
                  ELSE db[i]]

Advance(s) == (s + 1) % CacheSize

Oldest == cached_rows[pos]

(* __getitem__ of an inode that is not cached: read it and expire another. *)
Install(i, db) ==
    /\ cached_rows' = [cached_rows EXCEPT ![pos] = i]
    /\ pos' = Advance(pos)
    /\ attrs' = [j \in Id |->
           IF j = i THEN [val |-> db[i], dirty |-> FALSE]
           ELSE IF j = Oldest THEN Nothing ELSE attrs[j]]
    /\ inodes' = Written(db, {Oldest})

__getitem__(i) ==
    /\ inodes[i] # NoRow /\ attrs[i] = Nothing
    /\ Install(i, inodes)
    /\ UNCHANGED used

(* A caller assigns to an attribute of an object that is in the cache. *)
__setattr__(i, v) ==
    /\ attrs[i] # Nothing
    /\ attrs' = [attrs EXCEPT ![i] = [val |-> v, dirty |-> TRUE]]
    /\ UNCHANGED <<inodes, used, cached_rows, pos>>

create_inode(i, v) ==
    /\ i \notin used
    /\ used' = used \cup {i}
    /\ Install(i, [inodes EXCEPT ![i] = v])

(* Mutant: the attributes stay in the cache. *)
KeptAttrs(i) == attrs

WithoutAttrs(i) == [attrs EXCEPT ![i] = Nothing]

(* The id stays in the ring. *)
__delitem__(i) ==
    /\ inodes[i] # NoRow
    /\ inodes' = [inodes EXCEPT ![i] = NoRow]
    /\ attrs' = WithoutAttrs(i)
    /\ UNCHANGED <<used, cached_rows, pos>>

Cleaned(set) ==
    [i \in Id |-> IF i \in set /\ attrs[i] # Nothing
                  THEN [attrs[i] EXCEPT !.dirty = FALSE] ELSE attrs[i]]

Ring == {cached_rows[s] : s \in Slot}

flush_id(i) ==
    /\ inodes' = Written(inodes, {i})
    /\ attrs' = Cleaned({i})
    /\ UNCHANGED <<used, cached_rows, pos>>

flush ==
    /\ inodes' = Written(inodes, Ring)
    /\ attrs' = Cleaned(Ring)
    /\ UNCHANGED <<used, cached_rows, pos>>

(* destroy, and drop; pos stays where it is. *)
destroy ==
    /\ inodes' = Written(inodes, Ring)
    /\ attrs' = [i \in Id |-> IF i \in Ring THEN Nothing ELSE attrs[i]]
    /\ cached_rows' = [s \in Slot |-> Nothing]
    /\ UNCHANGED <<used, pos>>

Next ==
    \/ flush \/ destroy
    \/ \E i \in Id : \/ __getitem__(i) \/ __delitem__(i) \/ flush_id(i)
                     \/ \E v \in Value : __setattr__(i, v) \/ create_inode(i, v)

Spec == Init /\ [][Next]_vars

-----------------------------------------------------------------------------
(* Every cached inode is in the ring, so flush and destroy reach it: the   *)
(* assertion of destroy that nothing is left in attrs.                     *)
RingCovers == Cached \subseteq Ring

(* An inode that is cached has a row, and the row is up to date unless the *)
(* inode is dirty.  Deleting, expiring and creating inodes keep it so.     *)
CleanIsCurrent ==
    \A i \in Id : attrs[i] # Nothing =>
        /\ i \in used
        /\ inodes[i] # NoRow
        /\ ~attrs[i].dirty => attrs[i].val = inodes[i]

(* Rows exist for ids that were given out only. *)
RowsUsed == \A i \in Id : inodes[i] # NoRow => i \in used

(* What a caller sees of an inode: its cached attributes, or its row. *)
View == [i \in Id |-> IF attrs[i] # Nothing THEN attrs[i].val ELSE inodes[i]]

Table == INSTANCE InodeTable WITH rows <- View

(* The cache is a table of inodes: expiry, flush and drop change nothing   *)
(* of what callers see, so no update is lost and no deleted inode returns. *)
ImplementsTable == Table!Spec
=============================================================================
