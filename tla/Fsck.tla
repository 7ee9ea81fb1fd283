-------------------------------- MODULE Fsck --------------------------------
(***************************************************************************)
(* The consistency checker (class Fsck of fsck.py).  A run executes the    *)
(* checks one after the other on the local database, the cache directory   *)
(* and the backend; it may be killed between two checks and be started     *)
(* again, and a completed run is followed by a second one.                 *)
(*                                                                         *)
(* All tables are in the record db.  A loop over a query visits the rows   *)
(* in rowid order and looks at the tables as they are by then, as an       *)
(* SQLite cursor does.  Names are naturals; the names fsck makes up for    *)
(* lost+found are Lost(..) and, if taken, one of Suffixed.                 *)
(***************************************************************************)
EXTENDS Integers, FiniteSets, FiniteSetsExt, Sequences, SequencesExt, TLC

CONSTANTS
    Undamaged,    \* the tables of an intact file system
    Damaged(_, _),\* the tables after one kind of damage
    Settings,     \* the settings: [damage, MaxKills]
    Null          \* SQL NULL

VARIABLES
    config,  \* the setting, which does not change
    db,      \* tables, backend objects, cache files, and what the run has found
    pc,      \* the check that runs next, "upload", or how the run ended
    cache,   \* [todo, file, obj]: the loop of check_cache
    runs,    \* completed runs, and runs that were killed
    readable \* the content of every block before the first run

(* The setting. *)
Damage == config.damage      \* the kinds of damage that occur together
MaxKills == config.MaxKills  \* bound: how often a run is killed

vars == <<config, db, pc, cache, runs, readable>>

Root == 1
Ctrl == 2
LofName == 1
Lost(i) == 20 + i
Suffixed == 90 .. 99

(* The id of an inserted row: names reuse ids, the others do not. *)
NextNameId(d) == IF DOMAIN d.names = {} THEN 1 ELSE Max(DOMAIN d.names) + 1
Without(f, ids) == [i \in DOMAIN f \ ids |-> f[i]]
Error(d) == [d EXCEPT !.found_errors = TRUE]
Crash(d) == [d EXCEPT !.crashed = TRUE]
Sorted(set) == IF set = {} THEN <<>>
               ELSE SelectSeq([k \in 1 .. Max(set) |-> k], LAMBDA k : k \in set)

(* For every id of a table whose row satisfies Wrong when it is visited.   *)
(* An exception ends the loop.                                             *)
ForRows(d, table, Wrong(_, _), Fix(_, _)) ==
    FoldLeft(LAMBDA e, i : IF ~e.crashed /\ Wrong(e, i) THEN Fix(Error(e), i) ELSE e,
             d, Sorted(DOMAIN table))

-----------------------------------------------------------------------------
(* Names, entries and paths.                                               *)

_add_name(d, name) ==
    IF \E n \in DOMAIN d.names : d.names[n].name = name
    THEN [d EXCEPT !.names = [n \in DOMAIN @ |->
            IF @[n].name = name THEN [@[n] EXCEPT !.refcount = @ + 1] ELSE @[n]]]
    ELSE [d EXCEPT !.names = (NextNameId(d) :> [name |-> name, refcount |-> 1]) @@ @]

NameId(d, name) == CHOOSE n \in DOMAIN d.names : d.names[n].name = name

_del_name(d, n) ==
    IF n \notin DOMAIN d.names THEN d
    ELSE IF d.names[n].refcount = 1 THEN [d EXCEPT !.names = Without(@, {n})]
    ELSE [d EXCEPT !.names[n].refcount = @ - 1]

(* The view contents_v: the rows whose name exists. *)
contents_v(d) == {r \in DOMAIN d.contents : d.contents[r].name \in DOMAIN d.names}

Entries(d, p, name) ==
    {r \in contents_v(d) : d.contents[r].parent = p /\ d.names[d.contents[r].name].name = name}

lof(d) == LET r == Min(Entries(d, Root, LofName)) IN d.contents[r].inode

(* The name that is used for an entry in /lost+found. *)
resolve_free(d, name) ==
    CHOOSE n \in {name} \cup Suffixed :
        /\ Entries(d, lof(d), n) = {}
        /\ n = name \/ Entries(d, lof(d), name) # {}

(* get_path: following the first entry of an inode, then that of its       *)
(* parent, ends at the root, at an inode that has no entry, or never.      *)
get_path(d, inode) ==
    LET rows(i) == {r \in contents_v(d) : d.contents[r].inode = i}
        up[k \in 0 .. Cardinality(DOMAIN d.contents) + 1] ==
            IF k = 0 THEN inode
            ELSE LET i == up[k - 1]
                 IN IF i \in {Root, 0} THEN i
                    ELSE IF rows(i) = {} THEN 0
                    ELSE d.contents[Min(rows(i))].parent
        end == up[Cardinality(DOMAIN d.contents) + 1]
    IN CASE end = Root -> "path" [] end = 0 -> "NoSuchRowError" [] OTHER -> "RuntimeError"

(* An error message that names the path of an inode. *)
LogPath(d, inode) == IF get_path(d, inode) = "path" THEN d ELSE Crash(d)

(* Entry r gets a free name in /lost+found. *)
MoveToLof(d, r, name) ==
    LET new == resolve_free(d, name)
        e == _add_name(d, new)
    IN [e EXCEPT !.contents[r] = [@ EXCEPT !.name = NameId(e, new), !.parent = lof(d)]]

-----------------------------------------------------------------------------
(* The checks, in the order of check().                                    *)

NewDirectory == [mode |-> "dir", refcount |-> 1, size |-> 0]

create_inode(d) == [d EXCEPT !.inodes = (d.next.inode :> NewDirectory) @@ @,
                             !.next.inode = @ + 1]

InsertEntry(d, name, i, p) ==
    LET e == _add_name(d, name)
    IN [e EXCEPT !.contents = (d.next.row :> [name |-> NameId(e, name), inode |-> i,
                                              parent |-> p]) @@ @,
                 !.next.row = @ + 1]

check_lof(d) ==
    LET inside == {r \in contents_v(d) : /\ d.names[d.contents[r].name].name = LofName
                                         /\ d.contents[r].parent = d.contents[r].inode}
        moved == LET i == d.contents[Min(inside)].inode
                 IN [d EXCEPT !.contents = [r \in DOMAIN @ |->
                        IF @[r].inode = i THEN [@[r] EXCEPT !.parent = Root] ELSE @[r]]]
        created == InsertEntry(create_inode(d), LofName, d.next.inode, Root)
        e == IF Entries(d, Root, LofName) # {} THEN d
             ELSE Error(IF inside # {} THEN moved ELSE created)
    IN IF lof(e) \notin DOMAIN e.inodes THEN Crash(e)
       ELSE IF e.inodes[lof(e)].mode = "dir" THEN e
       ELSE [Error(create_inode(e)) EXCEPT
                !.contents[Min(Entries(e, Root, LofName))].inode = e.next.inode]

NameUses(d, n) == Cardinality({r \in DOMAIN d.contents : d.contents[r].name = n})
                  + Cardinality({x \in DOMAIN d.xattrs : d.xattrs[x].name = n})

(* Every name is in the table of counts, so none is deleted here. *)
check_names_refcount(d) ==
    ForRows(d, d.names,
            LAMBDA e, n : e.names[n].refcount # NameUses(d, n),
            LAMBDA e, n : [e EXCEPT !.names[n].refcount = NameUses(d, n)])

check_contents_name(d) ==
    ForRows(d, d.contents,
            LAMBDA e, r : r \notin contents_v(e),
            LAMBDA e, r : IF get_path(e, e.contents[r].parent) = "RuntimeError" THEN Crash(e)
                          ELSE MoveToLof(e, r, Lost(e.contents[r].inode)))

(* The message for an inode that has no path is passed to to_str, which    *)
(* takes bytes only.                                                       *)
check_contents_inode(d) ==
    LET gone == {r \in DOMAIN d.contents : d.contents[r].inode \notin DOMAIN d.inodes}
        e == ForRows(d, d.contents, LAMBDA c, r : r \in gone,
                     LAMBDA c, r : _del_name(LogPath(c, c.contents[r].inode), c.contents[r].name))
    IN IF e.crashed THEN e ELSE [e EXCEPT !.contents = Without(@, gone)]

(* Mutant: entries of a directory that has vanished stay where they are. *)
ParentsKept(d) == d

check_contents_parent_inode(d) ==
    ForRows(d, d.contents,
            LAMBDA e, r : e.contents[r].parent \notin DOMAIN e.inodes,
            LAMBDA e, r : LET n == e.contents[r].name
                              new == resolve_free(e, Lost(10 + e.names[n].name))
                              f == _add_name(_del_name(e, n), new)
                          IN [f EXCEPT !.contents[r] = [@ EXCEPT !.name = NameId(f, new),
                                                                !.parent = lof(e)]])

check_objects_hash(d) ==
    LET unfinished == {o \in DOMAIN d.objects : d.objects[o].hash = Null}
    IN IF unfinished = {} THEN d
       ELSE [Error(d) EXCEPT !.objects = Without(@, unfinished)]

BlockRefs(d, o) == Cardinality({b \in DOMAIN d.blocks : d.blocks[b] = o})

(* Mutant: a wrong count is corrected, but unused objects keep their row. *)
KeepUnused(d) ==
    ForRows(d, d.objects,
            LAMBDA e, o : BlockRefs(e, o) # e.objects[o].refcount,
            LAMBDA e, o : [e EXCEPT !.objects[o].refcount = BlockRefs(e, o)])

(* A row without references goes, silently if this run dropped the last    *)
(* one; afterwards no row has the count 0.                                 *)
check_objects_refcount(d) ==
    FoldLeft(LAMBDA e, o :
                LET cnt == BlockRefs(d, o)
                    old == d.objects[o].refcount
                IN IF cnt = old /\ cnt > 0 THEN e
                   ELSE IF cnt > 0 THEN [Error(e) EXCEPT !.objects[o].refcount = cnt]
                   ELSE [e EXCEPT !.objects = Without(@, {o}),
                                  !.found_errors = @ \/ ~(o \in d.unlinked /\ old = 0)],
             d, Sorted(DOMAIN d.objects))

check_objects_id(d) ==
    LET spurious == d.backend \ DOMAIN d.objects
        missing == DOMAIN d.objects \ d.backend
    IN [d EXCEPT !.backend = @ \ spurious,
                 !.objects = Without(@, missing),
                 !.found_errors = @ \/ ~(spurious \subseteq d.unlinked) \/ missing # {}]

check_objects_phys_size(d) ==
    ForRows(d, d.objects, LAMBDA e, o : ~e.objects[o].uploaded,
            LAMBDA e, o : [e EXCEPT !.objects[o].uploaded = TRUE])

BlockSeq(d) == LET keys == Sorted({10 * b[1] + b[2] : b \in DOMAIN d.blocks})
               IN [k \in DOMAIN keys |-> <<keys[k] \div 10, keys[k] % 10>>]

(* The entries of the inode of a block that is lost go to /lost+found. *)
MoveEntries(d, inode) ==
    FoldLeft(LAMBDA e, r :
                LET n == e.contents[r].name
                IN IF e.crashed \/ get_path(e, e.contents[r].parent) # "path" THEN Crash(e)
                   ELSE _del_name(MoveToLof(e, r, e.names[n].name), n),
             d, Sorted({r \in contents_v(d) : d.contents[r].inode = inode}))

check_inode_blocks_obj_id(d) ==
    LET lost == SelectSeq(BlockSeq(d), LAMBDA b : d.blocks[b] \notin DOMAIN d.objects)
        e == FoldLeft(LAMBDA c, b : IF c.crashed THEN c ELSE MoveEntries(Error(c), b[1]), d, lost)
    IN IF e.crashed THEN e ELSE [e EXCEPT !.blocks = Without(@, ToSet(lost))]

(* The count may reach 0 after check_objects_refcount has been here. *)
check_inode_blocks_inode(d) ==
    LET gone == {b \in DOMAIN d.blocks : b[1] \notin DOMAIN d.inodes}
    IN IF gone = {} THEN d
       ELSE [Error(d) EXCEPT
                !.blocks = Without(@, gone),
                !.objects = [o \in DOMAIN @ |-> [@[o] EXCEPT !.refcount =
                    @ - Cardinality({b \in gone : d.blocks[b] = o})]],
                !.unlinked = @ \cup {d.blocks[b] : b \in gone}]

Links(d, i) == Cardinality({r \in DOMAIN d.contents : d.contents[r].inode = i})

(* Mutant: inodes without an entry are left as they are. *)
NoOrphans(d) == d

check_inodes_refcount(d) ==
    ForRows(d, d.inodes,
            LAMBDA e, i : /\ i \notin {Root, Ctrl}
                          /\ Links(d, i) = 0 \/ Links(d, i) # d.inodes[i].refcount,
            LAMBDA e, i :
                IF Links(d, i) > 0
                THEN [LogPath(e, i) EXCEPT !.inodes[i].refcount = Links(d, i)]
                ELSE [InsertEntry(e, resolve_free(e, Lost(i)), i, lof(e))
                         EXCEPT !.inodes[i].refcount = 1])

MinSize(d, i) == Max({0} \cup {b[2] + 1 : b \in {c \in DOMAIN d.blocks :
                                                 c[1] = i /\ d.blocks[c] \in DOMAIN d.objects}})

check_inodes_size(d) ==
    ForRows(d, d.inodes, LAMBDA e, i : e.inodes[i].size < MinSize(d, i),
            LAMBDA e, i : [LogPath(e, i) EXCEPT !.inodes[i].size = MinSize(d, i)])

(* The name made up for an attribute is released by its text instead of    *)
(* its id if the inode has an attribute of that name, so it stays counted. *)
check_ext_attributes_name(d) ==
    ForRows(d, d.xattrs,
            LAMBDA e, x : e.xattrs[x].name \notin DOMAIN e.names,
            LAMBDA e, x :
                LET i == e.xattrs[x].inode
                    taken(n) == \E y \in DOMAIN e.xattrs :
                        /\ e.xattrs[y].inode = i /\ e.xattrs[y].name \in DOMAIN e.names
                        /\ e.names[e.xattrs[y].name].name = Lost(20 + n)
                    k == Min({n \in x .. x + 3 : ~taken(n)})
                    f == FoldLeft(LAMBDA c, n : _add_name(c, Lost(20 + n)), e, Sorted(x .. k))
                    entries == {r \in contents_v(e) : e.contents[r].inode = i}
                IN IF \E r \in entries : get_path(e, e.contents[r].parent) # "path" THEN Crash(e)
                   ELSE [f EXCEPT !.xattrs[x].name = NameId(f, Lost(20 + k))])

check_ext_attributes_inode(d) ==
    LET gone == {x \in DOMAIN d.xattrs : d.xattrs[x].inode \notin DOMAIN d.inodes}
        e == FoldLeft(LAMBDA c, x : _del_name(Error(c), c.xattrs[x].name), d, Sorted(gone))
    IN [e EXCEPT !.xattrs = Without(@, gone)]

check_symlinks_inode(d) ==
    IF d.symlinks \subseteq DOMAIN d.inodes THEN d
    ELSE [Error(d) EXCEPT !.symlinks = @ \cap DOMAIN d.inodes]

(* loopcheck: the first entry of every inode that has entries below it. *)
loopcheck(d) ==
    [i \in {d.contents[r].parent : r \in DOMAIN d.contents} |->
        LET rows == {r \in DOMAIN d.contents : d.contents[r].inode = i}
        IN IF rows = {} THEN Null ELSE d.contents[Min(rows)].parent]

(* delete_tree: the inodes of loopcheck below a set of inodes. *)
BelowIn(parents, tops) ==
    LET below[k \in 0 .. Cardinality(DOMAIN parents)] ==
            IF k = 0 THEN tops
            ELSE below[k - 1] \cup {i \in DOMAIN parents : parents[i] \in below[k - 1]}
    IN below[Cardinality(DOMAIN parents)]

Anchored(d, inode, n, new) ==
    LET e == _add_name(d, new)
        f == [e EXCEPT !.contents = [r \in DOMAIN @ |->
                 IF @[r].inode = inode /\ @[r].name = n
                 THEN [@[r] EXCEPT !.name = NameId(e, new), !.parent = lof(d)] ELSE @[r]]]
    IN _del_name(f, n)

(* One round for every tree that is not connected to the root. *)
check_loops(d) ==
    LET round(c, k) ==
            LET left == DOMAIN c.parents \ BelowIn(c.parents, {Root} \cup c.anchored)
                selfish == {i \in left : \E r \in DOMAIN c.d.contents :
                    c.d.contents[r].inode = i /\ c.d.contents[r].parent = i}
                i == Min(IF selfish # {} THEN selfish ELSE left)
                rows == {r \in contents_v(c.d) : c.d.contents[r].inode = i}
                n == c.d.contents[Min(rows)].name
            IN IF left = {} \/ c.d.crashed THEN c
               ELSE IF rows = {} THEN [c EXCEPT !.d = Crash(@)]
               ELSE [d |-> Anchored(Error(c.d), i, n, resolve_free(c.d, c.d.names[n].name)),
                     parents |-> [c.parents EXCEPT ![i] = lof(c.d)],
                     anchored |-> c.anchored \cup {i}]
        start == [d |-> d, parents |-> loopcheck(d), anchored |-> {}]
    IN FoldLeft(round, start, Sorted(DOMAIN start.parents)).d

(* Only a missing type is corrected, the rest is reported. *)
check_unix(d) ==
    ForRows(d, d.inodes,
            LAMBDA e, i :
                LET children == \E r \in DOMAIN e.contents : e.contents[r].parent = i
                    mode == e.inodes[i].mode
                IN \/ mode = "none"
                   \/ mode = "lnk" /\ i \notin e.symlinks
                   \/ mode # "lnk" /\ i \in e.symlinks
                   \/ mode # "dir" /\ children
                   \/ mode # "reg" /\ \E b \in DOMAIN e.blocks : b[1] = i,
            LAMBDA e, i :
                IF e.inodes[i].mode # "none" THEN LogPath(e, i)
                ELSE [LogPath(e, i) EXCEPT !.inodes[i].mode =
                         IF \E r \in DOMAIN e.contents : e.contents[r].parent = i
                         THEN "dir" ELSE "reg"])

(* References that are still dangling cannot be corrected. *)
Dangling(d) ==
    \/ contents_v(d) # DOMAIN d.contents
    \/ \E r \in DOMAIN d.contents :
          {d.contents[r].inode, d.contents[r].parent} \ DOMAIN d.inodes # {}
    \/ \E x \in DOMAIN d.xattrs : \/ d.xattrs[x].inode \notin DOMAIN d.inodes
                                  \/ d.xattrs[x].name \notin DOMAIN d.names
    \/ \E b \in DOMAIN d.blocks : \/ b[1] \notin DOMAIN d.inodes
                                  \/ d.blocks[b] \notin DOMAIN d.objects
    \/ ~(d.symlinks \subseteq DOMAIN d.inodes)

check_foreign_keys(d) ==
    IF Dangling(d) THEN [Error(d) EXCEPT !.uncorrectable = TRUE] ELSE d

-----------------------------------------------------------------------------
(* check_cache, which is the only check that may be killed half-way in a   *)
(* way that matters: it writes to the database, then to the backend.       *)

(* What a reader of a block would get: its cache file or its object. *)
Content(d) ==
    [f \in {b \in DOMAIN d.blocks \cup DOMAIN d.cache : b[1] \in DOMAIN d.inodes} |->
        IF f \in DOMAIN d.cache THEN d.cache[f]
        ELSE IF d.blocks[f] \in DOMAIN d.objects \cap d.backend THEN d.objects[d.blocks[f]].hash
        ELSE Null]

NewRun(d) == [d EXCEPT !.found_errors = FALSE, !.unlinked = {}]

Init ==
    /\ config \in Settings
    /\ db = NewRun(FoldLeft(Damaged, Undamaged, SetToSeq(Damage)))
    /\ pc = "lof"
    /\ cache = [todo |-> {}, file |-> Null, obj |-> Null]
    /\ runs = [completed |-> 0, killed |-> 0]
    /\ readable = Content(db)

ByHash(d, h) == {o \in DOMAIN d.objects : d.objects[o].hash = h}

(* The block of a cache file gets object o, and the file is removed. *)
LinkBlock(d, f, o) ==
    LET old == IF f \in DOMAIN d.blocks THEN {d.blocks[f]} ELSE {}
    IN [d EXCEPT !.blocks = (f :> o) @@ @,
                 !.objects = [p \in DOMAIN @ |->
                     IF p \in old THEN [@[p] EXCEPT !.refcount = @ - 1] ELSE @[p]],
                 !.unlinked = @ \cup old,
                 !.cache = Without(@, {f})]

(* Mutant: every block that has been stored counts as committed. *)
Stored(d, f) == f \in DOMAIN d.blocks

(* The block of a cache file has the same checksum in the database. *)
Committed(d, f) ==
    /\ f \in DOMAIN d.blocks
    /\ d.blocks[f] \in ByHash(d, d.cache[f])

check_cache_file(f) ==
    /\ pc = "cache" /\ f \in cache.todo
    /\ LET h == db.cache[f]
       IN \/ /\ Committed(db, f)
             /\ db' = [db EXCEPT !.cache = Without(@, {f})]
             /\ cache' = [cache EXCEPT !.todo = @ \ {f}]
             /\ UNCHANGED pc
          \/ /\ ~Committed(db, f) /\ ByHash(db, h) # {}
             /\ LET o == Min(ByHash(db, h))
                IN db' = LinkBlock([Error(db) EXCEPT !.objects[o].refcount = @ + 1], f, o)
             /\ cache' = [cache EXCEPT !.todo = @ \ {f}]
             /\ UNCHANGED pc
          \/ /\ ~Committed(db, f) /\ ByHash(db, h) = {}
             /\ db' = [Error(db) EXCEPT
                   !.objects = (db.next.obj :> [hash |-> h, refcount |-> 1,
                                                uploaded |-> FALSE]) @@ @,
                   !.next.obj = @ + 1]
             /\ cache' = [todo |-> cache.todo \ {f}, file |-> f, obj |-> db.next.obj]
             /\ pc' = "upload"
    /\ UNCHANGED <<runs, readable>>

check_cache_upload ==
    /\ pc = "upload"
    /\ db' = LinkBlock([db EXCEPT !.backend = @ \cup {cache.obj},
                                  !.objects[cache.obj].uploaded = TRUE],
                       cache.file, cache.obj)
    /\ pc' = "cache"
    /\ UNCHANGED <<cache, runs, readable>>

(* A check that is one step, and the one that follows it. *)
Check(this, Op(_), next) ==
    /\ pc = this
    /\ db' = Op(db)
    /\ pc' = IF db'.crashed THEN "crashed" ELSE next
    /\ UNCHANGED <<cache, runs, readable>>

check_cache_end == cache.todo = {} /\ Check("cache", LAMBDA d : [d EXCEPT !.cache_tmp = FALSE,
                                        !.found_errors = @ \/ d.cache_tmp], "names")

(* A file system that is clean is not searched for cache files. *)
lof_step ==
    /\ pc = "lof"
    /\ db' = check_lof(db)
    /\ pc' = IF db'.crashed THEN "crashed"
             ELSE IF runs.completed = 0 THEN "cache" ELSE "names"
    /\ cache' = [cache EXCEPT !.todo = DOMAIN db.cache]
    /\ UNCHANGED <<runs, readable>>

check_objects_temp(d) == [d EXCEPT !.obj_tmp = FALSE, !.found_errors = @ \/ d.obj_tmp]

(* main: errors that remain make it give up, otherwise the file system is  *)
(* clean; then it is checked once more.                                    *)
finish ==
    /\ pc = "end"
    /\ pc' = IF db.uncorrectable THEN "crashed"
             ELSE IF runs.completed = 0 THEN "lof" ELSE "done"
    /\ db' = IF pc' = "lof" THEN NewRun(db) ELSE db
    /\ runs' = [runs EXCEPT !.completed = @ + 1]
    /\ UNCHANGED <<cache, readable>>

(* The process dies, and fsck is started again. *)
kill ==
    /\ pc \notin {"crashed", "done"} /\ runs.completed = 0 /\ runs.killed < MaxKills
    /\ db' = NewRun(db)
    /\ pc' = "lof"
    /\ runs' = [runs EXCEPT !.killed = @ + 1]
    /\ UNCHANGED <<cache, readable>>

(* The checks after check_cache, in their order. *)
check ==
    \/ Check("names", check_names_refcount, "contents_name")
    \/ Check("contents_name", check_contents_name, "contents_inode")
    \/ Check("contents_inode", check_contents_inode, "contents_parent")
    \/ Check("contents_parent", check_contents_parent_inode, "temp")
    \/ Check("temp", check_objects_temp, "hash")
    \/ Check("hash", check_objects_hash, "obj_refcount")
    \/ Check("obj_refcount", check_objects_refcount, "obj_id")
    \/ Check("obj_id", check_objects_id, "phys_size")
    \/ Check("phys_size", check_objects_phys_size, "blocks_obj")
    \/ Check("blocks_obj", check_inode_blocks_obj_id, "blocks_inode")
    \/ Check("blocks_inode", check_inode_blocks_inode, "refcount")
    \/ Check("refcount", check_inodes_refcount, "size")
    \/ Check("size", check_inodes_size, "xattr_name")
    \/ Check("xattr_name", check_ext_attributes_name, "xattr_inode")
    \/ Check("xattr_inode", check_ext_attributes_inode, "symlinks")
    \/ Check("symlinks", check_symlinks_inode, "loops")
    \/ Check("loops", check_loops, "unix")
    \/ Check("unix", check_unix, "foreign_keys")
    \/ Check("foreign_keys", check_foreign_keys, "end")

Next ==
    \/ lof_step
    \/ \E f \in DOMAIN db.cache : check_cache_file(f)
    \/ check_cache_upload
    \/ check_cache_end
    \/ check
    \/ finish
    \/ kill

Spec == Init /\ [][Next /\ UNCHANGED config]_vars

-----------------------------------------------------------------------------
(* No check ends with an exception or leaves an error it cannot correct:   *)
(* the tables a check relies on have been repaired before.                 *)
NeverCrashes == pc # "crashed"

(* The file system is intact once a run has ended: counts are exact, every *)
(* entry is below the root, objects and their rows agree.                  *)
Intact(d) ==
    /\ ~Dangling(d)
    /\ \A n \in DOMAIN d.names : d.names[n].refcount = NameUses(d, n)
    /\ \A r, s \in DOMAIN d.contents :
          d.contents[r].name = d.contents[s].name /\ d.contents[r].parent = d.contents[s].parent
          => r = s
    /\ \A i \in DOMAIN d.inodes \ {Root, Ctrl} :
          /\ d.inodes[i].refcount = Links(d, i)
          /\ d.inodes[i].size >= MinSize(d, i)
          /\ get_path(d, i) = "path"
    /\ DOMAIN d.objects = d.backend
    /\ \A o \in DOMAIN d.objects : d.objects[o].refcount = BlockRefs(d, o) /\ BlockRefs(d, o) > 0

Repaired == pc \in {"end", "done"} => Intact(db)

(* A file system that has been repaired is clean: the next run reports     *)
(* nothing.                                                                *)
SecondRunClean == runs.completed > 0 => ~db.found_errors

(* What a block contained, in the cache or in the backend, it contains     *)
(* after every step of the repair.                                         *)
DataKept == \A f \in DOMAIN readable : readable[f] # Null =>
               f \in DOMAIN Content(db) /\ Content(db)[f] = readable[f]

(* Names that nothing refers to are removed (fsck.py:661).  This does not  *)
(* hold: their count is set to 0 and they stay (fsck.py:660).              *)
UnusedNamesRemoved == pc = "done" => \A n \in DOMAIN db.names : NameUses(db, n) > 0
=============================================================================
