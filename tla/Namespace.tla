----------------------------- MODULE Namespace -----------------------------
(***************************************************************************)
(* Names, directory entries, inodes and extended attributes of a mounted   *)
(* file system: the FUSE operations of fs.py that change them, the         *)
(* reference counts the database keeps of them, the lookup counts of       *)
(* open_inodes, and the tree commands that arrive over the control inode   *)
(* (lock_tree, remove_tree, copy_tree).                                    *)
(*                                                                         *)
(* All handlers are tasks of one trio event loop.  A task that has begun a *)
(* handler keeps `running' until it reaches a suspension point, so its     *)
(* steps up to there are not interleaved with anything.                    *)
(*                                                                         *)
(* Names are natural numbers, standing for the name and for its row id.    *)
(* File contents, times, modes other than "is a directory", and sizes are  *)
(* left out; cache.remove and cache.start_flush are suspension points.     *)
(***************************************************************************)
EXTENDS Integers, FiniteSets, FiniteSetsExt, Sequences, SequencesExt, TLC

CONSTANTS
    Task,      \* request handlers
    Root,
    NoTask,
    Settings   \* the settings

(* The tree at mount time is a tree of entries with different names.       *)
ASSUME NamespaceAssumption ==
    /\ NoTask \notin Task
    /\ \A s \in Settings :
          /\ s.Id \subseteq Nat /\ s.Name \subseteq Nat /\ Root \in s.Id
          /\ s.Tree \subseteq s.Id \X s.Name \X s.Id /\ IsFiniteSet(s.Tree)
          /\ s.Dirs \subseteq s.Id /\ Root \in s.Dirs
          /\ \A e, f \in s.Tree : e[1] = f[1] /\ e[2] = f[2] => e = f
          /\ \A e \in s.Tree :
                /\ e[3] # Root
                /\ e[1] # Root => \E f \in s.Tree : f[3] = e[1]
          /\ \E m \in {Root} \cup {e[3] : e \in s.Tree} :
                \A i \in {Root} \cup {e[3] : e \in s.Tree} : m >= i

TreeOps == {"lock", "rmtree", "copy"}
OpNames == {"lookup", "create", "link", "unlink", "rename", "setxattr",
            "removexattr", "write", "forget", "destroy", "fail"} \cup TreeOps

VARIABLES
    config,      \* the setting, which does not change
    db,          \* the tables names, contents, inodes, ext_attributes
    open_inodes, \* lookups the file system has counted for each inode
    kernel,      \* lookups the kernel has been given and not forgotten
    dead,        \* directories the kernel has removed: it sends no request
                 \* for an entry in one of them
    content,     \* the data of each inode, as a parity of writes
    sealed,      \* inodes below a directory for which lock_tree has returned
    task,        \* what each task is doing
    running,     \* the task that has not suspended yet
    state        \* "mounted", "failsafe", "unmounting" or "crashed"

(* The setting. *)
OpsOf == config.OpsOf  \* the operations each task executes
Name == config.Name    \* names, which are naturals
Id == config.Id        \* inode numbers, naturals too
Tree == config.Tree    \* the entries at mount time: <<parent, name, inode>>
Dirs == config.Dirs    \* the directories among them
Batch == config.Batch  \* entries processed between checkpoints (200)
MaxLookups == config.MaxLookups \* bound: lookups not yet forgotten
MaxXattr == config.MaxXattr     \* bound: references of one name

vars == <<config, db, open_inodes, kernel, dead, content, sealed, task, running,
          state>>
others == <<dead, content, sealed>>

-----------------------------------------------------------------------------
(* The database.                                                           *)

Entry(p, n, i) == [parent |-> p, name |-> n, inode |-> i]
Entries == {Entry(p, n, i) : p \in Id, n \in Name, i \in Id}

(* SELECT ... FROM contents WHERE parent_inode=? *)
Children(d, p) == {e \in d.contents : e.parent = p}

(* SELECT inode FROM contents_v WHERE name=? AND parent_inode=? *)
Lookups(d, p, n) ==
    {e \in d.contents : e.parent = p /\ e.name = n /\ d.names[n] > 0}

(* The inodes of a tree. *)
Below(d, p) ==
    LET depth == Cardinality(d.inodes)
        upto[k \in 0 .. depth] ==
            IF k = 0 THEN {p}
            ELSE upto[k - 1] \cup UNION {{e.inode : e \in Children(d, q)} : q \in upto[k - 1]}
    IN  upto[depth]

Uses(d, n) == Cardinality({e \in d.contents : e.name = n})
              + Cardinality({x \in d.xattrs : x[2] = n})
Links(d, i) == Cardinality({e \in d.contents : e.inode = i})

_add_name(d, n) == [d EXCEPT !.names[n] = @ + 1]

(* The row is deleted when its refcount is 1: a name without row counts 0. *)
_del_name(d, n) == [d EXCEPT !.names[n] = @ - 1]

AddEntry(d, p, n, i) ==
    [_add_name(d, n) EXCEPT !.contents = @ \cup {Entry(p, n, i)}]

(* The statements of _remove up to the removal of the inode itself. *)
RemoveEntry(d, p, n, i) ==
    [_del_name(d, n) EXCEPT
        !.contents = {e \in @ : ~(e.parent = p /\ e.name = n)},
        !.refcount[i] = @ - 1]

(* Mutant: the UPDATE of names lacks its WHERE clause. *)
DeleteInodeAllNames(d, i) ==
    [d EXCEPT !.names = [n \in Name |-> IF @[n] > 0 THEN @[n] - 1 ELSE 0],
              !.xattrs = {x \in @ : x[1] # i}, !.inodes = @ \ {i}]

(* The statements that follow cache.remove in _remove and forget. *)
DeleteInode(d, i) ==
    [d EXCEPT !.names = [n \in Name |->
                  IF <<i, n>> \in d.xattrs /\ @[n] > 0 THEN @[n] - 1 ELSE @[n]],
              !.xattrs = {x \in @ : x[1] # i},
              !.inodes = @ \ {i}]

(* Mutant: the refcount is left at zero. *)
CreateUncounted(d, dir, refs) ==
    [d EXCEPT !.inodes = @ \cup {d.next}, !.refcount[d.next] = 0,
              !.dirs = IF dir THEN @ \cup {d.next} ELSE @, !.next = @ + 1]

create_inode(d, dir, refs) ==
    [d EXCEPT !.inodes = @ \cup {d.next}, !.refcount[d.next] = refs,
              !.dirs = IF dir THEN @ \cup {d.next} ELSE @, !.next = @ + 1]

(* An entry that takes the place of another one. *)
_replace(d, p_old, n_old, p_new, n_new, id_old, id_new) ==
    LET replaced == [d EXCEPT
            !.contents = (@ \ {Entry(p_new, n_new, id_new)})
                             \cup {Entry(p_new, n_new, id_old)},
            !.refcount[id_new] = @ - 1]
    IN  [_del_name(replaced, n_old) EXCEPT
            !.contents = @ \ {Entry(p_old, n_old, id_old)}]

(* Mutant: the reference of the old name is kept. *)
RenameKeepingName(d, p_old, n_old, p_new, n_new, id_old) ==
    [_add_name(d, n_new) EXCEPT
        !.contents = (@ \ {Entry(p_old, n_old, id_old)})
                         \cup {Entry(p_new, n_new, id_old)}]

_rename(d, p_old, n_old, p_new, n_new, id_old) ==
    [_del_name(_add_name(d, n_new), n_old) EXCEPT
        !.contents = (@ \ {Entry(p_old, n_old, id_old)})
                         \cup {Entry(p_new, n_new, id_old)}]

-----------------------------------------------------------------------------
Idle == [pc |-> "idle"]
TreeEntries == {Entry(e[1], e[2], e[3]) : e \in Tree}

Init ==
    /\ config \in Settings
    /\ LET d == [contents |-> TreeEntries, xattrs |-> {}]
       IN  db = [names |-> [n \in Name |-> Uses(d, n)],
                 contents |-> TreeEntries,
                 inodes |-> {Root} \cup {e[3] : e \in Tree},
                 refcount |-> [i \in Id |-> IF i = Root THEN 1 ELSE Links(d, i)],
                 locked |-> {}, dirs |-> Dirs, xattrs |-> {},
                 next |-> 1 + Max({Root} \cup {e[3] : e \in Tree})]
    /\ open_inodes = [i \in Id |-> IF i = Root THEN 1 ELSE 0]
    /\ kernel = [i \in Id |-> 0]
    /\ dead = {}
    /\ content = [i \in Id |-> 0]
    /\ sealed = {}
    /\ task = [t \in Task |-> Idle]
    /\ running = NoTask
    /\ state = "mounted"

(* A request the kernel sends to a free handler.  In failsafe mode every    *)
(* handler that changes something answers EPERM.                           *)
Request(op, t) ==
    /\ running = NoTask /\ task[t] = Idle /\ op \in OpsOf[t]
    /\ \/ state = "mounted"
       \/ state = "failsafe" /\ op \in {"lookup", "forget", "destroy"}

(* The kernel names only inodes it has looked up. *)
Held(i) == kernel[i] > 0 \/ i = Root

(* An exception other than FUSEError ends the event loop. *)
Crash ==
    /\ state' = "crashed"
    /\ UNCHANGED <<db, open_inodes, kernel, others, task, running>>

(* Mutant: the locked attribute is ignored. *)
LockIgnored(p) == TRUE

Unlocked(p) == p \notin db.locked

(* The handler returned: it has told the kernel of inode i. *)
Reply(i) ==
    /\ kernel[i] < MaxLookups
    /\ kernel' = [kernel EXCEPT ![i] = @ + 1]
    /\ open_inodes' = [open_inodes EXCEPT ![i] = @ + 1]

(* lookup, and create of a file that exists. *)
_lookup(t, p, n) ==
    /\ Request("lookup", t) /\ Held(p)
    /\ \E e \in Lookups(db, p, n) :
         IF e.inode \in db.inodes
         THEN Reply(e.inode) /\ UNCHANGED <<db, others, task, running, state>>
         ELSE Crash

(* readdir_reply takes entries in name order until its buffer is full, and *)
(* the kernel counts a lookup for each of them.                            *)
readdir(t, p, last) ==
    LET sent(i) == Cardinality({e \in Children(db, p) :
                       e.name <= last /\ db.names[e.name] > 0 /\ e.inode = i})
    IN  /\ Request("lookup", t) /\ Held(p)
        /\ \A i \in Id : kernel[i] + sent(i) <= MaxLookups
        /\ IF \E i \in Id : sent(i) > 0 /\ i \notin db.inodes THEN Crash
           ELSE /\ kernel' = [i \in Id |-> kernel[i] + sent(i)]
                /\ open_inodes' = [i \in Id |-> open_inodes[i] + sent(i)]
                /\ UNCHANGED <<db, others, task, running, state>>

(***************************************************************************)
(* mknod, mkdir, symlink and create.  The kernel asks for a new entry only *)
(* when it found none; create looks again and opens what is there.         *)
(***************************************************************************)
_create(t, p, n, dir) ==
    /\ Request("create", t) /\ Held(p)
    /\ p \in db.dirs /\ Unlocked(p) /\ db.refcount[p] > 0
    /\ ~\E e \in db.contents : e.parent = p /\ e.name = n
    /\ db.next \in Id
    /\ db' = AddEntry(create_inode(db, dir, 1), p, n, db.next)
    /\ Reply(db.next)
    /\ UNCHANGED <<others, task, running, state>>

link(t, i, p, n) ==
    /\ Request("link", t) /\ Held(p) /\ Held(i)
    /\ p \in db.dirs /\ i \in db.inodes \ db.dirs
    /\ db.refcount[p] > 0 /\ Unlocked(p)
    /\ ~\E e \in db.contents : e.parent = p /\ e.name = n
    /\ db' = [AddEntry(db, p, n, i) EXCEPT !.refcount[i] = @ + 1]
    /\ Reply(i)
    /\ UNCHANGED <<others, task, running, state>>

(* INSERT OR REPLACE: the name is counted also when the row is replaced. *)
setxattr(t, i, n) ==
    /\ Request("setxattr", t) /\ Held(i) /\ db.names[n] < MaxXattr
    /\ Unlocked(i)
    /\ db' = [_add_name(db, n) EXCEPT !.xattrs = @ \cup {<<i, n>>}]
    /\ UNCHANGED <<open_inodes, kernel, others, task, running, state>>

(* The name loses a reference even if the inode has no such attribute. *)
removexattr(t, i, n) ==
    /\ Request("removexattr", t) /\ Held(i) /\ Unlocked(i)
    /\ db.names[n] > 0
    /\ db' = [_del_name(db, n) EXCEPT !.xattrs = @ \ {<<i, n>>}]
    /\ UNCHANGED <<open_inodes, kernel, others, task, running, state>>

(* setattr with a size and write check the lock, then await the cache. *)
write(t, i) ==
    /\ Request("write", t) /\ Held(i)
    /\ i \in db.inodes \ db.dirs /\ Unlocked(i)
    /\ task' = [task EXCEPT ![t] = [pc |-> "write", inode |-> i]]
    /\ UNCHANGED <<db, open_inodes, kernel, others, running, state>>

(* cache.get has returned; a damaged object puts the mount into failsafe. *)
write_end(t) ==
    /\ running = NoTask /\ task[t].pc = "write"
    /\ content' = [content EXCEPT ![task[t].inode] = 1 - @]
    /\ task' = [task EXCEPT ![t] = Idle]
    /\ UNCHANGED <<db, open_inodes, kernel, dead, sealed, running, state>>

-----------------------------------------------------------------------------
(* forget: the only place that drops lookups.                              *)

Forgetting(list) == [pc |-> "forget", list |-> list]

(* s3qlcp keeps its target open while copy_tree runs. *)
Pinned(i) == \E t \in Task : /\ task[t].pc \in {"copy", "flushed"}
                             /\ task[t].target = i

forget(t) ==
    \E i \in Id : \E n \in 1 .. kernel[i] :
        /\ Request("forget", t) /\ ~Pinned(i)
        /\ kernel' = [kernel EXCEPT ![i] = @ - n]
        /\ task' = [task EXCEPT ![t] = Forgetting(<< <<i, n>> >>)]
        /\ running' = t
        /\ UNCHANGED <<db, open_inodes, others, state>>

(* Mutant: an unlinked inode is removed while it is still looked up once. *)
AlmostForgotten(i, n) == open_inodes[i] \in {n, n + 1}

(* Mutant: nothing is removed when the last lookup goes. *)
NeverForgotten(i, n) == FALSE

Forgotten(i, n) == open_inodes[i] = n

(* One iteration of forget's loop, up to the await of cache.remove. *)
forget_one(t) ==
    LET tk == task[t]
        i  == Head(tk.list)[1]
        n  == Head(tk.list)[2]
        last == Forgotten(i, n)
    IN  /\ tk.pc = "forget" /\ tk.list # <<>> /\ running = t
        /\ IF last /\ i \notin db.inodes THEN Crash
           ELSE /\ open_inodes' = [open_inodes EXCEPT ![i] = @ - n]
                /\ IF last /\ db.refcount[i] = 0
                   THEN /\ task' = [task EXCEPT ![t].pc = "drop"]
                        /\ running' = NoTask
                   ELSE /\ task' = [task EXCEPT ![t].list = Tail(@)]
                        /\ UNCHANGED running
                /\ UNCHANGED <<db, kernel, others, state>>

(* cache.remove has returned: the inode goes (KeyError if it is gone). *)
forget_drop(t) ==
    LET i == Head(task[t].list)[1]
    IN  /\ task[t].pc = "drop" /\ running = NoTask
        /\ IF i \notin db.inodes THEN Crash
           ELSE /\ db' = DeleteInode(db, i)
                /\ task' = [task EXCEPT ![t] = Forgetting(Tail(@.list))]
                /\ running' = t
                /\ UNCHANGED <<open_inodes, kernel, others, state>>

forget_end(t) ==
    /\ task[t].pc = "forget" /\ task[t].list = <<>> /\ running = t
    /\ task' = [task EXCEPT ![t] = Idle]
    /\ running' = NoTask
    /\ UNCHANGED <<db, open_inodes, kernel, others, state>>

(* Unmounting forgets whatever is counted in open_inodes. *)
destroy(t) ==
    /\ Request("destroy", t) /\ \A u \in Task : task[u] = Idle
    /\ state' = "unmounting"
    /\ kernel' = [i \in Id |-> 0]
    /\ task' = [task EXCEPT ![t] = Forgetting(SetToSeq(
                   {<<i, open_inodes[i]>> : i \in {j \in Id : open_inodes[j] # 0}}))]
    /\ running' = t
    /\ UNCHANGED <<db, open_inodes, others>>

-----------------------------------------------------------------------------
(* unlink, rmdir and rename.                                               *)

(***************************************************************************)
(* unlink and rmdir look the entry up, which counts the inode as open, so  *)
(* _remove never removes the inode: the forget at the end does.  An entry  *)
(* in a locked directory (EPERM) or with children (ENOTEMPTY) stays, and   *)
(* the lookup is not undone.                                               *)
(***************************************************************************)
unlink(t, p, n) ==
    /\ Request("unlink", t) /\ Held(p)
    /\ \E e \in Lookups(db, p, n) :
         /\ open_inodes[e.inode] < MaxLookups + Cardinality(Task)
         /\ IF e.inode \notin db.inodes THEN Crash
            ELSE /\ open_inodes' = [open_inodes EXCEPT ![e.inode] = @ + 1]
                 /\ IF p \in db.locked \/ Children(db, e.inode) # {}
                    THEN UNCHANGED <<db, dead, task, running>>
                    ELSE /\ db' = RemoveEntry(db, p, n, e.inode)
                         /\ dead' = dead \cup ({e.inode} \cap db.dirs)
                         /\ task' = [task EXCEPT
                                ![t] = Forgetting(<< <<e.inode, 1>> >>)]
                         /\ running' = t
                 /\ UNCHANGED <<kernel, content, sealed, state>>

(***************************************************************************)
(* Files and directories move within a directory or to another one.  The   *)
(* kernel renames within one kind, never a directory into its own tree and *)
(* never an entry onto another link of the same inode.  Unlike _create and *)
(* link, rename does not look whether the new parent has been unlinked.    *)
(***************************************************************************)
rename(t, p, n, q, m) ==
    /\ Request("rename", t) /\ Held(p) /\ Held(q)
    /\ Unlocked(p) /\ Unlocked(q) /\ <<p, n>> # <<q, m>>
    /\ q \in (db.dirs \cap db.inodes) \ dead
    /\ \E e \in Lookups(db, p, n) :
        LET old == e.inode
            targets == Lookups(db, q, m)
        IN  /\ old \in db.inodes /\ old # q
            /\ old \in db.dirs => q \notin Below(db, old)
            /\ open_inodes[old] < MaxLookups + Cardinality(Task)
            /\ \/ /\ targets = {}
                  /\ db' = _rename(db, p, n, q, m, old)
                  /\ open_inodes' = [open_inodes EXCEPT ![old] = @ + 1]
                  /\ task' = [task EXCEPT ![t] = Forgetting(<< <<old, 1>> >>)]
                  /\ running' = t
                  /\ UNCHANGED dead
               \/ \E f \in targets :
                    /\ f.inode # old /\ f.inode \in db.inodes
                    /\ (f.inode \in db.dirs) = (old \in db.dirs)
                    /\ open_inodes[f.inode] < MaxLookups + Cardinality(Task)
                    /\ open_inodes' = [open_inodes EXCEPT ![old] = @ + 1,
                                                          ![f.inode] = @ + 1]
                    /\ IF Children(db, f.inode) # {}  \* EINVAL
                       THEN UNCHANGED <<db, dead, task, running>>
                       ELSE /\ db' = _replace(db, p, n, q, m, old, f.inode)
                            /\ task' = [task EXCEPT ![t] =
                                   Forgetting(<< <<old, 1>>, <<f.inode, 1>> >>)]
                            /\ dead' = dead \cup ({f.inode} \cap db.dirs)
                            /\ running' = t
            /\ UNCHANGED <<kernel, content, sealed, state>>

-----------------------------------------------------------------------------
(* lock_tree.                                                              *)

lock_tree(t, i) ==
    /\ Request("lock", t) /\ Held(i) /\ i \in db.dirs \cap db.inodes
    /\ db' = [db EXCEPT !.locked = @ \cup {i}]
    /\ task' = [task EXCEPT ![t] =
           [pc |-> "lock", root |-> i, queue |-> << <<i, -1>> >>]]
    /\ running' = t
    /\ UNCHANGED <<open_inodes, kernel, others, state>>

(* The entries one pass over a directory processes, in name order. *)
Pass(p, off) ==
    LET after == {e \in Children(db, p) : e.name > off}
    IN  SetToSortSeq({e \in after :
            Cardinality({f \in after : f.name < e.name}) < Batch},
            LAMBDA e, f : e.name < f.name)

(* Mutant: the rest of a directory is not processed after a break. *)
NoRest(p, pass) == <<>>

(* A directory is queued again when the batch has ended before it did. *)
Rest(p, pass) == IF Len(pass) = Batch THEN << <<p, Last(pass).name>> >> ELSE <<>>

(* One directory, or one batch of it; the checkpoint ends the step. *)
lock_tree_dir(t) ==
    LET tk == task[t]
        dir == Last(tk.queue)
        pass == Pass(dir[1], dir[2])
        subdirs == SelectSeq(pass, LAMBDA e : Children(db, e.inode) # {})
    IN  /\ tk.pc = "lock" /\ tk.queue # <<>> /\ running \in {NoTask, t}
        /\ db' = [db EXCEPT !.locked = @ \cup {pass[k].inode : k \in DOMAIN pass}]
        /\ task' = [task EXCEPT ![t].queue = Front(@)
                       \o [k \in DOMAIN subdirs |-> <<subdirs[k].inode, -1>>]
                       \o Rest(dir[1], pass)]
        /\ running' = NoTask
        /\ UNCHANGED <<open_inodes, kernel, others, state>>

lock_tree_end(t) ==
    /\ task[t].pc = "lock" /\ task[t].queue = <<>> /\ running = NoTask
    /\ sealed' = sealed \cup Below(db, task[t].root)
    /\ task' = [task EXCEPT ![t] = Idle]
    /\ UNCHANGED <<db, open_inodes, kernel, dead, content, running, state>>

-----------------------------------------------------------------------------
(* remove_tree.                                                            *)

remove_tree(t, p, n) ==
    /\ Request("rmtree", t) /\ Held(p) /\ Unlocked(p)
    /\ \E e \in Lookups(db, p, n) :
         /\ e.inode \in db.inodes
         /\ open_inodes' = [open_inodes EXCEPT ![e.inode] = @ + 1]
         /\ task' = [task EXCEPT ![t] =
               [pc |-> "rmtree", top |-> e, queue |-> <<e.inode>>,
                dir |-> Root, chunk |-> {}, again |-> FALSE]]
    /\ running' = t
    /\ UNCHANGED <<db, kernel, others, state>>

(* Take a directory from the queue and read its entries. *)
remove_tree_dir(t) ==
    LET tk == task[t]
        dir == Last(tk.queue)
        rows == {e \in Children(db, dir) : db.names[e.name] > 0}
    IN  /\ tk.pc = "rmtree" /\ tk.queue # <<>> /\ running \in {NoTask, t}
        /\ task' = [task EXCEPT ![t] =
               [tk EXCEPT !.pc = "chunk", !.queue = Front(@), !.dir = dir,
                          !.chunk = rows, !.again = rows # {}]]
        /\ running' = t
        /\ UNCHANGED <<db, open_inodes, kernel, others, state>>

(* Mutant: the entry is removed even if it has children by now. *)
NeverSubdir(e) == FALSE

IsSubdir(e) == Children(db, e.inode) # {}

(***************************************************************************)
(* One entry of the chunk, which may have been read before other tasks     *)
(* changed the directory.  A file that is neither linked nor open is       *)
(* removed from the cache, which suspends.                                 *)
(***************************************************************************)
remove_tree_entry(t) ==
    LET tk == task[t] IN
    /\ tk.pc = "chunk" /\ running = t
    /\ \E e \in tk.chunk :
           IF IsSubdir(e)
           THEN /\ task' = [task EXCEPT ![t] =
                      [tk EXCEPT !.chunk = @ \ {e}, !.again = FALSE,
                                 !.queue = IF tk.again
                                           THEN @ \o <<tk.dir, e.inode>>
                                           ELSE Append(@, e.inode)]]
                /\ UNCHANGED <<db, open_inodes, kernel, others, running, state>>
           ELSE IF db.names[e.name] = 0 \/ {e.inode, tk.dir} \ db.inodes # {}
           THEN Crash
           ELSE LET gone == db.refcount[e.inode] = 1 /\ open_inodes[e.inode] = 0
                IN  /\ db' = RemoveEntry(db, tk.dir, e.name, e.inode)
                    /\ task' = [task EXCEPT ![t] =
                          IF gone THEN [tk EXCEPT !.pc = "rmwait",
                                                  !.chunk = @ \ {e}]
                                       @@ [victim |-> e.inode]
                          ELSE [tk EXCEPT !.chunk = @ \ {e}]]
                    /\ running' = IF gone /\ e.inode \notin db.dirs
                                  THEN NoTask ELSE t
                    /\ UNCHANGED <<open_inodes, kernel, others, state>>

(* cache.remove has returned: the rest of _remove. *)
remove_tree_drop(t) ==
    LET tk == task[t] IN
    /\ tk.pc = "rmwait" /\ running \in {NoTask, t}
    /\ IF tk.victim \notin db.inodes THEN Crash
       ELSE /\ db' = DeleteInode(db, tk.victim)
            /\ task' = [task EXCEPT ![t] =
                   [f \in DOMAIN tk \ {"victim"} |->
                       IF f = "pc" THEN "chunk" ELSE tk[f]]]
            /\ running' = t
            /\ UNCHANGED <<open_inodes, kernel, others, state>>

(* The chunk is done: the directory is read again, after a checkpoint. *)
remove_tree_next(t) ==
    LET tk == task[t] IN
    /\ tk.pc = "chunk" /\ tk.chunk = {} /\ running = t
    /\ task' = [task EXCEPT ![t] =
           [tk EXCEPT !.pc = "rmtree",
                      !.queue = IF tk.again THEN Append(@, tk.dir) ELSE @]]
    /\ running' = NoTask
    /\ UNCHANGED <<db, open_inodes, kernel, others, state>>

(* The top directory itself; ENOTEMPTY leaves it, and its lookup. *)
remove_tree_top(t) ==
    LET e == task[t].top IN
    /\ task[t].pc = "rmtree" /\ task[t].queue = <<>> /\ running = NoTask
    /\ IF Children(db, e.inode) # {}
       THEN /\ task' = [task EXCEPT ![t] = Idle]
            /\ UNCHANGED <<db, open_inodes, kernel, others, running, state>>
       ELSE IF db.names[e.name] = 0 \/ {e.inode, e.parent} \ db.inodes # {}
       THEN Crash
       ELSE /\ db' = RemoveEntry(db, e.parent, e.name, e.inode)
            /\ task' = [task EXCEPT ![t] = Forgetting(<< <<e.inode, 1>> >>)]
            /\ running' = t
            /\ UNCHANGED <<open_inodes, kernel, others, state>>

-----------------------------------------------------------------------------
(* copy_tree.                                                              *)

(* Replication goes into an inode nobody knows, to become visible at once. *)
(* s3qlcp has just created the target, and refuses a mount point.          *)
copy_tree(t, src, target) ==
    /\ Request("copy", t) /\ Held(src) /\ Held(target)
    /\ src \notin {target, Root} /\ Children(db, target) = {}
    /\ {src, target} \subseteq db.inodes \cap db.dirs
    /\ db.next \in Id
    /\ db' = create_inode(db, FALSE, 0)
    /\ task' = [task EXCEPT ![t] =
           [pc |-> "copy", target |-> target, tmp |-> db.next, id_cache |-> {},
            queue |-> << <<src, db.next, -1>> >>, count |-> 0]]
    /\ running' = t
    /\ UNCHANGED <<open_inodes, kernel, others, state>>

IsNew(d, tk, i) == ~\E c \in tk.id_cache : c[1] = i

(* One directory entry: a new inode for it unless it has been copied. *)
CopyEntry(d, tk, e, parent) ==
    LET fresh == IsNew(d, tk, e.inode)
        new == IF fresh THEN d.next
               ELSE (CHOOSE c \in tk.id_cache : c[1] = e.inode)[2]
        attrs == {n \in Name : <<e.inode, n>> \in d.xattrs}
        made == IF ~fresh THEN [d EXCEPT !.refcount[new] = @ + 1]
                ELSE [create_inode(d, e.inode \in d.dirs, 1) EXCEPT
                         !.xattrs = @ \cup {<<new, n>> : n \in attrs},
                         !.names = [n \in Name |->
                             IF n \in attrs /\ @[n] > 0 THEN @[n] + 1 ELSE @[n]]]
    IN  [db |-> [made EXCEPT !.contents = @ \cup {Entry(parent, e.name, new)},
                             !.names[e.name] = IF @ > 0 THEN @ + 1 ELSE 0],
         id_cache |-> IF fresh /\ d.refcount[e.inode] # 1
                      THEN tk.id_cache \cup {<<e.inode, new>>} ELSE tk.id_cache,
         sub |-> IF fresh /\ Children(d, e.inode) # {}
                 THEN << <<e.inode, new, -1>> >> ELSE <<>>]

(***************************************************************************)
(* The rows of the active query, one after the other.  An open inode is    *)
(* flushed first, which suspends; the row is used afterwards as it was.    *)
(***************************************************************************)
copy_tree_entry(t) ==
    LET tk == task[t]
        job == Last(tk.queue)
        left == {e \in Children(db, job[1]) : e.name > job[3]}
        e == IF tk.pc = "flushed" THEN tk.row
             ELSE CHOOSE f \in left : \A g \in left : f.name <= g.name
        new == CopyEntry(db, tk, e, job[2])
    IN  /\ tk.pc \in {"copy", "flushed"} /\ tk.queue # <<>>
        /\ running \in {NoTask, t}
        /\ tk.pc = "copy" => left # {} /\ open_inodes[e.inode] = 0
        /\ IsNew(db, tk, e.inode) => db.next \in Id
        /\ IF e.inode \notin db.inodes /\ IsNew(db, tk, e.inode) THEN Crash
           ELSE /\ db' = new.db
                /\ task' = [task EXCEPT ![t] =
                      [pc |-> "copy", target |-> tk.target, tmp |-> tk.tmp,
                       id_cache |-> new.id_cache,
                       queue |-> Front(tk.queue) \o new.sub
                                     \o << <<job[1], job[2], e.name>> >>,
                       count |-> (tk.count + 1) % Batch]]
                /\ running' = IF tk.count + 1 = Batch THEN NoTask ELSE t
                /\ UNCHANGED <<open_inodes, kernel, others, state>>

copy_tree_flush(t) ==
    LET tk == task[t]
        job == Last(tk.queue)
        left == {e \in Children(db, job[1]) : e.name > job[3]}
    IN  /\ tk.pc = "copy" /\ tk.queue # <<>> /\ running \in {NoTask, t}
        /\ \E e \in left :
             /\ \A g \in left : e.name <= g.name
             /\ open_inodes[e.inode] # 0
             /\ task' = [task EXCEPT ![t] =
                    [tk EXCEPT !.pc = "flushed"] @@ [row |-> e]]
        /\ running' = NoTask
        /\ UNCHANGED <<db, open_inodes, kernel, others, state>>

(* A directory without further rows: on to the next, after a checkpoint. *)
copy_tree_next(t) ==
    LET tk == task[t]
        job == Last(tk.queue)
    IN  /\ tk.pc = "copy" /\ tk.queue # <<>> /\ running \in {NoTask, t}
        /\ {e \in Children(db, job[1]) : e.name > job[3]} = {}
        /\ task' = [task EXCEPT ![t].queue = Front(@), ![t].count = 0]
        /\ running' = NoTask
        /\ UNCHANGED <<db, open_inodes, kernel, others, state>>

(* Mutant: the dummy inode goes without its entries. *)
DeleteDummyOnly(d, tmp, target) == [d EXCEPT !.inodes = @ \ {tmp}]

(* UPDATE contents SET parent_inode; DELETE the dummy inode. *)
MakeVisible(d, tmp, target) ==
    [d EXCEPT !.contents = {IF e.parent = tmp THEN [e EXCEPT !.parent = target]
                            ELSE e : e \in @},
              !.inodes = @ \ {tmp}]

(* The entries appear in the target; UNIQUE (parent_inode, name_id). *)
copy_tree_end(t) ==
    LET tk == task[t] IN
    /\ tk.pc = "copy" /\ tk.queue = <<>> /\ running = NoTask
    /\ IF \E e \in Children(db, tk.tmp), f \in Children(db, tk.target) :
              e.name = f.name
       THEN Crash
       ELSE /\ db' = MakeVisible(db, tk.tmp, tk.target)
            /\ task' = [task EXCEPT ![t] = Idle]
            /\ UNCHANGED <<open_inodes, kernel, others, running, state>>

-----------------------------------------------------------------------------
(* A block turns out to be lost or damaged (_readwrite, setattr). *)
EnterFailsafe ==
    /\ \E t \in Task : Request("fail", t)
    /\ state' = "failsafe"
    /\ UNCHANGED <<db, open_inodes, kernel, others, task, running>>

Next ==
    \/ EnterFailsafe
    \/ \E t \in Task :
        \/ \E p \in Id, n \in Name :
              \/ _lookup(t, p, n) \/ readdir(t, p, n)
              \/ \E dir \in BOOLEAN : _create(t, p, n, dir)
              \/ \E i \in Id : link(t, i, p, n)
              \/ setxattr(t, p, n) \/ removexattr(t, p, n)
              \/ unlink(t, p, n) \/ remove_tree(t, p, n)
              \/ \E q \in Id, m \in Name : rename(t, p, n, q, m)
        \/ \E i \in Id : write(t, i) \/ lock_tree(t, i)
        \/ \E i, j \in Id : copy_tree(t, i, j)
        \/ write_end(t)
        \/ forget(t) \/ forget_one(t) \/ forget_drop(t) \/ forget_end(t)
        \/ destroy(t)
        \/ lock_tree_dir(t) \/ lock_tree_end(t)
        \/ remove_tree_dir(t) \/ remove_tree_entry(t) \/ remove_tree_drop(t)
        \/ remove_tree_next(t) \/ remove_tree_top(t)
        \/ copy_tree_entry(t) \/ copy_tree_flush(t) \/ copy_tree_next(t)
        \/ copy_tree_end(t)

Spec == Init /\ [][Next /\ UNCHANGED config]_vars

-----------------------------------------------------------------------------
TypeOK ==
    /\ db.names \in [Name -> Nat]
    /\ db.contents \subseteq Entries
    /\ db.inodes \subseteq Id /\ db.locked \subseteq Id /\ db.dirs \subseteq Id
    /\ db.refcount \in [Id -> Int]
    /\ db.xattrs \subseteq Id \X Name
    /\ open_inodes \in [Id -> Nat] /\ kernel \in [Id -> Nat]
    /\ dead \subseteq db.dirs /\ content \in [Id -> {0, 1}] /\ sealed \subseteq Id
    /\ running \in Task \cup {NoTask}
    /\ state \in {"mounted", "failsafe", "unmounting", "crashed"}

(* An operation that somebody executes in this setting. *)
Does(op) == \E t \in Task : op \in OpsOf[t]

(* No handler meets a row that has disappeared: such an exception would    *)
(* end the event loop and with it the mount.  (It does happen when a tree  *)
(* is copied, or removed by s3qlrm, while others take entries out of it or *)
(* add some to the copy, fs.py:415, 484, 535.)                             *)
NeverCrashes ==
    ~Does("copy") /\ ~(Does("rmtree") /\ (Does("unlink") \/ Does("rename")))
        => state # "crashed"

(* The refcount of every inode is its number of directory entries (create, *)
(* link, _remove, _replace and copy_tree count it separately).             *)
LinkCountExact ==
    \A i \in db.inodes \ {Root} : db.refcount[i] = Links(db, i)

(* Every name_id in contents and ext_attributes is counted by its names    *)
(* row, so no row goes while an entry or an attribute still uses it, and   *)
(* without extended attributes the counts are exact.  (removexattr of an   *)
(* attribute that does not exist takes away a count, fs.py:336.)           *)
NamesCounted ==
    ~Does("removexattr") =>
        \A n \in Name :
            /\ db.names[n] >= Uses(db, n)
            /\ ~Does("setxattr") => db.names[n] = Uses(db, n)

(* An inode the kernel still refers to, or that has an entry, has its row. *)
InodeKept ==
    /\ \A i \in Id : kernel[i] > 0 => i \in db.inodes
    /\ \A e \in db.contents : {e.parent, e.inode} \subseteq db.inodes

(* After unmounting no inode without entry is left: forget has removed the *)
(* ones that were unlinked while open, leaked lookups included.            *)
CleanUnmount ==
    state = "unmounting" /\ running = NoTask /\ (\A t \in Task : task[t] = Idle)
        => \A i \in db.inodes : db.refcount[i] > 0

(* The two counts of the database agree with what they count, between any  *)
(* two steps of any operations: an inode's refcount with its directory     *)
(* entries, a name's with its entries and attributes (fs.py:249-345,       *)
(* 440-620, 678-803, 997-1030).                                            *)
CountsExact == LinkCountExact /\ NamesCounted

(* An inode lives exactly as long as it is wanted: it is there while the   *)
(* kernel or an entry refers to it, and once unmounted it is gone if no    *)
(* entry does (_remove and forget, fs.py:572-620, 1157-1183).              *)
InodeLives == InodeKept /\ CleanUnmount

(* lock_tree has returned: whatever other tasks did between its            *)
(* checkpoints, the whole tree is locked and stays so, and nothing is ever *)
(* added to a directory of it (fs.py:347-377, and the guards of create,    *)
(* link and rename).                                                       *)
TreeStaysLocked ==
    /\ [](sealed \cap db.inodes \subseteq db.locked)
    /\ [][\A e \in db'.contents \ db.contents : e.parent \notin sealed]_vars

(* open_inodes counts the lookups of the kernel and of running handlers.   *)
(* This does not hold: unlink, rmdir and rename that fail after _lookup    *)
(* keep the count (fs.py:568); CleanUnmount is what is left of it.         *)
LookupsExact ==
    (\A t \in Task : task[t] = Idle) =>
        \A i \in Id \ {Root} : open_inodes[i] = kernel[i]

(* The files of an immutable tree are not written to any more.  This does  *)
(* not hold: a write looks at the flag before it waits for the block, and  *)
(* lock_tree may return meanwhile (fs.py:1067).                            *)
SealedUnwritten == [][\A i \in sealed : content'[i] = content[i]]_vars

=============================================================================
