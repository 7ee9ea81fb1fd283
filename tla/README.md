# S3QL in TLA+

A verification project for S3QL, a FUSE file system that keeps its data as
objects in a storage service and its metadata in a local SQLite database.
Paths are those of the repository, below `src/src/s3ql/`.

## 1. Inventory

| Component | Code | State | Operations | What makes it correct | Modules |
|---|---|---|---|---|---|
| Block cache | `block_cache.py` | cached entries with dirty flags, entries in transit, locked keys, upload and removal queues, tables `objects` and `inode_blocks` | `get`, `expire`, `upload_if_dirty`, `_do_upload`, `_deref_obj`, `remove`, `start_flush`, `flush`, `drop`, removal loops, `destroy` | reads return the last write; reference counts are exact; nothing that is referenced is removed, everything else is; locks are neither leaked nor released twice; operations end | `BlockCache`, `BlockStore`, `Teardown` |
| Per-key locks | `multi_lock.py` | set of locked keys, one condition variable | `acquire`, `acquire_nowait`, `release` | mutual exclusion per key, no lost wake-up | `MultiLock`, `KeyLock` |
| Inode cache | `inode_cache.py` | attribute objects in a ring, dirty set | read, change, create, delete, expire, flush, destroy | no update is lost; a deleted inode does not come back | `InodeCache`, `InodeTable` |
| FUSE operations | `fs.py` | `open_inodes`, `failsafe`, tables for inodes, names, entries, attributes | one handler per request; `lock_tree`, `remove_tree`, `copy_tree` | link and name counts exact; an inode lives as long as it is linked or open; a locked tree stays locked | `Namespace`, `BlockCache` |
| Mounting, metadata upload | `mount.py`, `metadata.py`, `common.py` | sequence number, `needs_fsck`, objects `s3ql_seq_no_*`, `s3ql_metadata*`, local files | mount, periodic and final upload, rotation of backups, `fsck.s3ql` main | outdated metadata never replaces newer metadata; a crash is detected; some copy is always usable | `Mount` |
| Checker | `fsck.py` | a damaged database, left-over cache files, the objects of the backend | 21 checks in a fixed order | afterwards the file system is consistent; data is kept; a second run finds nothing | `Fsck` |
| Dump format | `deltadump.pyx` | a file that is read ahead | delta encoding of columns | load after dump is the identity | `DeltaDump` |
| Backend framework | `backends/common.py`, `backends/pool.py` | retry counters, connections | `retry`, `perform_read`, `perform_write` | a temporary failure is retried, a permanent one is reported | `S3Client` and the other clients |
| Remote backends | `backends/s3c.py`, `s3.py`, `gs.py`, `swift.py`, `b2/*.py` | connection, token, upload URLs | store, fetch, look up, delete, copy, list, `delete_multi` | answers are exact whatever was lost or repeated; calls end; nothing half-done is left | `S3Client`, `GsClient`, `SwiftClient`, `B2Client`, `BulkDelete`, `Listing` |
| Local backend | `backends/local.py` | files | the same | files are not mixed; a reader gets all of an object | `LocalBackend`, `BulkDelete` |
| Compression, encryption | `backends/comprenc.py` | wrapped keys, stream positions | write, read in pieces, copy, rename, update metadata | what is read is what was stored under that name; damage is reported | `EncryptedStream`, `CompressedStream`, `ComprEnc` |
| Verification, clear, clone | `verify.py`, `adm.py`, `contrib/clone_fs.py` | bounded queue, worker threads | produce, consume, join | every object processed and reported once; no thread is waited for in vain | `WorkQueue` |
| SQL connection | `database.py` | one connection in autocommit mode | statements | every statement is atomic | taken as given |
| Front ends, logging | `cp.py`, `ctrl.py`, `lock.py`, `remove.py`, `statfs.py`, `logging.py`, ... | none | send one request | | not modelled |

How they interact. FUSE requests are trio tasks on one event loop. They change the
tables directly or through the inode cache, and call the block cache, which awaits
locks, upload threads and helper threads; `CommitTask` calls `upload_if_dirty`
periodically in another task. Upload threads store objects through a pool of
backend connections, usually through the encrypting backend, and report back to the
event loop; removal threads read a bounded queue. All database access is done in the
event loop, so the code between two suspension points is atomic with respect to
other tasks, but not the code across them, and not with respect to the threads.
`mount.s3ql` and `fsck.s3ql` decide by sequence numbers which copy of the metadata
is used, dump the tables and store them as objects.

What is hard here: every `await` lets other tasks change the cache and the database;
a lock is taken by a task and released by another thread; an entry is in transit
before its rows are written; an object may lose its last reference while it is
being uploaded; uploads fail after other blocks were linked to them; threads die;
queues are bounded; tree commands keep lists of entries across suspension points; a
process may die between any two of the steps that change the sequence number, the
parameters and the metadata; an answer may be lost although the request was served;
tokens expire while data is being sent; a read may end in the middle of a packet
header. `PROJECT.json` lists these hazards line by line with the properties that
cover them; a `note` says where they do so in part only, because the code goes wrong
there (section 3) or a bound excludes it.

## 2. Modules

| Module | Content |
|---|---|
| `BlockCache`, `BlockStore` | the block cache with its two tables, the backend, its threads and its callers; abstract: a content and a saved content per block |
| `MultiLock`, `KeyLock` | `MultiLock` on top of a `trio.Condition`; abstract: one lock per key, the one `BlockCache` uses |
| `InodeCache`, `InodeTable` | the write-back cache of the `inodes` table; abstract: the table |
| `Namespace` | names, entries, inodes, attributes, lookup counts, tree commands |
| `Mount` | metadata between mounts: hosts, each with a cache directory, and one backend |
| `Fsck` | the checks of `fsck.py` on damaged tables |
| `Teardown` | `BlockCache.destroy` and the worker threads |
| `S3Client`, `GsClient`, `SwiftClient`, `B2Client` | a client and its server, with everything that can go wrong on the way |
| `BulkDelete`, `Listing`, `WorkQueue` | `delete_multi`; paged lists; the tools with worker threads |
| `LocalBackend`, `ComprEnc` | objects as files; signed and encrypted objects on a storage that may return something else |
| `EncryptedStream`, `CompressedStream`, `DeltaDump` | byte streams and their readers; the metadata dump |
| `MCBlockCache`, `MCCacheSettings`, `MCFlush`, `MCStructures`, `MCNamespace`, `MCMetadata`, `MCClients`, `MCBatches`, `MCStreams`, `MCStorage` | the components put together for TLC; their constants are given values in the `.cfg` |
| `BlockCacheProofs`, `BlockCacheRemoval` | theorems about the block cache: types, bounds, references, locks; on top of them removal, counts and the refinement |
| `StructureProofs` | theorems about `InodeCache` and `MultiLock` |
| `NamespaceProofs` | theorems about `Namespace` |
| `MetadataProofs`, `ClientsProofs`, `BatchesProofs`, `StorageProofs` | theorems about the specification of the MC module of that name, for all values of its constants |

Composition. `BlockCache` contains the lock of `KeyLock` and the backend; `MultiLock`
is shown to implement that lock. The MC modules that instantiate several components
(`MCStructures`, `MCMetadata`, `MCClients`, `MCBatches`, `MCStreams`, `MCStorage`) do
not let them interact: a behaviour is one of one component, chosen by `part`, and
the variables of the others keep a fixed value. Within a component a record
`config`, chosen in the initial state from the constant `Settings` and never
changed, holds what differs between the settings of a run (backend, kinds of
faults, bounds). Properties that are known not to hold in a setting are asked for
in the others only; the conditions are in the definitions of the properties and
section 3 says why.

Operators introduced by a comment that begins with "Mutant" are variants of the
definition that follows them, with a plausible mistake. They are not used in the
specifications; `PROJECT.json` pairs each with the property that refutes it.

### BlockCache and the code

`objects`, `inode_blocks`, `cache`, `in_transit`, `locked`, `to_remove`, `ids`,
`open_inodes` and `failsafe` are the variables of the same name in the code. A
cache entry is a block with an incarnation number, because the code compares
entries by identity; `dirty` and `data` are its flag and its file. `store` is the
backend. `task[t]` holds the local variables of a task and the suspension point it
is at (`pc`), `thread[w]` those of an upload thread.

| Code | Actions |
|---|---|
| `get`, `_get_entry`, `_readwrite` | `GetCall`, then `GetCached`, `GetNew` or `GetMiss`, `GetWait`, `Download`, `DownloadMissing` |
| `expire`, `flush`, `start_flush`, `drop`, `CommitTask.run` | `FlushCall`, `CommitCall`, `DropCall`, `CopyCall`; `BeginPass`, `LoopNext`, `PassEnd`, `WaitNothing`, `ExpireDone`, `CommitBreak`; `Evict` |
| `upload_if_dirty` | `LoopNext` (checks without the lock), `UploadSkip`, `UploadStart`, `RegisterNew`, `RegisterDup`; `FailReleaseBlock`, `FailReleaseObj` |
| `_queue_upload` | `QueueUpload`, `QueueFails` |
| `_do_upload` | `WriteObject`, `WriteFails`, `FinishUpload`, `UnlockObject`, `UnlockBlock` |
| `_deref_obj`, `_queue_removal` | `DerefShared`, `DerefLast`, `DerefRemove` |
| `remove` | `RemoveCall`, `RemoveBlock`, `RemoveDone` |
| `_removal_loop_multi`, `_removal_loop_simple` | `RemovalTake`, `RemovalDelete` |
| `copy_tree` | `CopyCall`, `CopyRows` |
| `forget`, `_lookup` | `Forget`, `Lookup` |

Abstractions, and why they are sound for the properties:

* A lock that is taken and released without a suspension point that depends on
  another actor in between is one step whose guard is that the lock is free.
* The two passes of `remove` are abstracted to "any block that is not locked", the
  order of a snapshot of the cache is left open, and so is the age at which the
  `CommitTask` stops. `pass` and `loop` are steps of their own although the code
  does not always suspend there: this only adds interleavings. The counterexample
  of `copy_in_transit` was reordered by hand to make sure that it does not depend
  on it.
* A new id or incarnation is the one `CHOOSE` gives among those nothing refers to;
  the ids of SQLite are never reused, and an id nobody refers to any more cannot be
  told from one that was never used.
* Contents are members of a small set. The hash of a content is the content: SHA-256
  is taken to be free of collisions. `Zero` is the content of a hole.
* Of the two limits of the cache only the number of entries is kept; the size is
  the same test on another quantity.
* The object lock of a new object is taken in the same step as its row is inserted.
  `MultiLock`'s `FirstRequestFirst` is what justifies this.
* The second test for `el in in_transit` (line 429) cannot succeed: an entry in
  transit has its block locked.
* The time-out of `wait()` shows as `WaitNothing`: it returns when nothing is in
  transit, however it was woken.
* A failing `perform_write` leaves no object. The early return for blocks known to be
  broken, cancellation and errors of the database are left out; dying removal
  threads are in `Teardown`.
* The system starts as a consistent file system mounted with an empty cache
  (`load_cache` finds nothing).

`ImplementsBlockStore` is stated with the requests of the tasks as part of the
interface: a step that changes the content of a block must be the one in which a
write or a removal of that block is served. An eviction that loses a write, or a
download that brings something else, is then no step of `BlockStore`.

### The other modules and the code

* `MultiLock`. `acquire` and `release` enter `async with cond`, a request for the
  condition's lock (`AcquireCall`, `ReleaseCall`); trio hands the lock over in order
  and the task runs in a later step (`AcquireWait`, `AcquireReturn`,
  `ReleaseReturn`). `acquire_nowait` that fails changes nothing. `first` is an
  auxiliary variable. Callers release only keys that were granted, which
  `LockOwnership` shows of the block cache.
* `InodeCache`. Calls do not suspend, so each is one step. All attributes of an inode
  are one value. A caller changes an inode object only while it is cached, the
  condition the class documents for its callers; whether the handlers keep it
  across their suspension points is not modelled.
* `Namespace`. A task that has begun a handler keeps `running` until a suspension
  point (a call of the block cache, or `trio.lowlevel.checkpoint` every 200 entries,
  here `Batch`). Each handler is one action up to there; the tree commands continue
  in `*_dir`, `*_entry`, `*_next` and `*_end`. `kernel` counts what the kernel has
  looked up and not forgotten, which limits what it may ask for; `others` holds the
  auxiliary facts. A Python exception that is no `FUSEError` is the state
  `crashed`. Contents are reduced to "written since"; permissions, times and sizes
  are left out.
* `Mount`. A database is the set of changes that were made to it. Every backend call
  and every file written is a step, `proc[h].pc` names it, and a process may die at
  the places in `CrashAt`. The rotation of the metadata objects is its copies or
  renames one by one; where the object that was uploaded is missing, because a program
  on another host took it away, it ends with an exception (`cycle_missing`). A mounted
  file system uploads its metadata periodically (`upload_task`, if `Periodic`); `Reuses`
  is the case in which unmounting gives a number back that another host has for older
  metadata, and `Reuse` says whether it happens. Backends answer consistently.
* `Fsck`. The record `db` holds all tables; a check is one operator on it, composed of
  loops in row order that look at the tables as they are by then. `check` lists them
  in the order of the code. `check_cache` is several steps, because it uploads. A
  damaged state is an undamaged small file system to which one or two of the kinds of
  `DamagedTables` were applied. `get_path` follows the entries up for as many
  steps as there are entries (the code: 255) and fails in a loop.
* `Teardown`. `destroy` runs in the event loop: from the sentinels on only threads
  run. Any thread may die at any operation; a task of the `CommitTask` may still be
  waiting in `_queue_removal`.
* Clients. A request is sent, served or not, and answered or not: three steps. What
  the server does although the answer is lost is the point of the models. Objects
  are version numbers or pairs of data and metadata. `S3Client` has the nested
  `retry` loops with their limits (`MaxTries` stands for the timeout); in the others a
  temporary failure is repeated until the faults, bounded by `MaxFaults`, are used
  up. A write begins with the function that produces the data (`fn`); if it fails, what
  it wrote until then is uploaded all the same, as `ObjectW.__exit__` does. `GsClient` has
  two threads that share a token and its lock; `B2Client` keeps versions of files and
  upload URLs with their marks; `SwiftClient` has the COPY method or the three requests
  that replace it, and deletes what arrived damaged (`UploadDamaged`). The servers are
  consistent: a request is answered by what the last one left. For S3 that is more than
  the class promises, "only immediate get after create consistency" (`s3c.py:47`).
* `BulkDelete`, `Listing`, `WorkQueue`. Batches and pages have the size `MaxKeys` or
  `Batch` (2); a page ends at any time the server likes. Keys are stored and deleted
  between pages. Threads of the tools die of unexpected exceptions.
* `LocalBackend`. Every call of the operating system is a step; an open file keeps its
  content when its name is given to another. `Overlap` lets two threads work on one
  key, which the block locks of the cache exclude for data objects. A crash ends all
  threads and leaves the files as they are by then.
* `ComprEnc`. Cryptography is ideal: a signature is the record that was signed. The
  storage may return any version of any object, metadata and data of different
  versions, or truncated data.
* `EncryptedStream`, `CompressedStream`. The layer below returns any number of bytes;
  damage truncates, extends or changes the stream. The formats keep their structure
  (offset, packet, empty packet, HMAC) with a base of 2 and fields of 2 bytes.
* `DeltaDump`. A byte has 4 bits, so that all edges of the four integer widths can be
  enumerated; signed arithmetic wraps around at the largest width. The `FILE` reads
  ahead in blocks, which is what makes the shared descriptor delicate.

## 3. Runs

| Run | Root, configuration | Instance | Properties and what they show |
|---|---|---|---|
| `cache_safety` | `MCBlockCache`, `BlockCacheSafety.cfg` | 2 tasks, any 4 reads, writes, copies, drops and removals; 2 files of one block; 2 contents; limit of 1 entry; queue of 1 | `TypeOK`, `NoDangling`, `LockOwnership`; `ReferencesSafe`: counts exact and nothing referenced is removed; `NoWriteInTransit`: entries in transit are left alone; `ImplementsBlockStore`; no deadlock |
| `cache_settings` | `MCCacheSettings` | four settings: one of 2 upload threads fails; the only one fails; 2 files of two blocks with copy, flush, `CommitTask`, forget and removal in batches; a limit of 0 entries with 3 blocks | `StaysConsistent`: counts, de-duplication only against objects that exist or are being uploaded, no dangling reference, no leaked lock; `CacheBounded`: at most one entry per task above the limit; `ImplementsBlockStore` with copies |
| `cache_liveness` | `MCBlockCache`, `BlockCacheLiveness.cfg` | as `cache_safety`, 3 operations, a flush, weak fairness | `EventuallyQuiescent`: every operation ends; `OrphansRemoved`: every object without a row is removed |
| `structures` | `MCStructures` | inode cache: 4 rows, 2 slots, 2 values; lock: 4 tasks, 2 keys | `CleanIsCurrent`, `ImplementsTable`; `FirstRequestFirst`, `ImplementsKeyLock`, `FreeKeyIsTaken` (no wake-up is lost) |
| `namespace` | `MCNamespace` | seven settings of two tasks on trees of 3 or 4 inodes, with room for 1 to 3 more: all kernel operations with unlink; attributes; miscounted names; `remove_tree` with others that look up and create; `lock_tree` with others that look up, create and move files and whole directories between directories, in two settings; `copy_tree` with others that link or set attributes | `NeverCrashes`, `CountsExact`, `InodeLives`, `TreeStaysLocked` |
| `metadata` | `MCMetadata`, `MCMetadata.cfg` | `Mount`: two hosts that take turns and upload periodically, with up to two crashes at 15 places; the same with numbers that are used twice and one crash; hosts that run together with forced checks and native renames; `Fsck`: any two of 24 kinds of damage, or up to two kills while one of 14 is repaired | `Repaired`, `DataKept`; `MountedCurrent`: a mounted file system has all changes ever made, and a cache directory fits its database; `MetadataUsable`: somebody has current metadata, and it can be loaded; `MetadataNeverOlder` |
| `clients` | `MCClients` | S3: 4 faults; B2: four settings with 2 faults of different kinds, among them functions that fail while they write and limited requests; GS: two threads, three settings; Swift with and without COPY, 2 faults, damaged uploads and failing functions among them | `AnswersExact`, `InStep`: no request on a connection with an unread response; `LeftInOrder`: what calls leave at every step of them; `CallEnds` |
| `batches` | `MCBatches` | `delete_multi` of 3 keys in batches of 2 (S3, Swift, local); lists of 5 or 6 keys in pages of 2 with 2 changes (four backends); verify, clear, clone with 2 threads; `destroy` with 2 upload and 2 removal threads that may die | `BulkExact`, `ListExact`, `ToolExact`, `DestroyExact`, `EverythingEnds` |
| `streams` | `MCStreams` | encrypted: 2 writes of up to 2 bytes, reads of 1, 2, 3 or 6; compressed: 4 items, 2 more after the end; dump: any two edges of 4 widths, blobs of any length up to one too long in up to 4 rows, transactions of 2 rows | `StreamExact`, `DumpExact`, `ReadEnds` |
| `storage` | `MCStorage` | local: 2 threads, 2 keys, 2 pieces, a crash; encrypted: 2 processes, 2 keys, 2 versions, a storage that returns anything it ever had | `FilesWhole`, `ObjectsAuthentic`, `NothingVanishes` |
| `copy_in_transit` | `MCFlush`, `CopyInTransit.cfg` | write, remove, copy; `CommitTask` and flush | `CopyIsCurrent` is violated, see below |
| `fsck_upload` | `MCMetadata`, `FsckUpload.cfg` | a mount process died during an upload | `DataKept` is violated, see below |

Each passing run takes between 12 seconds and two minutes with two workers.

Bounds. Two tasks and two threads are what the races in the code need: one actor
between two suspension points and another that interferes. Two contents with two or
more blocks are needed for de-duplication, relinking and holes. Four operations
suffice to create an object, share it, drop it and race with its removal. The limit
of one entry makes every access expire another entry, a queue of one makes it full.
Ids and incarnations are as many as can be in use at a time, so that they never run
out (the run would report a deadlock). Requests stop after `MaxCalls`; `MCRest` lets
the system rest only when nothing is under way, so deadlock checking finds actors
that wait for each other. In `Namespace` a tree has a nested directory and a file
with two links, because link counts and tree walks go wrong there. In `Mount` two
crashes and five sequence numbers allow a host to be left behind, to be checked and
to meet the other again; with numbers that are used twice one crash and four numbers do.
With `Reuse`, what is asked is that cache files fit, that some metadata is usable and that
numbers do not decrease. In the clients the number of faults is one more than the
retries of a loop, so that loops give up; two calls show that nothing is left over
from the first. A page or batch of two is reached exactly, exceeded and fallen
short of. `DeltaDump` enumerates the edges of every width instead of all values.
Deadlock is checked in `cache_safety`, `cache_settings`, `cache_liveness`, `batches`
and `streams`; in the others a system may come to rest because a bound is used up, or
all hosts are off.

Fairness. `Fairness` in `MCBlockCache`: weak fairness of every task, upload thread and
removal thread; trio resumes every runnable task and the operating system runs
every thread. Tasks waiting for a lock need no strong fairness because requests are
finite. `LockFairness` of `MultiLock` also assumes that whoever obtained a key releases
it. `MCClients`: a call that can go on does, each Google thread on its own; faults
are bounded, so this says that the network recovers. `MCBatches`: the main program,
each tool thread, each task and each worker thread of the block cache; a dead thread
does nothing. `MCStreams`: whoever reads goes on reading. Nothing is assumed about
arriving requests.

### Disagreements between the code and what it says

Two runs are expected to find a violation:

* `copy_in_transit`: `upload_if_dirty` marks the entry as in transit
  (`block_cache.py:439`) before it hashes it and writes the rows, against its own
  comment (477-479). A `start_flush` at that moment skips the entry, and `copy_tree`
  copies the old content. Trace: the `CommitTask` is computing the checksum of a block,
  `copy_tree` calls `start_flush` for the file, sees the entry in transit, and copies
  the rows.
* `fsck_upload`: a cache file whose checksum equals the hash of its row is taken as
  committed and deleted (`fsck.py:202`), also if the row belongs to an upload that had
  not ended; `check_objects_id` then finds the object missing.

Further disagreements met while modelling. Each was found as a violation of the
property named; the passing runs leave the case out by a constant, a setting or a
condition in the property, and putting it back shows the trace.

| Module, property | Left out by | What happens |
|---|---|---|
| `MCFlush`, `CopyIsCurrent` | `KernelForgets = FALSE` | `copy_tree` flushes only inodes in `open_inodes`; a forgotten inode may have dirty entries (`fs.py:480`) |
| `BlockCache`, `DedupTargetExists` | not asked for in `Dead` | after `NoWorkerThreads` the new row keeps its hash, and later uploads of the data are linked to an object that was never stored (`block_cache.py:504`) |
| `MCFlush`, `FlushUploads` | `Ops <- CommitFlush` | `flush` returns while an object it linked a block to waits for an upload thread (`block_cache.py:878`) |
| `MCBlockCache`, `LimitIsTheOption` | not asked for | two overlapping `drop`s leave the limit at 0 (`block_cache.py:890`) |
| `Teardown`, `LostObjectHarmsNoOther` | not asked for | after `NoSuchObject` the rest of a batch is forgotten (`block_cache.py:613`) |
| `Teardown`, `ReportMeansDeadThreads`, `LeftoversExplained` | not asked for with `Freed["commit"] # {}` | an id that arrives after the sentinels is never removed, and healthy threads are reported as dead (`block_cache.py:269`) |
| `Namespace`, `LookupsExact` | not asked for | `unlink`, `rmdir` and `rename` that fail after `_lookup` leave a lookup behind (`fs.py:568`) |
| `Namespace`, `NamesCounted` | `Does("removexattr")` | removing an attribute that does not exist drops a count of its name, and an entry of that name disappears (`fs.py:336`) |
| `Namespace`, `NeverCrashes` | `Does("rmtree")` with `unlink` or `rename` | `remove_tree` removes entries of an old list (`fs.py:415`) |
| `Namespace`, `InodeKept` | no `rename` beside `rmtree` | `rename` moves a file into a directory that was removed and is still open (`fs.py:654`) |
| `Namespace`, `NeverCrashes` | `Does("copy")` | a file vanishes while `copy_tree` awaits its flush (`fs.py:484`), or an entry is linked into the copy before its own is inserted (`fs.py:535`) |
| `Namespace`, `SealedUnwritten` | not asked for | a write that passed the test of the flag changes a file after `lock_tree` has returned (`fs.py:1067`) |
| `Fsck`, `SecondRunClean` | `"inode gone"` not in `RepairKinds`; not asked for after kills | rows with the count 0 stay, and the next process reports them (`fsck.py:550`) |
| `Fsck`, `DataKept` | `"dirty cache"`, `"new block"` not in `KilledKinds` | killed between inserting a row and uploading, fsck later takes the file as committed (`fsck.py:211`) |
| `Fsck`, `NeverCrashes` | `"loop"` not in `RepairKinds` (it fails together with `"inode count"`) | messages call `get_path`, which fails in a loop before `check_loops` runs (`fsck.py:527`) |
| `Fsck`, `NeverCrashes` | `"inode gone"` together with `"dir inode gone"` | the path of a vanished inode is a `str` where bytes are expected (`fsck.py:352`) |
| `Fsck`, `NeverCrashes` | `"lof inode gone"` | `check_lof` reads an inode that has no row (`fsck.py:276`) |
| `Fsck`, `UnusedNamesRemoved` | not asked for | unused names keep a row with the count 0 (`fsck.py:660`) |
| `Mount`, `NothingLost` | `"mark"` not in `CrashPlaces` | killed between saving the parameters and storing the sequence number, two hosts use one number (`mount.py:470`) |
| `Mount`, `SomeMetadataCurrent` | `"fsck save"` not in `CrashPlaces` | fsck killed between storing the number and saving the parameters: no metadata is current (`fsck.py:1153`) |
| `Mount`, `NothingLost` | not asked for with `Reuse = TRUE` | unmounting when nothing has changed since a periodic upload gives a number back that another host may have for older metadata; its local copy is then taken for current (`mount.py:301`) |
| `Mount`, `NeverFails` | `NativeRename = FALSE` with crashes | killed between two renames, `s3ql_metadata_new` is looked up but `s3ql_metadata` downloaded (`fsck.py:1141`) |
| `Mount`, `DamageChecked` | not asked for | `needs_fsck` of an unchanged database is only saved locally (`mount.py:301`) |
| `LocalBackend`, `ReadsComplete` | `Overlap` | an object has its name before it is complete (`local.py:105`) |
| `CompressedStream`, `CorruptionReported` | `Algorithm <- "zlib"` | lzma and bz2 raise `EOFError` for data after the end (`comprenc.py:453`) |
| `S3Client`, `OneTimeout` | not asked for | nested retries restart the timeout (`common.py:269`) |
| `BulkDelete`, `EverythingEnds` | `Refused = {}` with S3 | errors are swallowed and the list is sent again for ever (`s3.py:163`) |
| `BulkDelete`, `NothingForgotten` | `EmptyErrors` | a failure without a list of keys clears the list of the caller (`swift.py:515`) |
| `Listing`, `ListReturns` | `NoContent <- FALSE` | a 204 answer ends `list` with a `TypeError` (`swift.py:701`) |
| `GsClient`, `ExpiryHandled` | not asked for | a thread finds no token because another removed it outside of the lock (`gs.py:651`) |
| `GsClient`, `RefreshOnce` | not asked for | threads that start together request a token each (`gs.py:644`) |
| `B2Client`, `UrlsAvailable` | not asked for with `"expired"`, `"limited"` or `"refused"` in `Kinds` | after any error of the server but 503 (expired token, 408, 429, 500, refusal) the URL stays marked as uploading (`b2_backend.py:292`) |
| `B2Client`, `NoneWhileDeleting` | not asked for; `NoResurrection` leaves out the file that `delete` is working on | the versions are deleted one by one, the newest first: a process that dies in between makes an older version the current one (`b2_backend.py:476`) |
| `B2Client`, `NoResurrection` | not asked for with `"refused"` in `Kinds` or `DisableVersions` | a refused deletion ends the call in the same place; with `disable-versions` only the newest version is deleted (`b2_backend.py:461`) |
| `B2Client`, `ForceSucceeds` | not asked for | `delete` with `force` raises `NoSuchObject` (`b2_backend.py:469`) |
| `B2Client`, `TransitRetried` | not asked for | a damaged transmission is not retried (`b2_backend.py:348`) |
| `SwiftClient`, `FailedWriteHarmless` | an exception in `AllOrNothing` | if the function that writes fails, `ObjectW.__exit__` uploads what there is in place of the old object (`s3c.py:919`); if the upload is damaged, the object is deleted and the write not repeated (`s3c.py:908`) |
| `SwiftClient`, `CloseWorks` | not asked for | after a refused login `close` fails (`swift.py:730`) |
| `DeltaDump`, `AsLittleSpaceAsPossible` | not asked for | the largest value of a width takes the next one (`deltadump.pyx:570`) |
| `WorkQueue`, `SkipExact` | not asked for | `--start-with n` skips n - 1 objects (`verify.py:152`) |

## 4. Proofs

The theorems about the block cache hold for all constants that satisfy
`BlockCacheAssumption`: finite sets of tasks, threads, inodes and block numbers of any
size, any set of contents, any limit, any subset of upload threads failing. Those
about the inode cache hold for every set of rows and values and every number of
slots, those about `MultiLock` for any sets of tasks and keys, those about `Namespace`
for any handlers, inodes and names and any tree that `NamespaceAssumption` admits.

The theorems about `Mount`, the clients, the batches and the storage are about `Spec` of
`MCMetadata`, `MCClients`, `MCBatches` and `MCStorage`, the specifications that the
runs check. The bounds, the sets of keys, hosts, threads and objects, and the sets of
settings are constants there; the theorems hold for all that satisfy
`MetadataAssumption`, `ClientsAssumption`, `BatchesAssumption` and `StorageAssumption`.
These say what the constants are (numbers, sets, values that differ from `None`), with
one exception: a page of a Swift list is not full of temporary objects. In such a
behaviour one component runs, in one setting, so an invariant of `Spec` is a disjunction
or conjunction over the components, each with an invariant of its own.

### The block cache

* `TypeCorrect` (`BlockCacheProofs`): `Spec => [](TypeOK /\ ControlOK)`. `TypeOK`
  is not inductive: whether a step assigns a value of the right type depends on the
  local variables that are set at the suspension point (an upload that is resumed at
  `hash` has an entry, a deref has an object). `ControlOK` says which are, and that
  an entry is cached under its own block. `Inv` is their conjunction, regrouped into
  shared state and tasks; one lemma per action shows that it is preserved.
* `CacheStaysBounded` (`BlockCacheProofs`): `Spec => []CacheBounded`, the limit plus one
  entry per task. Not inductive: several tasks may pass the test of `is_full` before
  the first of them installs its entry. `Bounded` counts the tasks that are past the
  test (`Getters`) together with the entries, and says that neither `max_entries` nor
  a value saved by `drop` is above the configured limit, so that overlapping drops
  cannot raise it.
* `NeverDangling` (`BlockCacheProofs`): `Spec => []NoDangling`. Inductive together
  with `Inv`, because it counts the references that are held by tasks between the
  relinking of a block and the call of `_deref_obj`. The core of the argument is
  counting: a step that links a block adds one to the row it links and turns the link
  to the old object into a pending deref.
* `LocksOwned` (`BlockCacheProofs`): `Spec => []LockOwnership`. Inductive together
  with `Inv`. Three kinds of steps: a free key is taken, a key is given back by the
  one who is responsible for it, or a task hands its two keys to an upload thread.
* `TransitUndisturbed` (`BlockCacheProofs`): `Spec => NoWriteInTransit`. The block of an
  entry in transit is locked by the task or thread that works on the entry (`Uploads`,
  inductive on top of `LockOwnership`), and every step that writes, evicts or replaces
  an entry needs that lock.
* `NothingNeededRemoved` (`BlockCacheRemoval`): `Spec => []RemovalSafe`. `_deref_obj`
  reads `phys_size` before it waits for the object's lock, so this needs that a block
  keeps its link to the object it is uploaded to, which has no size before it is in the
  backend (`Linked`), and that an object is on its way to removal in one place at most
  (`Removing`).
* `CountsStayExact` and `DedupStaysSound` (`BlockCacheRemoval`):
  `Spec /\ []SomeThreadLives` implies `[]RefcountExact` and `[]DedupTargetExists`. Without
  the hypothesis, that some upload thread is not dead, both are false: `NoWorkerThreads`
  ends a task that has relinked a block and not yet dropped the old reference, and
  leaves a hash without an object. `NoDangling` and `RemovalSafe` are what remains. The
  invariant adds that a reference is held only on the way to `_deref_obj` (`Settled`), that
  what is stored or will be stored has the content the hash promises (`Stored`), and
  that a hash without an object belongs to an upload in progress (`Awaited`).
* `ReferencesStaySafe` (`BlockCacheRemoval`): if one upload thread is not in `Faulty`,
  `Spec => []ReferencesSafe`; a consequence of the first two.
* `BlocksKeepContent` (`BlockCacheRemoval`): `Spec /\ []NoUploadFails =>
  ImplementsBlockStore`. Under the refinement mapping of `BlockCache` every step is a
  step of `BlockStore` or a stutter. Needs that a clean entry has the content the
  database records (`Clean`), that a block is neither cached nor relinked while it is
  downloaded (`Fetching`), and that every row has a hash (`Hashed`). The last fails
  with an upload: its row loses the hash, and with it the database the record of what
  the block contains; hence the hypothesis. `ReliableBackendKeepsContent` discharges
  it when `Faulty` is empty.

### The other modules

* `InodeCacheCorrect` (`StructureProofs`): `Spec => [](TypeOK /\ RingCovers /\
  CleanIsCurrent)`. A cached inode that is not dirty equals its row; inductive together
  with the type invariant and `RingCovers`: every cached inode is in the ring, so that
  expiry reaches it.
* `CacheImplementsTable` (`StructureProofs`): `Spec => ImplementsTable`. From the
  invariant, every step of the cache is a step of the table or leaves it unchanged:
  expiry and flush write what the cache already showed, and deletion removes the row
  and the cached object together.
* `FirstComesFirst` and `LockPerKey` (`StructureProofs`): `LockSpec` implies that a free
  key goes to the task that asked for it first, which `RegisterNew` of `BlockCache`
  relies on, and that `MultiLock`, one condition variable for all keys, implements
  `KeyLock`, one lock per key. The invariant says that a task is in at most one of three
  places (owner of the condition's lock, queued for it, in `wait`; `Places`), that a
  key being released is locked and by one release only (`Releases`), and that the first
  task that asks for a free key is before all others who ask for it (`Ahead`).
* `NoRowMissing`, `CountsStayTrue` and `InodesLiveAsLongAsWanted` (`NamespaceProofs`):
  `Spec /\ KernelOnly` implies `[]NeverCrashes`, `[]CountsExact` and
  `[]InodeLives`. No handler meets a missing row, the reference counts of names,
  attribute names and inodes are the numbers of rows that refer to them, and
  an inode has its row as long as an entry leads to it or the kernel has looked
  it up. The invariant relates the tables to each other (`Sound`: `Tables`,
  `Counted`, `Linked`), the lookup counts to the inodes (`Opened`), and what every
  suspended handler remembers to the tables as they are when it is resumed
  (`Handlers`). `KernelOnly` says that no handler removes a tree, copies a tree or
  removes an attribute: the settings `kernel`, `xattr`, `lock` and `lock new` of
  `MCNamespace`. `rename` moves files and directories to any directory.
  `removexattr` loses counts, and the tree commands act on rows they read before a
  suspension point: with them some of the three properties fail in some interleavings
  (section 3). What holds of the tree commands is model-checked.

### Metadata between mounts (`MetadataProofs`)

`NothingMissed`, `MetadataStaysUsable` and `NumbersOnlyGrow`: `Spec /\ HostsTakeTurns`
implies `[]MountedCurrent`, `[]MetadataUsable` and `MetadataNeverOlder`, for any number
of hosts, changes, crashes and backups. The argument is about the highest sequence number
in the backend. Whoever has it, a host or the metadata object, has all changes (`Level`,
`RemoteLevel`). A host takes the next number before it changes anything (`Turning`); from
then on every other copy is below it (`Owner`), and the one it came from stays exactly one
below until the new metadata are in place (`Uploading`) or the number is given back because
nothing was changed. When no program runs, also after one has died, some copy has the
highest number (`Quiet`). The number of a host that was left behind is lower, which is
what `mount.s3ql` and `fsck.s3ql` compare.

`HostsTakeTurns` says of the setting that no two programs run at a time (`~Concurrent`), no
check is forced (`~Forced`), at least one old sequence number is kept (`SeqKeep`), and
that programs die at one of `CrashPlaces`, with native renames not during the rotation.
Periodic uploads are included, as the code has them switched on: an upload of a mounted
file system stores its metadata with the number before the one the host has taken
(`Sending`), so what misses the changes made while it is sent is below the owner's copy.
`NothingMissed` has the one further condition of its property, `~Reuse`: `Full` says that
a copy has all changes unless numbers are used twice. With `Reuse` the other two theorems
and the part about cache files are proved all the same. For numbers that are used twice,
the places `"mark"` and `"fsck save"` that `CrashPlaces` leaves out, and native renames
with crashes, section 3 lists the execution in which the code loses changes or fails. Hosts that run together and forced checks, for which the run
asks less, are model-checked.

### Clients (`ClientsProofs`)

`AnswersStayExact`, `ConnectionsStayInStep` and `CallsLeaveOrder`: `Spec` implies
`[]AnswersExact`, `[]InStep` and `[]LeftInOrder`, for any number and order of faults, any
keys, any limits of the retry loops and any number of threads that share a token. Every
client has an invariant with a conjunct per phase of a call:

* `S3Inv`: the first request of a delete meets what was there when the call began, so a
  "not found" in it is the answer, and only a repetition takes it for success; a copy has
  not changed its source; the connection has no unread response before a request.
* `B2Inv`: versions of a file have different ids (`B2Good`), a delete works through the ones
  it has listed, the newest first (`B2Deleting`), the newest version of every other file is
  the latest one or a mark of deletion (`B2Newest`), and an upload URL is marked only while
  it is being used (`B2Urls`).
* `GsInv`: a call returns what its object was at some time during the call. `GsGood` says
  this of one thread's call, as a predicate on its record; it stays true when another thread
  changes the object, because the set of what the object has been only grows.
* `SwiftInv`: every object is what it was before or what the call makes it, and between the
  requests that replace a COPY the temporary object is what the last one made
  (`SwiftSound`, `SwiftStages`); or the call is a write whose function failed or whose
  upload was damaged, only its own object is touched, and it does not succeed
  (`SwiftSpoiled`).

The conditions in the properties (`~config.DumbCopy`, `~config.DisableVersions`, faults of
kind `"refused"`, `"limited"` or `"expired"`, the file a Backblaze `delete` is working on,
the object of a Swift write that fails) are those of section 3; with the option
`dumb-copy` a copy counts as done without a look at the answer.

### Work through lists (`BatchesProofs`)

* `BulkForgetsNothing`: `Spec => []BulkExact`. `BulkInv`: what was given and still exists is in
  the caller's list or in the batch. Every way a batch can end (all deleted, some keys failed,
  nothing known) puts back a sequence that contains what is left (`BulkPutBackInv`), except
  the failure of Swift without a list of keys, where the property asks only for an exception.
* `ListsAll`: `Spec => []ListExact`. `ListInv`: the keys returned and those of the page at hand
  are increasing, lie up to the token (before it with B2), and up to there contain every
  key that exists all the time. A page leaves no gap, and one that is not full is the
  last (`FirstOf`); for Swift, which counts temporary objects and does not return them, the
  token is the last name that is returned, so the next page begins with the temporary objects
  behind that name and passes over no other.
* `ToolsDoAll`: `Spec => []ToolExact`. `ToolInv`: every object that was produced is in one place,
  the queue, the hands of a thread or a report; objects come before the sentinels, so a
  thread that ended has left none behind; no object is reported before it was looked at.
* `DestroyExplains`: `Spec => []DestroyExact`. `EndInv` says the same of the ids on their way
  to removal, with the queues of waiting tasks as further places, and (`EndUploads`) that an
  entry that is still dirty means that all upload threads are dead or that the removal
  queue failed during `drop`. The first part of `DestroyExact` is about settings in which
  the `CommitTask` removes nothing and every object exists: otherwise ids arrive after
  the sentinels, or the rest of a batch is forgotten (section 3).

### Storage (`StorageProofs`)

* `FilesStayWhole`: `Spec => []FilesWhole`. Two threads never write into one file (`Owners`), a
  file contains the pieces of one object in order (`Unmixed`), and a copy is a prefix of its
  source (`Progress`). Files only grow (`FilesGrow`) and keep their content when their name is
  given to another. Without crashes and overlapping calls (`Quiet`) a name whose writer is
  not at work refers to a whole file, and so does whoever reads.
* `ObjectsStayAuthentic`: `Spec => []ObjectsAuthentic`. The argument rests on the nonce: what
  was encrypted with one is the data that was written with it (`Genuine`), so a signature,
  which names the key, the metadata and the nonce, stands for a triple that was stored
  (`Known`), also while the call that made it is under way or after it was killed
  (`Pending`). Whatever the storage returns was put there at some time (`StorePast`), and
  parts of different objects do not have the same nonce. As long as calls for one key do
  not overlap, every object in the store can be read and the source of a copy stays what it
  was when it was looked up (`StoreFits`, `Sources`).
* `NothingIsLost`: `Spec => NothingVanishes`, from the same invariants: a file gets a name by a
  copy when it is complete, and a rename deletes its source when the destination is there.

### Only model-checked

* Liveness, which needs fairness and `ENABLED`.
* `Fsck`: loops over rows that are recursive functions of the tables. What such a function
  computes for every input takes induction over data, which is out of the prover's reach.
  The same holds for the streams and the dump format (`StreamExact`, `DumpExact`).
* `TreeStaysLocked` of `Namespace` and the tree commands: they speak of all inodes below a
  directory, a recursive function over the tree.
* Hosts that run together and forced checks in `Mount`.
* `MCCacheSettings`: `StaysConsistent` and `CacheBounded` are put together from properties of
  `BlockCache` that are proved for all constants; the run adds the settings.

## 5. Not modelled, and the plan

Not modelled, with the reason:

* `load_cache` and `destroy` with `keep_cache`: they read and write a list of files
  between two mounts; their effect is that of an empty cache or of a cache of clean
  entries.
* Redirects of `s3c.py` and `s3.py`, the login dialogues of `swiftks`, `rackspace` and
  `oauth_client.py`: wire formats and interactive programs; the clients have a login
  that succeeds, fails or is refused.
* A page of a Swift list that holds temporary objects only; the `list` of the local
  backend, which is one walk over a directory; the escaping of keys in file names.
* The change and recovery of passphrases, `download-metadata` and `upgrade` of
  `s3qladm`: sequential programs that ask the user at every step.
* Permissions, times, sizes and `statfs` of `fs.py`; `extstat` and other counters.
* Inode objects that a handler keeps across a suspension point: a duty of the callers
  of `inode_cache.py` that no module states yet.
* `check_sqlite` of `deltadump.pyx`, which compares versions; the SQL engine, which is
  taken as atomic per statement; cryptography and compression, which are ideal.
* `database.py`, `logging.py`, `parse_args.py`, `daemonize.py` and the front ends that
  send one request: no state that a property depends on.

What could be added, in this order: the counts of `Namespace` with `copy_tree` and
`remove_tree` while no other request runs, which needs no function over the whole tree;
hosts that run together in `Mount`, with the weaker invariant that numbers never
decrease; the rules of the callers of `inode_cache.py` across suspension points; and
inode objects in `Namespace` as the cached objects that `InodeCache` models.
