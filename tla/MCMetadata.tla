----------------------------- MODULE MCMetadata -----------------------------
(***************************************************************************)
(* The metadata between mounts, and its repair by fsck, for TLC.  A        *)
(* behaviour is one of one of them in one setting; the variables of the    *)
(* other keep a fixed value.                                               *)
(***************************************************************************)
EXTENDS Integers, FiniteSets, Sequences, TLC

CONSTANTS Host,
          Keep,  \* metadata backups
          None, Null,
          FsckSettings, HostSettings  \* the settings of the run

VARIABLES
    part,  \* the component that runs
    config, seqs, object, params, dbfile, stale, proc, changes, damaged,
    crashes, db, pc, cache, runs, readable

vars == <<part, config, seqs, object, params, dbfile, stale, proc, changes,
         damaged, crashes, db, pc, cache, runs, readable>>

Drop(f, ids) == [i \in DOMAIN f \ ids |-> f[i]]

(* /lost+found is inode 3; directory 4 holds directory 5 and the file 6,   *)
(* which is also linked in the root.  Two blocks share object 1.           *)
UndamagedTables ==
    [names |-> (1 :> [name |-> 1, refcount |-> 1]) @@ (2 :> [name |-> 2, refcount |-> 1])
               @@ (3 :> [name |-> 3, refcount |-> 3]) @@ (4 :> [name |-> 4, refcount |-> 1]),
     contents |-> (1 :> [name |-> 1, inode |-> 3, parent |-> 1])
                  @@ (2 :> [name |-> 2, inode |-> 4, parent |-> 1])
                  @@ (3 :> [name |-> 3, inode |-> 5, parent |-> 4])
                  @@ (4 :> [name |-> 3, inode |-> 6, parent |-> 5])
                  @@ (5 :> [name |-> 4, inode |-> 6, parent |-> 4]),
     inodes |-> [i \in 1 .. 6 |->
        [mode |-> IF i \in {2, 6} THEN "reg" ELSE "dir",
         refcount |-> IF i = 6 THEN 2 ELSE 1, size |-> IF i = 6 THEN 3 ELSE 0]],
     xattrs |-> 1 :> [inode |-> 6, name |-> 3],
     symlinks |-> {},
     objects |-> [o \in {1, 2} |-> [hash |-> o, refcount |-> IF o = 1 THEN 2 ELSE 1,
                                    uploaded |-> TRUE]],
     blocks |-> (<<6, 0>> :> 1) @@ (<<6, 1>> :> 2) @@ (<<6, 2>> :> 1),
     backend |-> {1, 2},
     cache |-> <<>>, cache_tmp |-> FALSE, obj_tmp |-> FALSE,
     next |-> [inode |-> 7, row |-> 6, obj |-> 4],
     found_errors |-> FALSE, unlinked |-> {}, crashed |-> FALSE, uncorrectable |-> FALSE]

DamagedTables(d, kind) ==
    CASE kind = "lof gone" -> [d EXCEPT !.contents = Drop(@, {1})]
      [] kind = "lof is a file" -> [d EXCEPT !.inodes[3].mode = "reg"]
      [] kind = "lof in itself" -> IF 1 \in DOMAIN d.contents
                                   THEN [d EXCEPT !.contents[1].parent = 3] ELSE d
      [] kind = "lof inode gone" -> [d EXCEPT !.inodes = Drop(@, {3})]
      [] kind = "name gone" -> [d EXCEPT !.names = Drop(@, {3})]
      [] kind = "name count" -> IF 2 \in DOMAIN d.names
                                THEN [d EXCEPT !.names[2].refcount = 5] ELSE d
      [] kind = "name unused" -> [d EXCEPT !.names = (9 :> [name |-> 9, refcount |-> 1]) @@ @]
      [] kind = "inode gone" -> [d EXCEPT !.inodes = Drop(@, {6})]
      [] kind = "dir inode gone" -> [d EXCEPT !.inodes = Drop(@, {4})]
      [] kind = "inode count" -> IF 6 \in DOMAIN d.inodes
                                 THEN [d EXCEPT !.inodes[6].refcount = 7] ELSE d
      [] kind = "orphan" -> [d EXCEPT !.contents = Drop(@, {4, 5})]
      [] kind = "dir orphan" -> [d EXCEPT !.contents = Drop(@, {2})]
      [] kind = "size" -> IF 6 \in DOMAIN d.inodes
                          THEN [d EXCEPT !.inodes[6].size = 1] ELSE d
      [] kind = "no type" -> IF 4 \in DOMAIN d.inodes
                             THEN [d EXCEPT !.inodes[4].mode = "none"] ELSE d
      [] kind = "loop" -> IF 2 \in DOMAIN d.contents
                          THEN [d EXCEPT !.contents[2].parent = 5] ELSE d
      [] kind = "self loop" -> IF 2 \in DOMAIN d.contents
                               THEN [d EXCEPT !.contents[2].parent = 4] ELSE d
      [] kind = "row gone" -> [d EXCEPT !.objects = Drop(@, {1})]
      [] kind = "object gone" -> [d EXCEPT !.backend = @ \ {2}]
      [] kind = "object extra" -> [d EXCEPT !.backend = @ \cup {3}]
      [] kind = "no hash" -> IF 1 \in DOMAIN d.objects
                             THEN [d EXCEPT !.objects[1].hash = Null] ELSE d
      [] kind = "object count" -> IF 1 \in DOMAIN d.objects
                                  THEN [d EXCEPT !.objects[1].refcount = 1] ELSE d
      [] kind = "object unused" -> [d EXCEPT !.blocks = Drop(@, {<<6, 1>>})]
      [] kind = "no phys size" -> [d EXCEPT !.objects[2].uploaded = FALSE]
      [] kind = "xattr lost" -> [d EXCEPT !.xattrs = (2 :> [inode |-> 8, name |-> 2]) @@ @,
                                          !.names[2].refcount = @ + 1]
      [] kind = "symlink lost" -> [d EXCEPT !.symlinks = {8}]
      [] kind = "temp files" -> [d EXCEPT !.cache_tmp = TRUE, !.obj_tmp = TRUE]
      \* Cache files: a clean block, one with new data, two with known data.
      [] kind = "clean cache" -> [d EXCEPT !.cache = (<<6, 0>> :> 1) @@ @]
      [] kind = "dirty cache" -> [d EXCEPT !.cache = (<<6, 1>> :> 7) @@ @]
      [] kind = "new block" -> [d EXCEPT !.cache = (<<6, 3>> :> 7) @@ @]
      [] kind = "same data" -> [d EXCEPT !.cache = (<<6, 2>> :> 2) @@ @]
      \* The mount process died after the row of a new object was inserted,
      \* before the upload ended.
      [] kind = "upload" -> [d EXCEPT !.cache = (<<6, 1>> :> 8) @@ @,
                                      !.blocks = (<<6, 1>> :> 3) @@ @,
                                      !.objects = (3 :> [hash |-> 8, refcount |-> 1,
                                                         uploaded |-> FALSE])
                                                  @@ Drop(@, {2}),
                                      !.backend = @ \ {2}]

(* Any two kinds of damage at once, and single ones with a fsck that is    *)
(* killed up to two times.                                                 *)
RepairKinds ==
    {"lof gone", "lof is a file", "lof in itself", "name gone", "name count",
     "name unused", "dir inode gone", "inode count", "orphan", "size", "no type",
     "row gone", "object extra", "no hash", "object count", "object unused",
     "no phys size", "xattr lost", "symlink lost", "temp files", "clean cache",
     "dirty cache", "new block", "same data"}
KilledKinds ==
    {"lof gone", "lof is a file", "name gone", "dir inode gone", "orphan",
     "dir orphan", "loop", "self loop", "row gone", "object gone", "object unused",
     "no hash", "clean cache", "same data"}
RepairSettings ==
    {[damage |-> {a, b}, MaxKills |-> 0] : a, b \in RepairKinds}
    \cup {[damage |-> {a}, MaxKills |-> 2] : a \in KilledKinds}
    \cup {[damage |-> {}, MaxKills |-> 2]}

(* The mount process was killed during an upload. *)
UploadSettings == {[damage |-> {"upload"}, MaxKills |-> 0]}

(* A program may die anywhere, except where that is known to lose data.    *)
CrashPlaces == {"mount", "download", "rmtree", "save", "dirty", "mounted", "upload",
                "cycle", "uploaded", "unchanged", "fsck", "fsck cache",
                "fsck download", "fsck store", "fsck check"}

(* Hosts that take turns, with crashes; the same with numbers that are     *)
(* reused; and hosts that run together while the user forces fsck to use   *)
(* what is there.                                                          *)
MountSettings ==
    {[NativeRename |-> FALSE, SeqKeep |-> 1, Periodic |-> TRUE, Reuse |-> FALSE,
      Concurrent |-> FALSE, Forced |-> FALSE, CrashAt |-> CrashPlaces,
      MaxSeq |-> 5, MaxChanges |-> 2, MaxCrashes |-> 2],
     [NativeRename |-> FALSE, SeqKeep |-> 1, Periodic |-> TRUE, Reuse |-> TRUE,
      Concurrent |-> FALSE, Forced |-> FALSE, CrashAt |-> CrashPlaces,
      MaxSeq |-> 4, MaxChanges |-> 2, MaxCrashes |-> 1],
     [NativeRename |-> TRUE, SeqKeep |-> 3, Periodic |-> TRUE, Reuse |-> TRUE,
      Concurrent |-> TRUE, Forced |-> TRUE, CrashAt |-> {},
      MaxSeq |-> 3, MaxChanges |-> 1, MaxCrashes |-> 0]}

NoSettings == {}

Symmetry == Permutations(Host)

ASSUME MetadataAssumption ==
    /\ Keep \in Nat
    /\ None \notin [seq_no : Nat, needs_fsck : BOOLEAN]
    /\ None \notin [seq_no : Nat, needs_fsck : BOOLEAN, data : SUBSET Nat]

Mounts == INSTANCE Mount WITH
    Settings <- HostSettings
Check == INSTANCE Fsck WITH
    Undamaged <- UndamagedTables, Damaged <- DamagedTables, Settings <- FsckSettings

\* The variables that a component does not have.
NoMounts == <<db, pc, cache, runs, readable>>
NoCheck == <<seqs, object, params, dbfile, stale, proc, changes, damaged,
             crashes>>

Init ==
    \/ /\ part = "mount" /\ Mounts!Init
       /\ db = None /\ pc = None /\ cache = None /\ runs = None
       /\ readable = None
    \/ /\ part = "fsck" /\ Check!Init
       /\ seqs = None /\ object = None /\ params = None /\ dbfile = None
       /\ stale = None /\ proc = None /\ changes = None /\ damaged = None
       /\ crashes = None

MountsNext == part = "mount" /\ Mounts!Next /\ UNCHANGED <<part, config, NoMounts>>
CheckNext == part = "fsck" /\ Check!Next /\ UNCHANGED <<part, config, NoCheck>>

Next == MountsNext \/ CheckNext

Spec == Init /\ [][Next]_vars

-----------------------------------------------------------------------------
(* The checks repair what they find in an order that works: none ends with *)
(* an exception, because the tables it relies on have been repaired before;*)
(* the file system is intact once a run has ended, killed or not before,   *)
(* with exact counts, every entry below the root, and objects that agree   *)
(* with their rows; and the next run reports nothing (fsck.py:54-100,      *)
(* 1156).                                                                  *)
Repaired ==
    part = "fsck" => /\ Check!NeverCrashes /\ Check!Repaired
                     /\ config.MaxKills = 0 => Check!SecondRunClean

(* What a block contained, in the cache or in the backend, it contains     *)
(* after every step of the repair, killed or not (fsck.py:152-245).        *)
DataKept == part = "fsck" => Check!DataKept

(* A mounted file system has all changes that were ever made, wherever it  *)
(* was mounted before, if programs have died at one of CrashPlaces only    *)
(* (not between saving the next number and storing it, or the other way    *)
(* round), unless the user forces the use of outdated metadata             *)
(* (mount.py:405-463, fsck.py:1025) or a number is reused (mount.py:301);  *)
(* and cache files are used only with the database they belong to          *)
(* (mount.py:457, fsck.py:1101).                                           *)
MountedCurrent ==
    part = "mount" => /\ ~config.Forced /\ ~config.Reuse => Mounts!NothingLost
                      /\ Mounts!CacheMatches

(* The metadata of some host or of the backend is up to date, so the file  *)
(* system can be used or repaired (common.py:553), and no program ends     *)
(* because the metadata object is missing: at every moment of the rotation *)
(* there is one it can use (metadata.py:123).                              *)
MetadataUsable ==
    part = "mount" => /\ Mounts!SomeMetadataCurrent
                      /\ ~config.Forced => Mounts!NeverFails

(* A host that was left behind does not replace newer metadata: the        *)
(* numbers of the metadata object only grow (metadata.py:298).             *)
MetadataNeverOlder == [][part = "mount" /\ ~config.Forced => Mounts!NoOlder]_vars
=============================================================================
