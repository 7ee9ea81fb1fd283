------------------------------- MODULE Mount -------------------------------
(***************************************************************************)
(* Metadata between mounts: how mount.s3ql, fsck.s3ql and mkfs.s3ql keep   *)
(* the local database, the local parameters, the metadata objects and the  *)
(* sequence number objects of the backend in step (mount.py, fsck.py main, *)
(* metadata.py, get_seq_no).  Every call of the backend and every file     *)
(* that is written is a step of its own, and a process may die before any  *)
(* of them.                                                                *)
(*                                                                         *)
(* A database is the set of changes that have been made to it.  The        *)
(* backend is consistent: what was stored is seen by everybody.            *)
(***************************************************************************)
EXTENDS Integers, FiniteSets, FiniteSetsExt

CONSTANTS
    Host,
    Keep,      \* metadata backups (10)
    None,
    Settings   \* the settings

VARIABLES
    config,  \* the setting, which does not change
    seqs,    \* the s3ql_seq_no_ objects
    object,  \* the metadata objects by number, see ObjectNo, or None
    params,  \* the .params file of every host: [seq_no, needs_fsck], or None
    dbfile,  \* the .db file of every host, or None
    stale,   \* hosts whose cache directory has files of an older database
    proc,    \* the process of every host
    changes, \* the number of changes made so far
    damaged, \* errors were met (failsafe mode) and not checked by fsck since
    crashes

(* The setting. *)
NativeRename == config.NativeRename  \* the backend renames, else it copies
SeqKeep == config.SeqKeep            \* old sequence number objects kept (10)
Periodic == config.Periodic          \* metadata is also uploaded while mounted
Concurrent == config.Concurrent      \* two hosts may run at the same time
Reuse == config.Reuse                \* see Reuses
Forced == config.Forced              \* the user lets fsck use outdated remote metadata
CrashAt == config.CrashAt            \* the places where a process may die
MaxSeq == config.MaxSeq              \* bounds
MaxChanges == config.MaxChanges      \* bounds
MaxCrashes == config.MaxCrashes      \* bounds

vars == <<config, seqs, object, params, dbfile, stale, proc, changes, damaged,
          crashes>>
disk == <<params, dbfile, stale>>
remote == <<seqs, object>>

(* The rotation order: s3ql_metadata_new, s3ql_metadata, s3ql_metadata_bak_i. *)
New == -2
Meta == -1
ObjectNo == -2 .. Keep

NoProc == [pc |-> "off", seq_no |-> 0, param |-> None, local |-> FALSE, changed |-> FALSE, sent |-> FALSE,
           failsafe |-> FALSE, stopped |-> FALSE, fh |-> {}, step |-> 0, then |-> "off"]

(* mkfs.s3ql on one host. *)
Init ==
    /\ config \in Settings
    /\ seqs = {1}
    /\ object = [o \in ObjectNo |->
                    IF o = Meta THEN [seq_no |-> 1, needs_fsck |-> FALSE, data |-> {}] ELSE None]
    /\ \E h \in Host :
          /\ params = [g \in Host |-> IF g = h THEN [seq_no |-> 1, needs_fsck |-> FALSE] ELSE None]
          /\ dbfile = [g \in Host |-> IF g = h THEN {} ELSE None]
    /\ stale = {}
    /\ proc = [h \in Host |-> NoProc]
    /\ changes = 0 /\ damaged = FALSE /\ crashes = 0

Goto(h, pc) == proc' = [proc EXCEPT ![h].pc = pc]
Exit(h) == proc' = [proc EXCEPT ![h] = NoProc]
At(h, pc) == proc[h].pc = pc

(* Mutant: the first number that is listed. *)
FirstListed == Min(seqs)

(* get_seq_no: the highest number; old ones are deleted. *)
get_seq_no == Max(seqs)
Cleaned == {s \in seqs : s >= get_seq_no - SeqKeep}

meta_obj_name == IF object[Meta] # None THEN Meta ELSE New

start(h, program) ==
    /\ At(h, "off")
    /\ Concurrent \/ \A g \in Host : At(g, "off")
    /\ seqs' = Cleaned
    /\ proc' = [proc EXCEPT ![h].pc = program, ![h].seq_no = get_seq_no]
    /\ UNCHANGED <<object, disk, changes, damaged, crashes>>

-----------------------------------------------------------------------------
(* mount.s3ql                                                              *)

(* The parameters and the metadata that are used, or an exit. *)
get_metadata(h) ==
    /\ At(h, "mount")
    /\ LET seq_no == proc[h].seq_no
           outdated == params[h] # None /\ params[h].seq_no < seq_no
           local == params[h] # None /\ ~outdated
           param == IF local THEN params[h]
                    ELSE [seq_no |-> object[meta_obj_name].seq_no,
                          needs_fsck |-> object[meta_obj_name].needs_fsck]
       IN IF object[meta_obj_name] = None /\ ~local THEN Goto(h, "failed")
          ELSE IF param.seq_no < seq_no \/ (local /\ param.seq_no > seq_no) \/ param.needs_fsck
          THEN Exit(h)
          ELSE proc' = [proc EXCEPT ![h].param = param, ![h].local = local,
                           ![h].pc = IF local THEN "save" ELSE "download"]
    /\ UNCHANGED <<remote, disk, changes, damaged, crashes>>

(* The tables are loaded into a temporary file, which is then renamed. *)
restore_metadata(h) == dbfile' = [dbfile EXCEPT ![h] = object[Meta].data]

(* It reads s3ql_metadata, whatever meta_obj_name is. *)
download_metadata(h, then) ==
    IF object[Meta] = None THEN Goto(h, "failed") /\ UNCHANGED dbfile
    ELSE Goto(h, then) /\ restore_metadata(h)

get_metadata_download(h) ==
    /\ At(h, "download")
    /\ download_metadata(h, "rmtree")
    /\ stale' = stale \cup {h}
    /\ UNCHANGED <<remote, params, changes, damaged, crashes>>

(* Mutant: the old cache directory is kept. *)
KeepCache(h) ==
    /\ At(h, "rmtree")
    /\ Goto(h, "save")
    /\ UNCHANGED <<remote, disk, changes, damaged, crashes>>

get_metadata_rmtree(h) ==
    /\ At(h, "rmtree")
    /\ stale' = stale \ {h}
    /\ Goto(h, "save")
    /\ UNCHANGED <<remote, params, dbfile, changes, damaged, crashes>>

save_params(h, param) == params' = [params EXCEPT ![h] = param]

get_metadata_save(h) ==
    /\ At(h, "save")
    /\ save_params(h, proc[h].param)
    /\ Goto(h, "dirty")
    /\ UNCHANGED <<remote, dbfile, stale, changes, damaged, crashes>>

(* Mutant: the local parameters are left alone. *)
MarkLater(h) ==
    /\ proc' = [proc EXCEPT ![h].pc = "mark", ![h].param =
                   [seq_no |-> proc[h].param.seq_no + 1, needs_fsck |-> TRUE]]
    /\ UNCHANGED params

mark_metadata_dirty(h) ==
    LET param == [seq_no |-> proc[h].param.seq_no + 1, needs_fsck |-> TRUE]
    IN /\ proc' = [proc EXCEPT ![h].pc = "mark", ![h].param = param]
       /\ save_params(h, param)

mark_metadata_save(h) ==
    /\ At(h, "dirty") /\ proc[h].param.seq_no < MaxSeq
    /\ mark_metadata_dirty(h)
    /\ UNCHANGED <<remote, dbfile, stale, changes, damaged, crashes>>

mark_metadata_store(h) ==
    /\ At(h, "mark")
    /\ seqs' = seqs \cup {proc[h].param.seq_no}
    /\ proc' = [proc EXCEPT ![h].pc = "mounted", ![h].param.needs_fsck = FALSE,
                            ![h].changed = FALSE, ![h].sent = FALSE, ![h].failsafe = FALSE]
    /\ UNCHANGED <<object, disk, changes, damaged, crashes>>

(* Requests are served also while a thread of the task uploads. *)
Serving(h) == At(h, "mounted") \/ (proc[h].then = "mounted" /\ ~At(h, "off"))

change(h) ==
    /\ Serving(h) /\ changes < MaxChanges /\ ~proc[h].failsafe
    /\ changes' = changes + 1
    /\ dbfile' = [dbfile EXCEPT ![h] = @ \cup {changes'}]
    /\ proc' = [proc EXCEPT ![h].changed = TRUE]
    /\ UNCHANGED <<remote, params, stale, damaged, crashes>>

(* An object is missing or corrupted: failsafe mode. *)
fail(h) ==
    /\ Serving(h) /\ ~proc[h].failsafe
    /\ proc' = [proc EXCEPT ![h].failsafe = TRUE]
    /\ damaged' = TRUE
    /\ UNCHANGED <<remote, disk, changes, crashes>>

-----------------------------------------------------------------------------
(* Uploading metadata: upload_metadata and cycle_metadata.                 *)

Newer(h) == get_seq_no > proc[h].param.seq_no

(* MetadataUploadTask.run: dump, and upload with the previous number. *)
upload_task(h) ==
    /\ Periodic /\ At(h, "mounted") /\ proc[h].changed /\ ~proc[h].stopped
    /\ seqs' = Cleaned
    /\ IF Newer(h)
       THEN proc' = [proc EXCEPT ![h].failsafe = TRUE, ![h].stopped = TRUE]
       ELSE proc' = [proc EXCEPT ![h].pc = "upload", ![h].then = "mounted",
                        ![h].fh = dbfile[h], ![h].param.seq_no = @ - 1,
                        ![h].changed = FALSE, ![h].sent = TRUE, ![h].step = Keep - 1]
    /\ UNCHANGED <<object, disk, changes, damaged, crashes>>

upload_metadata(h) ==
    /\ At(h, "upload")
    /\ object' = [object EXCEPT ![New] =
          [seq_no |-> proc[h].param.seq_no, needs_fsck |-> proc[h].param.needs_fsck,
           data |-> proc[h].fh]]
    /\ Goto(h, "cycle")
    /\ UNCHANGED <<seqs, disk, changes, damaged, crashes>>

(* Mutant: the objects are moved also where the code copies them. *)
Moved(from, to) ==
    object' = [object EXCEPT ![to] = object[from], ![from] = None]

(* backend.rename or backend.copy; NoSuchObject, which leaves everything   *)
(* as it is, is caught by all callers but the last.                        *)
cycle_fn(from, to) ==
    object' = IF object[from] = None THEN object
              ELSE IF NativeRename THEN [object EXCEPT ![to] = object[from], ![from] = None]
              ELSE [object EXCEPT ![to] = object[from]]

(* bak_i to bak_i+1 for i = Keep - 1 .. 0, metadata to bak_0, new to        *)
(* metadata, and the removal of new if it was copied.                      *)
cycle_metadata(h) ==
    LET i == proc[h].step
    IN /\ At(h, "cycle") /\ (i <= New => object[New] # None)
       /\ IF i >= New THEN cycle_fn(i, i + 1) ELSE object' = [object EXCEPT ![New] = None]
       /\ proc' = [proc EXCEPT ![h].step = i - 1,
                      ![h].pc = IF i = (IF NativeRename THEN New ELSE New - 1) THEN "uploaded" ELSE "cycle"]
       /\ UNCHANGED <<seqs, disk, changes, damaged, crashes>>

(* Another host has taken the new object away: the exception ends the      *)
(* program before it saves anything.                                       *)
cycle_missing(h) ==
    /\ At(h, "cycle") /\ proc[h].step <= New /\ object[New] = None
    /\ Exit(h)
    /\ UNCHANGED <<remote, disk, changes, damaged, crashes>>

(* The task restores the number; unmounting and fsck save the parameters. *)
uploaded(h) ==
    /\ proc[h].pc \in {"uploaded", "released"}
    /\ IF proc[h].then = "mounted"
       THEN /\ proc' = [proc EXCEPT ![h].pc = "mounted", ![h].then = "off",
                               ![h].param.seq_no = @ + 1]
            /\ UNCHANGED <<params, damaged>>
       ELSE /\ Exit(h)
            /\ save_params(h, proc[h].param)
            /\ damaged' = (damaged /\ proc[h].then # "fsck")
    /\ UNCHANGED <<remote, dbfile, stale, changes, crashes>>

(* Nothing has changed since the task has uploaded the metadata with the   *)
(* previous number, which the local metadata of another host has as well,  *)
(* without the changes that have been uploaded.  Unmounting now gives two  *)
(* databases the same number, so whether it happens is a setting.          *)
Reuses(h) ==
    /\ ~proc[h].changed /\ proc[h].sent
    /\ \E g \in Host \ {h} : params[g] # None /\ params[g].seq_no = proc[h].param.seq_no - 1

(* Unmounting, once all tasks have ended. *)
unmount(h) ==
    /\ At(h, "mounted") /\ (Reuses(h) => Reuse)
    /\ seqs' = Cleaned
    /\ proc' = [proc EXCEPT ![h].seq_no = get_seq_no,
                   ![h].param.needs_fsck = proc[h].failsafe,
                   ![h].fh = dbfile[h], ![h].step = Keep - 1, ![h].then = "off",
                   ![h].pc = IF ~proc[h].changed THEN "unchanged"
                             ELSE IF get_seq_no = proc[h].param.seq_no THEN "upload"
                             ELSE "refuse"]
    /\ UNCHANGED <<object, disk, changes, damaged, crashes>>

(* Mutant: the number is decreased also if the object is gone. *)
ReleasedTwice(h) ==
    /\ At(h, "unchanged")
    /\ seqs' = seqs \ {proc[h].param.seq_no}
    /\ proc' = [proc EXCEPT ![h].pc = "released", ![h].param.seq_no = @ - 2]
    /\ UNCHANGED <<object, disk, changes, damaged, crashes>>

unmount_unchanged(h) ==
    /\ At(h, "unchanged")
    /\ seqs' = seqs \ {proc[h].param.seq_no}
    /\ proc' = [proc EXCEPT ![h].pc = "released", ![h].param.seq_no = @ - 1]
    /\ UNCHANGED <<object, disk, changes, damaged, crashes>>

(* The local files are renamed. *)
unmount_refuse(h) ==
    /\ At(h, "refuse")
    /\ params' = [params EXCEPT ![h] = None]
    /\ dbfile' = [dbfile EXCEPT ![h] = None]
    /\ Exit(h)
    /\ UNCHANGED <<remote, stale, changes, damaged, crashes>>

-----------------------------------------------------------------------------
(* fsck.s3ql                                                               *)

fsck(h) ==
    /\ At(h, "fsck")
    /\ LET seq_no == proc[h].seq_no
           local == params[h] # None /\ params[h].seq_no >= seq_no
           base == IF local THEN params[h]
                   ELSE [seq_no |-> object[meta_obj_name].seq_no,
                         needs_fsck |-> object[meta_obj_name].needs_fsck]
           unclean == \/ base.seq_no # seq_no
                      \/ params[h] # None /\ object[meta_obj_name] # None
                         /\ object[meta_obj_name].seq_no # base.seq_no
           param == [seq_no |-> Max({base.seq_no, seq_no}),
                     needs_fsck |-> base.needs_fsck \/ unclean]
       IN IF object[meta_obj_name] = None THEN Goto(h, "failed")
          ELSE IF base.seq_no < seq_no /\ ~Forced THEN Exit(h)
          ELSE \* with --force, or because the file system is marked
               \/ proc' = [proc EXCEPT ![h].param = param, ![h].local = local,
                              ![h].pc = IF local THEN "fsck store" ELSE "fsck cache"]
               \/ ~param.needs_fsck /\ Exit(h)
    /\ UNCHANGED <<remote, disk, changes, damaged, crashes>>

(* The cache directory of outdated metadata is removed or renamed. *)
fsck_cache(h) ==
    /\ At(h, "fsck cache")
    /\ stale' = stale \ {h}
    /\ Goto(h, "fsck download")
    /\ UNCHANGED <<remote, params, dbfile, changes, damaged, crashes>>

fsck_download(h) ==
    /\ At(h, "fsck download")
    /\ download_metadata(h, "fsck store")
    /\ UNCHANGED <<remote, params, stale, changes, damaged, crashes>>

(* The new number is stored in the backend first. *)
fsck_store(h) ==
    /\ At(h, "fsck store") /\ proc[h].param.seq_no < MaxSeq
    /\ seqs' = seqs \cup {proc[h].param.seq_no + 1}
    /\ proc' = [proc EXCEPT ![h].pc = "fsck save", ![h].param.seq_no = @ + 1,
                            ![h].param.needs_fsck = TRUE]
    /\ UNCHANGED <<object, disk, changes, damaged, crashes>>

fsck_save(h) ==
    /\ At(h, "fsck save")
    /\ save_params(h, proc[h].param)
    /\ Goto(h, "fsck check")
    /\ UNCHANGED <<remote, dbfile, stale, changes, damaged, crashes>>

fsck_check(h) ==
    /\ At(h, "fsck check")
    /\ \/ proc' = [proc EXCEPT ![h].pc = "upload", ![h].then = "fsck", ![h].fh = dbfile[h],
                               ![h].param.needs_fsck = FALSE, ![h].step = Keep - 1]
       \/ Exit(h) \* uncorrectable errors
    /\ UNCHANGED <<remote, disk, changes, damaged, crashes>>

-----------------------------------------------------------------------------
(* A process dies; what it has written stays, also its cache files. *)
crash(h) ==
    /\ proc[h].pc \in CrashAt /\ crashes < MaxCrashes
    /\ Exit(h)
    /\ crashes' = crashes + 1
    /\ UNCHANGED <<remote, disk, changes, damaged>>

HostStep(h) ==
    \/ start(h, "mount") \/ start(h, "fsck")
    \/ get_metadata(h) \/ get_metadata_download(h) \/ get_metadata_rmtree(h)
    \/ get_metadata_save(h) \/ mark_metadata_save(h) \/ mark_metadata_store(h)
    \/ change(h) \/ fail(h) \/ upload_task(h) \/ upload_metadata(h)
    \/ cycle_metadata(h) \/ cycle_missing(h) \/ uploaded(h)
    \/ unmount(h) \/ unmount_unchanged(h) \/ unmount_refuse(h)
    \/ fsck(h) \/ fsck_cache(h) \/ fsck_download(h) \/ fsck_store(h) \/ fsck_save(h)
    \/ fsck_check(h)
    \/ crash(h)

Next == \E h \in Host : HostStep(h)

Spec == Init /\ [][Next /\ UNCHANGED config]_vars

-----------------------------------------------------------------------------
TypeOK ==
    /\ seqs \subseteq 1 .. MaxSeq
    /\ object \in [ObjectNo ->
          [seq_no : 1 .. MaxSeq, needs_fsck : BOOLEAN, data : SUBSET (1 .. MaxChanges)] \cup {None}]
    /\ params \in [Host -> [seq_no : 1 .. MaxSeq, needs_fsck : BOOLEAN] \cup {None}]
    /\ dbfile \in [Host -> SUBSET (1 .. MaxChanges) \cup {None}]

(* A mounted file system has all changes that were ever made, wherever it  *)
(* was mounted before, if programs have died at CrashAt only and no number *)
(* was reused.  It does not hold with Reuse (mount.py:301).                *)
NothingLost == \A h \in Host : At(h, "mounted") => dbfile[h] = 1 .. changes

(* No program ends because the metadata it needs is not there: at every    *)
(* moment of the rotation there is an object it can use (metadata.py:123). *)
NeverFails == \A h \in Host : ~At(h, "failed")

(* The local metadata of some host or the remote metadata is up to date,   *)
(* so the file system can be used or repaired (common.py:553).             *)
SomeMetadataCurrent ==
    (\A h \in Host : At(h, "off")) =>
        \/ \E h \in Host : params[h] # None /\ params[h].seq_no >= get_seq_no
        \/ object[Meta] # None /\ object[Meta].seq_no = get_seq_no

(* After errors have been met the file system is not mounted again before  *)
(* fsck has been run (mount.py:297).  This does not hold: if the database  *)
(* is unchanged only the local parameters are marked (mount.py:301).       *)
MountsChecked ==
    \A h \in Host : ~At(h, "mounted") /\ At(h, "mounted")' /\ proc[h].pc = "mark" => ~damaged
DamageChecked == [][MountsChecked]_vars

(* A host that was left behind does not replace newer metadata: the        *)
(* numbers of the metadata object only grow.                               *)
NoOlder == object[Meta] # None /\ object'[Meta] # None
           => object'[Meta].seq_no >= object[Meta].seq_no
MetadataNeverOlder == [][NoOlder]_vars

(* Cache files are used only with the database they belong to. *)
CacheMatches == \A h \in Host : proc[h].pc \in {"mounted", "fsck check"} => h \notin stale
=============================================================================
