------------------------------ MODULE Teardown ------------------------------
(***************************************************************************)
(* The end of the block cache (block_cache.py): destroy flushes, tells the *)
(* worker threads to quit and waits for them, while the removal queue may  *)
(* be full, threads may have died and a task may still be busy.  The       *)
(* sentinels of the removal threads are queued, and the threads joined, in *)
(* the event loop itself: only threads run meanwhile.                      *)
(*                                                                         *)
(* Module BlockCache has the same queues in normal operation.  Here blocks *)
(* are reduced to what destroy makes of them: the entries to upload and    *)
(* the objects whose last reference goes away.                             *)
(***************************************************************************)
EXTENDS Naturals, Sequences, SequencesExt, FiniteSets

CONSTANTS
    Obj,        \* storage objects
    RemovalThread, \* threads for the removal loops (20 in init)
    Uploader,   \* upload threads
    QueueSize,  \* capacity of to_remove (1000 in init)
    Quit,       \* QuitSentinel
    Settings    \* the settings: records of what is defined from config below

VARIABLES
    config,  \* the setting, which does not change
    pc,         \* where destroy is
    signals,    \* sentinels destroy has yet to send in this phase
    todo,       \* per task: objects it has yet to pass to _deref_obj
    waiting,    \* per task: {o} while a thread of its own runs _queue_removal(o)
    raised,     \* tasks that got an exception from the removal queue
    dirty,      \* entries that are not uploaded
    uploader,   \* upload threads: "idle", "busy", "exited", "dead"
    work,       \* the entry an upload thread is uploading
    to_remove,  \* the removal queue
    remover,    \* removal threads: "read", "delete", "last", "exited", "dead"
    ids,        \* what they have taken from the queue
    store,      \* objects in the backend
    failsafe,
    reported    \* 'Could not complete object removals' has been logged

(* The setting. *)
Multi == config.Multi    \* the backend has delete_multi
Entry == config.Entry    \* dirty cache entries
Stored == config.Stored  \* objects the backend has; it has lost the others
Freed == config.Freed    \* "drop", "commit" -> objects whose row they delete
Dying == config.Dying    \* threads that may meet an error they do not handle

\* There is one removal thread if the backend has delete_multi (init).
Remover == IF Multi THEN {CHOOSE r \in RemovalThread : TRUE} ELSE RemovalThread

vars == <<config, pc, signals, todo, waiting, raised, dirty, uploader, work,
          to_remove, remover, ids, store, failsafe, reported>>

Task == {"drop", "commit"}
Room == Len(to_remove) < QueueSize
Alive(state) == state \notin {"exited", "dead"}
UploadersAlive == \E u \in Uploader : Alive(uploader[u])
RemoversAlive == \E r \in Remover : Alive(remover[r])

Init ==
    /\ config \in Settings
    /\ pc = "drop" /\ signals = 0
    /\ todo = Freed /\ waiting = [t \in Task |-> {}] /\ raised = {}
    /\ dirty = Entry
    /\ uploader = [u \in Uploader |-> "idle"] /\ work = [u \in Uploader |-> {}]
    /\ to_remove = <<>>
    /\ remover = [r \in Remover |-> "read"] /\ ids = [r \in Remover |-> <<>>]
    /\ store = Stored
    /\ failsafe = FALSE /\ reported = FALSE

uploads == <<dirty, uploader, work>>
removers == <<remover, ids, store, failsafe>>
tasks == <<todo, waiting, raised>>

-----------------------------------------------------------------------------
(***************************************************************************)
(* _deref_obj and _queue_removal, for drop and for the task that           *)
(* CommitTask.stop has told to end after the entry it is working on.       *)
(***************************************************************************)
\* Up to _deref_obj the commit task waits only for locks that uploads hold,
\* and drop waits for these uploads too.
Running(t) ==
    /\ IF t = "drop" THEN pc = "drop" ELSE pc \in {"drop", "quit_uploaders"}
    /\ waiting[t] = {}

Deref(t, o) ==
    /\ Running(t) /\ o \in todo[t]
    /\ todo' = [todo EXCEPT ![t] = @ \ {o}]
    /\ IF Room THEN to_remove' = Append(to_remove, o) /\ UNCHANGED waiting
               ELSE waiting' = [waiting EXCEPT ![t] = {o}] /\ UNCHANGED to_remove
    /\ UNCHANGED <<pc, signals, raised, uploads, removers, reported>>

\* The thread of _queue_removal finds room, maybe in a queue that destroy
\* has finished with.
QueueRemoval(t, o) ==
    /\ o \in waiting[t] /\ Room
    /\ to_remove' = Append(to_remove, o)
    /\ waiting' = [waiting EXCEPT ![t] = {}]
    /\ UNCHANGED <<pc, signals, todo, raised, uploads, removers, reported>>

\* Five seconds without room and no thread to make some.
NoRemovers(t) ==
    /\ waiting[t] # {} /\ ~Room /\ ~RemoversAlive
    /\ waiting' = [waiting EXCEPT ![t] = {}]
    /\ todo' = [todo EXCEPT ![t] = {}]
    /\ raised' = raised \cup {t}
    /\ UNCHANGED <<pc, signals, uploads, to_remove, removers, reported>>

-----------------------------------------------------------------------------
\* drop hands a dirty entry to an upload thread.
QueueUpload(u, e) ==
    /\ pc = "drop" /\ waiting["drop"] = {} /\ "drop" \notin raised
    /\ uploader[u] = "idle"
    /\ e \in dirty /\ \A v \in Uploader : e \notin work[v]
    /\ uploader' = [uploader EXCEPT ![u] = "busy"]
    /\ work' = [work EXCEPT ![u] = {e}]
    /\ UNCHANGED <<pc, signals, tasks, dirty, to_remove, removers, reported>>

UploadDone(u) ==
    /\ uploader[u] = "busy"
    /\ dirty' = dirty \ work[u]
    /\ uploader' = [uploader EXCEPT ![u] = "idle"]
    /\ work' = [work EXCEPT ![u] = {}]
    /\ UNCHANGED <<pc, signals, tasks, to_remove, removers, reported>>

\* The upload fails: the thread is gone, the entry stays dirty.
UploadDies(u) ==
    /\ u \in Dying /\ uploader[u] = "busy"
    /\ uploader' = [uploader EXCEPT ![u] = "dead"]
    /\ work' = [work EXCEPT ![u] = {}]
    /\ UNCHANGED <<pc, signals, tasks, dirty, to_remove, removers, reported>>

-----------------------------------------------------------------------------
\* A removal thread takes an id from the queue.
TakeId(r) ==
    /\ remover[r] = "read" /\ to_remove # <<>> /\ Head(to_remove) # Quit
    /\ ids' = [ids EXCEPT ![r] = Append(@, Head(to_remove))]
    /\ to_remove' = Tail(to_remove)
    /\ remover' = IF Multi THEN remover ELSE [remover EXCEPT ![r] = "delete"]
    /\ UNCHANGED <<pc, signals, tasks, uploads, store, failsafe, reported>>

\* _removal_loop_multi has emptied the queue.
FlushIds(r) ==
    /\ Multi /\ remover[r] = "read" /\ to_remove = <<>> /\ ids[r] # <<>>
    /\ remover' = [remover EXCEPT ![r] = "delete"]
    /\ UNCHANGED <<pc, signals, tasks, uploads, to_remove, ids, store,
                   failsafe, reported>>

\* A mutant: the sentinel ends the thread before it has deleted its ids.
TakeQuit_Forgets(r) ==
    /\ remover[r] = "read" /\ to_remove # <<>> /\ Head(to_remove) = Quit
    /\ to_remove' = Tail(to_remove)
    /\ remover' = [remover EXCEPT ![r] = "exited"]
    /\ UNCHANGED <<pc, signals, tasks, uploads, ids, store, failsafe, reported>>

TakeQuit(r) ==
    /\ remover[r] = "read" /\ to_remove # <<>> /\ Head(to_remove) = Quit
    /\ to_remove' = Tail(to_remove)
    /\ remover' = [remover EXCEPT ![r] = IF ids[r] = <<>> THEN "exited" ELSE "last"]
    /\ UNCHANGED <<pc, signals, tasks, uploads, ids, store, failsafe, reported>>

\* The ids before the first one the backend does not have.
Processed(s) == {s[m] : m \in {n \in DOMAIN s : \A k \in 1 .. n : s[k] \in store}}

\* delete_multi, or delete of the one id; NoSuchObject ends the call, and
\* what is left of the ids is forgotten.
DeleteIds(r) ==
    /\ remover[r] \in {"delete", "last"}
    /\ store' = store \ Processed(ids[r])
    /\ failsafe' = (failsafe \/ ~(ToSet(ids[r]) \subseteq store))
    /\ ids' = [ids EXCEPT ![r] = <<>>]
    /\ remover' = [remover EXCEPT ![r] = IF @ = "last" THEN "exited" ELSE "read"]
    /\ UNCHANGED <<pc, signals, tasks, uploads, to_remove, reported>>

\* Another error of the backend ends the thread.
RemoverDies(r) ==
    /\ r \in Dying /\ remover[r] \in {"delete", "last"}
    /\ remover' = [remover EXCEPT ![r] = "dead"]
    /\ UNCHANGED <<pc, signals, tasks, uploads, to_remove, ids, store,
                   failsafe, reported>>

-----------------------------------------------------------------------------
(***************************************************************************)
(* destroy.                                                                *)
(***************************************************************************)
destroying == <<tasks, uploads, removers>>

\* A mutant: the uploads that are under way are not waited for.
DropEnds_Early ==
    /\ pc = "drop" /\ waiting["drop"] = {}
    /\ todo["drop"] = {} \/ ~UploadersAlive \/ "drop" \in raised
    /\ pc' = "quit_uploaders" /\ signals' = Cardinality(Uploader)
    /\ UNCHANGED <<destroying, to_remove, reported>>

\* drop has nothing left to do, or was ended by NoWorkerThreads.
DropEnds ==
    /\ pc = "drop" /\ waiting["drop"] = {}
    /\ \/ dirty = {} /\ todo["drop"] = {}
       \/ dirty # {} /\ ~UploadersAlive
       \/ "drop" \in raised
    /\ pc' = "quit_uploaders" /\ signals' = Cardinality(Uploader)
    /\ UNCHANGED <<destroying, to_remove, reported>>

\* One QuitSentinel for each upload thread, until none is alive.
QuitUploader(u) ==
    /\ pc = "quit_uploaders" /\ signals > 0
    /\ uploader[u] = "idle"
    /\ uploader' = [uploader EXCEPT ![u] = "exited"]
    /\ signals' = signals - 1
    /\ UNCHANGED <<pc, tasks, dirty, work, to_remove, removers, reported>>

UploadersSignalled ==
    /\ pc = "quit_uploaders"
    /\ signals = 0 \/ ~UploadersAlive
    /\ pc' = "quit_removers" /\ signals' = Cardinality(Remover)
    /\ UNCHANGED <<destroying, to_remove, reported>>

\* One QuitSentinel for each removal thread.
QuitRemover ==
    /\ pc = "quit_removers" /\ signals > 0 /\ Room
    /\ to_remove' = Append(to_remove, Quit)
    /\ signals' = signals - 1
    /\ UNCHANGED <<pc, destroying, reported>>

\* Five seconds without room in the queue.
PutTimesOut ==
    /\ pc = "quit_removers" /\ signals > 0 /\ ~Room
    /\ pc' = "check_removers"
    /\ UNCHANGED <<signals, destroying, to_remove, reported>>

\* A mutant: nobody looks whether a thread is left that makes room.
CheckRemovers_Patient ==
    /\ pc = "check_removers"
    /\ pc' = "quit_removers" /\ UNCHANGED signals
    /\ UNCHANGED <<destroying, to_remove, reported>>

\* The put is tried again, or NoWorkerThreads ends the signalling.
CheckRemovers ==
    /\ pc = "check_removers"
    /\ IF RemoversAlive THEN pc' = "quit_removers" /\ UNCHANGED signals
                        ELSE pc' = "join_uploaders" /\ signals' = 0
    /\ UNCHANGED <<destroying, to_remove, reported>>

RemoversSignalled ==
    /\ pc = "quit_removers" /\ signals = 0
    /\ pc' = "join_uploaders" /\ UNCHANGED signals
    /\ UNCHANGED <<destroying, to_remove, reported>>

JoinUploaders ==
    /\ pc = "join_uploaders" /\ ~UploadersAlive
    /\ pc' = "join_removers"
    /\ UNCHANGED <<signals, destroying, to_remove, reported>>

\* A mutant: the removal threads are not waited for.
JoinRemovers_Skipped ==
    /\ pc = "join_removers"
    /\ pc' = "drain"
    /\ UNCHANGED <<signals, destroying, to_remove, reported>>

JoinRemovers ==
    /\ pc = "join_removers" /\ ~RemoversAlive
    /\ pc' = "drain"
    /\ UNCHANGED <<signals, destroying, to_remove, reported>>

\* Only sentinels may be left in the queue.
Drain ==
    /\ pc = "drain"
    /\ reported' = \E k \in DOMAIN to_remove : to_remove[k] # Quit
    /\ LET found == {k \in DOMAIN to_remove : to_remove[k] # Quit}
           stop == IF found = {} THEN Len(to_remove)
                   ELSE CHOOSE k \in found : \A m \in found : k <= m
       IN  to_remove' = SubSeq(to_remove, stop + 1, Len(to_remove))
    /\ pc' = "close"
    /\ UNCHANGED <<signals, destroying>>

\* The queues are set to None; rmdir raises an error if entries are left.
Close ==
    /\ pc = "close"
    /\ pc' = "done"
    /\ UNCHANGED <<signals, destroying, to_remove, reported>>

-----------------------------------------------------------------------------
TaskStep(t) ==
    \/ \E o \in Obj : Deref(t, o) \/ QueueRemoval(t, o)
    \/ NoRemovers(t)

UploaderStep(u) ==
    \/ \E e \in Entry : QueueUpload(u, e)
    \/ UploadDone(u) \/ UploadDies(u)

RemoverStep(r) ==
    TakeId(r) \/ FlushIds(r) \/ TakeQuit(r) \/ DeleteIds(r) \/ RemoverDies(r)

Destroy ==
    \/ DropEnds \/ UploadersSignalled \/ QuitRemover \/ RemoversSignalled
    \/ PutTimesOut \/ CheckRemovers
    \/ \E u \in Uploader : QuitUploader(u)
    \/ JoinUploaders \/ JoinRemovers \/ Drain \/ Close

Finished == pc = "done" /\ UNCHANGED vars

Next ==
    \/ \E t \in Task : TaskStep(t)
    \/ \E u \in Uploader : UploaderStep(u)
    \/ \E r \in RemovalThread : r \in Remover /\ RemoverStep(r)
    \/ Destroy
    \/ Finished

Fairness ==
    /\ \A t \in Task : WF_vars(TaskStep(t) /\ UNCHANGED config)
    /\ \A u \in Uploader : WF_vars(UploaderStep(u) /\ UNCHANGED config)
    /\ \A r \in RemovalThread : WF_vars(r \in Remover /\ RemoverStep(r) /\ UNCHANGED config)
    /\ WF_vars(Destroy /\ UNCHANGED config)

Spec == Init /\ [][Next /\ UNCHANGED config]_vars /\ Fairness

-----------------------------------------------------------------------------
\* The queue never exceeds its capacity, and only live threads hold work.
TypeOK ==
    /\ to_remove \in Seq(Obj \cup {Quit}) /\ Len(to_remove) <= QueueSize
    /\ todo \in [Task -> SUBSET Obj] /\ waiting \in [Task -> SUBSET Obj]
    /\ store \subseteq Obj /\ dirty \subseteq Entry
    /\ \A u \in Uploader : /\ uploader[u] \in {"idle", "busy", "exited", "dead"}
                           /\ (work[u] # {}) <=> (uploader[u] = "busy")
    /\ \A r \in Remover : remover[r] \in {"read", "delete", "last", "exited", "dead"}
    /\ signals \in 0 .. Cardinality(Remover) + Cardinality(Uploader)

\* The objects somebody has asked to remove.
Requested == (Freed["drop"] \ todo["drop"]) \cup (Freed["commit"] \ todo["commit"])

(***************************************************************************)
(* When destroy has ended, an object that was to be removed is in the      *)
(* backend only if the thread that held its id died, or if all removal     *)
(* threads died and the failure was reported: a full queue, several        *)
(* threads and the order of ids and sentinels lose nothing.                *)
(***************************************************************************)
LeftoversExplained ==
    pc = "done" =>
        \A o \in Requested \cap store :
            \/ \E r \in Remover : remover[r] = "dead" /\ o \in ToSet(ids[r])
            \/ /\ \A r \in Remover : remover[r] = "dead"
               /\ reported \/ raised # {}

(***************************************************************************)
(* destroy uploads every dirty entry unless all upload threads have died   *)
(* or drop was ended by the removal queue.                                 *)
(***************************************************************************)
DirtyExplained ==
    pc = "done" /\ dirty # {} =>
        \/ \A u \in Uploader : uploader[u] = "dead"
        \/ "drop" \in raised

(***************************************************************************)
(* delete_multi tells its caller which objects it has not processed, so an *)
(* object that the backend has lost keeps no other from being removed.     *)
(* This does not hold: the removal loop forgets the whole batch when       *)
(* delete_multi raises NoSuchObject (block_cache.py:613).                  *)
(***************************************************************************)
LostObjectHarmsNoOther == pc = "done" => Requested \cap store = {}

(***************************************************************************)
(* 'Could not complete object removals, no removal threads left alive' is  *)
(* logged when removal threads have died, not because they were told to    *)
(* quit before the last id arrived.  This does not hold: the CommitTask    *)
(* may still be waiting to queue an id when destroy queues its sentinels   *)
(* (block_cache.py:269).                                                   *)
(***************************************************************************)
ReportMeansDeadThreads == reported => \E r \in Remover : remover[r] = "dead"
=============================================================================
