----------------------------- MODULE WorkQueue -----------------------------
(***************************************************************************)
(* The tools that work on every object with several threads: s3ql_verify   *)
(* (verify.py), s3qladm clear (adm.py) and clone_fs (contrib/clone_fs.py). *)
(* The main thread puts the objects into a queue of limited size, then one *)
(* None for every thread, and waits for the threads; a thread that meets   *)
(* an unexpected exception ends.                                           *)
(*                                                                         *)
(* Objects are numbers; their content is a number of buffers.              *)
(***************************************************************************)
EXTENDS Integers, Sequences, SequencesExt, FiniteSets

CONSTANTS
    NThreads,
    Settings   \* the settings: records of what is defined from config below

VARIABLES
    config,  \* the setting, which does not change
    health,     \* of the objects in the backend: "good", "missing", "corrupted" or "short"
    queue, maxsize,
    main,       \* the main thread: "loop", "put", "none", "join", "done", "raised"
    i,          \* the object it is at
    joined,     \* how many None it has put, then how many threads have ended
    thread,     \* the other threads
    missing, corrupted, \* the files with the objects that were reported
    result,     \* the buffers of the copy of an object, 0 if it was deleted, -1 before that
    faults

(* The setting. *)
Tool == config.Tool            \* "verify", "clear" or "clone"
NObjects == config.NObjects
full == config.full            \* the option --data: objects are read completely
offset == config.offset        \* the option --start-with
MaxFaults == config.MaxFaults  \* bound: requests that are repeated, and threads that end with an exception

Thread == 1 .. NThreads
Obj == 1 .. NObjects
None == 0

vars == <<config, health, queue, maxsize, main, i, joined, thread, missing, corrupted, result, faults>>
files == <<missing, corrupted, result>>

(* The buffers that were written for an object, and that there are. *)
exp_size(o) == 1 + (o % 2)
Length(o) == IF health[o] = "short" THEN exp_size(o) - 1 ELSE exp_size(o)

Init ==
    /\ config \in Settings
    /\ health \in [Obj -> IF Tool = "verify" THEN {"good", "missing", "corrupted", "short"} ELSE {"good"}]
    /\ queue = <<>> /\ maxsize = NThreads
    /\ main = "loop" /\ i = 0 /\ joined = 0
    /\ thread = [t \in Thread |-> [at |-> "start", obj |-> None, size |-> 0]]
    /\ missing = <<>> /\ corrupted = <<>> /\ result = [o \in Obj |-> -1]
    /\ faults = 0

Fault == faults < MaxFaults /\ faults' = faults + 1
NoFault == UNCHANGED faults

Dead == {t \in Thread : thread[t].at = "died"}

-----------------------------------------------------------------------------
(* The main thread. *)

Main == UNCHANGED <<health, thread, files, faults>>

Skipped(n) == Tool = "verify" /\ n < offset

(* The next object; once per second the threads are looked at. *)
NextObject ==
    /\ main = "loop" /\ i < NObjects
    /\ i' = i + 1
    /\ \/ Dead # {} /\ main' = "raised"
       \/ main' = IF Skipped(i + 1) THEN "loop" ELSE "put"
    /\ UNCHANGED <<queue, maxsize, joined>> /\ Main

Put ==
    /\ main = "put" /\ Len(queue) < maxsize
    /\ queue' = Append(queue, i) /\ main' = "loop"
    /\ UNCHANGED <<maxsize, i, joined>> /\ Main

(* The queue is full for a second: the threads are looked at. *)
PutTimeout ==
    /\ main = "put" /\ Len(queue) >= maxsize
    /\ Dead # {} /\ main' = "raised"
    /\ UNCHANGED <<queue, maxsize, i, joined>> /\ Main

RaisedSize == maxsize + NThreads

Finish ==
    /\ main = "loop" /\ i = NObjects
    /\ maxsize' = RaisedSize /\ main' = "none"
    /\ UNCHANGED <<queue, i, joined>> /\ Main

PutNone ==
    /\ main = "none"
    /\ IF joined < NThreads
       THEN /\ Len(queue) < maxsize
            /\ queue' = Append(queue, None) /\ joined' = joined + 1 /\ UNCHANGED main
       ELSE main' = "join" /\ joined' = 0 /\ UNCHANGED queue
    /\ UNCHANGED <<maxsize, i>> /\ Main

(* Mutant: the exception of the thread is not raised. *)
JoinOnly(t) == IF t = NThreads THEN "done" ELSE "join"

AfterJoin(t) == IF thread[t].at = "died" THEN "raised" ELSE IF t = NThreads THEN "done" ELSE "join"

(* The threads are joined one after the other. *)
join_and_raise ==
    /\ main = "join" /\ thread[joined + 1].at \in {"ended", "died"}
    /\ joined' = joined + 1 /\ main' = AfterJoin(joined + 1)
    /\ UNCHANGED <<queue, maxsize, i>> /\ Main

-----------------------------------------------------------------------------
(* The other threads. *)

Becomes(t, at, obj, size) == thread' = [thread EXCEPT ![t] = [at |-> at, obj |-> obj, size |-> size]]
Threads == UNCHANGED <<health, maxsize, main, i, joined>>

Get(t) ==
    /\ thread[t].at = "start" /\ queue # <<>>
    /\ queue' = Tail(queue)
    /\ IF Head(queue) = None THEN Becomes(t, "ended", None, thread[t].size)
       ELSE Becomes(t, "work", Head(queue), thread[t].size)
    /\ NoFault /\ Threads /\ UNCHANGED files

(* Any other exception, also while the backend is opened. *)
Dies(t) ==
    /\ thread[t].at \in {"start", "work", "read"} /\ Fault
    /\ Becomes(t, "died", None, 0)
    /\ Threads /\ UNCHANGED <<queue, files>>

Reads == Tool = "clone" \/ (Tool = "verify" /\ full)

(* Mutant: what was read before is kept. *)
Resume(t) == thread[t].size

(* do_read begins with nothing, also when it is called again. *)
Restart(t) == 0

OpenRead(t) ==
    /\ thread[t].at = "work" /\ Reads /\ health[thread[t].obj] # "missing"
    /\ Becomes(t, "read", thread[t].obj, Restart(t))
    /\ NoFault /\ Threads /\ UNCHANGED <<queue, files>>

do_read(t) ==
    /\ thread[t].at = "read" /\ thread[t].size < Length(thread[t].obj)
    /\ Becomes(t, "read", thread[t].obj, thread[t].size + 1)
    /\ NoFault /\ Threads /\ UNCHANGED <<queue, files>>

(* perform_read is repeated. *)
ReadAgain(t) ==
    /\ thread[t].at = "read" /\ Fault
    /\ Becomes(t, "work", thread[t].obj, thread[t].size)
    /\ Threads /\ UNCHANGED <<queue, files>>

Next_(t) == Becomes(t, "start", None, thread[t].size) /\ NoFault /\ Threads /\ UNCHANGED queue

Lost(t) ==
    /\ Tool = "verify" /\ thread[t].at = "work" /\ health[thread[t].obj] = "missing"
    /\ missing' = Append(missing, thread[t].obj)
    /\ UNCHANGED <<corrupted, result>> /\ Next_(t)

(* Damage is found when the metadata is looked up or the data read to its  *)
(* end.  A lookup does not tell the size.                                  *)
Looked(t) == (thread[t].at = "work" /\ ~Reads /\ health[thread[t].obj] # "missing")
             \/ (thread[t].at = "read" /\ thread[t].size >= Length(thread[t].obj))

(* Mutant: the size is compared although nothing was read. *)
AlwaysSize(t) ==
    health[thread[t].obj] = "corrupted" \/ thread[t].size # exp_size(thread[t].obj)

IsCorrupted(t) ==
    health[thread[t].obj] = "corrupted" \/ (full /\ thread[t].size # exp_size(thread[t].obj))

Verified(t) ==
    /\ Tool = "verify" /\ Looked(t)
    /\ corrupted' = IF IsCorrupted(t) THEN Append(corrupted, thread[t].obj) ELSE corrupted
    /\ UNCHANGED <<missing, result>> /\ Next_(t)

(* removal_loop *)
Deleted(t) ==
    /\ Tool = "clear" /\ Looked(t)
    /\ result' = [result EXCEPT ![thread[t].obj] = 0]
    /\ UNCHANGED <<missing, corrupted>> /\ Next_(t)

(* What the temporary file holds is written. *)
do_write(t) ==
    /\ Tool = "clone" /\ Looked(t)
    /\ result' = [result EXCEPT ![thread[t].obj] = thread[t].size]
    /\ UNCHANGED <<missing, corrupted>> /\ Next_(t)

-----------------------------------------------------------------------------
MainStep == NextObject \/ Put \/ PutTimeout \/ Finish \/ PutNone \/ join_and_raise

ThreadStep(t) ==
    \/ Get(t) \/ Dies(t) \/ OpenRead(t) \/ do_read(t) \/ ReadAgain(t)
    \/ Lost(t) \/ Verified(t) \/ Deleted(t) \/ do_write(t)

(* When the main thread has ended the process ends. *)
Running == main \notin {"done", "raised"}

Next == \/ Running /\ MainStep
        \/ \E t \in Thread : Running /\ ThreadStep(t)

(* Every thread gets to run. *)
Spec ==
    /\ Init /\ [][Next /\ UNCHANGED config]_vars
    /\ WF_vars(Running /\ MainStep /\ UNCHANGED config)
    /\ \A t \in Thread : WF_vars(Running /\ ThreadStep(t) /\ UNCHANGED config)

-----------------------------------------------------------------------------
Damaged(o) == health[o] = "corrupted" \/ (full /\ health[o] = "short")

(* The types, and the queue never grows past its size, with which the      *)
(* number of objects in memory is limited (verify.py:115).                 *)
TypeOK ==
    /\ Len(queue) <= maxsize /\ maxsize \in {NThreads, 2 * NThreads}
    /\ i \in 0 .. NObjects /\ joined \in 0 .. NThreads
    /\ \A t \in Thread : thread[t].obj \in Obj <=> thread[t].at \in {"work", "read"}

(* Only objects that are lost or damaged are reported, and once, also when *)
(* a read was repeated after a part of the data had arrived                *)
(* (verify.py:195).                                                        *)
ReportExact ==
    /\ IsInjective(missing) /\ IsInjective(corrupted)
    /\ \A o \in ToSet(missing) : health[o] = "missing"
    /\ \A o \in ToSet(corrupted) : Damaged(o)

(* A tool that ends without an exception has worked on every object:       *)
(* verified and reported it, deleted it, or copied all of it               *)
(* (verify.py:177, "Verified all %d storage objects").                     *)
Completed ==
    main = "done" =>
        \A o \in Obj : o >= offset =>
            /\ health[o] = "missing" => o \in ToSet(missing)
            /\ health[o] # "missing" /\ Damaged(o) => o \in ToSet(corrupted)
            /\ Tool = "clear" => result[o] = 0
            /\ Tool = "clone" => result[o] = exp_size(o)

(* An object that was taken out of the queue by a thread that died is      *)
(* never passed over in silence (common.py:394).                           *)
ErrorsRaised == main = "done" => Dead = {}

(* The objects that are verified are those after the first offset ones     *)
(* ("Skip over first <n> objects", verify.py:75).  This does not hold:     *)
(* offset - 1 objects are skipped (verify.py:152).                         *)
SkipExact == \A t \in Thread : thread[t].obj # None => thread[t].obj > offset
=============================================================================
