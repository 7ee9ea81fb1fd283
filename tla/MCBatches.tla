------------------------------ MODULE MCBatches -----------------------------
(***************************************************************************)
(* What works through a list of objects: delete_multi, list, the tools     *)
(* that keep several threads busy, and the end of the block cache, for     *)
(* TLC.  A behaviour is one of one component in one setting; the variables *)
(* of the others keep a fixed value.                                       *)
(***************************************************************************)
EXTENDS Integers, Sequences, FiniteSets

CONSTANTS
    BulkKeys, BulkBatch,     \* keys, and how many of them one request deletes
    PageSize,                \* keys that one request lists
    ToolThreads,             \* threads of the tools
    Objects, RemovalThreads, UploadThreads, QueueCapacity, Quit,
    NoValue,
    k3, o1, o2, o3, e1, e2, r1, r2, u1, u2,  \* names for the settings below
    BulkSettings, ListSettings, ToolSettings, EndSettings,  \* the settings of the run
    BulkFaults, ListFaults, ListChanges  \* bounds

VARIABLES
    part,  \* the component that runs
    config, server, given, keys, tmp, force, pc, result, faults, at,
    page_token, els, listed, always, ever, changes, health, queue, maxsize,
    main, i, joined, thread, missing, corrupted, signals, todo, waiting,
    raised, dirty, uploader, work, to_remove, remover, ids, store, failsafe,
    reported

vars == <<part, config, server, given, keys, tmp, force, pc, result,
         faults, at, page_token, els, listed, always, ever, changes,
         health, queue, maxsize, main, i, joined, thread, missing,
         corrupted, signals, todo, waiting, raised, dirty, uploader, work,
         to_remove, remover, ids, store, failsafe, reported>>

(* One of three keys cannot be deleted, except with S3.  Swift may say that *)
(* a request has failed without a list of the keys it is about.            *)
BulkCases ==
    {[Backend |-> "s3", Refused |-> {}, EmptyErrors |-> FALSE],
     [Backend |-> "local", Refused |-> {k3}, EmptyErrors |-> FALSE],
     [Backend |-> "swift", Refused |-> {k3}, EmptyErrors |-> FALSE],
     [Backend |-> "swift", Refused |-> {k3}, EmptyErrors |-> TRUE]}

(* Up to three pages of two keys; with Swift there is a temporary object. *)
ListCases ==
    {[Backend |-> b, NKeys |-> 5, Temp |-> {}] : b \in {"s3c", "gs", "b2"}}
    \cup {[Backend |-> "swift", NKeys |-> 6, Temp |-> {3}]}

(* s3ql_verify with and without --data, s3qladm clear, clone_fs. *)
ToolCases ==
    {[Tool |-> "verify", NObjects |-> 3, full |-> TRUE, offset |-> 0, MaxFaults |-> 1],
     [Tool |-> "verify", NObjects |-> 3, full |-> FALSE, offset |-> 2, MaxFaults |-> 1],
     [Tool |-> "clear", NObjects |-> 5, full |-> FALSE, offset |-> 0, MaxFaults |-> 2],
     [Tool |-> "clone", NObjects |-> 3, full |-> FALSE, offset |-> 0, MaxFaults |-> 2]}

(* destroy removes all objects alone, and any thread may die; or the       *)
(* commit task still removes one while destroy runs, and an object is lost. *)
Alone == [t \in {"drop", "commit"} |-> IF t = "drop" THEN {o1, o2, o3} ELSE {}]
Both == [t \in {"drop", "commit"} |-> IF t = "drop" THEN {o1, o2} ELSE {o3}]
EndCases ==
    {[Multi |-> multi, Entry |-> {e1, e2}, Stored |-> {o1, o2, o3}, Freed |-> Alone,
      Dying |-> {r1, r2, u1, u2}] : multi \in BOOLEAN}
    \cup {[Multi |-> TRUE, Entry |-> {e1}, Stored |-> {o1, o3}, Freed |-> Both,
           Dying |-> {r1, r2, u1, u2}]}

Bulk == INSTANCE BulkDelete WITH
    Key <- BulkKeys, MaxKeys <- BulkBatch, MaxFaults <- BulkFaults, Settings <- BulkSettings
List == INSTANCE Listing WITH
    Batch <- PageSize, NoContent <- FALSE, MaxFaults <- ListFaults, MaxChanges <- ListChanges,
    Settings <- ListSettings
Tool == INSTANCE WorkQueue WITH
    NThreads <- ToolThreads, Settings <- ToolSettings
End == INSTANCE Teardown WITH
    Obj <- Objects, RemovalThread <- RemovalThreads, Uploader <- UploadThreads,
    QueueSize <- QueueCapacity,
    Settings <- EndSettings

(* A page of Swift is not full of temporary objects.                       *)
ASSUME BatchesAssumption ==
    /\ BulkBatch \in Nat \ {0} /\ PageSize \in Nat \ {0} /\ ToolThreads \in Nat \ {0}
    /\ IsFiniteSet(BulkKeys)
    /\ \A c \in BulkSettings : c.Backend \in {"s3", "swift", "local"}
    /\ \A c \in ListSettings :
          /\ c.Backend \in {"s3c", "gs", "swift", "b2"} /\ c.NKeys \in Nat
          /\ c.Backend = "swift" => c.Temp \subseteq 1 .. c.NKeys /\ Cardinality(c.Temp) < PageSize
    /\ \A c \in ToolSettings :
          /\ c.Tool \in {"verify", "clear", "clone"} /\ c.NObjects \in Nat
          /\ c.full \in BOOLEAN /\ c.offset \in Int
    /\ RemovalThreads # {} /\ QueueCapacity \in Nat \ {0} /\ Quit \notin Objects
    /\ \A c \in EndSettings :
          /\ c.Multi \in BOOLEAN /\ c.Stored \subseteq Objects
          /\ c.Freed \in [{"drop", "commit"} -> SUBSET Objects]

\* The variables that a component does not have.
NoBulk == <<at, page_token, els, listed, always, ever, changes, health,
            queue, maxsize, main, i, joined, thread, missing, corrupted,
            signals, todo, waiting, raised, dirty, uploader, work,
            to_remove, remover, ids, store, failsafe, reported>>
NoList == <<server, given, tmp, force, pc, result, health, queue, maxsize,
            main, i, joined, thread, missing, corrupted, signals, todo,
            waiting, raised, dirty, uploader, work, to_remove, remover,
            ids, store, failsafe, reported>>
NoTool == <<server, given, keys, tmp, force, pc, at, page_token, els,
            listed, always, ever, changes, signals, todo, waiting, raised,
            dirty, uploader, work, to_remove, remover, ids, store,
            failsafe, reported>>
NoEnd == <<server, given, keys, tmp, force, result, faults, at, page_token,
           els, listed, always, ever, changes, health, queue, maxsize,
           main, i, joined, thread, missing, corrupted>>

Init ==
    \/ /\ part = "bulk" /\ Bulk!Init
       /\ at = NoValue /\ page_token = NoValue /\ els = NoValue
       /\ listed = NoValue /\ always = NoValue /\ ever = NoValue
       /\ changes = NoValue /\ health = NoValue /\ queue = NoValue
       /\ maxsize = NoValue /\ main = NoValue /\ i = NoValue
       /\ joined = NoValue /\ thread = NoValue /\ missing = NoValue
       /\ corrupted = NoValue /\ signals = NoValue /\ todo = NoValue
       /\ waiting = NoValue /\ raised = NoValue /\ dirty = NoValue
       /\ uploader = NoValue /\ work = NoValue /\ to_remove = NoValue
       /\ remover = NoValue /\ ids = NoValue /\ store = NoValue
       /\ failsafe = NoValue /\ reported = NoValue
    \/ /\ part = "list" /\ List!Init
       /\ server = NoValue /\ given = NoValue /\ tmp = NoValue
       /\ force = NoValue /\ pc = NoValue /\ result = NoValue
       /\ health = NoValue /\ queue = NoValue /\ maxsize = NoValue
       /\ main = NoValue /\ i = NoValue /\ joined = NoValue
       /\ thread = NoValue /\ missing = NoValue /\ corrupted = NoValue
       /\ signals = NoValue /\ todo = NoValue /\ waiting = NoValue
       /\ raised = NoValue /\ dirty = NoValue /\ uploader = NoValue
       /\ work = NoValue /\ to_remove = NoValue /\ remover = NoValue
       /\ ids = NoValue /\ store = NoValue /\ failsafe = NoValue
       /\ reported = NoValue
    \/ /\ part = "tool" /\ Tool!Init
       /\ server = NoValue /\ given = NoValue /\ keys = NoValue
       /\ tmp = NoValue /\ force = NoValue /\ pc = NoValue /\ at = NoValue
       /\ page_token = NoValue /\ els = NoValue /\ listed = NoValue
       /\ always = NoValue /\ ever = NoValue /\ changes = NoValue
       /\ signals = NoValue /\ todo = NoValue /\ waiting = NoValue
       /\ raised = NoValue /\ dirty = NoValue /\ uploader = NoValue
       /\ work = NoValue /\ to_remove = NoValue /\ remover = NoValue
       /\ ids = NoValue /\ store = NoValue /\ failsafe = NoValue
       /\ reported = NoValue
    \/ /\ part = "destroy" /\ End!Init
       /\ server = NoValue /\ given = NoValue /\ keys = NoValue
       /\ tmp = NoValue /\ force = NoValue /\ result = NoValue
       /\ faults = NoValue /\ at = NoValue /\ page_token = NoValue
       /\ els = NoValue /\ listed = NoValue /\ always = NoValue
       /\ ever = NoValue /\ changes = NoValue /\ health = NoValue
       /\ queue = NoValue /\ maxsize = NoValue /\ main = NoValue
       /\ i = NoValue /\ joined = NoValue /\ thread = NoValue
       /\ missing = NoValue /\ corrupted = NoValue

BulkNext == part = "bulk" /\ Bulk!Next /\ UNCHANGED <<part, config, NoBulk>>
ListNext == part = "list" /\ List!Next /\ UNCHANGED <<part, config, NoList>>
ToolNext == part = "tool" /\ Tool!Next /\ UNCHANGED <<part, config, NoTool>>
EndNext == part = "destroy" /\ End!Next /\ UNCHANGED <<part, config, NoEnd>>

\* What has ended stays so.
Rest ==
    /\ \/ part = "bulk" /\ pc = "done"
       \/ part = "list" /\ at \in {"done", "TypeError"}
       \/ part = "tool" /\ ~Tool!Running
    /\ UNCHANGED vars

Next == BulkNext \/ ListNext \/ ToolNext \/ EndNext \/ Rest

(* The event loop resumes every task, and the operating system runs every  *)
(* thread.                                                                 *)
Progress ==
    \/ BulkNext
    \/ part = "list" /\ List!ListStep /\ UNCHANGED <<part, config, NoList>>
    \/ part = "tool" /\ Tool!Running /\ Tool!MainStep /\ UNCHANGED <<part, config, NoTool>>
    \/ part = "destroy" /\ End!Destroy /\ UNCHANGED <<part, config, NoEnd>>
ToolThread(t) ==
    part = "tool" /\ Tool!Running /\ Tool!ThreadStep(t) /\ UNCHANGED <<part, config, NoTool>>
EndTask(t) == part = "destroy" /\ End!TaskStep(t) /\ UNCHANGED <<part, config, NoEnd>>
EndUploader(u) == part = "destroy" /\ End!UploaderStep(u) /\ UNCHANGED <<part, config, NoEnd>>
EndRemover(r) ==
    /\ part = "destroy" /\ r \in End!Remover /\ End!RemoverStep(r)
    /\ UNCHANGED <<part, config, NoEnd>>

Spec ==
    /\ Init /\ [][Next]_vars
    /\ WF_vars(Progress)
    /\ \A t \in 1 .. ToolThreads : WF_vars(ToolThread(t))
    /\ \A t \in {"drop", "commit"} : WF_vars(EndTask(t))
    /\ \A u \in UploadThreads : WF_vars(EndUploader(u))
    /\ \A r \in RemovalThreads : WF_vars(EndRemover(r))

-----------------------------------------------------------------------------
(* delete_multi: a key that still exists is still in the list of the       *)
(* caller or in the batch that is being sent, whatever has failed in       *)
(* between, and none is left if it returns without an error (common.py:395,*)
(* s3.py:163, swift.py:515, local.py).  Swift forgets keys if a failure    *)
(* comes without a list of keys.                                           *)
BulkExact ==
    part = "bulk" => /\ Bulk!DoneMeansDeleted
                     /\ ~config.EmptyErrors => Bulk!NothingForgotten

(* list returns every key that exists all the time, and none twice,        *)
(* although pages are requested again and keys are stored and deleted      *)
(* between two pages (s3c.py:277, swift.py:720, gs.py, b2_backend.py).     *)
ListExact == part = "list" => List!ListedOnce /\ List!Complete

(* A tool that ends without an error has processed every object; verify    *)
(* reports every damaged or missing one, once, and nothing else, and fails *)
(* if one of its threads does (verify.py:163-195, adm.py clear).           *)
ToolExact ==
    part = "tool" => /\ Tool!Completed /\ Tool!ReportExact
                     /\ config.Tool = "verify" => Tool!ErrorsRaised

(* When destroy returns, an object that should have been removed is left   *)
(* only if a thread died, which was reported, and an entry is dirty only   *)
(* if all upload threads died or the removal queue failed during drop      *)
(* (block_cache.py:254-291).  The first is so if the commit task removes   *)
(* nothing and no object is lost.                                          *)
DestroyExact ==
    part = "destroy" =>
        /\ config.Freed["commit"] = {} /\ config.Freed["drop"] \subseteq config.Stored =>
              End!LeftoversExplained
        /\ End!DirtyExplained

\* The operation has come to its end.
Ended ==
    /\ part = "bulk" => pc = "done"
    /\ part = "list" => at \in {"done", "TypeError"}
    /\ part = "tool" => ~Tool!Running
    /\ part = "destroy" => pc = "done"

(* All of this ends: no list is sent for ever, no page requested for ever, *)
(* and neither the main thread of a tool nor destroy waits for threads     *)
(* that wait for each other, or are dead (s3.py:163, verify.py:155,        *)
(* block_cache.py:269).                                                    *)
EverythingEnds == <>Ended
=============================================================================
