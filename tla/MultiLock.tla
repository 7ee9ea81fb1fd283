----------------------------- MODULE MultiLock ------------------------------
(***************************************************************************)
(* MultiLock (src/src/s3ql/multi_lock.py): a lock per key, built from one  *)
(* set and one trio.Condition.  The condition is modelled from trio's      *)
(* documented behaviour: its lock is handed over in the order of the       *)
(* requests, wait() gives the lock up and queues the task, notify_all()    *)
(* moves the waiting tasks behind those already queued for the lock.       *)
(*                                                                         *)
(* A task that gets the condition's lock is resumed later, in a step of    *)
(* its own, and then runs to the end of the `async with' block or to       *)
(* wait().  Everything in between is one step.                             *)
(***************************************************************************)
EXTENDS Naturals, Sequences

CONSTANTS Task, Key, None

ASSUME MultiLockAssumption == None \notin Task \cup Key

VARIABLES
    locked_keys,
    owner,      \* the task that holds the condition's lock, or None
    lockq,      \* tasks queued for the condition's lock
    waitq,      \* tasks in cond.wait()
    call,       \* what a task is executing: "none", "acquire" or "release"
    key,        \* the key it is called with
    granted,    \* keys whose acquire has returned and whose release has not
                \* been called yet (the caller's obligation to release)
    first       \* auxiliary: the task that asked for a free key nobody else
                \* was asking for, until the key is taken

lockvars == <<locked_keys, owner, lockq, waitq, call, key, granted, first>>

LockTypeOK ==
    /\ locked_keys \subseteq Key
    /\ owner \in Task \cup {None}
    /\ lockq \in Seq(Task) /\ waitq \in Seq(Task)
    /\ call \in [Task -> {"none", "acquire", "release"}]
    /\ key \in [Task -> Key \cup {None}]
    /\ granted \subseteq Key
    /\ first \in [Key -> Task \cup {None}]

LockInit ==
    /\ locked_keys = {}
    /\ owner = None
    /\ lockq = <<>> /\ waitq = <<>>
    /\ call = [t \in Task |-> "none"]
    /\ key = [t \in Task |-> None]
    /\ granted = {}
    /\ first = [k \in Key |-> None]

-----------------------------------------------------------------------------
(* The trio.Condition.                                                     *)

\* Entering `async with cond'.
RequestLock(t) ==
    IF owner = None THEN owner' = t /\ UNCHANGED lockq
                    ELSE lockq' = Append(lockq, t) /\ UNCHANGED owner

\* The owner gives the lock to the head of queue q.
HandOver(q) ==
    IF q = <<>> THEN owner' = None /\ lockq' = <<>>
                ELSE owner' = Head(q) /\ lockq' = Tail(q)

-----------------------------------------------------------------------------
(* acquire, acquire_nowait and release.                                    *)

AskedFor(k) == \E t \in Task : call[t] = "acquire" /\ key[t] = k

\* Callers wait for a key only while somebody is left who can release it (the
\* callback of an upload thread, if no other).
AcquireCall(t, k) ==
    /\ call[t] = "none"
    /\ \E u \in Task \ {t} : call[u] # "acquire"
    /\ call' = [call EXCEPT ![t] = "acquire"]
    /\ key' = [key EXCEPT ![t] = k]
    /\ RequestLock(t)
    /\ first' = IF k \in locked_keys \/ AskedFor(k) THEN first
                ELSE [first EXCEPT ![k] = t]
    /\ UNCHANGED <<locked_keys, waitq, granted>>

\* The key is locked: wait() until something is released, then look again.
AcquireWait(t) ==
    /\ owner = t
    /\ call[t] = "acquire"
    /\ key[t] \in locked_keys
    /\ waitq' = Append(waitq, t)
    /\ HandOver(lockq)
    /\ UNCHANGED <<locked_keys, call, key, granted, first>>

\* Mutant: the key is not looked at again after wait().
AcquireReturnUnchecked(t) ==
    /\ owner = t
    /\ call[t] = "acquire"
    /\ locked_keys' = locked_keys \cup {key[t]}
    /\ granted' = granted \cup {key[t]}
    /\ first' = [first EXCEPT ![key[t]] = None]
    /\ call' = [call EXCEPT ![t] = "none"]
    /\ key' = [key EXCEPT ![t] = None]
    /\ HandOver(lockq)
    /\ UNCHANGED waitq

AcquireReturn(t) ==
    /\ owner = t
    /\ call[t] = "acquire"
    /\ key[t] \notin locked_keys
    /\ locked_keys' = locked_keys \cup {key[t]}
    /\ granted' = granted \cup {key[t]}
    /\ first' = [first EXCEPT ![key[t]] = None]
    /\ call' = [call EXCEPT ![t] = "none"]
    /\ key' = [key EXCEPT ![t] = None]
    /\ HandOver(lockq)
    /\ UNCHANGED waitq

\* Mutant: a task that was given the condition's lock is overtaken.
AcquireNowaitOvertakes(t, k) ==
    /\ call[t] = "none"
    /\ k \notin locked_keys
    /\ locked_keys' = locked_keys \cup {k}
    /\ granted' = granted \cup {k}
    /\ first' = [first EXCEPT ![k] = None]
    /\ UNCHANGED <<owner, lockq, waitq, call, key>>

\* acquire_nowait that succeeds; it fails when the condition's lock is held.
AcquireNowait(t, k) ==
    /\ call[t] = "none"
    /\ owner = None
    /\ k \notin locked_keys
    /\ locked_keys' = locked_keys \cup {k}
    /\ granted' = granted \cup {k}
    /\ first' = [first EXCEPT ![k] = None]
    /\ UNCHANGED <<owner, lockq, waitq, call, key>>

\* Any task may release a key, not only the one that acquired it.
ReleaseCall(t, k) ==
    /\ call[t] = "none"
    /\ k \in granted
    /\ granted' = granted \ {k}
    /\ call' = [call EXCEPT ![t] = "release"]
    /\ key' = [key EXCEPT ![t] = k]
    /\ RequestLock(t)
    /\ UNCHANGED <<locked_keys, waitq, first>>

\* Mutant: nobody is notified.
ReleaseReturnSilent(t) ==
    /\ owner = t
    /\ call[t] = "release"
    /\ locked_keys' = locked_keys \ {key[t]}
    /\ HandOver(lockq)
    /\ UNCHANGED waitq
    /\ call' = [call EXCEPT ![t] = "none"]
    /\ key' = [key EXCEPT ![t] = None]
    /\ UNCHANGED <<granted, first>>

\* Remove the key and notify_all(): everybody who waits looks again.
ReleaseReturn(t) ==
    /\ owner = t
    /\ call[t] = "release"
    /\ locked_keys' = locked_keys \ {key[t]}
    /\ HandOver(lockq \o waitq)
    /\ waitq' = <<>>
    /\ call' = [call EXCEPT ![t] = "none"]
    /\ key' = [key EXCEPT ![t] = None]
    /\ UNCHANGED <<granted, first>>

Resume(t) == AcquireWait(t) \/ AcquireReturn(t) \/ ReleaseReturn(t)

LockNext ==
    \E t \in Task :
       \/ Resume(t)
       \/ \E k \in Key : AcquireCall(t, k) \/ AcquireNowait(t, k) \/ ReleaseCall(t, k)

LockSpec == LockInit /\ [][LockNext]_lockvars

(***************************************************************************)
(* The event loop resumes the task that was given the condition's lock,    *)
(* and whoever obtained a key releases it in the end.                      *)
(***************************************************************************)
LockFairness ==
    /\ \A t \in Task : WF_lockvars(Resume(t))
    /\ \A k \in Key : WF_lockvars(\E t \in Task : ReleaseCall(t, k))

-----------------------------------------------------------------------------
(***************************************************************************)
(* A task that asks for a free key nobody else asks for is the next one to *)
(* get it, although its request is served in a later step.  upload_if_dirty*)
(* relies on it: it inserts a row for a new object, visible to all tasks,  *)
(* before it asks for the object's lock (block_cache.py:480).              *)
(***************************************************************************)
FirstRequestFirst ==
    [][\A k \in Key : first[k] # None /\ k \in locked_keys' \ locked_keys =>
          call[first[k]] = "acquire" /\ call'[first[k]] = "none"]_lockvars

(***************************************************************************)
(* A free key that somebody asks for does not stay free: no wake-up is     *)
(* lost, although all keys share one condition and a particular task may   *)
(* be overtaken again and again (multi_lock.py:72, 88).                    *)
(***************************************************************************)
FreeKeyIsTaken == \A k \in Key :
    (AskedFor(k) /\ k \notin locked_keys) ~> (k \in locked_keys)

-----------------------------------------------------------------------------
Abstract == INSTANCE KeyLock WITH
    held <- locked_keys,
    want <- [t \in Task |-> IF call[t] = "acquire" THEN key[t] ELSE None]

(***************************************************************************)
(* MultiLock implements the plain lock per key of module KeyLock, the one  *)
(* that BlockCache uses (multi_lock.py:47-92).                             *)
(***************************************************************************)
ImplementsKeyLock == Abstract!Spec
=============================================================================
