----------------------------- MODULE BulkDelete -----------------------------
(***************************************************************************)
(* delete_multi of the S3, Swift and local backends.  The caller gives a   *)
(* list of keys; what has been deleted is taken out of it, so that after   *)
(* an exception it tells what is left to do.  The list is processed in     *)
(* batches (S3, Swift), each of them repeated by retry.                    *)
(***************************************************************************)
EXTENDS Integers, Sequences, FiniteSets, SequencesExt

CONSTANTS
    Key,
    MaxKeys,    \* the size of a batch
    MaxFaults,  \* bound
    Settings    \* the settings: records of what is defined from config below

VARIABLES
    config,  \* the setting, which does not change
    server,  \* the keys that exist
    given,   \* history: the keys to be deleted
    keys,    \* the caller's list
    tmp,     \* the batch
    force,
    pc,      \* "call", "batch", "send", "done"
    result,  \* "ok", "NoSuchObject", "error"
    faults

(* The setting. *)
Backend == config.Backend          \* "s3", "swift" or "local"
Refused == config.Refused          \* keys that the server refuses to delete, always
EmptyErrors == config.EmptyErrors  \* Swift may report a failure without saying which keys it is about

vars == <<config, server, given, keys, tmp, force, pc, result, faults>>

Init ==
    /\ config \in Settings
    /\ server \in SUBSET Key
    /\ keys \in {SetToSeq(S) : S \in SUBSET Key} \* each key once, as the callers give them
    /\ given = ToSet(keys)
    /\ tmp = <<>> /\ force \in BOOLEAN
    /\ pc = "batch" /\ result = "ok" /\ faults = 0

First(n) == IF n > Len(keys) THEN Len(keys) ELSE n

(* The next batch, or the end of the loop. *)
delete_multi ==
    /\ pc = "batch" /\ Backend # "local"
    /\ IF keys = <<>>
       THEN pc' = "done" /\ UNCHANGED <<tmp, keys>>
       ELSE /\ pc' = "send"
            /\ tmp' = SubSeq(keys, 1, First(MaxKeys))
            /\ keys' = SubSeq(keys, First(MaxKeys) + 1, Len(keys))
    /\ UNCHANGED <<given, server, force, result, faults>>

(* Mutant: the list is left as it was. *)
PutBackAll(left) == keys' = tmp \o keys /\ tmp' = <<>>

(* finally: what is left of the batch goes back to the list. *)
PutBack(left) == keys' = left \o keys /\ tmp' = <<>>

Raise(left, r) ==
    /\ PutBack(left)
    /\ pc' = "done" /\ result' = r

-----------------------------------------------------------------------------
(* Requests of S3 and Swift.  The server deletes what it does not refuse.  *)

Accepted == ToSet(tmp) \ Refused

(* No answer, or a failure that concerns the whole request: try again.     *)
TempFailure ==
    /\ pc = "send" /\ faults < MaxFaults
    /\ faults' = faults + 1
    /\ server' \in {server, server \ Accepted}
    /\ UNCHANGED <<given, keys, tmp, force, pc, result>>

(* A failure that is not temporary. *)
Denied ==
    /\ pc = "send" /\ faults < MaxFaults
    /\ faults' = faults + 1
    /\ Raise(tmp, "error")
    /\ UNCHANGED <<given, server, force>>

AllDeleted ==
    /\ pc = "send" /\ ToSet(tmp) \cap Refused = {}
    /\ server' = server \ ToSet(tmp)
    /\ PutBack(<<>>)
    /\ pc' = "batch"
    /\ UNCHANGED <<given, force, result, faults>>

(* Mutant: what has failed is taken out of the list, too. *)
AllForgotten(failed) == {<<>>}

(* What is left of the batch, in its order. *)
Remaining(failed) ==
    {left \in UNION {[1 .. n -> failed] : n \in 0 .. Len(tmp)} :
        /\ ToSet(left) = failed
        /\ \A a, b \in DOMAIN left : a < b =>
              \E m, n \in DOMAIN tmp : m < n /\ tmp[m] = left[a] /\ tmp[n] = left[b]}

(* S3: some of the keys have errors, permanent or (at random) temporary.   *)
(* The exception that is raised because of them is caught at the end of    *)
(* the method, and delete_multi goes on with what is left.                 *)
S3Errors ==
    /\ pc = "send" /\ Backend = "s3"
    /\ \E failed \in SUBSET ToSet(tmp) :
          /\ ToSet(tmp) \cap Refused \subseteq failed /\ failed # {}
          /\ faults' = IF failed \subseteq Refused THEN faults ELSE faults + 1
          /\ faults' <= MaxFaults
          /\ server' = server \ (ToSet(tmp) \ failed)
          /\ \E left \in Remaining(failed) : PutBack(left)
    /\ pc' = "batch"
    /\ UNCHANGED <<given, force, result>>

(* Swift: the answer lists the keys that have failed.  The error is        *)
(* temporary, then retry sends what is left of the batch, or it is raised. *)
SwiftErrors ==
    /\ pc = "send" /\ Backend = "swift"
    /\ \E failed \in SUBSET ToSet(tmp), temp \in BOOLEAN :
          /\ ToSet(tmp) \cap Refused \subseteq failed /\ failed # {}
          /\ temp => failed \cap Refused = {}
          /\ faults' = IF failed \subseteq Refused THEN faults ELSE faults + 1
          /\ faults' <= MaxFaults
          /\ server' = server \ (ToSet(tmp) \ failed)
          /\ \E left \in Remaining(failed) :
                IF temp THEN tmp' = left /\ UNCHANGED <<keys, pc, result>>
                        ELSE Raise(left, "error")
    /\ UNCHANGED <<given, force>>

(* Some keys did not exist: only their number is known. *)
SwiftNotFound ==
    /\ pc = "send" /\ Backend = "swift"
    /\ ToSet(tmp) \cap Refused = {} /\ ~(ToSet(tmp) \subseteq server)
    /\ server' = server \ ToSet(tmp)
    /\ PutBack(<<>>)
    /\ pc' = "batch"
    /\ UNCHANGED <<given, force, result, faults>>

(* The request has failed as a whole (a limit exceeded, an internal error) *)
(* and the list of errors is empty: no key is found in it.  If the error   *)
(* is temporary then an empty list is sent next, which fails the assertion *)
(* about Number Not Found.                                                 *)
SwiftNoList ==
    /\ pc = "send" /\ Backend = "swift" /\ EmptyErrors /\ faults < MaxFaults
    /\ faults' = faults + 1
    /\ \E gone \in SUBSET ToSet(tmp) : server' = server \ gone
    /\ Raise(<<>>, "error")
    /\ UNCHANGED <<given, force>>

-----------------------------------------------------------------------------
(* The local backend deletes one after the other.                          *)

(* Mutant: the key that failed is taken out as well. *)
LocalLeftOne(i) == SubSeq(keys, i + 1, Len(keys))

LocalLeft(i) == SubSeq(keys, i, Len(keys))

(* Mutant: errors are ignored. *)
local_delete_all ==
    /\ pc = "batch" /\ Backend = "local"
    /\ server' = server \ (ToSet(keys) \ Refused)
    /\ keys' = <<>> /\ pc' = "done"
    /\ UNCHANGED <<given, tmp, force, result, faults>>

local_delete_multi ==
    /\ pc = "batch" /\ Backend = "local"
    /\ LET bad(i) == keys[i] \in Refused \/ (keys[i] \notin server /\ ~force)
           fails  == {i \in DOMAIN keys : bad(i)}
       IN IF fails = {}
          THEN /\ server' = server \ ToSet(keys)
               /\ keys' = <<>> /\ UNCHANGED result
          ELSE LET i == CHOOSE x \in fails : \A y \in fails : x <= y
               IN /\ server' = server \ ToSet(SubSeq(keys, 1, i - 1))
                  /\ keys' = LocalLeft(i)
                  /\ result' = IF keys[i] \in server THEN "error" ELSE "NoSuchObject"
    /\ pc' = "done"
    /\ UNCHANGED <<given, tmp, force, faults>>

Next ==
    \/ delete_multi \/ TempFailure \/ Denied \/ AllDeleted
    \/ S3Errors \/ SwiftErrors \/ SwiftNotFound \/ SwiftNoList
    \/ local_delete_multi

Spec == Init /\ [][Next /\ UNCHANGED config]_vars /\ WF_vars(Next /\ UNCHANGED config)

-----------------------------------------------------------------------------
(* A batch is a part of the list that is not empty. *)
TypeOK ==
    /\ server \subseteq Key /\ ToSet(keys \o tmp) \subseteq given
    /\ Len(tmp) <= MaxKeys /\ (pc = "send" <=> tmp # <<>>)
    /\ IsInjective(keys \o tmp)

(* A key that was taken out of the list is not on the server: after an     *)
(* exception the caller can tell what is left to do (common.py:395).       *)
NothingForgotten ==
    given \cap server \subseteq ToSet(keys) \cup ToSet(tmp)

(* delete_multi returns without an exception when all is deleted. *)
DoneMeansDeleted == (pc = "done" /\ result = "ok") => given \cap server = {}

(* Every call ends, with the list empty or with an exception. *)
CallEnds == <>(pc = "done")
=============================================================================
