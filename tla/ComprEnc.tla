------------------------------ MODULE ComprEnc ------------------------------
(***************************************************************************)
(* The backend that encrypts and authenticates (backends/comprenc.py): the *)
(* metadata of an object names the key it is stored under and is signed    *)
(* with a key made from the passphrase and a nonce; the data is encrypted  *)
(* with another key made from the same nonce.  The storage below may       *)
(* return something else than what was stored: an older version, the       *)
(* object of another key, metadata and data of different versions, or less *)
(* than all of the data.                                                   *)
(*                                                                         *)
(* Cryptography is ideal.  A signature is the record that was signed.      *)
(***************************************************************************)
EXTENDS Integers, FiniteSets, TLC

CONSTANTS
    Key,
    Process,
    None,
    Settings   \* the settings: records of what is defined from config below

VARIABLES
    config,  \* the setting, which does not change
    store,   \* the objects of the storage below: [meta, body]
    past,    \* every meta and every body there has been, for the faults
    time, updates,
    proc,    \* what every process does
    written, \* history: what was stored, as <<key, metadata, data>>
    result   \* of a read, if that was the last step: key, metadata and data, or an error

(* The setting. *)
Encrypted == config.Encrypted  \* the backend has a passphrase
Overlap == config.Overlap      \* an object is written also while somebody copies it
Faults == config.Faults        \* the storage returns something else
MaxTime == config.MaxTime      \* bound: the objects that are written
MaxMeta == config.MaxMeta      \* bound: the changes of metadata

vars == <<config, store, past, time, updates, proc, written, result>>

(* The nonce consists of the time and the key. *)
Nonce(k) == IF Encrypted THEN <<time, k>> ELSE None

checksum_basic_mapping(k, m, n) == [oid |-> k, data |-> m, nonce |-> n]

(* meta_raw: the metadata as the storage below gets it. *)
MetaRaw(k, m, n) ==
    IF n = None THEN [enc |-> FALSE, nonce |-> None, oid |-> None, data |-> m, sig |-> None]
    ELSE [enc |-> TRUE, nonce |-> n, oid |-> k, data |-> m,
          sig |-> checksum_basic_mapping(k, m, n)]

(* The data as the storage below gets it: encrypted with the data key. *)
Body(d, n) == [data |-> d, nonce |-> n, whole |-> TRUE]

\* What there may be in the storage.
Nonces == Nat \X Key
Metas == [enc: BOOLEAN, nonce: Nonces \cup {None}, oid: Key \cup {None}, data: Int,
          sig: [oid: Key, data: Int, nonce: Nonces] \cup {None}]
Bodies == [data: Int, nonce: Nonces \cup {None}, whole: BOOLEAN]
Objects == [meta: Metas, body: Bodies]

Init ==
    /\ config \in Settings
    /\ store = [k \in Key |-> None]
    /\ past = [meta |-> {}, body |-> {}]
    /\ time = 0 /\ updates = 0
    /\ proc = [p \in Process |-> [op |-> "idle"]]
    /\ written = {} /\ result = None

Put(k, meta, body) ==
    /\ store' = [store EXCEPT ![k] = [meta |-> meta, body |-> body]]
    /\ past' = [meta |-> past.meta \cup {meta}, body |-> past.body \cup {body}]

Idle(p) == proc[p].op = "idle"
Do(p, r) == proc' = [proc EXCEPT ![p] = r]
Using(k) == \E p \in Process : ~Idle(p) /\ k \in {proc[p].src, proc[p].dest}

(* Mutant: the key that the object was stored under does not matter. *)
VerifyNoKey(k, meta) ==
    IF ~meta.enc /\ Encrypted THEN "ObjectNotEncrypted"
    ELSE IF meta.enc /\ ~Encrypted THEN "CorruptedObjectError"
    ELSE IF ~meta.enc \/ meta.sig = checksum_basic_mapping(meta.oid, meta.data, meta.nonce)
    THEN "ok" ELSE "CorruptedObjectError"

(* What is wrong with the metadata, or "ok". *)
_verify_meta(k, meta) ==
    IF ~meta.enc /\ Encrypted THEN "ObjectNotEncrypted"
    ELSE IF meta.enc /\ ~Encrypted THEN "CorruptedObjectError"
    ELSE IF ~meta.enc THEN "ok"
    ELSE IF meta.sig # checksum_basic_mapping(meta.oid, meta.data, meta.nonce) THEN "CorruptedObjectError"
    ELSE IF meta.oid # k THEN "CorruptedObjectError"
    ELSE "ok"

-----------------------------------------------------------------------------
(* open_write, write and close: the data is the time of the call, the      *)
(* metadata a new number.  The storage has the object when it is closed.   *)

open_write(p, k) ==
    /\ Idle(p) /\ time < MaxTime /\ (Overlap \/ ~Using(k))
    /\ time' = time + 1
    /\ Do(p, [op |-> "write", src |-> k, dest |-> k, meta |-> MetaRaw(k, time, Nonce(k)),
              body |-> Body(time, Nonce(k))])
    /\ UNCHANGED <<store, past, updates, written>>

close(p) ==
    /\ proc[p].op = "write"
    /\ Put(proc[p].src, proc[p].meta, proc[p].body)
    /\ written' = written \cup {<<proc[p].src, proc[p].meta.data, proc[p].body.data>>}
    /\ Do(p, [op |-> "idle"])
    /\ UNCHANGED <<time, updates>>

-----------------------------------------------------------------------------
(* _copy_or_rename for copy, rename and update_meta (src = dest): the      *)
(* metadata is looked up and verified, signed for the new key with the old *)
(* nonce, and then the storage below copies.                               *)

(* The data that belongs to the metadata. *)
DataOf(obj) ==
    IF obj.meta.nonce = None THEN obj.body.data
    ELSE (CHOOSE b \in past.body : b.nonce = obj.meta.nonce).data

_copy_or_rename(p, src, dest, rename, change) ==
    /\ Idle(p) /\ store[src] # None
    /\ Overlap \/ (~Using(src) /\ ~Using(dest))
    /\ src = dest => change /\ ~rename
    /\ change => updates < MaxMeta
    /\ updates' = IF change THEN updates + 1 ELSE updates
    /\ LET old == store[src].meta
           m   == IF change THEN MaxTime + updates ELSE old.data
       IN IF _verify_meta(src, old) = "ok"
          THEN /\ Do(p, [op |-> "copy", src |-> src, dest |-> dest, rename |-> rename,
                         meta |-> IF old.nonce = None /\ ~change THEN None
                                  ELSE MetaRaw(dest, m, old.nonce)])
               /\ written' = written \cup {<<dest, m, DataOf(store[src])>>}
          ELSE UNCHANGED <<proc, written>>
    /\ UNCHANGED <<store, past, time>>

(* Mutant: the metadata is not signed again. *)
CopyOldMeta(p) == store[proc[p].src].meta

(* Without new metadata the storage copies that of the source. *)
CopyMeta(p) == IF proc[p].meta = None THEN store[proc[p].src].meta ELSE proc[p].meta

CopyBackend(p) ==
    LET src == proc[p].src dest == proc[p].dest
    IN /\ proc[p].op = "copy"
       /\ store[src] # None
       /\ Put(dest, CopyMeta(p), store[src].body)
       /\ IF proc[p].rename THEN Do(p, [op |-> "delete", src |-> src, dest |-> dest])
                            ELSE Do(p, [op |-> "idle"])
       /\ UNCHANGED <<time, updates, written>>

(* Mutant: the source is deleted before it has been copied. *)
DeleteFirst(p) ==
    /\ proc[p].op = "copy" /\ proc[p].rename
    /\ store' = [store EXCEPT ![proc[p].src] = None]
    /\ UNCHANGED <<past, time, updates, proc, written>>

(* AbstractBackend.rename is a copy and a delete. *)
RenameDelete(p) ==
    /\ proc[p].op = "delete"
    /\ store' = [store EXCEPT ![proc[p].src] = None]
    /\ Do(p, [op |-> "idle"])
    /\ UNCHANGED <<past, time, updates, written>>

(* The process ends here, with what it has done so far. *)
Kill(p) ==
    /\ ~Idle(p)
    /\ Do(p, [op |-> "idle"])
    /\ UNCHANGED <<store, past, time, updates, written>>

-----------------------------------------------------------------------------
(* open_read and reading to the end, or lookup, which has no data.         *)

(* Mutant: the data is not authenticated. *)
AnyBody(meta, body) == body.whole

(* DecryptFilter: it was encrypted with this nonce and all of it is there. *)
BodyAuthentic(meta, body) == meta.enc => meta.nonce = body.nonce /\ body.whole

Read(k, obj) ==
    LET v == _verify_meta(k, obj.meta)
    IN IF v # "ok" THEN v
       ELSE IF ~BodyAuthentic(obj.meta, obj.body) THEN "CorruptedObjectError"
       ELSE "ok"

Returned(k, obj) == [error |-> Read(k, obj), key |-> k, meta |-> obj.meta.data, data |-> obj.body.data]

open_read(k) ==
    /\ store[k] # None /\ result = None
    /\ \E obj \in {store[k]} \cup
             (IF Faults THEN [meta : past.meta, body : past.body \cup {[b EXCEPT !.whole = FALSE] : b \in past.body}]
              ELSE {}) :
          result' = Returned(k, obj)
    /\ UNCHANGED <<store, past, time, updates, proc, written>>

Write ==
    \/ \E p \in Process, k \in Key : open_write(p, k)
    \/ \E p \in Process, src, dest \in Key, rename, change \in BOOLEAN :
          _copy_or_rename(p, src, dest, rename, change)
    \/ \E p \in Process : close(p) \/ CopyBackend(p) \/ RenameDelete(p) \/ Kill(p)

Next ==
    \/ Write /\ result' = None
    \/ \E k \in Key : open_read(k)

Spec == Init /\ [][Next /\ UNCHANGED config]_vars

-----------------------------------------------------------------------------
(* Objects have metadata with a signature exactly if there is a passphrase. *)
TypeOK ==
    /\ store \in [Key -> Objects \cup {None}]
    /\ \A k \in Key : store[k] # None =>
          store[k].meta.enc = Encrypted /\ store[k].meta \in past.meta /\ store[k].body \in past.body
    /\ time \in 0 .. MaxTime /\ updates \in 0 .. MaxMeta

(* What is read without an error was stored under that key, with that      *)
(* metadata, although perhaps not last: the storage cannot make a reader   *)
(* take one object for another.                                            *)
ReadAuthentic ==
    (result # None /\ result.error = "ok") => <<result.key, result.meta, result.data>> \in written

(* An object that the storage returns as it is can be read: no copy,       *)
(* rename or change of the metadata leaves one that fails authentication,  *)
(* whenever the process that does it ends.                                 *)
Readable == \A k \in Key : store[k] # None => Read(k, store[k]) = "ok"

(* A rename that is interrupted leaves the object under one of its names:  *)
(* data is never lost except by being replaced.                            *)
NoneVanishes ==
    \A k \in Key : (store[k] # None /\ store'[k] = None) =>
        \E j \in Key : store'[j] # None /\ store'[j].body = store[k].body
=============================================================================
