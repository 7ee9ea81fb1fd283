---------------------------- MODULE SwiftClient ----------------------------
(***************************************************************************)
(* A thread that works with a Swift server (backends/swift.py).  A token   *)
(* and the connection are obtained together; when the server no longer     *)
(* accepts the token both are given up.  Servers without the COPY method   *)
(* cannot copy an object and replace its metadata in one step: the copy is *)
(* made in three requests with a temporary object, and every one of them   *)
(* is repeated on its own.                                                 *)
(***************************************************************************)
EXTENDS Integers

CONSTANTS
    Key,
    Meta,       \* user metadata
    MaxFaults,  \* bound
    MaxCalls,   \* bound
    Part,       \* data cut short, or damaged on the way
    None,
    Settings    \* the settings: records of what is defined from config below

VARIABLES
    config,  \* the setting, which does not change
    objects, temps, \* of the server: the objects, and the temporary object of a key
    accepted,       \* the server accepts auth_token
    conn,           \* "none", "clean", or "pending": there is a response to be read
    has_copy,       \* what _detect_features has found
    op, stage,      \* the call, and which of its requests is made
    at,             \* "idle", "fn", "send", "read", or the result of the call
    is_retry,
    got,            \* what a lookup or read has returned
    before,         \* history: the objects when the call began
    faults, expired, calls

(* The setting. *)
HasCopy == config.HasCopy      \* the server has the COPY method
MaxExpiry == config.MaxExpiry  \* bound: how many tokens and temporary objects expire

vars == <<config, objects, temps, accepted, conn, has_copy, op, stage, at, is_retry, got, before, faults, expired, calls>>

(* An object is the number of the call that wrote the data, and metadata. *)
Object == [data : (0 .. MaxCalls) \cup {Part}, meta : Meta]
Result == {"ok", "NoSuchObject", "error"}

NoOp == [name |-> None, key |-> None, to |-> None, data |-> None, meta |-> None, force |-> FALSE]

(* features.has_copy: /info tells the version of the server, unless it is   *)
(* not there or not accessible, or detection is switched off.              *)
_detect_features == {FALSE, HasCopy}

Init ==
    /\ config \in Settings
    /\ objects \in [Key -> {None} \cup [data : {0}, meta : Meta]]
    /\ temps = [k \in Key |-> None]
    /\ accepted = TRUE /\ conn = "clean" /\ has_copy \in _detect_features
    /\ op = NoOp /\ stage = 0 /\ at = "idle" /\ is_retry = FALSE /\ got = None
    /\ before = objects
    /\ faults = 0 /\ expired = 0 /\ calls = 0

Fault == faults < MaxFaults /\ faults' = faults + 1
NoFault == UNCHANGED faults
Server == <<objects, temps, accepted, expired>>
Kept == <<has_copy, op, before, calls>>

-----------------------------------------------------------------------------
(* The connection of the pool has been reset when a call begins. *)

Call(o) ==
    /\ at \in Result \cup {"idle"} /\ calls < MaxCalls
    /\ calls' = calls + 1
    /\ op' = o /\ at' = (IF o.name = "write" THEN "fn" ELSE "send")
    /\ stage' = 1 /\ is_retry' = FALSE /\ got' = None /\ before' = objects
    /\ UNCHANGED <<Server, conn, has_copy, faults>>

delete(k, force) == Call([NoOp EXCEPT !.name = "delete", !.key = k, !.force = force])
lookup(k) == Call([NoOp EXCEPT !.name = "lookup", !.key = k])
perform_read(k) == Call([NoOp EXCEPT !.name = "read", !.key = k])
perform_write(k, m) == Call([NoOp EXCEPT !.name = "write", !.key = k, !.data = calls + 1, !.meta = m])
update_meta(k, m) == Call([NoOp EXCEPT !.name = "update_meta", !.key = k, !.meta = m])
copy(k, to, m) == Call([NoOp EXCEPT !.name = IF has_copy THEN "copy" ELSE "put_post", !.key = k, !.to = to, !.meta = m])

Return(r) == at' = r /\ UNCHANGED <<stage, is_retry>>

(* retry: the request is repeated, for _copy_via_put_post as well as for   *)
(* the methods that make one request only.                                 *)
Again == at' = "send" /\ is_retry' = TRUE /\ UNCHANGED stage

-----------------------------------------------------------------------------
(* _get_conn: the token, and what the server can do if it tells. *)

_get_conn ==
    /\ at = "send" /\ conn = "none"
    /\ conn' = "clean" /\ accepted' = TRUE
    /\ has_copy' \in _detect_features
    /\ NoFault /\ UNCHANGED <<objects, temps, expired, op, stage, at, is_retry, got, before, calls>>

(* The server does not answer, or refuses the login. *)
ConnectFails ==
    /\ at = "send" /\ conn = "none" /\ Fault
    /\ Again \/ Return("error")
    /\ UNCHANGED <<Server, conn, got, Kept>>

Expire ==
    /\ expired < MaxExpiry /\ expired' = expired + 1
    /\ \/ accepted /\ accepted' = FALSE /\ UNCHANGED temps
       \/ \E k \in Key : temps[k] # None /\ temps' = [temps EXCEPT ![k] = None] /\ UNCHANGED accepted
    /\ UNCHANGED <<objects, conn, op, stage, at, is_retry, got, faults, Kept>>

(* Mutant: the connection is opened again with the same token. *)
Disconnect == conn' = "clean"

(* The next request needs a new connection, with a new token. *)
_do_authentication_expired == conn' = "none"

Unauthorized ==
    /\ at = "send" /\ conn # "none" /\ ~accepted
    /\ _do_authentication_expired
    /\ Again
    /\ NoFault /\ UNCHANGED <<Server, got, Kept>>

-----------------------------------------------------------------------------
(* The function that writes: if it fails, then ObjectW.__exit__ closes the *)
(* object nevertheless and uploads what was written until then.            *)
fn ==
    /\ at = "fn" /\ at' = "send"
    /\ \/ NoFault /\ UNCHANGED op
       \/ Fault /\ op' = [op EXCEPT !.data = Part]
    /\ UNCHANGED <<Server, conn, has_copy, stage, is_retry, got, before, calls>>

-----------------------------------------------------------------------------
(* The requests. *)

Asked == at = "send" /\ conn # "none" /\ accepted

UsesTemp == op.name = "put_post" /\ op.meta # None

(* Mutant: the temporary object is not copied to its final name. *)
TwoStages == IF UsesTemp THEN 2 ELSE 1

Stages == IF UsesTemp THEN 3 ELSE 1

(* A write stores its data; if that was damaged it deletes the object.     *)
Written == [data |-> op.data, meta |-> op.meta]

(* The object that a request needs. *)
Needed ==
    CASE op.name = "write" /\ stage = 1   -> Written
      [] op.name = "put_post" /\ stage > 1 -> temps[op.to]
      [] OTHER                            -> objects[op.key]

WithMeta(o, m) == [o EXCEPT !.meta = IF m = None THEN @ ELSE m]

ObjectTo(k, o) == objects' = [objects EXCEPT ![k] = o] /\ UNCHANGED temps
TempTo(k, o) == temps' = [temps EXCEPT ![k] = o] /\ UNCHANGED objects

(* Mutant: the metadata is replaced after the copy has its final name. *)
CopyFirst ==
    CASE stage = 1 -> TempTo(op.to, objects[op.key])
      [] stage = 2 -> ObjectTo(op.to, temps[op.to])
      [] stage = 3 -> ObjectTo(op.to, WithMeta(temps[op.to], op.meta))

(* _copy_via_put_post: PUT, POST and PUT, or only one PUT. *)
PutPost ==
    CASE stage = 1 -> IF UsesTemp THEN TempTo(op.to, objects[op.key]) ELSE ObjectTo(op.to, objects[op.key])
      [] stage = 2 -> TempTo(op.to, WithMeta(temps[op.to], op.meta))
      [] stage = 3 -> ObjectTo(op.to, temps[op.to])

(* Mutant: the metadata is not replaced. *)
StaleMeta == ObjectTo(op.to, objects[op.key])

(* _copy_via_copy: COPY with X-Fresh-Metadata. *)
ViaCopy == ObjectTo(op.to, WithMeta(objects[op.key], op.meta))

Effect ==
    CASE op.name = "delete"      -> ObjectTo(op.key, None)
      [] op.name = "write"       -> ObjectTo(op.key, IF stage = 1 THEN Written ELSE None)
      [] op.name = "update_meta" -> ObjectTo(op.key, WithMeta(objects[op.key], op.meta))
      [] op.name = "copy"        -> ViaCopy
      [] op.name = "put_post"    -> PutPost
      [] OTHER                   -> UNCHANGED <<objects, temps>>

(* The response is read, or thrown away. *)
discard == conn' = "clean"

(* Mutant: leaving the object swallows the exception. *)
Swallowed == FALSE

(* The exception of fn, or BadDigestError, is raised after the last request. *)
Raises == op.name = "write" /\ op.data = Part

(* A request has succeeded; the data of a read is still to come. *)
Success ==
    /\ Asked /\ Needed # None
    /\ Effect /\ NoFault
    /\ got' = IF op.name \in {"lookup", "read"} THEN objects[op.key] ELSE None
    /\ CASE op.name = "read" -> at' = "read" /\ conn' = "pending" /\ UNCHANGED <<stage, is_retry>>
         [] stage < Stages   -> stage' = stage + 1 /\ discard /\ is_retry' = FALSE /\ UNCHANGED at
         [] OTHER            -> discard /\ Return(IF Raises THEN "error" ELSE "ok")
    /\ UNCHANGED <<accepted, expired, Kept>>

(* ObjectW.close: the upload was damaged, so that the ETag of the response *)
(* is not the MD5 that was calculated while writing: the object is         *)
(* deleted.  BadDigestError is raised whether or not that fails, and it is *)
(* none of the failures for which the upload is repeated.                  *)
UploadDamaged ==
    /\ Asked /\ op.name = "write" /\ stage = 1 /\ Fault
    /\ op' = [op EXCEPT !.data = Part]
    /\ ObjectTo(op.key, [data |-> Part, meta |-> op.meta])
    /\ stage' = 2 /\ is_retry' = FALSE /\ discard
    /\ UNCHANGED <<accepted, expired, has_copy, at, got, before, calls>>

(* Mutant: delete does not look at is_retry. *)
OnlyForce == op.name = "delete" /\ op.force

MayBeMissing == op.name = "delete" /\ (op.force \/ is_retry)

(* 404; the error of the requests after the first one, and of update_meta, *)
(* is not converted.                                                       *)
NotFound ==
    /\ Asked /\ Needed = None
    /\ Return(CASE MayBeMissing -> "ok"
                [] stage > 1 \/ op.name = "update_meta" -> "error"
                [] OTHER -> "NoSuchObject")
    /\ conn' = "clean"
    /\ NoFault /\ UNCHANGED <<Server, got, Kept>>

(* 5xx, 408, 429, or the connection is lost, before or after the request   *)
(* was done.                                                               *)
TempFailure ==
    /\ Asked /\ Fault
    /\ Again /\ conn' = "clean"
    /\ \/ UNCHANGED <<objects, temps>>
       \/ Needed # None /\ Effect
    /\ UNCHANGED <<accepted, expired, got, Kept>>

(* Any other error. *)
PermanentFailure ==
    /\ Asked /\ Fault
    /\ Return("error") /\ conn' = "clean"
    /\ UNCHANGED <<Server, got, Kept>>

(* The data is read to its end and compared with its ETag, or not: then    *)
(* the connection is closed and the call repeated, or it fails.            *)
Read ==
    /\ at = "read" /\ conn' = "clean"
    /\ \/ NoFault /\ Return("ok")
       \/ Fault /\ (Again \/ Return("error"))
    /\ UNCHANGED <<Server, got, Kept>>

-----------------------------------------------------------------------------
Work ==
    \/ _get_conn \/ ConnectFails \/ Unauthorized \/ fn \/ Success \/ UploadDamaged
    \/ NotFound \/ TempFailure \/ PermanentFailure \/ Read

Next ==
    \/ Work \/ Expire
    \/ \E k \in Key :
         \/ \E f \in BOOLEAN : delete(k, f)
         \/ lookup(k) \/ perform_read(k)
         \/ \E m \in Meta : perform_write(k, m) \/ update_meta(k, m)
         \/ \E to \in Key \ {k}, m \in Meta \cup {None} : copy(k, to, m)

(* A call that can go on does. *)
Spec == Init /\ [][Next /\ UNCHANGED config]_vars /\ WF_vars(Work /\ UNCHANGED config)

-----------------------------------------------------------------------------
(* What the objects are after the call. *)
Goal ==
    CASE op.name = "delete" -> [before EXCEPT ![op.key] = None]
      [] op.name = "write" -> [before EXCEPT ![op.key] = [data |-> calls, meta |-> op.meta]]
      [] op.name = "update_meta" -> [before EXCEPT ![op.key] = IF @ = None THEN None ELSE [@ EXCEPT !.meta = op.meta]]
      [] op.name \in {"copy", "put_post"} ->
           [before EXCEPT ![op.to] = IF before[op.key] = None THEN @ ELSE WithMeta(before[op.key], op.meta)]
      [] OTHER -> before

(* The types, and a connection is only idle when the last response was     *)
(* read to its end (swift.py:597).                                         *)
TypeOK ==
    /\ objects \in [Key -> {None} \cup Object] /\ temps \in [Key -> {None} \cup Object]
    /\ stage \in 0 .. 3 /\ at \in Result \cup {"idle", "fn", "send", "read"}
    /\ conn = "pending" <=> at = "read"

(* Every object is at any time what it was before the call or what the     *)
(* call makes it, so that a crash leaves nothing in between: no copy has   *)
(* the data of the new and the metadata of the old object ("To avoid an    *)
(* inconsistent intermediate state, we use a temporary object",            *)
(* swift.py:608).  The exception is the object of a write whose function   *)
(* has failed or whose upload was damaged: what arrived has replaced it    *)
(* (s3c.py:919), or it is gone (s3c.py:908), and the write does not        *)
(* succeed (OkMeansDone).                                                  *)
AllOrNothing ==
    \A k \in Key :
        \/ objects[k] \in {before[k], Goal[k]}
        \/ Raises /\ k = op.key /\ objects[k] \in {None, Written}

(* A write that fails leaves the old object or the new one.  This does not *)
(* hold: see AllOrNothing.                                                 *)
FailedWriteHarmless == at = "error" /\ op.name = "write" => objects \in {before, Goal}

(* A call that succeeds has reached its goal, whatever was repeated and    *)
(* whenever the token or the temporary object has expired (swift.py:632).  *)
OkMeansDone ==
    at = "ok" =>
        /\ objects = Goal
        /\ op.name \in {"lookup", "read"} => got = before[op.key]

(* NoSuchObject says that there was no object when the call began, not     *)
(* that the call itself has deleted it (swift.py:407).                     *)
MissingExact == at = "NoSuchObject" => before[op.key] = None

(* Every call ends: an expired token is replaced (swift.py:819).           *)
Busy == at \in {"fn", "send", "read"}
CallEnds == Busy ~> ~Busy

(* The backend can be closed after every call: close() uses the connection *)
(* (swift.py:730; "should be called explicitly before a backend object is  *)
(* garbage collected", common.py:455).  This does not hold: after a login  *)
(* that was refused conn stays None (swift.py:821).                        *)
CloseWorks == at \in Result => conn # "none"
=============================================================================
