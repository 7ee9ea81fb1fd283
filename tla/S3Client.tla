------------------------------ MODULE S3Client ------------------------------
(***************************************************************************)
(* A thread that works with an S3 compatible server over a connection from *)
(* the pool (backends/s3c.py, common.py, pool.py): requests are repeated   *)
(* as long as the failure may be temporary.  The server may have done what *)
(* it was asked for although no answer arrives, and what arrives may not   *)
(* be what was sent.                                                       *)
(* The server is consistent: a request is answered by what the last one    *)
(* left, which is more than s3c.py:47 takes for granted.                   *)
(*                                                                         *)
(* An object is the number of its version; 0 if there is none, negative if *)
(* only a part of the data was written.                                    *)
(***************************************************************************)
EXTENDS Integers, FiniteSets

CONSTANTS
    Key,
    CopyFails,  \* the server may report that a copy failed after a 200 OK
    MaxTries,   \* the repetitions before RETRY_TIMEOUT has passed
    MaxFaults,  \* bound
    MaxWrites,  \* bound
    None,
    Settings    \* the settings: records of what is defined from config below

VARIABLES
    config,  \* the setting, which does not change
    server,   \* the objects
    conn,     \* "free" in the pool, "clean", or "pending": there is a response to be read
    op,       \* the call that is being made
    phase,    \* what it does: "idle", "fn", "send", "body", "undo", "done"
    inner, outer, \* the repetitions, of the method and of the one that calls it
    sent,     \* the requests of the call
    result,   \* of the call: "ok", "NoSuchObject", "error"
    value,    \* what a read returned
    before,   \* history: the objects when the call began
    faults, writes

(* The setting. *)
DumbCopy == config.DumbCopy  \* the option dumb-copy

vars == <<config, server, conn, op, phase, inner, outer, sent, result, value, before, faults, writes>>

NoOp == [name |-> None, key |-> None, to |-> None, force |-> FALSE, val |-> 0]

Init ==
    /\ config \in Settings
    /\ server = [k \in Key |-> 0]
    /\ conn = "free"
    /\ op = NoOp /\ phase = "idle" /\ inner = 0 /\ outer = 0 /\ sent = 0
    /\ result = None /\ value = 0 /\ before = server
    /\ faults = 0 /\ writes = 0

(* perform_read and perform_write are repeated, and so are open_read and   *)
(* ObjectW.close, which they call.                                         *)
Nested == op.name \in {"read", "write"}

Fault == faults < MaxFaults /\ faults' = faults + 1
NoFault == UNCHANGED faults

-----------------------------------------------------------------------------
(* pop_conn and the beginning of a call. *)

Begin(o) ==
    /\ phase = "idle"
    /\ op' = o
    /\ conn' = IF conn = "free" THEN "clean" ELSE conn
    /\ phase' = IF o.name = "write" THEN "fn" ELSE "send"
    /\ before' = server
    /\ inner' = 0 /\ outer' = 0 /\ sent' = 0 /\ value' = 0 /\ result' = None
    /\ UNCHANGED <<server, faults>>

delete(k, force) == Begin([NoOp EXCEPT !.name = "delete", !.key = k, !.force = force]) /\ UNCHANGED writes
lookup(k) == Begin([NoOp EXCEPT !.name = "lookup", !.key = k]) /\ UNCHANGED writes
perform_read(k) == Begin([NoOp EXCEPT !.name = "read", !.key = k]) /\ UNCHANGED writes
copy(k, to) == Begin([NoOp EXCEPT !.name = "copy", !.key = k, !.to = to]) /\ UNCHANGED writes
perform_write(k) ==
    /\ writes < MaxWrites
    /\ Begin([NoOp EXCEPT !.name = "write", !.key = k, !.val = writes + 1])
    /\ writes' = writes + 1

Return(r) ==
    /\ phase' = "done" /\ result' = r
    /\ UNCHANGED <<inner, outer>>

(* retry: an error that may be temporary.  The timeout of the inner loop   *)
(* is an error of the same kind for the outer one.                         *)
Retry ==
    IF inner < MaxTries
    THEN /\ inner' = inner + 1 /\ phase' = "send" /\ UNCHANGED <<outer, result>>
    ELSE IF Nested /\ outer < MaxTries
    THEN /\ outer' = outer + 1 /\ inner' = 0 /\ UNCHANGED result
         /\ phase' = IF op.name = "write" THEN "fn" ELSE "send"
    ELSE Return("error")

(* Mutant: the first attempt is not remembered. *)
NeverRetry == FALSE

is_retry == inner > 0

-----------------------------------------------------------------------------
(* The function that writes: it may fail, and then ObjectW.__exit__ closes *)
(* the object nevertheless, with what was written until then.              *)

fn ==
    /\ phase = "fn"
    /\ phase' = "send"
    /\ \/ NoFault /\ op' = [op EXCEPT !.val = writes]
       \/ Fault /\ op' = [op EXCEPT !.val = -writes]
    /\ UNCHANGED <<server, conn, inner, outer, sent, result, value, before, writes>>

(* Mutant: the response of a copy is not looked at. *)
NoBodyCheck == Return("ok")

(* What the server does with the request. *)
Effect ==
    CASE op.name = "delete" -> [server EXCEPT ![op.key] = 0]
      [] op.name = "copy"   -> IF server[op.key] = 0 THEN server
                               ELSE [server EXCEPT ![op.to] = server[op.key]]
      [] op.name = "write"  -> [server EXCEPT ![op.key] = op.val]
      [] OTHER              -> server

(* No answer arrives, whether or not the server has got the request; or    *)
(* the server answers that it failed (5xx).  is_temp_failure resets the    *)
(* connection if that has failed.                                          *)
TempFailure ==
    /\ phase = "send" /\ Fault
    /\ server' \in {server, Effect}
    /\ conn' = "clean"
    /\ sent' = sent + 1
    /\ Retry
    /\ UNCHANGED <<op, value, before, writes>>

(* The server refuses the request, for good. *)
PermanentFailure ==
    /\ phase = "send" /\ Fault
    /\ sent' = sent + 1
    /\ Return("error")
    /\ UNCHANGED <<server, conn, op, value, before, writes>>

Missing == op.name # "write" /\ server[op.key] = 0

(* Mutant: a missing object is taken for a temporary failure. *)
NoSuchKeyTemp ==
    /\ phase = "send" /\ Missing
    /\ inner' = IF inner < MaxTries THEN inner + 1 ELSE 1
    /\ UNCHANGED <<server, conn, op, phase, outer, sent, result, value, before, faults, writes>>

(* NoSuchKey, or 404.  The server may have deleted the object although we  *)
(* did not receive the response.                                           *)
NoSuchKey ==
    /\ phase = "send" /\ Missing
    /\ sent' = sent + 1
    /\ Return(IF op.name = "delete" /\ (op.force \/ is_retry) THEN "ok" ELSE "NoSuchObject")
    /\ NoFault
    /\ UNCHANGED <<server, conn, op, value, before, writes>>

Success ==
    /\ phase = "send" /\ op.name \in {"delete", "lookup", "copy"} /\ ~Missing
    /\ server' = Effect
    /\ sent' = sent + 1
    /\ Return("ok")
    /\ NoFault
    /\ UNCHANGED <<conn, op, value, before, writes>>

CopyFailed == IF DumbCopy THEN Return("ok") ELSE Retry

(* The body of the response to a copy says that it failed. *)
CopyError ==
    /\ phase = "send" /\ op.name = "copy" /\ ~Missing /\ CopyFails /\ Fault
    /\ sent' = sent + 1
    /\ CopyFailed
    /\ UNCHANGED <<server, conn, op, value, before, writes>>

-----------------------------------------------------------------------------
(* ObjectW.close: the data is uploaded.  If that changed it, then the ETag *)
(* of the response is not the MD5 that was calculated while writing: the   *)
(* object is deleted, which may fail, and the upload repeated.             *)

(* A version that nobody wrote. *)
Garbled == -99

(* After an upload without an error the exception of fn, if there was one, *)
(* is raised again.                                                        *)
Upload ==
    /\ phase = "send" /\ op.name = "write"
    /\ server' = Effect
    /\ sent' = sent + 1
    /\ Return(IF op.val > 0 THEN "ok" ELSE "error")
    /\ NoFault
    /\ UNCHANGED <<conn, op, value, before, writes>>

(* Mutant: the ETag is not compared. *)
UploadUnchecked ==
    /\ phase = "send" /\ op.name = "write" /\ Fault
    /\ server' = [server EXCEPT ![op.key] = Garbled]
    /\ sent' = sent + 1
    /\ Return("ok")
    /\ UNCHANGED <<conn, op, value, before, writes>>

UploadGarbled ==
    /\ phase = "send" /\ op.name = "write" /\ Fault
    /\ server' = [server EXCEPT ![op.key] = Garbled]
    /\ sent' = sent + 1
    /\ phase' = "undo"
    /\ UNCHANGED <<conn, op, inner, outer, result, value, before, writes>>

Undo ==
    /\ phase = "undo"
    /\ \/ server' = [server EXCEPT ![op.key] = 0] /\ NoFault
       \/ UNCHANGED server /\ Fault
    /\ Retry
    /\ UNCHANGED <<conn, op, sent, value, before, writes>>

-----------------------------------------------------------------------------
(* open_read: the body of the response follows. *)

OpenRead ==
    /\ phase = "send" /\ op.name = "read" /\ ~Missing
    /\ sent' = sent + 1
    /\ conn' = "pending"
    /\ phase' = "body"
    /\ NoFault
    /\ UNCHANGED <<server, op, inner, outer, result, value, before, writes>>

(* _extractmeta: the MD5 of the metadata is wrong; the rest is thrown away *)
(* or the connection closed.                                               *)
BadMeta ==
    /\ phase = "send" /\ op.name = "read" /\ ~Missing /\ Fault
    /\ sent' = sent + 1
    /\ conn' = "clean"
    /\ Retry
    /\ UNCHANGED <<server, op, value, before, writes>>

(* An error of fn or of the connection goes to perform_read.               *)
OuterRetry ==
    IF outer < MaxTries
    THEN phase' = "send" /\ outer' = outer + 1 /\ inner' = 0 /\ UNCHANGED result
    ELSE Return("error")

DigestMatches(v) == v = server[op.key]

(* The object is read to its end, where the MD5 is checked. *)
Read(v) ==
    /\ phase = "body"
    /\ conn' = "clean"
    /\ IF DigestMatches(v) THEN value' = v /\ Return("ok")
                           ELSE OuterRetry /\ UNCHANGED value
    /\ IF v = server[op.key] THEN NoFault ELSE Fault
    /\ UNCHANGED <<server, op, sent, before, writes>>

(* Mutant: the connection is kept. *)
KeepConn == conn

(* ObjectR.close before the end was reached disconnects, or else the next  *)
(* request would get the rest of this response.                            *)
CloseEarly == "clean"

(* The connection fails, or fn does: for good, or temporarily. *)
ReadFails(temp) ==
    /\ phase = "body" /\ Fault
    /\ conn' = CloseEarly
    /\ IF temp THEN OuterRetry ELSE Return("error")
    /\ UNCHANGED <<server, op, sent, value, before, writes>>

-----------------------------------------------------------------------------
(* push_conn: the connection goes back to the pool, after a reset. *)
End ==
    /\ phase = "done"
    /\ phase' = "idle"
    /\ conn' = "free"
    /\ op' = NoOp /\ result' = None /\ value' = 0 /\ before' = server
    /\ inner' = 0 /\ outer' = 0 /\ sent' = 0
    /\ UNCHANGED <<server, faults, writes>>

Step ==
    \/ fn \/ TempFailure \/ PermanentFailure \/ NoSuchKey \/ Success \/ CopyError
    \/ Upload \/ UploadGarbled \/ Undo
    \/ OpenRead \/ BadMeta \/ \E v \in {Garbled} \cup {server[k] : k \in Key} : Read(v)
    \/ \E temp \in BOOLEAN : ReadFails(temp)
    \/ End

Next ==
    \/ \E k \in Key : \/ \E force \in BOOLEAN : delete(k, force)
                      \/ lookup(k) \/ perform_read(k) \/ perform_write(k)
                      \/ \E to \in Key \ {k} : copy(k, to)
    \/ Step

Spec == Init /\ [][Next /\ UNCHANGED config]_vars /\ WF_vars(Step /\ UNCHANGED config)

-----------------------------------------------------------------------------
(* The thread has a connection exactly while it makes a call. *)
TypeOK ==
    /\ server \in [Key -> {Garbled} \cup (-MaxWrites .. MaxWrites)]
    /\ conn \in {"free", "clean", "pending"}
    /\ phase \in {"idle", "fn", "send", "body", "undo", "done"}
    /\ inner \in 0 .. MaxTries /\ outer \in 0 .. MaxTries
    /\ (phase = "idle") <=> (conn = "free")

(* No request is sent while there is a response to be read. *)
InStep == phase = "send" => conn = "clean"

Returned(name, r) == phase = "done" /\ op.name = name /\ result = r

(* delete succeeds only if the object is gone, and does not complain about *)
(* an object that was there: an answer that was lost does not matter.      *)
DeleteExact ==
    /\ Returned("delete", "ok") => server[op.key] = 0
    /\ Returned("delete", "NoSuchObject") => before[op.key] = 0

(* After a write without an error the server has all of the object, and    *)
(* nothing that was damaged on the way.                                    *)
WriteExact == Returned("write", "ok") => server[op.key] = op.val /\ op.val > 0

(* A read without an error returns what the server has. *)
ReadExact == Returned("read", "ok") => value = server[op.key]

(* After a copy without an error the destination is the same as the        *)
(* source, and the source is what it was.                                  *)
CopyExact ==
    Returned("copy", "ok") => server[op.to] = server[op.key] /\ server[op.key] = before[op.key]

(* Every call comes to an end. *)
Busy == phase # "idle"
CallEnds == Busy ~> ~Busy

(* An error that persists is raised after RETRY_TIMEOUT (common.py:85).    *)
(* This does not hold: retry is nested, and the outer loop starts the      *)
(* inner one again after its timeout (common.py:269).                      *)
OneTimeout == sent <= MaxTries + 1
=============================================================================
