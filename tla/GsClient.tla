------------------------------ MODULE GsClient ------------------------------
(***************************************************************************)
(* Threads that work with Google Storage (backends/gs.py), every one over  *)
(* a connection from the pool.  They share the access token, which a       *)
(* thread replaces when the server no longer accepts it.  Reading takes    *)
(* two requests, one for the metadata and one for the data, and an upload  *)
(* two answers, one before and one after the data was sent.                *)
(***************************************************************************)
EXTENDS Integers, FiniteSets

CONSTANTS
    Thread,
    Part,      \* what is written when the function that writes fails
    None,
    Settings   \* the settings: records of what is defined from config below

VARIABLES
    config,  \* the setting, which does not change
    objects,        \* of the server
    access_token,   \* the number of the token, 0 if there is none
    accepted,       \* the tokens that the server accepts
    issued,         \* how many tokens the server has issued
    refresh_lock,   \* the thread that holds _refresh_lock
    call,           \* the call that a thread makes
    faults, expired, calls

(* The setting. *)
Key == config.Key
Data == config.Data            \* contents, standing for their MD5 as well
Meta == config.Meta            \* user metadata
Op == config.Op                \* the names of the methods that are called
MaxFaults == config.MaxFaults  \* bound
MaxExpiry == config.MaxExpiry  \* bound: how many tokens expire
MaxCalls == config.MaxCalls    \* bound
Stored == config.Stored        \* what an object may be at first, None if it does not exist

vars == <<config, objects, access_token, accepted, issued, refresh_lock, call, faults, expired, calls>>
tokens == <<access_token, accepted, issued, refresh_lock, expired>>

Object == [data : Data \cup {Part}, meta : Meta]

Final == {"ok", "NoSuchObject", "AuthenticationError", "KeyError", "error"}
Step == {"start", "send", "lock", "refresh", "resend", "body", "read"}

(* A call: its arguments, and in the second line the token of the request, *)
(* whether it is the second attempt of _do_request, the argument is_retry, *)
(* what was received and whether there is a response to be read.  mine and *)
(* seen are history: whether a request of this call has changed something, *)
(* and what the object was during the call.                                *)
Idle == [at |-> "idle", op |-> None, key |-> None, to |-> None, force |-> FALSE, new |-> None,
         used |-> 0, again |-> FALSE, is_retry |-> FALSE, gs_meta |-> None, got |-> None, pending |-> FALSE,
         mine |-> FALSE, seen |-> {}]

Init ==
    /\ config \in Settings
    /\ objects \in [Key -> Stored]
    /\ access_token \in {0, 1}
    /\ issued = access_token /\ accepted = {access_token} \ {0}
    /\ refresh_lock = None
    /\ call = [t \in Thread |-> Idle]
    /\ faults = 0 /\ expired = 0 /\ calls = 0

Fault == faults < MaxFaults /\ faults' = faults + 1
NoFault == UNCHANGED faults

(* The call of the thread is c now, and the objects are o. *)
Becomes(t, c, o) ==
    /\ objects' = o
    /\ call' = [u \in Thread |->
          LET d == IF u = t THEN c ELSE call[u]
          IN  IF d.at \in Step \/ u = t THEN [d EXCEPT !.seen = @ \cup {o[d.key]}] ELSE d]
    /\ UNCHANGED calls

At(t, pc) == [call[t] EXCEPT !.at = pc]
Return(t, r) == [call[t] EXCEPT !.at = r, !.pending = FALSE]

(* retry: the method is called again from its beginning, or the function   *)
(* that called it (perform_read).                                          *)
Again(t) == [call[t] EXCEPT !.at = "start", !.is_retry = TRUE, !.gs_meta = None, !.got = None, !.pending = FALSE]

-----------------------------------------------------------------------------
(* A thread takes a connection from the pool, which was reset when it was  *)
(* put back, and calls a method.                                           *)

Call(t, c) ==
    /\ call[t].at \notin Step /\ calls < MaxCalls
    /\ calls' = calls + 1
    /\ call' = [call EXCEPT ![t] = [c EXCEPT !.at = "start", !.seen = {objects[c.key]}]]
    /\ UNCHANGED <<objects, tokens, faults>>

delete(t, k, force) == Call(t, [Idle EXCEPT !.op = "delete", !.key = k, !.force = force])
lookup(t, k) == Call(t, [Idle EXCEPT !.op = "lookup", !.key = k])
perform_read(t, k) == Call(t, [Idle EXCEPT !.op = "read", !.key = k])
update_meta(t, k, m) == Call(t, [Idle EXCEPT !.op = "update_meta", !.key = k, !.new = m])
copy(t, k, to, m) == Call(t, [Idle EXCEPT !.op = "copy", !.key = k, !.to = to, !.new = m])

(* If the function that writes fails ObjectW is closed all the same, which *)
(* uploads what it has.                                                    *)
perform_write(t, k, d, m) == Call(t, [Idle EXCEPT !.op = "write", !.key = k, !.new = [data |-> d, meta |-> m]])

-----------------------------------------------------------------------------
(* _do_request: the token that every thread uses. *)

Start(t) ==
    /\ call[t].at = "start"
    /\ Becomes(t, [call[t] EXCEPT !.at = IF access_token = 0 THEN "lock" ELSE "send",
                                  !.used = access_token, !.again = FALSE], objects)
    /\ UNCHANGED <<tokens, faults>>

MustRefresh(t) == call[t].used = 0 \/ access_token = call[t].used

Acquire(t) ==
    /\ call[t].at = "lock" /\ refresh_lock = None
    /\ Becomes(t, At(t, IF MustRefresh(t) THEN "refresh" ELSE "resend"), objects)
    /\ refresh_lock' = IF MustRefresh(t) THEN t ELSE None
    /\ UNCHANGED <<access_token, accepted, issued, expired, faults>>

_get_access_token(t) ==
    /\ call[t].at = "refresh"
    /\ refresh_lock' = None
    /\ issued' = issued + 1 /\ access_token' = issued + 1 /\ accepted' = accepted \cup {issued + 1}
    /\ Becomes(t, At(t, "resend"), objects)
    /\ NoFault /\ UNCHANGED expired

(* Mutant: the lock is not released after an error. *)
KeepLock == UNCHANGED refresh_lock

Release == refresh_lock' = None

(* The refresh token is refused, or the answer does not arrive. *)
RefreshFails(t) ==
    /\ call[t].at = "refresh"
    /\ Fault
    /\ Release
    /\ \E c \in {Return(t, "AuthenticationError"), Again(t)} : Becomes(t, c, objects)
    /\ UNCHANGED <<access_token, accepted, issued, expired>>

(* The token may have been removed in the meantime. *)
Resend(t) ==
    /\ call[t].at = "resend"
    /\ Becomes(t, IF access_token = 0 THEN Return(t, "KeyError")
                  ELSE [call[t] EXCEPT !.at = "send", !.used = access_token, !.again = TRUE], objects)
    /\ UNCHANGED <<tokens, faults>>

Expire ==
    /\ expired < MaxExpiry /\ expired' = expired + 1
    /\ \E k \in accepted : accepted' = accepted \ {k}
    /\ UNCHANGED <<objects, access_token, issued, refresh_lock, call, faults, calls>>

(* 401: the response is discarded and a new token needed; after a new      *)
(* token it is an error.                                                   *)
Unauthorized(t) ==
    /\ call[t].at = "send" /\ call[t].used \notin accepted
    /\ Becomes(t, IF call[t].again THEN Return(t, "AuthenticationError") ELSE At(t, "lock"), objects)
    /\ UNCHANGED <<tokens, faults>>

-----------------------------------------------------------------------------
(* The request itself. *)

Asked(t) == call[t].at = "send" /\ call[t].used \in accepted /\ UNCHANGED tokens

Missing(t) == call[t].op # "write" /\ objects[call[t].key] = None

Effect(t) ==
    LET c == call[t] IN
    CASE c.op = "delete"      -> [objects EXCEPT ![c.key] = None]
      [] c.op = "update_meta" -> [objects EXCEPT ![c.key].meta = c.new]
      [] c.op = "copy"        -> [objects EXCEPT ![c.to] = [objects[c.key] EXCEPT !.meta = IF c.new = None THEN @ ELSE c.new]]
      [] OTHER                -> objects

Changes(t) == call[t].op \in {"delete", "update_meta", "copy"}

(* Mutant: delete does not look at is_retry. *)
OnlyForce(t) == call[t].op = "delete" /\ call[t].force

MayBeMissing(t) == call[t].op = "delete" /\ (call[t].force \/ call[t].is_retry)

NotFound(t) ==
    /\ Asked(t) /\ Missing(t)
    /\ Becomes(t, Return(t, IF MayBeMissing(t) THEN "ok" ELSE "NoSuchObject"), objects)
    /\ NoFault

Success(t) ==
    /\ Asked(t) /\ ~Missing(t) /\ (Changes(t) \/ call[t].op = "lookup")
    /\ Becomes(t, [Return(t, "ok") EXCEPT !.mine = Changes(t), !.got = objects[call[t].key]], Effect(t))
    /\ NoFault

(* Mutant: the answer is not parsed. *)
AssumeDone(t) ==
    /\ Asked(t) /\ Fault
    /\ Becomes(t, Return(t, "ok"), objects)

(* The server fails before or after it has done what it was asked for, or  *)
(* its answer is not JSON: is_temp_failure.                                *)
TempFailure(t) ==
    /\ Asked(t) /\ Fault
    /\ \/ Becomes(t, Again(t), objects)
       \/ ~Missing(t) /\ Changes(t) /\ Becomes(t, [Again(t) EXCEPT !.mine = TRUE], Effect(t))

(* Any other error, e.g. Forbidden, or metadata that cannot be parsed. *)
PermanentFailure(t) ==
    /\ Asked(t) /\ Fault
    /\ Becomes(t, Return(t, "error"), objects)

-----------------------------------------------------------------------------
(* open_read, and ObjectR. *)

GetMeta(t) ==
    /\ Asked(t) /\ ~Missing(t) /\ call[t].op = "read" /\ call[t].gs_meta = None
    /\ Becomes(t, [At(t, "start") EXCEPT !.gs_meta = objects[call[t].key]], objects)
    /\ NoFault

GetData(t) ==
    /\ Asked(t) /\ ~Missing(t) /\ call[t].op = "read" /\ call[t].gs_meta # None
    /\ Becomes(t, [At(t, "read") EXCEPT !.got = objects[call[t].key], !.pending = TRUE], objects)
    /\ NoFault

(* Mutant: the data is not compared with md5Hash. *)
AnyDigest(t) == TRUE

DigestMatches(t) == call[t].got.data = call[t].gs_meta.data

(* The data is read to its end; what is returned has the metadata of the   *)
(* first request.                                                          *)
ReadAll(t) ==
    /\ call[t].at = "read" /\ NoFault /\ UNCHANGED tokens
    /\ Becomes(t, IF DigestMatches(t) THEN [Return(t, "ok") EXCEPT !.got.meta = call[t].gs_meta.meta] ELSE Again(t), objects)

(* Mutant: the connection is left as it is. *)
KeepConn(t) == [Again(t) EXCEPT !.pending = TRUE]

(* ObjectR.close before the end of the data. *)
CloseEarly(t) == Again(t)

(* The data is damaged, the connection lost, or the function that reads    *)
(* fails: with an error that may be temporary or with another one.         *)
ReadFails(t) ==
    /\ call[t].at = "read" /\ Fault /\ UNCHANGED tokens
    /\ \E c \in {CloseEarly(t), Return(t, "error")} : Becomes(t, c, objects)

-----------------------------------------------------------------------------
(* write_fh: the answer 100, and the one after the data. *)

Continue(t) ==
    /\ Asked(t) /\ call[t].op = "write"
    /\ Becomes(t, At(t, "body"), objects)
    /\ NoFault

Upload(t) ==
    /\ call[t].at = "body" /\ call[t].used \in accepted /\ UNCHANGED tokens
    /\ LET o == [objects EXCEPT ![call[t].key] = call[t].new] IN
       \/ /\ NoFault
          /\ Becomes(t, [Return(t, IF call[t].new.data = Part THEN "error" ELSE "ok") EXCEPT !.mine = TRUE], o)
       \/ Fault /\ Becomes(t, [Again(t) EXCEPT !.mine = TRUE], o)
       \/ Fault /\ Becomes(t, Again(t), objects)

(* The token has expired while the data was sent: AccessTokenExpired, for  *)
(* which is_temp_failure removes whatever token there is now.              *)
AccessTokenExpired(t) ==
    /\ call[t].at = "body" /\ call[t].used \notin accepted
    /\ access_token' = 0
    /\ Becomes(t, Again(t), objects)
    /\ UNCHANGED <<accepted, issued, refresh_lock, expired, faults>>

-----------------------------------------------------------------------------
Call_(t) ==
    \E k \in Key :
      \/ \E f \in BOOLEAN : "delete" \in Op /\ delete(t, k, f)
      \/ "lookup" \in Op /\ lookup(t, k)
      \/ "read" \in Op /\ perform_read(t, k)
      \/ \E d \in Data \cup {Part}, m \in Meta : "write" \in Op /\ perform_write(t, k, d, m)
      \/ \E m \in Meta : "update_meta" \in Op /\ update_meta(t, k, m)
      \/ \E to \in Key \ {k}, m \in Meta \cup {None} : "copy" \in Op /\ copy(t, k, to, m)

Work(t) ==
    \/ Start(t) \/ Acquire(t) \/ _get_access_token(t) \/ RefreshFails(t) \/ Resend(t) \/ Unauthorized(t)
    \/ NotFound(t) \/ Success(t) \/ TempFailure(t) \/ PermanentFailure(t)
    \/ GetMeta(t) \/ GetData(t) \/ ReadAll(t) \/ ReadFails(t)
    \/ Continue(t) \/ Upload(t) \/ AccessTokenExpired(t)

Next == Expire \/ \E t \in Thread : Call_(t) \/ Work(t)

(* A thread that can go on does. *)
Spec == /\ Init /\ [][Next /\ UNCHANGED config]_vars
        /\ \A t \in Thread : WF_vars(Work(t) /\ UNCHANGED config)

-----------------------------------------------------------------------------
Done(t, op) == call[t].at = "ok" /\ call[t].op = op

(* The types, and a token is never taken from two places: the one in use   *)
(* is one that the server has issued, and who requests one has the lock    *)
(* (gs.py:640).                                                            *)
TypeOK ==
    /\ objects \in [Key -> {None} \cup Object]
    /\ issued \in Nat /\ access_token \in 0 .. issued /\ accepted \subseteq 1 .. issued
    /\ \A t \in Thread :
         /\ call[t].at \in Step \cup Final \cup {"idle"}
         /\ call[t].used \in 0 .. issued
         /\ call[t].at = "refresh" <=> refresh_lock = t

(* A read returns metadata and data that the object had together at some   *)
(* time during the call, although they are requested one after the other   *)
(* (gs.py:333, 339) and others write in between.                           *)
ReadExact ==
    \A t \in Thread : Done(t, "read") \/ Done(t, "lookup") => call[t].got \in call[t].seen

(* A call that changes something and succeeds has done so itself, and what *)
(* was written is complete; also if the token expires during the upload    *)
(* (gs.py:438).                                                            *)
WriteExact ==
    \A t \in Thread : \A op \in {"write", "update_meta", "copy"} :
        Done(t, op) => call[t].mine /\ (op = "write" => call[t].new.data # Part)

(* delete fails with NoSuchObject only if the object was missing without   *)
(* its doing: not because the answer to its own request was lost           *)
(* (gs.py:255).                                                            *)
DeleteExact ==
    \A t \in Thread : call[t].op = "delete" =>
        /\ call[t].at = "ok" => None \in call[t].seen
        /\ call[t].at = "NoSuchObject" => ~call[t].mine

(* A request is only sent over a connection whose last response was read   *)
(* to its end (gs.py:848).                                                 *)
InStep == \A t \in Thread : call[t].pending => call[t].at = "read"

(* Nobody requests a token when there is a valid one (gs.py:101, 643).     *)
(* This does not hold: a thread that found none asks for one when it gets  *)
(* the lock, although another has just stored one.                         *)
RefreshOnce ==
    [][\A t \in Thread : _get_access_token(t) => access_token \notin accepted]_vars

(* Threads that notice at the same time that the token has expired do not  *)
(* disturb each other (gs.py:213).  This does not hold: another thread may *)
(* have removed the token outside of the lock (gs.py:651).                 *)
ExpiryHandled == \A t \in Thread : call[t].at # "KeyError"

(* Every call ends: a thread does not wait for the lock for ever           *)
(* (gs.py:640).                                                            *)
Busy(t) == call[t].at \in Step
CallEnds == \A t \in Thread : Busy(t) ~> ~Busy(t)
=============================================================================
