------------------------------ MODULE B2Client ------------------------------
(***************************************************************************)
(* The Backblaze B2 backend (backends/b2): every write adds a version of   *)
(* the file, delete removes all of them, uploads go to URLs that are asked *)
(* for and kept, and the account has to be authorized again from time to   *)
(* time.  One thread uses the backend.                                     *)
(***************************************************************************)
EXTENDS Integers, Sequences, FiniteSets

CONSTANTS
    Key,
    MaxFaults,  \* bound
    MaxWrites,  \* bound: versions
    None,
    Settings    \* the settings: records of what is defined from config below

VARIABLES
    config,  \* the setting, which does not change
    files,  \* the versions of every file, the newest first: <<file id, what was written>>
    nid,    \* the file ids that were given out
    latest, \* history: the newest version there has been
    auth,   \* the authorization token: "none", "valid", "expired"
    urls,   \* available_upload_url_infos: number of the URL |-> is it uploading
    nurl,   \* the URLs that were requested
    op, phase,
    url,    \* the upload URL in use
    ids,    \* the file ids that are left to delete, or the one to copy
    retried, result,
    before, \* history: the versions when the call began
    faults, count

(* The setting. *)
DisableVersions == config.DisableVersions  \* the option disable-versions
Kinds == config.Kinds                      \* the faults: "lost", "busy", "expired", "limited", "refused", "damaged", "fn"

vars == <<config, files, nid, latest, auth, urls, nurl, op, phase, url, ids, retried, result, before, faults, count>>

NoOp == [name |-> None, key |-> None, to |-> None, force |-> FALSE, val |-> 0]

Init ==
    /\ config \in Settings
    /\ files = [k \in Key |-> <<>>] /\ nid = 0 /\ latest = [k \in Key |-> 0]
    /\ auth = "none" /\ urls = [u \in {} |-> FALSE] /\ nurl = 0
    /\ op = NoOp /\ phase = "idle" /\ url = 0 /\ ids = <<>> /\ retried = FALSE
    /\ result = None /\ before = files
    /\ faults = 0 /\ count = 0

Fault(kind) == kind \in Kinds /\ faults < MaxFaults /\ faults' = faults + 1
NoFault == UNCHANGED faults
Without(f, x) == [y \in DOMAIN f \ {x} |-> f[y]]
Newest(k) == IF files[k] = <<>> THEN 0 ELSE files[k][1][2]

AddVersion(k, v) ==
    /\ files' = [files EXCEPT ![k] = <<<<nid + 1, v>>>> \o @]
    /\ nid' = nid + 1
    /\ latest' = [latest EXCEPT ![k] = v]

Goto(p) == phase' = p /\ UNCHANGED result
Return(r) == phase' = "done" /\ result' = r

-----------------------------------------------------------------------------
Begin(o, p) ==
    /\ phase = "idle" /\ op' = o /\ phase' = p
    /\ before' = files /\ result' = None /\ ids' = <<>> /\ retried' = FALSE
    /\ UNCHANGED <<files, nid, latest, auth, urls, nurl, url, faults>>

perform_write(k) ==
    /\ count < MaxWrites /\ count' = count + 1
    /\ Begin([NoOp EXCEPT !.name = "write", !.key = k, !.val = count + 1], "fn")
delete(k, force) ==
    /\ Begin([NoOp EXCEPT !.name = "delete", !.key = k, !.force = force], "list") /\ UNCHANGED count
copy(k, to) ==
    /\ count < MaxWrites /\ count' = count + 1
    /\ Begin([NoOp EXCEPT !.name = "copy", !.key = k, !.to = to, !.val = count + 1], "head")
perform_read(k) == Begin([NoOp EXCEPT !.name = "read", !.key = k], "get") /\ UNCHANGED count

(* _authorize_account, when there is no token or url. *)
_authorize_account ==
    /\ phase \notin {"idle", "done"} /\ auth = "none"
    /\ auth' = "valid"
    /\ UNCHANGED <<files, nid, latest, urls, nurl, op, phase, url, ids, retried, result, before, faults, count>>

(* The token is valid for a day; the server then refuses it with a 401.    *)
Expire ==
    /\ auth = "valid" /\ Fault("expired")
    /\ auth' = "expired"
    /\ UNCHANGED <<files, nid, latest, urls, nurl, op, phase, url, ids, retried, result, before, count>>

(* Mutant: the token is kept. *)
StillUnauthorized ==
    /\ phase \in {"list", "head", "copy", "get", "url"} /\ auth = "expired"
    /\ UNCHANGED vars

(* _reset_authorization_values *)
Unauthorized ==
    /\ phase \in {"list", "head", "copy", "get", "url"} /\ auth = "expired"
    /\ phase = "url" => \A u \in DOMAIN urls : urls[u]
    /\ auth' = "none"
    /\ phase' = IF phase = "copy" THEN "head" ELSE phase \* copy begins again
    /\ UNCHANGED <<files, nid, latest, urls, nurl, op, url, ids, retried, result, before, faults, count>>

Can(p) == phase = p /\ auth = "valid"

-----------------------------------------------------------------------------
(* Uploads *)

(* The function that writes: if it fails, then ObjectW.__exit__ uploads    *)
(* what was written until then, a version of its own.                      *)
fn ==
    /\ phase = "fn" /\ Goto("url")
    /\ \/ NoFault /\ UNCHANGED op
       \/ Fault("fn") /\ op' = [op EXCEPT !.val = -op.val]
    /\ UNCHANGED <<files, nid, latest, auth, urls, nurl, url, ids, retried, before, count>>

(* _get_upload_url_info: one that is not in use, or a new one. *)
_get_upload_url_info ==
    /\ phase = "url"
    /\ LET free == {u \in DOMAIN urls : ~urls[u]}
       IN IF free # {}
          THEN /\ url' = CHOOSE u \in free : \A w \in free : u <= w
               /\ urls' = [urls EXCEPT ![url'] = TRUE]
               /\ UNCHANGED nurl
          ELSE /\ auth = "valid"
               /\ nurl' = nurl + 1 /\ url' = nurl + 1
               /\ urls' = [u \in DOMAIN urls \cup {nurl + 1} |-> IF u = nurl + 1 THEN TRUE ELSE urls[u]]
    /\ Goto("upload")
    /\ UNCHANGED <<files, nid, latest, auth, op, ids, retried, before, faults, count>>

Upload ==
    /\ phase = "upload"
    /\ AddVersion(op.key, op.val)
    /\ urls' = [urls EXCEPT ![url] = FALSE]
    /\ Return(IF op.val > 0 THEN "ok" ELSE "error") /\ NoFault
    /\ UNCHANGED <<auth, nurl, op, url, ids, retried, before, count>>

(* Mutant: the URL that did not work stays in the list. *)
KeepUrl == urls

_invalidate_upload_url == Without(urls, url)

(* Mutant: an upload without an answer is taken for a success. *)
UploadAssumed ==
    /\ phase = "upload" /\ Fault("lost")
    /\ urls' = Without(urls, url)
    /\ Return("ok")
    /\ UNCHANGED <<files, nid, latest, auth, nurl, op, url, ids, retried, before, count>>

(* The answer is lost, or the URL is too busy (503): another URL, please.  *)
UploadTemp ==
    /\ phase = "upload"
    /\ \/ Fault("lost") /\ (AddVersion(op.key, op.val) \/ UNCHANGED <<files, nid, latest>>)
       \/ Fault("busy") /\ UNCHANGED <<files, nid, latest>>
    /\ urls' = _invalidate_upload_url
    /\ Goto("url")
    /\ UNCHANGED <<auth, nurl, op, url, ids, retried, before, count>>

(* The token of the URL has expired, the server wants fewer requests (408, *)
(* 429) or fails (500), or it refuses the upload.  Whatever the status, if *)
(* it is not 503, the URL stays marked as in use.                          *)
UploadB2Error ==
    /\ phase = "upload"
    /\ \/ Fault("expired") /\ auth' = "none" /\ Goto("url")
       \/ Fault("limited") /\ Goto("url") /\ UNCHANGED auth
       \/ Fault("refused") /\ Return("error") /\ UNCHANGED auth
    /\ UNCHANGED <<files, nid, latest, urls, nurl, op, url, ids, retried, before, count>>

(* Any other exception: the connection is reset, the URL may be used again. *)
UploadOther ==
    /\ phase = "upload" /\ Fault("damaged")
    /\ urls' = [urls EXCEPT ![url] = FALSE]
    /\ Return("error")
    /\ UNCHANGED <<files, nid, latest, auth, nurl, op, url, ids, retried, before, count>>

-----------------------------------------------------------------------------
(* delete: the versions are listed, or the newest one looked up, and       *)
(* deleted one after the other.                                            *)

(* Mutant: only the first version is listed. *)
ListFirst(k) == IF files[k] = <<>> THEN <<>> ELSE <<files[k][1]>>

_list_file_versions(k) ==
    IF DisableVersions THEN IF files[k] = <<>> THEN <<>> ELSE <<files[k][1]>> ELSE files[k]

ListVersions ==
    /\ Can("list")
    /\ ids' = _list_file_versions(op.key)
    /\ IF ids' = <<>> THEN Return("NoSuchObject") ELSE Goto("ids")
    /\ UNCHANGED <<files, nid, latest, auth, urls, nurl, op, url, retried, before, faults, count>>

(* The server deletes a version; the id of a version is used only once. *)
Exists(v) == \E i \in DOMAIN files[op.key] : files[op.key][i] = v
Place(v) == CHOOSE i \in DOMAIN files[op.key] : files[op.key][i] = v
Remove(v) ==
    IF Exists(v)
    THEN files' = [files EXCEPT ![op.key] = SubSeq(@, 1, Place(v) - 1) \o SubSeq(@, Place(v) + 1, Len(@))]
    ELSE UNCHANGED files

(* Mutant: an earlier attempt is not remembered. *)
Forced == op.force

(* The server may have deleted the version although we did not receive the *)
(* response.                                                               *)
MayBeMissing == op.force \/ retried

_delete_file_id ==
    /\ Can("ids")
    /\ LET v == ids[1]
       IN IF Exists(v) \/ MayBeMissing
          THEN /\ Remove(v) /\ ids' = Tail(ids)
               /\ IF ids' = <<>> THEN Return("ok") ELSE Goto("ids")
          ELSE Return("error") /\ UNCHANGED <<files, ids>>
    /\ UNCHANGED <<nid, latest, auth, urls, nurl, op, url, retried, before, faults, count>>

(* What was deleted is taken out of the list, and the rest tried again.    *)
DeleteTemp ==
    /\ phase = "ids"
    /\ \/ auth = "valid" /\ Fault("lost") /\ (Remove(ids[1]) \/ UNCHANGED files) /\ UNCHANGED auth
       \/ auth = "expired" /\ auth' = "none" /\ UNCHANGED <<files, faults>>
    /\ retried' = TRUE
    /\ UNCHANGED <<nid, latest, urls, nurl, op, phase, url, ids, result, before, count>>

DeleteRefused ==
    /\ Can("ids") /\ Fault("refused")
    /\ Return("error")
    /\ UNCHANGED <<files, nid, latest, auth, urls, nurl, op, url, ids, retried, before, count>>

-----------------------------------------------------------------------------
(* copy: the id of the newest version, then a copy of that. *)

_get_file_id_and_name ==
    /\ Can("head")
    /\ IF files[op.key] = <<>> THEN Return("NoSuchObject") /\ UNCHANGED ids
       ELSE ids' = <<files[op.key][1]>> /\ Goto("copy")
    /\ UNCHANGED <<files, nid, latest, auth, urls, nurl, op, url, retried, before, faults, count>>

CopyFile ==
    /\ Can("copy")
    /\ \/ AddVersion(op.to, op.val) /\ Return("ok") /\ NoFault
       \/ Fault("lost") /\ (AddVersion(op.to, op.val) \/ UNCHANGED <<files, nid, latest>>) /\ Goto("head")
    /\ UNCHANGED <<auth, urls, nurl, op, url, ids, retried, before, count>>

(* The object is read to its end and its SHA1 compared.  A BadDigestError  *)
(* is none of the failures that is_temp_failure knows.                     *)
Read ==
    /\ Can("get")
    /\ \/ NoFault /\ Return(IF files[op.key] = <<>> THEN "NoSuchObject" ELSE "ok")
       \/ Fault("lost") /\ Goto("get")
       \/ Fault("damaged") /\ files[op.key] # <<>> /\ Return("BadDigestError")
    /\ UNCHANGED <<files, nid, latest, auth, urls, nurl, op, url, ids, retried, before, count>>

End ==
    /\ phase = "done"
    /\ phase' = "idle" /\ op' = NoOp /\ result' = None /\ ids' = <<>> /\ url' = 0 /\ before' = files
    /\ UNCHANGED <<files, nid, latest, auth, urls, nurl, retried, faults, count>>

Step ==
    \/ _authorize_account \/ Unauthorized
    \/ fn \/ _get_upload_url_info \/ Upload \/ UploadTemp \/ UploadB2Error \/ UploadOther
    \/ ListVersions \/ _delete_file_id \/ DeleteTemp \/ DeleteRefused
    \/ _get_file_id_and_name \/ CopyFile \/ Read \/ End

Next ==
    \/ \E k \in Key : \/ perform_write(k) \/ perform_read(k)
                      \/ \E force \in BOOLEAN : delete(k, force)
                      \/ \E to \in Key : copy(k, to)
    \/ Expire
    \/ Step

Spec == Init /\ [][Next /\ UNCHANGED config]_vars /\ WF_vars(Step /\ UNCHANGED config)

-----------------------------------------------------------------------------
Idle == phase = "idle"
Returned(name, r) == phase = "done" /\ op.name = name /\ result = r

(* The newest version is the first one; a URL in use is one of the list.   *)
TypeOK ==
    /\ \A k \in Key : \A i, j \in DOMAIN files[k] : i < j => files[k][i][1] > files[k][j][1]
    /\ phase = "upload" => url \in DOMAIN urls /\ urls[url]
    /\ \A u \in DOMAIN urls : u \in 1 .. nurl

(* delete succeeds only if no version is left, and complains only about a  *)
(* file that was not there.                                                *)
DeleteExact ==
    /\ Returned("delete", "ok") => (files[op.key] = <<>> \/ DisableVersions)
    /\ Returned("delete", "NoSuchObject") => before[op.key] = <<>>
    /\ Returned("delete", "error") => "refused" \in Kinds

(* What was written or copied is the newest version afterwards. *)
WriteExact ==
    /\ Returned("write", "ok") => Newest(op.key) = op.val
    /\ Returned("copy", "ok") => Newest(op.to) = op.val

(* Nobody sees an older version of a file again that was already replaced, *)
(* or deleted, at any time and so also after the process has died; only    *)
(* while delete removes the versions of a file, older ones of it show.     *)
NoResurrection ==
    \A k \in Key : Newest(k) \in {0, latest[k]} \/ (phase = "ids" /\ op.key = k)

(* Nor does a process that dies in delete leave an older version.  This    *)
(* does not hold: the newest version is the first to go                    *)
(* (b2_backend.py:476).                                                    *)
NoneWhileDeleting == \A k \in Key : Newest(k) \in {0, latest[k]}

(* An upload URL that is in the list of the available ones while nothing   *)
(* is uploaded can be used: what does not work has been removed            *)
(* (b2_backend.py:649).                                                    *)
UrlsAvailable == Idle => \A u \in DOMAIN urls : ~urls[u]

(* With force it is no error if the file does not exist (common.py:385).   *)
(* This does not hold: delete looks for the versions first and raises      *)
(* NoSuchObject (b2_backend.py:469).                                       *)
ForceSucceeds == op.force => ~Returned("delete", "NoSuchObject")

(* A read is repeated if the data was damaged on the way (common.py:511).  *)
(* This does not hold: is_temp_failure does not know BadDigestError        *)
(* (b2_backend.py:348).                                                    *)
TransitRetried == ~Returned("read", "BadDigestError")

(* Every call ends, also if tokens expire. *)
Busy == phase # "idle"
CallEnds == Busy ~> ~Busy
=============================================================================
