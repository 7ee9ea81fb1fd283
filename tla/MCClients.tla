------------------------------ MODULE MCClients -----------------------------
(***************************************************************************)
(* The clients of the remote backends, for TLC.  A behaviour is one of one *)
(* client in one setting; the variables of the others keep a fixed value.  *)
(***************************************************************************)
EXTENDS Integers, Sequences, FiniteSets

CONSTANTS
    Thread, Keys, Metas, Part, None,
    k1, k2, d1, d2, m1, m2,  \* keys, data and metadata of the settings below
    S3Settings, B2Settings, GsSettings, SwiftSettings,  \* the settings of the run
    \* bounds:
    S3Tries, S3Faults, S3Writes, B2Faults, B2Writes, SwiftFaults, SwiftCalls

VARIABLES
    part,  \* the component that runs
    config, server, conn, op, phase, inner, outer, sent, result, value,
    before, faults, writes, files, nid, latest, auth, urls, nurl, url, ids,
    retried, count, objects, access_token, accepted, issued, refresh_lock,
    call, expired, calls, temps, has_copy, stage, at, is_retry, got

vars == <<part, config, server, conn, op, phase, inner, outer, sent,
         result, value, before, faults, writes, files, nid, latest, auth,
         urls, nurl, url, ids, retried, count, objects, access_token,
         accepted, issued, refresh_lock, call, expired, calls, temps,
         has_copy, stage, at, is_retry, got>>

(* Amazon. *)
S3Cases == {[DumbCopy |-> FALSE]}

(* Backblaze: answers are lost and the server is busy; besides, tokens      *)
(* expire, requests are refused or limited, data is damaged on the way, or *)
(* the function that writes fails.                                         *)
B2Cases ==
    {[DisableVersions |-> FALSE, Kinds |-> {"lost", "busy", "expired"}],
     [DisableVersions |-> FALSE, Kinds |-> {"refused", "lost"}],
     [DisableVersions |-> FALSE, Kinds |-> {"limited", "fn", "lost"}],
     [DisableVersions |-> TRUE, Kinds |-> {"lost", "busy", "damaged"}]}

(* Google: two threads read and write one object, change the metadata of   *)
(* two, or notice that the token is no longer accepted.                    *)
Stored == {None, [data |-> d1, meta |-> m1]}
GsCases ==
    {[Key |-> {k1}, Data |-> {d1, d2}, Meta |-> {m1, m2}, Op |-> {"delete", "lookup", "read", "write"},
      MaxFaults |-> 1, MaxExpiry |-> 0, MaxCalls |-> 2, Stored |-> Stored],
     [Key |-> {k1, k2}, Data |-> {d1}, Meta |-> {m1, m2}, Op |-> {"update_meta", "copy"},
      MaxFaults |-> 1, MaxExpiry |-> 0, MaxCalls |-> 2, Stored |-> Stored],
     [Key |-> {k1}, Data |-> {d1}, Meta |-> {m1}, Op |-> {"lookup", "write"},
      MaxFaults |-> 1, MaxExpiry |-> 1, MaxCalls |-> 2, Stored |-> Stored]}

(* Swift: with and without the COPY method. *)
SwiftCases == {[HasCopy |-> FALSE, MaxExpiry |-> 1], [HasCopy |-> TRUE, MaxExpiry |-> 1]}

S3 == INSTANCE S3Client WITH
    Key <- Keys, CopyFails <- TRUE, MaxTries <- S3Tries, MaxFaults <- S3Faults, MaxWrites <- S3Writes,
    Settings <- S3Settings
B2 == INSTANCE B2Client WITH
    Key <- Keys, MaxFaults <- B2Faults, MaxWrites <- B2Writes, Settings <- B2Settings
Gs == INSTANCE GsClient WITH
    Settings <- GsSettings
Swift == INSTANCE SwiftClient WITH
    Key <- Keys, Meta <- Metas, MaxFaults <- SwiftFaults, MaxCalls <- SwiftCalls, Settings <- SwiftSettings

ASSUME ClientsAssumption ==
    /\ \A c \in B2Settings : c.DisableVersions \in BOOLEAN
    /\ \A c \in GsSettings :
          /\ c.Stored \subseteq {None} \cup [data : c.Data \cup {Part}, meta : c.Meta]
          /\ None \notin [data : c.Data \cup {Part}, meta : c.Meta]
    /\ S3Tries \in Nat /\ SwiftCalls \in Nat
    /\ None \notin [data : (0 .. SwiftCalls) \cup {Part}, meta : Metas] /\ None \notin Metas
    /\ Part \notin 0 .. SwiftCalls

\* The variables that a component does not have.
NoS3 == <<files, nid, latest, auth, urls, nurl, url, ids, retried, count,
          objects, access_token, accepted, issued, refresh_lock, call,
          expired, calls, temps, has_copy, stage, at, is_retry, got>>
NoB2 == <<server, conn, inner, outer, sent, value, writes, objects,
          access_token, accepted, issued, refresh_lock, call, expired,
          calls, temps, has_copy, stage, at, is_retry, got>>
NoGs == <<server, conn, op, phase, inner, outer, sent, result, value,
          before, writes, files, nid, latest, auth, urls, nurl, url, ids,
          retried, count, temps, has_copy, stage, at, is_retry, got>>
NoSwift == <<server, phase, inner, outer, sent, result, value, writes,
             files, nid, latest, auth, urls, nurl, url, ids, retried,
             count, access_token, issued, refresh_lock, call>>

Init ==
    \/ /\ part = "s3" /\ S3!Init
       /\ files = None /\ nid = None /\ latest = None /\ auth = None
       /\ urls = None /\ nurl = None /\ url = None /\ ids = None
       /\ retried = None /\ count = None /\ objects = None
       /\ access_token = None /\ accepted = None /\ issued = None
       /\ refresh_lock = None /\ call = None /\ expired = None
       /\ calls = None /\ temps = None /\ has_copy = None /\ stage = None
       /\ at = None /\ is_retry = None /\ got = None
    \/ /\ part = "b2" /\ B2!Init
       /\ server = None /\ conn = None /\ inner = None /\ outer = None
       /\ sent = None /\ value = None /\ writes = None /\ objects = None
       /\ access_token = None /\ accepted = None /\ issued = None
       /\ refresh_lock = None /\ call = None /\ expired = None
       /\ calls = None /\ temps = None /\ has_copy = None /\ stage = None
       /\ at = None /\ is_retry = None /\ got = None
    \/ /\ part = "gs" /\ Gs!Init
       /\ server = None /\ conn = None /\ op = None /\ phase = None
       /\ inner = None /\ outer = None /\ sent = None /\ result = None
       /\ value = None /\ before = None /\ writes = None /\ files = None
       /\ nid = None /\ latest = None /\ auth = None /\ urls = None
       /\ nurl = None /\ url = None /\ ids = None /\ retried = None
       /\ count = None /\ temps = None /\ has_copy = None /\ stage = None
       /\ at = None /\ is_retry = None /\ got = None
    \/ /\ part = "swift" /\ Swift!Init
       /\ server = None /\ phase = None /\ inner = None /\ outer = None
       /\ sent = None /\ result = None /\ value = None /\ writes = None
       /\ files = None /\ nid = None /\ latest = None /\ auth = None
       /\ urls = None /\ nurl = None /\ url = None /\ ids = None
       /\ retried = None /\ count = None /\ access_token = None
       /\ issued = None /\ refresh_lock = None /\ call = None

S3Next == part = "s3" /\ S3!Next /\ UNCHANGED <<part, config, NoS3>>
B2Next == part = "b2" /\ B2!Next /\ UNCHANGED <<part, config, NoB2>>
GsNext == part = "gs" /\ Gs!Next /\ UNCHANGED <<part, config, NoGs>>
SwiftNext == part = "swift" /\ Swift!Next /\ UNCHANGED <<part, config, NoSwift>>

Next == S3Next \/ B2Next \/ GsNext \/ SwiftNext

(* A call that can go on does. *)
Progress ==
    \/ part = "s3" /\ S3!Step /\ UNCHANGED <<part, config, NoS3>>
    \/ part = "b2" /\ B2!Step /\ UNCHANGED <<part, config, NoB2>>
    \/ part = "swift" /\ Swift!Work /\ UNCHANGED <<part, config, NoSwift>>
ThreadProgress(t) == part = "gs" /\ Gs!Work(t) /\ UNCHANGED <<part, config, NoGs>>

Spec ==
    /\ Init /\ [][Next]_vars
    /\ WF_vars(Progress) /\ \A t \in Thread : WF_vars(ThreadProgress(t))

-----------------------------------------------------------------------------
(* What a call returns is right, whatever was lost, damaged or repeated on *)
(* the way.  A read or lookup returns what the object was at some time     *)
(* during the call, data and metadata together (s3c.py:326, gs.py:333); a  *)
(* write without an error has stored all of it, with Backblaze as the      *)
(* newest version (s3c.py:905, gs.py:440); delete succeeds only if nothing *)
(* is left, and complains only about an object that was not there          *)
(* (gs.py:255, swift.py:407); after a copy the destination is what the     *)
(* source is (s3c.py:418, swift.py:632), unless dumb-copy is set.          *)
AnswersExact ==
    /\ part = "s3" => /\ S3!ReadExact /\ S3!WriteExact /\ S3!DeleteExact
                      /\ ~config.DumbCopy => S3!CopyExact
    /\ part = "b2" => B2!WriteExact /\ B2!DeleteExact
    /\ part = "gs" => Gs!ReadExact /\ Gs!WriteExact /\ Gs!DeleteExact
    /\ part = "swift" => Swift!OkMeansDone /\ Swift!MissingExact

(* No request is sent over a connection that still has a response to be    *)
(* read, whatever failed before (s3c.py:838, gs.py:848).                   *)
InStep ==
    /\ part = "s3" => S3!InStep
    /\ part = "gs" => Gs!InStep

(* What a call leaves behind, at every step of it and so also when the     *)
(* process dies.  Swift: every object is what it was before or what the    *)
(* call makes it (swift.py:600); only a write whose function failed or     *)
(* whose data was damaged may leave its object cut short, damaged or       *)
(* deleted (s3c.py:905).  Backblaze: nobody sees an older version again    *)
(* that was replaced or deleted, except of the file that delete is working *)
(* on, unless the server refuses requests or keeps no versions             *)
(* (b2_backend.py:476); and an upload URL is not lost because an answer    *)
(* was lost or the server is busy, unless tokens expire or the server      *)
(* refuses or limits requests (b2_backend.py:292).                         *)
LeftInOrder ==
    /\ part = "swift" => Swift!AllOrNothing
    /\ part = "b2" /\ ~config.DisableVersions /\ "refused" \notin config.Kinds
            => B2!NoResurrection
    /\ part = "b2" /\ config.Kinds \cap {"expired", "limited", "refused"} = {} => B2!UrlsAvailable

\* A call is under way.
Busy ==
    \/ part = "s3" /\ S3!Busy
    \/ part = "b2" /\ B2!Busy
    \/ part = "gs" /\ Gs!Busy(CHOOSE t \in Thread : TRUE)
    \/ part = "swift" /\ Swift!Busy

(* Every call ends: it is not repeated for ever, expired tokens are        *)
(* replaced, and no thread waits for the lock of the token for ever (the   *)
(* threads are alike: it is enough to look at one; common.py:105,          *)
(* gs.py:641, swift.py:819).                                               *)
CallEnds == Busy ~> ~Busy
=============================================================================
