------------------------------ MODULE Listing ------------------------------
(***************************************************************************)
(* The list method of the remote backends (backends/s3c.py, gs.py,         *)
(* swift.py, b2/b2_backend.py): an iterator that requests the keys page by *)
(* page, while its consumer and others store and delete objects.  Every    *)
(* server continues in its own way: after a marker (S3, Swift), with a     *)
(* token (GS), or from a name (B2).                                        *)
(*                                                                         *)
(* Keys are numbers in the order in which the server sorts them.  The token*)
(* is 0 before the first page and -1 (None) after the last one.            *)
(***************************************************************************)
EXTENDS Integers, Sequences, SequencesExt, FiniteSetsExt

CONSTANTS
    Batch,       \* the size of a page
    NoContent,   \* Swift answers with 204 if there are no keys
    MaxFaults,   \* bound
    MaxChanges,  \* bound: objects that are stored or deleted during the listing
    Settings     \* the settings: records of what is defined from config below

VARIABLES
    config,  \* the setting, which does not change
    keys,         \* of the server
    at,           \* the iterator: "page", "items", "done" or "TypeError"
    page_token,
    els,          \* of the page, not yet returned
    listed,       \* the keys that the iterator has returned
    always, ever, \* history: the keys that were there all the time, and at some time
    faults, changes

(* The setting. *)
Backend == config.Backend  \* "s3c", "gs", "swift" or "b2"
NKeys == config.NKeys
Key == 1 .. NKeys
Temp == config.Temp        \* the keys that end with TEMP_SUFFIX

vars == <<config, keys, at, page_token, els, listed, always, ever, faults, changes>>
server == <<keys, always, ever, changes>>

Init ==
    /\ config \in Settings
    /\ keys \in SUBSET Key
    /\ at = "page" /\ page_token = 0 /\ els = <<>> /\ listed = <<>>
    /\ always = keys /\ ever = keys
    /\ faults = 0 /\ changes = 0

-----------------------------------------------------------------------------
(* What the servers answer. *)

After(k) == {j \in keys : j > k}
From(k) == {j \in keys : j >= k}
First(S, n) == {k \in S : Cardinality({j \in S : j < k}) < n}
Increasing(s) == \A a, b \in DOMAIN s : a < b => s[a] < s[b]
Sorted(S) == {s \in [1 .. Cardinality(S) -> S] : ToSet(s) = S /\ Increasing(s)}

-----------------------------------------------------------------------------
(* A page is there: its names are returned one by one. *)
Page(names, token) ==
    /\ els' \in Sorted(names) /\ page_token' = token /\ at' = "items"
    /\ UNCHANGED <<server, listed, faults>>

(* Mutant: the next page starts after the first name. *)
FirstName(names) == Min(names)

LastName(names) == Max(names)

(* Mutant: only a full page is followed by another one. *)
IsFull(names) == Cardinality(names) = Batch

IsTruncated(names) == names # After(page_token)

(* Mutant: the marker of a page without keys is not looked at. *)
SameMarker(m) == page_token

NextMarker(m) == m

(* The server may return less than asked for; IsTruncated says whether     *)
(* there is more, and a page without keys has a NextMarker.                *)
s3c_list_page ==
    /\ Backend = "s3c" /\ at = "page"
    /\ \/ \E n \in 1 .. Batch :
            LET names == First(After(page_token), n) IN
            Page(names, IF IsTruncated(names) THEN LastName(names) ELSE -1)
       \/ \E m \in Key :
            /\ m > page_token /\ After(page_token) # {} /\ After(m) = After(page_token)
            /\ Page({}, NextMarker(m))

(* Mutant: a page that is not full is the last one. *)
FullPage(names) == IF Cardinality(names) = Batch THEN Max(names) ELSE -1

nextPageToken(names) == IF names = After(page_token) THEN -1 ELSE Max(names)

gs_list_page ==
    /\ Backend = "gs" /\ at = "page"
    /\ \E n \in 1 .. Batch :
         LET names == First(After(page_token), n) IN Page(names, nextPageToken(names))

Count(els_) == Cardinality(els_)

Names(els_) == els_ \ Temp

(* Temporary objects are counted, but not returned.  A full page has other *)
(* objects as well.                                                        *)
swift_list_page ==
    /\ Backend = "swift" /\ at = "page"
    /\ ~(NoContent /\ After(page_token) = {})
    /\ LET page == First(After(page_token), Batch) IN
       Page(Names(page), IF Count(page) = Batch THEN LastName(Names(page)) ELSE -1)

(* _list_page returns None, which list takes apart. *)
swift_no_content ==
    /\ Backend = "swift" /\ at = "page"
    /\ NoContent /\ After(page_token) = {}
    /\ at' = "TypeError"
    /\ UNCHANGED <<server, page_token, els, listed, faults>>

(* Mutant: the next page starts with the last name of this one. *)
FromLast(names) == IF names = {} THEN -1 ELSE Max(names)

nextFileName(names) ==
    IF names = From(page_token) THEN -1 ELSE Min(From(page_token) \ names)

b2_list_page ==
    /\ Backend = "b2" /\ at = "page"
    /\ LET names == First(From(page_token), Batch) IN Page(names, nextFileName(names))

(* _list_page is repeated after a temporary failure. *)
Retry ==
    /\ at = "page" /\ faults < MaxFaults
    /\ faults' = faults + 1
    /\ UNCHANGED <<server, at, page_token, els, listed>>

(* The consumer asks for the next key. *)
list ==
    /\ at = "items"
    /\ IF els # <<>>
       THEN listed' = Append(listed, Head(els)) /\ els' = Tail(els) /\ UNCHANGED at
       ELSE at' = (IF page_token = -1 THEN "done" ELSE "page") /\ UNCHANGED <<listed, els>>
    /\ UNCHANGED <<server, page_token, faults>>

-----------------------------------------------------------------------------
(* Objects are stored and deleted in the meantime. *)
Change(k) ==
    /\ at \in {"page", "items"} /\ changes < MaxChanges
    /\ changes' = changes + 1
    /\ keys' = IF k \in keys THEN keys \ {k} ELSE keys \cup {k}
    /\ always' = always \cap keys' /\ ever' = ever \cup keys'
    /\ UNCHANGED <<at, page_token, els, listed, faults>>

ListStep ==
    s3c_list_page \/ gs_list_page \/ swift_list_page \/ swift_no_content \/ b2_list_page \/ Retry \/ list

Next == ListStep \/ \E k \in Key : Change(k)

(* The consumer asks until there is nothing more. *)
Spec == Init /\ [][Next /\ UNCHANGED config]_vars /\ WF_vars(ListStep /\ UNCHANGED config)

-----------------------------------------------------------------------------
(* The types; temporary objects are never returned (swift.py:716), and     *)
(* only keys that were there.                                              *)
TypeOK ==
    /\ keys \subseteq Key /\ page_token \in -1 .. NKeys
    /\ at \in {"page", "items", "done", "TypeError"}
    /\ ToSet(listed) \subseteq ever \ Temp

(* No key is returned twice, whatever is stored and deleted between the    *)
(* pages (s3c.py:277, b2_backend.py:569).                                  *)
ListedOnce == IsInjective(listed)

(* At the end every key that was there all the time has been returned:     *)
(* fsck takes an object that is not listed for lost, and copies of the     *)
(* metadata that are not listed are never removed (s3c.py:270).            *)
Complete == at = "done" => always \ Temp \subseteq ToSet(listed)

(* The iterator ends, not with an exception: "Returns an iterator over all *)
(* keys in the backend" (common.py:411).  This does not hold: a Swift      *)
(* server that answers 204 makes list fail with a TypeError                *)
(* (swift.py:701).                                                         *)
ListReturns == at # "TypeError"
=============================================================================
