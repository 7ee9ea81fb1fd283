---------------------------- MODULE LocalBackend ----------------------------
(***************************************************************************)
(* The local backend (backends/local.py): objects are files.  Threads      *)
(* write, copy, read and delete objects at the same time; every call of    *)
(* the operating system is a step.  An open file stays what it is when its *)
(* name is given to another file.                                          *)
(*                                                                         *)
(* A file is a sequence: the header with the metadata, and then the pieces *)
(* of the data.  A header is <<meta>>, a piece is <<version, number>>.     *)
(***************************************************************************)
EXTENDS Integers, Sequences, FiniteSets

CONSTANTS
    Thread,
    Key,
    Pieces,    \* of every object that is written
    None,
    Settings   \* the settings: records of what is defined from config below

VARIABLES
    config,  \* the setting, which does not change
    path,    \* the file under the name of every key
    file,    \* the contents of the files that were created
    tmp,     \* the files that still have their temporary name
    thread,  \* what every thread is doing
    crashes

(* The setting. *)
Overlap == config.Overlap        \* objects are read and copied also while they are written
MaxFiles == config.MaxFiles      \* bound: the files that are ever created
MaxCrashes == config.MaxCrashes  \* bound

vars == <<config, path, file, tmp, thread, crashes>>

Idle == [op |-> "idle", key |-> None, to |-> None, fd |-> 0, src |-> 0, pos |-> 0, meta |-> FALSE]
Init ==
    /\ config \in Settings
    /\ path = [k \in Key |-> 0] \* 0: there is no file
    /\ file = <<>>
    /\ tmp = {}
    /\ thread = [t \in Thread |-> Idle]
    /\ crashes = 0

Doing(t, op) == thread[t].op = op
Set(t, r) == thread' = [thread EXCEPT ![t] = r]
Finish(t) == Set(t, Idle)
Writing(k) == \E t \in Thread : thread[t].op \in {"rename", "header", "write"} /\ thread[t].key = k
Using(k) == \E t \in Thread : thread[t].op # "idle" /\ k \in {thread[t].key, thread[t].to}

(* ObjectW: an empty file with a temporary name. *)
ObjectW ==
    /\ Len(file) < MaxFiles
    /\ file' = Append(file, <<>>)
    /\ tmp' = tmp \cup {Len(file) + 1}

Rename(t, k) ==
    /\ path' = [path EXCEPT ![k] = thread[t].fd]
    /\ tmp' = tmp \ {thread[t].fd}

-----------------------------------------------------------------------------
(* open_write: the file gets its final name before anything is written.    *)

open_write(t, k) ==
    /\ Doing(t, "idle") /\ (Overlap \/ ~Using(k))
    /\ ObjectW
    /\ Set(t, [Idle EXCEPT !.op = "rename", !.key = k, !.fd = Len(file) + 1])
    /\ UNCHANGED <<path, crashes>>

open_write_rename(t) ==
    /\ Doing(t, "rename")
    /\ Rename(t, thread[t].key)
    /\ Set(t, [thread[t] EXCEPT !.op = "header"])
    /\ UNCHANGED <<file, crashes>>

open_write_header(t) ==
    /\ Doing(t, "header")
    /\ file' = [file EXCEPT ![thread[t].fd] = <<<<thread[t].fd>>>>]
    /\ Set(t, [thread[t] EXCEPT !.op = "write", !.pos = 1])
    /\ UNCHANGED <<path, tmp, crashes>>

write(t) ==
    /\ Doing(t, "write") /\ thread[t].pos <= Pieces
    /\ file' = [file EXCEPT ![thread[t].fd] = Append(@, <<thread[t].fd, thread[t].pos>>)]
    /\ Set(t, [thread[t] EXCEPT !.pos = @ + 1])
    /\ UNCHANGED <<path, tmp, crashes>>

close(t) ==
    /\ Doing(t, "write") /\ thread[t].pos > Pieces
    /\ Finish(t)
    /\ UNCHANGED <<path, file, tmp, crashes>>

-----------------------------------------------------------------------------
(* copy, and update_meta, which is a copy to the same key: a temporary file *)
(* that is renamed at the end.                                             *)

copy(t, k, to, meta) ==
    /\ Doing(t, "idle") /\ (Overlap \/ (~Writing(k) /\ ~Using(to)))
    /\ k = to => meta
    /\ path[k] # 0 \* else NoSuchObject
    /\ ObjectW
    /\ Set(t, [op |-> "copy", key |-> k, to |-> to, src |-> path[k], fd |-> Len(file) + 1,
               pos |-> 1, meta |-> meta])
    /\ UNCHANGED <<path, crashes>>

(* Mutant: a piece is left out. *)
SkipOne(t) == thread[t].pos + 1

(* The place of the next piece to copy. *)
CopyPos(t) == thread[t].pos

(* The header is read and a new one written, or copied with the rest; an   *)
(* invalid one makes the copy fail and removes the temporary file.         *)
copy_header(t) ==
    /\ Doing(t, "copy") /\ thread[t].meta /\ thread[t].pos = 1
    /\ IF file[thread[t].src] = <<>>
       THEN tmp' = tmp \ {thread[t].fd} /\ Finish(t) /\ UNCHANGED file
       ELSE /\ file' = [file EXCEPT ![thread[t].fd] = <<<<thread[t].fd>>>>]
            /\ Set(t, [thread[t] EXCEPT !.pos = 2]) /\ UNCHANGED tmp
    /\ UNCHANGED <<path, crashes>>

copy_piece(t) ==
    LET th == thread[t]
    IN /\ Doing(t, "copy") /\ (th.meta => th.pos > 1) /\ CopyPos(t) <= Len(file[th.src])
       /\ file' = [file EXCEPT ![th.fd] = Append(@, file[th.src][CopyPos(t)])]
       /\ Set(t, [th EXCEPT !.pos = CopyPos(t) + 1])
       /\ UNCHANGED <<path, tmp, crashes>>

(* Mutant: the file is renamed as soon as it has been created. *)
RenameEarly(t) ==
    /\ Doing(t, "copy") /\ thread[t].fd \in tmp
    /\ Rename(t, thread[t].to)
    /\ UNCHANGED <<file, thread, crashes>>

copy_rename(t) ==
    LET th == thread[t]
    IN /\ Doing(t, "copy") /\ (th.meta => th.pos > 1) /\ th.pos > Len(file[th.src])
       /\ Rename(t, th.to)
       /\ Finish(t)
       /\ UNCHANGED <<file, crashes>>

-----------------------------------------------------------------------------
(* open_read, lookup and get_size: the file is opened and its header read. *)

open_read(t, k) ==
    /\ Doing(t, "idle") /\ (Overlap \/ ~Writing(k))
    /\ path[k] # 0
    /\ Set(t, [Idle EXCEPT !.op = "open", !.key = k, !.src = path[k]])
    /\ UNCHANGED <<path, file, tmp, crashes>>

(* CorruptedObjectError if there is no header yet. *)
_read_meta(t) ==
    /\ Doing(t, "open")
    /\ Set(t, [thread[t] EXCEPT !.op = IF file[thread[t].src] = <<>> THEN "corrupted" ELSE "read",
                                !.pos = 2])
    /\ UNCHANGED <<path, file, tmp, crashes>>

read(t) ==
    /\ Doing(t, "read")
    /\ IF thread[t].pos <= Len(file[thread[t].src])
       THEN Set(t, [thread[t] EXCEPT !.pos = @ + 1])
       ELSE Set(t, [thread[t] EXCEPT !.op = "eof"])
    /\ UNCHANGED <<path, file, tmp, crashes>>

read_close(t) ==
    /\ thread[t].op \in {"eof", "corrupted"}
    /\ Finish(t)
    /\ UNCHANGED <<path, file, tmp, crashes>>

delete(k) ==
    /\ Overlap \/ ~Writing(k)
    /\ path[k] # 0 \* else NoSuchObject, or nothing with force
    /\ path' = [path EXCEPT ![k] = 0]
    /\ UNCHANGED <<file, tmp, thread, crashes>>

crash ==
    /\ crashes < MaxCrashes
    /\ crashes' = crashes + 1
    /\ thread' = [t \in Thread |-> Idle]
    /\ UNCHANGED <<path, file, tmp>>

Next ==
    \/ \E t \in Thread : \/ open_write_rename(t) \/ open_write_header(t) \/ write(t) \/ close(t)
                         \/ copy_header(t) \/ copy_piece(t) \/ copy_rename(t)
                         \/ _read_meta(t) \/ read(t) \/ read_close(t)
    \/ \E t \in Thread, k \in Key :
          \/ open_write(t, k) \/ open_read(t, k)
          \/ \E to \in Key, meta \in BOOLEAN : copy(t, k, to, meta)
    \/ \E k \in Key : delete(k)
    \/ crash

Spec == Init /\ [][Next /\ UNCHANGED config]_vars

-----------------------------------------------------------------------------
Content(f) == IF file[f] = <<>> THEN <<>> ELSE Tail(file[f])
Complete(f) == \E v \in 1 .. Len(file) : Content(f) = [i \in 1 .. Pieces |-> <<v, i>>]

(* Every name refers to a file that was created and has no temporary name. *)
TypeOK ==
    /\ path \in [Key -> 0 .. Len(file)]
    /\ tmp \subseteq 1 .. Len(file) /\ \A k \in Key : path[k] \notin tmp
    /\ \A t \in Thread : thread[t].fd \in 0 .. Len(file) /\ thread[t].src \in 0 .. Len(file)

(* Writers and copiers of one key never mix their data: what a file holds  *)
(* is the beginning of one version, whoever else works on the key          *)
(* (local.py:100 and 201).                                                 *)
NoMixing ==
    \A f \in 1 .. Len(file) :
        \E v \in 1 .. Len(file) : Content(f) = [i \in 1 .. Len(Content(f)) |-> <<v, i>>]

(* Who reads an object to its end without an error has read all of it:     *)
(* there are no conflicts with parallel writes (local.py:100).             *)
ReadsComplete == \A t \in Thread : Doing(t, "eof") => Complete(thread[t].src)

(* No reader meets an object without a header. *)
NeverCorrupted == \A t \in Thread : ~Doing(t, "corrupted")

(* A name that refers to a whole object is never given to part of one by a *)
(* copy: somebody who is looking on sees the old object or the new one.    *)
NamesComplete ==
    \A k \in Key : (path[k] # path'[k] /\ path'[k] # 0) =>
        \/ \E t \in Thread : Doing(t, "rename") /\ thread[t].fd = path'[k]
        \/ Complete(path'[k])
=============================================================================
