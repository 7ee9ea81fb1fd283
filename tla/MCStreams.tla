------------------------------ MODULE MCStreams -----------------------------
(***************************************************************************)
(* The streams, for TLC: what encrypts and compresses the data of an       *)
(* object, and the dump of the metadata.  A behaviour is one of one        *)
(* component; the variables of the others keep a fixed value.              *)
(***************************************************************************)
EXTENDS Integers, Sequences

CONSTANT Null

VARIABLES
    part,  \* the component that runs
    data, stream, hashed, writer, damage, pc, pos, size, inbuf, outbuf,
    remaining, seen, got, config, pending, held, eof, unused, content, tab,
    row, col, prev, fd, fp, row_count, cells, db, dbfile, cut

vars == <<part, data, stream, hashed, writer, damage, pc, pos, size, inbuf,
         outbuf, remaining, seen, got, config, pending, held, eof, unused,
         content, tab, row, col, prev, fd, fp, row_count, cells, db,
         dbfile, cut>>

(* The layer below the compression may find out about damage itself. *)
ComprSettings == {[Faults |-> faults] : faults \in BOOLEAN}

(* The dump: one column of each kind, the first table cut down to id, hash *)
(* and refcount of the objects, the second to inode and target of the      *)
(* symbolic links.                                                         *)
DumpSpec == <<
    << [type |-> "integer", arg |-> 1], [type |-> "blob", arg |-> 2],
       [type |-> "integer", arg |-> 0] >>,
    << [type |-> "integer", arg |-> 1], [type |-> "blob", arg |-> 0] >> >>

(* A byte has 4 bits: the ends of every width, the codes of the widths and *)
(* the values next to them.                                                *)
Edges ==
    LET ends == {0, 2, 4, 7, 8, 2 ^ 4 - 1, 2 ^ 4, 2 ^ 8 - 1, 2 ^ 8, 2 ^ 12 - 1, 2 ^ 12, 2 ^ 15 - 1}
    IN  ends \cup {-e : e \in ends} \cup {-(2 ^ 15)}

Object(id, refcount) == <<id, <<5, 9>>, refcount>>

\* Two objects whose reference counts are any two edges.
Numbers == {<< <<Object(1, a), Object(2, b)>>, << <<7, <<>>>> >> >> : a, b \in Edges}

\* Targets of every length, one of them too long, in one to four rows.
MaxBlob == 5
Blob(n) == [k \in 1 .. n |-> (3 * k) % 16]
Blobs ==
    {<< <<>>, [r \in 1 .. n |-> <<r * r, Blob(f[r])>>] >> :
        n \in 1 .. 4, f \in [1 .. 4 -> {0, 1, MaxBlob - 1, MaxBlob, MaxBlob + 1}]}

\* Rows that cannot be dumped.
Refused == {<< <<Object(1, 1), <<2, h, 1>>>>, <<>> >> : h \in {Null, <<1>>, <<1, 2, 3>>}}

Content == Numbers \cup Blobs \cup Refused

Encr == INSTANCE EncryptedStream WITH
    Base <- 2, OffSize <- 2, HmacSize <- 2, MaxWrites <- 2, MaxData <- 2, Sizes <- {1, 2, 3, 6}
Compr == INSTANCE CompressedStream WITH
    Algorithm <- "zlib", MaxItems <- 4, MaxExtra <- 2, Settings <- ComprSettings
Dump == INSTANCE DeltaDump WITH
    ByteBits <- 4, Lens <- <<1, 2, 3, 4>>, MaxBlob <- MaxBlob, TrxRows <- 2, BufSize <- 6,
    DumpSpec <- DumpSpec, Content <- Content

\* The variables that a component does not have.
NoEncr == <<config, pending, held, eof, unused, content, tab, row, col,
            prev, fd, fp, row_count, cells, db, dbfile, cut>>
NoCompr == <<hashed, size, inbuf, outbuf, remaining, seen, content, tab,
             row, col, prev, fd, fp, row_count, cells, db, dbfile, cut>>
NoDump == <<data, hashed, writer, damage, pos, size, inbuf, outbuf,
            remaining, seen, got, config, held, eof, unused>>

Init ==
    \/ /\ part = "encrypt" /\ Encr!Init
       /\ config = Null /\ pending = Null /\ held = Null /\ eof = Null
       /\ unused = Null /\ content = Null /\ tab = Null /\ row = Null
       /\ col = Null /\ prev = Null /\ fd = Null /\ fp = Null
       /\ row_count = Null /\ cells = Null /\ db = Null /\ dbfile = Null
       /\ cut = Null
    \/ /\ part = "compress" /\ Compr!Init
       /\ hashed = Null /\ size = Null /\ inbuf = Null /\ outbuf = Null
       /\ remaining = Null /\ seen = Null /\ content = Null /\ tab = Null
       /\ row = Null /\ col = Null /\ prev = Null /\ fd = Null /\ fp = Null
       /\ row_count = Null /\ cells = Null /\ db = Null /\ dbfile = Null
       /\ cut = Null
    \/ /\ part = "dump" /\ Dump!Init
       /\ data = Null /\ hashed = Null /\ writer = Null /\ damage = Null
       /\ pos = Null /\ size = Null /\ inbuf = Null /\ outbuf = Null
       /\ remaining = Null /\ seen = Null /\ got = Null /\ config = Null
       /\ held = Null /\ eof = Null /\ unused = Null

EncrNext == part = "encrypt" /\ Encr!Next /\ UNCHANGED <<part, NoEncr>>
ComprNext == part = "compress" /\ Compr!Next /\ UNCHANGED <<part, config, NoCompr>>
DumpNext == part = "dump" /\ Dump!Next /\ UNCHANGED <<part, NoDump>>

\* Streams may be left as they are; a dump goes on to its end.
Rest == part # "dump" /\ UNCHANGED vars

Next == EncrNext \/ ComprNext \/ DumpNext \/ Rest

(* Whoever reads a stream goes on until its end or an error. *)
Called ==
    \/ part = "encrypt" /\ (\E n \in {1, 2, 3, 6} : Encr!read(n)) /\ UNCHANGED <<part, NoEncr>>
    \/ part = "compress" /\ Compr!read /\ UNCHANGED <<part, config, NoCompr>>
Progress ==
    \/ part = "encrypt" /\ Encr!Read /\ UNCHANGED <<part, NoEncr>>
    \/ part = "compress" /\ Compr!Read /\ UNCHANGED <<part, config, NoCompr>>

Spec == Init /\ [][Next]_vars /\ WF_vars(Called) /\ WF_vars(Progress)

-----------------------------------------------------------------------------
(* What is read from a stream is the beginning of what was written, for    *)
(* all sizes of reads and packets, and its end is reached only with all of *)
(* it (comprenc.py:447, 592-648).  An undamaged object is read without an  *)
(* error, and damage is not met as a ValueError, which the callers would   *)
(* take for a bug (comprenc.py:566); if the layer below knows of it, its   *)
(* error is the one the caller gets (comprenc.py:455).                     *)
StreamExact ==
    /\ part = "encrypt" => Encr!IntactReads /\ Encr!EofAuthentic /\ Encr!NoValueError
    /\ part = "compress" => Compr!EofAuthentic /\ Compr!LowerErrorWins

(* Whoever goes on reading comes to the end of the stream or to an error,  *)
(* also if the object is damaged: no read gets stuck, with the rest of a   *)
(* packet header to come or nothing to ask for (comprenc.py:609).          *)
ReadEnds ==
    part \in {"encrypt", "compress"} /\ writer = "stored"
        ~> \/ part = "encrypt" /\ Encr!ReadOver
           \/ part = "compress" /\ Compr!ReadOver

(* A database that was restored from a dump is the one that was dumped,    *)
(* whatever integers and blobs it holds, and dumping and loading fail only *)
(* if the dump was cut short or a row cannot be dumped (NULL, a blob of    *)
(* the wrong size): what was written can be read (deltadump.pyx:497-610).  *)
DumpExact == part = "dump" => Dump!RestoredExactly /\ Dump!DumpCanBeLoaded
=============================================================================
