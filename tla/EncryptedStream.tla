-------------------------- MODULE EncryptedStream --------------------------
(***************************************************************************)
(* The packets of an encrypted object (backends/comprenc.py): EncryptFilter *)
(* writes one for every write, an empty one at the end and then the HMAC;   *)
(* DecryptFilter takes them apart again, while the layer below returns as  *)
(* many bytes as it likes.                                                 *)
(*                                                                         *)
(* The cipher works byte by byte, so that a byte here stands for its       *)
(* encrypted form as well.  The HMAC is ideal: the digest of what was      *)
(* hashed is Tag if and only if that is what the writer hashed.            *)
(***************************************************************************)
EXTENDS Integers, Sequences, SequencesExt

CONSTANTS
    Base,      \* a byte is a number below Base (256)
    OffSize,   \* the bytes of a length (4)
    HmacSize,  \* the bytes of a digest (32)
    MaxWrites, \* bound: calls of write
    MaxData,   \* bound: bytes of a call
    Sizes      \* the sizes that the reader asks for

VARIABLES
    data,    \* what was written
    stream,  \* the object
    hashed,  \* what the writer's HMAC has seen
    writer,  \* "open", "closed" (but not yet stored), "stored"
    damage,  \* the object has changed since it was stored
    pc,      \* of the reader: "idle", "loop", "hmac", "eof" or an error
    pos,     \* bytes it has got from the object
    size, inbuf, outbuf, \* the local variables of read
    remaining, seen,     \* left of the current packet; what the reader's HMAC has seen
    got      \* what the calls of read have returned

wvars == <<data, stream, hashed, writer, damage>>
rvars == <<pc, pos, size, inbuf, outbuf, remaining, seen, got>>
vars == <<wvars, rvars>>

Byte == 0 .. Base - 1
Tag == [i \in 1 .. HmacSize |-> 1]
Strings(n) == UNION {[1 .. m -> Byte] : m \in 0 .. n}

(* struct.pack and unpack of '<I': the lowest digit first. *)
Pack(n) == [i \in 1 .. OffSize |-> (n \div Base ^ (i - 1)) % Base]
Unpack(s) == LET v[i \in 0 .. OffSize] == IF i = 0 THEN 0 ELSE v[i - 1] + s[i] * Base ^ (i - 1)
             IN v[OffSize]

Init ==
    /\ data = <<>> /\ stream = <<>> /\ hashed = <<>>
    /\ writer = "open" /\ damage = FALSE
    /\ pc = "idle" /\ pos = 0 /\ size = 0 /\ inbuf = <<>> /\ outbuf = <<>>
    /\ remaining = 0 /\ seen = <<>> /\ got = <<>>

-----------------------------------------------------------------------------
(* EncryptFilter *)

write(d) ==
    /\ writer = "open"
    /\ data' = data \o d
    /\ IF d = <<>>
       THEN UNCHANGED <<stream, hashed>>
       ELSE /\ hashed' = hashed \o Pack(Len(d)) \o d
            /\ stream' = stream \o Pack(Len(d)) \o d
    /\ UNCHANGED <<writer, damage, rvars>>

(* Mutant: the end of the stream is written again when close is repeated. *)
close_again(stored) ==
    /\ writer \in {"open", "closed"}
    /\ hashed' = hashed \o Pack(0)
    /\ stream' = stream \o Pack(0) \o Tag
    /\ writer' = IF stored THEN "stored" ELSE "closed"
    /\ UNCHANGED <<data, damage, rvars>>

(* The end of the stream is written once; closing the object below may     *)
(* fail and is then tried again.                                           *)
close(stored) ==
    /\ writer \in {"open", "closed"}
    /\ IF writer = "open"
       THEN /\ hashed' = hashed \o Pack(0)
            /\ stream' = stream \o Pack(0) \o Tag
       ELSE UNCHANGED <<hashed, stream>>
    /\ writer' = IF stored THEN "stored" ELSE "closed"
    /\ UNCHANGED <<data, damage, rvars>>

(* What is read back is not what was stored: some other byte, an end that  *)
(* is missing, or additional bytes.                                        *)
Damage ==
    /\ writer = "stored" /\ pc = "idle" /\ pos = 0 /\ ~damage
    /\ damage' = TRUE
    /\ \/ \E i \in DOMAIN stream, b \in Byte : b # stream[i] /\ stream' = [stream EXCEPT ![i] = b]
       \/ \E n \in 0 .. Len(stream) - 1 : stream' = SubSeq(stream, 1, n)
       \/ \E b \in Byte : stream' = Append(stream, b)
    /\ UNCHANGED <<data, hashed, writer, rvars>>

-----------------------------------------------------------------------------
(* DecryptFilter *)

(* A call of read; after the HMAC has been checked it returns nothing.     *)
read(n) ==
    /\ writer = "stored" /\ pc = "idle"
    /\ pc' = "loop" /\ size' = n /\ inbuf' = <<>> /\ outbuf' = <<>>
    /\ UNCHANGED <<wvars, pos, remaining, seen, got>>

(* _read_and_decrypt: some of the next n bytes, or the end of the object.  *)
_read_and_decrypt(n) ==
    IF n <= 0 THEN pc' = "ValueError" /\ UNCHANGED <<pos, inbuf>>
    ELSE IF pos = Len(stream) THEN pc' = "CorruptedObjectError" /\ UNCHANGED <<pos, inbuf>>
    ELSE \E m \in 1 .. n :
            /\ pos + m <= Len(stream)
            /\ inbuf' = inbuf \o SubSeq(stream, pos + 1, pos + m)
            /\ pos' = pos + m
            /\ UNCHANGED pc

(* All that was read is part of the same packet. *)
ReadPacket ==
    /\ pc = "loop" /\ inbuf # <<>> /\ Len(inbuf) <= remaining
    /\ remaining' = remaining - Len(inbuf)
    /\ seen' = seen \o inbuf
    /\ got' = got \o outbuf \o inbuf
    /\ pc' = "idle" /\ inbuf' = <<>> /\ outbuf' = <<>>
    /\ UNCHANGED <<wvars, pos, size>>

ToNext == remaining + OffSize
InHeader == Len(inbuf) > remaining /\ Len(inbuf) < ToNext

(* Mutant: every request is for the full size. *)
WantFull == IF inbuf = <<>> THEN size ELSE size - Len(inbuf)

(* How much is asked for: never stop within a header. *)
Want == IF inbuf = <<>> THEN size - Len(outbuf) ELSE ToNext - Len(inbuf)

ReadMore ==
    /\ pc = "loop" /\ (inbuf = <<>> \/ InHeader)
    /\ _read_and_decrypt(Want)
    /\ UNCHANGED <<wvars, size, outbuf, remaining, seen, got>>

(* The rest of the packet, and the header of the next one. *)
ReadHeader ==
    /\ pc = "loop" /\ Len(inbuf) >= ToNext
    /\ LET n == Unpack(SubSeq(inbuf, remaining + 1, ToNext))
       IN /\ remaining' = n
          /\ pc' = IF n = 0 THEN "hmac" ELSE "loop"
    /\ outbuf' = outbuf \o SubSeq(inbuf, 1, remaining)
    /\ seen' = seen \o SubSeq(inbuf, 1, ToNext)
    /\ inbuf' = SubSeq(inbuf, ToNext + 1, Len(inbuf))
    /\ UNCHANGED <<wvars, pos, size, got>>

(* The HMAC, and one byte more than that to find out if there is more.     *)
ReadHmac ==
    /\ pc = "hmac" /\ Len(inbuf) < HmacSize
    /\ _read_and_decrypt(HmacSize + 1)
    /\ UNCHANGED <<wvars, size, outbuf, remaining, seen, got>>

Extraneous == Len(inbuf) > HmacSize \/ pos < Len(stream)

(* Mutant: the HMAC is not compared. *)
NoCompare == TRUE

compare_digest == inbuf = Tag /\ seen = hashed

CheckHmac ==
    /\ pc = "hmac" /\ Len(inbuf) >= HmacSize
    /\ IF Extraneous \/ ~compare_digest
       THEN pc' = "CorruptedObjectError" /\ UNCHANGED got
       ELSE pc' = "eof" /\ got' = got \o outbuf
    /\ inbuf' = <<>> /\ outbuf' = <<>>
    /\ UNCHANGED <<wvars, pos, size, remaining, seen>>

Read == ReadPacket \/ ReadMore \/ ReadHeader \/ ReadHmac \/ CheckHmac

Next ==
    \/ \E d \in Strings(MaxData) : write(d) /\ Len(data) <= (MaxWrites - 1) * MaxData
    \/ \E stored \in BOOLEAN : close(stored)
    \/ Damage
    \/ \E n \in Sizes : read(n)
    \/ Read

Spec == Init /\ [][Next]_vars /\ WF_vars(Read) /\ WF_vars(\E n \in Sizes : read(n))

-----------------------------------------------------------------------------
(* The length that is left of a packet and the place in the object. *)
TypeOK ==
    /\ pc \in {"idle", "loop", "hmac", "eof", "ValueError", "CorruptedObjectError"}
    /\ pos \in 0 .. Len(stream) /\ remaining \in 0 .. Base ^ OffSize - 1
    /\ inbuf \in Seq(Byte) /\ outbuf \in Seq(Byte) /\ got \in Seq(Byte)

(* While the object is read the caller gets the beginning of what was      *)
(* written, whatever the sizes of reads and packets are, and there is no   *)
(* error, as long as the object has not changed.                           *)
IntactReads ==
    ~damage => /\ IsPrefix(got \o outbuf, data)
               /\ pc \notin {"ValueError", "CorruptedObjectError"}

(* The end of the stream is only reported for an object that is unchanged  *)
(* and has been returned completely.                                       *)
EofAuthentic == pc = "eof" => got = data /\ ~damage

(* read never asks for less than one byte (the ValueError of               *)
(* _read_and_decrypt), also if the lengths in the object are wrong.        *)
NoValueError == pc # "ValueError"

(* Whoever goes on reading gets to the end or to an error.                 *)
ReadOver == pc \in {"eof", "CorruptedObjectError"}
ReadEnds == (writer = "stored") ~> ReadOver
=============================================================================
