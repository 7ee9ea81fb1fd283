-------------------------- MODULE CompressedStream --------------------------
(***************************************************************************)
(* Compression while writing and decompression while reading               *)
(* (backends/comprenc.py, CompressFilter and DecompressFilter).  The       *)
(* compressor may keep data back until it is flushed, the decompressor may *)
(* need several chunks before it returns anything, and the layer below     *)
(* returns chunks of any size.  Compressed data is a sequence of items:    *)
(* the data items themselves, Eos at the end, Bad for what is invalid.     *)
(***************************************************************************)
EXTENDS Integers, Sequences, SequencesExt

CONSTANTS
    Algorithm,  \* "zlib", "bzip2" or "lzma"
    MaxItems,   \* bound: the items that are written
    MaxExtra,   \* bound: the items behind the end of the stream
    Settings    \* the settings: records of what is defined from config below

Eos == 0
Bad == -1

VARIABLES
    config,  \* the setting, which does not change
    data, pending, stream, writer, \* CompressFilter, as in EncryptedStream
    damage,
    pc,                     \* of the reader: "idle", "loop", "discard", "eof" or an error
    pos, held, eof, unused, \* held: decompressed, but not yet returned by decompress
    got

wvars == <<data, pending, stream, writer, damage>>
rvars == <<pc, pos, held, eof, unused, got>>
(* The setting. *)
Faults == config.Faults  \* the layer below finds damage itself (HMAC or MD5)

vars == <<config, wvars, rvars>>

Init ==
    /\ config \in Settings
    /\ data = <<>> /\ pending = <<>> /\ stream = <<>> /\ writer = "open" /\ damage = FALSE
    /\ pc = "idle" /\ pos = 0 /\ held = <<>> /\ eof = FALSE /\ unused = FALSE /\ got = <<>>

-----------------------------------------------------------------------------
(* Mutant: what compress has not returned at once is lost. *)
write_lossy ==
    /\ writer = "open" /\ Len(data) < MaxItems
    /\ data' = Append(data, Len(data) + 1)
    /\ stream' \in {stream, Append(stream, Len(data) + 1)}
    /\ UNCHANGED <<pending, writer, damage, rvars>>

(* compress returns some of what it has been given so far. *)
write ==
    /\ writer = "open" /\ Len(data) < MaxItems
    /\ data' = Append(data, Len(data) + 1)
    /\ LET all == Append(pending, Len(data) + 1)
       IN \E n \in 0 .. Len(all) :
             /\ stream' = stream \o SubSeq(all, 1, n)
             /\ pending' = SubSeq(all, n + 1, Len(all))
    /\ UNCHANGED <<writer, damage, rvars>>

close(stored) ==
    /\ writer \in {"open", "closed"}
    /\ IF writer = "open"
       THEN stream' = stream \o pending \o <<Eos>> /\ pending' = <<>>
       ELSE UNCHANGED <<stream, pending>>
    /\ writer' = IF stored THEN "stored" ELSE "closed"
    /\ UNCHANGED <<data, damage, rvars>>

Damage ==
    /\ writer = "stored" /\ pc = "idle" /\ pos = 0 /\ ~damage
    /\ damage' = TRUE
    /\ \/ \E i \in DOMAIN stream : stream' = [stream EXCEPT ![i] = Bad]
       \/ \E n \in 0 .. Len(stream) - 1 : stream' = SubSeq(stream, 1, n)
       \/ \E n \in 1 .. MaxExtra : stream' = stream \o [i \in 1 .. n |-> Bad]
    /\ UNCHANGED <<data, pending, writer, rvars>>

-----------------------------------------------------------------------------
read ==
    /\ writer = "stored" /\ pc = "idle"
    /\ pc' = "loop"
    /\ UNCHANGED <<wvars, pos, held, eof, unused, got>>

(* Mutant: the loop goes on until the end of the compressed stream. *)
EndAtEos ==
    /\ pc = "loop" /\ pos = Len(stream) /\ eof
    /\ pc' = IF unused THEN "CorruptedObjectError" ELSE "eof"
    /\ UNCHANGED <<wvars, pos, held, eof, unused, got>>

(* The layer below is at its end; it reports damage that it has found.     *)
ReadEnd ==
    /\ pc = "loop" /\ pos = Len(stream)
    /\ pc' = CASE Faults /\ damage -> "LowerError"
               [] ~eof \/ unused -> "CorruptedObjectError" \* premature end, data after the end
               [] OTHER -> "eof"
    /\ UNCHANGED <<wvars, pos, held, eof, unused, got>>

(* Mutant: what the decompressor did not use is of no interest. *)
NoUnused(chunk) == FALSE

(* unused_data: the chunk goes beyond the end of the compressed stream. *)
Unused(chunk) == eof \/ \E i \in 1 .. Len(chunk) - 1 : chunk[i] = Eos

(* The next chunk is decompressed.  Behind the end of the stream zlib puts *)
(* it with the unused data, and the others raise an EOFError, which        *)
(* decompress does not convert.                                            *)
ReadChunk ==
    /\ pc = "loop"
    /\ \E n \in 1 .. Len(stream) - pos :
          LET chunk == SubSeq(stream, pos + 1, pos + n)
              valid == SelectSeq(chunk, LAMBDA x : x > 0)
              ends  == \E i \in 1 .. n : chunk[i] = Eos
              \* data that is invalid, before the end of the compressed stream
              wrong == ~eof /\ \E i \in 1 .. n : chunk[i] = Bad /\ \A j \in 1 .. i : chunk[j] # Eos
          IN /\ pos' = pos + n
             /\ IF eof /\ Algorithm # "zlib"
                THEN pc' = "EOFError" /\ UNCHANGED <<held, eof, unused, got>>
                ELSE IF wrong
                THEN pc' = "discard" /\ UNCHANGED <<held, eof, unused, got>>
                ELSE /\ eof' = (eof \/ ends)
                     /\ unused' = (unused \/ Unused(chunk))
                     /\ LET all == held \o valid
                        IN \E m \in IF ends THEN {Len(all)} ELSE 0 .. Len(all) :
                              /\ got' = got \o SubSeq(all, 1, m)
                              /\ held' = SubSeq(all, m + 1, Len(all))
                              /\ pc' = IF m = 0 THEN "loop" ELSE "idle"
    /\ UNCHANGED wvars

(* Mutant: the error is raised at once. *)
NoDiscard ==
    /\ pc = "discard"
    /\ pc' = "CorruptedObjectError"
    /\ UNCHANGED <<wvars, pos, held, eof, unused, got>>

(* discard_input: the layer below is read to its end, where it may have    *)
(* another error to report.                                                *)
discard_input ==
    /\ pc = "discard"
    /\ pos' = Len(stream)
    /\ pc' = IF Faults /\ damage THEN "LowerError" ELSE "CorruptedObjectError"
    /\ UNCHANGED <<wvars, held, eof, unused, got>>

Read == ReadEnd \/ ReadChunk \/ discard_input

Next ==
    \/ write
    \/ \E stored \in BOOLEAN : close(stored)
    \/ Damage
    \/ read
    \/ Read

Spec == /\ Init /\ [][Next /\ UNCHANGED config]_vars
        /\ WF_vars(Read /\ UNCHANGED config) /\ WF_vars(read /\ UNCHANGED config)

-----------------------------------------------------------------------------
Errors == {"CorruptedObjectError", "LowerError", "EOFError"}

(* The reader is somewhere in the object, with data that it was given. *)
TypeOK ==
    /\ pc \in {"idle", "loop", "discard", "eof"} \cup Errors
    /\ pos \in 0 .. Len(stream)
    /\ IsPrefix(got \o held, data)

(* The end is only reported for an unchanged object all of which has been  *)
(* returned, and such an object is read without an error.                  *)
EofAuthentic ==
    /\ pc = "eof" => got = data /\ ~damage
    /\ ~damage => pc \notin Errors

(* When the layer below has found damage, that is the error that is        *)
(* raised, and not the one of the decompressor (comprenc.py:455).          *)
LowerErrorWins == Faults => pc # "CorruptedObjectError"

(* An object with data after the end of the compressed stream is reported  *)
(* as a CorruptedObjectError (comprenc.py:447, t1_backends.py:757).  This  *)
(* does not hold: the decompressors of lzma and bz2 raise an EOFError if   *)
(* the additional data begins at the end of a chunk (comprenc.py:453).     *)
CorruptionReported == pc # "EOFError"

(* Whoever goes on reading gets to the end or to an error. *)
ReadOver == pc \in {"eof"} \cup Errors
ReadEnds == (writer = "stored") ~> ReadOver
=============================================================================
