----------------------------- MODULE DeltaDump ------------------------------
(***************************************************************************)
(* The metadata dump (deltadump.pyx): the tables of the database are       *)
(* written one after the other into one file, every integer as the         *)
(* difference to the same column of the row before and in as few bytes as  *)
(* its size asks for, and are read back from there into a fresh database   *)
(* (dump_metadata and restore_metadata in metadata.py).                    *)
(*                                                                         *)
(* The sizes are parameters, so that the edges of every width can be       *)
(* reached: a byte has ByteBits bits, and the widths the code calls INT8,  *)
(* INT16, INT32 and INT64 take Lens[1] .. Lens[4] bytes.  Signed           *)
(* arithmetic wraps around, as it does under the options CPython builds    *)
(* its extension modules with.                                             *)
(***************************************************************************)
EXTENDS Integers, Sequences, SequencesExt

CONSTANTS
    ByteBits,   \* bits of a byte
    Lens,       \* bytes of the four widths
    MaxBlob,    \* MAX_BLOB_SIZE
    TrxRows,    \* rows of a transaction of load_table
    BufSize,    \* bytes the C library reads ahead
    DumpSpec,   \* the tables: for each a sequence of columns
    Content,    \* what the tables may hold
    Null

VARIABLES
    content,    \* the tables of the database that is dumped: rows of cells
    pc,         \* what runs now
    tab,        \* the table that is written or read
    row,        \* the row
    col,        \* the column
    prev,       \* int64_prev
    stream,     \* the bytes of the dump file
    fd,         \* offset of its file descriptor
    fp,         \* offset of the FILE that load_table reads from
    row_count,  \* rows load_table expects
    cells,      \* cells of the row that is being read
    pending,    \* rows inserted in the open transaction
    db,         \* rows committed to the temporary database file
    dbfile,     \* the restored database, Null before it is renamed
    cut         \* the dump file has lost its end

vars == <<content, pc, tab, row, col, prev, stream, fd, fp, row_count, cells,
          pending, db, dbfile, cut>>

-----------------------------------------------------------------------------
Byte == 2 ^ ByteBits
SignBit == 2 ^ (ByteBits - 1)
Word == 2 ^ (ByteBits * Lens[4])

\* Integer length codes: the four largest values below the sign bit.
IntCode(k) == SignBit - k

\* UINT8_MAX, UINT16_MAX, UINT32_MAX
UintMax(k) == 2 ^ (ByteBits * Lens[k]) - 1

int64_t(x) == ((x + (Word \div 2)) % Word) - (Word \div 2)
uint64_t(x) == x % Word

htole64(u, n) ==
    [k \in 1 .. n |-> (u \div 2 ^ (ByteBits * (k - 1))) % Byte]

le64toh(bytes) ==
    FoldRight(LAMBDA b, high : b + (Byte * high), bytes, 0)

LengthCodes == {IntCode(k) : k \in 1 .. 4}

\* A mutant: the length codes are not kept free.
write_integer_Codes(x) ==
    LET u == uint64_t(IF x < 0 THEN int64_t(-x) ELSE x)
        sign == IF x < 0 THEN SignBit ELSE 0
        k == CHOOSE k \in 1 .. 4 :
                /\ k = 4 \/ u < UintMax(k)
                /\ \A m \in 1 .. k - 1 : u >= UintMax(m)
    IN  IF u < SignBit THEN <<sign + u>>
        ELSE <<sign + IntCode(k)>> \o htole64(u, Lens[k])

\* The bytes write_integer writes for x.
write_integer(x) ==
    LET u == uint64_t(IF x < 0 THEN int64_t(-x) ELSE x)
        sign == IF x < 0 THEN SignBit ELSE 0
        k == CHOOSE k \in 1 .. 4 :
                /\ k = 4 \/ u < UintMax(k)
                /\ \A m \in 1 .. k - 1 : u >= UintMax(m)
    IN  IF u < SignBit /\ u \notin LengthCodes
        THEN <<sign + u>>
        ELSE <<sign + IntCode(k)>> \o htole64(u, Lens[k])

\* The number of bytes that follow the first byte b of an integer.
IntegerTail(b) ==
    LET code == b % SignBit
    IN  IF code \in LengthCodes THEN Lens[SignBit - code] ELSE 0

\* The integer read_integer makes of them.
IntegerValue(bytes) ==
    LET b == Head(bytes)
        u == IF Len(bytes) = 1 THEN b % SignBit ELSE le64toh(Tail(bytes))
    IN  IF b >= SignBit THEN int64_t(-int64_t(u)) ELSE int64_t(u)

-----------------------------------------------------------------------------
Columns == DumpSpec[tab]
Rows == content[tab]
Zeroes(t) == [j \in DOMAIN DumpSpec[t] |-> 0]

Init ==
    /\ content \in Content
    /\ pc = "dump_count" /\ tab = 1 /\ row = 1 /\ col = 1 /\ prev = Zeroes(1)
    /\ stream = <<>> /\ fd = 0 /\ fp = 0 /\ row_count = 0
    /\ cells = <<>> /\ pending = <<>>
    /\ db = [t \in DOMAIN DumpSpec |-> <<>>]
    /\ dbfile = Null /\ cut = FALSE

loading == <<fp, row_count, cells, pending, db, dbfile, cut>>

\* fwrite: the FILE keeps what is written until fclose, nobody else looks.
fwrite(bytes) == stream' = stream \o bytes

DumpCount ==
    /\ pc = "dump_count"
    /\ fwrite(write_integer(Len(Rows)))
    /\ pc' = "dump"
    /\ UNCHANGED <<content, tab, row, col, prev, fd, loading>>

\* The next column, or the first one of the next row.
Advance ==
    IF col < Len(Columns) THEN col' = col + 1 /\ row' = row
                          ELSE col' = 1 /\ row' = row + 1

DumpInteger ==
    LET x == Rows[row][col]
    IN  /\ Columns[col].type = "integer" /\ x # Null
        /\ fwrite(write_integer(int64_t(x - (prev[col] + Columns[col].arg))))
        /\ prev' = [prev EXCEPT ![col] = x]
        /\ Advance
        /\ UNCHANGED pc

DumpBlob ==
    LET x == Rows[row][col]
        arg == Columns[col].arg
    IN  /\ Columns[col].type = "blob" /\ x # Null
        /\ Len(x) <= MaxBlob
        /\ IF arg = 0
           THEN /\ fwrite(write_integer(Len(x) - prev[col]) \o x)
                /\ prev' = [prev EXCEPT ![col] = Len(x)]
           ELSE /\ Len(x) = arg
                /\ fwrite(x)
                /\ UNCHANGED prev
        /\ Advance
        /\ UNCHANGED pc

\* dump_table raises ValueError for the cell x.
Undumpable(column, x) ==
    IF x = Null THEN TRUE
    ELSE /\ column.type = "blob"
         /\ Len(x) > MaxBlob \/ column.arg \notin {0, Len(x)}

DumpRefused ==
    /\ Undumpable(Columns[col], Rows[row][col])
    /\ pc' = "failed"
    /\ UNCHANGED <<row, col, prev, stream>>

DumpCell ==
    /\ pc = "dump" /\ row <= Len(Rows)
    /\ DumpInteger \/ DumpBlob \/ DumpRefused
    /\ UNCHANGED <<content, tab, fd, loading>>

\* A mutant: the descriptor stays where the C library has read ahead to.
fclose_NoSeek(off) == UNCHANGED fd

\* fclose: what is buffered is written, and the descriptor, which the dup
\* shares with the caller's file, is moved to where the FILE has come to.
fclose(off) == fd' = off

\* fclose, and the loop of dump_metadata goes on with the next table.
DumpClose ==
    /\ pc = "dump" /\ row > Len(Rows)
    /\ row' = 1 /\ col' = 1
    /\ IF tab < Len(DumpSpec)
       THEN /\ pc' = "dump_count" /\ tab' = tab + 1 /\ prev' = Zeroes(tab + 1)
            /\ fclose(Len(stream))
       ELSE \* the caller rewinds the file, or downloads a copy of it
            /\ pc' = "load_count" /\ tab' = 1 /\ prev' = Zeroes(1)
            /\ fd' = 0
    /\ UNCHANGED <<content, stream, loading>>

\* The copy that is restored may have lost its end.
Truncate ==
    /\ pc = "load_count" /\ tab = 1 /\ ~cut
    /\ \E n \in 0 .. Len(stream) - 1 : stream' = SubSeq(stream, 1, n)
    /\ cut' = TRUE
    /\ UNCHANGED <<content, pc, tab, row, col, prev, fd, fp, row_count, cells,
                   pending, db, dbfile>>

-----------------------------------------------------------------------------
\* The offset of the descriptor when the C library has read up to `need`.
ReadAhead(need) ==
    IF need <= fd THEN fd
    ELSE LET want == fd + (BufSize * ((need - fd + BufSize - 1) \div BufSize))
         IN  IF want > Len(stream) THEN Len(stream) ELSE want

Bytes(from, n) == SubSeq(stream, from + 1, from + n)

\* The integer at offset `from`: how many bytes it takes, 0 if the file ends
\* before, and its value.
IntegerSize(from) ==
    IF from >= Len(stream) THEN 0
    ELSE LET n == 1 + IntegerTail(stream[from + 1])
         IN  IF from + n > Len(stream) THEN 0 ELSE n

read_integer(from) == IntegerValue(Bytes(from, IntegerSize(from)))

\* fread gets n bytes at offset `from`.
fread(from, n) == fp' = from + n /\ fd' = ReadAhead(from + n)

\* An error: the open transaction is committed and the FILE closed, but
\* restore_metadata unlinks the temporary database.
LoadFails ==
    /\ pc' = "failed"
    /\ db' = [t \in DOMAIN DumpSpec |-> <<>>] /\ pending' = <<>>
    /\ fclose(fp)
    /\ UNCHANGED <<row, col, prev, fp, row_count, cells>>

LoadCount ==
    /\ pc = "load_count"
    /\ IF IntegerSize(fd) = 0
       THEN LoadFails
       ELSE /\ row_count' = read_integer(fd)
            /\ fread(fd, IntegerSize(fd))
            /\ pc' = "load"
            /\ UNCHANGED <<row, col, prev, cells, pending, db>>
    /\ UNCHANGED <<content, tab, stream, dbfile, cut>>

LoadInteger ==
    /\ Columns[col].type = "integer"
    /\ IF IntegerSize(fp) = 0
       THEN LoadFails
       ELSE LET x == int64_t(read_integer(fp) + (Columns[col].arg + prev[col]))
            IN  /\ cells' = Append(cells, x)
                /\ prev' = [prev EXCEPT ![col] = x]
                /\ fread(fp, IntegerSize(fp))
                /\ col' = col + 1
                /\ UNCHANGED <<pc, row, row_count, pending, db>>

LoadBlob ==
    LET fixed == Columns[col].arg
        head == IF fixed = 0 THEN IntegerSize(fp) ELSE 0
        len == IF fixed = 0 THEN prev[col] + read_integer(fp) ELSE fixed
    IN  /\ Columns[col].type = "blob"
        /\ IF \/ fixed = 0 /\ head = 0
              \/ len < 0 \/ len > MaxBlob
              \/ fp + head + len > Len(stream)
           THEN LoadFails
           ELSE /\ cells' = Append(cells, Bytes(fp + head, len))
                /\ prev' = IF fixed = 0 THEN [prev EXCEPT ![col] = len] ELSE prev
                /\ fread(fp, head + len)
                /\ col' = col + 1
                /\ UNCHANGED <<pc, row, row_count, pending, db>>

\* The INSERT of a complete row; every TrxRows rows the transaction is
\* committed and a new one begun.
InsertRow ==
    /\ col > Len(Columns)
    /\ LET inserted == Append(pending, cells)
       IN  IF (row - 1) % TrxRows = 0
           THEN db' = [db EXCEPT ![tab] = @ \o inserted] /\ pending' = <<>>
           ELSE pending' = inserted /\ UNCHANGED db
    /\ cells' = <<>> /\ col' = 1 /\ row' = row + 1
    /\ UNCHANGED <<pc, prev, fd, fp, row_count>>

LoadRow ==
    /\ pc = "load" /\ row <= row_count
    /\ InsertRow \/ (col <= Len(Columns) /\ (LoadInteger \/ LoadBlob))
    /\ UNCHANGED <<content, tab, stream, dbfile, cut>>

\* The last transaction is committed and the FILE closed; after the last
\* table the temporary database becomes the real one.
LoadClose ==
    /\ pc = "load" /\ row > row_count
    /\ LET loaded == [db EXCEPT ![tab] = @ \o pending]
       IN  IF tab < Len(DumpSpec)
           THEN /\ pc' = "load_count" /\ tab' = tab + 1 /\ prev' = Zeroes(tab + 1)
                /\ db' = loaded /\ UNCHANGED dbfile
           ELSE /\ pc' = "done" /\ dbfile' = loaded
                /\ UNCHANGED <<tab, prev, db>>
    /\ pending' = <<>> /\ row' = 1 /\ col' = 1
    /\ fclose(fp)
    /\ UNCHANGED <<content, stream, fp, row_count, cells, cut>>

Finished == pc \in {"done", "failed"} /\ UNCHANGED vars

Next == \/ DumpCount \/ DumpCell \/ DumpClose \/ Truncate
        \/ LoadCount \/ LoadRow \/ LoadClose \/ Finished

Spec == Init /\ [][Next]_vars

-----------------------------------------------------------------------------
\* The file is made of bytes, its descriptor stays within it, and an integer
\* that is carried from row to row fits into the widest type.
TypeOK ==
    /\ content \in Content
    /\ pc \in {"dump_count", "dump", "load_count", "load", "done", "failed"}
    /\ tab \in DOMAIN DumpSpec /\ row \in Nat /\ col \in Nat
    /\ DOMAIN prev = DOMAIN DumpSpec[tab]
    /\ \A j \in DOMAIN prev : prev[j] = int64_t(prev[j])
    /\ \A k \in DOMAIN stream : stream[k] \in 0 .. Byte - 1
    /\ fd \in 0 .. Len(stream) /\ fp \in Nat /\ row_count \in Nat
    /\ cut \in BOOLEAN

(***************************************************************************)
(* restore_metadata yields the tables that dump_metadata was given or      *)
(* nothing: no row is lost, repeated or changed by the differences, the    *)
(* widths, the transactions or the buffer of the FILE that reads past the  *)
(* end of its table, and a dump that has lost its end is not restored.     *)
(***************************************************************************)
RestoredExactly == dbfile # Null => dbfile = content

(***************************************************************************)
(* What dump_table accepted load_table accepts: only a dump that has lost  *)
(* its end is refused once it has been written.                            *)
(***************************************************************************)
DumpCanBeLoaded ==
    pc = "failed" /\ ~cut =>
        \E t \in DOMAIN content : \E r \in DOMAIN content[t] :
            \E c \in DOMAIN DumpSpec[t] : Undumpable(DumpSpec[t][c], content[t][r][c])

(***************************************************************************)
(* write_integer uses as little space as possible: no shorter sequence of  *)
(* bytes is read back as the difference that was last written.  This does  *)
(* not hold: the largest value of each width is written with the next      *)
(* larger one (deltadump.pyx:570).                                         *)
(***************************************************************************)
AsLittleSpaceAsPossible ==
    pc = "dump" /\ row > 2 /\ col = 1 =>
        LET c == Len(Columns)
            x == Rows[row - 1][c] - (Rows[row - 2][c] + Columns[c].arg)
            u == uint64_t(IF x < 0 THEN -x ELSE x)
        IN  Columns[c].type = "integer" =>
                \A k \in 1 .. 4, s \in {0, SignBit} :
                    IntegerValue(<<s + IntCode(k)>> \o htole64(u, Lens[k])) = int64_t(x)
                        => Len(write_integer(int64_t(x))) <= 1 + Lens[k]
=============================================================================
