------------------------------- MODULE Headers -------------------------------
(***************************************************************************)
(* The headers of the chain on disk: the file of headers, for coins whose  *)
(* headers vary in size the file of their offsets, what a flush writes and *)
(* in which order, a reorganisation, which only moves the height, and a    *)
(* crash.  A header is a height, a branch and a size; a byte is a header's *)
(* height and branch and its place.                                        *)
(*                                                                         *)
(* The files are logical ones, split across several files of a fixed size  *)
(* (class util.LogicalFile).  A file is a sequence of cells; cells that    *)
(* were skipped by a seek hold Hole.                                       *)
(***************************************************************************)
EXTENDS Integers, Sequences

CONSTANTS
    file_size, Hole, MaxFiles,      \* of a logical file; MaxFiles bounds its files
    BASIC_HEADER_SIZE,
    ExpandedHeight, ExpandedSize,   \* static headers are larger from a height on
    Sizes,                          \* of headers, where the block tells
    Undeclared,                     \* sizes of static headers that the coin does not tell
    MaxHeight                       \* bound: height

HeadersAssumption ==
    /\ file_size \in Nat \ {0} /\ MaxFiles \in Nat
    /\ BASIC_HEADER_SIZE \in Nat \ {0} /\ ExpandedHeight \in Nat /\ ExpandedSize \in Nat
    /\ Sizes \subseteq Nat /\ \A size \in Sizes : BASIC_HEADER_SIZE <= size
    /\ Undeclared \subseteq Nat /\ MaxHeight \in Nat

-----------------------------------------------------------------------------
(* Logical files.                                                           *)

NoFiles == [n \in 0 .. MaxFiles - 1 |-> <<>>]

Lower(a, b) == IF a < b THEN a ELSE b
Higher(a, b) == IF a < b THEN b ELSE a

\* f.seek(at); f.write(b)
Overwritten(s, at, b) ==
    [i \in 1 .. Higher(Len(s), at + Len(b)) |->
        IF i > at /\ i <= at + Len(b) THEN b[i - at]
        ELSE IF i <= Len(s) THEN s[i] ELSE Hole]

\* Mutant of Write: all of b is written where it begins, past the end of that file.
WriteUnsplit(files, start, b) ==
    [n \in DOMAIN files |->
        IF n = start \div file_size THEN Overwritten(files[n], start % file_size, b) ELSE files[n]]

\* The part of b that belongs to file n is written there.
Write(files, start, b) ==
    [n \in DOMAIN files |->
        LET first == Higher(start, n * file_size)
            end == Lower(start + Len(b), (n + 1) * file_size)
        IN IF first < end
           THEN Overwritten(files[n], first - n * file_size, SubSeq(b, first - start + 1, end - start))
           ELSE files[n]]

\* What one file has of the bytes from at to end.
PartAt(files, at, end) ==
    LET n == at \div file_size
        offset == at % file_size
    IN IF n \in DOMAIN files
       THEN SubSeq(files[n], offset + 1, Lower(offset + (end - at), Len(files[n])))
       ELSE <<>>

\* Parts are read until one is empty or its file does not exist.
Read(files, start, size) ==
    LET end == start + size
        from[at \in start .. end] ==
            LET part == PartAt(files, at, end)
            IN IF at = end \/ part = <<>> THEN <<>> ELSE part \o from[at + Len(part)]
    IN from[start]

-----------------------------------------------------------------------------
VARIABLES
    STATIC_BLOCK_HEADERS,  \* does the coin tell the size of headers; never changed
    headers_file, headers_offsets_file,
    chain,             \* the headers up to db_height
    flush, stage       \* headers being written, and what is written next

vars == <<STATIC_BLOCK_HEADERS, headers_file, headers_offsets_file, chain, flush, stage>>

db_height == Len(chain) - 1

\* The first offset is written when the database is created.
Init ==
    /\ STATIC_BLOCK_HEADERS \in BOOLEAN
    /\ headers_file = NoFiles /\ headers_offsets_file = [h \in 0 .. MaxHeight + 1 |-> 0]
    /\ chain = <<>> /\ flush = <<>> /\ stage = "headers"

-----------------------------------------------------------------------------
(* Offsets and sizes.                                                       *)

static_header_offset(h) ==
    IF h <= ExpandedHeight THEN h * BASIC_HEADER_SIZE
    ELSE ExpandedHeight * BASIC_HEADER_SIZE + (h - ExpandedHeight) * ExpandedSize

static_header_len(h) == static_header_offset(h + 1) - static_header_offset(h)

header_offset(h) == IF STATIC_BLOCK_HEADERS THEN static_header_offset(h) ELSE headers_offsets_file[h]

header_len(h) == header_offset(h + 1) - header_offset(h)

\* block_header: what size the header of a block has.
SizesAt(h) == IF STATIC_BLOCK_HEADERS THEN {static_header_len(h)} \cup Undeclared ELSE Sizes

-----------------------------------------------------------------------------
(* Writing.                                                                 *)

Byte(hd, i) == <<hd.height, hd.branch, i>>
Bytes(hd) == [i \in 1 .. hd.size |-> Byte(hd, i)]
NewHeader(h) == [height : {h}, branch : {"a", "b"}, size : SizesAt(h)]
Batches == LET h == db_height + 1
           IN { <<a>> : a \in NewHeader(h) }
              \cup IF h < MaxHeight THEN NewHeader(h) \X NewHeader(h + 1) ELSE {}
Join(hds) == IF Len(hds) = 1 THEN Bytes(hds[1]) ELSE Bytes(hds[1]) \o Bytes(hds[2])

\* flush_fs.  MaxFiles bounds what is written.
WriteHeaders(hds) ==
    /\ stage = "headers" /\ db_height < MaxHeight
    /\ header_offset(db_height + 1) + Len(Join(hds)) <= MaxFiles * file_size
    /\ headers_file' = Write(headers_file, header_offset(db_height + 1), Join(hds))
    /\ flush' = hds /\ stage' = "offsets"
    /\ UNCHANGED <<STATIC_BLOCK_HEADERS, headers_offsets_file, chain>>

\* "For each header we get the offset of the next header"
NextOffsetAt(n) == db_height + n + 1

EndOf(n) == header_offset(db_height + 1) + Len(Join(SubSeq(flush, 1, n)))

\* fs_update_header_offsets
WriteOffsets ==
    /\ stage = "offsets" /\ stage' = "state"
    /\ headers_offsets_file' =
         IF STATIC_BLOCK_HEADERS THEN headers_offsets_file
         ELSE [h \in DOMAIN headers_offsets_file |->
                 IF \E n \in 1 .. Len(flush) : h = NextOffsetAt(n)
                 THEN EndOf(CHOOSE n \in 1 .. Len(flush) : h = NextOffsetAt(n))
                 ELSE headers_offsets_file[h]]
    /\ UNCHANGED <<STATIC_BLOCK_HEADERS, headers_file, chain, flush>>

\* The state is written last, with the height.
FlushState ==
    /\ stage = "state" /\ stage' = "headers"
    /\ chain' = chain \o flush /\ flush' = <<>>
    /\ UNCHANGED <<STATIC_BLOCK_HEADERS, headers_file, headers_offsets_file>>

\* "This just updates our pointers."
BackupFs ==
    /\ stage = "headers" /\ chain # <<>>
    /\ chain' = SubSeq(chain, 1, Len(chain) - 1)
    /\ UNCHANGED <<STATIC_BLOCK_HEADERS, headers_file, headers_offsets_file, flush, stage>>

\* The process dies during a flush; what is in the files stays.
Crash ==
    /\ stage # "headers" /\ stage' = "headers" /\ flush' = <<>>
    /\ UNCHANGED <<STATIC_BLOCK_HEADERS, headers_file, headers_offsets_file, chain>>

Next ==
    \/ \E hds \in Batches : WriteHeaders(hds)
    \/ WriteOffsets \/ FlushState \/ BackupFs \/ Crash

Spec == Init /\ [][Next]_vars

-----------------------------------------------------------------------------
(* Reading.                                                                 *)

DiskCount(start, count) == Higher(0, Lower(count, db_height + 1 - start))

read_headers(start, count) ==
    LET n == DiskCount(start, count)
        offset == header_offset(start)
    IN IF n = 0 THEN <<>> ELSE Read(headers_file, offset, header_offset(start + n) - offset)

\* fs_block_hashes: the headers that are hashed.
fs_headers(start, count) ==
    [n \in 1 .. count |->
        LET at == header_offset(start + n - 1) - header_offset(start)
        IN SubSeq(read_headers(start, count), at + 1, at + header_len(start + n - 1))]

TruncatedEnds(start, n) == header_offset(start + n) - header_offset(start)

\* truncate_auxpow
truncate_auxpow(start, count) ==
    [n \in 1 .. DiskCount(start, count) |->
        SubSeq(read_headers(start, count), TruncatedEnds(start, n - 1) + 1,
               TruncatedEnds(start, n - 1) + BASIC_HEADER_SIZE)]

-----------------------------------------------------------------------------
Spans == { sc \in (0 .. MaxHeight) \X (1 .. MaxHeight + 1) : sc[1] + sc[2] <= db_height + 1 }

\* Every header reads as the chain has it, across file boundaries, after
\* reorganisations to headers of other sizes and crashes in a flush.
HeadersReadBack ==
    \A s \in 0 .. db_height : read_headers(s, 1) = Bytes(chain[s + 1])

\* fs_block_hashes hashes the headers of the chain: a range is cut where its
\* headers start and end.
BlockHashesRight ==
    \A sc \in Spans : fs_headers(sc[1], sc[2]) = [n \in 1 .. sc[2] |-> Bytes(chain[sc[1] + n])]

\* Of a range covered by a checkpoint a client gets the basic part of each header.
AuxPowTruncated ==
    \A sc \in Spans : truncate_auxpow(sc[1], sc[2]) =
        [n \in 1 .. sc[2] |-> SubSeq(Bytes(chain[sc[1] + n]), 1, BASIC_HEADER_SIZE)]

\* Headers read as they were written, one by one and in ranges, and where their sizes
\* vary also truncated.
HeadersRight ==
    HeadersReadBack /\ BlockHashesRight /\ (STATIC_BLOCK_HEADERS \/ AuxPowTruncated)
=============================================================================
