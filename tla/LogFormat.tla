------------------------------ MODULE LogFormat ------------------------------
(***************************************************************************)
(* leveldb's log files, which hold the write-ahead log and the manifest:   *)
(* log::Writer cuts a record into fragments that fit into blocks, and      *)
(* log::Reader puts the records together again, from a file that may end   *)
(* anywhere or have a hole where an append failed.                         *)
(*                                                                         *)
(* A byte is the i-th byte of the header or the payload of a fragment of a *)
(* record; a checksum fits exactly the bytes of one fragment, in order.    *)
(***************************************************************************)
EXTENDS Integers, SequencesExt

CONSTANTS
    kBlockSize,
    kHeaderSize,
    RecordSizes,    \* the sizes of the records that are written
    MaxRecords,     \* bound: calls of AddRecord
    MaxAppendFails  \* bound: appends that fail

VARIABLES
    file,           \* the bytes of the log file
    block_offset,   \* Writer::block_offset_
    acked,          \* the records whose AddRecord returned OK: their fragments
    written,        \* number of calls of AddRecord
    appendFails     \* number of appends that failed

logVars == <<file, block_offset, acked, written, appendFails>>

Zero == [rec |-> 0, frag |-> 0, type |-> "zero", len |-> 0, i |-> 0]

-----------------------------------------------------------------------------
(* Writer.                                                                 *)

\* Faulty: the rest of the block is left out of the file.
NoTrailer(offset) == 0

\* The bytes left in a block that cannot hold a header, filled with zeros.
Trailer(offset) ==
    IF kBlockSize - offset < kHeaderSize THEN kBlockSize - offset ELSE 0

RECURSIVE FragmentsFrom(_, _, _)
\* The fragments AddRecord makes of `left' bytes at a block offset: their
\* lengths, the trailers before them and the offsets after them.
FragmentsFrom(offset, left, begin) ==
    LET start == IF kBlockSize - offset < kHeaderSize THEN 0 ELSE offset
        avail == kBlockSize - start - kHeaderSize
        len == IF left < avail THEN left ELSE avail
        end == left = len
        type == CASE begin /\ end -> "full" [] begin /\ ~end -> "first"
                  [] ~begin /\ end -> "last" [] OTHER -> "middle"
        this == [trailer |-> Trailer(offset), type |-> type, len |-> len,
                 after |-> start + kHeaderSize + len]
    IN  IF end THEN <<this>>
        ELSE <<this>> \o FragmentsFrom(this.after, left - len, FALSE)

Fragments(size) == FragmentsFrom(block_offset, size, TRUE)

\* EmitPhysicalRecord: what fragment f of record r appends to the file.
EmitPhysicalRecord(r, fs, f) ==
    [i \in 1 .. fs[f].trailer |-> Zero] \o
    [i \in 1 .. kHeaderSize + fs[f].len |->
        [rec |-> r, frag |-> f, type |-> fs[f].type, len |-> fs[f].len, i |-> i]]

Emitted(r, fs, n) ==
    FoldLeft(LAMBDA bytes, f : bytes \o EmitPhysicalRecord(r, fs, f),
             <<>>, [f \in 1 .. n |-> f])

\* The fragments of record r, as the reader puts them together.
Payload(r, n) == [f \in 1 .. n |-> [rec |-> r, frag |-> f]]

AddRecord(size) ==
    /\ written < MaxRecords
    /\ written' = written + 1
    /\ LET fs == Fragments(size)
           n == Len(fs)
       IN  /\ file' = file \o Emitted(written + 1, fs, n)
           /\ block_offset' = fs[n].after
           /\ acked' = Append(acked, Payload(written + 1, n))
    /\ UNCHANGED appendFails

\* The append of fragment f fails after k bytes; block_offset_ moves on as if
\* the fragment were in the file, and AddRecord returns the error.
AddRecordFails(size) ==
    /\ written < MaxRecords /\ appendFails < MaxAppendFails
    /\ written' = written + 1
    /\ appendFails' = appendFails + 1
    /\ LET fs == Fragments(size)
       IN  \E f \in DOMAIN fs :
             LET torn == EmitPhysicalRecord(written + 1, fs, f)
             IN  \E k \in 0 .. Len(torn) - 1 :
                   /\ file' = file \o Emitted(written + 1, fs, f - 1)
                                   \o SubSeq(torn, 1, k)
                   /\ block_offset' = fs[f].after
    /\ UNCHANGED acked

-----------------------------------------------------------------------------
(* Reader.                                                                 *)

\* ReadPhysicalRecord finds a header whose length and checksum fit.
Intact(buffer) ==
    LET b == buffer[1]
        n == kHeaderSize + b.len
    IN  /\ b.i = 1
        /\ n <= Len(buffer)
        /\ \A j \in 1 .. n : buffer[j] = [b EXCEPT !.i = j]

\* Faulty: the fragments read so far stay after a bad record.
KeepFragments(scratch) == scratch

\* ReadRecord drops the fragments it has when it meets a bad record.
AfterBadRecord(scratch) == <<>>

RECURSIVE ReadFrom(_, _, _, _, _)
\* The records that the calls of ReadRecord yield: `rest' is the unread file,
\* `scratch' the fragments of the record that is being put together.
ReadFrom(rest, buffer, eof, scratch, out) ==
    IF Len(buffer) < kHeaderSize
    THEN IF eof THEN out
         ELSE LET n == IF Len(rest) < kBlockSize THEN Len(rest) ELSE kBlockSize
              IN  ReadFrom(SubSeq(rest, n + 1, Len(rest)), SubSeq(rest, 1, n),
                           n < kBlockSize, scratch, out)
    ELSE IF ~Intact(buffer)
    THEN ReadFrom(rest, <<>>, eof, AfterBadRecord(scratch), out)
    ELSE LET b == buffer[1]
             left == SubSeq(buffer, kHeaderSize + b.len + 1, Len(buffer))
             fragment == <<[rec |-> b.rec, frag |-> b.frag]>>
             more == scratch \o fragment
         IN  CASE b.type = "full" -> ReadFrom(rest, left, eof, <<>>, Append(out, fragment))
               [] b.type = "first" -> ReadFrom(rest, left, eof, fragment, out)
               [] scratch = <<>> -> ReadFrom(rest, left, eof, <<>>, out)
               [] b.type = "middle" -> ReadFrom(rest, left, eof, more, out)
               [] b.type = "last" -> ReadFrom(rest, left, eof, <<>>, Append(out, more))

\* What a reader makes of the first n bytes of the file.
ReadUpTo(n) == ReadFrom(SubSeq(file, 1, n), <<>>, FALSE, <<>>, <<>>)

-----------------------------------------------------------------------------
LogInit ==
    /\ file = <<>> /\ block_offset = 0
    /\ acked = <<>> /\ written = 0 /\ appendFails = 0

LogNext == \E size \in RecordSizes : AddRecord(size) \/ AddRecordFails(size)

LogSpec == LogInit /\ [][LogNext]_logVars

-----------------------------------------------------------------------------
\* The last byte of record p is among the first n.
WithinFirst(p, n) ==
    \E j \in 1 .. n : /\ file[j].rec = p[1].rec /\ file[j].frag = Len(p)
                      /\ file[j].i = kHeaderSize + file[j].len

(***************************************************************************)
(* As long as no append fails, a log that ends after any byte, as a crash  *)
(* may leave it, yields exactly the records that are in it completely, in  *)
(* the order they were added, however they fall on blocks                  *)
(* (AddRecord, ReadRecord, ReadPhysicalRecord).                            *)
(***************************************************************************)
ReadsWholeRecords ==
    appendFails = 0 =>
        \A n \in 0 .. Len(file) :
            ReadUpTo(n) = SelectSeq(acked, LAMBDA p : WithinFirst(p, n))

(***************************************************************************)
(* Also after failed appends, which leave holes in the file and the        *)
(* writer's idea of the blocks wrong, no record is read that was not       *)
(* added, none is put together from fragments of two, and their order is   *)
(* kept (ReadRecord's handling of bad records).                            *)
(***************************************************************************)
NeverInvents ==
    \A n \in 0 .. Len(file) :
        LET out == ReadUpTo(n)
        IN  out = SelectSeq(acked, LAMBDA p : p \in Range(out))

(***************************************************************************)
(* What include/leveldb/options.h:174 says of a write without sync: "if it *)
(* is just the process that crashes (i.e., the machine does not reboot),   *)
(* no writes will be lost".  All of the file is there, so every record     *)
(* whose AddRecord returned OK is read again.                              *)
(***************************************************************************)
NoWritesLost == ReadUpTo(Len(file)) = acked
=============================================================================
