------------------------------- MODULE LogFile -------------------------------
(***************************************************************************)
(* A log file of leveldb-library: the writer cuts a record into fragments  *)
(* that do not cross a block (db/log_writer.cc), the process or the power  *)
(* fails, and the reader puts the records together again                   *)
(* (db/log_reader.cc).                                                     *)
(*                                                                         *)
(* A byte of the file is <<fragment, its place in it>>, a byte of a        *)
(* trailer <<0, 0>>.  A checksum matches exactly if the bytes it covers    *)
(* are those of one fragment, in their order.                              *)
(***************************************************************************)
EXTENDS Integers, Sequences

CONSTANTS
  BlockSize,    \* kBlockSize
  HeaderSize,   \* kHeaderSize
  Sizes,        \* the sizes of a record
  MaxRecords,   \* bound on the records added
  MaxFailures   \* bound on the appends that fail

ASSUME LogAssumption ==
  /\ BlockSize \in Nat /\ HeaderSize \in 1..BlockSize
  /\ Sizes \subseteq Nat
  /\ MaxRecords \in Nat /\ MaxFailures \in Nat

VARIABLES
  file,         \* the bytes
  fragments,    \* the fragments emitted: record, type, length
  records,      \* the number of records added
  writer,       \* AddRecord's begin and left, left = -1 between two calls, and block_offset_
  durable,      \* the bytes and the records that the last Sync made durable
  failures,     \* the appends that failed
  reader        \* the Reader, see LogTypeOK

logVars == <<file, fragments, records, writer, durable, failures, reader>>

Types == {"full", "first", "middle", "last"}

\* The reader's buffer is the bytes after `at` up to `end`; scratch has the
\* fragments of a record, returned the records.
LogTypeOK ==
  /\ file \in Seq((0..Len(fragments)) \X (0..BlockSize))
  /\ fragments \in Seq([record : 1..MaxRecords, type : Types, length : 0..BlockSize])
  /\ records \in 0..MaxRecords /\ failures \in 0..MaxFailures
  /\ writer \in [left : {-1} \cup Nat, begin : BOOLEAN, blockOffset : 0..BlockSize]
  /\ durable \in [bytes : 0..Len(file), records : 0..records]
  /\ reader \in [state : {"waits", "reads", "ended"}, at : Nat, end : Nat, eof : BOOLEAN,
                 scratch : Seq(Nat), inFragmented : BOOLEAN, corruption : BOOLEAN,
                 returned : Seq(Seq(Nat))]

LogInit ==
  /\ file = <<>> /\ fragments = <<>>
  /\ records = 0 /\ failures = 0
  /\ writer = [left |-> -1, begin |-> FALSE, blockOffset |-> 0]
  /\ durable = [bytes |-> 0, records |-> 0]
  /\ reader = [state |-> "waits", at |-> 0, end |-> 0, eof |-> FALSE, scratch |-> <<>>,
               inFragmented |-> FALSE, corruption |-> FALSE, returned |-> <<>>]

------------------------------------------------------------------------------
(***************************************************************************)
(* The writer.                                                             *)
(***************************************************************************)
Writing == reader.state = "waits"
Resting == writer.left = -1

AddRecord(size) ==
  /\ Writing /\ Resting /\ records < MaxRecords
  /\ records' = records + 1
  /\ writer' = [writer EXCEPT !.left = size, !.begin = TRUE]
  /\ UNCHANGED <<file, fragments, durable, failures, reader>>

\* Mutant: the rest of the block is not filled.
TrailerNotFilled(leftover) == <<>>

\* Too few bytes for a header: the rest of the block is filled.
Trailer(leftover) == IF leftover < HeaderSize THEN [i \in 1..leftover |-> <<0, 0>>] ELSE <<>>

\* One turn of AddRecord's loop.  An append that fails has written a part, and
\* the block's offset goes on as if it had written all.
EmitPhysicalRecord(fails) ==
  LET leftover == BlockSize - writer.blockOffset
      start    == IF leftover < HeaderSize THEN 0 ELSE writer.blockOffset
      avail    == BlockSize - start - HeaderSize
      length   == IF writer.left < avail THEN writer.left ELSE avail
      end      == writer.left = length
      type     == IF writer.begin THEN (IF end THEN "full" ELSE "first")
                  ELSE IF end THEN "last" ELSE "middle"
      bytes    == Trailer(leftover) \o
                  [i \in 1..(HeaderSize + length) |-> <<Len(fragments) + 1, i>>]
  IN  /\ Writing /\ ~Resting
      /\ fragments' = Append(fragments, [record |-> records, type |-> type, length |-> length])
      /\ \/ /\ ~fails
            /\ file' = file \o bytes
            /\ UNCHANGED failures
         \/ /\ fails /\ failures < MaxFailures
            /\ \E n \in 0..(Len(bytes) - 1) : file' = file \o SubSeq(bytes, 1, n)
            /\ failures' = failures + 1
      /\ writer' = [left        |-> IF end \/ fails THEN -1 ELSE writer.left - length,
                    begin       |-> FALSE,
                    blockOffset |-> start + HeaderSize + length]
      /\ UNCHANGED <<records, durable, reader>>

Sync ==
  /\ Writing /\ Resting
  /\ durable' = [bytes |-> Len(file), records |-> records]
  /\ UNCHANGED <<file, fragments, records, writer, failures, reader>>

\* The process or the power fails: what is not durable may be lost from some
\* byte on.  The database is opened again.
Crash ==
  /\ Writing
  /\ \E n \in durable.bytes..Len(file) : file' = SubSeq(file, 1, n)
  /\ reader' = [reader EXCEPT !.state = "reads"]
  /\ UNCHANGED <<fragments, records, writer, durable, failures>>

------------------------------------------------------------------------------
(***************************************************************************)
(* The reader.                                                             *)
(***************************************************************************)
Buffered == reader.end - reader.at

\* The fragment whose header is at the front of the buffer, 0 if there is none.
Header ==
  LET id == file[reader.at + 1][1]
  IN  IF \A i \in 1..HeaderSize : file[reader.at + i] = <<id, i>> THEN id ELSE 0

ChecksumMatches(id) ==
  \A i \in 1..(HeaderSize + fragments[id].length) : file[reader.at + i] = <<id, i>>

\* The end of the file: a record without its end is left out.
End == reader' = [reader EXCEPT !.state = "ended", !.at = reader.end, !.scratch = <<>>]

\* The buffer is dropped, and the record that was being put together.  A header
\* made of parts of two comes to this whatever length it has.
BadRecord ==
  reader' = [reader EXCEPT !.at = reader.end, !.corruption = TRUE,
                           !.scratch = <<>>, !.inFragmented = FALSE]

\* Mutant: what there is of a record without an end stays.
BeginAfter(scratch, id) == Append(scratch, id)

\* A first fragment takes the place of a record without an end.
Begin(scratch, id) == <<id>>

\* ReadRecord, by the type of the fragment.
Take(id) ==
  LET f       == fragments[id]
      after   == [reader EXCEPT !.at = @ + HeaderSize + f.length]
      partial == reader.inFragmented /\
                 (\E i \in DOMAIN reader.scratch : fragments[reader.scratch[i]].length > 0)
  IN  \/ /\ f.type = "full"
         /\ reader' = [after EXCEPT !.returned = Append(@, <<id>>), !.corruption = @ \/ partial,
                                    !.scratch = <<>>, !.inFragmented = FALSE]
      \/ /\ f.type = "first"
         /\ reader' = [after EXCEPT !.corruption = @ \/ partial,
                                    !.scratch = Begin(@, id), !.inFragmented = TRUE]
      \/ /\ f.type \in {"middle", "last"} /\ ~reader.inFragmented
         /\ reader' = [after EXCEPT !.corruption = TRUE]
      \/ /\ f.type = "middle" /\ reader.inFragmented
         /\ reader' = [after EXCEPT !.scratch = Append(@, id)]
      \/ /\ f.type = "last" /\ reader.inFragmented
         /\ reader' = [after EXCEPT !.returned = Append(@, Append(reader.scratch, id)),
                                    !.scratch = <<>>, !.inFragmented = FALSE]

\* The next block, what is left of the last one being a trailer.
ReadBlock ==
  LET end == IF reader.end + BlockSize < Len(file) THEN reader.end + BlockSize ELSE Len(file)
  IN  /\ Buffered < HeaderSize /\ ~reader.eof
      /\ reader' = [reader EXCEPT !.at = reader.end, !.end = end,
                                  !.eof = end < reader.end + BlockSize]

\* One turn of ReadPhysicalRecord's loop, and what ReadRecord makes of it.
ReadPhysicalRecord ==
  /\ reader.state = "reads"
  /\ \/ ReadBlock
     \/ Buffered < HeaderSize /\ reader.eof /\ End
     \/ /\ Buffered >= HeaderSize
        /\ \/ Header = 0 /\ BadRecord
           \/ /\ Header # 0
              /\ LET whole == HeaderSize + fragments[Header].length <= Buffered
                 IN  \/ ~whole /\ reader.eof /\ End
                     \/ ~whole /\ ~reader.eof /\ BadRecord
                     \/ whole /\ ~ChecksumMatches(Header) /\ BadRecord
                     \/ whole /\ ChecksumMatches(Header) /\ Take(Header)
  /\ UNCHANGED <<file, fragments, records, writer, durable, failures>>

LogNext ==
  \/ \E size \in Sizes : AddRecord(size)
  \/ \E fails \in BOOLEAN : EmitPhysicalRecord(fails)
  \/ Sync
  \/ Crash
  \/ ReadPhysicalRecord

LogSpec == LogInit /\ [][LogNext]_logVars

------------------------------------------------------------------------------
(***************************************************************************)
(* Properties.                                                             *)
(***************************************************************************)
RecordOf(returned) == fragments[returned[1]].record

\* What the reader returns are records that were added, whole and in their
\* order, even behind an append that failed halfway.
RecordsAreWhole ==
  \A i \in DOMAIN reader.returned :
    LET returned == reader.returned[i]
        first    == returned[1]
        last     == returned[Len(returned)]
    IN  /\ fragments[first].type \in {"full", "first"}
        /\ fragments[last].type \in {"full", "last"}
        /\ \A j \in DOMAIN returned : returned[j] = first + j - 1
        /\ \A j \in DOMAIN returned : fragments[returned[j]].record = fragments[first].record
        /\ i > 1 => RecordOf(reader.returned[i - 1]) < RecordOf(returned)

\* If no append failed, a crash loses nothing but a tail of the records that
\* were not synced, and is not taken for a corruption.
LogIsRead ==
  reader.state = "ended" /\ failures = 0 =>
    /\ ~reader.corruption
    /\ \A i \in DOMAIN reader.returned : RecordOf(reader.returned[i]) = i
    /\ durable.records <= Len(reader.returned)
==============================================================================
