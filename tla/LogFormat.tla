------------------------------ MODULE LogFormat ------------------------------
(***************************************************************************)
(* The log files of LevelDB (write-ahead logs and manifests): log::Writer  *)
(* cuts records into physical records that never leave a block, and        *)
(* log::Reader puts them together again from whatever is left of the file  *)
(* after a crash, a failed append or damage.                               *)
(*                                                                         *)
(* A byte is a cell that knows which physical record it was written for    *)
(* and its place in it, so the checksum holds exactly when the cells of a  *)
(* physical record stand together undamaged.  A header that is not intact  *)
(* may claim any length; whatever it is, the reader gives up the rest of   *)
(* its buffer.  Readers start at offset 0, as all of LevelDB's do.  A call  *)
(* that fails may have written all of its bytes, some or none; a byte that *)
(* the file has taken stays where it is.                                   *)
(***************************************************************************)
EXTENDS Integers, Sequences, FiniteSets

CONSTANTS
    BlockSize, HeaderSize,
    RecordSizes,    \* how long a record may be
    MaxRecords,     \* bound: records written
    MaxDamage       \* bound: cells damaged

ASSUME LogAssumption ==
    /\ HeaderSize \in Nat \ {0} /\ BlockSize \in Nat /\ BlockSize > HeaderSize
    /\ RecordSizes \subseteq Nat /\ {MaxRecords, MaxDamage} \subseteq Nat

VARIABLES
    cells,          \* the file
    phys,           \* the physical records: record, type, length, place in the file
    blockOffset,    \* block_offset_ of the writer
    left,           \* what AddRecord has still to write, -1 between calls
    torn,           \* an append has failed and left bytes out
    damaged,        \* the cells that were damaged
    reading,        \* the writer is gone, the reader is at work, it is done
    pos, bufferEnd, \* buffer_ is the cells after pos up to bufferEnd
    eof_,
    inFragment, scratch,    \* in_fragmented_record and the parts collected
    returned        \* the records read: sequences of physical records

writerVars == <<cells, phys, blockOffset, left, torn, damaged>>
readerVars == <<pos, bufferEnd, eof_, inFragment, scratch, returned>>
logVars == <<writerVars, reading, readerVars>>

Trailer == [p |-> 0, i |-> 0]
Lower(a, b) == IF a < b THEN a ELSE b

-----------------------------------------------------------------------------
(* Writer.                                                                 *)

BeginRecord(n) ==
    /\ reading = "no" /\ left = -1
    /\ \A p \in DOMAIN phys : phys[p].rec < MaxRecords
    /\ left' = n
    /\ phys' = Append(phys, [rec |-> 1 + IF phys = <<>> THEN 0 ELSE phys[Len(phys)].rec,
                             type |-> "none", len |-> 0, at |-> Len(cells)])
    /\ UNCHANGED <<cells, blockOffset, torn, damaged, reading, readerVars>>

\* Mutant: a header may begin a cell too late in a block.
FitsTight == BlockSize - blockOffset >= HeaderSize - 1

\* A tail too short for a header is filled, and the next block begun.
HeaderFits == BlockSize - blockOffset >= HeaderSize

\* One turn of AddRecord: the fragment that fits, of which the file gets the
\* first k cells, perhaps all although Append or Flush says that it failed;
\* nobody looks whether the filler before it got there.  The placeholder of
\* BeginRecord becomes the first fragment.
EmitPhysicalRecord(k, filled, ok) ==
    /\ reading = "no" /\ left >= 0
    /\ filled \/ (~HeaderFits /\ BlockSize # blockOffset)
    /\ LET offset == IF HeaderFits THEN blockOffset ELSE 0
           filler == [j \in 1..IF HeaderFits \/ ~filled THEN 0 ELSE BlockSize - blockOffset |-> Trailer]
           n == Lower(left, BlockSize - offset - HeaderSize)
           begin == phys[Len(phys)].type = "none"
           end == n = left
           p == IF begin THEN Len(phys) ELSE Len(phys) + 1
           record == [rec |-> phys[Len(phys)].rec,
                      type |-> IF begin THEN (IF end THEN "full" ELSE "first")
                               ELSE IF end THEN "last" ELSE "middle",
                      len |-> n, at |-> Len(cells) + Len(filler)]
       IN  /\ k \in 0..HeaderSize + n
           /\ k < HeaderSize + n \/ ~filled => ~torn
           /\ ok => k = HeaderSize + n
           /\ phys' = IF begin THEN [phys EXCEPT ![p] = record] ELSE Append(phys, record)
           /\ cells' = cells \o filler \o [i \in 1..k |-> [p |-> p, i |-> i]]
           /\ blockOffset' = offset + HeaderSize + n
           /\ torn' = (torn \/ k < HeaderSize + n \/ ~filled)
           /\ left' = IF end \/ ~ok THEN -1 ELSE left - n
    /\ UNCHANGED <<damaged, reading, readerVars>>

\* The process dies, and the file keeps its first n cells.
Cut(n) ==
    /\ reading = "no"
    /\ reading' = "yes"
    /\ cells' = SubSeq(cells, 1, n)
    /\ UNCHANGED <<phys, blockOffset, left, torn, damaged, readerVars>>

\* A cell goes bad.
Damage(i) ==
    /\ reading = "yes" /\ pos = 0 /\ bufferEnd = 0 /\ ~eof_
    /\ Cardinality(damaged) < MaxDamage
    /\ \A j \in damaged : j < i
    /\ damaged' = damaged \cup {i}
    /\ UNCHANGED <<cells, phys, blockOffset, left, torn, reading, readerVars>>

-----------------------------------------------------------------------------
(* Reader.                                                                 *)

\* The physical record that stands whole and undamaged at the buffer's
\* beginning, 0 for none: length and checksum of ReadPhysicalRecord.
Intact ==
    LET p == cells[pos + 1].p
        end == pos + HeaderSize + phys[p].len
    IN  IF /\ cells[pos + 1] # Trailer
           /\ end <= bufferEnd
           /\ \A i \in pos + 1..end : cells[i] = [p |-> p, i |-> i - pos] /\ i \notin damaged
        THEN p ELSE 0

\* The buffer holds no header: the next block, or the end.
Refill ==
    /\ reading = "yes" /\ bufferEnd - pos < HeaderSize
    /\ ~eof_
    /\ pos' = bufferEnd
    /\ bufferEnd' = Lower(bufferEnd + BlockSize, Len(cells))
    /\ eof_' = (bufferEnd' - bufferEnd < BlockSize)
    /\ UNCHANGED <<writerVars, reading, inFragment, scratch, returned>>

EndOfFile ==
    /\ reading = "yes" /\ bufferEnd - pos < HeaderSize
    /\ eof_
    /\ reading' = "done"
    /\ UNCHANGED <<writerVars, readerVars>>

\* The file cannot be read: for the reader, this is its end.
ReadFails ==
    /\ reading = "yes" /\ bufferEnd - pos < HeaderSize
    /\ ~eof_
    /\ reading' = "done"
    /\ pos' = bufferEnd /\ eof_' = TRUE
    /\ UNCHANGED <<writerVars, bufferEnd, inFragment, scratch, returned>>

\* Mutant: a bad record does not end the record that is being put together.
BadRecordKeepsScratch ==
    /\ reading = "yes" /\ bufferEnd - pos >= HeaderSize
    /\ Intact = 0
    /\ pos' = bufferEnd
    /\ UNCHANGED <<writerVars, reading, bufferEnd, eof_, inFragment, scratch, returned>>

\* kBadRecord (or kEof in the last block): the buffer is dropped.
BadRecord ==
    /\ reading = "yes" /\ bufferEnd - pos >= HeaderSize
    /\ Intact = 0
    /\ pos' = bufferEnd
    /\ inFragment' = FALSE /\ scratch' = <<>>
    /\ UNCHANGED <<writerVars, reading, bufferEnd, eof_, returned>>

\* ReadRecord's switch over the types.
GoodRecord ==
    /\ reading = "yes" /\ bufferEnd - pos >= HeaderSize
    /\ Intact # 0
    /\ LET p == Intact
           type == phys[p].type
       IN  /\ pos' = pos + HeaderSize + phys[p].len
           /\ CASE type = "full" ->
                    returned' = Append(returned, <<p>>) /\ inFragment' = FALSE /\ scratch' = <<>>
                [] type = "first" ->
                    inFragment' = TRUE /\ scratch' = <<p>> /\ UNCHANGED returned
                [] type = "middle" ->
                    /\ scratch' = IF inFragment THEN Append(scratch, p) ELSE scratch
                    /\ UNCHANGED <<inFragment, returned>>
                [] type = "last" ->
                    /\ returned' = IF inFragment THEN Append(returned, Append(scratch, p)) ELSE returned
                    /\ inFragment' = FALSE /\ scratch' = <<>>
    /\ UNCHANGED <<writerVars, reading, bufferEnd, eof_>>

-----------------------------------------------------------------------------
LogInit ==
    /\ cells = <<>> /\ phys = <<>> /\ blockOffset = 0 /\ left = -1
    /\ torn = FALSE /\ damaged = {} /\ reading = "no"
    /\ pos = 0 /\ bufferEnd = 0 /\ eof_ = FALSE
    /\ inFragment = FALSE /\ scratch = <<>> /\ returned = <<>>

LogNext ==
    \/ \E n \in RecordSizes : BeginRecord(n)
    \/ \E k \in 0..BlockSize, filled \in BOOLEAN, ok \in BOOLEAN : EmitPhysicalRecord(k, filled, ok)
    \/ \E n \in 0..Len(cells) : Cut(n)
    \/ \E i \in DOMAIN cells : Damage(i)
    \/ Refill \/ EndOfFile \/ ReadFails \/ BadRecord \/ GoodRecord

LogSpec == LogInit /\ [][LogNext]_logVars

-----------------------------------------------------------------------------
\* s is the physical records of record r, in order.
Lists(s, r) ==
    /\ {s[i] : i \in DOMAIN s} = {p \in DOMAIN phys : phys[p].rec = r}
    /\ \A i, j \in DOMAIN s : i < j => s[i] < s[j]
Complete(r) == \E p \in DOMAIN phys : phys[p].rec = r /\ phys[p].type \in {"full", "last"}
RecordNumbers == {phys[p].rec : p \in DOMAIN phys}

\* Whatever a crash, a failed append, damage and failing reads leave of a file, the reader
\* returns records that were written, whole, once and in order; it never
\* puts the parts of two records together (log_reader.cc:78-131, :143).
OnlyTrueRecords ==
    /\ \A j \in DOMAIN returned :
        \E r \in RecordNumbers : Complete(r) /\ Lists(returned[j], r)
    /\ \A j, k \in DOMAIN returned : j < k => returned[j][1] < returned[k][1]

\* Dropping the rest of the buffer (log_reader.cc:241) costs no more than the
\* block: a record is lost only if one of its own blocks is damaged or the
\* file ends before it does, provided that the file was read to its end and
\* no append has left bytes out (after one, the writer's blocks and the
\* reader's are no longer the same).
LossIsLocal ==
    reading = "done" /\ bufferEnd = Len(cells) /\ ~torn =>
        \A r \in RecordNumbers :
            Complete(r) /\ (\A p \in DOMAIN phys : phys[p].rec = r =>
                    /\ phys[p].at + HeaderSize + phys[p].len <= Len(cells)
                    /\ \A i \in damaged : (i - 1) \div BlockSize # phys[p].at \div BlockSize)
            => \E j \in DOMAIN returned : Lists(returned[j], r)
=============================================================================
