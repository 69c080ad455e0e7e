------------------------------ MODULE BlobRead ------------------------------
(***************************************************************************)
(* The read path of snapshot-fuse: a Lucene file record as                *)
(* parse_shard_files derives it (ShardFileEntry of ShardFiles), its part  *)
(* names (metadata.rs part_name), and how a read(offset, size) request on *)
(* it is served from the blob parts (fs.rs read and read_file_data), one  *)
(* loop iteration per step.                                                *)
(*                                                                         *)
(* A byte is named by its position in the Lucene file: the file's content *)
(* is <<0, 1, ..., length-1>>, and the repository holds it the way the    *)
(* snapshot writer lays it out: part p of a partitioned file is the blob  *)
(* "<name>.part<p>" with positions p*part_size onwards, a single-part     *)
(* file is the blob "<name>", and a virtual file's content is its         *)
(* meta_hash.  The kernel reads the file from offset 0 in requests of     *)
(* some size, and takes a reply shorter than asked for as end of file.    *)
(*                                                                         *)
(* Integers are u64/i64 of Width bits so that the unpartitioned sentinel  *)
(* (i64::MAX as u64) keeps its relation to u64::MAX.                       *)
(***************************************************************************)
EXTENDS ShardFiles, TLC

CONSTANTS
  MaxLength,    \* largest file length considered
  PartSizes,    \* part_size values a metadata record may carry
  ChunkSizes,   \* sizes of the kernel's read requests
  MaxIoErrors   \* open/seek/read errors the environment may inject

Absent == -1     \* part_size missing from the metadata record

ASSUME /\ Width \in Nat /\ Width >= 2
       /\ MaxLength \in 0..I64Max
       /\ PartSizes \subseteq 1..I64Max
       /\ ChunkSizes \subseteq Nat \ {0}
       /\ MaxIoErrors \in Nat

(* Mutant: a single-part file also named "<name>.part0". *)
PartNameAlwaysPart(e, p) == <<"part", p>>

(* ShardFileEntry::part_name *)
PartName(e, p) == IF e.num_parts > 1 THEN <<"part", p>> ELSE <<"whole">>

(* The snapshot layout: the blobs of a file of length len with part size  *)
(* ps (ps >= len when unpartitioned), by name.                            *)
Blobs(len, ps, partitioned) ==
  IF ~partitioned THEN <<"whole">> :> [i \in 1..len |-> i - 1]
  ELSE LET np == IF len = 0 THEN 1 ELSE (len + ps - 1) \div ps
           last(p) == IF (p + 1) * ps < len THEN (p + 1) * ps ELSE len
       IN  IF np = 1 THEN <<"whole">> :> [i \in 1..len |-> i - 1]
           ELSE [n \in {<<"part", p>> : p \in 0..(np - 1)} |->
                   [i \in 1..(last(n[2]) - n[2] * ps) |-> n[2] * ps + i - 1]]

VARIABLES
  entry,     \* the ShardFileEntry being read
  disk,      \* blob name -> its bytes
  loop,      \* read_file_data's loop state, or NoLoop
  reader,    \* the kernel's sequential read of the file
  ioErrors   \* I/O errors injected so far

vars == <<entry, disk, loop, reader, ioErrors>>

Content == [i \in 1..entry.length |-> i - 1]
NoLoop == [active |-> FALSE, file_offset |-> 0, remaining |-> 0, result |-> <<>>]

Init ==
  /\ \E len \in 0..MaxLength, ps \in PartSizes \cup {Absent}, v \in BOOLEAN :
       /\ entry = ShardFileEntry(len, IF ps = Absent THEN I64Max ELSE ps, v)
       /\ disk = Blobs(len, IF ps = Absent THEN len ELSE ps, ps # Absent)
  /\ loop = NoLoop
  /\ reader = [status |-> "reading", off |-> 0, size |-> 0, got |-> <<>>]
  /\ ioErrors = 0

(* The kernel receives a reply: a short one is end of file. *)
Deliver(data, size) ==
  reader' = [reader EXCEPT
               !.got = @ \o data,
               !.off = @ + size,
               !.status = IF Len(data) < size THEN "done" ELSE "reading",
               !.size = 0]

(***************************************************************************)
(* read(ino, offset, size) on a LuceneFile: past the end the reply is      *)
(* empty; a virtual file answers from meta_hash; otherwise the part loop   *)
(* of read_file_data starts.                                               *)
(***************************************************************************)
Read(size) ==
  LET offset == reader.off IN
  /\ reader.status = "reading"
  /\ ~loop.active
  /\ reader.size = 0
  /\ IF offset >= entry.length
     THEN Deliver(<<>>, size) /\ UNCHANGED loop
     ELSE IF entry.is_virtual
     THEN LET meta_hash == Content
              end == IF offset + size < Len(meta_hash) THEN offset + size
                     ELSE Len(meta_hash)
          IN  Deliver(SubSeq(meta_hash, offset + 1, end), size) /\ UNCHANGED loop
     ELSE /\ loop' = [active |-> TRUE, file_offset |-> offset,
                      remaining |-> size, result |-> <<>>]
          /\ reader' = [reader EXCEPT !.size = size]
  /\ UNCHANGED <<entry, disk, ioErrors>>

(***************************************************************************)
(* One iteration of the while loop of read_file_data: locate the part and *)
(* the offset in it, clamp by what is left of the part, open, seek and    *)
(* read_exact.  An open, seek or read error (or a blob too short for      *)
(* read_exact) ends the loop with what was read so far.                    *)
(***************************************************************************)
EffectivePartSize == IF entry.part_size = U64Max THEN entry.length
                     ELSE entry.part_size

(* Mutants of the loop body: the buffer kept when read_exact fails, and   *)
(* the last part taken one byte shorter than it is.                        *)
ReadPartKeepsFailedBuffer ==
  LET ps == EffectivePartSize
      part_idx == loop.file_offset \div ps
      offset_in_part == loop.file_offset % ps
      blob == PartName(entry, part_idx)
      this_part_len == IF part_idx = entry.num_parts - 1
                       THEN entry.length - part_idx * ps ELSE ps
      available == IF this_part_len > offset_in_part
                   THEN this_part_len - offset_in_part ELSE 0
      to_read == IF loop.remaining < available THEN loop.remaining ELSE available
      readable == /\ blob \in DOMAIN disk
                  /\ offset_in_part + to_read <= Len(disk[blob])
  IN  /\ loop.active
      /\ loop.remaining > 0 /\ loop.file_offset < entry.length
      /\ \/ /\ readable
            /\ loop' = [loop EXCEPT
                          !.result = @ \o SubSeq(disk[blob], offset_in_part + 1,
                                                  offset_in_part + to_read),
                          !.file_offset = @ + to_read,
                          !.remaining = @ - to_read]
            /\ UNCHANGED ioErrors
         \/ /\ ~readable \/ ioErrors < MaxIoErrors
            /\ ioErrors' = IF readable THEN ioErrors + 1 ELSE ioErrors
            /\ loop' = [loop EXCEPT !.result = @ \o [i \in 1..to_read |-> 0],
                                    !.remaining = 0]
      /\ UNCHANGED <<entry, disk, reader>>

ReadPartShortLastPart ==
  LET ps == EffectivePartSize
      part_idx == loop.file_offset \div ps
      offset_in_part == loop.file_offset % ps
      blob == PartName(entry, part_idx)
      this_part_len == IF part_idx = entry.num_parts - 1
                       THEN entry.length - part_idx * ps - 1 ELSE ps
      available == IF this_part_len > offset_in_part
                   THEN this_part_len - offset_in_part ELSE 0
      to_read == IF loop.remaining < available THEN loop.remaining ELSE available
  IN  /\ loop.active
      /\ loop.remaining > 0 /\ loop.file_offset < entry.length
      /\ loop' = [loop EXCEPT
                    !.result = @ \o SubSeq(disk[blob], offset_in_part + 1,
                                            offset_in_part + to_read),
                    !.file_offset = @ + to_read,
                    !.remaining = @ - to_read]
      /\ UNCHANGED <<entry, disk, reader, ioErrors>>

ReadPart ==
  LET ps == EffectivePartSize
      part_idx == loop.file_offset \div ps
      offset_in_part == loop.file_offset % ps
      blob == PartName(entry, part_idx)
      this_part_len == IF part_idx = entry.num_parts - 1
                       THEN entry.length - part_idx * ps ELSE ps
      available == IF this_part_len > offset_in_part
                   THEN this_part_len - offset_in_part ELSE 0
      to_read == IF loop.remaining < available THEN loop.remaining ELSE available
      readable == /\ blob \in DOMAIN disk
                  /\ offset_in_part + to_read <= Len(disk[blob])
  IN
  /\ loop.active
  /\ loop.remaining > 0 /\ loop.file_offset < entry.length
  /\ \/ /\ readable
        /\ loop' = [loop EXCEPT
                      !.result = @ \o SubSeq(disk[blob], offset_in_part + 1,
                                              offset_in_part + to_read),
                      !.file_offset = @ + to_read,
                      !.remaining = @ - to_read]
        /\ UNCHANGED ioErrors
     \/ /\ ~readable \/ ioErrors < MaxIoErrors
        /\ ioErrors' = IF readable THEN ioErrors + 1 ELSE ioErrors
        /\ loop' = [loop EXCEPT !.remaining = 0]   \* break
  /\ UNCHANGED <<entry, disk, reader>>

(* The loop condition fails: the accumulated result is the reply. *)
ReplyData ==
  /\ loop.active
  /\ ~(loop.remaining > 0 /\ loop.file_offset < entry.length)
  /\ Deliver(loop.result, reader.size)
  /\ loop' = NoLoop
  /\ UNCHANGED <<entry, disk, ioErrors>>

Next ==
  \/ \E size \in ChunkSizes : Read(size)
  \/ ReadPart
  \/ ReplyData

(* The handler runs each request to its reply; the reading process keeps *)
(* reading until it sees end of file.                                     *)
Spec ==
  Init /\ [][Next]_vars
       /\ WF_vars(ReadPart) /\ WF_vars(ReplyData)
       /\ WF_vars(\E size \in ChunkSizes : Read(size))

-----------------------------------------------------------------------------
TypeOK ==
  /\ entry.num_parts \in 1..(MaxLength + 1)
  /\ loop.file_offset \in 0..(MaxLength + 2 * I64Max)
  /\ reader.status \in {"reading", "done"}
  /\ ioErrors \in 0..MaxIoErrors

(* The part count covers the file exactly: at least one part, and for a    *)
(* partitioned record (num_parts - 1) * part_size < length <= num_parts *  *)
(* part_size (spec 8), which the part loop relies on to find the last part. *)
NumPartsCoverLength ==
  /\ entry.num_parts >= 1
  /\ entry.length > 0 =>
       /\ (entry.num_parts - 1) * EffectivePartSize < entry.length
       /\ entry.length <= entry.num_parts * EffectivePartSize

(* What read_file_data has accumulated is always the file's bytes from the *)
(* request offset on: no byte of a wrong part or offset, and nothing from  *)
(* a failed read, ever reaches the reply.                                   *)
ResultIsFileSlice ==
  loop.active =>
    loop.result = SubSeq(Content, reader.off + 1, reader.off + Len(loop.result))

(* When no I/O error occurred, the kernel's sequential read ends with the  *)
(* whole file: the replies, cut at the parts' boundaries, concatenate to   *)
(* the file's content (spec 8, the chunked-read property).                 *)
WholeFileWithoutErrors ==
  (reader.status = "done" /\ ioErrors = 0) => reader.got = Content

(* The same, whatever errors occurred: a short reply caused by an I/O      *)
(* error is indistinguishable from end of file to the kernel.              *)
WholeFileRead ==
  reader.status = "done" => reader.got = Content

(* Every request's part loop ends, and the reader reaches end of file. *)
ReaderFinishes == <>(reader.status = "done")

=============================================================================
