---------------------------- MODULE MCSnapshotFs ----------------------------
(* Instantiation of SnapshotFs for TLC: two indices.  Shard a0 has two     *)
(* files, a1 none, b0 one; b1's document is one the writer did not         *)
(* produce, chosen by the cfg.  The cfgs choose threads and dispatch.      *)
EXTENDS SnapshotFs

MCIndexOrder == <<"idx_a", "idx_b">>

MCNumShards == [n \in {"idx_a", "idx_b"} |-> 2]

(* Names as the decoder returns them (bytes) and as text. *)
SegName == <<115, 101, 103, 109, 101, 110, 116, 115, 95, 49>>   \* segments_1
CfsName == <<95, 48, 46, 99, 102, 115>>                         \* _0.cfs
SiName  == <<95, 48, 46, 115, 105>>                             \* _0.si
MCText == (SegName :> "segments_1") @@ (CfsName :> "_0.cfs") @@ (SiName :> "_0.si")

KeyChecksum  == <<99, 104, 101, 99, 107, 115, 117, 109>>           \* checksum
KeyWrittenBy == <<119, 114, 105, 116, 116, 101, 110, 95, 98, 121>>  \* written_by

(* A FileInfo as the snapshot writer records it: blob name, Lucene name,  *)
(* length, checksum, part_size when the blob is split, the Lucene version *)
(* and, for a file stored in the metadata itself, its bytes.              *)
FileDoc(blob, name, len, parts, hash) ==
  ObjV(<<<<KeyName, StrV(blob)>>, <<KeyPhysicalName, StrV(name)>>,
         <<KeyLength, IntV(len)>>, <<KeyChecksum, StrV(<<49, 122>>)>>>>
       \o parts
       \o <<<<KeyWrittenBy, StrV(<<56, 46, 49, 48>>)>>>>
       \o (IF hash = <<>> THEN <<>> ELSE <<<<KeyMetaHash, BinV(hash)>>>>))

Seg == FileDoc(<<118, 95, 95, 49>>, SegName, 3, <<>>, <<7, 8, 9>>)    \* v__1
Cfs == FileDoc(<<95, 95, 48>>, CfsName, 600, <<<<KeyPartSize, IntV(512)>>>>, <<>>)
Si  == FileDoc(<<118, 95, 95, 50>>, SiName, 0, <<>>, <<>>)            \* v__2

ShardDoc(files) == ObjV(<<<<KeyName, StrV(<<115, 49>>)>>, <<KeyFiles, ArrV(files)>>>>)

(* b1: a record without physical_name, or one with part_size 0. *)
NoPhysicalName == ObjV(<<<<KeyName, StrV(<<95, 95, 49>>)>>, <<KeyLength, IntV(4)>>>>)
ZeroPartSize == FileDoc(<<95, 95, 50>>, SiName, 4, <<<<KeyPartSize, IntV(0)>>>>, <<>>)

Docs(b1) ==
  (<<"idx_a", 0>> :> ShardDoc(<<Seg, Cfs>>)) @@ (<<"idx_a", 1>> :> ShardDoc(<<>>))
    @@ (<<"idx_b", 0>> :> ShardDoc(<<Si>>)) @@ (<<"idx_b", 1>> :> ShardDoc(<<b1>>))

MCDocsInvalid == Docs(NoPhysicalName)
MCDocsPanic == Docs(ZeroPartSize)

MCWritten ==
  (<<"idx_a", 0>> :> <<[physical_name |-> "segments_1", length |-> 3],
                       [physical_name |-> "_0.cfs", length |-> 600]>>)
    @@ (<<"idx_a", 1>> :> <<>>)
    @@ (<<"idx_b", 0>> :> <<[physical_name |-> "_0.si", length |-> 0]>>)
    @@ (<<"idx_b", 1>> :> <<>>)

MCLookupNames == {"idx_a", "0", "segments_1", "nope"}

(* For the refinement run: a name of every level; ENOENT still arises from *)
(* a name looked up at the wrong level.                                    *)
MCTreeLookupNames == {"idx_a", "0", "segments_1"}

(* The state without `reply`: no guard reads it and neither do the         *)
(* properties of the runs that use this view.                              *)
MCView == <<inodes, shard_file_inodes, loaded_shards, pc, req, pager>>

=============================================================================
