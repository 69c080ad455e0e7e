----------------------------- MODULE ShardFiles -----------------------------
(***************************************************************************)
(* parse_shard_files (src/metadata.rs): the decoded shard metadata (a     *)
(* SmileValue of SmileFormat) turned into ShardFileEntry records.         *)
(*                                                                         *)
(* Integers are u64/i64 of Width bits.  The record's length and part_size *)
(* are i64 values cast `as u64`, so a negative one wraps; a missing       *)
(* part_size is i64::MAX, which the part count compares against u64::MAX. *)
(* A part_size of 0 divides by zero: Rust panics, and the outcome is      *)
(* FilesPanic.  Keys and strings are byte sequences, as in SmileFormat.   *)
(***************************************************************************)
EXTENDS SmileFormat

CONSTANT Width    \* bits of u64 (scaled down)

U64Max == 2^Width - 1
I64Max == 2^(Width - 1) - 1

(* `n as u64` for an i64 n. *)
AsU64(n) == n % 2^Width

(* The keys parse_shard_files reads, as bytes. *)
KeyFiles        == <<102, 105, 108, 101, 115>>                      \* files
KeyName         == <<110, 97, 109, 101>>                            \* name
KeyPhysicalName == <<112, 104, 121, 115, 105, 99, 97, 108, 95, 110, 97, 109, 101>>
KeyLength       == <<108, 101, 110, 103, 116, 104>>                 \* length
KeyPartSize     == <<112, 97, 114, 116, 95, 115, 105, 122, 101>>    \* part_size
KeyMetaHash     == <<109, 101, 116, 97, 95, 104, 97, 115, 104>>     \* meta_hash
VirtualPrefix   == <<118, 95, 95>>                                  \* v__

(* SmileValue::get: the value of the first pair with the key, or none. *)
Get(v, key) ==
  IF v.t # "obj" THEN NoValue
  ELSE LET I == {i \in DOMAIN v.pairs : v.pairs[i][1] = key}
       IN  IF I = {} THEN NoValue ELSE v.pairs[Min(I)][2]

(* Mutants of the part count: an empty file given zero parts, and the      *)
(* count rounded down.                                                      *)
ShardFileEntryNoFloor(len, part_size, virtual) ==
  LET n == IF part_size = U64Max THEN 1
           ELSE IF len % part_size > 0 THEN len \div part_size + 1
           ELSE len \div part_size
  IN  [length |-> len, part_size |-> part_size, num_parts |-> n,
       is_virtual |-> virtual]

ShardFileEntryRoundDown(len, part_size, virtual) ==
  LET n == IF part_size = U64Max THEN 1
           ELSE IF len \div part_size = 0 THEN 1 ELSE len \div part_size
  IN  [length |-> len, part_size |-> part_size, num_parts |-> n,
       is_virtual |-> virtual]

(* The entry's sizes and part count, for a part_size other than 0. *)
ShardFileEntry(len, part_size, virtual) ==
  LET part_bytes == IF part_size # U64Max THEN part_size ELSE U64Max
      n == IF part_bytes = U64Max THEN 1
           ELSE LET q == len \div part_bytes
                    m == IF len % part_bytes > 0 THEN q + 1 ELSE q
                IN  IF m = 0 THEN 1 ELSE m
  IN  [length |-> len, part_size |-> part_size, num_parts |-> n,
       is_virtual |-> virtual]

FilesOk(entries) == [ok |-> TRUE, panic |-> FALSE, files |-> entries]
FilesErr == [ok |-> FALSE, panic |-> FALSE, files |-> <<>>]
FilesPanic == [ok |-> FALSE, panic |-> TRUE, files |-> <<>>]

(* One iteration of the loop: InvalidData for a missing or mistyped name, *)
(* physical_name or length; a panic for a zero part size; else the entry. *)
ParseFile(f) ==
  LET name == Get(f, KeyName)
      pn == Get(f, KeyPhysicalName)
      len == Get(f, KeyLength)
      ps == Get(f, KeyPartSize)
      mh == Get(f, KeyMetaHash)
      part_size == IF ps.t = "int" THEN AsU64(ps.n) ELSE I64Max
  IN  CASE name.t # "str" \/ pn.t # "str" \/ len.t # "int" -> FilesErr
        [] part_size = 0 -> FilesPanic
        [] OTHER ->
             FilesOk(<<ShardFileEntry(AsU64(len.n), part_size,
                                      Len(name.s) >= 3 /\ SubSeq(name.s, 1, 3) = VirtualPrefix)
                       @@ [blob_name |-> name.s, physical_name |-> pn.s,
                           meta_hash |-> IF mh.t = "bin" THEN mh.s ELSE <<>>]>>)

(* parse_shard_files: the first file that fails decides the outcome. *)
ParseShardFiles(root) ==
  LET files == Get(root, KeyFiles)
      outs == [i \in 1..Len(files.items) |-> ParseFile(files.items[i])]
      bad == {i \in DOMAIN outs : ~outs[i].ok}
  IN  IF files.t # "arr" THEN FilesErr
      ELSE IF bad = {} THEN FilesOk([i \in DOMAIN outs |-> outs[i].files[1]])
      ELSE outs[Min(bad)]

=============================================================================
