# TLA+ models of snapshot-fuse

These models cover `src/fuse-lucene` (snapshot-fuse). It is a read-only FUSE filesystem. It shows the Lucene files of an Elasticsearch/OpenSearch snapshot repository as `/<index>/<shard>/<file>`.

## The system and how its parts interact

| part | source | what it does |
|---|---|---|
| CLI and mount | `main.rs` | Parses the arguments, resolves the repository and calls `fuser::mount2`. |
| repository resolver | `repo.rs` | Finds the highest `index-N` file, looks up the snapshot, and gives each index an id and a shard count. The shard count comes from `shard_generations`, or else from `count_shard_dirs`. |
| metadata container | `metadata.rs` 1-86 | Strips a `DFL\0` + DEFLATE envelope or a Lucene codec header/footer from `snap-<uuid>.dat`. |
| SMILE decoder | `smile.rs` | Decodes the binary JSON payload, including the shared key and value intern tables. |
| shard file records | `metadata.rs` 88-178, `smile.rs` 18-53 | `parse_shard_files` turns the decoded records into `ShardFileEntry` (length, part size, part count, virtual flag). `part_name` names a part's blob. |
| virtual filesystem | `fs.rs` | Holds the flat inode table under RwLocks. Shards are loaded lazily by `ensure_shard_loaded`. Handles lookup, getattr, readdir and read. `read_file_data` serves bytes from the blob parts. |

The kernel calls the handlers. Lookup and readdir of a shard directory call `ensure_shard_loaded`. That function reads the shard's metadata blob, runs the container stripper, the SMILE decoder and `parse_shard_files`, then appends one inode per file and sets the shard's marker. Read goes through the inode table to the file record, and then to `read_file_data` over the part blobs.

## Modules

### SnapshotFs and MCSnapshotFs: the virtual filesystem (`fs.rs`)

The state mirrors the struct:

- `inodes`: the `Vec<InodeEntry>`; inode number = position.
- `shard_file_inodes`.
- `loaded_shards`: the marker set.

There is also per-thread state:

- `pc` and `req`: the handler step a thread is at.
- `pager`: the kernel's paging loop over readdir replies.
- `reply`: the last reply of lookup/getattr/read.

Each critical section of the code is one action. `ensure_shard_loaded` is split where it drops one lock and takes the next:

- `EnsureShardLoaded`: the marker check. `LoadShardFiles` is the lock-free part that follows. Reading the blob or decoding it may fail whatever its content; this is a nondeterministic early return. Otherwise the shard's document `ShardDocs[k]` goes through `ParseShardFiles` (module ShardFiles). `InvalidData` is an early return as well. A record with part size 0 divides by zero, and the panic ends the process: every thread's `pc` becomes `"dead"`.
- `AppendFileInodes`: the append under the inodes write lock.
- `MarkLoaded`: the marker insert.
- `Disconnected`: after a panic, the kernel fails each request with ENOTCONN. A listing in progress ends with an error.

The handlers map to actions as follows:

- `Lookup` and then `LookupScan`: `find_child_inode` for the root, index and shard cases, plus the ENOENT paths.
- `Getattr`.
- `Read`: which reply is given. The bytes are in BlobRead.
- `OpenDir`, `Readdir` and `ReaddirScan`: `readdir`, with its `skip(offset)`, the per-entry offsets `i+1` and the reply-buffer cut-off `ReplyCap`. The kernel resumes at the last offset it received and stops at an empty reply.

The constant `Dispatch` models how requests reach the filesystem:

- `"serial"`: only one request is in progress at a time. This is what fuser's session loop does, since the handlers take `&mut self`.
- `"concurrent"`: requests may be in progress on several threads at once. This is the model of spec section 5.

Data is abstracted: a shard's metadata is its decoded SMILE document (`ShardDocs`), written the way the snapshot writer writes a FileInfo. The inode table holds `[physical_name, length]` of each parsed entry, with the name converted from bytes to text by `Text`. `Written` is what the writer recorded; the properties compare with it.

### FsTree and SnapshotFsTree: the promised tree and its refinement

`FsTree` is the filesystem spec sections 4.4 and 6 describe, with no inode table. `node` gives each visible path (`<<>>`, `<<index>>`, `<<index, shard>>`, `<<index, shard, file>>`) its identifier:

- `Init` numbers the root 1 and a shard's siblings by ascending id.
- `LoadShard` adds all of a shard's files at once, under the next identifiers in record order, and only once.
- `Lookup`, `Getattr` and `Read` reply from the tree as it is at that moment. Each reply carries the request it answers.
- The error for a lookup whose parent is a file is the constant `FileParentErr`.

`SnapshotFsTree` maps SnapshotFs onto it with `INSTANCE FsTree WITH`:

- `node` is each inode entry's path mapped to its first inode number;
- `loaded` is `loaded_shards` plus the shard of a thread between its append and its marker insert.

`TreeSpec` (the abstract `Spec`) is checked as a PROPERTY of SnapshotFs's `Spec`. For this, SnapshotFs's replies record their request (`parent` and `name`, `ino`, `off`). Without them, a reply to one request could pass for the reply to another.

### BlobRead: the read path (`fs.rs` `read`, `read_file_data`; `metadata.rs` `parse_shard_files`, `part_name`)

`Init` picks any file length up to `MaxLength`, a part size from `PartSizes` or none, and the virtual flag. The file record is derived by the code's own arithmetic (`ShardFileEntry` of ShardFiles). The repository holds the blobs the snapshot writer produces (`Blobs`): `<name>.part<p>` for a partitioned file, and `<name>` otherwise. A byte is named by its position in the file, so every misplaced byte is visible.

- `Read` is one kernel read request, for a size from `ChunkSizes`.
- `ReadPart` is one iteration of the part loop. An open, seek or read error (at most `MaxIoErrors` of them) breaks the loop.
- `ReplyData` sends the accumulated result.
- The kernel reads sequentially from offset 0 and takes a short reply as end of file.

Integers are u64/i64 scaled to `Width` bits. This keeps the code's comparison of the missing-part-size sentinel `i64::MAX as u64` against `u64::MAX`.

### SmileFormat, SmileDecoder and MCSmileDecoder: the SMILE decoder (`smile.rs`)

`SmileFormat` defines the value tree of `SmileValue` and a reference encoder written from the SMILE format specification: the writer whose output the decoder must read back. It is not code of this repository. It interns keys and short string values the way the format says, writes a repeated one as a back reference, and clears a table that reaches 1024 entries, a limit the inputs stay below. With the raw-binary flag off it writes a binary as 0xE8 and the 7-bit escaping spec section 4.1 describes: per run of up to seven bytes, a byte of their top bits, then their low seven bits. A Java float or double is written as 0x28 or 0x29, its bits in 7-bit groups. A BigInteger is written as 0x26, its byte count and its bytes. The encoder is only evaluated to build the inputs.

`SmileFormat` also gives the reference reading of a float: `FloatValue` is the real number an IEEE-754 bit pattern stands for (sign and the powers of two it sums to), or infinity, or NaN. `Valued` replaces each float of a value by that number and each BigInteger by 0, which spec 4.1 allows. Bit patterns wider than TLC's integers are sets of bit positions.

`SmileDecoder` is `SmileParser` as a state machine over real byte values:

- `data`, `pos`, `shared_keys`, `shared_values` and the two header flags are the parser's fields.
- `stack` stands for the recursion `read_value` -> `decode_value_token` -> `read_value`. It holds the open arrays and objects, innermost last, with an object's pending key.
- `status` says what is read next: the header, a value, the next array item or its end, or a key. `"done"` and `"error"` are `parse`'s `Ok` and `Err`.
- Each action is one group of match arms of `read_key` or `decode_value_token` (`KeySharedRef`, `ValueShortString`, ...), `ReadHeader`, or one turn of the array loop (`ArrayItem`). `Fail` is an error propagated by `?`. `Produce` is the return of a finished value to its caller.
- `ValueFloat` reassembles the bytes as the code does: byte k shifted by 7 × (n − k), OR-ed into a u32 or u64 whose high bits fall off (`Assemble`). The f32 case is then widened by `F32ToF64`, which is `as f64`: it rebiases the exponent, normalises a subnormal, keeps infinity, and quiets a NaN. `ValueBigInteger` skips the bytes and produces 0.
- `Decode7BitBinary` is `decode_7bit_binary`, with its bit OR and the early `break` on a last group of one byte.
- `read_unsigned_vint` keeps its u64 accumulator, scaled to `VIntWidth` bits, so its overflow behaviour is kept.

Each input carries the value it was encoded from (or `NoValue`) and whether it is a writer's unaltered output. `MCSmileDecoder` builds the inputs:

- five documents, each encoded under all four combinations of the two sharing flags:
  - one shaped like shard metadata;
  - 66 distinct keys written twice, which reaches long key references at indices 64 and 65;
  - 33 distinct strings written twice, which reaches long value references at indices 31 and 32;
  - floats at the edges of widening (1.5, −0, the smallest subnormal, a two-bit subnormal, −infinity, a signalling NaN), doubles with the top bit set and subnormal, and BigIntegers of three and of zero bytes;
  - one with every other token: empty and long keys and strings, Unicode, literals, a multi-byte VInt, and empty containers.
- the shard document and one of binaries of 0, 1, 7 and 8 bytes, also written with the raw-binary flag off (7-bit escaped);
- every truncation of four of the documents;
- every document with its header flags byte replaced;
- a few malformed payloads.

`DecodedIsExpected` compares the result by value (`Valued(result) = expect`). A float therefore has to decode to the number the writer wrote, and the widening is checked against the IEEE reading rather than against itself. The parser never reads the raw-binary flag; it decodes a binary by its token.

The decoder never clears its intern tables, while the format clears a table when it reaches 1024 entries. No run checks this. The metadata this parser reads has about fifteen distinct keys, and Elasticsearch writes it with shared string values off, so the limit is never reached. The inputs reach long references (index 64 and up) but stay below the limit.

### MetadataContainer and MCMetadataContainer: the container (`metadata.rs` 1-86)

`extract_smile_data` and its helpers are operators over byte sequences:

- `FindDflHeader` is the first `DFL\0` window.
- `ReadLuceneVInt` keeps the u32 accumulator, which holds only the low 4 bits of a fifth byte.
- `SkipCodecHeader` is the header arithmetic.
- `ExtractSmileData` chooses the DEFLATE path or the codec path and strips the footer at the code's `>=` boundary.

`Extract` is one call of `load_shard_metadata`'s first step on one blob.

DEFLATE (flate2) is abstracted. A final stored block decodes exactly. A cut-short block or a stream that is not a stored block gives an error or some bytes, chosen nondeterministically.

`MCMetadataContainer` frames payloads the way the snapshot writer does: codec header, then optionally `DFL\0` and a stored-block stream, then the 16-byte footer. The inputs are:

- codec names of 8 and 128 bytes, which give one- and two-byte VInt lengths;
- payloads that are empty, an empty SMILE object, or an object with a raw binary hash;
- all of them compressed and uncompressed;
- every truncation of two frames;
- every frame with a damaged magic.

`LuceneHeader` is Lucene's own reader of the header, the reference for `CodecHeaderAsLucene`.

### RepoResolver, MCRepoResolver and MCRepoWriter: the repository resolver (`repo.rs`)

A repository is a record:

- `root`: the root's entries, each an `index-N` file whose suffix parsed to N (or to `NaN`), or another name;
- `files`: each `index-N`'s content, as the `RepoMetadata` it parses to, or `Corrupt`;
- `dirs`: each index directory's entries, a name parsed as u32 (or `NaN`) and whether it is a directory;
- `truth`: what `load_repo` should return, which only the property reads.

`ScanEntry` is one turn of `find_index_file`'s loop. It takes any entry not yet returned, because `read_dir` order is not controlled. `Resolve` ends the loop. It returns `NotFound` without an `index-N`. Otherwise it does the rest of `load_repo`:

- `InvalidData` for a file serde cannot parse;
- `FindSnapshot`, the first entry with the name;
- `Participating`, the indices from `index_metadata_lookup` or, without one, from each index's `snapshots` list;
- `NumShards`, from `shard_generations` or `CountShardDirs`.

JSON text is not modelled.

`MCRepoResolver` builds repositories the way the snapshot writer lays them out. There are three histories of one, two and three snapshots, and `nightly-2` is the snapshot asked for. Each is laid out in three formats:

- legacy, with no shard generations;
- with `shard_generations`;
- with `index_metadata_lookup` as well.

Each keeps the newest `index-N` and any subset of the older ones. An index directory holds one numeric directory per shard that stored data, plus a `meta-<uuid>.dat` file. There is also a repository with no `index-N` (only an unparsable suffix) and one whose newest `index-N` is corrupt.

`Resolve` also covers an `index-N` that is gone when `read_to_string` opens it (`NotFound`). That happens only in `MCRepoWriter`. Its writer is Elasticsearch finalizing a snapshot, the environment rather than code of this repository: `Write` adds `index-(N+1)`, listing the snapshots so far and `nightly-3`. `DeleteOld` then removes `index-N`, as `BlobStoreRepository` deletes the generations from the expected one up. Both steps can come at any point of the scan. POSIX leaves open whether `read_dir` returns an entry created or removed after it was opened, so each step may or may not change what the scan still returns.

### ShardFiles: the shard file records (`metadata.rs` `parse_shard_files`)

ShardFiles extends SmileFormat. It has no state: `ParseShardFiles(root)` is `parse_shard_files` over a decoded value, and returns `FilesOk(entries)`, `FilesErr` (`InvalidData`) or `FilesPanic`.

- `Get` is `SmileValue::get`: the value of the first pair with the key.
- `ParseFile` is one iteration of the loop. A missing or mistyped `name`, `physical_name` or `length` gives `InvalidData`. A missing or non-integer `part_size` is `i64::MAX`. A `meta_hash` that is not binary is empty.
- `length` and `part_size` are cast from i64 with `AsU64`, which is `% 2^Width`.
- `ShardFileEntry` is the part count of lines 151-164. A part size of 0 reaches `length / part_bytes`, and the result is `FilesPanic`.
- The first record that fails decides the result.


| run | cfg | expect | what it shows |
|---|---|---|---|
| snapshotfs_serial | MCSnapshotFs.cfg | pass | See below. |
| snapshotfs_concurrent | MCSnapshotFsConcurrent.cfg | violation | See below. |
| snapshotfs_tree | MCSnapshotFsTree.cfg | pass | See below. |
| blobread | MCBlobRead.cfg | pass | See below. |
| blobread_ioerror | MCBlobReadIoError.cfg | violation | See below. |
| smiledecoder | MCSmileDecoder.cfg | pass | See below. |
| metadatacontainer | MCMetadataContainer.cfg | pass | See below. |
| metadatacontainer_marker | MCMetadataContainerMarker.cfg | violation | See below. |
| reporesolver | MCRepoResolver.cfg | pass | See below. |
| reporesolver_partial | MCRepoResolverPartial.cfg | violation | See below. |
| snapshotfs_tree_panic | MCSnapshotFsTreePanic.cfg | violation | See below. |
| repowriter | MCRepoWriter.cfg | violation | See below. |

**snapshotfs_serial** (pass) checks that, under serial dispatch, shard loads (with failures and retries) never duplicate or lose file inodes (`LoadedShardListsItsFiles`). It also checks two things about paged listings:

- every listing that ends has delivered each entry once and in order (`PagedListingComplete`);
- every listing ends (`ListingTerminates`).

**snapshotfs_concurrent** (violation) finds that with two concurrent handler threads, two traversals of an unloaded shard both pass the marker check. The shard's files are then appended twice.

**snapshotfs_tree** (pass) shows that under serial dispatch SnapshotFs implements FsTree (`TreeSpec`). No inode number ever changes meaning. A shard's files appear once, together and in record order, across failed and retried loads. Every lookup, getattr and read reply is the one the tree gives. Here `FileParentErr = "ENOENT"`, which is what the code answers. Shard b1's document has a record without `physical_name`, so every load of b1 fails with `InvalidData` and its directory stays empty, as the tree allows.

**snapshotfs_tree_panic** (violation) gives b1 a record with `part_size` 0 instead. `parse_shard_files` divides by zero, and the panic unwinds out of `fuser::mount2` and `main`. The next request, on any index, fails with ENOTCONN where the tree answers it. Spec section 4.4 says a metadata error leaves the shard unloaded and empty, and the rest of the filesystem serving.

**blobread** (pass) checks the following:

- the part count covers the length (`NumPartsCoverLength`);
- the part loop only ever gathers the file's bytes from the request offset on (`ResultIsFileSlice`);
- a sequential read with no I/O error rebuilds the whole file (`WholeFileWithoutErrors`);
- every read terminates (`ReaderFinishes`).

**blobread_ioerror** (violation) finds that one transient I/O error at the start of a request gives an empty reply. The kernel takes this as end of file, so the file is silently truncated. Spec section 8 calls this policy outside the core's contract, and section 4 expects callers to retry. An application reading the file has no way to tell.

**smiledecoder** (pass) checks these properties:

- every payload the parser returns `Ok` for decodes to the value it was written from (`DecodedIsExpected`). This means the intern tables stay aligned with the writer's back references. It also means a truncated payload, or one whose flags disagree with its body, never reads as some other value.
- every unaltered payload is accepted (`AcceptsWellFormed`, spec section 8);
- every parse ends (`ParseTerminates`).

**metadatacontainer** (pass) checks two properties:

- every unaltered blob yields exactly its framed payload (`ExtractsFramedPayload`);
- every blob accepted on the codec path has the header Lucene's reader sees, ending at the same byte (`CodecHeaderAsLucene`).

**metadatacontainer_marker** (violation) finds that an uncompressed blob with `DFL\0` in its payload (a raw binary hash) or in its CRC32 is inflated from that point, and the payload is lost. The spec (4.2) also says "anywhere".

**reporesolver** (pass) checks `ResolvesSnapshot` in every `read_dir` order, whatever older generations are kept and in all three formats. `load_repo` resolves the snapshot to its uuid and exactly its indices, with their ids and shard counts. It returns `NotFound` or `InvalidData` exactly where it should.

**reporesolver_partial** (violation) uses a legacy repository in which `nightly-2` failed on shard 1 of its only copy of `i2`, so `indices/id2/` has directories 0 and 2. `count_shard_dirs` gives 2 rather than 3. Shard 2, which has data, is not mounted, and shard 1 is shown as an empty directory. Spec section 4.3 says to count the directories, so the spec shares the gap.

**repowriter** (violation) resolves `nightly-2` from a repository holding `index-1` while Elasticsearch writes `nightly-3`. `load_repo` fails with `NotFound` in five steps, although the snapshot is listed by every generation the repository ever holds. Either `read_dir` returns neither `index-1` (already deleted) nor `index-2` (created after it was opened), or `index-1` is listed and then deleted before `read_to_string` opens it. Listing again would find `index-2`. Spec section 4.3 picks the highest `index-N` once and never discusses a writer, so the spec shares the gap.

Every property of a passing run has a mutant in PROJECT.json: a plausible bug in the mapped code that TLC must catch under the same cfg. The mutants include a missing marker check, an off-by-one in the readdir resume offset, an ignored offset, a part count rounded down, a missing floor of one part, a single-part file named as a part, a zero buffer kept after a failed read, a last part one byte short, a long string that skips a missing end marker, a shared value index off by one, an array end that is not consumed, an unknown value token with no error arm, a footer stripped only past the boundary, a version field not skipped, an index directory that finds a shard of another index, and a `find_index_file` where the last `index-N` read wins.

Four more differences from the spec, or gaps in it, show up when a constant is substituted. None has a run of its own:

- `FileParentErr = "ENOTDIR"` in `MCSnapshotFsTree.cfg`: spec section 4.4 says a lookup under a file fails with not-a-directory. The code answers ENOENT (the `_ => None` arm of `find_child_inode`), so `TreeSpec` is violated.
- `Inputs <- MCLongVIntInputs` in `MCMetadataContainer.cfg`: a codec-name length in five bytes whose fifth byte is 0x10. `read_lucene_vint` drops those bits and accepts the header, while Lucene rejects it, so `CodecHeaderAsLucene` is violated.
- `Inputs <- MCOverflowInputs` in `MCSmileDecoder.cfg`: a 27-bit VInt with the accumulator at 16 bits. `read_unsigned_vint` shifts with no length check and returns the low bits, so `DecodedIsExpected` is violated. Spec section 4.1 says parse must fail with invalid-format.
- `Repos <- MCUnreadableRepos` in `MCRepoResolverPartial.cfg`: a legacy repository where `read_dir` of `indices/id2/` fails. `count_shard_dirs` maps the error to 0, so `i2` is mounted with no shards and no error is reported. `ResolvesSnapshot` is violated.

## Bounds

**MCSnapshotFs** has two indices of two shards each. Shard a0 has two files, a1 has none, and b0 has one. Among them are a virtual file with a `meta_hash`, a file split in 600/512 parts, and an empty file. The cfg chooses b1's document: one record without `physical_name` (InvalidData), or one with `part_size` 0 (the panic). `Width = 12` holds the length 600. `ReplyCap = 2` is smaller than every listing with children, so each listing takes several pages. The lookup names cover every case: an index, a shard id, a file, and a missing name. The read offsets are inside and past a file. Under serial dispatch one thread is enough, because the handlers run one at a time. Two threads interleave only in the concurrent run, which finds its violation at depth 8.

`MCSnapshotFs.cfg` and the concurrent cfg use `VIEW MCView`, the state without `reply`. No guard reads `reply`, and neither do their properties. The tree runs keep `reply`, because `TreeSpec` is about it. To keep that run near two and a half minutes (156144 states), it reads at offset 3 only and looks up one name of each level (`MCTreeLookupNames`). Offset 3 is past segments_1 and _0.si and inside _0.cfs, so both eof and data replies occur. A name looked up at the wrong level still gives ENOENT.

**MCBlobRead** uses `Width = 4`, so u64::MAX = 15 and i64::MAX = 7. Lengths go up to 5. Part sizes 2, 3 and 5 give several parts, an exact fit and a single part, and a missing part size takes the sentinel path. Read sizes 2 and 3 cross part boundaries both aligned and misaligned. There is one injected I/O error.

**MCSmileDecoder** has 2300 payloads, each parsed in one behaviour (the parser is deterministic). They reach both reference widths of both tables, every key and value token the model covers, 7-bit groups that are empty, partial, exact and split, and an error at every truncation point. `VIntWidth = 16` is enough for the largest number encoded (-1000). `MCOverflowInputs` holds a 27-bit VInt.

**MCMetadataContainer** has 125 blobs. The empty payload puts a frame exactly on the footer boundary. The 128-byte name needs a two-byte VInt. The truncations stop in every field. The fifth VInt byte values are kept below 8 in the low nibble, so that the u32 value stays within TLC's integers.

**MCRepoResolver** has 3 histories × 3 formats × the subsets of kept generations (1, 2 and 4), plus the empty and the corrupt repository: 23 repositories. Every repository is scanned in every order. Keeping older generations lets an older `index-N` come after the newest one. The second and third snapshots add and drop an index, so participation differs between snapshots. Two shards on one index and three on the other let a wrong count show.

**MCRepoWriter** uses one repository, `<<S1, S2>>` in the shard-generations format with only `index-1` kept, as the writer leaves it. It has one writer run: index-2, then the deletion. One generation step is enough, because the scan reads the root once and the failure needs only the newest file to go.

## Fairness

- `WF` on each thread's in-progress handler steps: a handler runs to its reply, with no cancellation and no cooperative suspension (spec section 5).
- `WF` on `Readdir`: the kernel keeps asking for the next page until it gets an empty one. A thread that is listing a directory issues nothing else meanwhile, so the next page request stays enabled.
- `WF` on `Disconnected`: once the connection is gone, the kernel answers every request, including the next readdir of a listing in progress, with ENOTCONN.
- BlobRead: `WF` on the loop steps and on the reader's next request.
- SmileDecoder: `WF` on `Next`. `parse` runs to its result on the calling thread.
- MetadataContainer and RepoResolver: `WF` on `Next`. Each is a synchronous call on the mounting or loading thread.

## Hazards

The hazards are listed in PROJECT.json, each at its source line and with the properties that cover it. Every hazard is covered by a property.

## Plan: what is not modelled yet

1. **The rest of the shard-load pipeline composed**: the container and the SMILE decoder in front of `parse_shard_files` in `ensure_shard_loaded`, in place of the decoded documents and the nondeterministic read and decode failure.

Not planned:

- `main.rs`. It parses the arguments, sets up logging, then calls `load_repo`, `create_dir_all`, `SnapshotFs::new` and `mount` in that order, and returns the first error. It makes no other decision, and each step it calls is modelled elsewhere: `load_repo` in RepoResolver, `new` as SnapshotFs's `Init`, and a panic unwinding through `mount` as `Disconnected`.
- The `mount` call itself, which is pure I/O.
- DEFLATE decompression, which is a library.
- Attribute timestamps and TTL, which are constants.
