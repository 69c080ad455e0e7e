----------------------------- MODULE SnapshotFs -----------------------------
(***************************************************************************)
(* The virtual filesystem core of snapshot-fuse (src/fs.rs, SnapshotFs).   *)
(*                                                                         *)
(* State: the flat inode table `inodes` (a Vec<InodeEntry>, inode i is     *)
(* position i), the never-read index `shard_file_inodes`, and the          *)
(* `loaded_shards` marker set, each behind its own RwLock.  Callers are    *)
(* the kernel's request threads; `Dispatch` says whether the FUSE session  *)
(* hands them to the filesystem one at a time ("serial", what fuser's      *)
(* session loop does with `&mut self`) or concurrently ("concurrent", the  *)
(* model of spec section 5).                                               *)
(*                                                                         *)
(* Every critical section of the code is one step: the code never holds    *)
(* one lock while waiting for a lock another handler holds in the other    *)
(* order, so splitting at lock boundaries is exact.  ensure_shard_loaded   *)
(* is split where it releases one lock and takes the next: the check       *)
(* (together with the lock-free metadata read), the append under the       *)
(* inodes write lock, and the marker insert under the loaded write lock.   *)
(*                                                                         *)
(* A shard's metadata is the decoded SMILE document ShardDocs[key]; the   *)
(* load runs parse_shard_files (ShardFiles) on it.  Reading the blob,     *)
(* stripping the container and decoding can fail at any time (I/O); the   *)
(* container and the decoder are checked in their own modules.  In the    *)
(* inode table a Lucene file is [physical_name, length], its name turned  *)
(* into text by Text (the decoder's UTF-8 conversion); the read path's    *)
(* bytes are modelled in BlobRead.                                         *)
(*                                                                         *)
(* A panic in a handler (a part_size of 0) unwinds out of fuser::mount2   *)
(* and main: the process exits, every thread with it, and the kernel      *)
(* fails the requests it is still sent (ENOTCONN).                        *)
(***************************************************************************)
EXTENDS ShardFiles, FiniteSets, TLC

CONSTANTS
  Threads,      \* kernel request threads
  IndexOrder,   \* resolved index names in the order sorted_indices.sort() gives
  NumShards,    \* index name -> ResolvedIndex.num_shards
  ShardDocs,    \* <<index, shard>> -> the decoded snap-<uuid>.dat document
  Written,      \* <<index, shard>> -> the files the snapshot writer recorded
  Text,         \* the UTF-8 names of the documents, bytes -> string
  Dispatch,     \* "serial" or "concurrent"
  LookupNames,  \* child names the kernel may look up
  ReadOffsets,  \* offsets of read requests
  ReplyCap      \* directory entries that fit in one readdir reply buffer

IndexNames == Range(IndexOrder)
Keys == UNION {{<<n, s>> : s \in 0..(NumShards[n] - 1)} : n \in IndexNames}
MaxShard == 4

(* parse_shard_files on each shard's document; evaluated once. *)
Loaded == [k \in Keys |-> ParseShardFiles(ShardDocs[k])]

(* A parsed entry as the inode table holds it. *)
FileRec(e) == [physical_name |-> Text[e.physical_name], length |-> e.length]

Files == [k \in Keys |-> IF Loaded[k].ok THEN [i \in DOMAIN Loaded[k].files |->
                                                 FileRec(Loaded[k].files[i])]
                         ELSE <<>>]
FileRecs == UNION {Range(Files[k]) : k \in Keys}

ASSUME /\ IsInjective(IndexOrder)
       /\ NumShards \in [IndexNames -> 1..MaxShard]
       /\ Written \in [Keys -> Seq([physical_name : STRING, length : Nat])]
       /\ Dispatch \in {"serial", "concurrent"}
       /\ ReplyCap \in Nat \ {0}

VARIABLES
  inodes,             \* Seq of InodeEntry; inode number = position
  shard_file_inodes,  \* key -> inode numbers of the key's files
  loaded_shards,      \* keys whose files have been spliced into inodes
  pc,                 \* thread -> "idle" or the next step of its request
  req,                \* thread -> the request being served
  pager,              \* thread -> the kernel's paging over readdir replies
  reply               \* the last lookup/getattr/read reply sent

vars == <<inodes, shard_file_inodes, loaded_shards, pc, req, pager, reply>>

(***************************************************************************)
(* InodeEntry (fs.rs enum InodeEntry).                                      *)
(***************************************************************************)
Root == [kind |-> "root"]
IndexDir(n) == [kind |-> "index", name |-> n]
ShardDir(n, s) == [kind |-> "shard", index |-> n, shard |-> s]
LuceneFile(k, f) == [kind |-> "file", index |-> k[1], shard |-> k[2], file |-> f]

InodeEntries ==
  {Root} \cup {IndexDir(n) : n \in IndexNames}
    \cup {ShardDir(k[1], k[2]) : k \in Keys}
    \cup {LuceneFile(k, f) : k \in Keys, f \in FileRecs}

IsDir(e) == e.kind # "file"

(* The inodes SnapshotFs::new pre-allocates: root, index directories in    *)
(* sorted order, then each index's shard directories by ascending id.      *)
InitialInodes ==
  LET shardDirsOf(n) == [s \in 1..NumShards[n] |-> ShardDir(n, s - 1)]
  IN  <<Root>>
        \o [i \in 1..Len(IndexOrder) |-> IndexDir(IndexOrder[i])]
        \o FlattenSeq([i \in 1..Len(IndexOrder) |-> shardDirsOf(IndexOrder[i])])

(* get_entry: the entry of inode ino, if the table has one. *)
HasEntry(ino) == ino \in 1..Len(inodes)

(* The inode numbers, ascending, whose entry satisfies P. *)
InodesWhere(P(_)) ==
  SelectSeq([i \in 1..Len(inodes) |-> i], LAMBDA i : P(inodes[i]))

FirstInodeWhere(P(_)) ==
  LET found == InodesWhere(P) IN IF found = <<>> THEN 0 ELSE found[1]

FileInodesOf(k) ==
  InodesWhere(LAMBDA e : e.kind = "file" /\ e.index = k[1] /\ e.shard = k[2])

(* Mutant: an index directory finds a shard of that id in any index. *)
DirChildAnyIndex(e, name) ==
  CASE e.kind = "root" ->
         FirstInodeWhere(LAMBDA c : c.kind = "index" /\ c.name = name)
    [] e.kind = "index" ->
         LET ids == {s \in 0..MaxShard : ToString(s) = name} IN
         IF ids = {} THEN 0
         ELSE FirstInodeWhere(LAMBDA c : c.kind = "shard" /\ c.shard \in ids)
    [] OTHER -> 0

(* The child a lookup in a directory entry resolves to without loading     *)
(* (root and index directory cases of find_child_inode); 0 when none.     *)
(* An index directory parses the name as a u32 first.                      *)
DirChild(e, name) ==
  CASE e.kind = "root" ->
         FirstInodeWhere(LAMBDA c : c.kind = "index" /\ c.name = name)
    [] e.kind = "index" ->
         LET ids == {s \in 0..MaxShard : ToString(s) = name} IN
         IF ids = {} THEN 0
         ELSE FirstInodeWhere(LAMBDA c : c.kind = "shard" /\ c.index = e.name
                                          /\ c.shard \in ids)
    [] OTHER -> 0

(* The full readdir listing of the directory at inode ino: ".", ".."      *)
(* (always the root) and the children in inode order, each entry with the *)
(* offset readdir adds it with (its position).                            *)
Listing(ino) ==
  LET e == inodes[ino]
      child(c) == CASE e.kind = "root"  -> c.kind = "index"
                    [] e.kind = "index" -> c.kind = "shard" /\ c.index = e.name
                    [] OTHER            -> c.kind = "file" /\ c.index = e.index
                                             /\ c.shard = e.shard
      kids == InodesWhere(child)
      nameOf(c) == CASE c.kind = "index" -> c.name
                     [] c.kind = "shard" -> ToString(c.shard)
                     [] OTHER            -> c.file.physical_name
      plain == <<[ino |-> ino, name |-> "."], [ino |-> 1, name |-> ".."]>>
                 \o [i \in 1..Len(kids) |-> [ino |-> kids[i],
                                             name |-> nameOf(inodes[kids[i]])]]
  IN  [i \in 1..Len(plain) |-> [ino |-> plain[i].ino, name |-> plain[i].name, off |-> i]]

(* make_dir_attr / make_file_attr, reduced to what a caller can tell apart. *)
AttrOf(e) ==
  IF IsDir(e) THEN [kind |-> "dir", size |-> 0, blocks |-> 0]
  ELSE [kind |-> "file", size |-> e.file.length,
        blocks |-> (e.file.length + 511) \div 512]

(* The kernel's listing: the offset it resumes at, how many entries it has *)
(* received, and whether each was the directory's entry at that position   *)
(* at the time it was sent.                                                *)
NoPager == [status |-> "none", dir |-> 0, off |-> 0, pos |-> 0, inOrder |-> TRUE]

(* A request may start when the session dispatches it: at any time when    *)
(* concurrent, only when no other request is in progress when serial.      *)
CanDispatch(t) ==
  /\ pc[t] = "idle"
  /\ Dispatch = "serial" => \A u \in Threads : pc[u] = "idle"

(* A thread that is listing a directory asks for nothing else meanwhile. *)
NotListing(t) == pager[t].status # "paging"

Init ==
  /\ inodes = InitialInodes
  /\ shard_file_inodes = [k \in {} |-> <<>>]
  /\ loaded_shards = {}
  /\ pc = [t \in Threads |-> "idle"]
  /\ req = [t \in Threads |-> [op |-> "none"]]
  /\ pager = [t \in Threads |-> NoPager]
  /\ reply = [op |-> "none"]

(***************************************************************************)
(* ensure_shard_loaded, first part: the marker check under the read lock,  *)
(* then the metadata read, decode and parse, which touch no shared state.  *)
(* `r` is the caller's request.                                            *)
(***************************************************************************)
(* The read, the decode and parse_shard_files.  The read or the decode     *)
(* may fail whatever the document; parse_shard_files fails (InvalidData)   *)
(* on its document every time.  Either returns with the marker unset and   *)
(* the caller scans an unloaded shard.  A panic ends the process.          *)
LoadShardFiles(t, k, r) ==
  \/ /\ pc' = [pc EXCEPT ![t] = "scan"]
     /\ req' = [req EXCEPT ![t] = r]
  \/ /\ Loaded[k].ok
     /\ pc' = [pc EXCEPT ![t] = "append"]
     /\ req' = [req EXCEPT ![t] = [r EXCEPT !.files = Files[k]]]
  \/ /\ Loaded[k].panic
     /\ pc' = [u \in Threads |-> "dead"]
     /\ UNCHANGED req

(* Mutant: the early return on a set marker is missing. *)
EnsureShardLoadedNoCheck(t, k, r) == LoadShardFiles(t, k, r)

EnsureShardLoaded(t, k, r) ==
  IF k \in loaded_shards
  THEN /\ pc' = [pc EXCEPT ![t] = "scan"]
       /\ req' = [req EXCEPT ![t] = r]
  ELSE LoadShardFiles(t, k, r)

(* Under the inodes and shard_file_inodes write locks: push one LuceneFile *)
(* entry per file record and record their inode numbers.                   *)
(* Mutant: the files are filed under the previous shard id. *)
AppendFileInodesWrongShard(t) ==
  LET r == req[t]
      k == <<r.key[1], r.key[2] - 1>>
      base == Len(inodes)
  IN  /\ pc[t] = "append"
      /\ inodes' = inodes \o [i \in 1..Len(r.files) |-> LuceneFile(k, r.files[i])]
      /\ shard_file_inodes' =
           [x \in DOMAIN shard_file_inodes \cup {r.key} |->
              IF x = r.key THEN [i \in 1..Len(r.files) |-> base + i]
              ELSE shard_file_inodes[x]]
      /\ pc' = [pc EXCEPT ![t] = "mark"]
      /\ UNCHANGED <<loaded_shards, req, pager, reply>>

AppendFileInodes(t) ==
  LET r == req[t]
      k == r.key
      base == Len(inodes)
  IN  /\ pc[t] = "append"
      /\ inodes' = inodes \o [i \in 1..Len(r.files) |-> LuceneFile(k, r.files[i])]
      /\ shard_file_inodes' =
           [x \in DOMAIN shard_file_inodes \cup {k} |->
              IF x = k THEN [i \in 1..Len(r.files) |-> base + i]
              ELSE shard_file_inodes[x]]
      /\ pc' = [pc EXCEPT ![t] = "mark"]
      /\ UNCHANGED <<loaded_shards, req, pager, reply>>

(* Under the loaded_shards write lock: set the marker. *)
MarkLoaded(t) ==
  /\ pc[t] = "mark"
  /\ loaded_shards' = loaded_shards \cup {req[t].key}
  /\ pc' = [pc EXCEPT ![t] = "scan"]
  /\ UNCHANGED <<inodes, shard_file_inodes, req, pager, reply>>

(***************************************************************************)
(* lookup(parent, name): find_child_inode, then the entry's attributes.    *)
(***************************************************************************)
LookupReply(parent, name, ino) ==
  IF ino = 0 THEN [op |-> "lookup", parent |-> parent, name |-> name, err |-> "ENOENT"]
  ELSE [op |-> "lookup", parent |-> parent, name |-> name, ino |-> ino,
        attr |-> AttrOf(inodes[ino])]

Lookup(t, parent, name) ==
  /\ CanDispatch(t)
  /\ NotListing(t)
  /\ IF HasEntry(parent) /\ inodes[parent].kind = "shard"
     THEN LET e == inodes[parent] IN
          /\ EnsureShardLoaded(t, <<e.index, e.shard>>,
               [op |-> "lookup", ino |-> parent, name |-> name,
                key |-> <<e.index, e.shard>>, files |-> <<>>])
          /\ UNCHANGED reply
     ELSE /\ reply' = LookupReply(parent, name, IF HasEntry(parent) THEN DirChild(inodes[parent], name)
                                  ELSE 0)
          /\ UNCHANGED <<pc, req>>
  /\ UNCHANGED <<inodes, shard_file_inodes, loaded_shards, pager>>

(* The shard directory case after ensure_shard_loaded: the first file of   *)
(* the shard with that physical name, under the inodes read lock.          *)
LookupScan(t) ==
  LET r == req[t] IN
  /\ pc[t] = "scan"
  /\ r.op = "lookup"
  /\ reply' = LookupReply(r.ino, r.name,
                 FirstInodeWhere(LAMBDA c : c.kind = "file" /\ c.index = r.key[1]
                                   /\ c.shard = r.key[2]
                                   /\ c.file.physical_name = r.name))
  /\ pc' = [pc EXCEPT ![t] = "idle"]
  /\ req' = [req EXCEPT ![t] = [op |-> "none"]]
  /\ UNCHANGED <<inodes, shard_file_inodes, loaded_shards, pager>>

(***************************************************************************)
(* getattr(ino) and read(ino, offset, size): read-only replies.  The bytes *)
(* of a read are BlobRead's; here only which reply the handler gives.      *)
(***************************************************************************)
Getattr(t, ino) ==
  /\ CanDispatch(t)
  /\ NotListing(t)
  /\ reply' = IF HasEntry(ino) THEN [op |-> "getattr", ino |-> ino, attr |-> AttrOf(inodes[ino])]
              ELSE [op |-> "getattr", ino |-> ino, err |-> "ENOENT"]
  /\ UNCHANGED <<inodes, shard_file_inodes, loaded_shards, pc, req, pager>>

Read(t, ino, offset) ==
  /\ CanDispatch(t)
  /\ NotListing(t)
  /\ reply' =
       [op |-> "read", ino |-> ino, off |-> offset,
        res |-> CASE ~HasEntry(ino)                          -> "ENOENT"
                  [] IsDir(inodes[ino])                      -> "EISDIR"
                  [] offset >= inodes[ino].file.length       -> "eof"
                  [] OTHER                                   -> "data"]
  /\ UNCHANGED <<inodes, shard_file_inodes, loaded_shards, pc, req, pager>>

(***************************************************************************)
(* readdir(ino, offset).  The kernel lists a directory by calling readdir  *)
(* from offset 0, continuing at the offset of the last entry it received,  *)
(* until a reply is empty; `pager` is that loop.                           *)
(***************************************************************************)
OpenDir(t, ino) ==
  /\ CanDispatch(t)
  /\ NotListing(t)
  /\ pager' = [pager EXCEPT ![t] = [NoPager EXCEPT !.status = "paging", !.dir = ino]]
  /\ UNCHANGED <<inodes, shard_file_inodes, loaded_shards, pc, req, reply>>

(* Entries from position off+1 on, each added with offset i+1, until the   *)
(* reply buffer is full.                                                   *)
(* Mutant: the requested offset is ignored. *)
PageIgnoresOffset(entries, off) ==
  [i \in 1..(IF ReplyCap < Len(entries) THEN ReplyCap ELSE Len(entries)) |->
     entries[i]]

(* Mutant: the resumed listing skips one entry past the offset. *)
PageSkipsNext(entries, off) ==
  LET last == IF off + 1 + ReplyCap < Len(entries) THEN off + 1 + ReplyCap
              ELSE Len(entries)
  IN  IF off = 0 THEN [i \in 1..(IF ReplyCap < Len(entries) THEN ReplyCap
                                    ELSE Len(entries)) |-> entries[i]]
      ELSE [i \in 1..(IF last > off + 1 THEN last - off - 1 ELSE 0) |->
              entries[off + 1 + i]]

(* The entries from position off+1 on, each added with its offset i+1,     *)
(* until the reply buffer is full.                                         *)
Page(entries, off) ==
  LET last == IF off + ReplyCap < Len(entries) THEN off + ReplyCap ELSE Len(entries)
  IN  [i \in 1..(last - off) |-> entries[off + i]]

(* The kernel takes a reply: an error or an empty page ends the listing,  *)
(* and what it received is handed on.                                      *)
TakePage(t, p) ==
  LET g == pager[t]
      lst == Listing(g.dir)
      names(q) == [i \in DOMAIN q |-> <<q[i].ino, q[i].name>>]
      inOrder == /\ g.inOrder
                 /\ g.pos + Len(p) <= Len(lst)
                 /\ names(p) = names(SubSeq(lst, g.pos + 1, g.pos + Len(p)))
  IN  pager' = [pager EXCEPT ![t] =
        IF p = <<>> THEN [g EXCEPT !.status = "done"]
        ELSE [g EXCEPT !.off = p[Len(p)].off, !.inOrder = inOrder,
                       !.pos = IF inOrder THEN g.pos + Len(p) ELSE g.pos]]

TakeError(t) == pager' = [pager EXCEPT ![t].status = "error"]

Readdir(t) ==
  LET ino == pager[t].dir
      off == pager[t].off
  IN
  /\ CanDispatch(t)
  /\ pager[t].status = "paging"
  /\ CASE ~HasEntry(ino) ->
            TakeError(t) /\ UNCHANGED <<pc, req>>
       [] inodes[ino].kind = "file" ->
            TakeError(t) /\ UNCHANGED <<pc, req>>
       [] inodes[ino].kind = "shard" ->
            LET e == inodes[ino] IN
            /\ EnsureShardLoaded(t, <<e.index, e.shard>>,
                 [op |-> "readdir", ino |-> ino, off |-> off,
                  key |-> <<e.index, e.shard>>, files |-> <<>>])
            /\ UNCHANGED pager
       [] OTHER ->
            TakePage(t, Page(Listing(ino), off)) /\ UNCHANGED <<pc, req>>
  /\ UNCHANGED <<inodes, shard_file_inodes, loaded_shards, reply>>

(* The shard directory case after ensure_shard_loaded. *)
ReaddirScan(t) ==
  LET r == req[t] IN
  /\ pc[t] = "scan"
  /\ r.op = "readdir"
  /\ TakePage(t, Page(Listing(r.ino), r.off))
  /\ pc' = [pc EXCEPT ![t] = "idle"]
  /\ req' = [req EXCEPT ![t] = [op |-> "none"]]
  /\ UNCHANGED <<inodes, shard_file_inodes, loaded_shards, reply>>

(* Once the process has exited the kernel fails what it is asked: a       *)
(* getattr of the root gets ENOTCONN, and a listing in progress ends with *)
(* an error.                                                               *)
Disconnected(t) ==
  /\ pc[t] = "dead"
  /\ reply' = [op |-> "getattr", ino |-> 1, err |-> "ENOTCONN"]
  /\ pager' = [pager EXCEPT ![t].status = IF @ = "paging" THEN "error" ELSE @]
  /\ UNCHANGED <<inodes, shard_file_inodes, loaded_shards, pc, req>>

(* The steps of a request in progress. *)
Serve(t) ==
  AppendFileInodes(t) \/ MarkLoaded(t) \/ LookupScan(t) \/ ReaddirScan(t)

Next ==
  \E t \in Threads :
    \/ Serve(t)
    \/ Readdir(t)
    \/ Disconnected(t)
    \/ \E ino \in 1..Len(inodes) + 1 :
         \/ OpenDir(t, ino)
         \/ Getattr(t, ino)
         \/ \E name \in LookupNames : Lookup(t, ino, name)
         \/ \E off \in ReadOffsets : Read(t, ino, off)

(* A dispatched request runs to its reply (the handler thread does not     *)
(* stop), a kernel listing keeps asking for the next page until it gets   *)
(* an empty one, and a kernel whose filesystem process is gone fails the  *)
(* listing.                                                                *)
Fairness ==
  \A t \in Threads : WF_vars(Serve(t)) /\ WF_vars(Readdir(t)) /\ WF_vars(Disconnected(t))

Spec == Init /\ [][Next]_vars /\ Fairness

-----------------------------------------------------------------------------
TypeOK ==
  /\ inodes \in Seq(InodeEntries)
  /\ DOMAIN shard_file_inodes \subseteq Keys
  /\ loaded_shards \subseteq Keys
  /\ pc \in [Threads -> {"idle", "append", "mark", "scan", "dead"}]
  /\ \A t \in Threads : pager[t].status \in {"none", "paging", "done", "error"}

(* Once a shard's marker is set, its directory lists the files the        *)
(* snapshot writer recorded for it, exactly once each, in record order,    *)
(* with their names and lengths.  It breaks if two traversals of an        *)
(* unloaded shard both pass the marker check in ensure_shard_loaded before *)
(* either sets the marker, if the marker is set without the files being    *)
(* spliced in, or if parse_shard_files reads a record wrongly (a field     *)
(* taken from the wrong key, a length cast wrongly).                       *)
LoadedShardListsItsFiles ==
  \A k \in loaded_shards :
    [i \in DOMAIN FileInodesOf(k) |-> inodes[FileInodesOf(k)[i]].file] = Written[k]

(* A kernel listing that ends (an empty readdir reply) has received every  *)
(* entry of the directory exactly once, in order: readdir's per-entry      *)
(* offsets and the reply-buffer cut-off agree with how the kernel resumes, *)
(* across shard loads that fail and are retried between pages.             *)
PagedListingComplete ==
  [][\A t \in Threads :
       (pager[t].status = "paging" /\ pager'[t].status = "done")
         => pager[t].inOrder /\ pager[t].pos = Len(Listing(pager[t].dir))]_vars

(* Every directory listing the kernel starts eventually ends. *)
ListingTerminates ==
  \A t \in Threads : pager[t].status = "paging" ~> pager[t].status # "paging"

=============================================================================
