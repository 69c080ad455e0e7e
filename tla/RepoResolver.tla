---------------------------- MODULE RepoResolver ----------------------------
(***************************************************************************)
(* load_repo (src/repo.rs): find the repository's current index-N file,   *)
(* find the named snapshot in it, and resolve each of the snapshot's      *)
(* indices to its id and shard count.                                      *)
(*                                                                         *)
(* The repository root is a set of directory entries; read_dir returns    *)
(* them in an order the code does not control, so find_index_file takes  *)
(* them one at a time in any order.  An entry is [index |-> TRUE, n |-> N] *)
(* for a name "index-<suffix>" whose suffix parses as N (NaN when it does *)
(* not), or [index |-> FALSE] for any other name.  The content of each     *)
(* index-N file is the RepoMetadata JSON it parses to (JSON text itself   *)
(* is not modelled); Corrupt is a file serde_json cannot parse.  Each    *)
(* index directory is a set of entries [n, dir], the name parsed as u32   *)
(* (NaN when it does not parse).                                           *)
(*                                                                         *)
(* A repository is [root, files, dirs, truth]: the root's entries, the    *)
(* index-N contents by N, the index directories by index id, and what     *)
(* load_repo should return for it (used by the properties only).          *)
(***************************************************************************)
EXTENDS Integers, FiniteSets

CONSTANTS
  Repos,          \* the repositories load_repo may be pointed at
  SnapshotName,   \* the snapshot asked for
  NaN,            \* a suffix or directory name that does not parse as a number
  NoLookup        \* a snapshot entry without index_metadata_lookup

VARIABLES
  repo,           \* the repository on disk
  pending,        \* root entries read_dir has not returned yet
  best,           \* find_index_file's best: the highest generation so far, or -1
  result          \* Scanning, or load_repo's Ok / Err

vars == <<repo, pending, best, result>>

Scanning == [scanning |-> TRUE]
Corrupt == [corrupt |-> TRUE]

(* count_shard_dirs: the directories of indices/<id>/ whose names parse   *)
(* as numbers; 0 when the directory cannot be read.                        *)
CountShardDirs(id) ==
  IF id \in DOMAIN repo.dirs
  THEN Cardinality({e \in repo.dirs[id] : e.dir /\ e.n # NaN})
  ELSE 0

(* A participating index's shard count. *)
NumShards(entry) == IF entry.gens = 0 THEN CountShardDirs(entry.id) ELSE entry.gens

(* The index names load_repo resolves for snapshot s of metadata meta:    *)
(* those whose id is a key of the lookup, or, without a lookup, those     *)
(* whose snapshots list holds the snapshot's uuid.                        *)
Participating(meta, s) ==
  IF s.lookup # NoLookup
  THEN {name \in DOMAIN meta.indices : meta.indices[name].id \in s.lookup}
  ELSE {name \in DOMAIN meta.indices : s.uuid \in meta.indices[name].snapshots}

(* The first snapshot entry with the asked-for name, or 0. *)
FindSnapshot(meta) ==
  LET K == {k \in DOMAIN meta.snapshots : meta.snapshots[k].name = SnapshotName}
  IN  IF K = {} THEN 0 ELSE CHOOSE k \in K : \A j \in K : k <= j

(* load_repo after the index file is chosen: its Ok or Err.  The file may *)
(* be gone by the time read_to_string opens it.                            *)
LoadRepo(n) ==
  LET meta == repo.files[n]
      k == FindSnapshot(meta)
      s == meta.snapshots[k]
  IN  IF n \notin DOMAIN repo.files THEN [ok |-> FALSE, err |-> "NotFound"]
      ELSE IF meta = Corrupt THEN [ok |-> FALSE, err |-> "InvalidData"]
      ELSE IF k = 0 THEN [ok |-> FALSE, err |-> "NotFound"]
      ELSE [ok |-> TRUE, snapshot_id |-> s.uuid,
            indices |-> [name \in Participating(meta, s) |->
                           [id |-> meta.indices[name].id,
                            num_shards |-> NumShards(meta.indices[name])]]]

Init ==
  /\ repo \in Repos
  /\ pending = repo.root
  /\ best = -1
  /\ result = Scanning

(* Mutant: every parsed index-N replaces the best, the last one read wins. *)
ScanEntryLastWins ==
  /\ result = Scanning
  /\ \E e \in pending :
       /\ pending' = pending \ {e}
       /\ best' = IF e.index /\ e.n # NaN THEN e.n ELSE best
  /\ UNCHANGED <<repo, result>>

(* One turn of find_index_file's loop: an index-N entry with a parsed N   *)
(* above the best so far becomes the best.                                 *)
ScanEntry ==
  /\ result = Scanning
  /\ \E e \in pending :
       /\ pending' = pending \ {e}
       /\ best' = IF e.index /\ e.n # NaN /\ (best = -1 \/ e.n > best) THEN e.n ELSE best
  /\ UNCHANGED <<repo, result>>

(* The loop has seen every entry: no index file is NotFound, else the     *)
(* chosen file is read and resolved.                                       *)
Resolve ==
  /\ result = Scanning
  /\ pending = {}
  /\ result' = IF best = -1 THEN [ok |-> FALSE, err |-> "NotFound"] ELSE LoadRepo(best)
  /\ UNCHANGED <<repo, pending, best>>

Next == ScanEntry \/ Resolve

Spec == Init /\ [][Next]_vars /\ WF_vars(Next)

-----------------------------------------------------------------------------
(* Whatever order read_dir returns the root in and whichever older        *)
(* generations the writer kept, load_repo resolves the asked-for snapshot  *)
(* to its uuid and exactly its indices, each with its id and shard count, *)
(* in every metadata format, or NotFound when it does not exist.           *)
ResolvesSnapshot == result # Scanning => result = repo.truth

=============================================================================
