--------------------------- MODULE MCRepoResolver ---------------------------
(* Repositories for RepoResolver, laid out the way the snapshot writer     *)
(* lays them out: one generation per snapshot (index-0 after the first),  *)
(* each index-N listing the snapshots taken so far, in one of three       *)
(* metadata formats; every index directory holds a numeric directory per  *)
(* shard that has data and a meta-<uuid>.dat file.                         *)
EXTENDS RepoResolver, Sequences

Ids == [i1 |-> "id1", i2 |-> "id2"]

(* A snapshot: its name, uuid, shard count per index, and the shards that *)
(* failed in it (a partial snapshot).                                      *)
Snap(name, uuid, shards, failed) ==
  [name |-> name, uuid |-> uuid, shards |-> shards, failed |-> failed]

(* The index names of snapshots 1..g of history h. *)
IndicesUpTo(h, g) == UNION {DOMAIN h[k].shards : k \in 1..g}

ShardCount(h, i) == LET k == CHOOSE k \in DOMAIN h : i \in DOMAIN h[k].shards
                    IN  h[k].shards[i]

(* index-(g-1) after the g-th snapshot.  "legacy": before shard           *)
(* generations; "gens": with shard_generations; "lookup": with            *)
(* index_metadata_lookup as well.                                          *)
Meta(h, g, fmt) ==
  [snapshots |-> [k \in 1..g |->
                    [name |-> h[k].name, uuid |-> h[k].uuid,
                     lookup |-> IF fmt = "lookup" THEN {Ids[i] : i \in DOMAIN h[k].shards}
                                ELSE NoLookup]],
   indices |-> [i \in IndicesUpTo(h, g) |->
                  [id |-> Ids[i],
                   snapshots |-> {h[k].uuid : k \in {j \in 1..g : i \in DOMAIN h[j].shards}},
                   gens |-> IF fmt = "legacy" THEN 0 ELSE ShardCount(h, i)]]]

(* Shard directories exist for the shards some snapshot stored. *)
Dirs(h) ==
  [id \in {Ids[i] : i \in IndicesUpTo(h, Len(h))} |->
     LET i == CHOOSE x \in DOMAIN Ids : Ids[x] = id IN
     {[n |-> sh, dir |-> TRUE] :
        sh \in {x \in 0..(ShardCount(h, i) - 1) :
                  \E k \in DOMAIN h : i \in DOMAIN h[k].shards /\ <<i, x>> \notin h[k].failed}}
     \cup {[n |-> NaN, dir |-> FALSE]}]

(* What load_repo should return: the named snapshot's indices with their  *)
(* ids and shard counts, or NotFound.                                      *)
Truth(h) ==
  LET K == {k \in DOMAIN h : h[k].name = SnapshotName} IN
  IF K = {} THEN [ok |-> FALSE, err |-> "NotFound"]
  ELSE LET s == h[CHOOSE k \in K : TRUE] IN
       [ok |-> TRUE, snapshot_id |-> s.uuid,
        indices |-> [i \in DOMAIN s.shards |-> [id |-> Ids[i], num_shards |-> s.shards[i]]]]

(* The root: index-0 .. index-(Len(h)-1) of the generations kept, and     *)
(* index.latest.                                                            *)
Repo(h, fmt, kept) ==
  [root |-> {[index |-> TRUE, n |-> g - 1] : g \in kept} \cup {[index |-> FALSE]},
   files |-> [n \in {g - 1 : g \in kept} |-> Meta(h, n + 1, fmt)],
   dirs |-> Dirs(h),
   truth |-> Truth(h)]

S1 == Snap("nightly-1", "u1", [i1 |-> 2], {})
S2 == Snap("nightly-2", "u2", [i1 |-> 2, i2 |-> 3], {})
S3 == Snap("nightly-3", "u3", [i2 |-> 3], {})
Histories == {<<S1>>, <<S1, S2>>, <<S1, S2, S3>>}
Formats == {"legacy", "gens", "lookup"}

(* The writer keeps the newest generation and possibly older ones. *)
Kept(h) == {K \in SUBSET (1..Len(h)) : Len(h) \in K}

(* A root with no index-N file, and one whose newest index-N is corrupt. *)
EmptyRepo ==
  [root |-> {[index |-> FALSE], [index |-> TRUE, n |-> NaN]}, files |-> <<>>,
   dirs |-> <<>>, truth |-> [ok |-> FALSE, err |-> "NotFound"]]
CorruptRepo ==
  LET r == Repo(<<S1, S2>>, "gens", {1, 2})
  IN  [r EXCEPT !.files[1] = Corrupt, !.truth = [ok |-> FALSE, err |-> "InvalidData"]]

MCRepos == UNION {{Repo(h, f, k) : k \in Kept(h)} : h \in Histories, f \in Formats}
             \cup {EmptyRepo, CorruptRepo}

MCSnapshotName == "nightly-2"

(* A legacy repository whose snapshot nightly-2, the only one of i2, is   *)
(* partial: shard 1 of i2 failed, so indices/id2/ has directories 0 and 2. *)
P2 == Snap("nightly-2", "u2", [i1 |-> 2, i2 |-> 3], {<<"i2", 1>>})
MCPartialRepos == {Repo(<<S1, P2>>, "legacy", {1, 2})}

(* A legacy repository in which read_dir of indices/id2/ fails (a         *)
(* transient error of the storage the repository is mounted from).        *)
MCUnreadableRepos ==
  LET r == Repo(<<S1, S2>>, "legacy", {1, 2})
  IN  {[r EXCEPT !.dirs = [id \in {"id1"} |-> r.dirs[id]]]}

=============================================================================
