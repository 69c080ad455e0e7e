------------------------------- MODULE FsTree -------------------------------
(***************************************************************************)
(* The tree snapshot-fuse promises (spec sections 4.4 and 6), without the *)
(* inode table that implements it: /<index>/<shard>/<file>, named by      *)
(* paths.  `node` numbers every visible path with its identifier; a shard *)
(* directory is empty until its files appear all at once, in file-record  *)
(* order, after every identifier already given out; no identifier ever    *)
(* changes or goes away.  Lookup, getattr and read answer from the tree   *)
(* as it is when they reply.                                               *)
(*                                                                         *)
(* A path is <<>> (root), <<n>> (index n), <<n, s>> (shard s of n) or      *)
(* <<n, s, f>> (file record f of that shard).                              *)
(***************************************************************************)
EXTENDS Naturals, Sequences, FiniteSets, Functions, TLC

CONSTANTS
  IndexNames,     \* the snapshot's index names
  NumShards,      \* index name -> shard count
  Files,          \* <<index, shard>> -> file records, in order
  LookupNames,    \* child names looked up
  ReadOffsets,    \* offsets of reads
  FileParentErr   \* the error of a lookup whose parent is a file

Keys == UNION {{<<n, s>> : s \in 0..(NumShards[n] - 1)} : n \in IndexNames}

VARIABLES
  node,     \* visible path -> identifier
  loaded,   \* shards whose files are visible
  reply     \* the last reply, with the request it answers

vars == <<node, loaded, reply>>

DirPaths == {<<>>} \cup {<<n>> : n \in IndexNames} \cup Keys

IsFile(p) == Len(p) = 3

Parent(p) == SubSeq(p, 1, Len(p) - 1)

NameOf(p) == CASE Len(p) = 1 -> p[1]
              [] Len(p) = 2 -> ToString(p[2])
              [] OTHER      -> p[3].physical_name

Children(p) == {c \in DOMAIN node : Len(c) = Len(p) + 1 /\ Parent(c) = p}

PathAt(i) == CHOOSE p \in DOMAIN node : node[p] = i

Attr(p) == IF IsFile(p)
           THEN [kind |-> "file", size |-> p[3].length,
                 blocks |-> (p[3].length + 511) \div 512]
           ELSE [kind |-> "dir", size |-> 0, blocks |-> 0]

(* The identifiers a shard's files get: the next ones, in record order. *)
FileNodes(k) ==
  LET base == Cardinality(DOMAIN node) IN
  [p \in {<<k[1], k[2], f>> : f \in Range(Files[k])} |->
     base + (CHOOSE i \in DOMAIN Files[k] : Files[k][i] = p[3])]

(* Root first; shards of an index by ascending id. *)
Init ==
  /\ node \in [DirPaths -> 1..Cardinality(DirPaths)]
  /\ IsInjective(node)
  /\ node[<<>>] = 1
  /\ \A k, j \in Keys : k[1] = j[1] /\ k[2] < j[2] => node[k] < node[j]
  /\ loaded = {}
  /\ reply = [op |-> "none"]

LoadShard(k) ==
  /\ k \notin loaded
  /\ node' = node @@ FileNodes(k)
  /\ loaded' = loaded \cup {k}
  /\ UNCHANGED reply

Lookup(i, name) ==
  LET p == PathAt(i)
      named == {c \in Children(p) : NameOf(c) = name}
      c == CHOOSE c \in named : \A d \in named : node[c] <= node[d]
      req == [op |-> "lookup", parent |-> i, name |-> name]
  IN  /\ reply' = CASE i \notin Range(node) -> req @@ [err |-> "ENOENT"]
                    [] IsFile(p)            -> req @@ [err |-> FileParentErr]
                    [] named = {}           -> req @@ [err |-> "ENOENT"]
                    [] OTHER -> req @@ [ino |-> node[c], attr |-> Attr(c)]
      /\ UNCHANGED <<node, loaded>>

Getattr(i) ==
  /\ reply' = IF i \in Range(node) THEN [op |-> "getattr", ino |-> i, attr |-> Attr(PathAt(i))]
              ELSE [op |-> "getattr", ino |-> i, err |-> "ENOENT"]
  /\ UNCHANGED <<node, loaded>>

Read(i, off) ==
  /\ reply' = [op |-> "read", ino |-> i, off |-> off,
               res |-> CASE i \notin Range(node)         -> "ENOENT"
                         [] ~IsFile(PathAt(i))           -> "EISDIR"
                         [] off >= PathAt(i)[3].length   -> "eof"
                         [] OTHER                        -> "data"]
  /\ UNCHANGED <<node, loaded>>

Next ==
  \/ \E k \in Keys : LoadShard(k)
  \/ \E i \in 1..(Cardinality(DOMAIN node) + 1) :
       \/ Getattr(i)
       \/ \E name \in LookupNames : Lookup(i, name)
       \/ \E off \in ReadOffsets : Read(i, off)

Spec == Init /\ [][Next]_vars

=============================================================================
