---------------------------- MODULE SnapshotFsTree ----------------------------
(***************************************************************************)
(* SnapshotFs as an implementation of FsTree.  An inode entry names the   *)
(* path find_child_inode and readdir present it under; an identifier is   *)
(* its inode number.  A shard counts as loaded from the step that appends *)
(* its files, since the marker is set in a later critical section.        *)
(***************************************************************************)
EXTENDS MCSnapshotFs

CONSTANT FileParentErr

PathOf(e) == CASE e.kind = "root"  -> <<>>
               [] e.kind = "index" -> <<e.name>>
               [] e.kind = "shard" -> <<e.index, e.shard>>
               [] OTHER            -> <<e.index, e.shard, e.file>>

nodeBar ==
  [p \in {PathOf(inodes[i]) : i \in 1..Len(inodes)} |->
     CHOOSE i \in 1..Len(inodes) :
       /\ PathOf(inodes[i]) = p
       /\ \A j \in 1..(i - 1) : PathOf(inodes[j]) # p]

loadedBar == loaded_shards \cup {req[t].key : t \in {u \in Threads : pc[u] = "mark"}}

Tree == INSTANCE FsTree WITH node <- nodeBar, loaded <- loadedBar

(* The inode table and the handlers' replies behave as the promised tree: *)
(* identifiers never change, a shard's files appear once, together and in *)
(* record order (ensure_shard_loaded), and every lookup, getattr and read *)
(* reply is the one the tree gives at the moment it is sent.              *)
TreeSpec == Tree!Spec

=============================================================================
