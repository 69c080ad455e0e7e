----------------------------- MODULE MCRepoWriter ----------------------------
(***************************************************************************)
(* load_repo (RepoResolver) while Elasticsearch finalizes a snapshot in   *)
(* the same repository.  The writer is the environment, not code of this  *)
(* repository: it writes index-(N+1), listing the snapshots so far and the *)
(* new one, and then deletes index-N (BlobStoreRepository deletes the     *)
(* generations from the expected one up to the new one).                   *)
(*                                                                         *)
(* read_dir iterates lazily: an entry created during the scan may or may  *)
(* not be returned, and one deleted may still be.                          *)
(***************************************************************************)
EXTENDS MCRepoResolver, TLC

VARIABLE wphase   \* the writer: "idle", "written" (index-(N+1) exists), "deleted"

wvars == <<vars, wphase>>

(* The repository before the third snapshot, as the writer leaves it:     *)
(* only the newest generation, index-1.                                    *)
MCWriterRepos == {Repo(<<S1, S2>>, "gens", {2})}

OldGen == 1
NewEntry == [index |-> TRUE, n |-> 2]
NewMeta == Meta(<<S1, S2, S3>>, 3, "gens")

WInit == Init /\ wphase = "idle"

Write ==
  /\ wphase = "idle"
  /\ repo' = [repo EXCEPT !.root = @ \cup {NewEntry}, !.files = @ @@ (2 :> NewMeta)]
  /\ pending' \in IF pending = {} THEN {pending} ELSE {pending, pending \cup {NewEntry}}
  /\ wphase' = "written"
  /\ UNCHANGED <<best, result>>

DeleteOld ==
  LET old == [index |-> TRUE, n |-> OldGen] IN
  /\ wphase = "written"
  /\ repo' = [repo EXCEPT !.root = @ \ {old},
                          !.files = [n \in DOMAIN @ \ {OldGen} |-> @[n]]]
  /\ pending' \in {pending, pending \ {old}}
  /\ wphase' = "deleted"
  /\ UNCHANGED <<best, result>>

WNext == (Next /\ UNCHANGED wphase) \/ Write \/ DeleteOld

WSpec == WInit /\ [][WNext]_wvars /\ WF_wvars(Next /\ UNCHANGED wphase)

=============================================================================
