--------------------------- MODULE MCBlobCheckpoints ---------------------------
(***************************************************************************)
(* Model checking of the Blob checkpoint saver: its pending writes, which  *)
(* share no blob with the rest, and its checkpoints. The first state of a  *)
(* behaviour decides which calls and which maintenance there are beside    *)
(* the puts, so that every pair that interferes meets. The instances are   *)
(* of the module of proofs, which extends the saver's, so that its         *)
(* theorems are theorems about these very instances.                       *)
(***************************************************************************)
EXTENDS BlobPendingWrites, TLC

CONSTANTS Ids, ch1, ch2, only

VARIABLES scene, cLatest, cMarkers, cMetas, cValues, cVersions, cUsed, cPut, cLate, cRd, cMt

cVars == <<cLatest, cMarkers, cMetas, cValues, cVersions, cUsed, cPut, cLate, cRd, cMt>>

\* Two channels; prunes and collections beside puts that stop anywhere.
Saves == INSTANCE BlobCheckpointSaver_proofs
       WITH Channels <- {ch1, ch2}, LateUploads <- FALSE,
            Calls <- {"put"},
            Tasks <- {"delete_before", "collect"},
            PruneBase <- FALSE,
            latest <- cLatest, markers <- cMarkers, metas <- cMetas, values <- cValues,
            versions <- cVersions, used <- cUsed, put <- cPut, late <- cLate,
            rd <- cRd, mt <- cMt

\* Uploads that arrive after their put has stopped, and threads deleted.
Late == INSTANCE BlobCheckpointSaver_proofs
       WITH Channels <- {ch1, ch2}, LateUploads <- TRUE,
            Calls <- {"aput"},
            Tasks <- {"delete_thread", "adelete_thread"},
            PruneBase <- FALSE,
            latest <- cLatest, markers <- cMarkers, metas <- cMetas, values <- cValues,
            versions <- cVersions, used <- cUsed, put <- cPut, late <- cLate,
            rd <- cRd, mt <- cMt

\* A read beside prunes and collections.
Reads == INSTANCE BlobCheckpointSaver_proofs
       WITH Ids <- {1, 2}, Channels <- {only}, LateUploads <- FALSE,
            Calls <- {"aput", "aget", "alist"},
            Tasks <- {"delete_before", "collect", "dry_run"},
            PruneBase <- FALSE,
            latest <- cLatest, markers <- cMarkers, metas <- cMetas, values <- cValues,
            versions <- cVersions, used <- cUsed, put <- cPut, late <- cLate,
            rd <- cRd, mt <- cMt

\* A read of the newest beside retention; what it reads of the values is all one to it.
Newest == INSTANCE BlobCheckpointSaver_proofs
       WITH Channels <- {}, LateUploads <- FALSE,
            Calls <- {"put", "get"},
            Tasks <- {"delete_old"},
            PruneBase <- FALSE,
            latest <- cLatest, markers <- cMarkers, metas <- cMetas, values <- cValues,
            versions <- cVersions, used <- cUsed, put <- cPut, late <- cLate,
            rd <- cRd, mt <- cMt

\* A list with every limit and bound.
ListsOf == INSTANCE BlobCheckpointSaver_proofs
       WITH Channels <- {}, LateUploads <- FALSE,
            Calls <- {"put", "list"},
            Tasks <- {"delete_before"},
            PruneBase <- FALSE,
            latest <- cLatest, markers <- cMarkers, metas <- cMetas, values <- cValues,
            versions <- cVersions, used <- cUsed, put <- cPut, late <- cLate,
            rd <- cRd, mt <- cMt

ASSUME IdsAreTimes == Saves!IdsPositive

Symmetry == Permutations({ch1, ch2})

--------------------------------------------------------------------------------
SaverInit ==
  /\ Init
  /\ \/ scene \in {"pending writes", "saves"} /\ Saves!Init
     \/ scene = "late" /\ Late!Init
     \/ scene = "reads" /\ Reads!Init
     \/ scene = "newest" /\ Newest!Init
     \/ scene = "lists" /\ ListsOf!Init

SaverNext ==
  /\ UNCHANGED scene
  /\ \/ scene = "pending writes" /\ Next /\ UNCHANGED cVars
     \/ scene = "saves" /\ Saves!Next /\ UNCHANGED vars
     \/ scene = "late" /\ Late!Next /\ UNCHANGED vars
     \/ scene = "reads" /\ Reads!Next /\ UNCHANGED vars
     \/ scene = "newest" /\ Newest!Next /\ UNCHANGED vars
     \/ scene = "lists" /\ ListsOf!Next /\ UNCHANGED vars

SaverSpec == SaverInit /\ [][SaverNext]_<<scene, vars, cVars>>

--------------------------------------------------------------------------------
TwoChannels == scene \in {"pending writes", "saves", "late"}

\* See BlobCheckpointSaver: a checkpoint that exists is whole, whatever else goes on.
CommittedComplete ==
  IF TwoChannels THEN Saves!CommittedComplete
  ELSE IF scene \in {"lists", "newest"} THEN ListsOf!CommittedComplete ELSE Reads!CommittedComplete

\* See BlobCheckpointSaver: the pointer of puts that are not late.
HintIsNewest == scene # "late" => Saves!HintIsNewest

\* See BlobCheckpointSaver: a checkpoint that is read has all of its values, and a list
\* holds what its bound and limit ask for.
ReadsFaithful ==
  /\ scene = "reads" => Reads!ReadComplete
  /\ scene = "lists" => ListsOf!ListExact

\* See CheckpointHistory: puts and reads of the newest are those of a history.
RefinesHistory == Newest!RefinesHistory
================================================================================
