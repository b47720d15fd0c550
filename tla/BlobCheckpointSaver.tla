-------------------------- MODULE BlobCheckpointSaver --------------------------
(***************************************************************************)
(* AzureBlobCheckpointSaver (checkpointers/azure_blob.py): checkpoints of  *)
(* one thread and namespace as blobs, written one upload at a time by a    *)
(* single writer that may stop anywhere, read without a lock, pruned, and  *)
(* their channel values garbage-collected.                                 *)
(*                                                                         *)
(* A checkpoint exists if its marker, checkpoint.bin, does. latest.json    *)
(* names a checkpoint only when it is clean: absent, dirty, legacy and     *)
(* malformed are all NoId to every reader. The value of a channel that a   *)
(* put changes has a version of its own (get_next_version).                *)
(***************************************************************************)
EXTENDS Integers, Sequences, FiniteSets, FiniteSetsExt, SequencesExt

CONSTANTS Ids,         \* checkpoint ids: times, which need not grow from put to put
          Channels,
          Calls,       \* the puts and reads of this instance
          LateUploads, \* the last upload of a stopped put may still arrive
          PruneBase,   \* a checkpoint may be pruned while a run builds on it
          Tasks        \* the maintenance of this instance

IdsPositive == Ids \subseteq Nat \ {0}
FlagsBoolean == LateUploads \in BOOLEAN /\ PruneBase \in BOOLEAN

VARIABLES
  latest,   \* latest.json
  markers,  \* ids with a checkpoint.bin
  metas,    \* ids with a metadata.bin
  values,   \* channel value blobs: channel and version
  versions, \* versions[c]: channel_versions of checkpoint c, 0 for none
  used,     \* ids already given out
  put,      \* the put at work
  late,     \* uploads of stopped puts that are still on their way
  rd,       \* the read at work
  mt        \* the maintenance at work

blobVars == <<latest, markers, metas, values>>
vars == <<blobVars, versions, used, put, late, rd, mt>>

NoId == 0

Newest(S) == Max(S \cup {NoId})

Blobs == Channels \X Ids

\* The value blobs a checkpoint needs.
Needs(c) == {<<ch, versions[c][ch]>> : ch \in {x \in Channels : versions[c][x] # 0}}

Puts ==
  [pc : {"idle", "reading", "dirty", "values", "meta", "marker", "clean"},
   id : Ids \cup {NoId}, base : Ids \cup {NoId}, current : Ids \cup {NoId},
   todo : SUBSET Channels, call : {"none", "put", "aput"}]

Rds ==
  [pc : {"idle", "hint", "scan", "checkpoint", "values", "metadata", "next"},
   kind : {"none", "get", "aget", "list", "alist"}, asked : Ids \cup {NoId},
   cur : Ids \cup {NoId}, sure : BOOLEAN, todo : SUBSET Ids, seen : SUBSET Ids,
   whole : BOOLEAN, out : Seq(Ids), limit : Nat,
   before : Ids \cup {NoId}, floor : Ids \cup {NoId}, shaken : BOOLEAN]

Mts ==
  [pc : {"idle", "marker", "meta", "latest", "values", "scan", "list", "peek", "rescan",
         "delete"},
   op : Tasks \cup {"none"}, todo : SUBSET Ids, cutoff : SUBSET Blobs,
   retained : SUBSET Blobs, orphans : SUBSET Blobs, doomed : SUBSET Blobs]

TypeOK ==
  /\ latest \in Ids \cup {NoId} /\ markers \subseteq Ids /\ metas \subseteq Ids
  /\ values \subseteq Blobs
  /\ versions \in [Ids -> [Channels -> Ids \cup {0}]] /\ used \subseteq Ids
  /\ put \in Puts /\ rd \in Rds /\ mt \in Mts
  /\ put.todo # {} => put.pc \in {"reading", "dirty", "values"}

NoPut == [pc |-> "idle", id |-> NoId, base |-> NoId, current |-> NoId, todo |-> {},
          call |-> "none"]

NoRead == [pc |-> "idle", kind |-> "none", asked |-> NoId, cur |-> NoId, sure |-> FALSE,
           todo |-> {}, seen |-> {}, whole |-> TRUE, out |-> <<>>, limit |-> 0,
           before |-> NoId, floor |-> NoId, shaken |-> FALSE]

NoTask == [pc |-> "idle", op |-> "none", todo |-> {}, cutoff |-> {}, retained |-> {},
           orphans |-> {}, doomed |-> {}]

Init ==
  /\ latest = NoId /\ markers = {} /\ metas = {} /\ values = {}
  /\ versions = [c \in Ids |-> [ch \in Channels |-> 0]]
  /\ used = {} /\ put = NoPut /\ late = {} /\ rd = NoRead /\ mt = NoTask

--------------------------------------------------------------------------------
(***************************************************************************)
(* put. new_versions are the channels that changed since the base; the     *)
(* ownership guard is checked before each upload, and a put that it stops  *)
(* is a put that stops there.                                              *)
(***************************************************************************)
\* get_next_version: the new checkpoint's own version for a channel it changes.
NextVersion(c, base, changed) ==
  [ch \in Channels |->
     IF ch \in changed THEN c ELSE IF base = NoId THEN 0 ELSE versions[base][ch]]

PutStarts(call, c, base, changed) ==
  /\ put.pc = "idle" /\ c \notin used
  /\ call \in Calls /\ call \in {"put", "aput"}
  /\ base \in markers \/ (base = NoId /\ markers = {})
  /\ PruneBase \/ base \notin mt.todo
  /\ mt.op \notin {"delete_thread", "adelete_thread"}
  /\ used' = used \cup {c}
  /\ versions' = [versions EXCEPT ![c] = NextVersion(c, base, changed)]
  /\ put' = [NoPut EXCEPT !.pc = "reading", !.id = c, !.base = base, !.todo = changed,
                          !.call = call]
  /\ UNCHANGED <<blobVars, late, rd, mt>>

\* The newest checkpoint so far: by the hint if it still exists, else by a scan.
PutReads ==
  /\ put.pc = "reading"
  /\ put' = [put EXCEPT !.pc = "dirty",
                        !.current = IF latest \in markers THEN latest ELSE Newest(markers)]
  /\ UNCHANGED <<blobVars, versions, used, late, rd, mt>>

\* Mutant of PutDirties: no dirty intent.
PutDirtiesNothing ==
  /\ put.pc = "dirty"
  /\ put' = [put EXCEPT !.pc = "values"]
  /\ UNCHANGED <<blobVars, versions, used, late, rd, mt>>

PutDirties ==
  /\ put.pc = "dirty"
  /\ latest' = NoId
  /\ put' = [put EXCEPT !.pc = "values"]
  /\ UNCHANGED <<markers, metas, values, versions, used, late, rd, mt>>

PutValue ==
  /\ put.pc = "values"
  /\ \/ \E ch \in put.todo :
          /\ values' = values \cup {<<ch, put.id>>}
          /\ put' = [put EXCEPT !.todo = @ \ {ch}]
     \/ /\ put.todo = {}
        /\ put' = [put EXCEPT !.pc = "meta"]
        /\ UNCHANGED values
  /\ UNCHANGED <<latest, markers, metas, versions, used, late, rd, mt>>

\* Mutant of PutMeta: the metadata is left for after the marker.
PutMetaSkipped ==
  /\ put.pc = "meta"
  /\ put' = [put EXCEPT !.pc = "marker"]
  /\ UNCHANGED <<blobVars, versions, used, late, rd, mt>>

PutMeta ==
  /\ put.pc = "meta"
  /\ metas' = metas \cup {put.id}
  /\ put' = [put EXCEPT !.pc = "marker"]
  /\ UNCHANGED <<latest, markers, values, versions, used, late, rd, mt>>

\* The commit.
PutMarker ==
  /\ put.pc = "marker"
  /\ markers' = markers \cup {put.id}
  /\ put' = [put EXCEPT !.pc = "clean"]
  /\ UNCHANGED <<latest, metas, values, versions, used, late, rd, mt>>

\* Mutant of PutCleans: the pointer may go back to an earlier id.
PutCleansOwn ==
  /\ put.pc = "clean"
  /\ latest' = put.id
  /\ put' = NoPut
  /\ UNCHANGED <<markers, metas, values, versions, used, late, rd, mt>>

\* latest.json is clean again, and does not go back.
PutCleans ==
  /\ put.pc = "clean"
  /\ latest' = Max({put.current, put.id})
  /\ put' = NoPut
  /\ UNCHANGED <<markers, metas, values, versions, used, late, rd, mt>>

\* The upload a put is about to make.
Upload ==
  CASE put.pc = "dirty" -> {[blob |-> "latest", id |-> NoId]}
    [] put.pc = "values" -> {[blob |-> "value", of |-> ch, id |-> put.id] : ch \in put.todo}
    [] put.pc = "meta" -> {[blob |-> "meta", id |-> put.id]}
    [] put.pc = "marker" -> {[blob |-> "marker", id |-> put.id]}
    [] put.pc = "clean" -> {[blob |-> "latest", id |-> Max({put.current, put.id})]}
    [] OTHER -> {}

(***************************************************************************)
(* A crash, a failed upload or a lost lock ends the put; the upload whose  *)
(* guard check had passed may arrive all the same.                         *)
(***************************************************************************)
PutStops ==
  /\ put.pc # "idle" /\ put' = NoPut
  /\ \/ UNCHANGED late
     \/ LateUploads /\ \E u \in Upload : late' = late \cup {u}
  /\ UNCHANGED <<blobVars, versions, used, rd, mt>>

Arrive(u) ==
  /\ u \in late /\ late' = late \ {u}
  /\ latest' = IF u.blob = "latest" THEN u.id ELSE latest
  /\ markers' = IF u.blob = "marker" THEN markers \cup {u.id} ELSE markers
  /\ metas' = IF u.blob = "meta" THEN metas \cup {u.id} ELSE metas
  /\ values' = IF u.blob = "value" THEN values \cup {<<u.of, u.id>>} ELSE values
  /\ UNCHANGED <<versions, used, put, rd, mt>>

PutSteps == PutReads \/ PutDirties \/ PutValue \/ PutMeta \/ PutMarker \/ PutCleans

Put == put.call = "put" /\ PutSteps

APut == put.call = "aput" /\ PutSteps

--------------------------------------------------------------------------------
(***************************************************************************)
(* get_tuple and list, with their async twins. The id asked for, the       *)
(* clean hint, or a scan of the markers. The metadata filter of list is    *)
(* left out.                                                               *)
(***************************************************************************)
Getting == rd.kind \in {"get", "aget"}

ReadStarts(k) ==
  /\ rd.pc = "idle" /\ k \in Calls
  /\ \/ /\ k \in {"get", "aget"}
        /\ \E c \in used \cup {NoId} :
             rd' = [NoRead EXCEPT !.kind = k, !.asked = c, !.cur = c, !.sure = (c # NoId),
                                  !.pc = IF c = NoId THEN "hint" ELSE "checkpoint",
                                  !.floor = IF c = NoId THEN Newest(markers) ELSE NoId]
     \/ /\ k \in {"list", "alist"}
        /\ \E n \in 0..Cardinality(Ids), b \in Ids \cup {NoId} :
             rd' = [NoRead EXCEPT !.kind = k, !.pc = "scan", !.limit = n, !.before = b]
  /\ UNCHANGED <<blobVars, versions, used, put, late, mt>>

ReadHint ==
  /\ rd.pc = "hint"
  /\ rd' = IF latest = NoId THEN [rd EXCEPT !.pc = "scan"]
           ELSE [rd EXCEPT !.pc = "checkpoint", !.cur = latest]
  /\ UNCHANGED <<blobVars, versions, used, put, late, mt>>

\* The caller has its answer, and only that is left of the read.
Answer(c) ==
  IF Getting THEN [NoRead EXCEPT !.kind = rd.kind, !.asked = rd.asked, !.cur = c]
  ELSE [rd EXCEPT !.pc = "idle", !.cur = c]

\* _find_latest_checkpoint_id, or _list_checkpoint_ids.
Scan ==
  /\ rd.pc = "scan"
  /\ rd' = IF ~Getting THEN [rd EXCEPT !.pc = "next", !.todo = markers, !.seen = markers]
           ELSE IF markers = {} THEN Answer(NoId)
           ELSE [rd EXCEPT !.pc = "checkpoint", !.cur = Newest(markers), !.sure = TRUE]
  /\ UNCHANGED <<blobVars, versions, used, put, late, mt>>

\* The next id of a list, newest first, that `before` admits.
NextListed ==
  /\ rd.pc = "next"
  /\ LET left == {c \in rd.todo : rd.before = NoId \/ c < rd.before} IN
       rd' = IF left = {} THEN Answer(NoId)
             ELSE [rd EXCEPT !.pc = "checkpoint", !.cur = Newest(left),
                             !.todo = left \ {Newest(left)}]
  /\ UNCHANGED <<blobVars, versions, used, put, late, mt>>

\* Nothing could be built: the hint was wrong, or there is nothing to answer.
NotBuilt ==
  IF ~Getting THEN [rd EXCEPT !.pc = "next"]
  ELSE IF rd.sure THEN Answer(NoId)
  ELSE [rd EXCEPT !.pc = "scan"]

\* Mutant of Built: the limit is looked at after the tuple is yielded.
BuiltThenLimited ==
  IF Getting THEN Answer(rd.cur)
  ELSE IF Len(rd.out) >= rd.limit THEN [Answer(NoId) EXCEPT !.out = Append(@, rd.cur)]
  ELSE [rd EXCEPT !.pc = "next", !.out = Append(@, rd.cur)]

\* A tuple: the answer of get_tuple, or one more of a list within its limit.
Built ==
  IF Getting THEN Answer(rd.cur)
  ELSE IF Len(rd.out) = rd.limit THEN Answer(NoId)
  ELSE [rd EXCEPT !.pc = "next", !.out = Append(@, rd.cur)]

\* _build_tuple: the marker, the values, and the metadata last. A value that
\* is missing is left out without a word.
LoadCheckpoint ==
  /\ rd.pc = "checkpoint"
  /\ rd' = IF rd.cur \in markers THEN [rd EXCEPT !.pc = "values"] ELSE NotBuilt
  /\ UNCHANGED <<blobVars, versions, used, put, late, mt>>

LoadChannelValues ==
  /\ rd.pc = "values"
  /\ rd' = [rd EXCEPT !.pc = "metadata", !.whole = Needs(rd.cur) \subseteq values]
  /\ UNCHANGED <<blobVars, versions, used, put, late, mt>>

LoadMetadata ==
  /\ rd.pc = "metadata"
  /\ rd' = IF rd.cur \in metas THEN Built ELSE NotBuilt
  /\ UNCHANGED <<blobVars, versions, used, put, late, mt>>

BuildTuple == LoadCheckpoint \/ LoadChannelValues \/ LoadMetadata

GetTuple == rd.kind = "get" /\ (ReadHint \/ Scan \/ BuildTuple)

AGetTuple == rd.kind = "aget" /\ (ReadHint \/ Scan \/ BuildTuple)

List == rd.kind = "list" /\ (Scan \/ NextListed \/ BuildTuple)

AList == rd.kind = "alist" /\ (Scan \/ NextListed \/ BuildTuple)

--------------------------------------------------------------------------------
(***************************************************************************)
(* Maintenance. A checkpoint loses its marker before its metadata (blobs   *)
(* are listed by name). It may stop anywhere.                              *)
(***************************************************************************)
Deleting == mt.op \in {"delete_thread", "adelete_thread"}

\* The reader at work is told, for the properties, that a checkpoint went.
Shake == rd' = [rd EXCEPT !.shaken = @ \/ rd.pc # "idle"]

\* Of the checkpoints listed, newest first, those to go.
Prunes(op, gone) ==
  /\ mt.pc = "idle" /\ op \in Tasks
  /\ PruneBase \/ put.base \notin gone
  /\ mt' = [NoTask EXCEPT !.op = op, !.pc = "marker", !.todo = gone]
  /\ UNCHANGED <<blobVars, versions, used, put, late, rd>>

DeleteCheckpointsBefore(cut) ==
  Prunes("delete_before", {c \in markers : c < cut})

DeleteOldCheckpoints(keep) ==
  Prunes("delete_old", {c \in markers : Cardinality({d \in markers : d > c}) >= keep})

\* Every blob of the thread, by name. No run is writing to it.
DeleteThreadStarts(op) ==
  /\ mt.pc = "idle" /\ op \in Tasks /\ put.pc = "idle" /\ late = {}
  /\ mt' = [NoTask EXCEPT !.op = op, !.pc = "marker", !.todo = markers \cup metas]
  /\ UNCHANGED <<blobVars, versions, used, put, late, rd>>

NextGone == IF Deleting THEN Min(mt.todo) ELSE Max(mt.todo)

DeleteMarker ==
  /\ mt.pc = "marker" /\ mt.todo # {}
  /\ markers' = markers \ {NextGone}
  /\ mt' = [mt EXCEPT !.pc = "meta"]
  /\ Shake
  /\ UNCHANGED <<latest, metas, values, versions, used, put, late>>

DeleteMeta ==
  /\ mt.pc = "meta"
  /\ metas' = metas \ {NextGone}
  /\ mt' = [mt EXCEPT !.pc = "marker", !.todo = @ \ {NextGone}]
  /\ UNCHANGED <<latest, markers, values, versions, used, put, late, rd>>

\* All checkpoints are gone: a prune ends; a thread's pointer and values follow.
CheckpointsGone ==
  /\ mt.pc = "marker" /\ mt.todo = {}
  /\ mt' = IF Deleting THEN [mt EXCEPT !.pc = "latest"] ELSE NoTask
  /\ UNCHANGED <<blobVars, versions, used, put, late, rd>>

DeleteLatest ==
  /\ mt.pc = "latest" /\ latest' = NoId
  /\ mt' = [mt EXCEPT !.pc = "values"]
  /\ UNCHANGED <<markers, metas, values, versions, used, put, late, rd>>

DeleteValues ==
  /\ mt.pc = "values"
  /\ \/ \E v \in values : values' = values \ {v} /\ UNCHANGED mt
     \/ values = {} /\ mt' = NoTask /\ UNCHANGED values
  /\ UNCHANGED <<latest, markers, metas, versions, used, put, late, rd>>

(***************************************************************************)
(* collect_orphaned_values. The cutoff is taken at the start: at the least *)
(* it spares what is written from then on.                                 *)
(***************************************************************************)
\* _collect_retained_versions, as of its listing.
Retained == UNION {Needs(c) : c \in markers}

CollectStarts(op) ==
  /\ mt.pc = "idle" /\ op \in Tasks /\ op \in {"collect", "dry_run"}
  /\ latest # NoId
  /\ mt' = [NoTask EXCEPT !.op = op, !.pc = "scan", !.cutoff = values]
  /\ UNCHANGED <<blobVars, versions, used, put, late, rd>>

CollectRetained ==
  /\ mt.pc = "scan"
  /\ mt' = [mt EXCEPT !.pc = "list", !.retained = Retained]
  /\ UNCHANGED <<blobVars, versions, used, put, late, rd>>

ListValueBlobs ==
  /\ mt.pc = "list"
  /\ LET orphans == (values \cap mt.cutoff) \ mt.retained IN
       mt' = IF mt.op = "dry_run" \/ orphans = {} THEN NoTask
             ELSE [mt EXCEPT !.pc = "peek", !.orphans = orphans]
  /\ UNCHANGED <<blobVars, versions, used, put, late, rd>>

PeekLatest ==
  /\ mt.pc = "peek"
  /\ mt' = IF mt.orphans = {} \/ latest = NoId THEN NoTask ELSE [mt EXCEPT !.pc = "rescan"]
  /\ UNCHANGED <<blobVars, versions, used, put, late, rd>>

\* The survivors are scanned again for each orphan, right before it goes.
RescanRetained ==
  /\ mt.pc = "rescan"
  /\ \E v \in mt.orphans :
       mt' = IF v \in Retained THEN [mt EXCEPT !.pc = "peek", !.orphans = @ \ {v}]
             ELSE [mt EXCEPT !.pc = "delete", !.orphans = @ \ {v}, !.doomed = {v}]
  /\ UNCHANGED <<blobVars, versions, used, put, late, rd>>

DeleteOrphan ==
  /\ mt.pc = "delete"
  /\ values' = values \ mt.doomed
  /\ mt' = [mt EXCEPT !.pc = "peek", !.doomed = {}]
  /\ UNCHANGED <<latest, markers, metas, versions, used, put, late, rd>>

MtStops ==
  /\ mt.pc # "idle" /\ mt' = NoTask
  /\ UNCHANGED <<blobVars, versions, used, put, late, rd>>

DeleteCheckpointBlobs == DeleteMarker \/ DeleteMeta

DeleteThread ==
  \/ DeleteThreadStarts("delete_thread")
  \/ mt.op = "delete_thread" /\ (CheckpointsGone \/ DeleteLatest \/ DeleteValues)

ADeleteThread ==
  \/ DeleteThreadStarts("adelete_thread")
  \/ mt.op = "adelete_thread" /\ (CheckpointsGone \/ DeleteLatest \/ DeleteValues)

DeleteCheckpoints ==
  \/ \E c \in Ids : DeleteCheckpointsBefore(c)
  \/ \E n \in 0..Cardinality(Ids) : DeleteOldCheckpoints(n)
  \/ ~Deleting /\ CheckpointsGone

CollectOrphanedValues ==
  \/ CollectStarts("collect") \/ CollectStarts("dry_run")
  \/ CollectRetained \/ ListValueBlobs \/ PeekLatest \/ RescanRetained \/ DeleteOrphan

Maintenance ==
  DeleteCheckpoints \/ DeleteCheckpointBlobs \/ DeleteThread \/ ADeleteThread
    \/ CollectOrphanedValues \/ MtStops

Next ==
  \/ \E k \in Calls, c \in Ids, b \in Ids \cup {NoId}, s \in SUBSET Channels :
       PutStarts(k, c, b, s)
  \/ Put \/ APut \/ PutStops
  \/ \E u \in late : Arrive(u)
  \/ \E k \in Calls : ReadStarts(k)
  \/ GetTuple \/ AGetTuple \/ List \/ AList
  \/ Maintenance

Spec == Init /\ [][Next]_vars

--------------------------------------------------------------------------------
\* put, delete_checkpoints_before, collect_orphaned_values: a checkpoint that
\* exists has its metadata and every channel value it names, its own and the
\* ones it shares with its ancestors, whatever stopped, and whatever was pruned
\* and collected while it was written.
CommittedComplete ==
  \A c \in markers : c \in metas /\ Needs(c) \subseteq values

\* put, latest.json: a clean pointer to a checkpoint that exists names the
\* newest one, though ids do not grow from put to put and puts stop anywhere.
HintIsNewest == latest \in markers => latest = Newest(markers)

\* get_tuple: a tuple has all its channel values if its checkpoint still exists
\* when it is answered; _load_channel_values says nothing of a missing one.
ReadComplete == rd.pc = "metadata" /\ rd.cur \in markers => rd.whole

\* list, alist: the newest `limit` of the checkpoints there were, in order, if
\* none was deleted meanwhile.
ListExact ==
  rd.pc = "idle" /\ rd.kind \in {"list", "alist"} /\ ~rd.shaken =>
    LET wanted == {c \in rd.seen : rd.before = NoId \/ c < rd.before} IN
      /\ Len(rd.out) = Min({rd.limit, Cardinality(wanted)})
      /\ \A i \in 1..Len(rd.out) :
           /\ rd.out[i] \in wanted
           /\ Cardinality({c \in wanted : c > rd.out[i]}) = i - 1

\* get_tuple: a read of the newest checkpoint.
ReadsNewest == Getting /\ rd.asked = NoId

History == INSTANCE CheckpointHistory WITH
  committed <- markers,
  reading <- ReadsNewest /\ rd.pc # "idle",
  floor <- IF ReadsNewest /\ rd.pc # "idle" THEN rd.floor ELSE NoId,
  shaken <- ReadsNewest /\ rd.pc # "idle" /\ rd.shaken,
  answer <- IF ReadsNewest /\ rd.pc = "idle" THEN rd.cur ELSE NoId

\* get_tuple, put: the saver keeps a history of checkpoints that a reader of
\* the newest one sees as of a moment of its read, dirty pointer or not.
RefinesHistory == History!Spec
================================================================================
