----------------------- MODULE BlobCheckpointSaver_proofs -----------------------
(***************************************************************************)
(* Proofs about BlobCheckpointSaver: a checkpoint that exists is whole and *)
(* is found, wherever puts stop, however late their uploads arrive, and    *)
(* whatever is pruned, deleted and collected meanwhile.                    *)
(*                                                                         *)
(* The assumptions on the constants are hypotheses of the theorems, since  *)
(* a run has several instances of the saver.                               *)
(***************************************************************************)
EXTENDS BlobCheckpointSaver, FiniteSetTheorems,
  WellFoundedInduction, TLAPS

--------------------------------------------------------------------------------
(***************************************************************************)
(* No checkpoint is pruned while a run builds on it, and where an upload   *)
(* may be late, nothing is collected: the values of a checkpoint that is   *)
(* committed late would not be known as needed.                            *)
(***************************************************************************)
Sheltered ==
  /\ IdsPositive /\ FlagsBoolean /\ ~PruneBase
  /\ LateUploads => "collect" \notin Tasks

AtWork == put.pc # "idle"

\* The put at work has yet to upload its marker.
Uncommitted == put.pc \in {"reading", "dirty", "values", "meta", "marker"}

\* The value blobs that only the put at work writes.
Own == {<<ch, put.id>> : ch \in Channels}

\* Nothing there is of an id that was not given out.
IdsKnown ==
  /\ IsFiniteSet(used)
  /\ markers \subseteq used /\ metas \subseteq used /\ mt.todo \subseteq used
  /\ rd.todo \subseteq used
  /\ \A v \in values \cup mt.cutoff : v[2] \in used
  /\ \A c \in used : \A ch \in Channels : versions[c][ch] \in used \cup {0}
  /\ AtWork => put.id \in used

\* What the put builds on stays, and what it needs is its own or of its base.
PutFits ==
  /\ AtWork => ~Deleting /\ put.base \in (markers \ mt.todo) \cup {NoId}
  /\ ~AtWork => put = NoPut
  /\ Uncommitted =>
       /\ put.id \notin markers \cup mt.todo
       /\ mt.op = "collect" => Own \cap mt.cutoff = {}
       /\ \A ch \in Channels : versions[put.id][ch] # 0 =>
            \/ versions[put.id][ch] = put.id /\ (ch \in put.todo \/ <<ch, put.id>> \in values)
            \/ put.base # NoId /\ versions[put.id][ch] = versions[put.base][ch]
  /\ put.pc \in {"reading", "dirty"} => Own \cap values = {}
  /\ put.pc = "marker" => put.id \in metas

\* A late marker is of a checkpoint that is whole.
LateFits ==
  /\ late # {} => LateUploads /\ ~Deleting
  /\ \A u \in late :
       /\ u.blob \in {"latest", "value", "meta", "marker"}
       /\ u.blob = "latest" => u.id \in Ids \cup {NoId}
       /\ u.blob = "value" => u.of \in Channels
       /\ u.blob # "latest" => u.id \in used /\ (AtWork => u.id # put.id)
       /\ u.blob = "marker" =>
            /\ u = [blob |-> "marker", id |-> u.id]
            /\ u.id \notin markers \cup mt.todo /\ u.id \in metas
            /\ Needs(u.id) \subseteq values

Collecting == mt.pc \in {"scan", "list", "peek", "rescan", "delete"}

\* The maintenance deletes metadata after the marker, values of a thread after
\* all of its markers, and no value that a checkpoint needs.
MtFits ==
  /\ mt.pc = "idle" => mt = NoTask
  /\ mt.pc = "meta" => mt.todo # {} /\ NextGone \notin markers
  /\ Deleting => ~Collecting
  /\ Deleting /\ mt.pc \in {"marker", "meta"} => markers \subseteq mt.todo
  /\ mt.pc \in {"latest", "values"} => Deleting /\ markers = {}
  /\ Collecting => mt.op \in Tasks \cap {"collect", "dry_run"} /\ mt.todo = {}
  /\ mt.pc \in {"peek", "rescan", "delete"} => mt.op = "collect"
  /\ mt.doomed # {} => mt.pc = "delete"
  /\ mt.orphans \cup mt.doomed \subseteq mt.cutoff
  /\ \A c \in markers : Needs(c) \cap mt.doomed = {}

\* The pointer is dirty until the put cleans it.
Dirty ==
  ~LateUploads /\ put.pc \in {"values", "meta", "marker", "clean"} => latest = NoId

Inv == TypeOK /\ IdsKnown /\ PutFits /\ LateFits /\ MtFits /\ Dirty /\ CommittedComplete

\* The put knows of the newest checkpoint but its own.
CurrentIsNewest ==
  put.pc \in {"dirty", "values", "meta", "marker", "clean"} =>
    \A c \in markers : c <= put.current \/ c = put.id

HintInv == HintIsNewest /\ CurrentIsNewest

\* A checkpoint that is being read was committed, and is committed once.
ReadOnce ==
  rd.pc \in {"values", "metadata"} =>
    /\ rd.cur \in used /\ (Uncommitted => rd.cur # put.id)
    /\ \A u \in late : u.blob = "marker" => rd.cur # u.id

ReadInv == ReadOnce /\ ReadComplete

\* The pointer names a checkpoint that was committed.
HintOld ==
  /\ latest \in used \cup {NoId} /\ put.current \in used \cup {NoId}
  /\ Uncommitted => latest # put.id

\* A read of the newest has seen none older than the newest when it began, and what
\* it found in a scan, or has begun to load, is still there, unless it was shaken.
NewestRead ==
  ReadsNewest /\ rd.pc # "idle" =>
    /\ rd.pc \in {"hint", "scan", "checkpoint", "values", "metadata"}
    /\ rd.pc = "hint" => ~rd.sure
    /\ ~rd.shaken => rd.floor \in markers \cup {NoId}
    /\ rd.pc \in {"checkpoint", "values", "metadata"} =>
         /\ rd.cur \in used /\ (Uncommitted => rd.cur # put.id)
         /\ ~rd.shaken =>
              /\ rd.cur \in markers => rd.cur >= rd.floor
              /\ rd.sure \/ rd.pc # "checkpoint" => rd.cur \in markers

HistoryInv == HintOld /\ NewestRead

Listing == rd.kind \in {"list", "alist"}

\* Of the checkpoints there were, those a list may hold; those it has yet to look at.
Wanted == {c \in rd.seen : rd.before = NoId \/ c < rd.before}

Left == {c \in rd.todo : rd.before = NoId \/ c < rd.before}

Taken == Wanted \ Left

\* A list holds what it has taken, newest first; the last is the one it is at.
ListInv ==
  Listing =>
    /\ rd.pc # "hint" /\ (rd.pc = "scan" => rd.out = <<>>)
    /\ rd.pc \in {"next", "checkpoint", "values", "metadata"} /\ ~rd.shaken =>
         /\ rd.seen \subseteq markers /\ rd.todo \subseteq rd.seen
         /\ \A c \in Left, d \in Taken : c < d
         /\ Len(rd.out) <= rd.limit
         /\ \A i \in 1..Len(rd.out) :
              /\ rd.out[i] \in Wanted
              /\ Cardinality({c \in Wanted : c > rd.out[i]}) = i - 1
         /\ Cardinality(Taken) = IF rd.pc = "next" THEN Len(rd.out) ELSE Len(rd.out) + 1
         /\ rd.pc # "next" => rd.cur \in Taken /\ \A d \in Taken : d = rd.cur \/ d > rd.cur
    /\ ListExact

--------------------------------------------------------------------------------
(***************************************************************************)
(* Finite sets of numbers have a greatest and a least element, which Max   *)
(* and Min choose.                                                         *)
(***************************************************************************)
LEMMA Least ==
  ASSUME NEW S \in SUBSET Nat, S # {}
  PROVE  \E x \in S : \A y \in S : x <= y
<1>1. PICK x \in S : \A y \in S : ~(<<y, x>> \in OpToRel(<, Nat))
  BY WFMin, NatLessThanWellFounded
<1>2. ASSUME NEW y \in S, y < x  PROVE FALSE
  <2>1. <<y, x>> \in OpToRel(<, Nat)
    BY <1>2 DEF OpToRel
  <2> QED  BY <1>1, <2>1
<1> QED  BY <1>2

\* The next blob of a thread deletion, by name.
LEMMA MinOf ==
  ASSUME NEW S \in SUBSET Nat, S # {}
  PROVE  Min(S) \in S /\ \A x \in S : Min(S) <= x
BY Least DEF Min

\* The newest checkpoint is the greatest id.
LEMMA MaxOf ==
  ASSUME NEW S \in SUBSET Nat, IsFiniteSet(S), S # {}
  PROVE  Max(S) \in S /\ \A x \in S : x <= Max(S)
<1> DEFINE Above(x) == {y \in S : y > x}
           T == {Cardinality(Above(x)) : x \in S}
<1>1. \A x \in S : IsFiniteSet(Above(x)) /\ Cardinality(Above(x)) \in Nat
  BY FS_Subset, FS_CardinalityType
<1>2. PICK m \in T : \A n \in T : m <= n
  <2>1. T \in SUBSET Nat /\ T # {}
    BY <1>1
  <2> HIDE DEF T
  <2> QED  BY <2>1, Least
<1>3. PICK x \in S : Cardinality(Above(x)) = m
  BY <1>2
<1>4. ASSUME NEW y \in S, y > x  PROVE FALSE
  <2>1. Above(y) \in SUBSET Above(x) /\ y \in Above(x) /\ y \notin Above(y)
    <3> HIDE DEF T
    <3>1. \A z \in S : z > y => z > x
      BY <1>4
    <3>2. Above(y) \subseteq Above(x)
      BY <3>1
    <3>3. y \in Above(x) /\ y \notin Above(y)
      BY <1>4
    <3> QED  BY <3>2, <3>3
  <2>2. Cardinality(Above(y)) <= Cardinality(Above(x))
        /\ Cardinality(Above(y)) # Cardinality(Above(x))
    <3> HIDE DEF Above
    <3> QED  BY <1>1, <2>1, FS_Subset
  <2>3. m <= Cardinality(Above(y))
    BY <1>2
  <2> QED  BY <1>1, <1>3, <2>2, <2>3
<1>5. \A y \in S : y <= x
  BY <1>4
<1> QED  BY <1>5 DEF Max

\* Newest is an element, or NoId if there is none.
LEMMA NewestOf ==
  ASSUME NEW S \in SUBSET (Nat \ {0}), IsFiniteSet(S)
  PROVE  /\ Newest(S) \in S \cup {NoId}
         /\ \A x \in S : x <= Newest(S)
         /\ S # {} => Newest(S) \in S
         /\ \A x \in S : (\A y \in S : y <= x) => x = Newest(S)
<1> DEFINE T == S \cup {NoId}
<1>1. T \in SUBSET Nat /\ IsFiniteSet(T) /\ T # {}
  BY FS_AddElement DEF NoId
<1>2. Max(T) \in T /\ \A x \in T : x <= Max(T)
  BY <1>1, MaxOf
<1>3. \A x \in S : x <= Newest(S) /\ x \in Nat \ {0}
  BY <1>2 DEF Newest
<1>4. Newest(S) \in S \cup {0}
  BY <1>2 DEF Newest, NoId
<1>5. Newest(S) \in Nat
  <2>1. \A x \in S : x \in Nat
    OBVIOUS
  <2> HIDE DEF T
  <2>2. CASE Newest(S) \in S
    BY <2>1, <2>2
  <2>3. CASE Newest(S) = 0
    BY <2>3
  <2> QED  BY <1>4, <2>2, <2>3
<1> HIDE DEF T
<1>6. S # {} => Newest(S) \in S
  <2>1. ASSUME NEW x \in S  PROVE Newest(S) # 0
    BY <1>3
  <2> QED  BY <1>4, <2>1
<1>7. ASSUME NEW x \in S, \A y \in S : y <= x  PROVE x = Newest(S)
  <2>1. Newest(S) <= x
    BY <1>6, <1>7
  <2>2. x <= Newest(S) /\ x \in Nat /\ Newest(S) \in Nat
    BY <1>3, <1>5
  <2> QED  BY <2>1, <2>2
<1> QED  BY <1>3, <1>4, <1>6, <1>7 DEF NoId

LEMMA MaxOfTwo ==
  ASSUME NEW m \in Nat, NEW n \in Nat
  PROVE  Max({m, n}) = IF m >= n THEN m ELSE n
<1>1. IsFiniteSet({m} \cup {n}) /\ {m} \cup {n} = {m, n}
  BY FS_Singleton, FS_AddElement
<1>2. Max({m, n}) \in {m, n} /\ \A x \in {m, n} : x <= Max({m, n})
  BY <1>1, MaxOf
<1> QED  BY <1>2

LEMMA MinOfTwo ==
  ASSUME NEW m \in Nat, NEW n \in Nat
  PROVE  Min({m, n}) = IF m <= n THEN m ELSE n
<1>1. Min({m, n}) \in {m, n} /\ \A x \in {m, n} : Min({m, n}) <= x
  BY MinOf
<1> QED  BY <1>1

--------------------------------------------------------------------------------
(***************************************************************************)
(* What a checkpoint needs.                                                *)
(***************************************************************************)
LEMMA NeedsIn ==
  ASSUME NEW c, NEW V
  PROVE  Needs(c) \subseteq V <=>
           \A ch \in Channels : versions[c][ch] # 0 => <<ch, versions[c][ch]>> \in V
BY DEF Needs

LEMMA NeedsOf ==
  ASSUME NEW c, NEW v \in Needs(c)
  PROVE  \E ch \in Channels : versions[c][ch] # 0 /\ v = <<ch, versions[c][ch]>>
BY DEF Needs

LEMMA NeedsKept ==
  ASSUME NEW c, versions'[c] = versions[c]
  PROVE  Needs(c)' = Needs(c)
BY DEF Needs

--------------------------------------------------------------------------------
(***************************************************************************)
(* Every step of the put keeps the invariant.                              *)
(***************************************************************************)
LEMMA PutStartsKeeps ==
  ASSUME Sheltered, Inv, NEW call \in Calls, NEW c \in Ids, NEW base \in Ids \cup {NoId},
         NEW changed \in SUBSET Channels, PutStarts(call, c, base, changed)
  PROVE  Inv'
<1> USE DEF Inv
<1>1. /\ put.pc = "idle" /\ c \notin used /\ call \in {"put", "aput"}
      /\ base \in (markers \ mt.todo) \cup {NoId} /\ ~Deleting
      /\ used' = used \cup {c}
      /\ versions' = [versions EXCEPT ![c] = NextVersion(c, base, changed)]
      /\ put' = [NoPut EXCEPT !.pc = "reading", !.id = c, !.base = base, !.todo = changed,
                              !.call = call]
      /\ UNCHANGED <<blobVars, late, rd, mt>>
  BY DEF PutStarts, Sheltered, Deleting
<1>2. c # 0 /\ c \in Nat
  BY DEF Sheltered, IdsPositive
<1>3. \A d \in used : versions'[d] = versions[d] /\ Needs(d)' = Needs(d)
  BY <1>1, NeedsKept DEF TypeOK
<1>4. \A ch \in Channels :
        versions'[c][ch] = IF ch \in changed THEN c
                           ELSE IF base = NoId THEN 0 ELSE versions[base][ch]
  BY <1>1 DEF TypeOK, NextVersion
<1>5. base # NoId => base \in used /\ base # c
  BY <1>1 DEF IdsKnown
<1>6. \A ch \in Channels : versions'[c][ch] \in used' \cup {0}
  BY <1>1, <1>4, <1>5 DEF IdsKnown
<1>7. TypeOK'
  <2>1. versions' \in [Ids -> [Channels -> Ids \cup {0}]]
    <3>1. NextVersion(c, base, changed) \in [Channels -> Ids \cup {0}]
      BY DEF NextVersion, TypeOK, NoId
    <3> QED  BY <1>1, <3>1 DEF TypeOK
  <2>2. put' \in Puts
    BY <1>1 DEF Puts, NoPut
  <2> QED  BY <1>1, <2>1, <2>2 DEF TypeOK, blobVars, NoPut
<1>8. IdsKnown'
  <2>1. IsFiniteSet(used')
    BY <1>1, FS_AddElement DEF IdsKnown
  <2>2. \A d \in used' : \A ch \in Channels : versions'[d][ch] \in used' \cup {0}
    BY <1>1, <1>3, <1>6 DEF IdsKnown
  <2> QED  BY <1>1, <2>1, <2>2 DEF IdsKnown, blobVars, AtWork, NoPut
<1>9. PutFits'
  <2>1. put'.pc = "reading" /\ put'.id = c /\ put'.base = base /\ put'.todo = changed
    BY <1>1 DEF NoPut
  <2>2. c \notin markers \cup mt.todo
    BY <1>1 DEF IdsKnown
  <2>3. Own' \cap mt.cutoff = {} /\ Own' \cap values = {}
    BY <1>1, <2>1 DEF IdsKnown, Own
  <2>4. base # NoId => versions'[base] = versions[base]
    BY <1>3, <1>5
  <2> QED  BY <1>1, <1>4, <2>1, <2>2, <2>3, <2>4
           DEF PutFits, AtWork, Uncommitted, Deleting, blobVars
<1>10. LateFits'
  BY <1>1, <1>3 DEF LateFits, AtWork, Deleting, NoPut, blobVars
<1>11. MtFits'
  <2>1. \A d \in markers : Needs(d)' = Needs(d)
    BY <1>3 DEF IdsKnown
  <2> QED  BY <1>1, <2>1 DEF MtFits, Deleting, Collecting, blobVars, NextGone
<1>12. Dirty'
  BY <1>1 DEF Dirty, NoPut
<1>13. CommittedComplete'
  <2>1. \A d \in markers : Needs(d)' = Needs(d)
    BY <1>3 DEF IdsKnown
  <2> QED  BY <1>1, <2>1 DEF CommittedComplete, blobVars
<1> QED  BY <1>7, <1>8, <1>9, <1>10, <1>11, <1>12, <1>13

LEMMA IdsAreNat ==
  ASSUME Sheltered, NEW c \in Ids \cup {NoId}
  PROVE  c \in Nat
<1>1. CASE c \in Ids
  BY <1>1 DEF Sheltered, IdsPositive
<1>2. CASE c = NoId
  BY <1>2 DEF NoId
<1> QED  BY <1>1, <1>2

\* The ids there are have a newest.
LEMMA NewestMarker ==
  ASSUME Sheltered, TypeOK, IdsKnown
  PROVE  /\ Newest(markers) \in markers \cup {NoId}
         /\ \A c \in markers : c <= Newest(markers)
         /\ markers # {} => Newest(markers) \in markers
         /\ \A c \in markers : (\A d \in markers : d <= c) => c = Newest(markers)
<1>1. IsFiniteSet(markers)
  BY FS_Subset DEF IdsKnown
<1>2. markers \in SUBSET (Nat \ {0})
  BY DEF TypeOK, Sheltered, IdsPositive
<1> QED  BY <1>1, <1>2, NewestOf

LEMMA PutReadsKeeps ==
  ASSUME Sheltered, Inv, PutReads
  PROVE  Inv'
<1> USE DEF Inv
<1>1. put.pc = "reading" /\ put'.pc = "dirty" /\ UNCHANGED <<blobVars, versions, used, late, rd, mt>>
      /\ put'.id = put.id /\ put'.base = put.base /\ put'.todo = put.todo
  BY DEF PutReads, TypeOK, Puts
<1>2. \A c \in Ids : Needs(c)' = Needs(c)
  BY <1>1, NeedsKept
<1>3. TypeOK'
  <2>1. (IF latest \in markers THEN latest ELSE Newest(markers)) \in Ids \cup {NoId}
    BY NewestMarker DEF TypeOK
  <2>2. put' \in Puts
    BY <2>1 DEF PutReads, TypeOK, Puts
  <2> QED  BY <1>1, <2>2 DEF TypeOK, blobVars
<1>4. IdsKnown'
  BY <1>1 DEF IdsKnown, blobVars, AtWork
<1>5. PutFits'
  BY <1>1 DEF PutFits, blobVars, AtWork, Uncommitted, Own, Deleting
<1>6. LateFits'
  BY <1>1, <1>2 DEF LateFits, blobVars, AtWork, Deleting, IdsKnown, TypeOK
<1>7. MtFits' /\ CommittedComplete'
  BY <1>1, <1>2 DEF MtFits, Deleting, Collecting, NextGone, blobVars, CommittedComplete, TypeOK
<1>8. Dirty'
  BY <1>1 DEF Dirty
<1> QED  BY <1>3, <1>4, <1>5, <1>6, <1>7, <1>8

LEMMA PutDirtiesKeeps ==
  ASSUME Sheltered, Inv, PutDirties
  PROVE  Inv'
<1> USE DEF Inv
<1>1. /\ put.pc = "dirty" /\ put'.pc = "values" /\ latest' = NoId
      /\ UNCHANGED <<markers, metas, values, versions, used, late, rd, mt>>
      /\ put'.id = put.id /\ put'.base = put.base /\ put'.todo = put.todo
      /\ put' \in Puts
  BY DEF PutDirties, TypeOK, Puts
<1>2. \A c \in Ids : Needs(c)' = Needs(c)
  BY <1>1, NeedsKept
<1>3. TypeOK'
  BY <1>1 DEF TypeOK
<1>4. IdsKnown'
  BY <1>1 DEF IdsKnown, AtWork
<1>5. PutFits'
  BY <1>1 DEF PutFits, AtWork, Uncommitted, Own, Deleting
<1>6. LateFits'
  BY <1>1, <1>2 DEF LateFits, AtWork, Deleting, IdsKnown, TypeOK
<1>7. MtFits' /\ CommittedComplete'
  BY <1>1, <1>2 DEF MtFits, Deleting, Collecting, NextGone, CommittedComplete, TypeOK
<1>8. Dirty'
  BY <1>1 DEF Dirty
<1> QED  BY <1>3, <1>4, <1>5, <1>6, <1>7, <1>8

LEMMA PutValueKeeps ==
  ASSUME Sheltered, Inv, PutValue
  PROVE  Inv'
<1> USE DEF Inv
<1>1. /\ put.pc = "values" /\ put'.pc \in {"values", "meta"}
      /\ UNCHANGED <<latest, markers, metas, versions, used, late, rd, mt>>
      /\ put'.id = put.id /\ put'.base = put.base /\ put' \in Puts
      /\ put'.pc = "meta" => put'.todo = {}
      /\ put.id \in used
  BY DEF PutValue, TypeOK, Puts, IdsKnown, AtWork
<1>2. /\ values \subseteq values' /\ values' \subseteq values \cup Own
      /\ \A ch \in Channels : ch \in put.todo => ch \in put'.todo \/ <<ch, put.id>> \in values'
  BY DEF PutValue, TypeOK, Puts, Own
<1>3. \A c \in Ids : Needs(c)' = Needs(c)
  BY <1>1, NeedsKept
<1>4. TypeOK'
  BY <1>1, <1>2 DEF TypeOK, Own, Blobs, Puts
<1>5. IdsKnown'
  BY <1>1, <1>2 DEF IdsKnown, AtWork, Own
<1>6. PutFits'
  <2>1. Own' = Own
    BY <1>1 DEF Own
  <2>2. \A ch \in Channels : versions[put.id][ch] # 0 =>
            \/ versions[put.id][ch] = put.id /\ (ch \in put'.todo \/ <<ch, put.id>> \in values')
            \/ put.base # NoId /\ versions[put.id][ch] = versions[put.base][ch]
    BY <1>1, <1>2 DEF PutFits, Uncommitted
  <2> QED  BY <1>1, <2>1, <2>2 DEF PutFits, AtWork, Uncommitted, Deleting
<1>7. LateFits'
  BY <1>1, <1>2, <1>3 DEF LateFits, AtWork, Deleting, IdsKnown, TypeOK
<1>8. MtFits' /\ CommittedComplete'
  BY <1>1, <1>2, <1>3 DEF MtFits, Deleting, Collecting, NextGone, CommittedComplete, TypeOK
<1>9. Dirty'
  BY <1>1 DEF Dirty
<1> QED  BY <1>4, <1>5, <1>6, <1>7, <1>8, <1>9

LEMMA PutMetaKeeps ==
  ASSUME Sheltered, Inv, PutMeta
  PROVE  Inv'
<1> USE DEF Inv
<1>1. /\ put.pc = "meta" /\ put'.pc = "marker" /\ metas' = metas \cup {put.id}
      /\ UNCHANGED <<latest, markers, values, versions, used, late, rd, mt>>
      /\ put'.id = put.id /\ put'.base = put.base /\ put'.todo = put.todo
      /\ put' \in Puts /\ put.todo = {} /\ put.id \in used
  BY DEF PutMeta, TypeOK, Puts, IdsKnown, AtWork
<1>2. \A c \in Ids : Needs(c)' = Needs(c)
  BY <1>1, NeedsKept
<1>3. TypeOK'
  BY <1>1 DEF TypeOK, IdsKnown
<1>4. IdsKnown'
  BY <1>1 DEF IdsKnown, AtWork
<1>5. PutFits'
  BY <1>1 DEF PutFits, AtWork, Uncommitted, Own, Deleting
<1>6. LateFits'
  BY <1>1, <1>2 DEF LateFits, AtWork, Deleting, IdsKnown, TypeOK
<1>7. MtFits' /\ CommittedComplete'
  BY <1>1, <1>2 DEF MtFits, Deleting, Collecting, NextGone, CommittedComplete, TypeOK
<1>8. Dirty'
  BY <1>1 DEF Dirty
<1> QED  BY <1>3, <1>4, <1>5, <1>6, <1>7, <1>8

\* What a put that has uploaded its values needs is there, its own and its base's.
LEMMA PutIsWhole ==
  ASSUME Sheltered, Inv, put.pc = "marker"
  PROVE  put.id \in metas /\ Needs(put.id) \subseteq values
<1> USE DEF Inv
<1>1. put.todo = {} /\ put.id \in metas /\ put.base \in (markers \ mt.todo) \cup {NoId}
  BY DEF TypeOK, PutFits, AtWork
<1>2. ASSUME NEW ch \in Channels, versions[put.id][ch] # 0
      PROVE  <<ch, versions[put.id][ch]>> \in values
  <2>1. CASE versions[put.id][ch] = put.id /\ <<ch, put.id>> \in values
    BY <2>1
  <2>2. CASE put.base # NoId /\ versions[put.id][ch] = versions[put.base][ch]
    <3>1. put.base \in markers
      BY <1>1, <2>2
    <3>2. Needs(put.base) \subseteq values
      BY <3>1 DEF CommittedComplete
    <3> QED  BY <1>2, <2>2, <3>2, NeedsIn
  <2> QED  BY <1>1, <1>2, <2>1, <2>2 DEF PutFits, Uncommitted
<1> QED  BY <1>1, <1>2, NeedsIn

\* The put's values are not about to be deleted: the base's are needed, and its
\* own are younger than the collection.
LEMMA PutIsNotDoomed ==
  ASSUME Sheltered, Inv, put.pc = "marker"
  PROVE  Needs(put.id) \cap mt.doomed = {}
<1> USE DEF Inv
<1>1. put.todo = {} /\ put.base \in (markers \ mt.todo) \cup {NoId}
  BY DEF TypeOK, PutFits, AtWork
<1>2. ASSUME NEW v \in Needs(put.id), v \in mt.doomed
      PROVE  FALSE
  <2>1. PICK ch \in Channels : versions[put.id][ch] # 0 /\ v = <<ch, versions[put.id][ch]>>
    BY NeedsOf
  <2>2. CASE versions[put.id][ch] = put.id
    <3>1. v \in Own
      BY <2>1, <2>2 DEF Own
    <3> QED  BY <1>2, <3>1 DEF PutFits, Uncommitted, MtFits
  <2>3. CASE put.base # NoId /\ versions[put.id][ch] = versions[put.base][ch]
    <3>1. put.base \in markers
      BY <1>1, <2>3
    <3>2. v \in Needs(put.base)
      BY <2>1, <2>3 DEF Needs
    <3> QED  BY <1>2, <3>1, <3>2 DEF MtFits
  <2> QED  BY <2>1, <2>2, <2>3 DEF PutFits, Uncommitted
<1> QED  BY <1>2

LEMMA PutMarkerKeeps ==
  ASSUME Sheltered, Inv, PutMarker
  PROVE  Inv'
<1> USE DEF Inv
<1>1. /\ put.pc = "marker" /\ put'.pc = "clean" /\ markers' = markers \cup {put.id}
      /\ UNCHANGED <<latest, metas, values, versions, used, late, rd, mt>>
      /\ put'.id = put.id /\ put'.base = put.base /\ put'.todo = put.todo
      /\ put' \in Puts /\ put.todo = {} /\ put.id \in used /\ ~Deleting
      /\ put.id \notin mt.todo
  BY DEF PutMarker, TypeOK, Puts, IdsKnown, AtWork, PutFits, Uncommitted
<1>2. \A c \in Ids : Needs(c)' = Needs(c)
  BY <1>1, NeedsKept
<1>3. TypeOK'
  BY <1>1 DEF TypeOK, IdsKnown
<1>4. IdsKnown'
  BY <1>1 DEF IdsKnown, AtWork
<1>5. PutFits'
  BY <1>1 DEF PutFits, AtWork, Uncommitted, Own, Deleting
<1>6. LateFits'
  <2>1. \A u \in late : u.blob = "marker" => u.id # put.id
    BY <1>1 DEF LateFits, AtWork
  <2> QED  BY <1>1, <1>2, <2>1 DEF LateFits, AtWork, Deleting, IdsKnown, TypeOK
<1>7. MtFits'
  <2>1. \A c \in markers' : Needs(c)' \cap mt.doomed = {}
    BY <1>1, <1>2, PutIsNotDoomed DEF MtFits, TypeOK, IdsKnown
  <2>2. mt.pc = "meta" => NextGone \notin markers'
    <3>1. mt.pc = "meta" => NextGone \in mt.todo
      <4>1. mt.todo \in SUBSET Nat /\ IsFiniteSet(mt.todo)
        BY FS_Subset DEF IdsKnown, TypeOK, Sheltered, IdsPositive
      <4> QED  BY <4>1, MaxOf, MinOf DEF MtFits, NextGone
    <3> QED  BY <1>1, <3>1 DEF MtFits
  <2> QED  BY <1>1, <2>1, <2>2 DEF MtFits, Deleting, Collecting, NextGone
<1>8. CommittedComplete'
  BY <1>1, <1>2, PutIsWhole DEF CommittedComplete, TypeOK, IdsKnown
<1>9. Dirty'
  BY <1>1 DEF Dirty
<1> QED  BY <1>3, <1>4, <1>5, <1>6, <1>7, <1>8, <1>9

LEMMA PutCleansKeeps ==
  ASSUME Sheltered, Inv, PutCleans
  PROVE  Inv'
<1> USE DEF Inv
<1>1. /\ put.pc = "clean" /\ put' = NoPut /\ latest' = Max({put.current, put.id})
      /\ UNCHANGED <<markers, metas, values, versions, used, late, rd, mt>>
  BY DEF PutCleans
<1>2. \A c \in Ids : Needs(c)' = Needs(c)
  BY <1>1, NeedsKept
<1>3. TypeOK'
  <2>1. put.current \in Nat /\ put.id \in Nat
    BY IdsAreNat DEF TypeOK, Puts
  <2>2. latest' \in Ids \cup {NoId}
    BY <1>1, <2>1, MaxOfTwo DEF TypeOK, Puts
  <2> QED  BY <1>1, <2>2 DEF TypeOK, NoPut, Puts
<1>4. IdsKnown'
  BY <1>1 DEF IdsKnown, AtWork, NoPut
<1>5. PutFits'
  BY <1>1 DEF PutFits, AtWork, Uncommitted, NoPut
<1>6. LateFits'
  BY <1>1, <1>2 DEF LateFits, AtWork, Deleting, IdsKnown, TypeOK, NoPut
<1>7. MtFits' /\ CommittedComplete'
  BY <1>1, <1>2 DEF MtFits, Deleting, Collecting, NextGone, CommittedComplete, TypeOK
<1>8. Dirty'
  BY <1>1 DEF Dirty, NoPut
<1> QED  BY <1>3, <1>4, <1>5, <1>6, <1>7, <1>8

LEMMA PutStopsKeeps ==
  ASSUME Sheltered, Inv, PutStops
  PROVE  Inv'
<1> USE DEF Inv
<1>1. /\ put.pc # "idle" /\ put' = NoPut
      /\ late' = late \/ (LateUploads /\ \E u \in Upload : late' = late \cup {u})
      /\ UNCHANGED <<blobVars, versions, used, rd, mt>>
  BY DEF PutStops
<1>2. \A c \in Ids : Needs(c)' = Needs(c)
  BY <1>1, NeedsKept
<1>3. TypeOK'
  BY <1>1 DEF TypeOK, NoPut, Puts, blobVars
<1>4. IdsKnown'
  BY <1>1 DEF IdsKnown, AtWork, NoPut, blobVars
<1>5. PutFits'
  BY <1>1 DEF PutFits, AtWork, Uncommitted, NoPut, blobVars
<1>6. LateFits'
  <2>1. put'.pc = "idle"
    BY <1>1 DEF NoPut
  <2>2. CASE late' = late
    BY <1>1, <1>2, <2>1, <2>2 DEF LateFits, AtWork, Deleting, IdsKnown, TypeOK, blobVars
  <2>3. ASSUME LateUploads, NEW u \in Upload, late' = late \cup {u}
        PROVE  LateFits'
    <3>1. /\ u.blob \in {"latest", "value", "meta", "marker"}
          /\ u.blob = "latest" => u.id \in Ids \cup {NoId}
          /\ u.blob = "value" => u.of \in Channels
          /\ u.blob # "latest" => u.id = put.id
          /\ u.blob = "marker" => put.pc = "marker" /\ u = [blob |-> "marker", id |-> u.id]
      <4>1. put.current \in Nat /\ put.id \in Nat
        BY IdsAreNat DEF TypeOK, Puts
      <4>2. Max({put.current, put.id}) \in Ids \cup {NoId}
        BY <4>1, MaxOfTwo DEF TypeOK, Puts
      <4> QED  BY <2>3, <4>2 DEF Upload, TypeOK, Puts
    <3>2. put.id \in used /\ ~Deleting
      BY <1>1 DEF IdsKnown, PutFits, AtWork
    <3>3. put.pc = "marker" =>
            put.id \notin markers \cup mt.todo /\ put.id \in metas /\ Needs(put.id) \subseteq values
      BY PutIsWhole DEF PutFits, Uncommitted
    <3> QED  BY <1>1, <1>2, <2>1, <2>3, <3>1, <3>2, <3>3
             DEF LateFits, AtWork, Deleting, IdsKnown, TypeOK, blobVars
  <2> QED  BY <1>1, <2>2, <2>3
<1>7. MtFits' /\ CommittedComplete'
  BY <1>1, <1>2 DEF MtFits, Deleting, Collecting, NextGone, CommittedComplete, TypeOK, blobVars
<1>8. Dirty'
  BY <1>1 DEF Dirty, NoPut
<1> QED  BY <1>3, <1>4, <1>5, <1>6, <1>7, <1>8

\* A checkpoint about to lose its blobs.
LEMMA NextGoneIn ==
  ASSUME Sheltered, TypeOK, IdsKnown, mt.todo # {}
  PROVE  NextGone \in mt.todo
<1>1. mt.todo \in SUBSET Nat /\ IsFiniteSet(mt.todo)
  BY FS_Subset DEF IdsKnown, TypeOK, Sheltered, IdsPositive
<1> QED  BY <1>1, MaxOf, MinOf DEF NextGone

LEMMA ArriveKeeps ==
  ASSUME Sheltered, Inv, NEW u \in late, Arrive(u)
  PROVE  Inv'
<1> USE DEF Inv
<1>1. /\ late' = late \ {u} /\ UNCHANGED <<versions, used, put, rd, mt>>
      /\ latest' = IF u.blob = "latest" THEN u.id ELSE latest
      /\ markers' = IF u.blob = "marker" THEN markers \cup {u.id} ELSE markers
      /\ metas' = IF u.blob = "meta" THEN metas \cup {u.id} ELSE metas
      /\ values' = IF u.blob = "value" THEN values \cup {<<u.of, u.id>>} ELSE values
  BY DEF Arrive
<1>2. \A c \in Ids : Needs(c)' = Needs(c)
  BY <1>1, NeedsKept
<1>3. /\ LateUploads /\ ~Deleting /\ mt.doomed = {} /\ u.blob \in {"latest", "value", "meta", "marker"}
      /\ u.blob # "latest" => u.id \in used /\ (AtWork => u.id # put.id)
      /\ u.blob = "marker" => /\ u = [blob |-> "marker", id |-> u.id] /\ u.id \in metas
                              /\ u.id \notin markers \cup mt.todo /\ Needs(u.id) \subseteq values
  <2>1. late # {} /\ LateUploads /\ ~Deleting
    BY DEF LateFits
  <2>2. mt.doomed = {}
    BY <2>1 DEF Sheltered, MtFits, Collecting
  <2> QED  BY <2>1, <2>2 DEF LateFits
<1>4. metas \subseteq metas' /\ values \subseteq values'
  BY <1>1
<1>5. TypeOK'
  BY <1>1, <1>3 DEF TypeOK, LateFits, Blobs
<1>6. IdsKnown'
  BY <1>1, <1>3 DEF IdsKnown, AtWork
<1>7. PutFits'
  <2>1. Own' = Own /\ (AtWork => Own \cap values' \subseteq values)
    BY <1>1, <1>3 DEF Own
  <2>2. Uncommitted => put.id \notin markers' \cup mt.todo
    BY <1>1, <1>3 DEF PutFits, Uncommitted, AtWork
  <2>3. AtWork => put.base \in (markers' \ mt.todo) \cup {NoId}
    BY <1>1 DEF PutFits
  <2> QED  BY <1>1, <1>4, <2>1, <2>2, <2>3 DEF PutFits, AtWork, Uncommitted, Deleting
<1>8. LateFits'
  <2>1. ASSUME NEW w \in late', w.blob = "marker"
        PROVE  w.id \notin markers' \cup mt.todo
    <3>1. w \in late /\ w # u /\ w = [blob |-> "marker", id |-> w.id]
          /\ w.id \notin markers \cup mt.todo
      BY <1>1, <2>1 DEF LateFits
    <3> QED  BY <1>1, <1>3, <3>1
  <2>2. \A w \in late : w.blob = "marker" => w.id \in Ids
    BY DEF LateFits, TypeOK
  <2> QED  BY <1>1, <1>2, <1>4, <2>1, <2>2 DEF LateFits, AtWork, Deleting
<1>9. MtFits'
  <2>1. mt.pc = "meta" => NextGone \notin markers'
    BY <1>1, <1>3, NextGoneIn DEF MtFits
  <2> QED  BY <1>1, <1>3, <2>1 DEF MtFits, Deleting, Collecting, NextGone
<1>10. Dirty'
  BY <1>3 DEF Dirty
<1>11. CommittedComplete'
  BY <1>1, <1>2, <1>3, <1>4 DEF CommittedComplete, TypeOK, IdsKnown
<1> QED  BY <1>5, <1>6, <1>7, <1>8, <1>9, <1>10, <1>11

--------------------------------------------------------------------------------
(***************************************************************************)
(* A reader changes nothing but its own state.                             *)
(***************************************************************************)
LEMMA OnlyReads ==
  ASSUME Inv, rd' \in Rds, rd'.todo \subseteq used,
         UNCHANGED <<blobVars, versions, used, put, late, mt>>
  PROVE  Inv'
<1> USE DEF Inv, blobVars
<1>1. \A c \in Ids : Needs(c)' = Needs(c)
  BY NeedsKept
<1>2. TypeOK'
  BY DEF TypeOK
<1>3. IdsKnown' /\ PutFits' /\ Dirty'
  BY DEF IdsKnown, PutFits, AtWork, Uncommitted, Own, Deleting, Dirty
<1>4. LateFits'
  BY <1>1 DEF LateFits, AtWork, Deleting, IdsKnown, TypeOK
<1>5. MtFits' /\ CommittedComplete'
  BY <1>1 DEF MtFits, Deleting, Collecting, NextGone, CommittedComplete, TypeOK
<1> QED  BY <1>2, <1>3, <1>4, <1>5

LEMMA ReadStartsKeeps ==
  ASSUME Sheltered, Inv, NEW k \in Calls, ReadStarts(k)
  PROVE  Inv'
<1>1. /\ NoRead \in Rds /\ NoRead.todo = {} /\ Newest(markers) \in Ids \cup {NoId}
      /\ used \subseteq Ids
  BY NewestMarker DEF NoRead, Rds, Inv, TypeOK
<1>2. CASE k \in {"get", "aget"}
  <2>1. PICK c \in used \cup {NoId} :
          rd' = [NoRead EXCEPT !.kind = k, !.asked = c, !.cur = c, !.sure = (c # NoId),
                               !.pc = IF c = NoId THEN "hint" ELSE "checkpoint",
                               !.floor = IF c = NoId THEN Newest(markers) ELSE NoId]
    BY <1>2 DEF ReadStarts
  <2>2. rd' \in Rds /\ rd'.todo \subseteq used
    BY <1>1, <1>2, <2>1 DEF Rds
  <2> QED  BY <2>2, OnlyReads DEF ReadStarts
<1>3. CASE k \in {"list", "alist"}
  <2>1. PICK n \in 0..Cardinality(Ids), b \in Ids \cup {NoId} :
          rd' = [NoRead EXCEPT !.kind = k, !.pc = "scan", !.limit = n, !.before = b]
    BY <1>3 DEF ReadStarts
  <2>2. n \in Nat
    OBVIOUS
  <2>3. rd' \in Rds /\ rd'.todo \subseteq used
    BY <1>1, <1>3, <2>1, <2>2 DEF Rds
  <2> QED  BY <2>3, OnlyReads DEF ReadStarts
<1> QED  BY <1>2, <1>3 DEF ReadStarts

Reading == ReadHint \/ Scan \/ (~Getting /\ NextListed) \/ BuildTuple

\* The ids a list has yet to look at have a newest.
LEMMA NewestLeft ==
  ASSUME Sheltered, TypeOK, IdsKnown, NEW left \in SUBSET rd.todo
  PROVE  /\ Newest(left) \in left \cup {NoId}
         /\ \A c \in left : c <= Newest(left)
         /\ left # {} => Newest(left) \in left
<1>1. left \subseteq used
  BY DEF IdsKnown
<1>2. IsFiniteSet(left) /\ left \in SUBSET (Nat \ {0})
  BY <1>1, FS_Subset DEF IdsKnown, TypeOK, Sheltered, IdsPositive
<1> QED  BY <1>2, NewestOf

LEMMA ReadingKeeps ==
  ASSUME Sheltered, Inv, Reading
  PROVE  Inv'
<1> USE DEF Inv
<1>1. /\ rd \in Rds /\ markers \subseteq Ids /\ latest \in Ids \cup {NoId}
      /\ rd.cur \in Ids \cup {NoId} /\ rd.todo \subseteq used /\ used \subseteq Ids
  BY DEF TypeOK, IdsKnown, Rds
<1>2. ASSUME NEW c \in Ids \cup {NoId}
      PROVE  Answer(c) \in Rds /\ Answer(c).todo \subseteq used
  <2>1. NoRead \in Rds /\ NoRead.todo = {}
    BY DEF NoRead, Rds
  <2> QED  BY <1>1, <2>1 DEF Answer, Rds
<1>3. NotBuilt \in Rds /\ NotBuilt.todo \subseteq used
  BY <1>1, <1>2 DEF NotBuilt, Rds
<1>4. CASE ReadHint
  <2>1. rd' \in Rds /\ rd'.todo \subseteq used
    BY <1>1, <1>4 DEF ReadHint, Rds
  <2> QED  BY <1>4, <2>1, OnlyReads DEF ReadHint
<1>5. CASE Scan
  <2>1. Newest(markers) \in Ids \cup {NoId} /\ markers \subseteq used
    BY <1>1, NewestMarker DEF IdsKnown
  <2>2. rd' \in Rds /\ rd'.todo \subseteq used
    BY <1>1, <1>2, <1>5, <2>1 DEF Scan, Rds
  <2> QED  BY <1>5, <2>2, OnlyReads DEF Scan
<1>6. CASE NextListed
  <2> DEFINE left == {c \in rd.todo : rd.before = NoId \/ c < rd.before}
  <2>1. rd' = IF left = {} THEN Answer(NoId)
              ELSE [rd EXCEPT !.pc = "checkpoint", !.cur = Newest(left),
                              !.todo = left \ {Newest(left)}]
    BY <1>6 DEF NextListed
  <2>2. left \in SUBSET rd.todo
    OBVIOUS
  <2> HIDE DEF left
  <2>3. Newest(left) \in Ids \cup {NoId}
    BY <1>1, <2>2, NewestLeft
  <2>4. rd' \in Rds /\ rd'.todo \subseteq used
    BY <1>1, <1>2, <2>1, <2>2, <2>3 DEF Rds
  <2> QED  BY <1>6, <2>4, OnlyReads DEF NextListed
<1>7. CASE LoadCheckpoint
  <2>1. rd' \in Rds /\ rd'.todo \subseteq used
    BY <1>1, <1>3, <1>7 DEF LoadCheckpoint, Rds
  <2> QED  BY <1>7, <2>1, OnlyReads DEF LoadCheckpoint
<1>8. CASE LoadChannelValues
  <2>1. rd' \in Rds /\ rd'.todo \subseteq used
    BY <1>1, <1>8 DEF LoadChannelValues, Rds
  <2> QED  BY <1>8, <2>1, OnlyReads DEF LoadChannelValues
<1>9. CASE LoadMetadata
  <2>1. rd.cur \in metas => Built \in Rds /\ Built.todo \subseteq used
    <3>1. rd.cur \in metas => Append(rd.out, rd.cur) \in Seq(Ids)
      BY <1>1 DEF Rds, TypeOK
    <3> QED  BY <1>1, <1>2, <3>1 DEF Built, Rds
  <2>2. rd' \in Rds /\ rd'.todo \subseteq used
    BY <1>3, <1>9, <2>1 DEF LoadMetadata
  <2> QED  BY <1>9, <2>2, OnlyReads DEF LoadMetadata
<1> QED  BY <1>4, <1>5, <1>6, <1>7, <1>8, <1>9 DEF Reading, BuildTuple

--------------------------------------------------------------------------------
(***************************************************************************)
(* The maintenance keeps it. A step of its own state that forgets tasks    *)
(* and blobs to spare, and adds none, disturbs only MtFits.                *)
(***************************************************************************)
LEMMA OnlyTask ==
  ASSUME Sheltered, Inv, mt' \in Mts, MtFits', mt'.todo \subseteq mt.todo,
         mt'.cutoff \subseteq mt.cutoff, mt'.op \in {mt.op, "none"},
         UNCHANGED <<blobVars, versions, used, put, late, rd>>
  PROVE  Inv'
<1> USE DEF Inv, blobVars
<1>1. \A c \in Ids : Needs(c)' = Needs(c)
  BY NeedsKept
<1>2. Deleting' => Deleting
  BY DEF Deleting
<1>3. TypeOK'
  BY DEF TypeOK
<1>4. IdsKnown' /\ Dirty'
  BY DEF IdsKnown, AtWork, Dirty
<1>5. PutFits'
  <2>1. mt'.op = "collect" => mt.op = "collect"
    OBVIOUS
  <2> QED  BY <1>2, <2>1 DEF PutFits, AtWork, Uncommitted, Own
<1>6. LateFits'
  BY <1>1, <1>2 DEF LateFits, AtWork, IdsKnown, TypeOK
<1>7. CommittedComplete'
  BY <1>1 DEF CommittedComplete, TypeOK
<1> QED  BY <1>3, <1>4, <1>5, <1>6, <1>7

LEMMA PrunesKeeps ==
  ASSUME Sheltered, Inv, NEW op \in {"delete_before", "delete_old"},
         NEW gone \in SUBSET markers, Prunes(op, gone)
  PROVE  Inv'
<1> USE DEF Inv
<1>1. /\ put.base \notin gone /\ op \in Tasks
      /\ mt' = [NoTask EXCEPT !.op = op, !.pc = "marker", !.todo = gone]
      /\ UNCHANGED <<blobVars, versions, used, put, late, rd>>
  BY DEF Prunes, Sheltered
<1>2. /\ mt'.op = op /\ mt'.pc = "marker" /\ mt'.todo = gone /\ mt'.cutoff = {}
      /\ mt'.orphans = {} /\ mt'.doomed = {} /\ ~Deleting'
  BY <1>1 DEF NoTask, Deleting
<1>3. \A c \in Ids : Needs(c)' = Needs(c)
  BY <1>1, NeedsKept
<1>4. TypeOK'
  BY <1>1 DEF TypeOK, Mts, NoTask, blobVars
<1>5. IdsKnown' /\ Dirty'
  BY <1>1, <1>2 DEF IdsKnown, AtWork, Dirty, blobVars
<1>6. PutFits'
  BY <1>1, <1>2 DEF PutFits, AtWork, Uncommitted, Own, blobVars
<1>7. LateFits'
  BY <1>1, <1>2, <1>3 DEF LateFits, AtWork, IdsKnown, TypeOK, blobVars
<1>8. MtFits'
  BY <1>1, <1>2 DEF MtFits, Collecting
<1>9. CommittedComplete'
  BY <1>1, <1>3 DEF CommittedComplete, TypeOK, blobVars
<1> QED  BY <1>4, <1>5, <1>6, <1>7, <1>8, <1>9

LEMMA DeleteThreadStartsKeeps ==
  ASSUME Sheltered, Inv, NEW op \in {"delete_thread", "adelete_thread"},
         DeleteThreadStarts(op)
  PROVE  Inv'
<1> USE DEF Inv
<1>1. /\ put.pc = "idle" /\ late = {} /\ op \in Tasks
      /\ mt' = [NoTask EXCEPT !.op = op, !.pc = "marker", !.todo = markers \cup metas]
      /\ UNCHANGED <<blobVars, versions, used, put, late, rd>>
  BY DEF DeleteThreadStarts
<1>2. /\ mt'.op = op /\ mt'.pc = "marker" /\ mt'.todo = markers \cup metas /\ mt'.cutoff = {}
      /\ mt'.orphans = {} /\ mt'.doomed = {}
  BY <1>1 DEF NoTask
<1>3. \A c \in Ids : Needs(c)' = Needs(c)
  BY <1>1, NeedsKept
<1>4. TypeOK'
  BY <1>1 DEF TypeOK, Mts, NoTask, blobVars
<1>5. IdsKnown' /\ Dirty'
  BY <1>1, <1>2 DEF IdsKnown, AtWork, Dirty, blobVars
<1>6. PutFits' /\ LateFits'
  BY <1>1 DEF PutFits, AtWork, Uncommitted, LateFits
<1>7. MtFits'
  BY <1>1, <1>2 DEF MtFits, Collecting, blobVars
<1>8. CommittedComplete'
  BY <1>1, <1>3 DEF CommittedComplete, TypeOK, blobVars
<1> QED  BY <1>4, <1>5, <1>6, <1>7, <1>8

LEMMA DeleteMarkerKeeps ==
  ASSUME Sheltered, Inv, DeleteMarker
  PROVE  Inv'
<1> USE DEF Inv
<1>1. /\ mt.pc = "marker" /\ mt.todo # {} /\ markers' = markers \ {NextGone}
      /\ mt' = [mt EXCEPT !.pc = "meta"] /\ rd' = [rd EXCEPT !.shaken = @ \/ rd.pc # "idle"]
      /\ UNCHANGED <<latest, metas, values, versions, used, put, late>>
  BY DEF DeleteMarker, Shake
<1>2. NextGone \in mt.todo
  BY <1>1, NextGoneIn
<1>3. /\ mt' \in Mts /\ mt'.pc = "meta" /\ mt'.op = mt.op /\ mt'.todo = mt.todo
      /\ mt'.cutoff = mt.cutoff /\ mt'.orphans = mt.orphans /\ mt'.doomed = mt.doomed
  BY <1>1 DEF TypeOK, Mts
<1>4. rd' \in Rds /\ rd'.todo = rd.todo
  BY <1>1 DEF TypeOK, Rds
<1>5. \A c \in Ids : Needs(c)' = Needs(c)
  BY <1>1, NeedsKept
<1>6. TypeOK'
  BY <1>1, <1>3, <1>4 DEF TypeOK
<1>7. IdsKnown' /\ Dirty'
  BY <1>1, <1>3, <1>4 DEF IdsKnown, AtWork, Dirty
<1>8. PutFits'
  <2>1. \A c : c \in markers \ mt.todo => c \in markers' \ mt'.todo
    BY <1>1, <1>2, <1>3
  <2> QED  BY <1>1, <1>3, <2>1 DEF PutFits, AtWork, Uncommitted, Own, Deleting
<1>9. LateFits'
  BY <1>1, <1>3, <1>5 DEF LateFits, AtWork, Deleting, IdsKnown, TypeOK
<1>10. MtFits'
  <2>1. NextGone' = NextGone
    BY <1>3 DEF NextGone, Deleting
  <2> QED  BY <1>1, <1>3, <1>5, <2>1 DEF MtFits, Collecting, Deleting, TypeOK
<1>11. CommittedComplete'
  BY <1>1, <1>5 DEF CommittedComplete, TypeOK
<1> QED  BY <1>6, <1>7, <1>8, <1>9, <1>10, <1>11

LEMMA DeleteMetaKeeps ==
  ASSUME Sheltered, Inv, DeleteMeta
  PROVE  Inv'
<1> USE DEF Inv
<1>1. /\ mt.pc = "meta" /\ metas' = metas \ {NextGone}
      /\ mt' = [mt EXCEPT !.pc = "marker", !.todo = @ \ {NextGone}]
      /\ UNCHANGED <<latest, markers, values, versions, used, put, late, rd>>
  BY DEF DeleteMeta
<1>2. NextGone \in mt.todo /\ NextGone \notin markers
  BY <1>1, NextGoneIn DEF MtFits
<1>3. /\ mt' \in Mts /\ mt'.pc = "marker" /\ mt'.op = mt.op /\ mt'.todo = mt.todo \ {NextGone}
      /\ mt'.cutoff = mt.cutoff /\ mt'.orphans = mt.orphans /\ mt'.doomed = mt.doomed
  BY <1>1 DEF TypeOK, Mts
<1>4. \A c \in Ids : Needs(c)' = Needs(c)
  BY <1>1, NeedsKept
<1>5. TypeOK'
  BY <1>1, <1>3 DEF TypeOK
<1>6. IdsKnown' /\ Dirty'
  BY <1>1, <1>3 DEF IdsKnown, AtWork, Dirty
<1>7. PutFits'
  <2>1. Uncommitted => put.id # NextGone
    BY <1>2 DEF PutFits
  <2> QED  BY <1>1, <1>3, <2>1 DEF PutFits, AtWork, Uncommitted, Own, Deleting
<1>8. LateFits'
  BY <1>1, <1>2, <1>3, <1>4 DEF LateFits, AtWork, Deleting, IdsKnown, TypeOK
<1>9. MtFits'
  BY <1>1, <1>2, <1>3, <1>4 DEF MtFits, Collecting, Deleting, TypeOK
<1>10. CommittedComplete'
  BY <1>1, <1>2, <1>4 DEF CommittedComplete, TypeOK
<1> QED  BY <1>5, <1>6, <1>7, <1>8, <1>9, <1>10

LEMMA CheckpointsGoneKeeps ==
  ASSUME Sheltered, Inv, CheckpointsGone
  PROVE  Inv'
<1> USE DEF Inv
<1>1. /\ mt.pc = "marker" /\ mt.todo = {}
      /\ mt' = IF Deleting THEN [mt EXCEPT !.pc = "latest"] ELSE NoTask
      /\ UNCHANGED <<blobVars, versions, used, put, late, rd>>
  BY DEF CheckpointsGone
<1>2. \A c \in Ids : Needs(c)' = Needs(c)
  BY <1>1, NeedsKept
<1>3. /\ mt' \in Mts /\ mt'.todo = {} /\ mt'.cutoff \subseteq mt.cutoff /\ mt'.op \in {mt.op, "none"}
      /\ mt'.doomed = {} /\ mt'.orphans \subseteq mt'.cutoff
  BY <1>1 DEF TypeOK, Mts, NoTask, MtFits
<1>4. MtFits'
  BY <1>1, <1>2, <1>3 DEF MtFits, Collecting, Deleting, NoTask, blobVars
<1> QED  BY <1>1, <1>3, <1>4, OnlyTask

LEMMA DeleteLatestKeeps ==
  ASSUME Sheltered, Inv, DeleteLatest
  PROVE  Inv'
<1> USE DEF Inv
<1>1. /\ mt.pc = "latest" /\ latest' = NoId /\ mt' = [mt EXCEPT !.pc = "values"]
      /\ UNCHANGED <<markers, metas, values, versions, used, put, late, rd>>
  BY DEF DeleteLatest
<1>2. /\ mt' \in Mts /\ mt'.pc = "values" /\ mt'.op = mt.op /\ mt'.todo = mt.todo
      /\ mt'.cutoff = mt.cutoff /\ mt'.orphans = mt.orphans /\ mt'.doomed = mt.doomed
  BY <1>1 DEF TypeOK, Mts
<1>3. Deleting /\ markers = {} /\ put = NoPut /\ late = {} /\ ~AtWork
  BY <1>1 DEF MtFits, PutFits, LateFits
<1>4. TypeOK' /\ CommittedComplete'
  BY <1>1, <1>2, <1>3 DEF TypeOK, CommittedComplete
<1>5. IdsKnown' /\ Dirty'
  BY <1>1, <1>2 DEF IdsKnown, AtWork, Dirty
<1>6. PutFits' /\ LateFits'
  BY <1>1, <1>3 DEF PutFits, AtWork, Uncommitted, LateFits, NoPut
<1>7. MtFits'
  BY <1>1, <1>2, <1>3 DEF MtFits, Collecting, Deleting
<1> QED  BY <1>4, <1>5, <1>6, <1>7

LEMMA DeleteValuesKeeps ==
  ASSUME Sheltered, Inv, DeleteValues
  PROVE  Inv'
<1> USE DEF Inv
<1>1. /\ mt.pc = "values" /\ values' \subseteq values /\ (mt' = mt \/ mt' = NoTask)
      /\ UNCHANGED <<latest, markers, metas, versions, used, put, late, rd>>
  BY DEF DeleteValues
<1>2. mt' \in Mts /\ mt'.todo \subseteq mt.todo /\ mt'.cutoff \subseteq mt.cutoff
  BY <1>1 DEF TypeOK, Mts, NoTask
<1>3. Deleting /\ markers = {} /\ put = NoPut /\ late = {} /\ ~AtWork
  BY <1>1 DEF MtFits, PutFits, LateFits
<1>4. TypeOK' /\ CommittedComplete'
  BY <1>1, <1>2, <1>3 DEF TypeOK, CommittedComplete
<1>5. IdsKnown' /\ Dirty'
  BY <1>1, <1>2 DEF IdsKnown, AtWork, Dirty
<1>6. PutFits' /\ LateFits'
  BY <1>1, <1>3 DEF PutFits, AtWork, Uncommitted, LateFits, NoPut
<1>7. MtFits'
  BY <1>1, <1>3 DEF MtFits, Collecting, Deleting, NoTask
<1> QED  BY <1>4, <1>5, <1>6, <1>7

LEMMA CollectStartsKeeps ==
  ASSUME Sheltered, Inv, NEW op \in {"collect", "dry_run"}, CollectStarts(op)
  PROVE  Inv'
<1> USE DEF Inv
<1>1. /\ mt.pc = "idle" /\ latest # NoId /\ op \in Tasks
      /\ mt' = [NoTask EXCEPT !.op = op, !.pc = "scan", !.cutoff = values]
      /\ UNCHANGED <<blobVars, versions, used, put, late, rd>>
  BY DEF CollectStarts
<1>2. /\ mt'.op = op /\ mt'.pc = "scan" /\ mt'.todo = {} /\ mt'.cutoff = values
      /\ mt'.orphans = {} /\ mt'.doomed = {} /\ ~Deleting'
  BY <1>1 DEF NoTask, Deleting
<1>3. \A c \in Ids : Needs(c)' = Needs(c)
  BY <1>1, NeedsKept
<1>4. TypeOK'
  BY <1>1 DEF TypeOK, Mts, NoTask, blobVars
<1>5. IdsKnown' /\ Dirty'
  BY <1>1, <1>2 DEF IdsKnown, AtWork, Dirty, blobVars
<1>6. PutFits'
  <2>1. op = "collect" /\ Uncommitted => Own \cap values = {}
    <3>1. op = "collect" => ~LateUploads
      BY <1>1 DEF Sheltered
    <3> QED  BY <1>1, <3>1 DEF Dirty, Uncommitted, PutFits
  <2> QED  BY <1>1, <1>2, <2>1 DEF PutFits, AtWork, Uncommitted, Own, blobVars
<1>7. LateFits'
  BY <1>1, <1>2, <1>3 DEF LateFits, AtWork, IdsKnown, TypeOK, blobVars
<1>8. MtFits'
  BY <1>1, <1>2 DEF MtFits, Collecting
<1>9. CommittedComplete'
  BY <1>1, <1>3 DEF CommittedComplete, TypeOK, blobVars
<1> QED  BY <1>4, <1>5, <1>6, <1>7, <1>8, <1>9

\* The steps of a collection that only look.
LEMMA CollectLooksKeeps ==
  ASSUME Sheltered, Inv, CollectRetained \/ ListValueBlobs \/ PeekLatest \/ RescanRetained \/ MtStops
  PROVE  Inv'
<1> USE DEF Inv
<1>1. UNCHANGED <<blobVars, versions, used, put, late, rd>>
  BY DEF CollectRetained, ListValueBlobs, PeekLatest, RescanRetained, MtStops
<1>2. \A c \in Ids : Needs(c)' = Needs(c)
  BY <1>1, NeedsKept
<1>3. mt \in Mts /\ NoTask \in Mts
  BY DEF TypeOK, Mts, NoTask
<1>4. mt' = NoTask => Inv'
  <2> SUFFICES ASSUME mt' = NoTask  PROVE Inv'
    OBVIOUS
  <2>1. MtFits'
    BY DEF MtFits, NoTask, Deleting, Collecting
  <2> QED  BY <1>1, <1>3, <2>1, OnlyTask DEF NoTask
<1>5. CASE CollectRetained
  <2>1. \A c \in markers : Needs(c) \subseteq Blobs
    BY DEF Needs, Blobs, TypeOK
  <2>2. Retained \subseteq Blobs
    BY <2>1 DEF Retained
  <2>3. mt.pc = "scan" /\ mt' = [mt EXCEPT !.pc = "list", !.retained = Retained]
    BY <1>5 DEF CollectRetained
  <2>4. /\ mt' \in Mts /\ mt'.pc = "list" /\ mt'.todo = mt.todo /\ mt'.op = mt.op
        /\ mt'.cutoff = mt.cutoff /\ mt'.orphans = mt.orphans /\ mt'.doomed = mt.doomed
    BY <1>3, <2>2, <2>3 DEF Mts
  <2>5. MtFits'
    BY <1>1, <1>2, <2>3, <2>4 DEF MtFits, Deleting, Collecting, TypeOK, blobVars
  <2> QED  BY <1>1, <2>4, <2>5, OnlyTask
<1>6. CASE ListValueBlobs
  <2> DEFINE orphans == (values \cap mt.cutoff) \ mt.retained
  <2>1. mt.pc = "list"
        /\ mt' = IF mt.op = "dry_run" \/ orphans = {} THEN NoTask
                 ELSE [mt EXCEPT !.pc = "peek", !.orphans = orphans]
    BY <1>6 DEF ListValueBlobs
  <2>2. orphans \subseteq mt.cutoff /\ orphans \subseteq Blobs
    BY DEF TypeOK
  <2> HIDE DEF orphans
  <2>3. CASE mt' # NoTask
    <3>1. /\ mt' \in Mts /\ mt'.pc = "peek" /\ mt'.todo = mt.todo /\ mt'.op = mt.op
          /\ mt'.cutoff = mt.cutoff /\ mt'.orphans = orphans /\ mt'.doomed = mt.doomed
          /\ mt.op # "dry_run"
      BY <1>3, <2>1, <2>2, <2>3 DEF Mts
    <3>2. MtFits'
      BY <1>1, <1>2, <2>1, <2>2, <3>1 DEF MtFits, Deleting, Collecting, TypeOK, blobVars
    <3> QED  BY <1>1, <3>1, <3>2, OnlyTask
  <2> QED  BY <1>4, <2>3
<1>7. CASE PeekLatest
  <2>1. mt.pc = "peek"
        /\ mt' = IF mt.orphans = {} \/ latest = NoId THEN NoTask ELSE [mt EXCEPT !.pc = "rescan"]
    BY <1>7 DEF PeekLatest
  <2>2. CASE mt' # NoTask
    <3>1. /\ mt' \in Mts /\ mt'.pc = "rescan" /\ mt'.todo = mt.todo /\ mt'.op = mt.op
          /\ mt'.cutoff = mt.cutoff /\ mt'.orphans = mt.orphans /\ mt'.doomed = mt.doomed
      BY <1>3, <2>1, <2>2 DEF Mts
    <3>2. MtFits'
      BY <1>1, <1>2, <2>1, <3>1 DEF MtFits, Deleting, Collecting, TypeOK, blobVars
    <3> QED  BY <1>1, <3>1, <3>2, OnlyTask
  <2> QED  BY <1>4, <2>2
<1>8. CASE RescanRetained
  <2>1. PICK v \in mt.orphans :
          mt' = IF v \in Retained THEN [mt EXCEPT !.pc = "peek", !.orphans = @ \ {v}]
                ELSE [mt EXCEPT !.pc = "delete", !.orphans = @ \ {v}, !.doomed = {v}]
    BY <1>8 DEF RescanRetained
  <2>2. mt.pc = "rescan" /\ mt.doomed = {} /\ v \in mt.cutoff /\ v \in Blobs
    BY <1>3, <1>8 DEF RescanRetained, MtFits, Mts
  <2>3. /\ mt' \in Mts /\ mt'.todo = mt.todo /\ mt'.op = mt.op
        /\ mt'.cutoff = mt.cutoff /\ mt'.orphans \subseteq mt.orphans
        /\ \/ v \in Retained /\ mt'.pc = "peek" /\ mt'.doomed = {}
           \/ v \notin Retained /\ mt'.pc = "delete" /\ mt'.doomed = {v}
    BY <1>3, <2>1, <2>2 DEF Mts
  <2>4. \A c \in markers : Needs(c) \cap mt'.doomed = {}
    BY <2>3 DEF Retained
  <2>5. MtFits'
    <3>1. \A c \in markers' : Needs(c)' \cap mt'.doomed = {}
      BY <1>1, <1>2, <2>4 DEF TypeOK, blobVars
    <3> QED  BY <1>1, <2>2, <2>3, <3>1 DEF MtFits, Deleting, Collecting, blobVars
  <2> QED  BY <1>1, <2>3, <2>5, OnlyTask
<1>9. CASE MtStops
  BY <1>4, <1>9 DEF MtStops
<1> QED  BY <1>5, <1>6, <1>7, <1>8, <1>9

LEMMA DeleteOrphanKeeps ==
  ASSUME Sheltered, Inv, DeleteOrphan
  PROVE  Inv'
<1> USE DEF Inv
<1>1. /\ mt.pc = "delete" /\ values' = values \ mt.doomed
      /\ mt' = [mt EXCEPT !.pc = "peek", !.doomed = {}]
      /\ UNCHANGED <<latest, markers, metas, versions, used, put, late, rd>>
  BY DEF DeleteOrphan
<1>2. /\ mt' \in Mts /\ mt'.pc = "peek" /\ mt'.op = mt.op /\ mt'.todo = mt.todo
      /\ mt'.cutoff = mt.cutoff /\ mt'.orphans = mt.orphans /\ mt'.doomed = {}
  BY <1>1 DEF TypeOK, Mts
<1>3. \A c \in Ids : Needs(c)' = Needs(c)
  BY <1>1, NeedsKept
<1>4. mt.op = "collect" /\ ~Deleting /\ ~LateUploads /\ late = {} /\ mt.doomed \subseteq mt.cutoff
  BY <1>1 DEF MtFits, Collecting, Sheltered, LateFits
<1>5. TypeOK'
  BY <1>1, <1>2 DEF TypeOK
<1>6. IdsKnown' /\ Dirty'
  BY <1>1, <1>2 DEF IdsKnown, AtWork, Dirty
<1>7. PutFits'
  <2>1. Uncommitted => Own \cap mt.doomed = {}
    BY <1>4 DEF PutFits
  <2>2. Uncommitted => \A ch \in Channels : <<ch, put.id>> \in values => <<ch, put.id>> \in values'
    BY <1>1, <2>1 DEF Own
  <2> QED  BY <1>1, <1>2, <2>2 DEF PutFits, AtWork, Uncommitted, Own, Deleting
<1>8. LateFits'
  BY <1>1, <1>4 DEF LateFits
<1>9. MtFits'
  BY <1>1, <1>2, <1>4 DEF MtFits, Collecting, Deleting
<1>10. CommittedComplete'
  BY <1>1, <1>3 DEF CommittedComplete, MtFits, TypeOK
<1> QED  BY <1>5, <1>6, <1>7, <1>8, <1>9, <1>10

--------------------------------------------------------------------------------
\* Init: no thread yet.
LEMMA InvInit ==
  ASSUME Sheltered, Init
  PROVE  Inv
<1> USE DEF Init
<1>1. TypeOK
  BY DEF TypeOK, NoPut, NoRead, NoTask, Puts, Rds, Mts, Blobs
<1>2. IdsKnown
  BY FS_EmptySet DEF IdsKnown, NoRead, NoTask, AtWork, NoPut
<1>3. PutFits /\ LateFits /\ Dirty /\ CommittedComplete
  BY DEF PutFits, LateFits, Dirty, AtWork, NoPut, Uncommitted, CommittedComplete
<1>4. MtFits
  BY DEF MtFits, NoTask, Deleting, Collecting
<1> QED  BY <1>1, <1>2, <1>3, <1>4 DEF Inv

\* Nothing is written, read or listed yet.
LEMMA RestInit ==
  ASSUME Init
  PROVE  HintInv /\ HistoryInv /\ ReadInv /\ ListInv
BY DEF Init, HintInv, HintIsNewest, CurrentIsNewest, HistoryInv, HintOld, NewestRead, ReadInv,
   ReadOnce, ReadComplete, ListInv, Listing, NoPut, NoRead, Uncommitted

\* The actions of Next, one by one.
LEMMA Steps ==
  ASSUME Next
  PROVE  \/ \E k \in Calls, c \in Ids, b \in Ids \cup {NoId}, s \in SUBSET Channels :
              PutStarts(k, c, b, s)
         \/ PutReads \/ PutDirties \/ PutValue \/ PutMeta \/ PutMarker \/ PutCleans \/ PutStops
         \/ \E u \in late : Arrive(u)
         \/ \E k \in Calls : ReadStarts(k)
         \/ Reading
         \/ \E op \in {"delete_before", "delete_old"}, gone \in SUBSET markers : Prunes(op, gone)
         \/ \E op \in {"delete_thread", "adelete_thread"} : DeleteThreadStarts(op)
         \/ DeleteMarker \/ DeleteMeta \/ CheckpointsGone \/ DeleteLatest \/ DeleteValues
         \/ \E op \in {"collect", "dry_run"} : CollectStarts(op)
         \/ CollectRetained \/ ListValueBlobs \/ PeekLatest \/ RescanRetained \/ MtStops
         \/ DeleteOrphan
<1>1. Put \/ APut => PutSteps
  BY DEF Put, APut
<1>2. GetTuple \/ AGetTuple \/ List \/ AList => Reading
  BY DEF GetTuple, AGetTuple, List, AList, Reading, Getting
<1>3. ASSUME DeleteCheckpoints
      PROVE  \/ \E op \in {"delete_before", "delete_old"}, gone \in SUBSET markers : Prunes(op, gone)
             \/ CheckpointsGone
  <2>1. ASSUME NEW c \in Ids, DeleteCheckpointsBefore(c)
        PROVE  \E gone \in SUBSET markers : Prunes("delete_before", gone)
    BY <2>1 DEF DeleteCheckpointsBefore
  <2>2. ASSUME NEW n \in 0..Cardinality(Ids), DeleteOldCheckpoints(n)
        PROVE  \E gone \in SUBSET markers : Prunes("delete_old", gone)
    <3> DEFINE gone == {c \in markers : Cardinality({d \in markers : d > c}) >= n}
    <3>1. Prunes("delete_old", gone)
      BY <2>2 DEF DeleteOldCheckpoints
    <3>2. gone \in SUBSET markers
      OBVIOUS
    <3> HIDE DEF gone
    <3> QED  BY <3>1, <3>2
  <2> QED  BY <1>3, <2>1, <2>2 DEF DeleteCheckpoints
<1>4. Maintenance =>
        \/ DeleteCheckpoints \/ DeleteMarker \/ DeleteMeta
        \/ DeleteThreadStarts("delete_thread") \/ DeleteThreadStarts("adelete_thread")
        \/ CheckpointsGone \/ DeleteLatest \/ DeleteValues
        \/ CollectStarts("collect") \/ CollectStarts("dry_run")
        \/ CollectRetained \/ ListValueBlobs \/ PeekLatest \/ RescanRetained \/ DeleteOrphan \/ MtStops
  BY DEF Maintenance, DeleteCheckpointBlobs, DeleteThread, ADeleteThread, CollectOrphanedValues
<1> QED  BY <1>1, <1>2, <1>3, <1>4 DEF Next, PutSteps

LEMMA InvNext ==
  ASSUME Sheltered, Inv, [Next]_vars
  PROVE  Inv'
<1>1. CASE UNCHANGED vars
  <2>1. rd' \in Rds /\ rd'.todo \subseteq used
    BY <1>1 DEF vars, Inv, TypeOK, IdsKnown
  <2> QED  BY <1>1, <2>1, OnlyReads DEF vars
<1>2. CASE Next
  BY <1>2, Steps, PutStartsKeeps, PutReadsKeeps, PutDirtiesKeeps, PutValueKeeps, PutMetaKeeps,
     PutMarkerKeeps, PutCleansKeeps, PutStopsKeeps, ArriveKeeps, ReadStartsKeeps, ReadingKeeps,
     PrunesKeeps, DeleteThreadStartsKeeps, DeleteMarkerKeeps, DeleteMetaKeeps,
     CheckpointsGoneKeeps, DeleteLatestKeeps, DeleteValuesKeeps, CollectStartsKeeps,
     CollectLooksKeeps, DeleteOrphanKeeps
<1> QED  BY <1>1, <1>2

\* The invariant: what each put, late upload and maintenance task relies on.
THEOREM Invariance ==
  ASSUME Sheltered
  PROVE  Spec => []Inv
<1>1. Init => Inv
  BY InvInit
<1>2. Inv /\ [Next]_vars => Inv'
  BY InvNext
<1> QED  BY <1>1, <1>2, PTL DEF Spec

\* Every variable stays of its type.
THEOREM TypeCorrect ==
  ASSUME Sheltered
  PROVE  Spec => []TypeOK
<1>1. Inv => TypeOK
  BY DEF Inv
<1> QED  BY <1>1, Invariance, PTL

\* put, delete_checkpoints_before, collect_orphaned_values: a checkpoint that exists has
\* its metadata and every channel value it names, wherever puts stop, however late their
\* uploads arrive, and whatever is pruned, deleted and collected meanwhile.
THEOREM CheckpointsAreWhole ==
  ASSUME Sheltered
  PROVE  Spec => []CommittedComplete
<1>1. Inv => CommittedComplete
  BY DEF Inv
<1> QED  BY <1>1, Invariance, PTL

--------------------------------------------------------------------------------
(***************************************************************************)
(* The pointer, where no upload is late.                                   *)
(***************************************************************************)
\* Checkpoints may go, and the put may move on, without its id and what it read.
LEMMA HintStays ==
  ASSUME Sheltered, Inv, Inv', HintInv, markers' \subseteq markers,
         latest' = latest \/ latest' \notin markers',
         \/ put'.pc \in {"idle", "reading"}
         \/ /\ put.pc \in {"dirty", "values", "meta", "marker", "clean"}
            /\ put'.id = put.id /\ put'.current = put.current
  PROVE  HintInv'
<1>1. CurrentIsNewest'
  BY DEF HintInv, CurrentIsNewest
<1>2. HintIsNewest'
  <2> SUFFICES ASSUME latest' \in markers'  PROVE latest' = Newest(markers)'
    BY DEF HintIsNewest
  <2>1. latest' = latest /\ latest = Newest(markers)
    BY DEF HintInv, HintIsNewest
  <2>2. \A c \in markers' : c <= latest'
    BY <2>1, NewestMarker DEF Inv
  <2>3. /\ IsFiniteSet(markers') /\ markers' \in SUBSET (Nat \ {0})
    BY FS_Subset DEF Inv, IdsKnown, TypeOK, Sheltered, IdsPositive
  <2>4. latest' = Newest(markers')
    BY <2>2, <2>3, NewestOf
  <2> QED  BY <2>4 DEF Newest
<1> QED  BY <1>1, <1>2 DEF HintInv

LEMMA HintNext ==
  ASSUME Sheltered, ~LateUploads, Inv, HintInv, [Next]_vars
  PROVE  HintInv'
<1>0. Inv'
  BY InvNext
<1>1. CASE PutReads
  <2>1. put'.pc = "dirty" /\ UNCHANGED <<latest, markers>>
        /\ put'.current = IF latest \in markers THEN latest ELSE Newest(markers)
    BY <1>1 DEF PutReads, Inv, TypeOK, Puts, blobVars
  <2>2. put'.current = Newest(markers)
    BY <2>1 DEF HintInv, HintIsNewest
  <2>3. CurrentIsNewest'
    BY <2>1, <2>2, NewestMarker DEF CurrentIsNewest, Inv
  <2>4. HintIsNewest'
    BY <2>1 DEF HintInv, HintIsNewest, Newest
  <2> QED  BY <2>3, <2>4 DEF HintInv
<1>2. CASE PutMarker
  <2>1. put'.pc = "clean" /\ markers' = markers \cup {put.id} /\ latest' = latest
        /\ put'.id = put.id /\ put'.current = put.current /\ put.pc = "marker"
    BY <1>2 DEF PutMarker, Inv, TypeOK, Puts
  <2>2. latest' = NoId /\ NoId \notin markers'
    BY <1>0, <2>1 DEF Inv, Dirty, TypeOK, Sheltered, IdsPositive, NoId
  <2> QED  BY <2>1, <2>2 DEF HintInv, HintIsNewest, CurrentIsNewest
<1>3. CASE PutCleans
  <2>1. put.pc = "clean" /\ put' = NoPut /\ markers' = markers
        /\ latest' = Max({put.current, put.id})
    BY <1>3 DEF PutCleans
  <2>2. \A c \in markers : c <= latest'
    <3>1. put.current \in Nat /\ put.id \in Nat
      BY IdsAreNat DEF Inv, TypeOK, Puts
    <3>2. put.current <= latest' /\ put.id <= latest' /\ latest' \in Nat
      BY <2>1, <3>1, MaxOfTwo
    <3>3. \A c \in markers : c \in Nat
      BY DEF Inv, TypeOK, Sheltered, IdsPositive
    <3> QED  BY <2>1, <3>1, <3>2, <3>3 DEF HintInv, CurrentIsNewest
  <2>3. latest' \in markers => latest' = Newest(markers)
    BY <2>2, NewestMarker DEF Inv
  <2> QED  BY <2>1, <2>3 DEF HintInv, HintIsNewest, CurrentIsNewest, NoPut, Newest
<1>4. CASE DeleteMarker \/ DeleteLatest \/ PutDirties
  <2>1. NoId \notin markers'
    BY <1>0 DEF Inv, TypeOK, Sheltered, IdsPositive, NoId
  <2>2. markers' \subseteq markers /\ (latest' = latest \/ latest' = NoId)
    BY <1>4 DEF DeleteMarker, DeleteLatest, PutDirties
  <2>3. \/ put' = put
        \/ put.pc = "dirty" /\ put'.id = put.id /\ put'.current = put.current
    BY <1>4 DEF DeleteMarker, DeleteLatest, PutDirties, Inv, TypeOK, Puts
  <2>4. put.pc \in {"idle", "reading", "dirty", "values", "meta", "marker", "clean"}
    BY DEF Inv, TypeOK, Puts
  <2> QED  BY <1>0, <2>1, <2>2, <2>3, <2>4, HintStays
<1>5. CASE \E u \in late : Arrive(u)
  BY <1>5 DEF Inv, LateFits
<1>6. CASE /\ UNCHANGED <<latest, markers>>
           /\ \/ put' = put \/ put'.pc \in {"idle", "reading"}
              \/ put.pc \in {"values", "meta"} /\ put'.id = put.id /\ put'.current = put.current
  <2>1. put.pc \in {"idle", "reading", "dirty", "values", "meta", "marker", "clean"}
    BY DEF Inv, TypeOK, Puts
  <2> QED  BY <1>0, <1>6, <2>1, HintStays
<1>7. PutValue \/ PutMeta =>
        /\ UNCHANGED <<latest, markers>> /\ put.pc \in {"values", "meta"}
        /\ put'.id = put.id /\ put'.current = put.current
  BY DEF PutValue, PutMeta, Inv, TypeOK, Puts
<1>8. (\/ \E k \in Calls, c \in Ids, b \in Ids \cup {NoId}, s \in SUBSET Channels :
            PutStarts(k, c, b, s)
       \/ PutStops)
      => UNCHANGED <<latest, markers>> /\ put'.pc \in {"idle", "reading"}
  <2>1. ASSUME NEW k \in Calls, NEW c \in Ids, NEW b \in Ids \cup {NoId}, NEW s \in SUBSET Channels,
               PutStarts(k, c, b, s)
        PROVE  UNCHANGED <<latest, markers>> /\ put'.pc = "reading"
    BY <2>1 DEF PutStarts, NoPut, blobVars
  <2> QED  BY <2>1 DEF PutStops, NoPut, blobVars
<1>9. Reading \/ (\E k \in Calls : ReadStarts(k)) => UNCHANGED <<latest, markers, put>>
  BY DEF Reading, ReadStarts, ReadHint, Scan, NextListed, BuildTuple, LoadCheckpoint,
     LoadChannelValues, LoadMetadata, blobVars
<1>10. (\/ \E op \in {"delete_before", "delete_old"}, gone \in SUBSET markers : Prunes(op, gone)
        \/ \E op \in {"delete_thread", "adelete_thread"} : DeleteThreadStarts(op)
        \/ DeleteMeta \/ CheckpointsGone \/ DeleteValues
        \/ \E op \in {"collect", "dry_run"} : CollectStarts(op)
        \/ CollectRetained \/ ListValueBlobs \/ PeekLatest \/ RescanRetained \/ MtStops
        \/ DeleteOrphan)
       => UNCHANGED <<latest, markers, put>>
  BY DEF Prunes, DeleteThreadStarts, DeleteMeta, CheckpointsGone, DeleteValues, CollectStarts,
     CollectRetained, ListValueBlobs, PeekLatest, RescanRetained, MtStops, DeleteOrphan, blobVars
<1>11. CASE UNCHANGED vars
  BY <1>6, <1>11 DEF vars, blobVars
<1>12. CASE Next
  BY <1>12, Steps, <1>1, <1>2, <1>3, <1>4, <1>5, <1>6, <1>7, <1>8, <1>9, <1>10
<1> QED  BY <1>11, <1>12

\* put, latest.json: where an upload does not outlive its put, a clean pointer to a
\* checkpoint that exists names the newest one, though ids do not grow from put to put.
THEOREM PointerIsNewest ==
  ASSUME Sheltered, ~LateUploads
  PROVE  Spec => []HintIsNewest
<1>1. Init => HintInv
  BY RestInit
<1>2. Inv /\ HintInv /\ [Next]_vars => HintInv'
  BY HintNext
<1>3. HintInv => HintIsNewest
  BY DEF HintInv
<1> QED  BY <1>1, <1>2, <1>3, Invariance, PTL DEF Spec

--------------------------------------------------------------------------------
(***************************************************************************)
(* What a reader has of a checkpoint.                                      *)
(***************************************************************************)
\* A checkpoint is committed by the put of its id, or by that put's late upload.
LEMMA Commits ==
  ASSUME Sheltered, Inv, [Next]_vars
  PROVE  /\ used \subseteq used'
         /\ \A c \in markers' \ markers :
              \/ Uncommitted /\ c = put.id
              \/ \E u \in late : u.blob = "marker" /\ u.id = c
         /\ Uncommitted' => (Uncommitted /\ put'.id = put.id) \/ put'.id \notin used
         /\ \A u \in late' \ late : u.blob = "marker" => Uncommitted /\ u.id = put.id
<1>1. ASSUME NEW k \in Calls, NEW c \in Ids, NEW b \in Ids \cup {NoId}, NEW s \in SUBSET Channels,
             PutStarts(k, c, b, s)
      PROVE  /\ UNCHANGED <<markers, late>> /\ used \subseteq used'
             /\ put'.id \notin used
  BY <1>1 DEF PutStarts, NoPut, blobVars
<1>2. PutReads \/ PutDirties \/ PutValue \/ PutMeta =>
        UNCHANGED <<markers, late, used>> /\ put'.id = put.id /\ Uncommitted
  BY DEF PutReads, PutDirties, PutValue, PutMeta, Inv, TypeOK, Puts, blobVars, Uncommitted
<1>3. PutMarker => /\ UNCHANGED <<late, used>> /\ Uncommitted /\ markers' = markers \cup {put.id}
                   /\ put'.pc = "clean"
  BY DEF PutMarker, Inv, TypeOK, Puts, Uncommitted
<1>4. PutCleans => UNCHANGED <<markers, late, used>> /\ put'.pc = "idle"
  BY DEF PutCleans, NoPut
<1>5. ASSUME PutStops
      PROVE  /\ UNCHANGED <<markers, used>> /\ put'.pc = "idle"
             /\ \A u \in late' \ late : u.blob = "marker" => Uncommitted /\ u.id = put.id
  <2>1. \A u \in Upload : u.blob = "marker" => Uncommitted /\ u.id = put.id
    BY DEF Upload, Uncommitted, Inv, TypeOK, Puts
  <2> QED  BY <1>5, <2>1 DEF PutStops, NoPut, blobVars
<1>6. ASSUME NEW u \in late, Arrive(u)
      PROVE  /\ UNCHANGED <<put, used>> /\ late' \subseteq late
             /\ markers' = markers \/ (u.blob = "marker" /\ markers' = markers \cup {u.id})
  BY <1>6 DEF Arrive
<1>7. Reading \/ (\E k \in Calls : ReadStarts(k)) => UNCHANGED <<markers, put, used, late>>
  BY DEF Reading, ReadStarts, ReadHint, Scan, NextListed, BuildTuple, LoadCheckpoint,
     LoadChannelValues, LoadMetadata, blobVars
<1>8. (\/ \E op \in {"delete_before", "delete_old"}, gone \in SUBSET markers : Prunes(op, gone)
       \/ \E op \in {"delete_thread", "adelete_thread"} : DeleteThreadStarts(op)
       \/ DeleteMarker \/ DeleteMeta \/ CheckpointsGone \/ DeleteLatest \/ DeleteValues
       \/ \E op \in {"collect", "dry_run"} : CollectStarts(op)
       \/ CollectRetained \/ ListValueBlobs \/ PeekLatest \/ RescanRetained \/ MtStops
       \/ DeleteOrphan)
      => UNCHANGED <<put, used, late>> /\ markers' \subseteq markers
  BY DEF Prunes, DeleteThreadStarts, DeleteMarker, DeleteMeta, CheckpointsGone, DeleteLatest,
     DeleteValues, CollectStarts, CollectRetained, ListValueBlobs, PeekLatest, RescanRetained,
     MtStops, DeleteOrphan, blobVars
<1>9. CASE UNCHANGED vars
  BY <1>9 DEF vars, blobVars, Uncommitted
<1>10. CASE Next
  <2>1. CASE \E k \in Calls, c \in Ids, b \in Ids \cup {NoId}, s \in SUBSET Channels :
               PutStarts(k, c, b, s)
    BY <1>1, <2>1
  <2>2. CASE PutReads \/ PutDirties \/ PutValue \/ PutMeta \/ PutMarker \/ PutCleans \/ PutStops
    BY <1>2, <1>3, <1>4, <1>5, <2>2 DEF Uncommitted
  <2>3. CASE \E u \in late : Arrive(u)
    BY <1>6, <2>3 DEF Uncommitted
  <2>4. CASE UNCHANGED <<put, used, late>> /\ markers' \subseteq markers
    BY <2>4 DEF Uncommitted
  <2> QED  BY <1>7, <1>8, <1>10, Steps, <2>1, <2>2, <2>3, <2>4
<1> QED  BY <1>9, <1>10

\* A step that leaves the reader at its checkpoint.
LEMMA ReaderWaits ==
  ASSUME Sheltered, Inv, ReadInv, [Next]_vars, rd'.pc = rd.pc, rd'.cur = rd.cur, rd'.whole = rd.whole
  PROVE  ReadInv'
<1>1. ASSUME rd.pc \in {"values", "metadata"}
      PROVE  /\ rd.cur \in used' /\ (Uncommitted' => rd.cur # put'.id)
             /\ \A u \in late' : u.blob = "marker" => rd.cur # u.id
             /\ rd.cur \in markers' => rd.cur \in markers
  BY <1>1, Commits DEF ReadInv, ReadOnce, Uncommitted
<1> QED  BY <1>1 DEF ReadInv, ReadOnce, ReadComplete

LEMMA ReadNext ==
  ASSUME Sheltered, Inv, ReadInv, [Next]_vars
  PROVE  ReadInv'
<1>1. ASSUME rd'.pc \notin {"values", "metadata"}
      PROVE  ReadInv'
  BY <1>1 DEF ReadInv, ReadOnce, ReadComplete
<1>2. CASE LoadCheckpoint
  <2>1. CASE rd.cur \in markers
    <3>1. /\ rd' = [rd EXCEPT !.pc = "values"]
          /\ UNCHANGED <<blobVars, versions, used, put, late, mt>>
      BY <1>2, <2>1 DEF LoadCheckpoint
    <3>2. rd'.pc = "values" /\ rd'.cur = rd.cur
      BY <3>1 DEF Inv, TypeOK, Rds
    <3>3. rd.cur \in used /\ (Uncommitted => rd.cur # put.id)
          /\ \A u \in late : u.blob = "marker" => rd.cur # u.id
      BY <2>1 DEF Inv, IdsKnown, PutFits, LateFits
    <3> QED  BY <3>1, <3>2, <3>3 DEF ReadInv, ReadOnce, ReadComplete, Uncommitted
  <2>2. CASE rd.cur \notin markers
    <3>1. rd' = NotBuilt
      BY <1>2, <2>2 DEF LoadCheckpoint
    <3>2. rd'.pc \in {"next", "idle", "scan"}
      BY <3>1 DEF NotBuilt, Answer, NoRead, Inv, TypeOK, Rds
    <3> QED  BY <1>1, <3>2
  <2> QED  BY <2>1, <2>2
<1>3. CASE LoadChannelValues
  <2>1. /\ rd' = [rd EXCEPT !.pc = "metadata", !.whole = Needs(rd.cur) \subseteq values]
        /\ UNCHANGED <<blobVars, versions, used, put, late, mt>> /\ rd.pc = "values"
    BY <1>3 DEF LoadChannelValues
  <2>2. rd'.pc = "metadata" /\ rd'.cur = rd.cur /\ rd'.whole = (Needs(rd.cur) \subseteq values)
    BY <2>1 DEF Inv, TypeOK, Rds
  <2>3. rd.cur \in markers => rd'.whole
    BY <2>2 DEF Inv, CommittedComplete
  <2> QED  BY <2>1, <2>2, <2>3 DEF ReadInv, ReadOnce, ReadComplete, Uncommitted, blobVars
<1>4. CASE LoadMetadata
  <2>1. rd' \in {NotBuilt, Built}
    BY <1>4 DEF LoadMetadata
  <2>2. rd'.pc \in {"next", "idle", "scan"}
    BY <2>1 DEF NotBuilt, Built, Answer, NoRead, Inv, TypeOK, Rds
  <2> QED  BY <1>1, <2>2
<1>5. CASE ReadHint \/ Scan \/ NextListed
  <2>1. rd'.pc \in {"scan", "checkpoint", "next", "idle"}
    BY <1>5 DEF ReadHint, Scan, NextListed, Answer, NoRead, Inv, TypeOK, Rds
  <2> QED  BY <1>1, <2>1
<1>6. CASE \E k \in Calls : ReadStarts(k)
  <2>1. rd'.pc \in {"hint", "checkpoint", "scan"}
    BY <1>6 DEF ReadStarts, NoRead
  <2> QED  BY <1>1, <2>1
<1>7. CASE DeleteMarker
  <2>1. rd'.pc = rd.pc /\ rd'.cur = rd.cur /\ rd'.whole = rd.whole
    BY <1>7 DEF DeleteMarker, Shake, Inv, TypeOK, Rds
  <2> QED  BY <2>1, ReaderWaits
<1>8. CASE rd' = rd
  BY <1>8, ReaderWaits
<1>9. (\/ \E k \in Calls, c \in Ids, b \in Ids \cup {NoId}, s \in SUBSET Channels :
            PutStarts(k, c, b, s)
       \/ PutReads \/ PutDirties \/ PutValue \/ PutMeta \/ PutMarker \/ PutCleans \/ PutStops
       \/ (\E u \in late : Arrive(u)) \/ UNCHANGED vars)
      => rd' = rd
  BY DEF PutStarts, PutReads, PutDirties, PutValue, PutMeta, PutMarker, PutCleans, PutStops,
     Arrive, vars
<1>10. (\/ \E op \in {"delete_before", "delete_old"}, gone \in SUBSET markers : Prunes(op, gone)
        \/ \E op \in {"delete_thread", "adelete_thread"} : DeleteThreadStarts(op)
        \/ DeleteMeta \/ CheckpointsGone \/ DeleteLatest \/ DeleteValues
        \/ \E op \in {"collect", "dry_run"} : CollectStarts(op)
        \/ CollectRetained \/ ListValueBlobs \/ PeekLatest \/ RescanRetained \/ MtStops
        \/ DeleteOrphan)
       => rd' = rd
  BY DEF Prunes, DeleteThreadStarts, DeleteMeta, CheckpointsGone, DeleteLatest, DeleteValues,
     CollectStarts, CollectRetained, ListValueBlobs, PeekLatest, RescanRetained, MtStops, DeleteOrphan
<1>11. CASE Next
  BY <1>11, Steps, <1>2, <1>3, <1>4, <1>5, <1>6, <1>7, <1>8, <1>9, <1>10 DEF Reading, BuildTuple
<1> QED  BY <1>8, <1>9, <1>11

\* get_tuple, list: a tuple has all its channel values if its checkpoint still exists when
\* it is answered, for a checkpoint that was deleted does not come back.
THEOREM ReadsAreWhole ==
  ASSUME Sheltered
  PROVE  Spec => []ReadComplete
<1>1. Init => ReadInv
  BY RestInit
<1>2. Inv /\ ReadInv /\ [Next]_vars => ReadInv'
  BY ReadNext
<1>3. ReadInv => ReadComplete
  BY DEF ReadInv
<1> QED  BY <1>1, <1>2, <1>3, Invariance, PTL DEF Spec

--------------------------------------------------------------------------------
(***************************************************************************)
(* The saver implements a history of checkpoints, where no upload is late. *)
(***************************************************************************)
\* A step of a read of the newest goes on with it, or answers as of a moment of it.
LEMMA ReadingStep ==
  ASSUME Sheltered, Inv, HintInv, HistoryInv, ReadsNewest, Reading
  PROVE  /\ UNCHANGED <<blobVars, versions, used, put, late, mt>> /\ rd.pc # "idle"
         /\ rd'.kind = rd.kind /\ rd'.asked = rd.asked
         /\ \/ rd'.pc # "idle" /\ rd'.floor = rd.floor /\ rd'.shaken = rd.shaken
            \/ \E c \in Ids \cup {NoId} :
                 /\ rd'.pc = "idle" /\ rd'.cur = c
                 /\ rd.shaken \/ (c >= rd.floor /\ c \in markers \cup {NoId})
<1> USE DEF Inv, HistoryInv
<1>1. rd \in Rds /\ Getting
  BY DEF TypeOK, ReadsNewest
<1>2. \A c : Answer(c) = [NoRead EXCEPT !.kind = rd.kind, !.asked = rd.asked, !.cur = c]
  BY <1>1 DEF Answer
<1>3. \A c : /\ Answer(c).kind = rd.kind /\ Answer(c).asked = rd.asked /\ Answer(c).pc = "idle"
             /\ Answer(c).cur = c
  BY <1>2 DEF NoRead
<1>4. NoId \in Ids \cup {NoId} /\ NoId = 0
  BY DEF NoId
<1>5. CASE ReadHint
  <2>1. /\ UNCHANGED <<blobVars, versions, used, put, late, mt>> /\ rd.pc = "hint"
        /\ rd' = IF latest = NoId THEN [rd EXCEPT !.pc = "scan"]
                 ELSE [rd EXCEPT !.pc = "checkpoint", !.cur = latest]
    BY <1>5 DEF ReadHint
  <2>2. rd'.pc # "idle" /\ rd'.floor = rd.floor /\ rd'.shaken = rd.shaken
        /\ rd'.kind = rd.kind /\ rd'.asked = rd.asked
    BY <1>1, <2>1 DEF Rds
  <2> QED  BY <2>1, <2>2
<1>6. CASE Scan
  <2>1. /\ UNCHANGED <<blobVars, versions, used, put, late, mt>> /\ rd.pc = "scan"
        /\ rd' = IF markers = {} THEN Answer(NoId)
                 ELSE [rd EXCEPT !.pc = "checkpoint", !.cur = Newest(markers), !.sure = TRUE]
    BY <1>1, <1>6 DEF Scan
  <2>2. CASE markers # {}
    <3>1. rd'.pc # "idle" /\ rd'.floor = rd.floor /\ rd'.shaken = rd.shaken
          /\ rd'.kind = rd.kind /\ rd'.asked = rd.asked
      BY <1>1, <2>1, <2>2 DEF Rds
    <3> QED  BY <2>1, <3>1
  <2>3. CASE markers = {}
    <3>1. rd.shaken \/ rd.floor = 0
      BY <1>4, <2>1, <2>3 DEF NewestRead
    <3>2. rd.shaken \/ (NoId >= rd.floor /\ NoId \in markers \cup {NoId})
      BY <1>4, <3>1
    <3> QED  BY <1>3, <1>4, <2>1, <2>3, <3>2
  <2> QED  BY <2>2, <2>3
<1>7. ~(~Getting /\ NextListed)
  BY <1>1
<1>8. \* nothing could be built
  ASSUME rd' = NotBuilt, rd.pc \in {"checkpoint", "metadata"},
         rd.shaken \/ ~rd.sure
  PROVE  /\ rd'.kind = rd.kind /\ rd'.asked = rd.asked
         /\ \/ rd'.pc # "idle" /\ rd'.floor = rd.floor /\ rd'.shaken = rd.shaken
            \/ rd'.pc = "idle" /\ rd'.cur = NoId /\ rd.shaken
  <2>1. rd' = IF rd.sure THEN Answer(NoId) ELSE [rd EXCEPT !.pc = "scan"]
    BY <1>1, <1>8 DEF NotBuilt
  <2>2. CASE rd.sure
    BY <1>3, <1>8, <2>1, <2>2
  <2>3. CASE ~rd.sure
    BY <1>1, <2>1, <2>3 DEF Rds
  <2> QED  BY <2>2, <2>3
<1>9. CASE LoadCheckpoint
  <2>1. /\ UNCHANGED <<blobVars, versions, used, put, late, mt>> /\ rd.pc = "checkpoint"
        /\ rd' = IF rd.cur \in markers THEN [rd EXCEPT !.pc = "values"] ELSE NotBuilt
    BY <1>9 DEF LoadCheckpoint
  <2>2. CASE rd.cur \in markers
    <3>1. rd'.pc # "idle" /\ rd'.floor = rd.floor /\ rd'.shaken = rd.shaken
          /\ rd'.kind = rd.kind /\ rd'.asked = rd.asked
      BY <1>1, <2>1, <2>2 DEF Rds
    <3> QED  BY <2>1, <3>1
  <2>3. CASE rd.cur \notin markers
    <3>1. rd.shaken \/ ~rd.sure
      BY <2>1, <2>3 DEF NewestRead
    <3> QED  BY <1>4, <1>8, <2>1, <2>3, <3>1
  <2> QED  BY <2>2, <2>3
<1>10. CASE LoadChannelValues
  <2>1. /\ UNCHANGED <<blobVars, versions, used, put, late, mt>> /\ rd.pc = "values"
        /\ rd' = [rd EXCEPT !.pc = "metadata", !.whole = Needs(rd.cur) \subseteq values]
    BY <1>10 DEF LoadChannelValues
  <2>2. rd'.pc # "idle" /\ rd'.floor = rd.floor /\ rd'.shaken = rd.shaken
        /\ rd'.kind = rd.kind /\ rd'.asked = rd.asked
    BY <1>1, <2>1 DEF Rds
  <2> QED  BY <2>1, <2>2
<1>11. CASE LoadMetadata
  <2>1. /\ UNCHANGED <<blobVars, versions, used, put, late, mt>> /\ rd.pc = "metadata"
        /\ rd' = IF rd.cur \in metas THEN Answer(rd.cur) ELSE NotBuilt
    BY <1>1, <1>11 DEF LoadMetadata, Built
  <2>2. rd.shaken \/ (rd.cur \in markers /\ rd.cur >= rd.floor)
    BY <2>1 DEF NewestRead
  <2>3. rd.cur \in Ids \cup {NoId}
    BY <1>1 DEF Rds
  <2>4. CASE rd.cur \in metas
    BY <1>3, <2>1, <2>2, <2>3, <2>4
  <2>5. CASE rd.cur \notin metas
    <3>1. rd.shaken
      BY <2>2, <2>5 DEF CommittedComplete
    <3> QED  BY <1>4, <1>8, <2>1, <2>5, <3>1
  <2> QED  BY <2>4, <2>5
<1> QED  BY <1>5, <1>6, <1>7, <1>9, <1>10, <1>11 DEF Reading, BuildTuple

\* A read that began found the newest of then, and what it holds is of the committed.
LEMMA HistoryNext ==
  ASSUME Sheltered, ~LateUploads, Inv, HintInv, HistoryInv, [Next]_vars
  PROVE  HistoryInv'
<1>0. Inv' /\ late = {}
  BY InvNext DEF Inv, LateFits
<1> USE DEF HistoryInv
<1>1. HintOld'
  <2>1. CASE PutReads
    BY <2>1, NewestMarker DEF PutReads, HintOld, Inv, IdsKnown, TypeOK, Puts, Uncommitted, blobVars
  <2>2. CASE PutCleans
    <3>1. put.current \in Nat /\ put.id \in Nat /\ put.id \in used
      BY <2>2, IdsAreNat DEF Inv, TypeOK, Puts, IdsKnown, AtWork, PutCleans
    <3>2. Max({put.current, put.id}) \in used \cup {NoId}
      BY <3>1, MaxOfTwo DEF HintOld
    <3> QED  BY <2>2, <3>2 DEF PutCleans, HintOld, NoPut, Uncommitted, NoId
  <2>3. CASE latest' \in {latest, NoId} /\ (put'.current \in {put.current, NoId})
    <3>1. latest' \in used' \cup {NoId} /\ put'.current \in used' \cup {NoId}
      BY <2>3, Commits DEF HintOld
    <3>2. Uncommitted' => put'.id \in Ids
      BY <1>0 DEF Inv, TypeOK, IdsKnown, AtWork, Uncommitted
    <3>3. Uncommitted' => latest' # put'.id
      BY <2>3, <3>2, Commits DEF HintOld, Sheltered, IdsPositive, NoId
    <3> QED  BY <3>1, <3>3 DEF HintOld
  <2>4. ASSUME NEW k \in Calls, NEW c \in Ids, NEW b \in Ids \cup {NoId}, NEW s \in SUBSET Channels,
               PutStarts(k, c, b, s)
        PROVE  latest' = latest /\ put'.current = NoId
    BY <2>4 DEF PutStarts, NoPut, blobVars
  <2>5. PutDirties \/ PutValue \/ PutMeta \/ PutMarker \/ PutStops =>
          latest' \in {latest, NoId} /\ put'.current \in {put.current, NoId}
    BY DEF PutDirties, PutValue, PutMeta, PutMarker, PutStops, NoPut, Inv, TypeOK, Puts, blobVars
  <2>6. Reading \/ (\E k \in Calls : ReadStarts(k)) \/ UNCHANGED vars => UNCHANGED <<latest, put>>
    BY DEF Reading, ReadStarts, ReadHint, Scan, NextListed, BuildTuple, LoadCheckpoint,
       LoadChannelValues, LoadMetadata, blobVars, vars
  <2>7. (\/ \E op \in {"delete_before", "delete_old"}, gone \in SUBSET markers : Prunes(op, gone)
         \/ \E op \in {"delete_thread", "adelete_thread"} : DeleteThreadStarts(op)
         \/ DeleteMarker \/ DeleteMeta \/ CheckpointsGone \/ DeleteLatest \/ DeleteValues
         \/ \E op \in {"collect", "dry_run"} : CollectStarts(op)
         \/ CollectRetained \/ ListValueBlobs \/ PeekLatest \/ RescanRetained \/ MtStops
         \/ DeleteOrphan)
        => put' = put /\ latest' \in {latest, NoId}
    BY DEF Prunes, DeleteThreadStarts, DeleteMarker, DeleteMeta, CheckpointsGone, DeleteLatest,
       DeleteValues, CollectStarts, CollectRetained, ListValueBlobs, PeekLatest, RescanRetained,
       MtStops, DeleteOrphan, blobVars
  <2>8. CASE Next
    BY <1>0, <2>8, Steps, <2>1, <2>2, <2>3, <2>4, <2>5, <2>6, <2>7
  <2> QED  BY <2>3, <2>6, <2>8
<1>2. NewestRead'
  <2>1. \* the read waits: a checkpoint of another id is committed, or none
    CASE /\ rd' = rd /\ markers \subseteq markers'
    <3> SUFFICES ASSUME ReadsNewest, rd.pc # "idle"  PROVE NewestRead'
      BY <2>1 DEF NewestRead, ReadsNewest, Getting
    <3>1. rd.pc \in {"checkpoint", "values", "metadata"} =>
            rd.cur \in used' /\ (Uncommitted' => rd.cur # put'.id)
            /\ (rd.cur \in markers' => rd.cur \in markers)
      BY <1>0, Commits DEF NewestRead
    <3> QED  BY <2>1, <3>1 DEF NewestRead
  <2>2. CASE DeleteMarker
    <3>1. /\ markers' \subseteq markers /\ UNCHANGED <<used, put>>
          /\ rd' = [rd EXCEPT !.shaken = @ \/ rd.pc # "idle"]
      BY <2>2 DEF DeleteMarker, Shake
    <3>2. /\ rd'.pc = rd.pc /\ rd'.cur = rd.cur /\ rd'.kind = rd.kind /\ rd'.asked = rd.asked
          /\ (rd.pc # "idle" => rd'.shaken)
      BY <3>1 DEF Inv, TypeOK, Rds
    <3> QED  BY <3>1, <3>2 DEF NewestRead, ReadsNewest, Getting, Uncommitted
  <2>3. ASSUME NEW k \in Calls, ReadStarts(k)
        PROVE  NewestRead'
    <3>1. UNCHANGED <<markers, used, put>>
      BY <2>3 DEF ReadStarts, blobVars
    <3>2. CASE k \in {"get", "aget"}
      <4>1. PICK c \in used \cup {NoId} :
              rd' = [NoRead EXCEPT !.kind = k, !.asked = c, !.cur = c, !.sure = (c # NoId),
                                   !.pc = IF c = NoId THEN "hint" ELSE "checkpoint",
                                   !.floor = IF c = NoId THEN Newest(markers) ELSE NoId]
        BY <2>3, <3>2 DEF ReadStarts
      <4>2. ReadsNewest' => rd'.pc = "hint" /\ rd'.floor = Newest(markers) /\ ~rd'.sure
        BY <4>1 DEF ReadsNewest, NoRead
      <4>3. Newest(markers) \in markers \cup {NoId}
        BY NewestMarker DEF Inv
      <4> QED  BY <3>1, <4>2, <4>3 DEF NewestRead
    <3>3. CASE k \in {"list", "alist"}
      <4>1. rd'.kind = k
        BY <2>3, <3>3 DEF ReadStarts, NoRead
      <4> QED  BY <3>3, <4>1 DEF NewestRead, ReadsNewest, Getting
    <3> QED  BY <2>3, <3>2, <3>3 DEF ReadStarts
  <2>4. CASE Reading /\ ~ReadsNewest
    <3>1. rd'.kind = rd.kind /\ rd'.asked = rd.asked
      BY <2>4 DEF Reading, ReadHint, Scan, NextListed, BuildTuple, LoadCheckpoint,
         LoadChannelValues, LoadMetadata, NotBuilt, Built, Answer, NoRead, Inv, TypeOK, Rds
    <3> QED  BY <2>4, <3>1 DEF NewestRead, ReadsNewest, Getting
  <2>5. CASE Reading /\ ReadsNewest
    <3>1. /\ UNCHANGED <<markers, used, put>> /\ rd.pc # "idle"
          /\ rd'.kind = rd.kind /\ rd'.asked = rd.asked
          /\ rd'.pc # "idle" => rd'.floor = rd.floor /\ rd'.shaken = rd.shaken
      BY <2>5, ReadingStep DEF blobVars
    <3>2. rd \in Rds /\ Getting
      BY <2>5 DEF Inv, TypeOK, ReadsNewest
    <3>3. ASSUME rd'.pc \in {"idle", "scan"}
          PROVE  NewestRead'
      BY <2>5, <3>1, <3>3 DEF NewestRead
    <3>4. NotBuilt.pc \in {"idle", "scan"} /\ (\A c : Answer(c).pc = "idle")
      BY <3>2 DEF NotBuilt, Answer, NoRead, Rds
    <3>5. CASE ReadHint
      <4>1. CASE latest = NoId
        BY <3>2, <3>3, <3>5, <4>1 DEF ReadHint, Rds
      <4>2. CASE latest # NoId
        <5>1. rd'.pc = "checkpoint" /\ rd'.cur = latest /\ rd'.sure = rd.sure /\ rd.pc = "hint"
          BY <3>2, <3>5, <4>2 DEF ReadHint, Rds
        <5>2. latest \in used /\ (Uncommitted => latest # put.id)
          BY <4>2 DEF HintOld
        <5>3. ~rd.shaken /\ latest \in markers => latest >= rd.floor
          <6>1. latest \in markers => latest = Newest(markers) /\ latest \in Nat
            BY DEF HintInv, HintIsNewest, Inv, TypeOK, Sheltered, IdsPositive
          <6>2. ~rd.shaken => rd.floor \in markers \cup {NoId}
            BY <2>5, <3>1 DEF NewestRead
          <6> QED  BY <6>1, <6>2, NewestMarker DEF Inv, NoId
        <5>4. ~rd.sure
          BY <2>5, <5>1 DEF NewestRead
        <5> QED  BY <2>5, <3>1, <5>1, <5>2, <5>3, <5>4 DEF NewestRead, Uncommitted
      <4> QED  BY <4>1, <4>2
    <3>6. CASE Scan
      <4>1. CASE markers = {}
        BY <3>2, <3>3, <3>4, <3>6, <4>1 DEF Scan
      <4>2. CASE markers # {}
        <5>1. rd'.pc = "checkpoint" /\ rd'.cur = Newest(markers)
          BY <3>2, <3>6, <4>2 DEF Scan, Rds
        <5>2. Newest(markers) \in markers /\ \A c \in markers : c <= Newest(markers)
          BY <4>2, NewestMarker DEF Inv
        <5>3. /\ Newest(markers) \in used /\ (Uncommitted => Newest(markers) # put.id)
              /\ Newest(markers) \in Nat
          BY <5>2 DEF Inv, IdsKnown, PutFits, TypeOK, Sheltered, IdsPositive
        <5>4. ~rd.shaken => Newest(markers) >= rd.floor
          BY <2>5, <3>1, <5>2, <5>3 DEF NewestRead, NoId
        <5> QED  BY <2>5, <3>1, <5>1, <5>2, <5>3, <5>4 DEF NewestRead, Uncommitted
      <4> QED  BY <4>1, <4>2
    <3>7. CASE LoadCheckpoint
      <4>1. CASE rd.cur \in markers
        <5>1. rd'.pc = "values" /\ rd'.cur = rd.cur /\ rd.pc = "checkpoint"
          BY <3>2, <3>7, <4>1 DEF LoadCheckpoint, Rds
        <5> QED  BY <2>5, <3>1, <4>1, <5>1 DEF NewestRead, Uncommitted
      <4> QED  BY <3>3, <3>4, <3>7, <4>1 DEF LoadCheckpoint
    <3>8. CASE LoadChannelValues
      <4>1. rd'.pc = "metadata" /\ rd'.cur = rd.cur /\ rd.pc = "values"
        BY <3>2, <3>8 DEF LoadChannelValues, Rds
      <4> QED  BY <2>5, <3>1, <4>1 DEF NewestRead, Uncommitted
    <3>9. CASE LoadMetadata
      BY <3>2, <3>3, <3>4, <3>9 DEF LoadMetadata, Built
    <3> QED  BY <2>5, <3>2, <3>5, <3>6, <3>7, <3>8, <3>9 DEF Reading, BuildTuple
  <2>6. (\/ \E k \in Calls, c \in Ids, b \in Ids \cup {NoId}, s \in SUBSET Channels :
              PutStarts(k, c, b, s)
         \/ PutReads \/ PutDirties \/ PutValue \/ PutMeta \/ PutMarker \/ PutCleans \/ PutStops
         \/ UNCHANGED vars)
        => rd' = rd /\ markers \subseteq markers'
    BY DEF PutStarts, PutReads, PutDirties, PutValue, PutMeta, PutMarker, PutCleans, PutStops,
       vars, blobVars
  <2>7. (\/ \E op \in {"delete_before", "delete_old"}, gone \in SUBSET markers : Prunes(op, gone)
         \/ \E op \in {"delete_thread", "adelete_thread"} : DeleteThreadStarts(op)
         \/ DeleteMeta \/ CheckpointsGone \/ DeleteLatest \/ DeleteValues
         \/ \E op \in {"collect", "dry_run"} : CollectStarts(op)
         \/ CollectRetained \/ ListValueBlobs \/ PeekLatest \/ RescanRetained \/ MtStops
         \/ DeleteOrphan)
        => rd' = rd /\ markers' = markers
    BY DEF Prunes, DeleteThreadStarts, DeleteMeta, CheckpointsGone, DeleteLatest, DeleteValues,
       CollectStarts, CollectRetained, ListValueBlobs, PeekLatest, RescanRetained, MtStops,
       DeleteOrphan, blobVars
  <2>8. CASE Next
    BY <1>0, <2>8, Steps, <2>1, <2>2, <2>3, <2>4, <2>5, <2>6, <2>7
  <2> QED  BY <2>1, <2>6, <2>8
<1> QED  BY <1>1, <1>2

\* The instance's greatest element is the saver's.
LEMMA SameNewest == History!Newest(markers) = Newest(markers)
BY DEF History!Newest, Newest, History!Max, Max, NoId

\* The start of a read, and the end of the one before as its caller sees it.
LEMMA ReadStartsMaps ==
  ASSUME Sheltered, Inv, HistoryInv, NEW k \in Calls, ReadStarts(k)
  PROVE  History!Begin \/ History!Taken
<1>1. rd.pc = "idle" /\ UNCHANGED markers
  BY DEF ReadStarts, blobVars
<1>2. CASE k \in {"get", "aget"}
  <2>1. PICK c \in used \cup {NoId} :
          rd' = [NoRead EXCEPT !.kind = k, !.asked = c, !.cur = c, !.sure = (c # NoId),
                               !.pc = IF c = NoId THEN "hint" ELSE "checkpoint",
                               !.floor = IF c = NoId THEN Newest(markers) ELSE NoId]
    BY <1>2 DEF ReadStarts
  <2>2. /\ rd'.kind = k /\ rd'.asked = c /\ rd'.pc # "idle" /\ rd'.shaken = FALSE
        /\ c = NoId => rd'.floor = Newest(markers)
    BY <2>1 DEF NoRead
  <2>3. CASE c = NoId
    <3>1. ReadsNewest'
      BY <1>2, <2>2, <2>3 DEF ReadsNewest, Getting
    <3> QED  BY <1>1, <2>2, <2>3, <3>1, SameNewest DEF History!Begin, NoId
  <2>4. CASE c # NoId
    <3>1. ~ReadsNewest'
      BY <2>2, <2>4 DEF ReadsNewest
    <3> QED  BY <1>1, <3>1 DEF History!Taken, NoId
  <2> QED  BY <2>3, <2>4
<1>3. CASE k \in {"list", "alist"}
  <2>1. rd'.kind = k
    BY <1>3 DEF ReadStarts, NoRead
  <2>2. ~ReadsNewest'
    BY <1>3, <2>1 DEF ReadsNewest, Getting
  <2> QED  BY <1>1, <2>2 DEF History!Taken, NoId
<1> QED  BY <1>2, <1>3 DEF ReadStarts

LEMMA ReadingMaps ==
  ASSUME Sheltered, Inv, HintInv, HistoryInv, Reading
  PROVE  (\E c \in Ids \cup {0} : History!End(c)) \/ UNCHANGED History!historyVars
<1>1. CASE ReadsNewest
  <2>1. /\ UNCHANGED markers /\ rd.pc # "idle" /\ rd'.kind = rd.kind /\ rd'.asked = rd.asked
        /\ \/ rd'.pc # "idle" /\ rd'.floor = rd.floor /\ rd'.shaken = rd.shaken
           \/ \E c \in Ids \cup {NoId} :
                /\ rd'.pc = "idle" /\ rd'.cur = c
                /\ rd.shaken \/ (c >= rd.floor /\ c \in markers \cup {NoId})
    BY <1>1, ReadingStep DEF blobVars
  <2>2. ReadsNewest'
    BY <1>1, <2>1 DEF ReadsNewest, Getting
  <2>3. CASE rd'.pc # "idle" /\ rd'.floor = rd.floor /\ rd'.shaken = rd.shaken
    BY <1>1, <2>1, <2>2, <2>3 DEF History!historyVars
  <2>4. ASSUME NEW c \in Ids \cup {NoId}, rd'.pc = "idle", rd'.cur = c,
               rd.shaken \/ (c >= rd.floor /\ c \in markers \cup {NoId})
        PROVE  History!End(c)
    <3>1. rd.shaken \/ History!Fresh(c)
      BY <1>1, <2>1, <2>4 DEF History!Fresh, NoId
    <3> QED  BY <1>1, <2>1, <2>2, <2>4, <3>1 DEF History!End, NoId
  <2> QED  BY <2>1, <2>3, <2>4 DEF NoId
<1>2. CASE ~ReadsNewest
  <2>1. rd'.kind = rd.kind /\ rd'.asked = rd.asked /\ UNCHANGED markers
    BY <1>2 DEF Reading, ReadHint, Scan, NextListed, BuildTuple, LoadCheckpoint,
       LoadChannelValues, LoadMetadata, NotBuilt, Built, Answer, NoRead, Inv, TypeOK, Rds, blobVars
  <2>2. ~ReadsNewest'
    BY <1>2, <2>1 DEF ReadsNewest, Getting
  <2> QED  BY <1>2, <2>1, <2>2 DEF History!historyVars
<1> QED  BY <1>1, <1>2

LEMMA DeleteMarkerMaps ==
  ASSUME Sheltered, Inv, DeleteMarker
  PROVE  \E c \in Ids : History!Forget(c)
<1>1. /\ markers' = markers \ {NextGone} /\ mt.todo # {}
      /\ rd' = [rd EXCEPT !.shaken = @ \/ rd.pc # "idle"]
  BY DEF DeleteMarker, Shake
<1>2. NextGone \in Ids
  BY <1>1, NextGoneIn DEF Inv, TypeOK, IdsKnown
<1>3. /\ rd'.pc = rd.pc /\ rd'.cur = rd.cur /\ rd'.kind = rd.kind /\ rd'.asked = rd.asked
      /\ rd'.floor = rd.floor /\ rd'.shaken = (rd.shaken \/ rd.pc # "idle")
  BY <1>1 DEF Inv, TypeOK, Rds
<1>4. ReadsNewest' = ReadsNewest
  BY <1>3 DEF ReadsNewest, Getting
<1>5. History!Forget(NextGone)
  BY <1>1, <1>3, <1>4 DEF History!Forget
<1> QED  BY <1>2, <1>5

LEMMA HistoryStep ==
  ASSUME Sheltered, ~LateUploads, Inv, HintInv, HistoryInv, [Next]_vars
  PROVE  [History!Next]_History!historyVars
<1>1. CASE PutMarker
  <2>1. put.id \in Ids /\ markers' = markers \cup {put.id} /\ rd' = rd
    BY <1>1 DEF PutMarker, Inv, TypeOK, IdsKnown, AtWork
  <2>2. History!Commit(put.id)
    BY <2>1 DEF History!Commit, ReadsNewest, Getting
  <2> QED  BY <2>1, <2>2 DEF History!Next
<1>2. CASE DeleteMarker
  BY <1>2, DeleteMarkerMaps DEF History!Next
<1>3. CASE \E k \in Calls : ReadStarts(k)
  BY <1>3, ReadStartsMaps DEF History!Next
<1>4. CASE Reading
  BY <1>4, ReadingMaps DEF History!Next
<1>5. CASE \E u \in late : Arrive(u)
  BY <1>5 DEF Inv, LateFits
<1>6. CASE rd' = rd /\ markers' = markers
  BY <1>6 DEF History!historyVars, ReadsNewest, Getting
<1>7. (\/ \E k \in Calls, c \in Ids, b \in Ids \cup {NoId}, s \in SUBSET Channels :
            PutStarts(k, c, b, s)
       \/ PutReads \/ PutDirties \/ PutValue \/ PutMeta \/ PutCleans \/ PutStops
       \/ UNCHANGED vars)
      => rd' = rd /\ markers' = markers
  BY DEF PutStarts, PutReads, PutDirties, PutValue, PutMeta, PutCleans, PutStops, vars, blobVars
<1>8. (\/ \E op \in {"delete_before", "delete_old"}, gone \in SUBSET markers : Prunes(op, gone)
       \/ \E op \in {"delete_thread", "adelete_thread"} : DeleteThreadStarts(op)
       \/ DeleteMeta \/ CheckpointsGone \/ DeleteLatest \/ DeleteValues
       \/ \E op \in {"collect", "dry_run"} : CollectStarts(op)
       \/ CollectRetained \/ ListValueBlobs \/ PeekLatest \/ RescanRetained \/ MtStops
       \/ DeleteOrphan)
      => rd' = rd /\ markers' = markers
  BY DEF Prunes, DeleteThreadStarts, DeleteMeta, CheckpointsGone, DeleteLatest, DeleteValues,
     CollectStarts, CollectRetained, ListValueBlobs, PeekLatest, RescanRetained, MtStops,
     DeleteOrphan, blobVars
<1>9. CASE Next
  BY <1>9, Steps, <1>1, <1>2, <1>3, <1>4, <1>5, <1>6, <1>7, <1>8
<1> QED  BY <1>6, <1>7, <1>9

\* get_tuple, put: the saver keeps a history of checkpoints that a reader of the newest
\* sees as of a moment of its read, dirty pointer or not.
THEOREM Refinement ==
  ASSUME Sheltered, ~LateUploads
  PROVE  Spec => RefinesHistory
<1>1. Init => HintInv /\ HistoryInv
  BY RestInit
<1>2. Inv /\ HintInv /\ HistoryInv /\ [Next]_vars => HintInv' /\ HistoryInv'
  BY HintNext, HistoryNext
<1>3. Init => History!Init
  BY DEF Init, History!Init, NoRead, ReadsNewest, Getting, NoId
<1>4. Inv /\ HintInv /\ HistoryInv /\ [Next]_vars => [History!Next]_History!historyVars
  BY HistoryStep
<1>5. Spec => [](HintInv /\ HistoryInv)
  BY <1>1, <1>2, Invariance, PTL DEF Spec
<1> QED  BY <1>3, <1>4, <1>5, Invariance, PTL DEF Spec, RefinesHistory, History!Spec

--------------------------------------------------------------------------------
(***************************************************************************)
(* What a list holds.                                                      *)
(***************************************************************************)
LEMMA ListWaits ==
  ASSUME ListInv, markers \subseteq markers' \/ rd.pc = "idle", rd' = rd
  PROVE  ListInv'
BY DEF ListInv, Listing, Wanted, Left, Taken, ListExact

LEMMA ListShaken ==
  ASSUME Inv, ListInv, rd' = [rd EXCEPT !.shaken = @ \/ rd.pc # "idle"]
  PROVE  ListInv'
<1>1. CASE rd.pc = "idle"
  <2>1. rd' = rd
    BY <1>1 DEF Inv, TypeOK, Rds
  <2> QED  BY <1>1, <2>1, ListWaits
<1>2. CASE rd.pc # "idle"
  <2>1. rd'.pc = rd.pc /\ rd'.shaken /\ rd'.kind = rd.kind /\ rd'.out = rd.out
    BY <1>2 DEF Inv, TypeOK, Rds
  <2> QED  BY <2>1 DEF ListInv, Listing, ListExact
<1> QED  BY <1>1, <1>2

\* A list begins with nothing taken.
LEMMA ListStarts ==
  ASSUME NEW k \in Calls, ReadStarts(k)
  PROVE  ListInv'
<1>1. CASE k \in {"get", "aget"}
  <2>1. rd'.kind = k
    BY <1>1 DEF ReadStarts, NoRead
  <2> QED  BY <1>1, <2>1 DEF ListInv, Listing
<1>2. CASE k \in {"list", "alist"}
  <2>1. rd'.pc = "scan" /\ rd'.out = <<>>
    BY <1>2 DEF ReadStarts, NoRead
  <2> QED  BY <2>1 DEF ListInv, ListExact
<1> QED  BY <1>1, <1>2 DEF ReadStarts

LEMMA ListScans ==
  ASSUME Sheltered, Inv, ListInv, Listing, Scan
  PROVE  ListInv'
<1>1. /\ rd.pc = "scan" /\ rd' = [rd EXCEPT !.pc = "next", !.todo = markers, !.seen = markers]
      /\ UNCHANGED markers
  BY DEF Scan, Listing, Getting, blobVars
<1>2. /\ rd'.pc = "next" /\ rd'.todo = markers /\ rd'.seen = markers /\ rd'.out = <<>>
      /\ rd'.limit = rd.limit /\ rd.limit \in Nat
  BY <1>1 DEF Inv, TypeOK, Rds, ListInv
<1>3. Left' = Wanted' /\ Taken' = {}
  BY <1>2 DEF Left, Wanted, Taken
<1>4. Cardinality(Taken') = 0
  BY <1>3, FS_EmptySet
<1>5. Cardinality(Taken)' = 0
  BY <1>4
<1> QED  BY <1>1, <1>2, <1>3, <1>5 DEF ListInv, ListExact

LEMMA TakenFinite ==
  ASSUME Sheltered, Inv, rd.seen \subseteq markers
  PROVE  /\ IsFiniteSet(Wanted) /\ IsFiniteSet(Taken) /\ Wanted \in SUBSET Nat
         /\ Cardinality(Wanted) \in Nat /\ Cardinality(Taken) \in Nat
         /\ Cardinality(Taken) <= Cardinality(Wanted)
<1>1. Wanted \in SUBSET used /\ Taken \in SUBSET Wanted
  BY DEF Inv, IdsKnown, Wanted, Taken
<1>2. Wanted \in SUBSET Nat
  BY <1>1 DEF Inv, TypeOK, Sheltered, IdsPositive
<1> QED  BY <1>1, <1>2, FS_Subset, FS_CardinalityType DEF Inv, IdsKnown

\* The next one is the newest of those left.
LEMMA ListGoesOn ==
  ASSUME Sheltered, Inv, ListInv, Listing, NextListed
  PROVE  ListInv'
<1>1. /\ rd.pc = "next" /\ UNCHANGED markers
      /\ rd' = IF Left = {} THEN Answer(NoId)
               ELSE [rd EXCEPT !.pc = "checkpoint", !.cur = Newest(Left),
                               !.todo = Left \ {Newest(Left)}]
  BY DEF NextListed, Left, blobVars
<1>2. rd \in Rds /\ ~Getting /\ Left \in SUBSET rd.todo
  BY DEF Inv, TypeOK, Listing, Getting, Left
<1>3. CASE Left = {}
  <2>1. rd' = [rd EXCEPT !.pc = "idle", !.cur = NoId]
    BY <1>1, <1>2, <1>3 DEF Answer
  <2>2. /\ rd'.pc = "idle" /\ rd'.seen = rd.seen /\ rd'.before = rd.before /\ rd'.out = rd.out
        /\ rd'.limit = rd.limit /\ rd'.shaken = rd.shaken /\ rd.limit \in Nat
        /\ Len(rd.out) \in Nat
    BY <1>2, <2>1 DEF Rds
  <2>3. ASSUME ~rd.shaken
        PROVE  /\ Len(rd.out) = Min({rd.limit, Cardinality(Wanted)})
               /\ \A i \in 1..Len(rd.out) :
                    /\ rd.out[i] \in Wanted
                    /\ Cardinality({c \in Wanted : c > rd.out[i]}) = i - 1
    <3>1. Taken = Wanted
      BY <1>3 DEF Taken
    <3>2. Len(rd.out) <= rd.limit /\ Cardinality(Wanted) = Len(rd.out)
      BY <1>1, <2>3, <3>1 DEF ListInv
    <3>3. Min({rd.limit, Cardinality(Wanted)}) = Len(rd.out)
      BY <2>2, <3>2, MinOfTwo
    <3> QED  BY <1>1, <2>3, <3>3 DEF ListInv
  <2>4. ListExact'
    BY <2>2, <2>3 DEF ListExact, Wanted
  <2> QED  BY <2>2, <2>4 DEF ListInv
<1>4. CASE Left # {}
  <2>1. Newest(Left) \in Left /\ \A c \in Left : c <= Newest(Left)
    BY <1>2, <1>4, NewestLeft DEF Inv
  <2>2. /\ rd'.pc = "checkpoint" /\ rd'.cur = Newest(Left) /\ rd'.todo = Left \ {Newest(Left)}
        /\ rd'.seen = rd.seen /\ rd'.before = rd.before /\ rd'.out = rd.out
        /\ rd'.limit = rd.limit /\ rd'.shaken = rd.shaken /\ rd'.kind = rd.kind
    BY <1>1, <1>2, <1>4 DEF Rds
  <2>3. SUFFICES ASSUME ~rd.shaken  PROVE ListInv'
    BY <2>2 DEF ListInv, ListExact
  <2>4. /\ rd.seen \subseteq markers /\ rd.todo \subseteq rd.seen
        /\ \A c \in Left, d \in Taken : c < d
        /\ Cardinality(Taken) = Len(rd.out)
    BY <1>1, <2>3 DEF ListInv
  <2>5. Wanted' = Wanted /\ Left' = Left \ {Newest(Left)}
    BY <2>2 DEF Wanted, Left
  <2>6. Taken' = Taken \cup {Newest(Left)} /\ Newest(Left) \notin Taken
    BY <2>1, <2>4, <2>5 DEF Taken, Wanted, Left
  <2>7. Cardinality(Taken)' = Len(rd.out) + 1
    BY <2>4, <2>6, TakenFinite, FS_AddElement
  <2>8. \A c \in Left : c \in Nat
    BY <1>2 DEF Rds, Sheltered, IdsPositive
  <2>9. \A c \in Left', d \in Taken' : c < d
    BY <2>1, <2>4, <2>5, <2>6, <2>8
  <2>10. \A d \in Taken' : d = rd'.cur \/ d > rd'.cur
    <3>1. \A d \in Taken : d \in Nat /\ Newest(Left) < d
      BY <2>1, <2>4, TakenFinite DEF Taken
    <3> QED  BY <2>1, <2>2, <2>6, <2>8, <3>1
  <2>11. rd'.seen \subseteq markers' /\ rd'.todo \subseteq rd'.seen
    BY <1>1, <1>2, <2>2, <2>4
  <2>12. /\ Len(rd'.out) <= rd'.limit
         /\ \A i \in 1..Len(rd'.out) :
              /\ rd'.out[i] \in Wanted'
              /\ Cardinality({c \in Wanted' : c > rd'.out[i]}) = i - 1
    <3>1. ASSUME NEW i \in 1..Len(rd.out)
          PROVE  /\ rd.out[i] \in Wanted
                 /\ Cardinality({c \in Wanted : c > rd.out[i]}) = i - 1
      BY <1>1, <2>3 DEF ListInv
    <3>2. Len(rd.out) <= rd.limit
      BY <1>1, <2>3 DEF ListInv
    <3> QED  BY <2>2, <2>5, <3>1, <3>2
  <2>13. ListExact'
    BY <2>2 DEF ListExact
  <2> QED  BY <2>2, <2>6, <2>7, <2>9, <2>10, <2>11, <2>12, <2>13 DEF ListInv
<1> QED  BY <1>3, <1>4

\* While it loads the one it is at, nothing changes for it; the metadata is there.
LEMMA ListLoads ==
  ASSUME Sheltered, Inv, ListInv, Listing, LoadCheckpoint \/ LoadChannelValues \/ LoadMetadata
  PROVE  ListInv'
<1>1. /\ UNCHANGED markers /\ rd \in Rds /\ ~Getting
      /\ rd.pc \in {"checkpoint", "values", "metadata"}
  BY DEF LoadCheckpoint, LoadChannelValues, LoadMetadata, blobVars, Inv, TypeOK, Listing, Getting
<1>2. NotBuilt = [rd EXCEPT !.pc = "next"]
  BY <1>1 DEF NotBuilt
<1>3. CASE rd.shaken
  <2>1. rd'.shaken /\ rd'.pc \in {"values", "metadata", "next", "idle"}
    BY <1>1, <1>2, <1>3 DEF LoadCheckpoint, LoadChannelValues, LoadMetadata, Built, Answer, Rds
  <2> QED  BY <2>1 DEF ListInv, ListExact
<1>4. CASE ~rd.shaken
  <2>1. /\ rd.seen \subseteq markers /\ rd.todo \subseteq rd.seen
        /\ \A c \in Left, d \in Taken : c < d
        /\ Len(rd.out) <= rd.limit
        /\ \A i \in 1..Len(rd.out) :
             /\ rd.out[i] \in Wanted
             /\ Cardinality({c \in Wanted : c > rd.out[i]}) = i - 1
        /\ Cardinality(Taken) = Len(rd.out) + 1
        /\ rd.cur \in Taken /\ \A d \in Taken : d = rd.cur \/ d > rd.cur
    BY <1>1, <1>4 DEF ListInv
  <2>2. rd.cur \in markers /\ rd.cur \in metas /\ rd.cur \in Wanted
    BY <2>1 DEF Taken, Wanted, Inv, CommittedComplete
  <2>3. CASE LoadCheckpoint \/ LoadChannelValues
    <3>1. /\ rd'.pc \in {"values", "metadata"} /\ rd'.cur = rd.cur /\ rd'.todo = rd.todo
          /\ rd'.seen = rd.seen /\ rd'.before = rd.before /\ rd'.out = rd.out
          /\ rd'.limit = rd.limit
      BY <1>1, <2>2, <2>3 DEF LoadCheckpoint, LoadChannelValues, Rds
    <3>2. Wanted' = Wanted /\ Left' = Left /\ Taken' = Taken
      BY <3>1 DEF Wanted, Left, Taken
    <3> QED  BY <1>1, <2>1, <3>1, <3>2 DEF ListInv, ListExact
  <2>4. CASE LoadMetadata /\ Len(rd.out) = rd.limit
    <3>1. rd' = [rd EXCEPT !.pc = "idle", !.cur = NoId]
      BY <1>1, <2>2, <2>4 DEF LoadMetadata, Built, Answer
    <3>2. /\ rd'.pc = "idle" /\ rd'.seen = rd.seen /\ rd'.before = rd.before
          /\ rd'.out = rd.out /\ rd'.limit = rd.limit /\ rd.limit \in Nat
      BY <1>1, <3>1 DEF Rds
    <3>3. Cardinality(Wanted) \in Nat /\ rd.limit + 1 <= Cardinality(Wanted)
      BY <2>1, <2>4, <3>2, TakenFinite
    <3>4. Min({rd.limit, Cardinality(Wanted)}) = rd.limit
      BY <3>2, <3>3, MinOfTwo
    <3>5. ListExact'
      BY <2>1, <2>4, <3>2, <3>4 DEF ListExact, Wanted
    <3> QED  BY <3>2, <3>5 DEF ListInv
  <2>5. CASE LoadMetadata /\ Len(rd.out) # rd.limit
    <3>1. rd' = [rd EXCEPT !.pc = "next", !.out = Append(rd.out, rd.cur)]
      BY <1>1, <2>2, <2>5 DEF LoadMetadata, Built
    <3>2. /\ rd'.pc = "next" /\ rd'.todo = rd.todo /\ rd'.seen = rd.seen
          /\ rd'.before = rd.before /\ rd'.out = Append(rd.out, rd.cur)
          /\ rd'.limit = rd.limit /\ rd.limit \in Nat /\ rd.out \in Seq(Ids)
      BY <1>1, <3>1 DEF Rds
    <3>3. /\ Len(rd.out) \in Nat /\ Len(rd'.out) = Len(rd.out) + 1
          /\ rd'.out[Len(rd.out) + 1] = rd.cur
          /\ \A i \in 1..Len(rd.out) : rd'.out[i] = rd.out[i]
      BY <3>2
    <3>4. Wanted' = Wanted /\ Left' = Left /\ Taken' = Taken
      BY <3>2 DEF Wanted, Left, Taken
    <3> DEFINE Above(x) == {c \in Wanted : c > x}
    <3>5. Above(rd.cur) = Taken \ {rd.cur}
      <4>1. ASSUME NEW c \in Wanted  PROVE c > rd.cur <=> c \in Taken \ {rd.cur}
        <5>1. c \in Nat /\ rd.cur \in Nat
          BY <2>1, <2>2, TakenFinite
        <5>2. c \in Taken \/ c \in Left
          BY DEF Taken
        <5> QED  BY <2>1, <5>1, <5>2
      <4> QED  BY <4>1 DEF Taken
    <3>6. \A i \in 1..Len(rd.out) : rd.out[i] \in Wanted /\ Cardinality(Above(rd.out[i])) = i - 1
      BY <2>1
    <3> HIDE DEF Above
    <3>7. ASSUME NEW i \in 1..Len(rd'.out)
          PROVE  rd'.out[i] \in Wanted /\ Cardinality(Above(rd'.out[i])) = i - 1
      <4>1. CASE i = Len(rd.out) + 1
        <5>1. Cardinality(Taken \ {rd.cur}) = Cardinality(Taken) - 1
          BY <2>1, TakenFinite, FS_RemoveElement
        <5>2. Cardinality(Above(rd.cur)) = Len(rd.out)
          BY <2>1, <3>3, <3>5, <5>1
        <5> QED  BY <2>2, <3>3, <4>1, <5>2
      <4>2. CASE i # Len(rd.out) + 1
        <5>1. i \in 1..Len(rd.out)
          BY <3>3, <4>2
        <5> QED  BY <3>3, <3>6, <5>1
      <4> QED  BY <4>1, <4>2
    <3>8. Len(rd'.out) <= rd'.limit /\ Cardinality(Taken) = Len(rd'.out)
      BY <2>1, <2>5, <3>2, <3>3
    <3>9. \A i \in 1..Len(rd'.out) :
            /\ rd'.out[i] \in Wanted
            /\ Cardinality({c \in Wanted : c > rd'.out[i]}) = i - 1
      BY <3>7 DEF Above
    <3> QED  BY <1>1, <2>1, <3>2, <3>4, <3>8, <3>9 DEF ListInv, ListExact
  <2> QED  BY <2>3, <2>4, <2>5
<1> QED  BY <1>3, <1>4

LEMMA ListNext ==
  ASSUME Sheltered, Inv, ListInv, [Next]_vars
  PROVE  ListInv'
<1>1. CASE rd' = rd /\ markers \subseteq markers'
  BY <1>1, ListWaits
<1>2. CASE DeleteMarker
  BY <1>2, ListShaken DEF DeleteMarker, Shake
<1>3. CASE \E k \in Calls : ReadStarts(k)
  BY <1>3, ListStarts
<1>4. CASE Reading /\ Listing
  <2>1. ~ReadHint
    BY <1>4 DEF ListInv, ReadHint
  <2> QED  BY <1>4, <2>1, ListScans, ListGoesOn, ListLoads DEF Reading, BuildTuple
<1>5. CASE Reading /\ ~Listing
  <2>1. rd'.kind = rd.kind
    BY <1>5 DEF Reading, ReadHint, Scan, NextListed, BuildTuple, LoadCheckpoint,
       LoadChannelValues, LoadMetadata, NotBuilt, Built, Answer, NoRead, Inv, TypeOK, Rds
  <2> QED  BY <1>5, <2>1 DEF ListInv, Listing
<1>6. (\/ \E k \in Calls, c \in Ids, b \in Ids \cup {NoId}, s \in SUBSET Channels :
            PutStarts(k, c, b, s)
       \/ PutReads \/ PutDirties \/ PutValue \/ PutMeta \/ PutMarker \/ PutCleans \/ PutStops
       \/ UNCHANGED vars)
      => rd' = rd /\ markers \subseteq markers'
  BY DEF PutStarts, PutReads, PutDirties, PutValue, PutMeta, PutMarker, PutCleans, PutStops,
     vars, blobVars
<1>7. (\E u \in late : Arrive(u)) => rd' = rd /\ markers \subseteq markers'
  BY DEF Arrive
<1>8. (\/ \E op \in {"delete_before", "delete_old"}, gone \in SUBSET markers : Prunes(op, gone)
       \/ \E op \in {"delete_thread", "adelete_thread"} : DeleteThreadStarts(op)
       \/ DeleteMeta \/ CheckpointsGone \/ DeleteLatest \/ DeleteValues
       \/ \E op \in {"collect", "dry_run"} : CollectStarts(op)
       \/ CollectRetained \/ ListValueBlobs \/ PeekLatest \/ RescanRetained \/ MtStops
       \/ DeleteOrphan)
      => rd' = rd /\ markers' = markers
  BY DEF Prunes, DeleteThreadStarts, DeleteMeta, CheckpointsGone, DeleteLatest, DeleteValues,
     CollectStarts, CollectRetained, ListValueBlobs, PeekLatest, RescanRetained, MtStops,
     DeleteOrphan, blobVars
<1>9. CASE Next
  BY <1>9, Steps, <1>1, <1>2, <1>3, <1>4, <1>5, <1>6, <1>7, <1>8
<1> QED  BY <1>1, <1>6, <1>9

\* list, alist: the newest `limit` of the checkpoints there were before the bound, newest
\* first, if none was deleted meanwhile.
THEOREM ListsAreExact ==
  ASSUME Sheltered
  PROVE  Spec => []ListExact
<1>1. Init => ListInv
  BY RestInit
<1>2. Inv /\ ListInv /\ [Next]_vars => ListInv'
  BY ListNext
<1>3. ListInv => ListExact
  BY DEF ListInv, ListExact, Listing
<1> QED  BY <1>1, <1>2, <1>3, Invariance, PTL DEF Spec
================================================================================
