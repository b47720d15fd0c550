------------------------- MODULE BlobCheckpoints_proofs -------------------------
(***************************************************************************)
(* Proofs about the Blob checkpoint saver as it is checked: its pending    *)
(* writes here, its checkpoints by the theorems of BlobCheckpointSaver,    *)
(* and both together at the end.                                           *)
(*                                                                         *)
(* However many writes, attempts and special channels there are, a write   *)
(* is made once, no hole is left, and an attempt that ended left all of    *)
(* its writes.                                                             *)
(***************************************************************************)
EXTENDS MCBlobCheckpoints, TLAPS

Active(a) == state[a] \in {"looking", "uploading"}

\* At most one attempt is under way, the last one that started.
OnlyLastActive == \A a \in Attempts : Active(a) => a = last

\* An attempt that has not begun is at its first write.
NewAtFirst == \A a \in Attempts : state[a] = "new" => at[a] = 1

\* What an attempt uploads without overwriting was, and still is, missing.
SoughtIsMissing ==
  \A a \in Attempts : state[a] = "uploading" /\ at[a] \notin Special => stored[at[a]] = 0

\* The last attempt has seen to every write before the one it is at.
SeenTo ==
  last # 0 => \A i \in Writes : i < at[last] =>
    IF i \in Special THEN stored[i] = last ELSE stored[i] # 0

Inv ==
  /\ TypeOK /\ OnlyLastActive /\ NewAtFirst /\ SoughtIsMissing /\ SeenTo
  /\ NoHole /\ LoadedIsStored

\* Init: nothing is stored and nobody has begun.
LEMMA InvInit == Init => Inv
BY WritesNumbered, AttemptsNumbered
   DEF Init, Inv, TypeOK, OnlyLastActive, NewAtFirst, SoughtIsMissing, SeenTo, NoHole,
       LoadedIsStored, Active, NoRead, Writes

\* MovesOn: the next write, or the end of the attempt.
LEMMA MovesOnIs ==
  ASSUME TypeOK, NEW a \in Attempts, Active(a), MovesOn(a)
  PROVE  /\ at[a] \in Writes
         /\ at' = [at EXCEPT ![a] = at[a] + 1]
         /\ at' \in [Attempts -> 1..N + 1]
         /\ state' \in [Attempts -> {"new", "looking", "uploading", "done", "stopped"}]
         /\ \A d \in Attempts : d # a => at'[d] = at[d] /\ state'[d] = state[d]
         /\ at'[a] = at[a] + 1
         /\ state'[a] \in {"looking", "done"}
         /\ at'[a] = N + 1 <=> state'[a] = "done"
BY WritesNumbered DEF TypeOK, Active, MovesOn, Writes

\* Starts: the lock of the thread lets no other attempt be under way.
LEMMA StartsKeepsInv ==
  ASSUME Inv, NEW a \in Attempts, Starts(a)
  PROVE  Inv'
<1> USE WritesNumbered, AttemptsNumbered DEF Inv, Starts
<1>1. TypeOK'
  BY DEF TypeOK
<1>2. OnlyLastActive' /\ NewAtFirst' /\ SoughtIsMissing'
  BY DEF TypeOK, OnlyLastActive, NewAtFirst, SoughtIsMissing, Active
<1>3. SeenTo'
  BY DEF TypeOK, NewAtFirst, SeenTo, Writes
<1>4. NoHole' /\ LoadedIsStored'
  BY DEF NoHole, LoadedIsStored
<1> QED  BY <1>1, <1>2, <1>3, <1>4

\* Looks: a write that is there is passed over, which sees to it.
LEMMA LooksKeepsInv ==
  ASSUME Inv, NEW a \in Attempts, Looks(a)
  PROVE  Inv'
<1> USE WritesNumbered, AttemptsNumbered
<1>1. stored' = stored /\ last' = last /\ rd' = rd /\ Active(a) /\ a = last
      /\ TypeOK /\ at[a] \in Writes
  BY DEF Inv, Looks, Active, OnlyLastActive, TypeOK, Writes
<1>2. NoHole' /\ LoadedIsStored'
  BY <1>1 DEF Inv, NoHole, LoadedIsStored
<1>3. CASE Missing(at[a])
  <2>1. at' = at /\ state' = [state EXCEPT ![a] = "uploading"]
    BY <1>3 DEF Looks
  <2>2. TypeOK'
    BY <1>1, <2>1 DEF TypeOK, Active
  <2>3. OnlyLastActive' /\ NewAtFirst' /\ SeenTo'
    BY <1>1, <2>1 DEF Inv, TypeOK, OnlyLastActive, NewAtFirst, SeenTo, Active
  <2>4. SoughtIsMissing'
    BY <1>1, <1>3, <2>1 DEF Inv, TypeOK, SoughtIsMissing, Missing
  <2> QED  BY <1>2, <2>2, <2>3, <2>4 DEF Inv
<1>4. CASE ~Missing(at[a])
  <2>1. MovesOn(a)
    BY <1>4 DEF Looks
  <2>2. /\ at' \in [Attempts -> 1..N + 1]
        /\ state' \in [Attempts -> {"new", "looking", "uploading", "done", "stopped"}]
        /\ \A d \in Attempts : d # a => at'[d] = at[d] /\ state'[d] = state[d]
        /\ at'[a] = at[a] + 1
        /\ state'[a] \in {"looking", "done"}
        /\ at'[a] = N + 1 <=> state'[a] = "done"
    BY <1>1, <2>1, MovesOnIs
  <2>3. TypeOK'
    BY <1>1, <2>2 DEF TypeOK
  <2>4. OnlyLastActive' /\ NewAtFirst' /\ SoughtIsMissing'
    BY <1>1, <2>2 DEF Inv, OnlyLastActive, NewAtFirst, SoughtIsMissing, Active
  <2>5. SeenTo'
    BY <1>1, <1>4, <2>2 DEF Inv, TypeOK, SeenTo, Missing, Writes
  <2> QED  BY <1>2, <2>3, <2>4, <2>5 DEF Inv
<1> QED  BY <1>3, <1>4

\* Uploads: the only step that writes, and what it writes was missing or special.
LEMMA UploadsOnce ==
  ASSUME Inv, NEW a \in Attempts, Uploads(a)
  PROVE  /\ at[a] \in Writes
         /\ stored' \in [Writes -> Attempts \cup {0}]
         /\ stored'[at[a]] = a /\ a # 0
         /\ \A i \in Writes : i # at[a] => stored'[i] = stored[i]
         /\ at[a] \in Special \/ stored[at[a]] = 0
BY WritesNumbered, AttemptsNumbered DEF Inv, TypeOK, Uploads, SoughtIsMissing, Writes

\* An upload fills the place it was made for, and its attempt goes on.
LEMMA UploadsKeepsInv ==
  ASSUME Inv, NEW a \in Attempts, Uploads(a)
  PROVE  Inv'
<1> USE WritesNumbered, AttemptsNumbered
<1>1. last' = last /\ rd' = rd /\ Active(a) /\ a = last /\ TypeOK /\ MovesOn(a)
      /\ SeenTo /\ NoHole /\ LoadedIsStored /\ OnlyLastActive /\ NewAtFirst /\ SoughtIsMissing
  BY DEF Inv, Uploads, Active, OnlyLastActive
<1>2. /\ at[a] \in Writes
      /\ stored' \in [Writes -> Attempts \cup {0}]
      /\ stored'[at[a]] = a /\ a # 0
      /\ \A i \in Writes : i # at[a] => stored'[i] = stored[i]
      /\ at[a] \in Special \/ stored[at[a]] = 0
  BY UploadsOnce
<1>3. /\ at' \in [Attempts -> 1..N + 1]
      /\ state' \in [Attempts -> {"new", "looking", "uploading", "done", "stopped"}]
      /\ \A d \in Attempts : d # a => at'[d] = at[d] /\ state'[d] = state[d]
      /\ at'[a] = at[a] + 1
      /\ state'[a] \in {"looking", "done"}
      /\ at'[a] = N + 1 <=> state'[a] = "done"
  BY <1>1, MovesOnIs
<1>4. TypeOK'
  BY <1>1, <1>2, <1>3 DEF TypeOK
<1>5. OnlyLastActive' /\ NewAtFirst'
  BY <1>1, <1>3 DEF OnlyLastActive, NewAtFirst, Active
<1>6. SoughtIsMissing'
  <2>1. \A d \in Attempts : state'[d] # "uploading"
    BY <1>1, <1>3 DEF OnlyLastActive, Active
  <2> QED  BY <2>1 DEF SoughtIsMissing
<1>7. SeenTo'
  BY <1>1, <1>2, <1>3 DEF SeenTo, TypeOK, Writes
<1>8. NoHole'
  <2>1. \A i \in Writes : i < at[a] => stored[i] # 0
    BY <1>1, <1>2 DEF SeenTo
  <2>2. SUFFICES ASSUME NEW i \in Writes, NEW j \in Writes, i < j, stored'[j] # 0
                 PROVE  stored'[i] # 0
    BY DEF NoHole
  <2>3. CASE i = at[a]
    BY <1>2, <2>3
  <2>4. CASE i # at[a] /\ j = at[a]
    BY <1>2, <2>1, <2>2, <2>4
  <2>5. CASE i # at[a] /\ j # at[a]
    BY <1>1, <1>2, <2>2, <2>5 DEF NoHole
  <2> QED  BY <2>3, <2>4, <2>5
<1>9. LoadedIsStored'
  BY <1>1, <1>2 DEF LoadedIsStored, TypeOK
<1> QED  BY <1>4, <1>5, <1>6, <1>7, <1>8, <1>9 DEF Inv

\* Stops: what the attempt has seen to stays seen to.
LEMMA StopsKeepsInv ==
  ASSUME Inv, NEW a \in Attempts, Stops(a)
  PROVE  Inv'
<1> USE WritesNumbered, AttemptsNumbered DEF Inv, Stops
<1>1. TypeOK'
  BY DEF TypeOK
<1>2. OnlyLastActive' /\ NewAtFirst' /\ SoughtIsMissing'
  BY DEF TypeOK, OnlyLastActive, NewAtFirst, SoughtIsMissing, Active
<1>3. SeenTo' /\ NoHole' /\ LoadedIsStored'
  BY DEF SeenTo, NoHole, LoadedIsStored
<1> QED  BY <1>1, <1>2, <1>3

\* A reader changes nothing, and what it loads it loads from what is stored.
LEMMA ReaderKeepsInv ==
  ASSUME Inv, NEW a \in Attempts, Lists(a) \/ Loads(a)
  PROVE  Inv'
<1>1. UNCHANGED <<stored, state, at, last>> /\ TypeOK /\ LoadedIsStored
  BY DEF Inv, Lists, Loads
<1>2. OnlyLastActive' /\ NewAtFirst' /\ SoughtIsMissing' /\ SeenTo' /\ NoHole'
  BY <1>1 DEF Inv, OnlyLastActive, NewAtFirst, SoughtIsMissing, SeenTo, NoHole, Active
<1>3. CASE Lists(a)
  <2>1. rd' = [by |-> a, listed |-> {i \in Writes : stored[i] # 0},
               loaded |-> [i \in Writes |-> 0]]
    BY <1>3 DEF Lists, NoRead
  <2>2. TypeOK' /\ LoadedIsStored'
    BY <1>1, <2>1 DEF TypeOK, LoadedIsStored
  <2> QED  BY <1>2, <2>2 DEF Inv
<1>4. CASE Loads(a)
  <2> DEFINE i == Min(rd.listed)
  <2>1. rd' = [rd EXCEPT !.listed = rd.listed \ {i}, !.loaded[i] = stored[i]]
    BY <1>4 DEF Loads
  <2> HIDE DEF i
  <2>2. TypeOK'
    BY <1>1, <2>1 DEF TypeOK
  <2>3. LoadedIsStored'
    BY <1>1, <2>1 DEF TypeOK, LoadedIsStored
  <2> QED  BY <1>2, <2>2, <2>3 DEF Inv
<1> QED  BY <1>3, <1>4

\* A step of nobody changes nothing.
LEMMA StutterKeepsInv == Inv /\ UNCHANGED vars => Inv'
BY DEF Inv, vars, TypeOK, OnlyLastActive, NewAtFirst, SoughtIsMissing, SeenTo, NoHole,
       LoadedIsStored, Active

\* Every step of the attempts and of the reader keeps the invariant.
LEMMA NextKeepsInv == Inv /\ [Next]_vars => Inv'
<1> SUFFICES ASSUME Inv, [Next]_vars PROVE Inv'
  OBVIOUS
<1>1. CASE UNCHANGED vars
  BY <1>1, StutterKeepsInv
<1>2. ASSUME NEW a \in Attempts, Starts(a) \/ Looks(a) \/ Uploads(a) \/ Stops(a)
      PROVE  Inv'
  BY <1>2, StartsKeepsInv, LooksKeepsInv, UploadsKeepsInv, StopsKeepsInv
<1>3. ASSUME NEW a \in Attempts, Lists(a) \/ Loads(a) PROVE Inv'
  BY <1>3, ReaderKeepsInv
<1>4. Async \subseteq Attempts
  BY AttemptsNumbered
<1> QED
  BY <1>1, <1>2, <1>3, <1>4
     DEF Next, PutWrites, APutWrites, LoadPendingWrites, ALoadPendingWrites

\* The inductive invariant of the pending writes.
LEMMA InvHolds == Spec => []Inv
BY InvInit, NextKeepsInv, PTL DEF Spec

--------------------------------------------------------------------------------
(***************************************************************************)
(* put_writes, _load_pending_writes: every variable keeps its type, and an *)
(* attempt is past its last write exactly when it is done.                 *)
(***************************************************************************)
THEOREM TypeCorrect == Spec => []TypeOK
BY InvHolds, PTL DEF Inv

(***************************************************************************)
(* put_writes: whatever attempts there are, where they stop and however    *)
(* they are started again, the writes there are have no hole.              *)
(***************************************************************************)
THEOREM NeverAHole == Spec => []NoHole
BY InvHolds, PTL DEF Inv

(***************************************************************************)
(* put_writes: an attempt that ended left all writes of the task, the      *)
(* special ones its own.                                                   *)
(***************************************************************************)
THEOREM AllWritesThere == Spec => []LastWritesThere
<1>1. Inv => LastWritesThere
  <2> SUFFICES ASSUME Inv, last # 0, state[last] = "done"
               PROVE  \A i \in Writes : IF i \in Special THEN stored[i] = last
                                        ELSE stored[i] # 0
    BY DEF LastWritesThere
  <2>1. last \in Attempts /\ at[last] = N + 1
    BY DEF Inv, TypeOK
  <2>2. \A i \in Writes : i < at[last]
    BY <2>1, WritesNumbered DEF Writes
  <2> QED  BY <2>2 DEF Inv, SeenTo
<1> QED  BY <1>1, InvHolds, PTL

(***************************************************************************)
(* _load_pending_writes: what a reader has loaded is what is stored, while *)
(* the attempts go on.                                                     *)
(***************************************************************************)
THEOREM LoadedStays == Spec => []LoadedIsStored
BY InvHolds, PTL DEF Inv

(***************************************************************************)
(* put_writes and _load_pending_writes: the three of them together.        *)
(***************************************************************************)
THEOREM WritesAreKept == Spec => []WritesKept
BY NeverAHole, AllWritesThere, LoadedStays, PTL DEF WritesKept

(***************************************************************************)
(* put_writes: a write that is there keeps its value, except the special   *)
(* ones.                                                                   *)
(***************************************************************************)
THEOREM WrittenOnce == Spec => WriteOnce
<1>1. ASSUME Inv, [Next]_vars
      PROVE  \A i \in Writes \ Special : stored[i] # 0 => stored'[i] = stored[i]
  <2>1. CASE stored' = stored
    BY <2>1
  <2>2. ASSUME NEW a \in Attempts, Uploads(a)
        PROVE  \A i \in Writes \ Special : stored[i] # 0 => stored'[i] = stored[i]
    BY <1>1, <2>2, UploadsOnce
  <2>3. stored' = stored \/ \E a \in Attempts : Uploads(a)
    BY <1>1, AttemptsNumbered
       DEF Next, PutWrites, APutWrites, LoadPendingWrites, ALoadPendingWrites, vars,
           Starts, Looks, Stops, Lists, Loads
  <2> QED  BY <2>1, <2>2, <2>3
<1> QED  BY <1>1, InvHolds, PTL DEF Spec, WriteOnce

--------------------------------------------------------------------------------
(***************************************************************************)
(* Every scene of MCBlobCheckpoints keeps what its instance of the saver   *)
(* keeps: the invariant, and what its calls are about.                     *)
(***************************************************************************)
SceneInv ==
  /\ scene \in {"pending writes", "saves", "late", "reads", "newest", "lists"}
  /\ scene \in {"pending writes", "saves"} => Saves!Inv /\ Saves!HintInv
  /\ scene = "late" => Late!Inv
  /\ scene = "reads" => Reads!Inv /\ Reads!HintInv /\ Reads!ReadInv
  /\ scene = "newest" => Newest!Inv /\ Newest!HintInv
  /\ scene = "lists" => ListsOf!Inv /\ ListsOf!HintInv /\ ListsOf!ListInv

\* No scene prunes what a run builds on, and none with late uploads collects.
LEMMA AllSheltered ==
  Saves!Sheltered /\ Late!Sheltered /\ Reads!Sheltered /\ Newest!Sheltered /\ ListsOf!Sheltered
<1>1. Ids \subseteq Nat \ {0}
  BY IdsAreTimes DEF Saves!IdsPositive
<1> QED
  BY <1>1 DEF Saves!Sheltered, Late!Sheltered, Reads!Sheltered, Newest!Sheltered,
     ListsOf!Sheltered, Saves!IdsPositive, Late!IdsPositive, Reads!IdsPositive,
     Newest!IdsPositive, ListsOf!IdsPositive, Saves!FlagsBoolean, Late!FlagsBoolean,
     Reads!FlagsBoolean, Newest!FlagsBoolean, ListsOf!FlagsBoolean

\* Every scene begins as its instance does.
LEMMA SceneInit == SaverInit => SceneInv
<1> USE AllSheltered
<1>1. Saves!Init => Saves!Inv /\ Saves!HintInv
  BY Saves!InvInit, Saves!RestInit
<1>2. Late!Init => Late!Inv
  BY Late!InvInit
<1>3. Reads!Init => Reads!Inv /\ Reads!HintInv /\ Reads!ReadInv
  BY Reads!InvInit, Reads!RestInit
<1>4. Newest!Init => Newest!Inv /\ Newest!HintInv
  BY Newest!InvInit, Newest!RestInit
<1>5. ListsOf!Init => ListsOf!Inv /\ ListsOf!HintInv /\ ListsOf!ListInv
  BY ListsOf!InvInit, ListsOf!RestInit
<1> QED  BY <1>1, <1>2, <1>3, <1>4, <1>5 DEF SaverInit, SceneInv

\* And goes on as its instance does; pending writes leave the checkpoints alone.
LEMMA SceneNext == SceneInv /\ [SaverNext]_<<scene, vars, cVars>> => SceneInv'
<1> SUFFICES ASSUME SceneInv, [SaverNext]_<<scene, vars, cVars>>  PROVE SceneInv'
  OBVIOUS
<1> USE AllSheltered
<1>1. scene' = scene
  BY DEF SaverNext
<1>2. UNCHANGED cVars =>
        UNCHANGED Saves!vars /\ UNCHANGED Late!vars /\ UNCHANGED Reads!vars
        /\ UNCHANGED Newest!vars /\ UNCHANGED ListsOf!vars
  BY DEF cVars, Saves!vars, Late!vars, Reads!vars, Newest!vars, ListsOf!vars,
     Saves!blobVars, Late!blobVars, Reads!blobVars, Newest!blobVars, ListsOf!blobVars
<1>3. CASE scene \in {"pending writes", "saves"}
  <2>1. Saves!Inv /\ Saves!HintInv /\ (Saves!Next \/ UNCHANGED Saves!vars)
    BY <1>2, <1>3 DEF SceneInv, SaverNext
  <2>2. Saves!Inv' /\ Saves!HintInv'
    BY <2>1, Saves!InvNext, Saves!HintNext
  <2> QED  BY <1>1, <1>3, <2>2 DEF SceneInv
<1>4. CASE scene = "late"
  <2>1. Late!Inv /\ (Late!Next \/ UNCHANGED Late!vars)
    BY <1>2, <1>4 DEF SceneInv, SaverNext
  <2>2. Late!Inv'
    BY <2>1, Late!InvNext
  <2> QED  BY <1>1, <1>4, <2>2 DEF SceneInv
<1>5. CASE scene = "reads"
  <2>1. Reads!Inv /\ Reads!HintInv /\ Reads!ReadInv /\ (Reads!Next \/ UNCHANGED Reads!vars)
    BY <1>2, <1>5 DEF SceneInv, SaverNext
  <2>2. Reads!Inv' /\ Reads!HintInv' /\ Reads!ReadInv'
    BY <2>1, Reads!InvNext, Reads!HintNext, Reads!ReadNext
  <2> QED  BY <1>1, <1>5, <2>2 DEF SceneInv
<1>6. CASE scene = "newest"
  <2>1. Newest!Inv /\ Newest!HintInv /\ (Newest!Next \/ UNCHANGED Newest!vars)
    BY <1>2, <1>6 DEF SceneInv, SaverNext
  <2>2. Newest!Inv' /\ Newest!HintInv'
    BY <2>1, Newest!InvNext, Newest!HintNext
  <2> QED  BY <1>1, <1>6, <2>2 DEF SceneInv
<1>7. CASE scene = "lists"
  <2>1. /\ ListsOf!Inv /\ ListsOf!HintInv /\ ListsOf!ListInv
        /\ ListsOf!Next \/ UNCHANGED ListsOf!vars
    BY <1>2, <1>7 DEF SceneInv, SaverNext
  <2>2. ListsOf!Inv' /\ ListsOf!HintInv' /\ ListsOf!ListInv'
    BY <2>1, ListsOf!InvNext, ListsOf!HintNext, ListsOf!ListNext
  <2> QED  BY <1>1, <1>7, <2>2 DEF SceneInv
<1> QED  BY <1>3, <1>4, <1>5, <1>6, <1>7 DEF SceneInv

\* The invariant of every scene.
THEOREM SceneInvariance == SaverSpec => []SceneInv
BY SceneInit, SceneNext, PTL DEF SaverSpec

\* put, delete_checkpoints_before, collect_orphaned_values: a checkpoint that exists is
\* whole, in every scene.
THEOREM CheckpointsAreComplete == SaverSpec => []CommittedComplete
<1>1. SceneInv => CommittedComplete
  <2> SUFFICES ASSUME SceneInv  PROVE CommittedComplete
    OBVIOUS
  <2> USE DEF SceneInv, CommittedComplete, TwoChannels
  <2>1. CASE scene \in {"pending writes", "saves"}
    BY <2>1 DEF Saves!Inv
  <2>2. CASE scene = "late"
    <3>1. Late!CommittedComplete
      BY <2>2 DEF Late!Inv
    <3> QED  BY <2>2, <3>1 DEF Late!CommittedComplete, Saves!CommittedComplete, Late!Needs, Saves!Needs
  <2>3. CASE scene = "reads"
    BY <2>3 DEF Reads!Inv
  <2>4. CASE scene = "newest"
    <3>1. Newest!CommittedComplete
      BY <2>4 DEF Newest!Inv
    <3> QED  BY <2>4, <3>1 DEF Newest!CommittedComplete, ListsOf!CommittedComplete, Newest!Needs,
             ListsOf!Needs
  <2>5. CASE scene = "lists"
    BY <2>5 DEF ListsOf!Inv
  <2> QED  BY <2>1, <2>2, <2>3, <2>4, <2>5
<1> QED  BY <1>1, SceneInvariance, PTL

\* put, latest.json: a clean pointer to a checkpoint that exists names the newest, in
\* every scene where no upload is late.
THEOREM PointersAreNewest == SaverSpec => []HintIsNewest
<1>1. SceneInv => HintIsNewest
  <2> SUFFICES ASSUME SceneInv, scene # "late"  PROVE Saves!HintIsNewest
    BY DEF HintIsNewest
  <2> USE DEF SceneInv
  <2>1. CASE scene \in {"pending writes", "saves"}
    BY <2>1 DEF Saves!HintInv
  <2>2. CASE scene = "reads"
    <3>1. Reads!HintIsNewest
      BY <2>2 DEF Reads!HintInv
    <3> QED  BY <3>1, Zenon DEF Reads!HintIsNewest, Saves!HintIsNewest, Reads!Newest, Saves!Newest,
             Reads!NoId, Saves!NoId, Reads!Max, Saves!Max
  <2>3. CASE scene = "newest"
    <3>1. Newest!HintIsNewest
      BY <2>3 DEF Newest!HintInv
    <3> QED  BY <3>1, Zenon DEF Newest!HintIsNewest, Saves!HintIsNewest, Newest!Newest, Saves!Newest,
             Newest!NoId, Saves!NoId, Newest!Max, Saves!Max
  <2>4. CASE scene = "lists"
    <3>1. ListsOf!HintIsNewest
      BY <2>4 DEF ListsOf!HintInv
    <3> QED  BY <3>1, Zenon DEF ListsOf!HintIsNewest, Saves!HintIsNewest, ListsOf!Newest, Saves!Newest,
             ListsOf!NoId, Saves!NoId, ListsOf!Max, Saves!Max
  <2> QED  BY <2>1, <2>2, <2>3, <2>4
<1> QED  BY <1>1, SceneInvariance, PTL

\* get_tuple, list: a checkpoint that is read and still exists has all of its values, and
\* a list holds what its bound and limit ask for.
THEOREM ReadsAreFaithful == SaverSpec => []ReadsFaithful
<1>1. SceneInv => ReadsFaithful
  BY DEF SceneInv, ReadsFaithful, Reads!ReadInv, ListsOf!ListInv, ListsOf!ListExact, ListsOf!Listing
<1> QED  BY <1>1, SceneInvariance, PTL

\* get_tuple, put: where the newest is read, puts and reads are those of a history.
THEOREM HistoryKept == scene = "newest" /\ SaverSpec => RefinesHistory
<1>1. scene = "newest" /\ [SaverNext]_<<scene, vars, cVars>> =>
        (scene = "newest")' /\ [Newest!Next]_Newest!vars
  BY DEF SaverNext, cVars, Newest!vars, Newest!blobVars
<1>2. scene = "newest" /\ SaverInit => Newest!Init
  BY DEF SaverInit
<1>3. Newest!Spec => Newest!RefinesHistory
  BY AllSheltered, Newest!Refinement
<1> QED  BY <1>1, <1>2, <1>3, PTL DEF SaverSpec, Newest!Spec, RefinesHistory

\* put_writes: beside the checkpoints, too, no write of a task is lost.
THEOREM WritesAreKeptBeside == SaverSpec => []WritesKept
<1>1. SaverInit => Init
  BY DEF SaverInit
<1>2. [SaverNext]_<<scene, vars, cVars>> => [Next]_vars
  BY DEF SaverNext
<1> QED  BY <1>1, <1>2, WritesAreKept, PTL DEF SaverSpec, Spec
================================================================================
