--------------------------- MODULE BlobPendingWrites ---------------------------
(***************************************************************************)
(* put_writes and the loading of pending writes (checkpointers/            *)
(* azure_blob.py): the writes of one task of one checkpoint, a blob each.  *)
(* The task is attempted again after it stopped; an attempt's values are   *)
(* its own. A write to a special channel (error, interrupt, resume) is     *)
(* uploaded over the one before; another is uploaded only if it is missing.*)
(***************************************************************************)
EXTENDS Integers, FiniteSets, FiniteSetsExt

CONSTANTS N,        \* writes of the task, in order
          Special,  \* those to special channels
          Attempts, \* at the task, numbered
          Async     \* the attempts that use aput_writes and the async reader

ASSUME WritesNumbered == N \in Nat \ {0} /\ Special \subseteq 1..N
ASSUME AttemptsNumbered == Attempts \subseteq Nat \ {0} /\ Async \subseteq Attempts

VARIABLES
  stored, \* stored[i]: the attempt whose write i is there, 0 if none is
  state,  \* state[a]: of attempt a
  at,     \* at[a]: the write attempt a is at
  last,   \* the attempt that started last
  rd      \* the reader: listed and loaded writes

vars == <<stored, state, at, last, rd>>

Writes == 1..N

TypeOK ==
  /\ stored \in [Writes -> Attempts \cup {0}]
  /\ state \in [Attempts -> {"new", "looking", "uploading", "done", "stopped"}]
  /\ at \in [Attempts -> 1..N + 1] /\ last \in Attempts \cup {0}
  /\ \A a \in Attempts : at[a] = N + 1 <=> state[a] = "done"
  /\ rd \in [by : Attempts \cup {0}, listed : SUBSET Writes,
             loaded : [Writes -> Attempts \cup {0}]]

NoRead == [by |-> 0, listed |-> {}, loaded |-> [i \in Writes |-> 0]]

Init ==
  /\ stored = [i \in Writes |-> 0]
  /\ state = [a \in Attempts |-> "new"] /\ at = [a \in Attempts |-> 1]
  /\ last = 0 /\ rd = NoRead

\* An attempt runs under the lock of its thread: the one before has stopped.
Starts(a) ==
  /\ state[a] = "new"
  /\ \A d \in Attempts : state[d] \notin {"looking", "uploading"}
  /\ state' = [state EXCEPT ![a] = "looking"]
  /\ last' = a
  /\ UNCHANGED <<stored, at, rd>>

MovesOn(a) ==
  /\ at' = [at EXCEPT ![a] = @ + 1]
  /\ state' = [state EXCEPT ![a] = IF at[a] = N THEN "done" ELSE "looking"]

\* Mutant of Missing: special writes are looked up too.
MissingPlain(i) == stored[i] = 0

\* A write that is uploaded. It is looked up first, if it is not special.
Missing(i) == i \in Special \/ stored[i] = 0

Looks(a) ==
  /\ state[a] = "looking"
  /\ IF Missing(at[a]) THEN state' = [state EXCEPT ![a] = "uploading"] /\ UNCHANGED at
     ELSE MovesOn(a)
  /\ UNCHANGED <<stored, last, rd>>

Uploads(a) ==
  /\ state[a] = "uploading"
  /\ stored' = [stored EXCEPT ![at[a]] = a]
  /\ MovesOn(a)
  /\ UNCHANGED <<last, rd>>

\* A crash, a failed upload, a lost lock.
Stops(a) ==
  /\ state[a] \in {"looking", "uploading"}
  /\ state' = [state EXCEPT ![a] = "stopped"]
  /\ UNCHANGED <<stored, at, last, rd>>

\* _load_pending_writes: the writes there are, then each of them, by name.
Lists(a) ==
  /\ rd.listed = {}
  /\ rd' = [NoRead EXCEPT !.by = a, !.listed = {i \in Writes : stored[i] # 0}]
  /\ UNCHANGED <<stored, state, at, last>>

Loads(a) ==
  /\ rd.by = a /\ rd.listed # {}
  /\ LET i == Min(rd.listed) IN
       rd' = [rd EXCEPT !.listed = @ \ {i}, !.loaded[i] = stored[i]]
  /\ UNCHANGED <<stored, state, at, last>>

LoadPendingWrites == \E a \in Attempts \ Async : Lists(a) \/ Loads(a)

ALoadPendingWrites == \E a \in Async : Lists(a) \/ Loads(a)

PutWrites == \E a \in Attempts \ Async : Starts(a) \/ Looks(a) \/ Uploads(a) \/ Stops(a)

APutWrites == \E a \in Async : Starts(a) \/ Looks(a) \/ Uploads(a) \/ Stops(a)

Next == PutWrites \/ APutWrites \/ LoadPendingWrites \/ ALoadPendingWrites

Spec == Init /\ [][Next]_vars

--------------------------------------------------------------------------------
\* put_writes: however often the task is attempted again, a write that is there
\* keeps its value, the one a resumed run may have seen; special ones excepted.
WriteOnce == [][\A i \in Writes \ Special : stored[i] # 0 => stored'[i] = stored[i]]_vars

\* put_writes: an attempt that ran to its end leaves every write of the task
\* there, and the special ones are its own, until the next attempt starts.
LastWritesThere ==
  last # 0 /\ state[last] = "done" =>
    \A i \in Writes : IF i \in Special THEN stored[i] = last ELSE stored[i] # 0

\* put_writes: what is there is the first writes in order, special ones included:
\* a stopped attempt leaves no hole.
NoHole == \A i, j \in Writes : i < j /\ stored[j] # 0 => stored[i] # 0

\* _load_pending_writes: what a reader loaded while attempts went on and stopped is
\* what the others find, special writes excepted.
LoadedIsStored ==
  \A i \in Writes \ Special : rd.loaded[i] # 0 => stored[i] = rd.loaded[i]

\* put_writes and _load_pending_writes: what a resumed run may rely on, however often
\* its tasks are attempted and wherever an attempt stops.
WritesKept == NoHole /\ LastWritesThere /\ LoadedIsStored
================================================================================
