--------------------- MODULE AzureTableThreadStore_proofs ---------------------
(***************************************************************************)
(* The ETag protocol of AzureTableThreadStore is sound for any number of   *)
(* clients, tokens, payloads and attempts, and it implements the contract  *)
(* of the thread stores. Every operation is made of a few shapes of step   *)
(* (answer, store, keep a snapshot, retry), and each shape has its lemma.  *)
(***************************************************************************)
EXTENDS AzureTableThreadStore, TLAPS

\* What the record operators return is again a thread.
LEMMA RecordTypes ==
  ASSUME NEW t \in Threads
  PROVE  /\ \A a \in Assistants, k \in Tokens : Acquired(t, a, k) \in Threads
         /\ \A s \in Terminal, v \in Payloads \cup {None} : Released(t, s, v) \in Threads
         /\ \A m \in Payloads : Updated(t, m) \in Threads
         /\ \A s \in Terminal : SweptTo(t, s) \in Threads
<1> USE DEF Threads, Statuses, Terminal
<1>1. ASSUME NEW a \in Assistants, NEW k \in Tokens
      PROVE  Acquired(t, a, k) \in Threads
  BY DEF Acquired, OrElse
<1>2. ASSUME NEW s \in Terminal, NEW v \in Payloads \cup {None}
      PROVE  Released(t, s, v) \in Threads
  BY DEF Released, OrElse
<1>3. \A m \in Payloads : Updated(t, m) \in Threads
  BY DEF Updated
<1>4. \A s \in Terminal : SweptTo(t, s) \in Threads
  BY DEF SweptTo
<1> QED
  BY <1>1, <1>2, <1>3, <1>4

\* A thread that is created is one of the store's.
LEMMA NewThreadType == \A m \in Payloads \cup {None} : NewThread(m) \in Threads
BY DEF NewThread, Threads, Statuses, Terminal

\* A request's fields have their types.
LEMMA RequestTypes ==
  ASSUME NEW r \in Requests
  PROVE  /\ r.op = "acquire" => r.assistant \in Assistants
         /\ r.op = "release" => r.status \in Terminal /\ r.values \in Payloads \cup {None}
         /\ r.op = "update" => r.metadata \in Payloads
BY DEF Requests, Terminal

--------------------------------------------------------------------------------
\* The shapes of step.

\* Answering leaves the row and the other callers' snapshots alone.
LEMMA AnswerInv ==
  ASSUME Inv, NEW c \in Clients, NEW a \in Answers, Answer(c, a)
  PROVE  Inv'
<1> USE DEF Inv, Answer
<1>1. TypeOK'
  BY AttemptsPositive DEF TypeOK
<1>2. SnapshotCurrent'
  BY DEF SnapshotCurrent, Unmodified, TypeOK
<1>3. DecisionStands'
  BY DEF DecisionStands, Unmodified, TypeOK
<1>4. SweepSparesLive'
  BY SweeperIsNoClient DEF SweepSparesLive, Unmodified
<1>5. SnapshotPending'
  BY DEF SnapshotPending, TypeOK
<1> QED
  BY <1>1, <1>2, <1>3, <1>4, <1>5

\* A write outdates every ETag, so nothing read before it can be let through,
\* and overtakes every other pending call.
LEMMA StoreInv ==
  ASSUME Inv, NEW c \in Clients, NEW a \in Answers, NEW t \in Threads \cup {None},
         Store(c, t, a), mine' \in [Clients -> Tokens \cup {None}]
  PROVE  Inv'
<1> USE DEF Inv, Store
<1>1. TypeOK'
  <2>1. /\ row' \in Threads \cup {None}
        /\ matching' \subseteq Clients \cup {Sweeper}
        /\ aged' \in BOOLEAN
        /\ sweep' \in BOOLEAN
        /\ overtaken' \subseteq Clients
    BY DEF TypeOK
  <2>2. /\ call' \in [Clients -> Requests \cup {None}]
        /\ ans' \in [Clients -> Answers]
        /\ snap' \in [Clients -> Threads \cup {None}]
    BY DEF TypeOK
  <2>3. tries' \in [Clients -> 0 .. MaxAttempts - 1]
    BY AttemptsPositive DEF TypeOK
  <2> QED
    BY <2>1, <2>2, <2>3 DEF TypeOK
<1>2. SnapshotCurrent' /\ DecisionStands' /\ SweepSparesLive'
  BY DEF SnapshotCurrent, DecisionStands, SweepSparesLive, Unmodified
<1>3. SnapshotPending'
  BY DEF SnapshotPending, TypeOK
<1> QED
  BY <1>1, <1>2, <1>3

\* Keeping what was read, when the decision on it was to go on.
LEMMA ReadInv ==
  ASSUME Inv, NEW c \in Clients, NEW a \in Answers, Read(c, a), call[c] # None,
         row # None /\ call[c].op = "acquire" =>
           row.status # "busy" /\ ~Mismatch(row, call[c].assistant),
         row # None /\ call[c].op \in {"release", "renew"} => row.token = call[c].token
  PROVE  Inv'
<1>1. CASE row = None
  BY <1>1, AnswerInv DEF Read
<1>2. CASE row # None
  <2> USE <1>2 DEF Inv, Read
  <2>1. TypeOK'
    BY DEF TypeOK
  <2>2. SnapshotCurrent'
    BY DEF SnapshotCurrent, Unmodified, TypeOK
  <2>3. DecisionStands'
    BY DEF DecisionStands, Unmodified, TypeOK
  <2>4. SweepSparesLive'
    BY SweeperIsNoClient DEF SweepSparesLive, Unmodified
  <2>5. SnapshotPending'
    BY DEF SnapshotPending, TypeOK
  <2> QED
    BY <2>1, <2>2, <2>3, <2>4, <2>5
<1> QED
  BY <1>1, <1>2

\* A conflict starts the attempt over or ends the call.
LEMMA ConflictInv ==
  ASSUME Inv, NEW c \in Clients, NEW a \in Answers, NEW n \in 1 .. MaxAttempts,
         Conflict(c, n, a)
  PROVE  Inv'
<1>1. CASE Answer(c, a)
  BY <1>1, AnswerInv
<1>2. CASE /\ tries[c] + 1 < n
           /\ snap' = [snap EXCEPT ![c] = None]
           /\ tries' = [tries EXCEPT ![c] = @ + 1]
           /\ UNCHANGED <<row, matching, aged, call, ans, mine, sweep, overtaken>>
  <2> USE <1>2 DEF Inv
  <2>1. TypeOK'
    BY AttemptsPositive DEF TypeOK
  <2>2. SnapshotCurrent'
    BY DEF SnapshotCurrent, Unmodified, TypeOK
  <2>3. DecisionStands'
    BY DEF DecisionStands, Unmodified, TypeOK
  <2>4. SweepSparesLive'
    BY DEF SweepSparesLive, Unmodified
  <2>5. SnapshotPending'
    BY DEF SnapshotPending, TypeOK
  <2> QED
    BY <2>1, <2>2, <2>3, <2>4, <2>5
<1> QED
  BY <1>1, <1>2 DEF Conflict

--------------------------------------------------------------------------------
\* A thread that was just created has no reader and no sweep.
LEMMA InitInv == Init => Inv
<1> SUFFICES ASSUME Init PROVE Inv
  OBVIOUS
<1>1. row \in Threads
  BY NewThreadType DEF Init
<1>2. /\ tries \in [Clients -> 0 .. MaxAttempts - 1]
      /\ ans \in [Clients -> Answers]
      /\ sweep \in BOOLEAN /\ aged \in BOOLEAN
  <2>1. 0 \in 0 .. MaxAttempts - 1
    BY AttemptsPositive
  <2> QED
    BY <2>1 DEF Init, Answers
<1>3. TypeOK
  BY <1>1, <1>2 DEF Init, TypeOK
<1>4. SnapshotCurrent /\ DecisionStands /\ SweepSparesLive /\ SnapshotPending
  BY DEF Init, SnapshotCurrent, DecisionStands, SweepSparesLive, SnapshotPending
<1> QED
  BY <1>3, <1>4 DEF Inv

\* A client that starts a call has read nothing for it yet.
LEMMA CallInv ==
  ASSUME Inv, NEW c \in Clients, NEW r \in Requests, Call(c, r)
  PROVE  Inv'
<1> USE DEF Inv, Call
<1>1. TypeOK'
  BY DEF TypeOK, Answers
<1>2. snap[c] = None
  BY DEF SnapshotPending
<1>3. SnapshotCurrent' /\ SweepSparesLive'
  BY DEF SnapshotCurrent, SweepSparesLive, Unmodified
<1>4. DecisionStands'
  BY <1>2 DEF DecisionStands, Unmodified, TypeOK
<1>5. SnapshotPending'
  BY <1>2, NoneIsNone DEF SnapshotPending, TypeOK
<1> QED
  BY <1>1, <1>3, <1>4, <1>5

\* Every step of an operation is one of the shapes above.
LEMMA ExecuteInv ==
  ASSUME Inv, NEW c \in Clients, Execute(c)
  PROVE  Inv'
<1> DEFINE r == call[c]
<1>t. /\ r \in Requests
      /\ call[c] # None
      /\ row \in Threads \cup {None}
      /\ snap[c] \in Threads \cup {None}
      /\ mine \in [Clients -> Tokens \cup {None}]
      /\ 1 \in 1 .. MaxAttempts /\ MaxAttempts \in 1 .. MaxAttempts
      /\ {"done", "refused", "missing", "mismatch", "conflict", "raised"} \subseteq Answers
  BY AttemptsPositive DEF Execute, Inv, TypeOK, Answers
<1>1. ASSUME AcquireRead(c) PROVE Inv'
  BY <1>1, <1>t, AnswerInv, ReadInv DEF AcquireRead
<1>2. ASSUME AcquireWrite(c) PROVE Inv'
  <2>1. ASSUME NEW k \in Tokens, NEW a \in {"done", "raised"}, row # None,
               Store(c, Acquired(row, r.assistant, k), a),
               mine' = [mine EXCEPT ![c] = k] \/ UNCHANGED mine
        PROVE  Inv'
    <3>1. Acquired(row, r.assistant, k) \in Threads
      BY <1>2, <1>t, <2>1, RecordTypes, RequestTypes DEF AcquireWrite
    <3>2. mine' \in [Clients -> Tokens \cup {None}]
      BY <1>t, <2>1
    <3> QED
      BY <1>t, <2>1, <3>1, <3>2, StoreInv
  <2> QED
    BY <1>2, <1>t, <2>1, AnswerInv, ConflictInv DEF AcquireWrite, Unmodified
<1>3. ASSUME ReleaseRead(c) PROVE Inv'
  BY <1>3, <1>t, AnswerInv, ReadInv DEF ReleaseRead
<1>4. ASSUME ReleaseWrite(c) PROVE Inv'
  <2>1. ASSUME NEW a \in {"done", "raised"},
               Store(c, Released(snap[c], r.status, r.values), a), UNCHANGED mine
        PROVE  Inv'
    <3>1. Released(snap[c], r.status, r.values) \in Threads
      BY <1>4, <1>t, RecordTypes, RequestTypes DEF ReleaseWrite
    <3> QED
      BY <1>t, <2>1, <3>1, StoreInv
  <2> QED
    BY <1>4, <1>t, <2>1, AnswerInv, ConflictInv DEF ReleaseWrite
<1>5. ASSUME RenewRead(c) PROVE Inv'
  BY <1>5, <1>t, AnswerInv, ReadInv DEF RenewRead
<1>6. ASSUME RenewWrite(c) PROVE Inv'
  <2>1. ASSUME NEW a \in {"done", "raised"}, Store(c, row, a), UNCHANGED mine
        PROVE  Inv'
    BY <1>t, <2>1, StoreInv
  <2> QED
    BY <1>6, <1>t, <2>1, AnswerInv, ConflictInv DEF RenewWrite
<1>7. ASSUME UpdateRead(c) PROVE Inv'
  BY <1>7, <1>t, ReadInv DEF UpdateRead
<1>8. ASSUME UpdateWrite(c) PROVE Inv'
  <2>1. ASSUME NEW a \in {"done", "raised"},
               Store(c, Updated(snap[c], r.metadata), a), UNCHANGED mine
        PROVE  Inv'
    <3>1. Updated(snap[c], r.metadata) \in Threads
      BY <1>8, <1>t, RecordTypes, RequestTypes DEF UpdateWrite
    <3> QED
      BY <1>t, <2>1, <3>1, StoreInv
  <2> QED
    BY <1>8, <1>t, <2>1, AnswerInv, ConflictInv DEF UpdateWrite
<1>9. ASSUME Delete(c) PROVE Inv'
  <2>1. ASSUME NEW a \in {"done", "raised"}, Store(c, None, a), UNCHANGED mine
        PROVE  Inv'
    BY <1>t, <2>1, StoreInv
  <2> QED
    BY <1>9, <1>t, <2>1, AnswerInv DEF Delete
<1>10. ASSUME Get(c) \/ Fault(c) PROVE Inv'
  BY <1>10, <1>t, AnswerInv DEF Get, Fault
<1> QED
  BY <1>1, <1>2, <1>3, <1>4, <1>5, <1>6, <1>7, <1>8, <1>9, <1>10 DEF Execute

\* The sweep's steps and the passing of time.
LEMMA SweepInv ==
  ASSUME Inv, SweepQuery \/ SweepReset \/ SweepSkip \/ Age
  PROVE  Inv'
<1> USE DEF Inv
<1>1. ASSUME SweepQuery PROVE Inv'
  <2> USE <1>1 DEF SweepQuery
  <2>1. TypeOK'
    BY DEF TypeOK
  <2>2. SnapshotCurrent' /\ DecisionStands'
    BY SweeperIsNoClient DEF SnapshotCurrent, DecisionStands, Unmodified
  <2>3. SweepSparesLive'
    BY DEF SweepSparesLive
  <2>4. SnapshotPending'
    BY DEF SnapshotPending
  <2> QED
    BY <2>1, <2>2, <2>3, <2>4
<1>2. ASSUME SweepReset PROVE Inv'
  <2> USE <1>2 DEF SweepReset
  <2>1. row' \in Threads
    BY RecordTypes DEF TypeOK, Unmodified, Terminal
  <2>2. TypeOK'
    BY <2>1 DEF TypeOK
  <2>3. SnapshotCurrent' /\ DecisionStands' /\ SweepSparesLive'
    BY DEF SnapshotCurrent, DecisionStands, SweepSparesLive, Unmodified
  <2>4. SnapshotPending'
    BY DEF SnapshotPending
  <2> QED
    BY <2>2, <2>3, <2>4
<1>3. ASSUME SweepSkip PROVE Inv'
  BY <1>3, SweeperIsNoClient DEF SweepSkip, TypeOK, SnapshotCurrent, DecisionStands,
       SweepSparesLive, SnapshotPending, Unmodified
<1>4. ASSUME Age PROVE Inv'
  BY <1>4 DEF Age, TypeOK, SnapshotCurrent, DecisionStands, SweepSparesLive,
       SnapshotPending, Unmodified
<1> QED
  BY <1>1, <1>2, <1>3, <1>4

\* Every step of the clients, of the sweep and of time.
LEMMA NextInv == Inv /\ [Next]_vars => Inv'
<1> SUFFICES ASSUME Inv, [Next]_vars PROVE Inv'
  OBVIOUS
<1>1. CASE Next
  BY <1>1, CallInv, ExecuteInv, SweepInv DEF Next
<1>2. CASE UNCHANGED vars
  BY <1>2 DEF vars, Inv, TypeOK, SnapshotCurrent, DecisionStands, SweepSparesLive,
       SnapshotPending, Unmodified
<1> QED
  BY <1>1, <1>2

(***************************************************************************)
(* The inductive invariant of the ETag protocol.                           *)
(***************************************************************************)
THEOREM Invariance == Spec => []Inv
BY InitInv, NextInv, PTL DEF Spec

(***************************************************************************)
(* A snapshot that still passes IfNotModified is the current row, so the   *)
(* whole-entity replacements of release_run_lock and update never bring    *)
(* back a field that somebody else has written since.                      *)
(***************************************************************************)
THEOREM SnapshotsAreCurrent == Spec => []SnapshotCurrent
<1>1. Inv => SnapshotCurrent
  BY DEF Inv
<1> QED
  BY <1>1, Invariance, PTL

(***************************************************************************)
(* An operation whose write is let through decided on what is still true:  *)
(* no run lock is granted on a busy or otherwise bound thread, none is     *)
(* released or renewed with a token that is not the row's.                 *)
(***************************************************************************)
THEOREM DecisionsStand == Spec => []DecisionStands
<1>1. Inv => DecisionStands
  BY DEF Inv
<1> QED
  BY <1>1, Invariance, PTL

(***************************************************************************)
(* reset_stale_locks never resets a lock acquired or renewed since its     *)
(* query.                                                                  *)
(***************************************************************************)
THEOREM SweepIsSafe == Spec => []SweepSparesLive
<1>1. Inv => SweepSparesLive
  BY DEF Inv
<1> QED
  BY <1>1, Invariance, PTL

--------------------------------------------------------------------------------
\* The step takes the row out of the hands of the run that holds it.
Frees == /\ row # None /\ row.status = "busy" /\ row' # None
         /\ row'.status # "busy" \/ row'.token # row.token

\* Of a client's steps only a release does, and its token is the row's: an
\* acquire needs a free row, a renewal rewrites the row, an update keeps the
\* status and the token.
LEMMA ExecuteFrees ==
  ASSUME Inv, NEW c \in Clients, Execute(c), Frees
  PROVE  call[c] # None /\ call[c].op = "release" /\ call[c].token = row.token
<1>1. call[c] # None /\ row \in Threads /\ row' # row
  BY DEF Execute, Frees, Inv, TypeOK
<1>2. \A a : ~Answer(c, a)
  BY <1>1 DEF Answer
<1>3. \A a : ~Read(c, a)
  BY <1>1, <1>2 DEF Read
<1>4. \A n, a : ~Conflict(c, n, a)
  BY <1>1, <1>2 DEF Conflict
<1>5. ~AcquireRead(c) /\ ~ReleaseRead(c) /\ ~RenewRead(c) /\ ~UpdateRead(c)
  BY <1>2, <1>3 DEF AcquireRead, ReleaseRead, RenewRead, UpdateRead
<1>6. ~Delete(c) /\ ~Get(c) /\ ~Fault(c)
  BY <1>2 DEF Delete, Get, Fault, Store, Frees
<1>7. ~AcquireWrite(c)
  <2> SUFFICES ASSUME AcquireWrite(c) PROVE FALSE
    OBVIOUS
  <2>1. Unmodified(c) /\ call[c].op = "acquire" /\ snap[c] # None
    BY <1>2, <1>4 DEF AcquireWrite
  <2> QED
    BY <1>1, <2>1 DEF Inv, DecisionStands, Frees
<1>8. ~RenewWrite(c)
  BY <1>1, <1>2, <1>4 DEF RenewWrite, Store
<1>9. ~UpdateWrite(c)
  <2> SUFFICES ASSUME UpdateWrite(c) PROVE FALSE
    OBVIOUS
  <2>1. Unmodified(c) /\ snap[c] # None /\ row' = Updated(snap[c], call[c].metadata)
    BY <1>2, <1>4 DEF UpdateWrite, Store
  <2>2. snap[c] = row
    BY <2>1 DEF Inv, SnapshotCurrent
  <2>3. row'.status = row.status /\ row'.token = row.token
    BY <1>1, <2>1, <2>2 DEF Updated, Threads
  <2> QED
    BY <2>3 DEF Frees
<1>10. ReleaseWrite(c)
  BY <1>5, <1>6, <1>7, <1>8, <1>9 DEF Execute
<1>11. Unmodified(c) /\ snap[c] # None /\ call[c].op = "release"
  BY <1>2, <1>4, <1>10 DEF ReleaseWrite
<1> QED
  BY <1>1, <1>11 DEF Inv, DecisionStands

(***************************************************************************)
(* While a run holds the row, only release_run_lock with its token, or     *)
(* reset_stale_locks on a row that is still busy and aged, takes it out of *)
(* its hands; the reset keeps the token. No acquire, renewal or update of  *)
(* anybody else does, however the calls interleave.                        *)
(***************************************************************************)
THEOREM OwnerKeepsRow == Spec => OnlyOwnerOrSweepFrees
<1> DEFINE Safe ==
      \/ \E c \in Clients : call[c] # None /\ call[c].op = "release"
                              /\ call[c].token = row.token
      \/ aged /\ sweep /\ Unmodified(Sweeper) /\ row'.token = row.token
<1>1. ASSUME Inv, Next, Frees PROVE Safe
  <2>1. ASSUME NEW c \in Clients, Execute(c) PROVE Safe
    BY <1>1, <2>1, ExecuteFrees
  <2>2. ASSUME SweepReset PROVE Safe
    <3>1. row'.token = row.token
      BY <1>1, <2>2 DEF SweepReset, SweptTo, Inv, TypeOK, Frees, Threads
    <3> QED
      BY <1>1, <2>2, <3>1 DEF SweepReset, Inv, SweepSparesLive
  <2>3. row' # row
    BY <1>1 DEF Frees
  <2>4. ~SweepQuery /\ ~SweepSkip /\ ~Age /\ \A c \in Clients, r \in Requests : ~Call(c, r)
    BY <2>3 DEF SweepQuery, SweepSkip, Age, Call
  <2> QED
    BY <1>1, <2>1, <2>2, <2>4 DEF Next
<1>2. Inv /\ [Next]_vars => [Frees => Safe]_vars
  BY <1>1
<1>3. [Frees => Safe]_vars <=>
      [row # None /\ row.status = "busy" /\ row' # None
         /\ (row'.status # "busy" \/ row'.token # row.token) =>
       \/ \E c \in Clients : call[c] # None /\ call[c].op = "release"
                               /\ call[c].token = row.token
       \/ aged /\ sweep /\ Unmodified(Sweeper) /\ row'.token = row.token]_vars
  BY DEF Frees
<1> QED
  BY <1>2, <1>3, Invariance, PTL DEF Spec, OnlyOwnerOrSweepFrees

--------------------------------------------------------------------------------
\* The contract's thread records are this module's.
LEMMA SameRecords ==
  /\ \A t, a : Contract!Mismatch(t, a) <=> Mismatch(t, a)
  /\ \A t, a, k : Contract!Acquired(t, a, k) = Acquired(t, a, k)
  /\ \A t, s, v : Contract!Released(t, s, v) = Released(t, s, v)
  /\ \A t, m : Contract!Updated(t, m) = Updated(t, m)
  /\ \A t, s : Contract!SweptTo(t, s) = SweptTo(t, s)
  /\ \A m : Contract!NewThread(m) = NewThread(m)
  /\ \A r : Contract!TokenOf(r) = TokenOf(r)
  /\ Contract!Requests = Requests
BY DEF Mismatch, Contract!Mismatch, Acquired, Contract!Acquired, Released,
     Contract!Released, Updated, Contract!Updated, SweptTo, Contract!SweptTo,
     NewThread, Contract!NewThread, TokenOf, Contract!TokenOf, Requests,
     Contract!Requests, OrElse, Contract!OrElse

\* An answer without a write is one of the contract's.
LEMMA AnswerRefines ==
  ASSUME NEW c \in Clients, NEW a, Answer(c, a)
  PROVE  Contract!Answer(c, a)
BY DEF Answer, Contract!Answer

\* So is a write, of what the contract writes.
LEMMA StoreRefines ==
  ASSUME NEW c \in Clients, NEW a, NEW t, Store(c, t, a)
  PROVE  Contract!Write(c, t, a)
BY DEF Store, Contract!Write

\* A retry is invisible, and giving up is allowed to who was overtaken.
LEMMA ConflictRefines ==
  ASSUME Inv, NEW c \in Clients, NEW n, NEW a, snap[c] # None, Conflict(c, n, a)
  PROVE  \/ c \in overtaken /\ Contract!Answer(c, a)
         \/ UNCHANGED Contract!storeVars
<1>1. c \in overtaken
  BY DEF Conflict, Inv, SnapshotPending
<1> QED
  BY <1>1, AnswerRefines DEF Conflict, Contract!storeVars

\* Keeping a snapshot is invisible.
LEMMA ReadRefines ==
  ASSUME NEW c \in Clients, NEW a, Read(c, a)
  PROVE  \/ row = None /\ Contract!Answer(c, a)
         \/ UNCHANGED Contract!storeVars
BY AnswerRefines DEF Read, Contract!storeVars

\* Each operation takes effect, or answers, as the contract's operation does.
LEMMA AcquireRefines ==
  ASSUME Inv, NEW c \in Clients, AcquireRead(c) \/ AcquireWrite(c)
  PROVE  Contract!Acquire(c) \/ UNCHANGED Contract!storeVars
<1>1. ASSUME AcquireRead(c)
      PROVE  Contract!Acquire(c) \/ UNCHANGED Contract!storeVars
  BY <1>1, SameRecords, AnswerRefines, ReadRefines DEF AcquireRead, Contract!Acquire
<1>2. ASSUME AcquireWrite(c)
      PROVE  Contract!Acquire(c) \/ UNCHANGED Contract!storeVars
  <2>1. ASSUME Unmodified(c), NEW k \in Tokens, FreshToken(k),
               \/ /\ Store(c, Acquired(row, call[c].assistant, k), "done")
                  /\ mine' = [mine EXCEPT ![c] = k]
               \/ /\ Store(c, Acquired(row, call[c].assistant, k), "raised")
                  /\ UNCHANGED mine
        PROVE  Contract!Acquire(c)
    <3>1. row # None /\ row.status # "busy" /\ ~Mismatch(row, call[c].assistant)
      BY <1>2, <2>1, NoneIsNone DEF AcquireWrite, Inv, DecisionStands, SnapshotPending, Unmodified
    <3>2. Contract!FreshToken(k)
      BY <2>1, SameRecords DEF FreshToken, Contract!FreshToken
    <3> QED
      BY <1>2, <2>1, <3>1, <3>2, SameRecords, StoreRefines DEF AcquireWrite, Contract!Acquire
  <2> QED
    BY <1>2, <2>1, SameRecords, AnswerRefines, ConflictRefines DEF AcquireWrite, Contract!Acquire
<1> QED
  BY <1>1, <1>2

\* A release that is let through still finds its token in the row.
LEMMA ReleaseRefines ==
  ASSUME Inv, NEW c \in Clients, ReleaseRead(c) \/ ReleaseWrite(c)
  PROVE  Contract!Release(c) \/ UNCHANGED Contract!storeVars
<1>1. ASSUME ReleaseRead(c)
      PROVE  Contract!Release(c) \/ UNCHANGED Contract!storeVars
  BY <1>1, SameRecords, AnswerRefines, ReadRefines DEF ReleaseRead, Contract!Release
<1>2. ASSUME ReleaseWrite(c)
      PROVE  Contract!Release(c) \/ UNCHANGED Contract!storeVars
  <2>1. ASSUME Unmodified(c), UNCHANGED mine, NEW a \in {"done", "raised"},
               Store(c, Released(snap[c], call[c].status, call[c].values), a)
        PROVE  Contract!Release(c)
    <3>1. row # None /\ row.token = call[c].token /\ snap[c] = row
      BY <1>2, <2>1 DEF ReleaseWrite, Inv, DecisionStands, SnapshotCurrent,
           SnapshotPending, Unmodified
    <3> QED
      BY <1>2, <2>1, <3>1, SameRecords, StoreRefines DEF ReleaseWrite, Contract!Release
  <2> QED
    BY <1>2, <2>1, SameRecords, AnswerRefines, ConflictRefines DEF ReleaseWrite, Contract!Release
<1> QED
  BY <1>1, <1>2

\* A renewal that raises for a missing row is a failed request to the contract.
LEMMA RenewRefines ==
  ASSUME Inv, NEW c \in Clients, RenewRead(c) \/ RenewWrite(c)
  PROVE  \/ Contract!Renew(c)
         \/ Contract!Answer(c, "raised")
         \/ UNCHANGED Contract!storeVars
<1>1. ASSUME RenewRead(c)
      PROVE  \/ Contract!Renew(c)
             \/ Contract!Answer(c, "raised")
             \/ UNCHANGED Contract!storeVars
  BY <1>1, SameRecords, AnswerRefines, ReadRefines DEF RenewRead, Contract!Renew
<1>2. ASSUME RenewWrite(c)
      PROVE  \/ Contract!Renew(c)
             \/ Contract!Answer(c, "raised")
             \/ UNCHANGED Contract!storeVars
  <2>1. ASSUME Unmodified(c), UNCHANGED mine, NEW a \in {"done", "raised"},
               Store(c, row, a)
        PROVE  Contract!Renew(c)
    <3>1. row # None /\ row.token = call[c].token
      BY <1>2, <2>1 DEF RenewWrite, Inv, DecisionStands, SnapshotPending, Unmodified
    <3> QED
      BY <1>2, <2>1, <3>1, SameRecords, StoreRefines DEF RenewWrite, Contract!Renew
  <2> QED
    BY <1>2, <2>1, SameRecords, AnswerRefines, ConflictRefines DEF RenewWrite, Contract!Renew
<1> QED
  BY <1>1, <1>2

\* An update that is let through changes the current row.
LEMMA UpdateRefines ==
  ASSUME Inv, NEW c \in Clients, UpdateRead(c) \/ UpdateWrite(c)
  PROVE  Contract!Update(c) \/ UNCHANGED Contract!storeVars
<1>1. ASSUME UpdateRead(c)
      PROVE  Contract!Update(c) \/ UNCHANGED Contract!storeVars
  BY <1>1, ReadRefines DEF UpdateRead, Contract!Update
<1>2. ASSUME UpdateWrite(c)
      PROVE  Contract!Update(c) \/ UNCHANGED Contract!storeVars
  <2>1. ASSUME Unmodified(c), UNCHANGED mine, NEW a \in {"done", "raised"},
               Store(c, Updated(snap[c], call[c].metadata), a)
        PROVE  Contract!Update(c)
    <3>1. row # None /\ snap[c] = row
      BY <1>2, <2>1 DEF UpdateWrite, Inv, SnapshotCurrent, Unmodified
    <3> QED
      BY <1>2, <2>1, <3>1, SameRecords, StoreRefines DEF UpdateWrite, Contract!Update
  <2> QED
    BY <1>2, <2>1, SameRecords, AnswerRefines, ConflictRefines DEF UpdateWrite, Contract!Update
<1> QED
  BY <1>1, <1>2

\* Every step of an operation is one of the contract's, or invisible.
LEMMA ExecuteRefines ==
  ASSUME Inv, NEW c \in Clients, Execute(c)
  PROVE  Contract!Perform(c) \/ UNCHANGED Contract!storeVars
<1>1. call[c] # None
  BY DEF Execute
<1>2. ASSUME Delete(c) PROVE Contract!Delete(c)
  BY <1>2, SameRecords, AnswerRefines, StoreRefines DEF Delete, Contract!Delete
<1>3. ASSUME Get(c) PROVE Contract!Get(c)
  BY <1>3, SameRecords, AnswerRefines DEF Get, Contract!Get
<1>4. ASSUME Fault(c) PROVE Contract!Answer(c, "raised")
  BY <1>4, SameRecords, AnswerRefines DEF Fault
<1> QED
  BY <1>1, <1>2, <1>3, <1>4, AcquireRefines, ReleaseRefines, RenewRefines,
     UpdateRefines DEF Execute, Contract!Perform

(***************************************************************************)
(* The Azure Table backend implements the contract of the thread stores:   *)
(* each operation takes effect atomically on the current row, or answers   *)
(* that it did not, and gives up only when another write overtook it.      *)
(***************************************************************************)
THEOREM Refinement == Spec => ImplementsContract
<1>1. Init => Contract!Init
  BY SameRecords DEF Init, Contract!Init
<1>2. Inv /\ [Next]_vars => [Contract!Next]_Contract!storeVars
  <2> SUFFICES ASSUME Inv, [Next]_vars
               PROVE  Contract!Next \/ UNCHANGED Contract!storeVars
    BY DEF Contract!storeVars
  <2>1. ASSUME NEW c \in Clients, NEW r \in Requests, Call(c, r)
        PROVE  Contract!Call(c, r)
    BY <2>1, SameRecords DEF Call, Contract!Call, KnownToken, Contract!KnownToken
  <2>2. ASSUME SweepReset PROVE Contract!Sweep
    BY <2>2, SameRecords DEF SweepReset, Contract!Sweep, Inv, SweepSparesLive, Unmodified
  <2>3. ASSUME SweepQuery \/ SweepSkip PROVE UNCHANGED Contract!storeVars
    BY <2>3 DEF SweepQuery, SweepSkip, Contract!storeVars
  <2>4. ASSUME Age PROVE Contract!Age
    BY <2>4 DEF Age, Contract!Age
  <2>5. CASE UNCHANGED vars
    BY <2>5 DEF vars, Contract!storeVars
  <2> QED
    BY <2>1, <2>2, <2>3, <2>4, <2>5, ExecuteRefines, SameRecords DEF Next, Contract!Next
<1> QED
  BY <1>1, <1>2, Invariance, PTL DEF Spec, ImplementsContract, Contract!Spec
===============================================================================
