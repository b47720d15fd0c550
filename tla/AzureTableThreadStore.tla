------------------------- MODULE AzureTableThreadStore -------------------------
(***************************************************************************)
(* AzureTableThreadStore (stores/azure_table.py) for one thread's row: each *)
(* operation is a get_entity, a decision on what was read, and a write     *)
(* conditional on the ETag of the read (match_condition=IfNotModified),    *)
(* retried up to MaxAttempts times. Handlers of several host instances and *)
(* the timer trigger's reset_stale_locks interleave between the calls.     *)
(*                                                                         *)
(* The table service is external. It gives every write a fresh ETag, so an *)
(* ETag that was read still matches the row's exactly until the next write *)
(* of anybody: `matching` keeps who holds such an ETag, and no ETag needs  *)
(* a name. A request may also fail with an error other than a conflict,    *)
(* before or after it took effect; the operations let it propagate.        *)
(***************************************************************************)
EXTENDS ThreadRecord, Integers, FiniteSets

CONSTANTS Clients,      \* handlers and renewal workers
          Sweeper,      \* the timer trigger that resets stale locks
          MaxAttempts   \* the conditional writes one call may try (3)

ASSUME NoneIsNone ==
  /\ None \notin Threads
  /\ None \notin Tokens
  /\ None \notin Requests
ASSUME SweeperIsNoClient == Sweeper \notin Clients
ASSUME AttemptsPositive == MaxAttempts \in Nat \ {0}

VARIABLES
  row,        \* the entity in the table, None when there is none
  matching,   \* holders of an ETag that is still the entity's
  aged,       \* its updated_at is older than the sweep's cutoff
  call,       \* call[c]: the operation client c is executing
  ans,        \* ans[c]: how the client's last call ended, see Answers
  mine,       \* mine[c]: the lock token of the client's last acquire
  snap,       \* snap[c]: the entity read in this attempt
  tries,      \* tries[c]: attempts of this call that ended in a conflict
  sweep,      \* the running sweep has listed the row as stale
  overtaken   \* auxiliary: clients whose call somebody else's write overtook

vars == <<row, matching, aged, call, ans, mine, snap, tries, sweep, overtaken>>

TypeOK ==
  /\ row \in Threads \cup {None}
  /\ matching \subseteq Clients \cup {Sweeper}
  /\ aged \in BOOLEAN
  /\ call \in [Clients -> Requests \cup {None}]
  /\ ans \in [Clients -> Answers]
  /\ mine \in [Clients -> Tokens \cup {None}]
  /\ snap \in [Clients -> Threads \cup {None}]
  /\ tries \in [Clients -> 0 .. MaxAttempts - 1]
  /\ sweep \in BOOLEAN
  /\ overtaken \subseteq Clients

Init ==
  /\ row \in {NewThread(m) : m \in Payloads \cup {None}}
  /\ matching = {}
  /\ aged = FALSE
  /\ call = [c \in Clients |-> None]
  /\ ans = [c \in Clients |-> "none"]
  /\ mine = [c \in Clients |-> None]
  /\ snap = [c \in Clients |-> None]
  /\ tries = [c \in Clients |-> 0]
  /\ sweep = FALSE
  /\ overtaken = {}

--------------------------------------------------------------------------------
\* uuid4 never repeats a token anybody still knows.
FreshToken(k) ==
  /\ row # None => row.token # k
  /\ \A c \in Clients : mine[c] # k /\ TokenOf(call[c]) # k

\* The operation answers a (or raises it) without writing.
Answer(c, a) ==
  /\ call' = [call EXCEPT ![c] = None]
  /\ ans' = [ans EXCEPT ![c] = a]
  /\ snap' = [snap EXCEPT ![c] = None]
  /\ tries' = [tries EXCEPT ![c] = 0]
  /\ overtaken' = overtaken \ {c}
  /\ matching' = matching \ {c}
  /\ UNCHANGED <<row, aged, mine, sweep>>

\* The service stores t, all ETags held become old, the operation answers a.
Store(c, t, a) ==
  /\ row' = t
  /\ aged' = FALSE
  /\ matching' = {}
  /\ call' = [call EXCEPT ![c] = None]
  /\ ans' = [ans EXCEPT ![c] = a]
  /\ snap' = [snap EXCEPT ![c] = None]
  /\ tries' = [tries EXCEPT ![c] = 0]
  /\ overtaken' = {d \in Clients : call[d] # None} \ {c}
  /\ UNCHANGED sweep

\* Mutant of Unmodified: the write is sent without the match condition.
Unconditional(c) == row # None

\* A write is let through by IfNotModified only on an unmodified row.
Unmodified(c) == row # None /\ c \in matching

\* 412: start over while attempts are left, else answer a.
Conflict(c, limit, a) ==
  /\ row # None
  /\ c \notin matching
  /\ \/ /\ tries[c] + 1 < limit
        /\ snap' = [snap EXCEPT ![c] = None]
        /\ tries' = [tries EXCEPT ![c] = @ + 1]
        /\ UNCHANGED <<row, matching, aged, call, ans, mine, sweep, overtaken>>
     \/ /\ tries[c] + 1 >= limit
        /\ Answer(c, a)

--------------------------------------------------------------------------------
\* A renewal worker passes its handler's token.
KnownToken(r) == TokenOf(r) \in {None} \cup {mine[c] : c \in Clients}

Call(c, r) ==
  /\ call[c] = None
  /\ KnownToken(r)
  /\ call' = [call EXCEPT ![c] = r]
  /\ ans' = [ans EXCEPT ![c] = "none"]
  /\ overtaken' = overtaken \ {c}
  /\ UNCHANGED <<row, matching, aged, mine, snap, tries, sweep>>

\* get_entity at the head of an attempt; missing is the answer for no row.
Read(c, missing) ==
  /\ snap[c] = None
  /\ \/ /\ row = None
        /\ Answer(c, missing)
     \/ /\ row # None
        /\ snap' = [snap EXCEPT ![c] = row]
        /\ matching' = matching \cup {c}
        /\ UNCHANGED <<row, aged, call, ans, mine, tries, sweep, overtaken>>

\* Mutant of AcquireRead: a busy row is acquired all the same.
AcquireReadSteals(c) ==
  /\ call[c].op = "acquire"
  /\ Read(c, "missing")

(***************************************************************************)
(* try_acquire_run_lock. The decisions on the row read are local, so they  *)
(* are part of the read.                                                   *)
(***************************************************************************)
AcquireRead(c) == LET a == call[c].assistant IN
  /\ call[c].op = "acquire"
  /\ snap[c] = None
  /\ \/ row = None /\ Answer(c, "missing")
     \/ row # None /\ Mismatch(row, a) /\ Answer(c, "mismatch")
     \/ /\ row # None /\ ~Mismatch(row, a)
        /\ row.status = "busy"
        /\ Answer(c, "refused")
     \/ /\ row # None /\ ~Mismatch(row, a)
        /\ row.status # "busy"
        /\ Read(c, "missing")

AcquireWrite(c) == LET a == call[c].assistant IN
  /\ call[c].op = "acquire"
  /\ snap[c] # None
  /\ \/ row = None /\ Answer(c, "missing")
     \/ Conflict(c, MaxAttempts, "refused")
     \/ /\ Unmodified(c)
        /\ \E k \in Tokens :
             /\ FreshToken(k)
             /\ \/ /\ Store(c, Acquired(row, a, k), "done")
                   /\ mine' = [mine EXCEPT ![c] = k]
                \/ /\ Store(c, Acquired(row, a, k), "raised")
                   /\ UNCHANGED mine

\* Mutant of ReleaseRead: no owner fencing.
ReleaseReadUnfenced(c) ==
  /\ call[c].op = "release"
  /\ Read(c, "missing")

(***************************************************************************)
(* release_run_lock: owner check on the row read, then a whole-entity      *)
(* replacement built from that row.                                        *)
(***************************************************************************)
ReleaseRead(c) ==
  /\ call[c].op = "release"
  /\ snap[c] = None
  /\ \/ /\ row # None
        /\ row.token # call[c].token
        /\ Answer(c, "refused")
     \/ /\ row # None => row.token = call[c].token
        /\ Read(c, "missing")

ReleaseWrite(c) ==
  /\ call[c].op = "release"
  /\ snap[c] # None
  /\ \/ row = None /\ Answer(c, "missing")
     \/ Conflict(c, MaxAttempts, "conflict")
     \/ /\ Unmodified(c)
        /\ \E a \in {"done", "raised"} :
             Store(c, Released(snap[c], call[c].status, call[c].values), a)
        /\ UNCHANGED mine

(***************************************************************************)
(* renew_run_lock: one attempt, and a conflict answers False like a lost   *)
(* ownership. A row deleted in between raises ResourceNotFoundError.       *)
(***************************************************************************)
RenewRead(c) ==
  /\ call[c].op = "renew"
  /\ snap[c] = None
  /\ \/ /\ row # None
        /\ row.token # call[c].token
        /\ Answer(c, "refused")
     \/ /\ row # None => row.token = call[c].token
        /\ Read(c, "raised")

RenewWrite(c) ==
  /\ call[c].op = "renew"
  /\ snap[c] # None
  /\ \/ row = None /\ Answer(c, "raised")
     \/ Conflict(c, 1, "refused")
     \/ /\ Unmodified(c)
        /\ \E a \in {"done", "raised"} : Store(c, row, a)
        /\ UNCHANGED mine

(***************************************************************************)
(* update: read, modify, replace the whole entity.                         *)
(***************************************************************************)
UpdateRead(c) ==
  /\ call[c].op = "update"
  /\ Read(c, "missing")

UpdateWrite(c) ==
  /\ call[c].op = "update"
  /\ snap[c] # None
  /\ \/ row = None /\ Answer(c, "missing")
     \/ Conflict(c, MaxAttempts, "conflict")
     \/ /\ Unmodified(c)
        /\ \E a \in {"done", "raised"} :
             Store(c, Updated(snap[c], call[c].metadata), a)
        /\ UNCHANGED mine

\* delete is one unconditional request, get one read.
Delete(c) ==
  /\ call[c].op = "delete"
  /\ \/ row = None /\ Answer(c, "missing")
     \/ /\ row # None
        /\ \E a \in {"done", "raised"} : Store(c, None, a)
        /\ UNCHANGED mine

Get(c) ==
  /\ call[c].op = "get"
  /\ Answer(c, IF row = None THEN "missing" ELSE "done")

\* A request fails without effect, and the exception leaves the operation.
Fault(c) == Answer(c, "raised")

--------------------------------------------------------------------------------
(***************************************************************************)
(* reset_stale_locks: list the busy rows older than the cutoff with their  *)
(* ETags, then patch each one if it is unmodified; a conflict or a missing *)
(* row is skipped.                                                         *)
(***************************************************************************)
SweepQuery ==
  /\ ~sweep
  /\ row # None
  /\ row.status = "busy"
  /\ aged
  /\ sweep' = TRUE
  /\ matching' = matching \cup {Sweeper}
  /\ UNCHANGED <<row, aged, call, ans, mine, snap, tries, overtaken>>

SweepReset ==
  /\ sweep
  /\ Unmodified(Sweeper)
  /\ \E s \in {"idle", "error"} : row' = SweptTo(row, s)
  /\ aged' = FALSE
  /\ matching' = {}
  /\ sweep' = FALSE
  /\ overtaken' = {d \in Clients : call[d] # None}
  /\ UNCHANGED <<call, ans, mine, snap, tries>>

\* The row changed or went away, or the timer's host died: no write.
SweepSkip ==
  /\ sweep
  /\ sweep' = FALSE
  /\ matching' = matching \ {Sweeper}
  /\ UNCHANGED <<row, aged, call, ans, mine, snap, tries, overtaken>>

\* Time passes until updated_at is older than the cutoff.
Age ==
  /\ row # None
  /\ aged' = TRUE
  /\ UNCHANGED <<row, matching, call, ans, mine, snap, tries, sweep, overtaken>>

Execute(c) ==
  /\ call[c] # None
  /\ \/ AcquireRead(c) \/ AcquireWrite(c)
     \/ ReleaseRead(c) \/ ReleaseWrite(c)
     \/ RenewRead(c) \/ RenewWrite(c)
     \/ UpdateRead(c) \/ UpdateWrite(c)
     \/ Delete(c) \/ Get(c)
     \/ Fault(c)

Next ==
  \/ \E c \in Clients : Execute(c) \/ \E r \in Requests : Call(c, r)
  \/ SweepQuery
  \/ SweepReset
  \/ SweepSkip
  \/ Age

Spec == Init /\ [][Next]_vars

--------------------------------------------------------------------------------
(***************************************************************************)
(* The ETag discipline: a snapshot that would still pass IfNotModified is  *)
(* the current row, so a replacement built from it loses nobody's write.   *)
(***************************************************************************)
SnapshotCurrent ==
  \A c \in Clients : snap[c] # None /\ Unmodified(c) => snap[c] = row

(***************************************************************************)
(* What decided an operation still holds when its write is let through:    *)
(* acquire found the thread free and not bound elsewhere, release and      *)
(* renew found their own token.                                            *)
(***************************************************************************)
DecisionStands ==
  \A c \in Clients : call[c] # None /\ snap[c] # None /\ Unmodified(c) =>
    /\ call[c].op = "acquire" => row.status # "busy" /\ ~Mismatch(row, call[c].assistant)
    /\ call[c].op \in {"release", "renew"} => row.token = call[c].token

(***************************************************************************)
(* A sweep that listed a row resets it only if the row is the same busy,   *)
(* aged row: a lock acquired or renewed since the query is never stomped.  *)
(***************************************************************************)
SweepSparesLive ==
  sweep /\ Unmodified(Sweeper) => row.status = "busy" /\ aged

(***************************************************************************)
(* While a run owns the row nobody else takes it out of that run's hands:  *)
(* a busy row's token changes only by its owner's release, a sweep of an   *)
(* aged row, or a delete.                                                  *)
(***************************************************************************)
OnlyOwnerOrSweepFrees ==
  [][row # None /\ row.status = "busy" /\ row' # None
       /\ (row'.status # "busy" \/ row'.token # row.token) =>
     \/ \E c \in Clients : call[c] # None /\ call[c].op = "release"
                             /\ call[c].token = row.token
     \/ aged /\ sweep /\ Unmodified(Sweeper) /\ row'.token = row.token]_vars

--------------------------------------------------------------------------------
(***************************************************************************)
(* The inductive invariant of the ETag protocol: a snapshot belongs to a   *)
(* pending call, and one whose ETag is old was overtaken by a write, which *)
(* is what entitles the operation to give up.                              *)
(***************************************************************************)
SnapshotPending ==
  \A c \in Clients : snap[c] # None =>
    call[c] # None /\ c \in matching \cup overtaken

Inv ==
  /\ TypeOK
  /\ SnapshotCurrent
  /\ DecisionStands
  /\ SweepSparesLive
  /\ SnapshotPending

--------------------------------------------------------------------------------
\* The backend implements the contract of the stores.
Contract == INSTANCE ThreadStore WITH thread <- row

ImplementsContract == Contract!Spec

(***************************************************************************)
(* The docstring of release_run_lock: owner fencing rejects a stale        *)
(* release from an execution whose lock has since been reclaimed by        *)
(* reset_stale_locks. A release that takes effect would then always find   *)
(* the row still busy.                                                     *)
(***************************************************************************)
ReclaimedReleaseRejected ==
  [][\A c \in Clients :
       call[c] # None /\ call[c].op = "release" /\ ans'[c] = "done" /\ call'[c] = None
         => row.status = "busy"]_vars
===============================================================================
