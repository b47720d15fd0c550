---------------------------- MODULE AsyncThreadLock ----------------------------
(***************************************************************************)
(* Async callers of a synchronous thread lock (locks/_async.py): each task *)
(* enters `async with async_thread_lock`, may run synchronous graph calls  *)
(* in the scope with run_sync_retaining_ownership, and leaves it. Every    *)
(* blocking call runs in a worker thread that cannot be interrupted, while *)
(* the task may be cancelled at any time.                                  *)
(*                                                                         *)
(* The event loop runs one task at a time, between two awaits: one step    *)
(* here. One key of a lock that keeps its contract (locks/base.py).        *)
(***************************************************************************)
EXTENDS Integers, FiniteSets

CONSTANTS Tasks,
          None,
          PoolSize,   \* worker threads of the default executor
          MaxCancels, \* bound: cancellations requested of one task
          MaxCalls    \* bound: synchronous graph calls in one scope

NoneIsNoTask == None \notin Tasks
BoundsNat == MaxCancels \in Nat /\ MaxCalls \in Nat

VARIABLES
  owner,   \* the lock: the task whose token is current, or None
  job,     \* job[t][k]: call k of task t in the executor
  answer,  \* answer[t][k]: what it returned
  pc,      \* where the task is suspended
  thrown,  \* thrown[t]: a CancelledError will be thrown at its next step
  heard,   \* heard[t]: local `cancellation` is set
  exit,    \* exit[t]: how the scope is being left, or has ended
  cancels, \* cancels[t]: cancellations requested so far
  calls    \* calls[t]: synchronous graph calls so far

vars == <<owner, job, answer, pc, thrown, heard, exit, cancels, calls>>

Kinds == {"acquire", "work", "release"}
Points == {"start", "acquiring", "undoing", "body", "working", "releasing", "done"}

TypeOK ==
  /\ owner \in Tasks \cup {None}
  /\ job \in [Tasks -> [Kinds -> {"no", "queued", "running", "done"}]]
  /\ answer \in [Tasks -> [Kinds -> {"none", "token", "ok", "raised"}]]
  /\ pc \in [Tasks -> Points]
  /\ thrown \in [Tasks -> BOOLEAN]
  /\ heard \in [Tasks -> BOOLEAN]
  /\ exit \in [Tasks -> {"no", "returned", "raised", "refused", "cancelled"}]
  /\ cancels \in [Tasks -> 0..MaxCancels]
  /\ calls \in [Tasks -> 0..MaxCalls]

Init ==
  /\ owner = None
  /\ job = [t \in Tasks |-> [k \in Kinds |-> "no"]]
  /\ answer = [t \in Tasks |-> [k \in Kinds |-> "none"]]
  /\ pc = [t \in Tasks |-> "start"]
  /\ thrown = [t \in Tasks |-> FALSE]
  /\ heard = [t \in Tasks |-> FALSE]
  /\ exit = [t \in Tasks |-> "no"]
  /\ cancels = [t \in Tasks |-> 0]
  /\ calls = [t \in Tasks |-> 0]

--------------------------------------------------------------------------------
(***************************************************************************)
(* The executor. A call waits for a free worker thread, then runs to its   *)
(* end whatever happens to the task.                                       *)
(***************************************************************************)
Busy == {c \in Tasks \X Kinds : job[c[1]][c[2]] = "running"}

StartJob(t, k) ==
  /\ job[t][k] = "queued" /\ Cardinality(Busy) < PoolSize
  /\ job' = [job EXCEPT ![t][k] = "running"]
  /\ UNCHANGED <<owner, answer, pc, thrown, heard, exit, cancels, calls>>

Ends(t, k, a) ==
  /\ job[t][k] = "running"
  /\ job' = [job EXCEPT ![t][k] = "done"]
  /\ answer' = [answer EXCEPT ![t][k] = a]
  /\ UNCHANGED <<pc, thrown, heard, exit, cancels, calls>>

\* Mutant of AcquireEnds: acquire waits without a deadline.
AcquireEndsWhenFree(t) ==
  \/ owner = None /\ owner' = t /\ Ends(t, "acquire", "token")
  \/ UNCHANGED owner /\ Ends(t, "acquire", "raised") /\ owner = None

\* thread_lock.acquire: a token, None on contention, or an error of the backend.
AcquireEnds(t) ==
  \/ owner = None /\ owner' = t /\ Ends(t, "acquire", "token")
  \/ owner # None /\ UNCHANGED owner /\ Ends(t, "acquire", "none")
  \/ UNCHANGED owner /\ Ends(t, "acquire", "raised")

\* thread_lock.release never raises and frees nobody else's token.
ReleaseEnds(t) ==
  /\ owner' = IF owner = t THEN None ELSE owner
  /\ Ends(t, "release", "ok")

WorkEnds(t) == UNCHANGED owner /\ \E a \in {"ok", "raised"} : Ends(t, "work", a)

--------------------------------------------------------------------------------
\* task.cancel(): of a task that has not begun, or that is suspended.
Cancel(t) ==
  /\ pc[t] # "done" /\ cancels[t] < MaxCancels
  /\ cancels' = [cancels EXCEPT ![t] = @ + 1]
  /\ thrown' = [thrown EXCEPT ![t] = TRUE]
  /\ UNCHANGED <<owner, job, answer, pc, heard, exit, calls>>

\* The task goes on to await call k, or ends.
Await(t, p, k) ==
  /\ pc' = [pc EXCEPT ![t] = p]
  /\ job' = [job EXCEPT ![t][k] = "queued"]
  /\ heard' = [heard EXCEPT ![t] = FALSE]

End(t, how) ==
  /\ pc' = [pc EXCEPT ![t] = "done"]
  /\ exit' = [exit EXCEPT ![t] = how]
  /\ UNCHANGED <<job, heard>>

\* The first step: acquire is submitted, unless the task was cancelled before.
Begin(t) ==
  /\ pc[t] = "start"
  /\ \/ ~thrown[t] /\ Await(t, "acquiring", "acquire") /\ UNCHANGED exit
     \/ thrown[t] /\ End(t, "cancelled")
  /\ thrown' = [thrown EXCEPT ![t] = FALSE]
  /\ UNCHANGED <<owner, answer, cancels, calls>>

CallOf(t) == CASE pc[t] = "acquiring" -> "acquire"
               [] pc[t] = "working" -> "work"
               [] OTHER -> "release"

InCall(t) == pc[t] \in {"acquiring", "working", "releasing", "undoing"}

(***************************************************************************)
(* A CancelledError thrown while the call still runs is remembered, and    *)
(* the shielded call awaited again.                                        *)
(***************************************************************************)
\* Mutant of Hear: a plain `await asyncio.to_thread(func)`, which abandons a
\* synchronous graph call.
HearAndLeave(t) ==
  /\ InCall(t) /\ thrown[t] /\ job[t][CallOf(t)] # "done"
  /\ thrown' = [thrown EXCEPT ![t] = FALSE]
  /\ IF pc[t] = "working"
     THEN Await(t, "releasing", "release") /\ exit' = [exit EXCEPT ![t] = "cancelled"]
     ELSE /\ heard' = [heard EXCEPT ![t] = TRUE]
          /\ UNCHANGED <<pc, job, exit>>
  /\ UNCHANGED <<owner, answer, cancels, calls>>

Hear(t) ==
  /\ InCall(t) /\ thrown[t] /\ job[t][CallOf(t)] # "done"
  /\ thrown' = [thrown EXCEPT ![t] = FALSE]
  /\ heard' = [heard EXCEPT ![t] = TRUE]
  /\ UNCHANGED <<owner, job, answer, pc, exit, cancels, calls>>

Cancelled(t) == heard[t] \/ thrown[t]

\* Mutant of AfterAcquire: the token of a cancelled acquire is forgotten.
AfterAcquireForgets(t) ==
  IF Cancelled(t) THEN End(t, "cancelled")
  ELSE IF answer[t]["acquire"] = "token"
       THEN pc' = [pc EXCEPT ![t] = "body"] /\ UNCHANGED <<job, heard, exit>>
       ELSE End(t, IF answer[t]["acquire"] = "none" THEN "refused" ELSE "raised")

\* acquire_thread_lock, once its call is done.
AfterAcquire(t) ==
  CASE answer[t]["acquire"] = "token" /\ Cancelled(t) ->
         Await(t, "undoing", "release") /\ UNCHANGED exit
    [] answer[t]["acquire"] = "token" /\ ~Cancelled(t) ->
         pc' = [pc EXCEPT ![t] = "body"] /\ UNCHANGED <<job, heard, exit>>
    [] answer[t]["acquire"] # "token" ->
         End(t, IF Cancelled(t) THEN "cancelled"
                ELSE IF answer[t]["acquire"] = "none" THEN "refused" ELSE "raised")

\* run_sync_retaining_ownership, once its call is done.
AfterWork(t) ==
  IF Cancelled(t) \/ answer[t]["work"] = "raised"
  THEN /\ Await(t, "releasing", "release")
       /\ exit' = [exit EXCEPT ![t] = IF Cancelled(t) THEN "cancelled" ELSE "raised"]
  ELSE pc' = [pc EXCEPT ![t] = "body"] /\ UNCHANGED <<job, heard, exit>>

\* Mutant of AfterRelease: a cancellation during the release is lost.
AfterReleaseDeaf(t) == End(t, exit[t])

\* release_thread_lock, once its call is done, at the end of the scope.
AfterRelease(t) == End(t, IF Cancelled(t) THEN "cancelled" ELSE exit[t])

Resume(t) ==
  /\ InCall(t) /\ job[t][CallOf(t)] = "done"
  /\ CASE pc[t] = "acquiring" -> AfterAcquire(t)
       [] pc[t] = "working" -> AfterWork(t)
       [] pc[t] = "releasing" -> AfterRelease(t)
       [] pc[t] = "undoing" -> End(t, "cancelled")
  /\ thrown' = [thrown EXCEPT ![t] = FALSE]
  /\ UNCHANGED <<owner, answer, cancels, calls>>

(***************************************************************************)
(* The body of the scope, suspended in an await of its own: it calls the   *)
(* graph in a worker thread, returns or raises; a cancellation leaves it.  *)
(***************************************************************************)
Body(t) ==
  /\ pc[t] = "body"
  /\ \/ /\ ~thrown[t] /\ calls[t] < MaxCalls
        /\ calls' = [calls EXCEPT ![t] = @ + 1]
        /\ Await(t, "working", "work") /\ UNCHANGED exit
     \/ /\ UNCHANGED calls
        /\ Await(t, "releasing", "release")
        /\ \E how \in IF thrown[t] THEN {"cancelled"} ELSE {"returned", "raised"} :
             exit' = [exit EXCEPT ![t] = how]
  /\ thrown' = [thrown EXCEPT ![t] = FALSE]
  /\ UNCHANGED <<owner, answer, cancels>>

TaskStep(t) == Begin(t) \/ Hear(t) \/ Resume(t) \/ Body(t)

JobStep(t) ==
  \/ \E k \in Kinds : StartJob(t, k)
  \/ AcquireEnds(t) \/ ReleaseEnds(t) \/ WorkEnds(t)

Next == \E t \in Tasks : Cancel(t) \/ TaskStep(t) \/ JobStep(t)

Spec == Init /\ [][Next]_vars

\* The loop runs every task that is ready, and worker threads do not stop. A
\* task has one call in the executor at a time.
JobEnds(t) == AcquireEnds(t) \/ ReleaseEnds(t) \/ WorkEnds(t)

Fairness == \A t \in Tasks :
  /\ WF_vars(TaskStep(t))
  /\ WF_vars(\E k \in Kinds : StartJob(t, k))
  /\ WF_vars(JobEnds(t))

FairSpec == Spec /\ Fairness

--------------------------------------------------------------------------------
(***************************************************************************)
(* While a worker thread executes a graph call, its task owns the lock: no *)
(* cancellation, however many and whenever they come, lets a second task   *)
(* in while the first one's worker still mutates protected state.          *)
(***************************************************************************)
OwnedWhileWorking ==
  \A t \in Tasks : job[t]["work"] \in {"queued", "running"} => owner = t

(***************************************************************************)
(* A task that has ended left nothing behind: it owns no token, and no     *)
(* call of its own is still to take one.                                   *)
(***************************************************************************)
InFlight(t) == \E k \in Kinds : job[t][k] \in {"queued", "running"}

NothingLeftBehind ==
  \A t \in Tasks : pc[t] = "done" => owner # t /\ ~InFlight(t)

(***************************************************************************)
(* Ownership retention does not swallow a cancellation: a task that was    *)
(* cancelled before it ended, ends cancelled.                              *)
(***************************************************************************)
CancellationHeard ==
  \A t \in Tasks : pc[t] = "done" /\ cancels[t] > 0 => exit[t] = "cancelled"

(***************************************************************************)
(* A task that has begun ends, and so gives its token back, even if all    *)
(* threads of the executor are taken at times: no call waits for another.  *)
(***************************************************************************)
ScopeEnds == \A t \in Tasks : pc[t] = "acquiring" ~> pc[t] = "done"

================================================================================
