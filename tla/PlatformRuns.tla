----------------------------- MODULE PlatformRuns -----------------------------
(***************************************************************************)
(* The Platform API handlers of one thread (platform/_runs.py,             *)
(* platform/_threads.py) with their store renewal workers                  *)
(* (platform/_store_renewal.py), on top of the contract of the thread      *)
(* stores (ThreadStore) and the in-process thread lock of each host.       *)
(*                                                                         *)
(* A handler is one request in one host process: it reads the thread,      *)
(* takes the host's thread lock, acquires the store's run lock, runs the   *)
(* graph while a worker renews the run lock, and releases both.            *)
(* Handlers, workers, the timer's sweep, and crashes of a host interleave  *)
(* between the store calls.                                                *)
(***************************************************************************)
EXTENDS ThreadRecord

CONSTANTS Handlers,  \* the requests about the thread
          Hosts,     \* worker processes, each with a thread lock of its own
          HostOf,    \* the host a handler runs in
          Kinds,     \* what a request may be: wait, stream, state, patch, delete
          Timely     \* the sweep's cutoff exceeds what a renewed run can take

ASSUME HandlersHosted == HostOf \in [Handlers -> Hosts]
ASSUME HandlersKinds ==
  Kinds \in [Handlers -> SUBSET {"wait", "stream", "state", "patch", "delete"}]
ASSUME NoneIsNone ==
  None \notin Handlers \cup Assistants \cup Tokens \cup Threads \cup Requests

Runs == {"wait", "stream"}

\* A handler and its renewal worker are two clients of the store.
Clients == Handlers \X {"request", "renewal"}

Request(h) == <<h, "request">>
Renewal(h) == <<h, "renewal">>

VARIABLES
  thread, aged, call, ans, mine, overtaken,  \* see ThreadStore
  tlock,     \* tlock[<<i, a>>]: holder of host i's lock for graph a, or None
  pc,        \* pc[h]: where handler h is
  kind,      \* kind[h]: the request it handles
  asst,      \* asst[h]: the graph it resolved
  prior,     \* prior[h]: the status its read of the thread returned
  ok,        \* ok[h]: the graph call succeeded
  failure,   \* failure[h]: cleanup has a failure to report
  worker,    \* worker[h]: its renewal worker
  result     \* result[h]: its response

Store == INSTANCE ThreadStore

storeVars == <<thread, aged, call, ans, mine, overtaken>>

handlerVars == <<tlock, pc, kind, asst, prior, ok, failure, worker, result>>

vars == <<storeVars, handlerVars>>

Points == {"new", "reading", "acquiring", "merging", "executing", "stopping",
           "releasing", "writing", "ended"}

\* From the moment the host's thread lock is taken.
Locked == {"acquiring", "merging", "executing", "stopping", "releasing"}

\* "events" is a stream that ends with an error event.
Responses == {"none", "200", "204", "404", "409", "500", "events"}

LockKeys == Hosts \X Assistants

TypeOK ==
  /\ thread \in Threads \cup {None}
  /\ aged \in BOOLEAN /\ overtaken \subseteq Clients
  /\ call \in [Clients -> Requests \cup {None}]
  /\ ans \in [Clients -> Answers]
  /\ mine \in [Clients -> Tokens \cup {None}]
  /\ tlock \in [LockKeys -> Handlers \cup {None}]
  /\ pc \in [Handlers -> Points]
  /\ kind \in [Handlers -> {"wait", "stream", "state", "patch", "delete", "none"}]
  /\ asst \in [Handlers -> Assistants \cup {None}]
  /\ prior \in [Handlers -> Statuses]
  /\ ok \in [Handlers -> BOOLEAN]
  /\ failure \in [Handlers -> BOOLEAN]
  /\ worker \in [Handlers -> {"none", "waiting", "renewing", "failed"}]
  /\ result \in [Handlers -> Responses]

Init ==
  /\ Store!Init
  /\ tlock = [x \in LockKeys |-> None]
  /\ pc = [h \in Handlers |-> "new"]
  /\ kind = [h \in Handlers |-> "none"]
  /\ asst = [h \in Handlers |-> None]
  /\ prior = [h \in Handlers |-> "idle"]
  /\ ok = [h \in Handlers |-> FALSE]
  /\ failure = [h \in Handlers |-> FALSE]
  /\ worker = [h \in Handlers |-> "none"]
  /\ result = [h \in Handlers |-> "none"]

--------------------------------------------------------------------------------
\* The graph may be running.
Executing(h) == pc[h] \in {"merging", "executing"}

Key(h) == <<HostOf[h], asst[h]>>

\* The store call of handler h has returned with answer a.
Answered(h, a) == call[Request(h)] = None /\ ans[Request(h)] = a

Goto(h, p) == pc' = [pc EXCEPT ![h] = p]

\* The handler returns its response.
Reply(h, code) ==
  /\ Goto(h, "ended")
  /\ result' = [result EXCEPT ![h] = code]
  /\ UNCHANGED <<storeVars, kind, asst, prior, ok, failure, worker>>

Unlock(h) == tlock' = [tlock EXCEPT ![Key(h)] = None]

(***************************************************************************)
(* A request passes validation and calls the store: every kind reads the   *)
(* thread first, but delete.                                               *)
(***************************************************************************)
Receive(h, k) ==
  /\ pc[h] = "new"
  /\ \/ k = "delete" /\ Goto(h, "writing") /\ Store!Call(Request(h), [op |-> "delete"])
     \/ k # "delete" /\ Goto(h, "reading") /\ Store!Call(Request(h), [op |-> "get"])
  /\ \E a \in Assistants \cup {None} :
       /\ (k \in Runs) <=> (a # None)
       /\ asst' = [asst EXCEPT ![h] = a]
  /\ kind' = [kind EXCEPT ![h] = k]
  /\ UNCHANGED <<tlock, prior, ok, failure, worker, result>>

(***************************************************************************)
(* A store call of the handler takes effect and returns. A read tells a    *)
(* state update the bound assistant and the status. A release reports a    *)
(* failure if it raised, and to a state update also if the thread it       *)
(* returned is still owned. What a crashed host had sent may still land.   *)
(***************************************************************************)
ReadReturns(h) ==
  /\ pc[h] = "reading"
  /\ Store!Perform(Request(h))
  /\ \/ /\ ans'[Request(h)] = "done"
        /\ kind[h] = "state"
        /\ asst' = [asst EXCEPT ![h] = thread.assistant]
        /\ prior' = [prior EXCEPT ![h] = thread.status]
     \/ /\ ans'[Request(h)] # "done" \/ kind[h] # "state"
        /\ UNCHANGED <<asst, prior>>
  /\ UNCHANGED <<tlock, pc, kind, ok, failure, worker, result>>

StillOwned == thread.status = "busy" \/ thread.token # None

ReleaseReturns(h) ==
  /\ pc[h] = "releasing"
  /\ Store!Perform(Request(h))
  /\ failure' = [failure EXCEPT ![h] =
       \/ @
       \/ ans'[Request(h)] \in {"missing", "conflict", "raised"}
       \/ (kind[h] = "state" /\ ans'[Request(h)] = "refused" /\ StillOwned)]
  /\ UNCHANGED <<tlock, pc, kind, asst, prior, ok, worker, result>>

CallReturns(h) ==
  /\ pc[h] \notin {"reading", "releasing"}
  /\ Store!Perform(Request(h))
  /\ UNCHANGED handlerVars

(***************************************************************************)
(* PATCH merges the request's metadata into what it read; DELETE is one    *)
(* store call.                                                             *)
(***************************************************************************)
Patch(h) ==
  /\ pc[h] = "reading" /\ kind[h] = "patch"
  /\ Answered(h, "done")
  /\ \/ Reply(h, "200") /\ UNCHANGED tlock
     \/ /\ Goto(h, "writing")
        /\ \E m \in Payloads :
             Store!Call(Request(h), [op |-> "update", metadata |-> m])
        /\ UNCHANGED <<tlock, kind, asst, prior, ok, failure, worker, result>>

Written(h) ==
  /\ pc[h] = "writing"
  /\ \/ Answered(h, "done") /\ Reply(h, IF kind[h] = "delete" THEN "204" ELSE "200")
     \/ Answered(h, "missing") /\ Reply(h, "404")
     \/ (Answered(h, "conflict") \/ Answered(h, "raised")) /\ Reply(h, "500")
  /\ UNCHANGED tlock

ReadFails(h) ==
  /\ pc[h] = "reading"
  /\ \/ Answered(h, "missing") /\ Reply(h, "404")
     \/ Answered(h, "raised") /\ Reply(h, "500")
  /\ UNCHANGED tlock

(***************************************************************************)
(* A run or a state update takes the host's thread lock, without waiting,  *)
(* and then calls try_acquire_run_lock.                                    *)
(***************************************************************************)
TakeLock(h) ==
  /\ pc[h] = "reading" /\ kind[h] \in Runs \cup {"state"}
  /\ Answered(h, "done")
  /\ \/ asst[h] = None /\ Reply(h, "409") /\ UNCHANGED tlock
     \/ asst[h] # None /\ tlock[Key(h)] # None /\ Reply(h, "409") /\ UNCHANGED tlock
     \/ /\ asst[h] # None /\ tlock[Key(h)] = None
        /\ tlock' = [tlock EXCEPT ![Key(h)] = h]
        /\ Goto(h, "acquiring")
        /\ Store!Call(Request(h), [op |-> "acquire", assistant |-> asst[h]])
        /\ UNCHANGED <<kind, asst, prior, ok, failure, worker, result>>

\* Mutant of Rejected: a busy thread is answered without the cleanup.
RejectedInHaste(h) ==
  /\ pc[h] = "acquiring"
  /\ \/ Answered(h, "missing") /\ Reply(h, "404") /\ Unlock(h)
     \/ Answered(h, "refused") /\ Reply(h, "409") /\ UNCHANGED tlock
     \/ Answered(h, "raised") /\ Reply(h, "500") /\ Unlock(h)

(***************************************************************************)
(* The run lock was not acquired. A state update has no handler for an     *)
(* exception of the store, and leaves with the thread lock.                *)
(***************************************************************************)
Rejected(h) ==
  /\ pc[h] = "acquiring"
  /\ \/ Answered(h, "missing") /\ Reply(h, "404") /\ Unlock(h)
     \/ /\ \/ Answered(h, "mismatch")
           \/ Answered(h, "refused")
        /\ Reply(h, "409") /\ Unlock(h)
     \/ /\ Answered(h, "raised") /\ Reply(h, "500")
        /\ \/ kind[h] \in Runs /\ Unlock(h)
           \/ kind[h] = "state" /\ UNCHANGED tlock

(***************************************************************************)
(* The run lock is ours: a run starts its renewal worker, unless no thread *)
(* can be started, and stores the request's metadata if there is any.      *)
(***************************************************************************)
Start(h) ==
  /\ pc[h] = "acquiring"
  /\ Answered(h, "done")
  /\ \/ /\ kind[h] = "state"
        /\ Goto(h, "executing")
        /\ UNCHANGED <<storeVars, worker>>
     \/ /\ kind[h] \in Runs
        /\ Goto(h, "stopping")
        /\ UNCHANGED <<storeVars, worker>>
     \/ /\ kind[h] \in Runs
        /\ worker' = [worker EXCEPT ![h] = "waiting"]
        /\ \/ Goto(h, "executing") /\ UNCHANGED storeVars
           \/ /\ Goto(h, "merging")
              /\ \E m \in Payloads :
                   Store!Call(Request(h), [op |-> "update", metadata |-> m])
  /\ UNCHANGED <<tlock, kind, asst, prior, ok, failure, result>>

Merged(h) ==
  /\ pc[h] = "merging"
  /\ call[Request(h)] = None
  /\ Goto(h, IF Answered(h, "done") THEN "executing" ELSE "stopping")
  /\ UNCHANGED <<storeVars, tlock, kind, asst, prior, ok, failure, worker, result>>

\* The graph returns, raises or overflows the response, and the renewal worker
\* is told to stop.
Execute(h) ==
  /\ pc[h] = "executing"
  /\ Goto(h, "stopping")
  /\ \E b \in BOOLEAN : ok' = [ok EXCEPT ![h] = b]
  /\ UNCHANGED <<storeVars, tlock, kind, asst, prior, failure, worker, result>>

(***************************************************************************)
(* The renewal worker: renew every interval until told to stop. A refusal  *)
(* or an exception ends it and is kept for the cleanup; the graph is not   *)
(* told. An answer that comes after the cleanup has stopped waiting, or    *)
(* after a crash, goes nowhere.                                            *)
(***************************************************************************)
Renew(h) ==
  /\ Executing(h)
  /\ worker[h] = "waiting"
  /\ worker' = [worker EXCEPT ![h] = "renewing"]
  /\ Store!Call(Renewal(h), [op |-> "renew", token |-> mine[Request(h)]])
  /\ UNCHANGED <<tlock, pc, kind, asst, prior, ok, failure, result>>

\* Mutant of RenewReturns: a lost renewal ends the worker and is not kept.
RenewReturnsQuietly(h) ==
  /\ Store!Perform(Renewal(h))
  /\ worker' = [worker EXCEPT ![h] =
       IF @ # "renewing" THEN @
       ELSE IF ans'[Renewal(h)] = "done" THEN "waiting" ELSE "none"]
  /\ UNCHANGED <<tlock, pc, kind, asst, prior, ok, failure, result>>

RenewReturns(h) ==
  /\ Store!Perform(Renewal(h))
  /\ worker' = [worker EXCEPT ![h] =
       IF @ # "renewing" THEN @
       ELSE IF ans'[Renewal(h)] = "done" THEN "waiting" ELSE "failed"]
  /\ UNCHANGED <<tlock, pc, kind, asst, prior, ok, failure, result>>

(***************************************************************************)
(* The cleanup, in `finally`: stop the worker, waiting for a call in       *)
(* flight but not for ever; with a failure the run becomes an error and    *)
(* its values are dropped; then call release_run_lock. Releasing to "busy" *)
(* raises before the store is reached.                                     *)
(***************************************************************************)
\* Mutant of Failing: what the worker found is not asked for.
FailingUnasked(h) == FALSE

Failing(h) == worker[h] \in {"failed", "renewing"}

FinalStatus(h) ==
  IF ~ok[h] \/ Failing(h) THEN "error"
  ELSE IF kind[h] = "state" THEN prior[h] ELSE "idle"

\* Only the wait handler has an output to store, and not with an error.
ValuesOf(h, final) ==
  IF kind[h] = "wait" /\ final = "idle" THEN Payloads ELSE {None}

Stop(h) == LET final == FinalStatus(h) IN
  /\ pc[h] = "stopping"
  /\ worker' = [worker EXCEPT ![h] = "none"]
  /\ \/ /\ final # "busy"
        /\ \E v \in ValuesOf(h, final) :
             Store!Call(Request(h), [op |-> "release", token |-> mine[Request(h)],
                                     status |-> final, values |-> v])
        /\ Goto(h, "releasing")
        /\ failure' = [failure EXCEPT ![h] = Failing(h)]
        /\ UNCHANGED <<tlock, kind, asst, prior, ok, result>>
     \/ /\ final = "busy"
        /\ Goto(h, "ended")
        /\ Unlock(h)
        /\ failure' = [failure EXCEPT ![h] = TRUE]
        /\ result' = [result EXCEPT ![h] = "500"]
        /\ UNCHANGED <<storeVars, kind, asst, prior, ok>>

\* release_run_lock has returned: release the thread lock and answer. A graph
\* error keeps its own response, which a cleanup failure replaces only in a
\* stream; the headers of a stream are sent with its events.
Settle(h) ==
  /\ pc[h] = "releasing"
  /\ call[Request(h)] = None
  /\ Unlock(h)
  /\ \/ ok[h] /\ ~failure[h] /\ Reply(h, "200")
     \/ ok[h] /\ failure[h] /\ Reply(h, "500")
     \/ ~ok[h] /\ Reply(h, "500")
     \/ ~ok[h] /\ kind[h] = "state" /\ Reply(h, "404")
     \/ ~ok[h] /\ kind[h] = "stream" /\ ~failure[h] /\ Reply(h, "events")

(***************************************************************************)
(* The host process dies. Its handlers, workers and thread lock are gone;  *)
(* a request it had sent to the store may still be served.                 *)
(***************************************************************************)
Running(h, i) == HostOf[h] = i /\ pc[h] \notin {"new", "ended"}

Crash(i) ==
  /\ pc' = [h \in Handlers |-> IF Running(h, i) THEN "ended" ELSE pc[h]]
  /\ worker' = [h \in Handlers |-> IF Running(h, i) THEN "none" ELSE worker[h]]
  /\ tlock' = [x \in LockKeys |-> IF x[1] = i THEN None ELSE tlock[x]]
  /\ UNCHANGED <<storeVars, kind, asst, prior, ok, failure, result>>

(***************************************************************************)
(* The sweep. Its cutoff is comfortably above the renewal interval and any *)
(* step that is not the graph's (Timely), so a busy row grows old only if  *)
(* its owner is gone, or is a run that nobody renews.                      *)
(***************************************************************************)
Owns(h) ==
  /\ pc[h] \in Locked
  /\ pc[h] = "acquiring" => Answered(h, "done")
  /\ thread # None
  /\ mine[Request(h)] = thread.token

Renewed ==
  \E h \in Handlers :
    /\ Owns(h)
    /\ Executing(h) /\ kind[h] \in Runs => worker[h] \in {"waiting", "renewing"}

Age ==
  /\ Store!Age
  /\ (Timely /\ thread.status = "busy") => ~Renewed
  /\ UNCHANGED handlerVars

Sweep == Store!Sweep /\ UNCHANGED handlerVars

HandlerStep(h) ==
  \/ ReadReturns(h) \/ ReleaseReturns(h) \/ CallReturns(h)
  \/ Patch(h) \/ Written(h) \/ ReadFails(h)
  \/ TakeLock(h) \/ Rejected(h) \/ Start(h) \/ Merged(h) \/ Execute(h)
  \/ Stop(h) \/ Settle(h)

Next ==
  \/ \E h \in Handlers :
       \/ \E k \in Kinds[h] : Receive(h, k)
       \/ HandlerStep(h)
       \/ Renew(h)
       \/ RenewReturns(h)
  \/ \E i \in Hosts : Crash(i)
  \/ Age
  \/ Sweep

Spec == Init /\ [][Next]_vars
(***************************************************************************)
(* A host that runs gives its threads the CPU, the store answers, a graph  *)
(* call ends, and the timer fires again and again.                         *)
(***************************************************************************)
Fairness ==
  /\ \A h \in Handlers :
       /\ WF_vars(HandlerStep(h))
       /\ WF_vars(RenewReturns(h))
  /\ WF_vars(Age)
  /\ WF_vars(Sweep)

FairSpec == Spec /\ Fairness

--------------------------------------------------------------------------------
(***************************************************************************)
(* A thread holds at most one in-flight run or state update, whatever host *)
(* it runs in, unless the renewal of one has failed: then the sweep may    *)
(* free the thread while the graph, which nobody tells, goes on.           *)
(***************************************************************************)
OneRunPerThread ==
  \A g, h \in Handlers : g # h /\ Executing(g) /\ Executing(h) =>
    worker[g] = "failed" \/ worker[h] = "failed"

(***************************************************************************)
(* A run or a state update answers 200 only if its own release took        *)
(* effect: its status and values are stored, and it was the owner to the   *)
(* end. The store ignores a stale release without an error.                *)
(***************************************************************************)
SuccessIsReleased ==
  \A h \in Handlers : kind[h] \in Runs \cup {"state"} /\ result[h] = "200" =>
    ans[Request(h)] = "done"

(***************************************************************************)
(* A host's thread lock is held only by a handler that is still inside: no *)
(* way out of a handler leaves it behind.                                  *)
(***************************************************************************)
NoLockLeftBehind ==
  \A x \in LockKeys : tlock[x] # None =>
    pc[tlock[x]] \in Locked /\ Key(tlock[x]) = x

(***************************************************************************)
(* The same with the one exception the code has (see Rejected): every way  *)
(* a run is refused, fails or finishes, and every way of a state update    *)
(* but an exception of try_acquire_run_lock, gives the thread lock back.   *)
(***************************************************************************)
Leaked(h) ==
  pc[h] = "ended" /\ kind[h] = "state" /\ ~failure[h] /\ Answered(h, "raised")

LocksReturned ==
  \A x \in LockKeys : tlock[x] # None =>
    Key(tlock[x]) = x /\ (pc[tlock[x]] \in Locked \/ Leaked(tlock[x]))

--------------------------------------------------------------------------------
(***************************************************************************)
(* The inductive invariants. What is pending in the store, and what the    *)
(* handler knows, goes with the point the handler is at: a token is what   *)
(* its one acquire answered, and the only release that names it is its own. *)
(***************************************************************************)
HasToken(h) ==
  \/ pc[h] \in {"merging", "executing", "stopping", "releasing"}
  \/ pc[h] = "acquiring" /\ Answered(h, "done")

CallsFit ==
  \A h \in Handlers :
    /\ call[Renewal(h)] # None => call[Renewal(h)].op = "renew"
    /\ call[Request(h)] # None =>
         /\ call[Request(h)].op # "renew"
         /\ pc[h] = "acquiring" => call[Request(h)].op = "acquire"
         /\ pc[h] = "releasing" => call[Request(h)].op = "release"
         /\ call[Request(h)].op = "acquire" =>
              pc[h] \in {"acquiring", "ended"} /\ mine[Request(h)] = None
         /\ call[Request(h)].op = "release" =>
              /\ pc[h] \in {"releasing", "ended"}
              /\ call[Request(h)].token = mine[Request(h)]
    /\ pc[h] \in {"new", "reading"} => mine[Request(h)] = None
    /\ HasToken(h) => mine[Request(h)] # None

MineDistinct ==
  \A g, h \in Handlers :
    mine[Request(g)] # None /\ mine[Request(g)] = mine[Request(h)] => g = h

HandlersFit ==
  \A h \in Handlers :
    /\ pc[h] = "new" <=> kind[h] = "none"
    /\ pc[h] = "writing" => kind[h] \in {"patch", "delete"}
    /\ pc[h] \in Locked => kind[h] \in Runs \cup {"state"} /\ asst[h] # None
    /\ pc[h] # "ended" => result[h] = "none"
    /\ pc[h] \in {"new", "reading", "acquiring"} => ~failure[h]
    /\ Executing(h) /\ kind[h] \in Runs => worker[h] # "none"

\* The thread lock of a host belongs to whoever is inside, and is held by nobody
\* else but the state update that leaves with it.
LocksFit ==
  /\ \A h \in Handlers : pc[h] \in Locked => tlock[Key(h)] = h
  /\ LocksReturned

Inv == TypeOK /\ CallsFit /\ MineDistinct /\ HandlersFit /\ LocksFit

(***************************************************************************)
(* With a timely sweep, a handler that no renewal has told otherwise owns  *)
(* the thread from the answer of its acquire to that of its release: the   *)
(* row is busy, has its token and is not old. A deleted thread excludes    *)
(* whoever comes, so the owner of that time remains the only one.          *)
(***************************************************************************)
Live(h) ==
  \/ pc[h] = "acquiring" /\ Answered(h, "done")
  \/ pc[h] \in {"merging", "executing", "stopping"} /\ worker[h] # "failed"
  \/ pc[h] = "releasing" /\ ~failure[h] /\ call[Request(h)] # None

LiveOwns ==
  \A h \in Handlers : Live(h) /\ thread # None =>
    thread.status = "busy" /\ thread.token = mine[Request(h)] /\ ~aged

OneLive == \A g, h \in Handlers : Live(g) /\ Live(h) => g = h

ReleaseTold ==
  \A h \in Handlers :
    /\ pc[h] = "releasing" /\ ~failure[h] /\ call[Request(h)] = None =>
         ans[Request(h)] = "done"
    /\ kind[h] \in Runs \cup {"state"} /\ result[h] = "200" =>
         call[Request(h)] = None /\ ans[Request(h)] = "done"

TimelyInv == LiveOwns /\ OneLive /\ ReleaseTold

--------------------------------------------------------------------------------
(***************************************************************************)
(* A busy thread is freed at last, by its owner or by the sweep: after a   *)
(* crash, a lost acknowledgement or a failed release too.                  *)
(***************************************************************************)
Busy == thread # None /\ thread.status = "busy"

BusyEnds == Busy ~> ~Busy
===============================================================================
