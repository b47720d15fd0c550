----------------------------- MODULE StreamingRuns -----------------------------
(***************************************************************************)
(* StreamingLangGraphApp (streaming.py, _stream_response.py): an invoke    *)
(* handler, and a stream whose async generator owns the thread lock while  *)
(* the response is being sent to a client that may go away at any time.    *)
(*                                                                         *)
(* A synchronous graph is driven by worker threads, one call at a time,    *)
(* which cannot be interrupted. One thread of one graph, on RunLock.       *)
(***************************************************************************)
EXTENDS Integers, Sequences, FiniteSets, SequencesExt

CONSTANTS Requests,
          HostOf,    \* the process a request runs in
          Endpoints, \* the endpoints of this instance
          MaxEvents  \* max_stream_events

ASSUME MaxEventsNat == MaxEvents \in Nat
ASSUME EndpointsKnown == Endpoints \subseteq {"invoke", "stream"}

VARIABLES
  holders, lapsed, reported, \* the thread lock (RunLock)
  endpoint,  \* endpoint[r]: the endpoint called
  isSync,    \* isSync[r]: the graph is synchronous
  locks,     \* locks[r]: the run is locked
  pc,        \* where the handler or its generator is
  next,      \* next[r]: what a suspended generator does when resumed
  worker,    \* worker[r]: worker threads at work for r
  gone,      \* gone[r]: the client has left, or the task was cancelled
  count,     \* count[r]: events sent
  frames,    \* frames[r]: frames yielded
  primary,   \* primary[r]: primary_error, by its class
  late,      \* late[r]: the error of the cleanup that stream_error holds
  raising,   \* raising[r]: an exception leaves the generator
  events     \* events[r]: what the observer was told

lockVars == <<holders, lapsed, reported>>
requestVars == <<endpoint, isSync, locks>>
errorVars == <<primary, late, raising>>
vars == <<lockVars, requestVars, pc, next, worker, gone, count, frames, errorVars, events>>

Lock == INSTANCE RunLock WITH Runs <- Requests, HostOfRun <- HostOf

\* "gone" stands for CancelledError and GeneratorExit.
Errors == {"none", "error", "gone"}

TypeOK ==
  /\ holders \subseteq Requests /\ lapsed \subseteq holders /\ reported \subseteq holders
  /\ endpoint \in [Requests -> Endpoints]
  /\ isSync \in [Requests -> BOOLEAN] /\ locks \in [Requests -> BOOLEAN]
  /\ pc \in [Requests -> {"arriving", "deferred", "preparing", "yielding", "pulling", "running",
                          "closing", "releasing", "settling", "done"}]
  /\ next \in [Requests -> {"pull", "cap", "fail", "stop"}]
  /\ worker \in [Requests -> SUBSET {"call", "close"}]
  /\ gone \in [Requests -> BOOLEAN]
  /\ count \in [Requests -> 0..MaxEvents]
  /\ frames \in [Requests -> Seq({"data", "error", "end"})]
  /\ primary \in [Requests -> Errors] /\ late \in [Requests -> Errors]
  /\ raising \in [Requests -> BOOLEAN]
  /\ events \in [Requests -> Seq({"started", "rejected", "failed", "completed"})]

Init ==
  /\ Lock!Init
  /\ endpoint \in [Requests -> Endpoints]
  /\ isSync \in [Requests -> BOOLEAN] /\ locks \in [Requests -> BOOLEAN]
  /\ pc = [r \in Requests |-> "arriving"]
  /\ next = [r \in Requests |-> "pull"]
  /\ worker = [r \in Requests |-> {}]
  /\ gone = [r \in Requests |-> FALSE]
  /\ count = [r \in Requests |-> 0]
  /\ frames = [r \in Requests |-> <<>>]
  /\ primary = [r \in Requests |-> "none"]
  /\ late = [r \in Requests |-> "none"]
  /\ raising = [r \in Requests |-> FALSE]
  /\ events = [r \in Requests |-> <<>>]

Goto(r, p) == pc' = [pc EXCEPT ![r] = p]

Tell(r, e) == events' = [events EXCEPT ![r] = Append(@, e)]

Yield(r, f, n) ==
  /\ frames' = [frames EXCEPT ![r] = Append(@, f)]
  /\ next' = [next EXCEPT ![r] = n]
  /\ Goto(r, "yielding")

\* A call of a synchronous graph goes to a worker thread.
Submit(r, call) == worker' = [worker EXCEPT ![r] = IF isSync[r] THEN @ \cup {call} ELSE @]

Unheld == UNCHANGED lockVars

--------------------------------------------------------------------------------
(***************************************************************************)
(* The client disconnects, or the task is cancelled. The pending await, or *)
(* the yield the generator is suspended in, raises.                        *)
(***************************************************************************)
Leave(r) ==
  /\ ~gone[r] /\ pc[r] \notin {"arriving", "done"}
  /\ gone' = [gone EXCEPT ![r] = TRUE]
  /\ UNCHANGED <<lockVars, requestVars, pc, next, worker, count, frames, errorVars, events>>

Reject(r) ==
  /\ Tell(r, "rejected") /\ Goto(r, "done")
  /\ UNCHANGED <<lockVars, requestVars, next, worker, gone, count, frames, errorVars>>

(***************************************************************************)
(* _handle_invoke and _handle_stream before the lock. A stream is answered *)
(* by a DeferredStreamingResponse: nothing is owned until it is executed.  *)
(***************************************************************************)
Validate(r) ==
  /\ pc[r] = "arriving"
  /\ \/ Reject(r)
     \/ /\ Goto(r, "deferred")
        /\ UNCHANGED <<lockVars, requestVars, next, worker, gone, count, frames, errorVars, events>>

Started(r) ==
  /\ Tell(r, "started")
  /\ IF endpoint[r] = "stream" THEN Goto(r, "preparing") /\ UNCHANGED worker
     ELSE Goto(r, "running") /\ Submit(r, "call")
  /\ UNCHANGED <<requestVars, next, gone, count, frames, errorVars>>

(***************************************************************************)
(* acquire_thread_lock or async_thread_lock. A response that is dropped,   *)
(* a cancelled acquire and an error of the backend leave nothing behind.   *)
(***************************************************************************)
TakeLock(r) ==
  /\ pc[r] = "deferred"
  /\ \/ locks[r] /\ ~gone[r] /\ Lock!Acquire(r) /\ Started(r)
     \/ ~locks[r] /\ ~gone[r] /\ Unheld /\ Started(r)
     \/ locks[r] /\ Lock!Refuse(r) /\ Reject(r)
     \/ /\ Goto(r, "done")
        /\ UNCHANGED <<lockVars, requestVars, next, worker, gone, count, frames, errorVars, events>>

Free(r) == IF r \in holders THEN Lock!Release(r) ELSE Unheld

(***************************************************************************)
(* _prepare_stream_response: the generator is primed, so that it is inside *)
(* its cleanup scope before the response is handed out; or the guard, the  *)
(* config or the response raises and the token is given back here.         *)
(***************************************************************************)
Prime(r) ==
  /\ pc[r] = "preparing"
  /\ \/ /\ next' = [next EXCEPT ![r] = "pull"] /\ Goto(r, "yielding")
        /\ UNCHANGED <<lockVars, events>>
     \/ /\ Free(r) /\ Tell(r, "failed") /\ Goto(r, "done")
        /\ UNCHANGED next
  /\ UNCHANGED <<requestVars, worker, gone, count, frames, errorVars>>

--------------------------------------------------------------------------------
\* check_ownership_guard after a stream that was exhausted, or an invoke.
GuardAgrees(r) == ~locks[r] \/ Lock!Passes(r)

Working(r) == "call" \in worker[r]

\* The worker thread has made its call of the graph.
WorkerEnds(r) ==
  /\ worker[r] # {}
  /\ \E w \in worker[r] : worker' = [worker EXCEPT ![r] = @ \ {w}]
  /\ UNCHANGED <<lockVars, requestVars, pc, next, gone, count, frames, errorVars, events>>

(***************************************************************************)
(* The frame is sent and the generator resumed, or the client is gone: a   *)
(* GeneratorExit at the yield. In an `except` clause it does not replace   *)
(* the error that is being reported.                                       *)
(***************************************************************************)
Resume(r) ==
  /\ pc[r] = "yielding" /\ ~gone[r]
  /\ CASE next[r] = "pull" -> Goto(r, "pulling") /\ Submit(r, "call")
       [] next[r] \in {"cap", "fail"} -> Goto(r, "closing") /\ UNCHANGED worker
       [] next[r] = "stop" -> Goto(r, "done") /\ UNCHANGED worker
  /\ UNCHANGED <<lockVars, requestVars, next, gone, count, frames, errorVars, events>>

ExitAtYield(r) ==
  /\ pc[r] = "yielding" /\ gone[r]
  /\ IF next[r] = "stop" THEN Goto(r, "done") /\ UNCHANGED <<primary, raising>>
     ELSE /\ primary' = IF next[r] = "fail" THEN primary ELSE [primary EXCEPT ![r] = "gone"]
          /\ raising' = [raising EXCEPT ![r] = TRUE]
          /\ Goto(r, "closing")
  /\ UNCHANGED <<lockVars, requestVars, next, worker, gone, count, frames, late, events>>

\* An event of the graph, within the cap or beyond it.
Event(r) ==
  /\ pc[r] = "pulling" /\ ~Working(r) /\ ~gone[r]
  /\ IF count[r] >= MaxEvents
     THEN /\ Yield(r, "error", "cap")
          /\ primary' = [primary EXCEPT ![r] = "error"]
          /\ UNCHANGED count
     ELSE /\ Yield(r, "data", "pull")
          /\ count' = [count EXCEPT ![r] = @ + 1]
          /\ UNCHANGED primary
  /\ UNCHANGED <<lockVars, requestVars, worker, gone, late, raising, events>>

\* The graph is exhausted, its iterator closed, and the guard agrees.
Exhausted(r) ==
  /\ pc[r] = "pulling" /\ ~Working(r) /\ ~gone[r] /\ GuardAgrees(r)
  /\ Goto(r, "closing")
  /\ UNCHANGED <<lockVars, requestVars, next, worker, gone, count, frames, errorVars, events>>

\* The graph, the encoding of an event or the guard raises.
Fail(r) ==
  /\ pc[r] = "pulling" /\ ~Working(r) /\ ~gone[r]
  /\ Yield(r, "error", "fail")
  /\ primary' = [primary EXCEPT ![r] = "error"]
  /\ UNCHANGED <<lockVars, requestVars, worker, gone, count, late, raising, events>>

(***************************************************************************)
(* Cancelled while it waits for an event: _await_sync_worker lets the call *)
(* of a synchronous graph finish before the cancellation is raised.        *)
(***************************************************************************)
\* Mutant of CancelPull: the worker is abandoned.
CancelPullAtOnce(r) ==
  /\ pc[r] = "pulling" /\ gone[r]
  /\ primary' = [primary EXCEPT ![r] = "gone"]
  /\ raising' = [raising EXCEPT ![r] = TRUE]
  /\ Goto(r, "closing")
  /\ Submit(r, "close")
  /\ UNCHANGED <<lockVars, requestVars, next, gone, count, frames, late, events>>

CancelPull(r) ==
  /\ pc[r] = "pulling" /\ ~Working(r) /\ gone[r]
  /\ primary' = [primary EXCEPT ![r] = "gone"]
  /\ raising' = [raising EXCEPT ![r] = TRUE]
  /\ Goto(r, "closing")
  /\ Submit(r, "close")
  /\ UNCHANGED <<lockVars, requestVars, next, gone, count, frames, late, events>>

(***************************************************************************)
(* events.aclose() in the finally: an iterator that is not exhausted is    *)
(* closed, and what it raises only logged when there is an error already.  *)
(* A cancellation that comes now is raised, once the token is released,    *)
(* unless the generator is leaving for one already.                        *)
(***************************************************************************)
Closed(r) ==
  /\ pc[r] = "closing" /\ worker[r] = {}
  /\ \/ UNCHANGED <<late, raising>>
     \/ /\ gone[r] /\ primary[r] # "gone"
        /\ late' = IF primary[r] = "none" THEN [late EXCEPT ![r] = "gone"] ELSE late
        /\ raising' = [raising EXCEPT ![r] = TRUE]
  /\ Goto(r, "releasing")
  /\ UNCHANGED <<lockVars, requestVars, next, worker, gone, count, frames, primary, events>>

\* Mutant of Release: only a stream that ends by itself frees the lock.
ReleaseIfEnded(r) ==
  /\ pc[r] = "releasing"
  /\ IF raising[r] THEN Unheld ELSE Free(r)
  /\ Goto(r, "settling")
  /\ UNCHANGED <<requestVars, next, worker, gone, count, frames, errorVars, events>>

\* release_thread_lock in the finally, or at the end of async_thread_lock.
Release(r) ==
  /\ pc[r] = "releasing" /\ Free(r)
  /\ \/ UNCHANGED <<late, raising>>
     \/ /\ gone[r] /\ locks[r] /\ primary[r] # "gone" /\ late[r] = "none"
        /\ late' = IF primary[r] = "none" THEN [late EXCEPT ![r] = "gone"] ELSE late
        /\ raising' = [raising EXCEPT ![r] = TRUE]
  /\ Goto(r, "settling")
  /\ UNCHANGED <<requestVars, next, worker, gone, count, frames, primary, events>>

\* Mutant of Settle: the error of the cleanup is not looked at.
SettleByPrimary(r) ==
  /\ pc[r] = "settling"
  /\ Tell(r, IF primary[r] # "none" THEN "failed" ELSE "completed")
  /\ IF endpoint[r] = "stream" /\ ~raising[r] THEN Yield(r, "end", "stop")
     ELSE Goto(r, "done") /\ UNCHANGED <<frames, next>>
  /\ UNCHANGED <<lockVars, requestVars, worker, gone, count, errorVars>>

\* The one terminal event, and the end frame of a stream that was not cut off.
\* The output of an invoke is encoded after the release, and may turn out not
\* to be serializable.
Settle(r) ==
  /\ pc[r] = "settling"
  /\ \E e \in {IF primary[r] # "none" \/ late[r] # "none" THEN "failed" ELSE "completed"}
           \cup (IF endpoint[r] = "invoke" THEN {"failed"} ELSE {}) : Tell(r, e)
  /\ IF endpoint[r] = "stream" /\ ~raising[r] THEN Yield(r, "end", "stop")
     ELSE Goto(r, "done") /\ UNCHANGED <<frames, next>>
  /\ UNCHANGED <<lockVars, requestVars, worker, gone, count, errorVars>>

\* Mutant of InvokeEnds: the output is believed without asking the guard.
InvokeEndsUnguarded(r) ==
  /\ pc[r] = "running" /\ ~Working(r)
  /\ \/ ~gone[r] /\ UNCHANGED primary
     \/ ~gone[r] /\ primary' = [primary EXCEPT ![r] = "error"]
     \/ gone[r] /\ primary' = [primary EXCEPT ![r] = "gone"]
  /\ Goto(r, "releasing")
  /\ UNCHANGED <<lockVars, requestVars, next, worker, gone, count, frames, late, raising, events>>

(***************************************************************************)
(* The graph call of _handle_invoke ends; cancelled, it is waited for if   *)
(* it is synchronous (run_sync_retaining_ownership).                       *)
(***************************************************************************)
InvokeEnds(r) ==
  /\ pc[r] = "running" /\ ~Working(r)
  /\ \/ ~gone[r] /\ GuardAgrees(r) /\ UNCHANGED primary
     \/ ~gone[r] /\ primary' = [primary EXCEPT ![r] = "error"]
     \/ gone[r] /\ primary' = [primary EXCEPT ![r] = "gone"]
  /\ Goto(r, "releasing")
  /\ UNCHANGED <<lockVars, requestVars, next, worker, gone, count, frames, late, raising, events>>

--------------------------------------------------------------------------------
\* _handle_invoke.
HandleInvoke(r) ==
  /\ endpoint[r] = "invoke"
  /\ Validate(r) \/ TakeLock(r) \/ InvokeEnds(r) \/ Release(r) \/ Settle(r)

\* _handle_stream and the response it defers.
HandleStream(r) ==
  /\ endpoint[r] = "stream"
  /\ Validate(r) \/ TakeLock(r) \/ Prime(r)

\* _sse_event_stream, as the response drives it.
Generate(r) ==
  /\ endpoint[r] = "stream"
  /\ \/ Resume(r) \/ ExitAtYield(r) \/ Event(r) \/ Exhausted(r) \/ Fail(r)
     \/ CancelPull(r) \/ Closed(r) \/ Release(r) \/ Settle(r)

LockFails(r) ==
  /\ Lock!Lapse(r) \/ Lock!Report(r)
  /\ UNCHANGED <<requestVars, pc, next, worker, gone, count, frames, errorVars, events>>

Next == \E r \in Requests :
  \/ HandleInvoke(r) \/ HandleStream(r) \/ Generate(r)
  \/ WorkerEnds(r) \/ Leave(r) \/ LockFails(r)

Spec == Init /\ [][Next]_vars

\* Graphs and worker threads go on, and a client reads on or leaves.
Fairness == \A r \in Requests :
  /\ WF_vars(HandleInvoke(r)) /\ WF_vars(HandleStream(r)) /\ WF_vars(Generate(r))
  /\ WF_vars(WorkerEnds(r))

FairSpec == Spec /\ Fairness

--------------------------------------------------------------------------------
(***************************************************************************)
(* A worker thread that is in the graph of a locked run works under the    *)
(* lock of that run, however its client left. A synchronous iterator is    *)
(* never entered by two threads: it is closed only after the call in       *)
(* flight has returned.                                                    *)
(***************************************************************************)
WorkerOwnsThread == \A r \in Requests : worker[r] # {} /\ locks[r] => r \in holders

IteratorNotRaced == \A r \in Requests : Cardinality(worker[r]) <= 1

WorkerAlone == WorkerOwnsThread /\ IteratorNotRaced

(***************************************************************************)
(* Two locked executions overlap only across hosts and after a lapse.      *)
(***************************************************************************)
Executing(r) ==
  /\ locks[r]
  /\ \/ worker[r] # {}
     \/ pc[r] \in {"yielding", "pulling", "running", "closing"} /\ next[r] # "stop"

OneExecution ==
  \A q, r \in Requests : q # r /\ Executing(q) /\ Executing(r) =>
    HostOf[q] # HostOf[r] /\ (q \in lapsed \/ r \in lapsed)

(***************************************************************************)
(* A request that is over holds no lock, whether its response was dropped, *)
(* failed to be prepared, cut off, or sent to the end.                     *)
(***************************************************************************)
NoLockKept == \A r \in Requests : pc[r] = "done" => r \notin holders

(***************************************************************************)
(* The observer's ordering invariant, here also for runs that are cut off: *)
(* a run that is over had one terminal event if it was started.            *)
(***************************************************************************)
ExactlyOneTerminal ==
  \A r \in Requests : pc[r] = "done" =>
    events[r] \in {<<>>, <<"rejected">>, <<"started", "completed">>, <<"started", "failed">>}

(***************************************************************************)
(* A stream with an end frame is complete and truthful: one error frame    *)
(* if and only if the observer was told of a failure, nothing after it but *)
(* the end, and the end is last. A run that is cut off is not completed.   *)
(***************************************************************************)
Frames(r, f) == Cardinality({i \in DOMAIN frames[r] : frames[r][i] = f})

StreamAgrees ==
  \A r \in Requests :
    /\ Frames(r, "end") <= 1 /\ Frames(r, "error") <= 1
    /\ Frames(r, "error") = 1 => frames[r][count[r] + 1] = "error"
    /\ Frames(r, "end") = 1 =>
         Last(frames[r]) = "end" /\ (Last(events[r]) = "failed" <=> Frames(r, "error") = 1)
    /\ raising[r] /\ Len(events[r]) = 2 => Last(events[r]) = "failed"

(***************************************************************************)
(* A run, of either endpoint, whose lock is known to be lost while the     *)
(* graph is not yet done with is never told to have completed: not when    *)
(* its guard is asked, and not later, when the lock is released, the loss  *)
(* forgotten and another run holds the thread.                             *)
(***************************************************************************)
InGraph(r) ==
  \/ pc[r] \in {"preparing", "pulling", "running"}
  \/ pc[r] = "yielding" /\ next[r] = "pull"

Doomed(r) ==
  \/ r \in reported /\ InGraph(r)
  \/ primary[r] # "none" \/ events[r] = <<"started", "failed">>

LostIsNotCompleted ==
  [][\A r \in Requests : Doomed(r) => Doomed(r)' /\ ~Tell(r, "completed")]_vars

--------------------------------------------------------------------------------
(***************************************************************************)
(* The inductive invariant. The scope of the lock is the part of a handler *)
(* from its acquire to its release; `next` says of a generator suspended   *)
(* in a yield whether the scope is behind it.                              *)
(***************************************************************************)
InScope(r) ==
  \/ pc[r] \in {"preparing", "running", "pulling", "closing", "releasing"}
  \/ pc[r] = "yielding" /\ next[r] # "stop"

\* A locked request holds the lock exactly in its scope.
HoldsInScope(r) == r \in holders <=> locks[r] /\ InScope(r)

\* Two holders are in two processes, and the lock of one has lapsed.
HoldersApart ==
  \A q, r \in holders : q # r => HostOf[q] # HostOf[r] /\ (q \in lapsed \/ r \in lapsed)

\* A thread calls the graph only while its handler awaits the call.
WorkersFit(r) ==
  /\ "call" \in worker[r] => pc[r] \in {"running", "pulling"}
  /\ "close" \in worker[r] => pc[r] = "closing"

\* Each endpoint has its own program points.
PcFits(r) ==
  /\ pc[r] \in {"preparing", "pulling", "yielding", "closing"} => endpoint[r] = "stream"
  /\ pc[r] = "running" => endpoint[r] = "invoke"
  /\ next[r] = "stop" => pc[r] \in {"yielding", "done"}

\* The terminal event is told on the way out, and once.
Over(r) ==
  \/ pc[r] = "done"
  \/ pc[r] = "yielding" /\ next[r] = "stop"

EventsFit(r) ==
  /\ pc[r] \in {"arriving", "deferred"} => events[r] = <<>>
  /\ InScope(r) \/ pc[r] = "settling" => events[r] = <<"started">>
  /\ Over(r) =>
       events[r] \in {<<>>, <<"rejected">>, <<"started", "completed">>, <<"started", "failed">>}

\* What the generator has yielded: its data, an error if there was one, the end.
Yielded(r, failed, ended) ==
  /\ Len(frames[r]) = count[r] + (IF failed THEN 1 ELSE 0) + (IF ended THEN 1 ELSE 0)
  /\ \A i \in 1..count[r] : frames[r][i] = "data"
  /\ failed => frames[r][count[r] + 1] = "error"
  /\ ended => frames[r][Len(frames[r])] = "end"

\* No error yet, and nothing to raise.
Clean(r) ==
  \/ pc[r] \in {"arriving", "deferred", "preparing", "running", "pulling"}
  \/ pc[r] = "yielding" /\ next[r] = "pull"

Untouched(r) ==
  /\ Yielded(r, FALSE, FALSE)
  /\ primary[r] = "none" /\ late[r] = "none" /\ ~raising[r]

\* It yielded an error frame and is about to clean up.
Failing(r) ==
  /\ Yielded(r, TRUE, FALSE)
  /\ primary[r] = "error" /\ late[r] = "none" /\ ~raising[r]

\* It cleans up: a stream that is not cut off reported its error in a frame,
\* and one that is cut off has an error to tell.
Leaving(r) ==
  /\ \E failed \in BOOLEAN :
       /\ Yielded(r, failed, FALSE)
       /\ failed => primary[r] # "none"
       /\ endpoint[r] = "stream" /\ ~raising[r] =>
            late[r] = "none" /\ (failed <=> primary[r] # "none")
  /\ raising[r] => primary[r] # "none" \/ late[r] # "none"

\* Nothing is left to do for it.
Told(r) ==
  /\ \E failed, ended \in BOOLEAN :
       /\ Yielded(r, failed, ended)
       /\ ended => ~raising[r] /\ (failed <=> events[r] = <<"started", "failed">>)
                            /\ Len(events[r]) = 2
  /\ raising[r] => events[r] = <<"started", "failed">>

FramesFit(r) ==
  /\ Clean(r) => Untouched(r)
  /\ pc[r] = "yielding" /\ next[r] \in {"cap", "fail"} => Failing(r)
  /\ pc[r] \in {"closing", "releasing", "settling"} => Leaving(r)
  /\ Over(r) => Told(r)

Fits(r) == HoldsInScope(r) /\ WorkersFit(r) /\ PcFits(r) /\ EventsFit(r) /\ FramesFit(r)

Inv == TypeOK /\ HoldersApart /\ \A r \in Requests : Fits(r)

(***************************************************************************)
(* The lock of a run is freed at last, if the client reads on or leaves.   *)
(***************************************************************************)
RunsEnd == \A r \in Requests : r \in holders ~> r \notin holders
================================================================================
