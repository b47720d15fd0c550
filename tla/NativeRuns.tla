------------------------------- MODULE NativeRuns -------------------------------
(***************************************************************************)
(* The native endpoints (_handlers.py): handle_invoke, handle_stream and   *)
(* their async twins, on a thread lock that may lapse (RunLock), with the  *)
(* ownership guard, the run observer and the buffered SSE response.        *)
(*                                                                         *)
(* One thread of one graph with a checkpointer; a request without a        *)
(* thread takes no lock. A sync handler runs in a thread of its own, an    *)
(* async one is a task that may be cancelled at every await; the lock      *)
(* calls it awaits behave as AsyncThreadLock shows.                        *)
(***************************************************************************)
EXTENDS Integers, Sequences, FiniteSets, SequencesExt

CONSTANTS Requests,
          HostOf,     \* the process a request runs in
          Kinds,      \* the handlers of this instance
          MaxBytes,   \* max_stream_response_bytes, in units
          Sizes,      \* sizes of the events of a graph
          ErrorSize,  \* size of the frame of a failed stream
          Dying       \* bound: the hosts that may crash

SizesPositive == Sizes \subseteq Nat \ {0} /\ ErrorSize \in Nat \ {0}
LimitNat == MaxBytes \in Nat

VARIABLES
  holders, lapsed, reported, \* the thread lock (RunLock)
  kind,    \* kind[r]: the handler
  locks,   \* locks[r]: the request names a thread, so the run is locked
  pc,      \* where the handler is
  frames,  \* frames[r]: `chunks`
  buffered,\* buffered[r]: `buffered_bytes`
  exit,    \* exit[r]: how the graph's part ended
  events,  \* events[r]: what the observer was told
  response \* response[r]: what the host answers

lockVars == <<holders, lapsed, reported>>
bodyVars == <<frames, buffered, exit>>
vars == <<lockVars, kind, locks, pc, bodyVars, events, response>>

Lock == INSTANCE RunLock WITH Runs <- Requests, HostOfRun <- HostOf

IsAsync(r) == kind[r] \in {"invoke_async", "stream_async"}
IsStream(r) == kind[r] \in {"stream", "stream_async"}

Exits == {"none", "ok", "failed", "aborted"}

TypeOK ==
  /\ holders \subseteq Requests /\ lapsed \subseteq holders /\ reported \subseteq holders
  /\ kind \in [Requests -> Kinds]
  /\ locks \in [Requests -> BOOLEAN]
  /\ pc \in [Requests -> {"arriving", "locking", "running", "closing", "leaving",
                          "answering", "done"}]
  /\ frames \in [Requests -> Seq({"data", "error", "end"})]
  /\ buffered \in [Requests -> 0..MaxBytes]
  /\ exit \in [Requests -> Exits]
  /\ events \in [Requests -> Seq({"started", "rejected", "failed", "completed"})]
  /\ response \in [Requests -> {"none", "rejected", "200", "500", "raised"}]

Init ==
  /\ Lock!Init
  /\ kind \in [Requests -> Kinds]
  /\ locks \in [Requests -> BOOLEAN]
  /\ pc = [r \in Requests |-> "arriving"]
  /\ frames = [r \in Requests |-> <<>>]
  /\ buffered = [r \in Requests |-> 0]
  /\ exit = [r \in Requests |-> "none"]
  /\ events = [r \in Requests |-> <<>>]
  /\ response = [r \in Requests |-> "none"]

Goto(r, p) == pc' = [pc EXCEPT ![r] = p]

Tell(r, e) == events' = [events EXCEPT ![r] = Append(@, e)]

Answer(r, a) == response' = [response EXCEPT ![r] = a] /\ Goto(r, "done")

--------------------------------------------------------------------------------
\* _reject: the observer hears of it, the client gets the status and the run id.
Reject(r) ==
  /\ Tell(r, "rejected") /\ Answer(r, "rejected")
  /\ UNCHANGED <<lockVars, kind, locks, bodyVars>>

\* Leaves the handler by an exception nothing in it catches.
Raise(r) ==
  /\ Answer(r, "raised")
  /\ UNCHANGED <<lockVars, kind, locks, bodyVars, events>>

(***************************************************************************)
(* Everything before the lock: an invoke-only graph, parsing and limits,   *)
(* config and thread id, authorization, the version. It only reads; an     *)
(* async authorizer is awaited, and may be cancelled.                      *)
(***************************************************************************)
Validate(r) ==
  /\ pc[r] = "arriving"
  /\ \/ Reject(r)
     \/ IsAsync(r) /\ Raise(r)
     \/ /\ Goto(r, "locking")
        /\ UNCHANGED <<lockVars, kind, locks, bodyVars, events, response>>

\* on_run_started, and the graph is called.
Start(r) ==
  /\ Tell(r, "started") /\ Goto(r, "running")
  /\ UNCHANGED <<kind, locks, bodyVars, response>>

(***************************************************************************)
(* acquire: a token, contention, or an error of the backend (a closed      *)
(* lock), which is raised before anything was started. A cancelled acquire *)
(* leaves no token behind (AsyncThreadLock!NothingLeftBehind).             *)
(***************************************************************************)
TakeLock(r) ==
  /\ pc[r] = "locking"
  /\ \/ locks[r] /\ Lock!Acquire(r) /\ Start(r)
     \/ locks[r] /\ Lock!Refuse(r) /\ Reject(r)
     \/ locks[r] /\ Raise(r)
     \/ ~locks[r] /\ UNCHANGED lockVars /\ Start(r)

--------------------------------------------------------------------------------
(***************************************************************************)
(* _append_chunk: a chunk that does not fit becomes the one error frame.   *)
(***************************************************************************)
AppendChunk(r, f, size) ==
  IF buffered[r] + size > MaxBytes
  THEN frames' = [frames EXCEPT ![r] = Append(@, "error")] /\ UNCHANGED buffered
  ELSE /\ frames' = [frames EXCEPT ![r] = Append(@, f)]
       /\ buffered' = [buffered EXCEPT ![r] = @ + size]

\* check_ownership_guard once the graph has ended.
GuardAgrees(r) == ~locks[r] \/ Lock!Passes(r)

\* One event of the graph; a stream that has grown too long is cut.
StreamEvent(r) ==
  /\ pc[r] = "running" /\ IsStream(r)
  /\ \E size \in Sizes :
       /\ AppendChunk(r, "data", size)
       /\ IF buffered[r] + size > MaxBytes
          THEN exit' = [exit EXCEPT ![r] = "failed"] /\ Goto(r, "closing")
          ELSE UNCHANGED <<exit, pc>>
  /\ UNCHANGED <<lockVars, kind, locks, events, response>>

\* The graph has returned, the guard agrees, and the output is serializable.
GraphEnds(r) ==
  /\ pc[r] = "running" /\ GuardAgrees(r)
  /\ exit' = [exit EXCEPT ![r] = "ok"] /\ Goto(r, "closing")
  /\ UNCHANGED <<lockVars, kind, locks, frames, buffered, events, response>>

(***************************************************************************)
(* The graph, the serialization of an output, the lock's guard or the      *)
(* config raises: an error frame, or on_run_failed at once.                *)
(***************************************************************************)
GraphFails(r) ==
  /\ pc[r] = "running"
  /\ exit' = [exit EXCEPT ![r] = "failed"] /\ Goto(r, "closing")
  /\ IF IsStream(r)
     THEN AppendChunk(r, "error", ErrorSize) /\ UNCHANGED events
     ELSE Tell(r, "failed") /\ UNCHANGED <<frames, buffered>>
  /\ UNCHANGED <<lockVars, kind, locks, response>>

\* The task is cancelled while the graph runs: `except Exception` does not see it.
GraphCancelled(r) ==
  /\ pc[r] = "running" /\ IsAsync(r)
  /\ exit' = [exit EXCEPT ![r] = "aborted"] /\ Goto(r, "closing")
  /\ UNCHANGED <<lockVars, kind, locks, frames, buffered, events, response>>

(***************************************************************************)
(* handle_stream_async finishes the async generator while it still holds   *)
(* the lock; the generator's own cleanup may take time, raise, or be       *)
(* cancelled. In the other handlers there is nothing to close.             *)
(***************************************************************************)
Close(r) ==
  /\ pc[r] = "closing"
  /\ \E raises \in IF kind[r] = "stream_async" THEN BOOLEAN ELSE {FALSE} :
       exit' = IF raises THEN [exit EXCEPT ![r] = "aborted"] ELSE exit
  /\ Goto(r, "leaving")
  /\ UNCHANGED <<lockVars, kind, locks, frames, buffered, events, response>>

(***************************************************************************)
(* The token is released on every way out, the await of it included: a     *)
(* cancellation meanwhile is raised once the lock is free.                 *)
(***************************************************************************)
LeaveLock(r) ==
  /\ pc[r] = "leaving"
  /\ IF locks[r] THEN Lock!Release(r) ELSE UNCHANGED lockVars
  /\ \/ UNCHANGED exit
     \/ IsAsync(r) /\ locks[r] /\ exit' = [exit EXCEPT ![r] = "aborted"]
  /\ Goto(r, "answering")
  /\ UNCHANGED <<kind, locks, frames, buffered, events, response>>

\* The last frame, the terminal event that is still due, and the response.
Respond(r) ==
  /\ pc[r] = "answering"
  /\ IF exit[r] = "aborted" THEN Answer(r, "raised") /\ UNCHANGED <<frames, events>>
     ELSE /\ Answer(r, IF exit[r] = "ok" \/ IsStream(r) THEN "200" ELSE "500")
          /\ frames' = IF IsStream(r) THEN [frames EXCEPT ![r] = Append(@, "end")] ELSE frames
          /\ IF exit[r] = "ok" THEN Tell(r, "completed")
             ELSE IF IsStream(r) THEN Tell(r, "failed") ELSE UNCHANGED events
  /\ UNCHANGED <<lockVars, kind, locks, buffered, exit>>

--------------------------------------------------------------------------------
\* The four handlers.
HandleInvoke(r) ==
  /\ kind[r] = "invoke"
  /\ \/ Validate(r) \/ TakeLock(r) \/ GraphEnds(r) \/ GraphFails(r)
     \/ Close(r) \/ LeaveLock(r) \/ Respond(r)

HandleStream(r) ==
  /\ kind[r] = "stream"
  /\ \/ Validate(r) \/ TakeLock(r) \/ StreamEvent(r) \/ GraphEnds(r) \/ GraphFails(r)
     \/ Close(r) \/ LeaveLock(r) \/ Respond(r)

HandleInvokeAsync(r) ==
  /\ kind[r] = "invoke_async"
  /\ \/ Validate(r) \/ TakeLock(r) \/ GraphEnds(r) \/ GraphFails(r) \/ GraphCancelled(r)
     \/ Close(r) \/ LeaveLock(r) \/ Respond(r)

HandleStreamAsync(r) ==
  /\ kind[r] = "stream_async"
  /\ \/ Validate(r) \/ TakeLock(r) \/ StreamEvent(r) \/ GraphEnds(r) \/ GraphFails(r)
     \/ GraphCancelled(r) \/ Close(r) \/ LeaveLock(r) \/ Respond(r)

Handle(r) ==
  HandleInvoke(r) \/ HandleStream(r) \/ HandleInvokeAsync(r) \/ HandleStreamAsync(r)

\* The backend loses a lock, or notices that it has.
LockFails(r) ==
  /\ Lock!Lapse(r) \/ Lock!Report(r)
  /\ UNCHANGED <<kind, locks, pc, bodyVars, events, response>>

\* A host dies with all its handlers.
Crash(h) ==
  /\ h \in Dying
  /\ LET dead == {r \in Requests : HostOf[r] = h} IN
       /\ \E r \in dead : pc[r] \notin {"arriving", "done"}
       /\ pc' = [r \in Requests |-> IF r \in dead THEN "done" ELSE pc[r]]
       /\ response' = [r \in Requests |->
            IF r \in dead /\ response[r] = "none" THEN "raised" ELSE response[r]]
       /\ holders' = holders \ dead
       /\ lapsed' = lapsed \ dead
       /\ reported' = reported \ dead
  /\ UNCHANGED <<kind, locks, bodyVars, events>>

Next ==
  \/ \E r \in Requests : Handle(r) \/ LockFails(r)
  \/ \E h \in Dying : Crash(h)

Spec == Init /\ [][Next]_vars

--------------------------------------------------------------------------------
(***************************************************************************)
(* Two locked executions of a thread overlap only if a lock has lapsed,    *)
(* and never in one process. An execution lasts until its generator is     *)
(* closed, on whatever way out.                                            *)
(***************************************************************************)
Executing(r) == locks[r] /\ pc[r] \in {"running", "closing"}

OneExecution ==
  \A q, r \in Requests : q # r /\ Executing(q) /\ Executing(r) =>
    HostOf[q] # HostOf[r] /\ (q \in lapsed \/ r \in lapsed)

(***************************************************************************)
(* A request that is over holds no lock, however it ended: rejected,       *)
(* failed, cancelled, cut, or raised by the generator's cleanup.           *)
(***************************************************************************)
NoLockKept == \A r \in Requests : pc[r] \in {"answering", "done"} => r \notin holders

(***************************************************************************)
(* What the observer, the SSE frames and the status say agree: an answer   *)
(* other than a rejection comes with one started and one terminal event,   *)
(* a completed run has no error frame and a failed one exactly one, and a  *)
(* stream ends with its only end frame.                                    *)
(***************************************************************************)
Frames(r, f) == Cardinality({i \in DOMAIN frames[r] : frames[r][i] = f})

AnswersAgree ==
  \A r \in Requests :
    /\ response[r] = "rejected" => events[r] = <<"rejected">> /\ frames[r] = <<>>
    /\ response[r] = "500" => events[r] = <<"started", "failed">>
    /\ response[r] = "200" =>
         /\ events[r] \in {<<"started", "completed">>, <<"started", "failed">>}
         /\ Frames(r, "error") = IF Last(events[r]) = "failed" THEN 1 ELSE 0
         /\ IsStream(r) => Frames(r, "end") = 1 /\ Last(frames[r]) = "end"

(***************************************************************************)
(* A run whose lock is known to be lost while its graph runs is never told *)
(* to have completed, however it is closed, released and answered: its     *)
(* graph may have worked on somebody else's state.                         *)
(***************************************************************************)
Doomed(r) ==
  \/ r \in reported /\ pc[r] = "running"
  \/ exit[r] \in {"failed", "aborted"}
  \/ pc[r] = "done" /\ exit[r] = "none"

LostIsNotCompleted ==
  [][\A r \in Requests : Doomed(r) => Doomed(r)' /\ ~Tell(r, "completed")]_vars

(***************************************************************************)
(* The observer's ordering invariant (observability.py): a run that was    *)
(* started and is over has had one terminal event. It had none only in a   *)
(* host that died, or as an async run that was cancelled or whose          *)
(* generator's cleanup raised: that leaves by an exception which no        *)
(* observer is told of. None has two.                                      *)
(***************************************************************************)
EndsUntold(r) == (IsAsync(r) /\ exit[r] = "aborted") \/ HostOf[r] \in Dying

ExactlyOneTerminal ==
  \A r \in Requests : pc[r] = "done" =>
    \/ events[r] \in {<<>>, <<"rejected">>, <<"started", "completed">>, <<"started", "failed">>}
    \/ events[r] = <<"started">> /\ EndsUntold(r)

--------------------------------------------------------------------------------
(***************************************************************************)
(* The inductive invariant. The scope of the lock is the part of a handler *)
(* from its acquire to its release.                                        *)
(***************************************************************************)
InScope(r) == pc[r] \in {"running", "closing", "leaving"}

\* A locked request holds the lock exactly in its scope.
HoldsInScope(r) == r \in holders <=> locks[r] /\ InScope(r)

\* Two holders are in two processes, and the lock of one has lapsed.
HoldersApart ==
  \A q, r \in holders : q # r => HostOf[q] # HostOf[r] /\ (q \in lapsed \/ r \in lapsed)

\* What is in the buffer: the events, an error if there was one, the end.
Buffered(r, failed, ended) ==
  \E n \in 0..Len(frames[r]) :
    /\ Len(frames[r]) = n + (IF failed THEN 1 ELSE 0) + (IF ended THEN 1 ELSE 0)
    /\ \A i \in 1..n : frames[r][i] = "data"
    /\ failed => frames[r][n + 1] = "error"
    /\ ended => frames[r][Len(frames[r])] = "end"

\* Before the graph is called nobody was told anything.
EarlyFits(r) ==
  pc[r] \in {"arriving", "locking"} => events[r] = <<>> /\ frames[r] = <<>> /\ exit[r] = "none"

RunFits(r) ==
  pc[r] = "running" =>
    events[r] = <<"started">> /\ exit[r] = "none" /\ Buffered(r, FALSE, FALSE)

\* A failed stream has its error frame and has yet to tell the observer; a
\* failed invoke has told it. Only an async handler is cut off.
ExitFits(r) ==
  pc[r] \in {"closing", "leaving", "answering"} =>
    /\ exit[r] # "none"
    /\ exit[r] = "ok" => events[r] = <<"started">> /\ Buffered(r, FALSE, FALSE)
    /\ exit[r] = "failed" /\ IsStream(r) =>
         events[r] = <<"started">> /\ Buffered(r, TRUE, FALSE)
    /\ exit[r] = "failed" /\ ~IsStream(r) =>
         events[r] = <<"started", "failed">> /\ Buffered(r, FALSE, FALSE)
    /\ exit[r] = "aborted" =>
         IsAsync(r) /\ events[r] \in {<<"started">>, <<"started", "failed">>}

\* An answer is given at the end, and agrees with what the observer knows.
AnswerFits(r) ==
  /\ response[r] = "none" <=> pc[r] # "done"
  /\ response[r] = "rejected" => events[r] = <<"rejected">> /\ frames[r] = <<>>
  /\ response[r] = "500" => events[r] = <<"started", "failed">>
  /\ response[r] = "200" => \E failed \in BOOLEAN :
       /\ events[r] = <<"started", IF failed THEN "failed" ELSE "completed">>
       /\ Buffered(r, failed, IsStream(r))
  /\ response[r] = "raised" =>
       \/ events[r] \in {<<>>, <<"started", "failed">>}
       \/ events[r] = <<"started">> /\ EndsUntold(r)

Fits(r) == HoldsInScope(r) /\ EarlyFits(r) /\ RunFits(r) /\ ExitFits(r) /\ AnswerFits(r)

Inv == TypeOK /\ HoldersApart /\ \A r \in Requests : Fits(r)
================================================================================
