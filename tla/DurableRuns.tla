------------------------------ MODULE DurableRuns ------------------------------
(***************************************************************************)
(* Durable runs (durable/): the create, get and cancel routes, an          *)
(* orchestration that calls one activity, and the activity that executes   *)
(* the graph under the thread's lock (RunLock) and answers with a          *)
(* normalized result.                                                      *)
(*                                                                         *)
(* The Durable Task framework is external: an orchestration is started at  *)
(* most once at a time under an id and may be started again once it has    *)
(* ended, an activity is delivered at least once, the first result counts, *)
(* and terminate acts on the orchestration only, some time later. All runs *)
(* are of one graph and, where they name it, of one thread.                *)
(***************************************************************************)
EXTENDS Integers, Sequences, FiniteSets, SequencesExt

CONSTANTS Ids,       \* run ids, which are orchestration instance ids
          Execs,     \* deliveries of the activity: numbers, in their order
          HostOf,    \* the host a delivery goes to
          MaxStarts, \* bound: how often an id is started
          Dying,     \* bound: the hosts that may crash
          NoTask

StartsPositive == MaxStarts \in Nat \ {0} /\ Execs \subseteq Nat

VARIABLES
  holders, lapsed, reported, \* the thread lock (RunLock)
  locks,      \* ids of runs with a checkpointed graph and a thread
  runtime,    \* runtime[i]: runtime_status of the orchestration
  output,     \* output[i]: activity_status in its output
  starts,     \* starts[i]: how often it was started
  cancelling, \* ids whose termination is under way
  tasks,      \* activity calls the framework has not seen answered
  task,       \* task[e]: the call a delivery executes
  pc,         \* where a delivery is
  result,     \* result[e]: its DurableRunResult, or "raised"
  events      \* events[e]: what the observer was told

lockVars == <<holders, lapsed, reported>>
clientVars == <<runtime, output, starts, cancelling, tasks>>
activityVars == <<task, pc, result, events>>
vars == <<lockVars, locks, clientVars, activityVars>>

Lock == INSTANCE RunLock WITH Runs <- Execs, HostOfRun <- HostOf

Tasks == Ids \X (1..MaxStarts)

TypeOK ==
  /\ holders \subseteq Execs /\ lapsed \subseteq holders /\ reported \subseteq holders
  /\ locks \subseteq Ids
  /\ runtime \in [Ids -> {"none", "Pending", "Running", "Completed", "Failed", "Terminated"}]
  /\ output \in [Ids -> {"none", "success", "error", "rejected"}]
  /\ starts \in [Ids -> 0..MaxStarts]
  /\ cancelling \subseteq Ids /\ tasks \subseteq Tasks
  /\ task \in [Execs -> Tasks \cup {NoTask}]
  /\ pc \in [Execs -> {"idle", "locking", "running", "leaving", "reporting", "done"}]
  /\ result \in [Execs -> {"none", "success", "error", "rejected", "raised"}]
  /\ events \in [Execs -> Seq({"started", "rejected", "failed", "completed"})]

Init ==
  /\ Lock!Init
  /\ locks \in SUBSET Ids
  /\ runtime = [i \in Ids |-> "none"]
  /\ output = [i \in Ids |-> "none"]
  /\ starts = [i \in Ids |-> 0]
  /\ cancelling = {} /\ tasks = {}
  /\ task = [e \in Execs |-> NoTask]
  /\ pc = [e \in Execs |-> "idle"]
  /\ result = [e \in Execs |-> "none"]
  /\ events = [e \in Execs |-> <<>>]

InFlight(i) == runtime[i] \in {"Pending", "Running"}

--------------------------------------------------------------------------------
\* normalize_status; what an activity rejected or failed is an error, although
\* its orchestration completed.
NormalizeStatus(status, out) ==
  CASE status = "Pending" -> "pending"
    [] status = "Completed" -> IF out \in {"error", "rejected"} THEN "error" ELSE "success"
    [] status = "Failed" -> "error"
    [] status = "Terminated" -> "cancelled"
    [] OTHER -> "running"

\* get_run_impl: 404, or what a client is told of a run.
GetRun(i) == IF runtime[i] = "none" THEN "404" ELSE NormalizeStatus(runtime[i], output[i])

(***************************************************************************)
(* create_run_http and create_run_impl: start_new under the client's run   *)
(* id or a fresh one. The framework refuses an id that is in flight.       *)
(***************************************************************************)
CreateRun(i) ==
  /\ ~InFlight(i) /\ starts[i] < MaxStarts
  /\ runtime' = [runtime EXCEPT ![i] = "Pending"]
  /\ output' = [output EXCEPT ![i] = "none"]
  /\ starts' = [starts EXCEPT ![i] = @ + 1]
  /\ UNCHANGED <<lockVars, locks, cancelling, tasks, activityVars>>

\* cancel_run_impl: whatever state the run is in, it is asked to terminate.
CancelRun(i) ==
  /\ runtime[i] # "none" /\ i \notin cancelling
  /\ cancelling' = cancelling \cup {i}
  /\ UNCHANGED <<lockVars, locks, runtime, output, starts, tasks, activityVars>>

\* Terminates the orchestration; an activity at work goes on.
Terminate(i) ==
  /\ i \in cancelling
  /\ cancelling' = cancelling \ {i}
  /\ runtime' = IF InFlight(i) THEN [runtime EXCEPT ![i] = "Terminated"] ELSE runtime
  /\ UNCHANGED <<lockVars, locks, output, starts, tasks, activityVars>>

\* run_orchestration yields its one activity call.
Orchestrate(i) ==
  /\ runtime[i] = "Pending"
  /\ runtime' = [runtime EXCEPT ![i] = "Running"]
  /\ tasks' = tasks \cup {<<i, starts[i]>>}
  /\ UNCHANGED <<lockVars, locks, output, starts, cancelling, activityVars>>

--------------------------------------------------------------------------------
\* An unanswered call is delivered, perhaps not for the first time.
Dispatch(e) ==
  /\ pc[e] = "idle" /\ \A d \in Execs : d < e => pc[d] # "idle"
  /\ \E t \in tasks : task' = [task EXCEPT ![e] = t]
  /\ pc' = [pc EXCEPT ![e] = "locking"]
  /\ UNCHANGED <<lockVars, locks, clientVars, result, events>>

Goto(e, p) == pc' = [pc EXCEPT ![e] = p]

Tell(e, v) == events' = [events EXCEPT ![e] = Append(@, v)]

Answer(e, a) == result' = [result EXCEPT ![e] = a]

UseLock(e) == task[e][1] \in locks

Start(e) == Tell(e, "started") /\ Goto(e, "running") /\ UNCHANGED result

Reject(e) == Tell(e, "rejected") /\ Answer(e, "rejected") /\ Goto(e, "reporting")

\* Mutant of TakeLock: contention is not looked at.
TakeLockAnyway(e) ==
  /\ pc[e] = "locking"
  /\ \/ UseLock(e) /\ Lock!Acquire(e) /\ Start(e)
     \/ UNCHANGED lockVars /\ Start(e)
  /\ UNCHANGED <<locks, clientVars, task>>

(***************************************************************************)
(* The graph is looked up and the lock acquired once: a token, a rejected  *)
(* result, an error, or an exception: of an acquire that fails or is       *)
(* cancelled, or of the merge of the config, which comes before the run is *)
(* started and gives a lock back at once.                                  *)
(***************************************************************************)
TakeLock(e) ==
  /\ pc[e] = "locking"
  /\ \/ UseLock(e) /\ Lock!Acquire(e) /\ Start(e)
     \/ UseLock(e) /\ Lock!Refuse(e) /\ Reject(e)
     \/ ~UseLock(e) /\ UNCHANGED lockVars /\ Start(e)
     \/ /\ \E a \in {"error", "raised"} : Answer(e, a)
        /\ Goto(e, "reporting")
        /\ UNCHANGED <<lockVars, events>>
  /\ UNCHANGED <<locks, clientVars, task>>

GuardAgrees(e) == ~UseLock(e) \/ Lock!Passes(e)

\* The graph returns, the guard agrees, and the output can be encoded.
GraphEnds(e) ==
  /\ pc[e] = "running" /\ GuardAgrees(e)
  /\ Tell(e, "completed") /\ Answer(e, "success") /\ Goto(e, "leaving")
  /\ UNCHANGED <<lockVars, locks, clientVars, task>>

\* Graph, guard or encoding raises: an error result; a cancellation is raised.
GraphFails(e) ==
  /\ pc[e] = "running"
  /\ \E a \in {"error", "raised"} : Answer(e, a)
  /\ Tell(e, "failed") /\ Goto(e, "leaving")
  /\ UNCHANGED <<lockVars, locks, clientVars, task>>

Free(e) == IF e \in holders THEN Lock!Release(e) ELSE UNCHANGED lockVars

\* Mutant of LeaveLock: it is kept when the run has been terminated.
LeaveLockUnlessTerminated(e) ==
  /\ pc[e] = "leaving"
  /\ IF runtime[task[e][1]] = "Terminated" THEN UNCHANGED lockVars ELSE Free(e)
  /\ Goto(e, "reporting")
  /\ UNCHANGED <<locks, clientVars, task, result, events>>

\* The end of async_thread_lock, which a cancellation cannot keep from freeing
\* the lock, but which raises it afterwards.
LeaveLock(e) ==
  /\ pc[e] = "leaving" /\ Free(e)
  /\ UNCHANGED result \/ (UseLock(e) /\ Answer(e, "raised"))
  /\ Goto(e, "reporting")
  /\ UNCHANGED <<locks, clientVars, task, events>>

\* execute_langgraph_run_impl.
ExecuteRun(e) == TakeLock(e) \/ GraphEnds(e) \/ GraphFails(e) \/ LeaveLock(e)

(***************************************************************************)
(* The framework takes the answer, or sees the delivery abandoned and will *)
(* repeat it (bound: while a delivery is left). run_orchestration returns  *)
(* the result, or fails with the activity's exception, unless it has been  *)
(* terminated or answered already.                                         *)
(***************************************************************************)
Report(e) ==
  /\ pc[e] = "reporting" /\ Goto(e, "done")
  /\ LET i == task[e][1] IN
       \/ /\ task[e] \in tasks /\ tasks' = tasks \ {task[e]}
          /\ IF runtime[i] # "Running" \/ starts[i] # task[e][2] THEN UNCHANGED <<runtime, output>>
             ELSE IF result[e] = "raised"
             THEN runtime' = [runtime EXCEPT ![i] = "Failed"] /\ UNCHANGED output
             ELSE /\ runtime' = [runtime EXCEPT ![i] = "Completed"]
                  /\ output' = [output EXCEPT ![i] = result[e]]
       \/ /\ task[e] \notin tasks \/ \E d \in Execs : pc[d] = "idle"
          /\ UNCHANGED <<runtime, output, tasks>>
  /\ UNCHANGED <<lockVars, locks, starts, cancelling, task, result, events>>

LockFails(e) ==
  /\ Lock!Lapse(e) \/ Lock!Report(e)
  /\ UNCHANGED <<locks, clientVars, activityVars>>

\* A host dies; its calls stay unanswered and are delivered again.
Crash(h) ==
  /\ h \in Dying
  /\ LET dead == {e \in Execs : HostOf[e] = h /\ pc[e] \notin {"idle", "done"}} IN
       /\ dead # {}
       /\ pc' = [e \in Execs |-> IF e \in dead THEN "done" ELSE pc[e]]
       /\ result' = [e \in Execs |-> IF e \in dead THEN "raised" ELSE result[e]]
       /\ holders' = holders \ dead /\ lapsed' = lapsed \ dead /\ reported' = reported \ dead
  /\ UNCHANGED <<locks, clientVars, task, events>>

Next ==
  \/ \E i \in Ids : CreateRun(i) \/ CancelRun(i) \/ Terminate(i) \/ Orchestrate(i)
  \/ \E e \in Execs : Dispatch(e) \/ ExecuteRun(e) \/ Report(e) \/ LockFails(e)
  \/ \E h \in Dying : Crash(h)

Spec == Init /\ [][Next]_vars

\* The framework goes on, and so do activities and the graphs in them.
Fairness ==
  /\ \A i \in Ids : WF_vars(Orchestrate(i)) /\ WF_vars(Terminate(i))
  /\ \A e \in Execs : WF_vars(Dispatch(e)) /\ WF_vars(ExecuteRun(e)) /\ WF_vars(Report(e))

FairSpec == Spec /\ Fairness

--------------------------------------------------------------------------------
(***************************************************************************)
(* Two activities execute the thread at once only across hosts and after a *)
(* lock lapsed: not when a delivery is repeated, and not when a run is     *)
(* cancelled and the next one created while its activity still works.      *)
(***************************************************************************)
Executing(e) == pc[e] = "running" /\ UseLock(e)

OneExecution ==
  \A d, e \in Execs : d # e /\ Executing(d) /\ Executing(e) =>
    HostOf[d] # HostOf[e] /\ (d \in lapsed \/ e \in lapsed)

(***************************************************************************)
(* A client is told "success" only of a run of which a delivery, of this   *)
(* start of the id, was told to have completed; "error" of one of which no *)
(* more than a failed, rejected or interrupted delivery is known.          *)
(***************************************************************************)
DeliveryOf(e, i) == task[e] = <<i, starts[i]>> /\ pc[e] = "done"

StatusTruthful ==
  \A i \in Ids :
    /\ GetRun(i) = "success" =>
         \E e \in Execs : DeliveryOf(e, i) /\ events[e] = <<"started", "completed">>
    /\ GetRun(i) = "error" =>
         \E e \in Execs : DeliveryOf(e, i) /\ result[e] \in {"error", "rejected", "raised"}

\* An activity that is over holds no lock: also when its run was terminated
\* meanwhile, or the activity cancelled.
NoLockKept == \A e \in Execs : pc[e] = "reporting" => e \notin holders

\* What an activity answers agrees with what the observer was told.
ActivityTruthful ==
  \A e \in Execs : pc[e] = "reporting" =>
    CASE result[e] = "success" -> events[e] = <<"started", "completed">>
      [] result[e] = "error" -> events[e] \in {<<"started", "failed">>, <<>>}
      [] result[e] = "rejected" -> events[e] = <<"rejected">>
      [] OTHER -> events[e] \in {<<"started", "failed">>, <<"started", "completed">>, <<>>}

(***************************************************************************)
(* A delivery whose lock is known to be lost while its graph runs is never *)
(* told to have completed, and what it reports makes no run a success: it  *)
(* may be reported after the run was cancelled and its id started again.   *)
(***************************************************************************)
Doomed(e) ==
  \/ e \in reported /\ pc[e] = "running"
  \/ result[e] \in {"error", "raised", "rejected"}

Reports(e, out) ==
  /\ pc[e] = "reporting" /\ pc'[e] = "done"
  /\ output' = [output EXCEPT ![task[e][1]] = out] /\ output' # output

LostIsNotSuccess ==
  [][\A e \in Execs : Doomed(e) =>
       Doomed(e)' /\ ~Tell(e, "completed") /\ ~Reports(e, "success")]_vars

(***************************************************************************)
(* Every created run gets a final status, cancelled or not, unless the     *)
(* bound on deliveries is reached.                                         *)
(***************************************************************************)
Exhausted == \A e \in Execs : pc[e] = "done"

RunsEnd == \A i \in Ids : InFlight(i) ~> ~InFlight(i) \/ Exhausted

--------------------------------------------------------------------------------
(***************************************************************************)
(* The inductive invariant: a delivery of a locked run holds the lock from *)
(* its acquire to its release.                                             *)
(***************************************************************************)
InScope(e) == pc[e] \in {"running", "leaving"}

HoldsInScope(e) == e \in holders <=> InScope(e) /\ UseLock(e)

\* Two holders are in two processes, and the lock of one has lapsed.
HoldersApart ==
  \A d, e \in holders : d # e => HostOf[d] # HostOf[e] /\ (d \in lapsed \/ e \in lapsed)

\* What an answer says of what the observer was told. A cancellation may cut
\* off a delivery that completed, and a crash one that was at work.
Answered(e) ==
  /\ result[e] = "success" => events[e] = <<"started", "completed">>
  /\ result[e] = "error" => events[e] \in {<<"started", "failed">>, <<>>}
  /\ result[e] = "rejected" => events[e] = <<"rejected">>

ResultFits(e) ==
  /\ pc[e] \in {"idle", "locking"} => events[e] = <<>> /\ result[e] = "none"
  /\ pc[e] = "running" => events[e] = <<"started">> /\ result[e] = "none"
  /\ pc[e] = "leaving" =>
       \/ result[e] = "success" /\ events[e] = <<"started", "completed">>
       \/ result[e] \in {"error", "raised"} /\ events[e] = <<"started", "failed">>
  /\ pc[e] \in {"reporting", "done"} => result[e] # "none" /\ Answered(e)
  /\ pc[e] = "reporting" /\ result[e] = "raised" =>
       events[e] \in {<<"started", "failed">>, <<"started", "completed">>, <<>>}

\* A delivery is of a call that was made.
TaskFits(e) == pc[e] # "idle" => task[e] \in Tasks

Fits(e) == HoldsInScope(e) /\ ResultFits(e) /\ TaskFits(e)

\* A run that a client can see was started.
WasStarted(i) == runtime[i] # "none" => starts[i] > 0

\* A run that is over, of this start of its id, was answered by a delivery.
OverBy(i, r) == \E e \in Execs : DeliveryOf(e, i) /\ result[e] = r

AnsweredBy(i) ==
  /\ runtime[i] = "Completed" => output[i] # "none" /\ OverBy(i, output[i])
  /\ runtime[i] = "Failed" => OverBy(i, "raised")

Inv ==
  /\ TypeOK /\ HoldersApart
  /\ \A e \in Execs : Fits(e)
  /\ \A i \in Ids : WasStarted(i) /\ AnsweredBy(i)
================================================================================
