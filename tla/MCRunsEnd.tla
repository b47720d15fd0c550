------------------------------- MODULE MCRunsEnd -------------------------------
(***************************************************************************)
(* Liveness of the runs whose end depends on others than their handler: a  *)
(* stream on its client and its worker threads, a message on the broker, a *)
(* durable run on the framework. The first state of a behaviour decides    *)
(* which; the variables of the others stay at their initial values.        *)
(***************************************************************************)
EXTENDS StreamingRuns, TLC

CONSTANTS r1, r2, h1, h2, Dying,
          Messages, MaxDeliveries,      \* of ServiceBusRuns
          Ids, Execs, MaxStarts, NoTask \* of DurableRuns

OneHost == (r1 :> h1) @@ (r2 :> h1)

\* Hosts take turns, at a message and at the deliveries of an activity.
HostOfDelivery ==
  [d \in Messages \X (1..MaxDeliveries) |-> IF (d[1] + d[2]) % 2 = 0 THEN h1 ELSE h2]

HostOfExec == [e \in Execs |-> IF e % 2 = 1 THEN h1 ELSE h2]

VARIABLES component,
          bHolders, bLapsed, bReported, bReg, bBad, bQueue, bCount, bPc, bOutcome, bEvents,
          dHolders, dLapsed, dReported, dLocks, dRuntime, dOutput, dStarts, dCancelling,
          dTasks, dTask, dPc, dResult, dEvents

bVars == <<bHolders, bLapsed, bReported, bReg, bBad, bQueue, bCount, bPc, bOutcome, bEvents>>
dVars == <<dHolders, dLapsed, dReported, dLocks, dRuntime, dOutput, dStarts, dCancelling,
           dTasks, dTask, dPc, dResult, dEvents>>

B == INSTANCE ServiceBusRuns
       WITH HostOf <- HostOfDelivery, holders <- bHolders, lapsed <- bLapsed,
            reported <- bReported, reg <- bReg, bad <- bBad, queue <- bQueue,
            count <- bCount, pc <- bPc, outcome <- bOutcome, events <- bEvents

D == INSTANCE DurableRuns
       WITH HostOf <- HostOfExec, holders <- dHolders, lapsed <- dLapsed,
            reported <- dReported, locks <- dLocks, runtime <- dRuntime,
            output <- dOutput, starts <- dStarts, cancelling <- dCancelling,
            tasks <- dTasks, task <- dTask, pc <- dPc, result <- dResult,
            events <- dEvents

ASSUME B!MessagesAndDeliveries
ASSUME D!StartsPositive

--------------------------------------------------------------------------------
\* A run without a lock keeps nobody waiting: all of these have one.
EndInit ==
  /\ component \in {"streaming", "service bus", "durable"}
  /\ Init /\ B!Init /\ D!Init
  /\ locks = [r \in Requests |-> TRUE]
  /\ component = "streaming" \/
       /\ endpoint = [r \in Requests |-> "invoke"]
       /\ isSync = [r \in Requests |-> FALSE]
  /\ component = "service bus" \/
       /\ bBad = {} /\ bReg = [async |-> FALSE, session |-> FALSE, exclusive |-> FALSE]
  /\ IF component = "durable" THEN dLocks = Ids ELSE dLocks = {}

EndNext ==
  /\ UNCHANGED component
  /\ \/ component = "streaming" /\ Next /\ UNCHANGED <<bVars, dVars>>
     \/ component = "service bus" /\ B!Next /\ UNCHANGED <<vars, dVars>>
     \/ component = "durable" /\ D!Next /\ UNCHANGED <<vars, bVars>>

\* A request or a message at rest could go on: fairness needs the component.
EndFairness ==
  /\ \A r \in Requests :
       /\ WF_vars(component = "streaming" /\ HandleInvoke(r))
       /\ WF_vars(component = "streaming" /\ HandleStream(r))
       /\ WF_vars(Generate(r)) /\ WF_vars(WorkerEnds(r))
  /\ \A m \in Messages :
       WF_bVars(component = "service bus" /\ B!Deliver(m)) /\ WF_bVars(B!Forsaken(m))
  /\ \A d \in B!Deliveries :
       /\ WF_bVars(B!ProcessMessage(d)) /\ WF_bVars(B!ProcessMessageAsync(d))
       /\ WF_bVars(B!Settle(d))
  /\ \A i \in Ids : WF_dVars(D!Orchestrate(i)) /\ WF_dVars(D!Terminate(i))
  /\ \A e \in Execs :
       WF_dVars(D!Dispatch(e)) /\ WF_dVars(D!ExecuteRun(e)) /\ WF_dVars(D!Report(e))

EndSpec ==
  EndInit /\ [][EndNext]_<<component, vars, bVars, dVars>> /\ EndFairness

(***************************************************************************)
(* See the modules: a stream that owns a thread gives it back, the broker  *)
(* is done with every message, and a created durable run gets a final      *)
(* status.                                                                 *)
(***************************************************************************)
EveryRunEnds ==
  RunsEnd /\ (component = "service bus" => B!EveryMessageLeaves) /\ D!RunsEnd
===============================================================================
