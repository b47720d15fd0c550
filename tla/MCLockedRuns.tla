----------------------------- MODULE MCLockedRuns -----------------------------
(***************************************************************************)
(* Model checking of the four ways to run a graph under a thread lock: the *)
(* streaming endpoints, the native ones, the messages of a Service Bus     *)
(* queue, and the activities of durable runs. The first state of a         *)
(* behaviour decides which runs; the variables of the others stay at their *)
(* initial values.                                                         *)
(***************************************************************************)
EXTENDS StreamingRuns, TLC

CONSTANTS r1, r2, h1, h2,
          HostOfDelivery, HostOfExec,               \* the hosts of deliveries, as HostOf
          Kinds, MaxBytes, Sizes, ErrorSize, Dying, \* of NativeRuns
          Messages, MaxDeliveries,                  \* of ServiceBusRuns
          Ids, Execs, MaxStarts, NoTask             \* of DurableRuns

TwoHosts == (r1 :> h1) @@ (r2 :> h2)

\* Hosts take turns at the deliveries of a message, so that two messages meet in
\* one host as well as in two, and at the deliveries of an activity.
DeliveriesInTurn ==
  [d \in Messages \X (1..MaxDeliveries) |-> IF (d[1] + d[2]) % 2 = 0 THEN h1 ELSE h2]

ExecsInTurn == [e \in Execs |-> IF e % 2 = 1 THEN h1 ELSE h2]

VARIABLES component,
          nHolders, nLapsed, nReported, nKind, nLocks, nPc, nFrames, nBuffered, nExit,
          nEvents, nResponse,
          bHolders, bLapsed, bReported, bReg, bBad, bQueue, bCount, bPc, bOutcome, bEvents,
          dHolders, dLapsed, dReported, dLocks, dRuntime, dOutput, dStarts, dCancelling,
          dTasks, dTask, dPc, dResult, dEvents

nVars == <<nHolders, nLapsed, nReported, nKind, nLocks, nPc, nFrames, nBuffered, nExit,
           nEvents, nResponse>>
bVars == <<bHolders, bLapsed, bReported, bReg, bBad, bQueue, bCount, bPc, bOutcome, bEvents>>
dVars == <<dHolders, dLapsed, dReported, dLocks, dRuntime, dOutput, dStarts, dCancelling,
           dTasks, dTask, dPc, dResult, dEvents>>

N == INSTANCE NativeRuns
       WITH holders <- nHolders, lapsed <- nLapsed, reported <- nReported,
            kind <- nKind, locks <- nLocks, pc <- nPc, frames <- nFrames,
            buffered <- nBuffered, exit <- nExit, events <- nEvents,
            response <- nResponse

B == INSTANCE ServiceBusRuns
       WITH HostOf <- HostOfDelivery, holders <- bHolders, lapsed <- bLapsed,
            reported <- bReported, reg <- bReg, bad <- bBad, queue <- bQueue,
            count <- bCount, pc <- bPc, outcome <- bOutcome, events <- bEvents

D == INSTANCE DurableRuns
       WITH HostOf <- HostOfExec, holders <- dHolders, lapsed <- dLapsed,
            reported <- dReported, locks <- dLocks, runtime <- dRuntime,
            output <- dOutput, starts <- dStarts, cancelling <- dCancelling,
            tasks <- dTasks, task <- dTask, pc <- dPc, result <- dResult,
            events <- dEvents

ASSUME NativeLimits == N!SizesPositive /\ N!LimitNat
ASSUME BusLimits == B!MessagesAndDeliveries
ASSUME DurableLimits == D!StartsPositive

--------------------------------------------------------------------------------
Registration(async, session) ==
  bReg = [async |-> async, session |-> session, exclusive |-> session]

(***************************************************************************)
(* Three registrations: async handlers, which do all that sync ones do and *)
(* may be cancelled besides, without sessions, where the broker does all   *)
(* that it does with them; the session-exclusive one, without a lock; and  *)
(* sync handlers with a message that no mapper accepts.                    *)
(***************************************************************************)
Registrations ==
  \/ bBad = {} /\ (Registration(TRUE, FALSE) \/ Registration(TRUE, TRUE))
  \/ bBad = {1} /\ Registration(FALSE, FALSE)

\* Every component that does not run has one initial state.
StreamingRests ==
  /\ endpoint = [r \in Requests |-> "invoke"]
  /\ isSync = [r \in Requests |-> FALSE] /\ locks = [r \in Requests |-> FALSE]

NativeRests ==
  nKind = [r \in Requests |-> "invoke"] /\ nLocks = [r \in Requests |-> FALSE]

ServiceBusRests == bBad = {} /\ Registration(FALSE, FALSE)

DurableRests == dLocks = {}

LockedInit ==
  /\ component \in {"streaming", "native", "service bus", "durable"}
  /\ Init /\ N!Init /\ B!Init /\ D!Init
  /\ component = "streaming" \/ StreamingRests
  /\ component = "native" \/ NativeRests
  /\ IF component = "service bus" THEN Registrations ELSE ServiceBusRests
  /\ component = "durable" \/ DurableRests

LockedNext ==
  /\ UNCHANGED component
  /\ \/ component = "streaming" /\ Next /\ UNCHANGED <<nVars, bVars, dVars>>
     \/ component = "native" /\ N!Next /\ UNCHANGED <<vars, bVars, dVars>>
     \/ component = "service bus" /\ B!Next /\ UNCHANGED <<vars, nVars, dVars>>
     \/ component = "durable" /\ D!Next /\ UNCHANGED <<vars, nVars, bVars>>

LockedSpec == LockedInit /\ [][LockedNext]_<<component, vars, nVars, bVars, dVars>>

--------------------------------------------------------------------------------
(***************************************************************************)
(* Executions of a thread exclude each other, unless a lock lapsed: two    *)
(* requests of one endpoint, in two hosts or in one, two deliveries of a   *)
(* message's thread, two deliveries of an activity.                        *)
(***************************************************************************)
ExecutionsExclude ==
  OneExecution /\ N!OneExecution /\ B!OneExecution /\ D!OneExecution

\* Whichever way a handler, a delivery or an activity ends, it holds no lock then.
LocksGivenBack ==
  NoLockKept /\ N!NoLockKept /\ B!NoLockKept /\ D!NoLockKept

(***************************************************************************)
(* A run that was started and is over had exactly one terminal event. The  *)
(* exceptions, which had none, are named: a run whose host died, and a     *)
(* native async run that was cancelled or whose generator cleanup raised   *)
(* (_handlers.py:621), which the code ends without telling the observer.   *)
(***************************************************************************)
OneTerminalEvent ==
  ExactlyOneTerminal /\ N!ExactlyOneTerminal /\ B!ExactlyOneTerminal

(***************************************************************************)
(* What a client is told, by a status, by frames or by the output of a     *)
(* durable run, is what the observer was told, and how the run ended.      *)
(***************************************************************************)
ToldAlike ==
  StreamAgrees /\ N!AnswersAgree /\ D!ActivityTruthful /\ D!StatusTruthful

\* See ServiceBusRuns: a message that is settled had a completed run.
SettledRan == B!SettledRan

(***************************************************************************)
(* A run, a delivery or an activity whose lock is known to be lost while   *)
(* its graph is at work is from then on never told to have completed, and  *)
(* its result is not handled, settled or reported as a success, although   *)
(* the release of the lock forgets the loss.                               *)
(***************************************************************************)
LossIsNoSuccess ==
  LostIsNotCompleted /\ N!LostIsNotCompleted /\ B!LostIsNotHandled /\ D!LostIsNotSuccess
===============================================================================
