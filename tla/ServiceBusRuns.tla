----------------------------- MODULE ServiceBusRuns -----------------------------
(***************************************************************************)
(* The Service Bus trigger (triggers/service_bus.py): a message is handed  *)
(* to the graph under the thread's lock (RunLock), and a handler that      *)
(* raises leaves it to the broker to deliver the message again.            *)
(*                                                                         *)
(* The broker and the binding are external: peek-lock, delivery count,     *)
(* abandon on an exception, completion on a return, dead-lettering, and a  *)
(* message lock that may be lost while the handler is at work. All the     *)
(* messages belong to one thread of one checkpointed graph.                *)
(***************************************************************************)
EXTENDS Integers, Sequences, FiniteSets, SequencesExt

CONSTANTS Messages,      \* numbers, in the order they were sent
          MaxDeliveries, \* maxDeliveryCount
          HostOf,        \* HostOf[d]: the host a delivery goes to
          Dying          \* bound: the hosts that may crash

MessagesAndDeliveries == Messages \subseteq Nat /\ MaxDeliveries \in Nat \ {0}

Deliveries == Messages \X (1..MaxDeliveries)

VARIABLES
  holders, lapsed, reported, \* the thread lock (RunLock)
  reg,     \* the registration: async_mode, session, session_exclusive
  bad,     \* messages a mapper or the session check rejects
  queue,   \* queue[m]: where the broker has the message
  count,   \* count[m]: its delivery count
  pc,      \* pc[d]: where the handler of a delivery is
  outcome, \* outcome[d]: how the handler ends
  events   \* events[d]: what the observer was told

lockVars == <<holders, lapsed, reported>>
inputVars == <<reg, bad>>
brokerVars == <<queue, count>>
vars == <<lockVars, inputVars, brokerVars, pc, outcome, events>>

Lock == INSTANCE RunLock WITH Runs <- Deliveries, HostOfRun <- HostOf

TypeOK ==
  /\ holders \subseteq Deliveries /\ lapsed \subseteq holders /\ reported \subseteq holders
  /\ reg \in [async : BOOLEAN, session : BOOLEAN, exclusive : BOOLEAN]
  /\ bad \subseteq Messages
  /\ queue \in [Messages -> {"waiting", "locked", "settled", "dead"}]
  /\ count \in [Messages -> 0..MaxDeliveries]
  /\ pc \in [Deliveries -> {"none", "mapping", "locking", "running", "leaving", "handling",
                            "settling", "done"}]
  /\ outcome \in [Deliveries -> {"none", "ok", "failed", "contended"}]
  /\ events \in [Deliveries -> Seq({"started", "completed", "failed"})]

\* require_session_exclusive_topology: exclusive only with sessions, and then
\* nothing else in the app writes the thread.
Registrations ==
  {g \in [async : BOOLEAN, session : BOOLEAN, exclusive : BOOLEAN] : g.exclusive => g.session}

Init ==
  /\ Lock!Init
  /\ reg \in Registrations
  /\ bad \in SUBSET Messages
  /\ queue = [m \in Messages |-> "waiting"]
  /\ count = [m \in Messages |-> 0]
  /\ pc = [d \in Deliveries |-> "none"]
  /\ outcome = [d \in Deliveries |-> "none"]
  /\ events = [d \in Deliveries |-> <<>>]

Goto(d, p) == pc' = [pc EXCEPT ![d] = p]

End(d, o) == outcome' = [outcome EXCEPT ![d] = o]

Tell(d, e) == events' = [events EXCEPT ![d] = Append(@, e)]

\* The delivery whose message lock the broker still honours.
Current(d) == queue[d[1]] = "locked" /\ count[d[1]] = d[2]

--------------------------------------------------------------------------------
(***************************************************************************)
(* The broker hands out a message. With sessions: one at a time, in the    *)
(* order of sending.                                                       *)
(***************************************************************************)
Deliver(m) ==
  /\ queue[m] = "waiting"
  /\ reg.session => \A n \in Messages :
       /\ n # m => queue[n] # "locked"
       /\ n < m => queue[n] \in {"settled", "dead"}
  /\ queue' = [queue EXCEPT ![m] = "locked"]
  /\ count' = [count EXCEPT ![m] = @ + 1]
  /\ Goto(<<m, count[m] + 1>>, "mapping")
  /\ UNCHANGED <<lockVars, inputVars, outcome, events>>

\* Back to the queue, or to the dead letters after the last delivery.
Returned(m) ==
  queue' = [queue EXCEPT ![m] = IF count[m] = MaxDeliveries THEN "dead" ELSE "waiting"]

\* The lock of a message or session runs out while its handler is at work.
MessageLockLost(m) ==
  /\ queue[m] = "locked" /\ Returned(m)
  /\ UNCHANGED <<lockVars, inputVars, count, pc, outcome, events>>

(***************************************************************************)
(* The input mapper and _message_thread_id: in session mode the thread is  *)
(* the message's session, which must be there and agree with the factory.  *)
(***************************************************************************)
MapMessage(d) ==
  /\ pc[d] = "mapping"
  /\ IF d[1] \in bad THEN End(d, "failed") /\ Goto(d, "settling")
     ELSE Goto(d, "locking") /\ UNCHANGED outcome
  /\ UNCHANGED <<lockVars, inputVars, brokerVars, events>>

UseLock == ~reg.exclusive

Start(d) ==
  /\ Tell(d, "started") /\ Goto(d, "running")
  /\ UNCHANGED <<inputVars, brokerVars, outcome>>

Raise(d, o) ==
  /\ End(d, o) /\ Goto(d, "settling")
  /\ UNCHANGED <<inputVars, brokerVars, events>>

\* Mutant of TakeLock: a contended message is taken for done.
TakeLockOrSkip(d) ==
  /\ pc[d] = "locking"
  /\ \/ UseLock /\ Lock!Acquire(d) /\ Start(d)
     \/ UseLock /\ Lock!Refuse(d) /\ Raise(d, "ok")
     \/ ~UseLock /\ UNCHANGED lockVars /\ Start(d)

(***************************************************************************)
(* acquire with lock_timeout: a token, ThreadContentionError when the wait *)
(* is over, an error of the backend, or the host's cancellation of an      *)
(* async handler (which leaves no token, AsyncThreadLock).                 *)
(***************************************************************************)
TakeLock(d) ==
  /\ pc[d] = "locking"
  /\ \/ UseLock /\ Lock!Acquire(d) /\ Start(d)
     \/ UseLock /\ Lock!Refuse(d) /\ Raise(d, "contended")
     \/ UseLock /\ UNCHANGED lockVars /\ Raise(d, "failed")
     \/ ~UseLock /\ UNCHANGED lockVars /\ Start(d)

GuardAgrees(d) == ~UseLock \/ Lock!Passes(d)

\* The graph returns and the guard agrees: on_run_completed.
GraphEnds(d) ==
  /\ pc[d] = "running" /\ GuardAgrees(d)
  /\ End(d, "ok") /\ Tell(d, "completed") /\ Goto(d, "leaving")
  /\ UNCHANGED <<lockVars, inputVars, brokerVars>>

\* `except BaseException`: the graph or the guard raises, or it is cancelled.
GraphFails(d) ==
  /\ pc[d] = "running"
  /\ End(d, "failed") /\ Tell(d, "failed") /\ Goto(d, "leaving")
  /\ UNCHANGED <<lockVars, inputVars, brokerVars>>

Free(d) == IF d \in holders THEN Lock!Release(d) ELSE UNCHANGED lockVars

(***************************************************************************)
(* The finally, or the end of async_thread_lock: the token is released     *)
(* before the result is handled. A cancellation that comes during the      *)
(* release of an async handler is raised after it.                         *)
(***************************************************************************)
LeaveLock(d) ==
  /\ pc[d] = "leaving" /\ Free(d)
  /\ \/ /\ Goto(d, IF outcome[d] = "ok" THEN "handling" ELSE "settling")
        /\ UNCHANGED outcome
     \/ /\ reg.async /\ UseLock
        /\ End(d, "failed") /\ Goto(d, "settling")
  /\ UNCHANGED <<inputVars, brokerVars, events>>

\* Mutant of HandleResult: a failing handler is reported as a failed run.
HandleResultObserved(d) ==
  /\ pc[d] = "handling"
  /\ \/ UNCHANGED <<outcome, events>>
     \/ End(d, "failed") /\ Tell(d, "failed")
  /\ Goto(d, "settling")
  /\ UNCHANGED <<lockVars, inputVars, brokerVars>>

\* The result handler, outside the observed block; it may raise.
HandleResult(d) ==
  /\ pc[d] = "handling"
  /\ UNCHANGED outcome \/ End(d, "failed")
  /\ Goto(d, "settling")
  /\ UNCHANGED <<lockVars, inputVars, brokerVars, events>>

(***************************************************************************)
(* The handler is back in the binding: complete or abandon the message. A  *)
(* delivery whose lock was lost settles nothing.                           *)
(***************************************************************************)
Settle(d) ==
  /\ pc[d] = "settling"
  /\ IF ~Current(d) THEN UNCHANGED queue
     ELSE IF outcome[d] = "ok" THEN queue' = [queue EXCEPT ![d[1]] = "settled"]
     ELSE Returned(d[1])
  /\ Goto(d, "done")
  /\ UNCHANGED <<lockVars, inputVars, count, outcome, events>>

ProcessMessage(d) == ~reg.async /\
  (MapMessage(d) \/ TakeLock(d) \/ GraphEnds(d) \/ GraphFails(d) \/ LeaveLock(d) \/ HandleResult(d))

ProcessMessageAsync(d) == reg.async /\
  (MapMessage(d) \/ TakeLock(d) \/ GraphEnds(d) \/ GraphFails(d) \/ LeaveLock(d) \/ HandleResult(d))

LockFails(d) ==
  /\ UseLock /\ (Lock!Lapse(d) \/ Lock!Report(d))
  /\ UNCHANGED <<inputVars, brokerVars, pc, outcome, events>>

\* A host dies with its handlers; the broker notices by MessageLockLost.
Crash(h) ==
  /\ h \in Dying
  /\ LET dead == {d \in Deliveries : HostOf[d] = h /\ pc[d] \notin {"none", "done"}} IN
       /\ dead # {}
       /\ pc' = [d \in Deliveries |-> IF d \in dead THEN "done" ELSE pc[d]]
       /\ outcome' = [d \in Deliveries |-> IF d \in dead THEN "failed" ELSE outcome[d]]
       /\ holders' = holders \ dead /\ lapsed' = lapsed \ dead /\ reported' = reported \ dead
  /\ UNCHANGED <<inputVars, brokerVars, events>>

Next ==
  \/ \E m \in Messages : Deliver(m) \/ MessageLockLost(m)
  \/ \E d \in Deliveries :
       ProcessMessage(d) \/ ProcessMessageAsync(d) \/ Settle(d) \/ LockFails(d)
  \/ \E h \in Dying : Crash(h)

Spec == Init /\ [][Next]_vars

\* Handlers and graphs end, and the broker delivers what is waiting and gives
\* up the lock of a message whose handler is gone.
Forsaken(m) == queue[m] = "locked" /\ pc[<<m, count[m]>>] = "done" /\ MessageLockLost(m)

Fairness ==
  /\ \A m \in Messages : WF_vars(Deliver(m)) /\ WF_vars(Forsaken(m))
  /\ \A d \in Deliveries :
       WF_vars(ProcessMessage(d)) /\ WF_vars(ProcessMessageAsync(d)) /\ WF_vars(Settle(d))

FairSpec == Spec /\ Fairness

--------------------------------------------------------------------------------
(***************************************************************************)
(* Two executions of the thread overlap only where the docs say they may:  *)
(* across hosts after a lock lapsed, and with session_exclusive only after *)
(* the broker has lost the message or session lock of one of them.         *)
(***************************************************************************)
Executing(d) == pc[d] = "running"

OneExecution ==
  \A c, d \in Deliveries : c # d /\ Executing(c) /\ Executing(d) =>
    IF UseLock THEN HostOf[c] # HostOf[d] /\ (c \in lapsed \/ d \in lapsed)
    ELSE ~Current(c) \/ ~Current(d)

(***************************************************************************)
(* At least once: a message leaves the queue as settled only after a       *)
(* delivery whose run completed and whose handler accepted the result; a   *)
(* contended or failed delivery never settles it.                          *)
(***************************************************************************)
SettledRan ==
  \A m \in Messages : queue[m] = "settled" =>
    \E n \in 1..MaxDeliveries :
      outcome[<<m, n>>] = "ok" /\ events[<<m, n>>] = <<"started", "completed">>

(***************************************************************************)
(* The result handler and the settlement run without the thread's lock, on *)
(* every way out of the run.                                               *)
(***************************************************************************)
NoLockKept == \A d \in holders : pc[d] \in {"running", "leaving"}

(***************************************************************************)
(* The observer hears of one terminal event for each run that started and  *)
(* was not lost with its host; a contended delivery and a failing result   *)
(* handler add nothing.                                                    *)
(***************************************************************************)
ExactlyOneTerminal ==
  \A d \in Deliveries :
    /\ pc[d] = "settling" =>
         events[d] \in {<<>>, <<"started", "completed">>, <<"started", "failed">>}
    /\ outcome[d] = "contended" => events[d] = <<>>
    /\ pc[d] = "done" =>
         \/ events[d] \in {<<>>, <<"started", "completed">>, <<"started", "failed">>}
         \/ events[d] = <<"started">> /\ HostOf[d] \in Dying

(***************************************************************************)
(* A delivery whose lock is known to be lost while its graph runs never    *)
(* completes, never hands a result on and never settles its message, which *)
(* the broker delivers again.                                              *)
(***************************************************************************)
Doomed(d) ==
  \/ d \in reported /\ pc[d] = "running"
  \/ outcome[d] \in {"failed", "contended"}

Settles(d) ==
  /\ pc[d] = "settling" /\ pc'[d] = "done"
  /\ queue[d[1]] # "settled" /\ queue'[d[1]] = "settled"

LostIsNotHandled ==
  [][\A d \in Deliveries : Doomed(d) =>
       Doomed(d)' /\ ~Tell(d, "completed") /\ pc'[d] # "handling" /\ ~Settles(d)]_vars

(***************************************************************************)
(* Every message is settled or dead-lettered at last.                      *)
(***************************************************************************)
EveryMessageLeaves == \A m \in Messages : <>(queue[m] \in {"settled", "dead"})

--------------------------------------------------------------------------------
(***************************************************************************)
(* The inductive invariant: a delivery holds the lock, if there is one,    *)
(* from its acquire to its release.                                        *)
(***************************************************************************)
InScope(d) == pc[d] \in {"running", "leaving"}

HoldsInScope(d) == d \in holders <=> UseLock /\ InScope(d)

\* Two holders are in two processes, and the lock of one has lapsed.
HoldersApart ==
  \A c, d \in holders : c # d => HostOf[c] # HostOf[d] /\ (c \in lapsed \/ d \in lapsed)

\* What the observer was told agrees with the outcome, which a result handler
\* or the end of the host may make a failure afterwards.
Completed(d) == events[d] = <<"started", "completed">>
Failed(d) == events[d] = <<"started", "failed">>

OutcomeFits(d) ==
  /\ pc[d] \in {"none", "mapping", "locking"} => events[d] = <<>> /\ outcome[d] = "none"
  /\ pc[d] = "running" => events[d] = <<"started">> /\ outcome[d] = "none"
  /\ pc[d] = "leaving" =>
       \/ outcome[d] = "ok" /\ Completed(d)
       \/ outcome[d] = "failed" /\ Failed(d)
  /\ pc[d] = "handling" => outcome[d] = "ok" /\ Completed(d)
  /\ pc[d] \in {"settling", "done"} =>
       \/ outcome[d] = "ok" /\ Completed(d)
       \/ outcome[d] = "contended" /\ events[d] = <<>>
       \/ /\ outcome[d] = "failed"
          /\ events[d] = <<>> \/ Completed(d) \/ Failed(d)
             \/ (pc[d] = "done" /\ events[d] = <<"started">> /\ HostOf[d] \in Dying)

Fits(d) == HoldsInScope(d) /\ OutcomeFits(d)

\* The deliveries there were are those the broker has counted.
Counted ==
  /\ \A d \in Deliveries : pc[d] = "none" <=> d[2] > count[d[1]]
  /\ \A m \in Messages : queue[m] = "waiting" => count[m] < MaxDeliveries

\* A session is handed out one message at a time.
OneOfSession ==
  /\ reg.exclusive => reg.session
  /\ reg.session => \A m, n \in Messages : queue[m] = "locked" /\ queue[n] = "locked" => m = n

\* A message is settled by a delivery that is over and was handled.
Settled ==
  \A m \in Messages : queue[m] = "settled" =>
    \E n \in 1..MaxDeliveries : pc[<<m, n>>] = "done" /\ outcome[<<m, n>>] = "ok"

Inv ==
  /\ TypeOK /\ HoldersApart /\ Counted /\ OneOfSession /\ Settled
  /\ \A d \in Deliveries : Fits(d)
================================================================================
