-------------------------- MODULE BlobLeaseThreadLock --------------------------
(***************************************************************************)
(* AzureBlobLeaseThreadLock (locks/azure_blob.py): one lock instance per   *)
(* host, leases of one marker blob, a renewal worker per host, and the     *)
(* ownership guard that reads the local bookkeeping.                       *)
(*                                                                         *)
(* One key: keys share nothing but `_closed` and the renewal round. A      *)
(* lease id, its _LeaseState and its owner token are made together and are *)
(* one identity here; an id nobody remembers may be drawn again.           *)
(*                                                                         *)
(* Time is counted in renewal intervals. With Timely every round starts    *)
(* when it is due; without it a host may stall for any time.               *)
(***************************************************************************)
EXTENDS Integers, FiniteSets

CONSTANTS Hosts,        \* lock instances, one in each worker process
          Callers,      \* executions that acquire and release
          HostOf,       \* the host a caller runs in
          Leases,       \* lease ids
          None,
          Duration,     \* lease_duration, in renewal intervals
          Period,       \* length of the worker's wait, in renewal intervals
          MaxFailures,  \* _MAX_CONSECUTIVE_RENEWAL_FAILURES
          Timely,       \* no host is stalled
          Closing,      \* bound: the hosts whose lock is closed at some time
          Dying,        \* bound: the hosts that may crash
          MayHang       \* a renewal call may outlast its client-side timeout

ASSUME CallersHosted == HostOf \in [Callers -> Hosts]
ASSUME NoneIsNone == None \notin Leases
ASSUME DurationPositive == Duration \in Nat \ {0}
ASSUME FailuresPositive == MaxFailures \in Nat \ {0}
ASSUME PeriodNat == Period \in Nat

VARIABLES
  lease,     \* the service: id of the blob's lease, or None
  age,       \* intervals since it was acquired or renewed; expired at Duration
  lapsed,    \* history: known leases that have expired at some time
  active,    \* active[h]: _active_leases of host h, or None
  lost,      \* lost[h], fails[h]: `lost` and `consecutive_failures` of the
  fails,     \* _LeaseState tracked in active[h]
  closed,    \* closed[h]: _closed
  leftover,  \* leftover[h]: what close() has taken out and not released yet
  cleared,   \* cleared[h]: close() has emptied the table
  worker,    \* worker[h]: the renewal thread
  target,    \* target[h]: the lease its round renews
  reply,     \* reply[h]: what has come back of that call
  timer,     \* timer[h]: intervals spent in the present wait
  orphans,   \* abandoned renew calls of the blob's lease that may still land
  pc,        \* where each caller is
  mine       \* mine[c]: the lease caller c took last

lockVars == <<active, lost, fails, closed, leftover, cleared>>
workerVars == <<worker, target, reply, timer>>
serviceVars == <<lease, age, lapsed, orphans>>
callerVars == <<pc, mine>>
vars == <<serviceVars, lockVars, workerVars, callerVars>>

Points == {"idle", "calling", "granted", "holding", "releasing"}

TypeOK ==
  /\ lease \in Leases \cup {None}
  /\ age \in 0..Duration
  /\ lapsed \subseteq Leases
  /\ active \in [Hosts -> Leases \cup {None}]
  /\ lost \in [Hosts -> BOOLEAN]
  /\ fails \in [Hosts -> 0..MaxFailures]
  /\ closed \in [Hosts -> BOOLEAN]
  /\ leftover \in [Hosts -> Leases \cup {None}]
  /\ cleared \in [Hosts -> BOOLEAN]
  /\ worker \in [Hosts -> {"waiting", "renewing", "stopped"}]
  /\ target \in [Hosts -> Leases \cup {None}]
  /\ reply \in [Hosts -> {"pending", "renewed", "transient", "gone"}]
  /\ timer \in [Hosts -> 0..Period]
  /\ orphans \subseteq Leases
  /\ pc \in [Callers -> Points]
  /\ mine \in [Callers -> Leases \cup {None}]

Init ==
  /\ lease = None /\ age = Duration /\ lapsed = {}
  /\ active = [h \in Hosts |-> None]
  /\ lost = [h \in Hosts |-> FALSE]
  /\ fails = [h \in Hosts |-> 0]
  /\ closed = [h \in Hosts |-> FALSE]
  /\ leftover = [h \in Hosts |-> None]
  /\ cleared = [h \in Hosts |-> FALSE]
  /\ worker = [h \in Hosts |-> "waiting"]
  /\ target = [h \in Hosts |-> None]
  /\ reply = [h \in Hosts |-> "pending"]
  /\ timer = [h \in Hosts |-> 0]
  /\ orphans = {}
  /\ pc = [c \in Callers |-> "idle"]
  /\ mine = [c \in Callers |-> None]

--------------------------------------------------------------------------------
(***************************************************************************)
(* The lease service. An expired lease stands until somebody else acquires *)
(* the blob: until then its holder may renew it. Release and renewal of    *)
(* any other lease id fail.                                                *)
(***************************************************************************)
Expired == age = Duration

Free == lease = None \/ Expired

\* The service carries out release(l); a call that fails changes nothing.
Relinquish(l) ==
  \/ /\ lease = l
     /\ lease' = None /\ age' = Duration /\ orphans' = {}
     /\ UNCHANGED lapsed
  \/ UNCHANGED serviceVars

FreshLease(l) ==
  /\ l # lease
  /\ \A h \in Hosts : l \notin {active[h], leftover[h], target[h]}
  /\ \A c \in Callers : l # mine[c]

\* Only the leases callers remember matter to the history.
Remembered(S) == {l \in S : \E c \in Callers : mine[c] = l}

--------------------------------------------------------------------------------
(***************************************************************************)
(* acquire, fast check under the guard: a closed lock raises, a key that   *)
(* is tracked (lost or not) is refused without asking the service.         *)
(***************************************************************************)
FastCheck(c) ==
  /\ pc[c] = "idle"
  /\ ~closed[HostOf[c]] /\ active[HostOf[c]] = None
  /\ pc' = [pc EXCEPT ![c] = "calling"]
  /\ mine' = [mine EXCEPT ![c] = None]
  /\ UNCHANGED <<serviceVars, lockVars, workerVars>>

(***************************************************************************)
(* One turn of the polling loop: a lock closed meanwhile raises, else      *)
(* acquire_lease is called outside the guard. A conflict is answered with  *)
(* None, or polled again before the deadline; any other error is raised,   *)
(* also when the service had granted the lease and the answer was lost. A  *)
(* close between the check and the call is one right after the call.       *)
(***************************************************************************)
AcquireLease(c) ==
  /\ pc[c] = "calling"
  /\ \/ /\ ~closed[HostOf[c]] /\ Free
        /\ \E l \in Leases :
             /\ FreshLease(l)
             /\ lease' = l /\ age' = 0 /\ orphans' = {}
             /\ lapsed' = Remembered(lapsed \ {l})
             /\ \/ /\ pc' = [pc EXCEPT ![c] = "granted"]
                   /\ mine' = [mine EXCEPT ![c] = l]
                \/ /\ pc' = [pc EXCEPT ![c] = "idle"]
                   /\ UNCHANGED mine
     \/ /\ pc' = [pc EXCEPT ![c] = "idle"]
        /\ UNCHANGED <<serviceVars, mine>>
  /\ UNCHANGED <<lockVars, workerVars>>

\* Mutant of Register: close() is not looked at.
RegisterClosed(c) == LET h == HostOf[c] IN
  /\ pc[c] = "granted"
  /\ \/ /\ active[h] # None
        /\ Relinquish(mine[c])
        /\ pc' = [pc EXCEPT ![c] = "idle"]
        /\ UNCHANGED <<active, lost, fails>>
     \/ /\ active[h] = None
        /\ active' = [active EXCEPT ![h] = mine[c]]
        /\ lost' = [lost EXCEPT ![h] = FALSE]
        /\ fails' = [fails EXCEPT ![h] = 0]
        /\ pc' = [pc EXCEPT ![c] = "holding"]
        /\ UNCHANGED serviceVars
  /\ UNCHANGED <<closed, leftover, cleared, workerVars, mine>>

(***************************************************************************)
(* acquire, last guarded block, with the release call inside it: another   *)
(* local acquire was first, or the lock was closed while the call was in   *)
(* flight; otherwise the lease is registered and its token answered.       *)
(***************************************************************************)
Register(c) == LET h == HostOf[c] IN
  /\ pc[c] = "granted"
  /\ \/ /\ active[h] # None \/ closed[h]
        /\ Relinquish(mine[c])
        /\ pc' = [pc EXCEPT ![c] = "idle"]
        /\ UNCHANGED <<active, lost, fails>>
     \/ /\ active[h] = None /\ ~closed[h]
        /\ active' = [active EXCEPT ![h] = mine[c]]
        /\ lost' = [lost EXCEPT ![h] = FALSE]
        /\ fails' = [fails EXCEPT ![h] = 0]
        /\ pc' = [pc EXCEPT ![c] = "holding"]
        /\ UNCHANGED serviceVars
  /\ UNCHANGED <<closed, leftover, cleared, workerVars, mine>>

(***************************************************************************)
(* release(token), guarded block: a no-op unless the tracked state has     *)
(* this very token. A caller may release late and more than once.          *)
(***************************************************************************)
\* Mutants of Unregister: the token is not looked at; the entry stays until
\* the service has answered.
UnregisterAny(c) == LET h == HostOf[c] IN
  /\ pc[c] \in {"idle", "holding"} /\ mine[c] # None
  /\ Relinquish(active[h])
  /\ active' = [active EXCEPT ![h] = None]
  /\ pc' = [pc EXCEPT ![c] = "idle"]
  /\ UNCHANGED <<lost, fails, closed, leftover, cleared, workerVars, mine>>

UnregisterLater(c) ==
  /\ pc[c] = "holding"
  /\ pc' = [pc EXCEPT ![c] = "releasing"]
  /\ UNCHANGED <<serviceVars, lockVars, workerVars, mine>>

Unregister(c) == LET h == HostOf[c] IN
  /\ pc[c] \in {"idle", "holding"} /\ mine[c] # None
  /\ \/ /\ active[h] = mine[c]
        /\ active' = [active EXCEPT ![h] = None]
        /\ pc' = [pc EXCEPT ![c] = IF lost[h] THEN "idle" ELSE "releasing"]
     \/ /\ active[h] # mine[c]
        /\ pc' = [pc EXCEPT ![c] = "idle"]
        /\ UNCHANGED active
  /\ UNCHANGED <<serviceVars, lost, fails, closed, leftover, cleared, workerVars, mine>>

\* release(token), outside the guard: the service call; its failure is ignored.
ReleaseLease(c) ==
  /\ pc[c] = "releasing"
  /\ Relinquish(mine[c])
  /\ pc' = [pc EXCEPT ![c] = "idle"]
  /\ UNCHANGED <<lockVars, workerVars, mine>>

--------------------------------------------------------------------------------
(***************************************************************************)
(* The renewal worker: wait an interval, take the tracked lease if it is   *)
(* not lost, renew it, account for the outcome.                            *)
(***************************************************************************)
\* Mutant of Due: two intervals between rounds.
DueLate(h) == timer[h] = Period + 1

Due(h) == timer[h] = Period

Renewable(h) == active[h] # None /\ ~lost[h]

StartRound(h) ==
  /\ worker[h] = "waiting" /\ Due(h)
  /\ timer' = [timer EXCEPT ![h] = 0]
  /\ \/ /\ Renewable(h)
        /\ worker' = [worker EXCEPT ![h] = "renewing"]
        /\ target' = [target EXCEPT ![h] = active[h]]
        /\ reply' = [reply EXCEPT ![h] = "pending"]
     \/ /\ ~Renewable(h)
        /\ UNCHANGED <<worker, target, reply>>
  /\ UNCHANGED <<serviceVars, lockVars, callerVars>>

\* The call reaches the service; the answer may be lost on the way back.
RenewLands(h) ==
  /\ worker[h] = "renewing" /\ reply[h] = "pending"
  /\ \/ /\ lease = target[h]
        /\ age' = 0
        /\ \E r \in {"renewed", "transient"} : reply' = [reply EXCEPT ![h] = r]
     \/ /\ \/ lease # target[h] /\ reply' = [reply EXCEPT ![h] = "gone"]
           \/ reply' = [reply EXCEPT ![h] = "transient"]
        /\ UNCHANGED age
  /\ UNCHANGED <<lease, lapsed, orphans, lockVars, worker, target, timer, callerVars>>

\* _record_renew_success and _handle_renew_failure: both act only if the state
\* is still the tracked one.
Account(h, r) ==
  IF active[h] # target[h] THEN UNCHANGED <<lost, fails>>
  ELSE CASE r = "renewed" -> fails' = [fails EXCEPT ![h] = 0] /\ UNCHANGED lost
         [] r = "gone" -> lost' = [lost EXCEPT ![h] = TRUE] /\ UNCHANGED fails
         [] r = "transient" ->
              /\ fails' = [fails EXCEPT ![h] = @ + 1]
              /\ lost' = [lost EXCEPT ![h] = fails[h] + 1 >= MaxFailures]

\* Mutant of EndRound: a timed-out call is not a failure.
EndRoundPatient(h) ==
  /\ worker[h] = "renewing" /\ reply[h] # "pending"
  /\ Account(h, reply[h])
  /\ worker' = [worker EXCEPT ![h] = "waiting"]
  /\ target' = [target EXCEPT ![h] = None]
  /\ timer' = [timer EXCEPT ![h] = 0]
  /\ reply' = [reply EXCEPT ![h] = "pending"]
  /\ UNCHANGED <<serviceVars, active, closed, leftover, cleared, callerVars>>

(***************************************************************************)
(* The round ends with the answer, or after one interval without it: the   *)
(* call is abandoned, counted as a transient failure, and may still land.  *)
(***************************************************************************)
EndRound(h) ==
  /\ worker[h] = "renewing"
  /\ \/ /\ reply[h] # "pending"
        /\ Account(h, reply[h])
        /\ UNCHANGED orphans
     \/ /\ reply[h] = "pending" /\ MayHang /\ Due(h)
        /\ Account(h, "transient")
        /\ orphans' = orphans \cup ({target[h]} \cap {lease})
  /\ worker' = [worker EXCEPT ![h] = "waiting"]
  /\ target' = [target EXCEPT ![h] = None]
  /\ timer' = [timer EXCEPT ![h] = 0]
  /\ reply' = [reply EXCEPT ![h] = "pending"]
  /\ UNCHANGED <<lease, age, lapsed, active, closed, leftover, cleared, callerVars>>

\* Abandoned calls for a lease the blob no longer has come to nothing.
OrphanLands(l) ==
  /\ l \in orphans
  /\ orphans' = orphans \ {l}
  /\ age' = 0
  /\ UNCHANGED <<lease, lapsed, lockVars, worker, target, reply, timer, callerVars>>

\* The shutdown event wakes the worker, or its submit to the closed pool raises.
StopWorker(h) ==
  /\ worker[h] = "waiting" /\ closed[h]
  /\ worker' = [worker EXCEPT ![h] = "stopped"]
  /\ UNCHANGED <<serviceVars, lockVars, target, reply, timer, callerVars>>

(***************************************************************************)
(* close(): set `_closed` without the guard; wait for the worker, but not  *)
(* for ever; empty the table; release what was in it and not lost.         *)
(***************************************************************************)
Close(h) ==
  /\ h \in Closing
  /\ ~closed[h]
  /\ closed' = [closed EXCEPT ![h] = TRUE]
  /\ UNCHANGED <<serviceVars, active, lost, fails, leftover, cleared, workerVars, callerVars>>

CloseTable(h) ==
  /\ closed[h] /\ ~cleared[h]
  /\ cleared' = [cleared EXCEPT ![h] = TRUE]
  /\ active' = [active EXCEPT ![h] = None]
  /\ leftover' = [leftover EXCEPT ![h] =
       IF active[h] # None /\ lost[h] THEN None ELSE active[h]]
  /\ UNCHANGED <<serviceVars, lost, fails, closed, workerVars, callerVars>>

CloseRelease(h) ==
  /\ leftover[h] # None
  /\ Relinquish(leftover[h])
  /\ leftover' = [leftover EXCEPT ![h] = None]
  /\ UNCHANGED <<active, lost, fails, closed, cleared, workerVars, callerVars>>

(***************************************************************************)
(* A host dies and another one with a new lock instance takes its place.   *)
(* A renew call it had sent may still reach the service.                   *)
(***************************************************************************)
Crash(h) ==
  /\ h \in Dying
  /\ active' = [active EXCEPT ![h] = None]
  /\ closed' = [closed EXCEPT ![h] = FALSE]
  /\ cleared' = [cleared EXCEPT ![h] = FALSE]
  /\ leftover' = [leftover EXCEPT ![h] = None]
  /\ worker' = [worker EXCEPT ![h] = "waiting"]
  /\ orphans' = IF worker[h] = "renewing" THEN orphans \cup ({target[h]} \cap {lease})
              ELSE orphans
  /\ target' = [target EXCEPT ![h] = None]
  /\ reply' = [reply EXCEPT ![h] = "pending"]
  /\ timer' = [timer EXCEPT ![h] = 0]
  /\ pc' = [c \in Callers |-> IF HostOf[c] = h THEN "idle" ELSE pc[c]]
  /\ mine' = [c \in Callers |-> IF HostOf[c] = h THEN None ELSE mine[c]]
  /\ UNCHANGED <<lease, age, lapsed, lost, fails>>

(***************************************************************************)
(* One interval passes. When hosts are timely, only if no worker has       *)
(* anything to do before: a round starts when it is due, a call that does  *)
(* not hang is answered at once, a hung one is given up after an interval, *)
(* and a lease just taken is registered.                                   *)
(***************************************************************************)
Punctual(h) ==
  \/ worker[h] = "waiting" /\ ~Due(h)
  \/ worker[h] = "renewing" /\ reply[h] = "pending" /\ MayHang /\ ~Due(h)
  \/ worker[h] = "stopped"

Tick ==
  /\ Timely => /\ \A h \in Hosts : Punctual(h)
               /\ \A c \in Callers : pc[c] # "granted"
  /\ age' = IF Expired THEN age ELSE age + 1
  /\ lapsed' = IF lease # None /\ age' = Duration THEN Remembered(lapsed \cup {lease}) ELSE lapsed
  /\ timer' = [h \in Hosts |-> IF Due(h) THEN timer[h] ELSE timer[h] + 1]
  /\ UNCHANGED <<lease, lockVars, worker, target, reply, orphans, callerVars>>

--------------------------------------------------------------------------------
CallerStep(c) ==
  \/ FastCheck(c) \/ AcquireLease(c) \/ Register(c)
  \/ Unregister(c) \/ ReleaseLease(c)

WorkerStep(h) == StartRound(h) \/ RenewLands(h) \/ EndRound(h) \/ StopWorker(h)

CloseStep(h) == Close(h) \/ CloseTable(h) \/ CloseRelease(h)

Next ==
  \/ \E c \in Callers : CallerStep(c)
  \/ \E h \in Hosts : WorkerStep(h) \/ CloseStep(h) \/ Crash(h)
  \/ \E l \in Leases : OrphanLands(l)
  \/ Tick

Spec == Init /\ [][Next]_vars

(***************************************************************************)
(* A running host keeps its worker going: rounds start when they are due   *)
(* and end, by the answer or by the timeout. A call has an answer unless   *)
(* it hangs. Time passes.                                                  *)
(***************************************************************************)
Fairness ==
  /\ \A h \in Hosts : WF_vars(StartRound(h)) /\ WF_vars(EndRound(h))
  /\ \A h \in Hosts : ~MayHang => WF_vars(RenewLands(h))
  /\ WF_vars(Tick)

FairSpec == Spec /\ Fairness

--------------------------------------------------------------------------------
(***************************************************************************)
(* In one process at most one execution has the key, whatever happens to   *)
(* the leases: a key whose lease is lost stays occupied until its holder   *)
(* releases it, and of two racing acquires that both got a lease one gives *)
(* it back.                                                                *)
(***************************************************************************)
LocalExclusion ==
  \A c, d \in Callers :
    pc[c] = "holding" /\ pc[d] = "holding" /\ HostOf[c] = HostOf[d] => c = d

(***************************************************************************)
(* A holder on an open lock owns the blob's lease, and so is alone in the  *)
(* whole system, unless that lease has expired at some time: no release    *)
(* by a race loser, a former holder, or another host's close takes it.     *)
(***************************************************************************)
OwnsUnlessLapsed ==
  \A c \in Callers : pc[c] = "holding" /\ ~closed[HostOf[c]] =>
    lease = mine[c] \/ mine[c] \in lapsed

(***************************************************************************)
(* Once close() has emptied the table nothing enters it again: a lease     *)
(* granted while close ran is not handed out without a renewal worker.     *)
(***************************************************************************)
ClosedHoldsNothing == \A h \in Hosts : cleared[h] => active[h] = None

(***************************************************************************)
(* The ownership guard of a token passes only while the execution it was   *)
(* made for holds the key: one that released, or was superseded, can never *)
(* pass on the strength of a newer owner.                                  *)
(***************************************************************************)
\* Mutant of GuardPasses: the guard means whoever owns the thread now.
GuardPassesAnyOwner(c) == LET h == HostOf[c] IN
  mine[c] # None /\ ~closed[h] /\ active[h] # None /\ ~lost[h]

\* _ownership_problem finds nothing wrong with the token of caller c.
GuardPasses(c) == LET h == HostOf[c] IN
  mine[c] # None /\ ~closed[h] /\ active[h] = mine[c] /\ ~lost[h]

GuardNamesHolder == \A c \in Callers : GuardPasses(c) => pc[c] = "holding"

(***************************************************************************)
(* One failed renewal is survived: while at most one has failed in a row   *)
(* the lease is alive, so that the next round can still save it.           *)
(***************************************************************************)
FailureIsSurvived ==
  \A h \in Hosts : active[h] # None /\ ~closed[h] =>
    \/ lost[h] \/ fails[h] > 1
    \/ lease = active[h] /\ ~Expired

(***************************************************************************)
(* The guard lags behind the loss of a lease, but not for ever: when the   *)
(* blob's lease is no longer the holder's, its guard stops passing.        *)
(***************************************************************************)
LossIsDetected ==
  \A c \in Callers :
    pc[c] = "holding" /\ lease # mine[c] ~> pc[c] # "holding" \/ ~GuardPasses(c)

(***************************************************************************)
(* A lease no execution uses any more ends, by a release or by expiry:     *)
(* after a crash, a lost answer, or a release that failed, nobody renews   *)
(* it for ever and the key can be taken again.                             *)
(***************************************************************************)
Unused(l) == \A c \in Callers : mine[c] = l => pc[c] = "idle"

UnusedLeaseEnds ==
  \A l \in Leases : lease = l /\ Unused(l) ~> lease # l \/ Expired \/ ~Unused(l)

--------------------------------------------------------------------------------
(***************************************************************************)
(* The inductive invariant. A tracked lease is that of the one holder of   *)
(* its host; what callers remember is distinct; a lease that close() has   *)
(* taken out belongs to a caller of that host; whoever was given a lease   *)
(* has it unless it expired; and a round that can still be accounted for   *)
(* is of a lease that is not lost, with failures left to count.            *)
(***************************************************************************)
CallersKnow ==
  \A c \in Callers :
    /\ pc[c] \in {"granted", "holding", "releasing"} => mine[c] # None
    /\ pc[c] = "calling" => mine[c] = None

MineDistinct == \A c, d \in Callers : mine[c] # None /\ mine[c] = mine[d] => c = d

TrackedIsHeld ==
  \A h \in Hosts :
    /\ active[h] # None =>
         \E c \in Callers : pc[c] = "holding" /\ HostOf[c] = h /\ mine[c] = active[h]
    /\ cleared[h] => closed[h] /\ active[h] = None
    /\ leftover[h] # None => cleared[h]

HolderIsTracked ==
  \A c \in Callers : pc[c] = "holding" /\ ~cleared[HostOf[c]] => active[HostOf[c]] = mine[c]

LeftoverIsLocal ==
  \A c \in Callers, h \in Hosts : mine[c] # None /\ mine[c] = leftover[h] =>
    HostOf[c] = h /\ pc[c] # "granted"

ExpiredIsLapsed ==
  \A c \in Callers : mine[c] # None /\ lease = mine[c] /\ Expired => mine[c] \in lapsed

GrantedOwns ==
  \A c \in Callers : pc[c] = "granted" => lease = mine[c] \/ mine[c] \in lapsed

RoundsCount ==
  \A h \in Hosts :
    /\ worker[h] = "renewing" => target[h] # None
    /\ worker[h] = "renewing" /\ active[h] = target[h] => ~lost[h]
    /\ active[h] # None /\ ~lost[h] => fails[h] < MaxFailures
    /\ \A c \in Callers : pc[c] = "granted" => mine[c] # target[h]

Inv ==
  /\ TypeOK /\ CallersKnow /\ MineDistinct /\ TrackedIsHeld /\ HolderIsTracked
  /\ LeftoverIsLocal /\ ExpiredIsLapsed /\ GrantedOwns /\ RoundsCount
  /\ LocalExclusion /\ OwnsUnlessLapsed

(***************************************************************************)
(* On hosts that keep to their schedule the age of a tracked lease follows *)
(* from the rounds: at most one wait for a failed round and the present    *)
(* wait, or two waits while a round of it is under way.                    *)
(***************************************************************************)
AfterFailures(h) == IF fails[h] = 0 THEN 0 ELSE Period

OnSchedule(h) ==
  /\ lease = active[h]
  /\ worker[h] = "renewing" /\ target[h] = active[h] =>
       age <= AfterFailures(h) + Period /\ reply[h] # "gone"
  /\ worker[h] = "waiting" \/ target[h] # active[h] => age <= AfterFailures(h) + timer[h]

Renewed(h) == worker[h] = "renewing" /\ reply[h] = "renewed" /\ active[h] = target[h]

RoundsTimely(h) ==
  /\ worker[h] = "stopped" => closed[h]
  /\ worker[h] = "renewing" => timer[h] = 0
  /\ Renewed(h) /\ ~closed[h] => lease = active[h] /\ age = 0
  /\ active[h] # None /\ ~closed[h] /\ ~lost[h] /\ fails[h] <= 1 => OnSchedule(h)

GrantedFresh(c) == pc[c] = "granted" => lease = mine[c] /\ age = 0

TimelyInv ==
  /\ Inv
  /\ \A h \in Hosts : RoundsTimely(h)
  /\ \A c \in Callers : GrantedFresh(c)

--------------------------------------------------------------------------------
(***************************************************************************)
(* What the runs rely on: the lock implements RunLock. A holder has lost   *)
(* its lock once its lease has expired or its lock instance is closed.     *)
(***************************************************************************)
holdersBar == {c \in Callers : pc[c] = "holding"}

lapsedBar == {c \in holdersBar : mine[c] \in lapsed \/ closed[HostOf[c]]}

reportedBar == {c \in holdersBar : ~GuardPasses(c)}

Promise == INSTANCE RunLock
             WITH Runs <- Callers, HostOfRun <- HostOf,
                  holders <- holdersBar, lapsed <- lapsedBar, reported <- reportedBar

ImplementsRunLock == Promise!Spec
===============================================================================
