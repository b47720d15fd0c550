---------------------------- MODULE MCAsyncAndLease ----------------------------
(***************************************************************************)
(* Model checking of the async callers of a lock, and of the liveness of   *)
(* the Blob lease lock with a caller in either of two hosts. They share no *)
(* state: a behaviour takes the steps of the component chosen by its first *)
(* state, and the other one stays at its initial state.                    *)
(***************************************************************************)
EXTENDS AsyncThreadLock, TLC

CONSTANTS h1, h2, c1, c2,
          Leases, Duration, MaxFailures, Dying \* of BlobLeaseThreadLock

TwoHosts == (c1 :> h1) @@ (c2 :> h2)

VARIABLES component,
          bLease, bAge, bLapsed, bActive, bLost, bFails, bClosed, bLeftover, bCleared,
          bWorker, bTarget, bReply, bTimer, bOrphans, bPc, bMine

bVars == <<bLease, bAge, bLapsed, bActive, bLost, bFails, bClosed, bLeftover, bCleared,
           bWorker, bTarget, bReply, bTimer, bOrphans, bPc, bMine>>

B == INSTANCE BlobLeaseThreadLock
       WITH Hosts <- {h1, h2}, Callers <- {c1, c2}, HostOf <- TwoHosts,
            Period <- 0, Timely <- FALSE, MayHang <- TRUE, Closing <- {},
            lease <- bLease, age <- bAge, lapsed <- bLapsed, active <- bActive,
            lost <- bLost, fails <- bFails, closed <- bClosed, leftover <- bLeftover,
            cleared <- bCleared, worker <- bWorker, target <- bTarget, reply <- bReply,
            timer <- bTimer, orphans <- bOrphans, pc <- bPc, mine <- bMine

ASSUME NoneIsNoTask /\ BoundsNat

BothInit == Init /\ B!Init /\ component \in {"async", "lease"}

AsyncStep == component = "async" /\ Next /\ UNCHANGED <<component, bVars>>

LeaseStep == component = "lease" /\ B!Next /\ UNCHANGED <<component, vars>>

\* Fairness of the component that runs.
AsyncFairness == \A t \in Tasks :
  /\ WF_vars(component = "async" /\ TaskStep(t))
  /\ WF_vars(component = "async" /\ \E k \in Kinds : StartJob(t, k))
  /\ WF_vars(component = "async" /\ JobEnds(t))

LeaseFairness ==
  /\ \A h \in {h1, h2} :
       /\ WF_bVars(component = "lease" /\ B!StartRound(h))
       /\ WF_bVars(component = "lease" /\ B!EndRound(h))
  /\ WF_bVars(component = "lease" /\ B!Tick)

BothSpec ==
  /\ BothInit /\ [][AsyncStep \/ LeaseStep]_<<component, vars, bVars>>
  /\ AsyncFairness /\ LeaseFairness

\* See BlobLeaseThreadLock: the guard of a holder that lost its lease stops passing.
LossIsDetected == B!LossIsDetected

\* See BlobLeaseThreadLock: a lease that nobody uses ends.
UnusedLeaseEnds == B!UnusedLeaseEnds
================================================================================
