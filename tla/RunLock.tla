-------------------------------- MODULE RunLock --------------------------------
(***************************************************************************)
(* A thread lock as the code that runs a graph sees it (locks/base.py,     *)
(* locks/guard.py): at most one run in each process, at most one in the    *)
(* whole system as long as the backend keeps its promise, and a guard per  *)
(* acquisition that may report the loss of a lock some time after it.      *)
(*                                                                         *)
(* ThreadLock is the contract of a lock that cannot be lost; this one also *)
(* covers leases that lapse. One thread of one graph.                      *)
(***************************************************************************)
CONSTANTS Runs,     \* executions that ask for the lock
          HostOfRun \* the process a run executes in

VARIABLES holders,  \* runs whose acquire answered a token not yet released
          lapsed,   \* holders whose lock the backend has lost
          reported  \* holders whose ownership guard reports a loss

runLockVars == <<holders, lapsed, reported>>

Init == holders = {} /\ lapsed = {} /\ reported = {}

(***************************************************************************)
(* acquire answers a token. It excludes every holder of the same process   *)
(* and every holder whose lock has not lapsed; a lock that is lost by the  *)
(* time it is handed out excludes nobody.                                  *)
(***************************************************************************)
Acquire(r) ==
  /\ r \notin holders
  /\ \A q \in holders : HostOfRun[q] # HostOfRun[r]
  /\ holders' = holders \cup {r}
  /\ \/ holders \subseteq lapsed /\ UNCHANGED lapsed
     \/ lapsed' = lapsed \cup {r}
  /\ UNCHANGED reported

\* acquire answers None, at the least because somebody holds the key.
Refuse(r) == holders # {} /\ UNCHANGED runLockVars

\* release with the token of this acquisition; a later one is a no-op.
Release(r) ==
  /\ r \in holders
  /\ holders' = holders \ {r}
  /\ lapsed' = lapsed \ {r}
  /\ reported' = reported \ {r}

\* The backend loses the lock of r: a lease expires, a host is frozen.
Lapse(r) ==
  /\ r \in holders \ lapsed
  /\ lapsed' = lapsed \cup {r}
  /\ UNCHANGED <<holders, reported>>

\* The lock notices, and r's guard raises from now on.
Report(r) ==
  /\ r \in holders \ reported
  /\ reported' = reported \cup {r}
  /\ UNCHANGED <<holders, lapsed>>

\* OwnershipGuard.check of run r returns.
Passes(r) == r \in holders \ reported

Next == \E r \in Runs :
  Acquire(r) \/ Release(r) \/ Lapse(r) \/ Report(r)

\* Several holders may go or lapse at once when their process ends.
Vanish ==
  /\ holders' \subseteq holders /\ holders # holders'
  /\ lapsed' = lapsed \cap holders'
  /\ reported' = reported \cap holders'

LapseAndReport(r) ==
  /\ r \in holders
  /\ lapsed' = lapsed \cup {r} /\ reported' = reported \cup {r}
  /\ UNCHANGED holders

\* What takes several steps of Next, at once.
AtOnce == Vanish \/ \E r \in Runs : LapseAndReport(r)

Spec == Init /\ [][Next \/ AtOnce]_runLockVars
================================================================================
