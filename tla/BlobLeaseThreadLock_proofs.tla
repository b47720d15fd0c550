---------------------- MODULE BlobLeaseThreadLock_proofs ----------------------
(***************************************************************************)
(* The Blob lease lock keeps its bookkeeping and the lease together, for   *)
(* any hosts, callers, leases and durations, and implements RunLock. The   *)
(* argument is the inductive invariant Inv of BlobLeaseThreadLock, one     *)
(* lemma per action, then one lemma per action for the refinement.         *)
(***************************************************************************)
EXTENDS MCBlobLeaseThreadLock, TLAPS

USE CallersHosted, NoneIsNone, DurationPositive, FailuresPositive, PeriodNat

\* The invariant holds of a blob that has no lease and of hosts that track none.
LEMMA InitInv == Init => Inv
BY DEF Init, Inv, TypeOK, Points, CallersKnow, MineDistinct, TrackedIsHeld,
     HolderIsTracked, LeftoverIsLocal, ExpiredIsLapsed, GrantedOwns, RoundsCount,
     LocalExclusion, OwnsUnlessLapsed

\* A caller that asks again has given up the lease it remembered.
LEMMA FastCheckInv ==
  ASSUME Inv, NEW c \in Callers, FastCheck(c)
  PROVE  Inv'
<1> USE DEF Inv, FastCheck, serviceVars, lockVars, workerVars
<1>1. TypeOK'
  BY DEF TypeOK, Points
<1>2. CallersKnow' /\ MineDistinct'
  BY DEF TypeOK, CallersKnow, MineDistinct
<1>3. TrackedIsHeld'
  BY DEF TypeOK, TrackedIsHeld
<1>4. HolderIsTracked'
  BY DEF TypeOK, HolderIsTracked
<1>5. LeftoverIsLocal'
  BY DEF TypeOK, LeftoverIsLocal
<1>6. ExpiredIsLapsed' /\ GrantedOwns'
  BY DEF TypeOK, ExpiredIsLapsed, Expired, GrantedOwns
<1>7. RoundsCount'
  BY DEF TypeOK, RoundsCount
<1>8. LocalExclusion' /\ OwnsUnlessLapsed'
  BY DEF TypeOK, LocalExclusion, OwnsUnlessLapsed
<1> QED
  BY <1>1, <1>2, <1>3, <1>4, <1>5, <1>6, <1>7, <1>8

\* A lease is granted on a blob that has none, or whose lease has expired:
\* whoever still remembers the old one remembers it as lapsed. The id is one
\* nobody remembers, so nothing else is said about it yet.
LEMMA AcquireLeaseInv ==
  ASSUME Inv, NEW c \in Callers, AcquireLease(c)
  PROVE  Inv'
<1> USE DEF Inv, lockVars, workerVars
<1>0. /\ pc[c] = "calling" /\ mine[c] = None
      /\ UNCHANGED <<lockVars, workerVars>>
  BY DEF AcquireLease, CallersKnow
<1>1. CASE /\ pc' = [pc EXCEPT ![c] = "idle"]
           /\ UNCHANGED <<serviceVars, mine>>
  <2> USE <1>0, <1>1 DEF serviceVars
  <2>1. TypeOK'
    BY DEF TypeOK, Points
  <2>2. CallersKnow' /\ MineDistinct' /\ TrackedIsHeld' /\ HolderIsTracked' /\ LeftoverIsLocal'
    BY DEF TypeOK, CallersKnow, MineDistinct, TrackedIsHeld, HolderIsTracked, LeftoverIsLocal
  <2>3. ExpiredIsLapsed' /\ GrantedOwns' /\ RoundsCount' /\ LocalExclusion' /\ OwnsUnlessLapsed'
    BY DEF TypeOK, ExpiredIsLapsed, Expired, GrantedOwns, RoundsCount,
         LocalExclusion, OwnsUnlessLapsed
  <2> QED
    BY <2>1, <2>2, <2>3
<1>2. CASE /\ Free
           /\ \E l \in Leases :
             /\ FreshLease(l)
             /\ lease' = l /\ age' = 0 /\ orphans' = {}
             /\ lapsed' = Remembered(lapsed \ {l})
             /\ \/ /\ pc' = [pc EXCEPT ![c] = "granted"]
                   /\ mine' = [mine EXCEPT ![c] = l]
                \/ /\ pc' = [pc EXCEPT ![c] = "idle"]
                   /\ UNCHANGED mine
  <2>1. PICK l \in Leases :
             /\ FreshLease(l)
             /\ lease' = l /\ age' = 0 /\ orphans' = {}
             /\ lapsed' = Remembered(lapsed \ {l})
             /\ \/ /\ pc' = [pc EXCEPT ![c] = "granted"]
                   /\ mine' = [mine EXCEPT ![c] = l]
                \/ /\ pc' = [pc EXCEPT ![c] = "idle"]
                   /\ UNCHANGED mine
    BY <1>2
  <2>2. \A d \in Callers : mine[d] # None /\ (lease = mine[d] \/ mine[d] \in lapsed) =>
           mine[d] \in lapsed'
    BY <1>2, <2>1 DEF Free, ExpiredIsLapsed, Remembered, FreshLease, TypeOK
  <2>3. \A d \in Callers : d # c => mine'[d] = mine[d] /\ pc'[d] = pc[d]
    BY <2>1 DEF TypeOK
  <2>4. \/ pc'[c] = "granted" /\ mine'[c] = l
        \/ pc'[c] = "idle" /\ mine'[c] = None
    BY <1>0, <2>1 DEF TypeOK
  <2> HIDE DEF Inv
  <2>5. TypeOK /\ CallersKnow /\ MineDistinct /\ TrackedIsHeld /\ HolderIsTracked
  /\ LeftoverIsLocal /\ ExpiredIsLapsed /\ GrantedOwns /\ RoundsCount
  /\ LocalExclusion /\ OwnsUnlessLapsed
    BY DEF Inv
  <2>6. /\ l # None /\ l # lease
        /\ \A h \in Hosts : l \notin {active[h], leftover[h], target[h]}
        /\ \A d \in Callers : l # mine[d]
    BY <2>1 DEF FreshLease
  <2>t. TypeOK'
    BY <1>0, <2>1, <2>5 DEF TypeOK, Points, Remembered
  <2>c. CallersKnow' /\ MineDistinct'
    BY <1>0, <2>3, <2>4, <2>5, <2>6 DEF CallersKnow, MineDistinct
  <2>h. TrackedIsHeld'
    BY <1>0, <2>3, <2>4, <2>5, <2>6 DEF TrackedIsHeld
  <2>a. HolderIsTracked' /\ LeftoverIsLocal'
    BY <1>0, <2>3, <2>4, <2>5, <2>6 DEF HolderIsTracked, LeftoverIsLocal
  <2>e. ExpiredIsLapsed'
    BY <2>1 DEF ExpiredIsLapsed, Expired
  <2>g. GrantedOwns'
    BY <2>1, <2>2, <2>3, <2>4, <2>5 DEF GrantedOwns, CallersKnow
  <2>r. RoundsCount'
    BY <1>0, <2>3, <2>4, <2>5, <2>6 DEF RoundsCount
  <2>o. LocalExclusion' /\ OwnsUnlessLapsed'
    BY <1>0, <2>1, <2>2, <2>3, <2>4, <2>5 DEF LocalExclusion, OwnsUnlessLapsed, CallersKnow
  <2> QED
    BY <2>t, <2>c, <2>h, <2>a, <2>e, <2>g, <2>r, <2>o DEF Inv
<1> QED
  BY <1>1, <1>2 DEF AcquireLease
\* A release ends the lease it names, or nothing at all.
LEMMA RelinquishEffect ==
  ASSUME TypeOK, NEW l, Relinquish(l)
  PROVE  /\ lapsed' = lapsed /\ orphans' \subseteq orphans
         /\ \/ lease' = lease /\ age' = age
            \/ lease = l /\ lease' = None /\ age' = Duration
BY DEF Relinquish, serviceVars, TypeOK

\* The loser of a local race, or of a race with close(), ends only its own
\* lease; the winner registers where nobody of its host holds the key.
LEMMA RegisterInv ==
  ASSUME Inv, NEW c \in Callers, Register(c)
  PROVE  Inv'
<1> DEFINE h == HostOf[c]
<1>0. /\ pc[c] = "granted" /\ mine[c] # None
      /\ UNCHANGED <<closed, leftover, cleared, workerVars, mine>>
  BY DEF Register, Inv, CallersKnow
<1>1. CASE /\ Relinquish(mine[c])
           /\ pc' = [pc EXCEPT ![c] = "idle"]
           /\ UNCHANGED <<active, lost, fails>>
  <2>1. /\ lapsed' = lapsed /\ orphans' \subseteq orphans
        /\ \/ lease' = lease /\ age' = age
           \/ lease = mine[c] /\ lease' = None /\ age' = Duration
    BY <1>1, RelinquishEffect DEF Inv
  <2> USE <1>0, <1>1, <2>1 DEF Inv, workerVars
  <2>t. TypeOK'
    BY DEF TypeOK, Points
  <2>c. CallersKnow' /\ MineDistinct' /\ TrackedIsHeld' /\ HolderIsTracked' /\ LeftoverIsLocal'
    BY DEF TypeOK, CallersKnow, MineDistinct, TrackedIsHeld, HolderIsTracked, LeftoverIsLocal
  <2>e. ExpiredIsLapsed'
    BY DEF ExpiredIsLapsed, Expired
  <2>g. GrantedOwns' /\ LocalExclusion' /\ OwnsUnlessLapsed'
    BY DEF TypeOK, GrantedOwns, LocalExclusion, OwnsUnlessLapsed, MineDistinct
  <2>r. RoundsCount'
    BY DEF TypeOK, RoundsCount
  <2> QED
    BY <2>t, <2>c, <2>e, <2>g, <2>r
<1>2. CASE /\ active[h] = None /\ ~closed[h]
           /\ active' = [active EXCEPT ![h] = mine[c]]
           /\ lost' = [lost EXCEPT ![h] = FALSE]
           /\ fails' = [fails EXCEPT ![h] = 0]
           /\ pc' = [pc EXCEPT ![c] = "holding"]
           /\ UNCHANGED serviceVars
  <2> USE <1>0, <1>2 DEF Inv, workerVars, serviceVars
  <2>t. TypeOK'
    BY DEF TypeOK, Points
  <2>1. h \in Hosts /\ ~cleared[h] /\ \A d \in Callers : pc[d] = "holding" => HostOf[d] # h
    BY DEF TypeOK, TrackedIsHeld, HolderIsTracked, CallersKnow
  <2>c. CallersKnow' /\ MineDistinct'
    BY DEF TypeOK, CallersKnow, MineDistinct
  <2>h. TrackedIsHeld'
    BY <2>1 DEF TypeOK, TrackedIsHeld
  <2>k. HolderIsTracked' /\ LeftoverIsLocal' /\ LocalExclusion'
    BY <2>1 DEF TypeOK, HolderIsTracked, LeftoverIsLocal, LocalExclusion
  <2>e. ExpiredIsLapsed' /\ GrantedOwns' /\ OwnsUnlessLapsed'
    BY <2>1 DEF TypeOK, ExpiredIsLapsed, Expired, GrantedOwns, OwnsUnlessLapsed
  <2>r. RoundsCount'
    BY <2>1 DEF TypeOK, RoundsCount
  <2> QED
    BY <2>t, <2>c, <2>h, <2>k, <2>e, <2>r
<1> QED
  BY <1>1, <1>2 DEF Register

\* The token of a tracked lease is that of the one holder of the host; any other
\* token changes no entry.
LEMMA UnregisterInv ==
  ASSUME Inv, NEW c \in Callers, Unregister(c)
  PROVE  Inv'
<1> DEFINE h == HostOf[c]
<1>0. /\ pc[c] \in {"idle", "holding"} /\ mine[c] # None /\ h \in Hosts
      /\ UNCHANGED <<serviceVars, lost, fails, closed, leftover, cleared, workerVars, mine>>
  BY DEF Unregister
<1>1. CASE /\ active[h] = mine[c]
           /\ active' = [active EXCEPT ![h] = None]
           /\ pc' = [pc EXCEPT ![c] = IF lost[h] THEN "idle" ELSE "releasing"]
  <2> USE <1>0, <1>1 DEF Inv, workerVars, serviceVars
  <2>t. TypeOK'
    BY DEF TypeOK, Points
  <2>1. pc[c] = "holding" /\ \A d \in Callers : pc[d] = "holding" /\ HostOf[d] = h => d = c
    BY DEF TrackedIsHeld, MineDistinct, LocalExclusion
  <2>c. CallersKnow' /\ MineDistinct' /\ LeftoverIsLocal'
    BY <2>1 DEF TypeOK, CallersKnow, MineDistinct, LeftoverIsLocal
  <2>h. TrackedIsHeld'
    BY <2>1 DEF TypeOK, TrackedIsHeld
  <2>k. HolderIsTracked' /\ LocalExclusion'
    BY <2>1 DEF TypeOK, HolderIsTracked, LocalExclusion
  <2>e. ExpiredIsLapsed' /\ GrantedOwns' /\ OwnsUnlessLapsed' /\ RoundsCount'
    BY <2>1 DEF TypeOK, ExpiredIsLapsed, Expired, GrantedOwns, OwnsUnlessLapsed, RoundsCount
  <2> QED
    BY <2>t, <2>c, <2>h, <2>k, <2>e
<1>2. CASE /\ active[h] # mine[c]
           /\ pc' = [pc EXCEPT ![c] = "idle"]
           /\ UNCHANGED active
  <2> USE <1>0, <1>2 DEF Inv, workerVars, serviceVars
  <2>t. TypeOK'
    BY DEF TypeOK, Points
  <2>c. CallersKnow' /\ MineDistinct' /\ TrackedIsHeld' /\ HolderIsTracked' /\ LeftoverIsLocal'
    BY DEF TypeOK, CallersKnow, MineDistinct, TrackedIsHeld, HolderIsTracked, LeftoverIsLocal
  <2>e. /\ ExpiredIsLapsed' /\ GrantedOwns' /\ OwnsUnlessLapsed' /\ RoundsCount'
        /\ LocalExclusion'
    BY DEF TypeOK, ExpiredIsLapsed, Expired, GrantedOwns, OwnsUnlessLapsed, RoundsCount,
         LocalExclusion
  <2> QED
    BY <2>t, <2>c, <2>e
<1> QED
  BY <1>1, <1>2 DEF Unregister

\* The service call of release ends the caller's own lease, which nobody else
\* remembers.
LEMMA ReleaseLeaseInv ==
  ASSUME Inv, NEW c \in Callers, ReleaseLease(c)
  PROVE  Inv'
<1>0. /\ pc[c] = "releasing" /\ mine[c] # None
      /\ pc' = [pc EXCEPT ![c] = "idle"]
      /\ UNCHANGED <<lockVars, workerVars, mine>>
  BY DEF ReleaseLease, Inv, CallersKnow
<1>1. /\ lapsed' = lapsed /\ orphans' \subseteq orphans
      /\ \/ lease' = lease /\ age' = age
         \/ lease = mine[c] /\ lease' = None /\ age' = Duration
  BY RelinquishEffect DEF Inv, ReleaseLease
<1> USE <1>0, <1>1 DEF Inv, workerVars, lockVars
<1>t. TypeOK'
  BY DEF TypeOK, Points
<1>c. CallersKnow' /\ MineDistinct' /\ TrackedIsHeld' /\ HolderIsTracked' /\ LeftoverIsLocal'
  BY DEF TypeOK, CallersKnow, MineDistinct, TrackedIsHeld, HolderIsTracked, LeftoverIsLocal
<1>e. ExpiredIsLapsed'
  BY DEF ExpiredIsLapsed, Expired
<1>g. GrantedOwns' /\ LocalExclusion' /\ OwnsUnlessLapsed'
  BY DEF TypeOK, GrantedOwns, LocalExclusion, OwnsUnlessLapsed, MineDistinct
<1>r. RoundsCount'
  BY DEF TypeOK, RoundsCount
<1> QED
  BY <1>t, <1>c, <1>e, <1>g, <1>r

--------------------------------------------------------------------------------
\* A round takes a lease that is tracked, hence no longer only granted, and not
\* lost.
LEMMA StartRoundInv ==
  ASSUME Inv, NEW h \in Hosts, StartRound(h)
  PROVE  Inv'
<1> USE DEF Inv, StartRound, Renewable, serviceVars, lockVars, callerVars
<1>t. TypeOK'
  BY DEF TypeOK
<1>c. /\ CallersKnow' /\ MineDistinct' /\ TrackedIsHeld' /\ HolderIsTracked' /\ LeftoverIsLocal'
      /\ ExpiredIsLapsed' /\ GrantedOwns' /\ OwnsUnlessLapsed' /\ LocalExclusion'
  BY DEF CallersKnow, MineDistinct, TrackedIsHeld, HolderIsTracked, LeftoverIsLocal,
       ExpiredIsLapsed, Expired, GrantedOwns, OwnsUnlessLapsed, LocalExclusion
<1>1. \A c \in Callers : pc[c] = "granted" => mine[c] # active[h]
  BY DEF TypeOK, TrackedIsHeld, MineDistinct, CallersKnow
<1>r. RoundsCount'
  BY <1>1 DEF TypeOK, RoundsCount
<1> QED
  BY <1>t, <1>c, <1>r

\* A renewal makes a lease younger, and only the one the blob has.
LEMMA RenewLandsInv ==
  ASSUME Inv, NEW h \in Hosts, RenewLands(h)
  PROVE  Inv'
<1> USE DEF Inv, RenewLands, lockVars, callerVars
<1>t. TypeOK'
  BY DEF TypeOK
<1>c. /\ CallersKnow' /\ MineDistinct' /\ TrackedIsHeld' /\ HolderIsTracked' /\ LeftoverIsLocal'
      /\ GrantedOwns' /\ OwnsUnlessLapsed' /\ LocalExclusion'
  BY DEF CallersKnow, MineDistinct, TrackedIsHeld, HolderIsTracked, LeftoverIsLocal,
       GrantedOwns, OwnsUnlessLapsed, LocalExclusion
<1>e. ExpiredIsLapsed'
  BY DEF ExpiredIsLapsed, Expired
<1>r. RoundsCount'
  BY DEF TypeOK, RoundsCount
<1> QED
  BY <1>t, <1>c, <1>e, <1>r

\* Accounting counts a failure only against a lease that is tracked and not
\* lost, so the count stays within its bound: where it would reach it, the lease
\* is lost.
LEMMA EndRoundInv ==
  ASSUME Inv, NEW h \in Hosts, EndRound(h)
  PROVE  Inv'
<1>0. /\ worker[h] = "renewing"
      /\ worker' = [worker EXCEPT ![h] = "waiting"]
      /\ target' = [target EXCEPT ![h] = None]
      /\ timer' = [timer EXCEPT ![h] = 0]
      /\ reply' = [reply EXCEPT ![h] = "pending"]
      /\ UNCHANGED <<lease, age, lapsed, active, closed, leftover, cleared, callerVars>>
      /\ orphans' \subseteq Leases
  BY DEF EndRound, Inv, TypeOK
<1>1. CASE UNCHANGED <<lost, fails>>
  <2> USE <1>0, <1>1 DEF Inv, callerVars
  <2>t. TypeOK'
    BY DEF TypeOK
  <2>c. /\ CallersKnow' /\ MineDistinct' /\ TrackedIsHeld' /\ HolderIsTracked'
        /\ LeftoverIsLocal' /\ GrantedOwns' /\ OwnsUnlessLapsed' /\ LocalExclusion'
        /\ ExpiredIsLapsed'
    BY DEF CallersKnow, MineDistinct, TrackedIsHeld, HolderIsTracked, LeftoverIsLocal,
         GrantedOwns, OwnsUnlessLapsed, LocalExclusion, ExpiredIsLapsed, Expired
  <2>r. RoundsCount'
    BY DEF TypeOK, RoundsCount, CallersKnow
  <2> QED
    BY <2>t, <2>c, <2>r
<1>2. CASE /\ active[h] = target[h]
           /\ \E b \in BOOLEAN, n \in 0..MaxFailures :
                /\ lost' = [lost EXCEPT ![h] = b]
                /\ fails' = [fails EXCEPT ![h] = n]
                /\ ~b => n < MaxFailures
  <2>1. PICK b \in BOOLEAN, n \in 0..MaxFailures :
               /\ lost' = [lost EXCEPT ![h] = b]
               /\ fails' = [fails EXCEPT ![h] = n]
               /\ ~b => n < MaxFailures
    BY <1>2
  <2> USE <1>0, <1>2, <2>1 DEF Inv, callerVars
  <2>t. TypeOK'
    BY DEF TypeOK
  <2>c. /\ CallersKnow' /\ MineDistinct' /\ TrackedIsHeld' /\ HolderIsTracked'
        /\ LeftoverIsLocal' /\ GrantedOwns' /\ OwnsUnlessLapsed' /\ LocalExclusion'
        /\ ExpiredIsLapsed'
    BY DEF CallersKnow, MineDistinct, TrackedIsHeld, HolderIsTracked, LeftoverIsLocal,
         GrantedOwns, OwnsUnlessLapsed, LocalExclusion, ExpiredIsLapsed, Expired
  <2>r. RoundsCount'
    BY DEF TypeOK, RoundsCount, CallersKnow
  <2> QED
    BY <2>t, <2>c, <2>r
<1> QED
  <2>1. \/ UNCHANGED <<lost, fails>>
        \/ active[h] = target[h] /\ Account(h, "renewed")
        \/ active[h] = target[h] /\ Account(h, "gone")
        \/ active[h] = target[h] /\ Account(h, "transient")
    BY DEF EndRound, Inv, TypeOK, Account
  <2>2. active[h] = target[h] => fails[h] < MaxFailures /\ ~lost[h]
    BY <1>0 DEF Inv, RoundsCount
  <2>3. CASE active[h] = target[h] /\ Account(h, "renewed")
    <3>1. /\ fails' = [fails EXCEPT ![h] = 0]
          /\ lost' = [lost EXCEPT ![h] = FALSE]
      BY <2>2, <2>3 DEF Account, Inv, TypeOK
    <3>2. 0 \in 0..MaxFailures /\ 0 < MaxFailures
      OBVIOUS
    <3>3. \E b \in BOOLEAN, n \in 0..MaxFailures :
            /\ lost' = [lost EXCEPT ![h] = b]
            /\ fails' = [fails EXCEPT ![h] = n]
            /\ ~b => n < MaxFailures
      BY <3>1, <3>2, Zenon
    <3> QED
      BY <1>2, <2>3, <3>3
  <2>4. CASE active[h] = target[h] /\ Account(h, "gone")
    <3>1. /\ fails' = [fails EXCEPT ![h] = fails[h]]
          /\ lost' = [lost EXCEPT ![h] = TRUE]
          /\ fails[h] \in 0..MaxFailures
      BY <2>4 DEF Account, Inv, TypeOK
    <3> QED
      BY <1>2, <2>4, <3>1
  <2>5. CASE active[h] = target[h] /\ Account(h, "transient")
    <3> DEFINE b == fails[h] + 1 >= MaxFailures
    <3>1. /\ fails' = [fails EXCEPT ![h] = fails[h] + 1]
          /\ lost' = [lost EXCEPT ![h] = b]
      BY <2>5 DEF Account
    <3>2. fails[h] + 1 \in 0..MaxFailures /\ (~b => fails[h] + 1 < MaxFailures)
      BY <2>2, <2>5 DEF Inv, TypeOK
    <3>3. b \in BOOLEAN
      OBVIOUS
    <3> HIDE DEF b
    <3> QED
      BY <1>2, <2>5, <3>1, <3>2, <3>3
  <2> QED
    BY <1>1, <2>1, <2>3, <2>4, <2>5

\* The worker's end changes no lease.
LEMMA StopWorkerInv ==
  ASSUME Inv, NEW h \in Hosts, StopWorker(h)
  PROVE  Inv'
<1> USE DEF Inv, StopWorker, serviceVars, lockVars, callerVars
<1>t. TypeOK'
  BY DEF TypeOK
<1>c. /\ CallersKnow' /\ MineDistinct' /\ TrackedIsHeld' /\ HolderIsTracked' /\ LeftoverIsLocal'
      /\ GrantedOwns' /\ OwnsUnlessLapsed' /\ LocalExclusion' /\ ExpiredIsLapsed'
  BY DEF CallersKnow, MineDistinct, TrackedIsHeld, HolderIsTracked, LeftoverIsLocal,
       GrantedOwns, OwnsUnlessLapsed, LocalExclusion, ExpiredIsLapsed, Expired
<1>r. RoundsCount'
  BY DEF TypeOK, RoundsCount
<1> QED
  BY <1>t, <1>c, <1>r

\* An abandoned renewal that lands late still renews only the blob's lease.
LEMMA OrphanLandsInv ==
  ASSUME Inv, NEW l \in Leases, OrphanLands(l)
  PROVE  Inv'
<1> USE DEF Inv, OrphanLands, lockVars, callerVars
<1>t. TypeOK'
  BY DEF TypeOK
<1>c. /\ CallersKnow' /\ MineDistinct' /\ TrackedIsHeld' /\ HolderIsTracked' /\ LeftoverIsLocal'
      /\ GrantedOwns' /\ OwnsUnlessLapsed' /\ LocalExclusion' /\ RoundsCount'
  BY DEF CallersKnow, MineDistinct, TrackedIsHeld, HolderIsTracked, LeftoverIsLocal,
       GrantedOwns, OwnsUnlessLapsed, LocalExclusion, RoundsCount
<1>e. ExpiredIsLapsed'
  BY DEF ExpiredIsLapsed, Expired
<1> QED
  BY <1>t, <1>c, <1>e

--------------------------------------------------------------------------------
\* `_closed` is set while the table still stands.
LEMMA CloseInv ==
  ASSUME Inv, NEW h \in Hosts, Close(h)
  PROVE  Inv'
<1> USE DEF Inv, Close, serviceVars, workerVars, callerVars
<1>t. TypeOK'
  BY DEF TypeOK
<1>c. /\ CallersKnow' /\ MineDistinct' /\ TrackedIsHeld' /\ HolderIsTracked' /\ LeftoverIsLocal'
      /\ GrantedOwns' /\ LocalExclusion' /\ ExpiredIsLapsed' /\ RoundsCount'
  BY DEF TypeOK, CallersKnow, MineDistinct, TrackedIsHeld, HolderIsTracked, LeftoverIsLocal,
       GrantedOwns, LocalExclusion, ExpiredIsLapsed, Expired, RoundsCount
<1>o. OwnsUnlessLapsed'
  BY DEF TypeOK, OwnsUnlessLapsed
<1> QED
  BY <1>t, <1>c, <1>o

\* The entry close() takes out is that of a caller of this host, which holds it.
LEMMA CloseTableInv ==
  ASSUME Inv, NEW h \in Hosts, CloseTable(h)
  PROVE  Inv'
<1> USE DEF Inv, CloseTable, serviceVars, workerVars, callerVars
<1>t. TypeOK'
  BY DEF TypeOK
<1>c. /\ CallersKnow' /\ MineDistinct' /\ GrantedOwns' /\ LocalExclusion' /\ ExpiredIsLapsed'
      /\ OwnsUnlessLapsed'
  BY DEF TypeOK, CallersKnow, MineDistinct, GrantedOwns, LocalExclusion, ExpiredIsLapsed,
       Expired, OwnsUnlessLapsed
<1>h. TrackedIsHeld' /\ HolderIsTracked'
  BY DEF TypeOK, TrackedIsHeld, HolderIsTracked
<1>l. LeftoverIsLocal'
  BY DEF TypeOK, TrackedIsHeld, LeftoverIsLocal, MineDistinct
<1>r. RoundsCount'
  BY DEF TypeOK, RoundsCount
<1> QED
  BY <1>t, <1>c, <1>h, <1>l, <1>r

\* close() releases a lease of its own host only, whose lock is closed by then.
LEMMA CloseReleaseInv ==
  ASSUME Inv, NEW h \in Hosts, CloseRelease(h)
  PROVE  Inv'
<1>0. /\ leftover[h] # None
      /\ leftover' = [leftover EXCEPT ![h] = None]
      /\ UNCHANGED <<active, lost, fails, closed, cleared, workerVars, callerVars>>
  BY DEF CloseRelease
<1>1. /\ lapsed' = lapsed /\ orphans' \subseteq orphans
      /\ \/ lease' = lease /\ age' = age
         \/ lease = leftover[h] /\ lease' = None /\ age' = Duration
  BY RelinquishEffect DEF Inv, CloseRelease
<1>2. closed[h]
  BY <1>0 DEF Inv, TrackedIsHeld
<1> USE <1>0, <1>1 DEF Inv, workerVars, callerVars
<1>t. TypeOK'
  BY DEF TypeOK
<1>c. CallersKnow' /\ MineDistinct' /\ TrackedIsHeld' /\ HolderIsTracked' /\ LeftoverIsLocal'
  BY DEF TypeOK, CallersKnow, MineDistinct, TrackedIsHeld, HolderIsTracked, LeftoverIsLocal
<1>e. ExpiredIsLapsed'
  BY DEF ExpiredIsLapsed, Expired
<1>g. GrantedOwns' /\ LocalExclusion' /\ OwnsUnlessLapsed'
  BY <1>2 DEF TypeOK, GrantedOwns, LocalExclusion, OwnsUnlessLapsed,
       LeftoverIsLocal, CallersKnow
<1>r. RoundsCount'
  BY DEF TypeOK, RoundsCount
<1> QED
  BY <1>t, <1>c, <1>e, <1>g, <1>r

\* A host that dies takes its callers and its bookkeeping with it and leaves the
\* lease standing.
LEMMA CrashInv ==
  ASSUME Inv, NEW h \in Hosts, Crash(h)
  PROVE  Inv'
<1> USE DEF Inv, Crash
<1>t. TypeOK'
  BY DEF TypeOK, Points
<1>c. CallersKnow' /\ MineDistinct' /\ LeftoverIsLocal'
  BY DEF TypeOK, CallersKnow, MineDistinct, LeftoverIsLocal
<1>h. TrackedIsHeld' /\ HolderIsTracked'
  BY DEF TypeOK, TrackedIsHeld, HolderIsTracked
<1>e. ExpiredIsLapsed' /\ GrantedOwns' /\ LocalExclusion' /\ OwnsUnlessLapsed'
  BY DEF TypeOK, ExpiredIsLapsed, Expired, GrantedOwns, LocalExclusion, OwnsUnlessLapsed
<1>r. RoundsCount'
  BY DEF TypeOK, RoundsCount, CallersKnow
<1> QED
  BY <1>t, <1>c, <1>h, <1>e, <1>r

\* A lease that expires by the passing of time is remembered as lapsed.
LEMMA TickInv ==
  ASSUME Inv, Tick
  PROVE  Inv'
<1>0. timer' \in [Hosts -> 0..Period]
  <2>1. timer \in [Hosts -> 0..Period]
    BY DEF Inv, TypeOK
  <2>2. timer' = [h \in Hosts |-> IF timer[h] = Period THEN timer[h] ELSE timer[h] + 1]
    BY DEF Tick, Due
  <2> QED
    BY <2>1, <2>2
<1> USE DEF Inv, Tick, lockVars, callerVars
<1>1. \A d \in Callers : mine[d] # None /\ mine[d] \in lapsed => mine[d] \in lapsed'
  BY DEF TypeOK, Remembered
<1>t. TypeOK'
  <2>1. age' \in 0..Duration /\ lapsed' \subseteq Leases
    BY DEF TypeOK, Expired, Remembered
  <2> QED
    BY <1>0, <2>1 DEF TypeOK
<1>c. /\ CallersKnow' /\ MineDistinct' /\ TrackedIsHeld' /\ HolderIsTracked' /\ LeftoverIsLocal'
      /\ LocalExclusion' /\ RoundsCount'
  BY DEF CallersKnow, MineDistinct, TrackedIsHeld, HolderIsTracked, LeftoverIsLocal,
       LocalExclusion, RoundsCount
<1>e. ExpiredIsLapsed'
  BY <1>1 DEF ExpiredIsLapsed, Expired, Remembered
<1>g. GrantedOwns' /\ OwnsUnlessLapsed'
  BY <1>1 DEF GrantedOwns, OwnsUnlessLapsed, CallersKnow
<1> QED
  BY <1>t, <1>c, <1>e, <1>g

\* A step that changes nothing keeps the invariant.
LEMMA StutterInv == Inv /\ UNCHANGED vars => Inv'
BY DEF Inv, vars, serviceVars, lockVars, workerVars, callerVars, TypeOK, CallersKnow,
     MineDistinct, TrackedIsHeld, HolderIsTracked, LeftoverIsLocal, ExpiredIsLapsed, Expired,
     GrantedOwns, RoundsCount, LocalExclusion, OwnsUnlessLapsed

\* Every step keeps the invariant.
LEMMA NextInv == Inv /\ [Next]_vars => Inv'
<1> SUFFICES ASSUME Inv, Next PROVE Inv'
  BY StutterInv
<1>1. ASSUME NEW c \in Callers, CallerStep(c) PROVE Inv'
  BY <1>1, FastCheckInv, AcquireLeaseInv, RegisterInv, UnregisterInv, ReleaseLeaseInv
  DEF CallerStep
<1>2. ASSUME NEW h \in Hosts, WorkerStep(h) PROVE Inv'
  BY <1>2, StartRoundInv, RenewLandsInv, EndRoundInv, StopWorkerInv DEF WorkerStep
<1>3. ASSUME NEW h \in Hosts, CloseStep(h) \/ Crash(h) PROVE Inv'
  BY <1>3, CloseInv, CloseTableInv, CloseReleaseInv, CrashInv DEF CloseStep
<1> QED
  BY <1>1, <1>2, <1>3, OrphanLandsInv, TickInv DEF Next

\* The bookkeeping of the hosts, what the callers remember and the blob's lease
\* fit together, in every order of acquires, releases, rounds, closes and
\* crashes (locks/azure_blob.py).
THEOREM Invariance == Spec => []Inv
BY InitInv, NextInv, PTL DEF Spec

\* The variables keep their types; the count of failures of a round stays below
\* _MAX_CONSECUTIVE_RENEWAL_FAILURES until the lease is lost.
THEOREM TypeCorrect == Spec => []TypeOK
<1>1. Inv => TypeOK
  BY DEF Inv
<1> QED
  BY <1>1, Invariance, PTL

\* OwnsUnlessLapsed: no release by a race loser, a former holder or another
\* host's close takes the lease of a holder.
THEOREM HolderOwnsLease == Spec => []OwnsUnlessLapsed
<1>1. Inv => OwnsUnlessLapsed
  BY DEF Inv
<1> QED
  BY <1>1, Invariance, PTL

\* ClosedHoldsNothing: nothing enters the table close() has emptied, although
\* acquire may be in flight.
THEOREM ClosedStaysEmpty == Spec => []ClosedHoldsNothing
<1>1. Inv => ClosedHoldsNothing
  BY DEF Inv, TrackedIsHeld, ClosedHoldsNothing
<1> QED
  BY <1>1, Invariance, PTL

\* GuardNamesHolder: a guard never passes for an execution that has released.
THEOREM GuardIsOfHolder == Spec => []GuardNamesHolder
<1>1. Inv => GuardNamesHolder
  BY DEF Inv, TrackedIsHeld, MineDistinct, GuardNamesHolder, GuardPasses
<1> QED
  BY <1>1, Invariance, PTL

--------------------------------------------------------------------------------
\* Hosts keep to their schedule, and a lease lasts more than two waits.
OnTime == Timely /\ ~MayHang /\ 2 * Period < Duration

\* Nothing of host h or of its worker changes.
SameHost(h) ==
  /\ active'[h] = active[h] /\ lost'[h] = lost[h] /\ fails'[h] = fails[h]
  /\ closed'[h] = closed[h] /\ worker'[h] = worker[h] /\ target'[h] = target[h]
  /\ reply'[h] = reply[h] /\ timer'[h] = timer[h]

\* The blob keeps its lease, which may be renewed.
Younger == lease' = lease /\ (age' = age \/ age' = 0)

\* What a host relies on stands while the blob's lease is left alone, or is one
\* that the host could not rely on anyhow.
LEMMA HostKept ==
  ASSUME OnTime, TimelyInv, NEW h \in Hosts, SameHost(h),
         Younger \/ Free \/ lease # active[h] \/ closed[h]
  PROVE  RoundsTimely(h)'
<1>1. CASE Younger
  BY <1>1 DEF TimelyInv, Inv, TypeOK, RoundsTimely, OnSchedule, AfterFailures, Renewed, SameHost,
       Younger
<1>2. CASE Free
  <2>1. ~(Renewed(h) /\ ~closed[h])
    BY <1>2 DEF TimelyInv, Inv, RoundsCount, RoundsTimely, Renewed, Free, Expired
  <2>2. ~(active[h] # None /\ ~closed[h] /\ ~lost[h] /\ fails[h] <= 1)
    BY <1>2 DEF OnTime, TimelyInv, Inv, TypeOK, RoundsTimely, OnSchedule, AfterFailures, Free,
         Expired
  <2> QED
    BY <2>1, <2>2 DEF TimelyInv, RoundsTimely, Renewed, SameHost
<1>3. CASE lease # active[h] \/ closed[h]
  BY <1>3 DEF TimelyInv, RoundsTimely, OnSchedule, Renewed, SameHost
<1> QED
  BY <1>1, <1>2, <1>3

\* So does what a caller with a lease just granted relies on.
LEMMA GrantKept ==
  ASSUME TimelyInv, NEW c \in Callers,
         pc'[c] = "granted" => pc[c] = "granted" /\ mine'[c] = mine[c],
         Younger \/ Free \/ lease # mine[c]
  PROVE  GrantedFresh(c)'
BY DEF TimelyInv, Inv, CallersKnow, GrantedFresh, Younger, Free, Expired

\* A caller that is not the holder gives back a lease nobody else relies on.
LEMMA OwnLease ==
  ASSUME Inv, NEW c \in Callers, pc[c] # "holding", mine[c] # None
  PROVE  /\ \A h \in Hosts : active[h] # mine[c]
         /\ \A d \in Callers : d # c => mine[d] # mine[c]
BY DEF Inv, TrackedIsHeld, MineDistinct

--------------------------------------------------------------------------------
\* A lease is granted only where no host relies on one, and starts fresh.
LEMMA CallerTimely ==
  ASSUME OnTime, TimelyInv, NEW c \in Callers,
         FastCheck(c) \/ AcquireLease(c) \/ ReleaseLease(c)
  PROVE  /\ \A h \in Hosts : RoundsTimely(h)'
         /\ \A d \in Callers : GrantedFresh(d)'
<1>0. TypeOK /\ Inv
  BY DEF TimelyInv, Inv
<1>1. \A h \in Hosts : SameHost(h)
  BY DEF FastCheck, AcquireLease, ReleaseLease, lockVars, workerVars, SameHost
<1>2. CASE FastCheck(c)
  <2>1. Younger /\ \A d \in Callers : pc'[d] = "granted" => pc[d] = "granted" /\ mine'[d] = mine[d]
    BY <1>0, <1>2 DEF TypeOK, FastCheck, Younger, serviceVars
  <2> QED
    BY <1>1, <2>1, HostKept, GrantKept
<1>3. CASE AcquireLease(c)
  <2>1. CASE pc' = [pc EXCEPT ![c] = "idle"] /\ UNCHANGED <<serviceVars, mine>>
    <3>1. /\ Younger
          /\ \A d \in Callers :
               pc'[d] = "granted" => pc[d] = "granted" /\ mine'[d] = mine[d]
      BY <1>0, <2>1 DEF TypeOK, Younger, serviceVars
    <3> QED
      BY <1>1, <3>1, HostKept, GrantKept
  <2>2. CASE /\ Free
             /\ \E l \in Leases :
               /\ lease' = l /\ age' = 0
               /\ \/ /\ pc' = [pc EXCEPT ![c] = "granted"]
                     /\ mine' = [mine EXCEPT ![c] = l]
                  \/ /\ pc' = [pc EXCEPT ![c] = "idle"]
                     /\ UNCHANGED mine
    <3>1. GrantedFresh(c)'
      BY <1>0, <2>2 DEF TypeOK, GrantedFresh
    <3>2. \A d \in Callers \ {c} : pc'[d] = pc[d] /\ mine'[d] = mine[d]
      BY <1>0, <2>2 DEF TypeOK
    <3> QED
      BY <1>1, <2>2, <3>1, <3>2, HostKept, GrantKept
  <2> QED
    BY <1>3, <2>1, <2>2 DEF AcquireLease
<1>4. CASE ReleaseLease(c)
  <2>1. /\ pc[c] # "holding" /\ mine[c] # None
        /\ \A d \in Callers : /\ pc'[d] = "granted" => pc[d] = "granted" /\ d # c
                              /\ mine'[d] = mine[d]
    BY <1>0, <1>4 DEF ReleaseLease, Inv, TypeOK, CallersKnow
  <2>2. Younger \/ lease = mine[c]
    BY <1>0, <1>4, RelinquishEffect DEF ReleaseLease, Younger
  <2>3. \A d \in Callers : GrantedFresh(d)'
    BY <1>0, <2>1, <2>2, OwnLease, GrantKept DEF GrantedFresh
  <2> QED
    BY <1>0, <1>1, <2>1, <2>2, <2>3, OwnLease, HostKept
<1> QED
  BY <1>2, <1>3, <1>4

\* A lease is registered at the time it was granted.
LEMMA RegisterTimely ==
  ASSUME OnTime, TimelyInv, NEW c \in Callers, Register(c)
  PROVE  /\ \A h \in Hosts : RoundsTimely(h)'
         /\ \A d \in Callers : GrantedFresh(d)'
<1> DEFINE h == HostOf[c]
<1>0. TypeOK /\ Inv
  BY DEF TimelyInv, Inv
<1>1. /\ pc[c] = "granted" /\ mine[c] # None /\ h \in Hosts
      /\ \A d \in Callers : /\ pc'[d] = "granted" => pc[d] = "granted" /\ d # c
                            /\ mine'[d] = mine[d]
      /\ UNCHANGED <<closed, leftover, cleared, workerVars, mine>>
  BY <1>0 DEF Register, Inv, TypeOK, CallersKnow
<1>2. CASE Relinquish(mine[c]) /\ UNCHANGED <<active, lost, fails>>
  <2>1. \A k \in Hosts : SameHost(k)
    BY <1>1, <1>2 DEF SameHost, workerVars
  <2>2. Younger \/ lease = mine[c]
    BY <1>0, <1>2, RelinquishEffect DEF Younger
  <2>3. \A d \in Callers : GrantedFresh(d)'
    BY <1>0, <1>1, <2>2, OwnLease, GrantKept DEF GrantedFresh
  <2> QED
    BY <1>0, <1>1, <2>1, <2>2, <2>3, OwnLease, HostKept
<1>3. CASE /\ active[h] = None /\ ~closed[h]
           /\ active' = [active EXCEPT ![h] = mine[c]]
           /\ lost' = [lost EXCEPT ![h] = FALSE]
           /\ fails' = [fails EXCEPT ![h] = 0]
           /\ UNCHANGED serviceVars
  <2>1. Younger /\ \A k \in Hosts \ {h} : SameHost(k)
    BY <1>0, <1>1, <1>3 DEF SameHost, workerVars, Younger, serviceVars, TypeOK
  <2>2. RoundsTimely(h)'
    <3>1. mine[c] # target[h] /\ lease = mine[c] /\ age = 0
      BY <1>0, <1>1 DEF Inv, RoundsCount, TimelyInv, GrantedFresh
    <3>2. active'[h] = mine[c] /\ fails'[h] = 0 /\ lease' = lease /\ age' = age
      BY <1>0, <1>1, <1>3 DEF TypeOK, serviceVars
    <3>3. UNCHANGED <<closed, worker, target, reply, timer>>
      BY <1>1 DEF workerVars
    <3>4. RoundsTimely(h)
      BY <1>1 DEF TimelyInv
    <3> QED
      BY <1>0, <1>1, <3>1, <3>2, <3>3, <3>4 DEF RoundsTimely, OnSchedule, AfterFailures,
           Renewed, TypeOK
  <2> QED
    BY <1>1, <2>1, <2>2, HostKept, GrantKept
<1> QED
  BY <1>2, <1>3 DEF Register

\* A host that tracks no lease relies on none.
LEMMA UnregisterTimely ==
  ASSUME OnTime, TimelyInv, NEW c \in Callers, Unregister(c)
  PROVE  /\ \A h \in Hosts : RoundsTimely(h)'
         /\ \A d \in Callers : GrantedFresh(d)'
<1> DEFINE h == HostOf[c]
<1>0. TypeOK /\ Inv
  BY DEF TimelyInv, Inv
<1>1. /\ h \in Hosts /\ UNCHANGED <<serviceVars, lost, fails, closed, workerVars, mine>>
      /\ \A d \in Callers : pc'[d] = "granted" => pc[d] = "granted"
      /\ active' = active \/ active' = [active EXCEPT ![h] = None]
  BY <1>0 DEF Unregister, TypeOK
<1>2. Younger /\ \A k \in Hosts \ {h} : SameHost(k)
  BY <1>0, <1>1 DEF Younger, serviceVars, workerVars, SameHost, TypeOK
<1>3. CASE active' = active
  BY <1>1, <1>2, <1>3, HostKept, GrantKept DEF SameHost, workerVars
<1>4. CASE active' = [active EXCEPT ![h] = None]
  <2>1. RoundsTimely(h)'
    BY <1>0, <1>1, <1>4 DEF TimelyInv, RoundsTimely, Renewed, Inv, RoundsCount, TypeOK, workerVars
  <2> QED
    BY <1>1, <1>2, <2>1, HostKept, GrantKept
<1> QED
  BY <1>1, <1>3, <1>4

--------------------------------------------------------------------------------
\* A round begins after one wait, and ends at once: it leaves at most one wait of
\* age per failure.
LEMMA RoundTimely ==
  ASSUME OnTime, TimelyInv, NEW h \in Hosts, StartRound(h) \/ RenewLands(h) \/ EndRound(h)
  PROVE  RoundsTimely(h)'
<1>0. TypeOK /\ Inv /\ RoundsTimely(h) /\ (worker[h] = "renewing" => target[h] # None)
  BY DEF TimelyInv, Inv, RoundsCount
<1>1. CASE StartRound(h)
  BY <1>0, <1>1 DEF StartRound, Renewable, Due, TypeOK, RoundsTimely, OnSchedule, AfterFailures,
       Renewed, serviceVars, lockVars
<1>2. CASE RenewLands(h)
  BY <1>0, <1>2 DEF RenewLands, TypeOK, RoundsTimely, OnSchedule, AfterFailures, Renewed, lockVars
<1>3. CASE EndRound(h)
  <2>1. /\ worker[h] = "renewing" /\ reply[h] \in {"renewed", "transient", "gone"}
        /\ worker'[h] = "waiting" /\ timer'[h] = 0 /\ Account(h, reply[h])
        /\ UNCHANGED <<lease, age, active, closed>>
    BY <1>0, <1>3 DEF EndRound, OnTime, TypeOK
  <2>2. CASE active[h] # target[h]
    BY <1>0, <2>1, <2>2 DEF Account, TypeOK, RoundsTimely, OnSchedule, AfterFailures, Renewed
  <2>3. CASE active[h] = target[h] /\ reply[h] = "renewed"
    BY <1>0, <2>1, <2>3 DEF Account, TypeOK, RoundsTimely, OnSchedule, AfterFailures, Renewed
  <2>4. CASE active[h] = target[h] /\ reply[h] = "gone"
    BY <1>0, <2>1, <2>4 DEF Account, TypeOK, RoundsTimely, OnSchedule, AfterFailures, Renewed
  <2>5. CASE active[h] = target[h] /\ reply[h] = "transient"
    <3>1. ~lost[h]
      BY <1>0, <2>1, <2>5 DEF Inv, RoundsCount
    <3>2. fails'[h] = fails[h] + 1
      BY <1>0, <2>1, <2>5 DEF Account, TypeOK
    <3> QED
      BY <1>0, <2>1, <2>5, <3>1, <3>2 DEF TypeOK, RoundsTimely, OnSchedule, AfterFailures, Renewed
  <2> QED
    BY <2>1, <2>2, <2>3, <2>4, <2>5
<1> QED
  BY <1>1, <1>2, <1>3

\* The steps of one host, its end included, concern no other.
LEMMA HostTimely ==
  ASSUME OnTime, TimelyInv, NEW h \in Hosts,
         WorkerStep(h) \/ Close(h) \/ CloseTable(h) \/ Crash(h)
  PROVE  /\ \A k \in Hosts : RoundsTimely(k)'
         /\ \A d \in Callers : GrantedFresh(d)'
<1>0. TypeOK /\ Inv /\ RoundsTimely(h)
  BY DEF TimelyInv, Inv
<1>1. Younger
  BY DEF WorkerStep, StartRound, RenewLands, EndRound, StopWorker, Close, CloseTable, Crash,
       serviceVars, Younger
<1>2. \A k \in Hosts \ {h} : SameHost(k)
  <2>1. CASE StartRound(h) \/ RenewLands(h) \/ StopWorker(h)
    BY <1>0, <2>1 DEF TypeOK, StartRound, RenewLands, StopWorker, lockVars, SameHost
  <2>2. CASE EndRound(h)
    BY <1>0, <2>2 DEF TypeOK, EndRound, Account, SameHost
  <2>3. CASE Close(h) \/ CloseTable(h)
    BY <1>0, <2>3 DEF TypeOK, Close, CloseTable, workerVars, SameHost
  <2>4. CASE Crash(h)
    BY <1>0, <2>4 DEF TypeOK, Crash, SameHost
  <2> QED
    BY <2>1, <2>2, <2>3, <2>4 DEF WorkerStep
<1>3. \A d \in Callers : pc'[d] = "granted" => pc[d] = "granted" /\ mine'[d] = mine[d]
  BY DEF WorkerStep, StartRound, RenewLands, EndRound, StopWorker, Close, CloseTable, Crash,
       callerVars
<1>4. RoundsTimely(h)'
  <2>1. CASE StartRound(h) \/ RenewLands(h) \/ EndRound(h)
    BY <2>1, RoundTimely
  <2>2. CASE StopWorker(h)
    BY <1>0, <2>2 DEF StopWorker, TypeOK, RoundsTimely, Renewed, lockVars
  <2>3. CASE Close(h) \/ CloseTable(h)
    <3>1. closed'[h] /\ UNCHANGED <<worker, timer>>
      BY <1>0, <2>3 DEF Close, CloseTable, TypeOK, workerVars
    <3> QED
      BY <1>0, <3>1 DEF RoundsTimely
  <2>4. CASE Crash(h)
    BY <1>0, <2>4 DEF Crash, TypeOK, RoundsTimely, Renewed
  <2> QED
    BY <2>1, <2>2, <2>3, <2>4 DEF WorkerStep
<1> QED
  BY <1>1, <1>2, <1>3, <1>4, HostKept, GrantKept

\* What close() releases is of its own host, which relies on nothing any more.
LEMMA CloseReleaseTimely ==
  ASSUME OnTime, TimelyInv, NEW h \in Hosts, CloseRelease(h)
  PROVE  /\ \A k \in Hosts : RoundsTimely(k)'
         /\ \A d \in Callers : GrantedFresh(d)'
<1>0. TypeOK /\ Inv
  BY DEF TimelyInv, Inv
<1>1. /\ leftover[h] # None /\ closed[h]
      /\ UNCHANGED <<active, lost, fails, closed, workerVars, callerVars>>
  BY <1>0 DEF CloseRelease, Inv, TrackedIsHeld
<1>2. Younger \/ lease = leftover[h]
  BY <1>0, RelinquishEffect DEF CloseRelease, Younger
<1>3. \A k \in Hosts : SameHost(k)
  BY <1>1 DEF SameHost, workerVars
<1>4. \A k \in Hosts : closed[k] \/ active[k] # leftover[h]
  BY <1>0, <1>1 DEF Inv, TrackedIsHeld, LeftoverIsLocal
<1>5. \A d \in Callers : pc[d] = "granted" => mine[d] # leftover[h]
  BY <1>0, <1>1 DEF Inv, LeftoverIsLocal
<1>6. \A d \in Callers : GrantedFresh(d)'
  BY <1>1, <1>2, <1>5, GrantKept DEF callerVars, GrantedFresh
<1> QED
  BY <1>2, <1>3, <1>4, <1>6, HostKept

\* Time passes while every worker waits, with time to go.
LEMMA TickTimely ==
  ASSUME OnTime, TimelyInv, Tick
  PROVE  /\ \A h \in Hosts : RoundsTimely(h)'
         /\ \A c \in Callers : GrantedFresh(c)'
<1>1. \A c \in Callers : GrantedFresh(c)'
  BY DEF OnTime, Tick, GrantedFresh, callerVars
<1>2. ASSUME NEW h \in Hosts PROVE RoundsTimely(h)'
  <2>1. /\ TypeOK /\ RoundsTimely(h)
        /\ \/ worker[h] = "waiting" /\ timer'[h] = timer[h] + 1
           \/ worker[h] = "stopped"
    BY DEF TimelyInv, Inv, OnTime, Tick, Punctual, Due
  <2>2. age' = age \/ age' = age + 1
    BY DEF Tick
  <2>3. UNCHANGED <<lease, active, lost, fails, closed, worker, target, reply>>
    BY DEF Tick, lockVars
  <2> QED
    BY <2>1, <2>2, <2>3 DEF TypeOK, RoundsTimely, OnSchedule, AfterFailures, Renewed
<1> QED
  BY <1>1, <1>2

\* Every step leaves the rounds on schedule.
LEMMA TimelyNext == ASSUME OnTime, TimelyInv, [Next]_vars PROVE TimelyInv'
<1>0. Inv'
  BY NextInv DEF TimelyInv
<1>1. ASSUME Younger, \A h \in Hosts : SameHost(h), UNCHANGED callerVars
      PROVE  TimelyInv'
  BY <1>0, <1>1, HostKept, GrantKept DEF TimelyInv, callerVars
<1>2. ASSUME NEW l \in Leases, OrphanLands(l) PROVE TimelyInv'
  BY <1>1, <1>2 DEF OrphanLands, Younger, SameHost, lockVars
<1>3. CASE UNCHANGED vars
  BY <1>1, <1>3 DEF vars, serviceVars, lockVars, workerVars, Younger, SameHost
<1>4. ASSUME NEW c \in Callers, CallerStep(c) PROVE TimelyInv'
  BY <1>0, <1>4, CallerTimely, RegisterTimely, UnregisterTimely DEF CallerStep, TimelyInv
<1>5. ASSUME NEW h \in Hosts, WorkerStep(h) \/ CloseStep(h) \/ Crash(h) PROVE TimelyInv'
  BY <1>0, <1>5, HostTimely, CloseReleaseTimely DEF CloseStep, TimelyInv
<1>6. CASE Tick
  BY <1>0, <1>6, TickTimely DEF TimelyInv
<1> QED
  BY <1>2, <1>3, <1>4, <1>5, <1>6 DEF Next

\* Nothing is renewed yet.
LEMMA TimelyInit == Init => TimelyInv
BY InitInv DEF Init, TimelyInv, RoundsTimely, Renewed, GrantedFresh

\* Within a round of one failure a timely renewal finds the lease alive.
LEMMA SurvivedInv == ASSUME OnTime PROVE TimelyInv => FailureIsSurvived
<1> SUFFICES ASSUME TimelyInv, NEW h \in Hosts, active[h] # None, ~closed[h], ~lost[h],
                    ~(fails[h] > 1)
             PROVE  lease = active[h] /\ ~Expired
  BY DEF FailureIsSurvived
<1>1. TypeOK /\ RoundsTimely(h) /\ fails[h] <= 1
  BY DEF TimelyInv, Inv, TypeOK
<1> QED
  BY <1>1 DEF OnTime, RoundsTimely, OnSchedule, AfterFailures, TypeOK, Expired

\* FailureIsSurvived: on hosts that keep to their schedule, with renewal calls
\* that are answered, one failed renewal leaves the lease alive for the next
\* round. The code's interval is a third of the lease, and any interval under a
\* half would do (_LEASE_RENEWAL_FRACTION, _handle_renew_failure).
THEOREM FailureSurvived ==
  ASSUME Timely, ~MayHang, 2 * Period < Duration
  PROVE  Spec => []FailureIsSurvived
<1>1. OnTime
  BY DEF OnTime
<1>2. TimelyInv /\ [Next]_vars => TimelyInv'
  BY <1>1, TimelyNext
<1> QED
  BY <1>1, <1>2, TimelyInit, SurvivedInv, PTL DEF Spec

\* OneFailureIsSurvived: the same of the behaviours that the run checks, whose
\* other half are hosts that stall.
THEOREM OneIsSurvived ==
  ASSUME Timely, ~MayHang, 2 * Period < Duration
  PROVE  LeaseSpec => []OneFailureIsSurvived
<1>1. OnTime
  BY DEF OnTime
<1>2. LeaseInit => (timely => TimelyInv)
  BY TimelyInit DEF LeaseInit
<1>3. (timely => TimelyInv) /\ [LeaseNext]_<<timely, vars>> => (timely => TimelyInv)'
  BY <1>1, TimelyNext DEF LeaseNext
<1>4. (timely => TimelyInv) => OneFailureIsSurvived
  BY <1>1, SurvivedInv DEF OneFailureIsSurvived
<1> QED
  BY <1>2, <1>3, <1>4, PTL DEF LeaseSpec

--------------------------------------------------------------------------------
\* What RunLock allows, and what it sees of this module.
PromiseStep == Promise!Next \/ Promise!AtOnce

barVars == <<holdersBar, lapsedBar, reportedBar>>

\* The lock of caller c is no longer its own, whether it knows it or not.
Lapsed(c) == mine[c] \in lapsed \/ closed[HostOf[c]]

\* A step that moves no caller in or out of holding, ends no lock and turns no
\* guard is none for RunLock.
LEMMA BarsKept ==
  ASSUME \A d \in Callers :
           /\ pc'[d] = "holding" <=> pc[d] = "holding"
           /\ pc[d] = "holding" =>
                /\ Lapsed(d)' <=> Lapsed(d)
                /\ GuardPasses(d)' <=> GuardPasses(d)
  PROVE  UNCHANGED barVars
BY DEF barVars, holdersBar, lapsedBar, reportedBar, Lapsed

\* Asking, being granted a lease and giving one back are no steps of RunLock.
LEMMA CallerRefines ==
  ASSUME Inv, NEW c \in Callers, FastCheck(c) \/ AcquireLease(c) \/ ReleaseLease(c)
  PROVE  UNCHANGED barVars
<1>1. CASE FastCheck(c)
  BY <1>1, BarsKept DEF Inv, TypeOK, FastCheck, serviceVars, lockVars, Lapsed, GuardPasses
<1>2. CASE AcquireLease(c)
  <2>1. \A d \in Callers : pc[d] = "holding" =>
          mine[d] # None /\ mine'[d] = mine[d] /\ (mine[d] \in lapsed' <=> mine[d] \in lapsed)
    <3>1. CASE UNCHANGED <<serviceVars, mine>>
      BY <1>2, <3>1 DEF Inv, CallersKnow, serviceVars
    <3>2. CASE \E l \in Leases :
             /\ FreshLease(l)
             /\ lapsed' = Remembered(lapsed \ {l})
             /\ \/ mine' = [mine EXCEPT ![c] = l]
                \/ UNCHANGED mine
      BY <1>2, <3>2 DEF Inv, TypeOK, CallersKnow, AcquireLease, FreshLease, Remembered
    <3> QED
      BY <1>2, <3>1, <3>2 DEF AcquireLease
  <2>2. \A d \in Callers : pc'[d] = "holding" <=> pc[d] = "holding"
    BY <1>2 DEF Inv, TypeOK, AcquireLease
  <2> QED
    BY <1>2, <2>1, <2>2, BarsKept DEF AcquireLease, lockVars, Lapsed, GuardPasses
<1>3. CASE ReleaseLease(c)
  BY <1>3, BarsKept DEF Inv, TypeOK, ReleaseLease, Relinquish, serviceVars,
       lockVars, Lapsed, GuardPasses
<1> QED
  BY <1>1, <1>2, <1>3

\* Registering a lease is Acquire: the holders of other hosts have lapsed if the
\* lease is still the blob's, and otherwise this lock is lost already.
LEMMA RegisterRefines ==
  ASSUME Inv, NEW c \in Callers, Register(c)
  PROVE  Promise!Next \/ UNCHANGED barVars
<1> DEFINE h == HostOf[c]
<1>0. /\ pc[c] = "granted" /\ mine[c] # None /\ h \in Hosts
      /\ UNCHANGED <<closed, leftover, cleared, workerVars, mine>>
  BY DEF Register, Inv, CallersKnow
<1>1. CASE /\ Relinquish(mine[c])
           /\ pc' = [pc EXCEPT ![c] = "idle"]
           /\ UNCHANGED <<active, lost, fails>>
  BY <1>0, <1>1, BarsKept DEF Inv, TypeOK, Relinquish, serviceVars, Lapsed, GuardPasses
<1>2. CASE /\ active[h] = None /\ ~closed[h]
           /\ active' = [active EXCEPT ![h] = mine[c]]
           /\ lost' = [lost EXCEPT ![h] = FALSE]
           /\ fails' = [fails EXCEPT ![h] = 0]
           /\ pc' = [pc EXCEPT ![c] = "holding"]
           /\ UNCHANGED serviceVars
  <2>1. \A d \in Callers : pc[d] = "holding" => HostOf[d] # h
    BY <1>0, <1>2 DEF Inv, TrackedIsHeld, HolderIsTracked, CallersKnow
  <2>2. holdersBar' = holdersBar \cup {c} /\ c \notin holdersBar
    BY <1>0, <1>2 DEF Inv, TypeOK, holdersBar
  <2>3. reportedBar' = reportedBar
    <3>1. GuardPasses(c)'
      BY <1>0, <1>2 DEF Inv, TypeOK, GuardPasses
    <3>2. \A d \in Callers : pc[d] = "holding" => (GuardPasses(d)' <=> GuardPasses(d))
      BY <1>0, <1>2, <2>1 DEF Inv, TypeOK, GuardPasses
    <3> QED
      BY <2>2, <3>1, <3>2 DEF holdersBar, reportedBar
  <2>4. CASE mine[c] \in lapsed
    <3>1. lapsedBar' = lapsedBar \cup {c}
      BY <1>0, <1>2, <2>2, <2>4 DEF holdersBar, lapsedBar, serviceVars
    <3> QED
      BY <2>1, <2>2, <2>3, <3>1 DEF Promise!Next, Promise!Acquire, holdersBar
  <2>5. CASE mine[c] \notin lapsed
    <3>1. lapsedBar' = lapsedBar
      BY <1>0, <1>2, <2>2, <2>5 DEF holdersBar, lapsedBar, serviceVars
    <3>2. lease = mine[c]
      BY <1>0, <2>5 DEF Inv, GrantedOwns
    <3>3. \A d \in Callers : pc[d] = "holding" => mine[d] # mine[c]
      BY <1>0 DEF Inv, MineDistinct
    <3>4. holdersBar \subseteq lapsedBar
      BY <3>2, <3>3 DEF Inv, OwnsUnlessLapsed, holdersBar, lapsedBar
    <3> QED
      BY <2>1, <2>2, <2>3, <3>1, <3>4 DEF Promise!Next, Promise!Acquire, holdersBar
  <2> QED
    BY <2>4, <2>5
<1> QED
  BY <1>1, <1>2 DEF Register

\* The release of a holder is Release; a late one, or a second one, is no step.
LEMMA UnregisterRefines ==
  ASSUME Inv, NEW c \in Callers, Unregister(c)
  PROVE  Promise!Next \/ UNCHANGED barVars
<1> DEFINE h == HostOf[c]
<1>0. /\ mine[c] # None /\ h \in Hosts /\ pc' = [pc EXCEPT ![c] = pc'[c]] /\ pc'[c] # "holding"
      /\ UNCHANGED <<serviceVars, lost, fails, closed, leftover, cleared, workerVars, mine>>
      /\ \/ active' = active
         \/ active' = [active EXCEPT ![h] = None] /\ active[h] = mine[c]
  BY DEF Unregister, Inv, TypeOK
<1>1. \A d \in Callers : d # c /\ pc[d] = "holding" => (GuardPasses(d)' <=> GuardPasses(d))
  BY <1>0 DEF Inv, TypeOK, MineDistinct, GuardPasses
<1>2. CASE pc[c] = "holding"
  <2>1. holdersBar' = holdersBar \ {c} /\ c \in holdersBar
    BY <1>0, <1>2 DEF Inv, TypeOK, holdersBar
  <2>2. lapsedBar' = lapsedBar \ {c}
    BY <1>0, <2>1 DEF holdersBar, lapsedBar, serviceVars
  <2>3. reportedBar' = reportedBar \ {c}
    BY <1>1, <2>1 DEF holdersBar, reportedBar
  <2> QED
    BY <2>1, <2>2, <2>3 DEF Promise!Next, Promise!Release
<1>3. CASE pc[c] # "holding"
  BY <1>0, <1>1, <1>3, BarsKept DEF Inv, TypeOK, Lapsed, serviceVars
<1> QED
  BY <1>2, <1>3

\* A round that finds the lease lost is Report, for the one holder of the host.
LEMMA EndRoundRefines ==
  ASSUME Inv, NEW h \in Hosts, EndRound(h)
  PROVE  Promise!Next \/ UNCHANGED barVars
<1>0. UNCHANGED <<lapsed, active, closed, pc, mine>>
  BY DEF EndRound, callerVars
<1>1. \/ UNCHANGED lost
      \/ active[h] # None /\ ~lost[h] /\ \E b \in BOOLEAN : lost' = [lost EXCEPT ![h] = b]
  <2>1. active[h] = target[h] => active[h] # None /\ ~lost[h]
    BY DEF EndRound, Inv, RoundsCount
  <2>2. PICK r \in {"renewed", "transient", "gone"} : Account(h, r)
    BY DEF EndRound, Inv, TypeOK
  <2>3. CASE active[h] # target[h] \/ r = "renewed"
    BY <2>2, <2>3 DEF Account
  <2>4. CASE active[h] = target[h] /\ r = "gone"
    BY <2>1, <2>2, <2>4 DEF Account
  <2>5. CASE active[h] = target[h] /\ r = "transient"
    <3> DEFINE b == fails[h] + 1 >= MaxFailures
    <3>1. b \in BOOLEAN /\ lost' = [lost EXCEPT ![h] = b]
      BY <2>2, <2>5 DEF Account
    <3> HIDE DEF b
    <3> QED
      BY <2>1, <2>5, <3>1
  <2> QED
    BY <2>2, <2>3, <2>4, <2>5
<1>2. CASE UNCHANGED lost
  BY <1>0, <1>2, BarsKept DEF Lapsed, GuardPasses
<1>3. CASE active[h] # None /\ ~lost[h] /\ \E b \in BOOLEAN : lost' = [lost EXCEPT ![h] = b]
  <2>1. PICK c \in Callers : pc[c] = "holding" /\ HostOf[c] = h /\ mine[c] = active[h]
    BY <1>3 DEF Inv, TrackedIsHeld
  <2>2. \A d \in Callers : pc[d] = "holding" /\ d # c => (GuardPasses(d)' <=> GuardPasses(d))
    BY <1>0, <1>3, <2>1 DEF Inv, TypeOK, LocalExclusion, GuardPasses
  <2>3. GuardPasses(c)' => GuardPasses(c)
    BY <1>0, <1>3, <2>1 DEF Inv, TypeOK, GuardPasses
  <2>4. CASE GuardPasses(c)' <=> GuardPasses(c)
    BY <1>0, <2>2, <2>4, BarsKept DEF Lapsed
  <2>5. CASE GuardPasses(c) /\ ~GuardPasses(c)'
    <3>1. holdersBar' = holdersBar /\ c \in holdersBar
      BY <1>0, <2>1 DEF holdersBar
    <3>2. lapsedBar' = lapsedBar
      BY <1>0 DEF lapsedBar, holdersBar
    <3>3. reportedBar' = reportedBar \cup {c} /\ c \notin reportedBar
      BY <2>2, <2>5, <3>1 DEF reportedBar, holdersBar
    <3> QED
      BY <3>1, <3>2, <3>3 DEF Promise!Next, Promise!Report
  <2> QED
    BY <2>3, <2>4, <2>5
<1> QED
  BY <1>1, <1>2, <1>3

\* The other steps of a round are none of RunLock.
LEMMA WorkerRefines ==
  ASSUME Inv, NEW h \in Hosts, StartRound(h) \/ RenewLands(h) \/ StopWorker(h)
  PROVE  UNCHANGED barVars
BY BarsKept DEF StartRound, RenewLands, StopWorker, serviceVars, lockVars, callerVars,
     Lapsed, GuardPasses

\* A late renewal is no step of RunLock.
LEMMA OrphanRefines ==
  ASSUME Inv, NEW l \in Leases, OrphanLands(l)
  PROVE  UNCHANGED barVars
BY BarsKept DEF OrphanLands, lockVars, callerVars, Lapsed, GuardPasses

\* Closing takes the lock from the host's holder and tells its guard at once.
LEMMA CloseRefines ==
  ASSUME Inv, NEW h \in Hosts, Close(h)
  PROVE  PromiseStep \/ UNCHANGED barVars
<1>0. /\ closed' = [closed EXCEPT ![h] = TRUE]
      /\ UNCHANGED <<lapsed, active, lost, pc, mine>>
  BY DEF Close, serviceVars, callerVars
<1>1. \A d \in Callers : HostOf[d] # h =>
        /\ Lapsed(d)' <=> Lapsed(d)
        /\ GuardPasses(d)' <=> GuardPasses(d)
  BY <1>0 DEF Inv, TypeOK, Lapsed, GuardPasses
<1>2. CASE \E c \in Callers : pc[c] = "holding" /\ HostOf[c] = h
  <2>1. PICK c \in Callers : pc[c] = "holding" /\ HostOf[c] = h
    BY <1>2
  <2>2. \A d \in Callers : pc[d] = "holding" /\ d # c => HostOf[d] # h
    BY <2>1 DEF Inv, LocalExclusion
  <2>3. Lapsed(c)' /\ ~GuardPasses(c)'
    BY <1>0, <2>1 DEF Inv, TypeOK, Lapsed, GuardPasses
  <2>4. holdersBar' = holdersBar /\ c \in holdersBar
    BY <1>0, <2>1 DEF holdersBar
  <2>5. lapsedBar' = lapsedBar \cup {c}
    BY <1>1, <2>2, <2>3, <2>4 DEF lapsedBar, holdersBar, Lapsed
  <2>6. reportedBar' = reportedBar \cup {c}
    BY <1>1, <2>2, <2>3, <2>4 DEF reportedBar, holdersBar
  <2> QED
    BY <2>4, <2>5, <2>6 DEF PromiseStep, Promise!AtOnce, Promise!LapseAndReport
<1>3. CASE \A c \in Callers : pc[c] = "holding" => HostOf[c] # h
  BY <1>0, <1>1, <1>3, BarsKept
<1> QED
  BY <1>2, <1>3

\* What close() does after setting `_closed` is no step: the guard reads that
\* first.
LEMMA CloseTableRefines ==
  ASSUME Inv, NEW h \in Hosts, CloseTable(h) \/ CloseRelease(h)
  PROVE  UNCHANGED barVars
<1>1. CASE CloseTable(h)
  <2>1. /\ closed[h]
        /\ active' = [active EXCEPT ![h] = None]
        /\ UNCHANGED <<lapsed, lost, closed, pc, mine>>
    BY <1>1 DEF CloseTable, serviceVars, callerVars
  <2> QED
    BY <2>1, BarsKept DEF Inv, TypeOK, Lapsed, GuardPasses
<1>2. CASE CloseRelease(h)
  <2>1. UNCHANGED <<lapsed, active, lost, closed, pc, mine>>
    BY <1>2 DEF CloseRelease, Relinquish, serviceVars, callerVars
  <2> QED
    BY <2>1, BarsKept DEF Lapsed, GuardPasses
<1> QED
  BY <1>1, <1>2

\* The holder of a host that dies vanishes.
LEMMA CrashRefines ==
  ASSUME Inv, NEW h \in Hosts, Crash(h)
  PROVE  PromiseStep \/ UNCHANGED barVars
<1>1. \A d \in Callers : HostOf[d] # h =>
        /\ pc'[d] = pc[d]
        /\ Lapsed(d)' <=> Lapsed(d)
        /\ GuardPasses(d)' <=> GuardPasses(d)
  BY DEF Inv, TypeOK, Crash, Lapsed, GuardPasses
<1>2. \A d \in Callers : HostOf[d] = h => pc'[d] = "idle"
  BY DEF Crash
<1>3. holdersBar' = {d \in holdersBar : HostOf[d] # h}
  BY <1>1, <1>2 DEF holdersBar
<1>4. lapsedBar' = lapsedBar \cap holdersBar'
  BY <1>1, <1>3 DEF lapsedBar, holdersBar, Lapsed
<1>5. reportedBar' = reportedBar \cap holdersBar'
  BY <1>1, <1>3 DEF reportedBar, holdersBar
<1>6. CASE holdersBar' # holdersBar
  BY <1>3, <1>4, <1>5, <1>6 DEF PromiseStep, Promise!AtOnce, Promise!Vanish
<1>7. CASE holdersBar' = holdersBar
  <2>1. lapsedBar \subseteq holdersBar /\ reportedBar \subseteq holdersBar
    BY DEF lapsedBar, reportedBar
  <2> QED
    BY <1>4, <1>5, <1>7, <2>1 DEF barVars
<1> QED
  BY <1>6, <1>7

\* The expiry of a lease is Lapse, for the one holder that remembers it.
LEMMA TickRefines ==
  ASSUME Inv, Tick
  PROVE  Promise!Next \/ UNCHANGED barVars
<1>0. UNCHANGED <<active, lost, closed, pc, mine>>
  BY DEF Tick, lockVars, callerVars
<1>1. \A d \in Callers : pc[d] = "holding" => (GuardPasses(d)' <=> GuardPasses(d))
  BY <1>0 DEF GuardPasses
<1>2. \A d \in Callers : mine[d] \in lapsed' <=>
        \/ mine[d] \in lapsed
        \/ lapsed' # lapsed /\ mine[d] = lease
  BY DEF Tick, Remembered
<1>3. CASE \E c \in Callers : pc[c] = "holding" /\ ~Lapsed(c) /\ Lapsed(c)'
  <2>1. PICK c \in Callers : pc[c] = "holding" /\ ~Lapsed(c) /\ Lapsed(c)'
    BY <1>3
  <2>2. mine[c] = lease /\ mine[c] # None
    BY <1>0, <1>2, <2>1 DEF Lapsed, Inv, CallersKnow
  <2>3. \A d \in Callers : d # c => (Lapsed(d)' <=> Lapsed(d))
    BY <1>0, <1>2, <2>2 DEF Lapsed, Inv, MineDistinct
  <2>4. holdersBar' = holdersBar /\ reportedBar' = reportedBar
    BY <1>0, <1>1 DEF holdersBar, reportedBar
  <2>5. lapsedBar' = lapsedBar \cup {c} /\ c \in holdersBar \ lapsedBar
    BY <2>1, <2>3, <2>4 DEF lapsedBar, holdersBar, Lapsed
  <2> QED
    BY <2>4, <2>5 DEF Promise!Next, Promise!Lapse, holdersBar
<1>4. CASE \A c \in Callers : pc[c] = "holding" => (Lapsed(c)' <=> Lapsed(c))
  BY <1>0, <1>1, <1>4, BarsKept
<1>5. \A c \in Callers : Lapsed(c) => Lapsed(c)'
  BY <1>0, <1>2 DEF Lapsed
<1> QED
  BY <1>3, <1>4, <1>5

\* Every step is one of RunLock or none.
LEMMA NextRefines ==
  ASSUME Inv, [Next]_vars
  PROVE  [PromiseStep]_barVars
<1>1. ASSUME NEW c \in Callers, CallerStep(c) PROVE PromiseStep \/ UNCHANGED barVars
  BY <1>1, CallerRefines, RegisterRefines, UnregisterRefines DEF CallerStep, PromiseStep
<1>2. ASSUME NEW h \in Hosts, WorkerStep(h) PROVE PromiseStep \/ UNCHANGED barVars
  BY <1>2, WorkerRefines, EndRoundRefines DEF WorkerStep, PromiseStep
<1>3. ASSUME NEW h \in Hosts, CloseStep(h) \/ Crash(h) PROVE PromiseStep \/ UNCHANGED barVars
  BY <1>3, CloseRefines, CloseTableRefines, CrashRefines DEF CloseStep
<1>4. CASE UNCHANGED vars
  BY <1>4, BarsKept DEF vars, serviceVars, lockVars, callerVars, Lapsed, GuardPasses
<1> QED
  BY <1>1, <1>2, <1>3, <1>4, OrphanRefines, TickRefines DEF Next, PromiseStep

\* ImplementsRunLock: the Blob lease lock is a RunLock. What is proved of the
\* users of a RunLock holds of them over this lock, with every lease that
\* expires, every close and every crash (locks/base.py, locks/guard.py).
THEOREM Refinement == Spec => ImplementsRunLock
<1>1. Init => Promise!Init
  BY DEF Init, Promise!Init, holdersBar, lapsedBar, reportedBar
<1>2. Inv /\ [Next]_vars =>
        [Promise!Next \/ Promise!AtOnce]_(Promise!runLockVars)
  BY NextRefines DEF PromiseStep, barVars, Promise!runLockVars
<1> QED
  BY <1>1, <1>2, Invariance, PTL DEF Spec, ImplementsRunLock, Promise!Spec
===============================================================================
