------------------------ MODULE MCBlobLeaseThreadLock ------------------------
(***************************************************************************)
(* Model checking of the Blob lease lock. The first state of a behaviour   *)
(* says whether its hosts keep to their schedule: timely ones have the     *)
(* constants of the configuration, in the proportions the code has by      *)
(* default (a lease of three renewal intervals, an interval between        *)
(* rounds); the others may stall, their calls may hang, and one is closed. *)
(***************************************************************************)
EXTENDS BlobLeaseThreadLock, TLC

CONSTANTS h1, h2, c1, c2, c3

MCHostOf == (c1 :> h1) @@ (c2 :> h1) @@ (c3 :> h2)

\* c1 and c2 run in the same host.
Symmetry == Permutations(Leases) \cup Permutations({c1, c2})

VARIABLE timely

S == INSTANCE BlobLeaseThreadLock
       WITH Duration <- 1, Period <- 0, MaxFailures <- 2, Timely <- FALSE,
            MayHang <- TRUE, Closing <- {h1}

LeaseInit == \/ timely = TRUE /\ Init
             \/ timely = FALSE /\ S!Init

LeaseNext == /\ UNCHANGED timely
             /\ \/ timely /\ Next
                \/ ~timely /\ S!Next

LeaseSpec == LeaseInit /\ [][LeaseNext]_<<timely, vars>>

\* See BlobLeaseThreadLock: the next round can save the lease after a failure.
OneFailureIsSurvived == timely => FailureIsSurvived
==============================================================================
