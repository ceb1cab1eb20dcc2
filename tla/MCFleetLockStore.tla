------------------------- MODULE MCFleetLockStore -------------------------
(* Instances of FleetLockStore for TLC. *)
EXTENDS FleetLockStore, TLC

CONSTANTS main, beat, rival, mac, cluster, m, r, fleet, den

\* A qualification (its main thread and its heartbeat thread, one holder and
\* one clone) and a rival on another controller.
ThreeHolderOf == main :> mac @@ beat :> mac @@ rival :> cluster
ThreeCloneOf  == main :> m @@ beat :> m @@ rival :> r

\* The two threads of a qualification are interchangeable.
Threads == Permutations({main, beat})

\* Two holders on one controller.
SharedHolderOf == main :> mac @@ rival :> cluster
SharedCloneOf  == main :> m @@ rival :> m
=============================================================================
