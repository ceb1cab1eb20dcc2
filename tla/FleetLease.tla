---------------------------- MODULE FleetLease ----------------------------
(***************************************************************************)
(* What the fleet lock promises, without git: every segment of the fleet   *)
(* has one lease, and a lease passes to another holder only after it was   *)
(* released, was broken by force, or ran out.  Module FleetLockStore, the  *)
(* git compare-and-swap store of fleet_lock.py, is shown to implement this *)
(* specification.                                                          *)
(***************************************************************************)
EXTENDS Integers

CONSTANTS
    Holders,    \* lease identities (FleetLock.holder of each controller)
    NoHolder,   \* the holder of a free segment
    Segments,   \* named fleet segments, one lock file each
    Ttls        \* lease durations that callers ask for

VARIABLES
    clock,      \* wall clock, in the unit of Ttls
    lease       \* lease[s]: who holds segment s and until when

vars == <<clock, lease>>

FreeLease == [holder |-> NoHolder, expires |-> 0]

Init ==
    /\ clock = 0
    /\ lease = [s \in Segments |-> FreeLease]

Tick ==
    /\ clock' = clock + 1
    /\ UNCHANGED lease

\* Another holder's lease that has not run out.
HeldByAnother(h, s) ==
    /\ lease[s].holder \notin {h, NoHolder}
    /\ clock < lease[s].expires

\* acquire or extend: the expiry is counted from an instant t at which the
\* caller decided, at or before the instant the lease takes effect.
Claim(h, s) ==
    /\ ~HeldByAnother(h, s)
    /\ \E t \in 0..clock, ttl \in Ttls :
          lease' = [lease EXCEPT ![s] = [holder |-> h, expires |-> t + ttl]]
    /\ UNCHANGED clock

\* release by the holder, or release --force by anybody.
Vacate(s) ==
    /\ lease' = [lease EXCEPT ![s] = FreeLease]
    /\ UNCHANGED clock

Next ==
    \/ Tick
    \/ \E s \in Segments :
          \/ Vacate(s)
          \/ \E h \in Holders : Claim(h, s)

Spec == Init /\ [][Next]_vars
=============================================================================
