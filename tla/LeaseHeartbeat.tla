-------------------------- MODULE LeaseHeartbeat --------------------------
(***************************************************************************)
(* The lease of a long qualification: the main thread that verifies the    *)
(* acquired lease, works, and at the end stops the heartbeat and releases  *)
(* the lease or extends it for an operator; and the daemon thread that     *)
(* renews it (src/src/skulk_test_harness/lease_heartbeat.py, with the      *)
(* release boundary of _qualify_physical_fleet in fresh_install.py, for a  *)
(* leg that owns its lease).                                               *)
(*                                                                         *)
(* A call of the lease store holds the controller's file lock from the     *)
(* moment it gets it until it returns; within it the store acts once (see  *)
(* FleetLockStore, which proves that such a call is atomic at the remote). *)
(* Another process of the controller may hold the file lock, too.          *)
(* Other agents may take the lease when it has run out, or break it.       *)
(***************************************************************************)
EXTENDS Integers

CONSTANTS
    LeaseTtl,       \* lease_ttl_s
    Interval,       \* resolved_lease_heartbeat_s
    EmergencyTtl,   \* emergency_lease_ttl_s
    MaxCall,        \* longest store call once it has the file lock
    JoinTimeout,    \* longest wait of stop() for the thread
    MaxClock,       \* bound: the clock stops here
    MaxFaults       \* bound: failing calls and breaks by an operator

\* The heartbeat is at most a third of the TTL (checked by the configuration),
\* and the two store calls of a renewal, each behind one call of another
\* process, fit into what is left.
ASSUME HeartbeatAssumption ==
    /\ {LeaseTtl, Interval, EmergencyTtl, MaxCall, JoinTimeout} \subseteq Nat \ {0}
    /\ 3 * Interval <= LeaseTtl
    /\ Interval + 4 * MaxCall < LeaseTtl
    /\ MaxClock \in Nat /\ MaxFaults \in Nat

VARIABLES
    clock,      \* wall clock
    lease,      \* the authoritative lease: holder and expiry
    flock,      \* who is inside a store call: "main", "beat", "other" or "none"
    callBy,     \* when the call in progress must have returned
    stop,       \* the _stop event
    failure,    \* _failure is set
    beat,       \* where the heartbeat thread is
    due,        \* when the thread's wait(interval) runs out
    wrote,      \* the expiry that the thread's last extend wrote
    main,       \* where the main thread is
    joinBy,     \* when the join of stop() runs out
    critical,   \* restoration failed (critical_recovery_required)
    hbFailed,   \* the main thread's heartbeat_failed
    brokenAt,   \* when the lease was broken or taken, or -1 (history)
    faults

threadVars == <<stop, failure, beat, due, wrote>>
mainVars   == <<main, joinBy, critical, hbFailed>>
vars == <<clock, lease, flock, callBy, stop, failure, beat, due, wrote, main,
          joinBy, critical, hbFailed, brokenAt, faults>>

-----------------------------------------------------------------------------
(* The lease and the calls of the store *)

Free == [holder |-> "none", expires |-> 0]
Mine(l) == l.holder = "me"

\* verify_current: held by this qualification and not expired.
Verified == Mine(lease) /\ clock < lease.expires

Fault == faults < MaxFaults /\ faults' = faults + 1

\* A thread gets the file lock and its call begins.
Enter(who) ==
    /\ flock = "none"
    /\ flock' = who
    /\ callBy' = clock + MaxCall

\* Mutant: the file lock outlives the call.
LeaveLocked == UNCHANGED <<flock, callBy>>

Leave == flock' = "none" /\ UNCHANGED callBy

\* extend: only the holder may extend, and an expired lease that nobody took
\* is still its own.
Extend(ttl) ==
    /\ Mine(lease)
    /\ lease' = [lease EXCEPT !.expires = clock + ttl]
    /\ UNCHANGED <<brokenAt, faults>>

NotMine == ~Mine(lease) /\ UNCHANGED <<lease, brokenAt, faults>>

\* The call fails: nothing was written, or it was and the answer is lost.
CallFails(ttl) ==
    /\ Fault
    /\ \/ UNCHANGED lease
       \/ Mine(lease) /\ lease' = [lease EXCEPT !.expires = clock + ttl]
    /\ UNCHANGED brokenAt

-----------------------------------------------------------------------------
(* The heartbeat thread: _run and renew_once *)

\* Mutant: the thread dies without a record of the failure.
FailSilently ==
    /\ beat' = "dead"
    /\ UNCHANGED <<failure, stop>>

\* The thread records the failure, sets _stop and ends.
Fail ==
    /\ failure' = TRUE
    /\ stop' = TRUE
    /\ beat' = "dead"

BeatWakes ==
    /\ beat = "wait"
    /\ IF stop THEN beat' = "dead"
       ELSE clock >= due /\ beat' = "renew"
    /\ UNCHANGED <<clock, lease, flock, callBy, stop, failure, due, wrote,
                   mainVars, brokenAt, faults>>

\* Both calls of renew_once begin by taking the file lock.
BeatEnters ==
    /\ \/ beat = "renew"  /\ beat' = "extending"
       \/ beat = "verify" /\ beat' = "reading"
    /\ Enter("beat")
    /\ UNCHANGED <<clock, lease, stop, failure, due, wrote, mainVars,
                   brokenAt, faults>>

BeatExtended ==
    /\ beat = "extending"
    /\ Leave
    /\ \/ /\ Extend(LeaseTtl)
          /\ wrote' = clock + LeaseTtl
          /\ beat' = "verify"
          /\ UNCHANGED <<stop, failure>>
       \/ /\ NotMine \/ CallFails(LeaseTtl)
          /\ Fail
          /\ UNCHANGED wrote
    /\ UNCHANGED <<clock, due, mainVars>>

\* Mutant: the next renewal is due only when the lease runs out.
BeatVerifiedLate ==
    /\ beat = "reading"
    /\ Leave
    /\ \/ /\ Verified /\ lease.expires >= wrote
          /\ beat' = "wait"
          /\ due' = clock + LeaseTtl
          /\ UNCHANGED <<stop, failure, faults>>
       \/ /\ ~(Verified /\ lease.expires >= wrote) /\ UNCHANGED faults
          /\ Fail
          /\ UNCHANGED due
    /\ UNCHANGED <<clock, lease, wrote, mainVars, brokenAt>>

\* The reread must show the lease, at least as long as it was written.
BeatVerified ==
    /\ beat = "reading"
    /\ Leave
    /\ \/ /\ Verified /\ lease.expires >= wrote
          /\ beat' = "wait"
          /\ due' = clock + Interval
          /\ UNCHANGED <<stop, failure, faults>>
       \/ /\ \/ ~(Verified /\ lease.expires >= wrote) /\ UNCHANGED faults
             \/ Fault
          /\ Fail
          /\ UNCHANGED due
    /\ UNCHANGED <<clock, lease, wrote, mainVars, brokenAt>>

-----------------------------------------------------------------------------
(* The main thread *)

\* start: verify the acquired lease, then run the thread; a failure goes
\* straight to the release boundary. Only a LeaseHeartbeatError counts as a
\* failed heartbeat there, the error of a failing store call does not.
Start ==
    /\ main = "start"
    /\ \/ /\ Verified
          /\ beat' = "wait"
          /\ due' = clock + Interval
          /\ main' = "work"
          /\ UNCHANGED <<hbFailed, faults>>
       \/ /\ \/ ~Verified /\ hbFailed' = TRUE /\ UNCHANGED faults
             \/ Fault /\ UNCHANGED hbFailed
          /\ main' = "check"
          /\ UNCHANGED <<beat, due>>
    /\ UNCHANGED <<clock, lease, flock, callBy, stop, failure, wrote, joinBy,
                   critical, brokenAt>>

\* The work ends at any moment, with the fleet restored or not; a boundary
\* at which raise_if_failed raises is one of those moments.
WorkEnds ==
    /\ main = "work"
    /\ main' = "check"
    /\ critical' \in BOOLEAN
    /\ UNCHANGED <<clock, lease, flock, callBy, threadVars, joinBy, hbFailed,
                   brokenAt, faults>>

\* finally: look at the heartbeat, stop it, look again.
Check ==
    /\ main = "check"
    /\ hbFailed' = (hbFailed \/ failure)
    /\ stop' = TRUE
    /\ joinBy' = clock + JoinTimeout
    /\ main' = "join"
    /\ UNCHANGED <<clock, lease, flock, callBy, failure, beat, due, wrote,
                   critical, brokenAt, faults>>

Alive == beat \notin {"off", "dead"}

\* Mutant: a thread that outlives the join is not noticed.
JoinUnchecked ==
    /\ main = "join"
    /\ ~Alive \/ clock >= joinBy
    /\ main' = "recheck"
    /\ UNCHANGED <<clock, lease, flock, callBy, threadVars, joinBy, critical,
                   hbFailed, brokenAt, faults>>

\* join returns when the thread is dead or the timeout has passed; a thread
\* still alive then counts as a failure.
Join ==
    /\ main = "join"
    /\ ~Alive \/ clock >= joinBy
    /\ failure' = (failure \/ Alive)
    /\ main' = "recheck"
    /\ UNCHANGED <<clock, lease, flock, callBy, stop, beat, due, wrote,
                   joinBy, critical, hbFailed, brokenAt, faults>>

Recheck ==
    /\ main = "recheck"
    /\ hbFailed' = (hbFailed \/ failure)
    /\ main' = IF critical \/ hbFailed' THEN "emergency" ELSE "release"
    /\ UNCHANGED <<clock, lease, flock, callBy, threadVars, joinBy, critical,
                   brokenAt, faults>>

MainEnters ==
    /\ \/ main = "release"   /\ main' = "releasing"
       \/ main = "emergency" /\ main' = "extending"
       \/ main = "verify"    /\ main' = "reading"
    /\ Enter("main")
    /\ UNCHANGED <<clock, lease, threadVars, joinBy, critical, hbFailed,
                   brokenAt, faults>>

\* release succeeds for the holder and for a lease that is free already; a
\* failed release makes the outcome critical.
MainReleased ==
    /\ main = "releasing"
    /\ Leave
    /\ \/ /\ lease.holder \in {"me", "none"}
          /\ lease' = Free
          /\ main' = "released"
          /\ UNCHANGED <<critical, faults>>
       \/ /\ \/ lease.holder = "rival" /\ UNCHANGED <<lease, faults>>
             \/ Fault /\ lease' \in {lease, Free}
          /\ critical' = TRUE
          /\ main' = "emergency"
    /\ UNCHANGED <<clock, threadVars, joinBy, hbFailed, brokenAt>>

\* emergency_extend: one extension, then the reread that verifies it.
MainExtended ==
    /\ main = "extending"
    /\ Leave
    /\ \/ Extend(EmergencyTtl) /\ main' = "verify"
       \/ (NotMine \/ CallFails(EmergencyTtl)) /\ main' = "failed"
    /\ critical' = TRUE
    /\ UNCHANGED <<clock, threadVars, joinBy, hbFailed>>

MainVerified ==
    /\ main = "reading"
    /\ Leave
    /\ \/ /\ Verified
          /\ main' = "held"
          /\ UNCHANGED faults
       \/ /\ (~Verified /\ UNCHANGED faults) \/ Fault
          /\ main' = "failed"
    /\ UNCHANGED <<clock, lease, threadVars, joinBy, critical, hbFailed,
                   brokenAt>>

-----------------------------------------------------------------------------
(* Time and other agents *)

Ended == main \in {"released", "held", "failed"}

\* Time does not pass a store call's timeouts nor a wait that has run out.
Tick ==
    /\ clock < MaxClock
    /\ flock # "none" => clock < callBy
    /\ beat = "wait" => ~stop /\ clock < due
    /\ beat \in {"renew", "verify"} => flock # "none"
    /\ main = "join" => clock < joinBy
    /\ main \notin {"start", "check", "recheck"}
    /\ clock' = clock + 1
    /\ UNCHANGED <<lease, flock, callBy, threadVars, mainVars, brokenAt,
                   faults>>

\* Another process of this controller (a fleet status call) reads the lock;
\* it does not overtake the heartbeat thread.
OtherEnters ==
    /\ beat \notin {"renew", "verify"}
    /\ Enter("other")
    /\ UNCHANGED <<clock, lease, threadVars, mainVars, brokenAt, faults>>

OtherLeaves ==
    /\ flock = "other"
    /\ Leave
    /\ UNCHANGED <<clock, lease, threadVars, mainVars, brokenAt, faults>>

\* Another agent acquires a lease that is free or has run out.
RivalTakes ==
    /\ ~(Mine(lease) /\ clock < lease.expires)
    /\ lease.holder # "rival"
    /\ lease' = [holder |-> "rival", expires |-> clock + LeaseTtl]
    /\ brokenAt' = IF brokenAt < 0 THEN clock ELSE brokenAt
    /\ UNCHANGED <<clock, flock, callBy, threadVars, mainVars, faults>>

\* An operator breaks the lease: release --force.
OperatorBreaks ==
    /\ Mine(lease) /\ ~Ended
    /\ Fault
    /\ lease' = Free
    /\ brokenAt' = IF brokenAt < 0 THEN clock ELSE brokenAt
    /\ UNCHANGED <<clock, flock, callBy, threadVars, mainVars>>

Init ==
    /\ clock = 0
    /\ lease = [holder |-> "me", expires |-> LeaseTtl]
    /\ flock = "none" /\ callBy = 0
    /\ stop = FALSE /\ failure = FALSE
    /\ beat = "off" /\ due = 0 /\ wrote = 0
    /\ main = "start" /\ joinBy = 0
    /\ critical = FALSE /\ hbFailed = FALSE
    /\ brokenAt = -1 /\ faults = 0

Beat == BeatWakes \/ BeatEnters \/ BeatExtended \/ BeatVerified
Boundary == \/ Check \/ Join \/ Recheck \/ MainEnters \/ MainReleased
            \/ MainExtended \/ MainVerified
Next == \/ Tick \/ RivalTakes \/ OperatorBreaks \/ OtherEnters \/ OtherLeaves
        \/ Beat \/ Start \/ WorkEnds \/ Boundary

Spec == Init /\ [][Next]_vars

\* The thread and the main thread run, calls return and the clock goes on;
\* the kernel hands the file lock to each waiter in turn.
Fairness ==
    /\ WF_vars(Tick) /\ WF_vars(Start) /\ WF_vars(OtherLeaves)
    /\ WF_vars(Beat) /\ SF_vars(BeatEnters)
    /\ WF_vars(Boundary) /\ SF_vars(MainEnters)
FairSpec == Spec /\ Fairness

-----------------------------------------------------------------------------
(* Properties *)

TypeOK ==
    /\ clock \in 0..MaxClock /\ faults \in 0..MaxFaults
    /\ lease \in [holder : {"me", "rival", "none"}, expires : Nat]
    /\ flock \in {"none", "main", "beat", "other"}
    /\ {callBy, due, wrote, joinBy} \subseteq Nat
    /\ {stop, failure, critical, hbFailed} \subseteq BOOLEAN
    /\ beat \in {"off", "wait", "renew", "extending", "verify", "reading",
                 "dead"}
    /\ main \in {"start", "work", "check", "join", "recheck", "release",
                 "releasing", "emergency", "extending", "verify", "reading",
                 "released", "held", "failed"}
    /\ brokenAt \in -1..MaxClock

\* While work goes on and no failure is recorded, the lease is held and has
\* not run out, unless an operator broke it: what the one-third bound of the
\* configuration is for.
HealthyLeaseIsHeld ==
    main = "work" /\ ~failure /\ brokenAt < 0 => Verified

\* A lost lease is noticed within one interval and one store call
\* (behind another process's one): destructive
\* work does not go on under another's lease (the comment in _run).
LossNoticed ==
    main = "work" /\ ~failure /\ brokenAt >= 0
        => clock <= brokenAt + Interval + 2 * MaxCall

\* The lease is released only by a qualification that is not critical and
\* whose heartbeat never failed, and no renewal comes after the release: the
\* thread is dead, or stop() counted it as a failure.
ReleasedForGood ==
    main = "released" => ~failure /\ ~critical /\ ~Alive /\ ~Mine(lease)

\* The release boundary is left: with the lease released, extended for the
\* operator, or reported as not extended.
BoundaryEnds == main = "check" ~> Ended

-----------------------------------------------------------------------------
(* The inductive invariant *)

\* The file lock is with the thread that is in a call.
FlockOwner ==
    /\ flock = "beat" <=> beat \in {"extending", "reading"}
    /\ flock = "main" <=> main \in {"releasing", "extending", "reading"}

\* While work goes on without a failure the thread runs and keeps its pace:
\* a renewal begins at most one call of another process after it is due, and
\* its reread follows the write (at wrote - LeaseTtl) by two calls.
Paced ==
    LET written == wrote - LeaseTtl IN
    main = "work" /\ ~failure =>
      /\ ~stop /\ Alive
      /\ beat = "wait" => clock <= due
      /\ beat = "renew" => clock <= due + MaxCall
      /\ beat \in {"wait", "renew"} /\ flock # "none" => callBy <= due + MaxCall
      /\ beat = "extending" => clock <= callBy /\ callBy <= due + 2 * MaxCall
      /\ beat = "verify" => clock <= written + MaxCall
      /\ beat = "verify" /\ flock # "none" => callBy <= written + MaxCall
      /\ beat = "reading" => clock <= callBy /\ callBy <= written + 2 * MaxCall

\* Unless it is broken the lease outlasts the renewal that comes next.
Renewing ==
    main = "work" /\ ~failure /\ brokenAt < 0 =>
      /\ Mine(lease)
      /\ beat \in {"wait", "renew", "extending"}
            => due + 2 * MaxCall < lease.expires
      /\ beat \in {"verify", "reading"} => wrote <= lease.expires

\* A broken lease never comes back, and the renewal that will find out was
\* due, or was written, no later than it was broken.
Noticing ==
    LET since == IF brokenAt < 0 THEN clock ELSE brokenAt IN
    /\ brokenAt <= clock
    /\ brokenAt >= 0 => ~Mine(lease)
    /\ main = "work" /\ ~failure =>
         /\ beat \in {"wait", "renew", "extending"} => due <= since + Interval
         /\ beat \in {"verify", "reading"} => wrote - LeaseTtl <= since

\* Before the work starts nothing has happened but what others do.
Starting ==
    main = "start" =>
      /\ beat = "off" /\ clock = 0 /\ ~stop /\ ~failure
      /\ flock \in {"none", "other"} /\ (flock # "none" => callBy <= MaxCall)
      /\ brokenAt < 0 => lease = [holder |-> "me", expires |-> LeaseTtl]

\* From the recheck on a quiet heartbeat is a dead one.
Releasing ==
    /\ main = "recheck" /\ ~failure => ~Alive
    /\ main \in {"release", "releasing", "released"}
          => ~failure /\ ~critical /\ ~hbFailed /\ ~Alive
    /\ main = "released" => ~Mine(lease)

HeartbeatInv ==
    TypeOK /\ FlockOwner /\ Starting /\ Paced /\ Renewing /\ Noticing /\ Releasing

=============================================================================
