----------------------------- MODULE RunPodLeg -----------------------------
(***************************************************************************)
(* The RunPod leg of a qualification: the main thread that provisions a    *)
(* pod, works on it and tears it down (_qualify_runpod), the timer thread  *)
(* that tears it down when the maximum runtime is over                     *)
(* (_runpod_deadline_teardown), and the provider, as the client of         *)
(* src/src/skulk_test_harness/runpod.py sees it.                           *)
(*                                                                         *)
(* terminate_and_confirm is two steps, the DELETE and the polling until    *)
(* the provider answers 404; both threads can be in it, and the teardown   *)
(* lock is what keeps them apart.                                          *)
(***************************************************************************)
EXTENDS Integers

CONSTANTS
    MaxFaults,      \* bound: failing provider calls and other errors
    MaxSignals      \* bound: termination signals

ASSUME BoundAssumption == MaxFaults \in Nat /\ MaxSignals \in Nat

VARIABLES
    pod,        \* the provider's pod
    podId,      \* the main thread knows the pod's id
    main,       \* where the main thread is
    timer,      \* where the timer thread is
    finished,   \* Timer.cancel was called
    cancelled,  \* deadline_cancelled
    fired,      \* deadline_fired
    lock,       \* teardown_lock: "main", "timer" or "none"
    closed,     \* the provider client is closed
    recovery,   \* begin_recovery was called
    issues,     \* the report has a blocking issue
    teardown,   \* teardown_succeeded
    critical,   \* critical_recovery_required
    passed,     \* the finished report passed
    faults, signals

report == <<issues, teardown, critical, passed>>
events == <<finished, cancelled, fired>>
vars == <<pod, podId, main, timer, events, lock, closed, recovery, report,
          faults, signals>>

Fault == faults < MaxFaults /\ faults' = faults + 1
Exists == pod \in {"running", "deleting"}

-----------------------------------------------------------------------------
(* The provider *)

\* A pod whose deletion was accepted disappears some time later.
PodDisappears ==
    /\ pod = "deleting"
    /\ pod' = "gone"
    /\ UNCHANGED <<podId, main, timer, events, lock, closed, recovery, report,
                   faults, signals>>

\* DELETE is accepted, also for a pod that is gone (204 or 404).
DeleteAccepted ==
    /\ pod' = IF pod = "running" THEN "deleting" ELSE pod
    /\ UNCHANGED faults

\* The call fails, or its answer is lost.
DeleteFails == Fault /\ pod' \in {pod, IF pod = "running" THEN "deleting" ELSE pod}

\* Mutant: any answer to the probe confirms the deletion.
ConfirmedEarly == UNCHANGED faults

\* The poll ends with a 404.
Confirmed == ~Exists /\ UNCHANGED faults

\* The poll fails, or the pod outlives the teardown deadline.
ConfirmFails == Fault

-----------------------------------------------------------------------------
(* The main thread: provisioning and work *)

\* The body of the try ends with an exception: an issue, then finally.
Abort == issues' = TRUE /\ main' = "finally"

\* POST /pods: it fails, it fails although the pod was created, or the pod
\* is there and the response is good, bad (no id), or refused for its cost.
Create ==
    /\ main = "create"
    /\ \/ pod' = "running" /\ main' = "known" /\ UNCHANGED <<issues, faults>>
       \/ pod' = "running" /\ main' = "reject" /\ UNCHANGED <<issues, faults>>
       \/ Fault /\ pod' \in {"none", "running"} /\ Abort
       \/ pod' = "none" /\ Abort /\ UNCHANGED faults
    /\ UNCHANGED <<podId, timer, events, lock, closed, recovery, teardown,
                   critical, passed, signals>>

\* provision tears down a pod that it refuses, and raises in any case.
Reject ==
    /\ \/ /\ main = "reject"
          /\ \/ DeleteAccepted /\ main' = "rejecting" /\ UNCHANGED issues
             \/ DeleteFails /\ Abort
       \/ /\ main = "rejecting"
          /\ Confirmed \/ ConfirmFails
          /\ Abort
          /\ UNCHANGED pod
    /\ UNCHANGED <<podId, timer, events, lock, closed, recovery, teardown,
                   critical, passed, signals>>

\* provision returned: the id is kept, the timer is built, and it is started
\* if a thread can be had.
StartTimer ==
    /\ \/ /\ main = "known" /\ main' = "build"
          /\ podId' = TRUE
          /\ UNCHANGED <<timer, issues, faults>>
       \/ /\ main = "build" /\ main' = "start"
          /\ timer' = "built"
          /\ UNCHANGED <<podId, issues, faults>>
       \/ /\ main = "start"
          /\ \/ timer' = "armed" /\ main' = "work" /\ UNCHANGED <<issues, faults>>
             \/ Fault /\ Abort /\ UNCHANGED timer
          /\ UNCHANGED podId
    /\ UNCHANGED <<pod, events, lock, closed, recovery, teardown, critical,
                   passed, signals>>

\* The work on the pod ends at any moment, well or with an error; the clean
\* install has begun the recovery in its own finally.
WorkEnds ==
    /\ main = "work"
    /\ main' = "finally"
    /\ \/ recovery' = TRUE /\ UNCHANGED issues
       \/ recovery' \in {recovery, TRUE} /\ issues' = TRUE
    /\ UNCHANGED <<pod, podId, timer, events, lock, closed, teardown, critical,
                   passed, faults, signals>>

-----------------------------------------------------------------------------
(* The main thread: finally *)

\* begin_recovery, deadline_cancelled.set, Timer.cancel.
Recover ==
    /\ main = "finally"
    /\ recovery' = TRUE
    /\ cancelled' = TRUE
    /\ finished' = TRUE
    /\ main' = "lock"
    /\ UNCHANGED <<pod, podId, timer, fired, lock, closed, report, faults,
                   signals>>

TakeLock ==
    /\ main = "lock"
    /\ lock = "none"
    /\ lock' = "main"
    /\ main' = IF podId THEN "delete" ELSE "torn"
    /\ UNCHANGED <<pod, podId, timer, events, closed, recovery, report, faults,
                   signals>>

\* The lock is released with the exception, the teardown is critical.
TeardownFails ==
    /\ issues' = TRUE /\ critical' = TRUE
    /\ lock' = "none"
    /\ main' = "join"
    /\ UNCHANGED <<teardown, passed>>

Delete ==
    /\ main = "delete"
    /\ \/ DeleteAccepted /\ main' = "confirm" /\ UNCHANGED <<lock, report>>
       \/ DeleteFails /\ TeardownFails
    /\ UNCHANGED <<podId, timer, events, closed, recovery, signals>>

Confirm ==
    /\ main = "confirm"
    /\ \/ Confirmed /\ main' = "torn" /\ UNCHANGED <<lock, report>>
       \/ ConfirmFails /\ TeardownFails
    /\ UNCHANGED <<pod, podId, timer, events, closed, recovery, signals>>

\* Mutant: the main thread keeps the lock until the timer is joined.
TornLocked ==
    /\ main = "torn"
    /\ teardown' = TRUE
    /\ main' = "join"
    /\ UNCHANGED <<pod, podId, timer, events, lock, closed, recovery, issues,
                   critical, passed, faults, signals>>

Torn ==
    /\ main = "torn"
    /\ lock' = "none"
    /\ teardown' = TRUE
    /\ main' = "join"
    /\ UNCHANGED <<pod, podId, timer, events, closed, recovery, issues,
                   critical, passed, faults, signals>>

\* Mutant: the client is closed without waiting for the timer.
JoinUnwaited ==
    /\ main = "join"
    /\ closed' = TRUE
    /\ issues' = (issues \/ fired \/ signals > 0)
    /\ main' = "report"
    /\ UNCHANGED <<pod, podId, timer, events, lock, recovery, teardown,
                   critical, passed, faults, signals>>

\* The timer thread is joined, which raises for a timer that was built and
\* never started; then its firing and its errors are issues (it has errors
\* only when it fired), the client is closed, and a deferred signal is noted.
Join ==
    /\ main = "join"
    /\ \/ /\ timer \in {"off", "dead"}
          /\ closed' = TRUE
          /\ issues' = (issues \/ fired \/ signals > 0)
          /\ main' = "report"
       \/ /\ timer = "built"
          /\ main' = "escaped"
          /\ UNCHANGED <<closed, issues>>
    /\ UNCHANGED <<pod, podId, timer, events, lock, recovery, teardown,
                   critical, passed, faults, signals>>

Report ==
    /\ main = "report"
    /\ passed' = (~issues /\ teardown)
    /\ main' = "done"
    /\ UNCHANGED <<pod, podId, timer, events, lock, closed, recovery, issues,
                   teardown, critical, faults, signals>>

\* A termination signal: deferred once the recovery has begun, an exception
\* in the work, and before begin_recovery in finally one that leaves the
\* finally and the leg.
Signal ==
    /\ signals < MaxSignals
    /\ main # "done" /\ main # "escaped"
    /\ signals' = signals + 1
    /\ IF recovery THEN UNCHANGED <<main, issues>>
       ELSE /\ issues' = TRUE
            /\ main' = IF main = "finally" THEN "escaped" ELSE "finally"
    /\ UNCHANGED <<pod, podId, timer, events, lock, closed, recovery, teardown,
                   critical, passed, faults>>

-----------------------------------------------------------------------------
(* The timer thread *)

\* Timer.run: the interval is over, or the timer was cancelled before.
TimerWakes ==
    /\ timer = "armed"
    /\ timer' = IF finished THEN "dead" ELSE "expired"
    /\ UNCHANGED <<pod, podId, main, events, lock, closed, recovery, report,
                   faults, signals>>

\* deadline_fired is set before the lock is asked for.
Fire ==
    /\ timer = "expired"
    /\ fired' = TRUE
    /\ timer' = "lock"
    /\ UNCHANGED <<pod, podId, main, finished, cancelled, lock, closed,
                   recovery, report, faults, signals>>

\* Mutant: the deadline tears down only what was cancelled.
TimerTakesLockSwapped ==
    /\ timer = "lock"
    /\ lock = "none"
    /\ IF ~cancelled THEN timer' = "dead" /\ UNCHANGED lock
       ELSE timer' = "delete" /\ lock' = "timer"
    /\ UNCHANGED <<pod, podId, main, events, closed, recovery, report, faults,
                   signals>>

\* A deadline that was cancelled meanwhile leaves the pod to the main thread.
TimerTakesLock ==
    /\ timer = "lock"
    /\ lock = "none"
    /\ IF cancelled THEN timer' = "dead" /\ UNCHANGED lock
       ELSE timer' = "delete" /\ lock' = "timer"
    /\ UNCHANGED <<pod, podId, main, events, closed, recovery, report, faults,
                   signals>>

TimerTeardown ==
    /\ \/ /\ timer = "delete"
          /\ \/ DeleteAccepted /\ timer' = "confirm" /\ UNCHANGED lock
             \/ DeleteFails /\ timer' = "dead" /\ lock' = "none"
       \/ /\ timer = "confirm"
          /\ Confirmed \/ ConfirmFails
          /\ timer' = "dead" /\ lock' = "none"
          /\ UNCHANGED pod
    /\ UNCHANGED <<podId, main, events, closed, recovery, report, signals>>

-----------------------------------------------------------------------------
Init ==
    /\ pod = "none" /\ podId = FALSE
    /\ main = "create" /\ timer = "off"
    /\ finished = FALSE /\ cancelled = FALSE /\ fired = FALSE
    /\ lock = "none" /\ closed = FALSE /\ recovery = FALSE
    /\ issues = FALSE /\ teardown = FALSE /\ critical = FALSE /\ passed = FALSE
    /\ faults = 0 /\ signals = 0

Provision == Create \/ Reject \/ StartTimer
Finally == Recover \/ TakeLock \/ Delete \/ Confirm \/ Torn \/ Join \/ Report
Timer == TimerWakes \/ Fire \/ TimerTakesLock \/ TimerTeardown
Next == PodDisappears \/ Provision \/ WorkEnds \/ Finally \/ Signal \/ Timer

Spec == Init /\ [][Next]_vars

\* Nothing makes the work on the pod end: the deadline does not depend on it.
Fairness ==
    /\ WF_vars(PodDisappears) /\ WF_vars(Provision)
    /\ WF_vars(Finally) /\ SF_vars(TakeLock)
    /\ WF_vars(Timer) /\ SF_vars(TimerTakesLock)
FairSpec == Spec /\ Fairness

-----------------------------------------------------------------------------
(* Properties *)

TypeOK ==
    /\ pod \in {"none", "running", "deleting", "gone"}
    /\ main \in {"create", "reject", "rejecting", "known", "build", "start",
                 "work", "finally", "lock", "delete", "confirm", "torn", "join",
                 "report", "done", "escaped"}
    /\ timer \in {"off", "built", "armed", "expired", "lock", "delete", "confirm",
                  "dead"}
    /\ lock \in {"none", "main", "timer"}
    /\ {podId, finished, cancelled, fired, closed, recovery, issues, teardown,
        critical, passed} \subseteq BOOLEAN
    /\ faults \in 0..MaxFaults /\ signals \in 0..MaxSignals

\* A leg that passed leaves no pod behind, and its deadline never fired, not
\* even while the main thread was already tearing the pod down.
PassedIsClean ==
    passed => pod = "gone" /\ ~fired /\ ~critical

\* A pod whose id is known is gone when the leg is over, or the report is
\* critical, whichever thread tore it down.
KnownPodAccounted ==
    main = "done" /\ podId => IF teardown THEN pod = "gone" ELSE critical

\* The client is not closed while the timer thread may still use it (the
\* comment above the join).
ClientOutlivesTimer ==
    closed => timer \in {"off", "dead"}

\* A pod at work is deleted in time even when the work never ends, unless a
\* provider call of the deadline failed.
CostIsBounded ==
    (main = "work" /\ pod = "running")
        ~> (pod # "running" \/ faults > 0 \/ main # "work")

\* The leg ends once its recovery has begun: neither thread waits for the
\* other for ever, at the lock or at the join.
RecoveryEnds == main = "lock" ~> main \in {"done", "escaped"}

-----------------------------------------------------------------------------
(* The inductive invariant *)

\* The teardown lock is with the thread that tears the pod down.
LockOwner ==
    /\ lock = "main" <=> main \in {"delete", "confirm", "torn"}
    /\ lock = "timer" <=> timer \in {"delete", "confirm"}

\* A pod is known only when it was created, the timer only runs for one, and
\* a leg without an issue has come past both.
KnownPod ==
    /\ main = "create" => pod = "none"
    /\ main \in {"reject", "rejecting", "known"} => pod # "none"
    /\ main \in {"build", "start", "work", "delete", "confirm"} => podId
    /\ podId => pod # "none"
    /\ main \in {"create", "reject", "rejecting", "known", "build"}
          => timer = "off"
    /\ main = "start" => timer = "built"
    /\ main \in {"finally", "lock", "torn", "join", "report", "done"}
          /\ ~issues => podId

\* What the teardown has found out by each place of the finally, where a
\* signal is deferred.
Accounted ==
    /\ main \in {"lock", "delete", "confirm", "torn", "join", "report", "done"}
          => recovery
    /\ critical => main \in {"join", "report", "done", "escaped"}
    /\ main \in {"torn", "join", "report", "done"} /\ podId
          => IF main = "torn" \/ teardown THEN pod = "gone" ELSE critical
    /\ teardown => main \in {"join", "report", "done", "escaped"}
    /\ teardown => ~critical

\* The client is closed behind the timer, whose firing is then an issue.
Joined ==
    /\ closed <=> main \in {"report", "done"}
    /\ closed => timer \in {"off", "dead"} /\ (fired => issues)
    /\ passed => main = "done" /\ ~issues /\ teardown

RunPodInv == TypeOK /\ LockOwner /\ KnownPod /\ Accounted /\ Joined

-----------------------------------------------------------------------------
(* What the documentation says and the code does not keep *)

\* A teardown that is reported as successful left no pod at the provider.
TeardownTruthful == main = "done" /\ teardown => ~Exists
=============================================================================
