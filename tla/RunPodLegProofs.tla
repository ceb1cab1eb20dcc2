-------------------------- MODULE RunPodLegProofs --------------------------
(***************************************************************************)
(* Proofs about RunPodLeg for every number of faults and signals:          *)
(* RunPodInv is an invariant, so a leg that passed leaves no pod behind, a *)
(* known pod is gone or the report is critical, and the provider client    *)
(* outlives the timer thread.                                              *)
(***************************************************************************)
EXTENDS RunPodLeg, TLAPS

-----------------------------------------------------------------------------
(* Every step of every agent keeps the inductive invariant. *)

\* A pod that disappears was being deleted.
LEMMA PodDisappearsStep ==
    ASSUME BoundAssumption, RunPodInv, PodDisappears
    PROVE  RunPodInv'
  <1> USE DEF PodDisappears, report, events
  <1>1. TypeOK'
    <2>1. /\ pod' \in {"none", "running", "deleting", "gone"}
          /\ lock' \in {"none", "main", "timer"}
      BY DEF RunPodInv, TypeOK
    <2>2. /\ main' \in {"create", "reject", "rejecting", "known", "build",
                         "start", "work", "finally", "lock", "delete",
                         "confirm", "torn", "join", "report", "done", "escaped"}
          /\ timer' \in {"off", "built", "armed", "expired", "lock", "delete",
                          "confirm", "dead"}
      BY DEF RunPodInv, TypeOK
    <2>3. {podId, finished, cancelled, fired, closed, recovery, issues,
           teardown, critical, passed}' \subseteq BOOLEAN
      BY DEF RunPodInv, TypeOK
    <2>4. faults' \in 0..MaxFaults /\ signals' \in 0..MaxSignals
      BY DEF BoundAssumption, RunPodInv, TypeOK
    <2> QED
      BY <2>1, <2>2, <2>3, <2>4 DEF TypeOK
  <1>2. LockOwner'
    BY DEF RunPodInv, TypeOK, KnownPod, Accounted, LockOwner
  <1>3. KnownPod'
    BY DEF RunPodInv, TypeOK, KnownPod
  <1>4. Accounted'
    BY DEF RunPodInv, TypeOK, KnownPod, Accounted
  <1>5. Joined'
    BY DEF RunPodInv, TypeOK, KnownPod, Accounted, Joined
  <1> QED
    BY <1>1, <1>2, <1>3, <1>4, <1>5 DEF RunPodInv

\* POST leaves a pod that the main thread does not know yet, or none.
LEMMA CreateStep ==
    ASSUME BoundAssumption, RunPodInv, Create
    PROVE  RunPodInv'
  <1> USE DEF Create, Fault, Abort, report, events
  <1>1. TypeOK'
    <2>1. /\ pod' \in {"none", "running", "deleting", "gone"}
          /\ lock' \in {"none", "main", "timer"}
      BY DEF RunPodInv, TypeOK
    <2>2. /\ main' \in {"create", "reject", "rejecting", "known", "build",
                         "start", "work", "finally", "lock", "delete",
                         "confirm", "torn", "join", "report", "done", "escaped"}
          /\ timer' \in {"off", "built", "armed", "expired", "lock", "delete",
                          "confirm", "dead"}
      BY DEF RunPodInv, TypeOK
    <2>3. {podId, finished, cancelled, fired, closed, recovery, issues,
           teardown, critical, passed}' \subseteq BOOLEAN
      BY DEF RunPodInv, TypeOK
    <2>4. faults' \in 0..MaxFaults /\ signals' \in 0..MaxSignals
      BY DEF BoundAssumption, RunPodInv, TypeOK
    <2> QED
      BY <2>1, <2>2, <2>3, <2>4 DEF TypeOK
  <1>2. LockOwner'
    BY DEF RunPodInv, TypeOK, KnownPod, Accounted, LockOwner
  <1>3. KnownPod'
    BY DEF RunPodInv, TypeOK, KnownPod
  <1>4. Accounted'
    BY DEF RunPodInv, TypeOK, KnownPod, Accounted
  <1>5. Joined'
    BY DEF RunPodInv, TypeOK, KnownPod, Accounted, Joined
  <1> QED
    BY <1>1, <1>2, <1>3, <1>4, <1>5 DEF RunPodInv

\* A refused pod is torn down inside provision, which then raises.
LEMMA RejectStep ==
    ASSUME BoundAssumption, RunPodInv, Reject
    PROVE  RunPodInv'
  <1> USE DEF Reject, DeleteAccepted, DeleteFails, Confirmed, ConfirmFails, Fault, Exists, Abort, report, events
  <1>1. TypeOK'
    <2>1. /\ pod' \in {"none", "running", "deleting", "gone"}
          /\ lock' \in {"none", "main", "timer"}
      BY DEF RunPodInv, TypeOK
    <2>2. /\ main' \in {"create", "reject", "rejecting", "known", "build",
                         "start", "work", "finally", "lock", "delete",
                         "confirm", "torn", "join", "report", "done", "escaped"}
          /\ timer' \in {"off", "built", "armed", "expired", "lock", "delete",
                          "confirm", "dead"}
      BY DEF RunPodInv, TypeOK
    <2>3. {podId, finished, cancelled, fired, closed, recovery, issues,
           teardown, critical, passed}' \subseteq BOOLEAN
      BY DEF RunPodInv, TypeOK
    <2>4. faults' \in 0..MaxFaults /\ signals' \in 0..MaxSignals
      BY DEF BoundAssumption, RunPodInv, TypeOK
    <2> QED
      BY <2>1, <2>2, <2>3, <2>4 DEF TypeOK
  <1>2. LockOwner'
    BY DEF RunPodInv, TypeOK, KnownPod, Accounted, LockOwner
  <1>3. KnownPod'
    BY DEF RunPodInv, TypeOK, KnownPod
  <1>4. Accounted'
    BY DEF RunPodInv, TypeOK, KnownPod, Accounted
  <1>5. Joined'
    BY DEF RunPodInv, TypeOK, KnownPod, Accounted, Joined
  <1> QED
    BY <1>1, <1>2, <1>3, <1>4, <1>5 DEF RunPodInv

\* The timer is built only for a known pod.
LEMMA StartTimerStep ==
    ASSUME BoundAssumption, RunPodInv, StartTimer
    PROVE  RunPodInv'
  <1> USE DEF StartTimer, Fault, Abort, report, events
  <1>1. TypeOK'
    <2>1. /\ pod' \in {"none", "running", "deleting", "gone"}
          /\ lock' \in {"none", "main", "timer"}
      BY DEF RunPodInv, TypeOK
    <2>2. /\ main' \in {"create", "reject", "rejecting", "known", "build",
                         "start", "work", "finally", "lock", "delete",
                         "confirm", "torn", "join", "report", "done", "escaped"}
          /\ timer' \in {"off", "built", "armed", "expired", "lock", "delete",
                          "confirm", "dead"}
      BY DEF RunPodInv, TypeOK
    <2>3. {podId, finished, cancelled, fired, closed, recovery, issues,
           teardown, critical, passed}' \subseteq BOOLEAN
      BY DEF RunPodInv, TypeOK
    <2>4. faults' \in 0..MaxFaults /\ signals' \in 0..MaxSignals
      BY DEF BoundAssumption, RunPodInv, TypeOK
    <2> QED
      BY <2>1, <2>2, <2>3, <2>4 DEF TypeOK
  <1>2. LockOwner'
    BY DEF RunPodInv, TypeOK, KnownPod, Accounted, LockOwner
  <1>3. KnownPod'
    BY DEF RunPodInv, TypeOK, KnownPod
  <1>4. Accounted'
    BY DEF RunPodInv, TypeOK, KnownPod, Accounted
  <1>5. Joined'
    BY DEF RunPodInv, TypeOK, KnownPod, Accounted, Joined
  <1> QED
    BY <1>1, <1>2, <1>3, <1>4, <1>5 DEF RunPodInv

\* The work that ends without an issue had a known pod.
LEMMA WorkEndsStep ==
    ASSUME BoundAssumption, RunPodInv, WorkEnds
    PROVE  RunPodInv'
  <1> USE DEF WorkEnds, report, events
  <1>1. TypeOK'
    <2>1. /\ pod' \in {"none", "running", "deleting", "gone"}
          /\ lock' \in {"none", "main", "timer"}
      BY DEF RunPodInv, TypeOK
    <2>2. /\ main' \in {"create", "reject", "rejecting", "known", "build",
                         "start", "work", "finally", "lock", "delete",
                         "confirm", "torn", "join", "report", "done", "escaped"}
          /\ timer' \in {"off", "built", "armed", "expired", "lock", "delete",
                          "confirm", "dead"}
      BY DEF RunPodInv, TypeOK
    <2>3. {podId, finished, cancelled, fired, closed, recovery, issues,
           teardown, critical, passed}' \subseteq BOOLEAN
      BY DEF RunPodInv, TypeOK
    <2>4. faults' \in 0..MaxFaults /\ signals' \in 0..MaxSignals
      BY DEF BoundAssumption, RunPodInv, TypeOK
    <2> QED
      BY <2>1, <2>2, <2>3, <2>4 DEF TypeOK
  <1>2. LockOwner'
    BY DEF RunPodInv, TypeOK, KnownPod, Accounted, LockOwner
  <1>3. KnownPod'
    BY DEF RunPodInv, TypeOK, KnownPod
  <1>4. Accounted'
    BY DEF RunPodInv, TypeOK, KnownPod, Accounted
  <1>5. Joined'
    BY DEF RunPodInv, TypeOK, KnownPod, Accounted, Joined
  <1> QED
    BY <1>1, <1>2, <1>3, <1>4, <1>5 DEF RunPodInv

\* The recovery cancels the deadline.
LEMMA RecoverStep ==
    ASSUME BoundAssumption, RunPodInv, Recover
    PROVE  RunPodInv'
  <1> USE DEF Recover, report, events
  <1>1. TypeOK'
    <2>1. /\ pod' \in {"none", "running", "deleting", "gone"}
          /\ lock' \in {"none", "main", "timer"}
      BY DEF RunPodInv, TypeOK
    <2>2. /\ main' \in {"create", "reject", "rejecting", "known", "build",
                         "start", "work", "finally", "lock", "delete",
                         "confirm", "torn", "join", "report", "done", "escaped"}
          /\ timer' \in {"off", "built", "armed", "expired", "lock", "delete",
                          "confirm", "dead"}
      BY DEF RunPodInv, TypeOK
    <2>3. {podId, finished, cancelled, fired, closed, recovery, issues,
           teardown, critical, passed}' \subseteq BOOLEAN
      BY DEF RunPodInv, TypeOK
    <2>4. faults' \in 0..MaxFaults /\ signals' \in 0..MaxSignals
      BY DEF BoundAssumption, RunPodInv, TypeOK
    <2> QED
      BY <2>1, <2>2, <2>3, <2>4 DEF TypeOK
  <1>2. LockOwner'
    BY DEF RunPodInv, TypeOK, KnownPod, Accounted, LockOwner
  <1>3. KnownPod'
    BY DEF RunPodInv, TypeOK, KnownPod
  <1>4. Accounted'
    BY DEF RunPodInv, TypeOK, KnownPod, Accounted
  <1>5. Joined'
    BY DEF RunPodInv, TypeOK, KnownPod, Accounted, Joined
  <1> QED
    BY <1>1, <1>2, <1>3, <1>4, <1>5 DEF RunPodInv

\* The main thread takes the lock to tear a known pod down.
LEMMA TakeLockStep ==
    ASSUME BoundAssumption, RunPodInv, TakeLock
    PROVE  RunPodInv'
  <1> USE DEF TakeLock, report, events
  <1>1. TypeOK'
    <2>1. /\ pod' \in {"none", "running", "deleting", "gone"}
          /\ lock' \in {"none", "main", "timer"}
      BY DEF RunPodInv, TypeOK
    <2>2. /\ main' \in {"create", "reject", "rejecting", "known", "build",
                         "start", "work", "finally", "lock", "delete",
                         "confirm", "torn", "join", "report", "done", "escaped"}
          /\ timer' \in {"off", "built", "armed", "expired", "lock", "delete",
                          "confirm", "dead"}
      BY DEF RunPodInv, TypeOK
    <2>3. {podId, finished, cancelled, fired, closed, recovery, issues,
           teardown, critical, passed}' \subseteq BOOLEAN
      BY DEF RunPodInv, TypeOK
    <2>4. faults' \in 0..MaxFaults /\ signals' \in 0..MaxSignals
      BY DEF BoundAssumption, RunPodInv, TypeOK
    <2> QED
      BY <2>1, <2>2, <2>3, <2>4 DEF TypeOK
  <1>2. LockOwner'
    BY DEF RunPodInv, TypeOK, KnownPod, Accounted, LockOwner
  <1>3. KnownPod'
    BY DEF RunPodInv, TypeOK, KnownPod
  <1>4. Accounted'
    BY DEF RunPodInv, TypeOK, KnownPod, Accounted
  <1>5. Joined'
    BY DEF RunPodInv, TypeOK, KnownPod, Accounted, Joined
  <1> QED
    BY <1>1, <1>2, <1>3, <1>4, <1>5 DEF RunPodInv

\* A DELETE that fails makes the leg critical.
LEMMA DeleteStep ==
    ASSUME BoundAssumption, RunPodInv, Delete
    PROVE  RunPodInv'
  <1> USE DEF Delete, DeleteAccepted, DeleteFails, TeardownFails, Fault, report, events
  <1>1. TypeOK'
    <2>1. /\ pod' \in {"none", "running", "deleting", "gone"}
          /\ lock' \in {"none", "main", "timer"}
      BY DEF RunPodInv, TypeOK
    <2>2. /\ main' \in {"create", "reject", "rejecting", "known", "build",
                         "start", "work", "finally", "lock", "delete",
                         "confirm", "torn", "join", "report", "done", "escaped"}
          /\ timer' \in {"off", "built", "armed", "expired", "lock", "delete",
                          "confirm", "dead"}
      BY DEF RunPodInv, TypeOK
    <2>3. {podId, finished, cancelled, fired, closed, recovery, issues,
           teardown, critical, passed}' \subseteq BOOLEAN
      BY DEF RunPodInv, TypeOK
    <2>4. faults' \in 0..MaxFaults /\ signals' \in 0..MaxSignals
      BY DEF BoundAssumption, RunPodInv, TypeOK
    <2> QED
      BY <2>1, <2>2, <2>3, <2>4 DEF TypeOK
  <1>2. LockOwner'
    BY DEF RunPodInv, TypeOK, KnownPod, Accounted, LockOwner
  <1>3. KnownPod'
    BY DEF RunPodInv, TypeOK, KnownPod
  <1>4. Accounted'
    BY DEF RunPodInv, TypeOK, KnownPod, Accounted
  <1>5. Joined'
    BY DEF RunPodInv, TypeOK, KnownPod, Accounted, Joined
  <1> QED
    BY <1>1, <1>2, <1>3, <1>4, <1>5 DEF RunPodInv

\* The teardown is confirmed only for a pod that is gone.
LEMMA ConfirmStep ==
    ASSUME BoundAssumption, RunPodInv, Confirm
    PROVE  RunPodInv'
  <1> USE DEF Confirm, Confirmed, ConfirmFails, TeardownFails, Fault, Exists, report, events
  <1>1. TypeOK'
    <2>1. /\ pod' \in {"none", "running", "deleting", "gone"}
          /\ lock' \in {"none", "main", "timer"}
      BY DEF RunPodInv, TypeOK
    <2>2. /\ main' \in {"create", "reject", "rejecting", "known", "build",
                         "start", "work", "finally", "lock", "delete",
                         "confirm", "torn", "join", "report", "done", "escaped"}
          /\ timer' \in {"off", "built", "armed", "expired", "lock", "delete",
                          "confirm", "dead"}
      BY DEF RunPodInv, TypeOK
    <2>3. {podId, finished, cancelled, fired, closed, recovery, issues,
           teardown, critical, passed}' \subseteq BOOLEAN
      BY DEF RunPodInv, TypeOK
    <2>4. faults' \in 0..MaxFaults /\ signals' \in 0..MaxSignals
      BY DEF BoundAssumption, RunPodInv, TypeOK
    <2> QED
      BY <2>1, <2>2, <2>3, <2>4 DEF TypeOK
  <1>2. LockOwner'
    BY DEF RunPodInv, TypeOK, KnownPod, Accounted, LockOwner
  <1>3. KnownPod'
    BY DEF RunPodInv, TypeOK, KnownPod
  <1>4. Accounted'
    BY DEF RunPodInv, TypeOK, KnownPod, Accounted
  <1>5. Joined'
    BY DEF RunPodInv, TypeOK, KnownPod, Accounted, Joined
  <1> QED
    BY <1>1, <1>2, <1>3, <1>4, <1>5 DEF RunPodInv

\* The teardown succeeded, the lock is free.
LEMMA TornStep ==
    ASSUME BoundAssumption, RunPodInv, Torn
    PROVE  RunPodInv'
  <1> USE DEF Torn, report, events
  <1>1. TypeOK'
    <2>1. /\ pod' \in {"none", "running", "deleting", "gone"}
          /\ lock' \in {"none", "main", "timer"}
      BY DEF RunPodInv, TypeOK
    <2>2. /\ main' \in {"create", "reject", "rejecting", "known", "build",
                         "start", "work", "finally", "lock", "delete",
                         "confirm", "torn", "join", "report", "done", "escaped"}
          /\ timer' \in {"off", "built", "armed", "expired", "lock", "delete",
                          "confirm", "dead"}
      BY DEF RunPodInv, TypeOK
    <2>3. {podId, finished, cancelled, fired, closed, recovery, issues,
           teardown, critical, passed}' \subseteq BOOLEAN
      BY DEF RunPodInv, TypeOK
    <2>4. faults' \in 0..MaxFaults /\ signals' \in 0..MaxSignals
      BY DEF BoundAssumption, RunPodInv, TypeOK
    <2> QED
      BY <2>1, <2>2, <2>3, <2>4 DEF TypeOK
  <1>2. LockOwner'
    BY DEF RunPodInv, TypeOK, KnownPod, Accounted, LockOwner
  <1>3. KnownPod'
    BY DEF RunPodInv, TypeOK, KnownPod
  <1>4. Accounted'
    BY DEF RunPodInv, TypeOK, KnownPod, Accounted
  <1>5. Joined'
    BY DEF RunPodInv, TypeOK, KnownPod, Accounted, Joined
  <1> QED
    BY <1>1, <1>2, <1>3, <1>4, <1>5 DEF RunPodInv

\* The client is closed behind the timer.
LEMMA JoinStep ==
    ASSUME BoundAssumption, RunPodInv, Join
    PROVE  RunPodInv'
  <1> USE DEF Join, report, events
  <1>1. TypeOK'
    <2>1. /\ pod' \in {"none", "running", "deleting", "gone"}
          /\ lock' \in {"none", "main", "timer"}
      BY DEF RunPodInv, TypeOK
    <2>2. /\ main' \in {"create", "reject", "rejecting", "known", "build",
                         "start", "work", "finally", "lock", "delete",
                         "confirm", "torn", "join", "report", "done", "escaped"}
          /\ timer' \in {"off", "built", "armed", "expired", "lock", "delete",
                          "confirm", "dead"}
      BY DEF RunPodInv, TypeOK
    <2>3. {podId, finished, cancelled, fired, closed, recovery, issues,
           teardown, critical, passed}' \subseteq BOOLEAN
      BY DEF RunPodInv, TypeOK
    <2>4. faults' \in 0..MaxFaults /\ signals' \in 0..MaxSignals
      BY DEF BoundAssumption, RunPodInv, TypeOK
    <2> QED
      BY <2>1, <2>2, <2>3, <2>4 DEF TypeOK
  <1>2. LockOwner'
    BY DEF RunPodInv, TypeOK, KnownPod, Accounted, LockOwner
  <1>3. KnownPod'
    BY DEF RunPodInv, TypeOK, KnownPod
  <1>4. Accounted'
    BY DEF RunPodInv, TypeOK, KnownPod, Accounted
  <1>5. Joined'
    BY DEF RunPodInv, TypeOK, KnownPod, Accounted, Joined
  <1> QED
    BY <1>1, <1>2, <1>3, <1>4, <1>5 DEF RunPodInv

\* The verdict needs the teardown and no issue.
LEMMA ReportStep ==
    ASSUME BoundAssumption, RunPodInv, Report
    PROVE  RunPodInv'
  <1> USE DEF Report, report, events
  <1>1. TypeOK'
    <2>1. /\ pod' \in {"none", "running", "deleting", "gone"}
          /\ lock' \in {"none", "main", "timer"}
      BY DEF RunPodInv, TypeOK
    <2>2. /\ main' \in {"create", "reject", "rejecting", "known", "build",
                         "start", "work", "finally", "lock", "delete",
                         "confirm", "torn", "join", "report", "done", "escaped"}
          /\ timer' \in {"off", "built", "armed", "expired", "lock", "delete",
                          "confirm", "dead"}
      BY DEF RunPodInv, TypeOK
    <2>3. {podId, finished, cancelled, fired, closed, recovery, issues,
           teardown, critical, passed}' \subseteq BOOLEAN
      BY DEF RunPodInv, TypeOK
    <2>4. faults' \in 0..MaxFaults /\ signals' \in 0..MaxSignals
      BY DEF BoundAssumption, RunPodInv, TypeOK
    <2> QED
      BY <2>1, <2>2, <2>3, <2>4 DEF TypeOK
  <1>2. LockOwner'
    BY DEF RunPodInv, TypeOK, KnownPod, Accounted, LockOwner
  <1>3. KnownPod'
    BY DEF RunPodInv, TypeOK, KnownPod
  <1>4. Accounted'
    BY DEF RunPodInv, TypeOK, KnownPod, Accounted
  <1>5. Joined'
    BY DEF RunPodInv, TypeOK, KnownPod, Accounted, Joined
  <1> QED
    BY <1>1, <1>2, <1>3, <1>4, <1>5 DEF RunPodInv

\* A signal ends the work, leaves the leg, or is deferred.
LEMMA SignalStep ==
    ASSUME BoundAssumption, RunPodInv, Signal
    PROVE  RunPodInv'
  <1> USE DEF Signal, report, events
  <1>1. TypeOK'
    <2>1. /\ pod' \in {"none", "running", "deleting", "gone"}
          /\ lock' \in {"none", "main", "timer"}
      BY DEF RunPodInv, TypeOK
    <2>2. /\ main' \in {"create", "reject", "rejecting", "known", "build",
                         "start", "work", "finally", "lock", "delete",
                         "confirm", "torn", "join", "report", "done", "escaped"}
          /\ timer' \in {"off", "built", "armed", "expired", "lock", "delete",
                          "confirm", "dead"}
      BY DEF RunPodInv, TypeOK
    <2>3. {podId, finished, cancelled, fired, closed, recovery, issues,
           teardown, critical, passed}' \subseteq BOOLEAN
      BY DEF RunPodInv, TypeOK
    <2>4. faults' \in 0..MaxFaults /\ signals' \in 0..MaxSignals
      BY DEF BoundAssumption, RunPodInv, TypeOK
    <2> QED
      BY <2>1, <2>2, <2>3, <2>4 DEF TypeOK
  <1>2. LockOwner'
    BY DEF RunPodInv, TypeOK, KnownPod, Accounted, LockOwner
  <1>3. KnownPod'
    BY DEF RunPodInv, TypeOK, KnownPod
  <1>4. Accounted'
    BY DEF RunPodInv, TypeOK, KnownPod, Accounted
  <1>5. Joined'
    BY DEF RunPodInv, TypeOK, KnownPod, Accounted, Joined
  <1> QED
    BY <1>1, <1>2, <1>3, <1>4, <1>5 DEF RunPodInv

\* A timer that was not cancelled expires.
LEMMA TimerWakesStep ==
    ASSUME BoundAssumption, RunPodInv, TimerWakes
    PROVE  RunPodInv'
  <1> USE DEF TimerWakes, report, events
  <1>1. TypeOK'
    <2>1. /\ pod' \in {"none", "running", "deleting", "gone"}
          /\ lock' \in {"none", "main", "timer"}
      BY DEF RunPodInv, TypeOK
    <2>2. /\ main' \in {"create", "reject", "rejecting", "known", "build",
                         "start", "work", "finally", "lock", "delete",
                         "confirm", "torn", "join", "report", "done", "escaped"}
          /\ timer' \in {"off", "built", "armed", "expired", "lock", "delete",
                          "confirm", "dead"}
      BY DEF RunPodInv, TypeOK
    <2>3. {podId, finished, cancelled, fired, closed, recovery, issues,
           teardown, critical, passed}' \subseteq BOOLEAN
      BY DEF RunPodInv, TypeOK
    <2>4. faults' \in 0..MaxFaults /\ signals' \in 0..MaxSignals
      BY DEF BoundAssumption, RunPodInv, TypeOK
    <2> QED
      BY <2>1, <2>2, <2>3, <2>4 DEF TypeOK
  <1>2. LockOwner'
    BY DEF RunPodInv, TypeOK, KnownPod, Accounted, LockOwner
  <1>3. KnownPod'
    BY DEF RunPodInv, TypeOK, KnownPod
  <1>4. Accounted'
    BY DEF RunPodInv, TypeOK, KnownPod, Accounted
  <1>5. Joined'
    BY DEF RunPodInv, TypeOK, KnownPod, Accounted, Joined
  <1> QED
    BY <1>1, <1>2, <1>3, <1>4, <1>5 DEF RunPodInv

\* A deadline that fires is not yet joined.
LEMMA FireStep ==
    ASSUME BoundAssumption, RunPodInv, Fire
    PROVE  RunPodInv'
  <1> USE DEF Fire, report, events
  <1>1. TypeOK'
    <2>1. /\ pod' \in {"none", "running", "deleting", "gone"}
          /\ lock' \in {"none", "main", "timer"}
      BY DEF RunPodInv, TypeOK
    <2>2. /\ main' \in {"create", "reject", "rejecting", "known", "build",
                         "start", "work", "finally", "lock", "delete",
                         "confirm", "torn", "join", "report", "done", "escaped"}
          /\ timer' \in {"off", "built", "armed", "expired", "lock", "delete",
                          "confirm", "dead"}
      BY DEF RunPodInv, TypeOK
    <2>3. {podId, finished, cancelled, fired, closed, recovery, issues,
           teardown, critical, passed}' \subseteq BOOLEAN
      BY DEF RunPodInv, TypeOK
    <2>4. faults' \in 0..MaxFaults /\ signals' \in 0..MaxSignals
      BY DEF BoundAssumption, RunPodInv, TypeOK
    <2> QED
      BY <2>1, <2>2, <2>3, <2>4 DEF TypeOK
  <1>2. LockOwner'
    BY DEF RunPodInv, TypeOK, KnownPod, Accounted, LockOwner
  <1>3. KnownPod'
    BY DEF RunPodInv, TypeOK, KnownPod
  <1>4. Accounted'
    BY DEF RunPodInv, TypeOK, KnownPod, Accounted
  <1>5. Joined'
    BY DEF RunPodInv, TypeOK, KnownPod, Accounted, Joined
  <1> QED
    BY <1>1, <1>2, <1>3, <1>4, <1>5 DEF RunPodInv

\* The deadline takes the lock, or ends when it was cancelled.
LEMMA TimerTakesLockStep ==
    ASSUME BoundAssumption, RunPodInv, TimerTakesLock
    PROVE  RunPodInv'
  <1> USE DEF TimerTakesLock, report, events
  <1>1. TypeOK'
    <2>1. /\ pod' \in {"none", "running", "deleting", "gone"}
          /\ lock' \in {"none", "main", "timer"}
      BY DEF RunPodInv, TypeOK
    <2>2. /\ main' \in {"create", "reject", "rejecting", "known", "build",
                         "start", "work", "finally", "lock", "delete",
                         "confirm", "torn", "join", "report", "done", "escaped"}
          /\ timer' \in {"off", "built", "armed", "expired", "lock", "delete",
                          "confirm", "dead"}
      BY DEF RunPodInv, TypeOK
    <2>3. {podId, finished, cancelled, fired, closed, recovery, issues,
           teardown, critical, passed}' \subseteq BOOLEAN
      BY DEF RunPodInv, TypeOK
    <2>4. faults' \in 0..MaxFaults /\ signals' \in 0..MaxSignals
      BY DEF BoundAssumption, RunPodInv, TypeOK
    <2> QED
      BY <2>1, <2>2, <2>3, <2>4 DEF TypeOK
  <1>2. LockOwner'
    BY DEF RunPodInv, TypeOK, KnownPod, Accounted, LockOwner
  <1>3. KnownPod'
    BY DEF RunPodInv, TypeOK, KnownPod
  <1>4. Accounted'
    BY DEF RunPodInv, TypeOK, KnownPod, Accounted
  <1>5. Joined'
    BY DEF RunPodInv, TypeOK, KnownPod, Accounted, Joined
  <1> QED
    BY <1>1, <1>2, <1>3, <1>4, <1>5 DEF RunPodInv

\* The deadline's teardown gives the lock back at its end.
LEMMA TimerTeardownStep ==
    ASSUME BoundAssumption, RunPodInv, TimerTeardown
    PROVE  RunPodInv'
  <1> USE DEF TimerTeardown, DeleteAccepted, DeleteFails, Confirmed, ConfirmFails, Fault, Exists, report, events
  <1>1. TypeOK'
    <2>1. /\ pod' \in {"none", "running", "deleting", "gone"}
          /\ lock' \in {"none", "main", "timer"}
      BY DEF RunPodInv, TypeOK
    <2>2. /\ main' \in {"create", "reject", "rejecting", "known", "build",
                         "start", "work", "finally", "lock", "delete",
                         "confirm", "torn", "join", "report", "done", "escaped"}
          /\ timer' \in {"off", "built", "armed", "expired", "lock", "delete",
                          "confirm", "dead"}
      BY DEF RunPodInv, TypeOK
    <2>3. {podId, finished, cancelled, fired, closed, recovery, issues,
           teardown, critical, passed}' \subseteq BOOLEAN
      BY DEF RunPodInv, TypeOK
    <2>4. faults' \in 0..MaxFaults /\ signals' \in 0..MaxSignals
      BY DEF BoundAssumption, RunPodInv, TypeOK
    <2> QED
      BY <2>1, <2>2, <2>3, <2>4 DEF TypeOK
  <1>2. LockOwner'
    BY DEF RunPodInv, TypeOK, KnownPod, Accounted, LockOwner
  <1>3. KnownPod'
    BY DEF RunPodInv, TypeOK, KnownPod
  <1>4. Accounted'
    BY DEF RunPodInv, TypeOK, KnownPod, Accounted
  <1>5. Joined'
    BY DEF RunPodInv, TypeOK, KnownPod, Accounted, Joined
  <1> QED
    BY <1>1, <1>2, <1>3, <1>4, <1>5 DEF RunPodInv

-----------------------------------------------------------------------------
(* The theorems *)

\* RunPodInv holds in every reachable state of the leg.
THEOREM RunPodInvariant == Spec => []RunPodInv
  <1>1. Init => RunPodInv
    <2> SUFFICES ASSUME Init PROVE RunPodInv
      OBVIOUS
    <2>1. {podId, finished, cancelled, fired, closed, recovery, issues,
           teardown, critical, passed} \subseteq BOOLEAN
      BY DEF Init
    <2>2. faults \in 0..MaxFaults /\ signals \in 0..MaxSignals
      BY BoundAssumption DEF BoundAssumption, Init
    <2>3. TypeOK
      BY <2>1, <2>2 DEF Init, TypeOK
    <2>4. LockOwner /\ KnownPod
      BY DEF Init, LockOwner, KnownPod
    <2>5. Accounted /\ Joined
      BY DEF Init, Accounted, Joined
    <2> QED
      BY <2>3, <2>4, <2>5 DEF RunPodInv
  <1>2. RunPodInv /\ [Next]_vars => RunPodInv'
    <2> SUFFICES ASSUME RunPodInv, [Next]_vars PROVE RunPodInv'
      OBVIOUS
    <2>1. CASE Provision \/ WorkEnds \/ Signal
      BY BoundAssumption, <2>1, CreateStep, RejectStep, StartTimerStep,
         WorkEndsStep, SignalStep DEF Provision
    <2>2. CASE Finally
      BY BoundAssumption, <2>2, RecoverStep, TakeLockStep, DeleteStep,
         ConfirmStep, TornStep, JoinStep, ReportStep DEF Finally
    <2>3. CASE Timer \/ PodDisappears
      BY BoundAssumption, <2>3, TimerWakesStep, FireStep, TimerTakesLockStep,
         TimerTeardownStep, PodDisappearsStep DEF Timer
    <2>4. CASE UNCHANGED vars
      BY <2>4 DEF vars, report, events, RunPodInv, TypeOK, LockOwner, KnownPod,
                  Accounted, Joined
    <2> QED
      BY <2>1, <2>2, <2>3, <2>4 DEF Next
  <1> QED
    BY <1>1, <1>2, PTL DEF Spec

\* A leg that passed leaves no pod behind, and its deadline never fired.
THEOREM PassIsClean == Spec => []PassedIsClean
  <1>1. RunPodInv => PassedIsClean
    BY DEF RunPodInv, TypeOK, KnownPod, Accounted, Joined, PassedIsClean
  <1> QED
    BY <1>1, RunPodInvariant, PTL

\* At the end of the leg a known pod is gone, or the report is critical.
THEOREM PodIsAccounted == Spec => []KnownPodAccounted
  <1>1. RunPodInv => KnownPodAccounted
    BY DEF RunPodInv, Accounted, KnownPodAccounted
  <1> QED
    BY <1>1, RunPodInvariant, PTL

\* The provider client is never closed under the timer thread.
THEOREM ClientIsSafe == Spec => []ClientOutlivesTimer
  <1>1. RunPodInv => ClientOutlivesTimer
    BY DEF RunPodInv, Joined, ClientOutlivesTimer
  <1> QED
    BY <1>1, RunPodInvariant, PTL
=============================================================================
