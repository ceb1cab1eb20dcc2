---------------------------- MODULE ReleaseGate ----------------------------
(***************************************************************************)
(* The composite release gate and its physical fleet leg                   *)
(* (_qualify_release_matrix and _qualify_physical_fleet in                 *)
(* src/src/skulk_test_harness/fresh_install.py): one main thread that      *)
(* takes the lease, stops the service of every member of the fleet,        *)
(* installs and runs a temporary one, removes it, restores the service,    *)
(* runs the RunPod leg, audits the fleet and disposes of the lease.        *)
(*                                                                         *)
(* What happens to the thread from outside: any remote operation fails, a  *)
(* report cannot be written (the reports are written at the entry and the  *)
(* exit of every stage of the leg, too), the heartbeat of the lease fails  *)
(* (its thread is LeaseHeartbeat), or a signal comes in. Two signal guards *)
(* are nested, the gate's and the leg's; the handler that a signal meets   *)
(* raises while its guard is in the work and defers during the recovery.   *)
(***************************************************************************)
EXTENDS Integers, FiniteSets

CONSTANTS
    Members,        \* the fleet has members 1..Members
    MaxFaults,      \* bound: failing operations
    MaxWriteFaults, \* bound: places where a report cannot be written
    MaxSignals      \* bound: termination signals

ASSUME GateAssumption ==
    /\ Members \in Nat \ {0}
    /\ MaxFaults \in Nat /\ MaxWriteFaults \in Nat /\ MaxSignals \in Nat

Fleet == 1..Members

VARIABLES
    pc,         \* where the main thread is
    k,          \* the member whose operation is next
    failed,     \* an operation of the current sweep failed
    orig,       \* is the original service of the member up?
    temp,       \* the member's temporary runtime: "none", "home", "running"
    root,       \* temporary_root is known
    stopped,    \* service_stopped
    cleanup,    \* cleanup_succeeded
    leg,        \* the fleet leg's report
    child,      \* the child report that the gate appends
    gate,       \* the gate's report: issues, critical, passed, released
    acquired, hbFailed, releaseFailed,
    beatFailed, \* the heartbeat recorded a failure
    lease,      \* the lease is held by this qualification
    guard,      \* whose handler is installed: the gate's or the leg's
    recovery,   \* begin_recovery was called, for each guard
    seen,       \* the guard has seen a signal
    faults,     \* failing operations, and the places of unwritten reports
    signals     \* signals so far

members == <<orig, temp, root, stopped>>
verdict == <<acquired, hbFailed, releaseFailed>>
guards  == <<guard, recovery, seen>>
vars == <<pc, k, failed, members, cleanup, leg, child, gate, verdict,
          beatFailed, lease, guards, faults, signals>>

-----------------------------------------------------------------------------
(* Failing and sweeping *)

Fault ==
    /\ faults.operation < MaxFaults
    /\ faults' = [faults EXCEPT !.operation = @ + 1]

\* The report cannot be written here.
WriteFault ==
    /\ Cardinality(faults.unwritten) < MaxWriteFaults
    /\ faults' = [faults EXCEPT !.unwritten = @ \cup {pc}]

Fine == UNCHANGED faults

\* An operation on every member, one after the other: it goes on behind a
\* member that fails, and fails at its end (_run_member_operations).
Sweep(done, broken) ==
    IF k < Members
    THEN /\ k' = k + 1
         /\ pc' = pc
    ELSE /\ k' = 1
         /\ pc' = IF failed' THEN broken ELSE done

\* The work of the leg ends with an exception; a LeaseHeartbeatError counts as
\* a failed heartbeat.
LegRaises(beat) ==
    /\ pc' = "leg finally" /\ k' = 1 /\ failed' = FALSE
    /\ leg' = [leg EXCEPT !.issues = TRUE, !.beat = beat]

\* The work of the gate ends with an exception.
GateRaises ==
    /\ pc' = "gate finally"
    /\ gate' = [gate EXCEPT !.issues = TRUE]

-----------------------------------------------------------------------------
(* The gate up to its fleet leg *)

\* acquire succeeds, is refused, or fails; a fault after the push leaves the
\* lease held by a qualification that does not know it.
Acquire ==
    /\ pc = "acquire"
    /\ \/ /\ Fine
          /\ lease' = TRUE /\ acquired' = TRUE
          /\ pc' = "start"
          /\ UNCHANGED gate
       \/ /\ (Fine /\ UNCHANGED lease) \/ (Fault /\ lease' \in BOOLEAN)
          /\ GateRaises
          /\ UNCHANGED acquired
    /\ UNCHANGED <<k, failed, members, cleanup, leg, child, hbFailed,
                   releaseFailed, beatFailed, guards, signals>>

\* The heartbeat starts, the reports are written, the leg's guard is entered.
EnterLeg ==
    /\ pc = "start"
    /\ \/ /\ Fine
          /\ pc' = "verify"
          /\ guard' = "leg"
          /\ UNCHANGED <<gate, hbFailed>>
       \/ /\ \/ Fault /\ hbFailed' \in BOOLEAN
             \/ WriteFault /\ UNCHANGED hbFailed
          /\ GateRaises
          /\ UNCHANGED guard
    /\ UNCHANGED <<k, failed, members, cleanup, leg, child, acquired,
                   releaseFailed, beatFailed, lease, recovery, seen, signals>>

-----------------------------------------------------------------------------
(* The work of the fleet leg *)

\* Verify the lease, open the tunnels, capture the snapshots of all members.
Prepare ==
    /\ pc = "verify"
    /\ \/ Fine /\ ~beatFailed /\ pc' = "stop" /\ UNCHANGED <<k, failed, leg>>
       \/ Fault /\ \E beat \in BOOLEAN : LegRaises(beat)
       \/ beatFailed /\ Fine /\ LegRaises(beatFailed)
    /\ UNCHANGED <<members, cleanup, child, gate, verdict, beatFailed, lease,
                   guards, signals>>

\* Mutant: a member counts as stopped when its stop command has returned.
StopMarkedLate ==
    /\ pc = "stop"
    /\ \/ /\ Fine /\ ~beatFailed
          /\ stopped' = [stopped EXCEPT ![k] = TRUE]
          /\ orig' = [orig EXCEPT ![k] = FALSE]
          /\ UNCHANGED <<failed, leg>>
          /\ Sweep("home", "home")
       \/ /\ Fault \/ (beatFailed /\ Fine)
          /\ \/ UNCHANGED orig
             \/ orig' = [orig EXCEPT ![k] = FALSE]
          /\ LegRaises(beatFailed)
          /\ UNCHANGED stopped
    /\ UNCHANGED <<temp, root, cleanup, child, gate, verdict, beatFailed,
                   lease, guards, signals>>

\* A member is marked as stopped before its service is; a failing stop leaves
\* the service in either state and ends the work at once.
Stop ==
    /\ pc = "stop"
    /\ stopped' = [stopped EXCEPT ![k] = TRUE]
    /\ \/ /\ Fine /\ ~beatFailed
          /\ orig' = [orig EXCEPT ![k] = FALSE]
          /\ UNCHANGED <<failed, leg>>
          /\ Sweep("home", "home")
       \/ /\ Fault \/ (beatFailed /\ Fine)
          /\ \/ UNCHANGED orig
             \/ orig' = [orig EXCEPT ![k] = FALSE]
          /\ LegRaises(beatFailed)
    /\ UNCHANGED <<temp, root, cleanup, child, gate, verdict, beatFailed,
                   lease, guards, signals>>

\* The end of a sweep over the members in the work.
WorkSweep(next) ==
    IF k = Members /\ failed'
    THEN pc' = "leg finally" /\ k' = 1 /\ leg' = [leg EXCEPT !.issues = TRUE]
    ELSE Sweep(next, next) /\ UNCHANGED leg

\* A temporary home on every member; the answer of a failing call is lost.
MakeHome ==
    /\ pc = "home"
    /\ \/ /\ Fine
          /\ temp' = [temp EXCEPT ![k] = "home"]
          /\ root' = [root EXCEPT ![k] = TRUE]
          /\ UNCHANGED failed
       \/ /\ Fault
          /\ temp' \in {temp, [temp EXCEPT ![k] = "home"]}
          /\ failed' = TRUE
          /\ UNCHANGED root
    /\ WorkSweep("run")
    /\ UNCHANGED <<orig, stopped, cleanup, child, gate, verdict, beatFailed,
                   lease, guards, signals>>

\* Install and start Skulk in the temporary home; a heartbeat failure leaves
\* the sweep at once.
Run ==
    /\ pc = "run"
    /\ \/ /\ Fine /\ ~beatFailed
          /\ temp' = [temp EXCEPT ![k] = "running"]
          /\ UNCHANGED failed
          /\ WorkSweep("qualify")
       \/ /\ Fault
          /\ temp' \in {temp, [temp EXCEPT ![k] = "running"]}
          /\ failed' = TRUE
          /\ WorkSweep("qualify")
       \/ /\ beatFailed /\ Fine
          /\ temp' \in {temp, [temp EXCEPT ![k] = "running"]}
          /\ LegRaises(beatFailed)
    /\ UNCHANGED <<orig, root, stopped, cleanup, child, gate, verdict,
                   beatFailed, lease, guards, signals>>

\* Models, dashboard and the complete E2E battery: passed or not.
Qualify ==
    /\ pc = "qualify"
    /\ \/ /\ Fine /\ ~beatFailed
          /\ pc' = "leg finally"
          /\ UNCHANGED <<k, failed, leg>>
       \/ (Fault \/ (beatFailed /\ Fine)) /\ LegRaises(beatFailed)
    /\ UNCHANGED <<members, cleanup, child, gate, verdict, beatFailed, lease,
                   guards, signals>>

\* The report of a stage of the work cannot be written: at its entry no member
\* is touched, and its exit is the entry of the next.
StageUnwritten ==
    /\ pc \in {"verify", "stop", "home", "run", "qualify"}
    /\ k = 1
    /\ WriteFault
    /\ LegRaises(FALSE)
    /\ UNCHANGED <<members, cleanup, child, gate, verdict, beatFailed, lease,
                   guards, signals>>

-----------------------------------------------------------------------------
(* The recovery of the fleet leg *)

LegRecovers ==
    /\ pc = "leg finally"
    /\ recovery' = [recovery EXCEPT !.leg = TRUE]
    /\ failed' = FALSE
    /\ pc' = "cleanup"
    /\ UNCHANGED <<k, members, cleanup, leg, child, gate, verdict, beatFailed,
                   lease, guard, seen, faults, signals>>

\* The temporary runtime and home of a member go, if the home is known.
Remove(m) ==
    /\ temp' = [temp EXCEPT ![m] = "none"]
    /\ root' = [root EXCEPT ![m] = FALSE]

\* After the cleanup the services are restored if any was stopped; if none
\* was, the restoration depends on the cleanup alone.
AfterCleanup ==
    LET any == \E m \in Fleet : stopped[m] IN
    /\ k' = 1
    /\ pc' = IF any THEN "restoration" ELSE "leg verdict"
    /\ leg' = [leg EXCEPT !.issues = @ \/ ~cleanup', !.restored = ~any]

\* Mutant: the cleanup ends at the first member that fails, unnoticed.
CleanupUnnoticed ==
    /\ pc = "cleanup" /\ UNCHANGED cleanup
    /\ \/ /\ Fine
          /\ IF root[k] THEN Remove(k) ELSE UNCHANGED <<temp, root>>
          /\ IF k < Members THEN k' = k + 1 /\ UNCHANGED <<pc, leg>>
                            ELSE AfterCleanup
       \/ /\ Fault
          /\ UNCHANGED <<temp, root>>
          /\ AfterCleanup
    /\ UNCHANGED <<orig, stopped, failed, child, gate, verdict, beatFailed,
                   lease, guards, signals>>

\* stop and remove every temporary installation, past a member that fails.
Cleanup ==
    /\ pc = "cleanup"
    /\ \/ /\ Fine
          /\ IF root[k] THEN Remove(k) ELSE UNCHANGED <<temp, root>>
          /\ UNCHANGED cleanup
       \/ /\ Fault
          /\ temp' \in {temp, IF root[k] THEN [temp EXCEPT ![k] = "home"]
                              ELSE temp}
          /\ cleanup' = FALSE
          /\ UNCHANGED root
    /\ IF k < Members THEN k' = k + 1 /\ UNCHANGED <<pc, leg>>
                      ELSE AfterCleanup
    /\ UNCHANGED <<orig, stopped, failed, child, gate, verdict, beatFailed,
                   lease, guards, signals>>

\* Mutant: the stage of the cleanup is outside of its try.
CleanupUncaught ==
    /\ pc = "cleanup" /\ k = 1
    /\ WriteFault
    /\ GateRaises /\ guard' = "gate"
    /\ UNCHANGED <<k, failed, members, cleanup, leg, child, verdict, beatFailed,
                   lease, recovery, seen, signals>>

\* The report of the cleanup cannot be written: at the entry of its stage no
\* member is cleaned, at its exit all have been; either way the cleanup failed.
CleanupUnwritten ==
    /\ pc = "cleanup"
    /\ WriteFault
    /\ \/ k = 1 /\ UNCHANGED <<temp, root>>
       \/ k = Members /\ IF root[k] THEN Remove(k) ELSE UNCHANGED <<temp, root>>
    /\ cleanup' = FALSE
    /\ AfterCleanup
    /\ UNCHANGED <<orig, stopped, failed, child, gate, verdict, beatFailed,
                   lease, guards, signals>>

\* The stage of the restoration is entered; when its report cannot be written
\* no service is started, and the leg goes on to its verdict.
EnterRestore ==
    /\ pc = "restoration"
    /\ \/ Fine /\ pc' = "restore" /\ UNCHANGED leg
       \/ /\ WriteFault
          /\ pc' = "leg verdict"
          /\ leg' = [leg EXCEPT !.issues = TRUE]
    /\ UNCHANGED <<k, failed, members, cleanup, child, gate, verdict,
                   beatFailed, lease, guards, signals>>

\* Start the original service of every stopped member. When all have started
\* the topology and the state of every member are verified; a start that
\* failed, or a topology that does not converge, stops them all again.
Restore ==
    /\ pc = "restore"
    /\ \/ /\ Fine
          /\ orig' = [orig EXCEPT ![k] = @ \/ stopped[k]]
          /\ UNCHANGED failed
       \/ /\ Fault
          /\ orig' \in {orig, [orig EXCEPT ![k] = @ \/ stopped[k]]}
          /\ failed' = TRUE
    /\ Sweep("converge", "unrestore")
    /\ UNCHANGED <<temp, root, stopped, cleanup, leg, child, gate, verdict,
                   beatFailed, lease, guards, signals>>

Converge ==
    /\ pc = "converge"
    /\ \/ Fine /\ pc' = IF \A m \in Fleet : orig[m] THEN "verified"
                                                ELSE "unrestore"
       \/ Fault /\ pc' = "unrestore"
    /\ UNCHANGED <<k, failed, members, cleanup, leg, child, gate, verdict,
                   beatFailed, lease, guards, signals>>

Unrestore ==
    /\ pc = "unrestore"
    /\ \/ Fine /\ orig' = [orig EXCEPT ![k] = @ /\ ~stopped[k]]
       \/ Fault /\ UNCHANGED orig
    /\ k' = IF k < Members THEN k + 1 ELSE 1
    /\ pc' = IF k < Members THEN pc ELSE "leg verdict"
    /\ failed' = FALSE
    /\ leg' = [leg EXCEPT !.issues = TRUE]
    /\ UNCHANGED <<temp, root, stopped, cleanup, child, gate, verdict,
                   beatFailed, lease, guards, signals>>

\* The configuration files are put back and every member is compared with
\* its snapshot. A report that cannot be written now makes the restoration
\* fail although the members no longer count as stopped.
Verify ==
    /\ pc = "verified"
    /\ pc' = "leg verdict"
    /\ \/ /\ Fine
          /\ leg' = [leg EXCEPT !.restored = TRUE]
          /\ stopped' = [m \in Fleet |-> FALSE]
       \/ /\ Fault
          /\ leg' = [leg EXCEPT !.issues = TRUE]
          /\ UNCHANGED stopped
       \/ /\ WriteFault
          /\ leg' = [leg EXCEPT !.issues = TRUE]
          /\ stopped' = [m \in Fleet |-> FALSE]
    /\ UNCHANGED <<k, failed, orig, temp, root, cleanup, child, gate, verdict,
                   beatFailed, lease, guards, signals>>

\* Mutant: a failed cleanup does not count against the restoration.
LegVerdictLenient ==
    /\ pc = "leg verdict"
    /\ LET restored == leg.restored
           issues == leg.issues \/ beatFailed \/ seen.leg IN
       leg' = [restored |-> restored,
               critical |-> ~restored \/ beatFailed \/ leg.beat,
               issues   |-> issues, beat |-> leg.beat,
               passed   |-> ~issues /\ restored]
    /\ pc' = "persist"
    /\ UNCHANGED <<k, failed, members, cleanup, child, gate, verdict,
                   beatFailed, lease, guards, faults, signals>>

\* restoration_succeeded needs the cleanup and, if a service was stopped, its
\* verified restoration; without either, or with a failed heartbeat, the leg
\* is critical. A signal deferred until here is an issue.
LegVerdict ==
    /\ pc = "leg verdict"
    /\ LET restored == cleanup /\ leg.restored
           issues == leg.issues \/ beatFailed \/ seen.leg IN
       leg' = [restored |-> restored,
               critical |-> ~restored \/ beatFailed \/ leg.beat,
               issues   |-> issues, beat |-> leg.beat,
               passed   |-> ~issues /\ restored]
    /\ pc' = "persist"
    /\ UNCHANGED <<k, failed, members, cleanup, child, gate, verdict,
                   beatFailed, lease, guards, faults, signals>>

\* The report is written, the leg's guard is left; a report that cannot be
\* written leaves the leg as an exception of the gate.
LeaveLeg ==
    /\ pc = "persist"
    /\ guard' = "gate"
    /\ \/ /\ Fine
          /\ child' = leg
          /\ pc' = "append"
          /\ UNCHANGED gate
       \/ /\ WriteFault
          /\ GateRaises
          /\ UNCHANGED child
    /\ UNCHANGED <<k, failed, members, cleanup, leg, verdict, beatFailed, lease,
                   recovery, seen, signals>>

-----------------------------------------------------------------------------
(* The gate behind its legs *)

\* The evidence of the child is appended and the gate's report written,
\* before the child is looked at.
Append ==
    /\ pc \in {"append", "append runpod"}
    /\ \/ /\ Fine
          /\ pc' = IF pc = "append" THEN "judge" ELSE "judge runpod"
          /\ UNCHANGED gate
       \/ WriteFault /\ GateRaises
    /\ UNCHANGED <<k, failed, members, cleanup, leg, child, verdict, beatFailed,
                   lease, guards, signals>>

\* A child that did not pass ends the work; it makes the gate critical when
\* it is critical itself.
Judge ==
    /\ pc \in {"judge", "judge runpod"}
    /\ IF child.passed
       THEN /\ pc' = IF pc = "judge" THEN "runpod" ELSE "audit"
            /\ UNCHANGED gate
       ELSE /\ pc' = "gate finally"
            /\ gate' = [gate EXCEPT !.issues = TRUE,
                                    !.critical = @ \/ child.critical]
    /\ UNCHANGED <<k, failed, members, cleanup, leg, child, verdict, beatFailed,
                   lease, guards, faults, signals>>

\* The RunPod leg, with a signal guard of its own (RunPodLeg): it is passed,
\* failed or critical, or it ends with an exception.
RunPod ==
    /\ pc = "runpod"
    /\ \/ /\ Fine /\ ~beatFailed
          /\ child' = [child EXCEPT !.passed = TRUE, !.critical = FALSE]
          /\ pc' = "append runpod"
          /\ UNCHANGED gate
       \/ /\ Fault \/ (beatFailed /\ Fine)
          /\ \E c \in BOOLEAN :
                child' = [child EXCEPT !.passed = FALSE, !.critical = c]
          /\ pc' = "append runpod"
          /\ UNCHANGED gate
       \/ /\ Fault \/ (beatFailed /\ Fine)
          /\ GateRaises
          /\ UNCHANGED child
    /\ UNCHANGED <<k, failed, members, cleanup, leg, verdict, beatFailed, lease,
                   guards, signals>>

\* A last look at the heartbeat, then the independent audit of the restored
\* fleet; an audit that fails makes the gate critical.
Audit ==
    /\ pc = "audit"
    /\ pc' = "gate finally"
    /\ \/ Fine /\ ~beatFailed /\ UNCHANGED gate
       \/ Fine /\ beatFailed /\ gate' = [gate EXCEPT !.issues = TRUE]
       \/ Fault /\ gate' = [gate EXCEPT !.issues = TRUE, !.critical = TRUE]
    /\ UNCHANGED <<k, failed, members, cleanup, leg, child, verdict, beatFailed,
                   lease, guards, signals>>

-----------------------------------------------------------------------------
(* The finally of the gate *)

\* begin_recovery, and the heartbeat is looked at, stopped, and looked at
\* again (see LeaseHeartbeat).
GateRecovers ==
    /\ pc = "gate finally"
    /\ recovery' = [recovery EXCEPT !.gate = TRUE]
    /\ \/ Fine /\ UNCHANGED beatFailed
       \/ Fault /\ beatFailed' = TRUE
    /\ hbFailed' = (hbFailed \/ beatFailed')
    /\ gate' = [gate EXCEPT !.issues = @ \/ beatFailed']
    /\ pc' = "lease"
    /\ UNCHANGED <<k, failed, members, cleanup, leg, child, acquired,
                   releaseFailed, lease, guard, seen, signals>>

\* The lease is released unless the gate is critical or its heartbeat failed.
\* A release that is refused counts as failed; one that raises leaves the
\* finally, for nothing catches it here.
Release ==
    /\ pc = "lease"
    /\ \/ /\ acquired /\ ~gate.critical /\ ~hbFailed
          /\ \/ /\ Fine
                /\ lease' = FALSE
                /\ gate' = [gate EXCEPT !.released = TRUE]
                /\ pc' = "report"
                /\ UNCHANGED releaseFailed
             \/ /\ Fault
                /\ releaseFailed' = TRUE
                /\ gate' = [gate EXCEPT !.issues = TRUE]
                /\ lease' \in {lease, FALSE}
                /\ pc' = "extend"
             \/ /\ Fault
                /\ lease' \in {lease, FALSE}
                /\ pc' = "escaped"
                /\ UNCHANGED <<releaseFailed, gate>>
       \/ /\ ~(acquired /\ ~gate.critical /\ ~hbFailed)
          /\ pc' = IF acquired THEN "extend" ELSE "report"
          /\ Fine
          /\ UNCHANGED <<lease, releaseFailed, gate>>
    /\ UNCHANGED <<k, failed, members, cleanup, leg, child, acquired, hbFailed,
                   beatFailed, guards, signals>>

\* Mutant: the emergency extension is asked for again and again.
ExtendForEver ==
    /\ pc = "extend"
    /\ gate' = [gate EXCEPT !.critical = TRUE, !.issues = TRUE]
    /\ UNCHANGED <<pc, k, failed, members, cleanup, leg, child, verdict,
                   beatFailed, lease, guards, faults, signals>>

\* The critical outcome: the emergency extension succeeds or is an issue, and
\* the lease stays held.
ExtendLease ==
    /\ pc = "extend"
    /\ gate' = [gate EXCEPT !.critical = TRUE, !.issues = TRUE]
    /\ pc' = "report"
    /\ UNCHANGED <<k, failed, members, cleanup, leg, child, verdict, beatFailed,
                   lease, guards, faults, signals>>

\* A signal seen by the gate's guard is an issue; the verdict is drawn and the
\* report written, or the gate ends with the exception of the write.
Report ==
    /\ pc = "report"
    /\ \/ /\ Fine
          /\ gate' = [gate EXCEPT
                        !.issues = @ \/ seen.gate,
                        !.passed = ~gate.issues /\ ~seen.gate
                                   /\ gate.released /\ ~gate.critical]
          /\ pc' = "reported"
       \/ WriteFault /\ pc' = "escaped" /\ UNCHANGED gate
    /\ UNCHANGED <<k, failed, members, cleanup, leg, child, verdict, beatFailed,
                   lease, guards, signals>>

-----------------------------------------------------------------------------
(* From outside *)

\* The heartbeat thread fails while it runs.
BeatFails ==
    /\ acquired /\ pc \notin {"start", "lease", "extend", "report", "reported",
                              "escaped"}
    /\ ~beatFailed
    /\ Fault
    /\ beatFailed' = TRUE
    /\ UNCHANGED <<pc, k, failed, members, cleanup, leg, child, gate, verdict,
                   lease, guards, signals>>

\* What the operation that a signal interrupts may have done already.
HalfDone ==
    \/ UNCHANGED members
    \/ /\ pc = "stop"
       /\ stopped' = [stopped EXCEPT ![k] = TRUE]
       /\ orig' \in {orig, [orig EXCEPT ![k] = FALSE]}
       /\ UNCHANGED <<temp, root>>
    \/ /\ pc = "home" /\ temp' = [temp EXCEPT ![k] = "home"]
       /\ UNCHANGED <<orig, root, stopped>>
    \/ /\ pc = "run" /\ temp' = [temp EXCEPT ![k] = "running"]
       /\ UNCHANGED <<orig, root, stopped>>

\* A signal that the handler of the innermost guard sees: deferred during the
\* recovery; in the work of the leg, or of the gate, an exception there. One
\* in the first moment of a finally leaves that finally.
Signal ==
    /\ pc \notin {"reported", "escaped"}
    /\ signals < MaxSignals
    /\ signals' = signals + 1
    /\ seen' = [seen EXCEPT ![guard] = TRUE]
    /\ IF recovery[guard]
       THEN UNCHANGED <<pc, k, failed, leg, gate, guard, members>>
       ELSE IF guard = "leg"
       THEN IF pc = "leg finally"
            THEN /\ GateRaises /\ guard' = "gate"
                 /\ UNCHANGED <<k, failed, leg, members>>
            ELSE LegRaises(FALSE) /\ HalfDone /\ UNCHANGED <<gate, guard>>
       ELSE /\ IF pc = "gate finally" THEN pc' = "escaped" /\ UNCHANGED gate
               ELSE GateRaises
            /\ UNCHANGED <<k, failed, leg, guard, members>>
    /\ UNCHANGED <<cleanup, child, verdict, beatFailed, lease,
                   recovery, faults>>

-----------------------------------------------------------------------------
Init ==
    /\ pc = "acquire" /\ k = 1 /\ failed = FALSE
    /\ orig = [m \in Fleet |-> TRUE]
    /\ temp = [m \in Fleet |-> "none"]
    /\ root = [m \in Fleet |-> FALSE]
    /\ stopped = [m \in Fleet |-> FALSE]
    /\ cleanup = TRUE
    /\ leg = [restored |-> FALSE, critical |-> FALSE, issues |-> FALSE,
              beat |-> FALSE, passed |-> FALSE]
    /\ child = leg
    /\ gate = [issues |-> FALSE, critical |-> FALSE, released |-> FALSE,
               passed |-> FALSE]
    /\ acquired = FALSE /\ hbFailed = FALSE /\ releaseFailed = FALSE
    /\ beatFailed = FALSE /\ lease = FALSE
    /\ guard = "gate"
    /\ recovery = [gate |-> FALSE, leg |-> FALSE]
    /\ seen = [gate |-> FALSE, leg |-> FALSE]
    /\ faults = [operation |-> 0, unwritten |-> {}] /\ signals = 0

LegWork == Prepare \/ Stop \/ MakeHome \/ Run \/ Qualify \/ StageUnwritten
LegRecovery == \/ LegRecovers \/ Cleanup \/ CleanupUnwritten \/ EnterRestore
               \/ Restore \/ Converge \/ Unrestore \/ Verify \/ LegVerdict
               \/ LeaveLeg
GateWork == Acquire \/ EnterLeg \/ Append \/ Judge \/ RunPod \/ Audit
GateRecovery == GateRecovers \/ Release \/ ExtendLease \/ Report
Main == LegWork \/ LegRecovery \/ GateWork \/ GateRecovery
Next == Main \/ BeatFails \/ Signal

Spec == Init /\ [][Next]_vars
FairSpec == Spec /\ WF_vars(Main)

-----------------------------------------------------------------------------
(* Properties *)

Records == [restored : BOOLEAN, critical : BOOLEAN, issues : BOOLEAN,
            beat : BOOLEAN, passed : BOOLEAN]

Places ==
    {"acquire", "start", "verify", "stop", "home", "run", "qualify",
     "leg finally", "cleanup", "restoration", "restore", "converge",
     "unrestore", "verified", "leg verdict", "persist", "append", "judge",
     "runpod", "append runpod", "judge runpod", "audit", "gate finally",
     "lease", "extend", "report", "reported", "escaped"}

GateRecords == [issues : BOOLEAN, critical : BOOLEAN, released : BOOLEAN,
                passed : BOOLEAN]
FaultCounts == [operation : 0..MaxFaults, unwritten : SUBSET Places]

TypeOK ==
    /\ pc \in Places
    /\ k \in Fleet
    /\ {orig, root, stopped} \subseteq [Fleet -> BOOLEAN]
    /\ temp \in [Fleet -> {"none", "home", "running"}]
    /\ leg \in Records /\ child \in Records
    /\ gate \in GateRecords
    /\ {failed, cleanup, acquired, hbFailed, releaseFailed, beatFailed, lease}
          \subseteq BOOLEAN
    /\ guard \in {"gate", "leg"}
    /\ {recovery, seen} \subseteq [gate : BOOLEAN, leg : BOOLEAN]
    /\ faults \in FaultCounts
    /\ signals \in 0..MaxSignals

\* The fleet as it was: every service up, no temporary runtime anywhere.
AllUp == \A m \in Fleet : orig[m]
NoneRuns == \A m \in Fleet : temp[m] # "running"
Untouched == AllUp /\ NoneRuns

\* A gate that passed has given a fleet back that is as it was, and holds no
\* lease, whatever failed and whenever signals came in.
PassedIsRestored ==
    gate.passed => Untouched /\ ~lease /\ ~beatFailed /\ child.passed

\* A leg that returns with a fleet it did not restore is critical, whichever
\* of its steps failed.
UnrestoredIsCritical ==
    pc = "append" /\ ~Untouched => leg.critical

\* The report that carries the verdict of the leg, or the gate's report behind
\* it, could not be written.
VerdictLost == "persist" \in faults.unwritten \/ "append" \in faults.unwritten

\* The lease is never released on a fleet that was not given back, whatever
\* failed and whatever else could not be written, as long as the verdict of
\* the leg came through to the gate and no signal came in.
LeaseKeptIfReported ==
    gate.released /\ ~Untouched => VerdictLost \/ signals > 0

\* Every gate ends: with its report, or with an exception that leaves it.
GateEnds == <>(pc \in {"reported", "escaped"})

\* Once the recovery of the leg has begun it comes to start every service that
\* was stopped, whatever cleanup or start of another member fails, although
\* the report of the cleanup cannot be written, and whatever signals come in.
\* Only the report written at the entry of the restoration keeps all of them
\* down.
StoppedIsRestarted ==
    \A m \in Fleet :
        stopped[m] /\ pc = "cleanup"
            ~> (pc = "restore" /\ k = m) \/ "restoration" \in faults.unwritten

-----------------------------------------------------------------------------
(* The inductive invariant *)

LegPlaces == {"verify", "stop", "home", "run", "qualify", "leg finally"}
RecoveryPlaces == {"cleanup", "restoration", "restore", "converge",
                   "unrestore", "verified", "leg verdict", "persist"}
EndPlaces == {"lease", "extend", "report", "reported"}

\* A service is down only on a member that is marked as stopped, a temporary
\* runtime runs only in a home that is known.
Marked ==
    \A m \in Fleet :
        (~orig[m] => stopped[m]) /\ (temp[m] = "running" => root[m])

\* The members before n have a known home, or have been cleaned.
HomesTo(n) == \A m \in Fleet : m < n => root[m]
CleanTo(n) == \A m \in Fleet : m < n => temp[m] # "running"

\* What each place of the leg's work and recovery knows of the members.
Placed ==
    /\ pc \in {"acquire", "start", "verify"} => AllUp
    /\ pc \in {"acquire", "start", "verify", "stop"} => ~failed
    /\ pc \in {"qualify", "leg finally"} => k = 1
    /\ pc \in {"acquire", "start", "verify", "stop", "home"} => NoneRuns
    /\ pc = "home" /\ ~failed => HomesTo(k)
    /\ pc = "run" => HomesTo(Members + 1)
    /\ pc = "cleanup" /\ cleanup => CleanTo(k)
    /\ pc \in RecoveryPlaces \ {"cleanup"} /\ cleanup => NoneRuns
    /\ pc = "verified" \/ (pc = "leg verdict" /\ leg.restored) => AllUp
    /\ pc \in {"acquire", "start"} \cup LegPlaces => cleanup
    /\ pc \in {"acquire", "start"} \cup LegPlaces
             \cup (RecoveryPlaces \ {"leg verdict", "persist"}) => ~leg.restored

\* The verdict of the leg, and what the gate has made of it.
Judged ==
    /\ pc \in {"persist", "append", "judge"} =>
          /\ leg.restored => Untouched
          /\ ~leg.restored => leg.critical
          /\ leg.passed => leg.restored
    /\ pc \in {"append", "judge"} => child = leg
    /\ pc \in {"runpod", "append runpod", "judge runpod", "audit"} => Untouched
    /\ pc = "audit" => child.passed

\* The verdict of the leg was lost or a signal came in.
Blind == VerdictLost \/ signals > 0

\* The finally of the gate: a fleet that was not given back is known, unless
\* the verdict was lost or a signal got in between; without an issue all went
\* well.
Ending ==
    /\ pc \in {"gate finally"} \cup EndPlaces =>
          /\ Untouched \/ gate.critical \/ Blind
          /\ ~gate.issues => Untouched /\ child.passed
    /\ pc \in EndPlaces /\ beatFailed => gate.issues
    /\ gate.released =>
          /\ pc \in {"report", "reported", "escaped"}
          /\ ~lease
          /\ Untouched \/ Blind
    /\ gate.passed => pc = "reported" /\ gate.released /\ ~gate.issues

\* Which handler a signal meets.
Guarded ==
    /\ guard = "leg" <=> pc \in LegPlaces \cup RecoveryPlaces
    /\ pc \in EndPlaces => recovery.gate
    /\ pc \in {"acquire", "start"} \cup LegPlaces => ~recovery.leg
    /\ pc \in RecoveryPlaces => recovery.leg

GateInv == TypeOK /\ Marked /\ Placed /\ Judged /\ Ending /\ Guarded

-----------------------------------------------------------------------------
(* What the documentation says and the code does not keep *)

\* The lease is released only when the fleet is restored.
LeaseKeptUntilRestored == gate.released => Untouched

=============================================================================
