------------------------- MODULE ReleaseGateProofs -------------------------
(***************************************************************************)
(* Proofs about ReleaseGate for every number of members, failures, reports *)
(* that cannot be written and signals: GateInv is an invariant, so a gate  *)
(* that passed gave the fleet back, a fleet leg that did not is critical,  *)
(* and the lease is released on an unrestored fleet only when the verdict  *)
(* of the leg was lost or a signal came in.                                *)
(***************************************************************************)
EXTENDS ReleaseGate, TLAPS

-----------------------------------------------------------------------------
(* What the shared parts of the actions do. *)

\* Whatever fails, a lost verdict stays lost.
LEMMA FaultFacts ==
    ASSUME GateAssumption, TypeOK, Fault \/ WriteFault \/ Fine
    PROVE  faults' \in FaultCounts /\ (VerdictLost => VerdictLost')
  <1>1. faults \in FaultCounts /\ pc \in Places
    BY DEF TypeOK
  <1>2. CASE Fault
    BY <1>1, <1>2 DEF GateAssumption, FaultCounts, Fault, VerdictLost
  <1>3. CASE WriteFault
    BY <1>1, <1>3 DEF FaultCounts, WriteFault, VerdictLost
  <1>4. CASE Fine
    BY <1>1, <1>4 DEF Fine, VerdictLost
  <1> QED
    BY <1>2, <1>3, <1>4

\* The verdict of the leg is lost with its report, or with the gate's report
\* behind it.
LEMMA LostFacts ==
    ASSUME TypeOK, WriteFault, pc \in {"persist", "append"}
    PROVE  VerdictLost'
  BY DEF TypeOK, FaultCounts, WriteFault, VerdictLost

\* An exception of the gate's work is an issue, and nothing else.
LEMMA GateRaisesFacts ==
    ASSUME TypeOK, GateRaises
    PROVE  /\ pc' = "gate finally"
           /\ gate' \in GateRecords
           /\ gate'.issues
           /\ gate'.critical = gate.critical
           /\ gate'.released = gate.released
           /\ gate'.passed = gate.passed
  BY DEF TypeOK, GateRecords, GateRaises

\* An exception of the leg's work leads to its finally.
LEMMA LegRaisesFacts ==
    ASSUME GateAssumption, TypeOK, NEW beat \in BOOLEAN, LegRaises(beat)
    PROVE  /\ pc' = "leg finally"
           /\ k' = 1 /\ k' \in Fleet /\ failed' = FALSE
           /\ leg' \in Records
           /\ leg'.restored = leg.restored
  <1>1. pc' = "leg finally" /\ k' = 1 /\ failed' = FALSE
    BY DEF LegRaises
  <1>2. 1 \in Fleet
    BY DEF GateAssumption, Fleet
  <1>3. leg \in Records /\ leg' = [leg EXCEPT !.issues = TRUE, !.beat = beat]
    BY DEF TypeOK, LegRaises
  <1>4. leg' \in Records /\ leg'.restored = leg.restored
    BY <1>3 DEF Records
  <1> QED
    BY <1>1, <1>2, <1>4

\* What is said of the members stays true while they are left alone.
LEMMA MembersFrame ==
    ASSUME UNCHANGED members
    PROVE  /\ AllUp' = AllUp /\ NoneRuns' = NoneRuns
           /\ Untouched' = Untouched /\ Marked' = Marked
  BY DEF members, AllUp, NoneRuns, Untouched, Marked

-----------------------------------------------------------------------------
(* Steps that leave the members alone *)

\* The gate has touched nothing.
LEMMA AcquireStep ==
    ASSUME GateAssumption, GateInv, Acquire
    PROVE  GateInv'
  <1>1. /\ pc = "acquire" /\ (Fault \/ Fine)
        /\ (pc' = "start" /\ UNCHANGED gate) \/ GateRaises
        /\ {acquired, lease}' \subseteq BOOLEAN
        /\ UNCHANGED <<k, failed, members, cleanup, leg, child, hbFailed,
                       releaseFailed, beatFailed, guards, signals>>
    BY DEF Acquire, GateInv, TypeOK
  <1>2. /\ faults' \in FaultCounts /\ (VerdictLost => VerdictLost')
        /\ gate' \in GateRecords /\ gate'.released = gate.released
        /\ gate'.passed = gate.passed
        /\ \/ pc' = "start"
           \/ pc' = "gate finally" /\ gate'.issues
    BY <1>1, FaultFacts, GateRaisesFacts DEF GateInv, TypeOK
  <1>3. /\ AllUp' = AllUp /\ NoneRuns' = NoneRuns
        /\ Untouched' = Untouched /\ Marked' = Marked
    BY <1>1, MembersFrame
  <1>4. TypeOK'
    BY <1>1, <1>2 DEF GateInv, TypeOK, Places, members, guards, verdict
  <1>5. Placed'
    BY <1>1, <1>2, <1>3 DEF GateInv, TypeOK, Placed, LegPlaces, RecoveryPlaces
  <1>6. Judged' /\ Ending'
    BY <1>1, <1>2, <1>3 DEF GateInv, TypeOK, Placed, Judged, Ending, Blind,
                             EndPlaces, Untouched, LegPlaces, RecoveryPlaces, verdict
  <1>7. Guarded'
    BY <1>1, <1>2 DEF GateInv, TypeOK, Guarded, guards, LegPlaces,
                        RecoveryPlaces, EndPlaces
  <1> QED
    BY <1>3, <1>4, <1>5, <1>6, <1>7 DEF GateInv

\* The leg begins with an untouched fleet and its own guard.
LEMMA EnterLegStep ==
    ASSUME GateAssumption, GateInv, EnterLeg
    PROVE  GateInv'
  <1>1. /\ pc = "start" /\ (Fault \/ WriteFault \/ Fine)
        /\ \/ pc' = "verify" /\ guard' = "leg" /\ UNCHANGED gate
           \/ GateRaises /\ UNCHANGED guard
        /\ hbFailed' \in BOOLEAN
        /\ UNCHANGED <<k, failed, members, cleanup, leg, child, acquired, lease,
                       releaseFailed, beatFailed, recovery, seen, signals>>
    BY DEF EnterLeg, GateInv, TypeOK
  <1>2. /\ faults' \in FaultCounts /\ (VerdictLost => VerdictLost')
        /\ gate' \in GateRecords /\ gate'.released = gate.released
        /\ gate'.passed = gate.passed
        /\ \/ pc' = "verify" /\ guard' = "leg"
           \/ pc' = "gate finally" /\ gate'.issues /\ guard' = guard
    BY <1>1, FaultFacts, GateRaisesFacts DEF GateInv, TypeOK
  <1>3. /\ AllUp' = AllUp /\ NoneRuns' = NoneRuns
        /\ Untouched' = Untouched /\ Marked' = Marked
    BY <1>1, MembersFrame
  <1>4. TypeOK'
    BY <1>1, <1>2 DEF GateInv, TypeOK, Places, members, guards, verdict
  <1>5. Placed'
    BY <1>1, <1>2, <1>3 DEF GateInv, TypeOK, Placed, LegPlaces, RecoveryPlaces
  <1>6. Judged' /\ Ending'
    BY <1>1, <1>2, <1>3 DEF GateInv, TypeOK, Placed, Judged, Ending, Blind,
                             EndPlaces, Untouched, LegPlaces, RecoveryPlaces, verdict
  <1>7. Guarded'
    BY <1>1, <1>2 DEF GateInv, TypeOK, Guarded, guards, LegPlaces,
                        RecoveryPlaces, EndPlaces
  <1> QED
    BY <1>3, <1>4, <1>5, <1>6, <1>7 DEF GateInv

\* The preparation only looks.
LEMMA PrepareStep ==
    ASSUME GateAssumption, GateInv, Prepare
    PROVE  GateInv'
  <1>1. /\ pc = "verify" /\ (Fault \/ Fine)
        /\ \/ pc' = "stop" /\ UNCHANGED <<k, failed, leg>>
           \/ \E beat \in BOOLEAN : LegRaises(beat)
        /\ UNCHANGED <<members, cleanup, child, gate, verdict, beatFailed, lease,
                       guards, signals>>
    BY DEF Prepare, GateInv, TypeOK
  <1>2. /\ faults' \in FaultCounts /\ (VerdictLost => VerdictLost')
        /\ leg' \in Records /\ leg'.restored = leg.restored
        /\ k' \in Fleet /\ failed' \in BOOLEAN
        /\ \/ pc' = "stop" /\ failed' = failed
           \/ pc' = "leg finally" /\ k' = 1
    BY <1>1, FaultFacts, LegRaisesFacts DEF GateInv, TypeOK
  <1>3. /\ AllUp' = AllUp /\ NoneRuns' = NoneRuns
        /\ Untouched' = Untouched /\ Marked' = Marked
    BY <1>1, MembersFrame
  <1>4. TypeOK'
    BY <1>1, <1>2 DEF GateInv, TypeOK, Places, members, guards, verdict
  <1>5. Placed'
    BY <1>1, <1>2, <1>3 DEF GateInv, TypeOK, Placed, LegPlaces, RecoveryPlaces
  <1>6. Judged' /\ Ending'
    BY <1>1, <1>2, <1>3 DEF GateInv, TypeOK, Placed, Judged, Ending, Blind,
                             EndPlaces, Untouched, LegPlaces, RecoveryPlaces, verdict
  <1>7. Guarded'
    BY <1>1, <1>2 DEF GateInv, TypeOK, Guarded, guards, LegPlaces,
                        RecoveryPlaces, EndPlaces
  <1> QED
    BY <1>3, <1>4, <1>5, <1>6, <1>7 DEF GateInv

\* A stage of the work that cannot be written down ends the work.
LEMMA StageUnwrittenStep ==
    ASSUME GateAssumption, GateInv, StageUnwritten
    PROVE  GateInv'
  <1>1. /\ pc \in LegPlaces /\ WriteFault /\ LegRaises(FALSE)
        /\ UNCHANGED <<members, cleanup, child, gate, verdict, beatFailed, lease,
                       guards, signals>>
    BY DEF StageUnwritten, LegPlaces
  <1>2. /\ faults' \in FaultCounts /\ (VerdictLost => VerdictLost')
        /\ leg' \in Records /\ leg'.restored = leg.restored
        /\ pc' = "leg finally" /\ k' = 1 /\ k' \in Fleet /\ failed' = FALSE
    BY <1>1, FaultFacts, LegRaisesFacts DEF GateInv
  <1>3. /\ AllUp' = AllUp /\ NoneRuns' = NoneRuns
        /\ Untouched' = Untouched /\ Marked' = Marked
    BY <1>1, MembersFrame
  <1>4. TypeOK'
    BY <1>1, <1>2 DEF GateInv, TypeOK, Places, members, guards, verdict
  <1>5. Placed'
    BY <1>1, <1>2, <1>3 DEF GateInv, TypeOK, Placed, LegPlaces, RecoveryPlaces
  <1>6. Judged' /\ Ending'
    BY <1>1, <1>2, <1>3 DEF GateInv, TypeOK, Placed, Judged, Ending, Blind,
                             EndPlaces, Untouched, LegPlaces, RecoveryPlaces, verdict
  <1>7. Guarded'
    BY <1>1, <1>2 DEF GateInv, TypeOK, Guarded, guards, LegPlaces,
                        RecoveryPlaces, EndPlaces
  <1> QED
    BY <1>3, <1>4, <1>5, <1>6, <1>7 DEF GateInv

\* The qualification leaves the members alone.
LEMMA QualifyStep ==
    ASSUME GateAssumption, GateInv, Qualify
    PROVE  GateInv'
  <1>1. /\ pc = "qualify" /\ (Fault \/ Fine)
        /\ \/ pc' = "leg finally" /\ UNCHANGED <<k, failed, leg>>
           \/ \E beat \in BOOLEAN : LegRaises(beat)
        /\ UNCHANGED <<members, cleanup, child, gate, verdict, beatFailed, lease,
                       guards, signals>>
    BY DEF Qualify, GateInv, TypeOK
  <1>2. /\ faults' \in FaultCounts /\ (VerdictLost => VerdictLost')
        /\ leg' \in Records /\ leg'.restored = leg.restored
        /\ k' \in Fleet /\ failed' \in BOOLEAN
        /\ pc' = "leg finally" /\ k' = 1
    BY <1>1, FaultFacts, LegRaisesFacts DEF GateInv, TypeOK, Placed
  <1>3. /\ AllUp' = AllUp /\ NoneRuns' = NoneRuns
        /\ Untouched' = Untouched /\ Marked' = Marked
    BY <1>1, MembersFrame
  <1>4. TypeOK'
    BY <1>1, <1>2 DEF GateInv, TypeOK, Places, members, guards, verdict
  <1>5. Placed'
    BY <1>1, <1>2, <1>3 DEF GateInv, TypeOK, Placed, LegPlaces, RecoveryPlaces
  <1>6. Judged' /\ Ending'
    BY <1>1, <1>2, <1>3 DEF GateInv, TypeOK, Placed, Judged, Ending, Blind,
                             EndPlaces, Untouched, LegPlaces, RecoveryPlaces, verdict
  <1>7. Guarded'
    BY <1>1, <1>2 DEF GateInv, TypeOK, Guarded, guards, LegPlaces,
                        RecoveryPlaces, EndPlaces
  <1> QED
    BY <1>3, <1>4, <1>5, <1>6, <1>7 DEF GateInv

\* From here signals are deferred.
LEMMA LegRecoversStep ==
    ASSUME GateAssumption, GateInv, LegRecovers
    PROVE  GateInv'
  <1>1. /\ pc = "leg finally" /\ pc' = "cleanup" /\ failed' = FALSE
        /\ recovery' = [recovery EXCEPT !.leg = TRUE]
        /\ UNCHANGED <<k, members, cleanup, leg, child, gate, verdict, beatFailed,
                       lease, guard, seen, faults, signals>>
    BY DEF LegRecovers, GateInv, TypeOK
  <1>2. /\ recovery' \in [gate : BOOLEAN, leg : BOOLEAN]
        /\ recovery'.leg /\ recovery'.gate = recovery.gate
    BY <1>1 DEF GateInv, TypeOK
  <1>3. /\ AllUp' = AllUp /\ NoneRuns' = NoneRuns
        /\ Untouched' = Untouched /\ Marked' = Marked
    BY <1>1, MembersFrame
  <1>8. k' = 1 /\ CleanTo(k)'
    <2>1. k' = 1
      BY <1>1 DEF GateInv, Placed
    <2>2. \A m \in Fleet : ~(m < 1)
      BY DEF Fleet, GateAssumption
    <2> QED
      BY <2>1, <2>2 DEF CleanTo
  <1>4. TypeOK'
    BY <1>1, <1>2 DEF GateInv, TypeOK, Places, members, guards, verdict
  <1>5. Placed'
    BY <1>1, <1>2, <1>3, <1>8 DEF GateInv, TypeOK, Placed, LegPlaces,
                                  RecoveryPlaces
  <1>6. Judged' /\ Ending'
    BY <1>1, <1>2, <1>3 DEF GateInv, TypeOK, Placed, Judged, Ending, Blind, VerdictLost,
                             EndPlaces, Untouched, LegPlaces, RecoveryPlaces, verdict
  <1>7. Guarded'
    BY <1>1, <1>2 DEF GateInv, TypeOK, Guarded, guards, LegPlaces,
                        RecoveryPlaces, EndPlaces
  <1> QED
    BY <1>3, <1>4, <1>5, <1>6, <1>7 DEF GateInv

\* The restoration is entered, or the leg goes to its verdict unrestored.
LEMMA EnterRestoreStep ==
    ASSUME GateAssumption, GateInv, EnterRestore
    PROVE  GateInv'
  <1>1. /\ pc = "restoration" /\ (Fine \/ WriteFault)
        /\ pc' \in {"restore", "leg verdict"}
        /\ UNCHANGED leg \/ leg' = [leg EXCEPT !.issues = TRUE]
        /\ UNCHANGED <<k, failed, members, cleanup, child, gate, verdict, beatFailed,
                       lease, guards, signals>>
    BY DEF EnterRestore
  <1>2. /\ faults' \in FaultCounts /\ (VerdictLost => VerdictLost')
        /\ leg' \in Records /\ leg'.restored = leg.restored
    BY <1>1, FaultFacts DEF GateInv, TypeOK, Records
  <1>3. /\ AllUp' = AllUp /\ NoneRuns' = NoneRuns
        /\ Untouched' = Untouched /\ Marked' = Marked
    BY <1>1, MembersFrame
  <1>4. TypeOK'
    BY <1>1, <1>2 DEF GateInv, TypeOK, Places, members, guards, verdict
  <1>5. Placed'
    BY <1>1, <1>2, <1>3 DEF GateInv, TypeOK, Placed, LegPlaces, RecoveryPlaces
  <1>6. Judged' /\ Ending'
    BY <1>1, <1>2, <1>3 DEF GateInv, TypeOK, Placed, Judged, Ending, Blind,
                             EndPlaces, Untouched, LegPlaces, RecoveryPlaces, verdict
  <1>7. Guarded'
    BY <1>1, <1>2 DEF GateInv, TypeOK, Guarded, guards, LegPlaces,
                        RecoveryPlaces, EndPlaces
  <1> QED
    BY <1>3, <1>4, <1>5, <1>6, <1>7 DEF GateInv

\* Only a fleet that is up is verified.
LEMMA ConvergeStep ==
    ASSUME GateAssumption, GateInv, Converge
    PROVE  GateInv'
  <1>1. /\ pc = "converge" /\ (Fault \/ Fine)
        /\ pc' = "unrestore" \/ (pc' = "verified" /\ AllUp)
        /\ UNCHANGED <<k, failed, members, cleanup, leg, child, gate, verdict,
                       beatFailed, lease, guards, signals>>
    BY DEF Converge, GateInv, TypeOK, AllUp
  <1>2. /\ faults' \in FaultCounts /\ (VerdictLost => VerdictLost')
    BY <1>1, FaultFacts DEF GateInv, TypeOK
  <1>3. /\ AllUp' = AllUp /\ NoneRuns' = NoneRuns
        /\ Untouched' = Untouched /\ Marked' = Marked
    BY <1>1, MembersFrame
  <1>4. TypeOK'
    BY <1>1, <1>2 DEF GateInv, TypeOK, Places, members, guards, verdict
  <1>5. Placed'
    BY <1>1, <1>2, <1>3 DEF GateInv, TypeOK, Placed, LegPlaces, RecoveryPlaces
  <1>6. Judged' /\ Ending'
    BY <1>1, <1>2, <1>3 DEF GateInv, TypeOK, Placed, Judged, Ending, Blind,
                             EndPlaces, Untouched, LegPlaces, RecoveryPlaces, verdict
  <1>7. Guarded'
    BY <1>1, <1>2 DEF GateInv, TypeOK, Guarded, guards, LegPlaces,
                        RecoveryPlaces, EndPlaces
  <1> QED
    BY <1>3, <1>4, <1>5, <1>6, <1>7 DEF GateInv

\* A leg that claims to have restored the fleet has done so.
LEMMA LegVerdictStep ==
    ASSUME GateAssumption, GateInv, LegVerdict
    PROVE  GateInv'
  <1>1. /\ pc = "leg verdict" /\ pc' = "persist"
        /\ leg' \in Records
        /\ leg'.restored => cleanup /\ leg.restored
        /\ (~leg'.restored => leg'.critical) /\ (leg'.passed => leg'.restored)
        /\ UNCHANGED <<k, failed, members, cleanup, child, gate, verdict, beatFailed,
                       lease, guards, faults, signals>>
    BY DEF LegVerdict, GateInv, TypeOK, Records
  <1>2. /\ leg'.restored => Untouched
    BY <1>1 DEF GateInv, TypeOK, Placed, Marked, AllUp, Untouched, RecoveryPlaces
  <1>3. /\ AllUp' = AllUp /\ NoneRuns' = NoneRuns
        /\ Untouched' = Untouched /\ Marked' = Marked
    BY <1>1, MembersFrame
  <1>4. TypeOK'
    BY <1>1, <1>2 DEF GateInv, TypeOK, Places, members, guards, verdict
  <1>5. Placed'
    BY <1>1, <1>2, <1>3 DEF GateInv, TypeOK, Placed, LegPlaces, RecoveryPlaces
  <1>6. Judged' /\ Ending'
    BY <1>1, <1>2, <1>3 DEF GateInv, TypeOK, Placed, Judged, Ending, Blind, VerdictLost,
                             EndPlaces, Untouched, LegPlaces, RecoveryPlaces, verdict
  <1>7. Guarded'
    BY <1>1, <1>2 DEF GateInv, TypeOK, Guarded, guards, LegPlaces,
                        RecoveryPlaces, EndPlaces
  <1> QED
    BY <1>3, <1>4, <1>5, <1>6, <1>7 DEF GateInv

\* A report that cannot be written takes the verdict with it.
LEMMA LeaveLegStep ==
    ASSUME GateAssumption, GateInv, LeaveLeg
    PROVE  GateInv'
  <1>1. /\ pc = "persist" /\ guard' = "gate"
        /\ \/ Fine /\ child' = leg /\ pc' = "append" /\ UNCHANGED gate
           \/ WriteFault /\ GateRaises /\ UNCHANGED child
        /\ UNCHANGED <<k, failed, members, cleanup, leg, verdict, beatFailed, lease,
                       recovery, seen, signals>>
    BY DEF LeaveLeg, GateInv, TypeOK
  <1>2. /\ faults' \in FaultCounts /\ child' \in Records
        /\ gate' \in GateRecords /\ gate'.released = gate.released
        /\ gate'.passed = gate.passed
        /\ \/ pc' = "append" /\ child' = leg
           \/ pc' = "gate finally" /\ gate'.issues /\ VerdictLost'
    BY <1>1, FaultFacts, LostFacts, GateRaisesFacts DEF GateInv, TypeOK
  <1>3. /\ AllUp' = AllUp /\ NoneRuns' = NoneRuns
        /\ Untouched' = Untouched /\ Marked' = Marked
    BY <1>1, MembersFrame
  <1>4. TypeOK'
    BY <1>1, <1>2 DEF GateInv, TypeOK, Places, members, guards, verdict
  <1>5. Placed'
    BY <1>1, <1>2, <1>3 DEF GateInv, TypeOK, Placed, LegPlaces, RecoveryPlaces
  <1>6. Judged' /\ Ending'
    BY <1>1, <1>2, <1>3 DEF GateInv, TypeOK, Placed, Judged, Ending, Blind,
                             EndPlaces, Untouched, LegPlaces, RecoveryPlaces, verdict
  <1>7. Guarded'
    BY <1>1, <1>2 DEF GateInv, TypeOK, Guarded, guards, LegPlaces,
                        RecoveryPlaces, EndPlaces
  <1> QED
    BY <1>3, <1>4, <1>5, <1>6, <1>7 DEF GateInv

\* The evidence is appended before the child is judged.
LEMMA AppendStep ==
    ASSUME GateAssumption, GateInv, Append
    PROVE  GateInv'
  <1>1. /\ \/ pc = "append" /\ (pc' = "judge" \/ GateRaises)
           \/ pc = "append runpod" /\ (pc' = "judge runpod" \/ GateRaises)
        /\ (Fine /\ UNCHANGED gate /\ pc' # "gate finally") \/ (WriteFault /\ GateRaises)
        /\ UNCHANGED <<k, failed, members, cleanup, leg, child, verdict, beatFailed,
                       lease, guards, signals>>
    BY DEF Append, GateInv, TypeOK
  <1>2. /\ faults' \in FaultCounts
        /\ gate' \in GateRecords /\ gate'.released = gate.released
        /\ gate'.passed = gate.passed
        /\ VerdictLost => VerdictLost'
        /\ \/ pc = "append" /\ pc' = "judge"
           \/ pc = "append runpod" /\ pc' = "judge runpod"
           \/ /\ pc' = "gate finally" /\ gate'.issues
              /\ pc = "append" => VerdictLost'
    BY <1>1, FaultFacts, LostFacts, GateRaisesFacts DEF GateInv, TypeOK
  <1>3. /\ AllUp' = AllUp /\ NoneRuns' = NoneRuns
        /\ Untouched' = Untouched /\ Marked' = Marked
    BY <1>1, MembersFrame
  <1>4. TypeOK'
    BY <1>1, <1>2 DEF GateInv, TypeOK, Places, members, guards, verdict
  <1>5. Placed'
    BY <1>1, <1>2, <1>3 DEF GateInv, TypeOK, Placed, LegPlaces, RecoveryPlaces
  <1>6. Judged' /\ Ending'
    BY <1>1, <1>2, <1>3 DEF GateInv, TypeOK, Placed, Judged, Ending, Blind,
                             EndPlaces, Untouched, LegPlaces, RecoveryPlaces, verdict
  <1>7. Guarded'
    BY <1>1, <1>2 DEF GateInv, TypeOK, Guarded, guards, LegPlaces,
                        RecoveryPlaces, EndPlaces
  <1> QED
    BY <1>3, <1>4, <1>5, <1>6, <1>7 DEF GateInv

\* A child that did not pass makes the gate critical if it is so itself.
LEMMA JudgeStep ==
    ASSUME GateAssumption, GateInv, Judge
    PROVE  GateInv'
  <1>1. /\ \/ pc = "judge" /\ (pc' = "runpod" \/ pc' = "gate finally")
           \/ pc = "judge runpod" /\ (pc' = "audit" \/ pc' = "gate finally")
        /\ \/ pc' # "gate finally" /\ child.passed /\ UNCHANGED gate
           \/ /\ pc' = "gate finally"
              /\ gate' = [gate EXCEPT !.issues = TRUE,
                                      !.critical = @ \/ child.critical]
        /\ UNCHANGED <<k, failed, members, cleanup, leg, child, verdict, beatFailed,
                       lease, guards, faults, signals>>
    BY DEF Judge, GateInv, TypeOK
  <1>2. /\ gate' \in GateRecords /\ gate'.released = gate.released
        /\ gate'.passed = gate.passed
        /\ pc' = "gate finally" => /\ gate'.issues
                                   /\ child.critical => gate'.critical
    BY <1>1 DEF GateInv, TypeOK, GateRecords, Records
  <1>3. /\ AllUp' = AllUp /\ NoneRuns' = NoneRuns
        /\ Untouched' = Untouched /\ Marked' = Marked
    BY <1>1, MembersFrame
  <1>4. TypeOK'
    BY <1>1, <1>2 DEF GateInv, TypeOK, Places, members, guards, verdict
  <1>5. Placed'
    BY <1>1, <1>2, <1>3 DEF GateInv, TypeOK, Placed, LegPlaces, RecoveryPlaces
  <1>6. Judged' /\ Ending'
    BY <1>1, <1>2, <1>3 DEF GateInv, TypeOK, Placed, Judged, Ending, Blind, VerdictLost,
                             EndPlaces, Untouched, LegPlaces, RecoveryPlaces, verdict
  <1>7. Guarded'
    BY <1>1, <1>2 DEF GateInv, TypeOK, Guarded, guards, LegPlaces,
                        RecoveryPlaces, EndPlaces
  <1> QED
    BY <1>3, <1>4, <1>5, <1>6, <1>7 DEF GateInv

\* The RunPod leg leaves the fleet alone.
LEMMA RunPodStep ==
    ASSUME GateAssumption, GateInv, RunPod
    PROVE  GateInv'
  <1>1. /\ pc = "runpod" /\ (Fault \/ Fine)
        /\ (pc' = "append runpod" /\ UNCHANGED gate) \/ GateRaises
        /\ child' \in Records
        /\ UNCHANGED <<k, failed, members, cleanup, leg, verdict, beatFailed, lease,
                       guards, signals>>
    BY DEF RunPod, GateInv, TypeOK, Records
  <1>2. /\ faults' \in FaultCounts /\ (VerdictLost => VerdictLost')
        /\ gate' \in GateRecords /\ gate'.released = gate.released
        /\ gate'.passed = gate.passed
        /\ pc' = "append runpod" \/ (pc' = "gate finally" /\ gate'.issues)
    BY <1>1, FaultFacts, GateRaisesFacts DEF GateInv, TypeOK
  <1>3. /\ AllUp' = AllUp /\ NoneRuns' = NoneRuns
        /\ Untouched' = Untouched /\ Marked' = Marked
    BY <1>1, MembersFrame
  <1>4. TypeOK'
    BY <1>1, <1>2 DEF GateInv, TypeOK, Places, members, guards, verdict
  <1>5. Placed'
    BY <1>1, <1>2, <1>3 DEF GateInv, TypeOK, Placed, LegPlaces, RecoveryPlaces
  <1>6. Judged' /\ Ending'
    BY <1>1, <1>2, <1>3 DEF GateInv, TypeOK, Placed, Judged, Ending, Blind,
                             EndPlaces, Untouched, LegPlaces, RecoveryPlaces, verdict
  <1>7. Guarded'
    BY <1>1, <1>2 DEF GateInv, TypeOK, Guarded, guards, LegPlaces,
                        RecoveryPlaces, EndPlaces
  <1> QED
    BY <1>3, <1>4, <1>5, <1>6, <1>7 DEF GateInv

\* Without an issue both children have passed.
LEMMA AuditStep ==
    ASSUME GateAssumption, GateInv, Audit
    PROVE  GateInv'
  <1>1. /\ pc = "audit" /\ pc' = "gate finally" /\ (Fault \/ Fine)
        /\ gate' \in GateRecords /\ gate'.released = gate.released
        /\ gate'.passed = gate.passed
        /\ UNCHANGED <<k, failed, members, cleanup, leg, child, verdict, beatFailed,
                       lease, guards, signals>>
    BY DEF Audit, GateInv, TypeOK, GateRecords
  <1>2. /\ faults' \in FaultCounts /\ (VerdictLost => VerdictLost')
    BY <1>1, FaultFacts DEF GateInv, TypeOK
  <1>3. /\ AllUp' = AllUp /\ NoneRuns' = NoneRuns
        /\ Untouched' = Untouched /\ Marked' = Marked
    BY <1>1, MembersFrame
  <1>4. TypeOK'
    BY <1>1, <1>2 DEF GateInv, TypeOK, Places, members, guards, verdict
  <1>5. Placed'
    BY <1>1, <1>2, <1>3 DEF GateInv, TypeOK, Placed, LegPlaces, RecoveryPlaces
  <1>6. Judged' /\ Ending'
    BY <1>1, <1>2, <1>3 DEF GateInv, TypeOK, Placed, Judged, Ending, Blind,
                             EndPlaces, Untouched, LegPlaces, RecoveryPlaces, verdict
  <1>7. Guarded'
    BY <1>1, <1>2 DEF GateInv, TypeOK, Guarded, guards, LegPlaces,
                        RecoveryPlaces, EndPlaces
  <1> QED
    BY <1>3, <1>4, <1>5, <1>6, <1>7 DEF GateInv

\* A failed heartbeat is an issue from here on.
LEMMA GateRecoversStep ==
    ASSUME GateAssumption, GateInv, GateRecovers
    PROVE  GateInv'
  <1>1. /\ pc = "gate finally" /\ pc' = "lease" /\ (Fault \/ Fine)
        /\ recovery' = [recovery EXCEPT !.gate = TRUE]
        /\ gate' = [gate EXCEPT !.issues = @ \/ beatFailed']
        /\ {beatFailed, hbFailed}' \subseteq BOOLEAN
        /\ UNCHANGED <<k, failed, members, cleanup, leg, child, acquired,
                       releaseFailed, lease, guard, seen, signals>>
    BY DEF GateRecovers, GateInv, TypeOK
  <1>2. /\ faults' \in FaultCounts /\ (VerdictLost => VerdictLost')
        /\ gate' \in GateRecords /\ gate'.released = gate.released
        /\ gate'.passed = gate.passed
        /\ recovery' \in [gate : BOOLEAN, leg : BOOLEAN]
        /\ recovery'.gate /\ recovery'.leg = recovery.leg
        /\ gate'.critical = gate.critical /\ gate'.issues = (gate.issues \/ beatFailed')
    BY <1>1, FaultFacts DEF GateInv, TypeOK, GateRecords
  <1>3. /\ AllUp' = AllUp /\ NoneRuns' = NoneRuns
        /\ Untouched' = Untouched /\ Marked' = Marked
    BY <1>1, MembersFrame
  <1>4. TypeOK'
    BY <1>1, <1>2 DEF GateInv, TypeOK, Places, members, guards, verdict
  <1>5. Placed'
    BY <1>1, <1>2, <1>3 DEF GateInv, TypeOK, Placed, LegPlaces, RecoveryPlaces
  <1>6. Judged' /\ Ending'
    BY <1>1, <1>2, <1>3 DEF GateInv, TypeOK, Placed, Judged, Ending, Blind,
                             EndPlaces, Untouched, LegPlaces, RecoveryPlaces, verdict
  <1>7. Guarded'
    BY <1>1, <1>2 DEF GateInv, TypeOK, Guarded, guards, LegPlaces,
                        RecoveryPlaces, EndPlaces
  <1> QED
    BY <1>3, <1>4, <1>5, <1>6, <1>7 DEF GateInv

\* A released lease means a gate that is not critical.
LEMMA ReleaseStep ==
    ASSUME GateAssumption, GateInv, Release
    PROVE  GateInv'
  <1>1. /\ pc = "lease" /\ pc' \in {"report", "extend", "escaped"} /\ (Fault \/ Fine)
        /\ {lease, releaseFailed}' \subseteq BOOLEAN
        /\ \/ UNCHANGED gate
           \/ pc' = "extend" /\ gate' = [gate EXCEPT !.issues = TRUE]
           \/ /\ pc' = "report" /\ ~gate.critical /\ lease' = FALSE
              /\ gate' = [gate EXCEPT !.released = TRUE]
        /\ UNCHANGED <<k, failed, members, cleanup, leg, child, acquired, hbFailed,
                       beatFailed, guards, signals>>
    BY DEF Release, GateInv, TypeOK
  <1>2. /\ faults' \in FaultCounts /\ (VerdictLost => VerdictLost')
        /\ gate' \in GateRecords /\ gate'.passed = gate.passed
        /\ gate'.critical = gate.critical /\ (gate.issues => gate'.issues)
        /\ \/ gate'.released = gate.released
           \/ pc' = "report" /\ ~gate.critical /\ lease' = FALSE
    BY <1>1, FaultFacts DEF GateInv, TypeOK, GateRecords
  <1>3. /\ AllUp' = AllUp /\ NoneRuns' = NoneRuns
        /\ Untouched' = Untouched /\ Marked' = Marked
    BY <1>1, MembersFrame
  <1>4. TypeOK'
    BY <1>1, <1>2 DEF GateInv, TypeOK, Places, members, guards, verdict
  <1>5. Placed'
    BY <1>1, <1>2, <1>3 DEF GateInv, TypeOK, Placed, LegPlaces, RecoveryPlaces
  <1>6. Judged' /\ Ending'
    BY <1>1, <1>2, <1>3 DEF GateInv, TypeOK, Placed, Judged, Ending, Blind,
                             EndPlaces, Untouched, LegPlaces, RecoveryPlaces, verdict
  <1>7. Guarded'
    BY <1>1, <1>2 DEF GateInv, TypeOK, Guarded, guards, LegPlaces,
                        RecoveryPlaces, EndPlaces
  <1> QED
    BY <1>3, <1>4, <1>5, <1>6, <1>7 DEF GateInv

\* The critical outcome.
LEMMA ExtendLeaseStep ==
    ASSUME GateAssumption, GateInv, ExtendLease
    PROVE  GateInv'
  <1>1. /\ pc = "extend" /\ pc' = "report"
        /\ gate' = [gate EXCEPT !.critical = TRUE, !.issues = TRUE]
        /\ UNCHANGED <<k, failed, members, cleanup, leg, child, verdict, beatFailed,
                       lease, guards, faults, signals>>
    BY DEF ExtendLease, GateInv, TypeOK
  <1>2. /\ gate' \in GateRecords /\ gate'.released = gate.released
        /\ gate'.passed = gate.passed
        /\ gate'.critical /\ gate'.issues
    BY <1>1 DEF GateInv, TypeOK, GateRecords
  <1>3. /\ AllUp' = AllUp /\ NoneRuns' = NoneRuns
        /\ Untouched' = Untouched /\ Marked' = Marked
    BY <1>1, MembersFrame
  <1>4. TypeOK'
    BY <1>1, <1>2 DEF GateInv, TypeOK, Places, members, guards, verdict
  <1>5. Placed'
    BY <1>1, <1>2, <1>3 DEF GateInv, TypeOK, Placed, LegPlaces, RecoveryPlaces
  <1>6. Judged' /\ Ending'
    BY <1>1, <1>2, <1>3 DEF GateInv, TypeOK, Placed, Judged, Ending, Blind, VerdictLost,
                             EndPlaces, Untouched, LegPlaces, RecoveryPlaces, verdict
  <1>7. Guarded'
    BY <1>1, <1>2 DEF GateInv, TypeOK, Guarded, guards, LegPlaces,
                        RecoveryPlaces, EndPlaces
  <1> QED
    BY <1>3, <1>4, <1>5, <1>6, <1>7 DEF GateInv

\* A gate passes without an issue, with its lease released; one whose report
\* cannot be written has not passed.
LEMMA ReportStep ==
    ASSUME GateAssumption, GateInv, Report
    PROVE  GateInv'
  <1>1. /\ pc = "report" /\ gate \in GateRecords /\ (WriteFault \/ Fine)
        /\ \/ /\ pc' = "reported"
              /\ gate' = [gate EXCEPT
                            !.issues = @ \/ seen.gate,
                            !.passed = ~gate.issues /\ ~seen.gate
                                       /\ gate.released /\ ~gate.critical]
           \/ pc' = "escaped" /\ UNCHANGED gate
        /\ UNCHANGED <<k, failed, members, cleanup, leg, child, verdict, beatFailed,
                       lease, guards, signals>>
    BY DEF Report, GateInv, TypeOK
  <1>8. faults' \in FaultCounts /\ (VerdictLost => VerdictLost')
    BY <1>1, FaultFacts DEF GateInv
  <1>9. ~gate.passed
    BY <1>1 DEF GateInv, Ending
  <1>2. /\ gate' \in GateRecords /\ gate'.released = gate.released
        /\ gate'.critical = gate.critical /\ (gate.issues => gate'.issues)
        /\ \/ pc' = "reported" /\ (gate'.passed => gate.released /\ ~gate'.issues)
           \/ pc' = "escaped" /\ ~gate'.passed
        /\ faults' \in FaultCounts /\ (VerdictLost => VerdictLost')
    BY <1>1, <1>8, <1>9 DEF GateInv, TypeOK, GateRecords
  <1>3. /\ AllUp' = AllUp /\ NoneRuns' = NoneRuns
        /\ Untouched' = Untouched /\ Marked' = Marked
    BY <1>1, MembersFrame
  <1>4. TypeOK'
    BY <1>1, <1>2 DEF GateInv, TypeOK, Places, members, guards, verdict
  <1>5. Placed'
    BY <1>1, <1>2, <1>3 DEF GateInv, TypeOK, Placed, LegPlaces, RecoveryPlaces
  <1>6. Judged' /\ Ending'
    BY <1>1, <1>2, <1>3 DEF GateInv, TypeOK, Placed, Judged, Ending, Blind,
                             EndPlaces, Untouched, LegPlaces, RecoveryPlaces, verdict
  <1>7. Guarded'
    BY <1>1, <1>2 DEF GateInv, TypeOK, Guarded, guards, LegPlaces,
                        RecoveryPlaces, EndPlaces
  <1> QED
    BY <1>3, <1>4, <1>5, <1>6, <1>7 DEF GateInv

\* The heartbeat fails while its thread runs.
LEMMA BeatFailsStep ==
    ASSUME GateAssumption, GateInv, BeatFails
    PROVE  GateInv'
  <1>1. /\ pc \notin EndPlaces /\ UNCHANGED pc /\ Fault /\ beatFailed' = TRUE
        /\ UNCHANGED <<k, failed, members, cleanup, leg, child, gate, verdict, lease,
                       guards, signals>>
    BY DEF BeatFails, GateInv, TypeOK, EndPlaces
  <1>2. /\ faults' \in FaultCounts /\ (VerdictLost => VerdictLost')
    BY <1>1, FaultFacts DEF GateInv, TypeOK
  <1>3. /\ AllUp' = AllUp /\ NoneRuns' = NoneRuns
        /\ Untouched' = Untouched /\ Marked' = Marked
    BY <1>1, MembersFrame
  <1>4. TypeOK'
    BY <1>1, <1>2 DEF GateInv, TypeOK, Places, members, guards, verdict
  <1>5. Placed'
    BY <1>1, <1>2, <1>3 DEF GateInv, Placed, HomesTo, CleanTo, members
  <1>6. Judged' /\ Ending'
    BY <1>1, <1>2, <1>3 DEF GateInv, Judged, Ending, Blind
  <1>7. Guarded'
    BY <1>1, <1>2 DEF GateInv, TypeOK, Guarded, guards, LegPlaces,
                        RecoveryPlaces, EndPlaces
  <1> QED
    BY <1>3, <1>4, <1>5, <1>6, <1>7 DEF GateInv

-----------------------------------------------------------------------------
(* Steps that change the members *)

\* The order of the members.
LEMMA MemberOrder ==
    ASSUME GateAssumption
    PROVE  /\ 1 \in Fleet
           /\ \A m \in Fleet : ~(m < 1) /\ m < Members + 1
           /\ \A m \in Fleet : m < Members => m + 1 \in Fleet
           /\ \A m \in Fleet : ~(m < Members) => m = Members
           /\ \A m, n \in Fleet : m < n + 1 => m < n \/ m = n
  BY DEF GateAssumption, Fleet

\* A sweep goes to the next member or to one of its ends.
LEMMA SweepFacts ==
    ASSUME GateAssumption, TypeOK, NEW done, NEW broken, Sweep(done, broken)
    PROVE  /\ k' \in Fleet
           /\ \/ k < Members /\ k' = k + 1 /\ pc' = pc
              \/ k = Members /\ k' = 1 /\ pc' \in {done, broken}
  BY MemberOrder DEF TypeOK, Sweep

\* A sweep of the work goes on, or ends without a failure, or ends the work.
LEMMA WorkSweepFacts ==
    ASSUME GateAssumption, TypeOK, NEW next, WorkSweep(next)
    PROVE  /\ k' \in Fleet
           /\ leg' \in Records /\ leg'.restored = leg.restored
           /\ \/ k < Members /\ k' = k + 1 /\ pc' = pc
              \/ k = Members /\ k' = 1 /\ pc' = next /\ ~failed'
              \/ k' = 1 /\ pc' = "leg finally"
  <1>1. CASE k = Members /\ failed'
    <2>1. k' = 1 /\ pc' = "leg finally" /\ leg' = [leg EXCEPT !.issues = TRUE]
      BY <1>1 DEF WorkSweep
    <2>2. leg' \in Records /\ leg'.restored = leg.restored
      BY <2>1 DEF TypeOK, Records
    <2> QED
      BY <2>1, <2>2, MemberOrder
  <1>2. CASE ~(k = Members /\ failed')
    <2>1. Sweep(next, next) /\ UNCHANGED leg
      BY <1>2 DEF WorkSweep
    <2> QED
      BY <1>2, <2>1, SweepFacts DEF TypeOK
  <1> QED
    BY <1>1, <1>2

\* A member is marked before its service is stopped.
LEMMA StopStep ==
    ASSUME GateAssumption, GateInv, Stop
    PROVE  GateInv'
  <1>1. /\ pc = "stop"
        /\ stopped' = [stopped EXCEPT ![k] = TRUE]
        /\ orig' \in {orig, [orig EXCEPT ![k] = FALSE]}
        /\ \/ Fine /\ UNCHANGED <<failed, leg>> /\ Sweep("home", "home")
           \/ (Fault \/ Fine) /\ LegRaises(beatFailed)
        /\ UNCHANGED <<temp, root, cleanup, child, gate, verdict, beatFailed, lease,
                       guards, signals>>
    BY DEF Stop, GateInv, TypeOK
  <1>2. /\ faults' \in FaultCounts /\ (VerdictLost => VerdictLost')
        /\ leg' \in Records /\ leg'.restored = leg.restored
        /\ k' \in Fleet /\ failed' \in BOOLEAN
        /\ {orig, stopped}' \subseteq [Fleet -> BOOLEAN]
        /\ \/ pc' = "stop" /\ failed' = failed
           \/ pc' = "home" /\ k' = 1
           \/ pc' = "leg finally" /\ k' = 1
    <2>1. {orig, stopped}' \subseteq [Fleet -> BOOLEAN]
      <3>1. {orig, stopped} \subseteq [Fleet -> BOOLEAN]
        BY DEF GateInv, TypeOK
      <3>2. stopped' \in [Fleet -> BOOLEAN]
        BY <1>1, <3>1
      <3>3. orig' \in [Fleet -> BOOLEAN]
        BY <1>1, <3>1
      <3> QED
        BY <3>2, <3>3
    <2>2. faults' \in FaultCounts /\ (VerdictLost => VerdictLost')
      BY <1>1, FaultFacts DEF GateInv
    <2>3. CASE Sweep("home", "home") /\ UNCHANGED <<failed, leg>>
      BY <1>1, <2>1, <2>2, <2>3, SweepFacts DEF GateInv, TypeOK
    <2>4. CASE LegRaises(beatFailed)
      <3>1. beatFailed \in BOOLEAN
        BY DEF GateInv, TypeOK
      <3> QED
        BY <2>1, <2>2, <2>4, <3>1, LegRaisesFacts DEF GateInv
    <2> QED
      BY <1>1, <2>3, <2>4
  <1>3. Marked' /\ NoneRuns' /\ (pc' = "home" => HomesTo(k)')
    <2>1. Marked'
      BY <1>1 DEF GateInv, TypeOK, Marked
    <2>2. NoneRuns'
      BY <1>1 DEF GateInv, Placed, NoneRuns
    <2>3. pc' = "home" => HomesTo(k)'
      BY <1>1, <1>2, MemberOrder DEF HomesTo
    <2> QED
      BY <2>1, <2>2, <2>3
  <1>4. TypeOK'
    <2>1. pc' \in Places
      BY <1>1, <1>2 DEF Places
    <2>2. UNCHANGED <<temp, root, cleanup, child, gate, verdict, beatFailed, lease,
                      guards, signals>>
      BY <1>1
    <2>3. failed' \in BOOLEAN
      BY <1>1, <1>2 DEF GateInv, TypeOK
    <2>4. k' \in Fleet /\ leg' \in Records /\ cleanup' \in BOOLEAN
      BY <1>1, <1>2 DEF GateInv, TypeOK
    <2> QED
      BY <1>2, <2>1, <2>2, <2>3, <2>4 DEF GateInv, TypeOK, guards, verdict
  <1>5. Placed'
    BY <1>1, <1>2, <1>3 DEF GateInv, TypeOK, Placed, LegPlaces, RecoveryPlaces
  <1>6. Judged' /\ Ending'
    BY <1>1, <1>2, <1>3 DEF GateInv, TypeOK, Placed, Judged, Ending, Blind,
                             EndPlaces, Untouched, LegPlaces, RecoveryPlaces, verdict
  <1>7. Guarded'
    BY <1>1, <1>2 DEF GateInv, TypeOK, Guarded, guards, LegPlaces,
                        RecoveryPlaces, EndPlaces
  <1> QED
    BY <1>3, <1>4, <1>5, <1>6, <1>7 DEF GateInv

\* The homes before the next member are known unless one has failed.
LEMMA MakeHomeStep ==
    ASSUME GateAssumption, GateInv, MakeHome
    PROVE  GateInv'
  <1>1. /\ pc = "home"
        /\ \/ Fine /\ root' = [root EXCEPT ![k] = TRUE] /\ UNCHANGED failed
           \/ Fault /\ UNCHANGED root /\ failed' = TRUE
        /\ temp' \in {temp, [temp EXCEPT ![k] = "home"]}
        /\ WorkSweep("run")
        /\ UNCHANGED <<orig, stopped, cleanup, child, gate, verdict, beatFailed,
                       lease, guards, signals>>
    BY DEF MakeHome, GateInv, TypeOK
  <1>2. /\ faults' \in FaultCounts /\ (VerdictLost => VerdictLost')
        /\ leg' \in Records /\ leg'.restored = leg.restored
        /\ k' \in Fleet /\ failed' \in BOOLEAN
        /\ root' \in [Fleet -> BOOLEAN]
        /\ temp' \in [Fleet -> {"none", "home", "running"}]
        /\ \/ k < Members /\ k' = k + 1 /\ pc' = pc
           \/ k = Members /\ k' = 1 /\ pc' = "run" /\ ~failed'
           \/ pc' = "leg finally" /\ k' = 1
    BY <1>1, FaultFacts, WorkSweepFacts DEF GateInv, TypeOK
  <1>3. /\ Marked' /\ (pc' = "home" => NoneRuns')
        /\ pc' = "home" /\ ~failed' => HomesTo(k)'
        /\ pc' = "run" => HomesTo(Members + 1)'
    <2>1. NoneRuns /\ NoneRuns'
      BY <1>1 DEF GateInv, TypeOK, Placed, NoneRuns
    <2>2. Marked'
      BY <1>1, <2>1 DEF GateInv, TypeOK, Marked, NoneRuns
    <2>3. ASSUME ~failed' PROVE \A m \in Fleet : m < k + 1 => root'[m]
      <3>1. HomesTo(k) /\ root' = [root EXCEPT ![k] = TRUE]
        BY <1>1, <2>3 DEF GateInv, Placed
      <3> QED
        BY <3>1, MemberOrder DEF GateInv, TypeOK, HomesTo
    <2>4. pc' = "home" /\ ~failed' => HomesTo(k)'
      BY <1>1, <1>2, <2>3, MemberOrder DEF HomesTo
    <2>5. pc' = "run" => HomesTo(Members + 1)'
      BY <1>1, <1>2, <2>3 DEF HomesTo, GateAssumption, Fleet
    <2> QED
      BY <2>1, <2>2, <2>4, <2>5
  <1>4. TypeOK'
    <2>1. pc' \in Places
      BY <1>1, <1>2 DEF Places
    <2>2. UNCHANGED <<orig, stopped, cleanup, child, gate, verdict, beatFailed,
                      lease, guards, signals>>
      BY <1>1
    <2>3. failed' \in BOOLEAN
      BY <1>1, <1>2 DEF GateInv, TypeOK
    <2>4. k' \in Fleet /\ leg' \in Records /\ cleanup' \in BOOLEAN
      BY <1>1, <1>2 DEF GateInv, TypeOK
    <2> QED
      BY <1>2, <2>1, <2>2, <2>3, <2>4 DEF GateInv, TypeOK, guards, verdict
  <1>5. Placed'
    BY <1>1, <1>2, <1>3 DEF GateInv, TypeOK, Placed, LegPlaces, RecoveryPlaces
  <1>6. Judged' /\ Ending'
    BY <1>1, <1>2, <1>3 DEF GateInv, TypeOK, Placed, Judged, Ending, Blind,
                             EndPlaces, Untouched, LegPlaces, RecoveryPlaces, verdict
  <1>7. Guarded'
    BY <1>1, <1>2 DEF GateInv, TypeOK, Guarded, guards, LegPlaces,
                        RecoveryPlaces, EndPlaces
  <1> QED
    BY <1>3, <1>4, <1>5, <1>6, <1>7 DEF GateInv

\* A temporary runtime starts in a home that is known.
LEMMA RunStep ==
    ASSUME GateAssumption, GateInv, Run
    PROVE  GateInv'
  <1>1. /\ pc = "run" /\ (Fault \/ Fine) /\ failed' \in BOOLEAN
        /\ temp' \in {temp, [temp EXCEPT ![k] = "running"]}
        /\ WorkSweep("qualify") \/ LegRaises(beatFailed)
        /\ UNCHANGED <<orig, root, stopped, cleanup, child, gate, verdict, beatFailed,
                       lease, guards, signals>>
    BY DEF Run, GateInv, TypeOK, LegRaises
  <1>2. /\ faults' \in FaultCounts /\ (VerdictLost => VerdictLost')
        /\ leg' \in Records /\ leg'.restored = leg.restored
        /\ k' \in Fleet
        /\ temp' \in [Fleet -> {"none", "home", "running"}]
        /\ \/ pc' = pc
           \/ k' = 1 /\ pc' \in {"qualify", "leg finally"}
    BY <1>1, FaultFacts, WorkSweepFacts, LegRaisesFacts DEF GateInv, TypeOK
  <1>3. Marked'
    <2>1. root[k]
      BY <1>1, MemberOrder DEF GateInv, TypeOK, Placed, HomesTo
    <2> QED
      BY <1>1, <2>1 DEF GateInv, TypeOK, Marked
  <1>4. TypeOK'
    <2>1. pc' \in Places
      BY <1>1, <1>2 DEF Places
    <2>2. UNCHANGED <<orig, root, stopped, cleanup, child, gate, verdict, beatFailed,
                      lease, guards, signals>>
      BY <1>1
    <2>3. failed' \in BOOLEAN
      BY <1>1, <1>2 DEF GateInv, TypeOK
    <2>4. k' \in Fleet /\ leg' \in Records /\ cleanup' \in BOOLEAN
      BY <1>1, <1>2 DEF GateInv, TypeOK
    <2> QED
      BY <1>2, <2>1, <2>2, <2>3, <2>4 DEF GateInv, TypeOK, guards, verdict
  <1>5. Placed'
    BY <1>1, <1>2, <1>3, MemberOrder DEF GateInv, TypeOK, Placed, LegPlaces,
           RecoveryPlaces, AllUp, NoneRuns, HomesTo, CleanTo
  <1>6. Judged' /\ Ending'
    BY <1>1, <1>2, <1>3 DEF GateInv, TypeOK, Placed, Judged, Ending, Blind,
                             EndPlaces, Untouched, LegPlaces, RecoveryPlaces, verdict
  <1>7. Guarded'
    BY <1>1, <1>2 DEF GateInv, TypeOK, Guarded, guards, LegPlaces,
                        RecoveryPlaces, EndPlaces
  <1> QED
    BY <1>3, <1>4, <1>5, <1>6, <1>7 DEF GateInv

\* Behind the cleanup the services are to be restored, or none was stopped.
LEMMA AfterCleanupFacts ==
    ASSUME GateAssumption, GateInv, AfterCleanup, cleanup' \in BOOLEAN
    PROVE  /\ k' = 1 /\ k' \in Fleet /\ leg' \in Records
           /\ \/ pc' = "restoration" /\ ~leg'.restored
              \/ pc' = "leg verdict" /\ AllUp
  <1>1. /\ k' = 1 /\ leg \in Records
        /\ leg' = [leg EXCEPT !.issues = leg.issues \/ ~cleanup',
                              !.restored = ~\E m \in Fleet : stopped[m]]
        /\ pc' = IF \E m \in Fleet : stopped[m] THEN "restoration" ELSE "leg verdict"
    BY DEF AfterCleanup, GateInv, TypeOK
  <1>2. k' \in Fleet
    BY <1>1, MemberOrder
  <1>3. leg' \in Records /\ leg'.restored = ~\E m \in Fleet : stopped[m]
    BY <1>1 DEF Records
  <1>4. (~\E m \in Fleet : stopped[m]) => AllUp
    BY DEF GateInv, Marked, AllUp
  <1> QED
    BY <1>1, <1>2, <1>3, <1>4

\* A member whose cleanup has not failed runs nothing temporary.
LEMMA CleanupStep ==
    ASSUME GateAssumption, GateInv, Cleanup
    PROVE  GateInv'
  <1>1. /\ pc = "cleanup" /\ (Fault \/ Fine)
        /\ \/ root[k] /\ Remove(k) /\ cleanup' = cleanup
           \/ ~root[k] /\ UNCHANGED <<temp, root>> /\ cleanup' = cleanup
           \/ /\ temp' \in {temp, [temp EXCEPT ![k] = "home"]}
              /\ cleanup' = FALSE /\ UNCHANGED root
        /\ \/ k < Members /\ k' = k + 1 /\ UNCHANGED <<pc, leg>>
           \/ k = Members /\ AfterCleanup
        /\ UNCHANGED <<orig, stopped, failed, child, gate, verdict, beatFailed, lease,
                       guards, signals>>
    BY MemberOrder DEF Cleanup, GateInv, TypeOK
  <1>2. /\ faults' \in FaultCounts /\ (VerdictLost => VerdictLost')
        /\ k' \in Fleet /\ cleanup' \in BOOLEAN /\ leg' \in Records
        /\ \/ k < Members /\ k' = k + 1 /\ pc' = "cleanup" /\ ~leg'.restored
           \/ /\ k = Members /\ k' = 1
              /\ \/ pc' = "restoration" /\ ~leg'.restored
                 \/ pc' = "leg verdict" /\ AllUp
        /\ root' \in [Fleet -> BOOLEAN]
        /\ temp' \in [Fleet -> {"none", "home", "running"}]
    <2>1. cleanup' \in BOOLEAN
      BY <1>1 DEF GateInv, TypeOK
    <2>2. ~leg.restored /\ leg \in Records /\ k \in Fleet
      BY <1>1 DEF GateInv, TypeOK, Placed, RecoveryPlaces
    <2>4. root' \in [Fleet -> BOOLEAN]
      BY <1>1 DEF GateInv, TypeOK, Remove
    <2>5. temp' \in [Fleet -> {"none", "home", "running"}]
      BY <1>1 DEF GateInv, TypeOK, Remove
    <2>6. faults' \in FaultCounts /\ (VerdictLost => VerdictLost')
      BY <1>1, FaultFacts DEF GateInv
    <2>3. CASE k < Members /\ k' = k + 1 /\ UNCHANGED <<pc, leg>>
      <3>1. k' \in Fleet
        BY <2>2, <2>3, MemberOrder
      <3> QED
        BY <1>1, <2>1, <2>2, <2>3, <2>4, <2>5, <2>6, <3>1
    <2>7. CASE k = Members /\ AfterCleanup
      BY <2>1, <2>4, <2>5, <2>6, <2>7, AfterCleanupFacts
    <2> QED
      BY <1>1, <2>3, <2>7
  <1>3. /\ Marked' /\ (pc' = "cleanup" /\ cleanup' => CleanTo(k)')
        /\ pc' # "cleanup" /\ cleanup' => NoneRuns'
    <2>1. Marked'
      <3>1. \A m \in Fleet : temp'[m] = "running" => root'[m]
        <4>1. \A m \in Fleet : temp[m] = "running" => root[m]
          BY DEF GateInv, Marked
        <4>2. /\ temp \in [Fleet -> {"none", "home", "running"}]
              /\ root \in [Fleet -> BOOLEAN]
          BY DEF GateInv, TypeOK
        <4>3. CASE Remove(k)
          BY <4>1, <4>2, <4>3 DEF Remove
        <4>4. CASE temp' \in {temp, [temp EXCEPT ![k] = "home"]} /\ UNCHANGED root
          BY <4>1, <4>2, <4>4
        <4> QED
          BY <1>1, <4>3, <4>4
      <3> QED
        BY <1>1, <3>1 DEF GateInv, Marked
    <2>2. ASSUME cleanup' PROVE \A m \in Fleet : m < k + 1 => temp'[m] # "running"
      <3>1. CleanTo(k)
        BY <1>1, <2>2 DEF GateInv, Placed
      <3>2. temp'[k] # "running"
        BY <1>1, <2>2 DEF GateInv, TypeOK, Marked, Remove
      <3>3. \A m \in Fleet : m # k => temp'[m] = temp[m]
        BY <1>1 DEF GateInv, TypeOK, Remove
      <3> QED
        BY <3>1, <3>2, <3>3, MemberOrder DEF GateInv, TypeOK, CleanTo
    <2>3. pc' = "cleanup" /\ cleanup' => CleanTo(k)'
      BY <1>1, <2>2, MemberOrder DEF CleanTo
    <2>4. pc' # "cleanup" /\ cleanup' => NoneRuns'
      <3>1. ASSUME pc' # "cleanup" PROVE \A m \in Fleet : m < k + 1
        <4>1. k = Members
          BY <1>1, <3>1
        <4> QED
          BY <4>1, MemberOrder
      <3> QED
        BY <2>2, <3>1 DEF NoneRuns
    <2> QED
      BY <2>1, <2>3, <2>4
  <1>4. TypeOK'
    <2>1. pc' \in Places
      BY <1>1, <1>2 DEF Places
    <2>2. UNCHANGED <<orig, stopped, failed, child, gate, verdict, beatFailed, lease,
                      guards, signals>>
      BY <1>1
    <2>3. failed' \in BOOLEAN
      BY <1>1, <1>2 DEF GateInv, TypeOK
    <2>4. k' \in Fleet /\ leg' \in Records /\ cleanup' \in BOOLEAN
      BY <1>1, <1>2 DEF GateInv, TypeOK
    <2> QED
      BY <1>2, <2>1, <2>2, <2>3, <2>4 DEF GateInv, TypeOK, guards, verdict
  <1>8. AllUp' = AllUp
    BY <1>1 DEF AllUp
  <1>5. Placed'
    BY <1>1, <1>2, <1>3, <1>8 DEF GateInv, TypeOK, Placed, LegPlaces, RecoveryPlaces
  <1>6. Judged' /\ Ending'
    BY <1>1, <1>2, <1>3 DEF GateInv, TypeOK, Placed, Judged, Ending, Blind,
                             EndPlaces, Untouched, LegPlaces, RecoveryPlaces, verdict
  <1>7. Guarded'
    BY <1>1, <1>2 DEF GateInv, TypeOK, Guarded, guards, LegPlaces,
                        RecoveryPlaces, EndPlaces
  <1> QED
    BY <1>3, <1>4, <1>5, <1>6, <1>7 DEF GateInv

\* A cleanup that cannot be written down has failed, whatever it has removed.
LEMMA CleanupUnwrittenStep ==
    ASSUME GateAssumption, GateInv, CleanupUnwritten
    PROVE  GateInv'
  <1>1. /\ pc = "cleanup" /\ WriteFault /\ cleanup' = FALSE /\ AfterCleanup
        /\ (root[k] /\ Remove(k)) \/ UNCHANGED <<temp, root>>
        /\ UNCHANGED <<orig, stopped, failed, child, gate, verdict, beatFailed, lease,
                       guards, signals>>
    BY DEF CleanupUnwritten
  <1>2. /\ faults' \in FaultCounts /\ (VerdictLost => VerdictLost')
        /\ k' \in Fleet /\ cleanup' \in BOOLEAN /\ leg' \in Records
        /\ \/ pc' = "restoration" /\ ~leg'.restored
           \/ pc' = "leg verdict" /\ AllUp
        /\ root' \in [Fleet -> BOOLEAN]
        /\ temp' \in [Fleet -> {"none", "home", "running"}]
    <2>1. faults' \in FaultCounts /\ (VerdictLost => VerdictLost')
      BY <1>1, FaultFacts DEF GateInv
    <2>2. /\ root' \in [Fleet -> BOOLEAN]
          /\ temp' \in [Fleet -> {"none", "home", "running"}]
      BY <1>1 DEF GateInv, TypeOK, Remove
    <2> QED
      BY <1>1, <2>1, <2>2, AfterCleanupFacts
  <1>3. Marked' /\ AllUp' = AllUp
    <2>1. \A m \in Fleet : temp'[m] = "running" => root'[m]
      BY <1>1 DEF GateInv, TypeOK, Marked, Remove
    <2> QED
      BY <1>1, <2>1 DEF GateInv, Marked, AllUp
  <1>4. TypeOK'
    <2>1. pc' \in Places
      BY <1>1, <1>2 DEF Places
    <2>2. UNCHANGED <<orig, stopped, failed, child, gate, verdict, beatFailed, lease,
                      guards, signals>>
      BY <1>1
    <2>3. failed' \in BOOLEAN
      BY <1>1, <1>2 DEF GateInv, TypeOK
    <2>4. k' \in Fleet /\ leg' \in Records /\ cleanup' \in BOOLEAN
      BY <1>1, <1>2 DEF GateInv, TypeOK
    <2> QED
      BY <1>2, <2>1, <2>2, <2>3, <2>4 DEF GateInv, TypeOK, guards, verdict
  <1>5. Placed'
    BY <1>1, <1>2, <1>3 DEF GateInv, TypeOK, Placed, LegPlaces, RecoveryPlaces
  <1>6. Judged' /\ Ending'
    BY <1>1, <1>2, <1>3 DEF GateInv, TypeOK, Placed, Judged, Ending, Blind,
                             EndPlaces, Untouched, LegPlaces, RecoveryPlaces, verdict
  <1>7. Guarded'
    BY <1>1, <1>2 DEF GateInv, TypeOK, Guarded, guards, LegPlaces,
                        RecoveryPlaces, EndPlaces
  <1> QED
    BY <1>3, <1>4, <1>5, <1>6, <1>7 DEF GateInv

\* A service that starts leaves its member marked.
LEMMA RestoreStep ==
    ASSUME GateAssumption, GateInv, Restore
    PROVE  GateInv'
  <1>1. /\ pc = "restore" /\ (Fault \/ Fine) /\ failed' \in BOOLEAN
        /\ orig' \in {orig, [orig EXCEPT ![k] = @ \/ stopped[k]]}
        /\ Sweep("converge", "unrestore")
        /\ UNCHANGED <<temp, root, stopped, cleanup, leg, child, gate, verdict,
                       beatFailed, lease, guards, signals>>
    BY DEF Restore, GateInv, TypeOK
  <1>2. /\ faults' \in FaultCounts /\ (VerdictLost => VerdictLost')
        /\ k' \in Fleet /\ orig' \in [Fleet -> BOOLEAN]
        /\ pc' \in {"restore", "converge", "unrestore"}
    BY <1>1, FaultFacts, SweepFacts DEF GateInv, TypeOK
  <1>3. Marked'
    BY <1>1 DEF GateInv, TypeOK, Marked
  <1>4. TypeOK'
    <2>1. pc' \in Places
      BY <1>1, <1>2 DEF Places
    <2>2. UNCHANGED <<temp, root, stopped, cleanup, leg, child, gate, verdict,
                      beatFailed, lease, guards, signals>>
      BY <1>1
    <2>3. failed' \in BOOLEAN
      BY <1>1, <1>2 DEF GateInv, TypeOK
    <2>4. k' \in Fleet /\ leg' \in Records /\ cleanup' \in BOOLEAN
      BY <1>1, <1>2 DEF GateInv, TypeOK
    <2> QED
      BY <1>2, <2>1, <2>2, <2>3, <2>4 DEF GateInv, TypeOK, guards, verdict
  <1>5. Placed'
    BY <1>1, <1>2, <1>3, MemberOrder DEF GateInv, TypeOK, Placed, LegPlaces,
           RecoveryPlaces, AllUp, NoneRuns, HomesTo, CleanTo
  <1>6. Judged' /\ Ending'
    BY <1>1, <1>2, <1>3 DEF GateInv, TypeOK, Placed, Judged, Ending, Blind,
                             EndPlaces, Untouched, LegPlaces, RecoveryPlaces, verdict
  <1>7. Guarded'
    BY <1>1, <1>2 DEF GateInv, TypeOK, Guarded, guards, LegPlaces,
                        RecoveryPlaces, EndPlaces
  <1> QED
    BY <1>3, <1>4, <1>5, <1>6, <1>7 DEF GateInv

\* A service that is stopped again is marked.
LEMMA UnrestoreStep ==
    ASSUME GateAssumption, GateInv, Unrestore
    PROVE  GateInv'
  <1>1. /\ pc = "unrestore" /\ (Fault \/ Fine) /\ failed' = FALSE
        /\ orig' \in [Fleet -> BOOLEAN]
        /\ \A m \in Fleet : ~orig'[m] => ~orig[m] \/ stopped[m]
        /\ \/ k < Members /\ k' = k + 1 /\ pc' = pc
           \/ k = Members /\ k' = 1 /\ pc' = "leg verdict"
        /\ leg' = [leg EXCEPT !.issues = TRUE]
        /\ UNCHANGED <<temp, root, stopped, cleanup, child, gate, verdict, beatFailed,
                       lease, guards, signals>>
    <2>1. orig' \in [Fleet -> BOOLEAN]
      BY DEF Unrestore, GateInv, TypeOK
    <2>2. \A m \in Fleet : ~orig'[m] => ~orig[m] \/ stopped[m]
      BY DEF Unrestore, GateInv, TypeOK
    <2>3. \/ k < Members /\ k' = k + 1 /\ pc' = pc
          \/ k = Members /\ k' = 1 /\ pc' = "leg verdict"
      BY MemberOrder DEF Unrestore, GateInv, TypeOK
    <2> QED
      BY <2>1, <2>2, <2>3 DEF Unrestore, Fault, Fine
  <1>2. /\ faults' \in FaultCounts /\ (VerdictLost => VerdictLost')
        /\ leg' \in Records
        /\ leg'.restored = leg.restored
        /\ k' \in Fleet /\ orig' \in [Fleet -> BOOLEAN]
    <2>1. leg' \in Records /\ leg'.restored = leg.restored
      BY <1>1 DEF GateInv, TypeOK, Records
    <2>2. k \in Fleet /\ (k' = 1 \/ (k < Members /\ k' = k + 1))
      BY <1>1 DEF GateInv, TypeOK
    <2>3. k' \in Fleet
      BY <2>2, MemberOrder
    <2> QED
      BY <1>1, <2>1, <2>3, FaultFacts DEF GateInv
  <1>3. Marked'
    BY <1>1 DEF GateInv, TypeOK, Marked
  <1>4. TypeOK'
    <2>1. pc' \in Places
      BY <1>1, <1>2 DEF Places
    <2>2. UNCHANGED <<temp, root, stopped, cleanup, child, gate, verdict, beatFailed,
                      lease, guards, signals>>
      BY <1>1
    <2>3. failed' \in BOOLEAN
      BY <1>1, <1>2 DEF GateInv, TypeOK
    <2>4. k' \in Fleet /\ leg' \in Records /\ cleanup' \in BOOLEAN
      BY <1>1, <1>2 DEF GateInv, TypeOK
    <2> QED
      BY <1>2, <2>1, <2>2, <2>3, <2>4 DEF GateInv, TypeOK, guards, verdict
  <1>5. Placed'
    BY <1>1, <1>2, <1>3, MemberOrder DEF GateInv, TypeOK, Placed, LegPlaces,
           RecoveryPlaces, AllUp, NoneRuns, HomesTo, CleanTo
  <1>6. Judged' /\ Ending'
    BY <1>1, <1>2, <1>3 DEF GateInv, TypeOK, Placed, Judged, Ending, Blind,
                             EndPlaces, Untouched, LegPlaces, RecoveryPlaces, verdict
  <1>7. Guarded'
    BY <1>1, <1>2 DEF GateInv, TypeOK, Guarded, guards, LegPlaces,
                        RecoveryPlaces, EndPlaces
  <1> QED
    BY <1>3, <1>4, <1>5, <1>6, <1>7 DEF GateInv

\* Only a fleet that is up counts as restored.
LEMMA VerifyStep ==
    ASSUME GateAssumption, GateInv, Verify
    PROVE  GateInv'
  <1>1. /\ pc = "verified" /\ pc' = "leg verdict"
        /\ Fault \/ WriteFault \/ Fine
        /\ leg' \in Records
        /\ stopped' = [m \in Fleet |-> FALSE] \/ UNCHANGED stopped
        /\ UNCHANGED <<k, failed, orig, temp, root, cleanup, child, gate, verdict,
                       beatFailed, lease, guards, signals>>
    BY DEF Verify, GateInv, TypeOK, Records
  <1>2. /\ faults' \in FaultCounts /\ (VerdictLost => VerdictLost')
        /\ stopped' \in [Fleet -> BOOLEAN]
    BY <1>1, FaultFacts DEF GateInv, TypeOK
  <1>3. AllUp /\ Marked'
    BY <1>1 DEF GateInv, TypeOK, Placed, Marked, AllUp
  <1>4. TypeOK'
    <2>1. pc' \in Places
      BY <1>1, <1>2 DEF Places
    <2>2. UNCHANGED <<k, failed, orig, temp, root, cleanup, child, gate, verdict,
                      beatFailed, lease, guards, signals>>
      BY <1>1
    <2>3. failed' \in BOOLEAN
      BY <1>1, <1>2 DEF GateInv, TypeOK
    <2>4. k' \in Fleet /\ leg' \in Records /\ cleanup' \in BOOLEAN
      BY <1>1, <1>2 DEF GateInv, TypeOK
    <2> QED
      BY <1>2, <2>1, <2>2, <2>3, <2>4 DEF GateInv, TypeOK, guards, verdict
  <1>5. Placed'
    BY <1>1, <1>2, <1>3, MemberOrder DEF GateInv, TypeOK, Placed, LegPlaces,
           RecoveryPlaces, AllUp, NoneRuns, HomesTo, CleanTo
  <1>6. Judged' /\ Ending'
    BY <1>1, <1>2, <1>3 DEF GateInv, TypeOK, Placed, Judged, Ending, Blind,
                             EndPlaces, Untouched, LegPlaces, RecoveryPlaces, verdict
  <1>7. Guarded'
    BY <1>1, <1>2 DEF GateInv, TypeOK, Guarded, guards, LegPlaces,
                        RecoveryPlaces, EndPlaces
  <1> QED
    BY <1>3, <1>4, <1>5, <1>6, <1>7 DEF GateInv

-----------------------------------------------------------------------------
(* Signals *)

\* What an interrupted operation has done leaves every member marked.
LEMMA HalfDoneFacts ==
    ASSUME GateAssumption, GateInv, HalfDone
    PROVE  /\ {orig, root, stopped}' \subseteq [Fleet -> BOOLEAN]
           /\ temp' \in [Fleet -> {"none", "home", "running"}]
           /\ Marked'
  <1>1. CASE UNCHANGED members
    BY <1>1 DEF GateInv, TypeOK, Marked, members
  <1>2. CASE /\ stopped' = [stopped EXCEPT ![k] = TRUE]
             /\ orig' \in {orig, [orig EXCEPT ![k] = FALSE]}
             /\ UNCHANGED <<temp, root>>
    <2>1. {orig, root, stopped}' \subseteq [Fleet -> BOOLEAN]
      <3>1. {orig, root, stopped} \subseteq [Fleet -> BOOLEAN]
        BY DEF GateInv, TypeOK
      <3>2. stopped' \in [Fleet -> BOOLEAN]
        BY <1>2, <3>1
      <3>3. orig' \in [Fleet -> BOOLEAN]
        BY <1>2, <3>1
      <3> QED
        BY <1>2, <3>1, <3>2, <3>3
    <2>2. \A m \in Fleet : ~orig'[m] => stopped'[m]
      BY <1>2 DEF GateInv, TypeOK, Marked
    <2> QED
      BY <1>2, <2>1, <2>2 DEF GateInv, TypeOK, Marked
  <1>3. CASE /\ pc = "home" /\ temp' = [temp EXCEPT ![k] = "home"]
             /\ UNCHANGED <<orig, root, stopped>>
    BY <1>3 DEF GateInv, TypeOK, Marked
  <1>4. CASE /\ pc = "run" /\ temp' = [temp EXCEPT ![k] = "running"]
             /\ UNCHANGED <<orig, root, stopped>>
    <2>1. root[k]
      BY <1>4, MemberOrder DEF GateInv, TypeOK, Placed, HomesTo
    <2> QED
      BY <1>4, <2>1 DEF GateInv, TypeOK, Marked
  <1> QED
    BY <1>1, <1>2, <1>3, <1>4 DEF HalfDone

\* A signal is deferred, ends the work of the leg or of the gate, or leaves a
\* finally; in every case the gate can no longer count on its reports.
LEMMA SignalStep ==
    ASSUME GateAssumption, GateInv, Signal
    PROVE  GateInv'
  <1>1. /\ signals' \in 0..MaxSignals /\ signals' > 0
        /\ seen' \in [gate : BOOLEAN, leg : BOOLEAN]
        /\ UNCHANGED <<cleanup, child, verdict, beatFailed, lease, recovery,
                       faults>>
    <2>1. signals \in 0..MaxSignals /\ signals < MaxSignals /\ signals' = signals + 1
      BY DEF Signal, GateInv, TypeOK
    <2>2. signals' \in 0..MaxSignals /\ signals' > 0
      BY <2>1 DEF GateAssumption
    <2>3. seen' \in [gate : BOOLEAN, leg : BOOLEAN]
      <3>1. /\ seen \in [gate : BOOLEAN, leg : BOOLEAN] /\ guard \in {"gate", "leg"}
            /\ seen' = [seen EXCEPT ![guard] = TRUE]
        BY DEF Signal, GateInv, TypeOK
      <3> QED
        BY <3>1
    <2> QED
      BY <2>2, <2>3 DEF Signal
  <1>2. Blind'
    BY <1>1 DEF Blind
  <1>3. CASE UNCHANGED <<pc, k, failed, leg, gate, guard, members>>
    <2>1. /\ AllUp' = AllUp /\ NoneRuns' = NoneRuns
          /\ Untouched' = Untouched /\ Marked' = Marked
      BY <1>3, MembersFrame
    <2>2. TypeOK'
      BY <1>1, <1>3 DEF GateInv, TypeOK, members, verdict
    <2>3. Placed'
      BY <1>1, <1>3, <2>1 DEF GateInv, Placed, HomesTo, CleanTo, members
    <2>4. Judged' /\ Ending'
      BY <1>1, <1>2, <1>3, <2>1 DEF GateInv, Judged, Ending
    <2>5. Guarded'
      BY <1>1, <1>3 DEF GateInv, Guarded
    <2> QED
      BY <2>1, <2>2, <2>3, <2>4, <2>5 DEF GateInv
  <1>4. CASE /\ guard = "leg" /\ pc \in LegPlaces /\ LegRaises(FALSE)
             /\ HalfDone /\ UNCHANGED <<gate, guard>>
    <2>1. /\ pc' = "leg finally" /\ k' = 1 /\ k' \in Fleet /\ failed' = FALSE
          /\ leg' \in Records /\ leg'.restored = leg.restored
      BY <1>4, LegRaisesFacts DEF GateInv
    <2>2. TypeOK' /\ Marked'
      BY <1>1, <1>4, <2>1, HalfDoneFacts DEF GateInv, TypeOK, Places, verdict
    <2>3. Placed'
      BY <1>1, <1>4, <2>1 DEF GateInv, TypeOK, Placed, LegPlaces, RecoveryPlaces
    <2>4. Judged' /\ Ending'
      BY <1>1, <1>4, <2>1 DEF GateInv, Judged, Ending, EndPlaces, LegPlaces
    <2>5. Guarded'
      BY <1>1, <1>4, <2>1 DEF GateInv, Guarded, LegPlaces, RecoveryPlaces, EndPlaces
    <2> QED
      BY <2>2, <2>3, <2>4, <2>5 DEF GateInv
  <1>5. CASE /\ pc \notin EndPlaces \cup RecoveryPlaces \cup {"escaped"}
             /\ GateRaises /\ guard' = "gate"
             /\ UNCHANGED <<k, failed, leg, members>>
    <2>1. /\ pc' = "gate finally" /\ gate' \in GateRecords /\ gate'.issues
          /\ gate'.released = gate.released /\ gate'.passed = gate.passed
      BY <1>5, GateRaisesFacts DEF GateInv
    <2>2. Marked'
      BY <1>5, MembersFrame DEF GateInv
    <2>3. TypeOK'
      BY <1>1, <1>5, <2>1 DEF GateInv, TypeOK, Places, members, verdict
    <2>4. Placed' /\ Judged'
      BY <2>1 DEF Placed, Judged, LegPlaces, RecoveryPlaces
    <2>5. Ending'
      BY <1>1, <1>2, <1>5, <2>1 DEF GateInv, Ending, EndPlaces
    <2>6. Guarded'
      BY <1>1, <1>5, <2>1 DEF Guarded, LegPlaces, RecoveryPlaces, EndPlaces
    <2> QED
      BY <2>2, <2>3, <2>4, <2>5, <2>6 DEF GateInv
  <1>6. CASE /\ pc = "gate finally" /\ pc' = "escaped"
             /\ UNCHANGED <<k, failed, leg, gate, guard, members>>
    <2>1. Marked'
      BY <1>6, MembersFrame DEF GateInv
    <2>2. TypeOK'
      BY <1>1, <1>6 DEF GateInv, TypeOK, Places, members, verdict
    <2>3. Placed' /\ Judged'
      BY <1>6 DEF Placed, Judged, LegPlaces, RecoveryPlaces
    <2>4. Ending'
      BY <1>6 DEF GateInv, Ending, EndPlaces
    <2>5. Guarded'
      BY <1>6 DEF GateInv, Guarded, LegPlaces, RecoveryPlaces, EndPlaces
    <2> QED
      BY <2>1, <2>2, <2>3, <2>4, <2>5 DEF GateInv
  <1>7. CASE recovery[guard]
    BY <1>3, <1>7 DEF Signal
  <1>8. CASE ~recovery[guard] /\ guard = "leg"
    <2>1. pc \in LegPlaces
      BY <1>8 DEF GateInv, Guarded
    <2>2. pc \notin EndPlaces \cup RecoveryPlaces \cup {"escaped"}
      BY <2>1 DEF LegPlaces, EndPlaces, RecoveryPlaces
    <2>3. CASE pc = "leg finally"
      BY <1>5, <1>8, <2>2, <2>3 DEF Signal
    <2>4. CASE pc # "leg finally"
      BY <1>4, <1>8, <2>1, <2>4 DEF Signal
    <2> QED
      BY <2>3, <2>4
  <1>9. CASE ~recovery[guard] /\ guard # "leg"
    <2>1. /\ guard = "gate"
          /\ pc \notin EndPlaces \cup RecoveryPlaces \cup {"escaped"}
      BY <1>9 DEF GateInv, TypeOK, Guarded, Signal
    <2>2. CASE pc = "gate finally"
      BY <1>6, <1>9, <2>2 DEF Signal
    <2>3. CASE pc # "gate finally"
      BY <1>5, <1>9, <2>1, <2>3 DEF Signal
    <2> QED
      BY <2>2, <2>3
  <1> QED
    BY <1>7, <1>8, <1>9

-----------------------------------------------------------------------------
(* The theorems *)

\* GateInv holds initially.
LEMMA GateInit == ASSUME GateAssumption, Init PROVE GateInv
  <1>1. /\ pc = "acquire" /\ k = 1 /\ failed = FALSE /\ guard = "gate"
        /\ signals = 0 /\ cleanup = TRUE
        /\ orig = [m \in Fleet |-> TRUE] /\ temp = [m \in Fleet |-> "none"]
        /\ root = [m \in Fleet |-> FALSE] /\ stopped = [m \in Fleet |-> FALSE]
    BY DEF Init
  <1>2. leg \in Records /\ ~leg.restored /\ child \in Records
    BY DEF Init, Records
  <1>3. gate \in GateRecords /\ ~gate.released /\ ~gate.passed
    BY DEF Init, GateRecords
  <1>4. faults \in FaultCounts /\ signals \in 0..MaxSignals
    BY DEF Init, FaultCounts, GateAssumption
  <1>5. TypeOK
    <2>1. pc \in Places /\ k \in Fleet
      BY <1>1, MemberOrder DEF Places
    <2>2. /\ {orig, root, stopped} \subseteq [Fleet -> BOOLEAN]
          /\ temp \in [Fleet -> {"none", "home", "running"}]
      BY <1>1
    <2>3. {failed, cleanup, acquired, hbFailed, releaseFailed, beatFailed, lease}
             \subseteq BOOLEAN
      BY DEF Init
    <2>4. {recovery, seen} \subseteq [gate : BOOLEAN, leg : BOOLEAN]
      BY DEF Init
    <2> QED
      BY <1>1, <1>2, <1>3, <1>4, <2>1, <2>2, <2>3, <2>4 DEF TypeOK
  <1>6. Marked /\ AllUp /\ NoneRuns
    BY <1>1 DEF Marked, AllUp, NoneRuns
  <1>7. Placed
    BY <1>1, <1>2, <1>6 DEF Placed, LegPlaces, RecoveryPlaces
  <1>8. Judged /\ Ending
    BY <1>1, <1>3 DEF Judged, Ending, EndPlaces
  <1>9. Guarded
    BY <1>1 DEF Init, Guarded, LegPlaces, RecoveryPlaces, EndPlaces
  <1> QED
    BY <1>5, <1>6, <1>7, <1>8, <1>9 DEF GateInv

\* A step that changes nothing keeps GateInv.
LEMMA GateStutter == ASSUME GateInv, UNCHANGED vars PROVE GateInv'
  <1>1. TypeOK'
    BY DEF GateInv, TypeOK, vars, members, verdict, guards
  <1>2. Marked' /\ Placed'
    BY DEF GateInv, Marked, Placed, AllUp, NoneRuns, HomesTo, CleanTo, vars, members
  <1>3. Judged' /\ Ending'
    BY DEF GateInv, Judged, Ending, Untouched, AllUp, NoneRuns, Blind, VerdictLost,
       vars, members
  <1>4. Guarded'
    BY DEF GateInv, Guarded, vars, guards
  <1> QED
    BY <1>1, <1>2, <1>3, <1>4 DEF GateInv

\* GateInv, the inductive invariant: what each place of the gate and of its
\* fleet leg knows of the members, the verdicts and the lease.
THEOREM GateInvariant == Spec => []GateInv
  <1>1. Init => GateInv
    BY GateInit, GateAssumption
  <1>2. GateInv /\ [Next]_vars => GateInv'
    <2> SUFFICES ASSUME GateInv, [Next]_vars PROVE GateInv'
      OBVIOUS
    <2> USE GateAssumption
    <2>1. CASE LegWork
      BY <2>1, PrepareStep, StopStep, MakeHomeStep, RunStep, QualifyStep,
         StageUnwrittenStep DEF LegWork
    <2>2. CASE LegRecovery
      BY <2>2, LegRecoversStep, CleanupStep, CleanupUnwrittenStep, EnterRestoreStep,
         RestoreStep, ConvergeStep, UnrestoreStep, VerifyStep, LegVerdictStep,
         LeaveLegStep DEF LegRecovery
    <2>3. CASE GateWork
      BY <2>3, AcquireStep, EnterLegStep, AppendStep, JudgeStep, RunPodStep, AuditStep
         DEF GateWork
    <2>4. CASE GateRecovery
      BY <2>4, GateRecoversStep, ReleaseStep, ExtendLeaseStep, ReportStep
         DEF GateRecovery
    <2>5. CASE BeatFails
      BY <2>5, BeatFailsStep
    <2>6. CASE Signal
      BY <2>6, SignalStep
    <2>7. CASE UNCHANGED vars
      BY <2>7, GateStutter
    <2> QED
      BY <2>1, <2>2, <2>3, <2>4, <2>5, <2>6, <2>7 DEF Next, Main
  <1> QED
    BY <1>1, <1>2, PTL DEF Spec

\* Every variable keeps its type.
THEOREM GateTypes == Spec => []TypeOK
  <1>1. GateInv => TypeOK
    BY DEF GateInv
  <1> QED
    BY <1>1, GateInvariant, PTL

\* A gate that passed has given the fleet back as it was and holds no lease,
\* for any number of members, failures and signals
\* (_qualify_release_matrix).
THEOREM PassedGateRestored == Spec => []PassedIsRestored
  <1>1. GateInv => PassedIsRestored
    <2> SUFFICES ASSUME GateInv, gate.passed
                 PROVE  Untouched /\ ~lease /\ ~beatFailed /\ child.passed
      BY DEF PassedIsRestored
    <2>1. pc = "reported" /\ gate.released /\ ~gate.issues
      BY DEF GateInv, Ending
    <2>2. pc \in EndPlaces
      BY <2>1 DEF EndPlaces
    <2>3. beatFailed \in BOOLEAN
      BY DEF GateInv, TypeOK
    <2> QED
      BY <2>1, <2>2, <2>3 DEF GateInv, Ending
  <1> QED
    BY <1>1, GateInvariant, PTL

\* A fleet leg that returns with a fleet it did not restore is critical
\* (_qualify_physical_fleet).
THEOREM UnrestoredLegCritical == Spec => []UnrestoredIsCritical
  <1>1. GateInv => UnrestoredIsCritical
    BY DEF GateInv, Judged, UnrestoredIsCritical
  <1> QED
    BY <1>1, GateInvariant, PTL

\* The lease is released on an unrestored fleet only when the report with the
\* verdict of the leg could not be written or a signal came in (the finally of
\* _qualify_release_matrix).
THEOREM ReportedLeaseKept == Spec => []LeaseKeptIfReported
  <1>1. GateInv => LeaseKeptIfReported
    BY DEF GateInv, Ending, Blind, LeaseKeptIfReported
  <1> QED
    BY <1>1, GateInvariant, PTL
=============================================================================
