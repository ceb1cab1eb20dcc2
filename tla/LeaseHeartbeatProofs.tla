------------------------ MODULE LeaseHeartbeatProofs ------------------------
(***************************************************************************)
(* Proofs about LeaseHeartbeat for every TTL, interval and call duration   *)
(* that satisfy HeartbeatAssumption, and for every bound: HeartbeatInv is  *)
(* an invariant, so a healthy heartbeat's lease is held, a lost lease is   *)
(* noticed in time, and a released lease is never renewed.                 *)
(***************************************************************************)
EXTENDS LeaseHeartbeat, TLAPS

-----------------------------------------------------------------------------
(* Every step of every agent keeps the inductive invariant. *)

\* The thread wakes up no earlier than it is due, or ends on _stop.
LEMMA BeatWakesStep ==
    ASSUME HeartbeatAssumption, HeartbeatInv, BeatWakes
    PROVE  HeartbeatInv'
  <1> USE DEF BeatWakes, threadVars, mainVars, Mine, Alive
  <1>1. TypeOK'
    BY DEF HeartbeatAssumption, HeartbeatInv, TypeOK
  <1>2. FlockOwner'
    BY DEF HeartbeatInv, FlockOwner, TypeOK
  <1>3. Starting'
    BY DEF HeartbeatAssumption, HeartbeatInv, TypeOK, FlockOwner, Starting
  <1>4. Paced'
    BY DEF HeartbeatAssumption, HeartbeatInv, TypeOK, FlockOwner, Starting, Paced
  <1>5. Renewing'
    BY DEF HeartbeatAssumption, HeartbeatInv, TypeOK, Starting, Paced, Renewing
  <1>6. Noticing'
    BY DEF HeartbeatAssumption, HeartbeatInv, TypeOK, Starting, Paced, Noticing
  <1>7. Releasing'
    BY DEF HeartbeatInv, TypeOK, FlockOwner, Starting, Releasing
  <1> QED
    BY <1>1, <1>2, <1>3, <1>4, <1>5, <1>6, <1>7 DEF HeartbeatInv

\* The thread gets the file lock for a call of a renewal: the call returns
\* within MaxCall.
LEMMA BeatEntersStep ==
    ASSUME HeartbeatAssumption, HeartbeatInv, BeatEnters
    PROVE  HeartbeatInv'
  <1> USE DEF BeatEnters, Enter, threadVars, mainVars, Mine, Alive
  <1>1. TypeOK'
    BY DEF HeartbeatAssumption, HeartbeatInv, TypeOK
  <1>2. FlockOwner'
    BY DEF HeartbeatInv, FlockOwner, TypeOK
  <1>3. Starting'
    BY DEF HeartbeatAssumption, HeartbeatInv, TypeOK, FlockOwner, Starting
  <1>4. Paced'
    BY DEF HeartbeatAssumption, HeartbeatInv, TypeOK, FlockOwner, Starting, Paced
  <1>5. Renewing'
    BY DEF HeartbeatAssumption, HeartbeatInv, TypeOK, Starting, Paced, Renewing
  <1>6. Noticing'
    BY DEF HeartbeatAssumption, HeartbeatInv, TypeOK, Starting, Paced, Noticing
  <1>7. Releasing'
    BY DEF HeartbeatInv, TypeOK, FlockOwner, Starting, Releasing
  <1> QED
    BY <1>1, <1>2, <1>3, <1>4, <1>5, <1>6, <1>7 DEF HeartbeatInv

\* The thread's extend returns: it wrote a lease that outlasts the renewal,
\* or recorded a failure.
LEMMA BeatExtendedStep ==
    ASSUME HeartbeatAssumption, HeartbeatInv, BeatExtended
    PROVE  HeartbeatInv'
  <1> USE DEF BeatExtended, Leave, Extend, NotMine, CallFails, Fault, Fail, threadVars, mainVars, Mine, Alive
  <1>1. TypeOK'
    <2>1. lease' \in [holder : {"me", "rival", "none"}, expires : Nat]
      BY DEF HeartbeatAssumption, HeartbeatInv, TypeOK
    <2>2. {callBy, due, wrote, joinBy}' \subseteq Nat
      BY DEF HeartbeatAssumption, HeartbeatInv, TypeOK
    <2>3. /\ clock' \in 0..MaxClock /\ faults' \in 0..MaxFaults
          /\ brokenAt' \in -1..MaxClock
      BY DEF HeartbeatAssumption, HeartbeatInv, TypeOK
    <2>4. /\ flock' \in {"none", "main", "beat", "other"}
          /\ {stop, failure, critical, hbFailed}' \subseteq BOOLEAN
      BY DEF HeartbeatInv, TypeOK
    <2>5. /\ beat' \in {"off", "wait", "renew", "extending", "verify",
                         "reading", "dead"}
          /\ main' \in {"start", "work", "check", "join", "recheck", "release",
                         "releasing", "emergency", "extending", "verify",
                         "reading", "released", "held", "failed"}
      BY DEF HeartbeatInv, TypeOK
    <2> QED
      BY <2>1, <2>2, <2>3, <2>4, <2>5 DEF TypeOK
  <1>2. FlockOwner'
    BY DEF HeartbeatInv, FlockOwner, TypeOK
  <1>3. Starting'
    BY DEF HeartbeatAssumption, HeartbeatInv, TypeOK, FlockOwner, Starting
  <1>4. Paced'
    BY DEF HeartbeatAssumption, HeartbeatInv, TypeOK, FlockOwner, Starting, Paced
  <1>5. Renewing'
    BY DEF HeartbeatAssumption, HeartbeatInv, TypeOK, Starting, Paced, Renewing
  <1>6. Noticing'
    BY DEF HeartbeatAssumption, HeartbeatInv, TypeOK, Starting, Paced, Noticing
  <1>7. Releasing'
    BY DEF HeartbeatInv, TypeOK, FlockOwner, Starting, Releasing
  <1> QED
    BY <1>1, <1>2, <1>3, <1>4, <1>5, <1>6, <1>7 DEF HeartbeatInv

\* The thread's reread returns: the renewal is confirmed and the next one is
\* due in time, or a failure is recorded.
LEMMA BeatVerifiedStep ==
    ASSUME HeartbeatAssumption, HeartbeatInv, BeatVerified
    PROVE  HeartbeatInv'
  <1> USE DEF BeatVerified, Leave, Fault, Fail, Verified, threadVars, mainVars, Mine, Alive
  <1>1. TypeOK'
    <2>1. lease' \in [holder : {"me", "rival", "none"}, expires : Nat]
      BY DEF HeartbeatAssumption, HeartbeatInv, TypeOK
    <2>2. {callBy, due, wrote, joinBy}' \subseteq Nat
      BY DEF HeartbeatAssumption, HeartbeatInv, TypeOK
    <2>3. /\ clock' \in 0..MaxClock /\ faults' \in 0..MaxFaults
          /\ brokenAt' \in -1..MaxClock
      BY DEF HeartbeatAssumption, HeartbeatInv, TypeOK
    <2>4. /\ flock' \in {"none", "main", "beat", "other"}
          /\ {stop, failure, critical, hbFailed}' \subseteq BOOLEAN
      BY DEF HeartbeatInv, TypeOK
    <2>5. /\ beat' \in {"off", "wait", "renew", "extending", "verify",
                         "reading", "dead"}
          /\ main' \in {"start", "work", "check", "join", "recheck", "release",
                         "releasing", "emergency", "extending", "verify",
                         "reading", "released", "held", "failed"}
      BY DEF HeartbeatInv, TypeOK
    <2> QED
      BY <2>1, <2>2, <2>3, <2>4, <2>5 DEF TypeOK
  <1>2. FlockOwner'
    BY DEF HeartbeatInv, FlockOwner, TypeOK
  <1>3. Starting'
    BY DEF HeartbeatAssumption, HeartbeatInv, TypeOK, FlockOwner, Starting
  <1>4. Paced'
    BY DEF HeartbeatAssumption, HeartbeatInv, TypeOK, FlockOwner, Starting, Paced
  <1>5. Renewing'
    BY DEF HeartbeatAssumption, HeartbeatInv, TypeOK, Starting, Paced, Renewing
  <1>6. Noticing'
    BY DEF HeartbeatAssumption, HeartbeatInv, TypeOK, Starting, Paced, Noticing
  <1>7. Releasing'
    BY DEF HeartbeatInv, TypeOK, FlockOwner, Starting, Releasing
  <1> QED
    BY <1>1, <1>2, <1>3, <1>4, <1>5, <1>6, <1>7 DEF HeartbeatInv

\* The heartbeat starts only with a lease that is as it was acquired.
LEMMA StartStep ==
    ASSUME HeartbeatAssumption, HeartbeatInv, Start
    PROVE  HeartbeatInv'
  <1> USE DEF Start, Verified, Fault, threadVars, mainVars, Mine, Alive
  <1>1. TypeOK'
    <2>1. lease' \in [holder : {"me", "rival", "none"}, expires : Nat]
      BY DEF HeartbeatAssumption, HeartbeatInv, TypeOK
    <2>2. {callBy, due, wrote, joinBy}' \subseteq Nat
      BY DEF HeartbeatAssumption, HeartbeatInv, TypeOK
    <2>3. /\ clock' \in 0..MaxClock /\ faults' \in 0..MaxFaults
          /\ brokenAt' \in -1..MaxClock
      BY DEF HeartbeatAssumption, HeartbeatInv, TypeOK
    <2>4. /\ flock' \in {"none", "main", "beat", "other"}
          /\ {stop, failure, critical, hbFailed}' \subseteq BOOLEAN
      BY DEF HeartbeatInv, TypeOK
    <2>5. /\ beat' \in {"off", "wait", "renew", "extending", "verify",
                         "reading", "dead"}
          /\ main' \in {"start", "work", "check", "join", "recheck", "release",
                         "releasing", "emergency", "extending", "verify",
                         "reading", "released", "held", "failed"}
      BY DEF HeartbeatInv, TypeOK
    <2> QED
      BY <2>1, <2>2, <2>3, <2>4, <2>5 DEF TypeOK
  <1>2. FlockOwner'
    BY DEF HeartbeatInv, FlockOwner, Starting, TypeOK
  <1>3. Starting'
    BY DEF HeartbeatAssumption, HeartbeatInv, TypeOK, FlockOwner, Starting
  <1>4. Paced'
    BY DEF HeartbeatAssumption, HeartbeatInv, TypeOK, FlockOwner, Starting, Paced
  <1>5. Renewing'
    BY DEF HeartbeatAssumption, HeartbeatInv, TypeOK, Starting, Paced, Renewing
  <1>6. Noticing'
    BY DEF HeartbeatAssumption, HeartbeatInv, TypeOK, Starting, Paced, Noticing
  <1>7. Releasing'
    BY DEF HeartbeatInv, TypeOK, FlockOwner, Starting, Releasing
  <1> QED
    BY <1>1, <1>2, <1>3, <1>4, <1>5, <1>6, <1>7 DEF HeartbeatInv

\* The end of the work leaves the thread and the lease alone.
LEMMA WorkEndsStep ==
    ASSUME HeartbeatAssumption, HeartbeatInv, WorkEnds
    PROVE  HeartbeatInv'
  <1> USE DEF WorkEnds, threadVars, mainVars, Mine, Alive
  <1>1. TypeOK'
    BY DEF HeartbeatAssumption, HeartbeatInv, TypeOK
  <1>2. FlockOwner'
    BY DEF HeartbeatInv, FlockOwner, TypeOK
  <1>3. Starting'
    BY DEF HeartbeatAssumption, HeartbeatInv, TypeOK, FlockOwner, Starting
  <1>4. Paced'
    BY DEF HeartbeatAssumption, HeartbeatInv, TypeOK, FlockOwner, Starting, Paced
  <1>5. Renewing'
    BY DEF HeartbeatAssumption, HeartbeatInv, TypeOK, Starting, Paced, Renewing
  <1>6. Noticing'
    BY DEF HeartbeatAssumption, HeartbeatInv, TypeOK, Starting, Paced, Noticing
  <1>7. Releasing'
    BY DEF HeartbeatInv, TypeOK, FlockOwner, Starting, Releasing
  <1> QED
    BY <1>1, <1>2, <1>3, <1>4, <1>5, <1>6, <1>7 DEF HeartbeatInv

\* The main thread sets _stop when the work is over.
LEMMA CheckStep ==
    ASSUME HeartbeatAssumption, HeartbeatInv, Check
    PROVE  HeartbeatInv'
  <1> USE DEF Check, threadVars, mainVars, Mine, Alive
  <1>1. TypeOK'
    BY DEF HeartbeatAssumption, HeartbeatInv, TypeOK
  <1>2. FlockOwner'
    BY DEF HeartbeatInv, FlockOwner, TypeOK
  <1>3. Starting'
    BY DEF HeartbeatAssumption, HeartbeatInv, TypeOK, FlockOwner, Starting
  <1>4. Paced'
    BY DEF HeartbeatAssumption, HeartbeatInv, TypeOK, FlockOwner, Starting, Paced
  <1>5. Renewing'
    BY DEF HeartbeatAssumption, HeartbeatInv, TypeOK, Starting, Paced, Renewing
  <1>6. Noticing'
    BY DEF HeartbeatAssumption, HeartbeatInv, TypeOK, Starting, Paced, Noticing
  <1>7. Releasing'
    BY DEF HeartbeatInv, TypeOK, FlockOwner, Starting, Releasing
  <1> QED
    BY <1>1, <1>2, <1>3, <1>4, <1>5, <1>6, <1>7 DEF HeartbeatInv

\* stop() returns with a dead thread or a recorded failure.
LEMMA JoinStep ==
    ASSUME HeartbeatAssumption, HeartbeatInv, Join
    PROVE  HeartbeatInv'
  <1> USE DEF Join, threadVars, mainVars, Mine, Alive
  <1>1. TypeOK'
    BY DEF HeartbeatAssumption, HeartbeatInv, TypeOK
  <1>2. FlockOwner'
    BY DEF HeartbeatInv, FlockOwner, TypeOK
  <1>3. Starting'
    BY DEF HeartbeatAssumption, HeartbeatInv, TypeOK, FlockOwner, Starting
  <1>4. Paced'
    BY DEF HeartbeatAssumption, HeartbeatInv, TypeOK, FlockOwner, Starting, Paced
  <1>5. Renewing'
    BY DEF HeartbeatAssumption, HeartbeatInv, TypeOK, Starting, Paced, Renewing
  <1>6. Noticing'
    BY DEF HeartbeatAssumption, HeartbeatInv, TypeOK, Starting, Paced, Noticing
  <1>7. Releasing'
    BY DEF HeartbeatInv, TypeOK, FlockOwner, Starting, Releasing
  <1> QED
    BY <1>1, <1>2, <1>3, <1>4, <1>5, <1>6, <1>7 DEF HeartbeatInv

\* The lease is to be released only with a dead thread and no failure.
LEMMA RecheckStep ==
    ASSUME HeartbeatAssumption, HeartbeatInv, Recheck
    PROVE  HeartbeatInv'
  <1> USE DEF Recheck, threadVars, mainVars, Mine, Alive
  <1>1. TypeOK'
    BY DEF HeartbeatAssumption, HeartbeatInv, TypeOK
  <1>2. FlockOwner'
    BY DEF HeartbeatInv, FlockOwner, TypeOK
  <1>3. Starting'
    BY DEF HeartbeatAssumption, HeartbeatInv, TypeOK, FlockOwner, Starting
  <1>4. Paced'
    BY DEF HeartbeatAssumption, HeartbeatInv, TypeOK, FlockOwner, Starting, Paced
  <1>5. Renewing'
    BY DEF HeartbeatAssumption, HeartbeatInv, TypeOK, Starting, Paced, Renewing
  <1>6. Noticing'
    BY DEF HeartbeatAssumption, HeartbeatInv, TypeOK, Starting, Paced, Noticing
  <1>7. Releasing'
    BY DEF HeartbeatInv, TypeOK, FlockOwner, Starting, Releasing
  <1> QED
    BY <1>1, <1>2, <1>3, <1>4, <1>5, <1>6, <1>7 DEF HeartbeatInv

\* The main thread gets the file lock for its release or its extension.
LEMMA MainEntersStep ==
    ASSUME HeartbeatAssumption, HeartbeatInv, MainEnters
    PROVE  HeartbeatInv'
  <1> USE DEF MainEnters, Enter, threadVars, mainVars, Mine, Alive
  <1>1. TypeOK'
    BY DEF HeartbeatAssumption, HeartbeatInv, TypeOK
  <1>2. FlockOwner'
    BY DEF HeartbeatInv, FlockOwner, TypeOK
  <1>3. Starting'
    BY DEF HeartbeatAssumption, HeartbeatInv, TypeOK, FlockOwner, Starting
  <1>4. Paced'
    BY DEF HeartbeatAssumption, HeartbeatInv, TypeOK, FlockOwner, Starting, Paced
  <1>5. Renewing'
    BY DEF HeartbeatAssumption, HeartbeatInv, TypeOK, Starting, Paced, Renewing
  <1>6. Noticing'
    BY DEF HeartbeatAssumption, HeartbeatInv, TypeOK, Starting, Paced, Noticing
  <1>7. Releasing'
    BY DEF HeartbeatInv, TypeOK, FlockOwner, Starting, Releasing
  <1> QED
    BY <1>1, <1>2, <1>3, <1>4, <1>5, <1>6, <1>7 DEF HeartbeatInv

\* A release that succeeds leaves the lease to others.
LEMMA MainReleasedStep ==
    ASSUME HeartbeatAssumption, HeartbeatInv, MainReleased
    PROVE  HeartbeatInv'
  <1> USE DEF MainReleased, Leave, Free, Fault, threadVars, mainVars, Mine, Alive
  <1>1. TypeOK'
    <2>1. lease' \in [holder : {"me", "rival", "none"}, expires : Nat]
      BY DEF HeartbeatAssumption, HeartbeatInv, TypeOK
    <2>2. {callBy, due, wrote, joinBy}' \subseteq Nat
      BY DEF HeartbeatAssumption, HeartbeatInv, TypeOK
    <2>3. /\ clock' \in 0..MaxClock /\ faults' \in 0..MaxFaults
          /\ brokenAt' \in -1..MaxClock
      BY DEF HeartbeatAssumption, HeartbeatInv, TypeOK
    <2>4. /\ flock' \in {"none", "main", "beat", "other"}
          /\ {stop, failure, critical, hbFailed}' \subseteq BOOLEAN
      BY DEF HeartbeatInv, TypeOK
    <2>5. /\ beat' \in {"off", "wait", "renew", "extending", "verify",
                         "reading", "dead"}
          /\ main' \in {"start", "work", "check", "join", "recheck", "release",
                         "releasing", "emergency", "extending", "verify",
                         "reading", "released", "held", "failed"}
      BY DEF HeartbeatInv, TypeOK
    <2> QED
      BY <2>1, <2>2, <2>3, <2>4, <2>5 DEF TypeOK
  <1>2. FlockOwner'
    BY DEF HeartbeatInv, FlockOwner, TypeOK
  <1>3. Starting'
    BY DEF HeartbeatAssumption, HeartbeatInv, TypeOK, FlockOwner, Starting
  <1>4. Paced'
    BY DEF HeartbeatAssumption, HeartbeatInv, TypeOK, FlockOwner, Starting, Paced
  <1>5. Renewing'
    BY DEF HeartbeatAssumption, HeartbeatInv, TypeOK, Starting, Paced, Renewing
  <1>6. Noticing'
    BY DEF HeartbeatAssumption, HeartbeatInv, TypeOK, Starting, Paced, Noticing
  <1>7. Releasing'
    BY DEF HeartbeatInv, TypeOK, FlockOwner, Starting, Releasing
  <1> QED
    BY <1>1, <1>2, <1>3, <1>4, <1>5, <1>6, <1>7 DEF HeartbeatInv

\* The emergency extension comes only on the critical path.
LEMMA MainExtendedStep ==
    ASSUME HeartbeatAssumption, HeartbeatInv, MainExtended
    PROVE  HeartbeatInv'
  <1> USE DEF MainExtended, Leave, Extend, NotMine, CallFails, Fault, threadVars, mainVars, Mine, Alive
  <1>1. TypeOK'
    BY DEF HeartbeatAssumption, HeartbeatInv, TypeOK
  <1>2. FlockOwner'
    BY DEF HeartbeatInv, FlockOwner, TypeOK
  <1>3. Starting'
    BY DEF HeartbeatAssumption, HeartbeatInv, TypeOK, FlockOwner, Starting
  <1>4. Paced'
    BY DEF HeartbeatAssumption, HeartbeatInv, TypeOK, FlockOwner, Starting, Paced
  <1>5. Renewing'
    BY DEF HeartbeatAssumption, HeartbeatInv, TypeOK, Starting, Paced, Renewing
  <1>6. Noticing'
    BY DEF HeartbeatAssumption, HeartbeatInv, TypeOK, Starting, Paced, Noticing
  <1>7. Releasing'
    BY DEF HeartbeatInv, TypeOK, FlockOwner, Starting, Releasing
  <1> QED
    BY <1>1, <1>2, <1>3, <1>4, <1>5, <1>6, <1>7 DEF HeartbeatInv

\* The reread of the emergency extension changes nothing.
LEMMA MainVerifiedStep ==
    ASSUME HeartbeatAssumption, HeartbeatInv, MainVerified
    PROVE  HeartbeatInv'
  <1> USE DEF MainVerified, Leave, Verified, Fault, threadVars, mainVars, Mine, Alive
  <1>1. TypeOK'
    BY DEF HeartbeatAssumption, HeartbeatInv, TypeOK
  <1>2. FlockOwner'
    BY DEF HeartbeatInv, FlockOwner, TypeOK
  <1>3. Starting'
    BY DEF HeartbeatAssumption, HeartbeatInv, TypeOK, FlockOwner, Starting
  <1>4. Paced'
    BY DEF HeartbeatAssumption, HeartbeatInv, TypeOK, FlockOwner, Starting, Paced
  <1>5. Renewing'
    BY DEF HeartbeatAssumption, HeartbeatInv, TypeOK, Starting, Paced, Renewing
  <1>6. Noticing'
    BY DEF HeartbeatAssumption, HeartbeatInv, TypeOK, Starting, Paced, Noticing
  <1>7. Releasing'
    BY DEF HeartbeatInv, TypeOK, FlockOwner, Starting, Releasing
  <1> QED
    BY <1>1, <1>2, <1>3, <1>4, <1>5, <1>6, <1>7 DEF HeartbeatInv

\* Time passes no call's end, no due renewal and no wait that is over.
LEMMA TickStep ==
    ASSUME HeartbeatAssumption, HeartbeatInv, Tick
    PROVE  HeartbeatInv'
  <1> USE DEF Tick, threadVars, mainVars, Mine, Alive
  <1>1. TypeOK'
    BY DEF HeartbeatAssumption, HeartbeatInv, TypeOK
  <1>2. FlockOwner'
    BY DEF HeartbeatInv, FlockOwner, TypeOK
  <1>3. Starting'
    BY DEF HeartbeatAssumption, HeartbeatInv, TypeOK, FlockOwner, Starting
  <1>4. Paced'
    BY DEF HeartbeatAssumption, HeartbeatInv, TypeOK, FlockOwner, Starting, Paced
  <1>5. Renewing'
    BY DEF HeartbeatAssumption, HeartbeatInv, TypeOK, Starting, Paced, Renewing
  <1>6. Noticing'
    BY DEF HeartbeatAssumption, HeartbeatInv, TypeOK, Starting, Paced, Noticing
  <1>7. Releasing'
    BY DEF HeartbeatInv, TypeOK, FlockOwner, Starting, Releasing
  <1> QED
    BY <1>1, <1>2, <1>3, <1>4, <1>5, <1>6, <1>7 DEF HeartbeatInv

\* Another process gets the file lock for at most MaxCall.
LEMMA OtherEntersStep ==
    ASSUME HeartbeatAssumption, HeartbeatInv, OtherEnters
    PROVE  HeartbeatInv'
  <1> USE DEF OtherEnters, Enter, threadVars, mainVars, Mine, Alive
  <1>1. TypeOK'
    BY DEF HeartbeatAssumption, HeartbeatInv, TypeOK
  <1>2. FlockOwner'
    BY DEF HeartbeatInv, FlockOwner, TypeOK
  <1>3. Starting'
    BY DEF HeartbeatAssumption, HeartbeatInv, TypeOK, FlockOwner, Starting
  <1>4. Paced'
    BY DEF HeartbeatAssumption, HeartbeatInv, TypeOK, FlockOwner, Starting, Paced
  <1>5. Renewing'
    BY DEF HeartbeatAssumption, HeartbeatInv, TypeOK, Starting, Paced, Renewing
  <1>6. Noticing'
    BY DEF HeartbeatAssumption, HeartbeatInv, TypeOK, Starting, Paced, Noticing
  <1>7. Releasing'
    BY DEF HeartbeatInv, TypeOK, FlockOwner, Starting, Releasing
  <1> QED
    BY <1>1, <1>2, <1>3, <1>4, <1>5, <1>6, <1>7 DEF HeartbeatInv

\* Another process returns the file lock.
LEMMA OtherLeavesStep ==
    ASSUME HeartbeatAssumption, HeartbeatInv, OtherLeaves
    PROVE  HeartbeatInv'
  <1> USE DEF OtherLeaves, Leave, threadVars, mainVars, Mine, Alive
  <1>1. TypeOK'
    BY DEF HeartbeatAssumption, HeartbeatInv, TypeOK
  <1>2. FlockOwner'
    BY DEF HeartbeatInv, FlockOwner, TypeOK
  <1>3. Starting'
    BY DEF HeartbeatAssumption, HeartbeatInv, TypeOK, FlockOwner, Starting
  <1>4. Paced'
    BY DEF HeartbeatAssumption, HeartbeatInv, TypeOK, FlockOwner, Starting, Paced
  <1>5. Renewing'
    BY DEF HeartbeatAssumption, HeartbeatInv, TypeOK, Starting, Paced, Renewing
  <1>6. Noticing'
    BY DEF HeartbeatAssumption, HeartbeatInv, TypeOK, Starting, Paced, Noticing
  <1>7. Releasing'
    BY DEF HeartbeatInv, TypeOK, FlockOwner, Starting, Releasing
  <1> QED
    BY <1>1, <1>2, <1>3, <1>4, <1>5, <1>6, <1>7 DEF HeartbeatInv

\* A rival takes only a lease that is not held: not while the renewals are on
\* time.
LEMMA RivalTakesStep ==
    ASSUME HeartbeatAssumption, HeartbeatInv, RivalTakes
    PROVE  HeartbeatInv'
  <1> USE DEF RivalTakes, threadVars, mainVars, Mine, Alive
  <1>1. TypeOK'
    BY DEF HeartbeatAssumption, HeartbeatInv, TypeOK
  <1>2. FlockOwner'
    BY DEF HeartbeatInv, FlockOwner, TypeOK
  <1>3. Starting'
    BY DEF HeartbeatAssumption, HeartbeatInv, TypeOK, FlockOwner, Starting
  <1>4. Paced'
    BY DEF HeartbeatAssumption, HeartbeatInv, TypeOK, FlockOwner, Starting, Paced
  <1>5. Renewing'
    BY DEF HeartbeatAssumption, HeartbeatInv, TypeOK, Starting, Paced, Renewing
  <1>6. Noticing'
    BY DEF HeartbeatAssumption, HeartbeatInv, TypeOK, Starting, Paced, Noticing
  <1>7. Releasing'
    BY DEF HeartbeatInv, TypeOK, FlockOwner, Starting, Releasing
  <1> QED
    BY <1>1, <1>2, <1>3, <1>4, <1>5, <1>6, <1>7 DEF HeartbeatInv

\* A broken lease is one that is no longer this qualification's.
LEMMA OperatorBreaksStep ==
    ASSUME HeartbeatAssumption, HeartbeatInv, OperatorBreaks
    PROVE  HeartbeatInv'
  <1> USE DEF OperatorBreaks, Fault, Free, Ended, threadVars, mainVars, Mine, Alive
  <1>1. TypeOK'
    BY DEF HeartbeatAssumption, HeartbeatInv, TypeOK
  <1>2. FlockOwner'
    BY DEF HeartbeatInv, FlockOwner, TypeOK
  <1>3. Starting'
    BY DEF HeartbeatAssumption, HeartbeatInv, TypeOK, FlockOwner, Starting
  <1>4. Paced'
    BY DEF HeartbeatAssumption, HeartbeatInv, TypeOK, FlockOwner, Starting, Paced
  <1>5. Renewing'
    BY DEF HeartbeatAssumption, HeartbeatInv, TypeOK, Starting, Paced, Renewing
  <1>6. Noticing'
    BY DEF HeartbeatAssumption, HeartbeatInv, TypeOK, Starting, Paced, Noticing
  <1>7. Releasing'
    BY DEF HeartbeatInv, TypeOK, FlockOwner, Starting, Releasing
  <1> QED
    BY <1>1, <1>2, <1>3, <1>4, <1>5, <1>6, <1>7 DEF HeartbeatInv

-----------------------------------------------------------------------------
(* The theorems *)

\* HeartbeatInv holds in every reachable state: the thread keeps its pace, the
\* lease outlasts the next renewal, and only a quiet heartbeat is released.
THEOREM HeartbeatInvariant == Spec => []HeartbeatInv
  <1>1. HeartbeatAssumption
    BY HeartbeatAssumption
  <1>2. Init => HeartbeatInv
    <2> SUFFICES ASSUME Init PROVE HeartbeatInv
      OBVIOUS
    <2>1. /\ clock \in 0..MaxClock /\ faults \in 0..MaxFaults
          /\ brokenAt \in -1..MaxClock
          /\ lease \in [holder : {"me", "rival", "none"}, expires : Nat]
      BY <1>1 DEF HeartbeatAssumption, Init
    <2>2. TypeOK
      <3>1. {callBy, due, wrote, joinBy} \subseteq Nat
        BY DEF Init
      <3>2. {stop, failure, critical, hbFailed} \subseteq BOOLEAN
        BY DEF Init
      <3>3. /\ flock \in {"none", "main", "beat", "other"}
            /\ beat \in {"off", "wait", "renew", "extending", "verify",
                         "reading", "dead"}
            /\ main \in {"start", "work", "check", "join", "recheck",
                         "release", "releasing", "emergency", "extending",
                         "verify", "reading", "released", "held", "failed"}
        BY DEF Init
      <3> QED
        BY <2>1, <3>1, <3>2, <3>3 DEF TypeOK
    <2>3. FlockOwner /\ Starting
      BY DEF Init, FlockOwner, Starting
    <2>4. Paced /\ Renewing
      BY DEF Init, Paced, Renewing
    <2>5. Noticing
      BY DEF Init, Noticing
    <2>6. Releasing
      BY DEF Init, Releasing
    <2> QED
      BY <2>2, <2>3, <2>4, <2>5, <2>6 DEF HeartbeatInv
  <1>3. HeartbeatInv /\ [Next]_vars => HeartbeatInv'
    <2> SUFFICES ASSUME HeartbeatInv, [Next]_vars PROVE HeartbeatInv'
      OBVIOUS
    <2>1. CASE Beat
      BY <1>1, <2>1, BeatWakesStep, BeatEntersStep, BeatExtendedStep,
         BeatVerifiedStep DEF Beat
    <2>2. CASE Boundary
      BY <1>1, <2>2, CheckStep, JoinStep, RecheckStep, MainEntersStep,
         MainReleasedStep, MainExtendedStep, MainVerifiedStep DEF Boundary
    <2>3. CASE Start \/ WorkEnds
      BY <1>1, <2>3, StartStep, WorkEndsStep
    <2>4. CASE Tick \/ RivalTakes \/ OperatorBreaks \/ OtherEnters \/ OtherLeaves
      BY <1>1, <2>4, TickStep, RivalTakesStep, OperatorBreaksStep,
         OtherEntersStep, OtherLeavesStep
    <2>5. CASE UNCHANGED vars
      BY <2>5 DEF vars, threadVars, mainVars, HeartbeatInv, TypeOK, FlockOwner,
                  Starting, Paced, Renewing, Noticing, Releasing, Mine, Alive
    <2> QED
      BY <2>1, <2>2, <2>3, <2>4, <2>5 DEF Next
  <1> QED
    BY <1>2, <1>3, PTL DEF Spec

\* While work goes on and the heartbeat is healthy, the authoritative lease is
\* held by this qualification and has not run out.
THEOREM HealthyLease == Spec => []HealthyLeaseIsHeld
  <1>1. HeartbeatInv => HealthyLeaseIsHeld
    <2> SUFFICES ASSUME HeartbeatInv, main = "work", ~failure, brokenAt < 0
                 PROVE  Mine(lease) /\ clock < lease.expires
      BY DEF HealthyLeaseIsHeld, Verified
    <2>1. /\ {clock, due, wrote, callBy, lease.expires} \subseteq Nat
          /\ beat \in {"off", "wait", "renew", "extending", "verify",
                       "reading", "dead"}
      BY DEF HeartbeatInv, TypeOK
    <2>2. beat \in {"wait", "renew", "extending"} => clock <= due + 2 * MaxCall
      BY <2>1, HeartbeatAssumption DEF HeartbeatAssumption, HeartbeatInv, Paced
    <2>3. beat \in {"verify", "reading"} => clock < wrote
      BY <2>1, HeartbeatAssumption DEF HeartbeatAssumption, HeartbeatInv, Paced
    <2> QED
      BY <2>1, <2>2, <2>3, HeartbeatAssumption
      DEF HeartbeatAssumption, HeartbeatInv, Paced, Renewing, Alive
  <1> QED
    BY <1>1, HeartbeatInvariant, PTL

\* A lease that was broken or taken is noticed within one interval and two
\* store calls: destructive work does not go on under another's lease.
THEOREM LossIsNoticed == Spec => []LossNoticed
  <1>1. HeartbeatInv => LossNoticed
    <2> SUFFICES ASSUME HeartbeatInv, main = "work", ~failure, brokenAt >= 0
                 PROVE  clock <= brokenAt + Interval + 2 * MaxCall
      BY DEF LossNoticed
    <2>1. /\ {clock, due, wrote, callBy} \subseteq Nat
          /\ brokenAt \in Int
          /\ beat \in {"off", "wait", "renew", "extending", "verify",
                       "reading", "dead"}
      BY DEF HeartbeatInv, TypeOK
    <2>2. beat \in {"wait", "renew", "extending"} =>
             clock <= due + 2 * MaxCall /\ due <= brokenAt + Interval
      BY <2>1, HeartbeatAssumption
      DEF HeartbeatAssumption, HeartbeatInv, Paced, Noticing
    <2>3. beat \in {"verify", "reading"} =>
             /\ clock <= (wrote - LeaseTtl) + 2 * MaxCall
             /\ wrote - LeaseTtl <= brokenAt
      BY <2>1, HeartbeatAssumption
      DEF HeartbeatAssumption, HeartbeatInv, Paced, Noticing
    <2> QED
      BY <2>1, <2>2, <2>3, HeartbeatAssumption
      DEF HeartbeatAssumption, HeartbeatInv, Paced, Alive
  <1> QED
    BY <1>1, HeartbeatInvariant, PTL

\* A lease is released only with a heartbeat that is dead and never failed,
\* and is not this qualification's afterwards.
THEOREM ReleaseIsFinal == Spec => []ReleasedForGood
  <1>1. HeartbeatInv => ReleasedForGood
    BY DEF HeartbeatInv, Releasing, ReleasedForGood
  <1> QED
    BY <1>1, HeartbeatInvariant, PTL
=============================================================================
