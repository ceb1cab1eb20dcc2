------------------------ MODULE ReadinessWaitProofs ------------------------
(***************************************************************************)
(* Theorems about the readiness wait, for every number of instances, every *)
(* timeout and every cluster.                                              *)
(***************************************************************************)
EXTENDS ReadinessWait, TLAPS

\* What the constants and the words of the model are.
USE DEF Pace, NoTime, Waiting, In

LEMMA InitInv == Init => WaitInv
<1> SUFFICES ASSUME Init PROVE WaitInv
  OBVIOUS
<1>1. TypeOK
  <2>1. loadingSince \in [Ids -> Int]
    BY DEF Init
  <2>2. {reported, readyAnchor, lastSeen} \subseteq Ids \cup {NoId}
    BY DEF Init
  <2>3. {readyDeadline, churnDeadline, noViableSince, viableAt} \subseteq Int
    BY DEF Init
  <2>4. now \in Nat /\ reAnchorCount \in Nat /\ seenAny \in BOOLEAN
        /\ outcome \in Outcomes
    BY DEF Init, Outcomes
  <2> QED BY <2>1, <2>2, <2>3, <2>4 DEF TypeOK
<1>2. Appearing /\ UnderCeiling /\ Gap /\ Lineage /\ WaitBounded
  BY WaitAssumption
  DEF Init, Appearing, UnderCeiling, Gap, Lineage, WaitBounded
<1>3. Anchored
  BY DEF Init, Anchored
<1>4. FullAllowance /\ GapsAreBridged /\ ChurnIsChurn /\ KnownFailureNamed
  BY DEF Init, FullAllowance, GapsAreBridged, ChurnIsChurn, KnownFailureNamed
<1> QED BY <1>1, <1>2, <1>3, <1>4 DEF WaitInv

\* A ready instance ends the wait and disturbs nothing.
LEMMA FoundReadyInv ==
  ASSUME WaitInv, outcome = "waiting", NEW view \in Views, FoundReady(view)
  PROVE  WaitInv'
  BY WaitAssumption
  DEF FoundReady, WaitInv, TypeOK, Appearing, UnderCeiling, Gap, Anchored,
      Lineage, WaitBounded, FullAllowance, GapsAreBridged, ChurnIsChurn,
      KnownFailureNamed, Outcomes, clocks, history

LEMMA PollRaisesInv ==
  ASSUME WaitInv, outcome = "waiting", PollRaises
  PROVE  WaitInv'
  BY WaitAssumption
  DEF PollRaises, WaitInv, TypeOK, Appearing, UnderCeiling, Gap, Anchored,
      Lineage, WaitBounded, FullAllowance, GapsAreBridged, ChurnIsChurn,
      KnownFailureNamed, Outcomes, clocks, history

\* The ceiling is met: the lineages before it used their time.
LEMMA ChurnedInv ==
  ASSUME WaitInv, outcome = "waiting", NEW view \in Views, Churned(view)
  PROVE  WaitInv'
  BY WaitAssumption
  DEF Churned, AtCeiling, NotReady, WaitInv, TypeOK, Appearing, UnderCeiling,
      Gap, Anchored, Lineage, WaitBounded, FullAllowance, GapsAreBridged,
      ChurnIsChurn, KnownFailureNamed, Outcomes, clocks, history

\* Some instance is loading: its lineage is anchored, or begins its allowance
\* now, behind the allowance of its predecessor and a bridged gap.
LEMMA LoadingInv ==
  ASSUME WaitInv, outcome = "waiting", NEW view \in Views, Loading(view)
  PROVE  WaitInv'
<1> DEFINE loading == In(view, "loading")
<1> USE WaitAssumption
<1>1. PICK first \in Ids :
        /\ view[first] = "loading"
        /\ lastSeen' = first
        /\ IF readyAnchor \notin loading THEN Anchor(first)
                                         ELSE UNCHANGED clocks
        /\ IF now >= readyDeadline' THEN NotReady("ready_timeout", first)
                                    ELSE Sleep
  BY DEF Loading
<1>2. /\ ~AtCeiling
      /\ seenAny' = TRUE /\ noViableSince' = NoTime /\ viableAt' = now
      /\ loadingSince' = [i \in Ids |->
            IF i \in loading /\ loadingSince[i] = NoTime THEN now
                                                         ELSE loadingSince[i]]
  BY DEF Loading
<1>3. first # NoId /\ first \in loading /\ loading \subseteq Ids
  BY <1>1
<1>4. TypeOK /\ now \in Nat /\ readyDeadline \in Int /\ churnDeadline \in Int
      /\ reAnchorCount \in Nat /\ loadingSince \in [Ids -> Int]
      /\ noViableSince \in Int /\ readyAnchor \in Ids \cup {NoId}
  BY DEF WaitInv, TypeOK
<1>5. /\ readyDeadline' \in Int /\ churnDeadline' \in Int
      /\ reAnchorCount' \in Nat /\ readyAnchor' \in loading
      /\ churnDeadline' # NoTime
  <2>1. CASE readyAnchor \notin loading
    BY <1>1, <1>3, <1>4, <2>1 DEF Anchor
  <2>2. CASE readyAnchor \in loading
    BY <1>1, <1>3, <1>4, <2>2 DEF clocks, WaitInv, Appearing
  <2> QED BY <2>1, <2>2
<1>6. \/ /\ now >= readyDeadline'
         /\ outcome' = "ready_timeout" /\ reported' = first /\ now' = now
      \/ /\ now < readyDeadline'
         /\ outcome' = "waiting" /\ reported' = reported
         /\ now' \in (now + PollInterval)..(now + Pace)
  BY <1>1, <1>4, <1>5 DEF NotReady, Sleep
<1>7. now' \in Nat /\ now' >= now /\ now' <= now + Pace
  BY <1>4, <1>6
<1>8. TypeOK'
  BY <1>1, <1>2, <1>3, <1>4, <1>5, <1>6, <1>7 DEF TypeOK, Outcomes
<1>9. churnDeadline' - TotalTime \in 0..(AppearanceTime + Pace)
      /\ now < churnDeadline'
  <2>1. CASE churnDeadline = NoTime
    BY <1>1, <1>3, <1>4, <2>1 DEF Anchor, clocks, WaitInv, Appearing
  <2>2. CASE churnDeadline # NoTime
    BY <1>1, <1>2, <1>4, <2>2 DEF Anchor, clocks, AtCeiling, WaitInv, UnderCeiling
  <2> QED BY <2>1, <2>2
<1>10. Appearing' /\ UnderCeiling' /\ Gap' /\ WaitBounded'
  BY <1>1, <1>2, <1>3, <1>4, <1>5, <1>6, <1>7, <1>9
  DEF Appearing, UnderCeiling, Gap, WaitBounded
<1>11. Anchored'
  <2>1. \A i \in Ids : loadingSince'[i] = NoTime
              \/ (0 <= loadingSince'[i] /\ loadingSince'[i] <= now')
    BY <1>2, <1>4, <1>7 DEF WaitInv, Anchored
  <2>2. loadingSince'[readyAnchor'] # NoTime
    BY <1>2, <1>4, <1>5 DEF WaitInv, Anchored
  <2>3. loadingSince'[readyAnchor'] <= readyDeadline' - ReadyTime
    <3>1. CASE readyAnchor \notin loading
      BY <1>1, <1>2, <1>3, <1>4, <3>1 DEF Anchor, WaitInv, Anchored
    <3>2. CASE readyAnchor \in loading
      BY <1>1, <1>2, <1>3, <1>4, <3>2 DEF clocks, WaitInv, Anchored
    <3> QED BY <3>1, <3>2
  <2> QED BY <2>1, <2>2, <2>3 DEF Anchored
<1>12. FullAllowance'
  BY <1>4, <1>5, <1>6, <1>8, <1>11 DEF FullAllowance, Anchored, TypeOK
<1>13. Lineage'
  <2> SUFFICES ASSUME outcome' = "waiting" PROVE Lineage'
    BY DEF Lineage
  <2>1. now' < readyDeadline' + Pace
    BY <1>4, <1>5, <1>6, <1>7
  <2>2. reAnchorCount' = 0 =>
          readyDeadline' <= churnDeadline' - TotalTime + ReadyTime
    BY <1>1, <1>4, <1>5 DEF Anchor, clocks, WaitInv, Appearing, UnderCeiling, Lineage
  <2>3. reAnchorCount' = 1 =>
          readyDeadline' <= churnDeadline' - TotalTime + 2 * ReadyTime
                            + AppearanceTime + 2 * Pace
    BY <1>1, <1>4, <1>5 DEF Anchor, clocks, WaitInv, Appearing, UnderCeiling, Lineage
  <2> QED BY <1>2, <2>1, <2>2, <2>3 DEF Lineage
<1>14. GapsAreBridged' /\ ChurnIsChurn' /\ KnownFailureNamed'
  BY <1>3, <1>6 DEF GapsAreBridged, ChurnIsChurn, KnownFailureNamed, WaitInv
<1> QED
  BY <1>8, <1>10, <1>11, <1>12, <1>13, <1>14 DEF WaitInv

\* Nothing viable: the gap goes on, or it has lasted long enough.
LEMMA NothingViableInv ==
  ASSUME WaitInv, outcome = "waiting", NEW view \in Views, NothingViable(view)
  PROVE  WaitInv'
<1> USE WaitAssumption
<1> DEFINE failed == In(view, "failed")
<1>1. /\ ~AtCeiling
      /\ noViableSince' = IF noViableSince = NoTime THEN now ELSE noViableSince
      /\ seenAny' \in BOOLEAN
      /\ UNCHANGED <<clocks, history>>
  BY DEF NothingViable, WaitInv, TypeOK
<1>2. lastSeen' \in Ids \cup {NoId} /\ (lastSeen # NoId => lastSeen' # NoId)
      /\ (failed # {} => lastSeen' \in Ids)
  BY DEF NothingViable, WaitInv, TypeOK
<1>3. TypeOK /\ now \in Nat /\ readyDeadline \in Int /\ churnDeadline \in Int
      /\ noViableSince \in Int /\ viableAt \in Int
      /\ noViableSince' \in Int /\ noViableSince' <= now /\ noViableSince' >= viableAt
      /\ noViableSince' # NoTime
  BY <1>1 DEF WaitInv, TypeOK, Gap, Appearing, UnderCeiling
<1>4. (seenAny => seenAny') /\ (churnDeadline # NoTime => seenAny)
  BY DEF NothingViable, WaitInv, Gap
<1>5. CASE /\ outcome' = "never_appeared" /\ reported' = NoId /\ now' = now
           /\ now > AppearanceTime /\ ~seenAny'
  BY <1>1, <1>2, <1>3, <1>4, <1>5
  DEF WaitInv, TypeOK, Outcomes, Appearing, UnderCeiling, Gap, Anchored, Lineage,
      WaitBounded, FullAllowance, GapsAreBridged, ChurnIsChurn, KnownFailureNamed,
      clocks, history
<1>6. CASE /\ \/ outcome' = "load_failed" /\ reported' \in Ids
              \/ outcome' = "disappeared_without_replacement" /\ reported' = NoId
           /\ now' = now
           /\ now - noViableSince' > AppearanceTime
  BY <1>1, <1>2, <1>3, <1>4, <1>6
  DEF WaitInv, TypeOK, Outcomes, Appearing, UnderCeiling, Gap, Anchored, Lineage,
      WaitBounded, FullAllowance, GapsAreBridged, ChurnIsChurn, KnownFailureNamed,
      clocks, history
<1>7. CASE /\ Sleep
           /\ now - noViableSince' <= AppearanceTime \/ ~seenAny'
           /\ now <= AppearanceTime \/ seenAny'
  BY <1>1, <1>2, <1>3, <1>4, <1>7
  DEF WaitInv, Sleep, AtCeiling, TypeOK, Outcomes, Appearing, UnderCeiling, Gap, Anchored, Lineage,
      WaitBounded, FullAllowance, GapsAreBridged, ChurnIsChurn, KnownFailureNamed,
      clocks, history
<1> QED
  BY <1>1, <1>2, <1>3, <1>5, <1>6, <1>7
  DEF NothingViable, NotReady, GraceExpired

----------------------------------------------------------------------------
\* The inductive invariant of the wait holds at every poll.
THEOREM WaitInvariant == Spec => []WaitInv
<1>1. WaitInv /\ [Next]_vars => WaitInv'
  <2> SUFFICES ASSUME WaitInv, [Next]_vars PROVE WaitInv'
    OBVIOUS
  <2>1. ASSUME outcome = "waiting", NEW view \in Views,
               FoundReady(view) \/ Churned(view)
                 \/ Loading(view) \/ NothingViable(view)
        PROVE  WaitInv'
    BY <2>1, FoundReadyInv, ChurnedInv, LoadingInv, NothingViableInv
  <2>2. ASSUME outcome = "waiting", PollRaises PROVE WaitInv'
    BY <2>2, PollRaisesInv
  <2>3. CASE UNCHANGED vars
    BY <2>3
    DEF vars, clocks, history, WaitInv, TypeOK, Appearing, UnderCeiling, Gap,
        Anchored, Lineage, WaitBounded, FullAllowance, GapsAreBridged,
        ChurnIsChurn, KnownFailureNamed
  <2> QED BY <2>1, <2>2, <2>3 DEF Next
<1> QED BY <1>1, InitInv, PTL DEF Spec

\* The wait for a model is bounded, whatever the cluster does: the claim that
\* _wait_for_model_ready makes about placement churn.
THEOREM WaitIsBounded == Spec => []WaitBounded
<1>1. WaitInv => WaitBounded
  BY DEF WaitInv
<1> QED BY <1>1, WaitInvariant, PTL

\* A model that timed out had its whole readiness allowance.
THEOREM AllowanceIsFull == Spec => []FullAllowance
<1>1. WaitInv => FullAllowance
  BY DEF WaitInv
<1> QED BY <1>1, WaitInvariant, PTL

\* A model is given up only behind a gap longer than the appearance window.
THEOREM GapIsBridged == Spec => []GapsAreBridged
<1>1. WaitInv => GapsAreBridged
  BY DEF WaitInv
<1> QED BY <1>1, WaitInvariant, PTL

\* A result that the run retries on a freer cluster names no instance, every
\* other outcome names one (_is_retryable_placement_giveup).
THEOREM FailureIsNamed == Spec => []KnownFailureNamed
<1>1. WaitInv => KnownFailureNamed
  BY DEF WaitInv
<1> QED BY <1>1, WaitInvariant, PTL

\* The outcome "churn" means replacement, if the ceiling is the default one.
THEOREM ChurnTruthful == Spec => []ChurnIsChurn
<1>1. WaitInv => ChurnIsChurn
  BY DEF WaitInv
<1> QED BY <1>1, WaitInvariant, PTL
=============================================================================
