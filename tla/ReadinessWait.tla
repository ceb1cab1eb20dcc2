--------------------------- MODULE ReadinessWait ---------------------------
(***************************************************************************)
(* The readiness wait of a model (_wait_for_model_ready in                 *)
(* src/src/skulk_test_harness/orchestrator.py): the harness polls which    *)
(* instances serve the model and waits for one that is ready, through a    *)
(* slow load, through gaps in which the cluster places the model again     *)
(* under another id, and through endless replacement.                      *)
(*                                                                         *)
(* The cluster is as bad as it can be: every poll sees any instances in    *)
(* any states.  What the placement policy, the excluded and the eligible   *)
(* nodes and the protected instances filter away is not seen.              *)
(***************************************************************************)
EXTENDS Integers

CONSTANTS
    Ids,            \* instance ids
    NoId,           \* None
    ReadyTime,      \* placement_ready_timeout_s
    AppearanceTime, \* placement_appearance_timeout_s
    TotalTime,      \* placement_ready_total_timeout_s, or its default
    PollInterval,   \* poll_interval_s
    MaxCall         \* how long a read of the state may take

\* The longest time between two polls.
Pace == PollInterval + MaxCall

ASSUME WaitAssumption ==
    /\ NoId \notin Ids
    /\ {ReadyTime, AppearanceTime, TotalTime, PollInterval} \subseteq Nat \ {0}
    /\ MaxCall \in Nat

VARIABLES
    now,            \* time of the present poll; the request was at 0
    outcome,        \* "waiting", "ready" or why it is not
    reported,       \* the instance that the result names
    readyDeadline, readyAnchor, churnDeadline, reAnchorCount,
    seenAny, noViableSince, lastSeen,
    loadingSince,   \* when each instance was first seen loading (history)
    viableAt        \* when one was last seen loading (history)

clocks  == <<readyDeadline, readyAnchor, churnDeadline, reAnchorCount>>
history == <<loadingSince, viableAt>>
vars == <<now, outcome, reported, clocks, seenAny, noViableSince, lastSeen,
          history>>

NoTime == -1        \* None

-----------------------------------------------------------------------------
(* What one poll sees *)

Views == [Ids -> {"absent", "loading", "ready", "failed"}]
In(view, state) == {i \in Ids : view[i] = state}

\* The wait goes on: the next poll reads the clock after the sleep and at most
\* a slow call later.
Sleep ==
    /\ now' \in (now + PollInterval)..(now + Pace)
    /\ UNCHANGED <<outcome, reported>>

\* Mutant: every result names the instance seen last.
NotReadyNamed(reason, known) ==
    /\ outcome' = reason
    /\ reported' = lastSeen
    /\ UNCHANGED now

\* not_ready: a known instance is named for a failure that is not retried.
NotReady(reason, known) ==
    /\ outcome' = reason
    /\ reported' = known
    /\ UNCHANGED now

-----------------------------------------------------------------------------
(* One round of the loop *)

\* Any ready instance ends the wait.
FoundReady(view) ==
    /\ \E i \in In(view, "ready") : outcome' = "ready" /\ reported' = i
    /\ UNCHANGED <<now, clocks, seenAny, noViableSince, lastSeen, history>>

\* The ceiling over all replacements.
AtCeiling == churnDeadline # NoTime /\ now >= churnDeadline

Churned(view) ==
    /\ In(view, "ready") = {}
    /\ AtCeiling
    /\ NotReady("churn", lastSeen)
    /\ UNCHANGED <<clocks, seenAny, noViableSince, lastSeen, history>>

\* Mutant: the ceiling is counted anew for every replacement.
AnchorChurning(first) ==
    /\ reAnchorCount' = reAnchorCount + IF readyAnchor = NoId THEN 0 ELSE 1
    /\ readyDeadline' = now + ReadyTime
    /\ readyAnchor' = first
    /\ churnDeadline' = now + TotalTime

\* Mutant: the ceiling is counted from the request.
AnchorFromRequest(first) ==
    /\ reAnchorCount' = reAnchorCount + IF readyAnchor = NoId THEN 0 ELSE 1
    /\ readyDeadline' = now + ReadyTime
    /\ readyAnchor' = first
    /\ churnDeadline' = TotalTime

\* Mutant: a replacement inherits the deadline of the instance it replaces.
AnchorInherited(first) ==
    /\ reAnchorCount' = reAnchorCount + IF readyAnchor = NoId THEN 0 ELSE 1
    /\ readyDeadline' = IF readyAnchor = NoId THEN now + ReadyTime
                                              ELSE readyDeadline
    /\ readyAnchor' = first
    /\ churnDeadline' = IF churnDeadline = NoTime THEN now + TotalTime
                                                  ELSE churnDeadline

\* A lineage gets its allowance; the ceiling is counted from the first one.
Anchor(first) ==
    /\ reAnchorCount' = reAnchorCount + IF readyAnchor = NoId THEN 0 ELSE 1
    /\ readyDeadline' = now + ReadyTime
    /\ readyAnchor' = first
    /\ churnDeadline' = IF churnDeadline = NoTime THEN now + TotalTime
                                                  ELSE churnDeadline

\* Some instance is loading.  The deadline belongs to the anchored instance;
\* when that one is not loading any more, another one is anchored.
Loading(view) ==
    LET loading == In(view, "loading") IN
    /\ In(view, "ready") = {} /\ ~AtCeiling
    /\ \E first \in loading :
          /\ lastSeen' = first
          /\ IF readyAnchor \notin loading THEN Anchor(first)
                                           ELSE UNCHANGED clocks
          /\ IF now >= readyDeadline' THEN NotReady("ready_timeout", first)
                                      ELSE Sleep
    /\ seenAny' = TRUE
    /\ noViableSince' = NoTime
    /\ loadingSince' = [i \in Ids |->
          IF i \in loading /\ loadingSince[i] = NoTime THEN now
                                                       ELSE loadingSince[i]]
    /\ viableAt' = now

\* Mutant: the gap is measured from the request.
GraceExpiredEarly == now > AppearanceTime

\* The gap in which nothing is viable has lasted too long.
GraceExpired == now - noViableSince' > AppearanceTime

\* Nothing is loading or ready: the cluster has some time to place the model
\* (again).
NothingViable(view) ==
    LET failed == In(view, "failed") IN
    /\ In(view, "ready") = {} /\ In(view, "loading") = {} /\ ~AtCeiling
    /\ noViableSince' = IF noViableSince = NoTime THEN now ELSE noViableSince
    /\ seenAny' = (seenAny \/ failed # {})
    /\ \/ failed = {} /\ UNCHANGED lastSeen
       \/ lastSeen' \in failed
    /\ IF ~seenAny' /\ now > AppearanceTime
       THEN NotReady("never_appeared", NoId)
       ELSE IF seenAny' /\ GraceExpired
       THEN IF failed # {}
            THEN NotReady("load_failed", lastSeen')
            ELSE NotReady("disappeared_without_replacement", NoId)
       ELSE Sleep
    /\ UNCHANGED <<clocks, history>>

\* A poll that fails leaves the wait with the exception.
PollRaises ==
    /\ outcome' = "raised"
    /\ UNCHANGED <<now, reported, clocks, seenAny, noViableSince, lastSeen,
                   history>>

Init ==
    /\ now = 0
    /\ outcome = "waiting" /\ reported = NoId
    /\ readyDeadline = NoTime /\ readyAnchor = NoId
    /\ churnDeadline = NoTime /\ reAnchorCount = 0
    /\ seenAny = FALSE /\ noViableSince = NoTime /\ lastSeen = NoId
    /\ loadingSince = [i \in Ids |-> NoTime]
    /\ viableAt = NoTime

Next ==
    /\ outcome = "waiting"
    /\ \/ \E view \in Views :
             \/ FoundReady(view) \/ Churned(view)
             \/ Loading(view) \/ NothingViable(view)
       \/ PollRaises

Spec == Init /\ [][Next]_vars

-----------------------------------------------------------------------------
(* Properties *)

Outcomes == {"waiting", "ready", "churn", "ready_timeout", "never_appeared",
             "load_failed", "disappeared_without_replacement", "raised"}

TypeOK ==
    /\ now \in Nat
    /\ outcome \in Outcomes
    /\ {reported, readyAnchor, lastSeen} \subseteq Ids \cup {NoId}
    /\ {readyDeadline, churnDeadline, noViableSince, viableAt} \subseteq Int
    /\ reAnchorCount \in Nat
    /\ seenAny \in BOOLEAN
    /\ loadingSince \in [Ids -> Int]

\* However the cluster replaces, fails and loses instances, the wait ends
\* within one appearance window, the ceiling, and two polls: "placement churn
\* cannot extend the wait without bound".
WaitBounded == now < AppearanceTime + TotalTime + 2 * Pace

\* A model is given up as timed out only when the instance that the wait is
\* anchored to was first seen loading a whole readiness allowance ago: no
\* replacement inherits the deadline of its predecessor, and no allowance runs
\* before its instance appears.
FullAllowance ==
    outcome = "ready_timeout" =>
        /\ readyAnchor # NoId /\ loadingSince[readyAnchor] # NoTime
        /\ now - loadingSince[readyAnchor] >= ReadyTime

\* A model is given up as gone or failed only when no poll has seen a viable
\* instance for longer than the appearance window: gaps between a placement
\* and its replacement are bridged.
GapsAreBridged ==
    outcome \in {"load_failed", "disappeared_without_replacement",
                 "never_appeared"}
        => now - viableAt > AppearanceTime

\* With the default ceiling the outcome "churn" means what its message says:
\* the cluster did replace the instance, and a single replacement was not cut
\* short by more than two polls.
ChurnIsChurn ==
    outcome = "churn" /\ TotalTime >= 2 * ReadyTime + AppearanceTime
                      /\ ReadyTime >= 2 * Pace
        => /\ reAnchorCount >= 1
           /\ reAnchorCount = 1 => now >= readyDeadline - 2 * Pace

\* A result that is retried on a freer cluster names no instance; every other
\* failure names the instance that failed (_is_retryable_placement_giveup).
KnownFailureNamed ==
    /\ outcome \in {"never_appeared", "disappeared_without_replacement"}
          => reported = NoId
    /\ outcome \in {"ready", "churn", "ready_timeout", "load_failed"}
          => reported # NoId

-----------------------------------------------------------------------------
(* The inductive invariant *)

Waiting == outcome = "waiting"

\* Before anything viable appeared the wait is in its appearance window.
Appearing ==
    Waiting /\ churnDeadline = NoTime =>
        /\ readyAnchor = NoId /\ reAnchorCount = 0
        /\ now <= AppearanceTime + Pace
        /\ noViableSince = 0 \/ (noViableSince = NoTime /\ now = 0)

\* Afterwards it is under the ceiling.
UnderCeiling ==
    Waiting /\ churnDeadline # NoTime =>
        /\ readyAnchor # NoId /\ lastSeen # NoId
        /\ churnDeadline - TotalTime \in 0..(AppearanceTime + Pace)
        /\ now < churnDeadline + Pace

\* The gap without a viable instance began behind the last viable one.
Gap ==
    /\ viableAt <= now
    /\ ~seenAny => viableAt = NoTime /\ churnDeadline = NoTime
    /\ noViableSince # NoTime => viableAt <= noViableSince /\ noViableSince <= now

\* The anchored instance was seen loading when its allowance began.
Anchored ==
    /\ \A i \in Ids : loadingSince[i] = NoTime
                       \/ (0 <= loadingSince[i] /\ loadingSince[i] <= now)
    /\ readyAnchor # NoId =>
          /\ loadingSince[readyAnchor] # NoTime
          /\ loadingSince[readyAnchor] <= readyDeadline - ReadyTime

\* The anchored lineage is within its allowance, or in a gap behind it; the
\* first two lineages began early.
Lineage ==
    Waiting /\ churnDeadline # NoTime =>
        /\ noViableSince = NoTime => now < readyDeadline + Pace
        /\ noViableSince # NoTime => noViableSince < readyDeadline + Pace
                                     /\ now <= noViableSince + AppearanceTime + Pace
        /\ reAnchorCount = 0 =>
              readyDeadline <= churnDeadline - TotalTime + ReadyTime
        /\ reAnchorCount = 1 =>
              readyDeadline <= churnDeadline - TotalTime + 2 * ReadyTime
                               + AppearanceTime + 2 * Pace

WaitInv ==
    /\ TypeOK /\ Appearing /\ UnderCeiling /\ Gap /\ Anchored /\ Lineage
    /\ WaitBounded /\ FullAllowance /\ GapsAreBridged /\ ChurnIsChurn
    /\ KnownFailureNamed
=============================================================================
