------------------------------ MODULE ModelRun ------------------------------
(***************************************************************************)
(* The execution of a run over its models (HarnessRunner.execute,          *)
(* _run_model_lifecycle and what they call, in                             *)
(* src/src/skulk_test_harness/orchestrator.py): each model is placed or    *)
(* reused, tested, torn down and its staged weights evicted; a model whose *)
(* placement is refused gets a second attempt behind all others.           *)
(*                                                                         *)
(* The cluster acts on its own between any two calls of the harness: a     *)
(* requested instance appears late or never, vanishes or is placed         *)
(* again under a new id, and operators place instances of the same model.  *)
(* Any call may fail, and the process may be interrupted.  How instances   *)
(* load and how long the readiness wait lasts is the subject of            *)
(* ReadinessWait; here an instance is there or not, and the wait ends in   *)
(* any way that the instances it could see allow.                          *)
(***************************************************************************)
EXTENDS Integers, TLC

CONSTANTS
    LastModel,      \* the run's models are 1..LastModel
    Ids, NoId,      \* instance ids; None
    MaxTrouble      \* bound: failing calls and writes, instances that vanish
                    \* or are placed again, instances that operators place
                    \* during the run, KeyboardInterrupt and SystemExit

ASSUME RunAssumption ==
    /\ LastModel \in Nat \ {0}
    /\ NoId \notin Ids /\ \A ids \in SUBSET Ids : NoId # ids
    /\ MaxTrouble \in Nat

Models == 1..LastModel
Symmetry == Permutations(Ids)

VARIABLES
    opts,       \* reuse, retain, evict: the options of the run
    inst,       \* the cluster's instances
    pending,    \* placements that the cluster accepted and has not made yet
    pc,         \* where the harness is
    cur,        \* the model of the present lifecycle
    retrying,   \* the deferred-retry pass
    deferred,   \* models to retry
    before,     \* preexisting_instance_ids of _run_model_lifecycle, or None
    protected,  \* preexisting_instance_ids of _ensure_model_placed
    placement,  \* the placement: is there one, made by the harness, id, ready
    placed,     \* what the lifecycle returns
    interrupted, aborted,
    targets,    \* instances still to delete
    clean,      \* all_deletes_succeeded
    issues,     \* the kinds of issues of each model in the report
    results,    \* models with a test result
    evicted,    \* models whose staged weights were removed
    trouble     \* what went wrong or came in between so far

cluster == <<inst, pending>>
report  == <<issues, results>>
life    == <<before, protected, placement, placed>>
tearing == <<targets, clean>>
ending  == <<interrupted, aborted>>
vars == <<opts, cluster, pc, cur, retrying, deferred, life, ending, tearing,
          report, evicted, trouble>>

-----------------------------------------------------------------------------
(* Instances *)

Unused == [model |-> 0, owner |-> "none", state |-> "unused", late |-> FALSE]
Fresh == {i \in Ids : inst[i] = Unused}
Alive(i) == inst[i].state = "live"

\* find_placements_for_model
Serving(m) == {i \in Ids : inst[i].model = m /\ Alive(i)}

Troubles(n) == trouble + n <= MaxTrouble /\ trouble' = trouble + n
Fault == Troubles(1)
Fine == UNCHANGED trouble

\* No lifecycle would take a new instance of the model for its own: none has
\* drawn the ownership boundary, or its sweep was made.
Unwatched(m) == cur # m \/ pc \in {"next", "snapshot", "delete", "evict",
                                   "ended", "done", "killed"}

Made(m, owner) == [model |-> m, owner |-> owner, state |-> "live",
                   late |-> Unwatched(m)]

-----------------------------------------------------------------------------
(* The cluster and its operators *)

harnessVars == <<opts, pc, cur, retrying, deferred, life, ending, tearing,
                 report, evicted>>

Appear(m) ==
    /\ pending[m] > 0
    /\ \E i \in Fresh : inst' = [inst EXCEPT ![i] = Made(m, "harness")]
    /\ pending' = [pending EXCEPT ![m] = @ - 1]
    /\ UNCHANGED <<harnessVars, trouble>>

\* An instance vanishes, and may be placed again under another id.
Move(i) ==
    /\ Alive(i)
    /\ Troubles(1)
    /\ \/ inst' = [inst EXCEPT ![i].state = "gone"]
       \/ \E j \in Fresh :
             inst' = [inst EXCEPT
                        ![i].state = "gone",
                        ![j] = Made(inst[i].model, inst[i].owner)]
    /\ UNCHANGED <<pending, harnessVars>>

OperatorPlaces(m) ==
    /\ Troubles(1)
    /\ \E i \in Fresh : inst' = [inst EXCEPT ![i] = Made(m, "operator")]
    /\ UNCHANGED <<pending, harnessVars>>

-----------------------------------------------------------------------------
(* The report, and how a lifecycle ends *)

Say(kind) == issues' = [issues EXCEPT ![cur] = @ \cup {kind}]

NoPlacement == [got |-> FALSE, made |-> FALSE, id |-> NoId, ready |-> FALSE]

\* An exception is isolated: an issue, and on to the finally.  The report that
\* holds the issue may fail to be written, which ends the run behind it.
Crash ==
    /\ Say("error")
    /\ placed' = TRUE
    /\ pc' = "finally"
    /\ \/ Fault /\ UNCHANGED aborted
       \/ Troubles(2) /\ aborted' = TRUE
    /\ UNCHANGED <<opts, retrying, cur, deferred, before, protected, placement,
                   interrupted, tearing, results, evicted>>

\* A refused placement; the retry pass makes it a final failure.
Refuse(kinds) ==
    /\ issues' = [issues EXCEPT ![cur] = @ \cup kinds
                     \cup IF retrying THEN {"error"} ELSE {}]
    /\ placed' = FALSE
    /\ pc' = "finally"
    /\ UNCHANGED <<opts, retrying, cur, deferred, before, protected, placement,
                   ending, tearing, results, evicted>>

Goto(place) ==
    /\ pc' = place
    /\ UNCHANGED <<opts, retrying, cur, deferred, ending, tearing, results,
                   evicted>>

-----------------------------------------------------------------------------
(* The models of the run, one after the other *)

Upcoming ==
    {m \in Models : m > cur /\ (retrying => m \in deferred)}

Begin ==
    /\ pc = "next" /\ Upcoming # {}
    /\ cur' \in {m \in Upcoming : \A n \in Upcoming : m <= n}
    /\ pc' = "snapshot"
    /\ UNCHANGED <<opts, cluster, retrying, deferred, life, ending, tearing,
                   report, evicted, trouble>>

\* The deferred models follow, then the report is finished.
Turn ==
    /\ pc = "next" /\ Upcoming = {}
    /\ IF retrying \/ deferred = {}
       THEN pc' = "done" /\ UNCHANGED <<retrying, cur>>
       ELSE retrying' = TRUE /\ cur' = 0 /\ UNCHANGED pc
    /\ UNCHANGED <<opts, cluster, deferred, life, ending, tearing, report,
                   evicted, trouble>>

-----------------------------------------------------------------------------
(* Placing a model *)

\* The ownership boundary of the lifecycle.
Snapshot ==
    /\ pc = "snapshot"
    /\ \/ /\ Fine /\ Goto("prepare")
          /\ before' = Serving(cur)
          /\ UNCHANGED <<protected, placement, placed, issues>>
       \/ Crash
    /\ UNCHANGED cluster

\* The model card and the store download; what they report stops nothing.
Prepare ==
    /\ pc = "prepare"
    /\ \/ Fine /\ Goto("existing") /\ UNCHANGED <<life, issues>>
       \/ Fault /\ Goto("existing") /\ Say("warning") /\ UNCHANGED life
       \/ Crash
    /\ UNCHANGED cluster

\* An instance that fits the policy is reused, if the run reuses any.
Existing ==
    /\ pc = "existing"
    /\ \/ \E fit \in SUBSET Serving(cur) :
             /\ Fine
             /\ Goto(IF fit # {} /\ opts.reuse THEN "reuse" ELSE "preview")
             /\ protected' = IF fit # {} /\ opts.reuse THEN {} ELSE Serving(cur)
             /\ UNCHANGED <<before, placement, placed, issues>>
       \/ Crash
    /\ UNCHANGED cluster

Preview ==
    /\ pc = "preview"
    /\ \/ Fine /\ Goto("place") /\ UNCHANGED <<life, issues>>
       \/ Fine /\ Refuse({"refusal"})
       \/ Crash
    /\ UNCHANGED cluster

\* A request that the API answers with an error made nothing; one whose answer
\* is lost may have.
Request ==
    /\ pc = "place"
    /\ \/ /\ Fine /\ Goto("wait")
          /\ pending' = [pending EXCEPT ![cur] = @ + 1]
          /\ UNCHANGED <<life, issues>>
       \/ Fault /\ Refuse({"refusal"}) /\ UNCHANGED pending
       \/ /\ Crash
          /\ pending' \in {pending, [pending EXCEPT ![cur] = @ + 1]}
    /\ UNCHANGED inst

MadeByHarness == pc = "wait"

\* The wait may have seen what serves the model, and what came and went since
\* it began.
Visible == Serving(cur) \ protected
Seen == Visible \cup {i \in Ids \ (protected \cup before) :
                         inst[i].model = cur /\ ~Alive(i)}

\* The wait ends with a ready instance; with the name of one that failed, took
\* too long or was replaced too often; or with nothing to name, since the
\* policy, the excluded and the eligible nodes hide any instance from it.  A
\* ready instance of a new placement that breaks the placement contract is a
\* failure with a name.
Wait ==
    /\ pc \in {"wait", "reuse"}
    /\ \/ /\ Fine /\ Goto("judge")
          /\ \E i \in Seen \cup {NoId}, ready \in BOOLEAN :
                /\ ready => i \in Visible
                /\ placement' = [got |-> TRUE, made |-> MadeByHarness, id |-> i,
                                 ready |-> ready]
          /\ UNCHANGED <<before, protected, placed, issues>>
       \/ Crash
    /\ UNCHANGED cluster

-----------------------------------------------------------------------------
(* Testing it *)

\* A placement that is not ready is never silent; one that names no instance
\* is deferred.
Judge ==
    /\ pc = "judge"
    /\ LET retryable == placement.made /\ placement.id = NoId IN
       \/ /\ placement.ready
          /\ Fine /\ Goto("tests") /\ UNCHANGED <<life, issues>>
       \/ /\ ~placement.ready
          /\ Fine /\ Goto("finally")
          /\ Say(IF retryable /\ ~retrying THEN "warning" ELSE "error")
          /\ placed' = ~retryable
          /\ UNCHANGED <<before, protected, placement>>
       \/ ~placement.ready /\ Crash
    /\ UNCHANGED cluster

\* Every applicable test has a result, or no test applies.
Test ==
    /\ pc = "tests"
    /\ \/ /\ Fine
          /\ pc' = "finally" /\ placed' = TRUE
          /\ \/ results' = results \cup {cur} /\ UNCHANGED issues
             \/ Say("error") /\ UNCHANGED results
          /\ UNCHANGED <<opts, retrying, cur, deferred, before, protected,
                         placement, ending, tearing, evicted>>
       \/ Crash
    /\ UNCHANGED cluster

-----------------------------------------------------------------------------
(* The finally *)

\* What the harness owns: the placement it made, or, when it was interrupted
\* without one, what was not there before.
MustTearDown ==
    /\ ~opts.retain
    /\ \/ placement.got /\ placement.made
       \/ interrupted /\ ~placement.got /\ before # NoId

Finally ==
    /\ pc = "finally"
    /\ pc' = IF MustTearDown THEN "sweep" ELSE "ended"
    /\ UNCHANGED <<opts, cluster, cur, retrying, deferred, life, ending,
                   tearing, report, evicted, trouble>>

\* Mutant: only what the wait did not look at is kept.
KeptProtected == protected

Kept == IF placement.got THEN protected ELSE before

Primary == {placement.id} \ ({NoId} \cup Kept)

\* Mutant: only the id that the wait returned is deleted.
SweepPrimary ==
    /\ pc = "sweep"
    /\ Fine
    /\ targets' = Primary
    /\ clean' = (targets' # {})
    /\ pc' = "delete"
    /\ UNCHANGED <<opts, cluster, cur, retrying, deferred, life, ending, report,
                   evicted>>

\* The instance that the wait named and every other one that serves the model
\* now; a sweep that fails leaves the first alone and is a warning.
Sweep ==
    /\ pc = "sweep"
    /\ \/ /\ Fine
          /\ targets' = Primary \cup (Serving(cur) \ Kept)
          /\ clean' = (targets' # {})
          /\ UNCHANGED issues
       \/ /\ Fault
          /\ targets' = Primary
          /\ clean' = FALSE
          /\ Say("warning")
    /\ pc' = "delete"
    /\ UNCHANGED <<opts, cluster, cur, retrying, deferred, life, ending, results,
                   evicted>>

\* Mutant: a delete that fails is taken for one that was not needed.
DeleteCareless ==
    /\ pc = "delete"
    /\ \E i \in targets :
          /\ targets' = targets \ {i}
          /\ \/ Fine /\ inst' = [inst EXCEPT ![i].state = "gone"]
             \/ Fault /\ inst' \in {inst, [inst EXCEPT ![i].state = "gone"]}
    /\ UNCHANGED <<opts, pending, pc, cur, retrying, deferred, life, ending,
                   clean, report, evicted>>

\* One delete: an instance that is gone already is as good as deleted; any
\* other failure is a warning, and the delete may have happened.
Delete ==
    /\ pc = "delete"
    /\ \E i \in targets :
          /\ targets' = targets \ {i}
          /\ \/ /\ Fine
                /\ inst' = [inst EXCEPT ![i].state = "gone"]
                /\ UNCHANGED <<clean, issues>>
             \/ /\ Fault
                /\ inst' \in {inst, [inst EXCEPT ![i].state = "gone"]}
                /\ clean' = FALSE
                /\ Say("warning")
    /\ UNCHANGED <<opts, pending, pc, cur, retrying, deferred, life, ending,
                   results, evicted>>

Deleted ==
    /\ pc = "delete" /\ targets = {}
    /\ pc' = IF opts.evict /\ clean THEN "evict" ELSE "ended"
    /\ UNCHANGED <<opts, cluster, cur, retrying, deferred, life, ending,
                   tearing, report, evicted, trouble>>

Evict ==
    /\ pc = "evict"
    /\ \/ Fine /\ evicted' = evicted \cup {cur} /\ UNCHANGED issues
       \/ Fault /\ evicted' \in {evicted, evicted \cup {cur}} /\ Say("warning")
    /\ pc' = "ended"
    /\ UNCHANGED <<opts, cluster, cur, retrying, deferred, life, ending,
                   tearing, results>>

\* Mutant: a model that was placed at last loses all its issues.
ClearedAll(kinds) == {}

\* _clear_deferred_placement_issues
Cleared(kinds) == kinds \ {"refusal"}

\* A refused model is deferred; one that the retry placed loses its refusal.
\* The variables of the lifecycle are gone.
End ==
    /\ pc = "ended"
    /\ pc' = IF interrupted \/ aborted THEN "killed" ELSE "next"
    /\ deferred' = IF placed \/ retrying THEN deferred ELSE deferred \cup {cur}
    /\ issues' = IF retrying /\ placed THEN [issues EXCEPT ![cur] = Cleared(@)]
                                       ELSE issues
    /\ before' = NoId /\ protected' = {} /\ placement' = NoPlacement
    /\ placed' = FALSE /\ clean' = FALSE
    /\ UNCHANGED <<opts, cluster, cur, retrying, ending, targets, results,
                   evicted, trouble>>

-----------------------------------------------------------------------------
\* KeyboardInterrupt or SystemExit: in the try it leads to the finally, with
\* what the interrupted call did; anywhere else it ends the run.
Interrupt ==
    /\ pc \notin {"done", "killed"}
    /\ Troubles(1)
    /\ IF pc \in {"snapshot", "prepare", "existing", "preview", "place", "wait",
                  "reuse", "judge", "tests"}
       THEN /\ pc' = "finally" /\ interrupted' = TRUE
            /\ IF pc = "place"
               THEN pending' \in {pending, [pending EXCEPT ![cur] = @ + 1]}
               ELSE UNCHANGED pending
       ELSE pc' = "killed" /\ UNCHANGED <<interrupted, pending>>
    /\ UNCHANGED <<opts, inst, cur, retrying, deferred, life, aborted, tearing,
                   report, evicted>>

\* Operators may run instances of the models before the run.
Init ==
    /\ opts \in [reuse : BOOLEAN, retain : BOOLEAN, evict : BOOLEAN]
    /\ \E old \in SUBSET Ids :
          /\ old # Ids
          /\ inst \in [Ids -> {Unused}
                        \cup [model : Models, owner : {"operator"},
                              state : {"live"}, late : {FALSE}]]
          /\ \A i \in Ids : inst[i] # Unused <=> i \in old
    /\ pending = [m \in Models |-> 0]
    /\ pc = "next" /\ cur = 0 /\ retrying = FALSE /\ deferred = {}
    /\ before = NoId /\ protected = {} /\ placement = NoPlacement
    /\ placed = FALSE
    /\ interrupted = FALSE /\ aborted = FALSE
    /\ targets = {} /\ clean = FALSE
    /\ issues = [m \in Models |-> {}] /\ results = {} /\ evicted = {}
    /\ trouble = 0

Placing == Snapshot \/ Prepare \/ Existing \/ Preview \/ Request \/ Wait
Harness ==
    \/ Begin \/ Turn \/ Placing \/ Judge \/ Test
    \/ Finally \/ Sweep \/ Delete \/ Deleted \/ Evict \/ End
Cluster ==
    \/ \E m \in Models : Appear(m) \/ OperatorPlaces(m)
    \/ \E i \in Ids : Move(i)
Next == Harness \/ Cluster \/ Interrupt

Spec == Init /\ [][Next]_vars

-----------------------------------------------------------------------------
(* Properties *)

Instances ==
    {Unused} \cup [model : Models, owner : {"harness", "operator"},
                   state : {"live", "gone"},
                   late : BOOLEAN]

Kinds == {"refusal", "warning", "error"}

TypeOK ==
    /\ opts \in [reuse : BOOLEAN, retain : BOOLEAN, evict : BOOLEAN]
    /\ inst \in [Ids -> Instances]
    /\ pending \in [Models -> Nat]
    /\ pc \in {"next", "snapshot", "prepare", "existing", "preview", "place",
               "wait", "reuse", "judge", "tests", "finally", "sweep", "delete",
               "evict", "ended", "done", "killed"}
    /\ cur \in Models \cup {0}
    /\ before = NoId \/ before \subseteq Ids
    /\ protected \subseteq Ids /\ targets \subseteq Ids
    /\ placement \in [got : BOOLEAN, made : BOOLEAN, id : Ids \cup {NoId},
                      ready : BOOLEAN]
    /\ retrying \in BOOLEAN /\ placed \in BOOLEAN /\ clean \in BOOLEAN
    /\ interrupted \in BOOLEAN /\ aborted \in BOOLEAN
    /\ issues \in [Models -> SUBSET Kinds]
    /\ deferred \subseteq Models /\ results \subseteq Models
    /\ evicted \subseteq Models
    /\ trouble \in 0..MaxTrouble

\* An instance of the harness: the cluster made it because of a request of
\* this run, while the run could know of it.
Own(i) == Alive(i) /\ inst[i].owner = "harness" /\ ~inst[i].late

\* The teardown never deletes an instance that was there when the lifecycle of
\* the model began, whichever way the lifecycle ended and whatever the wait
\* took for the harness's own.
OperatorKept ==
    pc = "delete" => targets \cap before = {}

\* What the harness made of a model is gone when its lifecycle has ended, even
\* if the cluster placed it again under another id, or the report says that
\* something went wrong with the model.
LeakExplained ==
    \A i \in Ids :
        LET m == inst[i].model IN
        Own(i) /\ ~opts.retain /\ (cur # m \/ pc \in {"next", "ended", "done"})
            => issues[m] # {}

\* Staged weights are removed only when no instance is left that the lifecycle
\* made: whatever of the harness's still serves the model was there when the
\* lifecycle drew its boundary, or came after its sweep.
EvictedIsIdle ==
    [][\A m \in evicted' \ evicted :
          ~opts.retain /\ \A i \in Serving(m) : Own(i) => i \in Kept]_vars

\* The report of a run says something of every model: a result, or an issue
\* that the deferred retry did not clear away.
AccountedFor ==
    pc = "done" => \A m \in Models : m \in results \/ issues[m] # {}

=============================================================================
