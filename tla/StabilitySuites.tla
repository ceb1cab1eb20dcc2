---------------------------- MODULE StabilitySuites ----------------------------
(***************************************************************************)
(* The stability suites of src/src/skulk_test_harness/stability.py with    *)
(* the primitives of chaos.py: failover kills the master, churn kills a    *)
(* worker every round, soak loads the model, refusal asks for more nodes   *)
(* than there are.                                                         *)
(*                                                                         *)
(* The cluster is external.  A host runs a process under an identity that  *)
(* a restart changes; a dead identity drops out of the state later, with   *)
(* the instances on it, and the nodes elect a master.  A wait ends when    *)
(* what it polls for is there, or runs out at any time.                    *)
(***************************************************************************)
EXTENDS Harness, Integers, FiniteSets

CONSTANTS
    Hosts,             \* hosts of the cluster
    Home,              \* the host that the harness talks to
    Eligible,          \* hosts of eligible_fleet_nodes
    Rounds,            \* churn rounds
    MaxSuiteFaults     \* bound: hosts that die, reads that fail

ASSUME SuiteAssumption ==
    /\ IsFiniteSet(Hosts) /\ Home \in Eligible /\ Eligible \subseteq Hosts
    /\ Rounds \in Nat \ {0} /\ MaxSuiteFaults \in Nat

VARIABLES
    suite,     \* what the running suite knows
    process,   \* per host: whether it runs, and how often it was started again
    seen,      \* identities in lastSeen
    master,    \* identity of the master
    insts,     \* instances of the model
    wish,      \* placements that were accepted and are not there yet
    harmed,    \* an instance of the operator was deleted
    outages    \* faults so far

cluster == <<process, seen, master, insts, wish>>
suiteVars == <<suite, cluster, harmed, outages>>

-----------------------------------------------------------------------------
(* The cluster *)

Identity(h) == <<h, process[h].age>>
Running == {Identity(h) : h \in {k \in Hosts : process[k].up}}
Fleet(set) == {<<h, 0>> : h \in set}

Outage == outages < MaxSuiteFaults /\ outages' = outages + 1

NoSuite == [kind |-> "none", base |-> 0, old |-> <<Home, 0>>, scope |-> {}, avoid |-> {},
            ours |-> 0, made |-> FALSE, ready |-> FALSE, pre |-> {}, round |-> 0,
            worked |-> FALSE, marks |-> {}]

SuiteIdle ==
    /\ suite = NoSuite /\ harmed = FALSE /\ outages = 0
    /\ process = [h \in Hosts |-> [up |-> TRUE, age |-> 0]]
    /\ seen = Fleet(Hosts) /\ master = <<Home, 0>> /\ insts = {} /\ wish = {}

\* The operator's instance, if there is one, is number 0.
Operators == {[key |-> 0, on |-> Fleet(s), ready |-> r] :
                s \in SUBSET Hosts \ {{}}, r \in BOOLEAN}

Expire ==
    \E n \in seen \ Running :
        /\ seen' = seen \ {n}
        /\ insts' = {i \in insts : n \notin i.on}
        /\ UNCHANGED <<process, master, wish, outages>>

Join ==
    /\ Running \ seen # {} /\ seen' = seen \cup Running
    /\ UNCHANGED <<process, master, insts, wish, outages>>

Elect ==
    /\ master \notin Running /\ master' \in Running \cap seen
    /\ UNCHANGED <<process, seen, insts, wish, outages>>

\* A wish names the identities to avoid.
Grant ==
    \E w \in wish :
        /\ wish' = wish \ {w}
        /\ \E on \in SUBSET ((Running \cap seen) \ w.avoid) \ {{}} :
              insts' = insts \cup {[key |-> w.key, on |-> on, ready |-> FALSE]}
        /\ UNCHANGED <<process, seen, master, outages>>

Load ==
    \E i \in insts :
        /\ ~i.ready /\ i.on \subseteq Running
        /\ insts' = (insts \ {i}) \cup {[i EXCEPT !.ready = TRUE]}
        /\ UNCHANGED <<process, seen, master, wish, outages>>

Die ==
    /\ Outage
    /\ \E h \in Hosts \ {Home} :
          process[h].up /\ process' = [process EXCEPT ![h].up = FALSE]
    /\ UNCHANGED <<seen, master, insts, wish>>

ClusterStep ==
    /\ suite.kind # "none" /\ pc # "suiteVerdict"
    /\ Expire \/ Join \/ Elect \/ Grant \/ Load \/ Die
    /\ UNCHANGED <<pc, suite, harmed>>

-----------------------------------------------------------------------------
(* Steps of the suites *)

Quietly == UNCHANGED <<cluster, harmed, outages>>
Goes(label) == pc' = label
Knows(s) == suite' = s
Marked(mark) == [suite EXCEPT !.marks = @ \cup {mark}]
Serving(i) == i.ready /\ i.on \subseteq Running

InScope(i) == i.on \subseteq suite.scope /\ i.on \cap suite.avoid = {}
Placed == {i \in insts : InScope(i)}

\* A wait: on with what it waits for, or with a mark when the time is up.
Await(label, there, mark, next) ==
    /\ pc = label /\ Goes(next)
    /\ \/ there /\ UNCHANGED suite
       \/ Knows(Marked(mark))
    /\ Quietly

\* The eligible inventory and the rest of the fleet, resolved before the suite.
StartSuite ==
    /\ pc = "idle" /\ pc' = "begin"
    /\ \E kind \in {"failover", "churn", "soak", "refusal"} :
          Knows([NoSuite EXCEPT !.kind = kind, !.scope = Fleet(Eligible),
                                !.avoid = Fleet(Hosts \ Eligible)])
    /\ master' \in Fleet(Hosts)
    /\ insts' \in {{}} \cup {{i} : i \in Operators}
    /\ UNCHANGED <<process, seen, wish, harmed, outages>>

\* A request that no handler guards ends the suite without a report: the polls
\* are guarded against errors of the API, but not of the transport.
Raise ==
    /\ suite.kind # "none" /\ pc \notin {"soak", "completion", "suiteVerdict"}
    /\ Outage /\ Goes("suiteVerdict") /\ Knows(Marked("raised"))
    /\ UNCHANGED <<cluster, harmed>>

\* The host that the harness talks to was killed: the first poll for the node to
\* be absent finds no connection, an error of the transport.
Blinded ==
    /\ pc = "absent" /\ ~process[Home].up
    /\ Goes("suiteVerdict") /\ Knows(Marked("raised")) /\ Quietly

\* _live_node_count: 0 when the state cannot be read.
Counted(n) == \/ n = Cardinality(seen) /\ UNCHANGED outages
              \/ n = 0 /\ Outage

\* Failover needs a master in scope that cluster_nodes names; it is also refused
\* when the URL of the harness names it, which only tells by the text.
Begin ==
    /\ pc = "begin"
    /\ CASE suite.kind = "failover" ->
              \E n \in {0, Cardinality(seen)} :
                /\ Counted(n)
                /\ \/ Knows(Marked("target")) /\ Goes("suiteVerdict")
                   \/ /\ master \in suite.scope
                      /\ Knows([suite EXCEPT !.base = n, !.old = master,
                                             !.avoid = @ \cup {master}])
                      /\ Goes("place")
         [] suite.kind = "refusal" ->
              /\ Knows([suite EXCEPT !.pre = {i.key : i \in insts}])
              /\ Goes("askTooMuch") /\ UNCHANGED outages
         [] OTHER -> Goes("place") /\ UNCHANGED <<suite, outages>>
    /\ UNCHANGED <<cluster, harmed>>

-----------------------------------------------------------------------------
(* _place_multinode: what exists is reused, else a placement is asked for   *)

Asks == [key |-> suite.round + 1, avoid |-> suite.avoid]

PlaceMultinode ==
    /\ pc = "place"
    /\ UNCHANGED <<process, seen, master, insts, harmed, outages>>
    /\ IF Placed # {}
       THEN /\ \E i \in Placed : Knows([suite EXCEPT !.ours = i.key, !.made = FALSE,
                                                     !.ready = i.ready])
            /\ Goes("load") /\ UNCHANGED wish
       ELSE \/ Knows(Marked("placement")) /\ Goes("unplaced") /\ UNCHANGED wish
            \/ wish' = wish \cup {Asks} /\ Goes("appear") /\ UNCHANGED suite

Appear ==
    /\ pc = "appear"
    /\ \/ \E i \in Placed :
            /\ Knows([suite EXCEPT !.ours = i.key, !.made = TRUE, !.ready = FALSE])
            /\ Goes("load")
       \/ Knows(Marked("placement")) /\ Goes("unplaced")
    /\ Quietly

\* wait_for_instance_ready returns what it saw last, without a mark; a first
\* placement that is not ready ends the suite.
Loaded ==
    /\ pc = "load"
    /\ \E ready \in BOOLEAN :
          /\ ready => (suite.ready \/ \E i \in insts : i.key = suite.ours /\ i.ready)
          /\ suite.ready => ready
          /\ Knows([suite EXCEPT !.ready = ready, !.worked = ready \/ @])
          /\ Goes(IF suite.round > 0 THEN "completion"
                  ELSE IF ~ready THEN "suiteVerdict"
                  ELSE CASE suite.kind = "failover" -> "kill"
                         [] suite.kind = "churn"    -> "measure"
                         [] suite.kind = "soak"     -> "soak")
    /\ Quietly

Unplaced ==
    /\ pc = "unplaced" /\ Goes(IF suite.round > 0 THEN "completion" ELSE "suiteVerdict")
    /\ Quietly /\ UNCHANGED suite

-----------------------------------------------------------------------------
(* Failover and churn *)

\* kill_skulk on the host, whatever identity it has by now; over SSH, so that
\* it may not get there.
Kill ==
    /\ pc = "kill" /\ Goes("absent")
    /\ \/ process' = [process EXCEPT ![suite.old[1]].up = FALSE]
       \/ UNCHANGED process
    /\ UNCHANGED <<suite, seen, master, insts, wish, harmed, outages>>

\* Mutant: that the killed node stays in the state is not an issue.
AbsenceUnmarked ==
    /\ pc = "absent" /\ process[Home].up
    /\ Goes(IF suite.kind = "churn" THEN "relaunch" ELSE "master")
    /\ Quietly /\ UNCHANGED suite

\* Churn logs whether the node went, and goes on.
Absent ==
    /\ process[Home].up
    /\ IF suite.kind = "churn"
       THEN pc = "absent" /\ Goes("relaunch") /\ Quietly /\ UNCHANGED suite
       ELSE Await("absent", suite.old \notin seen, "absent", "master")

NewMaster == Await("master", master # suite.old, "master", "served")

\* Failover needs the model served anywhere; churn in its scope, or it places
\* the model again.
Served ==
    /\ pc = "served" /\ Quietly
    /\ LET there == {i \in insts : i.ready /\ (suite.kind = "churn" => InScope(i))}
       IN  \/ there # {} /\ Goes("completion") /\ UNCHANGED suite
           \/ suite.kind = "churn" /\ Goes("place") /\ UNCHANGED suite
           \/ suite.kind = "failover" /\ Goes("relaunch") /\ Knows(Marked("served"))

Completion ==
    /\ pc = "completion" /\ Quietly
    /\ \/ (\E i \in insts : Serving(i)) /\ UNCHANGED suite
       \/ Knows(Marked("completion"))
    /\ Goes(IF suite.kind = "churn" THEN "pick" ELSE "relaunch")

Relaunch ==
    /\ pc = "relaunch" /\ Goes("count")
    /\ LET h == suite.old[1] IN
       \/ ~process[h].up /\ process' = [process EXCEPT ![h] = [up |-> TRUE, age |-> @.age + 1]]
       \/ UNCHANGED process
    /\ UNCHANGED <<suite, seen, master, insts, wish, harmed, outages>>

\* The size of the cluster tells that the node is back.  Churn then resolves
\* its scope again, which may fail.
NodesBack ==
    /\ pc = "count" /\ Quietly
    /\ \/ /\ Cardinality(seen) >= suite.base
          /\ IF suite.kind = "failover" THEN Goes("cleanup") /\ UNCHANGED suite
             ELSE \/ /\ Knows([suite EXCEPT !.scope = {n \in seen : n[1] \in Eligible},
                                            !.avoid = {n \in seen : n[1] \notin Eligible}])
                     /\ Goes("served")
                  \/ Knows(Marked("scope")) /\ Goes("cleanup")
       \/ Knows(Marked("count")) /\ Goes(IF suite.kind = "churn" THEN "served" ELSE "cleanup")

Measure ==
    /\ pc = "measure" /\ Goes("pick")
    /\ \E n \in {0, Cardinality(seen)} : Counted(n) /\ Knows([suite EXCEPT !.base = n])
    /\ UNCHANGED <<cluster, harmed>>

\* _pick_non_master_friendly: the first eligible host in cluster_nodes that is
\* not the master's, nor named in the URL of the harness; it may not be running,
\* and it may be the one the harness talks to.
Pick ==
    /\ pc = "pick" /\ Quietly
    /\ \/ suite.round = Rounds /\ Goes("cleanup") /\ UNCHANGED suite
       \/ /\ suite.round < Rounds
          /\ \/ \E h \in Eligible \ {master[1]} :
                   /\ Knows([suite EXCEPT !.old = Identity(h), !.round = @ + 1])
                   /\ Goes("kill")
             \/ Knows(Marked("target")) /\ Goes("cleanup")

-----------------------------------------------------------------------------
(* Soak and refusal *)

\* Workers complete until the time is up; one failure, or no success, is an issue.
Soak ==
    /\ pc = "soak" /\ Goes("cleanup") /\ Quietly
    /\ \/ (\E i \in insts : Serving(i)) /\ UNCHANGED suite
       \/ Knows(Marked("completion"))

\* More nodes than the cluster has: refused, or accepted.
AskTooMuch ==
    /\ pc = "askTooMuch"
    /\ UNCHANGED <<suite, process, seen, master, insts, harmed, outages>>
    /\ \/ Goes("suiteVerdict") /\ UNCHANGED wish
       \/ Goes("classify") /\ wish' = wish \cup {Asks}

\* classify_placement_outcome, polled until it is refused or replaced; what is
\* partial at the end is wedged.
Classify ==
    /\ pc = "classify" /\ Quietly
    /\ LET found == {i \in Placed : i.key \notin suite.pre} IN
       \/ found = {} /\ Goes("suiteVerdict") /\ UNCHANGED suite
       \/ \E i \in found :
            /\ Goes("cleanup")
            /\ LET s == [suite EXCEPT !.ours = i.key, !.made = TRUE, !.worked = TRUE] IN
               \/ (\A j \in found : j.ready) /\ Knows(s)
               \/ (\E j \in found : ~j.ready) /\ Knows([s EXCEPT !.marks = @ \cup {"wedged"}])

\* Mutant: what was reused is deleted too.
CleanupAll ==
    /\ pc = "cleanup" /\ Goes("suiteVerdict")
    /\ insts' = {i \in insts : i.key # suite.ours}
    /\ harmed' = (suite.ours = 0)
    /\ UNCHANGED <<suite, process, seen, master, wish, outages>>

\* _cleanup_instance: a failed deletion is a warning.
Cleanup ==
    /\ pc = "cleanup" /\ Goes("suiteVerdict")
    /\ \/ /\ suite.made
          /\ insts' = {i \in insts : i.key # suite.ours}
          /\ harmed' = (suite.ours = 0)
       \/ UNCHANGED <<insts, harmed>>
    /\ UNCHANGED <<suite, process, seen, master, wish, outages>>

FinishSuite ==
    /\ pc = "suiteVerdict" /\ pc' = "idle" /\ suite' = NoSuite
    /\ process' = [h \in Hosts |-> [up |-> TRUE, age |-> 0]]
    /\ seen' = Fleet(Hosts) /\ master' = <<Home, 0>> /\ insts' = {} /\ wish' = {}
    /\ harmed' = FALSE /\ outages' = 0

SuiteNext ==
    \/ StartSuite \/ ClusterStep \/ Raise \/ Blinded \/ Begin
    \/ PlaceMultinode \/ Appear \/ Loaded \/ Unplaced
    \/ Kill \/ Absent \/ NewMaster \/ Served \/ Completion \/ Relaunch \/ NodesBack
    \/ Measure \/ Pick
    \/ Soak \/ AskTooMuch \/ Classify
    \/ Cleanup \/ FinishSuite

SuiteSpec == pc = "idle" /\ SuiteIdle /\ [][SuiteNext]_<<pc, suiteVars>>

-----------------------------------------------------------------------------
(* Properties *)

SuitePassed == suite.marks = {}

\* A failover without other faults that passes, and got to its workload, killed
\* the node that was the master, saw another one in its place, and left the
\* cluster whole: identities that are still listed but dead never stood in for
\* the node that was to come back.
FailoverRestores ==
    pc = "suiteVerdict" /\ suite.kind = "failover" /\ SuitePassed /\ suite.worked
        /\ outages = 0 =>
            suite.old \notin Running /\ master # suite.old
            /\ Running = seen /\ Cardinality(Running) = Cardinality(Hosts)

\* A suite deletes no instance that was there before it: not one that it
\* reuses, nor one outside its scope that it meets while it waits for its own.
SparesOperators == ~harmed

\* What the docstring of _place_multinode says: no usable placement is an
\* error, so that a suite that passes has done its work.
PassIsExercised ==
    pc = "suiteVerdict" /\ SuitePassed /\ suite.kind # "refusal" => suite.worked
=============================================================================
