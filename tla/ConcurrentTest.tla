--------------------------- MODULE ConcurrentTest ---------------------------
(***************************************************************************)
(* The concurrent test of a model (HarnessRunner._run_concurrent_test and  *)
(* _drive_concurrent_requests in                                           *)
(* src/src/skulk_test_harness/orchestrator.py): Workers tasks on one event *)
(* loop issue PerWorker completions each, one after the other, and the     *)
(* records they return are scored, counted and held against the contract   *)
(* of the test.                                                            *)
(*                                                                         *)
(* The serving runner admits a request, reports how many were in flight at *)
(* that moment and whether it batches, and answers.  A request may fail, a *)
(* task may be lost, and an answer may miss what the test asks for.        *)
(* Throughput is reduced to what the contract reads: whether any token     *)
(* came back, and whether the aggregate reaches the multiple of the        *)
(* baseline.                                                               *)
(***************************************************************************)
EXTENDS Harness, Integers, Sequences, FiniteSets, FiniteSetsExt

CONSTANTS
    Workers,      \* test.concurrency, as a set
    PerWorker,    \* test.concurrent_requests_per_worker
    MaxLoadFaults \* bound: requests that fail and tasks that are lost

ASSUME LoadAssumption ==
    /\ IsFiniteSet(Workers) /\ Workers # {}
    /\ PerWorker \in Nat \ {0}
    /\ MaxLoadFaults \in Nat

VARIABLES
    load,      \* the test and the runner: what is asked, what is served
    task,      \* the workers: what each is doing
    samples,   \* the records that each worker collected
    overlap,   \* the most requests that were in flight at an admission
    loadFaults     \* what went wrong so far

loadVars == <<load, task, samples, overlap, loadFaults>>

Total == Cardinality(Workers) * PerWorker

-----------------------------------------------------------------------------
(* Driving the requests *)

\* What a test may ask and how the runner serves; a test that mocks tools is
\* turned away, and only the benchmark endpoint tells how it was admitted.
Loads == [mocks : BOOLEAN, batched : BOOLEAN,
          baseline : {"unasked", "absent", "measured"},
          runner : {"batching", "sequential", "silent"}]

NoLoad == [mocks |-> FALSE, batched |-> FALSE, baseline |-> "unasked",
           runner |-> "batching"]

LoadIdle ==
    /\ load = NoLoad
    /\ task = [w \in Workers |-> "ready"]
    /\ samples = [w \in Workers |-> <<>>]
    /\ overlap = 0 /\ loadFaults = 0

StartLoad ==
    /\ pc = "idle"
    /\ load' \in Loads
    /\ pc' = IF load'.mocks THEN "loadVerdict" ELSE "driving"
    /\ UNCHANGED <<task, samples, overlap, loadFaults>>

InFlight == {w \in Workers : task[w] = "admitted"}

Going(w) == pc = "driving" /\ UNCHANGED <<pc, load>>

\* The runner admits a request of the worker.
Admit(w) ==
    /\ Going(w) /\ task[w] = "ready" /\ Len(samples[w]) < PerWorker
    /\ task' = [task EXCEPT ![w] = "admitted"]
    /\ overlap' = IF Cardinality(InFlight) + 1 > overlap
                  THEN Cardinality(InFlight) + 1 ELSE overlap
    /\ UNCHANGED <<samples, loadFaults>>

\* An answer of the runner, good or short of what the test asks, with the
\* provenance that the endpoint tells.
Answer(w) ==
    /\ Going(w) /\ task[w] = "admitted"
    /\ \E good \in BOOLEAN :
          /\ loadFaults' = IF good THEN loadFaults ELSE loadFaults + 1
          /\ samples' = [samples EXCEPT ![w] = Append(@,
                [text |-> TRUE, good |-> good,
                 told |-> load.batched /\ load.runner # "silent"])]
    /\ loadFaults' <= MaxLoadFaults
    /\ task' = [task EXCEPT ![w] = "ready"]
    /\ UNCHANGED overlap

Failure == [text |-> FALSE, good |-> FALSE, told |-> FALSE]

\* A request that fails is a record; any other exception ends the worker too.
Fail(w) ==
    /\ Going(w) /\ task[w] = "admitted"
    /\ loadFaults < MaxLoadFaults /\ loadFaults' = loadFaults + 1
    /\ samples' = [samples EXCEPT ![w] = Append(@, Failure)]
    /\ task' \in {[task EXCEPT ![w] = state] : state \in {"ready", "stopped"}}
    /\ UNCHANGED overlap

\* A task that is lost leaves one record in place of all it collected.
Lose(w) ==
    /\ Going(w) /\ task[w] \in {"ready", "admitted"}
    /\ loadFaults < MaxLoadFaults /\ loadFaults' = loadFaults + 1
    /\ samples' = [samples EXCEPT ![w] = <<Failure>>]
    /\ task' = [task EXCEPT ![w] = "stopped"]
    /\ UNCHANGED overlap

Ended(w) == \/ task[w] = "stopped"
            \/ task[w] = "ready" /\ Len(samples[w]) = PerWorker

\* gather returns when every worker did.
Gather ==
    /\ pc = "driving" /\ \A w \in Workers : Ended(w)
    /\ pc' = "loadVerdict"
    /\ UNCHANGED loadVars

-----------------------------------------------------------------------------
(* The verdict *)

Records == {r \in Workers \X (1..PerWorker) : r[2] <= Len(samples[r[1]])}
Rec(r) == samples[r[1]][r[2]]

Succeeded == Cardinality({r \in Records : Rec(r).good})
Rejections   == Cardinality({r \in Records : ~Rec(r).good})
Dropped   == Total - Cardinality(Records)

\* A worker that stops leaves requests that were never issued; they failed.
Failed == IF load.mocks THEN 0 ELSE Rejections + Dropped

\* Records that the runner told of, and those that it served in a batch.
Reporting == Cardinality({r \in Records : Rec(r).good /\ Rec(r).told})
Batching  == IF load.runner = "batching" THEN Reporting ELSE 0

\* Mutant: silence about batching is good enough.
BatchedOrSilent ==
    load.batched =>
        /\ Reporting > 0 => Batching = Reporting
        /\ Reporting > 0 /\ Cardinality(Workers) > 1 => overlap >= 2

\* require_batched_serving: every success was told of and batched, and some
\* request was admitted beside another.
BatchedAsRequired ==
    load.batched =>
        /\ Reporting = Succeeded /\ Batching = Succeeded
        /\ Cardinality(Workers) > 1 => Reporting > 0 /\ overlap >= 2

\* The multiple of the baseline needs a baseline and a token.
Scaled(reached) ==
    load.baseline # "unasked" =>
        /\ load.baseline = "measured" /\ \E r \in Records : Rec(r).text
        /\ reached

Passed(reached) ==
    /\ ~load.mocks
    /\ Failed = 0 /\ Succeeded = Total
    /\ BatchedAsRequired /\ Scaled(reached)

FinishLoad ==
    /\ pc = "loadVerdict" /\ pc' = "idle"
    /\ load' = NoLoad
    /\ task' = [w \in Workers |-> "ready"]
    /\ samples' = [w \in Workers |-> <<>>]
    /\ overlap' = 0 /\ loadFaults' = 0

LoadNext ==
    \/ StartLoad \/ Gather \/ FinishLoad
    \/ \E w \in Workers : Admit(w) \/ Answer(w) \/ Fail(w) \/ Lose(w)

LoadSpec == pc = "idle" /\ LoadIdle /\ [][LoadNext]_<<pc, loadVars>>

-----------------------------------------------------------------------------
(* Properties *)

\* A verdict of "passed" is never given to a run in which a request failed
\* or, where batching is required, to a runner that did not batch or to
\* requests that never met at its admission; and a run in which nothing
\* went wrong passes.
LoadVerdict ==
    pc = "loadVerdict" =>
        (Passed(TRUE) <=>
            /\ loadFaults = 0 /\ ~load.mocks /\ load.baseline # "absent"
            /\ load.batched =>
                  /\ load.runner = "batching"
                  /\ Cardinality(Workers) = 1 \/ overlap >= 2)
=============================================================================
