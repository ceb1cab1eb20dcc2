# Skulk test harness: TLA+ models

Models of the parts of the harness whose correctness depends on *order*: who
acts when, what fails in between, and what is still true afterwards. The
reference is the Python code under `src/src/skulk_test_harness/`; file names
below are relative to that directory. Each module says in its header which
functions it translates, and `PROJECT.json` maps every definition to its lines.

## 1. The system

The harness tests a fleet of Skulk nodes. It places models on a live cluster,
runs test sets against them, and, in its *fresh-install qualification*, takes a
physical fleet apart and puts it back together. Several controllers (developer
Macs, cluster nodes) share the fleet; a lease in a git repository keeps them
apart.

| Component | State it keeps | Operations | Hard because |
|---|---|---|---|
| Fleet lease store (`fleet_lock.py`) | a lock file per segment on a git branch; a cached clone per controller; a file lock | `read`, `acquire`, `extend`, `release` | concurrent controllers and processes, push as compare-and-swap, crashes, lost answers, expiry |
| Lease heartbeat (`lease_heartbeat.py`) | a thread, its stop event and failure | `start`, `check`, `stop`, `emergency_extend` | a second thread, a join with a timeout, renewals in flight |
| RunPod leg (`runpod.py`, `_qualify_runpod`) | a paid pod, a deadline timer, a teardown lock | provision, work, tear down, confirm | two threads that tear down, provider failures, signals |
| Release gate and fleet leg (`fresh_install.py`) | services stopped, temporary runtimes, critical flags, the lease, nested signal guards | stop, install, qualify, clean up, restore, audit, release | partial failure on several members, signals, reports that cannot be written |
| Single-target physical leg (`fresh_install.py`) | the same for one machine | the same | the same |
| Model run (`orchestrator.py`) | placements, ownership boundary, report, deferred models | place, wait, test, tear down, evict, retry | the cluster moves and loses instances, operators share it, calls fail |
| Readiness wait (`_wait_for_model_ready`) | four deadlines and an anchor | poll | replacements, gaps and failures between polls |
| Concurrent tests (`_run_concurrent_test`) | tasks, their samples, how many were admitted at once | drive, gather, score | workers overlap, stop half way, are lost |
| Vision and pressure tests (`_run_vision_data_plane_test`, `_run_audio_speech_pressure_test`) | owners chosen, counters read before and after | select, snapshot, send, settle, score | nodes restart and models move between two snapshots; counters lag |
| Realtime tests (`_run_realtime_transcription_test`) | a probe, a session per owner, the provider's ledger | probe, wait for its slot, hold sessions, compare | the provider notices, frees and counts late |
| Secondary models of speech tests | books of what was placed | place or reuse, tear down | every kind of test keeps other books |
| Single-request tests (`_run_test` and what it calls) | an answer and a follow-up | chat, cancel, expect an error, embed, image, speak, transcribe; score | which call answers which expectation |
| Client (`client.py`) | a connection pool; of a conversation, the microphone threads | requests, streams, routes, realtime conversations | retries of requests that may have taken effect; threads on one socket |
| Stability suites and chaos (`stability.py`, `chaos.py`) | a killed node, a placement | kill, wait, relaunch, complete, clean up | identities that change, a state that lags |
| Command line (`cli.py`) | none | preflight of the lease, commands | the lease is checked at another time than it is used |
| Target control (`target_control.py`) | temporary homes | run, copy, remove | timeouts of remote commands |
| Models, reports, comparison, submission, dashboard, video and steward checks | none that outlives a call | validation, rendering, assertions | little: straight-line code |

How they interact: the gate acquires the lease through the store, starts the
heartbeat (which calls the same store from its thread), runs the fleet leg and
then the RunPod leg under it, and ends at the *release boundary*: release the
lease if the fleet was given back, extend it for an operator otherwise. The
orchestrator calls the cluster's API through the client; the readiness wait is
one of its steps. Whether an operation of the gate may go on is asked of the
heartbeat before each remote command.

What makes each correct, in one sentence: *store*: two holders never both
believe they hold a segment. *Heartbeat*: destructive work never goes on under a
lease that is lost, beyond a short known time. *RunPod*: no pod is forgotten.
*Gate*: it never passes, nor lets go of the lease, with a fleet that was not
given back. *Model run*: what the harness made is removed or reported, what it
did not make stays. *Wait*: bounded, fair to a replacement, and truthful about
its reason. *Tests*: a
verdict of "passed" is evidence of what the test claims, and a cluster that only
takes its time does not fail. *Client*: a change is asked for once. *Stability*:
the failover that passes left the cluster whole, and no suite takes away what it
did not place.

## 2. Modules

    FleetLease            the lease as it is promised
      ^ implemented by
    FleetLockStore        the git store          MCFleetLockStore   instances
      FleetLockStoreProofs
    LeaseHeartbeat        thread, main thread    LeaseHeartbeatProofs
      (one store call = one step, justified by FleetLockStore)
    RunPodLeg             two threads, provider  RunPodLegProofs
    ReleaseGate           gate and fleet leg     ReleaseGateProofs
      (heartbeat = a failure that may occur; RunPod leg = one step)
    ReadinessWait         the wait               ReadinessWaitProofs
    ModelRun              the life of a model in a run   ModelRunProofs
      (wait = one step with any outcome the cluster allows;
       a test = one step that passes, fails or raises)
    Harness               the place where the control is (pc)   TestProofs
      ConcurrentTest      workers of a concurrent test
      DataPlaneTest       vision and pressure tests
      RealtimeTest        sessions, probe and ledger
      SpeechModels        the models beside the one under test
      RequestTests        tests of one or two requests
        OutputScore       how an answer is scored
      RealtimeSession     one conversation        SkulkClientProofs
      StabilitySuites     failover, churn, soak, refusal
      SkulkClient         requests, streams, routes   SkulkClientProofs
      MCHarness           all of them, one at a time

Definitions named in a comment "Mutant: ..." are deliberate mistakes that
replace one definition, to see that a property notices. They are no part of the
models.

**FleetLockStore.** A process is a thread that calls the store, a clone a cache
directory. An operation is a sequence of steps, one per git command: take the
file lock, fetch and `reset --hard`, decide on the lock file read, write the
file, `git add`, look at the status, commit, push, reread. The variables
`origin`, `head`, `index` and `work` are git's trees, so that a crash leaves
exactly the dirty clone that the next process finds. A push builds on a commit:
it lands if that commit is the tip, and may land late or without an answer.
`claim` is a history variable: what a process was told it holds. `LegacySpec`
adds a harness from before the file lock, which resets the clone at any time.

**FleetLease.** A lease passes to another holder only when it was given up,
broken by force, or has run out. FleetLockStore refines it with the branch tip
as the lease.

**LeaseHeartbeat.** Discrete time. A call of the store holds the file lock from
its entry to its return, and acts once in between; another process of the
controller may sit in front of it. The thread waits, renews, rereads, and
records a failure; the main thread works, checks, stops the thread with a
bounded join, checks again, and releases or extends. The module models a leg
that owns its lease; in the gate the boundary is the same code one level up.

**RunPodLeg.** The main thread and the deadline timer, both of which may be in
the teardown; the provider, which may make a pod and lose the answer. Signals
raise before `begin_recovery` and are deferred after it.

**ReleaseGate.** One thread, members 1..n handled one after the other. Each
action is one operation on one member, which succeeds, fails without effect, or
fails with its effect. `_run_member_operations` finishes its sweep and raises at
its end; the stop loop ends at once. The signal guards of gate and leg are
nested. The records `leg`, `child` and `gate` are the reports; what the gate
knows of the leg is what came back in `child`. Snapshots, configuration files and
topology waits are steps that succeed or fail. A journal stage writes the report
at its entry and at its exit, and either write may fail (`WriteFault`): in the
work no member is touched any more (`StageUnwritten`), in the recovery the cleanup
of all members is skipped or counts as failed (`CleanupUnwritten`), no service is
started (`EnterRestore`), or a verified restoration counts as failed (`Verify`).
`faults.unwritten` is the set of places where that happened.

**ReadinessWait.** One action is one poll; `now` advances by at least the poll
interval and at most that plus one call. The views are what the poll sees of
each instance: absent, loading, failed, ready. The four deadlines (appearance
window, readiness allowance, the gap's grace and the ceiling) and their anchor
are the code's own variables.

**ModelRun.** The life cycle as the code has it: the ownership boundary
(`before`), the protected instances (`protected`), the placement, the finally
with its two teardown branches, the sweep, the deletes, the eviction, the
deferred retry. Between any two steps the cluster makes a requested instance,
loses one, places it again under another id, or an operator places one. A
placement request that the API answers with an error is taken to have made
nothing; one whose answer is lost may have made an instance. The history field
`late` marks instances that appear while no life cycle of their model would take
them for its own.

**Harness and what extends it.** The harness's main thread does one thing at a
time, so the modules share `pc`, and MCHarness lets any of them start when the
harness is idle and end there again. Each has its own record of what the harness
knows, its own external party, and a bound on what may go wrong.

**ConcurrentTest.** One task per worker; the runner admits and answers. A request
that fails is a record; any other exception ends the worker; a lost task leaves
one record in place of all it collected. The verdict counts records, requests
never issued, provenance and overlap as the code does.

**DataPlaneTest.** A stream goes from a node to the nodes that serve; the nodes
count what they queued, sent, took the local way, closed and lost, each at its
own time. The harness selects owners, takes a snapshot, sends, waits for idle and
scores the difference. Models move, routes go, streams are lost, nodes restart.

**RealtimeTest.** The provider admits into slots, notices a cut connection, frees
and books in any order. The harness probes, waits for the release, holds a
session through each owner and compares the ledger.

**SpeechModels.** Five kinds of test with five ways to keep the books. Instances
outlive a test, so that what one leaves behind meets the next.

**RequestTests, OutputScore.** The criteria are records of what is asked, the
answers records of what the criteria tell apart. Tool calls are matched greedily
and word errors computed with two rows, as in the code.

**RealtimeSession.** The client's loop, a microphone thread per turn, and a
server with voice activity detection. A frame sent past the end of a turn is
rejected by the server; the client forgives it while it waits for the transcript
(`Recoverable`). Its properties are about any number of turns of any length; the
model bounds what may go wrong, not what is sent.

**StabilitySuites.** A host runs a process under an identity that a restart
changes. The state of the cluster lags: dead identities expire later, joined ones
appear later, the master is elected when it is. A wait ends when it sees what it
polls for, or at any time. Whether the URL of the harness names a host is decided
by the text of a friendly name, so that any host may be refused or picked; the one
the harness talks to may be killed, and the next poll then ends the suite with an
exception (`Blinded`).

**SkulkClient.** One call: attempts, whether the server ran it, how it ended. A
lost answer may stand for a request that ran. Streams deliver items of which some
are chunks; the discovery of routes reads two sources and asks each node who it
is, except at the routes that the diagnostics give.

## 3. Runs

Every bound below is a constant of the module, named in its header.

| Run | Instance | What it shows |
|---|---|---|
| `store` | 3 processes (main and heartbeat share clone and holder, a rival), 1 segment, one fault | the store implements `FleetLease`; claims are backed; mutual exclusion |
| `store_shared` | 2 holders on one clone, 2 segments, a legacy harness, one crash | a release is truthful; a commit carries one segment |
| `store_phantom` | as above without the legacy harness | *violated*: `read` returns a lease the branch does not have |
| `heartbeat` | TTL 6, interval 1, calls of 1, clock to 9, one fault | healthy lease is held, loss is noticed, release is final, boundary ends |
| `runpod` | 2 faults, 2 signals | a passed leg is clean, a known pod is accounted for, the client outlives the timer, cost is bounded, recovery ends |
| `runpod_leak` | 1 fault | *violated*: teardown reported as successful with a pod left |
| `gate` | 3 members, 3 failing operations, 2 places with a failing write, 2 signals | a passed gate restored the fleet; an unrestored leg is critical; the lease stays unless the leg's verdict was not written or a signal came in; the gate ends; once recovery has begun what was stopped is started, unless the write at the entry of the restoration fails |
| `gate_unrestored` | 2 members, 1 failing operation, 1 failing write | *violated*: the lease is released on an unrestored fleet |
| `readiness` | 2 instances, allowance 4, window 2, ceiling 10 | the wait is bounded, gives full allowance, bridges gaps, names reasons truthfully |
| `model_run` | 2 models, 2 instance ids, 2 troubles of any kind | operators' instances stay, leaks are reported, eviction is safe, nothing is dropped from the report |
| `harness` | below | the tests' verdicts are evidence, patient and truthful; what is placed is taken down; a change is asked for once |
| `suite_unexercised` | 3 hosts, no fault | *violated*: a suite passes that has done nothing |

Why the bounds are enough. *Store*: a claim is broken by two processes and one
expiry; the third process is there because the heartbeat shares clone and holder
with the main thread. `MaxClock` 1 and `Ttls` {1} give leases that run and
leases that ran out. *Heartbeat*: clock 9 is past the first TTL (6), a renewal,
the release and a whole emergency TTL (7) from the start. *Gate*: two members
tell "some were stopped" from "all were", the third a failure in the middle from
one at an end; three faults allow one in the work, one in the recovery, and one
at the boundary; two failing writes allow one in the leg and one on the way of its
verdict to the gate. *RunPod*: two faults fail both teardowns. *Readiness*: the
ceiling of 10 admits two full allowances and a gap between them. *Model run*:
two ids hold an instance and its replacement, or the harness's and an
operator's; two troubles put a re-placement and a failure, or an interrupt, into
one life cycle. The instance with one model and three ids (the harness's own,
its replacement and an operator's) holds as well.

*Harness*: three workers of two
requests tell overlap of two from overlap of three, and a worker that stops half
way from one that ends; three nodes, one serving, give an owner beside and one
that neither serves nor is selected; two sessions, two slots and two turns make
a session meet a full provider; two other models are the most a test needs; two
tools and two calls tell a call that is matched twice from two calls; words of
two over an alphabet of two have every kind of edit; three turns of four frames
give a late frame of one turn in the next, and a turn behind one that was barged
into; three hosts, one of them not eligible,
and one churn round give a killed node that comes back beside its dead identity;
four attempts are the code's. Faults are bounded per module, at one or two: a
fault in the work and one in the recovery from it.

Deadlock checking is off in the runs of the modules that stop: bounded operations
are used up, or the thread has ended. It is on in `harness`, where every test
must lead back to idle.

### Properties, by module

- FleetLockStore: `ClaimBacked` (what acquire and extend told a process stays
  true until the expiry it was told), `MutualExclusion`, `ImplementsLease`,
  `CommitTouchesOneSegment`, `ReleaseTruthful`.
- LeaseHeartbeat: `HealthyLeaseIsHeld`, `LossNoticed`, `ReleasedForGood`,
  `BoundaryEnds`.
- RunPodLeg: `PassedIsClean`, `KnownPodAccounted`, `ClientOutlivesTimer`,
  `CostIsBounded`, `RecoveryEnds`.
- ReleaseGate: `PassedIsRestored`, `UnrestoredIsCritical`,
  `LeaseKeptIfReported`, `GateEnds`, `StoppedIsRestarted`.
- ReadinessWait: `WaitBounded`, `FullAllowance`, `GapsAreBridged`,
  `ChurnIsChurn`, `KnownFailureNamed`.
- ModelRun: `OperatorKept`, `LeakExplained`, `EvictedIsIdle`, `AccountedFor`.
- ConcurrentTest: `LoadVerdict` (no failed, lost, unissued, unbatched or lonely
  request passes; nothing else fails).
- DataPlaneTest: `PassIsEvidence` (whatever moved or restarted, a passed test saw
  its streams end, one on the short way and one over the DATA plane),
  `NoFalseAlarm`.
- RealtimeTest: `PassIsServed`, `PatientEnough`.
- SpeechModels: `LeftBehindKnown` (the whole list of ways in which a model is
  left behind).
- RequestTests: `PassIsAnswered` (the greedy match against any assignment of
  calls to expectations, the follow-ups against what was to be answered),
  `WordErrorsAreDistance` (the two rows against the definition).
- RealtimeSession: `NeverFailsItself` (of any number of turns without barge-in,
  of two with it: with three it is false, see section 4).
- StabilitySuites: `FailoverRestores`, `SparesOperators`.
- SkulkClient: `MutationOnce`.

### Fairness

- LeaseHeartbeat: both threads are scheduled (WF) and time passes (WF). The
  file lock is retried by the kernel as long as it is contended, so entering a
  call has SF; a call returns because the git subprocess has a timeout.
- RunPodLeg: the main thread from provisioning on, except for the work on the
  pod, which may hang; the timer thread; the provider makes an accepted deletion
  happen. Taking the teardown lock has SF: it is a `threading.Lock` that the
  other side holds for the length of one teardown.
- ReleaseGate: the main thread only (WF); every remote command has a timeout, so
  each step ends. Nothing is assumed of signals or failures.
- The store, the wait, the model run and the modules under Harness are checked for
  safety only. In the latter a wait may run out at any time, so that liveness
  would only say that the harness goes on, which the deadlock check says too.

## 4. Where documents and code disagree

Four runs find a behaviour that contradicts a sentence of the repository; the
sentence is quoted in `PROJECT.json`.

1. `store_phantom`: a process dies between `write_text` and `git add` of a
   segment's first lock file. `reset --hard` keeps untracked files, so `read`
   reports a lease that the branch does not have, and others are refused until
   it runs out.
2. `runpod_leak`: a pod whose creation was answered badly, or which was refused
   and not deleted, has no id in the leg; the report says the teardown succeeded.
3. `gate_unrestored`: the critical flag of a leg travels in its report; if that
   cannot be written, the gate is not critical and releases the lease.
4. `suite_unexercised`: `_place_multinode` returns a placement that did not
   become ready, without an issue, and failover, churn and soak then end with a
   report that has none. The placement is left on the cluster.

Others were met while modelling and have no run: a push for one segment that
loses to a push for another is reported as a lost race; a push that landed
without an answer is reported as failed although the lease is held; a renewal
that outlasts the join of `stop()` can shorten the emergency extension; a signal
in the first moment of a `finally`, before `begin_recovery`, skips that finally;
an operator's instance that the cluster places again under a new id during a run
is deleted by the sweep; weights are evicted under an operator's instance that a
forced placement ran beside; an instance that appears after its wait gave up is
taken for a preexisting one by the retry.
A journal stage of the recovery writes the report before its body: when the write
at the entry of the cleanup fails (`fresh_install.py:1443`) no member is cleaned,
and when it fails at the entry of the restoration (`fresh_install.py:2182`) no
stopped service is started; the exception becomes an issue (`:1467`), the leg ends
critical, and the fleet stays down until an operator acts. `StoppedIsRestarted`
names the second case as its only exception; in the first the services are still
started beside what was not cleaned. A signal deferred after
`_record_deferred_interruption` is forgotten with the leg's guard, and the gate
passes (`fresh_install.py:1548`). Neither this nor the first moment of a `finally`
is covered by a property; the properties say where they exempt a signal. An exception between
the placement request and the end of the wait leaves `placement` None, and the
`finally` tears nothing down (`orchestrator.py:372`; the model's `LeakExplained`
names it). The answer of the gate's acquire may be lost, so that the lease is
held until its TTL by a gate that does not know it.

In the tests and the client: with barge-in and three or four turns, which
`realtime_turn_count` allows, the end of the response that turn 2 cancelled starts
turn 3 while turn 2 still speaks (`client.py:2604`); at the end of turn 2
`stop_active_sender` stops the microphone of turn 3 and not "the current
microphone sender" (`client.py:2331`), and a session in which nothing failed does
not reach its counts (`NeverFailsItself` without its condition on turns and
barge-in fails on RealtimeSession with three turns and no fault; the configured
test sets use two); `stop_active_sender` joins for two seconds and goes
on, so that a microphone of an earlier turn may still send
(`client.py:2331`); the follow-up of a tool round trip uses the test's
`enable_thinking` and not the resolved default of the first request
(`orchestrator.py:1285`); the greedy match of tool calls may miss an assignment
that exists, when a loose expectation takes the only call that a strict one
could have (never the other way round, which is what `PassIsAnswered` says); a
route that the diagnostics give is asked whether it answers, not who it is; a
stream that ends without `[DONE]` counts as complete; errors of the transport
pass `_request_json` as `httpx` errors, so that embeddings, generated images and
the polls of the suites end in an exception and not in an issue; churn only
records that a killed node did not go, and a dead identity that is still listed
counts as a node; the refusal suite takes a first poll without an instance for a
refusal; a streaming test whose synthesizer never becomes ready or whose work ends
in an exception, and a donor that is reused and then made anew as the transcriber,
leave an instance behind.

## 5. Proofs

All are checked by TLAPS for every value of the constants that satisfies the
module's assumption.

**FleetLockStoreProofs.** `StoreInvariant`: the inductive invariant `StoreInv`,
whose core is that a process between decision and push has prepared, on the
commit it builds on, the replacement of a lease that its operation may lawfully
replace (`Prepared`), that a push in flight which is still on the tip replaces
one lease lawfully (`Lawful`), and that a claim is backed by the tip. `ClaimBacked` alone is not inductive: a late push is
harmless only because it was built on a lease its sender was allowed to replace
*at the clock it read*, and that stays lawful as the clock advances. From it
follow `GrantedLeaseBacked`, `LeaseExclusive`, `OneSegmentPerCommit`, and by a
step simulation `StoreImplementsLease`. Assumption: `StoreAssumption` (types).
`StoreInv` does not survive an older harness, which resets the clone between any
two steps (`LegacySpec`); what does is `SharedInv`: whatever is staged,
committed or pushed differs from what it was built on in the file of one segment
at most, and a release that is about to answer "ok" has reread a lease that is
not its own. From it follow `ReleaseIsTruthful` and `OneSegmentBesideLegacy`,
both for `LegacySpec`.

**LeaseHeartbeatProofs.** `HeartbeatInvariant`: the thread keeps its pace
(`Paced`), an unbroken lease outlasts the next renewal (`Renewing`), a broken one
is found by the renewal that was due no later than it broke (`Noticing`), and
only a quiet heartbeat reaches the release (`Releasing`). Theorems
`HealthyLease`, `LossIsNoticed`, `ReleaseIsFinal`. `HeartbeatAssumption` contains
the bound of the configuration (interval at most a third of the TTL) and
`Interval + 4 * MaxCall < LeaseTtl`, a statement about git calls: the two calls
of a renewal, each behind one of another process, fit into the TTL. Without it
the healthy lease can run out while a slow call is under way.

**RunPodLegProofs.** `RunPodInvariant` with the owner of the teardown lock, what
the finally has found out by each of its places, and that the client is closed
only behind the timer. Theorems `PassIsClean`, `PodIsAccounted`, `ClientIsSafe`,
for every number of faults and signals.

**ReleaseGateProofs.** `GateInvariant`: a service that is down is marked as
stopped and a temporary runtime runs only in a known home (`Marked`), what each
place of the leg knows of the members before the next one (`Placed`), what the
leg's verdict means (`Judged`), and that the gate's finally knows of an
unrestored fleet unless the leg's verdict was not written or a signal came in
(`Ending`, with `VerdictLost`), which
needs to know whose handler a signal meets (`Guarded`). The lemmas follow the
actions: what the action does, what follows for the records, then each part of
the invariant. Theorems `PassedGateRestored`, `UnrestoredLegCritical`,
`ReportedLeaseKept`, for every number of members, failures, failing writes and
signals.

**ReadinessWaitProofs.** `WaitInvariant`: before anything viable the wait is in
its window; afterwards under the ceiling; the anchor was seen loading when its
allowance began; the first two lineages began early enough. Theorems
`WaitIsBounded`, `AllowanceIsFull`, `GapIsBridged`, `ChurnTruthful`,
`FailureIsNamed`, for every set of instances and every timing.

**ModelRunProofs.** `RunInvariant`: `RunInv` has one part per question.
`Boundary` says what the two snapshots of preexisting instances contain, and that
whatever was there and is not protected serves no more once a placement is asked
for (`Shielded`), so that the wait's own instance is none of it. `Telling` counts
the report forward: every model behind the present one has been told of, and a
one that was placed has a result or a word that the retry does not clear. `LeakExplained` is not
inductive, because an instance may appear long after the request that caused it:
`Owning` therefore speaks of a model that is *open* (a request pending, or an
instance of the harness alive) and says that this lifecycle will tear it down or
that the report says so for good; `Accounted` says the same of each instance, and
`Evicting` what a clean teardown has left. The lemmas are one per action, each
with what the action does, then each part; the three actions of the cluster go
through one lemma on what any step of it leaves alone (`ClusterStep`). Theorems
`OperatorsKept`, `LeaksExplained`, `EvictionIsIdle`, `ModelsAccountedFor`,
`RunTyped`, for any number of models, ids and troubles. `RunAssumption` says that
None is neither an id nor a set of ids.

**SkulkClientProofs.** `ClientInvariant`: `ClientInv` says what each place of a
call knows of the attempts (the server has run it at most as often as it was
attempted, and a mutation that may have run is attempted no more), of the stream
and of the routes. Theorems `MutationsRunOnce`, `StreamsCutInTime`,
`RoutesDistinct`, `ClientTyped`, for every number of attempts, items, nodes and
routes.

The same module proves RealtimeSession. `SessionInvariant`: a conversation is at
two *places*, the client's and the server's, each a turn and how many of its six
events are over, and the events under way lead from the one to the other
(`Between`). The client's place determines its counts, how many microphones it
started and which are stopped (`ClientAt`); the server's place what it does and
which frame of its turn comes next (`ServerAt`). That the counts are reached, that
a late frame is rejected only while the client waits for a transcript, and that no
read waits for ever (`NeverSilent`) follow from the two together; neither is
inductive alone, since what the client does with an event depends on what it has
counted, and whether the event comes depends on frames that a thread has sent in
the meantime. Theorem `SessionNeverFailsItself`, for every number and length of turns
(with barge-in, for two turns).

**TestProofs.** The tests and the suites, for every value of their constants.

- *ConcurrentTest*: `LoadInv` says of every record what happened to its request
  and that the faults are those that some record shows; `LoadJudged` is then a
  matter of counting, for any number of workers.
- *DataPlaneTest*: `DataInv` bounds the counters from both sides: they never claim
  more than what happened since the first snapshot (`DataEvident`), and no less
  where nothing went wrong (`DataJust`). The second needs `FirstServing # Nodes`:
  if every node serves there is no far owner, and the test is failed for that.
  `DataAssumption` says that 0 is the name of no node.
- *RealtimeTest*: `RealtimeInv` accounts for every slot of the provider and every
  entry of the ledger. Theorems `RealtimeServed`, `RealtimePatient`.
- *SpeechModels*: `SpeechInv`: what a test made is in its books or in one of the
  named gaps, and what the books owe is worked off or warned of. Theorem
  `SpeechLeavesNothing`.
- *RequestTests, OutputScore*: `RequestInv` notes what went wrong before it is
  scored. That the greedy match assigns each expectation a call of its own, and
  that the two rows of the word error rate hold the least cost of an alignment
  (`WordErrorsExact`, for sequences of any length), are about functions defined by
  recursion. The provers instantiate no induction theorem, so each of these
  arguments takes the least counterexample (`LeastOne`, from the well-foundedness
  of the naturals): that the function exists at all (`Recursion`,
  `MatchedRecursion`), and what its values are. Theorems `RequestAnswered`,
  `RoundTripDistance`.
- *StabilitySuites*: `SuiteInv` has a part for each property. `Sparing`: the
  operator's instance is never among what the suite may delete, whichever kind of
  suite it is and wherever its wait ended. `Restoring`: without other outages the
  cluster goes from whole to down, returning and back, and what is seen of it lags
  within these four. Theorems `SuiteSpares`, `SuiteRestores`, for any fleet.

The inductive invariants are proved and not listed in the runs, which check the
properties a reader would ask about; TLC checked those of the larger modules on
small instances before they were proved.
One proof showed a definition of the model that was not one: the cases of `Hear`
in RealtimeSession overlapped, so that the value of its CASE was open.

Every invariant that a passing run checks is proved, and so are the step property
`CommitTouchesOneSegment` and the refinement `ImplementsLease`. Only model-checked
are the liveness properties (`BoundaryEnds`, `CostIsBounded`, `RecoveryEnds`,
`GateEnds`, `StoppedIsRestarted`: temporal reasoning under fairness and ENABLED
are out of the prover's reach) and the violations.

## 6. Abstractions worth knowing

- A composite release that *raises* leaves the gate's finally uncaught; the
  model ends in `escaped`. So does a signal in the finally's first moment.
- An empty temporary home whose path was lost is allowed to stay; a running
  temporary runtime is not.
- In RunPodLeg a report that cannot be written counts as a failure of the call its
  stage surrounds. In ReleaseGate the places of failing writes are a set: a place
  at which writing failed once counts once against the bound.
- RealtimeSession assumes that threads run in time: the second that the client
  waits for a microphone's first frame (`client.py:2324`) does not run out, and
  `StopActive` sets the stop of a microphone and goes on, whether or not the two
  seconds of the join in `stop_active_sender` were enough.
- Deleting an instance that is gone counts as success (the API's 404), as does
  deleting a pod that is gone.
- The report of the orchestrator is the set of *kinds* of issue per model; only
  the deferred refusal is told apart, since only it can be cleared.
- How instances load is in ReadinessWait; ModelRun knows only that they exist.
- Warm-up and baseline of a concurrent test are an input of it: measured, absent
  or not asked for. Times, rates and percentiles are not modelled; that a rate is
  below its floor is an input of the score.
- What an answer contains is a record of what the criteria tell apart. The
  content of images, audio and embeddings is a set of flaws.
- The parsers of the client (payloads to records) are not modelled; what cannot
  be parsed ends in "unparsed".

## 7. Not modelled, and what is left

- *Single-target physical leg*: the control of the fleet leg for one member, with
  `check=False` in its cleanup, so that a failed cleanup shows only in the audit
  (`fresh_install.py:2549`). ReleaseGate with one member covers the rest.
- *Resumable battery over models and stage journals*: each stage is a step of
  ReleaseGate that succeeds or fails.
- *Target control*: commands with a timeout are the steps of ReleaseGate. A
  temporary home that is made by a command which then fails is not tracked: it is
  empty.
- *Command line*: argument handling. The refusal to run without the lease reads
  the store once, which is `read` of FleetLockStore; the lease may run out
  afterwards, and only the gate keeps it alive.
- *Data models, reports, comparison, fingerprint, submission, dashboard, video
  and steward checks, parsing helpers, shell scripts, website*: nothing in them
  depends on order.

What would be next: the journal of the battery across a restart, and the step
properties behind the liveness properties (what never moves backwards on the way
to the end).
