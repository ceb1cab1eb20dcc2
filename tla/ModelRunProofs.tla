----------------------------- MODULE ModelRunProofs -----------------------------
(***************************************************************************)
(* Proofs about a run over its models, for any number of models, instance  *)
(* ids and troubles of the cluster, its operators and the process.         *)
(***************************************************************************)
EXTENDS ModelRun, TLAPS

-----------------------------------------------------------------------------
(* The inductive invariant *)

Early     == {"snapshot", "prepare", "existing", "preview", "place"}
Requested == {"wait", "judge", "tests"}
Try       == Early \cup Requested \cup {"reuse"}
Ending    == {"finally", "sweep", "delete", "evict", "ended"}

\* An issue that the deferred retry does not clear.
Lasting(m) == issues[m] \ {"refusal"} # {}
Told(m) == m \in results \/ issues[m] # {}

\* The ids that a lifecycle has seen are those of instances.  What was there
\* when it began and is not protected serves no more, and the placement does
\* not name it.
Shielded == \A i \in before : i \in protected \/ ~Alive(i)

Boundary ==
    /\ before # NoId => \A i \in before : inst[i] # Unused /\ inst[i].model = cur
    /\ \A i \in protected \cup targets : inst[i] # Unused
    /\ placement.id \in Ids => inst[placement.id] # Unused
    /\ pc \in {"next", "snapshot", "done"} => before = NoId
    /\ pc \in Try /\ pc # "snapshot" => before # NoId
    /\ placement.got => before # NoId
    /\ pc \in {"next", "done", "wait", "reuse"} \cup Early => ~placement.got
    /\ ~placement.got => placement = NoPlacement
    /\ pc \in {"preview", "place", "wait"} => Shielded
    /\ placement.made => Shielded /\ placement.id \notin before \ protected
    /\ pc \in {"judge", "tests"} => placement.got

\* Where the harness is.
Placed ==
    /\ pc \in Try \cup Ending => cur \in Models
    /\ interrupted => pc \in Ending \cup {"killed"}
    /\ pc \in {"sweep", "delete", "evict"} => MustTearDown
    /\ OperatorKept

\* What the report says of the models so far.
Telling ==
    /\ pc # "killed" => \A m \in deferred : Told(m)
    /\ pc \in Ending /\ ~interrupted =>
          Told(cur) /\ (placed => cur \in results \/ Lasting(cur))
    /\ retrying /\ pc # "killed" => \A m \in Models : Told(m)
    /\ ~retrying /\ pc # "killed" =>
          \A m \in Models : m < cur \/ (m = cur /\ pc = "next") => Told(m)
    /\ AccountedFor

\* A model may still get an instance because of the run, or has one.
Ours(i, m) == Alive(i) /\ inst[i].owner = "harness" /\ inst[i].model = m
Open(m) == pending[m] > 0 \/ \E i \in Ids : Ours(i, m)

\* The lifecycle will tear down what it placed.
WillTearDown ==
    \/ pc = "wait"
    \/ pc \in {"judge", "tests"} /\ placement.made
    \/ pc \in {"finally", "sweep"} /\ MustTearDown

\* A model that is still to be placed, or placed again, is not open unless an
\* issue says so for good; nor is the present one, until its placement is
\* requested: from there the lifecycle tears down what it does not keep.
Owning ==
    /\ ~retrying => \A m \in deferred : m < cur \/ (m = cur /\ pc = "next")
    /\ ~retrying => \A m \in Models : m > cur => ~Open(m)
    /\ \A m \in deferred : (~retrying \/ m > cur) /\ Open(m) => Lasting(m)
    /\ pc \in Early \cup {"reuse"} /\ Open(cur) => Lasting(cur)
    /\ pc \in Requested \cup {"finally", "sweep"} /\ Open(cur) /\ ~Lasting(cur) =>
          /\ WillTearDown
          /\ \A i \in Ids : Ours(i, cur) => i \notin protected
                                /\ (before # NoId => i \notin before)
    /\ pc \in Ending /\ ~placed /\ ~interrupted /\ Open(cur) => Lasting(cur)

\* Where the harness's instances are.
Accounted ==
    /\ \A i \in Ids : Own(i) /\ inst[i].model # cur => Lasting(inst[i].model)
    /\ pc \in {"next", "done", "evict", "ended"} =>
          \A i \in Ids : Own(i) /\ inst[i].model = cur => Lasting(cur)
    /\ pc = "delete" => \A i \in Ids : Own(i) /\ inst[i].model = cur
                            => Lasting(cur) \/ i \in targets

\* Weights are evicted behind a clean teardown.
Evicting ==
    /\ pc = "delete" /\ clean =>
          \A i \in Ids : Own(i) /\ inst[i].model = cur => i \in Kept \cup targets
    /\ pc = "evict" =>
          \A i \in Ids : Own(i) /\ inst[i].model = cur => i \in Kept

RunInv ==
    /\ TypeOK /\ Boundary /\ Placed /\ Telling
    /\ ~opts.retain => Accounted /\ (pc # "killed" => Owning)
    /\ Evicting
\* The places of the harness, and what is said in terms of them.
USE DEF Early, Requested, Try, Ending

-----------------------------------------------------------------------------
(* The report *)

\* The report of every model only grows.
Grows == /\ issues' \in [Models -> SUBSET Kinds]
         /\ \A m \in Models : issues[m] \subseteq issues'[m]

LEMMA SayGrows ==
  ASSUME TypeOK, cur \in Models, NEW kind \in Kinds, Say(kind)
  PROVE  Grows /\ kind \in issues'[cur]
  BY DEF TypeOK, Say, Grows

LEMMA SilenceGrows == TypeOK /\ UNCHANGED issues => Grows
  BY DEF TypeOK, Grows

LEMMA GrowthKeeps ==
  ASSUME Grows, NEW m \in Models
  PROVE  /\ Lasting(m) => Lasting(m)'
         /\ Told(m) /\ results \subseteq results' => Told(m)'
  BY DEF Grows, Lasting, Told

\* What is open and what is the harness's depends on the cluster only.
LEMMA SameCluster ==
  ASSUME UNCHANGED inst
  PROVE  /\ \A i : Alive(i)' <=> Alive(i)
         /\ \A i : Own(i)' <=> Own(i)
         /\ \A i, m : Ours(i, m)' <=> Ours(i, m)
         /\ UNCHANGED pending => \A m : Open(m)' <=> Open(m)
  BY DEF Alive, Own, Ours, Open

LEMMA LiveModel ==
  ASSUME TypeOK, NEW i \in Ids, Alive(i)
  PROVE  inst[i].model \in Models /\ inst[i] # Unused
  BY DEF TypeOK, Instances, Unused, Alive

LEMMA FaultTyped ==
  ASSUME TypeOK
  PROVE  /\ Fault \/ Troubles(2) \/ Fine => trouble' \in 0..MaxTrouble
  BY RunAssumption DEF TypeOK, Fault, Troubles, Fine

-----------------------------------------------------------------------------
(* Leaving the try *)

LEMMA CrashInv ==
  ASSUME RunInv, pc \in Try, Crash, UNCHANGED inst,
         pending' \in {pending, [pending EXCEPT ![cur] = @ + 1]}
  PROVE  RunInv'
<1>1. /\ pc' = "finally" /\ placed' = TRUE /\ cur \in Models
      /\ UNCHANGED <<opts, inst, cur, retrying, deferred, before, protected,
                     placement, interrupted, targets, clean, results, evicted>>
  BY DEF Crash, tearing, RunInv, Placed
<1>a. aborted' \in BOOLEAN /\ trouble' \in 0..MaxTrouble
  <2>1. CASE Fault /\ UNCHANGED aborted
    BY <2>1, FaultTyped DEF RunInv, TypeOK
  <2>2. CASE Troubles(2) /\ aborted' = TRUE
    BY <2>2, FaultTyped DEF RunInv
  <2> QED BY <2>1, <2>2 DEF Crash
<1>2. Grows /\ Lasting(cur)'
  <2>1. Grows /\ "error" \in issues'[cur]
    BY <1>1, SayGrows DEF Crash, RunInv, Kinds
  <2> QED BY <1>1, <2>1 DEF Lasting
<1>3. \A m \in Models : (Lasting(m) => Lasting(m)') /\ (Told(m) => Told(m)')
  BY <1>1, <1>2, GrowthKeeps
<1>4. pending' \in [Models -> Nat]
      /\ \A m \in Models : m # cur => pending'[m] = pending[m]
  BY DEF RunInv, TypeOK
<1>5. TypeOK'
  BY <1>1, <1>a, <1>2, <1>4 DEF RunInv, TypeOK, Grows
<1>6. Boundary'
  BY <1>1 DEF RunInv, Boundary, Shielded, Alive
<1>7. Placed'
  BY <1>1 DEF RunInv, Placed, OperatorKept
<1>8. Telling'
  BY <1>1, <1>2, <1>3 DEF RunInv, Telling, Told, Lasting, AccountedFor, TypeOK
<1>9. ~opts.retain => Owning'
  <2>1. \A m \in Models : m # cur => (Open(m)' <=> Open(m))
    BY <1>1, <1>4, SameCluster DEF Open
  <2>2. deferred \subseteq Models /\ \A m \in Models : m > cur => m # cur
    BY <1>1 DEF RunInv, TypeOK, Models
  <2> QED BY <1>1, <1>2, <1>3, <2>1, <2>2 DEF RunInv, Owning
<1>10. ~opts.retain => Accounted'
  BY <1>1, <1>3, SameCluster, LiveModel DEF RunInv, Accounted, Own
<1>11. Evicting'
  BY <1>1 DEF Evicting
<1> QED BY <1>1, <1>5, <1>6, <1>7, <1>8, <1>9, <1>10, <1>11 DEF RunInv

\* A refusal: the run will try again, or has tried again and gives up.
LEMMA RefuseInv ==
  ASSUME RunInv, pc \in {"preview", "place"}, Refuse({"refusal"}),
         Fine \/ Fault, UNCHANGED cluster
  PROVE  RunInv'
<1>1. /\ pc' = "finally" /\ placed' = FALSE /\ cur \in Models
      /\ UNCHANGED <<opts, inst, pending, cur, retrying, deferred, before,
                     protected, placement, interrupted, aborted, targets, clean,
                     results, evicted>>
      /\ ~interrupted /\ ~placement.got /\ before # NoId /\ Shielded
  BY DEF Refuse, tearing, ending, cluster, RunInv, Placed, Boundary
<1>2. Grows /\ issues'[cur] # {}
  BY <1>1 DEF Refuse, RunInv, TypeOK, Grows, Kinds
<1>3. \A m \in Models : (Lasting(m) => Lasting(m)') /\ (Told(m) => Told(m)')
  BY <1>1, <1>2, GrowthKeeps
<1>4. TypeOK'
  BY <1>1, <1>2, FaultTyped DEF RunInv, TypeOK, Grows
<1>5. Boundary'
  BY <1>1 DEF RunInv, Boundary, Shielded, Alive
<1>6. Placed'
  BY <1>1 DEF RunInv, Placed, OperatorKept
<1>7. Telling'
  BY <1>1, <1>2, <1>3 DEF RunInv, Telling, Told, AccountedFor, TypeOK
<1>8. ~opts.retain => Owning'
  <2>1. deferred \subseteq Models /\ \A m \in Models : m > cur => m # cur
    BY <1>1 DEF RunInv, TypeOK, Models
  <2> QED BY <1>1, <1>2, <1>3, <2>1, SameCluster DEF RunInv, Owning
<1>9. ~opts.retain => Accounted'
  BY <1>1, <1>3, SameCluster, LiveModel DEF RunInv, Accounted, Own
<1>10. Evicting'
  BY <1>1 DEF Evicting
<1> QED BY <1>1, <1>4, <1>5, <1>6, <1>7, <1>8, <1>9, <1>10 DEF RunInv

-----------------------------------------------------------------------------
(* From model to model *)

LEMMA BeginInv == ASSUME RunInv, Begin PROVE RunInv'
<1>1. /\ pc = "next" /\ pc' = "snapshot"
      /\ UNCHANGED <<opts, inst, pending, retrying, deferred, before, protected,
                     placement, placed, interrupted, aborted, targets, clean,
                     issues, results, evicted, trouble>>
  BY DEF Begin, cluster, life, ending, tearing, report
<1>2. /\ cur' \in Models /\ cur' > cur /\ cur \in Int /\ Models \subseteq Int
      /\ \A m \in Models : m < cur' => m <= cur \/ retrying
      /\ retrying => cur' \in deferred
  BY DEF Begin, Upcoming, RunInv, TypeOK, Models
<1>3. \A m \in Models : m < cur' => m < cur \/ m = cur \/ retrying
  BY <1>2
<1>4. TypeOK'
  BY <1>1, <1>2 DEF RunInv, TypeOK
<1>5. Boundary'
  BY <1>1 DEF RunInv, Boundary, Shielded, Alive
<1>6. Placed'
  BY <1>1, <1>2 DEF RunInv, Placed, OperatorKept
<1>7. Telling'
  BY <1>1, <1>3 DEF RunInv, Telling, Told, Lasting, AccountedFor
<1>8. ~opts.retain => Owning'
  <2>1. \A m \in Models : /\ m > cur' => m > cur
                          /\ m < cur \/ m = cur => m < cur'
    BY <1>2
  <2>2. deferred \subseteq Models
    BY DEF RunInv, TypeOK
  <2>3. ~opts.retain /\ Open(cur') => Lasting(cur')
    BY <1>1, <1>2, <2>2 DEF RunInv, Owning
  <2>4. \A m \in Models : (Open(m)' <=> Open(m)) /\ (Lasting(m)' <=> Lasting(m))
    BY <1>1, SameCluster DEF Lasting
  <2>5. ~opts.retain => (Open(cur) => Lasting(cur))'
    BY <1>1, <2>3 DEF Open, Ours, Alive, Lasting
  <2> QED BY <1>1, <1>2, <2>1, <2>2, <2>4, <2>5 DEF RunInv, Owning
<1>9. ~opts.retain => Accounted'
  BY <1>1, <1>2, SameCluster DEF RunInv, Accounted, Lasting
<1>10. Evicting'
  BY <1>1 DEF Evicting
<1> QED BY <1>1, <1>4, <1>5, <1>6, <1>7, <1>8, <1>9, <1>10 DEF RunInv

LEMMA TurnInv == ASSUME RunInv, Turn PROVE RunInv'
<1>1. /\ pc = "next"
      /\ UNCHANGED <<opts, inst, pending, deferred, before, protected, placement,
                     placed, interrupted, aborted, targets, clean, issues,
                     results, evicted, trouble>>
      /\ \/ pc' = "done" /\ UNCHANGED <<retrying, cur>> /\ (retrying \/ deferred = {})
         \/ pc' = "next" /\ ~retrying /\ retrying' = TRUE /\ cur' = 0
  BY DEF Turn, cluster, life, ending, tearing, report
<1>2. \A m \in Models : Told(m)
  <2>1. CASE retrying
    BY <1>1, <2>1 DEF RunInv, Telling
  <2>2. CASE ~retrying
    <3>1. \A m \in Models : m < cur \/ m = cur
      BY <1>1, <2>2 DEF Turn, Upcoming, RunInv, TypeOK, Models
    <3> QED BY <1>1, <2>2, <3>1 DEF RunInv, Telling
  <2> QED BY <2>1, <2>2
<1>3. \A m \in Models : Told(m)' /\ (Lasting(m)' <=> Lasting(m)) /\ m # 0
  BY <1>1, <1>2 DEF Told, Lasting, Models
<1>4. TypeOK'
  <2>1. retrying' \in BOOLEAN /\ cur' \in Models \cup {0} /\ pc' \in {"next", "done"}
    BY <1>1 DEF RunInv, TypeOK
  <2> QED BY <1>1, <2>1 DEF RunInv, TypeOK
<1>5. Boundary'
  BY <1>1 DEF RunInv, Boundary, Shielded, Alive
<1>6. Placed'
  BY <1>1 DEF RunInv, Placed, OperatorKept
<1>7. Telling'
  BY <1>1, <1>3 DEF RunInv, Telling, TypeOK, AccountedFor, Told
<1>8. ~opts.retain => Owning'
  <2>1. \A m : Open(m)' <=> Open(m)
    BY <1>1, SameCluster
  <2>2. deferred \subseteq Models /\ Models \subseteq Int
    BY DEF RunInv, TypeOK, Models
  <2>3. CASE pc' = "done"
    BY <1>1, <1>3, <2>1, <2>2, <2>3 DEF RunInv, Owning
  <2>4. CASE pc' = "next"
    <3>1. ~opts.retain => \A m \in deferred : Open(m) => Lasting(m)
      BY <1>1, <2>4 DEF RunInv, Owning
    <3> QED BY <1>1, <1>3, <2>1, <2>2, <2>4, <3>1 DEF RunInv, Owning
  <2> QED BY <1>1, <2>3, <2>4
<1>9. ~opts.retain => Accounted'
  BY <1>1, <1>3, SameCluster, LiveModel DEF RunInv, Accounted, Own
<1>10. Evicting'
  BY <1>1 DEF Evicting
<1> QED BY <1>1, <1>4, <1>5, <1>6, <1>7, <1>8, <1>9, <1>10 DEF RunInv

-----------------------------------------------------------------------------
(* Placing a model *)

LEMMA SnapshotInv == ASSUME RunInv, Snapshot PROVE RunInv'
<1>1. CASE Crash
  BY <1>1, CrashInv DEF Snapshot, cluster
<1>2. CASE Fine /\ Goto("prepare") /\ before' = Serving(cur)
           /\ UNCHANGED <<protected, placement, placed, issues>>
  <2>1. /\ pc = "snapshot" /\ pc' = "prepare" /\ cur \in Models
        /\ UNCHANGED <<opts, inst, pending, cur, retrying, deferred, protected,
                       placement, placed, interrupted, aborted, targets, clean,
                       issues, results, evicted, trouble>>
    BY <1>2
    DEF Snapshot, Goto, Fine, cluster, ending, tearing, RunInv, Placed
  <2>2. /\ before' \subseteq Ids /\ before' # NoId
        /\ \A i \in before' : inst[i] # Unused /\ inst[i].model = cur
    BY <1>2, RunAssumption, LiveModel DEF Serving, RunInv
  <2>3. TypeOK'
    BY <2>1, <2>2 DEF RunInv, TypeOK
  <2>4. Boundary'
    BY <2>1, <2>2 DEF RunInv, Boundary, NoPlacement
  <2>5. Placed'
    BY <2>1 DEF RunInv, Placed, OperatorKept
  <2>6. Telling'
    BY <2>1 DEF RunInv, Telling, Told, Lasting, AccountedFor
  <2>7. ~opts.retain => Owning'
    BY <2>1, SameCluster DEF RunInv, Owning, Lasting
  <2>8. ~opts.retain => Accounted'
    BY <2>1, SameCluster DEF RunInv, Accounted, Lasting
  <2>9. Evicting'
    BY <2>1 DEF Evicting
  <2> QED BY <2>1, <2>3, <2>4, <2>5, <2>6, <2>7, <2>8, <2>9 DEF RunInv
<1> QED BY <1>1, <1>2 DEF Snapshot

LEMMA PrepareInv == ASSUME RunInv, Prepare PROVE RunInv'
<1>1. CASE Crash
  BY <1>1, CrashInv DEF Prepare, cluster
<1>2. CASE /\ Fine \/ Fault
           /\ Goto("existing") /\ UNCHANGED life
           /\ UNCHANGED issues \/ Say("warning")
  <2>1. /\ pc = "prepare" /\ pc' = "existing" /\ cur \in Models
        /\ UNCHANGED <<opts, inst, pending, cur, retrying, deferred, before,
                       protected, placement, placed, interrupted, aborted,
                       targets, clean, results, evicted>>
    BY <1>2 DEF Prepare, Goto, cluster, life, ending, tearing, RunInv, Placed
  <2>2. Grows
    BY <1>2, <2>1, SayGrows, SilenceGrows DEF RunInv, Kinds
  <2>3. \A m \in Models : (Lasting(m) => Lasting(m)') /\ (Told(m) => Told(m)')
    BY <2>1, <2>2, GrowthKeeps
  <2>4. TypeOK'
    BY <1>2, <2>1, <2>2, FaultTyped DEF RunInv, TypeOK, Grows
  <2>5. Boundary'
    BY <2>1 DEF RunInv, Boundary, Shielded, Alive
  <2>6. Placed'
    BY <2>1 DEF RunInv, Placed, OperatorKept
  <2>7. Telling'
    BY <2>1, <2>3 DEF RunInv, Telling, TypeOK, AccountedFor
  <2>8. ~opts.retain => Owning'
    BY <2>1, <2>3, SameCluster DEF RunInv, Owning, TypeOK
  <2>9. ~opts.retain => Accounted'
    BY <2>1, <2>3, SameCluster, LiveModel DEF RunInv, Accounted, Own
  <2>10. Evicting'
    BY <2>1 DEF Evicting
  <2> QED BY <2>1, <2>4, <2>5, <2>6, <2>7, <2>8, <2>9, <2>10 DEF RunInv
<1> QED BY <1>1, <1>2 DEF Prepare

\* What the placement does not protect has gone since the snapshot.
LEMMA ExistingInv == ASSUME RunInv, Existing PROVE RunInv'
<1>1. CASE Crash
  BY <1>1, CrashInv DEF Existing, cluster
<1>2. ASSUME NEW fit \in SUBSET Serving(cur), Fine,
             Goto(IF fit # {} /\ opts.reuse THEN "reuse" ELSE "preview"),
             protected' = IF fit # {} /\ opts.reuse THEN {} ELSE Serving(cur),
             UNCHANGED <<before, placement, placed, issues>>
      PROVE  RunInv'
  <2>1. /\ pc = "existing" /\ cur \in Models
        /\ UNCHANGED <<opts, inst, pending, cur, retrying, deferred, before,
                       placement, placed, interrupted, aborted, targets, clean,
                       issues, results, evicted, trouble>>
        /\ \/ pc' = "reuse" /\ protected' = {}
           \/ pc' = "preview" /\ protected' = Serving(cur)
    BY <1>2
    DEF Existing, Goto, Fine, cluster, ending, tearing, RunInv, Placed
  <2>2. /\ protected' \subseteq Ids
        /\ \A i \in protected' : inst[i] # Unused
    BY <2>1, LiveModel DEF Serving, RunInv
  <2>3. TypeOK'
    BY <2>1, <2>2 DEF RunInv, TypeOK
  <2>4. pc' = "preview" => Shielded'
    BY <2>1 DEF Shielded, Serving, Alive, RunInv, Boundary, TypeOK
  <2>5. Boundary'
    BY <2>1, <2>2, <2>4 DEF RunInv, Boundary, NoPlacement
  <2>6. Placed'
    BY <2>1 DEF RunInv, Placed, OperatorKept
  <2>7. Telling'
    BY <2>1 DEF RunInv, Telling, Told, Lasting, AccountedFor
  <2>8. ~opts.retain => Owning'
    BY <2>1, SameCluster DEF RunInv, Owning, Lasting
  <2>9. ~opts.retain => Accounted'
    BY <2>1, SameCluster DEF RunInv, Accounted, Lasting
  <2>10. Evicting'
    BY <2>1 DEF Evicting
  <2> QED BY <2>1, <2>3, <2>5, <2>6, <2>7, <2>8, <2>9, <2>10 DEF RunInv
<1> QED BY <1>1, <1>2 DEF Existing

LEMMA PreviewInv == ASSUME RunInv, Preview PROVE RunInv'
<1>1. CASE Crash
  BY <1>1, CrashInv DEF Preview, cluster
<1>2. CASE Fine /\ Refuse({"refusal"})
  BY <1>2, RefuseInv DEF Preview
<1>3. CASE Fine /\ Goto("place") /\ UNCHANGED <<life, issues>>
  <2>1. /\ pc = "preview" /\ pc' = "place" /\ cur \in Models
        /\ UNCHANGED <<opts, inst, pending, cur, retrying, deferred, before,
                       protected, placement, placed, interrupted, aborted,
                       targets, clean, issues, results, evicted, trouble>>
    BY <1>3
    DEF Preview, Goto, Fine, cluster, life, ending, tearing, RunInv, Placed
  <2>2. TypeOK'
    BY <2>1 DEF RunInv, TypeOK
  <2>3. Boundary'
    BY <2>1 DEF RunInv, Boundary, Shielded, Alive
  <2>4. Placed'
    BY <2>1 DEF RunInv, Placed, OperatorKept
  <2>5. Telling'
    BY <2>1 DEF RunInv, Telling, Told, Lasting, AccountedFor
  <2>6. ~opts.retain => Owning'
    BY <2>1, SameCluster DEF RunInv, Owning, Lasting
  <2>7. ~opts.retain => Accounted'
    BY <2>1, SameCluster DEF RunInv, Accounted, Lasting
  <2>8. Evicting'
    BY <2>1 DEF Evicting
  <2> QED BY <2>1, <2>2, <2>3, <2>4, <2>5, <2>6, <2>7, <2>8 DEF RunInv
<1> QED BY <1>1, <1>2, <1>3 DEF Preview

\* From here the model is open, and what comes is not what was there.
LEMMA RequestInv == ASSUME RunInv, Request PROVE RunInv'
<1>1. CASE Crash /\ pending' \in {pending, [pending EXCEPT ![cur] = @ + 1]}
  BY <1>1, CrashInv DEF Request
<1>2. CASE Fault /\ Refuse({"refusal"}) /\ UNCHANGED pending
  BY <1>2, RefuseInv DEF Request, cluster
<1>3. CASE /\ Fine /\ Goto("wait") /\ pending' = [pending EXCEPT ![cur] = @ + 1]
           /\ UNCHANGED <<life, issues>>
  <2>1. /\ pc = "place" /\ pc' = "wait" /\ cur \in Models
        /\ UNCHANGED <<opts, inst, cur, retrying, deferred, before,
                       protected, placement, placed, interrupted, aborted,
                       targets, clean, issues, results, evicted, trouble>>
    BY <1>3 DEF Request, Goto, Fine, life, ending, tearing, RunInv, Placed
  <2>2. pending' \in [Models -> Nat]
        /\ \A m \in Models : m # cur => pending'[m] = pending[m]
    BY <1>3, <2>1 DEF RunInv, TypeOK
  <2>3. TypeOK'
    BY <2>1, <2>2 DEF RunInv, TypeOK
  <2>4. Boundary'
    BY <2>1 DEF RunInv, Boundary, Shielded, Alive
  <2>5. Placed'
    BY <2>1 DEF RunInv, Placed, OperatorKept
  <2>6. Telling'
    BY <2>1 DEF RunInv, Telling, Told, Lasting, AccountedFor
  <2>7. ~opts.retain => Owning'
    <3>1. /\ \A m \in Models : m # cur => (Open(m)' <=> Open(m))
          /\ \A i, m : Ours(i, m)' <=> Ours(i, m)
          /\ \A m : Lasting(m)' <=> Lasting(m)
      BY <2>1, <2>2, SameCluster DEF Open, Lasting
    <3>2. deferred \subseteq Models /\ \A m \in Models : m > cur \/ m < cur => m # cur
      BY <2>1 DEF RunInv, TypeOK, Models
    <3>3. ~opts.retain /\ ~Lasting(cur) => \A i \in Ids : ~Ours(i, cur)
      BY <2>1 DEF RunInv, Owning, Open
    <3> QED BY <2>1, <3>1, <3>2, <3>3 DEF RunInv, Owning, WillTearDown
  <2>8. ~opts.retain => Accounted'
    BY <2>1, SameCluster DEF RunInv, Accounted, Lasting
  <2>9. Evicting'
    BY <2>1 DEF Evicting
  <2> QED BY <2>1, <2>3, <2>4, <2>5, <2>6, <2>7, <2>8, <2>9 DEF RunInv
<1> QED BY <1>1, <1>2, <1>3 DEF Request

\* Whatever the wait takes for the placement was not there before.
LEMMA WaitInv == ASSUME RunInv, Wait PROVE RunInv'
<1>1. CASE Crash
  BY <1>1, CrashInv DEF Wait, cluster
<1>2. ASSUME NEW i \in Seen \cup {NoId}, NEW ready \in BOOLEAN,
             Fine, Goto("judge"),
             placement' = [got |-> TRUE, made |-> MadeByHarness, id |-> i,
                           ready |-> ready],
             UNCHANGED <<before, protected, placed, issues>>
      PROVE  RunInv'
  <2>1. /\ pc \in {"wait", "reuse"} /\ pc' = "judge" /\ cur \in Models
        /\ UNCHANGED <<opts, inst, pending, cur, retrying, deferred, before,
                       protected, placed, interrupted, aborted, targets, clean,
                       issues, results, evicted, trouble>>
        /\ placement'.got = TRUE /\ placement'.made = (pc = "wait")
        /\ placement'.id = i
    BY <1>2
    DEF Wait, Goto, Fine, cluster, ending, tearing, RunInv, Placed, MadeByHarness
  <2>2. i \in Ids => inst[i].model = cur /\ inst[i] # Unused
    BY <1>2, <2>1, RunAssumption, LiveModel
    DEF Seen, Visible, Serving, RunInv, Models, Unused
  <2>3. pc = "wait" => i \notin before \ protected
    BY <1>2, <2>1, RunAssumption
    DEF Seen, Visible, Serving, RunInv, Boundary, Shielded, TypeOK
  <2>4. TypeOK'
    <3>1. placement' \in [got : BOOLEAN, made : BOOLEAN, id : Ids \cup {NoId},
                          ready : BOOLEAN]
      BY <1>2 DEF Seen, Visible, Serving, MadeByHarness
    <3> QED BY <2>1, <3>1 DEF RunInv, TypeOK
  <2>5. Boundary'
    <3>1. pc = "wait" => Shielded'
      BY <2>1 DEF RunInv, Boundary, Shielded, Alive
    <3> QED BY <2>1, <2>2, <2>3, <3>1 DEF RunInv, Boundary
  <2>6. Placed'
    BY <2>1 DEF RunInv, Placed, OperatorKept
  <2>7. Telling'
    BY <2>1 DEF RunInv, Telling, Told, Lasting, AccountedFor
  <2>8. ~opts.retain => Owning'
    BY <2>1, SameCluster DEF RunInv, Owning, Lasting, WillTearDown
  <2>9. ~opts.retain => Accounted'
    BY <2>1, SameCluster DEF RunInv, Accounted, Lasting
  <2>10. Evicting'
    BY <2>1 DEF Evicting
  <2> QED BY <2>1, <2>4, <2>5, <2>6, <2>7, <2>8, <2>9, <2>10 DEF RunInv
<1> QED BY <1>1, <1>2 DEF Wait

-----------------------------------------------------------------------------
(* Testing it *)

LEMMA JudgeInv == ASSUME RunInv, Judge PROVE RunInv'
<1>1. CASE Crash
  BY <1>1, CrashInv DEF Judge, cluster
<1>2. CASE placement.ready /\ Fine /\ Goto("tests") /\ UNCHANGED <<life, issues>>
  <2>1. /\ pc = "judge" /\ pc' = "tests" /\ cur \in Models
        /\ UNCHANGED <<opts, inst, pending, cur, retrying, deferred, before,
                       protected, placement, placed, interrupted, aborted,
                       targets, clean, issues, results, evicted, trouble>>
    BY <1>2
    DEF Judge, Goto, Fine, cluster, life, ending, tearing, RunInv, Placed
  <2>2. TypeOK'
    BY <2>1 DEF RunInv, TypeOK
  <2>3. Boundary'
    BY <2>1 DEF RunInv, Boundary, Shielded, Alive
  <2>4. Placed'
    BY <2>1 DEF RunInv, Placed, OperatorKept
  <2>5. Telling'
    BY <2>1 DEF RunInv, Telling, Told, Lasting, AccountedFor
  <2>6. ~opts.retain => Owning'
    BY <2>1, SameCluster DEF RunInv, Owning, Lasting, WillTearDown
  <2>7. ~opts.retain => Accounted'
    BY <2>1, SameCluster DEF RunInv, Accounted, Lasting
  <2>8. Evicting'
    BY <2>1 DEF Evicting
  <2> QED BY <2>1, <2>2, <2>3, <2>4, <2>5, <2>6, <2>7, <2>8 DEF RunInv
<1>3. ASSUME NEW kind \in {"warning", "error"}, NEW verdict \in BOOLEAN,
             Fine, Goto("finally"), Say(kind), placed' = verdict,
             UNCHANGED <<before, protected, placement>>
      PROVE  RunInv'
  <2>1. /\ pc = "judge" /\ pc' = "finally" /\ cur \in Models /\ placed' \in BOOLEAN
        /\ UNCHANGED <<opts, inst, pending, cur, retrying, deferred, before,
                       protected, placement, interrupted, aborted,
                       targets, clean, results, evicted, trouble>>
    BY <1>3
    DEF Judge, Goto, Fine, cluster, life, ending, tearing, RunInv, Placed
  <2>2. Grows /\ Lasting(cur)'
    BY <1>3, <2>1, SayGrows DEF RunInv, Kinds, Lasting
  <2>3. \A m \in Models : (Lasting(m) => Lasting(m)') /\ (Told(m) => Told(m)')
    BY <2>1, <2>2, GrowthKeeps
  <2>4. TypeOK'
    BY <2>1, <2>2 DEF RunInv, TypeOK, Grows
  <2>5. Boundary'
    BY <2>1 DEF RunInv, Boundary, Shielded, Alive
  <2>6. Placed'
    BY <2>1 DEF RunInv, Placed, OperatorKept
  <2>7. Telling'
    BY <2>1, <2>2, <2>3 DEF RunInv, Telling, Told, Lasting, AccountedFor, TypeOK
  <2>8. ~opts.retain => Owning'
    <3>1. deferred \subseteq Models /\ \A m \in Models : m > cur => m # cur
      BY <2>1 DEF RunInv, TypeOK, Models
    <3> QED BY <2>1, <2>2, <2>3, <3>1, SameCluster DEF RunInv, Owning
  <2>9. ~opts.retain => Accounted'
    BY <2>1, <2>3, SameCluster, LiveModel DEF RunInv, Accounted, Own
  <2>10. Evicting'
    BY <2>1 DEF Evicting
  <2> QED BY <2>1, <2>4, <2>5, <2>6, <2>7, <2>8, <2>9, <2>10 DEF RunInv
<1> QED
  <2>1. placement.made \in BOOLEAN /\ retrying \in BOOLEAN
    BY DEF RunInv, TypeOK
  <2> QED BY <1>1, <1>2, <1>3, <2>1 DEF Judge

LEMMA TestInv == ASSUME RunInv, Test PROVE RunInv'
<1>1. CASE Crash
  BY <1>1, CrashInv DEF Test, cluster
<1>2. CASE /\ Fine /\ pc' = "finally" /\ placed' = TRUE
           /\ \/ results' = results \cup {cur} /\ UNCHANGED issues
              \/ Say("error") /\ UNCHANGED results
           /\ UNCHANGED <<opts, retrying, cur, deferred, before, protected,
                          placement, ending, tearing, evicted>>
  <2>1. /\ pc = "tests" /\ pc' = "finally" /\ cur \in Models /\ placed' = TRUE
        /\ UNCHANGED <<opts, inst, pending, cur, retrying, deferred, before,
                       protected, placement, interrupted, aborted, targets,
                       clean, evicted, trouble>>
        /\ results \subseteq results' /\ results' \subseteq Models
    BY <1>2 DEF Test, Fine, cluster, ending, tearing, RunInv, Placed, TypeOK
  <2>2. Grows
    BY <1>2, <2>1, SayGrows, SilenceGrows DEF RunInv, Kinds
  <2>3. cur \in results' \/ Lasting(cur)'
    BY <1>2, <2>1, SayGrows DEF RunInv, Kinds, Lasting
  <2>4. \A m \in Models : (Lasting(m) => Lasting(m)') /\ (Told(m) => Told(m)')
    BY <2>1, <2>2, GrowthKeeps
  <2>5. TypeOK'
    BY <2>1, <2>2 DEF RunInv, TypeOK, Grows
  <2>6. Boundary'
    BY <2>1 DEF RunInv, Boundary, Shielded, Alive
  <2>7. Placed'
    BY <2>1 DEF RunInv, Placed, OperatorKept
  <2>8. Telling'
    BY <2>1, <2>3, <2>4 DEF RunInv, Telling, Told, Lasting, AccountedFor, TypeOK
  <2>9. ~opts.retain => Owning'
    <3>1. ~opts.retain /\ Open(cur) /\ ~Lasting(cur) => WillTearDown'
      BY <2>1 DEF RunInv, Owning, WillTearDown, MustTearDown, Boundary
    <3>2. deferred \subseteq Models /\ \A m \in Models : m > cur => m # cur
      BY <2>1 DEF RunInv, TypeOK, Models
    <3>3. Open(cur)' => Open(cur)
      BY <2>1, SameCluster
    <3> QED BY <2>1, <2>4, <3>1, <3>2, <3>3, SameCluster DEF RunInv, Owning
  <2>10. ~opts.retain => Accounted'
    BY <2>1, <2>4, SameCluster, LiveModel DEF RunInv, Accounted, Own
  <2>11. Evicting'
    BY <2>1 DEF Evicting
  <2> QED BY <2>1, <2>5, <2>6, <2>7, <2>8, <2>9, <2>10, <2>11 DEF RunInv
<1> QED BY <1>1, <1>2 DEF Test

-----------------------------------------------------------------------------
(* The finally *)

LEMMA FinallyInv == ASSUME RunInv, Finally PROVE RunInv'
<1>1. /\ pc = "finally" /\ cur \in Models
      /\ UNCHANGED <<opts, inst, pending, cur, retrying, deferred, before,
                     protected, placement, placed, interrupted, aborted,
                     targets, clean, issues, results, evicted, trouble>>
      /\ \/ pc' = "sweep" /\ MustTearDown
         \/ pc' = "ended" /\ ~MustTearDown
  BY DEF Finally, cluster, life, ending, tearing, report, RunInv, Placed
<1>2. MustTearDown' <=> MustTearDown
  BY <1>1 DEF MustTearDown
<1>3. TypeOK'
  BY <1>1 DEF RunInv, TypeOK
<1>4. Boundary'
  BY <1>1 DEF RunInv, Boundary, Shielded, Alive
<1>5. Placed'
  BY <1>1, <1>2 DEF RunInv, Placed, OperatorKept
<1>6. Telling'
  BY <1>1 DEF RunInv, Telling, Told, Lasting, AccountedFor
<1>7. ~opts.retain => Owning'
  BY <1>1, <1>2, SameCluster DEF RunInv, Owning, Lasting, WillTearDown
<1>8. ~opts.retain => Accounted'
  <2>1. ~opts.retain /\ pc' = "ended" =>
           \A i \in Ids : Own(i) /\ inst[i].model = cur => Lasting(cur)
    BY <1>1 DEF RunInv, Owning, WillTearDown, Own, Open, Ours
  <2> QED BY <1>1, <2>1, SameCluster DEF RunInv, Accounted, Lasting
<1>9. Evicting'
  BY <1>1 DEF Evicting
<1> QED BY <1>1, <1>3, <1>4, <1>5, <1>6, <1>7, <1>8, <1>9 DEF RunInv

\* The sweep spares what the boundary knows and takes the rest, or warns.
LEMMA SweepInv == ASSUME RunInv, Sweep PROVE RunInv'
<1>1. /\ pc = "sweep" /\ pc' = "delete" /\ cur \in Models /\ MustTearDown
      /\ UNCHANGED <<opts, inst, pending, cur, retrying, deferred, before,
                     protected, placement, placed, interrupted, aborted,
                     results, evicted>>
      /\ \/ UNCHANGED issues /\ targets' = Primary \cup (Serving(cur) \ Kept)
         \/ Say("warning") /\ targets' = Primary /\ clean' = FALSE
      /\ clean' \in BOOLEAN
  BY DEF Sweep, cluster, life, ending, RunInv, Placed
<1>2. Grows /\ (UNCHANGED issues \/ Lasting(cur)')
  BY <1>1, SayGrows, SilenceGrows DEF RunInv, Kinds, Lasting
<1>3. \A m \in Models : (Lasting(m) => Lasting(m)') /\ (Told(m) => Told(m)')
  BY <1>1, <1>2, GrowthKeeps
<1>4. targets' \subseteq Ids /\ \A i \in targets' : inst[i] # Unused
  BY <1>1, LiveModel DEF Primary, Serving, RunInv, TypeOK, Boundary
<1>5. (MustTearDown' <=> MustTearDown) /\ Kept' = Kept
  BY <1>1 DEF MustTearDown, Kept
<1>6. TypeOK'
  <2>1. trouble' \in 0..MaxTrouble
    BY FaultTyped DEF Sweep, RunInv
  <2> QED BY <1>1, <1>2, <1>4, <2>1 DEF RunInv, TypeOK, Grows
<1>7. Boundary'
  BY <1>1, <1>4 DEF RunInv, Boundary, Shielded, Alive
<1>8. targets' \cap before = {}
  <2>1. CASE placement.got
    <3>1. placement.made /\ Kept = protected
      BY <1>1, <2>1 DEF MustTearDown, Kept
    <3>2. Primary \cap before = {}
      BY <3>1 DEF Primary, RunInv, Boundary
    <3>3. (Serving(cur) \ Kept) \cap before = {}
      BY <3>1 DEF Serving, RunInv, Boundary, Shielded
    <3> QED BY <1>1, <3>2, <3>3
  <2>2. CASE ~placement.got
    <3>1. Kept = before /\ Primary = {}
      BY <2>2 DEF Kept, Primary, RunInv, Boundary, NoPlacement
    <3> QED BY <1>1, <3>1
  <2> QED BY <2>1, <2>2
<1>9. Placed'
  BY <1>1, <1>5, <1>8 DEF RunInv, Placed, OperatorKept
<1>10. Telling'
  BY <1>1, <1>3 DEF RunInv, Telling, Told, AccountedFor, TypeOK
<1>11. ~opts.retain => Owning'
  BY <1>1, <1>3, SameCluster DEF RunInv, Owning, TypeOK
<1>12. ~opts.retain => Accounted'
  <2>1. ASSUME ~opts.retain, NEW i \in Ids, Own(i), inst[i].model = cur
        PROVE  Lasting(cur)' \/ i \in targets'
    <3>1. CASE Lasting(cur) \/ Lasting(cur)'
      BY <1>1, <1>3, <3>1
    <3>2. CASE ~Lasting(cur) /\ ~Lasting(cur)'
      <4>1. Ours(i, cur) /\ Open(cur)
        BY <2>1 DEF Own, Ours, Open
      <4>2. i \notin protected /\ (before # NoId => i \notin before) /\ WillTearDown
        BY <1>1, <2>1, <3>2, <4>1 DEF RunInv, Owning
      <4>3. i \notin Kept
        BY <1>1, <4>2 DEF Kept, MustTearDown
      <4>4. targets' = Primary \cup (Serving(cur) \ Kept)
        BY <1>1, <1>2, <3>2, SayGrows DEF RunInv, Kinds, Lasting
      <4> QED BY <2>1, <4>3, <4>4 DEF Serving, Own
    <3> QED BY <3>1, <3>2
  <2> QED BY <1>1, <1>3, <2>1, SameCluster, LiveModel DEF RunInv, Accounted, Own
<1>13. Evicting'
  <2>1. clean' => \A i \in Ids : Own(i) /\ inst[i].model = cur => i \in Kept \cup targets'
    BY <1>1 DEF Sweep, Own, Serving
  <2> QED BY <1>1, <1>5, <2>1, SameCluster DEF Evicting
<1> QED BY <1>1, <1>6, <1>7, <1>9, <1>10, <1>11, <1>12, <1>13 DEF RunInv

\* Instances that vanish.
LEMMA FewerInstances ==
  ASSUME TypeOK, UNCHANGED pending, NEW i \in Ids,
         inst' = [inst EXCEPT ![i].state = "gone"]
  PROVE  /\ ~Alive(i)'
         /\ \A j \in Ids : /\ inst'[j].model = inst[j].model
                           /\ inst'[j].owner = inst[j].owner
                           /\ Alive(j)' => Alive(j)
                           /\ Own(j)' => Own(j)
                           /\ inst[j] # Unused => inst'[j] # Unused
         /\ \A j \in Ids, m \in Models : Ours(j, m)' => Ours(j, m)
         /\ \A m \in Models : Open(m)' => Open(m)
<1>1. \A j \in Ids : inst'[j] = IF j = i THEN [inst[i] EXCEPT !.state = "gone"]
                                         ELSE inst[j]
  BY DEF TypeOK
<1>2. \A j \in Ids : inst[j] \in Instances
  BY DEF TypeOK
<1>3. /\ ~Alive(i)'
      /\ \A j \in Ids : /\ inst'[j].model = inst[j].model
                        /\ inst'[j].owner = inst[j].owner
                        /\ inst'[j].late = inst[j].late
                        /\ Alive(j)' => Alive(j)
                        /\ inst[j] # Unused => inst'[j] # Unused
  BY <1>1, <1>2 DEF Alive, Instances, Unused
<1>4. \A j \in Ids, m \in Models : Ours(j, m)' => Ours(j, m)
  BY <1>3 DEF Ours
<1> QED BY <1>3, <1>4 DEF Own, Open

LEMMA GoneTyped ==
  ASSUME TypeOK, NEW i \in Ids, inst[i] # Unused
  PROVE  [inst EXCEPT ![i].state = "gone"] \in [Ids -> Instances]
<1>1. inst[i] \in [model : Models, owner : {"harness", "operator"},
                   state : {"live", "gone"}, late : BOOLEAN]
  BY DEF TypeOK, Instances
<1>2. [inst[i] EXCEPT !.state = "gone"] \in Instances
  BY <1>1 DEF Instances
<1> QED BY <1>2 DEF TypeOK

LEMMA DeleteInv == ASSUME RunInv, Delete PROVE RunInv'
<1>1. PICK i \in targets :
        /\ targets' = targets \ {i}
        /\ \/ /\ Fine /\ inst' = [inst EXCEPT ![i].state = "gone"]
              /\ UNCHANGED <<clean, issues>>
           \/ /\ Fault /\ inst' \in {inst, [inst EXCEPT ![i].state = "gone"]}
              /\ clean' = FALSE /\ Say("warning")
  BY DEF Delete
<1>2. /\ pc = "delete" /\ pc' = "delete" /\ cur \in Models /\ i \in Ids
      /\ inst[i] # Unused
      /\ UNCHANGED <<opts, pending, cur, retrying, deferred, before, protected,
                     placement, placed, interrupted, aborted, results, evicted>>
  BY DEF Delete, life, ending, RunInv, Placed, Boundary, TypeOK
<1>3. Grows /\ (UNCHANGED issues \/ Lasting(cur)')
  BY <1>1, <1>2, SayGrows, SilenceGrows DEF RunInv, Kinds, Lasting
<1>4. \A m \in Models : (Lasting(m) => Lasting(m)') /\ (Told(m) => Told(m)')
  BY <1>2, <1>3, GrowthKeeps
<1>5. /\ \A j \in Ids : /\ inst'[j].model = inst[j].model
                        /\ Alive(j)' => Alive(j)
                        /\ Own(j)' => Own(j)
                        /\ inst[j] # Unused => inst'[j] # Unused
      /\ \A m \in Models : Open(m)' => Open(m)
  <2>1. CASE UNCHANGED inst
    BY <1>2, <2>1, SameCluster
  <2>2. CASE inst' = [inst EXCEPT ![i].state = "gone"]
    BY <1>2, <2>2, FewerInstances DEF RunInv
  <2> QED BY <1>1, <2>1, <2>2
<1>6. ~Own(i)' \/ (clean' = FALSE /\ Lasting(cur)')
  <2>1. CASE inst' = [inst EXCEPT ![i].state = "gone"]
    BY <1>2, <2>1, FewerInstances DEF RunInv, Own
  <2>2. CASE clean' = FALSE /\ Say("warning")
    BY <1>2, <2>2, SayGrows DEF RunInv, Kinds, Lasting
  <2> QED BY <1>1, <2>1, <2>2
<1>7. (MustTearDown' <=> MustTearDown) /\ Kept' = Kept
  BY <1>2 DEF MustTearDown, Kept
<1>8. TypeOK'
  <2>1. inst' \in [Ids -> Instances]
    BY <1>1, <1>2, GoneTyped DEF RunInv, TypeOK
  <2>2. trouble' \in 0..MaxTrouble
    BY <1>1, FaultTyped DEF RunInv
  <2>3. clean' \in BOOLEAN /\ targets' \subseteq Ids
    BY <1>1 DEF RunInv, TypeOK
  <2> QED BY <1>2, <1>3, <2>1, <2>2, <2>3 DEF RunInv, TypeOK, Grows
<1>9. Boundary'
  <2>1. /\ before # NoId => before \subseteq Ids
        /\ targets \subseteq Ids /\ protected \subseteq Ids /\ targets' \subseteq targets
    BY <1>1 DEF RunInv, TypeOK
  <2>2. Shielded /\ before # NoId => Shielded'
    BY <1>2, <1>5, <2>1 DEF Shielded
  <2>3. placement.made => before # NoId
    BY DEF RunInv, Boundary, NoPlacement
  <2> QED BY <1>2, <1>5, <2>1, <2>2, <2>3 DEF RunInv, Boundary
<1>10. Placed'
  BY <1>1, <1>2, <1>7 DEF RunInv, Placed, OperatorKept
<1>11. Telling'
  BY <1>2, <1>4 DEF RunInv, Telling, TypeOK, AccountedFor
<1>12. ~opts.retain => Owning'
  <2>1. deferred \subseteq Models
    BY DEF RunInv, TypeOK
  <2> QED BY <1>2, <1>4, <1>5, <2>1 DEF RunInv, Owning
<1>13. ~opts.retain => Accounted'
  <2>1. \A j \in Ids : Own(j)' => inst[j].model \in Models
    BY <1>5, LiveModel DEF RunInv, Own
  <2> QED BY <1>1, <1>2, <1>4, <1>5, <1>6, <2>1 DEF RunInv, Accounted
<1>14. Evicting'
  <2>1. clean' => clean
    BY <1>1
  <2> QED BY <1>1, <1>2, <1>5, <1>6, <1>7, <2>1 DEF RunInv, Evicting
<1> QED BY <1>2, <1>8, <1>9, <1>10, <1>11, <1>12, <1>13, <1>14 DEF RunInv

LEMMA DeletedInv == ASSUME RunInv, Deleted PROVE RunInv'
<1>1. /\ pc = "delete" /\ targets = {} /\ cur \in Models
      /\ UNCHANGED <<opts, inst, pending, cur, retrying, deferred, before,
                     protected, placement, placed, interrupted, aborted,
                     targets, clean, issues, results, evicted, trouble>>
      /\ (pc' = "evict" /\ clean) \/ pc' = "ended"
  BY DEF Deleted, cluster, life, ending, tearing, report, RunInv, Placed
<1>2. (MustTearDown' <=> MustTearDown) /\ Kept' = Kept
  BY <1>1 DEF MustTearDown, Kept
<1>3. TypeOK'
  BY <1>1 DEF RunInv, TypeOK
<1>4. Boundary'
  BY <1>1 DEF RunInv, Boundary, Shielded, Alive
<1>5. Placed'
  BY <1>1, <1>2 DEF RunInv, Placed, OperatorKept
<1>6. Telling'
  BY <1>1 DEF RunInv, Telling, Told, Lasting, AccountedFor
<1>7. ~opts.retain => Owning'
  BY <1>1, SameCluster DEF RunInv, Owning, Lasting
<1>8. ~opts.retain => Accounted'
  BY <1>1, SameCluster DEF RunInv, Accounted, Lasting
<1>9. Evicting'
  BY <1>1, <1>2, SameCluster DEF RunInv, Evicting
<1> QED BY <1>1, <1>3, <1>4, <1>5, <1>6, <1>7, <1>8, <1>9 DEF RunInv

LEMMA EvictInv == ASSUME RunInv, Evict PROVE RunInv'
<1>1. /\ pc = "evict" /\ pc' = "ended" /\ cur \in Models
      /\ UNCHANGED <<opts, inst, pending, cur, retrying, deferred, before,
                     protected, placement, placed, interrupted, aborted,
                     targets, clean, results>>
      /\ evicted' \subseteq Models
      /\ UNCHANGED issues \/ Say("warning")
  BY DEF Evict, cluster, life, ending, tearing, RunInv, Placed, TypeOK
<1>2. Grows
  BY <1>1, SayGrows, SilenceGrows DEF RunInv, Kinds
<1>3. \A m \in Models : (Lasting(m) => Lasting(m)') /\ (Told(m) => Told(m)')
  BY <1>1, <1>2, GrowthKeeps
<1>4. TypeOK'
  <2>1. trouble' \in 0..MaxTrouble
    BY FaultTyped DEF Evict, RunInv
  <2> QED BY <1>1, <1>2, <2>1 DEF RunInv, TypeOK, Grows
<1>5. Boundary'
  BY <1>1 DEF RunInv, Boundary, Shielded, Alive
<1>6. Placed'
  BY <1>1 DEF RunInv, Placed, OperatorKept
<1>7. Telling'
  BY <1>1, <1>3 DEF RunInv, Telling, TypeOK, AccountedFor
<1>8. ~opts.retain => Owning'
  BY <1>1, <1>3, SameCluster DEF RunInv, Owning, TypeOK
<1>9. ~opts.retain => Accounted'
  BY <1>1, <1>3, SameCluster, LiveModel DEF RunInv, Accounted, Own
<1>10. Evicting'
  BY <1>1 DEF Evicting
<1> QED BY <1>1, <1>4, <1>5, <1>6, <1>7, <1>8, <1>9, <1>10 DEF RunInv

\* What the retry clears is not all there is to say.
LEMMA EndInv == ASSUME RunInv, End PROVE RunInv'
<1>1. /\ pc = "ended" /\ cur \in Models
      /\ UNCHANGED <<opts, inst, pending, cur, retrying, interrupted, aborted,
                     targets, results, evicted, trouble>>
      /\ before' = NoId /\ protected' = {} /\ placement' = NoPlacement
      /\ placed' = FALSE /\ clean' = FALSE
      /\ pc' = "killed" \/ (pc' = "next" /\ ~interrupted)
      /\ deferred' = IF placed \/ retrying THEN deferred ELSE deferred \cup {cur}
  BY DEF End, cluster, ending, RunInv, Placed
<1>2. /\ issues' \in [Models -> SUBSET Kinds]
      /\ \A m \in Models : m # cur => issues'[m] = issues[m]
      /\ issues'[cur] = issues[cur] \/ (placed /\ issues'[cur] = issues[cur] \ {"refusal"})
  BY <1>1 DEF End, Cleared, RunInv, TypeOK
<1>3. \A m \in Models : Lasting(m)' <=> Lasting(m)
  BY <1>1, <1>2 DEF Lasting
<1>4. pc' = "next" => \A m \in Models : Told(m) => Told(m)'
  <2>1. pc' = "next" => Told(cur)'
    <3>1. pc' = "next" /\ placed => cur \in results \/ Lasting(cur)
      BY <1>1 DEF RunInv, Telling
    <3>2. pc' = "next" => Told(cur)
      BY <1>1 DEF RunInv, Telling
    <3> QED BY <1>1, <1>2, <3>1, <3>2 DEF Told, Lasting
  <2> QED BY <1>1, <1>2, <2>1 DEF Told
<1>5. TypeOK'
  <2>1. deferred' \subseteq Models
    BY <1>1 DEF RunInv, TypeOK
  <2> QED BY <1>1, <1>2, <2>1 DEF RunInv, TypeOK, NoPlacement
<1>6. Boundary'
  BY <1>1, RunAssumption DEF RunInv, Boundary, NoPlacement
<1>7. Placed'
  BY <1>1 DEF RunInv, Placed, OperatorKept
<1>8. Telling'
  <2>1. pc' = "next" => Told(cur)
    BY <1>1 DEF RunInv, Telling
  <2> QED BY <1>1, <1>4, <2>1 DEF RunInv, Telling, TypeOK, AccountedFor
<1>9. ~opts.retain /\ pc' # "killed" => Owning'
  <2>1. ~opts.retain /\ ~placed /\ pc' = "next" => (Open(cur) => Lasting(cur))
    BY <1>1 DEF RunInv, Owning
  <2>2. deferred \subseteq Models
    BY DEF RunInv, TypeOK
  <2> QED BY <1>1, <1>3, <2>1, <2>2, SameCluster DEF RunInv, Owning
<1>10. ~opts.retain => Accounted'
  BY <1>1, <1>3, SameCluster, LiveModel DEF RunInv, Accounted, Own
<1>11. Evicting'
  BY <1>1 DEF Evicting
<1> QED BY <1>1, <1>5, <1>6, <1>7, <1>8, <1>9, <1>10, <1>11 DEF RunInv

\* KeyboardInterrupt and SystemExit, wherever the harness is.
LEMMA InterruptInv == ASSUME RunInv, Interrupt PROVE RunInv'
<1>1. /\ pc \notin {"done", "killed"}
      /\ UNCHANGED <<opts, inst, cur, retrying, deferred, before, protected,
                     placement, placed, aborted, targets, clean, issues,
                     results, evicted>>
      /\ pending' \in [Models -> Nat]
  BY DEF Interrupt, life, tearing, report, RunInv, TypeOK
<1>2. \/ /\ pc \in Try /\ pc' = "finally" /\ interrupted' = TRUE
         /\ cur \in Models
         /\ \/ UNCHANGED pending
            \/ /\ pc = "place"
               /\ \A m \in Models : m # cur => pending'[m] = pending[m]
      \/ pc' = "killed" /\ UNCHANGED <<interrupted, pending>>
  BY DEF Interrupt, RunInv, Placed, TypeOK
<1>3. TypeOK'
  <2>1. trouble' \in 0..MaxTrouble
    BY RunAssumption DEF Interrupt, Troubles, RunInv, TypeOK
  <2>2. interrupted' \in BOOLEAN /\ pc' \in {"finally", "killed"}
    BY <1>2 DEF RunInv, TypeOK
  <2> QED BY <1>1, <2>1, <2>2 DEF RunInv, TypeOK
<1>4. Boundary'
  BY <1>1, <1>2 DEF RunInv, Boundary, Shielded, Alive
<1>5. Placed'
  BY <1>1, <1>2 DEF RunInv, Placed, OperatorKept
<1>6. Telling'
  BY <1>1, <1>2 DEF RunInv, Telling, Told, AccountedFor
<1>7. \A m : (Lasting(m)' <=> Lasting(m)) /\ \A i : Ours(i, m)' <=> Ours(i, m)
  BY <1>1, SameCluster DEF Lasting
<1>8. ~opts.retain /\ pc' # "killed" => Owning'
  <2> SUFFICES ASSUME ~opts.retain, pc' # "killed" PROVE Owning'
    OBVIOUS
  <2>1. \A m \in Models : m # cur => (Open(m)' <=> Open(m))
    BY <1>2, <1>7 DEF Open
  <2>2. deferred \subseteq Models /\ \A m \in Models : m > cur => m # cur
    BY <1>2 DEF RunInv, TypeOK, Models
  <2>3. ASSUME Open(cur)', ~Lasting(cur)
        PROVE  /\ MustTearDown'
               /\ \A i \in Ids : Ours(i, cur) => i \notin protected
                                   /\ (before # NoId => i \notin before)
    <3>1. pc \in Early \cup {"reuse"} => \A i \in Ids : ~Ours(i, cur)
      BY <1>1, <1>2, <2>3 DEF RunInv, Owning, Open
    <3>2. CASE UNCHANGED pending
      <4>1. Open(cur)
        BY <1>1, <1>2, <2>3, <3>2, SameCluster DEF Open
      <4>2. /\ pc \in Requested /\ WillTearDown
            /\ \A i \in Ids : Ours(i, cur) => i \notin protected
                                 /\ (before # NoId => i \notin before)
        BY <1>1, <1>2, <2>3, <4>1 DEF RunInv, Owning
      <4>3. (pc = "wait" /\ ~placement.got /\ before # NoId)
            \/ (placement.got /\ placement.made)
        BY <4>2 DEF WillTearDown, RunInv, Boundary
      <4> QED BY <1>1, <1>2, <4>2, <4>3 DEF MustTearDown
    <3>3. CASE pc = "place"
      <4>1. ~placement.got /\ before # NoId
        BY <3>3 DEF RunInv, Boundary
      <4> QED BY <1>1, <1>2, <3>1, <3>3, <4>1 DEF MustTearDown
    <3> QED BY <1>2, <3>2, <3>3
  <2>4. pc' = "finally" /\ interrupted' /\ UNCHANGED <<cur, before, protected>>
    BY <1>1, <1>2
  <2>5. Open(cur)' /\ ~Lasting(cur)' =>
          /\ WillTearDown'
          /\ \A i \in Ids : Ours(i, cur)' => i \notin protected'
                               /\ (before' # NoId => i \notin before')
    BY <1>7, <2>3, <2>4, SameCluster DEF WillTearDown, Open, Ours, Alive, Lasting
  <2> QED BY <1>1, <1>2, <1>7, <2>1, <2>2, <2>5 DEF RunInv, Owning
<1>9. ~opts.retain => Accounted'
  BY <1>1, <1>2, <1>7, SameCluster DEF RunInv, Accounted, Lasting
<1>10. Evicting'
  BY <1>2 DEF Evicting
<1> QED BY <1>1, <1>3, <1>4, <1>5, <1>6, <1>8, <1>9, <1>10 DEF RunInv

-----------------------------------------------------------------------------
(* The cluster *)

\* What the cluster does leaves the harness where it is, names no instance
\* anew, opens no model, and makes for the harness only what the lifecycle
\* sees.
ClusterStep ==
    /\ UNCHANGED harnessVars
    /\ inst' \in [Ids -> Instances] /\ pending' \in [Models -> Nat]
    /\ trouble' \in 0..MaxTrouble
    /\ \A i \in Ids : inst[i] # Unused =>
          /\ inst'[i] # Unused /\ inst'[i].model = inst[i].model
          /\ (Alive(i)' => Alive(i)) /\ (Own(i)' => Own(i))
          /\ \A m \in Models : Ours(i, m)' => Ours(i, m)
    /\ \A i \in Fresh : Own(i)' => ~Unwatched(inst'[i].model)
    /\ \A m \in Models : Open(m)' => Open(m)

LEMMA ClusterInv == ASSUME RunInv, ClusterStep PROVE RunInv'
<1>1. UNCHANGED <<opts, pc, cur, retrying, deferred, before, protected,
                  placement, placed, interrupted, aborted, targets, clean,
                  issues, results, evicted>>
  BY DEF ClusterStep, harnessVars, life, ending, tearing, report
<1>2. /\ \A i \in Ids : inst[i] # Unused =>
            /\ inst'[i] # Unused /\ inst'[i].model = inst[i].model
            /\ (Alive(i)' => Alive(i)) /\ (Own(i)' => Own(i))
            /\ \A m \in Models : Ours(i, m)' => Ours(i, m)
      /\ \A m \in Models : Open(m)' => Open(m)
  BY DEF ClusterStep
<1>3. /\ before # NoId => before \subseteq Ids
      /\ targets \subseteq Ids /\ protected \subseteq Ids
      /\ deferred \subseteq Models
  BY DEF RunInv, TypeOK
<1>4. /\ \A m : Lasting(m)' <=> Lasting(m)
      /\ \A m : Told(m)' <=> Told(m)
      /\ (MustTearDown' <=> MustTearDown) /\ Kept' = Kept
      /\ WillTearDown' <=> WillTearDown
  BY <1>1 DEF Lasting, Told, MustTearDown, Kept, WillTearDown
<1>5. TypeOK'
  BY <1>1 DEF RunInv, TypeOK, ClusterStep
<1>6. Boundary'
  <2>1. before # NoId => \A i \in before : inst[i] # Unused
    BY DEF RunInv, Boundary
  <2>2. Shielded /\ before # NoId => Shielded'
    BY <1>1, <1>2, <1>3, <2>1 DEF Shielded
  <2>3. placement.made => before # NoId
    BY DEF RunInv, Boundary, NoPlacement
  <2> QED BY <1>1, <1>2, <1>3, <2>2, <2>3 DEF RunInv, Boundary
<1>7. Placed'
  BY <1>1, <1>4 DEF RunInv, Placed, OperatorKept
<1>8. Telling'
  BY <1>1 DEF RunInv, Telling, Told, Lasting, AccountedFor
<1>9. ~opts.retain /\ pc # "killed" => Owning'
  <2> SUFFICES ASSUME ~opts.retain, pc # "killed" PROVE Owning'
    OBVIOUS
  <2>1. /\ \A i \in protected : inst[i] # Unused
        /\ before # NoId => \A i \in before : inst[i] # Unused
    BY DEF RunInv, Boundary
  <2>2. cur \in Models => (Open(cur)' => Open(cur))
    <3>1. Open(cur)' => \E m \in {cur} : Open(m)'
      BY <1>1 DEF Open, Ours, Alive
    <3> QED BY <1>2, <3>1
  <2>4. pc \in Try \cup Ending => cur \in Models
    BY DEF RunInv, Placed
  <2>5. pc \in Requested \cup {"finally", "sweep"} /\ Open(cur) /\ ~Lasting(cur) =>
          \A i \in Ids : Ours(i, cur)' => i \notin protected
                               /\ (before # NoId => i \notin before)
    BY <1>1, <1>2, <2>1, <2>4 DEF RunInv, Owning
  <2>6. \A m : m \in deferred => m \in Models
    BY <1>3
  <2> QED BY <1>1, <1>2, <1>4, <2>2, <2>4, <2>5, <2>6 DEF RunInv, Owning
<1>10. ASSUME NEW i \in Ids, Own(i)'
       PROVE  \/ Own(i) /\ inst'[i].model = inst[i].model
              \/ /\ inst'[i].model = cur
                 /\ pc \notin {"next", "snapshot", "delete", "evict", "ended",
                               "done", "killed"}
  BY <1>2, <1>10 DEF ClusterStep, Fresh, Unwatched
<1>11. ~opts.retain => Accounted'
  BY <1>1, <1>4, <1>10 DEF RunInv, Accounted
<1>12. Evicting'
  BY <1>1, <1>4, <1>10 DEF RunInv, Evicting
<1> QED BY <1>1, <1>5, <1>6, <1>7, <1>8, <1>9, <1>11, <1>12 DEF RunInv

\* The cluster makes an instance.
LEMMA MadeInstance ==
  ASSUME TypeOK, NEW j \in Fresh, NEW m \in Models,
         NEW owner \in {"harness", "operator"},
         inst' = [inst EXCEPT ![j] = Made(m, owner)]
  PROVE  /\ inst' \in [Ids -> Instances]
         /\ \A i \in Ids : inst[i] # Unused => inst'[i] = inst[i]
         /\ \A i \in Fresh : Own(i)' => ~Unwatched(inst'[i].model)
         /\ \A i \in Ids, n \in Models :
               Ours(i, n)' => Ours(i, n) \/ (owner = "harness" /\ n = m)
<1>1. Made(m, owner) \in Instances
  BY DEF Made, Instances, Unwatched
<1>2. j \in Ids /\ inst[j] = Unused
  BY DEF Fresh
<1>3. \A i \in Ids : inst'[i] = IF i = j THEN Made(m, owner) ELSE inst[i]
  BY <1>2 DEF TypeOK
<1>4. \A i \in Fresh : i # j => ~Own(i)'
  BY <1>3 DEF Fresh, Own, Alive, Unused
<1>5. Own(j)' => ~Unwatched(inst'[j].model)
  BY <1>2, <1>3 DEF Own, Made
<1>6. \A i \in Ids, n \in Models :
         Ours(i, n)' => Ours(i, n) \/ (owner = "harness" /\ n = m)
  BY <1>2, <1>3 DEF Ours, Made, Alive
<1>7. inst' \in [Ids -> Instances]
  BY <1>1 DEF TypeOK
<1> QED BY <1>2, <1>3, <1>4, <1>5, <1>6, <1>7

LEMMA AppearInv == ASSUME RunInv, NEW m \in Models, Appear(m) PROVE RunInv'
<1>1. PICK j \in Fresh : inst' = [inst EXCEPT ![j] = Made(m, "harness")]
  BY DEF Appear
<1>2. /\ UNCHANGED harnessVars /\ trouble' = trouble
      /\ pending' \in [Models -> Nat]
      /\ pending[m] > 0 /\ \A n \in Models : pending'[n] <= pending[n]
  BY DEF Appear, RunInv, TypeOK
<1>3. /\ inst' \in [Ids -> Instances]
      /\ \A i \in Ids : inst[i] # Unused => inst'[i] = inst[i]
      /\ \A i \in Fresh : Own(i)' => ~Unwatched(inst'[i].model)
      /\ \A i \in Ids, n \in Models : Ours(i, n)' => Ours(i, n) \/ n = m
  BY <1>1, MadeInstance DEF RunInv
<1>4. \A n \in Models : Open(n)' => Open(n)
  <2>1. \A n \in Models : pending'[n] > 0 => pending[n] > 0
    BY <1>2 DEF RunInv, TypeOK
  <2> QED BY <1>2, <1>3, <2>1 DEF Open
<1>5. ClusterStep
  BY <1>2, <1>3, <1>4 DEF ClusterStep, Alive, Own, Ours, RunInv, TypeOK
<1> QED BY <1>5, ClusterInv

LEMMA OperatorPlacesInv ==
  ASSUME RunInv, NEW m \in Models, OperatorPlaces(m) PROVE RunInv'
<1>1. PICK j \in Fresh : inst' = [inst EXCEPT ![j] = Made(m, "operator")]
  BY DEF OperatorPlaces
<1>2. /\ UNCHANGED harnessVars /\ UNCHANGED pending
      /\ trouble' \in 0..MaxTrouble
  BY FaultTyped DEF OperatorPlaces, Fault, RunInv
<1>3. /\ inst' \in [Ids -> Instances]
      /\ \A i \in Ids : inst[i] # Unused => inst'[i] = inst[i]
      /\ \A i \in Fresh : Own(i)' => ~Unwatched(inst'[i].model)
      /\ \A i \in Ids, n \in Models : Ours(i, n)' => Ours(i, n)
  BY <1>1, MadeInstance DEF RunInv
<1>4. \A n \in Models : Open(n)' => Open(n)
  BY <1>2, <1>3 DEF Open
<1>5. ClusterStep
  BY <1>2, <1>3, <1>4 DEF ClusterStep, Alive, Own, Ours, RunInv, TypeOK
<1> QED BY <1>5, ClusterInv

\* What is placed again stays its owner's.
LEMMA MoveInv == ASSUME RunInv, NEW i \in Ids, Move(i) PROVE RunInv'
<1>1. /\ UNCHANGED harnessVars /\ UNCHANGED pending
      /\ trouble' \in 0..MaxTrouble /\ Alive(i)
  BY FaultTyped DEF Move, Fault, RunInv
<1>2. inst[i] # Unused /\ inst[i].model \in Models
      /\ inst[i].owner \in {"harness", "operator"}
  BY <1>1, LiveModel DEF RunInv, TypeOK, Instances, Unused
<1>3. CASE inst' = [inst EXCEPT ![i].state = "gone"]
  <2>1. inst' \in [Ids -> Instances]
    BY <1>2, <1>3, GoneTyped DEF RunInv
  <2>2. /\ \A j \in Ids : /\ inst'[j].model = inst[j].model
                          /\ Alive(j)' => Alive(j)
                          /\ Own(j)' => Own(j)
                          /\ inst[j] # Unused => inst'[j] # Unused
        /\ \A j \in Ids, m \in Models : Ours(j, m)' => Ours(j, m)
        /\ \A m \in Models : Open(m)' => Open(m)
    BY <1>1, <1>3, FewerInstances DEF RunInv
  <2>3. \A j \in Fresh : ~Own(j)'
    BY <2>2 DEF Fresh, Own, Alive, Unused
  <2>4. pending' \in [Models -> Nat]
    BY <1>1 DEF RunInv, TypeOK
  <2>5. ClusterStep
    BY <1>1, <2>1, <2>2, <2>3, <2>4 DEF ClusterStep
  <2> QED BY <2>5, ClusterInv
<1>4. CASE \E j \in Fresh :
             inst' = [inst EXCEPT ![i].state = "gone",
                                  ![j] = Made(inst[i].model, inst[i].owner)]
  <2>1. PICK j \in Fresh :
          inst' = [inst EXCEPT ![i].state = "gone",
                               ![j] = Made(inst[i].model, inst[i].owner)]
    BY <1>4
  <2> DEFINE new == Made(inst[i].model, inst[i].owner)
  <2>2. j \in Ids /\ inst[j] = Unused /\ i # j
    BY <1>2 DEF Fresh
  <2>3. /\ inst'[i] = [inst[i] EXCEPT !.state = "gone"]
        /\ inst'[j] = new
        /\ \A k \in Ids : k # i /\ k # j => inst'[k] = inst[k]
    BY <2>1, <2>2 DEF RunInv, TypeOK
  <2>4. /\ inst'[i] # Unused /\ inst'[i].model = inst[i].model /\ ~Alive(i)'
    BY <1>2, <2>3 DEF Alive, Unused, RunInv, TypeOK, Instances
  <2>5. inst' \in [Ids -> Instances]
    <3>1. new \in Instances
      BY <1>2 DEF Made, Instances, Unwatched
    <3>2. [inst EXCEPT ![i].state = "gone"] \in [Ids -> Instances]
      BY <1>2, GoneTyped DEF RunInv
    <3> QED BY <2>1, <3>1, <3>2
  <2>6. \A k \in Ids : inst[k] # Unused =>
          /\ inst'[k] # Unused /\ inst'[k].model = inst[k].model
          /\ (Alive(k)' => Alive(k)) /\ (Own(k)' => Own(k))
          /\ \A m \in Models : Ours(k, m)' => Ours(k, m)
    BY <2>2, <2>3, <2>4 DEF Alive, Own, Ours
  <2>7. \A k \in Fresh : Own(k)' => ~Unwatched(inst'[k].model)
    <3>1. \A k \in Fresh : k # j => ~Own(k)'
      BY <1>2, <2>3 DEF Fresh, Own, Alive, Unused
    <3>2. Own(j)' => ~Unwatched(inst'[j].model)
      BY <2>3 DEF Own, Made
    <3> QED BY <3>1, <3>2
  <2>8. \A m \in Models : Open(m)' => Open(m)
    <3>1. \A m \in Models : Ours(j, m)' => Ours(i, m)
      BY <1>1, <2>3 DEF Ours, Made
    <3>2. \A k \in Ids, m \in Models : k # j => (Ours(k, m)' => Ours(k, m))
      BY <2>3, <2>4 DEF Ours, Alive
    <3> QED BY <1>1, <3>1, <3>2 DEF Open
  <2>9. pending' \in [Models -> Nat]
    BY <1>1 DEF RunInv, TypeOK
  <2>10. ClusterStep
    BY <1>1, <2>5, <2>6, <2>7, <2>8, <2>9 DEF ClusterStep
  <2> QED BY <2>10, ClusterInv
<1> QED BY <1>3, <1>4 DEF Move

LEMMA StutterInv == ASSUME RunInv, UNCHANGED vars PROVE RunInv'
<1>1. /\ UNCHANGED harnessVars /\ UNCHANGED <<inst, pending, trouble>>
  BY DEF vars, harnessVars, cluster
<1>2. ClusterStep
  <2>1. \A i \in Fresh : ~Own(i)'
    BY <1>1 DEF Fresh, Own, Alive, Unused
  <2> QED BY <1>1, <2>1, SameCluster DEF ClusterStep, RunInv, TypeOK
<1> QED BY <1>2, ClusterInv

-----------------------------------------------------------------------------
(* A run *)

LEMMA InitInv == ASSUME Init PROVE RunInv
<1>1. /\ opts \in [reuse : BOOLEAN, retain : BOOLEAN, evict : BOOLEAN]
      /\ inst \in [Ids -> {Unused}
                       \cup [model : Models, owner : {"operator"},
                             state : {"live"}, late : {FALSE}]]
      /\ pending = [m \in Models |-> 0]
      /\ pc = "next" /\ cur = 0 /\ retrying = FALSE /\ deferred = {}
      /\ before = NoId /\ protected = {} /\ placement = NoPlacement
      /\ placed = FALSE
      /\ interrupted = FALSE /\ aborted = FALSE
      /\ targets = {} /\ clean = FALSE
      /\ issues = [m \in Models |-> {}] /\ results = {} /\ evicted = {}
      /\ trouble = 0
  BY DEF Init
<1>2. Models \subseteq Nat \ {0}
  BY DEF Models
<1>a. \A i \in Ids : inst[i] \in {Unused}
        \cup [model : Models, owner : {"operator"}, state : {"live"}, late : {FALSE}]
  BY <1>1
<1>3. \A i \in Ids : inst[i].owner # "harness"
  <2>1. Unused.owner # "harness"
    BY DEF Unused
  <2>2. ASSUME NEW i \in Ids PROVE inst[i].owner # "harness"
    <3>1. inst[i] = Unused \/ inst[i].owner = "operator"
      BY <1>a, <2>2
    <3> QED BY <2>1, <3>1
  <2> QED BY <2>2
<1>4. \A m \in Models : ~Open(m)
  BY <1>1, <1>3 DEF Open, Ours
<1>5. TypeOK
  <2>1. inst \in [Ids -> Instances]
    <3>1. \A i \in Ids : inst[i] \in Instances
      BY <1>a DEF Instances
    <3> QED BY <1>1, <3>1
  <2>2. pending \in [Models -> Nat] /\ issues \in [Models -> SUBSET Kinds]
    BY <1>1
  <2>3. placement \in [got : BOOLEAN, made : BOOLEAN, id : Ids \cup {NoId},
                       ready : BOOLEAN]
    BY <1>1 DEF NoPlacement
  <2>4. trouble \in 0..MaxTrouble
    BY <1>1, RunAssumption
  <2> QED BY <1>1, <2>1, <2>2, <2>3, <2>4 DEF TypeOK
<1>6. Boundary
  BY <1>1, RunAssumption DEF Boundary, NoPlacement
<1>7. Placed
  BY <1>1 DEF Placed, OperatorKept
<1>8. Telling
  <2>1. \A m \in Models : ~(m < cur \/ (m = cur /\ pc = "next"))
    BY <1>1, <1>2
  <2> QED BY <1>1, <2>1 DEF Telling, AccountedFor
<1>9. Owning
  BY <1>1, <1>4 DEF Owning
<1>10. Accounted
  BY <1>3 DEF Accounted, Own
<1>11. Evicting
  BY <1>1 DEF Evicting
<1> QED BY <1>5, <1>6, <1>7, <1>8, <1>9, <1>10, <1>11 DEF RunInv

-----------------------------------------------------------------------------

LEMMA RunStep == ASSUME RunInv, [Next]_vars PROVE RunInv'
<1>1. ASSUME Placing \/ Begin \/ Turn PROVE RunInv'
  BY <1>1, BeginInv, TurnInv, SnapshotInv, PrepareInv, ExistingInv, PreviewInv,
     RequestInv, WaitInv DEF Placing
<1>2. ASSUME Judge \/ Test \/ Finally \/ Sweep \/ Delete \/ Deleted \/ Evict \/ End
      PROVE  RunInv'
  BY <1>2, JudgeInv, TestInv, FinallyInv, SweepInv, DeleteInv, DeletedInv,
     EvictInv, EndInv
<1>3. ASSUME Cluster PROVE RunInv'
  BY <1>3, AppearInv, OperatorPlacesInv, MoveInv DEF Cluster
<1> QED BY <1>1, <1>2, <1>3, InterruptInv, StutterInv DEF Next, Harness

\* Whatever the cluster, its operators, the API and the process do during a
\* run, the lifecycle of every model keeps to its ownership boundary and to
\* what its report owes (_run_model_lifecycle).
THEOREM RunInvariant == Spec => []RunInv
<1> QED BY InitInv, RunStep, PTL DEF Spec

\* Every variable of a run keeps its type.
THEOREM RunTyped == Spec => []TypeOK
<1>1. RunInv => TypeOK
  BY DEF RunInv
<1> QED BY <1>1, RunInvariant, PTL

\* The teardown deletes nothing that was there when the lifecycle began
\* (the finally of _run_model_lifecycle).
THEOREM OperatorsKept == Spec => []OperatorKept
<1>1. RunInv => OperatorKept
  BY DEF RunInv, Placed
<1> QED BY <1>1, RunInvariant, PTL

\* When execute returns, the report has a result or an issue of every model,
\* whatever the deferred retry cleared (_clear_deferred_placement_issues).
THEOREM ModelsAccountedFor == Spec => []AccountedFor
<1>1. RunInv => AccountedFor
  BY DEF RunInv, Telling
<1> QED BY <1>1, RunInvariant, PTL

\* What the harness leaves behind of a model has an issue in the report, also
\* when a placement whose answer was lost appears after all.
THEOREM LeaksExplained == Spec => []LeakExplained
<1>1. RunInv => LeakExplained
  BY DEF RunInv, LeakExplained, Accounted, Lasting
<1> QED BY <1>1, RunInvariant, PTL

\* Weights are removed only behind the teardown of all that the lifecycle made
\* (_maybe_evict_after_lifecycle).
THEOREM EvictionIsIdle == Spec => EvictedIsIdle
<1>1. ASSUME RunInv, [Next]_vars
      PROVE  [\A m \in evicted' \ evicted :
                ~opts.retain /\ \A i \in Serving(m) : Own(i) => i \in Kept]_vars
  <2>1. CASE Evict
    <3>1. pc = "evict" /\ evicted' \subseteq evicted \cup {cur}
      BY <2>1 DEF Evict
    <3>2. ~opts.retain
      BY <1>1, <3>1 DEF RunInv, Placed, MustTearDown
    <3>3. \A i \in Ids : Own(i) /\ inst[i].model = cur => i \in Kept
      BY <1>1, <3>1 DEF RunInv, Evicting
    <3> QED BY <3>1, <3>2, <3>3 DEF Serving
  <2>2. CASE ~Evict
    <3>1. UNCHANGED evicted
      <4>1. Placing => UNCHANGED evicted
        BY DEF Placing, Snapshot, Prepare, Existing, Preview, Request, Wait,
               Crash, Goto, Refuse
      <4>2. Begin \/ Turn \/ Judge \/ Test => UNCHANGED evicted
        BY DEF Begin, Turn, Judge, Test, Crash, Goto
      <4>3. Finally \/ Sweep \/ Delete \/ Deleted \/ End => UNCHANGED evicted
        BY DEF Finally, Sweep, Delete, Deleted, End
      <4>4. Cluster \/ Interrupt => UNCHANGED evicted
        BY DEF Cluster, Appear, OperatorPlaces, Move, Interrupt, harnessVars
      <4> QED BY <1>1, <2>2, <4>1, <4>2, <4>3, <4>4 DEF Next, Harness, vars
    <3> QED BY <3>1
  <2> QED BY <2>1, <2>2
<1> QED BY <1>1, RunInvariant, PTL DEF Spec, EvictedIsIdle

=============================================================================
