------------------------------ MODULE TestProofs ------------------------------
(***************************************************************************)
(* Proofs about the tests and the stability suites: for any number of      *)
(* workers, requests, nodes, owners, turns, models, words and hosts, what  *)
(* passes has its evidence, what is healthy is not failed, and what was    *)
(* there before stays.                                                     *)
(***************************************************************************)
EXTENDS ConcurrentTest, DataPlaneTest, RealtimeTest, SpeechModels, RequestTests,
        StabilitySuites, FiniteSetTheorems, SequenceTheorems, WellFoundedInduction, TLAPS

-----------------------------------------------------------------------------
(* Least elements *)

\* A set of natural numbers has a least one.
LEMMA LeastOne ==
    ASSUME NEW s, s \subseteq Nat, s # {}
    PROVE  Min(s) \in s /\ \A n \in s : Min(s) <= n
<1>1. \E n \in s : \A k \in s : ~(<<k, n>> \in OpToRel(<, Nat))
      BY NatLessThanWellFounded, WFMin
<1>2. PICK n \in s : \A k \in s : ~(<<k, n>> \in OpToRel(<, Nat))
      BY <1>1
<1>3. \A k \in Nat : <<k, n>> \in OpToRel(<, Nat) <=> k < n
      BY <1>2 DEF OpToRel
<1>4. \A k \in s : n <= k
  <2> TAKE k \in s
  <2>1. k \in Nat /\ n \in Nat
        BY <1>2
  <2>2. ~(k < n)
        BY <1>2, <1>3, <2>1
  <2> QED BY <2>1, <2>2
<1> QED BY <1>4 DEF Min

-----------------------------------------------------------------------------
(* The concurrent test *)

LoadSteps == {"driving", "loadVerdict"}
Samples == [text : BOOLEAN, good : BOOLEAN, told : BOOLEAN]

LoadTypeOK ==
    /\ load \in Loads
    /\ task \in [Workers -> {"ready", "admitted", "stopped"}]
    /\ samples \in [Workers -> Seq(Samples)]
    /\ overlap \in Nat /\ loadFaults \in Nat

\* The record of a worker at a place.
At(w, i) == w \in Workers /\ i \in 1..Len(samples[w])

\* No worker has more records than requests, one that is admitted has room for
\* its record, and one that stopped left a fault.  A record is good with a text
\* and the provenance that the endpoint tells, and the faults are those that
\* some record shows.
LoadInv ==
    /\ LoadTypeOK
    /\ pc \notin LoadSteps => LoadIdle
    /\ \A w \in Workers : /\ Len(samples[w]) <= PerWorker
                          /\ task[w] = "admitted" => Len(samples[w]) < PerWorker
                          /\ task[w] = "stopped" => loadFaults > 0
    /\ \A w, i : At(w, i) /\ samples[w][i].good =>
          /\ samples[w][i].text
          /\ samples[w][i].told <=> load.batched /\ load.runner # "silent"
    /\ loadFaults > 0 <=> \E w, i : At(w, i) /\ ~samples[w][i].good
    /\ pc = "loadVerdict" => load.mocks \/ \A w \in Workers : Ended(w)

LEMMA LoadInit == LoadIdle /\ pc = "idle" => LoadInv
<1> SUFFICES ASSUME LoadIdle, pc = "idle" PROVE LoadInv
    OBVIOUS
<1>1. /\ load = NoLoad /\ overlap = 0 /\ loadFaults = 0
      /\ task = [w \in Workers |-> "ready"]
      /\ samples = [w \in Workers |-> <<>>]
      BY DEF LoadIdle
<1>2. LoadTypeOK
      BY <1>1 DEF LoadTypeOK, Loads, NoLoad
<1>3. \A w, i : ~At(w, i)
      BY <1>1 DEF At
<1> QED BY <1>1, <1>2, <1>3, LoadAssumption DEF LoadInv, LoadSteps

\* A worker has one more record.
LEMMA SampleAdded ==
    ASSUME LoadInv, NEW w \in Workers, NEW s \in Samples, Len(samples[w]) < PerWorker,
           samples' = [samples EXCEPT ![w] = Append(@, s)]
    PROVE  /\ samples' \in [Workers -> Seq(Samples)]
           /\ Len(samples'[w]) = Len(samples[w]) + 1
           /\ \A v \in Workers : v # w => samples'[v] = samples[v]
           /\ \A v, i : At(v, i)' <=> At(v, i) \/ (v = w /\ i = Len(samples[w]) + 1)
           /\ \A v, i : At(v, i) => samples'[v][i] = samples[v][i]
           /\ samples'[w][Len(samples[w]) + 1] = s
<1>1. samples[w] \in Seq(Samples) /\ samples \in [Workers -> Seq(Samples)]
      BY DEF LoadInv, LoadTypeOK
<1>2. samples'[w] = Append(samples[w], s) /\ \A v \in Workers : v # w => samples'[v] = samples[v]
      BY <1>1
<1>3. /\ Append(samples[w], s) \in Seq(Samples)
      /\ Len(Append(samples[w], s)) = Len(samples[w]) + 1
      /\ \A i \in 1..Len(samples[w]) : Append(samples[w], s)[i] = samples[w][i]
      /\ Append(samples[w], s)[Len(samples[w]) + 1] = s
      /\ Len(samples[w]) \in Nat
      BY <1>1
<1>4. samples' \in [Workers -> Seq(Samples)]
      BY <1>1, <1>3
<1> QED BY <1>2, <1>3, <1>4 DEF At

LEMMA StartLoadKeeps == LoadInv /\ StartLoad => LoadInv'
<1> SUFFICES ASSUME LoadInv, StartLoad PROVE LoadInv'
    OBVIOUS
<1>1. /\ LoadIdle /\ load' \in Loads /\ UNCHANGED <<task, samples, overlap, loadFaults>>
      /\ pc' = IF load'.mocks THEN "loadVerdict" ELSE "driving"
      BY DEF StartLoad, LoadInv, LoadSteps
<1>2. \A w, i : ~At(w, i)'
      BY <1>1 DEF LoadIdle, At
<1> QED BY <1>1, <1>2, LoadAssumption DEF LoadInv, LoadTypeOK, LoadSteps, LoadIdle

LEMMA AdmitKeeps == ASSUME LoadInv, NEW w \in Workers, Admit(w) PROVE LoadInv'
<1>1. /\ pc = "driving" /\ UNCHANGED <<pc, load, samples, loadFaults>>
      /\ task[w] = "ready" /\ Len(samples[w]) < PerWorker
      /\ task' = [task EXCEPT ![w] = "admitted"]
      BY DEF Admit, Going
<1>2. overlap' \in Nat
  <2>1. IsFiniteSet(InFlight)
        BY LoadAssumption, FS_Subset DEF InFlight
  <2> QED BY <2>1, FS_CardinalityType DEF Admit, LoadInv, LoadTypeOK
<1>3. \A v, i : At(v, i)' <=> At(v, i)
      BY <1>1 DEF At
<1> QED BY <1>1, <1>2, <1>3 DEF LoadInv, LoadTypeOK, LoadSteps

LEMMA AnswerKeeps == ASSUME LoadInv, NEW w \in Workers, Answer(w) PROVE LoadInv'
<1>1. PICK good \in BOOLEAN :
         /\ loadFaults' = IF good THEN loadFaults ELSE loadFaults + 1
         /\ samples' = [samples EXCEPT ![w] = Append(@,
               [text |-> TRUE, good |-> good,
                told |-> load.batched /\ load.runner # "silent"])]
      BY DEF Answer
<1> DEFINE s == [text |-> TRUE, good |-> good,
                 told |-> load.batched /\ load.runner # "silent"]
<1>2. /\ pc = "driving" /\ UNCHANGED <<pc, load, overlap>>
      /\ task[w] = "admitted" /\ task' = [task EXCEPT ![w] = "ready"]
      /\ Len(samples[w]) < PerWorker
      BY DEF Answer, Going, LoadInv
<1>3. s \in Samples
      BY DEF Samples, LoadInv, LoadTypeOK, Loads
<1>4. /\ s.good <=> good
      /\ s.text
      /\ s.told <=> load.batched /\ load.runner # "silent"
      OBVIOUS
<1>5. samples' = [samples EXCEPT ![w] = Append(@, s)]
      BY <1>1
<1> HIDE DEF s
<1>6. /\ samples' \in [Workers -> Seq(Samples)]
      /\ Len(samples'[w]) = Len(samples[w]) + 1
      /\ \A v \in Workers : v # w => samples'[v] = samples[v]
      /\ \A v, i : At(v, i)' <=> At(v, i) \/ (v = w /\ i = Len(samples[w]) + 1)
      /\ \A v, i : At(v, i) => samples'[v][i] = samples[v][i]
      /\ samples'[w][Len(samples[w]) + 1] = s
      BY <1>2, <1>3, <1>5, SampleAdded
<1>7. LoadTypeOK' /\ Len(samples[w]) \in Nat
      BY <1>1, <1>2, <1>6 DEF LoadInv, LoadTypeOK
<1>8. \A v \in Workers : /\ Len(samples'[v]) <= PerWorker
                         /\ task'[v] = "admitted" => Len(samples'[v]) < PerWorker
                         /\ task'[v] = "stopped" => loadFaults' > 0
      BY <1>1, <1>2, <1>6, <1>7, LoadAssumption DEF LoadInv, LoadTypeOK
<1>9. \A v, i : At(v, i)' /\ samples'[v][i].good =>
          /\ samples'[v][i].text
          /\ samples'[v][i].told <=> load'.batched /\ load'.runner # "silent"
      BY <1>2, <1>4, <1>6 DEF LoadInv
<1>10. loadFaults' > 0 <=> \E v, i : At(v, i)' /\ ~samples'[v][i].good
  <2>1. CASE good
    <3>1. s.good /\ loadFaults' = loadFaults
          BY <1>1, <1>4, <2>1
    <3>2. \A v, i : At(v, i)' /\ ~samples'[v][i].good => At(v, i) /\ ~samples[v][i].good
          BY <1>6, <3>1
    <3>3. \A v, i : At(v, i) /\ ~samples[v][i].good => At(v, i)' /\ ~samples'[v][i].good
          BY <1>6
    <3> QED BY <3>1, <3>2, <3>3 DEF LoadInv
  <2>2. CASE ~good
    <3>1. loadFaults' > 0
          BY <1>1, <2>2 DEF LoadInv, LoadTypeOK
    <3>2. \E i : At(w, i)' /\ ~samples'[w][i].good
          BY <1>2, <1>4, <1>6, <2>2
    <3> QED BY <3>1, <3>2
  <2> QED BY <2>1, <2>2
<1> QED BY <1>2, <1>7, <1>8, <1>9, <1>10 DEF LoadInv, LoadSteps

LEMMA FailKeeps == ASSUME LoadInv, NEW w \in Workers, Fail(w) PROVE LoadInv'
<1>1. /\ pc = "driving" /\ UNCHANGED <<pc, load, overlap>>
      /\ task[w] = "admitted" /\ Len(samples[w]) < PerWorker
      /\ task' \in {[task EXCEPT ![w] = state] : state \in {"ready", "stopped"}}
      /\ samples' = [samples EXCEPT ![w] = Append(@, Failure)]
      /\ loadFaults' = loadFaults + 1 /\ loadFaults \in Nat
      BY DEF Fail, Going, LoadInv, LoadTypeOK
<1>2. Failure \in Samples /\ ~Failure.good
      BY DEF Failure, Samples
<1>3. /\ samples' \in [Workers -> Seq(Samples)]
      /\ Len(samples'[w]) = Len(samples[w]) + 1
      /\ \A v \in Workers : v # w => samples'[v] = samples[v]
      /\ \A v, i : At(v, i)' <=> At(v, i) \/ (v = w /\ i = Len(samples[w]) + 1)
      /\ \A v, i : At(v, i) => samples'[v][i] = samples[v][i]
      /\ samples'[w][Len(samples[w]) + 1] = Failure
      BY <1>1, <1>2, SampleAdded
<1>4. task' \in [Workers -> {"ready", "admitted", "stopped"}] /\ task'[w] # "admitted"
      /\ \A v \in Workers : v # w => task'[v] = task[v]
      BY <1>1 DEF LoadInv, LoadTypeOK
<1>5. LoadTypeOK' /\ Len(samples[w]) \in Nat
      BY <1>1, <1>3, <1>4 DEF LoadInv, LoadTypeOK
<1>6. \A v \in Workers : /\ Len(samples'[v]) <= PerWorker
                         /\ task'[v] = "admitted" => Len(samples'[v]) < PerWorker
                         /\ task'[v] = "stopped" => loadFaults' > 0
      BY <1>1, <1>3, <1>4, <1>5, LoadAssumption DEF LoadInv
<1>7. \A v, i : At(v, i)' /\ samples'[v][i].good =>
          /\ samples'[v][i].text
          /\ samples'[v][i].told <=> load'.batched /\ load'.runner # "silent"
  <2> SUFFICES ASSUME NEW v, NEW i, At(v, i)', samples'[v][i].good
               PROVE  /\ samples'[v][i].text
                      /\ samples'[v][i].told <=> load'.batched /\ load'.runner # "silent"
      OBVIOUS
  <2>1. At(v, i) /\ samples'[v][i] = samples[v][i]
        BY <1>2, <1>3
  <2> QED BY <1>1, <2>1 DEF LoadInv
<1>8. loadFaults' > 0 /\ \E v, i : At(v, i)' /\ ~samples'[v][i].good
  <2>1. \E i : At(w, i)' /\ ~samples'[w][i].good
        BY <1>2, <1>3
  <2>2. loadFaults' > 0
        BY <1>1
  <2> QED BY <2>1, <2>2
<1> QED BY <1>1, <1>5, <1>6, <1>7, <1>8 DEF LoadInv, LoadSteps

LEMMA LoseKeeps == ASSUME LoadInv, NEW w \in Workers, Lose(w) PROVE LoadInv'
<1>1. /\ pc = "driving" /\ UNCHANGED <<pc, load, overlap>>
      /\ task' = [task EXCEPT ![w] = "stopped"]
      /\ samples' = [samples EXCEPT ![w] = <<Failure>>]
      /\ loadFaults' = loadFaults + 1 /\ loadFaults \in Nat
      BY DEF Lose, Going, LoadInv, LoadTypeOK
<1>2. Failure \in Samples /\ ~Failure.good
      BY DEF Failure, Samples
<1>3. <<Failure>> \in Seq(Samples) /\ Len(<<Failure>>) = 1 /\ <<Failure>>[1] = Failure
      BY <1>2
<1>4. /\ samples' \in [Workers -> Seq(Samples)]
      /\ samples'[w] = <<Failure>> /\ Len(samples'[w]) = 1
      /\ \A v \in Workers : v # w => samples'[v] = samples[v] /\ task'[v] = task[v]
      /\ task' \in [Workers -> {"ready", "admitted", "stopped"}] /\ task'[w] = "stopped"
      BY <1>1, <1>3 DEF LoadInv, LoadTypeOK
<1>5. LoadTypeOK'
      BY <1>1, <1>4 DEF LoadInv, LoadTypeOK
<1>6. \A v, i : At(v, i)' <=> (v # w /\ At(v, i)) \/ (v = w /\ i = 1)
  <2>1. \A i : i \in 1..1 <=> i = 1
        OBVIOUS
  <2> QED BY <1>4, <2>1 DEF At
<1>7. \A v \in Workers : /\ Len(samples'[v]) <= PerWorker
                         /\ task'[v] = "admitted" => Len(samples'[v]) < PerWorker
                         /\ task'[v] = "stopped" => loadFaults' > 0
      BY <1>1, <1>3, <1>4, LoadAssumption DEF LoadInv
<1>8. \A v, i : At(v, i)' /\ samples'[v][i].good =>
          /\ samples'[v][i].text
          /\ samples'[v][i].told <=> load'.batched /\ load'.runner # "silent"
  <2> SUFFICES ASSUME NEW v, NEW i, At(v, i)', samples'[v][i].good
               PROVE  /\ samples'[v][i].text
                      /\ samples'[v][i].told <=> load'.batched /\ load'.runner # "silent"
      OBVIOUS
  <2>1. v # w /\ At(v, i) /\ v \in Workers
        BY <1>2, <1>3, <1>4, <1>6 DEF At
  <2> QED BY <1>1, <1>4, <2>1 DEF LoadInv
<1>9. loadFaults' > 0 /\ \E v, i : At(v, i)' /\ ~samples'[v][i].good
  <2>1. At(w, 1)' /\ ~samples'[w][1].good
        BY <1>2, <1>3, <1>4, <1>6
  <2> QED BY <1>1, <2>1
<1> QED BY <1>1, <1>5, <1>7, <1>8, <1>9 DEF LoadInv, LoadSteps

LEMMA LoadStep == LoadInv /\ [LoadNext]_<<pc, loadVars>> => LoadInv'
<1> SUFFICES ASSUME LoadInv, [LoadNext]_<<pc, loadVars>> PROVE LoadInv'
    OBVIOUS
<1>1. ASSUME UNCHANGED loadVars,
             \/ UNCHANGED pc
             \/ Gather
      PROVE  LoadInv'
  <2>1. UNCHANGED <<load, task, samples, overlap, loadFaults>>
        BY <1>1 DEF loadVars
  <2>2. \A v, i : At(v, i)' <=> At(v, i)
        BY <2>1 DEF At
  <2>3. LoadTypeOK' /\ (LoadIdle => LoadIdle')
        BY <2>1 DEF LoadInv, LoadTypeOK, LoadIdle
  <2>4. pc' = "loadVerdict" => load'.mocks \/ \A w \in Workers : Ended(w)'
        BY <1>1, <2>1 DEF LoadInv, Gather, Ended
  <2>5. pc' \notin LoadSteps => pc \notin LoadSteps
        BY <1>1 DEF Gather, LoadSteps
  <2> QED BY <2>1, <2>2, <2>3, <2>4, <2>5 DEF LoadInv
<1>2. CASE FinishLoad
  <2>1. LoadIdle' /\ pc' = "idle"
        BY <1>2 DEF FinishLoad, LoadIdle
  <2>2. /\ load' = NoLoad /\ overlap' = 0 /\ loadFaults' = 0
        /\ task' = [w \in Workers |-> "ready"]
        /\ samples' = [w \in Workers |-> <<>>]
        BY <2>1 DEF LoadIdle
  <2>3. LoadTypeOK'
        BY <2>2 DEF LoadTypeOK, Loads, NoLoad
  <2>4. \A w, i : ~At(w, i)'
        BY <2>2 DEF At
  <2> QED BY <2>1, <2>2, <2>3, <2>4, LoadAssumption DEF LoadInv, LoadSteps
<1>3. Gather => UNCHANGED loadVars
      BY DEF Gather
<1> QED BY <1>1, <1>2, <1>3, StartLoadKeeps, AdmitKeeps, AnswerKeeps, FailKeeps, LoseKeeps
        DEF LoadNext

-----------------------------------------------------------------------------

\* Good and bad records partition the requests that left one.
LEMMA Tallied ==
    ASSUME LoadInv
    PROVE  /\ Total \in Nat /\ Total > 0
           /\ Succeeded \in Nat /\ Rejections \in Nat /\ Dropped \in Nat /\ Reporting \in Nat
           /\ Succeeded + Rejections + Dropped = Total
           /\ Rejections = 0 <=> \A r \in Records : Rec(r).good
           /\ Dropped = 0 <=> Records = Workers \X (1..PerWorker)
           /\ Reporting = Succeeded <=> \A r \in Records : Rec(r).good => Rec(r).told
           /\ Reporting > 0 <=> \E r \in Records : Rec(r).good /\ Rec(r).told
           /\ Cardinality(Workers) \in Nat /\ Cardinality(Workers) > 0
<1> DEFINE all  == Workers \X (1..PerWorker)
           good == {r \in Records : Rec(r).good}
           bad  == {r \in Records : ~Rec(r).good}
           told == {r \in Records : Rec(r).good /\ Rec(r).told}
<1>1. IsFiniteSet(1..PerWorker) /\ Cardinality(1..PerWorker) = PerWorker
      BY LoadAssumption, FS_Interval
<1>2. IsFiniteSet(all) /\ Cardinality(all) = Total
      BY <1>1, LoadAssumption, FS_Product DEF Total
<1>3. Cardinality(Workers) \in Nat /\ Cardinality(Workers) > 0
  <2>1. Cardinality(Workers) \in Nat /\ Cardinality(Workers) # 0
        BY LoadAssumption, FS_CardinalityType, FS_EmptySet
  <2> QED BY <2>1
<1>4. Total \in Nat /\ Total > 0
      BY <1>3, LoadAssumption DEF Total
<1>5. Records \subseteq all
      BY DEF Records
<1>6. /\ IsFiniteSet(Records) /\ Cardinality(Records) \in Nat
      /\ Cardinality(Records) <= Total
      /\ Cardinality(Records) = Total <=> Records = all
      BY <1>2, <1>5, FS_Subset, FS_CardinalityType
<1>7. /\ good \subseteq Records /\ bad \subseteq Records /\ told \subseteq good
      /\ good \cup bad = Records /\ good \cap bad = {}
      OBVIOUS
<1>8. /\ IsFiniteSet(good) /\ IsFiniteSet(bad) /\ IsFiniteSet(told)
      /\ Cardinality(good) \in Nat /\ Cardinality(bad) \in Nat /\ Cardinality(told) \in Nat
  <2>1. IsFiniteSet(good) /\ IsFiniteSet(bad)
        BY <1>6, <1>7, FS_Subset
  <2>2. IsFiniteSet(told)
        BY <2>1, <1>7, FS_Subset
  <2> QED BY <2>1, <2>2, FS_CardinalityType
<1>9. Cardinality(Records) = Cardinality(good) + Cardinality(bad)
  <2> HIDE DEF good, bad
  <2>1. Cardinality(good \cup bad) = Cardinality(good) + Cardinality(bad) - Cardinality(good \cap bad)
        BY <1>8, FS_Union
  <2>2. Cardinality(good \cap bad) = 0
        BY <1>7, FS_EmptySet
  <2>3. Cardinality(good \cup bad) = Cardinality(Records)
        BY <1>7
  <2> QED BY <1>8, <2>1, <2>2, <2>3
<1>10. /\ Cardinality(bad) = 0 <=> bad = {}
       /\ Cardinality(told) = 0 <=> told = {}
       /\ Cardinality(told) = Cardinality(good) <=> told = good
       BY <1>7, <1>8, FS_EmptySet, FS_Subset
<1>11. /\ Succeeded = Cardinality(good) /\ Rejections = Cardinality(bad)
       /\ Reporting = Cardinality(told) /\ Dropped = Total - Cardinality(Records)
       BY DEF Succeeded, Rejections, Reporting, Dropped
<1>12. bad = {} <=> \A r \in Records : Rec(r).good
       OBVIOUS
<1>13. told = good <=> \A r \in Records : Rec(r).good => Rec(r).told
       OBVIOUS
<1>14. told = {} <=> ~\E r \in Records : Rec(r).good /\ Rec(r).told
       OBVIOUS
<1> HIDE DEF good, bad, told, all
<1> QED BY <1>3, <1>4, <1>6, <1>8, <1>9, <1>10, <1>11, <1>12, <1>13, <1>14 DEF all

\* What the records say, in terms of the faults.
LEMMA Recorded ==
    ASSUME LoadInv, pc = "loadVerdict", ~load.mocks
    PROVE  /\ loadFaults = 0 <=> \A r \in Records : Rec(r).good
           /\ loadFaults = 0 => Records = Workers \X (1..PerWorker)
           /\ \A r \in Records : Rec(r).good =>
                 /\ Rec(r).text
                 /\ Rec(r).told <=> load.batched /\ load.runner # "silent"
<1>1. \A w \in Workers : Len(samples[w]) \in Nat /\ Len(samples[w]) <= PerWorker
      BY DEF LoadInv, LoadTypeOK
<1>2. \A w, i : At(w, i) <=> <<w, i>> \in Records
      BY <1>1, LoadAssumption DEF At, Records
<1>3. \A r \in Records : At(r[1], r[2]) /\ Rec(r) = samples[r[1]][r[2]] /\ r = <<r[1], r[2]>>
      BY <1>2 DEF Records, Rec
<1>4. \A w, i : Rec(<<w, i>>) = samples[w][i]
      BY DEF Rec
<1>5. loadFaults = 0 <=> \A r \in Records : Rec(r).good
  <2>1. ASSUME NEW w, NEW i, At(w, i), ~samples[w][i].good
        PROVE  \E r \in Records : ~Rec(r).good
    <3>1. <<w, i>> \in Records /\ ~Rec(<<w, i>>).good
          BY <1>2, <1>4, <2>1
    <3> QED BY <3>1
  <2>2. ASSUME NEW r \in Records, ~Rec(r).good
        PROVE  \E w, i : At(w, i) /\ ~samples[w][i].good
    <3>1. At(r[1], r[2]) /\ ~samples[r[1]][r[2]].good
          BY <1>3, <2>2
    <3> QED BY <3>1
  <2>3. loadFaults \in Nat /\ (loadFaults > 0 <=> \E w, i : At(w, i) /\ ~samples[w][i].good)
        BY DEF LoadInv, LoadTypeOK
  <2> QED BY <2>1, <2>2, <2>3
<1>6. ASSUME loadFaults = 0 PROVE Records = Workers \X (1..PerWorker)
  <2>1. \A w \in Workers : Len(samples[w]) = PerWorker
        BY <1>6 DEF LoadInv, Ended
  <2> QED BY <2>1 DEF Records
<1> QED BY <1>3, <1>5, <1>6 DEF LoadInv

LEMMA VerdictFollows == LoadInv => LoadVerdict
<1> SUFFICES ASSUME LoadInv, pc = "loadVerdict"
             PROVE  Passed(TRUE) <=>
                       /\ loadFaults = 0 /\ ~load.mocks /\ load.baseline # "absent"
                       /\ load.batched =>
                             /\ load.runner = "batching"
                             /\ Cardinality(Workers) = 1 \/ overlap >= 2
    BY DEF LoadVerdict
<1>1. CASE load.mocks
      BY <1>1 DEF Passed
<1>2. CASE ~load.mocks
  <2>1. /\ load.runner \in {"batching", "sequential", "silent"}
        /\ load.baseline \in {"unasked", "absent", "measured"}
        /\ overlap \in Nat
        BY DEF LoadInv, LoadTypeOK, Loads
  <2>2. ASSUME Passed(TRUE)
        PROVE  /\ loadFaults = 0 /\ load.baseline # "absent"
               /\ load.batched =>
                     /\ load.runner = "batching"
                     /\ Cardinality(Workers) = 1 \/ overlap >= 2
    <3>1. /\ Failed = 0 /\ Succeeded = Total /\ BatchedAsRequired /\ Scaled(TRUE)
          BY <2>2 DEF Passed
    <3>2. Rejections = 0
          BY <1>2, <3>1, Tallied DEF Failed
    <3>3. loadFaults = 0
          BY <1>2, <3>2, Tallied, Recorded
    <3>4. load.baseline # "absent"
          BY <3>1 DEF Scaled
    <3>5. load.batched => load.runner = "batching"
          BY <3>1, Tallied DEF BatchedAsRequired, Batching
    <3>6. load.batched => Cardinality(Workers) = 1 \/ overlap >= 2
          BY <3>1, Tallied DEF BatchedAsRequired
    <3> QED BY <3>3, <3>4, <3>5, <3>6
  <2>3. ASSUME loadFaults = 0, load.baseline # "absent",
               load.batched =>
                  /\ load.runner = "batching"
                  /\ Cardinality(Workers) = 1 \/ overlap >= 2
        PROVE  Passed(TRUE)
    <3>1. /\ \A r \in Records : Rec(r).good
          /\ Records = Workers \X (1..PerWorker)
          /\ \A r \in Records :
                Rec(r).text /\ (Rec(r).told <=> load.batched /\ load.runner # "silent")
          BY <1>2, <2>3, Recorded
    <3>2. Rejections = 0 /\ Dropped = 0 /\ Succeeded = Total
          BY <3>1, Tallied
    <3>3. \E r \in Records : Rec(r).text
      <4>1. 1 \in 1..PerWorker /\ Workers # {}
            BY LoadAssumption
      <4>2. PICK w \in Workers : TRUE
            BY <4>1
      <4>3. <<w, 1>> \in Records
            BY <3>1, <4>1
      <4> QED BY <3>1, <4>3
    <3>4. BatchedAsRequired
      <4>1. load.batched => \A r \in Records : Rec(r).told
            BY <2>3, <3>1
      <4>2. load.batched => Reporting = Succeeded /\ Batching = Reporting
            BY <2>3, <4>1, Tallied DEF Batching
      <4>3. load.batched => Reporting > 0
            BY <3>2, <4>2, Tallied
      <4> QED BY <2>3, <4>2, <4>3 DEF BatchedAsRequired
    <3>5. Scaled(TRUE)
          BY <2>1, <2>3, <3>3 DEF Scaled
    <3>6. Failed = 0
          BY <3>2 DEF Failed
    <3> QED BY <1>2, <3>2, <3>4, <3>5, <3>6 DEF Passed
  <2> QED BY <1>2, <2>2, <2>3
<1> QED BY <1>1, <1>2

\* Every record shows what happened to its request, and the faults are those
\* that some record shows (_drive_concurrent_requests).
THEOREM LoadInvariant == LoadSpec => []LoadInv
<1> QED BY LoadInit, LoadStep, PTL DEF LoadSpec

\* A concurrent test of any size passes only the runs in which no request
\* failed and, where batching is asked for, requests met in a batching runner;
\* and it passes all of these (_run_concurrent_test).
THEOREM LoadJudged == LoadSpec => []LoadVerdict
<1> QED BY LoadInvariant, VerdictFollows, PTL

-----------------------------------------------------------------------------
(* The tests of the data plane *)

Tallies == [local : Nat, queued : Nat, sent : Nat, closed : Nat, bad : Nat]
DataTail == DataSteps \cup {"dataVerdict"}

DataTypeOK ==
    /\ plan \in [kind : {"vision", "pressure"}, near : BOOLEAN, diag : BOOLEAN]
    /\ plan.kind = "vision" => plan.near /\ plan.diag
    /\ serving \subseteq Nodes /\ serving # {} /\ reach \subseteq Nodes
    /\ tally \in [Nodes -> Tallies]
    /\ stream \in [Streams -> [state : {"none", "open", "published", "closed", "lost"},
                               from : Nat, to : SUBSET Nodes]]
    /\ reply \in [Streams -> {"none", "sent", "good", "short", "failed"}]
    /\ dataFaults \in Nat

Began(r) == stream[r].state # "none"

\* The owners differ, and what is watched includes them and every sink.
Chosen ==
    /\ owners.near \in watched /\ owners.far \in watched /\ owners.near # owners.far
    /\ watched \subseteq Nodes
    /\ plan.kind = "pressure" => watched = {owners.near, owners.far}
    /\ plan.kind = "vision" /\ pc # "watch" =>
          /\ sinksSeen # {} /\ sinksSeen \subseteq watched
          /\ dataFaults = 0 => sinksSeen = FirstServing
    /\ plan.near /\ dataFaults = 0 =>
          /\ owners.near = Min(FirstServing) /\ owners.near \in FirstServing
          /\ owners.far \notin FirstServing

\* A request has a stream once it is sent, between its owner and the model.
Matched ==
    /\ \A r \in Requests :
          /\ reply[r] # "none" => r \in Planned /\ pc \in {"work", "settle", "dataVerdict"}
          /\ reply[r] \in {"sent", "good", "short"} => Began(r)
          /\ Began(r) => /\ reply[r] # "none" /\ stream[r].from \in Nodes
                         /\ plan.kind = "vision" => stream[r].from = OwnerOf(r)
                         /\ plan.kind = "pressure" => stream[r].to = {OwnerOf(r)}
    /\ stream[Stale].state # "open" /\ reply[Stale] = "none"

\* A cluster in which nothing went wrong is as it was, and lost no stream.
Faultless ==
    /\ serving = FirstServing /\ reach = Nodes
    /\ \A r \in Requests :
          /\ reply[r] \in {"none", "sent", "good"} /\ stream[r].state # "lost"
          /\ Began(r) => /\ plan.kind = "vision" => stream[r].to = FirstServing
                         /\ plan.kind = "pressure" => stream[r].from = Min(FirstServing)
    /\ pc # "dataVerdict" => issues = {}

ClosedAt(n) == {r \in Planned : stream[r].state = "closed" /\ n \in stream[r].to}

\* What the counters of a node claim beyond the first snapshot, did happen.
Honest(n) ==
    /\ tally[n].closed <= before[n].count.closed + Cardinality(ClosedAt(n))
    /\ tally[n].local > before[n].count.local =>
          \E r \in Planned : Began(r) /\ stream[r].from = n /\ n \in stream[r].to
    /\ tally[n].sent > before[n].count.sent =>
          \E r \in Planned : Began(r) /\ stream[r].from = n /\ stream[r].to \ {n} # {}

\* And without a fault, what happened was counted.
NothingMissed(n) ==
    /\ tally[n].closed = before[n].count.closed + Cardinality(ClosedAt(n))
    /\ tally[n].bad = before[n].count.bad
    /\ tally[n].local >= before[n].count.local
    /\ tally[n].queued >= before[n].count.queued
    /\ tally[n].sent >= before[n].count.sent
    /\ \A r \in Planned : Began(r) /\ stream[r].from = n /\ n \in stream[r].to =>
          tally[n].local > before[n].count.local
    /\ \A r \in Planned :
          stream[r].state \in {"published", "closed"} /\ stream[r].from = n
             /\ stream[r].to \ {n} # {} => tally[n].sent > before[n].count.sent
    /\ plan.kind = "vision" /\ n = owners.far =>
          tally[n].queued - before[n].count.queued =
             (tally[n].sent - before[n].count.sent)
             + (IF stream[2].state = "open" THEN Cardinality(stream[2].to \ {n}) ELSE 0)

\* A first snapshot was taken, of owners that no old stream touches.
Snapped ==
    /\ before \in [watched -> [count : Tallies, live : BOOLEAN]]
    /\ \A n \in watched :
          /\ ~(Open(Stale) /\ Touches(Stale, n))
          /\ Honest(n)
          /\ dataFaults = 0 => NothingMissed(n)

DataInv ==
    /\ DataTypeOK
    /\ pc \notin DataTail => DataIdle
    /\ pc \in {"select", "watch", "baseline"} => before = NoSnapshot
    /\ pc = "watch" => plan.kind = "vision"
    /\ pc \in {"watch", "baseline", "work", "settle"} => Chosen
    /\ Matched
    /\ dataFaults = 0 => Faultless
    /\ pc \in {"work", "settle"} /\ before # NoSnapshot => Snapped
    /\ pc = "work" /\ issues = {} /\ plan.diag => before # NoSnapshot
    /\ pc = "settle" =>
          /\ before # NoSnapshot
          /\ \A r \in Planned : Answered(r) /\ (issues = {} => reply[r] = "good")
    /\ PassIsEvidence
    /\ FirstServing # Nodes => NoFalseAlarm

LEMMA DataSizes ==
    /\ Planned \subseteq Requests /\ Requests \subseteq Streams /\ Stale \notin Requests
    /\ Stale \in Streams /\ 1 \in Planned /\ 2 \in Planned
    /\ IsFiniteSet(Planned) /\ Cardinality(Planned) \in Nat /\ Nodes # {}
    /\ \A n : ClosedAt(n) \subseteq Planned
              /\ IsFiniteSet(ClosedAt(n)) /\ Cardinality(ClosedAt(n)) \in Nat
    /\ \A s : s \subseteq Nodes => Cardinality(s) \in Nat /\ (Cardinality(s) = 0 <=> s = {})
<1>1. Planned \subseteq Requests /\ 1 \in Planned /\ 2 \in Planned
      BY DataAssumption DEF Planned
<1>2. Stale \notin Requests /\ Requests \subseteq Streams /\ Stale \in Streams
      BY DataAssumption DEF Streams, Stale
<1>3. IsFiniteSet(Planned) /\ Cardinality(Planned) \in Nat
      BY <1>1, DataAssumption, FS_Subset, FS_CardinalityType
<1>4. ASSUME NEW n
      PROVE  ClosedAt(n) \subseteq Planned
             /\ IsFiniteSet(ClosedAt(n)) /\ Cardinality(ClosedAt(n)) \in Nat
  <2>1. ClosedAt(n) \subseteq Planned
        BY DEF ClosedAt
  <2> QED BY <1>3, <2>1, FS_Subset, FS_CardinalityType
<1>5. ASSUME NEW s, s \subseteq Nodes
      PROVE  Cardinality(s) \in Nat /\ (Cardinality(s) = 0 <=> s = {})
      BY <1>5, DataAssumption, FS_Subset, FS_CardinalityType, FS_EmptySet
<1>6. Nodes # {}
      BY DataAssumption
<1> QED BY <1>1, <1>2, <1>3, <1>4, <1>5, <1>6

LEMMA DataInit == DataIdle /\ pc = "idle" => DataInv
<1> SUFFICES ASSUME DataIdle, pc = "idle" PROVE DataInv
    OBVIOUS
<1>1. /\ plan = NoPlan /\ serving = FirstServing /\ reach = Nodes /\ dataFaults = 0
      /\ tally = [n \in Nodes |-> Zero] /\ stream = [r \in Streams |-> NoStream]
      /\ reply = [r \in Streams |-> "none"] /\ issues = {}
      BY DEF DataIdle
<1>2. Zero \in Tallies
      BY DEF Zero, Tallies
<1>3. \A r \in Streams : stream[r].state = "none" /\ reply[r] = "none"
      BY <1>1 DEF NoStream
<1>4. DataTypeOK
  <2>1. NoStream \in [state : {"none", "open", "published", "closed", "lost"},
                      from : Nat, to : SUBSET Nodes]
        BY DEF NoStream
  <2>2. plan.kind = "vision" /\ plan.near /\ plan.diag
        /\ plan \in [kind : {"vision", "pressure"}, near : BOOLEAN, diag : BOOLEAN]
        BY <1>1 DEF NoPlan
  <2> QED BY <1>1, <1>2, <2>1, <2>2, DataAssumption DEF DataTypeOK
<1>5. Matched /\ Faultless
      BY <1>1, <1>3, DataSizes DEF Matched, Faultless, Began
<1> QED BY <1>4, <1>5 DEF DataInv, DataTail, DataSteps, PassIsEvidence, NoFalseAlarm

-----------------------------------------------------------------------------
(* The steps of the cluster *)

\* The stream of a request that is not over is one of the plan.
LEMMA OpenPlanned ==
    ASSUME DataInv, NEW r \in Streams, r = Stale => stream[r].state = "open", Began(r)
    PROVE  r \in Planned /\ r \in Requests /\ reply[r] # "none"
  BY DataSizes DEF DataInv, Matched, Streams, Began

\* A step of the cluster needs to keep the evidence, the rest rests.
LEMMA ClusterKeeps ==
    ASSUME DataInv, pc \in DataSteps, UNCHANGED harness,
           DataTypeOK', Matched', dataFaults' = 0 => dataFaults = 0 /\ Faultless',
           pc \in {"work", "settle"} /\ before # NoSnapshot => Snapped',
           \A r \in Requests : (Answered(r) => Answered(r)')
                               /\ (reply[r] = "good" => reply'[r] = "good")
    PROVE  DataInv'
<1>1. UNCHANGED <<pc, plan, owners, watched, sinksSeen, before, after, issues, Planned>>
      BY DEF harness, Planned
<1>2. pc \in {"watch", "baseline", "work", "settle"} => Chosen'
      BY <1>1 DEF DataInv, Chosen
<1>3. pc # "dataVerdict" /\ pc \in DataTail
      BY DEF DataSteps, DataTail
<1>4. pc = "settle" => \A r \in Planned : Answered(r)' /\ (issues = {} => reply'[r] = "good")
      BY DataSizes DEF DataInv
<1> QED BY <1>1, <1>2, <1>3, <1>4 DEF DataInv, PassIsEvidence, NoFalseAlarm

\* What the first snapshot holds of a watched node.
LEMMA SnapshotTyped ==
    ASSUME DataInv, Snapped, NEW n \in watched, pc \in {"work", "settle"}
    PROVE  n \in Nodes /\ before[n].count \in Tallies /\ tally[n] \in Tallies
  BY DEF DataInv, Snapped, Chosen, DataTypeOK

\* One stream changes its state, no other changes.
LEMMA StateChanged ==
    ASSUME DataTypeOK, NEW r \in Streams,
           NEW now \in {"none", "open", "published", "closed", "lost"},
           stream' = [stream EXCEPT ![r].state = now]
    PROVE  /\ \A q \in Streams : q # r => stream'[q] = stream[q]
           /\ stream'[r].state = now /\ stream'[r].from = stream[r].from
           /\ stream'[r].to = stream[r].to
           /\ \A q \in Streams : stream'[q].from = stream[q].from /\ stream'[q].to = stream[q].to
           /\ stream' \in [Streams -> [state : {"none", "open", "published", "closed", "lost"},
                                       from : Nat, to : SUBSET Nodes]]
<1>1. stream'[r] = [stream[r] EXCEPT !.state = now]
      BY DEF DataTypeOK
<1>2. \A q \in Streams : q # r => stream'[q] = stream[q]
      BY DEF DataTypeOK
<1>3. stream[r] \in [state : {"none", "open", "published", "closed", "lost"},
                     from : Nat, to : SUBSET Nodes]
      BY DEF DataTypeOK
<1>4. /\ stream'[r].state = now /\ stream'[r].from = stream[r].from
      /\ stream'[r].to = stream[r].to
      /\ stream'[r] \in [state : {"none", "open", "published", "closed", "lost"},
                         from : Nat, to : SUBSET Nodes]
      BY <1>1, <1>3
<1> QED BY <1>2, <1>4 DEF DataTypeOK

\* One counter of one node goes up, no other counter changes.
LEMMA CountChanged ==
    ASSUME DataTypeOK, NEW m \in Nodes, NEW field \in {"sent", "bad"}, NEW k \in Nat,
           tally' = Count(m, field, k)
    PROVE  /\ tally' \in [Nodes -> Tallies]
           /\ \A n \in Nodes : n # m => tally'[n] = tally[n]
           /\ tally'[m].local = tally[m].local /\ tally'[m].queued = tally[m].queued
           /\ tally'[m].closed = tally[m].closed
           /\ field = "sent" => tally'[m].sent = tally[m].sent + k /\ tally'[m].bad = tally[m].bad
           /\ field = "bad" => tally'[m].sent = tally[m].sent /\ tally'[m].bad = tally[m].bad + k
<1>1. tally'[m] = [tally[m] EXCEPT ![field] = @ + k]
      BY DEF DataTypeOK, Count
<1>2. \A n \in Nodes : n # m => tally'[n] = tally[n]
      BY DEF DataTypeOK, Count
<1>3. tally[m] \in Tallies
      BY DEF DataTypeOK
<1>4. CASE field = "sent"
  <2>1. /\ tally'[m] \in Tallies
        /\ tally'[m].local = tally[m].local /\ tally'[m].queued = tally[m].queued
        /\ tally'[m].closed = tally[m].closed
        /\ tally'[m].sent = tally[m].sent + k /\ tally'[m].bad = tally[m].bad
        BY <1>1, <1>3, <1>4 DEF Tallies
  <2>2. tally' \in [Nodes -> Tallies]
        BY <1>2, <2>1 DEF DataTypeOK, Count
  <2> QED BY <1>2, <1>4, <2>1, <2>2
<1>5. CASE field = "bad"
  <2>1. /\ tally'[m] \in Tallies
        /\ tally'[m].local = tally[m].local /\ tally'[m].queued = tally[m].queued
        /\ tally'[m].closed = tally[m].closed
        /\ tally'[m].sent = tally[m].sent /\ tally'[m].bad = tally[m].bad + k
        BY <1>1, <1>3, <1>5 DEF Tallies
  <2>2. tally' \in [Nodes -> Tallies]
        BY <1>2, <2>1 DEF DataTypeOK, Count
  <2> QED BY <1>2, <1>5, <2>1, <2>2
<1> QED BY <1>4, <1>5

LEMMA PublishKeeps == ASSUME DataInv, pc \in DataSteps, NEW r \in Streams, Publish(r) PROVE DataInv'
<1> DEFINE from == stream[r].from
           k == Cardinality(stream[r].to \ {stream[r].from})
<1>1. /\ stream[r].state = "open" /\ stream' = [stream EXCEPT ![r].state = "published"]
      /\ tally' = Count(stream[r].from, "sent", k)
      /\ UNCHANGED <<harness, serving, reach, reply, dataFaults>>
      BY DEF Publish
<1>2. UNCHANGED <<pc, plan, owners, watched, sinksSeen, before, after, issues, Planned>>
      BY <1>1 DEF harness, Planned
<1>3. r \in Planned /\ r \in Requests /\ r # Stale /\ Began(r)
      BY <1>1, OpenPlanned, DataSizes DEF Began
<1>4. from \in Nodes /\ DataTypeOK
      BY <1>3 DEF DataInv, Matched
<1>5. stream[r].to \subseteq Nodes
      BY <1>4 DEF DataTypeOK
<1>6. k \in Nat /\ (k > 0 <=> stream[r].to \ {from} # {})
  <2>1. stream[r].to \ {from} \subseteq Nodes
        BY <1>5
  <2> QED BY <2>1, DataSizes
<1>7. PICK m \in Nodes : m = from
      BY <1>4
<1>8. PICK c \in Nat : c = k
      BY <1>6
<1> HIDE DEF k, from
<1>9. tally' = Count(m, "sent", c)
      BY <1>1, <1>7, <1>8 DEF from, Count
<1>10. /\ \A q \in Streams : q # r => stream'[q] = stream[q]
       /\ stream'[r].state = "published" /\ stream'[r].from = m
       /\ stream'[r].to = stream[r].to
       /\ \A q \in Streams : stream'[q].from = stream[q].from /\ stream'[q].to = stream[q].to
       /\ stream' \in [Streams -> [state : {"none", "open", "published", "closed", "lost"},
                                   from : Nat, to : SUBSET Nodes]]
       BY <1>1, <1>4, <1>7, StateChanged DEF from
<1>11. /\ tally' \in [Nodes -> Tallies]
       /\ \A n \in Nodes : n # m => tally'[n] = tally[n]
       /\ tally'[m].local = tally[m].local /\ tally'[m].queued = tally[m].queued
       /\ tally'[m].closed = tally[m].closed /\ tally'[m].sent = tally[m].sent + c
       /\ tally'[m].bad = tally[m].bad
       BY <1>4, <1>9, CountChanged
<1>12. DataTypeOK'
       BY <1>1, <1>2, <1>4, <1>10, <1>11 DEF DataTypeOK
<1>13. \A q \in Streams : Began(q)' <=> Began(q)
       BY <1>1, <1>10 DEF Began
<1>14. Matched'
       BY <1>1, <1>2, <1>3, <1>10, <1>13, DataSizes DEF DataInv, Matched, OwnerOf
<1>15. dataFaults' = 0 => Faultless'
       BY <1>1, <1>2, <1>10, <1>13, DataSizes DEF DataInv, Faultless
<1>16. ASSUME pc \in {"work", "settle"}, before # NoSnapshot PROVE Snapped'
  <2>1. Snapped /\ Chosen
        BY <1>16 DEF DataInv
  <2>2. \A n : ClosedAt(n)' = ClosedAt(n)
        BY <1>1, <1>2, <1>10, DataSizes DEF ClosedAt
  <2>3. stream'[Stale] = stream[Stale]
        BY <1>3, <1>10, DataSizes
  <2>4. ASSUME NEW n \in watched
        PROVE  /\ ~(Open(Stale) /\ Touches(Stale, n))'
               /\ Honest(n)'
               /\ dataFaults' = 0 => NothingMissed(n)'
    <3>1. n \in Nodes /\ before[n].count \in Tallies /\ tally[n] \in Tallies
          BY <1>16, <2>1, SnapshotTyped
    <3>2. /\ ~(Open(Stale) /\ Touches(Stale, n))
          /\ Honest(n) /\ (dataFaults = 0 => NothingMissed(n))
          BY <2>1 DEF Snapped
    <3>3. tally'[n].local = tally[n].local /\ tally'[n].queued = tally[n].queued
          /\ tally'[n].closed = tally[n].closed /\ tally'[n].bad = tally[n].bad
          /\ tally'[n].sent = tally[n].sent + (IF n = m THEN c ELSE 0)
          BY <1>11, <3>1 DEF Tallies
    <3>4. ~(Open(Stale) /\ Touches(Stale, n))'
          BY <2>3, <3>2 DEF Open, Touches
    <3>5. Honest(n)'
      <4>1. tally'[n].closed <= before'[n].count.closed + Cardinality(ClosedAt(n))'
            BY <1>2, <2>2, <3>2, <3>3 DEF Honest
      <4>2. tally'[n].local > before'[n].count.local =>
               \E q \in Planned' : Began(q)' /\ stream'[q].from = n /\ n \in stream'[q].to
            BY <1>2, <1>10, <1>13, <3>2, <3>3, DataSizes DEF Honest
      <4>3. tally'[n].sent > before'[n].count.sent =>
               \E q \in Planned' : Began(q)' /\ stream'[q].from = n /\ stream'[q].to \ {n} # {}
        <5>1. CASE n = m /\ c > 0
              BY <1>2, <1>3, <1>6, <1>7, <1>8, <1>10, <1>13, <5>1 DEF from
        <5>2. CASE ~(n = m /\ c > 0)
          <6>1. tally'[n].sent = tally[n].sent
                BY <3>1, <3>3, <5>2 DEF Tallies
          <6> QED BY <1>2, <1>10, <1>13, <3>2, <6>1, DataSizes DEF Honest
        <5> QED BY <5>1, <5>2
      <4> QED BY <4>1, <4>2, <4>3 DEF Honest
    <3>6. ASSUME dataFaults' = 0 PROVE NothingMissed(n)'
      <4>1. NothingMissed(n)
            BY <1>1, <3>2, <3>6
      <4>2. /\ tally'[n].closed = before'[n].count.closed + Cardinality(ClosedAt(n))'
            /\ tally'[n].bad = before'[n].count.bad
            /\ tally'[n].local >= before'[n].count.local
            /\ tally'[n].queued >= before'[n].count.queued
            /\ tally'[n].sent >= before'[n].count.sent
            /\ \A q \in Planned' : Began(q)' /\ stream'[q].from = n /\ n \in stream'[q].to =>
                  tally'[n].local > before'[n].count.local
            BY <1>2, <1>10, <1>13, <2>2, <3>1, <3>3, <4>1, DataSizes DEF NothingMissed, Tallies
      <4>3. ASSUME NEW q \in Planned, stream'[q].state \in {"published", "closed"},
                   stream'[q].from = n, stream'[q].to \ {n} # {}
            PROVE  tally'[n].sent > before[n].count.sent
        <5>1. CASE q = r
          <6>1. n = m /\ c > 0
                BY <1>6, <1>7, <1>8, <1>10, <4>3, <5>1 DEF from
          <6> QED BY <3>1, <3>3, <4>1, <6>1 DEF NothingMissed, Tallies
        <5>2. CASE q # r
          <6>1. stream[q] = stream'[q]
                BY <1>10, <5>2, DataSizes
          <6>2. tally[n].sent > before[n].count.sent
                BY <4>1, <4>3, <6>1 DEF NothingMissed
          <6> QED BY <3>1, <3>3, <6>2 DEF Tallies
        <5> QED BY <5>1, <5>2
      <4>4. ASSUME plan.kind = "vision", n = owners.far
            PROVE  tally'[n].queued - before[n].count.queued =
                     (tally'[n].sent - before[n].count.sent)
                     + (IF stream'[2].state = "open" THEN Cardinality(stream'[2].to \ {n}) ELSE 0)
        <5>1. tally[n].queued - before[n].count.queued =
                 (tally[n].sent - before[n].count.sent)
                 + (IF stream[2].state = "open" THEN Cardinality(stream[2].to \ {n}) ELSE 0)
              BY <4>1, <4>4 DEF NothingMissed
        <5>2. r \in {1, 2} /\ m = OwnerOf(r)
              BY <1>3, <1>7, <4>4 DEF Planned, DataInv, Matched, from
        <5>3. CASE r = 1
          <6>1. m # n /\ stream'[2] = stream[2]
                BY <1>10, <2>1, <4>4, <5>2, <5>3, DataSizes DEF OwnerOf, Chosen
          <6> QED BY <3>1, <3>3, <5>1, <6>1 DEF Tallies
        <5>4. CASE r = 2
          <6>1. m = n
                BY <4>4, <5>2, <5>4 DEF OwnerOf
          <6>2. stream'[2].state = "published" /\ stream[2].state = "open"
                BY <1>1, <1>10, <5>4
          <6>3. Cardinality(stream[2].to \ {n}) = c
                BY <1>7, <1>8, <5>4, <6>1 DEF k, from
          <6> QED BY <3>1, <3>3, <5>1, <6>1, <6>2, <6>3 DEF Tallies
        <5> QED BY <5>2, <5>3, <5>4
      <4> QED BY <1>2, <4>2, <4>3, <4>4 DEF NothingMissed
    <3> QED BY <3>4, <3>5, <3>6
  <2> QED BY <1>2, <2>1, <2>4 DEF Snapped
<1> QED BY <1>1, <1>12, <1>14, <1>15, <1>16, ClusterKeeps DEF Answered

LEMMA CloseKeeps == ASSUME DataInv, pc \in DataSteps, NEW r \in Streams, Close(r) PROVE DataInv'
<1>1. /\ stream[r].state = "published" /\ stream' = [stream EXCEPT ![r].state = "closed"]
      /\ tally' = [n \in Nodes |-> [tally[n] EXCEPT !.closed =
                     @ + IF n \in stream[r].to THEN 1 ELSE 0]]
      /\ UNCHANGED <<harness, serving, reach, reply, dataFaults>>
      BY DEF Close
<1>2. UNCHANGED <<pc, plan, owners, watched, sinksSeen, before, after, issues, Planned>>
      BY <1>1 DEF harness, Planned
<1>3. DataTypeOK /\ Began(r)
      BY <1>1 DEF DataInv, Began
<1>4. /\ \A q \in Streams : q # r => stream'[q] = stream[q]
      /\ stream'[r].state = "closed"
      /\ \A q \in Streams : stream'[q].from = stream[q].from /\ stream'[q].to = stream[q].to
      /\ stream' \in [Streams -> [state : {"none", "open", "published", "closed", "lost"},
                                  from : Nat, to : SUBSET Nodes]]
      BY <1>1, <1>3, StateChanged
<1>5. \A n \in Nodes :
         /\ tally'[n] \in Tallies
         /\ tally'[n].local = tally[n].local /\ tally'[n].queued = tally[n].queued
         /\ tally'[n].sent = tally[n].sent /\ tally'[n].bad = tally[n].bad
         /\ tally'[n].closed = tally[n].closed + (IF n \in stream[r].to THEN 1 ELSE 0)
  <2> TAKE n \in Nodes
  <2>1. tally[n] \in Tallies
        BY <1>3 DEF DataTypeOK
  <2>2. tally'[n] = [tally[n] EXCEPT !.closed = @ + IF n \in stream[r].to THEN 1 ELSE 0]
        BY <1>1
  <2> QED BY <2>1, <2>2 DEF Tallies
<1>6. DataTypeOK'
  <2>1. tally' \in [Nodes -> Tallies]
        BY <1>1, <1>5
  <2> QED BY <1>1, <1>2, <1>3, <1>4, <2>1 DEF DataTypeOK
<1>7. \A q \in Streams : Began(q)' <=> Began(q)
      BY <1>1, <1>4 DEF Began
<1>8. Matched'
      BY <1>1, <1>2, <1>3, <1>4, <1>7, DataSizes DEF DataInv, Matched, OwnerOf
<1>9. dataFaults' = 0 => Faultless'
      BY <1>1, <1>2, <1>4, <1>7, DataSizes DEF DataInv, Faultless
<1>10. ASSUME pc \in {"work", "settle"}, before # NoSnapshot PROVE Snapped'
  <2>1. Snapped /\ Chosen
        BY <1>10 DEF DataInv
  <2>2. ASSUME NEW n \in watched
        PROVE  /\ ~(Open(Stale) /\ Touches(Stale, n))'
               /\ Honest(n)'
               /\ dataFaults' = 0 => NothingMissed(n)'
    <3>1. n \in Nodes /\ before[n].count \in Tallies /\ tally[n] \in Tallies
          BY <1>10, <2>1, SnapshotTyped
    <3>2. /\ ~(Open(Stale) /\ Touches(Stale, n))
          /\ Honest(n) /\ (dataFaults = 0 => NothingMissed(n))
          BY <2>1 DEF Snapped
    <3>3. ~(Open(Stale) /\ Touches(Stale, n))'
      <4>1. Open(Stale)' => Open(Stale)
            BY <1>1, <1>4, DataSizes DEF Open
      <4>2. Touches(Stale, n)' => Touches(Stale, n)
            BY <1>4, DataSizes DEF Touches
      <4> QED BY <3>2, <4>1, <4>2
    <3>4. tally'[n].closed - tally[n].closed = Cardinality(ClosedAt(n)') - Cardinality(ClosedAt(n))
      <4>1. CASE r = Stale \/ n \notin stream[r].to
        <5>1. n \notin stream[r].to
              BY <1>1, <3>2, <4>1 DEF Open, Touches
        <5>2. ClosedAt(n)' = ClosedAt(n)
              BY <1>1, <1>2, <1>4, <5>1, DataSizes DEF ClosedAt
        <5>3. tally'[n].closed = tally[n].closed
              BY <1>5, <3>1, <5>1 DEF Tallies
        <5> QED BY <3>1, <5>2, <5>3, DataSizes DEF Tallies
      <4>2. CASE r # Stale /\ n \in stream[r].to
        <5>1. r \in Planned
              BY <1>3, <4>2, OpenPlanned
        <5>2. ClosedAt(n)' = ClosedAt(n) \cup {r} /\ r \notin ClosedAt(n)
              BY <1>1, <1>2, <1>4, <4>2, <5>1, DataSizes DEF ClosedAt
        <5>3. Cardinality(ClosedAt(n) \cup {r}) = Cardinality(ClosedAt(n)) + 1
              BY <5>2, DataSizes, FS_AddElement
        <5>4. tally'[n].closed = tally[n].closed + 1
              BY <1>5, <3>1, <4>2
        <5> QED BY <3>1, <5>2, <5>3, <5>4, DataSizes DEF Tallies
      <4> QED BY <4>1, <4>2
    <3>5. tally'[n].closed \in Nat /\ Cardinality(ClosedAt(n)') \in Nat
          /\ tally[n].closed \in Nat /\ Cardinality(ClosedAt(n)) \in Nat
          /\ before[n].count.closed \in Nat
      <4>1. Cardinality(ClosedAt(n)') \in Nat
        <5>1. ClosedAt(n)' \subseteq Planned
              BY <1>2 DEF ClosedAt
        <5> QED BY <5>1, DataSizes, FS_Subset, FS_CardinalityType
      <4> QED BY <1>5, <3>1, <4>1, DataSizes DEF Tallies
    <3>6. Honest(n)'
      <4>1. tally'[n].closed <= before'[n].count.closed + Cardinality(ClosedAt(n)')
            BY <1>2, <3>2, <3>4, <3>5 DEF Honest
      <4>2. tally'[n].local > before'[n].count.local =>
               \E q \in Planned' : Began(q)' /\ stream'[q].from = n /\ n \in stream'[q].to
            BY <1>2, <1>4, <1>5, <1>7, <3>1, <3>2, DataSizes DEF Honest
      <4>3. tally'[n].sent > before'[n].count.sent =>
               \E q \in Planned' : Began(q)' /\ stream'[q].from = n /\ stream'[q].to \ {n} # {}
            BY <1>2, <1>4, <1>5, <1>7, <3>1, <3>2, DataSizes DEF Honest
      <4> QED BY <4>1, <4>2, <4>3 DEF Honest
    <3>7. ASSUME dataFaults' = 0 PROVE NothingMissed(n)'
      <4>1. NothingMissed(n)
            BY <1>1, <3>2, <3>7
      <4>2. tally'[n].closed = before'[n].count.closed + Cardinality(ClosedAt(n)')
            BY <1>2, <3>4, <3>5, <4>1 DEF NothingMissed
      <4>3. /\ tally'[n].bad = before'[n].count.bad
            /\ tally'[n].local >= before'[n].count.local
            /\ tally'[n].queued >= before'[n].count.queued
            /\ tally'[n].sent >= before'[n].count.sent
            /\ \A q \in Planned' : Began(q)' /\ stream'[q].from = n /\ n \in stream'[q].to =>
                  tally'[n].local > before'[n].count.local
            BY <1>2, <1>4, <1>5, <1>7, <3>1, <4>1, DataSizes DEF NothingMissed
      <4>4. \A q \in Planned' :
               stream'[q].state \in {"published", "closed"} /\ stream'[q].from = n
                  /\ stream'[q].to \ {n} # {} => tally'[n].sent > before'[n].count.sent
            BY <1>1, <1>2, <1>4, <1>5, <3>1, <4>1, DataSizes DEF NothingMissed
      <4>5. ASSUME plan.kind = "vision", n = owners.far
            PROVE  tally'[n].queued - before[n].count.queued =
                     (tally'[n].sent - before[n].count.sent)
                     + (IF stream'[2].state = "open" THEN Cardinality(stream'[2].to \ {n}) ELSE 0)
        <5>1. tally[n].queued - before[n].count.queued =
                 (tally[n].sent - before[n].count.sent)
                 + (IF stream[2].state = "open" THEN Cardinality(stream[2].to \ {n}) ELSE 0)
              BY <4>1, <4>5 DEF NothingMissed
        <5>2. stream'[2].state = "open" <=> stream[2].state = "open"
              BY <1>1, <1>4, DataSizes
        <5>3. stream'[2].to = stream[2].to
              BY <1>4, DataSizes
        <5> QED BY <1>5, <3>1, <5>1, <5>2, <5>3
      <4> QED BY <1>2, <4>2, <4>3, <4>4, <4>5 DEF NothingMissed
    <3> QED BY <3>3, <3>6, <3>7
  <2> QED BY <1>2, <2>1, <2>2 DEF Snapped
<1> QED BY <1>1, <1>6, <1>8, <1>9, <1>10, ClusterKeeps DEF Answered

LEMMA ReplyKeeps == ASSUME DataInv, pc \in DataSteps, NEW r \in Streams, Reply(r) PROVE DataInv'
<1>1. /\ reply[r] = "sent" /\ stream[r].state \in {"published", "closed"}
      /\ UNCHANGED <<harness, serving, reach, tally, stream>>
      BY DEF Reply
<1>2. UNCHANGED <<pc, plan, owners, watched, sinksSeen, before, after, issues, Planned>>
      BY <1>1 DEF harness, Planned
<1>3. PICK what \in {"good", "short"} :
         /\ reply' = [reply EXCEPT ![r] = what]
         /\ dataFaults' \in Nat
         /\ dataFaults' = 0 => dataFaults = 0 /\ what = "good"
  <2>1. dataFaults \in Nat
        BY DEF DataInv, DataTypeOK
  <2> QED BY <2>1 DEF Reply, DataFault
<1>4. DataTypeOK /\ r \in Requests /\ r # Stale
      BY <1>1, DataSizes DEF DataInv, Matched, Streams
<1>5. reply'[r] = what /\ \A q \in Streams : q # r => reply'[q] = reply[q]
      BY <1>3, <1>4 DEF DataTypeOK
<1>6. DataTypeOK'
      BY <1>1, <1>2, <1>3, <1>4 DEF DataTypeOK
<1>7. UNCHANGED <<stream, tally>> /\ \A q : (Began(q)' <=> Began(q)) /\ ClosedAt(q)' = ClosedAt(q)
      BY <1>1, <1>2 DEF Began, ClosedAt
<1>8. Matched'
      BY <1>1, <1>2, <1>4, <1>5, <1>7, DataSizes DEF DataInv, Matched, OwnerOf
<1>9. dataFaults' = 0 => Faultless'
      BY <1>1, <1>2, <1>3, <1>5, <1>7, DataSizes DEF DataInv, Faultless
<1>10. ASSUME pc \in {"work", "settle"}, before # NoSnapshot PROVE Snapped'
  <2>1. Snapped
        BY <1>10 DEF DataInv
  <2>2. \A n : /\ Open(Stale)' = Open(Stale) /\ Touches(Stale, n)' = Touches(Stale, n)
               /\ Honest(n)' = Honest(n) /\ NothingMissed(n)' = NothingMissed(n)
        BY <1>2, <1>7 DEF Open, Touches, Honest, NothingMissed
  <2> QED BY <1>2, <1>3, <2>1, <2>2 DEF Snapped
<1>11. \A q \in Requests : (Answered(q) => Answered(q)') /\ (reply[q] = "good" => reply'[q] = "good")
       BY <1>1, <1>5, DataSizes DEF Answered
<1> QED BY <1>1, <1>3, <1>6, <1>8, <1>9, <1>10, <1>11, ClusterKeeps

LEMMA LoseStreamKeeps == ASSUME DataInv, pc \in DataSteps, NEW r \in Streams, LoseStream(r) PROVE DataInv'
<1>1. /\ Open(r) /\ stream' = [stream EXCEPT ![r].state = "lost"]
      /\ \E n \in stream[r].to \cup {stream[r].from} : tally' = Count(n, "bad", 1)
      /\ reply' \in {[reply EXCEPT ![r] = IF @ = "sent" THEN what ELSE @] : what \in {"good", "failed"}}
      /\ UNCHANGED <<harness, serving, reach>>
      BY DEF LoseStream
<1>2. UNCHANGED <<pc, plan, owners, watched, sinksSeen, before, after, issues, Planned>>
      BY <1>1 DEF harness, Planned
<1>3. DataTypeOK /\ dataFaults' \in Nat /\ dataFaults' # 0
      BY DEF DataInv, DataTypeOK, LoseStream, DataFault
<1>4. PICK m \in stream[r].to \cup {stream[r].from} : tally' = Count(m, "bad", 1)
      BY <1>1
<1>5. /\ \A q \in Streams : q # r => stream'[q] = stream[q]
      /\ stream'[r].state = "lost"
      /\ \A q \in Streams : stream'[q].from = stream[q].from /\ stream'[q].to = stream[q].to
      /\ stream' \in [Streams -> [state : {"none", "open", "published", "closed", "lost"},
                                  from : Nat, to : SUBSET Nodes]]
      BY <1>1, <1>3, StateChanged
<1>6. /\ tally' \in [Nodes -> Tallies]
      /\ \A n \in Nodes : /\ tally'[n].local = tally[n].local
                          /\ tally'[n].closed = tally[n].closed
                          /\ tally'[n].sent = tally[n].sent
  <2>1. CASE m \in Nodes
        BY <1>3, <1>4, <2>1, CountChanged
  <2>2. CASE m \notin Nodes
    <3>1. tally' = tally
          BY <1>3, <1>4, <2>2 DEF Count, DataTypeOK
    <3> QED BY <1>3, <3>1 DEF DataTypeOK
  <2> QED BY <2>1, <2>2
<1>7. /\ reply' \in [Streams -> {"none", "sent", "good", "short", "failed"}]
      /\ \A q \in Streams : reply'[q] = reply[q]
                            \/ (reply[q] = "sent" /\ reply'[q] \in {"good", "failed"})
      BY <1>1, <1>3 DEF DataTypeOK
<1>8. DataTypeOK'
      BY <1>1, <1>2, <1>3, <1>5, <1>6, <1>7 DEF DataTypeOK
<1>9. \A q \in Streams : Began(q)' <=> Began(q)
      BY <1>1, <1>5 DEF Began, Open
<1>10. Matched'
      BY <1>1, <1>2, <1>5, <1>7, <1>9, DataSizes DEF DataInv, Matched, OwnerOf
<1>11. ASSUME pc \in {"work", "settle"}, before # NoSnapshot PROVE Snapped'
  <2>1. Snapped /\ Chosen
        BY <1>11 DEF DataInv
  <2>2. \A n : ClosedAt(n)' = ClosedAt(n)
        BY <1>1, <1>2, <1>5, DataSizes DEF ClosedAt, Open
  <2>3. ASSUME NEW n \in watched
        PROVE  ~(Open(Stale) /\ Touches(Stale, n))' /\ Honest(n)'
    <3>1. n \in Nodes
          BY <1>11, <2>1, SnapshotTyped
    <3>2. ~(Open(Stale) /\ Touches(Stale, n)) /\ Honest(n)
          BY <2>1 DEF Snapped
    <3>3. ~(Open(Stale) /\ Touches(Stale, n))'
      <4>1. Open(Stale)' => Open(Stale)
            BY <1>5, DataSizes DEF Open
      <4>2. Touches(Stale, n)' => Touches(Stale, n)
            BY <1>5, DataSizes DEF Touches
      <4> QED BY <3>2, <4>1, <4>2
    <3>4. Honest(n)'
          BY <1>2, <1>5, <1>6, <1>9, <2>2, <3>1, <3>2, DataSizes DEF Honest
    <3> QED BY <3>3, <3>4
  <2> QED BY <1>2, <1>3, <2>1, <2>3 DEF Snapped
<1>12. \A q \in Requests : (Answered(q) => Answered(q)') /\ (reply[q] = "good" => reply'[q] = "good")
       BY <1>7, DataSizes DEF Answered
<1> QED BY <1>1, <1>3, <1>8, <1>10, <1>11, <1>12, ClusterKeeps

LEMMA RestartNodeKeeps == ASSUME DataInv, pc \in DataSteps, NEW m \in Nodes, RestartNode(m) PROVE DataInv'
<1>1. /\ tally' = [tally EXCEPT ![m] = Zero]
      /\ stream' = [r \in Streams |-> IF Open(r) /\ Touches(r, m)
                                      THEN [stream[r] EXCEPT !.state = "lost"] ELSE stream[r]]
      /\ reply' = [r \in Streams |-> IF Open(r) /\ Touches(r, m) /\ reply[r] = "sent"
                                     THEN "failed" ELSE reply[r]]
      /\ UNCHANGED <<harness, serving, reach>>
      BY DEF RestartNode
<1>2. UNCHANGED <<pc, plan, owners, watched, sinksSeen, before, after, issues, Planned>>
      BY <1>1 DEF harness, Planned
<1>3. DataTypeOK /\ dataFaults' \in Nat /\ dataFaults' # 0
      BY DEF DataInv, DataTypeOK, RestartNode, DataFault
<1>4. \A q \in Streams :
         /\ stream'[q] \in [state : {"none", "open", "published", "closed", "lost"},
                            from : Nat, to : SUBSET Nodes]
         /\ stream'[q].from = stream[q].from /\ stream'[q].to = stream[q].to
         /\ stream'[q].state = stream[q].state
            \/ (stream[q].state \in {"open", "published"} /\ stream'[q].state = "lost")
  <2> TAKE q \in Streams
  <2>1. stream[q] \in [state : {"none", "open", "published", "closed", "lost"},
                       from : Nat, to : SUBSET Nodes]
        BY <1>3 DEF DataTypeOK
  <2>2. stream'[q] = IF Open(q) /\ Touches(q, m)
                     THEN [stream[q] EXCEPT !.state = "lost"] ELSE stream[q]
        BY <1>1
  <2> QED BY <2>1, <2>2 DEF Open
<1>5. /\ reply' \in [Streams -> {"none", "sent", "good", "short", "failed"}]
      /\ \A q \in Streams : reply'[q] = reply[q]
                            \/ (reply[q] = "sent" /\ reply'[q] \in {"good", "failed"})
      BY <1>1, <1>3 DEF DataTypeOK
<1>6. /\ tally' \in [Nodes -> Tallies]
      /\ \A n \in Nodes : n # m => tally'[n] = tally[n]
      /\ tally'[m].local = 0 /\ tally'[m].closed = 0 /\ tally'[m].sent = 0
      BY <1>1, <1>3 DEF DataTypeOK, Zero, Tallies
<1>7. DataTypeOK'
  <2>1. stream' \in [Streams -> [state : {"none", "open", "published", "closed", "lost"},
                                 from : Nat, to : SUBSET Nodes]]
        BY <1>1, <1>4
  <2> QED BY <1>1, <1>2, <1>3, <1>5, <1>6, <2>1 DEF DataTypeOK
<1>8. \A q \in Streams : Began(q)' <=> Began(q)
      BY <1>4 DEF Began
<1>9. Matched'
      BY <1>1, <1>2, <1>4, <1>5, <1>8, DataSizes DEF DataInv, Matched, OwnerOf
<1>10. ASSUME pc \in {"work", "settle"}, before # NoSnapshot PROVE Snapped'
  <2>1. Snapped /\ Chosen
        BY <1>10 DEF DataInv
  <2>2. \A n : ClosedAt(n)' = ClosedAt(n)
        BY <1>2, <1>4, DataSizes DEF ClosedAt
  <2>3. ASSUME NEW n \in watched
        PROVE  ~(Open(Stale) /\ Touches(Stale, n))' /\ Honest(n)'
    <3>1. n \in Nodes /\ before[n].count \in Tallies
          BY <1>10, <2>1, SnapshotTyped
    <3>2. ~(Open(Stale) /\ Touches(Stale, n)) /\ Honest(n)
          BY <2>1 DEF Snapped
    <3>3. ~(Open(Stale) /\ Touches(Stale, n))'
      <4>1. Open(Stale)' => Open(Stale)
            BY <1>4, DataSizes DEF Open
      <4>2. Touches(Stale, n)' => Touches(Stale, n)
            BY <1>4, DataSizes DEF Touches
      <4> QED BY <3>2, <4>1, <4>2
    <3>4. Honest(n)'
      <4>1. CASE n = m
        <5>1. Cardinality(ClosedAt(n)) \in Nat /\ before[n].count.closed \in Nat
              /\ before[n].count.local \in Nat /\ before[n].count.sent \in Nat
              BY <3>1, DataSizes DEF Tallies
        <5> QED BY <1>2, <1>6, <2>2, <4>1, <5>1 DEF Honest
      <4>2. CASE n # m
            BY <1>2, <1>4, <1>6, <1>8, <2>2, <3>1, <3>2, <4>2, DataSizes DEF Honest
      <4> QED BY <4>1, <4>2
    <3> QED BY <3>3, <3>4
  <2> QED BY <1>2, <1>3, <2>1, <2>3 DEF Snapped
<1>11. \A q \in Requests : (Answered(q) => Answered(q)') /\ (reply[q] = "good" => reply'[q] = "good")
       BY <1>5, DataSizes DEF Answered
<1> QED BY <1>1, <1>3, <1>7, <1>9, <1>10, <1>11, ClusterKeeps

LEMMA ShiftKeeps == ASSUME DataInv, pc \in DataSteps, Shift PROVE DataInv'
<1>1. /\ UNCHANGED <<harness, tally, stream, reply>>
      /\ dataFaults' \in Nat /\ dataFaults' # 0
      /\ serving' \subseteq Nodes /\ serving' # {} /\ reach' \subseteq Nodes
      BY DEF Shift, DataFault, DataInv, DataTypeOK
<1>2. UNCHANGED <<pc, plan, owners, watched, sinksSeen, before, after, issues, Planned>>
      BY <1>1 DEF harness, Planned
<1>3. DataTypeOK'
      BY <1>1, <1>2 DEF DataInv, DataTypeOK
<1>4. Matched'
      BY <1>1, <1>2 DEF DataInv, Matched, OwnerOf, Began
<1>5. ASSUME pc \in {"work", "settle"}, before # NoSnapshot PROVE Snapped'
  <2>1. \A n : /\ Open(Stale)' = Open(Stale) /\ Touches(Stale, n)' = Touches(Stale, n)
               /\ Honest(n)' = Honest(n)
        BY <1>1, <1>2 DEF Open, Touches, Honest, Began, ClosedAt
  <2> QED BY <1>1, <1>2, <1>5, <2>1 DEF DataInv, Snapped
<1> QED BY <1>1, <1>3, <1>4, <1>5, ClusterKeeps DEF Answered

-----------------------------------------------------------------------------
(* The requests *)

\* The counters of a node after a stream was opened there.
LEMMA OpeningCounted ==
    ASSUME DataTypeOK, NEW r \in Streams, NEW m \in Nodes, NEW to \in SUBSET Nodes,
           OpenStream(r, m, to)
    PROVE  /\ tally' \in [Nodes -> Tallies]
           /\ \A n \in Nodes : n # m => tally'[n] = tally[n]
           /\ tally'[m].local = tally[m].local + (IF m \in to THEN 1 ELSE 0)
           /\ tally'[m].queued = tally[m].queued + Cardinality(to \ {m})
           /\ tally'[m].sent = tally[m].sent /\ tally'[m].closed = tally[m].closed
           /\ tally'[m].bad = tally[m].bad
<1> DEFINE one == IF m \in to THEN 1 ELSE 0
           many == Cardinality(to \ {m})
           mid == [tally EXCEPT ![m].local = @ + one]
<1>1. one \in Nat
      OBVIOUS
<1>2. many \in Nat
  <2>1. to \ {m} \subseteq Nodes
        OBVIOUS
  <2> QED BY <2>1, DataSizes
<1>3. tally' = [mid EXCEPT ![m].queued = @ + many]
      BY DEF OpenStream
<1> HIDE DEF one, many
<1>4. tally[m] \in Tallies /\ tally \in [Nodes -> Tallies]
      BY DEF DataTypeOK
<1>5. mid[m] = [tally[m] EXCEPT !.local = @ + one] /\ \A n \in Nodes : n # m => mid[n] = tally[n]
      BY <1>4
<1>6. /\ mid[m] \in Tallies /\ mid[m].local = tally[m].local + one
      /\ mid[m].queued = tally[m].queued /\ mid[m].sent = tally[m].sent
      /\ mid[m].closed = tally[m].closed /\ mid[m].bad = tally[m].bad
      BY <1>1, <1>4, <1>5 DEF Tallies
<1>7. mid \in [Nodes -> Tallies]
      BY <1>4, <1>5, <1>6
<1> HIDE DEF mid
<1>8. tally'[m] = [mid[m] EXCEPT !.queued = @ + many] /\ \A n \in Nodes : n # m => tally'[n] = mid[n]
      BY <1>3, <1>7
<1>9. /\ tally'[m] \in Tallies /\ tally'[m].queued = mid[m].queued + many
      /\ tally'[m].local = mid[m].local /\ tally'[m].sent = mid[m].sent
      /\ tally'[m].closed = mid[m].closed /\ tally'[m].bad = mid[m].bad
      BY <1>2, <1>6, <1>8 DEF Tallies
<1>10. tally' \in [Nodes -> Tallies]
      BY <1>3, <1>7, <1>8, <1>9
<1> QED BY <1>5, <1>6, <1>8, <1>9, <1>10 DEF one, many

\* A request that opens a stream.
LEMMA SentKeeps ==
    ASSUME DataInv, pc = "work", NEW r \in Planned, reply[r] = "none",
           UNCHANGED <<harness, serving, reach, dataFaults>>,
           reply' = [reply EXCEPT ![r] = "sent"],
           NEW m \in Nodes, NEW to \in SUBSET Nodes, OpenStream(r, m, to),
           plan.kind = "vision" => m = OwnerOf(r) /\ to = serving,
           plan.kind = "pressure" => m = Rank0 /\ to = {OwnerOf(r)}
    PROVE  DataInv'
<1>1. UNCHANGED <<pc, plan, owners, watched, sinksSeen, before, after, issues, Planned>>
      BY DEF harness, Planned
<1>2. DataTypeOK /\ r \in Requests /\ r \in Streams /\ r # Stale /\ ~Began(r) /\ pc \in DataSteps
      BY DataSizes DEF DataInv, Matched, DataSteps
<1>3. /\ \A q \in Streams : q # r => stream'[q] = stream[q]
      /\ stream'[r].state = "open" /\ stream'[r].from = m /\ stream'[r].to = to
      /\ stream' \in [Streams -> [state : {"none", "open", "published", "closed", "lost"},
                                  from : Nat, to : SUBSET Nodes]]
  <2> DEFINE new == [state |-> "open", from |-> m, to |-> to]
  <2>1. new.state = "open" /\ new.from = m /\ new.to = to
        /\ new \in [state : {"none", "open", "published", "closed", "lost"},
                    from : Nat, to : SUBSET Nodes]
        BY DataAssumption
  <2>2. stream' = [stream EXCEPT ![r] = new]
        BY DEF OpenStream
  <2> HIDE DEF new
  <2> QED BY <1>2, <2>1, <2>2 DEF DataTypeOK
<1>4. /\ tally' \in [Nodes -> Tallies]
      /\ \A n \in Nodes : n # m => tally'[n] = tally[n]
      /\ tally'[m].local = tally[m].local + (IF m \in to THEN 1 ELSE 0)
      /\ tally'[m].queued = tally[m].queued + Cardinality(to \ {m})
      /\ tally'[m].sent = tally[m].sent /\ tally'[m].closed = tally[m].closed
      /\ tally'[m].bad = tally[m].bad
      BY <1>2, OpeningCounted
<1>5. /\ reply' \in [Streams -> {"none", "sent", "good", "short", "failed"}]
      /\ reply'[r] = "sent" /\ \A q \in Streams : q # r => reply'[q] = reply[q]
      BY <1>2 DEF DataTypeOK
<1>6. DataTypeOK'
      BY <1>1, <1>2, <1>3, <1>4, <1>5 DEF DataTypeOK
<1>7. Began(r)' /\ \A q \in Streams : q # r => (Began(q)' <=> Began(q))
      BY <1>2, <1>3 DEF Began
<1>8. Matched'
  <2>1. ASSUME NEW q \in Requests
        PROVE  /\ reply'[q] # "none" => q \in Planned' /\ pc' \in {"work", "settle", "dataVerdict"}
               /\ reply'[q] \in {"sent", "good", "short"} => Began(q)'
               /\ Began(q)' => /\ reply'[q] # "none" /\ stream'[q].from \in Nodes
                               /\ plan'.kind = "vision" => stream'[q].from = OwnerOf(q)'
                               /\ plan'.kind = "pressure" => stream'[q].to = {OwnerOf(q)'}
    <3>1. OwnerOf(q)' = OwnerOf(q)
          BY <1>1 DEF OwnerOf
    <3>2. CASE q = r
          BY <1>1, <1>3, <1>5, <1>7, <3>1, <3>2
    <3>3. CASE q # r
          BY <1>1, <1>3, <1>5, <1>7, <3>1, <3>3, DataSizes DEF DataInv, Matched
    <3> QED BY <3>2, <3>3
  <2>2. stream'[Stale].state # "open" /\ reply'[Stale] = "none"
        BY <1>2, <1>3, <1>5, DataSizes DEF DataInv, Matched
  <2> QED BY <2>1, <2>2 DEF Matched
<1>9. dataFaults' = 0 => dataFaults = 0 /\ Faultless'
  <2> SUFFICES ASSUME dataFaults' = 0 PROVE dataFaults = 0 /\ Faultless'
      OBVIOUS
  <2>1. dataFaults = 0 /\ Faultless /\ UNCHANGED <<serving, reach, issues, pc>>
        BY <1>1 DEF DataInv
  <2>2. ASSUME NEW q \in Requests
        PROVE  /\ reply'[q] \in {"none", "sent", "good"} /\ stream'[q].state # "lost"
               /\ Began(q)' => /\ plan'.kind = "vision" => stream'[q].to = FirstServing
                               /\ plan'.kind = "pressure" => stream'[q].from = Min(FirstServing)
    <3>1. CASE q = r
          BY <1>1, <1>3, <1>5, <2>1, <3>1 DEF Faultless, Rank0
    <3>2. CASE q # r
          BY <1>1, <1>3, <1>5, <1>7, <2>1, <3>2, DataSizes DEF Faultless
    <3> QED BY <3>1, <3>2
  <2> QED BY <2>1, <2>2 DEF Faultless
<1>10. ASSUME pc \in {"work", "settle"}, before # NoSnapshot PROVE Snapped'
  <2>1. Snapped /\ Chosen
        BY <1>10 DEF DataInv
  <2>2. \A n : ClosedAt(n)' = ClosedAt(n)
        BY <1>1, <1>2, <1>3, DataSizes DEF ClosedAt, Began
  <2>3. stream'[Stale] = stream[Stale]
        BY <1>2, <1>3, DataSizes
  <2>4. ASSUME NEW n \in watched
        PROVE  /\ ~(Open(Stale) /\ Touches(Stale, n))'
               /\ Honest(n)'
               /\ dataFaults' = 0 => NothingMissed(n)'
    <3>1. n \in Nodes /\ before[n].count \in Tallies /\ tally[n] \in Tallies
          BY <1>10, <2>1, SnapshotTyped
    <3>2. /\ ~(Open(Stale) /\ Touches(Stale, n))
          /\ Honest(n) /\ (dataFaults = 0 => NothingMissed(n))
          BY <2>1 DEF Snapped
    <3>3. Cardinality(to \ {m}) \in Nat
      <4>1. to \ {m} \subseteq Nodes
            OBVIOUS
      <4> QED BY <4>1, DataSizes
    <3>4. /\ tally'[n].sent = tally[n].sent /\ tally'[n].closed = tally[n].closed
          /\ tally'[n].bad = tally[n].bad
          /\ tally'[n].local = tally[n].local + (IF n = m /\ n \in to THEN 1 ELSE 0)
          /\ tally'[n].queued = tally[n].queued + (IF n = m THEN Cardinality(to \ {m}) ELSE 0)
          BY <1>4, <3>1 DEF Tallies
    <3>5. ~(Open(Stale) /\ Touches(Stale, n))'
          BY <2>3, <3>2 DEF Open, Touches
    <3>6. Honest(n)'
      <4>1. tally'[n].closed <= before'[n].count.closed + Cardinality(ClosedAt(n))'
            BY <1>1, <2>2, <3>2, <3>4 DEF Honest
      <4>2. tally'[n].local > before'[n].count.local =>
               \E q \in Planned' : Began(q)' /\ stream'[q].from = n /\ n \in stream'[q].to
        <5>1. CASE n = m /\ n \in to
              BY <1>1, <1>3, <1>7, <5>1
        <5>2. CASE ~(n = m /\ n \in to)
          <6>1. tally'[n].local = tally[n].local
                BY <3>1, <3>4, <5>2 DEF Tallies
          <6> QED BY <1>1, <1>2, <1>3, <1>7, <3>2, <6>1, DataSizes DEF Honest
        <5> QED BY <5>1, <5>2
      <4>3. tally'[n].sent > before'[n].count.sent =>
               \E q \in Planned' : Began(q)' /\ stream'[q].from = n /\ stream'[q].to \ {n} # {}
            BY <1>1, <1>2, <1>3, <1>7, <3>2, <3>4, DataSizes DEF Honest
      <4> QED BY <4>1, <4>2, <4>3 DEF Honest
    <3>7. ASSUME dataFaults' = 0 PROVE NothingMissed(n)'
      <4>1. NothingMissed(n)
            BY <3>2, <3>7
      <4>2. /\ tally'[n].closed = before'[n].count.closed + Cardinality(ClosedAt(n))'
            /\ tally'[n].bad = before'[n].count.bad
            /\ tally'[n].local >= before'[n].count.local
            /\ tally'[n].queued >= before'[n].count.queued
            /\ tally'[n].sent >= before'[n].count.sent
            BY <1>1, <2>2, <3>1, <3>3, <3>4, <4>1 DEF NothingMissed, Tallies
      <4>3. ASSUME NEW q \in Planned, Began(q)', stream'[q].from = n, n \in stream'[q].to
            PROVE  tally'[n].local > before[n].count.local
        <5>1. CASE q = r
              BY <1>3, <3>1, <3>4, <4>1, <4>3, <5>1 DEF NothingMissed, Tallies
        <5>2. CASE q # r
          <6>1. stream'[q] = stream[q] /\ Began(q)
                BY <1>3, <1>7, <4>3, <5>2, DataSizes
          <6>2. tally[n].local > before[n].count.local
                BY <4>1, <4>3, <6>1 DEF NothingMissed
          <6> QED BY <3>1, <3>4, <6>2 DEF Tallies
        <5> QED BY <5>1, <5>2
      <4>4. ASSUME NEW q \in Planned, stream'[q].state \in {"published", "closed"},
                   stream'[q].from = n, stream'[q].to \ {n} # {}
            PROVE  tally'[n].sent > before[n].count.sent
        <5>1. q # r /\ stream'[q] = stream[q]
              BY <1>3, <4>4, DataSizes
        <5> QED BY <3>4, <4>1, <4>4, <5>1 DEF NothingMissed
      <4>5. ASSUME plan.kind = "vision", n = owners.far
            PROVE  tally'[n].queued - before[n].count.queued =
                     (tally'[n].sent - before[n].count.sent)
                     + (IF stream'[2].state = "open" THEN Cardinality(stream'[2].to \ {n}) ELSE 0)
        <5>1. tally[n].queued - before[n].count.queued =
                 (tally[n].sent - before[n].count.sent)
                 + (IF stream[2].state = "open" THEN Cardinality(stream[2].to \ {n}) ELSE 0)
              BY <4>1, <4>5 DEF NothingMissed
        <5>2. r \in {1, 2} /\ m = OwnerOf(r)
              BY <4>5 DEF Planned
        <5>3. CASE r = 1
          <6>1. m # n /\ stream'[2] = stream[2]
                BY <1>3, <2>1, <4>5, <5>2, <5>3, DataSizes DEF OwnerOf, Chosen
          <6> QED BY <3>1, <3>4, <5>1, <6>1 DEF Tallies
        <5>4. CASE r = 2
          <6>1. m = n
                BY <4>5, <5>2, <5>4 DEF OwnerOf
          <6>2. stream'[2].state = "open" /\ stream[2].state = "none" /\ stream'[2].to = to
                BY <1>2, <1>3, <5>4 DEF Began
          <6> QED BY <3>1, <3>3, <3>4, <5>1, <6>1, <6>2 DEF Tallies
        <5> QED BY <5>2, <5>3, <5>4
      <4> QED BY <1>1, <4>2, <4>3, <4>4, <4>5 DEF NothingMissed
    <3> QED BY <3>5, <3>6, <3>7
  <2> QED BY <1>1, <2>1, <2>4 DEF Snapped
<1>11. \A q \in Requests : (Answered(q) => Answered(q)') /\ (reply[q] = "good" => reply'[q] = "good")
       BY <1>2, <1>5, DataSizes DEF Answered
<1> QED BY <1>2, <1>6, <1>8, <1>9, <1>10, <1>11, ClusterKeeps

LEMMA SendKeeps == ASSUME DataInv, NEW r \in Requests, Send(r) PROVE DataInv'
<1>1. /\ pc = "work" /\ r \in Planned /\ reply[r] = "none"
      /\ UNCHANGED <<harness, serving, reach, dataFaults>>
      BY DEF Send
<1>2. Chosen /\ DataTypeOK /\ OwnerOf(r) \in Nodes /\ pc \in DataSteps
      BY <1>1 DEF DataInv, Chosen, OwnerOf, DataSteps
<1>3. CASE OwnerOf(r) \in reach
  <2>1. Rank0 \in Nodes
    <3>1. serving \subseteq Nat
          BY <1>2, DataAssumption DEF DataTypeOK
    <3>2. Rank0 \in serving
          BY <1>2, <3>1, LeastOne DEF Rank0, DataTypeOK
    <3> QED BY <1>2, <3>2 DEF DataTypeOK
  <2>2. PICK m \in Nodes, to \in SUBSET Nodes :
           /\ OpenStream(r, m, to)
           /\ plan.kind = "vision" => m = OwnerOf(r) /\ to = serving
           /\ plan.kind = "pressure" => m = Rank0 /\ to = {OwnerOf(r)}
    <3>1. CASE plan.kind = "vision"
      <4>1. OpenStream(r, OwnerOf(r), serving) /\ serving \in SUBSET Nodes
            BY <1>2, <1>3, <3>1 DEF Send, DataTypeOK
      <4> QED BY <1>2, <3>1, <4>1
    <3>2. CASE plan.kind # "vision"
      <4>1. OpenStream(r, Rank0, {OwnerOf(r)}) /\ {OwnerOf(r)} \in SUBSET Nodes
            BY <1>2, <1>3, <3>2 DEF Send
      <4> QED BY <2>1, <3>2, <4>1
    <3> QED BY <3>1, <3>2
  <2>3. reply' = [reply EXCEPT ![r] = "sent"]
        BY <1>3 DEF Send
  <2> QED BY <1>1, <2>2, <2>3, SentKeeps
<1>4. CASE OwnerOf(r) \notin reach
  <2>1. UNCHANGED <<stream, tally>> /\ reply' = [reply EXCEPT ![r] = "failed"]
        BY <1>4 DEF Send
  <2>2. UNCHANGED <<pc, plan, owners, watched, sinksSeen, before, after, issues, Planned>>
        BY <1>1 DEF harness, Planned
  <2>3. /\ reply' \in [Streams -> {"none", "sent", "good", "short", "failed"}]
        /\ reply'[r] = "failed" /\ \A q \in Streams : q # r => reply'[q] = reply[q]
        BY <1>2, <2>1, DataSizes DEF DataTypeOK
  <2>4. DataTypeOK'
        BY <1>1, <1>2, <2>1, <2>2, <2>3 DEF DataTypeOK
  <2>5. Matched'
        BY <1>1, <2>1, <2>2, <2>3, DataSizes DEF DataInv, Matched, OwnerOf, Began
  <2>6. dataFaults # 0
        BY <1>2, <1>4 DEF DataInv, Faultless
  <2>7. before # NoSnapshot => Snapped'
    <3>1. \A n : /\ Open(Stale)' = Open(Stale) /\ Touches(Stale, n)' = Touches(Stale, n)
                 /\ Honest(n)' = Honest(n) /\ NothingMissed(n)' = NothingMissed(n)
          BY <2>1, <2>2 DEF Open, Touches, Honest, NothingMissed, Began, ClosedAt
    <3> QED BY <1>1, <2>2, <3>1 DEF DataInv, Snapped
  <2>8. \A q \in Requests : (Answered(q) => Answered(q)') /\ (reply[q] = "good" => reply'[q] = "good")
        BY <1>1, <2>3, DataSizes DEF Answered
  <2> QED BY <1>1, <1>2, <2>4, <2>5, <2>6, <2>7, <2>8, ClusterKeeps
<1> QED BY <1>3, <1>4

-----------------------------------------------------------------------------
(* The steps of the harness *)

\* A step of the harness leaves the cluster alone.
LEMMA ClusterRests ==
    ASSUME DataInv, UNCHANGED <<plan, dataCluster>>, dataFaults' \in Nat,
           pc' \in {"work", "settle", "dataVerdict"} \/ pc \in {"select", "watch", "baseline"},
           pc \in DataSteps, UNCHANGED owners \/ pc = "select"
    PROVE  DataTypeOK' /\ Matched'
<1>1. UNCHANGED <<plan, serving, reach, tally, stream, reply, Planned>>
      /\ \A r : Began(r)' <=> Began(r)
      BY DEF dataCluster, Planned, Began
<1>2. pc = "select" => \A r \in Requests : reply[r] = "none" /\ ~Began(r)
      BY DEF DataInv, Matched
<1>3. UNCHANGED owners => \A r : OwnerOf(r)' = OwnerOf(r)
      BY DEF OwnerOf
<1>4. pc \in {"select", "watch", "baseline"} => \A r \in Requests : reply[r] = "none"
      BY DEF DataInv, Matched
<1>5. DataTypeOK'
      BY <1>1 DEF DataInv, DataTypeOK
<1>6. Matched'
      BY <1>1, <1>2, <1>3, <1>4 DEF DataInv, Matched
<1> QED BY <1>5, <1>6

LEMMA StartDataKeeps == DataInv /\ StartData => DataInv'
<1> SUFFICES ASSUME DataInv, StartData PROVE DataInv'
    OBVIOUS
<1>1. /\ DataIdle /\ pc' = "select"
      /\ UNCHANGED <<serving, reach, reply, owners, watched, sinksSeen, before, after,
                     issues, dataFaults>>
      BY DEF DataInv, StartData, DataTail, DataSteps
<1>2. PICK old \in BOOLEAN :
         /\ tally' = [n \in Nodes |-> IF old THEN [Zero EXCEPT !.closed = 1] ELSE Zero]
         /\ stream' = IF old THEN [stream EXCEPT ![Stale] = [state |-> "published",
                                      from |-> Rank0, to |-> {Min(Nodes)}]] ELSE stream
      BY DEF StartData
<1>3. /\ serving = FirstServing /\ reach = Nodes /\ dataFaults = 0 /\ issues = {}
      /\ stream = [r \in Streams |-> NoStream] /\ reply = [r \in Streams |-> "none"]
      /\ before = NoSnapshot
      BY <1>1 DEF DataIdle
<1>4. tally' \in [Nodes -> Tallies]
  <2>1. Zero \in Tallies /\ [Zero EXCEPT !.closed = 1] \in Tallies
        BY DEF Zero, Tallies
  <2> QED BY <1>2, <2>1
<1>5. Min(Nodes) \in Nodes /\ Rank0 \in Nat
  <2>1. Nodes \subseteq Nat /\ FirstServing \subseteq Nat /\ Nodes # {} /\ FirstServing # {}
        BY DataAssumption
  <2>2. Min(Nodes) \in Nodes
        BY <2>1, LeastOne
  <2>3. Min(FirstServing) \in FirstServing
        BY <2>1, LeastOne
  <2> QED BY <1>3, <2>1, <2>2, <2>3 DEF Rank0
<1>6. /\ stream' \in [Streams -> [state : {"none", "open", "published", "closed", "lost"},
                                  from : Nat, to : SUBSET Nodes]]
      /\ \A r \in Requests : stream'[r].state = "none"
      /\ stream'[Stale].state # "open"
  <2> DEFINE rest == [state |-> "published", from |-> Rank0, to |-> {Min(Nodes)}]
             all == [state : {"none", "open", "published", "closed", "lost"},
                     from : Nat, to : SUBSET Nodes]
  <2>1. rest \in all /\ rest.state = "published" /\ NoStream \in all /\ NoStream.state = "none"
        BY <1>5 DEF NoStream
  <2>2. stream' = IF old THEN [stream EXCEPT ![Stale] = rest] ELSE stream
        BY <1>2
  <2> HIDE DEF rest, all
  <2>3. stream' \in [Streams -> all]
        BY <1>3, <2>1, <2>2, DataSizes
  <2>4. \A r \in Requests : stream'[r] = NoStream
        BY <1>3, <2>2, DataSizes
  <2>5. stream'[Stale] \in {NoStream, rest}
        BY <1>3, <2>2, DataSizes
  <2> QED BY <2>1, <2>3, <2>4, <2>5 DEF all
<1>7. /\ plan' \in [kind : {"vision", "pressure"}, near : BOOLEAN, diag : BOOLEAN]
      /\ plan'.kind = "vision" => plan'.near /\ plan'.diag
      BY DEF StartData
<1>8. DataTypeOK'
      BY <1>1, <1>4, <1>6, <1>7 DEF DataInv, DataTypeOK
<1>9. Matched' /\ Faultless'
      BY <1>1, <1>3, <1>6, DataSizes DEF Matched, Faultless, Began
<1> QED BY <1>1, <1>3, <1>8, <1>9 DEF DataInv, DataTail, DataSteps, PassIsEvidence, NoFalseAlarm

\* The least of two sets of nodes.
LEMMA LeastNode == ASSUME NEW s, s \subseteq Nodes, s # {} PROVE Min(s) \in s
<1>1. s \subseteq Nat
      BY DataAssumption
<1> QED BY <1>1, LeastOne

LEMMA SelectKeeps == DataInv /\ Select => DataInv'
<1> SUFFICES ASSUME DataInv, Select PROVE DataInv'
    OBVIOUS
<1>1. /\ pc = "select" /\ before = NoSnapshot
      /\ UNCHANGED <<plan, sinksSeen, before, after, dataCluster, dataFaults>>
      /\ watched' = {owners'.near, owners'.far} \ {0}
      BY DEF Select, DataInv
<1>2. DataTypeOK /\ Matched /\ UNCHANGED <<plan, serving, reach, tally, stream, reply>>
      BY <1>1 DEF DataInv, dataCluster
<1>3. DataTypeOK' /\ Matched'
      BY <1>1, <1>2, ClusterRests DEF DataTypeOK, DataSteps
<1>4. dataFaults = 0 => Faultless /\ issues = {}
      BY <1>1 DEF DataInv, Faultless
<1>5. CASE pc' = "dataVerdict"
  <2>1. issues' = issues \cup {"topology"}
        BY <1>1, <1>5 DEF Select, Say
  <2>2. issues' # {}
        BY <2>1
  <2>3. dataFaults' = 0 => Faultless'
        BY <1>1, <1>2, <1>4, <1>5 DEF Faultless, Began
  <2>4. dataFaults = 0 => FirstServing = Nodes
    <3> SUFFICES ASSUME dataFaults = 0 PROVE FirstServing = Nodes
        OBVIOUS
    <3>1. serving = FirstServing /\ reach = Nodes
          BY <1>4 DEF Faultless
    <3>2. CASE plan.near
      <4>1. Near = {} \/ Far = {}
            BY <1>1, <1>5, <3>2 DEF Select
      <4> QED BY <3>1, <4>1, DataAssumption DEF Near, Far
    <3>3. CASE ~plan.near
      <4>1. Cardinality(reach) < 2
            BY <1>1, <1>5, <3>3 DEF Select
      <4>2. PICK n \in FirstServing : TRUE
            BY DataAssumption
      <4>3. ASSUME NEW m \in Nodes, m # n PROVE FALSE
        <5>1. {n, m} \subseteq Nodes
              BY <4>2, DataAssumption
        <5>2. Cardinality({n, m}) = 2
          <6>1. IsFiniteSet({n}) /\ Cardinality({n}) = 1 /\ m \notin {n}
                BY <4>3, FS_Singleton
          <6>2. {n, m} = {n} \cup {m} /\ Cardinality({n} \cup {m}) = 1 + 1
                BY <6>1, FS_AddElement
          <6> QED BY <6>2
        <5>3. Cardinality({n, m}) <= Cardinality(Nodes)
              BY <5>1, DataAssumption, FS_Subset
        <5>4. Cardinality(Nodes) \in Nat
              BY DataSizes
        <5> QED BY <3>1, <4>1, <5>2, <5>3, <5>4
      <4> QED BY <4>2, <4>3, DataAssumption
    <3> QED BY <3>2, <3>3
  <2> QED BY <1>1, <1>3, <1>5, <2>2, <2>3, <2>4
          DEF DataInv, DataTail, PassIsEvidence, NoFalseAlarm, DataPassed
<1>6. CASE pc' # "dataVerdict"
  <2>1. /\ UNCHANGED issues
        /\ pc' = IF plan.near /\ plan.kind = "vision" THEN "watch" ELSE "baseline"
        /\ IF plan.near THEN /\ Near # {} /\ Far # {}
                             /\ owners' = [near |-> Min(Near), far |-> Min(Far)]
           ELSE /\ Cardinality(reach) >= 2
                /\ owners' = [near |-> Min(reach), far |-> Min(reach \ {Min(reach)})]
        BY <1>1, <1>6 DEF Select
  <2>2. /\ owners'.near \in Nodes /\ owners'.far \in Nodes /\ owners'.near # owners'.far
        /\ plan.near => owners'.near = Min(Near) /\ owners'.near \in Near /\ owners'.far \in Far
    <3>1. CASE plan.near
      <4>1. Near \subseteq Nodes /\ Far \subseteq Nodes /\ Near \cap Far = {}
            BY <1>2 DEF Near, Far, DataTypeOK
      <4>2. Min(Near) \in Near /\ Min(Far) \in Far
            BY <2>1, <3>1, <4>1, LeastNode
      <4>3. owners'.near = Min(Near) /\ owners'.far = Min(Far)
            BY <2>1, <3>1
      <4> QED BY <4>1, <4>2, <4>3
    <3>2. CASE ~plan.near
      <4>1. Cardinality(reach) >= 2 /\ reach \subseteq Nodes
            BY <1>2, <2>1, <3>2 DEF DataTypeOK
      <4>2. reach # {} /\ \A n : reach # {n}
        <5>1. Cardinality({}) = 0
              BY FS_EmptySet
        <5>2. ASSUME NEW n, reach = {n} PROVE FALSE
          <6>1. Cardinality({n}) = 1
                BY FS_Singleton
          <6>2. Cardinality(reach) = 1
                BY <5>2, <6>1
          <6> QED BY <4>1, <6>2
        <5>3. reach # {}
          <6> SUFFICES ASSUME reach = {} PROVE FALSE
              OBVIOUS
          <6>1. Cardinality(reach) = 0
                BY <5>1
          <6> QED BY <4>1, <6>1
        <5> QED BY <5>2, <5>3
      <4>3. Min(reach) \in reach
            BY <4>1, <4>2, LeastNode
      <4>4. reach \ {Min(reach)} # {} /\ reach \ {Min(reach)} \subseteq Nodes
            BY <4>1, <4>2, <4>3
      <4>5. Min(reach \ {Min(reach)}) \in reach \ {Min(reach)}
            BY <4>4, LeastNode
      <4>6. owners'.near = Min(reach) /\ owners'.far = Min(reach \ {Min(reach)})
            BY <2>1, <3>2
      <4> QED BY <3>2, <4>1, <4>3, <4>5, <4>6
    <3> QED BY <3>1, <3>2
  <2>3. watched' = {owners'.near, owners'.far} /\ watched' \subseteq Nodes
        BY <1>1, <2>2, DataAssumption
  <2>4. Chosen'
    <3>1. plan'.kind = "vision" => pc' = "watch"
          BY <1>2, <2>1 DEF DataTypeOK
    <3>2. plan'.near /\ dataFaults' = 0 =>
             /\ owners'.near = Min(FirstServing) /\ owners'.near \in FirstServing
             /\ owners'.far \notin FirstServing
      <4> SUFFICES ASSUME plan.near, dataFaults = 0
                   PROVE  /\ owners'.near = Min(FirstServing) /\ owners'.near \in FirstServing
                          /\ owners'.far \notin FirstServing
          BY <1>1
      <4>1. Near = FirstServing /\ Far = Nodes \ FirstServing
            BY <1>4, DataAssumption DEF Near, Far, Faultless
      <4> QED BY <2>2, <4>1
    <3> QED BY <2>2, <2>3, <3>1, <3>2 DEF Chosen
  <2>5. dataFaults' = 0 => Faultless'
        BY <1>1, <1>2, <1>4, <2>1 DEF Faultless, Began
  <2> QED BY <1>1, <1>3, <2>1, <2>4, <2>5
          DEF DataInv, DataTail, DataSteps, PassIsEvidence, NoFalseAlarm
<1> QED BY <1>5, <1>6

LEMMA WatchKeeps == DataInv /\ Watch => DataInv'
<1> SUFFICES ASSUME DataInv, Watch PROVE DataInv'
    OBVIOUS
<1>1. /\ pc = "watch" /\ before = NoSnapshot /\ sinksSeen' = serving
      /\ UNCHANGED <<plan, owners, before, after, dataCluster, dataFaults>>
      BY DEF Watch, DataInv
<1>2. DataTypeOK /\ Chosen /\ UNCHANGED <<plan, serving, reach, tally, stream, reply>>
      BY <1>1 DEF DataInv, dataCluster
<1>3. DataTypeOK' /\ Matched'
      BY <1>1, <1>2, ClusterRests DEF DataTypeOK, DataSteps
<1>4. dataFaults = 0 => Faultless /\ issues = {} /\ serving = FirstServing /\ reach = Nodes
      BY <1>1 DEF DataInv, Faultless
<1>5. CASE serving \subseteq reach
  <2>1. watched' = watched \cup serving /\ pc' = "baseline" /\ UNCHANGED issues
        BY <1>5 DEF Watch
  <2>2. Chosen'
    <3>1. plan.kind = "vision" /\ serving # {} /\ serving \subseteq Nodes
          BY <1>1, <1>2 DEF DataInv, DataTypeOK
    <3> QED BY <1>1, <1>2, <1>4, <2>1, <3>1 DEF Chosen
  <2>3. dataFaults' = 0 => Faultless'
        BY <1>1, <1>2, <1>4, <2>1 DEF Faultless, Began
  <2> QED BY <1>1, <1>3, <2>1, <2>2, <2>3
          DEF DataInv, DataTail, DataSteps, PassIsEvidence, NoFalseAlarm
<1>6. CASE ~(serving \subseteq reach)
  <2>1. issues' # {} /\ pc' = "dataVerdict"
        BY <1>6 DEF Watch, Say
  <2>2. dataFaults # 0
        BY <1>4, <1>6, DataAssumption
  <2> QED BY <1>1, <1>3, <2>1, <2>2
          DEF DataInv, DataTail, PassIsEvidence, NoFalseAlarm, DataPassed
<1> QED BY <1>5, <1>6

\* The first snapshot: no watched owner is touched by a stream that is open.
LEMMA BaselineKeeps == DataInv /\ Baseline => DataInv'
<1> SUFFICES ASSUME DataInv, Baseline PROVE DataInv'
    OBVIOUS
<1>1. /\ pc = "baseline" /\ before = NoSnapshot
      /\ UNCHANGED <<plan, owners, watched, sinksSeen, after, dataCluster, dataFaults>>
      /\ pc' \in {"work", "dataVerdict"}
      BY DEF Baseline, DataInv
<1>2. DataTypeOK /\ Chosen /\ UNCHANGED <<plan, serving, reach, tally, stream, reply>>
      BY <1>1 DEF DataInv, dataCluster
<1>3. DataTypeOK' /\ Matched'
      BY <1>1, <1>2, ClusterRests DEF DataTypeOK, DataSteps
<1>4. dataFaults = 0 => Faultless /\ issues = {} /\ reach = Nodes
      BY <1>1 DEF DataInv, Faultless
<1>5. Chosen'
      BY <1>1, <1>2 DEF Chosen
<1>6. CASE ~plan.diag
  <2>1. pc' = "work" /\ UNCHANGED <<before, issues>>
        BY <1>6 DEF Baseline
  <2>2. dataFaults' = 0 => Faultless'
        BY <1>1, <1>2, <1>4, <2>1 DEF Faultless, Began
  <2> QED BY <1>1, <1>2, <1>3, <1>5, <1>6, <2>1, <2>2
          DEF DataInv, DataTail, DataSteps, PassIsEvidence, NoFalseAlarm
<1>7. CASE plan.diag /\ ~(watched \subseteq reach)
  <2>1. issues' # {} /\ UNCHANGED before
        BY <1>7 DEF Baseline, Say
  <2>2. dataFaults # 0
        BY <1>2, <1>4, <1>7 DEF Chosen
  <2> QED BY <1>1, <1>2, <1>3, <1>5, <2>1, <2>2
          DEF DataInv, DataTail, DataSteps, PassIsEvidence, NoFalseAlarm, DataPassed
<1>8. CASE plan.diag /\ watched \subseteq reach /\ (\E n \in watched : before'[n].live)
  <2>1. pc' = "dataVerdict" /\ issues' = issues \cup {"busy"}
        BY <1>8 DEF Baseline, Say
  <2>2. dataFaults' = 0 => Faultless'
        BY <1>1, <1>2, <1>4, <2>1 DEF Faultless, Began
  <2> QED BY <1>1, <1>3, <1>4, <2>1, <2>2
          DEF DataInv, DataTail, PassIsEvidence, NoFalseAlarm, DataPassed
<1>9. CASE plan.diag /\ watched \subseteq reach /\ ~(\E n \in watched : before'[n].live)
  <2>1. before' = Capture(watched) /\ pc' = "work" /\ UNCHANGED issues
        BY <1>9 DEF Baseline
  <2>2. \A n \in watched : before'[n].count = tally[n] /\ before'[n].live = Live(n)
        BY <2>1 DEF Capture, Snapshot
  <2>3. before' # NoSnapshot
    <3>1. DOMAIN before' = watched /\ watched # {}
          BY <1>2, <2>1 DEF Capture, Chosen
    <3>2. DOMAIN NoSnapshot = {}
          BY DEF NoSnapshot
    <3> QED BY <3>1, <3>2
  <2>4. before' \in [watched -> [count : Tallies, live : BOOLEAN]]
    <3>1. \A n \in watched : Snapshot(n) \in [count : Tallies, live : BOOLEAN]
      <4> TAKE n \in watched
      <4>1. tally[n] \in Tallies
            BY <1>2 DEF Chosen, DataTypeOK
      <4>2. Live(n) \in BOOLEAN
            BY DEF Live
      <4> QED BY <4>1, <4>2 DEF Snapshot
    <3> QED BY <2>1, <3>1 DEF Capture
  <2>5. \A r \in Requests : ~Began(r) /\ stream[r].state = "none"
    <3>1. Matched
          BY DEF DataInv
    <3> QED BY <1>1, <3>1 DEF Matched, Began
  <2>6. \A n : ClosedAt(n)' = {}
        BY <1>1, <1>2, <2>5, DataSizes DEF ClosedAt, Planned
  <2>7. ASSUME NEW n \in watched
        PROVE  /\ ~(Open(Stale) /\ Touches(Stale, n))'
               /\ Honest(n)' /\ NothingMissed(n)'
    <3>1. tally[n] \in Tallies /\ before'[n].count = tally[n] /\ tally' = tally
          BY <1>2, <2>2 DEF Chosen, DataTypeOK
    <3>2. Cardinality(ClosedAt(n)') = 0
          BY <2>6, FS_EmptySet
    <3>3. ~(Open(Stale) /\ Touches(Stale, n))
          BY <1>9, <2>2, DataSizes DEF Live
    <3>4. ~(Open(Stale) /\ Touches(Stale, n))'
          BY <1>2, <3>3 DEF Open, Touches
    <3>5. Honest(n)'
          BY <3>1, <3>2 DEF Honest, Tallies
    <3>6. \A r \in Planned' : ~Began(r)' /\ stream'[r].state = "none"
          BY <1>1, <1>2, <2>5, DataSizes DEF Planned, Began
    <3>7. NothingMissed(n)'
      <4>1. stream'[2].state = "none"
            BY <1>2, <2>5, DataSizes
      <4> QED BY <3>1, <3>2, <3>6, <4>1 DEF NothingMissed, Tallies
    <3> QED BY <3>4, <3>5, <3>7
  <2>8. Snapped'
        BY <1>1, <2>4, <2>7 DEF Snapped
  <2>9. dataFaults' = 0 => Faultless'
        BY <1>1, <1>2, <1>4, <2>1 DEF Faultless, Began
  <2> QED BY <1>1, <1>3, <1>5, <2>1, <2>3, <2>8, <2>9
          DEF DataInv, DataTail, DataSteps, PassIsEvidence, NoFalseAlarm
<1> QED BY <1>6, <1>7, <1>8, <1>9

LEMMA WorkedKeeps == DataInv /\ Worked => DataInv'
<1> SUFFICES ASSUME DataInv, Worked PROVE DataInv'
    OBVIOUS
<1>1. /\ pc = "work" /\ \A r \in Planned : Answered(r)
      /\ pc' = IF before # NoSnapshot THEN "settle" ELSE "dataVerdict"
      /\ issues' = issues \cup (IF \E r \in Planned : reply[r] # "good" THEN {"request"} ELSE {})
      /\ UNCHANGED <<plan, owners, watched, sinksSeen, before, after, dataCluster, dataFaults>>
      BY DEF Worked, Say
<1>2. /\ DataTypeOK /\ Chosen
      /\ UNCHANGED <<plan, serving, reach, tally, stream, reply, owners, Planned>>
      BY <1>1 DEF DataInv, dataCluster, Planned
<1>3. DataTypeOK' /\ Matched'
      BY <1>1, <1>2, ClusterRests DEF DataTypeOK, DataSteps
<1>4. dataFaults = 0 => Faultless /\ issues = {} /\ \A r \in Planned : reply[r] = "good"
      BY <1>1, DataSizes DEF DataInv, Faultless, Answered
<1>5. dataFaults' = 0 => Faultless' /\ issues' = {}
      BY <1>1, <1>2, <1>4 DEF Faultless, Began
<1>6. \A r \in Planned : Answered(r)' /\ (issues' = {} => reply'[r] = "good")
      BY <1>1, <1>2 DEF Answered
<1>7. CASE before # NoSnapshot
  <2>1. Chosen' /\ Snapped
        BY <1>1, <1>2, <1>7 DEF DataInv, Chosen
  <2>2. Snapped'
    <3>1. \A n : /\ Open(Stale)' = Open(Stale) /\ Touches(Stale, n)' = Touches(Stale, n)
                 /\ Honest(n)' = Honest(n) /\ NothingMissed(n)' = NothingMissed(n)
          BY <1>1, <1>2 DEF Open, Touches, Honest, NothingMissed, Began, ClosedAt
    <3> QED BY <1>1, <2>1, <3>1 DEF Snapped
  <2> QED BY <1>1, <1>2, <1>3, <1>5, <1>6, <1>7, <2>1, <2>2
          DEF DataInv, DataTail, DataSteps, PassIsEvidence, NoFalseAlarm
<1>8. CASE before = NoSnapshot
  <2>1. issues = {} => ~plan.diag
        BY <1>1, <1>8 DEF DataInv
  <2>2. issues' = {} => issues = {}
        BY <1>1
  <2> QED BY <1>1, <1>2, <1>3, <1>5, <1>8, <2>1, <2>2
          DEF DataInv, DataTail, PassIsEvidence, NoFalseAlarm, DataPassed
<1> QED BY <1>7, <1>8

-----------------------------------------------------------------------------
(* The verdict *)

\* What the state is when the second snapshot is due.
LEMMA SettleFacts ==
    ASSUME DataInv, Settle
    PROVE  /\ pc = "settle" /\ pc' = "dataVerdict" /\ DataTypeOK /\ Chosen /\ Matched
           /\ Snapped /\ \A r \in Planned : Answered(r) /\ (issues = {} => reply[r] = "good")
           /\ dataFaults = 0 => Faultless
           /\ UNCHANGED <<plan, serving, reach, tally, stream, reply, owners, watched,
                          sinksSeen, before, Planned>>
<1>1. /\ pc = "settle" /\ pc' = "dataVerdict"
      /\ UNCHANGED <<plan, owners, watched, sinksSeen, before, dataCluster>>
      BY DEF Settle
<1>2. UNCHANGED <<serving, reach, tally, stream, reply, Planned>>
      BY <1>1 DEF dataCluster, Planned
<1> QED BY <1>1, <1>2 DEF DataInv

\* As many streams closed at an owner as there are requests: all closed there.
LEMMA AllClosed ==
    ASSUME NEW s, s \subseteq Planned, Cardinality(s) >= Cardinality(Planned)
    PROVE  s = Planned
<1>1. IsFiniteSet(Planned) /\ Cardinality(Planned) \in Nat
      BY DataSizes, FS_CardinalityType
<1>2. Cardinality(s) \in Nat /\ Cardinality(s) <= Cardinality(Planned)
      BY <1>1, FS_Subset, FS_CardinalityType
<1>3. Cardinality(s) = Cardinality(Planned)
      BY <1>1, <1>2
<1> QED BY <1>1, <1>3, FS_Subset

\* The score of a vision test that finds nothing.
LEMMA VisionEvidence ==
    ASSUME DataInv, Settle, after' = Capture(watched), plan.kind = "vision",
           Successful = Cardinality(Planned), ~VisionShort
    PROVE  /\ \A r \in Planned : stream[r].state = "closed"
           /\ \E r \in Planned : Began(r) /\ stream[r].from \in stream[r].to
           /\ \E r \in Planned : Began(r) /\ stream[r].to \ {stream[r].from} # {}
<1>1. /\ DataTypeOK /\ Chosen /\ Snapped /\ pc = "settle"
      BY SettleFacts
<1>2. /\ sinksSeen # {} /\ sinksSeen \subseteq watched
      /\ owners.near \in watched /\ owners.far \in watched /\ watched \subseteq Nodes
      BY <1>1 DEF Chosen
<1>3. \A n \in watched : /\ after'[n].count = tally[n]
                         /\ tally[n] \in Tallies /\ before[n].count \in Tallies
                         /\ Honest(n)
      BY <1>1, <1>2 DEF Snapped, Capture, Snapshot, DataTypeOK
<1>4. \A r \in Planned : stream[r].state = "closed"
  <2>1. PICK n \in sinksSeen : TRUE
        BY <1>2
  <2>2. /\ n \in watched
        /\ ~(tally[n].closed - before[n].count.closed < Cardinality(Planned))
        BY <1>2, <1>3, <2>1 DEF VisionShort, Delta
  <2>3. /\ tally[n].closed \in Nat /\ before[n].count.closed \in Nat
        /\ tally[n].closed <= before[n].count.closed + Cardinality(ClosedAt(n))
        BY <1>3, <2>2 DEF Tallies, Honest
  <2>4. ClosedAt(n) \subseteq Planned
        BY DEF ClosedAt
  <2>5. Cardinality(Planned) \in Nat /\ Cardinality(ClosedAt(n)) \in Nat
        BY <2>4, DataSizes, FS_Subset, FS_CardinalityType
  <2>6. Cardinality(ClosedAt(n)) >= Cardinality(Planned)
        BY <2>2, <2>3, <2>5
  <2>7. ClosedAt(n) = Planned
        BY <2>4, <2>6, AllClosed
  <2> QED BY <2>7 DEF ClosedAt
<1>5. \E r \in Planned : Began(r) /\ stream[r].from \in stream[r].to
  <2> DEFINE n == owners.near
  <2>1. ~(tally[n].local - before[n].count.local <= 0)
        BY <1>2, <1>3 DEF VisionShort, Delta
  <2>2. tally[n].local > before[n].count.local
        BY <1>2, <1>3, <2>1 DEF Tallies
  <2> QED BY <1>2, <1>3, <2>2 DEF Honest
<1>6. \E r \in Planned : Began(r) /\ stream[r].to \ {stream[r].from} # {}
  <2> DEFINE n == owners.far
  <2>1. ~(tally[n].sent - before[n].count.sent <= 0)
        BY <1>2, <1>3 DEF VisionShort, Delta
  <2>2. tally[n].sent > before[n].count.sent
        BY <1>2, <1>3, <2>1 DEF Tallies
  <2> QED BY <1>2, <1>3, <2>2 DEF Honest
<1> QED BY <1>4, <1>5, <1>6

\* The score of a pressure test that finds nothing.
LEMMA PressureEvidence ==
    ASSUME DataInv, Settle, after' = Capture(watched), plan.kind = "pressure",
           Successful = Cardinality(Planned), ~PressureShort
    PROVE  /\ \A r \in Planned : stream[r].state = "closed"
           /\ plan.near =>
                 /\ \E r \in Planned : Began(r) /\ stream[r].from \in stream[r].to
                 /\ \E r \in Planned : Began(r) /\ stream[r].to \ {stream[r].from} # {}
<1> DEFINE n == owners.near
           f == owners.far
<1>1. /\ DataTypeOK /\ Chosen /\ Snapped /\ Matched
      BY SettleFacts
<1>2. n \in watched /\ f \in watched /\ n # f /\ watched \subseteq Nodes
      BY <1>1 DEF Chosen
<1>3. \A m \in watched : /\ after'[m].count = tally[m]
                         /\ tally[m] \in Tallies /\ before[m].count \in Tallies
                         /\ Honest(m)
      BY <1>1, <1>2 DEF Snapped, Capture, Snapshot, DataTypeOK
<1>4. /\ tally[n].closed \in Nat /\ before[n].count.closed \in Nat
      /\ tally[f].closed \in Nat /\ before[f].count.closed \in Nat
      /\ tally[n].closed <= before[n].count.closed + Cardinality(ClosedAt(n))
      /\ tally[f].closed <= before[f].count.closed + Cardinality(ClosedAt(f))
      BY <1>2, <1>3 DEF Tallies, Honest
<1>5. ~((tally[n].closed - before[n].count.closed) + (tally[f].closed - before[f].count.closed)
          < Cardinality(Planned))
      BY <1>2, <1>3 DEF PressureShort, Delta
<1>6. ClosedAt(n) \subseteq Planned /\ ClosedAt(f) \subseteq Planned
      BY DEF ClosedAt
<1>7. ClosedAt(n) \cap ClosedAt(f) = {}
  <2>1. \A r \in Planned : stream[r].state = "closed" => stream[r].to = {OwnerOf(r)}
        BY <1>1, DataSizes DEF Matched, Began
  <2> QED BY <1>2, <2>1 DEF ClosedAt
<1>8. /\ IsFiniteSet(ClosedAt(n)) /\ IsFiniteSet(ClosedAt(f))
      /\ Cardinality(ClosedAt(n)) \in Nat /\ Cardinality(ClosedAt(f)) \in Nat
      /\ Cardinality(Planned) \in Nat
      BY <1>6, DataSizes, FS_Subset, FS_CardinalityType
<1>9. Cardinality(ClosedAt(n) \cup ClosedAt(f)) =
         Cardinality(ClosedAt(n)) + Cardinality(ClosedAt(f))
  <2>1. Cardinality(ClosedAt(n) \cup ClosedAt(f)) =
           Cardinality(ClosedAt(n)) + Cardinality(ClosedAt(f))
              - Cardinality(ClosedAt(n) \cap ClosedAt(f))
        BY <1>8, FS_Union
  <2>2. Cardinality(ClosedAt(n) \cap ClosedAt(f)) = 0
        BY <1>7, FS_EmptySet
  <2> QED BY <1>8, <2>1, <2>2
<1>10. Cardinality(ClosedAt(n) \cup ClosedAt(f)) >= Cardinality(Planned)
      BY <1>4, <1>5, <1>8, <1>9
<1>11. ClosedAt(n) \cup ClosedAt(f) = Planned
      BY <1>6, <1>10, AllClosed
<1>12. \A r \in Planned : stream[r].state = "closed"
      BY <1>11 DEF ClosedAt
<1>13. ASSUME plan.near
       PROVE  /\ \E r \in Planned : Began(r) /\ stream[r].from \in stream[r].to
              /\ \E r \in Planned : Began(r) /\ stream[r].to \ {stream[r].from} # {}
  <2>1. /\ ~(tally[n].local - before[n].count.local <= 0)
        /\ ~(tally[n].sent - before[n].count.sent <= 0)
        BY <1>2, <1>3, <1>13 DEF PressureShort, Delta
  <2>2. tally[n].local > before[n].count.local /\ tally[n].sent > before[n].count.sent
        BY <1>2, <1>3, <2>1 DEF Tallies
  <2> QED BY <1>2, <1>3, <2>2 DEF Honest
<1> QED BY <1>12, <1>13

\* What a node's diagnostics show when nothing goes wrong.
LEMMA FaultlessCounts ==
    ASSUME DataInv, Settle, dataFaults' = 0, after' = Capture(watched), Awaited
    PROVE  /\ dataFaults = 0 /\ Faultless
           /\ \A n \in watched : ~Live(n) /\ ~Blemished(n) /\ NothingMissed(n)
           /\ \A r \in Requests : reply[r] \in {"none", "good"} /\ (Began(r) => reply[r] = "good")
           /\ \A n \in watched, r \in Planned :
                 Began(r) /\ Touches(r, n) => stream[r].state = "closed"
           /\ Successful = Cardinality(Planned)
<1>1. /\ DataTypeOK /\ Chosen /\ Snapped /\ Matched
      /\ \A r \in Planned : Answered(r)
      BY SettleFacts
<1>2. \A n \in watched : /\ after'[n].count = tally[n] /\ after'[n].live = Live(n)
      BY DEF Capture, Snapshot
<1>3. dataFaults = 0 /\ Faultless /\ \A n \in watched : ~Live(n)
  <2>1. dataFaults \in Nat
        BY <1>1 DEF DataTypeOK
  <2>2. (\A n \in watched : ~after'[n].live) /\ dataFaults = 0
        BY <2>1 DEF Awaited, DataFault
  <2> QED BY <1>2, <2>2, SettleFacts
<1>4. \A n \in watched : NothingMissed(n)
      BY <1>1, <1>3 DEF Snapped
<1>5. ASSUME NEW n \in watched PROVE ~Blemished(n)
  <2>1. tally[n] \in Tallies /\ before[n].count \in Tallies
        BY <1>1 DEF Chosen, DataTypeOK, Snapped
  <2>2. /\ tally[n].closed >= before[n].count.closed
        /\ tally[n].bad = before[n].count.bad /\ tally[n].local >= before[n].count.local
        /\ tally[n].queued >= before[n].count.queued /\ tally[n].sent >= before[n].count.sent
    <3>1. Cardinality(ClosedAt(n)) \in Nat
          BY DataSizes
    <3>2. /\ tally[n].closed = before[n].count.closed + Cardinality(ClosedAt(n))
          /\ tally[n].bad = before[n].count.bad /\ tally[n].local >= before[n].count.local
          /\ tally[n].queued >= before[n].count.queued /\ tally[n].sent >= before[n].count.sent
          BY <1>4 DEF NothingMissed
    <3>3. before[n].count.closed \in Nat
          BY <2>1 DEF Tallies
    <3> QED BY <3>1, <3>2, <3>3
  <2>3. \A f \in {"local", "queued", "sent", "closed", "bad"} :
           ~(tally[n][f] - before[n].count[f] < 0)
        BY <2>1, <2>2 DEF Tallies
  <2>4. Fields = {"local", "queued", "sent", "closed", "bad"}
        BY DEF Fields, Zero
  <2>5. \A f \in Fields : ~(Delta(n, f) < 0)
        BY <1>2, <2>3, <2>4 DEF Delta
  <2>6. ~(Delta(n, "bad") > 0)
        BY <1>2, <2>1, <2>2 DEF Delta, Tallies
  <2> QED BY <1>2, <1>3, <2>5, <2>6 DEF Blemished
<1>6. \A r \in Requests : reply[r] \in {"none", "good"} /\ (Began(r) => reply[r] = "good")
      BY <1>1, <1>3 DEF Matched, Faultless, Answered
<1>7. ASSUME NEW n \in watched, NEW r \in Planned, Began(r), Touches(r, n)
      PROVE  stream[r].state = "closed"
  <2>1. r \in Streams /\ r \in Requests
        BY DataSizes
  <2>2. ~Open(r)
        BY <1>3, <1>7, <2>1 DEF Live
  <2>3. stream[r].state \in {"none", "open", "published", "closed", "lost"}
        BY <1>1, <2>1 DEF DataTypeOK
  <2> QED BY <1>3, <1>7, <2>1, <2>2, <2>3 DEF Open, Began, Faultless
<1>8. Successful = Cardinality(Planned)
  <2>1. {r \in Planned : reply[r] \in {"good", "short"}} = Planned
        BY <1>1, <1>6, DataSizes DEF Answered
  <2> QED BY <2>1 DEF Successful
<1> QED BY <1>3, <1>4, <1>5, <1>6, <1>7, <1>8

\* Without a fault the score of a vision test finds nothing.
LEMMA VisionSound ==
    ASSUME DataInv, Settle, dataFaults' = 0, after' = Capture(watched), Awaited,
           plan.kind = "vision"
    PROVE  ~VisionShort
<1> DEFINE n == owners.near
           f == owners.far
<1>1. /\ DataTypeOK /\ Chosen /\ Snapped /\ Matched /\ pc = "settle"
      /\ \A r \in Planned : Answered(r)
      BY SettleFacts
<1>2. /\ dataFaults = 0 /\ Faultless
      /\ \A m \in watched : ~Live(m) /\ NothingMissed(m)
      /\ \A r \in Requests : reply[r] \in {"none", "good"}
      /\ \A m \in watched, r \in Planned :
            Began(r) /\ Touches(r, m) => stream[r].state = "closed"
      /\ Successful = Cardinality(Planned)
      BY FaultlessCounts
<1>3. /\ plan.near /\ n \in watched /\ f \in watched /\ n # f
      /\ n \in FirstServing /\ f \notin FirstServing
      /\ sinksSeen = FirstServing /\ sinksSeen \subseteq watched /\ watched \subseteq Nodes
      BY <1>1, <1>2 DEF Chosen, DataTypeOK
<1>4. \A m \in watched : /\ after'[m].count = tally[m]
                         /\ tally[m] \in Tallies /\ before[m].count \in Tallies
      BY <1>1, <1>3 DEF Snapped, Capture, Snapshot, DataTypeOK
<1>5. \A r \in Planned : /\ Began(r) /\ stream[r].from = OwnerOf(r)
                         /\ stream[r].to = FirstServing /\ stream[r].state = "closed"
  <2> TAKE r \in Planned
  <2>1. r \in Requests /\ reply[r] = "good"
        BY <1>1, <1>2, DataSizes DEF Answered
  <2>2. Began(r)
        BY <1>1, <2>1 DEF Matched
  <2>3. stream[r].from = OwnerOf(r) /\ stream[r].to = FirstServing
        BY <1>1, <1>2, <2>1, <2>2 DEF Matched, Faultless
  <2>4. Touches(r, n)
        BY <1>3, <2>3 DEF Touches
  <2> QED BY <1>2, <1>3, <2>2, <2>3, <2>4
<1>6. OwnerOf(1) = n /\ OwnerOf(2) = f /\ 1 \in Planned /\ 2 \in Planned
      BY DataSizes DEF OwnerOf
<1>7. ~(Delta(n, "local") <= 0)
  <2>1. tally[n].local > before[n].count.local
        BY <1>2, <1>3, <1>5, <1>6 DEF NothingMissed
  <2> QED BY <1>3, <1>4, <2>1 DEF Delta, Tallies
<1>8. ~(Delta(f, "sent") <= 0) /\ Delta(f, "queued") = Delta(f, "sent")
  <2>1. stream[2].from = f /\ stream[2].to \ {f} # {} /\ stream[2].state = "closed"
        BY <1>3, <1>5, <1>6
  <2>2. /\ tally[f].sent > before[f].count.sent
        /\ tally[f].queued - before[f].count.queued =
              (tally[f].sent - before[f].count.sent) + 0
        BY <1>2, <1>3, <1>6, <2>1 DEF NothingMissed
  <2> QED BY <1>3, <1>4, <2>2 DEF Delta, Tallies
<1>9. \A m \in sinksSeen : ~(Delta(m, "closed") < Successful)
  <2> TAKE m \in sinksSeen
  <2>1. m \in watched /\ m \in FirstServing
        BY <1>3
  <2>2. ClosedAt(m) = Planned
        BY <1>5, <2>1 DEF ClosedAt
  <2>3. tally[m].closed = before[m].count.closed + Cardinality(Planned)
        BY <1>2, <2>1, <2>2 DEF NothingMissed
  <2>4. Cardinality(Planned) \in Nat
        BY DataSizes
  <2> QED BY <1>2, <1>4, <2>1, <2>3, <2>4 DEF Delta, Tallies
<1> QED BY <1>7, <1>8, <1>9 DEF VisionShort

\* Nor does the score of a pressure test.
LEMMA PressureSound ==
    ASSUME DataInv, Settle, dataFaults' = 0, after' = Capture(watched), Awaited,
           plan.kind = "pressure"
    PROVE  ~PressureShort
<1> DEFINE n == owners.near
           f == owners.far
<1>1. /\ DataTypeOK /\ Chosen /\ Snapped /\ Matched
      /\ \A r \in Planned : Answered(r)
      BY SettleFacts
<1>2. /\ dataFaults = 0 /\ Faultless
      /\ \A m \in watched : ~Live(m) /\ NothingMissed(m)
      /\ \A r \in Requests : reply[r] \in {"none", "good"}
      /\ \A m \in watched, r \in Planned :
            Began(r) /\ Touches(r, m) => stream[r].state = "closed"
      /\ Successful = Cardinality(Planned)
      BY FaultlessCounts
<1>3. n \in watched /\ f \in watched /\ n # f /\ watched \subseteq Nodes
      BY <1>1 DEF Chosen
<1>4. \A m \in watched : /\ after'[m].count = tally[m]
                         /\ tally[m] \in Tallies /\ before[m].count \in Tallies
      BY <1>1, <1>3 DEF Snapped, Capture, Snapshot, DataTypeOK
<1>5. \A r \in Planned : /\ Began(r) /\ stream[r].from = Min(FirstServing)
                         /\ stream[r].to = {OwnerOf(r)} /\ stream[r].state = "closed"
  <2> TAKE r \in Planned
  <2>1. r \in Requests /\ reply[r] = "good"
        BY <1>1, <1>2, DataSizes DEF Answered
  <2>2. Began(r)
        BY <1>1, <2>1 DEF Matched
  <2>3. stream[r].from = Min(FirstServing) /\ stream[r].to = {OwnerOf(r)}
        BY <1>1, <1>2, <2>1, <2>2 DEF Matched, Faultless
  <2>4. Touches(r, OwnerOf(r)) /\ OwnerOf(r) \in watched
        BY <1>3, <2>3 DEF Touches, OwnerOf
  <2> QED BY <1>2, <2>2, <2>3, <2>4
<1>6. OwnerOf(1) = n /\ OwnerOf(2) = f /\ 1 \in Planned /\ 2 \in Planned
      BY DataSizes DEF OwnerOf
<1>7. \A r \in Planned : OwnerOf(r) \in {n, f}
      BY DEF OwnerOf
<1>8. /\ ClosedAt(n) \cup ClosedAt(f) = Planned /\ ClosedAt(n) \cap ClosedAt(f) = {}
  <2>1. \A r \in Planned : r \in ClosedAt(n) <=> OwnerOf(r) = n
        BY <1>5 DEF ClosedAt
  <2>2. \A r \in Planned : r \in ClosedAt(f) <=> OwnerOf(r) = f
        BY <1>5 DEF ClosedAt
  <2>3. ClosedAt(n) \subseteq Planned /\ ClosedAt(f) \subseteq Planned
        BY DEF ClosedAt
  <2> QED BY <1>3, <1>7, <2>1, <2>2, <2>3
<1>9. ~(Delta(n, "closed") + Delta(f, "closed") < Successful)
  <2>1. /\ IsFiniteSet(ClosedAt(n)) /\ IsFiniteSet(ClosedAt(f))
        /\ Cardinality(ClosedAt(n)) \in Nat /\ Cardinality(ClosedAt(f)) \in Nat
        BY DataSizes
  <2>2. Cardinality(ClosedAt(n) \cup ClosedAt(f)) =
           Cardinality(ClosedAt(n)) + Cardinality(ClosedAt(f))
              - Cardinality(ClosedAt(n) \cap ClosedAt(f))
        BY <2>1, FS_Union
  <2>3. Cardinality(ClosedAt(n) \cap ClosedAt(f)) = 0
        BY <1>8, FS_EmptySet
  <2>4. Cardinality(Planned) = Cardinality(ClosedAt(n)) + Cardinality(ClosedAt(f))
        BY <1>8, <2>1, <2>2, <2>3
  <2>5. /\ tally[n].closed = before[n].count.closed + Cardinality(ClosedAt(n))
        /\ tally[f].closed = before[f].count.closed + Cardinality(ClosedAt(f))
        BY <1>2, <1>3 DEF NothingMissed
  <2>6. /\ before[n].count.closed \in Nat /\ before[f].count.closed \in Nat
        BY <1>3, <1>4 DEF Tallies
  <2>7. /\ Delta(n, "closed") = Cardinality(ClosedAt(n))
        /\ Delta(f, "closed") = Cardinality(ClosedAt(f))
        BY <1>3, <1>4, <2>1, <2>5, <2>6 DEF Delta
  <2> QED BY <1>2, <2>1, <2>4, <2>7
<1>10. ASSUME plan.near
       PROVE  ~(Delta(n, "local") <= 0) /\ ~(Delta(n, "sent") <= 0)
  <2>1. n = Min(FirstServing)
        BY <1>1, <1>2, <1>10 DEF Chosen
  <2>2. /\ stream[1].from = n /\ n \in stream[1].to /\ Began(1)
        /\ stream[2].from = n /\ stream[2].to \ {n} # {} /\ stream[2].state = "closed"
        BY <1>3, <1>5, <1>6, <2>1
  <2>3. tally[n].local > before[n].count.local /\ tally[n].sent > before[n].count.sent
        BY <1>2, <1>3, <1>6, <2>2 DEF NothingMissed
  <2> QED BY <1>3, <1>4, <2>3 DEF Delta, Tallies
<1> QED BY <1>9, <1>10 DEF PressureShort

LEMMA SettleKeeps == DataInv /\ Settle => DataInv'
<1> SUFFICES ASSUME DataInv, Settle PROVE DataInv'
    OBVIOUS
<1>1. /\ pc = "settle" /\ pc' = "dataVerdict" /\ DataTypeOK /\ Chosen /\ Matched
      /\ Snapped /\ \A r \in Planned : Answered(r) /\ (issues = {} => reply[r] = "good")
      /\ dataFaults = 0 => Faultless
      /\ UNCHANGED <<plan, serving, reach, tally, stream, reply, owners, watched,
                     sinksSeen, before, Planned>>
      BY SettleFacts
<1>2. dataFaults \in Nat /\ dataFaults' \in Nat /\ (dataFaults' = 0 => dataFaults = 0)
      BY <1>1 DEF DataTypeOK, Settle, Awaited, DataFault
<1>3. DataTypeOK'
      BY <1>1, <1>2 DEF DataTypeOK
<1>4. Matched'
  <2>1. \A r : Began(r)' <=> Began(r)
        BY <1>1 DEF Began
  <2>2. \A r : OwnerOf(r)' = OwnerOf(r)
        BY <1>1 DEF OwnerOf
  <2> QED BY <1>1, <2>1, <2>2 DEF Matched
<1>5. dataFaults' = 0 => Faultless'
      BY <1>1, <1>2 DEF Faultless, Began
<1>6. CASE watched \subseteq reach /\ after' = Capture(watched) /\ Awaited /\ Say(Score)
  <2>1. PassIsEvidence'
    <3> SUFFICES ASSUME issues' = {}
                 PROVE  /\ \A r \in Planned : reply[r] = "good" /\ stream[r].state = "closed"
                        /\ plan.near =>
                              /\ \E r \in Planned : stream[r].from \in stream[r].to
                              /\ \E r \in Planned : stream[r].to \ {stream[r].from} # {}
        BY <1>1 DEF PassIsEvidence, DataPassed
    <3>1. issues = {} /\ Score = {}
          BY <1>6 DEF Say
    <3>2. /\ plan.kind = "vision" => ~VisionShort
          /\ plan.kind = "pressure" => ~PressureShort
          BY <3>1 DEF Score
    <3>3. \A r \in Planned : reply[r] = "good"
          BY <1>1, <3>1
    <3>4. Successful = Cardinality(Planned)
      <4>1. {r \in Planned : reply[r] \in {"good", "short"}} = Planned
            BY <3>3
      <4> QED BY <4>1 DEF Successful
    <3>5. plan.kind \in {"vision", "pressure"}
          BY <1>1 DEF DataTypeOK
    <3> QED BY <1>6, <3>2, <3>3, <3>4, <3>5, VisionEvidence, PressureEvidence
  <2>2. NoFalseAlarm'
    <3> SUFFICES ASSUME dataFaults' = 0 PROVE issues' = {}
        BY DEF NoFalseAlarm
    <3>1. issues = {}
          BY <1>1, <1>2 DEF Faultless
    <3>2. \A n \in watched : ~Blemished(n)
          BY <1>6, FaultlessCounts
    <3>3. /\ plan.kind = "vision" => ~VisionShort
          /\ plan.kind = "pressure" => ~PressureShort
          BY <1>6, VisionSound, PressureSound
    <3> QED BY <1>6, <3>1, <3>2, <3>3 DEF Say, Score
  <2> QED BY <1>1, <1>3, <1>4, <1>5, <2>1, <2>2 DEF DataInv, DataTail
<1>7. CASE ~(watched \subseteq reach) /\ Say({"diagnostics"}) /\ UNCHANGED <<after, dataFaults>>
  <2>1. issues' # {}
        BY <1>7 DEF Say
  <2>2. dataFaults' # 0
        BY <1>1, <1>2, <1>7 DEF Faultless, Chosen
  <2> QED BY <1>1, <1>3, <1>4, <2>1, <2>2
          DEF DataInv, DataTail, PassIsEvidence, NoFalseAlarm, DataPassed
<1> QED BY <1>6, <1>7 DEF Settle

LEMMA DataStep == DataInv /\ [DataNext]_<<pc, dataVars>> => DataInv'
<1> SUFFICES ASSUME DataInv, [DataNext]_<<pc, dataVars>> PROVE DataInv'
    OBVIOUS
<1>1. CASE StartData
      BY <1>1, StartDataKeeps
<1>2. CASE Select
      BY <1>2, SelectKeeps
<1>3. CASE Watch
      BY <1>3, WatchKeeps
<1>4. CASE Baseline
      BY <1>4, BaselineKeeps
<1>5. CASE Worked
      BY <1>5, WorkedKeeps
<1>6. CASE Settle
      BY <1>6, SettleKeeps
<1>7. CASE FinishData
  <2>1. DataIdle' /\ pc' = "idle"
        BY <1>7 DEF FinishData, DataIdle
  <2>2. (DataIdle /\ pc = "idle" => DataInv)'
        BY DataInit, PTL
  <2> QED BY <2>1, <2>2
<1>8. ASSUME NEW r \in Requests, Send(r) PROVE DataInv'
      BY <1>8, SendKeeps
<1>9. CASE DataPlane
  <2>1. ASSUME NEW r \in Streams, Publish(r) \/ Close(r) \/ Reply(r) \/ LoseStream(r)
        PROVE  DataInv'
        BY <1>9, <2>1, PublishKeeps, CloseKeeps, ReplyKeeps, LoseStreamKeeps DEF DataPlane
  <2>2. ASSUME NEW n \in Nodes, RestartNode(n) PROVE DataInv'
        BY <1>9, <2>2, RestartNodeKeeps DEF DataPlane
  <2>3. ASSUME Shift PROVE DataInv'
        BY <1>9, <2>3, ShiftKeeps DEF DataPlane
  <2> QED BY <1>9, <2>1, <2>2, <2>3 DEF DataPlane
<1>10. CASE UNCHANGED <<pc, dataVars>>
  <2>1. UNCHANGED <<pc, plan, serving, reach, tally, stream, reply, owners, watched,
                    sinksSeen, before, after, issues, dataFaults>>
        BY <1>10 DEF dataVars
  <2>2. /\ UNCHANGED <<DataTypeOK, DataIdle, Chosen, Matched, Faultless, PassIsEvidence,
                       NoFalseAlarm, Planned>>
        /\ \A r : UNCHANGED <<Answered(r), Open(r), Began(r)>>
        /\ \A n : UNCHANGED ClosedAt(n)
        BY <2>1 DEF DataTypeOK, DataIdle, Chosen, Matched, Faultless, PassIsEvidence,
                    NoFalseAlarm, Planned, Answered, Open, Began, ClosedAt, DataPassed, OwnerOf
  <2>3. UNCHANGED Snapped
    <3>1. \A n : UNCHANGED <<Touches(Stale, n), Honest(n), NothingMissed(n)>>
          BY <2>1, <2>2 DEF Touches, Honest, NothingMissed
    <3> QED BY <2>1, <2>2, <3>1 DEF Snapped
  <2> QED BY <2>1, <2>2, <2>3 DEF DataInv
<1> QED BY <1>1, <1>2, <1>3, <1>4, <1>5, <1>6, <1>7, <1>8, <1>9, <1>10 DEF DataNext

\* The counters claim no more than what happened since the first snapshot, and,
\* where nothing went wrong, no less.
THEOREM DataInvariant == DataSpec => []DataInv
<1> QED BY DataInit, DataStep, PTL DEF DataSpec

\* A test of the data plane that passes with its diagnostics saw all its media
\* arrive, on any cluster and under any faults (_score_vision_media_diagnostics,
\* _score_data_plane_diagnostics).
THEOREM DataEvident == DataSpec => []PassIsEvidence
<1>1. DataInv => PassIsEvidence
      BY DEF DataInv
<1> QED BY <1>1, DataInvariant, PTL

\* A test of a cluster in which nothing went wrong is failed only for a cluster
\* that was not idle, provided that some node does not serve: with none there is
\* no far owner to select (_select_model_owners).
THEOREM DataJust ==
    ASSUME FirstServing # Nodes PROVE DataSpec => []NoFalseAlarm
<1>1. DataInv => NoFalseAlarm
      BY DEF DataInv
<1> QED BY <1>1, DataInvariant, PTL

-----------------------------------------------------------------------------
(* The realtime test *)

Counters == [admitted : Nat, completed : Nat, failed : Nat, cancels : Nat]

RealtimeTypeOK ==
    /\ ask \in [kind : {"transcription", "chain", "conversation"},
                probe : BOOLEAN, diag : BOOLEAN]
    /\ held \subseteq 0..(LastOwner + 1)
    /\ ledger \in Counters
    /\ base \in [count : Counters, active : Nat]
    /\ session \in 1..(LastOwner + 1)
    /\ mishaps \in Nat

\* The ledger holds what the harness did since it read it first.
Accounted ==
    /\ base.count.completed <= ledger.completed
    /\ base.count.cancels <= ledger.cancels
    /\ base.count.failed = ledger.failed
    /\ ledger.admitted >= base.count.admitted + (session - 1) * TurnsAsked
                          + (IF pc = "probe" THEN 0 ELSE Probed)

\* Owners are served in order, a test that nothing spoke against served them
\* all and saw the probe's slot given back; and where nothing went wrong, the
\* ledger is complete and only a provider that was full speaks against it.
RealtimeInv ==
    /\ RealtimeTypeOK
    /\ pc \notin RealtimeSteps \cup {"realtimeVerdict"} => RealtimeIdle
    /\ found = {} => done = 1..(session - 1)
    /\ pc \in {"settleLedger", "realtimeVerdict"} /\ found = {} => session = LastOwner + 1
    /\ pc \in {"ledger", "probe", "release"} => session = 1
    /\ pc = "settleLedger" => ask.diag
    /\ pc \in {"session", "settleLedger", "realtimeVerdict"} /\ found = {}
          /\ ask.probe /\ base.active = 0 => Cut \notin held
    /\ pc = "realtimeVerdict" /\ found = {} /\ ask.diag =>
          Gain("failed") = 0 /\ Gain("completed") >= Expected
    /\ mishaps = 0 =>
          /\ found = {} \/ (pc = "realtimeVerdict" /\ base.active >= Slots)
          /\ pc = "probe" => Cardinality(held) <= base.active
          /\ (ask.probe \/ ask.diag) /\ pc \in RealtimeSteps \ {"ledger"} => Accounted

LEMMA RealtimeInit == RealtimeIdle /\ pc = "idle" => RealtimeInv
<1> SUFFICES ASSUME RealtimeIdle, pc = "idle" PROVE RealtimeInv
    OBVIOUS
<1>1. RealtimeTypeOK
      BY RealtimeAssumption DEF RealtimeTypeOK, RealtimeIdle, NoAsk, NoBase, Blank, Counters
<1>2. 1..(session - 1) = {}
      BY DEF RealtimeIdle
<1> QED BY <1>1, <1>2 DEF RealtimeInv, RealtimeIdle, RealtimeSteps

\* Two entries of a ledger changed at once.
LEMMA TwoEntries ==
    ASSUME NEW l \in Counters, NEW a \in Nat, NEW c \in Nat
    PROVE  /\ [l EXCEPT !.admitted = a, !.completed = c] =
                 [admitted |-> a, completed |-> c, failed |-> l.failed, cancels |-> l.cancels]
           /\ [l EXCEPT !.admitted = a, !.failed = c] =
                 [admitted |-> a, completed |-> l.completed, failed |-> c, cancels |-> l.cancels]
<1>1. \A k \in Counters, b \in Nat :
         /\ [k EXCEPT !.admitted = b] = [admitted |-> b, completed |-> k.completed,
                                         failed |-> k.failed, cancels |-> k.cancels]
         /\ [k EXCEPT !.completed = b] = [admitted |-> k.admitted, completed |-> b,
                                          failed |-> k.failed, cancels |-> k.cancels]
         /\ [k EXCEPT !.failed = b] = [admitted |-> k.admitted, completed |-> k.completed,
                                       failed |-> b, cancels |-> k.cancels]
      BY DEF Counters
<1> DEFINE k == [l EXCEPT !.admitted = a]
<1>2. k \in Counters /\ k.admitted = a /\ k.failed = l.failed /\ k.completed = l.completed
      /\ k.cancels = l.cancels
      BY DEF Counters
<1>3. /\ [l EXCEPT !.admitted = a, !.completed = c] = [[l EXCEPT !.admitted = a] EXCEPT !.completed = c]
      /\ [l EXCEPT !.admitted = a, !.failed = c] = [[l EXCEPT !.admitted = a] EXCEPT !.failed = c]
      OBVIOUS
<1>4. /\ [k EXCEPT !.completed = c] = [admitted |-> k.admitted, completed |-> c,
                                       failed |-> k.failed, cancels |-> k.cancels]
      /\ [k EXCEPT !.failed = c] = [admitted |-> k.admitted, completed |-> k.completed,
                                    failed |-> c, cancels |-> k.cancels]
  <2> HIDE DEF k
  <2> QED BY <1>1, <1>2
<1> QED BY <1>2, <1>3, <1>4

\* Whoever holds a slot is one of finitely many.
LEMMA HeldFinite ==
    ASSUME RealtimeInv
    PROVE  /\ IsFiniteSet(held) /\ Cardinality(held) \in Nat
           /\ \A s : s \subseteq held => Cardinality(s) <= Cardinality(held)
<1>1. IsFiniteSet(0..(LastOwner + 1))
      BY RealtimeAssumption, FS_Interval
<1>2. IsFiniteSet(held)
      BY <1>1, FS_Subset DEF RealtimeInv, RealtimeTypeOK
<1> QED BY <1>2, FS_CardinalityType, FS_Subset

LEMMA StartRealtimeKeeps == RealtimeInv /\ StartRealtime => RealtimeInv'
<1> SUFFICES ASSUME RealtimeInv, StartRealtime PROVE RealtimeInv'
    OBVIOUS
<1>1. /\ pc' = "ledger" /\ RealtimeIdle
      /\ UNCHANGED <<base, session, done, found, mishaps>>
      BY DEF RealtimeInv, StartRealtime, RealtimeSteps
<1>3. Blank \in Counters /\ [Blank EXCEPT !.admitted = 1, !.completed = 1] \in Counters
  <2>1. Blank \in Counters
        BY DEF Blank, Counters
  <2>2. Blank.failed = 0 /\ Blank.cancels = 0
        BY DEF Blank
  <2>3. [Blank EXCEPT !.admitted = 1, !.completed = 1] =
            [admitted |-> 1, completed |-> 1, failed |-> Blank.failed, cancels |-> Blank.cancels]
    <3>1. 1 \in Nat
          OBVIOUS
    <3> QED BY <2>1, <3>1, TwoEntries
  <2> QED BY <2>1, <2>2, <2>3 DEF Counters
<1>2. RealtimeTypeOK'
      BY <1>1, <1>3, RealtimeAssumption
         DEF RealtimeInv, RealtimeTypeOK, StartRealtime, Straggler
<1> QED BY <1>1, <1>2 DEF RealtimeInv, RealtimeIdle, RealtimeSteps

LEMMA ReadLedgerKeeps == RealtimeInv /\ ReadLedger => RealtimeInv'
<1> SUFFICES ASSUME RealtimeInv, ReadLedger PROVE RealtimeInv'
    OBVIOUS
<1>1. /\ pc = "ledger" /\ pc' = IF ask.probe THEN "probe" ELSE "session"
      /\ UNCHANGED <<ask, session, done, found, held, ledger, mishaps>>
      /\ base' = IF ask.probe \/ ask.diag
                 THEN [count |-> ledger, active |-> Cardinality(held)] ELSE NoBase
      BY DEF ReadLedger, provider
<1>2. RealtimeTypeOK'
      BY <1>1, HeldFinite DEF RealtimeInv, RealtimeTypeOK, NoBase, Blank, Counters
<1>3. ask.probe => Cardinality(held)' <= base'.active
      BY <1>1, HeldFinite
<1>4. ask.probe \/ ask.diag => Accounted'
  <2>1. session = 1 /\ TurnsAsked' \in Nat
        BY <1>1, RealtimeAssumption DEF RealtimeInv, TurnsAsked
  <2>2. ledger \in Counters
        BY DEF RealtimeInv, RealtimeTypeOK
  <2>3. (session' - 1) * TurnsAsked' = 0
    <3>1. session' - 1 = 0
          BY <1>1, <2>1
    <3>2. \A n \in Nat : 0 * n = 0
          OBVIOUS
    <3> HIDE DEF TurnsAsked
    <3> QED BY <2>1, <3>1, <3>2
  <2>4. (IF pc' = "probe" THEN 0 ELSE Probed') = 0
        BY <1>1 DEF Probed
  <2> QED BY <1>1, <2>2, <2>3, <2>4 DEF Accounted, Counters
<1> QED BY <1>1, <1>2, <1>3, <1>4 DEF RealtimeInv, RealtimeSteps

LEMMA ProbeKeeps == RealtimeInv /\ Probe => RealtimeInv'
<1> SUFFICES ASSUME RealtimeInv, Probe PROVE RealtimeInv'
    OBVIOUS
<1>1. pc = "probe" /\ UNCHANGED <<ask, base, session, done>> /\ session = 1
      BY DEF Probe, Abort, RealtimeInv
<1>2. CASE Room /\ held' = held \cup {Cut} /\ Add("admitted") /\ pc' = "release"
           /\ UNCHANGED <<found, mishaps>>
  <2>1. ledger' \in Counters /\ ledger'.admitted = ledger.admitted + 1
        /\ ledger'.completed = ledger.completed /\ ledger'.cancels = ledger.cancels
        /\ ledger'.failed = ledger.failed
        BY <1>2 DEF Add, RealtimeInv, RealtimeTypeOK, Counters
  <2>2. RealtimeTypeOK'
        BY <1>1, <1>2, <2>1, RealtimeAssumption DEF RealtimeInv, RealtimeTypeOK, Cut
  <2>3. Accounted => Accounted'
    <3>1. Probed' \in {0, 1} /\ TurnsAsked' = TurnsAsked /\ TurnsAsked \in Nat
          BY <1>1, RealtimeAssumption DEF Probed, TurnsAsked
    <3>2. (session - 1) * TurnsAsked = 0
      <4>1. session - 1 = 0
            BY <1>1
      <4> QED BY <3>1, <4>1
    <3>3. ((session - 1) * TurnsAsked)' = 0
          BY <1>1, <3>1, <3>2
    <3> HIDE DEF TurnsAsked, Probed
    <3> QED BY <1>1, <1>2, <2>1, <3>1, <3>2, <3>3 DEF Accounted, RealtimeInv, RealtimeTypeOK, Counters
  <2> QED BY <1>1, <1>2, <2>2, <2>3 DEF RealtimeInv, RealtimeSteps
<1>3. CASE Mishap /\ Report("uncut") /\ pc' = "release" /\ UNCHANGED held
           /\ ledger' = [ledger EXCEPT !.admitted = @ + 1, !.completed = @ + 1]
  <2>1. mishaps' # 0 /\ found' # {}
        BY <1>3 DEF Mishap, Report, RealtimeInv, RealtimeTypeOK
  <2>3. ledger' \in Counters
    <3>1. ledger \in Counters /\ ledger.admitted + 1 \in Nat /\ ledger.completed + 1 \in Nat
          BY DEF RealtimeInv, RealtimeTypeOK, Counters
    <3>2. ledger' = [ledger EXCEPT !.admitted = ledger.admitted + 1,
                                   !.completed = ledger.completed + 1]
          BY <1>3
    <3> QED BY <3>1, <3>2, TwoEntries DEF Counters
  <2>2. RealtimeTypeOK'
        BY <1>1, <1>3, <2>3 DEF RealtimeInv, RealtimeTypeOK, Mishap
  <2> QED BY <1>1, <1>3, <2>1, <2>2 DEF RealtimeInv, RealtimeSteps
<1>4. CASE ~Room /\ Abort /\ UNCHANGED <<provider, mishaps>>
  <2>1. found' # {} /\ pc' = "realtimeVerdict"
        BY <1>4 DEF Abort, Report
  <2>2. RealtimeTypeOK'
        BY <1>1, <1>4 DEF RealtimeInv, RealtimeTypeOK, provider
  <2>3. mishaps = 0 => base.active >= Slots
        BY <1>1, <1>4, HeldFinite, RealtimeAssumption DEF Room, RealtimeInv, RealtimeTypeOK
  <2> QED BY <1>1, <1>4, <2>1, <2>2, <2>3 DEF RealtimeInv, RealtimeSteps
<1> QED BY <1>2, <1>3, <1>4 DEF Probe

\* A deadline that passes is a mishap.
LEMMA LateCounts == RealtimeInv /\ Late => mishaps' \in Nat /\ mishaps' # 0
  BY RealtimeAssumption DEF Late, RealtimeInv, RealtimeTypeOK

\* An abort after a mishap disturbs nothing that still counts.
LEMMA AbortKeeps ==
    ASSUME RealtimeInv, Abort, pc \in RealtimeSteps, UNCHANGED held,
           ledger' \in Counters, mishaps' \in Nat, mishaps' # 0
    PROVE  RealtimeInv'
<1>1. /\ found' # {} /\ pc' = "realtimeVerdict" /\ UNCHANGED <<ask, base, session, done>>
      BY DEF Abort, Report
<1>2. RealtimeTypeOK'
      BY <1>1 DEF RealtimeInv, RealtimeTypeOK
<1> QED BY <1>1, <1>2 DEF RealtimeInv, RealtimeSteps

LEMMA AwaitReleaseKeeps == RealtimeInv /\ AwaitRelease => RealtimeInv'
<1> SUFFICES ASSUME RealtimeInv, AwaitRelease PROVE RealtimeInv'
    OBVIOUS
<1>1. pc = "release" /\ UNCHANGED <<held, ledger>>
      BY DEF AwaitRelease, provider
<1>2. CASE Released /\ pc' = "session" /\ UNCHANGED <<ask, base, session, done, found, mishaps>>
  <2>1. base.active = 0 => Cut \notin held
    <3>1. base.active = 0 => held = {}
          BY <1>2, HeldFinite, FS_EmptySet DEF Released, Drained
    <3> QED BY <3>1
  <2>2. RealtimeTypeOK' /\ (Accounted => Accounted')
        BY <1>1, <1>2 DEF RealtimeInv, RealtimeTypeOK, Accounted, TurnsAsked, Probed
  <2> QED BY <1>1, <1>2, <2>1, <2>2 DEF RealtimeInv, RealtimeSteps
<1>3. CASE Late /\ Abort
      BY <1>1, <1>3, LateCounts, AbortKeeps DEF RealtimeInv, RealtimeTypeOK, RealtimeSteps
<1> QED BY <1>2, <1>3 DEF AwaitRelease

LEMMA ConverseKeeps == RealtimeInv /\ Converse => RealtimeInv'
<1> SUFFICES ASSUME RealtimeInv, Converse PROVE RealtimeInv'
    OBVIOUS
<1>1. pc = "session" /\ session <= LastOwner /\ session \in Nat \ {0} /\ TurnsAsked \in Nat \ {0}
      BY RealtimeAssumption DEF Converse, RealtimeInv, RealtimeTypeOK, TurnsAsked
<1>2. CASE /\ held' = held \cup {session} /\ session' = session + 1
           /\ ledger' = [ledger EXCEPT !.admitted = @ + TurnsAsked,
                                       !.completed = @ + TurnsAsked - 1]
           /\ UNCHANGED <<pc, ask, base>>
           /\ \/ done' = done \cup {session} /\ UNCHANGED <<found, mishaps>>
              \/ Mishap /\ Report("score") /\ UNCHANGED done
  <2>1. /\ ledger' \in Counters
        /\ ledger'.admitted = ledger.admitted + TurnsAsked
        /\ ledger'.completed >= ledger.completed
        /\ ledger'.failed = ledger.failed /\ ledger'.cancels = ledger.cancels
    <3>1. /\ ledger \in Counters /\ ledger.admitted + TurnsAsked \in Nat
          /\ ledger.completed + TurnsAsked - 1 \in Nat
          BY <1>1 DEF RealtimeInv, RealtimeTypeOK, Counters
    <3>2. ledger' = [ledger EXCEPT !.admitted = ledger.admitted + TurnsAsked,
                                   !.completed = ledger.completed + TurnsAsked - 1]
          BY <1>2
    <3> HIDE DEF TurnsAsked
    <3>3. ledger' = [admitted |-> ledger.admitted + TurnsAsked,
                     completed |-> ledger.completed + TurnsAsked - 1,
                     failed |-> ledger.failed, cancels |-> ledger.cancels]
          BY <3>1, <3>2, TwoEntries
    <3> QED BY <1>1, <3>1, <3>3 DEF Counters
  <2>2. mishaps' \in Nat /\ (UNCHANGED <<found, mishaps>> \/ (mishaps' # 0 /\ found' # {}))
    <3>1. mishaps \in Nat
          BY DEF RealtimeInv, RealtimeTypeOK
    <3> QED BY <1>2, <3>1 DEF Mishap, Report
  <2>3. RealtimeTypeOK'
        BY <1>1, <1>2, <2>1, <2>2, RealtimeAssumption DEF RealtimeInv, RealtimeTypeOK
  <2>4. found' = {} => done' = 1..(session' - 1)
    <3>1. 1..session = 1..(session - 1) \cup {session}
          BY <1>1
    <3>2. session' - 1 = session
          BY <1>1, <1>2
    <3> QED BY <1>2, <2>2, <3>1, <3>2 DEF RealtimeInv, Report
  <2>5. Cut \notin held => Cut \notin held'
        BY <1>1, <1>2, RealtimeAssumption DEF Cut
  <2>6. Accounted => Accounted'
    <3>1. TurnsAsked' = TurnsAsked /\ Probed' = Probed /\ Probed \in {0, 1}
          BY <1>2 DEF TurnsAsked, Probed
    <3>4. ((session - 1) * TurnsAsked)' = (session' - 1) * TurnsAsked
          BY <3>1
    <3>2. (session' - 1) * TurnsAsked = (session - 1) * TurnsAsked + TurnsAsked
          BY <1>1, <1>2
    <3>3. (session - 1) * TurnsAsked \in Nat
          BY <1>1
    <3> DEFINE due == (session - 1) * TurnsAsked
    <3>5. due' = due + TurnsAsked /\ due \in Nat
          BY <3>2, <3>3, <3>4
    <3>6. Accounted =>
             /\ base.count.completed <= ledger.completed
             /\ base.count.cancels <= ledger.cancels
             /\ base.count.failed = ledger.failed
             /\ ledger.admitted >= base.count.admitted + due
                                + (IF pc = "probe" THEN 0 ELSE Probed)
          BY DEF Accounted
    <3>7. (ledger.admitted >= base.count.admitted + due
                              + (IF pc = "probe" THEN 0 ELSE Probed))'
             /\ base'.count.completed <= ledger'.completed
             /\ base'.count.cancels <= ledger'.cancels
             /\ base'.count.failed = ledger'.failed => Accounted'
          BY DEF Accounted
    <3> HIDE DEF due, TurnsAsked, Probed
    <3>8. ledger \in Counters /\ base.count \in Counters /\ UNCHANGED <<pc, base>>
          BY <1>2 DEF RealtimeInv, RealtimeTypeOK
    <3> QED BY <1>1, <2>1, <3>1, <3>5, <3>6, <3>7, <3>8 DEF Counters
  <2> QED BY <1>1, <1>2, <2>2, <2>3, <2>4, <2>5, <2>6 DEF RealtimeInv, RealtimeSteps
<1>3. CASE /\ Mishap /\ Abort /\ UNCHANGED held
           /\ \/ ledger' = [ledger EXCEPT !.admitted = @ + 1, !.failed = @ + 1]
              \/ UNCHANGED ledger
  <2>1. mishaps' \in Nat /\ mishaps' # 0 /\ ledger' \in Counters
    <3>1. ledger \in Counters /\ ledger.admitted + 1 \in Nat /\ ledger.failed + 1 \in Nat
          BY DEF RealtimeInv, RealtimeTypeOK, Counters
    <3>2. \/ ledger' = [ledger EXCEPT !.admitted = ledger.admitted + 1,
                                      !.failed = ledger.failed + 1]
          \/ ledger' = ledger
          BY <1>3
    <3>3. ledger' \in Counters
          BY <3>1, <3>2, TwoEntries DEF Counters
    <3> QED BY <1>3, <3>3 DEF Mishap, RealtimeInv, RealtimeTypeOK
  <2> QED BY <1>1, <1>3, <2>1, AbortKeeps DEF RealtimeSteps
<1> QED BY <1>2, <1>3 DEF Converse

LEMMA SessionsOverKeeps == RealtimeInv /\ SessionsOver => RealtimeInv'
<1> SUFFICES ASSUME RealtimeInv, SessionsOver PROVE RealtimeInv'
    OBVIOUS
<1>1. /\ pc = "session" /\ session = LastOwner + 1
      /\ UNCHANGED <<ask, held, ledger, base, session, done, found, mishaps>>
      /\ pc' = IF ask.diag THEN "settleLedger" ELSE "realtimeVerdict"
      BY RealtimeAssumption DEF SessionsOver, realtimeVars, RealtimeInv, RealtimeTypeOK
<1>2. RealtimeTypeOK' /\ (Accounted => Accounted')
      BY <1>1 DEF RealtimeInv, RealtimeTypeOK, Accounted, TurnsAsked, Probed
<1> QED BY <1>1, <1>2 DEF RealtimeInv, RealtimeSteps

LEMMA SettleLedgerKeeps == RealtimeInv /\ SettleLedger => RealtimeInv'
<1> SUFFICES ASSUME RealtimeInv, SettleLedger PROVE RealtimeInv'
    OBVIOUS
<1>1. /\ pc = "settleLedger" /\ pc' = "realtimeVerdict"
      /\ UNCHANGED <<ask, held, ledger, base, session, done>>
      /\ found' = found \cup IF LedgerShort THEN {"ledger"} ELSE {}
      /\ IF Complete THEN mishaps' = mishaps ELSE Late
      BY DEF SettleLedger, provider
<1>2. mishaps' \in Nat /\ (mishaps' = 0 => Complete /\ mishaps = 0)
      BY <1>1, LateCounts DEF RealtimeInv, RealtimeTypeOK
<1>3. RealtimeTypeOK'
      BY <1>1, <1>2 DEF RealtimeInv, RealtimeTypeOK
<1>4. found' = {} => found = {} /\ ~LedgerShort
      BY <1>1
<1>5. ~LedgerShort => Gain("failed") = 0 /\ Gain("completed") >= Expected
  <2>1. DOMAIN Blank = {"admitted", "completed", "failed", "cancels"}
        BY DEF Blank
  <2>2. Gain("failed") \in Int
        BY DEF Gain, RealtimeInv, RealtimeTypeOK, Counters
  <2>3. Gain("completed") \in Int /\ Expected \in Int
        BY RealtimeAssumption DEF Gain, Expected, TurnsAsked, RealtimeInv, RealtimeTypeOK, Counters
  <2> QED BY <2>1, <2>2, <2>3 DEF LedgerShort
<1>6. Gain("failed")' = Gain("failed") /\ Gain("completed")' = Gain("completed")
      /\ Expected' = Expected
      BY <1>1 DEF Gain, Expected, TurnsAsked
<1>7. mishaps' = 0 /\ ask.diag => ~LedgerShort
  <2> SUFFICES ASSUME mishaps' = 0, ask.diag PROVE ~LedgerShort
      OBVIOUS
  <2>1. Accounted /\ Complete /\ session = LastOwner + 1
        BY <1>1, <1>2 DEF RealtimeInv, RealtimeSteps
  <2>2. Gain("admitted") >= Expected + Probed
    <3>1. (session - 1) * TurnsAsked = Expected
          BY <2>1, RealtimeAssumption DEF Expected
    <3>2. Expected \in Nat /\ Probed \in Nat
          BY RealtimeAssumption DEF Expected, TurnsAsked, Probed
    <3>3. ledger.admitted >= base.count.admitted + Expected + Probed
          BY <1>1, <2>1, <3>1 DEF Accounted
    <3> QED BY <3>2, <3>3 DEF Gain, RealtimeInv, RealtimeTypeOK, Counters
  <2>3. Gain("failed") = 0 /\ Gain("completed") >= 0 /\ Gain("cancels") >= 0
        /\ Gain("admitted") >= 0
    <3>1. Expected \in Nat /\ Probed \in Nat
          BY RealtimeAssumption DEF Expected, TurnsAsked, Probed
    <3>2. Gain("admitted") \in Int
          BY DEF Gain, RealtimeInv, RealtimeTypeOK, Counters
    <3>3. Gain("failed") = 0 /\ Gain("completed") >= 0 /\ Gain("cancels") >= 0
          BY <2>1 DEF Accounted, Gain, RealtimeInv, RealtimeTypeOK, Counters
    <3> QED BY <2>2, <3>1, <3>2, <3>3
  <2>4. /\ Gain("admitted") \in Int /\ Gain("completed") \in Int
        /\ Gain("failed") \in Int /\ Gain("cancels") \in Int
        /\ Expected \in Nat /\ Probed \in Nat
        BY RealtimeAssumption
           DEF Gain, RealtimeInv, RealtimeTypeOK, Counters, Expected, TurnsAsked, Probed
  <2>5. \A f \in DOMAIN Blank : ~(Gain(f) < 0)
        BY <2>3, <2>4 DEF Blank
  <2>6. Gain("completed") >= Expected /\ Gain("cancels") >= Probed /\ Drained
        BY <2>1 DEF Complete
  <2> QED BY <2>2, <2>3, <2>4, <2>5, <2>6 DEF LedgerShort
<1>8. mishaps' = 0 => found' = {} \/ base.active >= Slots
  <2>1. pc = "settleLedger" => ask.diag
        BY DEF RealtimeInv
  <2> QED BY <1>1, <1>2, <1>7, <2>1 DEF RealtimeInv
<1> QED BY <1>1, <1>2, <1>3, <1>4, <1>5, <1>6, <1>8 DEF RealtimeInv, RealtimeSteps

LEMMA ProviderKeeps == RealtimeInv /\ Provider => RealtimeInv'
<1> SUFFICES ASSUME RealtimeInv, Provider PROVE RealtimeInv'
    OBVIOUS
<1>1. pc \in RealtimeSteps /\ UNCHANGED <<pc, ask, base, session, done, found>>
      BY DEF Provider, NoticeCut, RestartProvider, Release, Spoil, realtimeSide
<1>2. held' \subseteq held
      BY DEF Provider, NoticeCut, RestartProvider, Release, Spoil
<1>3. /\ ledger' \in Counters /\ mishaps' \in Nat
      /\ \/ mishaps' # 0
         \/ /\ mishaps' = mishaps /\ ledger'.admitted = ledger.admitted
            /\ ledger'.failed = ledger.failed
            /\ ledger'.completed >= ledger.completed /\ ledger'.cancels >= ledger.cancels
  <2>1. ledger \in Counters /\ mishaps \in Nat
        BY DEF RealtimeInv, RealtimeTypeOK
  <2>2. CASE NoticeCut
        BY <2>1, <2>2 DEF NoticeCut, Add, Counters
  <2>3. CASE RestartProvider
        BY <2>1, <2>3 DEF RestartProvider, Mishap, Counters, Blank
  <2>4. ASSUME NEW h \in held, Release(h)
        PROVE  /\ ledger' \in Counters /\ mishaps' \in Nat
               /\ mishaps' = mishaps /\ ledger'.admitted = ledger.admitted
               /\ ledger'.failed = ledger.failed
               /\ ledger'.completed >= ledger.completed /\ ledger'.cancels >= ledger.cancels
        BY <2>1, <2>4 DEF Release, Add, Counters
  <2>5. ASSUME NEW h \in held, Spoil(h)
        PROVE  ledger' \in Counters /\ mishaps' \in Nat /\ mishaps' # 0
        BY <2>1, <2>5 DEF Spoil, Mishap, Add, Counters
  <2> QED BY <2>2, <2>3, <2>4, <2>5 DEF Provider
<1>5. Cardinality(held') <= Cardinality(held)
      BY <1>2, HeldFinite
<1>6. RealtimeTypeOK'
      BY <1>1, <1>2, <1>3 DEF RealtimeInv, RealtimeTypeOK
<1>7. mishaps' = 0 /\ Accounted => Accounted'
  <2>1. TurnsAsked' = TurnsAsked /\ Probed' = Probed
        BY <1>1 DEF TurnsAsked, Probed
  <2>2. (session - 1) * TurnsAsked \in Int /\ Probed \in Int
        BY RealtimeAssumption DEF TurnsAsked, Probed, RealtimeInv, RealtimeTypeOK
  <2> QED BY <1>1, <1>3, <2>1, <2>2
          DEF Accounted, RealtimeInv, RealtimeTypeOK, Counters
<1>8. pc = "probe" /\ mishaps' = 0 => Cardinality(held') <= base.active
  <2>1. Cardinality(held') \in Nat
        BY <1>2, HeldFinite, FS_Subset, FS_CardinalityType
  <2> QED BY <1>3, <1>5, <2>1, HeldFinite DEF RealtimeInv, RealtimeTypeOK
<1> QED BY <1>1, <1>2, <1>3, <1>6, <1>7, <1>8 DEF RealtimeInv, RealtimeSteps

LEMMA RealtimeStep == RealtimeInv /\ [RealtimeNext]_<<pc, realtimeVars>> => RealtimeInv'
<1> SUFFICES ASSUME RealtimeInv, [RealtimeNext]_<<pc, realtimeVars>> PROVE RealtimeInv'
    OBVIOUS
<1>1. CASE Refused
  <2>1. pc \in RealtimeSteps /\ UNCHANGED <<held, ledger>> /\ Late /\ Abort
        BY <1>1 DEF Refused, provider, RealtimeSteps
  <2> QED BY <2>1, LateCounts, AbortKeeps DEF RealtimeInv, RealtimeTypeOK
<1>2. CASE FinishRealtime
  <2>1. RealtimeIdle' /\ pc' = "idle"
        BY <1>2 DEF FinishRealtime, RealtimeIdle
  <2>2. (RealtimeIdle /\ pc = "idle" => RealtimeInv)'
        BY RealtimeInit, PTL
  <2> QED BY <2>1, <2>2
<1>3. CASE UNCHANGED <<pc, realtimeVars>>
  <2>1. UNCHANGED <<pc, ask, held, ledger, base, session, done, found, mishaps>>
        BY <1>3 DEF realtimeVars
  <2>2. UNCHANGED <<RealtimeTypeOK, RealtimeIdle, Accounted, Gain("failed"),
                    Gain("completed"), Expected>>
        BY <2>1 DEF RealtimeTypeOK, RealtimeIdle, Accounted, TurnsAsked, Probed, Gain, Expected
  <2> QED BY <2>1, <2>2 DEF RealtimeInv
<1> QED BY <1>1, <1>2, <1>3, StartRealtimeKeeps, ReadLedgerKeeps, ProbeKeeps,
           AwaitReleaseKeeps, ConverseKeeps, SessionsOverKeeps, SettleLedgerKeeps,
           ProviderKeeps DEF RealtimeNext

LEMMA RealtimeFollows == RealtimeInv => PassIsServed /\ PatientEnough
  BY RealtimeAssumption DEF RealtimeInv, PassIsServed, PatientEnough, RealtimePassed

\* What the harness knows of the provider, step by step
\* (_run_realtime_transcription_test_inner).
THEOREM RealtimeInvariant == RealtimeSpec => []RealtimeInv
<1> QED BY RealtimeInit, RealtimeStep, PTL DEF RealtimeSpec

\* A realtime test passes only on sessions that the provider served, with every
\* slot given back, for any number of owners, turns and slots.
THEOREM RealtimeServed == RealtimeSpec => []PassIsServed
<1> QED BY RealtimeFollows, RealtimeInvariant, PTL

\* A provider that is only slow makes no realtime test fail that began with a
\* free slot (_run_realtime_transcription_test_inner).
THEOREM RealtimePatient == RealtimeSpec => []PatientEnough
<1> QED BY RealtimeFollows, RealtimeInvariant, PTL

-----------------------------------------------------------------------------
(* The models of a speech test *)

SpeechSteps == {"placing", "releasing", "speechVerdict"}
Book == [model : All, made : BOOLEAN]

SpeechTypeOK ==
    /\ speech \in [kind : Kinds, needs : Seq(All), reuse : BOOLEAN, retain : BOOLEAN]
    /\ Len(speech.needs) <= 2
    /\ speech.kind = "streaming" => Len(speech.needs) <= 1
    /\ books \in Seq(Book)
    /\ placedSoFar \in 0..Len(speech.needs)
    /\ Len(books) <= placedSoFar + (IF pc = "placing" THEN 0 ELSE 1)
    /\ Len(books) <= 2
    /\ torn \in 0..Len(books)
    /\ passing \in BOOLEAN

\* An entry of the books that says that the test made the model.
Booked(m) == \E k \in 1..Len(books) : books[k].model = m /\ books[k].made

\* What the test made is in its books or in one of the gaps between a request
\* and its entry, and of the entries that were worked off those that were owed
\* are down or warned of.
SpeechInv ==
    /\ SpeechTypeOK
    /\ pc \notin SpeechSteps => SpeechIdle
    /\ pc = "placing" => passing /\ torn = 0 /\ gap = {} /\ ending = "normal"
    /\ ending \in {"normal", "raised", "broken"}
    /\ ending = "raised" => ~passing
    /\ \A m \in (ours \cap madeNow) \ {OwnModel} :
          \/ m \in gap \/ Booked(m)
          \/ speech.kind = "streaming" /\ ~passing /\ books = <<>>
    /\ ending # "broken" =>
          \A k \in 1..torn : Owed(k) =>
             books[k].model \notin ours \/ books[k].model \in warned
    /\ pc = "speechVerdict" => torn = Len(books) \/ ending = "broken"

LEMMA SpeechLengths ==
    SpeechInv => /\ Len(books) \in Nat /\ Len(speech.needs) \in Nat /\ placedSoFar \in Nat
                 /\ pc = "placing" => Len(books) <= placedSoFar
                 /\ pc # "placing" => Len(books) <= placedSoFar + 1
  BY DEF SpeechInv, SpeechTypeOK

LEMMA SpeechInit == SpeechIdle /\ pc = "idle" => SpeechInv
<1> SUFFICES ASSUME SpeechIdle, pc = "idle" PROVE SpeechInv
    OBVIOUS
<1>1. speech = NoSpeech /\ books = <<>> /\ torn = 0 /\ placedSoFar = 0
      BY DEF SpeechIdle
<1>2. <<>> \in Seq(All) /\ <<>> \in Seq(Book) /\ Len(<<>>) = 0
      OBVIOUS
<1>3. SpeechTypeOK
      BY <1>1, <1>2 DEF SpeechTypeOK, SpeechIdle, NoSpeech, Kinds
<1>4. 1..torn = {} /\ ours = {}
      BY <1>1 DEF SpeechIdle
<1> QED BY <1>1, <1>3, <1>4 DEF SpeechInv, SpeechIdle, SpeechSteps

\* What a kind of test needs, at most two models.
LEMMA NeedsFew ==
    ASSUME NEW kind, NEW needs \in Needs(kind)
    PROVE  needs \in Seq(All) /\ Len(needs) \in 1..2
<1>1. CASE \E m \in All : needs = <<m>>
      BY <1>1
<1>2. CASE \E m \in Others, n \in All : needs = <<m, n>>
      BY <1>2 DEF All
<1> QED BY <1>1, <1>2 DEF Needs

\* The streaming test needs its synthesizer alone.
LEMMA OneSynthesizer ==
    ASSUME NEW needs \in Needs("streaming")
    PROVE  Len(needs) <= 1
<1>1. PICK m \in All : needs = <<m>>
      BY DEF Needs
<1> QED BY <1>1

LEMMA StartSpeechKeeps == SpeechInv /\ StartSpeech => SpeechInv'
<1> SUFFICES ASSUME SpeechInv, StartSpeech PROVE SpeechInv'
    OBVIOUS
<1>1. /\ SpeechIdle /\ pc' = "placing"
      /\ UNCHANGED <<placedSoFar, books, madeNow, gap, torn, warned, passing, ending>>
      BY DEF StartSpeech, SpeechInv, SpeechSteps
<1>2. PICK kind \in Kinds, reuse \in BOOLEAN, retain \in BOOLEAN :
         \E needs \in Needs(kind) :
            speech' = [kind |-> kind, needs |-> needs, reuse |-> reuse, retain |-> retain]
      BY DEF StartSpeech
<1>6. PICK needs \in Needs(kind) :
         speech' = [kind |-> kind, needs |-> needs, reuse |-> reuse, retain |-> retain]
      BY <1>2
<1>3. /\ speech' \in [kind : Kinds, needs : Seq(All), reuse : BOOLEAN, retain : BOOLEAN]
      /\ Len(speech'.needs) \in Nat /\ Len(speech'.needs) <= 2
      /\ speech'.kind = "streaming" => Len(speech'.needs) <= 1
  <2>1. /\ needs \in Seq(All) /\ Len(needs) \in Nat /\ Len(needs) <= 2
        /\ kind = "streaming" => Len(needs) <= 1
    <3>1. needs \in Seq(All) /\ Len(needs) \in 1..2
          BY <1>6, NeedsFew, Zenon
    <3>3. kind = "streaming" => Len(needs) <= 1
      <4>1. SUFFICES ASSUME kind = "streaming" PROVE Len(needs) <= 1
            OBVIOUS
      <4>2. needs \in Needs("streaming")
            BY <1>6, <4>1
      <4> QED BY <4>2, OneSynthesizer
    <3>2. \A n \in 1..2 : n \in Nat /\ n <= 2
          OBVIOUS
    <3>4. Len(needs) \in Nat /\ Len(needs) <= 2
          BY <3>1, <3>2
    <3> QED BY <3>1, <3>3, <3>4
  <2>2. speech' \in [kind : Kinds, needs : Seq(All), reuse : BOOLEAN, retain : BOOLEAN]
        BY <1>6, <2>1
  <2>3. speech'.kind = kind /\ speech'.needs = needs
        BY <1>6
  <2> QED BY <2>1, <2>2, <2>3
<1>4. SpeechTypeOK'
  <2>1. books' = <<>> /\ torn' = 0 /\ placedSoFar' = 0 /\ passing' = TRUE
        BY <1>1 DEF SpeechIdle
  <2>2. <<>> \in Seq(Book) /\ Len(<<>>) = 0
        OBVIOUS
  <2>3. Len(speech'.needs) \in Nat
        BY <1>3
  <2>4. passing' \in BOOLEAN /\ books' \in Seq(Book) /\ Len(books') = 0
        BY <2>1, <2>2
  <2>5. placedSoFar' \in 0..Len(speech'.needs) /\ torn' \in 0..Len(books')
        BY <2>1, <2>3, <2>4
  <2>6. /\ Len(speech'.needs) <= 2
        /\ speech'.kind = "streaming" => Len(speech'.needs) <= 1
        BY <1>3
  <2>8. Len(books') <= 2 /\ Len(books') <= placedSoFar' + (IF pc' = "placing" THEN 0 ELSE 1)
        BY <1>1, <2>1, <2>4
  <2>7. speech' \in [kind : Kinds, needs : Seq(All), reuse : BOOLEAN, retain : BOOLEAN]
        BY <1>3
  <2> QED BY <2>4, <2>5, <2>6, <2>7, <2>8 DEF SpeechTypeOK
<1>5. 1..torn' = {} /\ madeNow' = {}
      BY <1>1 DEF SpeechIdle
<1> QED BY <1>1, <1>4, <1>5 DEF SpeechInv, SpeechIdle, SpeechSteps

\* The next model that is needed.
LEMMA NextNeeded ==
    ASSUME SpeechInv, placedSoFar < Len(speech.needs)
    PROVE  Next1 \in All /\ placedSoFar + 1 \in 0..Len(speech.needs) /\ placedSoFar <= 1
<1>1. speech.needs \in Seq(All) /\ placedSoFar \in Nat /\ Len(speech.needs) <= 2
      BY DEF SpeechInv, SpeechTypeOK
<1> QED BY <1>1 DEF Next1

\* The books have one more entry.
LEMMA EntryKept ==
    ASSUME SpeechInv, NEW m \in All, NEW made \in BOOLEAN, Keep(m, made)
    PROVE  /\ books' \in Seq(Book) /\ Len(books') = Len(books) + 1
           /\ \A k \in 1..Len(books) : books'[k] = books[k]
           /\ books'[Len(books) + 1] = [model |-> m, made |-> made]
           /\ \A n : Booked(n) => Booked(n)'
           /\ made => Booked(m)'
<1> DEFINE entry == [model |-> m, made |-> made]
<1>1. entry \in Book /\ books \in Seq(Book) /\ books' = Append(books, entry)
      /\ entry.model = m /\ entry.made = made
      BY DEF Keep, Book, SpeechInv, SpeechTypeOK
<1> HIDE DEF entry
<1>2. /\ books' \in Seq(Book) /\ Len(books') = Len(books) + 1
      /\ \A k \in 1..Len(books) : books'[k] = books[k]
      /\ books'[Len(books) + 1] = entry
      /\ Len(books) \in Nat
      BY <1>1
<1>3. \A n : Booked(n) => Booked(n)'
      BY <1>2 DEF Booked
<1>4. made => Booked(m)'
  <2>1. Len(books) + 1 \in 1..Len(books')
        BY <1>2
  <2>2. made => books'[Len(books) + 1].model = m /\ books'[Len(books) + 1].made
        BY <1>1, <1>2
  <2> QED BY <2>1, <2>2 DEF Booked
<1> QED BY <1>2, <1>3, <1>4 DEF entry

LEMMA ReuseKeeps == SpeechInv /\ (Skip \/ Reuse) => SpeechInv'
<1> SUFFICES ASSUME SpeechInv, Skip \/ Reuse PROVE SpeechInv'
    OBVIOUS
<1>1. /\ pc = "placing" /\ placedSoFar < Len(speech.needs)
      /\ placedSoFar' = placedSoFar + 1
      /\ UNCHANGED <<pc, speech, ours, theirs, madeNow, gap, torn, warned, passing, ending>>
      BY DEF Skip, Reuse, Ready
<1>2. /\ books' \in Seq(Book) /\ Len(books') \in Len(books)..(Len(books) + 1)
      /\ \A n : Booked(n) => Booked(n)'
  <2>1. CASE UNCHANGED books
        BY <2>1 DEF Booked, SpeechInv, SpeechTypeOK
  <2>2. CASE Keep(Next1, FALSE)
    <3>1. Len(books) \in Nat
          BY DEF SpeechInv, SpeechTypeOK
    <3>2. PICK m \in All : m = Next1
          BY <1>1, NextNeeded
    <3>3. Keep(m, FALSE)
          BY <2>2, <3>2 DEF Keep
    <3>4. FALSE \in BOOLEAN
          OBVIOUS
    <3>5. /\ books' \in Seq(Book) /\ Len(books') = Len(books) + 1
          /\ \A n : Booked(n) => Booked(n)'
          BY <3>2, <3>3, <3>4, EntryKept
    <3> QED BY <3>1, <3>5
  <2> QED BY <2>1, <2>2 DEF Skip, Reuse, Ready
<1>3. SpeechTypeOK'
  <2>1. Len(books) \in Nat /\ Len(books) <= placedSoFar /\ placedSoFar <= 1
        BY <1>1, NextNeeded DEF SpeechInv, SpeechTypeOK
  <2> QED BY <1>1, <1>2, <2>1, NextNeeded DEF SpeechInv, SpeechTypeOK
<1>4. 1..torn' = {}
      BY <1>1 DEF SpeechInv
<1> QED BY <1>1, <1>2, <1>3, <1>4 DEF SpeechInv, SpeechSteps

LEMMA PlaceKeeps == SpeechInv /\ Place => SpeechInv'
<1> SUFFICES ASSUME SpeechInv, Place PROVE SpeechInv'
    OBVIOUS
<1>1. /\ pc = "placing" /\ placedSoFar < Len(speech.needs)
      /\ UNCHANGED <<speech, gap, torn, warned, ending>>
      /\ torn = 0 /\ passing /\ gap = {} /\ ending = "normal"
      BY DEF Place, Ready, GiveUp, SpeechInv
<1>2. PICK m \in All : m = Next1
      BY <1>1, NextNeeded
<1>8. placedSoFar + 1 \in 0..Len(speech.needs) /\ placedSoFar <= 1
      BY <1>1, NextNeeded
<1>3. /\ Len(books) \in Nat /\ Len(books) <= placedSoFar /\ placedSoFar \in Nat
      /\ books \in Seq(Book)
      BY <1>1 DEF SpeechInv, SpeechTypeOK
<1>4. 1..torn' = {} /\ ending' = "normal"
      BY <1>1
<1>5. \/ /\ pc' = "placing" /\ passing' = passing /\ placedSoFar' = placedSoFar + 1
         /\ Keep(m, TRUE)
         /\ ours' = ours \cup {m} /\ madeNow' = madeNow \cup {m}
      \/ /\ pc' = "releasing" /\ passing' = FALSE /\ placedSoFar' = placedSoFar
         /\ ours' = ours \cup {m} /\ madeNow' = madeNow \cup {m}
         /\ IF speech.kind # "streaming" THEN Keep(m, TRUE) ELSE UNCHANGED books
      \/ /\ pc' = "releasing" /\ passing' = FALSE
         /\ UNCHANGED <<ours, madeNow, books, placedSoFar>>
  <2>1. \A made : Keep(Next1, made) <=> Keep(m, made)
        BY <1>2 DEF Keep
  <2> QED BY <1>1, <1>2, <2>1 DEF Place, Ready, GiveUp, NotedEarly
<1>6. CASE Keep(m, TRUE) /\ ours' = ours \cup {m} /\ madeNow' = madeNow \cup {m}
           /\ passing' \in BOOLEAN
           /\ \/ pc' = "placing" /\ passing' /\ placedSoFar' = placedSoFar + 1
              \/ pc' = "releasing" /\ ~passing' /\ placedSoFar' = placedSoFar
  <2>1. /\ books' \in Seq(Book) /\ Len(books') = Len(books) + 1
        /\ \A n : Booked(n) => Booked(n)'
        /\ Booked(m)'
        BY <1>6, EntryKept
  <2>2. SpeechTypeOK'
        BY <1>1, <1>3, <1>6, <1>8, <2>1 DEF SpeechInv, SpeechTypeOK
  <2>3. \A n \in (ours' \cap madeNow') \ {OwnModel} : n \in gap' \/ Booked(n)'
        BY <1>1, <1>6, <2>1 DEF SpeechInv
  <2> QED BY <1>1, <1>4, <1>6, <2>2, <2>3 DEF SpeechInv, SpeechSteps
<1>7. CASE /\ pc' = "releasing" /\ passing' = FALSE
           /\ UNCHANGED <<books, placedSoFar>>
           /\ UNCHANGED <<ours, madeNow>> \/ speech.kind = "streaming"
  <2>1. \A n : Booked(n) => Booked(n)'
        BY <1>7 DEF Booked
  <2>2. passing' \in BOOLEAN
        BY <1>7
  <2>3. SpeechTypeOK'
        BY <1>1, <1>7, <2>2, SpeechLengths DEF SpeechInv, SpeechTypeOK
  <2>4. speech.kind = "streaming" => books' = <<>>
    <3>1. speech.kind = "streaming" => Len(books) = 0
          BY <1>1, <1>3, <1>8 DEF SpeechInv, SpeechTypeOK
    <3> QED BY <1>3, <1>7, <3>1
  <2>5. \A n \in (ours' \cap madeNow') \ {OwnModel} :
           \/ n \in gap' \/ Booked(n)'
           \/ speech'.kind = "streaming" /\ ~passing' /\ books' = <<>>
    <3>1. CASE UNCHANGED <<ours, madeNow>>
          BY <1>1, <1>7, <2>1, <3>1 DEF SpeechInv
    <3>2. CASE speech.kind = "streaming"
          BY <1>1, <1>7, <2>4, <3>2
    <3> QED BY <1>7, <3>1, <3>2
  <2> QED BY <1>1, <1>4, <1>7, <2>1, <2>3, <2>5 DEF SpeechInv, SpeechSteps
<1> QED BY <1>1, <1>5, <1>6, <1>7 DEF SpeechInv, SpeechTypeOK

LEMMA PlaceRaisesKeeps == SpeechInv /\ PlaceRaises => SpeechInv'
<1> SUFFICES ASSUME SpeechInv, PlaceRaises PROVE SpeechInv'
    OBVIOUS
<1>1. /\ pc = "placing" /\ pc' = "releasing" /\ passing' = FALSE
      /\ UNCHANGED <<speech, placedSoFar, books, torn, warned>>
      /\ ending' \in {"raised", "normal"}
      /\ torn = 0 /\ gap = {} /\ passing
      BY DEF PlaceRaises, SpeechInv
<1>2. \/ UNCHANGED <<ours, madeNow, gap>>
      \/ ours' = ours \cup {Next1} /\ madeNow' = madeNow \cup {Next1} /\ gap' = {Next1}
      BY DEF PlaceRaises
<1>3. SpeechTypeOK' /\ \A n : Booked(n)' <=> Booked(n)
  <2>1. \A n : Booked(n)' <=> Booked(n)
        BY <1>1 DEF Booked
  <2>2. passing' \in BOOLEAN
        BY <1>1
  <2>3. SpeechTypeOK'
        BY <1>1, <2>2, SpeechLengths DEF SpeechInv, SpeechTypeOK
  <2> QED BY <2>1, <2>3
<1>4. 1..torn' = {}
      BY <1>1
<1>5. \A n \in (ours' \cap madeNow') \ {OwnModel} : n \in gap' \/ Booked(n)'
      BY <1>1, <1>2, <1>3 DEF SpeechInv
<1> QED BY <1>1, <1>3, <1>4, <1>5 DEF SpeechInv, SpeechSteps

LEMMA WorkKeeps == SpeechInv /\ Work => SpeechInv'
<1> SUFFICES ASSUME SpeechInv, Work PROVE SpeechInv'
    OBVIOUS
<1>1. /\ pc = "placing" /\ pc' = "releasing" /\ passing' \in BOOLEAN
      /\ UNCHANGED <<speech, ours, placedSoFar, books, madeNow, gap, torn, warned>>
      /\ ending' = "normal" \/ (ending' = "raised" /\ ~passing')
      /\ torn = 0 /\ gap = {} /\ passing
      BY DEF Work, SpeechInv
<1>3. SpeechTypeOK' /\ \A n : Booked(n)' <=> Booked(n)
      BY <1>1 DEF SpeechInv, SpeechTypeOK, Booked
<1>4. 1..torn' = {}
      BY <1>1
<1> QED BY <1>1, <1>3, <1>4 DEF SpeechInv, SpeechSteps

\* One entry more is worked off.
LEMMA TurnedKeeps ==
    ASSUME SpeechInv, pc = "releasing", torn < Len(books), Turned, UNCHANGED ending,
           ours' \subseteq ours, warned \subseteq warned',
           Owed(torn + 1) => books[torn + 1].model \notin ours'
                             \/ books[torn + 1].model \in warned'
    PROVE  SpeechInv'
<1>1. /\ torn' = torn + 1 /\ torn \in Nat
      /\ UNCHANGED <<pc, speech, placedSoFar, books, madeNow, gap, passing, ending>>
      BY DEF Turned, SpeechInv, SpeechTypeOK
<1>2. \A k : /\ Booked(k)' <=> Booked(k)
             /\ Owed(k)' <=> Owed(k)
      BY <1>1 DEF Booked, Owed, Skipped, Repeated
<1>3. SpeechTypeOK'
      BY <1>1 DEF SpeechInv, SpeechTypeOK
<1>4. ending' # "broken" => \A k \in 1..torn' : Owed(k)' =>
         books'[k].model \notin ours' \/ books'[k].model \in warned'
  <2>1. \A k \in 1..torn' : k \in 1..torn \/ k = torn + 1
        BY <1>1
  <2> QED BY <1>1, <1>2, <2>1 DEF SpeechInv
<1> QED BY <1>1, <1>2, <1>3, <1>4 DEF SpeechInv, SpeechSteps

LEMMA SpeechStep == SpeechInv /\ [SpeechNext]_<<pc, speechVars>> => SpeechInv'
<1> SUFFICES ASSUME SpeechInv, [SpeechNext]_<<pc, speechVars>> PROVE SpeechInv'
    OBVIOUS
<1>1. CASE \E m \in theirs : Withdraw(m)
  <2>1. /\ pc = "placing"
        /\ UNCHANGED <<pc, speech, ours, placedSoFar, books, madeNow, gap, torn, warned,
                       passing, ending>>
        BY <1>1 DEF Withdraw
  <2>2. SpeechTypeOK' /\ \A k : (Booked(k)' <=> Booked(k)) /\ (Owed(k)' <=> Owed(k))
        BY <2>1 DEF SpeechInv, SpeechTypeOK, Booked, Owed, Skipped, Repeated
  <2> QED BY <2>1, <2>2 DEF SpeechInv, SpeechSteps
<1>2. CASE TakeDown
      BY <1>2, TurnedKeeps DEF TakeDown
<1>3. CASE Pass
      BY <1>3, TurnedKeeps DEF Pass
<1>4. CASE BreakOff
  <2>1. /\ pc = "releasing" /\ pc' = "speechVerdict" /\ ending' = "broken"
        /\ UNCHANGED <<speech, ours, placedSoFar, books, madeNow, gap, torn, warned, passing>>
        BY <1>4 DEF BreakOff
  <2>2. SpeechTypeOK' /\ \A k : Booked(k)' <=> Booked(k)
        BY <2>1 DEF SpeechInv, SpeechTypeOK, Booked
  <2> QED BY <2>1, <2>2 DEF SpeechInv, SpeechSteps
<1>5. CASE GaveBack \/ UNCHANGED <<pc, speechVars>>
  <2>1. /\ UNCHANGED <<speech, ours, theirs, placedSoFar, books, madeNow, gap, torn, warned,
                       passing, ending, slips>>
        /\ \/ UNCHANGED pc
           \/ pc = "releasing" /\ pc' = "speechVerdict" /\ torn = Len(books)
        BY <1>5 DEF GaveBack, speechVars
  <2>2. /\ SpeechTypeOK' /\ (SpeechIdle' <=> SpeechIdle)
        /\ \A k : (Booked(k)' <=> Booked(k)) /\ (Owed(k)' <=> Owed(k))
        BY <2>1 DEF SpeechInv, SpeechTypeOK, SpeechIdle, Booked, Owed, Skipped, Repeated
  <2> QED BY <2>1, <2>2 DEF SpeechInv, SpeechSteps
<1>6. CASE FinishSpeech
  <2>1. SpeechIdle' /\ pc' = "idle"
        BY <1>6 DEF FinishSpeech, SpeechIdle
  <2>2. (SpeechIdle /\ pc = "idle" => SpeechInv)'
        BY SpeechInit, PTL
  <2> QED BY <2>1, <2>2
<1> QED BY <1>1, <1>2, <1>3, <1>4, <1>5, <1>6, StartSpeechKeeps, ReuseKeeps, PlaceKeeps,
           PlaceRaisesKeeps, WorkKeeps DEF SpeechNext

LEMMA SpeechFollows == SpeechInv => LeftBehindKnown
<1> SUFFICES ASSUME SpeechInv, pc = "speechVerdict",
                    NEW m \in (ours \cap madeNow) \ {OwnModel}
             PROVE  \/ speech.retain \/ m \in warned \cup gap \/ ending = "broken"
                    \/ speech.kind = "streaming" /\ (books = <<>> \/ ending = "raised")
                    \/ Len(books) = 2 /\ Repeated(2) /\ ~books[1].made
    BY DEF LeftBehindKnown
<1> SUFFICES ASSUME ~speech.retain, m \notin warned \cup gap, ending # "broken",
                    ~(speech.kind = "streaming" /\ (books = <<>> \/ ending = "raised"))
             PROVE  Len(books) = 2 /\ Repeated(2) /\ ~books[1].made
    OBVIOUS
<1>1. PICK k \in 1..Len(books) : books[k].model = m /\ books[k].made
      BY DEF SpeechInv, Booked
<1>2. /\ torn = Len(books) /\ Len(books) \in Nat /\ Len(books) <= 2
      /\ books \in Seq(Book)
      BY DEF SpeechInv, SpeechTypeOK
<1>3. ~Skipped
      BY DEF SpeechInv, Skipped
<1>4. \A i \in 1..Len(books) : books[i].model = m => ~Owed(i)
      BY <1>2 DEF SpeechInv
<1>5. Repeated(k)
      BY <1>1, <1>3, <1>4 DEF Owed
<1>6. k = 2 /\ Len(books) = 2
      BY <1>2, <1>5 DEF Repeated
<1>7. ~books[1].made
  <2>1. books[1].model = m /\ 1 \in 1..Len(books)
        BY <1>1, <1>5, <1>6 DEF Repeated
  <2>2. ~Repeated(1)
        BY DEF Repeated
  <2> QED BY <1>3, <1>4, <2>1, <2>2 DEF Owed
<1> QED BY <1>5, <1>6, <1>7

\* What a speech test made is in its books or in a gap that the property names
\* (_ensure_model_placed and the teardown of each kind of test).
THEOREM SpeechInvariant == SpeechSpec => []SpeechInv
<1> QED BY SpeechInit, SpeechStep, PTL DEF SpeechSpec

\* What a speech test leaves behind is what LeftBehindKnown names, whatever the
\* names of its models are.
THEOREM SpeechLeavesNothing == SpeechSpec => []LeftBehindKnown
<1> QED BY SpeechFollows, SpeechInvariant, PTL

-----------------------------------------------------------------------------
(* The word error rate *)

\* The function on 0..n with values in S that a start and a step build.
Built(f, S, start, step, n) ==
    /\ f \in [0..n -> S]
    /\ f[0] = start
    /\ \A k \in 1..n : f[k] = step[<<k, f[k - 1]>>]

\* A function on 0..n with a given start and a given step exists.
LEMMA Recursion ==
    ASSUME NEW S, NEW start \in S, NEW step \in [Nat \X S -> S], NEW n \in Nat
    PROVE  \E f : Built(f, S, start, step, n)
<1> DEFINE built(f, m) ==
               f[0] = start /\ \A k \in 1..m : f[k] = step[<<k, f[k - 1]>>]
           bad == {m \in Nat : ~\E f \in [0..m -> S] : built(f, m)}
<1>1. bad = {}
  <2> SUFFICES ASSUME bad # {} PROVE FALSE
      OBVIOUS
  <2>1. PICK m \in Nat : m \in bad /\ \A k \in bad : m <= k
    <3>1. bad \subseteq Nat
          OBVIOUS
    <3>2. Min(bad) \in bad /\ \A k \in bad : Min(bad) <= k
      <4> HIDE DEF bad
      <4> QED BY <3>1, LeastOne
    <3> QED BY <3>1, <3>2
  <2>2. m # 0
    <3>1. [k \in 0..0 |-> start] \in [0..0 -> S] /\ built([k \in 0..0 |-> start], 0)
          OBVIOUS
    <3> QED BY <2>1, <3>1
  <2>3. m - 1 \in Nat /\ m - 1 \notin bad
    <3>1. m - 1 \in Nat /\ ~(m <= m - 1)
          BY <2>1, <2>2
    <3> HIDE DEF bad
    <3> QED BY <2>1, <3>1
  <2>4. PICK g \in [0..(m - 1) -> S] : built(g, m - 1)
        BY <2>3
  <2> DEFINE h == [k \in 0..m |-> IF k = m THEN step[<<m, g[m - 1]>>] ELSE g[k]]
  <2>5. \A k \in 0..(m - 1) : k \in 0..m /\ k # m /\ h[k] = g[k]
        BY <2>1, <2>3
  <2>6. h[m] = step[<<m, g[m - 1]>>] /\ g[m - 1] \in S
        BY <2>1, <2>3
  <2>7. h[m] \in S
        BY <2>1, <2>6
  <2>8. h \in [0..m -> S]
    <3>1. \A k \in 0..m : k # m => k \in 0..(m - 1)
          BY <2>1
    <3>2. \A k \in 0..m : h[k] \in S
      <4> HIDE DEF h
      <4> QED BY <2>4, <2>5, <2>7, <3>1
    <3> QED BY <3>2
  <2>9. built(h, m)
    <3> HIDE DEF h
    <3>1. h[0] = start
      <4>1. 0 \in 0..(m - 1)
            BY <2>3
      <4> QED BY <2>4, <2>5, <4>1
    <3>2. ASSUME NEW k \in 1..m PROVE h[k] = step[<<k, h[k - 1]>>]
      <4>1. k - 1 \in 0..(m - 1)
            BY <2>1
      <4>2. h[k - 1] = g[k - 1]
            BY <2>5, <4>1
      <4>3. CASE k = m
            BY <2>6, <4>2, <4>3
      <4>4. CASE k # m
        <5>1. k \in 1..(m - 1) /\ k \in 0..(m - 1)
              BY <2>1, <4>4
        <5> QED BY <2>4, <2>5, <4>2, <5>1
      <4> QED BY <4>3, <4>4
    <3> QED BY <3>1, <3>2
  <2>10. m \notin bad
         BY <2>8, <2>9
  <2> QED BY <2>1, <2>10
<1>2. n \notin bad
      BY <1>1
<1> QED BY <1>2 DEF Built

LEMMA LeastOfThree ==
    ASSUME NEW a \in Nat, NEW b \in Nat, NEW c \in Nat
    PROVE  /\ Min({a, b, c}) \in {a, b, c} /\ Min({a, b, c}) \in Nat
           /\ Min({a, b, c}) <= a /\ Min({a, b, c}) <= b /\ Min({a, b, c}) <= c
  BY LeastOne

\* What replacing the i-th word of the reference by the j-th of the
\* transcript costs.
Replacing(reference, transcript, i, j) ==
    IF reference[i] = transcript[j] THEN 0 ELSE 1

\* One entry of the table of _word_error_rate, from its three neighbours.
Entry(reference, transcript, i, j, left, above, corner) ==
    Min({left + 1, above + 1, corner + Replacing(reference, transcript, i, j)})

\* The table of _word_error_rate.
TableOf(d, reference, transcript) ==
    /\ d \in [0..Len(reference) -> [0..Len(transcript) -> Nat]]
    /\ \A j \in 0..Len(transcript) : d[0][j] = j
    /\ \A i \in 1..Len(reference) : d[i][0] = i
    /\ \A i \in 1..Len(reference), j \in 1..Len(transcript) :
          d[i][j] = Entry(reference, transcript, i, j,
                          d[i][j - 1], d[i - 1][j], d[i - 1][j - 1])

\* The next row of the table, left to right.
RowAfter(reference, transcript, i, previous) ==
    LET current[j \in 0..Len(transcript)] ==
            IF j = 0 THEN i
            ELSE Min({current[j - 1] + 1, previous[j] + 1,
                      previous[j - 1] + IF reference[i] = transcript[j] THEN 0 ELSE 1})
    IN  current

LEMMA RowDefined ==
    ASSUME NEW reference, NEW transcript, Len(transcript) \in Nat,
           NEW i \in Nat, NEW previous \in [0..Len(transcript) -> Nat],
           NEW row, row = RowAfter(reference, transcript, i, previous)
    PROVE  /\ row \in [0..Len(transcript) -> Nat]
           /\ row[0] = i
           /\ \A j \in 1..Len(transcript) :
                 row[j] = Entry(reference, transcript, i, j,
                                row[j - 1], previous[j], previous[j - 1])
<1> DEFINE n == Len(transcript)
           at(j) == IF j \in 0..n THEN previous[j] ELSE 0
           step == [x \in Nat \X Nat |->
                       Entry(reference, transcript, i, x[1], x[2], at(x[1]), at(x[1] - 1))]
           body(g) == [j \in 0..n |->
                         IF j = 0 THEN i
                         ELSE Min({g[j - 1] + 1, previous[j] + 1,
                                   previous[j - 1] +
                                     IF reference[i] = transcript[j] THEN 0 ELSE 1})]
<1>1. step \in [Nat \X Nat -> Nat]
  <2>1. ASSUME NEW j \in Nat, NEW left \in Nat, NEW above \in Nat, NEW corner \in Nat
        PROVE  Entry(reference, transcript, i, j, left, above, corner) \in Nat
    <3>1. corner + Replacing(reference, transcript, i, j) \in Nat
          BY DEF Replacing
    <3> QED BY <3>1, LeastOfThree DEF Entry
  <2>2. \A j \in Int : at(j) \in Nat
        OBVIOUS
  <2>3. ASSUME NEW j \in Nat, NEW left \in Nat
        PROVE  Entry(reference, transcript, i, j, left, at(j), at(j - 1)) \in Nat
    <3>1. at(j) \in Nat /\ at(j - 1) \in Nat
          BY <2>2
    <3> HIDE DEF at
    <3> QED BY <2>1, <3>1
  <2> HIDE DEF at
  <2> QED BY <2>3
<1>2. PICK f \in [0..n -> Nat] : f[0] = i /\ \A j \in 1..n : f[j] = step[<<j, f[j - 1]>>]
  <2>1. step \in [Nat \X Nat -> Nat] /\ i \in Nat /\ n \in Nat
        BY <1>1
  <2>2. \E f : Built(f, Nat, i, step, n)
    <3> HIDE DEF step, n
    <3> QED BY <2>1, Recursion, Zenon
  <2>3. PICK f : Built(f, Nat, i, step, n)
        BY <2>2
  <2> HIDE DEF step
  <2> QED BY <2>3 DEF Built
<1>3. ASSUME NEW j \in 1..n
      PROVE  f[j] = Entry(reference, transcript, i, j, f[j - 1], previous[j], previous[j - 1])
  <2>1. j - 1 \in 0..n /\ j \in 0..n /\ <<j, f[j - 1]>> \in Nat \X Nat
        OBVIOUS
  <2>2. at(j) = previous[j] /\ at(j - 1) = previous[j - 1]
        BY <2>1
  <2> HIDE DEF at
  <2> QED BY <1>2, <2>1, <2>2
<1>4. f = body(f)
  <2>1. ASSUME NEW j \in 0..n PROVE f[j] = body(f)[j]
    <3>1. CASE j = 0
          BY <1>2, <3>1
    <3>2. CASE j # 0
      <4>1. j \in 1..n
            BY <3>2
      <4> QED BY <1>3, <3>2, <4>1 DEF Entry, Replacing
    <3> QED BY <3>1, <3>2
  <2> QED BY <2>1
<1>5. row = CHOOSE g : g = body(g)
      BY DEF RowAfter
<1>6. row = body(row)
  <2> HIDE DEF body
  <2> QED BY <1>4, <1>5
<1>7. \A j \in 0..n : row[j] = IF j = 0 THEN i
                       ELSE Min({row[j - 1] + 1, previous[j] + 1,
                                 previous[j - 1] +
                                   IF reference[i] = transcript[j] THEN 0 ELSE 1})
      BY <1>6
<1>8. row[0] = i /\ \A j \in 1..n :
         row[j] = Entry(reference, transcript, i, j,
                        row[j - 1], previous[j], previous[j - 1])
  <2>1. 0 \in 0..n /\ \A j \in 1..n : j \in 0..n /\ j # 0
        OBVIOUS
  <2>2. row[0] = i
        BY <1>7, <2>1
  <2>3. ASSUME NEW j \in 1..n
        PROVE  row[j] = Entry(reference, transcript, i, j,
                              row[j - 1], previous[j], previous[j - 1])
    <3> HIDE DEF n
    <3> QED BY <1>7, <2>1 DEF Entry, Replacing
  <2> QED BY <2>2, <2>3
<1>9. \A j \in 0..n : row[j] \in Nat
  <2> DEFINE bad == {j \in 0..n : row[j] \notin Nat}
  <2> SUFFICES ASSUME bad # {} PROVE FALSE
      OBVIOUS
  <2>1. PICK j \in 0..n : row[j] \notin Nat /\ \A k \in bad : j <= k
    <3>1. bad \subseteq Nat /\ \A k \in bad : k \in 0..n /\ row[k] \notin Nat
          OBVIOUS
    <3> HIDE DEF bad
    <3> QED BY <3>1, LeastOne
  <2>2. j \in 1..n /\ j - 1 \in 0..n /\ j \in 0..n
        BY <1>8, <2>1
  <2>3. row[j - 1] \in Nat
    <3>1. ~(j <= j - 1)
          BY <2>1
    <3> QED BY <2>1, <2>2, <3>1
  <2>4. step[<<j, row[j - 1]>>] \in Nat
    <3> HIDE DEF step
    <3> QED BY <1>1, <2>2, <2>3
  <2>5. step[<<j, row[j - 1]>>]
           = Entry(reference, transcript, i, j, row[j - 1], previous[j], previous[j - 1])
    <3>1. at(j) = previous[j] /\ at(j - 1) = previous[j - 1]
          BY <2>2
    <3> HIDE DEF at
    <3> QED BY <2>2, <2>3, <3>1
  <2> HIDE DEF step
  <2> QED BY <1>8, <2>1, <2>2, <2>4, <2>5
<1>10. row \in [0..n -> Nat]
  <2>1. row = [j \in 0..n |-> row[j]]
        BY <1>6
  <2> HIDE DEF body, n
  <2> QED BY <1>9, <2>1
<1> QED BY <1>8, <1>10

\* WordErrors is the last entry of a table of that kind.
LEMMA TableDefined ==
    ASSUME NEW reference, NEW transcript,
           Len(reference) \in Nat, Len(transcript) \in Nat
    PROVE  \E d : /\ TableOf(d, reference, transcript)
                  /\ WordErrors(reference, transcript)
                        = d[Len(reference)][Len(transcript)]
<1> DEFINE n == Len(reference)
           Rows == [0..Len(transcript) -> Nat]
           first == [j \in 0..Len(transcript) |-> j]
           step == [x \in Nat \X Rows |-> RowAfter(reference, transcript, x[1], x[2])]
           body(g) == [i \in 0..n |-> IF i = 0 THEN first
                                      ELSE RowAfter(reference, transcript, i, g[i - 1])]
<1>1. first \in Rows
      OBVIOUS
<1>2. \A i \in Nat, previous \in Rows :
         RowAfter(reference, transcript, i, previous) \in Rows
      BY RowDefined
<1>3. step \in [Nat \X Rows -> Rows]
  <2> HIDE DEF Rows
  <2> QED BY <1>2
<1>4. PICK f : Built(f, Rows, first, step, n)
  <2>1. n \in Nat
        OBVIOUS
  <2> HIDE DEF Rows, first, step, n
  <2> QED BY <1>1, <1>3, <2>1, Recursion, Zenon
<1>5. f = body(f)
  <2>1. ASSUME NEW i \in 0..n PROVE f[i] = body(f)[i]
    <3>1. CASE i = 0
      <4> HIDE DEF Rows, first
      <4> QED BY <1>4, <3>1 DEF Built
    <3>2. CASE i # 0
      <4>1. i \in 1..n /\ i - 1 \in 0..n /\ i \in Nat
            BY <3>2
      <4>2. f[i - 1] \in Rows /\ f[i] = step[<<i, f[i - 1]>>]
        <5> HIDE DEF Rows, step
        <5> QED BY <1>4, <4>1 DEF Built
      <4>3. f[i] = RowAfter(reference, transcript, i, f[i - 1])
        <5> HIDE DEF Rows
        <5> QED BY <4>1, <4>2
      <4> HIDE DEF Rows, first
      <4> QED BY <3>2, <4>3
    <3> QED BY <3>1, <3>2
  <2>2. f = [i \in 0..n |-> f[i]]
    <3> HIDE DEF Rows, step, first
    <3> QED BY <1>4 DEF Built
  <2> HIDE DEF Rows, step, first
  <2> QED BY <2>1, <2>2
<1>6. PICK d : d = CHOOSE g : g = body(g)
      OBVIOUS
<1>7. WordErrors(reference, transcript) = d[n][Len(transcript)]
      BY <1>6 DEF WordErrors, RowAfter
<1>8. d = body(d)
  <2> HIDE DEF body
  <2> QED BY <1>5, <1>6
<1>9. /\ d[0] = first
      /\ \A i \in 1..n : d[i] = RowAfter(reference, transcript, i, d[i - 1])
  <2>1. 0 \in 0..n /\ \A i \in 1..n : i \in 0..n /\ i # 0
        OBVIOUS
  <2> HIDE DEF first, n
  <2> QED BY <1>8, <2>1
<1>10. \A i \in 0..n : d[i] \in Rows
  <2> DEFINE bad == {i \in 0..n : d[i] \notin Rows}
  <2> SUFFICES ASSUME bad # {} PROVE FALSE
      OBVIOUS
  <2>1. PICK i \in 0..n : d[i] \notin Rows /\ \A k \in bad : i <= k
    <3>1. bad \subseteq Nat /\ \A k \in bad : k \in 0..n /\ d[k] \notin Rows
          OBVIOUS
    <3> HIDE DEF bad, Rows
    <3> QED BY <3>1, LeastOne
  <2>2. i # 0
    <3> HIDE DEF Rows, first
    <3> QED BY <1>1, <1>9, <2>1
  <2>3. i \in 1..n /\ i - 1 \in 0..n /\ ~(i <= i - 1) /\ i \in Nat
        BY <2>1, <2>2
  <2>4. d[i - 1] \in Rows
    <3> HIDE DEF Rows
    <3> QED BY <2>1, <2>3
  <2> HIDE DEF Rows, bad
  <2> QED BY <1>2, <1>9, <2>1, <2>3, <2>4
<1>11. ASSUME NEW i \in 1..n
       PROVE  /\ d[i][0] = i
              /\ \A j \in 1..Len(transcript) :
                    d[i][j] = Entry(reference, transcript, i, j,
                                    d[i][j - 1], d[i - 1][j], d[i - 1][j - 1])
  <2>1. i \in Nat /\ i - 1 \in 0..n
        OBVIOUS
  <2>2. d[i - 1] \in Rows /\ d[i] = RowAfter(reference, transcript, i, d[i - 1])
    <3> HIDE DEF Rows
    <3> QED BY <1>9, <1>10, <2>1
  <2>3. PICK previous, row : previous = d[i - 1] /\ row = d[i]
        OBVIOUS
  <2>4. /\ previous \in [0..Len(transcript) -> Nat]
        /\ row = RowAfter(reference, transcript, i, previous)
        BY <2>2, <2>3
  <2>5. /\ row[0] = i
        /\ \A j \in 1..Len(transcript) :
              row[j] = Entry(reference, transcript, i, j,
                             row[j - 1], previous[j], previous[j - 1])
        BY ONLY <2>1, <2>4, Len(transcript) \in Nat, RowDefined
  <2> QED BY <2>3, <2>5
<1>12. d \in [0..n -> Rows]
  <2> HIDE DEF Rows, first
  <2> QED BY <1>8, <1>10
<1>13. \A j \in 0..Len(transcript) : d[0][j] = j
       BY <1>9
<1>14. TableOf(d, reference, transcript)
  <2> HIDE DEF first, body, step
  <2> QED BY <1>11, <1>12, <1>13 DEF TableOf
<1> QED BY <1>7, <1>14

\* An alignment of the first i words of the reference with the first j of the
\* transcript, and what it costs.
Aligned(m, i, j) ==
    /\ m \subseteq (1..i) \X (1..j)
    /\ \A p, q \in m : p[1] < q[1] <=> p[2] < q[2]

Unequal(reference, transcript, m) == {p \in m : reference[p[1]] # transcript[p[2]]}

CostOf(reference, transcript, m, i, j) ==
    i + j - 2 * Cardinality(m) + Cardinality(Unequal(reference, transcript, m))

\* c is the least cost of such an alignment.
LeastCost(reference, transcript, i, j, c) ==
    /\ c \in Nat
    /\ \E m : Aligned(m, i, j) /\ CostOf(reference, transcript, m, i, j) = c
    /\ \A m : Aligned(m, i, j) => c <= CostOf(reference, transcript, m, i, j)

LEMMA AlignedFinite ==
    ASSUME NEW reference, NEW transcript, NEW i \in Nat, NEW j \in Nat,
           NEW m, Aligned(m, i, j)
    PROVE  /\ IsFiniteSet(m) /\ Cardinality(m) \in Nat
           /\ IsFiniteSet(Unequal(reference, transcript, m))
           /\ Cardinality(Unequal(reference, transcript, m)) \in Nat
           /\ CostOf(reference, transcript, m, i, j) \in Int
<1>1. IsFiniteSet(1..i) /\ IsFiniteSet(1..j)
      BY FS_Interval
<1>2. IsFiniteSet((1..i) \X (1..j))
      BY <1>1, FS_Product
<1>3. IsFiniteSet(m)
      BY <1>2, FS_Subset DEF Aligned
<1>4. IsFiniteSet(Unequal(reference, transcript, m))
      BY <1>3, FS_Subset DEF Unequal
<1>5. /\ Cardinality(m) \in Nat
      /\ Cardinality(Unequal(reference, transcript, m)) \in Nat
      BY <1>3, <1>4, FS_CardinalityType
<1> QED BY <1>3, <1>4, <1>5 DEF CostOf

\* The pair of the last two words adds what replacing one by the other costs.
LEMMA CostOfPair ==
    ASSUME NEW reference, NEW transcript, NEW i \in Nat \ {0}, NEW j \in Nat \ {0},
           NEW m, Aligned(m, i - 1, j - 1)
    PROVE  CostOf(reference, transcript, m \cup {<<i, j>>}, i, j)
              = CostOf(reference, transcript, m, i - 1, j - 1)
                + Replacing(reference, transcript, i, j)
<1> DEFINE x == <<i, j>>
           more == m \cup {x}
           odd == Unequal(reference, transcript, m)
<1>1. i - 1 \in Nat /\ j - 1 \in Nat
      OBVIOUS
<1>2. IsFiniteSet(m) /\ Cardinality(m) \in Nat /\ IsFiniteSet(odd) /\ Cardinality(odd) \in Nat
      BY <1>1, AlignedFinite
<1>3. x \notin m
  <2>1. ~(i \in 1..(i - 1))
        OBVIOUS
  <2>2. \A p \in m : p[1] \in 1..(i - 1)
        BY DEF Aligned
  <2> QED BY <2>1, <2>2
<1>4. Cardinality(more) = Cardinality(m) + 1
      BY <1>2, <1>3, FS_AddElement
<1>5. Cardinality(Unequal(reference, transcript, more))
         = Cardinality(odd) + Replacing(reference, transcript, i, j)
  <2>1. x[1] = i /\ x[2] = j
        OBVIOUS
  <2>2. CASE reference[i] = transcript[j]
    <3>1. Unequal(reference, transcript, more) = odd
      <4> HIDE DEF x
      <4> QED BY <2>1, <2>2 DEF Unequal
    <3> QED BY <1>2, <2>2, <3>1 DEF Replacing
  <2>3. CASE reference[i] # transcript[j]
    <3>1. Unequal(reference, transcript, more) = odd \cup {x}
      <4> HIDE DEF x
      <4> QED BY <2>1, <2>3 DEF Unequal
    <3>2. x \notin odd
          BY <1>3 DEF Unequal
    <3> HIDE DEF odd, x
    <3>3. Cardinality(odd \cup {x}) = Cardinality(odd) + 1
          BY <1>2, <3>2, FS_AddElement
    <3> QED BY <2>3, <3>1, <3>3 DEF Replacing
  <2> QED BY <2>2, <2>3
<1>6. Replacing(reference, transcript, i, j) \in {0, 1}
      BY DEF Replacing
<1>7. CostOf(reference, transcript, more, i, j)
         = i + j - 2 * Cardinality(more) + Cardinality(Unequal(reference, transcript, more))
      BY DEF CostOf
<1>8. CostOf(reference, transcript, m, i - 1, j - 1)
         = (i - 1) + (j - 1) - 2 * Cardinality(m) + Cardinality(odd)
      BY DEF CostOf
<1>9. \A a, b \in Nat, s \in {0, 1} :
         i + j - 2 * (a + 1) + (b + s) = ((i - 1) + (j - 1) - 2 * a + b) + s
      OBVIOUS
<1> HIDE DEF more, odd, x
<1>10. CostOf(reference, transcript, more, i, j)
          = CostOf(reference, transcript, m, i - 1, j - 1)
            + Replacing(reference, transcript, i, j)
       BY <1>2, <1>4, <1>5, <1>6, <1>7, <1>8, <1>9
<1> QED BY <1>10 DEF more, x

\* Without its last pair an alignment is one of shorter prefixes.
LEMMA AlignedCut ==
    ASSUME NEW i \in Nat \ {0}, NEW j \in Nat \ {0}, NEW m, Aligned(m, i, j)
    PROVE  \/ Aligned(m, i - 1, j)
           \/ Aligned(m, i, j - 1)
           \/ <<i, j>> \in m /\ Aligned(m \ {<<i, j>>}, i - 1, j - 1)
<1>1. \A p \in m : p = <<p[1], p[2]>> /\ p[1] \in 1..i /\ p[2] \in 1..j
      BY DEF Aligned
<1>2. \A p, q \in m : p[1] < q[1] <=> p[2] < q[2]
      BY DEF Aligned
<1>3. CASE <<i, j>> \in m
  <2>1. ASSUME NEW p \in m \ {<<i, j>>} PROVE p[1] \in 1..(i - 1) /\ p[2] \in 1..(j - 1)
    <3>1. PICK a \in 1..i, b \in 1..j : p = <<a, b>>
          BY <1>1
    <3>2. a < i <=> b < j
          BY <1>2, <1>3, <3>1
    <3>3. ~(a = i /\ b = j)
          BY <3>1
    <3> QED BY <3>1, <3>2, <3>3
  <2>2. m \ {<<i, j>>} \subseteq (1..(i - 1)) \X (1..(j - 1))
        BY <1>1, <2>1
  <2> QED BY <1>2, <1>3, <2>2 DEF Aligned
<1>4. CASE <<i, j>> \notin m
  <2>1. CASE \A p \in m : p[1] # i
    <3>1. \A p \in m : p[1] \in 1..(i - 1)
          BY <1>1, <2>1
    <3> QED BY <1>1, <1>2, <3>1 DEF Aligned
  <2>2. CASE \E p \in m : p[1] = i
    <3>1. PICK p \in m : p[1] = i
          BY <2>2
    <3>2. p[2] < j
          BY <1>1, <1>4, <3>1
    <3>3. ASSUME NEW q \in m PROVE q[2] \in 1..(j - 1)
      <4>1. q[1] \in 1..i /\ q[2] \in 1..j
            BY <1>1
      <4>2. ~(p[1] < q[1])
            BY <3>1, <4>1
      <4>3. ~(p[2] < q[2])
            BY <1>2, <4>2
      <4>4. p[2] \in 1..j
            BY <1>1
      <4> QED BY <3>2, <4>1, <4>3, <4>4
    <3> QED BY <1>1, <1>2, <3>3 DEF Aligned
  <2> QED BY <2>1, <2>2
<1> QED BY <1>3, <1>4

\* An entry is the least cost if its three neighbours are.
LEMMA EntryIsLeast ==
    ASSUME NEW reference, NEW transcript, NEW i \in Nat \ {0}, NEW j \in Nat \ {0},
           NEW left, LeastCost(reference, transcript, i, j - 1, left),
           NEW above, LeastCost(reference, transcript, i - 1, j, above),
           NEW corner, LeastCost(reference, transcript, i - 1, j - 1, corner)
    PROVE  LeastCost(reference, transcript, i, j,
                     Entry(reference, transcript, i, j, left, above, corner))
<1> DEFINE cost(m, a, b) == CostOf(reference, transcript, m, a, b)
           s == Replacing(reference, transcript, i, j)
           c == Entry(reference, transcript, i, j, left, above, corner)
           x == <<i, j>>
<1>1. i - 1 \in Nat /\ j - 1 \in Nat /\ i \in Nat /\ j \in Nat
      OBVIOUS
<1>2. left \in Nat /\ above \in Nat /\ corner \in Nat /\ s \in {0, 1}
      BY DEF LeastCost, Replacing
<1>3. /\ c \in {left + 1, above + 1, corner + s} /\ c \in Nat
      /\ c <= left + 1 /\ c <= above + 1 /\ c <= corner + s
  <2>1. left + 1 \in Nat /\ above + 1 \in Nat /\ corner + s \in Nat
        BY <1>2
  <2>2. c = Min({left + 1, above + 1, corner + s})
        BY DEF Entry
  <2> HIDE DEF c, s
  <2> QED BY <2>1, <2>2, LeastOfThree
<1>4. ASSUME NEW m, Aligned(m, i, j - 1)
      PROVE  Aligned(m, i, j) /\ cost(m, i, j) = cost(m, i, j - 1) + 1
  <2>1. Aligned(m, i, j)
    <3>1. 1..(j - 1) \subseteq 1..j
          OBVIOUS
    <3>2. m \subseteq (1..i) \X (1..j)
          BY <1>4, <3>1 DEF Aligned
    <3> QED BY <1>4, <3>2 DEF Aligned
  <2>2. /\ Cardinality(m) \in Nat
        /\ Cardinality(Unequal(reference, transcript, m)) \in Nat
        BY <1>1, <2>1, AlignedFinite
  <2> QED BY <2>1, <2>2 DEF CostOf
<1>5. ASSUME NEW m, Aligned(m, i - 1, j)
      PROVE  Aligned(m, i, j) /\ cost(m, i, j) = cost(m, i - 1, j) + 1
  <2>1. Aligned(m, i, j)
    <3>1. 1..(i - 1) \subseteq 1..i
          OBVIOUS
    <3>2. m \subseteq (1..i) \X (1..j)
          BY <1>5, <3>1 DEF Aligned
    <3> QED BY <1>5, <3>2 DEF Aligned
  <2>2. /\ Cardinality(m) \in Nat
        /\ Cardinality(Unequal(reference, transcript, m)) \in Nat
        BY <1>1, <2>1, AlignedFinite
  <2> QED BY <2>1, <2>2 DEF CostOf
<1>6. ASSUME NEW m, Aligned(m, i - 1, j - 1)
      PROVE  Aligned(m \cup {x}, i, j) /\ cost(m \cup {x}, i, j) = cost(m, i - 1, j - 1) + s
  <2>1. Aligned(m \cup {x}, i, j)
    <3>1. /\ 1..(i - 1) \subseteq 1..i /\ 1..(j - 1) \subseteq 1..j
          /\ i \in 1..i /\ j \in 1..j
          OBVIOUS
    <3>2. m \cup {x} \subseteq (1..i) \X (1..j)
          BY <1>6, <3>1 DEF Aligned
    <3>3. \A p \in m : /\ p[1] \in 1..(i - 1) /\ p[2] \in 1..(j - 1)
                       /\ p[1] < i /\ p[2] < j /\ ~(i < p[1]) /\ ~(j < p[2])
      <4> TAKE p \in m
      <4>1. p[1] \in 1..(i - 1) /\ p[2] \in 1..(j - 1)
            BY <1>6 DEF Aligned
      <4> QED BY <4>1
    <3>4. x[1] = i /\ x[2] = j /\ ~(i < i) /\ ~(j < j)
          OBVIOUS
    <3>5. \A p, q \in m : p[1] < q[1] <=> p[2] < q[2]
          BY <1>6 DEF Aligned
    <3>6. ASSUME NEW p \in m \cup {x}, NEW q \in m \cup {x}
          PROVE  p[1] < q[1] <=> p[2] < q[2]
      <4>1. CASE p \in m /\ q \in m
            BY <3>5, <4>1
      <4>2. CASE p = x /\ q = x
            BY <3>4, <4>2
      <4>3. CASE p \in m /\ q = x
            BY <3>3, <3>4, <4>3
      <4>4. CASE p = x /\ q \in m
            BY <3>3, <3>4, <4>4
      <4> QED BY <4>1, <4>2, <4>3, <4>4
    <3> QED BY <3>2, <3>6 DEF Aligned
  <2>2. cost(m \cup {x}, i, j) = cost(m, i - 1, j - 1) + s
        BY <1>6, CostOfPair
  <2> QED BY <2>1, <2>2
<1>7. \E m : Aligned(m, i, j) /\ cost(m, i, j) = c
  <2>1. CASE c = left + 1
    <3>1. PICK m : Aligned(m, i, j - 1) /\ cost(m, i, j - 1) = left
          BY DEF LeastCost
    <3> HIDE DEF c, cost
    <3> QED BY <1>4, <2>1, <3>1
  <2>2. CASE c = above + 1
    <3>1. PICK m : Aligned(m, i - 1, j) /\ cost(m, i - 1, j) = above
          BY DEF LeastCost
    <3> HIDE DEF c, cost
    <3> QED BY <1>5, <2>2, <3>1
  <2>3. CASE c = corner + s
    <3>1. PICK m : Aligned(m, i - 1, j - 1) /\ cost(m, i - 1, j - 1) = corner
          BY DEF LeastCost
    <3> HIDE DEF c, cost, s, x
    <3> QED BY <1>6, <2>3, <3>1
  <2> HIDE DEF c, cost, s
  <2> QED BY <1>3, <2>1, <2>2, <2>3
<1>8. ASSUME NEW m, Aligned(m, i, j) PROVE c <= cost(m, i, j)
  <2>1. CASE Aligned(m, i, j - 1)
    <3>1. left <= cost(m, i, j - 1) /\ cost(m, i, j - 1) \in Int
          BY <1>1, <2>1, AlignedFinite DEF LeastCost
    <3>2. cost(m, i, j) = cost(m, i, j - 1) + 1
          BY <1>4, <2>1
    <3> HIDE DEF c, cost, s
    <3> QED BY <1>2, <1>3, <3>1, <3>2
  <2>2. CASE Aligned(m, i - 1, j)
    <3>1. above <= cost(m, i - 1, j) /\ cost(m, i - 1, j) \in Int
          BY <1>1, <2>2, AlignedFinite DEF LeastCost
    <3>2. cost(m, i, j) = cost(m, i - 1, j) + 1
          BY <1>5, <2>2
    <3> HIDE DEF c, cost, s
    <3> QED BY <1>2, <1>3, <3>1, <3>2
  <2>3. CASE x \in m /\ Aligned(m \ {x}, i - 1, j - 1)
    <3>1. /\ corner <= cost(m \ {x}, i - 1, j - 1)
          /\ cost(m \ {x}, i - 1, j - 1) \in Int
          BY <1>1, <2>3, AlignedFinite DEF LeastCost
    <3>2. m = (m \ {x}) \cup {x}
          BY <2>3
    <3>3. cost(m, i, j) = cost(m \ {x}, i - 1, j - 1) + s
      <4> HIDE DEF cost, s, x
      <4> QED BY <1>6, <2>3, <3>2
    <3> HIDE DEF c, cost, s, x
    <3> QED BY <1>2, <1>3, <3>1, <3>3
  <2> QED BY <1>8, <2>1, <2>2, <2>3, AlignedCut
<1> HIDE DEF c
<1>9. LeastCost(reference, transcript, i, j, c)
      BY <1>3, <1>7, <1>8 DEF LeastCost
<1> QED BY <1>9 DEF c

\* The first row and the first column.
LEMMA EdgeIsLeast ==
    ASSUME NEW reference, NEW transcript, NEW i \in Nat, NEW j \in Nat, i = 0 \/ j = 0
    PROVE  LeastCost(reference, transcript, i, j, i + j)
<1>1. Aligned({}, i, j)
      BY DEF Aligned
<1>2. \A m : Aligned(m, i, j) => m = {}
      BY DEF Aligned
<1>3. Unequal(reference, transcript, {}) = {} /\ Cardinality({}) = 0
      BY FS_EmptySet DEF Unequal
<1>4. CostOf(reference, transcript, {}, i, j) = i + j
  <2>1. Cardinality(Unequal(reference, transcript, {})) = 0
        BY <1>3
  <2>2. CostOf(reference, transcript, {}, i, j)
           = i + j - 2 * Cardinality({}) + Cardinality(Unequal(reference, transcript, {}))
        BY DEF CostOf
  <2>3. i + j - 2 * 0 + 0 = i + j
        OBVIOUS
  <2> QED BY <1>3, <2>1, <2>2, <2>3
<1>5. \A m : Aligned(m, i, j) => i + j <= CostOf(reference, transcript, m, i, j)
      BY <1>2, <1>4
<1> QED BY <1>1, <1>4, <1>5 DEF LeastCost

\* Every entry of the table is the least cost of aligning two prefixes.
LEMMA TableIsLeast ==
    ASSUME NEW reference, NEW transcript,
           Len(reference) \in Nat, Len(transcript) \in Nat,
           NEW d, TableOf(d, reference, transcript),
           NEW i \in 0..Len(reference), NEW j \in 0..Len(transcript)
    PROVE  LeastCost(reference, transcript, i, j, d[i][j])
<1> DEFINE Ok(a, b) == LeastCost(reference, transcript, a, b, d[a][b])
           bad == {n \in Nat : \E a \in 0..Len(reference), b \in 0..Len(transcript) :
                                  a + b = n /\ ~Ok(a, b)}
<1>1. bad = {}
  <2> SUFFICES ASSUME bad # {} PROVE FALSE
      OBVIOUS
  <2>1. PICK n \in bad : \A k \in bad : n <= k
    <3>1. bad \subseteq Nat
          OBVIOUS
    <3> HIDE DEF bad
    <3> QED BY <3>1, LeastOne
  <2>2. PICK a \in 0..Len(reference), b \in 0..Len(transcript) : a + b = n /\ ~Ok(a, b)
        BY <2>1
  <2>3. \A e \in 0..Len(reference), f \in 0..Len(transcript) : e + f < a + b => Ok(e, f)
    <3> TAKE e \in 0..Len(reference), f \in 0..Len(transcript)
    <3> HAVE e + f < a + b
    <3>1. e + f \in Nat /\ ~(n <= e + f)
          BY <2>2
    <3>2. e + f \notin bad
      <4> HIDE DEF bad
      <4> QED BY <2>1, <3>1
    <3> HIDE DEF Ok
    <3> QED BY <3>1, <3>2
  <2>4. CASE a = 0 \/ b = 0
    <3>1. a \in Nat /\ b \in Nat
          OBVIOUS
    <3>2. LeastCost(reference, transcript, a, b, a + b)
          BY <2>4, <3>1, EdgeIsLeast
    <3>3. d[a][b] = a + b
      <4>1. CASE a = 0
        <5>1. d[0][b] = b /\ 0 + b = b
              BY DEF TableOf
        <5> QED BY <4>1, <5>1
      <4>2. CASE a # 0
        <5>1. a \in 1..Len(reference) /\ b = 0 /\ a + 0 = a
              BY <2>4, <4>2
        <5>2. d[a][0] = a
              BY <5>1 DEF TableOf
        <5> QED BY <5>1, <5>2
      <4> QED BY <4>1, <4>2
    <3>4. Ok(a, b)
          BY <3>2, <3>3
    <3> QED BY <2>2, <3>4
  <2>5. CASE a # 0 /\ b # 0
    <3>1. /\ a \in 1..Len(reference) /\ b \in 1..Len(transcript)
          /\ a \in Nat \ {0} /\ b \in Nat \ {0}
          /\ a - 1 \in 0..Len(reference) /\ b - 1 \in 0..Len(transcript)
          /\ a + (b - 1) < a + b /\ (a - 1) + b < a + b /\ (a - 1) + (b - 1) < a + b
          BY <2>5
    <3>2. Ok(a, b - 1) /\ Ok(a - 1, b) /\ Ok(a - 1, b - 1)
      <4> HIDE DEF Ok
      <4> QED BY <2>3, <3>1
    <3>3. d[a][b] = Entry(reference, transcript, a, b,
                          d[a][b - 1], d[a - 1][b], d[a - 1][b - 1])
          BY <3>1 DEF TableOf
    <3>4. Ok(a, b)
          BY <3>1, <3>2, <3>3, EntryIsLeast
    <3> QED BY <2>2, <3>4
  <2> QED BY <2>4, <2>5
<1>2. i + j \in Nat
      OBVIOUS
<1> QED BY <1>1, <1>2

\* The word errors that _word_error_rate counts are the least number of words
\* to insert, delete and replace, for all word sequences.
THEOREM WordErrorsExact ==
    ASSUME NEW reference \in Seq(Words), NEW transcript \in Seq(Words)
    PROVE  WordErrors(reference, transcript) = EditDistance(reference, transcript)
<1> DEFINE n == Len(reference)
           k == Len(transcript)
           costs == {CostOf(reference, transcript, m, n, k) : m \in Alignments(reference, transcript)}
<1>1. n \in Nat /\ k \in Nat /\ DOMAIN reference = 1..n /\ DOMAIN transcript = 1..k
      OBVIOUS
<1>2. PICK d : TableOf(d, reference, transcript) /\ WordErrors(reference, transcript) = d[n][k]
      BY <1>1, TableDefined
<1>3. LeastCost(reference, transcript, n, k, d[n][k])
  <2>1. n \in 0..n /\ k \in 0..k
        BY <1>1
  <2> QED BY <1>1, <1>2, <2>1, TableIsLeast
<1>4. \A m : m \in Alignments(reference, transcript) <=> Aligned(m, n, k)
  <2> HIDE DEF n, k
  <2> QED BY <1>1 DEF Alignments, Aligned
<1>5. EditDistance(reference, transcript) = Min(costs)
      BY DEF EditDistance, CostOf, Unequal
<1>6. d[n][k] \in costs /\ \A c \in costs : d[n][k] <= c
  <2> HIDE DEF n, k
  <2> QED BY <1>3, <1>4 DEF LeastCost
<1>7. \A c \in costs : c \in Int
  <2> HIDE DEF n, k
  <2> QED BY <1>1, <1>4, AlignedFinite
<1>8. Min(costs) = d[n][k]
  <2> HIDE DEF costs
  <2> QED BY <1>6, <1>7 DEF Min
<1> QED BY <1>2, <1>5, <1>8

-----------------------------------------------------------------------------
(* Tests of one request *)

\* One expectation after another: what the k-th leaves to those after it.
Taken(calls, expect, k, before0) ==
    LET left == Candidates(calls, expect[k], before0)
    IN  before0 \cup IF left = {} THEN {} ELSE {Min(left)}

\* The function that MatchedIndexes defines by recursion exists.
LEMMA MatchedRecursion ==
    ASSUME NEW calls, NEW expect, Len(expect) \in Nat,
           NEW T, T = MatchedIndexes(calls, expect)
    PROVE  /\ T[0] = {}
           /\ \A k \in 1..Len(expect) : T[k] = Taken(calls, expect, k, T[k - 1])
<1> DEFINE good(g, n) ==
               g = [k \in 0..n |-> IF k = 0 THEN {} ELSE Taken(calls, expect, k, g[k - 1])]
           bad == {n \in Nat : ~\E g : good(g, n)}
<1>1. bad = {}
  <2> SUFFICES ASSUME bad # {} PROVE FALSE
      OBVIOUS
  <2>1. Min(bad) \in bad /\ \A n \in bad : Min(bad) <= n
        BY LeastOne
  <2>2. PICK m \in Nat : m \in bad /\ \A n \in bad : m <= n
        BY <2>1
  <2>3. m # 0
    <3>1. good([k \in 0..0 |-> {}], 0)
          OBVIOUS
    <3> QED BY <2>2, <3>1
  <2>4. m - 1 \in Nat /\ m - 1 \notin bad
    <3>1. m - 1 \in Nat /\ ~(m <= m - 1)
          BY <2>2, <2>3
    <3>2. \A n : n \in bad => m <= n
          BY <2>2
    <3> HIDE DEF bad
    <3> QED BY <3>1, <3>2
  <2>5. PICK g : good(g, m - 1)
        BY <2>4
  <2> DEFINE h == [k \in 0..m |-> IF k = m THEN Taken(calls, expect, m, g[m - 1]) ELSE g[k]]
  <2>6. good(h, m)
    <3>1. \A k \in 0..m :
             h[k] = IF k = 0 THEN {} ELSE Taken(calls, expect, k, h[k - 1])
      <4> TAKE k \in 0..m
      <4>1. CASE k = m
        <5>1. m - 1 \in 0..m /\ m - 1 # m
              BY <2>3, <2>4
        <5>2. h[m - 1] = g[m - 1]
              BY <5>1
        <5>3. h[k] = Taken(calls, expect, k, g[m - 1])
              BY <4>1
        <5> QED BY <2>3, <4>1, <5>2, <5>3
      <4>2. CASE k # m
        <5>1. k \in 0..(m - 1)
              BY <2>4, <4>2
        <5>2. h[k] = g[k]
              BY <4>2
        <5>3. g[k] = IF k = 0 THEN {} ELSE Taken(calls, expect, k, g[k - 1])
              BY <2>5, <5>1
        <5>4. k # 0 => k - 1 \in 0..m /\ k - 1 # m
              BY <5>1, <2>4
        <5>5. k # 0 => h[k - 1] = g[k - 1]
              BY <5>4
        <5> QED BY <5>2, <5>3, <5>5
      <4> QED BY <4>1, <4>2
    <3>2. h = [k \in 0..m |-> h[k]]
          OBVIOUS
    <3> QED BY <3>1, <3>2
  <2>7. m \notin bad
        BY <2>6
  <2> QED BY <2>2, <2>7
<1>2. \E g : good(g, Len(expect))
      BY <1>1
<1>3. T = CHOOSE g : good(g, Len(expect))
      BY DEF MatchedIndexes, Taken
<1>4. good(T, Len(expect))
      BY <1>2, <1>3
<1>5. \A k \in 0..Len(expect) :
         T[k] = IF k = 0 THEN {} ELSE Taken(calls, expect, k, T[k - 1])
      BY <1>4
<1> QED BY <1>5

\* A call that was taken stays taken.
LEMMA TakenGrow ==
    ASSUME NEW calls, NEW expect, Len(expect) \in Nat,
           NEW T, T = MatchedIndexes(calls, expect),
           NEW i \in 0..Len(expect), NEW j \in 0..Len(expect), i <= j
    PROVE  T[i] \subseteq T[j]
<1> DEFINE bad == {n \in Nat : i <= n /\ n <= Len(expect) /\ ~(T[i] \subseteq T[n])}
<1>1. bad = {}
  <2> SUFFICES ASSUME bad # {} PROVE FALSE
      OBVIOUS
  <2>1. Min(bad) \in bad /\ \A n \in bad : Min(bad) <= n
        BY LeastOne
  <2>2. PICK m \in Nat : /\ i <= m /\ m <= Len(expect) /\ ~(T[i] \subseteq T[m])
                         /\ \A n \in bad : m <= n
        BY <2>1
  <2>3. m # i
        BY <2>2
  <2>4. m - 1 \in Nat /\ i <= m - 1 /\ m - 1 <= Len(expect) /\ m \in 1..Len(expect)
        BY <2>2, <2>3
  <2>5. T[i] \subseteq T[m - 1]
    <3>1. ~(m <= m - 1)
          BY <2>2
    <3>2. m - 1 \notin bad
      <4>1. \A n : n \in bad => m <= n
            BY <2>2
      <4> HIDE DEF bad
      <4> QED BY <3>1, <4>1
    <3> QED BY <2>4, <3>2
  <2>6. T[m] = Taken(calls, expect, m, T[m - 1])
        BY <2>4, MatchedRecursion
  <2>7. T[m - 1] \subseteq T[m]
        BY <2>6 DEF Taken
  <2> QED BY <2>2, <2>5, <2>7
<1> QED BY <1>1

\* Taking the first call that is left finds an assignment of calls to
\* expectations whenever it finds a call for each (_score_output).
LEMMA GreedyAssigns ==
    ASSUME NEW calls \in Seq(ToolCalls), NEW expect \in Seq(Expectations),
           ~CallsMissing(calls, expect)
    PROVE  Assignable(calls, expect)
<1>1. PICK T : T = MatchedIndexes(calls, expect)
      OBVIOUS
<1>2. Len(expect) \in Nat /\ DOMAIN expect = 1..Len(expect) /\ DOMAIN calls \subseteq Nat
      OBVIOUS
<1> DEFINE left(k) == Candidates(calls, expect[k], T[k - 1])
           f == [k \in 1..Len(expect) |-> Min(left(k))]
<1>3. \A k \in 1..Len(expect) : left(k) # {}
      BY <1>1 DEF CallsMissing
<1>4. \A k \in 1..Len(expect) : left(k) \subseteq DOMAIN calls \ T[k - 1]
                                /\ \A c \in left(k) : Matches(calls[c], expect[k])
      BY DEF Candidates
<1>5. ASSUME NEW k \in 1..Len(expect)
      PROVE  /\ f[k] \in DOMAIN calls /\ f[k] \notin T[k - 1]
             /\ Matches(calls[f[k]], expect[k]) /\ f[k] \in T[k]
  <2>1. Min(left(k)) \in left(k)
    <3>1. left(k) \subseteq Nat /\ left(k) # {}
          BY <1>2, <1>3, <1>4
    <3> HIDE DEF left
    <3> QED BY <3>1, LeastOne
  <2>2. T[k] = Taken(calls, expect, k, T[k - 1])
        BY <1>1, <1>2, MatchedRecursion
  <2>3. Min(left(k)) \in T[k]
        BY <1>3, <2>2 DEF Taken
  <2>4. f[k] = Min(left(k))
        OBVIOUS
  <2> HIDE DEF f, left
  <2> QED BY <1>4, <2>1, <2>3, <2>4
<1>6. \A i, j \in 1..Len(expect) : i < j => f[i] # f[j]
  <2> TAKE i, j \in 1..Len(expect)
  <2> HAVE i < j
  <2>1. i \in 0..Len(expect) /\ j - 1 \in 0..Len(expect) /\ i <= j - 1
        BY <1>2
  <2>2. T[i] \subseteq T[j - 1]
        BY <1>1, <1>2, <2>1, TakenGrow
  <2> HIDE DEF f
  <2> QED BY <1>5, <2>2
<1>7. f \in [DOMAIN expect -> DOMAIN calls]
  <2> HIDE DEF left
  <2> QED BY <1>2, <1>5
<1>8. \A i, j \in DOMAIN expect : f[i] = f[j] => i = j
  <2> TAKE i, j \in DOMAIN expect
  <2>1. i < j \/ j < i \/ i = j
        BY <1>2
  <2> HIDE DEF f
  <2> QED BY <1>2, <1>6, <2>1
<1>9. \A i \in DOMAIN expect : Matches(calls[f[i]], expect[i])
  <2> HIDE DEF f
  <2> QED BY <1>2, <1>5
<1> HIDE DEF f
<1> QED BY <1>7, <1>8, <1>9 DEF Assignable

RequestSteps == {"ask", "again", "score", "requestVerdict"}
Trials == Chats \cup OtherTrials

\* What was got so far, and that what went wrong is noted.
Noticed ==
    /\ trial.kind # "error" => answer.got = "answer"
    /\ trial.kind = "chat" => \E a \in ChatAnswers : answer = Got(a)
    /\ blots = {} =>
          /\ trial.kind = "cancel" => answer.answer.cut
          /\ trial.kind = "error" => answer.got # "answer"

FollowedUp ==
    blots = {} =>
        /\ trial.kind = "chat" /\ ToolsToAnswer(answer.answer) => again.got = "answer"
        /\ trial.kind = "cancel" => again.got = "answer"
        /\ trial.kind = "error" => again # Broken

RequestInv ==
    /\ pc \notin RequestSteps => RequestIdle
    /\ pc \in RequestSteps => trial \in Trials
    /\ pc = "ask" => answer = Nothing /\ again = Nothing /\ blots = {}
    /\ pc = "again" => again = Nothing /\ trial.kind \in {"chat", "cancel", "error"}
    /\ pc \in {"again", "score"} => Noticed
    /\ pc = "score" => FollowedUp
    /\ PassIsAnswered

LEMMA RequestInit == pc = "idle" /\ RequestIdle => RequestInv
  BY DEF RequestInv, RequestSteps, PassIsAnswered

\* The calls of a chat answer and those that a chat expects are sequences.
LEMMA ChatShapes ==
    /\ \A a \in ChatAnswers : a.calls \in Seq(ToolCalls)
    /\ \A t \in Trials : t.kind = "chat" =>
          t.asks.expect \in Seq(Expectations) /\ t.asks.least \in {0, 2}
<1>1. ASSUME NEW S PROVE \A n \in 0..2 : \A c \in [1..n -> S] : c \in Seq(S)
  <2>1. \A n \in Nat : \A c \in [1..n -> S] : c \in Seq(S)
        BY SeqDef
  <2> QED BY <2>1
<1>2. ASSUME NEW a \in ChatAnswers PROVE a.calls \in Seq(ToolCalls)
  <2>1. CASE a \in {[Plain EXCEPT !.calls = c] : c \in EmittedCalls}
    <3>1. PICK c \in EmittedCalls : a = [Plain EXCEPT !.calls = c]
          BY <2>1
    <3>2. a.calls = c
          BY <3>1 DEF Plain
    <3> QED BY <1>1, <3>1, <3>2 DEF EmittedCalls
  <2>2. CASE a \notin {[Plain EXCEPT !.calls = c] : c \in EmittedCalls}
    <3>1. a.calls = <<>>
          BY <2>2 DEF ChatAnswers, Plain
    <3> QED BY <3>1
  <2> QED BY <2>1, <2>2
<1>3. ASSUME NEW t \in Trials, t.kind = "chat"
      PROVE  t.asks.expect \in Seq(Expectations) /\ t.asks.least \in {0, 2}
  <2>1. t \in Chats
        BY <1>3 DEF Trials, OtherTrials
  <2>2. t.asks.expect \in ExpectedCalls \/ t.asks.expect = <<>>
        BY <2>1 DEF Chats
  <2>3. t.asks.least \in {0, 2}
        BY <2>1 DEF Chats
  <2>4. ASSUME t.asks.expect \in ExpectedCalls PROVE t.asks.expect \in Seq(Expectations)
        BY <1>1, <2>4 DEF ExpectedCalls
  <2>5. <<>> \in Seq(Expectations)
        OBVIOUS
  <2>6. t.asks.expect \in Seq(Expectations)
        BY <2>2, <2>4, <2>5
  <2> QED BY <2>3, <2>6
<1> QED BY <1>2, <1>3

LEMMA JudgeSound ==
    ASSUME RequestInv, Judge PROVE PassIsAnswered'
<1>1. /\ pc = "score" /\ blots' = blots \cup ScoreBlots /\ UNCHANGED <<trial, answer, again>>
      BY DEF Judge
<1>2. Noticed /\ FollowedUp /\ trial \in Trials
      BY <1>1 DEF RequestInv, RequestSteps
<1> SUFFICES ASSUME blots' = {}
             PROVE  /\ trial.kind # "error" => answer.got = "answer"
                    /\ trial.kind = "chat" =>
                          /\ Assignable(answer.answer.calls, trial.asks.expect)
                          /\ Len(answer.answer.calls) >= trial.asks.least
                          /\ trial.mocks # {} /\ answer.answer.calls # <<>> => again.got = "answer"
                    /\ trial.kind = "cancel" => answer.answer.cut /\ again.got = "answer"
                    /\ trial.kind = "error" => answer.got # "answer" /\ again # Broken
    BY <1>1 DEF PassIsAnswered, RequestPassed, Assignable, Matches, Broken
<1>3. blots = {} /\ ScoreBlots = {}
      BY <1>1
<1>4. ASSUME trial.kind = "chat"
      PROVE  /\ Assignable(answer.answer.calls, trial.asks.expect)
             /\ Len(answer.answer.calls) >= trial.asks.least
             /\ trial.mocks # {} /\ answer.answer.calls # <<>> => again.got = "answer"
  <2>1. PICK a \in ChatAnswers : answer = Got(a)
        BY <1>2, <1>4 DEF Noticed
  <2>2. answer.answer = a
        BY <2>1 DEF Got
  <2>3. a.calls \in Seq(ToolCalls) /\ trial.asks.expect \in Seq(Expectations)
        BY <1>2, <1>4, ChatShapes
  <2>4. ScoreBlots = ScoreOutput(trial.asks, AnswerOf(IF again.got = "answer" THEN again ELSE answer),
                                 a.calls)
        BY <1>4, <2>2 DEF ScoreBlots
  <2>5. ~CallsMissing(a.calls, trial.asks.expect) /\ ~(Len(a.calls) < trial.asks.least)
        BY <1>3, <2>4 DEF ScoreOutput
  <2>6. Assignable(a.calls, trial.asks.expect)
        BY <2>3, <2>5, GreedyAssigns
  <2>7. trial.asks.least \in Nat /\ Len(a.calls) \in Nat
    <3>1. trial.asks.least \in {0, 2}
          BY <1>2, <1>4, ChatShapes
    <3> QED BY <2>3, <3>1
  <2> QED BY <1>2, <1>3, <1>4, <2>2, <2>5, <2>6, <2>7 DEF FollowedUp, ToolsToAnswer
<1> QED BY <1>2, <1>3, <1>4 DEF Noticed, FollowedUp

\* A verdict that notes something says nothing more.
LEMMA NotPassed ==
    ASSUME RequestInv, trial \in Trials, pc' = "requestVerdict", trial' = trial, blots' # {}
    PROVE  RequestInv'
  BY DEF RequestInv, RequestSteps, PassIsAnswered, RequestPassed, Trials

\* The answer goes on to be scored, or to a second request.
LEMMA GoesOnNoticed ==
    ASSUME trial' \in Trials, pc' \in {"again", "score"}, Noticed',
           pc' = "again" => again' = Nothing /\ trial'.kind \in {"chat", "cancel", "error"},
           pc' = "score" => FollowedUp'
    PROVE  RequestInv'
  BY DEF RequestInv, RequestSteps, PassIsAnswered, Trials

LEMMA AskStep ==
    ASSUME RequestInv, pc = "ask",
           Chat \/ Cancel \/ ExpectError \/ Embedding \/ Image \/ Speech \/ Voices
           \/ Transcription \/ RoundTrip
    PROVE  RequestInv'
<1>1. answer = Nothing /\ again = Nothing /\ blots = {} /\ trial \in Trials
      BY DEF RequestInv, RequestSteps
<1>2. CASE RequestFails \/ TransportEscapes \/ Unusable
      BY <1>1, <1>2, NotPassed DEF RequestFails, TransportEscapes, Unusable, Settled
<1>3. ASSUME Tries("chat"), NEW a \in ChatAnswers,
             IF ToolsToAnswer(a) /\ ~Unmocked(a) THEN Gives({a}, "again", {})
             ELSE Gives({a}, "score", IF ToolsToAnswer(a) THEN {"mock"} ELSE {})
      PROVE  RequestInv'
  <2>1. /\ trial' = trial /\ trial.kind = "chat" /\ again' = Nothing /\ answer' = Got(a)
        /\ \/ pc' = "again"
           \/ pc' = "score" /\ blots' = IF ToolsToAnswer(a) THEN {"mock"} ELSE {}
        BY <1>1, <1>3 DEF Tries, Gives
  <2>2. answer'.got = "answer" /\ answer'.answer = a
        BY <2>1 DEF Got
  <2>3. Noticed'
        BY <2>1, <2>2 DEF Noticed
  <2>4. pc' = "score" => FollowedUp'
    <3>1. ToolsToAnswer(a)' = ToolsToAnswer(a)
          BY <2>1 DEF ToolsToAnswer
    <3>2. ToolsToAnswer(answer.answer)' <=> trial.mocks # {} /\ a.calls # <<>>
          BY <2>1, <2>2 DEF ToolsToAnswer
    <3> QED BY <2>1, <3>2 DEF FollowedUp, ToolsToAnswer
  <2> QED BY <1>1, <2>1, <2>3, <2>4, GoesOnNoticed
<1>4. ASSUME Tries("cancel"), NEW a \in CutStreams, Gives({a}, "again", CutBlots(a))
      PROVE  RequestInv'
  <2>1. /\ trial' = trial /\ trial.kind = "cancel" /\ again' = Nothing /\ answer' = Got(a)
        /\ pc' = "again" /\ blots' = CutBlots(a)
        BY <1>1, <1>4 DEF Tries, Gives
  <2>2. answer'.got = "answer" /\ answer'.answer = a
        BY <2>1 DEF Got
  <2>3. Noticed'
        BY <2>1, <2>2 DEF Noticed, CutBlots
  <2> QED BY <1>1, <2>1, <2>3, GoesOnNoticed
<1>5. CASE ExpectError
  <2>1. trial.kind = "error" /\ trial' = trial /\ again' = Nothing /\ pc' = "again"
        BY <1>1, <1>5 DEF ExpectError, Tries, Gives
  <2>2. blots' = {} => answer'.got # "answer"
    <3>1. CASE Gives({"success"}, "again", {"succeeded"})
          BY <3>1 DEF Gives
    <3>2. CASE answer' \in Refusals \cup {Broken}
          BY <3>2 DEF Refusals, Broken
    <3> QED BY <1>5, <3>1, <3>2 DEF ExpectError
  <2>3. Noticed'
        BY <2>1, <2>2 DEF Noticed
  <2> QED BY <1>1, <2>1, <2>3, GoesOnNoticed
<1>6. ASSUME NEW answers, NEW kinds, Gives(answers, "score", kinds),
             trial.kind \notin {"chat", "cancel", "error"}
      PROVE  RequestInv'
  <2>1. /\ trial' = trial /\ again' = Nothing /\ pc' = "score"
        /\ \E a \in answers : answer' = Got(a)
        BY <1>1, <1>6 DEF Gives
  <2>2. answer'.got = "answer"
        BY <2>1 DEF Got
  <2>3. Noticed' /\ FollowedUp'
        BY <1>6, <2>1, <2>2 DEF Noticed, FollowedUp
  <2> QED BY <1>1, <2>1, <2>3, GoesOnNoticed
<1>7. CASE Chat
      BY <1>2, <1>3, <1>7 DEF Chat
<1>8. CASE Cancel
      BY <1>2, <1>4, <1>8 DEF Cancel
<1>9. CASE Embedding \/ Image \/ Speech \/ Voices \/ Transcription \/ RoundTrip
      BY <1>2, <1>6, <1>9
         DEF Embedding, Image, Speech, Voices, Transcription, RoundTrip, Tries
<1> QED BY <1>5, <1>7, <1>8, <1>9

LEMMA AskAgainKeeps == RequestInv /\ AskAgain => RequestInv'
<1> SUFFICES ASSUME RequestInv, AskAgain PROVE RequestInv'
    OBVIOUS
<1>1. /\ pc = "again" /\ pc' = "score" /\ UNCHANGED <<trial, answer>>
      /\ \/ \E a \in FollowUps : again' = Got(a) /\ UNCHANGED blots
         \/ again' = Broken /\ blots' = blots \cup {"followup"}
         \/ trial.kind = "error" /\ UNCHANGED <<again, blots>>
      BY DEF AskAgain
<1>2. trial \in Trials /\ Noticed /\ again = Nothing
      BY <1>1 DEF RequestInv, RequestSteps
<1>3. blots' = {} => /\ blots = {}
                     /\ again'.got = "answer" \/ (trial.kind = "error" /\ again' = Nothing)
      BY <1>1, <1>2 DEF Got
<1>4. \A x : x.got = "answer" \/ x = Nothing => x # Broken
      BY DEF Nothing, Broken
<1>5. Noticed'
      BY <1>1, <1>2, <1>3 DEF Noticed
<1>6. FollowedUp'
      BY <1>1, <1>3, <1>4 DEF FollowedUp, Broken
<1> QED BY <1>1, <1>2, <1>5, <1>6, GoesOnNoticed

LEMMA RequestStep == RequestInv /\ [RequestNext]_<<pc, requestVars>> => RequestInv'
<1> SUFFICES ASSUME RequestInv, [RequestNext]_<<pc, requestVars>> PROVE RequestInv'
    OBVIOUS
<1>1. CASE StartRequest
  <2>1. /\ RequestIdle /\ pc' = "ask" /\ trial' \in Trials /\ UNCHANGED <<answer, again, blots>>
        BY <1>1 DEF StartRequest, RequestInv, RequestSteps, Trials
  <2> QED BY <2>1 DEF RequestInv, RequestIdle, RequestSteps, PassIsAnswered, Trials, Nothing
<1>2. CASE Chat \/ Cancel \/ ExpectError \/ Embedding \/ Image \/ Speech \/ Voices
           \/ Transcription \/ RoundTrip
  <2>1. pc = "ask"
        BY <1>2 DEF Chat, Cancel, ExpectError, Embedding, Image, Speech, Voices,
                    Transcription, RoundTrip, Tries
  <2> QED BY <1>2, <2>1, AskStep
<1>3. CASE AskAgain
      BY <1>3, AskAgainKeeps
<1>4. CASE Judge
  <2>1. pc = "score" /\ pc' = "requestVerdict" /\ trial' = trial
        BY <1>4 DEF Judge
  <2> QED BY <1>4, <2>1, JudgeSound DEF RequestInv, RequestSteps, Trials
<1>5. CASE FinishRequest
  <2>1. pc' = "idle" /\ RequestIdle'
        BY <1>5 DEF FinishRequest, RequestIdle
  <2>2. (pc = "idle" /\ RequestIdle => RequestInv)'
        BY RequestInit, PTL
  <2> QED BY <2>1, <2>2
<1>6. CASE UNCHANGED <<pc, requestVars>>
  <2>1. UNCHANGED <<pc, trial, answer, again, blots>>
        BY <1>6 DEF requestVars
  <2>2. UNCHANGED <<RequestIdle, Noticed, FollowedUp, PassIsAnswered>>
        BY <2>1 DEF RequestIdle, Noticed, FollowedUp, PassIsAnswered, RequestPassed,
                    ToolsToAnswer
  <2> QED BY <2>1, <2>2 DEF RequestInv, Trials
<1> QED BY <1>1, <1>2, <1>3, <1>4, <1>5, <1>6 DEF RequestNext

\* What went wrong with a request, or with the one that follows it, is noted
\* before the answer is scored.
THEOREM RequestInvariant == RequestSpec => []RequestInv
<1> QED BY RequestInit, RequestStep, PTL DEF RequestSpec

\* A test of one request passes only on evidence, for any tools and expected
\* calls (_run_test, _score_output).
THEOREM RequestAnswered == RequestSpec => []PassIsAnswered
<1>1. RequestInv => PassIsAnswered
      BY DEF RequestInv
<1> QED BY <1>1, RequestInvariant, PTL

\* What a round trip compares: two transcripts.
TwoTranscripts ==
    trial.kind = "roundtrip" /\ answer.got = "answer" =>
        answer.answer \in Transcripts \X Transcripts

LEMMA SpokenStep ==
    ASSUME RequestInv, TwoTranscripts, [RequestNext]_<<pc, requestVars>>
    PROVE  TwoTranscripts'
<1>1. CASE StartRequest \/ FinishRequest
  <2>1. answer' = Nothing
        BY <1>1 DEF StartRequest, FinishRequest, RequestInv, RequestSteps, RequestIdle
  <2> QED BY <2>1 DEF TwoTranscripts, Nothing
<1>2. CASE AskAgain \/ Judge \/ UNCHANGED <<pc, requestVars>>
      BY <1>2 DEF AskAgain, Judge, requestVars, TwoTranscripts
<1>3. CASE RequestFails \/ TransportEscapes
  <2>1. answer'.got # "answer"
        BY <1>3 DEF RequestFails, TransportEscapes, Refusals, Broken
  <2> QED BY <2>1 DEF TwoTranscripts
<1>4. CASE Unusable
      BY <1>4 DEF Unusable, Settled, TwoTranscripts
<1>5. CASE trial' = trial /\ trial.kind # "roundtrip"
      BY <1>5 DEF TwoTranscripts
<1>6. CASE Gives(Transcripts \X Transcripts, "score", {})
  <2>1. PICK a \in Transcripts \X Transcripts : answer' = Got(a)
        BY <1>6 DEF Gives
  <2>2. answer'.answer = a
        BY <2>1 DEF Got
  <2> QED BY <2>1, <2>2 DEF TwoTranscripts
<1>7. CASE RoundTrip
      BY <1>3, <1>6, <1>7 DEF RoundTrip
<1>8. CASE \/ Chat \/ Cancel \/ ExpectError \/ Embedding \/ Image \/ Speech \/ Voices
           \/ Transcription
  <2>1. trial' = trial /\ trial.kind # "roundtrip"
        BY <1>8 DEF Chat, Cancel, ExpectError, Embedding, Image, Speech, Voices,
                    Transcription, Tries, Gives, RequestFails, TransportEscapes, Unusable,
                    Settled
  <2> QED BY <1>5, <2>1
<1> QED BY <1>1, <1>2, <1>7, <1>8 DEF RequestNext

\* The word errors by which a round trip is judged are the least number of
\* words to insert, delete and replace (_word_error_rate).
THEOREM RoundTripDistance == RequestSpec => []WordErrorsAreDistance
<1>1. pc = "idle" /\ RequestIdle => TwoTranscripts
      BY DEF RequestIdle, TwoTranscripts, Nothing
<1>2. RequestInv /\ TwoTranscripts /\ [RequestNext]_<<pc, requestVars>> => TwoTranscripts'
      BY SpokenStep
<1>3. TwoTranscripts => WordErrorsAreDistance
  <2> SUFFICES ASSUME TwoTranscripts, trial.kind = "roundtrip", answer.got = "answer"
               PROVE  WordErrors(answer.answer[1], answer.answer[2])
                         = EditDistance(answer.answer[1], answer.answer[2])
      BY DEF WordErrorsAreDistance
  <2>1. PICK reference \in Transcripts, transcript \in Transcripts :
           answer.answer = <<reference, transcript>>
        BY DEF TwoTranscripts
  <2>2. \A s \in Transcripts : s \in Seq(Words)
    <3>1. \A n \in Nat : \A s \in [1..n -> Words] : s \in Seq(Words)
          BY SeqDef
    <3>2. ASSUME NEW s \in Transcripts PROVE s \in Seq(Words)
      <4>1. PICK n \in 0..2 : s \in [1..n -> Words]
            BY DEF Transcripts
      <4>2. n \in Nat
            OBVIOUS
      <4> QED BY <3>1, <4>1, <4>2
    <3> QED BY <3>2
  <2>3. WordErrors(reference, transcript) = EditDistance(reference, transcript)
        BY <2>2, WordErrorsExact
  <2> QED BY <2>1, <2>3
<1> QED BY <1>1, <1>2, <1>3, RequestInvariant, PTL DEF RequestSpec

-----------------------------------------------------------------------------
(* The stability suites *)

SuiteSteps == {"begin", "place", "appear", "load", "unplaced", "kill", "absent", "master",
               "served", "completion", "relaunch", "count", "measure", "pick", "soak",
               "askTooMuch", "classify", "cleanup", "suiteVerdict"}

Process == [up : BOOLEAN, age : Nat]

SuiteTypeOK ==
    /\ DOMAIN suite = DOMAIN NoSuite
    /\ suite.round \in Nat /\ suite.old \in Hosts \X Nat
    /\ process \in [Hosts -> Process] /\ outages \in Nat
    /\ \A w \in wish : w.key \in Nat \ {0}

\* Which suite is at which step.
AtSuite ==
    /\ pc \notin SuiteSteps => SuiteIdle
    /\ pc \in SuiteSteps => suite.kind \in {"failover", "churn", "soak", "refusal"}
    /\ suite.kind = "refusal" =>
          pc \in {"begin", "askTooMuch", "classify", "cleanup", "suiteVerdict"}
    /\ pc \in {"askTooMuch", "classify"} => suite.kind = "refusal"
    /\ pc \in {"measure", "pick"} => suite.kind = "churn"
    /\ suite.kind = "failover" => suite.round = 0 /\ pc # "soak"
    /\ pc = "begin" => /\ suite.scope = Fleet(Eligible) /\ suite.marks = {}
                       /\ ~suite.made /\ ~suite.worked /\ suite.round = 0

\* The operator's instance is out of scope while a suite waits for its own, and
\* known to the suite that tells its own by what was there before.
Sparing ==
    /\ harmed = FALSE
    /\ suite.made => suite.ours # 0
    /\ pc = "appear" => \A i \in insts : i.key = 0 => ~InScope(i)
    /\ pc \in {"askTooMuch", "classify"} => \A i \in insts : i.key = 0 => 0 \in suite.pre

\* A failover in which nothing went wrong so far, and the host of its master.
Clean == suite.kind = "failover" /\ suite.marks = {} /\ outages = 0
Old == suite.old[1]
OtherHosts == Hosts \ {Old}
New == <<Old, 1>>

FreshBut(hosts) == \A h \in Hosts \ hosts : process[h] = [up |-> TRUE, age |-> 0]

\* The cluster before the kill, while the master is down, while it returns, and
\* when it is back under its new identity.
Whole == FreshBut({}) /\ seen = Fleet(Hosts)
Down == /\ FreshBut({Old}) /\ process[Old].age = 0
        /\ Fleet(OtherHosts) \subseteq seen /\ seen \subseteq Fleet(Hosts)
        /\ process[Old].up => suite.old \in seen
Returning == /\ FreshBut({Old}) /\ process[Old].age = (IF process[Old].up THEN 1 ELSE 0)
             /\ Fleet(OtherHosts) \subseteq seen /\ seen \subseteq Fleet(OtherHosts) \cup {New}
             /\ New \in seen => process[Old].up
Back == /\ FreshBut({Old}) /\ process[Old] = [up |-> TRUE, age |-> 1]
        /\ seen = Fleet(OtherHosts) \cup {New}

Restoring ==
    Clean =>
        /\ pc \in {"begin", "place", "appear", "load", "kill"} => Whole
        /\ pc \in {"begin", "place", "appear", "load", "unplaced"} => ~suite.worked
        /\ pc # "begin" /\ (pc = "suiteVerdict" => suite.worked) =>
              suite.base = Cardinality(Hosts) /\ suite.old = <<Old, 0>>
        /\ pc # "unplaced"
        /\ pc \in {"absent", "master", "served", "completion", "relaunch"} => Down
        /\ pc \in {"master", "served", "completion", "relaunch"} => suite.old \notin seen
        /\ pc = "count" => Returning
        /\ pc = "cleanup" \/ (pc = "suiteVerdict" /\ suite.worked) => Back
        /\ pc \in {"served", "completion", "relaunch", "count", "cleanup"}
              \/ (pc = "suiteVerdict" /\ suite.worked) => master # suite.old

SuiteInv == SuiteTypeOK /\ AtSuite /\ Sparing /\ Restoring

\* A step of the harness itself leaves the cluster to itself.
LEMMA SuiteInit == pc = "idle" /\ SuiteIdle => SuiteInv
<1> SUFFICES ASSUME pc = "idle", SuiteIdle PROVE SuiteInv
    OBVIOUS
<1>1. /\ suite = NoSuite /\ harmed = FALSE /\ outages = 0 /\ insts = {} /\ wish = {}
      /\ process = [h \in Hosts |-> [up |-> TRUE, age |-> 0]]
      BY DEF SuiteIdle
<1>2. suite.kind = "none" /\ suite.round = 0 /\ suite.old = <<Home, 0>> /\ ~suite.made
      BY <1>1 DEF NoSuite
<1>3. SuiteTypeOK
      BY <1>1, <1>2, SuiteAssumption DEF SuiteTypeOK, Process
<1>4. AtSuite /\ Sparing /\ Restoring
      BY <1>1, <1>2 DEF AtSuite, Sparing, Restoring, Clean, SuiteSteps
<1> QED BY <1>3, <1>4 DEF SuiteInv

-----------------------------------------------------------------------------
(* Identities *)

LEMMA RunningIs ==
    \A n : n \in Running <=> \E h \in Hosts : process[h].up /\ n = <<h, process[h].age>>
  BY DEF Running, Identity

LEMMA FleetIs == \A set, n : n \in Fleet(set) <=> \E h \in set : n = <<h, 0>>
  BY DEF Fleet

\* A fleet has as many identities as hosts, before and after one is replaced.
LEMMA FleetSize ==
    ASSUME NEW h \in Hosts
    PROVE  /\ IsFiniteSet(Fleet(Hosts)) /\ Cardinality(Fleet(Hosts)) = Cardinality(Hosts)
           /\ Cardinality(Hosts) \in Nat
           /\ Fleet(Hosts \ {h}) = Fleet(Hosts) \ {<<h, 0>>}
           /\ IsFiniteSet(Fleet(Hosts \ {h}))
           /\ Cardinality(Fleet(Hosts \ {h})) = Cardinality(Hosts) - 1
           /\ Cardinality(Fleet(Hosts \ {h}) \cup {<<h, 1>>}) = Cardinality(Hosts)
<1> DEFINE f == [k \in Hosts |-> <<k, 0>>]
<1>1. f \in Bijection(Hosts, Fleet(Hosts))
      BY DEF Fleet, Bijection, Injection, Surjection, IsInjective
<1>2. ExistsBijection(Hosts, Fleet(Hosts))
      BY <1>1 DEF ExistsBijection
<1>3. /\ IsFiniteSet(Fleet(Hosts)) /\ Cardinality(Fleet(Hosts)) = Cardinality(Hosts)
      /\ Cardinality(Hosts) \in Nat
      BY <1>2, SuiteAssumption, FS_Bijection, FS_CardinalityType
<1>4. Fleet(Hosts \ {h}) = Fleet(Hosts) \ {<<h, 0>>} /\ <<h, 0>> \in Fleet(Hosts)
      BY FleetIs
<1>5. /\ IsFiniteSet(Fleet(Hosts \ {h}))
      /\ Cardinality(Fleet(Hosts \ {h})) = Cardinality(Hosts) - 1
      BY <1>3, <1>4, FS_RemoveElement
<1>6. <<h, 1>> \notin Fleet(Hosts \ {h})
      BY FleetIs
<1>7. Cardinality(Fleet(Hosts \ {h}) \cup {<<h, 1>>}) = (Cardinality(Hosts) - 1) + 1
      BY <1>5, <1>6, FS_AddElement
<1>8. Cardinality(Fleet(Hosts \ {h}) \cup {<<h, 1>>}) = Cardinality(Hosts)
      BY <1>3, <1>7
<1>9. /\ IsFiniteSet(Fleet(Hosts)) /\ Cardinality(Fleet(Hosts)) = Cardinality(Hosts)
      /\ Fleet(Hosts \ {h}) = Fleet(Hosts) \ {<<h, 0>>}
      BY <1>3, <1>4
<1> QED BY <1>3, <1>5, <1>8, <1>9

-----------------------------------------------------------------------------
(* The cluster beside a suite *)

LEMMA ClusterFacts ==
    ASSUME SuiteInv, ClusterStep
    PROVE  /\ pc \in SuiteSteps /\ pc # "suiteVerdict" /\ UNCHANGED <<pc, suite, harmed>>
           /\ outages' \in Nat /\ (outages' = 0 => outages = 0 /\ UNCHANGED process)
           /\ process' \in [Hosts -> Process]
           /\ \A w \in wish' : w.key \in Nat \ {0}
           /\ \A i \in insts' : i.key = 0 =>
                 \E j \in insts : j.key = 0 /\ j.on = i.on
<1>1. /\ pc \in SuiteSteps /\ pc # "suiteVerdict" /\ UNCHANGED <<pc, suite, harmed>>
      BY DEF ClusterStep, SuiteInv, AtSuite, SuiteIdle, NoSuite
<1>2. SuiteTypeOK
      BY DEF SuiteInv
<1>3. CASE Expire \/ Join \/ Elect
      BY <1>1, <1>2, <1>3 DEF Expire, Join, Elect, SuiteTypeOK
<1>4. CASE Grant
  <2>1. PICK w \in wish :
          /\ wish' = wish \ {w}
          /\ \E on \in SUBSET ((Running \cap seen) \ w.avoid) \ {{}} :
                insts' = insts \cup {[key |-> w.key, on |-> on, ready |-> FALSE]}
        BY <1>4 DEF Grant
  <2>2. UNCHANGED <<process, outages>>
        BY <1>4 DEF Grant
  <2>3. PICK on : insts' = insts \cup {[key |-> w.key, on |-> on, ready |-> FALSE]}
        BY <2>1
  <2>4. w.key # 0
        BY <1>2, <2>1 DEF SuiteTypeOK
  <2> QED BY <1>1, <1>2, <2>1, <2>2, <2>3, <2>4 DEF SuiteTypeOK
<1>5. CASE Load
  <2>1. PICK i \in insts : insts' = (insts \ {i}) \cup {[i EXCEPT !.ready = TRUE]}
        BY <1>5 DEF Load
  <2>2. [i EXCEPT !.ready = TRUE].key = i.key /\ [i EXCEPT !.ready = TRUE].on = i.on
        OBVIOUS
  <2>3. UNCHANGED <<process, outages, wish>>
        BY <1>5 DEF Load
  <2> QED BY <1>1, <1>2, <2>1, <2>2, <2>3 DEF SuiteTypeOK
<1>6. CASE Die
  <2>1. PICK h \in Hosts : process' = [process EXCEPT ![h].up = FALSE]
        BY <1>6 DEF Die
  <2>2. process' \in [Hosts -> Process]
        BY <1>2, <2>1 DEF SuiteTypeOK, Process
  <2>3. outages' = outages + 1 /\ UNCHANGED <<insts, wish>>
        BY <1>6 DEF Die, Outage
  <2> QED BY <1>1, <1>2, <2>2, <2>3 DEF SuiteTypeOK
<1> QED BY <1>3, <1>4, <1>5, <1>6 DEF ClusterStep

\* What the cluster may do to the identities while nothing goes wrong.
LEMMA ClusterMoves ==
    ASSUME SuiteInv, ClusterStep, outages' = 0
    PROVE  /\ UNCHANGED process
           /\ \/ UNCHANGED seen
              \/ \E n \in seen \ Running : seen' = seen \ {n}
              \/ seen' = seen \cup Running
           /\ master' = master \/ master' \in Running
<1>1. UNCHANGED process /\ outages \in Nat /\ outages' = outages
      BY ClusterFacts DEF SuiteInv, SuiteTypeOK
<1>2. ~Die
      BY <1>1 DEF Die, Outage
<1> QED BY <1>1, <1>2 DEF ClusterStep, Expire, Join, Elect, Grant, Load

LEMMA ClusterRestores ==
    ASSUME SuiteInv, ClusterStep, Restoring, Clean'
    PROVE  Restoring'
<1>1. /\ pc \in SuiteSteps /\ pc # "suiteVerdict" /\ UNCHANGED <<pc, suite, process>>
      /\ Clean
      BY ClusterFacts DEF Clean
<1>2. /\ \/ UNCHANGED seen
         \/ \E n \in seen \ Running : seen' = seen \ {n}
         \/ seen' = seen \cup Running
      /\ master' = master \/ master' \in Running
      BY ClusterMoves DEF Clean
<1>3. UNCHANGED <<Old, New, OtherHosts>> /\ Old \in Hosts /\ process \in [Hosts -> Process]
      /\ \A hosts : FreshBut(hosts)' = FreshBut(hosts)
      BY <1>1 DEF Old, New, OtherHosts, FreshBut, SuiteInv, SuiteTypeOK
<1>4. Fleet(Hosts)' = Fleet(Hosts) /\ Fleet(OtherHosts)' = Fleet(OtherHosts)
      BY <1>3 DEF Fleet
<1>5. Whole => Whole'
  <2> SUFFICES ASSUME Whole PROVE seen' = seen
      BY <1>3, <1>4 DEF Whole
  <2>1. \A n : n \in Running <=> n \in Fleet(Hosts)
        BY RunningIs, FleetIs DEF Whole, FreshBut
  <2> QED BY <1>2, <2>1 DEF Whole
<1>6. Down /\ suite.old = <<Old, 0>> => /\ Down' /\ (suite.old \notin seen => suite.old \notin seen')
                                        /\ (suite.old \notin seen => suite.old \notin Running)
  <2> SUFFICES ASSUME Down, suite.old = <<Old, 0>>
               PROVE  /\ Down' /\ (suite.old \notin seen => suite.old \notin seen')
                      /\ (suite.old \notin seen => suite.old \notin Running)
      OBVIOUS
  <2>1. \A n : n \in Running <=> n \in Fleet(OtherHosts) \/ (process[Old].up /\ n = <<Old, 0>>)
        BY <1>3, RunningIs, FleetIs DEF Down, FreshBut, OtherHosts
  <2>2. <<Old, 0>> \in Fleet(Hosts) /\ Fleet(OtherHosts) \subseteq Fleet(Hosts)
        BY <1>3, FleetIs DEF OtherHosts
  <2>3. /\ Fleet(OtherHosts) \subseteq seen' /\ seen' \subseteq Fleet(Hosts)
        /\ process[Old].up => suite.old \in seen'
        BY <1>2, <2>1, <2>2 DEF Down
  <2>4. suite.old \notin Fleet(OtherHosts)
        BY FleetIs DEF OtherHosts
  <2>5. suite.old \notin seen => suite.old \notin Running
        BY <2>1, <2>4 DEF Down
  <2> QED BY <1>1, <1>2, <1>3, <1>4, <2>3, <2>5 DEF Down
<1>7. Returning /\ suite.old = <<Old, 0>> => Returning' /\ suite.old \notin Running
  <2> SUFFICES ASSUME Returning, suite.old = <<Old, 0>>
               PROVE  Returning' /\ suite.old \notin Running
      OBVIOUS
  <2>1. \A n : n \in Running <=> n \in Fleet(OtherHosts) \/ (process[Old].up /\ n = New)
        BY <1>3, RunningIs, FleetIs DEF Returning, FreshBut, OtherHosts, New
  <2>2. New \notin Fleet(OtherHosts) /\ suite.old \notin Fleet(OtherHosts) /\ suite.old # New
        BY FleetIs DEF New, OtherHosts
  <2>3. /\ Fleet(OtherHosts) \subseteq seen' /\ seen' \subseteq Fleet(OtherHosts) \cup {New}
        /\ New \in seen' => process[Old].up
        BY <1>2, <2>1, <2>2 DEF Returning
  <2> QED BY <1>1, <1>3, <1>4, <2>1, <2>2, <2>3 DEF Returning
<1>8. Back /\ suite.old = <<Old, 0>> => Back' /\ suite.old \notin Running
  <2> SUFFICES ASSUME Back, suite.old = <<Old, 0>> PROVE Back' /\ suite.old \notin Running
      OBVIOUS
  <2>1. \A n : n \in Running <=> n \in Fleet(OtherHosts) \cup {New}
        BY <1>3, RunningIs, FleetIs DEF Back, FreshBut, OtherHosts, New
  <2>2. suite.old \notin Fleet(OtherHosts) /\ suite.old # New
        BY FleetIs DEF New, OtherHosts
  <2>3. seen' = seen
        BY <1>2, <2>1 DEF Back
  <2> QED BY <1>1, <1>3, <1>4, <2>1, <2>2, <2>3 DEF Back
<1>9. pc \in {"served", "completion", "relaunch", "count", "cleanup"} => master' # suite.old
      BY <1>1, <1>2, <1>6, <1>7, <1>8 DEF Restoring
<1>10. pc # "begin" => suite.base = Cardinality(Hosts) /\ suite.old = <<Old, 0>>
      BY <1>1 DEF Restoring
<1>11. /\ pc \in {"begin", "place", "appear", "load", "kill"} => Whole'
       /\ pc \in {"absent", "master", "served", "completion", "relaunch"} => Down'
       /\ pc \in {"master", "served", "completion", "relaunch"} => suite.old \notin seen'
       /\ pc = "count" => Returning'
       /\ pc = "cleanup" => Back'
  <2>1. Restoring /\ Clean
        BY <1>1
  <2>2. /\ pc \in {"begin", "place", "appear", "load", "kill"} => Whole
        /\ pc \in {"absent", "master", "served", "completion", "relaunch"} => Down
        /\ pc \in {"master", "served", "completion", "relaunch"} => suite.old \notin seen
        /\ pc = "count" => Returning
        /\ pc = "cleanup" => Back
        BY <2>1 DEF Restoring
  <2> QED BY <1>5, <1>6, <1>7, <1>8, <1>10, <2>2
<1>12. /\ pc \in {"begin", "place", "appear", "load", "unplaced"} => ~suite.worked
       /\ pc # "unplaced"
      BY <1>1 DEF Restoring
<1>13. pc' = pc /\ suite' = suite /\ Old' = Old
      BY <1>1, <1>3
<1> QED BY <1>1, <1>9, <1>10, <1>11, <1>12, <1>13 DEF Restoring

LEMMA ClusterStepKeeps == SuiteInv /\ ClusterStep => SuiteInv'
<1> SUFFICES ASSUME SuiteInv, ClusterStep PROVE SuiteInv'
    OBVIOUS
<1>1. /\ pc \in SuiteSteps /\ UNCHANGED <<pc, suite, harmed>>
      /\ outages' \in Nat /\ process' \in [Hosts -> Process]
      /\ \A w \in wish' : w.key \in Nat \ {0}
      /\ \A i \in insts' : i.key = 0 => \E j \in insts : j.key = 0 /\ j.on = i.on
      BY ClusterFacts
<1>2. SuiteTypeOK'
      BY <1>1 DEF SuiteInv, SuiteTypeOK
<1>3. AtSuite'
      BY <1>1 DEF SuiteInv, AtSuite, Fleet
<1>4. Sparing'
      BY <1>1 DEF SuiteInv, Sparing, InScope
<1>5. Restoring'
  <2>1. CASE Clean'
        BY <2>1, ClusterRestores DEF SuiteInv
  <2>2. CASE ~Clean'
        BY <2>2 DEF Restoring
  <2> QED BY <2>1, <2>2
<1> QED BY <1>2, <1>3, <1>4, <1>5 DEF SuiteInv

-----------------------------------------------------------------------------
(* The steps of a suite *)

LEMMA SuiteFields ==
    DOMAIN NoSuite = {"kind", "base", "old", "scope", "avoid", "ours", "made", "ready",
                      "pre", "round", "worked", "marks"}
  BY DEF NoSuite

\* What a suite knows, but for some of it.
Same(fields) ==
    /\ DOMAIN suite' = DOMAIN NoSuite
    /\ \A f \in DOMAIN NoSuite \ fields : suite'[f] = suite[f]

LEMMA Noted ==
    ASSUME SuiteTypeOK, NEW mark, Knows(Marked(mark))
    PROVE  Same({"marks"}) /\ suite'.marks # {} /\ ~Clean'
<1>1. Same({"marks"}) /\ suite'.marks = suite.marks \cup {mark}
      BY SuiteFields DEF SuiteTypeOK, Knows, Marked, Same
<1> QED BY <1>1 DEF Clean

\* A step from which no wait begins that the operator's instance could end.
LEMMA Onward ==
    ASSUME SuiteInv, pc \in SuiteSteps,
           pc' \in SuiteSteps \ {"begin", "appear", "askTooMuch", "classify"},
           Same({"base", "old", "scope", "avoid", "ours", "made", "ready", "pre", "round",
                 "worked", "marks"}),
           suite'.round \in Nat, suite'.old \in Hosts \X Nat,
           process' \in [Hosts -> Process], outages' \in Nat, wish' = wish,
           harmed' = FALSE, suite'.made => suite'.ours # 0,
           suite.kind = "refusal" => pc' \in {"cleanup", "suiteVerdict"},
           pc' \in {"measure", "pick"} => suite.kind = "churn",
           suite.kind = "failover" => suite'.round = 0 /\ pc' # "soak"
    PROVE  SuiteTypeOK' /\ AtSuite' /\ Sparing'
<1>1. suite'.kind = suite.kind /\ DOMAIN suite' = DOMAIN NoSuite
      BY SuiteFields DEF Same
<1>2. SuiteTypeOK'
      BY <1>1 DEF SuiteInv, SuiteTypeOK
<1>3. AtSuite'
      BY <1>1 DEF SuiteInv, AtSuite
<1>4. Sparing'
      BY DEF Sparing
<1> QED BY <1>2, <1>3, <1>4

LEMMA StartSuiteKeeps == SuiteInv /\ StartSuite => SuiteInv'
<1> SUFFICES ASSUME SuiteInv, StartSuite PROVE SuiteInv'
    OBVIOUS
<1>1. /\ pc = "idle" /\ pc' = "begin" /\ SuiteIdle
      /\ UNCHANGED <<process, seen, wish, harmed, outages>>
      BY DEF StartSuite, SuiteInv, AtSuite, SuiteSteps
<1>2. PICK kind \in {"failover", "churn", "soak", "refusal"} :
         suite' = [NoSuite EXCEPT !.kind = kind, !.scope = Fleet(Eligible),
                                  !.avoid = Fleet(Hosts \ Eligible)]
      BY DEF StartSuite, Knows
<1>3. /\ suite'.kind = kind /\ suite'.scope = Fleet(Eligible) /\ suite'.marks = {}
      /\ suite'.round = 0 /\ suite'.old = <<Home, 0>> /\ ~suite'.made /\ ~suite'.worked
      /\ DOMAIN suite' = DOMAIN NoSuite
      BY <1>2 DEF NoSuite
<1>4. SuiteTypeOK'
      BY <1>1, <1>3, SuiteAssumption DEF SuiteInv, SuiteTypeOK
<1>5. AtSuite'
      BY <1>1, <1>3 DEF AtSuite, SuiteSteps, Fleet
<1>6. Sparing' /\ Restoring'
  <2>1. /\ seen' = Fleet(Hosts) /\ harmed' = FALSE
        /\ \A h \in Hosts : process'[h] = [up |-> TRUE, age |-> 0]
        BY <1>1 DEF SuiteIdle
  <2> QED BY <1>1, <1>3, <2>1 DEF Sparing, Restoring, Whole, FreshBut, Fleet
<1> QED BY <1>4, <1>5, <1>6 DEF SuiteInv

LEMMA RaiseKeeps == SuiteInv /\ Raise => SuiteInv'
<1> SUFFICES ASSUME SuiteInv, Raise PROVE SuiteInv'
    OBVIOUS
<1>1. /\ pc' = "suiteVerdict" /\ Knows(Marked("raised"))
      /\ UNCHANGED <<process, wish, harmed>> /\ outages' = outages + 1
      /\ pc \in SuiteSteps
      BY DEF Raise, Goes, cluster, Outage, SuiteInv, AtSuite, SuiteIdle, NoSuite
<1>2. Same({"marks"}) /\ suite'.marks # {} /\ ~Clean'
      BY <1>1, Noted DEF SuiteInv
<1>3. SuiteTypeOK' /\ AtSuite' /\ Sparing'
  <2>1. suite'.round = suite.round /\ suite'.old = suite.old
        /\ suite'.made = suite.made /\ suite'.ours = suite.ours
        BY <1>2, SuiteFields DEF Same
  <2>2. Same({"base", "old", "scope", "avoid", "ours", "made", "ready", "pre", "round",
              "worked", "marks"})
        BY <1>2 DEF Same
  <2>3. /\ suite.round \in Nat /\ suite.old \in Hosts \X Nat /\ outages' \in Nat
        /\ process \in [Hosts -> Process] /\ harmed = FALSE
        /\ suite.made => suite.ours # 0
        /\ suite.kind = "failover" => suite.round = 0
        BY <1>1 DEF SuiteInv, SuiteTypeOK, AtSuite, Sparing
  <2>4. pc' \in SuiteSteps \ {"begin", "appear", "askTooMuch", "classify"}
        BY <1>1 DEF SuiteSteps
  <2> QED BY <1>1, <2>1, <2>2, <2>3, <2>4, Onward
<1> QED BY <1>2, <1>3 DEF SuiteInv, Restoring

LEMMA BeginKeeps == SuiteInv /\ Begin => SuiteInv'
<1> SUFFICES ASSUME SuiteInv, Begin PROVE SuiteInv'
    OBVIOUS
<1>1. /\ pc = "begin" /\ UNCHANGED <<process, seen, master, insts, wish, harmed>>
      BY DEF Begin, cluster
<1>2. /\ pc \in SuiteSteps /\ suite.kind \in {"failover", "churn", "soak", "refusal"}
      /\ suite.scope = Fleet(Eligible) /\ suite.marks = {} /\ ~suite.made /\ ~suite.worked
      /\ suite.round = 0 /\ harmed = FALSE /\ DOMAIN suite = DOMAIN NoSuite
      /\ SuiteTypeOK /\ outages \in Nat
      BY <1>1 DEF SuiteInv, AtSuite, Sparing, SuiteTypeOK, SuiteSteps
<1>3. CASE suite.kind = "failover"
  <2>1. PICK n \in {0, Cardinality(seen)} :
          /\ Counted(n)
          /\ \/ Knows(Marked("target")) /\ Goes("suiteVerdict")
             \/ /\ master \in suite.scope
                /\ Knows([suite EXCEPT !.base = n, !.old = master,
                                       !.avoid = @ \cup {master}])
                /\ Goes("place")
        BY <1>3 DEF Begin
  <2>2. outages' \in Nat /\ (outages' = 0 => outages = 0 /\ n = Cardinality(seen))
        BY <1>2, <2>1 DEF Counted, Outage
  <2>3. CASE Knows(Marked("target")) /\ Goes("suiteVerdict")
    <3>1. Same({"marks"}) /\ suite'.marks # {} /\ ~Clean'
          BY <1>2, <2>3, Noted
    <3>2. suite'.round = suite.round /\ suite'.old = suite.old
          /\ suite'.made = suite.made /\ suite'.ours = suite.ours
          BY <3>1, SuiteFields DEF Same
    <3>3. Same({"base", "old", "scope", "avoid", "ours", "made", "ready", "pre", "round",
                "worked", "marks"})
          BY <3>1 DEF Same
    <3>4. SuiteTypeOK' /\ AtSuite' /\ Sparing'
          BY <1>1, <1>2, <1>3, <2>2, <2>3, <3>2, <3>3, Onward
             DEF SuiteTypeOK, SuiteSteps, Goes
    <3> QED BY <3>1, <3>4 DEF SuiteInv, Restoring
  <2>4. CASE /\ master \in suite.scope /\ Goes("place")
             /\ Knows([suite EXCEPT !.base = n, !.old = master, !.avoid = @ \cup {master}])
    <3>1. /\ Same({"base", "old", "avoid"}) /\ suite'.base = n /\ suite'.old = master
          BY <1>2, <2>4, SuiteFields DEF Knows, Same
    <3>2. PICK h \in Eligible : master = <<h, 0>>
          BY <1>2, <2>4, FleetIs
    <3>3. h \in Hosts
          BY <3>2, SuiteAssumption
    <3>4. /\ suite'.old \in Hosts \X Nat /\ suite'.round = 0 /\ ~suite'.made
          /\ ~suite'.worked /\ suite'.marks = {}
          BY <1>2, <3>1, <3>2, <3>3, SuiteFields DEF Same
    <3>5. Same({"base", "old", "scope", "avoid", "ours", "made", "ready", "pre", "round",
                "worked", "marks"})
          BY <3>1 DEF Same
    <3>6. SuiteTypeOK' /\ AtSuite' /\ Sparing'
          BY <1>1, <1>2, <1>3, <2>2, <2>4, <3>4, <3>5, Onward
             DEF SuiteTypeOK, SuiteSteps, Goes
    <3>7. ASSUME Clean' PROVE Restoring'
      <4>1. outages = 0 /\ Whole /\ n = Cardinality(Hosts)
        <5>1. Clean
              BY <1>2, <1>3, <2>2, <3>7 DEF Clean
        <5>2. Whole
              BY <1>1, <5>1 DEF SuiteInv, Restoring
        <5> QED BY <2>2, <3>3, <3>7, <5>1, <5>2, FleetSize DEF Clean, Whole
      <4>2. Whole'
            BY <1>1, <4>1 DEF Whole, FreshBut, Fleet
      <4>3. Old' = h /\ suite'.old = <<Old', 0>>
            BY <3>1, <3>2 DEF Old
      <4> QED BY <2>4, <3>1, <3>4, <4>1, <4>2, <4>3 DEF Restoring, Goes
    <3>8. Restoring'
          BY <3>7 DEF Restoring
    <3> QED BY <3>6, <3>8 DEF SuiteInv
  <2> QED BY <2>1, <2>3, <2>4
<1>4. CASE suite.kind = "refusal"
  <2>1. /\ suite' = [suite EXCEPT !.pre = {i.key : i \in insts}] /\ pc' = "askTooMuch"
        /\ outages' = outages
        BY <1>4 DEF Begin, Knows, Goes
  <2>2. Same({"pre"}) /\ suite'.pre = {i.key : i \in insts}
        BY <1>2, <2>1, SuiteFields DEF Same
  <2>3. /\ suite'.kind = suite.kind /\ suite'.round = suite.round /\ suite'.old = suite.old
        /\ suite'.made = suite.made /\ suite'.ours = suite.ours
        BY <2>2, SuiteFields DEF Same
  <2>4. SuiteTypeOK'
        BY <1>1, <1>2, <2>1, <2>2, <2>3 DEF SuiteTypeOK, Same
  <2>5. AtSuite' /\ Sparing'
        BY <1>1, <1>2, <1>4, <2>1, <2>2, <2>3 DEF AtSuite, Sparing, SuiteSteps
  <2>6. ~Clean'
        BY <1>4, <2>3 DEF Clean
  <2> QED BY <2>4, <2>5, <2>6 DEF SuiteInv, Restoring
<1>5. CASE suite.kind \in {"churn", "soak"}
  <2>1. pc' = "place" /\ UNCHANGED <<suite, outages>>
        BY <1>5 DEF Begin, Goes
  <2>2. Same({"base", "old", "scope", "avoid", "ours", "made", "ready", "pre", "round",
              "worked", "marks"})
        BY <1>2, <2>1 DEF Same
  <2>3. SuiteTypeOK' /\ AtSuite' /\ Sparing'
        BY <1>1, <1>2, <1>5, <2>1, <2>2, Onward DEF SuiteTypeOK, SuiteSteps
  <2>4. ~Clean'
        BY <1>5, <2>1 DEF Clean
  <2> QED BY <2>3, <2>4 DEF SuiteInv, Restoring
<1> QED BY <1>2, <1>3, <1>4, <1>5

AllButKind == {"base", "old", "scope", "avoid", "ours", "made", "ready", "pre", "round",
               "worked", "marks"}

\* Where a step may lead a suite.
Leads ==
    /\ pc \in SuiteSteps
    /\ pc' \in SuiteSteps \ {"begin", "appear", "askTooMuch", "classify"}
    /\ suite.kind = "refusal" => pc' \in {"cleanup", "suiteVerdict"}
    /\ pc' \in {"measure", "pick"} => suite.kind = "churn"
    /\ suite.kind = "failover" => pc' # "soak"

\* A step that goes on, whatever it does to the cluster or to what is known.
LEMMA GoesOn ==
    ASSUME SuiteInv, Leads, UNCHANGED <<suite, process, wish, harmed, outages>>
    PROVE  SuiteTypeOK' /\ AtSuite' /\ Sparing'
<1>1. Same(AllButKind)
      BY DEF Same, SuiteInv, SuiteTypeOK
<1> QED BY <1>1, Onward DEF Leads, SuiteInv, SuiteTypeOK, AtSuite, Sparing, AllButKind

LEMMA MarkGoesOn ==
    ASSUME SuiteInv, Leads, UNCHANGED <<process, wish, harmed, outages>>,
           NEW mark, Knows(Marked(mark))
    PROVE  SuiteInv'
<1>1. Same({"marks"}) /\ ~Clean'
      BY Noted DEF SuiteInv
<1>2. suite'.round = suite.round /\ suite'.old = suite.old /\ Same(AllButKind)
      /\ suite'.made = suite.made /\ suite'.ours = suite.ours
      BY <1>1, SuiteFields DEF Same, AllButKind
<1>3. SuiteTypeOK' /\ AtSuite' /\ Sparing'
      BY <1>2, Onward DEF Leads, SuiteInv, SuiteTypeOK, AtSuite, Sparing, AllButKind
<1> QED BY <1>1, <1>3 DEF SuiteInv, Restoring

\* The cluster as a step finds it that leaves it alone.
LEMMA QuietShapes ==
    ASSUME Quietly, suite'.old = suite.old
    PROVE  /\ UNCHANGED <<process, seen, master, insts, wish, harmed, outages, Old>>
           /\ Whole' = Whole /\ Down' = Down /\ Returning' = Returning /\ Back' = Back
<1>1. UNCHANGED <<process, seen, master, insts, wish, harmed, outages>>
      BY DEF Quietly, cluster
<1>2. UNCHANGED <<Old, New, OtherHosts>>
      BY DEF Old, New, OtherHosts
<1> QED BY <1>1, <1>2 DEF Whole, Down, Returning, Back, FreshBut, Fleet

LEMMA PlaceMultinodeKeeps == SuiteInv /\ PlaceMultinode => SuiteInv'
<1> SUFFICES ASSUME SuiteInv, PlaceMultinode PROVE SuiteInv'
    OBVIOUS
<1>1. /\ pc = "place" /\ UNCHANGED <<process, seen, master, insts, harmed, outages>>
      /\ pc \in SuiteSteps /\ suite.kind \in {"failover", "churn", "soak"}
      /\ DOMAIN suite = DOMAIN NoSuite /\ SuiteTypeOK /\ AtSuite /\ Sparing /\ Restoring
      BY DEF PlaceMultinode, SuiteInv, AtSuite, SuiteSteps, SuiteTypeOK
<1>2. CASE Placed # {}
  <2>1. PICK i \in Placed :
          suite' = [suite EXCEPT !.ours = i.key, !.made = FALSE, !.ready = i.ready]
        BY <1>2 DEF PlaceMultinode, Knows
  <2>2. pc' = "load" /\ wish' = wish
        BY <1>2 DEF PlaceMultinode, Goes
  <2>3. Same({"ours", "made", "ready"}) /\ ~suite'.made
        BY <1>1, <2>1, SuiteFields DEF Same
  <2>4. /\ suite'.round = suite.round /\ suite'.old = suite.old /\ suite'.base = suite.base
        /\ suite'.worked = suite.worked /\ suite'.marks = suite.marks
        /\ suite'.kind = suite.kind /\ Same(AllButKind)
        BY <2>3, SuiteFields DEF Same, AllButKind
  <2>5. SuiteTypeOK' /\ AtSuite' /\ Sparing'
        BY <1>1, <2>2, <2>3, <2>4, Onward
           DEF SuiteTypeOK, AtSuite, Sparing, AllButKind, SuiteSteps
  <2>6. Whole' = Whole /\ Old' = Old
        BY <1>1, <2>4 DEF Whole, FreshBut, Fleet, Old
  <2>7. Restoring'
        BY <1>1, <2>2, <2>4, <2>6 DEF Restoring, Clean
  <2> QED BY <2>5, <2>7 DEF SuiteInv
<1>3. CASE Placed = {} /\ Knows(Marked("placement")) /\ Goes("unplaced") /\ UNCHANGED wish
  <2>1. Leads
        BY <1>1, <1>3 DEF Leads, SuiteSteps, Goes
  <2> QED BY <1>1, <1>3, <2>1, MarkGoesOn
<1>4. CASE Placed = {} /\ wish' = wish \cup {Asks} /\ Goes("appear") /\ UNCHANGED suite
  <2>1. Asks.key \in Nat \ {0}
        BY <1>1 DEF Asks, SuiteTypeOK
  <2>2. SuiteTypeOK'
        BY <1>1, <1>4, <2>1 DEF SuiteTypeOK
  <2>3. AtSuite'
        BY <1>1, <1>4 DEF AtSuite, SuiteSteps, Goes
  <2>4. Sparing'
        BY <1>1, <1>4 DEF Sparing, Goes, Placed, InScope
  <2>5. Whole' = Whole /\ Old' = Old
        BY <1>1, <1>4 DEF Whole, FreshBut, Fleet, Old
  <2>6. Restoring'
        BY <1>1, <1>4, <2>5 DEF Restoring, Clean, Goes
  <2> QED BY <2>2, <2>3, <2>4, <2>6 DEF SuiteInv
<1> QED BY <1>2, <1>3, <1>4 DEF PlaceMultinode

LEMMA AppearKeeps == SuiteInv /\ Appear => SuiteInv'
<1> SUFFICES ASSUME SuiteInv, Appear PROVE SuiteInv'
    OBVIOUS
<1>1. /\ pc = "appear" /\ Quietly
      /\ UNCHANGED <<process, seen, master, insts, wish, harmed, outages>>
      /\ pc \in SuiteSteps /\ suite.kind \in {"failover", "churn", "soak"}
      /\ DOMAIN suite = DOMAIN NoSuite /\ SuiteTypeOK /\ AtSuite /\ Sparing /\ Restoring
      BY DEF Appear, Quietly, cluster, SuiteInv, AtSuite, SuiteSteps, SuiteTypeOK
<1>2. ASSUME NEW i \in Placed, Goes("load"),
             Knows([suite EXCEPT !.ours = i.key, !.made = TRUE, !.ready = FALSE])
      PROVE  SuiteInv'
  <2>1. Same({"ours", "made", "ready"}) /\ suite'.ours = i.key
        BY <1>1, <1>2, SuiteFields DEF Same, Knows
  <2>2. i.key # 0
        BY <1>1 DEF Sparing, Placed
  <2>3. /\ suite'.round = suite.round /\ suite'.old = suite.old /\ suite'.base = suite.base
        /\ suite'.worked = suite.worked /\ suite'.marks = suite.marks
        /\ suite'.kind = suite.kind /\ Same(AllButKind)
        BY <2>1, SuiteFields DEF Same, AllButKind
  <2>4. SuiteTypeOK' /\ AtSuite' /\ Sparing'
        BY <1>1, <1>2, <2>1, <2>2, <2>3, Onward
           DEF SuiteTypeOK, AtSuite, Sparing, AllButKind, SuiteSteps, Goes
  <2>5. Whole' = Whole /\ Old' = Old
        BY <1>1, <2>3, QuietShapes
  <2>6. Restoring'
        BY <1>1, <1>2, <2>3, <2>5 DEF Restoring, Clean, Goes
  <2> QED BY <2>4, <2>6 DEF SuiteInv
<1>3. CASE Knows(Marked("placement")) /\ Goes("unplaced")
  <2>1. Leads
        BY <1>1, <1>3 DEF Leads, SuiteSteps, Goes
  <2> QED BY <1>1, <1>3, <2>1, MarkGoesOn
<1> QED BY <1>2, <1>3 DEF Appear

LEMMA LoadedKeeps == SuiteInv /\ Loaded => SuiteInv'
<1> SUFFICES ASSUME SuiteInv, Loaded PROVE SuiteInv'
    OBVIOUS
<1>1. /\ pc = "load" /\ Quietly
      /\ UNCHANGED <<process, seen, master, insts, wish, harmed, outages>>
      /\ pc \in SuiteSteps /\ suite.kind \in {"failover", "churn", "soak"}
      /\ DOMAIN suite = DOMAIN NoSuite /\ SuiteTypeOK /\ AtSuite /\ Sparing /\ Restoring
      BY DEF Loaded, Quietly, cluster, SuiteInv, AtSuite, SuiteSteps, SuiteTypeOK
<1>2. PICK ready \in BOOLEAN :
         /\ suite' = [suite EXCEPT !.ready = ready, !.worked = ready \/ @]
         /\ pc' = IF suite.round > 0 THEN "completion"
                  ELSE IF ~ready THEN "suiteVerdict"
                  ELSE CASE suite.kind = "failover" -> "kill"
                         [] suite.kind = "churn"    -> "measure"
                         [] suite.kind = "soak"     -> "soak"
      BY DEF Loaded, Knows, Goes
<1>3. /\ Same({"ready", "worked"}) /\ suite'.worked = (ready \/ suite.worked)
      BY <1>1, <1>2, SuiteFields DEF Same
<1>4. /\ suite'.round = suite.round /\ suite'.old = suite.old /\ suite'.base = suite.base
      /\ suite'.marks = suite.marks /\ suite'.kind = suite.kind
      /\ suite'.made = suite.made /\ suite'.ours = suite.ours /\ Same(AllButKind)
      BY <1>3, SuiteFields DEF Same, AllButKind
<1>5. /\ pc' \in {"completion", "suiteVerdict", "kill", "measure", "soak"}
      /\ pc' = "measure" => suite.kind = "churn"
      /\ pc' = "soak" => suite.kind = "soak"
      /\ suite.kind = "failover" => pc' = IF ready THEN "kill" ELSE "suiteVerdict"
      BY <1>1, <1>2 DEF AtSuite
<1>6. SuiteTypeOK' /\ AtSuite' /\ Sparing'
      BY <1>1, <1>4, <1>5, Onward
         DEF SuiteTypeOK, AtSuite, Sparing, AllButKind, SuiteSteps
<1>7. Restoring'
  <2>1. Whole' = Whole /\ Old' = Old
        BY <1>1, <1>4, QuietShapes
  <2> QED BY <1>1, <1>3, <1>4, <1>5, <2>1 DEF Restoring, Clean
<1> QED BY <1>6, <1>7 DEF SuiteInv

LEMMA UnplacedKeeps == SuiteInv /\ Unplaced => SuiteInv'
<1> SUFFICES ASSUME SuiteInv, Unplaced PROVE SuiteInv'
    OBVIOUS
<1>1. /\ pc = "unplaced" /\ pc' = IF suite.round > 0 THEN "completion" ELSE "suiteVerdict"
      /\ UNCHANGED <<suite, process, seen, master, insts, wish, harmed, outages>>
      BY DEF Unplaced, Quietly, cluster, Goes
<1>2. Leads
      BY <1>1 DEF Leads, SuiteInv, AtSuite, SuiteSteps
<1>3. SuiteTypeOK' /\ AtSuite' /\ Sparing'
      BY <1>1, <1>2, GoesOn
<1>4. ~Clean'
      BY <1>1 DEF SuiteInv, Restoring, Clean
<1> QED BY <1>3, <1>4 DEF SuiteInv, Restoring

-----------------------------------------------------------------------------
(* Failover and churn *)

LEMMA KillKeeps == SuiteInv /\ Kill => SuiteInv'
<1> SUFFICES ASSUME SuiteInv, Kill PROVE SuiteInv'
    OBVIOUS
<1>1. /\ pc = "kill" /\ pc' = "absent"
      /\ \/ process' = [process EXCEPT ![Old].up = FALSE]
         \/ UNCHANGED process
      /\ UNCHANGED <<suite, seen, master, insts, wish, harmed, outages>>
      BY DEF Kill, Goes, Old
<1>2. Old \in Hosts /\ process \in [Hosts -> Process] /\ Restoring
      BY DEF Old, SuiteInv, SuiteTypeOK
<1>3. /\ process' \in [Hosts -> Process] /\ process'[Old].age = process[Old].age
      /\ process'[Old].up => process[Old].up
      /\ \A h \in Hosts \ {Old} : process'[h] = process[h]
      BY <1>1, <1>2 DEF Process
<1>4. SuiteTypeOK' /\ AtSuite' /\ Sparing'
  <2>1. Same(AllButKind)
        BY <1>1 DEF Same, SuiteInv, SuiteTypeOK
  <2> QED BY <1>1, <1>3, <2>1, Onward
             DEF SuiteInv, SuiteTypeOK, AtSuite, Sparing, AllButKind, SuiteSteps
<1>5. ASSUME Clean' PROVE Restoring'
  <2>1. Clean /\ Old' = Old /\ OtherHosts' = OtherHosts
        BY <1>1, <1>5 DEF Clean, Old, OtherHosts
  <2>2. Whole /\ suite.base = Cardinality(Hosts) /\ suite.old = <<Old, 0>>
        BY <1>1, <1>2, <2>1 DEF Restoring
  <2>3. suite.old \in Fleet(Hosts) /\ Fleet(OtherHosts) \subseteq Fleet(Hosts)
        BY <1>2, <2>2, FleetIs DEF OtherHosts
  <2>4. process[Old].age = 0
        BY <1>2, <2>2 DEF Whole, FreshBut
  <2>5. FreshBut({Old})'
        BY <1>3, <2>1, <2>2 DEF Whole, FreshBut
  <2>6. Fleet(OtherHosts)' = Fleet(OtherHosts) /\ Fleet(Hosts)' = Fleet(Hosts)
        BY <2>1 DEF Fleet
  <2>7. Down'
        BY <1>1, <1>3, <2>1, <2>2, <2>3, <2>4, <2>5, <2>6 DEF Down, Whole
  <2> QED BY <1>1, <2>1, <2>2, <2>7 DEF Restoring
<1> QED BY <1>4, <1>5 DEF SuiteInv, Restoring

\* What a clean failover knows of the cluster between the kill and the relaunch.
LEMMA AfterKill ==
    ASSUME SuiteInv, pc \in {"absent", "master", "served", "completion", "relaunch"}, Clean
    PROVE  /\ Down /\ suite.base = Cardinality(Hosts) /\ suite.old = <<Old, 0>>
           /\ pc # "absent" => suite.old \notin seen
           /\ pc \in {"served", "completion", "relaunch"} => master # suite.old
  BY DEF SuiteInv, Restoring

\* A step there that notes nothing.
LEMMA StaysDown ==
    ASSUME SuiteInv, pc \in {"absent", "master", "served", "completion"},
           pc' \in {"master", "served", "completion", "relaunch"} \/ suite.kind # "failover",
           UNCHANGED suite, Quietly, suite.kind # "failover" \/ suite.old \notin seen,
           suite.kind # "failover" \/ pc' = "master" \/ master # suite.old
    PROVE  Restoring'
<1>1. CASE suite.kind # "failover"
      BY <1>1 DEF Restoring, Clean
<1>2. CASE suite.kind = "failover"
  <2>1. /\ UNCHANGED <<process, seen, master, insts, wish, harmed, outages, Old>>
        /\ Down' = Down
        BY QuietShapes
  <2>2. Clean' => Clean /\ Down /\ suite.base = Cardinality(Hosts) /\ suite.old = <<Old, 0>>
        BY <2>1, AfterKill DEF Clean
  <2> QED BY <1>2, <2>1, <2>2 DEF Restoring
<1> QED BY <1>1, <1>2

LEMMA BlindedKeeps == SuiteInv /\ Blinded => SuiteInv'
<1> SUFFICES ASSUME SuiteInv, Blinded PROVE SuiteInv'
    OBVIOUS
<1>1. /\ pc = "absent" /\ pc' = "suiteVerdict" /\ Knows(Marked("raised"))
      /\ UNCHANGED <<process, wish, harmed, outages>>
      BY DEF Blinded, Goes, Quietly, cluster
<1>2. Leads
      BY <1>1 DEF Leads, SuiteInv, AtSuite, SuiteSteps
<1> QED BY <1>1, <1>2, MarkGoesOn

LEMMA AbsentKeeps == SuiteInv /\ Absent => SuiteInv'
<1> SUFFICES ASSUME SuiteInv, Absent PROVE SuiteInv'
    OBVIOUS
<1>1. /\ pc = "absent" /\ pc' = IF suite.kind = "churn" THEN "relaunch" ELSE "master"
      /\ UNCHANGED <<process, seen, master, insts, wish, harmed, outages>> /\ Quietly
      /\ \/ UNCHANGED suite /\ (suite.kind # "churn" => suite.old \notin seen)
         \/ Knows(Marked("absent"))
      BY DEF Absent, Await, Goes, Quietly, cluster
<1>2. Leads
      BY <1>1 DEF Leads, SuiteInv, AtSuite, SuiteSteps
<1>3. CASE UNCHANGED suite /\ (suite.kind # "churn" => suite.old \notin seen)
  <2>1. SuiteTypeOK' /\ AtSuite' /\ Sparing'
        BY <1>1, <1>2, <1>3, GoesOn
  <2>2. Restoring'
        BY <1>1, <1>3, StaysDown
  <2> QED BY <2>1, <2>2 DEF SuiteInv
<1> QED BY <1>1, <1>2, <1>3, MarkGoesOn

LEMMA NewMasterKeeps == SuiteInv /\ NewMaster => SuiteInv'
<1> SUFFICES ASSUME SuiteInv, NewMaster PROVE SuiteInv'
    OBVIOUS
<1>1. /\ pc = "master" /\ pc' = "served"
      /\ UNCHANGED <<process, seen, master, insts, wish, harmed, outages>> /\ Quietly
      /\ \/ UNCHANGED suite /\ master # suite.old
         \/ Knows(Marked("master"))
      BY DEF NewMaster, Await, Goes, Quietly, cluster
<1>2. Leads
      BY <1>1 DEF Leads, SuiteInv, AtSuite, SuiteSteps
<1>3. CASE UNCHANGED suite /\ master # suite.old
  <2>1. SuiteTypeOK' /\ AtSuite' /\ Sparing'
        BY <1>1, <1>2, <1>3, GoesOn
  <2>2. Restoring'
    <3>1. CASE Clean
          BY <1>1, <1>3, <3>1, AfterKill, StaysDown
    <3>2. CASE ~Clean
          BY <1>1, <1>3, <3>2 DEF Clean, Restoring
    <3> QED BY <3>1, <3>2
  <2> QED BY <2>1, <2>2 DEF SuiteInv
<1> QED BY <1>1, <1>2, <1>3, MarkGoesOn

LEMMA ServedKeeps == SuiteInv /\ Served => SuiteInv'
<1> SUFFICES ASSUME SuiteInv, Served PROVE SuiteInv'
    OBVIOUS
<1>1. /\ pc = "served" /\ Quietly
      /\ UNCHANGED <<process, seen, master, insts, wish, harmed, outages>>
      /\ \/ UNCHANGED suite /\ pc' = "completion"
         \/ UNCHANGED suite /\ pc' = "place" /\ suite.kind = "churn"
         \/ Knows(Marked("served")) /\ pc' = "relaunch"
      BY DEF Served, Goes, Quietly, cluster
<1>2. Leads
      BY <1>1 DEF Leads, SuiteInv, AtSuite, SuiteSteps
<1>3. CASE UNCHANGED suite /\ (pc' = "completion" \/ (pc' = "place" /\ suite.kind = "churn"))
  <2>1. SuiteTypeOK' /\ AtSuite' /\ Sparing'
        BY <1>1, <1>2, <1>3, GoesOn
  <2>2. Restoring'
    <3>1. CASE Clean
      <4>1. pc' = "completion"
            BY <1>3, <3>1 DEF Clean
      <4> QED BY <1>1, <1>3, <3>1, <4>1, AfterKill, StaysDown
    <3>2. CASE ~Clean
          BY <1>1, <1>3, <3>2 DEF Clean, Restoring
    <3> QED BY <3>1, <3>2
  <2> QED BY <2>1, <2>2 DEF SuiteInv
<1> QED BY <1>1, <1>2, <1>3, MarkGoesOn

LEMMA CompletionKeeps == SuiteInv /\ Completion => SuiteInv'
<1> SUFFICES ASSUME SuiteInv, Completion PROVE SuiteInv'
    OBVIOUS
<1>1. /\ pc = "completion" /\ Quietly
      /\ UNCHANGED <<process, seen, master, insts, wish, harmed, outages>>
      /\ pc' = IF suite.kind = "churn" THEN "pick" ELSE "relaunch"
      /\ UNCHANGED suite \/ Knows(Marked("completion"))
      BY DEF Completion, Goes, Quietly, cluster
<1>2. Leads
      BY <1>1 DEF Leads, SuiteInv, AtSuite, SuiteSteps
<1>3. CASE UNCHANGED suite
  <2>1. SuiteTypeOK' /\ AtSuite' /\ Sparing'
        BY <1>1, <1>2, <1>3, GoesOn
  <2>2. Restoring'
    <3>1. CASE Clean
      <4>1. pc' = "relaunch"
            BY <1>1, <3>1 DEF Clean
      <4> QED BY <1>1, <1>3, <3>1, <4>1, AfterKill, StaysDown
    <3>2. CASE ~Clean
          BY <1>1, <1>3, <3>2 DEF Clean, Restoring
    <3> QED BY <3>1, <3>2
  <2> QED BY <2>1, <2>2 DEF SuiteInv
<1> QED BY <1>1, <1>2, <1>3, MarkGoesOn

LEMMA RelaunchKeeps == SuiteInv /\ Relaunch => SuiteInv'
<1> SUFFICES ASSUME SuiteInv, Relaunch PROVE SuiteInv'
    OBVIOUS
<1>1. /\ pc = "relaunch" /\ pc' = "count"
      /\ \/ /\ ~process[Old].up
            /\ process' = [process EXCEPT ![Old] = [up |-> TRUE, age |-> @.age + 1]]
         \/ UNCHANGED process
      /\ UNCHANGED <<suite, seen, master, insts, wish, harmed, outages>>
      BY DEF Relaunch, Goes, Old
<1>2. Old \in Hosts /\ process \in [Hosts -> Process]
      BY DEF Old, SuiteInv, SuiteTypeOK
<1>3. /\ process' \in [Hosts -> Process]
      /\ \A h \in Hosts \ {Old} : process'[h] = process[h]
      /\ \/ ~process[Old].up /\ process'[Old].up /\ process'[Old].age = process[Old].age + 1
         \/ process' = process
  <2>1. CASE ~process[Old].up /\ process' = [process EXCEPT ![Old] = [up |-> TRUE, age |-> @.age + 1]]
    <3>1. [up |-> TRUE, age |-> process[Old].age + 1] \in Process
          BY <1>2 DEF Process
    <3>2. process' = [process EXCEPT ![Old] = [up |-> TRUE, age |-> process[Old].age + 1]]
          BY <2>1
    <3> QED BY <1>2, <2>1, <3>1, <3>2
  <2>2. CASE UNCHANGED process
        BY <1>2, <2>2
  <2> QED BY <1>1, <2>1, <2>2
<1>4. SuiteTypeOK' /\ AtSuite' /\ Sparing'
  <2>1. Same(AllButKind)
        BY <1>1 DEF Same, SuiteInv, SuiteTypeOK
  <2>2. pc \in SuiteSteps /\ suite.kind # "refusal"
        BY <1>1 DEF SuiteInv, AtSuite, SuiteSteps
  <2> QED BY <1>1, <1>3, <2>1, <2>2, Onward
             DEF SuiteInv, SuiteTypeOK, AtSuite, Sparing, AllButKind, SuiteSteps
<1>5. ASSUME Clean' PROVE Restoring'
  <2>1. Clean /\ Old' = Old /\ OtherHosts' = OtherHosts /\ New' = New
        BY <1>1, <1>5 DEF Clean, Old, OtherHosts, New
  <2>2. /\ Down /\ suite.base = Cardinality(Hosts) /\ suite.old = <<Old, 0>>
        /\ suite.old \notin seen /\ master # suite.old
        BY <1>1, <2>1, AfterKill
  <2>3. ~process[Old].up /\ process[Old].age = 0
        BY <2>2 DEF Down
  <2>4. process'[Old].age = (IF process'[Old].up THEN 1 ELSE 0)
        BY <1>3, <2>3
  <2>5. seen \subseteq Fleet(OtherHosts) /\ New \notin seen
    <3>1. \A n : n \in Fleet(Hosts) => n \in Fleet(OtherHosts) \/ n = <<Old, 0>>
          BY FleetIs DEF OtherHosts
    <3>2. New \notin Fleet(OtherHosts)
          BY FleetIs DEF New, OtherHosts
    <3> QED BY <2>2, <3>1, <3>2 DEF Down
  <2>6. FreshBut({Old})' /\ Fleet(OtherHosts)' = Fleet(OtherHosts)
        BY <1>3, <2>1, <2>2 DEF Down, FreshBut, Fleet
  <2>7. Returning'
        BY <1>1, <2>1, <2>2, <2>4, <2>5, <2>6 DEF Returning, Down
  <2> QED BY <1>1, <2>1, <2>2, <2>7 DEF Restoring
<1> QED BY <1>4, <1>5 DEF SuiteInv, Restoring

\* As many nodes as before the kill: the old master is among them again.
LEMMA CountedBack ==
    ASSUME Returning, SuiteTypeOK, Cardinality(seen) >= Cardinality(Hosts)
    PROVE  Back
<1>1. Old \in Hosts /\ process[Old] \in Process
      BY DEF Old, SuiteTypeOK
<1>2. /\ IsFiniteSet(Fleet(OtherHosts)) /\ Cardinality(Fleet(OtherHosts)) = Cardinality(Hosts) - 1
      /\ Cardinality(Hosts) \in Nat
      BY <1>1, FleetSize DEF OtherHosts
<1>3. Fleet(OtherHosts) \subseteq seen /\ seen \subseteq Fleet(OtherHosts) \cup {New}
      /\ (New \in seen => process[Old].up)
      BY DEF Returning
<1>4. New \in seen
  <2> SUFFICES ASSUME New \notin seen PROVE FALSE
      OBVIOUS
  <2>1. seen = Fleet(OtherHosts)
        BY <1>3
  <2>2. Cardinality(seen) = Cardinality(Hosts) - 1
        BY <1>2, <2>1
  <2> QED BY <1>2, <2>2
<1>5. seen = Fleet(OtherHosts) \cup {New} /\ process[Old].up
      BY <1>3, <1>4
<1> QED BY <1>1, <1>5 DEF Back, Returning, Process

LEMMA NodesBackKeeps == SuiteInv /\ NodesBack => SuiteInv'
<1> SUFFICES ASSUME SuiteInv, NodesBack PROVE SuiteInv'
    OBVIOUS
<1>1. /\ pc = "count" /\ Quietly
      /\ UNCHANGED <<process, seen, master, insts, wish, harmed, outages>>
      /\ pc \in SuiteSteps /\ suite.kind # "refusal"
      /\ DOMAIN suite = DOMAIN NoSuite /\ SuiteTypeOK /\ AtSuite /\ Sparing /\ Restoring
      BY DEF NodesBack, Quietly, cluster, SuiteInv, AtSuite, SuiteSteps, SuiteTypeOK
<1>2. CASE /\ Cardinality(seen) >= suite.base /\ suite.kind = "failover"
           /\ pc' = "cleanup" /\ UNCHANGED suite
  <2>1. SuiteTypeOK' /\ AtSuite' /\ Sparing'
    <3>1. Leads
          BY <1>1, <1>2 DEF Leads, SuiteSteps
    <3> QED BY <1>1, <1>2, <3>1, GoesOn
  <2>2. ASSUME Clean' PROVE Restoring'
    <3>1. Clean /\ Returning /\ suite.base = Cardinality(Hosts) /\ suite.old = <<Old, 0>>
          /\ master # suite.old
          BY <1>1, <1>2, <2>2 DEF Clean, Restoring
    <3>2. Back
          BY <1>1, <1>2, <3>1, CountedBack
    <3>3. Back' /\ Old' = Old
          BY <1>1, <1>2, <3>2, QuietShapes
    <3> QED BY <1>1, <1>2, <3>1, <3>3 DEF Restoring
  <2> QED BY <2>1, <2>2 DEF SuiteInv, Restoring
<1>3. CASE /\ suite.kind # "failover" /\ pc' = "served"
           /\ Knows([suite EXCEPT !.scope = {n \in seen : n[1] \in Eligible},
                                  !.avoid = {n \in seen : n[1] \notin Eligible}])
  <2>1. Same({"scope", "avoid"})
        BY <1>1, <1>3, SuiteFields DEF Same, Knows
  <2>2. /\ suite'.round = suite.round /\ suite'.old = suite.old
        /\ suite'.made = suite.made /\ suite'.ours = suite.ours
        /\ suite'.kind = suite.kind /\ Same(AllButKind)
        BY <2>1, SuiteFields DEF Same, AllButKind
  <2>3. SuiteTypeOK' /\ AtSuite' /\ Sparing'
        BY <1>1, <1>3, <2>2, Onward
           DEF SuiteTypeOK, AtSuite, Sparing, AllButKind, SuiteSteps
  <2> QED BY <1>3, <2>2, <2>3 DEF SuiteInv, Restoring, Clean
<1>4. ASSUME NEW mark \in {"scope", "count"}, Knows(Marked(mark)), pc' \in {"served", "cleanup"}
      PROVE  SuiteInv'
  <2>1. Leads
        BY <1>1, <1>4 DEF Leads, SuiteSteps
  <2> QED BY <1>1, <1>4, <2>1, MarkGoesOn
<1>5. \/ /\ Cardinality(seen) >= suite.base
         /\ \/ /\ suite.kind = "failover" /\ pc' = "cleanup" /\ UNCHANGED suite
            \/ /\ suite.kind # "failover" /\ pc' = "served"
               /\ Knows([suite EXCEPT !.scope = {n \in seen : n[1] \in Eligible},
                                      !.avoid = {n \in seen : n[1] \notin Eligible}])
            \/ Knows(Marked("scope")) /\ pc' = "cleanup"
      \/ Knows(Marked("count")) /\ pc' \in {"served", "cleanup"}
      BY DEF NodesBack, Goes
<1> QED BY <1>2, <1>3, <1>4, <1>5

LEMMA MeasureKeeps == SuiteInv /\ Measure => SuiteInv'
<1> SUFFICES ASSUME SuiteInv, Measure PROVE SuiteInv'
    OBVIOUS
<1>1. /\ pc = "measure" /\ pc' = "pick" /\ UNCHANGED <<process, wish, harmed>>
      /\ pc \in SuiteSteps /\ suite.kind = "churn"
      /\ DOMAIN suite = DOMAIN NoSuite /\ SuiteTypeOK /\ AtSuite /\ Sparing
      BY DEF Measure, Goes, cluster, SuiteInv, AtSuite, SuiteSteps, SuiteTypeOK
<1>2. PICK n : Counted(n) /\ suite' = [suite EXCEPT !.base = n]
      BY DEF Measure, Knows
<1>3. Same({"base"}) /\ outages' \in Nat
      BY <1>1, <1>2, SuiteFields DEF Same, Counted, Outage, SuiteTypeOK
<1>4. /\ suite'.round = suite.round /\ suite'.old = suite.old
      /\ suite'.made = suite.made /\ suite'.ours = suite.ours
      /\ suite'.kind = suite.kind /\ Same(AllButKind)
      BY <1>3, SuiteFields DEF Same, AllButKind
<1>5. SuiteTypeOK' /\ AtSuite' /\ Sparing'
      BY <1>1, <1>3, <1>4, Onward DEF SuiteTypeOK, AtSuite, Sparing, AllButKind, SuiteSteps
<1> QED BY <1>1, <1>4, <1>5 DEF SuiteInv, Restoring, Clean

LEMMA PickKeeps == SuiteInv /\ Pick => SuiteInv'
<1> SUFFICES ASSUME SuiteInv, Pick PROVE SuiteInv'
    OBVIOUS
<1>1. /\ pc = "pick" /\ Quietly /\ UNCHANGED <<process, wish, harmed, outages>>
      /\ pc \in SuiteSteps /\ suite.kind = "churn"
      /\ DOMAIN suite = DOMAIN NoSuite /\ SuiteTypeOK /\ AtSuite /\ Sparing
      BY DEF Pick, Quietly, cluster, SuiteInv, AtSuite, SuiteSteps, SuiteTypeOK
<1>2. CASE Goes("cleanup") /\ UNCHANGED suite
  <2>1. Leads
        BY <1>1, <1>2 DEF Leads, SuiteSteps, Goes
  <2>2. SuiteTypeOK' /\ AtSuite' /\ Sparing'
        BY <1>1, <1>2, <2>1, GoesOn
  <2> QED BY <1>1, <1>2, <2>2 DEF SuiteInv, Restoring, Clean
<1>3. CASE Goes("cleanup") /\ Knows(Marked("target"))
  <2>1. Leads
        BY <1>1, <1>3 DEF Leads, SuiteSteps, Goes
  <2> QED BY <1>1, <1>3, <2>1, MarkGoesOn
<1>4. ASSUME NEW h \in Eligible, Goes("kill"),
             Knows([suite EXCEPT !.old = Identity(h), !.round = @ + 1])
      PROVE  SuiteInv'
  <2>1. Same({"old", "round"}) /\ suite'.old = Identity(h) /\ suite'.round = suite.round + 1
        BY <1>1, <1>4, SuiteFields DEF Same, Knows
  <2>2. Identity(h) \in Hosts \X Nat
        BY <1>1, SuiteAssumption DEF Identity, SuiteTypeOK, Process
  <2>3. /\ suite'.made = suite.made /\ suite'.ours = suite.ours
        /\ suite'.kind = suite.kind /\ Same(AllButKind)
        BY <2>1, SuiteFields DEF Same, AllButKind
  <2>4. SuiteTypeOK' /\ AtSuite' /\ Sparing'
    <3>1. suite'.round \in Nat /\ suite'.old \in Hosts \X Nat
          BY <1>1, <2>1, <2>2 DEF SuiteTypeOK
    <3>2. pc' = "kill" /\ pc' \in SuiteSteps \ {"begin", "appear", "askTooMuch", "classify"}
          BY <1>4 DEF Goes, SuiteSteps
    <3> QED BY <1>1, <2>3, <3>1, <3>2, Onward
               DEF SuiteTypeOK, Sparing, AllButKind
  <2> QED BY <1>1, <2>3, <2>4 DEF SuiteInv, Restoring, Clean
<1> QED BY <1>2, <1>3, <1>4 DEF Pick

-----------------------------------------------------------------------------
(* Soak, refusal and the end *)

LEMMA SoakKeeps == SuiteInv /\ Soak => SuiteInv'
<1> SUFFICES ASSUME SuiteInv, Soak PROVE SuiteInv'
    OBVIOUS
<1>1. /\ pc = "soak" /\ pc' = "cleanup" /\ UNCHANGED <<process, wish, harmed, outages>>
      /\ UNCHANGED suite \/ Knows(Marked("completion"))
      /\ suite.kind \notin {"failover", "refusal"}
      BY DEF Soak, Goes, Quietly, cluster, SuiteInv, AtSuite
<1>2. Leads
      BY <1>1 DEF Leads, SuiteSteps
<1>3. CASE UNCHANGED suite
  <2>1. SuiteTypeOK' /\ AtSuite' /\ Sparing'
        BY <1>1, <1>2, <1>3, GoesOn
  <2> QED BY <1>1, <1>3, <2>1 DEF SuiteInv, Restoring, Clean
<1> QED BY <1>1, <1>2, <1>3, MarkGoesOn

LEMMA AskTooMuchKeeps == SuiteInv /\ AskTooMuch => SuiteInv'
<1> SUFFICES ASSUME SuiteInv, AskTooMuch PROVE SuiteInv'
    OBVIOUS
<1>1. /\ pc = "askTooMuch" /\ pc \in SuiteSteps /\ suite.kind = "refusal"
      /\ UNCHANGED <<suite, process, seen, master, insts, harmed, outages>>
      /\ \/ pc' = "suiteVerdict" /\ UNCHANGED wish
         \/ pc' = "classify" /\ wish' = wish \cup {Asks}
      BY DEF AskTooMuch, Goes, SuiteInv, AtSuite, SuiteSteps
<1>2. Asks.key \in Nat \ {0}
      BY DEF Asks, SuiteInv, SuiteTypeOK
<1>3. SuiteTypeOK'
      BY <1>1, <1>2 DEF SuiteInv, SuiteTypeOK
<1>4. AtSuite' /\ Sparing'
      BY <1>1 DEF SuiteInv, AtSuite, Sparing, SuiteSteps
<1> QED BY <1>1, <1>3, <1>4 DEF SuiteInv, Restoring, Clean

LEMMA ClassifyKeeps == SuiteInv /\ Classify => SuiteInv'
<1> SUFFICES ASSUME SuiteInv, Classify PROVE SuiteInv'
    OBVIOUS
<1>1. /\ pc = "classify" /\ UNCHANGED <<process, wish, harmed, outages>>
      /\ pc \in SuiteSteps /\ suite.kind = "refusal"
      /\ DOMAIN suite = DOMAIN NoSuite /\ SuiteTypeOK /\ AtSuite /\ Sparing
      BY DEF Classify, Quietly, cluster, SuiteInv, AtSuite, SuiteSteps, SuiteTypeOK
<1>2. CASE Goes("suiteVerdict") /\ UNCHANGED suite
  <2>1. Leads
        BY <1>1, <1>2 DEF Leads, SuiteSteps, Goes
  <2>2. SuiteTypeOK' /\ AtSuite' /\ Sparing'
        BY <1>1, <1>2, <2>1, GoesOn
  <2> QED BY <1>1, <1>2, <2>2 DEF SuiteInv, Restoring, Clean
<1>3. ASSUME NEW i \in Placed, i.key \notin suite.pre, Goes("cleanup"),
             NEW s, s = [suite EXCEPT !.ours = i.key, !.made = TRUE, !.worked = TRUE],
             Knows(s) \/ Knows([s EXCEPT !.marks = @ \cup {"wedged"}])
      PROVE  SuiteInv'
  <2>1. /\ Same({"ours", "made", "worked", "marks"}) /\ suite'.ours = i.key
        BY <1>1, <1>3, SuiteFields DEF Same, Knows
  <2>2. i.key # 0
        BY <1>1, <1>3 DEF Sparing, Placed
  <2>3. /\ suite'.round = suite.round /\ suite'.old = suite.old
        /\ suite'.kind = suite.kind /\ Same(AllButKind)
        BY <2>1, SuiteFields DEF Same, AllButKind
  <2>4. SuiteTypeOK' /\ AtSuite' /\ Sparing'
        BY <1>1, <1>3, <2>1, <2>2, <2>3, Onward
           DEF SuiteTypeOK, AtSuite, Sparing, AllButKind, SuiteSteps, Goes
  <2> QED BY <1>1, <2>3, <2>4 DEF SuiteInv, Restoring, Clean
<1> DEFINE more(i) == [suite EXCEPT !.ours = i.key, !.made = TRUE, !.worked = TRUE]
<1>4. \/ Goes("suiteVerdict") /\ UNCHANGED suite
      \/ \E i \in Placed : /\ i.key \notin suite.pre /\ Goes("cleanup")
                           /\ \/ Knows(more(i))
                              \/ Knows([more(i) EXCEPT !.marks = @ \cup {"wedged"}])
      BY DEF Classify
<1> QED BY <1>2, <1>3, <1>4

LEMMA CleanupKeeps == SuiteInv /\ Cleanup => SuiteInv'
<1> SUFFICES ASSUME SuiteInv, Cleanup PROVE SuiteInv'
    OBVIOUS
<1>1. /\ pc = "cleanup" /\ pc' = "suiteVerdict"
      /\ UNCHANGED <<suite, process, seen, master, wish, outages>>
      /\ (suite.made /\ harmed' = (suite.ours = 0)) \/ UNCHANGED harmed
      BY DEF Cleanup, Goes
<1>2. Leads
      BY <1>1 DEF Leads, SuiteSteps, SuiteInv, AtSuite
<1>3. harmed' = harmed
      BY <1>1 DEF SuiteInv, Sparing
<1>4. SuiteTypeOK' /\ AtSuite' /\ Sparing'
      BY <1>1, <1>2, <1>3, GoesOn
<1>5. Back' = Back
      BY <1>1 DEF Back, FreshBut, Fleet, OtherHosts, New, Old
<1>6. Restoring'
      BY <1>1, <1>5 DEF SuiteInv, Restoring, Clean, Old
<1> QED BY <1>4, <1>6 DEF SuiteInv

LEMMA FinishSuiteKeeps == SuiteInv /\ FinishSuite => SuiteInv'
<1> SUFFICES ASSUME FinishSuite PROVE SuiteInv'
    OBVIOUS
<1>1. pc' = "idle" /\ SuiteIdle'
      BY DEF FinishSuite, SuiteIdle, Fleet, NoSuite
<1>2. (pc = "idle" /\ SuiteIdle => SuiteInv)'
      BY SuiteInit, PTL
<1> QED BY <1>1, <1>2

LEMMA SuiteStep == SuiteInv /\ [SuiteNext]_<<pc, suiteVars>> => SuiteInv'
<1> SUFFICES ASSUME SuiteInv, [SuiteNext]_<<pc, suiteVars>> PROVE SuiteInv'
    OBVIOUS
<1>1. CASE StartSuite \/ ClusterStep \/ Raise \/ Blinded \/ Begin
      BY <1>1, StartSuiteKeeps, ClusterStepKeeps, RaiseKeeps, BlindedKeeps,
         BeginKeeps
<1>2. CASE PlaceMultinode \/ Appear \/ Loaded \/ Unplaced
      BY <1>2, PlaceMultinodeKeeps, AppearKeeps, LoadedKeeps, UnplacedKeeps
<1>3. CASE Kill \/ Absent \/ NewMaster \/ Served \/ Completion \/ Relaunch \/ NodesBack
      BY <1>3, KillKeeps, AbsentKeeps, NewMasterKeeps, ServedKeeps, CompletionKeeps,
         RelaunchKeeps, NodesBackKeeps
<1>4. CASE Measure \/ Pick \/ Soak \/ AskTooMuch \/ Classify \/ Cleanup \/ FinishSuite
      BY <1>4, MeasureKeeps, PickKeeps, SoakKeeps, AskTooMuchKeeps, ClassifyKeeps,
         CleanupKeeps, FinishSuiteKeeps
<1>5. CASE UNCHANGED <<pc, suiteVars>>
  <2>1. UNCHANGED <<pc, suite, process, seen, master, insts, wish, harmed, outages>>
        BY <1>5 DEF suiteVars, cluster
  <2>2. /\ UNCHANGED <<Whole, Down, Returning, Back, Clean, Old, SuiteIdle>>
        /\ \A i : UNCHANGED InScope(i)
        BY <2>1 DEF Whole, Down, Returning, Back, Clean, FreshBut, Old, New, OtherHosts, Fleet,
                    SuiteIdle, InScope, NoSuite
  <2>3. Fleet(Eligible)' = Fleet(Eligible) /\ NoSuite' = NoSuite
        BY DEF Fleet, NoSuite
  <2> QED BY <2>1, <2>2, <2>3 DEF SuiteInv, SuiteTypeOK, AtSuite, Sparing, Restoring
<1> QED BY <1>1, <1>2, <1>3, <1>4, <1>5 DEF SuiteNext

\* What a suite is at, and what it knows of the cluster, in a clean failover.
THEOREM SuiteInvariant == SuiteSpec => []SuiteInv
<1> QED BY SuiteInit, SuiteStep, PTL DEF SuiteSpec

\* No suite on any fleet deletes an instance of the operator's
\* (_cleanup_instance, _place_multinode, classify_placement_outcome).
THEOREM SuiteSpares == SuiteSpec => []SparesOperators
<1>1. SuiteInv => SparesOperators
      BY DEF SuiteInv, Sparing, SparesOperators
<1> QED BY <1>1, SuiteInvariant, PTL

LEMMA BackMeansRestored ==
    ASSUME SuiteInv, Back, suite.old = <<Old, 0>>
    PROVE  suite.old \notin Running /\ Running = seen
           /\ Cardinality(Running) = Cardinality(Hosts)
<1>1. Old \in Hosts /\ process \in [Hosts -> Process]
      BY DEF Old, SuiteInv, SuiteTypeOK
<1>2. \A n : n \in Running <=> n \in Fleet(OtherHosts) \cup {New}
      BY <1>1, RunningIs, FleetIs DEF Back, FreshBut, OtherHosts, New
<1>3. suite.old \notin Fleet(OtherHosts) /\ suite.old # New
      BY FleetIs DEF New, OtherHosts
<1>4. Running = Fleet(OtherHosts) \cup {New}
      BY <1>2
<1>5. Cardinality(Fleet(OtherHosts) \cup {New}) = Cardinality(Hosts)
      BY <1>1, FleetSize DEF OtherHosts, New
<1> QED BY <1>3, <1>4, <1>5 DEF Back

\* A failover that passes on any fleet, without other faults, left it whole
\* (run_failover): the node that came back is told from the one that was killed.
THEOREM SuiteRestores == SuiteSpec => []FailoverRestores
<1>1. SuiteInv => FailoverRestores
  <2> SUFFICES ASSUME SuiteInv, pc = "suiteVerdict", suite.kind = "failover", SuitePassed,
                      suite.worked, outages = 0
               PROVE  suite.old \notin Running /\ master # suite.old
                      /\ Running = seen /\ Cardinality(Running) = Cardinality(Hosts)
      BY DEF FailoverRestores
  <2>1. Back /\ master # suite.old /\ suite.old = <<Old, 0>>
        BY DEF SuiteInv, Restoring, Clean, SuitePassed
  <2> QED BY <2>1, BackMeansRestored
<1> QED BY <1>1, SuiteInvariant, PTL

=============================================================================
