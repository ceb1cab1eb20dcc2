----------------------- MODULE FleetLockStoreProofs -----------------------
(***************************************************************************)
(* Proofs about FleetLockStore for every set of processes, clones, holders *)
(* and segments, every lease duration and every bound: StoreInv is an      *)
(* invariant, so a lease that was granted stays with its holder, two       *)
(* holders never both hold a segment, and the store implements FleetLease. *)
(* SharedInv, a weaker one, holds beside an older harness that resets the  *)
(* clone at any point: no release that is reported lies.                   *)
(***************************************************************************)
EXTENDS FleetLockStore, TLAPS

-----------------------------------------------------------------------------
(* Facts about leases and about the git helpers *)

LEMMA LeaseFacts ==
    /\ Absent \in Leases /\ Free \in Leases
    /\ Absent.state = "absent" /\ Free.state = "free"
    /\ \A l \in Leases : /\ l.state \in {"absent", "free", "held"}
                         /\ l.state = "held" <=> l \in HeldLeases
                         /\ l.state = "absent" <=> l = Absent
                         /\ l.state = "free" <=> l = Free
                         /\ l.expires \in Int
                         /\ l.holder \in Holders \cup {NoHolder}
                         /\ l.state = "held" => l.holder \in Holders
                         /\ Reading(l) \in Leases
                         /\ Reading(l).state # "absent"
                         /\ l # Absent => Reading(l) = l
  BY DEF Leases, HeldLeases, Absent, Free, NoStamp, Reading

\* Fetch and reset leave a well-typed clone at the tip of the branch.
LEMMA SynchroniseFacts ==
    ASSUME TypeOK, NEW c \in Clones, Synchronise(c)
    PROVE  /\ base' \in [Clones -> Nat]
           /\ origin' \in [Clones -> [Segments -> Leases]]
           /\ head' \in [Clones -> [Segments -> Leases]]
           /\ index' \in [Clones -> [Segments -> Leases]]
           /\ work' \in [Clones -> [Segments -> Leases]]
           /\ base'[c] = tip
           /\ origin'[c] = remote /\ head'[c] = remote /\ index'[c] = remote
           /\ \A s \in Segments :
                 remote[s] # Absent \/ index[c][s] # Absent
                     => work'[c][s] = remote[s]
           /\ \A d \in Clones \ {c} :
                 /\ base'[d] = base[d] /\ origin'[d] = origin[d]
                 /\ head'[d] = head[d] /\ index'[d] = index[d]
                 /\ work'[d] = work[d]
  BY DEF TypeOK, Synchronise, ResetTo

\* Landing a lawful push types the branch and moves it by one commit.
LEMMA LandFacts ==
    ASSUME StoreAssumption, TypeOK, NEW m \in Pushes, Land(m)
    PROVE  /\ remote' \in [Segments -> Leases]
           /\ tip' = tip + 1 /\ tip' \in Nat
           /\ claim' \in [Procs -> [Segments -> Int]]
           /\ \A p \in Procs, s \in Segments : claim'[p][s] = ClaimAfter(m, p, s)
  <1>1. \A p \in Procs, s \in Segments : ClaimAfter(m, p, s) \in Int
    BY LeaseFacts DEF TypeOK, Pushes, ClaimAfter
  <1> QED
    BY <1>1 DEF Land, TypeOK, Pushes

\* A lawful push that lands leaves every other granted lease in force.
LEMMA LandKeepsClaims ==
    ASSUME StoreAssumption, TypeOK, ClaimBacked, NEW m \in Pushes,
           Lawful(m), FastForward(m), Land(m), UNCHANGED clock
    PROVE  ClaimBacked'
  <1> SUFFICES ASSUME NEW p \in Procs, NEW s \in Segments,
                      clock' < claim'[p][s]
               PROVE  /\ remote'[s].state = "held"
                      /\ remote'[s].holder = Me(p)
                      /\ claim'[p][s] <= remote'[s].expires
    BY DEF ClaimBacked, Me
  <1>1. claim'[p][s] = ClaimAfter(m, p, s)
    BY LandFacts
  <1>2. remote' = [remote EXCEPT ![m.seg] = m.lease]
    BY DEF Land, Lawful, FastForward
  <1>3. clock < claim[p][s] =>
           /\ remote[s].state = "held" /\ remote[s].holder = Me(p)
           /\ claim[p][s] <= remote[s].expires
    BY DEF ClaimBacked
  <1>4. /\ clock \in Nat /\ claim[p][s] \in Int /\ m.lease.expires \in Int
        /\ remote[s].expires \in Int /\ remote \in [Segments -> Leases]
    BY LeaseFacts DEF TypeOK, Pushes
  <1>5. CASE s # m.seg
    BY <1>1, <1>2, <1>3, <1>4, <1>5 DEF ClaimAfter
  <1>6. CASE s = m.seg
    <2>1. MayReplace(remote[s], m.kind, m.by)
      BY <1>6 DEF Lawful, FastForward
    <2>2. remote'[s] = m.lease
      BY <1>2, <1>4, <1>6
    <2>3. m.kind # "break"
      BY <1>1, <1>4, <1>6 DEF ClaimAfter
    <2>4. clock < claim[p][s]
      BY <1>1, <1>4, <1>6, <2>3 DEF ClaimAfter
    <2>5. Me(p) = Me(m.by)
      BY <1>3, <1>4, <2>1, <2>3, <2>4 DEF MayReplace
    <2>6. m.kind \in Writes /\ claim'[p][s] <= m.lease.expires
      <3>1. m.kind # "release"
        BY <1>1, <1>4, <1>6, <2>3, <2>5 DEF ClaimAfter, Me
      <3>2. m.kind \in Writes
        BY <2>3, <3>1 DEF Lawful, Written, Releases
      <3> QED
        BY <1>1, <1>4, <1>6, <2>3, <2>5, <3>1, <3>2 DEF ClaimAfter, Me
    <2> QED
      BY <2>2, <2>5, <2>6 DEF Lawful, Written, HeldLeases
  <1> QED
    BY <1>5, <1>6

-----------------------------------------------------------------------------
(* Type correctness *)

LEMMA PushOfType ==
    ASSUME StoreAssumption, TypeOK, NEW p \in Procs
    PROVE  PushOf(p) \in Pushes
  BY DEF StoreAssumption, TypeOK, PushOf, Pushes, Requests, Seg, Dir

LEMMA HeldType ==
    ASSUME StoreAssumption, TypeOK, NEW p \in Procs
    PROVE  /\ Held(Me(p), clock + req[p].ttl, <<p, ops[p]>>) \in HeldLeases
           /\ Held(Me(p), clock + req[p].ttl, <<p, ops[p]>>) \in Leases
  <1>1. req[p].ttl \in Int /\ clock \in Nat /\ ops[p] \in Nat
    BY DEF TypeOK, Requests
  <1>2. HolderOf[p] \in Holders
    BY DEF StoreAssumption
  <1>3. <<p, ops[p]>> \in Stamps
    BY <1>1 DEF Stamps
  <1>4. clock + req[p].ttl \in Int
    BY <1>1
  <1>5. Held(Me(p), clock + req[p].ttl, <<p, ops[p]>>) \in HeldLeases
    BY <1>2, <1>3, <1>4 DEF Held, HeldLeases, Me
  <1> QED
    BY <1>5 DEF Leases

LEMMA TypePreserved ==
    ASSUME StoreAssumption, TypeOK, [Next]_vars
    PROVE  TypeOK'
  <1> USE StoreAssumption DEF Goto, Finish, Fault, MayFail, Places, Inside,
          Results, Dir, Seg, remoteVars, cloneVars, procVars
  <1>1. CASE Tick
    BY <1>1 DEF Tick, TypeOK
  <1>2. ASSUME NEW m \in flying, Deliver(m) PROVE TypeOK'
    <2>1. m \in Pushes
      BY DEF TypeOK
    <2>2. CASE FastForward(m)
      <3>1. Land(m)
        BY <1>2, <2>2 DEF Deliver
      <3> QED
        BY <1>2, <2>1, <3>1, LandFacts DEF Deliver, TypeOK
    <2>3. CASE ~FastForward(m)
      BY <1>2, <2>3 DEF Deliver, TypeOK
    <2> QED
      BY <2>2, <2>3
  <1>3. ASSUME NEW p \in Procs, Start(p) PROVE TypeOK'
    BY <1>3 DEF Start, TypeOK, Requests, Kinds, Writes, Releases
  <1>4. ASSUME NEW p \in Procs, Lock(p) PROVE TypeOK'
    BY <1>4 DEF Lock, TypeOK
  <1>5. ASSUME NEW p \in Procs, NEW c \in Clones, c = Dir(p), Synchronise(c),
               seen' = [seen EXCEPT ![p] = Reading(work'[Dir(p)][Seg(p)])]
        PROVE  /\ base' \in [Clones -> Nat]
               /\ origin' \in [Clones -> [Segments -> Leases]]
               /\ head' \in [Clones -> [Segments -> Leases]]
               /\ index' \in [Clones -> [Segments -> Leases]]
               /\ work' \in [Clones -> [Segments -> Leases]]
               /\ seen' \in [Procs -> Leases]
    <2>1. req[p].seg \in Segments
      BY DEF TypeOK, Requests
    <2>2. work' \in [Clones -> [Segments -> Leases]]
      BY <1>5, SynchroniseFacts
    <2>3. Reading(work'[c][req[p].seg]) \in Leases
      BY <2>1, <2>2, LeaseFacts
    <2> QED
      BY <1>5, <2>3, SynchroniseFacts DEF TypeOK
  <1>6. ASSUME NEW p \in Procs, Sync(p) PROVE TypeOK'
    BY <1>5, <1>6 DEF Sync, TypeOK
  <1>7. ASSUME NEW p \in Procs, Decide(p) PROVE TypeOK'
    <2>1. want' \in [Procs -> Leases]
      <3>1. \/ want' = want
            \/ want' = [want EXCEPT ![p] =
                          Held(Me(p), clock + req[p].ttl, <<p, ops[p]>>)]
            \/ want' = [want EXCEPT ![p] = Free]
        BY <1>7 DEF Decide
      <3>2. want \in [Procs -> Leases] /\ Free \in Leases
        BY LeaseFacts DEF TypeOK
      <3>3. Held(Me(p), clock + req[p].ttl, <<p, ops[p]>>) \in Leases
        BY HeldType
      <3> QED
        BY <3>1, <3>2, <3>3
    <2> QED
      BY <1>7, <2>1 DEF Decide, TypeOK
  <1>8. ASSUME NEW p \in Procs, Write(p) PROVE TypeOK'
    BY <1>8 DEF Write, TypeOK
  <1>9. ASSUME NEW p \in Procs, Add(p) PROVE TypeOK'
    BY <1>9 DEF Add, TypeOK, Requests
  <1>10. ASSUME NEW p \in Procs, Status(p) PROVE TypeOK'
    BY <1>10 DEF Status, TypeOK
  <1>11. ASSUME NEW p \in Procs, Commit(p) PROVE TypeOK'
    <2>1. head' \in [Clones -> [Segments -> Leases]]
      BY <1>11 DEF Commit, TypeOK
    <2>2. /\ pc' \in [Procs -> Places] /\ result' \in [Procs -> Results]
          /\ flock' \in [Clones -> Procs \cup {NoProc}]
      BY <1>11 DEF Commit, TypeOK
    <2> QED
      BY <1>11, <2>1, <2>2 DEF Commit, TypeOK
  <1>12. ASSUME NEW p \in Procs, PushAccepted(p) PROVE TypeOK'
    <2>1. CASE Ahead(Dir(p))
      <3>1. Land(PushOf(p)) /\ PushOf(p) \in Pushes
        BY <1>12, <2>1, PushOfType DEF PushAccepted
      <3>2. /\ remote' \in [Segments -> Leases] /\ tip' \in Nat
            /\ claim' \in [Procs -> [Segments -> Int]]
        BY <3>1, LandFacts
      <3>3. /\ base' \in [Clones -> Nat]
            /\ origin' \in [Clones -> [Segments -> Leases]]
        <4>1. /\ base' = [base EXCEPT ![Dir(p)] = tip + 1]
              /\ origin' = [origin EXCEPT ![Dir(p)] = head[Dir(p)]]
          BY <1>12, <2>1 DEF PushAccepted
        <4>2. /\ base \in [Clones -> Nat] /\ tip + 1 \in Nat
              /\ origin \in [Clones -> [Segments -> Leases]]
              /\ head \in [Clones -> [Segments -> Leases]]
              /\ Dir(p) \in Clones
          BY DEF TypeOK, StoreAssumption
        <4> QED
          BY <4>1, <4>2
      <3>4. /\ pc' \in [Procs -> Places]
            /\ UNCHANGED <<clock, flying, head, index, work, flock, procVars,
                           faults>>
        BY <1>12 DEF PushAccepted, TypeOK
      <3> QED
        BY <3>2, <3>3, <3>4 DEF TypeOK
    <2>2. CASE ~Ahead(Dir(p))
      BY <1>12, <2>2 DEF PushAccepted, TypeOK
    <2> QED
      BY <2>1, <2>2
  <1>13. ASSUME NEW p \in Procs, PushRejected(p) PROVE TypeOK'
    BY <1>13 DEF PushRejected, TypeOK
  <1>14. ASSUME NEW p \in Procs, Verify(p) PROVE TypeOK'
    <2>1. claim' \in [Procs -> [Segments -> Int]]
      <3>1. claim' \in {claim,
                        [claim EXCEPT ![p][Seg(p)] = want[p].expires]}
        BY <1>14 DEF Verify
      <3>2. want[p].expires \in Int /\ req[p].seg \in Segments
        BY LeaseFacts DEF TypeOK, Requests
      <3>3. claim \in [Procs -> [Segments -> Int]]
        BY DEF TypeOK
      <3> QED
        BY <3>1, <3>2, <3>3
    <2> QED
      BY <1>5, <1>14, <2>1 DEF Verify, TypeOK
  <1>15. ASSUME NEW p \in Procs, NoopVerify(p) PROVE TypeOK'
    <2>1. claim' \in [Procs -> [Segments -> Int]]
      <3>1. claim' \in {claim,
                        [claim EXCEPT ![p][Seg(p)] = want[p].expires]}
        BY <1>15 DEF NoopVerify
      <3>2. want[p].expires \in Int /\ req[p].seg \in Segments
        BY LeaseFacts DEF TypeOK, Requests
      <3>3. claim \in [Procs -> [Segments -> Int]]
        BY DEF TypeOK
      <3> QED
        BY <3>1, <3>2, <3>3
    <2> QED
      BY <1>5, <1>15, <2>1 DEF NoopVerify, TypeOK
  <1>16. ASSUME NEW p \in Procs, Resync(p) PROVE TypeOK'
    <2>1. /\ base' \in [Clones -> Nat]
          /\ origin' \in [Clones -> [Segments -> Leases]]
          /\ head' \in [Clones -> [Segments -> Leases]]
          /\ index' \in [Clones -> [Segments -> Leases]]
          /\ work' \in [Clones -> [Segments -> Leases]]
      <3>1. CASE Synchronise(Dir(p))
        BY <3>1, SynchroniseFacts DEF TypeOK
      <3>2. CASE ResetTo(Dir(p), origin[Dir(p)]) /\ UNCHANGED <<base, origin>>
        BY <3>2 DEF ResetTo, TypeOK
      <3>3. CASE UNCHANGED cloneVars
        BY <3>3 DEF TypeOK
      <3> QED
        BY <1>16, <3>1, <3>2, <3>3 DEF Resync
    <2> QED
      BY <1>16, <2>1 DEF Resync, TypeOK
  <1>17. ASSUME NEW p \in Procs, Reread(p) PROVE TypeOK'
    BY <1>5, <1>17 DEF Reread, TypeOK
  <1>18. ASSUME NEW p \in Procs, PushUnanswered(p) PROVE TypeOK'
    <2>1. flying' \subseteq Pushes
      BY <1>18, PushOfType DEF PushUnanswered, TypeOK
    <2>2. pc' \in [Procs -> Places] /\ result' \in [Procs -> Results]
      BY <1>18 DEF PushUnanswered, TypeOK
    <2>3. flock' \in [Clones -> Procs \cup {NoProc}]
      BY <1>18 DEF PushUnanswered, TypeOK
    <2> QED
      BY <1>18, <2>1, <2>2, <2>3 DEF PushUnanswered, TypeOK
  <1>19. ASSUME NEW p \in Procs, Raise(p) PROVE TypeOK'
    BY <1>19 DEF Raise, TypeOK
  <1>20. ASSUME NEW p \in Procs, Crash(p) PROVE TypeOK'
    BY <1>20, PushOfType DEF Crash, TypeOK
  <1>21. CASE UNCHANGED vars
    BY <1>21 DEF vars, TypeOK
  <1> QED
    BY <1>1, <1>2, <1>3, <1>4, <1>6, <1>7, <1>8, <1>9, <1>10, <1>11, <1>12,
       <1>13, <1>14, <1>15, <1>16, <1>17, <1>18, <1>19, <1>20, <1>21
       DEF Next, Step

-----------------------------------------------------------------------------
(* What a step leaves alone *)

\* A step that leaves the branch and the clock alone keeps what is known
\* about them.
LEMMA RemoteFrame ==
    ASSUME ClaimBacked, UNCHANGED <<clock, remoteVars>>
    PROVE  /\ ClaimBacked'
           /\ \A m \in Pushes : Lawful(m) => Lawful(m)'
  <1> USE DEF remoteVars, Me
  <1>1. ClaimBacked'
    BY DEF ClaimBacked
  <1>2. ASSUME NEW m \in Pushes, Lawful(m) PROVE Lawful(m)'
    <2>1. Written(m.lease, m.kind, m.by)'
      BY <1>2 DEF Lawful, Written
    <2>2. m.base = tip => MayReplace(remote[m.seg], m.kind, m.by)'
      BY <1>2 DEF Lawful, MayReplace
    <2> QED
      BY <1>2, <2>1, <2>2 DEF Lawful
  <1> QED
    BY <1>1, <1>2

\* A step of the process that owns a clone keeps the clones at the tip if it
\* leaves that clone's commit alone or fetches.
LEMMA CloneFrame ==
    ASSUME TypeOK, CloneAtTip, NEW c \in Clones, UNCHANGED <<remote, tip>>,
           \A d \in Clones \ {c} : base'[d] = base[d] /\ origin'[d] = origin[d],
           \/ base'[c] = base[c] /\ origin'[c] = origin[c]
           \/ base'[c] = tip /\ origin'[c] = remote
    PROVE  CloneAtTip'
  <1> SUFFICES ASSUME NEW d \in Clones
               PROVE  /\ base'[d] <= tip'
                      /\ base'[d] = tip' => origin'[d] = remote'
    BY DEF CloneAtTip
  <1>1. base[d] <= tip /\ (base[d] = tip => origin[d] = remote) /\ tip \in Nat
    BY DEF CloneAtTip, TypeOK
  <1> QED
    BY <1>1

\* A step of a process inside an operation leaves every other process inside
\* one in possession of its own clone.
LEMMA OwnerFrame ==
    ASSUME StoreAssumption, TypeOK, OwnsClone, NEW p \in Procs,
           pc[p] \in Inside, NEW place, pc' = [pc EXCEPT ![p] = place],
           \/ UNCHANGED flock
           \/ place = "idle" /\ flock' = [flock EXCEPT ![Dir(p)] = NoProc]
    PROVE  OwnsClone'
  <1> SUFFICES ASSUME NEW q \in Procs, pc'[q] \in Inside
               PROVE  flock'[Dir(q)] = q
    BY DEF OwnsClone, Dir
  <1>1. Dir(p) \in Clones /\ Dir(q) \in Clones /\ "idle" \notin Inside
    BY DEF StoreAssumption, Dir, Inside
  <1>2. CASE q = p
    BY <1>1, <1>2 DEF OwnsClone, TypeOK
  <1>3. CASE q # p
    <2>1. flock[Dir(q)] = q /\ flock[Dir(p)] = p
      BY <1>3 DEF OwnsClone, TypeOK
    <2>2. Dir(q) # Dir(p)
      BY <1>3, <2>1
    <2> QED
      BY <1>1, <2>1, <2>2 DEF TypeOK
  <1> QED
    BY <1>2, <1>3

\* ... and everything the other process has prepared there.
LEMMA PreparedFrame ==
    ASSUME StoreAssumption, TypeOK, OwnsClone, NEW p \in Procs,
           pc[p] \in Inside, NEW q \in Procs, q # p, Prepared(q),
           clock' = clock, pc'[q] = pc[q], req'[q] = req[q],
           seen'[q] = seen[q], want'[q] = want[q],
           \A d \in Clones \ {Dir(p)} :
              /\ origin'[d] = origin[d] /\ head'[d] = head[d]
              /\ index'[d] = index[d] /\ work'[d] = work[d]
    PROVE  Prepared(q)'
  <1>1. CASE pc[q] \notin Inside
    BY <1>1 DEF Prepared, Inside, Deciding, Writing, Staged
  <1>2. CASE pc[q] \in Inside
    <2>1. Dir(q) \in Clones /\ Dir(q) # Dir(p)
      BY <1>2 DEF OwnsClone, StoreAssumption, Dir
    <2>2. /\ origin'[Dir(q)] = origin[Dir(q)] /\ head'[Dir(q)] = head[Dir(q)]
          /\ index'[Dir(q)] = index[Dir(q)] /\ work'[Dir(q)] = work[Dir(q)]
      BY <2>1
    <2> QED
      BY <2>2 DEF Prepared, Written, MayReplace, Me, Dir, Seg
  <1> QED
    BY <1>1, <1>2

\* Outside an operation nothing is prepared.
LEMMA PreparedOutside ==
    ASSUME NEW p \in Procs, pc[p] \notin Inside \ {"sync"}
    PROVE  Prepared(p)
  BY DEF Prepared, Inside, Deciding, Writing, Staged

\* A step of process p inside an operation that leaves the branch alone: it
\* moves p, perhaps out of the operation, and touches p's clone only, whose
\* commit stays or becomes the tip of the branch.
Local(p) ==
    /\ pc[p] \in Inside
    /\ UNCHANGED <<clock, remote, tip, req>>
    /\ \E place : /\ pc' = [pc EXCEPT ![p] = place]
                  /\ \/ UNCHANGED flock
                     \/ /\ place = "idle"
                        /\ flock' = [flock EXCEPT ![Dir(p)] = NoProc]
    /\ \A q \in Procs \ {p} : seen'[q] = seen[q] /\ want'[q] = want[q]
    /\ \A d \in Clones \ {Dir(p)} :
          /\ base'[d] = base[d] /\ origin'[d] = origin[d]
          /\ head'[d] = head[d] /\ index'[d] = index[d] /\ work'[d] = work[d]
    /\ \/ base'[Dir(p)] = base[Dir(p)] /\ origin'[Dir(p)] = origin[Dir(p)]
       \/ base'[Dir(p)] = tip /\ origin'[Dir(p)] = remote

LEMMA LocalInv ==
    ASSUME StoreAssumption, StoreInv, TypeOK', NEW p \in Procs, Local(p),
           Prepared(p)', ClaimBacked',
           \A m \in flying' : m \in flying \/ Lawful(m)
    PROVE  StoreInv'
  <1> USE DEF StoreInv
  <1>1. CloneAtTip'
    <2>1. Dir(p) \in Clones
      BY DEF StoreAssumption, Dir
    <2> QED
      BY <2>1, CloneFrame DEF Local
  <1>2. OwnsClone'
    BY OwnerFrame DEF Local
  <1>3. ASSUME NEW q \in Procs PROVE Prepared(q)'
    <2>1. CASE q # p
      <3>1. pc'[q] = pc[q]
        BY <2>1 DEF Local, TypeOK
      <3> QED
        BY <2>1, <3>1, PreparedFrame DEF Local
    <2> QED
      BY <2>1
  <1>4. ASSUME NEW m \in flying' PROVE Lawful(m)'
    <2>1. Lawful(m)
      OBVIOUS
    <2> QED
      BY <2>1 DEF Local, Lawful, Written, MayReplace, Me
  <1> QED
    BY <1>1, <1>2, <1>3, <1>4

-----------------------------------------------------------------------------
(* One lemma for each step of an operation *)

\* The steps that end in a place where nothing is prepared.
LEMMA LocalOut ==
    ASSUME NEW p \in Procs, TypeOK, pc' = [pc EXCEPT ![p] = "idle"]
    PROVE  Prepared(p)'
  BY DEF TypeOK, Prepared, Deciding, Writing, Staged

LEMMA SyncInv ==
    ASSUME StoreAssumption, StoreInv, TypeOK', NEW p \in Procs, Sync(p)
    PROVE  StoreInv'
  <1> DEFINE c == Dir(p)
             s == Seg(p)
  <1>1. c \in Clones /\ s \in Segments /\ TypeOK
    BY DEF StoreAssumption, StoreInv, TypeOK, Requests, Dir, Seg
  <1>2. Synchronise(c)
    BY DEF Sync
  <1>3. Local(p)
    BY <1>1, <1>2, SynchroniseFacts
       DEF Sync, Local, Goto, Inside, TypeOK, remoteVars
  <1>4. pc'[p] = "decide" /\ req'[p] = req[p]
    BY <1>1 DEF Sync, Goto, TypeOK
  <1>5. /\ seen'[p] = Reading(work'[c][s])
        /\ work'[c][s] \in Leases
        /\ origin'[c] = remote /\ index'[c] = remote /\ head'[c] = remote
        /\ remote[s] # Absent => work'[c][s] = remote[s]
    BY <1>1, <1>2, SynchroniseFacts DEF Sync, TypeOK
  <1>6. Prepared(p)'
    BY <1>1, <1>4, <1>5, LeaseFacts
       DEF Prepared, Deciding, Writing, Staged, Dir, Seg
  <1>7. ClaimBacked' /\ flying' = flying
    BY RemoteFrame DEF Sync, StoreInv
  <1> QED
    BY <1>3, <1>6, <1>7, LocalInv

LEMMA DecideInv ==
    ASSUME StoreAssumption, StoreInv, TypeOK', NEW p \in Procs, Decide(p)
    PROVE  StoreInv'
  <1>1. TypeOK /\ Prepared(p) /\ pc[p] = "decide"
    BY DEF StoreInv, Decide
  <1>2. Local(p)
    BY <1>1 DEF Decide, Local, Goto, Finish, Inside, TypeOK, remoteVars,
                cloneVars
  <1>3. ClaimBacked' /\ flying' = flying
    BY RemoteFrame DEF Decide, StoreInv
  <1>4. Prepared(p)'
    <2>1. CASE pc' = [pc EXCEPT ![p] = "idle"]
      BY <1>1, <2>1, LocalOut
    <2>2. CASE /\ ~NothingToDo(p) /\ ~Refused(p, clock)
               /\ want' = [want EXCEPT ![p] =
                             IF req[p].kind \in Writes
                             THEN Held(Me(p), clock + req[p].ttl, <<p, ops[p]>>)
                             ELSE Free]
               /\ Goto(p, "write")
      <3>1. req[p].kind \in Writes \cup Releases /\ seen[p] \in Leases
        BY <1>1, <2>2 DEF TypeOK, Requests, Kinds, NothingToDo
      <3>2. MayReplace(seen[p], req[p].kind, p)
        BY <2>2, <1>1, <3>1, LeaseFacts
           DEF NothingToDo, Refused, MayReplace, IsHeld, IsExpired, Writes,
               Releases, TypeOK
      <3>3. Written(want'[p], req[p].kind, p)
        <4>1. CASE req[p].kind \in Writes
          <5>1. want'[p] = Held(Me(p), clock + req[p].ttl, <<p, ops[p]>>)
            BY <1>1, <2>2, <4>1 DEF TypeOK
          <5>2. req[p].ttl \in Ttls /\ clock \in 0..clock
            BY <1>1, <4>1 DEF TypeOK, Requests
          <5>3. want'[p] \in HeldLeases
            BY <1>1, <5>1, HeldType
          <5>4. /\ want'[p].holder = Me(p)
                /\ want'[p].expires = clock + req[p].ttl
            BY <5>1 DEF Held
          <5> QED
            BY <4>1, <5>2, <5>3, <5>4 DEF Written
        <4>2. CASE req[p].kind \in Releases
          BY <1>1, <2>2, <4>2 DEF Written, TypeOK, Writes, Releases
        <4> QED
          BY <3>1, <4>1, <4>2
      <3> QED
        BY <1>1, <2>2, <3>2, <3>3
           DEF Decide, Prepared, Goto, Deciding, Writing, Staged, TypeOK,
               Written, MayReplace, Me, Dir, Seg, cloneVars, remoteVars
    <2> QED
      BY <2>1, <2>2 DEF Decide, Finish, Goto
  <1> QED
    BY <1>2, <1>3, <1>4, LocalInv

LEMMA WriteInv ==
    ASSUME StoreAssumption, StoreInv, TypeOK', NEW p \in Procs, Write(p)
    PROVE  StoreInv'
  <1>1. TypeOK /\ Prepared(p) /\ pc[p] = "write"
    BY DEF StoreInv, Write
  <1>2. Dir(p) \in Clones /\ Seg(p) \in Segments
    BY <1>1 DEF StoreAssumption, TypeOK, Requests, Dir, Seg
  <1>3. Local(p)
    BY <1>1 DEF Write, Local, Goto, Inside, TypeOK, remoteVars, procVars
  <1>4. ClaimBacked' /\ flying' = flying
    BY RemoteFrame DEF Write, StoreInv
  <1>5. Prepared(p)'
    <2>1. /\ pc'[p] = "add" /\ work'[Dir(p)][Seg(p)] = want[p]
          /\ UNCHANGED <<clock, origin, head, index, req, seen, want>>
      BY <1>1, <1>2 DEF Write, Goto, TypeOK, procVars
    <2> QED
      BY <1>1, <2>1
         DEF Prepared, Deciding, Writing, Staged, Written, MayReplace, Dir,
             Seg, Me
  <1> QED
    BY <1>3, <1>4, <1>5, LocalInv

LEMMA AddInv ==
    ASSUME StoreAssumption, StoreInv, TypeOK', NEW p \in Procs, Add(p)
    PROVE  StoreInv'
  <1>1. TypeOK /\ Prepared(p) /\ pc[p] = "add"
    BY DEF StoreInv, Add
  <1>2. Dir(p) \in Clones /\ Seg(p) \in Segments
    BY <1>1 DEF StoreAssumption, TypeOK, Requests, Dir, Seg
  <1>3. Local(p)
    BY <1>1 DEF Add, Local, Goto, Inside, TypeOK, remoteVars, procVars
  <1>4. ClaimBacked' /\ flying' = flying
    BY RemoteFrame DEF Add, StoreInv
  <1>5. Prepared(p)'
    <2>1. work[Dir(p)][Seg(p)] = want[p] /\ index[Dir(p)] = origin[Dir(p)]
      BY <1>1 DEF Prepared
    <2>2. /\ pc'[p] = "status"
          /\ index'[Dir(p)] = [origin[Dir(p)] EXCEPT ![Seg(p)] = want[p]]
          /\ UNCHANGED <<clock, origin, head, req, seen, want>>
      BY <1>1, <1>2, <2>1 DEF Add, Goto, TypeOK, procVars
    <2>3. index'[Dir(p)][Seg(p)] = want[p]
      BY <1>1, <1>2, <2>2 DEF TypeOK
    <2> QED
      BY <1>1, <2>2, <2>3
         DEF Prepared, Deciding, Writing, Staged, Written, MayReplace, Dir,
             Seg, Me
  <1> QED
    BY <1>3, <1>4, <1>5, LocalInv

LEMMA StatusInv ==
    ASSUME StoreAssumption, StoreInv, TypeOK', NEW p \in Procs, Status(p)
    PROVE  StoreInv'
  <1>1. TypeOK /\ Prepared(p) /\ pc[p] = "status"
    BY DEF StoreInv, Status
  <1>2. Local(p)
    BY <1>1 DEF Status, Local, Goto, Inside, TypeOK, remoteVars, procVars,
                cloneVars
  <1>3. ClaimBacked' /\ flying' = flying
    BY RemoteFrame DEF Status, StoreInv
  <1>4. Prepared(p)'
    <2>1. /\ pc'[p] \in {"noop", "commit"}
          /\ UNCHANGED <<clock, origin, head, index, work, req, seen, want>>
      BY <1>1 DEF Status, Goto, TypeOK, procVars, cloneVars
    <2> QED
      BY <1>1, <2>1
         DEF Prepared, Deciding, Writing, Staged, Written, MayReplace, Dir,
             Seg, Me
  <1> QED
    BY <1>2, <1>3, <1>4, LocalInv

LEMMA CommitInv ==
    ASSUME StoreAssumption, StoreInv, TypeOK', NEW p \in Procs, Commit(p)
    PROVE  StoreInv'
  <1>1. TypeOK /\ Prepared(p) /\ pc[p] = "commit"
    BY DEF StoreInv, Commit
  <1>2. Dir(p) \in Clones /\ Seg(p) \in Segments
    BY <1>1 DEF StoreAssumption, TypeOK, Requests, Dir, Seg
  <1>3. Local(p)
    BY <1>1 DEF Commit, Local, Goto, Finish, Inside, TypeOK, remoteVars
  <1>4. ClaimBacked' /\ flying' = flying
    BY RemoteFrame DEF Commit, StoreInv
  <1>5. Prepared(p)'
    <2>1. CASE /\ head' = [head EXCEPT ![Dir(p)] = index[Dir(p)]]
               /\ Goto(p, "push")
      <3>1. /\ pc'[p] = "push" /\ head'[Dir(p)] = index[Dir(p)]
            /\ UNCHANGED <<clock, origin, index, work, req, seen, want>>
        BY <1>1, <1>2, <2>1 DEF Commit, Goto, TypeOK
      <3> QED
        BY <1>1, <3>1
           DEF Prepared, Deciding, Writing, Staged, Written, MayReplace, Dir,
               Seg, Me
    <2>2. CASE Finish(p, "raised")
      BY <1>1, <2>2, LocalOut DEF Finish, Goto
    <2> QED
      BY <2>1, <2>2 DEF Commit
  <1> QED
    BY <1>3, <1>4, <1>5, LocalInv

LEMMA PushRejectedInv ==
    ASSUME StoreAssumption, StoreInv, TypeOK', NEW p \in Procs,
           PushRejected(p)
    PROVE  StoreInv'
  <1>1. TypeOK /\ Prepared(p) /\ pc[p] = "push"
    BY DEF StoreInv, PushRejected
  <1>2. Local(p)
    BY <1>1 DEF PushRejected, Local, Goto, Inside, TypeOK, remoteVars,
                procVars, cloneVars
  <1>3. ClaimBacked' /\ flying' = flying
    BY RemoteFrame DEF PushRejected, StoreInv
  <1>4. Prepared(p)'
    <2>1. /\ pc'[p] = "resync"
          /\ UNCHANGED <<clock, origin, head, index, work, req, seen, want>>
      BY <1>1 DEF PushRejected, Goto, TypeOK, procVars, cloneVars
    <2> QED
      BY <1>1, <2>1
         DEF Prepared, Deciding, Writing, Staged, Written, Dir, Seg, Me
  <1> QED
    BY <1>2, <1>3, <1>4, LocalInv

\* The push that a process is about to make is lawful.
LEMMA PushOfLawful ==
    ASSUME StoreAssumption, StoreInv, NEW p \in Procs, pc[p] = "push"
    PROVE  PushOf(p) \in Pushes /\ Lawful(PushOf(p))
  <1>1. TypeOK /\ Prepared(p) /\ CloneAtTip
    BY DEF StoreInv
  <1>2. Dir(p) \in Clones /\ Seg(p) \in Segments
    BY <1>1 DEF StoreAssumption, TypeOK, Requests, Dir, Seg
  <1>3. /\ origin[Dir(p)][Seg(p)] # Absent =>
              seen[p] = Reading(origin[Dir(p)][Seg(p)])
        /\ head[Dir(p)] = [origin[Dir(p)] EXCEPT ![Seg(p)] = want[p]]
        /\ Written(want[p], req[p].kind, p)
        /\ MayReplace(seen[p], req[p].kind, p)
    BY <1>1 DEF Prepared, Deciding, Writing
  <1>4. ASSUME base[Dir(p)] = tip
        PROVE  MayReplace(remote[Seg(p)], req[p].kind, p)
    <2>1. origin[Dir(p)] = remote /\ remote[Seg(p)] \in Leases
      BY <1>1, <1>2, <1>4 DEF CloneAtTip, TypeOK
    <2>2. CASE remote[Seg(p)] = Absent
      BY <2>2, LeaseFacts DEF MayReplace
    <2>3. CASE remote[Seg(p)] # Absent
      BY <1>3, <2>1, <2>3, LeaseFacts
    <2> QED
      BY <2>2, <2>3
  <1>5. /\ PushOf(p).base = base[Dir(p)] /\ PushOf(p).tree = head[Dir(p)]
        /\ PushOf(p).by = p /\ PushOf(p).kind = req[p].kind
        /\ PushOf(p).seg = Seg(p) /\ PushOf(p).lease = want[p]
    BY DEF PushOf
  <1>6. base[Dir(p)] <= tip
        /\ (base[Dir(p)] = tip => origin[Dir(p)] = remote)
    BY <1>1, <1>2 DEF CloneAtTip
  <1> QED
    BY <1>1, <1>3, <1>4, <1>5, <1>6, PushOfType DEF Lawful

LEMMA PushUnansweredInv ==
    ASSUME StoreAssumption, StoreInv, TypeOK', NEW p \in Procs,
           PushUnanswered(p)
    PROVE  StoreInv'
  <1>1. TypeOK /\ Prepared(p) /\ pc[p] = "push"
    BY DEF StoreInv, PushUnanswered
  <1>2. Local(p)
    BY <1>1 DEF PushUnanswered, Local, Goto, Finish, Inside, TypeOK,
                remoteVars, cloneVars
  <1>3. ClaimBacked'
    BY RemoteFrame DEF PushUnanswered, StoreInv
  <1>4. \A m \in flying' : m \in flying \/ Lawful(m)
    BY <1>1, PushOfLawful DEF PushUnanswered
  <1>5. Prepared(p)'
    <2>1. CASE Goto(p, "resync")
      <3>1. /\ pc'[p] = "resync"
            /\ UNCHANGED <<clock, req, seen, want>>
        BY <1>1, <2>1 DEF PushUnanswered, Goto, TypeOK
      <3> QED
        BY <1>1, <3>1 DEF Prepared, Deciding, Writing, Staged, Written, Me
    <2>2. CASE Finish(p, "raised")
      BY <1>1, <2>2, LocalOut DEF Finish, Goto
    <2> QED
      BY <2>1, <2>2 DEF PushUnanswered
  <1> QED
    BY <1>2, <1>3, <1>4, <1>5, LocalInv

\* The branch moves: the pushes in flight are outdated, the clones behind.
LEMMA LandOutdates ==
    ASSUME StoreAssumption, StoreInv, NEW m \in Pushes, Lawful(m),
           FastForward(m), Land(m), UNCHANGED clock
    PROVE  /\ ClaimBacked'
           /\ tip' = tip + 1 /\ tip \in Nat
           /\ \A n \in flying : Lawful(n)'
           /\ \A c \in Clones : base[c] <= tip /\ base[c] \in Nat
  <1>1. TypeOK /\ tip \in Nat /\ tip' = tip + 1
    BY LandFacts DEF StoreInv, TypeOK
  <1>2. ClaimBacked'
    BY <1>1, LandKeepsClaims DEF StoreInv
  <1>3. ASSUME NEW n \in flying PROVE Lawful(n)'
    <2>1. Lawful(n) /\ n.base \in Nat
      BY <1>1 DEF StoreInv, TypeOK, Pushes
    <2>2. n.base <= tip' /\ n.base # tip'
      BY <1>1, <2>1 DEF Lawful
    <2>3. Written(n.lease, n.kind, n.by)'
      BY <2>1 DEF Lawful, Written, Me
    <2> QED
      BY <2>2, <2>3 DEF Lawful
  <1>4. \A c \in Clones : base[c] <= tip /\ base[c] \in Nat
    BY <1>1 DEF StoreInv, CloneAtTip, TypeOK
  <1> QED
    BY <1>1, <1>2, <1>3, <1>4

LEMMA DeliverInv ==
    ASSUME StoreAssumption, StoreInv, TypeOK', NEW m \in flying, Deliver(m)
    PROVE  StoreInv'
  <1>1. TypeOK /\ m \in Pushes /\ Lawful(m)
    BY DEF StoreInv, TypeOK
  <1>2. UNCHANGED <<clock, base, origin, head, index, work, flock, pc, req,
                    seen, want>> /\ flying' = flying \ {m}
    BY DEF Deliver, cloneVars, procVars
  <1>3. ASSUME NEW p \in Procs PROVE Prepared(p)'
    BY <1>2 DEF StoreInv, Prepared, Written, MayReplace, Me, Dir, Seg
  <1>4. OwnsClone'
    BY <1>2 DEF StoreInv, OwnsClone, Dir
  <1>5. CASE FastForward(m)
    <2>1. Land(m)
      BY <1>5 DEF Deliver
    <2>2. ClaimBacked' /\ \A n \in flying' : Lawful(n)'
      BY <1>1, <1>2, <1>5, <2>1, LandOutdates
    <2>3. CloneAtTip'
      <3>1. \A c \in Clones : base'[c] <= tip' /\ base'[c] # tip'
        BY <1>1, <1>2, <1>5, <2>1, LandOutdates
      <3> QED
        BY <3>1 DEF CloneAtTip
    <2> QED
      BY <1>3, <1>4, <2>2, <2>3 DEF StoreInv
  <1>6. CASE ~FastForward(m)
    <2>1. UNCHANGED <<clock, remote, tip, claim>>
      BY <1>6 DEF Deliver, remoteVars
    <2>2. ClaimBacked' /\ \A n \in Pushes : Lawful(n) => Lawful(n)'
      BY <2>1, RemoteFrame DEF StoreInv, remoteVars
    <2>3. CloneAtTip'
      BY <1>2, <2>1 DEF StoreInv, CloneAtTip
    <2> QED
      BY <1>1, <1>2, <1>3, <1>4, <2>2, <2>3 DEF StoreInv, TypeOK
  <1> QED
    BY <1>5, <1>6

LEMMA PushAcceptedInv ==
    ASSUME StoreAssumption, StoreInv, TypeOK', NEW p \in Procs,
           PushAccepted(p)
    PROVE  StoreInv'
  <1>1. TypeOK /\ Prepared(p) /\ pc[p] = "push" /\ pc[p] \in Inside
    BY DEF StoreInv, PushAccepted, Inside
  <1>2. Dir(p) \in Clones /\ Seg(p) \in Segments
    BY <1>1 DEF StoreAssumption, TypeOK, Requests, Dir, Seg
  <1>3. /\ UNCHANGED <<clock, flying, head, index, work, flock, req, seen, want>>
        /\ pc' = [pc EXCEPT ![p] = "verify"]
        /\ FastForward(PushOf(p))
    BY DEF PushAccepted, Goto, procVars
  <1>4. OwnsClone'
    BY <1>1, <1>3, OwnerFrame DEF StoreInv
  <1>5. /\ \A d \in Clones \ {Dir(p)} :
                base'[d] = base[d] /\ origin'[d] = origin[d]
        /\ pc'[p] = "verify"
        /\ \A q \in Procs \ {p} : pc'[q] = pc[q]
    BY <1>1, <1>2, <1>3 DEF PushAccepted, TypeOK
  <1>6. ASSUME NEW q \in Procs PROVE Prepared(q)'
    <2>1. CASE q # p
      BY <1>1, <1>3, <1>5, <2>1, PreparedFrame DEF StoreInv
    <2>2. CASE q = p
      BY <1>1, <1>3, <1>5, <2>2
         DEF Prepared, Deciding, Writing, Staged, Written, Dir, Seg, Me
    <2> QED
      BY <2>1, <2>2
  <1>7. CASE Ahead(Dir(p))
    <2>1. /\ Land(PushOf(p))
          /\ base' = [base EXCEPT ![Dir(p)] = tip + 1]
          /\ origin' = [origin EXCEPT ![Dir(p)] = head[Dir(p)]]
      BY <1>7 DEF PushAccepted
    <2>2. PushOf(p) \in Pushes /\ Lawful(PushOf(p))
      BY <1>1, PushOfLawful
    <2>3. /\ ClaimBacked'
          /\ tip' = tip + 1 /\ tip \in Nat
          /\ \A n \in flying : Lawful(n)'
          /\ \A c \in Clones : base[c] <= tip /\ base[c] \in Nat
      BY <1>3, <2>1, <2>2, LandOutdates
    <2>4. CloneAtTip'
      <3>1. base'[Dir(p)] = tip' /\ origin'[Dir(p)] = remote'
        BY <1>1, <1>2, <2>1, <2>3 DEF Land, PushOf, TypeOK
      <3>2. \A d \in Clones \ {Dir(p)} : base'[d] <= tip' /\ base'[d] # tip'
        BY <1>5, <2>3
      <3> QED
        BY <2>3, <3>1, <3>2 DEF CloneAtTip
    <2> QED
      BY <1>3, <1>4, <1>6, <2>3, <2>4 DEF StoreInv
  <1>8. CASE ~Ahead(Dir(p))
    <2>1. UNCHANGED <<clock, remote, tip, claim, base, origin>>
      BY <1>3, <1>8 DEF PushAccepted, remoteVars
    <2>2. ClaimBacked' /\ \A n \in Pushes : Lawful(n) => Lawful(n)'
      BY <2>1, RemoteFrame DEF StoreInv, remoteVars
    <2>3. CloneAtTip'
      BY <2>1 DEF StoreInv, CloneAtTip
    <2> QED
      BY <1>1, <1>3, <1>4, <1>6, <2>2, <2>3 DEF StoreInv, TypeOK
  <1> QED
    BY <1>7, <1>8

\* What a reread after a push makes sure of: a process that is told ok has
\* its lease at the remote.
LEMMA VerifiedClaim ==
    ASSUME StoreAssumption, StoreInv, NEW p \in Procs,
           pc[p] \in {"verify", "noop"}, Synchronise(Dir(p)),
           UNCHANGED <<clock, remote>>,
           \/ claim' = claim
           \/ /\ req[p].kind \in Writes
              /\ Reading(work'[Dir(p)][Seg(p)]) = want[p]
              /\ claim' = [claim EXCEPT ![p][Seg(p)] = want[p].expires]
    PROVE  ClaimBacked'
  <1>1. TypeOK /\ Prepared(p) /\ ClaimBacked
    BY DEF StoreInv
  <1>2. Dir(p) \in Clones /\ Seg(p) \in Segments
    BY <1>1 DEF StoreAssumption, TypeOK, Requests, Dir, Seg
  <1>3. CASE claim' = claim
    BY <1>1, <1>3 DEF ClaimBacked, Me
  <1>4. CASE /\ req[p].kind \in Writes
             /\ Reading(work'[Dir(p)][Seg(p)]) = want[p]
             /\ claim' = [claim EXCEPT ![p][Seg(p)] = want[p].expires]
    <2>1. /\ want[p] \in HeldLeases /\ want[p].holder = Me(p)
          /\ index[Dir(p)][Seg(p)] = want[p]
      BY <1>1, <1>4 DEF Prepared, Writing, Staged, Written
    <2>2. want[p] # Absent /\ want[p].state = "held" /\ want[p] \in Leases
      BY <2>1 DEF HeldLeases, Absent, Leases
    <2>3. work'[Dir(p)][Seg(p)] = remote[Seg(p)] /\ remote[Seg(p)] \in Leases
      BY <1>1, <1>2, <2>1, <2>2, SynchroniseFacts DEF TypeOK
    <2>4. remote[Seg(p)] = want[p]
      BY <1>4, <2>2, <2>3, LeaseFacts DEF Reading, Free, Absent
    <2>5. want[p].expires \in Int /\ claim \in [Procs -> [Segments -> Int]]
      BY <1>1, LeaseFacts DEF TypeOK
    <2>6. ASSUME NEW q \in Procs, NEW s \in Segments
          PROVE  claim'[q][s] = IF q = p /\ s = Seg(p) THEN want[p].expires
                                ELSE claim[q][s]
      BY <1>2, <1>4, <2>5
    <2> QED
      BY <1>1, <2>1, <2>2, <2>4, <2>5, <2>6 DEF ClaimBacked, Me
  <1> QED
    BY <1>3, <1>4

\* The steps that synchronise the clone and then return or go on to reread.
LEMMA RereadLocal ==
    ASSUME StoreAssumption, StoreInv, NEW p \in Procs, pc[p] \in Inside,
           Synchronise(Dir(p)), UNCHANGED <<clock, remote, tip, req, want>>,
           NEW s, seen' = [seen EXCEPT ![p] = s],
           \/ pc' = [pc EXCEPT ![p] = "reread"] /\ UNCHANGED flock
           \/ /\ pc' = [pc EXCEPT ![p] = "idle"]
              /\ flock' = [flock EXCEPT ![Dir(p)] = NoProc],
           pc[p] \in Writing
    PROVE  Local(p) /\ Prepared(p)'
  <1>1. TypeOK /\ Prepared(p)
    BY DEF StoreInv
  <1>2. Dir(p) \in Clones
    BY DEF StoreAssumption, Dir
  <1>3. Local(p)
    <2>1. \E place : /\ pc' = [pc EXCEPT ![p] = place]
                    /\ \/ UNCHANGED flock
                       \/ /\ place = "idle"
                          /\ flock' = [flock EXCEPT ![Dir(p)] = NoProc]
      OBVIOUS
    <2>2. \A q \in Procs \ {p} : seen'[q] = seen[q] /\ want'[q] = want[q]
      BY <1>1 DEF TypeOK
    <2> QED
      BY <1>1, <1>2, <2>1, <2>2, SynchroniseFacts DEF Local
  <1>4. Prepared(p)'
    <2>1. pc'[p] \in {"idle", "reread"}
      BY <1>1 DEF TypeOK
    <2> QED
      BY <1>1, <2>1 DEF Prepared, Deciding, Writing, Staged, Written, Me
  <1> QED
    BY <1>3, <1>4

LEMMA VerifyInv ==
    ASSUME StoreAssumption, StoreInv, TypeOK', NEW p \in Procs,
           Verify(p) \/ NoopVerify(p)
    PROVE  StoreInv'
  <1>1. TypeOK /\ Prepared(p) /\ pc[p] \in {"verify", "noop"}
    BY DEF StoreInv, Verify, NoopVerify
  <1>2. /\ Synchronise(Dir(p))
        /\ UNCHANGED <<clock, remote, tip, flying, req, want>>
        /\ seen' = [seen EXCEPT ![p] = Reading(work'[Dir(p)][Seg(p)])]
        /\ \/ pc' = [pc EXCEPT ![p] = "reread"] /\ UNCHANGED flock
           \/ /\ pc' = [pc EXCEPT ![p] = "idle"]
              /\ flock' = [flock EXCEPT ![Dir(p)] = NoProc]
    BY DEF Verify, NoopVerify, Goto, Finish
  <1>3. Local(p) /\ Prepared(p)'
    BY <1>1, <1>2, RereadLocal DEF Inside, Writing
  <1>4. \/ claim' = claim
        \/ /\ req[p].kind \in Writes
           /\ Reading(work'[Dir(p)][Seg(p)]) = want[p]
           /\ claim' = [claim EXCEPT ![p][Seg(p)] = want[p].expires]
    <2>1. CASE Verify(p)
      <3>1. \/ claim' = claim
            \/ /\ req[p].kind \in Writes
               /\ Achieved(p, Reading(work'[Dir(p)][Seg(p)]))
               /\ claim' = [claim EXCEPT ![p][Seg(p)] = want[p].expires]
        BY <2>1 DEF Verify
      <3>2. req[p].kind \in Writes => want[p].state # "free"
        BY <1>1 DEF Prepared, Writing, Written, HeldLeases
      <3> QED
        BY <3>1, <3>2 DEF Achieved
    <2>2. CASE NoopVerify(p)
      BY <2>2 DEF NoopVerify
    <2> QED
      BY <2>1, <2>2
  <1>5. ClaimBacked'
    BY <1>1, <1>2, <1>4, VerifiedClaim
  <1> QED
    BY <1>2, <1>3, <1>5, LocalInv

LEMMA RereadInv ==
    ASSUME StoreAssumption, StoreInv, TypeOK', NEW p \in Procs, Reread(p)
    PROVE  StoreInv'
  <1>1. pc[p] = "reread"
    BY DEF Reread
  <1>2. Local(p) /\ Prepared(p)'
    BY <1>1, RereadLocal
       DEF Reread, Finish, Goto, Inside, Writing, remoteVars
  <1>3. ClaimBacked' /\ flying' = flying
    BY RemoteFrame DEF Reread, StoreInv
  <1> QED
    BY <1>2, <1>3, LocalInv

LEMMA ResyncInv ==
    ASSUME StoreAssumption, StoreInv, TypeOK', NEW p \in Procs, Resync(p)
    PROVE  StoreInv'
  <1>1. TypeOK /\ Prepared(p) /\ pc[p] = "resync" /\ Dir(p) \in Clones
    BY DEF StoreInv, Resync, StoreAssumption, Dir
  <1>2. /\ pc' = [pc EXCEPT ![p] = "reread"]
        /\ UNCHANGED <<clock, remote, tip, claim, flying, flock, req, seen, want>>
    BY DEF Resync, Goto, remoteVars, procVars
  <1>3. /\ \A d \in Clones \ {Dir(p)} :
              /\ base'[d] = base[d] /\ origin'[d] = origin[d]
              /\ head'[d] = head[d] /\ index'[d] = index[d]
              /\ work'[d] = work[d]
        /\ \/ base'[Dir(p)] = base[Dir(p)] /\ origin'[Dir(p)] = origin[Dir(p)]
           \/ base'[Dir(p)] = tip /\ origin'[Dir(p)] = remote
    <2>1. CASE Synchronise(Dir(p))
      BY <1>1, <2>1, SynchroniseFacts
    <2>2. CASE ResetTo(Dir(p), origin[Dir(p)]) /\ UNCHANGED <<base, origin>>
      BY <1>1, <2>2 DEF ResetTo, TypeOK
    <2>3. CASE UNCHANGED cloneVars
      BY <2>3 DEF cloneVars
    <2> QED
      BY <2>1, <2>2, <2>3 DEF Resync
  <1>4. Local(p)
    BY <1>1, <1>2, <1>3 DEF Local, Inside
  <1>5. ClaimBacked'
    BY <1>2, RemoteFrame DEF StoreInv, remoteVars
  <1>6. Prepared(p)'
    <2>1. pc'[p] = "reread"
      BY <1>1, <1>2 DEF TypeOK
    <2> QED
      BY <1>1, <1>2, <2>1
         DEF Prepared, Deciding, Writing, Staged, Written, Me
  <1> QED
    BY <1>2, <1>4, <1>5, <1>6, LocalInv

LEMMA RaiseInv ==
    ASSUME StoreAssumption, StoreInv, TypeOK', NEW p \in Procs, Raise(p)
    PROVE  StoreInv'
  <1>1. TypeOK
    BY DEF StoreInv
  <1>2. Local(p)
    BY <1>1 DEF Raise, Local, Finish, Goto, TypeOK, remoteVars, cloneVars
  <1>3. ClaimBacked' /\ flying' = flying
    BY RemoteFrame DEF Raise, StoreInv
  <1>4. Prepared(p)'
    BY <1>1, LocalOut DEF Raise, Finish, Goto
  <1> QED
    BY <1>2, <1>3, <1>4, LocalInv

LEMMA CrashInv ==
    ASSUME StoreAssumption, StoreInv, TypeOK', NEW p \in Procs, Crash(p)
    PROVE  StoreInv'
  <1>1. TypeOK
    BY DEF StoreInv
  <1>2. Local(p)
    BY <1>1 DEF Crash, Local, Finish, Goto, TypeOK, cloneVars
  <1>3. ClaimBacked'
    <2>1. \A q \in Procs, s \in Segments :
             claim'[q][s] = claim[q][s] \/ claim'[q][s] = 0
      BY <1>1 DEF Crash, TypeOK
    <2>2. /\ clock' = clock /\ remote' = remote /\ clock \in Nat
          /\ ~(clock < 0)
      BY <1>1 DEF Crash, TypeOK
    <2> QED
      BY <2>1, <2>2 DEF StoreInv, ClaimBacked, Me
  <1>4. Prepared(p)'
    BY <1>1, LocalOut DEF Crash, Finish, Goto
  <1>5. \A m \in flying' : m \in flying \/ Lawful(m)
    BY PushOfLawful DEF Crash
  <1> QED
    BY <1>2, <1>3, <1>4, <1>5, LocalInv

\* The clock only makes leases run out.
LEMMA TickInv ==
    ASSUME StoreAssumption, StoreInv, TypeOK', Tick
    PROVE  StoreInv'
  <1>1. TypeOK /\ clock' = clock + 1 /\ clock \in Nat
    BY DEF StoreInv, TypeOK, Tick
  <1>2. UNCHANGED <<remote, tip, claim, flying, base, origin, head, index,
                    work, flock, pc, req, seen, want>>
    BY DEF Tick, remoteVars, cloneVars, procVars
  <1>3. CloneAtTip' /\ OwnsClone'
    BY <1>2 DEF StoreInv, CloneAtTip, OwnsClone, Dir
  <1>4. ASSUME NEW l \in Leases
        PROVE  /\ l.expires <= clock => l.expires <= clock'
               /\ \A ttl \in Ttls :
                     (\E t \in 0..clock : l.expires = t + ttl)
                        => \E t \in 0..clock' : l.expires = t + ttl
    <2>1. l.expires \in Int
      BY LeaseFacts
    <2>2. \A t \in 0..clock : t \in 0..clock'
      BY <1>1
    <2> QED
      BY <1>1, <2>1, <2>2
  <1>5. ASSUME NEW p \in Procs PROVE Prepared(p)'
    <2>1. Prepared(p) /\ seen[p] \in Leases /\ want[p] \in Leases
      BY <1>1 DEF StoreInv, TypeOK
    <2>2. /\ MayReplace(seen[p], req[p].kind, p)
                => MayReplace(seen[p], req[p].kind, p)'
          /\ Written(want[p], req[p].kind, p)
                => Written(want[p], req[p].kind, p)'
      BY <1>2, <1>4, <2>1 DEF MayReplace, Written, Me
    <2> QED
      BY <1>2, <2>1, <2>2 DEF Prepared, Dir, Seg
  <1>6. ASSUME NEW m \in flying' PROVE Lawful(m)'
    <2>1. m \in Pushes /\ Lawful(m) /\ m.lease \in Leases /\ m.by \in Procs
      BY <1>1, <1>2 DEF StoreInv, TypeOK, Pushes
    <2>2. Written(m.lease, m.kind, m.by)'
      BY <1>4, <2>1 DEF Lawful, Written, Me
    <2>3. m.base = tip => MayReplace(remote[m.seg], m.kind, m.by)'
      <3>1. remote[m.seg] \in Leases
        BY <1>1, <2>1 DEF TypeOK, Pushes
      <3> QED
        BY <1>2, <1>4, <2>1, <3>1 DEF Lawful, MayReplace, Me
    <2> QED
      BY <1>2, <2>1, <2>2, <2>3 DEF Lawful
  <1>7. ClaimBacked'
    BY <1>1, <1>2 DEF StoreInv, ClaimBacked, TypeOK, Me
  <1> QED
    BY <1>3, <1>5, <1>6, <1>7 DEF StoreInv

LEMMA StartInv ==
    ASSUME StoreAssumption, StoreInv, TypeOK', NEW p \in Procs, Start(p)
    PROVE  StoreInv'
  <1>1. TypeOK /\ pc' = [pc EXCEPT ![p] = "lock"]
    BY DEF StoreInv, Start, Goto
  <1>2. UNCHANGED <<clock, remote, tip, claim, flying, base, origin, head,
                    index, work, flock, seen, want>>
    BY DEF Start, remoteVars, cloneVars
  <1>3. OwnsClone' /\ CloneAtTip'
    BY <1>1, <1>2 DEF StoreInv, OwnsClone, CloneAtTip, TypeOK, Dir, Inside
  <1>4. ASSUME NEW q \in Procs PROVE Prepared(q)'
    <2>1. CASE q = p
      BY <1>1, <2>1 DEF Prepared, Deciding, Writing, Staged, TypeOK
    <2>2. CASE q # p
      <3>1. pc'[q] = pc[q] /\ req'[q] = req[q]
        BY <1>1, <2>2 DEF Start, TypeOK
      <3> QED
        BY <1>2, <3>1
           DEF StoreInv, Prepared, Written, MayReplace, Me, Dir, Seg
    <2> QED
      BY <2>1, <2>2
  <1>5. ClaimBacked' /\ \A m \in flying' : Lawful(m)'
    BY <1>1, <1>2, RemoteFrame DEF StoreInv, TypeOK, remoteVars
  <1> QED
    BY <1>3, <1>4, <1>5 DEF StoreInv

LEMMA LockInv ==
    ASSUME StoreAssumption, StoreInv, TypeOK', NEW p \in Procs, Lock(p)
    PROVE  StoreInv'
  <1>1. /\ TypeOK /\ pc' = [pc EXCEPT ![p] = "sync"]
        /\ flock[Dir(p)] = NoProc
        /\ flock' = [flock EXCEPT ![Dir(p)] = p]
    BY DEF StoreInv, Lock, Goto
  <1>2. UNCHANGED <<clock, remote, tip, claim, flying, base, origin, head,
                    index, work, req, seen, want>>
    BY DEF Lock, remoteVars, cloneVars, procVars
  <1>3. OwnsClone'
    <2> SUFFICES ASSUME NEW q \in Procs, pc'[q] \in Inside
                 PROVE  flock'[Dir(q)] = q
      BY DEF OwnsClone, Dir
    <2>1. Dir(p) \in Clones /\ NoProc # q
      BY DEF StoreAssumption, Dir
    <2>2. CASE q = p
      BY <1>1, <2>1, <2>2 DEF TypeOK
    <2>3. CASE q # p
      BY <1>1, <2>1, <2>3 DEF TypeOK, StoreInv, OwnsClone
    <2> QED
      BY <2>2, <2>3
  <1>4. CloneAtTip'
    BY <1>2 DEF StoreInv, CloneAtTip
  <1>5. ASSUME NEW q \in Procs PROVE Prepared(q)'
    <2>1. CASE q = p
      BY <1>1, <2>1 DEF Prepared, Deciding, Writing, Staged, TypeOK
    <2>2. CASE q # p
      <3>1. pc'[q] = pc[q]
        BY <1>1, <2>2 DEF TypeOK
      <3> QED
        BY <1>2, <3>1
           DEF StoreInv, Prepared, Written, MayReplace, Me, Dir, Seg
    <2> QED
      BY <2>1, <2>2
  <1>6. ClaimBacked' /\ \A m \in flying' : Lawful(m)'
    BY <1>1, <1>2, RemoteFrame DEF StoreInv, TypeOK, remoteVars
  <1> QED
    BY <1>3, <1>4, <1>5, <1>6 DEF StoreInv

-----------------------------------------------------------------------------
(* The theorems *)

LEMMA InitInv ==
    ASSUME StoreAssumption, Init
    PROVE  StoreInv
  <1>1. Absent \in Leases /\ Free \in Leases
    BY LeaseFacts
  <1>2. remote \in [Segments -> Leases]
    BY <1>1 DEF Init
  <1>3. req \in [Procs -> Requests]
    BY DEF Init, StoreAssumption, Requests, Kinds, Writes
  <1>4. TypeOK
    BY <1>1, <1>2, <1>3 DEF Init, TypeOK, Places, Inside, Results
  <1>5. \A p \in Procs : Prepared(p)
    BY DEF Init, Prepared, Deciding, Writing, Staged
  <1>6. CloneAtTip /\ OwnsClone /\ ClaimBacked /\ \A m \in flying : Lawful(m)
    BY DEF Init, CloneAtTip, OwnsClone, Inside, ClaimBacked
  <1> QED
    BY <1>4, <1>5, <1>6 DEF StoreInv

LEMMA StepInv ==
    ASSUME StoreAssumption, StoreInv, [Next]_vars
    PROVE  StoreInv'
  <1>1. TypeOK'
    BY TypePreserved DEF StoreInv
  <1>2. CASE Tick
    BY <1>1, <1>2, TickInv
  <1>3. ASSUME NEW m \in flying, Deliver(m) PROVE StoreInv'
    BY <1>1, <1>3, DeliverInv
  <1>4. ASSUME NEW p \in Procs,
               Start(p) \/ Step(p) \/ PushUnanswered(p) \/ Raise(p) \/ Crash(p)
        PROVE  StoreInv'
    BY <1>1, <1>4, StartInv, LockInv, SyncInv, DecideInv, WriteInv, AddInv,
       StatusInv, CommitInv, PushAcceptedInv, PushRejectedInv, VerifyInv,
       ResyncInv, RereadInv, PushUnansweredInv, RaiseInv, CrashInv DEF Step
  <1>5. CASE UNCHANGED vars
    <2>1. CloneAtTip' /\ OwnsClone'
      BY <1>5 DEF vars, StoreInv, CloneAtTip, OwnsClone, Dir
    <2>2. ASSUME NEW p \in Procs PROVE Prepared(p)'
      BY <1>5 DEF vars, StoreInv, Prepared, Written, MayReplace, Me, Dir, Seg
    <2>3. ClaimBacked' /\ \A m \in flying' : Lawful(m)'
      BY <1>5, RemoteFrame DEF vars, remoteVars, StoreInv, TypeOK
    <2> QED
      BY <1>1, <2>1, <2>2, <2>3 DEF StoreInv
  <1> QED
    BY <1>2, <1>3, <1>4, <1>5 DEF Next

\* The invariant of the store, and with it the type invariant.
THEOREM StoreInvariant == Spec => []StoreInv
  <1>1. Init => StoreInv
    BY StoreAssumption, InitInv
  <1>2. StoreInv /\ [Next]_vars => StoreInv'
    BY StoreAssumption, StepInv
  <1> QED
    BY <1>1, <1>2, PTL DEF Spec

THEOREM TypeCorrect == Spec => []TypeOK
  <1>1. StoreInv => TypeOK
    BY DEF StoreInv
  <1> QED
    BY <1>1, StoreInvariant, PTL

\* A lease that was granted stays at the remote until the expiry the process
\* was told (acquire and extend under crashes, late pushes and other
\* processes).
THEOREM GrantedLeaseBacked == Spec => []ClaimBacked
  <1>1. StoreInv => ClaimBacked
    BY DEF StoreInv
  <1> QED
    BY <1>1, StoreInvariant, PTL

\* Two holders never both believe that they hold a segment.
THEOREM LeaseExclusive == Spec => []MutualExclusion
  <1>1. ClaimBacked => MutualExclusion
    BY DEF ClaimBacked, MutualExclusion
  <1> QED
    BY <1>1, GrantedLeaseBacked, PTL

\* Every step leaves the branch and the granted leases alone, or lands one
\* lawful push on the tip, or ends a reread that may grant the lease.
LEMMA StepOfBranch ==
    ASSUME StoreAssumption, StoreInv, [Next]_vars
    PROVE  \/ /\ UNCHANGED <<remote, tip>>
              /\ clock' \in {clock, clock + 1}
           \/ \E m \in Pushes : /\ Lawful(m) /\ FastForward(m) /\ Land(m)
                                 /\ UNCHANGED clock
  <1>1. CASE Tick
    BY <1>1 DEF Tick, remoteVars
  <1>2. ASSUME NEW m \in flying, Deliver(m), FastForward(m)
        PROVE  \E n \in Pushes : /\ Lawful(n) /\ FastForward(n) /\ Land(n)
                                 /\ UNCHANGED clock
    BY <1>2 DEF StoreInv, TypeOK, Deliver
  <1>3. ASSUME NEW m \in flying, Deliver(m), ~FastForward(m)
        PROVE  UNCHANGED <<remote, tip, clock>>
    BY <1>3 DEF Deliver, remoteVars
  <1>4. ASSUME NEW p \in Procs, PushAccepted(p), Ahead(Dir(p))
        PROVE  \E n \in Pushes : /\ Lawful(n) /\ FastForward(n) /\ Land(n)
                                 /\ UNCHANGED clock
    BY <1>4, PushOfLawful DEF PushAccepted
  <1>5. ASSUME NEW p \in Procs, PushAccepted(p), ~Ahead(Dir(p))
        PROVE  UNCHANGED <<remote, tip, clock>>
    BY <1>5 DEF PushAccepted, remoteVars
  <1>6. ASSUME NEW p \in Procs,
               \/ Start(p) \/ Lock(p) \/ Sync(p) \/ Decide(p) \/ Write(p)
               \/ Add(p) \/ Status(p) \/ Commit(p) \/ PushRejected(p)
        PROVE  UNCHANGED <<remote, tip, clock>>
    BY <1>6 DEF Start, Lock, Sync, Decide, Write, Add, Status, Commit,
                PushRejected, remoteVars
  <1>7. ASSUME NEW p \in Procs,
               \/ Verify(p) \/ NoopVerify(p) \/ Resync(p) \/ Reread(p)
               \/ PushUnanswered(p) \/ Raise(p) \/ Crash(p)
        PROVE  UNCHANGED <<remote, tip, clock>>
    BY <1>7 DEF Verify, NoopVerify, Resync, Reread, PushUnanswered, Raise,
                Crash, remoteVars
  <1>8. CASE UNCHANGED vars
    BY <1>8 DEF vars
  <1> QED
    BY <1>1, <1>2, <1>3, <1>4, <1>5, <1>6, <1>7, <1>8 DEF Next, Step

\* A commit moves the lock file of one segment only.
THEOREM OneSegmentPerCommit == Spec => CommitTouchesOneSegment
  <1>1. StoreInv /\ [Next]_vars =>
           [\A s, t \in Segments :
               remote'[s] # remote[s] /\ remote'[t] # remote[t] => s = t]_vars
    <2> SUFFICES ASSUME StoreInv, [Next]_vars,
                        NEW s \in Segments, NEW t \in Segments,
                        remote'[s] # remote[s], remote'[t] # remote[t]
                 PROVE  s = t
      OBVIOUS
    <2>1. PICK m \in Pushes : Lawful(m) /\ FastForward(m) /\ Land(m)
      BY StoreAssumption, StepOfBranch
    <2>2. remote' = [remote EXCEPT ![m.seg] = m.lease]
      BY <2>1 DEF Lawful, FastForward, Land
    <2> QED
      BY <2>2 DEF StoreInv, TypeOK
  <1> QED
    BY <1>1, StoreInvariant, PTL DEF Spec, CommitTouchesOneSegment

\* Every step of the store is a step of the abstract lease, or none.
LEMMA StepRefines ==
    ASSUME StoreAssumption, StoreInv, [Next]_vars
    PROVE  [Lease!Next]_(Lease!vars)
  <1> DEFINE Abs(f) == [s \in Segments |-> [holder  |-> f[s].holder,
                                            expires |-> f[s].expires]]
  <1>1. TypeOK
    BY DEF StoreInv
  <1>2. CASE UNCHANGED <<remote, tip>> /\ clock' \in {clock, clock + 1}
    <2>1. Abs(remote)' = Abs(remote)
      BY <1>2
    <2> QED
      BY <1>2, <2>1 DEF Lease!Next, Lease!Tick, Lease!vars
  <1>3. ASSUME NEW m \in Pushes, Lawful(m), FastForward(m), Land(m),
               UNCHANGED clock
        PROVE  Lease!Next
    <2>1. /\ remote' = [remote EXCEPT ![m.seg] = m.lease]
          /\ MayReplace(remote[m.seg], m.kind, m.by)
          /\ Written(m.lease, m.kind, m.by)
      BY <1>3 DEF Lawful, FastForward, Land
    <2>2. m.seg \in Segments /\ m.by \in Procs /\ Me(m.by) \in Holders
      BY DEF Pushes, StoreAssumption, Me
    <2>3. Abs(remote)' = [Abs(remote) EXCEPT ![m.seg] =
                            [holder  |-> m.lease.holder,
                             expires |-> m.lease.expires]]
      BY <1>1, <2>1, <2>2 DEF TypeOK
    <2>4. CASE m.kind \in Writes
      <3>1. ~Lease!HeldByAnother(Me(m.by), m.seg)
        <4>1. remote[m.seg] \in Leases /\ clock \in Nat
          BY <1>1, <2>2 DEF TypeOK
        <4>2. remote[m.seg].holder \notin {Me(m.by), NoHolder} =>
                 remote[m.seg].expires <= clock
          BY <2>1, <2>4, <4>1, LeaseFacts
             DEF MayReplace, Writes, Absent, Free
        <4> QED
          BY <2>2, <4>1, <4>2, LeaseFacts DEF Lease!HeldByAnother
      <3>2. PICK u \in 0..clock, ttl \in Ttls : m.lease.expires = u + ttl
        BY <2>1, <2>4 DEF Written
      <3>3. m.lease.holder = Me(m.by)
        BY <2>1, <2>4 DEF Written
      <3>4. Abs(remote)' = [Abs(remote) EXCEPT ![m.seg] =
                              [holder |-> Me(m.by), expires |-> u + ttl]]
        BY <2>3, <3>2, <3>3
      <3>5. Lease!Claim(Me(m.by), m.seg)
        BY <1>3, <3>1, <3>2, <3>4 DEF Lease!Claim
      <3> QED
        BY <2>2, <3>5 DEF Lease!Next
    <2>5. CASE m.kind \notin Writes
      <3>1. m.lease = Free
        BY <2>1, <2>5 DEF Written
      <3>2. [holder |-> m.lease.holder, expires |-> m.lease.expires]
                = Lease!FreeLease
        BY <3>1 DEF Free, Absent, Lease!FreeLease
      <3>3. Lease!Vacate(m.seg)
        BY <1>3, <2>3, <3>2 DEF Lease!Vacate
      <3> QED
        BY <2>2, <3>3 DEF Lease!Next
    <2> QED
      BY <2>4, <2>5
  <1> QED
    BY <1>2, <1>3, StepOfBranch

\* The git store implements the abstract lease: no interleaving, crash or
\* late push ever moves a lease that has not run out to another holder.
THEOREM StoreImplementsLease == Spec => ImplementsLease
  <1>1. Init => Lease!Init
    BY DEF Init, Lease!Init, Lease!FreeLease, Absent, Free
  <1>2. StoreInv /\ [Next]_vars => [Lease!Next]_(Lease!vars)
    BY StoreAssumption, StepRefines
  <1> QED
    BY <1>1, <1>2, StoreInvariant, PTL DEF Spec, ImplementsLease, Lease!Spec

-----------------------------------------------------------------------------
(* Beside an older harness that resets the clone behind the file lock *)

\* What a process that releases is about to write, and what it may have
\* answered.
Truthful(p) ==
    /\ pc[p] \in Writing /\ req[p].kind \in Releases => want[p] = Free
    /\ pc[p] = "idle" /\ result[p] = "ok" /\ req[p].kind \in Releases
          => ~(seen[p].state = "held" /\ seen[p].holder = Me(p))

\* The tree differs from the commit it was made from in one lock file only.
SameElsewhere(tree, commit, seg) ==
    \A t \in Segments \ {seg} : tree[t] = commit[t]

\* What is left of Prepared when the clone may be reset at any moment: what
\* is staged or committed still changes the file of one segment at most.
Confined(p) ==
    LET c == Dir(p) IN
    /\ pc[p] \in {"decide", "write", "add"} => index[c] = origin[c]
    /\ pc[p] \in {"status", "commit"} =>
          SameElsewhere(index[c], origin[c], Seg(p))
    /\ pc[p] = "push" => SameElsewhere(head[c], origin[c], Seg(p))

\* A push built on the tip of the branch changes one lock file.
ConfinedPush(m) ==
    m.base <= tip /\ (m.base = tip => SameElsewhere(m.tree, remote, m.seg))

SharedInv ==
    /\ TypeOK
    /\ CloneAtTip
    /\ OwnsClone
    /\ \A p \in Procs : Confined(p) /\ Truthful(p)
    /\ \A m \in flying : ConfinedPush(m)

LegacyNext == Next \/ \E c \in Clones : LegacyRead(c)

\* The reset of an older harness keeps the types.
LEMMA LegacyTypePreserved ==
    ASSUME StoreAssumption, TypeOK, [LegacyNext]_vars
    PROVE  TypeOK'
  <1>1. ASSUME NEW c \in Clones, LegacyRead(c) PROVE TypeOK'
    <2>1. /\ base' \in [Clones -> Nat]
          /\ origin' \in [Clones -> [Segments -> Leases]]
          /\ head' \in [Clones -> [Segments -> Leases]]
          /\ index' \in [Clones -> [Segments -> Leases]]
          /\ work' \in [Clones -> [Segments -> Leases]]
      BY <1>1, SynchroniseFacts DEF LegacyRead
    <2> QED
      BY <1>1, <2>1 DEF LegacyRead, remoteVars, procVars, TypeOK
  <1> QED
    BY <1>1, TypePreserved DEF LegacyNext

\* A step of one process leaves what the others know, are about to write and
\* have answered.
Alone(p) ==
    \A q \in Procs \ {p} :
        /\ pc'[q] = pc[q] /\ req'[q] = req[q] /\ seen'[q] = seen[q]
        /\ want'[q] = want[q] /\ result'[q] = result[q]

LEMMA StepsAlone ==
    ASSUME TypeOK, NEW p \in Procs,
           Start(p) \/ Step(p) \/ PushUnanswered(p) \/ Raise(p) \/ Crash(p)
    PROVE  Alone(p)
  <1> USE DEF TypeOK, Alone, Goto, Finish, procVars
  <1>1. CASE Start(p) \/ Lock(p) \/ Sync(p) \/ Status(p)
    BY <1>1 DEF Start, Lock, Sync, Status
  <1>2. CASE Decide(p)
    BY <1>2 DEF Decide
  <1>3. CASE Write(p) \/ Add(p) \/ Commit(p)
    BY <1>3 DEF Write, Add, Commit
  <1>4. CASE PushAccepted(p) \/ PushRejected(p) \/ PushUnanswered(p)
    BY <1>4 DEF PushAccepted, PushRejected, PushUnanswered
  <1>5. CASE Verify(p) \/ NoopVerify(p)
    BY <1>5 DEF Verify, NoopVerify
  <1>6. CASE Resync(p) \/ Reread(p) \/ Raise(p) \/ Crash(p)
    BY <1>6 DEF Resync, Reread, Raise, Crash
  <1> QED
    BY <1>1, <1>2, <1>3, <1>4, <1>5, <1>6 DEF Step

\* A step of a process keeps its own release truthful.
LEMMA OwnTruth ==
    ASSUME StoreAssumption, TypeOK, NEW p \in Procs, Truthful(p),
           Start(p) \/ Step(p) \/ PushUnanswered(p) \/ Raise(p) \/ Crash(p)
    PROVE  Truthful(p)'
  <1> USE DEF TypeOK, Truthful, Goto, Finish, procVars, Writing
  <1>1. CASE Start(p) \/ Lock(p) \/ Sync(p)
    BY <1>1 DEF Start, Lock, Sync
  <1>2. CASE Decide(p)
    <2>1. seen' = seen /\ req' = req /\ Me(p)' = Me(p)
      BY <1>2 DEF Decide, Me
    <2>2. CASE NothingToDo(p) /\ Finish(p, "ok")
      BY <2>1, <2>2 DEF NothingToDo, Releases
    <2>3. CASE Finish(p, "refused")
      BY <2>1, <2>3
    <2>4. CASE /\ want' = [want EXCEPT ![p] =
                         IF req[p].kind \in Writes
                         THEN Held(Me(p), clock + req[p].ttl, <<p, ops[p]>>)
                         ELSE Free]
               /\ Goto(p, "write")
      <3>1. pc'[p] = "write" /\ (req[p].kind \notin Writes => want'[p] = Free)
        BY <2>4
      <3> QED
        BY <2>1, <3>1 DEF Writes, Releases
    <2> QED
      BY <1>2, <2>2, <2>3, <2>4 DEF Decide
  <1>3. CASE \/ Write(p) \/ Add(p) \/ Status(p) \/ PushAccepted(p)
             \/ PushRejected(p)
    <2>1. /\ pc[p] \in Writing /\ pc'[p] \in Writing /\ pc'[p] # "idle"
          /\ UNCHANGED <<want, req>>
      BY <1>3 DEF Write, Add, Status, PushAccepted, PushRejected
    <2> QED
      BY <2>1
  <1>4. CASE Commit(p) \/ PushUnanswered(p)
    <2>1. /\ pc[p] \in Writing /\ UNCHANGED <<want, req>>
          /\ \/ pc'[p] = "idle" /\ result'[p] = "raised"
             \/ pc'[p] \in {"push", "resync"}
      BY <1>4 DEF Commit, PushUnanswered
    <2> QED
      BY <2>1
  <1>5. CASE Verify(p)
    <2> DEFINE now == Reading(work'[Dir(p)][Seg(p)])
    <2>1. /\ pc[p] \in Writing /\ UNCHANGED <<want, req>> /\ seen'[p] = now
          /\ \/ pc'[p] = "reread"
             \/ pc'[p] = "idle" /\ Achieved(p, now)
      BY <1>5 DEF Verify
    <2> HIDE DEF now
    <2>2. req[p].kind \in Releases => want[p].state = "free"
      BY <2>1, LeaseFacts
    <2> QED
      BY <2>1, <2>2 DEF Achieved, Me
  <1>6. CASE NoopVerify(p)
    <2> DEFINE now == Reading(work'[Dir(p)][Seg(p)])
    <2>1. /\ pc[p] \in Writing /\ UNCHANGED <<want, req>> /\ seen'[p] = now
          /\ \/ pc'[p] = "reread"
             \/ pc'[p] = "idle" /\ now = want[p]
      BY <1>6 DEF NoopVerify
    <2> HIDE DEF now
    <2>2. req[p].kind \in Releases => want[p].state = "free"
      BY <2>1, LeaseFacts
    <2> QED
      BY <2>1, <2>2 DEF Me
  <1>7. CASE Resync(p)
    <2>1. pc[p] \in Writing /\ pc'[p] = "reread" /\ UNCHANGED <<want, req>>
      BY <1>7 DEF Resync
    <2> QED
      BY <2>1
  <1>8. CASE Reread(p)
    <2>1. /\ pc'[p] = "idle" /\ req' = req
          /\ result'[p] = "ok" /\ req[p].kind \in Releases
                => seen'[p].state = "free"
      BY <1>8 DEF Reread
    <2> QED
      BY <2>1
  <1>9. CASE Raise(p) \/ Crash(p)
    BY <1>9 DEF Raise, Crash
  <1> QED
    BY <1>1, <1>2, <1>3, <1>4, <1>5, <1>6, <1>7, <1>8, <1>9 DEF Step

\* A step inside an operation that touches its own clone only keeps the
\* clones and the pushes confined, if it leaves its own process confined.
LEMMA LocalConfined ==
    ASSUME StoreAssumption, SharedInv, TypeOK', NEW p \in Procs, Local(p),
           Alone(p), Confined(p)', Truthful(p)',
           \A m \in flying' : m \in flying \/ ConfinedPush(m)
    PROVE  SharedInv'
  <1> USE DEF SharedInv
  <1>1. CloneAtTip'
    <2>1. Dir(p) \in Clones
      BY DEF StoreAssumption, Dir
    <2> QED
      BY <2>1, CloneFrame DEF Local
  <1>2. OwnsClone'
    BY OwnerFrame DEF Local
  <1>3. ASSUME NEW q \in Procs PROVE Confined(q)' /\ Truthful(q)'
    <2>1. CASE q = p
      BY <2>1
    <2>2. CASE q # p
      <3>1. /\ pc'[q] = pc[q] /\ req'[q] = req[q] /\ seen'[q] = seen[q]
            /\ want'[q] = want[q] /\ result'[q] = result[q]
        BY <2>2 DEF Alone
      <3>2. Truthful(q)'
        BY <3>1 DEF Truthful, Me
      <3>3. CASE pc[q] \notin Inside
        <4>1. Confined(q)'
          BY <3>1, <3>3 DEF Confined, Inside
        <4> QED
          BY <3>2, <4>1
      <3>4. CASE pc[q] \in Inside
        <4>1. Dir(q) \in Clones /\ Dir(q) # Dir(p)
          BY <2>2, <3>4 DEF OwnsClone, StoreAssumption, Dir, Local
        <4>2. /\ origin'[Dir(q)] = origin[Dir(q)]
              /\ head'[Dir(q)] = head[Dir(q)] /\ index'[Dir(q)] = index[Dir(q)]
          BY <4>1 DEF Local
        <4>3. Confined(q)
          OBVIOUS
        <4>4. Confined(q)'
          BY <3>1, <4>2, <4>3 DEF Confined, SameElsewhere, Dir, Seg
        <4> QED
          BY <3>2, <4>4
      <3> QED
        BY <3>2, <3>3, <3>4
    <2> QED
      BY <2>1, <2>2
  <1>4. ASSUME NEW m \in flying' PROVE ConfinedPush(m)'
    <2>1. ConfinedPush(m)
      OBVIOUS
    <2> QED
      BY <2>1 DEF Local, ConfinedPush, SameElsewhere
  <1> QED
    BY <1>1, <1>2, <1>3, <1>4

\* The push that a process is about to make changes one lock file.
LEMMA PushOfConfined ==
    ASSUME StoreAssumption, SharedInv, NEW p \in Procs, pc[p] = "push"
    PROVE  PushOf(p) \in Pushes /\ ConfinedPush(PushOf(p))
  <1>1. TypeOK /\ CloneAtTip /\ Confined(p) /\ Dir(p) \in Clones
    BY DEF SharedInv, StoreAssumption, Dir
  <1>2. SameElsewhere(head[Dir(p)], origin[Dir(p)], Seg(p))
    BY <1>1 DEF Confined
  <1>3. base[Dir(p)] <= tip /\ (base[Dir(p)] = tip => origin[Dir(p)] = remote)
    BY <1>1 DEF CloneAtTip
  <1>4. /\ PushOf(p).base = base[Dir(p)] /\ PushOf(p).tree = head[Dir(p)]
        /\ PushOf(p).seg = Seg(p)
    BY DEF PushOf
  <1> QED
    BY <1>1, <1>2, <1>3, <1>4, PushOfType DEF ConfinedPush

\* The steps inside an operation that leave the branch alone.
LEMMA SharedLocalSteps ==
    ASSUME StoreAssumption, SharedInv, TypeOK', NEW p \in Procs,
           \/ Sync(p) \/ Decide(p) \/ Write(p) \/ Add(p) \/ Status(p)
           \/ Commit(p) \/ PushRejected(p) \/ Verify(p) \/ NoopVerify(p)
           \/ Resync(p) \/ Reread(p) \/ PushUnanswered(p) \/ Raise(p)
           \/ Crash(p)
    PROVE  SharedInv'
  <1>1. /\ TypeOK /\ Confined(p) /\ Truthful(p)
        /\ Dir(p) \in Clones /\ Seg(p) \in Segments
    BY DEF SharedInv, StoreAssumption, TypeOK, Requests, Dir, Seg
  <1>2. Alone(p) /\ Truthful(p)'
    BY <1>1, StepsAlone, OwnTruth DEF Step
  <1>3. ASSUME pc'[p] \notin {"decide", "write", "add", "status", "commit",
                              "push"}
        PROVE  Confined(p)'
    BY <1>3 DEF Confined
  <1>4. CASE Sync(p)
    <2>1. Synchronise(Dir(p))
      BY <1>4 DEF Sync
    <2>2. Local(p)
      BY <1>1, <1>4, <2>1, SynchroniseFacts
         DEF Sync, Local, Goto, Inside, TypeOK, remoteVars
    <2>3. /\ pc'[p] = "decide" /\ flying' = flying
          /\ index'[Dir(p)] = origin'[Dir(p)]
      BY <1>1, <1>4, <2>1, SynchroniseFacts DEF Sync, Goto, TypeOK
    <2>4. Confined(p)'
      BY <2>3 DEF Confined, Dir
    <2> QED
      BY <1>2, <2>2, <2>3, <2>4, LocalConfined
  <1>5. CASE Decide(p)
    <2>1. Local(p)
      BY <1>1, <1>5 DEF Decide, Local, Goto, Finish, Inside, TypeOK,
                        remoteVars, cloneVars
    <2>2. /\ pc[p] = "decide" /\ pc'[p] \in {"idle", "write"}
          /\ UNCHANGED <<flying, index, origin>>
      BY <1>1, <1>5 DEF Decide, Goto, Finish, TypeOK, cloneVars
    <2>3. Confined(p)'
      BY <1>1, <2>2 DEF Confined, Dir
    <2> QED
      BY <1>2, <2>1, <2>2, <2>3, LocalConfined
  <1>6. CASE Write(p)
    <2>1. Local(p)
      BY <1>1, <1>6 DEF Write, Local, Goto, Inside, TypeOK, remoteVars,
                        procVars
    <2>2. /\ pc[p] = "write" /\ pc'[p] = "add"
          /\ UNCHANGED <<flying, index, origin>>
      BY <1>1, <1>6 DEF Write, Goto, TypeOK
    <2>3. Confined(p)'
      BY <1>1, <2>2 DEF Confined, Dir
    <2> QED
      BY <1>2, <2>1, <2>2, <2>3, LocalConfined
  <1>7. CASE Add(p)
    <2>1. Local(p)
      BY <1>1, <1>7 DEF Add, Local, Goto, Inside, TypeOK, remoteVars, procVars
    <2>2. /\ pc[p] = "add" /\ pc'[p] = "status" /\ UNCHANGED <<flying, origin, req>>
          /\ \A t \in Segments \ {Seg(p)} :
                index'[Dir(p)][t] = index[Dir(p)][t]
      BY <1>1, <1>7 DEF Add, Goto, TypeOK, procVars
    <2>3. Confined(p)'
      BY <1>1, <2>2 DEF Confined, SameElsewhere, Dir, Seg
    <2> QED
      BY <1>2, <2>1, <2>2, <2>3, LocalConfined
  <1>8. CASE Status(p)
    <2>1. Local(p)
      BY <1>1, <1>8 DEF Status, Local, Goto, Inside, TypeOK, remoteVars,
                        procVars, cloneVars
    <2>2. /\ pc[p] = "status" /\ pc'[p] \in {"noop", "commit"}
          /\ UNCHANGED <<flying, index, origin, req>>
      BY <1>1, <1>8 DEF Status, Goto, TypeOK, procVars, cloneVars
    <2>3. Confined(p)'
      BY <1>1, <2>2 DEF Confined, SameElsewhere, Dir, Seg
    <2> QED
      BY <1>2, <2>1, <2>2, <2>3, LocalConfined
  <1>9. CASE Commit(p)
    <2>1. Local(p)
      BY <1>1, <1>9 DEF Commit, Local, Goto, Finish, Inside, TypeOK,
                        remoteVars
    <2>2. /\ pc[p] = "commit" /\ UNCHANGED <<flying, index, origin, req>>
          /\ \/ pc'[p] = "push" /\ head'[Dir(p)] = index[Dir(p)]
             \/ pc'[p] = "idle"
      BY <1>1, <1>9 DEF Commit, Goto, Finish, TypeOK
    <2>3. Confined(p)'
      BY <1>1, <2>2 DEF Confined, SameElsewhere, Dir, Seg
    <2> QED
      BY <1>2, <2>1, <2>2, <2>3, LocalConfined
  <1>10. CASE PushRejected(p)
    <2>1. Local(p)
      BY <1>1, <1>10 DEF PushRejected, Local, Goto, Inside, TypeOK,
                         remoteVars, procVars, cloneVars
    <2>2. pc'[p] = "resync" /\ flying' = flying
      BY <1>1, <1>10 DEF PushRejected, Goto, TypeOK
    <2> QED
      BY <1>2, <1>3, <2>1, <2>2, LocalConfined
  <1>11. CASE Verify(p) \/ NoopVerify(p) \/ Reread(p)
    <2>1. /\ pc[p] \in Inside /\ Synchronise(Dir(p))
          /\ UNCHANGED <<clock, remote, tip, req, want, flying>>
          /\ \E place \in {"idle", "reread"} :
                /\ pc' = [pc EXCEPT ![p] = place]
                /\ \/ UNCHANGED flock
                   \/ /\ place = "idle"
                      /\ flock' = [flock EXCEPT ![Dir(p)] = NoProc]
      BY <1>11 DEF Verify, NoopVerify, Reread, Goto, Finish, Inside,
                   remoteVars
    <2>2. Local(p)
      BY <1>1, <1>2, <2>1, SynchroniseFacts DEF Local, Alone
    <2>3. pc'[p] \in {"idle", "reread"}
      BY <1>1, <2>1 DEF TypeOK
    <2> QED
      BY <1>2, <1>3, <2>1, <2>2, <2>3, LocalConfined
  <1>12. CASE Resync(p)
    <2>1. /\ pc[p] \in Inside /\ pc' = [pc EXCEPT ![p] = "reread"]
          /\ UNCHANGED <<clock, remote, tip, flying, flock, req, seen, want>>
      BY <1>12 DEF Resync, Goto, Inside, remoteVars, procVars
    <2>2. /\ \A d \in Clones \ {Dir(p)} :
                /\ base'[d] = base[d] /\ origin'[d] = origin[d]
                /\ head'[d] = head[d] /\ index'[d] = index[d]
                /\ work'[d] = work[d]
          /\ \/ base'[Dir(p)] = base[Dir(p)]
                /\ origin'[Dir(p)] = origin[Dir(p)]
             \/ base'[Dir(p)] = tip /\ origin'[Dir(p)] = remote
      <3>1. CASE Synchronise(Dir(p))
        BY <1>1, <3>1, SynchroniseFacts
      <3>2. CASE ResetTo(Dir(p), origin[Dir(p)]) /\ UNCHANGED <<base, origin>>
        BY <1>1, <3>2 DEF ResetTo, TypeOK
      <3>3. CASE UNCHANGED cloneVars
        BY <3>3 DEF cloneVars
      <3> QED
        BY <1>12, <3>1, <3>2, <3>3 DEF Resync
    <2>3. Local(p)
      BY <2>1, <2>2 DEF Local
    <2>4. pc'[p] = "reread"
      BY <1>1, <2>1 DEF TypeOK
    <2> QED
      BY <1>2, <1>3, <2>1, <2>3, <2>4, LocalConfined
  <1>13. CASE PushUnanswered(p)
    <2>1. Local(p)
      BY <1>1, <1>13 DEF PushUnanswered, Local, Goto, Finish, Inside, TypeOK,
                         remoteVars, cloneVars
    <2>2. pc'[p] \in {"idle", "resync"}
      BY <1>1, <1>13 DEF PushUnanswered, Goto, Finish, TypeOK
    <2>3. \A m \in flying' : m \in flying \/ ConfinedPush(m)
      BY <1>13, PushOfConfined DEF PushUnanswered
    <2> QED
      BY <1>2, <1>3, <2>1, <2>2, <2>3, LocalConfined
  <1>14. CASE Raise(p)
    <2>1. Local(p)
      BY <1>1, <1>14 DEF Raise, Local, Finish, Goto, TypeOK, remoteVars,
                         cloneVars
    <2>2. pc'[p] = "idle" /\ flying' = flying
      BY <1>1, <1>14 DEF Raise, Goto, Finish, TypeOK
    <2> QED
      BY <1>2, <1>3, <2>1, <2>2, LocalConfined
  <1>15. CASE Crash(p)
    <2>1. Local(p)
      BY <1>1, <1>15 DEF Crash, Local, Finish, Goto, TypeOK, cloneVars
    <2>2. pc'[p] = "idle"
      BY <1>1, <1>15 DEF Crash, Goto, Finish, TypeOK
    <2>3. \A m \in flying' : m \in flying \/ ConfinedPush(m)
      BY <1>15, PushOfConfined DEF Crash
    <2> QED
      BY <1>2, <1>3, <2>1, <2>2, <2>3, LocalConfined
  <1> QED
    BY <1>4, <1>5, <1>6, <1>7, <1>8, <1>9, <1>10, <1>11, <1>12, <1>13,
       <1>14, <1>15

\* A push that lands outdates the pushes in flight and the other clones.
LEMMA ConfinedLands ==
    ASSUME StoreAssumption, SharedInv, NEW m \in Pushes, Land(m)
    PROVE  /\ tip' = tip + 1
           /\ \A n \in flying : ConfinedPush(n)'
           /\ \A c \in Clones : base[c] <= tip' /\ base[c] # tip'
  <1>1. tip' = tip + 1 /\ tip \in Nat
    BY LandFacts DEF SharedInv, TypeOK
  <1>2. ASSUME NEW n \in flying PROVE ConfinedPush(n)'
    <2>1. n.base \in Nat /\ n.base <= tip
      BY DEF SharedInv, TypeOK, Pushes, ConfinedPush
    <2> QED
      BY <1>1, <2>1 DEF ConfinedPush
  <1>3. \A c \in Clones : base[c] <= tip /\ base[c] \in Nat
    BY DEF SharedInv, CloneAtTip, TypeOK
  <1> QED
    BY <1>1, <1>2, <1>3

LEMMA SharedPushAccepted ==
    ASSUME StoreAssumption, SharedInv, TypeOK', NEW p \in Procs,
           PushAccepted(p)
    PROVE  SharedInv'
  <1>1. /\ TypeOK /\ pc[p] = "push" /\ pc[p] \in Inside
        /\ Dir(p) \in Clones
    BY DEF SharedInv, PushAccepted, Inside, StoreAssumption, Dir
  <1>2. /\ UNCHANGED <<flying, head, index, flock, req, want, seen, result>>
        /\ pc' = [pc EXCEPT ![p] = "verify"]
    BY DEF PushAccepted, Goto, procVars
  <1>3. OwnsClone'
    BY <1>1, <1>2, OwnerFrame DEF SharedInv
  <1>4. Alone(p) /\ Truthful(p)'
    BY <1>1, StepsAlone, OwnTruth DEF Step, SharedInv
  <1>5. \A d \in Clones \ {Dir(p)} : base'[d] = base[d] /\ origin'[d] = origin[d]
    BY <1>1 DEF PushAccepted, TypeOK
  <1>6. ASSUME NEW q \in Procs PROVE Confined(q)' /\ Truthful(q)'
    <2>1. CASE q = p
      BY <1>1, <1>2, <1>4, <2>1 DEF Confined, TypeOK
    <2>2. CASE q # p
      <3>1. pc'[q] = pc[q] /\ Truthful(q)'
        BY <1>1, <1>2, <1>4, <2>2 DEF SharedInv, Alone, Truthful, Me
      <3>2. CASE pc[q] \notin Inside
        BY <3>1, <3>2 DEF Confined, Inside
      <3>3. CASE pc[q] \in Inside
        <4>1. Dir(q) \in Clones /\ Dir(q) # Dir(p)
          BY <1>1, <2>2, <3>3 DEF SharedInv, OwnsClone, StoreAssumption, Dir
        <4>2. origin'[Dir(q)] = origin[Dir(q)] /\ Confined(q)
          BY <1>5, <4>1 DEF SharedInv
        <4>3. Confined(q)'
          BY <1>2, <3>1, <4>2 DEF Confined, SameElsewhere, Dir, Seg
        <4> QED
          BY <3>1, <4>3
      <3> QED
        BY <3>1, <3>2, <3>3
    <2> QED
      BY <2>1, <2>2
  <1>7. CASE Ahead(Dir(p))
    <2>1. /\ Land(PushOf(p)) /\ PushOf(p) \in Pushes
          /\ base' = [base EXCEPT ![Dir(p)] = tip + 1]
          /\ origin' = [origin EXCEPT ![Dir(p)] = head[Dir(p)]]
      BY <1>1, <1>7, PushOfConfined DEF PushAccepted
    <2>2. /\ tip' = tip + 1 /\ tip' \in Nat
          /\ \A n \in flying : ConfinedPush(n)'
          /\ \A c \in Clones : base[c] <= tip' /\ base[c] # tip'
      BY <2>1, ConfinedLands DEF TypeOK
    <2>3. base'[Dir(p)] = tip' /\ origin'[Dir(p)] = remote'
      BY <1>1, <2>1, <2>2 DEF Land, PushOf, TypeOK
    <2>4. CloneAtTip'
      BY <1>5, <2>2, <2>3 DEF CloneAtTip
    <2> QED
      BY <1>2, <1>3, <1>6, <2>2, <2>4 DEF SharedInv
  <1>8. CASE ~Ahead(Dir(p))
    <2>1. UNCHANGED <<remote, tip, base, origin>>
      BY <1>8 DEF PushAccepted, remoteVars
    <2>2. CloneAtTip' /\ \A n \in flying' : ConfinedPush(n)'
      BY <1>2, <2>1 DEF SharedInv, CloneAtTip, ConfinedPush, SameElsewhere
    <2> QED
      BY <1>3, <1>6, <2>2 DEF SharedInv
  <1> QED
    BY <1>7, <1>8

LEMMA SharedStep ==
    ASSUME StoreAssumption, SharedInv, [LegacyNext]_vars
    PROVE  SharedInv'
  <1>1. TypeOK /\ TypeOK'
    BY LegacyTypePreserved DEF SharedInv
  <1>2. CASE Tick \/ UNCHANGED vars
    <2>1. UNCHANGED <<remote, tip, flying, base, origin, head, index, flock,
                      pc, req, seen, want, result>>
      BY <1>2 DEF Tick, vars, remoteVars, cloneVars, procVars
    <2>2. ASSUME NEW p \in Procs PROVE Confined(p)' /\ Truthful(p)'
      <3>1. Confined(p) /\ Truthful(p)
        BY DEF SharedInv
      <3>2. Confined(p)'
        BY <2>1, <3>1 DEF Confined, SameElsewhere, Dir, Seg
      <3>3. Truthful(p)'
        BY <2>1, <3>1 DEF Truthful, Me
      <3> QED
        BY <3>2, <3>3
    <2>3. CloneAtTip' /\ OwnsClone' /\ \A m \in flying' : ConfinedPush(m)'
      BY <2>1 DEF SharedInv, CloneAtTip, OwnsClone, ConfinedPush,
                  SameElsewhere, Dir
    <2> QED
      BY <1>1, <2>2, <2>3 DEF SharedInv
  <1>3. ASSUME NEW m \in flying, Deliver(m) PROVE SharedInv'
    <2>1. /\ UNCHANGED <<base, origin, head, index, flock, pc, req, seen,
                         want, result>>
          /\ flying' \subseteq flying /\ m \in Pushes
      BY <1>1, <1>3 DEF Deliver, cloneVars, procVars, TypeOK
    <2>2. ASSUME NEW p \in Procs PROVE Confined(p)' /\ Truthful(p)'
      <3>1. Confined(p) /\ Truthful(p)
        BY DEF SharedInv
      <3>2. Confined(p)'
        BY <2>1, <3>1 DEF Confined, SameElsewhere, Dir, Seg
      <3>3. Truthful(p)'
        BY <2>1, <3>1 DEF Truthful, Me
      <3> QED
        BY <3>2, <3>3
    <2>3. OwnsClone'
      BY <2>1 DEF SharedInv, OwnsClone, Dir
    <2>4. CASE Land(m)
      <3>1. /\ \A n \in flying : ConfinedPush(n)'
            /\ \A c \in Clones : base[c] <= tip' /\ base[c] # tip'
        BY <2>1, <2>4, ConfinedLands
      <3>2. CloneAtTip'
        BY <2>1, <3>1 DEF CloneAtTip
      <3> QED
        BY <1>1, <2>1, <2>2, <2>3, <3>1, <3>2 DEF SharedInv
    <2>5. CASE UNCHANGED <<remote, tip>>
      <3>1. CloneAtTip' /\ \A n \in flying' : ConfinedPush(n)'
        BY <2>1, <2>5 DEF SharedInv, CloneAtTip, ConfinedPush, SameElsewhere
      <3> QED
        BY <1>1, <2>2, <2>3, <3>1 DEF SharedInv
    <2> QED
      BY <1>3, <2>4, <2>5 DEF Deliver, remoteVars
  <1>4. ASSUME NEW p \in Procs, Start(p) \/ Lock(p) PROVE SharedInv'
    <2>1. /\ UNCHANGED <<remote, tip, flying, base, origin, head, index>>
          /\ pc[p] \in {"idle", "lock"} /\ pc'[p] \in {"lock", "sync"}
      BY <1>1, <1>4 DEF Start, Lock, Goto, remoteVars, cloneVars, TypeOK
    <2>2. Alone(p) /\ Truthful(p)'
      BY <1>1, <1>4, StepsAlone, OwnTruth DEF Step, SharedInv
    <2>3. ASSUME NEW q \in Procs PROVE Confined(q)' /\ Truthful(q)'
      <3>1. CASE q = p
        BY <2>1, <2>2, <3>1 DEF Confined
      <3>2. CASE q # p
        <4>1. Confined(q)'
          BY <2>1, <2>2, <3>2 DEF SharedInv, Alone, Confined, SameElsewhere,
                                  Dir, Seg
        <4>2. Truthful(q)'
          BY <2>2, <3>2 DEF SharedInv, Alone, Truthful, Me
        <4> QED
          BY <4>1, <4>2
      <3> QED
        BY <3>1, <3>2
    <2>4. OwnsClone'
      <3> SUFFICES ASSUME NEW q \in Procs, pc'[q] \in Inside
                   PROVE  flock'[Dir(q)] = q
        BY DEF OwnsClone, Dir
      <3>1. Dir(p) \in Clones /\ Dir(q) \in Clones /\ NoProc # q
        BY DEF StoreAssumption, Dir
      <3>2. CASE q = p
        BY <1>1, <1>4, <3>1, <3>2 DEF Start, Lock, Goto, TypeOK, Inside
      <3>3. CASE q # p
        <4>1. flock[Dir(q)] = q
          BY <2>2, <3>3 DEF SharedInv, OwnsClone, Alone
        <4> QED
          BY <1>1, <1>4, <3>1, <4>1 DEF Start, Lock, TypeOK
      <3> QED
        BY <3>2, <3>3
    <2>5. CloneAtTip' /\ \A m \in flying' : ConfinedPush(m)'
      BY <2>1 DEF SharedInv, CloneAtTip, ConfinedPush, SameElsewhere
    <2> QED
      BY <1>1, <2>3, <2>4, <2>5 DEF SharedInv
  <1>5. ASSUME NEW p \in Procs,
               Step(p) \/ PushUnanswered(p) \/ Raise(p) \/ Crash(p)
        PROVE  SharedInv'
    BY <1>1, <1>4, <1>5, SharedLocalSteps, SharedPushAccepted DEF Step
  <1>6. ASSUME NEW c \in Clones, LegacyRead(c) PROVE SharedInv'
    <2>1. /\ Synchronise(c)
          /\ UNCHANGED <<remote, tip, flying, flock, pc, req, seen, want,
                         result>>
      BY <1>6 DEF LegacyRead, remoteVars, procVars
    <2>2. /\ base'[c] = tip /\ origin'[c] = remote /\ head'[c] = remote
          /\ index'[c] = remote
          /\ \A d \in Clones \ {c} :
                /\ base'[d] = base[d] /\ origin'[d] = origin[d]
                /\ head'[d] = head[d] /\ index'[d] = index[d]
      BY <1>1, <2>1, SynchroniseFacts
    <2>3. ASSUME NEW p \in Procs PROVE Confined(p)' /\ Truthful(p)'
      <3>1. Truthful(p)'
        BY <2>1 DEF SharedInv, Truthful, Me
      <3>2. CASE Dir(p) = c
        <4>1. Confined(p)'
          BY <2>2, <3>2 DEF Confined, SameElsewhere, Dir
        <4> QED
          BY <3>1, <4>1
      <3>3. CASE Dir(p) # c
        <4>1. Dir(p) \in Clones \ {c} /\ Confined(p)
          BY <3>3 DEF SharedInv, StoreAssumption, Dir
        <4>2. Confined(p)'
          BY <2>1, <2>2, <4>1 DEF Confined, SameElsewhere, Dir, Seg
        <4> QED
          BY <3>1, <4>2
      <3> QED
        BY <3>2, <3>3
    <2>4. CloneAtTip'
      BY <1>1, <2>1, <2>2, CloneFrame DEF SharedInv
    <2>5. OwnsClone' /\ \A m \in flying' : ConfinedPush(m)'
      BY <2>1 DEF SharedInv, OwnsClone, ConfinedPush, SameElsewhere, Dir
    <2> QED
      BY <1>1, <2>3, <2>4, <2>5 DEF SharedInv
  <1> QED
    BY <1>2, <1>3, <1>4, <1>5, <1>6 DEF LegacyNext, Next

\* What holds of a store whose clone an older harness resets at any moment.
THEOREM SharedInvariant == LegacySpec => []SharedInv
  <1>1. Init => SharedInv
    <2> SUFFICES ASSUME Init PROVE SharedInv
      OBVIOUS
    <2>1. TypeOK /\ CloneAtTip /\ OwnsClone
      BY StoreAssumption, InitInv DEF StoreInv
    <2>2. \A p \in Procs : pc[p] = "idle" /\ result[p] = "none"
      BY DEF Init
    <2>3. \A p \in Procs : Confined(p) /\ Truthful(p)
      BY <2>2 DEF Confined, Truthful, Writing
    <2>4. \A m \in flying : ConfinedPush(m)
      BY DEF Init
    <2> QED
      BY <2>1, <2>3, <2>4 DEF SharedInv
  <1>2. SharedInv /\ [LegacyNext]_vars => SharedInv'
    BY StoreAssumption, SharedStep
  <1> QED
    BY <1>1, <1>2, PTL DEF LegacySpec, LegacyNext

\* release answers ok only if the lease it reread is not its own any more,
\* also when an older harness resets the shared clone between its write and
\* its commit (_commit_and_push and the reread of _release_locked).
THEOREM ReleaseIsTruthful == LegacySpec => []ReleaseTruthful
  <1>1. SharedInv => ReleaseTruthful
    BY DEF SharedInv, Truthful, ReleaseTruthful
  <1> QED
    BY <1>1, SharedInvariant, PTL

\* Even then a commit moves the lock file of one segment only.
THEOREM OneSegmentBesideLegacy == LegacySpec => CommitTouchesOneSegment
  <1>1. SharedInv /\ [LegacyNext]_vars =>
           [\A s, t \in Segments :
               remote'[s] # remote[s] /\ remote'[t] # remote[t] => s = t]_vars
    <2> SUFFICES ASSUME SharedInv, [LegacyNext]_vars,
                        NEW s \in Segments, NEW t \in Segments,
                        remote'[s] # remote[s], remote'[t] # remote[t]
                 PROVE  s = t
      OBVIOUS
    <2>1. PICK m \in Pushes : /\ ConfinedPush(m) /\ FastForward(m) /\ Land(m)
      <3>1. ASSUME NEW m \in flying, Deliver(m), remote' # remote
            PROVE  /\ m \in Pushes /\ ConfinedPush(m)
                   /\ FastForward(m) /\ Land(m)
        BY <3>1 DEF SharedInv, TypeOK, Deliver, remoteVars
      <3>2. ASSUME NEW p \in Procs, PushAccepted(p), remote' # remote
            PROVE  /\ PushOf(p) \in Pushes /\ ConfinedPush(PushOf(p))
                   /\ FastForward(PushOf(p)) /\ Land(PushOf(p))
        BY <3>2, StoreAssumption, PushOfConfined DEF PushAccepted, remoteVars
      <3>3. ASSUME NEW p \in Procs,
                   \/ Start(p) \/ Lock(p) \/ Sync(p) \/ Decide(p) \/ Write(p)
                   \/ Add(p) \/ Status(p) \/ Commit(p) \/ PushRejected(p)
                   \/ Verify(p) \/ NoopVerify(p) \/ Resync(p) \/ Reread(p)
                   \/ PushUnanswered(p) \/ Raise(p) \/ Crash(p)
            PROVE  remote' = remote
        <4>1. CASE \/ Start(p) \/ Lock(p) \/ Sync(p) \/ Decide(p) \/ Write(p)
                   \/ Add(p) \/ Status(p) \/ Commit(p) \/ PushRejected(p)
          BY <4>1 DEF Start, Lock, Sync, Decide, Write, Add, Status, Commit,
                      PushRejected, remoteVars
        <4>2. CASE \/ Verify(p) \/ NoopVerify(p) \/ Resync(p) \/ Reread(p)
                   \/ PushUnanswered(p) \/ Raise(p) \/ Crash(p)
          BY <4>2 DEF Verify, NoopVerify, Resync, Reread, PushUnanswered,
                      Raise, Crash, remoteVars
        <4> QED
          BY <3>3, <4>1, <4>2
      <3>4. ~Tick /\ ~UNCHANGED vars /\ \A c \in Clones : ~LegacyRead(c)
        BY DEF Tick, LegacyRead, vars, remoteVars
      <3> QED
        BY <3>1, <3>2, <3>3, <3>4 DEF LegacyNext, Next, Step
    <2>2. \A u \in Segments \ {m.seg} : remote'[u] = remote[u]
      BY <2>1 DEF ConfinedPush, FastForward, Land, SameElsewhere
    <2> QED
      BY <2>2
  <1> QED
    BY <1>1, SharedInvariant, PTL
       DEF LegacySpec, LegacyNext, CommitTouchesOneSegment
=============================================================================
