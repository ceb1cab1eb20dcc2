-------------------------- MODULE FleetLockStore --------------------------
(***************************************************************************)
(* The git compare-and-swap store of the fleet lease                       *)
(* (src/src/skulk_test_harness/fleet_lock.py).                             *)
(*                                                                         *)
(* One lock file per segment lives on one branch of a coordination         *)
(* repository.  Every process of a controller shares one cached clone of   *)
(* it, guarded by an advisory file lock.  An operation takes the file      *)
(* lock, synchronises the clone with the branch, decides, writes the lock  *)
(* file, commits, pushes (the compare-and-swap) and rereads.  Processes    *)
(* can crash and pushes can lose their answer or arrive late.              *)
(*                                                                         *)
(* A process is one thread of control that issues store operations one at  *)
(* a time: a CLI call, a qualification's main thread or its heartbeat.     *)
(***************************************************************************)
EXTENDS Integers, FiniteSets

CONSTANTS
    Procs,      \* threads of control that call the store
    NoProc,     \* nobody
    Holders,    \* lease identities
    NoHolder,   \* the holder of a free segment
    HolderOf,   \* HolderOf[p]: the identity process p is configured with
    Clones,     \* cache directories, one per controller
    CloneOf,    \* CloneOf[p]: the clone process p works in
    Segments,   \* fleet segments
    Ttls,       \* lease durations asked for
    MaxClock,   \* bound: the clock stops here
    MaxOps,     \* bound: operations per process
    MaxFaults   \* bound: crashes and transport failures in a behaviour

ASSUME StoreAssumption ==
    /\ NoProc \notin Procs
    /\ NoHolder \notin Holders
    /\ HolderOf \in [Procs -> Holders]
    /\ CloneOf \in [Procs -> Clones]
    /\ Segments # {}
    /\ Ttls \subseteq Int
    /\ MaxClock \in Nat
    /\ MaxOps \in Nat
    /\ MaxFaults \in Nat

VARIABLES
    clock,      \* wall clock
    remote,     \* remote[s]: the lock file of s at the tip of the branch
    tip,        \* number of commits on the branch
    flying,     \* pushes whose sender gave up, still able to land
    base,       \* base[c]: the commit that clone c last fetched
    origin,     \* origin[c][s]: the lock file of s in that commit
    head,       \* head[c][s]: in the clone's own HEAD
    index,      \* index[c][s]: in the clone's index
    work,       \* work[c][s]: in the clone's working tree
    flock,      \* flock[c]: the process inside _local_cache_lock, or NoProc
    pc,         \* pc[p]: where process p is in its operation
    req,        \* req[p]: the operation: kind, segment, ttl
    seen,       \* seen[p]: the lease its last _read_unlocked returned
    want,       \* want[p]: the lease it is writing
    result,     \* result[p]: how its last operation ended
    ops,        \* ops[p]: operations it has started
    faults,     \* crashes and failures so far
    claim       \* claim[p][s]: p was told it holds s until then (history)

remoteVars == <<remote, tip, claim>>
cloneVars  == <<base, origin, head, index, work>>
procVars   == <<req, seen, want, result, ops>>
vars == <<clock, remote, tip, flying, base, origin, head, index, work,
          flock, pc, req, seen, want, result, ops, faults, claim>>

-----------------------------------------------------------------------------
(* Leases *)

\* The fields that tell two writes of one holder apart (host, branch,
\* acquired_at, heartbeat_at): who wrote, and in which of its operations.
Stamps  == (Procs \cup {NoProc}) \X Nat
NoStamp == <<NoProc, 0>>

\* A file that does not exist, and the file that release writes.
Absent == [state |-> "absent", holder |-> NoHolder, expires |-> 0,
           stamp |-> NoStamp]
Free   == [Absent EXCEPT !.state = "free"]

HeldLeases == [state : {"held"}, holder : Holders, expires : Int,
               stamp : Stamps]
Leases == {Absent, Free} \cup HeldLeases

Held(h, until, stamp) ==
    [state |-> "held", holder |-> h, expires |-> until, stamp |-> stamp]

\* Mutant: a lease runs out one unit early.
IsExpiredEarly(l, now) == l.state = "held" /\ now + 1 >= l.expires

\* FleetLease.is_expired and is_held.
IsExpired(l, now) == l.state = "held" /\ now >= l.expires
IsHeld(l, now)    == l.state = "held" /\ ~IsExpired(l, now)

\* An absent lock file reads as a free lease.
Reading(l) == IF l.state = "absent" THEN Free ELSE l

-----------------------------------------------------------------------------
(* Operations and the places inside them *)

Writes   == {"acquire", "extend"}
Releases == {"release", "break"}
Kinds    == {"read"} \cup Writes \cup Releases
\* Only acquire and extend ask for a duration.
Requests == {r \in [kind : Kinds, seg : Segments, ttl : Int] :
                r.kind \in Writes => r.ttl \in Ttls}

Inside == {"sync", "decide", "write", "add", "status", "commit", "push",
           "verify", "noop", "resync", "reread"}
Places == {"idle", "lock"} \cup Inside
Results == {"none", "ok", "refused", "lost", "raised"}

\* Pushes in the network: the tree pushed on top of commit `base`.
Pushes == [by : Procs, kind : Kinds, seg : Segments, base : Nat,
           tree : [Segments -> Leases], lease : Leases]

Me(p)  == HolderOf[p]
Seg(p) == req[p].seg
Dir(p) == CloneOf[p]

Goto(p, place) == pc' = [pc EXCEPT ![p] = place]

\* The operation returns (or raises) and leaves _local_cache_lock.
Finish(p, how) ==
    /\ Goto(p, "idle")
    /\ result' = [result EXCEPT ![p] = how]
    /\ flock' = [flock EXCEPT ![Dir(p)] = NoProc]

MayFail == faults < MaxFaults
Fault   == MayFail /\ faults' = faults + 1

-----------------------------------------------------------------------------
(* Git *)

\* git reset --hard: index and HEAD follow the given tree, and so does every
\* file of the working tree that is tracked; an untracked lock file survives
\* unless the tree has that file.
ResetTo(c, tree) ==
    /\ head'  = [head  EXCEPT ![c] = tree]
    /\ index' = [index EXCEPT ![c] = tree]
    /\ work'  = [work  EXCEPT ![c] = [s \in Segments |->
                    IF tree[s] = Absent /\ index[c][s] = Absent
                    THEN work[c][s] ELSE tree[s]]]

\* _ensure_clone: fetch the branch and reset the clone to its tip.
Synchronise(c) ==
    /\ base'   = [base   EXCEPT ![c] = tip]
    /\ origin' = [origin EXCEPT ![c] = remote]
    /\ ResetTo(c, remote)

\* What a claim is worth after the write m was accepted (history).  The same
\* holder may shorten or give up its own lease; --force ends anybody's.
ClaimAfter(m, p, s) ==
    IF s # m.seg THEN claim[p][s]
    ELSE IF m.kind = "break" THEN 0
    ELSE IF HolderOf[p] # HolderOf[m.by] THEN claim[p][s]
    ELSE IF m.kind = "release" THEN 0
    ELSE IF m.lease.expires < claim[p][s] THEN m.lease.expires
    ELSE claim[p][s]

\* The branch moves to the pushed commit.
Land(m) ==
    /\ remote' = m.tree
    /\ tip' = tip + 1
    /\ claim' = [p \in Procs |-> [s \in Segments |-> ClaimAfter(m, p, s)]]

PushOf(p) ==
    [by |-> p, kind |-> req[p].kind, seg |-> Seg(p), base |-> base[Dir(p)],
     tree |-> head[Dir(p)], lease |-> want[p]]

\* Mutant: git push --force.
FastForwardForced(m) == TRUE

\* A non-fast-forward push is rejected.
FastForward(m) == m.base = tip
Ahead(c) == head[c] # origin[c]

-----------------------------------------------------------------------------
(* Steps of one operation *)

Init ==
    /\ clock = 0
    /\ remote \in [Segments -> {Absent, Free}]
    /\ tip = 0
    /\ flying = {}
    /\ base = [c \in Clones |-> 0]
    /\ origin = [c \in Clones |-> remote]
    /\ head = origin
    /\ index = origin
    /\ work = origin
    /\ flock = [c \in Clones |-> NoProc]
    /\ pc = [p \in Procs |-> "idle"]
    /\ req = [p \in Procs |->
                [kind |-> "read", seg |-> CHOOSE s \in Segments : TRUE,
                 ttl |-> 0]]
    /\ seen = [p \in Procs |-> Free]
    /\ want = [p \in Procs |-> Free]
    /\ result = [p \in Procs |-> "none"]
    /\ ops = [p \in Procs |-> 0]
    /\ faults = 0
    /\ claim = [p \in Procs |-> [s \in Segments |-> 0]]

Tick ==
    /\ clock < MaxClock
    /\ clock' = clock + 1
    /\ UNCHANGED <<remoteVars, flying, cloneVars, flock, pc, procVars, faults>>

\* A caller enters read, acquire, extend or release.
Start(p) ==
    /\ pc[p] = "idle"
    /\ ops[p] < MaxOps
    /\ \E kind \in Kinds, seg \in Segments :
          \E ttl \in IF kind \in Writes THEN Ttls ELSE {0} :
             req' = [req EXCEPT ![p] =
                       [kind |-> kind, seg |-> seg, ttl |-> ttl]]
    /\ ops' = [ops EXCEPT ![p] = @ + 1]
    /\ result' = [result EXCEPT ![p] = "none"]
    /\ Goto(p, "lock")
    /\ UNCHANGED <<clock, remoteVars, flying, cloneVars, flock, seen, want,
                   faults>>

\* fcntl.flock(LOCK_EX).
Lock(p) ==
    /\ pc[p] = "lock"
    /\ flock[Dir(p)] = NoProc
    /\ flock' = [flock EXCEPT ![Dir(p)] = p]
    /\ Goto(p, "sync")
    /\ UNCHANGED <<clock, remoteVars, flying, cloneVars, procVars, faults>>

\* The operation's first _read_unlocked.
Sync(p) ==
    /\ pc[p] = "sync"
    /\ Synchronise(Dir(p))
    /\ seen' = [seen EXCEPT ![p] = Reading(work'[Dir(p)][Seg(p)])]
    /\ Goto(p, "decide")
    /\ UNCHANGED <<clock, remoteVars, flying, flock, req, want, result, ops,
                   faults>>

\* Mutant: release does not ask whose lease it is.
RefusedLenient(p, now) ==
    CASE req[p].kind = "acquire" -> IsHeld(seen[p], now)
                                    /\ seen[p].holder # Me(p)
      [] req[p].kind = "extend"  -> ~(seen[p].state = "held"
                                      /\ seen[p].holder = Me(p))
      [] OTHER                   -> FALSE

\* _acquire_locked refuses a lease that another holder has and that has not
\* expired; _extend_locked wants its own lease, expired or not;
\* _release_locked without force wants its own.
Refused(p, now) ==
    CASE req[p].kind = "acquire" -> IsHeld(seen[p], now)
                                    /\ seen[p].holder # Me(p)
      [] req[p].kind = "extend"  -> ~(seen[p].state = "held"
                                      /\ seen[p].holder = Me(p))
      [] req[p].kind = "release" -> seen[p].holder # Me(p)
      [] OTHER                   -> FALSE

\* Nothing to write: a read, or a release of a lease that is already free.
NothingToDo(p) ==
    \/ req[p].kind = "read"
    \/ req[p].kind \in Releases /\ seen[p].state = "free"

\* The decision uses the clock as it is now, not as it was at the read.
Decide(p) ==
    /\ pc[p] = "decide"
    /\ \/ /\ NothingToDo(p)
          /\ Finish(p, "ok")
          /\ UNCHANGED want
       \/ /\ ~NothingToDo(p) /\ Refused(p, clock)
          /\ Finish(p, "refused")
          /\ UNCHANGED want
       \/ /\ ~NothingToDo(p) /\ ~Refused(p, clock)
          /\ want' = [want EXCEPT ![p] =
                        IF req[p].kind \in Writes
                        THEN Held(Me(p), clock + req[p].ttl, <<p, ops[p]>>)
                        ELSE Free]
          /\ Goto(p, "write")
          /\ UNCHANGED <<result, flock>>
    /\ UNCHANGED <<clock, remoteVars, flying, cloneVars, req, seen, ops,
                   faults>>

\* lock_path.write_text.
Write(p) ==
    /\ pc[p] = "write"
    /\ work' = [work EXCEPT ![Dir(p)][Seg(p)] = want[p]]
    /\ Goto(p, "add")
    /\ UNCHANGED <<clock, remoteVars, flying, base, origin, head, index,
                   flock, procVars, faults>>

\* Mutant: git add --all.
AddAll(p) ==
    /\ pc[p] = "add"
    /\ index' = [index EXCEPT ![Dir(p)] = work[Dir(p)]]
    /\ Goto(p, "status")
    /\ UNCHANGED <<clock, remoteVars, flying, base, origin, head, work,
                   flock, procVars, faults>>

\* git add.
Add(p) ==
    /\ pc[p] = "add"
    /\ index' = [index EXCEPT ![Dir(p)][Seg(p)] = work[Dir(p)][Seg(p)]]
    /\ Goto(p, "status")
    /\ UNCHANGED <<clock, remoteVars, flying, base, origin, head, work,
                   flock, procVars, faults>>

\* git status --porcelain: an untracked file makes the tree unclean too.
Clean(c) == index[c] = head[c] /\ work[c] = index[c]

Status(p) ==
    /\ pc[p] = "status"
    /\ Goto(p, IF Clean(Dir(p)) THEN "noop" ELSE "commit")
    /\ UNCHANGED <<clock, remoteVars, flying, cloneVars, flock, procVars,
                   faults>>

\* git commit exits 1 when nothing is staged, and the operation raises.
Commit(p) ==
    /\ pc[p] = "commit"
    /\ \/ /\ index[Dir(p)] # head[Dir(p)]
          /\ head' = [head EXCEPT ![Dir(p)] = index[Dir(p)]]
          /\ Goto(p, "push")
          /\ UNCHANGED <<result, flock>>
       \/ /\ index[Dir(p)] = head[Dir(p)]
          /\ Finish(p, "raised")
          /\ UNCHANGED head
    /\ UNCHANGED <<clock, remoteVars, flying, base, origin, index, work,
                   req, seen, want, ops, faults>>

\* git push answers: the commit landed, or there was none to push.
PushAccepted(p) ==
    /\ pc[p] = "push"
    /\ FastForward(PushOf(p))
    /\ IF Ahead(Dir(p))
       THEN /\ Land(PushOf(p))
            /\ base' = [base EXCEPT ![Dir(p)] = tip + 1]
            /\ origin' = [origin EXCEPT ![Dir(p)] = head[Dir(p)]]
       ELSE UNCHANGED <<remoteVars, base, origin>>
    /\ Goto(p, "verify")
    /\ UNCHANGED <<clock, flying, head, index, work, flock, procVars, faults>>

\* git push answers: not a fast-forward.
PushRejected(p) ==
    /\ pc[p] = "push"
    /\ ~FastForward(PushOf(p))
    /\ Goto(p, "resync")
    /\ UNCHANGED <<clock, remoteVars, flying, cloneVars, flock, procVars,
                   faults>>

\* The answer of git push is lost: a nonzero exit, or a timeout that raises
\* out of the operation.  The commit may land later or never.
PushUnanswered(p) ==
    /\ pc[p] = "push"
    /\ Fault
    /\ flying' = flying \cup {PushOf(p)}
    /\ \/ Goto(p, "resync") /\ UNCHANGED <<result, flock>>
       \/ Finish(p, "raised")
    /\ UNCHANGED <<clock, remoteVars, cloneVars, req, seen, want, ops>>

\* A push whose sender gave up lands, or is rejected and vanishes.
Deliver(m) ==
    /\ m \in flying
    /\ flying' = flying \ {m}
    /\ IF FastForward(m) THEN Land(m) ELSE UNCHANGED remoteVars
    /\ UNCHANGED <<clock, cloneVars, flock, pc, procVars, faults>>

\* Mutant: an accepted push is believed without a reread.
AchievedBlindly(p, now) == TRUE

\* The reread after an accepted push returned the written lease, or, for a
\* release, a lease that somebody else took in the meantime.
Achieved(p, now) ==
    \/ now = want[p]
    \/ want[p].state = "free" /\ now.state = "held" /\ now.holder # Me(p)

\* After a push the code returns; a write that did not succeed rereads.
Verify(p) ==
    /\ pc[p] = "verify"
    /\ Synchronise(Dir(p))
    /\ LET now == Reading(work'[Dir(p)][Seg(p)]) IN
       /\ seen' = [seen EXCEPT ![p] = now]
       /\ \/ /\ Achieved(p, now)
             /\ Finish(p, "ok")
             /\ claim' = IF req[p].kind \in Writes
                         THEN [claim EXCEPT ![p][Seg(p)] = want[p].expires]
                         ELSE claim
          \/ /\ ~Achieved(p, now)
             /\ Goto(p, "reread")
             /\ UNCHANGED <<result, flock, claim>>
    /\ UNCHANGED <<clock, remote, tip, flying, req, want, ops, faults>>

\* The reread after a write that changed nothing.
NoopVerify(p) ==
    /\ pc[p] = "noop"
    /\ Synchronise(Dir(p))
    /\ LET now == Reading(work'[Dir(p)][Seg(p)]) IN
       /\ seen' = [seen EXCEPT ![p] = now]
       /\ \/ /\ now = want[p]
             /\ Finish(p, "ok")
             /\ claim' = IF req[p].kind \in Writes
                         THEN [claim EXCEPT ![p][Seg(p)] = want[p].expires]
                         ELSE claim
          \/ /\ now # want[p]
             /\ Goto(p, "reread")
             /\ UNCHANGED <<result, flock, claim>>
    /\ UNCHANGED <<clock, remote, tip, flying, req, want, ops, faults>>

\* After a failed push: fetch and reset, either of which may fail unnoticed.
Resync(p) ==
    /\ pc[p] = "resync"
    /\ \/ Synchronise(Dir(p)) /\ UNCHANGED faults
       \/ /\ Fault
          /\ ResetTo(Dir(p), origin[Dir(p)])
          /\ UNCHANGED <<base, origin>>
       \/ Fault /\ UNCHANGED cloneVars
    /\ Goto(p, "reread")
    /\ UNCHANGED <<clock, remoteVars, flying, flock, procVars>>

\* The reread that fills the outcome of a lost race; for a release it also
\* decides it.
Reread(p) ==
    /\ pc[p] = "reread"
    /\ Synchronise(Dir(p))
    /\ seen' = [seen EXCEPT ![p] = Reading(work'[Dir(p)][Seg(p)])]
    /\ Finish(p, IF req[p].kind \in Releases /\ seen'[p].state = "free"
                 THEN "ok" ELSE "lost")
    /\ UNCHANGED <<clock, remoteVars, flying, req, want, ops, faults>>

\* A git command, a fetch after its last retry or a file operation fails and
\* the exception leaves the operation; the clone stays as it is.
Raise(p) ==
    /\ pc[p] \in Inside \ {"decide", "push"}
    /\ Fault
    /\ Finish(p, "raised")
    /\ UNCHANGED <<clock, remoteVars, flying, cloneVars, req, seen, want, ops>>

\* The process dies: the system drops its file lock, and what it believed is
\* gone.  A push in progress may still land.
Crash(p) ==
    /\ pc[p] \in Inside
    /\ Fault
    /\ Finish(p, "raised")
    /\ flying' = IF pc[p] = "push" THEN flying \cup {PushOf(p)} ELSE flying
    /\ claim' = [claim EXCEPT ![p] = [s \in Segments |-> 0]]
    /\ UNCHANGED <<clock, remote, tip, cloneVars, req, seen, want, ops>>

Step(p) ==
    \/ Lock(p) \/ Sync(p) \/ Decide(p) \/ Write(p) \/ Add(p) \/ Status(p)
    \/ Commit(p) \/ PushAccepted(p) \/ PushRejected(p) \/ Verify(p)
    \/ NoopVerify(p) \/ Resync(p) \/ Reread(p)

Next ==
    \/ Tick
    \/ \E m \in flying : Deliver(m)
    \/ \E p \in Procs :
          Start(p) \/ Step(p) \/ PushUnanswered(p) \/ Raise(p) \/ Crash(p)

Spec == Init /\ [][Next]_vars

\* An older harness on the same controller reads without taking the file
\* lock: its fetch and reset happen at any point of the operations above.
LegacyRead(c) ==
    /\ Synchronise(c)
    /\ UNCHANGED <<clock, remoteVars, flying, flock, pc, procVars, faults>>

LegacySpec == Init /\ [][Next \/ \E c \in Clones : LegacyRead(c)]_vars

-----------------------------------------------------------------------------
(* Properties *)

TypeOK ==
    /\ clock \in Nat
    /\ remote \in [Segments -> Leases]
    /\ tip \in Nat
    /\ flying \subseteq Pushes
    /\ base \in [Clones -> Nat]
    /\ origin \in [Clones -> [Segments -> Leases]]
    /\ head \in [Clones -> [Segments -> Leases]]
    /\ index \in [Clones -> [Segments -> Leases]]
    /\ work \in [Clones -> [Segments -> Leases]]
    /\ flock \in [Clones -> Procs \cup {NoProc}]
    /\ pc \in [Procs -> Places]
    /\ req \in [Procs -> Requests]
    /\ seen \in [Procs -> Leases]
    /\ want \in [Procs -> Leases]
    /\ result \in [Procs -> Results]
    /\ ops \in [Procs -> Nat]
    /\ faults \in Nat
    /\ claim \in [Procs -> [Segments -> Int]]

\* A process that was told it acquired or extended a segment (acquire and
\* extend returned ok) has that lease at the remote until the expiry it was
\* told, whatever other processes, crashes and late pushes do, unless its own
\* holder gives the lease up or somebody breaks it by force.
ClaimBacked ==
    \A p \in Procs, s \in Segments :
        clock < claim[p][s] =>
            /\ remote[s].state = "held"
            /\ remote[s].holder = Me(p)
            /\ claim[p][s] <= remote[s].expires

\* Two holders never both believe that they hold a segment: the promise of
\* the lease, across controllers and across processes of one controller.
MutualExclusion ==
    \A p, q \in Procs, s \in Segments :
        clock < claim[p][s] /\ clock < claim[q][s] => Me(p) = Me(q)

\* A commit moves the lock file of one segment only, even when a crashed
\* process left another segment's file behind in the clone: _commit_and_push
\* stages its own path.
CommitTouchesOneSegment ==
    [][\A s, t \in Segments :
          remote'[s] # remote[s] /\ remote'[t] # remote[t] => s = t]_vars

\* release answers ok only if the lease that it reread is not its own any
\* more; an older harness that resets the clone behind its back must not turn
\* the write into an empty success (_local_cache_lock, _commit_and_push).
ReleaseTruthful ==
    \A p \in Procs :
        pc[p] = "idle" /\ result[p] = "ok" /\ req[p].kind \in Releases
            => ~(seen[p].state = "held" /\ seen[p].holder = Me(p))

\* The store implements the abstract lease.
Lease == INSTANCE FleetLease WITH
    lease <- [s \in Segments |->
                [holder |-> remote[s].holder, expires |-> remote[s].expires]]
ImplementsLease == Lease!Spec

-----------------------------------------------------------------------------
(* The inductive invariant *)

\* A clone that is at the tip of the branch has the branch's lock files.
CloneAtTip ==
    \A c \in Clones : base[c] <= tip /\ (base[c] = tip => origin[c] = remote)

\* A process inside an operation owns its clone.
OwnsClone == \A p \in Procs : pc[p] \in Inside => flock[Dir(p)] = p

\* The lease l may be replaced, at or after the present clock, by the write
\* of kind `kind` of process p.
MayReplace(l, kind, p) ==
    \/ kind = "break"
    \/ l.state # "held"
    \/ l.holder = Me(p)
    \/ kind = "acquire" /\ l.expires <= clock

\* The lease l is one that process p writes in an operation of kind `kind`.
Written(l, kind, p) ==
    IF kind \in Writes
    THEN /\ l \in HeldLeases
         /\ l.holder = Me(p)
         /\ \E t \in 0..clock, ttl \in Ttls : l.expires = t + ttl
    ELSE kind \in Releases /\ l = Free

Deciding == {"decide", "write", "add", "status", "commit", "push"}
Writing  == {"write", "add", "status", "commit", "push", "verify", "noop",
             "resync", "reread"}
Staged   == {"status", "commit", "push", "verify", "noop"}

\* What process p knows and has prepared, by its place in the operation.
Prepared(p) ==
    LET c == Dir(p)  s == Seg(p) IN
    /\ pc[p] \in Deciding =>
          /\ seen[p].state # "absent"
          /\ origin[c][s] # Absent => seen[p] = Reading(origin[c][s])
    /\ pc[p] \in {"decide", "write", "add"} => index[c] = origin[c]
    /\ pc[p] \in Deciding \ {"push"} => head[c] = origin[c]
    /\ pc[p] \in Writing => Written(want[p], req[p].kind, p)
    /\ pc[p] \in Writing \cap Deciding => MayReplace(seen[p], req[p].kind, p)
    /\ pc[p] = "add" => work[c][s] = want[p]
    /\ pc[p] \in {"status", "commit"} =>
          index[c] = [origin[c] EXCEPT ![s] = want[p]]
    /\ pc[p] = "push" => head[c] = [origin[c] EXCEPT ![s] = want[p]]
    /\ pc[p] \in Staged => index[c][s] = want[p]

\* A push built on the tip of the branch replaces one lease, lawfully.
Lawful(m) ==
    /\ m.base <= tip
    /\ Written(m.lease, m.kind, m.by)
    /\ m.base = tip =>
          /\ m.tree = [remote EXCEPT ![m.seg] = m.lease]
          /\ MayReplace(remote[m.seg], m.kind, m.by)

StoreInv ==
    /\ TypeOK
    /\ CloneAtTip
    /\ OwnsClone
    /\ \A p \in Procs : Prepared(p)
    /\ \A m \in flying : Lawful(m)
    /\ ClaimBacked

-----------------------------------------------------------------------------
(* What the documentation says and the code does not keep *)

\* read: the latest lock, free if absent.
ReadsLatest ==
    \A p \in Procs :
        pc[p] = "decide" /\ req[p].kind = "read" /\ base[Dir(p)] = tip
            => seen[p] = Reading(remote[Seg(p)])
=============================================================================
