---------------------------- MODULE DataPlaneTest ----------------------------
(***************************************************************************)
(* The tests that prove how media crosses the cluster's DATA plane         *)
(* (_run_vision_data_plane_test and the workload of                        *)
(* _run_audio_speech_pressure_test in                                      *)
(* src/src/skulk_test_harness/orchestrator.py): requests are sent through  *)
(* an API owner that serves the model and through owners that do not, and  *)
(* the counters that every owner keeps are read before and after.          *)
(*                                                                         *)
(* In a vision test the media flows from the owner to every serving node;  *)
(* under speech pressure it flows from the serving node to the owner.  A   *)
(* stream opens, is published when it leaves its node, is answered, and is *)
(* closed at its sinks before or after the answer.  A stream may be lost,  *)
(* a node restarted, its API unreachable or the model moved, and a stream  *)
(* of an earlier test may still be open.                                   *)
(***************************************************************************)
EXTENDS Harness, Integers, FiniteSets, FiniteSetsExt

CONSTANTS
    Nodes,          \* the nodes of the cluster: numbers, 0 is none of them
    FirstServing,   \* the nodes that serve the model at first
    Requests,       \* the requests of a pressure test: natural numbers
    MaxDataFaults   \* bound: lost streams, restarts, moves, lost routes, waits
                    \* that outlast their deadline

ASSUME DataAssumption ==
    /\ Nodes \subseteq Nat \ {0} /\ IsFiniteSet(Nodes)
    /\ FirstServing \subseteq Nodes /\ FirstServing # {}
    /\ {1, 2} \subseteq Requests /\ Requests \subseteq Nat \ {0}
    /\ IsFiniteSet(Requests) /\ MaxDataFaults \in Nat

VARIABLES
    plan,      \* the test: kind, near (local_remote), diag (diagnostics asserted)
    serving,   \* the nodes of the ready placement
    reach,     \* the nodes whose API answers
    tally,     \* the DATA counters of every node
    stream,    \* the streams: where each runs and what became of it
    reply,     \* what the client of each request got
    owners,    \* the API owners selected: near the model, and far from it
    watched,   \* the owners whose diagnostics are read
    sinksSeen, \* serving_node_ids as the test read them
    before, after,  \* the two snapshots
    issues,    \* the kinds of issues
    dataFaults

dataVars == <<plan, serving, reach, tally, stream, reply, owners, watched,
              sinksSeen, before, after, issues, dataFaults>>
harness == <<pc, plan, owners, watched, sinksSeen, before, after, issues>>
dataCluster == <<serving, reach, tally, stream, reply>>

-----------------------------------------------------------------------------
(* Streams and counters *)

Stale == 0
Streams == Requests \cup {Stale}
NoStream == [state |-> "none", from |-> 0, to |-> {}]
Zero == [local |-> 0, queued |-> 0, sent |-> 0, closed |-> 0, bad |-> 0]
NoSnapshot == [n \in {} |-> Zero]
NoOwners == [near |-> 0, far |-> 0]
NoPlan == [kind |-> "vision", near |-> TRUE, diag |-> TRUE]

Rank0 == Min(serving)
OwnerOf(r) == IF r % 2 = 1 THEN owners.near ELSE owners.far

Open(r) == stream[r].state \in {"open", "published"}
Touches(r, n) == n = stream[r].from \/ n \in stream[r].to
Live(n) == \E r \in Streams : Open(r) /\ Touches(r, n)

\* One owner's snapshot: its counters and whether a gauge is up.
Snapshot(n) == [count |-> tally[n], live |-> Live(n)]
Capture(nodes) == [n \in nodes |-> Snapshot(n)]

Count(n, field, k) == [tally EXCEPT ![n][field] = @ + k]

DataFault == dataFaults < MaxDataFaults /\ dataFaults' = dataFaults + 1

-----------------------------------------------------------------------------
(* The cluster *)

\* The node of the stream is the only one to know what it sent where.
OpenStream(r, from, to) ==
    /\ stream' = [stream EXCEPT ![r] = [state |-> "open", from |-> from, to |-> to]]
    /\ tally' = [tally EXCEPT
                   ![from].local  = @ + IF from \in to THEN 1 ELSE 0,
                   ![from].queued = @ + Cardinality(to \ {from})]

Publish(r) ==
    /\ stream[r].state = "open"
    /\ stream' = [stream EXCEPT ![r].state = "published"]
    /\ tally' = Count(stream[r].from, "sent",
                      Cardinality(stream[r].to \ {stream[r].from}))
    /\ UNCHANGED <<harness, serving, reach, reply, dataFaults>>

Close(r) ==
    /\ stream[r].state = "published"
    /\ stream' = [stream EXCEPT ![r].state = "closed"]
    /\ tally' = [n \in Nodes |-> [tally[n] EXCEPT !.closed =
                   @ + IF n \in stream[r].to THEN 1 ELSE 0]]
    /\ UNCHANGED <<harness, serving, reach, reply, dataFaults>>

\* The client's answer, good or short of what the test asks.
Reply(r) ==
    /\ stream[r].state \in {"published", "closed"} /\ reply[r] = "sent"
    /\ \/ reply' = [reply EXCEPT ![r] = "good"] /\ UNCHANGED dataFaults
       \/ DataFault /\ reply' = [reply EXCEPT ![r] = "short"]
    /\ UNCHANGED <<harness, serving, reach, tally, stream>>

\* A stream is lost: one of its nodes counts an anomaly, the client fails or
\* never notices.
LoseStream(r) ==
    /\ Open(r) /\ DataFault
    /\ stream' = [stream EXCEPT ![r].state = "lost"]
    /\ \E n \in stream[r].to \cup {stream[r].from} : tally' = Count(n, "bad", 1)
    /\ reply' \in {[reply EXCEPT ![r] = IF @ = "sent" THEN what ELSE @] :
                      what \in {"good", "failed"}}
    /\ UNCHANGED <<harness, serving, reach>>

\* A node restarts: its counters begin again, its streams are gone.
RestartNode(n) ==
    /\ DataFault
    /\ tally' = [tally EXCEPT ![n] = Zero]
    /\ stream' = [r \in Streams |-> IF Open(r) /\ Touches(r, n)
                                    THEN [stream[r] EXCEPT !.state = "lost"]
                                    ELSE stream[r]]
    /\ reply' = [r \in Streams |-> IF Open(r) /\ Touches(r, n) /\ reply[r] = "sent"
                                   THEN "failed" ELSE reply[r]]
    /\ UNCHANGED <<harness, serving, reach>>

\* The model moves to other nodes, or the route to a node is lost.
Shift ==
    /\ DataFault
    /\ \/ serving' \in {s \in SUBSET Nodes : s # {} /\ s # serving} /\ UNCHANGED reach
       \/ \E n \in reach : reach' = reach \ {n} /\ UNCHANGED serving
    /\ UNCHANGED <<harness, tally, stream, reply>>

-----------------------------------------------------------------------------
(* The harness *)

Say(kinds) == issues' = issues \cup kinds

DataIdle ==
    /\ plan = NoPlan
    /\ serving = FirstServing /\ reach = Nodes
    /\ tally = [n \in Nodes |-> Zero]
    /\ stream = [r \in Streams |-> NoStream]
    /\ reply = [r \in Streams |-> "none"]
    /\ owners = NoOwners /\ watched = {} /\ sinksSeen = {}
    /\ before = NoSnapshot /\ after = NoSnapshot
    /\ issues = {} /\ dataFaults = 0

\* The cluster may have served before, and a stream may still be open.
StartData ==
    /\ pc = "idle" /\ pc' = "select"
    /\ plan' \in [kind : {"vision"}, near : {TRUE}, diag : {TRUE}]
                 \cup [kind : {"pressure"}, near : BOOLEAN, diag : BOOLEAN]
    /\ \E old \in BOOLEAN :
          /\ tally' = [n \in Nodes |-> IF old THEN [Zero EXCEPT !.closed = 1]
                                              ELSE Zero]
          /\ stream' = IF old THEN [stream EXCEPT ![Stale] = [state |-> "published",
                                        from |-> Rank0, to |-> {Min(Nodes)}]]
                              ELSE stream
    /\ UNCHANGED <<serving, reach, reply, owners, watched, sinksSeen, before,
                   after, issues, dataFaults>>

Near == reach \cap serving
Far  == reach \ serving

\* _select_model_owners: the lowest serving owner and the lowest that does not
\* serve, or the first two of any kind; the reads are repeated a few times
\* before the test gives up.
Select ==
    /\ pc = "select"
    /\ IF plan.near
       THEN \/ /\ Near # {} /\ Far # {}
               /\ owners' = [near |-> Min(Near), far |-> Min(Far)]
               /\ pc' = IF plan.kind = "vision" THEN "watch" ELSE "baseline"
               /\ UNCHANGED issues
            \/ /\ Near = {} \/ Far = {}
               /\ Say({"topology"}) /\ pc' = "dataVerdict" /\ UNCHANGED owners
       ELSE \/ /\ Cardinality(reach) >= 2
               /\ owners' = [near |-> Min(reach), far |-> Min(reach \ {Min(reach)})]
               /\ pc' = "baseline" /\ UNCHANGED issues
            \/ /\ Cardinality(reach) < 2
               /\ Say({"topology"}) /\ pc' = "dataVerdict" /\ UNCHANGED owners
    /\ watched' = {owners'.near, owners'.far} \ {0}
    /\ UNCHANGED <<plan, sinksSeen, before, after, dataCluster, dataFaults>>

\* The vision test reads the serving nodes again; each needs a route.
Watch ==
    /\ pc = "watch"
    /\ sinksSeen' = serving
    /\ IF serving \subseteq reach
       THEN /\ watched' = watched \cup serving
            /\ pc' = "baseline" /\ UNCHANGED issues
       ELSE Say({"topology"}) /\ pc' = "dataVerdict" /\ UNCHANGED watched
    /\ UNCHANGED <<plan, owners, before, after, dataCluster, dataFaults>>

\* The first snapshot.  It fails when a route is lost; a vision test ends
\* there, a pressure test goes on without evidence.  A cluster that is not
\* idle ends either.
Baseline ==
    /\ pc = "baseline"
    /\ IF ~plan.diag
       THEN pc' = "work" /\ UNCHANGED <<before, issues>>
       ELSE IF ~(watched \subseteq reach)
       THEN /\ Say({"diagnostics"}) /\ UNCHANGED before
            /\ pc' = IF plan.kind = "vision" THEN "dataVerdict" ELSE "work"
       ELSE /\ before' = Capture(watched)
            /\ IF \E n \in watched : before'[n].live
               THEN Say({"busy"}) /\ pc' = "dataVerdict"
               ELSE pc' = "work" /\ UNCHANGED issues
    /\ UNCHANGED <<plan, owners, watched, sinksSeen, after, dataCluster, dataFaults>>

Planned == IF plan.kind = "vision" THEN {1, 2} ELSE Requests
Answered(r) == reply[r] \in {"good", "short", "failed"}

\* A vision test sends one request after the other, a pressure test all.
Send(r) ==
    /\ pc = "work" /\ r \in Planned /\ reply[r] = "none"
    /\ plan.kind = "vision" => \A q \in 1..(r - 1) : Answered(q)
    /\ IF OwnerOf(r) \in reach
       THEN /\ reply' = [reply EXCEPT ![r] = "sent"]
            /\ IF plan.kind = "vision" THEN OpenStream(r, OwnerOf(r), serving)
                                       ELSE OpenStream(r, Rank0, {OwnerOf(r)})
       ELSE reply' = [reply EXCEPT ![r] = "failed"] /\ UNCHANGED <<stream, tally>>
    /\ UNCHANGED <<harness, serving, reach, dataFaults>>

Worked ==
    /\ pc = "work" /\ \A r \in Planned : Answered(r)
    /\ Say(IF \E r \in Planned : reply[r] # "good" THEN {"request"} ELSE {})
    /\ pc' = IF before # NoSnapshot THEN "settle" ELSE "dataVerdict"
    /\ UNCHANGED <<plan, owners, watched, sinksSeen, before, after, dataCluster,
                   dataFaults>>

\* Requests that the client saw to their end, whatever their score.
Successful == Cardinality({r \in Planned : reply[r] \in {"good", "short"}})

Delta(n, field) == after'[n].count[field] - before[n].count[field]
Fields == DOMAIN Zero

\* What either score finds in an owner: a counter that went back, a gauge that
\* is still up, an anomaly.
Blemished(n) ==
    \/ \E f \in Fields : Delta(n, f) < 0
    \/ after'[n].live
    \/ Delta(n, "bad") > 0

\* Mutant: media of the serving owner need not have taken the short way.
VisionAnyWay ==
    \/ \E n \in sinksSeen : Delta(n, "closed") < Successful
    \/ Delta(owners.far, "sent") <= 0
    \/ Delta(owners.far, "queued") # Delta(owners.far, "sent")

\* _score_vision_media_diagnostics
VisionShort ==
    \/ Delta(owners.near, "local") <= 0
    \/ \E n \in sinksSeen : Delta(n, "closed") < Successful
    \/ Delta(owners.far, "sent") <= 0
    \/ Delta(owners.far, "queued") # Delta(owners.far, "sent")

\* _score_data_plane_diagnostics; the owners watched are these two.
PressureShort ==
    \/ Delta(owners.near, "closed") + Delta(owners.far, "closed") < Successful
    \/ plan.near /\ ( \/ Delta(owners.near, "local") <= 0
                      \/ Delta(owners.near, "sent") <= 0 )

Score ==
    (IF \E n \in watched : Blemished(n) THEN {"blemish"} ELSE {})
    \cup (IF (plan.kind = "vision" /\ VisionShort)
              \/ (plan.kind = "pressure" /\ PressureShort)
          THEN {"routing"} ELSE {})

\* Mutant: the second snapshot does not wait for the owners to be idle.
Unawaited == UNCHANGED dataFaults

\* The owners are idle, or they are not at the deadline.
Awaited ==
    \/ (\A n \in watched : ~after'[n].live) /\ UNCHANGED dataFaults
    \/ (\E n \in watched : after'[n].live) /\ DataFault

\* The second snapshot is taken when the owners are idle, or at the deadline.
Settle ==
    /\ pc = "settle" /\ pc' = "dataVerdict"
    /\ \/ /\ watched \subseteq reach
          /\ after' = Capture(watched)
          /\ Awaited
          /\ Say(Score)
       \/ /\ ~(watched \subseteq reach)
          /\ Say({"diagnostics"}) /\ UNCHANGED <<after, dataFaults>>
    /\ UNCHANGED <<plan, owners, watched, sinksSeen, before, dataCluster>>

DataPassed == issues = {}

FinishData ==
    /\ pc = "dataVerdict" /\ pc' = "idle"
    /\ plan' = NoPlan
    /\ serving' = FirstServing /\ reach' = Nodes
    /\ tally' = [n \in Nodes |-> Zero]
    /\ stream' = [r \in Streams |-> NoStream]
    /\ reply' = [r \in Streams |-> "none"]
    /\ owners' = NoOwners /\ watched' = {} /\ sinksSeen' = {}
    /\ before' = NoSnapshot /\ after' = NoSnapshot
    /\ issues' = {} /\ dataFaults' = 0

DataSteps == {"select", "watch", "baseline", "work", "settle"}

DataPlane ==
    /\ pc \in DataSteps
    /\ \/ \E r \in Streams : Publish(r) \/ Close(r) \/ Reply(r) \/ LoseStream(r)
       \/ \E n \in Nodes : RestartNode(n)
       \/ Shift

DataNext ==
    \/ StartData \/ Select \/ Watch \/ Baseline \/ Worked \/ Settle \/ FinishData
    \/ \E r \in Requests : Send(r)
    \/ DataPlane

DataSpec == pc = "idle" /\ DataIdle /\ [][DataNext]_<<pc, dataVars>>

-----------------------------------------------------------------------------
(* Properties *)

\* A passed test that asserts the diagnostics saw what it claims, whatever
\* moved, restarted or was late meanwhile: all its requests were answered, none
\* of its streams was lost or is still open, one took the short way inside the
\* serving node and one crossed the DATA plane.
PassIsEvidence ==
    pc = "dataVerdict" /\ DataPassed /\ plan.diag =>
        /\ \A r \in Planned : reply[r] = "good" /\ stream[r].state = "closed"
        /\ plan.near =>
              /\ \E r \in Planned : stream[r].from \in stream[r].to
              /\ \E r \in Planned : stream[r].to \ {stream[r].from} # {}

\* A test of a cluster in which nothing went wrong fails only because the
\* cluster was not idle when it began.
NoFalseAlarm ==
    pc = "dataVerdict" /\ dataFaults = 0 => issues \subseteq {"busy"}
=============================================================================
