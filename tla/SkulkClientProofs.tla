--------------------------- MODULE SkulkClientProofs ---------------------------
(***************************************************************************)
(* Proofs about the calls of SkulkClient, for any number of attempts, any  *)
(* length of a stream, and any nodes and routes, and about its realtime    *)
(* conversation, for turns of any length.                                  *)
(***************************************************************************)
EXTENDS SkulkClient, RealtimeSession, SequenceTheorems, TLAPS

Steps == {"idle", "call", "stream", "discover", "fill", "returned"}

\* The step that a call is at says how much of it can have happened: until an
\* answer comes, what is not read has not run, and a stream that is still read
\* ran once.
AtStep ==
    /\ pc \in Steps
    /\ pc = "idle" => ClientIdle
    /\ pc \in {"discover", "fill"} <=> (call.kind = "owners" /\ pc \notin {"returned", "idle"})
    /\ pc = "stream" => call.kind \in StreamCalls /\ wire.ran = 1
    /\ pc = "call" => /\ call.kind \notin {"none", "owners"} /\ returned = "nothing"
                      /\ call.kind \notin Reads => wire.ran = 0
                      /\ call.kind \in StreamCalls \cup Posts => wire = Unsent
    /\ pc # "returned" => returned = "nothing"
    /\ pc = "call" => wire.attempts < MaxAttempts /\ heard = Unheard
    /\ call.cut > 0 => call.kind \in {"chat", "transcript"}

ClientInv == ClientTypeOK /\ AtStep /\ MutationOnce /\ CutIsExact

vars == <<pc, clientVars>>

LEMMA KindsApart ==
    /\ Reads \cap (Mutations \cup Posts \cup StreamCalls) = {}
    /\ Mutations \cap (Posts \cup StreamCalls) = {}
    /\ Posts \cap StreamCalls = {}
    /\ {"none", "owners"} \cap (Reads \cup Mutations \cup Posts \cup StreamCalls) = {}
    /\ {"chat", "transcript"} \subseteq StreamCalls
BY DEF Reads, Mutations, Changes, JsonPosts, Posts, EditPosts, TranscriptPosts,
       StreamCalls, ChatStreams, SpeechStreams, TranscriptStreams

-----------------------------------------------------------------------------
(* Requests *)

LEMMA InitClient == pc = "idle" /\ ClientIdle => ClientInv
<1> SUFFICES ASSUME pc = "idle", ClientIdle PROVE ClientInv
    OBVIOUS
<1>1. ClientTypeOK
      BY ClientAssumption DEF ClientIdle, ClientTypeOK, Calls, Endings, NoCall, Unsent, Unheard, Unrouted
<1>2. AtStep
      BY KindsApart DEF ClientIdle, AtStep, Steps, NoCall
<1>3. MutationOnce
      BY KindsApart DEF ClientIdle, MutationOnce, NoCall, Unsent
<1>c. CutIsExact
      BY DEF ClientIdle, CutIsExact, NoCall
<1> QED BY <1>c, <1>1, <1>2, <1>3 DEF ClientInv

LEMMA StartKeeps == ClientInv /\ StartCall => ClientInv'
<1> SUFFICES ASSUME ClientInv, StartCall PROVE ClientInv'
    OBVIOUS
<1> USE DEF ClientInv
<1>1. PICK kind \in Reads \cup Mutations \cup Posts \cup StreamCalls \cup {"owners"},
           cut \in 0..2 :
              /\ cut > 0 => kind \in {"chat", "transcript"}
              /\ call' = [kind |-> kind, cut |-> cut]
              /\ IF kind = "owners"
                 THEN pc' = "discover" /\ serves' \in [Routes -> Peers \cup {Self, "nobody"}]
                 ELSE pc' = "call" /\ UNCHANGED serves
      BY DEF StartCall
<1>2. ClientIdle /\ UNCHANGED <<wire, heard, apiOwners, returned>>
      BY DEF StartCall, AtStep
<1>3. ClientTypeOK'
      BY <1>1, <1>2 DEF ClientTypeOK, Calls
<1>4. AtStep'
      BY <1>1, <1>2, KindsApart, ClientAssumption DEF AtStep, Steps, ClientIdle, Unsent
<1>5. MutationOnce'
      BY <1>1, <1>2 DEF MutationOnce, ClientIdle, Unsent
<1>c. CutIsExact'
      BY <1>1, <1>2 DEF CutIsExact, ClientIdle
<1> QED BY <1>c, <1>3, <1>4, <1>5

\* The server runs what does not reach it not at all, and what it answers once.
LEMMA RunsBounded ==
    ASSUME NEW fate \in Fates, NEW n \in Runs(fate)
    PROVE  /\ n \in {0, 1}
           /\ fate = "unconnected" => n = 0
           /\ fate = "answered" => n = 1
BY DEF Fates, Runs

\* What is not read is tried again only if it did not get away.
LEMMA RetriedUnsent ==
    ASSUME NEW kind, NEW fate \in Fates, kind \notin Reads, Retries(kind, fate)
    PROVE  fate = "unconnected" /\ kind \in Mutations
BY DEF Retries

LEMMA AttemptKeeps == ClientInv /\ Attempt => ClientInv'
<1> SUFFICES ASSUME ClientInv, Attempt PROVE ClientInv'
    OBVIOUS
<1> USE DEF ClientInv
<1>f. PICK fate \in Fates : \E n \in Runs(fate) :
          /\ wire' = [attempts |-> wire.attempts + 1, ran |-> wire.ran + n]
          /\ \/ fate = "answered" /\ \E how \in {"value", "refused", "unparsed"} : Return(how)
             \/ /\ fate # "answered"
                /\ IF Retries(call.kind, fate) /\ wire.attempts + 1 < MaxAttempts
                   THEN UNCHANGED <<pc, returned>>
                   ELSE Return(IF call.kind \in Posts THEN "refused" ELSE "broken")
      BY DEF Attempt
<1>1. PICK n \in Runs(fate) :
          /\ wire' = [attempts |-> wire.attempts + 1, ran |-> wire.ran + n]
          /\ \/ fate = "answered" /\ \E how \in {"value", "refused", "unparsed"} : Return(how)
             \/ /\ fate # "answered"
                /\ IF Retries(call.kind, fate) /\ wire.attempts + 1 < MaxAttempts
                   THEN UNCHANGED <<pc, returned>>
                   ELSE Return(IF call.kind \in Posts THEN "refused" ELSE "broken")
      BY <1>f
<1>2. /\ pc = "call" /\ call.kind \notin StreamCalls
      /\ UNCHANGED <<call, heard, serves, apiOwners>>
      BY DEF Attempt
<1>3. /\ wire.attempts \in 0..MaxAttempts /\ wire.attempts < MaxAttempts
      /\ wire.ran \in Nat /\ MaxAttempts \in Nat
      BY <1>2, ClientAssumption DEF ClientTypeOK, AtStep
<1>4. n \in {0, 1} /\ (fate = "unconnected" => n = 0) /\ (fate = "answered" => n = 1)
      BY RunsBounded
<1>5. /\ wire'.attempts = wire.attempts + 1 /\ wire'.ran = wire.ran + n
      /\ wire' \in [attempts : 0..MaxAttempts, ran : Nat]
      BY <1>1, <1>3, <1>4
<1>6. call.kind \notin {"none", "owners"} /\ returned = "nothing"
      BY <1>2 DEF AtStep
<1>c. CutIsExact'
      BY <1>2, KindsApart DEF CutIsExact, AtStep
<1>7. CASE fate = "answered"
  <2>1. pc' = "returned" /\ returned' \in {"value", "refused", "unparsed"}
        BY <1>1, <1>7 DEF Return
  <2>2. ClientTypeOK'
        BY <1>2, <1>5, <2>1 DEF ClientTypeOK, Endings
  <2>3. AtStep'
        BY <1>2, <1>6, <2>1 DEF AtStep, Steps
  <2>4. MutationOnce'
        BY <1>2, <1>3, <1>4, <1>5, <1>6, <1>7, KindsApart DEF MutationOnce, AtStep
  <2> QED BY <1>c, <2>2, <2>3, <2>4
<1>8. CASE fate # "answered" /\ Retries(call.kind, fate) /\ wire.attempts + 1 < MaxAttempts
  <2>1. UNCHANGED <<pc, returned>>
        BY <1>1, <1>8
  <2>2. call.kind \notin Reads => wire'.ran = 0 /\ call.kind \in Mutations
    <3> SUFFICES ASSUME call.kind \notin Reads
                 PROVE  wire'.ran = 0 /\ call.kind \in Mutations
        OBVIOUS
    <3>1. fate = "unconnected" /\ call.kind \in Mutations
          BY <1>8, RetriedUnsent
    <3>2. wire.ran = 0
          BY <1>2 DEF AtStep
    <3> QED BY <3>1, <3>2, <1>4, <1>5
  <2>3. ClientTypeOK'
        BY <1>2, <1>5, <2>1 DEF ClientTypeOK
  <2>4. call.kind \notin StreamCalls \cup Posts
        BY <1>2, <1>8, KindsApart DEF Retries
  <2>5. AtStep'
        BY <1>2, <1>3, <1>5, <1>6, <1>8, <2>1, <2>2, <2>4 DEF AtStep, Steps
  <2>6. MutationOnce'
        BY <1>2, <1>6, <2>1, <2>2, KindsApart DEF MutationOnce
  <2> QED BY <1>c, <2>3, <2>5, <2>6
<1>9. CASE fate # "answered" /\ ~(Retries(call.kind, fate) /\ wire.attempts + 1 < MaxAttempts)
  <2>1. pc' = "returned" /\ returned' \in {"refused", "broken"}
        BY <1>1, <1>9 DEF Return
  <2>2. ClientTypeOK'
        BY <1>2, <1>5, <2>1 DEF ClientTypeOK, Endings
  <2>3. AtStep'
        BY <1>2, <1>6, <2>1 DEF AtStep, Steps
  <2>4. MutationOnce'
        BY <1>2, <1>3, <1>4, <1>5, <2>1, KindsApart DEF MutationOnce, AtStep
  <2> QED BY <1>c, <2>2, <2>3, <2>4
<1> QED BY <1>7, <1>8, <1>9

-----------------------------------------------------------------------------
(* Streams *)

LEMMA BeginKeeps == ClientInv /\ BeginStream => ClientInv'
<1> SUFFICES ASSUME ClientInv, BeginStream PROVE ClientInv'
    OBVIOUS
<1> USE DEF ClientInv
<1>f. PICK fate \in Fates : \E n \in Runs(fate) :
          /\ wire' = [attempts |-> 1, ran |-> n]
          /\ IF fate = "answered" THEN pc' = "stream" /\ UNCHANGED returned ELSE Return("refused")
      BY DEF BeginStream
<1>1. PICK n \in Runs(fate) :
          /\ wire' = [attempts |-> 1, ran |-> n]
          /\ IF fate = "answered" THEN pc' = "stream" /\ UNCHANGED returned ELSE Return("refused")
      BY <1>f
<1>2. /\ pc = "call" /\ call.kind \in StreamCalls
      /\ UNCHANGED <<call, heard, serves, apiOwners>>
      BY DEF BeginStream
<1>3. n \in {0, 1} /\ (fate = "answered" => n = 1)
      BY RunsBounded
<1>4. returned = "nothing" /\ call.kind \notin {"none", "owners"}
      BY <1>2 DEF AtStep
<1>5. wire' \in [attempts : 0..MaxAttempts, ran : Nat] /\ wire'.ran = n
      BY <1>1, <1>3, ClientAssumption
<1>6. \/ pc' = "stream" /\ returned' = "nothing" /\ wire'.ran = 1
      \/ pc' = "returned" /\ returned' = "refused"
      BY <1>1, <1>3, <1>4, <1>5 DEF Return
<1>7. ClientTypeOK'
      BY <1>2, <1>5, <1>6 DEF ClientTypeOK, Endings
<1>8. AtStep'
      BY <1>2, <1>4, <1>6 DEF AtStep, Steps
<1>9. MutationOnce'
      BY <1>2, <1>6, KindsApart DEF MutationOnce
<1>c. CutIsExact'
      BY <1>2, <1>4, <1>6 DEF CutIsExact, AtStep, Unheard, ClientTypeOK, Calls
<1> QED BY <1>c, <1>7, <1>8, <1>9

LEMMA FeedKeeps == ClientInv /\ FeedItem => ClientInv'
<1> SUFFICES ASSUME ClientInv, FeedItem PROVE ClientInv'
    OBVIOUS
<1> USE DEF ClientInv
<1>1. /\ heard' \in [items : Nat, chunks : Nat]
      /\ heard'.chunks \in {heard.chunks, heard.chunks + 1}
  <2>1. heard.items \in Nat /\ heard.chunks \in Nat
        BY DEF ClientTypeOK
  <2>2. \E d \in {0, 1} : heard' = [items |-> heard.items + 1, chunks |-> heard.chunks + d]
        BY DEF FeedItem
  <2> QED BY <2>1, <2>2
<1>2. pc = "stream" /\ UNCHANGED <<call, wire, serves, apiOwners>>
      BY DEF FeedItem
<1>3. UNCHANGED <<pc, returned>> \/ (pc' = "returned" /\ returned' = "cut")
      BY DEF FeedItem, Return
<1>4. ClientTypeOK'
      BY <1>1, <1>2, <1>3 DEF ClientTypeOK, Endings
<1>5. AtStep'
      BY <1>2, <1>3, KindsApart DEF AtStep, Steps
<1>6. MutationOnce'
      BY <1>2, <1>3 DEF MutationOnce
<1>c. CutIsExact'
      BY <1>1, <1>2, <1>3 DEF CutIsExact, FeedItem, Return, AtStep, ClientTypeOK, Calls
<1> QED BY <1>c, <1>4, <1>5, <1>6

LEMMA EndKeeps == ClientInv /\ EndStream => ClientInv'
<1> SUFFICES ASSUME ClientInv, EndStream PROVE ClientInv'
    OBVIOUS
<1> USE DEF ClientInv
<1>1. pc = "stream" /\ UNCHANGED <<call, wire, heard, serves, apiOwners>>
      BY DEF EndStream
<1>2. pc' = "returned" /\ returned' \in {"value", "refused", "unparsed"}
      BY DEF EndStream, Return
<1>3. ClientTypeOK'
      BY <1>1, <1>2 DEF ClientTypeOK, Endings
<1>4. AtStep'
      BY <1>1, <1>2, KindsApart DEF AtStep, Steps
<1>5. MutationOnce'
      BY <1>1, KindsApart DEF MutationOnce, AtStep, ClientTypeOK
<1>c. CutIsExact'
      BY <1>1, <1>2 DEF CutIsExact, AtStep
<1> QED BY <1>c, <1>3, <1>4, <1>5

-----------------------------------------------------------------------------
(* Routes *)

\* The steps that look for owners leave the request alone.
LEMMA SearchKeeps == ClientInv /\ (FirstOwner \/ Discover \/ FillIn) => ClientInv'
<1> SUFFICES ASSUME ClientInv, FirstOwner \/ Discover \/ FillIn PROVE ClientInv'
    OBVIOUS
<1> USE DEF ClientInv
<1>1. pc \in {"discover", "fill"} /\ UNCHANGED <<call, wire, heard, serves>>
      BY DEF FirstOwner, Discover, FillIn
<1>2. call.kind = "owners" /\ returned = "nothing"
      BY <1>1 DEF AtStep
<1>3. \/ pc' \in {"discover", "fill"} /\ returned' = "nothing"
      \/ pc' = "returned" /\ returned' \in {"value", "broken"}
      BY <1>1, <1>2 DEF FirstOwner, Discover, FillIn, Return
<1>4. apiOwners' \subseteq [node : Peers \cup {Self}, url : Routes \cup {"base"},
                           found : {"self", "diagnostics", "state"}]
      BY DEF FirstOwner, Discover, FillIn, Owner, ClientTypeOK
<1>5. ClientTypeOK'
      BY <1>1, <1>3, <1>4 DEF ClientTypeOK, Endings
<1>6. AtStep'
      BY <1>1, <1>2, <1>3, KindsApart DEF AtStep, Steps
<1>7. MutationOnce'
      BY <1>1, <1>2, KindsApart DEF MutationOnce
<1>c. CutIsExact'
      BY <1>1, <1>2 DEF CutIsExact, AtStep
<1> QED BY <1>c, <1>5, <1>6, <1>7

LEMMA FinishKeeps == ClientInv /\ FinishCall => ClientInv'
<1> SUFFICES ASSUME FinishCall PROVE ClientInv'
    BY DEF ClientInv
<1>1. pc' = "idle" /\ ClientIdle'
      BY DEF FinishCall, ClientIdle
<1>2. ClientTypeOK'
      BY <1>1, ClientAssumption
      DEF ClientIdle, ClientTypeOK, Calls, Endings, NoCall, Unsent, Unheard, Unrouted
<1>3. AtStep'
      BY <1>1, KindsApart DEF ClientIdle, AtStep, Steps, NoCall
<1>4. MutationOnce'
      BY <1>1, KindsApart DEF ClientIdle, MutationOnce, NoCall, Unsent
<1>c. CutIsExact'
      BY <1>1 DEF CutIsExact, ClientIdle, NoCall
<1> QED BY <1>c, <1>2, <1>3, <1>4 DEF ClientInv

-----------------------------------------------------------------------------
(* Theorems *)

LEMMA ClientStep == ClientInv /\ [ClientNext]_vars => ClientInv'
<1>1. ASSUME ClientInv, UNCHANGED vars PROVE ClientInv'
      BY <1>1 DEF vars, clientVars, ClientInv, ClientTypeOK, AtStep, MutationOnce, CutIsExact, ClientIdle
<1> QED BY <1>1, StartKeeps, AttemptKeeps, BeginKeeps, FeedKeeps, EndKeeps, SearchKeeps,
           FinishKeeps DEF ClientNext

\* The steps of a call go in the order that ClientInv says (_request_json and
\* the streams of client.py).
THEOREM ClientInvariant == ClientSpec => []ClientInv
<1>1. pc = "idle" /\ ClientIdle => ClientInv
      BY InitClient
<1> QED BY <1>1, ClientStep, PTL DEF ClientSpec, vars

\* The state of a call is well formed at every step.
THEOREM ClientTyped == ClientSpec => []ClientTypeOK
<1> QED BY ClientInvariant, PTL DEF ClientInv

\* With any number of attempts a mutation runs at most once.
THEOREM MutationsRunOnce == ClientSpec => []MutationOnce
<1> QED BY ClientInvariant, PTL DEF ClientInv

\* A stream is cut exactly at the chunk that it was to be cut after
\* (_ChatStreamParser and streaming_audio_transcription).
THEOREM StreamsCutInTime == ClientSpec => []CutIsExact
<1> QED BY ClientInvariant, PTL DEF ClientInv

\* A new owner at a free route, for which the node itself answers if the state
\* gave it, leaves the owners distinct.
LEMMA OwnerAdded ==
    ASSUME NEW node, NEW url, NEW found, OwnersDistinct, UNCHANGED serves,
           node \notin Known, FreeRoute(url), found = "state" => serves[url] = node,
           apiOwners' = apiOwners \cup {Owner(node, url, found)}
    PROVE  OwnersDistinct'
<1> DEFINE new == Owner(node, url, found)
<1>1. new.node = node /\ new.url = url /\ new.found = found
      BY DEF Owner
<1>2. \A o \in apiOwners : o.node # node /\ o.url # url
      BY DEF Known, FreeRoute
<1>3. \A o \in apiOwners' : o \in apiOwners \/ o = new
      OBVIOUS
<1> HIDE DEF new
<1>4. ASSUME NEW o \in apiOwners', NEW p \in apiOwners', o.node = p.node \/ o.url = p.url
      PROVE  o = p
      BY <1>1, <1>2, <1>3, <1>4 DEF OwnersDistinct
<1>5. ASSUME NEW o \in apiOwners', o.found = "state" PROVE serves'[o.url] = o.node
      BY <1>1, <1>3, <1>5 DEF OwnersDistinct
<1> QED BY <1>4, <1>5 DEF OwnersDistinct

LEMMA OwnersStep == ClientInv /\ OwnersDistinct /\ [ClientNext]_vars => OwnersDistinct'
<1> SUFFICES ASSUME ClientInv, OwnersDistinct, [ClientNext]_vars PROVE OwnersDistinct'
    OBVIOUS
<1>1. ASSUME UNCHANGED <<serves, apiOwners>> PROVE OwnersDistinct'
      BY <1>1 DEF OwnersDistinct
<1>2. CASE StartCall
      BY <1>2 DEF StartCall, ClientInv, AtStep, ClientIdle, OwnersDistinct
<1>3. CASE FinishCall
      BY <1>3 DEF FinishCall, OwnersDistinct
<1>4. CASE FirstOwner
  <2>1. CASE apiOwners' = {Owner(Self, "base", "self")}
        BY <2>1 DEF OwnersDistinct, Owner
  <2> QED BY <1>1, <1>4, <2>1 DEF FirstOwner
<1>5. CASE Discover
  <2>1. CASE \E node \in Peers \ Known, url \in Routes :
                FreeRoute(url) /\ apiOwners' = apiOwners \cup {Owner(node, url, "diagnostics")}
        BY <1>5, <2>1, OwnerAdded DEF Discover
  <2> QED BY <1>1, <1>5, <2>1 DEF Discover
<1>6. CASE FillIn
  <2>1. CASE \E node \in Peers \ Known, url \in Routes :
                /\ FreeRoute(url) /\ serves[url] = node
                /\ apiOwners' = apiOwners \cup {Owner(node, url, "state")}
        BY <1>6, <2>1, OwnerAdded DEF FillIn
  <2> QED BY <1>1, <1>6, <2>1 DEF FillIn
<1>7. CASE Attempt \/ BeginStream \/ FeedItem \/ EndStream \/ UNCHANGED vars
      BY <1>1, <1>7 DEF Attempt, BeginStream, FeedItem, EndStream, vars, clientVars
<1> QED BY <1>2, <1>3, <1>4, <1>5, <1>6, <1>7 DEF ClientNext

\* get_cluster_api_owners takes no node and no URL twice, however many there
\* are and whichever source gave them, and a route of the replicated state
\* leads to its node.
THEOREM RoutesDistinct == ClientSpec => []OwnersDistinct
<1>1. pc = "idle" /\ ClientIdle => OwnersDistinct
      BY DEF ClientIdle, OwnersDistinct
<1> QED BY <1>1, ClientInvariant, OwnersStep, PTL DEF ClientSpec, vars

-----------------------------------------------------------------------------
(* A realtime conversation *)

\* The talks that a test may ask for, and those that NeverFailsItself is about.
Talks == {t \in [kind : {"transcription", "conversation"}, turns : 1..MaxTurns,
                 barge : BOOLEAN] :
            /\ t.turns > 1 => t.kind = "conversation"
            /\ t.barge => t.turns > 1}
InScope == upsets = 0 /\ (talk.turns <= 2 \/ ~talk.barge)

Statuses == {"completed", "cancelled", "failed"}
Done(status) == [type |-> "done", status |-> status]
Events == [type : {"started", "stopped", "turn_in_progress", "transcript", "audio", "failed"}]
          \cup [type : {"done"}, status : Statuses]

\* A place in a conversation: a turn and how many of its six events, of which
\* the third, a rejected frame, may be left out, are over.
Points == (Nat \ {0}) \X (0..6)
UpTo(a, b) == a[1] < b[1] \/ (a[1] = b[1] /\ a[2] <= b[2])
Follows(a, b) ==
    IF b[2] = 1 THEN \/ a[2] = 0 /\ b[1] = a[1]
                     \/ a[2] = 6 /\ b[1] = a[1] + 1
    ELSE /\ b[1] = a[1]
         /\ \/ b[2] \in {2, 3, 5, 6} /\ a[2] = b[2] - 1
            \/ b[2] = 4 /\ a[2] \in {2, 3}

\* The event that leads to a place.  Only the first response may be cancelled.
Leads(e, b, barge) ==
    CASE b[2] = 1 -> e = Event("started")
      [] b[2] = 2 -> e = Event("stopped")
      [] b[2] = 3 -> e = Event("turn_in_progress")
      [] b[2] = 4 -> e = Event("transcript")
      [] b[2] = 5 -> e = Event("audio")
      [] b[2] = 6 -> e = Done("completed") \/ (e = Done("cancelled") /\ barge /\ b[1] = 1)
      [] OTHER    -> FALSE

\* The events under way lead from the client's place to the server's.
Road(r, events, c, s, barge) ==
    /\ r \in [1..(Len(events) + 1) -> Points]
    /\ r[1] = c /\ r[Len(events) + 1] = s
    /\ \A i \in 1..Len(events) : Follows(r[i], r[i + 1]) /\ Leads(events[i], r[i + 1], barge)
    /\ \A i \in 1..(Len(events) + 1) : UpTo(r[i], s)
Between(events, c, s, barge) == \E r : Road(r, events, c, s, barge)

LEMMA BetweenNothing ==
    ASSUME NEW c \in Points, NEW barge
    PROVE  Between(<<>>, c, c, barge)
<1> DEFINE r == [i \in 1..(Len(<<>>) + 1) |-> c]
<1>1. Len(<<>>) = 0
      OBVIOUS
<1>2. Road(r, <<>>, c, c, barge)
      BY <1>1 DEF Road, UpTo, Points
<1> QED BY <1>2 DEF Between

\* An event that the server tells.
LEMMA BetweenMore ==
    ASSUME NEW events \in Seq(Events), NEW c, NEW s \in Points, NEW barge,
           Between(events, c, s, barge),
           NEW b \in Points, Follows(s, b), NEW e \in Events, Leads(e, b, barge)
    PROVE  Between(events \o <<e>>, c, b, barge)
<1>1. PICK r : Road(r, events, c, s, barge)
      BY DEF Between
<1> DEFINE n == Len(events)
           more == events \o <<e>>
           q == [i \in 1..(n + 2) |-> IF i = n + 2 THEN b ELSE r[i]]
<1>2. n \in Nat /\ more \in Seq(Events) /\ Len(more) = n + 1
      /\ more[n + 1] = e /\ \A i \in 1..n : more[i] = events[i]
      OBVIOUS
<1>3. /\ r \in [1..(n + 1) -> Points] /\ r[1] = c /\ r[n + 1] = s
      /\ \A i \in 1..n : Follows(r[i], r[i + 1]) /\ Leads(events[i], r[i + 1], barge)
      /\ \A i \in 1..(n + 1) : UpTo(r[i], s)
      BY <1>1 DEF Road
<1>4. UpTo(s, b)
      BY DEF Follows, UpTo, Points
<1> HIDE DEF n, more
<1>5. q \in [1..(n + 2) -> Points] /\ q[n + 2] = b /\ q[n + 1] = s /\ q[1] = c
      /\ \A i \in 1..(n + 1) : q[i] = r[i]
      BY <1>2, <1>3
<1> HIDE DEF q
<1>6. ASSUME NEW i \in 1..(n + 1)
      PROVE  Follows(q[i], q[i + 1]) /\ Leads(more[i], q[i + 1], barge)
  <2>1. CASE i = n + 1
    <3>1. i + 1 = n + 2
          BY <1>2, <2>1
    <3> QED BY <1>2, <1>5, <2>1, <3>1
  <2>2. CASE i # n + 1
    <3>1. i \in 1..n /\ i + 1 \in 1..(n + 1)
          BY <1>2, <2>2
    <3> QED BY <1>2, <1>3, <1>5, <3>1
  <2> QED BY <2>1, <2>2
<1>7. ASSUME NEW i \in 1..(n + 2) PROVE UpTo(q[i], b)
  <2>1. CASE i = n + 2
        BY <1>5, <2>1 DEF UpTo, Points
  <2>2. CASE i # n + 2
    <3>1. i \in 1..(n + 1)
          BY <1>2, <2>2
    <3>2. UpTo(r[i], s) /\ r[i] \in Points /\ q[i] = r[i]
          BY <1>3, <1>5, <3>1
    <3>3. UpTo(r[i], b)
          BY <1>4, <3>2 DEF UpTo, Points
    <3> QED BY <3>2, <3>3
  <2> QED BY <2>1, <2>2
<1>8. Len(more) + 1 = n + 2
      BY <1>2
<1>9. Road(q, more, c, b, barge)
      BY <1>2, <1>5, <1>6, <1>7, <1>8 DEF Road
<1> QED BY <1>9 DEF Between, more

\* An event that the client receives.
LEMMA BetweenLess ==
    ASSUME NEW events \in Seq(Events), NEW c \in Points, NEW s, NEW barge,
           Between(events, c, s, barge), events # <<>>
    PROVE  \E b \in Points : /\ Follows(c, b) /\ Leads(Head(events), b, barge)
                             /\ Between(Tail(events), b, s, barge) /\ UpTo(b, s)
<1>1. PICK r : Road(r, events, c, s, barge)
      BY DEF Between
<1> DEFINE n == Len(events)
           rest == Tail(events)
           q == [i \in 1..n |-> r[i + 1]]
<1>2. /\ n \in Nat \ {0} /\ rest \in Seq(Events) /\ Len(rest) = n - 1
      /\ Head(events) = events[1] /\ \A i \in 1..(n - 1) : rest[i] = events[i + 1]
      OBVIOUS
<1>3. /\ r \in [1..(n + 1) -> Points] /\ r[1] = c /\ r[n + 1] = s
      /\ \A i \in 1..n : Follows(r[i], r[i + 1]) /\ Leads(events[i], r[i + 1], barge)
      /\ \A i \in 1..(n + 1) : UpTo(r[i], s)
      BY <1>1 DEF Road
<1> HIDE DEF n, rest
<1>4. r[2] \in Points /\ Follows(c, r[2]) /\ Leads(Head(events), r[2], barge) /\ UpTo(r[2], s)
  <2>1. 1 \in 1..n /\ 2 \in 1..(n + 1) /\ 1 + 1 = 2
        BY <1>2
  <2> QED BY <1>2, <1>3, <2>1
<1>5. q \in [1..n -> Points] /\ q[1] = r[2] /\ q[n] = s /\ \A i \in 1..n : q[i] = r[i + 1]
      BY <1>2, <1>3
<1> HIDE DEF q
<1>6. ASSUME NEW i \in 1..(n - 1)
      PROVE  Follows(q[i], q[i + 1]) /\ Leads(rest[i], q[i + 1], barge)
  <2>1. i \in 1..n /\ i + 1 \in 1..n
        BY <1>2
  <2> QED BY <1>2, <1>3, <1>5, <2>1
<1>7. ASSUME NEW i \in 1..n PROVE UpTo(q[i], s)
  <2>1. i + 1 \in 1..(n + 1)
        BY <1>2
  <2> QED BY <1>3, <1>5, <2>1
<1>8. Len(rest) + 1 = n
      BY <1>2
<1>9. Road(q, rest, r[2], s, barge)
      BY <1>2, <1>5, <1>6, <1>7, <1>8 DEF Road
<1> QED BY <1>4, <1>9 DEF Between, rest

\* The client is never ahead of the server, and where they meet nothing is
\* under way.
LEMMA BetweenOrder ==
    ASSUME NEW events \in Seq(Events), NEW c \in Points, NEW s \in Points, NEW barge,
           Between(events, c, s, barge)
    PROVE  UpTo(c, s) /\ (events = <<>> => c = s)
<1>1. PICK r : Road(r, events, c, s, barge)
      BY DEF Between
<1>2. Len(events) \in Nat /\ 1 \in 1..(Len(events) + 1) /\ (events = <<>> => Len(events) = 0)
      OBVIOUS
<1> QED BY <1>1, <1>2 DEF Road

-----------------------------------------------------------------------------
(* The inductive invariant *)

SessionPhases == {"idle", "talking", "sessionVerdict"}

Microphones == [next : 1..(Frames + 1), stop : BOOLEAN]

SessionTyped ==
    /\ mic \in Seq(Microphones)
    /\ down \in Seq(Events)
    /\ server = [phase |-> server.phase, hears |-> server.hears]
    /\ tells \in [started : Nat, stopped : Nat, transcripts : Nat, waiting : BOOLEAN,
                  barged : BOOLEAN, statuses : Seq(Statuses)]

\* What the client counted and whose microphones it started and stopped, when
\* it has received s events of turn k.
Count(k, s, from) == IF s < from THEN k - 1 ELSE k
MicsAt(k, s) == IF talk.barge THEN (IF k = 2 \/ s >= 5 THEN 2 ELSE 1)
                ELSE (IF s = 6 THEN k + 1 ELSE k)
ClientAt(k, s) ==
    /\ k <= talk.turns /\ ~(k = talk.turns /\ s = 6)
    /\ tells.started = Count(k, s, 1) /\ tells.stopped = Count(k, s, 2)
    /\ tells.transcripts = Count(k, s, 4) /\ Len(tells.statuses) = Count(k, s, 6)
    /\ tells.waiting <=> s \in {2, 3}
    /\ tells.barged <=> talk.barge /\ (k = 2 \/ s >= 5)
    /\ \A i \in 1..Len(tells.statuses) :
          \/ tells.statuses[i] = "completed"
          \/ tells.statuses[i] = "cancelled" /\ talk.barge /\ i = 1
    /\ Len(mic) = MicsAt(k, s)
    /\ \A t \in 1..Len(mic) : mic[t].stop <=> t < k \/ (t = k /\ s >= 2)

\* What the server does and which frames it was sent, when it has told s events
\* of turn k: no frame of a later turn.
ServerAt(k, s) ==
    /\ k <= Len(mic)
    /\ s \in {0, 6} => server = Quiet
    /\ s = 1 => server.phase = "listening" /\ server.hears # {}
    /\ s \in {2, 3} => server.phase = "transcribing"
    /\ s = 4 => server.phase = "responding" /\ server.hears = {}
    /\ s = 5 => server.phase = "responding" /\ server.hears = {"spoke"}
    /\ mic[k].next \in CASE s = 0 -> {1}
                         [] s = 1 -> 2..(Voiced + 1)
                         [] s = 2 -> {Frames}
                         [] s = 3 -> {Frames + 1}
                         [] OTHER -> {Frames, Frames + 1}
    /\ \A t \in 1..Len(mic) : t > k => mic[t].next = 1

At(c, s) ==
    /\ SessionTyped
    /\ Between(down, c, s, talk.barge)
    /\ ClientAt(c[1], c[2]) /\ ServerAt(s[1], s[2])

Conversing == \E c \in Points, s \in Points : At(c, s)

\* Without detection: the frames, then the transcription, then the transcript.
Transcribing ==
    /\ mic \in Seq(Microphones) /\ Len(mic) = 1 /\ ~mic[1].stop
    /\ \/ mic[1].next <= Frames /\ server.phase = "listening" /\ down = <<>>
       \/ mic[1].next = Frames + 1 /\ server.phase = "transcribing" /\ down = <<>>
       \/ /\ mic[1].next = Frames + 1 /\ server.phase = "listening"
          /\ down = <<Event("transcript")>>

SessionInv ==
    /\ pc \in SessionPhases /\ upsets \in Nat
    /\ pc = "idle" => SessionIdle
    /\ pc = "talking" => talk \in Talks
    /\ pc = "talking" /\ InScope =>
          IF talk.kind = "transcription" THEN Transcribing ELSE Conversing
    /\ NeverFailsItself

-----------------------------------------------------------------------------
(* Who sends *)

LEMMA TalkInScope ==
    ASSUME talk \in Talks, InScope
    PROVE  /\ talk.turns \in Nat \ {0} /\ talk.barge \in BOOLEAN
           /\ talk.kind \in {"transcription", "conversation"}
           /\ talk.barge => talk.turns = 2
           /\ talk.kind = "transcription" => talk.turns = 1 /\ ~talk.barge
<1>1. talk \in [kind : {"transcription", "conversation"}, turns : 1..MaxTurns, barge : BOOLEAN]
      /\ (talk.turns > 1 => talk.kind = "conversation") /\ (talk.barge => talk.turns > 1)
      BY DEF Talks
<1>2. 1..MaxTurns \subseteq Nat \ {0}
      BY SessionAssumption
<1> QED BY <1>1, <1>2 DEF InScope

\* Every microphone of an earlier turn than the one the server hears is stopped.
\* The only later one is that of the next turn, which was started by a response
\* and was not sent from yet.
LEMMA WhoSends ==
    ASSUME talk \in Talks, InScope, NEW c \in Points, NEW s \in Points, At(c, s),
           NEW t \in 1..Len(mic)
    PROVE  /\ t < s[1] => mic[t].stop
           /\ t > s[1] => /\ t = s[1] + 1 /\ s[2] \in {5, 6} /\ mic[t].next = 1
                          /\ s[2] = 5 => talk.barge /\ s[1] = 1
<1> DEFINE k == c[1]
           p == c[2]
           j == s[1]
           q == s[2]
<1>1. k \in Nat \ {0} /\ p \in 0..6 /\ j \in Nat \ {0} /\ q \in 0..6 /\ t \in Nat
      BY DEF Points
<1>2. k < j \/ (k = j /\ p <= q)
      BY BetweenOrder DEF At, SessionTyped, UpTo
<1>3. /\ k <= talk.turns /\ Len(mic) = MicsAt(k, p)
      /\ mic[t].stop <=> t < k \/ (t = k /\ p >= 2)
      BY DEF At, ClientAt
<1>4. j <= Len(mic) /\ (t > j => mic[t].next = 1)
      BY DEF At, ServerAt
<1>5. t <= Len(mic)
      BY DEF At, SessionTyped
<1>6. talk.barge => talk.turns = 2
      BY TalkInScope
<1> HIDE DEF k, p, j, q
<1>7. t < j => t < k \/ (t = k /\ p >= 2)
      BY <1>1, <1>3, <1>4, <1>6 DEF MicsAt
<1>8. t > j => /\ t = j + 1 /\ q \in {5, 6}
               /\ q = 5 => talk.barge /\ j = 1
      BY <1>1, <1>2, <1>3, <1>5, <1>6 DEF MicsAt
<1> QED BY <1>3, <1>4, <1>7, <1>8 DEF j, q

\* What the client knows is not touched by a step of the others.
LEMMA ClientSame ==
    ASSUME NEW k, NEW p, ClientAt(k, p), talk' = talk, tells' = tells,
           Len(mic') = Len(mic), \A t \in 1..Len(mic) : mic'[t].stop = mic[t].stop
    PROVE  ClientAt(k, p)'
BY DEF ClientAt, Count, MicsAt

\* What the server heard is not touched by the client, which starts
\* microphones and stops them.
LEMMA ServerSame ==
    ASSUME NEW j \in Nat \ {0}, NEW q, ServerAt(j, q), server' = server,
           Len(mic) \in Nat, Len(mic') \in Nat, Len(mic') >= Len(mic),
           \A t \in 1..Len(mic) : mic'[t].next = mic[t].next,
           \A t \in 1..Len(mic') : t > Len(mic) => mic'[t].next = 1
    PROVE  ServerAt(j, q)'
<1>1. \A t \in 1..Len(mic') : t > j => mic'[t].next = 1
  <2> TAKE t \in 1..Len(mic')
  <2>1. CASE t > Len(mic)
        BY <2>1
  <2>2. CASE ~(t > Len(mic))
    <3>1. t \in 1..Len(mic)
          BY <2>2
    <3> QED BY <3>1 DEF ServerAt
  <2> QED BY <2>1, <2>2
<1>2. j \in 1..Len(mic) /\ j <= Len(mic')
      BY DEF ServerAt
<1>3. mic'[j].next = mic[j].next
      BY <1>2
<1> QED BY <1>1, <1>2, <1>3 DEF ServerAt

-----------------------------------------------------------------------------
(* A microphone sends *)

\* A frame moves its own microphone and no other, and stops none.
LEMMA FrameMoves ==
    ASSUME NEW t \in 1..Len(mic), mic \in Seq(Microphones), Sending(t),
           mic' = [mic EXCEPT ![t].next = @ + 1]
    PROVE  /\ mic' \in Seq(Microphones) /\ Len(mic') = Len(mic)
           /\ mic'[t].next = mic[t].next + 1
           /\ \A u \in 1..Len(mic) : /\ mic'[u].stop = mic[u].stop
                                     /\ u # t => mic'[u].next = mic[u].next
<1> DEFINE n == Len(mic)
           more == [mic[t] EXCEPT !.next = @ + 1]
<1>1. n \in Nat /\ mic \in [1..n -> Microphones]
      BY LenProperties
<1>2. mic[t] \in Microphones /\ mic[t].next \in 1..Frames /\ mic[t].next + 1 \in 1..(Frames + 1)
      BY <1>1, SessionAssumption DEF Sending, Microphones, Frames
<1>3. more \in Microphones /\ more.next = mic[t].next + 1 /\ more.stop = mic[t].stop
      BY <1>2 DEF Microphones
<1>4. mic' = [mic EXCEPT ![t] = more]
      OBVIOUS
<1> HIDE DEF more
<1>5. mic' \in Seq(Microphones) /\ Len(mic') = n
      /\ \A u \in 1..n : mic'[u] = IF u = t THEN more ELSE mic[u]
      BY <1>3, <1>4, ExceptSeq
<1> QED BY <1>3, <1>5

LEMMA FrameHeard ==
    ASSUME talk \in Talks, InScope, talk.kind = "conversation",
           NEW c \in Points, NEW s \in Points, At(c, s),
           NEW t \in 1..Len(mic), SendFrame(t)
    PROVE  Conversing'
<1> DEFINE j == s[1]
           q == s[2]
           n == mic[t].next
<1>1. /\ Sending(t) /\ mic' = [mic EXCEPT ![t].next = @ + 1] /\ Hear(t, n <= Voiced)
      /\ talk' = talk /\ tells' = tells
      BY DEF SendFrame, client
<1>2. /\ SessionTyped /\ Between(down, c, s, talk.barge)
      /\ ClientAt(c[1], c[2]) /\ ServerAt(j, q)
      BY DEF At
<1>3. /\ mic' \in Seq(Microphones) /\ Len(mic') = Len(mic) /\ mic'[t].next = n + 1
      /\ \A u \in 1..Len(mic) : /\ mic'[u].stop = mic[u].stop
                                /\ u # t => mic'[u].next = mic[u].next
      BY <1>1, <1>2, FrameMoves DEF SessionTyped
<1>4. ClientAt(c[1], c[2])'
      BY <1>1, <1>2, <1>3, ClientSame
<1>5. j \in Nat \ {0} /\ q \in 0..6 /\ s = <<j, q>> /\ t \in Nat /\ Len(mic) \in Nat
      /\ j <= Len(mic) /\ t <= Len(mic)
      BY <1>2 DEF Points, SessionTyped, ServerAt
<1>6. /\ ~mic[t].stop /\ n \in 1..Frames
  <2>1. mic[t] \in Microphones
        BY <1>2 DEF SessionTyped
  <2> QED BY <1>1, <2>1, SessionAssumption DEF Sending, Microphones, Frames
<1>7. /\ t = j \/ (t = j + 1 /\ q \in {5, 6} /\ n = 1)
      /\ t # j /\ q = 5 => talk.barge /\ j = 1
      BY <1>5, <1>6, WhoSends
<1>8. \A u \in 1..Len(mic) : u > t => mic[u].next = 1 /\ mic'[u].next = 1
  <2> TAKE u \in 1..Len(mic)
  <2>1. u > t => u > j /\ u # t
        BY <1>5, <1>7
  <2> QED BY <1>2, <1>3, <2>1 DEF ServerAt
<1>9. server = [phase |-> server.phase, hears |-> server.hears] /\ down \in Seq(Events)
      /\ tells' \in [started : Nat, stopped : Nat, transcripts : Nat, waiting : BOOLEAN,
                     barged : BOOLEAN, statuses : Seq(Statuses)]
      BY <1>1, <1>2 DEF SessionTyped
<1>v. Voiced \in Nat \ {0} /\ Frames = Voiced + 2
      BY SessionAssumption DEF Frames
<1>e. /\ Event("started") \in Events /\ Event("stopped") \in Events
      /\ Event("turn_in_progress") \in Events /\ Done("cancelled") \in Events
      BY DEF Event, Events, Done, Statuses
<1> HIDE DEF j, q, n
\* Where a frame leaves the server: at the turn of that frame, at place r.
<1> DEFINE Leaves(r) ==
       /\ <<t, r>> \in Points /\ down' \in Seq(Events) /\ Between(down', c, <<t, r>>, talk.barge)
       /\ server' = [phase |-> server'.phase, hears |-> server'.hears] /\ ServerAt(t, r)'
<1>f. ASSUME NEW r, Leaves(r) PROVE Conversing'
  <2>1. SessionTyped'
        BY <1>3, <1>9, <1>f DEF SessionTyped
  <2>2. At(c, <<t, r>>)'
        BY <1>1, <1>4, <1>f, <2>1 DEF At
  <2> QED BY <1>f, <2>2 DEF Conversing
\* The events that it tells, and what is known of the server then.
<1>g. ASSUME NEW r \in 0..6, s = <<t, r>>, down' = down,
             server' = [phase |-> server'.phase, hears |-> server'.hears], ServerAt(t, r)'
      PROVE  Conversing'
      BY <1>2, <1>9, <1>f, <1>g
<1> DEFINE Tells(r, e) ==
       /\ r \in 0..6 /\ e \in Events /\ down' = down \o <<e>>
       /\ Follows(s, <<t, r>>) /\ Leads(e, <<t, r>>, talk.barge)
       /\ server' = [phase |-> server'.phase, hears |-> server'.hears] /\ ServerAt(t, r)'
<1>h. ASSUME NEW r, NEW e, Tells(r, e) PROVE Conversing'
  <2>1. <<t, r>> \in Points
        BY <1>5, <1>h DEF Points
  <2>2. Between(down', c, <<t, r>>, talk.barge)
        BY <1>2, <1>9, <1>h, <2>1, BetweenMore
  <2>3. down' \in Seq(Events)
        BY <1>9, <1>h
  <2> QED BY <1>f, <1>h, <2>1, <2>2, <2>3
<1> HIDE DEF Leaves, Tells
<1>10. CASE t = j /\ q = 0
  <2>1. n = 1 /\ server = Quiet
        BY <1>2, <1>5, <1>10 DEF ServerAt, n
  <2>2. /\ server' = [server EXCEPT !.hears = @ \cup {t}] /\ down' = down \o <<Event("started")>>
        BY <1>1, <1>v, <2>1 DEF Hear, Quiet, Tell
  <2>3. server' = [phase |-> "listening", hears |-> {t}]
        BY <2>1, <2>2 DEF Quiet
  <2>4. ServerAt(t, 1)'
        BY <1>3, <1>5, <1>8, <1>10, <1>v, <2>1, <2>3 DEF ServerAt
  <2>5. Follows(s, <<t, 1>>) /\ Leads(Event("started"), <<t, 1>>, talk.barge)
        BY <1>5, <1>10 DEF Follows, Leads
  <2>6. server' = [phase |-> server'.phase, hears |-> server'.hears]
        BY <2>3
  <2>7. Tells(1, Event("started"))
        BY <1>e, <2>2, <2>4, <2>5, <2>6 DEF Tells
  <2> QED BY <1>h, <2>7
<1>11. CASE t = j /\ q = 1
  <2>1. n \in 2..(Voiced + 1) /\ server.phase = "listening" /\ server.hears # {}
        BY <1>2, <1>5, <1>11 DEF ServerAt, n
  <2>2. CASE n <= Voiced
    <3>1. server' = [server EXCEPT !.hears = @ \cup {t}] /\ down' = down
          BY <1>1, <2>1, <2>2 DEF Hear
    <3>2. server' = [phase |-> "listening", hears |-> server.hears \cup {t}]
          BY <1>9, <2>1, <3>1
    <3>3. ServerAt(t, 1)'
          BY <1>3, <1>5, <1>8, <1>11, <1>v, <2>1, <2>2, <3>2 DEF ServerAt
    <3> QED BY <1>5, <1>11, <1>g, <3>1, <3>2, <3>3
  <2>3. CASE ~(n <= Voiced)
    <3>1. server' = [server EXCEPT !.phase = "transcribing"]
          /\ down' = down \o <<Event("stopped")>>
          BY <1>1, <2>1, <2>3 DEF Hear, Tell
    <3>2. server' = [phase |-> "transcribing", hears |-> server.hears]
          BY <1>9, <3>1
    <3>3. ServerAt(t, 2)'
          BY <1>3, <1>5, <1>8, <1>11, <1>v, <2>1, <2>3, <3>2 DEF ServerAt
    <3>4. Follows(s, <<t, 2>>) /\ Leads(Event("stopped"), <<t, 2>>, talk.barge)
          BY <1>5, <1>11 DEF Follows, Leads
    <3>5. server' = [phase |-> server'.phase, hears |-> server'.hears]
          BY <3>2
    <3>6. Tells(2, Event("stopped"))
          BY <1>e, <3>1, <3>3, <3>4, <3>5 DEF Tells
    <3> QED BY <1>h, <3>6
  <2> QED BY <2>2, <2>3
<1>12. CASE t = j /\ q = 2
  <2>1. n = Frames /\ server.phase = "transcribing"
        BY <1>2, <1>5, <1>12 DEF ServerAt, n
  <2>2. server' = server /\ down' = down \o <<Event("turn_in_progress")>>
        BY <1>1, <2>1 DEF Hear, Tell
  <2>3. ServerAt(t, 3)'
        BY <1>3, <1>5, <1>8, <1>12, <1>v, <2>1, <2>2 DEF ServerAt
  <2>4. Follows(s, <<t, 3>>) /\ Leads(Event("turn_in_progress"), <<t, 3>>, talk.barge)
        BY <1>5, <1>12 DEF Follows, Leads
  <2>5. Tells(3, Event("turn_in_progress"))
        BY <1>9, <1>e, <2>2, <2>3, <2>4 DEF Tells
  <2> QED BY <1>h, <2>5
<1>13. CASE t = j /\ q = 3
  <2>1. n = Frames + 1
        BY <1>2, <1>5, <1>13 DEF ServerAt, n
  <2> QED BY <1>6, <1>v, <2>1
<1>14. CASE t = j /\ q \in {4, 5, 6}
  <2>1. /\ n = Frames
        /\ server.phase = "responding" \/ (server.phase = "listening" /\ server.hears = {})
    <3>1. n \in {Frames, Frames + 1}
          BY <1>2, <1>5, <1>14 DEF ServerAt, n
    <3>2. server.phase = "responding" \/ (server.phase = "listening" /\ server.hears = {})
          BY <1>2, <1>14 DEF ServerAt, Quiet
    <3> QED BY <1>6, <1>v, <3>1, <3>2
  <2>2. server' = server /\ down' = down
        BY <1>1, <1>v, <2>1 DEF Hear
  <2>3. ServerAt(t, q)'
        BY <1>2, <1>3, <1>5, <1>8, <1>14, <1>v, <2>1, <2>2 DEF ServerAt
  <2> QED BY <1>5, <1>9, <1>14, <1>g, <2>2, <2>3
<1>15. CASE t # j /\ q = 5
  <2>1. n = 1 /\ t = 2 /\ j = 1 /\ talk.barge /\ server.phase = "responding"
        BY <1>2, <1>7, <1>15 DEF ServerAt
  <2>2. /\ server' = [phase |-> "listening", hears |-> {t}]
        /\ down' = down \o <<Done("cancelled"), Event("started")>>
    <3>1. n <= Voiced /\ server.phase = "responding"
          BY <1>v, <2>1
    <3>2. /\ server' = [phase |-> "listening", hears |-> {t}]
          /\ Tell(<<[type |-> "done", status |-> "cancelled"], Event("started")>>)
          BY ONLY <1>1, <3>1, talk.kind = "conversation" DEF Hear
    <3> QED BY <3>2 DEF Tell, Done
  <2>3. ServerAt(t, 1)'
        BY <1>3, <1>5, <1>8, <1>v, <2>1, <2>2 DEF ServerAt
  <2>4. /\ Follows(s, <<1, 6>>) /\ Leads(Done("cancelled"), <<1, 6>>, talk.barge)
        /\ Follows(<<1, 6>>, <<t, 1>>) /\ Leads(Event("started"), <<t, 1>>, talk.barge)
        /\ <<1, 6>> \in Points /\ <<t, 1>> \in Points
        BY <1>5, <1>15, <2>1 DEF Follows, Leads, Points
  <2>5. Between(down \o <<Done("cancelled")>>, c, <<1, 6>>, talk.barge)
        BY <1>2, <1>9, <1>e, <2>4, BetweenMore
  <2>6. down \o <<Done("cancelled")>> \in Seq(Events)
        BY <1>9, <1>e
  <2>7. Between((down \o <<Done("cancelled")>>) \o <<Event("started")>>, c, <<t, 1>>, talk.barge)
        BY <1>e, <2>4, <2>5, <2>6, BetweenMore
  <2>8. (down \o <<Done("cancelled")>>) \o <<Event("started")>> = down'
        BY <1>9, <1>e, <2>2
  <2>9. down' \in Seq(Events)
        BY <1>9, <1>e, <2>2
  <2> QED BY <1>f, <2>2, <2>3, <2>4, <2>7, <2>8, <2>9 DEF Leaves
<1>16. CASE t # j /\ q = 6
  <2>1. n = 1 /\ t = j + 1 /\ server = Quiet
        BY <1>2, <1>7, <1>16 DEF ServerAt
  <2>2. /\ server' = [server EXCEPT !.hears = @ \cup {t}] /\ down' = down \o <<Event("started")>>
        BY <1>1, <1>v, <2>1 DEF Hear, Quiet, Tell
  <2>3. server' = [phase |-> "listening", hears |-> {t}]
        BY <2>1, <2>2 DEF Quiet
  <2>4. ServerAt(t, 1)'
        BY <1>3, <1>5, <1>8, <1>v, <2>1, <2>3 DEF ServerAt
  <2>5. Follows(s, <<t, 1>>) /\ Leads(Event("started"), <<t, 1>>, talk.barge)
        BY <1>5, <1>16, <2>1 DEF Follows, Leads
  <2>6. server' = [phase |-> server'.phase, hears |-> server'.hears]
        BY <2>3
  <2>7. Tells(1, Event("started"))
        BY <1>e, <2>2, <2>4, <2>5, <2>6 DEF Tells
  <2> QED BY <1>h, <2>7
<1> QED BY <1>5, <1>7, <1>10, <1>11, <1>12, <1>13, <1>14, <1>15, <1>16

-----------------------------------------------------------------------------
(* The server's own steps *)

\* What every step of the server that leaves the microphones alone comes to.
ServerMoves(s, r, e) ==
    /\ talk' = talk /\ tells' = tells /\ mic' = mic
    /\ r \in 4..6 /\ e \in Events /\ down' = down \o <<e>>
    /\ Follows(s, <<s[1], r>>) /\ Leads(e, <<s[1], r>>, talk.barge)
    /\ server' = [phase |-> server'.phase, hears |-> server'.hears]
    /\ ServerAt(s[1], r)'

LEMMA ServerTells ==
    ASSUME talk \in Talks, InScope, NEW c \in Points, NEW s \in Points, At(c, s),
           NEW r, NEW e, ServerMoves(s, r, e)
    PROVE  Conversing'
<1> USE DEF ServerMoves
<1>1. /\ SessionTyped /\ Between(down, c, s, talk.barge) /\ ClientAt(c[1], c[2])
      BY DEF At
<1>2. <<s[1], r>> \in Points
      BY DEF Points
<1>3. Between(down', c, <<s[1], r>>, talk.barge)
      BY <1>1, <1>2, BetweenMore DEF SessionTyped
<1>4. ClientAt(c[1], c[2])'
      BY <1>1, ClientSame
<1>5. SessionTyped'
      BY <1>1 DEF SessionTyped
<1>6. At(c, <<s[1], r>>)'
      BY <1>3, <1>4, <1>5 DEF At
<1> QED BY <1>2, <1>6 DEF Conversing

\* Which place the server is at, by its phase.
LEMMA ServerPlace ==
    ASSUME NEW s \in Points, ServerAt(s[1], s[2])
    PROVE  /\ server.phase = "transcribing" => s[2] \in {2, 3}
           /\ server.phase = "responding" =>
                 \/ s[2] = 4 /\ server.hears = {}
                 \/ s[2] = 5 /\ server.hears = {"spoke"}
           /\ server.phase = "listening" => s[2] \in {0, 1, 6}
           /\ s[2] \in {2, 3, 4, 5, 6} => mic[s[1]].next \in {Frames, Frames + 1}
<1>1. s[2] \in 0..6
      BY DEF Points
<1> QED BY <1>1 DEF ServerAt, Quiet

LEMMA ServerConverses ==
    ASSUME talk \in Talks, InScope, talk.kind = "conversation",
           NEW c \in Points, NEW s \in Points, At(c, s),
           Transcribe \/ Speak \/ (Respond /\ upsets' = upsets)
    PROVE  Conversing'
<1>1. ServerAt(s[1], s[2]) /\ upsets \in Int /\ s[1] \in Nat \ {0} /\ s[2] \in 0..6
      /\ s = <<s[1], s[2]>>
      BY DEF At, InScope, Points
<1>2. talk' = talk /\ tells' = tells /\ mic' = mic
      BY DEF Transcribe, Speak, Respond, client
<1>3. /\ s[1] <= Len(mic') /\ (s[2] \in {2, 3, 4, 5, 6} => mic'[s[1]].next \in {Frames, Frames + 1})
      /\ \A t \in 1..Len(mic') : t > s[1] => mic'[t].next = 1
      BY <1>1, <1>2, ServerPlace DEF ServerAt
<1>4. CASE Transcribe
  <2>1. /\ server.phase = "transcribing"
        /\ server' = [phase |-> "responding", hears |-> {}]
        /\ down' = down \o <<Event("transcript")>>
        BY <1>4 DEF Transcribe, Tell
  <2>2. s[2] \in {2, 3}
        BY <1>1, <2>1, ServerPlace
  <2>3. ServerAt(s[1], 4)'
        BY <1>3, <2>1, <2>2 DEF ServerAt
  <2>4. Follows(s, <<s[1], 4>>) /\ Leads(Event("transcript"), <<s[1], 4>>, talk.barge)
        BY <2>2 DEF Follows, Leads
  <2>5. Event("transcript") \in Events /\ server' = [phase |-> server'.phase, hears |-> server'.hears]
        BY <2>1 DEF Event, Events
  <2>6. ServerMoves(s, 4, Event("transcript"))
        BY <1>2, <2>1, <2>3, <2>4, <2>5 DEF ServerMoves
  <2> QED BY <2>6, ServerTells
<1>5. CASE Speak
  <2>1. /\ server.phase = "responding" /\ "spoke" \notin server.hears
        /\ server' = [server EXCEPT !.hears = {"spoke"}]
        /\ down' = down \o <<Event("audio")>>
        BY <1>5 DEF Speak, Tell
  <2>2. s[2] = 4
        BY <1>1, <2>1, ServerPlace
  <2>3. server' = [phase |-> "responding", hears |-> {"spoke"}]
        BY <2>1 DEF At, SessionTyped
  <2>4. ServerAt(s[1], 5)'
        BY <1>3, <2>2, <2>3 DEF ServerAt
  <2>5. Follows(s, <<s[1], 5>>) /\ Leads(Event("audio"), <<s[1], 5>>, talk.barge)
        BY <2>2 DEF Follows, Leads
  <2>6. Event("audio") \in Events /\ server' = [phase |-> server'.phase, hears |-> server'.hears]
        BY <2>3 DEF Event, Events
  <2>7. ServerMoves(s, 5, Event("audio"))
        BY <1>2, <2>1, <2>4, <2>5, <2>6 DEF ServerMoves
  <2> QED BY <2>7, ServerTells
<1>6. CASE Respond /\ upsets' = upsets
  <2>1. /\ server.phase = "responding" /\ "spoke" \in server.hears
        /\ server' = Quiet
        /\ down' = down \o <<Done("completed")>>
        BY <1>1, <1>6 DEF Respond, Upset, Tell, Done
  <2>2. s[2] = 5
        BY <1>1, <2>1, ServerPlace
  <2>3. ServerAt(s[1], 6)'
        BY <1>3, <2>1, <2>2 DEF ServerAt
  <2>4. Follows(s, <<s[1], 6>>) /\ Leads(Done("completed"), <<s[1], 6>>, talk.barge)
        BY <2>2 DEF Follows, Leads
  <2>5. Done("completed") \in Events /\ server' = [phase |-> server'.phase, hears |-> server'.hears]
        BY <2>1 DEF Done, Statuses, Events, Quiet
  <2>6. ServerMoves(s, 6, Done("completed"))
        BY <1>2, <2>1, <2>3, <2>4, <2>5 DEF ServerMoves
  <2> QED BY <2>6, ServerTells
<1> QED BY <1>4, <1>5, <1>6

-----------------------------------------------------------------------------
(* The client receives *)

LEMMA NewMicStarts ==
    ASSUME mic \in Seq(Microphones), mic' = NewMic
    PROVE  /\ mic' \in Seq(Microphones) /\ Len(mic') = Len(mic) + 1
           /\ \A t \in 1..Len(mic) : mic'[t] = mic[t]
           /\ mic'[Len(mic) + 1].next = 1 /\ mic'[Len(mic) + 1].stop = FALSE
<1> DEFINE new == [next |-> 1, stop |-> FALSE]
<1>1. new \in Microphones
      BY SessionAssumption DEF Microphones, Frames
<1>2. mic' = Append(mic, new)
      BY DEF NewMic
<1>3. /\ mic' \in Seq(Microphones) /\ Len(mic') = Len(mic) + 1
      /\ \A t \in 1..Len(mic) : mic'[t] = mic[t]
      /\ mic'[Len(mic) + 1] = new
      BY <1>1, <1>2, AppendProperties
<1> QED BY <1>3

LEMMA ActiveStops ==
    ASSUME mic \in Seq(Microphones), Len(mic) > 0, StopActive
    PROVE  /\ mic' \in Seq(Microphones) /\ Len(mic') = Len(mic)
           /\ \A t \in 1..Len(mic) : /\ mic'[t].next = mic[t].next
                                     /\ mic'[t].stop = IF t = Len(mic) THEN TRUE ELSE mic[t].stop
<1> DEFINE n == Len(mic)
           last == [mic[n] EXCEPT !.stop = TRUE]
<1>1. n \in 1..n /\ mic \in [1..n -> Microphones]
      BY LenProperties
<1>2. last \in Microphones /\ last.next = mic[n].next /\ last.stop = TRUE
      BY <1>1 DEF Microphones
<1>3. mic' = [mic EXCEPT ![n] = last]
      BY DEF StopActive
<1> HIDE DEF last
<1>4. /\ mic' \in Seq(Microphones) /\ Len(mic') = n
      /\ \A t \in 1..n : mic'[t] = IF t = n THEN last ELSE mic[t]
      BY <1>1, <1>2, <1>3, ExceptSeq
<1> QED BY <1>2, <1>4

\* What every event that the client goes on after comes to.
ClientMoves(c, s, b) ==
    /\ b \in Points /\ Between(down', b, s, talk.barge) /\ down' \in Seq(Events)
    /\ talk' = talk /\ server' = server
    /\ tells' \in [started : Nat, stopped : Nat, transcripts : Nat, waiting : BOOLEAN,
                   barged : BOOLEAN, statuses : Seq(Statuses)]
    /\ mic' \in Seq(Microphones) /\ Len(mic') >= Len(mic)
    /\ \A t \in 1..Len(mic) : mic'[t].next = mic[t].next
    /\ \A t \in 1..Len(mic') : t > Len(mic) => mic'[t].next = 1
    /\ ClientAt(b[1], b[2])'

LEMMA ClientGoesOn ==
    ASSUME NEW c \in Points, NEW s \in Points, At(c, s), NEW b, ClientMoves(c, s, b)
    PROVE  Conversing'
<1> USE DEF ClientMoves
<1>1. SessionTyped' /\ Len(mic) \in Nat /\ Len(mic') \in Nat /\ s[1] \in Nat \ {0}
      BY DEF At, SessionTyped, Points
<1>2. ServerAt(s[1], s[2])'
      BY <1>1, ServerSame DEF At
<1>3. At(b, s)'
      BY <1>1, <1>2 DEF At
<1> QED BY <1>3 DEF Conversing

\* The event that is received, and the place that it leads to.
LEMMA Received ==
    ASSUME NEW c \in Points, NEW s \in Points, At(c, s), Receive
    PROVE  \E b \in Points :
              /\ Follows(c, b) /\ Leads(Head(down), b, talk.barge) /\ UpTo(b, s)
              /\ Between(down', b, s, talk.barge) /\ down' \in Seq(Events)
<1>1. down \in Seq(Events) /\ down # <<>> /\ down' = Tail(down)
      BY DEF At, SessionTyped, Receive
<1>2. down' \in Seq(Events)
      BY <1>1
<1>3. Between(down, c, s, talk.barge)
      BY DEF At
<1> QED BY <1>1, <1>2, <1>3, BetweenLess

LEMMA ReceivedGoesOn ==
    ASSUME talk \in Talks, InScope, talk.kind = "conversation",
           NEW c \in Points, NEW s \in Points, At(c, s), Receive, pc = "talking"
    PROVE  IF pc' = pc /\ outcome' = outcome THEN Conversing'
           ELSE pc' = "sessionVerdict" /\ NeverFailsItself'
<1>1. PICK b \in Points :
              /\ Follows(c, b) /\ Leads(Head(down), b, talk.barge) /\ UpTo(b, s)
              /\ Between(down', b, s, talk.barge) /\ down' \in Seq(Events)
      BY Received
<1> DEFINE k == c[1]
           p == c[2]
           e == Head(down)
<1>2. /\ SessionTyped /\ ClientAt(k, p) /\ mic \in Seq(Microphones) /\ Len(mic) \in Nat
      /\ tells \in [started : Nat, stopped : Nat, transcripts : Nat, waiting : BOOLEAN,
                    barged : BOOLEAN, statuses : Seq(Statuses)]
      BY DEF At, SessionTyped
<1>r. /\ tells.started \in Nat /\ tells.stopped \in Nat /\ tells.transcripts \in Nat
      /\ tells.waiting \in BOOLEAN /\ tells.barged \in BOOLEAN
      /\ tells.statuses \in Seq(Statuses)
      /\ tells = [started |-> tells.started, stopped |-> tells.stopped,
                  transcripts |-> tells.transcripts, waiting |-> tells.waiting,
                  barged |-> tells.barged, statuses |-> tells.statuses]
      BY <1>2
<1>3. /\ talk' = talk /\ server' = server /\ upsets' = upsets
      BY DEF Receive
<1>4. k \in Nat \ {0} /\ p \in 0..6 /\ b[1] \in Nat \ {0} /\ b[2] \in 0..6
      BY DEF Points
<1>5. /\ talk.turns \in Nat \ {0} /\ talk.barge \in BOOLEAN
      /\ talk.barge => talk.turns = 2
      BY TalkInScope
<1>6. /\ k <= talk.turns /\ ~(k = talk.turns /\ p = 6)
      /\ tells.started = Count(k, p, 1) /\ tells.stopped = Count(k, p, 2)
      /\ tells.transcripts = Count(k, p, 4) /\ Len(tells.statuses) = Count(k, p, 6)
      /\ tells.waiting <=> p \in {2, 3}
      /\ tells.barged <=> talk.barge /\ (k = 2 \/ p >= 5)
      /\ \A i \in 1..Len(tells.statuses) :
            \/ tells.statuses[i] = "completed"
            \/ tells.statuses[i] = "cancelled" /\ talk.barge /\ i = 1
      /\ Len(mic) = MicsAt(k, p)
      /\ \A t \in 1..Len(mic) : mic[t].stop <=> t < k \/ (t = k /\ p >= 2)
      BY <1>2 DEF ClientAt
<1>7. /\ e.type = "started" => /\ tells' = [tells EXCEPT !.started = @ + 1]
                               /\ GoesOn /\ mic' = mic
      /\ e.type = "stopped" => SpeechStopped
      /\ e.type = "transcript" => Transcribed
      /\ e.type = "audio" => Spoken
      /\ e.type = "done" => ResponseDone(e.status)
      /\ e.type = "turn_in_progress" => Rejected
      BY DEF Receive
<1> HIDE DEF k, p, e
<1>m. ASSUME ClientMoves(c, s, b), GoesOn
      PROVE  IF pc' = pc /\ outcome' = outcome THEN Conversing'
             ELSE pc' = "sessionVerdict" /\ NeverFailsItself'
      BY <1>m, ClientGoesOn DEF GoesOn
<1>8. CASE b[2] = 1
  <2>1. (p = 0 /\ b[1] = k) \/ (p = 6 /\ b[1] = k + 1)
        BY <1>1, <1>8 DEF Follows, k, p
  <2>2. tells' = [tells EXCEPT !.started = @ + 1] /\ GoesOn /\ mic' = mic
        BY <1>1, <1>7, <1>8 DEF Leads, Event, e
  <2>3. /\ tells'.started = tells.started + 1 /\ tells'.stopped = tells.stopped
        /\ tells'.transcripts = tells.transcripts /\ tells'.statuses = tells.statuses
        /\ tells'.waiting = tells.waiting /\ tells'.barged = tells.barged
        /\ tells' \in [started : Nat, stopped : Nat, transcripts : Nat, waiting : BOOLEAN,
                       barged : BOOLEAN, statuses : Seq(Statuses)]
        BY <1>2, <2>2
  <2>4. /\ b[1] <= talk.turns /\ tells'.started = Count(b[1], 1, 1)
        /\ tells'.stopped = Count(b[1], 1, 2) /\ tells'.transcripts = Count(b[1], 1, 4)
        /\ Len(tells'.statuses) = Count(b[1], 1, 6) /\ Len(mic') = MicsAt(b[1], 1)
    <3>1. CASE p = 0 /\ b[1] = k
          BY <1>4, <1>6, <2>2, <2>3, <3>1 DEF Count, MicsAt
    <3>2. CASE p = 6 /\ b[1] = k + 1
      <4>1. /\ tells.started = k /\ tells.stopped = k /\ tells.transcripts = k
            /\ Len(tells.statuses) = k /\ k < talk.turns
            BY <1>4, <1>5, <1>6, <3>2 DEF Count
      <4>2. Len(mic) = IF talk.barge THEN 2 ELSE k + 1
            BY <1>6, <3>2 DEF MicsAt
      <4>3. talk.barge => k = 1
            BY <1>4, <1>5, <4>1
      <4> QED BY <1>4, <1>5, <2>2, <2>3, <3>2, <4>1, <4>2, <4>3 DEF Count, MicsAt
    <3> QED BY <2>1, <3>1, <3>2
  <2>5. /\ ~tells'.waiting
        /\ tells'.barged <=> talk.barge /\ b[1] = 2
        BY <1>4, <1>5, <1>6, <2>1, <2>3
  <2>6. \A t \in 1..Len(mic') : mic'[t].stop <=> t < b[1]
    <3> TAKE t \in 1..Len(mic')
    <3>1. t \in Nat /\ (mic'[t].stop <=> t < k \/ (t = k /\ p >= 2))
          BY <1>2, <1>6, <2>2
    <3> QED BY <1>4, <2>1, <3>1
  <2>7. ClientAt(b[1], b[2])'
        BY <1>3, <1>6, <1>8, <2>3, <2>4, <2>5, <2>6 DEF ClientAt, MicsAt
  <2>8. ClientMoves(c, s, b)
        BY <1>1, <1>2, <1>3, <2>2, <2>3, <2>7 DEF ClientMoves
  <2> QED BY <1>m, <2>2, <2>8
<1>9. CASE b[2] = 2
  <2>1. p = 1 /\ b[1] = k
        BY <1>1, <1>4, <1>9 DEF Follows, k, p
  <2>2. /\ tells' = [tells EXCEPT !.stopped = @ + 1, !.waiting = TRUE]
        /\ StopActive /\ GoesOn
        BY <1>1, <1>7, <1>9 DEF Leads, Event, e, SpeechStopped
  <2>3. /\ tells'.started = tells.started /\ tells'.stopped = tells.stopped + 1
        /\ tells'.transcripts = tells.transcripts /\ tells'.statuses = tells.statuses
        /\ tells'.waiting = TRUE /\ tells'.barged = tells.barged
        /\ tells' \in [started : Nat, stopped : Nat, transcripts : Nat, waiting : BOOLEAN,
                       barged : BOOLEAN, statuses : Seq(Statuses)]
    <3>1. tells' = [started |-> tells.started, stopped |-> tells.stopped + 1,
                    transcripts |-> tells.transcripts, waiting |-> TRUE,
                    barged |-> tells.barged, statuses |-> tells.statuses]
          BY <1>r, <2>2
    <3> QED BY ONLY <1>r, <3>1
  <2>4. Len(mic) = k
        BY <1>4, <1>5, <1>6, <2>1 DEF MicsAt
  <2>5. /\ mic' \in Seq(Microphones) /\ Len(mic') = Len(mic)
        /\ \A t \in 1..Len(mic) : /\ mic'[t].next = mic[t].next
                                  /\ mic'[t].stop = IF t = Len(mic) THEN TRUE ELSE mic[t].stop
    <3>1. Len(mic) > 0
          BY <1>4, <2>4
    <3> QED BY ONLY <1>2, <2>2, <3>1, ActiveStops
  <2>6. \A t \in 1..Len(mic') : mic'[t].stop <=> t < k \/ t = k
    <3> TAKE t \in 1..Len(mic')
    <3>1. t \in Nat /\ (mic[t].stop <=> t < k) /\ t <= k
          BY <1>2, <1>4, <1>6, <2>1, <2>4, <2>5
    <3> QED BY <1>4, <2>4, <2>5, <3>1
  <2>7. ClientAt(b[1], b[2])'
        BY <1>3, <1>4, <1>5, <1>6, <1>9, <2>1, <2>3, <2>5, <2>6 DEF ClientAt, MicsAt, Count
  <2>8. Len(mic') >= Len(mic) /\ \A t \in 1..Len(mic') : t > Len(mic) => mic'[t].next = 1
        BY <1>2, <2>5
  <2>9. ClientMoves(c, s, b)
        BY <1>1, <1>3, <2>3, <2>5, <2>7, <2>8 DEF ClientMoves
  <2> QED BY <1>m, <2>2, <2>9
<1>10. CASE b[2] = 3
  <2>1. p = 2 /\ b[1] = k
        BY <1>1, <1>4, <1>10 DEF Follows, k, p
  <2>2. tells' = tells /\ mic' = mic /\ GoesOn
    <3>1. Rejected
          BY <1>1, <1>7, <1>10 DEF Leads, Event, e
    <3>2. tells.waiting
          BY <1>6, <2>1
    <3> QED BY <3>1, <3>2 DEF Rejected, Recoverable
  <2>3. ClientAt(b[1], b[2])'
        BY <1>3, <1>4, <1>5, <1>6, <1>10, <2>1, <2>2 DEF ClientAt, MicsAt, Count
  <2>4. ClientMoves(c, s, b)
        BY <1>1, <1>2, <1>3, <2>2, <2>3 DEF ClientMoves
  <2> QED BY <1>m, <2>2, <2>4
<1>11. CASE b[2] = 4
  <2>1. p \in {2, 3} /\ b[1] = k
        BY <1>1, <1>4, <1>11 DEF Follows, k, p
  <2>2. /\ tells' = [tells EXCEPT !.transcripts = @ + 1, !.waiting = FALSE]
        /\ mic' = mic /\ GoesOn
        BY <1>1, <1>7, <1>11 DEF Leads, Event, e, Transcribed
  <2>3. /\ tells'.started = tells.started /\ tells'.stopped = tells.stopped
        /\ tells'.transcripts = tells.transcripts + 1 /\ tells'.statuses = tells.statuses
        /\ tells'.waiting = FALSE /\ tells'.barged = tells.barged
        /\ tells' \in [started : Nat, stopped : Nat, transcripts : Nat, waiting : BOOLEAN,
                       barged : BOOLEAN, statuses : Seq(Statuses)]
    <3>1. tells' = [started |-> tells.started, stopped |-> tells.stopped,
                    transcripts |-> tells.transcripts + 1, waiting |-> FALSE,
                    barged |-> tells.barged, statuses |-> tells.statuses]
          BY <1>r, <2>2
    <3> QED BY ONLY <1>r, <3>1
  <2>4. ClientAt(b[1], b[2])'
    <3>1. /\ tells'.started = k /\ tells'.stopped = k /\ tells'.transcripts = k
          /\ Len(tells'.statuses) = k - 1 /\ ~tells'.waiting
          /\ tells'.barged <=> talk.barge /\ k = 2
          BY <1>4, <1>6, <2>1, <2>3 DEF Count
    <3>2. Len(mic') = IF talk.barge THEN (IF k = 2 THEN 2 ELSE 1) ELSE k
          BY <1>4, <1>6, <2>1, <2>2 DEF MicsAt
    <3>3. \A t \in 1..Len(mic') : mic'[t].stop <=> t < k \/ t = k
          BY <1>6, <2>1, <2>2
    <3> QED BY <1>3, <1>6, <1>11, <2>1, <2>3, <3>1, <3>2, <3>3 DEF ClientAt, MicsAt, Count
  <2>5. ClientMoves(c, s, b)
        BY <1>1, <1>2, <1>3, <2>2, <2>3, <2>4 DEF ClientMoves
  <2> QED BY <1>m, <2>2, <2>5
<1>12. CASE b[2] = 5
  <2>1. p = 4 /\ b[1] = k
        BY <1>1, <1>4, <1>12 DEF Follows, k, p
  <2>2. Spoken
        BY <1>1, <1>7, <1>12 DEF Leads, Event, e
  <2>3. CASE talk.barge /\ k = 1
    <3>1. Len(mic) = 1 /\ ~tells.barged /\ talk.turns = 2
          BY <1>4, <1>5, <1>6, <2>1, <2>3 DEF MicsAt
    <3>2. mic' = NewMic /\ tells' = [tells EXCEPT !.barged = TRUE] /\ GoesOn
          BY <2>2, <2>3, <3>1 DEF Spoken, TurnsSent
    <3>3. /\ tells'.started = tells.started /\ tells'.stopped = tells.stopped
          /\ tells'.transcripts = tells.transcripts /\ tells'.statuses = tells.statuses
          /\ tells'.waiting = tells.waiting /\ tells'.barged = TRUE
          /\ tells' \in [started : Nat, stopped : Nat, transcripts : Nat, waiting : BOOLEAN,
                         barged : BOOLEAN, statuses : Seq(Statuses)]
          BY <1>2, <3>2
    <3>4. /\ mic' \in Seq(Microphones) /\ Len(mic') = 2
          /\ \A t \in 1..1 : mic'[t] = mic[t]
          /\ mic'[2].next = 1 /\ mic'[2].stop = FALSE
      <4>1. /\ mic' \in Seq(Microphones) /\ Len(mic') = Len(mic) + 1
            /\ \A t \in 1..Len(mic) : mic'[t] = mic[t]
            /\ mic'[Len(mic) + 1].next = 1 /\ mic'[Len(mic) + 1].stop = FALSE
            BY ONLY <1>2, <3>2, NewMicStarts
      <4> QED BY <3>1, <4>1
    <3>5. mic[1].stop
      <4>1. 1 \in 1..Len(mic)
            BY <3>1
      <4> QED BY <1>6, <2>1, <2>3, <4>1
    <3>6. \A t \in 1..Len(mic') : mic'[t].stop <=> t < 1 \/ (t = 1 /\ 5 >= 2)
          BY <3>4, <3>5
    <3>7. ClientAt(b[1], b[2])'
          BY <1>2, <1>3, <1>6, <1>12, <2>1, <2>3, <3>1, <3>3, <3>4, <3>6
          DEF ClientAt, MicsAt, Count
    <3>8. ClientMoves(c, s, b)
          BY <1>1, <1>2, <1>3, <3>1, <3>3, <3>4, <3>7 DEF ClientMoves
    <3> QED BY <1>m, <3>2, <3>8
  <2>4. CASE ~(talk.barge /\ k = 1)
    <3>1. talk.barge => k = 2 /\ tells.barged
          BY <1>4, <1>5, <1>6, <2>1, <2>4
    <3>2. mic' = mic /\ tells' = tells /\ GoesOn
          BY <2>2, <3>1 DEF Spoken
    <3>3. ClientAt(b[1], b[2])'
          BY <1>2, <1>3, <1>4, <1>12, <2>1, <3>1, <3>2 DEF ClientAt, MicsAt, Count
    <3>4. ClientMoves(c, s, b)
          BY <1>1, <1>2, <1>3, <3>2, <3>3 DEF ClientMoves
    <3> QED BY <1>m, <3>2, <3>4
  <2> QED BY <2>3, <2>4
<1>13. CASE b[2] = 6
  <2>1. p = 5 /\ b[1] = k
        BY <1>1, <1>4, <1>13 DEF Follows, k, p
  <2>2. /\ ResponseDone(e.status)
        /\ e.status = "completed" \/ (e.status = "cancelled" /\ talk.barge /\ k = 1)
        BY <1>1, <1>7, <1>13, <2>1 DEF Leads, Done, e
  <2>3. tells' = [tells EXCEPT !.statuses = Append(@, e.status)]
        BY <2>2 DEF ResponseDone
  <2>4. tells' = [started |-> tells.started, stopped |-> tells.stopped,
                  transcripts |-> tells.transcripts, waiting |-> tells.waiting,
                  barged |-> tells.barged, statuses |-> Append(tells.statuses, e.status)]
        BY ONLY <1>r, <2>3
  <2>5. e.status \in Statuses
        BY <2>2 DEF Statuses
  <2>6. /\ tells'.started = k /\ tells'.stopped = k /\ tells'.transcripts = k
        /\ tells'.waiting = FALSE /\ tells'.barged = tells.barged
        /\ tells'.statuses = Append(tells.statuses, e.status)
    <3>1. tells.started = k /\ tells.stopped = k /\ tells.transcripts = k
          /\ tells.waiting = FALSE
          BY <1>r, <1>6, <2>1 DEF Count
    <3> QED BY <2>4, <3>1
  <2>7. /\ Len(tells.statuses) = k - 1 /\ Len(tells'.statuses) = k
        /\ tells'.statuses \in Seq(Statuses) /\ tells'.statuses[k] = e.status
        /\ \A i \in 1..(k - 1) : tells'.statuses[i] = tells.statuses[i]
    <3>1. Len(tells.statuses) = k - 1
          BY <1>6, <2>1 DEF Count
    <3> QED BY <1>r, <1>4, <2>5, <2>6, <3>1, AppendProperties
  <2>8. \A i \in 1..Len(tells'.statuses) :
           \/ tells'.statuses[i] = "completed"
           \/ tells'.statuses[i] = "cancelled" /\ talk.barge /\ i = 1
    <3> TAKE i \in 1..Len(tells'.statuses)
    <3>1. CASE i = k
          BY <2>2, <2>7, <3>1
    <3>2. CASE i # k
      <4>1. i \in 1..(k - 1)
            BY <1>4, <2>7, <3>2
      <4> QED BY <1>6, <2>7, <4>1
    <3> QED BY <3>1, <3>2
  <2>9. tells' \in [started : Nat, stopped : Nat, transcripts : Nat, waiting : BOOLEAN,
                    barged : BOOLEAN, statuses : Seq(Statuses)]
        BY <1>r, <2>4, <2>7
  <2>10. CASE k < talk.turns
    <3>1. /\ mic' = IF Len(mic) < talk.turns THEN NewMic ELSE mic
          /\ GoesOn
          BY <1>4, <1>5, <2>2, <2>7, <2>10 DEF ResponseDone, TurnsSent
    <3>2. CASE talk.barge
      <4>1. k = 1 /\ talk.turns = 2 /\ Len(mic) = 2
            BY <1>4, <1>5, <1>6, <2>1, <2>10, <3>2 DEF MicsAt
      <4>2. mic' = mic
            BY <3>1, <4>1
      <4>3. \A t \in 1..Len(mic') : mic'[t].stop <=> t < k \/ t = k
            BY <1>6, <2>1, <4>2
      <4>4. tells'.barged
            BY <1>6, <2>1, <2>6, <3>2
      <4>5. ClientAt(b[1], b[2])'
            BY <1>3, <1>13, <2>1, <2>6, <2>7, <2>8, <3>2, <4>1, <4>2, <4>3, <4>4
            DEF ClientAt, MicsAt, Count
      <4>6. ClientMoves(c, s, b)
            BY <1>1, <1>2, <1>3, <2>9, <4>2, <4>5 DEF ClientMoves
      <4> QED BY <1>m, <3>1, <4>6
    <3>3. CASE ~talk.barge
      <4>1. Len(mic) = k
            BY <1>6, <2>1, <3>3 DEF MicsAt
      <4>2. mic' = NewMic
            BY <2>10, <3>1, <4>1
      <4>3. /\ mic' \in Seq(Microphones) /\ Len(mic') = Len(mic) + 1
            /\ \A t \in 1..Len(mic) : mic'[t] = mic[t]
            /\ mic'[Len(mic) + 1].next = 1 /\ mic'[Len(mic) + 1].stop = FALSE
            BY ONLY <1>2, <4>2, NewMicStarts
      <4>4. \A t \in 1..Len(mic') : mic'[t].stop <=> t < k \/ t = k
        <5> TAKE t \in 1..Len(mic')
        <5>1. CASE t = k + 1
              BY <1>4, <4>1, <4>3, <5>1
        <5>2. CASE t # k + 1
          <6>1. t \in 1..Len(mic) /\ t \in Nat
                BY <1>4, <4>1, <4>3, <5>2
          <6> QED BY <1>6, <2>1, <4>3, <6>1
        <5> QED BY <5>1, <5>2
      <4>5. ~tells'.barged
            BY <1>6, <2>6, <3>3
      <4>6. ClientAt(b[1], b[2])'
        <5>1. Len(mic') = MicsAt(k, 6)'
              BY <1>3, <3>3, <4>1, <4>3 DEF MicsAt
        <5>2. talk'.barge = FALSE /\ k <= talk'.turns /\ k # talk'.turns
              BY <1>3, <1>4, <1>5, <2>10, <3>3
        <5> QED BY ONLY <1>3, <1>13, <2>1, <2>6, <2>7, <2>8, <3>3, <4>4, <4>5, <5>1, <5>2
                DEF ClientAt, Count
      <4>7. /\ Len(mic') >= Len(mic) /\ \A t \in 1..Len(mic) : mic'[t].next = mic[t].next
            /\ \A t \in 1..Len(mic') : t > Len(mic) => mic'[t].next = 1
        <5>1. \A t \in 1..Len(mic') : t > Len(mic) => t = Len(mic) + 1
              BY <1>4, <4>1, <4>3
        <5> QED BY <1>2, <4>3, <5>1
      <4>8. ClientMoves(c, s, b)
            BY <1>1, <1>3, <2>9, <4>3, <4>6, <4>7 DEF ClientMoves
      <4> QED BY <1>m, <3>1, <4>8
    <3> QED BY <3>2, <3>3
  <2>11. CASE ~(k < talk.turns)
    <3>1. k = talk.turns
          BY <1>4, <1>5, <1>6, <2>11
    <3>2. outcome' = "done" /\ pc' = "sessionVerdict"
          BY <1>4, <1>5, <2>2, <2>7, <3>1 DEF ResponseDone, Ends
    <3>3. CASE talk.barge
      <4>1. talk.turns = 2 /\ k = 2 /\ tells'.barged
            BY <1>4, <1>5, <1>6, <2>1, <2>6, <3>1, <3>3
      <4>2. tells'.statuses[2] = "completed"
            BY <2>2, <2>7, <4>1
      <4>3. tells'.statuses[1] = "completed" \/ tells'.statuses[1] = "cancelled"
            BY <2>7, <2>8, <4>1
      <4>4. CASE tells'.statuses[1] = "completed"
            BY <1>3, <3>2, <3>3, <4>4 DEF NeverFailsItself
      <4>5. CASE tells'.statuses[1] = "cancelled"
        <5>1. \E i \in 1..(Len(tells'.statuses) - 1) : tells'.statuses[i] = "cancelled"
              BY <2>7, <4>1, <4>5
        <5>2. Conversed'
              BY <1>3, <2>6, <2>7, <4>1, <4>2, <5>1 DEF Conversed
        <5> QED BY <3>2, <5>2 DEF NeverFailsItself, SessionPassed
      <4> QED BY <3>2, <4>3, <4>4, <4>5
    <3>4. CASE ~talk.barge
      <4>1. tells'.statuses[k] = "completed"
            BY <2>2, <2>7, <3>4
      <4>2. Conversed'
            BY <1>3, <1>4, <2>6, <2>7, <3>1, <3>4, <4>1 DEF Conversed
      <4> QED BY <3>2, <4>2 DEF NeverFailsItself, SessionPassed
    <3> QED BY <3>3, <3>4
  <2> QED BY <2>10, <2>11
<1> QED BY <1>1, <1>4, <1>8, <1>9, <1>10, <1>11, <1>12, <1>13 DEF Follows

\* No read waits for a turn that nobody sends: where the client has received
\* everything and the server listens, a microphone has a frame to send.
LEMMA NeverSilent ==
    ASSUME talk \in Talks, InScope, NEW c \in Points, NEW s \in Points, At(c, s)
    PROVE  ~Silence
<1> SUFFICES ASSUME Silence PROVE FALSE
    OBVIOUS
<1> DEFINE k == c[1]
           p == c[2]
<1>1. down = <<>> /\ server.phase = "listening" /\ \A t \in 1..Len(mic) : ~Sending(t)
      BY DEF Silence, TurnsSent
<1>2. c = s
      BY <1>1, BetweenOrder DEF At, SessionTyped
<1>3. p \in {0, 1, 6}
      BY <1>1, <1>2, ServerPlace DEF At
<1>4. k \in Nat \ {0} /\ Len(mic) \in Nat
      BY DEF Points, At, SessionTyped
<1>5. ServerAt(k, p) /\ ClientAt(k, p)
      BY <1>2 DEF At
<1>6. /\ talk.turns \in Nat \ {0} /\ talk.barge \in BOOLEAN
      /\ talk.barge => talk.turns = 2
      BY TalkInScope
<1>v. Voiced \in Nat \ {0} /\ Frames = Voiced + 2
      BY SessionAssumption DEF Frames
<1> HIDE DEF k, p
<1>7. CASE p = 6
  <2>1. k + 1 \in 1..Len(mic)
        BY <1>4, <1>5, <1>6, <1>7 DEF ClientAt, MicsAt
  <2>2. mic[k + 1].next = 1 /\ ~mic[k + 1].stop
        BY <1>4, <1>5, <2>1 DEF ServerAt, ClientAt
  <2> QED BY <1>1, <1>v, <2>1, <2>2 DEF Sending
<1>8. CASE p \in {0, 1}
  <2>1. k \in 1..Len(mic)
        BY <1>4, <1>5 DEF ServerAt
  <2>2. mic[k].next \in 1..(Voiced + 1)
        BY <1>5, <1>8, <1>v DEF ServerAt
  <2>3. ~mic[k].stop
        BY <1>4, <1>5, <1>8, <2>1 DEF ClientAt
  <2> QED BY <1>1, <1>v, <2>1, <2>2, <2>3 DEF Sending
<1> QED BY <1>3, <1>7, <1>8

-----------------------------------------------------------------------------
(* Transcription without detection *)

LEMMA TranscriptionGoesOn ==
    ASSUME talk \in Talks, InScope, talk.kind = "transcription", Transcribing, pc = "talking",
           \/ Receive \/ Silence
           \/ \E t \in 1..TurnsSent : SendFrame(t)
           \/ Transcribe \/ Speak \/ Respond,
           upsets' = upsets
    PROVE  /\ talk' = talk /\ upsets' = upsets
           /\ IF pc' = pc THEN Transcribing'
              ELSE pc' = "sessionVerdict" /\ NeverFailsItself'
<1> DEFINE n == mic[1].next
<1>v. Voiced \in Nat \ {0} /\ Frames = Voiced + 2
      BY SessionAssumption DEF Frames
<1>1. mic \in Seq(Microphones) /\ Len(mic) = 1 /\ ~mic[1].stop
      BY DEF Transcribing
<1>n. n \in 1..(Frames + 1)
  <2>1. 1 \in 1..Len(mic)
        BY <1>1
  <2>2. \A t \in 1..Len(mic) : mic[t] \in Microphones
    <3>1. mic \in Seq(Microphones)
          BY <1>1
    <3> QED BY ONLY <3>1
  <2>3. mic[1] \in Microphones
        BY <2>1, <2>2
  <2> QED BY <2>3 DEF Microphones, n
<1>2. \/ n <= Frames /\ server.phase = "listening" /\ down = <<>>
      \/ n = Frames + 1 /\ server.phase = "transcribing" /\ down = <<>>
      \/ n = Frames + 1 /\ server.phase = "listening" /\ down = <<Event("transcript")>>
      BY DEF Transcribing
<1>3. talk.turns = 1 /\ ~talk.barge
      BY TalkInScope
<1> HIDE DEF n
<1>4. CASE \E t \in 1..TurnsSent : SendFrame(t)
  <2>1. PICK t \in 1..1 : SendFrame(t)
        BY <1>1, <1>4 DEF TurnsSent
  <2>2. SendFrame(1)
        BY <2>1
  <2>3. /\ Sending(1) /\ mic' = [mic EXCEPT ![1].next = @ + 1]
        /\ Hear(1, n <= Voiced) /\ talk' = talk /\ pc' = pc
        BY <2>2 DEF SendFrame, client, n
  <2>4. n <= Frames /\ down = <<>>
        BY <1>2, <1>v, <1>n, <2>3 DEF Sending, n
  <2>5. /\ server' = [phase |-> IF n = Frames THEN "transcribing" ELSE "listening",
                      hears |-> {1}]
        /\ down' = down
    <3>1. talk.kind = "transcription"
          OBVIOUS
    <3> QED BY ONLY <2>3, <3>1 DEF Hear, n
  <2>6. /\ mic' \in Seq(Microphones) /\ Len(mic') = 1 /\ mic'[1].next = n + 1
        /\ ~mic'[1].stop
    <3>1. 1 \in 1..Len(mic)
          BY <1>1
    <3>2. /\ mic' \in Seq(Microphones) /\ Len(mic') = Len(mic)
          /\ mic'[1].next = mic[1].next + 1
          /\ \A u \in 1..Len(mic) : mic'[u].stop = mic[u].stop
          BY ONLY <1>1, <2>3, <3>1, FrameMoves
    <3> QED BY <1>1, <3>1, <3>2 DEF n
  <2>7. Transcribing'
        BY <1>n, <1>v, <2>4, <2>5, <2>6 DEF Transcribing
  <2> QED BY <2>3, <2>7
<1>5. CASE Transcribe
  <2>1. /\ server.phase = "transcribing" /\ server'.phase = "listening"
        /\ down' = down \o <<Event("transcript")>>
        /\ mic' = mic /\ talk' = talk /\ pc' = pc
        BY <1>5 DEF Transcribe, Tell, client
  <2>2. n = Frames + 1 /\ down = <<>>
        BY <1>2, <2>1
  <2>3. down' = <<Event("transcript")>>
        BY <2>1, <2>2
  <2>4. Transcribing'
        BY <1>1, <2>1, <2>2, <2>3 DEF Transcribing, n
  <2> QED BY <2>1, <2>4
<1>6. CASE Speak \/ Respond
      BY <1>2, <1>6 DEF Speak, Respond
<1>7. CASE Silence
  <2>1. n <= Frames
        BY <1>2, <1>7 DEF Silence
  <2>2. Sending(1)
        BY <1>1, <2>1 DEF Sending, n
  <2> QED BY <1>1, <1>7, <2>2 DEF Silence, TurnsSent
<1>8. CASE Receive
  <2>1. down # <<>> /\ talk' = talk
        BY <1>8 DEF Receive
  <2>2. down = <<Event("transcript")>>
        BY <1>2, <2>1
  <2>3. Head(down).type = "transcript"
        BY <2>2 DEF Event
  <2>4. Transcribed
        BY <1>8, <2>3 DEF Receive
  <2>5. pc' = "sessionVerdict" /\ outcome' = "done"
        BY <2>4 DEF Transcribed, Ends
  <2>6. NeverFailsItself'
        BY <2>1, <2>5 DEF NeverFailsItself, SessionPassed
  <2> QED BY <2>1, <2>5, <2>6
<1> QED BY <1>4, <1>5, <1>6, <1>7, <1>8

-----------------------------------------------------------------------------
(* The conversation as a whole *)

LEMMA ConversationGoesOn ==
    ASSUME talk \in Talks, InScope, talk.kind = "conversation", Conversing, pc = "talking",
           \/ Receive \/ Silence
           \/ \E t \in 1..TurnsSent : SendFrame(t)
           \/ Transcribe \/ Speak \/ Respond,
           upsets' = upsets
    PROVE  /\ talk' = talk
           /\ IF pc' = pc THEN Conversing'
              ELSE pc' = "sessionVerdict" /\ NeverFailsItself'
<1>1. PICK c \in Points, s \in Points : At(c, s)
      BY DEF Conversing
<1>2. CASE Receive
  <2>1. IF pc' = pc /\ outcome' = outcome THEN Conversing'
        ELSE pc' = "sessionVerdict" /\ NeverFailsItself'
        BY <1>1, <1>2, ReceivedGoesOn
  <2>2. talk' = talk
        BY <1>2 DEF Receive
  <2> QED BY <2>1, <2>2
<1>3. CASE Silence
      BY <1>1, <1>3, NeverSilent
<1>4. CASE \E t \in 1..TurnsSent : SendFrame(t)
  <2>1. PICK t \in 1..Len(mic) : SendFrame(t)
        BY <1>4 DEF TurnsSent
  <2>2. Conversing'
        BY <1>1, <2>1, FrameHeard
  <2>3. talk' = talk /\ pc' = pc
        BY <2>1 DEF SendFrame, client
  <2> QED BY <2>2, <2>3
<1>5. CASE Transcribe \/ Speak \/ Respond
  <2>1. Conversing'
        BY <1>1, <1>5, ServerConverses
  <2>2. talk' = talk /\ pc' = pc
        BY <1>5 DEF Transcribe, Speak, Respond, client
  <2> QED BY <2>1, <2>2
<1> QED BY <1>2, <1>3, <1>4, <1>5

\* The first microphone is started before anything is under way.
LEMMA SessionStarts == SessionInv /\ StartSession => SessionInv'
<1> SUFFICES ASSUME SessionInv, StartSession PROVE SessionInv'
    OBVIOUS
<1>1. /\ SessionIdle /\ pc' = "talking" /\ talk' \in Talks
      /\ mic' = NewMic /\ server' = server /\ down' = down /\ tells' = tells /\ upsets' = upsets
      BY DEF SessionInv, StartSession, Talks
<1>2. /\ mic' = <<[next |-> 1, stop |-> FALSE]>> /\ server' = Quiet /\ down' = <<>>
      /\ tells' = NoTells /\ upsets' = 0
      BY <1>1 DEF SessionIdle, NewMic
<1>3. mic'[1] = [next |-> 1, stop |-> FALSE] /\ Len(mic') = 1
      BY <1>2
<1>v. Voiced \in Nat \ {0} /\ Frames = Voiced + 2
      BY SessionAssumption DEF Frames
<1>m. mic' \in Seq(Microphones)
  <2>1. [next |-> 1, stop |-> FALSE] \in Microphones
        BY <1>v DEF Microphones
  <2> QED BY <1>2, <2>1
<1>4. Transcribing'
      BY <1>2, <1>3, <1>m, <1>v DEF Transcribing, Quiet
<1>5. Conversing'
  <2> DEFINE c == <<1, 0>>
  <2>1. c \in Points /\ c[1] = 1 /\ c[2] = 0
        BY DEF Points
  <2>2. Between(down', c, c, talk'.barge)
        BY <1>2, <2>1, BetweenNothing
  <2>3. SessionTyped'
    <3>1. tells' \in [started : Nat, stopped : Nat, transcripts : Nat, waiting : BOOLEAN,
                      barged : BOOLEAN, statuses : Seq(Statuses)]
          BY <1>2 DEF NoTells
    <3> QED BY <1>2, <1>m, <3>1 DEF SessionTyped, Quiet
  <2>4. talk'.turns \in Nat \ {0} /\ talk'.barge \in BOOLEAN
        BY <1>1, SessionAssumption DEF Talks
  <2>5. ClientAt(1, 0)'
        BY <1>2, <1>3, <2>4 DEF ClientAt, Count, MicsAt, NoTells
  <2>6. ServerAt(1, 0)'
        BY <1>2, <1>3 DEF ServerAt
  <2> HIDE DEF c
  <2>7. At(c, c)'
        BY <2>1, <2>2, <2>3, <2>5, <2>6 DEF At
  <2> QED BY <2>1, <2>7 DEF Conversing
<1>6. SessionPhases' = SessionPhases /\ upsets' \in Nat
      BY <1>2 DEF SessionPhases
<1> QED BY <1>1, <1>4, <1>5, <1>6 DEF SessionInv, SessionPhases, NeverFailsItself

LEMMA SessionFinishes == SessionInv /\ FinishSession => SessionInv'
BY DEF SessionInv, FinishSession, SessionPhases, SessionIdle, NeverFailsItself

LEMMA SessionTalks ==
    ASSUME SessionInv, pc = "talking",
           \/ Receive \/ Silence
           \/ \E t \in 1..TurnsSent : SendFrame(t)
           \/ Split \/ Transcribe \/ Speak \/ Respond \/ BreakSession
    PROVE  SessionInv'
<1>1. talk \in Talks /\ upsets \in Nat
      BY DEF SessionInv
<1>2. /\ talk' = talk /\ pc' \in {"talking", "sessionVerdict"}
      /\ upsets' = upsets \/ upsets' = upsets + 1
      BY DEF SessionInv, Receive, Silence, SendFrame, Split, Transcribe, Speak, Respond,
             BreakSession, Upset, client, Ends, GoesOn, SpeechStopped, Transcribed, Spoken,
             ResponseDone, Rejected
<1>3. /\ pc' \in SessionPhases /\ upsets' \in Nat /\ (pc' = "talking" => talk' \in Talks)
      /\ pc' # "idle"
      BY <1>1, <1>2 DEF SessionPhases, Talks
<1>4. CASE upsets' = upsets /\ InScope
  <2>1. ~Split /\ ~BreakSession
        BY <1>1, <1>4 DEF Split, BreakSession, Upset
  <2>2. CASE talk.kind = "transcription"
    <3>1. Transcribing
          BY <1>4, <2>2 DEF SessionInv
    <3>2. IF pc' = pc THEN Transcribing' ELSE pc' = "sessionVerdict" /\ NeverFailsItself'
          BY <1>1, <1>4, <2>1, <2>2, <3>1, TranscriptionGoesOn
    <3> QED BY <1>2, <1>3, <2>2, <3>2 DEF SessionInv, NeverFailsItself
  <2>3. CASE talk.kind = "conversation"
    <3>1. Conversing
          BY <1>4, <2>3 DEF SessionInv
    <3>2. IF pc' = pc THEN Conversing' ELSE pc' = "sessionVerdict" /\ NeverFailsItself'
          BY <1>1, <1>4, <2>1, <2>3, <3>1, ConversationGoesOn
    <3> QED BY <1>2, <1>3, <2>3, <3>2 DEF SessionInv, NeverFailsItself
  <2> QED BY <1>1, <1>4, <2>2, <2>3, TalkInScope
<1>5. CASE upsets' # upsets \/ ~InScope
  <2>1. ~InScope'
        BY <1>1, <1>2, <1>5 DEF InScope
  <2> QED BY <1>3, <2>1 DEF SessionInv, NeverFailsItself, InScope
<1> QED BY <1>4, <1>5

LEMMA SessionStep == SessionInv /\ [SessionNext]_<<pc, sessionVars>> => SessionInv'
<1> SUFFICES ASSUME SessionInv, [SessionNext]_<<pc, sessionVars>> PROVE SessionInv'
    OBVIOUS
<1>1. CASE StartSession
      BY <1>1, SessionStarts
<1>2. CASE FinishSession
      BY <1>2, SessionFinishes
<1>3. CASE /\ pc = "talking"
           /\ \/ Receive \/ Silence
              \/ \E t \in 1..TurnsSent : SendFrame(t)
              \/ Split \/ Transcribe \/ Speak \/ Respond \/ BreakSession
      BY <1>3, SessionTalks
<1>4. CASE UNCHANGED <<pc, sessionVars>>
  <2>1. /\ pc' = pc /\ talk' = talk /\ mic' = mic /\ server' = server /\ down' = down
        /\ tells' = tells /\ outcome' = outcome /\ upsets' = upsets
        BY <1>4 DEF sessionVars
  <2>2. SessionTyped' <=> SessionTyped
        BY <2>1 DEF SessionTyped
  <2>3. \A c \in Points, s \in Points : At(c, s) => At(c, s)'
    <3> TAKE c \in Points, s \in Points
    <3>1. ClientAt(c[1], c[2]) => ClientAt(c[1], c[2])'
          BY <2>1 DEF ClientAt, Count, MicsAt
    <3>2. ServerAt(s[1], s[2]) => ServerAt(s[1], s[2])'
          BY <2>1 DEF ServerAt
    <3> QED BY <2>1, <2>2, <3>1, <3>2 DEF At
  <2>4. Conversing => Conversing'
        BY <2>3 DEF Conversing
  <2>5. (SessionIdle => SessionIdle') /\ (Transcribing => Transcribing') /\ (InScope' => InScope)
        BY <2>1 DEF SessionIdle, Transcribing, InScope
  <2>6. NeverFailsItself => NeverFailsItself'
        BY <2>1 DEF NeverFailsItself, SessionPassed, Conversed
  <2> QED BY <2>1, <2>4, <2>5, <2>6 DEF SessionInv
<1> QED BY <1>1, <1>2, <1>3, <1>4 DEF SessionNext

\* A realtime conversation of any length, with a microphone per turn, the
\* server's voice activity detection and the client's one loop, keeps the
\* bookkeeping of turns, events and counts of SessionInv.
THEOREM SessionInvariant == SessionSpec => []SessionInv
<1>1. pc = "idle" /\ SessionIdle => SessionInv
      BY DEF SessionIdle, SessionInv, SessionPhases, NeverFailsItself
<1> QED BY <1>1, SessionStep, PTL DEF SessionSpec

\* The client (realtime_transcription in client.py) fails no conversation that
\* nothing disturbs, whatever the length of the turns, and however many there
\* are without barge-in.
THEOREM SessionNeverFailsItself == SessionSpec => []NeverFailsItself
<1>1. SessionInv => NeverFailsItself
      BY DEF SessionInv
<1> QED BY <1>1, SessionInvariant, PTL

=============================================================================
