------------------------------ MODULE SkulkClient ------------------------------
(***************************************************************************)
(* The calls of the harness to the API of a node (SkulkClient in           *)
(* src/src/skulk_test_harness/client.py): JSON requests with their         *)
(* retries, requests that are posted once, streams, and the discovery of   *)
(* a route to every node.                                                  *)
(*                                                                         *)
(* The server is external: it runs a request that reaches it, also when    *)
(* its answer is lost on the way back.                                     *)
(***************************************************************************)
EXTENDS Harness, Integers, FiniteSets

CONSTANTS
    MaxAttempts,   \* _MAX_TRANSPORT_RETRIES
    MaxItems,      \* bound: items of a stream
    Self,          \* the node that is called
    Peers,         \* the other nodes
    Routes         \* URLs of other nodes that the client may find

ASSUME ClientAssumption ==
    /\ MaxAttempts \in Nat \ {0} /\ MaxItems \in Nat
    /\ IsFiniteSet(Peers) /\ Self \notin Peers /\ IsFiniteSet(Routes)

VARIABLES
    call,      \* the call: its kind and, of a stream, when to cut it
    wire,      \* attempts made, and how often the server ran the request
    heard,     \* items of the stream so far, and how many are chunks
    serves,    \* the node that answers at a URL
    apiOwners, \* routes found: node, url and where it was found
    returned   \* how the call ended

clientVars == <<call, wire, heard, serves, apiOwners, returned>>

NoCall == [kind |-> "none", cut |-> 0]
Unsent == [attempts |-> 0, ran |-> 0]
Unheard == [items |-> 0, chunks |-> 0]
Unrouted == [url \in Routes |-> "nobody"]

ClientIdle ==
    /\ call = NoCall /\ wire = Unsent /\ heard = Unheard
    /\ serves = Unrouted /\ apiOwners = {} /\ returned = "nothing"

\* GET requests and requests that change something go through _request_json,
\* and so do those of embeddings, generated images and benchmarked chats.
Reads     == {"state", "diagnostics", "models", "store", "voices", "previews"}
Changes   == {"addCard", "download", "place", "delete", "evict"}
JsonPosts == {"embed", "draw", "bench"}
Mutations == Changes \cup JsonPosts

\* What is posted as a form, once.
EditPosts       == {"edit"}
TranscriptPosts == {"transcribe", "translate"}
Posts           == EditPosts \cup TranscriptPosts

ChatStreams       == {"chat"}
SpeechStreams     == {"speech"}
TranscriptStreams == {"transcript"}
StreamCalls       == ChatStreams \cup SpeechStreams \cup TranscriptStreams

\* Speech is never cut; 0 is never.
StartCall ==
    /\ pc = "idle"
    /\ \E kind \in Reads \cup Mutations \cup Posts \cup StreamCalls \cup {"owners"},
          cut \in 0..2 :
          /\ cut > 0 => kind \in {"chat", "transcript"}
          /\ call' = [kind |-> kind, cut |-> cut]
          /\ IF kind = "owners"
             THEN pc' = "discover" /\ serves' \in [Routes -> Peers \cup {Self, "nobody"}]
             ELSE pc' = "call" /\ UNCHANGED serves
    /\ UNCHANGED <<wire, heard, apiOwners, returned>>

Return(how) == returned' = how /\ pc' = "returned"

-----------------------------------------------------------------------------
(* Requests *)

\* What becomes of an attempt: no connection, the request or its answer lost,
\* an answer.
Fates == {"unconnected", "unwritten", "unread", "answered"}

\* How often the server runs a request with this fate.
Runs(fate) ==
    CASE fate = "unconnected" -> {0}
      [] fate = "answered"    -> {1}
      [] OTHER                -> {0, 1}

\* Mutant: mutations retry what reads do.
RetriesAll(kind, fate) == kind \in Reads \cup Mutations /\ fate # "answered"

\* _READ_ and _MUTATION_RETRYABLE_TRANSPORT_ERRORS; what is posted without
\* _request_json is not retried.
Retries(kind, fate) ==
    \/ kind \in Reads /\ fate # "answered"
    \/ kind \in Mutations /\ fate = "unconnected"

\* _request_json and the requests that are posted once.  A transport error
\* that is not retried is an error of the API except in _request_json, which
\* lets it through.
Attempt ==
    /\ pc = "call" /\ call.kind \notin StreamCalls
    /\ \E fate \in Fates : \E n \in Runs(fate) :
          /\ wire' = [attempts |-> wire.attempts + 1, ran |-> wire.ran + n]
          /\ \/ fate = "answered" /\ \E how \in {"value", "refused", "unparsed"} : Return(how)
             \/ /\ fate # "answered"
                /\ IF Retries(call.kind, fate) /\ wire.attempts + 1 < MaxAttempts
                   THEN UNCHANGED <<pc, returned>>
                   ELSE Return(IF call.kind \in Posts THEN "refused" ELSE "broken")
    /\ UNCHANGED <<call, heard, serves, apiOwners>>

-----------------------------------------------------------------------------
(* Streams *)

\* Text and reasoning are chunks; tool calls, statistics and what cannot be
\* parsed are not.
ChatItems == {"text", "thought", "toolcall", "comment"}
TranscriptItems == {"delta", "progress"}
Counts(item) == item \in {"text", "thought", "delta"}

BeginStream ==
    /\ pc = "call" /\ call.kind \in StreamCalls
    /\ \E fate \in Fates : \E n \in Runs(fate) :
          /\ wire' = [attempts |-> 1, ran |-> n]
          /\ IF fate = "answered" THEN pc' = "stream" /\ UNCHANGED returned ELSE Return("refused")
    /\ UNCHANGED <<call, heard, serves, apiOwners>>

\* An item comes; the one that completes the count ends the stream.
FeedItem ==
    /\ pc = "stream" /\ heard.items < MaxItems
    /\ \E item \in CASE call.kind = "chat" -> ChatItems
                     [] call.kind = "transcript" -> TranscriptItems
                     [] OTHER -> {"bytes"} :
          heard' = [items  |-> heard.items + 1,
                    chunks |-> heard.chunks + IF Counts(item) THEN 1 ELSE 0]
    /\ IF call.cut > 0 /\ heard'.chunks >= call.cut
       THEN Return("cut") ELSE UNCHANGED <<pc, returned>>
    /\ UNCHANGED <<call, wire, serves, apiOwners>>

\* The server says that it is done or just closes, which looks the same; or
\* the transport breaks.  Transcripts report an error of their own.
EndStream ==
    /\ pc = "stream"
    /\ \/ Return("value")
       \/ Return("refused")
       \/ call.kind = "transcript" /\ Return("unparsed")
    /\ UNCHANGED <<call, wire, heard, serves, apiOwners>>

-----------------------------------------------------------------------------
(* get_cluster_api_owners *)

Owner(node, url, found) == [node |-> node, url |-> url, found |-> found]
Known == {o.node : o \in apiOwners}

\* A candidate that no owner has and at which somebody answers.
FreeRoute(url) == url \notin {o.url : o \in apiOwners} /\ serves[url] # "nobody"

\* The node that is called comes first, if it answers.
FirstOwner ==
    /\ pc = "discover" /\ apiOwners = {}
    /\ \/ apiOwners' = {Owner(Self, "base", "self")} /\ UNCHANGED <<pc, returned>>
       \/ Return("broken") /\ UNCHANGED apiOwners
    /\ UNCHANGED <<call, wire, heard, serves>>

\* The diagnostics name the nodes that answered them, some or all; a candidate
\* at which anybody answers is taken.
Discover ==
    /\ pc = "discover" /\ apiOwners # {}
    /\ \/ \E node \in Peers \ Known, url \in Routes :
            /\ FreeRoute(url)
            /\ apiOwners' = apiOwners \cup {Owner(node, url, "diagnostics")} /\ UNCHANGED pc
       \/ pc' = "fill" /\ UNCHANGED apiOwners
    /\ UNCHANGED <<call, wire, heard, serves, returned>>

\* Nodes of the replicated state that are still missing; at a candidate the
\* node itself must answer.
FillIn ==
    /\ pc = "fill"
    /\ \/ \E node \in Peers \ Known, url \in Routes :
            /\ FreeRoute(url) /\ serves[url] = node
            /\ apiOwners' = apiOwners \cup {Owner(node, url, "state")} /\ UNCHANGED <<pc, returned>>
       \/ Return("value") /\ UNCHANGED apiOwners
       \/ Return("broken") /\ UNCHANGED apiOwners   \* the state is not to be had
    /\ UNCHANGED <<call, wire, heard, serves>>

FinishCall ==
    /\ pc = "returned" /\ pc' = "idle"
    /\ call' = NoCall /\ wire' = Unsent /\ heard' = Unheard /\ serves' = Unrouted
    /\ apiOwners' = {} /\ returned' = "nothing"

ClientNext ==
    \/ StartCall \/ Attempt \/ BeginStream \/ FeedItem \/ EndStream
    \/ FirstOwner \/ Discover \/ FillIn \/ FinishCall

ClientSpec == pc = "idle" /\ ClientIdle /\ [][ClientNext]_<<pc, clientVars>>

-----------------------------------------------------------------------------
(* Properties *)

Calls == [kind : Reads \cup Mutations \cup Posts \cup StreamCalls \cup {"none", "owners"},
          cut : 0..2]
Endings == {"nothing", "value", "refused", "unparsed", "broken", "cut"}

\* What the state of a call looks like.
ClientTypeOK ==
    /\ call \in Calls
    /\ wire \in [attempts : 0..MaxAttempts, ran : Nat]
    /\ heard \in [items : Nat, chunks : Nat]
    /\ serves \in [Routes -> Peers \cup {Self, "nobody"}]
    /\ apiOwners \subseteq [node : Peers \cup {Self}, url : Routes \cup {"base"},
                           found : {"self", "diagnostics", "state"}]
    /\ returned \in Endings

\* A placement, deletion or download that may have reached the server is not
\* sent again: however the attempts end, the server runs it at most once, and
\* a value means that it ran.
MutationOnce ==
    /\ call.kind \in Mutations \cup Posts => wire.ran <= 1
    /\ returned = "value" /\ call.kind # "owners" => wire.ran >= 1

\* A stream that was cut holds exactly the chunks it was to be cut after, one
\* that was not holds fewer, whatever else came between them.
CutIsExact ==
    call.cut > 0 /\ pc \in {"stream", "returned"} =>
        IF returned = "cut" THEN heard.chunks = call.cut ELSE heard.chunks < call.cut

\* No node is found twice and no URL serves two nodes, whichever of the two
\* sources found them, and at a route that the replicated state gave the node
\* itself answers: traffic spread over the owners is spread over the nodes.
OwnersDistinct ==
    /\ \A o, p \in apiOwners : o.node = p.node \/ o.url = p.url => o = p
    /\ \A o \in apiOwners : o.found = "state" => serves[o.url] = o.node
=============================================================================
