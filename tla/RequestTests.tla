---------------------------- MODULE RequestTests ----------------------------
(***************************************************************************)
(* The tests of a model that are one request, or one and a follow-up:      *)
(* chat with the round trip of its tool results, cancellation, expected    *)
(* errors, embeddings, images, speech, voices and transcription (_run_test *)
(* and the methods it calls in                                             *)
(* src/src/skulk_test_harness/orchestrator.py).                            *)
(*                                                                         *)
(* The server gives any answer, refuses with a status and a body, or the   *)
(* transport breaks.  Most clients turn both into a SkulkApiError; those   *)
(* of embeddings and generated images let a broken transport through, and  *)
(* the run counts the model as failed (ModelRun).                          *)
(***************************************************************************)
EXTENDS Harness, OutputScore

VARIABLES
    trial,     \* the test
    answer,    \* what the request returned, an answer or an error
    again,     \* what the follow-up returned
    blots      \* the kinds of issues

requestVars == <<trial, answer, again, blots>>

-----------------------------------------------------------------------------
(* Tests and replies *)

\* Some chat tests ask about tool calls, others about the text.
ExpectedCalls == UNION {[1..n -> Expectations] : n \in 0..2}
Chats ==
    [kind : {"chat"}, mocks : SUBSET Tools,
     asks : [expect : ExpectedCalls, least : {0, 2}, generated : {FALSE},
             hidden : {FALSE}, thought : {FALSE}, floor : {FALSE}, ordered : {FALSE}]]
    \cup
    [kind : {"chat"}, mocks : {{}},
     asks : [expect : {<<>>}, least : {0}, generated : BOOLEAN, hidden : BOOLEAN,
             thought : BOOLEAN, floor : BOOLEAN, ordered : BOOLEAN]]

\* A test of another kind asks for more or less.
OtherTrials == [kind : {"cancel", "error", "embedding", "image", "edit", "speech",
                        "streamed", "voices", "transcription", "roundtrip"},
                asks : BOOLEAN]

EmittedCalls == UNION {[1..n -> ToolCalls] : n \in 0..2}
ChatAnswers ==
    {[Plain EXCEPT !.calls = c] : c \in EmittedCalls}
    \cup [calls : {<<>>}, text : Lengths, thought : Lengths,
          marked : SUBSET {"text", "thought"}, numbers : {<<>>},
          rate : {"unmeasured", "slow", "fast"}, content : BOOLEAN]
    \cup {[Plain EXCEPT !.numbers = o] : o \in UNION {[1..n -> 1..Target] : n \in 0..Target}}

\* The parser cuts a stream off at the chunk that it was told; a stream that
\* ends before has fewer.
CutStreams == {[cut |-> TRUE, chunks |-> "asked"], [cut |-> FALSE, chunks |-> "fewer"]}

Transcripts == UNION {[1..n -> Words] : n \in 0..2}

\* Follow-ups are asked in plain words.
FollowUps == {Plain, [Plain EXCEPT !.text = "none"],
              [Plain EXCEPT !.text = "none", !.thought = "enough"]}

Nothing == [got |-> "nothing"]
Got(a) == [got |-> "answer", answer |-> a]
Refusals == [got : {"refused"}, status : {"expected", "other"}, body : BOOLEAN]
Broken == [got |-> "broken"]

NoTrial == [kind |-> "none", asks |-> FALSE]

-----------------------------------------------------------------------------
(* The tests *)

RequestIdle == trial = NoTrial /\ answer = Nothing /\ again = Nothing /\ blots = {}

StartRequest ==
    /\ pc = "idle" /\ pc' = "ask"
    /\ trial' \in Chats \cup OtherTrials
    /\ UNCHANGED <<answer, again, blots>>

Tries(kind) == pc = "ask" /\ trial.kind = kind
Settled == pc' = "requestVerdict" /\ UNCHANGED <<trial, again>>

\* The server's answer goes on to the next step.
Gives(answers, next, kinds) ==
    /\ \E a \in answers : answer' = Got(a)
    /\ blots' = kinds /\ pc' = next
    /\ UNCHANGED <<trial, again>>

\* The API refuses, or the transport breaks and the client says so.
RequestFails ==
    /\ answer' \in Refusals \cup {Broken}
    /\ blots' = {"request"} /\ Settled

\* A broken transport that neither client nor test turns into an issue.
TransportEscapes ==
    /\ answer' = Broken
    /\ blots' = {"run"} /\ Settled

\* A file that is not there, or an answer that cannot be parsed.
Unusable == blots' = {"request"} /\ Settled /\ UNCHANGED answer

\* _tool_roundtrip_messages: each emitted call needs the result of its mock.
Unmocked(a) == \E i \in DOMAIN a.calls : a.calls[i].name \notin trial.mocks
ToolsToAnswer(a) == trial.mocks # {} /\ a.calls # <<>>

Chat ==
    /\ Tries("chat")
    /\ \/ \E a \in ChatAnswers :
             IF ToolsToAnswer(a) /\ ~Unmocked(a) THEN Gives({a}, "again", {})
             ELSE Gives({a}, "score", IF ToolsToAnswer(a) THEN {"mock"} ELSE {})
       \/ RequestFails

\* What the cancelled stream lacks.
CutBlots(a) ==
    (IF ~a.cut THEN {"uncut"} ELSE {}) \cup (IF a.chunks = "fewer" THEN {"chunks"} ELSE {})

Cancel ==
    /\ Tries("cancel")
    /\ \/ \E a \in CutStreams : Gives({a}, "again", CutBlots(a))
       \/ RequestFails

\* The error of the API is what the test is after; a broken transport has
\* neither a status nor a body that a test would expect.
ErrorBlots(reply) ==
    IF ~trial.asks THEN {}
    ELSE IF reply = Broken THEN {"status", "body"}
    ELSE (IF reply.status = "other" THEN {"status"} ELSE {})
         \cup (IF ~reply.body THEN {"body"} ELSE {})

ExpectError ==
    /\ Tries("error")
    /\ \/ Gives({"success"}, "again", {"succeeded"})
       \/ /\ answer' \in Refusals \cup {Broken}
          /\ blots' = ErrorBlots(answer')
          /\ pc' = "again" /\ UNCHANGED <<trial, again>>

\* What the server may get wrong.
Replies(kind) == SUBSET Flaws(kind, TRUE)

Embedding ==
    /\ Tries("embedding")
    /\ Gives(Replies("embedding"), "score", {}) \/ RequestFails \/ Unusable
       \/ TransportEscapes

\* The request of a generated image is JSON, that of an edited one a form.
Image ==
    /\ Tries("image") \/ Tries("edit")
    /\ \/ Gives(Replies(trial.kind), "score", {}) \/ RequestFails \/ Unusable
       \/ trial.kind = "image" /\ TransportEscapes

Speech ==
    /\ Tries("speech") \/ Tries("streamed")
    /\ Gives(Replies(trial.kind), "score", {}) \/ RequestFails \/ Unusable

Voices ==
    /\ Tries("voices")
    /\ Gives(Replies("voices"), "score", {}) \/ RequestFails \/ Unusable

Transcription ==
    /\ Tries("transcription")
    /\ Gives(Replies("transcription"), "score", {}) \/ RequestFails \/ Unusable

\* The prompt is spoken and transcribed again; the models are SpeechModels'.
RoundTrip ==
    /\ Tries("roundtrip")
    /\ Gives(Transcripts \X Transcripts, "score", {}) \/ RequestFails

\* The error test follows up only if it has a prompt for it.
AskAgain ==
    /\ pc = "again" /\ pc' = "score"
    /\ \/ \E a \in FollowUps : again' = Got(a) /\ UNCHANGED blots
       \/ again' = Broken /\ blots' = blots \cup {"followup"}
       \/ trial.kind = "error" /\ UNCHANGED <<again, blots>>
    /\ UNCHANGED <<trial, answer>>

AnswerOf(reply) == IF reply.got = "answer" THEN reply.answer
                   ELSE [Plain EXCEPT !.text = "none"]

\* The text of the follow-up is scored with the calls of the first answer.
ScoreBlots ==
    CASE trial.kind = "chat" ->
            ScoreOutput(trial.asks, AnswerOf(IF again.got = "answer" THEN again ELSE answer),
                        answer.answer.calls)
      [] trial.kind = "cancel" -> ScoreOutput(Asked, AnswerOf(again), <<>>)
      [] trial.kind = "error" ->
            IF again.got = "answer" /\ again.answer.text = "none"
               /\ again.answer.thought = "none" THEN {"empty"} ELSE {}
      [] trial.kind = "roundtrip" ->
            IF trial.asks /\ TooManyErrors(answer.answer[1], answer.answer[2])
            THEN {"words"} ELSE {}
      [] OTHER -> ScoreReply(trial.kind, trial.asks, answer.answer)

Judge ==
    /\ pc = "score" /\ pc' = "requestVerdict"
    /\ blots' = blots \cup ScoreBlots
    /\ UNCHANGED <<trial, answer, again>>

RequestPassed == blots = {}

FinishRequest ==
    /\ pc = "requestVerdict" /\ pc' = "idle"
    /\ trial' = NoTrial /\ answer' = Nothing /\ again' = Nothing /\ blots' = {}

RequestNext ==
    \/ StartRequest \/ Chat \/ Cancel \/ ExpectError \/ Embedding \/ Image \/ Speech
    \/ Voices \/ Transcription \/ RoundTrip \/ AskAgain \/ Judge \/ FinishRequest

RequestSpec == pc = "idle" /\ RequestIdle /\ [][RequestNext]_<<pc, requestVars>>

-----------------------------------------------------------------------------
(* Properties *)

\* A test passes only on evidence, however its requests were mixed: each call
\* that it expects was emitted once for itself, the calls that it mocks were
\* answered by the model that got all their results, a cancelled model serves
\* the next request, and a model that was to refuse did not answer.
PassIsAnswered ==
    pc = "requestVerdict" /\ RequestPassed =>
        /\ trial.kind # "error" => answer.got = "answer"
        /\ trial.kind = "chat" =>
              /\ Assignable(answer.answer.calls, trial.asks.expect)
              /\ Len(answer.answer.calls) >= trial.asks.least
              /\ trial.mocks # {} /\ answer.answer.calls # <<>> => again.got = "answer"
        /\ trial.kind = "cancel" => answer.answer.cut /\ again.got = "answer"
        /\ trial.kind = "error" => answer.got # "answer" /\ again # Broken

\* The word errors by which a round trip is judged are the least number of
\* words to insert, delete and replace.
WordErrorsAreDistance ==
    pc = "requestVerdict" /\ trial.kind = "roundtrip" /\ answer.got = "answer" =>
        WordErrors(answer.answer[1], answer.answer[2])
            = EditDistance(answer.answer[1], answer.answer[2])
=============================================================================
