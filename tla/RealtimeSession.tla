--------------------------- MODULE RealtimeSession ---------------------------
(***************************************************************************)
(* One realtime conversation (SkulkClient.realtime_transcription in        *)
(* src/src/skulk_test_harness/client.py): the client reads the events of a *)
(* websocket in one loop, and a microphone thread per turn sends audio on  *)
(* the same socket.  The server's voice activity detection ends a turn,    *)
(* the next one starts after the response, or into it when the test barges *)
(* in.                                                                     *)
(*                                                                         *)
(* The server is external.  It listens, transcribes and responds; it       *)
(* rejects audio while it transcribes, and speech cancels a response.  A   *)
(* turn is Voiced frames of speech, a frame of silence at which the server *)
(* ends the utterance, and one more frame of silence, which is late.       *)
(***************************************************************************)
EXTENDS Harness, Integers, Sequences, FiniteSets

CONSTANTS
    MaxTurns,          \* realtime_turn_count is at most this
    Voiced,            \* frames of speech of a turn
    MaxSessionFaults   \* bound: split utterances, failures, broken sockets

ASSUME SessionAssumption ==
    /\ MaxTurns \in Nat \ {0} /\ Voiced \in Nat \ {0} /\ MaxSessionFaults \in Nat

VARIABLES
    talk,      \* the session: kind, turns, barge (realtime_barge_in)
    mic,       \* the microphone of every turn: next frame, stopped
    server,    \* phase, the turns it hears, whether it is in an utterance
    down,      \* events on their way to the client
    tells,     \* what the client counted
    outcome,   \* "open", "done" or "failed"
    upsets     \* how much went wrong so far

sessionVars == <<talk, mic, server, down, tells, outcome, upsets>>

NoTalk == [kind |-> "transcription", turns |-> 1, barge |-> FALSE]
Quiet == [phase |-> "listening", hears |-> {}]
NoTells == [started |-> 0, stopped |-> 0, transcripts |-> 0, waiting |-> FALSE,
            barged |-> FALSE, statuses |-> <<>>]

Frames == Voiced + 2
TurnsSent == Len(mic)
Upset == upsets < MaxSessionFaults /\ upsets' = upsets + 1

Event(type) == [type |-> type]
Tell(events) == down' = down \o events

SessionIdle ==
    /\ talk = NoTalk /\ mic = <<>> /\ server = Quiet /\ down = <<>>
    /\ tells = NoTells /\ outcome = "open" /\ upsets = 0

NewMic == Append(mic, [next |-> 1, stop |-> FALSE])

\* The session is created and updated, and the first turn is sent.
StartSession ==
    /\ pc = "idle" /\ pc' = "talking"
    /\ talk' \in {t \in [kind : {"transcription", "conversation"}, turns : 1..MaxTurns,
                         barge : BOOLEAN] :
                    /\ t.turns > 1 => t.kind = "conversation"
                    /\ t.barge => t.turns > 1}
    /\ mic' = NewMic
    /\ UNCHANGED <<server, down, tells, outcome, upsets>>

-----------------------------------------------------------------------------
(* The microphones: threads on the same socket *)

client == <<pc, talk, tells, outcome>>

Sending(t) == ~mic[t].stop /\ mic[t].next <= Frames

\* What the server makes of a frame of turn t.
Hear(t, voiced) ==
    IF talk.kind = "transcription"
    THEN \* No detection: the client commits when it sent every frame.
         /\ server' = [phase |-> IF mic[t].next = Frames THEN "transcribing"
                                 ELSE "listening",
                       hears |-> {t}]
         /\ UNCHANGED down
    ELSE
    CASE server.phase = "transcribing" ->
            Tell(<<Event("turn_in_progress")>>) /\ UNCHANGED server
      [] server.phase = "listening" /\ voiced ->
            /\ server' = [server EXCEPT !.hears = @ \cup {t}]
            /\ IF server.hears = {} THEN Tell(<<Event("started")>>) ELSE UNCHANGED down
      [] server.phase = "responding" /\ voiced ->
            /\ server' = [phase |-> "listening", hears |-> {t}]
            /\ Tell(<<[type |-> "done", status |-> "cancelled"], Event("started")>>)
      [] server.phase = "listening" /\ ~voiced /\ server.hears # {} ->
            /\ server' = [server EXCEPT !.phase = "transcribing"]
            /\ Tell(<<Event("stopped")>>)
      [] OTHER -> UNCHANGED <<server, down>>

SendFrame(t) ==
    /\ Sending(t)
    /\ mic' = [mic EXCEPT ![t].next = @ + 1]
    /\ Hear(t, mic[t].next <= Voiced)
    /\ UNCHANGED <<client, upsets>>

-----------------------------------------------------------------------------
(* The server *)

\* A pause in the speech ends the utterance too early.
Split ==
    /\ talk.kind = "conversation" /\ server.phase = "listening" /\ server.hears # {}
    /\ Upset
    /\ server' = [server EXCEPT !.phase = "transcribing"]
    /\ Tell(<<Event("stopped")>>)
    /\ UNCHANGED <<client, mic>>

Transcribe ==
    /\ server.phase = "transcribing"
    /\ server' = [phase |-> IF talk.kind = "conversation" THEN "responding" ELSE "listening",
                  hears |-> {}]
    /\ Tell(<<Event("transcript")>>)
    /\ UNCHANGED <<client, mic, upsets>>

\* The response speaks once, and ends.
Speak ==
    /\ server.phase = "responding" /\ "spoke" \notin server.hears
    /\ server' = [server EXCEPT !.hears = {"spoke"}]
    /\ Tell(<<Event("audio")>>)
    /\ UNCHANGED <<client, mic, upsets>>

Respond ==
    /\ server.phase = "responding"
    /\ \/ "spoke" \in server.hears /\ UNCHANGED upsets
          /\ Tell(<<[type |-> "done", status |-> "completed"]>>)
       \/ Upset /\ Tell(<<[type |-> "done", status |-> "failed"]>>)
    /\ server' = Quiet
    /\ UNCHANGED <<client, mic>>

\* The session fails in the server, or the socket breaks.
BreakSession ==
    /\ Upset /\ Tell(<<Event("failed")>>)
    /\ UNCHANGED <<client, mic, server>>

-----------------------------------------------------------------------------
(* The client's loop *)

Ends(how) == outcome' = how /\ pc' = "sessionVerdict"
GoesOn == UNCHANGED <<pc, outcome>>

\* stop_active_sender: the microphone that was started last.
StopActive == mic' = [mic EXCEPT ![Len(mic)].stop = TRUE]

\* Mutant: the loop does not remember that a transcript is due.
StoppedUnnoted ==
    /\ tells' = [tells EXCEPT !.stopped = @ + 1]
    /\ StopActive /\ GoesOn

SpeechStopped ==
    /\ tells' = [tells EXCEPT !.stopped = @ + 1, !.waiting = TRUE]
    /\ StopActive /\ GoesOn

Transcribed ==
    /\ tells' = [tells EXCEPT !.transcripts = @ + 1, !.waiting = FALSE]
    /\ IF talk.kind = "transcription" THEN Ends("done") ELSE GoesOn
    /\ UNCHANGED mic

\* Barge in: the next turn starts with the first audio of the response.
Spoken ==
    /\ IF talk.barge /\ ~tells.barged /\ TurnsSent < talk.turns
       THEN mic' = NewMic /\ tells' = [tells EXCEPT !.barged = TRUE]
       ELSE UNCHANGED <<mic, tells>>
    /\ GoesOn

ResponseDone(status) ==
    /\ tells' = [tells EXCEPT !.statuses = Append(@, status)]
    /\ IF Len(tells'.statuses) >= talk.turns
       THEN StopActive /\ Ends("done")
       ELSE /\ mic' = IF TurnsSent < talk.turns THEN NewMic ELSE mic
            /\ GoesOn

\* _is_recoverable_vad_late_frame: audio that was queued past the end of a turn.
Recoverable == tells.waiting

Rejected ==
    /\ IF Recoverable THEN GoesOn ELSE Ends("failed")
    /\ UNCHANGED <<tells, mic>>

\* send_turn returns to the loop when the first frame of the turn is sent.
Reading == \A t \in 1..TurnsSent : mic[t].next > 1

Receive ==
    /\ Reading /\ down # <<>>
    /\ down' = Tail(down)
    /\ LET event == Head(down) IN
       CASE event.type = "started" ->
               /\ tells' = [tells EXCEPT !.started = @ + 1]
               /\ GoesOn /\ UNCHANGED mic
         [] event.type = "stopped"    -> SpeechStopped
         [] event.type = "transcript" -> Transcribed
         [] event.type = "audio"      -> Spoken
         [] event.type = "done"       -> ResponseDone(event.status)
         [] event.type = "turn_in_progress" -> Rejected
         [] OTHER -> Ends("failed") /\ UNCHANGED <<tells, mic>>
    /\ UNCHANGED <<talk, server, upsets>>

\* Nothing is left to come: the read times out.
Silence ==
    /\ down = <<>> /\ server.phase = "listening"
    /\ \A t \in 1..TurnsSent : ~Sending(t)
    /\ Ends("failed")
    /\ UNCHANGED <<talk, mic, server, down, tells, upsets>>

\* _score_realtime_conversation
Conversed ==
    /\ \A n \in {tells.started, tells.stopped, tells.transcripts, Len(tells.statuses)} :
          n >= talk.turns
    /\ tells.statuses # <<>> => tells.statuses[Len(tells.statuses)] = "completed"
    /\ talk.barge =>
          /\ tells.barged
          /\ \E i \in 1..(Len(tells.statuses) - 1) : tells.statuses[i] = "cancelled"

SessionPassed == outcome = "done" /\ (talk.kind = "conversation" => Conversed)

FinishSession ==
    /\ pc = "sessionVerdict" /\ pc' = "idle"
    /\ talk' = NoTalk /\ mic' = <<>> /\ server' = Quiet /\ down' = <<>>
    /\ tells' = NoTells /\ outcome' = "open" /\ upsets' = 0

SessionNext ==
    \/ StartSession \/ FinishSession
    \/ /\ pc = "talking"
       /\ \/ Receive \/ Silence
          \/ \E t \in 1..TurnsSent : SendFrame(t)
          \/ Split \/ Transcribe \/ Speak \/ Respond \/ BreakSession

SessionSpec ==
    pc = "idle" /\ SessionIdle /\ [][SessionNext]_<<pc, sessionVars>>

-----------------------------------------------------------------------------
(* Properties *)

\* A conversation in which no pause was taken for an end and nothing failed, of
\* any number of turns, or of two when the second barges in, is not failed by
\* the client: the rejections of audio that its microphones send past the end of
\* a turn, in whatever order threads, server and loop run, come while it waits
\* for the transcript, no read waits for a turn that nobody sends, and all counts
\* are reached.  Only a response that is over before the barge-in is heard fails
\* it.  With barge-in a third turn starts while the second still speaks, and
\* stop_active_sender stops the wrong one of the two.
NeverFailsItself ==
    pc = "sessionVerdict" /\ upsets = 0 /\ (talk.turns <= 2 \/ ~talk.barge) =>
        \/ SessionPassed
        \/ talk.barge /\ outcome = "done" /\ tells.statuses[1] = "completed"

=============================================================================
