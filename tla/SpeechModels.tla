---------------------------- MODULE SpeechModels ----------------------------
(***************************************************************************)
(* The secondary models of the speech tests (speech pressure, streaming    *)
(* transcription, realtime, round trip and reference round trip in         *)
(* src/src/skulk_test_harness/orchestrator.py).  A test needs other models *)
(* beside its own, a synthesizer for its input say; it has each placed or  *)
(* reuses what is there, works with them, and takes down what it made.     *)
(* Every kind of test keeps its own books of what it made.                 *)
(*                                                                         *)
(* _ensure_model_placed is the subject of ModelRun; here it ends in one of *)
(* the ways it can: reused, made and ready, made and never ready, refused, *)
(* or an exception on either side of the request.  Instances outlive the   *)
(* test, so that one that is left behind meets the tests that follow.      *)
(***************************************************************************)
EXTENDS Harness, Integers, Sequences, FiniteSets

CONSTANTS
    OwnModel, Others,   \* the model under test; the models beside it
    MaxSpeechFaults     \* bound: exceptions, failing deletes and report writes,
                        \* interrupts

ASSUME SpeechAssumption ==
    /\ OwnModel \notin Others /\ IsFiniteSet(Others)
    /\ MaxSpeechFaults \in Nat

VARIABLES
    speech,     \* the test: kind, the models it needs, reuse and retain
    ours,       \* models of which an instance that the harness made is up
    theirs,     \* models of which an operator's instance is up
    placedSoFar,\* how many of the needed models were asked for
    books,      \* the placements the test will take down: model, made
    madeNow,    \* models of which this test made an instance
    gap,        \* those of them whose placement ended in an exception
    torn,       \* how many of the books were worked off
    warned,     \* models whose teardown failed with a warning
    passing,    \* no error so far
    ending,     \* "normal"; "raised", into the finally; "broken", out of it
    slips       \* what went wrong so far

speechVars == <<speech, ours, theirs, placedSoFar, books, madeNow, gap, torn, warned,
                passing, ending, slips>>

Kinds == {"pressure", "streaming", "realtime", "roundtrip", "reference"}
All == Others \cup {OwnModel}

\* One model beside its own, or two: a donor and a transcriber, or the
\* participants of a conversation.
Needs(kind) == {<<m>> : m \in All} \cup
               (IF kind \in {"realtime", "reference"}
                THEN {<<m, n>> : m \in Others, n \in All} ELSE {})

NoSpeech == [kind |-> "pressure", needs |-> <<>>, reuse |-> TRUE, retain |-> FALSE]

Slip == slips < MaxSpeechFaults /\ slips' = slips + 1

-----------------------------------------------------------------------------
(* Placing *)

SpeechIdle ==
    /\ speech = NoSpeech
    /\ ours = {} /\ theirs = {}
    /\ placedSoFar = 0 /\ books = <<>> /\ madeNow = {} /\ gap = {} /\ torn = 0 /\ warned = {}
    /\ passing = TRUE /\ ending = "normal" /\ slips = 0

\* Instances are there already: what earlier tests left, and an operator's.
StartSpeech ==
    /\ pc = "idle" /\ pc' = "placing"
    /\ ours' \in SUBSET Others /\ theirs' \in SUBSET Others
    /\ \E kind \in Kinds, reuse, retain \in BOOLEAN :
          \E needs \in Needs(kind) :
             speech' = [kind |-> kind, needs |-> needs, reuse |-> reuse,
                        retain |-> retain]
    /\ UNCHANGED <<placedSoFar, books, madeNow, gap, torn, warned, passing, ending, slips>>

Next1 == speech.needs[placedSoFar + 1]

\* A realtime test takes its own model and one that it has for granted.
Granted ==
    /\ speech.kind = "realtime" /\ placedSoFar > 0
    /\ Next1 \in {OwnModel, speech.needs[1]}

Keep(m, made) == books' = Append(books, [model |-> m, made |-> made])

\* The test gives up: its finally, or the code behind its except, runs.
GiveUp ==
    /\ passing' = FALSE /\ pc' = "releasing"
    /\ UNCHANGED <<speech, theirs, gap, torn, warned, slips>>

\* Mutant: no kind of test notes a placement that is not ready.
NotedLate == FALSE

\* Every kind but the streaming test notes a placement before it looks whether
\* it is ready.
NotedEarly == speech.kind # "streaming"

Skip ==
    /\ pc = "placing" /\ placedSoFar < Len(speech.needs) /\ Granted
    /\ placedSoFar' = placedSoFar + 1
    /\ UNCHANGED <<pc, speech, ours, theirs, books, madeNow, gap, torn, warned,
                   passing, ending, slips>>

Ready(m, made) ==
    /\ placedSoFar' = placedSoFar + 1
    /\ Keep(m, made)
    /\ UNCHANGED <<pc, speech, theirs, gap, torn, warned, passing, ending, slips>>

\* An instance that is there is reused, one that was left behind by an earlier
\* test among them.
Reusable == speech.reuse /\ Next1 \in ours \cup theirs \cup {OwnModel}

Reuse ==
    /\ pc = "placing" /\ placedSoFar < Len(speech.needs) /\ ~Granted
    /\ Reusable
    /\ Ready(Next1, FALSE)
    /\ UNCHANGED <<ours, madeNow>>

Place ==
    /\ pc = "placing" /\ placedSoFar < Len(speech.needs) /\ ~Granted
    /\ ~Reusable
    /\ LET m == Next1 IN
       \/ /\ Ready(m, TRUE)
          /\ ours' = ours \cup {m} /\ madeNow' = madeNow \cup {m}
       \/ /\ GiveUp   \* made, but never ready
          /\ ours' = ours \cup {m} /\ madeNow' = madeNow \cup {m}
          /\ IF NotedEarly THEN Keep(m, TRUE) ELSE UNCHANGED books
          /\ UNCHANGED <<placedSoFar, ending>>
       \/ GiveUp /\ UNCHANGED <<ours, madeNow, books, placedSoFar, ending>>

\* An exception of _ensure_model_placed, before or after its request was
\* accepted; the test turns it into an issue, or it goes up through the finally.
\* An interrupt always does.
PlaceRaises ==
    /\ pc = "placing" /\ placedSoFar < Len(speech.needs) /\ ~Granted
    /\ Slip /\ pc' = "releasing" /\ passing' = FALSE
    /\ \/ UNCHANGED <<ours, madeNow, gap>>
       \/ /\ ours' = ours \cup {Next1} /\ madeNow' = madeNow \cup {Next1}
          /\ gap' = {Next1}
    /\ ending' \in {"raised"} \cup IF speech.kind = "pressure" THEN {}
                                   ELSE {"normal"}
    /\ UNCHANGED <<speech, theirs, placedSoFar, books, torn, warned>>

\* An operator takes an instance away.
Withdraw(m) ==
    /\ pc = "placing" /\ m \in theirs /\ Slip
    /\ theirs' = theirs \ {m}
    /\ UNCHANGED <<pc, speech, ours, placedSoFar, books, madeNow, gap, torn, warned,
                   passing, ending>>

-----------------------------------------------------------------------------
(* Working, and taking down *)

\* The requests of the test; they may fail, and an exception may escape.
Work ==
    /\ pc = "placing" /\ placedSoFar = Len(speech.needs)
    /\ pc' = "releasing"
    /\ passing' \in BOOLEAN
    /\ \/ UNCHANGED <<ending, slips>>
       \/ Slip /\ ending' = "raised" /\ ~passing'
    /\ UNCHANGED <<speech, ours, theirs, placedSoFar, books, madeNow, gap, torn,
                   warned>>

\* The streaming test has no finally: what it lets through skips the release.
Skipped == speech.kind = "streaming" /\ ending # "normal"

\* A round trip leaves the instance of the donor to the donor's entry.
Repeated(k) == speech.kind = "reference" /\ k > 1 /\ books[k].model = books[1].model

\* What the test must take down: what it made, but not of its own model.
Owed(k) ==
    /\ ~speech.retain /\ ~Skipped
    /\ books[k].made /\ books[k].model # OwnModel /\ ~Repeated(k)

Turned ==
    /\ torn' = torn + 1
    /\ UNCHANGED <<pc, speech, theirs, placedSoFar, books, madeNow, gap, passing>>

\* Delete what was made; a failure is a warning.
TakeDown ==
    /\ pc = "releasing" /\ torn < Len(books) /\ Owed(torn + 1) /\ Turned
    /\ \/ /\ ours' = ours \ {books[torn + 1].model}
          /\ UNCHANGED <<warned, slips>>
       \/ /\ Slip
          /\ warned' = warned \cup {books[torn + 1].model}
          /\ ours' \in {ours, ours \ {books[torn + 1].model}}
    /\ UNCHANGED ending

Pass ==
    /\ pc = "releasing" /\ torn < Len(books) /\ ~Owed(torn + 1) /\ Turned
    /\ UNCHANGED <<ours, warned, ending, slips>>

\* An exception in the release, a report that cannot be written say, leaves the
\* rest of the books.
BreakOff ==
    /\ pc = "releasing" /\ torn < Len(books) /\ \E k \in 1..Len(books) : Owed(k)
    /\ Slip
    /\ pc' = "speechVerdict" /\ ending' = "broken"
    /\ UNCHANGED <<speech, ours, theirs, placedSoFar, books, madeNow, gap, torn, warned,
                   passing>>

GaveBack ==
    /\ pc = "releasing" /\ torn = Len(books)
    /\ pc' = "speechVerdict"
    /\ UNCHANGED speechVars

FinishSpeech ==
    /\ pc = "speechVerdict" /\ pc' = "idle"
    /\ speech' = NoSpeech /\ placedSoFar' = 0 /\ books' = <<>> /\ madeNow' = {}
    /\ gap' = {}
    /\ torn' = 0 /\ warned' = {} /\ passing' = TRUE /\ ending' = "normal"
    /\ slips' = 0 /\ ours' = {} /\ theirs' = {}

SpeechNext ==
    \/ StartSpeech \/ Skip \/ Reuse \/ Place \/ PlaceRaises \/ Work \/ (\E m \in theirs : Withdraw(m))
    \/ TakeDown \/ Pass \/ BreakOff \/ GaveBack \/ FinishSpeech

-----------------------------------------------------------------------------
(* Properties *)

\* A test leaves an instance of a secondary model behind only if the run
\* retains them, if a delete failed with a warning, if an exception fell
\* between the request and its answer or into the release, if it is the
\* streaming test and its synthesizer never became ready or an exception left
\* its work, or if a donor that was reused is made anew as the transcriber.
LeftBehindKnown ==
    pc = "speechVerdict" =>
        \A m \in (ours \cap madeNow) \ {OwnModel} :
            \/ speech.retain \/ m \in warned \cup gap \/ ending = "broken"
            \/ speech.kind = "streaming" /\ (books = <<>> \/ ending = "raised")
            \/ Len(books) = 2 /\ Repeated(2) /\ ~books[1].made

SpeechSpec ==
    pc = "idle" /\ SpeechIdle /\ [][SpeechNext]_<<pc, speechVars>>
=============================================================================
