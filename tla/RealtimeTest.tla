---------------------------- MODULE RealtimeTest ----------------------------
(***************************************************************************)
(* The realtime speech tests (_run_realtime_transcription_test_inner and   *)
(* the waits it calls in src/src/skulk_test_harness/orchestrator.py): a    *)
(* probe session is cut off in the middle, the harness waits until the     *)
(* provider gave its slot back, then it holds one session through every    *)
(* API owner and at last compares the provider's ledger with the one it    *)
(* read at the beginning.  The models that a conversation needs besides    *)
(* are the subject of SpeechModels.                                        *)
(*                                                                         *)
(* The provider admits a session into one of its Slots, or turns it away   *)
(* as busy.  It notices a cut connection, frees slots and writes its       *)
(* ledger in its own time; sessions fail, its process may restart, and a   *)
(* stream of an earlier test may still hold a slot.                        *)
(***************************************************************************)
EXTENDS Harness, Integers, FiniteSets

CONSTANTS
    LastOwner,          \* the sessions go through owners 1..LastOwner
    Turns,              \* turns of a conversation, each a provider session
    Slots,              \* sessions that the provider serves at once
    MaxRealtimeFaults   \* bound: failures, restarts, deadlines that pass

ASSUME RealtimeAssumption ==
    /\ LastOwner \in Nat \ {0} /\ Turns \in Nat \ {0} /\ Slots \in Nat \ {0}
    /\ MaxRealtimeFaults \in Nat \ {0}

VARIABLES
    ask,       \* the test: kind, probe (cancel_after_frames), diag (assertion)
    held,      \* who holds a slot
    ledger,    \* the provider's counters
    base,      \* the ledger and the slots in use, read before
    session,   \* the owner whose session comes next
    done,      \* the owners whose session was transcribed well
    found,     \* the kinds of issues
    mishaps    \* what went wrong so far

realtimeVars == <<ask, held, ledger, base, session, done, found, mishaps>>
provider == <<held, ledger>>

Blank == [admitted |-> 0, completed |-> 0, failed |-> 0, cancels |-> 0]
NoBase == [count |-> Blank, active |-> 0]
NoAsk == [kind |-> "transcription", probe |-> FALSE, diag |-> FALSE]

\* Who may hold a slot: the session of an owner, an old stream, the probe.
Sessions == 1..LastOwner
Straggler == 0
Cut == LastOwner + 1

\* A conversation has a provider session for every turn.
TurnsAsked == IF ask.kind = "conversation" THEN Turns ELSE 1

Mishap == mishaps < MaxRealtimeFaults /\ mishaps' = mishaps + 1
\* A deadline may always pass.
Late == mishaps' = IF mishaps < MaxRealtimeFaults THEN mishaps + 1 ELSE mishaps
Add(field) == ledger' = [ledger EXCEPT ![field] = @ + 1]
Report(kind) == found' = found \cup {kind}

-----------------------------------------------------------------------------
(* The provider, in its own time *)

realtimeSide == <<pc, ask, base, session, done, found>>

\* The cut connection is noticed; only then is the probe's slot given back.
NoticeCut ==
    /\ Cut \in held /\ ledger.cancels = 0
    /\ Add("cancels")
    /\ UNCHANGED <<realtimeSide, held, mishaps>>

Release(h) ==
    /\ h \in held
    /\ h = Cut => ledger.cancels > 0
    /\ held' = held \ {h}
    /\ IF h \in Sessions THEN Add("completed") ELSE UNCHANGED ledger
    /\ UNCHANGED <<realtimeSide, mishaps>>

\* A session that fails in the provider after its client was served.
Spoil(h) ==
    /\ h \in held \cap Sessions /\ Mishap
    /\ held' = held \ {h}
    /\ Add("failed")
    /\ UNCHANGED realtimeSide

\* The provider's process restarts: an empty ledger, every slot free.
RestartProvider ==
    /\ Mishap
    /\ held' = {} /\ ledger' = Blank
    /\ UNCHANGED realtimeSide

-----------------------------------------------------------------------------
(* The harness *)

RealtimeIdle ==
    /\ ask = NoAsk
    /\ held = {} /\ ledger = Blank /\ base = NoBase
    /\ session = 1 /\ done = {} /\ found = {} /\ mishaps = 0

StartRealtime ==
    /\ pc = "idle"
    /\ ask' \in [kind : {"transcription", "chain", "conversation"},
                 probe : BOOLEAN, diag : BOOLEAN]
    /\ held' \in {{}, {Straggler}}
    /\ ledger' \in {Blank, [Blank EXCEPT !.admitted = 1, !.completed = 1]}
    /\ pc' = "ledger"
    /\ UNCHANGED <<base, session, done, found, mishaps>>

\* An exception of any call ends the test with an issue.
Abort ==
    /\ Report("failed") /\ pc' = "realtimeVerdict"
    /\ UNCHANGED <<ask, base, session, done>>

ReadLedger ==
    /\ pc = "ledger"
    /\ base' = IF ask.probe \/ ask.diag
               THEN [count |-> ledger, active |-> Cardinality(held)] ELSE NoBase
    /\ pc' = IF ask.probe THEN "probe" ELSE "session"
    /\ UNCHANGED <<ask, session, done, found, provider, mishaps>>

Room == Cardinality(held) < Slots

\* The probe is cut off; an input that ends before makes it a whole session.
\* A busy provider is an error here, there is no second try.
Probe ==
    /\ pc = "probe"
    /\ \/ /\ Room
          /\ held' = held \cup {Cut}
          /\ Add("admitted")
          /\ pc' = "release"
          /\ UNCHANGED <<ask, base, session, done, found, mishaps>>
       \/ /\ Room /\ Mishap
          /\ ledger' = [ledger EXCEPT !.admitted = @ + 1, !.completed = @ + 1]
          /\ Report("uncut") /\ pc' = "release"
          /\ UNCHANGED <<ask, base, session, done, held>>
       \/ ~Room /\ Abort /\ UNCHANGED <<provider, mishaps>>

Gain(field) == ledger[field] - base.count[field]
Drained == Cardinality(held) <= base.active

\* Mutant: the slots may still be in use.
CutIsEnough == Gain("cancels") >= 1

\* What the wait for the probe's slot looks for.
Released == Gain("cancels") >= 1 /\ Drained

\* _wait_for_realtime_cancellation_release; its deadline may pass.
AwaitRelease ==
    /\ pc = "release"
    /\ \/ /\ Released
          /\ pc' = "session"
          /\ UNCHANGED <<ask, base, session, done, found, mishaps>>
       \/ ~Released /\ Late /\ Abort
    /\ UNCHANGED provider

\* Mutant: a busy provider ends the test at once.
RefusedAtOnce ==
    /\ pc = "session" /\ ~Room
    /\ Abort
    /\ UNCHANGED <<provider, mishaps>>

\* A session that the busy provider refuses is tried again until its
\* deadline passes; _run_realtime_transcription_after_release.
Refused ==
    /\ pc = "session" /\ ~Room
    /\ Late /\ Abort
    /\ UNCHANGED provider

\* A session through the next owner: the provider admits every turn of it and
\* frees the slots when it wrote its ledger, the harness goes on at once.
Converse ==
    /\ pc = "session" /\ Room /\ session <= LastOwner
    /\ \/ /\ held' = held \cup {session}
          /\ ledger' = [ledger EXCEPT !.admitted = @ + TurnsAsked,
                                      !.completed = @ + TurnsAsked - 1]
          /\ \/ done' = done \cup {session} /\ UNCHANGED <<found, mishaps>>
             \/ Mishap /\ Report("score") /\ UNCHANGED done
          /\ session' = session + 1
          /\ UNCHANGED <<pc, ask, base>>
       \/ /\ Mishap /\ Abort
          /\ \/ ledger' = [ledger EXCEPT !.admitted = @ + 1, !.failed = @ + 1]
             \/ UNCHANGED ledger
          /\ UNCHANGED held

SessionsOver ==
    /\ pc = "session" /\ session > LastOwner
    /\ pc' = IF ask.diag THEN "settleLedger" ELSE "realtimeVerdict"
    /\ UNCHANGED realtimeVars

Expected == LastOwner * TurnsAsked
Probed == IF ask.probe THEN 1 ELSE 0

\* What _wait_for_provider_diagnostics looks for.
Complete ==
    /\ Gain("completed") >= Expected
    /\ Gain("cancels") >= Probed
    /\ Drained

\* Mutant: a ledger that lacks sessions is good enough.
LedgerFailures ==
    Gain("failed") > 0 \/ (\E f \in DOMAIN Blank : Gain(f) < 0)

\* _score_realtime_provider_diagnostics: a counter went back, a stream is
\* still there, one failed, or the ledger does not cover the sessions.
LedgerShort ==
    \/ \E f \in DOMAIN Blank : Gain(f) < 0
    \/ ~Drained
    \/ Gain("failed") > 0
    \/ Gain("admitted") < Expected + Probed
    \/ Gain("completed") < Expected
    \/ Gain("cancels") < Probed

SettleLedger ==
    /\ pc = "settleLedger" /\ pc' = "realtimeVerdict"
    /\ IF Complete THEN UNCHANGED mishaps ELSE Late
    /\ found' = found \cup IF LedgerShort THEN {"ledger"} ELSE {}
    /\ UNCHANGED <<ask, base, session, done, provider>>

RealtimePassed == found = {}

FinishRealtime ==
    /\ pc = "realtimeVerdict" /\ pc' = "idle"
    /\ ask' = NoAsk
    /\ held' = {} /\ ledger' = Blank /\ base' = NoBase
    /\ session' = 1 /\ done' = {} /\ found' = {} /\ mishaps' = 0

RealtimeSteps == {"ledger", "probe", "release", "session", "settleLedger"}

Provider ==
    /\ pc \in RealtimeSteps
    /\ NoticeCut \/ RestartProvider \/ \E h \in held : Release(h) \/ Spoil(h)

RealtimeNext ==
    \/ StartRealtime \/ ReadLedger \/ Probe \/ AwaitRelease \/ Refused
    \/ Converse \/ SessionsOver \/ SettleLedger \/ FinishRealtime
    \/ Provider

-----------------------------------------------------------------------------
(* Properties *)

\* A realtime test passes only if every owner's session was transcribed, if the
\* probe holds no slot (of a provider that was idle at the beginning), and,
\* where the ledger is asserted, if no session failed behind the client's back.
PassIsServed ==
    pc = "realtimeVerdict" /\ RealtimePassed =>
        /\ done = 1..LastOwner
        /\ ask.probe /\ base.active = 0 => Cut \notin held
        /\ ask.diag => Gain("failed") = 0 /\ Gain("completed") >= Expected

\* A provider that frees its slots in time, however late within the
\* deadlines, and in whatever order it notices, frees and writes, makes no
\* test fail that began with a free slot.
PatientEnough ==
    pc = "realtimeVerdict" /\ mishaps = 0 =>
        RealtimePassed \/ base.active >= Slots

RealtimeSpec ==
    pc = "idle" /\ RealtimeIdle /\ [][RealtimeNext]_<<pc, realtimeVars>>
=============================================================================
