------------------------------- MODULE MCHarness -------------------------------
(***************************************************************************)
(* Everything that the harness does beside the qualification legs, put     *)
(* side by side: while one is under way, the states of the others rest.    *)
(***************************************************************************)
EXTENDS ConcurrentTest, DataPlaneTest, RealtimeTest, SpeechModels, RequestTests,
        RealtimeSession, StabilitySuites, SkulkClient

Init ==
    /\ pc = "idle"
    /\ LoadIdle /\ DataIdle /\ RealtimeIdle /\ SpeechIdle /\ RequestIdle
    /\ SessionIdle /\ SuiteIdle /\ ClientIdle

Next ==
    \/ LoadNext /\ UNCHANGED <<dataVars, realtimeVars, speechVars, requestVars,
                               sessionVars, suiteVars, clientVars>>
    \/ DataNext /\ UNCHANGED <<loadVars, realtimeVars, speechVars, requestVars,
                               sessionVars, suiteVars, clientVars>>
    \/ RealtimeNext /\ UNCHANGED <<loadVars, dataVars, speechVars, requestVars,
                                   sessionVars, suiteVars, clientVars>>
    \/ SpeechNext /\ UNCHANGED <<loadVars, dataVars, realtimeVars, requestVars,
                                 sessionVars, suiteVars, clientVars>>
    \/ RequestNext /\ UNCHANGED <<loadVars, dataVars, realtimeVars, speechVars,
                                  sessionVars, suiteVars, clientVars>>
    \/ SessionNext /\ UNCHANGED <<loadVars, dataVars, realtimeVars, speechVars,
                                  requestVars, suiteVars, clientVars>>
    \/ SuiteNext /\ UNCHANGED <<loadVars, dataVars, realtimeVars, speechVars,
                                requestVars, sessionVars, clientVars>>
    \/ ClientNext /\ UNCHANGED <<loadVars, dataVars, realtimeVars, speechVars,
                                 requestVars, sessionVars, suiteVars>>

Spec ==
    Init /\ [][Next]_<<pc, loadVars, dataVars, realtimeVars, speechVars, requestVars,
                       sessionVars, suiteVars, clientVars>>
=============================================================================
