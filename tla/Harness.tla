-------------------------------- MODULE Harness --------------------------------
(***************************************************************************)
(* The harness does one thing at a time: a test of a model, a realtime     *)
(* session, a stability suite, a call.  The module of each has states of   *)
(* its own and shares this variable, so that they can be put side by side. *)
(***************************************************************************)

VARIABLE pc   \* the step that it is at; "idle" in between
=============================================================================
