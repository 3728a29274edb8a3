------------------------- MODULE PlaybackLifecycle -------------------------
(***************************************************************************)
(* The state of the playback lifecycle                                     *)
(* (native/playback/src/lifecycle.cpp) and what each call makes of it.  A  *)
(* transition called in another state than the one it needs returns an     *)
(* error and changes nothing.                                              *)
(***************************************************************************)

PlaybackStates == {"idle", "ready", "running", "disconnected", "failed"}

Transition(state, needed, next) == IF state = needed THEN next ELSE state

Prepare(state)    == Transition(state, "idle", "ready")
Start(state)      == Transition(state, "ready", "running")
Stop(state)       == Transition(state, "running", "ready")
Disconnect(state) == IF state # "idle" THEN "disconnected" ELSE state
FailedState       == "failed"
=============================================================================
