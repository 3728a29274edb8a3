-------------------------- MODULE ReceiverActivity --------------------------
(***************************************************************************)
(* The receiver's activity (MainActivity.kt) as the caller of the Android  *)
(* output.  Android creates, starts, stops and destroys instances of the   *)
(* activity, and may start a new one before the old one is stopped and     *)
(* destroyed; the output belongs to the process, so they share it.         *)
(*                                                                         *)
(* All of this runs on the main thread: a handler makes its JNI calls one  *)
(* after the other, and nothing else of the activity runs in between.      *)
(* Refreshing the status only reads and is left out.                       *)
(***************************************************************************)
EXTENDS AndroidOutput

CONSTANT Instances   \* bound: instances of the activity that may overlap

ASSUME InstancesAssumption == Instances # {}

VARIABLES
    activity,  \* where each instance is in its life
    script     \* JNI calls the handler under way has yet to make

activityVars == <<activity, script>>
appVars      == <<vars, activityVars>>

ActivityStates == {"none", "created", "started", "stopped", "destroyed"}
ScriptCalls    == Calls \cup {"startIfQueued"}

AppInit ==
    /\ Init
    /\ activity = [i \in Instances |-> "none"]
    /\ script = <<>>

\* The main thread is free: no handler and no JNI call is under way.
Free == script = <<>> /\ pc = "idle"

Handle(calls) == script' = calls /\ UNCHANGED vars
Becomes(instance, state) == activity' = [activity EXCEPT ![instance] = state]

OnCreate(instance) ==
    /\ Free
    /\ activity[instance] \in {"none", "destroyed"}
    /\ Becomes(instance, "created")
    /\ Handle(<<"open">>)

OnStart(instance) ==
    /\ Free
    /\ activity[instance] \in {"created", "stopped"}
    /\ Becomes(instance, "started")
    /\ Handle(<<>>)

NoCalls == <<>>                                                       \* slip
CallsOnStop == <<"stop">>

OnStop(instance) ==
    /\ Free
    /\ activity[instance] = "started"
    /\ Becomes(instance, "stopped")
    /\ Handle(CallsOnStop)

StopsOnly == <<"stop">>                                               \* slip
CallsOnDestroy == <<"close">>

\* An instance may be destroyed that was never started.
OnDestroy(instance) ==
    /\ Free
    /\ activity[instance] \in {"created", "stopped"}
    /\ Becomes(instance, "destroyed")
    /\ Handle(CallsOnDestroy)

\* The buttons of an instance on the screen.
Tap(calls) ==
    /\ Free
    /\ \E instance \in Instances : activity[instance] = "started"
    /\ Handle(calls)
    /\ UNCHANGED activity

PlayTestSignal ==
    /\ batches < MaxBatches
    /\ Tap(<<"stop", "clear", "queue", "startIfQueued">>)
StartSilence == Tap(<<"start">>)
StopOutput   == Tap(<<"stop">>)

\* The next call of the handler; the test signal is started if it was queued.
MakeCall ==
    /\ script # <<>>
    /\ pc = "idle"
    /\ script' = Tail(script)
    /\ IF Head(script) # "startIfQueued" THEN Native(Head(script))
       ELSE IF result THEN NativeStartPlayback
       ELSE UNCHANGED vars
    /\ UNCHANGED activity

Handlers == \/ \E i \in Instances : OnCreate(i) \/ OnStart(i) \/ OnStop(i) \/ OnDestroy(i)
            \/ PlayTestSignal \/ StartSilence \/ StopOutput

AppNext ==
    \/ Handlers
    \/ MakeCall
    \/ ControlStep /\ UNCHANGED activityVars
    \/ AAudioStep /\ UNCHANGED activityVars

AppSpec == AppInit /\ [][AppNext]_appVars

\* A handler under way goes on; the user and Android need not do anything.
AppFairSpec ==
    /\ AppSpec
    /\ WF_appVars(MakeCall)
    /\ ControlFairness /\ AAudioFairness

-----------------------------------------------------------------------------
(* Properties. *)

TypeActivity ==
    /\ activity \in [Instances -> ActivityStates]
    /\ script \in Seq(ScriptCalls)

\* The activity's and the output's variables keep their types.
AppTypeOK == TypeOK /\ TypeActivity

OnScreen == \E i \in Instances : activity[i] = "started"
Gone     == \A i \in Instances : activity[i] \in {"none", "destroyed"}

\* With every instance destroyed the process holds no stream, no output and no
\* queued audio, in whatever order instances overlapped and whatever failed.
NothingLeftBehind ==
    (Gone /\ Free) => ~output /\ stream = "none" /\ queue = <<>> /\ callback = "none"

\* Nothing plays behind the user's back: with no instance on the screen the
\* device plays only if the status says that the output failed.
HiddenIsSilent == (~OnScreen /\ Free /\ Playing) => ReportedState = "failed"
=============================================================================
