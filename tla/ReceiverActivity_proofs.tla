----------------------- MODULE ReceiverActivity_proofs -----------------------
(***************************************************************************)
(* Theorems about the activity and the output together.  The activity is a *)
(* caller of the output, so what holds of the output for calls in any      *)
(* order holds of it here; what remains is what the order of its calls     *)
(* adds, for any number of overlapping instances.                          *)
(***************************************************************************)
EXTENDS ReceiverActivity, AndroidOutput_proofs

CloseCallSteps == {"close", "requestStop", "getState", "wait", "closeStream", "reset"}

\* With no instance left, the call that closes the output is due, under way, or
\* done.
GoneInv ==
    Gone => \/ script = <<"close">> /\ pc = "idle"
            \/ script = <<>> /\ call = "close" /\ pc \in CloseCallSteps
            \/ script = <<>> /\ pc = "idle" /\ ~output

\* With no instance on the screen nothing starts the output, and one that runs
\* is about to be stopped.
HiddenInv ==
    ~OnScreen =>
        /\ script \in {<<>>, <<"open">>, <<"stop">>, <<"close">>}
        /\ script # <<>> => pc = "idle"
        /\ call \in {"none", "open", "stop", "close"}
        /\ pc \notin {"requestStart", "finishStart"}
        /\ lifecycle = "running" => call = "stop" \/ (script = <<"stop">> /\ pc = "idle")

AppIInv == IInv /\ TypeActivity /\ GoneInv /\ HiddenInv

-----------------------------------------------------------------------------
(* What the steps of the output and the JNI calls do, as far as the order of *)
(* the calls depends on it.                                                  *)

\* A call ends, or goes on as the same call; only a start makes an output
\* run, and a stop that ends leaves none running; a close stays one.
Progress ==
    /\ call' = call \/ (call' = "none" /\ pc' = "idle")
    /\ pc' \in {"requestStart", "finishStart"} => call = "start" \/ pc = "requestStart"
    /\ lifecycle' = "running" => lifecycle = "running" \/ pc = "finishStart"
    /\ call = "stop" /\ call' = "none" => lifecycle' # "running"
    /\ call = "close" /\ pc \in CloseCallSteps =>
           \/ call' = "close" /\ pc' \in CloseCallSteps
           \/ pc' = "idle" /\ ~output'

LEMMA ControlProgress == IInv /\ ControlStep => Progress
<1> SUFFICES ASSUME IInv, ControlStep PROVE Progress
  OBVIOUS
<1> USE DEF Progress, CloseCallSteps, Goto, Return, Fail, FailedState
<1>i. CallInv /\ StepInv
  BY DEF IInv
<1>1. CASE Synchronize
  BY <1>i, <1>1 DEF Disconnect, Synchronize, CallInv, StepInv
<1>2. CASE DiscardForSync
  BY <1>i, <1>2 DEF DiscardForSync, CallInv, StepInv
<1>3. CASE CheckState
  BY <1>i, <1>3 DEF Admitted, FirstStep, CheckState, CallInv, StepInv
<1>4. CASE OpenStream
  BY <1>i, <1>4 DEF Transition, Prepare, OpenStream, CallInv, StepInv
<1>5. CASE RequestStart
  BY <1>i, <1>5 DEF RequestStart, CallInv, StepInv
<1>6. CASE FinishStart
  BY <1>i, <1>6 DEF Transition, Start, FinishStart, CallInv, StepInv
<1>7. CASE RequestStop
  BY <1>i, <1>7 DEF Closing, RequestStop, CallInv, StepInv
<1>8. CASE GetState
  BY <1>i, <1>8 DEF GetState, CallInv, StepInv
<1>9. CASE WaitConfirmed
  BY <1>i, <1>9 DEF Closing, WaitConfirmed, CallInv, StepInv
<1>10. CASE WaitForChange
  BY <1>i, <1>10 DEF Waiting, WaitForChange, CallInv, StepInv
<1>11. CASE WaitGivenUp
  BY <1>i, <1>11 DEF Closing, StopGivenUp, WaitGivenUp, CallInv, StepInv
<1>12. CASE FinishStop
  BY <1>i, <1>12 DEF Transition, Stop, FinishStop, CallInv, StepInv
<1>13. CASE DiscardForBatch
  BY <1>i, <1>13 DEF DiscardForBatch, CallInv, StepInv
<1>14. CASE EnqueueFrame
  BY <1>i, <1>14 DEF EnqueueFrame, CallInv, StepInv
<1>15. CASE FinishBatch
  BY <1>i, <1>15 DEF FinishBatch, CallInv, StepInv
<1>16. CASE DiscardForClear
  BY <1>i, <1>16 DEF DiscardForClear, CallInv, StepInv
<1>17. CASE BeginClose
  BY <1>i, <1>17 DEF BeginClose, CallInv, StepInv
<1>18. CASE CloseStream
  BY <1>i, <1>18 DEF CloseStream, CallInv, StepInv
<1>19. CASE ResetOutput
  BY <1>i, <1>19 DEF ResetOutput, CallInv, StepInv
<1> QED
  BY <1>1, <1>2, <1>3, <1>4, <1>5, <1>6, <1>7, <1>8, <1>9, <1>10, <1>11, <1>12,
    <1>13, <1>14, <1>15, <1>16, <1>17, <1>18, <1>19 DEF ControlStep, Synchronizing,
    Starting, Stopping, Queueing, CloseSteps

LEMMA ControlStepIsBusy == ControlStep => pc # "idle"
  BY DEF ControlStep, Synchronizing, Starting, Stopping, Queueing, CloseSteps, Synchronize,
    DiscardForSync, CheckState, OpenStream, RequestStart, FinishStart, RequestStop, GetState,
    WaitConfirmed, WaitForChange, WaitGivenUp, Waiting, FinishStop, DiscardForBatch,
    EnqueueFrame, FinishBatch, DiscardForClear, BeginClose, CloseStream, ResetOutput

LEMMA AAudioLeavesControl == AAudioStep => UNCHANGED control
  BY DEF AAudioStep, StreamMoves, StreamFails, ErrorCallback, DataCallbackStep, DataCallback,
    RenderPart, DataCallbackReturns, DataCallbackRefused, control

\* A JNI call begins as itself or is over at once, and decides nothing yet.
Begun(name) ==
    /\ lifecycle' = lifecycle
    /\ \/ call' = call /\ pc' = pc
       \/ call' = name /\ pc' \in {"sync", "close", "clearDiscard"}
    /\ name = "stop" /\ lifecycle = "running" => call' = "stop"
    /\ name = "close" => \/ call' = "close" /\ pc' = "close"
                         \/ pc' = "idle" /\ ~output'

LEMMA NativeBegins == \A name : IInv /\ Native(name) => Begun(name)
<1> SUFFICES ASSUME NEW name, IInv, Native(name) PROVE Begun(name)
  OBVIOUS
<1> USE DEF Begun, Begin, Answer
<1>1. CASE name = "open" /\ NativeOpenPlayback
  BY <1>1 DEF NativeOpenPlayback
<1>2. CASE name = "start" /\ NativeStartPlayback
  BY <1>2 DEF NativeStartPlayback
<1>3. CASE name = "stop" /\ NativeStopPlayback
  BY <1>3 DEF NativeStopPlayback, IInv, OutputInv, ReportedState
<1>4. CASE name = "queue" /\ NativeQueueLocalTestSignal
  BY <1>4 DEF NativeQueueLocalTestSignal
<1>5. CASE name = "clear" /\ NativeClearPlaybackQueue
  BY <1>5 DEF NativeClearPlaybackQueue
<1>6. CASE name = "close" /\ NativeClosePlayback
  BY <1>6 DEF NativeClosePlayback
<1> QED
  BY <1>1, <1>2, <1>3, <1>4, <1>5, <1>6 DEF Native

-----------------------------------------------------------------------------
(* The activity is a caller of the output. *)

LEMMA AppStepIsAStep == AppIInv /\ [AppNext]_appVars => [Next]_vars
<1> SUFFICES ASSUME AppIInv, [AppNext]_appVars PROVE [Next]_vars
  OBVIOUS
<1>1. CASE Handlers
  BY <1>1 DEF Handlers, OnCreate, OnStart, OnStop, OnDestroy, PlayTestSignal, StartSilence,
    StopOutput, Tap, Handle
<1>2. CASE MakeCall
  <2>1. Native(Head(script)) => Head(script) \in Calls
    BY DEF Native, Calls
  <2>2. Native(Head(script)) \/ NativeStartPlayback \/ UNCHANGED vars
    BY <1>2 DEF MakeCall
  <2>3. NativeStartPlayback => Native("start")
    BY DEF Native
  <2> QED
    BY <2>1, <2>2, <2>3 DEF Next, Calls
<1>3. CASE (ControlStep \/ AAudioStep) /\ UNCHANGED activityVars
  BY <1>3 DEF Next
<1>4. CASE UNCHANGED appVars
  BY <1>4 DEF appVars
<1> QED
  BY <1>1, <1>2, <1>3, <1>4 DEF AppNext

LEMMA OutputKept == IInv /\ [Next]_vars => IInv'
  BY NativeKeeps, ControlStepKeeps, AAudioStepKeeps, StutterKeeps DEF Next

LEMMA ActivityTyped == AppIInv /\ [AppNext]_appVars => TypeActivity'
<1> SUFFICES ASSUME AppIInv, [AppNext]_appVars PROVE TypeActivity'
  OBVIOUS
<1> USE DEF TypeActivity, ActivityStates, ScriptCalls, Calls
<1>i. TypeActivity
  BY DEF AppIInv
<1>1. ASSUME NEW i \in Instances, OnCreate(i) \/ OnStart(i) \/ OnStop(i) \/ OnDestroy(i)
      PROVE TypeActivity'
  <2>1. PICK state \in ActivityStates : activity' = [activity EXCEPT ![i] = state]
    BY <1>1 DEF OnCreate, OnStart, OnStop, OnDestroy, Becomes
  <2>2. activity' \in [Instances -> ActivityStates]
    BY <1>i, <2>1
  <2>3. script' \in {<<>>, <<"open">>, <<"stop">>, <<"close">>}
    BY <1>1 DEF OnCreate, OnStart, OnStop, OnDestroy, Handle, CallsOnStop, CallsOnDestroy
  <2>4. <<>> \in Seq(ScriptCalls) /\ <<"open">> \in Seq(ScriptCalls)
        /\ <<"stop">> \in Seq(ScriptCalls) /\ <<"close">> \in Seq(ScriptCalls)
    OBVIOUS
  <2> QED
    BY <2>2, <2>3, <2>4
<1>2. CASE PlayTestSignal \/ StartSilence \/ StopOutput
  <2>1. activity' = activity
        /\ script' \in {<<"stop", "clear", "queue", "startIfQueued">>, <<"start">>, <<"stop">>}
    BY <1>2 DEF PlayTestSignal, StartSilence, StopOutput, Tap, Handle
  <2>2. <<"stop", "clear", "queue", "startIfQueued">> \in Seq(ScriptCalls)
        /\ <<"start">> \in Seq(ScriptCalls) /\ <<"stop">> \in Seq(ScriptCalls)
    OBVIOUS
  <2> QED
    BY <1>i, <2>1, <2>2
<1>3. CASE MakeCall
  BY <1>3, <1>i DEF MakeCall
<1>4. CASE UNCHANGED activityVars
  BY <1>4, <1>i DEF activityVars
<1> QED
  BY <1>1, <1>2, <1>3, <1>4 DEF AppNext, Handlers, appVars

-----------------------------------------------------------------------------
(* With no instance left. *)

LEMMA GoneKept == AppIInv /\ [AppNext]_appVars => GoneInv'
<1> SUFFICES ASSUME AppIInv, [AppNext]_appVars, Gone' PROVE
        \/ script' = <<"close">> /\ pc' = "idle"
        \/ script' = <<>> /\ call' = "close" /\ pc' \in CloseCallSteps
        \/ script' = <<>> /\ pc' = "idle" /\ ~output'
  BY DEF GoneInv
<1>i. IInv /\ GoneInv /\ activity \in [Instances -> ActivityStates]
  BY DEF AppIInv, TypeActivity
<1>1. ASSUME NEW i \in Instances, OnCreate(i) \/ OnStart(i) \/ OnStop(i) PROVE FALSE
  <2>1. activity'[i] \in {"created", "started", "stopped"}
    BY <1>1, <1>i DEF OnCreate, OnStart, OnStop, Becomes
  <2> QED
    BY <2>1 DEF Gone
<1>2. ASSUME NEW i \in Instances, OnDestroy(i)
      PROVE script' = <<"close">> /\ pc' = "idle"
  BY <1>2 DEF OnDestroy, Handle, CallsOnDestroy, Free, vars, control
<1>3. CASE PlayTestSignal \/ StartSilence \/ StopOutput
  BY <1>3 DEF PlayTestSignal, StartSilence, StopOutput, Tap, Gone
<1>4. CASE MakeCall
  <2>1. Gone
    BY <1>4 DEF MakeCall, Gone
  <2>2. script = <<"close">>
    BY <1>4, <1>i, <2>1 DEF MakeCall, GoneInv
  <2>3. script' = <<>> /\ Native("close")
    BY <1>4, <2>2 DEF MakeCall
  <2>4. Begun("close")
    BY <1>i, <2>3, NativeBegins
  <2> QED
    BY <2>3, <2>4 DEF Begun, CloseCallSteps
<1>5. CASE UNCHANGED activityVars /\ Gone
  <2>1. CASE ControlStep
    <3>1. Progress /\ pc # "idle"
      BY <1>i, <2>1, ControlProgress, ControlStepIsBusy
    <3>2. script' = script
      BY <1>5 DEF activityVars
    <3> QED
      BY <1>5, <1>i, <3>1, <3>2 DEF GoneInv, Progress
  <2>2. CASE UNCHANGED control
    BY <1>5, <1>i, <2>2 DEF GoneInv, control, activityVars
  <2>3. ControlStep \/ UNCHANGED control \/ Handlers \/ MakeCall
    BY AAudioLeavesControl DEF AppNext, appVars, vars
  <2> QED
    BY <1>1, <1>2, <1>3, <1>4, <2>1, <2>2, <2>3 DEF Handlers
<1> QED
  BY <1>1, <1>2, <1>3, <1>4, <1>5 DEF AppNext, Handlers, appVars, activityVars, Gone

-----------------------------------------------------------------------------
(* With no instance on the screen. *)

LEMMA HiddenKept == AppIInv /\ [AppNext]_appVars => HiddenInv'
<1> SUFFICES ASSUME AppIInv, [AppNext]_appVars, ~OnScreen' PROVE
        /\ script' \in {<<>>, <<"open">>, <<"stop">>, <<"close">>}
        /\ script' # <<>> => pc' = "idle"
        /\ call' \in {"none", "open", "stop", "close"}
        /\ pc' \notin {"requestStart", "finishStart"}
        /\ lifecycle' = "running" =>
               call' = "stop" \/ (script' = <<"stop">> /\ pc' = "idle")
  BY DEF HiddenInv
<1>i. IInv /\ HiddenInv /\ activity \in [Instances -> ActivityStates]
  BY DEF AppIInv, TypeActivity
<1>c. pc = "idle" => call = "none"
  BY <1>i DEF IInv, CallInv
<1>1. ASSUME NEW i \in Instances, OnCreate(i) \/ OnDestroy(i)
      PROVE /\ ~OnScreen /\ Free /\ UNCHANGED vars
            /\ script' \in {<<"open">>, <<"close">>}
  <2>1. PICK state \in {"created", "destroyed"} : activity' = [activity EXCEPT ![i] = state]
    BY <1>1 DEF OnCreate, OnDestroy, Becomes
  <2>2. activity[i] # "started" /\ Free /\ UNCHANGED vars
    BY <1>1 DEF OnCreate, OnDestroy, Handle
  <2>3. ~OnScreen
    BY <1>i, <2>1, <2>2 DEF OnScreen
  <2> QED
    BY <1>1, <2>2, <2>3 DEF OnCreate, OnDestroy, Handle, CallsOnDestroy
<1>2. ASSUME NEW i \in Instances, OnStart(i) PROVE FALSE
  <2>1. activity'[i] = "started"
    BY <1>2, <1>i DEF OnStart, Becomes
  <2> QED
    BY <2>1 DEF OnScreen
<1>3. ASSUME NEW i \in Instances, OnStop(i)
      PROVE Free /\ UNCHANGED vars /\ script' = <<"stop">>
  BY <1>3 DEF OnStop, Handle, CallsOnStop
<1>4. CASE PlayTestSignal \/ StartSilence \/ StopOutput
  BY <1>4 DEF PlayTestSignal, StartSilence, StopOutput, Tap, OnScreen
<1>5. CASE MakeCall
  <2>1. ~OnScreen
    BY <1>5 DEF MakeCall, OnScreen
  <2>2. script \in {<<"open">>, <<"stop">>, <<"close">>} /\ call = "none" /\ pc = "idle"
    BY <1>5, <1>i, <1>c, <2>1 DEF MakeCall, HiddenInv
  <2>3. PICK name \in {"open", "stop", "close"} : script = <<name>>
    BY <2>2
  <2>4. script' = <<>> /\ Native(name)
    BY <1>5, <2>3 DEF MakeCall
  <2>5. Begun(name)
    BY <1>i, <2>4, NativeBegins
  <2>6. lifecycle = "running" => name = "stop"
    BY <1>i, <2>1, <2>2, <2>3 DEF HiddenInv
  <2> QED
    BY <2>2, <2>3, <2>4, <2>5, <2>6 DEF Begun
<1>6. CASE UNCHANGED activityVars
  <2>1. ~OnScreen /\ script' = script
    BY <1>6 DEF activityVars, OnScreen
  <2>2. CASE ControlStep
    <3>1. Progress /\ pc # "idle"
      BY <1>i, <2>2, ControlProgress, ControlStepIsBusy
    <3> QED
      BY <1>i, <2>1, <3>1 DEF HiddenInv, Progress
  <2>3. CASE UNCHANGED control
    BY <1>i, <2>1, <2>3 DEF HiddenInv, control
  <2>4. ControlStep \/ UNCHANGED control \/ Handlers \/ MakeCall
    BY AAudioLeavesControl DEF AppNext, appVars, vars
  <2>5. CASE Handlers
    BY <1>1, <1>2, <1>3, <1>4, <1>i, <1>c, <2>5
      DEF Handlers, Free, HiddenInv, vars, control
  <2> QED
    BY <1>5, <2>2, <2>3, <2>4, <2>5
<1>7. CASE Handlers
  BY <1>1, <1>2, <1>3, <1>4, <1>i, <1>c, <1>7 DEF Handlers, Free, HiddenInv, vars, control
<1> QED
  BY <1>5, <1>6, <1>7 DEF AppNext, appVars

-----------------------------------------------------------------------------
(* The theorems. *)

LEMMA AppInitHolds == AppInit => Init /\ AppIInv
<1> SUFFICES ASSUME AppInit PROVE Init /\ AppIInv
  OBVIOUS
<1>1. Init
  BY DEF AppInit
<1>2. IInv
  BY <1>1, InitHolds
<1>3. TypeActivity
  BY DEF AppInit, TypeActivity, ActivityStates
<1>4. GoneInv
  BY <1>1 DEF AppInit, Init, GoneInv
<1>5. HiddenInv
  BY <1>1 DEF AppInit, Init, HiddenInv
<1> QED
  BY <1>1, <1>2, <1>3, <1>4, <1>5 DEF AppIInv

LEMMA AppStepKeeps == AppIInv /\ [AppNext]_appVars => AppIInv'
<1>1. AppIInv /\ [AppNext]_appVars => IInv'
  BY AppStepIsAStep, OutputKept DEF AppIInv
<1> QED
  BY <1>1, ActivityTyped, GoneKept, HiddenKept DEF AppIInv

\* The invariant holds of every behaviour of the activity and the output.
THEOREM AppInvariance == AppSpec => []AppIInv
  BY AppInitHolds, AppStepKeeps, PTL DEF AppSpec

\* The activity is a caller of the output: what is true of the output for
\* calls in any order is true under MainActivity.
THEOREM ActivityIsACaller == AppSpec => Spec
<1>1. AppSpec => Init
  BY DEF AppSpec, AppInit
<1> QED
  BY <1>1, AppInvariance, AppStepIsAStep, PTL DEF AppSpec, Spec

\* The variables of the activity and of the output keep their types.
THEOREM AppTypeCorrect == AppSpec => []AppTypeOK
<1>1. AppIInv => AppTypeOK
  BY DEF AppIInv, IInv, AppTypeOK
<1> QED
  BY <1>1, AppInvariance, PTL

\* When the last instance is destroyed (onDestroy, nativeClosePlayback) the
\* process holds no output and no stream, however instances overlapped.
THEOREM NothingStaysBehind == AppSpec => []NothingLeftBehind
<1>1. AppIInv => NothingLeftBehind
  <2> SUFFICES ASSUME AppIInv, Gone, Free
               PROVE  ~output /\ stream = "none" /\ queue = <<>> /\ callback = "none"
    BY DEF NothingLeftBehind
  <2>1. pc = "idle" /\ script = <<>> /\ IInv
    BY DEF Free, AppIInv
  <2>2. call = "none"
    BY <2>1 DEF IInv, CallInv
  <2>3. ~output
    BY <2>1, <2>2 DEF AppIInv, GoneInv
  <2> QED
    BY <2>1, <2>3 DEF IInv, OutputInv, StreamInv
<1> QED
  BY <1>1, AppInvariance, PTL

\* With no instance on the screen (onStop, nativeStopPlayback) nothing plays
\* unless the status says that the output failed.
THEOREM SilentWhenHidden == AppSpec => []HiddenIsSilent
<1>1. AppIInv => HiddenIsSilent
  <2> SUFFICES ASSUME AppIInv, ~OnScreen, Free, Playing PROVE ReportedState = "failed"
    BY DEF HiddenIsSilent
  <2>1. pc = "idle" /\ script = <<>> /\ IInv /\ HiddenInv
    BY DEF Free, AppIInv
  <2>2. call = "none" /\ asyncError = "none" /\ ~ended /\ stream \in {"starting", "started"}
    BY <2>1 DEF IInv, CallInv, StreamInv, Playing
  <2>3. lifecycle \notin {"idle", "ready", "disconnected"}
    BY <2>1, <2>2 DEF IInv, LifecycleInv, OutputInv, StoppedStates
  <2>4. lifecycle # "running"
    BY <2>1, <2>2 DEF HiddenInv
  <2>5. lifecycle \in PlaybackStates
    BY <2>1 DEF IInv, TypeOK, TypeControl
  <2> QED
    BY <2>2, <2>3, <2>4, <2>5 DEF ReportedState, PlaybackStates
<1> QED
  BY <1>1, AppInvariance, PTL
==============================================================================
