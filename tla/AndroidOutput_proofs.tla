------------------------ MODULE AndroidOutput_proofs ------------------------
(***************************************************************************)
(* Theorems about the Android output, for JNI calls in any order: the      *)
(* activity is one of the callers they allow.                              *)
(*                                                                         *)
(* None of the properties is inductive alone.  That the callbacks are over *)
(* where the queue is discarded is known from the stream, the stream from  *)
(* the lifecycle and the step of the call, and both from the errors a      *)
(* callback left or has yet to leave; the invariant ties these together.   *)
(***************************************************************************)
EXTENDS AndroidOutput, TLAPS

\* A call is at one of its own steps.
CallInv ==
    /\ pc = "idle" => call = "none"
    /\ pc \in {"sync", "syncDiscard", "guard"} => call \in {"open", "start", "stop", "queue"}
    /\ pc \in {"requestStart", "finishStart"} => call = "start"
    /\ pc \in {"requestStop", "getState", "wait"} => call \in {"stop", "open", "close"}
    /\ pc = "stopDiscard" => call = "stop"
    /\ pc \in {"queueDiscard", "enqueue"} => call = "queue"
    /\ pc \in {"close", "closeStream", "reset"} => call \in {"open", "close"}

\* A callback is under way only on a stream that moves and has not failed; a
\* stream that failed has said so or has yet to.
StreamInv ==
    /\ stream = "none" => pendingError = "none"
    /\ callback # "none" => stream \in {"starting", "started", "stopping"} /\ ~ended
    /\ asyncError # "none" => ended
    /\ pendingError # "none" => ended
    /\ ended /\ stream # "none" => pendingError # "none" \/ asyncError # "none"
    /\ stream = "disconnected" => ended

StopsUnderWay == {"getState", "wait", "stopDiscard", "closeStream", "reset"}
Going == pc = "finishStart" \/ (lifecycle = "running" /\ pc \notin StopsUnderWay)

\* What the lifecycle and the step say of the stream.
LifecycleInv ==
    /\ lifecycle = "idle" => stream = "none" /\ asyncError = "none"
    /\ lifecycle = "ready" => stream \in StoppedStates \/ pc \in {"finishStart", "reset"}
    /\ lifecycle = "running" => stream # "none" \/ pc = "reset"
    /\ Going /\ asyncError = "none" /\ pendingError = "none" => Playing

\* What a step says of the lifecycle and the stream.
StepInv ==
    /\ pc = "open" => lifecycle = "idle"
    /\ pc \in {"requestStart", "finishStart", "queueDiscard", "enqueue", "clearDiscard"}
           => lifecycle = "ready"
    /\ pc \in {"requestStop", "getState", "wait", "stopDiscard"} => lifecycle = "running"
    /\ pc = "syncDiscard" => asyncError # "none"
    /\ pc = "finishStart" => stream # "none"
    /\ pc = "wait" /\ seen \in StoppedStates => stream \in StoppedStates
    /\ pc = "stopDiscard" => stream \in StoppedStates
    /\ pc = "reset" => stream = "none"

\* The frames queued are consecutive frames of the newest test signal, and the
\* next part to be played follows what was heard, or begins the signal.
QueuedFrames ==
    /\ retired < batches
    /\ \A k \in 1 .. Len(queue) :
           queue[k].batch = batches /\ queue[k].index = queue[1].index + (k - 1)
    /\ \/ offset = 0 /\ queue[1].index = 1 /\ heard.batch < batches
       \/ /\ offset = 0 /\ heard.batch = batches
          /\ heard.part = FrameParts /\ queue[1].index = heard.index + 1
       \/ /\ offset > 0 /\ heard.batch = batches
          /\ heard.part = offset /\ queue[1].index = heard.index

BatchInv ==
    /\ call = "queue" /\ pc # "enqueue" => batches < MaxBatches
    /\ pc # "enqueue" => index = 0
    /\ retired <= batches /\ heard.batch <= batches
    /\ pc = "enqueue" =>
           /\ Len(queue) = index /\ offset = 0
           /\ retired < batches /\ heard.batch < batches
           /\ queue # <<>> => queue[1].index = 1
    /\ queue # <<>> => QueuedFrames

\* No output, no stream; and a disconnected lifecycle is that of a failed one.
OutputInv ==
    /\ ~output => pc = "idle" /\ lifecycle = "idle" /\ stream = "none" /\ queue = <<>>
    /\ lifecycle = "disconnected" => ended

IInv == TypeOK /\ CallInv /\ StreamInv /\ LifecycleInv /\ StepInv /\ BatchInv /\ TestSignalFits
        /\ OutputInv

-----------------------------------------------------------------------------
(* One lemma for each action. *)

LEMMA NativeOpenPlaybackKeeps == IInv /\ NativeOpenPlayback => IInv'
<1> SUFFICES ASSUME IInv, NativeOpenPlayback PROVE IInv'
  OBVIOUS
<1> USE DEF IInv, TypeOK
<1>1. TypeQueue' /\ TypeAAudio' /\ TypeHistory' /\ StreamInv' /\ TestSignalFits'
  BY DEF fifo, aaudio, history, Begin, Answer, NativeOpenPlayback, TypeQueue,
    TypeAAudio, TypeHistory, TestSignalFits, StreamInv
<1>2. TypeControl'
  <2>1. output' \in BOOLEAN /\ result' \in BOOLEAN
    BY Zenon DEF fifo, aaudio, history, Begin, Answer, NativeOpenPlayback,
      TypeControl
  <2> QED
    BY <2>1, OutputAssumption DEF PlaybackStates, fifo, aaudio, history, Calls,
      Steps, Errors, StreamStates, ReportedState, Begin, Answer, NativeOpenPlayback,
      TypeControl
<1>3. CallInv'
  BY DEF fifo, aaudio, history, ReportedState, Begin, Answer, NativeOpenPlayback,
    CallInv
<1>4. LifecycleInv'
  BY DEF fifo, aaudio, history, StoppedStates, ReportedState, Begin, Answer,
    NativeOpenPlayback, TypeControl, TypeAAudio, Playing, StreamInv, StopsUnderWay,
    Going, LifecycleInv, StepInv
<1>5. StepInv'
  BY DEF fifo, aaudio, history, StoppedStates, ReportedState, Begin, Answer,
    NativeOpenPlayback, TypeControl, CallInv, StreamInv, LifecycleInv, StepInv
<1>6. BatchInv'
  BY OutputAssumption DEF fifo, aaudio, history, ReportedState, Begin, Answer,
    NativeOpenPlayback, TypeControl, TypeQueue, TypeHistory, CallInv, QueuedFrames,
    BatchInv
<1>7. OutputInv'
  BY DEF fifo, aaudio, history, ReportedState, Begin, Answer, NativeOpenPlayback,
    TypeControl, CallInv, StreamInv, LifecycleInv, StepInv, OutputInv
<1> QED
  BY <1>1, <1>2, <1>3, <1>4, <1>5, <1>6, <1>7

LEMMA NativeStartPlaybackKeeps == IInv /\ NativeStartPlayback => IInv'
<1> SUFFICES ASSUME IInv, NativeStartPlayback PROVE IInv'
  OBVIOUS
<1> USE DEF IInv, TypeOK
<1>1. TypeQueue' /\ TypeAAudio' /\ TypeHistory' /\ StreamInv' /\ TestSignalFits'
  BY DEF fifo, aaudio, history, Begin, Answer, NativeStartPlayback, TypeQueue,
    TypeAAudio, TypeHistory, TestSignalFits, StreamInv
<1>2. TypeControl'
  <2>1. output' \in BOOLEAN /\ result' \in BOOLEAN
    BY Zenon DEF fifo, aaudio, history, Begin, Answer, NativeStartPlayback,
      TypeControl
  <2> QED
    BY <2>1, OutputAssumption DEF PlaybackStates, fifo, aaudio, history, Calls,
      Steps, Errors, StreamStates, ReportedState, Begin, Answer, NativeStartPlayback,
      TypeControl
<1>3. CallInv'
  BY DEF fifo, aaudio, history, ReportedState, Begin, Answer, NativeStartPlayback,
    CallInv
<1>4. LifecycleInv'
  BY DEF fifo, aaudio, history, StoppedStates, ReportedState, Begin, Answer,
    NativeStartPlayback, TypeControl, TypeAAudio, Playing, StreamInv, StopsUnderWay,
    Going, LifecycleInv, StepInv
<1>5. StepInv'
  BY DEF fifo, aaudio, history, StoppedStates, ReportedState, Begin, Answer,
    NativeStartPlayback, TypeControl, CallInv, StreamInv, LifecycleInv, StepInv
<1>6. BatchInv'
  BY OutputAssumption DEF fifo, aaudio, history, ReportedState, Begin, Answer,
    NativeStartPlayback, TypeControl, TypeQueue, TypeHistory, CallInv, QueuedFrames,
    BatchInv
<1>7. OutputInv'
  BY DEF fifo, aaudio, history, ReportedState, Begin, Answer, NativeStartPlayback,
    TypeControl, CallInv, StreamInv, LifecycleInv, StepInv, OutputInv
<1> QED
  BY <1>1, <1>2, <1>3, <1>4, <1>5, <1>6, <1>7

LEMMA NativeStopPlaybackKeeps == IInv /\ NativeStopPlayback => IInv'
<1> SUFFICES ASSUME IInv, NativeStopPlayback PROVE IInv'
  OBVIOUS
<1> USE DEF IInv, TypeOK
<1>1. TypeQueue' /\ TypeAAudio' /\ TypeHistory' /\ StreamInv' /\ TestSignalFits'
  BY DEF fifo, aaudio, history, Begin, Answer, NativeStopPlayback, TypeQueue,
    TypeAAudio, TypeHistory, TestSignalFits, StreamInv
<1>2. TypeControl'
  <2>1. output' \in BOOLEAN /\ result' \in BOOLEAN
    BY Zenon DEF fifo, aaudio, history, Begin, Answer, NativeStopPlayback,
      TypeControl
  <2> QED
    BY <2>1, OutputAssumption DEF PlaybackStates, fifo, aaudio, history, Calls,
      Steps, Errors, StreamStates, ReportedState, Begin, Answer, NativeStopPlayback,
      TypeControl
<1>3. CallInv'
  BY DEF fifo, aaudio, history, ReportedState, Begin, Answer, NativeStopPlayback,
    CallInv
<1>4. LifecycleInv'
  BY DEF fifo, aaudio, history, StoppedStates, ReportedState, Begin, Answer,
    NativeStopPlayback, TypeControl, TypeAAudio, Playing, StreamInv, StopsUnderWay,
    Going, LifecycleInv, StepInv
<1>5. StepInv'
  BY DEF fifo, aaudio, history, StoppedStates, ReportedState, Begin, Answer,
    NativeStopPlayback, TypeControl, CallInv, StreamInv, LifecycleInv, StepInv
<1>6. BatchInv'
  BY OutputAssumption DEF fifo, aaudio, history, ReportedState, Begin, Answer,
    NativeStopPlayback, TypeControl, TypeQueue, TypeHistory, CallInv, QueuedFrames,
    BatchInv
<1>7. OutputInv'
  BY DEF fifo, aaudio, history, ReportedState, Begin, Answer, NativeStopPlayback,
    TypeControl, CallInv, StreamInv, LifecycleInv, StepInv, OutputInv
<1> QED
  BY <1>1, <1>2, <1>3, <1>4, <1>5, <1>6, <1>7

LEMMA NativeQueueLocalTestSignalKeeps == IInv /\ NativeQueueLocalTestSignal => IInv'
<1> SUFFICES ASSUME IInv, NativeQueueLocalTestSignal PROVE IInv'
  OBVIOUS
<1> USE DEF IInv, TypeOK
<1>1. TypeQueue' /\ TypeAAudio' /\ TypeHistory' /\ StreamInv' /\ TestSignalFits'
  BY DEF fifo, aaudio, history, Begin, Answer, NativeQueueLocalTestSignal, TypeQueue,
    TypeAAudio, TypeHistory, TestSignalFits, StreamInv
<1>2. TypeControl'
  <2>1. output' \in BOOLEAN /\ result' \in BOOLEAN
    BY Zenon DEF fifo, aaudio, history, Begin, Answer, NativeQueueLocalTestSignal,
      TypeControl
  <2> QED
    BY <2>1, OutputAssumption DEF PlaybackStates, fifo, aaudio, history, Calls,
      Steps, Errors, StreamStates, Begin, Answer, NativeQueueLocalTestSignal,
      TypeControl
<1>3. CallInv'
  BY DEF fifo, aaudio, history, Begin, Answer, NativeQueueLocalTestSignal, CallInv
<1>4. LifecycleInv'
  BY DEF fifo, aaudio, history, StoppedStates, Begin, Answer,
    NativeQueueLocalTestSignal, TypeControl, TypeAAudio, Playing, StreamInv,
    StopsUnderWay, Going, LifecycleInv, StepInv
<1>5. StepInv'
  BY DEF fifo, aaudio, history, StoppedStates, Begin, Answer,
    NativeQueueLocalTestSignal, TypeControl, CallInv, StreamInv, LifecycleInv,
    StepInv
<1>6. BatchInv'
  BY OutputAssumption DEF fifo, aaudio, history, Begin, Answer,
    NativeQueueLocalTestSignal, TypeControl, TypeQueue, TypeHistory, CallInv,
    QueuedFrames, BatchInv
<1>7. OutputInv'
  BY DEF fifo, aaudio, history, Begin, Answer, NativeQueueLocalTestSignal,
    TypeControl, CallInv, StreamInv, LifecycleInv, StepInv, OutputInv
<1> QED
  BY <1>1, <1>2, <1>3, <1>4, <1>5, <1>6, <1>7

LEMMA NativeClearPlaybackQueueKeeps == IInv /\ NativeClearPlaybackQueue => IInv'
<1> SUFFICES ASSUME IInv, NativeClearPlaybackQueue PROVE IInv'
  OBVIOUS
<1> USE DEF IInv, TypeOK
<1>1. TypeQueue' /\ TypeAAudio' /\ TypeHistory' /\ StreamInv' /\ TestSignalFits'
  BY DEF fifo, aaudio, history, Begin, Answer, NativeClearPlaybackQueue, TypeQueue,
    TypeAAudio, TypeHistory, TestSignalFits, StreamInv
<1>2. TypeControl'
  <2>1. output' \in BOOLEAN /\ result' \in BOOLEAN
    BY Zenon DEF fifo, aaudio, history, Begin, Answer, NativeClearPlaybackQueue,
      TypeControl
  <2> QED
    BY <2>1, OutputAssumption DEF PlaybackStates, fifo, aaudio, history, Calls,
      Steps, Errors, StreamStates, Begin, Answer, NativeClearPlaybackQueue,
      TypeControl
<1>3. CallInv'
  BY DEF fifo, aaudio, history, Begin, Answer, NativeClearPlaybackQueue, CallInv
<1>4. LifecycleInv'
  BY DEF fifo, aaudio, history, StoppedStates, Begin, Answer,
    NativeClearPlaybackQueue, TypeControl, TypeAAudio, Playing, StreamInv,
    StopsUnderWay, Going, LifecycleInv, StepInv
<1>5. StepInv'
  BY DEF fifo, aaudio, history, StoppedStates, Begin, Answer,
    NativeClearPlaybackQueue, TypeControl, CallInv, StreamInv, LifecycleInv, StepInv
<1>6. BatchInv'
  BY OutputAssumption DEF fifo, aaudio, history, Begin, Answer,
    NativeClearPlaybackQueue, TypeControl, TypeQueue, TypeHistory, CallInv,
    QueuedFrames, BatchInv
<1>7. OutputInv'
  BY DEF fifo, aaudio, history, Begin, Answer, NativeClearPlaybackQueue, TypeControl,
    CallInv, StreamInv, LifecycleInv, StepInv, OutputInv
<1> QED
  BY <1>1, <1>2, <1>3, <1>4, <1>5, <1>6, <1>7

LEMMA NativeClosePlaybackKeeps == IInv /\ NativeClosePlayback => IInv'
<1> SUFFICES ASSUME IInv, NativeClosePlayback PROVE IInv'
  OBVIOUS
<1> USE DEF IInv, TypeOK
<1>1. TypeQueue' /\ TypeAAudio' /\ TypeHistory' /\ StreamInv' /\ TestSignalFits'
  BY DEF fifo, aaudio, history, Begin, Answer, NativeClosePlayback, TypeQueue,
    TypeAAudio, TypeHistory, TestSignalFits, StreamInv
<1>2. TypeControl'
  <2>1. output' \in BOOLEAN /\ result' \in BOOLEAN
    BY Zenon DEF fifo, aaudio, history, Begin, Answer, NativeClosePlayback,
      TypeControl
  <2> QED
    BY <2>1, OutputAssumption DEF PlaybackStates, fifo, aaudio, history, Calls,
      Steps, Errors, StreamStates, Begin, Answer, NativeClosePlayback, TypeControl
<1>3. CallInv'
  BY DEF fifo, aaudio, history, Begin, Answer, NativeClosePlayback, CallInv
<1>4. LifecycleInv'
  BY DEF fifo, aaudio, history, StoppedStates, Begin, Answer, NativeClosePlayback,
    TypeControl, TypeAAudio, Playing, StreamInv, StopsUnderWay, Going, LifecycleInv,
    StepInv
<1>5. StepInv'
  BY DEF fifo, aaudio, history, StoppedStates, Begin, Answer, NativeClosePlayback,
    TypeControl, CallInv, StreamInv, LifecycleInv, StepInv
<1>6. BatchInv'
  BY OutputAssumption DEF fifo, aaudio, history, Begin, Answer, NativeClosePlayback,
    TypeControl, TypeQueue, TypeHistory, CallInv, QueuedFrames, BatchInv
<1>7. OutputInv'
  BY DEF fifo, aaudio, history, Begin, Answer, NativeClosePlayback, TypeControl,
    CallInv, StreamInv, LifecycleInv, StepInv, OutputInv
<1> QED
  BY <1>1, <1>2, <1>3, <1>4, <1>5, <1>6, <1>7

LEMMA SynchronizeKeeps == IInv /\ Synchronize => IInv'
<1> SUFFICES ASSUME IInv, Synchronize PROVE IInv'
  OBVIOUS
<1> USE DEF IInv, TypeOK
<1>1. TypeQueue' /\ TypeAAudio' /\ TypeHistory' /\ StreamInv'
  BY DEF fifo, aaudio, history, Goto, Synchronize, TypeQueue, TypeAAudio,
    TypeHistory, StreamInv
<1>2. TypeControl'
  BY OutputAssumption DEF PlaybackStates, Disconnect, FailedState, fifo, aaudio,
    history, Calls, Steps, Errors, StreamStates, Goto, Synchronize, TypeControl
<1>3. CallInv'
  BY DEF Disconnect, FailedState, fifo, aaudio, history, Goto, Synchronize, CallInv
<1>4. LifecycleInv'
  BY DEF Disconnect, FailedState, fifo, aaudio, history, StoppedStates, Goto,
    Synchronize, TypeControl, TypeAAudio, Playing, StreamInv, StopsUnderWay, Going,
    LifecycleInv, StepInv
<1>5. StepInv'
  BY DEF Disconnect, FailedState, fifo, aaudio, history, StoppedStates, Goto,
    Synchronize, TypeControl, CallInv, StreamInv, LifecycleInv, StepInv
<1>6. BatchInv'
  BY OutputAssumption DEF Disconnect, FailedState, fifo, aaudio, history, Goto,
    Synchronize, TypeControl, TypeQueue, TypeHistory, CallInv, QueuedFrames, BatchInv
<1>7. TestSignalFits'
  BY OutputAssumption DEF Disconnect, FailedState, fifo, aaudio, history, Goto,
    Synchronize, TestSignalFits, BatchInv
<1>8. OutputInv'
  BY DEF Disconnect, FailedState, fifo, aaudio, history, Goto, Synchronize,
    TypeControl, CallInv, StreamInv, LifecycleInv, StepInv, OutputInv
<1> QED
  BY <1>1, <1>2, <1>3, <1>4, <1>5, <1>6, <1>7, <1>8

LEMMA DiscardForSyncKeeps == IInv /\ DiscardForSync => IInv'
<1> SUFFICES ASSUME IInv, DiscardForSync PROVE IInv'
  OBVIOUS
<1> USE DEF IInv, TypeOK
<1>1. TypeAAudio' /\ TypeHistory' /\ StreamInv' /\ TestSignalFits'
  BY DEF aaudio, history, Goto, DiscardForSync, TypeAAudio, TypeHistory,
    TestSignalFits, StreamInv
<1>2. TypeControl'
  BY OutputAssumption DEF PlaybackStates, aaudio, history, Calls, Steps, Errors,
    StreamStates, Goto, EmptyTheQueue, DiscardForSync, TypeControl
<1>3. TypeQueue'
  BY OutputAssumption DEF aaudio, history, Frame, Goto, EmptyTheQueue,
    DiscardForSync, TypeQueue, BatchInv
<1>4. CallInv'
  BY DEF aaudio, history, Goto, EmptyTheQueue, DiscardForSync, CallInv
<1>5. LifecycleInv'
  BY DEF aaudio, history, StoppedStates, Goto, EmptyTheQueue, DiscardForSync,
    TypeControl, TypeAAudio, Playing, StreamInv, StopsUnderWay, Going, LifecycleInv,
    StepInv
<1>6. StepInv'
  BY DEF aaudio, history, StoppedStates, Goto, EmptyTheQueue, DiscardForSync,
    TypeControl, CallInv, StreamInv, LifecycleInv, StepInv
<1>7. BatchInv'
  BY OutputAssumption DEF aaudio, history, Goto, EmptyTheQueue, DiscardForSync,
    TypeControl, TypeQueue, TypeHistory, CallInv, QueuedFrames, BatchInv
<1>8. OutputInv'
  BY DEF aaudio, history, Goto, EmptyTheQueue, DiscardForSync, TypeControl, CallInv,
    StreamInv, LifecycleInv, StepInv, OutputInv
<1> QED
  BY <1>1, <1>2, <1>3, <1>4, <1>5, <1>6, <1>7, <1>8

LEMMA CheckStateKeeps == IInv /\ CheckState => IInv'
<1> SUFFICES ASSUME IInv, CheckState PROVE IInv'
  OBVIOUS
<1> USE DEF IInv, TypeOK
<1>1. TypeQueue' /\ TypeAAudio' /\ TypeHistory' /\ StreamInv'
  BY DEF fifo, aaudio, history, Goto, Return, Fail, CheckState, TypeQueue,
    TypeAAudio, TypeHistory, StreamInv
<1>2. TypeControl'
  <2>1. output' \in BOOLEAN /\ result' \in BOOLEAN
    BY Zenon DEF fifo, aaudio, history, Goto, Return, Fail, CheckState, TypeControl
  <2> QED
    BY <2>1, OutputAssumption DEF PlaybackStates, FailedState, fifo, aaudio, history,
      Calls, Steps, Errors, StreamStates, Goto, Return, Fail, Admitted, FirstStep,
      CheckState, TypeControl
<1>3. CallInv'
  BY DEF FailedState, fifo, aaudio, history, Goto, Return, Fail, Admitted, FirstStep,
    CheckState, CallInv
<1>4. LifecycleInv'
  BY DEF FailedState, fifo, aaudio, history, StoppedStates, Goto, Return, Fail,
    Admitted, FirstStep, CheckState, TypeControl, TypeAAudio, Playing, StreamInv,
    StopsUnderWay, Going, LifecycleInv, StepInv
<1>5. StepInv'
  BY DEF FailedState, fifo, aaudio, history, StoppedStates, Goto, Return, Fail,
    Admitted, FirstStep, CheckState, TypeControl, CallInv, StreamInv, LifecycleInv,
    StepInv
<1>6. BatchInv'
  BY OutputAssumption DEF FailedState, fifo, aaudio, history, Goto, Return, Fail,
    Admitted, FirstStep, CheckState, TypeControl, TypeQueue, TypeHistory, CallInv,
    QueuedFrames, BatchInv
<1>7. TestSignalFits'
  BY OutputAssumption DEF FailedState, fifo, aaudio, history, Goto, Return, Fail,
    Admitted, FirstStep, CheckState, TestSignalFits, BatchInv
<1>8. OutputInv'
  BY DEF FailedState, fifo, aaudio, history, Goto, Return, Fail, Admitted, FirstStep,
    CheckState, TypeControl, CallInv, StreamInv, LifecycleInv, StepInv, OutputInv
<1> QED
  BY <1>1, <1>2, <1>3, <1>4, <1>5, <1>6, <1>7, <1>8

LEMMA OpenStreamKeeps == IInv /\ OpenStream => IInv'
<1> SUFFICES ASSUME IInv, OpenStream PROVE IInv'
  OBVIOUS
<1> USE DEF IInv, TypeOK
<1>1. TypeControl'
  BY OutputAssumption DEF PlaybackStates, Transition, Prepare, FailedState, Calls,
    Steps, Errors, StreamStates, Fault, Return, Fail, EmptyTheQueue, OpenStream,
    TypeControl
<1>2. TypeQueue'
  BY OutputAssumption DEF Transition, Prepare, FailedState, Frame, Fault, Return,
    Fail, EmptyTheQueue, OpenStream, TypeQueue, BatchInv
<1>3. TypeAAudio'
  BY DEF Transition, Prepare, FailedState, ErrorCodes, StreamStates, Fault, Return,
    Fail, EmptyTheQueue, OpenStream, TypeAAudio
<1>4. TypeHistory'
  BY OutputAssumption DEF Transition, Prepare, FailedState, Part, Fault, Return,
    Fail, EmptyTheQueue, OpenStream, TypeQueue, TypeHistory, BatchInv
<1>5. CallInv'
  BY DEF Transition, Prepare, FailedState, Fault, Return, Fail, EmptyTheQueue,
    OpenStream, CallInv
<1>6. StreamInv'
  BY DEF Transition, Prepare, FailedState, Fault, Return, Fail, EmptyTheQueue,
    OpenStream, TypeAAudio, StreamInv, LifecycleInv, StepInv
<1>7. LifecycleInv'
  BY DEF Transition, Prepare, FailedState, StoppedStates, Fault, Return, Fail,
    EmptyTheQueue, OpenStream, TypeControl, TypeAAudio, Playing, StreamInv,
    StopsUnderWay, Going, LifecycleInv, StepInv
<1>8. StepInv'
  BY DEF Transition, Prepare, FailedState, StoppedStates, Fault, Return, Fail,
    EmptyTheQueue, OpenStream, TypeControl, CallInv, StreamInv, LifecycleInv, StepInv
<1>9. BatchInv'
  BY OutputAssumption DEF Transition, Prepare, FailedState, Fault, Return, Fail,
    EmptyTheQueue, OpenStream, TypeControl, TypeQueue, TypeHistory, CallInv,
    QueuedFrames, BatchInv
<1>10. TestSignalFits'
  BY OutputAssumption DEF Transition, Prepare, FailedState, Fault, Return, Fail,
    EmptyTheQueue, OpenStream, TestSignalFits, BatchInv
<1>11. OutputInv'
  BY DEF Transition, Prepare, FailedState, Fault, Return, Fail, EmptyTheQueue,
    OpenStream, TypeControl, CallInv, StreamInv, LifecycleInv, StepInv, OutputInv
<1> QED
  BY <1>1, <1>2, <1>3, <1>4, <1>5, <1>6, <1>7, <1>8, <1>9, <1>10, <1>11

LEMMA RequestStartKeeps == IInv /\ RequestStart => IInv'
<1> SUFFICES ASSUME IInv, RequestStart PROVE IInv'
  OBVIOUS
<1> USE DEF IInv, TypeOK
<1>1. TypeQueue'
  BY DEF fifo, Goto, Return, Fail, RequestStart, TypeQueue
<1>2. TypeControl'
  BY OutputAssumption DEF PlaybackStates, FailedState, fifo, Calls, Steps, Errors,
    StreamStates, Fault, Goto, Return, Fail, Refused, RequestStart, TypeControl
<1>3. TypeAAudio'
  BY DEF FailedState, fifo, ErrorCodes, StreamStates, Fault, Goto, Return, Fail,
    Refused, RequestStart, TypeAAudio
<1>4. TypeHistory'
  BY OutputAssumption DEF FailedState, fifo, Part, Fault, Goto, Return, Fail,
    Refused, RequestStart, TypeQueue, TypeHistory, BatchInv
<1>5. CallInv'
  BY DEF FailedState, fifo, Fault, Goto, Return, Fail, Refused, RequestStart, CallInv
<1>6. StreamInv'
  BY DEF FailedState, fifo, StoppedStates, Fault, Goto, Return, Fail, Refused,
    RequestStart, TypeAAudio, Playing, StreamInv, StopsUnderWay, Going, LifecycleInv,
    StepInv
<1>7. LifecycleInv'
  BY DEF FailedState, fifo, StoppedStates, Fault, Goto, Return, Fail, Refused,
    RequestStart, TypeControl, TypeAAudio, Playing, StreamInv, StopsUnderWay, Going,
    LifecycleInv, StepInv
<1>8. StepInv'
  BY DEF FailedState, fifo, StoppedStates, Fault, Goto, Return, Fail, Refused,
    RequestStart, TypeControl, CallInv, StreamInv, LifecycleInv, StepInv
<1>9. BatchInv'
  BY OutputAssumption DEF FailedState, fifo, Fault, Goto, Return, Fail, Refused,
    RequestStart, TypeControl, TypeQueue, TypeHistory, CallInv, QueuedFrames,
    BatchInv
<1>10. TestSignalFits'
  BY OutputAssumption DEF FailedState, fifo, Fault, Goto, Return, Fail, Refused,
    RequestStart, TestSignalFits, BatchInv
<1>11. OutputInv'
  BY DEF FailedState, fifo, Fault, Goto, Return, Fail, Refused, RequestStart,
    TypeControl, CallInv, StreamInv, LifecycleInv, StepInv, OutputInv
<1> QED
  BY <1>1, <1>2, <1>3, <1>4, <1>5, <1>6, <1>7, <1>8, <1>9, <1>10, <1>11

LEMMA FinishStartKeeps == IInv /\ FinishStart => IInv'
<1> SUFFICES ASSUME IInv, FinishStart PROVE IInv'
  OBVIOUS
<1> USE DEF IInv, TypeOK
<1>1. TypeQueue' /\ TypeHistory'
  BY DEF fifo, aaudio, history, Return, FinishStart, TypeQueue, TypeHistory
<1>2. TypeControl'
  BY OutputAssumption DEF PlaybackStates, Transition, Start, fifo, aaudio, history,
    Calls, Steps, Errors, StreamStates, Return, ErrorLeft, FinishStart, TypeControl
<1>3. TypeAAudio'
  BY DEF Transition, Start, fifo, aaudio, history, ErrorCodes, StreamStates, Return,
    ErrorLeft, FinishStart, TypeAAudio
<1>4. CallInv'
  BY DEF Transition, Start, fifo, aaudio, history, Return, ErrorLeft, FinishStart,
    CallInv
<1>5. StreamInv'
  BY DEF Transition, Start, fifo, aaudio, history, Return, ErrorLeft, FinishStart,
    TypeAAudio, StreamInv, LifecycleInv, StepInv
<1>6. LifecycleInv'
  BY DEF Transition, Start, fifo, aaudio, history, StoppedStates, Return, ErrorLeft,
    FinishStart, TypeControl, TypeAAudio, Playing, StreamInv, StopsUnderWay, Going,
    LifecycleInv, StepInv
<1>7. StepInv'
  BY DEF Transition, Start, fifo, aaudio, history, StoppedStates, Return, ErrorLeft,
    FinishStart, TypeControl, CallInv, StreamInv, LifecycleInv, StepInv
<1>8. BatchInv'
  BY OutputAssumption DEF Transition, Start, fifo, aaudio, history, Return,
    ErrorLeft, FinishStart, TypeControl, TypeQueue, TypeHistory, CallInv,
    QueuedFrames, BatchInv
<1>9. TestSignalFits'
  BY OutputAssumption DEF Transition, Start, fifo, aaudio, history, Return,
    ErrorLeft, FinishStart, TestSignalFits, BatchInv
<1>10. OutputInv'
  BY DEF Transition, Start, fifo, aaudio, history, Return, ErrorLeft, FinishStart,
    TypeControl, CallInv, StreamInv, LifecycleInv, StepInv, OutputInv
<1> QED
  BY <1>1, <1>2, <1>3, <1>4, <1>5, <1>6, <1>7, <1>8, <1>9, <1>10

LEMMA RequestStopKeeps == IInv /\ RequestStop => IInv'
<1> SUFFICES ASSUME IInv, RequestStop PROVE IInv'
  OBVIOUS
<1> USE DEF IInv, TypeOK
<1>1. TypeQueue'
  BY DEF fifo, Goto, Return, Fail, RequestStop, TypeQueue
<1>2. TypeControl'
  <2>1. output' \in BOOLEAN /\ result' \in BOOLEAN
    BY Zenon DEF fifo, Goto, Return, Fail, RequestStop, TypeControl
  <2> QED
    BY <2>1, OutputAssumption DEF PlaybackStates, FailedState, fifo, Calls, Steps,
      Errors, StreamStates, Fault, Goto, Return, Fail, Refused, Closing, RequestStop,
      TypeControl
<1>3. TypeAAudio'
  BY DEF FailedState, fifo, ErrorCodes, StreamStates, Fault, Goto, Return, Fail,
    Refused, Closing, RequestStop, TypeAAudio
<1>4. TypeHistory'
  BY OutputAssumption DEF FailedState, fifo, Part, Fault, Goto, Return, Fail,
    Refused, Closing, RequestStop, TypeQueue, TypeHistory, BatchInv
<1>5. CallInv'
  BY DEF FailedState, fifo, Fault, Goto, Return, Fail, Refused, Closing, RequestStop,
    CallInv
<1>6. StreamInv'
  BY DEF FailedState, fifo, Fault, Goto, Return, Fail, Refused, Closing, RequestStop,
    TypeAAudio, StreamInv, LifecycleInv, StepInv
<1>7. LifecycleInv'
  BY DEF FailedState, fifo, StoppedStates, Fault, Goto, Return, Fail, Refused,
    Closing, RequestStop, TypeControl, TypeAAudio, Playing, StreamInv, StopsUnderWay,
    Going, LifecycleInv, StepInv
<1>8. StepInv'
  BY DEF FailedState, fifo, StoppedStates, Fault, Goto, Return, Fail, Refused,
    Closing, RequestStop, TypeControl, CallInv, StreamInv, LifecycleInv, StepInv
<1>9. BatchInv'
  BY OutputAssumption DEF FailedState, fifo, Fault, Goto, Return, Fail, Refused,
    Closing, RequestStop, TypeControl, TypeQueue, TypeHistory, CallInv, QueuedFrames,
    BatchInv
<1>10. TestSignalFits'
  BY OutputAssumption DEF FailedState, fifo, Fault, Goto, Return, Fail, Refused,
    Closing, RequestStop, TestSignalFits, BatchInv
<1>11. OutputInv'
  BY DEF FailedState, fifo, Fault, Goto, Return, Fail, Refused, Closing, RequestStop,
    TypeControl, CallInv, StreamInv, LifecycleInv, StepInv, OutputInv
<1> QED
  BY <1>1, <1>2, <1>3, <1>4, <1>5, <1>6, <1>7, <1>8, <1>9, <1>10, <1>11

LEMMA GetStateKeeps == IInv /\ GetState => IInv'
<1> SUFFICES ASSUME IInv, GetState PROVE IInv'
  OBVIOUS
<1> USE DEF IInv, TypeOK
<1>1. TypeQueue' /\ TypeAAudio' /\ TypeHistory' /\ StreamInv' /\ TestSignalFits'
  BY DEF fifo, aaudio, history, Goto, GetState, TypeQueue, TypeAAudio, TypeHistory,
    TestSignalFits, StreamInv
<1>2. TypeControl'
  <2>1. output' \in BOOLEAN /\ result' \in BOOLEAN
    BY Zenon DEF fifo, aaudio, history, Goto, GetState, TypeControl
  <2> QED
    BY <2>1, OutputAssumption DEF PlaybackStates, fifo, aaudio, history, Calls,
      Steps, Errors, StreamStates, Goto, GetState, TypeControl, TypeAAudio
<1>3. CallInv'
  BY DEF fifo, aaudio, history, Goto, GetState, CallInv
<1>4. LifecycleInv'
  BY DEF fifo, aaudio, history, StoppedStates, Goto, GetState, TypeControl,
    TypeAAudio, Playing, StreamInv, StopsUnderWay, Going, LifecycleInv, StepInv
<1>5. StepInv'
  BY DEF fifo, aaudio, history, StoppedStates, Goto, GetState, TypeControl, CallInv,
    StreamInv, LifecycleInv, StepInv
<1>6. BatchInv'
  BY OutputAssumption DEF fifo, aaudio, history, Goto, GetState, TypeControl,
    TypeQueue, TypeHistory, CallInv, QueuedFrames, BatchInv
<1>7. OutputInv'
  BY DEF fifo, aaudio, history, Goto, GetState, TypeControl, CallInv, StreamInv,
    LifecycleInv, StepInv, OutputInv
<1> QED
  BY <1>1, <1>2, <1>3, <1>4, <1>5, <1>6, <1>7

LEMMA WaitConfirmedKeeps == IInv /\ WaitConfirmed => IInv'
<1> SUFFICES ASSUME IInv, WaitConfirmed PROVE IInv'
  OBVIOUS
<1> USE DEF IInv, TypeOK
<1>1. TypeQueue' /\ TypeAAudio' /\ TypeHistory' /\ StreamInv' /\ TestSignalFits'
  BY DEF fifo, aaudio, history, Goto, WaitConfirmed, TypeQueue, TypeAAudio,
    TypeHistory, TestSignalFits, StreamInv
<1>2. TypeControl'
  BY OutputAssumption DEF PlaybackStates, fifo, aaudio, history, Calls, Steps,
    Errors, StreamStates, StoppedStates, Goto, Closing, Waiting, WaitConfirmed,
    TypeControl
<1>3. CallInv'
  BY DEF fifo, aaudio, history, StoppedStates, Goto, Closing, Waiting, WaitConfirmed,
    CallInv
<1>4. LifecycleInv'
  BY DEF fifo, aaudio, history, StoppedStates, Goto, Closing, Waiting, WaitConfirmed,
    TypeControl, TypeAAudio, Playing, StreamInv, StopsUnderWay, Going, LifecycleInv,
    StepInv
<1>5. StepInv'
  BY DEF fifo, aaudio, history, StoppedStates, Goto, Closing, Waiting, WaitConfirmed,
    TypeControl, CallInv, StreamInv, LifecycleInv, StepInv
<1>6. BatchInv'
  BY OutputAssumption DEF fifo, aaudio, history, StoppedStates, Goto, Closing,
    Waiting, WaitConfirmed, TypeControl, TypeQueue, TypeHistory, CallInv,
    QueuedFrames, BatchInv
<1>7. OutputInv'
  BY DEF fifo, aaudio, history, StoppedStates, Goto, Closing, Waiting, WaitConfirmed,
    TypeControl, CallInv, StreamInv, LifecycleInv, StepInv, OutputInv
<1> QED
  BY <1>1, <1>2, <1>3, <1>4, <1>5, <1>6, <1>7

LEMMA WaitForChangeKeeps == IInv /\ WaitForChange => IInv'
<1> SUFFICES ASSUME IInv, WaitForChange PROVE IInv'
  OBVIOUS
<1> USE DEF IInv, TypeOK
<1>1. TypeQueue' /\ TypeAAudio' /\ TypeHistory' /\ CallInv' /\ StreamInv' /\ LifecycleInv' /\ BatchInv' /\ TestSignalFits' /\ OutputInv'
  BY DEF fifo, aaudio, history, WaitForChange, TypeQueue, TypeAAudio, TypeHistory,
    Playing, TestSignalFits, CallInv, StreamInv, Going, LifecycleInv, QueuedFrames,
    BatchInv, OutputInv
<1>2. TypeControl'
  <2>1. output' \in BOOLEAN /\ result' \in BOOLEAN
    BY Zenon DEF fifo, aaudio, history, WaitForChange, TypeControl
  <2> QED
    BY <2>1, OutputAssumption DEF PlaybackStates, fifo, aaudio, history, Calls,
      Steps, Errors, StreamStates, StoppedStates, Waiting, WaitForChange,
      TypeControl, TypeAAudio
<1>3. StepInv'
  BY DEF fifo, aaudio, history, StoppedStates, Waiting, WaitForChange, TypeControl,
    CallInv, StreamInv, LifecycleInv, StepInv
<1> QED
  BY <1>1, <1>2, <1>3

LEMMA WaitGivenUpKeeps == IInv /\ WaitGivenUp => IInv'
<1> SUFFICES ASSUME IInv, WaitGivenUp PROVE IInv'
  OBVIOUS
<1> USE DEF IInv, TypeOK
<1>1. TypeQueue' /\ TypeAAudio' /\ TypeHistory' /\ StreamInv'
  BY DEF fifo, aaudio, history, Goto, Return, Fail, WaitGivenUp, TypeQueue,
    TypeAAudio, TypeHistory, StreamInv
<1>2. TypeControl'
  <2>1. output' \in BOOLEAN /\ result' \in BOOLEAN
    BY Zenon DEF fifo, aaudio, history, Goto, Return, Fail, StopGivenUp, WaitGivenUp,
      TypeControl
  <2> QED
    BY <2>1, OutputAssumption DEF PlaybackStates, FailedState, fifo, aaudio, history,
      Calls, Steps, Errors, StreamStates, StoppedStates, Goto, Return, Fail, Closing,
      Waiting, StopGivenUp, WaitGivenUp, TypeControl
<1>3. CallInv'
  BY DEF FailedState, fifo, aaudio, history, StoppedStates, Goto, Return, Fail,
    Closing, Waiting, StopGivenUp, WaitGivenUp, CallInv
<1>4. LifecycleInv'
  BY DEF FailedState, fifo, aaudio, history, StoppedStates, Goto, Return, Fail,
    Closing, Waiting, StopGivenUp, WaitGivenUp, TypeControl, TypeAAudio, Playing,
    StreamInv, StopsUnderWay, Going, LifecycleInv, StepInv
<1>5. StepInv'
  BY DEF FailedState, fifo, aaudio, history, StoppedStates, Goto, Return, Fail,
    Closing, Waiting, StopGivenUp, WaitGivenUp, TypeControl, CallInv, StreamInv,
    LifecycleInv, StepInv
<1>6. BatchInv'
  BY OutputAssumption DEF FailedState, fifo, aaudio, history, StoppedStates, Goto,
    Return, Fail, Closing, Waiting, StopGivenUp, WaitGivenUp, TypeControl, TypeQueue,
    TypeHistory, CallInv, QueuedFrames, BatchInv
<1>7. TestSignalFits'
  BY OutputAssumption DEF FailedState, fifo, aaudio, history, StoppedStates, Goto,
    Return, Fail, Closing, Waiting, StopGivenUp, WaitGivenUp, TestSignalFits,
    BatchInv
<1>8. OutputInv'
  BY DEF FailedState, fifo, aaudio, history, StoppedStates, Goto, Return, Fail,
    Closing, Waiting, StopGivenUp, WaitGivenUp, TypeControl, CallInv, StreamInv,
    LifecycleInv, StepInv, OutputInv
<1> QED
  BY <1>1, <1>2, <1>3, <1>4, <1>5, <1>6, <1>7, <1>8

LEMMA FinishStopKeeps == IInv /\ FinishStop => IInv'
<1> SUFFICES ASSUME IInv, FinishStop PROVE IInv'
  OBVIOUS
<1> USE DEF IInv, TypeOK
<1>1. TypeAAudio' /\ StreamInv'
  BY DEF aaudio, Return, FinishStop, TypeAAudio, StreamInv
<1>2. TypeControl'
  BY OutputAssumption DEF PlaybackStates, Transition, Stop, aaudio, Calls, Steps,
    Errors, StreamStates, Return, EmptyTheQueue, DiscardAfterStop, FinishStop,
    TypeControl
<1>3. TypeQueue'
  BY OutputAssumption DEF Transition, Stop, aaudio, Frame, Return, EmptyTheQueue,
    DiscardAfterStop, FinishStop, TypeQueue, BatchInv
<1>4. TypeHistory'
  BY OutputAssumption DEF Transition, Stop, aaudio, Part, Return, EmptyTheQueue,
    DiscardAfterStop, FinishStop, TypeQueue, TypeHistory, BatchInv
<1>5. CallInv'
  BY DEF Transition, Stop, aaudio, Return, EmptyTheQueue, DiscardAfterStop,
    FinishStop, CallInv
<1>6. LifecycleInv'
  BY DEF Transition, Stop, aaudio, StoppedStates, Return, EmptyTheQueue,
    DiscardAfterStop, FinishStop, TypeControl, TypeAAudio, Playing, StreamInv,
    StopsUnderWay, Going, LifecycleInv, StepInv
<1>7. StepInv'
  BY DEF Transition, Stop, aaudio, StoppedStates, Return, EmptyTheQueue,
    DiscardAfterStop, FinishStop, TypeControl, CallInv, StreamInv, LifecycleInv,
    StepInv
<1>8. BatchInv'
  BY OutputAssumption DEF Transition, Stop, aaudio, Return, EmptyTheQueue,
    DiscardAfterStop, FinishStop, TypeControl, TypeQueue, TypeHistory, CallInv,
    QueuedFrames, BatchInv
<1>9. TestSignalFits'
  BY OutputAssumption DEF Transition, Stop, aaudio, Return, EmptyTheQueue,
    DiscardAfterStop, FinishStop, TestSignalFits, BatchInv
<1>10. OutputInv'
  BY DEF Transition, Stop, aaudio, Return, EmptyTheQueue, DiscardAfterStop,
    FinishStop, TypeControl, CallInv, StreamInv, LifecycleInv, StepInv, OutputInv
<1> QED
  BY <1>1, <1>2, <1>3, <1>4, <1>5, <1>6, <1>7, <1>8, <1>9, <1>10

LEMMA DiscardForBatchKeeps == IInv /\ DiscardForBatch => IInv'
<1> SUFFICES ASSUME IInv, DiscardForBatch PROVE IInv'
  OBVIOUS
<1> USE DEF IInv, TypeOK
<1>1. TypeAAudio' /\ StreamInv' /\ TestSignalFits'
  BY DEF aaudio, Goto, DiscardForBatch, TypeAAudio, TestSignalFits, StreamInv
<1>2. TypeControl'
  BY OutputAssumption DEF PlaybackStates, aaudio, Calls, Steps, Errors, StreamStates,
    Goto, EmptyTheQueue, DiscardForBatch, TypeControl
<1>3. TypeQueue'
  BY OutputAssumption DEF aaudio, Frame, Goto, EmptyTheQueue, DiscardForBatch,
    TypeQueue, BatchInv
<1>4. TypeHistory'
  <2>1. batches < MaxBatches
    BY DEF DiscardForBatch, CallInv, BatchInv
  <2> QED
    BY <2>1, OutputAssumption DEF DiscardForBatch, TypeHistory
<1>5. CallInv'
  BY DEF aaudio, Goto, EmptyTheQueue, DiscardForBatch, CallInv
<1>6. LifecycleInv'
  BY DEF aaudio, StoppedStates, Goto, EmptyTheQueue, DiscardForBatch, TypeControl,
    TypeAAudio, Playing, StreamInv, StopsUnderWay, Going, LifecycleInv, StepInv
<1>7. StepInv'
  BY DEF aaudio, StoppedStates, Goto, EmptyTheQueue, DiscardForBatch, TypeControl,
    CallInv, StreamInv, LifecycleInv, StepInv
<1>8. BatchInv'
  <2>1. heard.batch \in Nat /\ retired \in Nat /\ batches \in Nat
    BY OutputAssumption DEF TypeHistory, Part
  <2>2. index = 0 /\ heard.batch <= batches /\ retired <= batches
    BY DEF DiscardForBatch, BatchInv
  <2> QED
    BY <2>1, <2>2 DEF DiscardForBatch, EmptyTheQueue, Goto, BatchInv
<1>9. OutputInv'
  BY DEF aaudio, Goto, EmptyTheQueue, DiscardForBatch, TypeControl, CallInv,
    StreamInv, LifecycleInv, StepInv, OutputInv
<1> QED
  BY <1>1, <1>2, <1>3, <1>4, <1>5, <1>6, <1>7, <1>8, <1>9

LEMMA EnqueueFrameKeeps == IInv /\ EnqueueFrame => IInv'
<1> SUFFICES ASSUME IInv, EnqueueFrame PROVE IInv'
  OBVIOUS
<1> USE DEF IInv, TypeOK
<1>e. /\ pc = "enqueue" /\ pc' = "enqueue" /\ call' = call
      /\ index < FramesPerBatch /\ index' = index + 1 /\ Len(queue) = index
      /\ queue' = Append(queue, [batch |-> batches, index |-> index + 1])
      /\ offset = 0 /\ offset' = 0
      /\ retired < batches /\ heard.batch < batches
      /\ queue # <<>> => queue[1].index = 1
      /\ UNCHANGED <<output, lifecycle, error, result, seen, changes, asyncError, aaudio, history>>
  <2>1. pc = "enqueue" /\ index < FramesPerBatch /\ Len(queue) = index /\ offset = 0
        /\ index \in Nat
    BY OutputAssumption DEF EnqueueFrame, BatchInv, TypeControl
  <2>2. Len(queue) < Capacity
    BY <2>1, OutputAssumption
  <2> QED
    BY <2>1, <2>2 DEF EnqueueFrame, Goto, BatchInv
<1>1. TypeAAudio' /\ StreamInv'
  BY DEF aaudio, history, Goto, Return, Fail, EnqueueFrame, TypeAAudio, StreamInv
<1>2. TypeControl'
  <2>1. output' \in BOOLEAN /\ result' \in BOOLEAN
    BY <1>e, Zenon DEF aaudio, history, Goto, Return, Fail, EnqueueFrame, TypeControl
  <2> QED
    BY <1>e, <2>1, OutputAssumption DEF PlaybackStates, FailedState, aaudio, history,
      Calls, Steps, Errors, StreamStates, Goto, Return, Fail, EnqueueFrame,
      TypeControl
<1>3. TypeQueue'
  <2>1. [batch |-> batches, index |-> index + 1] \in Frame
    BY <1>e, OutputAssumption DEF TypeHistory, TypeControl, Frame
  <2> QED
    BY <1>e, <2>1, OutputAssumption DEF TypeQueue
<1>4. TypeHistory'
  BY DEF EnqueueFrame, history, TypeHistory
<1>5. CallInv'
  BY <1>e DEF FailedState, aaudio, history, Goto, Return, Fail, EnqueueFrame, CallInv
<1>6. LifecycleInv'
  BY <1>e DEF FailedState, aaudio, history, StoppedStates, Goto, Return, Fail,
    EnqueueFrame, TypeControl, TypeAAudio, Playing, StreamInv, StopsUnderWay, Going,
    LifecycleInv, StepInv
<1>7. StepInv'
  BY <1>e DEF FailedState, aaudio, history, StoppedStates, Goto, Return, Fail,
    EnqueueFrame, TypeControl, CallInv, StreamInv, LifecycleInv, StepInv
<1>8. BatchInv'
  <2>1. queue \in Seq(Frame) /\ Len(queue) = index /\ index \in Nat /\ batches \in Nat
        /\ retired \in Nat /\ heard.batch \in Nat
    BY <1>e, OutputAssumption DEF TypeQueue, TypeControl, TypeHistory, Part
  <2>2. Len(queue') = index + 1 /\ queue'[index + 1] = [batch |-> batches, index |-> index + 1]
        /\ \A k \in 1 .. index : queue'[k] = queue[k]
    BY <1>e, <2>1
  <2>3. queue'[1].index = 1
    BY <1>e, <2>1, <2>2
  <2>4. \A k \in 1 .. index + 1 :
            queue'[k].batch = batches /\ queue'[k].index = queue'[1].index + (k - 1)
    <3> TAKE k \in 1 .. index + 1
    <3>1. CASE k = index + 1
      BY <2>1, <2>2, <2>3, <3>1
    <3>2. CASE k \in 1 .. index
      <4>1. queue # <<>> /\ queue[1].index = 1
        BY <1>e, <2>1, <3>2
      <4>2. queue[k].batch = batches /\ queue[k].index = queue[1].index + (k - 1)
        BY <2>1, <3>2, <4>1 DEF BatchInv, QueuedFrames
      <4> QED
        BY <2>2, <2>3, <3>2, <4>1, <4>2
    <3> QED
      BY <2>1, <3>1, <3>2
  <2>5. QueuedFrames'
    BY <1>e, <2>2, <2>3, <2>4 DEF EnqueueFrame, history, QueuedFrames
  <2> QED
    BY <1>e, <2>1, <2>2, <2>3, <2>5 DEF EnqueueFrame, history, BatchInv
<1>9. TestSignalFits'
  BY <1>e, OutputAssumption DEF FailedState, aaudio, history, Goto, Return, Fail,
    EnqueueFrame, TestSignalFits, BatchInv
<1>10. OutputInv'
  BY <1>e DEF FailedState, aaudio, history, Goto, Return, Fail, EnqueueFrame,
    TypeControl, CallInv, StreamInv, LifecycleInv, StepInv, OutputInv
<1> QED
  BY <1>1, <1>2, <1>3, <1>4, <1>5, <1>6, <1>7, <1>8, <1>9, <1>10

LEMMA FinishBatchKeeps == IInv /\ FinishBatch => IInv'
<1> SUFFICES ASSUME IInv, FinishBatch PROVE IInv'
  OBVIOUS
<1> USE DEF IInv, TypeOK
<1>1. TypeAAudio' /\ StreamInv'
  BY DEF fifo, aaudio, history, Return, FinishBatch, TypeAAudio, StreamInv
<1>2. TypeControl'
  BY OutputAssumption DEF PlaybackStates, fifo, aaudio, history, Calls, Steps,
    Errors, StreamStates, Return, FinishBatch, TypeControl
<1>3. TypeQueue'
  BY OutputAssumption DEF fifo, aaudio, history, Frame, Return, FinishBatch,
    TypeQueue, BatchInv
<1>4. TypeHistory'
  BY OutputAssumption DEF fifo, aaudio, history, Part, Return, FinishBatch,
    TypeQueue, TypeHistory, BatchInv
<1>5. CallInv'
  BY DEF fifo, aaudio, history, Return, FinishBatch, CallInv
<1>6. LifecycleInv'
  BY DEF fifo, aaudio, history, StoppedStates, Return, FinishBatch, TypeControl,
    TypeAAudio, Playing, StreamInv, StopsUnderWay, Going, LifecycleInv, StepInv
<1>7. StepInv'
  BY DEF fifo, aaudio, history, StoppedStates, Return, FinishBatch, TypeControl,
    CallInv, StreamInv, LifecycleInv, StepInv
<1>8. BatchInv'
  BY OutputAssumption DEF fifo, aaudio, history, Return, FinishBatch, TypeControl,
    TypeQueue, TypeHistory, CallInv, QueuedFrames, BatchInv
<1>9. TestSignalFits'
  BY OutputAssumption DEF fifo, aaudio, history, Return, FinishBatch, TestSignalFits,
    BatchInv
<1>10. OutputInv'
  BY DEF fifo, aaudio, history, Return, FinishBatch, TypeControl, CallInv, StreamInv,
    LifecycleInv, StepInv, OutputInv
<1> QED
  BY <1>1, <1>2, <1>3, <1>4, <1>5, <1>6, <1>7, <1>8, <1>9, <1>10

LEMMA DiscardForClearKeeps == IInv /\ DiscardForClear => IInv'
<1> SUFFICES ASSUME IInv, DiscardForClear PROVE IInv'
  OBVIOUS
<1> USE DEF IInv, TypeOK
<1>1. TypeAAudio' /\ TypeHistory' /\ StreamInv' /\ TestSignalFits'
  BY DEF aaudio, history, Return, DiscardForClear, TypeAAudio, TypeHistory,
    TestSignalFits, StreamInv
<1>2. TypeControl'
  BY OutputAssumption DEF PlaybackStates, aaudio, history, Calls, Steps, Errors,
    StreamStates, Return, EmptyTheQueue, DiscardForClear, TypeControl
<1>3. TypeQueue'
  BY OutputAssumption DEF aaudio, history, Frame, Return, EmptyTheQueue,
    DiscardForClear, TypeQueue, BatchInv
<1>4. CallInv'
  BY DEF aaudio, history, Return, EmptyTheQueue, DiscardForClear, CallInv
<1>5. LifecycleInv'
  BY DEF aaudio, history, StoppedStates, Return, EmptyTheQueue, DiscardForClear,
    TypeControl, TypeAAudio, Playing, StreamInv, StopsUnderWay, Going, LifecycleInv,
    StepInv
<1>6. StepInv'
  BY DEF aaudio, history, StoppedStates, Return, EmptyTheQueue, DiscardForClear,
    TypeControl, CallInv, StreamInv, LifecycleInv, StepInv
<1>7. BatchInv'
  BY OutputAssumption DEF aaudio, history, Return, EmptyTheQueue, DiscardForClear,
    TypeControl, TypeQueue, TypeHistory, CallInv, QueuedFrames, BatchInv
<1>8. OutputInv'
  BY DEF aaudio, history, Return, EmptyTheQueue, DiscardForClear, TypeControl,
    CallInv, StreamInv, LifecycleInv, StepInv, OutputInv
<1> QED
  BY <1>1, <1>2, <1>3, <1>4, <1>5, <1>6, <1>7, <1>8

LEMMA BeginCloseKeeps == IInv /\ BeginClose => IInv'
<1> SUFFICES ASSUME IInv, BeginClose PROVE IInv'
  OBVIOUS
<1> USE DEF IInv, TypeOK
<1>1. TypeQueue' /\ TypeAAudio' /\ TypeHistory' /\ StreamInv' /\ TestSignalFits'
  BY DEF fifo, aaudio, history, Goto, BeginClose, TypeQueue, TypeAAudio, TypeHistory,
    TestSignalFits, StreamInv
<1>2. TypeControl'
  BY OutputAssumption DEF PlaybackStates, fifo, aaudio, history, Calls, Steps,
    Errors, StreamStates, Goto, BeginClose, TypeControl
<1>3. CallInv'
  BY DEF fifo, aaudio, history, Goto, BeginClose, CallInv
<1>4. LifecycleInv'
  BY DEF fifo, aaudio, history, StoppedStates, Goto, BeginClose, TypeControl,
    TypeAAudio, Playing, StreamInv, StopsUnderWay, Going, LifecycleInv, StepInv
<1>5. StepInv'
  BY DEF fifo, aaudio, history, StoppedStates, Goto, BeginClose, TypeControl,
    CallInv, StreamInv, LifecycleInv, StepInv
<1>6. BatchInv'
  BY OutputAssumption DEF fifo, aaudio, history, Goto, BeginClose, TypeControl,
    TypeQueue, TypeHistory, CallInv, QueuedFrames, BatchInv
<1>7. OutputInv'
  BY DEF fifo, aaudio, history, Goto, BeginClose, TypeControl, CallInv, StreamInv,
    LifecycleInv, StepInv, OutputInv
<1> QED
  BY <1>1, <1>2, <1>3, <1>4, <1>5, <1>6, <1>7

LEMMA CloseStreamKeeps == IInv /\ CloseStream => IInv'
<1> SUFFICES ASSUME IInv, CloseStream PROVE IInv'
  OBVIOUS
<1> USE DEF IInv, TypeOK
<1>1. TypeQueue' /\ TypeHistory' /\ TestSignalFits'
  BY DEF fifo, history, Goto, CloseStream, TypeQueue, TypeHistory, TestSignalFits
<1>2. TypeControl'
  BY OutputAssumption DEF PlaybackStates, fifo, history, Calls, Steps, Errors,
    StreamStates, Goto, CallbacksAreOver, CloseStream, TypeControl
<1>3. TypeAAudio'
  BY DEF fifo, history, ErrorCodes, StreamStates, Goto, CallbacksAreOver,
    CloseStream, TypeAAudio
<1>4. CallInv'
  BY DEF fifo, history, Goto, CallbacksAreOver, CloseStream, CallInv
<1>5. StreamInv'
  BY DEF fifo, history, Goto, CallbacksAreOver, CloseStream, TypeAAudio, StreamInv,
    LifecycleInv, StepInv
<1>6. LifecycleInv'
  BY DEF fifo, history, StoppedStates, Goto, CallbacksAreOver, CloseStream,
    TypeControl, TypeAAudio, Playing, StreamInv, StopsUnderWay, Going, LifecycleInv,
    StepInv
<1>7. StepInv'
  BY DEF fifo, history, StoppedStates, Goto, CallbacksAreOver, CloseStream,
    TypeControl, CallInv, StreamInv, LifecycleInv, StepInv
<1>8. BatchInv'
  BY OutputAssumption DEF fifo, history, Goto, CallbacksAreOver, CloseStream,
    TypeControl, TypeQueue, TypeHistory, CallInv, QueuedFrames, BatchInv
<1>9. OutputInv'
  BY DEF fifo, history, Goto, CallbacksAreOver, CloseStream, TypeControl, CallInv,
    StreamInv, LifecycleInv, StepInv, OutputInv
<1> QED
  BY <1>1, <1>2, <1>3, <1>4, <1>5, <1>6, <1>7, <1>8, <1>9

LEMMA ResetOutputKeeps == IInv /\ ResetOutput => IInv'
<1> SUFFICES ASSUME IInv, ResetOutput PROVE IInv'
  OBVIOUS
<1> USE DEF IInv, TypeOK
<1>1. TypeControl'
  BY OutputAssumption DEF PlaybackStates, aaudio, Calls, Steps, Errors, StreamStates,
    Goto, Return, EmptyTheQueue, ResetOutput, TypeControl
<1>2. TypeQueue'
  BY OutputAssumption DEF aaudio, Frame, Goto, Return, EmptyTheQueue, ResetOutput,
    TypeQueue, BatchInv
<1>3. TypeAAudio'
  BY DEF aaudio, ErrorCodes, StreamStates, Goto, Return, EmptyTheQueue, ResetOutput,
    TypeAAudio
<1>4. TypeHistory'
  BY OutputAssumption DEF aaudio, Part, Goto, Return, EmptyTheQueue, ResetOutput,
    TypeQueue, TypeHistory, BatchInv
<1>5. CallInv'
  BY DEF aaudio, Goto, Return, EmptyTheQueue, ResetOutput, CallInv
<1>6. StreamInv'
  BY DEF aaudio, Goto, Return, EmptyTheQueue, ResetOutput, TypeAAudio, StreamInv,
    LifecycleInv, StepInv
<1>7. LifecycleInv'
  BY DEF aaudio, StoppedStates, Goto, Return, EmptyTheQueue, ResetOutput,
    TypeControl, TypeAAudio, Playing, StreamInv, StopsUnderWay, Going, LifecycleInv,
    StepInv
<1>8. StepInv'
  BY DEF aaudio, StoppedStates, Goto, Return, EmptyTheQueue, ResetOutput,
    TypeControl, CallInv, StreamInv, LifecycleInv, StepInv
<1>9. BatchInv'
  BY OutputAssumption DEF aaudio, Goto, Return, EmptyTheQueue, ResetOutput,
    TypeControl, TypeQueue, TypeHistory, CallInv, QueuedFrames, BatchInv
<1>10. TestSignalFits'
  BY OutputAssumption DEF aaudio, Goto, Return, EmptyTheQueue, ResetOutput,
    TestSignalFits, BatchInv
<1>11. OutputInv'
  BY DEF aaudio, Goto, Return, EmptyTheQueue, ResetOutput, TypeControl, CallInv,
    StreamInv, LifecycleInv, StepInv, OutputInv
<1> QED
  BY <1>1, <1>2, <1>3, <1>4, <1>5, <1>6, <1>7, <1>8, <1>9, <1>10, <1>11

LEMMA StreamMovesKeeps == IInv /\ StreamMoves => IInv'
<1> SUFFICES ASSUME IInv, StreamMoves PROVE IInv'
  OBVIOUS
<1> USE DEF IInv, TypeOK
<1>1. TypeControl' /\ TypeQueue' /\ TypeHistory' /\ CallInv' /\ BatchInv' /\ TestSignalFits'
  BY DEF control, fifo, history, StreamMoves, TypeControl, TypeQueue, TypeHistory,
    TestSignalFits, CallInv, QueuedFrames, BatchInv
<1>2. TypeAAudio'
  BY DEF control, fifo, history, ErrorCodes, StreamStates, StreamMoves, TypeAAudio
<1>3. StreamInv'
  BY DEF control, fifo, history, StreamMoves, TypeAAudio, StreamInv, LifecycleInv,
    StepInv
<1>4. LifecycleInv'
  BY DEF control, fifo, history, StoppedStates, StreamMoves, TypeControl, TypeAAudio,
    Playing, StreamInv, StopsUnderWay, Going, LifecycleInv, StepInv
<1>5. StepInv'
  BY DEF control, fifo, history, StoppedStates, StreamMoves, TypeControl, CallInv,
    StreamInv, LifecycleInv, StepInv
<1>6. OutputInv'
  BY DEF control, fifo, history, StreamMoves, TypeControl, CallInv, StreamInv,
    LifecycleInv, StepInv, OutputInv
<1> QED
  BY <1>1, <1>2, <1>3, <1>4, <1>5, <1>6

LEMMA StreamFailsKeeps == IInv /\ StreamFails => IInv'
<1> SUFFICES ASSUME IInv, StreamFails PROVE IInv'
  OBVIOUS
<1> USE DEF IInv, TypeOK
<1>1. TypeControl' /\ TypeQueue' /\ CallInv' /\ BatchInv' /\ TestSignalFits'
  BY DEF control, fifo, StreamFails, TypeControl, TypeQueue, TestSignalFits, CallInv,
    QueuedFrames, BatchInv
<1>2. TypeAAudio'
  BY DEF control, fifo, ErrorCodes, StreamStates, Fault, Active, StreamFails,
    TypeAAudio
<1>3. TypeHistory'
  BY OutputAssumption DEF control, fifo, Part, Fault, Active, StreamFails, TypeQueue,
    TypeHistory, BatchInv
<1>4. StreamInv'
  BY DEF control, fifo, Fault, Active, StreamFails, TypeAAudio, StreamInv,
    LifecycleInv, StepInv
<1>5. LifecycleInv'
  BY DEF control, fifo, StoppedStates, Fault, Active, StreamFails, TypeControl,
    TypeAAudio, Playing, StreamInv, StopsUnderWay, Going, LifecycleInv, StepInv
<1>6. StepInv'
  BY DEF control, fifo, StoppedStates, Fault, Active, StreamFails, TypeControl,
    CallInv, StreamInv, LifecycleInv, StepInv
<1>7. OutputInv'
  BY DEF control, fifo, Fault, Active, StreamFails, TypeControl, CallInv, StreamInv,
    LifecycleInv, StepInv, OutputInv
<1> QED
  BY <1>1, <1>2, <1>3, <1>4, <1>5, <1>6, <1>7

LEMMA ErrorCallbackKeeps == IInv /\ ErrorCallback => IInv'
<1> SUFFICES ASSUME IInv, ErrorCallback PROVE IInv'
  OBVIOUS
<1> USE DEF IInv, TypeOK
<1>1. TypeControl' /\ TypeQueue' /\ TypeHistory' /\ CallInv' /\ BatchInv' /\ TestSignalFits' /\ OutputInv'
  BY DEF control, fifo, history, ErrorCallback, TypeControl, TypeQueue, TypeHistory,
    TestSignalFits, CallInv, QueuedFrames, BatchInv, OutputInv
<1>2. TypeAAudio'
  BY DEF control, fifo, history, ErrorCodes, StreamStates, ReportedError,
    ErrorCallback, TypeAAudio
<1>3. StreamInv'
  BY DEF control, fifo, history, ReportedError, ErrorCallback, TypeAAudio, StreamInv,
    LifecycleInv, StepInv
<1>4. LifecycleInv'
  BY DEF control, fifo, history, StoppedStates, ReportedError, ErrorCallback,
    TypeControl, TypeAAudio, Playing, StreamInv, StopsUnderWay, Going, LifecycleInv,
    StepInv
<1>5. StepInv'
  BY DEF control, fifo, history, StoppedStates, ReportedError, ErrorCallback,
    TypeControl, CallInv, StreamInv, LifecycleInv, StepInv
<1> QED
  BY <1>1, <1>2, <1>3, <1>4, <1>5

LEMMA DataCallbackKeeps == IInv /\ DataCallback => IInv'
<1> SUFFICES ASSUME IInv, DataCallback PROVE IInv'
  OBVIOUS
<1> USE DEF IInv, TypeOK
<1>1. TypeControl' /\ TypeQueue' /\ TypeHistory' /\ CallInv' /\ LifecycleInv' /\ StepInv' /\ BatchInv' /\ TestSignalFits' /\ OutputInv'
  BY DEF control, fifo, history, DataCallback, TypeControl, TypeQueue, TypeHistory,
    Playing, TestSignalFits, CallInv, Going, LifecycleInv, StepInv, QueuedFrames,
    BatchInv, OutputInv
<1>2. TypeAAudio'
  BY DEF control, fifo, history, ErrorCodes, StreamStates, Active, CallbackDue,
    DataCallback, TypeAAudio
<1>3. StreamInv'
  BY DEF control, fifo, history, Active, CallbackDue, DataCallback, TypeAAudio,
    StreamInv, LifecycleInv, StepInv
<1> QED
  BY <1>1, <1>2, <1>3

LEMMA DataCallbackRefusedKeeps == IInv /\ DataCallbackRefused => IInv'
<1> SUFFICES ASSUME IInv, DataCallbackRefused PROVE IInv'
  OBVIOUS
<1> USE DEF IInv, TypeOK
<1>1. TypeControl' /\ TypeQueue' /\ CallInv' /\ BatchInv' /\ TestSignalFits'
  BY DEF control, fifo, DataCallbackRefused, TypeControl, TypeQueue, TestSignalFits,
    CallInv, QueuedFrames, BatchInv
<1>2. TypeAAudio'
  BY DEF control, fifo, ErrorCodes, StreamStates, Fault, Active, CallbackDue,
    DataCallbackRefused, TypeAAudio
<1>3. TypeHistory'
  BY OutputAssumption DEF control, fifo, Part, Fault, Active, CallbackDue,
    DataCallbackRefused, TypeQueue, TypeHistory, BatchInv
<1>4. StreamInv'
  BY DEF control, fifo, Fault, Active, CallbackDue, DataCallbackRefused, TypeAAudio,
    StreamInv, LifecycleInv, StepInv
<1>5. LifecycleInv'
  BY DEF control, fifo, StoppedStates, Fault, Active, CallbackDue,
    DataCallbackRefused, TypeControl, TypeAAudio, Playing, StreamInv, StopsUnderWay,
    Going, LifecycleInv, StepInv
<1>6. StepInv'
  BY DEF control, fifo, StoppedStates, Fault, Active, CallbackDue,
    DataCallbackRefused, TypeControl, CallInv, StreamInv, LifecycleInv, StepInv
<1>7. OutputInv'
  BY DEF control, fifo, Fault, Active, CallbackDue, DataCallbackRefused, TypeControl,
    CallInv, StreamInv, LifecycleInv, StepInv, OutputInv
<1> QED
  BY <1>1, <1>2, <1>3, <1>4, <1>5, <1>6, <1>7

LEMMA RenderPartKeeps == IInv /\ RenderPart => IInv'
<1> SUFFICES ASSUME IInv, RenderPart PROVE IInv'
  OBVIOUS
<1> USE DEF IInv, TypeOK
<1>r. /\ queue \in Seq(Frame) /\ queue # <<>> /\ Len(queue) \in Nat \ {0}
      /\ queue[1] \in Frame /\ Head(queue) = queue[1]
      /\ offset \in Nat /\ offset + 1 <= FrameParts /\ FrameParts \in Nat
      /\ heard' = [batch |-> queue[1].batch, index |-> queue[1].index, part |-> offset + 1]
  BY OutputAssumption DEF RenderPart, TypeQueue
<1>1. TypeControl' /\ CallInv' /\ LifecycleInv' /\ StepInv' /\ TestSignalFits'
  BY DEF control, RenderPart, TypeControl, Playing, TestSignalFits, CallInv, Going,
    LifecycleInv, StepInv
<1>2. TypeQueue'
  <2>1. CASE offset + 1 < FrameParts
    BY <1>r, <2>1, OutputAssumption DEF RenderPart, InFrame, TypeQueue
  <2>2. CASE ~(offset + 1 < FrameParts)
    <3>1. queue' = Tail(queue) /\ offset' = 0
      BY <2>2 DEF RenderPart, InFrame
    <3>2. Tail(queue) \in Seq(Frame) /\ Len(Tail(queue)) = Len(queue) - 1
      BY <1>r
    <3> QED
      BY <1>r, <3>1, <3>2, OutputAssumption DEF TypeQueue
  <2> QED
    BY <2>1, <2>2
<1>3. TypeAAudio'
  BY DEF control, ErrorCodes, StreamStates, InFrame, RenderPart, TypeAAudio
<1>4. TypeHistory'
  <2>1. heard' \in Part
    BY <1>r, OutputAssumption DEF Frame, Part
  <2> QED
    BY <2>1 DEF RenderPart, TypeHistory
<1>5. StreamInv'
  BY DEF control, InFrame, RenderPart, TypeAAudio, StreamInv, LifecycleInv, StepInv
<1>6. BatchInv'
  <2>1. pc # "enqueue" /\ UNCHANGED <<pc, call, index, batches, retired>>
    BY DEF RenderPart, control, StreamInv, StepInv, LifecycleInv, StoppedStates
  <2>2. QueuedFrames
    BY <1>r DEF BatchInv
  <2>3. /\ batches \in Nat /\ retired \in Nat /\ retired < batches
        /\ queue[1].batch = batches /\ queue[1].index \in Nat
    BY <1>r, <2>2, OutputAssumption DEF QueuedFrames, TypeHistory, Frame
  <2>4. heard'.batch = batches /\ heard'.index = queue[1].index /\ heard'.part = offset + 1
    BY <1>r, <2>3
  <2>5. queue' # <<>> => QueuedFrames'
    <3> SUFFICES ASSUME queue' # <<>> PROVE QueuedFrames'
      OBVIOUS
    <3>1. CASE offset + 1 < FrameParts
      <4>1. queue' = queue /\ offset' = offset + 1
        BY <3>1 DEF RenderPart, InFrame
      <4> QED
        BY <1>r, <2>1, <2>2, <2>3, <2>4, <4>1 DEF QueuedFrames
    <3>2. CASE ~(offset + 1 < FrameParts)
      <4>1. queue' = Tail(queue) /\ offset' = 0 /\ offset + 1 = FrameParts
        BY <1>r, <3>2 DEF RenderPart, InFrame
      <4>2. /\ Len(queue') = Len(queue) - 1
            /\ \A k \in 1 .. Len(queue') : queue'[k] = queue[k + 1] /\ k + 1 \in 1 .. Len(queue)
        BY <1>r, <4>1
      <4>3. Len(queue') \in Nat \ {0}
        <5>1. queue' \in Seq(Frame)
          BY <1>r, <4>1
        <5> QED
          BY <5>1
      <4>4. \A k \in 1 .. Len(queue') :
                queue'[k].batch = batches /\ queue'[k].index = queue[1].index + k
        <5> TAKE k \in 1 .. Len(queue')
        <5>1. queue'[k] = queue[k + 1] /\ k + 1 \in 1 .. Len(queue) /\ k \in Nat
          BY <4>2, <4>3
        <5>2. queue[k + 1].batch = batches /\ queue[k + 1].index = queue[1].index + ((k + 1) - 1)
          BY <2>2, <5>1 DEF QueuedFrames
        <5> QED
          BY <2>3, <5>1, <5>2
      <4>5. queue'[1].index = queue[1].index + 1
        BY <4>3, <4>4
      <4>6. \A k \in 1 .. Len(queue') :
                queue'[k].batch = batches' /\ queue'[k].index = queue'[1].index + (k - 1)
        <5> TAKE k \in 1 .. Len(queue')
        <5>1. queue'[k].batch = batches /\ queue'[k].index = queue[1].index + k /\ k \in Nat
          BY <4>3, <4>4
        <5>2. queue[1].index + k = (queue[1].index + 1) + (k - 1)
          BY <2>3, <5>1
        <5> QED
          BY <2>1, <4>5, <5>1, <5>2
      <4> QED
        BY <2>1, <2>3, <2>4, <4>1, <4>5, <4>6 DEF QueuedFrames
    <3> QED
      BY <3>1, <3>2
  <2> QED
    BY <2>1, <2>3, <2>4, <2>5 DEF BatchInv
<1>7. OutputInv'
  BY DEF control, InFrame, RenderPart, TypeControl, CallInv, StreamInv, LifecycleInv,
    StepInv, OutputInv
<1> QED
  BY <1>1, <1>2, <1>3, <1>4, <1>5, <1>6, <1>7

LEMMA DataCallbackReturnsKeeps == IInv /\ DataCallbackReturns => IInv'
<1> SUFFICES ASSUME IInv, DataCallbackReturns PROVE IInv'
  OBVIOUS
<1> USE DEF IInv, TypeOK
<1>1. TypeControl' /\ TypeQueue' /\ TypeHistory' /\ CallInv' /\ LifecycleInv' /\ StepInv' /\ BatchInv' /\ TestSignalFits' /\ OutputInv'
  BY DEF control, fifo, history, DataCallbackReturns, TypeControl, TypeQueue,
    TypeHistory, Playing, TestSignalFits, CallInv, Going, LifecycleInv, StepInv,
    QueuedFrames, BatchInv, OutputInv
<1>2. TypeAAudio'
  BY DEF control, fifo, history, ErrorCodes, StreamStates, DataCallbackReturns,
    TypeAAudio
<1>3. StreamInv'
  BY DEF control, fifo, history, DataCallbackReturns, TypeAAudio, StreamInv,
    LifecycleInv, StepInv
<1> QED
  BY <1>1, <1>2, <1>3

-----------------------------------------------------------------------------
(* The invariant, and what follows from it. *)

LEMMA InitHolds == Init => IInv
<1> SUFFICES ASSUME Init PROVE IInv
  OBVIOUS
<1>1. TypeOK
  <2>b. output \in BOOLEAN /\ result \in BOOLEAN /\ ended \in BOOLEAN
    BY Zenon DEF Init
  <2>1. TypeControl
    BY <2>b, OutputAssumption DEF Init, TypeControl, PlaybackStates, Errors, Calls, Steps,
      StreamStates
  <2>2. TypeQueue
    BY OutputAssumption DEF Init, TypeQueue
  <2>3. TypeAAudio /\ TypeHistory
    BY <2>b, OutputAssumption DEF Init, TypeAAudio, TypeHistory, StreamStates, ErrorCodes, Part,
      Nothing
  <2> QED
    BY <2>1, <2>2, <2>3 DEF TypeOK
<1>2. CallInv /\ StreamInv /\ LifecycleInv /\ StepInv
  BY DEF Init, CallInv, StreamInv, LifecycleInv, StepInv, Going
<1>3. BatchInv /\ TestSignalFits /\ OutputInv
  BY DEF Init, OutputInv, BatchInv, TestSignalFits, Nothing
<1> QED
  BY <1>1, <1>2, <1>3 DEF IInv

LEMMA StutterKeeps == IInv /\ UNCHANGED vars => IInv'
<1> SUFFICES ASSUME IInv, UNCHANGED vars PROVE IInv'
  OBVIOUS
<1> USE DEF vars, control, fifo, aaudio, history
<1>1. TypeOK'
  BY DEF IInv, TypeOK, TypeControl, TypeQueue, TypeAAudio, TypeHistory
<1>2. CallInv' /\ StreamInv' /\ LifecycleInv' /\ StepInv'
  BY DEF IInv, CallInv, StreamInv, LifecycleInv, StepInv, Going, Playing
<1>3. BatchInv' /\ TestSignalFits' /\ OutputInv'
  BY DEF IInv, OutputInv, BatchInv, QueuedFrames, TestSignalFits
<1> QED
  BY <1>1, <1>2, <1>3 DEF IInv

LEMMA NativeKeeps == \A name : IInv /\ Native(name) => IInv'
  BY NativeOpenPlaybackKeeps, NativeStartPlaybackKeeps, NativeStopPlaybackKeeps,
    NativeQueueLocalTestSignalKeeps, NativeClearPlaybackQueueKeeps,
    NativeClosePlaybackKeeps DEF Native

LEMMA ControlStepKeeps == IInv /\ ControlStep => IInv'
<1>1. IInv /\ Synchronizing => IInv'
  BY SynchronizeKeeps, DiscardForSyncKeeps, CheckStateKeeps DEF Synchronizing
<1>2. IInv /\ Starting => IInv'
  BY OpenStreamKeeps, RequestStartKeeps, FinishStartKeeps DEF Starting
<1>3. IInv /\ Stopping => IInv'
  BY RequestStopKeeps, GetStateKeeps, WaitConfirmedKeeps, WaitForChangeKeeps,
    WaitGivenUpKeeps, FinishStopKeeps DEF Stopping
<1>4. IInv /\ Queueing => IInv'
  BY DiscardForBatchKeeps, EnqueueFrameKeeps, FinishBatchKeeps, DiscardForClearKeeps
    DEF Queueing
<1>5. IInv /\ CloseSteps => IInv'
  BY BeginCloseKeeps, CloseStreamKeeps, ResetOutputKeeps DEF CloseSteps
<1> QED
  BY <1>1, <1>2, <1>3, <1>4, <1>5 DEF ControlStep

LEMMA AAudioStepKeeps == IInv /\ AAudioStep => IInv'
  BY StreamMovesKeeps, StreamFailsKeeps, ErrorCallbackKeeps, DataCallbackKeeps,
    RenderPartKeeps, DataCallbackReturnsKeeps, DataCallbackRefusedKeeps
    DEF AAudioStep, DataCallbackStep

\* The inductive invariant: call, stream, lifecycle, step and queue fit together
\* after every step of the control thread and of AAudio's threads.
THEOREM Invariance == Spec => []IInv
<1>1. Init => IInv
  BY InitHolds
<1>2. IInv /\ [Next]_vars => IInv'
  BY NativeKeeps, ControlStepKeeps, AAudioStepKeeps, StutterKeeps DEF Next
<1> QED
  BY <1>1, <1>2, PTL DEF Spec

\* Every variable of the output keeps its type.
THEOREM TypeCorrect == Spec => []TypeOK
<1>1. IInv => TypeOK
  BY DEF IInv
<1> QED
  BY <1>1, Invariance, PTL

\* No data callback is in render where the control thread discards or resets
\* the queue (discard_pending, reset).
THEOREM ConsumersExclude == Spec => []QueueContract
<1>1. IInv => QueueContract
  <2> SUFFICES ASSUME IInv, callback # "none" PROVE pc \notin ConsumerSteps \cup QuietSteps
    BY DEF QueueContract
  <2>1. stream \in {"starting", "started", "stopping"} /\ ~ended /\ asyncError = "none"
    BY DEF IInv, StreamInv
  <2>2. lifecycle \notin {"idle"} /\ (lifecycle = "ready" => pc \in {"finishStart", "reset"})
    BY <2>1 DEF IInv, LifecycleInv, StoppedStates
  <2> QED
    BY <2>1, <2>2 DEF IInv, StepInv, StoppedStates, ConsumerSteps, QuietSteps
<1> QED
  BY <1>1, Invariance, PTL

\* Between calls snapshot() is true of the device.
THEOREM StatusIsTrue == Spec => []StatusIsHonest
<1>1. IInv => StatusIsHonest
  <2> SUFFICES ASSUME IInv, pc = "idle"
               PROVE  /\ (pendingError = "none" /\ ReportedState = "running") => Playing
                      /\ ReportedState \in {"idle", "ready"} => ~Playing /\ callback = "none"
    BY DEF StatusIsHonest
  <2>1. (pendingError = "none" /\ ReportedState = "running") => Playing
    BY DEF IInv, LifecycleInv, Going, StopsUnderWay, ReportedState
  <2>2. ReportedState \in {"idle", "ready"} => ~Playing /\ callback = "none"
    BY DEF IInv, LifecycleInv, StreamInv, ReportedState, StoppedStates, Playing
  <2> QED
    BY <2>1, <2>2
<1> QED
  BY <1>1, Invariance, PTL

\* A disconnected stream is never shown as usable.
THEOREM DisconnectsAreReported == Spec => []DisconnectIsReported
<1>1. IInv => DisconnectIsReported
  BY DEF IInv, DisconnectIsReported, StreamInv, ReportedState
<1> QED
  BY <1>1, Invariance, PTL

\* queue_local_test_signal never finds the queue full.
THEOREM TestSignalsFit == Spec => []TestSignalFits
<1>1. IInv => TestSignalFits
  BY DEF IInv
<1> QED
  BY <1>1, Invariance, PTL

LEMMA OnlyRenderIsHeard == IInv /\ [Next]_vars => RenderPart \/ heard' = heard
<1> SUFFICES ASSUME [Next]_vars PROVE RenderPart \/ heard' = heard
  OBVIOUS
<1> USE DEF history, aaudio, control
<1>1. ASSUME NEW name, Native(name) PROVE heard' = heard
  BY <1>1 DEF Native, NativeOpenPlayback, NativeStartPlayback, NativeStopPlayback,
    NativeQueueLocalTestSignal, NativeClearPlaybackQueue, NativeClosePlayback, Begin, Answer
<1>2. CASE Synchronizing
  BY <1>2 DEF Synchronizing, Synchronize, DiscardForSync, CheckState
<1>3. CASE Starting
  BY <1>3 DEF Starting, OpenStream, RequestStart, FinishStart
<1>4. CASE Stopping
  BY <1>4 DEF Stopping, RequestStop, GetState, WaitConfirmed, WaitForChange, WaitGivenUp,
    FinishStop
<1>5. CASE Queueing
  BY <1>5 DEF Queueing, DiscardForBatch, EnqueueFrame, FinishBatch, DiscardForClear
<1>6. CASE CloseSteps
  BY <1>6 DEF CloseSteps, BeginClose, CloseStream, ResetOutput
<1>7. CASE AAudioStep
  BY <1>7 DEF AAudioStep, StreamMoves, StreamFails, ErrorCallback, DataCallbackStep,
    DataCallback, DataCallbackReturns, DataCallbackRefused
<1>8. CASE UNCHANGED vars
  BY <1>8 DEF vars
<1> QED
  BY <1>1, <1>2, <1>3, <1>4, <1>5, <1>6, <1>7, <1>8 DEF Next, ControlStep

Fresh ==
    heard' # heard =>
        /\ heard'.batch > retired
        /\ \/ heard'.index = 1 /\ heard'.part = 1 /\ heard'.batch > heard.batch
           \/ /\ heard'.batch = heard.batch
              /\ \/ heard'.index = heard.index /\ heard'.part = heard.part + 1
                 \/ /\ heard.part = FrameParts
                    /\ heard'.index = heard.index + 1 /\ heard'.part = 1

LEMMA RenderIsFresh == IInv /\ RenderPart => Fresh
<1> SUFFICES ASSUME IInv, RenderPart PROVE Fresh
  OBVIOUS
<1>1. /\ queue \in Seq(Frame) /\ queue # <<>> /\ offset \in Nat
      /\ retired \in Nat /\ batches \in Nat /\ heard \in Part
  BY OutputAssumption DEF IInv, TypeOK, TypeQueue, TypeHistory, RenderPart
<1>2. QueuedFrames
  BY <1>1 DEF IInv, BatchInv
<1>3. /\ 1 \in 1 .. Len(queue) /\ queue[1] \in Frame /\ Head(queue) = queue[1]
  BY <1>1
<1>4. queue[1].batch = batches /\ retired < batches
  BY <1>2, <1>3 DEF QueuedFrames
<1>5. /\ heard'.batch = batches /\ heard'.index = queue[1].index
      /\ heard'.part = offset + 1
  BY <1>3, <1>4 DEF RenderPart
<1>6. /\ heard.batch \in Nat /\ heard.index \in Nat /\ heard.part \in Nat
      /\ queue[1].index \in Nat /\ FrameParts \in Nat
  BY <1>1, <1>3, OutputAssumption DEF Part, Frame
<1>7. CASE offset = 0 /\ queue[1].index = 1 /\ heard.batch < batches
  BY <1>1, <1>4, <1>5, <1>6, <1>7 DEF Fresh
<1>8. CASE /\ offset = 0 /\ heard.batch = batches
           /\ heard.part = FrameParts /\ queue[1].index = heard.index + 1
  BY <1>1, <1>4, <1>5, <1>6, <1>8 DEF Fresh
<1>9. CASE /\ offset > 0 /\ heard.batch = batches
           /\ heard.part = offset /\ queue[1].index = heard.index
  BY <1>1, <1>4, <1>5, <1>6, <1>9 DEF Fresh
<1> QED
  BY <1>2, <1>7, <1>8, <1>9 DEF QueuedFrames

\* The device hears the newest test signal from its beginning and without gap;
\* nothing queued before a stop or a close is heard after it.
THEOREM AudioIsFresh == Spec => HearsFreshAudio
<1>1. IInv /\ [Next]_vars => Fresh
  BY OnlyRenderIsHeard, RenderIsFresh DEF Fresh
<1>2. IInv /\ [Next]_vars => [Fresh]_vars
  BY <1>1
<1>3. Spec => [][Fresh]_vars
  BY <1>2, Invariance, PTL DEF Spec
<1> QED
  BY <1>3 DEF HearsFreshAudio, Fresh

Sticks == Failed /\ pc # "reset" => Failed'

LEMMA FailureStaysOnce == IInv /\ [Next]_vars => Sticks
<1> SUFFICES ASSUME IInv, [Next]_vars, Failed, pc # "reset" PROVE Failed'
  BY DEF Sticks
<1> USE DEF Failed, ReportedState, aaudio, control, history
<1>t. asyncError \in ErrorCodes /\ pendingError \in ErrorCodes
  BY DEF IInv, TypeOK, TypeAAudio
<1>i. lifecycle # "idle"
  BY DEF IInv, LifecycleInv
<1>k. asyncError' = asyncError /\ lifecycle' = lifecycle => Failed'
  OBVIOUS
<1>f. asyncError' = asyncError /\ lifecycle' = "failed" => Failed'
  BY <1>t
<1>1. ASSUME NEW name, Native(name) PROVE Failed'
  BY <1>1, <1>k DEF Native, NativeOpenPlayback, NativeStartPlayback, NativeStopPlayback,
    NativeQueueLocalTestSignal, NativeClearPlaybackQueue, NativeClosePlayback, Begin, Answer
<1>2. CASE Synchronize
  BY <1>2, <1>t, <1>k, <1>i DEF Synchronize, Disconnect, FailedState
<1>3. CASE DiscardForSync
  BY <1>3, <1>k DEF DiscardForSync
<1>4. CASE CheckState
  BY <1>4, <1>k, <1>f DEF CheckState, Fail, FailedState
<1>5. CASE OpenStream
  BY <1>5, <1>i DEF OpenStream, IInv, StepInv
<1>6. CASE RequestStart
  BY <1>6, <1>k, <1>f DEF RequestStart, Fail, FailedState
<1>7. CASE FinishStart
  BY <1>7, <1>t DEF FinishStart, ErrorLeft, IInv, StepInv
<1>8. CASE RequestStop
  BY <1>8, <1>k, <1>f DEF RequestStop, Fail, FailedState
<1>9. CASE GetState \/ WaitConfirmed \/ WaitForChange
  BY <1>9, <1>k DEF GetState, WaitConfirmed, WaitForChange
<1>10. CASE WaitGivenUp
  BY <1>10, <1>k, <1>f DEF WaitGivenUp, StopGivenUp, Fail, FailedState
<1>11. CASE FinishStop
  BY <1>11, <1>t DEF FinishStop, IInv, StepInv
<1>12. CASE EnqueueFrame
  BY <1>12, <1>k, <1>f DEF EnqueueFrame, Fail, FailedState
<1>13. CASE DiscardForBatch \/ FinishBatch \/ DiscardForClear
  BY <1>13, <1>k DEF DiscardForBatch, FinishBatch, DiscardForClear
<1>14. CASE BeginClose \/ CloseStream
  BY <1>14, <1>k DEF BeginClose, CloseStream
<1>15. CASE ResetOutput
  BY <1>15 DEF ResetOutput
<1>16. CASE ErrorCallback
  BY <1>16, <1>t DEF ErrorCallback, ReportedError, ErrorCodes
<1>17. CASE DataCallbackRefused
  BY <1>17 DEF DataCallbackRefused
<1>18. CASE StreamMoves \/ StreamFails \/ DataCallbackStep
  BY <1>18, <1>k DEF StreamMoves, StreamFails, DataCallbackStep, DataCallback, RenderPart,
    DataCallbackReturns
<1>19. CASE UNCHANGED vars
  BY <1>19, <1>k DEF vars
<1> QED
  BY <1>1, <1>2, <1>3, <1>4, <1>5, <1>6, <1>7, <1>8, <1>9, <1>10, <1>11, <1>12, <1>13,
    <1>14, <1>15, <1>16, <1>17, <1>18, <1>19 DEF Next, ControlStep, Synchronizing, Starting,
    Stopping, Queueing, CloseSteps, AAudioStep

\* Only closing takes an output out of failure: what AAudio reported once is
\* not lost to a call that succeeds afterwards.
THEOREM FailuresStick == Spec => FailureSticks
<1>1. IInv /\ [Next]_vars => [Sticks]_vars
  BY FailureStaysOnce
<1>2. Spec => [][Sticks]_vars
  BY <1>1, Invariance, PTL DEF Spec
<1> QED
  BY <1>2 DEF FailureSticks, Sticks
=============================================================================
