--------------------------- MODULE AndroidOutput ---------------------------
(***************************************************************************)
(* The Android audio output (aaudio_output.cpp) and the JNI functions that *)
(* are its only callers (native_bridge.cpp), between three parties:        *)
(*                                                                         *)
(*  - the control thread, which runs one JNI call at a time under the      *)
(*    bridge's mutex;                                                      *)
(*  - AAudio's data callback, which plays the queue;                       *)
(*  - AAudio's error callback, which leaves an error for the control       *)
(*    thread in one atomic word.                                           *)
(*                                                                         *)
(* A call is cut where it meets the others: where it loads that word,      *)
(* where it asks AAudio for something, and around each use of the queue.   *)
(* The queue is the bounded FIFO that PcmPlaybackQueue implements for      *)
(* callers that keep its contract; QueueContract says that these do.       *)
(*                                                                         *)
(* AAudio is external, and what the code relies on is assumed of it: a     *)
(* stream that is stopped or disconnected has no data callback in          *)
(* progress; a stream that failed makes no more data callbacks; closing a  *)
(* stream waits for its callbacks.                                         *)
(***************************************************************************)
EXTENDS Naturals, Sequences, PlaybackLifecycle

CONSTANTS
    Capacity,                 \* pcm_playback_queue_capacity (32)
    FrameParts,               \* pieces of a frame a callback may end at (960)
    FramesPerBatch,           \* local_test_logical_frames (24)
    MaximumStopStateChanges,  \* maximum_stop_state_changes (4)
    MaxBatches,               \* bound: test signals queued in a behaviour
    MaxFaults                 \* bound: failures of AAudio in a behaviour

ASSUME OutputAssumption ==
    /\ Capacity \in Nat /\ FramesPerBatch \in Nat /\ FramesPerBatch <= Capacity
    /\ FrameParts \in Nat \ {0}
    /\ MaximumStopStateChanges \in Nat
    /\ MaxBatches \in Nat /\ MaxFaults \in Nat

VARIABLES
    output,        \* the bridge holds an AndroidAudioOutput
    lifecycle,     \* lifecycle_
    error,         \* error_
    asyncError,    \* async_error_, written by the callbacks
    queue,         \* queue_: frames not played or discarded, oldest first
    offset,        \* queue_: parts of the oldest frame that were played
    stream,        \* AAudio's state of stream_, "none" for no stream
    ended,         \* AAudio makes no more data callbacks
    pendingError,  \* an error AAudio has not called back with yet
    callback,      \* the data callback: where it is
    call,          \* the JNI call in progress
    pc,            \* where it is
    index,         \* frames of the test signal it has queued
    seen,          \* the stream state it last saw
    changes,       \* state changes it waited for
    result,        \* what the last JNI call returned
    batches,       \* history: test signals queued
    retired,       \* history: test signals queued before the last stop or close
    heard,         \* history: the part of a frame played last
    faults         \* failures so far

control == <<output, lifecycle, error, call, pc, index, seen, changes, result>>
fifo    == <<queue, offset>>
aaudio  == <<stream, ended, pendingError, callback>>
history == <<batches, retired, heard, faults>>
vars    == <<control, asyncError, fifo, aaudio, history>>

ErrorCodes == {"none", "disconnected", "other"}
Calls      == {"none", "open", "start", "stop", "queue", "clear", "close"}
Steps      == {"idle", "sync", "syncDiscard", "guard", "open", "requestStart",
               "finishStart", "requestStop", "getState", "wait", "stopDiscard",
               "queueDiscard", "enqueue", "clearDiscard", "close",
               "closeStream", "reset"}
Errors     == {"none", "invalid_state", "builder_creation_failed",
               "stream_open_failed", "unsupported_playback_contract",
               "stream_start_failed", "stream_stop_failed",
               "stream_stop_timeout", "local_test_queue_failed",
               "callback_failed", "stream_disconnected"}
StreamStates == {"none", "open", "starting", "started", "stopping", "stopped",
                 "disconnected"}

StoppingToo == {"open", "stopping", "stopped", "disconnected"}        \* slip
StoppedStates == {"open", "stopped", "disconnected"}

Frame   == [batch : 1 .. MaxBatches, index : 1 .. FramesPerBatch]
Part    == [batch : 0 .. MaxBatches, index : 0 .. FramesPerBatch,
            part : 0 .. FrameParts]
Nothing == [batch |-> 0, index |-> 0, part |-> 0]

Init ==
    /\ output = FALSE /\ lifecycle = "idle" /\ error = "none"
    /\ asyncError = "none"
    /\ queue = <<>> /\ offset = 0
    /\ stream = "none" /\ ended = FALSE /\ pendingError = "none"
    /\ callback = "none"
    /\ call = "none" /\ pc = "idle" /\ index = 0 /\ seen = "none"
    /\ changes = 0 /\ result = FALSE
    /\ batches = 0 /\ retired = 0 /\ heard = Nothing /\ faults = 0

LifecycleOnly == lifecycle                                            \* slip
\* snapshot(): an error left by a callback hides the lifecycle's own state.
ReportedState ==
    IF asyncError = "none" THEN lifecycle
    ELSE IF asyncError = "disconnected" THEN "disconnected" ELSE "failed"

Fault == faults < MaxFaults /\ faults' = faults + 1

Goto(step) == pc' = step /\ UNCHANGED <<call, result>>
Return(value) == pc' = "idle" /\ call' = "none" /\ result' = value
Fail(reason) == error' = reason /\ lifecycle' = FailedState /\ Return(FALSE)

EmptyTheQueue == queue' = <<>> /\ offset' = 0

-----------------------------------------------------------------------------
(* The JNI functions. *)

\* A call begins at a step of the output, or returns without one.
Begin(name, step) ==
    /\ call' = name
    /\ pc' = step
    /\ UNCHANGED <<lifecycle, error, index, seen, changes, result,
                   asyncError, fifo, aaudio, history>>
Answer(value) ==
    /\ result' = value
    /\ UNCHANGED <<lifecycle, error, call, pc, index, seen, changes,
                   asyncError, fifo, aaudio, history>>

NativeOpenPlayback ==
    /\ pc = "idle"
    /\ output' = TRUE
    /\ IF ReportedState \in {"ready", "running"} THEN Answer(TRUE)
       ELSE Begin("open", IF ReportedState = "idle" THEN "sync" ELSE "close")

NativeStartPlayback ==
    /\ pc = "idle"
    /\ UNCHANGED output
    /\ IF ~output THEN Answer(FALSE)
       ELSE IF ReportedState = "running" THEN Answer(TRUE)
       ELSE Begin("start", "sync")

NativeStopPlayback ==
    /\ pc = "idle"
    /\ UNCHANGED output
    /\ IF ~output THEN Answer(FALSE)
       ELSE IF ReportedState = "ready" THEN Answer(TRUE)
       ELSE Begin("stop", "sync")

NativeQueueLocalTestSignal ==
    /\ pc = "idle"
    /\ batches < MaxBatches
    /\ UNCHANGED output
    /\ IF ~output THEN Answer(FALSE) ELSE Begin("queue", "sync")

NativeClearPlaybackQueue ==
    /\ pc = "idle"
    /\ UNCHANGED output
    /\ IF output /\ lifecycle = "ready" THEN Begin("clear", "clearDiscard")
       ELSE Answer(TRUE)

NativeClosePlayback ==
    /\ pc = "idle"
    /\ UNCHANGED output
    /\ IF output THEN Begin("close", "close") ELSE Answer(TRUE)

-----------------------------------------------------------------------------
(* What the calls have in common. *)

\* synchronize_async_error(): takes over the error a callback left, and
\* discards the queue.
Synchronize ==
    /\ pc = "sync"
    /\ \/ /\ asyncError = "none"
          /\ Goto("guard")
          /\ UNCHANGED <<lifecycle, error>>
       \/ /\ asyncError = "disconnected"
          /\ Goto("syncDiscard")
          /\ error' = "stream_disconnected"
          /\ lifecycle' = Disconnect(lifecycle)
       \/ /\ asyncError = "other"
          /\ Goto("syncDiscard")
          /\ error' = "callback_failed"
          /\ lifecycle' = FailedState
    /\ UNCHANGED <<output, index, seen, changes, asyncError, fifo, aaudio, history>>

DiscardForSync ==
    /\ pc = "syncDiscard"
    /\ EmptyTheQueue
    /\ Goto("guard")
    /\ UNCHANGED <<output, lifecycle, error, index, seen, changes, asyncError,
                   aaudio, history>>

Admitted ==
    CASE call = "open"  -> lifecycle = "idle" /\ stream = "none"
      [] call = "stop"  -> lifecycle = "running" /\ stream # "none"
      [] OTHER          -> lifecycle = "ready" /\ stream # "none"

FirstStep ==
    CASE call = "open"  -> "open"
      [] call = "start" -> "requestStart"
      [] call = "stop"  -> "requestStop"
      [] OTHER          -> "queueDiscard"

\* A call in the wrong state fails the output, also a running one.
CheckState ==
    /\ pc = "guard"
    /\ \/ Admitted /\ Goto(FirstStep) /\ UNCHANGED <<lifecycle, error>>
       \/ ~Admitted /\ Fail("invalid_state")
    /\ UNCHANGED <<output, index, seen, changes, asyncError, fifo, aaudio, history>>

-----------------------------------------------------------------------------
(* open() and start(). *)

OpenStream ==
    /\ pc = "open"
    /\ EmptyTheQueue
    /\ asyncError' = "none"
    /\ \/ /\ stream' = "open"
          /\ ended' = FALSE
          /\ lifecycle' = Prepare(lifecycle)
          /\ error' = "none"
          /\ Return(TRUE)
          /\ UNCHANGED faults
       \/ /\ Fault
          /\ \E reason \in {"builder_creation_failed", "stream_open_failed",
                            "unsupported_playback_contract"} : Fail(reason)
          /\ UNCHANGED <<stream, ended>>
    /\ UNCHANGED <<output, index, seen, changes, pendingError, callback,
                   batches, retired, heard>>

\* AAudio refuses a request for a stream that is disconnected; for another
\* one that is a fault.
Refused == IF stream = "disconnected" THEN UNCHANGED faults ELSE Fault

RequestStart ==
    /\ pc = "requestStart"
    /\ \/ /\ stream # "disconnected"
          /\ stream' = "starting"
          /\ Goto("finishStart")
          /\ UNCHANGED <<lifecycle, error, faults>>
       \/ /\ Refused
          /\ Fail("stream_start_failed")
          /\ UNCHANGED stream
    /\ UNCHANGED <<output, index, seen, changes, asyncError, fifo, ended,
                   pendingError, callback, batches, retired, heard>>

\* clear_error() leaves the word the callbacks write alone.
ForgetCallbackError == "none"                                         \* slip
ErrorLeft == asyncError

FinishStart ==
    /\ pc = "finishStart"
    /\ lifecycle' = Start(lifecycle)
    /\ error' = "none"
    /\ asyncError' = ErrorLeft
    /\ Return(TRUE)
    /\ UNCHANGED <<output, index, seen, changes, fifo, aaudio, history>>

-----------------------------------------------------------------------------
(* stop(), and the same steps inside close(). *)

Closing == call # "stop"

RequestStop ==
    /\ pc = "requestStop"
    /\ \/ /\ stream' = IF stream = "disconnected" THEN stream ELSE "stopping"
          /\ Goto("getState")
          /\ UNCHANGED <<lifecycle, error, faults>>
       \/ /\ Refused
          /\ UNCHANGED stream
          /\ IF Closing THEN Goto("closeStream") /\ UNCHANGED <<lifecycle, error>>
             ELSE Fail("stream_stop_failed")
    /\ UNCHANGED <<output, index, seen, changes, asyncError, fifo, ended,
                   pendingError, callback, batches, retired, heard>>

GetState ==
    /\ pc = "getState"
    /\ seen' = stream
    /\ changes' = 0
    /\ Goto("wait")
    /\ UNCHANGED <<output, lifecycle, error, index, asyncError, fifo, aaudio, history>>

\* wait_for_stopped(): a bounded number of waits, each for another state than
\* the one last seen.
Waiting == pc = "wait" /\ changes < MaximumStopStateChanges

WaitConfirmed ==
    /\ Waiting
    /\ seen \in StoppedStates
    /\ Goto(IF Closing THEN "closeStream" ELSE "stopDiscard")
    /\ seen' = "none" /\ changes' = 0
    /\ UNCHANGED <<output, lifecycle, error, index, asyncError, fifo, aaudio, history>>

WaitForChange ==
    /\ Waiting
    /\ seen \notin StoppedStates
    /\ stream # seen
    /\ seen' = stream
    /\ changes' = changes + 1
    /\ UNCHANGED <<output, lifecycle, error, call, pc, index, result, asyncError,
                   fifo, aaudio, history>>

WaitAgain == Goto("getState") /\ UNCHANGED <<lifecycle, error>>           \* slip
StopGivenUp == Fail("stream_stop_timeout")

\* The wait timed out, or the states it may wait for are used up.
WaitGivenUp ==
    /\ pc = "wait"
    /\ ~Waiting \/ seen \notin StoppedStates
    /\ IF Closing THEN Goto("closeStream") /\ UNCHANGED <<lifecycle, error>>
       ELSE StopGivenUp
    /\ seen' = "none" /\ changes' = 0
    /\ UNCHANGED <<output, index, asyncError, fifo, aaudio, history>>

KeepTheQueue == UNCHANGED fifo                                        \* slip
DiscardAfterStop == EmptyTheQueue

FinishStop ==
    /\ pc = "stopDiscard"
    /\ DiscardAfterStop
    /\ lifecycle' = Stop(lifecycle)
    /\ error' = "none"
    /\ retired' = batches
    /\ Return(TRUE)
    /\ UNCHANGED <<output, index, seen, changes, asyncError, aaudio, batches, heard,
                   faults>>

-----------------------------------------------------------------------------
(* queue_local_test_signal() and clear_queue(). *)

DiscardForBatch ==
    /\ pc = "queueDiscard"
    /\ EmptyTheQueue
    /\ batches' = batches + 1
    /\ Goto("enqueue")
    /\ UNCHANGED <<output, lifecycle, error, index, seen, changes, asyncError, aaudio,
                   retired, heard, faults>>

\* A full queue fails the call; TestSignalFits says that it never does.
EnqueueFrame ==
    /\ pc = "enqueue"
    /\ index < FramesPerBatch
    /\ IF Len(queue) < Capacity
       THEN /\ queue' = Append(queue, [batch |-> batches, index |-> index + 1])
            /\ index' = index + 1
            /\ Goto("enqueue")
            /\ UNCHANGED <<lifecycle, error>>
       ELSE Fail("local_test_queue_failed") /\ index' = 0 /\ UNCHANGED queue
    /\ UNCHANGED <<output, seen, changes, asyncError, offset, aaudio, history>>

FinishBatch ==
    /\ pc = "enqueue"
    /\ index = FramesPerBatch
    /\ error' = "none"
    /\ index' = 0
    /\ Return(TRUE)
    /\ UNCHANGED <<output, lifecycle, seen, changes, asyncError, fifo, aaudio,
                   history>>

DiscardForClear ==
    /\ pc = "clearDiscard"
    /\ EmptyTheQueue
    /\ Return(TRUE)
    /\ UNCHANGED <<output, lifecycle, error, index, seen, changes, asyncError, aaudio,
                   history>>

-----------------------------------------------------------------------------
(* close(), of the bridge or before it opens again. *)

BeginClose ==
    /\ pc = "close"
    /\ Goto(IF stream # "none" /\ lifecycle = "running" THEN "requestStop"
                                                        ELSE "closeStream")
    /\ UNCHANGED <<output, lifecycle, error, index, seen, changes, asyncError, fifo,
                   aaudio, history>>

CallbacksAreOver == callback = "none"

\* AAudioStream_close, which waits for the callbacks.
CloseStream ==
    /\ pc = "closeStream"
    /\ CallbacksAreOver
    /\ stream' = "none"
    /\ pendingError' = "none"
    /\ Goto("reset")
    /\ UNCHANGED <<output, lifecycle, error, index, seen, changes, asyncError, fifo,
                   ended, callback, history>>

ResetOutput ==
    /\ pc = "reset"
    /\ EmptyTheQueue
    /\ lifecycle' = "idle"
    /\ asyncError' = "none"
    /\ error' = "none"
    /\ retired' = batches
    /\ IF call = "open" THEN Goto("sync") /\ UNCHANGED output
       ELSE Return(TRUE) /\ output' = FALSE
    /\ UNCHANGED <<index, seen, changes, aaudio, batches, heard, faults>>

-----------------------------------------------------------------------------
(* AAudio, and the two callbacks. *)

StreamMoves ==
    /\ \/ /\ stream = "starting"
          /\ stream' = "started"
       \/ /\ stream = "stopping"
          /\ callback = "none"
          /\ stream' = "stopped"
    /\ UNCHANGED <<control, asyncError, fifo, ended, pendingError, callback, history>>

Active == stream \in {"starting", "started", "stopping"} /\ ~ended

\* The stream fails: it is disconnected, or its loop of callbacks breaks off.
StreamFails ==
    /\ stream # "none" /\ ~ended /\ callback = "none"
    /\ Fault
    /\ ended' = TRUE
    /\ \/ /\ stream' = "disconnected"
          /\ pendingError' = "disconnected"
       \/ /\ Active
          /\ pendingError' = "other"
          /\ UNCHANGED stream
    /\ UNCHANGED <<control, asyncError, fifo, callback, batches, retired, heard>>

DisconnectsOnly ==                                                    \* slip
    IF pendingError = "disconnected" THEN pendingError ELSE asyncError
ReportedError == pendingError

\* error_callback
ErrorCallback ==
    /\ pendingError # "none"
    /\ asyncError' = ReportedError
    /\ pendingError' = "none"
    /\ UNCHANGED <<control, fifo, stream, ended, callback, history>>

\* AAudio starts no callback while it closes the stream.
CallbackDue == Active /\ callback = "none" /\ pc # "closeStream"

DataCallback ==
    /\ CallbackDue
    /\ callback' = "entered"
    /\ UNCHANGED <<control, asyncError, fifo, stream, ended, pendingError, history>>

\* A callback without a buffer or without frames: it stops the stream.
DataCallbackRefused ==
    /\ CallbackDue
    /\ Fault
    /\ asyncError' = "other"
    /\ stream' = "stopping"
    /\ ended' = TRUE
    /\ UNCHANGED <<control, fifo, pendingError, callback, batches, retired, heard>>

InFrameOrAtItsEnd(part) == part <= FrameParts                         \* slip
InFrame(part) == part < FrameParts

\* render(): the next part of the oldest frame.
RenderPart ==
    /\ callback # "none"
    /\ queue # <<>>
    /\ callback' = "rendered"
    /\ heard' = [batch |-> Head(queue).batch, index |-> Head(queue).index,
                 part |-> offset + 1]
    /\ IF InFrame(offset + 1) THEN offset' = offset + 1 /\ UNCHANGED queue
                             ELSE offset' = 0 /\ queue' = Tail(queue)
    /\ UNCHANGED <<control, asyncError, stream, ended, pendingError, batches, retired,
                   faults>>

\* The output is full, or the queue is empty and silence fills the rest.
DataCallbackReturns ==
    /\ callback = "rendered" \/ (callback = "entered" /\ queue = <<>>)
    /\ callback' = "none"
    /\ UNCHANGED <<control, asyncError, fifo, stream, ended, pendingError, history>>

-----------------------------------------------------------------------------

Native(name) ==
    \/ name = "open" /\ NativeOpenPlayback
    \/ name = "start" /\ NativeStartPlayback
    \/ name = "stop" /\ NativeStopPlayback
    \/ name = "queue" /\ NativeQueueLocalTestSignal
    \/ name = "clear" /\ NativeClearPlaybackQueue
    \/ name = "close" /\ NativeClosePlayback

Synchronizing == Synchronize \/ DiscardForSync \/ CheckState
Starting == OpenStream \/ RequestStart \/ FinishStart
Stopping == RequestStop \/ GetState \/ WaitConfirmed \/ WaitForChange
            \/ WaitGivenUp \/ FinishStop
Queueing == DiscardForBatch \/ EnqueueFrame \/ FinishBatch \/ DiscardForClear
CloseSteps == BeginClose \/ CloseStream \/ ResetOutput

ControlStep == Synchronizing \/ Starting \/ Stopping \/ Queueing \/ CloseSteps

DataCallbackStep == DataCallback \/ RenderPart \/ DataCallbackReturns

AAudioStep == StreamMoves \/ StreamFails \/ ErrorCallback
              \/ DataCallbackStep \/ DataCallbackRefused

Next == (\E name \in Calls : Native(name)) \/ ControlStep \/ AAudioStep

Spec == Init /\ [][Next]_vars

\* The control thread waits for nothing but AAudio: its waits for a state end
\* by a timeout, and closing ends with the callback under way.  AAudio calls
\* back while a stream that has not failed is started, a callback returns, and
\* a stream that failed calls back with the error.  That AAudio ever reports a
\* stream as stopped is not assumed.
AAudioFairness ==
    /\ WF_vars(DataCallback)
    /\ WF_vars(RenderPart \/ DataCallbackReturns)
    /\ WF_vars(ErrorCallback)
ControlFairness == WF_vars(ControlStep)

-----------------------------------------------------------------------------
(* Properties. *)

TypeControl ==
    /\ output \in BOOLEAN /\ lifecycle \in PlaybackStates /\ error \in Errors
    /\ call \in Calls /\ pc \in Steps
    /\ index \in 0 .. FramesPerBatch
    /\ seen \in StreamStates /\ changes \in 0 .. MaximumStopStateChanges
    /\ result \in BOOLEAN
TypeQueue ==
    /\ queue \in Seq(Frame) /\ Len(queue) <= Capacity
    /\ offset \in 0 .. FrameParts - 1
TypeAAudio ==
    /\ stream \in StreamStates /\ ended \in BOOLEAN
    /\ pendingError \in ErrorCodes /\ asyncError \in ErrorCodes
    /\ callback \in {"none", "entered", "rendered"}
TypeHistory ==
    /\ batches \in 0 .. MaxBatches /\ retired \in 0 .. MaxBatches
    /\ heard \in Part /\ faults \in 0 .. MaxFaults

\* Every variable keeps its type.
TypeOK == TypeControl /\ TypeQueue /\ TypeAAudio /\ TypeHistory

ConsumerSteps == {"syncDiscard", "stopDiscard", "queueDiscard", "clearDiscard"}
QuietSteps    == {"open", "reset"}

\* discard_pending acts for the queue's consumer, and reset needs the queue
\* quiet: neither happens while a data callback is in render, although the
\* callback takes no lock and the control thread never asks whether one is
\* under way.  Where synchronize_async_error discards (syncDiscard) this rests
\* on StreamFails: a stream that fails is assumed to have no callback then.
QueueContract == callback # "none" => pc \notin ConsumerSteps \cup QuietSteps

Playing == stream \in {"starting", "started"} /\ ~ended

\* Between calls the status is true of the device, once AAudio has reported
\* its errors: an output shown as running plays, and one shown as idle or
\* ready does not, so that a user who sees it stopped hears nothing.
StatusIsHonest ==
    pc = "idle" =>
        /\ (pendingError = "none" /\ ReportedState = "running") => Playing
        /\ ReportedState \in {"idle", "ready"} => ~Playing /\ callback = "none"

\* A disconnected stream is never shown as usable, whatever was called while
\* the error callback was under way: each call clears error_ when it succeeds,
\* and none may clear what the callback left.
DisconnectIsReported ==
    (pc = "idle" /\ stream = "disconnected" /\ pendingError = "none")
        => ReportedState \in {"disconnected", "failed"}

\* An output that was shown as failed or disconnected is shown as usable again
\* only after it was closed: no later success of a call hides the failure, of
\* which AAudio tells only once.
Failed == ReportedState \in {"failed", "disconnected"}
FailureSticks == [][Failed /\ pc # "reset" => Failed']_vars

\* What is played is a test signal queued after the last stop or close, from
\* its beginning and without a gap: no stop, failure or second tap leaves part
\* of an old one, or an offset into a frame that is gone.
HearsFreshAudio ==
    [][heard' # heard =>
        /\ heard'.batch > retired
        /\ \/ heard'.index = 1 /\ heard'.part = 1 /\ heard'.batch > heard.batch
           \/ /\ heard'.batch = heard.batch
              /\ \/ heard'.index = heard.index /\ heard'.part = heard.part + 1
                 \/ /\ heard.part = FrameParts
                    /\ heard'.index = heard.index + 1 /\ heard'.part = 1]_vars

\* Every JNI call returns, on the thread that draws the user interface, also
\* when AAudio never confirms a stop.
CallsReturn == (pc # "idle") ~> (pc = "idle")

\* Audio queued for an output that is shown as running is played, or the
\* output is no longer shown as running: no failure of AAudio leaves a silent
\* output that looks well.
UnheardIsTold ==
    (lifecycle = "running" /\ queue # <<>>)
        ~> (queue = <<>> \/ ReportedState # "running")

\* A test signal always fits: the queue is emptied before, and a callback that
\* runs meanwhile can only make room.
TestSignalFits == error # "local_test_queue_failed"

\* Stop waits for AAudio to leave the running state before queued and partly
\* played frames are discarded.
StopDiscardsWhenStopped ==
    (call = "stop" /\ pc \in {"syncDiscard", "stopDiscard"})
        => stream \notin {"starting", "started"}
=============================================================================
