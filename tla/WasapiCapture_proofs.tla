-------------------------- MODULE WasapiCapture_proofs --------------------------
(***************************************************************************)
(* The capture, for every set of devices and packets and every frame       *)
(* length: its types, the handover of device changes from the notification *)
(* thread, the accounting of restarts and samples, and that the first      *)
(* frame after a recovery is marked.  On that invariant rests a second,    *)
(* Stream, of what the frames and the partial frame hold: no gap between   *)
(* two frames is hidden, and every frame is whole.                         *)
(***************************************************************************)
EXTENDS WasapiCapture, PcmFrameAssembler_proofs

\* How the step of the capture thread, the lifecycle and the controller go
\* together.
ControllerState ==
    IF step = "restarting" THEN "restart_pending"
    ELSE IF step \in {"reconfiguring", "activating"} THEN "restarting"
    ELSE "stable"

Control ==
    /\ step \in {"configuring", "preparing"} => lifecycle = "idle"
    /\ step \in {"restarting", "reconfiguring", "activating", "draining"} =>
         lifecycle = "running"
    /\ lifecycle = "running" => recovery.state = ControllerState
    /\ lifecycle = "idle" /\ step # "preparing" => audio = NoAudio
    /\ \/ notification_registered
       \/ audio = NoAudio /\ step = "outside" /\ lifecycle \in {"idle", "failed"}

\* RestartsAddUp, with the cycle under way counted against its trigger.
RestartsHold(r) ==
    /\ r.restart_attempts = r.successful_restarts + r.failed_restarts
                              + (IF r.state = "restarting" THEN 1 ELSE 0)
    /\ r.successful_restarts
         + (IF r.state \in {"restart_pending", "restarting"} THEN 1 ELSE 0)
         <= r.requests["device_invalidated"] + r.requests["default_device_changed"]

\* SamplesAddUp, of a partial frame of so many samples and so many frames.
Accounts(c, partial, frames) ==
    LET lost == c.frames_drained - (FrameSamples * c.completed_pcm_frames + partial)
    IN  /\ c.completed_pcm_frames = frames
        /\ c.dropped_partial_pcm_frames <= lost
        /\ lost <= c.dropped_partial_pcm_frames * (FrameSamples - 1)

StreamTyped ==
    /\ recovery \in Recovery /\ SoundAssembler(assembler) /\ counters \in Counts
    /\ recovery_frame_pending \in BOOLEAN /\ delivered \in Seq(Frame)

AudioType == [endpoint : Endpoints \cup {NoEndpoint}, client : Nat,
              started : BOOLEAN, position : Nat]

ControlTyped ==
    /\ lifecycle \in {"idle", "ready", "running", "failed"}
    /\ audio \in AudioType
    /\ pending_recovery_flags \subseteq Triggers
    /\ notification_registered \in BOOLEAN
    /\ step \in Steps /\ resume \in {"outside", "draining"}
    /\ default_endpoint \in Endpoints
    /\ notices \in Nat /\ clients \in Nat
    /\ disturbances \in [faults : Nat, changes : Nat]

\* The stream: what the calls do with packets, frames and counters.
StreamInv ==
    /\ StreamTyped
    /\ RestartsHold(recovery)
    /\ Accounts(counters, Len(assembler.pending), Len(delivered))

\* The inductive invariant.
IInv ==
    /\ StreamInv /\ ControlTyped
    /\ Control /\ StreamIsLive
    /\ NoChangeIsMissed
    /\ RecoveryIsAnnounced

---------------------------------------------------------------------------
(* The recovery controller.                                                *)

\* A new controller has its counts right.
LEMMA NewRecoveryHolds == NewRecovery \in Recovery /\ RestartsHold(NewRecovery)
BY AttemptsAssumption DEF NewRecovery, Recovery, RecoveryStates, Triggers, RestartsHold

\* A request opens a cycle and is counted (recovery.cpp:23-46).
LEMMA RequestedHolds ==
    ASSUME NEW r \in Recovery, RestartsHold(r), r.state = "stable",
           NEW flags \in SUBSET Triggers, flags # {}
    PROVE  LET t == Requested(r, flags)
           IN  t \in Recovery /\ RestartsHold(t) /\ t.state = "restart_pending"
<1> DEFINE t == Requested(r, flags)
           requests == [x \in Triggers |-> r.requests[x] + IF x \in flags THEN 1 ELSE 0]
<1>1. r.requests \in [Triggers -> Nat]
  BY DEF Recovery
<1>2. requests \in [Triggers -> Nat]
  BY <1>1
<1>3. /\ r.requests["device_invalidated"] \in Nat
      /\ r.requests["default_device_changed"] \in Nat
      /\ r.requests["device_invalidated"] + r.requests["default_device_changed"] + 1
           <= requests["device_invalidated"] + requests["default_device_changed"]
  <2> DEFINE i == "device_invalidated"
             c == "default_device_changed"
             one(x) == IF x \in flags THEN 1 ELSE 0
  <2>1. i \in Triggers /\ c \in Triggers /\ (i \in flags \/ c \in flags)
    BY DEF Triggers
  <2>2. r.requests[i] \in Nat /\ r.requests[c] \in Nat
    BY <1>1, <2>1
  <2>3. requests[i] = r.requests[i] + one(i) /\ requests[c] = r.requests[c] + one(c)
    BY <2>1
  <2>4. one(i) \in {0, 1} /\ one(c) \in {0, 1} /\ (one(i) = 1 \/ one(c) = 1)
    BY <2>1
  <2> HIDE DEF i, c, one, requests
  <2>5. r.requests[i] + r.requests[c] + 1 <= requests[i] + requests[c]
    BY <2>2, <2>3, <2>4
  <2> QED BY <2>2, <2>5 DEF i, c
<1>4. t = [r EXCEPT !.requests = requests, !.attempts_in_cycle = 0,
                    !.state = "restart_pending"]
  BY DEF Requested
<1> HIDE DEF t, requests
<1>5. t \in Recovery
  <2>1. 0 \in 0 .. MaximumAttempts /\ "restart_pending" \in RecoveryStates
    BY AttemptsAssumption DEF RecoveryStates
  <2> QED BY <1>2, <1>4, <2>1 DEF Recovery
<1>6. /\ t.state = "restart_pending" /\ t.requests = requests
      /\ t.restart_attempts = r.restart_attempts
      /\ t.successful_restarts = r.successful_restarts
      /\ t.failed_restarts = r.failed_restarts
  BY <1>4 DEF Recovery
<1>7. /\ r.restart_attempts \in Nat /\ r.successful_restarts \in Nat
      /\ r.failed_restarts \in Nat
  BY DEF Recovery
<1>8. RestartsHold(t)
  BY <1>2, <1>3, <1>6, <1>7 DEF RestartsHold, Triggers
<1> QED BY <1>5, <1>6, <1>8 DEF t

\* The numbers in a controller's record.
LEMMA RecoveryNumbers ==
    ASSUME NEW r \in Recovery
    PROVE  /\ r.restart_attempts \in Nat /\ r.successful_restarts \in Nat
           /\ r.failed_restarts \in Nat /\ r.attempts_in_cycle \in 0 .. MaximumAttempts
           /\ r.requests["device_invalidated"] \in Nat
           /\ r.requests["default_device_changed"] \in Nat
BY DEF Recovery, Triggers

\* An attempt is counted, or the cycle is given up (recovery.cpp:48-66).
LEMMA BegunAttemptHolds ==
    ASSUME NEW r \in Recovery, RestartsHold(r), r.state = "restart_pending"
    PROVE  LET t == BegunAttempt(r)
           IN  t \in Recovery /\ RestartsHold(t) /\ t.state \in {"restarting", "failed"}
<1> DEFINE t == BegunAttempt(r)
<1>1. CASE r.attempts_in_cycle >= MaximumAttempts
  <2>1. t = [r EXCEPT !.state = "failed"]
    BY <1>1 DEF BegunAttempt
  <2>2. t \in Recovery /\ t.state = "failed"
    BY <2>1 DEF Recovery, RecoveryStates
  <2>3. /\ t.requests = r.requests /\ t.restart_attempts = r.restart_attempts
        /\ t.successful_restarts = r.successful_restarts
        /\ t.failed_restarts = r.failed_restarts
    BY <2>1 DEF Recovery
  <2> HIDE DEF t
  <2>4. RestartsHold(t)
    BY <2>2, <2>3, RecoveryNumbers DEF RestartsHold
  <2> QED BY <2>2, <2>4 DEF t
<1>2. CASE ~ r.attempts_in_cycle >= MaximumAttempts
  <2>1. t = [r EXCEPT !.attempts_in_cycle = @ + 1, !.restart_attempts = @ + 1,
                      !.state = "restarting"]
    BY <1>2 DEF BegunAttempt
  <2>2. /\ r.attempts_in_cycle + 1 \in 0 .. MaximumAttempts
        /\ r.restart_attempts + 1 \in Nat /\ "restarting" \in RecoveryStates
    BY <1>2, RecoveryNumbers, AttemptsAssumption DEF RecoveryStates
  <2>3. t \in Recovery /\ t.state = "restarting"
    BY <2>1, <2>2 DEF Recovery
  <2>4. /\ t.requests = r.requests /\ t.restart_attempts = r.restart_attempts + 1
        /\ t.successful_restarts = r.successful_restarts
        /\ t.failed_restarts = r.failed_restarts
    BY <2>1 DEF Recovery
  <2> HIDE DEF t
  <2>5. RestartsHold(t)
    BY <2>3, <2>4, RecoveryNumbers DEF RestartsHold
  <2> QED BY <2>3, <2>5 DEF t
<1> QED BY <1>1, <1>2

\* A success ends the cycle and owes a discontinuity (recovery.cpp:68-82).
LEMMA CompletedSuccessHolds ==
    ASSUME NEW r \in Recovery, RestartsHold(r), r.state = "restarting"
    PROVE  LET t == CompletedSuccess(r)
           IN  /\ t \in Recovery /\ RestartsHold(t)
               /\ t.state = "stable" /\ t.discontinuity_pending
<1> DEFINE t == CompletedSuccess(r)
<1>1. /\ r.successful_restarts + 1 \in Nat /\ 0 \in 0 .. MaximumAttempts
      /\ "stable" \in RecoveryStates
  BY RecoveryNumbers, AttemptsAssumption DEF RecoveryStates
<1>2. t \in Recovery /\ t.state = "stable" /\ t.discontinuity_pending
  BY <1>1 DEF CompletedSuccess, Recovery
<1>3. /\ t.requests = r.requests /\ t.restart_attempts = r.restart_attempts
      /\ t.successful_restarts = r.successful_restarts + 1
      /\ t.failed_restarts = r.failed_restarts
  BY DEF CompletedSuccess, Recovery
<1> HIDE DEF t
<1>4. RestartsHold(t)
  BY <1>2, <1>3, RecoveryNumbers DEF RestartsHold
<1> QED BY <1>2, <1>4 DEF t

\* A failure is counted and another attempt is granted, or none
\* (recovery.cpp:84-102).
LEMMA CompletedFailureHolds ==
    ASSUME NEW r \in Recovery, RestartsHold(r), r.state = "restarting",
           NEW retryable \in BOOLEAN
    PROVE  LET t == CompletedFailure(r, retryable)
           IN  t \in Recovery /\ RestartsHold(t) /\ t.state \in {"restart_pending", "failed"}
<1> DEFINE t == CompletedFailure(r, retryable)
           state == IF retryable /\ r.attempts_in_cycle < MaximumAttempts
                      THEN "restart_pending" ELSE "failed"
<1>1. t = [r EXCEPT !.failed_restarts = @ + 1, !.state = state]
  BY DEF CompletedFailure
<1>2. /\ r.failed_restarts + 1 \in Nat /\ state \in RecoveryStates
      /\ state \in {"restart_pending", "failed"}
  BY RecoveryNumbers DEF RecoveryStates
<1> HIDE DEF t, state
<1>3. t \in Recovery /\ t.state = state
  BY <1>1, <1>2 DEF Recovery
<1>4. /\ t.requests = r.requests /\ t.restart_attempts = r.restart_attempts
      /\ t.successful_restarts = r.successful_restarts
      /\ t.failed_restarts = r.failed_restarts + 1
  BY <1>1 DEF Recovery
<1>5. RestartsHold(t)
  BY <1>2, <1>3, <1>4, RecoveryNumbers DEF RestartsHold
<1> QED BY <1>2, <1>3, <1>5 DEF t

\* Consuming the discontinuity changes no count (recovery.cpp:104-108).
LEMMA ConsumedDiscontinuityHolds ==
    ASSUME NEW r \in Recovery, RestartsHold(r)
    PROVE  LET t == ConsumedDiscontinuity(r)
           IN  t \in Recovery /\ RestartsHold(t) /\ t.state = r.state
BY DEF ConsumedDiscontinuity, Recovery, RestartsHold

---------------------------------------------------------------------------
(* Counters.                                                               *)

\* A partial frame is dropped, and counted.
LEMMA DropPartialAccounts ==
    ASSUME NEW c \in Counts, NEW a, SoundAssembler(a), NEW n \in Nat,
           Accounts(c, Len(a.pending), n)
    PROVE  DropPartial(c, a) \in Counts /\ Accounts(DropPartial(c, a), 0, n)
<1> DEFINE p == Len(a.pending)
           d == c.dropped_partial_pcm_frames
           t == DropPartial(c, a)
           one == IF HasPartial(a) THEN 1 ELSE 0
<1>1. /\ p \in Nat /\ p < FrameSamples /\ one \in {0, 1}
      /\ one = 0 => p = 0
      /\ one = 1 => p > 0
  <2>1. a.pending \in Seq(Sample)
    BY DEF SoundAssembler, Assembler
  <2> QED BY <2>1, EmptySeq DEF SoundAssembler, HasPartial
<1>2. /\ c.frames_drained \in Nat /\ c.completed_pcm_frames \in Nat /\ d \in Nat
      /\ FrameSamples \in Nat /\ FrameSamples > 0
      /\ FrameSamples * c.completed_pcm_frames \in Nat
  BY FrameSamplesAssumption DEF Counts
<1>3. t \in Counts
  BY DEF DropPartial, Counts
<1>4. /\ t.frames_drained = c.frames_drained
      /\ t.completed_pcm_frames = c.completed_pcm_frames
      /\ t.dropped_partial_pcm_frames = d + one
  BY DEF DropPartial, Counts
<1> HIDE DEF p, d, t, one
<1>5. one = 0 => (d + one) * (FrameSamples - 1) = d * (FrameSamples - 1)
  BY <1>2
<1>6. one = 1 => (d + one) * (FrameSamples - 1) = d * (FrameSamples - 1) + (FrameSamples - 1)
  BY <1>2
<1>7. d * (FrameSamples - 1) \in Int
  BY <1>2
<1>8. Accounts(c, p, n)
  BY DEF p
<1>9. Accounts(t, 0, n)
  BY <1>1, <1>2, <1>4, <1>5, <1>6, <1>7, <1>8 DEF Accounts, d
<1> QED BY <1>3, <1>9 DEF t

---------------------------------------------------------------------------
(* Parts that several steps share.                                         *)

\* A step that touches no variable of the stream keeps its invariant.
LEMMA StreamStays ==
    ASSUME StreamInv, UNCHANGED stream_vars
    PROVE  StreamInv'
BY DEF StreamInv, StreamTyped, stream_vars

\* A fault is within the type of the disturbances.
LEMMA Disturbed ==
    ASSUME ControlTyped, Fault
    PROVE  disturbances' \in [faults : Nat, changes : Nat]
BY DEF ControlTyped, Fault

\* No clients at all is a value of audio.
LEMMA NoAudioTyped == NoAudio \in AudioType
BY DEF NoAudio, AudioType

\* The partial frame is dropped and counted, and none is left.
LEMMA DroppingKeepsStream ==
    ASSUME StreamInv,
           recovery' \in Recovery, RestartsHold(recovery'),
           counters' = DropPartial(counters, assembler),
           assembler' \in {Reset(assembler), DiscardPartial(assembler)},
           UNCHANGED <<recovery_frame_pending, delivered>>
    PROVE  StreamInv' /\ ~HasPartial(assembler')
<1>1. /\ SoundAssembler(assembler) /\ counters \in Counts /\ Len(delivered) \in Nat
      /\ Accounts(counters, Len(assembler.pending), Len(delivered))
  BY DEF StreamInv, StreamTyped
<1>2. counters' \in Counts /\ Accounts(counters', 0, Len(delivered))
  BY <1>1, DropPartialAccounts
<1>3. assembler' \in Assembler /\ assembler'.pending = <<>>
  BY <1>1, CleanPartial DEF SoundAssembler, DiscardPartial
<1>4. Len(assembler'.pending) = 0
  BY <1>3
<1>5. SoundAssembler(assembler')
  BY <1>3, <1>4, FrameSamplesAssumption DEF SoundAssembler
<1>6. delivered' = delivered /\ recovery_frame_pending' \in BOOLEAN /\ delivered' \in Seq(Frame)
  BY DEF StreamInv, StreamTyped
<1>7. Accounts(counters', Len(assembler'.pending), Len(delivered'))
  BY <1>2, <1>4, <1>6
<1> QED BY <1>2, <1>3, <1>5, <1>6, <1>7 DEF StreamInv, StreamTyped, HasPartial

\* Every caller of fail() keeps the invariant, whatever the controller holds.
LEMMA FailKeeps ==
    ASSUME IInv, Fail,
           recovery' \in Recovery, RestartsHold(recovery'),
           UNCHANGED <<pending_recovery_flags, notification_registered, default_endpoint,
                       notices>>,
           disturbances' \in [faults : Nat, changes : Nat]
    PROVE  IInv'
<1>1. StreamInv' /\ ~HasPartial(assembler')
  BY DroppingKeepsStream DEF IInv, Fail
<1>2. /\ lifecycle' = "failed" /\ audio' = NoAudio /\ step' = "outside"
      /\ resume' = resume /\ clients' = clients
  BY DEF Fail
<1>3. ControlTyped'
  BY <1>2, NoAudioTyped DEF ControlTyped, Steps, IInv
<1>4. Control' /\ StreamIsLive'
  BY <1>1, <1>2 DEF Control, StreamIsLive
<1>5. NoChangeIsMissed'
  BY <1>2 DEF NoChangeIsMissed, NoAudio
<1>6. RecoveryIsAnnounced'
  BY <1>2 DEF RecoveryIsAnnounced
<1> QED BY <1>1, <1>3, <1>4, <1>5, <1>6 DEF IInv

\* Taking the flags keeps the invariant, from drain_available and from
\* recover_capture_call.
LEMMA RecoverKeeps ==
    ASSUME IInv, lifecycle = "running", step \in {"outside", "draining"},
           NEW flags \in SUBSET Triggers, pending_recovery_flags \subseteq flags,
           NEW next \in {"outside", "draining"},
           RecoverIfRequested(flags, next),
           UNCHANGED <<default_endpoint, notices>>,
           disturbances' \in [faults : Nat, changes : Nat]
    PROVE  IInv'
<1>1. /\ recovery \in Recovery /\ RestartsHold(recovery) /\ recovery.state = "stable"
      /\ audio.client > 0 /\ audio.started /\ NormalizationSupported
  BY DEF IInv, StreamInv, StreamTyped, StreamIsLive
<1>2. /\ pending_recovery_flags' = {}
      /\ UNCHANGED <<lifecycle, assembler, counters, recovery_frame_pending,
                     delivered, audio, notification_registered, clients>>
  BY DEF RecoverIfRequested
<1>3. CASE flags = {}
  <2>1. step' = next /\ recovery' = recovery /\ resume' = resume
    BY <1>3 DEF RecoverIfRequested
  <2>2. pending_recovery_flags = {}
    BY <1>3
  <2>3. StreamInv'
    BY <1>2, <2>1, StreamStays DEF IInv, stream_vars
  <2>4. ControlTyped'
    BY <1>2, <2>1 DEF IInv, ControlTyped, Steps
  <2>5. Control' /\ StreamIsLive'
    BY <1>1, <1>2, <2>1
       DEF IInv, Control, ControllerState, StreamIsLive, NormalizationSupported
  <2>6. NoChangeIsMissed'
    BY <1>2, <2>1, <2>2 DEF IInv, NoChangeIsMissed
  <2>7. RecoveryIsAnnounced'
    BY <1>2, <2>1 DEF IInv, RecoveryIsAnnounced
  <2> QED BY <2>3, <2>4, <2>5, <2>6, <2>7 DEF IInv
<1>4. CASE flags # {}
  <2>1. recovery' = Requested(recovery, flags) /\ step' = "restarting" /\ resume' = next
    BY <1>4 DEF RecoverIfRequested
  <2>2. recovery' \in Recovery /\ RestartsHold(recovery') /\ recovery'.state = "restart_pending"
    BY <1>1, <1>4, <2>1, RequestedHolds
  <2>3. StreamInv'
    BY <1>2, <2>2 DEF IInv, StreamInv, StreamTyped
  <2>4. ControlTyped'
    BY <1>2, <2>1 DEF IInv, ControlTyped, Steps
  <2>5. Control' /\ StreamIsLive'
    BY <1>2, <2>1, <2>2 DEF IInv, Control, ControllerState, StreamIsLive
  <2>6. NoChangeIsMissed' /\ RecoveryIsAnnounced'
    BY <2>1, <2>2 DEF NoChangeIsMissed, RecoveryIsAnnounced
  <2> QED BY <2>3, <2>4, <2>5, <2>6 DEF IInv
<1> QED BY <1>3, <1>4

---------------------------------------------------------------------------
(* Windows.                                                                *)

\* ChangeDefaultDevice keeps the invariant.
LEMMA ChangeDefaultDeviceKeeps ==
    ASSUME IInv, NEW device \in Endpoints, ChangeDefaultDevice(device)
    PROVE  IInv'
<1>1. /\ default_endpoint' = device
      /\ notices' = notices + (IF notification_registered THEN 1 ELSE 0)
      /\ disturbances' = [disturbances EXCEPT !.changes = @ + 1]
      /\ UNCHANGED <<lifecycle, stream_vars, audio, pending_recovery_flags,
                     notification_registered, step, resume, clients>>
  BY DEF ChangeDefaultDevice
<1>2. StreamInv'
  BY <1>1, StreamStays DEF IInv
<1>3. ControlTyped'
  <2>1. disturbances' \in [faults : Nat, changes : Nat] /\ notices' \in Nat
    BY <1>1 DEF IInv, ControlTyped
  <2> QED BY <1>1, <2>1 DEF IInv, ControlTyped
<1>4. Control' /\ StreamIsLive' /\ RecoveryIsAnnounced'
  BY <1>1 DEF IInv, Control, ControllerState, StreamIsLive, NormalizationSupported,
     RecoveryIsAnnounced, stream_vars
<1>5. NoChangeIsMissed'
  <2>1. CASE notification_registered
    BY <1>1, <2>1 DEF IInv, ControlTyped, NoChangeIsMissed
  <2>2. CASE ~notification_registered
    BY <1>1, <2>2 DEF IInv, Control, NoChangeIsMissed, NoAudio
  <2> QED BY <2>1, <2>2
<1> QED BY <1>2, <1>3, <1>4, <1>5 DEF IInv

\* OnDefaultDeviceChanged keeps the invariant.
LEMMA OnDefaultDeviceChangedKeeps ==
    ASSUME IInv, OnDefaultDeviceChanged
    PROVE  IInv'
<1>1. /\ notices' = notices - 1 /\ notices > 0
      /\ pending_recovery_flags' = pending_recovery_flags \cup {"default_device_changed"}
      /\ UNCHANGED <<lifecycle, stream_vars, audio, notification_registered, step,
                     resume, clients, default_endpoint, disturbances>>
  BY DEF OnDefaultDeviceChanged
<1>2. StreamInv'
  BY <1>1, StreamStays DEF IInv
<1>3. ControlTyped'
  BY <1>1 DEF IInv, ControlTyped, Triggers
<1>4. Control' /\ StreamIsLive' /\ RecoveryIsAnnounced'
  BY <1>1 DEF IInv, Control, ControllerState, StreamIsLive, NormalizationSupported,
     RecoveryIsAnnounced, stream_vars
<1>5. NoChangeIsMissed'
  BY <1>1 DEF NoChangeIsMissed
<1> QED BY <1>2, <1>3, <1>4, <1>5 DEF IInv

---------------------------------------------------------------------------
(* initialize().                                                           *)

\* Initialize keeps the invariant.
LEMMA InitializeKeeps ==
    ASSUME IInv, Initialize
    PROVE  IInv'
<1>1. /\ step = "outside" /\ lifecycle = "idle"
      /\ notification_registered' = TRUE /\ step' = "configuring"
      /\ UNCHANGED <<lifecycle, stream_vars, audio, pending_recovery_flags, resume,
                     clients, default_endpoint, notices, disturbances>>
  BY DEF Initialize, device_vars
<1>2. StreamInv'
  BY <1>1, StreamStays DEF IInv
<1>3. ControlTyped'
  BY <1>1 DEF IInv, ControlTyped, Steps
<1>4. audio' = NoAudio
  BY <1>1 DEF IInv, Control
<1>5. Control' /\ StreamIsLive' /\ RecoveryIsAnnounced'
  BY <1>1, <1>4 DEF Control, StreamIsLive, RecoveryIsAnnounced
<1>6. NoChangeIsMissed'
  BY <1>4 DEF NoChangeIsMissed, NoAudio
<1> QED BY <1>2, <1>3, <1>5, <1>6 DEF IInv

\* FindEndpoint keeps the invariant.
LEMMA FindEndpointKeeps ==
    ASSUME IInv, FindEndpoint
    PROVE  IInv'
<1>1. /\ step \in {"configuring", "reconfiguring"}
      /\ audio' = Found(default_endpoint)
      /\ step' = IF step = "configuring" THEN "preparing" ELSE "activating"
      /\ UNCHANGED <<lifecycle, stream_vars, pending_recovery_flags, resume,
                     notification_registered, clients, default_endpoint, notices,
                     disturbances>>
  BY DEF FindEndpoint, device_vars
<1>2. StreamInv'
  BY <1>1, StreamStays DEF IInv
<1>3. audio' \in AudioType /\ audio'.endpoint = default_endpoint
  BY <1>1, NoAudioTyped DEF IInv, ControlTyped, Found, AudioType
<1>4. ControlTyped'
  BY <1>1, <1>3 DEF IInv, ControlTyped, Steps
<1>5. Control' /\ StreamIsLive'
  BY <1>1 DEF IInv, Control, ControllerState, StreamIsLive, stream_vars
<1>6. NoChangeIsMissed'
  BY <1>1, <1>3 DEF NoChangeIsMissed
<1>7. RecoveryIsAnnounced'
  BY <1>1 DEF IInv, RecoveryIsAnnounced, stream_vars
<1> QED BY <1>2, <1>4, <1>5, <1>6, <1>7 DEF IInv

\* Clients are activated on the endpoint that was found.
LEMMA ActivatedFacts ==
    ASSUME ControlTyped, NEW started \in BOOLEAN
    PROVE  /\ Activated(started) \in AudioType
           /\ Activated(started).endpoint = audio.endpoint
           /\ Activated(started).client > 0
           /\ Activated(started).started = started
<1>1. audio \in AudioType /\ clients + 1 \in Nat /\ clients + 1 > 0
  BY DEF ControlTyped
<1> QED BY <1>1 DEF Activated, AudioType

\* Prepare keeps the invariant.
LEMMA PrepareKeeps ==
    ASSUME IInv, Prepare
    PROVE  IInv'
<1>1. /\ step = "preparing" /\ lifecycle' = "ready" /\ step' = "outside"
      /\ audio' = Activated(FALSE) /\ clients' = clients + 1
      /\ UNCHANGED <<stream_vars, pending_recovery_flags, notification_registered,
                     resume, default_endpoint, notices, disturbances>>
  BY DEF Prepare, device_vars
<1>2. StreamInv'
  BY <1>1, StreamStays DEF IInv
<1>3. /\ audio' \in AudioType /\ audio'.endpoint = audio.endpoint
      /\ audio'.client > 0 /\ ~audio'.started
  BY <1>1, ActivatedFacts DEF IInv
<1>4. ControlTyped'
  <2>1. clients' \in Nat
    BY <1>1 DEF IInv, ControlTyped
  <2> QED BY <1>1, <1>3, <2>1 DEF IInv, ControlTyped, Steps
<1>5. Control' /\ StreamIsLive' /\ RecoveryIsAnnounced'
  BY <1>1, <1>3 DEF IInv, Control, StreamIsLive, RecoveryIsAnnounced
<1>6. NoChangeIsMissed'
  BY <1>1, <1>3 DEF IInv, NoChangeIsMissed
<1> QED BY <1>2, <1>4, <1>5, <1>6 DEF IInv

\* InitializeFails keeps the invariant.
LEMMA InitializeFailsKeeps ==
    ASSUME IInv, InitializeFails
    PROVE  IInv'
<1>1. recovery' = recovery /\ Fault /\ Fail
      /\ UNCHANGED <<pending_recovery_flags, notification_registered>>
  BY DEF InitializeFails
<1> QED BY <1>1, Disturbed, FailKeeps DEF IInv, StreamInv, StreamTyped, Fault

---------------------------------------------------------------------------
(* start() and stop().                                                     *)

\* A run starts with nothing pending and all counts at zero (lines 303-325).
LEMMA ResetKeepsStream ==
    ASSUME StreamInv, ResetRunState
    PROVE  /\ StreamInv' /\ ~HasPartial(assembler')
           /\ recovery'.state = "stable" /\ ~recovery_frame_pending'
<1>1. /\ assembler' = Reset(assembler) /\ recovery' = NewRecovery
      /\ recovery_frame_pending' = FALSE /\ counters' = NoCounts /\ delivered' = <<>>
  BY DEF ResetRunState
<1>2. assembler' \in Assembler /\ assembler'.pending = <<>> /\ Len(assembler'.pending) = 0
  BY <1>1, CleanPartial DEF StreamInv, StreamTyped, SoundAssembler
<1>3. SoundAssembler(assembler')
  BY <1>2, FrameSamplesAssumption DEF SoundAssembler
<1>4. NoCounts \in Counts /\ delivered' \in Seq(Frame) /\ Len(delivered') = 0
  BY <1>1 DEF NoCounts, Counts
<1>5. Accounts(counters', Len(assembler'.pending), Len(delivered'))
  BY <1>1, <1>2, <1>4, FrameSamplesAssumption DEF Accounts, NoCounts
<1>6. recovery' \in Recovery /\ RestartsHold(recovery') /\ recovery'.state = "stable"
  BY <1>1, NewRecoveryHolds DEF NewRecovery
<1> QED BY <1>1, <1>2, <1>3, <1>4, <1>5, <1>6 DEF StreamInv, StreamTyped, HasPartial

\* Start keeps the invariant.
LEMMA StartKeeps ==
    ASSUME IInv, Start
    PROVE  IInv'
<1>1. /\ step = "outside" /\ lifecycle = "ready" /\ NormalizationSupported
      /\ ResetRunState /\ audio' = [audio EXCEPT !.started = TRUE]
      /\ lifecycle' = "running"
      /\ UNCHANGED <<pending_recovery_flags, notification_registered, step, resume,
                     clients, default_endpoint, notices, disturbances>>
  BY DEF Start, device_vars
<1>2. StreamInv' /\ recovery'.state = "stable" /\ ~recovery_frame_pending'
  BY <1>1, ResetKeepsStream DEF IInv
<1>3. /\ audio' \in AudioType /\ audio'.endpoint = audio.endpoint
      /\ audio'.client > 0 /\ audio'.started
  BY <1>1 DEF IInv, ControlTyped, AudioType, StreamIsLive
<1>4. ControlTyped'
  BY <1>1, <1>3 DEF IInv, ControlTyped
<1>5. Control' /\ StreamIsLive'
  BY <1>1, <1>2, <1>3
     DEF IInv, Control, ControllerState, StreamIsLive, NormalizationSupported
<1>6. NoChangeIsMissed' /\ RecoveryIsAnnounced'
  BY <1>1, <1>2, <1>3 DEF IInv, NoChangeIsMissed, RecoveryIsAnnounced
<1> QED BY <1>2, <1>4, <1>5, <1>6 DEF IInv

\* StartUnsupported keeps the invariant.
LEMMA StartUnsupportedKeeps ==
    ASSUME IInv, StartUnsupported
    PROVE  IInv'
BY FailKeeps DEF StartUnsupported, IInv, StreamInv, StreamTyped, ControlTyped, device_vars

\* StartFails keeps the invariant.
LEMMA StartFailsKeeps ==
    ASSUME IInv, StartFails
    PROVE  IInv'
<1>1. /\ step = "outside" /\ Fault /\ ResetRunState
      /\ lifecycle' = "failed" /\ audio' = NoAudio
      /\ UNCHANGED <<pending_recovery_flags, notification_registered, step, resume,
                     clients, default_endpoint, notices>>
  BY DEF StartFails, Fault
<1>2. StreamInv' /\ ~HasPartial(assembler')
  BY <1>1, ResetKeepsStream DEF IInv
<1>3. ControlTyped'
  BY <1>1, NoAudioTyped, Disturbed DEF IInv, ControlTyped
<1>4. Control' /\ StreamIsLive' /\ RecoveryIsAnnounced'
  BY <1>1, <1>2 DEF Control, StreamIsLive, RecoveryIsAnnounced
<1>5. NoChangeIsMissed'
  BY <1>1 DEF NoChangeIsMissed, NoAudio
<1> QED BY <1>2, <1>3, <1>4, <1>5 DEF IInv

\* Stop keeps the invariant.
LEMMA StopKeeps ==
    ASSUME IInv, Stop
    PROVE  IInv'
<1>1. /\ step = "outside" /\ lifecycle = "running" /\ lifecycle' = "ready"
      /\ audio' = [audio EXCEPT !.started = FALSE]
      /\ counters' = DropPartial(counters, assembler)
      /\ assembler' = Reset(assembler)
      /\ UNCHANGED <<recovery, recovery_frame_pending, delivered, pending_recovery_flags,
                     notification_registered, step, resume, clients, default_endpoint,
                     notices, disturbances>>
  BY DEF Stop, device_vars
<1>2. StreamInv'
  BY <1>1, DroppingKeepsStream DEF IInv, StreamInv, StreamTyped
<1>3. /\ audio' \in AudioType /\ audio'.endpoint = audio.endpoint
      /\ audio'.client > 0 /\ ~audio'.started
  BY <1>1 DEF IInv, ControlTyped, AudioType, StreamIsLive
<1>4. ControlTyped'
  BY <1>1, <1>3 DEF IInv, ControlTyped
<1>5. Control' /\ StreamIsLive' /\ RecoveryIsAnnounced'
  BY <1>1, <1>3 DEF IInv, Control, StreamIsLive, RecoveryIsAnnounced
<1>6. NoChangeIsMissed'
  BY <1>1, <1>3 DEF IInv, NoChangeIsMissed
<1> QED BY <1>2, <1>4, <1>5, <1>6 DEF IInv

\* StopFails keeps the invariant.
LEMMA StopFailsKeeps ==
    ASSUME IInv, StopFails
    PROVE  IInv'
BY Disturbed, FailKeeps DEF StopFails, IInv, StreamInv, StreamTyped, Fault

\* CallOutOfOrder keeps the invariant.
LEMMA CallOutOfOrderKeeps ==
    ASSUME IInv, NEW operation \in Operations, CallOutOfOrder(operation)
    PROVE  IInv'
BY FailKeeps DEF CallOutOfOrder, IInv, StreamInv, StreamTyped, ControlTyped, device_vars

---------------------------------------------------------------------------
(* Recovery.                                                               *)

\* SimulateInvalidation keeps the invariant.
LEMMA SimulateInvalidationKeeps ==
    ASSUME IInv, SimulateInvalidation
    PROVE  IInv'
<1>1. /\ Fault
      /\ pending_recovery_flags' = pending_recovery_flags \cup {"device_invalidated"}
      /\ UNCHANGED <<lifecycle, stream_vars, audio, notification_registered, step,
                     resume, clients, default_endpoint, notices>>
  BY DEF SimulateInvalidation, Fault
<1>2. StreamInv'
  BY <1>1, StreamStays DEF IInv
<1>3. ControlTyped'
  BY <1>1, Disturbed DEF IInv, ControlTyped, Triggers
<1>4. Control' /\ StreamIsLive' /\ RecoveryIsAnnounced'
  BY <1>1 DEF IInv, Control, ControllerState, StreamIsLive, NormalizationSupported,
     RecoveryIsAnnounced, stream_vars
<1>5. NoChangeIsMissed'
  BY <1>1 DEF IInv, NoChangeIsMissed
<1> QED BY <1>2, <1>3, <1>4, <1>5 DEF IInv

\* BeginAttempt keeps the invariant.
LEMMA BeginAttemptKeeps ==
    ASSUME IInv, BeginAttempt
    PROVE  IInv'
<1>1. /\ step = "restarting" /\ recovery' = BegunAttempt(recovery)
      /\ UNCHANGED <<pending_recovery_flags, notification_registered, default_endpoint,
                     notices, disturbances>>
  BY DEF BeginAttempt, device_vars
<1>2. lifecycle = "running" /\ recovery.state = "restart_pending"
  BY <1>1 DEF IInv, Control, ControllerState
<1>3. /\ recovery' \in Recovery /\ RestartsHold(recovery')
      /\ recovery'.state \in {"restarting", "failed"}
  BY <1>1, <1>2, BegunAttemptHolds DEF IInv, StreamInv, StreamTyped
<1>4. CASE recovery'.state = "failed"
  <2>1. Fail
    BY <1>4 DEF BeginAttempt
  <2>2. disturbances' \in [faults : Nat, changes : Nat]
    BY <1>1 DEF IInv, ControlTyped
  <2> QED BY <1>1, <1>3, <2>1, <2>2, FailKeeps
<1>5. CASE recovery'.state = "restarting"
  <2>1. /\ counters' = DropPartial(counters, assembler)
        /\ assembler' = DiscardPartial(assembler)
        /\ audio' = NoAudio /\ step' = "reconfiguring"
        /\ UNCHANGED <<lifecycle, resume, recovery_frame_pending, delivered, clients>>
    BY <1>5 DEF BeginAttempt
  <2>2. StreamInv'
    BY <1>3, <2>1, DroppingKeepsStream DEF IInv
  <2>3. ControlTyped'
    BY <1>1, <2>1, NoAudioTyped DEF IInv, ControlTyped, Steps
  <2>4. notification_registered
    BY <1>2 DEF IInv, Control
  <2>5. Control' /\ StreamIsLive'
    BY <1>1, <1>2, <1>5, <2>1, <2>4 DEF Control, ControllerState, StreamIsLive
  <2>6. NoChangeIsMissed' /\ RecoveryIsAnnounced'
    BY <1>5, <2>1 DEF NoChangeIsMissed, RecoveryIsAnnounced, NoAudio
  <2> QED BY <2>2, <2>3, <2>5, <2>6 DEF IInv
<1> QED BY <1>3, <1>4, <1>5

\* AttemptFails keeps the invariant.
LEMMA AttemptFailsKeeps ==
    ASSUME IInv, AttemptFails
    PROVE  IInv'
<1>1. /\ step \in {"reconfiguring", "activating"} /\ Fault
      /\ recovery' = CompletedFailure(recovery, TRUE)
      /\ UNCHANGED <<pending_recovery_flags, notification_registered, default_endpoint,
                     notices>>
  BY DEF AttemptFails, Fault
<1>2. lifecycle = "running" /\ recovery.state = "restarting"
  BY <1>1 DEF IInv, Control, ControllerState
<1>3. /\ recovery' \in Recovery /\ RestartsHold(recovery')
      /\ recovery'.state \in {"restart_pending", "failed"}
  BY <1>1, <1>2, CompletedFailureHolds DEF IInv, StreamInv, StreamTyped
<1>4. CASE recovery'.state # "restart_pending"
  <2>1. Fail
    BY <1>4 DEF AttemptFails
  <2> QED BY <1>1, <1>3, <2>1, Disturbed, FailKeeps DEF IInv
<1>5. CASE recovery'.state = "restart_pending"
  <2>1. /\ step' = "restarting" /\ audio' = NoAudio
        /\ UNCHANGED <<lifecycle, resume, assembler, counters,
                       recovery_frame_pending, delivered, clients>>
    BY <1>5 DEF AttemptFails
  <2>2. StreamInv'
    BY <1>3, <2>1 DEF IInv, StreamInv, StreamTyped
  <2>3. ControlTyped'
    BY <1>1, <2>1, NoAudioTyped, Disturbed DEF IInv, ControlTyped, Steps
  <2>4. notification_registered
    BY <1>2 DEF IInv, Control
  <2>5. Control' /\ StreamIsLive'
    BY <1>1, <1>2, <1>5, <2>1, <2>4 DEF Control, ControllerState, StreamIsLive
  <2>6. NoChangeIsMissed' /\ RecoveryIsAnnounced'
    BY <1>5, <2>1 DEF NoChangeIsMissed, RecoveryIsAnnounced
  <2> QED BY <2>2, <2>3, <2>5, <2>6 DEF IInv
<1> QED BY <1>4, <1>5

\* AttemptUnsupported keeps the invariant.
LEMMA AttemptUnsupportedKeeps ==
    ASSUME IInv, AttemptUnsupported
    PROVE  IInv'
<1>1. /\ step = "activating" /\ Fail
      /\ recovery' = CompletedFailure(recovery, FALSE)
      /\ UNCHANGED <<pending_recovery_flags, notification_registered, default_endpoint,
                     notices, disturbances>>
  BY DEF AttemptUnsupported, device_vars
<1>2. recovery.state = "restarting"
  BY <1>1 DEF IInv, Control, ControllerState
<1>3. recovery' \in Recovery /\ RestartsHold(recovery')
  BY <1>1, <1>2, CompletedFailureHolds DEF IInv, StreamInv, StreamTyped
<1>4. disturbances' \in [faults : Nat, changes : Nat]
  BY <1>1 DEF IInv, ControlTyped
<1> QED BY <1>1, <1>3, <1>4, FailKeeps

\* Restart keeps the invariant.
LEMMA RestartKeeps ==
    ASSUME IInv, Restart
    PROVE  IInv'
<1>1. /\ step = "activating" /\ NormalizationSupported
      /\ audio' = Activated(TRUE) /\ clients' = clients + 1
      /\ recovery' = CompletedSuccess(recovery)
      /\ recovery_frame_pending' = TRUE /\ step' = resume
      /\ UNCHANGED <<lifecycle, assembler, counters, delivered, pending_recovery_flags,
                     resume, notification_registered, default_endpoint, notices,
                     disturbances>>
  BY DEF Restart, device_vars
<1>2. lifecycle = "running" /\ recovery.state = "restarting"
  BY <1>1 DEF IInv, Control, ControllerState
<1>3. /\ recovery' \in Recovery /\ RestartsHold(recovery')
      /\ recovery'.state = "stable" /\ recovery'.discontinuity_pending
  BY <1>1, <1>2, CompletedSuccessHolds DEF IInv, StreamInv, StreamTyped
<1>4. StreamInv'
  BY <1>1, <1>3 DEF IInv, StreamInv, StreamTyped
<1>5. /\ audio' \in AudioType /\ audio'.endpoint = audio.endpoint
      /\ audio'.client > 0 /\ audio'.started
  BY <1>1, ActivatedFacts DEF IInv
<1>6. step' \in {"outside", "draining"}
  BY <1>1 DEF IInv, ControlTyped
<1>7. ControlTyped'
  <2>1. clients' \in Nat
    BY <1>1 DEF IInv, ControlTyped
  <2> QED BY <1>1, <1>5, <1>6, <2>1 DEF IInv, ControlTyped, Steps
<1>8. notification_registered
  BY <1>2 DEF IInv, Control
<1>9. Control' /\ StreamIsLive'
  BY <1>1, <1>2, <1>3, <1>5, <1>6, <1>8
     DEF Control, ControllerState, StreamIsLive, NormalizationSupported
<1>10. NoChangeIsMissed' /\ RecoveryIsAnnounced'
  BY <1>1, <1>3, <1>5 DEF IInv, NoChangeIsMissed, RecoveryIsAnnounced
<1> QED BY <1>4, <1>7, <1>9, <1>10 DEF IInv

---------------------------------------------------------------------------
(* drain_available().                                                      *)

\* DrainAvailable keeps the invariant.
LEMMA DrainAvailableKeeps ==
    ASSUME IInv, DrainAvailable
    PROVE  IInv'
<1>1. /\ step = "outside" /\ lifecycle = "running"
      /\ RecoverIfRequested(pending_recovery_flags, "draining")
      /\ UNCHANGED <<default_endpoint, notices, disturbances>>
  BY DEF DrainAvailable, device_vars
<1>2. /\ pending_recovery_flags \in SUBSET Triggers
      /\ disturbances' \in [faults : Nat, changes : Nat]
  BY <1>1 DEF IInv, ControlTyped
<1> QED BY <1>1, <1>2, RecoverKeeps

\* NothingToDrain keeps the invariant.
LEMMA NothingToDrainKeeps ==
    ASSUME IInv, NothingToDrain
    PROVE  IInv'
<1>1. /\ step = "draining" /\ step' = "outside"
      /\ UNCHANGED <<lifecycle, stream_vars, audio, pending_recovery_flags, resume,
                     notification_registered, clients, default_endpoint, notices,
                     disturbances>>
  BY DEF NothingToDrain, device_vars
<1>2. StreamInv'
  BY <1>1, StreamStays DEF IInv
<1>3. ControlTyped'
  BY <1>1 DEF IInv, ControlTyped, Steps
<1>4. lifecycle = "running" /\ notification_registered
  BY <1>1 DEF IInv, Control
<1>5. Control' /\ StreamIsLive' /\ RecoveryIsAnnounced'
  BY <1>1, <1>4 DEF IInv, Control, ControllerState, StreamIsLive, NormalizationSupported,
     RecoveryIsAnnounced, stream_vars
<1>6. NoChangeIsMissed'
  BY <1>1 DEF IInv, NoChangeIsMissed
<1> QED BY <1>2, <1>3, <1>5, <1>6 DEF IInv

\* CaptureCallFails keeps the invariant.
LEMMA CaptureCallFailsKeeps ==
    ASSUME IInv, NEW invalidated \in BOOLEAN, CaptureCallFails(invalidated)
    PROVE  IInv'
<1>1. step = "draining" /\ Fault /\ UNCHANGED <<default_endpoint, notices>>
  BY DEF CaptureCallFails, Fault
<1>2. disturbances' \in [faults : Nat, changes : Nat]
  BY <1>1, Disturbed DEF IInv
<1>3. CASE invalidated
  <2> DEFINE flags == pending_recovery_flags \cup {"device_invalidated"}
  <2>1. RecoverIfRequested(flags, "outside")
    BY <1>3 DEF CaptureCallFails
  <2>2. flags \in SUBSET Triggers /\ pending_recovery_flags \subseteq flags
    BY DEF IInv, ControlTyped, Triggers
  <2>3. lifecycle = "running"
    BY <1>1 DEF IInv, Control
  <2> HIDE DEF flags
  <2> QED BY <1>1, <1>2, <2>1, <2>2, <2>3, RecoverKeeps
<1>4. CASE ~invalidated
  <2>1. Fail /\ UNCHANGED <<recovery, pending_recovery_flags, notification_registered>>
    BY <1>4 DEF CaptureCallFails
  <2> QED BY <1>1, <1>2, <2>1, FailKeeps DEF IInv, StreamInv, StreamTyped
<1> QED BY <1>3, <1>4

\* BadPacket keeps the invariant.
LEMMA BadPacketKeeps ==
    ASSUME IInv, NEW p \in Packets, BadPacket(p)
    PROVE  IInv'
BY FailKeeps DEF BadPacket, IInv, StreamInv, StreamTyped, ControlTyped, device_vars

\* What the loop hands to accept_packet is as the assembler needs it.
LEMMA CapturedIsAcceptable ==
    ASSUME IInv, step = "draining", NEW p \in Packets, PacketIsGood(p)
    PROVE  /\ Acceptable(Captured(p))
           /\ Captured(p).frame_count = p.frame_count
           /\ recovery.discontinuity_pending => "discontinuity" \in Captured(p).flags
<1> DEFINE packet == Captured(p)
           first == audio.position + p.skipped
           flags == NormalizedFlags(p)
           marked == [p EXCEPT !.flags = flags]
           samples == Normalized(marked, audio.client, first)
           position == first + IF "timestamp_error" \in flags THEN 1 ELSE 0
<1>1. p \in EndpointPacket /\ p.flags \subseteq KnownFlags
  BY CaptureAssumption DEF PacketIsGood
<1>2. audio.client \in Nat \ {0} /\ audio.position \in Nat
  BY DEF IInv, Control, StreamIsLive, ControlTyped, AudioType
<1>3. packet = [frame_count |-> p.frame_count, flags |-> flags, data |-> p.data,
                device_position |-> position, samples |-> samples]
  BY DEF Captured
<1>4. p.frame_count \in Nat \ {0}
  BY <1>1, <1>3 DEF PacketIsGood, Converts, EndpointPacket
<1>5. flags \subseteq KnownFlags
  BY <1>1 DEF NormalizedFlags, KnownFlags
<1>6. recovery.discontinuity_pending => "discontinuity" \in flags
  BY DEF NormalizedFlags
<1>7. first \in Nat /\ position \in Nat
  BY <1>1, <1>2 DEF EndpointPacket
<1>8. samples \in Seq(Sample) /\ Len(samples) = p.frame_count
  <2> DEFINE silent == "silence" \in marked.flags
  <2>1. marked.frame_count = p.frame_count
    BY <1>1 DEF EndpointPacket
  <2>2. samples = [i \in 1 .. p.frame_count |->
                     [client |-> audio.client, position |-> first + i - 1, silent |-> silent]]
    BY <2>1 DEF Normalized
  <2>3. silent \in BOOLEAN
    OBVIOUS
  <2> HIDE DEF first, samples, silent, marked
  <2>4. ASSUME NEW i \in 1 .. p.frame_count
        PROVE  [client |-> audio.client, position |-> first + i - 1, silent |-> silent]
                 \in Sample
    <3>1. first + i - 1 \in Nat
      BY <1>4, <1>7
    <3> QED BY <1>2, <2>3, <3>1 DEF Sample
  <2>5. samples \in [1 .. p.frame_count -> Sample]
    BY <2>2, <2>4
  <2> QED BY <1>4, <2>5
<1> HIDE DEF flags, samples, position, first, marked
<1> QED BY <1>3, <1>4, <1>5, <1>6, <1>7, <1>8 DEF Acceptable

\* The counters of a packet.
LEMMA CountedAccounts ==
    ASSUME NEW p \in EndpointPacket, NEW dropped \in BOOLEAN,
           NEW frames \in Seq(Frame), counters \in Counts,
           NEW partial \in Nat, NEW rest \in Nat, NEW n \in Nat,
           partial < FrameSamples, dropped => partial > 0,
           FrameSamples * Len(frames) + rest =
             (IF dropped THEN 0 ELSE partial) + p.frame_count,
           Accounts(counters, partial, n)
    PROVE  /\ Counted(p, dropped, frames) \in Counts
           /\ Accounts(Counted(p, dropped, frames), rest, n + Len(frames))
<1> DEFINE t == Counted(p, dropped, frames)
           marked == Cardinality({i \in 1 .. Len(frames) : IsDiscontinuous(frames[i])})
           first == IF recovery_frame_pending /\ frames # <<>> /\ IsDiscontinuous(frames[1])
                      THEN 1 ELSE 0
           drop == IF dropped THEN 1 ELSE 0
           c == counters.completed_pcm_frames
           d == counters.dropped_partial_pcm_frames
           m == Len(frames)
           F == FrameSamples
<1>1. m \in Nat /\ marked \in Nat /\ first \in Nat /\ drop \in {0, 1}
  <2>1. m \in Nat
    BY LenProperties
  <2>2. IsFiniteSet(1 .. m)
    BY <2>1, 1 \in Int, m \in Int, FS_Interval
  <2>3. IsFiniteSet({i \in 1 .. m : IsDiscontinuous(frames[i])})
    BY <2>2, FS_Subset
  <2>4. marked \in Nat
    BY <2>3, FS_CardinalityType
  <2> QED BY <2>1, <2>4
<1>2. /\ counters.frames_drained \in Nat /\ c \in Nat /\ d \in Nat
      /\ p.frame_count \in Nat
  BY DEF Counts, EndpointPacket
<1>3. t = [counters EXCEPT !.frames_drained = @ + p.frame_count,
                           !.completed_pcm_frames = @ + m,
                           !.discontinuity_pcm_frames = @ + marked,
                           !.dropped_partial_pcm_frames = @ + drop,
                           !.recovery_discontinuity_pcm_frames = @ + first]
  BY DEF Counted
<1> HIDE DEF t, marked, first, m
<1>4. t \in Counts
  <2>1. /\ counters.frames_drained + p.frame_count \in Nat /\ c + m \in Nat
        /\ counters.discontinuity_pcm_frames + marked \in Nat
        /\ d + drop \in Nat
        /\ counters.recovery_discontinuity_pcm_frames + first \in Nat
    <3>1. /\ counters.discontinuity_pcm_frames \in Nat
          /\ counters.recovery_discontinuity_pcm_frames \in Nat
      BY DEF Counts
    <3> HIDE DEF c, d, drop
    <3>2. \A x, y \in Nat : x + y \in Nat
      OBVIOUS
    <3>3. drop \in Nat
      BY <1>1
    <3> QED BY <1>1, <1>2, <3>1, <3>2, <3>3, Zenon
  <2> HIDE DEF drop
  <2> QED BY <1>3, <2>1 DEF Counts
<1>5. /\ t.frames_drained = counters.frames_drained + p.frame_count
      /\ t.completed_pcm_frames = c + m
      /\ t.dropped_partial_pcm_frames = d + drop
  BY <1>3 DEF Counts
<1>6. F \in Nat /\ F > 0
  BY FrameSamplesAssumption
<1> HIDE DEF F, c, d, drop
<1>7. /\ F * (c + m) = F * c + F * m /\ F * c \in Nat /\ F * m \in Nat
      /\ d * (F - 1) \in Nat
  BY <1>1, <1>2, <1>6
<1>8. F * m + rest = (IF dropped THEN 0 ELSE partial) + p.frame_count
  BY DEF F, m
<1>9. /\ c = n /\ d <= counters.frames_drained - (F * c + partial)
      /\ counters.frames_drained - (F * c + partial) <= d * (F - 1)
      /\ partial < F
  BY DEF Accounts, F, c, d
<1> DEFINE lost == counters.frames_drained + p.frame_count - (F * (c + m) + rest)
<1>10. c + m = n + m /\ d + drop <= lost /\ lost <= (d + drop) * (F - 1)
  <2>1. CASE dropped
    <3>1. drop = 1 /\ partial > 0
      BY <2>1 DEF drop
    <3>2. (d + 1) * (F - 1) = d * (F - 1) + (F - 1)
      BY <1>2, <1>6
    <3>3. lost = counters.frames_drained - (F * c + partial) + partial
      BY <1>1, <1>2, <1>6, <1>7, <1>8, <2>1
    <3> DEFINE before == counters.frames_drained - (F * c + partial)
    <3>4. before \in Int /\ d <= before /\ before <= d * (F - 1) /\ lost = before + partial
      BY <1>2, <1>7, <1>9, <3>3
    <3>5. (d + drop) * (F - 1) = d * (F - 1) + (F - 1) /\ d + drop = d + 1
      BY <3>1, <3>2
    <3> HIDE DEF lost, before
    <3> QED BY <1>2, <1>6, <1>7, <1>9, <3>1, <3>4, <3>5
  <2>2. CASE ~dropped
    <3>1. drop = 0
      BY <2>2 DEF drop
    <3>2. lost = counters.frames_drained - (F * c + partial)
      BY <1>1, <1>2, <1>6, <1>7, <1>8, <2>2
    <3>3. d + drop = d
      BY <1>2, <3>1
    <3> HIDE DEF lost
    <3> QED BY <1>9, <3>2, <3>3
  <2> QED BY <2>1, <2>2
<1>11. Accounts(t, rest, n + m)
  <2>1. t.frames_drained - (F * t.completed_pcm_frames + rest) = lost
    <3> DEFINE done == F * (c + m)
    <3>1. F * t.completed_pcm_frames = done /\ done \in Nat
      BY <1>5, <1>7
    <3> HIDE DEF done
    <3>2. lost = counters.frames_drained + p.frame_count - (done + rest)
      BY DEF done
    <3> HIDE DEF lost
    <3> QED BY <1>2, <1>5, <3>1, <3>2
  <2> HIDE DEF lost
  <2> QED BY <1>5, <1>10, <2>1 DEF Accounts, F
<1> QED BY <1>4, <1>11 DEF t, m

\* DrainPacket keeps the invariant.
LEMMA DrainPacketKeeps ==
    ASSUME IInv, NEW p \in Packets, DrainPacket(p)
    PROVE  IInv'
<1> DEFINE packet == Captured(p)
           done == AcceptPacket(assembler, packet)
           dropped == DropsPartial(assembler, packet)
<1>1. /\ step = "draining" /\ PacketIsGood(p)
      /\ assembler' = done.assembler
      /\ counters' = Counted(p, dropped, done.frames)
      /\ recovery_frame_pending' = (recovery_frame_pending /\ done.frames = <<>>)
      /\ delivered' = delivered \o done.frames
      /\ recovery' = ConsumedDiscontinuity(recovery)
      /\ audio' = [audio EXCEPT !.position = @ + p.skipped + p.frame_count]
      /\ UNCHANGED <<lifecycle, pending_recovery_flags, notification_registered, step,
                     resume, clients, default_endpoint, notices, disturbances>>
  BY DEF DrainPacket, device_vars
<1>2. /\ Acceptable(packet) /\ packet.frame_count = p.frame_count
      /\ recovery.discontinuity_pending => "discontinuity" \in packet.flags
  BY <1>1, CapturedIsAcceptable
<1>3. /\ recovery \in Recovery /\ RestartsHold(recovery) /\ SoundAssembler(assembler)
      /\ counters \in Counts /\ delivered \in Seq(Frame)
      /\ Accounts(counters, Len(assembler.pending), Len(delivered))
      /\ recovery_frame_pending \in BOOLEAN
  BY DEF IInv, StreamInv, StreamTyped
<1>4. p \in EndpointPacket
  BY CaptureAssumption
<1> HIDE DEF packet
<1>5. /\ SoundAssembler(done.assembler) /\ done.frames \in Seq(Frame)
      /\ FrameSamples * Len(done.frames) + Len(done.assembler.pending)
           = (IF dropped THEN 0 ELSE Len(assembler.pending)) + packet.frame_count
      /\ /\ "discontinuity" \in packet.flags \/ Flagged(assembler)
         /\ done.frames = <<>>
         => Flagged(done.assembler)
  BY <1>2, <1>3, AcceptPacketKeeps
<1> HIDE DEF done
<1>6. recovery' \in Recovery /\ RestartsHold(recovery') /\ recovery'.state = recovery.state
  BY <1>1, <1>3, ConsumedDiscontinuityHolds
<1>7. dropped \in BOOLEAN /\ (dropped => HasPartial(assembler))
  BY DEF DropsPartial
<1> HIDE DEF dropped
<1>8. /\ Len(assembler.pending) \in Nat /\ Len(done.assembler.pending) \in Nat
      /\ Len(assembler.pending) < FrameSamples
      /\ HasPartial(assembler) => Len(assembler.pending) > 0
  <2>1. assembler.pending \in Seq(Sample) /\ done.assembler.pending \in Seq(Sample)
    BY <1>3, <1>5 DEF SoundAssembler, Assembler
  <2> QED BY <1>3, <2>1, EmptySeq, LenProperties DEF SoundAssembler, HasPartial
<1>9. Len(delivered) \in Nat
  BY <1>3, LenProperties
<1>10. /\ counters' \in Counts
       /\ Accounts(counters', Len(assembler'.pending), Len(delivered) + Len(done.frames))
  BY <1>1, <1>2, <1>3, <1>4, <1>5, <1>7, <1>8, <1>9, CountedAccounts
<1>11. delivered' \in Seq(Frame) /\ Len(delivered') = Len(delivered) + Len(done.frames)
  BY <1>1, <1>3, <1>5, ConcatProperties
<1>12. StreamInv'
  <2>1. recovery_frame_pending' \in BOOLEAN
    BY <1>1
  <2> QED BY <1>1, <1>5, <1>6, <1>10, <1>11, <2>1 DEF StreamInv, StreamTyped
<1>13. /\ audio' \in AudioType /\ audio'.endpoint = audio.endpoint
       /\ audio'.client = audio.client /\ audio'.started = audio.started
  <2>1. audio \in AudioType /\ audio.position + p.skipped + p.frame_count \in Nat
    BY <1>4 DEF IInv, ControlTyped, AudioType, EndpointPacket
  <2> QED BY <1>1, <2>1 DEF AudioType
<1>14. ControlTyped'
  BY <1>1, <1>13 DEF IInv, ControlTyped
<1>15. lifecycle = "running" /\ notification_registered
  BY <1>1 DEF IInv, Control
<1>16. Control' /\ StreamIsLive'
  BY <1>1, <1>6, <1>13, <1>15
     DEF IInv, Control, ControllerState, StreamIsLive, NormalizationSupported
<1>17. NoChangeIsMissed'
  BY <1>1, <1>13 DEF IInv, NoChangeIsMissed
<1>18. RecoveryIsAnnounced'
  <2>1. SUFFICES ASSUME recovery_frame_pending' PROVE Flagged(assembler')
    BY DEF RecoveryIsAnnounced, Flagged
  <2>2. recovery_frame_pending /\ done.frames = <<>>
    BY <1>1, <2>1
  <2>3. recovery.state = "stable"
    BY <1>1, <1>15 DEF IInv, Control, ControllerState
  <2>4. recovery.discontinuity_pending \/ Flagged(assembler)
    BY <1>15, <2>2, <2>3 DEF IInv, RecoveryIsAnnounced, Flagged
  <2> QED BY <1>1, <1>2, <1>5, <2>2, <2>4
<1> QED BY <1>12, <1>14, <1>16, <1>17, <1>18 DEF IInv

---------------------------------------------------------------------------
(* The theorems.                                                           *)

\* A capture that was just made satisfies the invariant.
LEMMA InitHolds ==
    ASSUME Init
    PROVE  IInv
<1>1. NewAssembler \in Assembler /\ NewAssembler.pending = <<>> /\ Len(NewAssembler.pending) = 0
  BY DEF NewAssembler, Assembler
<1>2. SoundAssembler(assembler)
  BY <1>1, FrameSamplesAssumption DEF Init, SoundAssembler
<1>3. counters \in Counts /\ delivered \in Seq(Frame) /\ Len(delivered) = 0
  BY DEF Init, NoCounts, Counts
<1>4. Accounts(counters, Len(assembler.pending), Len(delivered))
  BY <1>1, <1>3, FrameSamplesAssumption DEF Init, Accounts, NoCounts
<1>5. StreamInv
  BY <1>2, <1>3, <1>4, NewRecoveryHolds DEF Init, StreamInv, StreamTyped
<1>6. ControlTyped
  BY NoAudioTyped DEF Init, ControlTyped, Steps
<1> QED BY <1>5, <1>6 DEF Init, IInv, Control, StreamIsLive, NoChangeIsMissed,
           RecoveryIsAnnounced, NoAudio

\* Every step, and a stuttering step, keeps the invariant.
LEMMA NextHolds ==
    ASSUME IInv, [Next]_vars
    PROVE  IInv'
<1>1. CASE UNCHANGED vars
  <2>1. StreamInv'
    BY <1>1, StreamStays DEF IInv, vars
  <2> QED BY <1>1, <2>1 DEF IInv, vars, stream_vars, device_vars, ControlTyped, Control,
             ControllerState, StreamIsLive, NormalizationSupported, NoChangeIsMissed,
             RecoveryIsAnnounced
<1>2. ASSUME NEW device \in Endpoints, ChangeDefaultDevice(device) PROVE IInv'
  BY <1>2, ChangeDefaultDeviceKeeps
<1>3. ASSUME NEW operation \in Operations, CallOutOfOrder(operation) PROVE IInv'
  BY <1>3, CallOutOfOrderKeeps
<1>4. ASSUME NEW p \in Packets, BadPacket(p) \/ DrainPacket(p) PROVE IInv'
  BY <1>4, BadPacketKeeps, DrainPacketKeeps
<1>5. ASSUME NEW invalidated \in BOOLEAN, CaptureCallFails(invalidated) PROVE IInv'
  BY <1>5, CaptureCallFailsKeeps
<1>6. CASE OnDefaultDeviceChanged
  BY <1>6, OnDefaultDeviceChangedKeeps
<1>7. CASE Initialize \/ InitializeFails \/ FindEndpoint \/ Prepare
  BY <1>7, InitializeKeeps, InitializeFailsKeeps, FindEndpointKeeps, PrepareKeeps
<1>8. CASE Start \/ StartUnsupported \/ StartFails \/ Stop \/ StopFails
  BY <1>8, StartKeeps, StartUnsupportedKeeps, StartFailsKeeps, StopKeeps, StopFailsKeeps
<1>9. CASE SimulateInvalidation \/ BeginAttempt \/ AttemptFails \/ AttemptUnsupported \/ Restart
  BY <1>9, SimulateInvalidationKeeps, BeginAttemptKeeps, AttemptFailsKeeps,
     AttemptUnsupportedKeeps, RestartKeeps
<1>10. CASE DrainAvailable \/ NothingToDrain
  BY <1>10, DrainAvailableKeeps, NothingToDrainKeeps
<1> QED BY <1>1, <1>2, <1>3, <1>4, <1>5, <1>6, <1>7, <1>8, <1>9, <1>10 DEF Next, CaptureStep

\* The inductive invariant of the capture holds in every reachable state.
THEOREM Invariance == Spec => []IInv
<1>1. Init => IInv
  BY InitHolds
<1>2. IInv /\ [Next]_vars => IInv'
  BY NextHolds
<1> QED BY <1>1, <1>2, PTL DEF Spec

\* Every variable of the capture has its type, whatever the devices, the
\* packets and the lengths of frames (wasapi_loopback_capture.cpp:232-274).
THEOREM TypeCorrect == Spec => []TypeOK
<1>1. IInv => TypeOK
  BY DEF IInv, StreamInv, StreamTyped, ControlTyped, SoundAssembler, AudioType, TypeOK
<1> QED BY <1>1, Invariance, PTL

\* A capture that holds an endpoint which is no longer the default one has a
\* notification, a flag or a new attempt ahead (lines 480-513).
THEOREM ChangesAreNotMissed == Spec => []NoChangeIsMissed
<1>1. IInv => NoChangeIsMissed
  BY DEF IInv
<1> QED BY <1>1, Invariance, PTL

\* The loop never runs on clients that are missing or stopped, and a failed
\* capture holds nothing (lines 327-348, 443-460, 544-551).
THEOREM LiveStream == Spec => []StreamIsLive
<1>1. IInv => StreamIsLive
  BY DEF IInv
<1> QED BY <1>1, Invariance, PTL

\* Attempts are bounded, counted once, and triggered (recovery.cpp:48-102).
THEOREM RestartsAreCounted == Spec => []RestartsAddUp
<1>1. IInv => RestartsAddUp
  <2>1. SUFFICES ASSUME IInv PROVE RestartsAddUp
    OBVIOUS
  <2>2. recovery \in Recovery /\ RestartsHold(recovery)
    BY <2>1 DEF IInv, StreamInv, StreamTyped
  <2> QED BY <2>2, RecoveryNumbers, AttemptsAssumption DEF RestartsHold, RestartsAddUp
<1> QED BY <1>1, Invariance, PTL

\* The first frame completed after a recovery is marked discontinuous
\* (main.cpp:181-186, lines 295-300 and 749-820).
THEOREM RecoveriesAreAnnounced == Spec => []RecoveryIsAnnounced
<1>1. IInv => RecoveryIsAnnounced
  BY DEF IInv
<1> QED BY <1>1, Invariance, PTL

\* Every sample drained is completed, pending, or in a frame counted as
\* dropped (lines 281-325, 451-453, 824).
THEOREM SamplesAreAccounted == Spec => []SamplesAddUp
<1>1. IInv => SamplesAddUp
  BY DEF IInv, StreamInv, Accounts, SamplesAddUp
<1> QED BY <1>1, Invariance, PTL

---------------------------------------------------------------------------
(* The controller is called in turn.                                       *)

\* A controller that waits for an attempt has one left.
AttemptLeft(r) == r.state = "restart_pending" => r.attempts_in_cycle < MaximumAttempts

\* What a step makes of the controller.
RecoveryMoves ==
    \/ recovery' = recovery \/ recovery' = NewRecovery
    \/ \E flags \in SUBSET Triggers : flags # {} /\ recovery' = Requested(recovery, flags)
    \/ recovery' = BegunAttempt(recovery)
    \/ \E retryable \in BOOLEAN : recovery' = CompletedFailure(recovery, retryable)
    \/ recovery' = CompletedSuccess(recovery)
    \/ recovery' = ConsumedDiscontinuity(recovery)

LEMMA RecoverMoves ==
    ASSUME NEW flags, flags \subseteq Triggers, NEW next, RecoverIfRequested(flags, next)
    PROVE  RecoveryMoves
<1>1. CASE flags = {}
  BY <1>1 DEF RecoverIfRequested, RecoveryMoves
<1>2. CASE flags # {}
  BY <1>2 DEF RecoverIfRequested, RecoveryMoves
<1> QED BY <1>1, <1>2

LEMMA NextMovesRecovery ==
    ASSUME IInv, [Next]_vars
    PROVE  RecoveryMoves
<1>1. CASE UNCHANGED vars
  BY <1>1 DEF vars, stream_vars, RecoveryMoves
<1>2. ASSUME NEW device \in Endpoints, ChangeDefaultDevice(device) PROVE RecoveryMoves
  BY <1>2 DEF ChangeDefaultDevice, stream_vars, RecoveryMoves
<1>3. ASSUME NEW operation \in Operations, CallOutOfOrder(operation) PROVE RecoveryMoves
  BY <1>3 DEF CallOutOfOrder, RecoveryMoves
<1>4. ASSUME NEW p \in Packets, BadPacket(p) \/ DrainPacket(p) PROVE RecoveryMoves
  BY <1>4 DEF BadPacket, DrainPacket, RecoveryMoves
<1>5. ASSUME NEW invalidated \in BOOLEAN, CaptureCallFails(invalidated) PROVE RecoveryMoves
  <2>1. CASE invalidated
    <3>1. RecoverIfRequested(pending_recovery_flags \cup {"device_invalidated"}, "outside")
      BY <1>5, <2>1 DEF CaptureCallFails
    <3>2. pending_recovery_flags \cup {"device_invalidated"} \subseteq Triggers
      BY DEF IInv, ControlTyped, Triggers
    <3> QED BY <3>1, <3>2, RecoverMoves
  <2>2. CASE ~ invalidated
    BY <1>5, <2>2 DEF CaptureCallFails, RecoveryMoves
  <2> QED BY <2>1, <2>2
<1>6. CASE OnDefaultDeviceChanged \/ Initialize \/ FindEndpoint \/ Prepare \/ NothingToDrain
  BY <1>6 DEF OnDefaultDeviceChanged, Initialize, FindEndpoint, Prepare, NothingToDrain,
              stream_vars, RecoveryMoves
<1>7. CASE InitializeFails \/ StartUnsupported \/ Stop \/ StopFails \/ SimulateInvalidation
  BY <1>7 DEF InitializeFails, StartUnsupported, Stop, StopFails, SimulateInvalidation,
              stream_vars, RecoveryMoves
<1>8. CASE Start \/ StartFails
  BY <1>8 DEF Start, StartFails, ResetRunState, RecoveryMoves
<1>9. CASE BeginAttempt \/ AttemptFails \/ AttemptUnsupported \/ Restart
  BY <1>9 DEF BeginAttempt, AttemptFails, AttemptUnsupported, Restart, RecoveryMoves
<1>10. CASE DrainAvailable
  <2>1. RecoverIfRequested(pending_recovery_flags, "draining")
    BY <1>10 DEF DrainAvailable
  <2>2. pending_recovery_flags \subseteq Triggers
    BY DEF IInv, ControlTyped
  <2> QED BY <2>1, <2>2, RecoverMoves
<1> QED BY <1>1, <1>2, <1>3, <1>4, <1>5, <1>6, <1>7, <1>8, <1>9, <1>10 DEF Next, CaptureStep

\* Every move leaves an attempt to a controller that waits for one: a request
\* begins to count anew, and a failure asks for another only below the limit.
LEMMA AttemptStaysLeft ==
    ASSUME recovery \in Recovery, AttemptLeft(recovery), RecoveryMoves
    PROVE  AttemptLeft(recovery')
<1> USE DEF AttemptLeft
<1>1. CASE recovery' = recovery
  BY <1>1
<1>2. CASE recovery' = NewRecovery
  BY <1>2 DEF NewRecovery
<1>3. ASSUME NEW flags \in SUBSET Triggers, recovery' = Requested(recovery, flags)
      PROVE  AttemptLeft(recovery')
  <2>1. CASE recovery.state = "stable"
    BY <1>3, <2>1, AttemptsAssumption DEF Requested, Recovery
  <2>2. CASE recovery.state # "stable"
    BY <1>3, <2>2 DEF Requested, Recovery
  <2> QED BY <2>1, <2>2
<1>4. CASE recovery' = BegunAttempt(recovery)
  BY <1>4 DEF BegunAttempt, Recovery
<1>5. ASSUME NEW retryable \in BOOLEAN, recovery' = CompletedFailure(recovery, retryable)
      PROVE  AttemptLeft(recovery')
  BY <1>5 DEF CompletedFailure, Recovery
<1>6. CASE recovery' = CompletedSuccess(recovery)
  BY <1>6 DEF CompletedSuccess, Recovery
<1>7. CASE recovery' = ConsumedDiscontinuity(recovery)
  BY <1>7 DEF ConsumedDiscontinuity, Recovery
<1> QED BY <1>1, <1>2, <1>3, <1>4, <1>5, <1>6, <1>7 DEF RecoveryMoves

\* The state in which the controller takes the call that the capture makes
\* next: a request while the loop may run, an attempt while one is pending and
\* left, and an outcome while one is under way.
CalledInTurn ==
    /\ lifecycle = "running" /\ step \in {"outside", "draining"} =>
         recovery.state # "failed"
    /\ step = "restarting" => recovery.state = "restart_pending" /\ AttemptLeft(recovery)
    /\ step \in {"reconfiguring", "activating"} => recovery.state = "restarting"

\* The controller refuses no call of the capture, so the ends of
\* recover_if_requested that answer a refusal, and the one behind its loop, are
\* never taken (wasapi_loopback_capture.cpp:488-507, 545-548, 554).
THEOREM ControllerNeverRefuses == Spec => []CalledInTurn
<1>1. Init => AttemptLeft(recovery)
  BY DEF Init, NewRecovery, AttemptLeft
<1>2. IInv /\ AttemptLeft(recovery) /\ [Next]_vars => AttemptLeft(recovery)'
  BY NextMovesRecovery, AttemptStaysLeft DEF IInv, StreamInv, StreamTyped, AttemptLeft
<1>3. IInv /\ AttemptLeft(recovery) => CalledInTurn
  BY DEF IInv, Control, ControllerState, CalledInTurn
<1> QED BY <1>1, <1>2, <1>3, Invariance, PTL DEF Spec

---------------------------------------------------------------------------
(* The frames of a run, and where the next sample goes.                    *)

\* FramesAreWhole, of one frame.
WholeFrame(frame) ==
    /\ Len(frame.samples) = FrameSamples
    /\ \A k \in 1 .. FrameSamples - 1 : Follows(frame.samples[k], frame.samples[k + 1])
    /\ "silence" \in frame.flags <=> \A k \in 1 .. FrameSamples : frame.samples[k].silent
    /\ "timestamp_error" \notin frame.flags =>
         frame.device_position = frame.samples[1].position

\* GapsAreAnnounced and FramesAreWhole, of the frames handed to the sink.
Chained(frames) ==
    /\ \A i \in 1 .. Len(frames) : frames[i].sequence_number = i /\ WholeFrame(frames[i])
    /\ \A i \in 1 .. Len(frames) - 1 :
         \/ Follows(frames[i].samples[FrameSamples], frames[i + 1].samples[1])
         \/ IsDiscontinuous(frames[i + 1])

\* The partial frame is consecutive samples of one client and is marked like
\* the frame it will be.
WholePartial(a) ==
    /\ \A k \in 1 .. Len(a.pending) - 1 : Follows(a.pending[k], a.pending[k + 1])
    /\ a.all_silent <=> \A k \in 1 .. Len(a.pending) : a.pending[k].silent
    /\ "silence" \notin a.flags
    /\ "timestamp_error" \notin a.flags => a.device_position = a.pending[1].position

\* Sample s is where these frames end, if there are any.
Continues(frames, s) ==
    frames # <<>> => Follows(frames[Len(frames)].samples[FrameSamples], s)

\* The partial frame is the next one: it starts where these frames end, or is
\* discontinuous.
ComesNext(frames, a) ==
    /\ a.next_sequence_number = Len(frames) + 1
    /\ HasPartial(a) =>
         /\ WholePartial(a)
         /\ Continues(frames, a.pending[1]) \/ "discontinuity" \in a.flags

\* Sample s goes right behind the last one held.
GoesBehind(frames, a, s) ==
    IF HasPartial(a) THEN Follows(a.pending[Len(a.pending)], s) ELSE Continues(frames, s)

\* A place on the timeline of a client.
At(client, position) == [client |-> client, position |-> position]

\* While the capture runs, what is pending comes next, and while no recovery
\* is under way, the next sample goes behind it or will be discontinuous.
Stream ==
    /\ Chained(delivered)
    /\ lifecycle = "running" => ComesNext(delivered, assembler)
    /\ lifecycle = "running" /\ recovery.state = "stable" =>
         \/ recovery.discontinuity_pending
         \/ GoesBehind(delivered, assembler, At(audio.client, audio.position))

\* A packet that was read from this client, starting at this position: its
\* samples follow each other and are silent together.
ReadAt(packet, client, first) ==
    /\ first \in Nat
    /\ \A i \in 1 .. packet.frame_count :
         /\ packet.samples[i].client = client
         /\ packet.samples[i].position = first + i - 1
         /\ packet.samples[i].silent <=> "silence" \in packet.flags
    /\ "timestamp_error" \notin packet.flags => packet.device_position = first

\* A frame that is being filled from the packet, before it may end.
Filled(w, packet) == CopySamples(MarkFrame(BeginFrame(w, packet), packet), packet)

\* How many samples a turn copies.
Copied(w, packet) == Filled(w, packet).consumed - w.consumed

\* Samples copied behind those held.
LEMMA SamplesBehind ==
    ASSUME NEW s \in Seq(Sample), NEW t \in Seq(Sample), NEW i \in Nat, NEW n \in Nat,
           i + n <= Len(t)
    PROVE  LET u == s \o SubSeq(t, i + 1, i + n)
           IN  /\ Len(u) = Len(s) + n
               /\ \A k \in 1 .. Len(s) : u[k] = s[k]
               /\ \A k \in 1 .. n : u[Len(s) + k] = t[i + k]
<1> DEFINE c == SubSeq(t, i + 1, i + n)
           u == s \o c
<1>1. Len(s) \in Nat /\ Len(t) \in Nat
  BY LenProperties
<1>2. /\ c \in Seq(Sample) /\ Len(c) = n
      /\ \A k \in 1 .. n : c[k] = t[i + k]
  <2>1. \A k \in (i + 1) .. (i + n) : t[k] \in Sample
    <3> SUFFICES ASSUME NEW k \in (i + 1) .. (i + n)
                 PROVE  t[k] \in Sample
      OBVIOUS
    <3>1. k \in 1 .. Len(t)
      BY <1>1
    <3> QED BY <3>1, ElementOfSeq
  <2>2. i + 1 \in Int /\ i + n \in Int
    OBVIOUS
  <2>3. /\ c \in Seq(Sample)
        /\ Len(c) = IF i + 1 <= i + n THEN (i + n) - (i + 1) + 1 ELSE 0
        /\ \A k \in 1 .. (i + n) - (i + 1) + 1 : c[k] = t[i + 1 + k - 1]
    BY <2>1, <2>2, SubSeqProperties
  <2> HIDE DEF c
  <2>4. Len(c) = n
    BY <2>3
  <2>5. ASSUME NEW k \in 1 .. n PROVE c[k] = t[i + k]
    <3>1. k \in 1 .. (i + n) - (i + 1) + 1 /\ i + 1 + k - 1 = i + k
      OBVIOUS
    <3> QED BY <2>3, <3>1
  <2> QED BY <2>3, <2>4, <2>5
<1> HIDE DEF c
<1>3. /\ Len(u) = Len(s) + Len(c)
      /\ \A k \in 1 .. Len(s) + Len(c) :
           u[k] = IF k <= Len(s) THEN s[k] ELSE c[k - Len(s)]
  BY <1>2, ConcatProperties
<1> HIDE DEF u
<1>4. ASSUME NEW k \in 1 .. Len(s) PROVE u[k] = s[k]
  <2>1. k \in 1 .. Len(s) + Len(c) /\ k <= Len(s)
    BY <1>1, <1>2
  <2> QED BY <1>3, <2>1
<1>5. ASSUME NEW k \in 1 .. n PROVE u[Len(s) + k] = t[i + k]
  <2> DEFINE j == Len(s) + k
  <2>1. j \in 1 .. Len(s) + Len(c) /\ ~ j <= Len(s) /\ j - Len(s) = k
    BY <1>1, <1>2
  <2> HIDE DEF j
  <2>2. u[j] = c[k]
    BY <1>3, <2>1
  <2> QED BY <1>2, <2>2 DEF j
<1> QED BY <1>2, <1>3, <1>4, <1>5 DEF u, c

\* What a turn leaves in the frame it fills (pcm_frame_assembler.cpp:66-99).
LEMMA ChunkFills ==
    ASSUME NEW packet, Acceptable(packet), NEW w, SoundWork(w, packet),
           w.consumed # packet.frame_count
    PROVE  LET c == Filled(w, packet)
               a == w.assembler
               n == Copied(w, packet)
           IN  /\ c \in WorkShape(packet)
               /\ n \in 1 .. packet.frame_count
               /\ c.consumed = w.consumed + n
               /\ Len(c.assembler.pending) = Len(a.pending) + n
               /\ Len(c.assembler.pending) <= FrameSamples
               /\ \A k \in 1 .. Len(a.pending) : c.assembler.pending[k] = a.pending[k]
               /\ \A k \in 1 .. n :
                    c.assembler.pending[Len(a.pending) + k] = packet.samples[w.consumed + k]
               /\ c.assembler.flags =
                    (IF HasPartial(a) THEN a.flags
                     ELSE IF w.discontinuity THEN {"discontinuity"} ELSE {})
                    \cup (packet.flags \cap {"timestamp_error"})
               /\ c.assembler.all_silent =
                    ((HasPartial(a) => a.all_silent) /\ "silence" \in packet.flags)
               /\ c.assembler.device_position =
                    (IF HasPartial(a) THEN a.device_position
                     ELSE packet.device_position + w.consumed)
               /\ c.assembler.next_sequence_number = a.next_sequence_number
               /\ c.frames = w.frames /\ ~c.discontinuity
<1> DEFINE a == w.assembler
           b == BeginFrame(w, packet)
           m == MarkFrame(b, packet)
           c == CopySamples(m, packet)
<1>1. /\ w \in WorkShape(packet) /\ a \in Assembler
      /\ Len(a.pending) < FrameSamples
  BY DEF SoundWork, WorkShape
<1>2. /\ b \in WorkShape(packet)
      /\ b.assembler.pending = a.pending
      /\ b.consumed = w.consumed /\ b.frames = w.frames /\ ~b.discontinuity
  BY BeginFrameKeeps
<1>3. /\ b.assembler.flags = IF HasPartial(a) THEN a.flags
                             ELSE IF w.discontinuity THEN {"discontinuity"} ELSE {}
      /\ b.assembler.device_position = IF HasPartial(a) THEN a.device_position
                                       ELSE packet.device_position + w.consumed
      /\ b.assembler.next_sequence_number = a.next_sequence_number
  BY <1>1 DEF BeginFrame, WorkShape, Assembler
<1>4. b.assembler.all_silent = (HasPartial(a) => a.all_silent)
  <2>1. CASE HasPartial(a)
    <3>1. b = w
      BY <2>1 DEF BeginFrame
    <3>2. a.all_silent \in BOOLEAN
      BY <1>1 DEF Assembler
    <3>3. b.assembler.all_silent = a.all_silent
      BY <3>1
    <3> QED BY <2>1, <3>2, <3>3, Zenon
  <2>2. CASE ~HasPartial(a)
    <3>1. b.assembler.all_silent = TRUE
      BY <1>1, <2>2 DEF BeginFrame, WorkShape, Assembler
    <3> QED BY <2>2, <3>1, Zenon
  <2> QED BY <2>1, <2>2
<1> HIDE DEF b
<1>5. /\ m \in WorkShape(packet)
      /\ m.assembler.pending = b.assembler.pending
      /\ m.consumed = b.consumed /\ m.frames = b.frames
      /\ m.discontinuity = b.discontinuity
  BY <1>2, MarkFrameKeeps
<1>6. /\ m.assembler.flags = b.assembler.flags \cup (packet.flags \cap {"timestamp_error"})
      /\ m.assembler.device_position = b.assembler.device_position
      /\ m.assembler.next_sequence_number = b.assembler.next_sequence_number
  BY <1>2 DEF MarkFrame, WorkShape, Assembler
<1>7. m.assembler.all_silent = (b.assembler.all_silent /\ "silence" \in packet.flags)
  <2>1. m.assembler = [b.assembler EXCEPT
                         !.flags = @ \cup (packet.flags \cap {"timestamp_error"}),
                         !.all_silent = @ /\ "silence" \in packet.flags]
    BY <1>2 DEF MarkFrame, WorkShape
  <2>2. b.assembler \in Assembler
    BY <1>2 DEF WorkShape
  <2> QED BY <2>1, <2>2, Zenon DEF Assembler
<1>8. m.assembler.all_silent = ((HasPartial(a) => a.all_silent) /\ "silence" \in packet.flags)
  <2> HIDE DEF m
  <2> QED BY <1>4, <1>7, Zenon
<1> HIDE DEF m
<1>9. Len(m.assembler.pending) < FrameSamples /\ m.consumed # packet.frame_count
  BY <1>1, <1>2, <1>5
<1>10. /\ c \in WorkShape(packet)
       /\ c.assembler.flags = m.assembler.flags
       /\ Len(c.assembler.pending) <= FrameSamples
       /\ c.consumed > m.consumed
       /\ c.frames = m.frames /\ c.discontinuity = m.discontinuity
  BY <1>5, <1>9, CopySamplesKeeps
<1>11. /\ c.assembler.all_silent = m.assembler.all_silent
       /\ c.assembler.device_position = m.assembler.device_position
       /\ c.assembler.next_sequence_number = m.assembler.next_sequence_number
  <2>1. m.assembler \in Assembler
    BY <1>5 DEF WorkShape
  <2>2. PICK s : c.assembler = [m.assembler EXCEPT !.pending = s]
    BY <1>5 DEF CopySamples, WorkShape
  <2> QED BY <2>1, <2>2 DEF Assembler
<1> DEFINE n == c.consumed - w.consumed
<1>12. /\ w.consumed \in Nat /\ c.consumed \in 0 .. packet.frame_count
       /\ packet.frame_count \in Nat /\ c.consumed > w.consumed
  BY <1>1, <1>2, <1>5, <1>10 DEF WorkShape, Acceptable
<1>13. n \in 1 .. packet.frame_count /\ c.consumed = w.consumed + n
  BY <1>12
<1>14. c.assembler.pending = a.pending \o SubSeq(packet.samples, w.consumed + 1, w.consumed + n)
  <2>1. m.assembler \in Assembler /\ m.consumed = w.consumed /\ m.assembler.pending = a.pending
    BY <1>2, <1>5 DEF WorkShape
  <2>2. PICK count \in Int :
          /\ c.consumed = m.consumed + count
          /\ c.assembler.pending = m.assembler.pending
               \o SubSeq(packet.samples, m.consumed + 1, m.consumed + count)
    <3> DEFINE in_frame == FrameSamples - Len(m.assembler.pending)
               in_packet == packet.frame_count - m.consumed
               count == IF in_frame < in_packet THEN in_frame ELSE in_packet
    <3>1. count \in Int
      <4>1. m.assembler.pending \in Seq(Sample)
        BY <2>1 DEF Assembler
      <4>2. Len(m.assembler.pending) \in Nat
        BY <4>1, LenProperties
      <4> QED BY <1>12, <2>1, <4>2, FrameSamplesAssumption
    <3>2. /\ c.consumed = m.consumed + count
          /\ c.assembler.pending = m.assembler.pending
               \o SubSeq(packet.samples, m.consumed + 1, m.consumed + count)
      BY <1>5 DEF CopySamples, WorkShape, Assembler
    <3> HIDE DEF count, c
    <3> QED BY <3>1, <3>2
  <2>3. count = n
    <3> HIDE DEF c
    <3> QED BY <1>12, <1>13, <2>1, <2>2
  <2> QED BY <2>1, <2>2, <2>3
<1> HIDE DEF c
<1>15. a.pending \in Seq(Sample) /\ packet.samples \in Seq(Sample)
  BY <1>1 DEF Assembler, Acceptable
<1>16. w.consumed + n <= Len(packet.samples)
  BY <1>12, <1>13 DEF Acceptable
<1> HIDE DEF n
<1>17. /\ Len(c.assembler.pending) = Len(a.pending) + n
       /\ \A k \in 1 .. Len(a.pending) : c.assembler.pending[k] = a.pending[k]
       /\ \A k \in 1 .. n :
            c.assembler.pending[Len(a.pending) + k] = packet.samples[w.consumed + k]
  <2> DEFINE s == a.pending
             t == packet.samples
             i == w.consumed
  <2>1. n \in Nat /\ i \in Nat
    BY <1>13, <1>12
  <2>2. s \in Seq(Sample) /\ t \in Seq(Sample) /\ i + n <= Len(t)
    BY <1>15, <1>16
  <2>3. c.assembler.pending = s \o SubSeq(t, i + 1, i + n)
    BY <1>14
  <2> HIDE DEF s, t, i
  <2>4. LET u == s \o SubSeq(t, i + 1, i + n)
        IN  /\ Len(u) = Len(s) + n
            /\ \A k \in 1 .. Len(s) : u[k] = s[k]
            /\ \A k \in 1 .. n : u[Len(s) + k] = t[i + k]
    BY <2>1, <2>2, SamplesBehind
  <2>5. /\ Len(c.assembler.pending) = Len(s) + n
        /\ \A k \in 1 .. Len(s) : c.assembler.pending[k] = s[k]
        /\ \A k \in 1 .. n : c.assembler.pending[Len(s) + k] = t[i + k]
    BY <2>3, <2>4
  <2> QED BY <2>5 DEF s, t, i
<1>18. c = Filled(w, packet) /\ n = Copied(w, packet)
  BY DEF Filled, Copied, c, m, b, n
<1>19. c.assembler.all_silent =
         ((HasPartial(a) => a.all_silent) /\ "silence" \in packet.flags)
  BY <1>8, <1>11, Zenon
<1>20. /\ c.assembler.flags =
            (IF HasPartial(a) THEN a.flags
             ELSE IF w.discontinuity THEN {"discontinuity"} ELSE {})
            \cup (packet.flags \cap {"timestamp_error"})
       /\ c.assembler.device_position =
            (IF HasPartial(a) THEN a.device_position
             ELSE packet.device_position + w.consumed)
       /\ c.assembler.next_sequence_number = a.next_sequence_number
       /\ c.frames = w.frames /\ ~c.discontinuity
  BY <1>2, <1>3, <1>5, <1>6, <1>10, <1>11
<1> HIDE DEF a
<1> QED BY <1>10, <1>13, <1>17, <1>18, <1>19, <1>20, Zenon DEF a

\* What a turn fills in still comes next and is whole, and the next sample of
\* the packet goes behind it (pcm_frame_assembler.cpp:66-99).
LEMMA FilledComesNext ==
    ASSUME NEW packet, Acceptable(packet), NEW w, SoundWork(w, packet),
           w.consumed # packet.frame_count,
           NEW client, NEW first, ReadAt(packet, client, first),
           NEW frames, ComesNext(frames, w.assembler),
           \/ w.discontinuity
           \/ GoesBehind(frames, w.assembler, At(client, first + w.consumed))
    PROVE  LET c == Filled(w, packet)
           IN  /\ ComesNext(frames, c.assembler) /\ WholePartial(c.assembler)
               /\ Continues(frames, c.assembler.pending[1])
                    \/ "discontinuity" \in c.assembler.flags
               /\ GoesBehind(frames, c.assembler, At(client, first + c.consumed))
<1> DEFINE c == Filled(w, packet)
           a == w.assembler
           n == Copied(w, packet)
           l == Len(a.pending)
           p == a.pending
           u == c.assembler.pending
           start == first + w.consumed
           silence == "silence" \in packet.flags
<1>1. /\ c \in WorkShape(packet)
      /\ n \in 1 .. packet.frame_count
      /\ c.consumed = w.consumed + n
      /\ Len(u) = l + n
      /\ \A k \in 1 .. l : u[k] = p[k]
      /\ \A k \in 1 .. n : u[l + k] = packet.samples[w.consumed + k]
      /\ c.assembler.flags =
           (IF HasPartial(a) THEN a.flags
            ELSE IF w.discontinuity THEN {"discontinuity"} ELSE {})
           \cup (packet.flags \cap {"timestamp_error"})
      /\ c.assembler.device_position =
           (IF HasPartial(a) THEN a.device_position
            ELSE packet.device_position + w.consumed)
      /\ c.assembler.next_sequence_number = a.next_sequence_number
  BY ChunkFills
<1>2. c.assembler.all_silent = ((HasPartial(a) => a.all_silent) /\ silence)
  BY ChunkFills, Zenon
<1>3. /\ w.consumed \in 0 .. packet.frame_count /\ packet.frame_count \in Nat
      /\ first \in Nat /\ a.pending \in Seq(Sample)
      /\ c.consumed \in 0 .. packet.frame_count
  BY <1>1 DEF SoundWork, WorkShape, Assembler, Acceptable, ReadAt
<1>4. /\ l \in Nat /\ n \in Nat \ {0} /\ start \in Nat /\ packet.frame_count \in Nat
      /\ HasPartial(a) <=> l # 0
  <2>1. l \in Nat
    BY <1>3, LenProperties
  <2>2. HasPartial(a) <=> l # 0
    BY <1>3, EmptySeq DEF HasPartial
  <2> QED BY <1>1, <1>3, <2>1, <2>2
<1>5. w.discontinuity => ~HasPartial(a)
  BY DEF SoundWork
<1> HIDE DEF c, n, l, silence
<1>6. \A k \in 1 .. n :
        /\ u[l + k].client = client
        /\ u[l + k].position = start + k - 1
        /\ u[l + k].silent <=> silence
  <2> SUFFICES ASSUME NEW k \in 1 .. n
               PROVE  /\ u[l + k].client = client
                      /\ u[l + k].position = start + k - 1
                      /\ u[l + k].silent <=> silence
    OBVIOUS
  <2> DEFINE i == w.consumed + k
  <2>1. i \in 1 .. packet.frame_count /\ first + i - 1 = start + k - 1
    <3> DEFINE x == w.consumed
               y == c.consumed
               m == packet.frame_count
    <3>1. x \in Nat /\ y \in 0 .. m /\ m \in Nat /\ y = x + n
      BY <1>1, <1>3
    <3> HIDE DEF x, y, m
    <3>2. x + k \in 1 .. m /\ first + (x + k) - 1 = (first + x) + k - 1
      BY <1>3, <1>4, <3>1
    <3> QED BY <3>2 DEF x, m
  <2>2. u[l + k] = packet.samples[i]
    BY <1>1
  <2> HIDE DEF i, start, u
  <2>3. /\ packet.samples[i].client = client
        /\ packet.samples[i].position = first + i - 1
    BY <2>1 DEF ReadAt
  <2>4. packet.samples[i].silent <=> silence
    BY <2>1, Zenon DEF ReadAt, silence
  <2>5. u[l + k].silent <=> silence
    BY <2>2, <2>4, Zenon
  <2> QED BY <2>1, <2>2, <2>3, <2>5
<1>7. HasPartial(a) => WholePartial(a)
  BY DEF ComesNext
<1>8. /\ HasPartial(a) => Follows(p[l], At(client, start))
      /\ ~HasPartial(a) => w.discontinuity \/ Continues(frames, At(client, start))
  BY <1>5 DEF GoesBehind, l
<1> HIDE DEF u, p
<1>9. ASSUME NEW k \in 1 .. l + n - 1 PROVE Follows(u[k], u[k + 1])
  <2>1. CASE k < l
    <3>1. k \in 1 .. l /\ k + 1 \in 1 .. l /\ k \in 1 .. l - 1
      BY <1>4, <2>1
    <3>2. u[k] = p[k] /\ u[k + 1] = p[k + 1]
      BY <1>1, <3>1
    <3>3. Follows(p[k], p[k + 1])
      <4>1. HasPartial(a)
        BY <1>4, <3>1
      <4> QED BY <1>7, <3>1, <4>1 DEF WholePartial, l, p
    <3> QED BY <3>2, <3>3
  <2>2. CASE k = l
    <3>1. k \in 1 .. l /\ 1 \in 1 .. n
      BY <1>4, <2>2
    <3>2. u[k] = p[l] /\ Follows(p[l], At(client, start))
      BY <1>1, <1>4, <1>8, <2>2, <3>1
    <3>3. u[l + 1].client = client /\ u[l + 1].position = start + 1 - 1
      BY <1>6, <3>1
    <3>4. u[k + 1].client = client /\ u[k + 1].position = start
      <4> HIDE DEF start
      <4> QED BY <1>4, <2>2, <3>3
    <3> HIDE DEF start
    <3> QED BY <3>2, <3>4 DEF Follows, At
  <2>3. CASE k > l
    <3> DEFINE j == k - l
    <3>1. j \in 1 .. n /\ j + 1 \in 1 .. n /\ l + j = k /\ l + (j + 1) = k + 1
      BY <1>4, <2>3
    <3> HIDE DEF j
    <3>2. /\ u[k].client = client /\ u[k].position = start + j - 1
          /\ u[k + 1].client = client /\ u[k + 1].position = start + (j + 1) - 1
      BY <1>6, <3>1
    <3> QED BY <1>4, <3>1, <3>2 DEF Follows
  <2> QED BY <1>4, <2>1, <2>2, <2>3
<1>10. c.assembler.all_silent <=> \A k \in 1 .. l + n : u[k].silent
  <2>1. \A k \in 1 .. n : l + k \in 1 .. l + n
    BY <1>4
  <2>2. \A k \in 1 .. l : k \in 1 .. l + n
    BY <1>4
  <2>3. \A k \in 1 .. l + n : k \in 1 .. l \/ \E j \in 1 .. n : k = l + j
    <3> SUFFICES ASSUME NEW k \in 1 .. l + n, k \notin 1 .. l
                 PROVE  \E j \in 1 .. n : k = l + j
      OBVIOUS
    <3>1. k - l \in 1 .. n /\ k = l + (k - l)
      BY <1>4
    <3> QED BY <3>1
  <2>4. HasPartial(a) => (a.all_silent <=> \A k \in 1 .. l : p[k].silent)
    BY <1>7, Zenon DEF WholePartial, l, p
  <2>5. ~HasPartial(a) => \A k \in 1 .. l : FALSE
    BY <1>4
  <2>6. 1 \in 1 .. n
    BY <1>4
  <2>7. \A k \in 1 .. l : u[k] = p[k]
    BY <1>1
  <2>8. \A k \in 1 .. n : u[l + k].silent <=> silence
    BY <1>6
  <2>9. ASSUME c.assembler.all_silent, NEW k \in 1 .. l + n PROVE u[k].silent
    <3>1. (HasPartial(a) => a.all_silent) /\ silence
      BY <1>2, <2>9, Zenon
    <3>2. CASE k \in 1 .. l
      <4>1. p[k].silent
        BY <2>4, <2>5, <3>1, <3>2, Zenon
      <4> QED BY <2>7, <3>2, <4>1, Zenon
    <3>3. CASE \E j \in 1 .. n : k = l + j
      BY <2>8, <3>1, <3>3, Zenon
    <3> QED BY <2>3, <3>2, <3>3
  <2>10. ASSUME \A k \in 1 .. l + n : u[k].silent PROVE c.assembler.all_silent
    <3>1. silence
      BY <2>1, <2>6, <2>8, <2>10, Zenon
    <3>2. HasPartial(a) => a.all_silent
      BY <2>2, <2>4, <2>7, <2>10, Zenon
    <3> QED BY <1>2, <3>1, <3>2, Zenon
  <2> QED BY <2>9, <2>10, Zenon
<1>11. "silence" \notin c.assembler.flags
  <2>1. HasPartial(a) => "silence" \notin a.flags
    BY <1>7 DEF WholePartial
  <2> QED BY <1>1, <2>1
<1>12. "timestamp_error" \notin c.assembler.flags =>
         c.assembler.device_position = u[1].position
  <2> SUFFICES ASSUME "timestamp_error" \notin c.assembler.flags
               PROVE  c.assembler.device_position = u[1].position
    OBVIOUS
  <2>1. CASE HasPartial(a)
    <3>1. "timestamp_error" \notin a.flags /\ 1 \in 1 .. l
      BY <1>1, <1>4, <2>1
    <3>2. a.device_position = p[1].position
      BY <1>7, <2>1, <3>1 DEF WholePartial, p
    <3> QED BY <1>1, <2>1, <3>1, <3>2
  <2>2. CASE ~HasPartial(a)
    <3>1. "timestamp_error" \notin packet.flags
      BY <1>1
    <3>2. packet.device_position = first
      BY <3>1 DEF ReadAt
    <3>3. l + 1 = 1 /\ 1 \in 1 .. n
      BY <1>4, <2>2
    <3>4. u[1].position = start + 1 - 1
      BY <1>6, <3>3
    <3>5. u[1].position = start
      BY <1>4, <3>4
    <3> QED BY <1>1, <2>2, <3>2, <3>5
  <2> QED BY <2>1, <2>2
<1>13. WholePartial(c.assembler)
  <2>1. Len(c.assembler.pending) = l + n /\ c.assembler.pending = u
    BY <1>1 DEF u
  <2> DEFINE d == c.assembler
  <2>2. d.pending = u /\ Len(d.pending) = l + n
    BY <2>1
  <2>3. d.all_silent <=> \A k \in 1 .. l + n : u[k].silent
    BY <1>10, Zenon
  <2>4. /\ "silence" \notin d.flags
        /\ "timestamp_error" \notin d.flags => d.device_position = u[1].position
    BY <1>11, <1>12
  <2> HIDE DEF d
  <2>5. \A k \in 1 .. Len(d.pending) - 1 : Follows(d.pending[k], d.pending[k + 1])
    <3>1. \A k \in 1 .. l + n - 1 : Follows(u[k], u[k + 1])
      BY <1>9
    <3> SUFFICES ASSUME NEW k \in 1 .. Len(d.pending) - 1
                 PROVE  Follows(d.pending[k], d.pending[k + 1])
      OBVIOUS
    <3>2. k \in 1 .. l + n - 1
      BY <1>4, <2>2
    <3> QED BY <2>2, <3>1, <3>2, Zenon
  <2>6. d.all_silent <=> \A k \in 1 .. Len(d.pending) : d.pending[k].silent
    BY <2>2, <2>3, Zenon
  <2>7. "timestamp_error" \notin d.flags => d.device_position = d.pending[1].position
    BY <2>2, <2>4
  <2> QED BY <2>4, <2>5, <2>6, <2>7, Zenon DEF WholePartial, d
<1>14. Continues(frames, u[1]) \/ "discontinuity" \in c.assembler.flags
  <2>1. CASE HasPartial(a)
    <3>1. 1 \in 1 .. l
      BY <1>4, <2>1
    <3>2. u[1] = p[1]
      BY <1>1, <3>1
    <3>3. Continues(frames, p[1]) \/ "discontinuity" \in a.flags
      BY <2>1 DEF ComesNext, p
    <3> QED BY <1>1, <2>1, <3>2, <3>3
  <2>2. CASE ~HasPartial(a) /\ w.discontinuity
    BY <1>1, <2>2
  <2>3. CASE ~HasPartial(a) /\ Continues(frames, At(client, start))
    <3>1. l + 1 = 1 /\ 1 \in 1 .. n
      BY <1>4, <2>3
    <3>2. u[1].client = client /\ u[1].position = start + 1 - 1
      BY <1>6, <3>1
    <3>3. u[1].position = start
      BY <1>4, <3>2
    <3> HIDE DEF start
    <3> QED BY <2>3, <3>2, <3>3 DEF Continues, Follows, At
  <2> QED BY <1>8, <2>1, <2>2, <2>3
<1>15. HasPartial(c.assembler)
  <2>1. c.assembler.pending \in Seq(Sample)
    BY <1>1 DEF WorkShape, Assembler
  <2>2. Len(c.assembler.pending) # 0
    BY <1>1, <1>4 DEF u
  <2> QED BY <2>1, <2>2, EmptySeq DEF HasPartial
<1>16. GoesBehind(frames, c.assembler, At(client, first + c.consumed))
  <2>1. u[l + n].client = client /\ u[l + n].position = start + n - 1
    BY <1>4, <1>6
  <2>2. first + c.consumed = (start + n - 1) + 1
    BY <1>1, <1>3, <1>4
  <2>3. c.assembler.pending[Len(c.assembler.pending)] = u[l + n]
    BY <1>1 DEF u
  <2> HIDE DEF start
  <2> QED BY <1>15, <2>1, <2>2, <2>3 DEF GoesBehind, Follows, At
<1>17. ComesNext(frames, c.assembler)
  <2>1. c.assembler.next_sequence_number = Len(frames) + 1
    BY <1>1 DEF ComesNext
  <2> QED BY <1>13, <1>14, <2>1 DEF ComesNext, u
<1> QED BY <1>13, <1>14, <1>16, <1>17 DEF c, u

\* A whole partial frame ends as a whole frame that comes next, and leaves
\* none behind (pcm_frame_assembler.cpp:101-121).
LEMMA EndedComesNext ==
    ASSUME NEW frames \in Seq(Frame), Chained(frames),
           NEW a \in Assembler, Len(a.pending) = FrameSamples, WholePartial(a),
           a.next_sequence_number = Len(frames) + 1,
           Continues(frames, a.pending[1]) \/ "discontinuity" \in a.flags,
           NEW s, Follows(a.pending[Len(a.pending)], s)
    PROVE  LET more == Append(frames, CompletedFrame(a))
           IN  /\ Chained(more) /\ ComesNext(more, NextFrame(a))
               /\ GoesBehind(more, NextFrame(a), s)
<1> DEFINE frame == CompletedFrame(a)
           n == Len(frames)
           more == Append(frames, frame)
<1>1. /\ frame.sequence_number = n + 1
      /\ frame.flags = a.flags \cup (IF a.all_silent THEN {"silence"} ELSE {})
      /\ frame.device_position = a.device_position
      /\ frame.samples = a.pending
      /\ frame \in Frame
  BY CompletedFrameIsFrame DEF CompletedFrame
<1>2. "silence" \in frame.flags <=> a.all_silent
  BY <1>1 DEF WholePartial
<1> HIDE DEF frame
<1>3. /\ n \in Nat /\ Len(more) = n + 1
      /\ more[n + 1] = frame /\ \A i \in 1 .. n : more[i] = frames[i]
  BY <1>1, LenProperties, AppendProperties
<1> HIDE DEF more, n
<1>4. WholeFrame(frame)
  <2>1. \A k \in 1 .. FrameSamples - 1 : Follows(frame.samples[k], frame.samples[k + 1])
    BY <1>1 DEF WholePartial
  <2>2. "silence" \in frame.flags <=> \A k \in 1 .. FrameSamples : frame.samples[k].silent
    <3>1. a.all_silent <=> \A k \in 1 .. Len(a.pending) : a.pending[k].silent
      BY Zenon DEF WholePartial
    <3> QED BY <1>1, <1>2, <3>1, Zenon
  <2>3. "timestamp_error" \notin frame.flags =>
          frame.device_position = frame.samples[1].position
    BY <1>1 DEF WholePartial
  <2>4. Len(frame.samples) = FrameSamples
    BY <1>1
  <2> QED BY <2>1, <2>2, <2>3, <2>4, Zenon DEF WholeFrame
<1>5. ASSUME NEW i \in 1 .. Len(more) PROVE more[i].sequence_number = i /\ WholeFrame(more[i])
  <2>1. CASE i \in 1 .. n
    BY <1>3, <2>1 DEF Chained, n
  <2>2. CASE i = n + 1
    BY <1>1, <1>3, <1>4, <2>2
  <2> QED BY <1>3, <2>1, <2>2
<1>6. ASSUME NEW i \in 1 .. Len(more) - 1
      PROVE  \/ Follows(more[i].samples[FrameSamples], more[i + 1].samples[1])
             \/ IsDiscontinuous(more[i + 1])
  <2>1. CASE i \in 1 .. n - 1
    <3>1. i \in 1 .. n /\ i + 1 \in 1 .. n
      BY <1>3, <2>1
    <3> QED BY <1>3, <2>1, <3>1 DEF Chained, n
  <2>2. CASE i = n
    <3>1. i \in 1 .. n /\ more[i] = frames[n] /\ more[i + 1] = frame
      BY <1>3, <2>2
    <3>2. frames # <<>>
      BY <1>3, <3>1, EmptySeq DEF n
    <3>3. Continues(frames, frame.samples[1]) \/ "discontinuity" \in frame.flags
      BY <1>1
    <3> QED BY <3>1, <3>2, <3>3 DEF Continues, IsDiscontinuous, n
  <2> QED BY <1>3, <2>1, <2>2
<1>7. Chained(more)
  BY <1>5, <1>6 DEF Chained
<1>8. NextFrame(a).pending = <<>> /\ NextFrame(a).next_sequence_number = n + 2
  <2>1. NextFrame(a).next_sequence_number = a.next_sequence_number + 1
    BY DEF NextFrame, ClearPartial, Assembler
  <2>2. a.next_sequence_number = n + 1
    BY DEF n
  <2> QED BY <1>3, <2>1, <2>2, CleanPartial
<1>9. ComesNext(more, NextFrame(a))
  BY <1>3, <1>8 DEF ComesNext, HasPartial
<1>10. GoesBehind(more, NextFrame(a), s)
  <2>1. more[Len(more)].samples[FrameSamples] = a.pending[Len(a.pending)]
    BY <1>1, <1>3
  <2> QED BY <1>8, <2>1 DEF GoesBehind, Continues, HasPartial
<1> QED BY <1>7, <1>9, <1>10 DEF more, frame

\* The work on a packet of this client and position, behind these frames.
Placed(frames, w, client, first) ==
    LET all == frames \o w.frames
    IN  /\ Chained(all) /\ ComesNext(all, w.assembler)
        /\ \/ w.discontinuity
           \/ GoesBehind(all, w.assembler, At(client, first + w.consumed))

\* A turn of the loop hides no gap.
LEMMA TurnPlaces ==
    ASSUME NEW packet, Acceptable(packet), NEW w, SoundWork(w, packet),
           w.consumed # packet.frame_count,
           NEW client, NEW first, ReadAt(packet, client, first),
           NEW frames \in Seq(Frame), Placed(frames, w, client, first)
    PROVE  Placed(frames, CopyChunk(w, packet), client, first)
<1> DEFINE c == Filled(w, packet)
           a == c.assembler
           v == CopyChunk(w, packet)
           all == frames \o w.frames
           next == At(client, first + c.consumed)
<1>1. v = EndFrame(c)
  BY DEF CopyChunk, Filled
<1>2. Chained(all) /\ ComesNext(all, w.assembler)
  BY DEF Placed
<1>3. w.frames \in Seq(Frame) /\ all \in Seq(Frame)
  <2>1. w.frames \in Seq(Frame)
    BY DEF SoundWork, WorkShape
  <2> QED BY <2>1, ConcatProperties
<1>4. \/ w.discontinuity
      \/ GoesBehind(all, w.assembler, At(client, first + w.consumed))
  BY DEF Placed
<1> HIDE DEF all
<1>5. /\ ComesNext(all, a) /\ WholePartial(a)
      /\ Continues(all, a.pending[1]) \/ "discontinuity" \in a.flags
      /\ GoesBehind(all, a, next)
  BY <1>2, <1>4, FilledComesNext
<1>6. /\ c \in WorkShape(packet) /\ c.frames = w.frames
      /\ Len(a.pending) = Len(w.assembler.pending) + Copied(w, packet)
      /\ Copied(w, packet) \in 1 .. packet.frame_count
  BY ChunkFills
<1> HIDE DEF c, v
<1>7. CASE Len(a.pending) # FrameSamples
  <2>1. v = c
    BY <1>1, <1>7 DEF EndFrame
  <2>2. frames \o v.frames = all
    BY <1>6, <2>1 DEF all
  <2> QED BY <1>2, <1>5, <2>1, <2>2 DEF Placed, v
<1>8. CASE Len(a.pending) = FrameSamples
  <2> DEFINE more == Append(all, CompletedFrame(a))
  <2>1. v.frames = Append(w.frames, CompletedFrame(a)) /\ v.assembler = NextFrame(a)
        /\ v.consumed = c.consumed
    BY <1>1, <1>6, <1>8 DEF EndFrame, WorkShape
  <2>2. a \in Assembler
    BY <1>6 DEF WorkShape
  <2>3. CompletedFrame(a) \in Frame
    BY <2>2, CompletedFrameIsFrame
  <2>4. frames \o v.frames = more
    <3> DEFINE f == CompletedFrame(a)
               g == w.frames
    <3>1. f \in Frame /\ g \in Seq(Frame)
      BY <1>3, <2>3
    <3> HIDE DEF f, g
    <3>2. frames \o Append(g, f) = Append(frames \o g, f)
      BY <3>1
    <3> QED BY <2>1, <3>2 DEF f, g, all
  <2>5. HasPartial(a)
    <3>1. a.pending \in Seq(Sample)
      BY <2>2 DEF Assembler
    <3> QED BY <1>8, <3>1, EmptySeq, FrameSamplesAssumption DEF HasPartial
  <2>6. Follows(a.pending[Len(a.pending)], next) /\ a.next_sequence_number = Len(all) + 1
    BY <1>5, <2>5 DEF GoesBehind, ComesNext
  <2>7. /\ Chained(more) /\ ComesNext(more, NextFrame(a))
        /\ GoesBehind(more, NextFrame(a), next)
    BY <1>2, <1>3, <1>5, <1>8, <2>2, <2>6, EndedComesNext
  <2> HIDE DEF more
  <2> QED BY <2>1, <2>4, <2>7 DEF Placed, v
<1> QED BY <1>7, <1>8

\* accept_packet hides no gap: the frames it hands out are whole and come
\* next, and the packet behind this one goes behind what it leaves.
LEMMA PacketPlaces ==
    ASSUME NEW packet, Acceptable(packet), NEW a, SoundAssembler(a),
           NEW client, NEW first, ReadAt(packet, client, first),
           NEW frames \in Seq(Frame), Chained(frames), ComesNext(frames, a),
           \/ "discontinuity" \in packet.flags
           \/ GoesBehind(frames, a, At(client, first))
    PROVE  LET done == AcceptPacket(a, packet)
               all  == frames \o done.frames
           IN  /\ Chained(all) /\ ComesNext(all, done.assembler)
               /\ GoesBehind(all, done.assembler, At(client, first + packet.frame_count))
<1> DEFINE open == OpenPacket(a, packet)
           done == AcceptPacket(a, packet)
           Good == {w \in WorkShape(packet) :
                      SoundWork(w, packet) /\ Placed(frames, w, client, first)}
<1>1. SoundWork(open, packet) /\ open.consumed = 0 /\ open.frames = <<>>
  BY OpenPacketIsSound
<1>2. packet.frame_count \in Nat \ {0} /\ first \in Nat
  BY DEF Acceptable, ReadAt
<1>3. Placed(frames, open, client, first)
  <2>1. frames \o open.frames = frames
    BY <1>1
  <2>2. first + open.consumed = first
    BY <1>1, <1>2
  <2>3. CASE "discontinuity" \in packet.flags
    <3>1. open.discontinuity /\ open.assembler =
            IF DropsPartial(a, packet) THEN ClearPartial(a) ELSE a
      BY <2>3 DEF OpenPacket
    <3>2. ComesNext(frames, open.assembler)
      <4>1. CASE DropsPartial(a, packet)
        <5>1. /\ ClearPartial(a).pending = <<>>
              /\ ClearPartial(a).next_sequence_number = a.next_sequence_number
          BY DEF ClearPartial, SoundAssembler, Assembler
        <5> QED BY <3>1, <4>1, <5>1 DEF ComesNext, HasPartial
      <4>2. CASE ~DropsPartial(a, packet)
        BY <3>1, <4>2
      <4> QED BY <4>1, <4>2
    <3> QED BY <2>1, <3>1, <3>2 DEF Placed
  <2>4. CASE "discontinuity" \notin packet.flags
    <3>1. open.assembler = a
      BY <2>4 DEF OpenPacket, DropsPartial
    <3> QED BY <2>1, <2>2, <2>4, <3>1 DEF Placed
  <2> QED BY <2>3, <2>4
<1> HIDE DEF open
<1>4. open \in Good
  BY <1>1, <1>3 DEF SoundWork
<1>5. ASSUME NEW w \in Good
      PROVE  /\ w.consumed \in 0 .. packet.frame_count
             /\ w.consumed # packet.frame_count =>
                  /\ CopyChunk(w, packet) \in Good
                  /\ CopyChunk(w, packet).consumed > w.consumed
  <2>1. w.consumed \in 0 .. packet.frame_count
    BY DEF WorkShape
  <2>2. ASSUME w.consumed # packet.frame_count
        PROVE  /\ CopyChunk(w, packet) \in Good
               /\ CopyChunk(w, packet).consumed > w.consumed
    <3> DEFINE v == CopyChunk(w, packet)
    <3>1. SoundWork(v, packet) /\ v.consumed > w.consumed
      BY <2>2, CopyChunkKeeps
    <3>2. Placed(frames, v, client, first)
      BY <2>2, TurnPlaces
    <3> HIDE DEF v
    <3>3. v \in WorkShape(packet)
      BY <3>1 DEF SoundWork
    <3>4. v \in Good
      BY <3>1, <3>2, <3>3
    <3> QED BY <3>1, <3>4 DEF v
  <2> QED BY <2>1, <2>2
<1>6. done \in Good /\ done.consumed = packet.frame_count
  <2> HIDE DEF Good
  <2> QED BY <1>2, <1>4, <1>5, AcceptInduction DEF open
<1> HIDE DEF done
<1>7. SoundWork(done, packet) /\ Placed(frames, done, client, first)
  BY <1>6
<1>8. ~done.discontinuity
  BY <1>2, <1>6, <1>7 DEF SoundWork
<1> QED BY <1>6, <1>7, <1>8 DEF Placed, done

\* The packet the loop makes of what Windows hands out was read from the
\* client at its position, behind what Windows skipped (lines 741-770).
LEMMA CapturedIsRead ==
    ASSUME IInv, step = "draining", NEW p \in Packets, PacketIsGood(p)
    PROVE  ReadAt(Captured(p), audio.client, audio.position + p.skipped)
<1> DEFINE packet == Captured(p)
           first == audio.position + p.skipped
           flags == NormalizedFlags(p)
           marked == [p EXCEPT !.flags = flags]
           samples == Normalized(marked, audio.client, first)
<1>1. p \in EndpointPacket
  BY CaptureAssumption
<1>2. first \in Nat
  BY <1>1 DEF IInv, ControlTyped, AudioType, EndpointPacket
<1>3. packet = [frame_count |-> p.frame_count, flags |-> flags, data |-> p.data,
                device_position |-> first + IF "timestamp_error" \in flags THEN 1 ELSE 0,
                samples |-> samples]
  BY DEF Captured
<1>4. /\ packet.frame_count = p.frame_count /\ packet.samples = samples
      /\ packet.flags = flags
      /\ packet.device_position = first + IF "timestamp_error" \in flags THEN 1 ELSE 0
  BY <1>3
<1>5. marked.frame_count = p.frame_count /\ marked.flags = flags
  BY <1>1 DEF EndpointPacket
<1> HIDE DEF first, flags, marked, packet
<1>6. ASSUME NEW i \in 1 .. p.frame_count
      PROVE  /\ samples[i].client = audio.client
             /\ samples[i].position = first + i - 1
             /\ samples[i].silent <=> "silence" \in flags
  <2> DEFINE silence == "silence" \in flags
  <2>1. samples[i] = [client |-> audio.client, position |-> first + i - 1,
                      silent |-> silence]
    BY <1>5 DEF Normalized
  <2> HIDE DEF samples, silence
  <2>2. samples[i].silent <=> silence
    <3>1. samples[i].silent = silence
      BY <2>1
    <3> QED BY <3>1, Zenon
  <2> QED BY <2>1, <2>2 DEF silence
<1>7. "timestamp_error" \notin packet.flags => packet.device_position = first
  BY <1>2, <1>4
<1> HIDE DEF samples
<1>8. \A i \in 1 .. packet.frame_count :
        /\ packet.samples[i].client = audio.client
        /\ packet.samples[i].position = first + i - 1
        /\ packet.samples[i].silent <=> "silence" \in packet.flags
  BY <1>4, <1>6, Zenon
<1> QED BY <1>2, <1>7, <1>8, Zenon DEF ReadAt, packet, first

\* Nothing is claimed of a capture that does not run but its frames.
LEMMA StoppedStream ==
    ASSUME Stream, lifecycle' # "running", delivered' \in {delivered, <<>>}
    PROVE  Stream'
BY DEF Stream, Chained

\* A partial frame may be dropped, and the clients exchanged, where the
\* controller then owes a discontinuity or has not finished.
LEMMA RecoveringStream ==
    ASSUME StreamInv, Stream, UNCHANGED <<lifecycle, delivered>>,
           assembler' \in {assembler, DiscardPartial(assembler)},
           recovery'.state # "stable" \/ recovery'.discontinuity_pending
    PROVE  Stream'
<1>1. assembler \in Assembler
  BY DEF StreamInv, StreamTyped, SoundAssembler
<1>2. ASSUME NEW frames, ComesNext(frames, assembler)
      PROVE  ComesNext(frames, assembler')
  <2>1. DiscardPartial(assembler).pending = <<>>
    BY <1>1 DEF DiscardPartial, ClearPartial, Assembler
  <2>2. DiscardPartial(assembler).next_sequence_number = assembler.next_sequence_number
    BY <1>1 DEF DiscardPartial, ClearPartial, Assembler
  <2>3. CASE assembler' = DiscardPartial(assembler)
    BY <1>2, <2>1, <2>2, <2>3 DEF ComesNext, HasPartial
  <2> QED BY <1>2, <2>3
<1> QED BY <1>2 DEF Stream

\* A step that leaves frames, controller and clients alone, as seen from a
\* capture that runs.
LEMMA UntouchedStream ==
    ASSUME Stream, UNCHANGED <<lifecycle, delivered>>,
           lifecycle = "running" => UNCHANGED <<assembler, recovery, audio>>
    PROVE  Stream'
BY DEF Stream

\* Taking the flags opens a recovery or touches nothing.
LEMMA RecoverKeepsStream ==
    ASSUME StreamInv, Stream, NEW flags \in SUBSET Triggers, NEW next,
           RecoverIfRequested(flags, next)
    PROVE  Stream'
<1>1. CASE flags = {}
  BY <1>1, UntouchedStream DEF RecoverIfRequested
<1>2. CASE flags # {}
  <2>1. recovery' = Requested(recovery, flags) /\ UNCHANGED <<lifecycle, delivered, assembler>>
    BY <1>2 DEF RecoverIfRequested
  <2>2. recovery'.state # "stable"
    <3>1. recovery \in Recovery
      BY DEF StreamInv, StreamTyped
    <3> QED BY <2>1, <3>1 DEF Requested, Recovery
  <2> QED BY <2>1, <2>2, RecoveringStream
<1> QED BY <1>1, <1>2

\* start() begins a run without frames (lines 653-680).
LEMMA StartKeepsStream ==
    ASSUME IInv, Start
    PROVE  Stream'
<1>1. assembler \in Assembler
  BY DEF IInv, StreamInv, StreamTyped, SoundAssembler
<1>2. /\ delivered' = <<>> /\ assembler' = Reset(assembler)
  BY DEF Start, ResetRunState
<1>3. Reset(assembler).pending = <<>> /\ Reset(assembler).next_sequence_number = 1
  BY <1>1 DEF Reset, ClearPartial, Assembler
<1>4. Len(delivered') = 0
  BY <1>2
<1> QED BY <1>2, <1>3, <1>4
        DEF Stream, Chained, ComesNext, GoesBehind, Continues, HasPartial

\* A packet goes behind what is held, or is discontinuous (lines 748-820).
LEMMA DrainPacketKeepsStream ==
    ASSUME IInv, Stream, NEW p \in Packets, DrainPacket(p)
    PROVE  Stream'
<1> DEFINE packet == Captured(p)
           done == AcceptPacket(assembler, packet)
           all == delivered \o done.frames
           first == audio.position + p.skipped
<1>1. /\ step = "draining" /\ PacketIsGood(p)
      /\ assembler' = done.assembler
      /\ delivered' = all
      /\ recovery' = ConsumedDiscontinuity(recovery)
      /\ audio' = [audio EXCEPT !.position = @ + p.skipped + p.frame_count]
      /\ UNCHANGED lifecycle
  BY DEF DrainPacket
<1>2. /\ Acceptable(packet) /\ packet.frame_count = p.frame_count
      /\ recovery.discontinuity_pending => "discontinuity" \in packet.flags
  BY <1>1, CapturedIsAcceptable
<1>3. ReadAt(packet, audio.client, first)
  BY <1>1, CapturedIsRead
<1>4. p \in EndpointPacket /\ (p.skipped > 0 => "discontinuity" \in p.flags)
  BY CaptureAssumption
<1>5. p.flags \subseteq packet.flags
  BY DEF Captured, NormalizedFlags
<1> HIDE DEF packet
<1>6. SoundAssembler(assembler) /\ delivered \in Seq(Frame)
  BY DEF IInv, StreamInv, StreamTyped
<1>7. lifecycle = "running" /\ recovery.state = "stable"
  BY <1>1 DEF IInv, Control, ControllerState
<1>8. /\ p.skipped \in Nat /\ p.frame_count \in Nat
      /\ audio \in AudioType /\ audio.position \in Nat /\ first \in Nat
  BY <1>4 DEF IInv, ControlTyped, AudioType, EndpointPacket
<1>9. Chained(delivered) /\ ComesNext(delivered, assembler)
  BY <1>7 DEF Stream
<1>10. \/ "discontinuity" \in packet.flags
       \/ GoesBehind(delivered, assembler, At(audio.client, first))
  <2>1. CASE recovery.discontinuity_pending \/ p.skipped > 0
    BY <1>2, <1>4, <1>5, <2>1
  <2>2. CASE ~recovery.discontinuity_pending /\ p.skipped = 0
    <3>1. first = audio.position
      BY <1>8, <2>2
    <3> QED BY <1>7, <2>2, <3>1 DEF Stream
  <2> QED BY <1>8, <2>1, <2>2
<1> HIDE DEF first
<1>11. /\ Chained(all) /\ ComesNext(all, done.assembler)
       /\ GoesBehind(all, done.assembler, At(audio.client, first + packet.frame_count))
  BY <1>2, <1>3, <1>6, <1>9, <1>10, PacketPlaces
<1>12. audio'.client = audio.client /\ audio'.position = first + packet.frame_count
  BY <1>1, <1>2, <1>8 DEF AudioType, first
<1> HIDE DEF all, done
<1> QED BY <1>1, <1>11, <1>12 DEF Stream

\* Every step of the capture keeps its stream.
LEMMA NextKeepsStream ==
    ASSUME IInv, Stream, [Next]_vars
    PROVE  Stream'
<1>1. StreamInv /\ pending_recovery_flags \subseteq Triggers
  BY DEF IInv, ControlTyped
<1>2. CASE UNCHANGED vars
  BY <1>2, UntouchedStream DEF vars, stream_vars
<1>3. ASSUME Fail PROVE Stream'
  BY <1>3, StoppedStream DEF Fail
<1>4. ASSUME NEW device \in Endpoints, ChangeDefaultDevice(device) PROVE Stream'
  BY <1>4, UntouchedStream DEF ChangeDefaultDevice, stream_vars
<1>5. CASE OnDefaultDeviceChanged \/ SimulateInvalidation \/ NothingToDrain
  BY <1>5, UntouchedStream
     DEF OnDefaultDeviceChanged, SimulateInvalidation, NothingToDrain, stream_vars
<1>6. CASE Initialize
  BY <1>6, UntouchedStream DEF Initialize, stream_vars
<1>7. CASE FindEndpoint
  <2>1. UNCHANGED <<lifecycle, recovery, assembler, delivered>>
        /\ step \in {"configuring", "reconfiguring"}
    BY <1>7 DEF FindEndpoint, stream_vars
  <2>2. CASE step = "configuring"
    <3>1. lifecycle # "running"
      BY <2>2 DEF IInv, Control
    <3> QED BY <2>1, <3>1, UntouchedStream
  <2>3. CASE step = "reconfiguring"
    <3>1. recovery.state = "restarting"
      BY <2>3 DEF IInv, Control, ControllerState
    <3> QED BY <1>1, <2>1, <3>1, RecoveringStream
  <2> QED BY <2>1, <2>2, <2>3
<1>8. CASE Prepare
  BY <1>8, StoppedStream DEF Prepare, stream_vars
<1>9. CASE InitializeFails \/ StartUnsupported \/ StopFails \/ AttemptUnsupported
  BY <1>3, <1>9 DEF InitializeFails, StartUnsupported, StopFails, AttemptUnsupported
<1>10. ASSUME NEW operation \in Operations, CallOutOfOrder(operation) PROVE Stream'
  BY <1>3, <1>10 DEF CallOutOfOrder
<1>11. CASE Start
  BY <1>11, StartKeepsStream
<1>12. CASE StartFails \/ Stop
  BY <1>12, StoppedStream DEF StartFails, Stop, ResetRunState
<1>13. CASE BeginAttempt
  <2>1. CASE recovery'.state = "failed"
    BY <1>3, <1>13, <2>1 DEF BeginAttempt
  <2>2. CASE recovery'.state # "failed"
    <3>1. assembler' = DiscardPartial(assembler) /\ UNCHANGED <<lifecycle, delivered>>
      BY <1>13, <2>2 DEF BeginAttempt
    <3>2. recovery \in Recovery /\ RestartsHold(recovery) /\ recovery.state = "restart_pending"
      BY <1>1, <1>13 DEF BeginAttempt, IInv, Control, ControllerState, StreamInv, StreamTyped
    <3>3. recovery'.state \in {"restarting", "failed"}
      <4>1. recovery' = BegunAttempt(recovery)
        BY <1>13 DEF BeginAttempt
      <4> QED BY <3>2, <4>1, BegunAttemptHolds
    <3> QED BY <1>1, <3>1, <3>3, RecoveringStream
  <2> QED BY <2>1, <2>2
<1>14. CASE AttemptFails
  <2>1. CASE recovery'.state = "restart_pending"
    <3>1. UNCHANGED <<lifecycle, assembler, delivered>>
      BY <1>14, <2>1 DEF AttemptFails
    <3> QED BY <1>1, <2>1, <3>1, RecoveringStream
  <2>2. CASE recovery'.state # "restart_pending"
    BY <1>3, <1>14, <2>2 DEF AttemptFails
  <2> QED BY <2>1, <2>2
<1>15. CASE Restart
  <2>1. /\ recovery' = CompletedSuccess(recovery)
        /\ UNCHANGED <<lifecycle, assembler, delivered>>
    BY <1>15 DEF Restart
  <2>2. recovery \in Recovery
    BY <1>1 DEF StreamInv, StreamTyped
  <2>3. recovery'.discontinuity_pending
    BY <2>1, <2>2 DEF CompletedSuccess, Recovery
  <2> QED BY <1>1, <2>1, <2>3, RecoveringStream
<1>16. CASE DrainAvailable
  BY <1>1, <1>16, RecoverKeepsStream DEF DrainAvailable
<1>17. ASSUME NEW invalidated \in BOOLEAN, CaptureCallFails(invalidated) PROVE Stream'
  <2>1. CASE invalidated
    <3>1. RecoverIfRequested(pending_recovery_flags \cup {"device_invalidated"}, "outside")
      BY <1>17, <2>1 DEF CaptureCallFails
    <3>2. pending_recovery_flags \cup {"device_invalidated"} \in SUBSET Triggers
      BY <1>1 DEF Triggers
    <3> QED BY <1>1, <3>1, <3>2, RecoverKeepsStream
  <2>2. CASE ~invalidated
    BY <1>3, <1>17, <2>2 DEF CaptureCallFails
  <2> QED BY <2>1, <2>2
<1>18. ASSUME NEW p \in Packets, BadPacket(p) \/ DrainPacket(p) PROVE Stream'
  <2>1. CASE BadPacket(p)
    BY <1>3, <2>1 DEF BadPacket
  <2>2. CASE DrainPacket(p)
    BY <2>2, DrainPacketKeepsStream
  <2> QED BY <1>18, <2>1, <2>2
<1> QED BY <1>2, <1>4, <1>5, <1>6, <1>7, <1>8, <1>9, <1>10, <1>11, <1>12, <1>13, <1>14,
           <1>15, <1>16, <1>17, <1>18 DEF Next, CaptureStep

\* What is pending comes next, and what is read goes behind it or is marked,
\* in every reachable state.
THEOREM StreamGoesOn == Spec => []Stream
<1>1. Init => Stream
  BY DEF Init, Stream, Chained
<1>2. IInv /\ Stream /\ [Next]_vars => Stream'
  BY NextKeepsStream
<1> QED BY <1>1, <1>2, Invariance, PTL DEF Spec

\* The frames of a run are numbered without a break, and one that does not
\* start where the one before ended is marked discontinuous, whether Windows,
\* a recovery or a dropped partial frame made the gap (pcm_frame_assembler.cpp:
\* 53-121, wasapi_loopback_capture.cpp:748-820).
THEOREM NoGapIsHidden == Spec => []GapsAreAnnounced
<1>1. Stream => GapsAreAnnounced
  BY DEF Stream, Chained, GapsAreAnnounced
<1> QED BY <1>1, StreamGoesOn, PTL

\* Every frame is consecutive samples of one client and is marked for what it
\* holds, whatever the packets it was cut from (pcm_frame_assembler.cpp:66-121).
THEOREM CompletedFramesAreWhole == Spec => []FramesAreWhole
<1>1. Stream => FramesAreWhole
  BY Zenon DEF Stream, Chained, WholeFrame, FramesAreWhole
<1> QED BY <1>1, StreamGoesOn, PTL
=============================================================================
