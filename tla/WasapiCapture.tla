---------------------------- MODULE WasapiCapture ----------------------------
(***************************************************************************)
(* The sender's loopback capture, apps/windows-sender/src/                 *)
(* wasapi_loopback_capture.cpp with the lifecycle of native/capture.       *)
(*                                                                         *)
(* One thread calls initialize, start, drain_available and stop.  Another, *)
(* of Windows, runs OnDefaultDeviceChanged.  They share only the atomic    *)
(* pending_recovery_flags, but Windows may move the default device between *)
(* any two calls of the capture thread into it, so a call is cut into      *)
(* steps where it reads the flags or asks for the default device:          *)
(*                                                                         *)
(*   step = "outside"      no call is running                              *)
(*          "configuring"  initialize, before GetDefaultAudioEndpoint      *)
(*          "preparing"    initialize, after it                            *)
(*          "restarting"   recover_if_requested, before an attempt         *)
(*          "reconfiguring", "activating"                                  *)
(*                         the attempt, around GetDefaultAudioEndpoint     *)
(*          "draining"     drain_available, in its loop over packets       *)
(*                                                                         *)
(* Error codes, names and the counters no property needs are left out.     *)
(***************************************************************************)
EXTENDS PcmFrameAssembler, CaptureRecovery, FiniteSets

\* What GetBuffer hands out: the length GetNextPacketSize announced for it,
\* its own, its flags, the samples of a gap before it, and its data.
EndpointPacket ==
    [announced : Nat, frame_count : Nat, flags : SUBSET (KnownFlags \cup {"unknown"}),
     skipped : Nat, data : {"finite", "non_finite", "missing"}]

CONSTANTS
    Endpoints,            \* the render devices
    NoEndpoint,
    SupportedEndpoints,   \* those mixing 48 kHz stereo float
    EndpointBuffer,       \* endpoint_buffer_frames
    Packets,              \* what GetBuffer may hand out
    MaxPosition,          \* bound: samples drained from one audio client
    MaxFaults,            \* bound: failing or simulated-failing calls
    MaxChanges            \* bound: changes of the default device

ASSUME CaptureAssumption ==
    /\ NoEndpoint \notin Endpoints
    /\ SupportedEndpoints \subseteq Endpoints
    /\ EndpointBuffer \in Nat
    /\ MaxPosition \in Nat /\ MaxFaults \in Nat /\ MaxChanges \in Nat
    /\ Packets \subseteq EndpointPacket
    \* Windows marks every gap in what it hands out.
    /\ \A p \in Packets : p.skipped > 0 => "discontinuity" \in p.flags

VARIABLES
    lifecycle,
    recovery,
    assembler,
    counters,
    recovery_frame_pending,
    audio,                    \* the endpoint and its clients, if any
    pending_recovery_flags,   \* shared with the notification thread
    notification_registered,
    step,
    resume,                   \* the step after a successful recovery
    default_endpoint,         \* Windows' default render device
    notices,                  \* notifications not yet delivered
    clients,                  \* audio clients activated so far
    disturbances,             \* bounds the environment
    delivered                 \* history: the frames of this run

device_vars == <<default_endpoint, notices, disturbances>>
stream_vars == <<recovery, assembler, counters, recovery_frame_pending, delivered>>
vars == <<lifecycle, stream_vars, audio, pending_recovery_flags,
          notification_registered, step, resume, clients, device_vars>>

NoAudio == [endpoint |-> NoEndpoint, client |-> 0, started |-> FALSE, position |-> 0]

Counts == [frames_drained : Nat, completed_pcm_frames : Nat,
           discontinuity_pcm_frames : Nat, dropped_partial_pcm_frames : Nat,
           recovery_discontinuity_pcm_frames : Nat]

NoCounts == [frames_drained |-> 0, completed_pcm_frames |-> 0,
             discontinuity_pcm_frames |-> 0, dropped_partial_pcm_frames |-> 0,
             recovery_discontinuity_pcm_frames |-> 0]

Init ==
    /\ lifecycle = "idle"
    /\ recovery = NewRecovery
    /\ assembler = NewAssembler
    /\ counters = NoCounts
    /\ recovery_frame_pending = FALSE
    /\ audio = NoAudio
    /\ pending_recovery_flags = {}
    /\ notification_registered = FALSE
    /\ step = "outside" /\ resume = "outside"
    /\ default_endpoint \in Endpoints
    /\ notices = 0
    /\ clients = 0
    /\ disturbances = [faults |-> 0, changes |-> 0]
    /\ delivered = <<>>

---------------------------------------------------------------------------
(* Windows.                                                                *)

\* The user picks another device.  A registered client hears of it, later.
ChangeDefaultDevice(device) ==
    /\ disturbances.changes < MaxChanges
    /\ device # default_endpoint
    /\ default_endpoint' = device
    /\ notices' = notices + IF notification_registered THEN 1 ELSE 0
    /\ disturbances' = [disturbances EXCEPT !.changes = @ + 1]
    /\ UNCHANGED <<lifecycle, stream_vars, audio, pending_recovery_flags,
                   notification_registered, step, resume, clients>>

IgnoreDefaultDeviceChanged ==                                             \* slip
    /\ notices > 0
    /\ notices' = notices - 1
    /\ UNCHANGED <<lifecycle, stream_vars, audio, notification_registered, step,
                   pending_recovery_flags, resume, clients, default_endpoint,
                   disturbances>>

OnDefaultDeviceChanged ==
    /\ notices > 0
    /\ notices' = notices - 1
    /\ pending_recovery_flags' = pending_recovery_flags \cup {"default_device_changed"}
    /\ UNCHANGED <<lifecycle, stream_vars, audio, notification_registered, step,
                   resume, clients, default_endpoint, disturbances>>

\* A call into Windows fails.
Fault ==
    /\ disturbances.faults < MaxFaults
    /\ disturbances' = [disturbances EXCEPT !.faults = @ + 1]
    /\ UNCHANGED <<default_endpoint, notices>>

---------------------------------------------------------------------------
(* Parts of the calls.                                                     *)

DropPartial(c, a) ==
    [c EXCEPT !.dropped_partial_pcm_frames = @ + IF HasPartial(a) THEN 1 ELSE 0]

FailHoldingAudio ==                                                       \* slip
    /\ lifecycle' = "failed"
    /\ counters' = DropPartial(counters, assembler)
    /\ assembler' = Reset(assembler)
    /\ step' = "outside"
    /\ UNCHANGED <<audio, resume, recovery_frame_pending, delivered, clients>>

\* fail(): every caller returns at once.
Fail ==
    /\ lifecycle' = "failed"
    /\ audio' = NoAudio
    /\ counters' = DropPartial(counters, assembler)
    /\ assembler' = Reset(assembler)
    /\ step' = "outside"
    /\ UNCHANGED <<resume, recovery_frame_pending, delivered, clients>>

\* recover_if_requested() up to its loop, with these flags pending.  The
\* controller never refuses: it has failed only where the lifecycle has.
RecoverIfRequested(flags, next) ==
    /\ pending_recovery_flags' = {}
    /\ IF flags = {}
         THEN step' = next /\ UNCHANGED <<recovery, resume>>
         ELSE /\ recovery' = Requested(recovery, flags)
              /\ step' = "restarting" /\ resume' = next
    /\ UNCHANGED <<lifecycle, assembler, counters, recovery_frame_pending,
                   delivered, audio, notification_registered, clients>>

\* configure_current_endpoint() releases what it held, asks for the default
\* device, and then activates clients on it.
Found(device) == [NoAudio EXCEPT !.endpoint = device]

Activated(started) ==
    [audio EXCEPT !.client = clients + 1, !.started = started, !.position = 1]

NormalizationSupported == audio.endpoint \in SupportedEndpoints

---------------------------------------------------------------------------
(* initialize().                                                           *)

\* COM, the enumerator and the notification client come first.
Initialize ==
    /\ step = "outside" /\ lifecycle = "idle"
    /\ notification_registered' = TRUE
    /\ step' = "configuring"
    /\ UNCHANGED <<lifecycle, stream_vars, audio, pending_recovery_flags, resume,
                   clients, device_vars>>

\* GetDefaultAudioEndpoint, here and in an attempt to recover.
FindEndpoint ==
    /\ step \in {"configuring", "reconfiguring"}
    /\ audio' = Found(default_endpoint)
    /\ step' = IF step = "configuring" THEN "preparing" ELSE "activating"
    /\ UNCHANGED <<lifecycle, stream_vars, pending_recovery_flags, resume,
                   notification_registered, clients, device_vars>>

Prepare ==
    /\ step = "preparing"
    /\ audio' = Activated(FALSE)
    /\ clients' = clients + 1
    /\ lifecycle' = "ready"
    /\ step' = "outside"
    /\ UNCHANGED <<stream_vars, pending_recovery_flags, notification_registered,
                   resume, device_vars>>

InitializeFails ==
    /\ \/ step = "outside" /\ lifecycle = "idle"
       \/ step \in {"configuring", "preparing"}
    /\ Fault /\ Fail
    /\ UNCHANGED <<recovery, pending_recovery_flags, notification_registered>>

---------------------------------------------------------------------------
(* start() and stop().                                                     *)

\* reset_run_state().  The pending flags outlive it.
ResetRunState ==
    /\ assembler' = Reset(assembler)
    /\ recovery' = NewRecovery
    /\ recovery_frame_pending' = FALSE
    /\ counters' = NoCounts
    /\ delivered' = <<>>

Start ==
    /\ step = "outside" /\ lifecycle = "ready" /\ NormalizationSupported
    /\ ResetRunState
    /\ audio' = [audio EXCEPT !.started = TRUE]
    /\ lifecycle' = "running"
    /\ UNCHANGED <<pending_recovery_flags, notification_registered, step, resume,
                   clients, device_vars>>

StartUnsupported ==
    /\ step = "outside" /\ lifecycle = "ready" /\ ~NormalizationSupported
    /\ Fail
    /\ UNCHANGED <<recovery, pending_recovery_flags, notification_registered, device_vars>>

StartFails ==
    /\ step = "outside" /\ lifecycle = "ready" /\ NormalizationSupported
    /\ Fault
    /\ ResetRunState
    /\ lifecycle' = "failed"
    /\ audio' = NoAudio
    /\ UNCHANGED <<pending_recovery_flags, notification_registered, step, resume, clients>>

Stop ==
    /\ step = "outside" /\ lifecycle = "running"
    /\ audio' = [audio EXCEPT !.started = FALSE]
    /\ counters' = DropPartial(counters, assembler)
    /\ assembler' = Reset(assembler)
    /\ lifecycle' = "ready"
    /\ UNCHANGED <<recovery, recovery_frame_pending, delivered, pending_recovery_flags,
                   notification_registered, step, resume, clients, device_vars>>

StopFails ==
    /\ step = "outside" /\ lifecycle = "running"
    /\ Fault /\ Fail
    /\ UNCHANGED <<recovery, pending_recovery_flags, notification_registered>>

\* Any call in a state it is not meant for fails the capture, even a
\* running one.
Operations == {"initialize", "start", "drain_available", "stop",
               "request_simulated_device_invalidation_for_probe"}

RequiredState(operation) ==
    CASE operation = "initialize" -> "idle"
      [] operation = "start"      -> "ready"
      [] OTHER                    -> "running"

CallOutOfOrder(operation) ==
    /\ step = "outside" /\ lifecycle # RequiredState(operation)
    /\ Fail
    /\ UNCHANGED <<recovery, pending_recovery_flags, notification_registered, device_vars>>

---------------------------------------------------------------------------
(* Recovery.                                                               *)

\* request_simulated_device_invalidation_for_probe().
SimulateInvalidation ==
    /\ step = "outside" /\ lifecycle = "running"
    /\ Fault
    /\ pending_recovery_flags' = pending_recovery_flags \cup {"device_invalidated"}
    /\ UNCHANGED <<lifecycle, stream_vars, audio, notification_registered, step,
                   resume, clients>>

BeginAttemptUncounted ==                                                  \* slip
    /\ step = "restarting"
    /\ recovery' = BegunAttempt(recovery)
    /\ assembler' = DiscardPartial(assembler)
    /\ audio' = NoAudio
    /\ step' = "reconfiguring"
    /\ UNCHANGED <<lifecycle, resume, recovery_frame_pending, delivered, clients, counters,
                   pending_recovery_flags, notification_registered, device_vars>>

BeginAttempt ==
    /\ step = "restarting"
    /\ recovery' = BegunAttempt(recovery)
    /\ IF recovery'.state = "failed" THEN Fail
       ELSE /\ counters' = DropPartial(counters, assembler)
            /\ assembler' = DiscardPartial(assembler)
            /\ audio' = NoAudio
            /\ step' = "reconfiguring"
            /\ UNCHANGED <<lifecycle, resume, recovery_frame_pending, delivered, clients>>
    /\ UNCHANGED <<pending_recovery_flags, notification_registered, device_vars>>

\* Another attempt, 50 ms later, if the controller grants one.
AttemptFails ==
    /\ step \in {"reconfiguring", "activating"}
    /\ Fault
    /\ recovery' = CompletedFailure(recovery, TRUE)
    /\ IF recovery'.state = "restart_pending"
         THEN /\ step' = "restarting" /\ audio' = NoAudio
              /\ UNCHANGED <<lifecycle, resume, assembler, counters,
                             recovery_frame_pending, delivered, clients>>
         ELSE Fail
    /\ UNCHANGED <<pending_recovery_flags, notification_registered>>

\* No use in trying again: the device has the wrong format.
AttemptUnsupported ==
    /\ step = "activating" /\ ~NormalizationSupported
    /\ recovery' = CompletedFailure(recovery, FALSE)
    /\ Fail
    /\ UNCHANGED <<pending_recovery_flags, notification_registered, device_vars>>

RestartForgettingFlags ==                                                 \* slip
    /\ step = "activating" /\ NormalizationSupported
    /\ audio' = Activated(TRUE)
    /\ clients' = clients + 1
    /\ recovery' = CompletedSuccess(recovery)
    /\ recovery_frame_pending' = TRUE
    /\ pending_recovery_flags' = {}
    /\ step' = resume
    /\ UNCHANGED <<lifecycle, assembler, counters, delivered, resume,
                   notification_registered, device_vars>>

Restart ==
    /\ step = "activating" /\ NormalizationSupported
    /\ audio' = Activated(TRUE)
    /\ clients' = clients + 1
    /\ recovery' = CompletedSuccess(recovery)
    /\ recovery_frame_pending' = TRUE
    /\ step' = resume
    /\ UNCHANGED <<lifecycle, assembler, counters, delivered, pending_recovery_flags,
                   resume, notification_registered, device_vars>>

---------------------------------------------------------------------------
(* drain_available().                                                      *)

DrainAvailable ==
    /\ step = "outside" /\ lifecycle = "running"
    /\ RecoverIfRequested(pending_recovery_flags, "draining")
    /\ UNCHANGED device_vars

NothingToDrain ==
    /\ step = "draining"
    /\ step' = "outside"
    /\ UNCHANGED <<lifecycle, stream_vars, audio, pending_recovery_flags, resume,
                   notification_registered, clients, device_vars>>

\* GetNextPacketSize, GetBuffer or ReleaseBuffer fails, in the last case
\* with a packet read and lost.  recover_capture_call() recovers from an
\* invalidated device only, and ends the call.
CaptureCallFails(invalidated) ==
    /\ step = "draining"
    /\ Fault
    /\ IF invalidated
         THEN RecoverIfRequested(pending_recovery_flags \cup {"device_invalidated"}, "outside")
         ELSE /\ Fail
              /\ UNCHANGED <<recovery, pending_recovery_flags, notification_registered>>

DeviceFlags(p) == p.flags                                                 \* slip

\* A gap the recovery made is put on the packet like one Windows reports.
NormalizedFlags(p) ==
    p.flags \cup IF recovery.discontinuity_pending THEN {"discontinuity"} ELSE {}

\* A position that comes with a timestamp error is off.
Captured(p) ==
    LET first == audio.position + p.skipped
        flags == NormalizedFlags(p)
    IN  [frame_count |-> p.frame_count, flags |-> flags, data |-> p.data,
         device_position |-> first + IF "timestamp_error" \in flags THEN 1 ELSE 0,
         samples |-> Normalized([p EXCEPT !.flags = flags], audio.client, first)]

\* What accept_packet then refuses is refused here already.
PacketIsGood(p) ==
    /\ p.frame_count = p.announced
    /\ p.frame_count <= EndpointBuffer
    /\ p.flags \subseteq KnownFlags
    /\ Converts(Captured(p), EndpointBuffer)

\* The bound: a packet that is taken ends at MaxPosition or before.
InReach(p) == audio.position + p.skipped + p.frame_count <= MaxPosition + 1

BadPacket(p) ==
    /\ step = "draining" /\ ~PacketIsGood(p)
    /\ Fail
    /\ UNCHANGED <<recovery, pending_recovery_flags, notification_registered, device_vars>>

\* on_completed_frame() for each frame, and the counters of the packet.
IsDiscontinuous(frame) == "discontinuity" \in frame.flags

Counted(p, dropped, frames) ==
    [counters EXCEPT
       !.frames_drained = @ + p.frame_count,
       !.completed_pcm_frames = @ + Len(frames),
       !.discontinuity_pcm_frames =
          @ + Cardinality({i \in 1 .. Len(frames) : IsDiscontinuous(frames[i])}),
       !.dropped_partial_pcm_frames = @ + IF dropped THEN 1 ELSE 0,
       !.recovery_discontinuity_pcm_frames =
          @ + IF recovery_frame_pending /\ frames # <<>> /\ IsDiscontinuous(frames[1])
                THEN 1 ELSE 0]

DrainPacket(p) ==
    /\ step = "draining" /\ InReach(p)
    /\ PacketIsGood(p)
    /\ LET packet == Captured(p)
           done   == AcceptPacket(assembler, packet)
       IN  /\ assembler' = done.assembler
           /\ counters' = Counted(p, DropsPartial(assembler, packet), done.frames)
           /\ recovery_frame_pending' = (recovery_frame_pending /\ done.frames = <<>>)
           /\ delivered' = delivered \o done.frames
    /\ recovery' = ConsumedDiscontinuity(recovery)
    /\ audio' = [audio EXCEPT !.position = @ + p.skipped + p.frame_count]
    /\ UNCHANGED <<lifecycle, pending_recovery_flags, notification_registered, step,
                   resume, clients, device_vars>>

---------------------------------------------------------------------------
CaptureStep ==
    \/ FindEndpoint \/ Prepare
    \/ BeginAttempt \/ AttemptFails \/ AttemptUnsupported \/ Restart
    \/ NothingToDrain
    \/ \E invalidated \in BOOLEAN : CaptureCallFails(invalidated)
    \/ \E p \in Packets : BadPacket(p) \/ DrainPacket(p)

Next ==
    \/ \E device \in Endpoints : ChangeDefaultDevice(device)
    \/ OnDefaultDeviceChanged
    \/ Initialize \/ InitializeFails
    \/ Start \/ StartUnsupported \/ StartFails
    \/ Stop \/ StopFails \/ SimulateInvalidation
    \/ \E operation \in Operations : CallOutOfOrder(operation)
    \/ DrainAvailable
    \/ CaptureStep

Spec == Init /\ [][Next]_vars

\* A call that began ends, as none blocks; the caller polls for as long as
\* it captures (main.cpp:84-97); Windows delivers its notifications.
FairSpec ==
    /\ Spec
    /\ WF_vars(CaptureStep) /\ WF_vars(DrainAvailable)
    /\ WF_vars(OnDefaultDeviceChanged)
---------------------------------------------------------------------------
(* Properties.                                                             *)

Steps == {"outside", "configuring", "preparing", "restarting", "reconfiguring",
          "activating", "draining"}

\* The type of every variable.  A partial frame is shorter than a frame.
TypeOK ==
    /\ lifecycle \in {"idle", "ready", "running", "failed"}
    /\ recovery \in Recovery
    /\ assembler \in Assembler /\ Len(assembler.pending) < FrameSamples
    /\ counters \in Counts
    /\ recovery_frame_pending \in BOOLEAN
    /\ audio \in [endpoint : Endpoints \cup {NoEndpoint}, client : Nat,
                  started : BOOLEAN, position : Nat]
    /\ pending_recovery_flags \subseteq Triggers
    /\ notification_registered \in BOOLEAN
    /\ step \in Steps /\ resume \in {"outside", "draining"}
    /\ default_endpoint \in Endpoints
    /\ notices \in Nat /\ clients \in Nat
    /\ disturbances \in [faults : Nat, changes : Nat]
    /\ delivered \in Seq(Frame)

\* No change of the default device is missed: while the capture holds an
\* endpoint that is not the default one, a notification is on its way, or
\* its flag is set, or a recovery is about to look again.  It rests on the
\* order of registration and GetDefaultAudioEndpoint in initialize, and on
\* the flags being taken before the endpoint is read (lines 480-513).
NoChangeIsMissed ==
    audio.endpoint \notin {NoEndpoint, default_endpoint} =>
      \/ notices > 0
      \/ "default_device_changed" \in pending_recovery_flags
      \/ step = "restarting"

\* Whenever the loop may use the clients they are there, started, of a
\* supported device, and no recovery is under way; a ready capture holds a
\* stopped client; a failed one has let go of everything (lines 327-348,
\* 443-460, 544-551).
StreamIsLive ==
    /\ lifecycle = "running" /\ step \in {"outside", "draining"} =>
         /\ audio.client > 0 /\ audio.started /\ NormalizationSupported
         /\ recovery.state = "stable"
    /\ lifecycle = "ready" => audio.client > 0 /\ ~audio.started
    /\ lifecycle = "failed" =>
         audio = NoAudio /\ ~HasPartial(assembler) /\ step = "outside"

\* D-018: at most three attempts in a cycle, each counted once as a success
\* or a failure, and no restart without a trigger (recovery.cpp:48-102).
RestartsAddUp ==
    /\ recovery.attempts_in_cycle <= MaximumAttempts
    /\ recovery.restart_attempts =
         recovery.successful_restarts + recovery.failed_restarts
           + (IF recovery.state = "restarting" THEN 1 ELSE 0)
    /\ recovery.successful_restarts <=
         recovery.requests["device_invalidated"]
           + recovery.requests["default_device_changed"]

\* The first frame completed after a recovery will be discontinuous: until
\* it is, another recovery is under way, or the controller still owes the
\* discontinuity, or the partial frame carries it (main.cpp:181-186, lines
\* 295-300 and 749-820).
RecoveryIsAnnounced ==
    lifecycle = "running" /\ recovery_frame_pending =>
      \/ recovery.state # "stable"
      \/ recovery.discontinuity_pending
      \/ HasPartial(assembler) /\ "discontinuity" \in assembler.flags

Follows(s, t) == t.client = s.client /\ t.position = s.position + 1

\* D-018, "must not hide a capture gap": the frames of a run are numbered
\* without a break, and a frame that does not start where the frame before
\* it ended is discontinuous, whether Windows, a recovery or a dropped
\* partial frame made the gap.
GapsAreAnnounced ==
    /\ \A i \in 1 .. Len(delivered) : delivered[i].sequence_number = i
    /\ \A i \in 1 .. Len(delivered) - 1 :
         \/ Follows(delivered[i].samples[FrameSamples], delivered[i + 1].samples[1])
         \/ IsDiscontinuous(delivered[i + 1])

\* D-017: every frame is FrameSamples consecutive samples of one client, is
\* silent exactly when all of them are, and unless it is marked with a
\* timestamp error its position is that of its first sample.
FramesAreWhole ==
    \A i \in 1 .. Len(delivered) :
      LET frame == delivered[i]
      IN  /\ Len(frame.samples) = FrameSamples
          /\ \A k \in 1 .. FrameSamples - 1 : Follows(frame.samples[k], frame.samples[k + 1])
          /\ "silence" \in frame.flags <=> \A k \in 1 .. FrameSamples : frame.samples[k].silent
          /\ "timestamp_error" \notin frame.flags =>
               frame.device_position = frame.samples[1].position

\* Every sample drained in a run is in a completed frame, in the partial
\* frame, or in a partial frame counted as dropped.
SamplesAddUp ==
    LET kept == FrameSamples * counters.completed_pcm_frames + Len(assembler.pending)
        lost == counters.frames_drained - kept
        dropped == counters.dropped_partial_pcm_frames
    IN  /\ counters.completed_pcm_frames = Len(delivered)
        /\ dropped <= lost /\ lost <= dropped * (FrameSamples - 1)

\* A running capture that holds a device which is no longer the default one
\* moves to it, or fails, or is stopped.
CatchesUp ==
    lifecycle = "running" /\ audio.endpoint # default_endpoint
      ~> lifecycle # "running" \/ audio.endpoint = default_endpoint
=============================================================================
