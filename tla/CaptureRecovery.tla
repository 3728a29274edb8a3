---------------------------- MODULE CaptureRecovery ----------------------------
(***************************************************************************)
(* CaptureRecoveryController of native/capture/src/recovery.cpp, a record  *)
(* owned by the capture thread.  A cycle starts with a trigger, makes at   *)
(* most MaximumAttempts attempts and ends stable or failed.  last_trigger_ *)
(* is only reported and is left out.                                       *)
(***************************************************************************)
EXTENDS Naturals

CONSTANT MaximumAttempts  \* maximum_capture_restart_attempts (3)

ASSUME AttemptsAssumption == MaximumAttempts \in Nat \ {0}

RecoveryStates == {"stable", "restart_pending", "restarting", "failed"}
Triggers == {"device_invalidated", "default_device_changed"}

Recovery ==
    [state : RecoveryStates, attempts_in_cycle : 0 .. MaximumAttempts,
     restart_attempts : Nat, successful_restarts : Nat, failed_restarts : Nat,
     requests : [Triggers -> Nat], discontinuity_pending : BOOLEAN]

\* reset(), and a controller as constructed.
NewRecovery ==
    [state |-> "stable", attempts_in_cycle |-> 0, restart_attempts |-> 0,
     successful_restarts |-> 0, failed_restarts |-> 0,
     requests |-> [t \in Triggers |-> 0], discontinuity_pending |-> FALSE]

\* request() for each trigger found pending.  Refused once failed.
Requested(r, triggers) ==
    [r EXCEPT !.requests = [t \in Triggers |-> @[t] + IF t \in triggers THEN 1 ELSE 0],
              !.attempts_in_cycle = IF r.state = "stable" THEN 0 ELSE @,
              !.state = IF @ = "stable" THEN "restart_pending" ELSE @]

\* begin_attempt() in a cycle.
BegunAttempt(r) ==
    IF r.attempts_in_cycle >= MaximumAttempts THEN [r EXCEPT !.state = "failed"]
    ELSE [r EXCEPT !.attempts_in_cycle = @ + 1, !.restart_attempts = @ + 1,
                   !.state = "restarting"]

ForgetDiscontinuity(r) ==                                                 \* slip
    [r EXCEPT !.successful_restarts = @ + 1, !.attempts_in_cycle = 0,
              !.state = "stable"]

\* complete_success() and complete_failure() of an attempt.
CompletedSuccess(r) ==
    [r EXCEPT !.successful_restarts = @ + 1, !.attempts_in_cycle = 0,
              !.discontinuity_pending = TRUE, !.state = "stable"]

CountOnlyLastFailure(r, retryable) ==                                     \* slip
    IF retryable /\ r.attempts_in_cycle < MaximumAttempts
      THEN [r EXCEPT !.state = "restart_pending"]
      ELSE [r EXCEPT !.failed_restarts = @ + 1, !.state = "failed"]

CompletedFailure(r, retryable) ==
    [r EXCEPT !.failed_restarts = @ + 1,
              !.state = IF retryable /\ r.attempts_in_cycle < MaximumAttempts
                          THEN "restart_pending" ELSE "failed"]

ConsumedDiscontinuity(r) == [r EXCEPT !.discontinuity_pending = FALSE]
=============================================================================
