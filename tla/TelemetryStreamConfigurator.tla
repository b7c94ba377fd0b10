--------------------- MODULE TelemetryStreamConfigurator ---------------------
(***************************************************************************)
(* adapters/mavlink/TelemetryStreamConfigurator: asks the flight           *)
(* controller for one telemetry stream after another with                  *)
(* SET_MESSAGE_INTERVAL.  A COMMAND_ACK names the command but not the      *)
(* stream, so there is one request outstanding at a time and every         *)
(* acknowledgement is taken for an answer to it.                           *)
(*                                                                         *)
(* Streams are numbered 0..Streams-1 in the order of kStreamRequests;      *)
(* completed_requests always equals current_request.                       *)
(***************************************************************************)
EXTENDS Integers

CONSTANTS Systems, NoSystem,
          Streams,          \* size of kStreamRequests, 6
          MaximumAttempts,  \* kMaximumAttempts, 3
          AckTimeout        \* kAcknowledgementTimeout, 2 s

ASSUME TelemetryAssumption ==
  /\ NoSystem \notin Systems
  /\ Streams \in Nat \ {0}
  /\ MaximumAttempts \in Nat \ {0}
  /\ AckTimeout \in Nat \ {0}

VARIABLES phase, vehicle_system_id, current_request, attempt, awaiting_ack,
          acknowledgement_deadline   \* remaining ticks, 0 when it is past

vars == <<phase, vehicle_system_id, current_request, attempt, awaiting_ack,
          acknowledgement_deadline>>

Init ==
  /\ phase = "waiting_for_vehicle"
  /\ vehicle_system_id = NoSystem
  /\ current_request = 0
  /\ attempt = 0
  /\ awaiting_ack = FALSE
  /\ acknowledgement_deadline = 0

(***************************************************************************)
(* update: reset when disconnected, begin for a vehicle not yet known.     *)
(***************************************************************************)
Reset ==
  /\ phase' = "waiting_for_vehicle"
  /\ vehicle_system_id' = NoSystem
  /\ current_request' = 0
  /\ attempt' = 0
  /\ awaiting_ack' = FALSE
  /\ acknowledgement_deadline' = 0

Begin(system) ==
  /\ vehicle_system_id # system
  /\ phase' = "configuring"
  /\ vehicle_system_id' = system
  /\ current_request' = 0
  /\ attempt' = 1
  /\ awaiting_ack' = TRUE
  /\ acknowledgement_deadline' = AckTimeout

Configuring(system) == vehicle_system_id = system /\ phase = "configuring"

(***************************************************************************)
(* Mutants: a request is repeated without being counted, or before the     *)
(* previous one has timed out.                                             *)
(***************************************************************************)
RequestUncounted(system) ==
  /\ Configuring(system)
  /\ awaiting_ack => acknowledgement_deadline = 0
  /\ attempt' = 1
  /\ awaiting_ack' = TRUE
  /\ acknowledgement_deadline' = AckTimeout
  /\ UNCHANGED <<phase, vehicle_system_id, current_request>>

RequestEarly(system) ==
  /\ Configuring(system)
  /\ awaiting_ack => attempt < MaximumAttempts
  /\ attempt' = attempt + 1
  /\ awaiting_ack' = TRUE
  /\ acknowledgement_deadline' = AckTimeout
  /\ UNCHANGED <<phase, vehicle_system_id, current_request>>

(***************************************************************************)
(* The next attempt: the first of a stream, or one after a timeout.  The   *)
(* frame is returned to be written; nobody tells the configurator when     *)
(* the write fails.                                                        *)
(***************************************************************************)
Request(system) ==
  /\ Configuring(system)
  /\ awaiting_ack =>
       acknowledgement_deadline = 0 /\ attempt < MaximumAttempts
  /\ attempt' = attempt + 1
  /\ awaiting_ack' = TRUE
  /\ acknowledgement_deadline' = AckTimeout
  /\ UNCHANGED <<phase, vehicle_system_id, current_request>>

GiveUp(system) ==
  /\ Configuring(system)
  /\ awaiting_ack
  /\ acknowledgement_deadline = 0
  /\ attempt >= MaximumAttempts
  /\ phase' = "failed"
  /\ UNCHANGED <<vehicle_system_id, current_request, attempt, awaiting_ack,
                 acknowledgement_deadline>>

Idle(system) ==
  /\ vehicle_system_id = system
  /\ phase = "configuring" => awaiting_ack /\ acknowledgement_deadline > 0
  /\ UNCHANGED vars

Update(connected, system) ==
  \/ ~connected /\ Reset
  \/ connected /\ Begin(system)
  \/ connected /\ Request(system)
  \/ connected /\ GiveUp(system)
  \/ connected /\ Idle(system)

(***************************************************************************)
(* The streams requested by a step, as a set of at most one.               *)
(***************************************************************************)
Requested ==
  IF awaiting_ack' /\ <<vehicle_system_id, current_request, attempt>>' #
                      <<vehicle_system_id, current_request, attempt>>
    THEN {current_request'} ELSE {}

(***************************************************************************)
(* on_command_ack for SET_MESSAGE_INTERVAL, addressed to the companion.    *)
(***************************************************************************)
AckMatches(source_system) ==
  /\ phase = "configuring"
  /\ awaiting_ack
  /\ source_system = vehicle_system_id

AckAccepted(source_system) ==
  /\ AckMatches(source_system)
  /\ current_request' = current_request + 1
  /\ attempt' = 0
  /\ awaiting_ack' = FALSE
  /\ phase' = IF current_request' = Streams THEN "active" ELSE "configuring"
  /\ UNCHANGED <<vehicle_system_id, acknowledgement_deadline>>

AckInProgress(source_system) ==
  /\ AckMatches(source_system)
  /\ acknowledgement_deadline' = AckTimeout
  /\ UNCHANGED <<phase, vehicle_system_id, current_request, attempt,
                 awaiting_ack>>

AckRejected(source_system) ==
  /\ AckMatches(source_system)
  /\ phase' = "failed"
  /\ awaiting_ack' = FALSE
  /\ UNCHANGED <<vehicle_system_id, current_request, attempt,
                 acknowledgement_deadline>>

AckIgnored(source_system) == ~AckMatches(source_system) /\ UNCHANGED vars

OnCommandAck(outcome, source_system) ==
  \/ outcome = "accepted" /\ AckAccepted(source_system)
  \/ outcome = "in_progress" /\ AckInProgress(source_system)
  \/ outcome = "rejected" /\ AckRejected(source_system)
  \/ AckIgnored(source_system)

Tick ==
  /\ acknowledgement_deadline' =
       IF acknowledgement_deadline > 0 THEN acknowledgement_deadline - 1 ELSE 0
  /\ UNCHANGED <<phase, vehicle_system_id, current_request, attempt,
                 awaiting_ack>>

-----------------------------------------------------------------------------
Phases == {"waiting_for_vehicle", "configuring", "active", "failed"}

(***************************************************************************)
(* The type invariant.                                                     *)
(***************************************************************************)
TypeOK ==
  /\ phase \in Phases
  /\ vehicle_system_id \in Systems \cup {NoSystem}
  /\ current_request \in 0..Streams
  /\ attempt \in 0..MaximumAttempts
  /\ awaiting_ack \in BOOLEAN
  /\ acknowledgement_deadline \in 0..AckTimeout
=============================================================================
