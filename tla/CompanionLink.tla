---------------------------- MODULE CompanionLink ----------------------------
(***************************************************************************)
(* How CompanionApplication::poll learns the failsafe policy of the        *)
(* vehicle it talks to: heartbeats select the vehicle, the four parameters *)
(* are requested from it in turn, and CompanionLinkFailsafe judges the     *)
(* answers.  More than one flight controller may be on the link; the last  *)
(* heartbeat decides which one is the vehicle.                             *)
(*                                                                         *)
(* What arrives in one read is handled before the rest of the poll, at the *)
(* same instant: polling is TRUE meanwhile.                                *)
(***************************************************************************)
EXTENDS CompanionLinkFailsafe, Sequences, FiniteSets

CONSTANTS
  HeartbeatTimeout,     \* ticks a heartbeat stays fresh, 3 s
  ParameterSpacing,     \* kFailsafeParameterSpacing, 200 ms
  RejectedRetry,        \* kRejectedFailsafeRetryInterval, 2 s
  AcceptedRefresh,      \* kAcceptedFailsafeRefreshInterval, 10 s
  Values,               \* parameter values the flight controllers may hold
  InitialPolicies,      \* what they may hold at first, in [Parameters -> Values]
  MaxInFlight,          \* bound: frames written beyond it are lost
  Reconfigurable,       \* an operator may change parameters meanwhile
  Lossy                 \* the link may lose frames, and delay them for longer
                        \* than the time between two requests

ASSUME CompanionLinkAssumption ==
  /\ {HeartbeatTimeout, ParameterSpacing, RejectedRetry, AcceptedRefresh}
       \subseteq Nat \ {0}
  /\ Values \subseteq Int
  /\ InitialPolicies \subseteq [Parameters -> Values]
  /\ MaxInFlight \in Nat
  /\ Reconfigurable \in BOOLEAN /\ Lossy \in BOOLEAN

VARIABLES
  polling,         \* something of this poll's read was already handled
  system_id,       \* VehicleState: the vehicle of the last heartbeat
  fresh,           \* VehicleState: remaining freshness of that heartbeat
  vehicle_was_connected,
  failsafe_parameter_index,
  next_failsafe_parameter_request,
  policies,        \* the parameters each flight controller holds
  requests,        \* PARAM_REQUEST_READ frames in flight
  replies          \* PARAM_VALUE frames in flight

link_vars == <<polling, system_id, fresh, vehicle_was_connected,
               failsafe_parameter_index, next_failsafe_parameter_request,
               policies, requests, replies>>

all_vars == <<vars, link_vars>>

LinkInit ==
  /\ Init
  /\ polling = FALSE
  /\ system_id = NoSystem
  /\ fresh = 0
  /\ vehicle_was_connected = FALSE
  /\ failsafe_parameter_index = 0
  /\ next_failsafe_parameter_request = 0
  /\ policies \in [Systems -> InitialPolicies]
  /\ requests = {}
  /\ replies = {}

Connected == fresh > 0

(***************************************************************************)
(* The decoder delivers a heartbeat or a parameter value.                  *)
(***************************************************************************)
ReceiveHeartbeat(system) ==
  /\ system_id' = system
  /\ fresh' = HeartbeatTimeout
  /\ polling' = TRUE
  /\ UNCHANGED <<vars, vehicle_was_connected, failsafe_parameter_index,
                 next_failsafe_parameter_request, policies, requests, replies>>

ReceiveParameter(reply) ==
  /\ OnParameter(reply.system, TRUE, reply.parameter, reply.value)
  /\ polling' = TRUE
  /\ replies' = replies \ {reply}
  /\ UNCHANGED <<system_id, fresh, vehicle_was_connected,
                 failsafe_parameter_index, next_failsafe_parameter_request,
                 policies, requests>>

(***************************************************************************)
(* The rest of the poll.  A vehicle that has just connected restarts the   *)
(* round of requests; the telemetry setup is active only while connected.  *)
(***************************************************************************)
NewlyConnected == Connected /\ ~vehicle_was_connected

Index == IF NewlyConnected THEN 0 ELSE failsafe_parameter_index

(***************************************************************************)
(* Mutants: an accepted policy is not read again; the round does not start *)
(* over.                                                                   *)
(***************************************************************************)
RequestDueOnce(telemetry_ready) ==
  /\ telemetry_ready
  /\ phase # "accepted"
  /\ NewlyConnected \/ next_failsafe_parameter_request = 0

RequestDue(telemetry_ready) ==
  /\ telemetry_ready
  /\ NewlyConnected \/ next_failsafe_parameter_request = 0

RequestInterval ==
  IF failsafe_parameter_index' # 0 THEN ParameterSpacing
  ELSE IF phase' = "accepted" THEN AcceptedRefresh ELSE RejectedRetry

RequestParameter(sent) ==
  /\ failsafe_parameter_index' = (Index + 1) % Len(ParameterNames)
  /\ next_failsafe_parameter_request' = RequestInterval
  /\ requests' = IF sent /\ Cardinality(requests \cup replies) < MaxInFlight
       THEN requests \cup {[system |-> system_id,
                            parameter |-> ParameterNames[Index + 1]]}
       ELSE requests

NoRequest ==
  /\ failsafe_parameter_index' = Index
  /\ next_failsafe_parameter_request' =
       IF NewlyConnected THEN 0 ELSE next_failsafe_parameter_request
  /\ UNCHANGED requests

Poll(telemetry_ready, sent) ==
  /\ telemetry_ready => Connected
  /\ ObserveVehicle(Connected, system_id)
  /\ vehicle_was_connected' = Connected
  /\ \/ RequestDue(telemetry_ready) /\ RequestParameter(sent)
     \/ ~RequestDue(telemetry_ready) /\ NoRequest
  /\ polling' = FALSE
  /\ UNCHANGED <<system_id, fresh, policies, replies>>

(***************************************************************************)
(* The flight controllers and the link, between polls.                     *)
(***************************************************************************)
Reply(request) ==
  /\ ~polling
  /\ requests' = requests \ {request}
  /\ replies' = replies \cup
       {[system |-> request.system, parameter |-> request.parameter,
         value |-> policies[request.system][request.parameter]]}
  /\ UNCHANGED <<vars, polling, system_id, fresh, vehicle_was_connected,
                 failsafe_parameter_index, next_failsafe_parameter_request,
                 policies>>

Reconfigure(system, policy) ==
  /\ ~polling /\ Reconfigurable
  /\ policies' = [policies EXCEPT ![system] = policy]
  /\ UNCHANGED <<vars, polling, system_id, fresh, vehicle_was_connected,
                 failsafe_parameter_index, next_failsafe_parameter_request,
                 requests, replies>>

Lose ==
  /\ ~polling /\ Lossy
  /\ \/ \E request \in requests : requests' = requests \ {request}
        /\ UNCHANGED replies
     \/ \E reply \in replies : replies' = replies \ {reply}
        /\ UNCHANGED requests
  /\ UNCHANGED <<vars, polling, system_id, fresh, vehicle_was_connected,
                 failsafe_parameter_index, next_failsafe_parameter_request,
                 policies>>

Elapse(timer) == IF timer > 0 THEN timer - 1 ELSE 0

Tick ==
  /\ ~polling
  /\ ~Lossy /\ next_failsafe_parameter_request = 1 =>
       requests = {} /\ replies = {}
  /\ fresh' = Elapse(fresh)
  /\ next_failsafe_parameter_request' = Elapse(next_failsafe_parameter_request)
  /\ UNCHANGED <<vars, polling, system_id, vehicle_was_connected,
                 failsafe_parameter_index, policies, requests, replies>>

(***************************************************************************)
(* Writing a frame fails only on a link that may lose it.                  *)
(***************************************************************************)
Writes == IF Lossy THEN BOOLEAN ELSE {TRUE}

PollStep ==
  \E telemetry_ready \in BOOLEAN, sent \in Writes : Poll(telemetry_ready, sent)

RequestStep == \E sent \in Writes : RequestDue(TRUE) /\ Poll(TRUE, sent)

ReceiveStep == \E reply \in replies : ReceiveParameter(reply)

ReplyStep == \E request \in requests : Reply(request)

LinkNext ==
  \/ PollStep
  \/ \E system \in Systems : ReceiveHeartbeat(system)
  \/ ReceiveStep
  \/ ReplyStep
  \/ \E system \in Systems, policy \in InitialPolicies :
       Reconfigure(system, policy)
  \/ Lose
  \/ Tick

LinkSpec == LinkInit /\ [][LinkNext]_all_vars

(***************************************************************************)
(* The loop polls, the clock advances and requests are answered and        *)
(* answers delivered as often as the link allows.  While a vehicle stays   *)
(* connected its telemetry setup becomes active, and a due request is made. *)
(***************************************************************************)
FairLinkSpec ==
  /\ LinkSpec
  /\ WF_all_vars(PollStep) /\ SF_all_vars(RequestStep)
  /\ SF_all_vars(Tick)
  /\ SF_all_vars(ReplyStep)
  /\ \A parameter \in Parameters :
       SF_all_vars(\E reply \in replies :
                     reply.parameter = parameter /\ ReceiveParameter(reply))

-----------------------------------------------------------------------------
Frames == [system: Systems, parameter: Parameters]

(***************************************************************************)
(* The type invariant.                                                     *)
(***************************************************************************)
LinkTypeOK ==
  /\ TypeOK
  /\ polling \in BOOLEAN
  /\ system_id \in Systems \cup {NoSystem}
  /\ fresh \in 0..HeartbeatTimeout
  /\ vehicle_was_connected \in BOOLEAN
  /\ failsafe_parameter_index \in 0..3
  /\ next_failsafe_parameter_request \in Nat
  /\ policies \in [Systems -> InitialPolicies]
  /\ requests \subseteq Frames
  /\ replies \subseteq
       [system: Systems, parameter: Parameters, value: Values]

(***************************************************************************)
(* The types, and that a verdict always fits the values it was formed      *)
(* from (VerdictFitsValues), also between the calls of one poll.           *)
(***************************************************************************)
LinkInvariant ==
  /\ LinkTypeOK
  /\ VerdictFitsValues

(***************************************************************************)
(* What a poll hands to the flight controllers is one vehicle: the verdict *)
(* is about the vehicle of the snapshot, and there is none without a       *)
(* connected vehicle.                                                      *)
(***************************************************************************)
VerdictIsOfThisVehicle ==
  ~polling =>
    heartbeat_system_id = IF vehicle_was_connected THEN system_id ELSE NoSystem

(***************************************************************************)
(* An accepted vehicle really holds an acceptable policy: no value of      *)
(* another vehicle, or of another connection to it, counts, however late   *)
(* it arrives.  (While nobody changes parameters.)                         *)
(***************************************************************************)
AcceptedPolicyIsHeld ==
  phase = "accepted" /\ ~Reconfigurable =>
    Acceptable(policies[heartbeat_system_id], heartbeat_system_id)

(***************************************************************************)
(* The verdict follows the parameters: once the vehicle stays connected    *)
(* and its parameters stay as they are, the verdict comes to be, and       *)
(* stays, accepted exactly if they are acceptable.                         *)
(***************************************************************************)
Stable(system, policy) ==
  [](Connected /\ system_id = system /\ policies[system] = policy)

VerdictFollowsPolicy ==
  \A system \in Systems, policy \in InitialPolicies :
    <>Stable(system, policy) =>
      <>[]((phase = "accepted") = Acceptable(policy, system))
=============================================================================
