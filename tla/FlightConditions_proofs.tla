------------------------ MODULE FlightConditions_proofs ------------------------
(***************************************************************************)
(* The two conditions of a flight: a vehicle whose failsafe policy would   *)
(* land it (CompanionLink), and a command line that asks for the flight    *)
(* (Service), with what else Service promises: its exit code, and the logs *)
(* of its recorder.  The two machines share no state; every lemma is about *)
(* one of them.                                                            *)
(***************************************************************************)
EXTENDS CompanionLink, Service, FiniteSetTheorems, SequenceTheorems,
        WellFoundedInduction, TLAPS

-----------------------------------------------------------------------------
(***************************************************************************)
(* CompanionLink: its invariant in parts.  First the failsafe's own types. *)
(***************************************************************************)
LEMMA SystemFacts == NoSystem \notin Systems
BY FailsafeAssumption DEF NoSystem

LEMMA InitialVerdict == LinkInit => TypeOK /\ VerdictFitsValues
BY SystemFacts DEF LinkInit, Init, TypeOK, VerdictFitsValues, NoValues,
                   Parameters

LEMMA ObserveKeepsVerdict ==
  ASSUME TypeOK, VerdictFitsValues, NEW connected \in BOOLEAN, NEW system,
         connected => system \in Systems,
         ObserveVehicle(connected, system)
  PROVE  /\ TypeOK' /\ VerdictFitsValues'
         /\ heartbeat_system_id' = Heard(connected, system)
<1>1. Heard(connected, system) \in Systems \cup {NoSystem}
  BY DEF Heard
<1>2. CASE Reset(Heard(connected, system))
  BY <1>1, <1>2, SystemFacts
     DEF Reset, TypeOK, VerdictFitsValues, NoValues, Parameters
<1>3. CASE UNCHANGED vars /\ heartbeat_system_id = Heard(connected, system)
  BY <1>3 DEF vars, TypeOK, VerdictFitsValues
<1> QED
  BY <1>2, <1>3 DEF ObserveVehicle, Reset

LEMMA ValidateFits ==
  ASSUME NEW have, NEW values, NEW system
  PROVE  /\ Validate(have, values, system)
              \in {"reading_parameters", "accepted", "rejected"}
         /\ Validate(have, values, system) = "accepted" =>
              have = Parameters /\ Acceptable(values, system)
         /\ Validate(have, values, system) = "rejected" => have = Parameters
BY DEF Validate

LEMMA ParameterKeepsVerdict ==
  ASSUME TypeOK, VerdictFitsValues, NEW source, NEW parameter \in Parameters,
         NEW value \in Int, OnParameter(source, TRUE, parameter, value)
  PROVE  TypeOK' /\ VerdictFitsValues'
<1>1. CASE UNCHANGED vars
  BY <1>1 DEF vars, TypeOK, VerdictFitsValues
<1>2. CASE ~UNCHANGED vars
  <2>1. /\ heartbeat_system_id # NoSystem
        /\ heartbeat_system_id' = heartbeat_system_id
        /\ received' = received \cup {parameter}
        /\ raw' = [raw EXCEPT ![parameter] = value]
        /\ phase' = Validate(received', raw', heartbeat_system_id)
    BY <1>2 DEF OnParameter
  <2>2. TypeOK'
    BY <2>1, ValidateFits DEF TypeOK
  <2>3. VerdictFitsValues'
    BY <2>1, ValidateFits DEF VerdictFitsValues
  <2> QED
    BY <2>2, <2>3
<1> QED
  BY <1>1, <1>2

(***************************************************************************)
(* What is on the link: well-formed frames, requests to a vehicle that was *)
(* heard.                                                                  *)
(***************************************************************************)
AnyReply == [system: Systems, parameter: Parameters, value: Values]

FramesOK ==
  /\ policies \in [Systems -> InitialPolicies]
  /\ requests \subseteq Frames
  /\ replies \subseteq AnyReply

CountersOK ==
  /\ polling \in BOOLEAN
  /\ system_id \in Systems \cup {NoSystem}
  /\ fresh \in 0..HeartbeatTimeout
  /\ vehicle_was_connected \in BOOLEAN
  /\ failsafe_parameter_index \in 0..3
  /\ next_failsafe_parameter_request \in Nat
  /\ fresh > 0 => system_id \in Systems

HeardOK ==
  ~polling =>
    heartbeat_system_id = IF vehicle_was_connected THEN system_id ELSE NoSystem

VerdictOK == TypeOK /\ VerdictFitsValues

LinkOK == VerdictOK /\ FramesOK /\ CountersOK /\ HeardOK

LEMMA FourNames ==
  /\ Len(ParameterNames) = 4
  /\ \A i \in 0..3 : ParameterNames[i + 1] \in Parameters
<1>1. Len(ParameterNames) = 4
  BY DEF ParameterNames
<1>2. ASSUME NEW i \in 0..3
      PROVE  ParameterNames[i + 1] \in Parameters
  <2>1. i + 1 = 1 \/ i + 1 = 2 \/ i + 1 = 3 \/ i + 1 = 4
    OBVIOUS
  <2> QED
    BY <2>1 DEF ParameterNames, Parameters
<1> QED
  BY <1>1, <1>2

LEMMA LinkInitOK == LinkInit => LinkOK
<1> SUFFICES ASSUME LinkInit PROVE LinkOK
  OBVIOUS
<1>1. VerdictOK
  BY InitialVerdict DEF VerdictOK
<1>2. FramesOK
  BY DEF LinkInit, FramesOK
<1>3. HeartbeatTimeout \in Nat
  BY CompanionLinkAssumption
<1>4. CountersOK
  <2>1. fresh = 0 /\ failsafe_parameter_index = 0
        /\ next_failsafe_parameter_request = 0
    BY DEF LinkInit
  <2>2. /\ fresh \in 0..HeartbeatTimeout /\ ~(fresh > 0)
        /\ failsafe_parameter_index \in 0..3
        /\ next_failsafe_parameter_request \in Nat
    BY <1>3, <2>1
  <2>3. /\ polling \in BOOLEAN /\ vehicle_was_connected \in BOOLEAN
        /\ system_id \in Systems \cup {NoSystem}
    BY DEF LinkInit
  <2> QED
    BY <2>2, <2>3 DEF CountersOK
<1>5. HeardOK
  BY DEF LinkInit, Init, HeardOK
<1> QED
  BY <1>1, <1>2, <1>4, <1>5 DEF LinkOK

LEMMA HeartbeatOK ==
  ASSUME LinkOK, NEW system \in Systems, ReceiveHeartbeat(system)
  PROVE  LinkOK'
BY CompanionLinkAssumption
   DEF ReceiveHeartbeat, LinkOK, VerdictOK, FramesOK, CountersOK, HeardOK,
       vars, TypeOK, VerdictFitsValues

LEMMA ReceiveOK ==
  ASSUME LinkOK, NEW reply \in replies, ReceiveParameter(reply)
  PROVE  LinkOK'
<1>1. reply.parameter \in Parameters /\ reply.value \in Int
  BY CompanionLinkAssumption DEF LinkOK, FramesOK, AnyReply
<1>2. VerdictOK'
  BY <1>1, ParameterKeepsVerdict DEF ReceiveParameter, LinkOK, VerdictOK
<1> QED
  BY <1>2 DEF ReceiveParameter, LinkOK, FramesOK, CountersOK, HeardOK

LEMMA PollOK ==
  ASSUME LinkOK, NEW telemetry_ready \in BOOLEAN, NEW sent \in BOOLEAN,
         Poll(telemetry_ready, sent)
  PROVE  LinkOK'
<1>1. Connected \in BOOLEAN /\ (Connected => system_id \in Systems)
  BY DEF Connected, LinkOK, CountersOK
<1>2. /\ VerdictOK'
      /\ heartbeat_system_id' = Heard(Connected, system_id)
  BY <1>1, ObserveKeepsVerdict DEF Poll, LinkOK, VerdictOK
<1>3. HeardOK'
  BY <1>2 DEF Poll, HeardOK, Heard
<1>4. Index \in 0..3
  BY DEF Index, LinkOK, CountersOK
<1>5. /\ failsafe_parameter_index' \in 0..3
      /\ next_failsafe_parameter_request' \in Nat
      /\ requests' \subseteq Frames
  <2>1. CASE RequestDue(telemetry_ready) /\ RequestParameter(sent)
    <3>1. failsafe_parameter_index' \in 0..3
      BY <1>4, <2>1, FourNames DEF RequestParameter
    <3>2. RequestInterval \in Nat
      BY CompanionLinkAssumption DEF RequestInterval
    <3>3. system_id \in Systems
      BY <1>1, <2>1 DEF Poll, RequestDue
    <3>4. [system |-> system_id, parameter |-> ParameterNames[Index + 1]]
            \in Frames
      BY <1>4, <3>3, FourNames DEF Frames
    <3>5. requests' \subseteq Frames
      BY <2>1, <3>4 DEF RequestParameter, LinkOK, FramesOK
    <3> QED
      BY <2>1, <3>1, <3>2, <3>5 DEF RequestParameter
  <2>2. CASE NoRequest
    BY <1>4, <2>2 DEF NoRequest, LinkOK, CountersOK, FramesOK
  <2> QED
    BY <2>1, <2>2 DEF Poll
<1> QED
  BY <1>1, <1>2, <1>3, <1>5 DEF Poll, LinkOK, FramesOK, CountersOK

LEMMA ReplyOK ==
  ASSUME LinkOK, NEW request \in requests, Reply(request)
  PROVE  LinkOK'
<1>1. request.system \in Systems /\ request.parameter \in Parameters
  BY DEF LinkOK, FramesOK, Frames
<1>2. policies[request.system][request.parameter] \in Values
  BY <1>1, CompanionLinkAssumption DEF LinkOK, FramesOK
<1>3. FramesOK'
  BY <1>1, <1>2 DEF Reply, LinkOK, FramesOK, AnyReply
<1> QED
  BY <1>3 DEF Reply, LinkOK, VerdictOK, CountersOK, HeardOK, vars, TypeOK,
              VerdictFitsValues

LEMMA LinkTickOK ==
  ASSUME LinkOK, Tick
  PROVE  LinkOK'
<1>1. CountersOK'
  BY CompanionLinkAssumption DEF Tick, Elapse, LinkOK, CountersOK
<1> QED
  BY <1>1 DEF Tick, LinkOK, VerdictOK, FramesOK, HeardOK, vars, TypeOK,
              VerdictFitsValues

LEMMA LinkOtherOK ==
  ASSUME LinkOK,
         \/ \E system \in Systems, policy \in InitialPolicies :
              Reconfigure(system, policy)
         \/ Lose
         \/ UNCHANGED all_vars
  PROVE  LinkOK'
<1>1. CASE \E system \in Systems, policy \in InitialPolicies :
             Reconfigure(system, policy)
  BY <1>1 DEF Reconfigure, LinkOK, VerdictOK, FramesOK, CountersOK, HeardOK,
              vars, TypeOK, VerdictFitsValues
<1>2. CASE Lose
  BY <1>2 DEF Lose, LinkOK, VerdictOK, FramesOK, CountersOK, HeardOK,
              vars, TypeOK, VerdictFitsValues
<1>3. CASE UNCHANGED all_vars
  BY <1>3 DEF all_vars, link_vars, LinkOK, VerdictOK, FramesOK, CountersOK,
              HeardOK, vars, TypeOK, VerdictFitsValues
<1> QED
  BY <1>1, <1>2, <1>3

LEMMA LinkStepOK == LinkOK /\ [LinkNext]_all_vars => LinkOK'
<1> SUFFICES ASSUME LinkOK, [LinkNext]_all_vars PROVE LinkOK'
  OBVIOUS
<1>1. CASE PollStep
  BY <1>1, PollOK DEF PollStep, Writes
<1>2. CASE ReceiveStep
  BY <1>2, ReceiveOK DEF ReceiveStep
<1>3. CASE ReplyStep
  BY <1>3, ReplyOK DEF ReplyStep
<1> QED
  BY <1>1, <1>2, <1>3, HeartbeatOK, LinkTickOK, LinkOtherOK DEF LinkNext

LEMMA LinkCorrect == LinkSpec => []LinkOK
BY LinkInitOK, LinkStepOK, PTL DEF LinkSpec

(***************************************************************************)
(* No call of CompanionLinkFailsafe leaves a verdict standing whose values *)
(* were replaced, dropped or never complete, whatever the vehicles hold,   *)
(* the link delivers and the order of the calls in one poll.               *)
(***************************************************************************)
THEOREM VerdictCorrect == LinkSpec => []LinkInvariant
<1>1. LinkOK => LinkInvariant
  BY DEF LinkOK, VerdictOK, FramesOK, CountersOK, LinkInvariant, LinkTypeOK,
         AnyReply
<1> QED
  BY <1>1, LinkCorrect, PTL

(***************************************************************************)
(* What CompanionApplication::poll hands to the flight controllers is of   *)
(* one vehicle: observe_vehicle runs before they are updated, in the same  *)
(* poll as the snapshot.                                                   *)
(***************************************************************************)
THEOREM OneVehicleCorrect == LinkSpec => []VerdictIsOfThisVehicle
<1>1. LinkOK => VerdictIsOfThisVehicle
  BY DEF LinkOK, HeardOK, VerdictIsOfThisVehicle
<1> QED
  BY <1>1, LinkCorrect, PTL

-----------------------------------------------------------------------------
(***************************************************************************)
(* While nobody changes parameters, an answer in flight says what its      *)
(* vehicle holds, and so does every value that was received: it is of the  *)
(* vehicle that is being read, since a reset drops the rest.               *)
(***************************************************************************)
AnswersAreTrue ==
  ~Reconfigurable =>
    /\ \A reply \in replies :
         reply.value = policies[reply.system][reply.parameter]
    /\ \A parameter \in received :
         raw[parameter] = policies[heartbeat_system_id][parameter]

LEMMA AnswersStep ==
  LinkOK /\ AnswersAreTrue /\ [LinkNext]_all_vars => AnswersAreTrue'
<1> SUFFICES ASSUME LinkOK, AnswersAreTrue, [LinkNext]_all_vars,
                    ~Reconfigurable
             PROVE  AnswersAreTrue'
  BY DEF AnswersAreTrue
<1>1. CASE PollStep
  <2>1. PICK telemetry_ready \in BOOLEAN, sent \in Writes :
               Poll(telemetry_ready, sent)
    BY <1>1 DEF PollStep
  <2>2. UNCHANGED <<policies, replies>>
    BY <2>1 DEF Poll
  <2>3. received' = {} \/ UNCHANGED <<received, raw, heartbeat_system_id>>
    BY <2>1 DEF Poll, ObserveVehicle, Reset, vars
  <2> QED
    BY <2>2, <2>3 DEF AnswersAreTrue
<1>2. CASE ReceiveStep
  <2>1. PICK reply \in replies : ReceiveParameter(reply)
    BY <1>2 DEF ReceiveStep
  <2>2. UNCHANGED policies /\ replies' \subseteq replies
    BY <2>1 DEF ReceiveParameter
  <2>3. /\ reply.value = policies[reply.system][reply.parameter]
        /\ raw \in [Parameters -> Int] /\ received \subseteq Parameters
    BY DEF AnswersAreTrue, LinkOK, VerdictOK, TypeOK
  <2>4. ASSUME NEW parameter \in received'
        PROVE  raw'[parameter] = policies'[heartbeat_system_id'][parameter]
    <3>1. CASE UNCHANGED vars
      BY <2>2, <2>4, <3>1 DEF vars, AnswersAreTrue
    <3>2. CASE ~UNCHANGED vars
      <4>1. /\ heartbeat_system_id' = heartbeat_system_id
            /\ reply.system = heartbeat_system_id
            /\ received' = received \cup {reply.parameter}
            /\ raw' = [raw EXCEPT ![reply.parameter] = reply.value]
        BY <2>1, <3>2 DEF ReceiveParameter, OnParameter
      <4>2. CASE parameter = reply.parameter
        <5>1. reply.parameter \in Parameters
          BY DEF LinkOK, FramesOK, AnyReply
        <5> QED
          BY <2>2, <2>3, <4>1, <4>2, <5>1
      <4>3. CASE parameter # reply.parameter
        BY <2>2, <2>3, <2>4, <4>1, <4>3 DEF AnswersAreTrue
      <4> QED
        BY <4>2, <4>3
    <3> QED
      BY <3>1, <3>2
  <2>5. ASSUME NEW other \in replies'
        PROVE  other.value = policies'[other.system][other.parameter]
    BY <2>2, <2>5 DEF AnswersAreTrue
  <2> QED
    BY <2>4, <2>5 DEF AnswersAreTrue
<1>3. CASE ReplyStep
  BY <1>3 DEF ReplyStep, Reply, vars, AnswersAreTrue
<1>4. CASE Lose
  BY <1>4 DEF Lose, vars, AnswersAreTrue
<1>5. ASSUME NEW system \in Systems, ReceiveHeartbeat(system)
      PROVE  AnswersAreTrue'
  BY <1>5 DEF ReceiveHeartbeat, vars, AnswersAreTrue
<1>6. CASE Tick \/ UNCHANGED all_vars
  BY <1>6 DEF Tick, all_vars, link_vars, vars, AnswersAreTrue
<1> QED
  BY <1>1, <1>2, <1>3, <1>4, <1>5, <1>6 DEF LinkNext, Reconfigure

(***************************************************************************)
(* A policy is judged by its four values.                                  *)
(***************************************************************************)
LEMMA SameVerdict ==
  ASSUME NEW one, NEW other, NEW system,
         \A parameter \in Parameters : one[parameter] = other[parameter]
  PROVE  Acceptable(one, system) <=> Acceptable(other, system)
<1>1. /\ one["FS_GCS_ENABLE"] = other["FS_GCS_ENABLE"]
      /\ one["FS_GCS_TIMEOUT"] = other["FS_GCS_TIMEOUT"]
      /\ one["FS_OPTIONS"] = other["FS_OPTIONS"]
      /\ one["SYSID_MYGCS"] = other["SYSID_MYGCS"]
  BY DEF Parameters
<1> QED
  BY <1>1 DEF Acceptable, AlwaysLands, TimeoutInRange, NeverContinues,
              WatchesHeartbeat

(***************************************************************************)
(* The guarantee autonomy rests on: whatever arrives late, twice, or from  *)
(* another vehicle, on_parameter and observe_vehicle accept only a vehicle *)
(* that holds a policy that lands it, watching its own companion.          *)
(***************************************************************************)
THEOREM AcceptedCorrect == LinkSpec => []AcceptedPolicyIsHeld
<1>1. LinkInit => AnswersAreTrue
  BY DEF LinkInit, Init, AnswersAreTrue
<1>2. LinkOK /\ AnswersAreTrue => AcceptedPolicyIsHeld
  BY SameVerdict DEF LinkOK, VerdictOK, VerdictFitsValues, AnswersAreTrue,
                     AcceptedPolicyIsHeld
<1> QED
  BY <1>1, <1>2, AnswersStep, LinkCorrect, PTL DEF LinkSpec

-----------------------------------------------------------------------------
(***************************************************************************)
(* Service: who may fly.                                                   *)
(***************************************************************************)
(***************************************************************************)
(* The three checks together: the motion policy asks for the simulation    *)
(* and its transport, the constructor for the extrinsics, the tag and the  *)
(* camera, and the validation for the calibration the extrinsics need.     *)
(***************************************************************************)
LEMMA AcceptedIsEquipped ==
  ASSUME NEW one \in CommandLine, Accepted(one), Given(one, "--autonomous")
  PROVE  /\ {"--autonomous", "--sitl", "--camera", "--apriltag",
             "--camera-calibration", "--camera-extrinsics"} \subseteq one.given
         /\ one.transport = "udp"
<1>1. MotionOf(one).motion_commands_allowed
  BY DEF Accepted, Constructible
<1>2. Given(one, "--sitl") /\ one.transport = "udp"
  BY <1>1 DEF MotionOf, MotionSafety, MotionRequested
<1>3. Given(one, "--camera-extrinsics")
  BY DEF Accepted, Constructible
<1>4. Given(one, "--apriltag") /\ Given(one, "--camera")
  BY <1>3 DEF Accepted, Constructible, Without, Given
<1>5. Given(one, "--camera-calibration")
  <2>1. ~Without(one, CameraSettings \cup {"--camera"})
    BY <1>4 DEF Without, Given
  <2>2. ValidVision(one)
    BY <2>1 DEF Accepted, ValidOptions, ValidCamera
  <2> QED
    BY <1>3, <2>2 DEF ValidVision
<1> QED
  BY <1>2, <1>3, <1>4, <1>5 DEF Given

(***************************************************************************)
(* The inductive invariant: what flies was launched from an accepted       *)
(* command line that asked for it; later requests only repeat a flight.    *)
(***************************************************************************)
FlownAsTold ==
  /\ line \in CommandLine
  /\ process \in {"running", "printing"} =>
       /\ Accepted(line)
       /\ flight # "disabled" => Given(line, "--autonomous")

LEMMA CommandLineInit == ServiceInit => FlownAsTold
BY ServiceAssumption DEF ServiceInit, FlownAsTold

LEMMA AdvancesFromDisabled == Advances("disabled") = {"disabled"}
BY DEF Advances

LEMMA LaunchFlown ==
  ASSUME FlownAsTold, NEW terminal, NEW files, Launch(terminal, files)
  PROVE  FlownAsTold'
<1>1. line' = line
  BY DEF Launch, unit_vars
<1>2. CASE Starts(terminal, files)
  BY <1>1, <1>2 DEF Launch, Starts, FlownAsTold
<1>3. CASE ~Starts(terminal, files)
  BY <1>1, <1>3 DEF Launch, Exit, FlownAsTold
<1> QED
  BY <1>2, <1>3

LEMMA TurnFlown ==
  ASSUME FlownAsTold, NEW key, NEW read, NEW write, NEW accepted \in BOOLEAN,
         Turn(key, read, write, accepted)
  PROVE  FlownAsTold'
<1>1. line' = line /\ process = "running" /\ Accepted(line)
  BY DEF Turn, FlownAsTold
<1>2. CASE process' = "off"
  BY <1>1, <1>2 DEF FlownAsTold
<1>3. CASE process' # "off"
  <2>1. /\ accepted => RequestStart
        /\ flight' \in Advances(IF accepted THEN "waiting" ELSE flight)
    BY <1>3 DEF Turn, PollLink, Exit
  <2>2. CASE flight = "disabled"
    <3>1. ~accepted
      BY <2>1, <2>2 DEF RequestStart, Finished
    <3> QED
      BY <1>1, <2>1, <2>2, <3>1, AdvancesFromDisabled DEF FlownAsTold
  <2>3. CASE flight # "disabled"
    BY <1>1, <2>3 DEF FlownAsTold
  <2> QED
    BY <2>2, <2>3
<1> QED
  BY <1>2, <1>3

LEMMA PrintFlown ==
  ASSUME FlownAsTold, NEW size, PrintSnapshot(size)
  PROVE  FlownAsTold'
BY DEF PrintSnapshot, FlownAsTold, unit_vars

(***************************************************************************)
(* Every other step leaves the process, or leaves it as it is.             *)
(***************************************************************************)
LEMMA OtherFlown ==
  ASSUME FlownAsTold, line' = line,
         \/ process' \in {"off", "starting"}
         \/ process' = process /\ flight' = flight
  PROVE  FlownAsTold'
BY DEF FlownAsTold

LEMMA CommandLineStep == FlownAsTold /\ [Next]_service_vars => FlownAsTold'
<1> SUFFICES ASSUME FlownAsTold, [Next]_service_vars PROVE FlownAsTold'
  OBVIOUS
<1> USE DEF unit_vars, process_vars, recorder_vars, Exit
<1>1. CASE Start
  BY <1>1, OtherFlown DEF Start
<1>2. CASE LaunchStep
  BY <1>2, LaunchFlown DEF LaunchStep
<1>3. CASE TurnStep
  BY <1>3, TurnFlown DEF TurnStep
<1>4. CASE LeaveLoop
  BY <1>4, OtherFlown DEF LeaveLoop
<1>5. CASE PrintStep
  BY <1>5, PrintFlown DEF PrintStep
<1>6. CASE PrintToNobody
  <2>1. /\ process = "printing" /\ line' = line /\ flight' = flight
        /\ process' \in {"running", "off"}
    BY <1>6 DEF PrintToNobody, Reports
  <2> QED
    BY <2>1 DEF FlownAsTold
<1>7. CASE TimePasses
  BY <1>7, OtherFlown DEF TimePasses
<1>8. CASE Rotate
  BY <1>8, OtherFlown DEF Rotate
<1>9. CASE RecordStep
  BY <1>9, OtherFlown DEF RecordStep, RecordLine
<1>10. CASE RecorderEnds
  BY <1>10, OtherFlown DEF RecorderEnds
<1>11. CASE RecorderDies
  BY <1>11, OtherFlown DEF RecorderDies
<1>12. CASE UnitEnds
  BY <1>12, OtherFlown DEF UnitEnds
<1>13. CASE Stop
  BY <1>13, OtherFlown DEF Stop
<1>14. CASE PowerCycle
  BY <1>14, OtherFlown DEF PowerCycle
<1>15. CASE Replug
  BY <1>15, OtherFlown DEF Replug
<1>16. CASE BecomeQuiet
  BY <1>16, OtherFlown DEF BecomeQuiet
<1>17. CASE UNCHANGED service_vars
  BY <1>17, OtherFlown DEF service_vars
<1> QED
  BY <1>1, <1>2, <1>3, <1>4, <1>5, <1>6, <1>7, <1>8, <1>9, <1>10, <1>11,
     <1>12, <1>13, <1>14, <1>15, <1>16, <1>17 DEF Next

(***************************************************************************)
(* AutonomyIsEquipped: whatever the command line, what flies was told that *)
(* it flies a simulation, over UDP, and has all it needs to see a target.  *)
(***************************************************************************)
THEOREM EquippedCorrect == Spec => []AutonomyIsEquipped
<1>1. FlownAsTold => AutonomyIsEquipped
  BY AcceptedIsEquipped DEF FlownAsTold, AutonomyIsEquipped
<1> QED
  BY <1>1, CommandLineInit, CommandLineStep, PTL DEF Spec

-----------------------------------------------------------------------------
(***************************************************************************)
(* The exit code.  A unit that is not active has no process; a loop that   *)
(* is to be left was stopped by somebody; and between the end of the       *)
(* process and that of its unit nothing happens to code and flight.        *)
(***************************************************************************)
CodeTells ==
  /\ exit_code = 0 /\ ~stop_requested =>
       Given(line, "--exit-after-autonomy") /\ flight = "completed"
  /\ exit_code = 2 => Given(line, "--exit-after-autonomy") /\ flight = "failed"

ExitOK ==
  /\ unit # "active" => process = "off"
  /\ ~keep_running => stop_requested
  /\ unit # "starting" /\ process = "off" => CodeTells

LEMMA ExitInit == ServiceInit => ExitOK
BY DEF ServiceInit, ExitOK

(***************************************************************************)
(* The process itself: it is part of an active unit.                       *)
(***************************************************************************)
LEMMA ProcessExit ==
  ASSUME ExitOK,
         LaunchStep \/ TurnStep \/ LeaveLoop \/ PrintStep \/ PrintToNobody
  PROVE  ExitOK'
<1> USE DEF ExitOK, unit_vars, recorder_vars, Exit
<1>1. CASE LaunchStep
  <2> PICK terminal \in BOOLEAN, files \in BOOLEAN : Launch(terminal, files)
    BY <1>1 DEF LaunchStep
  <2> QED
    BY DEF Launch, CodeTells
<1>2. CASE TurnStep
  <2> PICK key \in Keys, read \in UdpReadOutcomes(Senders),
           write \in {"none", "written", "error"}, accepted \in BOOLEAN :
             Turn(key, read, write, accepted)
    BY <1>2 DEF TurnStep
  <2>1. CASE key = "q"
    BY <2>1 DEF Turn, CodeTells
  <2>2. CASE key # "q"
    <3>1. exit_code' = 1 \/ process' # "off"
      BY <2>2 DEF Turn, PollLink
    <3>2. /\ unit' = unit /\ process # "off"
          /\ keep_running' = keep_running /\ stop_requested' = stop_requested
      BY <2>2 DEF Turn
    <3> QED
      BY <3>1, <3>2 DEF CodeTells
  <2> QED
    BY <2>1, <2>2
<1>3. CASE LeaveLoop
  BY <1>3 DEF LeaveLoop, CodeTells
<1>4. CASE PrintStep
  <2> PICK size \in LineSizes : PrintSnapshot(size)
    BY <1>4 DEF PrintStep
  <2>1. /\ unit' = unit /\ line' = line /\ flight' = flight
        /\ keep_running' = keep_running /\ stop_requested' = stop_requested
        /\ process = "printing" /\ Reports(flight)
    BY DEF PrintSnapshot
  <2>2. process' = "off" => CodeTells'
    BY <2>1 DEF Reports, CodeTells
  <2> QED
    BY <2>1, <2>2
<1>5. CASE PrintToNobody
  <2>1. /\ unit' = unit /\ line' = line /\ flight' = flight
        /\ keep_running' = keep_running /\ stop_requested' = stop_requested
        /\ process = "printing"
    BY <1>5 DEF PrintToNobody
  <2>2. CASE Reports(flight)
    BY <2>1, <2>2 DEF Reports, CodeTells
  <2>3. CASE process' = "off" /\ exit_code' = Killed
    BY <2>1, <2>3 DEF CodeTells, Killed
  <2> QED
    BY <1>5, <2>2, <2>3 DEF PrintToNobody
<1> QED
  BY <1>1, <1>2, <1>3, <1>4, <1>5

(***************************************************************************)
(* Every other step leaves the process and what it left behind.            *)
(***************************************************************************)
LEMMA QuietExit ==
  ASSUME ExitOK, process' = process, exit_code' = exit_code, line' = line,
         flight' = flight, unit' = unit, keep_running' = keep_running,
         stop_requested' = stop_requested
  PROVE  ExitOK'
BY DEF ExitOK, CodeTells

LEMMA ExitStep == ExitOK /\ [Next]_service_vars => ExitOK'
<1> SUFFICES ASSUME ExitOK, [Next]_service_vars PROVE ExitOK'
  OBVIOUS
<1> USE DEF unit_vars, process_vars, recorder_vars
<1>1. CASE Start
  BY <1>1 DEF Start, ExitOK
<1>2. CASE LaunchStep \/ TurnStep \/ LeaveLoop \/ PrintStep \/ PrintToNobody
  BY <1>2, ProcessExit
<1>3. CASE TimePasses
  BY <1>3, QuietExit DEF TimePasses
<1>4. CASE Rotate
  BY <1>4, QuietExit DEF Rotate
<1>5. CASE RecordStep
  BY <1>5, QuietExit DEF RecordStep, RecordLine
<1>6. CASE RecorderEnds
  BY <1>6, QuietExit DEF RecorderEnds
<1>7. CASE RecorderDies
  BY <1>7, QuietExit DEF RecorderDies
<1>8. CASE UnitEnds
  BY <1>8 DEF UnitEnds, ExitOK, CodeTells
<1>9. CASE Stop
  BY <1>9 DEF Stop, ExitOK, CodeTells
<1>10. CASE PowerCycle
  BY <1>10 DEF PowerCycle, ExitOK
<1>11. CASE Replug
  BY <1>11, QuietExit DEF Replug
<1>12. CASE BecomeQuiet
  BY <1>12, QuietExit DEF BecomeQuiet
<1>13. CASE UNCHANGED service_vars
  BY <1>13, QuietExit DEF service_vars
<1> QED
  BY <1>1, <1>2, <1>3, <1>4, <1>5, <1>6, <1>7, <1>8, <1>9, <1>10, <1>11,
     <1>12, <1>13 DEF Next

(***************************************************************************)
(* ExitCodeTells: a unit that has stopped with code 0 was stopped or has   *)
(* flown to the end, and one that stopped with 2 has failed in flight,     *)
(* over any number of restarts and power cycles before.                    *)
(***************************************************************************)
THEOREM ExitCorrect == Spec => []ExitCodeTells
<1>1. ExitOK => ExitCodeTells
  BY DEF ExitOK, CodeTells, ExitCodeTells
<1> QED
  BY <1>1, ExitInit, ExitStep, PTL DEF Spec

-----------------------------------------------------------------------------
(***************************************************************************)
(* Induction, for what the recorder's recursive functions compute.  The    *)
(* property of an induction is the set of numbers that have it, and the    *)
(* step of a recursion a function, so that both are values.                *)
(***************************************************************************)
LEMMA Least ==
  ASSUME NEW T, T \subseteq Nat, T # {}
  PROVE  \E n \in T : \A m \in T : n <= m
<1> DEFINE Less == OpToRel(<, Nat)
<1>1. \A m, n \in Nat : <<m, n>> \in Less <=> m < n
  BY DEF OpToRel
<1>2. IsWellFoundedOn(Less, Nat)
  BY NatLessThanWellFounded, Zenon
<1> HIDE DEF Less
<1>3. PICK n \in T : \A m \in T : ~(<<m, n>> \in Less)
  BY <1>2, WFMin, Zenon
<1>4. ASSUME NEW m \in T
      PROVE  n <= m
  <2>1. ~(m < n)
    BY <1>1, <1>3, Zenon
  <2> QED
    BY <2>1
<1> QED
  BY <1>4

LEMMA Induct ==
  ASSUME NEW N \in Nat, NEW T, 0 \in T,
         \A n \in 1..N : n - 1 \in T => n \in T
  PROVE  0..N \subseteq T
<1>1. SUFFICES ASSUME (0..N) \ T # {} PROVE FALSE
  OBVIOUS
<1> DEFINE Rest == (0..N) \ T
<1>2. PICK n \in Rest : \A m \in Rest : n <= m
  <2>1. Rest \subseteq Nat /\ Rest # {}
    BY <1>1
  <2> HIDE DEF Rest
  <2> QED
    BY <2>1, Least
<1>3. n # 0 /\ n - 1 \in 0..N /\ n \in 1..N
  BY <1>2
<1> QED
  BY <1>2, <1>3

(***************************************************************************)
(* The functions a recursion over 0..N defines: there is one, and whatever *)
(* satisfies the equation is one.                                          *)
(***************************************************************************)
Recursions(A, base, N, step) ==
  {g \in [0..N -> A] :
     /\ g[0] = base
     /\ \A n \in 1..N : g[n] = step[<<n, g[n - 1]>>]}

Steps(A, N) == [(1..N) \X A -> A]

LEMMA Recurse ==
  ASSUME NEW A, NEW base \in A, NEW N \in Nat, NEW step \in Steps(A, N)
  PROVE  Recursions(A, base, N, step) # {}
<1> USE DEF Recursions, Steps
<1> DEFINE Upto(m) == Recursions(A, base, m, step)
           T == {m \in 0..N : Upto(m) # {}}
<1>1. 0 \in T
  <2>1. [i \in 0..0 |-> base] \in Upto(0)
    OBVIOUS
  <2> QED
    BY <2>1
<1>2. ASSUME NEW m \in 1..N, m - 1 \in T PROVE m \in T
  <2>1. PICK g \in Upto(m - 1) : TRUE
    BY <1>2
  <2> DEFINE h == [i \in 0..m |-> IF i = m THEN step[<<m, g[m - 1]>>] ELSE g[i]]
  <2>2. /\ g \in [0..(m - 1) -> A] /\ g[0] = base
        /\ \A n \in 1..(m - 1) : g[n] = step[<<n, g[n - 1]>>]
    BY <2>1
  <2>3. h \in [0..m -> A]
    <3>1. g[m - 1] \in A
      BY <2>2
    <3>2. step[<<m, g[m - 1]>>] \in A
      BY <3>1
    <3> QED
      BY <2>2, <3>2
  <2>4. h[0] = base
    BY <2>2
  <2>5. ASSUME NEW n \in 1..m PROVE h[n] = step[<<n, h[n - 1]>>]
    <3>1. h[n - 1] = g[n - 1]
      OBVIOUS
    <3>2. CASE n = m
      <4>1. h[m] = step[<<m, g[m - 1]>>]
        OBVIOUS
      <4> QED
        BY <3>1, <3>2, <4>1
    <3>3. CASE n # m
      <4>1. n \in 1..(m - 1) /\ h[n] = g[n]
        BY <3>3
      <4> QED
        BY <2>2, <3>1, <4>1
    <3> QED
      BY <3>2, <3>3
  <2>6. h \in Upto(m)
    BY <2>3, <2>4, <2>5
  <2>7. m \in 0..N
    OBVIOUS
  <2> HIDE DEF Upto
  <2> QED
    BY <2>6, <2>7
<1>3. N \in T
  <2> HIDE DEF T
  <2>1. 0..N \subseteq T
    BY <1>1, <1>2, Induct
  <2> QED
    BY <2>1
<1> QED
  BY <1>3

FunctionOn(f, S) == f = [x \in S |-> f[x]]

LEMMA FunctionInto ==
  ASSUME NEW f, NEW S, NEW A, FunctionOn(f, S), \A x \in S : f[x] \in A
  PROVE  f \in [S -> A]
<1> DEFINE same == [x \in S |-> f[x]]
<1>1. same \in [S -> A]
  OBVIOUS
<1>2. f = same
  BY DEF FunctionOn
<1> HIDE DEF same
<1> QED
  BY <1>1, <1>2

LEMMA Unfold ==
  ASSUME NEW A, NEW base \in A, NEW N \in Nat, NEW step \in Steps(A, N),
         NEW f, FunctionOn(f, 0..N), f[0] = base,
         \A n \in 1..N : f[n - 1] \in A => f[n] = step[<<n, f[n - 1]>>]
  PROVE  f \in Recursions(A, base, N, step)
<1> DEFINE T == {n \in 0..N : f[n] \in A}
<1>1. 0 \in T
  OBVIOUS
<1>2. ASSUME NEW n \in 1..N, n - 1 \in T PROVE n \in T
  <2>1. f[n - 1] \in A /\ n \in 0..N
    BY <1>2
  <2>2. f[n] = step[<<n, f[n - 1]>>]
    BY <2>1
  <2>3. step[<<n, f[n - 1]>>] \in A
    BY <2>1 DEF Steps
  <2> QED
    BY <2>1, <2>2, <2>3
<1>3. 0..N \subseteq T
  <2> HIDE DEF T
  <2> QED
    BY <1>1, <1>2, Induct
<1>4. \A n \in 0..N : f[n] \in A
  BY <1>3
<1>5. f \in [0..N -> A]
  BY <1>4, FunctionInto
<1>6. \A n \in 1..N : f[n] = step[<<n, f[n - 1]>>]
  BY <1>4
<1> QED
  BY <1>5, <1>6 DEF Recursions

(***************************************************************************)
(* The two recursions of LogRecorder satisfy their equations.              *)
(***************************************************************************)
LEMMA TotalsDefined ==
  ASSUME NEW files \in Seq(LogFile)
  PROVE  /\ Totals(files) \in [0..Len(files) -> Nat]
         /\ Totals(files)[0] = 0
         /\ \A n \in 1..Len(files) :
              Totals(files)[n] = Totals(files)[n - 1] + files[n].size
<1> DEFINE N == Len(files)
           step == [p \in (1..N) \X Nat |-> p[2] + files[p[1]].size]
           Is(g) == g = [n \in 0..N |-> IF n = 0 THEN 0
                                        ELSE g[n - 1] + files[n].size]
<1>1. N \in Nat /\ \A n \in 1..N : files[n].size \in Nat
  <2>1. N \in Nat /\ \A n \in 1..N : files[n] \in LogFile
    OBVIOUS
  <2> QED
    BY <2>1 DEF LogFile
<1>2. /\ 0 \in Nat /\ step \in Steps(Nat, N)
      /\ \A n \in 1..N, sum \in Nat : step[<<n, sum>>] = sum + files[n].size
  BY <1>1 DEF Steps
<1> HIDE DEF step, N
<1>3. PICK g \in Recursions(Nat, 0, N, step) : TRUE
  BY <1>1, <1>2, Recurse
<1>4. Is(g)
  <2>1. /\ g \in [0..N -> Nat] /\ g[0] = 0
        /\ \A n \in 1..N : g[n] = step[<<n, g[n - 1]>>]
    BY <1>3 DEF Recursions
  <2>2. ASSUME NEW n \in 1..N
        PROVE  g[n] = g[n - 1] + files[n].size
    <3>1. g[n - 1] \in Nat
      BY <1>1, <2>1
    <3> QED
      BY <1>2, <2>1, <3>1
  <2> QED
    BY <1>1, <2>1, <2>2
<1>5. Is(Totals(files))
  BY <1>4 DEF Totals, N
<1> DEFINE f == Totals(files)
<1> HIDE DEF f
<1>6. /\ FunctionOn(f, 0..N)
      /\ f[0] = 0
      /\ \A n \in 1..N : f[n] = f[n - 1] + files[n].size
  <2>1. FunctionOn(f, 0..N)
    BY <1>5 DEF f, FunctionOn
  <2>2. /\ f[0] = 0
        /\ \A n \in 1..N : f[n] = f[n - 1] + files[n].size
    BY <1>1, <1>5 DEF f
  <2> QED
    BY <2>1, <2>2
<1>7. f \in Recursions(Nat, 0, N, step)
  <2>1. \A n \in 1..N : f[n - 1] \in Nat => f[n] = step[<<n, f[n - 1]>>]
    BY <1>2, <1>6
  <2> QED
    BY <1>1, <1>2, <1>6, <2>1, Unfold
<1> QED
  BY <1>6, <1>7 DEF Recursions, f, N

LEMMA KeepInSeq ==
  ASSUME NEW kept \in Seq(LogFile), NEW log \in LogFile
  PROVE  Keep(kept, log) \in Seq(LogFile)
BY DEF Keep

LEMMA RotationsDefined ==
  ASSUME NEW files \in Seq(LogFile)
  PROVE  /\ Rotations(files) \in [0..Len(files) -> Seq(LogFile)]
         /\ Rotations(files)[0] = <<>>
         /\ \A n \in 1..Len(files) :
              Rotations(files)[n] = Keep(Rotations(files)[n - 1], files[n])
<1> DEFINE N == Len(files)
           step == [p \in (1..N) \X Seq(LogFile) |-> Keep(p[2], files[p[1]])]
           Is(g) == g = [n \in 0..N |-> IF n = 0 THEN <<>>
                                        ELSE Keep(g[n - 1], files[n])]
<1>1. N \in Nat /\ \A n \in 1..N : files[n] \in LogFile
  <2>1. N \in Nat /\ \A n \in 1..N : files[n] \in LogFile
    OBVIOUS
  <2> QED
    BY <2>1 DEF LogFile
<1>2. /\ <<>> \in Seq(LogFile) /\ step \in Steps(Seq(LogFile), N)
      /\ \A n \in 1..N, kept \in Seq(LogFile) :
           step[<<n, kept>>] = Keep(kept, files[n])
  <2>1. <<>> \in Seq(LogFile)
    OBVIOUS
  <2>2. ASSUME NEW p \in (1..N) \X Seq(LogFile)
        PROVE  Keep(p[2], files[p[1]]) \in Seq(LogFile)
    BY <1>1, KeepInSeq
  <2>3. step \in Steps(Seq(LogFile), N)
    BY <2>2 DEF Steps
  <2>4. \A n \in 1..N, kept \in Seq(LogFile) :
          step[<<n, kept>>] = Keep(kept, files[n])
    OBVIOUS
  <2> QED
    BY <2>1, <2>3, <2>4
<1> HIDE DEF step, N
<1>3. PICK g \in Recursions(Seq(LogFile), <<>>, N, step) : TRUE
  BY <1>1, <1>2, Recurse
<1>4. Is(g)
  <2>1. /\ g \in [0..N -> Seq(LogFile)] /\ g[0] = <<>>
        /\ \A n \in 1..N : g[n] = step[<<n, g[n - 1]>>]
    BY <1>3 DEF Recursions
  <2>2. ASSUME NEW n \in 1..N
        PROVE  g[n] = Keep(g[n - 1], files[n])
    <3>1. g[n - 1] \in Seq(LogFile)
      BY <1>1, <2>1
    <3> QED
      BY <1>2, <2>1, <3>1
  <2> QED
    BY <1>1, <2>1, <2>2
<1>5. Is(Rotations(files))
  BY <1>4 DEF Rotations, N
<1> DEFINE f == Rotations(files)
<1> HIDE DEF f
<1>6. /\ FunctionOn(f, 0..N)
      /\ f[0] = <<>>
      /\ \A n \in 1..N : f[n] = Keep(f[n - 1], files[n])
  <2>1. FunctionOn(f, 0..N)
    BY <1>5 DEF f, FunctionOn
  <2>2. /\ f[0] = <<>>
        /\ \A n \in 1..N : f[n] = Keep(f[n - 1], files[n])
    BY <1>1, <1>5 DEF f
  <2> QED
    BY <2>1, <2>2
<1>7. f \in Recursions(Seq(LogFile), <<>>, N, step)
  <2>1. \A n \in 1..N :
          f[n - 1] \in Seq(LogFile) => f[n] = step[<<n, f[n - 1]>>]
    BY <1>2, <1>6
  <2> QED
    BY <1>1, <1>2, <1>6, <2>1, Unfold
<1> QED
  BY <1>6, <1>7 DEF Recursions, f, N

-----------------------------------------------------------------------------
(***************************************************************************)
(* The bytes of sequences that differ in one file: by induction over what  *)
(* their first files add up to.                                            *)
(***************************************************************************)
LEMMA TotalTyped ==
  ASSUME NEW files \in Seq(LogFile)
  PROVE  Total(files) \in Nat
BY TotalsDefined DEF Total

LEMMA TotalOfNone == Total(<<>>) = 0
<1>1. <<>> \in Seq(LogFile) /\ Len(<<>>) = 0
  OBVIOUS
<1> QED
  BY <1>1, TotalsDefined DEF Total

LEMMA TotalWithOneMore ==
  ASSUME NEW less \in Seq(LogFile), NEW more \in Seq(LogFile),
         NEW place \in 1..Len(more), Len(more) = Len(less) + 1,
         \A n \in 1..(place - 1) : more[n].size = less[n].size,
         \A n \in (place + 1)..Len(more) : more[n].size = less[n - 1].size
  PROVE  Total(more) = Total(less) + more[place].size
<1> DEFINE N == Len(more)
           f == Totals(less)
           g == Totals(more)
           size == more[place].size
           Summed(n) == g[n] = IF n < place THEN f[n] ELSE f[n - 1] + size
           T == {n \in 0..N : Summed(n)}
<1>1. /\ N \in Nat /\ place \in 1..N /\ N = Len(less) + 1
      /\ \A n \in 1..N : more[n].size \in Nat
      /\ \A n \in 1..(N - 1) : less[n].size \in Nat
  <2>1. N \in Nat /\ place \in 1..N /\ N = Len(less) + 1
    OBVIOUS
  <2>2. /\ \A n \in 1..N : more[n] \in LogFile
        /\ \A n \in 1..(N - 1) : less[n] \in LogFile
    OBVIOUS
  <2> HIDE DEF N
  <2> QED
    BY <2>1, <2>2 DEF LogFile
<1>2. /\ f \in [0..(N - 1) -> Nat] /\ f[0] = 0
      /\ \A n \in 1..(N - 1) : f[n] = f[n - 1] + less[n].size
  BY <1>1, TotalsDefined
<1>3. /\ g \in [0..N -> Nat] /\ g[0] = 0
      /\ \A n \in 1..N : g[n] = g[n - 1] + more[n].size
  BY TotalsDefined
<1> HIDE DEF f, g, N, size
<1>4. 0 \in T
  BY <1>1, <1>2, <1>3
<1>5. ASSUME NEW n \in 1..N, n - 1 \in T
      PROVE  n \in T
  <2>1. Summed(n - 1) /\ g[n] = g[n - 1] + more[n].size
    BY <1>3, <1>5
  <2>2. more[n].size \in Nat /\ size \in Nat
    BY <1>1 DEF size
  <2>3. CASE n < place
    <3>1. /\ more[n].size = less[n].size /\ n \in 1..(N - 1)
      BY <1>1, <2>3
    <3>2. f[n] = f[n - 1] + less[n].size
      BY <1>2, <3>1
    <3>3. g[n - 1] = f[n - 1]
      BY <2>1, <2>3
    <3> QED
      BY <1>1, <2>1, <2>3, <3>1, <3>2, <3>3
  <2>4. CASE n = place
    <3>1. g[n - 1] = f[n - 1]
      BY <2>1, <2>4
    <3> QED
      BY <1>1, <2>1, <2>4, <3>1 DEF size
  <2>5. CASE n > place
    <3>1. /\ more[n].size = less[n - 1].size /\ n - 1 \in 1..(N - 1)
      <4>1. n \in (place + 1)..Len(more)
        BY <1>1, <2>5 DEF N
      <4>2. n - 1 \in 1..(N - 1)
        BY <1>1, <2>5
      <4> QED
        BY <4>1, <4>2
    <3>2. f[n - 1] = f[n - 2] + less[n - 1].size
      <4>1. (n - 1) - 1 = n - 2
        OBVIOUS
      <4> QED
        BY <1>2, <3>1, <4>1
    <3>3. g[n - 1] = f[n - 2] + size
      <4>1. ~(n - 1 < place) /\ (n - 1) - 1 = n - 2
        BY <1>1, <2>5
      <4> QED
        BY <2>1, <4>1
    <3>4. f[n - 2] \in Nat /\ less[n - 1].size \in Nat
      <4>1. n - 2 \in 0..(N - 1)
        BY <1>1, <2>5
      <4>2. f[n - 2] \in Nat
        BY <1>2, <4>1
      <4>3. less[n - 1].size \in Nat
        BY <1>1, <3>1
      <4> QED
        BY <4>2, <4>3
    <3>5. g[n] = f[n - 1] + size
      BY <2>1, <2>2, <3>1, <3>2, <3>3, <3>4
    <3> QED
      BY <1>1, <2>5, <3>5
  <2> QED
    BY <1>1, <2>3, <2>4, <2>5
<1>6. 0..N \subseteq T
  <2>1. N \in Nat
    BY <1>1
  <2> HIDE DEF T
  <2> QED
    BY <1>4, <1>5, <2>1, Induct
<1>7. N \in T
  <2>1. N \in 0..N
    BY <1>1
  <2> HIDE DEF T
  <2> QED
    BY <1>6, <2>1
<1>8. g[N] = f[N - 1] + size
  BY <1>1, <1>7
<1> QED
  BY <1>1, <1>8 DEF Total, N, f, g, size

LEMMA TotalAppended ==
  ASSUME NEW files \in Seq(LogFile), NEW log \in LogFile
  PROVE  Total(Append(files, log)) = Total(files) + log.size
<1> DEFINE more == Append(files, log)
<1>1. /\ more \in Seq(LogFile) /\ Len(more) = Len(files) + 1
      /\ Len(more) \in 1..Len(more) /\ more[Len(more)] = log
      /\ \A n \in 1..(Len(more) - 1) : more[n].size = files[n].size
      /\ \A n \in (Len(more) + 1)..Len(more) : more[n].size = files[n - 1].size
  OBVIOUS
<1> HIDE DEF more
<1>2. Total(more) = Total(files) + more[Len(more)].size
  BY <1>1, TotalWithOneMore
<1> QED
  BY <1>1, <1>2 DEF more

(***************************************************************************)
(* What rotation keeps: a bounded number of bounded bytes of the files     *)
(* there were, the newest among them.                                      *)
(***************************************************************************)
OneActive(files) ==
  \A i, j \in 1..Len(files) : files[i].active /\ files[j].active => i = j

KeptOf(kept, files, n, limit) ==
  /\ kept \in Seq(LogFile)
  /\ Len(kept) <= MaxFiles
  /\ Total(kept) <= limit
  /\ \A i \in 1..Len(kept) : \E j \in 1..n : kept[i] = files[j]
  /\ OneActive(kept)
  /\ n > 0 => Len(kept) > 0 /\ kept[1] = files[1]

LEMMA KeepStep ==
  ASSUME NEW files \in Seq(LogFile), NEW n \in 1..Len(files), NEW limit \in Nat,
         MaxTotalBytes <= limit, OneActive(files),
         \A i \in 1..Len(files) : files[i].size <= limit,
         NEW kept, KeptOf(kept, files, n - 1, limit)
  PROVE  KeptOf(Keep(kept, files[n]), files, n, limit)
<1> DEFINE log == files[n]
<1>1. log \in LogFile /\ log.size \in Nat /\ kept \in Seq(LogFile)
  <2>1. log \in LogFile
    OBVIOUS
  <2>2. kept \in Seq(LogFile)
    BY DEF KeptOf
  <2> HIDE DEF log
  <2> QED
    BY <2>1, <2>2 DEF LogFile
<1>2. CASE /\ kept # <<>>
           /\ ~(Len(kept) < MaxFiles /\ Total(kept) + log.size <= MaxTotalBytes)
  <2>1. Keep(kept, log) = kept
    BY <1>2 DEF Keep
  <2>2. n - 1 > 0
    <3>1. Len(kept) > 0
      BY <1>1, <1>2
    <3>2. \E j \in 1..(n - 1) : kept[1] = files[j]
      BY <3>1 DEF KeptOf
    <3> QED
      BY <3>2
  <2>3. \A i \in 1..Len(kept) : \E j \in 1..n : kept[i] = files[j]
    BY DEF KeptOf
  <2> QED
    BY <2>1, <2>2, <2>3 DEF KeptOf
<1>3. CASE \/ kept = <<>>
           \/ Len(kept) < MaxFiles /\ Total(kept) + log.size <= MaxTotalBytes
  <2> DEFINE more == Append(kept, log)
  <2>1. Keep(kept, log) = more
    BY <1>3 DEF Keep
  <2>2. /\ more \in Seq(LogFile) /\ Len(more) = Len(kept) + 1
        /\ more[Len(more)] = log /\ Len(kept) \in Nat
        /\ \A i \in 1..Len(kept) : more[i] = kept[i]
    BY <1>1
  <2>3. Len(more) <= MaxFiles
    BY <1>3, <2>2, LogLimitsAssumption
  <2>4. Total(more) <= limit
    <3>1. Total(more) = Total(kept) + log.size
      BY <1>1, TotalAppended
    <3>2. log.size <= limit /\ Total(kept) \in Nat
      BY <1>1, TotalTyped
    <3>3. CASE kept = <<>>
      BY <1>1, <3>1, <3>2, <3>3, TotalOfNone
    <3>4. CASE Total(kept) + log.size <= MaxTotalBytes
      BY <1>1, <3>1, <3>2, <3>4, LogLimitsAssumption
    <3> QED
      BY <1>3, <3>3, <3>4
  <2> HIDE DEF more
  <2>5. \A i \in 1..Len(more) : \E j \in 1..n : more[i] = files[j]
    <3> SUFFICES ASSUME NEW i \in 1..Len(more)
                 PROVE  \E j \in 1..n : more[i] = files[j]
      OBVIOUS
    <3>1. CASE i = Len(more)
      BY <2>2, <3>1
    <3>2. CASE i \in 1..Len(kept)
      BY <2>2, <3>2 DEF KeptOf
    <3> QED
      BY <2>2, <3>1, <3>2
  <2>6. OneActive(more)
    <3>1. log.active => \A i \in 1..Len(kept) : ~kept[i].active
      <4> SUFFICES ASSUME log.active, NEW i \in 1..Len(kept), kept[i].active
                   PROVE  FALSE
        OBVIOUS
      <4>1. PICK j \in 1..(n - 1) : kept[i] = files[j]
        BY DEF KeptOf
      <4>2. files[j].active /\ j # n /\ j \in 1..Len(files)
        BY <4>1
      <4> QED
        BY <4>2 DEF OneActive
    <3>2. OneActive(kept)
      BY DEF KeptOf
    <3> QED
      BY <2>2, <3>1, <3>2 DEF OneActive
  <2>7. Len(more) > 0 /\ more[1] = files[1]
    <3>1. CASE kept = <<>>
      <4>1. n - 1 = 0
        BY <1>1, <3>1 DEF KeptOf
      <4> QED
        BY <2>2, <3>1, <4>1
    <3>2. CASE kept # <<>>
      <4>1. Len(kept) > 0 /\ 1 \in 1..Len(kept)
        BY <1>1, <3>2
      <4>2. \E j \in 1..(n - 1) : kept[1] = files[j]
        BY <4>1 DEF KeptOf
      <4>3. kept[1] = files[1]
        BY <4>2 DEF KeptOf
      <4> QED
        BY <2>2, <4>1, <4>3
    <3> QED
      BY <3>1, <3>2
  <2> QED
    BY <2>1, <2>2, <2>3, <2>4, <2>5, <2>6, <2>7 DEF KeptOf
<1> QED
  BY <1>2, <1>3

LEMMA RotatedKeeps ==
  ASSUME NEW files \in Seq(LogFile), NEW limit \in Nat,
         MaxTotalBytes <= limit, OneActive(files),
         \A i \in 1..Len(files) : files[i].size <= limit
  PROVE  KeptOf(Rotated(files), files, Len(files), limit)
<1> DEFINE N == Len(files)
           kept == Rotations(files)
           T == {n \in 0..N : KeptOf(kept[n], files, n, limit)}
<1>1. /\ N \in Nat /\ kept[0] = <<>>
      /\ \A n \in 1..N : kept[n] = Keep(kept[n - 1], files[n])
  BY RotationsDefined
<1> HIDE DEF kept
<1>2. 0 \in T
  <2>1. <<>> \in Seq(LogFile) /\ Len(<<>>) = 0 /\ MaxFiles \in Nat
    BY LogLimitsAssumption
  <2>2. KeptOf(<<>>, files, 0, limit)
    BY <2>1, TotalOfNone DEF KeptOf, OneActive
  <2> QED
    BY <1>1, <2>2
<1>3. ASSUME NEW n \in 1..N, n - 1 \in T
      PROVE  n \in T
  <2>1. KeptOf(Keep(kept[n - 1], files[n]), files, n, limit)
    BY <1>3, KeepStep
  <2>2. KeptOf(kept[n], files, n, limit)
    BY <1>1, <2>1
  <2>3. n \in 0..N
    BY <1>1
  <2> QED
    BY <2>2, <2>3
<1>4. 0..N \subseteq T
  <2> HIDE DEF T
  <2> QED
    BY <1>1, <1>2, <1>3, Induct
<1>5. N \in T
  BY <1>1, <1>4
<1>6. KeptOf(kept[N], files, N, limit)
  BY <1>5
<1> QED
  BY <1>6 DEF Rotated, kept

-----------------------------------------------------------------------------
(***************************************************************************)
(* A file put in a place, and one taken out of it.                         *)
(***************************************************************************)
Join(S, s, t, whole) ==
  /\ whole \in Seq(S)
  /\ Len(whole) = Len(s) + Len(t)
  /\ \A n \in 1..Len(s) : whole[n] = s[n]
  /\ \A n \in (Len(s) + 1)..(Len(s) + Len(t)) : whole[n] = t[n - Len(s)]

LEMMA Joined ==
  ASSUME NEW S, NEW s \in Seq(S), NEW t \in Seq(S), NEW whole, whole = s \o t
  PROVE  Join(S, s, t, whole)
<1>1. /\ whole \in Seq(S)
      /\ Len(whole) = Len(s) + Len(t)
      /\ \A n \in 1..(Len(s) + Len(t)) :
           whole[n] = IF n <= Len(s) THEN s[n] ELSE t[n - Len(s)]
  BY ConcatProperties, Zenon
<1> QED
  BY <1>1 DEF Join

LEMMA Inserted ==
  ASSUME NEW S, NEW s \in Seq(S), NEW place \in 1..(Len(s) + 1), NEW e \in S
  PROVE  /\ InsertAt(s, place, e) \in Seq(S)
         /\ Len(InsertAt(s, place, e)) = Len(s) + 1
         /\ InsertAt(s, place, e)[place] = e
         /\ \A n \in 1..(place - 1) : InsertAt(s, place, e)[n] = s[n]
         /\ \A n \in (place + 1)..(Len(s) + 1) :
              InsertAt(s, place, e)[n] = s[n - 1]
<1> DEFINE front == SubSeq(s, 1, place - 1)
           middle == <<e>>
           back == SubSeq(s, place, Len(s))
           N == Len(s)
<1>1. /\ front \in Seq(S) /\ Len(front) = place - 1
      /\ \A n \in 1..(place - 1) : front[n] = s[n]
  OBVIOUS
<1>2. middle \in Seq(S) /\ Len(middle) = 1 /\ middle[1] = e
  OBVIOUS
<1>3. /\ back \in Seq(S) /\ Len(back) = N - place + 1
      /\ \A n \in 1..(N - place + 1) : back[n] = s[place + n - 1]
  OBVIOUS
<1>4. N \in Nat /\ place \in 1..(N + 1)
  OBVIOUS
<1> HIDE DEF front, middle, back, N
<1> DEFINE start == front \o middle
<1>5. /\ start \in Seq(S) /\ Len(start) = place /\ start[place] = e
      /\ \A n \in 1..(place - 1) : start[n] = s[n]
  <2> DEFINE a == place - 1
             b == 1
  <2>1. /\ a \in Nat /\ b \in Nat /\ Len(front) = a /\ Len(middle) = b
        /\ start = front \o middle
    BY <1>1, <1>2, <1>4
  <2> HIDE DEF start, a, b
  <2>2. /\ start \in Seq(S) /\ Len(start) = Len(front) + Len(middle)
        /\ \A n \in 1..Len(front) : start[n] = front[n]
        /\ \A n \in (Len(front) + 1)..(Len(front) + Len(middle)) :
             start[n] = middle[n - Len(front)]
    <3>1. Join(S, front, middle, start)
      BY <1>1, <1>2, <2>1, Joined
    <3> QED
      BY <3>1 DEF Join
  <2>3. /\ place \in (a + 1)..(a + b) /\ place - a = 1 /\ a + b = place
    BY <1>4 DEF a, b
  <2>4. start[place] = e
    BY <1>2, <2>1, <2>2, <2>3
  <2>5. \A n \in 1..a : start[n] = s[n]
    BY <1>1, <2>1, <2>2 DEF a
  <2> QED
    BY <2>1, <2>2, <2>3, <2>4, <2>5 DEF a
<1> HIDE DEF start
<1> DEFINE whole == start \o back
<1>6. /\ whole \in Seq(S) /\ Len(whole) = N + 1
      /\ \A n \in 1..place : whole[n] = start[n]
      /\ \A n \in (place + 1)..(N + 1) : whole[n] = back[n - place]
  <2> DEFINE b == N - place + 1
  <2>1. /\ place \in Nat /\ b \in Nat /\ Len(start) = place /\ Len(back) = b
        /\ whole = start \o back
    BY <1>3, <1>4, <1>5
  <2> HIDE DEF whole, b
  <2>2. /\ whole \in Seq(S) /\ Len(whole) = Len(start) + Len(back)
        /\ \A n \in 1..Len(start) : whole[n] = start[n]
        /\ \A n \in (Len(start) + 1)..(Len(start) + Len(back)) :
             whole[n] = back[n - Len(start)]
    <3>1. Join(S, start, back, whole)
      BY <1>3, <1>5, <2>1, Joined
    <3> QED
      BY <3>1 DEF Join
  <2>3. place + b = N + 1
    BY <1>4 DEF b
  <2> QED
    BY <2>1, <2>2, <2>3
<1> HIDE DEF whole
<1>7. ASSUME NEW n \in (place + 1)..(N + 1)
      PROVE  whole[n] = s[n - 1]
  <2>1. n - place \in 1..(N - place + 1) /\ place + (n - place) - 1 = n - 1
    BY <1>4
  <2> QED
    BY <1>3, <1>6, <2>1
<1>8. whole = InsertAt(s, place, e)
  BY DEF InsertAt, whole, start, front, middle, back
<1>9. /\ whole[place] = e
      /\ \A n \in 1..(place - 1) : whole[n] = s[n]
  <2>1. /\ place \in 1..place
        /\ \A n \in 1..(place - 1) : n \in 1..place
    BY <1>4
  <2> QED
    BY <1>5, <1>6, <2>1
<1> QED
  BY <1>6, <1>7, <1>8, <1>9 DEF N

LEMMA Removed ==
  ASSUME NEW S, NEW s \in Seq(S), NEW place \in 1..Len(s)
  PROVE  /\ RemoveAt(s, place) \in Seq(S)
         /\ Len(RemoveAt(s, place)) = Len(s) - 1
         /\ \A n \in 1..(place - 1) : RemoveAt(s, place)[n] = s[n]
         /\ \A n \in place..(Len(s) - 1) : RemoveAt(s, place)[n] = s[n + 1]
<1> DEFINE front == SubSeq(s, 1, place - 1)
           back == SubSeq(s, place + 1, Len(s))
           N == Len(s)
<1>1. /\ front \in Seq(S) /\ Len(front) = place - 1
      /\ \A n \in 1..(place - 1) : front[n] = s[n]
  OBVIOUS
<1>2. /\ back \in Seq(S) /\ Len(back) = N - place
      /\ \A n \in 1..(N - place) : back[n] = s[place + n]
  OBVIOUS
<1>3. N \in Nat /\ place \in 1..N
  OBVIOUS
<1> HIDE DEF front, back, N
<1> DEFINE whole == front \o back
<1>4. /\ whole \in Seq(S) /\ Len(whole) = N - 1
      /\ \A n \in 1..(place - 1) : whole[n] = front[n]
      /\ \A n \in place..(N - 1) : whole[n] = back[n - (place - 1)]
  <2> DEFINE a == place - 1
             b == N - place
  <2>1. /\ a \in Nat /\ b \in Nat /\ Len(front) = a /\ Len(back) = b
        /\ whole = front \o back
    BY <1>1, <1>2, <1>3
  <2> HIDE DEF whole, a, b
  <2>2. /\ whole \in Seq(S) /\ Len(whole) = Len(front) + Len(back)
        /\ \A n \in 1..Len(front) : whole[n] = front[n]
        /\ \A n \in (Len(front) + 1)..(Len(front) + Len(back)) :
             whole[n] = back[n - Len(front)]
    <3>1. Join(S, front, back, whole)
      BY <1>1, <1>2, <2>1, Joined
    <3> QED
      BY <3>1 DEF Join
  <2>3. a + b = N - 1 /\ a + 1 = place
    BY <1>3 DEF a, b
  <2> QED
    BY <2>1, <2>2, <2>3 DEF a
<1> HIDE DEF whole
<1>5. ASSUME NEW n \in place..(N - 1)
      PROVE  whole[n] = s[n + 1]
  <2>1. /\ n - (place - 1) \in 1..(N - place)
        /\ place + (n - (place - 1)) = n + 1
    BY <1>3
  <2> QED
    BY <1>2, <1>4, <2>1
<1>6. whole = RemoveAt(s, place)
  BY DEF RemoveAt, whole, front, back
<1> QED
  BY <1>1, <1>4, <1>5, <1>6 DEF N

-----------------------------------------------------------------------------
(***************************************************************************)
(* The limits.                                                             *)
(***************************************************************************)
LEMMA LongestLine ==
  /\ Max(LineSizes) \in LineSizes
  /\ \A size \in LineSizes : size <= Max(LineSizes)
<1>1. \E longest \in LineSizes : \A size \in LineSizes : longest >= size
  <2>1. PICK longest \in LineSizes : \A size \in LineSizes : size <= longest
    BY ServiceAssumption
  <2>2. \A size \in LineSizes : longest >= size
    BY <2>1, ServiceAssumption
  <2> QED
    BY <2>2
<1>2. \A size \in LineSizes : Max(LineSizes) >= size
  BY <1>1 DEF Max
<1>3. Max(LineSizes) \in LineSizes
  BY <1>1 DEF Max
<1> QED
  BY <1>2, <1>3, ServiceAssumption

LEMMA LimitFacts ==
  /\ Limit \in Nat /\ Max(LineSizes) \in Nat
  /\ MaxTotalBytes <= Limit /\ MaxFileBytes <= Limit
  /\ \A size \in LineSizes : size <= Limit
<1> DEFINE All == {MaxTotalBytes, MaxFileBytes} \cup LineSizes
<1>1. /\ MaxTotalBytes \in Nat /\ MaxFileBytes \in Nat
      /\ LineSizes \subseteq Nat
  BY LogLimitsAssumption, ServiceAssumption
<1>2. All \subseteq Nat
  BY <1>1
<1>3. \E most \in All : \A one \in All : most >= one
  <2>1. Max(LineSizes) \in LineSizes /\ Max(LineSizes) \in Nat
    BY <1>1, LongestLine
  <2>2. \A size \in LineSizes : Max(LineSizes) >= size
    BY <1>1, <2>1, LongestLine
  <2>3. CASE MaxTotalBytes >= MaxFileBytes /\ MaxTotalBytes >= Max(LineSizes)
    BY <1>1, <2>1, <2>2, <2>3
  <2>4. CASE MaxFileBytes >= MaxTotalBytes /\ MaxFileBytes >= Max(LineSizes)
    BY <1>1, <2>1, <2>2, <2>4
  <2>5. CASE Max(LineSizes) >= MaxTotalBytes /\ Max(LineSizes) >= MaxFileBytes
    BY <1>1, <2>1, <2>2, <2>5
  <2> QED
    BY <1>1, <2>1, <2>3, <2>4, <2>5
<1>4. Limit \in All /\ \A one \in All : Limit >= one
  BY <1>3 DEF Max, Limit
<1>5. Max(LineSizes) \in Nat
  BY <1>1, LongestLine
<1> QED
  BY <1>1, <1>2, <1>4, <1>5

(***************************************************************************)
(* One line of the recorder: at most its bytes more, and in the file that  *)
(* is open, if that is still there.                                        *)
(***************************************************************************)
RecorderState ==
  [at: {"off", "starting", "reading", "rotating"}, open: BOOLEAN,
   active_size: Nat, in_order: BOOLEAN]

Bounded(files) ==
  /\ files \in Seq(LogFile)
  /\ OneActive(files)
  /\ \A i \in 1..Len(files) : files[i].size <= Limit

ActiveHolds(files, size) ==
  \A i \in 1..Len(files) : files[i].active => files[i].size = size

LEMMA ClosedFiles ==
  ASSUME NEW files \in Seq(LogFile)
  PROVE  /\ Closed(files) \in Seq(LogFile)
         /\ Len(Closed(files)) = Len(files)
         /\ \A i \in 1..Len(files) :
              Closed(files)[i].size = files[i].size /\ ~Closed(files)[i].active
<1>1. /\ Len(files) \in Nat /\ DOMAIN files = 1..Len(files)
      /\ \A i \in 1..Len(files) : files[i] \in LogFile
  OBVIOUS
<1>2. Closed(files) =
        [i \in 1..Len(files) |-> [files[i] EXCEPT !.active = FALSE]]
  BY <1>1 DEF Closed
<1>3. ASSUME NEW i \in 1..Len(files)
      PROVE  /\ [files[i] EXCEPT !.active = FALSE] \in LogFile
             /\ [files[i] EXCEPT !.active = FALSE].size = files[i].size
             /\ ~[files[i] EXCEPT !.active = FALSE].active
  BY <1>1 DEF LogFile
<1>4. Closed(files) \in [1..Len(files) -> LogFile]
  BY <1>2, <1>3
<1>5. Closed(files) \in Seq(LogFile) /\ Len(Closed(files)) = Len(files)
  BY <1>1, <1>4
<1> QED
  BY <1>2, <1>3, <1>5

LEMMA ClosedTotal ==
  ASSUME NEW files \in Seq(LogFile)
  PROVE  Total(Closed(files)) = Total(files)
<1> DEFINE closed == Closed(files)
           log == [size |-> 0, active |-> FALSE]
           more == Append(files, log)
<1>1. /\ closed \in Seq(LogFile) /\ Len(closed) = Len(files)
      /\ Len(files) \in Nat
      /\ \A i \in 1..Len(files) : closed[i].size = files[i].size
  BY ClosedFiles
<1> HIDE DEF closed
<1>2. log \in LogFile /\ log.size = 0
  BY DEF LogFile
<1> HIDE DEF log
<1>3. /\ more \in Seq(LogFile) /\ Len(more) = Len(closed) + 1
      /\ Len(more) \in 1..Len(more) /\ more[Len(more)] = log
      /\ \A n \in 1..(Len(more) - 1) : more[n].size = closed[n].size
      /\ \A n \in (Len(more) + 1)..Len(more) : more[n].size = closed[n - 1].size
  BY <1>1, <1>2
<1>4. Total(more) = Total(files) + 0
  BY <1>2, TotalAppended
<1> HIDE DEF more
<1>5. Total(more) = Total(closed) + 0
  BY <1>1, <1>2, <1>3, TotalWithOneMore
<1> QED
  BY <1>1, <1>4, <1>5, TotalTyped DEF closed

LEMMA ActiveFits ==
  ASSUME NEW state \in RecorderState, NEW size \in LineSizes
  PROVE  /\ [size |-> ActiveSize(state, size), active |-> TRUE] \in LogFile
         /\ ActiveSize(state, size) \in Nat
         /\ ActiveSize(state, size) <= Limit
<1>1. /\ size \in Nat /\ size <= Limit /\ Limit \in Nat
      /\ MaxFileBytes \in Nat /\ MaxFileBytes <= Limit
  BY ServiceAssumption, LogLimitsAssumption, LimitFacts
<1>2. state.active_size \in Nat
  BY DEF RecorderState
<1>3. ActiveSize(state, size) \in Nat /\ ActiveSize(state, size) <= Limit
  BY <1>1, <1>2 DEF ActiveSize, RollsOver
<1> QED
  BY <1>3 DEF LogFile

LEMMA OthersFacts ==
  ASSUME NEW files, Bounded(files), NEW state \in RecorderState,
         ActiveHolds(files, state.active_size), NEW size \in LineSizes,
         RollsOver(state, size) \/ ActiveLogs(files) # {}
  PROVE  LET others == Others(files, state, size) IN
         /\ others \in Seq(LogFile) /\ Len(others) <= Len(files)
         /\ \A i \in 1..Len(others) :
              ~others[i].active /\ others[i].size <= Limit
         /\ Total(others) + ActiveSize(state, size) = Total(files) + size
<1> DEFINE others == Others(files, state, size)
<1>1. files \in Seq(LogFile) /\ Len(files) \in Nat
  BY DEF Bounded
<1>2. size \in Nat /\ state.active_size \in Nat /\ Total(files) \in Nat
  BY <1>1, ServiceAssumption, TotalTyped DEF RecorderState
<1>3. CASE RollsOver(state, size)
  <2>1. others = Closed(files) /\ ActiveSize(state, size) = size
    BY <1>3 DEF Others, ActiveSize
  <2>2. /\ others \in Seq(LogFile) /\ Len(others) = Len(files)
        /\ \A i \in 1..Len(files) :
             others[i].size = files[i].size /\ ~others[i].active
    BY <1>1, <2>1, ClosedFiles
  <2>3. Total(others) = Total(files)
    BY <1>1, <2>1, ClosedTotal
  <2> HIDE DEF others
  <2> QED
    BY <1>1, <1>2, <2>1, <2>2, <2>3 DEF others, Bounded
<1>4. CASE ~RollsOver(state, size)
  <2> DEFINE a == CHOOSE i \in ActiveLogs(files) : TRUE
  <2>1. a \in ActiveLogs(files)
    BY <1>4
  <2>2. a \in 1..Len(files) /\ files[a].active
    BY <1>1, <2>1 DEF ActiveLogs
  <2>3. /\ others = RemoveAt(files, a)
        /\ ActiveSize(state, size) = state.active_size + size
    BY <1>4 DEF Others, ActiveSize
  <2> HIDE DEF a
  <2>4. /\ others \in Seq(LogFile) /\ Len(others) = Len(files) - 1
        /\ \A n \in 1..(a - 1) : others[n] = files[n]
        /\ \A n \in a..(Len(files) - 1) : others[n] = files[n + 1]
    BY <1>1, <2>2, <2>3, Removed
  <2> HIDE DEF others
  <2>5. Total(files) = Total(others) + files[a].size
    <3>1. Len(files) = Len(others) + 1
      BY <1>1, <2>4
    <3>2. \A n \in 1..(a - 1) : files[n].size = others[n].size
      BY <2>4
    <3>3. ASSUME NEW n \in (a + 1)..Len(files)
          PROVE  files[n].size = others[n - 1].size
      <4>1. n - 1 \in a..(Len(files) - 1) /\ (n - 1) + 1 = n
        BY <1>1, <2>2
      <4> QED
        BY <2>4, <4>1
    <3> QED
      BY <1>1, <2>2, <2>4, <3>1, <3>2, <3>3, TotalWithOneMore
  <2>6. files[a].size = state.active_size
    BY <2>2 DEF ActiveHolds
  <2>7. Total(others) \in Nat
    BY <2>4, TotalTyped
  <2>8. Total(others) + ActiveSize(state, size) = Total(files) + size
    BY <1>2, <2>3, <2>5, <2>6, <2>7
  <2>9. ASSUME NEW i \in 1..Len(others)
        PROVE  ~others[i].active /\ others[i].size <= Limit
    <3>1. PICK j \in 1..Len(files) : j # a /\ others[i] = files[j]
      <4>1. CASE i < a
        <5>1. i \in 1..(a - 1) /\ i \in 1..Len(files) /\ i # a
          BY <1>1, <2>2, <2>4, <4>1
        <5> QED
          BY <2>4, <5>1
      <4>2. CASE i >= a
        <5>1. /\ i \in a..(Len(files) - 1) /\ i + 1 \in 1..Len(files)
              /\ i + 1 # a
          BY <1>1, <2>2, <2>4, <4>2
        <5> QED
          BY <2>4, <5>1
      <4> QED
        BY <2>2, <4>1, <4>2
    <3>2. ~files[j].active
      BY <2>2, <3>1 DEF Bounded, OneActive
    <3>3. files[j].size <= Limit
      BY <3>1 DEF Bounded
    <3> QED
      BY <3>1, <3>2, <3>3
  <2> QED
    BY <1>1, <2>4, <2>8, <2>9 DEF others
<1> QED
  BY <1>3, <1>4

LEMMA WrittenFacts ==
  ASSUME NEW files, Bounded(files), NEW state \in RecorderState,
         ActiveHolds(files, state.active_size), NEW size \in LineSizes,
         NEW place \in 1..(Len(Others(files, state, size)) + 1)
  PROVE  LET written == Written(files, state, size, place) IN
         /\ Bounded(written)
         /\ ActiveHolds(written, ActiveSize(state, size))
         /\ Len(written) <= Len(files) + 1
         /\ Total(written) <= Total(files) + size
         /\ place = 1 /\ (RollsOver(state, size) \/ ActiveLogs(files) # {}) =>
              Len(written) > 0 /\ written[1].active
<1> DEFINE written == Written(files, state, size, place)
           others == Others(files, state, size)
           log == [size |-> ActiveSize(state, size), active |-> TRUE]
<1>1. files \in Seq(LogFile) /\ Len(files) \in Nat
  BY DEF Bounded
<1>2. size \in Nat /\ Total(files) \in Nat
  BY <1>1, ServiceAssumption, TotalTyped
<1>3. CASE ~RollsOver(state, size) /\ ActiveLogs(files) = {}
  <2>1. written = files
    BY <1>3 DEF Written
  <2>2. \A i \in 1..Len(files) : ~files[i].active
    BY <1>1, <1>3 DEF ActiveLogs
  <2> HIDE DEF written
  <2>3. ActiveHolds(written, ActiveSize(state, size))
    BY <2>1, <2>2 DEF ActiveHolds
  <2> QED
    BY <1>1, <1>2, <1>3, <2>1, <2>3 DEF written
<1>4. CASE RollsOver(state, size) \/ ActiveLogs(files) # {}
  <2>1. /\ others \in Seq(LogFile) /\ Len(others) <= Len(files)
        /\ \A i \in 1..Len(others) :
             ~others[i].active /\ others[i].size <= Limit
        /\ Total(others) + ActiveSize(state, size) = Total(files) + size
    BY <1>4, OthersFacts
  <2>2. /\ log \in LogFile /\ log.active /\ log.size = ActiveSize(state, size)
        /\ log.size <= Limit
    BY ActiveFits
  <2>3. written = InsertAt(others, place, log)
    BY <1>4 DEF Written
  <2>4. place \in 1..(Len(others) + 1) /\ Len(others) \in Nat
    BY <2>1
  <2> HIDE DEF written, others, log
  <2>5. /\ written \in Seq(LogFile) /\ Len(written) = Len(others) + 1
        /\ written[place] = log
        /\ \A n \in 1..(place - 1) : written[n] = others[n]
        /\ \A n \in (place + 1)..(Len(others) + 1) : written[n] = others[n - 1]
    <3> DEFINE put == InsertAt(others, place, log)
    <3>1. /\ put \in Seq(LogFile) /\ Len(put) = Len(others) + 1
          /\ put[place] = log
          /\ \A n \in 1..(place - 1) : put[n] = others[n]
          /\ \A n \in (place + 1)..(Len(others) + 1) : put[n] = others[n - 1]
      BY <2>1, <2>2, <2>4, Inserted
    <3> HIDE DEF put
    <3> QED
      BY <2>3, <3>1 DEF put
  <2>6. ASSUME NEW i \in 1..Len(written), i # place
        PROVE  ~written[i].active /\ written[i].size <= Limit
    <3>1. PICK j \in 1..Len(others) : written[i] = others[j]
      <4>1. CASE i < place
        <5>1. i \in 1..(place - 1) /\ i \in 1..Len(others)
          BY <2>4, <2>5, <4>1
        <5> QED
          BY <2>5, <5>1
      <4>2. CASE i > place
        <5>1. i \in (place + 1)..(Len(others) + 1) /\ i - 1 \in 1..Len(others)
          BY <2>4, <2>5, <4>2
        <5> QED
          BY <2>5, <5>1
      <4> QED
        BY <2>4, <2>6, <4>1, <4>2
    <3> QED
      BY <2>1, <3>1
  <2>7. Bounded(written)
    <3>1. OneActive(written)
      BY <2>6 DEF OneActive
    <3>2. \A i \in 1..Len(written) : written[i].size <= Limit
      BY <2>2, <2>5, <2>6
    <3> QED
      BY <2>5, <3>1, <3>2 DEF Bounded
  <2>8. ActiveHolds(written, ActiveSize(state, size))
    BY <2>2, <2>5, <2>6 DEF ActiveHolds
  <2>9. Total(written) = Total(others) + log.size
    <3>1. place \in 1..Len(written)
      BY <2>4, <2>5
    <3>2. \A n \in 1..(place - 1) : written[n].size = others[n].size
      BY <2>5
    <3>3. \A n \in (place + 1)..Len(written) :
            written[n].size = others[n - 1].size
      BY <2>5
    <3>4. Total(written) = Total(others) + written[place].size
      BY <2>1, <2>5, <3>1, <3>2, <3>3, TotalWithOneMore
    <3> QED
      BY <2>5, <3>4
  <2>10. Total(written) <= Total(files) + size
    BY <1>2, <2>1, <2>2, <2>9
  <2>11. place = 1 => Len(written) > 0 /\ written[1].active
    BY <2>2, <2>4, <2>5
  <2> QED
    BY <1>1, <2>1, <2>4, <2>5, <2>7, <2>8, <2>10, <2>11 DEF written
<1> QED
  BY <1>3, <1>4

-----------------------------------------------------------------------------
(***************************************************************************)
(* The inductive invariant of recorder and files.  Whoever reads lines has *)
(* rotated: only then is there room for one more file and one more line.   *)
(***************************************************************************)
RecorderOK ==
  /\ recorder \in RecorderState
  /\ recorder.at = "off" => recorder = NoRecorder
  /\ unit = "starting" => recorder.at = "off"

PipeOK == pipe \in Seq(LineSizes) /\ Len(pipe) <= PipeCapacity

FilesOK ==
  /\ Bounded(logs)
  /\ ActiveHolds(logs, recorder.active_size)
  /\ ~recorder.open => \A i \in 1..Len(logs) : ~logs[i].active

RoomOK ==
  /\ LogsAreBounded
  /\ recorder.at = "reading" => Len(logs) <= MaxFiles /\ Total(logs) <= Limit

NewestOK ==
  recorder.open /\ recorder.in_order => Len(logs) > 0 /\ logs[1].active

LogsOK == RecorderOK /\ PipeOK /\ FilesOK /\ RoomOK /\ NewestOK

LEMMA LogsInit == ServiceInit => LogsOK
<1> SUFFICES ASSUME ServiceInit PROVE LogsOK
  OBVIOUS
<1>1. /\ unit = "starting" /\ pipe = <<>> /\ recorder = NoRecorder
      /\ logs = <<>>
  BY DEF ServiceInit
<1>2. /\ NoRecorder \in RecorderState /\ NoRecorder.at = "off"
      /\ ~NoRecorder.open
  BY DEF NoRecorder, RecorderState
<1>3. <<>> \in Seq(LogFile) /\ <<>> \in Seq(LineSizes) /\ Len(<<>>) = 0
  OBVIOUS
<1>4. RecorderOK /\ PipeOK
  BY <1>1, <1>2, <1>3, ServiceAssumption DEF RecorderOK, PipeOK
<1>5. FilesOK
  BY <1>1, <1>2, <1>3 DEF FilesOK, Bounded, OneActive, ActiveHolds
<1>6. RoomOK
  BY <1>1, <1>2, <1>3, TotalOfNone, LimitFacts, LogLimitsAssumption
     DEF RoomOK, LogsAreBounded
<1>7. NewestOK
  BY <1>1, <1>2 DEF NewestOK
<1> QED
  BY <1>4, <1>5, <1>6, <1>7 DEF LogsOK

LEMMA RotateLogs ==
  ASSUME LogsOK, Rotate
  PROVE  LogsOK'
<1>1. /\ recorder.at \in {"starting", "rotating"}
      /\ recorder' = [recorder EXCEPT !.at = "reading"]
      /\ logs' = Rotated(logs) /\ pipe' = pipe /\ unit' = unit
  BY DEF Rotate, unit_vars
<1>2. /\ recorder \in RecorderState /\ unit # "starting"
  BY <1>1 DEF LogsOK, RecorderOK
<1>3. /\ recorder' \in RecorderState /\ recorder'.at = "reading"
      /\ recorder'.open = recorder.open
      /\ recorder'.active_size = recorder.active_size
      /\ recorder'.in_order = recorder.in_order
  BY <1>1, <1>2 DEF RecorderState
<1>4. /\ logs \in Seq(LogFile) /\ OneActive(logs) /\ Limit \in Nat
      /\ \A i \in 1..Len(logs) : logs[i].size <= Limit
      /\ MaxTotalBytes <= Limit
  BY LimitFacts DEF LogsOK, FilesOK, Bounded
<1> DEFINE kept == Rotated(logs)
<1>5. KeptOf(kept, logs, Len(logs), Limit)
  BY <1>4, RotatedKeeps
<1> HIDE DEF kept
<1>6. /\ kept \in Seq(LogFile) /\ OneActive(kept) /\ Len(kept) \in Nat
      /\ \A i \in 1..Len(kept) : \E j \in 1..Len(logs) : kept[i] = logs[j]
      /\ Len(kept) <= MaxFiles /\ Total(kept) <= Limit
      /\ Len(logs) > 0 => Len(kept) > 0 /\ kept[1] = logs[1]
  BY <1>5 DEF KeptOf
<1>7. logs' = kept
  BY <1>1 DEF kept
<1>8. RecorderOK'
  BY <1>1, <1>2, <1>3 DEF RecorderOK
<1>9. PipeOK'
  BY <1>1 DEF LogsOK, PipeOK
<1>10. FilesOK'
  <2>1. Bounded(kept)
    BY <1>4, <1>6 DEF Bounded
  <2>2. ActiveHolds(kept, recorder.active_size)
    BY <1>6 DEF LogsOK, FilesOK, ActiveHolds
  <2>3. ~recorder.open => \A i \in 1..Len(kept) : ~kept[i].active
    BY <1>6 DEF LogsOK, FilesOK
  <2> QED
    BY <1>3, <1>7, <2>1, <2>2, <2>3 DEF FilesOK, Bounded, OneActive, ActiveHolds
<1>11. RoomOK'
  <2>1. Len(kept) <= MaxFiles + 1 /\ Total(kept) <= Limit + Max(LineSizes)
    BY <1>6, LimitFacts, TotalTyped, LogLimitsAssumption
  <2> QED
    BY <1>6, <1>7, <2>1 DEF RoomOK, LogsAreBounded
<1>12. NewestOK'
  BY <1>3, <1>6, <1>7 DEF LogsOK, NewestOK
<1> QED
  BY <1>8, <1>9, <1>10, <1>11, <1>12 DEF LogsOK

LEMMA RecordLogs ==
  ASSUME LogsOK, RecordStep
  PROVE  LogsOK'
<1>1. PICK place \in 1..(MaxFiles + 1) : RecordLine(place)
  BY DEF RecordStep
<1> DEFINE size == Head(pipe)
           written == Written(logs, recorder, size, place)
<1>2. /\ recorder.at = "reading" /\ pipe # <<>>
      /\ place <= Len(Others(logs, recorder, size)) + 1
      /\ logs' = written /\ pipe' = Tail(pipe) /\ unit' = unit
      /\ recorder' = [at |-> "rotating", open |-> TRUE,
                      active_size |-> ActiveSize(recorder, size),
                      in_order |-> recorder.in_order /\ place = 1]
  BY <1>1 DEF RecordLine, unit_vars
<1>3. /\ pipe \in Seq(LineSizes) /\ size \in LineSizes
      /\ pipe' \in Seq(LineSizes) /\ Len(pipe') <= PipeCapacity
  BY <1>2, ServiceAssumption DEF LogsOK, PipeOK
<1> HIDE DEF size
<1>4. /\ recorder \in RecorderState /\ unit # "starting"
      /\ Bounded(logs) /\ ActiveHolds(logs, recorder.active_size)
      /\ Len(logs) <= MaxFiles /\ Total(logs) <= Limit
  BY <1>2 DEF LogsOK, RecorderOK, FilesOK, RoomOK
<1>5. place \in 1..(Len(Others(logs, recorder, size)) + 1)
  <2>1. CASE RollsOver(recorder, size) \/ ActiveLogs(logs) # {}
    BY <1>2, <1>3, <1>4, <2>1, OthersFacts
  <2>2. CASE ~(RollsOver(recorder, size) \/ ActiveLogs(logs) # {})
    <3>1. Others(logs, recorder, size) = logs /\ Len(logs) \in Nat
      BY <1>4, <2>2 DEF Others, Bounded
    <3> QED
      BY <1>2, <3>1
  <2> QED
    BY <2>1, <2>2
<1>6. /\ Bounded(written)
      /\ ActiveHolds(written, ActiveSize(recorder, size))
      /\ Len(written) <= Len(logs) + 1
      /\ Total(written) <= Total(logs) + size
      /\ place = 1 /\ (RollsOver(recorder, size) \/ ActiveLogs(logs) # {}) =>
           Len(written) > 0 /\ written[1].active
  BY <1>3, <1>4, <1>5, WrittenFacts
<1> HIDE DEF written
<1>7. /\ recorder' \in RecorderState /\ recorder'.at = "rotating"
      /\ recorder'.open /\ recorder'.active_size = ActiveSize(recorder, size)
      /\ recorder'.in_order => recorder.in_order /\ place = 1
  <2>1. ActiveSize(recorder, size) \in Nat /\ recorder.in_order \in BOOLEAN
    BY <1>3, <1>4, ActiveFits DEF RecorderState
  <2> QED
    BY <1>2, <2>1 DEF RecorderState
<1>8. RecorderOK'
  BY <1>2, <1>4, <1>7 DEF RecorderOK
<1>9. PipeOK'
  BY <1>3 DEF PipeOK
<1>10. FilesOK'
  BY <1>2, <1>6, <1>7 DEF FilesOK, Bounded, OneActive, ActiveHolds
<1>11. RoomOK'
  <2>1. /\ written \in Seq(LogFile) /\ Len(written) \in Nat
        /\ logs \in Seq(LogFile) /\ Len(logs) \in Nat
    BY <1>4, <1>6 DEF Bounded
  <2>2. /\ Total(written) \in Nat /\ Total(logs) \in Nat /\ size \in Nat
        /\ size <= Max(LineSizes) /\ MaxFiles \in Nat /\ Limit \in Nat
        /\ Max(LineSizes) \in Nat
    BY <1>3, <2>1, TotalTyped, LongestLine, LimitFacts, ServiceAssumption,
       LogLimitsAssumption
  <2>3. Len(written) <= MaxFiles + 1 /\ Total(written) <= Limit + Max(LineSizes)
    BY <1>4, <1>6, <2>1, <2>2
  <2> QED
    BY <1>2, <1>7, <2>3 DEF RoomOK, LogsAreBounded
<1>12. NewestOK'
  <2> SUFFICES ASSUME recorder.in_order, place = 1
               PROVE  Len(written) > 0 /\ written[1].active
    BY <1>2, <1>7 DEF NewestOK
  <2>1. RollsOver(recorder, size) \/ ActiveLogs(logs) # {}
    <3>1. CASE recorder.open
      <4>1. Len(logs) > 0 /\ logs[1].active /\ logs \in Seq(LogFile)
        BY <1>4, <3>1 DEF LogsOK, NewestOK, Bounded
      <4> QED
        BY <4>1 DEF ActiveLogs
    <3>2. CASE ~recorder.open
      BY <3>2 DEF RollsOver
    <3> QED
      BY <3>1, <3>2
  <2> QED
    BY <1>6, <2>1
<1> QED
  BY <1>8, <1>9, <1>10, <1>11, <1>12 DEF LogsOK

LEMMA GoneLogs ==
  ASSUME LogsOK, NEW failed, RecorderGone(failed)
  PROVE  LogsOK'
<1>1. /\ recorder' = NoRecorder /\ logs' = Closed(logs) /\ pipe' = <<>>
  BY DEF RecorderGone
<1>2. /\ NoRecorder \in RecorderState /\ NoRecorder.at = "off"
      /\ ~NoRecorder.open
  BY DEF NoRecorder, RecorderState
<1> DEFINE closed == Closed(logs)
<1>3. logs \in Seq(LogFile) /\ Len(logs) \in Nat
  BY DEF LogsOK, FilesOK, Bounded
<1>4. /\ closed \in Seq(LogFile) /\ Len(closed) = Len(logs)
      /\ \A i \in 1..Len(closed) :
           closed[i].size = logs[i].size /\ ~closed[i].active
  BY <1>3, ClosedFiles
<1>5. Total(closed) = Total(logs)
  BY <1>3, ClosedTotal
<1> HIDE DEF closed
<1>6. logs' = closed
  BY <1>1 DEF closed
<1>7. RecorderOK'
  BY <1>1, <1>2 DEF RecorderOK
<1>8. PipeOK'
  <2>1. <<>> \in Seq(LineSizes) /\ Len(<<>>) = 0
    OBVIOUS
  <2> QED
    BY <1>1, <2>1, ServiceAssumption DEF PipeOK
<1>9. FilesOK'
  <2>1. \A i \in 1..Len(closed) : closed[i].size <= Limit
    BY <1>3, <1>4 DEF LogsOK, FilesOK, Bounded
  <2> QED
    BY <1>4, <1>6, <2>1 DEF FilesOK, Bounded, OneActive, ActiveHolds
<1>10. RoomOK'
  BY <1>1, <1>2, <1>4, <1>5, <1>6 DEF LogsOK, RoomOK, LogsAreBounded
<1>11. NewestOK'
  BY <1>1, <1>2 DEF NewestOK
<1> QED
  BY <1>7, <1>8, <1>9, <1>10, <1>11 DEF LogsOK

(***************************************************************************)
(* Every other step leaves recorder and files alone, or starts a recorder  *)
(* where there was none.                                                   *)
(***************************************************************************)
LEMMA StartLogs ==
  ASSUME LogsOK, Start
  PROVE  LogsOK'
<1>1. /\ unit = "starting" /\ unit' = "active" /\ pipe' = <<>> /\ logs' = logs
      /\ recorder' \in {NewRecorder, NoRecorder}
  BY DEF Start
<1>2. recorder = NoRecorder
  BY <1>1 DEF LogsOK, RecorderOK
<1>3. ASSUME NEW state \in {NewRecorder, NoRecorder}
      PROVE  /\ state \in RecorderState /\ state.at \in {"starting", "off"}
             /\ ~state.open /\ state.active_size = 0
             /\ state.at = "off" => state = NoRecorder
  <2>1. /\ NoRecorder \in RecorderState /\ NoRecorder.at = "off"
        /\ NoRecorder.active_size = 0 /\ ~NoRecorder.open
    BY DEF NoRecorder, RecorderState
  <2>2. /\ NewRecorder \in RecorderState /\ NewRecorder.at = "starting"
        /\ NewRecorder.active_size = 0 /\ NewRecorder.open = NoRecorder.open
    BY <2>1 DEF NewRecorder, RecorderState
  <2> QED
    BY <2>1, <2>2
<1>4. RecorderOK'
  BY <1>1, <1>3 DEF RecorderOK
<1>5. PipeOK'
  <2>1. <<>> \in Seq(LineSizes) /\ Len(<<>>) = 0
    OBVIOUS
  <2> QED
    BY <1>1, <2>1, ServiceAssumption DEF PipeOK
<1>6. ~recorder.open /\ recorder.active_size = 0
  BY <1>2, <1>3
<1>7. FilesOK' /\ NewestOK'
  BY <1>1, <1>3, <1>6
     DEF LogsOK, FilesOK, Bounded, OneActive, ActiveHolds, NewestOK
<1>8. RoomOK'
  BY <1>1, <1>3 DEF LogsOK, RoomOK, LogsAreBounded
<1> QED
  BY <1>4, <1>5, <1>7, <1>8 DEF LogsOK

LEMMA QuietLogs ==
  ASSUME LogsOK, recorder' = recorder, logs' = logs, PipeOK',
         unit' = "starting" => unit = "starting" \/ recorder.at = "off"
  PROVE  LogsOK'
BY DEF LogsOK, RecorderOK, FilesOK, Bounded, OneActive, ActiveHolds, RoomOK,
       LogsAreBounded, NewestOK

LEMMA PrintPipe ==
  ASSUME LogsOK, PrintStep
  PROVE  PipeOK'
<1>1. PICK size \in LineSizes : PrintSnapshot(size)
  BY DEF PrintStep
<1>2. CASE managed
  <2>1. Len(pipe) < PipeCapacity /\ pipe' = Append(pipe, size)
    BY <1>1, <1>2 DEF PrintSnapshot
  <2> QED
    BY <2>1, ServiceAssumption DEF LogsOK, PipeOK
<1>3. CASE ~managed
  BY <1>1, <1>3 DEF PrintSnapshot, LogsOK, PipeOK
<1> QED
  BY <1>2, <1>3

LEMMA LogsStep == LogsOK /\ [Next]_service_vars => LogsOK'
<1> SUFFICES ASSUME LogsOK, [Next]_service_vars PROVE LogsOK'
  OBVIOUS
<1> USE DEF unit_vars, process_vars, recorder_vars
<1>1. pipe' = pipe => PipeOK'
  BY DEF LogsOK, PipeOK
<1>2. CASE Start
  BY <1>2, StartLogs
<1>3. CASE LaunchStep
  BY <1>1, <1>3, QuietLogs DEF LaunchStep, Launch
<1>4. CASE TurnStep
  BY <1>1, <1>4, QuietLogs DEF TurnStep, Turn
<1>5. CASE LeaveLoop \/ PrintToNobody \/ TimePasses
  BY <1>1, <1>5, QuietLogs DEF LeaveLoop, PrintToNobody, TimePasses
<1>6. CASE PrintStep
  <2>1. UNCHANGED <<recorder, logs, unit>>
    BY <1>6 DEF PrintStep, PrintSnapshot
  <2> QED
    BY <1>6, <2>1, PrintPipe, QuietLogs
<1>7. CASE Rotate
  BY <1>7, RotateLogs
<1>8. CASE RecordStep
  BY <1>8, RecordLogs
<1>9. CASE RecorderEnds
  BY <1>9, GoneLogs DEF RecorderEnds
<1>10. CASE RecorderDies
  BY <1>10, GoneLogs DEF RecorderDies
<1>11. CASE UnitEnds
  BY <1>1, <1>11, QuietLogs DEF UnitEnds
<1>12. CASE Stop
  <2>1. CASE recorder.at = "off"
    BY <1>1, <1>12, <2>1, QuietLogs DEF Stop
  <2>2. CASE recorder.at # "off"
    BY <1>12, <2>2, GoneLogs DEF Stop
  <2> QED
    BY <2>1, <2>2
<1>13. CASE PowerCycle
  BY <1>13, GoneLogs DEF PowerCycle
<1>14. CASE Replug \/ BecomeQuiet
  BY <1>1, <1>14, QuietLogs DEF Replug, BecomeQuiet
<1>15. CASE UNCHANGED service_vars
  BY <1>1, <1>15, QuietLogs DEF service_vars
<1> QED
  BY <1>2, <1>3, <1>4, <1>5, <1>6, <1>7, <1>8, <1>9, <1>10, <1>11, <1>12,
     <1>13, <1>14, <1>15 DEF Next

LEMMA LogsCorrect == Spec => []LogsOK
BY LogsInit, LogsStep, PTL DEF Spec

(***************************************************************************)
(* The types of the rest.                                                  *)
(***************************************************************************)
NamesTyped ==
  /\ line \in CommandLines \cup LauncherLines
  /\ unit \in {"starting", "active", "stopped"}
  /\ process \in {"off", "starting", "running", "printing"}
  /\ exit_code \in {0, 1, 2, Killed}
  /\ peer \in Senders \cup {NoPeer}
  /\ flight \in {"disabled", "waiting", "active", "completed", "failed"}

FlagsTyped ==
  /\ managed \in BOOLEAN /\ stop_requested \in BOOLEAN
  /\ present \in BOOLEAN /\ quiet \in BOOLEAN
  /\ keep_running \in BOOLEAN /\ snapshot_due \in BOOLEAN
  /\ recorder_failed \in BOOLEAN

LEMMA AdvancesTyped ==
  ASSUME NEW from \in {"disabled", "waiting", "active", "completed", "failed"}
  PROVE  Advances(from) \subseteq
           {"disabled", "waiting", "active", "completed", "failed"}
BY DEF Advances

LEMMA TurnNames ==
  ASSUME NamesTyped, TurnStep
  PROVE  NamesTyped'
<1>1. PICK key \in Keys, read \in UdpReadOutcomes(Senders),
           write \in {"none", "written", "error"}, accepted \in BOOLEAN :
             Turn(key, read, write, accepted)
  BY DEF TurnStep
<1>2. UNCHANGED <<line, unit>>
  BY <1>1 DEF Turn
<1>3. CASE key = "q"
  BY <1>1, <1>2, <1>3 DEF Turn, Exit, NamesTyped
<1>4. CASE key # "q"
  <2>1. PollLink(key, accepted, read, write)
    BY <1>1, <1>4 DEF Turn
  <2>2. UdpRead(peer, read) \in Senders \cup {NoPeer}
    BY DEF UdpRead, UdpReadOutcomes, NamesTyped
  <2>3. peer' \in Senders \cup {NoPeer}
    BY <2>1, <2>2 DEF PollLink, NamesTyped
  <2>4. /\ process' \in {"off", "printing", "running"}
        /\ exit_code' \in {0, 1, 2, Killed}
    BY <2>1 DEF PollLink, Exit, NamesTyped
  <2>5. flight' \in {"disabled", "waiting", "active", "completed", "failed"}
    <3>1. CASE flight' = flight
      BY <3>1 DEF NamesTyped
    <3>2. CASE flight' # flight
      <4>1. flight' \in Advances(IF accepted THEN "waiting" ELSE flight)
        BY <2>1, <3>2 DEF PollLink
      <4>2. (IF accepted THEN "waiting" ELSE flight) \in
              {"disabled", "waiting", "active", "completed", "failed"}
        BY DEF NamesTyped
      <4> QED
        BY <4>1, <4>2, AdvancesTyped
    <3> QED
      BY <3>1, <3>2
  <2> QED
    BY <1>2, <2>3, <2>4, <2>5 DEF NamesTyped
<1> QED
  BY <1>3, <1>4

LEMMA NamesStep == NamesTyped /\ [Next]_service_vars => NamesTyped'
<1> SUFFICES ASSUME NamesTyped, [Next]_service_vars PROVE NamesTyped'
  OBVIOUS
<1> USE DEF unit_vars, process_vars, recorder_vars, NamesTyped, Exit
<1>1. CASE Start
  BY <1>1 DEF Start
<1>2. CASE LaunchStep
  BY <1>2 DEF LaunchStep, Launch
<1>3. CASE TurnStep
  BY <1>3, TurnNames
<1>4. CASE LeaveLoop \/ PrintToNobody \/ TimePasses
  BY <1>4 DEF LeaveLoop, PrintToNobody, TimePasses, Reports
<1>5. CASE PrintStep
  BY <1>5 DEF PrintStep, PrintSnapshot, Reports
<1>6. CASE Rotate \/ RecordStep
  BY <1>6 DEF Rotate, RecordStep, RecordLine
<1>7. CASE RecorderEnds \/ RecorderDies
  BY <1>7 DEF RecorderEnds, RecorderDies
<1>8. CASE UnitEnds
  BY <1>8 DEF UnitEnds
<1>9. CASE Stop
  BY <1>9 DEF Stop
<1>10. CASE PowerCycle
  BY <1>10 DEF PowerCycle
<1>11. CASE Replug \/ BecomeQuiet
  BY <1>11 DEF Replug, BecomeQuiet
<1>12. CASE UNCHANGED service_vars
  BY <1>12 DEF service_vars
<1> QED
  BY <1>1, <1>2, <1>3, <1>4, <1>5, <1>6, <1>7, <1>8, <1>9, <1>10, <1>11,
     <1>12 DEF Next

LEMMA FlagsStep == FlagsTyped /\ [Next]_service_vars => FlagsTyped'
<1> SUFFICES ASSUME FlagsTyped, [Next]_service_vars PROVE FlagsTyped'
  OBVIOUS
<1> USE DEF unit_vars, process_vars, recorder_vars, FlagsTyped, RecorderGone
<1>1. CASE Start
  BY <1>1 DEF Start
<1>2. CASE LaunchStep
  BY <1>2 DEF LaunchStep, Launch
<1>3. CASE TurnStep
  BY <1>3 DEF TurnStep, Turn, PollLink
<1>4. CASE LeaveLoop \/ PrintToNobody \/ TimePasses
  BY <1>4 DEF LeaveLoop, PrintToNobody, TimePasses
<1>5. CASE PrintStep
  BY <1>5 DEF PrintStep, PrintSnapshot
<1>6. CASE Rotate \/ RecordStep
  BY <1>6 DEF Rotate, RecordStep, RecordLine
<1>7. CASE RecorderEnds \/ RecorderDies
  BY <1>7 DEF RecorderEnds, RecorderDies
<1>8. CASE UnitEnds
  BY <1>8 DEF UnitEnds
<1>9. CASE Stop
  BY <1>9 DEF Stop
<1>10. CASE PowerCycle
  BY <1>10 DEF PowerCycle
<1>11. CASE Replug \/ BecomeQuiet
  BY <1>11 DEF Replug, BecomeQuiet
<1>12. CASE UNCHANGED service_vars
  BY <1>12 DEF service_vars
<1> QED
  BY <1>1, <1>2, <1>3, <1>4, <1>5, <1>6, <1>7, <1>8, <1>9, <1>10, <1>11,
     <1>12 DEF Next

LEMMA TypesFollow ==
  ASSUME NamesTyped, FlagsTyped, LogsOK
  PROVE  ServiceTypeOK
<1>1. pipe \in UNION {[1..n -> LineSizes] : n \in 0..PipeCapacity}
  <2>1. pipe \in [1..Len(pipe) -> LineSizes] /\ Len(pipe) \in 0..PipeCapacity
    BY ServiceAssumption DEF LogsOK, PipeOK
  <2> QED
    BY <2>1
<1>2. /\ logs \in Seq(LogFile) /\ DOMAIN logs = 1..Len(logs)
      /\ \A i \in 1..Len(logs) : logs[i] \in LogFile
  BY DEF LogsOK, FilesOK, Bounded
<1>3. \A i \in DOMAIN logs : logs[i].size \in Nat /\ logs[i].active \in BOOLEAN
  BY <1>2 DEF LogFile
<1>4. Cardinality(ActiveLogs(logs)) <= 1
  <2>1. \A i, j \in ActiveLogs(logs) : i = j
    BY <1>2 DEF ActiveLogs, LogsOK, FilesOK, Bounded, OneActive
  <2>2. CASE ActiveLogs(logs) = {}
    BY <2>2, FS_EmptySet
  <2>3. CASE ActiveLogs(logs) # {}
    <3>1. PICK i \in ActiveLogs(logs) : TRUE
      BY <2>3
    <3>2. ActiveLogs(logs) = {i}
      BY <2>1, <3>1
    <3>3. Cardinality({i}) = 1
      BY FS_Singleton
    <3> QED
      BY <3>2, <3>3
  <2> QED
    BY <2>2, <2>3
<1>5. /\ recorder.at \in {"off", "starting", "reading", "rotating"}
      /\ recorder.at = "off" => recorder = NoRecorder
  BY DEF LogsOK, RecorderOK, RecorderState
<1>6. {managed, stop_requested, present, quiet, keep_running, snapshot_due,
       recorder_failed} \subseteq BOOLEAN
  BY DEF FlagsTyped
<1> QED
  BY <1>1, <1>3, <1>4, <1>5, <1>6
     DEF NamesTyped, ServiceTypeOK

(***************************************************************************)
(* LogInvariant: rotate_jsonl_logs keeps the directory bounded at every    *)
(* moment, with any limits and sizes of lines, whatever the clock does and *)
(* wherever the recorder dies: between a line and the rotation after it    *)
(* there is one file and one line more, and never two.                     *)
(***************************************************************************)
THEOREM LogCorrect == Spec => []LogInvariant
<1>1. ServiceInit => NamesTyped
  BY DEF ServiceInit, NamesTyped
<1>2. ServiceInit => FlagsTyped
  BY DEF ServiceInit, FlagsTyped
<1>3. NamesTyped /\ FlagsTyped /\ LogsOK => LogInvariant
  BY TypesFollow DEF LogInvariant, LogsOK, RoomOK
<1> QED
  BY <1>1, <1>2, <1>3, NamesStep, FlagsStep, LogsCorrect, PTL DEF Spec

(***************************************************************************)
(* ActiveSurvives: while every line makes its file the newest, the file    *)
(* that stream_jsonl_logs has open is the one rotation exempts.            *)
(***************************************************************************)
THEOREM SurvivesCorrect == Spec => []ActiveSurvives
<1>1. LogsOK => ActiveSurvives
  <2> SUFFICES ASSUME LogsOK, recorder.open, recorder.in_order
               PROVE  ActiveLogs(logs) # {}
    BY DEF ActiveSurvives
  <2>1. Len(logs) > 0 /\ logs[1].active /\ logs \in Seq(LogFile)
    BY DEF LogsOK, NewestOK, FilesOK, Bounded
  <2> QED
    BY <2>1 DEF ActiveLogs
<1> QED
  BY <1>1, LogsCorrect, PTL
=============================================================================
