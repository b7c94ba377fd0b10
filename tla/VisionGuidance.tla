---------------------------- MODULE VisionGuidance ----------------------------
(***************************************************************************)
(* From the camera frame to the LAND command: VisionMonitor feeds the      *)
(* TargetTracker, current_landing_target of CompanionApplication decides   *)
(* whether the track is good enough, AutonomyRuntime guides by it.         *)
(*                                                                         *)
(* The poll handles a camera frame first, at its own instant; detection,   *)
(* and reading the transport, take time before the rest of the poll looks  *)
(* at the track.  The vehicle stays connected with its failsafe accepted,  *)
(* and startup is either under way or completed: CompanionApplication has  *)
(* the other cases.                                                        *)
(***************************************************************************)
EXTENDS FlightInterface

CONSTANTS Tags, NoTag, RequiredObservations, LossTimeout,
          MinimumDecisionMargin

CONSTANTS
  Margins,                   \* the decision margins observations come with
  MaximumLandingTargetAge    \* kMaximumLandingTargetAge, 250 ms

ASSUME TagsAssumption == NoTag \notin Tags

ASSUME TrackerConfigAssumption ==
  /\ RequiredObservations \in Nat \ {0}
  /\ LossTimeout \in Nat \ {0}
  /\ MinimumDecisionMargin \in Nat \ {0}
  /\ Margins \subseteq Nat

ASSUME LandingTargetAgeAssumption == MaximumLandingTargetAge \in Nat

VARIABLES target_id, consecutive_observations, observation_age, position

VARIABLES
  phase, motion_safety_status, vehicle_system_id, land_command_after,
  target_missing_since, next_landing_target, acknowledgement_deadline,
  landing_deadline, land_attempt, awaiting_land_ack,
  vision_landing_target_active

VARIABLES
  polling,      \* what comes next: "camera", the rest of the poll ("vehicle"),
                \* or the rest of one that handled acknowledgements ("reading")
  given,        \* the tag of the valid landing target of the last poll
  given_for,    \* how long every poll gave that tag, up to the warm-up
  sightings     \* of each tag: frames in a row with a valid observation, each
                \* within the loss timeout of the one before, and time since

Tracker == INSTANCE TargetTracker

Autonomy == INSTANCE AutonomyRuntime

tracker_vars ==
  <<target_id, consecutive_observations, observation_age, position>>

runtime_vars ==
  <<phase, motion_safety_status, vehicle_system_id, land_command_after,
    target_missing_since, next_landing_target, acknowledgement_deadline,
    landing_deadline, land_attempt, awaiting_land_ack,
    vision_landing_target_active>>

vars == <<tracker_vars, runtime_vars, polling, given, given_for, sightings>>

Unseen == [streak |-> 0, ago |-> LossTimeout + 1]

Init ==
  /\ Tracker!Init
  /\ Autonomy!Init
  /\ polling = "camera"
  /\ given = NoTag
  /\ given_for = 0
  /\ sightings = [tag \in Tags |-> Unseen]

-----------------------------------------------------------------------------
Observations == [id: Tags, margin: Margins]

(***************************************************************************)
(* The frames TLC tries: at most one observation of each tag.              *)
(***************************************************************************)
Frames ==
  {frame \in SUBSET Observations :
     \A one, other \in frame : one.id = other.id => one = other}

Seen(frame, tag) ==
  \E observation \in frame :
    observation.id = tag /\ Tracker!ValidObservation(observation)

Sighted(sighting) ==
  [streak |-> IF sighting.ago > LossTimeout THEN 1
              ELSE IF sighting.streak < RequiredObservations
                THEN sighting.streak + 1 ELSE RequiredObservations,
   ago |-> 0]

Missed(sighting) == [streak |-> 0, ago |-> sighting.ago]

Older(sighting) ==
  [streak |-> sighting.streak,
   ago |-> IF sighting.ago <= LossTimeout THEN sighting.ago + 1
                                          ELSE sighting.ago]

Sighting(frame) ==
  [tag \in Tags |-> IF Seen(frame, tag) THEN Sighted(sightings[tag])
                                        ELSE Missed(sightings[tag])]

(***************************************************************************)
(* CameraMonitor::poll: no frame is waiting, or VisionMonitor::process     *)
(* hands the tracker what the detector found in one.                       *)
(***************************************************************************)
NoFrameWaiting ==
  /\ polling = "camera"
  /\ polling' = "vehicle"
  /\ UNCHANGED <<tracker_vars, runtime_vars, given, given_for, sightings>>

ProcessFrame(frame) ==
  /\ polling = "camera"
  /\ Tracker!Update(frame)
  /\ sightings' = Sighting(frame)
  /\ polling' = "vehicle"
  /\ UNCHANGED <<runtime_vars, given, given_for>>

(***************************************************************************)
(* Mutant: current_landing_target does not look at the age.                *)
(***************************************************************************)
CurrentTagOfAnyAge ==
  IF Tracker!TrackPhase = "tracking" THEN target_id ELSE NoTag

(***************************************************************************)
(* current_landing_target, as the tag it is about.                         *)
(***************************************************************************)
CurrentTag ==
  IF /\ Tracker!TrackPhase = "tracking"
     /\ observation_age <= MaximumLandingTargetAge
    THEN target_id
    ELSE NoTag

LandingTarget(below) ==
  IF CurrentTag = NoTag THEN "none" ELSE IF below THEN "valid" ELSE "invalid"

(***************************************************************************)
(* The rest of the poll.  below says whether camera_to_body_frd places the *)
(* tag below the vehicle.                                                  *)
(***************************************************************************)
GuideVehicle(vehicle, startup_phase, below, target_sent, land_sent) ==
  /\ polling # "camera"
  /\ Autonomy!Update(vehicle, startup_phase, TRUE, LandingTarget(below),
                     target_sent, land_sent)
  /\ given' = IF LandingTarget(below) = "valid" THEN CurrentTag ELSE NoTag
  /\ given_for' = IF given' = given THEN given_for ELSE 0
  /\ polling' = "camera"
  /\ UNCHANGED <<tracker_vars, sightings>>

ReceiveAck(outcome, source) ==
  /\ polling # "camera"
  /\ Autonomy!OnCommandAck("land", outcome, source)
  /\ polling' = "reading"
  /\ UNCHANGED <<tracker_vars, given, given_for, sightings>>

(***************************************************************************)
(* request_autonomy_start restarts the runtime.  The tracker carries on.   *)
(***************************************************************************)
RequestStart ==
  /\ polling = "camera"
  /\ Autonomy!Finished
  /\ Autonomy!Restart
  /\ UNCHANGED <<tracker_vars, polling, given, given_for, sightings>>

Tick ==
  /\ polling # "reading"
  /\ Tracker!Tick
  /\ Autonomy!Tick
  /\ given_for' = IF given # NoTag /\ given_for < LandingTargetWarmup
                    THEN given_for + 1 ELSE given_for
  /\ sightings' = [tag \in Tags |-> Older(sightings[tag])]
  /\ UNCHANGED <<polling, given>>

Vehicles ==
  {vehicle \in Connected :
     /\ vehicle.multicopter /\ ~vehicle.armable /\ vehicle.guided
     /\ vehicle.altitude \in {"ground", "target"}}

CameraStep == NoFrameWaiting \/ \E frame \in Frames : ProcessFrame(frame)

(***************************************************************************)
(* What the runtime does not read is fixed.                                *)
(***************************************************************************)
VehicleStep ==
  \E vehicle \in Vehicles, startup_phase \in {"arming", "completed"},
     below, target_sent, land_sent \in BOOLEAN :
    /\ startup_phase = "arming" => phase = "waiting_for_startup"
    /\ vehicle.altitude = "ground" => phase = "landing"
    /\ below => CurrentTag # NoTag
    /\ target_sent => below
    /\ GuideVehicle(vehicle, startup_phase, below, target_sent, land_sent)

AckStep ==
  \E outcome \in Outcomes, source \in Systems : ReceiveAck(outcome, source)

Next == CameraStep \/ VehicleStep \/ AckStep \/ RequestStart \/ Tick

Spec == Init /\ [][Next]_vars

-----------------------------------------------------------------------------
(***************************************************************************)
(* The type invariant.                                                     *)
(***************************************************************************)
TypeOK ==
  /\ Tracker!TypeOK
  /\ Autonomy!TypeOK
  /\ polling \in {"camera", "vehicle", "reading"}
  /\ given \in Tags \cup {NoTag}
  /\ given_for \in 0..LandingTargetWarmup
  /\ sightings \in [Tags -> [streak: 0..RequiredObservations,
                             ago: 0..LossTimeout + 1]]

(***************************************************************************)
(* "It requires three consecutive observations before declaring a lock": a *)
(* track becomes confirmed only with its tag validly observed in as many   *)
(* frames in a row, none later than the loss timeout after the one before. *)
(***************************************************************************)
LockIsConfirmed ==
  [][Tracker!Confirmed' /\ ~Tracker!Confirmed
       => sightings'[target_id'].streak >= RequiredObservations]_vars

(***************************************************************************)
(* Stale observations are not used: whatever time detection takes, a valid *)
(* landing target rests on a valid observation of its tag that is no older *)
(* than the limit when the runtime gets it, and blends no other tag in.    *)
(***************************************************************************)
TargetIsFresh ==
  [][polling # "camera" /\ polling' = "camera" /\ given' # NoTag
       => /\ sightings[given'].ago <= MaximumLandingTargetAge
          /\ position = {given'}]_vars

(***************************************************************************)
(* "A confirmed track keeps one tag identity until expiry instead of       *)
(* jumping": the vehicle is never guided from one tag to another without a *)
(* poll in between in which there was no target.                           *)
(***************************************************************************)
OneTagAtATime ==
  [][given # NoTag /\ given' # NoTag => given' = given]_vars

(***************************************************************************)
(* "requests LAND after one second of continuously valid target data": a   *)
(* LAND sent on a target, first attempt or retry, comes after polls that   *)
(* gave the same tag for at least the warm-up.                             *)
(***************************************************************************)
GuidedLandIsWarmedUp ==
  [][Autonomy!CommandsSent # {} /\ given' # NoTag
       => given' = given /\ given_for >= LandingTargetWarmup]_vars
=============================================================================
