------------------------ MODULE VisionGuidance_proofs ------------------------
(***************************************************************************)
(* What VisionGuidance promises about locks, targets and guided landings,  *)
(* for every set of tags, every set of margins and every limit.            *)
(***************************************************************************)
EXTENDS VisionGuidance, TLAPS

LEMMA Limits ==
  /\ RequiredObservations \in Nat /\ RequiredObservations > 0
  /\ LossTimeout \in Nat
  /\ LandingTargetWarmup \in Nat /\ LandingTargetWarmup > 0
  /\ MaximumLandingTargetAge \in Nat
BY TrackerConfigAssumption, RuntimeLimitsAssumption,
   LandingTargetAgeAssumption

-----------------------------------------------------------------------------
(***************************************************************************)
(* The track, and what the history of sightings says of it: the age of the *)
(* track is the time since its tag was seen, and a track that is being     *)
(* acquired has a streak as long as its count.                             *)
(***************************************************************************)
SightingsOK ==
  sightings \in [Tags -> [streak: 0..RequiredObservations,
                          ago: 0..LossTimeout + 1]]

TrackOK ==
  /\ Tracker!TypeOK
  /\ target_id = NoTag => observation_age = Tracker!NoAge
  /\ target_id # NoTag =>
       /\ position = {target_id}
       /\ observation_age = sightings[target_id].ago
       /\ consecutive_observations < RequiredObservations
            => sightings[target_id].streak >= consecutive_observations

TrackInvariant == SightingsOK /\ TrackOK

LEMMA SightingType ==
  ASSUME SightingsOK, NEW frame
  PROVE  Sighting(frame) \in [Tags -> [streak: 0..RequiredObservations,
                                       ago: 0..LossTimeout + 1]]
<1>1. ASSUME NEW tag \in Tags
      PROVE  Sighted(sightings[tag]) \in [streak: 0..RequiredObservations,
                                          ago: 0..LossTimeout + 1]
  BY Limits DEF SightingsOK, Sighted
<1>2. ASSUME NEW tag \in Tags
      PROVE  Missed(sightings[tag]) \in [streak: 0..RequiredObservations,
                                         ago: 0..LossTimeout + 1]
  BY Limits DEF SightingsOK, Missed
<1> QED
  BY <1>1, <1>2 DEF Sighting

(***************************************************************************)
(* A frame in which a tag was validly seen, and one in which it was not.   *)
(***************************************************************************)
LEMMA SeenTag ==
  ASSUME SightingsOK, NEW frame, NEW tag \in Tags, Seen(frame, tag),
         sightings' = Sighting(frame)
  PROVE  /\ sightings'[tag].ago = 0
         /\ sightings'[tag].streak > 0
         /\ sightings[tag].ago <= LossTimeout =>
              \/ sightings'[tag].streak = RequiredObservations
              \/ sightings'[tag].streak = sightings[tag].streak + 1
<1>1. sightings'[tag] = Sighted(sightings[tag])
  BY DEF Sighting
<1>2. sightings[tag].streak \in 0..RequiredObservations /\ sightings[tag].ago \in 0..LossTimeout + 1
  BY DEF SightingsOK
<1> QED
  BY <1>1, <1>2, Limits DEF Sighted

LEMMA UnseenTag ==
  ASSUME SightingsOK, NEW frame, NEW tag \in Tags, ~Seen(frame, tag),
         sightings' = Sighting(frame)
  PROVE  sightings'[tag].ago = sightings[tag].ago
<1>1. sightings'[tag] = Missed(sightings[tag])
  BY DEF Sighting
<1> QED
  BY <1>1 DEF SightingsOK, Missed

(***************************************************************************)
(* The three ways an update ends.                                          *)
(***************************************************************************)
LEMMA MissInvariant ==
  ASSUME TrackInvariant, NEW frame \in Frames, Tracker!Miss(frame),
         sightings' = Sighting(frame)
  PROVE  TrackOK'
<1>1. CASE Tracker!Reset
  BY <1>1, Limits DEF Tracker!Reset, TrackOK, Tracker!TypeOK, Tracker!NoAge
<1>2. CASE Tracker!Confirmed /\ UNCHANGED tracker_vars
  <2>1. target_id # NoTag /\ target_id \in Tags /\ ~Tracker!Expired
    BY <1>2 DEF Tracker!Confirmed, Tracker!Followed, TrackInvariant, TrackOK,
                Tracker!TypeOK
  <2>2. ~Seen(frame, target_id)
    BY <2>1 DEF Tracker!Miss, Tracker!Candidates, Tracker!Followed, Seen
  <2>3. sightings'[target_id].ago = sightings[target_id].ago
    BY <2>1, <2>2, UnseenTag DEF TrackInvariant
  <2>4. ~(consecutive_observations < RequiredObservations)
    BY <1>2, Limits DEF Tracker!Confirmed, TrackInvariant, TrackOK,
                        Tracker!TypeOK
  <2> QED
    BY <1>2, <2>1, <2>3, <2>4
       DEF TrackInvariant, TrackOK, Tracker!TypeOK, tracker_vars
<1> QED
  BY <1>1, <1>2 DEF Tracker!Miss, Tracker!vars, tracker_vars

LEMMA AcquireInvariant ==
  ASSUME TrackInvariant, NEW frame \in Frames, NEW observation \in frame,
         Tracker!Selected(frame, observation), Tracker!Acquire(observation),
         sightings' = Sighting(frame)
  PROVE  TrackOK'
<1>1. observation.id \in Tags /\ observation.id # NoTag
  BY TagsAssumption DEF Frames, Observations
<1>2. Seen(frame, observation.id)
  BY DEF Tracker!Selected, Tracker!Candidates, Seen
<1>3. /\ sightings'[observation.id].ago = 0
      /\ sightings'[observation.id].streak > 0
  BY <1>1, <1>2, SeenTag DEF TrackInvariant
<1>4. sightings'[observation.id].streak \in Nat
  BY <1>1, SightingType DEF TrackInvariant
<1> QED
  BY <1>1, <1>3, <1>4, Limits
     DEF Tracker!Acquire, TrackOK, Tracker!TypeOK, Tracker!NoAge

LEMMA FollowInvariant ==
  ASSUME TrackInvariant, NEW frame \in Frames, NEW observation \in frame,
         Tracker!Selected(frame, observation), Tracker!Follow(observation),
         sightings' = Sighting(frame)
  PROVE  /\ TrackOK'
         /\ target_id' \in Tags
         /\ sightings'[target_id'].streak >= RequiredObservations
              \/ consecutive_observations' < RequiredObservations
              \/ consecutive_observations >= RequiredObservations
<1>1. /\ target_id # NoTag /\ target_id \in Tags
      /\ observation_age \in 0..LossTimeout
      /\ observation.id = target_id
  <2>1. Tracker!Followed # NoTag /\ target_id # NoTag /\ ~(observation_age > LossTimeout)
    BY DEF Tracker!Follow, Tracker!Followed, Tracker!Expired
  <2>2. target_id \in Tags /\ observation_age = sightings[target_id].ago
    BY <2>1 DEF TrackInvariant, TrackOK, Tracker!TypeOK
  <2>3. sightings[target_id].ago \in 0..LossTimeout + 1
    BY <2>2 DEF TrackInvariant, SightingsOK
  <2>4. observation.id = target_id
    BY <2>1 DEF Tracker!Selected, Tracker!Candidates, Tracker!Followed, Tracker!Expired
  <2> QED
    BY <2>1, <2>2, <2>3, <2>4, Limits
<1>2. Seen(frame, target_id)
  BY <1>1 DEF Tracker!Selected, Tracker!Candidates, Seen
<1>3. /\ sightings'[target_id].ago = 0
      /\ \/ sightings'[target_id].streak = RequiredObservations
         \/ sightings'[target_id].streak = sightings[target_id].streak + 1
  <2>1. sightings[target_id].ago <= LossTimeout
    BY <1>1, Limits DEF TrackInvariant, TrackOK
  <2> QED
    BY <1>1, <1>2, <2>1, SeenTag DEF TrackInvariant
<1>4. /\ sightings[target_id].streak \in Nat
      /\ consecutive_observations \in 0..RequiredObservations
      /\ position = {target_id}
      /\ consecutive_observations < RequiredObservations
           => sightings[target_id].streak >= consecutive_observations
  BY <1>1 DEF TrackInvariant, SightingsOK, TrackOK, Tracker!TypeOK
<1>5. /\ target_id' = target_id
      /\ observation_age' = 0
      /\ position' = {target_id}
      /\ consecutive_observations' \in 0..RequiredObservations
      /\ consecutive_observations < RequiredObservations
           => consecutive_observations' = consecutive_observations + 1
      /\ ~(consecutive_observations < RequiredObservations)
           => consecutive_observations' = RequiredObservations
  BY <1>1, <1>4, Limits DEF Tracker!Follow
<1>6. consecutive_observations' < RequiredObservations
        => sightings'[target_id].streak >= consecutive_observations'
  BY <1>3, <1>4, <1>5, Limits
<1>7. TrackOK'
  BY <1>1, <1>3, <1>5, <1>6, Limits DEF TrackOK, Tracker!TypeOK, Tracker!NoAge
<1>8. \/ sightings'[target_id].streak >= RequiredObservations
      \/ consecutive_observations' < RequiredObservations
      \/ consecutive_observations >= RequiredObservations
  BY <1>3, <1>4, <1>5, Limits
<1> QED
  BY <1>1, <1>5, <1>7, <1>8

(***************************************************************************)
(* TrackInvariant is inductive.  A step that processes a frame may confirm *)
(* a track, and then on a streak; none other touches what a track is.      *)
(***************************************************************************)
LEMMA TrackInit == Init => TrackInvariant
<1> SUFFICES ASSUME Init
             PROVE  TrackInvariant
  OBVIOUS
<1>1. Unseen \in [streak: 0..RequiredObservations, ago: 0..LossTimeout + 1]
  BY Limits DEF Unseen
<1> QED
  BY <1>1, Limits DEF Init, Tracker!Init, TrackInvariant, SightingsOK,
                      TrackOK, Tracker!TypeOK, Tracker!NoAge

LEMMA FrameStep ==
  ASSUME TrackInvariant, NEW frame \in Frames, ProcessFrame(frame)
  PROVE  /\ TrackInvariant'
         /\ Tracker!Confirmed' /\ ~Tracker!Confirmed
              => sightings'[target_id'].streak >= RequiredObservations
<1>1. sightings' = Sighting(frame)
  BY DEF ProcessFrame
<1>2. SightingsOK'
  BY <1>1, SightingType DEF TrackInvariant, SightingsOK
<1>3. CASE Tracker!Miss(frame)
  <2>1. TrackOK'
    BY <1>1, <1>3, MissInvariant
  <2>2. Tracker!Confirmed' => Tracker!Confirmed
    BY <1>3 DEF Tracker!Miss, Tracker!Reset, Tracker!Confirmed,
                Tracker!Followed, Tracker!Expired, Tracker!vars
  <2> QED
    BY <1>2, <2>1, <2>2 DEF TrackInvariant
<1>4. ASSUME NEW observation \in frame, Tracker!Selected(frame, observation),
             Tracker!Acquire(observation)
      PROVE  /\ TrackInvariant'
             /\ Tracker!Confirmed' /\ ~Tracker!Confirmed
                  => sightings'[target_id'].streak >= RequiredObservations
  <2>1. TrackOK'
    BY <1>1, <1>4, AcquireInvariant
  <2>2. observation.id \in Tags
    BY <1>4 DEF Frames, Observations
  <2>3. sightings'[target_id'].streak > 0
    <3>1. Seen(frame, observation.id)
      BY <1>4 DEF Tracker!Selected, Tracker!Candidates, Seen
    <3> QED
      BY <1>1, <1>4, <2>2, <3>1, SeenTag DEF TrackInvariant, Tracker!Acquire
  <2>4. sightings'[target_id'].streak \in Nat
    BY <1>2, <1>4, <2>2 DEF SightingsOK, Tracker!Acquire
  <2>5. Tracker!Confirmed' => 1 >= RequiredObservations
    BY <1>4 DEF Tracker!Acquire, Tracker!Confirmed
  <2> QED
    BY <1>2, <2>1, <2>3, <2>4, <2>5, Limits DEF TrackInvariant
<1>5. ASSUME NEW observation \in frame, Tracker!Selected(frame, observation),
             Tracker!Follow(observation)
      PROVE  /\ TrackInvariant'
             /\ Tracker!Confirmed' /\ ~Tracker!Confirmed
                  => sightings'[target_id'].streak >= RequiredObservations
  <2>1. /\ TrackOK'
        /\ \/ sightings'[target_id'].streak >= RequiredObservations
           \/ consecutive_observations' < RequiredObservations
           \/ consecutive_observations >= RequiredObservations
    BY <1>1, <1>5, FollowInvariant
  <2>2. ~Tracker!Confirmed => ~(consecutive_observations >= RequiredObservations)
    BY <1>5 DEF Tracker!Follow, Tracker!Confirmed
  <2>3. Tracker!Confirmed' => ~(consecutive_observations' < RequiredObservations)
    BY <2>1, Limits DEF Tracker!Confirmed, TrackOK, Tracker!TypeOK
  <2> QED
    BY <1>2, <2>1, <2>2, <2>3 DEF TrackInvariant
<1> QED
  BY <1>3, <1>4, <1>5 DEF ProcessFrame, Tracker!Update

LEMMA TickTrack ==
  ASSUME TrackInvariant, Tracker!Tick,
         sightings' = [tag \in Tags |-> Older(sightings[tag])]
  PROVE  /\ TrackInvariant'
         /\ Tracker!Confirmed' => Tracker!Confirmed
<1>1. SightingsOK'
  BY Limits DEF TrackInvariant, SightingsOK, Older
<1>2. observation_age \in (0..LossTimeout + 1) \cup {Tracker!NoAge}
  BY DEF TrackInvariant, TrackOK, Tracker!TypeOK
<1>3. Tracker!TypeOK' /\ (target_id' = NoTag => observation_age' = Tracker!NoAge)
  BY <1>2, Limits DEF TrackInvariant, TrackOK, Tracker!TypeOK, Tracker!Tick,
                      Tracker!NoAge
<1>4. ASSUME target_id # NoTag
      PROVE  /\ sightings'[target_id].ago = observation_age'
             /\ sightings'[target_id].streak = sightings[target_id].streak
  <2>1. /\ target_id \in Tags
        /\ observation_age = sightings[target_id].ago
        /\ observation_age \in 0..LossTimeout + 1
    BY <1>4 DEF TrackInvariant, TrackOK, Tracker!TypeOK, SightingsOK
  <2> QED
    BY <2>1, Limits DEF Tracker!Tick, Older
<1>5. TrackOK'
  BY <1>3, <1>4 DEF TrackInvariant, TrackOK, Tracker!Tick
<1>6. Tracker!Expired => Tracker!Expired'
  BY <1>2, Limits DEF Tracker!Expired, Tracker!Tick, Tracker!NoAge
<1> QED
  BY <1>1, <1>5, <1>6
     DEF TrackInvariant, Tracker!Confirmed, Tracker!Followed, Tracker!Tick

LEMMA SameTrack ==
  ASSUME TrackInvariant, UNCHANGED <<tracker_vars, sightings>>
  PROVE  /\ TrackInvariant'
         /\ Tracker!Confirmed' <=> Tracker!Confirmed
         /\ Tracker!TrackPhase' = Tracker!TrackPhase
BY DEF TrackInvariant, SightingsOK, TrackOK, Tracker!TypeOK,
       Tracker!Confirmed, Tracker!TrackPhase, Tracker!Followed,
       Tracker!Expired, tracker_vars

(***************************************************************************)
(* Every step is one of these three to the track.                          *)
(***************************************************************************)
LEMMA TrackStep ==
  ASSUME TrackInvariant, [Next]_vars
  PROVE  /\ TrackInvariant'
         /\ Tracker!Confirmed' /\ ~Tracker!Confirmed
              => sightings'[target_id'].streak >= RequiredObservations
<1>1. ASSUME NEW frame \in Frames, ProcessFrame(frame)
      PROVE  /\ TrackInvariant'
             /\ Tracker!Confirmed' /\ ~Tracker!Confirmed
                  => sightings'[target_id'].streak >= RequiredObservations
  BY <1>1, FrameStep
<1>2. CASE Tick
  BY <1>2, TickTrack DEF Tick
<1>3. CASE UNCHANGED <<tracker_vars, sightings>>
  BY <1>3, SameTrack
<1> QED
  BY <1>1, <1>2, <1>3
     DEF Next, CameraStep, NoFrameWaiting, VehicleStep, GuideVehicle, AckStep,
         ReceiveAck, RequestStart, vars

LEMMA TrackCorrect == Spec => []TrackInvariant
BY TrackInit, TrackStep, PTL DEF Spec

(***************************************************************************)
(* "It requires three consecutive observations before declaring a lock":   *)
(* TargetTracker::update confirms a track only on a streak of valid        *)
(* observations of its tag, for any number required and any loss timeout.  *)
(***************************************************************************)
THEOREM LockCorrect == Spec => LockIsConfirmed
<1>1. TrackInvariant /\ [Next]_vars =>
        [Tracker!Confirmed' /\ ~Tracker!Confirmed
           => sightings'[target_id'].streak >= RequiredObservations]_vars
  BY TrackStep
<1> QED
  BY <1>1, TrackCorrect, PTL DEF Spec, LockIsConfirmed

-----------------------------------------------------------------------------
(***************************************************************************)
(* The landing target a poll gives to the runtime.                         *)
(***************************************************************************)
LEMMA TrackingIsConfirmed == Tracker!TrackPhase = "tracking" <=> Tracker!Confirmed
BY DEF Tracker!TrackPhase, Tracker!Confirmed

LEMMA GivenTarget ==
  ASSUME TrackInvariant, NEW vehicle, NEW startup_phase, NEW below,
         NEW target_sent, NEW land_sent,
         GuideVehicle(vehicle, startup_phase, below, target_sent, land_sent)
  PROVE  given' # NoTag =>
           /\ LandingTarget(below) = "valid"
           /\ Tracker!Confirmed
           /\ given' = target_id
           /\ target_id \in Tags
           /\ sightings[target_id].ago <= MaximumLandingTargetAge
           /\ position = {target_id}
<1> SUFFICES ASSUME given' # NoTag
             PROVE  /\ LandingTarget(below) = "valid"
                    /\ Tracker!Confirmed
                    /\ given' = target_id
                    /\ target_id \in Tags
                    /\ sightings[target_id].ago <= MaximumLandingTargetAge
                    /\ position = {target_id}
  OBVIOUS
<1>1. LandingTarget(below) = "valid" /\ given' = CurrentTag /\ CurrentTag # NoTag
  BY DEF GuideVehicle
<1>2. /\ Tracker!TrackPhase = "tracking"
      /\ observation_age <= MaximumLandingTargetAge
      /\ CurrentTag = target_id
  BY <1>1 DEF CurrentTag
<1> QED
  BY <1>1, <1>2, TrackingIsConfirmed
     DEF TrackInvariant, TrackOK, Tracker!TypeOK

(***************************************************************************)
(* A landing target that current_landing_target gives rests on a valid     *)
(* observation of its tag no older than the limit, for any limits.         *)
(***************************************************************************)
THEOREM FreshCorrect == Spec => TargetIsFresh
<1>1. ASSUME TrackInvariant, [Next]_vars, polling # "camera",
             polling' = "camera", given' # NoTag
      PROVE  /\ sightings[given'].ago <= MaximumLandingTargetAge
             /\ position = {given'}
  <2>1. PICK vehicle \in Vehicles, startup_phase \in {"arming", "completed"},
             below \in BOOLEAN, target_sent \in BOOLEAN, land_sent \in BOOLEAN :
          GuideVehicle(vehicle, startup_phase, below, target_sent, land_sent)
    BY <1>1 DEF Next, CameraStep, NoFrameWaiting, ProcessFrame, VehicleStep,
                AckStep, ReceiveAck, RequestStart, Tick, vars
  <2> QED
    BY <1>1, <2>1, GivenTarget
<1>2. TrackInvariant /\ [Next]_vars =>
        [polling # "camera" /\ polling' = "camera" /\ given' # NoTag
           => /\ sightings[given'].ago <= MaximumLandingTargetAge
              /\ position = {given'}]_vars
  BY <1>1
<1> QED
  BY <1>2, TrackCorrect, PTL DEF Spec, TargetIsFresh

-----------------------------------------------------------------------------
(***************************************************************************)
(* Between two polls the track stays with the tag last given, or is not    *)
(* confirmed: an update that drops a tag and acquires another in one call  *)
(* leaves it at one observation.  It takes a second one to confirm it.     *)
(***************************************************************************)
GivenOK ==
  /\ given \in Tags \cup {NoTag}
  /\ given # NoTag =>
       target_id = given \/ (polling # "camera" /\ ~Tracker!Confirmed)

LEMMA GivenInit == Init => GivenOK
BY DEF Init, GivenOK

LEMMA FrameGiven ==
  ASSUME RequiredObservations > 1, TrackInvariant, GivenOK,
         NEW frame \in Frames, ProcessFrame(frame)
  PROVE  GivenOK'
<1>1. polling = "camera" /\ polling' = "vehicle" /\ given' = given
  BY DEF ProcessFrame
<1>2. CASE Tracker!Miss(frame)
  <2>1. target_id' = target_id \/ ~Tracker!Confirmed'
    BY <1>2 DEF Tracker!Miss, Tracker!Reset, Tracker!vars, Tracker!Confirmed,
                Tracker!Followed, Tracker!Expired
  <2> QED
    BY <1>1, <2>1 DEF GivenOK
<1>3. ASSUME NEW observation, Tracker!Acquire(observation)
      PROVE  GivenOK'
  <2>1. ~Tracker!Confirmed'
    BY <1>3, Limits DEF Tracker!Acquire, Tracker!Confirmed
  <2> QED
    BY <1>1, <2>1 DEF GivenOK
<1>4. ASSUME NEW observation, Tracker!Follow(observation)
      PROVE  GivenOK'
  BY <1>1, <1>4 DEF GivenOK, Tracker!Follow
<1> QED
  BY <1>2, <1>3, <1>4 DEF ProcessFrame, Tracker!Update

LEMMA GuideGiven ==
  ASSUME TrackInvariant, GivenOK, NEW vehicle, NEW startup_phase, NEW below,
         NEW target_sent, NEW land_sent,
         GuideVehicle(vehicle, startup_phase, below, target_sent, land_sent)
  PROVE  /\ GivenOK'
         /\ given # NoTag /\ given' # NoTag => given' = given
<1>1. target_id' = target_id
  BY DEF GuideVehicle, tracker_vars
<1>2. given' # NoTag =>
        Tracker!Confirmed /\ given' = target_id /\ target_id \in Tags
  BY GivenTarget
<1> QED
  BY <1>1, <1>2 DEF GivenOK

LEMMA OtherGiven ==
  ASSUME TrackInvariant, GivenOK,
         NoFrameWaiting \/ AckStep \/ RequestStart \/ Tick \/ UNCHANGED vars
  PROVE  GivenOK' /\ given' = given
<1>1. /\ given' = given
      /\ target_id' = target_id
      /\ polling' = polling \/ polling' # "camera"
  BY DEF NoFrameWaiting, AckStep, ReceiveAck, RequestStart, Tick,
         Tracker!Tick, vars, tracker_vars
<1>2. CASE Tick
  <2>1. Tracker!Confirmed' => Tracker!Confirmed
    BY <1>2, TickTrack DEF Tick
  <2> QED
    BY <1>1, <2>1 DEF GivenOK
<1>3. CASE ~Tick
  <2>1. UNCHANGED <<tracker_vars, sightings>>
    BY <1>3 DEF NoFrameWaiting, AckStep, ReceiveAck, RequestStart, vars
  <2>2. Tracker!Confirmed' <=> Tracker!Confirmed
    BY <2>1, SameTrack
  <2> QED
    BY <1>1, <2>2 DEF GivenOK
<1> QED
  BY <1>2, <1>3

LEMMA GivenStep ==
  ASSUME RequiredObservations > 1, TrackInvariant, GivenOK, [Next]_vars
  PROVE  /\ GivenOK'
         /\ given # NoTag /\ given' # NoTag => given' = given
<1>1. ASSUME NEW frame \in Frames, ProcessFrame(frame)
      PROVE  GivenOK' /\ given' = given
  BY <1>1, FrameGiven DEF ProcessFrame
<1>2. ASSUME VehicleStep
      PROVE  /\ GivenOK'
             /\ given # NoTag /\ given' # NoTag => given' = given
  BY <1>2, GuideGiven DEF VehicleStep
<1>3. CASE NoFrameWaiting \/ AckStep \/ RequestStart \/ Tick \/ UNCHANGED vars
  BY <1>3, OtherGiven
<1> QED
  BY <1>1, <1>2, <1>3 DEF Next, CameraStep

(***************************************************************************)
(* "A confirmed track keeps one tag identity until expiry instead of       *)
(* jumping": if more than one observation is required, as in               *)
(* TargetTrackerConfig, the target of one poll and the next is one tag.    *)
(***************************************************************************)
THEOREM OneTagCorrect ==
  ASSUME RequiredObservations > 1
  PROVE  Spec => OneTagAtATime
<1>1. TrackInvariant /\ GivenOK /\ [Next]_vars => GivenOK'
  BY GivenStep
<1>2. TrackInvariant /\ GivenOK /\ [Next]_vars =>
        [given # NoTag /\ given' # NoTag => given' = given]_vars
  BY GivenStep
<1> QED
  BY <1>1, <1>2, GivenInit, TrackCorrect, PTL DEF Spec, OneTagAtATime

-----------------------------------------------------------------------------
(***************************************************************************)
(* The warm-up.  An update of the runtime leaves it alone, ends it for     *)
(* want of a valid target, or starts or continues it; only in the last     *)
(* case, once it is over, is LAND sent with a target.                      *)
(***************************************************************************)
WarmUpOK ==
  /\ land_command_after \in 0..LandingTargetWarmup \cup {-1}
  /\ given_for \in 0..LandingTargetWarmup
  /\ phase = "waiting_for_startup" => land_command_after = -1
  /\ phase = "active" /\ land_command_after # -1 =>
       /\ given # NoTag
       /\ given_for + land_command_after >= LandingTargetWarmup

LeftAlone ==
  /\ UNCHANGED land_command_after
  /\ phase' # "active"
  /\ phase' = "waiting_for_startup" => phase = "waiting_for_startup"
  /\ Autonomy!CommandsSent = {}

Ended ==
  /\ land_command_after' = -1
  /\ phase' # "waiting_for_startup"

Continued ==
  /\ land_command_after' =
       IF land_command_after = -1 /\ phase # "landing"
         THEN LandingTargetWarmup ELSE land_command_after
  /\ phase \in {"waiting_for_startup", "active", "landing"}
  /\ phase' # "waiting_for_startup"
  /\ phase' = "active" => phase # "landing"
  /\ Autonomy!CommandsSent # {} => phase # "landing" /\ land_command_after' = 0

LEMMA LandCommand ==
  ASSUME NEW land_sent, Autonomy!UpdateLandCommand(land_sent)
  PROVE  phase' \in {Autonomy!FlightPhase, "active", "failed"}
BY DEF Autonomy!UpdateLandCommand, Autonomy!NoLand, Autonomy!LandExhausted,
       Autonomy!SendLand

LEMMA NoLandIsSilent ==
  ASSUME Autonomy!NoLand
  PROVE  phase' = Autonomy!FlightPhase /\ Autonomy!CommandsSent = {}
BY DEF Autonomy!NoLand, Autonomy!land_vars, Autonomy!CommandsSent

LEMMA FailIsSilent ==
  ASSUME Autonomy!Fail
  PROVE  phase' = "failed" /\ Autonomy!CommandsSent = {}
BY DEF Autonomy!Fail, Autonomy!CommandsSent

LEMMA NoTargetEnds ==
  ASSUME NEW vehicle \in Vehicles, NEW startup_phase, NEW target,
         NEW land_sent,
         Autonomy!NoTarget(vehicle, startup_phase, TRUE, target, land_sent)
  PROVE  Ended /\ target # "valid"
<1>1. land_command_after' = -1
  BY DEF Autonomy!NoTarget, Autonomy!Unset
<1>2. phase' # "waiting_for_startup"
  BY LandCommand, NoLandIsSilent DEF Autonomy!NoTarget, Autonomy!FlightPhase
<1>3. vehicle.connected /\ vehicle.armed /\ vehicle.system_id # NoSystem
  BY SystemsAssumption
     DEF Vehicles, Connected, Autonomy!NoTarget, Autonomy!Deciding,
         Autonomy!Linked
<1>4. target # "valid"
  BY <1>3 DEF Autonomy!NoTarget, Autonomy!Supervise
<1> QED
  BY <1>1, <1>2, <1>4 DEF Ended

LEMMA GuideContinues ==
  ASSUME WarmUpOK, NEW vehicle, NEW startup_phase, NEW target,
         NEW target_sent, NEW land_sent,
         Autonomy!Guide(vehicle, startup_phase, TRUE, target, target_sent,
                        land_sent)
  PROVE  Continued
<1>1. phase \in {"waiting_for_startup", "active", "landing"}
  BY DEF Autonomy!Guide, Autonomy!Deciding, Autonomy!Linked, Autonomy!Flying,
         Autonomy!Activating
<1>2. land_command_after' =
        IF land_command_after = -1 /\ phase # "landing"
          THEN LandingTargetWarmup ELSE land_command_after
  BY DEF Autonomy!Guide, Autonomy!WarmUpStarts, Autonomy!FlightPhase,
         Autonomy!Unset
<1>3. CASE ~Autonomy!LandDue /\ Autonomy!NoLand
  <2>1. phase' = Autonomy!FlightPhase /\ Autonomy!CommandsSent = {}
    BY <1>3, NoLandIsSilent
  <2> QED
    BY <1>1, <1>2, <2>1 DEF Continued, Autonomy!FlightPhase
<1>4. CASE Autonomy!LandDue /\ Autonomy!UpdateLandCommand(land_sent)
  <2>1. phase # "landing" /\ land_command_after' = 0
    BY <1>4 DEF Autonomy!LandDue, Autonomy!FlightPhase
  <2>2. phase' \in {"active", "failed"}
    BY <1>4, <2>1, LandCommand DEF Autonomy!FlightPhase
  <2> QED
    BY <1>1, <1>2, <2>1, <2>2 DEF Continued
<1> QED
  BY <1>3, <1>4 DEF Autonomy!Guide

LEMMA UpdateWarmUp ==
  ASSUME WarmUpOK, NEW vehicle \in Vehicles, NEW startup_phase,
         NEW target \in Autonomy!Targets, NEW target_sent, NEW land_sent,
         Autonomy!Update(vehicle, startup_phase, TRUE, target, target_sent,
                         land_sent)
  PROVE  LeftAlone \/ (Ended /\ target # "valid") \/ (Continued /\ target = "valid")
<1>0. vehicle.connected
  BY DEF Vehicles, Connected
<1>1. CASE UNCHANGED Autonomy!vars /\ phase # "active"
  BY <1>1 DEF Autonomy!vars, Autonomy!land_vars, Autonomy!target_vars,
              LeftAlone, Autonomy!CommandsSent
<1>2. CASE Autonomy!StartupFailed(startup_phase)
  BY <1>2, FailIsSilent
     DEF Autonomy!StartupFailed, Autonomy!target_vars, LeftAlone
<1>3. CASE Autonomy!DisarmedWhileActive(vehicle, startup_phase, TRUE)
  BY <1>3, FailIsSilent DEF Autonomy!DisarmedWhileActive, LeftAlone
<1>4. CASE Autonomy!LandingTimedOut(vehicle, startup_phase, TRUE)
  BY <1>4, FailIsSilent
     DEF Autonomy!LandingTimedOut, Autonomy!target_vars, LeftAlone
<1>5. CASE Autonomy!Landed(vehicle, startup_phase, TRUE)
           \/ Autonomy!TouchedDown(vehicle, startup_phase, TRUE)
  BY <1>5 DEF Autonomy!Landed, Autonomy!TouchedDown, Autonomy!target_vars,
              Autonomy!land_vars, LeftAlone, Autonomy!CommandsSent
<1>6. CASE Autonomy!NoTarget(vehicle, startup_phase, TRUE, target, land_sent)
  BY <1>6, NoTargetEnds
<1>7. CASE Autonomy!Guide(vehicle, startup_phase, TRUE, target, target_sent,
                          land_sent)
  <2>1. target = "valid"
    <3>1. Autonomy!Supervise(vehicle, target) = "allowed"
      BY <1>7 DEF Autonomy!Guide
    <3>2. target # "none" /\ target # "invalid"
      BY <3>1 DEF Autonomy!Supervise
    <3> QED
      BY <3>2 DEF Autonomy!Targets
  <2> QED
    BY <1>7, <2>1, GuideContinues
<1> QED
  BY <1>0, <1>1, <1>2, <1>3, <1>4, <1>5, <1>6, <1>7
     DEF Autonomy!Update, Autonomy!WaitForStartup, Autonomy!FailsafeMissing,
         Autonomy!LinkLost, Autonomy!Finished

(***************************************************************************)
(* The warm-up and the time the target was given for add up.               *)
(***************************************************************************)
LEMMA WarmUpInit == Init => WarmUpOK
BY Limits DEF Init, Autonomy!Init, Autonomy!Unset, WarmUpOK

LEMMA AtLeast ==
  ASSUME NEW time \in Nat, NEW limit \in Nat
  PROVE  time + limit >= limit
OBVIOUS

LEMMA GuideWarmUp ==
  ASSUME TrackInvariant, GivenOK, WarmUpOK, NEW vehicle \in Vehicles,
         NEW startup_phase, NEW below \in BOOLEAN, NEW target_sent,
         NEW land_sent,
         GuideVehicle(vehicle, startup_phase, below, target_sent, land_sent)
  PROVE  /\ WarmUpOK'
         /\ Autonomy!CommandsSent # {} /\ given' # NoTag
              => given' = given /\ given_for >= LandingTargetWarmup
<1>1. LandingTarget(below) \in Autonomy!Targets
  BY DEF LandingTarget, Autonomy!Targets
<1>2. \/ LeftAlone
      \/ Ended /\ LandingTarget(below) # "valid"
      \/ Continued /\ LandingTarget(below) = "valid"
  BY <1>1, UpdateWarmUp DEF GuideVehicle
<1>3. /\ given' # NoTag => LandingTarget(below) = "valid"
      /\ LandingTarget(below) = "valid" => given' # NoTag
  BY DEF GuideVehicle, LandingTarget
<1>4. given # NoTag /\ given' # NoTag => given' = given
  BY GuideGiven
<1>5. given_for' = IF given' = given THEN given_for ELSE 0
  BY DEF GuideVehicle
<1>6. CASE Ended /\ LandingTarget(below) # "valid"
  BY <1>3, <1>5, <1>6, Limits DEF Ended, WarmUpOK
<1>7. CASE Continued /\ LandingTarget(below) = "valid"
  <2>1. CASE land_command_after = -1 /\ phase # "landing"
    <3>1. land_command_after' = LandingTargetWarmup
      BY <1>7, <2>1 DEF Continued
    <3>2. Autonomy!CommandsSent = {}
      BY <1>7, <3>1, Limits DEF Continued
    <3>3. given_for' \in 0..LandingTargetWarmup
      BY <1>5, Limits DEF WarmUpOK
    <3>4. given_for' + LandingTargetWarmup >= LandingTargetWarmup
      <4>1. given_for' \in Nat /\ LandingTargetWarmup \in Nat
        BY <3>3, Limits
      <4> QED
        BY <4>1, AtLeast
    <3>5. given' # NoTag /\ phase' # "waiting_for_startup"
      BY <1>3, <1>7 DEF Continued
    <3>6. WarmUpOK'
      <4>1. land_command_after' \in 0..LandingTargetWarmup \cup {-1}
        BY <3>1, Limits
      <4>2. land_command_after' # -1
        BY <3>1, Limits
      <4> QED
        BY <3>1, <3>3, <3>4, <3>5, <4>1, <4>2 DEF WarmUpOK
    <3> QED
      BY <3>2, <3>6
  <2>2. CASE land_command_after # -1 /\ phase = "active"
    <3>1. /\ land_command_after' = land_command_after
          /\ given # NoTag /\ given' # NoTag
          /\ given_for + land_command_after >= LandingTargetWarmup
          /\ phase' # "waiting_for_startup"
      BY <1>3, <1>7, <2>2 DEF Continued, WarmUpOK
    <3>2. given' = given /\ given_for' = given_for
      BY <1>4, <1>5, <3>1
    <3>3. Autonomy!CommandsSent # {} => given_for >= LandingTargetWarmup
      BY <1>7, <3>1, Limits DEF Continued, WarmUpOK
    <3> QED
      BY <3>1, <3>2, <3>3 DEF WarmUpOK
  <2>3. CASE phase = "landing"
    <3>1. /\ land_command_after' = land_command_after
          /\ phase' \notin {"waiting_for_startup", "active"}
          /\ Autonomy!CommandsSent = {}
      BY <1>7, <2>3 DEF Continued
    <3> QED
      BY <1>5, <3>1, Limits DEF WarmUpOK
  <2> QED
    BY <1>7, <2>1, <2>2, <2>3 DEF Continued, WarmUpOK
<1>8. CASE LeftAlone
  BY <1>5, <1>8, Limits DEF LeftAlone, WarmUpOK
<1> QED
  BY <1>2, <1>6, <1>7, <1>8

LEMMA TickWarmUp == WarmUpOK /\ Tick => WarmUpOK'
<1> SUFFICES ASSUME WarmUpOK, Tick
             PROVE  WarmUpOK'
  OBVIOUS
<1>1. /\ land_command_after' = IF land_command_after > 0
                                 THEN land_command_after - 1
                                 ELSE land_command_after
      /\ given_for' = IF given # NoTag /\ given_for < LandingTargetWarmup
                        THEN given_for + 1 ELSE given_for
      /\ UNCHANGED <<given, phase>>
  BY DEF Tick, Autonomy!Tick, Autonomy!Elapse
<1>2. /\ land_command_after \in 0..LandingTargetWarmup \cup {-1}
      /\ given_for \in 0..LandingTargetWarmup
  BY DEF WarmUpOK
<1>3. /\ land_command_after' \in 0..LandingTargetWarmup \cup {-1}
      /\ land_command_after' = -1 <=> land_command_after = -1
      /\ given_for' \in 0..LandingTargetWarmup
  BY <1>1, <1>2, Limits
<1>4. ASSUME given # NoTag, land_command_after # -1,
             given_for + land_command_after >= LandingTargetWarmup
      PROVE  given_for' + land_command_after' >= LandingTargetWarmup
  BY <1>1, <1>2, <1>4, Limits
<1> QED
  BY <1>1, <1>3, <1>4 DEF WarmUpOK

LEMMA OtherWarmUp ==
  ASSUME WarmUpOK, CameraStep \/ AckStep \/ RequestStart \/ UNCHANGED vars
  PROVE  WarmUpOK' /\ Autonomy!CommandsSent = {}
<1>1. CASE CameraStep \/ UNCHANGED vars
  BY <1>1 DEF CameraStep, NoFrameWaiting, ProcessFrame, vars, runtime_vars,
              WarmUpOK, Autonomy!CommandsSent
<1>2. CASE AckStep
  <2>1. PICK outcome \in Outcomes, source \in Systems : ReceiveAck(outcome, source)
    BY <1>2 DEF AckStep
  <2>2. /\ UNCHANGED <<land_command_after, land_attempt, given, given_for>>
        /\ phase' = phase \/ phase' \in {"landing", "failed"}
    BY <2>1 DEF ReceiveAck, Autonomy!OnCommandAck, Autonomy!AckAccepted,
                Autonomy!AckInProgress, Autonomy!AckRejected,
                Autonomy!AckIgnored, Autonomy!Fail, Autonomy!vars,
                Autonomy!land_vars, Autonomy!target_vars
  <2> QED
    BY <2>2 DEF WarmUpOK, Autonomy!CommandsSent
<1>3. CASE RequestStart
  BY <1>3 DEF RequestStart, Autonomy!Restart, Autonomy!CommandsSent,
              Autonomy!Unset, WarmUpOK
<1> QED
  BY <1>1, <1>2, <1>3

LEMMA TickIsSilent == Tick => Autonomy!CommandsSent = {}
BY DEF Tick, Autonomy!Tick, Autonomy!CommandsSent

LEMMA WarmUpStep ==
  ASSUME TrackInvariant, GivenOK, WarmUpOK, [Next]_vars
  PROVE  /\ WarmUpOK'
         /\ Autonomy!CommandsSent # {} /\ given' # NoTag
              => given' = given /\ given_for >= LandingTargetWarmup
<1>1. CASE VehicleStep
  BY <1>1, GuideWarmUp DEF VehicleStep
<1>2. CASE Tick
  BY <1>2, TickWarmUp, TickIsSilent
<1>3. CASE CameraStep \/ AckStep \/ RequestStart \/ UNCHANGED vars
  BY <1>3, OtherWarmUp
<1> QED
  BY <1>1, <1>2, <1>3 DEF Next

(***************************************************************************)
(* "requests LAND after one second of continuously valid target data":     *)
(* when AutonomyRuntime sends LAND on a target, for the first time or      *)
(* again, every poll of the warm-up has given that tag.                    *)
(***************************************************************************)
THEOREM WarmUpCorrect ==
  ASSUME RequiredObservations > 1
  PROVE  Spec => GuidedLandIsWarmedUp
<1>1. TrackInvariant /\ GivenOK /\ [Next]_vars => GivenOK'
  BY GivenStep
<1>2. TrackInvariant /\ GivenOK /\ WarmUpOK /\ [Next]_vars => WarmUpOK'
  BY WarmUpStep
<1>3. TrackInvariant /\ GivenOK /\ WarmUpOK /\ [Next]_vars =>
        [Autonomy!CommandsSent # {} /\ given' # NoTag
           => given' = given /\ given_for >= LandingTargetWarmup]_vars
  BY WarmUpStep
<1> QED
  BY <1>1, <1>2, <1>3, GivenInit, WarmUpInit, TrackCorrect, PTL
     DEF Spec, GuidedLandIsWarmedUp

-----------------------------------------------------------------------------
(***************************************************************************)
(* The type invariant.  That of the runtime is AutonomyRuntime_proofs',    *)
(* inductive under any call of its operations: every step of the guidance  *)
(* is one, and the definitions of the runtime are the same in both of its  *)
(* instances.                                                              *)
(***************************************************************************)
AutonomyProofs == INSTANCE AutonomyRuntime_proofs

LEMMA AutonomyInvariant ==
  AutonomyProofs!Invariant <=>
    /\ Autonomy!TypeOK
    /\ Autonomy!AwaitedLandIsLive
    /\ Autonomy!OneCountdownToLand
    /\ Autonomy!SupervisorIsBackstop
BY DEF AutonomyProofs!Invariant, AutonomyProofs!TypeOK, Autonomy!TypeOK,
       AutonomyProofs!Phases, Autonomy!Phases,
       AutonomyProofs!MotionSafetyStatuses, Autonomy!MotionSafetyStatuses,
       AutonomyProofs!OptionalTimer, Autonomy!OptionalTimer,
       AutonomyProofs!Timer, Autonomy!Timer,
       AutonomyProofs!Unset, Autonomy!Unset,
       AutonomyProofs!AwaitedLandIsLive, Autonomy!AwaitedLandIsLive,
       AutonomyProofs!OneCountdownToLand, Autonomy!OneCountdownToLand,
       AutonomyProofs!SupervisorIsBackstop, Autonomy!SupervisorIsBackstop

LEMMA AutonomyFail == AutonomyProofs!Fail <=> Autonomy!Fail
BY DEF AutonomyProofs!Fail, Autonomy!Fail

LEMMA AutonomyVars ==
  /\ AutonomyProofs!vars = Autonomy!vars
  /\ AutonomyProofs!land_vars = Autonomy!land_vars
  /\ AutonomyProofs!target_vars = Autonomy!target_vars
BY DEF AutonomyProofs!vars, Autonomy!vars,
       AutonomyProofs!land_vars, Autonomy!land_vars,
       AutonomyProofs!target_vars, Autonomy!target_vars

LEMMA AutonomyUpdate ==
  ASSUME NEW vehicle, NEW startup, NEW failsafe_accepted, NEW target,
         NEW target_sent, NEW land_sent
  PROVE  AutonomyProofs!Update(vehicle, startup, failsafe_accepted, target,
                               target_sent, land_sent)
           <=> Autonomy!Update(vehicle, startup, failsafe_accepted, target,
                               target_sent, land_sent)
BY DEF AutonomyProofs!Update, Autonomy!Update,
       AutonomyProofs!Finished, Autonomy!Finished,
       AutonomyProofs!Fail, Autonomy!Fail,
       AutonomyProofs!WaitForStartup, Autonomy!WaitForStartup,
       AutonomyProofs!StartupFailed, Autonomy!StartupFailed,
       AutonomyProofs!FailsafeMissing, Autonomy!FailsafeMissing,
       AutonomyProofs!LinkLost, Autonomy!LinkLost,
       AutonomyProofs!Landed, Autonomy!Landed,
       AutonomyProofs!DisarmedWhileActive, Autonomy!DisarmedWhileActive,
       AutonomyProofs!LandingTimedOut, Autonomy!LandingTimedOut,
       AutonomyProofs!TouchedDown, Autonomy!TouchedDown,
       AutonomyProofs!NoTarget, Autonomy!NoTarget,
       AutonomyProofs!Guide, Autonomy!Guide,
       AutonomyProofs!Flying, Autonomy!Flying,
       AutonomyProofs!Activating, Autonomy!Activating,
       AutonomyProofs!FlightPhase, Autonomy!FlightPhase,
       AutonomyProofs!MissingSince, Autonomy!MissingSince,
       AutonomyProofs!NextTarget, Autonomy!NextTarget,
       AutonomyProofs!Linked, Autonomy!Linked,
       AutonomyProofs!Deciding, Autonomy!Deciding,
       AutonomyProofs!Supervise, Autonomy!Supervise,
       AutonomyProofs!LandPending, Autonomy!LandPending,
       AutonomyProofs!NoLand, Autonomy!NoLand,
       AutonomyProofs!LandExhausted, Autonomy!LandExhausted,
       AutonomyProofs!SendLand, Autonomy!SendLand,
       AutonomyProofs!UpdateLandCommand, Autonomy!UpdateLandCommand,
       AutonomyProofs!WarmUpStarts, Autonomy!WarmUpStarts,
       AutonomyProofs!TargetDue, Autonomy!TargetDue,
       AutonomyProofs!LandDue, Autonomy!LandDue,
       AutonomyProofs!LastLandUnsent, Autonomy!LastLandUnsent,
       AutonomyProofs!Unset, Autonomy!Unset,
       AutonomyProofs!vars, Autonomy!vars,
       AutonomyProofs!land_vars, Autonomy!land_vars,
       AutonomyProofs!target_vars, Autonomy!target_vars

LEMMA AutonomyAck ==
  ASSUME NEW action, NEW outcome, NEW source
  PROVE  AutonomyProofs!OnCommandAck(action, outcome, source)
           <=> Autonomy!OnCommandAck(action, outcome, source)
BY AutonomyFail, AutonomyVars
   DEF AutonomyProofs!OnCommandAck, Autonomy!OnCommandAck,
       AutonomyProofs!AckAccepted, Autonomy!AckAccepted,
       AutonomyProofs!AckInProgress, Autonomy!AckInProgress,
       AutonomyProofs!AckRejected, Autonomy!AckRejected,
       AutonomyProofs!AckIgnored, Autonomy!AckIgnored,
       AutonomyProofs!AckMatches, Autonomy!AckMatches,
       AutonomyProofs!vars, Autonomy!vars,
       AutonomyProofs!land_vars, Autonomy!land_vars,
       AutonomyProofs!target_vars, Autonomy!target_vars

LEMMA AutonomyRest ==
  /\ AutonomyProofs!Init <=> Autonomy!Init
  /\ AutonomyProofs!Restart <=> Autonomy!Restart
  /\ AutonomyProofs!Tick <=> Autonomy!Tick
  /\ UNCHANGED AutonomyProofs!vars <=> UNCHANGED Autonomy!vars
BY DEF AutonomyProofs!Init, Autonomy!Init, AutonomyProofs!Restart,
       Autonomy!Restart, AutonomyProofs!Tick, Autonomy!Tick,
       AutonomyProofs!Elapse, Autonomy!Elapse,
       AutonomyProofs!Unset, Autonomy!Unset,
       AutonomyProofs!vars, Autonomy!vars,
       AutonomyProofs!land_vars, Autonomy!land_vars,
       AutonomyProofs!target_vars, Autonomy!target_vars

LEMMA VehicleIsSnapshot ==
  ASSUME NEW vehicle \in Vehicles
  PROVE  vehicle \in AutonomyProofs!Snapshots
BY DEF Vehicles, Connected, Altitudes, AutonomyProofs!Snapshots,
       AutonomyProofs!Connected, AutonomyProofs!Stale, AutonomyProofs!Altitudes

LEMMA RuntimeStep == [Next]_vars => AutonomyProofs!AnyStep
<1> SUFFICES ASSUME [Next]_vars PROVE AutonomyProofs!AnyStep
  OBVIOUS
<1>1. CASE VehicleStep
  <2>1. PICK vehicle \in Vehicles, startup_phase \in {"arming", "completed"},
             below \in BOOLEAN, target_sent \in BOOLEAN,
             land_sent \in BOOLEAN :
               GuideVehicle(vehicle, startup_phase, below, target_sent,
                            land_sent)
    BY <1>1 DEF VehicleStep
  <2>2. Autonomy!Update(vehicle, startup_phase, TRUE, LandingTarget(below),
                        target_sent, land_sent)
    BY <2>1 DEF GuideVehicle
  <2>3. AutonomyProofs!Update(vehicle, startup_phase, TRUE,
                              LandingTarget(below), target_sent, land_sent)
    BY <2>2, AutonomyUpdate
  <2> QED
    BY <2>3, VehicleIsSnapshot DEF AutonomyProofs!AnyStep
<1>2. CASE AckStep
  BY <1>2, AutonomyAck DEF AckStep, ReceiveAck, AutonomyProofs!AnyStep
<1>3. CASE RequestStart
  BY <1>3, AutonomyRest DEF RequestStart, AutonomyProofs!AnyStep
<1>4. CASE Tick
  BY <1>4, AutonomyRest DEF Tick, AutonomyProofs!AnyStep
<1>5. CASE CameraStep \/ UNCHANGED vars
  <2>1. UNCHANGED runtime_vars
    BY <1>5 DEF CameraStep, NoFrameWaiting, ProcessFrame, vars
  <2>2. UNCHANGED Autonomy!vars
    BY <2>1 DEF runtime_vars, Autonomy!vars, Autonomy!land_vars,
                Autonomy!target_vars
  <2> QED
    BY <2>2, AutonomyRest DEF AutonomyProofs!AnyStep
<1> QED
  BY <1>1, <1>2, <1>3, <1>4, <1>5 DEF Next

LEMMA RuntimeTyped == Spec => []AutonomyProofs!Invariant
<1>1. Init => AutonomyProofs!Invariant
  BY AutonomyRest, AutonomyProofs!InitInvariant, SystemsAssumption,
     StartupLimitsAssumption, RuntimeLimitsAssumption DEF Init
<1>2. AutonomyProofs!Invariant /\ [Next]_vars => AutonomyProofs!Invariant'
  BY RuntimeStep, AutonomyProofs!StepInvariant, SystemsAssumption,
     StartupLimitsAssumption, RuntimeLimitsAssumption
<1> QED
  BY <1>1, <1>2, PTL DEF Spec

(***************************************************************************)
(* What the polls gave: a tag, for no longer than the warm-up counts.      *)
(***************************************************************************)
GivenTyped ==
  /\ polling \in {"camera", "vehicle", "reading"}
  /\ given \in Tags \cup {NoTag}
  /\ given_for \in 0..LandingTargetWarmup

LEMMA GivenTypedStep == TrackInvariant /\ GivenTyped /\ [Next]_vars => GivenTyped'
<1> SUFFICES ASSUME TrackInvariant, GivenTyped, [Next]_vars
             PROVE  GivenTyped'
  OBVIOUS
<1>1. CASE VehicleStep
  <2>1. CurrentTag \in Tags \cup {NoTag}
    BY DEF CurrentTag, TrackInvariant, TrackOK, Tracker!TypeOK
  <2> QED
    BY <1>1, <2>1, Limits DEF VehicleStep, GuideVehicle, GivenTyped
<1>2. CASE Tick
  BY <1>2, Limits DEF Tick, GivenTyped
<1>3. CASE CameraStep \/ AckStep \/ RequestStart \/ UNCHANGED vars
  BY <1>3 DEF CameraStep, NoFrameWaiting, ProcessFrame, AckStep, ReceiveAck,
              RequestStart, vars, GivenTyped
<1> QED
  BY <1>1, <1>2, <1>3 DEF Next

(***************************************************************************)
(* What VisionMonitor, TargetTracker, CompanionApplication and             *)
(* AutonomyRuntime keep has its type whatever the camera sees: the count   *)
(* of observations and the age of the track, the phases, the countdowns    *)
(* and the attempts of the runtime stay within their limits.               *)
(***************************************************************************)
THEOREM GuidanceTyped == Spec => []TypeOK
<1>1. Init => GivenTyped
  BY Limits DEF Init, GivenTyped
<1>2. TrackInvariant /\ AutonomyProofs!Invariant /\ GivenTyped => TypeOK
  BY AutonomyInvariant
     DEF TrackInvariant, TrackOK, SightingsOK, GivenTyped, TypeOK
<1> QED
  BY <1>1, <1>2, GivenTypedStep, TrackCorrect, RuntimeTyped, PTL DEF Spec
=============================================================================
