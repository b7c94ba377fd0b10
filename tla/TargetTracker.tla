---------------------------- MODULE TargetTracker ----------------------------
(***************************************************************************)
(* application/TargetTracker: which tag is followed, how many observations *)
(* confirmed it, how old the last one is and whose measurements are        *)
(* blended in the smoothed position.                                       *)
(*                                                                         *)
(* An observation is a tag and a decision margin; the margin 0 stands for  *)
(* one without a pose, with corrected bits, or with a position that is not *)
(* finite or not ahead of the camera.  A frame is the set of observations  *)
(* the detector made in it.                                                *)
(***************************************************************************)
EXTENDS Integers

CONSTANTS
  Tags,                    \* tag ids
  NoTag,                   \* std::nullopt in place of a tag id
  RequiredObservations,    \* required_consecutive_observations, 3
  LossTimeout,             \* loss_timeout, 500 ms
  MinimumDecisionMargin    \* minimum_decision_margin, 20.0

VARIABLES
  target_id,
  consecutive_observations,   \* counted up to RequiredObservations
  observation_age,            \* time since last_observed_at_, NoAge if unset
  position                    \* the tags whose measurements it blends

vars == <<target_id, consecutive_observations, observation_age, position>>

NoAge == -1

Init ==
  /\ target_id = NoTag
  /\ consecutive_observations = 0
  /\ observation_age = NoAge
  /\ position = {}

-----------------------------------------------------------------------------
ValidObservation(observation) == observation.margin >= MinimumDecisionMargin

Expired == observation_age > LossTimeout

(***************************************************************************)
(* The track an update continues: update resets an expired one first.      *)
(***************************************************************************)
Followed == IF Expired THEN NoTag ELSE target_id

Candidates(frame) ==
  {observation \in frame :
     /\ ValidObservation(observation)
     /\ Followed # NoTag => observation.id = Followed}

(***************************************************************************)
(* The best candidate.  Of two with the same margin the detector's order   *)
(* decides.                                                                *)
(***************************************************************************)
Selected(frame, observation) ==
  /\ observation \in Candidates(frame)
  /\ \A other \in Candidates(frame) : other.margin <= observation.margin

Reset ==
  /\ target_id' = NoTag
  /\ consecutive_observations' = 0
  /\ observation_age' = NoAge
  /\ position' = {}

(***************************************************************************)
(* Without a candidate a track that is still being acquired is given up,   *)
(* a confirmed one lives on until it expires.                              *)
(***************************************************************************)
Confirmed == Followed # NoTag /\ consecutive_observations >= RequiredObservations

(***************************************************************************)
(* Mutant: a missing frame during acquisition does not reset the streak.   *)
(***************************************************************************)
MissKeepingStreak(frame) ==
  /\ Candidates(frame) = {}
  /\ IF Followed # NoTag THEN UNCHANGED vars ELSE Reset

Miss(frame) ==
  /\ Candidates(frame) = {}
  /\ IF Confirmed THEN UNCHANGED vars ELSE Reset

Acquire(observation) ==
  /\ Followed = NoTag
  /\ target_id' = observation.id
  /\ consecutive_observations' = 1
  /\ observation_age' = 0
  /\ position' = {observation.id}

Follow(observation) ==
  /\ Followed # NoTag
  /\ consecutive_observations' =
       IF consecutive_observations < RequiredObservations
         THEN consecutive_observations + 1 ELSE RequiredObservations
  /\ observation_age' = 0
  /\ position' = position \cup {observation.id}
  /\ UNCHANGED target_id

(***************************************************************************)
(* Mutant: the best valid observation is taken, whatever the track; the    *)
(* track goes over to its tag.                                             *)
(***************************************************************************)
UpdateJumping(frame) ==
  \/ Miss(frame)
  \/ \E observation \in frame :
       /\ ValidObservation(observation)
       /\ \A other \in frame : other.margin <= observation.margin
       /\ target_id' = observation.id
       /\ consecutive_observations' =
            IF Followed = NoTag THEN 1
            ELSE IF consecutive_observations < RequiredObservations
                   THEN consecutive_observations + 1 ELSE RequiredObservations
       /\ observation_age' = 0
       /\ position' = {observation.id}

(***************************************************************************)
(* update.                                                                 *)
(***************************************************************************)
Update(frame) ==
  \/ Miss(frame)
  \/ \E observation \in frame :
       /\ Selected(frame, observation)
       /\ Acquire(observation) \/ Follow(observation)

(***************************************************************************)
(* The phase of a snapshot.                                                *)
(***************************************************************************)
TrackPhase ==
  IF Followed = NoTag THEN "searching"
  ELSE IF consecutive_observations >= RequiredObservations
    THEN "tracking" ELSE "acquiring"

(***************************************************************************)
(* One tick of the clock.  Beyond the loss timeout all ages are alike.     *)
(***************************************************************************)
Tick ==
  /\ observation_age' = IF observation_age \in 0..LossTimeout
                          THEN observation_age + 1 ELSE observation_age
  /\ UNCHANGED <<target_id, consecutive_observations, position>>

TypeOK ==
  /\ target_id \in Tags \cup {NoTag}
  /\ consecutive_observations \in 0..RequiredObservations
  /\ observation_age \in (0..LossTimeout + 1) \cup {NoAge}
  /\ position \subseteq Tags
=============================================================================
