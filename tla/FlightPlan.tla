------------------------------ MODULE FlightPlan ------------------------------
(***************************************************************************)
(* What one autonomous flight promises, whatever the vehicle, the link and *)
(* the camera do: the stages come in order, each is entered only from the  *)
(* one before it, a flight that is aborted or over stays so until the      *)
(* operator asks for another, and a command appears on the link only in    *)
(* the stage it belongs to.                                                *)
(***************************************************************************)
CONSTANT Systems

VARIABLES stage,      \* how far the flight has come
          commanded   \* the commands put on the link so far

FollowedBy == [preparing |-> "guiding", guiding |-> "arming",
               arming |-> "climbing", climbing |-> "flying",
               flying |-> "descending", descending |-> "landed"]

CommandOf == [guiding |-> "set_guided_mode", arming |-> "arm",
              climbing |-> "takeoff", flying |-> "land"]

Over == {"landed", "aborted"}

Init == stage = "preparing" /\ commanded = {}

Progress == stage \in DOMAIN FollowedBy /\ stage' = FollowedBy[stage]

Abort == stage \notin Over /\ stage' = "aborted"

Renew == stage \in Over /\ stage' = "preparing"

(***************************************************************************)
(* A command of the stage the step ends in may go out with the step.       *)
(***************************************************************************)
Send ==
  \/ UNCHANGED commanded
  \/ /\ stage' \in DOMAIN CommandOf
     /\ \E system \in Systems :
          commanded' =
            commanded \cup {[action |-> CommandOf[stage'], system |-> system]}

Next ==
  /\ Progress \/ Abort \/ Renew \/ UNCHANGED stage
  /\ Send

Spec == Init /\ [][Next]_<<stage, commanded>>
=============================================================================
