---------------------------- MODULE LaunchOptions ----------------------------
(***************************************************************************)
(* Which command lines start what: parse_command_line with its validation, *)
(* the motion safety policy, and what the constructor of                   *)
(* CompanionApplication still refuses.                                     *)
(*                                                                         *)
(* A command line is the set of options given, the values of the two that  *)
(* choose between names, and those of the options given whose number or    *)
(* address the validation rejects: zero, odd, negative or empty.  A file    *)
(* without a name is an option that was not given.  --help and the board   *)
(* table of the console are left out, and what is no option at all.        *)
(***************************************************************************)
EXTENDS Naturals

CameraSettings ==
  {"--camera-source", "--camera-udp-port", "--camera-width", "--camera-height",
   "--camera-fps", "--camera-preview-port", "--apriltag", "--camera-preview",
   "--camera-calibration", "--camera-extrinsics", "--apriltag-size-mm"}

Options ==
  CameraSettings \cup
  {"--udp-bind", "--udp-port", "--serial-device", "--baud", "--snapshot-ms",
   "--camera", "--json", "--sitl", "--autonomous", "--exit-after-autonomy",
   "--interactive"}

CommandLine ==
  [given: SUBSET Options, bad: SUBSET Options,
   transport: {"udp", "serial"}, camera_source: {"rpicam", "gstreamer"}]

Given(line, option) == option \in line.given

Sound(line, options) == options \cap line.bad = {}

Without(line, options) == options \cap line.given = {}

(***************************************************************************)
(* validate_transport                                                      *)
(***************************************************************************)
ValidTransport(line) ==
  \/ /\ line.transport = "udp"
     /\ Without(line, {"--serial-device", "--baud"})
     /\ Sound(line, {"--udp-bind", "--udp-port"})
  \/ /\ line.transport = "serial"
     /\ Without(line, {"--udp-bind", "--udp-port", "--sitl"})
     /\ Given(line, "--serial-device")
     /\ Sound(line, {"--serial-device", "--baud"})

(***************************************************************************)
(* validate_camera; without a camera it looks no further.                  *)
(***************************************************************************)
ValidSource(line) ==
  \/ /\ line.camera_source = "rpicam"
     /\ Without(line, {"--camera-udp-port"})
     /\ Sound(line, {"--camera-fps"})
  \/ /\ line.camera_source = "gstreamer"
     /\ Without(line, {"--camera-fps"})
     /\ Sound(line, {"--camera-udp-port"})

ValidVision(line) ==
  /\ Given(line, "--camera-calibration") = Given(line, "--apriltag-size-mm")
  /\ Given(line, "--camera-calibration") => Given(line, "--apriltag")
  /\ Sound(line, {"--apriltag-size-mm"})
  /\ Given(line, "--camera-extrinsics") => Given(line, "--camera-calibration")
  /\ Given(line, "--autonomous") => Given(line, "--camera-extrinsics")

ValidPreview(line) ==
  /\ Given(line, "--camera-preview-port") => Given(line, "--camera-preview")
  /\ Sound(line, {"--camera-preview-port"})

ValidCamera(line) ==
  \/ Without(line, CameraSettings \cup {"--camera"})
  \/ /\ Given(line, "--camera")
     /\ Sound(line, {"--camera-width", "--camera-height"})
     /\ ValidSource(line)
     /\ ValidPreview(line)
     /\ ValidVision(line)

ValidOptions(line) ==
  /\ Sound(line, {"--snapshot-ms"})
  /\ Given(line, "--exit-after-autonomy") => Given(line, "--autonomous")
  /\ ~(Given(line, "--interactive") /\ Given(line, "--json"))
  /\ ValidTransport(line)
  /\ ValidCamera(line)

-----------------------------------------------------------------------------
(***************************************************************************)
(* evaluate_motion_safety                                                  *)
(***************************************************************************)
MotionRequested(line) ==
  Given(line, "--autonomous") \/ Given(line, "--interactive")

MotionSafety(sitl, transport, motion_requested) ==
  LET valid == IF sitl THEN transport = "udp" ELSE ~motion_requested
  IN [configuration_valid |-> valid,
      motion_commands_allowed |-> valid /\ motion_requested]

MotionOf(line) ==
  MotionSafety(Given(line, "--sitl"), line.transport, MotionRequested(line))

(***************************************************************************)
(* The constructor: the two controllers are enabled together by            *)
(* --autonomous; sources and detectors are there if their options are.     *)
(* Mutant: the command line is taken to have been checked.                 *)
(***************************************************************************)
ConstructibleAsParsed(line) == TRUE

Constructible(line) ==
  /\ Given(line, "--autonomous") => MotionOf(line).motion_commands_allowed
  /\ ~Without(line, {"--apriltag", "--camera-preview"}) => Given(line, "--camera")
  /\ Given(line, "--camera-extrinsics") => Given(line, "--apriltag")
  /\ Given(line, "--autonomous") => Given(line, "--camera-extrinsics")

Accepted(line) ==
  /\ ValidOptions(line)
  /\ MotionOf(line).configuration_valid
  /\ Constructible(line)
=============================================================================
