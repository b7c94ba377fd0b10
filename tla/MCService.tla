------------------------------- MODULE MCService -------------------------------
(***************************************************************************)
(* Service with every combination of the switches that decide whether and  *)
(* how it may fly, valid command lines with one thing too much or wrong,   *)
(* and those of the launcher.                                              *)
(***************************************************************************)
EXTENDS Service

Switches ==
  {"--json", "--sitl", "--autonomous", "--exit-after-autonomy",
   "--interactive", "--camera", "--apriltag", "--camera-extrinsics"}

Calibrated == {"--camera-calibration", "--apriltag-size-mm"}

Line(given, bad, transport, source) ==
  [given |-> given, bad |-> bad, transport |-> transport,
   camera_source |-> source]

Combinations ==
  {Line(given \cup IF "--apriltag" \in given THEN Calibrated ELSE {}, {},
        transport, "rpicam") :
     given \in SUBSET Switches, transport \in {"udp", "serial"}}

Mission ==
  {"--json", "--sitl", "--autonomous", "--exit-after-autonomy", "--camera",
   "--camera-source", "--apriltag", "--camera-extrinsics"} \cup Calibrated

Numbers ==
  {"--udp-bind", "--udp-port", "--serial-device", "--baud", "--snapshot-ms",
   "--camera-width", "--camera-fps", "--camera-udp-port",
   "--camera-preview-port"}

Variations ==
  UNION {{Line(Mission \cup {option}, bad, "udp", source),
          Line(Mission \ {option}, {}, "udp", source)} :
           option \in Numbers \cup Mission \cup {"--camera-preview"},
           bad \in {{}} \cup {{number} : number \in Numbers},
           source \in {"rpicam", "gstreamer"}}

MCCommandLines ==
  Combinations \cup {one \in Variations : one.bad \subseteq one.given}

Launcher ==
  {"--serial-device", "--baud", "--snapshot-ms", "--json"}

MCLauncherLines ==
  {Line(Launcher, {}, "serial", "rpicam"),
   Line(Launcher \cup {"--camera", "--camera-width", "--camera-fps",
                       "--apriltag", "--camera-preview",
                       "--camera-preview-port"}, {}, "serial", "rpicam")}
=============================================================================
