-------------------------------- MODULE Uplink --------------------------------
(***************************************************************************)
(* The companion heartbeat on its way out: the schedule of                 *)
(* CompanionApplication::poll, write_frame over a SerialTransport that may *)
(* take a part of a frame, be busy, fail or disappear, and the parser of   *)
(* the flight controller, which counts the time since the last heartbeat.  *)
(*                                                                         *)
(* A frame is FrameSize units.  A poll reads, decides which frames to send *)
(* and writes them one call of the transport at a time; it takes no time.  *)
(***************************************************************************)
EXTENDS SerialTransport, Sequences

CONSTANTS
  HeartbeatInterval,    \* kHeartbeatInterval, 1 s
  HeartbeatTimeout,     \* ticks a heartbeat of the vehicle stays fresh, 3 s
  FrameSize,
  MaxSilence,           \* bound: silence is not counted further
  MaxCalm               \* bound: nor is calm

ASSUME UplinkAssumption ==
  {HeartbeatInterval, HeartbeatTimeout, FrameSize, MaxSilence, MaxCalm}
    \subseteq Nat \ {0}

VARIABLES
  serial,               \* the transport
  line,                 \* good; bad: any call may fail; absent
  heartbeat,            \* freshness of the vehicle's heartbeat
  next_heartbeat,
  companion_heartbeat_active,
  frames,               \* what this poll still has to write
  offset,               \* units of the first of them written so far
  carried,              \* and those of them on the present connection
  parser,               \* of the flight controller: units held, and whether
                        \* they are of more than one frame
  silence,              \* ticks since it took a whole companion heartbeat
  calm,                 \* ticks the line has been good
  polled,               \* the loop polled since the last tick
  since_attempt         \* ticks since the device was last opened or closed

vars == <<serial, line, heartbeat, next_heartbeat, companion_heartbeat_active,
          frames, offset, carried, parser, silence, calm, polled,
          since_attempt>>

Idle == [held |-> 0, torn |-> FALSE]

Init ==
  /\ serial = Constructed
  /\ line = "good"
  /\ heartbeat = 0 /\ next_heartbeat = 0
  /\ companion_heartbeat_active = FALSE
  /\ frames = <<>> /\ offset = 0 /\ carried = 0
  /\ parser = Idle
  /\ silence = MaxSilence /\ calm = 0
  /\ polled = FALSE
  /\ since_attempt = 0

(***************************************************************************)
(* Opening the device works on a good line; on a good line with the device *)
(* open the vehicle is heard in every poll and every write takes units.    *)
(***************************************************************************)
Opens == IF line = "good" THEN {TRUE}
         ELSE IF line = "bad" THEN BOOLEAN
         ELSE {FALSE}

OnLine(outcomes, fine) ==
  IF line = "good" /\ fine \in outcomes THEN {fine} ELSE outcomes

Attempted == IF Attempts(serial) THEN 0 ELSE since_attempt

(***************************************************************************)
(* poll, up to the frames it writes: the heartbeat if it is due and a      *)
(* vehicle is connected, then others.  The next one is due an interval     *)
(* later whether or not this one gets out.  Mutant: one heartbeat tells    *)
(* enough, until the vehicle is lost.                                      *)
(***************************************************************************)
HeartbeatFramesOnce ==
  IF heartbeat' > 0 /\ next_heartbeat = 0 /\ ~companion_heartbeat_active
  THEN <<"HEARTBEAT">> ELSE <<>>

HeartbeatFrames ==
  IF heartbeat' > 0 /\ next_heartbeat = 0 THEN <<"HEARTBEAT">> ELSE <<>>

Poll(opens, outcome, others) ==
  /\ frames = <<>>
  /\ LET connected == EnsureConnected(serial, opens) IN
     /\ outcome \in OnLine(ReadOutcomes(connected), "data")
     /\ serial' = AfterRead(connected, outcome)
  /\ heartbeat' = IF outcome = "data" THEN HeartbeatTimeout ELSE heartbeat
  /\ frames' = HeartbeatFrames \o (IF heartbeat' > 0 THEN others ELSE <<>>)
  /\ next_heartbeat' =
       IF next_heartbeat = 0 THEN HeartbeatInterval ELSE next_heartbeat
  /\ companion_heartbeat_active' =
       (companion_heartbeat_active /\ heartbeat' > 0)
  /\ polled' = TRUE
  /\ since_attempt' = IF outcome = "failed" THEN 0 ELSE Attempted
  /\ UNCHANGED <<line, offset, carried, parser, silence, calm>>

(***************************************************************************)
(* The flight controller's parser: a frame begins with its first unit, and *)
(* ends after FrameSize units, whatever frames they are of.  Units that    *)
(* are not part of a frame are skipped, and a frame that is not whole is   *)
(* dropped by its checksum.                                                *)
(***************************************************************************)
Parsed(count) ==
  LET began == offset = 0 /\ parser.held = 0
      torn == parser.torn \/ parser.held # offset
      held == parser.held + count
  IN IF parser.held = 0 /\ ~began THEN Idle
     ELSE IF held >= FrameSize THEN Idle
     ELSE [held |-> held, torn |-> torn]

Delivered(count) ==
  /\ ~parser.torn /\ parser.held = offset
  /\ offset + count = FrameSize

(***************************************************************************)
(* One call of the transport in the loop of write_frame, which gives up at *)
(* the first call that takes nothing.                                      *)
(***************************************************************************)
Advance(written) ==
  IF offset + written = FrameSize \/ written = 0
  THEN /\ frames' = Tail(frames)
       /\ offset' = 0
  ELSE /\ offset' = offset + written
       /\ UNCHANGED frames

Sent(written) == offset + written = FrameSize

Carried(result) ==
  IF offset' = 0 THEN 0
  ELSE IF result.serial.opened # serial.opened THEN result.written
  ELSE carried + result.written

WriteCall(opens, outcome, count) ==
  /\ frames # <<>>
  /\ LET connected == EnsureConnected(serial, opens)
         result == AfterWrite(connected, outcome, count)
     IN /\ outcome \in OnLine(WriteOutcomes(connected), "written")
        /\ serial' = result.serial
        /\ Advance(result.written)
        /\ carried' = Carried(result)
        /\ parser' = IF result.written = 0 THEN parser ELSE Parsed(result.written)
        /\ companion_heartbeat_active' =
             (companion_heartbeat_active
                \/ (Head(frames) = "HEARTBEAT" /\ Sent(result.written)))
        /\ silence' =
             IF Head(frames) = "HEARTBEAT" /\ Delivered(result.written)
             THEN 0 ELSE silence
  /\ since_attempt' = IF outcome = "failed" THEN 0 ELSE Attempted
  /\ UNCHANGED <<line, heartbeat, next_heartbeat, calm, polled>>

(***************************************************************************)
(* The line changes at any moment; a device that goes away loses power.    *)
(***************************************************************************)
ChangeLine(condition) ==
  /\ line' = condition /\ line # condition
  /\ serial' = IF condition = "absent" THEN Vanished(serial) ELSE serial
  /\ parser' = IF condition = "absent" THEN Idle ELSE parser
  /\ calm' = 0
  /\ UNCHANGED <<heartbeat, next_heartbeat, companion_heartbeat_active, frames,
                 offset, carried, silence, polled, since_attempt>>

(***************************************************************************)
(* The loop polls much more often than the clock ticks.                    *)
(***************************************************************************)
Elapse(timer) == IF timer > 0 THEN timer - 1 ELSE 0

Count(counter, limit) == IF counter < limit THEN counter + 1 ELSE limit

Tick ==
  /\ frames = <<>> /\ polled
  /\ serial' = AfterTick(serial)
  /\ heartbeat' = Elapse(heartbeat)
  /\ next_heartbeat' = Elapse(next_heartbeat)
  /\ silence' = Count(silence, MaxSilence)
  /\ calm' = IF line = "good" THEN Count(calm, MaxCalm) ELSE 0
  /\ polled' = FALSE
  /\ since_attempt' = Count(since_attempt, ReconnectInterval)
  /\ UNCHANGED <<line, companion_heartbeat_active, frames, offset, carried,
                 parser>>

PollStep ==
  \E opens \in Opens, outcome \in {"quiet", "data", "failed"},
     others \in {<<>>, <<"COMMAND_LONG">>} : Poll(opens, outcome, others)

WriteStep ==
  \E opens \in Opens, outcome \in {"written", "none", "failed"},
     count \in 1..(FrameSize - offset) : WriteCall(opens, outcome, count)

Next ==
  \/ PollStep
  \/ WriteStep
  \/ \E condition \in {"good", "bad", "absent"} : ChangeLine(condition)
  \/ Tick

Spec == Init /\ [][Next]_vars

-----------------------------------------------------------------------------
(***************************************************************************)
(* The type invariant.                                                     *)
(***************************************************************************)
UplinkTypeOK ==
  /\ serial \in Serial
  /\ line \in {"good", "bad", "absent"}
  /\ heartbeat \in 0..HeartbeatTimeout
  /\ next_heartbeat \in 0..HeartbeatInterval
  /\ companion_heartbeat_active \in BOOLEAN
  /\ frames \in Seq({"HEARTBEAT", "COMMAND_LONG"})
  /\ offset \in 0..(FrameSize - 1)
  /\ carried \in 0..(FrameSize - 1)
  /\ parser \in [held: 0..(FrameSize - 1), torn: BOOLEAN]
  /\ silence \in 0..MaxSilence
  /\ calm \in 0..MaxCalm
  /\ polled \in BOOLEAN
  /\ since_attempt \in 0..ReconnectInterval

(***************************************************************************)
(* What was written of a frame was written to one connection: no frame is  *)
(* finished on another one than it was begun on.                           *)
(***************************************************************************)
FrameOnOneConnection == carried = offset

(***************************************************************************)
(* Both: what is known of the line at any moment.                          *)
(***************************************************************************)
UplinkInvariant ==
  /\ UplinkTypeOK
  /\ FrameOnOneConnection

(***************************************************************************)
(* The device is not opened more often than once per reconnect interval,   *)
(* although read and every write may try.                                  *)
(***************************************************************************)
ReconnectIsPaced ==
  [][(PollStep \/ WriteStep) /\ Attempts(serial) =>
       since_attempt >= ReconnectInterval]_vars

(***************************************************************************)
(* Whatever went wrong before, frames cut short included, a line that has  *)
(* been good for the reconnect interval and two heartbeat intervals        *)
(* carries a whole heartbeat in every interval, and says so.               *)
(***************************************************************************)
HeartbeatsResume ==
  calm >= ReconnectInterval + 2 * HeartbeatInterval =>
    /\ silence <= HeartbeatInterval
    /\ companion_heartbeat_active
=============================================================================
