---------------------------- MODULE Devices_proofs ----------------------------
(***************************************************************************)
(* The two devices that fail and are opened again: the serial port of      *)
(* Uplink, and the camera of CameraPipeline.  They share no state; each    *)
(* part names the module it is about.  Everything is proved for every      *)
(* interval, every bound on the restarts and every number of frames.       *)
(***************************************************************************)
EXTENDS Uplink, CameraPipeline, Integers, SequenceTheorems, TLAPS

LEMMA UplinkLimits ==
  /\ ReconnectInterval \in Nat
  /\ HeartbeatInterval \in Nat /\ HeartbeatInterval > 0
  /\ HeartbeatTimeout \in Nat /\ HeartbeatTimeout > 0
  /\ FrameSize \in Nat /\ FrameSize > 0
  /\ MaxSilence \in Nat /\ MaxCalm \in Nat
BY SerialTransportAssumption, UplinkAssumption

-----------------------------------------------------------------------------
(***************************************************************************)
(* The transport alone: its types, and that an open device stays as it is. *)
(***************************************************************************)
LEMMA EnsureConnectedType ==
  ASSUME NEW device \in Serial, NEW opens \in BOOLEAN
  PROVE  EnsureConnected(device, opens) \in Serial
BY UplinkLimits DEF Serial, EnsureConnected, Attempts, Reopened, Disconnected

LEMMA OpenStaysOpen ==
  ASSUME NEW device \in Serial, NEW opens, device.descriptor # "closed"
  PROVE  EnsureConnected(device, opens) = device
BY DEF EnsureConnected, Attempts

LEMMA AfterReadType ==
  ASSUME NEW device \in Serial, NEW outcome
  PROVE  AfterRead(device, outcome) \in Serial
BY UplinkLimits DEF Serial, AfterRead, Disconnected

LEMMA AfterWriteType ==
  ASSUME NEW device \in Serial, NEW outcome, NEW count \in Nat \ {0}
  PROVE  /\ AfterWrite(device, outcome, count).serial \in Serial
         /\ AfterWrite(device, outcome, count).written \in {0, count}
         /\ AfterWrite(device, outcome, count).written > 0 =>
              outcome = "written" /\ AfterWrite(device, outcome, count).serial = device
BY UplinkLimits DEF Serial, AfterWrite, Disconnected

(***************************************************************************)
(* Only an open device takes units.                                        *)
(***************************************************************************)
LEMMA WritingNeedsOpen ==
  ASSUME NEW device \in Serial, "written" \in OnLine(WriteOutcomes(device), "written")
  PROVE  device.descriptor = "live"
BY DEF Serial, OnLine, WriteOutcomes

-----------------------------------------------------------------------------
(***************************************************************************)
(* The inductive invariant.  FrameOnOneConnection needs that a frame begun *)
(* is one whose connection is open; ReconnectIsPaced, that the two clocks  *)
(* of a closed device make up the interval.                                *)
(***************************************************************************)
BegunOnOpenDevice ==
  offset > 0 => frames # <<>> /\ serial.descriptor # "closed"

WaitsOutInterval ==
  serial.descriptor = "closed" =>
    serial.retry + since_attempt >= ReconnectInterval

UplinkOK ==
  /\ UplinkTypeOK
  /\ FrameOnOneConnection
  /\ BegunOnOpenDevice
  /\ WaitsOutInterval

LEMMA UplinkInit == Init => UplinkOK
<1> SUFFICES ASSUME Init PROVE UplinkOK
  OBVIOUS
<1>1. serial \in Serial /\ serial.descriptor = "live"
  BY UplinkLimits DEF Init, Constructed, Serial
<1>2. parser \in [held: 0..(FrameSize - 1), torn: BOOLEAN]
  BY UplinkLimits DEF Init, Idle
<1>3. frames \in Seq({"HEARTBEAT", "COMMAND_LONG"})
  BY DEF Init
<1>4. companion_heartbeat_active \in BOOLEAN /\ polled \in BOOLEAN
  BY DEF Init
<1>5. /\ heartbeat \in 0..HeartbeatTimeout
      /\ next_heartbeat \in 0..HeartbeatInterval
      /\ offset \in 0..(FrameSize - 1) /\ carried \in 0..(FrameSize - 1)
      /\ silence \in 0..MaxSilence /\ calm \in 0..MaxCalm
      /\ since_attempt \in 0..ReconnectInterval
  BY UplinkLimits DEF Init
<1>6. line \in {"good", "bad", "absent"}
  BY DEF Init
<1>7. UplinkTypeOK
  BY <1>1, <1>2, <1>3, <1>4, <1>5, <1>6 DEF UplinkTypeOK
<1> QED
  BY <1>1, <1>7
  DEF Init, UplinkOK, FrameOnOneConnection, BegunOnOpenDevice, WaitsOutInterval

(***************************************************************************)
(* A device that is closed after a call was closed before it, and not      *)
(* tried, or its interval has just begun.                                  *)
(***************************************************************************)
LEMMA CallWaits ==
  ASSUME UplinkTypeOK, WaitsOutInterval,
         NEW opens \in BOOLEAN, NEW failed \in BOOLEAN,
         NEW device, device = EnsureConnected(serial, opens),
         serial' = IF failed THEN Disconnected(device) ELSE device,
         since_attempt' = IF failed THEN 0 ELSE Attempted
  PROVE  WaitsOutInterval' /\ since_attempt' \in 0..ReconnectInterval
<1>1. serial \in Serial /\ since_attempt \in 0..ReconnectInterval
  BY DEF UplinkTypeOK
<1>2. device \in Serial
  BY <1>1, EnsureConnectedType
<1>3. CASE failed
  BY <1>2, <1>3, UplinkLimits DEF WaitsOutInterval, Disconnected, Serial
<1>4. CASE ~failed /\ ~Attempts(serial)
  BY <1>1, <1>4, UplinkLimits DEF WaitsOutInterval, EnsureConnected, Attempted
<1>5. CASE ~failed /\ Attempts(serial)
  BY <1>1, <1>5, UplinkLimits
  DEF WaitsOutInterval, EnsureConnected, Attempted, Disconnected, Reopened, Serial
<1> QED
  BY <1>3, <1>4, <1>5

-----------------------------------------------------------------------------
LEMMA PollInvariant ==
  ASSUME UplinkOK, NEW opens \in BOOLEAN, NEW outcome,
         NEW others \in {<<>>, <<"COMMAND_LONG">>}, Poll(opens, outcome, others)
  PROVE  UplinkOK'
<1>1. serial \in Serial /\ offset = 0 /\ carried = 0
  BY DEF UplinkOK, UplinkTypeOK, BegunOnOpenDevice, Poll, FrameOnOneConnection
<1>2. serial' \in Serial
  BY <1>1, EnsureConnectedType, AfterReadType DEF Poll
<1>3. WaitsOutInterval' /\ since_attempt' \in 0..ReconnectInterval
  BY CallWaits DEF UplinkOK, Poll, AfterRead
<1>4. frames' \in Seq({"HEARTBEAT", "COMMAND_LONG"})
  <2>1. HeartbeatFrames \in Seq({"HEARTBEAT", "COMMAND_LONG"})
    <3>1. <<>> \in Seq({"HEARTBEAT", "COMMAND_LONG"})
      OBVIOUS
    <3>2. <<"HEARTBEAT">> \in Seq({"HEARTBEAT", "COMMAND_LONG"})
      OBVIOUS
    <3> QED
      BY <3>1, <3>2 DEF HeartbeatFrames
  <2>2. (IF heartbeat' > 0 THEN others ELSE <<>>)
          \in Seq({"HEARTBEAT", "COMMAND_LONG"})
    <3>1. <<>> \in Seq({"HEARTBEAT", "COMMAND_LONG"})
      OBVIOUS
    <3>2. <<"COMMAND_LONG">> \in Seq({"HEARTBEAT", "COMMAND_LONG"})
      OBVIOUS
    <3>3. others \in Seq({"HEARTBEAT", "COMMAND_LONG"})
      BY <3>1, <3>2
    <3> QED
      BY <3>1, <3>3
  <2> QED
    BY <2>1, <2>2, ConcatProperties DEF Poll
<1>5. /\ heartbeat' \in 0..HeartbeatTimeout
      /\ next_heartbeat' \in 0..HeartbeatInterval
      /\ companion_heartbeat_active' \in BOOLEAN
  BY UplinkLimits DEF UplinkOK, UplinkTypeOK, Poll
<1>6. UplinkTypeOK'
  BY <1>2, <1>3, <1>4, <1>5 DEF UplinkOK, UplinkTypeOK, Poll
<1> QED
  BY <1>1, <1>3, <1>6
  DEF UplinkOK, FrameOnOneConnection, BegunOnOpenDevice, Poll

LEMMA ParsedType ==
  ASSUME UplinkTypeOK, NEW count \in Nat
  PROVE  Parsed(count) \in [held: 0..(FrameSize - 1), torn: BOOLEAN]
BY UplinkLimits DEF UplinkTypeOK, Parsed, Idle

LEMMA WriteInvariant ==
  ASSUME UplinkOK, NEW opens \in BOOLEAN, NEW outcome,
         NEW count \in 1..(FrameSize - offset), WriteCall(opens, outcome, count)
  PROVE  UplinkOK'
<1> DEFINE device == EnsureConnected(serial, opens)
           result == AfterWrite(device, outcome, count)
<1>1. /\ serial \in Serial /\ offset \in 0..(FrameSize - 1)
      /\ carried = offset /\ FrameSize \in Nat /\ count \in Nat \ {0}
  BY UplinkLimits DEF UplinkOK, UplinkTypeOK, FrameOnOneConnection
<1>2. device \in Serial
  BY <1>1, EnsureConnectedType
<1>3. /\ result.serial \in Serial /\ result.written \in {0, count}
      /\ result.written > 0 => outcome = "written" /\ result.serial = device
  BY <1>1, <1>2, AfterWriteType
<1>4. WaitsOutInterval' /\ since_attempt' \in 0..ReconnectInterval
  BY CallWaits DEF UplinkOK, WriteCall, AfterWrite
<1>5. /\ line' \in {"good", "bad", "absent"}
      /\ heartbeat' \in 0..HeartbeatTimeout
      /\ next_heartbeat' \in 0..HeartbeatInterval
      /\ companion_heartbeat_active' \in BOOLEAN
      /\ parser' \in [held: 0..(FrameSize - 1), torn: BOOLEAN]
      /\ silence' \in 0..MaxSilence /\ calm' \in 0..MaxCalm
      /\ polled' \in BOOLEAN
  <2>1. parser' \in [held: 0..(FrameSize - 1), torn: BOOLEAN]
    BY <1>1, <1>3, ParsedType DEF UplinkOK, UplinkTypeOK, WriteCall
  <2>2. silence' \in 0..MaxSilence
    BY UplinkLimits DEF UplinkOK, UplinkTypeOK, WriteCall
  <2> QED
    BY <2>1, <2>2 DEF UplinkOK, UplinkTypeOK, WriteCall
<1>6. CASE offset + result.written = FrameSize \/ result.written = 0
  <2>1. frames' = Tail(frames) /\ offset' = 0
    BY <1>6 DEF WriteCall, Advance
  <2>2. frames' \in Seq({"HEARTBEAT", "COMMAND_LONG"})
    BY <2>1, HeadTailProperties DEF UplinkOK, UplinkTypeOK, WriteCall
  <2>3. carried' = 0
    BY <2>1 DEF WriteCall, Carried
  <2>4. serial' \in Serial
    BY <1>3 DEF WriteCall
  <2>5. UplinkTypeOK'
    BY <1>1, <1>4, <1>5, <2>1, <2>2, <2>3, <2>4 DEF UplinkTypeOK
  <2> QED
    BY <1>4, <2>1, <2>3, <2>5
    DEF UplinkOK, FrameOnOneConnection, BegunOnOpenDevice
<1>7. CASE offset + result.written # FrameSize /\ result.written # 0
  <2>1. /\ frames' = frames /\ offset' = offset + count
        /\ result.written = count /\ result.serial = device
        /\ outcome = "written"
    BY <1>1, <1>3, <1>7 DEF WriteCall, Advance
  <2>2. serial' = device /\ device.descriptor = "live"
    BY <1>2, <2>1, WritingNeedsOpen DEF WriteCall
  <2>3. offset' \in 1..(FrameSize - 1)
    BY <1>1, <1>7, <2>1
  <2>4. carried' = offset'
    <3>1. CASE offset = 0
      BY <1>1, <2>1, <2>3, <3>1 DEF WriteCall, Carried
    <3>2. CASE offset > 0
      <4>1. device = serial
        BY <1>1, <3>2, OpenStaysOpen DEF UplinkOK, BegunOnOpenDevice
      <4> QED
        BY <1>1, <2>1, <2>3, <4>1 DEF WriteCall, Carried
    <3> QED
      BY <1>1, <3>1, <3>2
  <2>5. serial' \in Serial
    BY <1>2, <2>2
  <2>6. frames' \in Seq({"HEARTBEAT", "COMMAND_LONG"})
    BY <2>1 DEF UplinkOK, UplinkTypeOK
  <2>7. offset' \in 0..(FrameSize - 1) /\ carried' \in 0..(FrameSize - 1)
    BY <1>1, <2>3, <2>4
  <2>8. UplinkTypeOK'
    BY <1>4, <1>5, <2>5, <2>6, <2>7 DEF UplinkTypeOK
  <2>9. BegunOnOpenDevice'
    <3>1. frames # <<>>
      BY DEF WriteCall
    <3> QED
      BY <2>1, <2>2, <3>1 DEF BegunOnOpenDevice
  <2> QED
    BY <1>4, <2>4, <2>8, <2>9 DEF UplinkOK, FrameOnOneConnection
<1> QED
  BY <1>6, <1>7

LEMMA LineInvariant ==
  ASSUME UplinkOK, NEW condition \in {"good", "bad", "absent"},
         ChangeLine(condition)
  PROVE  UplinkOK'
<1>1. /\ serial' \in Serial
      /\ (serial'.descriptor = "closed") <=> (serial.descriptor = "closed")
      /\ serial'.retry = serial.retry
  BY DEF UplinkOK, UplinkTypeOK, ChangeLine, Vanished, Serial
<1>2. UplinkTypeOK'
  BY <1>1, UplinkLimits DEF UplinkOK, UplinkTypeOK, ChangeLine, Idle
<1> QED
  BY <1>1, <1>2
  DEF UplinkOK, FrameOnOneConnection, BegunOnOpenDevice, WaitsOutInterval,
      ChangeLine

LEMMA TickInvariant ==
  ASSUME UplinkOK, Tick
  PROVE  UplinkOK'
<1>1. /\ serial \in Serial /\ since_attempt \in 0..ReconnectInterval
      /\ heartbeat \in 0..HeartbeatTimeout
      /\ next_heartbeat \in 0..HeartbeatInterval
      /\ silence \in 0..MaxSilence /\ calm \in 0..MaxCalm
  BY DEF UplinkOK, UplinkTypeOK
<1>2. /\ serial' \in Serial
      /\ serial'.descriptor = serial.descriptor
      /\ serial'.retry = IF serial.retry > 0 THEN serial.retry - 1 ELSE 0
  <2>1. serial' = [serial EXCEPT !.retry = IF serial.retry > 0
                                           THEN serial.retry - 1 ELSE 0]
    BY DEF Tick, AfterTick
  <2>2. (IF serial.retry > 0 THEN serial.retry - 1 ELSE 0)
          \in 0..ReconnectInterval
    BY <1>1, UplinkLimits DEF Serial
  <2> QED
    BY <1>1, <2>1, <2>2 DEF Serial
<1>3. /\ since_attempt' \in 0..ReconnectInterval
      /\ since_attempt' = IF since_attempt < ReconnectInterval
                          THEN since_attempt + 1 ELSE ReconnectInterval
  BY <1>1, UplinkLimits DEF Tick, Count
<1>4. /\ heartbeat' \in 0..HeartbeatTimeout
      /\ next_heartbeat' \in 0..HeartbeatInterval
  BY <1>1, UplinkLimits DEF Tick, Elapse
<1>5. silence' \in 0..MaxSilence /\ calm' \in 0..MaxCalm
  BY <1>1, UplinkLimits DEF Tick, Count
<1>6. UplinkTypeOK'
  BY <1>2, <1>3, <1>4, <1>5 DEF UplinkOK, UplinkTypeOK, Tick
<1>7. WaitsOutInterval'
  BY <1>1, <1>2, <1>3, UplinkLimits DEF UplinkOK, WaitsOutInterval, Serial
<1> QED
  BY <1>2, <1>6, <1>7
  DEF UplinkOK, FrameOnOneConnection, BegunOnOpenDevice, Tick

LEMMA UplinkStep == UplinkOK /\ [Next]_vars => UplinkOK'
<1> SUFFICES ASSUME UplinkOK, [Next]_vars PROVE UplinkOK'
  OBVIOUS
<1>1. CASE PollStep
  <2> PICK opens \in Opens, outcome \in {"quiet", "data", "failed"},
           others \in {<<>>, <<"COMMAND_LONG">>} : Poll(opens, outcome, others)
    BY <1>1 DEF PollStep
  <2> QED
    BY PollInvariant DEF Opens
<1>2. CASE WriteStep
  <2> PICK opens \in Opens, outcome \in {"written", "none", "failed"},
           count \in 1..(FrameSize - offset) : WriteCall(opens, outcome, count)
    BY <1>2 DEF WriteStep
  <2> QED
    BY WriteInvariant DEF Opens
<1>3. CASE \E condition \in {"good", "bad", "absent"} : ChangeLine(condition)
  BY <1>3, LineInvariant
<1>4. CASE Tick
  BY <1>4, TickInvariant
<1>5. CASE UNCHANGED vars
  BY <1>5 DEF vars, UplinkOK, UplinkTypeOK, FrameOnOneConnection,
    BegunOnOpenDevice, WaitsOutInterval
<1> QED
  BY <1>1, <1>2, <1>3, <1>4, <1>5 DEF Next

-----------------------------------------------------------------------------
LEMMA UplinkHolds == Spec => []UplinkOK
BY UplinkInit, UplinkStep, PTL DEF Spec

(***************************************************************************)
(* UplinkInvariant: the types, and no frame is finished on another         *)
(* connection than it was begun on.                                        *)
(***************************************************************************)
THEOREM UplinkCorrect == Spec => []UplinkInvariant
<1>1. UplinkOK => UplinkInvariant
  BY DEF UplinkOK, UplinkInvariant
<1> QED
  BY <1>1, UplinkHolds, PTL

(***************************************************************************)
(* ReconnectIsPaced: the device is opened at most once in every reconnect  *)
(* interval, by read or by write.                                          *)
(***************************************************************************)
THEOREM ReconnectCorrect == Spec => ReconnectIsPaced
<1>1. UplinkOK /\ [Next]_vars =>
        [(PollStep \/ WriteStep) /\ Attempts(serial) =>
           since_attempt >= ReconnectInterval]_vars
  <2> SUFFICES ASSUME UplinkOK, Attempts(serial)
               PROVE  since_attempt >= ReconnectInterval
    OBVIOUS
  <2> QED
    BY UplinkLimits DEF UplinkOK, WaitsOutInterval, UplinkTypeOK, Attempts, Serial
<1> QED
  BY <1>1, UplinkHolds, PTL DEF Spec, ReconnectIsPaced

-----------------------------------------------------------------------------
(***************************************************************************)
(* When heartbeats resume.  The schedule: a poll leaves the next heartbeat *)
(* and the next attempt in the future, and a heartbeat is the first frame  *)
(* of its poll.                                                            *)
(***************************************************************************)
Pending == frames # <<>> /\ Head(frames) = "HEARTBEAT"

ScheduleOK ==
  /\ calm > 0 => line = "good"
  /\ frames \in {<<>>, <<"HEARTBEAT">>, <<"COMMAND_LONG">>,
                 <<"HEARTBEAT", "COMMAND_LONG">>}
  /\ frames # <<>> => polled
  /\ polled => next_heartbeat > 0
  /\ ~polled => next_heartbeat < HeartbeatInterval
  /\ Pending => next_heartbeat = HeartbeatInterval
  /\ polled /\ serial.descriptor = "closed" => serial.retry > 0

(***************************************************************************)
(* The parser has at least what was written of the frame in hand, or has   *)
(* given it up; so the end of a frame always finds it idle.                *)
(***************************************************************************)
ParserOK ==
  /\ parser.held = 0 \/ parser.held >= offset
  /\ parser.held = 0 => ~parser.torn
  /\ serial.descriptor = "dead" => parser.held = 0

Clean == parser.held = offset /\ ~parser.torn

(***************************************************************************)
(* How far a calm line has come: a heartbeat was taken within the          *)
(* interval; or the next one will be; or the next one is lost with what    *)
(* the parser holds; or the device waits to be opened; or is not yet known *)
(* to be gone.  DueBy bounds the calm at which the next heartbeat is sent. *)
(***************************************************************************)
DueBy(limit) == IF Pending THEN calm <= limit ELSE calm + next_heartbeat <= limit

Told ==
  /\ Clean /\ companion_heartbeat_active
  /\ IF Pending THEN silence <= HeartbeatInterval
     ELSE silence + next_heartbeat <= HeartbeatInterval

OpenOnTime ==
  \/ Told
  \/ Clean /\ DueBy(ReconnectInterval + 2 * HeartbeatInterval - 1)
  \/ DueBy(ReconnectInterval + HeartbeatInterval - 1)

ClosedOnTime ==
  \/ serial.retry + calm <= ReconnectInterval
  \/ serial.retry + calm <= ReconnectInterval + 1 /\ parser.held = 0

OnTime ==
  /\ serial.descriptor = "live" => OpenOnTime
  /\ serial.descriptor = "closed" => ClosedOnTime
  /\ serial.descriptor = "dead" => calm = 0 \/ (calm = 1 /\ ~polled)

TimelyOK == ScheduleOK /\ ParserOK /\ OnTime

(***************************************************************************)
(* The sums that a tick and the beginning of a calm are about.             *)
(***************************************************************************)
LEMMA OneUpOneDown ==
  \A x, y, a, b, limit \in Nat :
    a + b <= limit /\ x <= a + 1 /\ y = b - 1 => x + y <= limit
OBVIOUS

LEMMA NothingAdded ==
  \A x, y, limit \in Nat :
    x = 0 /\ y <= limit => x + y <= limit /\ y + x <= limit
OBVIOUS

(***************************************************************************)
(* At the beginning of a calm everything is on time.                       *)
(***************************************************************************)
LEMMA NoCalmYet ==
  ASSUME UplinkTypeOK, calm = 0, ReconnectInterval > 0
  PROVE  OnTime
BY UplinkLimits
DEF UplinkTypeOK, Serial, OnTime, OpenOnTime, ClosedOnTime, DueBy

LEMMA InitTimely == ReconnectInterval > 0 /\ Init => TimelyOK
<1> SUFFICES ASSUME ReconnectInterval > 0, Init PROVE TimelyOK
  OBVIOUS
<1>1. OnTime
  BY UplinkInit, NoCalmYet DEF UplinkOK, Init
<1>2. ScheduleOK
  BY UplinkLimits DEF Init, ScheduleOK, Pending, Constructed
<1>3. ParserOK
  BY DEF Init, ParserOK, Idle, Constructed
<1> QED
  BY <1>1, <1>2, <1>3 DEF TimelyOK

LEMMA HeartbeatThenCommand ==
  <<"HEARTBEAT">> \o <<"COMMAND_LONG">> = <<"HEARTBEAT", "COMMAND_LONG">>
<1> DEFINE S == {"HEARTBEAT", "COMMAND_LONG"}
           one == <<"HEARTBEAT">>
           other == <<"COMMAND_LONG">>
           both == <<"HEARTBEAT", "COMMAND_LONG">>
<1>1. one \in Seq(S) /\ Len(one) = 1 /\ one[1] = "HEARTBEAT"
  OBVIOUS
<1>2. other \in Seq(S) /\ Len(other) = 1 /\ other[1] = "COMMAND_LONG"
  OBVIOUS
<1>3. /\ both \in Seq(S) /\ Len(both) = 2
      /\ both[1] = "HEARTBEAT" /\ both[2] = "COMMAND_LONG"
  OBVIOUS
<1> HIDE DEF S, one, other, both
<1>4. /\ one \o other \in Seq(S) /\ Len(one \o other) = 2
      /\ (one \o other)[1] = "HEARTBEAT" /\ (one \o other)[2] = "COMMAND_LONG"
  BY <1>1, <1>2, ConcatProperties
<1>5. \A i \in 1..Len(one \o other) : (one \o other)[i] = both[i]
  BY <1>3, <1>4
<1>6. one \o other = both
  BY <1>3, <1>4, <1>5, SeqEqual
<1> QED
  BY <1>6 DEF one, other, both

LEMMA PollTimely ==
  ASSUME ReconnectInterval > 0, UplinkOK, UplinkOK', TimelyOK,
         NEW opens \in Opens, NEW outcome \in {"quiet", "data", "failed"},
         NEW others \in {<<>>, <<"COMMAND_LONG">>}, Poll(opens, outcome, others)
  PROVE  TimelyOK'
<1> DEFINE device == EnsureConnected(serial, opens)
<1>1. /\ serial \in Serial /\ serial' \in Serial /\ device \in Serial
      /\ offset = 0 /\ offset' = 0 /\ parser' = parser /\ calm' = calm
      /\ parser.held \in Nat /\ calm \in Nat
      /\ silence' = silence /\ silence \in Nat
      /\ next_heartbeat \in 0..HeartbeatInterval
      /\ next_heartbeat' \in 0..HeartbeatInterval
      /\ frames = <<>> /\ line' = line
  <2>1. opens \in BOOLEAN
    BY DEF Opens
  <2>2. serial \in Serial /\ serial' \in Serial /\ device \in Serial
    BY <2>1, EnsureConnectedType DEF UplinkOK, UplinkTypeOK
  <2>3. offset = 0 /\ frames = <<>> /\ offset' = 0
    BY UplinkLimits DEF UplinkOK, UplinkTypeOK, BegunOnOpenDevice, Poll
  <2> QED
    BY <2>2, <2>3, UplinkLimits DEF UplinkOK, UplinkTypeOK, Poll
<1>2. /\ frames' \in {<<>>, <<"HEARTBEAT">>, <<"COMMAND_LONG">>,
                      <<"HEARTBEAT", "COMMAND_LONG">>}
      /\ Pending' <=> heartbeat' > 0 /\ next_heartbeat = 0
  <2> DEFINE rest == IF heartbeat' > 0 THEN others ELSE <<>>
  <2>1. CASE heartbeat' > 0 /\ next_heartbeat = 0
    <3>1. frames' = <<"HEARTBEAT">> \o others
      BY <2>1 DEF Poll, HeartbeatFrames
    <3>2. CASE others = <<>>
      <4>1. frames' = <<"HEARTBEAT">>
        BY <3>1, <3>2
      <4> QED
        BY <2>1, <4>1 DEF Pending
    <3>3. CASE others = <<"COMMAND_LONG">>
      <4>1. <<"HEARTBEAT">> \o <<"COMMAND_LONG">> = <<"HEARTBEAT", "COMMAND_LONG">>
        BY HeartbeatThenCommand
      <4>2. frames' = <<"HEARTBEAT", "COMMAND_LONG">>
        BY <3>1, <3>3, <4>1
      <4> QED
        BY <2>1, <4>2 DEF Pending
    <3> QED
      BY <3>2, <3>3
  <2>2. CASE ~(heartbeat' > 0 /\ next_heartbeat = 0)
    <3>1. frames' = <<>> \o rest
      BY <2>2 DEF Poll, HeartbeatFrames
    <3>2. CASE rest = <<>>
      <4>1. frames' = <<>>
        BY <3>1, <3>2
      <4> QED
        BY <2>2, <4>1 DEF Pending
    <3>3. CASE rest = <<"COMMAND_LONG">>
      <4>1. frames' = <<"COMMAND_LONG">>
        BY <3>1, <3>3
      <4> QED
        BY <2>2, <4>1 DEF Pending
    <3> QED
      BY <3>2, <3>3
  <2> QED
    BY <2>1, <2>2
<1>3. /\ next_heartbeat' > 0 /\ polled'
      /\ next_heartbeat' = IF next_heartbeat = 0 THEN HeartbeatInterval
                           ELSE next_heartbeat
  BY <1>1, UplinkLimits DEF Poll
<1>4. serial'.descriptor = "closed" => serial'.retry > 0
  BY <1>1, UplinkLimits
  DEF Poll, AfterRead, EnsureConnected, Attempts, Reopened, Disconnected, Serial
<1>5. ScheduleOK'
  BY <1>1, <1>2, <1>3, <1>4 DEF TimelyOK, ScheduleOK
<1>6. serial'.descriptor = "dead" => serial' = serial
  BY <1>1 DEF Poll, AfterRead, EnsureConnected, Reopened, Disconnected, ReadOutcomes, OnLine
<1>7. ParserOK'
  BY <1>1, <1>6 DEF TimelyOK, ParserOK
<1>8. OnTime'
  <2>1. CASE calm = 0
    <3> DEFINE limit == ReconnectInterval + HeartbeatInterval - 1
    <3>1. /\ calm' \in Nat /\ next_heartbeat' \in Nat /\ limit \in Nat
          /\ serial'.retry \in Nat /\ serial'.retry <= ReconnectInterval
          /\ calm' = 0 /\ next_heartbeat' <= limit
      BY <1>1, <2>1, UplinkLimits DEF Serial
    <3>2. calm' <= limit /\ calm' + next_heartbeat' <= limit
      BY <3>1, NothingAdded
    <3>3. serial'.retry + calm' <= ReconnectInterval
      BY <3>1, NothingAdded, UplinkLimits
    <3> QED
      BY <3>1, <3>2, <3>3 DEF OnTime, OpenOnTime, ClosedOnTime, DueBy
  <2>2. CASE calm > 0
    <3>1. line = "good" /\ opens
      BY <2>2 DEF TimelyOK, ScheduleOK, Opens
    <3>2. CASE serial.descriptor = "dead"
      <4>1. serial' = Disconnected(serial) /\ calm = 1 /\ parser.held = 0
        BY <1>1, <2>2, <3>2
        DEF Poll, AfterRead, EnsureConnected, Attempts, ReadOutcomes, OnLine,
            TimelyOK, OnTime, ParserOK
      <4> QED
        BY <1>1, <4>1, UplinkLimits DEF OnTime, ClosedOnTime, Disconnected
    <3>3. CASE serial.descriptor = "closed" /\ serial.retry > 0
      <4>1. serial' = serial
        BY <1>1, <3>3
        DEF Poll, AfterRead, EnsureConnected, Attempts, ReadOutcomes, OnLine
      <4> QED
        BY <1>1, <3>3, <4>1 DEF TimelyOK, OnTime, ClosedOnTime
    <3>4. CASE serial.descriptor = "live" \/ Attempts(serial)
      <4>1. device.descriptor = "live"
        BY <1>1, <3>1, <3>4 DEF EnsureConnected, Attempts, Reopened
      <4>2. outcome = "data" /\ serial' = device /\ heartbeat' > 0
        BY <3>1, <4>1, UplinkLimits DEF Poll, AfterRead, ReadOutcomes, OnLine
      <4>3. Pending' <=> next_heartbeat = 0
        BY <1>2, <4>2
      <4>4. CASE serial.descriptor = "live"
        <5>1. /\ OpenOnTime /\ ~Pending
              /\ Clean' = Clean
              /\ companion_heartbeat_active => companion_heartbeat_active'
          BY <1>1, <4>2, <4>4 DEF TimelyOK, OnTime, Pending, Clean, Poll
        <5>2. OpenOnTime'
          BY <1>1, <1>3, <4>3, <5>1, UplinkLimits DEF OpenOnTime, Told, DueBy
        <5> QED
          BY <4>1, <4>2, <5>2 DEF OnTime
      <4>5. CASE Attempts(serial)
        <5>1. /\ ClosedOnTime /\ serial.retry = 0
              /\ next_heartbeat <= HeartbeatInterval - 1
          BY <1>1, <4>5, UplinkLimits DEF TimelyOK, OnTime, ScheduleOK, Attempts
        <5>2. parser.held = 0 => Clean'
          BY <1>1 DEF Clean, TimelyOK, ParserOK
        <5>3. OpenOnTime'
          BY <1>1, <1>3, <4>3, <5>1, <5>2, UplinkLimits
          DEF ClosedOnTime, OpenOnTime, DueBy
        <5> QED
          BY <4>1, <4>2, <5>3 DEF OnTime
      <4> QED
        BY <3>4, <4>4, <4>5
    <3> QED
      BY <1>1, <3>2, <3>3, <3>4 DEF Attempts, Serial
  <2> QED
    BY <1>1, <2>1, <2>2
<1> QED
  BY <1>5, <1>7, <1>8 DEF TimelyOK

(***************************************************************************)
(* The frames that are left after one of them.                             *)
(***************************************************************************)
LEMMA AfterFrame ==
  ASSUME ScheduleOK, frames # <<>>
  PROVE  /\ Tail(frames) \in {<<>>, <<"COMMAND_LONG">>}
         /\ ~(Tail(frames) # <<>> /\ Head(Tail(frames)) = "HEARTBEAT")
<1>1. CASE frames = <<"HEARTBEAT">>
  BY <1>1
<1>2. CASE frames = <<"COMMAND_LONG">>
  BY <1>2
<1>3. CASE frames = <<"HEARTBEAT", "COMMAND_LONG">>
  BY <1>3
<1> QED
  BY <1>1, <1>2, <1>3 DEF ScheduleOK

(***************************************************************************)
(* What units do to the parser: it stays clean, and is idle at the end of  *)
(* a frame.                                                                *)
(***************************************************************************)
LEMMA ParsedUnits ==
  ASSUME UplinkTypeOK, ParserOK, NEW count \in 1..(FrameSize - offset)
  PROVE  /\ Parsed(count).held = 0 \/ Parsed(count).held >= offset + count
         /\ Parsed(count).held = 0 => ~Parsed(count).torn
         /\ offset + count = FrameSize => Parsed(count) = Idle
         /\ Clean /\ offset + count < FrameSize =>
              Parsed(count).held = offset + count /\ ~Parsed(count).torn
<1>1. /\ parser.held \in Nat /\ offset \in Nat /\ offset < FrameSize
      /\ FrameSize \in Nat /\ count \in Nat \ {0}
      /\ parser.held = 0 \/ parser.held >= offset
  BY UplinkLimits DEF UplinkTypeOK, ParserOK
<1>2. CASE parser.held = 0 /\ offset # 0
  BY <1>1, <1>2 DEF Clean, Parsed, Idle
<1>3. CASE ~(parser.held = 0 /\ offset # 0) /\ parser.held + count >= FrameSize
  BY <1>1, <1>3 DEF Clean, Parsed, Idle
<1>4. CASE ~(parser.held = 0 /\ offset # 0) /\ parser.held + count < FrameSize
  <2> DEFINE mixed == parser.torn \/ parser.held # offset
  <2>1. Parsed(count) = [held |-> parser.held + count, torn |-> mixed]
    BY <1>1, <1>4 DEF Parsed
  <2>2. Parsed(count).held = parser.held + count /\ Parsed(count).torn = mixed
    BY <2>1
  <2>3. Clean => ~mixed /\ parser.held = offset
    BY DEF Clean
  <2> HIDE DEF mixed
  <2>4. Clean => ~Parsed(count).torn
    BY <2>2, <2>3
  <2> QED
    BY <1>1, <1>4, <2>2, <2>3, <2>4
<1> QED
  BY <1>1, <1>2, <1>3, <1>4

LEMMA WriteTimely ==
  ASSUME ReconnectInterval > 0, UplinkOK, UplinkOK', TimelyOK,
         NEW opens \in Opens, NEW outcome \in {"written", "none", "failed"},
         NEW count \in 1..(FrameSize - offset), WriteCall(opens, outcome, count)
  PROVE  TimelyOK'
<1> DEFINE result == AfterWrite(serial, outcome, count)
<1>1. /\ serial \in Serial /\ serial' \in Serial
      /\ offset \in 0..(FrameSize - 1) /\ FrameSize \in Nat
      /\ count \in Nat \ {0}
      /\ parser.held \in Nat /\ calm \in Nat /\ silence \in Nat
      /\ next_heartbeat \in 0..HeartbeatInterval
      /\ calm' = calm /\ next_heartbeat' = next_heartbeat
      /\ line' = line /\ polled' = polled
  BY UplinkLimits DEF UplinkOK, UplinkTypeOK, WriteCall
<1>2. /\ frames # <<>> /\ polled
      /\ EnsureConnected(serial, opens) = serial
  BY <1>1 DEF WriteCall, TimelyOK, ScheduleOK, EnsureConnected, Attempts
<1>3. /\ serial' = result.serial
      /\ outcome \in OnLine(WriteOutcomes(serial), "written")
      /\ Advance(result.written)
      /\ parser' = IF result.written = 0 THEN parser ELSE Parsed(result.written)
      /\ companion_heartbeat_active' =
           (companion_heartbeat_active
              \/ (Head(frames) = "HEARTBEAT" /\ Sent(result.written)))
      /\ silence' = IF Head(frames) = "HEARTBEAT" /\ Delivered(result.written)
                    THEN 0 ELSE silence
  BY <1>2 DEF WriteCall
<1>4. /\ result.written \in {0, count}
      /\ result.written = count => outcome = "written"
      /\ outcome = "written" => result.written = count /\ result.serial = serial
  BY <1>1 DEF AfterWrite
<1>5. ASSUME outcome = "written" PROVE serial.descriptor = "live"
  <2>1. "written" \in OnLine(WriteOutcomes(serial), "written")
    BY <1>3, <1>5
  <2> QED
    BY <1>1, <2>1, WritingNeedsOpen
<1>6. serial'.descriptor = "closed" => serial'.retry > 0
  BY <1>1, <1>2, <1>3, UplinkLimits
  DEF AfterWrite, Disconnected, TimelyOK, ScheduleOK, Serial
<1>7. serial'.descriptor = "dead" => serial' = serial /\ outcome # "failed"
  BY <1>3 DEF AfterWrite, Disconnected
<1>8. /\ frames' \in {<<>>, <<"HEARTBEAT">>, <<"COMMAND_LONG">>,
                      <<"HEARTBEAT", "COMMAND_LONG">>}
      /\ frames' = frames \/ ~Pending'
      /\ Pending' => Pending
  BY <1>2, <1>3, AfterFrame DEF TimelyOK, ScheduleOK, Advance, Pending
<1>9. ScheduleOK'
  BY <1>1, <1>2, <1>6, <1>8 DEF TimelyOK, ScheduleOK
<1>10. ParserOK'
  <2>1. serial'.descriptor # "dead"
    BY <1>3, <1>5, <1>7
    DEF AfterWrite, OnLine, WriteOutcomes
  <2>2. CASE result.written = 0
    BY <1>1, <1>3, <2>1, <2>2 DEF TimelyOK, ParserOK, Advance
  <2>3. CASE result.written = count
    <3>1. offset' = 0 \/ offset' = offset + count
      BY <1>3, <2>3 DEF Advance
    <3>2. parser' = Parsed(count)
      BY <1>1, <1>3, <2>3
    <3>3. parser'.held \in Nat
      BY UplinkLimits DEF UplinkOK, UplinkTypeOK
    <3> QED
      BY <1>1, <2>1, <3>1, <3>2, <3>3, ParsedUnits DEF UplinkOK, TimelyOK, ParserOK
  <2> QED
    BY <1>4, <2>2, <2>3
<1>11. OnTime'
  <2>1. CASE calm = 0
    <3> DEFINE limit == ReconnectInterval + HeartbeatInterval - 1
    <3>1. /\ calm' \in Nat /\ next_heartbeat' \in Nat /\ limit \in Nat
          /\ serial'.retry \in Nat /\ serial'.retry <= ReconnectInterval
          /\ calm' = 0 /\ next_heartbeat' <= limit
      BY <1>1, <2>1, UplinkLimits DEF Serial
    <3>2. calm' <= limit /\ calm' + next_heartbeat' <= limit
      BY <3>1, NothingAdded
    <3>3. serial'.retry + calm' <= ReconnectInterval
      BY <3>1, NothingAdded, UplinkLimits
    <3> QED
      BY <3>1, <3>2, <3>3 DEF OnTime, OpenOnTime, ClosedOnTime, DueBy
  <2>2. CASE calm > 0 /\ serial.descriptor # "live"
    <3>1. serial.descriptor = "closed"
      BY <1>1, <1>2, <2>2 DEF TimelyOK, OnTime, Serial
    <3>2. serial' = serial /\ parser' = parser
      BY <1>3, <1>4, <3>1 DEF AfterWrite, OnLine, WriteOutcomes
    <3> QED
      BY <1>1, <3>1, <3>2 DEF TimelyOK, OnTime, ClosedOnTime
  <2>3. CASE calm > 0 /\ serial.descriptor = "live"
    <3>1. /\ outcome = "written" /\ serial' = serial
          /\ result.written = count /\ parser' = Parsed(count)
          /\ OpenOnTime
      BY <1>1, <1>3, <1>4, <2>3
      DEF TimelyOK, ScheduleOK, OnTime, OnLine, WriteOutcomes
    <3>2. CASE offset + count < FrameSize
      <4>1. /\ frames' = frames /\ offset' = offset + count
            /\ silence' = silence
            /\ companion_heartbeat_active => companion_heartbeat_active'
        <5>1. ~(offset + count = FrameSize \/ count = 0) /\ ~Delivered(count)
          BY <1>1, <3>2 DEF Delivered
        <5> QED
          BY <1>3, <3>1, <5>1 DEF Advance
      <4>2. (Pending' <=> Pending) /\ (Clean => Clean')
        BY <3>1, <3>2, <4>1, ParsedUnits DEF Pending, Clean, UplinkOK, TimelyOK
      <4>3. OpenOnTime'
        BY <1>1, <3>1, <4>1, <4>2 DEF OpenOnTime, Told, DueBy
      <4> QED
        BY <2>3, <3>1, <4>3 DEF OnTime
    <3>3. CASE offset + count = FrameSize
      <4>1. /\ frames' = Tail(frames) /\ offset' = 0 /\ parser' = Idle
            /\ ~Pending'
        BY <1>2, <1>3, <3>1, <3>3, ParsedUnits, AfterFrame
        DEF Advance, UplinkOK, TimelyOK, Pending
      <4>2. Clean'
        BY <4>1 DEF Clean, Idle
      <4>3. CASE Pending /\ Clean
        <5>1. /\ silence' = 0 /\ companion_heartbeat_active'
              /\ next_heartbeat' = HeartbeatInterval
          BY <1>1, <1>3, <3>1, <3>3, <4>3
          DEF Pending, Clean, Delivered, Sent, TimelyOK, ScheduleOK
        <5> QED
          BY <2>3, <3>1, <4>1, <4>2, <5>1, UplinkLimits DEF OnTime, OpenOnTime, Told
      <4>4. CASE Pending /\ ~Clean
        <5>1. /\ calm <= ReconnectInterval + HeartbeatInterval - 1
              /\ next_heartbeat = HeartbeatInterval
          BY <3>1, <4>4 DEF OpenOnTime, Told, DueBy, TimelyOK, ScheduleOK
        <5> QED
          BY <1>1, <2>3, <3>1, <4>1, <4>2, <5>1, UplinkLimits
          DEF OnTime, OpenOnTime, DueBy
      <4>5. CASE ~Pending
        <5>1. /\ silence' = silence
              /\ companion_heartbeat_active => companion_heartbeat_active'
          BY <1>2, <1>3, <4>5 DEF Pending
        <5>2. OpenOnTime'
          BY <1>1, <3>1, <4>1, <4>2, <4>5, <5>1, UplinkLimits
          DEF OpenOnTime, Told, DueBy
        <5> QED
          BY <2>3, <3>1, <5>2 DEF OnTime
      <4> QED
        BY <4>3, <4>4, <4>5
    <3> QED
      BY <1>1, <3>2, <3>3
  <2> QED
    BY <1>1, <2>1, <2>2, <2>3
<1> QED
  BY <1>9, <1>10, <1>11 DEF TimelyOK

LEMMA LineTimely ==
  ASSUME ReconnectInterval > 0, UplinkOK, UplinkOK', TimelyOK,
         NEW condition \in {"good", "bad", "absent"}, ChangeLine(condition)
  PROVE  TimelyOK'
<1>1. /\ serial'.descriptor = "closed" => serial' = serial
      /\ serial'.descriptor = "dead" => condition = "absent" \/ serial' = serial
  BY DEF ChangeLine, Vanished, UplinkOK, UplinkTypeOK, Serial
<1>2. OnTime'
  BY UplinkLimits
  DEF ChangeLine, UplinkOK, UplinkTypeOK, OnTime, OpenOnTime, ClosedOnTime,
      DueBy, Serial
<1>3. ScheduleOK'
  BY <1>1 DEF ChangeLine, TimelyOK, ScheduleOK, Pending
<1>4. ParserOK'
  BY <1>1 DEF ChangeLine, TimelyOK, ParserOK, Idle
<1> QED
  BY <1>2, <1>3, <1>4 DEF TimelyOK

LEMMA TickTimely ==
  ASSUME ReconnectInterval > 0, UplinkOK, UplinkOK', TimelyOK, Tick
  PROVE  TimelyOK'
<1>1. /\ serial \in Serial /\ serial' \in Serial
      /\ serial'.descriptor = serial.descriptor
      /\ serial'.retry = IF serial.retry > 0 THEN serial.retry - 1 ELSE 0
  BY DEF UplinkOK, UplinkTypeOK, Tick, AfterTick, Serial
<1>2. /\ next_heartbeat \in 1..HeartbeatInterval
      /\ next_heartbeat' = next_heartbeat - 1 /\ ~polled'
      /\ frames' = frames /\ ~Pending /\ ~Pending'
      /\ parser' = parser /\ offset' = offset /\ line' = line
      /\ companion_heartbeat_active' = companion_heartbeat_active
      /\ serial.descriptor = "closed" => serial.retry > 0
  BY UplinkLimits
  DEF UplinkOK, UplinkTypeOK, TimelyOK, ScheduleOK, Tick, Elapse, Pending
<1>3. /\ calm \in Nat /\ calm' \in Nat /\ silence \in Nat /\ silence' \in Nat
      /\ calm' <= calm + 1 /\ silence' <= silence + 1
      /\ calm' > 0 => line = "good"
  BY UplinkLimits DEF UplinkOK, UplinkTypeOK, Tick, Count
<1>4. ScheduleOK'
  BY <1>1, <1>2, <1>3, UplinkLimits DEF TimelyOK, ScheduleOK, Tick
<1>5. ParserOK'
  BY <1>1, <1>2 DEF TimelyOK, ParserOK
<1>6. OnTime'
  <2>1. CASE serial.descriptor = "live"
    <3>1. OpenOnTime /\ (Clean' <=> Clean)
      BY <1>2, <2>1 DEF TimelyOK, OnTime, Clean
    <3>2. CASE Told
      <4>1. Told'
        <5>1. silence + next_heartbeat <= HeartbeatInterval
          BY <1>2, <3>2 DEF Told
        <5>2. /\ next_heartbeat \in Nat /\ next_heartbeat' \in Nat
              /\ HeartbeatInterval \in Nat
          BY <1>2, UplinkLimits
        <5>3. silence' + next_heartbeat' <= HeartbeatInterval
          BY <1>2, <1>3, <5>1, <5>2, OneUpOneDown
        <5> QED
          BY <1>2, <3>1, <3>2, <5>3 DEF Told
      <4> QED
        BY <1>1, <2>1, <4>1 DEF OnTime, OpenOnTime
    <3>3. ASSUME NEW limit \in Nat, DueBy(limit)
          PROVE  (DueBy(limit))'
      <4>1. calm + next_heartbeat <= limit
        BY <1>2, <3>3 DEF DueBy
      <4>2. next_heartbeat \in Nat /\ next_heartbeat' \in Nat
        BY <1>2, UplinkLimits
      <4>3. calm' + next_heartbeat' <= limit
        BY <1>2, <1>3, <4>1, <4>2, OneUpOneDown
      <4> QED
        BY <1>2, <4>3 DEF DueBy
    <3>4. CASE OpenOnTime /\ ~Told
      <4>1. OpenOnTime'
        BY <3>1, <3>3, <3>4, UplinkLimits DEF OpenOnTime
      <4> QED
        BY <1>1, <2>1, <4>1 DEF OnTime
    <3> QED
      BY <3>1, <3>2, <3>4
  <2>2. CASE serial.descriptor = "closed"
    BY <1>1, <1>2, <1>3, <2>2, UplinkLimits DEF TimelyOK, OnTime, ClosedOnTime, Serial
  <2>3. CASE serial.descriptor = "dead"
    BY <1>1, <1>2, <1>3, <2>3 DEF TimelyOK, OnTime, Tick
  <2> QED
    BY <1>1, <2>1, <2>2, <2>3 DEF Serial
<1> QED
  BY <1>4, <1>5, <1>6 DEF TimelyOK

LEMMA StepTimely ==
  ASSUME ReconnectInterval > 0, UplinkOK, UplinkOK', TimelyOK, [Next]_vars
  PROVE  TimelyOK'
<1>1. CASE PollStep
  BY <1>1, PollTimely DEF PollStep
<1>2. CASE WriteStep
  BY <1>2, WriteTimely DEF WriteStep
<1>3. CASE \E condition \in {"good", "bad", "absent"} : ChangeLine(condition)
  BY <1>3, LineTimely
<1>4. CASE Tick
  BY <1>4, TickTimely
<1>5. CASE UNCHANGED vars
  BY <1>5
  DEF vars, TimelyOK, ScheduleOK, Pending, ParserOK, Clean, OnTime, OpenOnTime,
      ClosedOnTime, Told, DueBy
<1> QED
  BY <1>1, <1>2, <1>3, <1>4, <1>5 DEF Next

LEMMA TimelyResumes ==
  ASSUME UplinkOK, TimelyOK
  PROVE  HeartbeatsResume
BY UplinkLimits
DEF UplinkOK, UplinkTypeOK, TimelyOK, OnTime, OpenOnTime, ClosedOnTime, Told,
    DueBy, HeartbeatsResume, Serial

(***************************************************************************)
(* HeartbeatsResume: a line that has been good for a reconnect interval    *)
(* and two heartbeat intervals carries a whole heartbeat in every          *)
(* interval.  A reconnect interval of no time at all, which the            *)
(* constructor would take, is left out: a device that fails would then     *)
(* stay closed for the rest of the tick, which is more than the interval.  *)
(***************************************************************************)
THEOREM ResumeCorrect ==
  ASSUME ReconnectInterval > 0
  PROVE  Spec => []HeartbeatsResume
<1>1. Init => TimelyOK
  BY InitTimely
<1>2. UplinkOK /\ UplinkOK' /\ TimelyOK /\ [Next]_vars => TimelyOK'
  BY StepTimely
<1>3. UplinkOK /\ TimelyOK => HeartbeatsResume
  BY TimelyResumes
<1> QED
  BY <1>1, <1>2, <1>3, UplinkHolds, PTL DEF Spec

-----------------------------------------------------------------------------
(***************************************************************************)
(* CameraPipeline: its invariant in parts.  Values and bounds, with the    *)
(* sequence numbers that the attempts so far may have used.                *)
(***************************************************************************)
ValuesOK ==
  /\ kind \in Kinds
  /\ worker \in WorkerStates
  /\ phase \in {"starting", "streaming", "reconnecting", "failed", "stopped"}
  /\ child \in {"none", "starting", "running", "exited"}
  /\ child_pid \in BOOLEAN /\ interrupted \in BOOLEAN
  /\ stop_requested \in BOOLEAN
  /\ owner \in {"polling", "stopping", "signalling", "joining", "done"}
  /\ owner # "polling" => stop_requested

UsedBefore == restart_count * MaxFrames

CountsOK ==
  /\ restart_count \in 0..MaxRestarts
  /\ filmed \in 0..MaxFrames /\ read \in 0..filmed
  /\ described \in 0..MaxFrames /\ collected \in 0..described
  /\ next_sequence \in Nat
  /\ next_sequence <= UsedBefore + read
  /\ worker \in {"preparing", "forking", "delaying"} =>
       next_sequence <= UsedBefore

(***************************************************************************)
(* The child and what names it.  What ends an attempt is a stop, or a      *)
(* failure the bound still allows.                                         *)
(***************************************************************************)
Paired == {"storing", "checking", "reading", "pairing", "publishing"}

WithChild == Paired \cup {"killing", "reaping"}

ChildOK ==
  /\ child # "none" <=> worker \in WithChild
  /\ child_pid <=> worker \in (WithChild \ {"storing"}) \cup {"clearing"}
  /\ interrupted => stop_requested \/ worker = "reaping"
  /\ child = "exited" => stop_requested \/ MayFail
  /\ worker \in {"killing", "reaping", "clearing", "joining", "retrying"} =>
       stop_requested \/ MayFail
  /\ child = "none" /\ worker \notin {"clearing", "joining"} =>
       collected = described

(***************************************************************************)
(* The deque of capture times: while an attempt runs it holds those of the *)
(* frames that are not paired yet, in their order.                         *)
(***************************************************************************)
Taken == IF worker = "pairing" THEN read - 1 ELSE read

TimesOK ==
  /\ metadata_timestamps \in Seq(Shots)
  /\ worker = "forking" => metadata_timestamps = <<>>
  /\ Len(metadata_timestamps) <= collected
  /\ kind = "rpicam" /\ worker \in Paired =>
       /\ Len(metadata_timestamps) = collected - Taken
       /\ \A i \in 1..Len(metadata_timestamps) :
            metadata_timestamps[i] = Shot(Taken + i)

(***************************************************************************)
(* The frame in hand and the latest one.                                   *)
(***************************************************************************)
InHand == worker \in {"pairing", "publishing"}

CaptureTime(one) == IF kind = "rpicam" THEN one.shot ELSE NoFrame

FramesOK ==
  /\ frame \in Frames \cup {NoFrame}
  /\ latest_frame \in Frames \cup {NoFrame}
  /\ InHand => /\ frame \in Frames
               /\ frame.sequence = next_sequence
               /\ frame.shot = Shot(read)
               /\ read > 0
  /\ worker = "pairing" => kind = "rpicam"
  /\ worker = "publishing" => frame.captured_at = CaptureTime(frame)
  /\ latest_frame # NoFrame =>
       /\ latest_frame \in Frames
       /\ latest_frame.shot.attempt = restart_count
       /\ latest_frame.captured_at = CaptureTime(latest_frame)
       /\ latest_frame.sequence <= next_sequence
       /\ InHand => latest_frame.sequence < next_sequence

(***************************************************************************)
(* The statistics: what was published, and what the sequence numbers that  *)
(* the monitor has seen account for.                                       *)
(***************************************************************************)
Held(one) == IF one # NoFrame THEN 1 ELSE 0

StatisticsOK ==
  /\ produced_frames \in Nat /\ overwritten_frames \in Nat
  /\ received_frames \in Nat /\ dropped_before_processing \in Nat
  /\ last_sequence \in Nat
  /\ received_frames + overwritten_frames + Held(latest_frame)
       <= produced_frames
  /\ produced_frames + (IF InHand THEN 1 ELSE 0) <= next_sequence
  /\ last_sequence + (IF InHand THEN 1 ELSE 0) <= next_sequence
  /\ latest_frame # NoFrame => last_sequence < latest_frame.sequence
  /\ dropped_before_processing + received_frames <= last_sequence

CameraOK ==
  ValuesOK /\ CountsOK /\ ChildOK /\ TimesOK /\ FramesOK /\ StatisticsOK

LEMMA CameraBounds == MaxFrames \in Nat /\ MaxRestarts \in Nat
BY BoundsAssumption

LEMMA CameraInit == PipelineInit => CameraOK
<1> SUFFICES ASSUME PipelineInit PROVE CameraOK
  OBVIOUS
<1> USE DEF PipelineInit, SourceInit, Monitor!Init
<1>1. ValuesOK
  BY DEF ValuesOK, WorkerStates
<1>2. CountsOK
  <2>1. UsedBefore \in Nat /\ UsedBefore = 0
    BY CameraBounds DEF UsedBefore
  <2> QED
    BY <2>1, CameraBounds DEF CountsOK
<1>3. ChildOK
  BY DEF ChildOK, WithChild, Paired
<1>4. TimesOK
  BY DEF TimesOK, Paired
<1>5. FramesOK
  BY DEF FramesOK, InHand
<1>6. StatisticsOK
  BY DEF StatisticsOK, Held, InHand
<1> QED
  BY <1>1, <1>2, <1>3, <1>4, <1>5, <1>6 DEF CameraOK

(***************************************************************************)
(* The values.                                                             *)
(***************************************************************************)
LEMMA WorkerValues == ValuesOK /\ WorkerStep => ValuesOK'
<1> SUFFICES ASSUME ValuesOK, WorkerStep PROVE ValuesOK'
  OBVIOUS
<1> USE DEF ValuesOK, WorkerStates, WorkerMoves, status_vars, child_vars,
            pipe_vars, owner_vars
<1>1. CASE Prepare \/ Fork \/ ForkFails \/ StorePid
  BY <1>1 DEF Prepare, Fork, ForkFails, StorePid
<1>2. CASE Check \/ ReadEnds \/ CompleteFrame \/ Pair \/ PairTimesOut
  BY <1>2 DEF Check, ReadEnds, CompleteFrame, Pair, PairTimesOut
<1>3. CASE Publish \/ Kill \/ Reap \/ ClearPid
  BY <1>3 DEF Publish, Kill, Interrupt, Reap, ClearPid
<1>4. CASE JoinReaders \/ Retry \/ Delay \/ SetStopped
  BY <1>4 DEF JoinReaders, Retry, Delay, SetStopped
<1> QED
  BY <1>1, <1>2, <1>3, <1>4 DEF WorkerStep

LEMMA OtherValues ==
  ASSUME ValuesOK,
         Collect \/ ChildStep \/ Destroy \/ TakeLatestFrame
           \/ UNCHANGED source_vars
  PROVE  ValuesOK'
<1> USE DEF ValuesOK, ChildMoves, OwnerMoves, status_vars, child_vars,
            pipe_vars, owner_vars
<1>1. CASE Collect \/ TakeLatestFrame \/ UNCHANGED source_vars
  BY <1>1 DEF Collect, TakeLatestFrame, source_vars
<1>2. CASE ChildStep
  BY <1>2 DEF ChildStep, Exec, End, Film, Describe
<1>3. CASE Destroy
  BY <1>3 DEF Destroy, RequestStop, LoadPid, StopChild, Interrupt, JoinWorker
<1> QED
  BY <1>1, <1>2, <1>3

(***************************************************************************)
(* The counts.  A retry is what makes room for the next attempt's frames.  *)
(***************************************************************************)
LEMMA NextAttempt ==
  ASSUME restart_count \in Nat
  PROVE  /\ UsedBefore \in Nat
         /\ (restart_count + 1) * MaxFrames = UsedBefore + MaxFrames
BY CameraBounds DEF UsedBefore

LEMMA WithinAttempts ==
  ASSUME restart_count \in 0..MaxRestarts
  PROVE  UsedBefore + MaxFrames <= (MaxRestarts + 1) * MaxFrames
<1> DEFINE left == MaxRestarts - restart_count
<1>1. left \in Nat
  BY CameraBounds
<1>2. left * MaxFrames \in Nat
  BY <1>1, CameraBounds
<1>3. (MaxRestarts + 1) * MaxFrames = UsedBefore + MaxFrames + left * MaxFrames
  BY <1>1, CameraBounds DEF UsedBefore
<1>4. UsedBefore \in Nat
  BY CameraBounds DEF UsedBefore
<1> QED
  BY <1>2, <1>3, <1>4, CameraBounds

LEMMA WorkerCounts ==
  ASSUME ValuesOK, CountsOK, ChildOK, WorkerStep
  PROVE  CountsOK'
<1> USE DEF WorkerMoves, status_vars, child_vars, pipe_vars, owner_vars
<1>0. /\ restart_count \in Nat /\ UsedBefore \in Nat
      /\ (restart_count + 1) * MaxFrames = UsedBefore + MaxFrames
  BY NextAttempt, CameraBounds DEF CountsOK
<1>1. CASE Retry
  <2>1. CASE stop_requested
    <3>1. UNCHANGED <<restart_count, next_sequence, pipe_vars>> /\ worker' = "ending"
      BY <1>1, <2>1 DEF Retry
    <3> QED
      BY <3>1 DEF CountsOK, UsedBefore
  <2>2. CASE ~stop_requested
    <3>1. restart_count < MaxRestarts
      BY <1>1, <2>2 DEF Retry, ChildOK, MayFail
    <3>2. /\ restart_count' = restart_count + 1
          /\ UNCHANGED <<next_sequence, pipe_vars>>
      BY <1>1, <2>2 DEF Retry
    <3>3. UsedBefore' = UsedBefore + MaxFrames
      BY <1>0, <3>2 DEF UsedBefore
    <3> QED
      BY <1>0, <3>1, <3>2, <3>3, CameraBounds DEF CountsOK
  <2> QED
    BY <2>1, <2>2
<1>2. CASE ~Retry
  <2>1. UNCHANGED restart_count
    BY <1>2 DEF WorkerStep, Prepare, Fork, ForkFails, StorePid, Check, ReadEnds,
                CompleteFrame, Pair, PairTimesOut, Publish, Kill, Reap,
                ClearPid, JoinReaders, Delay, SetStopped
  <2>2. UsedBefore' = UsedBefore
    BY <2>1 DEF UsedBefore
  <2>3. CASE Fork
    BY <1>0, <2>1, <2>2, <2>3, CameraBounds DEF Fork, CountsOK
  <2>4. CASE CompleteFrame
    BY <1>0, <2>1, <2>2, <2>4, CameraBounds DEF CompleteFrame, CountsOK
  <2>5. CASE Delay
    BY <1>0, <2>1, <2>2, <2>5 DEF Delay, CountsOK
  <2>6. CASE ~(Fork \/ CompleteFrame \/ Delay)
    <3>1. /\ UNCHANGED <<next_sequence, pipe_vars>>
          /\ worker' \in {"preparing", "forking", "delaying"} =>
               worker \in {"preparing", "forking", "delaying"}
      BY <1>2, <2>6
         DEF WorkerStep, Prepare, ForkFails, StorePid, Check, ReadEnds, Pair,
             PairTimesOut, Publish, Kill, Reap, ClearPid, JoinReaders,
             SetStopped
    <3> QED
      BY <2>1, <2>2, <3>1 DEF CountsOK
  <2> QED
    BY <2>3, <2>4, <2>5, <2>6
<1> QED
  BY <1>1, <1>2

LEMMA OtherCounts ==
  ASSUME CountsOK,
         Collect \/ ChildStep \/ Destroy \/ TakeLatestFrame
           \/ UNCHANGED source_vars
  PROVE  CountsOK'
<1> USE DEF ChildMoves, OwnerMoves, status_vars, child_vars, pipe_vars,
            owner_vars
<1>1. /\ UNCHANGED <<restart_count, next_sequence, worker, read>>
      /\ UsedBefore' = UsedBefore
  BY DEF Collect, TakeLatestFrame, source_vars, ChildStep, Exec, End, Film,
         Describe, Destroy, RequestStop, LoadPid, StopChild, JoinWorker,
         UsedBefore
<1>2. /\ filmed' \in 0..MaxFrames /\ filmed' >= filmed
      /\ described' \in 0..MaxFrames /\ collected' \in 0..described'
  <2>1. CASE Collect
    BY <2>1, CameraBounds DEF Collect, CountsOK
  <2>2. CASE Film
    BY <2>2, CameraBounds DEF Film, CountsOK
  <2>3. CASE Describe
    BY <2>3, CameraBounds DEF Describe, CountsOK
  <2>4. CASE UNCHANGED pipe_vars
    BY <2>4, CameraBounds DEF CountsOK
  <2> QED
    BY <2>1, <2>2, <2>3, <2>4
       DEF ChildStep, Exec, End, Destroy, RequestStop, LoadPid, StopChild,
           JoinWorker, TakeLatestFrame, source_vars
<1> QED
  BY <1>1, <1>2, CameraBounds DEF CountsOK

(***************************************************************************)
(* The child.  The worker's steps follow the life of the child; the others *)
(* leave the worker where it is.                                           *)
(***************************************************************************)
LEMMA WorkerChild ==
  ASSUME ValuesOK, ChildOK, WorkerStep
  PROVE  ChildOK'
<1> USE DEF ChildOK, ValuesOK, WithChild, Paired, MayFail, WorkerMoves,
            status_vars, child_vars, pipe_vars, owner_vars
<1>1. CASE Prepare
  BY <1>1 DEF Prepare
<1>2. CASE Fork
  BY <1>2 DEF Fork
<1>3. CASE ForkFails
  BY <1>3 DEF ForkFails
<1>4. CASE StorePid
  BY <1>4 DEF StorePid
<1>5. CASE Check
  BY <1>5 DEF Check
<1>6. CASE ReadEnds
  BY <1>6 DEF ReadEnds
<1>7. CASE CompleteFrame
  BY <1>7 DEF CompleteFrame
<1>8. CASE Pair
  BY <1>8 DEF Pair
<1>9. CASE PairTimesOut
  BY <1>9 DEF PairTimesOut
<1>10. CASE Publish
  BY <1>10 DEF Publish
<1>11. CASE Kill
  BY <1>11 DEF Kill, Interrupt
<1>12. CASE Reap
  BY <1>12 DEF Reap
<1>13. CASE ClearPid
  BY <1>13 DEF ClearPid
<1>14. CASE JoinReaders
  BY <1>14 DEF JoinReaders
<1>15. CASE Retry
  BY <1>15 DEF Retry
<1>16. CASE Delay
  BY <1>16 DEF Delay
<1>17. CASE SetStopped
  BY <1>17 DEF SetStopped
<1> QED
  BY <1>1, <1>2, <1>3, <1>4, <1>5, <1>6, <1>7, <1>8, <1>9, <1>10, <1>11,
     <1>12, <1>13, <1>14, <1>15, <1>16, <1>17 DEF WorkerStep

LEMMA OtherChild ==
  ASSUME ValuesOK, CountsOK, ChildOK,
         Collect \/ ChildStep \/ Destroy \/ TakeLatestFrame
           \/ UNCHANGED source_vars
  PROVE  ChildOK'
<1> USE DEF ChildOK, ValuesOK, WithChild, Paired, MayFail, ChildMoves,
            OwnerMoves, status_vars, child_vars, pipe_vars, owner_vars
<1>1. CASE Collect
  <2>1. collected # described
    BY <1>1, CameraBounds DEF Collect, CountsOK
  <2> QED
    BY <1>1, <2>1 DEF Collect
<1>2. CASE Exec \/ End
  BY <1>2 DEF Exec, End
<1>3. CASE Film \/ Describe
  BY <1>3 DEF Film, Describe
<1>4. CASE Destroy
  BY <1>4 DEF Destroy, RequestStop, LoadPid, StopChild, Interrupt, JoinWorker
<1>5. CASE TakeLatestFrame \/ UNCHANGED source_vars
  BY <1>5 DEF TakeLatestFrame, source_vars
<1> QED
  BY <1>1, <1>2, <1>3, <1>4, <1>5 DEF ChildStep

(***************************************************************************)
(* The capture times.                                                      *)
(***************************************************************************)
LEMMA ShotType ==
  ASSUME CountsOK, NEW n \in 1..MaxFrames
  PROVE  Shot(n) \in Shots
BY DEF CountsOK, Shot, Shots

LEMMA PairTimes ==
  ASSUME ValuesOK, CountsOK, TimesOK, FramesOK, Pair
  PROVE  /\ TimesOK'
         /\ Head(metadata_timestamps) = Shot(read)
<1>1. /\ kind = "rpicam" /\ kind' = kind /\ worker = "pairing"
      /\ worker' = "publishing"
      /\ metadata_timestamps # <<>>
      /\ metadata_timestamps' = Tail(metadata_timestamps)
      /\ UNCHANGED <<restart_count, read, collected>>
  BY DEF Pair, FramesOK, status_vars, pipe_vars
<1>2. /\ metadata_timestamps \in Seq(Shots)
      /\ Len(metadata_timestamps) = collected - (read - 1)
      /\ \A i \in 1..Len(metadata_timestamps) :
           metadata_timestamps[i] = Shot(read - 1 + i)
      /\ Len(metadata_timestamps) <= collected
  BY <1>1 DEF TimesOK, Taken, Paired
<1>3. Len(metadata_timestamps) \in Nat /\ Len(metadata_timestamps) > 0
  BY <1>1, <1>2
<1>4. read \in Nat /\ collected \in Nat
  BY CameraBounds DEF CountsOK
<1>5. Head(metadata_timestamps) = Shot(read)
  <2>1. Head(metadata_timestamps) = metadata_timestamps[1]
    BY <1>1, <1>2
  <2>2. metadata_timestamps[1] = Shot(read - 1 + 1)
    BY <1>2, <1>3
  <2> QED
    BY <1>4, <2>1, <2>2
<1>6. /\ metadata_timestamps' \in Seq(Shots)
      /\ Len(metadata_timestamps') = Len(metadata_timestamps) - 1
      /\ \A i \in 1..Len(metadata_timestamps') :
           metadata_timestamps'[i] = metadata_timestamps[i + 1]
  BY <1>1, <1>2
<1>7. ASSUME NEW i \in 1..Len(metadata_timestamps')
      PROVE  metadata_timestamps'[i] = Shot(read + i)'
  <2>1. i + 1 \in 1..Len(metadata_timestamps) /\ read - 1 + (i + 1) = read + i
    BY <1>3, <1>4, <1>6
  <2>2. metadata_timestamps'[i] = Shot(read + i)
    BY <1>2, <1>6, <2>1
  <2> QED
    BY <1>1, <2>2 DEF Shot
<1>8. Taken' = read
  BY <1>1 DEF Taken
<1>9. /\ Len(metadata_timestamps') = collected - read
      /\ Len(metadata_timestamps') <= collected
  BY <1>2, <1>3, <1>4, <1>6
<1>10. \A i \in 1..Len(metadata_timestamps') :
         metadata_timestamps'[i] = Shot(Taken + i)'
  BY <1>1, <1>7, <1>8
<1>11. worker' # "forking"
  BY <1>1
<1> QED
  BY <1>1, <1>5, <1>6, <1>8, <1>9, <1>10, <1>11 DEF TimesOK

LEMMA CollectTimes ==
  ASSUME ValuesOK, CountsOK, ChildOK, TimesOK, Collect
  PROVE  TimesOK'
<1>1. /\ UNCHANGED <<kind, worker, restart_count, read>>
      /\ collected < described
      /\ collected' = collected + 1
      /\ metadata_timestamps' =
           Append(metadata_timestamps, Shot(collected + 1))
  BY DEF Collect, status_vars, Shot
<1>2. /\ collected \in Nat /\ read \in Nat
      /\ collected + 1 \in 1..MaxFrames
  BY <1>1, CameraBounds DEF CountsOK
<1>3. Shot(collected + 1) \in Shots
  BY <1>2, ShotType
<1>4. /\ metadata_timestamps \in Seq(Shots)
      /\ Len(metadata_timestamps) \in Nat
      /\ Len(metadata_timestamps) <= collected
  BY DEF TimesOK
<1>5. /\ metadata_timestamps' \in Seq(Shots)
      /\ Len(metadata_timestamps') = Len(metadata_timestamps) + 1
      /\ \A i \in 1..Len(metadata_timestamps) :
           metadata_timestamps'[i] = metadata_timestamps[i]
      /\ metadata_timestamps'[Len(metadata_timestamps) + 1]
           = Shot(collected + 1)
  BY <1>1, <1>3, <1>4
<1>6. worker # "forking"
  BY <1>1, <1>2 DEF ChildOK, WithChild, Paired, CountsOK
<1>7. Taken' = Taken /\ Taken \in Int
  BY <1>1, <1>2 DEF Taken
<1>8. ASSUME kind = "rpicam", worker \in Paired
      PROVE  /\ Len(metadata_timestamps') = collected' - Taken
             /\ \A i \in 1..Len(metadata_timestamps') :
                  metadata_timestamps'[i] = Shot(Taken + i)
  <2>1. /\ Len(metadata_timestamps) = collected - Taken
        /\ \A i \in 1..Len(metadata_timestamps) :
             metadata_timestamps[i] = Shot(Taken + i)
    BY <1>8 DEF TimesOK
  <2>2. Taken + (Len(metadata_timestamps) + 1) = collected + 1
    BY <1>2, <1>4, <1>7, <2>1
  <2>3. ASSUME NEW i \in 1..Len(metadata_timestamps')
        PROVE  metadata_timestamps'[i] = Shot(Taken + i)
    <3>1. CASE i = Len(metadata_timestamps) + 1
      BY <1>5, <2>2, <3>1
    <3>2. CASE i # Len(metadata_timestamps) + 1
      <4>1. i \in 1..Len(metadata_timestamps)
        BY <1>4, <1>5, <3>2
      <4> QED
        BY <1>5, <2>1, <4>1
    <3> QED
      BY <3>1, <3>2
  <2>4. Len(metadata_timestamps') = collected' - Taken
    BY <1>1, <1>2, <1>4, <1>5, <1>7, <2>1
  <2> QED
    BY <2>3, <2>4
<1>9. Len(metadata_timestamps') <= collected'
  BY <1>1, <1>2, <1>4, <1>5
<1>10. kind' = "rpicam" /\ worker' \in Paired =>
         /\ Len(metadata_timestamps') = collected' - Taken'
         /\ \A i \in 1..Len(metadata_timestamps') :
              metadata_timestamps'[i] = Shot(Taken + i)'
  BY <1>1, <1>7, <1>8 DEF Shot
<1> QED
  BY <1>1, <1>5, <1>6, <1>9, <1>10 DEF TimesOK

(***************************************************************************)
(* The steps that leave the deque as it is, and those that empty it.       *)
(***************************************************************************)
LEMMA SameTimes ==
  ASSUME CountsOK, TimesOK,
         UNCHANGED <<kind, restart_count, metadata_timestamps, collected>>,
         worker' = "forking" => worker = "forking",
         worker' \in Paired => worker \in Paired /\ Taken' = Taken
  PROVE  TimesOK'
<1>1. ASSUME kind' = "rpicam", worker' \in Paired
      PROVE  /\ Len(metadata_timestamps') = collected' - Taken'
             /\ \A i \in 1..Len(metadata_timestamps') :
                  metadata_timestamps'[i] = Shot(Taken + i)'
  BY <1>1 DEF TimesOK, Shot
<1> QED
  BY <1>1 DEF TimesOK

LEMMA WorkerTimes ==
  ASSUME ValuesOK, CountsOK, ChildOK, TimesOK, FramesOK, WorkerStep
  PROVE  TimesOK'
<1> USE DEF WorkerMoves, status_vars, child_vars, pipe_vars, owner_vars
<1>1. CASE Prepare
  <2>1. CASE stop_requested
    <3>1. /\ worker' = "ending"
          /\ UNCHANGED <<kind, restart_count, metadata_timestamps, collected>>
      BY <1>1, <2>1 DEF Prepare
    <3> QED
      BY <3>1, SameTimes DEF Paired
  <2>2. CASE ~stop_requested
    <3>1. worker' = "forking" /\ metadata_timestamps' = <<>> /\ collected' = collected
      BY <1>1, <2>2 DEF Prepare
    <3>2. collected \in Nat
      BY CameraBounds DEF CountsOK
    <3> QED
      BY <3>1, <3>2 DEF TimesOK, Paired
  <2> QED
    BY <2>1, <2>2
<1>2. CASE Fork
  <2>1. /\ worker = "forking" /\ worker' = "storing"
        /\ collected' = 0 /\ read' = 0
        /\ metadata_timestamps' = metadata_timestamps
    BY <1>2 DEF Fork
  <2>2. metadata_timestamps = <<>>
    BY <2>1 DEF TimesOK
  <2>3. Taken' = 0
    BY <2>1 DEF Taken
  <2> QED
    BY <2>1, <2>2, <2>3 DEF TimesOK
<1>3. CASE Pair
  BY <1>3, PairTimes
<1>4. CASE Retry
  <2>1. /\ worker' \in {"ending", "delaying"}
        /\ UNCHANGED <<metadata_timestamps, collected>>
    BY <1>4 DEF Retry
  <2> QED
    BY <2>1 DEF TimesOK, Paired
<1>5. CASE CompleteFrame
  <2>1. /\ worker = "reading" /\ read' = read + 1 /\ kind' = kind
        /\ worker' = IF kind = "rpicam" THEN "pairing" ELSE "publishing"
        /\ UNCHANGED <<restart_count, metadata_timestamps, collected>>
    BY <1>5 DEF CompleteFrame
  <2>2. CASE kind = "rpicam"
    <3>1. read \in Nat
      BY CameraBounds DEF CountsOK
    <3>2. Taken' = Taken
      BY <2>1, <2>2, <3>1 DEF Taken
    <3> QED
      BY <2>1, <2>2, <3>2, SameTimes DEF Paired
  <2>3. CASE kind # "rpicam"
    BY <2>1, <2>3 DEF TimesOK
  <2> QED
    BY <2>2, <2>3
<1>6. CASE ForkFails \/ StorePid \/ Check \/ ReadEnds \/ PairTimesOut
           \/ Publish
  <2>1. /\ UNCHANGED <<kind, restart_count, metadata_timestamps, collected>>
        /\ UNCHANGED read
        /\ worker' # "forking"
        /\ worker' \in Paired =>
             /\ worker \in Paired
             /\ worker # "pairing" /\ worker' # "pairing"
    BY <1>6 DEF ForkFails, StorePid, Check, ReadEnds, PairTimesOut, Publish,
                Paired
  <2> QED
    BY <2>1, SameTimes DEF Taken
<1>7. CASE Kill \/ Reap \/ ClearPid \/ JoinReaders \/ Delay \/ SetStopped
  <2>1. /\ UNCHANGED <<kind, restart_count, metadata_timestamps, collected>>
        /\ worker' # "forking" /\ worker' \notin Paired
    BY <1>7 DEF Kill, Reap, ClearPid, JoinReaders, Delay, SetStopped, Paired
  <2> QED
    BY <2>1, SameTimes
<1> QED
  BY <1>1, <1>2, <1>3, <1>4, <1>5, <1>6, <1>7 DEF WorkerStep

LEMMA OtherTimes ==
  ASSUME ValuesOK, CountsOK, ChildOK, TimesOK,
         Collect \/ ChildStep \/ Destroy \/ TakeLatestFrame
           \/ UNCHANGED source_vars
  PROVE  TimesOK'
<1>1. CASE Collect
  BY <1>1, CollectTimes
<1>2. CASE ~Collect
  <2>1. UNCHANGED <<kind, worker, restart_count, metadata_timestamps, read,
                    collected>>
    BY <1>2 DEF ChildStep, Exec, End, Film, Describe, ChildMoves, Destroy,
                RequestStop, LoadPid, StopChild, JoinWorker, OwnerMoves,
                TakeLatestFrame, source_vars, status_vars, pipe_vars
  <2> QED
    BY <2>1, SameTimes DEF Taken
<1> QED
  BY <1>1, <1>2

(***************************************************************************)
(* The frames: only these steps make, pair, publish or drop one.           *)
(***************************************************************************)
LEMMA FrameTypes ==
  ASSUME NEW sequence, NEW number, NEW time, CountsOK,
         sequence \in 1..((MaxRestarts + 1) * MaxFrames),
         number \in 1..MaxFrames, time \in Shots \cup {NoFrame}
  PROVE  [sequence |-> sequence, shot |-> Shot(number), captured_at |-> time]
           \in Frames
BY ShotType DEF Frames

LEMMA CompleteFrames ==
  ASSUME ValuesOK, CountsOK, FramesOK, CompleteFrame
  PROVE  FramesOK'
<1>1. /\ worker = "reading" /\ read < filmed
      /\ read' = read + 1
      /\ next_sequence' = next_sequence + 1
      /\ frame' = [sequence |-> next_sequence + 1, shot |-> Shot(read + 1),
                   captured_at |-> NoFrame]
      /\ worker' = IF kind = "rpicam" THEN "pairing" ELSE "publishing"
      /\ UNCHANGED <<kind, latest_frame, restart_count>>
  BY DEF CompleteFrame, status_vars, Shot
<1>2. /\ read \in Nat /\ next_sequence \in Nat
      /\ read + 1 \in 1..MaxFrames /\ read + 1 > 0
  BY <1>1, CameraBounds DEF CountsOK
<1>3. next_sequence + 1 \in 1..((MaxRestarts + 1) * MaxFrames)
  <2>1. restart_count \in Nat
    BY CameraBounds DEF CountsOK
  <2>2. UsedBefore \in Nat
    BY <2>1, NextAttempt
  <2>3. UsedBefore + MaxFrames <= (MaxRestarts + 1) * MaxFrames
    BY WithinAttempts DEF CountsOK
  <2>4. next_sequence <= UsedBefore + read
    BY DEF CountsOK
  <2>5. (MaxRestarts + 1) * MaxFrames \in Nat
    BY CameraBounds
  <2> QED
    BY <1>2, <2>2, <2>3, <2>4, <2>5, CameraBounds
<1>4. frame' \in Frames
  BY <1>1, <1>2, <1>3, FrameTypes
<1>5. /\ frame'.sequence = next_sequence'
      /\ frame'.shot = Shot(read)'
      /\ read' > 0
      /\ kind' # "rpicam" => frame'.captured_at = NoFrame
  BY <1>1, <1>2 DEF Shot
<1>6. ASSUME latest_frame' # NoFrame
      PROVE  /\ latest_frame' \in Frames
             /\ latest_frame'.shot.attempt = restart_count'
             /\ latest_frame'.captured_at = CaptureTime(latest_frame)'
             /\ latest_frame'.sequence <= next_sequence'
             /\ latest_frame'.sequence < next_sequence'
  <2>1. /\ latest_frame \in Frames
        /\ latest_frame.shot.attempt = restart_count
        /\ latest_frame.captured_at = CaptureTime(latest_frame)
        /\ latest_frame.sequence <= next_sequence
    BY <1>1, <1>6 DEF FramesOK
  <2>2. latest_frame.sequence \in Nat
    BY <2>1, CameraBounds DEF Frames
  <2>3. /\ latest_frame.sequence <= next_sequence'
        /\ latest_frame.sequence < next_sequence'
    BY <1>1, <1>2, <2>1, <2>2
  <2> QED
    BY <1>1, <2>1, <2>3 DEF CaptureTime
<1>7. latest_frame' \in Frames \cup {NoFrame}
  BY <1>1 DEF FramesOK
<1>8. /\ worker' = "pairing" => kind' = "rpicam"
      /\ worker' = "publishing" => kind' # "rpicam"
  BY <1>1
<1>9. worker' = "publishing" => frame'.captured_at = CaptureTime(frame)'
  BY <1>5, <1>8 DEF CaptureTime
<1> QED
  BY <1>4, <1>5, <1>6, <1>7, <1>8, <1>9 DEF FramesOK

LEMMA PairFrames ==
  ASSUME ValuesOK, CountsOK, TimesOK, FramesOK, Pair
  PROVE  FramesOK'
<1>1. /\ worker = "pairing" /\ worker' = "publishing"
      /\ frame' = [frame EXCEPT !.captured_at = Head(metadata_timestamps)]
      /\ UNCHANGED <<kind, latest_frame, restart_count, next_sequence, read>>
  BY DEF Pair, status_vars, pipe_vars
<1>2. /\ frame \in Frames /\ frame.sequence = next_sequence
      /\ frame.shot = Shot(read) /\ kind = "rpicam" /\ read > 0
  BY <1>1 DEF FramesOK, InHand
<1>3. Head(metadata_timestamps) = Shot(read)
  BY PairTimes
<1>4. frame.shot \in Shots
  BY <1>2 DEF Frames
<1>5. frame' = [sequence |-> frame.sequence, shot |-> frame.shot,
                captured_at |-> frame.shot]
  BY <1>1, <1>2, <1>3 DEF Frames
<1>6. frame' \in Frames
  BY <1>2, <1>4, <1>5 DEF Frames
<1>7. /\ frame'.sequence = next_sequence' /\ frame'.shot = Shot(read)'
      /\ frame'.captured_at = CaptureTime(frame)'
  BY <1>1, <1>2, <1>5 DEF CaptureTime, Shot
<1> QED
  BY <1>1, <1>2, <1>6, <1>7 DEF FramesOK, CaptureTime, InHand

LEMMA PublishFrames ==
  ASSUME ValuesOK, CountsOK, FramesOK, Publish
  PROVE  FramesOK'
<1>1. /\ worker = "publishing" /\ worker' = "checking"
      /\ latest_frame' = frame /\ frame' = NoFrame
      /\ UNCHANGED <<kind, restart_count, next_sequence, read>>
  BY DEF Publish, pipe_vars
<1>2. /\ frame \in Frames /\ frame.sequence = next_sequence
      /\ frame.shot = Shot(read) /\ frame.captured_at = CaptureTime(frame)
  BY <1>1 DEF FramesOK, InHand
<1>3. /\ frame.shot.attempt = restart_count
      /\ frame.sequence <= next_sequence
  BY <1>2 DEF Shot, CountsOK
<1> QED
  BY <1>1, <1>2, <1>3 DEF FramesOK, CaptureTime, InHand

LEMMA DropFrames ==
  ASSUME ValuesOK, FramesOK, latest_frame' = NoFrame,
         frame' = frame, worker' \notin {"pairing", "publishing"}
  PROVE  FramesOK'
BY DEF FramesOK, InHand

LEMMA SameFrames ==
  ASSUME ValuesOK, FramesOK,
         frame' \in {frame, NoFrame},
         latest_frame' \in {latest_frame, NoFrame},
         UNCHANGED <<kind, restart_count, next_sequence, read>>,
         worker' = worker \/ worker' \notin {"pairing", "publishing"},
         worker' \in {"pairing", "publishing"} => frame' = frame
  PROVE  FramesOK'
<1>1. /\ frame' \in Frames \cup {NoFrame}
      /\ latest_frame' \in Frames \cup {NoFrame}
  BY DEF FramesOK
<1>2. InHand' => InHand /\ frame' = frame /\ worker' = worker
  BY DEF InHand
<1>3. ASSUME latest_frame' # NoFrame
      PROVE  /\ latest_frame' \in Frames
             /\ latest_frame'.shot.attempt = restart_count'
             /\ latest_frame'.captured_at = CaptureTime(latest_frame)'
             /\ latest_frame'.sequence <= next_sequence'
             /\ InHand' => latest_frame'.sequence < next_sequence'
  BY <1>2, <1>3 DEF FramesOK, CaptureTime
<1>4. InHand' => /\ frame' \in Frames
                 /\ frame'.sequence = next_sequence'
                 /\ frame'.shot = Shot(read)'
                 /\ read' > 0
  BY <1>2 DEF FramesOK, Shot
<1>5. /\ worker' = "pairing" => kind' = "rpicam"
      /\ worker' = "publishing" => frame'.captured_at = CaptureTime(frame)'
  BY <1>2 DEF FramesOK, CaptureTime, InHand
<1> QED
  BY <1>1, <1>3, <1>4, <1>5 DEF FramesOK

LEMMA WorkerFrames ==
  ASSUME ValuesOK, CountsOK, TimesOK, FramesOK, WorkerStep
  PROVE  FramesOK'
<1> USE DEF WorkerMoves, status_vars, child_vars, pipe_vars, owner_vars
<1>1. CASE Fork
  <2>1. /\ UNCHANGED <<kind, restart_count, next_sequence, frame, latest_frame>>
        /\ worker' = "storing"
    BY <1>1 DEF Fork
  <2>2. worker # "pairing" /\ worker # "publishing"
    BY <1>1 DEF Fork
  <2> QED
    BY <2>1, <2>2 DEF FramesOK, InHand, CaptureTime
<1>2. CASE Retry
  <2>1. CASE stop_requested
    BY <1>2, <2>1, SameFrames DEF Retry
  <2>2. CASE ~stop_requested
    BY <1>2, <2>2, DropFrames DEF Retry
  <2> QED
    BY <2>1, <2>2
<1>3. CASE CompleteFrame \/ Pair \/ Publish
  BY <1>3, CompleteFrames, PairFrames, PublishFrames
<1>4. CASE Prepare \/ ForkFails \/ StorePid \/ Check \/ ReadEnds
           \/ PairTimesOut
  <2>1. /\ frame' \in {frame, NoFrame}
        /\ latest_frame' \in {latest_frame, NoFrame}
        /\ UNCHANGED <<kind, restart_count, next_sequence, read>>
        /\ worker' \notin {"pairing", "publishing"}
    BY <1>4 DEF Prepare, ForkFails, StorePid, Check, ReadEnds, PairTimesOut
  <2> QED
    BY <2>1, SameFrames
<1>5. CASE Kill \/ Reap \/ ClearPid \/ JoinReaders \/ Delay \/ SetStopped
  <2>1. /\ UNCHANGED <<frame, latest_frame>>
        /\ UNCHANGED <<kind, restart_count, next_sequence, read>>
        /\ worker' \notin {"pairing", "publishing"}
    BY <1>5 DEF Kill, Reap, ClearPid, JoinReaders, Delay, SetStopped
  <2> QED
    BY <2>1, SameFrames
<1> QED
  BY <1>1, <1>2, <1>3, <1>4, <1>5 DEF WorkerStep

LEMMA OtherFrames ==
  ASSUME ValuesOK, FramesOK,
         Collect \/ ChildStep \/ Destroy \/ TakeLatestFrame
           \/ UNCHANGED source_vars
  PROVE  FramesOK'
<1>1. /\ UNCHANGED <<kind, worker, restart_count, next_sequence, read, frame>>
      /\ latest_frame' \in {latest_frame, NoFrame}
  BY DEF Collect, ChildStep, Exec, End, Film, Describe, ChildMoves, Destroy,
         RequestStop, LoadPid, StopChild, JoinWorker, OwnerMoves,
         TakeLatestFrame, source_vars, status_vars, pipe_vars
<1> QED
  BY <1>1, SameFrames

(***************************************************************************)
(* The statistics.                                                         *)
(***************************************************************************)
LEMMA HeldType == ASSUME NEW one PROVE Held(one) \in {0, 1}
BY DEF Held

LEMMA PublishStatistics ==
  ASSUME CountsOK, FramesOK, StatisticsOK, Publish, UNCHANGED monitor_vars
  PROVE  StatisticsOK'
<1>1. /\ worker = "publishing" /\ worker' = "checking"
      /\ latest_frame' = frame
      /\ produced_frames' = produced_frames + 1
      /\ overwritten_frames' = overwritten_frames + Held(latest_frame)
      /\ UNCHANGED <<next_sequence, last_sequence, received_frames,
                     dropped_before_processing>>
  BY DEF Publish, Held, monitor_vars
<1>2. InHand /\ ~InHand'
  BY <1>1 DEF InHand
<1>3. frame.sequence = next_sequence
  BY <1>2 DEF FramesOK
<1>4. Held(latest_frame) \in {0, 1} /\ Held(latest_frame)' \in {0, 1}
  BY HeldType DEF Held
<1>5. next_sequence \in Nat
  BY DEF CountsOK
<1>6. /\ received_frames + overwritten_frames + Held(latest_frame)
           <= produced_frames
      /\ produced_frames + 1 <= next_sequence
      /\ last_sequence + 1 <= next_sequence
      /\ dropped_before_processing + received_frames <= last_sequence
      /\ produced_frames \in Nat /\ overwritten_frames \in Nat
      /\ received_frames \in Nat /\ dropped_before_processing \in Nat
      /\ last_sequence \in Nat
  BY <1>2 DEF StatisticsOK
<1>7. /\ overwritten_frames' \in Nat /\ produced_frames' \in Nat
      /\ received_frames' + overwritten_frames' + Held(latest_frame)'
           <= produced_frames'
      /\ produced_frames' + 0 <= next_sequence'
      /\ last_sequence' + 0 <= next_sequence'
      /\ last_sequence' < latest_frame'.sequence
  BY <1>1, <1>3, <1>4, <1>5, <1>6
<1> QED
  BY <1>1, <1>2, <1>6, <1>7 DEF StatisticsOK

LEMMA CompleteStatistics ==
  ASSUME CountsOK, StatisticsOK, CompleteFrame, UNCHANGED monitor_vars
  PROVE  StatisticsOK'
<1>1. /\ worker = "reading" /\ worker' \in {"pairing", "publishing"}
      /\ next_sequence' = next_sequence + 1
      /\ UNCHANGED <<latest_frame, produced_frames, overwritten_frames,
                     last_sequence, received_frames,
                     dropped_before_processing>>
  BY DEF CompleteFrame, status_vars, monitor_vars
<1>2. ~InHand /\ InHand' /\ Held(latest_frame)' = Held(latest_frame)
  BY <1>1 DEF InHand, Held
<1>3. next_sequence \in Nat
  BY DEF CountsOK
<1>4. /\ produced_frames + 0 <= next_sequence
      /\ last_sequence + 0 <= next_sequence
      /\ produced_frames \in Nat /\ last_sequence \in Nat
  BY <1>2 DEF StatisticsOK
<1>5. /\ produced_frames' + 1 <= next_sequence'
      /\ last_sequence' + 1 <= next_sequence'
  BY <1>1, <1>3, <1>4
<1> QED
  BY <1>1, <1>2, <1>5 DEF StatisticsOK

(***************************************************************************)
(* A step that publishes nothing may drop the latest frame, or the one in  *)
(* hand.                                                                   *)
(***************************************************************************)
LEMMA DropStatistics ==
  ASSUME CountsOK, StatisticsOK,
         UNCHANGED <<next_sequence, produced_frames, overwritten_frames,
                     monitor_vars>>,
         latest_frame' \in {latest_frame, NoFrame},
         InHand' => InHand
  PROVE  StatisticsOK'
<1>1. Held(latest_frame)' \in Nat /\ Held(latest_frame)' <= Held(latest_frame)
  BY DEF Held
<1>2. Held(latest_frame) \in Nat
  BY DEF Held
<1>3. UNCHANGED <<last_sequence, received_frames, dropped_before_processing>>
  BY DEF monitor_vars
<1>4. /\ received_frames + overwritten_frames + Held(latest_frame)
           <= produced_frames
      /\ produced_frames + (IF InHand THEN 1 ELSE 0) <= next_sequence
      /\ last_sequence + (IF InHand THEN 1 ELSE 0) <= next_sequence
      /\ produced_frames \in Nat /\ overwritten_frames \in Nat
      /\ received_frames \in Nat /\ last_sequence \in Nat
  BY DEF StatisticsOK
<1>5. received_frames + overwritten_frames + Held(latest_frame)'
        <= produced_frames
  BY <1>1, <1>2, <1>4
<1>6. next_sequence \in Nat
  BY DEF CountsOK
<1>7. /\ produced_frames + (IF InHand' THEN 1 ELSE 0) <= next_sequence
      /\ last_sequence + (IF InHand' THEN 1 ELSE 0) <= next_sequence
  BY <1>4, <1>6
<1>8. latest_frame' # NoFrame => last_sequence' < latest_frame'.sequence
  BY <1>3 DEF StatisticsOK
<1> QED
  BY <1>3, <1>4, <1>5, <1>7, <1>8 DEF StatisticsOK

LEMMA PollStatistics ==
  ASSUME CountsOK, FramesOK, StatisticsOK, PollMonitor
  PROVE  StatisticsOK'
<1>1. /\ latest_frame' = NoFrame
      /\ UNCHANGED <<worker, next_sequence, produced_frames,
                     overwritten_frames>>
      /\ Monitor!Poll(latest_frame)
  BY DEF PollMonitor, TakeLatestFrame, status_vars
<1>2. InHand' <=> InHand
  BY <1>1 DEF InHand
<1>3. CASE latest_frame = NoFrame
  BY <1>1, <1>2, <1>3, DropStatistics
     DEF Monitor!Poll, Monitor!vars, monitor_vars
<1>4. CASE latest_frame # NoFrame
  <2>1. /\ last_sequence' = latest_frame.sequence
        /\ received_frames' = received_frames + 1
        /\ dropped_before_processing' =
             dropped_before_processing + Monitor!Gap(latest_frame)
    BY <1>1, <1>4 DEF Monitor!Poll
  <2>2. /\ latest_frame.sequence \in Nat
        /\ latest_frame.sequence <= next_sequence
        /\ InHand => latest_frame.sequence < next_sequence
    BY <1>4, CameraBounds DEF FramesOK, Frames
  <2>3. /\ received_frames + overwritten_frames + 1 <= produced_frames
        /\ produced_frames + (IF InHand THEN 1 ELSE 0) <= next_sequence
        /\ last_sequence < latest_frame.sequence
        /\ dropped_before_processing + received_frames <= last_sequence
        /\ produced_frames \in Nat /\ overwritten_frames \in Nat
        /\ received_frames \in Nat /\ dropped_before_processing \in Nat
        /\ last_sequence \in Nat
    BY <1>4 DEF StatisticsOK, Held
  <2>4. /\ Monitor!Gap(latest_frame) \in Nat
        /\ last_sequence = 0 => Monitor!Gap(latest_frame) = 0
        /\ Monitor!Gap(latest_frame)
             <= latest_frame.sequence - last_sequence - 1
    BY <2>2, <2>3 DEF Monitor!Gap
  <2>5. dropped_before_processing' + received_frames' <= last_sequence'
    BY <2>1, <2>2, <2>3, <2>4
  <2>6. /\ received_frames' \in Nat /\ dropped_before_processing' \in Nat
        /\ last_sequence' \in Nat
        /\ received_frames' + overwritten_frames + 0 <= produced_frames
    BY <2>1, <2>2, <2>3, <2>4
  <2>7. next_sequence \in Nat
    BY DEF CountsOK
  <2>8. last_sequence' + (IF InHand THEN 1 ELSE 0) <= next_sequence
    BY <2>1, <2>2, <2>7
  <2>9. Held(latest_frame)' = 0
    BY <1>1 DEF Held
  <2> QED
    BY <1>1, <1>2, <2>3, <2>5, <2>6, <2>8, <2>9 DEF StatisticsOK
<1> QED
  BY <1>3, <1>4

LEMMA SourceStatistics ==
  ASSUME CountsOK, FramesOK, StatisticsOK, SourceStep
  PROVE  StatisticsOK'
<1> USE DEF WorkerMoves, status_vars, child_vars, pipe_vars, owner_vars
<1>1. UNCHANGED monitor_vars
  BY DEF SourceStep
<1>2. CASE CompleteFrame \/ Publish
  BY <1>1, <1>2, CompleteStatistics, PublishStatistics
<1>3. CASE Prepare \/ Fork \/ ForkFails \/ StorePid \/ Check \/ ReadEnds
           \/ Pair \/ PairTimesOut
  <2>1. /\ UNCHANGED <<next_sequence, produced_frames, overwritten_frames>>
        /\ latest_frame' \in {latest_frame, NoFrame}
        /\ InHand' => InHand
    BY <1>3 DEF Prepare, Fork, ForkFails, StorePid, Check, ReadEnds, Pair,
                PairTimesOut, InHand
  <2> QED
    BY <1>1, <2>1, DropStatistics
<1>4. CASE Kill \/ Reap \/ ClearPid \/ JoinReaders \/ Retry \/ Delay
           \/ SetStopped
  <2>1. /\ UNCHANGED <<next_sequence, produced_frames, overwritten_frames>>
        /\ latest_frame' \in {latest_frame, NoFrame}
        /\ InHand' => InHand
    BY <1>4 DEF Kill, Reap, ClearPid, JoinReaders, Retry, Delay, SetStopped,
                InHand
  <2> QED
    BY <1>1, <2>1, DropStatistics
<1>5. CASE Collect \/ ChildStep \/ Destroy
  <2>1. /\ UNCHANGED <<next_sequence, produced_frames, overwritten_frames,
                       latest_frame, worker>>
    BY <1>5 DEF Collect, ChildStep, Exec, End, Film, Describe, ChildMoves,
                Destroy, RequestStop, LoadPid, StopChild, JoinWorker,
                OwnerMoves
  <2> QED
    BY <1>1, <2>1, DropStatistics DEF InHand
<1> QED
  BY <1>2, <1>3, <1>4, <1>5 DEF SourceStep, WorkerStep

(***************************************************************************)
(* CameraOK is inductive.                                                  *)
(***************************************************************************)
LEMMA CameraStep == CameraOK /\ [PipelineNext]_pipeline_vars => CameraOK'
<1> SUFFICES ASSUME ValuesOK, CountsOK, ChildOK, TimesOK, FramesOK,
                    StatisticsOK, [PipelineNext]_pipeline_vars
             PROVE  ValuesOK' /\ CountsOK' /\ ChildOK' /\ TimesOK'
                      /\ FramesOK' /\ StatisticsOK'
  BY DEF CameraOK
<1>1. WorkerStep =>
        ValuesOK' /\ CountsOK' /\ ChildOK' /\ TimesOK' /\ FramesOK'
  BY WorkerValues, WorkerCounts, WorkerChild, WorkerTimes, WorkerFrames
<1>2. Collect \/ ChildStep \/ Destroy \/ TakeLatestFrame
        \/ UNCHANGED source_vars =>
        ValuesOK' /\ CountsOK' /\ ChildOK' /\ TimesOK' /\ FramesOK'
  BY OtherValues, OtherCounts, OtherChild, OtherTimes, OtherFrames
<1>3. ASSUME UNCHANGED pipeline_vars
      PROVE  StatisticsOK'
  <2>1. UNCHANGED <<next_sequence, produced_frames, overwritten_frames,
                    latest_frame, worker, monitor_vars>>
    BY <1>3 DEF pipeline_vars, source_vars, status_vars
  <2> QED
    BY <2>1, DropStatistics DEF InHand
<1>4. /\ ValuesOK' /\ CountsOK' /\ ChildOK' /\ TimesOK' /\ FramesOK'
  BY <1>1, <1>2 DEF PipelineNext, PollMonitor, SourceStep, pipeline_vars
<1>5. StatisticsOK'
  BY <1>3, PollStatistics, SourceStatistics DEF PipelineNext
<1> QED
  BY <1>4, <1>5

LEMMA CameraCorrect == PipelineSpec => []CameraOK
BY CameraInit, CameraStep, PTL DEF PipelineSpec

(***************************************************************************)
(* The types and bounds hold, the deque of capture times never holds more  *)
(* than one attempt leaves, and no frame outlives its attempt: for any     *)
(* number of frames and restarts, and any interleaving of the worker, the  *)
(* metadata reader, the child and the owner (run, run_once,                *)
(* collect_metadata, stop_child).                                          *)
(***************************************************************************)
THEOREM PipelineCorrect == PipelineSpec => []PipelineInvariant
<1>1. CameraOK => PipelineTypeOK
  <2> SUFFICES ASSUME CameraOK PROVE PipelineTypeOK
    OBVIOUS
  <2>1. /\ read <= filmed /\ filmed <= MaxFrames
        /\ collected <= described /\ described <= MaxFrames
        /\ restart_count \in 0..MaxRestarts
    BY CameraBounds DEF CameraOK, CountsOK
  <2>2. Len(metadata_timestamps) <= MaxFrames
    BY <2>1, CameraBounds DEF CameraOK, CountsOK, TimesOK
  <2> QED
    BY <2>1, <2>2 DEF CameraOK, ValuesOK, FramesOK, PipelineTypeOK
<1>2. CameraOK => FrameIsOfThisAttempt
  BY DEF CameraOK, FramesOK, FrameIsOfThisAttempt
<1> QED
  BY <1>1, <1>2, CameraCorrect, PTL DEF PipelineInvariant

(***************************************************************************)
(* wait_for_metadata pairs a frame with its own capture time, although the *)
(* two come through different pipes and threads: the deque always starts   *)
(* with the time of the next frame.                                        *)
(***************************************************************************)
THEOREM PairingCorrect == PipelineSpec => []FramesArePaired
<1>1. CameraOK => FramesArePaired
  BY DEF CameraOK, FramesOK, CaptureTime, FramesArePaired
<1> QED
  BY <1>1, CameraCorrect, PTL

(***************************************************************************)
(* child_pid_ names no process that was reaped, but between waitpid and    *)
(* the store after it: stop_child never signals a stranger that got the    *)
(* pid during a restart delay.                                             *)
(***************************************************************************)
THEOREM PidCorrect == PipelineSpec => []PidIsOfChild
<1>1. CameraOK => PidIsOfChild
  BY DEF CameraOK, ChildOK, PidIsOfChild
<1> QED
  BY <1>1, CameraCorrect, PTL

(***************************************************************************)
(* No restart is reported as dropped frames: next_sequence_ goes on across *)
(* attempts, and CameraMonitor counts each frame at most once, as received *)
(* or as dropped.                                                          *)
(***************************************************************************)
THEOREM DropsCorrect == PipelineSpec => []DropsWereComplete
<1>1. CameraOK => DropsWereComplete
  <2> SUFFICES ASSUME CameraOK PROVE DropsWereComplete
    OBVIOUS
  <2>1. /\ Held(latest_frame) \in Nat
        /\ (IF InHand THEN 1 ELSE 0) \in Nat
    BY DEF Held
  <2>2. received_frames + overwritten_frames <= next_sequence
    BY <2>1 DEF CameraOK, StatisticsOK, CountsOK
  <2>3. received_frames + dropped_before_processing <= next_sequence
    BY <2>1 DEF CameraOK, StatisticsOK, CountsOK
  <2> QED
    BY <2>2, <2>3 DEF DropsWereComplete, Monitor!ReportedDrops
<1> QED
  BY <1>1, CameraCorrect, PTL
=============================================================================
