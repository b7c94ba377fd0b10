--------------------------- MODULE SerialTransport ---------------------------
(***************************************************************************)
(* PosixSerialTransport: a descriptor that is reopened, no more often than *)
(* the reconnect interval allows, after the device went away.  Its state   *)
(* is a record, because read and write first see to the connection and     *)
(* then use it:                                                            *)
(*   descriptor   closed, live, or dead: still open on a device that is    *)
(*                gone, even if the device has come back meanwhile         *)
(*   retry        ticks until next_reconnect_attempt_                      *)
(*   opened       for the properties: successful opens, modulo 2           *)
(* What the operating system answers is an argument.                       *)
(***************************************************************************)
EXTENDS Naturals

CONSTANT ReconnectInterval

ASSUME SerialTransportAssumption == ReconnectInterval \in Nat

Serial == [descriptor: {"closed", "live", "dead"},
           retry: 0..ReconnectInterval, opened: 0..1]

(***************************************************************************)
(* The constructor opens the device, or throws.                            *)
(***************************************************************************)
Constructed == [descriptor |-> "live", retry |-> 0, opened |-> 0]

Disconnected(serial) ==
  [descriptor |-> "closed", retry |-> ReconnectInterval,
   opened |-> serial.opened]

(***************************************************************************)
(* ensure_connected.  Mutant: a failed attempt is repeated at once.        *)
(***************************************************************************)
Attempts(serial) == serial.descriptor = "closed" /\ serial.retry = 0

Reopened(serial) ==
  [descriptor |-> "live", retry |-> serial.retry,
   opened |-> 1 - serial.opened]

EnsureConnectedEagerly(serial, opens) ==
  IF Attempts(serial) /\ opens THEN Reopened(serial) ELSE serial

EnsureConnected(serial, opens) ==
  IF ~Attempts(serial) THEN serial
  ELSE IF opens THEN Reopened(serial)
  ELSE Disconnected(serial)

(***************************************************************************)
(* read: nothing waits (or the call was interrupted), data, or the device  *)
(* hung up or failed.  A dead descriptor hangs up.                         *)
(***************************************************************************)
ReadOutcomes(serial) ==
  IF serial.descriptor = "closed" THEN {"quiet"}
  ELSE IF serial.descriptor = "dead" THEN {"failed"}
  ELSE {"quiet", "data", "failed"}

AfterRead(serial, outcome) ==
  IF outcome = "failed" THEN Disconnected(serial) ELSE serial

(***************************************************************************)
(* write: some of the bytes, none because the device is busy, or a         *)
(* failure.  Mutant: a failed write goes on over a new connection.         *)
(***************************************************************************)
WriteOutcomes(serial) ==
  IF serial.descriptor = "closed" THEN {"none"}
  ELSE IF serial.descriptor = "dead" THEN {"failed"}
  ELSE {"written", "none", "failed"}

AfterWriteRetrying(serial, outcome, count) ==
  IF outcome = "failed"
  THEN [serial |-> Reopened(serial), written |-> count]
  ELSE [serial |-> serial, written |-> IF outcome = "written" THEN count ELSE 0]

AfterWrite(serial, outcome, count) ==
  IF outcome = "failed" THEN [serial |-> Disconnected(serial), written |-> 0]
  ELSE [serial |-> serial, written |-> IF outcome = "written" THEN count ELSE 0]

(***************************************************************************)
(* The device goes away; the clock ticks.                                  *)
(***************************************************************************)
Vanished(serial) ==
  IF serial.descriptor = "live" THEN [serial EXCEPT !.descriptor = "dead"]
  ELSE serial

AfterTick(serial) ==
  [serial EXCEPT !.retry = IF @ > 0 THEN @ - 1 ELSE 0]
=============================================================================
