------------------------- MODULE TelemetryLink_proofs -------------------------
(***************************************************************************)
(* What an active telemetry setup means, for any number of streams,        *)
(* attempts and setups, any timeout and any outcomes, on a prompt link.    *)
(***************************************************************************)
EXTENDS TelemetryLink, FiniteSetTheorems, TLAPS

LEMMA Limits ==
  /\ Streams \in Nat /\ Streams > 0
  /\ MaximumAttempts \in Nat /\ MaximumAttempts > 0
  /\ AckTimeout \in Nat /\ AckTimeout > 0
BY TelemetryAssumption

LEMMA VehicleIsSystem == Vehicle \in Systems /\ Vehicle # NoSystem
BY TelemetryAssumption, LinkAssumption DEF Vehicle

(***************************************************************************)
(* The inductive invariant.  An acknowledgement does not say which stream  *)
(* it is for.  Within one setup it need not: a request is repeated only    *)
(* when the link is empty (LinkOK), so the frames of this setup on the     *)
(* link, requests and final answers, are for streams that differ           *)
(* (OwnAreDistinct) and were sent (OwnAreSent).  Each of them that was     *)
(* counted is accepted by the flight controller, and no frame left on the  *)
(* link is for the same stream (Counted); the rest of what was counted are *)
(* the acknowledgements of earlier setups.                                 *)
(***************************************************************************)
PhaseOK ==
  /\ phase = "waiting_for_vehicle" <=> vehicle_system_id = NoSystem
  /\ vehicle_system_id \in {NoSystem, Vehicle}
  /\ phase = "waiting_for_vehicle" => current_request = 0
  /\ phase = "configuring" =>
       /\ current_request < Streams
       /\ IF awaiting_ack THEN attempt > 0 ELSE attempt = 0
  /\ phase = "active" => current_request = Streams

Quiet == requests = {} /\ answers = {}

Final(answer) == answer.outcome # "in_progress"

LinkOK ==
  /\ \A frame \in requests : frame.setup <= setups
  /\ \A answer \in answers : answer.frame.setup <= setups
  /\ link_deadline = 0 => Quiet
  /\ phase = "configuring" /\ awaiting_ack =>
       link_deadline <= acknowledgement_deadline

OwnRequest(frame) == frame \in requests /\ frame.setup = setups

OwnAnswer(answer) ==
  answer \in answers /\ Final(answer) /\ answer.frame.setup = setups

Sent(stream) ==
  stream < current_request \/ (stream = current_request /\ awaiting_ack)

OwnAreSent ==
  /\ \A frame \in requests : OwnRequest(frame) => Sent(frame.stream)
  /\ \A answer \in answers : OwnAnswer(answer) => Sent(answer.frame.stream)

OwnAreDistinct ==
  /\ \A one, other \in requests :
       OwnRequest(one) /\ OwnRequest(other) /\ one.stream = other.stream =>
         one = other
  /\ \A frame \in requests, answer \in answers :
       OwnRequest(frame) /\ OwnAnswer(answer) =>
         frame.stream # answer.frame.stream
  /\ \A one, other \in answers :
       /\ OwnAnswer(one) /\ OwnAnswer(other)
       /\ one.frame.stream = other.frame.stream
       => one = other

AcceptedAreConfigured ==
  connected =>
    \A answer \in answers :
      OwnAnswer(answer) /\ answer.outcome = "accepted" =>
        answer.frame.stream \in configured

Uncounted(streams) ==
  /\ \A frame \in requests : OwnRequest(frame) => frame.stream \notin streams
  /\ \A answer \in answers :
       OwnAnswer(answer) => answer.frame.stream \notin streams

Counted(streams) ==
  /\ streams \subseteq configured
  /\ Cardinality(streams) = current_request - miscounted
  /\ phase = "configuring" =>
       streams \subseteq 0..(current_request - 1) /\ Uncounted(streams)

OwnOK ==
  phase = "configuring" =>
    OwnAreSent /\ OwnAreDistinct /\ AcceptedAreConfigured

CountOK ==
  connected /\ phase \in {"configuring", "active"} =>
    \E streams \in SUBSET configured : Counted(streams)

Invariant ==
  /\ LinkTypeOK
  /\ PhaseOK
  /\ LinkOK
  /\ OwnOK
  /\ CountOK

LEMMA InitInvariant == LinkInit => Invariant
<1> SUFFICES ASSUME LinkInit PROVE Invariant
  OBVIOUS
<1>1. LinkTypeOK
  <2>1. /\ phase \in Phases /\ vehicle_system_id \in Systems \cup {NoSystem}
        /\ current_request \in 0..Streams /\ attempt \in 0..MaximumAttempts
        /\ acknowledgement_deadline \in 0..AckTimeout
        /\ link_deadline \in 0..AckTimeout
    BY Limits DEF LinkInit, Init, Phases
  <2>2. /\ awaiting_ack \in BOOLEAN /\ connected \in BOOLEAN
        /\ polling \in BOOLEAN /\ setups \in Nat /\ miscounted \in Nat
    BY DEF LinkInit, Init
  <2>3. requests = {} /\ answers = {} /\ configured = {}
    BY DEF LinkInit
  <2> QED
    BY <2>1, <2>2, <2>3 DEF LinkTypeOK, TypeOK
<1>2. PhaseOK
  BY Limits DEF LinkInit, Init, PhaseOK
<1> QED
  BY <1>1, <1>2 DEF LinkInit, Init, Invariant, LinkOK, Quiet, OwnOK, CountOK

(***************************************************************************)
(* What was counted stays counted while frames only leave the link.        *)
(***************************************************************************)
LEMMA FewerFrames ==
  ASSUME Invariant, requests' \subseteq requests, answers' \subseteq answers,
         UNCHANGED <<phase, current_request, awaiting_ack, connected,
                     configured, setups, miscounted>>
  PROVE  OwnOK' /\ CountOK'
<1>1. /\ \A frame : OwnRequest(frame)' => OwnRequest(frame)
      /\ \A answer : OwnAnswer(answer)' => OwnAnswer(answer)
      /\ \A stream : Sent(stream)' <=> Sent(stream)
  BY DEF OwnRequest, OwnAnswer, Final, Sent
<1>2. OwnOK'
  BY <1>1
  DEF Invariant, OwnOK, OwnAreSent, OwnAreDistinct, AcceptedAreConfigured
<1>3. \A streams : Counted(streams) => Counted(streams)'
  BY <1>1 DEF Counted, Uncounted
<1> QED
  BY <1>2, <1>3 DEF Invariant, CountOK

-----------------------------------------------------------------------------
(***************************************************************************)
(* One poll.  A new setup owns no frame that is on the link; a setup that  *)
(* goes on requests a stream for the first time, or finds the link empty.  *)
(***************************************************************************)
LEMMA UpdateType ==
  ASSUME Invariant, Update(connected, Vehicle)
  PROVE  TypeOK' /\ PhaseOK'
<1>1. CASE Reset
  <2>1. /\ phase' \in Phases /\ vehicle_system_id' \in Systems \cup {NoSystem}
        /\ current_request' \in 0..Streams /\ attempt' \in 0..MaximumAttempts
        /\ acknowledgement_deadline' \in 0..AckTimeout
    BY <1>1, Limits DEF Reset, Phases
  <2>2. awaiting_ack' \in BOOLEAN
    BY <1>1 DEF Reset
  <2>3. PhaseOK'
    BY <1>1 DEF Reset, PhaseOK
  <2> QED
    BY <2>1, <2>2, <2>3 DEF TypeOK
<1>2. CASE Begin(Vehicle)
  BY <1>2, Limits, VehicleIsSystem DEF Begin, TypeOK, Phases, PhaseOK
<1>3. CASE Request(Vehicle)
  BY <1>3, Limits
  DEF Request, Configuring, Invariant, LinkTypeOK, TypeOK, PhaseOK
<1>4. CASE GiveUp(Vehicle)
  BY <1>4, Limits, VehicleIsSystem
  DEF GiveUp, Configuring, Invariant, LinkTypeOK, TypeOK, Phases, PhaseOK
<1>5. CASE Idle(Vehicle)
  BY <1>5 DEF Idle, vars, Invariant, LinkTypeOK, TypeOK, PhaseOK
<1> QED
  BY <1>1, <1>2, <1>3, <1>4, <1>5 DEF Update

LEMMA PollLink ==
  ASSUME Invariant, NEW sent \in BOOLEAN, Poll(sent)
  PROVE  LinkTypeOK' /\ LinkOK'
<1>1. TypeOK' /\ PhaseOK'
  BY UpdateType DEF Poll
<1>2. /\ setups' \in Nat /\ setups' >= setups /\ miscounted' \in Nat
      /\ connected' = connected /\ polling' = FALSE
      /\ answers' = answers /\ configured' = configured
      /\ requests' = requests \cup Written(sent)
      /\ link_deadline' = IF Written(sent) # {} THEN AckTimeout
                                               ELSE link_deadline
  BY DEF Poll, history, Invariant, LinkTypeOK
<1>3. \A frame \in Written(sent) :
        /\ frame \in Frames /\ frame.setup = setups'
        /\ awaiting_ack' /\ acknowledgement_deadline' = AckTimeout
        /\ phase' = "configuring"
  <2> SUFFICES ASSUME NEW frame \in Written(sent)
               PROVE  /\ frame \in Frames /\ frame.setup = setups'
                      /\ awaiting_ack' /\ acknowledgement_deadline' = AckTimeout
                      /\ phase' = "configuring"
    OBVIOUS
  <2>1. /\ frame = [setup |-> setups', stream |-> current_request',
                    attempt |-> attempt']
        /\ awaiting_ack'
        /\ <<vehicle_system_id, current_request, attempt>>' #
           <<vehicle_system_id, current_request, attempt>>
    BY DEF Written, Requested
  <2>2. Begin(Vehicle) \/ Request(Vehicle)
    BY <2>1 DEF Poll, Update, Reset, GiveUp, Idle, vars
  <2>3. /\ phase' = "configuring" /\ acknowledgement_deadline' = AckTimeout
        /\ current_request' \in 0..(Streams - 1)
        /\ attempt' \in 1..MaximumAttempts
    BY <1>1, <2>1, <2>2, Limits
    DEF Begin, Request, Configuring, PhaseOK, TypeOK
  <2> QED
    BY <1>2, <2>1, <2>3 DEF Frames
<1>4. LinkTypeOK'
  <2>1. requests' \subseteq Frames
    BY <1>2, <1>3 DEF Invariant, LinkTypeOK
  <2>2. link_deadline' \in 0..AckTimeout
    BY <1>2, Limits DEF Invariant, LinkTypeOK
  <2> QED
    BY <1>1, <1>2, <2>1, <2>2 DEF Invariant, LinkTypeOK
<1>5. /\ \A frame \in requests' : frame.setup <= setups'
      /\ \A answer \in answers' : answer.frame.setup <= setups'
  BY <1>2, <1>3 DEF Invariant, LinkOK, LinkTypeOK, Frames
<1>6. link_deadline' = 0 => Quiet'
  BY <1>2, Limits DEF Invariant, LinkOK, Quiet
<1>7. phase' = "configuring" /\ awaiting_ack' =>
        link_deadline' <= acknowledgement_deadline'
  <2>1. CASE Reset \/ GiveUp(Vehicle)
    BY <2>1 DEF Reset, GiveUp
  <2>2. CASE Begin(Vehicle) \/ Request(Vehicle)
    BY <1>4, <2>2, Limits DEF Begin, Request, LinkTypeOK
  <2>3. CASE Idle(Vehicle)
    BY <1>2, <2>3 DEF Idle, vars, Written, Requested, Invariant, LinkOK
  <2> QED
    BY <2>1, <2>2, <2>3 DEF Poll, Update
<1> QED
  BY <1>4, <1>5, <1>6, <1>7 DEF LinkOK

LEMMA PollInvariant ==
  ASSUME Invariant, NEW sent \in BOOLEAN, Poll(sent)
  PROVE  Invariant'
<1>1. LinkTypeOK' /\ LinkOK' /\ PhaseOK'
  BY PollLink, UpdateType DEF Poll
<1>2. /\ requests' = requests \cup Written(sent)
      /\ answers' = answers /\ configured' = configured
      /\ connected' = connected
  BY DEF Poll
<1>3. \A frame \in Written(sent) :
        frame.setup = setups' /\ frame.stream = current_request' /\ awaiting_ack'
  BY DEF Written, Requested
<1>4. \A one, other \in Written(sent) : one = other
  BY DEF Written, Requested
<1>5. CASE Reset \/ GiveUp(Vehicle)
  BY <1>1, <1>5 DEF Reset, GiveUp, Invariant, OwnOK, CountOK
<1>6. CASE Begin(Vehicle)
  <2>1. setups' = setups + 1 /\ miscounted' = 0 /\ current_request' = 0
    BY <1>6, VehicleIsSystem DEF Poll, Begun, Begin
  <2>2. /\ \A frame : OwnRequest(frame)' => frame \in Written(sent)
        /\ \A answer : ~OwnAnswer(answer)'
    BY <1>2, <2>1
    DEF OwnRequest, OwnAnswer, Invariant, LinkOK, LinkTypeOK, Frames
  <2>3. OwnOK'
    BY <1>2, <1>3, <1>4, <2>1, <2>2
    DEF OwnOK, OwnAreSent, OwnAreDistinct, AcceptedAreConfigured, Sent
  <2>4. Counted({})'
    BY <2>1, FS_EmptySet DEF Counted, Uncounted
  <2> QED
    BY <1>1, <2>3, <2>4 DEF Invariant, CountOK
<1>7. CASE Idle(Vehicle)
  <2>1. requests' = requests /\ UNCHANGED history
    BY <1>2, <1>7 DEF Idle, vars, Poll, Begun, Written, Requested
  <2> QED
    BY <1>1, <1>2, <1>7, <2>1, FewerFrames DEF Idle, vars, history, Invariant
<1>8. CASE Request(Vehicle)
  <2>1. /\ UNCHANGED <<setups, miscounted, phase, current_request>>
        /\ phase = "configuring" /\ awaiting_ack'
        /\ current_request \in Nat
    BY <1>8
    DEF Request, Configuring, Poll, Begun, history, Invariant, LinkTypeOK,
        TypeOK
  <2>2. /\ \A frame : OwnRequest(frame) => frame.stream # current_request
        /\ \A answer : OwnAnswer(answer) => answer.frame.stream # current_request
    <3>1. CASE ~awaiting_ack
      BY <2>1, <3>1
      DEF Invariant, OwnOK, OwnAreSent, OwnRequest, OwnAnswer, Sent
    <3>2. CASE awaiting_ack
      BY <1>8, <2>1, <3>2
      DEF Request, Invariant, LinkOK, LinkTypeOK, Quiet, OwnRequest, OwnAnswer
    <3> QED
      BY <3>1, <3>2
  <2>3. /\ \A frame : OwnRequest(frame)' =>
                       OwnRequest(frame) \/ frame \in Written(sent)
        /\ \A answer : OwnAnswer(answer)' <=> OwnAnswer(answer)
        /\ \A stream : Sent(stream) => Sent(stream)'
    BY <1>2, <2>1 DEF OwnRequest, OwnAnswer, Final, Sent
  <2>4. OwnAreSent'
    BY <1>2, <1>3, <2>1, <2>3
    DEF Invariant, OwnOK, OwnAreSent, OwnRequest, OwnAnswer, Sent
  <2>5. OwnAreDistinct'
    BY <1>2, <1>3, <1>4, <2>1, <2>2, <2>3
    DEF Invariant, OwnOK, OwnAreDistinct, OwnRequest, OwnAnswer
  <2>6. AcceptedAreConfigured'
    BY <1>2, <2>1, <2>3 DEF Invariant, OwnOK, AcceptedAreConfigured
  <2>7. \A streams : Counted(streams) => Counted(streams)'
    BY <1>2, <1>3, <2>1, <2>3 DEF Counted, Uncounted, OwnRequest, OwnAnswer
  <2> QED
    BY <1>1, <1>2, <2>1, <2>4, <2>5, <2>6, <2>7 DEF Invariant, OwnOK, CountOK
<1> QED
  BY <1>5, <1>6, <1>7, <1>8 DEF Poll, Update

-----------------------------------------------------------------------------
(***************************************************************************)
(* An acknowledgement arrives.  One of this setup that is counted is for a *)
(* stream not counted before; one of an earlier setup is miscounted; one   *)
(* of progress changes no more than the deadlines.                         *)
(***************************************************************************)
LEMMA ReceiveLink ==
  ASSUME Invariant, NEW answer \in answers, ReceiveAck(answer)
  PROVE  LinkTypeOK' /\ LinkOK' /\ PhaseOK'
<1>1. /\ OnCommandAck(answer.outcome, Vehicle)
      /\ answers' = answers \ {answer} /\ polling' = TRUE
      /\ UNCHANGED <<connected, requests, configured, setups>>
      /\ link_deadline' = IF answer.outcome = "in_progress"
                          THEN AckTimeout ELSE link_deadline
      /\ miscounted' \in Nat
  BY DEF ReceiveAck, Invariant, LinkTypeOK
<1>2. /\ TypeOK' /\ PhaseOK'
      /\ phase' = "configuring" /\ awaiting_ack' =>
           link_deadline' <= acknowledgement_deadline'
  <2>1. CASE AckAccepted(Vehicle)
    <3>1. /\ current_request' = current_request + 1 /\ attempt' = 0
          /\ awaiting_ack' = FALSE
          /\ phase' = IF current_request' = Streams
                      THEN "active" ELSE "configuring"
          /\ UNCHANGED <<vehicle_system_id, acknowledgement_deadline>>
          /\ phase = "configuring"
      BY <2>1 DEF AckAccepted, AckMatches
    <3>2. current_request \in 0..(Streams - 1)
      BY <3>1, Limits DEF Invariant, PhaseOK, LinkTypeOK, TypeOK
    <3>3. current_request' \in 0..Streams /\ attempt' \in 0..MaximumAttempts
      BY <3>1, <3>2, Limits
    <3>4. phase' \in Phases /\ awaiting_ack' \in BOOLEAN
      BY <3>1 DEF Phases
    <3>5. TypeOK'
      BY <3>1, <3>3, <3>4 DEF Invariant, LinkTypeOK, TypeOK
    <3>6. PhaseOK'
      BY <3>1, <3>2, Limits DEF Invariant, PhaseOK
    <3> QED
      BY <3>1, <3>5, <3>6
  <2>2. CASE AckInProgress(Vehicle) /\ answer.outcome = "in_progress"
    BY <1>1, <2>2, Limits
    DEF AckInProgress, Invariant, LinkTypeOK, TypeOK, PhaseOK
  <2>3. CASE AckRejected(Vehicle)
    BY <2>3
    DEF AckRejected, AckMatches, Invariant, LinkTypeOK, TypeOK, Phases, PhaseOK
  <2>4. CASE AckIgnored(Vehicle)
    <3>1. ~(phase = "configuring" /\ awaiting_ack)
      BY <2>4 DEF AckIgnored, AckMatches, Invariant, PhaseOK
    <3> QED
      BY <2>4, <3>1
      DEF AckIgnored, vars, Invariant, LinkTypeOK, TypeOK, PhaseOK
  <2> QED
    BY <1>1, <2>1, <2>2, <2>3, <2>4 DEF OnCommandAck
<1>3. link_deadline' \in 0..AckTimeout /\ answers' \subseteq answers
  BY <1>1, Limits DEF Invariant, LinkTypeOK
<1>4. LinkTypeOK'
  BY <1>1, <1>2, <1>3 DEF Invariant, LinkTypeOK
<1>5. /\ \A frame \in requests' : frame.setup <= setups'
      /\ \A one \in answers' : one.frame.setup <= setups'
      /\ link_deadline' = 0 => Quiet'
  BY <1>1, <1>3, Limits DEF Invariant, LinkOK, Quiet
<1> QED
  BY <1>2, <1>4, <1>5 DEF LinkOK

LEMMA ReceiveInvariant ==
  ASSUME Invariant, NEW answer \in answers, ReceiveAck(answer)
  PROVE  Invariant'
<1>1. /\ OnCommandAck(answer.outcome, Vehicle)
      /\ answers' = answers \ {answer}
      /\ UNCHANGED <<connected, requests, configured, setups>>
      /\ miscounted' = IF Miscounts(answer) THEN miscounted + 1 ELSE miscounted
  BY DEF ReceiveAck
<1>2. LinkTypeOK' /\ LinkOK' /\ PhaseOK'
  BY ReceiveLink
<1>3. /\ \A frame : OwnRequest(frame)' <=> OwnRequest(frame)
      /\ \A other : OwnAnswer(other)' <=> OwnAnswer(other) /\ other # answer
  BY <1>1 DEF OwnRequest, OwnAnswer, Final
<1>4. CASE AckAccepted(Vehicle) /\ answer.outcome = "accepted"
  <2>1. /\ AckMatches(Vehicle) /\ phase = "configuring"
        /\ current_request' = current_request + 1 /\ awaiting_ack' = FALSE
        /\ current_request \in 0..(Streams - 1) /\ miscounted \in Nat
        /\ requests \subseteq Frames
        /\ answers \subseteq [frame: Frames, outcome: AckOutcomes]
    BY <1>4, Limits
    DEF AckAccepted, AckMatches, Invariant, PhaseOK, LinkTypeOK, TypeOK
  <2>2. OwnOK'
    <3>1. /\ \A frame \in requests : Sent(frame.stream) => Sent(frame.stream)'
          /\ \A other \in answers :
               Sent(other.frame.stream) => Sent(other.frame.stream)'
      BY <2>1 DEF Sent, Frames
    <3>2. OwnAreSent'
      BY <1>1, <1>3, <2>1, <3>1 DEF Invariant, OwnOK, OwnAreSent
    <3>3. OwnAreDistinct' /\ AcceptedAreConfigured'
      BY <1>1, <1>3, <2>1
      DEF Invariant, OwnOK, OwnAreDistinct, AcceptedAreConfigured
    <3> QED
      BY <3>2, <3>3 DEF OwnOK
  <2>3. ASSUME connected
        PROVE  \E streams \in SUBSET configured : Counted(streams)'
    <3>1. PICK streams \in SUBSET configured : Counted(streams)
      BY <2>1, <2>3 DEF Invariant, CountOK
    <3>2. /\ streams \subseteq 0..(current_request - 1) /\ Uncounted(streams)
          /\ Cardinality(streams) = current_request - miscounted
      BY <2>1, <3>1 DEF Counted
    <3>3. CASE answer.frame.setup # setups
      <4>1. miscounted' = miscounted + 1
        BY <1>1, <1>4, <2>1, <3>3 DEF Miscounts
      <4>2. Counted(streams)'
        BY <1>1, <1>3, <2>1, <3>1, <3>2, <4>1 DEF Counted, Uncounted
      <4> QED
        BY <4>2
    <3>4. CASE answer.frame.setup = setups
      <4> DEFINE stream == answer.frame.stream
      <4>1. OwnAnswer(answer) /\ miscounted' = miscounted
        BY <1>1, <1>4, <3>4 DEF OwnAnswer, Final, Miscounts
      <4>2. /\ stream \in configured /\ stream \notin streams
            /\ stream \in 0..current_request
        BY <1>4, <2>1, <2>3, <3>2, <4>1
        DEF Invariant, OwnOK, AcceptedAreConfigured, OwnAreSent, Sent,
            Uncounted, Frames
      <4>3. Cardinality(streams \cup {stream}) = Cardinality(streams) + 1
        <5>1. current_request - 1 \in Int
          BY <2>1
        <5>2. IsFiniteSet(0..(current_request - 1))
          BY <5>1, FS_Interval
        <5>3. IsFiniteSet(streams)
          BY <3>2, <5>2, FS_Subset
        <5> QED
          BY <4>2, <5>3, FS_AddElement
      <4>4. streams \cup {stream} \subseteq 0..(current_request' - 1)
        <5>1. /\ current_request' - 1 = current_request
              /\ 0..(current_request - 1) \subseteq 0..current_request
          BY <2>1
        <5> QED
          BY <3>2, <4>2, <5>1
      <4>5. Uncounted(streams \cup {stream})'
        <5>1. \A frame \in requests : OwnRequest(frame) => frame.stream # stream
          BY <2>1, <4>1 DEF Invariant, OwnOK, OwnAreDistinct
        <5>2. \A other \in answers : OwnAnswer(other) /\ other # answer =>
                 other.frame.stream # stream
          BY <2>1, <4>1 DEF Invariant, OwnOK, OwnAreDistinct
        <5> QED
          BY <1>1, <1>3, <3>2, <5>1, <5>2 DEF Uncounted
      <4>6. Counted(streams \cup {stream})'
        BY <1>1, <2>1, <3>2, <4>1, <4>2, <4>3, <4>4, <4>5 DEF Counted
      <4> QED
        BY <4>2, <4>6
    <3> QED
      BY <3>3, <3>4
  <2> QED
    BY <1>1, <1>2, <2>2, <2>3 DEF Invariant, CountOK
<1>5. CASE AckRejected(Vehicle)
  BY <1>2, <1>5 DEF AckRejected, Invariant, OwnOK, CountOK
<1>6. CASE ~Miscounts(answer) /\ (AckInProgress(Vehicle) \/ AckIgnored(Vehicle))
  BY <1>1, <1>2, <1>6, FewerFrames
  DEF AckInProgress, AckIgnored, vars, Invariant
<1>7. AckIgnored(Vehicle) \/ answer.outcome = "in_progress" => ~Miscounts(answer)
  BY DEF AckIgnored, Miscounts
<1> QED
  BY <1>1, <1>4, <1>5, <1>6, <1>7 DEF OnCommandAck

-----------------------------------------------------------------------------
(***************************************************************************)
(* The flight controller answers; the link loses; the heartbeat comes and  *)
(* goes; the clock ticks.                                                  *)
(***************************************************************************)
LEMMA AnswerInvariant ==
  ASSUME Invariant, NEW frame \in requests, NEW outcome \in AckOutcomes,
         Answer(frame, outcome)
  PROVE  Invariant'
<1> DEFINE answer == [frame |-> frame, outcome |-> outcome]
<1>1. /\ answers' = answers \cup {answer}
      /\ requests' = IF outcome = "in_progress" THEN requests
                     ELSE requests \ {frame}
      /\ configured' = IF outcome = "accepted"
                       THEN configured \cup {frame.stream} ELSE configured
      /\ UNCHANGED <<vars, connected, polling, link_deadline, setups,
                     miscounted>>
  BY DEF Answer, history
<1>2. frame \in Frames
  BY DEF Invariant, LinkTypeOK
<1>3. LinkTypeOK' /\ PhaseOK' /\ LinkOK'
  <2>1. answers' \subseteq [frame: Frames, outcome: AckOutcomes]
    BY <1>1, <1>2 DEF Invariant, LinkTypeOK
  <2>2. requests' \subseteq Frames /\ configured' \subseteq 0..Streams - 1
    BY <1>1, <1>2 DEF Invariant, LinkTypeOK, Frames
  <2>3. LinkTypeOK' /\ PhaseOK'
    BY <1>1, <2>1, <2>2 DEF vars, Invariant, LinkTypeOK, TypeOK, PhaseOK
  <2>4. LinkOK'
    BY <1>1 DEF vars, Invariant, LinkOK, Quiet
  <2> QED
    BY <2>3, <2>4
<1>4. /\ \A one \in requests' :
           one \in requests /\ (OwnRequest(one)' => OwnRequest(one))
      /\ \A one : OwnAnswer(one)' =>
           \/ OwnAnswer(one)
           \/ /\ one = answer /\ OwnRequest(frame) /\ Final(answer)
              /\ ~OwnRequest(frame)'
  BY <1>1 DEF OwnRequest, OwnAnswer, Final
<1>5. OwnOK'
  <2> SUFFICES ASSUME phase = "configuring"
               PROVE  OwnAreSent' /\ OwnAreDistinct' /\ AcceptedAreConfigured'
    BY <1>1 DEF OwnOK, vars
  <2>1. \A stream : Sent(stream)' <=> Sent(stream)
    BY <1>1 DEF Sent, vars
  <2>2. OwnAreSent'
    <3>1. \A one \in requests : OwnRequest(one) => Sent(one.stream)
      BY DEF Invariant, OwnOK, OwnAreSent
    <3>2. \A one \in answers : OwnAnswer(one) => Sent(one.frame.stream)
      BY DEF Invariant, OwnOK, OwnAreSent
    <3> QED
      BY <1>4, <2>1, <3>1, <3>2 DEF OwnAreSent, OwnAnswer
  <2>3. /\ \A one, other \in requests' :
             /\ OwnRequest(one)' /\ OwnRequest(other)'
             /\ one.stream = other.stream
             => one = other
        /\ \A one \in requests', other \in answers' :
             OwnRequest(one)' /\ OwnAnswer(other)' =>
               one.stream # other.frame.stream
    <3>1. \A one \in requests' :
            OwnRequest(one)' /\ OwnAnswer(answer)' /\ ~OwnAnswer(answer) =>
              one.stream # frame.stream
      BY <1>4 DEF Invariant, OwnOK, OwnAreDistinct
    <3> QED
      BY <1>4, <3>1 DEF Invariant, OwnOK, OwnAreDistinct, OwnAnswer
  <2>4. \A one, other \in answers' :
          /\ OwnAnswer(one)' /\ OwnAnswer(other)'
          /\ one.frame.stream = other.frame.stream
          => one = other
    BY <1>4 DEF Invariant, OwnOK, OwnAreDistinct, OwnAnswer
  <2>5. AcceptedAreConfigured'
    BY <1>1, <1>4 DEF Invariant, OwnOK, AcceptedAreConfigured, OwnAnswer
  <2> QED
    BY <2>2, <2>3, <2>4, <2>5 DEF OwnAreDistinct
<1>6. \A streams : Counted(streams) => Counted(streams)'
  <2> SUFFICES ASSUME NEW streams, Counted(streams) PROVE Counted(streams)'
    OBVIOUS
  <2>1. Uncounted(streams) => Uncounted(streams)'
    BY <1>4 DEF Uncounted, OwnAnswer
  <2> QED
    BY <1>1, <2>1 DEF Counted, vars
<1>7. CountOK'
  BY <1>1, <1>6 DEF Invariant, CountOK, vars
<1> QED
  BY <1>3, <1>5, <1>7 DEF Invariant

LEMMA LossInvariant ==
  ASSUME Invariant, requests' \subseteq requests, answers' \subseteq answers,
         UNCHANGED <<vars, connected, polling, configured, link_deadline,
                     history>>
  PROVE  Invariant'
<1>1. LinkTypeOK' /\ PhaseOK' /\ LinkOK'
  BY DEF vars, history, Invariant, LinkTypeOK, TypeOK, PhaseOK, LinkOK, Quiet
<1> QED
  BY <1>1, FewerFrames DEF vars, history, Invariant

LEMMA ConnectInvariant ==
  ASSUME Invariant, Connect
  PROVE  Invariant'
<1>1. LinkTypeOK' /\ PhaseOK' /\ LinkOK'
  BY DEF Connect, vars, history, Invariant, LinkTypeOK, TypeOK, PhaseOK,
         LinkOK, Quiet
<1> QED
  BY <1>1 DEF Connect, vars, Invariant, OwnOK, CountOK

LEMMA DisconnectInvariant ==
  ASSUME Invariant, Disconnect
  PROVE  Invariant'
<1>1. LinkTypeOK' /\ PhaseOK' /\ LinkOK'
  BY DEF Disconnect, vars, history, Invariant, LinkTypeOK, TypeOK, PhaseOK,
         LinkOK, Quiet
<1>2. OwnAreSent /\ OwnAreDistinct => OwnAreSent' /\ OwnAreDistinct'
  BY DEF Disconnect, vars, history, OwnAreSent, OwnAreDistinct, Sent,
         OwnRequest,
         OwnAnswer, Final
<1>3. AcceptedAreConfigured' /\ CountOK'
  BY DEF Disconnect, AcceptedAreConfigured, CountOK
<1> QED
  BY <1>1, <1>2, <1>3 DEF Disconnect, vars, Invariant, OwnOK

LEMMA TickInvariant ==
  ASSUME PromptLink, Invariant, ClockTick
  PROVE  Invariant'
<1>1. /\ acknowledgement_deadline \in 0..AckTimeout
      /\ link_deadline \in 0..AckTimeout
      /\ acknowledgement_deadline' = IF acknowledgement_deadline > 0
           THEN acknowledgement_deadline - 1 ELSE 0
      /\ link_deadline' = IF link_deadline > 0 THEN link_deadline - 1 ELSE 0
      /\ link_deadline = 1 => Quiet
      /\ UNCHANGED <<phase, vehicle_system_id, current_request, attempt,
                     awaiting_ack, connected, polling, requests, answers,
                     configured, setups, miscounted>>
  BY DEF ClockTick, Tick, history, Invariant, LinkTypeOK, TypeOK, Quiet
<1>2. LinkTypeOK' /\ PhaseOK'
  BY <1>1, Limits DEF Invariant, LinkTypeOK, TypeOK, PhaseOK
<1>3. link_deadline' = 0 => Quiet'
  BY <1>1, Limits DEF Invariant, LinkOK, Quiet
<1>4. LinkOK'
  BY <1>1, <1>3, Limits DEF Invariant, LinkOK
<1> QED
  BY <1>1, <1>2, <1>4, FewerFrames DEF Invariant

LEMMA StepInvariant ==
  ASSUME PromptLink
  PROVE  Invariant /\ [LinkNext]_all_vars => Invariant'
<1> SUFFICES ASSUME Invariant, [LinkNext]_all_vars PROVE Invariant'
  OBVIOUS
<1>1. CASE PollStep
  BY <1>1, PollInvariant DEF PollStep
<1>2. CASE ReceiveStep
  BY <1>2, ReceiveInvariant DEF ReceiveStep
<1>3. CASE AnswerStep
  BY <1>3, AnswerInvariant DEF AnswerStep
<1>4. CASE LoseRequest
  BY <1>4, LossInvariant DEF LoseRequest
<1>5. CASE LoseAnswer
  BY <1>5, LossInvariant DEF LoseAnswer
<1>6. CASE Connect
  BY <1>6, ConnectInvariant
<1>7. CASE Disconnect
  BY <1>7, DisconnectInvariant
<1>8. CASE ClockTick
  BY <1>8, TickInvariant
<1>9. CASE UNCHANGED all_vars
  BY <1>9, LossInvariant DEF all_vars, link_vars
<1> QED
  BY <1>1, <1>2, <1>3, <1>4, <1>5, <1>6, <1>7, <1>8, <1>9 DEF LinkNext

(***************************************************************************)
(* SetupInvariant: on a link that holds no frame longer than the           *)
(* acknowledgement timeout, over any number of reconnections that find     *)
(* frames of earlier setups on it, a setup that is reported active lacks   *)
(* at most one stream for each old acknowledgement it counted; without     *)
(* one, the flight controller has accepted the request for every stream.   *)
(***************************************************************************)
THEOREM SetupCorrect ==
  ASSUME PromptLink
  PROVE  LinkSpec => []SetupInvariant
<1>1. Invariant => SetupInvariant
  <2> SUFFICES ASSUME Invariant, phase = "active", connected
               PROVE  Cardinality(configured) >= Streams - miscounted
    BY DEF Invariant, SetupInvariant, ActiveMeansConfigured
  <2>1. PICK streams \in SUBSET configured : Counted(streams)
    BY DEF Invariant, CountOK
  <2>2. Cardinality(streams) = Streams - miscounted
    BY <2>1 DEF Counted, Invariant, PhaseOK
  <2>3. IsFiniteSet(configured)
    <3>1. IsFiniteSet(0..Streams - 1) /\ configured \subseteq 0..Streams - 1
      BY Limits, FS_Interval DEF Invariant, LinkTypeOK
    <3> QED
      BY <3>1, FS_Subset
  <2>4. Cardinality(streams) <= Cardinality(configured)
    BY <2>3, FS_Subset
  <2> QED
    BY <2>2, <2>4
<1> QED
  BY <1>1, InitInvariant, StepInvariant, PTL DEF LinkSpec
=============================================================================
