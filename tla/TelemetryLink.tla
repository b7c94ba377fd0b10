---------------------------- MODULE TelemetryLink ----------------------------
(***************************************************************************)
(* TelemetryStreamConfigurator, one flight controller and the link between *)
(* them.  The link loses frames and delays them; each request frame is     *)
(* processed at most once and answered by at most one acknowledgement for  *)
(* each time it is processed, after any number of "in progress" ones.      *)
(*                                                                         *)
(* The setup, the stream and the attempt an acknowledgement answers are    *)
(* recorded with it for the properties only: the companion does not see    *)
(* them, and nothing that is on the link goes when the heartbeat does.  A  *)
(* link that is PromptLink holds no frame longer than the acknowledgement  *)
(* timeout, counted from the last request or report of progress.           *)
(***************************************************************************)
EXTENDS TelemetryStreamConfigurator, FiniteSets

CONSTANTS PromptLink,
          AckOutcomes,  \* the outcomes the flight controller answers with
          MaxSetups     \* bound of the model: setups begun

ASSUME LinkAssumption ==
  /\ PromptLink \in BOOLEAN
  /\ AckOutcomes \subseteq {"accepted", "in_progress", "rejected"}
  /\ MaxSetups \in Nat
  /\ Systems # {}

VARIABLES
  connected,      \* the heartbeat is fresh at the next poll
  polling,        \* acknowledgements of this poll were already handled
  requests,       \* request frames on their way to the flight controller
  answers,        \* acknowledgements on their way back
  configured,     \* the streams the flight controller sends as requested
  link_deadline,  \* ticks within which a prompt link is empty again
  setups,         \* how many setups were begun
  miscounted      \* acknowledgements of an earlier setup counted in this one

history == <<setups, miscounted>>

link_vars ==
  <<connected, polling, requests, answers, configured, link_deadline, history>>

all_vars == <<vars, link_vars>>

Vehicle == CHOOSE system \in Systems : TRUE

Frames == [setup: Nat, stream: 0..Streams - 1, attempt: 1..MaximumAttempts]

LinkInit ==
  /\ Init
  /\ connected = FALSE
  /\ polling = FALSE
  /\ requests = {}
  /\ answers = {}
  /\ configured = {}
  /\ link_deadline = 0
  /\ setups = 0
  /\ miscounted = 0

(***************************************************************************)
(* The end of a poll; sent is the outcome of write_frame.                  *)
(***************************************************************************)
Begun == vehicle_system_id' \notin {vehicle_system_id, NoSystem}

Written(sent) ==
  {[setup |-> setups', stream |-> stream, attempt |-> attempt'] :
     stream \in IF sent THEN Requested ELSE {}}

Poll(sent) ==
  /\ Update(connected, Vehicle)
  /\ polling' = FALSE
  /\ IF Begun THEN setups' = setups + 1 /\ miscounted' = 0
              ELSE UNCHANGED history
  /\ requests' = requests \cup Written(sent)
  /\ link_deadline' = IF Written(sent) # {} THEN AckTimeout ELSE link_deadline
  /\ UNCHANGED <<connected, answers, configured>>

(***************************************************************************)
(* An acknowledgement is handled, and nothing tells the configurator which *)
(* setup it belongs to.                                                    *)
(***************************************************************************)
Miscounts(answer) ==
  /\ AckMatches(Vehicle)
  /\ answer.outcome = "accepted"
  /\ answer.frame.setup # setups

ReceiveAck(answer) ==
  /\ OnCommandAck(answer.outcome, Vehicle)
  /\ polling' = TRUE
  /\ answers' = answers \ {answer}
  /\ link_deadline' = IF answer.outcome = "in_progress"
                        THEN AckTimeout ELSE link_deadline
  /\ miscounted' = IF Miscounts(answer) THEN miscounted + 1 ELSE miscounted
  /\ UNCHANGED <<connected, requests, configured, setups>>

(***************************************************************************)
(* The flight controller handles a request: it may report progress first.  *)
(***************************************************************************)
Answer(frame, outcome) ==
  /\ ~polling
  /\ answers' = answers \cup {[frame |-> frame, outcome |-> outcome]}
  /\ requests' = IF outcome = "in_progress"
                   THEN requests ELSE requests \ {frame}
  /\ configured' = IF outcome = "accepted"
                     THEN configured \cup {frame.stream} ELSE configured
  /\ UNCHANGED <<vars, connected, polling, link_deadline, history>>

LoseRequest ==
  /\ ~polling
  /\ \E frame \in requests : requests' = requests \ {frame}
  /\ UNCHANGED <<vars, connected, polling, answers, configured,
                 link_deadline, history>>

LoseAnswer ==
  /\ ~polling
  /\ \E answer \in answers : answers' = answers \ {answer}
  /\ UNCHANGED <<vars, connected, polling, requests, configured,
                 link_deadline, history>>

(***************************************************************************)
(* The heartbeat comes and goes; the flight controller may have rebooted   *)
(* meanwhile.  What is on the link stays there, for a quick reconnection   *)
(* to find.  The loop polls every few milliseconds, so it notices a        *)
(* heartbeat that was stale before the next one arrives.                   *)
(***************************************************************************)
Connect ==
  /\ ~polling /\ ~connected
  /\ phase = "waiting_for_vehicle"
  /\ setups < MaxSetups
  /\ connected' = TRUE
  /\ UNCHANGED <<vars, polling, requests, answers, configured, link_deadline,
                 history>>

Disconnect ==
  /\ ~polling /\ connected
  /\ connected' = FALSE
  /\ configured' \in {configured, {}}
  /\ UNCHANGED <<vars, polling, requests, answers, link_deadline, history>>

ClockTick ==
  /\ ~polling
  /\ PromptLink /\ link_deadline = 1 => requests = {} /\ answers = {}
  /\ Tick
  /\ link_deadline' = IF link_deadline > 0 THEN link_deadline - 1 ELSE 0
  /\ UNCHANGED <<connected, polling, requests, answers, configured, history>>

PollStep == \E sent \in BOOLEAN : Poll(sent)

AnswerStep ==
  \E frame \in requests, outcome \in AckOutcomes : Answer(frame, outcome)

ReceiveStep == \E answer \in answers : ReceiveAck(answer)

LinkNext ==
  \/ PollStep
  \/ ReceiveStep
  \/ AnswerStep
  \/ LoseRequest
  \/ LoseAnswer
  \/ Connect
  \/ Disconnect
  \/ ClockTick

LinkSpec == LinkInit /\ [][LinkNext]_all_vars

(***************************************************************************)
(* The loop polls and the clock advances; nobody owes an answer, but a     *)
(* frame does not stay on the link for ever: it arrives or is lost.        *)
(***************************************************************************)
FairLinkSpec ==
  /\ LinkSpec
  /\ WF_all_vars(PollStep) /\ SF_all_vars(ClockTick)
  /\ SF_all_vars((AnswerStep /\ requests' # requests) \/ LoseRequest)
  /\ SF_all_vars(ReceiveStep \/ LoseAnswer)

-----------------------------------------------------------------------------
(***************************************************************************)
(* The type invariant.                                                     *)
(***************************************************************************)
LinkTypeOK ==
  /\ TypeOK
  /\ connected \in BOOLEAN
  /\ polling \in BOOLEAN
  /\ requests \subseteq Frames
  /\ answers \subseteq [frame: Frames, outcome: AckOutcomes]
  /\ configured \subseteq 0..Streams - 1
  /\ link_deadline \in 0..AckTimeout
  /\ setups \in Nat
  /\ miscounted \in Nat

(***************************************************************************)
(* Requests are sent one at a time so that an acknowledgement tells which  *)
(* stream was configured.  When the configurator reports its setup active, *)
(* the flight controller has accepted the request for every stream but at  *)
(* most one for each acknowledgement that a setup before left on the link  *)
(* and that was counted in this one: on_command_ack cannot tell it from an *)
(* answer to the request that is outstanding.                              *)
(***************************************************************************)
ActiveMeansConfigured ==
  phase = "active" /\ connected =>
    Cardinality(configured) >= Streams - miscounted

(***************************************************************************)
(* Both: what is known of the configurator on its link at any moment.      *)
(***************************************************************************)
SetupInvariant ==
  /\ LinkTypeOK
  /\ ActiveMeansConfigured

(***************************************************************************)
(* The setup of a vehicle that stays connected ends, active or failed: the *)
(* attempts are bounded, whatever the link loses.  Only a flight           *)
(* controller that reports progress for ever can hold it up.               *)
(***************************************************************************)
ProgressRenews ==
  polling' /\ acknowledgement_deadline' > acknowledgement_deadline

ProgressStops == <>[][~ProgressRenews]_all_vars

SetupEnds ==
  ProgressStops /\ <>[]connected => <>[](phase \in {"active", "failed"})
=============================================================================
