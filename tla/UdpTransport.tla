----------------------------- MODULE UdpTransport -----------------------------
(***************************************************************************)
(* UdpTransport: a bound socket that answers whoever sent last.  An error  *)
(* of the socket is an exception, which ends the process.                  *)
(***************************************************************************)
NoPeer == "nobody"

(***************************************************************************)
(* read: nothing (or interrupted), a datagram of some sender, or an error. *)
(***************************************************************************)
UdpRead(peer, outcome) ==
  IF outcome.kind = "datagram" THEN outcome.sender ELSE peer

UdpReadOutcomes(senders) ==
  {[kind |-> "quiet"], [kind |-> "error"]}
    \cup {[kind |-> "datagram", sender |-> sender] : sender \in senders}

(***************************************************************************)
(* write: nowhere while nobody was heard, else the whole datagram.         *)
(***************************************************************************)
UdpWriteOutcomes(peer) ==
  IF peer = NoPeer THEN {"none"} ELSE {"written", "error"}
=============================================================================
