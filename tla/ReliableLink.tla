---------------------------- MODULE ReliableLink ----------------------------
(***************************************************************************)
(* What the OmniXtend link layer promises its users, stated without frames,*)
(* sequence numbers, acknowledgements or resends: each direction is a FIFO *)
(* of TileLink messages; the sender appends batches, the receiver is       *)
(* handed, in batches, a growing prefix of what was appended, each message *)
(* exactly once and in order.                                              *)
(*                                                                         *)
(*   sent[d]       everything the sender of direction d put into the link  *)
(*   delivered[d]  everything the receiver of direction d was handed       *)
(***************************************************************************)
EXTENDS Sequences, SequencesExt

CONSTANTS Dirs, Msgs

VARIABLES sent, delivered

vars == <<sent, delivered>>

TypeOK ==
    /\ sent \in [Dirs -> Seq(Msgs)]
    /\ delivered \in [Dirs -> Seq(Msgs)]

Init ==
    /\ sent = [d \in Dirs |-> <<>>]
    /\ delivered = [d \in Dirs |-> <<>>]

\* The sender of direction d may append messages ...
Send(d) == IsPrefix(sent[d], sent'[d])

\* ... and its receiver may be handed the next messages, in order, among
\* those appended so far.
Deliver(d) ==
    /\ IsPrefix(delivered[d], delivered'[d])
    /\ IsPrefix(delivered'[d], sent'[d])

\* One step may move both directions: the endpoint queues the responses to
\* the requests it is handed in the same step.
Next == \A d \in Dirs : Send(d) /\ Deliver(d)

Spec == Init /\ [][Next]_vars

=============================================================================
