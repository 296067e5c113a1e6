------------------------------- MODULE OxLink -------------------------------
(***************************************************************************)
(* One OmniXtend connection: the host side of omnixtend-rs (Connection,    *)
(* the operations dispatcher's perform(), the tick engine's send and       *)
(* resend paths, process_packet() on receive, close_connection()) talking  *)
(* over a lossy Ethernet link to an OmniXtend endpoint.                    *)
(*                                                                         *)
(* The host is translated from the source.  The endpoint is the FPGA side *)
(* of the protocol, which is not part of src/: it is modelled from the     *)
(* protocol description (accept the expected sequence number, NAK a gap,   *)
(* drop duplicates, echo Open/Close, answer each Get with AccessAckData,   *)
(* return credits, resend its unacknowledged frames).                      *)
(*                                                                         *)
(* Data is abstracted: a TileLink message is a record of the request it    *)
(* belongs to, its channel and its size in flits; a frame is a record of   *)
(* its OmniXtend header fields and its messages.                           *)
(***************************************************************************)
EXTENDS Naturals, Sequences, SequencesExt, SequenceNumber, Credits

CONSTANTS
    Reqs,            \* the perform() calls of the application (model values)
    CompatMode,      \* Connection::compat_mode
    DefaultCredits,  \* 128: Connection::new() credits_send when not compat
    RecvCredits,     \* 1 << 28: Connection::new() credits_receive
    ReadFlits,       \* data flits of an AccessAckData (1 << size / 8)
    MaskWidth,       \* 64: bits of the start-of-message mask trailer
    EthernetMax,     \* 9000: put_messages() ethernet_max, in bytes
    CloseTimeout,    \* whether close_connection() was given a timeout
    MaxLoss,         \* frames the link may lose in one behaviour
    None,            \* Option::None: an empty packet_data slot, no echo
    EpAckOnly        \* whether the endpoint sends AckOnly frames

ASSUME /\ {CompatMode, CloseTimeout, EpAckOnly} \subseteq BOOLEAN
       /\ {DefaultCredits, RecvCredits, ReadFlits, MaskWidth} \subseteq Nat \ {0}
       /\ EthernetMax \in Nat /\ MaxLoss \in Nat

\* OmnixtendChannel numbers (tilelink_messages.rs).
ChanA == 1
ChanD == 4

ASSUME {ChanA, ChanD} \subseteq Chans

\* Ethernet (14) + OmniXtend (8) header, plus the 8-byte mask trailer:
\* the packet_len put_messages() starts from.
HeaderBytes == 14 + 8 + 8

CStates == {"Idle", "Enabled", "Opened", "Active",
            "ClosedByHost", "ClosedByHostIndicated", "ClosedByClient"}
MsgTypes == {"Normal", "AckOnly", "Open", "Close"}

\* A Get (TLOperations::Read) costs (A, 2) in credits() and is two flits
\* long; its AccessAckData costs (D, 1 + read_flits) in handle_chan_d().
Req(r)  == [id |-> r, chan |-> ChanA, flits |-> 2]
Resp(r) == [id |-> r, chan |-> ChanD, flits |-> 1 + ReadFlits]
Msgs == {Req(r) : r \in Reqs} \cup {Resp(r) : r \in Reqs}

Grants == {<<0, 0>>} \cup (Chans \X (0 .. Log2Floor(RecvCredits + DefaultCredits)))

Frames == [seq : SeqNums, seqAck : SeqNums, ack : BOOLEAN, type : MsgTypes,
           grant : Grants, msgs : Seq(Msgs)]

Dirs == {"toEp", "toHost"}

VARIABLES
    \* Connection (connection.rs)
    cstate,            \* connection_state
    nextRx, lastRx,    \* next_rx_seq, last_rx_seq
    nextTx,            \* next_tx_seq
    theyAcked, weAcked, firstInResend,
    resendBuffer,      \* resend_buffer: frames sent, not yet acknowledged
    resendData,        \* resend_data: frames queued for retransmission
    packetData,        \* packet_data: the assembled frame not yet taken
    lastAckStatus, sendOutstanding, resendOutstanding,
    credSend,          \* credits_send: what the endpoint granted us
    credRecv,          \* credits_receive: what we may grant the endpoint
    \* Operations (operations.rs)
    ops,               \* operations_outstanding
    outstandingCntr,   \* outstanding_cntr
    completions,       \* operation_completions: sources with a result
    reqPc,             \* where each perform() call is
    \* Tick (tick.rs) and the application thread calling close
    tickPc, ackRequired, resendCooldown,
    closePc,
    rxPanicked,        \* the receive thread died in remove_from_resend()
    \* the endpoint
    epState, epNextRx, epLastRx, epNextTx, epAckStatus, epAckDue,
    epResend, epCredSend, epFree, epOut, epEcho,
    \* the Ethernet link, one FIFO per direction, and the losses so far
    toEp, toHost, losses,
    \* history: messages put into / handed out of the link per direction
    sentLog, dlvLog,
    numbered           \* frames each direction's sender has numbered so far

hostVars == <<cstate, nextRx, lastRx, nextTx, theyAcked, weAcked,
              firstInResend, resendBuffer, resendData, packetData,
              lastAckStatus, sendOutstanding, resendOutstanding,
              credSend, credRecv>>
opVars   == <<ops, outstandingCntr, completions, reqPc>>
appVars  == <<tickPc, ackRequired, resendCooldown, closePc, rxPanicked>>
epVars   == <<epState, epNextRx, epLastRx, epNextTx, epAckStatus, epAckDue,
              epResend, epCredSend, epFree, epOut, epEcho>>
netVars  == <<toEp, toHost, losses>>
logVars  == <<sentLog, dlvLog, numbered>>
vars == <<hostVars, opVars, appVars, epVars, netVars, logVars>>

-----------------------------------------------------------------------------
(* Helpers *)

\* Credits carried per channel by a sequence of messages.
FlitsOn(c, ms) == FoldLeft(LAMBDA n, m : IF m.chan = c THEN n + m.flits ELSE n, 0, ms)

\* add_receive_credits() for every message of a received payload.
AddMsgCredits(pool, ms) == FoldLeft(LAMBDA p, m : CreditsAdd(p, m.chan, m.flits), pool, ms)

\* space_in_packet() applied by put_messages()'s take_while: how many of the
\* messages at the head of ops fit, given the bytes used and the mask bits.
RECURSIVE FitCount(_, _, _)
FitCount(ms, len, maskCntr) ==
    IF ms = <<>> THEN 0
    ELSE LET bytes == 8 * Head(ms).flits IN
         IF maskCntr < MaskWidth /\ len + bytes < EthernetMax
         THEN 1 + FitCount(Tail(ms), len + bytes, maskCntr + Head(ms).flits)
         ELSE 0

\* Connection::ack_outstanding()
AckOutstanding == weAcked # lastRx

\* Connection::send_outstanding()
HostSendOutstanding == sendOutstanding \/ CreditsAny(credRecv)

\* A plausible bug: closing straight to Idle, without waiting for the
\* endpoint's Close in ClosedByHostIndicated.
SendTransitionSkipIndicated(s, outstanding) ==
    IF CompatMode THEN <<"Normal", s>>
    ELSE CASE s = "Enabled"                         -> <<"Open", "Opened">>
           [] s = "ClosedByHost" /\ ~outstanding    -> <<"Close", "Idle">>
           [] s = "ClosedByClient" /\ ~outstanding  -> <<"Close", "Idle">>
           [] OTHER                                 -> <<"Normal", s>>

\* Connection::determine_connection_state(): the message type of the frame
\* being assembled and the connection state after it (compat mode: neither
\* changes).
SendTransition(s, outstanding) ==
    IF CompatMode THEN <<"Normal", s>>
    ELSE CASE s = "Enabled"                         -> <<"Open", "Opened">>
           [] s = "ClosedByHost" /\ ~outstanding    -> <<"Close", "ClosedByHostIndicated">>
           [] s = "ClosedByClient" /\ ~outstanding  -> <<"Close", "Idle">>
           [] OTHER                                 -> <<"Normal", s>>

\* Connection::set_connection_state_receive(): the state after receiving a
\* frame of type t in state s ...
StateOnReceive(s, t) ==
    IF CompatMode THEN s
    ELSE CASE t = "Open" /\ s = "Idle"                  -> "Active"
           [] t = "Close" /\ s = "ClosedByHostIndicated" -> "Idle"
           [] t = "Close"                                -> "ClosedByClient"
           [] s = "Opened"                               -> "Active"
           [] OTHER                                      -> s

\* ... and whether it raised send_outstanding (a close from the endpoint).
CloseFromClient(s, t) ==
    ~CompatMode /\ t = "Close" /\ s # "ClosedByHostIndicated"

-----------------------------------------------------------------------------
(* Initial state: Connection::new(), Operations::new(), Tick::new(), and   *)
(* an endpoint that has not seen a frame yet.                              *)

Init ==
    /\ cstate = "Idle"
    /\ nextRx = 0 /\ nextTx = 0
    /\ lastRx = SeqMax /\ theyAcked = SeqMax
    /\ weAcked = SeqMax /\ firstInResend = SeqMax
    /\ resendBuffer = <<>> /\ resendData = <<>> /\ packetData = None
    /\ lastAckStatus = FALSE /\ sendOutstanding = TRUE /\ resendOutstanding = FALSE
    /\ credSend = CreditsNew(IF CompatMode THEN 0 ELSE DefaultCredits)
    /\ credRecv = CreditsNew(RecvCredits)
    /\ ops = <<>> /\ outstandingCntr = 0 /\ completions = {}
    /\ reqPc = [r \in Reqs |-> "idle"]
    /\ tickPc = "send" /\ ackRequired = FALSE /\ resendCooldown = FALSE
    /\ closePc = "new" /\ rxPanicked = FALSE
    /\ epState = IF CompatMode THEN "Active" ELSE "Idle"
    /\ epNextRx = 0 /\ epLastRx = SeqMax /\ epNextTx = 0
    /\ epAckStatus = FALSE /\ epAckDue = FALSE /\ epResend = <<>> /\ epOut = <<>> /\ epEcho = None
    /\ epCredSend = CreditsNew(0)
    \* the endpoint's buffer space the host does not yet hold credits for
    /\ epFree = CreditsNew(IF CompatMode THEN DefaultCredits ELSE 0)
    /\ toEp = <<>> /\ toHost = <<>> /\ losses = 0
    /\ sentLog = [d \in Dirs |-> <<>>] /\ dlvLog = [d \in Dirs |-> <<>>]
    /\ numbered = [d \in Dirs |-> 0]

-----------------------------------------------------------------------------
(* The application: establish_connection(), perform() of a Get, close.   *)

\* Connection::establish_connection()
HostEstablish ==
    /\ closePc = "new"
    /\ closePc' = "open"
    /\ cstate' = IF cstate = "Idle"
                 THEN IF CompatMode THEN "Active" ELSE "Enabled"
                 ELSE cstate
    /\ UNCHANGED <<nextRx, lastRx, nextTx, theyAcked, weAcked, firstInResend,
                   resendBuffer, resendData, packetData, lastAckStatus,
                   sendOutstanding, resendOutstanding, credSend, credRecv>>
    /\ UNCHANGED <<opVars, tickPc, ackRequired, resendCooldown, rxPanicked,
                   epVars, netVars, logVars>>

\* Operations::perform(), up to get_credits(): outstanding_cntr.fetch_add,
\* get_source() (the pool of 255 tags outnumbers Reqs) and
\* create_operation() (a Get always packs).
PerformStart(r) ==
    /\ closePc # "new"
    /\ reqPc[r] = "idle"
    /\ reqPc' = [reqPc EXCEPT ![r] = "credits"]
    /\ outstandingCntr' = outstandingCntr + 1
    /\ UNCHANGED <<hostVars, ops, completions, appVars, epVars, netVars, logVars>>

\* Operations::get_credits(): the busy-wait ends when Credits::take() of
\* (A, 2) succeeds.
PerformCredits(r) ==
    /\ reqPc[r] = "credits"
    /\ CanTake(credSend, ChanA, Req(r).flits)
    /\ credSend' = CreditsTake(credSend, ChanA, Req(r).flits)
    /\ reqPc' = [reqPc EXCEPT ![r] = "push"]
    /\ UNCHANGED <<cstate, nextRx, lastRx, nextTx, theyAcked, weAcked,
                   firstInResend, resendBuffer, resendData, packetData,
                   lastAckStatus, sendOutstanding, resendOutstanding, credRecv>>
    /\ UNCHANGED <<ops, outstandingCntr, completions, appVars, epVars,
                   netVars, logVars>>

\* perform(): operations_outstanding.lock().push(op)
PerformPush(r) ==
    /\ reqPc[r] = "push"
    /\ ops' = Append(ops, Req(r))
    /\ sentLog' = [sentLog EXCEPT !["toEp"] = Append(@, Req(r))]
    /\ reqPc' = [reqPc EXCEPT ![r] = "wait"]
    /\ UNCHANGED <<hostVars, outstandingCntr, completions, appVars, epVars,
                   netVars, dlvLog, numbered>>

\* perform(): wait_for_response() receives the result of source r, the
\* source goes back to the pool and outstanding_cntr.fetch_sub; a Get has
\* no follow-up message (get_response() is None).
PerformReturn(r) ==
    /\ reqPc[r] = "wait"
    /\ r \in completions
    /\ completions' = completions \ {r}
    /\ outstandingCntr' = outstandingCntr - 1
    /\ reqPc' = [reqPc EXCEPT ![r] = "done"]
    /\ UNCHANGED <<hostVars, ops, appVars, epVars, netVars, logVars>>

-----------------------------------------------------------------------------
(* The tick engine (tick.rs): one call of Tick::tick() runs check_send()   *)
(* and then check_resend(); the receive thread may run between the two.   *)

\* A plausible bug: the header acknowledges next_rx instead of last_rx.
SendPacketAcksNext(outstanding) ==
    LET k     == FitCount(ops, HeaderBytes, 0)
        trans == SendTransition(cstate, outstanding)
        frame == [seq |-> nextTx, seqAck |-> nextRx, ack |-> lastAckStatus,
                  type |-> trans[1], grant |-> GrantOf(credRecv),
                  msgs |-> SubSeq(ops, 1, k)]
    IN /\ sendOutstanding' = FALSE
       /\ ops' = SubSeq(ops, k + 1, Len(ops))
       /\ cstate' = trans[2]
       /\ nextTx' = SeqIncr(nextTx)
       /\ credRecv' = AfterGrant(credRecv)
       /\ packetData' = frame
       /\ resendBuffer' = Append(resendBuffer, frame)

\* Connection::send_packet() once it passed its two early returns:
\* put_messages() moves the messages that fit from ops into the frame,
\* create_ox_header() copies last_rx and last_ack_status, the type comes
\* from determine_connection_state(), set_tx_sequence() numbers it,
\* set_credit_field() grants the largest power of two of credits_receive;
\* the frame goes into packet_data and onto the resend buffer.  The copy of
\* last_rx into we_acked is the next step, TickSendAck.
SendPacket(outstanding) ==
    LET k     == FitCount(ops, HeaderBytes, 0)
        trans == SendTransition(cstate, outstanding)
        frame == [seq |-> nextTx, seqAck |-> lastRx, ack |-> lastAckStatus,
                  type |-> trans[1], grant |-> GrantOf(credRecv),
                  msgs |-> SubSeq(ops, 1, k)]
    IN /\ sendOutstanding' = FALSE
       /\ ops' = SubSeq(ops, k + 1, Len(ops))
       /\ cstate' = trans[2]
       /\ nextTx' = SeqIncr(nextTx)
       /\ credRecv' = AfterGrant(credRecv)
       /\ packetData' = frame
       /\ resendBuffer' = Append(resendBuffer, frame)

\* Tick::set_ack_timeout() followed by Tick::check_send().  Whether the
\* ack-only timeout or the heartbeat interval has elapsed is a free choice:
\* time is not modelled.  A freshly started ack timer has not elapsed.
TickSend ==
    /\ tickPc = "send"
    /\ \E ackTimedOut, heartbeatDue \in BOOLEAN :
        LET required == \/ ops # <<>>
                        \/ HostSendOutstanding
                        \/ ackRequired /\ AckOutstanding /\ ackTimedOut
                        \/ heartbeatDue
        IN IF required /\ cstate # "Idle" /\ packetData = None
           THEN /\ SendPacket(outstandingCntr # 0)
                /\ tickPc' = "ack"
                /\ ackRequired' = FALSE
                /\ numbered' = [numbered EXCEPT !["toEp"] = @ + 1]
                /\ UNCHANGED <<nextRx, lastRx, theyAcked, weAcked, firstInResend,
                               resendData, lastAckStatus, resendOutstanding,
                               credSend>>
           ELSE /\ tickPc' = "resend"
                /\ ackRequired' = AckOutstanding
                /\ UNCHANGED <<hostVars, ops, numbered>>
    /\ UNCHANGED <<outstandingCntr, completions, reqPc, resendCooldown,
                   closePc, rxPanicked, epVars, netVars, sentLog, dlvLog>>

\* The end of send_packet: `self.we_acked.set(self.last_rx_seq.val())`
\* (connection.rs:294) reads last_rx again, long after create_ox_header
\* read it for the frame's ack (line 339).  send_packet holds packet_data
\* and the resend buffer's write lock throughout, but process_packets sets
\* last_rx (line 465) before it takes that lock in remove_from_resend, so a
\* receive may fall between the two reads.  The rest of that receive waits
\* for the lock; running it here instead changes nothing send_packet reads
\* afterwards, and the frame it pushed cannot be acknowledged yet.
TickSendAck ==
    /\ tickPc = "ack"
    /\ tickPc' = "resend"
    /\ weAcked' = lastRx
    /\ UNCHANGED <<cstate, nextRx, lastRx, nextTx, theyAcked, firstInResend,
                   resendBuffer, resendData, packetData, lastAckStatus,
                   sendOutstanding, resendOutstanding, credSend, credRecv>>
    /\ UNCHANGED <<opVars, ackRequired, resendCooldown, closePc, rxPanicked,
                   epVars, netVars, logVars>>

\* Tick::check_resend(): reset_pending() (receive timeout elapsed, or a NAK
\* arrived), check_resend_cooldown(), do_resend() -> Connection::resend(),
\* which copies the whole resend buffer into resend_data unless that is
\* empty or a resend is still being drained.
TickResend ==
    /\ tickPc = "resend"
    /\ tickPc' = "send"
    /\ \E rxTimedOut, cooldownOver \in BOOLEAN :
        LET pending     == rxTimedOut \/ resendOutstanding
            coolingDown == resendCooldown /\ ~cooldownOver
        IN IF pending /\ ~coolingDown /\ resendBuffer # <<>> /\ resendData = <<>>
           THEN /\ resendData' = resendBuffer
                /\ resendOutstanding' = FALSE
                /\ resendCooldown' = TRUE
           ELSE /\ resendCooldown' = IF pending THEN coolingDown ELSE resendCooldown
                /\ UNCHANGED <<resendData, resendOutstanding>>
    /\ UNCHANGED <<cstate, nextRx, lastRx, nextTx, theyAcked, weAcked,
                   firstInResend, resendBuffer, packetData, lastAckStatus,
                   sendOutstanding, credSend, credRecv>>
    /\ UNCHANGED <<opVars, ackRequired, closePc, rxPanicked, epVars, netVars,
                   logVars>>

\* Connection::get_packet(), whose frame the session host puts on the wire:
\* queued retransmissions first, then the assembled frame.
HostTransmit ==
    /\ \/ /\ resendData # <<>>
          /\ toEp' = Append(toEp, Head(resendData))
          /\ resendData' = Tail(resendData)
          /\ UNCHANGED packetData
       \/ /\ resendData = <<>>
          /\ packetData # None /\ tickPc # "ack"
          /\ toEp' = Append(toEp, packetData)
          /\ packetData' = None
          /\ UNCHANGED resendData
    /\ UNCHANGED <<cstate, nextRx, lastRx, nextTx, theyAcked, weAcked,
                   firstInResend, resendBuffer, lastAckStatus,
                   sendOutstanding, resendOutstanding, credSend, credRecv>>
    /\ UNCHANGED <<opVars, appVars, epVars, toHost, losses, logVars>>

-----------------------------------------------------------------------------
(* Receive: utils::process_packet() on the frame at the head of the link. *)

\* A plausible bug: the loop pops once more than first_in_resend advances.
RemoveCountPlusOne(ack) == SeqDiff(ack, firstInResend) + 1

\* Connection::remove_from_resend(): pop one frame per increment of
\* first_in_resend until it equals they_acked.  With fewer frames than
\* that, pop_front().expect() panics and the receive thread dies.
RemoveCount(ack) == SeqDiff(ack, firstInResend)

\* The payload of an accepted frame that is not AckOnly: update_send_credits()
\* (a grant on channel 0 is skipped), last_ack_status, next_rx,
\* set_connection_state_receive(); then process_packet() hands the messages
\* to Channel::process_messages(): add_receive_credits() per message and
\* Operations::complete() per response.
ReceivePayload(f) ==
    /\ credSend' = CreditsAdd(credSend, f.grant[1], GrantValue(f.grant))
    /\ lastAckStatus' = TRUE
    /\ nextRx' = SeqIncr(nextRx)
    /\ cstate' = StateOnReceive(cstate, f.type)
    /\ sendOutstanding' = (sendOutstanding \/ CloseFromClient(cstate, f.type))
    /\ credRecv' = AddMsgCredits(credRecv, f.msgs)
    /\ completions' = completions \cup {f.msgs[i].id : i \in DOMAIN f.msgs}
    /\ dlvLog' = [dlvLog EXCEPT !["toHost"] = @ \o f.msgs]

\* Connection::process_packets(), case S == next_rx.
Accept(f) ==
    /\ lastRx' = f.seq
    /\ theyAcked' = f.seqAck
    /\ IF RemoveCount(f.seqAck) > Len(resendBuffer)
       THEN /\ rxPanicked' = TRUE
            /\ UNCHANGED <<cstate, nextRx, nextTx, weAcked, firstInResend,
                           resendBuffer, resendData, packetData, lastAckStatus,
                           sendOutstanding, resendOutstanding, credSend,
                           credRecv, completions, dlvLog>>
       ELSE /\ firstInResend' = f.seqAck
            /\ resendBuffer' = SubSeq(resendBuffer, RemoveCount(f.seqAck) + 1,
                                      Len(resendBuffer))
            \* indicate_nak()
            /\ resendOutstanding' = (resendOutstanding \/ ~f.ack)
            /\ IF f.type = "AckOnly"
               THEN UNCHANGED <<cstate, nextRx, lastAckStatus, sendOutstanding,
                                credSend, credRecv, completions, dlvLog>>
               ELSE ReceivePayload(f)
            /\ UNCHANGED rxPanicked
    /\ UNCHANGED <<nextTx, weAcked, resendData, packetData>>

\* Connection::process_replicated(): a frame beyond next_rx (a gap) is
\* answered with a NAK unless it is AckOnly.
Replicated(f) ==
    /\ IF f.type = "AckOnly"
       THEN UNCHANGED <<lastAckStatus, sendOutstanding>>
       ELSE lastAckStatus' = FALSE /\ sendOutstanding' = TRUE
    /\ UNCHANGED <<cstate, nextRx, lastRx, nextTx, theyAcked, weAcked,
                   firstInResend, resendBuffer, resendData, packetData,
                   resendOutstanding, credSend, credRecv, completions,
                   dlvLog, rxPanicked>>

\* process_out_of_sequence(): an older frame is ignored.
OutOfSequence ==
    UNCHANGED <<hostVars, completions, dlvLog, rxPanicked>>

\* A plausible bug: an older frame (a resend of one already accepted) is
\* taken as the expected one.
HostReceiveAcceptsOld ==
    /\ ~rxPanicked
    /\ toHost # <<>>
    /\ toHost' = Tail(toHost)
    /\ LET f == Head(toHost) IN
        \/ f.seq = nextRx /\ Accept(f)
        \/ f.seq # nextRx /\ ~SeqCmp(nextRx, f.seq) /\ Replicated(f)
        \/ f.seq # nextRx /\ SeqCmp(nextRx, f.seq) /\ Accept(f)
    /\ UNCHANGED <<ops, outstandingCntr, reqPc, tickPc, ackRequired,
                   resendCooldown, closePc, epVars, toEp, losses, sentLog,
                   numbered>>

HostReceive ==
    /\ ~rxPanicked
    /\ toHost # <<>>
    /\ toHost' = Tail(toHost)
    /\ LET f == Head(toHost) IN
        \/ f.seq = nextRx /\ Accept(f)
        \/ f.seq # nextRx /\ ~SeqCmp(nextRx, f.seq) /\ Replicated(f)
        \/ f.seq # nextRx /\ SeqCmp(nextRx, f.seq) /\ OutOfSequence
    /\ UNCHANGED <<ops, outstandingCntr, reqPc, tickPc, ackRequired,
                   resendCooldown, closePc, epVars, toEp, losses, sentLog,
                   numbered>>

-----------------------------------------------------------------------------
(* Connection::close_connection(timeout), called by the application.      *)

\* The early return: compat mode, Idle, Opened before any frame arrived, or
\* Enabled.
CloseCall ==
    /\ closePc = "open"
    /\ closePc' = IF \/ CompatMode
                     \/ cstate = "Idle"
                     \/ cstate = "Opened" /\ lastRx = SeqMax
                     \/ cstate = "Enabled"
                  THEN "failed" ELSE "waitAcked"
    /\ UNCHANGED <<hostVars, opVars, tickPc, ackRequired, resendCooldown,
                   rxPanicked, epVars, netVars, logVars>>

\* The first wait ends once frame 0 was acknowledged (first_in_resend left
\* its initial value); then initiate_close_connection().
CloseInitiate ==
    /\ closePc = "waitAcked"
    /\ firstInResend # SeqMax
    /\ closePc' = "waitIdle"
    /\ IF cstate \in {"Active", "Opened"}
       THEN cstate' = "ClosedByHost" /\ sendOutstanding' = TRUE
       ELSE UNCHANGED <<cstate, sendOutstanding>>
    /\ UNCHANGED <<nextRx, lastRx, nextTx, theyAcked, weAcked, firstInResend,
                   resendBuffer, resendData, packetData, lastAckStatus,
                   resendOutstanding, credSend, credRecv>>
    /\ UNCHANGED <<opVars, tickPc, ackRequired, resendCooldown, rxPanicked,
                   epVars, netVars, logVars>>

\* The second wait ends when the connection is Idle.
CloseDone ==
    /\ closePc = "waitIdle"
    /\ cstate = "Idle"
    /\ closePc' = "closed"
    /\ UNCHANGED <<hostVars, opVars, tickPc, ackRequired, resendCooldown,
                   rxPanicked, epVars, netVars, logVars>>

\* check_timeout() ends either wait with an error.
CloseTimedOut ==
    /\ CloseTimeout
    /\ closePc \in {"waitAcked", "waitIdle"}
    /\ closePc' = "failed"
    /\ UNCHANGED <<hostVars, opVars, tickPc, ackRequired, resendCooldown,
                   rxPanicked, epVars, netVars, logVars>>

-----------------------------------------------------------------------------
(* The endpoint, from the protocol description: it keeps the same         *)
(* sequence, ack and credit fields as the host, answers each Get with an  *)
(* AccessAckData while Active, frees the request's buffer space as        *)
(* credits to grant, and may close the connection itself.                 *)

EpStates == {"Idle", "Active", "Closing"}

\* The endpoint accepts the frame it expects: it drops the frames the host
\* acknowledged from its resend buffer, takes the host's grant, answers
\* the requests if the connection is (being) opened, and follows Open and
\* Close (echoing them, unless it sent the Close itself).
EpAccept(f) ==
    LET answers == epState = "Active" \/ f.type = "Open"
        resps   == [i \in DOMAIN f.msgs |-> Resp(f.msgs[i].id)]
    IN
    /\ epNextRx' = SeqIncr(epNextRx)
    /\ epLastRx' = f.seq
    /\ epAckStatus' = TRUE
    /\ epAckDue' = TRUE
    /\ epResend' = SelectSeq(epResend, LAMBDA g : ~SeqCmp(f.seqAck, g.seq))
    /\ epCredSend' = CreditsAdd(epCredSend, f.grant[1], GrantValue(f.grant))
    /\ epFree' = AddMsgCredits(epFree, f.msgs)
    /\ epOut' = IF answers THEN epOut \o resps ELSE epOut
    /\ sentLog' = [sentLog EXCEPT !["toHost"] = IF answers THEN @ \o resps ELSE @]
    /\ dlvLog' = [dlvLog EXCEPT !["toEp"] = @ \o f.msgs]
    /\ CASE f.type = "Open"                       -> epState' = "Active" /\ epEcho' = "Open"
         [] f.type = "Close" /\ epState = "Closing" -> epState' = "Idle" /\ UNCHANGED epEcho
         [] f.type = "Close"                      -> epState' = "Idle" /\ epEcho' = "Close"
         [] OTHER                                 -> UNCHANGED <<epState, epEcho>>
    /\ UNCHANGED <<epNextTx, numbered>>

\* A frame beyond the expected one is NAKed; an older one is dropped.
EpReceive ==
    /\ toEp # <<>>
    /\ toEp' = Tail(toEp)
    /\ LET f == Head(toEp) IN
        \/ f.seq = epNextRx /\ EpAccept(f)
        \/ /\ f.seq # epNextRx /\ ~SeqCmp(epNextRx, f.seq)
           /\ epAckStatus' = FALSE
           /\ epAckDue' = TRUE
           /\ UNCHANGED <<epState, epNextRx, epLastRx, epNextTx, epResend,
                          epCredSend, epFree, epOut, epEcho, logVars>>
        \/ /\ f.seq # epNextRx /\ SeqCmp(epNextRx, f.seq)
           /\ UNCHANGED <<epVars, logVars>>
    /\ UNCHANGED <<hostVars, opVars, appVars, toHost, losses>>

\* A sequenced frame: the pending echo (or Normal), at most one response
\* the endpoint holds D credits for, and a grant of its free buffer space.
EpSend ==
    /\ epState # "Idle" \/ epEcho # None
    /\ \E k \in 0 .. Min({1, Len(epOut)}) :
        LET f == [seq |-> epNextTx, seqAck |-> epLastRx, ack |-> epAckStatus,
                  type |-> IF epEcho = None THEN "Normal" ELSE epEcho,
                  grant |-> GrantOf(epFree), msgs |-> SubSeq(epOut, 1, k)]
        IN /\ k = 1 => CanTake(epCredSend, ChanD, Head(epOut).flits)
           /\ k = 1 \/ epEcho # None \/ CreditsAny(epFree)
           /\ epCredSend' = IF k = 1 THEN CreditsTake(epCredSend, ChanD, Head(epOut).flits)
                            ELSE epCredSend
           /\ epOut' = SubSeq(epOut, k + 1, Len(epOut))
           /\ epFree' = AfterGrant(epFree)
           /\ epNextTx' = SeqIncr(epNextTx)
           /\ epResend' = Append(epResend, f)
           /\ toHost' = Append(toHost, f)
           /\ epEcho' = None
           /\ epAckDue' = FALSE
    /\ numbered' = [numbered EXCEPT !["toHost"] = @ + 1]
    /\ UNCHANGED <<epState, epNextRx, epLastRx, epAckStatus>>
    /\ UNCHANGED <<hostVars, opVars, appVars, toEp, losses, sentLog, dlvLog>>

\* An AckOnly frame reports an acknowledgement (or NAK) not yet sent; it
\* carries the next sequence number without using it.
EpSendAckOnly ==
    /\ EpAckOnly
    /\ epAckDue
    /\ epAckDue' = FALSE
    /\ toHost' = Append(toHost, [seq |-> epNextTx, seqAck |-> epLastRx,
                                 ack |-> epAckStatus, type |-> "AckOnly",
                                 grant |-> <<0, 0>>, msgs |-> <<>>])
    /\ UNCHANGED <<epState, epNextRx, epLastRx, epNextTx, epAckStatus,
                   epResend, epCredSend, epFree, epOut, epEcho>>
    /\ UNCHANGED <<hostVars, opVars, appVars, toEp, losses, logVars>>

\* On a NAK or a timeout the endpoint sends its unacknowledged frames again.
EpResend ==
    /\ epResend # <<>>
    /\ toHost' = toHost \o epResend
    /\ UNCHANGED <<hostVars, opVars, appVars, epVars, toEp, losses, logVars>>

\* The endpoint closes the connection: its next frame is a Close.
EpClose ==
    /\ ~CompatMode
    /\ epState = "Active"
    /\ epEcho = None
    /\ epState' = "Closing"
    /\ epEcho' = "Close"
    /\ UNCHANGED <<epNextRx, epLastRx, epNextTx, epAckStatus, epAckDue,
                   epResend, epCredSend, epFree, epOut>>
    /\ UNCHANGED <<hostVars, opVars, appVars, netVars, logVars>>

-----------------------------------------------------------------------------
(* The Ethernet link loses frames, at most MaxLoss of them.               *)

LoseFrame ==
    /\ losses < MaxLoss
    /\ losses' = losses + 1
    /\ \/ \E i \in 1 .. Len(toEp) : toEp' = RemoveAt(toEp, i) /\ UNCHANGED toHost
       \/ \E i \in 1 .. Len(toHost) : toHost' = RemoveAt(toHost, i) /\ UNCHANGED toEp
    /\ UNCHANGED <<hostVars, opVars, appVars, epVars, logVars>>

-----------------------------------------------------------------------------

Next ==
    \/ HostEstablish
    \/ \E r \in Reqs :
        PerformStart(r) \/ PerformCredits(r) \/ PerformPush(r) \/ PerformReturn(r)
    \/ TickSend \/ TickSendAck \/ TickResend \/ HostTransmit \/ HostReceive
    \/ CloseCall \/ CloseInitiate \/ CloseDone \/ CloseTimedOut
    \/ EpReceive \/ EpSend \/ EpSendAckOnly \/ EpResend \/ EpClose
    \/ LoseFrame

Spec == Init /\ [][Next]_vars

-----------------------------------------------------------------------------
(* Properties *)

TypeOK ==
    /\ cstate \in CStates
    /\ {nextRx, lastRx, nextTx, theyAcked, weAcked, firstInResend} \subseteq SeqNums
    /\ resendBuffer \in Seq(Frames) /\ resendData \in Seq(Frames)
    /\ packetData \in Frames \cup {None}
    /\ {lastAckStatus, sendOutstanding, resendOutstanding} \subseteq BOOLEAN
    /\ credSend \in [Chans -> Nat] /\ credRecv \in [Chans -> Nat]
    /\ ops \in Seq(Msgs) /\ outstandingCntr \in 0 .. Cardinality(Reqs)
    /\ completions \subseteq Reqs
    /\ reqPc \in [Reqs -> {"idle", "credits", "push", "wait", "done"}]
    /\ tickPc \in {"send", "ack", "resend"}
    /\ {ackRequired, resendCooldown, rxPanicked} \subseteq BOOLEAN
    /\ closePc \in {"new", "open", "waitAcked", "waitIdle", "closed", "failed"}
    /\ epState \in EpStates /\ epEcho \in {None, "Open", "Close"}
    /\ epAckDue \in BOOLEAN
    /\ {epNextRx, epLastRx, epNextTx} \subseteq SeqNums
    /\ epResend \in Seq(Frames) /\ epOut \in Seq(Msgs)
    /\ epCredSend \in [Chans -> Nat] /\ epFree \in [Chans -> Nat]
    /\ toEp \in Seq(Frames) /\ toHost \in Seq(Frames) /\ losses \in 0 .. MaxLoss
    /\ numbered \in [Dirs -> Nat]

\* remove_from_resend() never runs out of frames: no acknowledgement the
\* receive thread accepts covers more frames than the resend buffer holds,
\* so its pop_front().expect() never panics.
NoRxPanic == ~rxPanicked

\* Every frame a side has numbered and the other side has not accepted yet
\* is still in the sender's resend buffer, so a resend can recover it if
\* the link lost it.  The receive path decides what is acknowledged
\* (last_rx_seq, sent as sequence-ack by create_ox_header()) and the
\* sender drops what is acknowledged (remove_from_resend()).
Retains(buf, next, peerNextRx) ==
    \A i \in 0 .. SeqDiff(next, peerNextRx) - 1 :
        \E j \in DOMAIN buf : buf[j].seq = (peerNextRx + i) % SeqModulus

NoFrameLostForGood ==
    /\ Retains(resendBuffer, nextTx, epNextRx)
    /\ Retains(epResend, epNextTx, nextRx)

\* Both sides agree the connection is over: once the host has gone back to
\* Idle after establishing it, the endpoint is not Active any more.  The
\* host reaches Idle only through a Close frame (received in
\* ClosedByHostIndicated, or sent from ClosedByClient), so a close step
\* that skips the handshake leaves the endpoint serving a closed connection.
ClosedTogether ==
    (cstate = "Idle" /\ closePc # "new") => epState # "Active"

\* Spec, "Cancellation" and scenario 6: a connection that has closed leaves
\* no perform() blocked on its completion slot; callers wake with
\* ConnectionClosed.
InFlightCancelledOnClose ==
    closePc = "closed" => \A r \in Reqs : reqPc[r] # "wait"

\* Frames of a resend buffer the other side has not accepted yet.
Unaccepted(buf, peerNextRx) == SelectSeq(buf, LAMBDA f : SeqCmp(f.seq, peerNextRx))
GrantsOn(c, fs) == FoldLeft(LAMBDA n, f : IF f.grant[1] = c THEN n + GrantValue(f.grant) ELSE n, 0, fs)
MsgFlitsOn(c, fs) == FoldLeft(LAMBDA n, f : n + FlitsOn(c, f.msgs), 0, fs)
Taken(c) == IF c = ChanA THEN 2 * Cardinality({r \in Reqs : reqPc[r] = "push"}) ELSE 0

\* Credits are neither lost nor created, in either direction: for every
\* channel, the host's credits_send, the credits taken by perform() calls,
\* the messages in operations_outstanding and in frames the endpoint has
\* not accepted, the endpoint's free space and its grants in frames the
\* host has not accepted add up to the endpoint's buffer; and symmetrically
\* for credits_receive and the host's buffer.  A frame dropped from a
\* resend buffer before the other side accepted it, a frame accepted twice,
\* or a grant applied twice or never deducted breaks it.
CreditConservation ==
    LET hostIn == Unaccepted(resendBuffer, epNextRx)
        epIn   == Unaccepted(epResend, nextRx)
    IN \A c \in Chans :
        /\ credSend[c] + Taken(c) + FlitsOn(c, ops) + MsgFlitsOn(c, hostIn)
             + epFree[c] + GrantsOn(c, epIn) = DefaultCredits
        /\ epCredSend[c] + MsgFlitsOn(c, epIn) + credRecv[c] + GrantsOn(c, hostIn)
             = RecvCredits

\* The link as its users see it: each direction delivers, in order and
\* exactly once, the messages put into it (perform() pushes requests, the
\* endpoint queues responses), whatever the link loses and the resends
\* duplicate.
Link == INSTANCE ReliableLink WITH sent <- sentLog, delivered <- dlvLog

LinkSpec == Link!Spec

=============================================================================
