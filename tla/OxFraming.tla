------------------------------ MODULE OxFraming ------------------------------
(***************************************************************************)
(* The message path through the frames of one connection, byte for byte   *)
(* where alignment matters: perform() packs an operation and queues it on  *)
(* operations_outstanding; send_packet's put_messages takes as many queued *)
(* messages as fit into a frame and marks where each starts in the frame's *)
(* mask; the endpoint decodes the frame by that mask and answers; the      *)
(* receive thread runs process_messages on the answer and completes the    *)
(* waiting operations, whose threads then give their source back and, for  *)
(* a Grant, perform the GrantAck.                                          *)
(*                                                                         *)
(* The endpoint is not part of src/: it reads and writes frames as the     *)
(* OmniXtend layout in spec.md §4.C describes, with the header fields at   *)
(* their OmniXtend bit positions.  Sequence numbers, loss and credits are  *)
(* OxLink's; here the link is reliable and in order.                       *)
(***************************************************************************)
EXTENDS Naturals, Sequences, SequencesExt, FiniteSetsExt, TLCodec

CONSTANTS
    OpInputs,       \* operations application threads perform
    MaxOps,         \* operations performed in one behaviour
    NumSources,     \* sources 0 .. NumSources - 1 in the pool
    EthernetMax,    \* frame size put_messages fills up to
    EthernetMin,    \* minimum frame size the endpoint pads to
    SinkId,         \* the sink the endpoint names in a Grant
    MaxProbes       \* probes the endpoint sends in one behaviour

Sources == 0 .. NumSources - 1
None == "none"

\* What a message says once decoded: the header fields, and the bytes a
\* write changes with whether each is the caller's data.
NoBytes == [b \in {} |-> TRUE]
View(c, o, p, s, src, wr) ==
    [chan |-> c, opcode |-> o, param |-> p, size |-> s, source |-> src,
     written |-> wr]
Garbled == View(0, 0, 0, 0, 0, NoBytes)

VARIABLES
    opsLeft,
    avail,          \* Operations::available_sources, a FIFO
    waiting,        \* the kind of operation each source's thread waits in
    completion,     \* each source's bounded(1) completion channel
    outstanding,    \* operations_outstanding: packed messages and credits
    expected,       \* what each performed message should decode to
    toEp, toHost,   \* frames in flight
    epDecoded,      \* what the endpoint decoded, in order
    epOut,          \* answers the endpoint has still to send
    epSent,         \* answers and probes the endpoint sent, in order
    hostGot,        \* answers and probes process_messages returned
    credRet,        \* credits process_messages returned per channel
    fault,          \* a panic or endless loop of a host thread
    probesLeft

vars == <<opsLeft, avail, waiting, completion, outstanding, expected, toEp,
          toHost, epDecoded, epOut, epSent, hostGot, credRet, fault,
          probesLeft>>

Init ==
    /\ opsLeft = MaxOps
    /\ avail = [i \in 1 .. NumSources |-> i - 1]
    /\ waiting = [s \in Sources |-> None]
    /\ completion = [s \in Sources |-> <<>>]
    /\ outstanding = <<>> /\ expected = <<>>
    /\ toEp = <<>> /\ toHost = <<>>
    /\ epDecoded = <<>> /\ epOut = <<>> /\ epSent = <<>> /\ hostGot = <<>>
    /\ credRet = [c \in {2, 4} |-> 0]
    /\ fault = None
    /\ probesLeft = MaxProbes
-----------------------------------------------------------------------------
(* The endpoint, as spec.md §4.C describes its side of the wire.          *)

\* The OmniXtend header: each field's highest and lowest bit.
SpecLayout ==
    [chan |-> <<62, 60>>, opcode |-> <<59, 57>>, param |-> <<55, 52>>,
     size |-> <<51, 48>>, domain |-> <<47, 40>>, err |-> <<39, 38>>,
     source |-> <<25, 0>>]
SpecField(w, f) ==
    ValueOf({j \in 0 .. SpecLayout[f][1] - SpecLayout[f][2] :
             SpecLayout[f][2] + j \in w})
SpecWord(h) ==
    UNION {{SpecLayout[f][2] + j : j \in BitsOf(h[f], SpecLayout[f][1] - SpecLayout[f][2] + 1)} :
           f \in DOMAIN SpecLayout}

\* The flit at index i of a message, or a zero flit past its end.
At(fl, i) == IF i \in DOMAIN fl THEN fl[i] ELSE ZeroFlit
UserByte(f, b) == f.tag = "data" /\ b % 8 < f.n

\* The bytes a write message changes: every byte of a PutFullData or a
\* data-carrying C message; the masked bytes of a PutPartialData, whose
\* mask flit precedes every 8 data flits.
WrittenBy(h, fl) ==
    LET n == 2^h.size IN
    CASE (h.chan = 1 /\ h.opcode = 0) \/ (h.chan = 3 /\ h.opcode \in {5, 7}) ->
            [b \in 0 .. n - 1 |-> UserByte(At(fl, 3 + b \div 8), b)]
      [] h.chan = 1 /\ h.opcode = 1 ->
            LET blk(b) == 3 + 9 * (b \div 64) IN
            [b \in {b \in 0 .. n - 1 : b % 64 \in At(fl, blk(b)).w} |->
                UserByte(At(fl, blk(b) + 1 + (b % 64) \div 8), b)]
      [] OTHER -> NoBytes

EpView(fl) ==
    LET w == fl[1].w
        h == [f \in DOMAIN SpecLayout |-> SpecField(w, f)]
    IN IF h.chan = 5 THEN View(5, 0, 0, 0, SpecField(w, "source"), NoBytes)
       ELSE View(h.chan, h.opcode, h.param, h.size, h.source, WrittenBy(h, fl))

\* The answer to a decoded request: AccessAckData for a Get, AccessAck for
\* a Put, GrantData or Grant for an Acquire, ReleaseAck for a Release.
\* An access may be denied (err bit 1).
EpFlits(o, size, src, den) ==
    LET hdr == Flit(SpecWord([chan |-> 4, opcode |-> o, param |-> 0,
                   size |-> size, domain |-> 0, err |-> IF den THEN 2 ELSE 0,
                   source |-> src]), "hdr", 0)
        sinkF == Flit(BitsOf(SinkId, 26), "sink", 0)
        data == [i \in 1 .. Max({2^size \div 8, 1}) |-> Flit({}, "data", 8)]
    IN CASE o = 1 -> <<hdr>> \o data
         [] o = 4 -> <<hdr, sinkF>>
         [] o = 5 -> <<hdr, sinkF>> \o data
         [] OTHER -> <<hdr>>

Answer(o, v, den) ==
    [flits |-> EpFlits(o, v.size, v.source, den),
     got |-> [kind |-> "resp", source |-> v.source,
              sink |-> IF o \in {4, 5} THEN SinkId ELSE 0,
              nbytes |-> IF o \in {1, 5} THEN 2^v.size ELSE 0,
              denied |-> den]]

AnswerOp(v) ==
    CASE v.chan = 1 /\ v.opcode = 4        -> 1
      [] v.chan = 1 /\ v.opcode \in {0, 1} -> 0
      [] v.chan = 1 /\ v.opcode = 6        -> 5
      [] v.chan = 1 /\ v.opcode = 7        -> 4
      [] v.chan = 3 /\ v.opcode \in {6, 7} -> 6
      [] OTHER                             -> -1

\* A frame's messages start at the byte offsets their lengths add up to;
\* the endpoint reads a header at every flit the mask marks.
Offset(msgs, i) == FoldLeft(LAMBDA acc, m : acc + Bytes(m), 0, SubSeq(msgs, 1, i - 1))
DecodeFrame(fr) ==
    LET starts == SetToSortSeq(fr.mask, <)
        at(k) == {i \in DOMAIN fr.msgs : Offset(fr.msgs, i) = 8 * k}
    IN [j \in DOMAIN starts |->
          IF at(starts[j]) = {} THEN Garbled
          ELSE EpView(fr.msgs[CHOOSE i \in at(starts[j]) : TRUE])]

EpReceive ==
    /\ toEp # <<>>
    /\ \E den \in BOOLEAN :
         LET views == DecodeFrame(Head(toEp))
             answered == SelectSeq(views, LAMBDA v : AnswerOp(v) >= 0)
         IN
         /\ toEp' = Tail(toEp)
         /\ epDecoded' = epDecoded \o views
         /\ epOut' = epOut \o [i \in DOMAIN answered |->
                       Answer(AnswerOp(answered[i]), answered[i],
                              den /\ AnswerOp(answered[i]) \in {0, 1})]
    /\ UNCHANGED <<opsLeft, avail, waiting, completion, outstanding, expected,
                   toHost, epSent, hostGot, credRet, fault, probesLeft>>

\* Another client's request makes the endpoint probe the host.
EpProbe ==
    /\ probesLeft > 0
    /\ \E o \in {6, 7}, cap \in 0 .. 2 :
         epOut' = Append(epOut,
            [flits |-> <<Flit(SpecWord([chan |-> 2, opcode |-> o, param |-> cap,
                          size |-> 3, domain |-> 0, err |-> 0, source |-> 0]),
                          "hdr", 0), AddrFlit>>,
             got |-> [kind |-> "probe", opcode |-> o, param |-> cap]])
    /\ probesLeft' = probesLeft - 1
    /\ UNCHANGED <<opsLeft, avail, waiting, completion, outstanding, expected,
                   toEp, toHost, epDecoded, epSent, hostGot, credRet, fault>>

\* The endpoint sends what it has in one frame, zero-padded to the minimum
\* frame size, with the mask flit last.
EpSend ==
    /\ epOut # <<>>
    /\ LET fl == FlattenSeq([i \in DOMAIN epOut |-> epOut[i].flits])
           pad == Max({0, (EthernetMin - 30 + 7) \div 8 - Len(fl)})
       IN toHost' = Append(toHost, fl \o [i \in 1 .. pad |-> ZeroFlit]
                                        \o <<Flit({}, "mask", 0)>>)
    /\ epSent' = epSent \o [i \in DOMAIN epOut |-> epOut[i].got]
    /\ epOut' = <<>>
    /\ UNCHANGED <<opsLeft, avail, waiting, completion, outstanding, expected,
                   toEp, epDecoded, hostGot, credRet, fault, probesLeft>>
-----------------------------------------------------------------------------
(* The host.                                                               *)

\* What a message of operation op with source src must decode to, by the
\* opcode table of spec.md §4.C: the header fields, and for a write each
\* of the caller's bytes.
ExpectedView(op, src) ==
    LET k == op.kind
        s == LenLog2(op.len)
        all == [b \in 0 .. op.len - 1 |-> TRUE]
    IN
    CASE k \in {"Read", "ReadLen"}   -> View(1, 4, 0, s, src, NoBytes)
      [] k \in {"Write", "WriteLen"} -> View(1, 0, 0, s, src, all)
      [] k = "WritePartial"         -> View(1, 1, 0, LenLog2(NextPow2(op.len)), src, all)
      [] k = "AcquireBlock"         -> View(1, 6, op.param, s, src, NoBytes)
      [] k = "AcquirePerm"          -> View(1, 7, op.param, s, src, NoBytes)
      [] k = "Release"              -> View(3, 6, op.param, s, src, NoBytes)
      [] k = "ReleaseData"          -> View(3, 7, op.param, s, src, all)
      [] k = "ProbeAck"             -> View(3, 4, op.param, s, 0, NoBytes)
      [] k = "ProbeAckData"         -> View(3, 5, op.param, s, 0, all)
      [] k = "GrantAck"             -> View(5, 0, 0, 0, op.param, NoBytes)

Queued(op, src) == [flits |-> Pack(op, src), credits |-> OpCredits(op)[2]]

\* The operation each call of the simulator's API performs (Sim::read,
\* read_64, write, write_64, release, release_data, acquire_perm,
\* acquire_block, write_partial): the 64-bit calls have 8 bytes.
SimCallKind ==
    [read |-> "ReadLen", read_64 |-> "Read", write |-> "WriteLen",
     write_64 |-> "Write", release |-> "Release", release_data |-> "ReleaseData",
     acquire_perm |-> "AcquirePerm", acquire_block |-> "AcquireBlock",
     write_partial |-> "WritePartial"]
SimCall(call, len, param) ==
    [kind |-> SimCallKind[call],
     len |-> IF call \in {"read_64", "write_64"} THEN 8 ELSE len,
     param |-> param]

\* bitload's do_parallel_write: the file in chunks of chunk bytes, the
\* last one shorter; a chunk whose length is a power of two is a WriteLen,
\* any other a WritePartial.  do_parallel_read reads every chunk, the
\* last one included, with a ReadLen of chunk bytes.
BitloadWriteOps(size, chunk) ==
    LET n == (size + chunk - 1) \div chunk
        len(i) == IF i < n THEN chunk ELSE size - chunk * (n - 1)
    IN {[kind |-> IF IsPow2(len(i)) THEN "WriteLen" ELSE "WritePartial",
         len |-> len(i), param |-> 0] : i \in 1 .. n}
BitloadReadOps(size, chunk) ==
    IF size = 0 THEN {} ELSE {[kind |-> "ReadLen", len |-> chunk, param |-> 0]}

\* get_response: the GrantAck an Acquire answers its Grant with.
GetResponse(kind, sink) ==
    IF kind \in {"AcquireBlock", "AcquirePerm"}
    THEN <<[kind |-> "GrantAck", len |-> 8, param |-> sink]>>
    ELSE <<>>

\* get_source: an operation with a response pops the head of the pool,
\* spinning while it is empty; the others use source 0.
\* Taking the head without removing it (mutant of PopSource).
PopSourcePeek(pool, ret) == pool
PopSource(pool, ret) == IF ret THEN Tail(pool) ELSE pool

\* create_operation's or_else: on a pack error an operation with a
\* response pushes its source back to the pool's tail.
\* Forgetting the push (mutant of GiveBack).
GiveBackNever(pool, ret, src) == pool
GiveBack(pool, ret, src) == IF ret THEN Append(pool, src) ELSE pool

\* perform() up to the push onto operations_outstanding: get_source, then
\* create_operation packs the operation.  A pack error gives the source
\* back to the pool's tail; a panic in pack_write_partial ends the thread.
Perform ==
    \E op \in OpInputs :
       LET ret == HasReturn(op)
           src == IF ret THEN Head(avail) ELSE 0
           rest == PopSource(avail, ret)
       IN
       /\ opsLeft > 0 /\ fault = None
       /\ ret => avail # <<>>
       /\ opsLeft' = opsLeft - 1
       /\ CASE PackError(op) = "NotPowTwo" ->
                 /\ avail' = GiveBack(rest, ret, src)
                 /\ UNCHANGED <<waiting, outstanding, expected, fault>>
            [] PackError(op) = "Panic" ->
                 /\ fault' = "panic"
                 /\ UNCHANGED <<avail, waiting, outstanding, expected>>
            [] OTHER ->
                 /\ avail' = rest
                 /\ waiting' = IF ret THEN [waiting EXCEPT ![src] = op.kind] ELSE waiting
                 /\ outstanding' = Append(outstanding, Queued(op, src))
                 /\ expected' = Append(expected, ExpectedView(op, src))
                 /\ UNCHANGED fault
    /\ UNCHANGED <<completion, toEp, toHost, epDecoded, epOut, epSent, hostGot,
                   credRet, probesLeft>>

\* The rest of perform() once the response is in the slot: the source
\* goes back to the pool's tail and, for an Acquire, send_response
\* performs the GrantAck for the sink the Grant named.
AppReturn ==
    \E s \in Sources :
       LET resp == GetResponse(waiting[s], Head(completion[s]).sink) IN
       /\ waiting[s] # None /\ completion[s] # <<>>
       /\ avail' = Append(avail, s)
       /\ waiting' = [waiting EXCEPT ![s] = None]
       /\ completion' = [completion EXCEPT ![s] = <<>>]
       /\ outstanding' = outstanding \o [i \in DOMAIN resp |-> Queued(resp[i], 0)]
       /\ expected' = expected \o [i \in DOMAIN resp |-> ExpectedView(resp[i], 0)]
    /\ UNCHANGED <<opsLeft, toEp, toHost, epDecoded, epOut, epSent, hostGot,
                   credRet, fault, probesLeft>>

\* space_in_packet under put_messages' take_while, from the packet_len of
\* an Ethernet and OmniXtend header and the mask trailer: how many queued
\* messages fit, and the mask bit set at the flit each one starts.
RECURSIVE SpaceInPacket(_, _, _, _, _)
SpaceInPacket(ms, i, plen, cntr, mask) ==
    IF i > Len(ms) THEN [n |-> i - 1, mask |-> mask]
    ELSE LET new == plen + Bytes(ms[i].flits) IN
         IF cntr < 64 /\ new < EthernetMax
         THEN SpaceInPacket(ms, i + 1, new, cntr + Bytes(ms[i].flits) \div 8,
                            mask \cup {cntr})
         ELSE [n |-> i - 1, mask |-> mask]

\* The tick thread's send_packet: put_messages drains the messages that
\* fit into one frame.  (A message too large for any frame is never sent;
\* that is a hazard of its own, not taken here.)
SendFrame ==
    LET fit == SpaceInPacket(outstanding, 1, 14 + 8 + 8, 0, {}) IN
    /\ fit.n > 0
    /\ toEp' = Append(toEp, [msgs |-> [i \in 1 .. fit.n |-> outstanding[i].flits],
                             mask |-> fit.mask])
    /\ outstanding' = SubSeq(outstanding, fit.n + 1, Len(outstanding))
    /\ UNCHANGED <<opsLeft, avail, waiting, completion, expected, toHost,
                   epDecoded, epOut, epSent, hostGot, credRet, fault, probesLeft>>

\* process_packet on the receive thread: process_messages, the credits it
\* returns, the probes to add_probe and each response sent into its
\* source's slot, a send that blocks while the slot is full.
HostParse ==
    LET r == ProcessMessages(Head(toHost))
        rs == r.responses
        srcs == {rs[i].source : i \in DOMAIN rs}
    IN
    /\ toHost # <<>> /\ fault = None
    /\ srcs \subseteq Sources => \A s \in srcs : completion[s] = <<>>
    /\ toHost' = Tail(toHost)
    /\ fault' = IF srcs \subseteq Sources THEN r.fault ELSE "panic"
    /\ completion' = [s \in Sources |->
                        IF s \in srcs
                        THEN <<rs[CHOOSE i \in DOMAIN rs : rs[i].source = s]>>
                        ELSE completion[s]]
    /\ hostGot' = hostGot
                  \o [i \in DOMAIN rs |-> [kind |-> "resp"] @@ rs[i]]
                  \o [i \in DOMAIN r.probes |-> [kind |-> "probe"] @@ r.probes[i]]
    /\ credRet' = [c \in {2, 4} |-> credRet[c] +
                     FoldLeft(LAMBDA acc, x : acc + (IF x[1] = c THEN x[2] ELSE 0),
                              0, r.credits)]
    /\ UNCHANGED <<opsLeft, avail, waiting, outstanding, expected, toEp,
                   epDecoded, epOut, epSent, probesLeft>>

\* Every operation performed, every frame delivered and answered.
Finished ==
    /\ opsLeft = 0 /\ outstanding = <<>> /\ toEp = <<>> /\ toHost = <<>>
    /\ epOut = <<>> /\ \A s \in Sources : waiting[s] = None
    /\ UNCHANGED vars

Next ==
    \/ Perform \/ AppReturn \/ SendFrame \/ HostParse
    \/ EpReceive \/ EpProbe \/ EpSend
    \/ Finished

Spec == Init /\ [][Next]_vars
-----------------------------------------------------------------------------
(* Properties.                                                             *)

TypeOK ==
    /\ opsLeft \in 0 .. MaxOps
    /\ avail \in Seq(Sources) /\ Len(avail) <= NumSources
    /\ waiting \in [Sources -> OpKindsAll \cup {None}]
    /\ fault \in {None, "panic", "stuck"}
    /\ credRet \in [{2, 4} -> Nat]

Resps(s) == SelectSeq(s, LAMBDA x : x.kind = "resp")
Probes(s) == SelectSeq(s, LAMBDA x : x.kind = "probe")
Flits(x) == IF x.kind = "probe" THEN 2
            ELSE 1 + (IF x.sink # 0 THEN 1 ELSE 0)
                   + (IF x.nbytes > 0 THEN Max({x.nbytes \div 8, 1}) ELSE 0)
FlitSum(s) == FoldLeft(LAMBDA acc, x : acc + Flits(x), 0, s)

\* Host to endpoint (spec.md §4.C round-trip law): the messages the
\* endpoint reads out of the host's frames, at the starts the frame's mask
\* marks, are the ones perform() queued, in order: the header fields
\* create_operation packed at the bit positions the endpoint reads them
\* from, and every byte a write carries is the caller's and lands where
\* the caller put it.  A packer, a mask counter or a field layout that is
\* off anywhere garbles this message or a later one in the frame.
FramesDecode == IsPrefix(epDecoded, expected)

\* Endpoint to host: process_messages neither panics nor loops, returns
\* every response and probe the endpoint sent with its source, sink, data
\* length and denial, and returns per channel exactly the credits the
\* endpoint's flits used, so the send pools neither leak nor inflate.
ResponsesParsed ==
    /\ fault = None
    /\ IsPrefix(Resps(hostGot), Resps(epSent))
    /\ IsPrefix(Probes(hostGot), Probes(epSent))
    /\ credRet[4] = FlitSum(SubSeq(Resps(epSent), 1, Len(Resps(hostGot))))
    /\ credRet[2] = FlitSum(SubSeq(Probes(epSent), 1, Len(Probes(hostGot))))

\* get_source spins while the pool is empty, so a source that never comes
\* back starves every later operation with a response.  Each source is
\* either in Operations::available_sources exactly once or held by exactly
\* one thread waiting in perform(): create_operation's error path and the
\* return after wait_for_response give every popped source back, once.
\* (A thread that panicked in pack_write_partial ends the behaviour.)
SourcesConserved ==
    fault = None =>
        \A s \in Sources :
            Cardinality({i \in DOMAIN avail : avail[i] = s})
                = IF waiting[s] = None THEN 1 ELSE 0

\* credits() takes, for every message perform() queues, as many flit
\* credits as the message has flits (spec.md §4.C credit costs), so the
\* endpoint's buffers are never overrun.
CreditsCoverFlits ==
    \A i \in DOMAIN outstanding :
        outstanding[i].credits * 8 = Bytes(outstanding[i].flits)
====
