------------------------------- MODULE TLCodec -------------------------------
(***************************************************************************)
(* The TileLink wire codec of omnixtend-rs: the flit header layout         *)
(* (tilelink_messages.rs), the pack_* functions and credits() of           *)
(* operations.rs, and the parser Channel::process_messages (channels.rs).  *)
(*                                                                         *)
(* A 64-bit word is the set of its 1-bits, so the header layout is checked *)
(* bit for bit without 64-bit integers.  A flit is a record: w is its word *)
(* as the parser sees it, tag and n are bookkeeping of the model (what the *)
(* flit holds and how many of its 8 bytes are user data), and b its length *)
(* in bytes, 8 except for the tail of a short write.                       *)
(***************************************************************************)
EXTENDS Naturals, Sequences, SequencesExt, FiniteSetsExt

\* The low w bits of v, as bit positions.
BitsOf(v, w) == {j \in 0 .. w - 1 : (v \div 2^j) % 2 = 1}
\* The number a set of bit positions (below 31) stands for.
ValueOf(S) == SumSet({2^j : j \in S})

\* escape_bits_shift and extract_bits_shift.
EscapeBitsShift(v, b, s) == {s + j : j \in BitsOf(v, b)}
ExtractBitsShift(word, b, s) == ValueOf({j \in 0 .. b - 1 : s + j \in word})

\* From<ChanABCDTilelinkMessage> for u64: width and shift of each field.
HeaderLayout ==
    [chan |-> <<3, 60>>, opcode |-> <<3, 57>>, param |-> <<4, 52>>,
     size |-> <<4, 48>>, domain |-> <<8, 40>>, err |-> <<2, 38>>,
     source |-> <<26, 0>>]

\* A field shifted one bit too far (mutant of EncodeHeader).
EncodeHeaderShifted(h) ==
    UNION {EscapeBitsShift(h[f], HeaderLayout[f][1],
                           HeaderLayout[f][2] + IF f = "param" THEN 1 ELSE 0) :
           f \in DOMAIN HeaderLayout}

EncodeHeader(h) ==
    UNION {EscapeBitsShift(h[f], HeaderLayout[f][1], HeaderLayout[f][2]) :
           f \in DOMAIN HeaderLayout}

\* OmnixtendChannel::from(u64): the values that name a channel; any other
\* panics.
ChannelKnown(c) == c \in 0 .. 5

\* From<u64> for ChanABCDTilelinkMessage.  A channel of 6 or 7 makes
\* OmnixtendChannel::from panic; the parser checks for it.
DecodeHeader(w) ==
    [f \in DOMAIN HeaderLayout |->
        ExtractBitsShift(w, HeaderLayout[f][1], HeaderLayout[f][2])]

\* From<ChanETilelinkMessage> for u64.
EncodeE(sink) == EscapeBitsShift(5, 3, 60) \cup EscapeBitsShift(sink, 26, 0)

Hdr(c, o, p, s, src) ==
    [chan |-> c, opcode |-> o, param |-> p, size |-> s, domain |-> 0,
     err |-> 0, source |-> src]

Flit(w, tag, n) == [w |-> w, tag |-> tag, n |-> n, b |-> 8]
HdrFlit(h) == Flit(EncodeHeader(h), "hdr", 0)
AddrFlit == Flit({}, "addr", 0)
ZeroFlit == Flit({}, "pad", 0)

\* chunkize_packet: the data in flits of 8 bytes, the last one padded with
\* zeros, copied into the buffer byte for byte: a tail shorter than a flit
\* stays short in a buffer of 16 + len bytes.
DataFlits(len) ==
    [i \in 1 .. (len + 7) \div 8 |->
        LET n == Min({8, len - 8 * (i - 1)}) IN
        [w |-> {}, tag |-> "data", n |-> n, b |-> n]]

IsPow2(n) == \E k \in 0 .. 16 : 2^k = n
\* (len as f64).log2() as u8: the floor of the logarithm.
LenLog2(n) == CHOOSE k \in 0 .. 16 : 2^k <= n /\ n < 2^(k + 1)
\* usize::next_power_of_two
NextPow2(n) == CHOOSE p \in {2^k : k \in 0 .. 16} : p >= n /\ p \div 2 < n

\* An operation the host performs: kind, data or block length, and param.
OpKindsAll == {"Read", "ReadLen", "Write", "WriteLen", "WritePartial",
               "AcquireBlock", "AcquirePerm", "Release", "ReleaseData",
               "ProbeAck", "ProbeAckData", "GrantAck"}

\* has_return
HasReturn(op) == op.kind \notin {"GrantAck", "ProbeAck", "ProbeAckData"}

\* The masks pack_write_partial puts before every 8 data flits.
PartialMasks(len) ==
    LET mlen == Max({NextPow2(len) \div 64, 1})
        full == len \div 64
    IN [j \in 1 .. mlen |->
          IF j - 1 < full THEN 0 .. 63
          ELSE IF j - 1 = full /\ len % 64 # 0 THEN len % 64 .. 63
          ELSE {}]

\* The loop of pack_write_partial: a mask before every 8 data flits, each
\* data chunk written as a whole u64.
PartialBody(len) ==
    LET d == [i \in DOMAIN DataFlits(len) |-> [DataFlits(len)[i] EXCEPT !.b = 8]]
        m == PartialMasks(len)
    IN FlattenSeq([i \in 1 .. Len(d) |->
          IF (i - 1) % 8 = 0 THEN <<Flit(m[(i - 1) \div 8 + 1], "mask", 0), d[i]>>
          ELSE <<d[i]>>])

\* The buffer pack_write_partial allocates, in flits.
PartialTotal(len) ==
    2 + Max({NextPow2(len) \div 64, 1}) + NextPow2(len) \div 8

\* The error create_operation returns for an operation: a length that is
\* not a power of two, or pack_write_partial writing past its buffer, a
\* panic of the application thread.
PackError(op) ==
    CASE op.kind \in {"WriteLen", "AcquireBlock", "AcquirePerm", "Release",
                      "ReleaseData", "ProbeAckData"} /\ ~IsPow2(op.len) -> "NotPowTwo"
      [] op.kind = "WritePartial"
           /\ 2 + Len(PartialBody(op.len)) > PartialTotal(op.len) -> "Panic"
      [] OTHER -> "none"

\* The header and address flits of a message on channel c.
HdrAddr(c, o, p, s, src) == <<HdrFlit(Hdr(c, o, p, s, src)), AddrFlit>>

\* pack_read_len, pack_read_64, pack_write_len, pack_write_64,
\* pack_acquire_block, pack_acquire_perm and pack_write_partial: the
\* channel A messages.  A Write of 64 bits is a WriteLen of 8 bytes.
PackA(op, src) ==
    LET l == op.len IN
    CASE op.kind \in {"Read", "ReadLen"} -> HdrAddr(1, 4, 0, LenLog2(l), src)
      [] op.kind \in {"Write", "WriteLen"} ->
            HdrAddr(1, 0, 0, LenLog2(l), src) \o DataFlits(l)
      [] op.kind = "AcquireBlock" -> HdrAddr(1, 6, op.param, LenLog2(l), src)
      [] op.kind = "AcquirePerm" -> HdrAddr(1, 7, op.param, LenLog2(l), src)
      [] op.kind = "WritePartial" ->
            LET body == PartialBody(l) IN
            HdrAddr(1, 1, 0, LenLog2(NextPow2(l)), src) \o body
              \o [i \in 1 .. PartialTotal(l) - 2 - Len(body) |-> ZeroFlit]

\* pack_release, pack_release_data, pack_probe and pack_probe_data: the
\* channel C messages; a ProbeAck carries the probe's size and source 0.
PackC(op, src) ==
    LET s == LenLog2(op.len) IN
    CASE op.kind = "Release" -> HdrAddr(3, 6, op.param, s, src)
      [] op.kind = "ReleaseData" -> HdrAddr(3, 7, op.param, s, src) \o DataFlits(op.len)
      [] op.kind = "ProbeAck" -> HdrAddr(3, 4, op.param, s, src)
      [] op.kind = "ProbeAckData" -> HdrAddr(3, 5, op.param, s, src) \o DataFlits(op.len)

\* From<&OpAndSource> for Result<Vec<u8>>: the packed flits of an
\* operation with source src; pack_grant_ack is the one channel E word.
Pack(op, src) ==
    CASE op.kind = "GrantAck" -> <<Flit(EncodeE(op.param), "hdr", 0)>>
      [] op.kind \in {"Release", "ReleaseData", "ProbeAck", "ProbeAckData"} -> PackC(op, src)
      [] OTHER -> PackA(op, src)

\* credits() counting a ReleaseData without its header and address flits
\* (mutant of OpCredits).
OpCreditsNoHeader(op) ==
    CASE op.kind = "Release" -> <<3, 2>>
      [] op.kind = "ReleaseData" -> <<3, op.len \div 8>>
      [] op.kind = "ProbeAckData" -> <<3, 2 + op.len \div 8>>
      [] op.kind \in {"AcquireBlock", "AcquirePerm", "ReadLen", "Read"} -> <<1, 2>>
      [] op.kind = "WriteLen" -> <<1, 2 + op.len \div 8>>
      [] op.kind = "Write" -> <<1, 3>>
      [] op.kind = "GrantAck" -> <<5, 1>>
      [] op.kind = "ProbeAck" -> <<3, 2>>
      [] op.kind = "WritePartial" ->
            <<1, 2 + Max({NextPow2(op.len) \div 64, 1}) + NextPow2(op.len) \div 8>>

\* credits(): the channel and the number of flits perform() takes credits
\* for.
OpCredits(op) ==
    CASE op.kind = "Release" -> <<3, 2>>
      [] op.kind \in {"ReleaseData", "ProbeAckData"} -> <<3, 2 + op.len \div 8>>
      [] op.kind \in {"AcquireBlock", "AcquirePerm", "ReadLen", "Read"} -> <<1, 2>>
      [] op.kind = "WriteLen" -> <<1, 2 + op.len \div 8>>
      [] op.kind = "Write" -> <<1, 3>>
      [] op.kind = "GrantAck" -> <<5, 1>>
      [] op.kind = "ProbeAck" -> <<3, 2>>
      [] op.kind = "WritePartial" ->
            <<1, 2 + Max({NextPow2(op.len) \div 64, 1}) + NextPow2(op.len) \div 8>>

\* The bytes of a packed message.
Bytes(flits) == FoldLeft(LAMBDA acc, f : acc + f.b, 0, flits)

\* handle_read: the flits of read data, at least one.
ReadFlitsNoMax(size) == 2^size \div 8
ReadFlits(size) == Max({2^size \div 8, 1})

NoParse == [credits |-> <<>>, probes |-> <<>>, responses |-> <<>>,
            fault |-> "none"]

\* The body of the loop of process_messages at flit pos, and the rest of the
\* loop: it runs while pos is before the mask trailer.  A header on
\* channel A, C or E, an unknown D opcode, a channel of 6 or 7 or a read
\* past the payload panics; an unknown B opcode leaves pos where it is, so
\* the loop never ends ("stuck").
RECURSIVE ParseFrom(_, _, _)
ParseFrom(pl, pos, acc) ==
    IF pos > Len(pl) - 1 THEN acc
    ELSE
    LET h         == DecodeHeader(pl[pos].w)
        denied    == (h.err \div 2) % 2 = 1
        readFlits == ReadFlits(h.size)
        Sink      == ValueOf(pl[pos + 1].w \cap 0 .. 25)
        Fault(f)  == [acc EXCEPT !.fault = f]
        Fits(np)  == pos + np <= Len(pl) + 1
        Resp(sink, nbytes, den, np) ==
            IF ~Fits(np) THEN Fault("panic")
            ELSE ParseFrom(pl, pos + np,
                   [acc EXCEPT !.credits = Append(@, <<h.chan, np>>),
                               !.responses = Append(@, [source |-> h.source,
                                   sink |-> sink, nbytes |-> nbytes,
                                   denied |-> den])])
    IN
    CASE ~ChannelKnown(h.chan)        -> Fault("panic")
      [] h.chan = 0                    -> ParseFrom(pl, pos + 1, acc)
      [] h.chan \in {1, 3, 5}          -> Fault("panic")
      [] h.chan = 2 /\ h.opcode \in {6, 7} ->
            IF ~Fits(2) THEN Fault("panic")
            ELSE ParseFrom(pl, pos + 2,
                   [acc EXCEPT !.credits = Append(@, <<2, 2>>),
                               !.probes = Append(@, [opcode |-> h.opcode,
                                                     param |-> h.param])])
      [] h.chan = 2                    -> Fault("stuck")
      [] h.opcode = 0 -> Resp(0, 0, denied, 1)
      [] h.opcode = 1 -> Resp(0, 2^h.size, denied, 1 + readFlits)
      [] h.opcode = 4 -> IF ~Fits(2) THEN Fault("panic") ELSE Resp(Sink, 0, denied, 2)
      [] h.opcode = 5 -> IF ~Fits(2) THEN Fault("panic")
                         ELSE Resp(Sink, 2^h.size, denied, 2 + readFlits)
      [] h.opcode = 6 -> Resp(0, 0, FALSE, 1)
      [] OTHER        -> Fault("panic")

\* process_messages: a payload shorter than a flit is an error, which
\* process_packet turns into nothing parsed.
ProcessMessages(pl) == IF Len(pl) < 1 THEN NoParse ELSE ParseFrom(pl, 1, NoParse)
=============================================================================
