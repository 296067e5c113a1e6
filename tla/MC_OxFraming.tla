----------------------------- MODULE MC_OxFraming -----------------------------
(* OxFraming instantiated for TLC: the operations the simulator, bitload   *)
(* and the cache perform, with lengths that are powers of two and a few   *)
(* that are not, so that create_operation's error path and the short      *)
(* reads of ReadLen are among them.                                       *)
EXTENDS OxFraming, TLC

Op(k, l, p) == [kind |-> k, len |-> l, param |-> p]

\* Operations whose packing is correct, so the round trip should hold:
\* the simulator's calls with lengths that are powers of two and multiples
\* of 8 (and a short read), a write length that is not a power of two,
\* and the cache's ProbeAck (param NtoN) and ProbeAckData.
MCOpsAligned ==
    {SimCall("read_64", 0, 0), SimCall("read", 4, 0), SimCall("write_64", 0, 0),
     SimCall("write", 16, 0), SimCall("write", 24, 0),
     SimCall("acquire_block", 64, 1), SimCall("acquire_perm", 64, 0),
     SimCall("release", 64, 1), SimCall("release_data", 64, 0),
     Op("ProbeAck", 64, 5), Op("ProbeAckData", 64, 0)}

\* bitload writing a 44-byte file in 32-byte chunks: a WriteLen of 32 and
\* a WritePartial of the last 12 bytes.
MCOpsPartial == BitloadWriteOps(44, 32)
=============================================================================
