------------------------------ MODULE MC_OxLink ------------------------------
(* OxLink instantiated for TLC: two Get requests, channels A and D.  The  *)
(* frames a behaviour may number are bounded (MCConstraint), or only the  *)
(* frames both resend buffers hold (MCWrapConstraint), so that sequence   *)
(* numbers wrap around in a small sequence space.                         *)
EXTENDS OxLink, TLC

CONSTANTS
    MaxFrames,   \* frames each side may number in one behaviour
    WireMax,     \* frames each direction of the link may hold at once
    Closing,     \* whether the behaviours include closing the connection
    Window       \* frames both resend buffers may hold, below SeqModulus \div 2

MCConstraint ==
    /\ nextTx <= MaxFrames /\ epNextTx <= MaxFrames
    /\ Len(toEp) <= WireMax /\ Len(toHost) <= WireMax
    /\ Closing \/ (closePc \in {"new", "open"} /\ epState # "Closing")

\* The behaviours of MCConstraint, and those that go on numbering frames
\* while the two resend buffers together hold at most Window of them: with
\* more than SeqModulus frames the host's sequence numbers wrap around,
\* and the buffers stay below half the sequence space, where
\* SequenceNumber::cmp() tells older from newer.
MCWrapConstraint ==
    /\ Len(toEp) <= WireMax /\ Len(toHost) <= WireMax
    /\ Closing \/ (closePc \in {"new", "open"} /\ epState # "Closing")
    /\ \/ \A d \in Dirs : numbered[d] <= MaxFrames
       \/ /\ \A d \in Dirs : numbered[d] <= SeqModulus + MaxFrames
          /\ Len(resendBuffer) + Len(epResend) <= Window

MCSymmetry == Permutations(Reqs)

=============================================================================
