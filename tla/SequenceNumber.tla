--------------------------- MODULE SequenceNumber ---------------------------
(***************************************************************************)
(* The 22-bit modular sequence number of an OmniXtend connection           *)
(* (omnixtend-rs/src/sequence_number.rs).  The code fixes the modulus to   *)
(* 2^22; it is a constant here so that wrap-around can be reached with a   *)
(* small model.  Every operator is the arithmetic the Rust method does on  *)
(* its `Modulo` value.                                                     *)
(***************************************************************************)
EXTENDS Naturals

CONSTANT SeqModulus        \* 1 << 22 in SequenceNumber::modulus()

ASSUME SeqModulus \in Nat /\ SeqModulus >= 4 /\ SeqModulus % 2 = 0

SeqNums == 0 .. (SeqModulus - 1)

\* SequenceNumber::max(): the "nothing yet" sentinel, (1 << 22) - 1.
SeqMax == SeqModulus - 1

\* SequenceNumber::incr(): add one modulo 2^22.
SeqIncr(v) == (v + 1) % SeqModulus

\* SequenceNumber::diff(): self - v modulo 2^22.
SeqDiff(self, v) == (self - v + SeqModulus) % SeqModulus

\* SequenceNumber::cmp(v): TRUE iff self is at or after v in the half-space
\* sense, (self - v) mod 2^22 < 2^21.
SeqCmp(self, v) == SeqDiff(self, v) < SeqModulus \div 2

=============================================================================
