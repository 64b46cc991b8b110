----------------------------- MODULE MCRingBuf -----------------------------
(***************************************************************************)
(* RingBuf for TLC: every message of up to MaxLen bytes over two values.   *)
(***************************************************************************)
EXTENDS RingBuf, SequencesExt

CONSTANT MaxLen

MCMessages == BoundedSeq(Byte, MaxLen)

=============================================================================
