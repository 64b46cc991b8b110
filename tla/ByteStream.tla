----------------------------- MODULE ByteStream -----------------------------
(***************************************************************************)
(* What the single-producer single-consumer byte ring of ringbuf.hpp       *)
(* promises its two users, with no positions, no wrap-around and no shared *)
(* memory: a bounded FIFO of bytes with a transactional write side.        *)
(*                                                                         *)
(*   src      the bytes the producer has handed to a write call in         *)
(*            progress, <<>> when there is none                            *)
(*   pending  the bytes an open batch has accepted but not published       *)
(*   queue    the published bytes the consumer has not taken               *)
(*                                                                         *)
(* Module RingBuf is shown to implement this specification.                *)
(***************************************************************************)
EXTENDS Integers, Sequences

CONSTANTS Byte, Capacity

VARIABLES src, pending, queue

vars == <<src, pending, queue>>

Init ==
  /\ src = <<>>
  /\ pending = <<>>
  /\ queue = <<>>

(* A write call accepts its argument: it is not empty, at most half the    *)
(* ring, and everything accepted and not yet taken fits in the ring.       *)
Offer ==
  /\ src = <<>>
  /\ src' \in Seq(Byte) \ {<<>>}
  /\ Len(src') <= Capacity \div 2
  /\ Len(queue) + Len(pending) + Len(src') <= Capacity
  /\ UNCHANGED <<pending, queue>>

(* The write becomes part of the open batch, in one piece.                 *)
Accept ==
  /\ src # <<>>
  /\ pending' = pending \o src
  /\ src' = <<>>
  /\ UNCHANGED queue

(* The write leaves no trace.                                              *)
Withdraw ==
  /\ src # <<>>
  /\ src' = <<>>
  /\ UNCHANGED <<pending, queue>>

(* The write reaches the consumer at once, in one piece.                   *)
Write ==
  /\ src # <<>>
  /\ pending = <<>>
  /\ queue' = queue \o src
  /\ src' = <<>>
  /\ UNCHANGED pending

(* The last writes of the batch, or all of them, are undone.               *)
Rollback ==
  /\ src = <<>>
  /\ \E n \in 0 .. Len(pending) : pending' = SubSeq(pending, 1, n)
  /\ UNCHANGED <<src, queue>>

(* The batch reaches the consumer at once, in order.                       *)
Publish ==
  /\ src = <<>>
  /\ queue' = queue \o pending
  /\ pending' = <<>>
  /\ UNCHANGED src

(* The consumer takes some of the oldest bytes.                            *)
Consume ==
  /\ \E n \in 1 .. Len(queue) : queue' = SubSeq(queue, n + 1, Len(queue))
  /\ UNCHANGED <<src, pending>>

Next ==
  \/ Offer \/ Accept \/ Withdraw \/ Write \/ Rollback \/ Publish
  \/ Consume

Spec == Init /\ [][Next]_vars

=============================================================================
