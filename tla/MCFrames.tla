----------------------------- MODULE MCFrames -------------------------------
(***************************************************************************)
(* Frames on a ring of 8 cells with a reader of PodCodec, whose objects    *)
(* have one cell, or of ProtoCodec, whose type has the name <<5>>.         *)
(***************************************************************************)
EXTENDS Frames

PodPrefix == <<7>>
ProtoPrefix == <<1, 5>>

(* A callback of SendFrame that writes the payload in pieces.              *)
Piecewise(len, pieces) == MessageCall(len, pieces, <<>>, 0, FALSE)
Throwing(len, pieces) == MessageCall(len, pieces, <<>>, 0, TRUE)

(* Messages of the type, of another type and size, frames of every size up *)
(* to one more than the ring holds, short, long and throwing callbacks.    *)
PodCalls ==
  {PodSend(7, 1), PodSend(6, 1), PodSend(7, 3)}
  \cup {Send(n) : n \in {0, 5}}
  \cup {Piecewise(6, <<3, 3>>), Piecewise(7, <<4, 3>>)}
  \cup {Piecewise(3, <<2>>), Piecewise(2, <<2, 1>>), Throwing(2, <<1>>)}

ProtoCalls ==
  {ProtoSend(<<5>>, 0), ProtoSend(<<5>>, 2), ProtoSend(<<6>>, 1), ProtoSend(<<>>, 1),
   ProtoSend(<<5>>, 5), Send(1)}

(* A message of the type.                                                  *)
MessageCalls == {PodSend(7, 1)}

(* Cells that are no frames: a legal header with a payload that may never  *)
(* be complete, one with an illegal length, and a piece of a header.       *)
RawCells == {<<5, 1>>, <<7, 0>>, <<3>>, <<6, 6, 6>>}

(* The three streams.                                                      *)
MCStreams ==
  {[prefix |-> PodPrefix, lens |-> {1}, calls |-> PodCalls, raw |-> {}],
   [prefix |-> ProtoPrefix, lens |-> {0, 1, 2}, calls |-> ProtoCalls, raw |-> {}],
   [prefix |-> PodPrefix, lens |-> {1}, calls |-> MessageCalls, raw |-> RawCells]}
=============================================================================
