------------------------------- MODULE Frames -------------------------------
(***************************************************************************)
(* Frames on one direction of a channel: SendFrame and SendFrameBatch on   *)
(* the writing side, FrameReader::TryRecv under the Recv loop of PodCodec  *)
(* and ProtoCodec on the reading side.  The ring below is the byte stream  *)
(* RingBuf was shown to be: unpublished bytes are invisible, published     *)
(* ones stay put until they are committed.                                 *)
(*                                                                         *)
(* A cell stands for the bytes of one field: a header is a cell for len    *)
(* and a cell for seq, a payload is a sequence of cells.  Lengths are      *)
(* computed in uint32_t as in the code, with 2^32 written U32.             *)
(***************************************************************************)
EXTENDS Integers, Sequences, SequencesExt

CONSTANTS
  Capacity, BufSize,
  U32,       \* one more than the largest uint32_t
  Streams,   \* kinds of use of the channel, records of
             \*   prefix: what a payload of the reader's type starts with,
             \*   lens:   the lengths that a body of that type may have,
             \*   calls:  the sends of the application, as MessageCall makes them,
             \*   raw:    what a peer that does not keep to frames may write
  MaxSends   \* bound on the sends

ASSUME FramesAssumption ==
  /\ Capacity \in Nat /\ BufSize \in Nat /\ U32 \in Nat /\ MaxSends \in Nat
  /\ Capacity < U32

kMsgHeaderSize == 2
MaxWriteSize == Capacity \div 2

VARIABLES
  stream,           \* which of Streams this one is
  ring,             \* cells published and not yet committed by the reader
  rd,               \* physical offset of read_pos
  batch,            \* the open batch: cells, count, free; free = -1 when none
  pend,             \* frames the sender was told are in the open batch
  sent,             \* frames the sender was told are published
  sends,            \* number of sends so far
  pending_commit_,
  log,              \* what became of each frame read: [rc, seq, payload]
  rpc               \* where Recv is

writer == <<batch, pend, sent, sends>>
reader == <<rd, pending_commit_, log, rpc>>
vars == <<stream, ring, writer, reader>>

NoBatch == [cells |-> <<>>, count |-> 0, free |-> -1]
NewBatch == [cells |-> <<>>, count |-> 0, free |-> Capacity - Len(ring)]

Init ==
  /\ stream \in Streams
  /\ ring = <<>> /\ rd = 0
  /\ batch = NoBatch /\ pend = <<>> /\ sent = <<>> /\ sends = 0
  /\ pending_commit_ = 0 /\ log = <<>> /\ rpc = "idle"

-----------------------------------------------------------------------------
(* Faults: plausible slips in the code, to show that the properties below  *)
(* would notice them.  No behaviour of Spec uses one.                      *)

(* Nothing compares what the callback wrote with what was announced.       *)
CompleteFault(b, before, size) == TRUE

(* The test of the fast path forgets that the header is in seg1 too.       *)
InSeg1Fault(seg1, len) == len <= Len(seg1)

(* A frame may not be longer than one write.                               *)
TooLongFault(len) == len > MaxWriteSize

-----------------------------------------------------------------------------
(* Calls of the sender.  len: the payload_len passed; pieces: the lengths  *)
(* of the TryWrites of the callback; prefix: what it writes first; single: *)
(* a length compared with max_write_size up front; throws: whether the     *)
(* callback throws in the end.                                             *)
MessageCall(len, pieces, prefix, single, throws) ==
  [len |-> len, pieces |-> pieces, prefix |-> prefix, single |-> single, throws |-> throws]

(* codec.hpp Send.                                                         *)
Send(payload_len) ==
  MessageCall(payload_len, IF payload_len > 0 THEN <<payload_len>> ELSE <<>>,
              <<>>, payload_len, FALSE)

(* PodCodec::Send and SendBatch: a tag and an object.                      *)
PodSend(tag, size) == MessageCall(1 + size, <<1, size>>, <<tag>>, 0, FALSE)

(* ProtoCodec::Send and SendBatch: name_len, name, message; a message of   *)
(* length zero is not written.                                             *)
ProtoSend(name, pb_len) ==
  MessageCall(1 + Len(name) + pb_len,
              <<1, Len(name)>> \o IF pb_len > 0 THEN <<pb_len>> ELSE <<>>,
              <<Len(name)>> \o name, pb_len, FALSE)

(* n cells of the payload of the frame numbered seq.                       *)
Payload(prefix, seq, n) ==
  [k \in 1 .. n |-> IF k <= Len(prefix) THEN prefix[k] ELSE seq]

(* BatchWriter::TryWrite.                                                  *)
TryWrite(b, data) ==
  IF Len(data) = 0 \/ Len(data) > MaxWriteSize \/ Len(data) > b.free
  THEN b
  ELSE [cells |-> b.cells \o data, count |-> b.count + 1, free |-> b.free - Len(data)]

(* The header and then the pieces are written, each if there is room.      *)
WriteFrame(b, c, seq) ==
  LET n == Len(c.pieces)
      end[k \in 0 .. n] == IF k = 0 THEN 0 ELSE end[k - 1] + c.pieces[k]
      payload == Payload(c.prefix, seq, end[n])
      w[k \in 0 .. n] ==
        IF k = 0 THEN TryWrite(b, <<c.len, seq>>)
        ELSE TryWrite(w[k - 1], SubSeq(payload, end[k - 1] + 1, end[k]))
  IN  w[n]

(* RewindTo, and Cancel when before is the batch just started.             *)
RewindTo(b, before) ==
  [b EXCEPT !.cells = SubSeq(@, 1, Len(before.cells)),
            !.count = before.count, !.free = before.free]

FrameSize(len) == (kMsgHeaderSize + len) % U32

(* The callback wrote as many bytes as announced.                          *)
Complete(b, before, size) == Len(b.cells) - Len(before.cells) = size

(* What SendFrame and SendFrameBatch leave in the batch before.            *)
Written(before, c, seq) ==
  IF c.single > MaxWriteSize \/ before.free < FrameSize(c.len)
  THEN [ok |-> FALSE, b |-> before]
  ELSE LET b == WriteFrame(before, c, seq)
           ok == ~c.throws /\ Complete(b, before, FrameSize(c.len))
       IN  [ok |-> ok, b |-> IF ok THEN b ELSE RewindTo(b, before)]

(* The frame that a successful call has sent, as its caller sees it.       *)
FrameOf(c, seq, writes) ==
  [seq |-> seq, payload |-> Payload(c.prefix, seq, c.len), writes |-> writes]

SendFrame(c) ==
  /\ batch = NoBatch /\ sends < MaxSends
  /\ LET w == Written(NewBatch, c, sends)
     IN  /\ ring' = ring \o w.b.cells
         /\ sent' = IF w.ok THEN Append(sent, FrameOf(c, sends, w.b.count)) ELSE sent
  /\ sends' = sends + 1
  /\ UNCHANGED <<batch, pend, reader>>

StartBatch ==
  /\ batch = NoBatch /\ sends < MaxSends
  /\ batch' = NewBatch
  /\ UNCHANGED <<ring, pend, sent, sends, reader>>

SendFrameBatch(c) ==
  /\ batch # NoBatch /\ sends < MaxSends
  /\ LET w == Written(batch, c, sends)
     IN  /\ batch' = w.b
         /\ pend' = IF w.ok THEN Append(pend, FrameOf(c, sends, w.b.count - batch.count)) ELSE pend
  /\ sends' = sends + 1
  /\ UNCHANGED <<ring, sent, reader>>

(* A peer of the byte-stream interface writes what is no frame.            *)
WriteRaw(data) ==
  /\ batch = NoBatch /\ sends < MaxSends
  /\ ring' = ring \o TryWrite(NewBatch, data).cells
  /\ sends' = sends + 1
  /\ UNCHANGED <<batch, pend, sent, reader>>

(* Flush; the writer goes on with the read_pos it knows.                   *)
Flush ==
  /\ batch # NoBatch /\ batch.cells # <<>>
  /\ ring' = ring \o batch.cells
  /\ sent' = sent \o pend
  /\ batch' = [batch EXCEPT !.cells = <<>>, !.count = 0] /\ pend' = <<>>
  /\ UNCHANGED <<sends, reader>>

(* The destructor of the batch.                                            *)
CloseBatch ==
  /\ batch # NoBatch
  /\ ring' = ring \o batch.cells
  /\ sent' = sent \o pend
  /\ batch' = NoBatch /\ pend' = <<>>
  /\ UNCHANGED <<sends, reader>>

-----------------------------------------------------------------------------
(* The reader.                                                             *)

Recv ==
  /\ rpc = "idle"
  /\ rpc' = "commit"
  /\ UNCHANGED <<ring, writer, rd, pending_commit_, log>>

Committed == 0

(* FrameReader::Commit.                                                    *)
Commit ==
  /\ ring' = SubSeq(ring, pending_commit_ + 1, Len(ring))
  /\ rd' = (rd + pending_commit_) % Capacity
  /\ pending_commit_' = Committed

(* The Commit at the start of TryRecv.                                     *)
RecvCommit ==
  /\ rpc = "commit" /\ Commit
  /\ rpc' = "peek"
  /\ UNCHANGED <<writer, log>>

(* The owner commits a message it has done with.                           *)
OwnerCommit ==
  /\ rpc = "idle" /\ pending_commit_ > 0 /\ Commit
  /\ UNCHANGED <<writer, log, rpc>>

(* The cells of s from m to n, as far as s goes.                           *)
Slice(s, m, n) == SubSeq(s, m, Min({n, Len(s)}))

(* The segments that Peek returns.                                         *)
Seg1 == Slice(ring, 1, Capacity - rd)
Seg2 == SubSeq(ring, Capacity - rd + 1, Len(ring))

(* The header, which may cross the end of the ring.                        *)
Header ==
  IF Len(Seg1) >= kMsgHeaderSize THEN SubSeq(Seg1, 1, kMsgHeaderSize)
  ELSE Seg1 \o SubSeq(Seg2, 1, kMsgHeaderSize - Len(Seg1))

TooLong(len) == len > Capacity - kMsgHeaderSize

(* The body ends before the end of the ring.                               *)
InSeg1(seg1, len) == kMsgHeaderSize + len <= Len(seg1)

(* CopyFromSegments behind the header.                                     *)
CopyFromSegments(len) ==
  LET n1 == Len(Seg1) - kMsgHeaderSize
      off2 == IF n1 < 0 THEN -n1 ELSE 0
      part1 == IF n1 > 0 THEN Slice(Seg1, kMsgHeaderSize + 1, kMsgHeaderSize + len) ELSE <<>>
  IN  part1 \o Slice(Seg2, off2 + 1, off2 + len - Len(part1))

Body(len) ==
  IF InSeg1(Seg1, len) THEN Slice(Seg1, kMsgHeaderSize + 1, kMsgHeaderSize + len)
  ELSE CopyFromSegments(len)

(* DecodePayload and the test on the length, or ParseFromArray.            *)
Decodes(payload) ==
  LET n == Len(stream.prefix)
  IN  /\ Len(payload) >= n /\ SubSeq(payload, 1, n) = stream.prefix
      /\ Len(payload) - n \in stream.lens

(* The header, or a body of legal length, has not arrived in full.         *)
Incomplete ==
  Len(ring) >= kMsgHeaderSize =>
    ~TooLong(Header[1]) /\ Header[1] > Len(ring) - kMsgHeaderSize

(* TryRecv after its Commit, and what Recv makes of the result.  A frame   *)
(* that is dropped is committed before the next TryRecv of the loop.       *)
RecvEmpty ==
  /\ rpc = "peek" /\ Incomplete
  /\ rpc' = "idle"
  /\ UNCHANGED <<ring, writer, rd, pending_commit_, log>>

RecvIllegal ==
  /\ rpc = "peek" /\ Len(ring) >= kMsgHeaderSize /\ TooLong(Header[1])
  /\ rpc' = "broken"
  /\ UNCHANGED <<ring, writer, rd, pending_commit_, log>>

(* A slip: a frame that the buffer cannot hold is left where it is.        *)
RecvOversizeFault ==
  /\ rpc = "peek" /\ ~Incomplete /\ ~TooLong(Header[1])
  /\ ~InSeg1(Seg1, Header[1]) /\ Header[1] > BufSize
  /\ rpc' = "idle"
  /\ UNCHANGED <<ring, writer, rd, pending_commit_, log>>

(* A frame over the end of the ring that the buffer cannot hold is marked  *)
(* to be dropped.                                                          *)
RecvOversize ==
  /\ rpc = "peek" /\ ~Incomplete /\ ~TooLong(Header[1])
  /\ Header[1] > 0 /\ ~InSeg1(Seg1, Header[1]) /\ Header[1] > BufSize
  /\ pending_commit_' = kMsgHeaderSize + Header[1]
  /\ log' = Append(log, [rc |-> "skipped", seq |-> Header[2], payload |-> <<>>])
  /\ rpc' = "commit"
  /\ UNCHANGED <<ring, writer, rd>>

RecvFrame ==
  /\ rpc = "peek" /\ ~Incomplete /\ ~TooLong(Header[1])
  /\ Header[1] = 0 \/ InSeg1(Seg1, Header[1]) \/ Header[1] <= BufSize
  /\ pending_commit_' = kMsgHeaderSize + Header[1]
  /\ LET ok == Decodes(Body(Header[1]))
     IN  /\ log' = Append(log, [rc |-> IF ok THEN "message" ELSE "dropped",
                                seq |-> Header[2], payload |-> Body(Header[1])])
         /\ rpc' = IF ok THEN "idle" ELSE "commit"
  /\ UNCHANGED <<ring, writer, rd>>

-----------------------------------------------------------------------------
RecvStep == Recv \/ RecvCommit \/ RecvEmpty \/ RecvIllegal \/ RecvOversize \/ RecvFrame

Next ==
  /\ \/ \E c \in stream.calls : SendFrame(c) \/ SendFrameBatch(c)
     \/ \E data \in stream.raw : WriteRaw(data)
     \/ StartBatch \/ Flush \/ CloseBatch
     \/ RecvStep
     \/ OwnerCommit
  /\ UNCHANGED stream

(* The reader's event loop goes on calling Recv.                           *)
Spec == Init /\ [][Next]_vars /\ WF_vars(RecvStep /\ UNCHANGED stream)

-----------------------------------------------------------------------------
(* Types.  Ring and open batch together fit the ring, and what is to be    *)
(* committed is in the ring.                                               *)
TypeOK ==
  /\ ring \in Seq(0 .. U32 - 1) /\ rd \in 0 .. Capacity - 1
  /\ Len(ring) + Len(batch.cells) <= Capacity
  /\ batch.count \in 0 .. Capacity /\ batch.free \in -1 .. Capacity
  /\ pending_commit_ \in 0 .. Len(ring)
  /\ sends \in 0 .. MaxSends /\ Len(sent) + Len(pend) <= sends
  /\ rpc \in {"idle", "commit", "peek", "broken"}
  /\ \A k \in DOMAIN log : log[k].rc \in {"message", "dropped", "skipped"}

(* Only senders of frames write into the stream.                           *)
Framed == stream.raw = {}

Encode(f) == <<Len(f.payload), f.seq>> \o f.payload

(* Frames read and committed.                                              *)
Done == Len(log) - (IF pending_commit_ > 0 THEN 1 ELSE 0)

(* "No incomplete frame is published": the ring is exactly the frames that *)
(* senders were told are sent and that the reader has not committed, and   *)
(* the open batch those it was told are in it.  The frame whose payload    *)
(* was handed out last is still there.  Count of the batch is the number   *)
(* of their writes, although a frame that failed half-way had been         *)
(* counted.  And the state has its types.                                  *)
WholeFrames ==
  /\ TypeOK
  /\ batch.count = FoldLeft(LAMBDA n, f : n + f.writes, 0, pend)
  /\ Framed =>
    /\ ring = FlattenSeq([k \in 1 .. Len(sent) - Done |-> Encode(sent[Done + k])])
    /\ batch.cells = FlattenSeq([k \in DOMAIN pend |-> Encode(pend[k])])

(* The reader gets the frames in the order they were sent, none twice and  *)
(* none left out; every frame of its type whose payload fits the buffer    *)
(* arrives as a message with the payload sent, and no other one does.      *)
Received ==
  Framed =>
    /\ Len(log) <= Len(sent)
    /\ \A k \in DOMAIN log :
         /\ log[k].seq = sent[k].seq
         /\ log[k].rc # "skipped" => log[k].payload = sent[k].payload
         /\ log[k].rc = "message" => Decodes(sent[k].payload)
         /\ Decodes(sent[k].payload) /\ Len(sent[k].payload) <= BufSize
              => log[k].rc = "message"

(* Whatever is in the ring, Recv never goes round on it for ever: it comes *)
(* to wait for more, or reports the header as illegal.                     *)
Settles == []<>(Incomplete \/ rpc = "broken")

(* Recv judges a length rightly: it reports none as illegal that SendFrame *)
(* and SendFrameBatch accept, whatever size they accept, and waits for     *)
(* none that can never arrive.                                             *)
LengthJudged ==
  [][rpc = "peek" /\ log' = log =>
       /\ rpc' = "broken" => ~Framed
       /\ rpc' = "idle" /\ Len(ring) >= kMsgHeaderSize => kMsgHeaderSize + Header[1] <= Capacity]_vars

=============================================================================
