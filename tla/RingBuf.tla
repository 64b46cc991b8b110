------------------------------ MODULE RingBuf ------------------------------
(***************************************************************************)
(* The lock-free single-producer single-consumer byte ring of ringbuf.hpp: *)
(* RingBuf<Capacity> and its BatchWriter, one producer and one consumer    *)
(* running concurrently on the shared memory region.                       *)
(*                                                                         *)
(* write_pos and read_pos are the two atomics of RingHeader.  They are     *)
(* uint64_t and only ever grow, so they wrap: here they range over         *)
(* 0 .. Wrap - 1, and Wrap (2^64 in the code) is any multiple of Capacity  *)
(* other than Capacity itself.  Each step makes at most one access to an   *)
(* atomic the other side writes, and each memcpy is a step of its own.     *)
(*                                                                         *)
(* A call that returns without storing to shared or writer state (an empty *)
(* ring, no room, a zero or oversized length) is a stuttering step: its    *)
(* condition is the guard of the action.                                   *)
(***************************************************************************)
EXTENDS Integers, Sequences

CONSTANTS
  Capacity,  \* size of the data area in bytes, a template parameter
  Wrap,      \* number of values of a position (2^64)
  Byte,      \* the values of a byte
  Messages   \* the arguments the producer passes to its write calls

ASSUME CapacityAssumption == Capacity \in Nat \ {0}
ASSUME WrapAssumption == Wrap \in Nat /\ \E k \in 2 .. Wrap : Wrap = k * Capacity
ASSUME ByteAssumption == 0 \in Byte
ASSUME MessagesAssumption == Messages \subseteq Seq(Byte)

VARIABLES
  mem,        \* the data area
  write_pos,  \* stored by the producer only
  read_pos,   \* stored by the consumer only
  wop,        \* the producer's live object: "none", "TryWrite" or "Batch"
  wpc,        \* where the producer is
  w_, r_, w_start_, count_,  \* BatchWriter members; w and r of TryWrite
  mark,       \* <<PendingBytes(), Count()>> noted for a later RewindTo
  src,        \* the bytes of the write call in progress
  rpc,        \* where the consumer is
  avail,      \* bytes the consumer's call saw as readable
  len,        \* bytes the consumer's call will take
  dst         \* bytes copied out so far

producer == <<wop, wpc, w_, r_, w_start_, count_, mark, src>>
consumer == <<rpc, avail, len, dst>>
vars == <<mem, write_pos, read_pos, producer, consumer>>

-----------------------------------------------------------------------------
(* Arithmetic of uint64_t positions.                                       *)

Pos == 0 .. Wrap - 1

Plus(p, n) == IF p + n < Wrap THEN p + n ELSE p + n - Wrap

Minus(p, q) == IF p >= q THEN p - q ELSE p - q + Wrap

RingPhys(p) == p % Capacity

(* Bytes from the physical place of p to the end of the data area.         *)
Contig(p) == Capacity - RingPhys(p)

max_write_size == Capacity \div 2

Least(a, b) == IF a <= b THEN a ELSE b

Available == Minus(write_pos, read_pos)

FreeSpace == Capacity - Available

PendingBytes == Minus(w_, w_start_)

FreeBytes == Capacity - Minus(w_, r_)

(* memcpy into and out of the data area, at a physical offset.             *)
CopyIn(m, at, s) ==
  [i \in DOMAIN m |-> IF at <= i /\ i < at + Len(s) THEN s[i - at + 1] ELSE m[i]]

CopyOut(at, n) == [i \in 1 .. n |-> mem[at + i - 1]]

-----------------------------------------------------------------------------
Init ==
  /\ mem = [i \in 0 .. Capacity - 1 |-> 0]
  /\ write_pos = 0 /\ read_pos = 0
  /\ wop = "none" /\ wpc = "idle"
  /\ w_ = 0 /\ r_ = 0 /\ w_start_ = 0 /\ count_ = 0
  /\ mark = <<0, 0>>
  /\ src = <<>>
  /\ rpc = "idle"
  /\ avail = 0 /\ len = 0
  /\ dst = <<>>

-----------------------------------------------------------------------------
(* The producer.                                                           *)

(* Faults: plausible slips in ringbuf.hpp.  No behaviour of Spec uses one; *)
(* each shows that a property below would notice the slip.                 *)

(* The batch assumes that the consumer has caught up.                      *)
SnapshotFault ==
  /\ w_' = write_pos
  /\ r_' = write_pos
  /\ w_start_' = write_pos

(* The room check is off by one.                                           *)
FitsFault(w, r, n) ==
  /\ 0 < n /\ n <= max_write_size
  /\ Minus(Plus(w, n), r) <= Capacity + 1

(* The second memcpy copies the whole source again.                        *)
CopyHeadFault ==
  /\ wpc = "copy2"
  /\ mem' = CopyIn(mem, 0, src)
  /\ wpc' = "copied"
  /\ UNCHANGED <<write_pos, read_pos, wop, w_, r_, w_start_, count_, mark, src,
                 consumer>>

(* The second memcpy starts one byte early in the source.                  *)
CopyHeadShiftFault ==
  /\ wpc = "copy2"
  /\ mem' = CopyIn(mem, 0, SubSeq(src, Contig(w_), Len(src) - 1))
  /\ wpc' = "copied"
  /\ UNCHANGED <<write_pos, read_pos, wop, w_, r_, w_start_, count_, mark, src,
                 consumer>>

(* The message count is not rewound with the bytes.                        *)
RewindToFault ==
  /\ wpc = "ready"
  /\ mark[1] <= PendingBytes
  /\ w_' = Plus(w_start_, mark[1])
  /\ UNCHANGED <<mem, write_pos, read_pos, wop, wpc, r_, w_start_, count_, mark, src,
                 consumer>>

(* The two parts of a split copy are put together the wrong way round.     *)
CopyOutHeadFault ==
  /\ rpc = "copy2"
  /\ dst' = CopyOut(0, len - Contig(read_pos)) \o dst
  /\ rpc' = "copied"
  /\ UNCHANGED <<mem, write_pos, read_pos, producer, avail, len>>

-----------------------------------------------------------------------------
(* The loads of write_pos (its own) and read_pos (acquire).                *)
Snapshot ==
  /\ w_' = write_pos
  /\ r_' = read_pos
  /\ w_start_' = write_pos

(* The rejections every write call shares: length, then room.              *)
Fits(w, r, n) ==
  /\ 0 < n /\ n <= max_write_size
  /\ Minus(Plus(w, n), r) <= Capacity

(* RingBuf::TryWrite up to the first memcpy.                               *)
TryWrite(s) ==
  /\ wpc = "idle"
  /\ Fits(write_pos, read_pos, Len(s))
  /\ Snapshot
  /\ wop' = "TryWrite"
  /\ wpc' = "copy1"
  /\ src' = s
  /\ UNCHANGED <<mem, write_pos, read_pos, count_, mark, consumer>>

OpenBatch ==
  /\ wpc = "idle"
  /\ Snapshot
  /\ wop' = "Batch"
  /\ wpc' = "ready"
  /\ count_' = 0
  /\ mark' = <<0, 0>>
  /\ UNCHANGED <<mem, write_pos, read_pos, src, consumer>>

BatchTryWrite(s) ==
  /\ wpc = "ready"
  /\ Fits(w_, r_, Len(s))
  /\ wpc' = "copy1"
  /\ src' = s
  /\ UNCHANGED <<mem, write_pos, read_pos, wop, w_, r_, w_start_, count_, mark,
                 consumer>>

(* The first memcpy: as much as fits before the end of the data area.      *)
CopyTail ==
  /\ wpc = "copy1"
  /\ mem' = CopyIn(mem, RingPhys(w_), SubSeq(src, 1, Least(Len(src), Contig(w_))))
  /\ wpc' = IF Len(src) <= Contig(w_) THEN "copied" ELSE "copy2"
  /\ UNCHANGED <<write_pos, read_pos, wop, w_, r_, w_start_, count_, mark, src,
                 consumer>>

(* The second memcpy: the rest, at the start of the data area.             *)
CopyHead ==
  /\ wpc = "copy2"
  /\ mem' = CopyIn(mem, 0, SubSeq(src, Contig(w_) + 1, Len(src)))
  /\ wpc' = "copied"
  /\ UNCHANGED <<write_pos, read_pos, wop, w_, r_, w_start_, count_, mark, src,
                 consumer>>

(* RingBuf::TryWrite: the release store, and return 0.                     *)
TryWriteStore ==
  /\ wpc = "copied" /\ wop = "TryWrite"
  /\ write_pos' = Plus(w_, Len(src))
  /\ wop' = "none" /\ wpc' = "idle"
  /\ src' = <<>>
  /\ UNCHANGED <<mem, read_pos, w_, r_, w_start_, count_, mark, consumer>>

(* w_ += len, ++count_: the end of BatchWriter::TryWrite, and all of       *)
(* CommitReserve.                                                          *)
Advance ==
  /\ w_' = Plus(w_, Len(src))
  /\ count_' = count_ + 1
  /\ wpc' = "ready"
  /\ src' = <<>>
  /\ UNCHANGED <<mem, write_pos, read_pos, wop, r_, w_start_, mark, consumer>>

BatchTryWriteEnd ==
  /\ wpc = "copied" /\ wop = "Batch"
  /\ Advance

(* A region is handed out only when it does not cross the end of the data  *)
(* area.  The caller fills it, and commits it or gives it up.              *)
Reserve(s) ==
  /\ wpc = "ready"
  /\ Fits(w_, r_, Len(s))
  /\ Len(s) <= Contig(w_)
  /\ wpc' = "fill"
  /\ src' = s
  /\ UNCHANGED <<mem, write_pos, read_pos, wop, w_, r_, w_start_, count_, mark,
                 consumer>>

FillReserved ==
  /\ wpc = "fill"
  /\ mem' = CopyIn(mem, RingPhys(w_), src)
  /\ wpc' = "filled"
  /\ UNCHANGED <<write_pos, read_pos, wop, w_, r_, w_start_, count_, mark, src,
                 consumer>>

CommitReserve ==
  /\ wpc = "filled"
  /\ Advance

AbandonReserve ==
  /\ wpc = "filled"
  /\ wpc' = "ready"
  /\ src' = <<>>
  /\ UNCHANGED <<mem, write_pos, read_pos, wop, w_, r_, w_start_, count_, mark,
                 consumer>>

(* The caller notes where a frame starts, to undo it if it fails half way. *)
NoteMark ==
  /\ wpc = "ready"
  /\ mark' = <<PendingBytes, count_>>
  /\ UNCHANGED <<mem, write_pos, read_pos, wop, wpc, w_, r_, w_start_, count_, src,
                 consumer>>

RewindTo ==
  /\ wpc = "ready"
  /\ mark[1] <= PendingBytes
  /\ w_' = Plus(w_start_, mark[1])
  /\ count_' = mark[2]
  /\ UNCHANGED <<mem, write_pos, read_pos, wop, wpc, r_, w_start_, mark, src,
                 consumer>>

Cancel ==
  /\ wpc = "ready"
  /\ w_' = w_start_
  /\ count_' = 0
  /\ mark' = <<0, 0>>
  /\ UNCHANGED <<mem, write_pos, read_pos, wop, wpc, r_, w_start_, src, consumer>>

(* The body of BatchWriter::Flush: one release store for the whole batch.  *)
PublishBatch ==
  /\ write_pos' = IF w_ # w_start_ THEN w_ ELSE write_pos
  /\ w_start_' = IF w_ # w_start_ THEN w_ ELSE w_start_
  /\ count_' = 0
  /\ mark' = <<0, 0>>

Flush ==
  /\ wpc = "ready"
  /\ PublishBatch
  /\ UNCHANGED <<mem, read_pos, wop, wpc, w_, r_, src, consumer>>

(* ~BatchWriter.                                                           *)
CloseBatch ==
  /\ wpc = "ready"
  /\ PublishBatch
  /\ wop' = "none" /\ wpc' = "idle"
  /\ UNCHANGED <<mem, read_pos, w_, r_, src, consumer>>

-----------------------------------------------------------------------------
(* The consumer.  Its loads of read_pos (its own) and write_pos (acquire)  *)
(* are one step; read_pos keeps that value until the call stores it.       *)

StartRead(n, pc) ==
  /\ rpc = "idle"
  /\ Available > 0
  /\ n > 0
  /\ avail' = Available
  /\ len' = n
  /\ rpc' = pc
  /\ UNCHANGED <<mem, write_pos, read_pos, producer, dst>>

TryRead(max_len) == StartRead(Least(Available, max_len), "copy1")

ReadExact(n) ==
  /\ Available >= n
  /\ StartRead(n, "copy1")

(* The two memcpys of RingCopyOut.                                         *)
CopyOutTail ==
  /\ rpc = "copy1"
  /\ dst' = CopyOut(RingPhys(read_pos), Least(len, Contig(read_pos)))
  /\ rpc' = IF len <= Contig(read_pos) THEN "copied" ELSE "copy2"
  /\ UNCHANGED <<mem, write_pos, read_pos, producer, avail, len>>

CopyOutHead ==
  /\ rpc = "copy2"
  /\ dst' = dst \o CopyOut(0, len - Contig(read_pos))
  /\ rpc' = "copied"
  /\ UNCHANGED <<mem, write_pos, read_pos, producer, avail, len>>

(* The release store that ends TryRead and ReadExact.                      *)
ReadStore ==
  /\ rpc = "copied"
  /\ read_pos' = Plus(read_pos, len)
  /\ rpc' = "idle"
  /\ dst' = <<>>
  /\ avail' = 0 /\ len' = 0
  /\ UNCHANGED <<mem, write_pos, producer>>

(* The caller holds pointers into the ring until it commits or drops them. *)
Peek == StartRead(Available, "view")

CommitRead(n) ==
  /\ rpc = "view"
  /\ 0 < n /\ n <= len
  /\ read_pos' = Plus(read_pos, n)
  /\ rpc' = "idle"
  /\ avail' = 0 /\ len' = 0
  /\ UNCHANGED <<mem, write_pos, producer, dst>>

DropView ==
  /\ rpc = "view"
  /\ rpc' = "idle"
  /\ avail' = 0 /\ len' = 0
  /\ UNCHANGED <<mem, write_pos, read_pos, producer, dst>>

-----------------------------------------------------------------------------
Produce ==
  \/ \E s \in Messages : TryWrite(s) \/ BatchTryWrite(s) \/ Reserve(s)
  \/ OpenBatch
  \/ CopyTail \/ CopyHead \/ TryWriteStore \/ BatchTryWriteEnd
  \/ FillReserved \/ CommitReserve \/ AbandonReserve
  \/ NoteMark \/ RewindTo \/ Cancel \/ Flush \/ CloseBatch

Consume ==
  \/ \E n \in 1 .. Capacity : TryRead(n) \/ ReadExact(n) \/ CommitRead(n)
  \/ Peek \/ CopyOutTail \/ CopyOutHead \/ ReadStore \/ DropView

Next == Produce \/ Consume

Spec == Init /\ [][Next]_vars

-----------------------------------------------------------------------------
(* Properties.                                                             *)

(* The n bytes at position p, in stream order.                             *)
Slice(p, n) == [i \in 1 .. n |-> mem[RingPhys(Plus(p, i - 1))]]

(* The physical cells of the n bytes at position p.                        *)
Cells(p, n) == {RingPhys(Plus(p, i)) : i \in 0 .. n - 1}

(* The bytes the consumer may still read, and those of the open batch.     *)
Unread == Slice(read_pos, Available)

Pending == IF wop = "Batch" THEN Slice(w_start_, PendingBytes) ELSE <<>>

(* Types of the shared positions, the BatchWriter members and the locals   *)
(* of the calls in progress.                                               *)
TypeOK ==
  /\ mem \in [0 .. Capacity - 1 -> Byte]
  /\ write_pos \in Pos /\ read_pos \in Pos
  /\ wop \in {"none", "TryWrite", "Batch"}
  /\ wpc \in {"idle", "ready", "copy1", "copy2", "copied", "fill", "filled"}
  /\ w_ \in Pos /\ r_ \in Pos /\ w_start_ \in Pos
  /\ count_ \in 0 .. Capacity
  /\ mark \in (0 .. Capacity) \X (0 .. Capacity)
  /\ src \in Seq(Byte)
  /\ rpc \in {"idle", "copy1", "copy2", "copied", "view"}
  /\ avail \in 0 .. Capacity /\ len \in 0 .. Capacity
  /\ dst \in Seq(Byte)

(* A write call in progress (both memcpys of TryWrite, or the caller       *)
(* filling a reserved region) only touches cells that hold no published    *)
(* unread byte, hence none that a TryRead, ReadExact or Peek of the        *)
(* consumer is looking at: the memcpys of ringbuf.hpp never race, although *)
(* the room check uses a read_pos that may be stale.                       *)
NoDataRace ==
  wpc \in {"copy1", "copy2", "copied", "fill", "filled"} =>
    Cells(w_, Len(src)) \cap Cells(read_pos, Available) = {}

(* What a TryRead or ReadExact has copied out when it stores read_pos is   *)
(* exactly the oldest unread bytes in stream order, also when the copy     *)
(* crosses the end of the data area and the producer publishes meanwhile.  *)
ReadsOldest ==
  rpc = "copied" => dst = SubSeq(Unread, 1, len)

(* ChannelBatchWriter::Flush wakes the peer iff count_ > 0, but write_pos  *)
(* is stored iff w_ # w_start_: the two agree after any mix of TryWrite,   *)
(* CommitReserve, Cancel and RewindTo, so a batch that publishes bytes     *)
(* always notifies.                                                        *)
PublishNotifies ==
  wop = "Batch" => (count_ > 0 <=> w_ # w_start_)

(* The producer never leaves the ring holding more than Capacity bytes,    *)
(* published or pending, and never runs past the consumer, whatever the    *)
(* positions' wrap-around: FreeSpace and FreeBytes never underflow.        *)
NeverOverfull ==
  /\ Available + Len(Pending) + Len(src) <= Capacity
  /\ wop = "Batch" => FreeBytes >= 0 /\ FreeBytes <= FreeSpace - PendingBytes

(* The pointers returned by Peek stay good until CommitRead: no step       *)
(* changes a byte of a held view, or of a region a copy-out is reading.    *)
ViewStable ==
  [][rpc # "idle" =>
       \A c \in Cells(read_pos, avail) : mem'[c] = mem[c]]_vars

(* The ring implements the bounded transactional FIFO of ByteStream.       *)
Stream == INSTANCE ByteStream WITH pending <- Pending, queue <- Unread

(* Every behaviour of RingBuf is one of ByteStream: writes and batches     *)
(* reach the consumer whole, in order and exactly once, TryWrite at its    *)
(* release store and a batch at Flush.                                     *)
ImplementsByteStream == Stream!Spec

=============================================================================
