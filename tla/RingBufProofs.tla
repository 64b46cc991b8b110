--------------------------- MODULE RingBufProofs ---------------------------
(***************************************************************************)
(* Proofs about RingBuf, for every Capacity, every Wrap that is a multiple *)
(* of it, and every set of messages.                                       *)
(***************************************************************************)
EXTENDS RingBuf, TLAPS

(* Most leaves are first-order: Zenon is the prover unless one cites SMT.  *)
USE Zenon

(* The producer's side: write_pos is where its object started, the         *)
(* read_pos it took then is never ahead of the real one, and everything    *)
(* between that read_pos and the end of the write in progress fits.        *)
ProducerInv ==
  /\ wpc = "idle" <=> wop = "none"
  /\ wop = "TryWrite" => wpc \in {"copy1", "copy2", "copied"} /\ w_ = w_start_
  /\ wpc \in {"idle", "ready"} <=> src = <<>>
  /\ wop # "none" =>
       /\ w_start_ = write_pos
       /\ Available <= Minus(write_pos, r_)
       /\ Minus(write_pos, r_) + PendingBytes + Len(src) <= Capacity
  /\ wpc \in {"fill", "filled"} => Len(src) <= Contig(w_)
  /\ wpc = "copy2" => Len(src) > Contig(w_)

(* The batch counters: a write call adds at least one byte.                *)
CountInv ==
  wop = "Batch" =>
    /\ count_ <= PendingBytes
    /\ count_ > 0 <=> PendingBytes > 0
    /\ mark[1] <= PendingBytes
    /\ mark[2] <= mark[1]
    /\ mark[2] > 0 <=> mark[1] > 0

(* The consumer's side: what a call saw as readable still is.              *)
ConsumerInv ==
  /\ Available <= Capacity
  /\ rpc # "idle" => 0 < len /\ len <= avail /\ avail <= Available
  /\ rpc = "copy2" => len > Contig(read_pos)

Inv == TypeOK /\ ProducerInv /\ CountInv /\ ConsumerInv

-----------------------------------------------------------------------------
(* Position arithmetic.                                                    *)

(* Positions wrap at two or more capacities.                               *)
LEMMA WrapBound == Capacity \in Nat /\ Capacity > 0 /\ Wrap \in Nat /\ 2 * Capacity <= Wrap
<1>1. Capacity \in Nat /\ Capacity > 0 /\ Wrap \in Nat
  BY CapacityAssumption, WrapAssumption, SMT
<1>2. PICK k \in 2 .. Wrap : Wrap = k * Capacity
  BY WrapAssumption
<1>3. 2 * Capacity <= k * Capacity
  BY <1>1, <1>2, SMT
<1> QED
  BY <1>1, <1>2, <1>3

(* max_write_size is at most half the ring.                                *)
LEMMA HalfBound == max_write_size \in Nat /\ 2 * max_write_size <= Capacity
  BY WrapBound, SMT DEF max_write_size

(* Sums of positions are positions.                                        *)
LEMMA PlusType ==
  ASSUME NEW p \in Pos, NEW n \in Nat, n <= Wrap
  PROVE  Plus(p, n) \in Pos
  BY WrapBound, SMT DEF Pos, Plus

(* Differences of positions are lengths smaller than Wrap.                 *)
LEMMA MinusType ==
  ASSUME NEW p \in Pos, NEW q \in Pos
  PROVE  Minus(p, q) \in Nat /\ Minus(p, q) < Wrap
  BY WrapBound, SMT DEF Pos, Minus

(* Moving the front of a span forward lengthens it.                        *)
LEMMA MinusPlus ==
  ASSUME NEW p \in Pos, NEW q \in Pos, NEW n \in Nat, Minus(p, q) + n < Wrap
  PROVE  Minus(Plus(p, n), q) = Minus(p, q) + n
  BY WrapBound, SMT DEF Pos, Plus, Minus

(* Moving the back of a span forward shortens it.                          *)
LEMMA MinusPlusRight ==
  ASSUME NEW p \in Pos, NEW q \in Pos, NEW n \in Nat, n <= Minus(p, q)
  PROVE  Minus(p, Plus(q, n)) = Minus(p, q) - n
  BY WrapBound, SMT DEF Pos, Plus, Minus

(* Adjacent spans add up.                                                  *)
LEMMA MinusAdd ==
  ASSUME NEW p \in Pos, NEW q \in Pos, NEW r \in Pos,
         Minus(p, q) + Minus(q, r) < Wrap
  PROVE  Minus(p, r) = Minus(p, q) + Minus(q, r)
  BY WrapBound, SMT DEF Pos, Minus

(* A span is empty only between equal positions.                           *)
LEMMA MinusZero ==
  ASSUME NEW p \in Pos, NEW q \in Pos
  PROVE  Minus(p, q) = 0 <=> p = q
  BY WrapBound, SMT DEF Pos, Minus

(* The room check of a write call, made on wrapping positions, is the one  *)
(* on plain lengths whenever the ring is not overfull already.             *)
LEMMA FitsMeaning ==
  ASSUME NEW w \in Pos, NEW r \in Pos, NEW n \in Nat,
         Minus(w, r) <= Capacity, Fits(w, r, n)
  PROVE  n > 0 /\ n <= Capacity /\ Minus(w, r) + n <= Capacity
<1>1. 0 < n /\ n <= max_write_size /\ Minus(Plus(w, n), r) <= Capacity
  BY DEF Fits
<1>2. Minus(w, r) \in Nat
  BY MinusType
<1>3. Minus(w, r) + n < Wrap
  BY <1>1, <1>2, HalfBound, WrapBound, SMT
<1>4. Minus(Plus(w, n), r) = Minus(w, r) + n
  BY <1>3, MinusPlus
<1> QED
  BY <1>1, <1>2, <1>4, HalfBound, WrapBound, SMT

-----------------------------------------------------------------------------
(* Physical places.                                                        *)

(* The remainder of the division by Capacity is determined by its bounds.  *)
LEMMA ModUnique ==
  ASSUME NEW x \in Nat, NEW a \in Int, NEW m \in 0 .. Capacity - 1,
         x = a * Capacity + m
  PROVE  x % Capacity = m
  BY WrapBound, SMT

(* Every number is some multiple of Capacity plus its remainder.           *)
LEMMA ModExists ==
  ASSUME NEW x \in Nat
  PROVE  /\ x % Capacity \in 0 .. Capacity - 1
         /\ \E a \in Nat : x = a * Capacity + (x % Capacity)
  BY WrapBound, SMT

(* The physical place of a position moves with it around the data area,    *)
(* through the wrap-around of the position as well.                        *)
LEMMA PhysPlus ==
  ASSUME NEW p \in Pos, NEW n \in 0 .. Capacity
  PROVE  /\ RingPhys(p) \in 0 .. Capacity - 1
         /\ RingPhys(Plus(p, n)) =
              IF RingPhys(p) + n < Capacity THEN RingPhys(p) + n
                                            ELSE RingPhys(p) + n - Capacity
<1> DEFINE m == p % Capacity
<1>1. p \in Nat /\ n \in Nat /\ n <= Capacity
  BY WrapBound, SMT DEF Pos
<1>2. m \in 0 .. Capacity - 1 /\ \E a \in Nat : p = a * Capacity + m
  BY <1>1, ModExists
<1>3. PICK a \in Nat : p = a * Capacity + m
  BY <1>2
<1>4. PICK k \in 2 .. Wrap : Wrap = k * Capacity
  BY WrapAssumption
<1> DEFINE j == IF m + n < Capacity THEN m + n ELSE m + n - Capacity
           b == IF m + n < Capacity THEN a ELSE a + 1
<1> HIDE DEF m
<1>5. j \in 0 .. Capacity - 1
  BY <1>1, <1>2, WrapBound, SMT
<1>6. b \in Int /\ p + n = b * Capacity + j
  BY <1>1, <1>2, <1>3, WrapBound, SMT
<1>7. (p + n) % Capacity = j
  BY <1>1, <1>5, <1>6, ModUnique, SMT
<1>8. ASSUME p + n >= Wrap  PROVE (p + n - Wrap) % Capacity = j
  <2>1. p + n - Wrap = (b - k) * Capacity + j
    BY <1>1, <1>4, <1>5, <1>6, WrapBound, SMT
  <2>2. p + n - Wrap \in Nat /\ b - k \in Int
    BY <1>1, <1>4, <1>6, <1>8, WrapBound, SMT
  <2> HIDE DEF j, b
  <2> QED
    BY <1>5, <2>1, <2>2, ModUnique
<1> QED
  BY <1>1, <1>2, <1>7, <1>8, WrapBound, SMT DEF RingPhys, Plus, m

-----------------------------------------------------------------------------
(* Copies.                                                                 *)

(* A memcpy into the data area keeps its type and the cells outside its    *)
(* target.                                                                 *)
LEMMA CopyInFrame ==
  ASSUME NEW m \in [0 .. Capacity - 1 -> Byte], NEW at \in Nat, NEW s \in Seq(Byte)
  PROVE  /\ CopyIn(m, at, s) \in [0 .. Capacity - 1 -> Byte]
         /\ \A i \in 0 .. Capacity - 1 :
              i < at \/ at + Len(s) <= i => CopyIn(m, at, s)[i] = m[i]
  BY WrapBound, SMT DEF CopyIn

(* A part of a sequence of bytes is one.                                   *)
LEMMA SubSeqBytes ==
  ASSUME NEW s \in Seq(Byte), NEW i \in 1 .. Len(s) + 1, NEW j \in 0 .. Len(s)
  PROVE  /\ SubSeq(s, i, j) \in Seq(Byte)
         /\ i <= j + 1 => Len(SubSeq(s, i, j)) = j - i + 1
  BY SMT

(* Two sequences of bytes, one after the other, are one.                   *)
LEMMA ConcatBytes ==
  ASSUME NEW s \in Seq(Byte), NEW t \in Seq(Byte)
  PROVE  s \o t \in Seq(Byte)
  BY SMT

(* A memcpy out of the data area yields bytes.                             *)
LEMMA CopyOutBytes ==
  ASSUME NEW at \in Nat, NEW n \in Nat, at + n <= Capacity,
         mem \in [0 .. Capacity - 1 -> Byte]
  PROVE  CopyOut(at, n) \in Seq(Byte) /\ Len(CopyOut(at, n)) = n
  BY WrapBound, SMT DEF CopyOut

-----------------------------------------------------------------------------
(* The invariant is inductive.                                             *)

(* The distances the invariant speaks of are natural numbers, and those of *)
(* an open batch add up.                                                   *)
LEMMA Distances ==
  ASSUME Inv
  PROVE  /\ Available \in Nat /\ PendingBytes \in Nat
         /\ Minus(write_pos, r_) \in Nat /\ Minus(w_, r_) \in Nat
         /\ Len(src) \in Nat
         /\ wop # "none" => Minus(w_, r_) = Minus(write_pos, r_) + PendingBytes
         /\ Contig(w_) \in 1 .. Capacity /\ Contig(read_pos) \in 1 .. Capacity
<1> USE DEF Inv, TypeOK
<1>1. /\ Available \in Nat /\ PendingBytes \in Nat
      /\ Minus(write_pos, r_) \in Nat /\ Minus(w_, r_) \in Nat
  BY MinusType DEF Available, PendingBytes
<1>2. ASSUME wop # "none"
      PROVE  Minus(w_, r_) = Minus(write_pos, r_) + PendingBytes
  <2>1. /\ w_start_ = write_pos
        /\ Minus(write_pos, r_) + PendingBytes + Len(src) <= Capacity
    BY <1>2 DEF ProducerInv
  <2>2. Minus(w_, w_start_) + Minus(w_start_, r_) < Wrap
    BY <1>1, <2>1, WrapBound, SMTT(30) DEF PendingBytes
  <2> QED
    BY <1>1, <2>1, <2>2, MinusAdd, SMTT(30) DEF PendingBytes
<1>3. RingPhys(w_) \in 0 .. Capacity - 1 /\ RingPhys(read_pos) \in 0 .. Capacity - 1
  BY PhysPlus, WrapBound
<1> QED
  BY <1>1, <1>2, <1>3, WrapBound, SMTT(30) DEF Contig

(* Initially the ring is empty and nobody is in a call.                    *)
LEMMA InitInv == Init => Inv
<1> SUFFICES ASSUME Init PROVE Inv
  OBVIOUS
<1>1. 0 \in Pos /\ Minus(0, 0) = 0
  BY WrapBound, SMT DEF Pos, Minus
<1> QED
  BY <1>1, WrapBound, ByteAssumption, SMT
     DEF Init, Inv, TypeOK, ProducerInv, CountInv, ConsumerInv, Available, PendingBytes

(* A producer step that publishes no more than fits leaves the consumer's  *)
(* call as it was.                                                         *)
LEMMA ConsumerFrame ==
  ASSUME Inv, UNCHANGED <<read_pos, consumer>>,
         Available <= Available', Available' <= Capacity, Available' \in Nat
  PROVE  ConsumerInv'
  BY Distances, SMTT(30) DEF Inv, TypeOK, ConsumerInv, consumer, Contig

(* A consumer step only ever makes the producer's snapshot more cautious.  *)
LEMMA ProducerFrame ==
  ASSUME Inv, UNCHANGED <<write_pos, producer>>,
         Available' <= Available, Available' \in Nat
  PROVE  ProducerInv' /\ CountInv'
<1>1. ProducerInv'
  <2>1. wop # "none" => Available' <= Minus(write_pos, r_)
    BY Distances, SMT DEF Inv, ProducerInv
  <2>2. /\ PendingBytes' = PendingBytes /\ Contig(w_)' = Contig(w_)
        /\ Minus(write_pos, r_)' = Minus(write_pos, r_)
    BY DEF producer, PendingBytes, Contig
  <2> QED
    BY <2>1, <2>2 DEF Inv, ProducerInv, producer
<1>2. CountInv'
  BY DEF Inv, CountInv, producer, PendingBytes
<1> QED
  BY <1>1, <1>2

(* RingBuf::TryWrite passes its checks.                                    *)
LEMMA TryWriteStep ==
  ASSUME Inv, NEW s \in Messages, TryWrite(s)
  PROVE  Inv'
<1> USE DEF Inv
<1>1. Minus(write_pos, write_pos) = 0
  BY WrapBound, SMT DEF Pos, Minus, TypeOK
<1>2. s \in Seq(Byte) /\ Len(s) \in Nat
  BY MessagesAssumption, SMT
<1>3. Len(s) > 0 /\ Available + Len(s) <= Capacity
  BY <1>2, FitsMeaning DEF TryWrite, Available, ConsumerInv, TypeOK
<1>4. TypeOK'
  BY <1>2 DEF TryWrite, Snapshot, TypeOK, consumer
<1>5. ProducerInv'
  BY <1>1, <1>2, <1>3, Distances, SMT
     DEF TryWrite, Snapshot, ProducerInv, Available, PendingBytes
<1>6. CountInv'
  BY DEF TryWrite, CountInv
<1>7. ConsumerInv'
  BY ConsumerFrame, Distances, SMT DEF TryWrite, Available, ConsumerInv
<1> QED
  BY <1>4, <1>5, <1>6, <1>7

(* A batch opens with both counters at zero.                               *)
LEMMA OpenBatchStep ==
  ASSUME Inv, OpenBatch
  PROVE  Inv'
<1> USE DEF Inv
<1>1. Minus(write_pos, write_pos) = 0
  BY WrapBound, SMT DEF Pos, Minus, TypeOK
<1>4. TypeOK'
  BY WrapBound, SMT DEF OpenBatch, Snapshot, TypeOK, consumer
<1>5. ProducerInv'
  BY <1>1, Distances, SMT
     DEF OpenBatch, Snapshot, ProducerInv, ConsumerInv, Available, PendingBytes
<1>6. CountInv'
  BY <1>1, SMT DEF OpenBatch, Snapshot, CountInv, PendingBytes
<1>7. ConsumerInv'
  BY ConsumerFrame, Distances, SMT DEF OpenBatch, Available, ConsumerInv
<1> QED
  BY <1>4, <1>5, <1>6, <1>7

(* A batch write passes its checks, with or without Reserve.               *)
LEMMA BatchWriteStep ==
  ASSUME Inv, NEW s \in Messages, BatchTryWrite(s) \/ Reserve(s)
  PROVE  Inv'
<1> USE DEF Inv
<1>1. wop # "none" /\ wop # "TryWrite" /\ src = <<>> /\ wpc = "ready"
  BY DEF BatchTryWrite, Reserve, ProducerInv
<1>2. s \in Seq(Byte) /\ Len(s) \in Nat
  BY MessagesAssumption, SMT
<1>3. Len(s) > 0 /\ Minus(w_, r_) + Len(s) <= Capacity
  <2>1. Minus(w_, r_) <= Capacity
    BY <1>1, Distances, SMT DEF ProducerInv
  <2> QED
    BY <1>2, <2>1, FitsMeaning DEF BatchTryWrite, Reserve, TypeOK
<1>4. TypeOK'
  BY <1>2 DEF BatchTryWrite, Reserve, TypeOK, consumer
<1>5. ProducerInv'
  BY <1>1, <1>2, <1>3, Distances, SMT
     DEF BatchTryWrite, Reserve, ProducerInv, Available, PendingBytes, Contig
<1>6. CountInv'
  BY DEF BatchTryWrite, Reserve, CountInv, PendingBytes
<1>7. ConsumerInv'
  BY ConsumerFrame, Distances, SMT DEF BatchTryWrite, Reserve, Available, ConsumerInv
<1> QED
  BY <1>4, <1>5, <1>6, <1>7

(* A memcpy of the producer changes the data area and the program counter. *)
LEMMA CopyStep ==
  ASSUME Inv, CopyTail \/ CopyHead \/ FillReserved
  PROVE  Inv'
<1> USE DEF Inv
<1>1. mem' \in [0 .. Capacity - 1 -> Byte]
  <2>1. RingPhys(w_) \in Nat /\ 0 \in Nat
    BY PhysPlus, WrapBound, SMT DEF TypeOK
  <2>2. CASE CopyTail
    <3>1. SubSeq(src, 1, Least(Len(src), Contig(w_))) \in Seq(Byte)
      BY SubSeqBytes, Distances, SMTT(30) DEF TypeOK, Least
    <3> QED
      BY <2>1, <2>2, <3>1, CopyInFrame DEF CopyTail, TypeOK
  <2>3. CASE CopyHead
    <3>1. SubSeq(src, Contig(w_) + 1, Len(src)) \in Seq(Byte)
      <4>1. Contig(w_) + 1 \in 1 .. Len(src) + 1 /\ Len(src) \in 0 .. Len(src)
        BY <2>3, Distances, WrapBound, SMTT(30) DEF CopyHead, ProducerInv
      <4> QED
        BY <4>1, SubSeqBytes DEF TypeOK
    <3> QED
      BY <2>1, <2>3, <3>1, CopyInFrame DEF CopyHead, TypeOK
  <2>4. CASE FillReserved
    BY <2>1, <2>4, CopyInFrame DEF FillReserved, TypeOK
  <2> QED
    BY <2>2, <2>3, <2>4
<1>2. TypeOK'
  BY <1>1 DEF CopyTail, CopyHead, FillReserved, TypeOK, consumer
<1>3. ProducerInv'
  BY Distances, SMTT(30)
     DEF CopyTail, CopyHead, FillReserved, ProducerInv, Available, PendingBytes, Contig
<1>4. CountInv'
  BY DEF CopyTail, CopyHead, FillReserved, CountInv, PendingBytes
<1>5. ConsumerInv'
  BY ConsumerFrame, Distances, SMT
     DEF CopyTail, CopyHead, FillReserved, Available, ConsumerInv
<1> QED
  BY <1>2, <1>3, <1>4, <1>5

(* The release store of RingBuf::TryWrite.                                 *)
LEMMA TryWriteStoreStep ==
  ASSUME Inv, TryWriteStore
  PROVE  Inv'
<1> USE DEF Inv
<1>1. w_ = write_pos /\ Available + Len(src) <= Capacity
  BY Distances, WrapBound, SMT DEF TryWriteStore, ProducerInv
<1>2. write_pos \in Pos /\ read_pos \in Pos /\ write_pos' = Plus(write_pos, Len(src))
  BY <1>1 DEF TryWriteStore, TypeOK
<1>3. /\ Available' = Available + Len(src)
      /\ write_pos' \in Pos
  <2>1. Minus(write_pos, read_pos) + Len(src) < Wrap /\ Len(src) <= Wrap /\ Len(src) \in Nat
    BY <1>1, Distances, WrapBound, SMT DEF Available
  <2>2. Minus(Plus(write_pos, Len(src)), read_pos) = Minus(write_pos, read_pos) + Len(src)
    BY <1>2, <2>1, MinusPlus
  <2>3. Plus(write_pos, Len(src)) \in Pos
    BY <1>2, <2>1, PlusType
  <2> QED
    BY <1>2, <2>2, <2>3 DEF Available, TryWriteStore
<1>4. TypeOK'
  BY <1>3, SMT DEF TryWriteStore, TypeOK, consumer
<1>5. ProducerInv'
  BY DEF TryWriteStore, ProducerInv
<1>6. CountInv'
  BY DEF TryWriteStore, CountInv
<1>7. ConsumerInv'
  BY <1>1, <1>3, ConsumerFrame, Distances, SMT DEF TryWriteStore
<1> QED
  BY <1>4, <1>5, <1>6, <1>7

(* A write joins the batch: w_ and count_ grow together.                   *)
LEMMA AdvanceStep ==
  ASSUME Inv, BatchTryWriteEnd \/ CommitReserve
  PROVE  Inv'
<1> USE DEF Inv
<1>1. wop = "Batch" /\ Len(src) > 0
  BY Distances, SMTT(30) DEF BatchTryWriteEnd, CommitReserve, ProducerInv, TypeOK
<1>2. Advance
  BY DEF BatchTryWriteEnd, CommitReserve
<1>3. PendingBytes + Len(src) <= Capacity
  BY <1>1, Distances, WrapBound, SMT DEF ProducerInv
<1>4. PendingBytes' = PendingBytes + Len(src)
  BY <1>2, <1>3, Distances, MinusPlus, WrapBound, SMTT(30) DEF Advance, TypeOK, PendingBytes
<1>5. w_' \in Pos
  BY <1>2, <1>3, PlusType, Distances, WrapBound, SMTT(30) DEF Advance, TypeOK
<1>6. TypeOK'
  <2>1. count_ <= PendingBytes /\ count_ \in 0 .. Capacity
    BY <1>1 DEF CountInv, TypeOK
  <2>2. count_ + 1 \in 0 .. Capacity
    BY <1>1, <1>3, <2>1, Distances, WrapBound, SMT
  <2> QED
    BY <1>2, <1>5, <2>2, SMT DEF Advance, TypeOK, consumer
<1>7. ProducerInv'
  BY <1>1, <1>2, <1>4, Distances, SMT DEF Advance, ProducerInv, Available
<1>8. CountInv'
  <2>1. mark[1] \in Nat /\ mark[2] \in Nat /\ count_ \in Nat
    BY WrapBound, SMT DEF TypeOK
  <2>2. count_' = count_ + 1 /\ mark' = mark
    BY <1>2 DEF Advance
  <2>3. /\ count_ <= PendingBytes
        /\ mark[1] <= PendingBytes
        /\ mark[2] <= mark[1]
        /\ mark[2] > 0 <=> mark[1] > 0
    BY <1>1 DEF CountInv
  <2> QED
    BY <1>1, <1>4, <2>1, <2>2, <2>3, Distances, SMTT(30) DEF CountInv
<1>9. ConsumerInv'
  BY <1>2, ConsumerFrame, Distances, SMT DEF Advance, Available, ConsumerInv
<1> QED
  BY <1>6, <1>7, <1>8, <1>9

(* A reserved region is given up: only src and the program counter change. *)
LEMMA AbandonReserveStep ==
  ASSUME Inv, AbandonReserve
  PROVE  Inv'
<1> USE DEF Inv
<1>1. TypeOK'
  BY SMT DEF AbandonReserve, TypeOK, consumer
<1>2. ProducerInv'
  <2>1. wop = "Batch" /\ w_start_ = write_pos /\ Available <= Minus(write_pos, r_)
    BY DEF AbandonReserve, ProducerInv, TypeOK
  <2>2. Minus(write_pos, r_) + PendingBytes + 0 <= Capacity
    BY <2>1, Distances, WrapBound, SMTT(30) DEF ProducerInv
  <2>3. src' = <<>> /\ Len(src') = 0 /\ wpc' = "ready"
    BY DEF AbandonReserve
  <2> QED
    BY <2>1, <2>2, <2>3 DEF AbandonReserve, ProducerInv, Available, PendingBytes
<1>3. CountInv'
  BY DEF AbandonReserve, CountInv, PendingBytes
<1>4. ConsumerInv'
  BY ConsumerFrame, Distances, SMT DEF AbandonReserve, Available, ConsumerInv
<1> QED
  BY <1>1, <1>2, <1>3, <1>4

(* The noted counters are those of the batch.                              *)
LEMMA NoteMarkStep ==
  ASSUME Inv, NoteMark
  PROVE  Inv'
<1> USE DEF Inv
<1>1. wop = "Batch"
  BY DEF NoteMark, ProducerInv, TypeOK
<1>2. PendingBytes <= Capacity
  BY <1>1, Distances, WrapBound, SMT DEF ProducerInv
<1>3. mark' = <<PendingBytes, count_>> /\ mark' \in (0 .. Capacity) \X (0 .. Capacity)
  <2>1. PendingBytes \in 0 .. Capacity
    BY <1>2, Distances, WrapBound, SMT
  <2>2. count_ \in 0 .. Capacity /\ mark' = <<PendingBytes, count_>>
    BY DEF NoteMark, TypeOK
  <2> QED
    BY <2>1, <2>2
<1>4. TypeOK'
  BY <1>3 DEF NoteMark, TypeOK, consumer
<1>5. ProducerInv'
  BY DEF NoteMark, ProducerInv, Available, PendingBytes, Contig
<1>6. CountInv'
  BY <1>1, <1>3, Distances, SMT DEF NoteMark, CountInv, PendingBytes, TypeOK
<1>7. ConsumerInv'
  BY ConsumerFrame, Distances, SMT DEF NoteMark, Available, ConsumerInv
<1> QED
  BY <1>4, <1>5, <1>6, <1>7

(* Undoing writes of the batch: RewindTo and Cancel set w_ back to where   *)
(* n bytes of it were pending, and count_ to the matching count.           *)
LEMMA UndoStep ==
  ASSUME Inv, wpc = "ready", NEW n \in Nat, n <= PendingBytes,
         w_' = Plus(w_start_, n), count_' \in Nat, count_' <= n, count_' > 0 <=> n > 0,
         mark' \in (0 .. Capacity) \X (0 .. Capacity),
         mark'[1] <= n, mark'[2] <= mark'[1], mark'[2] > 0 <=> mark'[1] > 0,
         UNCHANGED <<mem, write_pos, read_pos, wop, wpc, r_, w_start_, src, consumer>>
  PROVE  Inv'
<1> USE DEF Inv
<1>1. wop = "Batch" /\ src = <<>>
  BY DEF ProducerInv, TypeOK
<1>2. PendingBytes <= Capacity
  BY <1>1, Distances, WrapBound, SMT DEF ProducerInv
<1>3. Minus(w_start_, w_start_) = 0
  BY WrapBound, SMT DEF Pos, Minus, TypeOK
<1>4. PendingBytes' = n
  <2>1. Minus(w_start_, w_start_) + n < Wrap
    BY <1>2, <1>3, Distances, WrapBound, SMTT(30)
  <2>2. Minus(Plus(w_start_, n), w_start_) = n
    BY <1>3, <2>1, WrapBound, SMT DEF TypeOK, Pos, Plus, Minus
  <2> QED
    BY <2>2 DEF PendingBytes
<1>5. w_' \in Pos
  <2>1. w_start_ \in Pos
    BY DEF TypeOK
  <2>2. n <= Wrap
    BY <1>2, Distances, WrapBound, SMT
  <2> QED
    BY <2>1, <2>2, PlusType
<1>6. TypeOK'
  <2>1. count_' \in 0 .. Capacity
    BY <1>2, Distances, WrapBound, SMTT(30)
  <2> QED
    BY <1>5, <2>1 DEF TypeOK, consumer
<1>7. ProducerInv'
  <2>1. /\ w_start_' = write_pos' /\ Available' <= Minus(write_pos, r_)'
        /\ Minus(write_pos, r_)' + PendingBytes' + Len(src)' <= Capacity
    BY <1>1, <1>4, Distances, WrapBound, SMTT(30) DEF ProducerInv, Available
  <2> QED
    BY <1>1, <2>1 DEF ProducerInv
<1>8. CountInv'
  BY <1>1, <1>4 DEF CountInv
<1>9. ConsumerInv'
  BY ConsumerFrame, Distances, SMT DEF Available, ConsumerInv
<1> QED
  BY <1>6, <1>7, <1>8, <1>9

(* RewindTo goes back to the noted counters, Cancel to zero.               *)
LEMMA RewindToStep ==
  ASSUME Inv, RewindTo \/ Cancel
  PROVE  Inv'
<1> USE DEF Inv
<1>1. CASE RewindTo
  <2>1. wop = "Batch"
    BY <1>1 DEF RewindTo, ProducerInv, TypeOK
  <2>2. mark[1] \in Nat /\ mark[2] \in Nat
    BY WrapBound, SMT DEF TypeOK
  <2> QED
    BY <1>1, <2>1, <2>2, UndoStep, SMTT(30) DEF RewindTo, CountInv, TypeOK
<1>2. CASE Cancel
  <2>1. Plus(w_start_, 0) = w_start_
    BY WrapBound, SMT DEF TypeOK, Pos, Plus
  <2>2. mark' = <<0, 0>> /\ mark' \in (0 .. Capacity) \X (0 .. Capacity)
    BY <1>2, WrapBound, SMT DEF Cancel
  <2>3. 0 <= PendingBytes /\ 0 \in Nat
    BY Distances, SMT
  <2> QED
    BY <1>2, <2>1, <2>2, <2>3, UndoStep, SMT DEF Cancel
<1> QED
  BY <1>1, <1>2

(* Flush, and the destructor that flushes: the batch becomes readable.     *)
LEMMA FlushStep ==
  ASSUME Inv, Flush \/ CloseBatch
  PROVE  Inv'
<1> USE DEF Inv
<1>1. wop = "Batch" /\ src = <<>> /\ w_start_ = write_pos
  BY DEF Flush, CloseBatch, ProducerInv, TypeOK
<1>2. PublishBatch
  BY DEF Flush, CloseBatch
<1>3. write_pos' = w_ /\ w_start_' = w_ /\ count_' = 0 /\ mark' = <<0, 0>>
  BY <1>1, <1>2 DEF PublishBatch
<1>4. /\ Available <= Minus(write_pos, r_)
      /\ Minus(write_pos, r_) + PendingBytes <= Capacity
  BY <1>1, Distances, WrapBound, SMT DEF ProducerInv
<1>5. UNCHANGED <<mem, read_pos, w_, r_, src, consumer>>
  BY DEF Flush, CloseBatch
<1>6. Available' = PendingBytes + Available
  <2>1. Minus(w_, write_pos) + Minus(write_pos, read_pos) < Wrap
    BY <1>1, <1>4, Distances, WrapBound, SMT DEF Available, PendingBytes
  <2>2. Minus(w_, read_pos) = Minus(w_, write_pos) + Minus(write_pos, read_pos)
    BY <2>1, MinusAdd, SMT DEF TypeOK
  <2> QED
    BY <1>1, <1>3, <1>5, <2>2 DEF Available, PendingBytes
<1>7. Minus(w_, w_) = 0
  BY WrapBound, SMT DEF Pos, Minus, TypeOK
<1>8. TypeOK'
  <2>1. mark' \in (0 .. Capacity) \X (0 .. Capacity) /\ count_' \in 0 .. Capacity
    BY <1>3, WrapBound, SMT
  <2>2. wop' \in {"none", "TryWrite", "Batch"} /\ wpc' \in {"idle", "ready"}
    BY <1>1 DEF Flush, CloseBatch
  <2> QED
    BY <1>3, <1>5, <2>1, <2>2 DEF TypeOK, consumer
<1>9. ProducerInv'
  <2>1. Minus(w_, r_) = Minus(write_pos, r_) + PendingBytes
    BY <1>1, Distances
  <2>2. /\ w_start_' = write_pos' /\ Available' <= Minus(write_pos, r_)'
        /\ Minus(write_pos, r_)' + PendingBytes' + Len(src)' <= Capacity
    BY <1>1, <1>3, <1>4, <1>5, <1>6, <1>7, <2>1, Distances, WrapBound, SMT DEF PendingBytes
  <2>3. (wop' = "Batch" /\ wpc' = "ready") \/ (wop' = "none" /\ wpc' = "idle")
    BY <1>1 DEF Flush, CloseBatch
  <2> QED
    BY <1>1, <1>5, <2>2, <2>3, Distances, WrapBound DEF ProducerInv
<1>10. CountInv'
  BY <1>3, <1>5, <1>7, SMT DEF CountInv, PendingBytes
<1>11. ConsumerInv'
  BY <1>4, <1>5, <1>6, ConsumerFrame, Distances, WrapBound, SMT
<1> QED
  BY <1>8, <1>9, <1>10, <1>11

(* A consumer call starts on what is readable now.                         *)
LEMMA StartReadStep ==
  ASSUME Inv, NEW n \in Nat, n <= Available, NEW pc \in {"copy1", "view"}, StartRead(n, pc)
  PROVE  Inv'
<1> USE DEF Inv
<1>1. TypeOK'
  <2>1. Available \in 0 .. Capacity /\ n \in 0 .. Capacity
    BY Distances, WrapBound, SMT DEF ConsumerInv
  <2> QED
    BY <2>1 DEF StartRead, TypeOK, producer
<1>2. ProducerInv' /\ CountInv'
  BY ProducerFrame, Distances, SMT DEF StartRead, Available
<1>3. ConsumerInv'
  BY Distances, SMT DEF StartRead, ConsumerInv, Available
<1> QED
  BY <1>1, <1>2, <1>3

(* The copies of the consumer change its buffer only.                      *)
LEMMA CopyOutStep ==
  ASSUME Inv, CopyOutTail \/ CopyOutHead
  PROVE  Inv'
<1> USE DEF Inv
<1>1. dst' \in Seq(Byte)
  <2>1. CASE CopyOutTail
    <3>1. /\ RingPhys(read_pos) \in Nat /\ Least(len, Contig(read_pos)) \in Nat
          /\ RingPhys(read_pos) + Least(len, Contig(read_pos)) <= Capacity
      <4>1. RingPhys(read_pos) \in 0 .. Capacity - 1
        BY PhysPlus, WrapBound DEF TypeOK
      <4> QED
        BY <4>1, WrapBound, SMT DEF TypeOK, Contig, Least
    <3> QED
      BY <2>1, <3>1, CopyOutBytes DEF CopyOutTail, TypeOK
  <2>2. CASE CopyOutHead
    <3>1. len - Contig(read_pos) \in Nat /\ 0 + (len - Contig(read_pos)) <= Capacity
      <4>1. len > Contig(read_pos) /\ len \in 0 .. Capacity
        BY <2>2 DEF CopyOutHead, ConsumerInv, TypeOK
      <4>2. Contig(read_pos) \in 1 .. Capacity
        BY Distances
      <4> QED
        BY <4>1, <4>2, WrapBound, SMT
    <3>2. CopyOut(0, len - Contig(read_pos)) \in Seq(Byte)
      BY <3>1, CopyOutBytes DEF TypeOK
    <3> QED
      BY <2>2, <3>2, ConcatBytes DEF CopyOutHead, TypeOK
  <2> QED
    BY <2>1, <2>2
<1>2. TypeOK'
  <2>1. /\ rpc' \in {"idle", "copy1", "copy2", "copied", "view"}
        /\ UNCHANGED <<mem, write_pos, read_pos, producer, avail, len>>
    BY DEF CopyOutTail, CopyOutHead
  <2> QED
    BY <1>1, <2>1 DEF TypeOK, producer
<1>3. ProducerInv' /\ CountInv'
  BY ProducerFrame, Distances, SMT DEF CopyOutTail, CopyOutHead, Available
<1>4. ConsumerInv'
  <2>1. rpc # "idle" /\ len \in Nat /\ Contig(read_pos) \in Nat
    BY Distances, WrapBound, SMTT(30) DEF CopyOutTail, CopyOutHead, TypeOK
  <2>2. rpc' = "copy2" => len > Contig(read_pos)
    BY <2>1, SMT DEF CopyOutTail, CopyOutHead
  <2>3. UNCHANGED <<write_pos, read_pos, avail, len>>
    BY DEF CopyOutTail, CopyOutHead
  <2>4. Available' = Available /\ Contig(read_pos)' = Contig(read_pos)
    BY <2>3 DEF Available, Contig
  <2> QED
    BY <2>1, <2>2, <2>3, <2>4 DEF ConsumerInv
<1> QED
  BY <1>2, <1>3, <1>4

(* The stores of read_pos, and a view dropped without one.                 *)
LEMMA ReadEndStep ==
  ASSUME Inv, NEW n \in Nat, rpc # "idle", n <= len,
         read_pos' = Plus(read_pos, n), rpc' = "idle", dst' \in Seq(Byte),
         avail' = 0, len' = 0, UNCHANGED <<mem, write_pos, producer>>
  PROVE  Inv'
<1> USE DEF Inv
<1>1. n <= Available /\ Available <= Capacity
  <2>1. len <= avail /\ avail <= Available /\ Available <= Capacity
    BY DEF ConsumerInv
  <2>2. len \in Nat /\ avail \in Nat
    BY WrapBound, SMT DEF TypeOK
  <2>3. Available \in Nat
    BY Distances
  <2> HIDE DEF Inv
  <2> QED
    BY <2>1, <2>2, <2>3, SMT
<1>2. Available' = Available - n
  BY <1>1, MinusPlusRight, SMTT(30) DEF Available, TypeOK
<1>3. read_pos' \in Pos
  BY <1>1, PlusType, Distances, WrapBound, SMTT(30) DEF TypeOK
<1>4. TypeOK'
  BY <1>3, WrapBound, SMT DEF TypeOK, producer
<1>5. ProducerInv' /\ CountInv'
  BY <1>1, <1>2, ProducerFrame, Distances, SMT
<1>6. ConsumerInv'
  BY <1>1, <1>2, Distances, WrapBound, SMT DEF ConsumerInv
<1> QED
  BY <1>4, <1>5, <1>6

(* Every step of either side preserves the invariant.                      *)
LEMMA NextInv == Inv /\ [Next]_vars => Inv'
<1> SUFFICES ASSUME Inv, [Next]_vars PROVE Inv'
  OBVIOUS
<1>1. CASE Produce
  BY <1>1, TryWriteStep, OpenBatchStep, BatchWriteStep, CopyStep, TryWriteStoreStep,
     AdvanceStep, AbandonReserveStep, NoteMarkStep, RewindToStep, FlushStep
     DEF Produce
<1>2. ASSUME NEW n \in 1 .. Capacity, TryRead(n) \/ ReadExact(n) PROVE Inv'
  <2>1. Least(Available, n) \in Nat /\ Least(Available, n) <= Available /\ n \in Nat
    BY Distances, WrapBound, SMT DEF Least
  <2>2. CASE TryRead(n)
    BY <2>1, <2>2, StartReadStep DEF TryRead
  <2>3. CASE ReadExact(n)
    BY <2>1, <2>3, StartReadStep, Distances DEF ReadExact
  <2> QED
    BY <1>2, <2>2, <2>3
<1>3. ASSUME Peek PROVE Inv'
  <2>1. Available \in Nat /\ Available <= Available
    BY Distances, SMT
  <2> QED
    BY <1>3, <2>1, StartReadStep DEF Peek
<1>4. ASSUME NEW n \in 1 .. Capacity, CommitRead(n) PROVE Inv'
  <2>1. n \in Nat /\ dst' \in Seq(Byte)
    BY <1>4, WrapBound, SMT DEF CommitRead, Inv, TypeOK
  <2> QED
    BY <1>4, <2>1, ReadEndStep DEF CommitRead
<1>5. ASSUME ReadStore PROVE Inv'
  <2>1. len \in Nat /\ len <= len /\ dst' \in Seq(Byte)
    BY <1>5, WrapBound, SMT DEF ReadStore, Inv, TypeOK
  <2> QED
    BY <1>5, <2>1, ReadEndStep DEF ReadStore
<1>6. ASSUME DropView PROVE Inv'
  <2>1. Plus(read_pos, 0) = read_pos
    BY WrapBound, SMT DEF Inv, TypeOK, Pos, Plus
  <2>2. 0 \in Nat /\ 0 <= len /\ dst' \in Seq(Byte)
    BY <1>6, WrapBound, SMT DEF DropView, Inv, TypeOK
  <2> QED
    BY <1>6, <2>1, <2>2, ReadEndStep DEF DropView
<1>7. CASE Consume
  BY <1>2, <1>3, <1>4, <1>5, <1>6, <1>7, CopyOutStep DEF Consume
<1>8. CASE UNCHANGED vars
  <2>1. TypeOK'
    BY <1>8 DEF vars, producer, consumer, Inv, TypeOK
  <2>2. ProducerInv'
    BY <1>8 DEF vars, producer, Inv, ProducerInv, Available, PendingBytes, Contig
  <2>3. CountInv'
    BY <1>8 DEF vars, producer, Inv, CountInv, PendingBytes
  <2>4. ConsumerInv'
    BY <1>8 DEF vars, consumer, Inv, ConsumerInv, Available, Contig
  <2> QED
    BY <2>1, <2>2, <2>3, <2>4 DEF Inv
<1> QED
  BY <1>1, <1>7, <1>8 DEF Next

(* The invariant holds in every reachable state.                           *)
THEOREM Invariance == Spec => []Inv
  BY InitInv, NextInv, PTL DEF Spec

(* Positions, BatchWriter members and call locals keep their types; in     *)
(* particular count_ never exceeds Capacity.                               *)
THEOREM TypeCorrect == Spec => []TypeOK
<1>1. Inv => TypeOK
  BY DEF Inv
<1> QED
  BY <1>1, Invariance, PTL

(* ChannelBatchWriter::Flush notifies exactly when it publishes.           *)
THEOREM PublishNotifiesCorrect == Spec => []PublishNotifies
<1>1. Inv => PublishNotifies
  <2> SUFFICES ASSUME Inv, wop = "Batch" PROVE count_ > 0 <=> w_ # w_start_
    BY DEF PublishNotifies
  <2>1. PendingBytes = 0 <=> w_ = w_start_
    BY MinusZero DEF Inv, TypeOK, PendingBytes
  <2> QED
    BY <2>1, Distances, SMT DEF Inv, CountInv
<1> QED
  BY <1>1, Invariance, PTL

(* The ring never holds more than Capacity bytes and its free-space        *)
(* computations never underflow.                                           *)
THEOREM NeverOverfullCorrect == Spec => []NeverOverfull
<1>1. Inv => NeverOverfull
  <2> SUFFICES ASSUME Inv PROVE NeverOverfull
    OBVIOUS
  <2>1. Len(Pending) = IF wop = "Batch" THEN PendingBytes ELSE 0
    BY Distances, SMT DEF Pending, Slice
  <2>2. wop = "none" => Len(src) = 0
    BY SMT DEF Inv, ProducerInv
  <2>3. Available + Len(Pending) + Len(src) <= Capacity
    BY <2>1, <2>2, Distances, WrapBound, SMTT(30) DEF Inv, ProducerInv, ConsumerInv
  <2>4. ASSUME wop = "Batch"
        PROVE  FreeBytes >= 0 /\ FreeBytes <= FreeSpace - PendingBytes
    <3>1. /\ Available <= Minus(write_pos, r_)
          /\ Minus(write_pos, r_) + PendingBytes + Len(src) <= Capacity
      BY <2>4 DEF Inv, ProducerInv
    <3>2. Minus(w_, r_) = Minus(write_pos, r_) + PendingBytes
      BY <2>4, Distances
    <3>3. /\ Available \in Nat /\ PendingBytes \in Nat /\ Len(src) \in Nat
          /\ Minus(write_pos, r_) \in Nat
      BY Distances
    <3> QED
      BY <3>1, <3>2, <3>3, WrapBound, SMT DEF FreeBytes, FreeSpace
  <2> QED
    BY <2>3, <2>4 DEF NeverOverfull
<1> QED
  BY <1>1, Invariance, PTL

-----------------------------------------------------------------------------
(* Race freedom.                                                           *)

(* Two steps forward are one.                                              *)
LEMMA PlusPlus ==
  ASSUME NEW p \in Pos, NEW a \in Nat, NEW b \in Nat, a + b <= Capacity
  PROVE  Plus(Plus(p, a), b) = Plus(p, a + b)
  BY WrapBound, SMT DEF Pos, Plus

(* The end of a span is its start plus its length.                         *)
LEMMA PlusOfMinus ==
  ASSUME NEW p \in Pos, NEW q \in Pos
  PROVE  Plus(q, Minus(p, q)) = p
  BY WrapBound, SMT DEF Pos, Plus, Minus

(* Within one lap, different positions have different physical places.     *)
LEMMA PhysInjective ==
  ASSUME NEW p \in Pos, NEW a \in 0 .. Capacity - 1, NEW b \in 0 .. Capacity - 1,
         RingPhys(Plus(p, a)) = RingPhys(Plus(p, b))
  PROVE  a = b
<1>1. a \in 0 .. Capacity /\ b \in 0 .. Capacity
  BY WrapBound, SMT
<1>2. RingPhys(p) \in 0 .. Capacity - 1
  BY <1>1, PhysPlus
<1>3. RingPhys(Plus(p, a)) =
        IF RingPhys(p) + a < Capacity THEN RingPhys(p) + a ELSE RingPhys(p) + a - Capacity
  BY <1>1, PhysPlus
<1>4. RingPhys(Plus(p, b)) =
        IF RingPhys(p) + b < Capacity THEN RingPhys(p) + b ELSE RingPhys(p) + b - Capacity
  BY <1>1, PhysPlus
<1>5. Capacity \in Nat
  BY WrapBound
<1>6. ASSUME NEW x \in 0 .. Capacity - 1,
             (IF x + a < Capacity THEN x + a ELSE x + a - Capacity)
               = (IF x + b < Capacity THEN x + b ELSE x + b - Capacity)
      PROVE  a = b
  BY <1>5, <1>6, SMT
<1> QED
  BY <1>2, <1>3, <1>4, <1>6

(* The write in progress starts where the unread and pending bytes end.    *)
LEMMA WriteOffset ==
  ASSUME Inv, wop # "none"
  PROVE  /\ w_ = Plus(read_pos, Available + PendingBytes)
         /\ Available + PendingBytes + Len(src) <= Capacity
<1> USE DEF Inv
<1>1. /\ w_start_ = write_pos
      /\ Available + PendingBytes + Len(src) <= Capacity
  BY Distances, WrapBound, SMT DEF ProducerInv
<1>2. Minus(w_, write_pos) + Minus(write_pos, read_pos) < Wrap
  BY <1>1, Distances, WrapBound, SMTT(30) DEF Available, PendingBytes
<1>3. Minus(w_, read_pos) = Minus(w_, write_pos) + Minus(write_pos, read_pos)
  BY <1>2, MinusAdd, SMT DEF TypeOK
<1>4. Minus(w_, read_pos) = Available + PendingBytes
  BY <1>1, <1>3, Distances, SMT DEF Available, PendingBytes
<1> QED
  BY <1>1, <1>4, PlusOfMinus DEF TypeOK

(* The cells being written hold no unread byte.                            *)
LEMMA InvNoDataRace == Inv => NoDataRace
<1> SUFFICES ASSUME Inv,
                    wpc \in {"copy1", "copy2", "copied", "fill", "filled"},
                    NEW i \in 0 .. Len(src) - 1, NEW j \in 0 .. Available - 1,
                    RingPhys(Plus(w_, i)) = RingPhys(Plus(read_pos, j))
             PROVE  FALSE
  BY DEF NoDataRace, Cells
<1> DEFINE d == Available + PendingBytes
<1>1. wop # "none"
  BY DEF Inv, ProducerInv
<1>2. w_ = Plus(read_pos, d) /\ d + Len(src) <= Capacity
  BY <1>1, WriteOffset
<1>3. /\ d \in Nat /\ i \in Nat /\ d + i <= Capacity
      /\ d + i \in 0 .. Capacity - 1 /\ j \in 0 .. Capacity - 1 /\ j < d + i
  <2>1. Available \in Nat /\ PendingBytes \in Nat /\ Len(src) \in Nat
    BY Distances
  <2>2. d \in Nat /\ i \in Nat /\ j \in Nat /\ j < d
    BY <2>1, SMT
  <2> HIDE DEF d
  <2> QED
    BY <1>2, <2>1, <2>2, WrapBound, SMT
<1>4. read_pos \in Pos
  BY DEF Inv, TypeOK
<1> HIDE DEF d
<1>5. Plus(w_, i) = Plus(read_pos, d + i)
  BY <1>2, <1>3, <1>4, PlusPlus
<1>6. d + i = j
  BY <1>3, <1>4, <1>5, PhysInjective
<1> QED
  BY <1>3, <1>6, SMT

(* No memcpy of the producer touches a byte the consumer may be reading.   *)
THEOREM NoDataRaceCorrect == Spec => []NoDataRace
  BY InvNoDataRace, Invariance, PTL

-----------------------------------------------------------------------------
(* Stability of what the consumer is reading.                              *)

(* Physical places ahead of p, up to the end of the data area and from its *)
(* start, are the cells of the positions ahead of p.                       *)
LEMMA CellAhead ==
  ASSUME NEW p \in Pos, NEW n \in 0 .. Capacity, NEW c \in 0 .. Capacity - 1,
         \/ RingPhys(p) <= c /\ c < RingPhys(p) + n
         \/ c < RingPhys(p) + n - Capacity
  PROVE  c \in Cells(p, n)
<1> DEFINE i == IF RingPhys(p) <= c THEN c - RingPhys(p) ELSE c + Capacity - RingPhys(p)
<1>1. RingPhys(p) \in 0 .. Capacity - 1
  BY PhysPlus, WrapBound
<1>2. i \in 0 .. n - 1 /\ i \in 0 .. Capacity
  BY <1>1, WrapBound, SMT
<1>3. RingPhys(Plus(p, i)) =
        IF RingPhys(p) + i < Capacity THEN RingPhys(p) + i ELSE RingPhys(p) + i - Capacity
  BY <1>2, PhysPlus
<1>4. RingPhys(Plus(p, i)) = c
  BY <1>1, <1>3, WrapBound, SMT
<1> HIDE DEF i
<1> QED
  BY <1>2, <1>4 DEF Cells

(* A memcpy of the producer only changes cells of the write in progress.   *)
LEMMA CopyTouches ==
  ASSUME Inv, CopyTail \/ CopyHead \/ FillReserved,
         NEW c \in 0 .. Capacity - 1, mem'[c] # mem[c]
  PROVE  c \in Cells(w_, Len(src))
<1>1. wop # "none"
  BY DEF CopyTail, CopyHead, FillReserved, Inv, ProducerInv
<1>2. /\ mem \in [0 .. Capacity - 1 -> Byte] /\ w_ \in Pos /\ src \in Seq(Byte)
      /\ Len(src) \in 0 .. Capacity
      /\ RingPhys(w_) \in 0 .. Capacity - 1 /\ Contig(w_) = Capacity - RingPhys(w_)
      /\ Contig(w_) \in 1 .. Capacity
  <2>1. mem \in [0 .. Capacity - 1 -> Byte] /\ w_ \in Pos /\ src \in Seq(Byte)
    BY DEF Inv, TypeOK
  <2>2. Len(src) \in 0 .. Capacity
    BY <1>1, Distances, WriteOffset, WrapBound, SMT
  <2>3. RingPhys(w_) \in 0 .. Capacity - 1
    BY <2>1, PhysPlus, WrapBound, SMT
  <2> QED
    BY <2>1, <2>2, <2>3, WrapBound, SMT DEF Contig
<1>3. CASE CopyTail
  <2> DEFINE s == SubSeq(src, 1, Least(Len(src), Contig(w_)))
  <2>1. s \in Seq(Byte) /\ Len(s) <= Len(src) /\ Len(s) \in Nat
    BY <1>2, SubSeqBytes, WrapBound, SMT DEF Least
  <2>2. CopyIn(mem, RingPhys(w_), s)[c] # mem[c]
    BY <1>3 DEF CopyTail
  <2> HIDE DEF s
  <2>3. RingPhys(w_) <= c /\ c < RingPhys(w_) + Len(s)
    BY <1>2, <2>1, <2>2 DEF CopyIn
  <2> QED
    BY <1>2, <2>1, <2>3, CellAhead, WrapBound, SMT
<1>4. CASE CopyHead
  <2> DEFINE s == SubSeq(src, Contig(w_) + 1, Len(src))
  <2>1. Len(src) > Contig(w_)
    BY <1>4 DEF CopyHead, Inv, ProducerInv
  <2>2. s \in Seq(Byte) /\ Len(s) = Len(src) - Contig(w_)
    BY <1>2, <2>1, SubSeqBytes, WrapBound, SMTT(30)
  <2>3. CopyIn(mem, 0, s)[c] # mem[c]
    BY <1>4 DEF CopyHead
  <2> HIDE DEF s
  <2>4. c < Len(s)
    BY <1>2, <2>2, <2>3, SMTT(30) DEF CopyIn
  <2> QED
    BY <1>2, <2>2, <2>4, CellAhead, WrapBound, SMT
<1>5. CASE FillReserved
  <2>1. CopyIn(mem, RingPhys(w_), src)[c] # mem[c]
    BY <1>5 DEF FillReserved
  <2>2. RingPhys(w_) <= c /\ c < RingPhys(w_) + Len(src)
    BY <1>2, <2>1 DEF CopyIn
  <2> QED
    BY <1>2, <2>2, CellAhead
<1> QED
  BY <1>3, <1>4, <1>5

(* No step changes an unread byte.                                         *)
LEMMA UnreadStable ==
  ASSUME Inv, [Next]_vars, NEW c \in Cells(read_pos, Available)
  PROVE  mem'[c] = mem[c]
<1> USE DEF Inv
<1>1. c \in 0 .. Capacity - 1
  <2>1. PICK i \in 0 .. Available - 1 : c = RingPhys(Plus(read_pos, i))
    BY DEF Cells
  <2>2. read_pos \in Pos /\ Plus(read_pos, i) \in Pos
    <3>1. read_pos \in Pos /\ Available <= Capacity
      BY DEF ConsumerInv, TypeOK
    <3>2. i \in Nat /\ i <= Wrap
      BY <2>1, <3>1, Distances, WrapBound, SMT
    <3> QED
      BY <3>1, <3>2, PlusType
  <2> QED
    BY <2>1, <2>2, PhysPlus, WrapBound, SMT
<1>2. CASE CopyTail \/ CopyHead \/ FillReserved
  <2>1. wpc \in {"copy1", "copy2", "fill"}
    BY <1>2 DEF CopyTail, CopyHead, FillReserved
  <2>2. c \notin Cells(w_, Len(src))
    BY <2>1, InvNoDataRace DEF NoDataRace
  <2> QED
    BY <1>1, <1>2, <2>2, CopyTouches
<1>3. CASE ~(CopyTail \/ CopyHead \/ FillReserved)
  <2>1. UNCHANGED mem
    BY <1>3 DEF Next, Produce, Consume, vars, TryWrite, OpenBatch, BatchTryWrite,
       TryWriteStore, Advance, BatchTryWriteEnd, Reserve, CommitReserve,
       AbandonReserve, NoteMark, RewindTo, Cancel, Flush, CloseBatch, StartRead,
       TryRead, ReadExact, CopyOutTail, CopyOutHead, ReadStore, Peek, CommitRead,
       DropView
  <2> QED
    BY <2>1
<1> QED
  BY <1>2, <1>3

(* The bytes behind the pointers of a Peek, and those a copy-out reads,    *)
(* do not change until the consumer commits or drops them.                 *)
THEOREM ViewStableCorrect == Spec => ViewStable
<1>1. Inv /\ [Next]_vars =>
        [rpc # "idle" => \A c \in Cells(read_pos, avail) : mem'[c] = mem[c]]_vars
  <2> SUFFICES ASSUME Inv, [Next]_vars, rpc # "idle", NEW c \in Cells(read_pos, avail)
               PROVE  mem'[c] = mem[c]
    OBVIOUS
  <2>1. avail \in Nat /\ Available \in Nat /\ avail <= Available
    <3>1. avail \in Nat
      BY WrapBound, SMT DEF Inv, TypeOK
    <3>2. avail <= Available
      BY DEF Inv, ConsumerInv
    <3> QED
      BY <3>1, <3>2, Distances
  <2>2. c \in Cells(read_pos, Available)
    BY <2>1, SMT DEF Cells
  <2> QED
    BY <2>2, UnreadStable
<1> QED
  BY <1>1, Invariance, PTL DEF ViewStable, Spec

-----------------------------------------------------------------------------
(* What the consumer copies out.                                           *)

(* The copy made so far is the oldest unread bytes.                        *)
ReadInv ==
  /\ rpc = "copy2" => dst = Slice(read_pos, Contig(read_pos))
  /\ rpc = "copied" => dst = Slice(read_pos, len)

(* A slice consists of bytes.                                              *)
LEMMA SliceBytes ==
  ASSUME NEW p \in Pos, NEW n \in 0 .. Capacity, mem \in [0 .. Capacity - 1 -> Byte]
  PROVE  Slice(p, n) \in Seq(Byte) /\ Len(Slice(p, n)) = n
<1>1. ASSUME NEW i \in 1 .. n
      PROVE  RingPhys(Plus(p, i - 1)) \in 0 .. Capacity - 1
  <2>1. i - 1 \in Nat /\ i - 1 <= Wrap
    BY WrapBound, SMT
  <2>2. Plus(p, i - 1) \in Pos
    BY <2>1, PlusType
  <2> QED
    BY <2>2, PhysPlus, WrapBound
<1> QED
  BY <1>1, WrapBound, SMT DEF Slice

(* A memcpy that stops at the end of the data area copies a slice.         *)
LEMMA SliceTail ==
  ASSUME NEW p \in Pos, NEW n \in 0 .. Capacity, n <= Contig(p)
  PROVE  CopyOut(RingPhys(p), n) = Slice(p, n)
<1> SUFFICES ASSUME NEW i \in 1 .. n
             PROVE  RingPhys(p) + i - 1 = RingPhys(Plus(p, i - 1))
  BY DEF CopyOut, Slice
<1>1. i - 1 \in 0 .. Capacity /\ RingPhys(p) \in 0 .. Capacity - 1
  BY PhysPlus, WrapBound, SMT
<1>2. RingPhys(p) + (i - 1) < Capacity
  BY <1>1, WrapBound, SMT DEF Contig
<1>3. RingPhys(Plus(p, i - 1)) = RingPhys(p) + (i - 1)
  BY <1>1, <1>2, PhysPlus
<1> QED
  BY <1>1, <1>3, WrapBound

(* A sequence is the function of its elements.                             *)
LEMMA SeqAsFunction ==
  ASSUME NEW s \in Seq(Byte)
  PROVE  s = [i \in 1 .. Len(s) |-> s[i]]
  BY SMT

(* The elements of a concatenation.                                        *)
LEMMA ConcatElements ==
  ASSUME NEW s \in Seq(Byte), NEW t \in Seq(Byte)
  PROVE  /\ s \o t \in Seq(Byte) /\ Len(s \o t) = Len(s) + Len(t)
         /\ \A i \in 1 .. Len(s) : (s \o t)[i] = s[i]
         /\ \A i \in 1 .. Len(t) : (s \o t)[Len(s) + i] = t[i]
  BY SMT

(* Followed by one from the start of the data area, it copies a slice too. *)
LEMMA SliceBoth ==
  ASSUME NEW p \in Pos, NEW n \in 0 .. Capacity, n > Contig(p),
         mem \in [0 .. Capacity - 1 -> Byte]
  PROVE  Slice(p, Contig(p)) \o CopyOut(0, n - Contig(p)) = Slice(p, n)
<1> DEFINE k == Contig(p)
           a == Slice(p, k)
           b == CopyOut(0, n - k)
<1>1. /\ RingPhys(p) \in 0 .. Capacity - 1 /\ k = Capacity - RingPhys(p)
      /\ k \in 1 .. Capacity /\ n - k \in Nat
  <2>1. RingPhys(p) \in 0 .. Capacity - 1
    BY PhysPlus, WrapBound
  <2> QED
    BY <2>1, WrapBound, SMT DEF Contig
<1> HIDE DEF k
<1>2. Len(a) = k /\ Len(b) = n - k
  BY <1>1, SMT DEF Slice, CopyOut
<1>3. a \in Seq(Byte) /\ b \in Seq(Byte)
  <2>1. a \in Seq(Byte)
    BY <1>1, SliceBytes, WrapBound, SMT
  <2>2. b \in Seq(Byte)
    BY <1>1, CopyOutBytes, WrapBound, SMT
  <2> QED
    BY <2>1, <2>2
<1>4. ASSUME NEW i \in 1 .. n
      PROVE  (a \o b)[i] = mem[RingPhys(Plus(p, i - 1))]
  <2>1. CASE i <= k
    <3>1. i \in 1 .. k
      BY <1>1, <2>1, WrapBound, SMT
    <3>2. a[i] = mem[RingPhys(Plus(p, i - 1))]
      BY <3>1 DEF Slice
    <3> HIDE DEF a, b
    <3>3. (a \o b)[i] = a[i]
      BY <1>2, <1>3, <3>1, ConcatElements
    <3> QED
      BY <3>2, <3>3
  <2>2. CASE i > k
    <3>1. (a \o b)[i] = b[i - k]
      <4> HIDE DEF a, b
      <4>1. i - k \in 1 .. n - k /\ k + (i - k) = i
        BY <1>1, <2>2, SMT
      <4>2. (a \o b)[k + (i - k)] = b[i - k]
        BY <1>2, <1>3, <4>1, ConcatElements, SMT
      <4> QED
        BY <4>1, <4>2
    <3>2. b[i - k] = mem[0 + (i - k) - 1]
      <4>1. i - k \in 1 .. n - k
        BY <1>1, <2>2, SMT
      <4> QED
        BY <4>1 DEF CopyOut
    <3>3. i - 1 \in 0 .. Capacity /\ RingPhys(p) + (i - 1) >= Capacity
      BY <1>1, <2>2, WrapBound, SMT
    <3>4. RingPhys(Plus(p, i - 1)) = RingPhys(p) + (i - 1) - Capacity
      BY <1>1, <3>3, PhysPlus, WrapBound, SMTT(30)
    <3>5. 0 + (i - k) - 1 = RingPhys(p) + (i - 1) - Capacity
      <4>1. ASSUME NEW c \in Int, NEW q \in Int, NEW m \in Int
            PROVE  0 + (m - (c - q)) - 1 = q + (m - 1) - c
        BY SMT
      <4>2. k = Capacity - RingPhys(p) /\ RingPhys(p) \in Int /\ Capacity \in Int /\ i \in Int
        BY <1>1, WrapBound, SMT
      <4> QED
        BY <4>1, <4>2
    <3> QED
      BY <3>1, <3>2, <3>4, <3>5
  <2>3. i <= k \/ i > k
    BY <1>1, SMT
  <2> QED
    BY <2>1, <2>2, <2>3
<1>5. a \o b = [i \in 1 .. n |-> (a \o b)[i]]
  <2> HIDE DEF a, b
  <2>1. a \o b \in Seq(Byte) /\ Len(a \o b) = k + (n - k)
    BY <1>2, <1>3, ConcatElements
  <2>2. k + (n - k) = n
    BY <1>1, SMT
  <2> QED
    BY <2>1, <2>2, SeqAsFunction
<1> QED
  BY <1>4, <1>5 DEF Slice, k

(* While read_pos stays, a prefix of the unread bytes stays as it is.      *)
LEMMA SliceStable ==
  ASSUME Inv, [Next]_vars, NEW n \in 0 .. Available
  PROVE  [i \in 1 .. n |-> mem'[RingPhys(Plus(read_pos, i - 1))]] = Slice(read_pos, n)
<1> SUFFICES ASSUME NEW i \in 1 .. n
             PROVE  mem'[RingPhys(Plus(read_pos, i - 1))]
                      = mem[RingPhys(Plus(read_pos, i - 1))]
  BY DEF Slice
<1>1. i - 1 \in 0 .. Available - 1
  BY Distances, SMT
<1>2. RingPhys(Plus(read_pos, i - 1)) \in Cells(read_pos, Available)
  BY <1>1 DEF Cells
<1> QED
  BY <1>2, UnreadStable

(* Every step preserves ReadInv.                                           *)
LEMMA ReadInvStep ==
  ASSUME Inv, ReadInv, [Next]_vars
  PROVE  ReadInv'
<1> USE DEF Inv
<1>1. CASE UNCHANGED <<read_pos, consumer>>
  <2>1. rpc = "copy2" => Contig(read_pos) \in 0 .. Available
    BY Distances, SMTT(30) DEF ConsumerInv, TypeOK
  <2>2. rpc = "copied" => len \in 0 .. Available
    BY Distances, SMTT(30) DEF ConsumerInv, TypeOK
  <2>3. (rpc = "copy2" => dst = Slice(read_pos, Contig(read_pos)))'
    BY <1>1, <2>1, SliceStable, SMTT(30) DEF ReadInv, consumer, Slice, Contig
  <2>4. (rpc = "copied" => dst = Slice(read_pos, len))'
    <3>1. rpc = "copied" =>
            [i \in 1 .. len |-> mem'[RingPhys(Plus(read_pos, i - 1))]] = Slice(read_pos, len)
      BY <2>2, SliceStable
    <3> QED
      BY <1>1, <3>1 DEF ReadInv, consumer, Slice
  <2> QED
    BY <2>3, <2>4 DEF ReadInv
<1>2. CASE CopyOutTail
  <2> DEFINE n == Least(len, Contig(read_pos))
  <2>1. /\ read_pos \in Pos /\ n \in 0 .. Capacity /\ n <= Contig(read_pos)
        /\ len <= Contig(read_pos) => n = len
        /\ ~(len <= Contig(read_pos)) => n = Contig(read_pos)
    BY Distances, WrapBound, SMTT(30) DEF Least, TypeOK
  <2> HIDE DEF n
  <2>2. dst' = Slice(read_pos, n)
    BY <1>2, <2>1, SliceTail DEF CopyOutTail, n
  <2> QED
    BY <1>2, <2>1, <2>2 DEF CopyOutTail, ReadInv, Slice, Contig
<1>3. CASE CopyOutHead
  <2>1. /\ read_pos \in Pos /\ len \in 0 .. Capacity /\ len > Contig(read_pos)
        /\ mem \in [0 .. Capacity - 1 -> Byte]
    BY <1>3 DEF CopyOutHead, ConsumerInv, TypeOK
  <2>2. dst' = Slice(read_pos, len)
    BY <1>3, <2>1, SliceBoth DEF CopyOutHead, ReadInv
  <2> QED
    BY <1>3, <2>2 DEF CopyOutHead, ReadInv, Slice
<1>4. CASE rpc' \notin {"copy2", "copied"}
  BY <1>4 DEF ReadInv
<1>5. Produce => UNCHANGED <<read_pos, consumer>>
  BY DEF Produce, consumer, TryWrite, OpenBatch, BatchTryWrite, CopyTail, CopyHead,
     TryWriteStore, Advance, BatchTryWriteEnd, Reserve, FillReserved, CommitReserve,
     AbandonReserve, NoteMark, RewindTo, Cancel, Flush, CloseBatch
<1>6. Consume => CopyOutTail \/ CopyOutHead \/ rpc' \notin {"copy2", "copied"}
  BY DEF Consume, StartRead, TryRead, ReadExact, ReadStore, Peek, CommitRead, DropView
<1> QED
  BY <1>1, <1>2, <1>3, <1>4, <1>5, <1>6 DEF Next, vars

(* A finished copy is a prefix of the unread bytes.                        *)
LEMMA ReadInvMeaning == Inv /\ ReadInv => ReadsOldest
<1> SUFFICES ASSUME Inv, ReadInv, rpc = "copied"
             PROVE  dst = SubSeq(Unread, 1, len)
  BY DEF ReadsOldest
<1>1. Available \in 0 .. Capacity /\ len \in 0 .. Available /\ read_pos \in Pos
      /\ mem \in [0 .. Capacity - 1 -> Byte]
  BY Distances, SMTT(30) DEF Inv, ConsumerInv, TypeOK
<1>2. Unread \in Seq(Byte) /\ Len(Unread) = Available
  BY <1>1, SliceBytes DEF Unread
<1>3. SubSeq(Unread, 1, len) = [i \in 1 .. len |-> Unread[i]]
  BY <1>1, <1>2, SMT
<1>4. \A i \in 1 .. len : Unread[i] = mem[RingPhys(Plus(read_pos, i - 1))]
  BY <1>1, SMT DEF Unread, Slice
<1> QED
  BY <1>3, <1>4 DEF ReadInv, Slice

(* TryRead and ReadExact deliver exactly the oldest bytes of the stream.   *)
THEOREM ReadsOldestCorrect == Spec => []ReadsOldest
<1>1. Init => ReadInv
  BY DEF Init, ReadInv
<1> QED
  BY <1>1, ReadInvStep, ReadInvMeaning, Invariance, PTL DEF Spec

-----------------------------------------------------------------------------
(* RingBuf implements ByteStream.  The positions of the ring delimit       *)
(* slices of the data area: the unread bytes, behind them the pending ones *)
(* of the open batch, behind them the write in progress.  Every step       *)
(* either moves a boundary between two neighbouring slices or copies into  *)
(* the last one.                                                           *)

(* The n bytes at position p of a data area m.                             *)
SliceOf(m, p, n) == [i \in 1 .. n |-> m[RingPhys(Plus(p, i - 1))]]

DataArea == [0 .. Capacity - 1 -> Byte]

(* The first n bytes of the write in progress are in the data area m.      *)
Stored(m, n) == \A i \in 1 .. n : m[RingPhys(Plus(w_, i - 1))] = src[i]

(* What the memcpys of a write call have done so far.                      *)
WriteInv ==
  /\ wpc = "copy2" => Stored(mem, Contig(w_))
  /\ wpc \in {"copied", "filled"} => Stored(mem, Len(src))

-----------------------------------------------------------------------------
(* Slices.                                                                 *)

(* Sequences of the same elements are equal.                               *)
LEMMA SeqEqual ==
  ASSUME NEW s \in Seq(Byte), NEW t \in Seq(Byte), Len(s) = Len(t),
         \A i \in 1 .. Len(s) : s[i] = t[i]
  PROVE  s = t
  BY SMT

(* Every position within a lap has its place in the data area.             *)
LEMMA PlaceType ==
  ASSUME NEW p \in Pos, NEW i \in 0 .. Capacity
  PROVE  Plus(p, i) \in Pos /\ RingPhys(Plus(p, i)) \in 0 .. Capacity - 1
<1>1. Plus(p, i) \in Pos
  BY PlusType, WrapBound, SMT
<1> QED
  BY <1>1, PhysPlus, WrapBound

(* A slice consists of bytes.                                              *)
LEMMA SliceOfBytes ==
  ASSUME NEW m \in DataArea, NEW p \in Pos, NEW n \in 0 .. Capacity
  PROVE  /\ SliceOf(m, p, n) \in Seq(Byte) /\ Len(SliceOf(m, p, n)) = n
         /\ \A i \in 1 .. n : SliceOf(m, p, n)[i] = m[RingPhys(Plus(p, i - 1))]
<1>1. ASSUME NEW i \in 1 .. n PROVE m[RingPhys(Plus(p, i - 1))] \in Byte
  <2>1. i - 1 \in 0 .. Capacity
    BY WrapBound, SMT
  <2>2. RingPhys(Plus(p, i - 1)) \in 0 .. Capacity - 1
    BY <2>1, PlaceType
  <2> QED
    BY <2>2 DEF DataArea
<1> QED
  BY <1>1, WrapBound, SMT DEF SliceOf

(* A slice followed by what is stored behind it is a longer slice.         *)
LEMMA SliceAppend ==
  ASSUME NEW m \in DataArea, NEW p \in Pos, NEW a \in Nat, NEW t \in Seq(Byte),
         a + Len(t) <= Capacity,
         \A i \in 1 .. Len(t) : m[RingPhys(Plus(Plus(p, a), i - 1))] = t[i]
  PROVE  SliceOf(m, p, a + Len(t)) = SliceOf(m, p, a) \o t
<1> DEFINE b == Len(t)
           whole == SliceOf(m, p, a + b)
           first == SliceOf(m, p, a)
<1>1. b \in Nat /\ a + b \in 0 .. Capacity /\ a \in 0 .. Capacity
  BY WrapBound, SMT
<1>2. /\ whole \in Seq(Byte) /\ Len(whole) = a + b
      /\ \A i \in 1 .. a + b : whole[i] = m[RingPhys(Plus(p, i - 1))]
  BY <1>1, SliceOfBytes
<1>3. /\ first \in Seq(Byte) /\ Len(first) = a
      /\ \A i \in 1 .. a : first[i] = m[RingPhys(Plus(p, i - 1))]
  BY <1>1, SliceOfBytes
<1> HIDE DEF whole, first
<1>4. /\ first \o t \in Seq(Byte) /\ Len(first \o t) = a + b
      /\ \A i \in 1 .. a : (first \o t)[i] = first[i]
      /\ \A i \in 1 .. b : (first \o t)[a + i] = t[i]
  BY <1>3, ConcatElements
<1> HIDE DEF b
<1>5. ASSUME NEW i \in 1 .. a + b PROVE whole[i] = (first \o t)[i]
  <2>1. CASE i <= a
    <3>1. i \in 1 .. a
      BY <2>1, <1>1, SMT
    <3> QED
      BY <1>2, <1>3, <1>4, <3>1
  <2>2. CASE i > a
    <3>1. /\ i - a \in 1 .. b /\ a + (i - a) = i
          /\ (i - a) - 1 \in Nat /\ a + ((i - a) - 1) = i - 1 /\ i - 1 <= Capacity
      BY <2>2, <1>1, WrapBound, SMT
    <3>2. (first \o t)[i] = t[i - a]
      BY <1>4, <3>1
    <3>3. t[i - a] = m[RingPhys(Plus(Plus(p, a), (i - a) - 1))]
      BY <3>1 DEF b
    <3>4. Plus(Plus(p, a), (i - a) - 1) = Plus(p, i - 1)
      BY <3>1, PlusPlus, SMT
    <3> QED
      BY <1>2, <3>2, <3>3, <3>4
  <2>3. i <= a \/ i > a
    BY <1>1, SMT
  <2> QED
    BY <2>1, <2>2, <2>3
<1>6. whole = first \o t
  BY <1>2, <1>4, <1>5, SeqEqual
<1> QED
  BY <1>6 DEF whole, first, b

(* The start of a slice is a slice.                                        *)
LEMMA SlicePrefix ==
  ASSUME NEW m \in DataArea, NEW p \in Pos, NEW n \in 0 .. Capacity, NEW k \in 0 .. n
  PROVE  SliceOf(m, p, k) = SubSeq(SliceOf(m, p, n), 1, k)
<1> DEFINE whole == SliceOf(m, p, n)
<1>1. k \in 0 .. Capacity
  BY WrapBound, SMT
<1>2. /\ whole \in Seq(Byte) /\ Len(whole) = n
      /\ \A i \in 1 .. n : whole[i] = m[RingPhys(Plus(p, i - 1))]
  BY SliceOfBytes
<1> HIDE DEF whole
<1>3. SubSeq(whole, 1, k) = [i \in 1 .. k |-> whole[i]]
  BY <1>1, <1>2, WrapBound, SMT
<1>4. \A i \in 1 .. k : whole[i] = m[RingPhys(Plus(p, i - 1))]
  BY <1>1, <1>2, WrapBound, SMT
<1> QED
  BY <1>3, <1>4 DEF SliceOf, whole

(* So is its end.                                                          *)
LEMMA SliceSuffix ==
  ASSUME NEW m \in DataArea, NEW p \in Pos, NEW n \in 0 .. Capacity, NEW k \in 0 .. n
  PROVE  SliceOf(m, Plus(p, k), n - k) = SubSeq(SliceOf(m, p, n), k + 1, n)
<1> DEFINE whole == SliceOf(m, p, n)
           rest == SliceOf(m, Plus(p, k), n - k)
<1>1. k \in 0 .. Capacity /\ n - k \in 0 .. Capacity /\ Plus(p, k) \in Pos
  BY PlaceType, WrapBound, SMT
<1>2. /\ whole \in Seq(Byte) /\ Len(whole) = n
      /\ \A i \in 1 .. n : whole[i] = m[RingPhys(Plus(p, i - 1))]
  BY SliceOfBytes
<1>3. /\ rest \in Seq(Byte) /\ Len(rest) = n - k
      /\ \A i \in 1 .. n - k : rest[i] = m[RingPhys(Plus(Plus(p, k), i - 1))]
  BY <1>1, SliceOfBytes
<1> HIDE DEF whole, rest
<1>4. /\ SubSeq(whole, k + 1, n) \in Seq(Byte) /\ Len(SubSeq(whole, k + 1, n)) = n - k
      /\ \A i \in 1 .. n - k : SubSeq(whole, k + 1, n)[i] = whole[k + i]
  BY <1>1, <1>2, WrapBound, SMT
<1>5. ASSUME NEW i \in 1 .. n - k PROVE rest[i] = SubSeq(whole, k + 1, n)[i]
  <2>1. /\ k \in Nat /\ i - 1 \in Nat /\ k + (i - 1) <= Capacity
        /\ k + i \in 1 .. n /\ (k + i) - 1 = k + (i - 1)
    BY <1>1, WrapBound, SMT
  <2>2. Plus(Plus(p, k), i - 1) = Plus(p, k + (i - 1))
    BY <2>1, PlusPlus
  <2>3. rest[i] = m[RingPhys(Plus(p, k + (i - 1)))]
    BY <1>3, <2>2
  <2>4. whole[k + i] = m[RingPhys(Plus(p, (k + i) - 1))]
    BY <1>2, <2>1
  <2>5. SubSeq(whole, k + 1, n)[i] = whole[k + i]
    BY <1>4
  <2> QED
    BY <2>1, <2>3, <2>4, <2>5
<1>6. rest = SubSeq(whole, k + 1, n)
  BY <1>3, <1>4, <1>5, SeqEqual
<1> QED
  BY <1>6 DEF whole, rest

-----------------------------------------------------------------------------
(* What a write call has stored.                                           *)

(* A memcpy into the data area stores its source.                          *)
LEMMA CopyInElements ==
  ASSUME NEW m \in DataArea, NEW at \in Nat, NEW s \in Seq(Byte), at + Len(s) <= Capacity,
         NEW i \in 1 .. Len(s)
  PROVE  CopyIn(m, at, s)[at + (i - 1)] = s[i]
<1>1. at + (i - 1) \in 0 .. Capacity - 1 /\ (at + (i - 1)) - at + 1 = i
  BY WrapBound, SMT
<1>2. DOMAIN m = 0 .. Capacity - 1
  BY DEF DataArea
<1>3. at <= at + (i - 1) /\ at + (i - 1) < at + Len(s)
  BY SMT
<1> QED
  BY <1>1, <1>2, <1>3 DEF CopyIn

(* The places and lengths of the write in progress.                        *)
LEMMA WritePlaces ==
  ASSUME Inv, wop # "none"
  PROVE  /\ mem \in DataArea /\ w_ \in Pos /\ src \in Seq(Byte)
         /\ Len(src) \in 0 .. Capacity
         /\ RingPhys(w_) \in 0 .. Capacity - 1 /\ Contig(w_) = Capacity - RingPhys(w_)
         /\ Contig(w_) \in 1 .. Capacity
<1>1. mem \in DataArea /\ w_ \in Pos /\ src \in Seq(Byte)
  BY DEF Inv, TypeOK, DataArea
<1>2. Len(src) \in 0 .. Capacity
  BY Distances, WriteOffset, WrapBound, SMT
<1>3. RingPhys(w_) \in 0 .. Capacity - 1
  BY <1>1, PhysPlus, WrapBound, SMT
<1> QED
  BY <1>1, <1>2, <1>3, WrapBound, SMT DEF Contig

(* The first memcpy, and the filling of a reserved region.                 *)
LEMMA TailStored ==
  ASSUME Inv, wop # "none", NEW n \in 0 .. Len(src), n <= Contig(w_), NEW s \in Seq(Byte),
         Len(s) = n, \A i \in 1 .. n : s[i] = src[i], mem' = CopyIn(mem, RingPhys(w_), s)
  PROVE  Stored(mem', n)
<1> SUFFICES ASSUME NEW i \in 1 .. n
             PROVE  mem'[RingPhys(Plus(w_, i - 1))] = src[i]
  BY DEF Stored
<1>1. RingPhys(w_) \in Nat /\ RingPhys(w_) + n <= Capacity /\ n \in Nat
  BY WritePlaces, WrapBound, SMT
<1>2. i - 1 \in 0 .. Capacity /\ RingPhys(w_) + (i - 1) < Capacity
  BY <1>1, WritePlaces, WrapBound, SMT
<1>3. RingPhys(Plus(w_, i - 1)) = RingPhys(w_) + (i - 1)
  BY <1>2, PhysPlus, WritePlaces
<1>4. mem'[RingPhys(w_) + (i - 1)] = s[i]
  BY <1>1, CopyInElements, WritePlaces
<1> QED
  BY <1>3, <1>4

(* The second memcpy completes the first and leaves it alone.              *)
LEMMA HeadStored ==
  ASSUME Inv, wop # "none", Len(src) > Contig(w_), Stored(mem, Contig(w_)),
         mem' = CopyIn(mem, 0, SubSeq(src, Contig(w_) + 1, Len(src)))
  PROVE  Stored(mem', Len(src))
<1> DEFINE k == Contig(w_)
           s == SubSeq(src, k + 1, Len(src))
<1>1. /\ k \in 1 .. Capacity /\ k = Capacity - RingPhys(w_) /\ Len(src) \in 0 .. Capacity
      /\ RingPhys(w_) \in 0 .. Capacity - 1 /\ k < Len(src) /\ Capacity \in Nat
  BY WritePlaces, WrapBound
<1>2. mem \in DataArea /\ w_ \in Pos /\ src \in Seq(Byte)
  BY WritePlaces
<1>3. Stored(mem, k) /\ mem' = CopyIn(mem, 0, s)
  OBVIOUS
<1> HIDE DEF k
<1>4. /\ s \in Seq(Byte) /\ Len(s) = Len(src) - k
      /\ \A j \in 1 .. Len(src) - k : s[j] = src[k + j]
  BY <1>1, <1>2, SMTT(30)
<1> HIDE DEF s
<1> SUFFICES ASSUME NEW i \in 1 .. Len(src)
             PROVE  mem'[RingPhys(Plus(w_, i - 1))] = src[i]
  BY DEF Stored
<1>5. i - 1 \in 0 .. Capacity
  BY <1>1, SMT
<1>6. RingPhys(Plus(w_, i - 1)) =
        IF RingPhys(w_) + (i - 1) < Capacity THEN RingPhys(w_) + (i - 1)
                                             ELSE RingPhys(w_) + (i - 1) - Capacity
  BY <1>2, <1>5, PhysPlus
<1>7. CASE i <= k
  <2>1. /\ RingPhys(w_) + (i - 1) \in 0 .. Capacity - 1
        /\ 0 + Len(s) <= RingPhys(w_) + (i - 1) /\ i \in 1 .. k
    BY <1>1, <1>4, <1>7, SMTT(30)
  <2>2. mem'[RingPhys(w_) + (i - 1)] = mem[RingPhys(w_) + (i - 1)]
    <3> DEFINE c == RingPhys(w_) + (i - 1)
    <3>1. c \in DOMAIN mem /\ 0 + Len(s) <= c /\ c \in Nat /\ Len(s) \in Nat
      BY <1>1, <1>2, <1>4, <2>1, SMT DEF DataArea
    <3> HIDE DEF c
    <3>2. ~(c < 0 + Len(s))
      BY <3>1, SMT
    <3>3. CopyIn(mem, 0, s)[c] = mem[c]
      BY <3>1, <3>2 DEF CopyIn
    <3>4. mem'[c] = mem[c]
      BY <1>3, <3>3
    <3> QED
      BY <3>4 DEF c
  <2>3. mem[RingPhys(Plus(w_, i - 1))] = src[i]
    BY <1>3, <2>1 DEF Stored
  <2>4. RingPhys(Plus(w_, i - 1)) = RingPhys(w_) + (i - 1)
    BY <1>1, <1>6, <2>1, SMT
  <2> QED
    BY <2>2, <2>3, <2>4
<1>8. CASE i > k
  <2>1. /\ i - k \in 1 .. Len(src) - k /\ k + (i - k) = i
        /\ ~(RingPhys(w_) + (i - 1) < Capacity)
        /\ RingPhys(w_) + (i - 1) - Capacity = 0 + ((i - k) - 1)
    BY <1>1, <1>8, SMTT(30)
  <2>2. 0 + Len(s) <= Capacity
    BY <1>1, <1>4, SMT
  <2>3. mem'[0 + ((i - k) - 1)] = s[i - k]
    BY <1>2, <1>3, <1>4, <2>1, <2>2, CopyInElements, SMT
  <2>4. s[i - k] = src[i]
    BY <1>4, <2>1
  <2> QED
    BY <1>6, <2>1, <2>3, <2>4
<1>9. i <= k \/ i > k
  BY <1>1, SMT
<1> QED
  BY <1>7, <1>8, <1>9

(* Every step preserves WriteInv.                                          *)
LEMMA WriteInvStep ==
  ASSUME Inv, WriteInv, [Next]_vars
  PROVE  WriteInv'
<1>1. CASE UNCHANGED <<mem, producer>>
  BY <1>1 DEF WriteInv, Stored, producer, Contig
<1>2. CASE wpc' \notin {"copy2", "copied", "filled"}
  BY <1>2 DEF WriteInv
<1>3. CASE CopyTail
  <2> DEFINE n == Least(Len(src), Contig(w_))
             s == SubSeq(src, 1, n)
  <2>1. wop # "none"
    BY <1>3 DEF CopyTail, Inv, ProducerInv
  <2>2. /\ n \in 0 .. Len(src) /\ n <= Contig(w_)
        /\ Len(src) <= Contig(w_) => n = Len(src)
        /\ ~(Len(src) <= Contig(w_)) => n = Contig(w_)
    BY <2>1, WritePlaces, WrapBound, SMT DEF Least
  <2> HIDE DEF n
  <2>3. s \in Seq(Byte) /\ Len(s) = n /\ \A i \in 1 .. n : s[i] = src[i]
    BY <2>1, <2>2, WritePlaces, SMT
  <2>4. mem' = CopyIn(mem, RingPhys(w_), s)
    BY <1>3 DEF CopyTail, n
  <2> HIDE DEF s
  <2>5. Stored(mem', n)
    BY <2>1, <2>2, <2>3, <2>4, TailStored
  <2>6. UNCHANGED <<w_, src>>
    BY <1>3 DEF CopyTail
  <2>7. wpc' = IF Len(src) <= Contig(w_) THEN "copied" ELSE "copy2"
    BY <1>3 DEF CopyTail
  <2> QED
    BY <2>2, <2>5, <2>6, <2>7 DEF WriteInv, Stored, Contig
<1>4. CASE CopyHead
  <2>1. wop # "none" /\ Len(src) > Contig(w_) /\ Stored(mem, Contig(w_))
    BY <1>4 DEF CopyHead, Inv, ProducerInv, WriteInv
  <2>2. Stored(mem', Len(src))
    BY <1>4, <2>1, HeadStored DEF CopyHead
  <2> QED
    BY <1>4, <2>2 DEF CopyHead, WriteInv, Stored
<1>5. CASE FillReserved
  <2>1. wop # "none" /\ Len(src) <= Contig(w_)
    BY <1>5 DEF FillReserved, Inv, ProducerInv
  <2>2. src \in Seq(Byte) /\ Len(src) \in 0 .. Len(src)
    BY <2>1, WritePlaces, SMT
  <2>3. Stored(mem', Len(src))
    BY <1>5, <2>1, <2>2, TailStored DEF FillReserved
  <2> QED
    BY <1>5, <2>3 DEF FillReserved, WriteInv, Stored
<1>6. Consume => UNCHANGED <<mem, producer>>
  BY DEF Consume, StartRead, TryRead, ReadExact, CopyOutTail, CopyOutHead, ReadStore,
     Peek, CommitRead, DropView
<1>7. Produce => \/ CopyTail \/ CopyHead \/ FillReserved
                 \/ wpc' \notin {"copy2", "copied", "filled"}
  BY DEF Produce, TryWrite, OpenBatch, BatchTryWrite, TryWriteStore, Advance,
     BatchTryWriteEnd, Reserve, CommitReserve, AbandonReserve, NoteMark, RewindTo,
     Cancel, Flush, CloseBatch
<1> QED
  BY <1>1, <1>2, <1>3, <1>4, <1>5, <1>6, <1>7 DEF Next, vars

-----------------------------------------------------------------------------
(* The slices of a state.                                                  *)

(* Unread bytes, pending bytes and write in progress lie one behind the    *)
(* other, within one lap.                                                  *)
LEMMA Boundaries ==
  ASSUME Inv
  PROVE  /\ mem \in DataArea /\ read_pos \in Pos /\ write_pos \in Pos /\ w_start_ \in Pos
         /\ Available \in 0 .. Capacity /\ write_pos = Plus(read_pos, Available)
         /\ w_ = Plus(w_start_, PendingBytes)
         /\ wop # "none" =>
              /\ w_start_ = write_pos
              /\ PendingBytes \in 0 .. Capacity
              /\ Available + PendingBytes + Len(src) <= Capacity
<1>1. /\ mem \in DataArea /\ read_pos \in Pos /\ write_pos \in Pos /\ w_start_ \in Pos
      /\ w_ \in Pos
  BY DEF Inv, TypeOK, DataArea
<1>2. Available \in 0 .. Capacity
  BY Distances, WrapBound, SMT DEF Inv, ConsumerInv
<1>3. write_pos = Plus(read_pos, Available) /\ w_ = Plus(w_start_, PendingBytes)
  BY <1>1, PlusOfMinus DEF Available, PendingBytes
<1>4. ASSUME wop # "none"
      PROVE  /\ w_start_ = write_pos
             /\ PendingBytes \in 0 .. Capacity
             /\ Available + PendingBytes + Len(src) <= Capacity
  <2>1. w_start_ = write_pos
    BY <1>4 DEF Inv, ProducerInv
  <2>2. Available + PendingBytes + Len(src) <= Capacity
    BY <1>4, WriteOffset
  <2> QED
    BY <2>1, <2>2, Distances, WrapBound, SMT
<1> QED
  BY <1>1, <1>2, <1>3, <1>4

(* The values of ByteStream's variables as slices, and their lengths.      *)
LEMMA Mapping ==
  ASSUME Inv
  PROVE  /\ Unread = SliceOf(mem, read_pos, Available) /\ Len(Unread) = Available
         /\ wop = "Batch" =>
              /\ Pending = SliceOf(mem, w_start_, PendingBytes)
              /\ Len(Pending) = PendingBytes
         /\ wop # "Batch" => Pending = <<>> /\ Len(Pending) = 0
<1>1. Unread = SliceOf(mem, read_pos, Available)
  BY DEF Unread, Slice, SliceOf
<1>2. Len(Unread) = Available
  BY <1>1, Boundaries, SliceOfBytes
<1>3. ASSUME wop = "Batch"
      PROVE  Pending = SliceOf(mem, w_start_, PendingBytes) /\ Len(Pending) = PendingBytes
  <2>1. Pending = SliceOf(mem, w_start_, PendingBytes)
    BY <1>3 DEF Pending, Slice, SliceOf
  <2> QED
    BY <1>3, <2>1, Boundaries, SliceOfBytes
<1>4. wop # "Batch" => Pending = <<>> /\ Len(Pending) = 0
  BY DEF Pending
<1> QED
  BY <1>1, <1>2, <1>3, <1>4

(* A memcpy of the producer changes neither an unread nor a pending byte.  *)
LEMMA BehindStable ==
  ASSUME Inv, CopyTail \/ CopyHead \/ FillReserved, NEW j \in 0 .. Available + PendingBytes - 1
  PROVE  mem'[RingPhys(Plus(read_pos, j))] = mem[RingPhys(Plus(read_pos, j))]
<1> DEFINE d == Available + PendingBytes
           c == RingPhys(Plus(read_pos, j))
<1>1. wop # "none"
  BY DEF CopyTail, CopyHead, FillReserved, Inv, ProducerInv
<1>2. w_ = Plus(read_pos, d) /\ d + Len(src) <= Capacity
  BY <1>1, WriteOffset
<1>3. d \in Nat /\ Len(src) \in Nat /\ j \in 0 .. d - 1 /\ Capacity \in Nat
  BY Distances, WrapBound, SMTT(30)
<1> HIDE DEF d
<1>4. j \in 0 .. Capacity - 1 /\ j \in 0 .. Capacity /\ read_pos \in Pos
  BY <1>2, <1>3, Boundaries, SMT
<1>5. c \in 0 .. Capacity - 1
  BY <1>4, PlaceType
<1>6. c \notin Cells(w_, Len(src))
  <2> SUFFICES ASSUME NEW i \in 0 .. Len(src) - 1, RingPhys(Plus(w_, i)) = c
               PROVE  FALSE
    BY DEF Cells
  <2>1. i \in Nat /\ d + i <= Capacity /\ d + i \in 0 .. Capacity - 1 /\ d + i # j
    BY <1>2, <1>3, SMT
  <2>2. Plus(w_, i) = Plus(read_pos, d + i)
    BY <1>2, <1>3, <1>4, <2>1, PlusPlus
  <2>3. d + i = j
    BY <1>4, <2>1, <2>2, PhysInjective
  <2> QED
    BY <2>1, <2>3
<1> HIDE DEF c
<1>7. mem'[c] = mem[c]
  BY <1>5, <1>6, CopyTouches
<1> QED
  BY <1>7 DEF c

(* So the copies are invisible.                                            *)
LEMMA CopyRefines ==
  ASSUME Inv, CopyTail \/ CopyHead \/ FillReserved
  PROVE  UNCHANGED <<src, Pending, Unread>>
<1>1. wop # "none"
  BY DEF CopyTail, CopyHead, FillReserved, Inv, ProducerInv
<1>2. /\ UNCHANGED <<write_pos, read_pos, wop, w_, w_start_, src>>
      /\ Available' = Available /\ PendingBytes' = PendingBytes
  BY DEF CopyTail, CopyHead, FillReserved, Available, PendingBytes
<1>3. /\ Available \in Nat /\ PendingBytes \in Nat /\ Capacity \in Nat
      /\ w_start_ = Plus(read_pos, Available) /\ read_pos \in Pos
      /\ Available + PendingBytes <= Capacity
  BY <1>1, Boundaries, Distances, WrapBound, SMT
<1>4. Unread' = Unread
  <2>1. ASSUME NEW i \in 1 .. Available
        PROVE  mem'[RingPhys(Plus(read_pos, i - 1))] = mem[RingPhys(Plus(read_pos, i - 1))]
    <3>1. i - 1 \in 0 .. Available + PendingBytes - 1
      BY <1>3, SMT
    <3> QED
      BY <3>1, BehindStable
  <2> QED
    BY <1>2, <2>1 DEF Unread, Slice
<1>5. Pending' = Pending
  <2>1. ASSUME NEW i \in 1 .. PendingBytes
        PROVE  mem'[RingPhys(Plus(w_start_, i - 1))] = mem[RingPhys(Plus(w_start_, i - 1))]
    <3>1. /\ i - 1 \in Nat /\ Available + (i - 1) <= Capacity
          /\ Available + (i - 1) \in 0 .. Available + PendingBytes - 1
      BY <1>3, SMT
    <3>2. Plus(w_start_, i - 1) = Plus(read_pos, Available + (i - 1))
      BY <1>3, <3>1, PlusPlus
    <3> QED
      BY <3>1, <3>2, BehindStable
  <2> QED
    BY <1>2, <2>1 DEF Pending, Slice
<1> QED
  BY <1>2, <1>4, <1>5

-----------------------------------------------------------------------------
(* Every step of the ring is one of the stream, or none.                   *)

(* A call that passes its checks is an Offer.                              *)
LEMMA OfferRefines ==
  ASSUME Inv, NEW s \in Messages, TryWrite(s) \/ BatchTryWrite(s) \/ Reserve(s)
  PROVE  Stream!Offer
<1>1. s \in Seq(Byte) /\ Len(s) \in Nat /\ src = <<>> /\ src' = s
  BY MessagesAssumption, SMT DEF TryWrite, BatchTryWrite, Reserve, Inv, ProducerInv
<1>2. Len(s) > 0 /\ Len(s) <= Capacity \div 2
  BY DEF TryWrite, BatchTryWrite, Reserve, Fits, max_write_size
<1>3. UNCHANGED <<mem, write_pos, read_pos>>
  BY DEF TryWrite, BatchTryWrite, Reserve
<1>4. Unread' = Unread
  BY <1>3 DEF Unread, Slice, Available
<1>5. CASE TryWrite(s)
  <2>1. wop = "none" /\ wop' = "TryWrite" /\ Pending = <<>> /\ Pending' = <<>>
    BY <1>5 DEF TryWrite, Inv, ProducerInv, Pending
  <2>2. Available + Len(s) <= Capacity
    BY <1>1, <1>5, FitsMeaning, Boundaries, WrapBound, SMT DEF TryWrite, Available
  <2>3. Len(Unread) + Len(Pending) + Len(s) <= Capacity
    BY <2>1, <2>2, Mapping, Distances, WrapBound, SMT
  <2> QED
    BY <1>1, <1>2, <1>4, <2>1, <2>3, SMT DEF Stream!Offer
<1>6. CASE BatchTryWrite(s) \/ Reserve(s)
  <2>1. wop = "Batch"
    BY <1>6 DEF BatchTryWrite, Reserve, Inv, ProducerInv, TypeOK
  <2>2. UNCHANGED <<wop, w_, w_start_>>
    BY <1>6 DEF BatchTryWrite, Reserve
  <2>3. Pending' = Pending
    BY <1>3, <2>2 DEF Pending, Slice, PendingBytes
  <2>4. Minus(w_, r_) + Len(s) <= Capacity
    <3>1. Minus(w_, r_) <= Capacity /\ w_ \in Pos /\ r_ \in Pos /\ Fits(w_, r_, Len(s))
      BY <1>1, <1>6, <2>1, Distances, SMTT(30) DEF Inv, ProducerInv, TypeOK, BatchTryWrite, Reserve
    <3> QED
      BY <1>1, <3>1, FitsMeaning
  <2>5. Available + PendingBytes + Len(s) <= Capacity
    <3>1. /\ Minus(w_, r_) = Minus(write_pos, r_) + PendingBytes
          /\ Available <= Minus(write_pos, r_)
      BY <2>1, Distances DEF Inv, ProducerInv
    <3> QED
      BY <1>1, <2>4, <3>1, Distances, WrapBound, SMTT(30)
  <2>6. Len(Unread) + Len(Pending) + Len(s) <= Capacity
    BY <2>1, <2>5, Mapping
  <2> QED
    BY <1>1, <1>2, <1>4, <2>3, <2>6, SMT DEF Stream!Offer
<1> QED
  BY <1>5, <1>6

(* The release store of TryWrite is a Write.                               *)
LEMMA TryWriteStoreRefines ==
  ASSUME Inv, WriteInv, TryWriteStore
  PROVE  Stream!Write
<1>1. /\ wop = "TryWrite" /\ wop' = "none" /\ src # <<>> /\ src' = <<>>
      /\ w_ = write_pos /\ Stored(mem, Len(src)) /\ src \in Seq(Byte)
      /\ UNCHANGED <<mem, read_pos>>
  BY DEF TryWriteStore, Inv, TypeOK, ProducerInv, WriteInv
<1>2. Pending = <<>> /\ Pending' = <<>>
  BY <1>1 DEF Pending
<1>3. Available + Len(src) <= Capacity /\ Available \in Nat /\ Len(src) \in Nat
  BY <1>1, Boundaries, Distances, WrapBound, SMT
<1>4. Available' = Available + Len(src)
  <2>1. Minus(write_pos, read_pos) + Len(src) < Wrap
    BY <1>3, WrapBound, SMT DEF Available
  <2>2. Minus(Plus(write_pos, Len(src)), read_pos) = Minus(write_pos, read_pos) + Len(src)
    BY <1>3, <2>1, MinusPlus, Boundaries
  <2> QED
    BY <1>1, <2>2 DEF Available, TryWriteStore
<1>5. SliceOf(mem, read_pos, Available + Len(src)) = SliceOf(mem, read_pos, Available) \o src
  <2>1. \A i \in 1 .. Len(src) : mem[RingPhys(Plus(Plus(read_pos, Available), i - 1))] = src[i]
    BY <1>1, Boundaries DEF Stored
  <2> QED
    BY <1>1, <1>3, <2>1, Boundaries, SliceAppend
<1>6. Unread' = SliceOf(mem, read_pos, Available + Len(src))
  BY <1>1, <1>4 DEF Unread, Slice, SliceOf
<1>7. Unread' = Unread \o src
  BY <1>5, <1>6, Mapping
<1> QED
  BY <1>1, <1>2, <1>7 DEF Stream!Write

(* A write that joins the batch is an Accept.                              *)
LEMMA AdvanceRefines ==
  ASSUME Inv, WriteInv, BatchTryWriteEnd \/ CommitReserve
  PROVE  Stream!Accept
<1>1. Advance /\ wpc \in {"copied", "filled"} /\ wop = "Batch"
  BY DEF BatchTryWriteEnd, CommitReserve, Inv, ProducerInv, TypeOK
<1>2. /\ src # <<>> /\ src' = <<>> /\ wop' = "Batch" /\ src \in Seq(Byte)
      /\ Stored(mem, Len(src)) /\ UNCHANGED <<mem, write_pos, read_pos, w_start_>>
  BY <1>1 DEF Advance, Inv, TypeOK, ProducerInv, WriteInv
<1>3. Unread' = Unread
  BY <1>2 DEF Unread, Slice, Available
<1>4. PendingBytes + Len(src) <= Capacity /\ PendingBytes \in Nat /\ Len(src) \in Nat
  BY <1>1, Boundaries, Distances, WrapBound, SMTT(30)
<1>5. PendingBytes' = PendingBytes + Len(src)
  <2>1. Minus(w_, w_start_) + Len(src) < Wrap /\ w_ \in Pos /\ w_start_ \in Pos
    BY <1>4, WrapBound, SMT DEF PendingBytes, Inv, TypeOK
  <2>2. Minus(Plus(w_, Len(src)), w_start_) = Minus(w_, w_start_) + Len(src)
    BY <1>4, <2>1, MinusPlus
  <2> QED
    BY <1>1, <1>2, <2>2 DEF PendingBytes, Advance
<1>6. SliceOf(mem, w_start_, PendingBytes + Len(src))
        = SliceOf(mem, w_start_, PendingBytes) \o src
  <2>1. \A i \in 1 .. Len(src) :
          mem[RingPhys(Plus(Plus(w_start_, PendingBytes), i - 1))] = src[i]
    BY <1>2, Boundaries DEF Stored
  <2> QED
    BY <1>2, <1>4, <2>1, Boundaries, SliceAppend
<1>7. Pending' = SliceOf(mem, w_start_, PendingBytes + Len(src))
  BY <1>2, <1>5 DEF Pending, Slice, SliceOf
<1>8. Pending' = Pending \o src
  BY <1>1, <1>6, <1>7, Mapping
<1> QED
  BY <1>2, <1>3, <1>8 DEF Stream!Accept

(* A reserved region that is given up is a Withdraw.                       *)
LEMMA AbandonRefines ==
  ASSUME Inv, AbandonReserve
  PROVE  Stream!Withdraw
<1>1. /\ src # <<>> /\ src' = <<>>
      /\ UNCHANGED <<mem, write_pos, read_pos, wop, w_, w_start_>>
  BY DEF AbandonReserve, Inv, ProducerInv
<1>2. Unread' = Unread /\ Pending' = Pending
  BY <1>1 DEF Unread, Pending, Slice, Available, PendingBytes
<1> QED
  BY <1>1, <1>2 DEF Stream!Withdraw

(* RewindTo and Cancel are a Rollback to the bytes pending at the mark.    *)
LEMMA UndoRefines ==
  ASSUME Inv, RewindTo \/ Cancel
  PROVE  Stream!Rollback
<1>1. /\ wop = "Batch" /\ wop' = "Batch" /\ src = <<>> /\ src' = <<>>
      /\ UNCHANGED <<mem, write_pos, read_pos, w_start_>>
  BY DEF RewindTo, Cancel, Inv, ProducerInv, TypeOK
<1>2. Unread' = Unread
  BY <1>1 DEF Unread, Slice, Available
<1>3. PICK n \in 0 .. PendingBytes : w_' = Plus(w_start_, n)
  <2>1. CASE RewindTo
    <3>1. mark[1] \in Nat /\ mark[1] <= PendingBytes /\ w_' = Plus(w_start_, mark[1])
      BY <2>1, WrapBound, SMT DEF RewindTo, Inv, TypeOK
    <3> QED
      BY <3>1, Distances, SMT
  <2>2. CASE Cancel
    <3>1. w_' = Plus(w_start_, 0)
      BY <2>2, WrapBound, Boundaries, SMT DEF Cancel, Pos, Plus
    <3> QED
      BY <3>1, Distances, SMT
  <2> QED
    BY <2>1, <2>2
<1>4. PendingBytes \in 0 .. Capacity /\ w_start_ \in Pos /\ mem \in DataArea
  BY <1>1, Boundaries
<1>5. PendingBytes' = n
  <2>1. Minus(w_start_, w_start_) = 0 /\ n \in Nat /\ n < Wrap
    BY <1>4, WrapBound, SMT DEF Pos, Minus
  <2>2. Minus(Plus(w_start_, n), w_start_) = n
    BY <1>4, <2>1, MinusPlus, SMT
  <2> QED
    BY <1>1, <1>3, <2>2 DEF PendingBytes
<1>6. Pending' = SliceOf(mem, w_start_, n)
  BY <1>1, <1>5 DEF Pending, Slice, SliceOf
<1>7. Pending' = SubSeq(Pending, 1, n) /\ Len(Pending) = PendingBytes
  BY <1>1, <1>4, <1>6, SlicePrefix, Mapping
<1> QED
  BY <1>1, <1>2, <1>7 DEF Stream!Rollback

(* Flush, and the destructor that flushes, are a Publish.                  *)
LEMMA FlushRefines ==
  ASSUME Inv, Flush \/ CloseBatch
  PROVE  Stream!Publish
<1>1. /\ wop = "Batch" /\ src = <<>> /\ src' = <<>> /\ w_start_ = write_pos /\ PublishBatch
      /\ UNCHANGED <<mem, read_pos, w_>>
  BY DEF Flush, CloseBatch, Inv, ProducerInv, TypeOK
<1>2. write_pos' = w_ /\ w_start_' = w_
  BY <1>1 DEF PublishBatch
<1>3. /\ Available \in Nat /\ PendingBytes \in Nat /\ Available + PendingBytes <= Capacity
      /\ PendingBytes \in 0 .. Capacity
  BY <1>1, Boundaries, Distances, WrapBound, SMT
<1>4. Available' = Available + PendingBytes
  <2>1. w_ \in Pos /\ Minus(w_, write_pos) + Minus(write_pos, read_pos) < Wrap
    BY <1>1, <1>3, WrapBound, SMT DEF Available, PendingBytes, Inv, TypeOK
  <2>2. Minus(w_, read_pos) = Minus(w_, write_pos) + Minus(write_pos, read_pos)
    BY <2>1, MinusAdd, Boundaries, SMT
  <2> QED
    BY <1>1, <1>2, <1>3, <2>2, SMT DEF Available, PendingBytes
<1>5. Pending' = <<>>
  <2>1. PendingBytes' = 0
    BY <1>1, <1>2, WrapBound, SMT DEF PendingBytes, Minus, Inv, TypeOK, Pos
  <2> QED
    BY <2>1, SMT DEF Pending, Slice
<1>6. Unread' = Unread \o Pending
  <2> DEFINE t == SliceOf(mem, w_start_, PendingBytes)
  <2>1. /\ t \in Seq(Byte) /\ Len(t) = PendingBytes
        /\ \A i \in 1 .. PendingBytes : t[i] = mem[RingPhys(Plus(w_start_, i - 1))]
    BY <1>3, Boundaries, SliceOfBytes
  <2>2. t = Pending
    BY <1>1, Mapping
  <2> HIDE DEF t
  <2>3. \A i \in 1 .. Len(t) : mem[RingPhys(Plus(Plus(read_pos, Available), i - 1))] = t[i]
    BY <1>1, <2>1, Boundaries
  <2>4. SliceOf(mem, read_pos, Available + Len(t)) = SliceOf(mem, read_pos, Available) \o t
    BY <1>3, <2>1, <2>3, Boundaries, SliceAppend
  <2>5. Unread' = SliceOf(mem, read_pos, Available + Len(t))
    BY <1>1, <1>4, <2>1 DEF Unread, Slice, SliceOf
  <2> QED
    BY <2>2, <2>4, <2>5, Mapping
<1> QED
  BY <1>1, <1>5, <1>6 DEF Stream!Publish

(* The stores of read_pos are a Consume.                                   *)
LEMMA ReadEndRefines ==
  ASSUME Inv, NEW n \in Nat, 0 < n, n <= len, rpc # "idle",
         read_pos' = Plus(read_pos, n), UNCHANGED <<mem, write_pos, producer>>
  PROVE  Stream!Consume
<1>1. n \in 0 .. Available /\ n \in 1 .. Available
  <2>1. len <= avail /\ avail <= Available
    BY DEF Inv, ConsumerInv
  <2>2. len \in Nat /\ avail \in Nat
    BY WrapBound, SMT DEF Inv, TypeOK
  <2>3. Available \in Nat
    BY Distances
  <2> QED
    BY <2>1, <2>2, <2>3, SMT
<1>2. Available' = Available - n
  BY <1>1, MinusPlusRight, Boundaries, SMT DEF Available
<1>3. Unread' = SliceOf(mem, Plus(read_pos, n), Available - n)
  BY <1>2 DEF Unread, Slice, SliceOf
<1>4. Unread' = SubSeq(Unread, n + 1, Len(Unread)) /\ Len(Unread) = Available
  <2>1. SliceOf(mem, Plus(read_pos, n), Available - n)
          = SubSeq(SliceOf(mem, read_pos, Available), n + 1, Available)
    BY <1>1, SliceSuffix, Boundaries
  <2>2. Unread = SliceOf(mem, read_pos, Available) /\ Len(Unread) = Available
    BY Mapping
  <2> QED
    BY <1>3, <2>1, <2>2
<1>5. UNCHANGED <<src, Pending>>
  BY DEF producer, Pending, Slice, PendingBytes
<1> QED
  BY <1>1, <1>4, <1>5 DEF Stream!Consume

(* A step that changes no position and no byte is none of the stream; nor  *)
(* is the opening of an empty batch.                                       *)
LEMMA StutterRefines ==
  ASSUME Inv,
         \/ UNCHANGED <<mem, write_pos, read_pos, wop, w_, w_start_, src>>
         \/ OpenBatch
  PROVE  UNCHANGED <<src, Pending, Unread>>
<1>1. CASE UNCHANGED <<mem, write_pos, read_pos, wop, w_, w_start_, src>>
  BY <1>1 DEF Unread, Pending, Slice, Available, PendingBytes
<1>2. CASE OpenBatch
  <2>1. UNCHANGED <<mem, write_pos, read_pos, src>>
    BY <1>2 DEF OpenBatch
  <2>2. Unread' = Unread
    BY <2>1 DEF Unread, Slice, Available
  <2>3. Pending = <<>>
    BY <1>2 DEF OpenBatch, Inv, ProducerInv, Pending
  <2>4. PendingBytes' = 0
    BY <1>2, Boundaries, WrapBound, SMT DEF OpenBatch, Snapshot, PendingBytes, Minus, Pos
  <2>5. Pending' = <<>>
    BY <2>4, SMT DEF Pending, Slice
  <2> QED
    BY <2>1, <2>2, <2>3, <2>5
<1> QED
  BY <1>1, <1>2

(* All steps together.                                                     *)
LEMMA NextRefines ==
  ASSUME Inv, WriteInv, [Next]_vars
  PROVE  [Stream!Next]_Stream!vars
<1> USE DEF Stream!Next, Stream!vars
<1>1. ASSUME NEW s \in Messages, TryWrite(s) \/ BatchTryWrite(s) \/ Reserve(s)
      PROVE  Stream!Next
  BY <1>1, OfferRefines
<1>2. CASE CopyTail \/ CopyHead \/ FillReserved
  BY <1>2, CopyRefines
<1>3. CASE OpenBatch \/ NoteMark
  BY <1>3, StutterRefines DEF NoteMark
<1>4. CASE TryWriteStore
  BY <1>4, TryWriteStoreRefines
<1>5. CASE BatchTryWriteEnd \/ CommitReserve
  BY <1>5, AdvanceRefines
<1>6. CASE AbandonReserve
  BY <1>6, AbandonRefines
<1>7. CASE RewindTo \/ Cancel
  BY <1>7, UndoRefines
<1>8. CASE Flush \/ CloseBatch
  BY <1>8, FlushRefines
<1>9. CASE Produce
  BY <1>1, <1>2, <1>3, <1>4, <1>5, <1>6, <1>7, <1>8, <1>9 DEF Produce
<1>10. ASSUME NEW n \in 1 .. Capacity, CommitRead(n) PROVE Stream!Next
  <2>1. n \in Nat
    BY WrapBound, SMT
  <2> QED
    BY <1>10, <2>1, ReadEndRefines DEF CommitRead
<1>11. CASE ReadStore
  <2>1. len \in Nat /\ 0 < len /\ len <= len
    BY <1>11, WrapBound, SMT DEF ReadStore, Inv, TypeOK, ConsumerInv
  <2> QED
    BY <1>11, <2>1, ReadEndRefines DEF ReadStore
<1>12. ASSUME UNCHANGED <<mem, write_pos, read_pos, producer>>
       PROVE  UNCHANGED Stream!vars
  BY <1>12, StutterRefines DEF producer
<1>13. CASE Consume
  <2>1. \/ \E n \in 1 .. Capacity : CommitRead(n)
        \/ ReadStore
        \/ UNCHANGED <<mem, write_pos, read_pos, producer>>
    BY <1>13 DEF Consume, StartRead, TryRead, ReadExact, Peek, CopyOutTail,
       CopyOutHead, DropView
  <2> QED
    BY <1>10, <1>11, <1>12, <2>1
<1>14. CASE UNCHANGED vars
  BY <1>12, <1>14 DEF vars
<1> QED
  BY <1>9, <1>13, <1>14 DEF Next

(* The ring implements the bounded transactional FIFO: whatever the two    *)
(* sides of ringbuf.hpp do and however their steps interleave, writes and  *)
(* batches reach the consumer whole, in order and exactly once.            *)
THEOREM ImplementsByteStreamCorrect == Spec => ImplementsByteStream
<1>1. Init => WriteInv
  BY DEF Init, WriteInv
<1>2. Init => Stream!Init
  <2> SUFFICES ASSUME Init PROVE Stream!Init
    OBVIOUS
  <2>1. Available = 0 /\ src = <<>> /\ wop = "none"
    BY WrapBound, SMT DEF Init, Available, Minus
  <2>2. Unread = <<>> /\ Pending = <<>>
    BY <2>1, SMT DEF Unread, Pending, Slice
  <2> QED
    BY <2>1, <2>2 DEF Stream!Init
<1> QED
  BY <1>1, <1>2, WriteInvStep, NextRefines, Invariance, PTL
     DEF Spec, ImplementsByteStream, Stream!Spec

=============================================================================
