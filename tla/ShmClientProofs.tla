-------------------------- MODULE ShmClientProofs ---------------------------
(***************************************************************************)
(* Proofs about ShmClient, for every capacity, all message lengths and any *)
(* number of connections and bytes.                                        *)
(***************************************************************************)
EXTENDS ShmClient, TLAPS

(* A SendMessage in progress keeps the room it saw, and what is there to   *)
(* read was written.                                                       *)
RoomInv ==
  /\ TypeOK
  /\ avail <= written
  /\ spc = "write" => Capacity - outbox >= left

(* The owner of the client is in one call at a time, and closed_ is set    *)
(* throughout Connect, up to its last store.                               *)
OwnerInv ==
  /\ rpc # "idle" \/ spc # "idle" => npc = "idle"
  /\ npc # "idle" => closed_

(* Without a Close that overlapped the last Connect, the socket of a       *)
(* client that is not closed is not shut down, nor about to be.            *)
ShutInv ==
  late \/ /\ npc # "idle" => cpc = "idle"
          /\ npc \notin {"idle", "close_fd"} => ~shut
          /\ npc = "idle" /\ (shut \/ cpc # "idle") => closed_

(* What ReadMessage has found out about the peer on its way to "eof".      *)
EofInv ==
  late \/ /\ rpc = "sock" => peer = "gone" \/ shut
          /\ rpc = "last" => peer = "gone"
          /\ rpc \in {"close_fd", "store_fd"} => peer = "gone" /\ avail = 0

Inv == RoomInv /\ OwnerInv /\ ShutInv /\ EofInv

-----------------------------------------------------------------------------
(* A piece is no longer than what is left to write.                        *)
LEMMA ChunkFacts ==
  ASSUME TypeOK
  PROVE  Chunk \in 0 .. left /\ left \in 0 .. Capacity /\ outbox \in 0 .. Capacity
         /\ Capacity \in Nat /\ MaxBytes \in Nat /\ MaxConnects \in Nat
<1>1. Capacity \in Nat /\ MaxBytes \in Nat /\ MaxConnects \in Nat
  BY ShmClientAssumption
<1>2. max_write_size \in Nat
  BY <1>1 DEF max_write_size
<1>3. left \in 0 .. Capacity /\ outbox \in 0 .. Capacity
  BY DEF TypeOK
<1> QED
  BY <1>1, <1>2, <1>3 DEF Chunk

(* A new client has no connection.                                         *)
LEMMA InitInv == Init => Inv
<1> SUFFICES ASSUME Init PROVE Inv
  OBVIOUS
<1>1. 0 \in 0 .. Capacity /\ 0 \in 0 .. MaxBytes /\ 0 \in 0 .. MaxConnects
  BY ShmClientAssumption
<1>2. TypeOK
  BY <1>1, Zenon DEF Init, TypeOK
<1> QED
  BY <1>2 DEF Init, Inv, RoomInv, OwnerInv, ShutInv, EofInv

(* The owner's steps.                                                      *)
LEMMA ConnectInv == ASSUME Inv, Connect \/ ConnectStep PROVE Inv'
<1>1. TypeOK /\ Capacity \in Nat /\ MaxBytes \in Nat /\ MaxConnects \in Nat
  BY ChunkFacts DEF Inv, RoomInv
<1>2. CASE Connect
  <2>1. TypeOK'
    <3>1. connects' \in 0 .. MaxConnects /\ 0 \in 0 .. MaxBytes /\ 0 \in 0 .. Capacity
      BY <1>1, <1>2 DEF Connect, TypeOK
    <3>2. shut' \in BOOLEAN /\ late' \in BOOLEAN
      BY <1>1, <1>2 DEF Connect, TypeOK
    <3>3. closed_' \in BOOLEAN /\ unsaid' \in BOOLEAN /\ efd' \in BOOLEAN
      BY <1>2, Zenon DEF Connect
    <3>4. /\ UNCHANGED <<fd, file, peer, written, rpc, res, cpc, arg, spc, left>>
          /\ avail' = 0 /\ outbox' = 0 /\ npc' = "close_fd"
      BY <1>2 DEF Connect, read, close
    <3> QED
      BY <1>1, <3>1, <3>2, <3>3, <3>4 DEF TypeOK
  <2>2. RoomInv'
    BY <1>1, <1>2, <2>1 DEF Connect, RoomInv, TypeOK, read, close
  <2>3. OwnerInv'
    BY <1>2 DEF Connect, OwnerInv, read, close
  <2>4. ShutInv'
    BY <1>2, Zenon DEF Connect, ShutInv, read, close
  <2>5. EofInv'
    BY <1>2 DEF Connect, EofInv, read, close
  <2> QED
    BY <2>2, <2>3, <2>4, <2>5 DEF Inv
<1>3. CASE ConnectStore
  <2>1. /\ npc = "store" /\ npc' = "idle"
        /\ UNCHANGED <<fd, file, shut, avail, efd, peer, unsaid, written, rpc, res, cpc, arg,
                       spc, left, outbox, connects, late>>
    BY <1>3 DEF ConnectStore, peers, read, close, send
  <2>2. closed_' \in BOOLEAN
    BY <1>3, Zenon DEF ConnectStore
  <2>3. RoomInv'
    BY <1>1, <2>1, <2>2 DEF Inv, RoomInv, TypeOK
  <2>4. OwnerInv' /\ ShutInv' /\ EofInv'
    BY <2>1 DEF Inv, OwnerInv, ShutInv, EofInv
  <2> QED
    BY <2>3, <2>4 DEF Inv
<1>4. ASSUME ConnectReset \/ ConnectOpen \/ ConnectRefused \/ ConnectShake,
             UNCHANGED <<closed_, avail, efd, unsaid, written, read, close, send, connects, late>>
      PROVE  Inv'
  <2>1. UNCHANGED <<closed_, avail, efd, unsaid, written, rpc, res, cpc, arg, spc, left, outbox,
                    connects, late>>
    BY <1>4 DEF read, close, send
  <2>2. /\ npc # "idle" /\ fd' \in {-1, 1} /\ file' \in {"own", "other", "none"}
        /\ peer' \in {"up", "gone"} /\ shut' \in BOOLEAN
        /\ npc' \in {"idle", "store_fd", "open", "shake", "store", "fail_close", "fail_store"}
        /\ npc' # "idle" \/ npc = "fail_store"
    BY <1>1, <1>4, Zenon DEF ConnectReset, ConnectOpen, ConnectRefused, ConnectShake, TypeOK
  <2>3. shut' = FALSE \/ (shut' = shut /\ npc # "close_fd")
    BY <1>4 DEF ConnectReset, ConnectOpen, ConnectRefused, ConnectShake
  <2>4. TypeOK'
    BY <1>1, <2>1, <2>2 DEF TypeOK
  <2>5. RoomInv' /\ OwnerInv'
    BY <2>1, <2>2, <2>4 DEF Inv, RoomInv, OwnerInv
  <2>6. ShutInv'
    BY <2>1, <2>2, <2>3 DEF Inv, OwnerInv, ShutInv
  <2>7. EofInv'
    BY <2>1, <2>2 DEF Inv, OwnerInv, EofInv
  <2> QED
    BY <2>5, <2>6, <2>7 DEF Inv
<1> QED
  BY <1>2, <1>3, <1>4 DEF ConnectStep

(* Close, by any thread.                                                   *)
LEMMA CloseInv == ASSUME Inv, CloseStore \/ CloseStep PROVE Inv'
<1>1. TypeOK
  BY DEF Inv, RoomInv
<1>2. CASE CloseStore
  BY <1>1, <1>2 DEF CloseStore, Inv, RoomInv, OwnerInv, ShutInv, EofInv, TypeOK,
                    peers, read, send
<1>3. CASE CloseTest \/ CloseLoad
  BY <1>1, <1>3 DEF CloseTest, CloseLoad, Inv, RoomInv, OwnerInv, ShutInv, EofInv, TypeOK,
                    peers, read, send, conn
<1>4. CASE CloseShutdown
  BY <1>1, <1>4 DEF CloseShutdown, Shuts, Inv, RoomInv, OwnerInv, ShutInv, EofInv, TypeOK,
                    peers, read, send, conn
<1> QED
  BY <1>2, <1>3, <1>4 DEF CloseStep

(* ReadMessage.                                                            *)
LEMMA ReadInv ==
  ASSUME Inv, ReadMessage \/ ReadStep \/ ReadTimeout \/ PollInterrupted \/ PollFails
  PROVE  Inv'
<1>1. TypeOK /\ MaxBytes \in Nat /\ avail \in Nat /\ written \in Nat /\ avail <= written
  BY ChunkFacts DEF Inv, RoomInv, TypeOK
<1> USE DEF Inv, RoomInv, OwnerInv, ShutInv, EofInv, TypeOK, Return, peers, close, send, conn
<1>2. CASE ReadMessage
  BY <1>1, <1>2 DEF ReadMessage
<1>3. CASE TestClosed
  BY <1>1, <1>3 DEF TestClosed
<1>9. CASE ReadTimeout \/ PollInterrupted \/ PollFails
  BY <1>1, <1>9 DEF ReadTimeout, PollInterrupted, PollFails
<1>10. CASE DrainNotify
  <2>1. efd' \in BOOLEAN
    BY <1>10, Zenon DEF DrainNotify
  <2>2. UNCHANGED <<closed_, fd, file, shut, avail, peer, unsaid, written, res, cpc, arg, spc, left, outbox,
                    connects, npc, late>>
    BY <1>10 DEF DrainNotify
  <2>3. rpc = "drain" /\ rpc' = "test"
    BY <1>10 DEF DrainNotify
  <2> QED
    BY <1>1, <2>1, <2>2, <2>3
<1>4. CASE TryRead
  BY <1>1, <1>4 DEF TryRead
<1>5. CASE Poll
  BY <1>1, <1>5 DEF Poll, SocketReadable
<1>6. CASE SocketEvent
  BY <1>1, <1>6 DEF SocketEvent
<1>7. CASE LastRead
  BY <1>1, <1>7 DEF LastRead
<1>8. CASE ResetClose \/ ResetStore
  BY <1>1, <1>8 DEF ResetClose, ResetStore
<1> QED
  BY <1>2, <1>3, <1>4, <1>5, <1>6, <1>7, <1>8, <1>9, <1>10, Zenon DEF ReadStep

(* SendMessage, the peer and other threads.                                *)
LEMMA OthersInv ==
  ASSUME Inv, \/ SendChunk \/ \E len \in Lens : SendMessage(len)
              \/ PeerWrite \/ PeerNotify \/ PeerRead \/ PeerGone \/ OtherFile
  PROVE  Inv'
<1>1. /\ TypeOK /\ MaxBytes \in Nat /\ avail \in Nat /\ written \in 0 .. MaxBytes
      /\ avail <= written /\ Capacity \in Nat
      /\ left \in 0 .. Capacity /\ outbox \in 0 .. Capacity
  BY ChunkFacts DEF Inv, RoomInv, TypeOK
<1> USE DEF Inv, RoomInv, OwnerInv, ShutInv, EofInv, TypeOK, peers, read, close, send, conn
<1>2. CASE SendChunk
  <2>1. Chunk \in 0 .. left /\ Capacity - outbox >= left
    BY <1>1, <1>2, ChunkFacts DEF SendChunk
  <2>2. /\ outbox' \in 0 .. Capacity /\ left' \in 0 .. Capacity
        /\ Capacity - outbox' >= left' /\ spc' \in {"idle", "write"}
    BY <1>1, <1>2, <2>1 DEF SendChunk
  <2> QED
    BY <1>1, <1>2, <2>2 DEF SendChunk
<1>3. ASSUME NEW len \in Lens, SendMessage(len) PROVE Inv'
  <2>1. len \in Nat /\ Capacity - outbox >= len
    BY <1>3, ShmClientAssumption DEF SendMessage, Room
  <2>2. left' \in 0 .. Capacity /\ Capacity - outbox >= left'
    BY <1>1, <1>3, <2>1 DEF SendMessage
  <2> QED
    BY <1>1, <1>3, <2>2 DEF SendMessage
<1>4. CASE PeerWrite
  BY <1>1, <1>4 DEF PeerWrite
<1>5. CASE PeerNotify
  <2>1. efd' \in BOOLEAN /\ unsaid' \in BOOLEAN
    BY <1>5, Zenon DEF PeerNotify
  <2>2. UNCHANGED <<closed_, fd, file, shut, avail, peer, written, rpc, res, cpc, arg, spc, left,
                    outbox, connects, npc, late>>
    BY <1>5 DEF PeerNotify
  <2> QED
    BY <1>1, <2>1, <2>2
<1>7. CASE PeerGone
  BY <1>1, <1>7 DEF PeerGone
<1>8. CASE OtherFile
  BY <1>1, <1>8 DEF OtherFile
<1>6. CASE PeerRead
  BY <1>1, <1>6 DEF PeerRead
<1> QED
  BY <1>2, <1>3, <1>4, <1>5, <1>6, <1>7, <1>8

(* Every step keeps the invariant.                                         *)
LEMMA NextInv == Inv /\ [Next]_vars => Inv'
<1> SUFFICES ASSUME Inv, [Next]_vars PROVE Inv'
  OBVIOUS
<1>1. CASE UNCHANGED vars
  BY <1>1 DEF vars, peers, read, close, send, conn, Inv, RoomInv, OwnerInv, ShutInv, EofInv,
              TypeOK
<1>2. CASE Next
  BY <1>2, ConnectInv, CloseInv, ReadInv, OthersInv DEF Next
<1> QED
  BY <1>1, <1>2

(* The invariant holds in every behaviour of a client.                     *)
THEOREM Invariance == Spec => []Inv
  BY InitInv, NextInv, PTL DEF Spec

(* A SendMessage that has begun to write finds room for all of its pieces. *)
THEOREM NoHalfMessageCorrect == Spec => []NoHalfMessage
<1>1. Inv => NoHalfMessage
  BY DEF Inv, RoomInv, NoHalfMessage
<1> QED
  BY <1>1, Invariance, PTL

(* ReadMessage reports the end of the peer only when the peer is gone and  *)
(* all it wrote has been returned, unless a Close overlapped the Connect.  *)
THEOREM EofAfterDataCorrect == Spec => EofAfterData
<1>1. Inv => [rpc = "store_fd" /\ rpc' = "idle" => late \/ (peer = "gone" /\ avail = 0)]_vars
  BY DEF Inv, EofInv
<1> QED
  BY <1>1, Invariance, PTL DEF EofAfterData

=============================================================================
