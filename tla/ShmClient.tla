----------------------------- MODULE ShmClient ------------------------------
(***************************************************************************)
(* ShmClient, the blocking client: a thread in ReadMessage, a thread that  *)
(* calls Close, a thread that sends, and the peer, which writes, notifies, *)
(* reads and goes away.  Connect is called as its documentation asks, when *)
(* no ReadMessage is in progress; Close may come at any time.              *)
(*                                                                         *)
(* socket_fd_ is a plain int, so each read of it and the two halves of     *)
(* Reset are steps of their own.  All that happens to sockets happens to   *)
(* one fd number; file says which file has it.                             *)
(***************************************************************************)
EXTENDS Integers

CONSTANTS
  Capacity,    \* bytes of the ring to the peer
  Lens,        \* lengths of the messages sent
  MaxBytes,    \* bound on the bytes the peer writes
  MaxConnects  \* bound on the calls of Connect

ASSUME ShmClientAssumption ==
  /\ Capacity \in Nat \ {0} /\ Lens \subseteq Nat \ {0}
  /\ MaxBytes \in Nat /\ MaxConnects \in Nat

max_write_size == Capacity \div 2

VARIABLES
  closed_,
  fd,        \* socket_fd_: the number, or -1
  file,      \* the file with that number: "own", "other" or "none"
  peer,      \* "up", or "gone" once it has closed its socket
  shut,      \* whether the own socket is shut down
  avail,     \* bytes to read
  unsaid,    \* whether the peer has written and not notified yet
  efd,       \* whether the eventfd is readable
  written,   \* bytes the peer has written
  rpc,       \* where ReadMessage is
  res,       \* what ReadMessage returned last
  cpc, arg,  \* where Close is, and the fd it has read
  spc, left, \* where SendMessage is, and the bytes it has still to write
  outbox,    \* bytes in the ring to the peer
  connects,  \* calls of Connect
  npc,       \* where Connect is
  late       \* whether a Close overlapped the last Connect

peers == <<peer, unsaid, written>>
read == <<rpc, res>>
close == <<cpc, arg>>
send == <<spc, left, outbox>>
conn == <<npc, late>>
vars == <<closed_, fd, file, shut, avail, efd, peers, read, close, send, connects, conn>>

Init ==
  /\ closed_ = TRUE /\ fd = -1 /\ file = "none"
  /\ peer = "gone" /\ shut = FALSE
  /\ avail = 0 /\ unsaid = FALSE /\ efd = FALSE /\ written = 0
  /\ rpc = "idle" /\ res = "none"
  /\ cpc = "idle" /\ arg = -1
  /\ spc = "idle" /\ left = 0 /\ outbox = 0 /\ connects = 0
  /\ npc = "idle" /\ late = FALSE

Connected == fd >= 0 /\ ~closed_

(* poll finds the socket readable: the peer is gone or the socket shut.    *)
SocketReadable == file = "own" /\ (peer = "gone" \/ shut)

-----------------------------------------------------------------------------
(* Faults: plausible slips in the code, to show that the properties below  *)
(* would notice them.  No behaviour of Spec uses one.                      *)

(* The end of the peer is reported without a last look at the ring.        *)
LastReadFault ==
  /\ rpc = "last"
  /\ rpc' = "close_fd"
  /\ UNCHANGED <<closed_, fd, file, shut, avail, efd, peers, res, close, send, connects, conn>>

(* Close does not shut the socket down.                                    *)
ShutsFault == FALSE

(* SendMessage asks for room for one piece only.                           *)
RoomFault(len) == outbox < Capacity

-----------------------------------------------------------------------------
(* Connect, by the thread that owns the client, with no other call of its  *)
(* own in progress.  A Close by another thread may come between any two of *)
(* its steps.                                                              *)

(* The Close at its start; the old channel goes.                           *)
Connect ==
  /\ rpc = "idle" /\ spc = "idle" /\ npc = "idle"
  /\ connects < MaxConnects
  /\ connects' = connects + 1
  /\ closed_' = TRUE /\ shut' = (shut \/ file = "own")
  /\ avail' = 0 /\ unsaid' = FALSE /\ efd' = FALSE /\ outbox' = 0
  /\ npc' = "close_fd" /\ late' = (cpc # "idle")
  /\ UNCHANGED <<fd, file, peer, written, read, close, spc, left>>

(* socket_fd_.Reset(), of the old socket or after a failure: close, then   *)
(* the store.                                                              *)
ConnectReset ==
  \/ /\ npc \in {"close_fd", "fail_close"}
     /\ file' = IF file = "own" THEN "none" ELSE file
     /\ peer' = "gone" /\ shut' = FALSE
     /\ npc' = IF npc = "close_fd" THEN "store_fd" ELSE "fail_store"
     /\ UNCHANGED fd
  \/ /\ npc \in {"store_fd", "fail_store"}
     /\ fd' = -1
     /\ npc' = IF npc = "store_fd" THEN "open" ELSE "idle"
     /\ UNCHANGED <<file, peer, shut>>

(* ConnectUnixSocket: the new socket has the number unless somebody else   *)
(* does.                                                                   *)
ConnectOpen ==
  /\ npc = "open" /\ file = "none"
  /\ fd' = 1 /\ file' = "own" /\ peer' = "up" /\ shut' = FALSE
  /\ npc' = "shake"

ConnectRefused ==
  /\ npc = "open"
  /\ npc' = "fail_close"
  /\ UNCHANGED <<fd, file, peer, shut>>

(* CreateRingChannel, which a shut socket or the end of the peer fails.    *)
ConnectShake ==
  /\ npc = "shake"
  /\ \/ peer = "up" /\ ~shut /\ npc' = "store"
     \/ npc' = "fail_close"
  /\ UNCHANGED <<fd, file, peer, shut>>

ConnectStore ==
  /\ npc = "store"
  /\ closed_' = FALSE /\ npc' = "idle"
  /\ UNCHANGED <<fd, file, shut, avail, efd, peers, read, close, send, connects, late>>

ConnectStep ==
  \/ /\ ConnectReset \/ ConnectOpen \/ ConnectRefused \/ ConnectShake
     /\ UNCHANGED <<closed_, avail, efd, unsaid, written, read, close, send, connects, late>>
  \/ ConnectStore

-----------------------------------------------------------------------------
(* Close, by any thread.                                                   *)

CloseStore ==
  /\ cpc = "idle"
  /\ closed_' = TRUE /\ cpc' = "test"
  /\ late' = (late \/ npc # "idle")
  /\ UNCHANGED <<fd, file, shut, avail, efd, peers, read, arg, send, connects, npc>>

CloseTest ==
  /\ cpc = "test"
  /\ cpc' = IF fd >= 0 THEN "load" ELSE "idle"
  /\ UNCHANGED <<closed_, fd, file, shut, avail, efd, peers, read, arg, send, connects, conn>>

CloseLoad ==
  /\ cpc = "load"
  /\ arg' = fd /\ cpc' = "shutdown"
  /\ UNCHANGED <<closed_, fd, file, shut, avail, efd, peers, read, send, connects, conn>>

Shuts == arg >= 0 /\ file = "own"

CloseShutdown ==
  /\ cpc = "shutdown"
  /\ shut' = (shut \/ Shuts)
  /\ arg' = -1 /\ cpc' = "idle"
  /\ UNCHANGED <<closed_, fd, file, avail, efd, peers, read, send, connects, conn>>

CloseStep == CloseTest \/ CloseLoad \/ CloseShutdown

-----------------------------------------------------------------------------
(* ReadMessage.                                                            *)

Return(r) == rpc' = "idle" /\ res' = r

ReadMessage ==
  /\ rpc = "idle" /\ npc = "idle"
  /\ IF Connected THEN rpc' = "test" /\ UNCHANGED res ELSE rpc' = "idle" /\ res' = "closed"
  /\ UNCHANGED <<closed_, fd, file, shut, avail, efd, peers, close, send, connects, conn>>

TestClosed ==
  /\ rpc = "test"
  /\ IF closed_ THEN Return("closed") ELSE rpc' = "try" /\ UNCHANGED res
  /\ UNCHANGED <<closed_, fd, file, shut, avail, efd, peers, close, send, connects, conn>>

(* The first TryRead; a read takes one byte at least, and one byte here.   *)
TryRead ==
  /\ rpc = "try"
  /\ IF avail > 0
     THEN avail' = avail - 1 /\ Return("data")
     ELSE rpc' = "poll" /\ UNCHANGED <<avail, res>>
  /\ UNCHANGED <<closed_, fd, file, shut, efd, peers, close, send, connects, conn>>

(* The deadline has passed, or poll returns 0.                             *)
ReadTimeout ==
  /\ rpc = "poll"
  /\ Return("timeout")
  /\ UNCHANGED <<closed_, fd, file, shut, avail, efd, peers, close, send, connects, conn>>

(* poll is interrupted by a signal.                                        *)
PollInterrupted ==
  /\ rpc = "poll"
  /\ rpc' = "test"
  /\ UNCHANGED <<closed_, fd, file, shut, avail, efd, peers, res, close, send, connects, conn>>

(* poll fails for another reason.                                          *)
PollFails ==
  /\ rpc = "poll"
  /\ Return("closed")
  /\ UNCHANGED <<closed_, fd, file, shut, avail, efd, peers, close, send, connects, conn>>

Poll ==
  /\ rpc = "poll" /\ (efd \/ SocketReadable)
  /\ rpc' = IF SocketReadable THEN "sock" ELSE "drain"
  /\ UNCHANGED <<closed_, fd, file, shut, avail, efd, peers, res, close, send, connects, conn>>

(* The socket is readable: own Close, or else the read returns 0.          *)
SocketEvent ==
  /\ rpc = "sock"
  /\ IF closed_ THEN Return("closed") ELSE rpc' = "last" /\ UNCHANGED res
  /\ UNCHANGED <<closed_, fd, file, shut, avail, efd, peers, close, send, connects, conn>>

(* The peer is gone: what it left in the ring is read first.               *)
LastRead ==
  /\ rpc = "last"
  /\ IF avail > 0
     THEN avail' = avail - 1 /\ Return("data")
     ELSE rpc' = "close_fd" /\ UNCHANGED <<avail, res>>
  /\ UNCHANGED <<closed_, fd, file, shut, efd, peers, close, send, connects, conn>>

(* socket_fd_.Reset(): close, then the store.                              *)
ResetClose ==
  /\ rpc = "close_fd"
  /\ file' = "none" /\ rpc' = "store_fd"
  /\ UNCHANGED <<closed_, fd, shut, avail, efd, peers, res, close, send, connects, conn>>

ResetStore ==
  /\ rpc = "store_fd"
  /\ fd' = -1 /\ Return("eof")
  /\ UNCHANGED <<closed_, file, shut, avail, efd, peers, close, send, connects, conn>>

DrainNotify ==
  /\ rpc = "drain"
  /\ efd' = FALSE /\ rpc' = "test"
  /\ UNCHANGED <<closed_, fd, file, shut, avail, peers, res, close, send, connects, conn>>

ReadStep == TestClosed \/ TryRead \/ Poll \/ SocketEvent \/ LastRead
            \/ ResetClose \/ ResetStore \/ DrainNotify

-----------------------------------------------------------------------------
(* SendMessage writes in pieces of at most max_write_size.                 *)

Room(len) == Capacity - outbox >= len

SendMessage(len) ==
  /\ spc = "idle" /\ npc = "idle" /\ Connected /\ Room(len)
  /\ spc' = "write" /\ left' = len
  /\ UNCHANGED <<closed_, fd, file, shut, avail, efd, peers, read, close, outbox, connects, conn>>

Chunk == IF left > max_write_size THEN max_write_size ELSE left

SendChunk ==
  /\ spc = "write" /\ Capacity - outbox >= Chunk
  /\ outbox' = outbox + Chunk
  /\ left' = left - Chunk
  /\ spc' = IF left' = 0 THEN "idle" ELSE "write"
  /\ UNCHANGED <<closed_, fd, file, shut, avail, efd, peers, read, close, connects, conn>>

-----------------------------------------------------------------------------
(* The peer and other threads of the process.                              *)

PeerWrite ==
  /\ peer = "up" /\ ~unsaid /\ written < MaxBytes
  /\ avail' = avail + 1 /\ written' = written + 1 /\ unsaid' = TRUE
  /\ UNCHANGED <<closed_, fd, file, shut, efd, peer, read, close, send, connects, conn>>

PeerNotify ==
  /\ peer = "up" /\ unsaid
  /\ efd' = TRUE /\ unsaid' = FALSE
  /\ UNCHANGED <<closed_, fd, file, shut, avail, peer, written, read, close, send, connects, conn>>

PeerRead ==
  /\ peer = "up" /\ outbox > 0
  /\ outbox' = outbox - 1
  /\ UNCHANGED <<closed_, fd, file, shut, avail, efd, peers, read, close, spc, left, connects, conn>>

(* The peer closes or dies, perhaps before it has notified.                *)
PeerGone ==
  /\ peer = "up"
  /\ peer' = "gone"
  /\ UNCHANGED <<closed_, fd, file, shut, avail, efd, unsaid, written, read, close, send, connects, conn>>

(* Another thread opens a file, which gets the free number, or closes it.  *)
OtherFile ==
  /\ file # "own"
  /\ file' = IF file = "none" THEN "other" ELSE "none"
  /\ UNCHANGED <<closed_, fd, shut, avail, efd, peers, read, close, send, connects, conn>>

Next ==
  \/ Connect \/ ConnectStep
  \/ CloseStore \/ CloseStep
  \/ ReadMessage \/ ReadStep \/ ReadTimeout \/ PollInterrupted \/ PollFails
  \/ SendChunk \/ \E len \in Lens : SendMessage(len)
  \/ PeerWrite \/ PeerNotify \/ PeerRead \/ PeerGone \/ OtherFile

(* Threads in a call go on; a signal does not interrupt every poll; a peer *)
(* that has written notifies.                                              *)
Spec ==
  /\ Init /\ [][Next]_vars
  /\ WF_vars(ReadStep) /\ SF_vars(Poll)
  /\ WF_vars(CloseStep) /\ WF_vars(SendChunk) /\ WF_vars(PeerNotify)

-----------------------------------------------------------------------------
Reading == rpc # "idle"

(* Types.                                                                  *)
TypeOK ==
  /\ closed_ \in BOOLEAN /\ fd \in {-1, 1} /\ file \in {"own", "other", "none"}
  /\ peer \in {"up", "gone"} /\ shut \in BOOLEAN /\ unsaid \in BOOLEAN /\ efd \in BOOLEAN
  /\ avail \in 0 .. MaxBytes /\ written \in 0 .. MaxBytes
  /\ rpc \in {"idle", "test", "try", "poll", "sock", "last", "close_fd", "store_fd", "drain"}
  /\ res \in {"none", "data", "eof", "closed", "timeout"}
  /\ cpc \in {"idle", "test", "load", "shutdown"} /\ arg \in {-1, 1}
  /\ spc \in {"idle", "write"} /\ outbox \in 0 .. Capacity /\ left \in 0 .. Capacity
  /\ connects \in 0 .. MaxConnects /\ late \in BOOLEAN
  /\ npc \in {"idle", "close_fd", "store_fd", "open", "shake", "store", "fail_close", "fail_store"}

(* ReadMessage says that the peer has closed only after the last byte the  *)
(* peer wrote on this connection has been returned; unless a Close         *)
(* overlapped the Connect, whose last store takes the mark of the Close    *)
(* away but not its shutdown.                                              *)
EofAfterData ==
  [][rpc = "store_fd" /\ rpc' = "idle" => late \/ (peer = "gone" /\ avail = 0)]_vars

(* A thread in ReadMessage returns once there is data, the peer is gone,   *)
(* or a Close has been called or has shut the socket down, even one during *)
(* Connect whose mark is lost.                                             *)
Wakes == (Reading /\ (avail > 0 \/ peer = "gone" \/ closed_ \/ shut)) ~> ~Reading

(* A SendMessage that has written a piece writes all of them: the room     *)
(* checked at its start is there when it is needed.  And the state has its *)
(* types.                                                                  *)
NoHalfMessage ==
  /\ TypeOK
  /\ spc = "write" => Capacity - outbox >= left

(* "Close() is thread-safe": a Close that overlaps no Connect, the place   *)
(* where the fd is given back, shuts down the socket of this client, or    *)
(* none, and never a file of someone else.                                 *)
ClosesOwn == cpc = "shutdown" /\ arg >= 0 /\ ~late => file # "other"
=============================================================================
