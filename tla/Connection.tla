----------------------------- MODULE Connection -----------------------------
(***************************************************************************)
(* An established connection between a ShmAsyncClient and a ShmServer:     *)
(* a ShmConnection at each end, one byte ring and one eventfd in each      *)
(* direction, and the Unix socket that only tells that the other end is    *)
(* gone.  Each end runs on the thread of its EventLoop.                    *)
(*                                                                         *)
(* A ring is what RingBuf is proved to be, a bounded FIFO: avail[e] counts *)
(* the bytes end e can read, and inbox[e] lists the packages these bytes   *)
(* belong to.  The last of them may still be in the writing, since         *)
(* WriteRaw publishes a long package in several pieces.                    *)
(***************************************************************************)
EXTENDS Integers, Sequences

CONSTANTS
  Capacity,   \* bytes in each ring
  Packages,   \* what the applications send, records [kind, len]
  Keepalive,  \* the ends with SetKeepAlive(true)
  MaxSends    \* bound on the SendCmd calls of each end, for TLC

Ends == {"client", "server"}

ASSUME CapacityAssumption == Capacity \in Nat /\ Capacity > 1
ASSUME PackagesAssumption ==
  Packages \subseteq [kind : {"data", "beat", "bad"}, len : 1 .. Capacity]
ASSUME KeepaliveAssumption == Keepalive \subseteq Ends
ASSUME MaxSendsAssumption == MaxSends \in [Ends -> Nat]

VARIABLES
  avail,       \* published bytes in the ring end e reads
  inbox,       \* the packages of that ring, oldest first
  efd,         \* whether the eventfd end e polls is readable
  eof,         \* whether the socket is shut down or closed, at either end
  state,       \* state_ of each ShmConnection
  close_type,  \* close_type_ of each ShmConnection
  pc,          \* where the loop thread of each end is
  ret,         \* where a WriteRaw in progress returns to
  via,         \* the handler that runs DrainRing
  left,        \* bytes a WriteRaw in progress has not written
  closes,      \* calls of the close callback so far
  sends        \* SendCmd calls so far

vars == <<avail, inbox, efd, eof, state, close_type, pc, ret, via, left, closes, sends>>

Peer(e) == IF e = "client" THEN "server" ELSE "client"

max_write_size == Capacity \div 2

(* The answer to a heartbeat is a heartbeat of one byte.                   *)
KeepaliveResponse == [kind |-> "beat", len |-> 1]

WritableBytes(e) == Capacity - avail[Peer(e)]

(* The first package of the ring is there in full.                         *)
Ready(e) == inbox[e] # <<>> /\ Head(inbox[e]).len <= avail[e]

(* The owner still polls the two fds of the connection.                    *)
Registered(e) == state[e] # "closeed"

Init ==
  /\ avail = [e \in Ends |-> 0]
  /\ inbox = [e \in Ends |-> <<>>]
  /\ efd = [e \in Ends |-> FALSE]
  /\ eof = FALSE
  /\ state = [e \in Ends |-> "established"]
  /\ close_type = [e \in Ends |-> "Passive"]
  /\ pc = [e \in Ends |-> "poll"]
  /\ ret = [e \in Ends |-> "poll"]
  /\ via = [e \in Ends |-> "notify"]
  /\ left = [e \in Ends |-> 0]
  /\ closes = [e \in Ends |-> 0]
  /\ sends = [e \in Ends |-> 0]

-----------------------------------------------------------------------------
(* Faults: plausible slips in the code, to show that the properties below  *)
(* would notice them.  No behaviour of Spec uses one.                      *)

(* WriteRaw checks the room for its first piece only.                      *)
WriteRawFault(e, p, back) ==
  /\ WritableBytes(e) >= IF p.len <= max_write_size THEN p.len ELSE max_write_size
  /\ inbox' = [inbox EXCEPT ![Peer(e)] = Append(@, p)]
  /\ left' = [left EXCEPT ![e] = p.len]
  /\ ret' = [ret EXCEPT ![e] = back]
  /\ pc' = [pc EXCEPT ![e] = "write"]

(* A second eventfd read, after the ring was found empty.                  *)
DrainedFault(e) ==
  /\ pc[e] = "drained"
  /\ pc' = [pc EXCEPT ![e] = IF via[e] = "socket" \/ state[e] = "closeing"
                              THEN "remove" ELSE "poll"]
  /\ efd' = [efd EXCEPT ![e] = FALSE]
  /\ UNCHANGED <<avail, inbox, eof, state, close_type, ret, via, left, closes, sends>>

(* The socket handler removes the connection without reading the ring.     *)
OnSocketFault(e) ==
  /\ pc[e] = "poll" /\ eof /\ Registered(e)
  /\ via' = [via EXCEPT ![e] = "socket"]
  /\ pc' = [pc EXCEPT ![e] = "remove"]
  /\ UNCHANGED <<avail, inbox, efd, eof, state, close_type, ret, left, closes, sends>>

(* OnClose is not idempotent.                                              *)
OnCloseFault(e) ==
  /\ state' = [state EXCEPT ![e] = "closeed"]
  /\ closes' = [closes EXCEPT ![e] = @ + 1]

(* A close inside a message callback is left to the socket handler, but    *)
(* Close() does not shut the socket down.                                  *)
CloseFault(e) ==
  /\ pc[e] \in {"poll", "callback"}
  /\ state[e] = "established"
  /\ close_type' = [close_type EXCEPT ![e] = "Active"]
  /\ state' = [state EXCEPT ![e] = "closeing"]
  /\ UNCHANGED <<avail, inbox, efd, eof, pc, ret, via, left, closes, sends>>

-----------------------------------------------------------------------------
(* Writing.                                                                *)

(* The check at the head of WriteRaw: all of the package fits, or nothing  *)
(* is written.                                                             *)
WriteRaw(e, p, back) ==
  /\ WritableBytes(e) >= p.len
  /\ inbox' = [inbox EXCEPT ![Peer(e)] = Append(@, p)]
  /\ left' = [left EXCEPT ![e] = p.len]
  /\ ret' = [ret EXCEPT ![e] = back]
  /\ pc' = [pc EXCEPT ![e] = "write"]

(* The application sends, from a handler of its own or from the message    *)
(* callback.                                                               *)
SendCmd(e, p) ==
  /\ pc[e] \in {"poll", "callback"}
  /\ state[e] = "established"
  /\ sends[e] < MaxSends[e]
  /\ WriteRaw(e, p, pc[e])
  /\ sends' = [sends EXCEPT ![e] = @ + 1]
  /\ UNCHANGED <<avail, efd, eof, state, close_type, via, closes>>

(* One TryWrite of the loop in WriteRaw.  If it fails the package stays    *)
(* cut off in the ring.                                                    *)
TryWrite(e) ==
  LET chunk == IF left[e] <= max_write_size THEN left[e] ELSE max_write_size
  IN  /\ pc[e] = "write"
      /\ IF WritableBytes(e) >= chunk
         THEN /\ avail' = [avail EXCEPT ![Peer(e)] = @ + chunk]
              /\ left' = [left EXCEPT ![e] = @ - chunk]
              /\ pc' = [pc EXCEPT ![e] = IF left[e] = chunk THEN "notify" ELSE "write"]
         ELSE /\ pc' = [pc EXCEPT ![e] = ret[e]]
              /\ UNCHANGED <<avail, left>>
      /\ UNCHANGED <<inbox, efd, eof, state, close_type, ret, via, closes, sends>>

NotifyPeer(e) ==
  /\ pc[e] = "notify"
  /\ efd' = [efd EXCEPT ![Peer(e)] = TRUE]
  /\ pc' = [pc EXCEPT ![e] = ret[e]]
  /\ UNCHANGED <<avail, inbox, eof, state, close_type, ret, via, left, closes, sends>>

-----------------------------------------------------------------------------
(* Reading.                                                                *)

(* OnConnNotify, OnNotify: DrainNotify, then DrainRing.                    *)
OnNotify(e) ==
  /\ pc[e] = "poll" /\ efd[e] /\ Registered(e)
  /\ efd' = [efd EXCEPT ![e] = FALSE]
  /\ via' = [via EXCEPT ![e] = "notify"]
  /\ pc' = [pc EXCEPT ![e] = "drain"]
  /\ UNCHANGED <<avail, inbox, eof, state, close_type, ret, left, closes, sends>>

(* OnConnSocket, OnSocket: read() tells end of file, then DrainRing.       *)
OnSocket(e) ==
  /\ pc[e] = "poll" /\ eof /\ Registered(e)
  /\ via' = [via EXCEPT ![e] = "socket"]
  /\ pc' = [pc EXCEPT ![e] = "drain"]
  /\ UNCHANGED <<avail, inbox, efd, eof, state, close_type, ret, left, closes, sends>>

(* Peek and Decode: nothing or not enough there, a protocol error, or a    *)
(* whole package.                                                          *)
Decode(e) ==
  /\ pc[e] = "drain"
  /\ pc' = [pc EXCEPT ![e] =
              CASE ~Ready(e) -> "drained"
                [] Ready(e) /\ Head(inbox[e]).kind = "bad" -> "remove"
                [] OTHER -> "commit"]
  /\ UNCHANGED <<avail, inbox, efd, eof, state, close_type, ret, via, left, closes,
                 sends>>

(* CommitRead, then OnMessage or the answer to a heartbeat.                *)
CommitRead(e) ==
  /\ pc[e] = "commit"
  /\ avail' = [avail EXCEPT ![e] = @ - Head(inbox[e]).len]
  /\ inbox' = [inbox EXCEPT ![e] = Tail(@)]
  /\ pc' = [pc EXCEPT ![e] =
              CASE Head(inbox[e]).kind = "data" /\ state[e] = "established" -> "callback"
                [] Head(inbox[e]).kind = "beat" /\ e \in Keepalive -> "beat"
                [] OTHER -> "drain"]
  /\ UNCHANGED <<efd, eof, state, close_type, ret, via, left, closes, sends>>

(* The state of the connection is not asked, and a full ring loses the     *)
(* answer.                                                                 *)
SendKeepaliveResponse(e) ==
  /\ pc[e] = "beat"
  /\ IF WritableBytes(e) >= KeepaliveResponse.len
     THEN WriteRaw(e, KeepaliveResponse, "drain")
     ELSE pc' = [pc EXCEPT ![e] = "drain"] /\ UNCHANGED <<inbox, left, ret>>
  /\ UNCHANGED <<avail, efd, eof, state, close_type, via, closes, sends>>

CallbackReturn(e) ==
  /\ pc[e] = "callback"
  /\ pc' = [pc EXCEPT ![e] = "drain"]
  /\ UNCHANGED <<avail, inbox, efd, eof, state, close_type, ret, via, left, closes,
                 sends>>

(* What the handlers do when DrainRing has returned.                       *)
Drained(e) ==
  /\ pc[e] = "drained"
  /\ pc' = [pc EXCEPT ![e] = IF via[e] = "socket" \/ state[e] = "closeing"
                              THEN "remove" ELSE "poll"]
  /\ UNCHANGED <<avail, inbox, efd, eof, state, close_type, ret, via, left, closes,
                 sends>>

-----------------------------------------------------------------------------
(* Closing.                                                                *)

(* ShmConnection::Close.                                                   *)
Close(e) ==
  /\ pc[e] \in {"poll", "callback"}
  /\ state[e] = "established"
  /\ close_type' = [close_type EXCEPT ![e] = "Active"]
  /\ state' = [state EXCEPT ![e] = "closeing"]
  /\ eof' = TRUE
  /\ UNCHANGED <<avail, inbox, efd, pc, ret, via, left, closes, sends>>

(* ShmConnection::OnClose.                                                 *)
OnClose(e) ==
  /\ state' = [state EXCEPT ![e] = "closeed"]
  /\ closes' = [closes EXCEPT ![e] = IF state[e] # "closeed" THEN @ + 1 ELSE @]

(* RemoveConn and Teardown, at the end of a handler.                       *)
RemoveConn(e) ==
  /\ pc[e] = "remove"
  /\ OnClose(e)
  /\ pc' = [pc EXCEPT ![e] = "poll"]
  /\ UNCHANGED <<avail, inbox, efd, eof, close_type, ret, via, left, sends>>

(* ShmServer::CloseConn and ShmAsyncClient::Close: Close and RemoveConn at *)
(* once, also in the middle of DrainRing.                                  *)
CloseConn(e) ==
  /\ pc[e] \in {"poll", "callback"}
  /\ Registered(e)
  /\ close_type' = [close_type EXCEPT ![e] = "Active"]
  /\ eof' = TRUE
  /\ OnClose(e)
  /\ UNCHANGED <<avail, inbox, efd, pc, ret, via, left, sends>>

(* The application drops the last reference and ~ShmConnection closes the  *)
(* socket.  It may keep the connection for as long as it likes, and until  *)
(* then the other end is not told of a removal after a protocol error:     *)
(* neither RemoveConn nor OnClose shuts the socket down.                   *)
ReleaseConn(e) ==
  /\ pc[e] = "poll" /\ ~Registered(e) /\ ~eof
  /\ eof' = TRUE
  /\ UNCHANGED <<avail, inbox, efd, state, close_type, pc, ret, via, left, closes,
                 sends>>

(* The process of an end dies and the kernel closes its socket.            *)
Crash(e) ==
  /\ pc[e] # "dead"
  /\ pc' = [pc EXCEPT ![e] = "dead"]
  /\ eof' = TRUE
  /\ UNCHANGED <<avail, inbox, efd, state, close_type, ret, via, left, closes, sends>>

-----------------------------------------------------------------------------
(* What the loop thread does by itself, and what its application decides.  *)
Step(e) ==
  \/ TryWrite(e) \/ NotifyPeer(e)
  \/ OnNotify(e) \/ OnSocket(e) \/ Decode(e) \/ CommitRead(e)
  \/ SendKeepaliveResponse(e) \/ CallbackReturn(e) \/ Drained(e)
  \/ RemoveConn(e)

Application(e) ==
  \/ \E p \in Packages : SendCmd(e, p)
  \/ Close(e) \/ CloseConn(e) \/ ReleaseConn(e)

Next == \E e \in Ends : Step(e) \/ Application(e) \/ Crash(e)

(* The loop of a live process keeps running and its callbacks return.  An  *)
(* application does not have to do anything, not even to let go of a       *)
(* connection that is removed.                                             *)
Fairness == \A e \in Ends : WF_vars(Step(e))

Spec == Init /\ [][Next]_vars /\ Fairness

-----------------------------------------------------------------------------
(* Properties.                                                             *)

(* Types of the two ends' state.                                           *)
TypeOK ==
  /\ avail \in [Ends -> 0 .. Capacity]
  /\ \A e \in Ends : inbox[e] \in Seq([kind : {"data", "beat", "bad"}, len : 1 .. Capacity])
  /\ efd \in [Ends -> BOOLEAN] /\ eof \in BOOLEAN
  /\ state \in [Ends -> {"established", "closeing", "closeed"}]
  /\ close_type \in [Ends -> {"Active", "Passive"}]
  /\ pc \in [Ends -> {"poll", "write", "notify", "drain", "commit", "beat", "callback",
                      "drained", "remove", "dead"}]
  /\ ret \in [Ends -> {"poll", "callback", "drain"}]
  /\ via \in [Ends -> {"notify", "socket"}]
  /\ left \in [Ends -> 0 .. Capacity]
  /\ closes \in [Ends -> Nat] /\ sends \in [Ends -> Nat]

(* An end never sleeps in poll on a whole package: its eventfd or socket   *)
(* is readable, or the writer has yet to call NotifyPeer.  This is why the *)
(* handlers read the eventfd before the ring and never after it.           *)
NoLostWakeup ==
  \A e \in Ends :
    pc[e] = "poll" /\ Registered(e) /\ Ready(e) =>
      efd[e] \/ eof \/ pc[Peer(e)] \in {"write", "notify"}

(* The branch of WriteRaw marked unreachable is: having seen room for the  *)
(* whole package once, every later TryWrite finds room for its piece, so a *)
(* package is never left cut off in the ring by a live writer.             *)
NoPartialWrite ==
  \A e \in Ends : pc[e] = "write" => WritableBytes(e) >= left[e]

(* When the other end goes away, by Close or by dying, everything it had   *)
(* sent is handed to the application before the close callback: an end     *)
(* that did not close by itself leaves no whole data package behind,       *)
(* unless a protocol error stopped it.                                     *)
LastDataDelivered ==
  \A e \in Ends :
    state[e] = "closeed" /\ close_type[e] = "Passive" /\ Ready(e) =>
      Head(inbox[e]).kind # "data"

(* The close callback runs exactly once per connection, whichever of the   *)
(* notify handler, the socket handler and a Close inside a callback come   *)
(* together; and the state has its types.                                  *)
CloseOnce ==
  /\ TypeOK
  /\ \A e \in Ends : closes[e] = IF state[e] = "closeed" THEN 1 ELSE 0

(* Once an end has called Close, has let go of the connection or has died, *)
(* the close callback runs at both ends that live on: Close only shuts the *)
(* socket down, and the shutdown wakes the loops of both ends, whatever    *)
(* they are doing.  An end that a protocol error made remove the           *)
(* connection is not among these until its application lets go of it.      *)
BothClose ==
  \A e \in Ends :
    (eof \/ \E f \in Ends : state[f] = "closeing") ~> (closes[e] = 1 \/ pc[e] = "dead")

=============================================================================
