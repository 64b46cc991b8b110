----------------------------- MODULE Handshake ------------------------------
(***************************************************************************)
(* CreateRingChannel at both ends of a Unix socket: the exchange of the    *)
(* two memfds and the two eventfds, with the receive time-out of           *)
(* HandshakeGuard, failures of any step, a server that has no room and     *)
(* closes the socket, and crashes.                                         *)
(*                                                                         *)
(* A ring and an eventfd are named by the end that creates them.           *)
(***************************************************************************)
EXTENDS Integers, Sequences

Ends == {"client", "server"}

Peer(e) == IF e = "client" THEN "server" ELSE "client"

VARIABLES
  at,       \* how many operations of its program an end has done
  status,   \* "running", "done", "failed", "stalled", "crashed" or "hungup"
  inbox,    \* messages of SCM_RIGHTS on the way to each end
  open,     \* the ends that have their socket open
  guarded,  \* the ends whose socket has the time-outs of the handshake
  inited,   \* rings that exist and are zeroed
  chan      \* the members of each RingChannel

vars == <<at, status, inbox, open, guarded, inited, chan>>

None == "none"

(* A slip: both ends send first.                                           *)
CreateRingChannelFault(e) ==
  <<"create", "send_memfd", "send_efd", "recv_memfd", "recv_efd">>

(* The order of the operations of an end.                                  *)
CreateRingChannel(e) ==
  IF e = "client"
  THEN <<"create", "send_memfd", "send_efd", "recv_memfd", "recv_efd">>
  ELSE <<"recv_memfd", "recv_efd", "create", "send_memfd", "send_efd">>

Init ==
  /\ at = [e \in Ends |-> 0]
  /\ status = [e \in Ends |-> "running"]
  /\ inbox = [e \in Ends |-> <<>>]
  /\ open = Ends /\ guarded = Ends /\ inited = {}
  /\ chan = [e \in Ends |-> [write_memfd |-> None, read_memfd |-> None,
                             notify_write_efd |-> None, notify_read_efd |-> None]]

-----------------------------------------------------------------------------
(* Faults: plausible slips in the code, to show that the properties below  *)
(* would notice them.  No behaviour of Spec uses one.                      *)

(* The socket is a plain int, and the exception goes past its close.       *)
FailFault(e) ==
  /\ status' = [status EXCEPT ![e] = "failed"]
  /\ guarded' = guarded \ {e}
  /\ inbox' = [inbox EXCEPT ![e] = <<>>]
  /\ UNCHANGED <<at, open, inited, chan>>

-----------------------------------------------------------------------------
Running(e, op) ==
  /\ status[e] = "running"
  /\ CreateRingChannel(e)[at[e] + 1] = op

(* The destructor of HandshakeGuard.                                       *)
Unguarded(e) == guarded \ {e}

(* An operation succeeds; after the last one the channel is returned.      *)
Advance(e) ==
  /\ at' = [at EXCEPT ![e] = @ + 1]
  /\ IF at[e] + 1 = Len(CreateRingChannel(e))
     THEN status' = [status EXCEPT ![e] = "done"] /\ guarded' = Unguarded(e)
     ELSE UNCHANGED <<status, guarded>>

(* An exception: the guard is undone, the channel and the socket are       *)
(* closed by their owners, and what was on the way to the end is lost.     *)
Fail(e) ==
  /\ status' = [status EXCEPT ![e] = "failed"]
  /\ guarded' = Unguarded(e)
  /\ open' = open \ {e}
  /\ inbox' = [inbox EXCEPT ![e] = <<>>]
  /\ UNCHANGED <<at, inited, chan>>

(* Ring::Init.                                                             *)
Zeroed(e) == {e}

(* CreateWriteRing and CreateEventfd.                                      *)
Create(e) ==
  /\ Running(e, "create")
  /\ chan' = [chan EXCEPT ![e].write_memfd = e, ![e].notify_read_efd = e]
  /\ inited' = inited \cup Zeroed(e)
  /\ Advance(e)
  /\ UNCHANGED <<inbox, open>>

(* memfd_create, mmap or eventfd fails.                                    *)
CreateFails(e) == Running(e, "create") /\ Fail(e)

(* The fd that SendLocalFds sends under a tag.                             *)
LocalFd(e, tag) ==
  IF tag = "memfd" THEN chan[e].write_memfd ELSE chan[e].notify_read_efd

SendFd(e, tag) ==
  /\ Running(e, IF tag = "memfd" THEN "send_memfd" ELSE "send_efd")
  /\ Peer(e) \in open
  /\ inbox' = [inbox EXCEPT ![Peer(e)] = Append(@, [tag |-> tag, fd |-> LocalFd(e, tag)])]
  /\ Advance(e)
  /\ UNCHANGED <<open, inited, chan>>

(* sendmsg fails: the other end is closed, a signal interrupts it, fds or  *)
(* memory are short.  A message of 256 bytes is queued whole or not at     *)
(* all.                                                                    *)
SendFails(e) ==
  /\ Running(e, "send_memfd") \/ Running(e, "send_efd")
  /\ Fail(e)

Receiving(e) == Running(e, "recv_memfd") \/ Running(e, "recv_efd")

(* RecvFdExpect of the memfd, which is then mapped.                        *)
RecvMemfd(e) ==
  /\ Running(e, "recv_memfd") /\ inbox[e] # <<>> /\ Head(inbox[e]).tag = "memfd"
  /\ chan' = [chan EXCEPT ![e].read_memfd = Head(inbox[e]).fd]
  /\ inbox' = [inbox EXCEPT ![e] = Tail(@)]
  /\ Advance(e)
  /\ UNCHANGED <<open, inited>>

RecvEfd(e) ==
  /\ Running(e, "recv_efd") /\ inbox[e] # <<>> /\ Head(inbox[e]).tag = "eventfd"
  /\ chan' = [chan EXCEPT ![e].notify_write_efd = Head(inbox[e]).fd]
  /\ inbox' = [inbox EXCEPT ![e] = Tail(@)]
  /\ Advance(e)
  /\ UNCHANGED <<open, inited>>

(* recvmsg returns 0, the other end being closed; or the message is        *)
(* refused: it is cut short, comes without its fd, has another tag than    *)
(* expected, or its memfd cannot be mapped.                                *)
RecvFails(e) ==
  /\ Receiving(e)
  /\ inbox[e] = <<>> => Peer(e) \notin open
  /\ Fail(e)

(* SO_RCVTIMEO: nothing came for five seconds.                             *)
RecvTimeout(e) ==
  /\ Receiving(e) /\ inbox[e] = <<>> /\ e \in guarded
  /\ Fail(e)

(* A signal interrupts recvmsg, which is not called again.                 *)
RecvInterrupted(e) == Receiving(e) /\ Fail(e)

-----------------------------------------------------------------------------
(* The server accepts and closes at once: it is full or stopping.          *)
Reject ==
  /\ status["server"] = "running" /\ at["server"] = 0
  /\ Fail("server")

(* An end stops in the middle and leaves its socket open: it is not of     *)
(* this library, or its process is suspended.                              *)
Stall(e) ==
  /\ status[e] = "running"
  /\ status' = [status EXCEPT ![e] = "stalled"]
  /\ UNCHANGED <<at, inbox, open, guarded, inited, chan>>

(* A process dies; the kernel closes its socket.                           *)
Crash(e) ==
  /\ status[e] \in {"running", "done", "stalled"}
  /\ status' = [status EXCEPT ![e] = "crashed"]
  /\ open' = open \ {e} /\ guarded' = guarded \ {e}
  /\ inbox' = [inbox EXCEPT ![e] = <<>>]
  /\ UNCHANGED <<at, inited, chan>>

(* OnSocket of an established end: the other end is closed.                *)
HangUp(e) ==
  /\ status[e] = "done" /\ Peer(e) \notin open
  /\ status' = [status EXCEPT ![e] = "hungup"]
  /\ open' = open \ {e}
  /\ UNCHANGED <<at, inbox, guarded, inited, chan>>

Step(e) ==
  \/ Create(e) \/ CreateFails(e)
  \/ \E tag \in {"memfd", "eventfd"} : SendFd(e, tag)
  \/ SendFails(e) \/ RecvMemfd(e) \/ RecvEfd(e) \/ RecvFails(e)
  \/ RecvTimeout(e) \/ HangUp(e)

Finished == \A e \in Ends : status[e] \in {"failed", "crashed", "hungup", "stalled"}

Next ==
  \/ \E e \in Ends : Step(e) \/ RecvInterrupted(e) \/ Crash(e) \/ Stall(e)
  \/ Reject
  \/ Finished /\ UNCHANGED vars

(* An end goes on with its own program, and its receive times out.  No     *)
(* signal has to come.                                                     *)
Spec == Init /\ [][Next]_vars /\ \A e \in Ends : WF_vars(Step(e))

-----------------------------------------------------------------------------
Fds == Ends \cup {None}

(* Types.  The time-outs are on the socket exactly during the handshake.   *)
TypeOK ==
  /\ at \in [Ends -> 0 .. 5]
  /\ status \in [Ends -> {"running", "done", "failed", "stalled", "crashed", "hungup"}]
  /\ \A e \in Ends : \A k \in DOMAIN inbox[e] :
       inbox[e][k] \in [tag : {"memfd", "eventfd"}, fd : Fds]
  /\ open \subseteq Ends /\ inited \subseteq Ends
  /\ guarded = {e \in Ends : status[e] \in {"running", "stalled"}}
  /\ chan \in [Ends -> [write_memfd : Fds, read_memfd : Fds,
                        notify_write_efd : Fds, notify_read_efd : Fds]]

(* An end that has its channel reads the ring that the other end writes    *)
(* and wakes it by the eventfd that the other end polls, and the two rings *)
(* are different ones.  No end has a ring of the other before that ring is *)
(* zeroed.  A client that has its channel has a server that made it too:   *)
(* the handshake cannot have failed there.  And the state has its types.   *)
Crossed ==
  /\ TypeOK
  /\ \A e \in Ends :
    /\ status[e] = "done" =>
         /\ chan[e].read_memfd = chan[Peer(e)].write_memfd
         /\ chan[e].notify_write_efd = chan[Peer(e)].notify_read_efd
         /\ chan[e].read_memfd # chan[e].write_memfd
    /\ chan[e].read_memfd # None => chan[e].read_memfd \in inited
  /\ status["client"] = "done" => status["server"] # "failed"

(* No end keeps a channel whose other end failed or died, in whichever     *)
(* operation: it fails too, or notices the hang-up.  And none waits for    *)
(* ever for an end that stopped in the middle of the handshake.            *)
NoHalfOpen ==
  \A e \in Ends :
    /\ status[e] \in {"failed", "crashed"}
         ~> status[Peer(e)] \in {"failed", "crashed", "hungup", "stalled"}
    /\ status[e] = "stalled" ~> status[Peer(e)] # "running"
=============================================================================
