----------------------------- MODULE ShmServer ------------------------------
(***************************************************************************)
(* ShmServer: how a connection gets from the listening socket through the  *)
(* handshake thread into conns_, and how Stop takes everything down again. *)
(* Two threads share the hs_ members under hs_mtx_: the thread of the      *)
(* EventLoop (pc) and the handshake thread (worker).  A step is one        *)
(* critical section, or one call between two of them.                      *)
(*                                                                         *)
(* A client stands for its connection: the socket the server accepted,     *)
(* and once the handshake is done the ShmConnection built on it.  What     *)
(* happens on an established connection is in module Connection.           *)
(***************************************************************************)
EXTENDS Integers, Sequences, FiniteSets

CONSTANTS
  Clients,      \* the connections clients try to make
  NoClient,     \* an empty hs_current_
  max_clients,  \* SetMaxClients
  RestartFrom,  \* where the application calls Start: values of pc
  MaxStarts     \* bound on the Start calls, for TLC

ASSUME NoClientAssumption == NoClient \notin Clients
ASSUME LimitAssumption == max_clients \in Nat /\ MaxStarts \in Nat
ASSUME RestartAssumption == RestartFrom \subseteq {"poll", "callback", "closecb"}

VARIABLES
  path,         \* whether the socket path leads to the listener
  listening,    \* whether listen_fd_ is open
  backlog,      \* connections the kernel holds for accept
  started_, hs_stopping_,
  hs_pending_, hs_current_, hs_done_,
  wake,         \* whether hs_wake_fd_ is readable
  worker,       \* where the handshake thread is, "none" when there is none
  conns_,
  ready,        \* local of OnHandshakeComplete
  closing,      \* local conns of Stop
  pc,           \* where the loop thread is
  frames,       \* the calls of Stop in progress, the innermost first: where each
                \* returns to, and the closing of the Stop around it
  void,         \* sockets accepted before some Stop and not in conns_ then
  gone,         \* clients that closed their socket
  used,         \* clients that called connect
  opens,        \* clients whose connection callback ran
  closes,       \* number of close callbacks of each client
  starts        \* where each Start was called

queues == <<hs_pending_, hs_current_, hs_done_>>
callbacks == <<opens, closes>>
clients == <<gone, used>>
vars == <<path, listening, backlog, started_, hs_stopping_, queues, wake, worker, conns_,
          ready, closing, pc, frames, void, clients, callbacks, starts>>

Elems(s) == {s[i] : i \in DOMAIN s}

(* Connections that are accepted and not in conns_ yet, as OnAccept counts *)
(* them.                                                                   *)
Inflight ==
  Len(hs_pending_) + Len(hs_done_) + (IF hs_current_ # NoClient THEN 1 ELSE 0)

Init ==
  /\ path = FALSE /\ listening = FALSE
  /\ backlog = <<>>
  /\ started_ = FALSE /\ hs_stopping_ = FALSE
  /\ hs_pending_ = <<>> /\ hs_current_ = NoClient /\ hs_done_ = <<>>
  /\ wake = FALSE
  /\ worker = "none"
  /\ conns_ = {}
  /\ ready = <<>> /\ closing = {}
  /\ pc = "poll" /\ frames = <<>>
  /\ void = {} /\ gone = {} /\ used = {}
  /\ opens = {} /\ closes = [c \in Clients |-> 0]
  /\ starts = <<>>

-----------------------------------------------------------------------------
(* Faults: plausible slips in the code, to show that the properties below  *)
(* would notice them.  No behaviour of Spec uses one.                      *)

(* The socket in the handshake is not counted.                             *)
OnAcceptFault ==
  /\ pc = "poll" /\ started_
  /\ backlog # <<>>
  /\ IF Cardinality(conns_) + Len(hs_pending_) + Len(hs_done_) >= max_clients
     THEN backlog' = Tail(backlog) /\ UNCHANGED pc
     ELSE pc' = "accept" /\ UNCHANGED backlog
  /\ UNCHANGED <<path, listening, started_, hs_stopping_, queues, wake, worker, conns_,
                 ready, closing, frames, void, clients, callbacks, starts>>

(* The front of hs_pending_ is taken and not popped.                       *)
WorkerTakeFault ==
  /\ worker = "wait"
  /\ hs_pending_ # <<>>
  /\ hs_current_' = Head(hs_pending_)
  /\ worker' = "handshake"
  /\ UNCHANGED <<path, listening, backlog, started_, hs_stopping_, hs_pending_, hs_done_,
                 wake, conns_, ready, closing, pc, frames, void, clients, callbacks, starts>>

(* One entry of hs_done_ is taken per wake-up, though wake-ups coalesce.   *)
SwapDoneFault ==
  /\ pc = "swap"
  /\ ready' = IF hs_done_ = <<>> THEN <<>> ELSE <<Head(hs_done_)>>
  /\ hs_done_' = SubSeq(hs_done_, 2, Len(hs_done_))
  /\ pc' = "ready"
  /\ UNCHANGED <<path, listening, backlog, started_, hs_stopping_, hs_pending_,
                 hs_current_, wake, worker, conns_, closing, frames, void, clients, callbacks,
                 starts>>

(* OnClose is not idempotent.                                              *)
RemoveConnFault(c) ==
  /\ conns_' = conns_ \ {c}
  /\ closes' = [closes EXCEPT ![c] = @ + 1]

(* The loop over ready does not look at started_.                          *)
TakeReadyFault ==
  /\ pc = "ready"
  /\ IF ready = <<>>
     THEN pc' = "poll" /\ UNCHANGED <<conns_, opens, ready>>
     ELSE /\ ready' = Tail(ready)
          /\ conns_' = conns_ \cup {Head(ready)}
          /\ opens' = opens \cup {Head(ready)}
          /\ pc' = "callback"
  /\ UNCHANGED <<path, listening, backlog, started_, hs_stopping_, queues, wake, worker,
                 closing, frames, void, clients, closes, starts>>

(* The path is unlinked after the bind instead of before it.               *)
StartUnlinkFault ==
  /\ pc \in RestartFrom
  /\ ~started_
  /\ Len(starts) < MaxStarts
  /\ path' = FALSE /\ listening' = TRUE
  /\ hs_stopping_' = FALSE
  /\ wake' = FALSE
  /\ worker' = "wait"
  /\ started_' = TRUE
  /\ starts' = Append(starts, pc)
  /\ UNCHANGED <<backlog, queues, conns_, ready, closing, pc, frames, void, clients,
                 callbacks>>

(* The handshake thread waits until its results are collected.             *)
WorkerExitFault ==
  /\ worker = "wait"
  /\ hs_stopping_ /\ hs_pending_ = <<>> /\ hs_done_ = <<>>
  /\ worker' = "exited"
  /\ UNCHANGED <<path, listening, backlog, started_, hs_stopping_, queues, wake, conns_,
                 ready, closing, pc, frames, void, clients, callbacks, starts>>

-----------------------------------------------------------------------------
(* Clients.                                                                *)

ClientConnect(c) ==
  /\ c \notin used
  /\ path /\ listening
  /\ used' = used \cup {c}
  /\ backlog' = Append(backlog, c)
  /\ UNCHANGED <<path, listening, started_, hs_stopping_, queues, wake, worker, conns_,
                 ready, closing, pc, frames, void, gone, callbacks, starts>>

(* The client closes, gives up after its own 5 seconds, or dies.           *)
ClientLeaves(c) ==
  /\ c \in used \ gone
  /\ gone' = gone \cup {c}
  /\ UNCHANGED <<path, listening, backlog, started_, hs_stopping_, queues, wake, worker,
                 conns_, ready, closing, pc, frames, void, used, callbacks, starts>>

-----------------------------------------------------------------------------
(* The handshake thread.                                                   *)

(* The wait returns and hs_pending_ has a socket.                          *)
WorkerTake ==
  /\ worker = "wait"
  /\ hs_pending_ # <<>>
  /\ hs_current_' = Head(hs_pending_)
  /\ hs_pending_' = Tail(hs_pending_)
  /\ worker' = "handshake"
  /\ UNCHANGED <<path, listening, backlog, started_, hs_stopping_, hs_done_, wake, conns_,
                 ready, closing, pc, frames, void, clients, callbacks, starts>>

WorkerExit ==
  /\ worker = "wait"
  /\ hs_stopping_ /\ hs_pending_ = <<>>
  /\ worker' = "exited"
  /\ UNCHANGED <<path, listening, backlog, started_, hs_stopping_, queues, wake, conns_,
                 ready, closing, pc, frames, void, clients, callbacks, starts>>

(* CreateRingChannel returns or throws, after at most its timeout.  It     *)
(* cannot succeed on a socket that Stop shut down or the client closed.    *)
Handshake ==
  /\ worker = "handshake"
  /\ \/ hs_current_ \notin void \cup gone /\ worker' = "ok"
     \/ worker' = "failed"
  /\ UNCHANGED <<path, listening, backlog, started_, hs_stopping_, queues, wake, conns_,
                 ready, closing, pc, frames, void, clients, callbacks, starts>>

(* The second critical section: hand over or close, and reset hs_current_. *)
HandshakeEnd ==
  /\ worker \in {"ok", "failed"}
  /\ IF worker = "ok" /\ ~hs_stopping_
     THEN hs_done_' = Append(hs_done_, hs_current_) /\ worker' = "notify"
     ELSE UNCHANGED hs_done_ /\ worker' = "wait"
  /\ hs_current_' = NoClient
  /\ UNCHANGED <<path, listening, backlog, started_, hs_stopping_, hs_pending_, wake,
                 conns_, ready, closing, pc, frames, void, clients, callbacks, starts>>

WorkerNotify ==
  /\ worker = "notify"
  /\ wake' = TRUE
  /\ worker' = "wait"
  /\ UNCHANGED <<path, listening, backlog, started_, hs_stopping_, queues, conns_, ready,
                 closing, pc, frames, void, clients, callbacks, starts>>

-----------------------------------------------------------------------------
(* The loop thread: accepting.                                             *)

(* OnAccept up to the end of its first critical section: at the limit the  *)
(* connection is accepted and closed at once.                              *)
OnAccept ==
  /\ pc = "poll" /\ started_
  /\ backlog # <<>>
  /\ IF Cardinality(conns_) + Inflight >= max_clients
     THEN backlog' = Tail(backlog) /\ UNCHANGED pc
     ELSE pc' = "accept" /\ UNCHANGED backlog
  /\ UNCHANGED <<path, listening, started_, hs_stopping_, queues, wake, worker, conns_,
                 ready, closing, frames, void, clients, callbacks, starts>>

(* The rest of OnAccept: accept, then push under the lock.                 *)
AcceptPush ==
  /\ pc = "accept"
  /\ backlog' = Tail(backlog)
  /\ hs_pending_' = Append(hs_pending_, Head(backlog))
  /\ pc' = "poll"
  /\ UNCHANGED <<path, listening, started_, hs_stopping_, hs_current_, hs_done_, wake,
                 worker, conns_, ready, closing, frames, void, clients, callbacks, starts>>

(* accept fails, and the connection stays in the backlog.  At the limit    *)
(* that changes nothing, so OnAccept does not show it.                     *)
AcceptFails ==
  /\ pc = "accept"
  /\ pc' = "poll"
  /\ UNCHANGED <<path, listening, backlog, started_, hs_stopping_, queues, wake, worker,
                 conns_, ready, closing, frames, void, clients, callbacks, starts>>

(* OnHandshakeComplete reads the eventfd, then takes all of hs_done_.      *)
OnHandshakeComplete ==
  /\ pc = "poll" /\ started_ /\ wake
  /\ wake' = FALSE
  /\ pc' = "swap"
  /\ UNCHANGED <<path, listening, backlog, started_, hs_stopping_, queues, worker, conns_,
                 ready, closing, frames, void, clients, callbacks, starts>>

SwapDone ==
  /\ pc = "swap"
  /\ ready' = hs_done_
  /\ hs_done_' = <<>>
  /\ pc' = "ready"
  /\ UNCHANGED <<path, listening, backlog, started_, hs_stopping_, hs_pending_,
                 hs_current_, wake, worker, conns_, closing, frames, void, clients, callbacks,
                 starts>>

(* FinishAccept: at the limit, or when the codec factory returns nothing,  *)
(* the connection is dropped; else it enters conns_ and its connection     *)
(* callback runs.                                                          *)
FinishAccept(c) ==
  \/ UNCHANGED <<conns_, opens, pc>>
  \/ /\ Cardinality(conns_) < max_clients
     /\ conns_' = conns_ \cup {c}
     /\ opens' = opens \cup {c}
     /\ pc' = "callback"

(* One turn of the loop over ready.                                        *)
TakeReady ==
  /\ pc = "ready"
  /\ IF ready = <<>> \/ ~started_
     THEN /\ ready' = <<>>
          /\ pc' = "poll"
          /\ UNCHANGED <<conns_, opens>>
     ELSE /\ ready' = Tail(ready)
          /\ FinishAccept(Head(ready))
  /\ UNCHANGED <<path, listening, backlog, started_, hs_stopping_, queues, wake, worker,
                 closing, frames, void, clients, closes, starts>>

(* The connection callback returns, or a close callback that Stop runs.    *)
CallbackReturn ==
  /\ pc \in {"callback", "closecb"}
  /\ pc' = IF pc = "callback" THEN "ready" ELSE "stopremove"
  /\ UNCHANGED <<path, listening, backlog, started_, hs_stopping_, queues, wake, worker,
                 conns_, ready, closing, frames, void, clients, callbacks, starts>>

-----------------------------------------------------------------------------
(* The loop thread: closing.                                               *)

(* RemoveConn; OnClose runs the close callback the first time only.        *)
RemoveConn(c) ==
  /\ conns_' = conns_ \ {c}
  /\ closes' = [closes EXCEPT ![c] = IF c \in conns_ THEN @ + 1 ELSE @]

(* OnConnSocket: the client is gone.                                       *)
OnConnSocket(c) ==
  /\ pc = "poll"
  /\ c \in conns_ \cap gone
  /\ RemoveConn(c)
  /\ UNCHANGED <<path, listening, backlog, started_, hs_stopping_, queues, wake, worker,
                 ready, closing, pc, frames, void, clients, opens, starts>>

(* CloseConn, by the application: also in a connection callback, or in a   *)
(* close callback that Stop runs.                                          *)
CloseConn(c) ==
  /\ pc \in {"poll", "callback", "closecb"}
  /\ c \in conns_
  /\ RemoveConn(c)
  /\ UNCHANGED <<path, listening, backlog, started_, hs_stopping_, queues, wake, worker,
                 ready, closing, pc, frames, void, clients, opens, starts>>

-----------------------------------------------------------------------------
(* The loop thread: Start and Stop.                                        *)

Start ==
  /\ pc \in RestartFrom
  /\ ~started_
  /\ Len(starts) < MaxStarts
  /\ path' = TRUE /\ listening' = TRUE
  /\ hs_stopping_' = FALSE
  /\ wake' = FALSE
  /\ worker' = "wait"
  /\ started_' = TRUE
  /\ starts' = Append(starts, pc)
  /\ UNCHANGED <<backlog, queues, conns_, ready, closing, pc, frames, void, clients,
                 callbacks>>

(* Start fails: the bind or the listen, when the path is already unlinked, *)
(* or the eventfd or the thread.  The listener is closed again.            *)
StartFails ==
  /\ pc \in RestartFrom
  /\ ~started_
  /\ Len(starts) < MaxStarts
  /\ path' = FALSE
  /\ hs_stopping_' \in {hs_stopping_, FALSE}
  /\ wake' = FALSE
  /\ starts' = Append(starts, pc)
  /\ UNCHANGED <<listening, backlog, started_, queues, worker, conns_, ready, closing, pc,
                 frames, void, clients, callbacks>>

(* Stop, up to the join: sockets in the handshake are shut down.  A close  *)
(* callback that Stop runs may have called Start and then calls Stop.      *)
Stop ==
  /\ pc \in {"poll", "callback", "closecb"}
  /\ started_
  /\ started_' = FALSE
  /\ hs_stopping_' = TRUE
  /\ void' = void \cup Elems(hs_pending_) \cup ({hs_current_} \ {NoClient})
                  \cup Elems(hs_done_) \cup Elems(ready)
  /\ frames' = <<[pc |-> pc, closing |-> closing]>> \o frames
  /\ pc' = "join"
  /\ UNCHANGED <<path, listening, backlog, queues, wake, worker, conns_, ready, closing,
                 clients, callbacks, starts>>

(* The join returns; the listener and the handshake queues go.             *)
StopJoined ==
  /\ pc = "join"
  /\ worker = "exited"
  /\ worker' = "none"
  /\ listening' = FALSE
  /\ backlog' = <<>>
  /\ hs_pending_' = <<>> /\ hs_done_' = <<>> /\ hs_current_' = NoClient
  /\ closing' = conns_
  /\ pc' = "stopremove"
  /\ UNCHANGED <<path, started_, hs_stopping_, wake, conns_, ready, frames, void, clients,
                 callbacks, starts>>

StopRemove(c) ==
  /\ pc = "stopremove"
  /\ c \in closing
  /\ closing' = closing \ {c}
  /\ RemoveConn(c)
  /\ pc' = IF c \in conns_ THEN "closecb" ELSE pc
  /\ UNCHANGED <<path, listening, backlog, started_, hs_stopping_, queues, wake, worker,
                 ready, frames, void, clients, opens, starts>>

(* The unlink at the end of Stop.                                          *)
StopReturn ==
  /\ pc = "stopremove"
  /\ closing = {}
  /\ path' = FALSE
  /\ pc' = Head(frames).pc /\ closing' = Head(frames).closing
  /\ frames' = Tail(frames)
  /\ UNCHANGED <<listening, backlog, started_, hs_stopping_, queues, wake, worker, conns_,
                 ready, void, clients, callbacks, starts>>

-----------------------------------------------------------------------------
Worker == WorkerTake \/ WorkerExit \/ Handshake \/ HandshakeEnd \/ WorkerNotify

Loop ==
  \/ OnAccept \/ AcceptPush \/ AcceptFails
  \/ OnHandshakeComplete \/ SwapDone \/ TakeReady \/ CallbackReturn
  \/ \E c \in Clients : OnConnSocket(c) \/ StopRemove(c)
  \/ StopJoined \/ StopReturn

Environment ==
  \/ \E c \in Clients : ClientConnect(c) \/ ClientLeaves(c) \/ CloseConn(c)
  \/ Start \/ StartFails \/ Stop

Next == Worker \/ Loop \/ Environment

(* Both threads keep running: the loop polls and its callbacks return, the *)
(* handshake thread is never blocked for longer than the socket timeout.   *)
(* A round of the loop calls the handler of every fd that is ready, so a   *)
(* listener whose accept goes on failing keeps no other from its turn.     *)
Fairness == WF_vars(Worker) /\ WF_vars(Loop) /\ SF_vars(OnHandshakeComplete)

Spec == Init /\ [][Next]_vars /\ Fairness

-----------------------------------------------------------------------------
(* Properties.                                                             *)

(* Types of the server's members and of the two threads' positions.        *)
TypeOK ==
  /\ {path, listening, started_, hs_stopping_, wake} \subseteq BOOLEAN
  /\ {backlog, hs_pending_, hs_done_, ready} \subseteq Seq(Clients)
  /\ hs_current_ \in Clients \cup {NoClient}
  /\ worker \in {"none", "wait", "handshake", "ok", "failed", "notify", "exited"}
  /\ pc \in {"poll", "accept", "swap", "ready", "callback", "join", "stopremove",
            "closecb"}
  /\ frames \in Seq([pc : {"poll", "callback", "closecb"}, closing : SUBSET Clients])
  /\ {conns_, closing, void, gone, used, opens} \subseteq SUBSET Clients
  /\ closes \in [Clients -> Nat]
  /\ starts \in Seq(RestartFrom) /\ Len(starts) <= MaxStarts

(* A connection OnAccept lets in keeps its seat through the handshake: the *)
(* established ones and all on their way, those a handler has taken out of *)
(* hs_done_ included, never exceed max_clients, although the limit is      *)
(* checked in one critical section and the push made in another.           *)
SeatLimit ==
  Cardinality(conns_) + Inflight + Len(ready) + (IF pc = "accept" THEN 1 ELSE 0)
    <= max_clients

(* A socket is owned by one place at a time: hs_pending_, hs_current_,     *)
(* hs_done_, ready or conns_; and the state has its types.                 *)
OneOwner ==
  LET owned == hs_pending_ \o hs_done_ \o ready
               \o (IF hs_current_ # NoClient THEN <<hs_current_>> ELSE <<>>)
  IN  /\ TypeOK
      /\ \A i, j \in DOMAIN owned : owned[i] = owned[j] => i = j
      /\ Elems(owned) \cap (conns_ \cup Elems(backlog)) = {}

(* Every connection the application was told of is closed to it exactly    *)
(* once, when it leaves conns_, whoever removes it: the socket handler,    *)
(* CloseConn, Stop, or CloseConn from a callback that Stop runs.           *)
CloseOnce ==
  \A c \in Clients : closes[c] = IF c \in opens \ conns_ THEN 1 ELSE 0

Outside == \A n \in DOMAIN starts : starts[n] = "poll"

(* Once Stop has returned nothing of the server is left: no connection, no *)
(* socket in the handshake, no thread, no listener; also after callbacks   *)
(* that called Start and Stop, or a Start that failed.  And nothing        *)
(* accepted before a Stop is established after it, "callback called        *)
(* Stop(): the remaining connections are silently dropped"; this needs an  *)
(* application that calls Start outside callbacks, as started_ is all that *)
(* the loop over ready looks at.                                           *)
StopComplete ==
  /\ pc = "poll" /\ ~started_ =>
       /\ conns_ = {} /\ Inflight = 0 /\ ready = <<>>
       /\ worker = "none" /\ ~listening /\ ~path
  /\ Outside => conns_ \cap void = {}

(* While the server is started, its socket path leads to its listener,     *)
(* after failed and repeated Starts too: "Start after Stop is supported".  *)
(* This needs an application that calls Start outside callbacks: the last  *)
(* act of Stop is the unlink of the path, also of that of a newer Start.   *)
ReachableOutside == Outside /\ pc = "poll" /\ started_ => path /\ listening

(* Stop returns: the join never waits for a handshake thread that waits    *)
(* for something itself.                                                   *)
StopReturns == pc = "join" ~> pc # "join"

(* Every accepted connection is established or given up.                   *)
HandshakeResolved ==
  \A c \in Clients :
    c \in Elems(hs_pending_) ~>
      c \notin Elems(hs_pending_) \cup Elems(hs_done_) \cup Elems(ready) \cup {hs_current_}

=============================================================================
