-------------------------------- MODULE Demo --------------------------------
(***************************************************************************)
(* The demo programs server.cpp and client.cpp, not their bench modes: the *)
(* server on its EventLoop with a timer, an eventfd and a socket for each  *)
(* client, and the client processes, which run beside it, stop by          *)
(* themselves or on a signal, or behave otherwise.                         *)
(*                                                                         *)
(* A callback of the server is one step as far as DrainClientRing, where   *)
(* each frame that is read is a step: a client may write between eventfd   *)
(* and ring, and between two frames.  poll looks at one fd after the       *)
(* other, and the clients go on meanwhile.  A callback of a client is one  *)
(* step.  A ring is the number of the messages in it.                      *)
(***************************************************************************)
EXTENDS Integers, Sequences, FiniteSets, FiniteSetsExt, LoopEntries

CONSTANTS
  Clients,            \* the client processes, each of which connects once
  Unruly,             \* those that are another program: they may write without end,
                      \* break the framing, send other bytes than 0 on the socket,
                      \* and leave without a byte
  Fds,                \* the fd numbers of the server
  kMaxClients,
  kMaxTicks,          \* of the server: heartbeats for one client
  kMaxWrites,         \* kMaxTicks of the client
  RingMessages        \* messages that a ring has room for

ASSUME ClientsAssumption == Clients \subseteq Nat \ {0} /\ Unruly \subseteq Clients
ASSUME FdsAssumption == Fds \subseteq Nat \ {0} /\ Cardinality(Fds) > 3 * kMaxClients
ASSUME BoundsAssumption ==
  {kMaxClients, kMaxTicks, kMaxWrites, RingMessages} \subseteq Nat \ {0}

VARIABLES
  entries_,        \* of the loop, as in module EventLoop
  revents,         \* indexes of the entries that poll found readable and that are
                   \* still to be dispatched
  hup,             \* those of them with POLLHUP or POLLERR
  running_,
  pc,              \* where the server is
  clients,         \* the map of the server: ClientState of a socket number, or Null
  file,            \* what is open under each number
  phase,           \* phase of each client process
  tick,            \* tick of each client process
  ring,            \* messages in the ring from each client
  broken,          \* clients that have broken the framing of their ring
  rung,            \* clients whose eventfd at the server is readable
  beats            \* heartbeats in the ring to each client

round == <<revents, hup>>
server == <<entries_, running_, pc, round, clients, file>>
processes == <<phase, tick>>
channel == <<ring, broken, rung>>
shared == <<channel, beats>>
vars == <<server, processes, shared>>

(* ClientState, and that no client has the number.                         *)
ClientState(c, tfd, efd) == [id |-> c, timer_fd |-> tfd, notify_efd |-> efd, tick |-> 0]
Null == ClientState(0, 0, 0)

(* What a number, and an entry of the loop, is for.                        *)
Use(c, use) == [id |-> c, use |-> use]
Closed == Use(0, "none")
Listener == Use(0, "listen")

Entry(fd, reg, client_fd) == [fd |-> fd, reg |-> reg, client_fd |-> client_fd, dead |-> FALSE]

Init ==
  LET fd == Min(Fds) IN
  /\ entries_ = <<Entry(fd, Listener, 0)>>
  /\ file = [g \in Fds |-> IF g = fd THEN Listener ELSE Closed]
  /\ clients = [g \in Fds |-> Null]
  /\ running_ = TRUE /\ pc = "poll" /\ revents = {} /\ hup = {}
  /\ phase = [c \in Clients |-> "new"]
  /\ tick = [c \in Clients |-> 0]
  /\ ring = [c \in Clients |-> 0] /\ broken = {} /\ rung = {}
  /\ beats = [c \in Clients |-> 0]

-----------------------------------------------------------------------------
(* The loop of the server.                                                 *)

(* The file behind the number of the k-th entry.                           *)
FileAt(k) == file[entries_[k].fd]
With(use) == {k \in DOMAIN entries_ : FileAt(k).use = use}

(* poll looks at the fds in the order of the entries.  What matters of     *)
(* that is that the socket of a client comes after its eventfd, and that   *)
(* the client goes on in between.  Any timers may have expired, and        *)
(* somebody may be at the listener: one of Clients, or, when the server is *)
(* full, a stranger.                                                       *)
Full == Cardinality({fd \in Fds : clients[fd] # Null}) >= kMaxClients
In(ph) == {c \in Clients : phase[c] = ph}
Waiting == In("connecting")

Poll ==
  /\ pc = "poll" /\ running_
  /\ pc' = "sockets"
  /\ \E T \in SUBSET With("timer"), knock \in BOOLEAN :
       /\ IF Waiting # {} THEN knock ELSE knock => Full
       /\ revents' = {k \in With("listen") : knock} \cup T
                      \cup {k \in With("notify") : FileAt(k).id \in rung}
  /\ UNCHANGED <<entries_, running_, hup, clients, file, processes, shared>>

(* Other programs may have sent something on their socket.                 *)
PollSockets ==
  /\ pc = "sockets"
  /\ pc' = "dispatch"
  /\ LET sockets(C) == {k \in With("socket") : FileAt(k).id \in C}
     IN  /\ \E C \in SUBSET (Unruly \cap In("running")) :
              revents' = revents \cup sockets(In("asleep") \cup In("gone") \cup C)
         /\ hup' = sockets(In("gone"))
  /\ UNCHANGED <<entries_, running_, clients, file, processes, shared>>

(* clients.find in the callback of the k-th entry: a callback that does    *)
(* not find its client does nothing.                                       *)
Found(k) == entries_[k].reg.use # "listen" => clients[entries_[k].client_fd] # Null

(* The entries still to be called, and the first of them.                  *)
Pending == {k \in revents : ~entries_[k].dead /\ Found(k)}
First == Min(Pending)

RoundEnds == Pending = {} \/ ~running_

NextRound ==
  /\ pc = "dispatch" /\ RoundEnds
  /\ entries_' = Compacted(entries_)
  /\ pc' = "poll" /\ revents' = {} /\ hup' = {}
  /\ UNCHANGED <<running_, clients, file, processes, shared>>

(* Run returns; main clears the map and leaves, which closes every file.   *)
ShutDown ==
  /\ pc = "poll" /\ ~running_
  /\ entries_' = <<>>
  /\ clients' = [fd \in Fds |-> Null]
  /\ file' = [fd \in Fds |-> Closed]
  /\ ring' = [c \in Clients |-> 0] /\ broken' = {} /\ rung' = {}
  /\ pc' = "done"
  /\ UNCHANGED <<running_, round, processes, beats>>

(* SIGINT or SIGTERM.  It may come at any time, but only these two read    *)
(* running_.                                                               *)
SignalHandler ==
  /\ pc \in {"poll", "dispatch"} /\ running_
  /\ running_' = FALSE
  /\ UNCHANGED <<entries_, pc, round, clients, file, processes, shared>>

-----------------------------------------------------------------------------
(* Faults: plausible slips in the code, to show that the properties below  *)
(* would notice them.  No behaviour of Spec uses one.                      *)

(* The socket is registered before the eventfd.                            *)
OrderFault == <<"timer", "socket", "notify">>

(* RemoveClient leaves the timer.                                          *)
NumbersFault(fd) == {clients[fd].notify_efd, fd}

(* The tick of the client is not counted.                                  *)
TickedFault(fd) == clients[fd]

-----------------------------------------------------------------------------
(* The callbacks of the server.                                            *)

(* The number that the callback to be called is bound to, and its client.  *)
client_fd == entries_[First].client_fd
csp == clients[client_fd]

(* The callback is one for that use.  It leaves the loop to go on with the *)
(* next entry.                                                             *)
Called(use) ==
  /\ pc = "dispatch" /\ ~RoundEnds /\ entries_[First].reg.use = use
  /\ UNCHANGED <<running_, hup>>

Return == pc' = "dispatch" /\ revents' = revents \ {First}

(* RemoveClient: the numbers it removes from the loop, and closes.  With   *)
(* the ClientState the ring and the eventfd of the client go.              *)
Numbers(fd) == {clients[fd].timer_fd, clients[fd].notify_efd, fd}

Removed(es, S) == [k \in DOMAIN es |->
  IF es[k].fd \in S THEN [es[k] EXCEPT !.dead = TRUE] ELSE es[k]]

RemoveClient(fd) ==
  /\ entries_' = Removed(entries_, Numbers(fd))
  /\ file' = [g \in Fds |-> IF g \in Numbers(fd) THEN Closed ELSE file[g]]
  /\ clients' = [clients EXCEPT ![fd] = Null]
  /\ ring' = [ring EXCEPT ![clients[fd].id] = 0]
  /\ broken' = broken \ {clients[fd].id}
  /\ rung' = rung \ {clients[fd].id}

Kept == UNCHANGED <<entries_, file, clients>>

(* The numbers the kernel gives out: to the socket that accept returns, to *)
(* the eventfd of the channel, to the timer.                               *)
FreeFds == {fd \in Fds : file[fd] = Closed}
SocketFd == Min(FreeFds)
EventFd == Min(FreeFds \ {SocketFd})
TimerFd == Min(FreeFds \ {SocketFd, EventFd})

Number(use) == CASE use = "timer" -> TimerFd [] use = "notify" -> EventFd [] OTHER -> SocketFd

(* The order in which OnAccept registers, and the entries after the first  *)
(* n registrations for client c.                                           *)
Order == <<"timer", "notify", "socket">>

Registered(c, n) ==
  entries_ \o [k \in 1 .. n |-> Entry(Number(Order[k]), Use(c, Order[k]), SocketFd)]

(* OnAccept for client c, 0 being a stranger.  Whoever is rejected, or     *)
(* fails in the handshake: the socket is closed, and the other half of the *)
(* handshake throws.                                                       *)
Turned(c) ==
  /\ phase' = [d \in Clients |-> IF d = c THEN "gone" ELSE phase[d]]
  /\ Return /\ Kept
  /\ UNCHANGED <<tick, shared>>

Reject(c) == Full /\ Turned(c)
HandshakeFails(c) == ~Full /\ Turned(c)

Accept(c) ==
  /\ ~Full
  /\ entries_' = Registered(c, 3)
  /\ file' = [file EXCEPT ![SocketFd] = Use(c, "socket"), ![EventFd] = Use(c, "notify"),
                          ![TimerFd] = Use(c, "timer")]
  /\ clients' = [clients EXCEPT ![SocketFd] = ClientState(c, TimerFd, EventFd)]
  /\ phase' = [phase EXCEPT ![c] = "running"]
  /\ Return
  /\ UNCHANGED <<tick, shared>>

(* The (n + 1)-th registration throws after the handshake: those made are  *)
(* removed, the socket and the channel are closed.                         *)
SetupFails(c, n) ==
  /\ ~Full
  /\ entries_' = Removed(Registered(c, n), {TimerFd, EventFd, SocketFd})
  /\ phase' = [phase EXCEPT ![c] = "running"]
  /\ Return
  /\ UNCHANGED <<file, clients, tick, shared>>

(* accept fails, and whoever is in the backlog stays there.                *)
AcceptFails == Return /\ Kept /\ UNCHANGED <<processes, shared>>

(* For one in the backlog, whose order is left open.                       *)
OnAccept ==
  /\ Called("listen")
  /\ \/ AcceptFails
     \/ \E c \in Waiting \cup {0} : Reject(c)
     \/ \E c \in Waiting :
          HandshakeFails(c) \/ Accept(c) \/ \E n \in 0 .. 2 : SetupFails(c, n)

Ticked(fd) == [clients[fd] EXCEPT !.tick = @ + 1]

(* A ring that is full loses the heartbeat, and the server does not mind.  *)
OnHeartbeatTimer ==
  /\ Called("timer")
  /\ IF Ticked(client_fd).tick > kMaxTicks
     THEN RemoveClient(client_fd) /\ UNCHANGED beats
     ELSE /\ clients' = [clients EXCEPT ![client_fd] = Ticked(client_fd)]
          /\ beats' = [beats EXCEPT ![csp.id] = IF @ < RingMessages THEN @ + 1 ELSE @]
          /\ UNCHANGED <<entries_, file, channel>>
  /\ Return
  /\ UNCHANGED processes

(* OnClientNotify: DrainNotify, and DrainClientRing.                       *)
OnClientNotify ==
  /\ Called("notify")
  /\ rung' = rung \ {FileAt(First).id}
  /\ pc' = "drain"
  /\ Kept
  /\ UNCHANGED <<revents, processes, ring, broken, beats>>

(* OnClientSocket: a hang-up; a byte 0 or the end of the stream; or        *)
(* another byte, from another program.                                     *)
OnClientSocket ==
  /\ Called("socket")
  /\ \/ First \in hup /\ RemoveClient(client_fd) /\ Return
     \/ First \notin hup /\ pc' = "drain" /\ Kept /\ UNCHANGED <<revents, channel>>
     \/ First \notin hup /\ csp.id \in Unruly /\ Kept /\ Return /\ UNCHANGED channel
  /\ UNCHANGED <<processes, beats>>

(* One Recv of DrainClientRing: a whole frame, and it goes on; or none, or *)
(* a broken one, and it returns to its caller.  OnClientSocket then always *)
(* removes the client, OnClientNotify after a failure.                     *)
DrainClientRing ==
  /\ pc = "drain"
  /\ IF ring[csp.id] > 0
     THEN /\ ring' = [ring EXCEPT ![csp.id] = @ - 1]
          /\ Kept /\ UNCHANGED <<pc, revents, broken, rung>>
     ELSE /\ IF entries_[First].reg.use = "socket" \/ csp.id \in broken
             THEN RemoveClient(client_fd) ELSE Kept /\ UNCHANGED channel
          /\ Return
  /\ UNCHANGED <<running_, hup, processes, beats>>

-----------------------------------------------------------------------------
(* A client process.                                                       *)

Moves(c, from, to) ==
  /\ phase[c] = from
  /\ phase' = [phase EXCEPT ![c] = to]

(* ConnectUnixSocket; after that the client waits in the handshake.        *)
Connect(c) ==
  /\ Moves(c, "new", IF pc = "done" THEN "gone" ELSE "connecting")
  /\ UNCHANGED <<server, tick, shared>>

(* The server is gone, and the handshake throws.                           *)
Refused(c) ==
  /\ pc = "done" /\ Moves(c, "connecting", "gone")
  /\ UNCHANGED <<server, tick, shared>>

(* The loop of the client is stopped: Run returns, main writes the byte 0  *)
(* and sleeps for 100 ms.  Nobody looks at its tick any more.              *)
Stopped(c) == Moves(c, "running", "asleep") /\ tick' = [tick EXCEPT ![c] = 0]

(* What is written to a ring that the server has left is lost.             *)
Connected(c) == \E fd \in Fds : file[fd] = Use(c, "socket")

OnWriteTimer(c) ==
  /\ phase[c] = "running" /\ c \notin Unruly
  /\ IF tick[c] = kMaxWrites
     THEN Stopped(c) /\ UNCHANGED <<ring, rung>>
     ELSE /\ tick' = [tick EXCEPT ![c] = @ + 1] /\ UNCHANGED phase
          /\ IF ring[c] < RingMessages /\ Connected(c)
             THEN ring' = [ring EXCEPT ![c] = @ + 1] /\ rung' = rung \cup {c}
             ELSE UNCHANGED <<ring, rung>>
  /\ UNCHANGED <<server, broken, beats>>

(* Another program writes a frame whenever there is room.                  *)
Write(c) ==
  /\ phase[c] = "running" /\ c \in Unruly \ broken
  /\ ring[c] < RingMessages /\ Connected(c)
  /\ ring' = [ring EXCEPT ![c] = @ + 1] /\ rung' = rung \cup {c}
  /\ UNCHANGED <<server, processes, broken, beats>>

(* It breaks the framing.                                                  *)
Break(c) ==
  /\ phase[c] = "running" /\ c \in Unruly \ broken /\ Connected(c)
  /\ broken' = broken \cup {c} /\ rung' = rung \cup {c}
  /\ UNCHANGED <<server, processes, ring, beats>>

OnServerNotify(c) ==
  /\ phase[c] = "running" /\ beats[c] > 0 /\ c \notin Unruly
  /\ beats' = [beats EXCEPT ![c] = 0]
  /\ UNCHANGED <<server, processes, channel>>

OnServerSocket(c) ==
  /\ c \notin Unruly /\ ~Connected(c) /\ Stopped(c)
  /\ UNCHANGED <<server, shared>>

Signal(c) ==
  /\ c \notin Unruly /\ Stopped(c)
  /\ UNCHANGED <<server, shared>>

(* The process ends, and what it has not read is lost.  The sleep is       *)
(* longer than the look of poll at the fds.                                *)
Ends(c, from) ==
  /\ Moves(c, from, "gone")
  /\ beats' = [beats EXCEPT ![c] = 0]
  /\ UNCHANGED <<server, tick, channel>>

Exit(c) == pc # "sockets" /\ Ends(c, "asleep")

Abort(c) == c \in Unruly /\ Ends(c, "running")

-----------------------------------------------------------------------------
Loop ==
  \/ Poll \/ PollSockets \/ NextRound \/ ShutDown
  \/ OnAccept \/ OnHeartbeatTimer \/ OnClientNotify \/ OnClientSocket \/ DrainClientRing

Process(c) ==
  \/ Connect(c) \/ Refused(c) \/ OnWriteTimer(c)
  \/ Write(c) \/ Break(c)
  \/ OnServerNotify(c) \/ OnServerSocket(c) \/ Signal(c) \/ Exit(c) \/ Abort(c)

Next == Loop \/ SignalHandler \/ \E c \in Clients : Process(c)

(* The timer of client c has expired when poll looks at it.                *)
Expired(c) ==
  /\ pc = "poll" /\ \E k \in With("timer") : FileAt(k).id = c
  /\ Poll
  /\ \E k \in With("timer") : FileAt(k).id = c /\ k \in revents'

(* The server goes on, and its timers expire.  Nothing is asked of the     *)
(* clients.                                                                *)
Fairness == WF_vars(Loop) /\ \A c \in Clients : SF_vars(Expired(c))

Spec == Init /\ [][Next]_vars /\ Fairness

-----------------------------------------------------------------------------
Phases == {"new", "connecting", "running", "asleep", "gone"}

TypeOK ==
  /\ running_ \in BOOLEAN /\ pc \in {"poll", "sockets", "dispatch", "drain", "done"}
  /\ hup \subseteq DOMAIN entries_ /\ revents \subseteq DOMAIN entries_
  /\ phase \in [Clients -> Phases]
  /\ tick \in [Clients -> 0 .. kMaxWrites]
  /\ ring \in [Clients -> 0 .. RingMessages] /\ beats \in [Clients -> 0 .. RingMessages]
  /\ rung \subseteq Clients /\ broken \subseteq Unruly

(* The loop polls the listener and, for every client of the map, its timer,*)
(* its eventfd and its socket, each under the number that it has now, and  *)
(* nothing else; no other number is open.  No client is in the map twice,  *)
(* no more than kMaxClients are, whatever order clients come and go in and *)
(* whichever registration failed.  And the state has its types.            *)
MapMatchesLoop ==
  LET held == {fd \in Fds : clients[fd] # Null}
      alive == {k \in DOMAIN entries_ : ~entries_[k].dead}
      ofClient(fd) == LET cs == clients[fd] IN
        {<<cs.timer_fd, Use(cs.id, "timer")>>, <<cs.notify_efd, Use(cs.id, "notify")>>,
         <<fd, Use(cs.id, "socket")>>}
      wanted == (IF pc = "done" THEN {} ELSE {<<Min(Fds), Listener>>})
                  \cup UNION {ofClient(fd) : fd \in held}
  IN  /\ TypeOK
      /\ {<<entries_[k].fd, entries_[k].reg>> : k \in alive} = wanted
      /\ Cardinality(alive) = Cardinality(wanted)
      /\ {<<fd, file[fd]>> : fd \in {g \in Fds : file[g] # Closed}} = wanted
      /\ Cardinality(held) <= kMaxClients
      /\ \A f, g \in held : clients[f].id = clients[g].id => f = g

(* When the socket makes the server remove a client that ended in order,   *)
(* every message which that client had written has been read, also when    *)
(* its hang-up was seen, on which OnClientSocket does not read the ring.   *)
EndedIsRead ==
  [][\A fd \in Fds :
       LET c == clients[fd].id IN
       (/\ clients[fd] # Null /\ clients'[fd] = Null
        /\ pc \in {"dispatch", "drain"} /\ entries_[First].reg.use = "socket"
        /\ c \notin Unruly)
       => ring[c] = 0]_vars

(* As long as DrainClientRing returns again and again, no client stays for *)
(* ever, not even one that never stops: the server removes it after        *)
(* kMaxTicks heartbeats at the latest, or ends.  A client that writes as   *)
(* fast as the server reads keeps DrainClientRing from returning, and with *)
(* it all timers and all other clients from their turn.                    *)
EveryoneLeaves ==
  []<>(pc # "drain") => \A c \in Clients : []<>~Connected(c)

=============================================================================
