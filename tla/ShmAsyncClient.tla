--------------------------- MODULE ShmAsyncClient ---------------------------
(***************************************************************************)
(* ShmAsyncClient on its EventLoop: one client object, the ShmConnections  *)
(* it makes one after the other with their verify timers, and the          *)
(* callbacks of the application, which may call back into client and       *)
(* connections.  Everything runs on the thread of the loop, so a call of   *)
(* the application is one step; only the peers are concurrent.             *)
(*                                                                         *)
(* Connections are numbered in the order of their Connect calls, 0 stands  *)
(* for a null conn_.  A ring is the sequence of the whole packages in it.  *)
(* The entries of the loop go by fd numbers, which come back: a connection *)
(* closes its two fds when the last reference to it is dropped, a timer    *)
(* its timerfd when it fires or is removed.                                *)
(***************************************************************************)
EXTENDS Integers, Sequences, LoopEntries

CONSTANTS
  Fds,               \* the fd numbers; 0 is not one: verify_timer_ 0 is no timer
  MaxConns,          \* bound on the connections made
  MaxTimers,         \* bound on the verify timers started
  MaxMessages,       \* bound on the packages the peers send
  Keeps,             \* connections the application keeps a reference to, until
                     \* it drops them
  ConnectFrom        \* where the application calls Connect: "poll" is outside
                     \* callbacks, "callback" and "closecb" are the message or
                     \* timer callback and the close callback

ASSUME FdsAssumption == Fds \subseteq Nat \ {0} /\ Fds # {}
ASSUME BoundsAssumption == MaxConns \in Nat /\ MaxTimers \in Nat /\ MaxMessages \in Nat
ASSUME KeepsAssumption == Keeps \subseteq 1 .. MaxConns
ASSUME ConnectFromAssumption == ConnectFrom \subseteq {"poll", "callback", "closecb"}

VARIABLES
  state_, conn_,  \* members of the client
  cstate,         \* state_ of each ShmConnection
  verify_timer_,  \* of each ShmConnection: the fd number of its timer, or 0
  entries_, pfds, \* of the loop, as in module EventLoop; pfds has the ready ones
  file,           \* the registration whose file has the number, 0 when closed
  role,           \* role[r]: the connection and the use of registration r
  expired,        \* timers that have expired
  held,           \* connections the application keeps a reference to
  inside,         \* whether some Connect was made in a callback
  pc, cur,        \* where the loop thread is, and in whose callback
  conn,           \* local of OnNotify and OnSocket
  inbox, sent,    \* packages in each ring, and how many were ever put into one
  rung,           \* connections whose eventfd is readable
  hungup,         \* connections whose peer closed its end
  shut,           \* connections whose socket Close has shut down
  closes          \* calls of the close callback for each connection

loop == <<entries_, file, role>>
peers == <<inbox, sent, rung, hungup>>
conns == <<cstate, verify_timer_, shut, closes>>
client == <<state_, conn_, conns, loop, inside>>
handler == <<pc, cur, conn, pfds, expired>>
vars == <<client, handler, peers, held>>

Conns == 1 .. MaxConns
MaxRegs == 2 * MaxConns + MaxTimers

(* The number of connections and of timers made: the last registration is  *)
(* one for the last connection.                                            *)
made == IF role = <<>> THEN 0 ELSE role[Len(role)].conn
timers == Len(role) - 2 * made

Init ==
  /\ state_ = "close" /\ conn_ = 0
  /\ cstate = [k \in Conns |-> "none"]
  /\ verify_timer_ = [k \in Conns |-> 0]
  /\ entries_ = <<>> /\ pfds = <<>> /\ file = [fd \in Fds |-> 0] /\ role = <<>>
  /\ expired = {} /\ held = {} /\ inside = FALSE
  /\ pc = "poll" /\ cur = 0 /\ conn = 0
  /\ inbox = [k \in Conns |-> <<>>]
  /\ sent = 0
  /\ rung = {} /\ hungup = {} /\ shut = {}
  /\ closes = [k \in Conns |-> 0]

-----------------------------------------------------------------------------
(* Numbers and references.                                                 *)

(* The numbers of the two fds of connection k.                             *)
FdsOf(k) == {fd \in Fds : file[fd] # 0 /\ role[file[fd]].conn = k /\ role[file[fd]].use # "timer"}

(* Entries es after RemoveFd of the numbers in S.                          *)
Removed(es, S) == [n \in DOMAIN es |->
  IF es[n].fd \in S THEN [es[n] EXCEPT !.dead = TRUE] ELSE es[n]]

(* Files f after RemoveTimer of the numbers in S: the loop closes those    *)
(* that are timers of its own.                                             *)
TimersClosed(f, S) == [fd \in Fds |->
  IF fd \in S /\ f[fd] \in DOMAIN role /\ role[f[fd]].use = "timer" THEN 0 ELSE f[fd]]

(* ~ShmConnection: files f after the last reference to every connection    *)
(* that is not in keep is dropped.                                         *)
Kept(f, keep) == [fd \in Fds |->
  IF f[fd] \in DOMAIN role /\ role[f[fd]].use # "timer" /\ role[f[fd]].conn \notin keep
  THEN 0 ELSE f[fd]]

(* Connections that somebody has a reference to: the client, the handler,  *)
(* the application.                                                        *)
Referenced == ({conn_, conn} \cup held) \ {0}

(* The kernel gives out the smallest free number: the socket is opened     *)
(* before the eventfd.                                                     *)
FreeFd(f) == CHOOSE fd \in Fds : f[fd] = 0 /\ \A g \in Fds : g < fd => f[g] # 0
TwoFree(f) == \E fd, g \in Fds : fd # g /\ f[fd] = 0 /\ f[g] = 0
EventFd(f) == FreeFd([f EXCEPT ![FreeFd(f)] = 1])

Opened(f) == [f EXCEPT ![EventFd(f)] = Len(role) + 1, ![FreeFd(f)] = Len(role) + 2]

Entry(fd, r) == [fd |-> fd, reg |-> r, dead |-> FALSE]
Use(k, use) == [conn |-> k, use |-> use]

(* verify_timer_ of connection k, as a set of numbers.                     *)
Timer(k) == {verify_timer_[k]} \ {0}

Receiving(k) == cstate[k] \in {"established", "verifing"}

(* Where the application may call: outside handlers and in callbacks.      *)
Calling == pc \in {"poll", "callback"}

-----------------------------------------------------------------------------
(* Faults: plausible slips in the code, to show that the properties below  *)
(* would notice them.  No behaviour of Spec uses one.                      *)

(* Connect does not look at state_ and replaces a live connection.         *)
MayConnectFault == pc \in ConnectFrom

(* The callback of the timer does not reset verify_timer_.                 *)
FiredFault(k) == verify_timer_

(* The socket is not seen as readable when the peer left an empty ring.    *)
ReadableSocketFault(k) == k \in hungup /\ inbox[k] # <<>>

(* OnNotify takes an empty ring for a failure of DrainRing.                *)
HandlerFailsFault == pc = "error" \/ inbox[conn] = <<>>

-----------------------------------------------------------------------------
(* Connect, Close and Teardown.                                            *)

(* The end of a successful Connect, with entries es and files f before it: *)
(* a new connection, its fds registered, OnConnection.  The application    *)
(* may keep the connection it is given.  A verify timer with a number in   *)
(* timer is removed afterwards.                                            *)
Connected(es, f, timer) ==
  LET k == made + 1
  IN  /\ made < MaxConns /\ TwoFree(f)
      /\ conn_' = k
      /\ held' = held \cup ({k} \cap Keeps)
      /\ LET new == <<Entry(EventFd(f), Len(role) + 1), Entry(FreeFd(f), Len(role) + 2)>>
         IN  entries_' = Removed(es \o new, timer)
      /\ role' = role \o <<Use(k, "notify"), Use(k, "socket")>>

(* The state OnConnection leaves a connection in, by whether the           *)
(* application has set a verify callback.                                  *)
Fresh == {"verifing", "established"}

(* Teardown.  conn_ is reset before OnClose runs the close callback, which *)
(* may have connected again when OnClose removes the verify timer, if      *)
(* Close has not removed it before: es, f and timer are the entries, the   *)
(* files and the timer that Teardown finds, keep the references that are   *)
(* left when its caller returns.                                           *)
Teardown(es, f, timer, keep) ==
  LET k == conn_
      es1 == Removed(es, FdsOf(k))
  IN  /\ closes' = [closes EXCEPT ![k] = IF cstate[k] # "closeed" THEN @ + 1 ELSE @]
      /\ verify_timer_' = [verify_timer_ EXCEPT ![k] = 0]
      /\ \/ /\ state_' = "close" /\ conn_' = 0
            /\ cstate' = [cstate EXCEPT ![k] = "closeed"]
            /\ entries_' = Removed(es1, timer)
            /\ UNCHANGED <<held, role, inside>>
            /\ file' = Kept(TimersClosed(f, timer), keep)
         \/ /\ "closecb" \in ConnectFrom
            /\ state_' = "established" /\ inside' = TRUE
            /\ Connected(es1, f, timer)
            /\ \E s \in Fresh : cstate' = [cstate EXCEPT ![k] = "closeed", ![conn_'] = s]
            /\ file' = Kept(TimersClosed(Opened(f), timer), keep)

(* Connect looks at state_ only.  That conn_ is null restricts the         *)
(* application: it does not connect again after a Connect that threw, when *)
(* the loop would keep the fds and the timer of a connection that conn_ no *)
(* longer holds.                                                           *)
MayConnect == pc \in ConnectFrom /\ state_ = "close" /\ conn_ = 0

Connect ==
  /\ MayConnect
  /\ Connected(entries_, file, {})
  /\ state_' = "established" /\ inside' = (inside \/ pc # "poll")
  /\ \E s \in Fresh : cstate' = [cstate EXCEPT ![conn_'] = s]
  /\ file' = Kept(Opened(file), {conn} \cup held)
  /\ UNCHANGED <<verify_timer_, shut, closes, handler, peers>>

(* Connect whose connection callback throws: the handler of the exception  *)
(* only sets state_ and runs the error callback.                           *)
ConnectThrows ==
  /\ pc = "poll" /\ MayConnect
  /\ Connected(entries_, file, {})
  /\ \E s \in Fresh : cstate' = [cstate EXCEPT ![conn_'] = s]
  /\ file' = Opened(file)
  /\ UNCHANGED <<state_, verify_timer_, shut, closes, inside, handler, peers>>

(* ShmAsyncClient::Close: ShmConnection::Close, then Teardown.             *)
Close ==
  /\ Calling /\ state_ = "established"
  /\ shut' = IF Receiving(conn_) THEN shut \cup {conn_} ELSE shut
  /\ UNCHANGED <<handler, peers>>
  /\ Teardown(Removed(entries_, Timer(conn_)), TimersClosed(file, Timer(conn_)), {},
              {conn} \cup held)

(* ~ShmAsyncClient: Close of the connection, the fds are removed and no    *)
(* callback of the application runs.                                       *)
Destroy ==
  /\ pc = "poll"
  /\ pc' = "destroyed" /\ conn_' = 0
  /\ cstate' = [k \in Conns |-> IF k = conn_ /\ Receiving(k) THEN "closeing" ELSE cstate[k]]
  /\ verify_timer_' = [k \in Conns |-> IF k = conn_ THEN 0 ELSE verify_timer_[k]]
  /\ IF conn_ = 0
     THEN UNCHANGED <<entries_, file>>
     ELSE /\ entries_' = Removed(entries_, FdsOf(conn_) \cup Timer(conn_))
          /\ file' = Kept(TimersClosed(file, Timer(conn_)), held)
  /\ UNCHANGED <<state_, shut, closes, role, inside, cur, conn, pfds, expired, peers, held>>

-----------------------------------------------------------------------------
(* ShmConnection, called by the application with a connection it can       *)
(* reach: the current one, one it has kept, or the one of a callback.  It  *)
(* makes no such call once the close callback has run: nobody would remove *)
(* a timer started then.                                                   *)

Reach(k) == Calling /\ k \in Referenced /\ closes[k] = 0

(* state_ and shut after ShmConnection::Close.                             *)
ShutDown(k) ==
  /\ cstate' = [cstate EXCEPT ![k] = IF Receiving(k) THEN "closeing" ELSE @]
  /\ shut' = IF Receiving(k) THEN shut \cup {k} ELSE shut

RemoveVerifyTimer(k) ==
  /\ entries_' = Removed(entries_, Timer(k))
  /\ file' = TimersClosed(file, Timer(k))
  /\ verify_timer_' = [verify_timer_ EXCEPT ![k] = 0]

CloseConnection(k) ==
  /\ Reach(k)
  /\ ShutDown(k) /\ RemoveVerifyTimer(k)
  /\ UNCHANGED <<state_, conn_, closes, role, inside, handler, peers, held>>

(* OnVerify has no look at the state: a success after a Close makes the    *)
(* state established again.                                                *)
OnVerify(k, succ) ==
  /\ Reach(k)
  /\ RemoveVerifyTimer(k)
  /\ IF succ
     THEN cstate' = [cstate EXCEPT ![k] = "established"] /\ UNCHANGED shut
     ELSE ShutDown(k)
  /\ UNCHANGED <<state_, conn_, closes, role, inside, handler, peers, held>>

(* StartVerifyTimer: AddOneShotTimer with a callback that has a raw        *)
(* pointer to the connection.                                              *)
StartVerifyTimer(k) ==
  /\ Reach(k)
  /\ verify_timer_[k] = 0
  /\ timers < MaxTimers /\ \E fd \in Fds : file[fd] = 0
  /\ verify_timer_' = [verify_timer_ EXCEPT ![k] = FreeFd(file)]
  /\ entries_' = Append(entries_, Entry(FreeFd(file), Len(role) + 1))
  /\ file' = [file EXCEPT ![FreeFd(file)] = Len(role) + 1]
  /\ role' = Append(role, Use(k, "timer"))
  /\ UNCHANGED <<state_, conn_, cstate, shut, closes, inside, handler, peers, held>>

(* The application drops a connection it has kept.                         *)
Drop(k) ==
  /\ Calling \/ pc = "destroyed"
  /\ k \in held
  /\ held' = held \ {k}
  /\ file' = Kept(file, {conn_, conn} \cup (held \ {k}))
  /\ UNCHANGED <<state_, conn_, conns, entries_, role, inside, handler, peers>>

-----------------------------------------------------------------------------
(* The loop.  Both handlers are bound to the client, not to a connection,  *)
(* and keep conn_ in a local for the rest of the call.                     *)

(* The socket reads as closed when the peer is gone or after a shutdown.   *)
ReadableSocket(k) == k \in hungup \cup shut

Readable(r) ==
  \/ role[r].use = "notify" /\ role[r].conn \in rung
  \/ role[r].use = "socket" /\ ReadableSocket(role[r].conn)
  \/ role[r].use = "timer" /\ r \in expired

(* The pollfds are built and poll returns; of a closed fd it says so too.  *)
Poll ==
  /\ pc = "poll"
  /\ LET all == [n \in DOMAIN entries_ |->
                   [idx |-> n, fd |-> entries_[n].fd,
                    revents |-> LET r == file[entries_[n].fd] IN r = 0 \/ Readable(r)]]
     IN  pfds' = Selected(all, {n \in Alive(entries_) : all[n].revents})
  /\ pfds' # <<>>
  /\ pc' = "dispatch"
  /\ UNCHANGED <<client, cur, conn, expired, peers, held>>

(* verify_timer_ after the callback of the timer of k has reset it.        *)
Fired(k) == [verify_timer_ EXCEPT ![k] = 0]

(* OnNotify and OnSocket, as far as DrainRing.                             *)
StartHandler(r) ==
  /\ conn' = conn_
  /\ IF conn_ # 0 THEN pc' = "drain" /\ cur' = r ELSE UNCHANGED <<pc, cur>>
  /\ rung' = IF role[r].use = "notify" THEN rung \ {role[r].conn} ELSE rung
  /\ UNCHANGED <<verify_timer_, entries_, file, expired>>

(* The callback of a one-shot timer: the timer is removed, then the        *)
(* connection's part runs, then that of the application.                   *)
StartTimer(e) ==
  /\ pc' = "callback" /\ cur' = e.reg
  /\ entries_' = RemovedFd(entries_, e.fd)
  /\ file' = TimersClosed(file, {e.fd})
  /\ verify_timer_' = Fired(role[e.reg].conn)
  /\ expired' = expired \ {e.reg}
  /\ UNCHANGED <<conn, rung>>

Dispatch ==
  /\ pc = "dispatch" /\ pfds # <<>>
  /\ pfds' = Tail(pfds)
  /\ IF Skipped(entries_, Head(pfds))
     THEN UNCHANGED <<cur, pc, conn, verify_timer_, entries_, file, rung, expired>>
     ELSE LET e == EntryAt(entries_, Head(pfds))
          IN  IF role[e.reg].use = "timer" THEN StartTimer(e) ELSE StartHandler(e.reg)
  /\ UNCHANGED <<state_, conn_, cstate, shut, closes, role, inside, inbox, sent, hungup, held>>

RoundEnd ==
  /\ pc = "dispatch" /\ pfds = <<>>
  /\ entries_' = Compacted(entries_)
  /\ pc' = "poll"
  /\ UNCHANGED <<state_, conn_, conns, file, role, inside, cur, conn, pfds, expired, peers, held>>

(* One round of DrainRing.  A package of a connection that does not        *)
(* receive any more is committed and not dispatched.                       *)
DrainRing ==
  /\ pc = "drain"
  /\ \/ inbox[conn] = <<>> /\ pc' = "drained" /\ UNCHANGED inbox
     \/ /\ inbox[conn] # <<>> /\ Head(inbox[conn]) = "bad"
        /\ pc' = "error" /\ UNCHANGED inbox
     \/ /\ inbox[conn] # <<>> /\ Head(inbox[conn]) = "good"
        /\ inbox' = [inbox EXCEPT ![conn] = Tail(@)]
        /\ pc' = IF Receiving(conn) THEN "callback" ELSE pc
  /\ UNCHANGED <<client, cur, conn, pfds, expired, sent, rung, hungup, held>>

(* The message callback returns to DrainRing, that of a timer to the loop. *)
CallbackReturn ==
  /\ pc = "callback"
  /\ IF conn # 0 THEN pc' = "drain" /\ UNCHANGED cur ELSE pc' = "dispatch" /\ cur' = 0
  /\ UNCHANGED <<client, conn, pfds, expired, peers, held>>

(* When OnNotify calls Teardown.                                           *)
HandlerFails == pc = "error" \/ cstate[conn] = "closeing"

(* After DrainRing: OnSocket always calls Teardown, OnNotify on failure.   *)
(* The handler's reference is dropped.                                     *)
HandlerEnd ==
  /\ pc \in {"drained", "error"}
  /\ pc' = "dispatch" /\ conn' = 0 /\ cur' = 0
  /\ IF state_ # "close" /\ (role[cur].use = "socket" \/ HandlerFails)
     THEN Teardown(entries_, file, Timer(conn_), held)
     ELSE /\ file' = Kept(file, {conn_} \cup held)
          /\ UNCHANGED <<state_, conn_, cstate, verify_timer_, closes, entries_, role, inside, held>>
  /\ UNCHANGED <<shut, pfds, expired, peers>>

(* A timer expires.  Only poll looks, so before it is soon enough; the      *)
(* same goes for the end of a peer.                                        *)
TimerExpires(r) ==
  /\ pc = "poll" /\ r \in DOMAIN role /\ role[r].use = "timer" /\ \E fd \in Fds : file[fd] = r
  /\ expired' = expired \cup {r}
  /\ UNCHANGED <<client, pc, cur, conn, pfds, peers, held>>

-----------------------------------------------------------------------------
(* The peers of connections that are still read.                           *)

PeerSends(k, package) ==
  /\ pc # "destroyed" /\ k \in {conn_, conn} \ hungup
  /\ sent < MaxMessages
  /\ sent' = sent + 1
  /\ inbox' = [inbox EXCEPT ![k] = Append(@, package)]
  /\ rung' = rung \cup {k}
  /\ UNCHANGED <<client, handler, hungup, held>>

PeerCloses(k) ==
  /\ pc = "poll" /\ k = conn_
  /\ hungup' = hungup \cup {k}
  /\ UNCHANGED <<client, handler, inbox, sent, rung, held>>

-----------------------------------------------------------------------------

(* The steps the loop thread takes by itself.                              *)
Loop == Poll \/ Dispatch \/ RoundEnd \/ DrainRing \/ CallbackReturn \/ HandlerEnd

Application ==
  \/ Connect \/ ConnectThrows \/ Close \/ Destroy
  \/ \E k \in Conns :
       \/ CloseConnection(k) \/ StartVerifyTimer(k) \/ Drop(k)
       \/ \E succ \in BOOLEAN : OnVerify(k, succ)

Outside ==
  \/ \E k \in Conns : PeerCloses(k) \/ \E p \in {"good", "bad"} : PeerSends(k, p)
  \/ \E r \in 1 .. MaxRegs : TimerExpires(r)

Next == Loop \/ Application \/ Outside

(* The loop polls again after every handler and callbacks return.  Nobody  *)
(* has to call the client and no peer has to send.                         *)
Spec == Init /\ [][Next]_vars /\ WF_vars(Loop)

-----------------------------------------------------------------------------

(* The variables have their types.                                         *)
TypeOK ==
  /\ state_ \in {"established", "close"} /\ conn_ \in 0 .. made
  /\ cstate \in [Conns -> {"none", "verifing", "established", "closeing", "closeed"}]
  /\ verify_timer_ \in [Conns -> Fds \cup {0}]
  /\ entries_ \in Seq([fd : Fds, reg : 1 .. MaxRegs, dead : BOOLEAN])
  /\ file \in [Fds -> 0 .. Len(role)]
  /\ role \in Seq([conn : Conns, use : {"notify", "socket", "timer"}])
  /\ expired \subseteq DOMAIN role /\ inside \in BOOLEAN
  /\ pc \in {"poll", "dispatch", "drain", "callback", "drained", "error", "destroyed"}
  /\ cur \in 0 .. Len(role) /\ conn \in 0 .. made /\ (pc = "drain" => conn # 0)
  /\ inbox \in [Conns -> Seq({"good", "bad"})] /\ sent \in 0 .. MaxMessages
  /\ UNION {held, rung, hungup, shut} \subseteq 1 .. made
  /\ closes \in [Conns -> Nat]

(* Whatever the callbacks call and however numbers come back, the loop     *)
(* polls exactly the two fds of conn_ and the verify timers that           *)
(* connections know of, each under the number its own file has.  None      *)
(* belongs to a connection that is gone, so no callback meets a released   *)
(* connection and no number that RemoveVerifyTimer or Teardown passes to   *)
(* the loop is that of somebody else.  And the state has its types.        *)
LoopMatches ==
  LET alive == {n \in DOMAIN entries_ : ~entries_[n].dead}
      used == {role[entries_[n].reg] : n \in alive}
      due == {Use(conn_, "notify"), Use(conn_, "socket")}
  IN  /\ TypeOK
      /\ used = (IF conn_ = 0 THEN {} ELSE due)
                  \cup {Use(k, "timer") : k \in {j \in Conns : verify_timer_[j] # 0}}
      /\ \A j, n \in alive : role[entries_[j].reg] = role[entries_[n].reg] => j = n
      /\ \A n \in alive : LET e == entries_[n] IN
           /\ file[e.fd] = e.reg
           /\ role[e.reg].use = "timer" => verify_timer_[role[e.reg].conn] = e.fd
           /\ role[e.reg].conn \in Referenced

(* Between handlers every connection ever made is the current one, not yet *)
(* reported closed, or has been reported to the close callback once.       *)
EveryCloseReported ==
  pc = "poll" => \A k \in 1 .. made : closes[k] = IF k = conn_ THEN 0 ELSE 1

(* What ends a connection: its peer, its application, or a package that    *)
(* its codec rejects.                                                      *)
HasReason(k) ==
  k \in hungup \/ k \in shut' \/ (inbox[k] # <<>> /\ Head(inbox[k]) = "bad")

(* The close callback of a connection never runs without a reason of that  *)
(* connection's own: a handler that is still running for an older          *)
(* connection does not tear down the one made since, "the close callback   *)
(* may Connect() at once".                                                 *)
OwnClose == [][\A k \in Conns : closes'[k] # closes[k] => HasReason(k)]_vars

(* The same for an application that calls Connect outside callbacks.       *)
OwnCloseOutside ==
  [][~inside => \A k \in Conns : closes'[k] # closes[k] => HasReason(k)]_vars

(* A connection whose connection callback threw: the client keeps it, in   *)
(* state close, and Teardown passes it over.                               *)
Abandoned(k) == state_ = "close" /\ conn_ = k

(* An end is final: once the peer has gone away or the connection was      *)
(* closed, by the application or because its verification failed or timed  *)
(* out, its close callback has run or will run, even if OnVerify has made  *)
(* its state established again; unless the client is destroyed first or    *)
(* the connection callback threw.                                          *)
EndReported ==
  \A k \in Conns :
    k \in hungup \cup shut ~> (closes[k] = 1 \/ pc = "destroyed" \/ Abandoned(k))

=============================================================================
