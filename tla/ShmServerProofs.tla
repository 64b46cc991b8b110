-------------------------- MODULE ShmServerProofs --------------------------
(***************************************************************************)
(* Proofs about ShmServer, for every set of clients, every max_clients and *)
(* every place from which the application calls Start.                     *)
(***************************************************************************)
EXTENDS ShmServer, FiniteSetTheorems, TLAPS

(* Most leaves are first-order: Zenon is the prover unless one cites SMT.  *)
USE Zenon

(* The places of the loop thread outside of any Stop.                      *)
NoStop == {"poll", "accept", "swap", "ready", "callback"}

(* TypeOK, one conjunct for each variable.                                 *)
Types ==
  /\ path \in BOOLEAN /\ listening \in BOOLEAN /\ started_ \in BOOLEAN
  /\ hs_stopping_ \in BOOLEAN /\ wake \in BOOLEAN
  /\ backlog \in Seq(Clients) /\ hs_pending_ \in Seq(Clients)
  /\ hs_done_ \in Seq(Clients) /\ ready \in Seq(Clients)
  /\ hs_current_ \in Clients \cup {NoClient}
  /\ worker \in {"none", "wait", "handshake", "ok", "failed", "notify", "exited"}
  /\ pc \in NoStop \cup {"join", "stopremove", "closecb"}
  /\ frames \in Seq([pc : {"poll", "callback", "closecb"}, closing : SUBSET Clients])
  /\ conns_ \subseteq Clients /\ closing \subseteq Clients /\ void \subseteq Clients
  /\ gone \subseteq Clients /\ used \subseteq Clients /\ opens \subseteq Clients
  /\ closes \in [Clients -> Nat]
  /\ starts \in Seq(RestartFrom) /\ Len(starts) <= MaxStarts

(* Where the two threads can be: Stops nest only in the close callbacks    *)
(* that Stop runs, the outermost one was called outside or in a connection *)
(* callback, and a server that is not started has no handshake thread.     *)
ControlInv ==
  /\ frames = <<>> <=> pc \in NoStop
  /\ \A k \in DOMAIN frames : /\ frames[k].pc = "closecb" <=> k < Len(frames)
                              /\ frames[k].pc = "poll" => ready = <<>>
  /\ pc \in {"poll", "accept", "swap"} => ready = <<>>
  /\ pc \in {"accept", "swap"} => started_
  /\ pc = "accept" => backlog # <<>>
  /\ pc = "join" => ~started_
  /\ hs_current_ # NoClient <=> worker \in {"handshake", "ok", "failed"}

(* What is left when the server is not started, and while a Stop is in     *)
(* progress.                                                               *)
StopInv ==
  /\ ~started_ /\ pc # "join" =>
       worker = "none" /\ hs_pending_ = <<>> /\ hs_done_ = <<>> /\ ~listening
  /\ ~started_ /\ pc \in NoStop => conns_ = {} /\ ~path
  /\ pc \in {"stopremove", "closecb"} => conns_ \subseteq closing
  /\ \A k \in DOMAIN frames : frames[k].pc = "closecb" => conns_ \subseteq frames[k].closing

(* No client is twice in a queue.                                          *)
Once(s) == \A k, l \in DOMAIN s : s[k] = s[l] => k = l

Current == {hs_current_} \ {NoClient}

(* A client moves from place to place, is in one of them at a time, and    *)
(* connects once.                                                          *)
OwnerInv ==
  /\ Once(backlog) /\ Once(hs_pending_) /\ Once(hs_done_) /\ Once(ready)
  /\ Elems(backlog) \subseteq used /\ Elems(hs_pending_) \subseteq used
  /\ Current \subseteq used /\ Elems(hs_done_) \subseteq used
  /\ Elems(ready) \subseteq used /\ opens \subseteq used
  /\ Elems(backlog) \cap (Elems(hs_pending_) \cup Current \cup Elems(hs_done_)
                            \cup Elems(ready) \cup opens) = {}
  /\ Elems(hs_pending_) \cap (Current \cup Elems(hs_done_) \cup Elems(ready) \cup opens) = {}
  /\ Current \cap (Elems(hs_done_) \cup Elems(ready) \cup opens) = {}
  /\ Elems(hs_done_) \cap (Elems(ready) \cup opens) = {}
  /\ Elems(ready) \cap opens = {}
  /\ conns_ \subseteq opens

(* What was accepted before a Stop, under an application that calls Start  *)
(* outside callbacks.                                                      *)
VoidInv ==
  /\ void \subseteq used /\ void \cap Elems(backlog) = {}
  /\ Outside => conns_ \cap void = {}
  /\ Outside /\ started_ =>
       /\ void \cap (Elems(hs_pending_) \cup Current \cup Elems(hs_done_) \cup Elems(ready)) = {}
       /\ pc \in NoStop /\ path /\ listening

SeatInv == IsFiniteSet(conns_) /\ SeatLimit

Inv == /\ Types /\ ControlInv /\ StopInv /\ OwnerInv /\ VoidInv /\ SeatInv
       /\ CloseOnce

-----------------------------------------------------------------------------
(* Queues of clients.                                                      *)

(* What Append does to a queue.                                            *)
LEMMA AppendQueue ==
  ASSUME NEW s \in Seq(Clients), NEW c \in Clients
  PROVE  /\ Append(s, c) \in Seq(Clients) /\ Len(Append(s, c)) = Len(s) + 1
         /\ Append(s, c) # <<>>
         /\ Elems(Append(s, c)) = Elems(s) \cup {c}
         /\ Once(s) /\ c \notin Elems(s) => Once(Append(s, c))
<1> DEFINE t == Append(s, c)
<1>1. /\ t \in Seq(Clients) /\ Len(t) = Len(s) + 1 /\ t # <<>>
      /\ DOMAIN s = 1 .. Len(s) /\ DOMAIN t = 1 .. Len(s) + 1 /\ Len(s) \in Nat
      /\ \A k \in 1 .. Len(s) : t[k] = s[k]
      /\ t[Len(s) + 1] = c
  BY SMT
<1> HIDE DEF t
<1>2. \A k \in DOMAIN t : k \in DOMAIN s \/ k = Len(s) + 1
  BY <1>1, SMT
<1>3. Elems(t) = Elems(s) \cup {c}
  <2>1. ASSUME NEW x \in Elems(t) PROVE x \in Elems(s) \cup {c}
    BY <1>1, <1>2 DEF Elems
  <2>2. ASSUME NEW x \in Elems(s) \cup {c} PROVE x \in Elems(t)
    BY <1>1, SMT DEF Elems
  <2> QED
    BY <2>1, <2>2
<1>4. ASSUME Once(s), c \notin Elems(s), NEW k \in DOMAIN t, NEW l \in DOMAIN t, t[k] = t[l]
      PROVE  k = l
  BY <1>1, <1>2, <1>4 DEF Once, Elems
<1> QED
  BY <1>1, <1>3, <1>4 DEF t, Once

(* What taking the front of a queue does to it.                            *)
LEMMA TailQueue ==
  ASSUME NEW s \in Seq(Clients), s # <<>>
  PROVE  /\ Tail(s) \in Seq(Clients) /\ Len(Tail(s)) = Len(s) - 1 /\ Len(s) \in Nat \ {0}
         /\ Head(s) \in Clients /\ Head(s) \in Elems(s)
         /\ Elems(Tail(s)) \subseteq Elems(s)
         /\ Once(s) => Once(Tail(s)) /\ Head(s) \notin Elems(Tail(s))
<1> DEFINE t == Tail(s)
<1>1. /\ t \in Seq(Clients) /\ Len(t) = Len(s) - 1 /\ Len(s) \in Nat \ {0}
      /\ DOMAIN s = 1 .. Len(s) /\ DOMAIN t = 1 .. Len(s) - 1
      /\ \A k \in DOMAIN t : t[k] = s[k + 1]
      /\ Head(s) = s[1] /\ s[1] \in Clients
  BY SMT
<1> HIDE DEF t
<1>2. \A k \in DOMAIN t : k + 1 \in DOMAIN s /\ k + 1 # 1
  BY <1>1, SMT
<1>3. Head(s) \in Elems(s)
  BY <1>1, SMT DEF Elems
<1>4. Elems(t) \subseteq Elems(s)
  BY <1>1, <1>2, ZenonT(30) DEF Elems
<1>5. ASSUME Once(s) PROVE Once(t) /\ Head(s) \notin Elems(t)
  <2>1. ASSUME NEW k \in DOMAIN t, NEW l \in DOMAIN t, t[k] = t[l] PROVE k = l
    <3>1. s[k + 1] = s[l + 1]
      BY <1>1, <2>1
    <3>2. k + 1 = l + 1
      BY <1>2, <1>5, <3>1 DEF Once
    <3> QED
      BY <1>1, <3>2, SMT
  <2>2. ASSUME NEW k \in DOMAIN t, t[k] = Head(s) PROVE FALSE
    <3>1. s[k + 1] = s[1] /\ 1 \in DOMAIN s
      BY <1>1, <2>2, SMT
    <3> QED
      BY <1>2, <1>5, <3>1 DEF Once
  <2> QED
    BY <2>1, <2>2 DEF Once, Elems
<1> QED
  BY <1>1, <1>3, <1>4, <1>5 DEF t

(* The empty queue.                                                        *)
LEMMA EmptyQueue ==
  <<>> \in Seq(Clients) /\ Len(<<>>) = 0 /\ Elems(<<>>) = {} /\ Once(<<>>)
  BY SMT DEF Elems, Once

-----------------------------------------------------------------------------
(* The invariant is inductive: one lemma for each part.                    *)

(* The stack of Stops.                                                     *)
LEMMA StackFacts ==
  ASSUME Types
  PROVE  /\ \A k \in DOMAIN frames : /\ frames[k].pc \in {"poll", "callback", "closecb"}
                                     /\ frames[k].closing \subseteq Clients
         /\ DOMAIN frames = 1 .. Len(frames) /\ Len(frames) \in Nat
         /\ frames # <<>> => /\ Head(frames) = frames[1] /\ 1 \in DOMAIN frames
                             /\ Len(Tail(frames)) = Len(frames) - 1
                             /\ DOMAIN Tail(frames) = 1 .. Len(frames) - 1
                             /\ \A k \in DOMAIN Tail(frames) :
                                  Tail(frames)[k] = frames[k + 1] /\ k + 1 \in DOMAIN frames
                             /\ Tail(frames) = <<>> <=> Len(frames) = 1
<1> DEFINE F == [pc : {"poll", "callback", "closecb"}, closing : SUBSET Clients]
<1>1. frames \in Seq(F)
  BY DEF Types
<1>2. \A e \in F : e.pc \in {"poll", "callback", "closecb"} /\ e.closing \subseteq Clients
  OBVIOUS
<1> HIDE DEF F
<1>3. \A k \in DOMAIN frames : frames[k] \in F
  BY <1>1, SMT
<1>4. DOMAIN frames = 1 .. Len(frames) /\ Len(frames) \in Nat
  BY <1>1, SMT
<1>5. ASSUME frames # <<>>
      PROVE  /\ Head(frames) = frames[1] /\ 1 \in DOMAIN frames
             /\ Len(Tail(frames)) = Len(frames) - 1
             /\ DOMAIN Tail(frames) = 1 .. Len(frames) - 1
             /\ \A k \in DOMAIN Tail(frames) :
                  Tail(frames)[k] = frames[k + 1] /\ k + 1 \in DOMAIN frames
             /\ Tail(frames) = <<>> <=> Len(frames) = 1
  <2>1. /\ Head(frames) = frames[1] /\ Tail(frames) \in Seq(F)
        /\ Len(Tail(frames)) = Len(frames) - 1
        /\ Len(frames) \in Nat \ {0}
    BY <1>1, <1>5, SMT
  <2>2. DOMAIN Tail(frames) = 1 .. Len(frames) - 1
    BY <2>1, SMT
  <2>3. \A k \in 1 .. Len(frames) - 1 : Tail(frames)[k] = frames[k + 1]
    BY <1>1, <1>5, <2>1, SMT
  <2>4. Tail(frames) = <<>> <=> Len(Tail(frames)) = 0
    BY <2>1, SMTT(30)
  <2>5. 1 \in DOMAIN frames /\ \A k \in 1 .. Len(frames) - 1 : k + 1 \in DOMAIN frames
    BY <1>4, <2>1, SMT
  <2> QED
    BY <2>1, <2>2, <2>3, <2>4, <2>5, SMT
<1> QED
  BY <1>2, <1>3, <1>4, <1>5

(* The stack with the frame of a new Stop on top.                          *)
LEMMA PushFacts ==
  ASSUME Types, NEW p \in {"poll", "callback", "closecb"}, NEW C \in SUBSET Clients
  PROVE  LET t == <<[pc |-> p, closing |-> C]>> \o frames
         IN  /\ t \in Seq([pc : {"poll", "callback", "closecb"}, closing : SUBSET Clients])
             /\ t # <<>> /\ Len(t) = Len(frames) + 1 /\ DOMAIN t = 1 .. Len(frames) + 1
             /\ t[1] = [pc |-> p, closing |-> C]
             /\ \A k \in DOMAIN t : k # 1 => k - 1 \in DOMAIN frames /\ t[k] = frames[k - 1]
<1> DEFINE F == [pc : {"poll", "callback", "closecb"}, closing : SUBSET Clients]
           e == [pc |-> p, closing |-> C]
<1>1. frames \in Seq(F) /\ e \in F
  BY DEF Types
<1> HIDE DEF F, e
<1>2. /\ <<e>> \o frames \in Seq(F) /\ <<e>> \o frames # <<>>
      /\ Len(<<e>> \o frames) = Len(frames) + 1
      /\ DOMAIN (<<e>> \o frames) = 1 .. Len(frames) + 1
      /\ (<<e>> \o frames)[1] = e
      /\ \A k \in 2 .. Len(frames) + 1 :
           k - 1 \in DOMAIN frames /\ (<<e>> \o frames)[k] = frames[k - 1]
  BY <1>1, SMT
<1> QED
  BY <1>1, <1>2, SMT DEF F, e

(* Every step keeps the types.                                             *)
LEMMA TypesStep ==
  ASSUME Inv, Next
  PROVE  Types'
<1> USE DEF Inv
<1>1. CASE WorkerTake
  BY <1>1, TailQueue DEF WorkerTake, Types, clients, callbacks
<1>2. CASE WorkerExit \/ Handshake \/ WorkerNotify
  BY <1>2 DEF WorkerExit, Handshake, WorkerNotify, Types, queues, clients, callbacks
<1>3. CASE HandshakeEnd
  <2>1. hs_current_ \in Clients
    BY <1>3 DEF HandshakeEnd, ControlInv, Types
  <2> QED
    BY <1>3, <2>1, AppendQueue DEF HandshakeEnd, Types, clients, callbacks
<1>4. CASE OnAccept
  <2>1. backlog # <<>> /\ backlog' \in {backlog, Tail(backlog)} /\ pc' \in {"poll", "accept"}
    BY <1>4 DEF OnAccept
  <2>2. Tail(backlog) \in Seq(Clients)
    BY <2>1, TailQueue DEF Types
  <2> QED
    BY <1>4, <2>1, <2>2, ZenonT(60) DEF OnAccept, Types, queues, clients, callbacks, NoStop
<1>5. CASE AcceptPush
  <2>1. backlog # <<>>
    BY <1>5 DEF AcceptPush, ControlInv
  <2>2. Tail(backlog) \in Seq(Clients) /\ Head(backlog) \in Clients
    BY <2>1, TailQueue DEF Types
  <2> QED
    BY <1>5, <2>2, AppendQueue DEF AcceptPush, Types, clients, callbacks, NoStop
<1>6. CASE AcceptFails \/ OnHandshakeComplete \/ SwapDone \/ CallbackReturn
  <2>1. CASE AcceptFails \/ OnHandshakeComplete
    BY <2>1 DEF AcceptFails, OnHandshakeComplete, Types, queues, clients, callbacks, NoStop
  <2>2. CASE SwapDone
    BY <2>2, EmptyQueue DEF SwapDone, Types, clients, callbacks, NoStop
  <2>3. CASE CallbackReturn
    BY <2>3, ZenonT(30) DEF CallbackReturn, Types, queues, clients, callbacks, NoStop
  <2> QED
    BY <1>6, <2>1, <2>2, <2>3
<1>7. CASE TakeReady
  <2>1. ready # <<>> => Tail(ready) \in Seq(Clients) /\ Head(ready) \in Clients
    BY TailQueue DEF Types
  <2> QED
    BY <1>7, <2>1, EmptyQueue, ZenonT(60) DEF TakeReady, FinishAccept, Types, queues, clients, NoStop
<1>8. ASSUME NEW c \in Clients, OnConnSocket(c) \/ CloseConn(c) \/ StopRemove(c)
      PROVE  Types'
  <2>1. conns_' \subseteq Clients /\ closes' \in [Clients -> Nat]
    <3>1. RemoveConn(c)
      BY <1>8 DEF OnConnSocket, CloseConn, StopRemove
    <3>2. closes[c] \in Nat /\ closes \in [Clients -> Nat] /\ conns_ \subseteq Clients
      BY DEF Types
    <3>3. (IF c \in conns_ THEN closes[c] + 1 ELSE closes[c]) \in Nat
      BY <3>2, SMT
    <3> QED
      BY <3>1, <3>2, <3>3 DEF RemoveConn
  <2> QED
    BY <1>8, <2>1, SMT DEF OnConnSocket, CloseConn, StopRemove, Types, queues, clients, NoStop
<1>9. ASSUME NEW c \in Clients, ClientConnect(c) \/ ClientLeaves(c) PROVE Types'
  BY <1>9, AppendQueue, ZenonT(60) DEF ClientConnect, ClientLeaves, Types, queues, callbacks
<1>10. CASE Start \/ StartFails
  <2>1. starts' \in Seq(RestartFrom) /\ Len(starts') <= MaxStarts
    <3>1. starts' = Append(starts, pc) /\ pc \in RestartFrom /\ Len(starts) < MaxStarts
      BY <1>10 DEF Start, StartFails
    <3>2. starts \in Seq(RestartFrom)
      BY DEF Types
    <3>3. Append(starts, pc) \in Seq(RestartFrom) /\ Len(Append(starts, pc)) = Len(starts) + 1
          /\ Len(starts) \in Nat
      BY <3>1, <3>2, SMT
    <3> QED
      BY <3>1, <3>3, LimitAssumption, SMT
  <2> QED
    BY <1>10, <2>1 DEF Start, StartFails, Types, queues, clients, callbacks
<1>11. CASE Stop
  <2>1. frames' \in Seq([pc : {"poll", "callback", "closecb"}, closing : SUBSET Clients])
    BY <1>11, PushFacts DEF Stop, Types
  <2>2. void' \subseteq Clients
    <3>1. \A s \in Seq(Clients) : Elems(s) \subseteq Clients
      BY SMT DEF Elems
    <3> QED
      BY <1>11, <3>1 DEF Stop, Types
  <2> QED
    BY <1>11, <2>1, <2>2 DEF Stop, Types, queues, clients, callbacks
<1>12. CASE StopJoined
  BY <1>12, EmptyQueue DEF StopJoined, Types, clients, callbacks
<1>13. CASE StopReturn
  <2>1. frames # <<>>
    BY <1>13 DEF StopReturn, ControlInv, NoStop
  <2>2. Tail(frames) \in Seq([pc : {"poll", "callback", "closecb"}, closing : SUBSET Clients])
    BY <2>1, SMT DEF Types
  <2>3. pc' \in {"poll", "callback", "closecb"} /\ closing' \subseteq Clients
    BY <1>13, <2>1, StackFacts DEF StopReturn
  <2> QED
    BY <1>13, <2>2, <2>3, ZenonT(60) DEF StopReturn, Types, queues, clients, callbacks, NoStop
<1> QED
  BY <1>1, <1>2, <1>3, <1>4, <1>5, <1>6, <1>7, <1>8, <1>9, <1>10, <1>11, <1>12, <1>13
     DEF Next, Worker, Loop, Environment

(* Every step keeps the threads where they can be.                         *)
LEMMA ControlStep ==
  ASSUME Inv, Next
  PROVE  ControlInv'
<1> USE DEF Inv, NoStop
<1>1. CASE Worker
  <2>1. UNCHANGED <<pc, frames, ready, started_, backlog>>
    BY <1>1 DEF Worker, WorkerTake, WorkerExit, Handshake, HandshakeEnd, WorkerNotify
  <2>2. (hs_current_ # NoClient <=> worker \in {"handshake", "ok", "failed"})'
    <3>1. CASE WorkerTake
      <4>1. Head(hs_pending_) \in Clients
        BY <3>1, TailQueue DEF WorkerTake, Types
      <4> QED
        BY <3>1, <4>1, NoClientAssumption DEF WorkerTake
    <3>2. CASE WorkerExit \/ Handshake \/ HandshakeEnd \/ WorkerNotify
      BY <3>2 DEF WorkerExit, Handshake, HandshakeEnd, WorkerNotify, queues, ControlInv
    <3> QED
      BY <1>1, <3>1, <3>2 DEF Worker
  <2> QED
    BY <2>1, <2>2 DEF ControlInv
<1>2. CASE OnAccept
  <2>1. /\ backlog # <<>> /\ pc = "poll" /\ started_
        /\ pc' \in {"poll", "accept"} /\ (pc' = "accept" => backlog' = backlog)
        /\ UNCHANGED <<frames, ready, started_, hs_current_, worker>>
    BY <1>2 DEF OnAccept, queues
  <2> QED
    BY <2>1 DEF ControlInv
<1>3. CASE AcceptPush \/ AcceptFails \/ OnHandshakeComplete
  BY <1>3 DEF AcceptPush, AcceptFails, OnHandshakeComplete, ControlInv, queues
<1>4. CASE SwapDone \/ TakeReady \/ CallbackReturn
  <2>1. CASE SwapDone
    BY <2>1, StackFacts, SMT DEF SwapDone, ControlInv
  <2>2. CASE TakeReady
    <3>1. /\ pc = "ready" /\ frames = <<>> /\ frames' = <<>>
          /\ pc' \in {"poll", "ready", "callback"} /\ (pc' = "poll" => ready' = <<>>)
          /\ UNCHANGED <<started_, backlog, hs_current_, worker>>
      BY <2>2 DEF TakeReady, FinishAccept, ControlInv, queues
    <3> QED
      BY <3>1, SMT DEF ControlInv
  <2>3. CASE CallbackReturn
    BY <2>3 DEF CallbackReturn, ControlInv, queues
  <2> QED
    BY <1>4, <2>1, <2>2, <2>3
<1>5. ASSUME NEW c \in Clients, OnConnSocket(c) \/ CloseConn(c) \/ StopRemove(c)
      PROVE  ControlInv'
  <2>1. /\ UNCHANGED <<frames, ready, started_, backlog, hs_current_, worker>>
        /\ pc' = pc \/ (pc = "stopremove" /\ pc' = "closecb")
    BY <1>5 DEF OnConnSocket, CloseConn, StopRemove, queues
  <2> QED
    BY <2>1 DEF ControlInv
<1>6. ASSUME NEW c \in Clients, ClientConnect(c) \/ ClientLeaves(c)
      PROVE  ControlInv'
  <2>1. /\ UNCHANGED <<frames, ready, started_, hs_current_, worker, pc>>
        /\ backlog # <<>> => backlog' # <<>>
    BY <1>6, AppendQueue DEF ClientConnect, ClientLeaves, queues, Types
  <2> QED
    BY <2>1 DEF ControlInv
<1>7. CASE Start \/ StartFails
  <2>1. /\ UNCHANGED <<frames, ready, backlog, hs_current_, pc>>
        /\ pc \in {"poll", "callback", "closecb"} /\ ~started_
    BY <1>7, RestartAssumption DEF Start, StartFails, queues
  <2>2. hs_current_ = NoClient /\ worker' \in {worker, "wait"} /\ worker = "none"
    BY <1>7, <2>1 DEF Start, StartFails, StopInv, ControlInv
  <2> QED
    BY <2>1, <2>2 DEF ControlInv
<1>8. CASE Stop
  <2>1. /\ pc \in {"poll", "callback", "closecb"} /\ closing \in SUBSET Clients
        /\ frames' = <<[pc |-> pc, closing |-> closing]>> \o frames
        /\ pc' = "join" /\ started_' = FALSE
        /\ UNCHANGED <<ready, backlog, hs_current_, worker>>
    BY <1>8 DEF Stop, queues, Types
  <2>2. /\ frames' # <<>> /\ Len(frames') = Len(frames) + 1
        /\ DOMAIN frames' = 1 .. Len(frames) + 1
        /\ frames'[1].pc = pc
        /\ \A k \in DOMAIN frames' : k # 1 => k - 1 \in DOMAIN frames /\ frames'[k] = frames[k - 1]
    BY <2>1, PushFacts, SMT
  <2>3. frames = <<>> <=> Len(frames) = 0
    BY StackFacts, SMT DEF Types
  <2>4. ASSUME NEW k \in DOMAIN frames'
        PROVE  /\ frames'[k].pc = "closecb" <=> k < Len(frames')
               /\ frames'[k].pc = "poll" => ready' = <<>>
    <3>1. CASE k = 1
      BY <2>1, <2>2, <2>3, <3>1, StackFacts, SMT DEF ControlInv
    <3>2. CASE k # 1
      <4>1. k - 1 \in DOMAIN frames /\ frames'[k] = frames[k - 1]
        BY <2>2, <3>2
      <4>2. k - 1 < Len(frames) <=> k < Len(frames')
        BY <2>2, StackFacts, SMT
      <4> QED
        BY <2>1, <4>1, <4>2 DEF ControlInv
    <3> QED
      BY <3>1, <3>2
  <2> QED
    BY <2>1, <2>2, <2>4 DEF ControlInv
<1>9. CASE StopJoined
  BY <1>9 DEF StopJoined, ControlInv
<1>10. CASE StopReturn
  <2>1. /\ pc = "stopremove" /\ frames # <<>>
        /\ pc' = frames[1].pc /\ frames' = Tail(frames)
        /\ UNCHANGED <<ready, started_, backlog, hs_current_, worker>>
    BY <1>10, StackFacts DEF StopReturn, ControlInv, queues
  <2>2. /\ Len(frames') = Len(frames) - 1 /\ 1 \in DOMAIN frames
        /\ frames' = <<>> <=> Len(frames) = 1
        /\ \A k \in DOMAIN frames' : /\ frames'[k] = frames[k + 1] /\ k + 1 \in DOMAIN frames
                                     /\ k \in Nat
    BY <2>1, StackFacts, SMT
  <2>3. frames[1].pc \in {"poll", "callback", "closecb"} /\ Len(frames) \in Nat \ {0}
    BY <2>2, StackFacts, SMT
  <2>4. frames' = <<>> <=> pc' \in NoStop
    BY <2>1, <2>2, <2>3, SMT DEF ControlInv
  <2>5. pc' = "poll" => ready' = <<>>
    BY <2>1, <2>2 DEF ControlInv
  <2>6. ASSUME NEW k \in DOMAIN frames'
        PROVE  /\ frames'[k].pc = "closecb" <=> k < Len(frames')
               /\ frames'[k].pc = "poll" => ready' = <<>>
    <3>1. k + 1 < Len(frames) <=> k < Len(frames')
      BY <2>2, <2>3, SMT
    <3> QED
      BY <2>1, <2>2, <3>1 DEF ControlInv
  <2> QED
    BY <2>1, <2>3, <2>4, <2>5, <2>6 DEF ControlInv
<1> QED
  BY <1>1, <1>2, <1>3, <1>4, <1>5, <1>6, <1>7, <1>8, <1>9, <1>10
     DEF Next, Loop, Environment

(* Every step keeps what Stop leaves behind.                               *)
LEMMA StopStep ==
  ASSUME Inv, Next
  PROVE  StopInv'
<1> USE DEF Inv, NoStop
<1>1. CASE Worker
  <2>1. started_ \/ pc = "join"
    BY <1>1 DEF Worker, WorkerTake, WorkerExit, Handshake, HandshakeEnd, WorkerNotify, StopInv
  <2>2. UNCHANGED <<pc, frames, started_, conns_, closing, path>>
    BY <1>1 DEF Worker, WorkerTake, WorkerExit, Handshake, HandshakeEnd, WorkerNotify
  <2> QED
    BY <2>1, <2>2 DEF StopInv
<1>2. CASE OnAccept \/ AcceptPush \/ AcceptFails \/ OnHandshakeComplete \/ SwapDone
  <2>1. started_ /\ pc \in NoStop /\ pc' \in NoStop /\ UNCHANGED <<started_, frames>>
    BY <1>2 DEF OnAccept, AcceptPush, AcceptFails, OnHandshakeComplete, SwapDone, ControlInv
  <2> QED
    BY <2>1, SMT DEF StopInv, ControlInv
<1>3. CASE TakeReady
  <2>1. /\ pc = "ready" /\ pc' \in NoStop /\ frames = <<>>
        /\ UNCHANGED <<started_, frames, worker, hs_pending_, hs_done_, listening, path>>
        /\ ~started_ => UNCHANGED conns_
    BY <1>3 DEF TakeReady, FinishAccept, ControlInv, queues
  <2> QED
    BY <2>1, SMT DEF StopInv
<1>4. CASE CallbackReturn
  BY <1>4 DEF CallbackReturn, StopInv, queues
<1>5. ASSUME NEW c \in Clients, OnConnSocket(c) \/ CloseConn(c) \/ StopRemove(c)
      PROVE  StopInv'
  <2>1. conns_' = conns_ \ {c}
    BY <1>5 DEF OnConnSocket, CloseConn, StopRemove, RemoveConn
  <2>2. UNCHANGED <<started_, frames, worker, hs_pending_, hs_done_, listening, path>>
    BY <1>5 DEF OnConnSocket, CloseConn, StopRemove, queues
  <2>3. \/ UNCHANGED <<pc, closing>>
        \/ pc = "stopremove" /\ pc' \in {"stopremove", "closecb"} /\ closing' = closing \ {c}
    BY <1>5 DEF OnConnSocket, CloseConn, StopRemove
  <2> QED
    BY <2>1, <2>2, <2>3 DEF StopInv
<1>6. ASSUME NEW c \in Clients, ClientConnect(c) \/ ClientLeaves(c)
      PROVE  StopInv'
  BY <1>6, SMT DEF ClientConnect, ClientLeaves, StopInv, queues
<1>7. CASE Start \/ StartFails
  <2>1. CASE Start
    BY <2>1 DEF Start, StopInv
  <2>2. CASE StartFails
    <3>1. /\ path' = FALSE
          /\ UNCHANGED <<started_, pc, worker, hs_pending_, hs_done_, listening, conns_,
                         closing, frames>>
      BY <2>2 DEF StartFails, queues
    <3> QED
      BY <3>1 DEF StopInv
  <2> QED
    BY <1>7, <2>1, <2>2
<1>8. CASE Stop
  <2>1. /\ pc \in {"poll", "callback", "closecb"} /\ closing \in SUBSET Clients
        /\ frames' = <<[pc |-> pc, closing |-> closing]>> \o frames
        /\ pc' = "join" /\ UNCHANGED conns_
    BY <1>8 DEF Stop, Types
  <2>2. /\ frames'[1] = [pc |-> pc, closing |-> closing]
        /\ \A k \in DOMAIN frames' : k # 1 => k - 1 \in DOMAIN frames /\ frames'[k] = frames[k - 1]
    BY <2>1, PushFacts, SMT
  <2>3. ASSUME NEW k \in DOMAIN frames', frames'[k].pc = "closecb"
        PROVE  conns_' \subseteq frames'[k].closing
    <3>1. CASE k = 1
      <4>1. pc = "closecb" /\ frames'[k].closing = closing
        BY <2>2, <2>3, <3>1, SMT
      <4> QED
        BY <2>1, <4>1 DEF StopInv
    <3>2. CASE k # 1
      <4>1. k - 1 \in DOMAIN frames /\ frames'[k] = frames[k - 1]
        BY <2>2, <3>2
      <4> QED
        BY <2>1, <2>3, <4>1 DEF StopInv
    <3> QED
      BY <3>1, <3>2
  <2> QED
    BY <2>1, <2>3 DEF StopInv
<1>9. CASE StopJoined
  BY <1>9 DEF StopJoined, StopInv
<1>10. CASE StopReturn
  <2>1. /\ pc = "stopremove" /\ conns_ = {} /\ path' = FALSE /\ frames # <<>>
        /\ frames' = Tail(frames)
        /\ UNCHANGED <<started_, worker, hs_pending_, hs_done_, listening, conns_>>
    BY <1>10 DEF StopReturn, StopInv, ControlInv, queues
  <2> QED
    BY <2>1 DEF StopInv
<1> QED
  BY <1>1, <1>2, <1>3, <1>4, <1>5, <1>6, <1>7, <1>8, <1>9, <1>10
     DEF Next, Loop, Environment

(* Every step keeps each client in one place.                              *)
LEMMA OwnerStep ==
  ASSUME Inv, Next
  PROVE  OwnerInv'
<1> USE DEF Inv
<1>1. CASE WorkerTake
  <2>1. /\ Elems(hs_pending_') \subseteq Elems(hs_pending_) /\ Once(hs_pending_')
        /\ Head(hs_pending_) \in Elems(hs_pending_)
        /\ Head(hs_pending_) \notin Elems(hs_pending_')
    BY <1>1, TailQueue DEF WorkerTake, Types, OwnerInv
  <2>2. Current' \subseteq {Head(hs_pending_)}
    BY <1>1 DEF WorkerTake, Current
  <2>3. UNCHANGED <<backlog, hs_done_, ready, used, opens, conns_>>
    BY <1>1 DEF WorkerTake, clients, callbacks
  <2> QED
    BY <2>1, <2>2, <2>3, SMT DEF OwnerInv
<1>2. CASE HandshakeEnd
  <2>1. hs_current_ \in Clients /\ Current = {hs_current_} /\ Current' = {}
    BY <1>2 DEF HandshakeEnd, ControlInv, Types, Current
  <2>2. Once(hs_done_') /\ Elems(hs_done_') \subseteq Elems(hs_done_) \cup {hs_current_}
    <3>1. hs_current_ \notin Elems(hs_done_) /\ Once(hs_done_)
      BY <2>1 DEF OwnerInv
    <3> QED
      BY <1>2, <2>1, <3>1, AppendQueue DEF HandshakeEnd, Types
  <2>3. UNCHANGED <<backlog, hs_pending_, ready, used, opens, conns_>>
    BY <1>2 DEF HandshakeEnd, clients, callbacks
  <2> QED
    BY <2>1, <2>2, <2>3 DEF OwnerInv
<1>3. CASE OnAccept
  <2>1. backlog # <<>> /\ backlog' \in {backlog, Tail(backlog)}
    BY <1>3 DEF OnAccept
  <2>2. Once(backlog') /\ Elems(backlog') \subseteq Elems(backlog)
    <3>1. Once(backlog) /\ Once(Tail(backlog)) /\ Elems(Tail(backlog)) \subseteq Elems(backlog)
      BY <2>1, TailQueue DEF Types, OwnerInv
    <3>2. CASE backlog' = backlog
      BY <3>1, <3>2
    <3>3. CASE backlog' = Tail(backlog)
      BY <3>1, <3>3
    <3> QED
      BY <2>1, <3>2, <3>3
  <2>3. UNCHANGED <<hs_pending_, hs_current_, hs_done_, ready, used, opens, conns_>>
    BY <1>3 DEF OnAccept, queues, clients, callbacks
  <2> QED
    BY <2>2, <2>3 DEF OwnerInv, Current
<1>4. CASE AcceptPush
  <2>1. backlog # <<>>
    BY <1>4 DEF AcceptPush, ControlInv
  <2> DEFINE c == Head(backlog)
  <2>2. /\ Elems(backlog') \subseteq Elems(backlog) /\ Once(backlog')
        /\ c \in Clients /\ c \in Elems(backlog) /\ c \notin Elems(backlog')
    BY <1>4, <2>1, TailQueue DEF AcceptPush, Types, OwnerInv
  <2>3. hs_pending_' = Append(hs_pending_, c)
    BY <1>4 DEF AcceptPush
  <2> HIDE DEF c
  <2>4. Once(hs_pending_') /\ Elems(hs_pending_') = Elems(hs_pending_) \cup {c}
    <3>1. c \notin Elems(hs_pending_) /\ Once(hs_pending_)
      BY <2>2 DEF OwnerInv
    <3> QED
      BY <2>2, <2>3, <3>1, AppendQueue DEF Types
  <2>5. UNCHANGED <<hs_current_, hs_done_, ready, used, opens, conns_>>
    BY <1>4 DEF AcceptPush, clients, callbacks
  <2> QED
    BY <2>2, <2>4, <2>5, SMTT(30) DEF OwnerInv, Current
<1>5. CASE SwapDone
  <2>1. ready' = hs_done_ /\ hs_done_' = <<>>
    BY <1>5 DEF SwapDone
  <2>2. UNCHANGED <<backlog, hs_pending_, hs_current_, used, opens, conns_>>
    BY <1>5 DEF SwapDone, clients, callbacks
  <2> QED
    BY <2>1, <2>2, EmptyQueue DEF OwnerInv, Current
<1>6. CASE TakeReady
  <2>1. UNCHANGED <<backlog, hs_pending_, hs_current_, hs_done_, used>>
    BY <1>6 DEF TakeReady, queues, clients
  <2>2. CASE ready' = <<>> /\ UNCHANGED <<conns_, opens>>
    BY <2>1, <2>2, EmptyQueue DEF OwnerInv, Current
  <2>3. CASE ready # <<>> /\ ready' = Tail(ready) /\ FinishAccept(Head(ready))
    <3> DEFINE c == Head(ready)
    <3>1. /\ Elems(ready') \subseteq Elems(ready) /\ Once(ready')
          /\ c \in Elems(ready) /\ c \notin Elems(ready')
      BY <2>3, TailQueue DEF Types, OwnerInv
    <3>2. \/ UNCHANGED <<conns_, opens>>
          \/ conns_' = conns_ \cup {c} /\ opens' = opens \cup {c}
      BY <2>3 DEF FinishAccept
    <3> HIDE DEF c
    <3> QED
      BY <2>1, <3>1, <3>2, SMTT(30) DEF OwnerInv, Current
  <2> QED
    BY <1>6, <2>2, <2>3 DEF TakeReady
<1>7. ASSUME NEW c \in Clients, ClientConnect(c) PROVE OwnerInv'
  <2>1. /\ c \notin used /\ used' = used \cup {c} /\ backlog' = Append(backlog, c)
        /\ UNCHANGED <<hs_pending_, hs_current_, hs_done_, ready, opens, conns_>>
    BY <1>7 DEF ClientConnect, queues, callbacks
  <2>2. c \notin Elems(backlog) /\ Once(backlog)
    BY <2>1 DEF OwnerInv
  <2>3. Once(backlog') /\ Elems(backlog') = Elems(backlog) \cup {c}
    BY <2>1, <2>2, AppendQueue DEF Types
  <2> QED
    BY <2>1, <2>3, SMTT(30) DEF OwnerInv, Current
<1>8. ASSUME NEW c \in Clients, OnConnSocket(c) \/ CloseConn(c) \/ StopRemove(c)
      PROVE  OwnerInv'
  <2>1. conns_' = conns_ \ {c}
    BY <1>8 DEF OnConnSocket, CloseConn, StopRemove, RemoveConn
  <2>2. UNCHANGED <<backlog, queues, ready, used, opens>>
    BY <1>8 DEF OnConnSocket, CloseConn, StopRemove, clients
  <2> QED
    BY <2>1, <2>2 DEF OwnerInv, Current, queues
<1>9. CASE StopJoined
  <2>1. /\ backlog' = <<>> /\ hs_pending_' = <<>> /\ hs_done_' = <<>> /\ hs_current_' = NoClient
        /\ UNCHANGED <<ready, used, opens, conns_>>
    BY <1>9 DEF StopJoined, clients, callbacks
  <2>2. Current' = {}
    BY <2>1 DEF Current
  <2> QED
    BY <2>1, <2>2, EmptyQueue DEF OwnerInv
<1>10. CASE UNCHANGED <<backlog, queues, ready, used, opens, conns_>>
  BY <1>10 DEF OwnerInv, Current, queues
<1>11. ASSUME \/ WorkerExit \/ Handshake \/ WorkerNotify \/ AcceptFails \/ OnHandshakeComplete
              \/ CallbackReturn \/ Start \/ StartFails \/ Stop \/ StopReturn
              \/ \E c \in Clients : ClientLeaves(c)
       PROVE  UNCHANGED <<backlog, queues, ready, used, opens, conns_>>
  BY <1>11 DEF WorkerExit, Handshake, WorkerNotify, AcceptFails, OnHandshakeComplete, CallbackReturn,
     Start, StartFails, Stop, StopReturn, ClientLeaves, clients, callbacks
<1> QED
  BY <1>1, <1>2, <1>3, <1>4, <1>5, <1>6, <1>7, <1>8, <1>9, <1>10, <1>11
     DEF Next, Worker, Loop, Environment

(* A Start appends the place it was called from.                           *)
LEMMA OutsideStart ==
  ASSUME Types, starts' = Append(starts, pc), Outside'
  PROVE  Outside /\ pc = "poll"
<1>1. /\ DOMAIN starts = 1 .. Len(starts) /\ Len(starts) \in Nat
      /\ DOMAIN starts' = 1 .. Len(starts) + 1
      /\ \A n \in 1 .. Len(starts) : starts'[n] = starts[n]
      /\ starts'[Len(starts) + 1] = pc
  BY SMT DEF Types
<1>2. \A n \in DOMAIN starts' : starts'[n] = "poll"
  BY DEF Outside
<1>3. pc = "poll"
  BY <1>1, <1>2, SMT
<1>4. \A n \in 1 .. Len(starts) : n \in DOMAIN starts'
  BY <1>1, SMT
<1> QED
  BY <1>1, <1>2, <1>3, <1>4 DEF Outside

(* Every step keeps what Stop voided out of the server.                    *)
LEMMA VoidStep ==
  ASSUME Inv, Next
  PROVE  VoidInv'
<1> USE DEF Inv, NoStop
<1>1. CASE Worker
  <2>1. UNCHANGED <<void, starts, conns_, started_, pc, path, listening, used, backlog, ready>>
    BY <1>1 DEF Worker, WorkerTake, WorkerExit, Handshake, HandshakeEnd, WorkerNotify, clients
  <2>2. Elems(hs_pending_') \cup Current' \cup Elems(hs_done_')
          \subseteq Elems(hs_pending_) \cup Current \cup Elems(hs_done_)
    <3>1. CASE WorkerTake
      <4>1. /\ Elems(hs_pending_') \subseteq Elems(hs_pending_)
            /\ Head(hs_pending_) \in Elems(hs_pending_)
        BY <3>1, TailQueue DEF WorkerTake, Types
      <4>2. Current' \subseteq {Head(hs_pending_)} /\ UNCHANGED hs_done_
        BY <3>1 DEF WorkerTake, Current
      <4> QED
        BY <4>1, <4>2
    <3>2. CASE HandshakeEnd
      <4>1. hs_current_ \in Clients /\ Current = {hs_current_} /\ Current' = {}
        BY <3>2 DEF HandshakeEnd, ControlInv, Types, Current
      <4>2. Elems(hs_done_') \subseteq Elems(hs_done_) \cup {hs_current_} /\ UNCHANGED hs_pending_
        BY <3>2, <4>1, AppendQueue DEF HandshakeEnd, Types
      <4> QED
        BY <4>1, <4>2
    <3>3. CASE WorkerExit \/ Handshake \/ WorkerNotify
      BY <3>3 DEF WorkerExit, Handshake, WorkerNotify, queues, Current
    <3> QED
      BY <1>1, <3>1, <3>2, <3>3 DEF Worker
  <2> QED
    BY <2>1, <2>2 DEF VoidInv, Outside
<1>2. CASE OnAccept
  <2>1. /\ backlog # <<>> /\ backlog' \in {backlog, Tail(backlog)}
        /\ pc = "poll" /\ pc' \in {"poll", "accept"}
        /\ UNCHANGED <<void, starts, conns_, started_, path, listening, used, queues, ready>>
    BY <1>2 DEF OnAccept, clients
  <2>2. Elems(Tail(backlog)) \subseteq Elems(backlog)
    BY <2>1, TailQueue DEF Types
  <2>3. Elems(backlog') \subseteq Elems(backlog)
    BY <2>1, <2>2
  <2> QED
    BY <2>1, <2>3 DEF VoidInv, Outside, queues, Current
<1>3. CASE AcceptPush
  <2>1. /\ backlog # <<>> /\ pc = "accept" /\ pc' = "poll"
        /\ backlog' = Tail(backlog) /\ hs_pending_' = Append(hs_pending_, Head(backlog))
        /\ UNCHANGED <<void, starts, conns_, started_, path, listening, used, hs_current_,
                       hs_done_, ready>>
    BY <1>3 DEF AcceptPush, ControlInv, clients
  <2>2. /\ Elems(backlog') \subseteq Elems(backlog)
        /\ Head(backlog) \in Elems(backlog) /\ Head(backlog) \in Clients
    BY <2>1, TailQueue DEF Types
  <2>3. Elems(hs_pending_') = Elems(hs_pending_) \cup {Head(backlog)}
    BY <2>1, <2>2, AppendQueue DEF Types
  <2> QED
    BY <2>1, <2>2, <2>3, SMT DEF VoidInv, Outside, Current
<1>4. CASE AcceptFails \/ OnHandshakeComplete \/ SwapDone
  <2>1. /\ pc \in NoStop /\ pc' \in NoStop
        /\ UNCHANGED <<void, starts, conns_, started_, path, listening, used, hs_current_,
                       hs_pending_, backlog>>
        /\ \/ UNCHANGED <<hs_done_, ready>>
           \/ ready' = hs_done_ /\ hs_done_' = <<>>
    BY <1>4 DEF AcceptFails, OnHandshakeComplete, SwapDone, queues, clients
  <2> QED
    BY <2>1, EmptyQueue DEF VoidInv, Outside, Current
<1>5. CASE TakeReady
  <2>1. /\ pc \in NoStop /\ pc' \in NoStop
        /\ UNCHANGED <<void, starts, started_, path, listening, used, queues, backlog>>
    BY <1>5 DEF TakeReady, FinishAccept, clients
  <2>2. \/ ready' = <<>> /\ UNCHANGED conns_
        \/ /\ started_ /\ ready # <<>> /\ ready' = Tail(ready)
           /\ conns_' \subseteq conns_ \cup {Head(ready)}
    BY <1>5 DEF TakeReady, FinishAccept
  <2>3. ready # <<>> => Elems(Tail(ready)) \subseteq Elems(ready) /\ Head(ready) \in Elems(ready)
    BY TailQueue DEF Types
  <2>4. /\ Elems(ready') \subseteq Elems(ready)
        /\ \/ UNCHANGED conns_
           \/ started_ /\ conns_' \subseteq conns_ \cup Elems(ready)
    BY <2>2, <2>3, EmptyQueue
  <2> QED
    BY <2>1, <2>4 DEF VoidInv, Outside, queues, Current
<1>6. CASE CallbackReturn \/ StopReturn
  <2>1. /\ UNCHANGED <<void, starts, conns_, started_, listening, used, queues, ready, backlog>>
        /\ \/ pc = "callback" /\ pc' = "ready" /\ UNCHANGED path
           \/ pc \in {"closecb", "stopremove"}
    BY <1>6 DEF CallbackReturn, StopReturn, clients
  <2> QED
    BY <2>1 DEF VoidInv, Outside, queues, Current
<1>7. ASSUME NEW c \in Clients, OnConnSocket(c) \/ CloseConn(c) \/ StopRemove(c)
      PROVE  VoidInv'
  <2>1. conns_' \subseteq conns_
    BY <1>7 DEF OnConnSocket, CloseConn, StopRemove, RemoveConn
  <2>2. /\ UNCHANGED <<void, starts, started_, path, listening, used, queues, ready, backlog>>
        /\ UNCHANGED pc \/ pc = "stopremove"
    BY <1>7 DEF OnConnSocket, CloseConn, StopRemove, clients
  <2> QED
    BY <2>1, <2>2 DEF VoidInv, Outside, queues, Current
<1>8. ASSUME NEW c \in Clients, ClientConnect(c) \/ ClientLeaves(c)
      PROVE  VoidInv'
  <2>1. /\ UNCHANGED <<void, starts, conns_, started_, pc, path, listening, queues, ready>>
        /\ \/ UNCHANGED <<used, backlog>>
           \/ c \notin used /\ used' = used \cup {c} /\ backlog' = Append(backlog, c)
    BY <1>8 DEF ClientConnect, ClientLeaves
  <2>2. Elems(Append(backlog, c)) = Elems(backlog) \cup {c}
    BY AppendQueue DEF Types
  <2> QED
    BY <2>1, <2>2 DEF VoidInv, Outside, queues, Current
<1>9. CASE Start \/ StartFails
  <2>1. /\ UNCHANGED <<void, conns_, pc, used, queues, ready, backlog>>
        /\ starts' = Append(starts, pc) /\ ~started_
        /\ (path' = TRUE /\ listening' = TRUE) \/ started_' = started_
    <3>1. CASE Start
      BY <3>1 DEF Start, clients
    <3>2. CASE StartFails
      BY <3>2 DEF StartFails, clients
    <3> QED
      BY <1>9, <3>1, <3>2
  <2>2. Outside' => Outside /\ pc = "poll"
    BY <2>1, OutsideStart
  <2>3. ASSUME pc = "poll"
        PROVE  ready = <<>> /\ hs_pending_ = <<>> /\ hs_done_ = <<>> /\ Current = {}
    BY <2>1, <2>3 DEF ControlInv, StopInv, Current
  <2> QED
    BY <2>1, <2>2, <2>3, EmptyQueue, SMT DEF VoidInv, queues, Current
<1>10. CASE Stop
  <2>1. /\ started_' = FALSE /\ UNCHANGED <<starts, conns_, used, backlog>>
        /\ void' = void \cup Elems(hs_pending_) \cup Current \cup Elems(hs_done_) \cup Elems(ready)
    BY <1>10 DEF Stop, clients, Current
  <2> QED
    BY <2>1 DEF VoidInv, Outside, OwnerInv
<1>11. CASE StopJoined
  <2>1. ~started_' /\ backlog' = <<>> /\ UNCHANGED <<void, starts, conns_, used>>
    BY <1>11 DEF StopJoined, ControlInv, clients
  <2> QED
    BY <2>1, EmptyQueue DEF VoidInv, Outside
<1> QED
  BY <1>1, <1>2, <1>3, <1>4, <1>5, <1>6, <1>7, <1>8, <1>9, <1>10, <1>11
     DEF Next, Loop, Environment

(* Seats that a step frees or moves on are not taken twice.                *)
LEMMA SeatStep ==
  ASSUME Inv, Next
  PROVE  SeatInv'
<1> USE DEF Inv
<1> DEFINE n == Cardinality(conns_)
           cur == IF hs_current_ # NoClient THEN 1 ELSE 0
           acc == IF pc = "accept" THEN 1 ELSE 0
<1>1. /\ n \in Nat /\ cur \in 0 .. 1 /\ acc \in 0 .. 1 /\ max_clients \in Nat
      /\ Len(hs_pending_) \in Nat /\ Len(hs_done_) \in Nat /\ Len(ready) \in Nat
  BY FS_CardinalityType, LimitAssumption, SMT DEF SeatInv, Types
<1>2. n + (Len(hs_pending_) + Len(hs_done_) + cur) + Len(ready) + acc <= max_clients
  BY DEF SeatInv, SeatLimit, Inflight
<1>3. SUFFICES /\ IsFiniteSet(conns_')
               /\ n' + (Len(hs_pending_') + Len(hs_done_') + cur') + Len(ready') + acc'
                    <= max_clients
  BY DEF SeatInv, SeatLimit, Inflight
<1>4. IsFiniteSet(conns_)
  BY DEF SeatInv
<1>5. conns_' = conns_ => IsFiniteSet(conns_') /\ n' = n
  BY <1>4
<1>6. (hs_current_' = hs_current_ => cur' = cur) /\ (pc' = pc => acc' = acc)
  OBVIOUS
<1>7. (pc' # "accept" => acc' = 0) /\ acc' \in 0 .. 1 /\ cur' \in 0 .. 1
  BY SMT
<1>8. (hs_current_' = NoClient => cur' = 0) /\ (hs_current_ # NoClient => cur = 1)
      /\ (hs_current_ = NoClient => cur = 0) /\ (pc = "accept" => acc = 1)
  OBVIOUS
<1> HIDE DEF n, cur, acc
<1>9. CASE WorkerTake
  <2>1. hs_current_ = NoClient /\ hs_pending_ # <<>> /\ hs_pending_' = Tail(hs_pending_)
        /\ UNCHANGED <<conns_, hs_done_, ready, pc>>
    BY <1>9 DEF WorkerTake, ControlInv
  <2>2. Len(hs_pending_') = Len(hs_pending_) - 1
    BY <2>1, TailQueue DEF Types
  <2>3. /\ IsFiniteSet(conns_') /\ n' = n /\ acc' = acc /\ cur = 0
        /\ Len(hs_done_') = Len(hs_done_) /\ Len(ready') = Len(ready)
    BY <1>5, <1>6, <1>8, <2>1
  <2> QED
    BY <1>1, <1>2, <1>7, <2>2, <2>3, SMTT(30)
<1>10. CASE HandshakeEnd
  <2>1. hs_current_ # NoClient /\ hs_current_' = NoClient
        /\ UNCHANGED <<conns_, hs_pending_, ready, pc>>
    BY <1>10 DEF HandshakeEnd, ControlInv
  <2>2. Len(hs_done_') \in {Len(hs_done_), Len(hs_done_) + 1}
    <3>1. hs_done_' \in {hs_done_, Append(hs_done_, hs_current_)} /\ hs_current_ \in Clients
      BY <1>10, <2>1 DEF HandshakeEnd, Types
    <3>2. Len(Append(hs_done_, hs_current_)) = Len(hs_done_) + 1
      BY <3>1, AppendQueue DEF Types
    <3> QED
      BY <3>1, <3>2
  <2> QED
    BY <1>1, <1>2, <1>5, <1>6, <1>8, <2>1, <2>2, SMT
<1>11. CASE OnAccept
  <2>1. /\ UNCHANGED <<conns_, hs_pending_, hs_done_, hs_current_, ready>> /\ pc = "poll"
        /\ pc' = pc \/ ~(n + (Len(hs_pending_) + Len(hs_done_) + cur) >= max_clients)
    BY <1>11 DEF OnAccept, queues, Inflight, n, cur
  <2>2. ready = <<>>
    BY <2>1 DEF ControlInv
  <2> QED
    BY <1>1, <1>2, <1>5, <1>6, <1>7, <2>1, <2>2, EmptyQueue, SMTT(30)
<1>12. CASE AcceptPush
  <2>1. /\ UNCHANGED <<conns_, hs_done_, hs_current_, ready>> /\ pc = "accept" /\ pc' = "poll"
        /\ hs_pending_' = Append(hs_pending_, Head(backlog)) /\ backlog # <<>>
    BY <1>12 DEF AcceptPush, ControlInv
  <2>2. Head(backlog) \in Clients
    BY <2>1, TailQueue DEF Types
  <2>3. Len(hs_pending_') = Len(hs_pending_) + 1
    BY <2>1, <2>2, AppendQueue DEF Types
  <2> QED
    BY <1>1, <1>2, <1>5, <1>6, <1>7, <1>8, <2>1, <2>3, SMTT(30)
<1>13. CASE SwapDone
  <2>1. /\ UNCHANGED <<conns_, hs_pending_, hs_current_>> /\ pc' # "accept"
        /\ ready = <<>> /\ ready' = hs_done_ /\ hs_done_' = <<>>
    BY <1>13 DEF SwapDone, ControlInv
  <2> QED
    BY <1>1, <1>2, <1>5, <1>6, <1>7, <2>1, EmptyQueue, SMT
<1>14. CASE TakeReady
  <2>1. /\ UNCHANGED <<hs_pending_, hs_done_, hs_current_>> /\ pc' # "accept"
        /\ \/ ready' = <<>> /\ UNCHANGED conns_
           \/ /\ ready # <<>> /\ ready' = Tail(ready)
              /\ conns_' = conns_ \/ conns_' = conns_ \cup {Head(ready)}
    BY <1>14 DEF TakeReady, FinishAccept, queues
  <2>2. CASE ready' = <<>> /\ UNCHANGED conns_
    BY <1>1, <1>2, <1>5, <1>6, <1>7, <2>1, <2>2, EmptyQueue, SMT
  <2>3. CASE /\ ready # <<>> /\ ready' = Tail(ready)
             /\ conns_' = conns_ \/ conns_' = conns_ \cup {Head(ready)}
    <3>1. Len(ready') = Len(ready) - 1
      BY <2>3, TailQueue DEF Types
    <3>2. IsFiniteSet(conns_') /\ n' \in {n, n + 1}
      BY <1>4, <2>3, FS_AddElement DEF n
    <3> QED
      BY <1>1, <1>2, <1>6, <1>7, <2>1, <3>1, <3>2, SMT
  <2> QED
    BY <2>1, <2>2, <2>3
<1>15. ASSUME NEW c \in Clients, OnConnSocket(c) \/ CloseConn(c) \/ StopRemove(c)
       PROVE  /\ IsFiniteSet(conns_')
              /\ n' + (Len(hs_pending_') + Len(hs_done_') + cur') + Len(ready') + acc'
                   <= max_clients
  <2>1. conns_' = conns_ \ {c}
    BY <1>15 DEF OnConnSocket, CloseConn, StopRemove, RemoveConn
  <2>2. UNCHANGED <<hs_pending_, hs_done_, hs_current_, ready>> /\ pc' # "accept"
    BY <1>15 DEF OnConnSocket, CloseConn, StopRemove, queues
  <2>3. IsFiniteSet(conns_') /\ n' \in {n, n - 1}
    BY <1>4, <2>1, FS_RemoveElement DEF n
  <2> QED
    BY <1>1, <1>2, <1>6, <1>7, <2>2, <2>3, SMT
<1>16. CASE StopJoined
  <2>1. /\ hs_pending_' = <<>> /\ hs_done_' = <<>> /\ hs_current_' = NoClient
        /\ pc' # "accept" /\ UNCHANGED <<conns_, ready>>
    BY <1>16 DEF StopJoined
  <2> QED
    BY <1>1, <1>2, <1>5, <1>7, <1>8, <2>1, EmptyQueue, SMTT(30)
<1>17. ASSUME UNCHANGED <<conns_, hs_pending_, hs_done_, hs_current_, ready>>,
              pc' = pc \/ pc' # "accept"
       PROVE  /\ IsFiniteSet(conns_')
              /\ n' + (Len(hs_pending_') + Len(hs_done_') + cur') + Len(ready') + acc'
                   <= max_clients
  BY <1>1, <1>2, <1>5, <1>6, <1>7, <1>17, SMT
<1>18. CASE \/ WorkerExit \/ Handshake \/ WorkerNotify \/ AcceptFails \/ OnHandshakeComplete
            \/ CallbackReturn \/ Start \/ StartFails \/ Stop
            \/ \E c \in Clients : ClientConnect(c) \/ ClientLeaves(c)
  <2>1. /\ UNCHANGED <<conns_, hs_pending_, hs_done_, hs_current_, ready>>
        /\ pc' = pc \/ pc' # "accept"
    BY <1>18 DEF WorkerExit, Handshake, WorkerNotify, AcceptFails, OnHandshakeComplete, CallbackReturn,
       Start, StartFails, Stop, ClientConnect, ClientLeaves, queues
  <2> QED
    BY <1>17, <2>1
<1>19. CASE StopReturn
  <2>1. frames # <<>> /\ UNCHANGED <<conns_, hs_pending_, hs_done_, hs_current_, ready>>
    BY <1>19 DEF StopReturn, ControlInv, NoStop, queues
  <2>2. pc' # "accept"
    BY <1>19, <2>1, StackFacts DEF StopReturn
  <2> QED
    BY <1>17, <2>1, <2>2
<1> QED
  BY <1>9, <1>10, <1>11, <1>12, <1>13, <1>14, <1>15, <1>16, <1>18, <1>19
     DEF Next, Worker, Loop, Environment

(* A client is counted closed when it leaves conns_.                       *)
LEMMA CloseStep ==
  ASSUME Inv, Next
  PROVE  CloseOnce'
<1> USE DEF Inv
<1>1. closes \in [Clients -> Nat] /\ conns_ \subseteq opens
  BY DEF Types, OwnerInv
<1>2. CASE TakeReady
  <2>1. UNCHANGED closes
    BY <1>2 DEF TakeReady
  <2>2. CASE UNCHANGED <<conns_, opens>>
    BY <2>1, <2>2 DEF CloseOnce
  <2>3. CASE /\ ready # <<>> /\ conns_' = conns_ \cup {Head(ready)}
             /\ opens' = opens \cup {Head(ready)}
    <3>1. Head(ready) \notin opens
      BY <2>3, TailQueue DEF Types, OwnerInv
    <3>2. opens' \ conns_' = opens \ conns_
      BY <1>1, <2>3, <3>1
    <3> QED
      BY <2>1, <3>2 DEF CloseOnce
  <2> QED
    BY <1>2, <2>2, <2>3 DEF TakeReady, FinishAccept
<1>3. ASSUME NEW c \in Clients, OnConnSocket(c) \/ CloseConn(c) \/ StopRemove(c)
      PROVE  CloseOnce'
  <2>1. RemoveConn(c) /\ UNCHANGED opens
    BY <1>3 DEF OnConnSocket, CloseConn, StopRemove
  <2>2. ASSUME NEW d \in Clients
        PROVE  closes'[d] = IF d \in opens' \ conns_' THEN 1 ELSE 0
    <3>1. closes[d] = IF d \in opens \ conns_ THEN 1 ELSE 0
      BY DEF CloseOnce
    <3>2. CASE d = c /\ c \in conns_
      <4>1. closes[d] = 0 /\ d \in opens' \ conns_'
        BY <1>1, <2>1, <3>1, <3>2 DEF RemoveConn
      <4>2. closes'[d] = 0 + 1
        BY <1>1, <2>1, <3>2, <4>1 DEF RemoveConn
      <4> QED
        BY <4>1, <4>2, SMT
    <3>3. CASE ~(d = c /\ c \in conns_)
      <4>1. closes'[d] = closes[d]
        BY <1>1, <2>1, <3>3 DEF RemoveConn
      <4>2. d \in opens' \ conns_' <=> d \in opens \ conns_
        BY <2>1, <3>3 DEF RemoveConn
      <4> QED
        BY <3>1, <4>1, <4>2
    <3> QED
      BY <3>2, <3>3
  <2> QED
    BY <2>2 DEF CloseOnce
<1>4. CASE UNCHANGED <<conns_, opens, closes>>
  BY <1>4 DEF CloseOnce
<1>5. ASSUME \/ Worker \/ OnAccept \/ AcceptPush \/ AcceptFails \/ OnHandshakeComplete \/ SwapDone
             \/ CallbackReturn \/ Start \/ StartFails \/ Stop \/ StopJoined \/ StopReturn
             \/ \E c \in Clients : ClientConnect(c) \/ ClientLeaves(c)
      PROVE  UNCHANGED <<conns_, opens, closes>>
  BY <1>5 DEF Worker, WorkerTake, WorkerExit, Handshake, HandshakeEnd, WorkerNotify,
     OnAccept, AcceptPush, AcceptFails, OnHandshakeComplete, SwapDone, CallbackReturn, Start,
     StartFails, Stop, StopJoined, StopReturn, ClientConnect, ClientLeaves, callbacks
<1> QED
  BY <1>2, <1>3, <1>4, <1>5 DEF Next, Loop, Environment

(* Before the first Start.                                                 *)
LEMMA InitInv == Init => Inv
<1> SUFFICES ASSUME Init PROVE Inv
  OBVIOUS
<1>1. Types
  <2>1. starts \in Seq(RestartFrom) /\ Len(starts) <= MaxStarts
    BY LimitAssumption, SMT DEF Init
  <2>2. frames \in Seq([pc : {"poll", "callback", "closecb"}, closing : SUBSET Clients])
    BY SMT DEF Init
  <2>3. closes \in [Clients -> Nat]
    BY DEF Init
  <2> QED
    BY <2>1, <2>2, <2>3, EmptyQueue DEF Init, Types, NoStop
<1>2. ControlInv /\ StopInv
  BY SMT DEF Init, ControlInv, StopInv, NoStop
<1>3. Current = {} /\ Elems(<<>>) = {} /\ Once(<<>>)
  BY EmptyQueue DEF Init, Current
<1>4. OwnerInv /\ VoidInv
  BY <1>3 DEF Init, OwnerInv, VoidInv
<1>5. SeatInv
  <2>1. Inflight = 0 /\ Len(ready) = 0 /\ pc # "accept"
    BY SMT DEF Init, Inflight
  <2>2. conns_ = {} /\ IsFiniteSet(conns_) /\ Cardinality(conns_) = 0
    BY FS_EmptySet DEF Init
  <2> QED
    BY <2>1, <2>2, LimitAssumption, SMT DEF SeatInv, SeatLimit
<1>6. CloseOnce
  BY DEF Init, CloseOnce
<1> QED
  BY <1>1, <1>2, <1>4, <1>5, <1>6 DEF Inv

(* Every step of either thread, of a client or of the application.         *)
LEMMA NextInv == Inv /\ [Next]_vars => Inv'
<1> SUFFICES ASSUME Inv, [Next]_vars PROVE Inv'
  OBVIOUS
<1>1. CASE Next
  BY <1>1, TypesStep, ControlStep, StopStep, OwnerStep, VoidStep, SeatStep, CloseStep DEF Inv
<1>2. CASE UNCHANGED vars
  <2> USE <1>2 DEF vars, queues, clients, callbacks, Inv
  <2>1. Types'
    BY ZenonT(60) DEF Types
  <2>2. ControlInv' /\ StopInv'
    BY DEF ControlInv, StopInv
  <2>3. OwnerInv' /\ VoidInv'
    BY DEF OwnerInv, VoidInv, Current, Outside
  <2>4. SeatInv'
    BY DEF SeatInv, SeatLimit, Inflight
  <2>5. CloseOnce'
    BY DEF CloseOnce
  <2> QED
    BY <2>1, <2>2, <2>3, <2>4, <2>5
<1> QED
  BY <1>1, <1>2

(* The invariant holds in every reachable state.                           *)
THEOREM Invariance == Spec => []Inv
  BY InitInv, NextInv, PTL DEF Spec

-----------------------------------------------------------------------------
(* What it implies.                                                        *)

(* Established connections and those on their way never exceed             *)
(* max_clients, for every limit and every interleaving of OnAccept with    *)
(* the handshake thread.                                                   *)
THEOREM SeatLimitCorrect == Spec => []SeatLimit
<1>1. Inv => SeatLimit
  BY DEF Inv, SeatInv
<1> QED
  BY <1>1, Invariance, PTL

(* Every connection is reported closed exactly once.                       *)
THEOREM CloseOnceCorrect == Spec => []CloseOnce
<1>1. Inv => CloseOnce
  BY DEF Inv
<1> QED
  BY <1>1, Invariance, PTL

(* Stop leaves nothing behind, and nothing accepted before it is           *)
(* established after it unless callbacks call Start.                       *)
THEOREM StopCompleteCorrect == Spec => []StopComplete
<1>1. Inv => StopComplete
  <2> SUFFICES ASSUME Inv PROVE StopComplete
    OBVIOUS
  <2>1. ASSUME pc = "poll", ~started_
        PROVE  /\ conns_ = {} /\ Inflight = 0 /\ ready = <<>>
               /\ worker = "none" /\ ~listening /\ ~path
    <3>1. /\ conns_ = {} /\ ~path /\ worker = "none" /\ ~listening
          /\ hs_pending_ = <<>> /\ hs_done_ = <<>>
      BY <2>1 DEF Inv, StopInv, NoStop
    <3>2. hs_current_ = NoClient /\ ready = <<>>
      BY <2>1, <3>1 DEF Inv, ControlInv
    <3>3. Inflight = 0
      BY <3>1, <3>2, EmptyQueue, SMT DEF Inflight
    <3> QED
      BY <3>1, <3>2, <3>3
  <2>2. Outside => conns_ \cap void = {}
    BY DEF Inv, VoidInv
  <2> QED
    BY <2>1, <2>2 DEF StopComplete
<1> QED
  BY <1>1, Invariance, PTL

(* A started server can be reached unless callbacks call Start.            *)
THEOREM ReachableOutsideCorrect == Spec => []ReachableOutside
<1>1. Inv => ReachableOutside
  BY DEF Inv, VoidInv, ReachableOutside
<1> QED
  BY <1>1, Invariance, PTL

(* Two queues without a client in common, one behind the other.            *)
LEMMA ConcatQueue ==
  ASSUME NEW s \in Seq(Clients), NEW t \in Seq(Clients), Once(s), Once(t),
         Elems(s) \cap Elems(t) = {}
  PROVE  /\ s \o t \in Seq(Clients) /\ Once(s \o t)
         /\ Elems(s \o t) = Elems(s) \cup Elems(t)
<1> DEFINE u == s \o t
           m == Len(s)
<1>1. /\ u \in Seq(Clients) /\ m \in Nat /\ Len(t) \in Nat
      /\ DOMAIN s = 1 .. m /\ DOMAIN t = 1 .. Len(t) /\ DOMAIN u = 1 .. m + Len(t)
      /\ \A k \in 1 .. m : u[k] = s[k]
      /\ \A k \in 1 .. Len(t) : u[m + k] = t[k]
  BY SMT
<1> HIDE DEF u, m
<1>2. ASSUME NEW k \in DOMAIN u
      PROVE  \/ k \in DOMAIN s /\ u[k] = s[k]
             \/ k - m \in DOMAIN t /\ u[k] = t[k - m] /\ k \in Int
  <2>1. CASE k <= m
    BY <1>1, <2>1, SMT
  <2>2. CASE k > m
    <3>1. k - m \in 1 .. Len(t) /\ m + (k - m) = k
      BY <1>1, <2>2, SMT
    <3> QED
      BY <1>1, <3>1, SMT
  <2>3. k <= m \/ k > m
    BY <1>1, SMT
  <2> QED
    BY <2>1, <2>2, <2>3
<1>3. ASSUME NEW k \in DOMAIN u, NEW l \in DOMAIN u, u[k] = u[l] PROVE k = l
  <2>1. CASE k \in DOMAIN s /\ u[k] = s[k]
    <3>1. l \in DOMAIN s /\ u[l] = s[l]
      BY <1>2, <1>3, <2>1 DEF Elems
    <3> QED
      BY <1>3, <2>1, <3>1 DEF Once
  <2>2. CASE k - m \in DOMAIN t /\ u[k] = t[k - m] /\ k \in Int
    <3>1. l - m \in DOMAIN t /\ u[l] = t[l - m] /\ l \in Int
      <4>1. u[k] \in Elems(t)
        BY <2>2 DEF Elems
      <4>2. ~(l \in DOMAIN s /\ u[l] = s[l])
        BY <1>3, <4>1 DEF Elems
      <4> QED
        BY <1>2, <4>2
    <3>2. k - m = l - m
      BY <1>3, <2>2, <3>1 DEF Once
    <3> QED
      BY <1>1, <2>2, <3>1, <3>2, SMT
  <2> QED
    BY <1>2, <2>1, <2>2
<1>4. Elems(u) = Elems(s) \cup Elems(t)
  <2>1. \A k \in DOMAIN s : k \in DOMAIN u
    BY <1>1, SMT
  <2>2. \A k \in DOMAIN t : m + k \in DOMAIN u
    BY <1>1, SMT
  <2>3. ASSUME NEW x \in Elems(s) \cup Elems(t) PROVE x \in Elems(u)
    BY <1>1, <2>1, <2>2 DEF Elems
  <2>4. ASSUME NEW x \in Elems(u) PROVE x \in Elems(s) \cup Elems(t)
    BY <1>2 DEF Elems
  <2> QED
    BY <2>3, <2>4
<1> QED
  BY <1>1, <1>3, <1>4 DEF u, Once

(* The queues behind one another are a queue without duplicates.           *)
LEMMA InvOneOwner == Inv => OneOwner
<1> SUFFICES ASSUME Inv PROVE OneOwner
  OBVIOUS
<1> USE DEF Inv
<1> DEFINE last == IF hs_current_ # NoClient THEN <<hs_current_>> ELSE <<>>
           pd == hs_pending_ \o hs_done_
           pdr == pd \o ready
           owned == pdr \o last
<1>1. TypeOK
  BY DEF Types, TypeOK, NoStop
<1>2. last \in Seq(Clients) /\ Once(last) /\ Elems(last) = Current
  <2>1. CASE hs_current_ = NoClient
    BY <2>1, EmptyQueue DEF Current
  <2>2. CASE hs_current_ # NoClient
    <3>1. hs_current_ \in Clients /\ Current = {hs_current_}
      BY <2>2 DEF Types, Current
    <3>2. Elems(<<hs_current_>>) = {hs_current_} /\ Once(<<hs_current_>>)
      BY SMT DEF Elems, Once
    <3> QED
      BY <2>2, <3>1, <3>2, SMT
  <2> QED
    BY <2>1, <2>2
<1> HIDE DEF last
<1>3. pd \in Seq(Clients) /\ Once(pd) /\ Elems(pd) = Elems(hs_pending_) \cup Elems(hs_done_)
  <2>1. Elems(hs_pending_) \cap Elems(hs_done_) = {}
    BY DEF OwnerInv
  <2> QED
    BY <2>1, ConcatQueue DEF Types, OwnerInv
<1> HIDE DEF pd
<1>4. pdr \in Seq(Clients) /\ Once(pdr) /\ Elems(pdr) = Elems(pd) \cup Elems(ready)
  <2>1. Elems(pd) \cap Elems(ready) = {}
    BY <1>3 DEF OwnerInv
  <2> QED
    BY <1>3, <2>1, ConcatQueue DEF Types, OwnerInv
<1> HIDE DEF pdr
<1>5. Once(owned) /\ Elems(owned) = Elems(pdr) \cup Current
  <2>1. Elems(pdr) \cap Elems(last) = {}
    BY <1>2, <1>3, <1>4 DEF OwnerInv
  <2> QED
    BY <1>2, <1>4, <2>1, ConcatQueue
<1>6. Elems(owned) \cap (conns_ \cup Elems(backlog)) = {}
  <2> HIDE DEF owned
  <2> QED
    BY <1>3, <1>4, <1>5 DEF OwnerInv
<1> QED
  BY <1>1, <1>5, <1>6 DEF OneOwner, Once, pd, pdr, last

(* Every accepted socket has one owner, and the state has its types.       *)
THEOREM OneOwnerCorrect == Spec => []OneOwner
  BY InvOneOwner, Invariance, PTL

=============================================================================
