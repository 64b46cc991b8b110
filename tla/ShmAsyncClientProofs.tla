------------------------ MODULE ShmAsyncClientProofs ------------------------
(***************************************************************************)
(* Proofs about ShmAsyncClient, for every set of fd numbers, every number  *)
(* of connections, timers and packages, and wherever the application calls *)
(* Connect.                                                                *)
(***************************************************************************)
EXTENDS ShmAsyncClientInv

(* Most leaves are first-order: Zenon is the prover unless one cites SMT.  *)
USE Zenon

-----------------------------------------------------------------------------
(* Connect.                                                                *)

(* t has what es has, but for more tombstones, and perhaps more.           *)
Extends(t, es) ==
  \A n \in DOMAIN es : /\ n \in DOMAIN t /\ t[n].reg = es[n].reg
                       /\ ~t[n].dead => ~es[n].dead

(* A sequence and two more elements.                                       *)
LEMMA PairAppended ==
  ASSUME NEW T, NEW s \in Seq(T), NEW a \in T, NEW b \in T, NEW t, t = s \o <<a, b>>
  PROVE  /\ t \in Seq(T) /\ Len(t) = Len(s) + 2
         /\ \A j \in DOMAIN s : j \in DOMAIN t /\ t[j] = s[j]
         /\ \A j \in DOMAIN t : j \in DOMAIN s \/ t[j] = a \/ t[j] = b
<1>1. t \in Seq(T) /\ Len(t) = Len(s) + 2
  BY SMT
<1>2. \A j \in DOMAIN s : j \in DOMAIN t /\ t[j] = s[j]
  BY SMT
<1>3. \A j \in DOMAIN t : j \in DOMAIN s \/ t[j] = a \/ t[j] = b
  BY SMT
<1> QED
  BY <1>1, <1>2, <1>3

(* The registrations of a new connection.                                  *)
LEMMA ConnRole ==
  ASSUME Inv, made < MaxConns,
         NEW k, k = made + 1, role' = role \o <<Use(k, "notify"), Use(k, "socket")>>
  PROVE  /\ Roles(role)' /\ made' = k /\ k \in Conns /\ k # 0
         /\ Len(role') = Len(role) + 2 /\ Len(role) + 2 <= MaxRegs
         /\ \A r \in DOMAIN role : r \in DOMAIN role' /\ role'[r] = role[r]
<1>1. /\ role \in Seq(Uses) /\ Len(role) \in Nat /\ made = Made(role) /\ made \in 0 .. MaxConns
      /\ Len(role) - 2 * made \in 0 .. MaxTimers /\ \A r \in DOMAIN role : role[r].conn <= made
      /\ \A r \in DOMAIN role : role[r].conn \in Conns
  BY Parts, UseFacts DEF Roles
<1>2. k \in Conns /\ k # 0 /\ k \in Nat /\ k \in 0 .. MaxConns
  BY <1>1, BoundsAssumption, SMTT(30) DEF Conns
<1>3. /\ Use(k, "notify") \in Uses /\ Use(k, "notify").conn = k
      /\ Use(k, "socket") \in Uses /\ Use(k, "socket").conn = k
  BY <1>2 DEF Use, Uses
<1>4. /\ role' \in Seq(Uses) /\ Len(role') = Len(role) + 2
      /\ \A r \in DOMAIN role : r \in DOMAIN role' /\ role'[r] = role[r]
      /\ \A r \in DOMAIN role' : \/ r \in DOMAIN role
                                 \/ role'[r] = Use(k, "notify") \/ role'[r] = Use(k, "socket")
  <2>1. role \in Seq(Uses)
    BY <1>1
  <2> QED
    BY <1>3, <2>1, PairAppended, SMT
<1>5. made' = Made(role') /\ Made(role') = k
  <2>1. made' = Made(role')
    BY DEF made, Made
  <2>2. Made(role') = k
    BY <1>1, MadeFacts
  <2> QED
    BY <1>1, <2>1, <2>2
<1>6. Len(role') - 2 * k \in 0 .. MaxTimers /\ Len(role) + 2 <= MaxRegs
  <2>1. /\ Len(role) \in Nat /\ made \in 0 .. MaxConns /\ Len(role') = Len(role) + 2
        /\ Len(role) - 2 * made \in 0 .. MaxTimers
    BY <1>1, <1>4
  <2> QED
    BY <2>1, BoundsAssumption, SMT DEF MaxRegs
<1>7. ASSUME NEW r \in DOMAIN role' PROVE role'[r].conn <= k
  <2>1. CASE r \in DOMAIN role
    <3>1. role'[r].conn <= made /\ role'[r].conn \in Conns /\ made \in 0 .. MaxConns
      BY <1>1, <1>4, <2>1
    <3> QED
      BY <3>1, BoundsAssumption, SMTT(30) DEF Conns
  <2>2. CASE r \notin DOMAIN role
    BY <1>2, <1>3, <1>4, <2>2, SMT
  <2> QED
    BY <2>1, <2>2
<1> QED
  BY <1>2, <1>4, <1>5, <1>6, <1>7, ZenonT(30) DEF Roles

(* A successful Connect, on its own or in the close callback.              *)
LEMMA ConnectedFacts ==
  ASSUME Inv, NEW es \in Seq(Entries), NEW f \in [Fds -> 0 .. Len(role)], NEW S,
         Connected(es, f, S),
         \A fd \in Fds \cap S : f[fd] # 0,
         \A n \in DOMAIN es : ~es[n].dead => es[n].fd \in S
  PROVE  /\ Roles(role)' /\ conn_' = made + 1 /\ made' = made + 1 /\ conn_' \in Conns /\ conn_' # 0
         /\ Len(role') = Len(role) + 2
         /\ \A r \in DOMAIN role : r \in DOMAIN role' /\ role'[r] = role[r]
         /\ (held \subseteq 1 .. made)'
         /\ entries_' \in Seq(Entries) /\ Extends(entries_', es)
         /\ Opened(f) \in [Fds -> 0 .. Len(role')]
         /\ \A g : (\A h \in Fds : Opened(f)[h] \notin DOMAIN role => g[h] = Opened(f)[h])
                     => Polls(entries_', g, role', conn_', 0)
<1> DEFINE k == made + 1
           new == <<Entry(EventFd(f), Len(role) + 1), Entry(FreeFd(f), Len(role) + 2)>>
<1>1. /\ made < MaxConns /\ TwoFree(f)
      /\ conn_' = k /\ held' = held \cup ({k} \cap Keeps)
      /\ entries_' = Removed(es \o new, S)
      /\ role' = role \o <<Use(k, "notify"), Use(k, "socket")>>
  BY DEF Connected
<1>2. k = made + 1
  OBVIOUS
<1> HIDE DEF k
<1>3. /\ Roles(role)' /\ made' = k /\ k \in Conns /\ k # 0
      /\ Len(role') = Len(role) + 2 /\ Len(role) + 2 <= MaxRegs
      /\ \A r \in DOMAIN role : r \in DOMAIN role' /\ role'[r] = role[r]
  BY <1>1, <1>2, ConnRole
<1>4. role \in Seq(Uses) /\ Len(role) \in Nat /\ made \in Nat
  BY Parts
<1>5. held' \subseteq 1 .. k
  BY <1>1, <1>2, <1>4, Parts, SMTT(30) DEF Types
<1>6. Opened(f) \in [Fds -> 0 .. Len(role')]
  BY <1>1, <1>3, <1>4, OpenedFacts
<1>7. ASSUME NEW g, \A h \in Fds : Opened(f)[h] \notin DOMAIN role => g[h] = Opened(f)[h]
      PROVE  Polls(entries_', g, role', k, 0) /\ entries_' \in Seq(Entries)
  BY <1>1, <1>3, <1>4, <1>7, PollsConnected
<1>8. entries_' \in Seq(Entries)
  BY <1>7
<1>9. Extends(entries_', es)
  <2>1. EventFd(f) \in Fds /\ FreeFd(f) \in Fds
    BY <1>1, <1>4, OpenedFacts
  <2>2. new \in Seq(Entries)
    <3>1. Len(role) + 1 \in 1 .. MaxRegs /\ Len(role) + 2 \in 1 .. MaxRegs
      BY <1>3, <1>4, LoopAssumptions, SMT
    <3>2. Entry(EventFd(f), Len(role) + 1) \in Entries /\ Entry(FreeFd(f), Len(role) + 2) \in Entries
      BY <2>1, <3>1 DEF Entry, Entries
    <3> QED
      BY <3>2, SMT
  <2> HIDE DEF new
  <2> DEFINE all == es \o new
  <2>3. all \in Seq(Entries) /\ \A n \in DOMAIN es : n \in DOMAIN all /\ all[n] = es[n]
    BY <2>2, SMT
  <2> HIDE DEF all
  <2>4. entries_' = Removed(all, S)
    BY <1>1 DEF all
  <2>5. /\ DOMAIN entries_' = DOMAIN all
        /\ \A n \in DOMAIN all : /\ entries_'[n].reg = all[n].reg
                                 /\ ~entries_'[n].dead => ~all[n].dead
    BY <2>3, <2>4, RemovedFacts, SMTT(30)
  <2> QED
    BY <2>3, <2>5 DEF Extends
<1> QED
  BY <1>1, <1>2, <1>3, <1>5, <1>6, <1>7, <1>8, <1>9

(* The pollfds of the round after what Extends says.                       *)
LEMMA LeadsExtends ==
  ASSUME Inv, NEW t, Extends(t, entries_), NEW q, NEW ended, hungup \cup shut \subseteq ended,
         \A r \in DOMAIN role : q[r] = role[r]
  PROVE  Leads(pfds, t, q, ended)
<1>1. \A n \in DOMAIN entries_ : ~entries_[n].dead => entries_[n].reg \in DOMAIN role
  BY Parts DEF Polls
<1>2. \A n \in DOMAIN entries_ :
        /\ n \in DOMAIN t /\ t[n].reg = entries_[n].reg
        /\ ~t[n].dead => ~entries_[n].dead /\ q[entries_[n].reg] = role[entries_[n].reg]
  BY <1>1 DEF Extends
<1> QED
  BY <1>2, Parts, LeadsOn, SMT

(* There is a new current connection, and every earlier one is closed.     *)
LEMMA NewConnection ==
  ASSUME Inv, pc # "destroyed", pc' # "destroyed",
         NEW k, k = conn_', k = made + 1, made' = k, k \in Conns, Roles(role)',
         Len(role') = Len(role) + 2,
         \A r \in DOMAIN role : r \in DOMAIN role' /\ role'[r] = role[r],
         (held \subseteq 1 .. made)',
         entries_' \in Seq(Entries), Extends(entries_', entries_),
         file' \in [Fds -> 0 .. Len(role')], Polls(entries_', file', role', k, 0),
         cstate' \in [Conns -> {"none", "verifing", "established", "closeing", "closeed"}],
         cstate'[k] \in {"verifing", "established"},
         \A j \in Conns : j # k => cstate'[j] = cstate[j] \/ cstate'[j] = "closeed",
         verify_timer_' = [j \in Conns |-> 0],
         closes' \in [Conns -> Nat],
         \A j \in Conns : closes'[j] = IF j <= made THEN 1 ELSE 0,
         state_' \in {"established", "close"}, inside' \in BOOLEAN,
         pc' \in {"poll", "dispatch", "callback"}, conn' \in 0 .. made, cur' \in 0 .. Len(role),
         shut \subseteq shut', shut' \subseteq 1 .. made,
         UNCHANGED <<hungup, expired, pfds, inbox, sent, rung>>,
         HandlerInv'
  PROVE  Inv'
<1>1. made \in Nat /\ Len(role) \in Nat /\ role \in Seq(Uses) /\ role' \in Seq(Uses)
  BY Parts DEF Roles
<1>2. 1 .. made \subseteq 1 .. k /\ 0 .. made \subseteq 0 .. k /\ k \in 0 .. k /\ k # 0
  BY <1>1, SMT
<1>3. DOMAIN role \subseteq DOMAIN role' /\ 0 .. Len(role) \subseteq 0 .. Len(role')
  BY <1>1, SMT
<1>4. verify_timer_' \in [Conns -> Fds \cup {0}] /\ Due' = 0
  BY <1>2 DEF Due
<1>5. Types'
  <2>1. (expired \subseteq DOMAIN role)' /\ (cur \in 0 .. Len(role))' /\ (conn \in 0 .. made)'
    BY <1>2, <1>3, Parts DEF Types
  <2>2. /\ (rung \subseteq 1 .. made)' /\ (hungup \subseteq 1 .. made)' /\ (shut \subseteq 1 .. made)'
    BY <1>2, Parts DEF Types
  <2>3. /\ (pc \in {"poll", "dispatch", "drain", "callback", "drained", "error", "destroyed"})'
        /\ (conn_ \in 0 .. made)'
    BY <1>2
  <2>4. /\ (pfds \in Seq(Pollfds))' /\ (sent \in 0 .. MaxMessages)'
        /\ (inbox \in [Conns -> Seq({"good", "bad"})])'
    BY Parts DEF Types
  <2> QED
    BY <1>4, <2>1, <2>2, <2>3, <2>4 DEF Types
<1>6. ConnInv'
  <2>1. \A j \in Conns : closes'[j] = IF j < k THEN 1 ELSE 0
    BY <1>1, SMT DEF Conns
  <2>2. \A j \in Conns : (j > k => closes'[j] = 0) /\ (j <= k => closes'[j] = IF j = k THEN 0 ELSE 1)
    BY <1>1, <2>1, SMT DEF Conns
  <2>3. \A j \in Conns : cstate'[j] = "closeing" => j \in shut'
    BY Parts DEF ConnInv
  <2> QED
    BY <1>2, <2>2, <2>3 DEF ConnInv
<1>7. Leads(pfds, entries_, role, hungup \cup shut)'
  <2>1. Leads(pfds, entries_', role', hungup \cup shut')
    <3>1. hungup \cup shut \subseteq hungup \cup shut'
      OBVIOUS
    <3> QED
      BY <3>1, LeadsExtends
  <2> QED
    BY <2>1
<1> QED
  BY <1>4, <1>5, <1>6, <1>7 DEF Inv

(* RemoveTimer and ~ShmConnection leave the files that are newer.          *)
LEMMA ClosedKept ==
  ASSUME NEW N \in Nat, NEW o \in [Fds -> 0 .. N], NEW S, NEW keep
  PROVE  /\ Kept(TimersClosed(o, S), keep) \in [Fds -> 0 .. N]
         /\ \A h \in Fds : o[h] \notin DOMAIN role => Kept(TimersClosed(o, S), keep)[h] = o[h]
<1> DEFINE u == TimersClosed(o, S)
<1>1. u \in [Fds -> 0 .. N] /\ \A h \in Fds : o[h] \notin DOMAIN role => u[h] = o[h]
  BY TimersClosedFacts, ZenonT(30)
<1> HIDE DEF u
<1>2. /\ Kept(u, keep) \in [Fds -> 0 .. N]
      /\ \A h \in Fds : u[h] \notin DOMAIN role => Kept(u, keep)[h] = u[h]
  BY <1>1, SMT DEF Kept
<1>3. \A h \in Fds : o[h] \notin DOMAIN role => Kept(u, keep)[h] = o[h]
  BY <1>1, <1>2
<1> QED
  BY <1>2, <1>3 DEF u

(* Connect, with and without an exception from the connection callback.    *)
LEMMA ConnectSteps ==
  ASSUME Inv, MayConnect, Connected(entries_, file, {}), pc # "destroyed",
         \E s \in Fresh : cstate' = [cstate EXCEPT ![conn_'] = s],
         file' \in {Opened(file), Kept(Opened(file), {conn} \cup held)},
         state_' \in {"established", "close"}, inside' \in BOOLEAN,
         inside' \/ (pc = "poll" /\ inside' = inside),
         UNCHANGED <<verify_timer_, shut, closes, pc, cur, conn, pfds, expired,
                     inbox, sent, rung, hungup>>
  PROVE  Inv'
<1>1. conn_ = 0 /\ pc \in ConnectFrom
  BY DEF MayConnect
<1>2. \A n \in DOMAIN entries_ : entries_[n].dead
  <2>1. Polls(entries_, file, role, 0, Due) /\ entries_ \in Seq(Entries)
    BY <1>1, Parts DEF Types
  <2>2. \A n \in DOMAIN entries_ : ~entries_[n].dead => FALSE
    BY <2>1 DEF Polls
  <2> QED
    BY <2>1, <2>2, EntryFacts
<1>3. /\ Roles(role)' /\ conn_' = made + 1 /\ made' = made + 1 /\ conn_' \in Conns /\ conn_' # 0
      /\ Len(role') = Len(role) + 2
      /\ \A r \in DOMAIN role : r \in DOMAIN role' /\ role'[r] = role[r]
      /\ (held \subseteq 1 .. made)'
      /\ entries_' \in Seq(Entries) /\ Extends(entries_', entries_)
      /\ Opened(file) \in [Fds -> 0 .. Len(role')]
      /\ \A g : (\A h \in Fds : Opened(file)[h] \notin DOMAIN role => g[h] = Opened(file)[h])
                  => Polls(entries_', g, role', conn_', 0)
  <2>1. entries_ \in Seq(Entries) /\ file \in [Fds -> 0 .. Len(role)]
    BY Parts DEF Types
  <2> QED
    BY <1>2, <2>1, ConnectedFacts, ZenonT(30)
<1>4. file' \in [Fds -> 0 .. Len(role')] /\ Polls(entries_', file', role', conn_', 0)
  <2>1. Len(role') \in Nat
    BY <1>3, Parts, SMT
  <2>2. /\ file' \in [Fds -> 0 .. Len(role')]
        /\ \A h \in Fds : Opened(file)[h] \notin DOMAIN role => file'[h] = Opened(file)[h]
    <3> DEFINE o == Opened(file)
               keep == {conn} \cup held
    <3>1. o \in [Fds -> 0 .. Len(role')] /\ (file' = o \/ file' = Kept(o, keep))
      BY <1>3
    <3> HIDE DEF o, keep
    <3>2. /\ Kept(o, keep) \in [Fds -> 0 .. Len(role')]
          /\ \A h \in Fds : o[h] \notin DOMAIN role => Kept(o, keep)[h] = o[h]
      BY <2>1, <3>1, KeptFacts
    <3>3. /\ file' \in [Fds -> 0 .. Len(role')]
          /\ \A h \in Fds : o[h] \notin DOMAIN role => file'[h] = o[h]
      BY <3>1, <3>2
    <3> QED
      BY <3>3 DEF o
  <2> QED
    BY <1>3, <2>2
<1>5. /\ cstate' \in [Conns -> {"none", "verifing", "established", "closeing", "closeed"}]
      /\ cstate'[conn_'] \in {"verifing", "established"}
      /\ \A j \in Conns : j # conn_' => cstate'[j] = cstate[j]
  BY <1>3, Parts DEF Types, Fresh
<1>6. /\ verify_timer_' = [j \in Conns |-> 0] /\ closes' \in [Conns -> Nat]
      /\ \A j \in Conns : closes'[j] = IF j <= made THEN 1 ELSE 0
  <2>1. /\ verify_timer_ \in [Conns -> Fds \cup {0}] /\ closes \in [Conns -> Nat]
        /\ \A j \in Conns : verify_timer_[j] = 0
        /\ \A j \in Conns : closes[j] = IF j <= made THEN 1 ELSE 0
    BY <1>1, Parts, SMTT(30) DEF Types, ConnInv, Conns
  <2> QED
    BY <2>1
<1>7. /\ pc' \in {"poll", "callback", "dispatch"} /\ pc' # "destroyed"
      /\ conn' \in 0 .. made /\ cur' \in 0 .. Len(role)
  <2>1. conn \in 0 .. made /\ cur \in 0 .. Len(role) /\ pc # "closecb"
    BY Parts DEF Types
  <2> QED
    BY <1>1, <2>1, ConnectFromAssumption
<1>8. HandlerInv'
  <2>1. cur # 0 => cur \in DOMAIN role
    BY Parts, SMTT(30) DEF Types, Roles
  <2>2. conn # 0 => pc # "poll"
    BY Parts DEF HandlerInv
  <2>3. conn # 0 => cur # 0 /\ role'[cur] = role[cur] /\ inside'
    BY <1>3, <2>1, <2>2, Parts DEF HandlerInv
  <2> QED
    BY <2>3, Parts DEF HandlerInv
<1> QED
  <2>1. shut' \subseteq 1 .. made /\ shut \subseteq shut'
    BY Parts DEF Types
  <2> QED
    BY <1>3, <1>4, <1>5, <1>6, <1>7, <1>8, <2>1, NewConnection

LEMMA ConnectInv == ASSUME Inv, Connect PROVE Inv'
<1>1. /\ MayConnect /\ Connected(entries_, file, {})
      /\ state_' = "established" /\ inside' = (inside \/ pc # "poll")
      /\ \E s \in Fresh : cstate' = [cstate EXCEPT ![conn_'] = s]
      /\ file' = Kept(Opened(file), {conn} \cup held)
      /\ UNCHANGED <<verify_timer_, shut, closes, pc, cur, conn, pfds, expired,
                     inbox, sent, rung, hungup>>
  BY DEF Connect, handler, peers
<1>2. pc # "destroyed"
  BY <1>1, ConnectFromAssumption DEF MayConnect
<1>3. inside' \in BOOLEAN /\ (inside' \/ (pc = "poll" /\ inside' = inside))
  <2>1. inside \in BOOLEAN
    BY Parts DEF Types
  <2> QED
    BY <1>1, <2>1
<1> QED
  BY <1>1, <1>2, <1>3, ConnectSteps

LEMMA ConnectThrowsInv == ASSUME Inv, ConnectThrows PROVE Inv'
<1>1. /\ MayConnect /\ Connected(entries_, file, {}) /\ pc = "poll"
      /\ \E s \in Fresh : cstate' = [cstate EXCEPT ![conn_'] = s]
      /\ file' = Opened(file)
      /\ UNCHANGED <<state_, inside, verify_timer_, shut, closes, pc, cur, conn, pfds, expired,
                     inbox, sent, rung, hungup>>
  BY DEF ConnectThrows, handler, peers
<1>2. inside \in BOOLEAN /\ state_ \in {"established", "close"}
  BY Parts DEF Types
<1> QED
  BY <1>1, <1>2, ConnectSteps

-----------------------------------------------------------------------------
(* Teardown.                                                               *)

(* What its callers give it: the entries es and files f it finds, without  *)
(* the timer that is not in S, and the handler they leave.                 *)
TornDown(es, f, S, keep) ==
  /\ Teardown(es, f, S, keep)
  /\ es \in Seq(Entries) /\ f \in [Fds -> 0 .. Len(role)] /\ Extends(es, entries_)
  /\ \A n \in DOMAIN es : ~es[n].dead => es[n].fd \in FdsOf(conn_) \cup S
  /\ \A fd \in Fds \cap S : f[fd] # 0
  /\ UNCHANGED <<pfds, expired, inbox, sent, rung, hungup>>
  /\ shut \subseteq shut' /\ shut' \subseteq 1 .. made
  /\ \/ UNCHANGED <<pc, conn, cur>> /\ pc \in {"poll", "callback"}
     \/ pc' = "dispatch" /\ conn' = 0 /\ cur' = 0

(* The close is reported: closes, the timer and the state of conn_.        *)
LEMMA TornDownConn ==
  ASSUME Inv, conn_ # 0, pc # "destroyed", NEW es, NEW f, NEW S, NEW keep, TornDown(es, f, S, keep)
  PROVE  /\ conn_ \in Conns /\ conn_ \in 1 .. made
         /\ closes' \in [Conns -> Nat]
         /\ \A j \in Conns : closes'[j] = IF j <= made THEN 1 ELSE 0
         /\ verify_timer_' = [j \in Conns |-> 0]
         /\ pc' \in {"poll", "callback", "dispatch"} /\ pc' # "destroyed"
         /\ conn' \in 0 .. made /\ cur' \in 0 .. Len(role)
         /\ Removed(es, FdsOf(conn_)) \in Seq(Entries)
         /\ Extends(Removed(es, FdsOf(conn_)), entries_)
         /\ \A n \in DOMAIN Removed(es, FdsOf(conn_)) :
              ~Removed(es, FdsOf(conn_))[n].dead => Removed(es, FdsOf(conn_))[n].fd \in S
<1>1. conn_ \in Conns /\ conn_ \in 1 .. made /\ conn_ <= made
  BY Numbers, SMT
<1>2. /\ closes' = [closes EXCEPT ![conn_] = IF cstate[conn_] # "closeed" THEN @ + 1 ELSE @]
      /\ verify_timer_' = [verify_timer_ EXCEPT ![conn_] = 0]
  BY DEF TornDown, Teardown
<1>3. /\ closes \in [Conns -> Nat] /\ cstate[conn_] # "closeed"
      /\ \A j \in Conns : closes[j] = IF j <= made /\ j # conn_ THEN 1 ELSE 0
  BY Parts, SMTT(30) DEF Types, ConnInv, Conns
<1>4. /\ closes' \in [Conns -> Nat]
      /\ \A j \in Conns : closes'[j] = IF j <= made THEN 1 ELSE 0
  <2>1. closes' = [closes EXCEPT ![conn_] = closes[conn_] + 1]
    BY <1>2, <1>3
  <2>2. closes[conn_] = 0
    BY <1>1, <1>3
  <2> QED
    BY <1>1, <1>3, <2>1, <2>2, SMT
<1>5. verify_timer_' = [j \in Conns |-> 0]
  <2>1. verify_timer_ \in [Conns -> Fds \cup {0}] /\ \A j \in Conns : j # conn_ => verify_timer_[j] = 0
    BY Parts DEF Types, ConnInv
  <2> QED
    BY <1>2, <2>1
<1>6. /\ pc' \in {"poll", "callback", "dispatch"} /\ pc' # "destroyed"
      /\ conn' \in 0 .. made /\ cur' \in 0 .. Len(role)
  <2>1. conn \in 0 .. made /\ cur \in 0 .. Len(role) /\ 0 \in 0 .. made /\ 0 \in 0 .. Len(role)
    BY Parts, SMT DEF Types
  <2> QED
    BY <2>1 DEF TornDown
<1>7. /\ Removed(es, FdsOf(conn_)) \in Seq(Entries)
      /\ Extends(Removed(es, FdsOf(conn_)), entries_)
      /\ \A n \in DOMAIN Removed(es, FdsOf(conn_)) :
           ~Removed(es, FdsOf(conn_))[n].dead => Removed(es, FdsOf(conn_))[n].fd \in S
  <2> DEFINE F == FdsOf(conn_)
             t == Removed(es, F)
  <2>1. /\ es \in Seq(Entries) /\ Extends(es, entries_)
        /\ \A n \in DOMAIN es : ~es[n].dead => es[n].fd \in F \cup S
    BY DEF TornDown
  <2> HIDE DEF F
  <2>2. /\ t \in Seq(Entries) /\ DOMAIN t = DOMAIN es
        /\ \A n \in DOMAIN es :
             /\ t[n].fd = es[n].fd /\ t[n].reg = es[n].reg
             /\ t[n].dead <=> es[n].dead \/ es[n].fd \in F
    BY <2>1, RemovedFacts
  <2> HIDE DEF t
  <2>3. Extends(t, entries_)
    BY <2>1, <2>2 DEF Extends
  <2>4. \A n \in DOMAIN t : ~t[n].dead => t[n].fd \in S
    BY <2>1, <2>2
  <2> QED
    BY <2>2, <2>3, <2>4 DEF t, F
<1> QED
  BY <1>1, <1>4, <1>5, <1>6, <1>7

(* The close callback does not connect again.                              *)
LEMMA TornDownAlone ==
  ASSUME Inv, conn_ # 0, pc # "destroyed", NEW es, NEW f, NEW S, NEW keep, TornDown(es, f, S, keep),
         state_' = "close", conn_' = 0, cstate' = [cstate EXCEPT ![conn_] = "closeed"],
         entries_' = Removed(Removed(es, FdsOf(conn_)), S),
         UNCHANGED <<held, role, inside>>, file' = Kept(TimersClosed(f, S), keep)
  PROVE  Inv'
<1> DEFINE es1 == Removed(es, FdsOf(conn_))
<1>1. /\ conn_ \in Conns /\ conn_ \in 1 .. made
      /\ closes' \in [Conns -> Nat]
      /\ \A j \in Conns : closes'[j] = IF j <= made THEN 1 ELSE 0
      /\ verify_timer_' = [j \in Conns |-> 0]
      /\ pc' \in {"poll", "callback", "dispatch"} /\ pc' # "destroyed"
      /\ conn' \in 0 .. made /\ cur' \in 0 .. Len(role)
      /\ es1 \in Seq(Entries) /\ Extends(es1, entries_)
      /\ \A n \in DOMAIN es1 : ~es1[n].dead => es1[n].fd \in S
  BY TornDownConn
<1>2. entries_' = Removed(es1, S)
  OBVIOUS
<1> HIDE DEF es1
<1>3. /\ entries_' \in Seq(Entries) /\ DOMAIN entries_' = DOMAIN es1
      /\ \A n \in DOMAIN es1 : /\ entries_'[n].reg = es1[n].reg
                               /\ entries_'[n].dead <=> es1[n].dead \/ es1[n].fd \in S
  BY <1>1, <1>2, RemovedFacts, SMT
<1>4. Extends(entries_', entries_)
  BY <1>1, <1>3 DEF Extends
<1>5. Due' = 0 /\ Polls(entries_', file', role', 0, 0)
  <2>1. \A n \in DOMAIN entries_' : entries_'[n].dead
    BY <1>1, <1>3
  <2> QED
    BY <2>1, PollsNone DEF Due
<1>6. file' \in [Fds -> 0 .. Len(role)]
  <2>1. Len(role) \in Nat /\ f \in [Fds -> 0 .. Len(role)]
    BY Parts DEF TornDown
  <2>2. TimersClosed(f, S) \in [Fds -> 0 .. Len(role)]
    BY <2>1, TimersClosedFacts
  <2> QED
    BY <2>1, <2>2, KeptFacts
<1>7. /\ UNCHANGED <<pfds, expired, inbox, sent, rung, hungup>>
      /\ shut \subseteq shut' /\ shut' \subseteq 1 .. made
      /\ \/ UNCHANGED <<pc, conn, cur>> /\ pc \in {"poll", "callback"}
         \/ pc' = "dispatch" /\ conn' = 0 /\ cur' = 0
  BY DEF TornDown
<1>8. made' = made /\ role' = role /\ inside' = inside /\ held' = held
  BY DEF made
<1>9. Types'
  <2>1. verify_timer_' \in [Conns -> Fds \cup {0}]
    BY <1>1
  <2>2. cstate' \in [Conns -> {"none", "verifing", "established", "closeing", "closeed"}]
    BY Parts DEF Types
  <2>3. 0 \in 0 .. made
    BY Parts, SMT
  <2>4. /\ (pfds \in Seq(Pollfds))' /\ (expired \subseteq DOMAIN role)' /\ (inside \in BOOLEAN)'
        /\ (inbox \in [Conns -> Seq({"good", "bad"})])' /\ (sent \in 0 .. MaxMessages)'
        /\ (held \subseteq 1 .. made)' /\ (rung \subseteq 1 .. made)' /\ (hungup \subseteq 1 .. made)'
    BY <1>7, <1>8, Parts DEF Types
  <2> QED
    BY <1>1, <1>3, <1>6, <1>7, <1>8, <2>1, <2>2, <2>3, <2>4 DEF Types
<1>10. ConnInv'
  <2>1. \A j \in Conns : cstate'[j] = "closeing" => j \in shut'
    <3>1. /\ \A j \in Conns : cstate[j] = "closeing" => j \in shut
          /\ cstate \in [Conns -> {"none", "verifing", "established", "closeing", "closeed"}]
      BY Parts DEF ConnInv, Types
    <3> QED
      BY <1>7, <3>1
  <2>2. \A j \in Conns : (j > made => closes'[j] = 0) /\ (j <= made => closes'[j] = 1) /\ j # 0
    <3>1. made \in Nat
      BY Parts
    <3> QED
      BY <1>1, <3>1, SMT DEF Conns
  <2> QED
    BY <1>1, <1>8, <2>1, <2>2 DEF ConnInv
<1>11. HandlerInv'
  BY <1>7, <1>8, Parts DEF HandlerInv
<1>12. Roles(role)' /\ Leads(pfds, entries_, role, hungup \cup shut)'
  <2>1. hungup \cup shut \subseteq hungup \cup shut'
    BY <1>7
  <2>2. Leads(pfds, entries_', role, hungup \cup shut')
    BY <1>4, <2>1, LeadsExtends
  <2> QED
    BY <1>7, <1>8, <2>2, Parts
<1> QED
  BY <1>5, <1>9, <1>10, <1>11, <1>12 DEF Inv

(* The close callback connects again.                                      *)
LEMMA TornDownAgain ==
  ASSUME Inv, conn_ # 0, pc # "destroyed", NEW es, NEW f, NEW S, NEW keep, TornDown(es, f, S, keep),
         state_' = "established", inside' = TRUE, Connected(Removed(es, FdsOf(conn_)), f, S),
         \E s \in Fresh : cstate' = [cstate EXCEPT ![conn_] = "closeed", ![conn_'] = s],
         file' = Kept(TimersClosed(Opened(f), S), keep)
  PROVE  Inv'
<1> DEFINE es1 == Removed(es, FdsOf(conn_))
<1>1. /\ conn_ \in Conns /\ conn_ \in 1 .. made
      /\ closes' \in [Conns -> Nat]
      /\ \A j \in Conns : closes'[j] = IF j <= made THEN 1 ELSE 0
      /\ verify_timer_' = [j \in Conns |-> 0]
      /\ pc' \in {"poll", "callback", "dispatch"} /\ pc' # "destroyed"
      /\ conn' \in 0 .. made /\ cur' \in 0 .. Len(role)
      /\ es1 \in Seq(Entries) /\ Extends(es1, entries_)
      /\ \A n \in DOMAIN es1 : ~es1[n].dead => es1[n].fd \in S
  BY TornDownConn
<1>2. Connected(es1, f, S)
  OBVIOUS
<1> HIDE DEF es1
<1>3. /\ UNCHANGED <<pfds, expired, inbox, sent, rung, hungup>>
      /\ shut \subseteq shut' /\ shut' \subseteq 1 .. made
      /\ \/ UNCHANGED <<pc, conn, cur>> /\ pc \in {"poll", "callback"}
         \/ pc' = "dispatch" /\ conn' = 0 /\ cur' = 0
      /\ f \in [Fds -> 0 .. Len(role)] /\ \A fd \in Fds \cap S : f[fd] # 0
  BY DEF TornDown
<1>4. /\ Roles(role)' /\ conn_' = made + 1 /\ made' = made + 1 /\ conn_' \in Conns /\ conn_' # 0
      /\ Len(role') = Len(role) + 2
      /\ \A r \in DOMAIN role : r \in DOMAIN role' /\ role'[r] = role[r]
      /\ (held \subseteq 1 .. made)'
      /\ entries_' \in Seq(Entries) /\ Extends(entries_', es1)
      /\ Opened(f) \in [Fds -> 0 .. Len(role')]
      /\ \A g : (\A h \in Fds : Opened(f)[h] \notin DOMAIN role => g[h] = Opened(f)[h])
                  => Polls(entries_', g, role', conn_', 0)
  BY <1>1, <1>2, <1>3, ConnectedFacts
<1>5. Extends(entries_', entries_)
  BY <1>1, <1>4 DEF Extends
<1>6. file' \in [Fds -> 0 .. Len(role')] /\ Polls(entries_', file', role', conn_', 0)
  <2>1. Len(role') \in Nat
    BY <1>4, Parts, SMT
  <2>2. /\ file' \in [Fds -> 0 .. Len(role')]
        /\ \A h \in Fds : Opened(f)[h] \notin DOMAIN role => file'[h] = Opened(f)[h]
    <3> DEFINE o == Opened(f)
    <3>1. o \in [Fds -> 0 .. Len(role')] /\ file' = Kept(TimersClosed(o, S), keep)
      BY <1>4
    <3> HIDE DEF o
    <3>2. /\ file' \in [Fds -> 0 .. Len(role')]
          /\ \A h \in Fds : o[h] \notin DOMAIN role => file'[h] = o[h]
      BY <2>1, <3>1, ClosedKept, SMTT(30)
    <3> QED
      BY <3>2 DEF o
  <2> QED
    BY <1>4, <2>2
<1>7. /\ cstate' \in [Conns -> {"none", "verifing", "established", "closeing", "closeed"}]
      /\ cstate'[conn_'] \in {"verifing", "established"}
      /\ \A j \in Conns : j # conn_' => cstate'[j] = cstate[j] \/ cstate'[j] = "closeed"
  <2>1. cstate \in [Conns -> {"none", "verifing", "established", "closeing", "closeed"}]
    BY Parts DEF Types
  <2> QED
    BY <1>1, <1>4, <2>1, SMTT(30) DEF Fresh
<1>8. HandlerInv'
  <2>1. cur # 0 => cur \in DOMAIN role
    BY Parts, SMT DEF Types
  <2>2. conn' # 0 => /\ conn' = conn /\ cur' = cur /\ pc' = pc /\ cur # 0
                     /\ role'[cur] = role[cur]
                     /\ role[cur].use = "socket" => conn \in hungup \cup shut
    BY <1>3, <1>4, <2>1, Parts DEF HandlerInv
  <2>3. /\ pc' \in {"poll", "dispatch", "destroyed"} => conn' = 0
        /\ pc' \notin {"drain", "drained", "error"}
    BY <1>3, Parts DEF HandlerInv
  <2>4. conn' # 0 => cur' # 0 /\ (role'[cur'].use = "socket" => conn' \in hungup' \cup shut')
    BY <1>3, <2>2
  <2> QED
    BY <2>3, <2>4 DEF HandlerInv
<1> QED
  BY <1>1, <1>3, <1>4, <1>5, <1>6, <1>7, <1>8, NewConnection

LEMMA TeardownInv ==
  ASSUME Inv, conn_ # 0, pc # "destroyed", NEW es, NEW f, NEW S, NEW keep, TornDown(es, f, S, keep)
  PROVE  Inv'
<1>1. \/ /\ state_' = "close" /\ conn_' = 0
         /\ cstate' = [cstate EXCEPT ![conn_] = "closeed"]
         /\ entries_' = Removed(Removed(es, FdsOf(conn_)), S)
         /\ UNCHANGED <<held, role, inside>>
         /\ file' = Kept(TimersClosed(f, S), keep)
      \/ /\ state_' = "established" /\ inside' = TRUE
         /\ Connected(Removed(es, FdsOf(conn_)), f, S)
         /\ \E s \in Fresh : cstate' = [cstate EXCEPT ![conn_] = "closeed", ![conn_'] = s]
         /\ file' = Kept(TimersClosed(Opened(f), S), keep)
  BY DEF TornDown, Teardown
<1> QED
  BY <1>1, TornDownAlone, TornDownAgain

(* The numbers of the entries that are no tombstones.                      *)
LEMMA AliveTimer ==
  ASSUME Inv, conn_ # 0
  PROVE  /\ \A n \in DOMAIN entries_ : ~entries_[n].dead => entries_[n].fd \in FdsOf(conn_) \cup Timer(conn_)
         /\ \A fd \in Fds \cap Timer(conn_) : file[fd] # 0
<1>1. /\ entries_ \in Seq(Entries) /\ file \in [Fds -> 0 .. Len(role)] /\ role \in Seq(Uses)
      /\ Polls(entries_, file, role, conn_, verify_timer_[conn_])
  BY Parts DEF Types, Due
<1>2. \A n \in DOMAIN entries_ : ~entries_[n].dead =>
        entries_[n].fd \in FdsOf(conn_) \/ (entries_[n].fd = verify_timer_[conn_] /\ verify_timer_[conn_] # 0)
  BY <1>1, AliveNumbers
<1>3. ASSUME NEW fd \in Fds, fd \in Timer(conn_) PROVE file[fd] # 0
  <2>1. fd = verify_timer_[conn_] /\ fd # 0
    BY <1>3 DEF Timer
  <2>2. PICK n \in DOMAIN entries_ : ~entries_[n].dead /\ role[entries_[n].reg].use = "timer"
    BY <1>1, <2>1 DEF Polls
  <2>3. entries_[n].fd = fd /\ file[fd] = entries_[n].reg /\ entries_[n].reg \in 1 .. MaxRegs
    BY <1>1, <2>1, <2>2, EntryFacts, SMTT(30) DEF Polls
  <2> QED
    BY <2>3, LoopAssumptions, SMT
<1> QED
  BY <1>2, <1>3 DEF Timer

LEMMA CloseInv == ASSUME Inv, Close PROVE Inv'
<1> DEFINE S == Timer(conn_)
           es == Removed(entries_, S)
           f == TimersClosed(file, S)
           keep == {conn} \cup held
<1>1. /\ pc \in {"poll", "callback"} /\ state_ = "established"
      /\ shut' = IF Receiving(conn_) THEN shut \cup {conn_} ELSE shut
      /\ UNCHANGED <<pc, cur, conn, pfds, expired, inbox, sent, rung, hungup>>
      /\ Teardown(es, f, {}, keep)
  BY DEF Close, Calling, handler, peers
<1>2. conn_ # 0 /\ pc # "destroyed"
  BY <1>1, Parts DEF ConnInv
<1>3. \A n \in DOMAIN entries_ : ~entries_[n].dead => entries_[n].fd \in FdsOf(conn_) \cup S
  BY <1>2, AliveTimer
<1> HIDE DEF S
<1>4. /\ es \in Seq(Entries) /\ DOMAIN es = DOMAIN entries_
      /\ \A n \in DOMAIN entries_ :
           /\ es[n].fd = entries_[n].fd /\ es[n].reg = entries_[n].reg
           /\ es[n].dead <=> entries_[n].dead \/ entries_[n].fd \in S
  BY Parts, RemovedFacts
<1> HIDE DEF es, keep
<1>5. f \in [Fds -> 0 .. Len(role)]
  BY Parts, TimersClosedFacts DEF Types
<1> HIDE DEF f
<1>6. /\ Extends(es, entries_)
      /\ \A n \in DOMAIN es : ~es[n].dead => es[n].fd \in FdsOf(conn_) \cup {}
  BY <1>3, <1>4 DEF Extends
<1>7. shut \subseteq shut' /\ shut' \subseteq 1 .. made
  BY <1>1, <1>2, Parts, Numbers DEF Types
<1>8. TornDown(es, f, {}, keep)
  BY <1>1, <1>4, <1>5, <1>6, <1>7 DEF TornDown
<1> QED
  BY <1>2, <1>8, TeardownInv

LEMMA HandlerEndInv == ASSUME Inv, HandlerEnd PROVE Inv'
<1>1. /\ pc \in {"drained", "error"} /\ pc' = "dispatch" /\ conn' = 0 /\ cur' = 0
      /\ UNCHANGED <<shut, pfds, expired, inbox, sent, rung, hungup>>
      /\ \/ state_ # "close" /\ Teardown(entries_, file, Timer(conn_), held)
         \/ /\ file' = Kept(file, {conn_} \cup held)
            /\ UNCHANGED <<state_, conn_, cstate, verify_timer_, closes, entries_, role, inside, held>>
  BY DEF HandlerEnd, peers
<1>2. CASE state_ # "close" /\ Teardown(entries_, file, Timer(conn_), held)
  <2>1. conn_ # 0 /\ pc # "destroyed"
    BY <1>1, <1>2, Parts DEF ConnInv, Types
  <2>2. entries_ \in Seq(Entries) /\ file \in [Fds -> 0 .. Len(role)] /\ shut \subseteq 1 .. made
    BY Parts DEF Types
  <2>3. Extends(entries_, entries_)
    BY DEF Extends
  <2>4. TornDown(entries_, file, Timer(conn_), held)
    BY <1>1, <1>2, <2>1, <2>2, <2>3, AliveTimer DEF TornDown
  <2> QED
    BY <2>1, <2>4, TeardownInv
<1>3. CASE /\ file' = Kept(file, {conn_} \cup held)
           /\ UNCHANGED <<state_, conn_, cstate, verify_timer_, closes, entries_, role, inside, held>>
  <2>1. file \in [Fds -> 0 .. Len(role)] /\ Len(role) \in Nat /\ made' = made
    BY <1>3, Parts DEF Types, made
  <2>2. /\ file' \in [Fds -> 0 .. Len(role)]
        /\ \A fd \in Fds : file[fd] \in DOMAIN role /\ role[file[fd]].conn = conn_ => file'[fd] = file[fd]
    <3> DEFINE keep == {conn_} \cup held
    <3>1. conn_ \in keep /\ file' = Kept(file, keep)
      BY <1>3
    <3> HIDE DEF keep
    <3> QED
      BY <2>1, <3>1, SMT DEF Kept
  <2>3. Types'
    <3>1. 0 \in 0 .. made /\ 0 \in 0 .. Len(role)
      BY Parts, SMT
    <3> QED
      BY <1>1, <1>3, <2>1, <2>2, <3>1, Parts DEF Types
  <2>4. ConnInv' /\ HandlerInv'
    BY <1>1, <1>3, <2>1, Parts DEF ConnInv, HandlerInv
  <2>5. Polls(entries_, file, role, conn_, Due)'
    <3>1. Polls(entries_, file', role, conn_, Due)
      BY <2>2, Parts, PollsClosing
    <3> QED
      BY <1>3, <3>1 DEF Due
  <2>6. Roles(role)' /\ Leads(pfds, entries_, role, hungup \cup shut)'
    BY <1>1, <1>3, Parts
  <2> QED
    BY <2>3, <2>4, <2>5, <2>6 DEF Inv
<1> QED
  BY <1>1, <1>2, <1>3

LEMMA DestroyInv == ASSUME Inv, Destroy PROVE Inv'
<1>1. /\ pc = "poll" /\ pc' = "destroyed" /\ conn_' = 0
      /\ cstate' = [k \in Conns |-> IF k = conn_ /\ Receiving(k) THEN "closeing" ELSE cstate[k]]
      /\ verify_timer_' = [k \in Conns |-> IF k = conn_ THEN 0 ELSE verify_timer_[k]]
      /\ UNCHANGED <<state_, shut, closes, role, inside, cur, conn, pfds, expired,
                     inbox, sent, rung, hungup, held>>
  BY DEF Destroy, peers
<1>2. \/ conn_ = 0 /\ UNCHANGED <<entries_, file>>
      \/ /\ conn_ # 0
         /\ entries_' = Removed(entries_, FdsOf(conn_) \cup Timer(conn_))
         /\ file' = Kept(TimersClosed(file, Timer(conn_)), held)
  BY DEF Destroy
<1>3. /\ entries_' \in Seq(Entries) /\ file' \in [Fds -> 0 .. Len(role)]
      /\ Extends(entries_', entries_) /\ \A n \in DOMAIN entries_' : entries_'[n].dead
  <2>1. entries_ \in Seq(Entries) /\ file \in [Fds -> 0 .. Len(role)] /\ Len(role) \in Nat
    BY Parts DEF Types
  <2>2. CASE conn_ = 0 /\ UNCHANGED <<entries_, file>>
    <3>1. \A n \in DOMAIN entries_ : ~entries_[n].dead => FALSE
      BY <2>2, Parts DEF Polls
    <3> QED
      BY <2>1, <2>2, <3>1, EntryFacts DEF Extends
  <2>3. CASE /\ conn_ # 0
             /\ entries_' = Removed(entries_, FdsOf(conn_) \cup Timer(conn_))
             /\ file' = Kept(TimersClosed(file, Timer(conn_)), held)
    <3> DEFINE S == FdsOf(conn_) \cup Timer(conn_)
    <3>1. \A n \in DOMAIN entries_ : ~entries_[n].dead => entries_[n].fd \in S
      BY <2>3, AliveTimer
    <3>2. entries_' = Removed(entries_, S)
      BY <2>3
    <3> HIDE DEF S
    <3>3. /\ entries_' \in Seq(Entries) /\ DOMAIN entries_' = DOMAIN entries_
          /\ \A n \in DOMAIN entries_ :
               /\ entries_'[n].reg = entries_[n].reg
               /\ entries_'[n].dead <=> entries_[n].dead \/ entries_[n].fd \in S
      BY <2>1, <3>2, RemovedFacts, SMT
    <3>4. Extends(entries_', entries_) /\ \A n \in DOMAIN entries_' : entries_'[n].dead
      BY <3>1, <3>3 DEF Extends
    <3>5. file' \in [Fds -> 0 .. Len(role)]
      BY <2>1, <2>3, ClosedKept
    <3> QED
      BY <3>3, <3>4, <3>5
  <2> QED
    BY <1>2, <2>2, <2>3
<1>4. made' = made /\ 0 \in 0 .. made
  BY <1>1, Parts, SMT DEF made
<1>5. /\ verify_timer_' \in [Conns -> Fds \cup {0}] /\ \A k \in Conns : verify_timer_'[k] = 0
      /\ cstate' \in [Conns -> {"none", "verifing", "established", "closeing", "closeed"}]
  <2>1. /\ verify_timer_ \in [Conns -> Fds \cup {0}] /\ \A k \in Conns : k # conn_ => verify_timer_[k] = 0
        /\ cstate \in [Conns -> {"none", "verifing", "established", "closeing", "closeed"}]
    BY Parts DEF Types, ConnInv
  <2>2. /\ cstate' \in [Conns -> {"none", "verifing", "established", "closeing", "closeed"}]
    BY <1>1, <2>1
  <2> QED
    BY <1>1, <2>1, <2>2
<1>6. Types'
  BY <1>1, <1>3, <1>4, <1>5, Parts DEF Types
<1>7. ConnInv' /\ HandlerInv'
  BY <1>1, <1>4, <1>5, Parts DEF ConnInv, HandlerInv
<1>8. Polls(entries_, file, role, conn_, Due)'
  <2>1. Polls(entries_', file', role', 0, 0) /\ Due' = 0
    BY <1>1, <1>3, PollsNone DEF Due
  <2> QED
    BY <1>1, <2>1
<1>9. Roles(role)' /\ Leads(pfds, entries_, role, hungup \cup shut)'
  <2>1. Leads(pfds, entries_', role, hungup \cup shut)
    BY <1>3, LeadsExtends
  <2> QED
    BY <1>1, <2>1, Parts
<1> QED
  BY <1>6, <1>7, <1>8, <1>9 DEF Inv

-----------------------------------------------------------------------------

LEMMA InitInv == Init => Inv
<1> SUFFICES ASSUME Init PROVE Inv
  OBVIOUS
<1>1. role = <<>> /\ made = 0
  BY DEF Init, made
<1>2. Roles(role)
  <2>1. Made(role) = 0 /\ Len(role) = 0 /\ DOMAIN role = {} /\ role \in Seq(Uses)
    BY <1>1, SMT DEF Made, made
  <2> QED
    BY <2>1, BoundsAssumption, SMT DEF Roles
<1>3. Types
  <2>1. 0 \in 0 .. 0 /\ 0 \in 0 .. MaxMessages
    BY BoundsAssumption, SMT
  <2>2. Len(role) = 0
    BY <1>1
  <2>3. entries_ \in Seq(Entries) /\ pfds \in Seq(Pollfds)
    BY SMT DEF Init
  <2>4. inbox \in [Conns -> Seq({"good", "bad"})]
    BY SMT DEF Init
  <2>5. closes \in [Conns -> Nat] /\ file \in [Fds -> 0 .. 0]
    BY <2>1 DEF Init
  <2>6. /\ cstate \in [Conns -> {"none", "verifing", "established", "closeing", "closeed"}]
        /\ verify_timer_ \in [Conns -> Fds \cup {0}]
    BY DEF Init
  <2>7. /\ state_ \in {"established", "close"} /\ conn_ = 0 /\ conn = 0 /\ cur = 0 /\ sent = 0
        /\ expired = {} /\ inside \in BOOLEAN /\ pc = "poll"
        /\ held = {} /\ rung = {} /\ hungup = {} /\ shut = {}
    BY DEF Init
  <2> QED
    BY <1>1, <2>1, <2>2, <2>3, <2>4, <2>5, <2>6, <2>7 DEF Types
<1>4. ConnInv /\ HandlerInv
  BY <1>1, SMT DEF Init, ConnInv, HandlerInv, Conns
<1>5. Polls(entries_, file, role, conn_, Due)
  <2>1. \A n \in DOMAIN entries_ : entries_[n].dead
    BY SMT DEF Init
  <2>2. conn_ = 0 /\ Due = 0
    BY DEF Init, Due
  <2> QED
    BY <2>1, <2>2, PollsNone
<1>6. Leads(pfds, entries_, role, hungup \cup shut)
  BY SMT DEF Init, Leads
<1> QED
  BY <1>2, <1>3, <1>4, <1>5, <1>6 DEF Inv

LEMMA StutterInv == ASSUME Inv, UNCHANGED vars PROVE Inv'
<1>1. UNCHANGED <<state_, conn_, cstate, verify_timer_, shut, closes, entries_, file, role, inside,
                  pc, cur, conn, pfds, expired, inbox, sent, rung, hungup, held>>
  BY DEF vars, client, conns, loop, handler, peers
<1>2. made' = made /\ Due' = Due
  BY <1>1 DEF made, Due
<1>3. Types'
  BY <1>1, <1>2, Parts DEF Types
<1>4. ConnInv' /\ HandlerInv'
  BY <1>1, <1>2, Parts DEF ConnInv, HandlerInv
<1>5. /\ Roles(role)' /\ Polls(entries_, file, role, conn_, Due)'
      /\ Leads(pfds, entries_, role, hungup \cup shut)'
  BY <1>1, <1>2, Parts
<1> QED
  BY <1>3, <1>4, <1>5 DEF Inv

LEMMA NextInv == Inv /\ [Next]_vars => Inv'
<1> SUFFICES ASSUME Inv, [Next]_vars PROVE Inv'
  OBVIOUS
<1>1. CASE Loop
  BY <1>1, PollInv, DispatchInv, RoundEndInv, DrainRingInv, CallbackReturnInv, HandlerEndInv DEF Loop
<1>2. CASE Application
  BY <1>2, ConnectInv, ConnectThrowsInv, CloseInv, DestroyInv, CloseConnectionInv,
     StartVerifyTimerInv, DropInv, OnVerifyInv DEF Application
<1>3. CASE Outside
  BY <1>3, PeerClosesInv, PeerSendsInv, TimerExpiresInv DEF Outside
<1>4. CASE UNCHANGED vars
  BY <1>4, StutterInv
<1> QED
  BY <1>1, <1>2, <1>3, <1>4 DEF Next

(* Inv is an invariant of the client: the entries of its loop are those of *)
(* the current connection and its timer, every other connection has been   *)
(* reported closed, and a handler runs for a connection that has ended or  *)
(* whose eventfd rang.                                                     *)
THEOREM Invariance == Spec => []Inv
<1>1. Init => Inv
  BY InitInv
<1>2. Inv /\ [Next]_vars => Inv'
  BY NextInv
<1> QED
  BY <1>1, <1>2, PTL DEF Spec

(* The uses of the entries that are no tombstones.                         *)
LEMMA UsesMatch ==
  ASSUME Inv
  PROVE  {role[entries_[n].reg] : n \in {m \in DOMAIN entries_ : ~entries_[m].dead}}
           = (IF conn_ = 0 THEN {} ELSE {Use(conn_, "notify"), Use(conn_, "socket")})
               \cup {Use(k, "timer") : k \in {j \in Conns : verify_timer_[j] # 0}}
<1> DEFINE alive == {m \in DOMAIN entries_ : ~entries_[m].dead}
           due == IF conn_ = 0 THEN {} ELSE {Use(conn_, "notify"), Use(conn_, "socket")}
           timed == {Use(k, "timer") : k \in {j \in Conns : verify_timer_[j] # 0}}
<1>1. /\ Polls(entries_, file, role, conn_, Due) /\ entries_ \in Seq(Entries) /\ role \in Seq(Uses)
      /\ \A j \in Conns : verify_timer_[j] # 0 => j = conn_ /\ conn_ # 0
      /\ Due = IF conn_ = 0 THEN 0 ELSE verify_timer_[conn_]
  BY Parts, SMT DEF ConnInv, Due, Conns
<1>2. ASSUME NEW n \in alive
      PROVE  /\ conn_ # 0 /\ conn_ \in Conns
             /\ \E u \in {"notify", "socket", "timer"} : role[entries_[n].reg] = Use(conn_, u)
             /\ role[entries_[n].reg].use = "timer" => verify_timer_[conn_] # 0
  <2>1. /\ entries_[n].reg \in DOMAIN role /\ conn_ # 0 /\ role[entries_[n].reg].conn = conn_
        /\ role[entries_[n].reg].use = "timer" => entries_[n].fd = Due
    BY <1>1 DEF Polls
  <2>2. role[entries_[n].reg] \in Uses /\ entries_[n].fd # 0
    <3>1. role[entries_[n].reg] \in Uses
      BY <1>1, <2>1, UseFacts
    <3>2. entries_[n].fd \in Fds
      BY <1>1, EntryFacts
    <3> QED
      BY <3>1, <3>2, LoopAssumptions
  <2>3. \E u \in {"notify", "socket", "timer"} : role[entries_[n].reg] = Use(conn_, u)
    BY <2>1, <2>2 DEF Uses, Use
  <2>4. conn_ \in Conns
    BY <2>1, <2>2 DEF Uses
  <2> QED
    BY <1>1, <2>1, <2>2, <2>3, <2>4
<1>3. \A u : Use(conn_, u).use = u
  BY DEF Use
<1>4. ASSUME NEW n \in alive PROVE role[entries_[n].reg] \in due \cup timed
  <2>1. PICK u \in {"notify", "socket", "timer"} : role[entries_[n].reg] = Use(conn_, u)
    BY <1>2
  <2>2. u = "timer" => verify_timer_[conn_] # 0
    BY <1>2, <1>3, <2>1
  <2> QED
    BY <1>2, <2>1, <2>2
<1>5. ASSUME NEW u \in {"notify", "socket", "timer"}, conn_ # 0,
             u = "timer" => verify_timer_[conn_] # 0
      PROVE  \E n \in alive : role[entries_[n].reg] = Use(conn_, u)
  <2>1. PICK n \in alive : role[entries_[n].reg].use = u
    <3>1. CASE u = "timer"
      BY <1>1, <1>5, <3>1 DEF Polls
    <3>2. CASE u # "timer"
      BY <1>1, <1>5, <3>2 DEF Polls
    <3> QED
      BY <3>1, <3>2
  <2> QED
    BY <1>2, <1>3, <2>1, SMT
<1>6. ASSUME NEW w \in due \cup timed PROVE \E n \in alive : role[entries_[n].reg] = w
  <2>1. CASE w \in due
    BY <1>5, <2>1
  <2>2. CASE w \in timed
    <3>1. PICK k \in Conns : verify_timer_[k] # 0 /\ w = Use(k, "timer")
      BY <2>2
    <3>2. k = conn_ /\ conn_ # 0
      BY <1>1, <3>1
    <3> QED
      BY <1>5, <3>1, <3>2
  <2> QED
    BY <2>1, <2>2
<1> HIDE DEF due, timed
<1>7. {role[entries_[n].reg] : n \in alive} = due \cup timed
  BY <1>4, <1>6, SMT
<1> QED
  BY <1>7 DEF due, timed

(* For every set of fd numbers and any number of connections and timers:   *)
(* the loop polls the two fds of conn_ and its verify timer, one entry     *)
(* each, under the number of its own file.                                 *)
THEOREM LoopMatchesCorrect == Spec => []LoopMatches
<1>1. Inv => LoopMatches
  <2> SUFFICES ASSUME Inv PROVE LoopMatches
    OBVIOUS
  <2>1. TypeOK
    <3>1. Entries = [fd : Fds, reg : 1 .. MaxRegs, dead : BOOLEAN]
      BY DEF Entries
    <3>2. role \in Seq([conn : Conns, use : {"notify", "socket", "timer"}])
      BY Parts DEF Uses
    <3>3. pc = "drain" => conn # 0
      BY Parts DEF HandlerInv
    <3>4. UNION {held, rung, hungup, shut} \subseteq 1 .. made
      BY Parts DEF Types
    <3> QED
      BY <3>1, <3>2, <3>3, <3>4, Parts DEF Types, TypeOK
  <2> DEFINE alive == {n \in DOMAIN entries_ : ~entries_[n].dead}
             used == {role[entries_[n].reg] : n \in alive}
             due == (IF conn_ = 0 THEN {} ELSE {Use(conn_, "notify"), Use(conn_, "socket")})
                      \cup {Use(k, "timer") : k \in {j \in Conns : verify_timer_[j] # 0}}
  <2>2. used = due
    BY UsesMatch
  <2>3. \A j, n \in alive : role[entries_[j].reg] = role[entries_[n].reg] => j = n
    <3>1. Polls(entries_, file, role, conn_, Due)
      BY Parts
    <3> QED
      BY <3>1 DEF Polls
  <2>4. ASSUME NEW n \in alive
        PROVE  /\ file[entries_[n].fd] = entries_[n].reg
               /\ role[entries_[n].reg].use = "timer" =>
                    verify_timer_[role[entries_[n].reg].conn] = entries_[n].fd
               /\ role[entries_[n].reg].conn \in Referenced
    <3>1. Polls(entries_, file, role, conn_, Due)
      BY Parts
    <3>2. /\ file[entries_[n].fd] = entries_[n].reg
          /\ conn_ # 0 /\ role[entries_[n].reg].conn = conn_
          /\ role[entries_[n].reg].use = "timer" => entries_[n].fd = Due
      BY <3>1 DEF Polls
    <3> QED
      BY <3>2 DEF Due, Referenced
  <2> QED
    BY <2>1, <2>2, <2>3, <2>4 DEF LoopMatches
<1> QED
  BY <1>1, Invariance, PTL

(* In any number of connections: between handlers every connection made    *)
(* before the current one has been reported to the close callback, once.   *)
THEOREM EveryCloseReportedCorrect == Spec => []EveryCloseReported
<1>1. Inv => EveryCloseReported
  <2> SUFFICES ASSUME Inv, pc = "poll", NEW k \in 1 .. made
               PROVE  closes[k] = IF k = conn_ THEN 0 ELSE 1
    BY DEF EveryCloseReported
  <2>1. k \in Conns /\ k <= made
    BY Numbers, SMT
  <2> QED
    BY <2>1, Parts DEF ConnInv
<1> QED
  BY <1>1, Invariance, PTL

(* The steps that run the close callback.                                  *)
LEMMA Reasons ==
  ASSUME Inv, Next, ~inside, NEW k \in Conns, closes'[k] # closes[k]
  PROVE  HasReason(k)
<1>1. Close \/ HandlerEnd
  <2>1. CASE Loop
    <3>1. CASE Dispatch
      BY <3>1 DEF Dispatch
    <3>2. CASE Poll \/ RoundEnd \/ DrainRing \/ CallbackReturn
      BY <3>2 DEF Poll, RoundEnd, DrainRing, CallbackReturn, client, conns
    <3> QED
      BY <2>1, <3>1, <3>2 DEF Loop
  <2>2. CASE Application
    <3>1. CASE Connect \/ ConnectThrows \/ Destroy
      BY <3>1 DEF Connect, ConnectThrows, Destroy
    <3>2. ASSUME NEW j \in Conns, CloseConnection(j) \/ StartVerifyTimer(j) \/ Drop(j)
          PROVE  FALSE
      BY <3>2 DEF CloseConnection, StartVerifyTimer, Drop, conns
    <3>3. ASSUME NEW j \in Conns, NEW succ \in BOOLEAN, OnVerify(j, succ) PROVE FALSE
      BY <3>3 DEF OnVerify
    <3> QED
      BY <2>2, <3>1, <3>2, <3>3 DEF Application
  <2>3. CASE Outside
    BY <2>3 DEF Outside, PeerCloses, PeerSends, TimerExpires, client, conns
  <2> QED
    BY <2>1, <2>2, <2>3 DEF Next
<1>2. /\ closes \in [Conns -> Nat]
      /\ state_ = "established" /\ pc # "destroyed" =>
           conn_ # 0 /\ cstate[conn_] \in {"verifing", "established", "closeing"}
      /\ state_ # "close" => state_ = "established"
      /\ pc # "destroyed" => \A j \in Conns : cstate[j] = "closeing" => j \in shut
  BY Parts DEF Types, ConnInv
<1>3. CASE Close
  <2>1. /\ pc # "destroyed" /\ state_ = "established"
        /\ shut' = IF Receiving(conn_) THEN shut \cup {conn_} ELSE shut
        /\ closes' = [closes EXCEPT ![conn_] = IF cstate[conn_] # "closeed" THEN @ + 1 ELSE @]
    BY <1>3 DEF Close, Calling, Teardown
  <2>2. k = conn_
    BY <1>2, <2>1
  <2>3. k \in shut'
    BY <1>2, <2>1, <2>2 DEF Receiving
  <2> QED
    BY <2>3 DEF HasReason
<1>4. CASE HandlerEnd
  <2>1. /\ pc \in {"drained", "error"} /\ shut' = shut
        /\ state_ # "close" /\ (role[cur].use = "socket" \/ HandlerFails)
        /\ closes' = [closes EXCEPT ![conn_] = IF cstate[conn_] # "closeed" THEN @ + 1 ELSE @]
    BY <1>4 DEF HandlerEnd, Teardown
  <2>2. k = conn_
    BY <1>2, <2>1
  <2>3. /\ conn # 0 /\ (role[cur].use = "socket" => conn \in hungup \cup shut)
        /\ conn_ \in {0, conn}
        /\ pc = "error" => inbox[conn] # <<>> /\ Head(inbox[conn]) = "bad"
    BY <2>1, Parts DEF HandlerInv
  <2>4. k = conn
    BY <1>2, <2>1, <2>2, <2>3
  <2> QED
    BY <1>2, <2>1, <2>3, <2>4 DEF HandlerFails, HasReason
<1> QED
  BY <1>1, <1>3, <1>4

(* An application that connects outside callbacks hears of the end of a    *)
(* connection only when that connection's peer or the application ended    *)
(* it, or a package of that connection was rejected.                       *)
THEOREM OwnCloseOutsideCorrect == Spec => OwnCloseOutside
<1>1. Inv /\ [Next]_vars =>
        [~inside => \A k \in Conns : closes'[k] # closes[k] => HasReason(k)]_vars
  BY Reasons
<1> QED
  BY <1>1, Invariance, PTL DEF Spec, OwnCloseOutside

=============================================================================
