-------------------------- MODULE ShmAsyncClientInv -------------------------
(***************************************************************************)
(* The inductive invariant of ShmAsyncClient, what its operators do to the *)
(* parts of it, and the steps that neither make nor end a connection: the  *)
(* lemmas that ShmAsyncClientProofs rests on.                              *)
(***************************************************************************)
EXTENDS ShmAsyncClient, LoopEntriesProofs

(* Most leaves are first-order: Zenon is the prover unless one cites SMT.  *)
USE Zenon

-----------------------------------------------------------------------------
(* The inductive invariant.                                                *)

Entries == [fd : Fds, reg : 1 .. MaxRegs, dead : BOOLEAN]
Pollfds == [idx : Nat, fd : Fds, revents : BOOLEAN]
Uses == [conn : Conns, use : {"notify", "socket", "timer"}]

(* The number of connections that the registrations ro are for.            *)
Made(ro) == IF ro = <<>> THEN 0 ELSE ro[Len(ro)].conn

(* The roles: every registration is for a connection made.                 *)
Roles(ro) ==
  /\ ro \in Seq(Uses)
  /\ Made(ro) \in 0 .. MaxConns /\ Len(ro) - 2 * Made(ro) \in 0 .. MaxTimers
  /\ \A r \in DOMAIN ro : ro[r].conn <= Made(ro)

(* The entries es that are no tombstones are those of the fds of the       *)
(* connection c, none when it is 0, and of its timer with the number v,    *)
(* none when it is 0; one each, under the number of its own file.          *)
Polls(es, f, ro, c, v) ==
  /\ \A n \in DOMAIN es : ~es[n].dead =>
       /\ es[n].reg \in DOMAIN ro /\ f[es[n].fd] = es[n].reg
       /\ c # 0 /\ ro[es[n].reg].conn = c
       /\ ro[es[n].reg].use = "timer" => es[n].fd = v
  /\ c # 0 => \A u \in {"notify", "socket"} :
                \E n \in DOMAIN es : ~es[n].dead /\ ro[es[n].reg].use = u
  /\ v # 0 => \E n \in DOMAIN es : ~es[n].dead /\ ro[es[n].reg].use = "timer"
  /\ \A j, n \in DOMAIN es :
       ~es[j].dead /\ ~es[n].dead /\ ro[es[j].reg].use = ro[es[n].reg].use => j = n

(* The number of the timer of conn_, or 0.                                 *)
Due == IF conn_ = 0 THEN 0 ELSE verify_timer_[conn_]

(* The pollfds ps lead to entries es, and those to a socket that is no     *)
(* tombstone to one of a connection in ended.                              *)
Leads(ps, es, ro, ended) ==
  \A n \in DOMAIN ps :
    /\ ps[n].idx \in DOMAIN es
    /\ ~es[ps[n].idx].dead /\ ro[es[ps[n].idx].reg].use = "socket"
         => ro[es[ps[n].idx].reg].conn \in ended

Types ==
  /\ state_ \in {"established", "close"} /\ conn_ \in 0 .. made
  /\ cstate \in [Conns -> {"none", "verifing", "established", "closeing", "closeed"}]
  /\ verify_timer_ \in [Conns -> Fds \cup {0}]
  /\ entries_ \in Seq(Entries) /\ pfds \in Seq(Pollfds)
  /\ file \in [Fds -> 0 .. Len(role)]
  /\ expired \subseteq DOMAIN role /\ inside \in BOOLEAN
  /\ pc \in {"poll", "dispatch", "drain", "callback", "drained", "error", "destroyed"}
  /\ cur \in 0 .. Len(role) /\ conn \in 0 .. made
  /\ inbox \in [Conns -> Seq({"good", "bad"})] /\ sent \in 0 .. MaxMessages
  /\ held \subseteq 1 .. made /\ rung \subseteq 1 .. made
  /\ hungup \subseteq 1 .. made /\ shut \subseteq 1 .. made
  /\ closes \in [Conns -> Nat]

(* The connections: the current one is the last one made, and only it has  *)
(* a timer; every other has been reported closed, and one that is closing  *)
(* has had its socket shut down.                                           *)
ConnInv ==
  /\ state_ = "established" => conn_ # 0 \/ pc = "destroyed"
  /\ pc = "destroyed" => conn_ = 0
  /\ conn_ \in {0, made}
  /\ conn_ # 0 => cstate[conn_] \in {"verifing", "established", "closeing"}
  /\ \A k \in Conns : k # conn_ => verify_timer_[k] = 0
  /\ \A k \in Conns : k > made => closes[k] = 0
  /\ pc # "destroyed" =>
       \A k \in Conns : /\ k <= made => closes[k] = IF k = conn_ THEN 0 ELSE 1
                        /\ cstate[k] = "closeing" => k \in shut

(* The handler that runs: it was called for the connection in its local,   *)
(* by OnSocket because that has ended, and finds that connection in conn_  *)
(* as long as no callback has connected again.                             *)
HandlerInv ==
  /\ pc \in {"poll", "dispatch", "destroyed"} => conn = 0
  /\ pc \in {"drain", "drained", "error"} => conn # 0
  /\ conn # 0 => /\ cur # 0
                 /\ role[cur].use = "socket" => conn \in hungup \cup shut
                 /\ ~inside => conn_ \in {0, conn}
  /\ pc = "error" => inbox[conn] # <<>> /\ Head(inbox[conn]) = "bad"

Inv ==
  /\ Types /\ Roles(role) /\ ConnInv /\ HandlerInv
  /\ Polls(entries_, file, role, conn_, Due)
  /\ Leads(pfds, entries_, role, hungup \cup shut)

-----------------------------------------------------------------------------
(* The operators.                                                          *)

(* What the loop's proofs assume of its constants.                         *)
LEMMA LoopAssumptions ==
  (Fds \subseteq Nat /\ Fds # {}) /\ MaxRegs \in Nat /\ 0 \notin Fds
  BY FdsAssumption, BoundsAssumption, SMT DEF MaxRegs

LEMMA EntryFacts ==
  ASSUME NEW es \in Seq(Entries)
  PROVE  /\ Len(es) \in Nat /\ DOMAIN es = 1 .. Len(es)
         /\ \A k \in DOMAIN es : /\ es[k] \in Entries
                                 /\ es[k].fd \in Fds /\ es[k].reg \in 1 .. MaxRegs
                                 /\ es[k].dead \in BOOLEAN
<1>1. /\ Len(es) \in Nat /\ DOMAIN es = 1 .. Len(es)
      /\ \A k \in DOMAIN es : es[k] \in Entries
  BY SMT
<1> QED
  BY <1>1 DEF Entries

LEMMA UseFacts ==
  ASSUME NEW ro \in Seq(Uses)
  PROVE  /\ Len(ro) \in Nat /\ DOMAIN ro = 1 .. Len(ro)
         /\ \A r \in DOMAIN ro : /\ ro[r] \in Uses
                                 /\ ro[r].conn \in Conns /\ ro[r].use \in {"notify", "socket", "timer"}
<1>1. /\ Len(ro) \in Nat /\ DOMAIN ro = 1 .. Len(ro)
      /\ \A r \in DOMAIN ro : ro[r] \in Uses
  BY SMT
<1> QED
  BY <1>1 DEF Uses

(* Removed keeps fds and registrations and makes tombstones.               *)
LEMMA RemovedFacts ==
  ASSUME NEW es \in Seq(Entries), NEW S, NEW t, t = Removed(es, S)
  PROVE  /\ t \in Seq(Entries) /\ DOMAIN t = DOMAIN es
         /\ \A n \in DOMAIN es :
              /\ t[n].fd = es[n].fd /\ t[n].reg = es[n].reg
              /\ t[n].dead <=> es[n].dead \/ es[n].fd \in S
<1>1. /\ Len(es) \in Nat /\ DOMAIN es = 1 .. Len(es)
      /\ \A k \in DOMAIN es : es[k] \in Entries
  BY EntryFacts
<1>2. DOMAIN t = DOMAIN es /\ \A n \in DOMAIN es :
        t[n] = IF es[n].fd \in S THEN [es[n] EXCEPT !.dead = TRUE] ELSE es[n]
  BY DEF Removed
<1>3. ASSUME NEW e \in Entries, NEW u, u = IF e.fd \in S THEN [e EXCEPT !.dead = TRUE] ELSE e
      PROVE  u \in Entries /\ u.fd = e.fd /\ u.reg = e.reg /\ (u.dead <=> e.dead \/ e.fd \in S)
  <2>1. CASE e.fd \in S
    BY <1>3, <2>1 DEF Entries
  <2>2. CASE e.fd \notin S
    BY <1>3, <2>2
  <2> QED
    BY <2>1, <2>2
<1>4. \A n \in DOMAIN es :
        /\ t[n] \in Entries /\ t[n].fd = es[n].fd /\ t[n].reg = es[n].reg
        /\ t[n].dead <=> es[n].dead \/ es[n].fd \in S
  BY <1>1, <1>2, <1>3
<1>5. t \in [1 .. Len(es) -> Entries]
  <2>1. t = [n \in DOMAIN es |-> t[n]]
    BY <1>2 DEF Removed
  <2> QED
    BY <1>1, <1>4, <2>1
<1>6. t \in Seq(Entries)
  BY <1>1, <1>5, SMT
<1> QED
  BY <1>2, <1>4, <1>6

(* RemoveTimer leaves the other files as they are.                         *)
LEMMA TimersClosedFacts ==
  ASSUME NEW N, NEW f \in [Fds -> 0 .. N], N \in Nat, NEW S
  PROVE  /\ TimersClosed(f, S) \in [Fds -> 0 .. N]
         /\ \A fd \in Fds \ S : TimersClosed(f, S)[fd] = f[fd]
         /\ \A fd \in Fds : f[fd] \notin DOMAIN role => TimersClosed(f, S)[fd] = f[fd]
  BY SMT DEF TimersClosed

(* ~ShmConnection leaves the files of timers and of other connections.     *)
LEMMA KeptFacts ==
  ASSUME NEW N, NEW f \in [Fds -> 0 .. N], N \in Nat, NEW keep
  PROVE  /\ Kept(f, keep) \in [Fds -> 0 .. N]
         /\ \A fd \in Fds : f[fd] \notin DOMAIN role => Kept(f, keep)[fd] = f[fd]
         /\ \A fd \in Fds : f[fd] \in DOMAIN role /\ role[f[fd]].conn \in keep =>
              Kept(f, keep)[fd] = f[fd]
  BY SMT DEF Kept

(* The smallest free number is a free number.                              *)
LEMMA FreeFdFacts ==
  ASSUME NEW f, \E fd \in Fds : f[fd] = 0
  PROVE  FreeFd(f) \in Fds /\ f[FreeFd(f)] = 0
<1> DEFINE S == {fd \in Fds : f[fd] = 0}
<1>1. S \in SUBSET Nat /\ S # {}
  BY LoopAssumptions
<1>2. \E x \in S : \A y \in S : x <= y
  <2> HIDE DEF S
  <2> QED
    BY <1>1, LeastNat
<1>3. \E fd \in Fds : f[fd] = 0 /\ \A g \in Fds : g < fd => f[g] # 0
  BY <1>1, <1>2, LoopAssumptions, SMT
<1> QED
  BY <1>3 DEF FreeFd

(* Of two free numbers the socket gets one and the eventfd the other.      *)
LEMMA OpenedFacts ==
  ASSUME NEW N, NEW f \in [Fds -> 0 .. N], N = Len(role), N \in Nat,
         TwoFree(f)
  PROVE  /\ EventFd(f) \in Fds /\ FreeFd(f) \in Fds /\ EventFd(f) # FreeFd(f)
         /\ f[EventFd(f)] = 0 /\ f[FreeFd(f)] = 0
         /\ Opened(f) \in [Fds -> 0 .. N + 2]
         /\ Opened(f)[EventFd(f)] = N + 1 /\ Opened(f)[FreeFd(f)] = N + 2
         /\ \A h \in Fds \ {EventFd(f), FreeFd(f)} : Opened(f)[h] = f[h]
<1> DEFINE a == EventFd(f)
           b == FreeFd(f)
           S == {fd \in Fds : f[fd] = 0}
           f1 == [f EXCEPT ![b] = 1]
<1>1. S # {}
  BY DEF TwoFree
<1>2. b \in Fds /\ f[b] = 0
  BY <1>1, FreeFdFacts
<1>3. \E x \in S : x # b
  BY SMT DEF TwoFree
<1>4. \E fd \in Fds : f1[fd] = 0
  BY <1>3
<1>5. a \in Fds /\ f1[a] = 0
  <2>1. a = FreeFd(f1)
    BY DEF EventFd
  <2> HIDE DEF f1
  <2> QED
    BY <1>4, <2>1, FreeFdFacts
<1>6. f1[b] = 1 /\ \A h \in Fds \ {b} : f1[h] = f[h]
  BY <1>2
<1>7. a # b /\ f[a] = 0
  BY <1>2, <1>5, <1>6, SMT
<1>8. Opened(f) = [f EXCEPT ![a] = N + 1, ![b] = N + 2]
  BY DEF Opened
<1> HIDE DEF a, b
<1>9. /\ Opened(f) \in [Fds -> 0 .. N + 2]
      /\ Opened(f)[a] = N + 1 /\ Opened(f)[b] = N + 2
      /\ \A h \in Fds \ {a, b} : Opened(f)[h] = f[h]
  BY <1>2, <1>5, <1>7, <1>8, SMT
<1> QED
  BY <1>2, <1>5, <1>7, <1>9 DEF a, b

(* The number of connections made.                                         *)
LEMMA MadeFacts ==
  ASSUME NEW ro \in Seq(Uses)
  PROVE  /\ Made(ro) \in Nat
         /\ \A k : Made(Append(ro, Use(k, "timer"))) = k
         /\ \A k : Made(ro \o <<Use(k, "notify"), Use(k, "socket")>>) = k
<1>1. Len(ro) \in Nat
  BY SMT
<1>2. Made(ro) \in Nat
  <2>1. ro # <<>> => Len(ro) \in DOMAIN ro
    BY SMT
  <2> QED
    BY <2>1, UseFacts, SMT DEF Made, Conns
<1>3. ASSUME NEW k PROVE Made(Append(ro, Use(k, "timer"))) = k
  <2> DEFINE t == Append(ro, Use(k, "timer"))
  <2>1. Len(t) = Len(ro) + 1 /\ t[Len(ro) + 1].conn = k
    BY <1>1, SMT DEF Use
  <2>2. t # <<>>
    BY <1>1, SMT
  <2> QED
    BY <2>1, <2>2 DEF Made
<1>4. ASSUME NEW k
      PROVE  Made(ro \o <<Use(k, "notify"), Use(k, "socket")>>) = k
  <2> DEFINE t == ro \o <<Use(k, "notify"), Use(k, "socket")>>
  <2>1. Len(t) = Len(ro) + 2 /\ t[Len(ro) + 2].conn = k
    BY <1>1, SMT DEF Use
  <2>2. t # <<>>
    BY <1>1, SMT
  <2> QED
    BY <2>1, <2>2 DEF Made
<1> QED
  BY <1>2, <1>3, <1>4

-----------------------------------------------------------------------------
(* What the operations do to the entries.                                  *)

(* The verify timer is removed: by its number, which is nobody else's.     *)
LEMMA PollsTimerGone ==
  ASSUME NEW es \in Seq(Entries), NEW f, NEW ro, NEW c, NEW v \in Fds \cup {0},
         Polls(es, f, ro, c, v), NEW t, t = Removed(es, {v} \ {0}),
         NEW g, \A fd \in Fds \ ({v} \ {0}) : g[fd] = f[fd]
  PROVE  Polls(t, g, ro, c, 0)
<1>1. /\ DOMAIN t = DOMAIN es
      /\ \A n \in DOMAIN es : /\ t[n].fd = es[n].fd /\ t[n].reg = es[n].reg
                              /\ t[n].dead <=> es[n].dead \/ es[n].fd \in {v} \ {0}
  BY RemovedFacts, SMT
<1>2. \A n \in DOMAIN es : es[n].fd \in Fds /\ es[n].fd # 0
  BY EntryFacts, LoopAssumptions
<1>3. ASSUME NEW n \in DOMAIN es, ~es[n].dead
      PROVE  es[n].fd \in {v} \ {0} <=> ro[es[n].reg].use = "timer"
  <2>1. ro[es[n].reg].use = "timer" => es[n].fd \in {v} \ {0}
    BY <1>2, <1>3 DEF Polls
  <2>2. ASSUME es[n].fd \in {v} \ {0} PROVE ro[es[n].reg].use = "timer"
    <3>1. v # 0 /\ es[n].fd = v
      BY <2>2
    <3>2. PICK m \in DOMAIN es : ~es[m].dead /\ ro[es[m].reg].use = "timer"
      BY <3>1 DEF Polls
    <3>3. es[m].fd = v /\ f[v] = es[m].reg /\ f[v] = es[n].reg
      BY <1>3, <3>1, <3>2, SMT DEF Polls
    <3> QED
      BY <3>2, <3>3
  <2> QED
    BY <2>1, <2>2
<1>4. \A n \in DOMAIN es : ~t[n].dead <=> ~es[n].dead /\ ro[es[n].reg].use # "timer"
  BY <1>1, <1>3
<1>5. ASSUME NEW n \in DOMAIN t, ~t[n].dead
      PROVE  /\ t[n].reg \in DOMAIN ro /\ g[t[n].fd] = t[n].reg
             /\ c # 0 /\ ro[t[n].reg].conn = c /\ ro[t[n].reg].use # "timer"
  <2>1. n \in DOMAIN es /\ ~es[n].dead /\ es[n].fd \notin {v} \ {0} /\ ro[es[n].reg].use # "timer"
    BY <1>1, <1>4, <1>5
  <2>2. /\ es[n].reg \in DOMAIN ro /\ f[es[n].fd] = es[n].reg /\ c # 0 /\ ro[es[n].reg].conn = c
    BY <2>1 DEF Polls
  <2>3. g[es[n].fd] = f[es[n].fd] /\ t[n].fd = es[n].fd /\ t[n].reg = es[n].reg
    BY <1>1, <1>2, <2>1
  <2> QED
    BY <2>1, <2>2, <2>3
<1>6. ASSUME c # 0, NEW u \in {"notify", "socket"}
      PROVE  \E n \in DOMAIN t : ~t[n].dead /\ ro[t[n].reg].use = u
  <2>1. PICK n \in DOMAIN es : ~es[n].dead /\ ro[es[n].reg].use = u
    BY <1>6 DEF Polls
  <2> QED
    BY <1>1, <1>4, <2>1
<1>7. ASSUME NEW j \in DOMAIN t, NEW n \in DOMAIN t,
             ~t[j].dead, ~t[n].dead, ro[t[j].reg].use = ro[t[n].reg].use
      PROVE  j = n
  <2>1. /\ j \in DOMAIN es /\ n \in DOMAIN es /\ ~es[j].dead /\ ~es[n].dead
        /\ ro[es[j].reg].use = ro[es[n].reg].use
    BY <1>1, <1>4, <1>7
  <2> QED
    BY <2>1 DEF Polls
<1> QED
  BY <1>5, <1>6, <1>7, ZenonT(30) DEF Polls

(* Every entry that is no tombstone has the number of one of the fds of    *)
(* conn_ or of its timer: Teardown and the destructor leave none.          *)
LEMMA AliveNumbers ==
  ASSUME entries_ \in Seq(Entries), file \in [Fds -> 0 .. Len(role)], role \in Seq(Uses),
         NEW v, Polls(entries_, file, role, conn_, v),
         NEW n \in DOMAIN entries_, ~entries_[n].dead
  PROVE  entries_[n].fd \in FdsOf(conn_) \/ (entries_[n].fd = v /\ v # 0)
<1>1. entries_[n].fd \in Fds /\ entries_[n].fd # 0 /\ entries_[n].reg \in 1 .. MaxRegs
  BY EntryFacts, LoopAssumptions
<1>2. /\ file[entries_[n].fd] = entries_[n].reg /\ role[entries_[n].reg].conn = conn_
      /\ role[entries_[n].reg].use = "timer" => entries_[n].fd = v
  BY DEF Polls
<1>3. file[entries_[n].fd] # 0
  BY <1>1, <1>2, SMT
<1> QED
  BY <1>1, <1>2, <1>3 DEF FdsOf

(* What it takes to be the entries of a connection without a timer.        *)
Two(t, g, ro, k, x, y) ==
  /\ k # 0 /\ x \in DOMAIN t /\ y \in DOMAIN t
  /\ ~t[x].dead /\ t[x].reg \in DOMAIN ro /\ g[t[x].fd] = t[x].reg
  /\ ro[t[x].reg].use = "notify" /\ ro[t[x].reg].conn = k
  /\ ~t[y].dead /\ t[y].reg \in DOMAIN ro /\ g[t[y].fd] = t[y].reg
  /\ ro[t[y].reg].use = "socket" /\ ro[t[y].reg].conn = k
  /\ \A n \in DOMAIN t : ~t[n].dead => n = x \/ n = y

LEMMA PollsTwo ==
  ASSUME NEW t, NEW g, NEW ro, NEW k, NEW x, NEW y, Two(t, g, ro, k, x, y)
  PROVE  Polls(t, g, ro, k, 0)
<1> USE DEF Two
<1>1. \A n \in DOMAIN t : ~t[n].dead =>
         /\ t[n].reg \in DOMAIN ro /\ g[t[n].fd] = t[n].reg
         /\ ro[t[n].reg].conn = k /\ ro[t[n].reg].use # "timer"
  OBVIOUS
<1>2. \A u \in {"notify", "socket"} : \E n \in DOMAIN t : ~t[n].dead /\ ro[t[n].reg].use = u
  OBVIOUS
<1>3. \A j, n \in DOMAIN t :
        ~t[j].dead /\ ~t[n].dead /\ ro[t[j].reg].use = ro[t[n].reg].use => j = n
  OBVIOUS
<1> QED
  BY <1>1, <1>2, <1>3 DEF Polls

LEMMA TwoMore ==
  ASSUME NEW l \in Nat
  PROVE  /\ l + 1 \in 1 .. l + 2 /\ l + 2 \in 1 .. l + 2 /\ l + 1 # l + 2
         /\ \A n \in 1 .. l + 2 : n \in 1 .. l \/ n = l + 1 \/ n = l + 2
  BY SMT

(* A connection is made when there is none: f has two free numbers, and    *)
(* the entries left are those that the numbers in S remove.                *)
LEMMA PollsConnected ==
  ASSUME NEW es \in Seq(Entries), role \in Seq(Uses), NEW k \in Conns,
         NEW f \in [Fds -> 0 .. Len(role)], Len(role) + 2 <= MaxRegs,
         TwoFree(f),
         NEW S, \A fd \in Fds \cap S : f[fd] # 0,
         \A n \in DOMAIN es : ~es[n].dead => es[n].fd \in S,
         NEW t, t = Removed(es \o <<Entry(EventFd(f), Len(role) + 1),
                                    Entry(FreeFd(f), Len(role) + 2)>>, S),
         NEW g, \A h \in Fds : Opened(f)[h] \notin DOMAIN role => g[h] = Opened(f)[h],
         NEW ro, ro = role \o <<Use(k, "notify"), Use(k, "socket")>>
  PROVE  Polls(t, g, ro, k, 0) /\ t \in Seq(Entries)
<1> DEFINE N == Len(role)
           a == EventFd(f)
           b == FreeFd(f)
           l == Len(es)
           new == <<Entry(a, N + 1), Entry(b, N + 2)>>
           all == es \o new
<1>1. N \in Nat /\ DOMAIN role = 1 .. N
  BY UseFacts
<1>2. /\ a \in Fds /\ b \in Fds /\ a # b /\ f[a] = 0 /\ f[b] = 0
      /\ Opened(f)[a] = N + 1 /\ Opened(f)[b] = N + 2
  BY <1>1, OpenedFacts
<1>3. /\ ro[N + 1] = Use(k, "notify") /\ ro[N + 2] = Use(k, "socket")
      /\ N + 1 \in DOMAIN ro /\ N + 2 \in DOMAIN ro
  BY <1>1, SMT
<1>4. g[a] = N + 1 /\ g[b] = N + 2
  BY <1>1, <1>2, SMT
<1> HIDE DEF a, b
<1>5. Entry(a, N + 1) \in Entries /\ Entry(b, N + 2) \in Entries
  BY <1>1, <1>2, LoopAssumptions, SMT DEF Entry, Entries
<1>6. l \in Nat /\ DOMAIN es = 1 .. l
  BY EntryFacts
<1>7. /\ all \in Seq(Entries) /\ DOMAIN all = 1 .. l + 2
      /\ \A n \in 1 .. l : all[n] = es[n]
      /\ all[l + 1] = Entry(a, N + 1) /\ all[l + 2] = Entry(b, N + 2)
  BY <1>5, <1>6, SMT
<1>8. t = Removed(all, S)
  BY DEF a, b
<1> HIDE DEF all, l, N
<1>9. /\ t \in Seq(Entries) /\ DOMAIN t = DOMAIN all
      /\ \A n \in DOMAIN all : /\ t[n].fd = all[n].fd /\ t[n].reg = all[n].reg
                               /\ t[n].dead <=> all[n].dead \/ all[n].fd \in S
  BY <1>7, <1>8, RemovedFacts
<1>10. /\ l + 1 \in DOMAIN t /\ l + 2 \in DOMAIN t /\ l + 1 # l + 2
       /\ \A n \in DOMAIN t : n \in 1 .. l \/ n = l + 1 \/ n = l + 2
  <2>1. DOMAIN t = 1 .. l + 2
    BY <1>7, <1>9
  <2> QED
    BY <1>6, <2>1, TwoMore
<1>11. a \notin S /\ b \notin S
  BY <1>2
<1>12. /\ t[l + 1].fd = a /\ t[l + 1].reg = N + 1 /\ ~t[l + 1].dead
       /\ t[l + 2].fd = b /\ t[l + 2].reg = N + 2 /\ ~t[l + 2].dead
  <2>1. l + 1 \in DOMAIN all /\ l + 2 \in DOMAIN all
    BY <1>9, <1>10
  <2>2. /\ all[l + 1].fd = a /\ all[l + 1].reg = N + 1 /\ ~all[l + 1].dead
        /\ all[l + 2].fd = b /\ all[l + 2].reg = N + 2 /\ ~all[l + 2].dead
    BY <1>7, SMT DEF Entry
  <2> QED
    BY <1>9, <1>11, <2>1, <2>2
<1>13. \A n \in DOMAIN t : ~t[n].dead => n = l + 1 \/ n = l + 2
  BY <1>6, <1>7, <1>9, <1>10
<1>14. /\ ro[N + 1].use = "notify" /\ ro[N + 2].use = "socket"
       /\ ro[N + 1].conn = k /\ ro[N + 2].conn = k /\ k # 0
  <2>1. /\ Use(k, "notify").use = "notify" /\ Use(k, "socket").use = "socket"
        /\ Use(k, "notify").conn = k /\ Use(k, "socket").conn = k
    BY SMT DEF Use
  <2>2. k # 0
    BY SMT DEF Conns
  <2> QED
    BY <1>3, <2>1, <2>2
<1>15. Two(t, g, ro, k, l + 1, l + 2)
  BY <1>3, <1>4, <1>10, <1>12, <1>13, <1>14 DEF Two
<1>16. Polls(t, g, ro, k, 0)
  BY <1>15, PollsTwo
<1> QED
  BY <1>9, <1>16

(* One entry more, for a timer.                                            *)
OneMore(es, f, ro, c, t, g, q, l, fd) ==
  /\ c # 0 /\ l \in DOMAIN t /\ fd \in Fds /\ f[fd] = 0 /\ fd # 0
  /\ \A n \in DOMAIN es : es[n].fd \in Fds /\ es[n].fd # 0 /\ es[n].reg # 0
  /\ \A n \in DOMAIN es : n \in DOMAIN t /\ t[n] = es[n]
  /\ \A n \in DOMAIN t : n \in DOMAIN es \/ n = l
  /\ \A r \in DOMAIN ro : r \in DOMAIN q /\ q[r] = ro[r]
  /\ \A h \in Fds \ {fd} : g[h] = f[h]
  /\ t[l].fd = fd /\ ~t[l].dead /\ t[l].reg \in DOMAIN q /\ g[fd] = t[l].reg
  /\ q[t[l].reg].use = "timer" /\ q[t[l].reg].conn = c

LEMMA PollsOneMore ==
  ASSUME NEW es, NEW f, NEW ro, NEW c, NEW t, NEW g, NEW q, NEW l, NEW fd,
         Polls(es, f, ro, c, 0), OneMore(es, f, ro, c, t, g, q, l, fd)
  PROVE  Polls(t, g, q, c, fd)
<1> USE DEF OneMore
<1>1. ASSUME NEW n \in DOMAIN es, ~es[n].dead
      PROVE  /\ es[n].reg \in DOMAIN q /\ g[es[n].fd] = es[n].reg
             /\ q[es[n].reg] = ro[es[n].reg] /\ ro[es[n].reg].conn = c
             /\ ro[es[n].reg].use # "timer"
  <2>1. /\ es[n].reg \in DOMAIN ro /\ f[es[n].fd] = es[n].reg /\ ro[es[n].reg].conn = c
        /\ ro[es[n].reg].use # "timer"
    BY <1>1 DEF Polls
  <2>2. es[n].fd # fd
    BY <2>1
  <2> QED
    BY <2>1, <2>2
<1>2. ASSUME NEW n \in DOMAIN t, ~t[n].dead
      PROVE  /\ t[n].reg \in DOMAIN q /\ g[t[n].fd] = t[n].reg
             /\ q[t[n].reg].conn = c
             /\ q[t[n].reg].use = "timer" => t[n].fd = fd /\ n = l
  <2>1. CASE n \in DOMAIN es
    <3>1. t[n] = es[n]
      BY <2>1
    <3> QED
      BY <1>1, <1>2, <2>1, <3>1, SMT
  <2>2. CASE n = l
    BY <2>2
  <2> QED
    BY <2>1, <2>2
<1>3. ASSUME NEW u \in {"notify", "socket"}
      PROVE  \E n \in DOMAIN t : ~t[n].dead /\ q[t[n].reg].use = u
  <2>1. PICK n \in DOMAIN es : ~es[n].dead /\ ro[es[n].reg].use = u
    BY DEF Polls
  <2>2. n \in DOMAIN t /\ t[n] = es[n] /\ q[es[n].reg] = ro[es[n].reg]
    BY <1>1, <2>1
  <2> QED
    BY <2>1, <2>2
<1>4. ASSUME NEW j \in DOMAIN t, NEW n \in DOMAIN t,
             ~t[j].dead, ~t[n].dead, q[t[j].reg].use = q[t[n].reg].use
      PROVE  j = n
  <2>1. CASE j \in DOMAIN es /\ n \in DOMAIN es
    <3>1. ~es[j].dead /\ ~es[n].dead /\ ro[es[j].reg].use = ro[es[n].reg].use
      BY <1>1, <1>4, <2>1, SMT
    <3> QED
      BY <2>1, <3>1 DEF Polls
  <2>2. CASE j = l
    BY <1>2, <1>4, <2>2
  <2>3. CASE n = l
    BY <1>2, <1>4, <2>3
  <2> QED
    BY <2>1, <2>2, <2>3
<1> QED
  BY <1>2, <1>3, <1>4 DEF Polls

(* A verify timer is started for the current connection, which has none.   *)
TimerAdded(es, f, ro, c, fd, r, t, g, q) ==
  /\ es \in Seq(Entries) /\ ro \in Seq(Uses) /\ c \in Conns
  /\ f \in [Fds -> 0 .. Len(ro)] /\ Len(ro) + 1 <= MaxRegs
  /\ Polls(es, f, ro, c, 0) /\ fd \in Fds /\ f[fd] = 0 /\ r = Len(ro) + 1
  /\ t = Append(es, Entry(fd, r)) /\ g = [f EXCEPT ![fd] = r]
  /\ q = Append(ro, Use(c, "timer"))

LEMMA PollsTimerAdded ==
  ASSUME NEW es, NEW f, NEW ro, NEW c, NEW fd, NEW r, NEW t, NEW g, NEW q,
         TimerAdded(es, f, ro, c, fd, r, t, g, q)
  PROVE  Polls(t, g, q, c, fd) /\ t \in Seq(Entries)
<1> USE DEF TimerAdded
<1> DEFINE l == Len(es) + 1
<1>1. /\ Len(ro) \in Nat /\ DOMAIN ro = 1 .. Len(ro) /\ r \notin DOMAIN ro /\ r \in 1 .. MaxRegs
      /\ r \in DOMAIN q /\ q[r] = Use(c, "timer")
      /\ \A x \in DOMAIN ro : x \in DOMAIN q /\ q[x] = ro[x]
  BY LoopAssumptions, SMT
<1>2. Entry(fd, r) \in Entries
  BY <1>1 DEF Entry, Entries
<1>3. /\ t \in Seq(Entries) /\ l \in DOMAIN t /\ t[l] = Entry(fd, r)
      /\ \A n \in DOMAIN es : n \in DOMAIN t /\ t[n] = es[n]
      /\ \A n \in DOMAIN t : n \in DOMAIN es \/ n = l
  BY <1>2, SMT
<1>4. c # 0 /\ fd # 0
  BY LoopAssumptions, SMT DEF Conns
<1>5. /\ t[l].fd = fd /\ t[l].reg = r /\ ~t[l].dead
      /\ q[r].conn = c /\ q[r].use = "timer" /\ g[fd] = r
  BY <1>1, <1>3, SMT DEF Entry, Use
<1> HIDE DEF l
<1>6. \A n \in DOMAIN es : es[n].fd \in Fds /\ es[n].fd # 0 /\ es[n].reg # 0
  BY EntryFacts, LoopAssumptions, SMT
<1>7. \A h \in Fds \ {fd} : g[h] = f[h]
  OBVIOUS
<1>8. OneMore(es, f, ro, c, t, g, q, l, fd)
  BY <1>1, <1>3, <1>4, <1>5, <1>6, <1>7 DEF OneMore
<1>9. Polls(t, g, q, c, fd)
  BY <1>8, PollsOneMore, SMT
<1> QED
  BY <1>3, <1>9

(* Files of other connections, or of none, are closed.                     *)
LEMMA PollsClosing ==
  ASSUME NEW es \in Seq(Entries), NEW f, NEW g, NEW ro, NEW c, NEW v, Polls(es, f, ro, c, v),
         \A fd \in Fds : f[fd] \in DOMAIN ro /\ ro[f[fd]].conn = c => g[fd] = f[fd]
  PROVE  Polls(es, g, ro, c, v)
<1>1. \A n \in DOMAIN es : es[n].fd \in Fds
  BY EntryFacts
<1>2. \A n \in DOMAIN es : ~es[n].dead => g[es[n].fd] = es[n].reg
  BY <1>1, SMT DEF Polls
<1> QED
  BY <1>2 DEF Polls

(* Nothing but tombstones is what a client without a connection has.       *)
LEMMA PollsNone ==
  ASSUME NEW es, \A n \in DOMAIN es : es[n].dead, NEW f, NEW ro
  PROVE  Polls(es, f, ro, 0, 0)
  BY DEF Polls

(* CompactDead.                                                            *)
LEMMA PollsCompacted ==
  ASSUME entries_ \in Seq(Entries), NEW f, NEW ro, NEW c, NEW v, Polls(entries_, f, ro, c, v)
  PROVE  Polls(Compacted(entries_), f, ro, c, v) /\ Compacted(entries_) \in Seq(Entries)
<1> DEFINE K == {k \in DOMAIN entries_ : ~entries_[k].dead}
           es == entries_
           t == Compacted(entries_)
<1>1. K \in SUBSET (1 .. Len(es)) /\ \A k \in K : k \in DOMAIN es /\ ~es[k].dead /\ k \in Nat
  BY EntryFacts, SMT
<1>2. \A k \in DOMAIN es : ~es[k].dead => k \in K
  OBVIOUS
<1>3. t = Selected(es, K)
  BY DEF Compacted, Alive
<1> HIDE DEF K, t
<1>4. t \in Seq(Entries) /\ \E m : Picks(m, t, es, K)
  BY <1>1, <1>3, SelectedPicks
<1>5. PICK m : /\ m \in [1 .. Len(t) -> K]
               /\ \A j \in 1 .. Len(t) : t[j] = es[m[j]]
               /\ \A j, k \in 1 .. Len(t) : j < k => m[j] < m[k]
               /\ \A k \in K : \E j \in 1 .. Len(t) : m[j] = k
  BY <1>4 DEF Picks
<1>6. /\ DOMAIN t = 1 .. Len(t) /\ Len(t) \in Nat
      /\ \A j \in DOMAIN t : m[j] \in K /\ m[j] \in Nat /\ t[j] = es[m[j]]
  <2>1. DOMAIN t = 1 .. Len(t) /\ Len(t) \in Nat
    BY <1>4, EntryFacts
  <2> QED
    BY <1>1, <1>5, <2>1
<1>7. \A j, k \in DOMAIN t : m[j] = m[k] => j = k
  BY <1>5, <1>6, SMT
<1>8. \A u : (\E k \in DOMAIN es : ~es[k].dead /\ ro[es[k].reg].use = u)
               => \E k \in DOMAIN t : ~t[k].dead /\ ro[t[k].reg].use = u
  BY <1>2, <1>5, <1>6, SMTT(30)
<1>9. ASSUME NEW j \in DOMAIN t, NEW n \in DOMAIN t, ro[t[j].reg].use = ro[t[n].reg].use
      PROVE  j = n
  <2>1. /\ m[j] \in DOMAIN es /\ ~es[m[j]].dead /\ t[j] = es[m[j]]
        /\ m[n] \in DOMAIN es /\ ~es[m[n]].dead /\ t[n] = es[m[n]]
    BY <1>1, <1>6
  <2>2. m[j] = m[n]
    BY <1>9, <2>1, SMT DEF Polls
  <2> QED
    BY <1>7, <2>2
<1>10. ASSUME NEW n \in DOMAIN t
       PROVE  /\ t[n].reg \in DOMAIN ro /\ f[t[n].fd] = t[n].reg
              /\ c # 0 /\ ro[t[n].reg].conn = c
              /\ ro[t[n].reg].use = "timer" => t[n].fd = v
  <2>1. m[n] \in DOMAIN es /\ ~es[m[n]].dead /\ t[n] = es[m[n]]
    BY <1>1, <1>6
  <2> QED
    BY <2>1, SMT DEF Polls
<1>11. /\ c # 0 => \A u \in {"notify", "socket"} :
                     \E n \in DOMAIN t : ~t[n].dead /\ ro[t[n].reg].use = u
       /\ v # 0 => \E n \in DOMAIN t : ~t[n].dead /\ ro[t[n].reg].use = "timer"
  BY <1>8 DEF Polls
<1> QED
  BY <1>4, <1>9, <1>10, <1>11 DEF Polls, t

(* The pollfds lead where they led after entries and registrations were    *)
(* added, entries became tombstones and connections ended.                 *)
LEMMA LeadsOn ==
  ASSUME NEW ps, NEW es, NEW ro, NEW ended, Leads(ps, es, ro, ended),
         NEW t, NEW q, NEW ended2, ended \subseteq ended2,
         \A n \in DOMAIN es : /\ n \in DOMAIN t /\ t[n].reg = es[n].reg
                              /\ ~t[n].dead => ~es[n].dead /\ q[es[n].reg] = ro[es[n].reg]
  PROVE  Leads(ps, t, q, ended2)
<1> SUFFICES ASSUME NEW n \in DOMAIN ps
             PROVE  /\ ps[n].idx \in DOMAIN t
                    /\ ~t[ps[n].idx].dead /\ q[t[ps[n].idx].reg].use = "socket"
                         => q[t[ps[n].idx].reg].conn \in ended2
  BY DEF Leads
<1>1. /\ ps[n].idx \in DOMAIN es
      /\ ~es[ps[n].idx].dead /\ ro[es[ps[n].idx].reg].use = "socket"
           => ro[es[ps[n].idx].reg].conn \in ended
  BY DEF Leads
<1> QED
  BY <1>1

(* What poll returns.                                                      *)
LEMMA PolledFacts ==
  ASSUME Inv, Poll
  PROVE  pfds' \in Seq(Pollfds) /\ Leads(pfds', entries_, role, hungup \cup shut)
<1> DEFINE all == [n \in DOMAIN entries_ |->
                     [idx |-> n, fd |-> entries_[n].fd,
                      revents |-> LET r == file[entries_[n].fd] IN r = 0 \/ Readable(r)]]
           K == {n \in Alive(entries_) : all[n].revents}
           b(n) == file[entries_[n].fd] = 0 \/ Readable(file[entries_[n].fd])
<1>1. /\ entries_ \in Seq(Entries) /\ role \in Seq(Uses)
      /\ Polls(entries_, file, role, conn_, Due)
  BY DEF Inv, Types, Roles
<1>2. pfds' = Selected(all, K)
  BY DEF Poll
<1>4. /\ Len(entries_) \in Nat /\ DOMAIN entries_ = 1 .. Len(entries_)
      /\ \A k \in DOMAIN entries_ : entries_[k].fd \in Fds /\ entries_[k].reg # 0
  BY <1>1, EntryFacts, LoopAssumptions, SMT
<1>5. /\ DOMAIN all = DOMAIN entries_
      /\ \A n \in DOMAIN entries_ :
           all[n] = [idx |-> n, fd |-> entries_[n].fd, revents |-> b(n)]
  OBVIOUS
<1>6. \A n \in DOMAIN entries_ : b(n) \in BOOLEAN
  OBVIOUS
<1>7. K \in SUBSET DOMAIN entries_ /\ \A n \in K : ~entries_[n].dead /\ all[n].revents
  BY DEF Alive
<1>8. ASSUME NEW n \in DOMAIN entries_
      PROVE  /\ all[n] \in Pollfds /\ all[n].idx = n /\ all[n].revents = b(n)
  <2>1. entries_[n].fd \in Fds /\ n \in Nat /\ b(n) \in BOOLEAN
    BY <1>4, <1>6, SMT
  <2> HIDE DEF b, all
  <2> QED
    BY <1>5, <2>1, SMT DEF Pollfds
<1>9. all \in [1 .. Len(entries_) -> Pollfds]
  <2>1. all = [n \in 1 .. Len(entries_) |-> all[n]]
    BY <1>4
  <2> HIDE DEF all, b
  <2> QED
    BY <1>4, <1>8, <2>1
<1>10. \A n \in K : n \in DOMAIN entries_ /\ ~entries_[n].dead /\ b(n)
  <2> HIDE DEF b, all, K
  <2> QED
    BY <1>7, <1>8
<1> HIDE DEF all, K
<1>11. all \in Seq(Pollfds) /\ Len(all) = Len(entries_) /\ K \in SUBSET (1 .. Len(all))
  BY <1>4, <1>7, <1>9, SMT
<1>12. pfds' \in Seq(Pollfds) /\ \E m : Picks(m, pfds', all, K)
  BY <1>2, <1>11, SelectedPicks
<1>13. PICK m : m \in [1 .. Len(pfds') -> K] /\ \A j \in 1 .. Len(pfds') : pfds'[j] = all[m[j]]
  BY <1>12 DEF Picks
<1>14. DOMAIN pfds' = 1 .. Len(pfds')
  BY <1>12, SMT
<1>15. ASSUME NEW j \in DOMAIN pfds'
       PROVE  pfds'[j].idx \in K
  <2>1. m[j] \in K /\ pfds'[j] = all[m[j]]
    BY <1>13, <1>14
  <2>2. m[j] \in DOMAIN entries_
    BY <2>1, <1>7
  <2> QED
    BY <1>8, <2>1, <2>2
<1>16. ASSUME NEW n \in K, role[entries_[n].reg].use = "socket"
       PROVE  role[entries_[n].reg].conn \in hungup \cup shut
  <2>1. file[entries_[n].fd] = entries_[n].reg /\ entries_[n].reg # 0
    BY <1>1, <1>4, <1>10 DEF Polls
  <2>2. Readable(entries_[n].reg)
    BY <1>10, <2>1
  <2> QED
    BY <1>16, <2>2 DEF Readable, ReadableSocket
<1> QED
  BY <1>10, <1>12, <1>15, <1>16 DEF Leads

-----------------------------------------------------------------------------
(* The steps other than Connect and the ends of connections.               *)

LEMMA Parts ==
  ASSUME Inv
  PROVE  /\ Types /\ Roles(role) /\ ConnInv /\ HandlerInv
         /\ Polls(entries_, file, role, conn_, Due)
         /\ Leads(pfds, entries_, role, hungup \cup shut)
         /\ made = Made(role) /\ made \in Nat /\ role \in Seq(Uses) /\ Len(role) \in Nat
         /\ made \in 0 .. MaxConns /\ entries_ \in Seq(Entries)
         /\ DOMAIN role = 1 .. Len(role)
<1>1. made = Made(role) /\ role \in Seq(Uses) /\ entries_ \in Seq(Entries)
  BY DEF Inv, Roles, Types, made, Made
<1> QED
  BY <1>1, MadeFacts, UseFacts DEF Inv, Roles

(* The connections made are connections.                                   *)
LEMMA Numbers ==
  ASSUME Inv
  PROVE  /\ \A k \in 1 .. made : k \in Conns /\ k # 0
         /\ conn_ = 0 \/ conn_ \in 1 .. made
         /\ conn = 0 \/ conn \in 1 .. made
<1>1. made \in Nat /\ made <= MaxConns /\ conn_ \in 0 .. made /\ conn \in 0 .. made
  BY Parts, BoundsAssumption, SMT DEF Types
<1> QED
  BY <1>1, BoundsAssumption, SMT DEF Conns

LEMMA PollInv == ASSUME Inv, Poll PROVE Inv'
<1>1. /\ UNCHANGED <<state_, conn_, cstate, verify_timer_, shut, closes, entries_, file, role, inside,
                     cur, conn, expired, inbox, sent, rung, hungup, held>>
      /\ pc = "poll" /\ pc' = "dispatch"
  BY DEF Poll, client, conns, loop, peers
<1>2. Types'
  BY <1>1, Parts, PolledFacts DEF Types, made
<1>3. Roles(role)'
  BY <1>1, Parts
<1>4. ConnInv' /\ HandlerInv'
  BY <1>1, Parts DEF ConnInv, HandlerInv, made
<1>5. Polls(entries_, file, role, conn_, Due)'
  BY <1>1, Parts DEF Due
<1> QED
  BY <1>1, <1>2, <1>3, <1>4, <1>5, PolledFacts DEF Inv

LEMMA RoundEndInv == ASSUME Inv, RoundEnd PROVE Inv'
<1>1. /\ UNCHANGED <<state_, conn_, cstate, verify_timer_, shut, closes, file, role, inside,
                     cur, conn, pfds, expired, inbox, sent, rung, hungup, held>>
      /\ pc = "dispatch" /\ pc' = "poll" /\ pfds = <<>> /\ entries_' = Compacted(entries_)
  BY DEF RoundEnd, conns, peers
<1>2. entries_' \in Seq(Entries) /\ Polls(entries_', file, role, conn_, Due)
  BY <1>1, Parts, PollsCompacted
<1>3. Types'
  BY <1>1, <1>2, Parts DEF Types, made
<1>4. Roles(role)'
  BY <1>1, Parts
<1>5. ConnInv' /\ HandlerInv'
  BY <1>1, Parts DEF ConnInv, HandlerInv, made
<1>6. Polls(entries_, file, role, conn_, Due)'
  BY <1>1, <1>2 DEF Due
<1>7. Leads(pfds, entries_, role, hungup \cup shut)'
  BY <1>1, SMT DEF Leads
<1> QED
  BY <1>3, <1>4, <1>5, <1>6, <1>7 DEF Inv

LEMMA DrainRingInv == ASSUME Inv, DrainRing PROVE Inv'
<1>1. /\ UNCHANGED <<state_, conn_, cstate, verify_timer_, shut, closes, entries_, file, role, inside,
                     cur, conn, pfds, expired, sent, rung, hungup, held>>
      /\ pc = "drain"
  BY DEF DrainRing, client, conns, loop
<1>2. /\ pc' \in {"drain", "callback", "drained", "error"}
      /\ pc' = "error" => inbox' = inbox /\ inbox[conn] # <<>> /\ Head(inbox[conn]) = "bad"
      /\ \/ inbox' = inbox
         \/ inbox[conn] # <<>> /\ inbox' = [inbox EXCEPT ![conn] = Tail(@)]
  BY <1>1 DEF DrainRing
<1>3. conn \in Conns
  BY <1>1, Parts, Numbers DEF HandlerInv
<1>4. inbox' \in [Conns -> Seq({"good", "bad"})]
  <2>1. inbox \in [Conns -> Seq({"good", "bad"})] /\ inbox[conn] \in Seq({"good", "bad"})
    BY <1>3, Parts DEF Types
  <2>2. inbox[conn] # <<>> => Tail(inbox[conn]) \in Seq({"good", "bad"})
    BY <2>1, SMT
  <2> QED
    BY <1>2, <2>1, <2>2
<1>5. Types'
  BY <1>1, <1>2, <1>4, Parts DEF Types, made
<1>6. Roles(role)' /\ Leads(pfds, entries_, role, hungup \cup shut)'
  BY <1>1, Parts
<1>7. ConnInv' /\ HandlerInv'
  BY <1>1, <1>2, Parts DEF ConnInv, HandlerInv, made
<1>8. Polls(entries_, file, role, conn_, Due)'
  BY <1>1, Parts DEF Due
<1> QED
  BY <1>5, <1>6, <1>7, <1>8 DEF Inv

LEMMA CallbackReturnInv == ASSUME Inv, CallbackReturn PROVE Inv'
<1>1. /\ UNCHANGED <<state_, conn_, cstate, verify_timer_, shut, closes, entries_, file, role, inside,
                     conn, pfds, expired, inbox, sent, rung, hungup, held>>
      /\ pc = "callback"
      /\ \/ conn # 0 /\ pc' = "drain" /\ cur' = cur
         \/ conn = 0 /\ pc' = "dispatch" /\ cur' = 0
  BY DEF CallbackReturn, client, conns, loop, peers
<1>2. cur' \in 0 .. Len(role)
  BY <1>1, Parts, SMT DEF Types
<1>3. Types'
  BY <1>1, <1>2, Parts DEF Types, made
<1>4. Roles(role)' /\ Leads(pfds, entries_, role, hungup \cup shut)'
  BY <1>1, Parts
<1>5. ConnInv' /\ HandlerInv'
  BY <1>1, Parts DEF ConnInv, HandlerInv, made
<1>6. Polls(entries_, file, role, conn_, Due)'
  BY <1>1, Parts DEF Due
<1> QED
  BY <1>3, <1>4, <1>5, <1>6 DEF Inv

LEMMA TimerExpiresInv == ASSUME Inv, NEW r \in 1 .. MaxRegs, TimerExpires(r) PROVE Inv'
<1>1. /\ UNCHANGED <<state_, conn_, cstate, verify_timer_, shut, closes, entries_, file, role, inside,
                     pc, cur, conn, pfds, inbox, sent, rung, hungup, held>>
      /\ expired' = expired \cup {r} /\ r \in DOMAIN role
  BY DEF TimerExpires, client, conns, loop, peers
<1>2. Types'
  BY <1>1, Parts DEF Types, made
<1>3. Roles(role)' /\ Leads(pfds, entries_, role, hungup \cup shut)'
  BY <1>1, Parts
<1>4. ConnInv' /\ HandlerInv'
  BY <1>1, Parts DEF ConnInv, HandlerInv, made
<1>5. Polls(entries_, file, role, conn_, Due)'
  BY <1>1, Parts DEF Due
<1> QED
  BY <1>2, <1>3, <1>4, <1>5 DEF Inv

LEMMA PeerClosesInv == ASSUME Inv, NEW k \in Conns, PeerCloses(k) PROVE Inv'
<1>1. /\ UNCHANGED <<state_, conn_, cstate, verify_timer_, shut, closes, entries_, file, role, inside,
                     pc, cur, conn, pfds, expired, inbox, sent, rung, held>>
      /\ hungup' = hungup \cup {k} /\ k = conn_ /\ k # 0
  BY SMT DEF PeerCloses, client, conns, loop, handler, Conns
<1>2. k \in 1 .. made
  BY <1>1, Numbers
<1>3. Types'
  BY <1>1, <1>2, Parts DEF Types, made
<1>4. Roles(role)'
  BY <1>1, Parts
<1>5. ConnInv' /\ HandlerInv'
  BY <1>1, Parts DEF ConnInv, HandlerInv, made
<1>6. Polls(entries_, file, role, conn_, Due)'
  BY <1>1, Parts DEF Due
<1>7. Leads(pfds, entries_, role, hungup \cup shut)'
  BY <1>1, Parts DEF Leads
<1> QED
  BY <1>3, <1>4, <1>5, <1>6, <1>7 DEF Inv

LEMMA PeerSendsInv ==
  ASSUME Inv, NEW k \in Conns, NEW p \in {"good", "bad"}, PeerSends(k, p) PROVE Inv'
<1>1. /\ UNCHANGED <<state_, conn_, cstate, verify_timer_, shut, closes, entries_, file, role, inside,
                     pc, cur, conn, pfds, expired, hungup, held>>
      /\ inbox' = [inbox EXCEPT ![k] = Append(@, p)] /\ rung' = rung \cup {k}
      /\ sent < MaxMessages /\ sent' = sent + 1 /\ k \in {conn_, conn} /\ k # 0
  BY SMT DEF PeerSends, client, conns, loop, handler, Conns
<1>2. k \in 1 .. made
  BY <1>1, Numbers
<1>3. inbox \in [Conns -> Seq({"good", "bad"})] /\ inbox' \in [Conns -> Seq({"good", "bad"})]
  BY <1>1, Parts, SMTT(30) DEF Types
<1>4. rung' \subseteq 1 .. made
  BY <1>1, <1>2, Parts DEF Types
<1>5. sent' \in 0 .. MaxMessages
  BY <1>1, Parts, BoundsAssumption, SMTT(30) DEF Types
<1>6. Types'
  BY <1>1, <1>3, <1>4, <1>5, Parts DEF Types, made
<1>7. Roles(role)' /\ Leads(pfds, entries_, role, hungup \cup shut)'
  BY <1>1, Parts
<1>8. ConnInv'
  BY <1>1, Parts DEF ConnInv, made
<1>9. HandlerInv'
  <2>1. ASSUME pc = "error" PROVE inbox'[conn] # <<>> /\ Head(inbox'[conn]) = "bad"
    <3>1. inbox[conn] # <<>> /\ Head(inbox[conn]) = "bad" /\ conn \in Conns
      BY <2>1, Parts, Numbers DEF HandlerInv
    <3>2. inbox[conn] \in Seq({"good", "bad"})
      BY <1>3, <3>1
    <3>3. CASE k = conn
      <4>1. inbox'[conn] = Append(inbox[conn], p)
        BY <1>1, <1>3, <3>3
      <4> QED
        BY <3>1, <3>2, <4>1, SMT
    <3>4. CASE k # conn
      BY <1>1, <1>3, <3>1, <3>4
    <3> QED
      BY <3>3, <3>4
  <2> QED
    BY <1>1, <2>1, Parts DEF HandlerInv
<1>10. Polls(entries_, file, role, conn_, Due)'
  BY <1>1, Parts DEF Due
<1> QED
  BY <1>6, <1>7, <1>8, <1>9, <1>10 DEF Inv

(* Drop: the current connection's files stay.                              *)
LEMMA DropInv == ASSUME Inv, NEW k \in Conns, Drop(k) PROVE Inv'
<1>1. /\ UNCHANGED <<state_, conn_, cstate, verify_timer_, shut, closes, entries_, role, inside,
                     pc, cur, conn, pfds, expired, inbox, sent, rung, hungup>>
      /\ held' = held \ {k} /\ file' = Kept(file, {conn_, conn} \cup (held \ {k}))
  BY DEF Drop, conns, handler, peers
<1>2. file \in [Fds -> 0 .. Len(role)]
  BY Parts DEF Types
<1>3. /\ file' \in [Fds -> 0 .. Len(role)]
      /\ \A fd \in Fds : file[fd] \in DOMAIN role /\ role[file[fd]].conn = conn_ => file'[fd] = file[fd]
  <2> DEFINE keep == {conn_, conn} \cup (held \ {k})
  <2>1. conn_ \in keep /\ file' = Kept(file, keep)
    BY <1>1
  <2> HIDE DEF keep
  <2>2. Len(role) \in Nat
    BY Parts
  <2>3. /\ Kept(file, keep) \in [Fds -> 0 .. Len(role)]
        /\ \A fd \in Fds : file[fd] \in DOMAIN role /\ role[file[fd]].conn \in keep =>
              Kept(file, keep)[fd] = file[fd]
    BY <1>2, <2>2, KeptFacts, ZenonT(30)
  <2> QED
    BY <2>1, <2>3
<1>4. Types'
  BY <1>1, <1>3, Parts DEF Types, made
<1>5. Roles(role)' /\ Leads(pfds, entries_, role, hungup \cup shut)'
  BY <1>1, Parts
<1>6. ConnInv' /\ HandlerInv'
  BY <1>1, Parts DEF ConnInv, HandlerInv, made
<1>7. Polls(entries_, file, role, conn_, Due)'
  <2>1. Polls(entries_, file', role, conn_, Due)
    BY <1>3, Parts, PollsClosing
  <2> QED
    BY <1>1, <2>1 DEF Due
<1> QED
  BY <1>4, <1>5, <1>6, <1>7 DEF Inv

(* The only connection that the application calls is the current one.      *)
LEMMA ReachFacts == ASSUME Inv, NEW k \in Conns, Reach(k) PROVE k = conn_ /\ pc \in {"poll", "callback"}
<1>1. pc \in {"poll", "callback"} /\ closes[k] = 0 /\ (k = conn_ \/ k = conn \/ k \in held)
  BY DEF Reach, Calling, Referenced
<1>2. k \in 1 .. made
  <2>1. k # 0 /\ held \subseteq 1 .. made
    BY Parts, SMT DEF Types, Conns
  <2> QED
    BY <1>1, <2>1, Numbers
<1>3. k <= made
  BY <1>2, SMT
<1>4. closes[k] = IF k = conn_ THEN 0 ELSE 1
  BY <1>1, <1>3, Parts DEF ConnInv
<1> QED
  BY <1>1, <1>4, SMT

(* RemoveVerifyTimer of the current connection.                            *)
LEMMA VerifyTimerRemoved ==
  ASSUME Inv, conn_ \in Conns, RemoveVerifyTimer(conn_),
         UNCHANGED <<role, conn_, hungup>>, shut \subseteq shut'
  PROVE  /\ entries_' \in Seq(Entries) /\ file' \in [Fds -> 0 .. Len(role)]
         /\ verify_timer_' \in [Conns -> Fds \cup {0}]
         /\ \A k \in Conns : k # conn_ => verify_timer_'[k] = 0
         /\ Polls(entries_, file, role, conn_, Due)'
         /\ Leads(pfds, entries_', role, hungup \cup shut')
<1> DEFINE v == verify_timer_[conn_]
           S == {v} \ {0}
<1>1. /\ entries_' = Removed(entries_, S) /\ file' = TimersClosed(file, S)
      /\ verify_timer_' = [verify_timer_ EXCEPT ![conn_] = 0]
  BY DEF RemoveVerifyTimer, Timer
<1>2. /\ verify_timer_ \in [Conns -> Fds \cup {0}] /\ v \in Fds \cup {0}
      /\ file \in [Fds -> 0 .. Len(role)] /\ conn_ # 0
  <2>1. verify_timer_ \in [Conns -> Fds \cup {0}] /\ file \in [Fds -> 0 .. Len(role)]
    BY Parts DEF Types
  <2>2. conn_ # 0
    BY SMT DEF Conns
  <2> QED
    BY <2>1, <2>2
<1>3. Due = v
  BY <1>2 DEF Due
<1>4. /\ verify_timer_' \in [Conns -> Fds \cup {0}] /\ verify_timer_'[conn_] = 0
      /\ \A k \in Conns : k # conn_ => verify_timer_'[k] = 0
  BY <1>1, <1>2, Parts DEF ConnInv
<1> HIDE DEF v
<1>5. Len(role) \in Nat /\ entries_ \in Seq(Entries) /\ Polls(entries_, file, role, conn_, v)
  BY <1>3, Parts
<1>6. file' \in [Fds -> 0 .. Len(role)] /\ \A fd \in Fds \ S : file'[fd] = file[fd]
  <2> HIDE DEF S
  <2>1. /\ TimersClosed(file, S) \in [Fds -> 0 .. Len(role)]
        /\ \A fd \in Fds \ S : TimersClosed(file, S)[fd] = file[fd]
    <3>1. file \in [Fds -> 0 .. Len(role)] /\ Len(role) \in Nat
      BY <1>2, <1>5
    <3> QED
      BY <3>1, SMT DEF TimersClosed
  <2> QED
    BY <1>1, <2>1
<1>7. Polls(entries_', file', role, conn_, 0)
  BY <1>1, <1>2, <1>5, <1>6, PollsTimerGone
<1>8. /\ entries_' \in Seq(Entries) /\ DOMAIN entries_' = DOMAIN entries_
      /\ \A n \in DOMAIN entries_ : /\ entries_'[n].reg = entries_[n].reg
                                    /\ ~entries_'[n].dead => ~entries_[n].dead
  BY <1>1, <1>5, RemovedFacts, SMT
<1>9. Leads(pfds, entries_', role, hungup \cup shut')
  <2>1. hungup \cup shut \subseteq hungup \cup shut'
    OBVIOUS
  <2> QED
    BY <1>8, <2>1, Parts, LeadsOn
<1>10. Due' = 0
  BY <1>2, <1>4 DEF Due
<1> QED
  BY <1>4, <1>6, <1>7, <1>8, <1>9, <1>10

(* What Close and OnVerify leave of the state of the current connection.   *)
LEMMA ConnStateInv ==
  ASSUME Inv, conn_ \in Conns, pc # "destroyed", RemoveVerifyTimer(conn_),
         UNCHANGED <<state_, conn_, closes, role, inside, pc, cur, conn, pfds, expired,
                     inbox, sent, rung, hungup, held>>,
         NEW s \in {"verifing", "established", "closeing"},
         cstate' = [cstate EXCEPT ![conn_] = s],
         shut' = shut \/ shut' = shut \cup {conn_},
         s = "closeing" => conn_ \in shut'
  PROVE  Inv'
<1>1. conn_ \in 1 .. made /\ conn_ # 0
  BY Numbers, SMT DEF Conns
<1>2. shut \subseteq shut' /\ shut' \subseteq 1 .. made
  BY <1>1, Parts DEF Types
<1>3. /\ entries_' \in Seq(Entries) /\ file' \in [Fds -> 0 .. Len(role)]
      /\ verify_timer_' \in [Conns -> Fds \cup {0}]
      /\ \A k \in Conns : k # conn_ => verify_timer_'[k] = 0
      /\ Polls(entries_, file, role, conn_, Due)'
      /\ Leads(pfds, entries_', role, hungup \cup shut')
  BY <1>2, VerifyTimerRemoved
<1>4. /\ cstate' \in [Conns -> {"none", "verifing", "established", "closeing", "closeed"}]
      /\ cstate'[conn_] = s /\ \A k \in Conns : k # conn_ => cstate'[k] = cstate[k]
  BY Parts DEF Types
<1>5. Types'
  BY <1>2, <1>3, <1>4, Parts DEF Types, made
<1>6. Roles(role)'
  BY Parts
<1>7. ConnInv'
  <2>1. \A k \in Conns : cstate'[k] = "closeing" => k \in shut'
    BY <1>2, <1>4, Parts DEF ConnInv
  <2> QED
    BY <1>1, <1>3, <1>4, <2>1, Parts DEF ConnInv, made
<1>8. HandlerInv'
  BY <1>2, Parts DEF HandlerInv
<1> QED
  BY <1>3, <1>5, <1>6, <1>7, <1>8 DEF Inv

LEMMA CloseConnectionInv == ASSUME Inv, NEW k \in Conns, CloseConnection(k) PROVE Inv'
<1>1. k = conn_ /\ pc \in {"poll", "callback"} /\ conn_ \in Conns
  BY ReachFacts DEF CloseConnection
<1>2. /\ UNCHANGED <<state_, conn_, closes, role, inside, pc, cur, conn, pfds, expired,
                     inbox, sent, rung, hungup, held>>
      /\ RemoveVerifyTimer(conn_) /\ ShutDown(conn_)
  BY <1>1 DEF CloseConnection, handler, peers
<1>3. \E s \in {"verifing", "established", "closeing"} :
        /\ cstate' = [cstate EXCEPT ![conn_] = s]
        /\ s = "closeing" => conn_ \in shut'
  <2>1. cstate[conn_] \in {"verifing", "established", "closeing"} /\ conn_ # 0
    BY <1>1, Parts, SMT DEF ConnInv, Conns
  <2>2. cstate[conn_] = "closeing" => conn_ \in shut
    BY <1>1, Parts DEF ConnInv
  <2> QED
    BY <1>2, <2>1, <2>2 DEF ShutDown, Receiving
<1>4. shut' = shut \/ shut' = shut \cup {conn_}
  BY <1>2 DEF ShutDown
<1> QED
  BY <1>1, <1>2, <1>3, <1>4, ConnStateInv

LEMMA OnVerifyInv == ASSUME Inv, NEW k \in Conns, NEW succ \in BOOLEAN, OnVerify(k, succ) PROVE Inv'
<1>1. k = conn_ /\ pc \in {"poll", "callback"} /\ conn_ \in Conns
  BY ReachFacts DEF OnVerify
<1>2. /\ UNCHANGED <<state_, conn_, closes, role, inside, pc, cur, conn, pfds, expired,
                     inbox, sent, rung, hungup, held>>
      /\ RemoveVerifyTimer(conn_)
      /\ \/ cstate' = [cstate EXCEPT ![conn_] = "established"] /\ shut' = shut
         \/ ShutDown(conn_)
  BY <1>1 DEF OnVerify, handler, peers
<1>3. \E s \in {"verifing", "established", "closeing"} :
        /\ cstate' = [cstate EXCEPT ![conn_] = s]
        /\ s = "closeing" => conn_ \in shut'
  <2>1. cstate[conn_] \in {"verifing", "established", "closeing"} /\ conn_ # 0
    BY <1>1, Parts, SMT DEF ConnInv, Conns
  <2>2. cstate[conn_] = "closeing" => conn_ \in shut
    BY <1>1, Parts DEF ConnInv
  <2> QED
    BY <1>2, <2>1, <2>2 DEF ShutDown, Receiving
<1>4. shut' = shut \/ shut' = shut \cup {conn_}
  BY <1>2 DEF ShutDown
<1> QED
  BY <1>1, <1>2, <1>3, <1>4, ConnStateInv

(* Registrations for the connection k, the last one made or a new one.     *)
LEMMA TimerRole ==
  ASSUME Inv, NEW k, k = made, k # 0, timers < MaxTimers, role' = Append(role, Use(k, "timer"))
  PROVE  /\ Roles(role)' /\ made' = made /\ Len(role') = Len(role) + 1 /\ Len(role') <= MaxRegs
         /\ \A r \in DOMAIN role : r \in DOMAIN role' /\ role'[r] = role[r]
<1>1. /\ role \in Seq(Uses) /\ Len(role) \in Nat /\ made = Made(role) /\ made \in 0 .. MaxConns
      /\ Len(role) - 2 * made \in 0 .. MaxTimers /\ \A r \in DOMAIN role : role[r].conn <= made
      /\ k \in Conns
  <2>1. k \in 1 .. made
    BY Parts, SMT
  <2> QED
    BY <2>1, Parts, Numbers DEF Roles
<1>2. Use(k, "timer") \in Uses /\ Use(k, "timer").conn = k
  BY <1>1 DEF Use, Uses
<1>3. /\ role' \in Seq(Uses) /\ Len(role') = Len(role) + 1
      /\ \A r \in DOMAIN role : r \in DOMAIN role' /\ role'[r] = role[r]
      /\ \A r \in DOMAIN role' : r \in DOMAIN role \/ role'[r] = Use(k, "timer")
  BY <1>1, <1>2, SMTT(30)
<1>4. Made(role') = made /\ made' = Made(role')
  <2>1. made' = Made(role')
    BY DEF made, Made
  <2>2. Made(role') = k
    BY <1>1, MadeFacts
  <2> QED
    BY <1>1, <2>1, <2>2
<1>5. Len(role') - 2 * made \in 0 .. MaxTimers /\ Len(role') <= MaxRegs
  <2>1. Len(role) - 2 * made < MaxTimers
    BY DEF timers
  <2>2. /\ Len(role) \in Nat /\ made \in 0 .. MaxConns /\ Len(role') = Len(role) + 1
        /\ Len(role) - 2 * made \in 0 .. MaxTimers
    BY <1>1, <1>3
  <2> QED
    BY <2>1, <2>2, BoundsAssumption, SMT DEF MaxRegs
<1>6. \A r \in DOMAIN role' : role'[r].conn <= made
  BY <1>1, <1>2, <1>3, SMTT(30)
<1> QED
  BY <1>1, <1>3, <1>4, <1>5, <1>6 DEF Roles

LEMMA StartVerifyTimerInv == ASSUME Inv, NEW k \in Conns, StartVerifyTimer(k) PROVE Inv'
<1> DEFINE fd == FreeFd(file)
           r == Len(role) + 1
<1>1. k = conn_ /\ pc \in {"poll", "callback"} /\ conn_ \in Conns /\ conn_ # 0 /\ conn_ = made
  <2>1. k = conn_ /\ pc \in {"poll", "callback"} /\ k # 0
    BY ReachFacts, SMT DEF StartVerifyTimer, Conns
  <2> QED
    BY <2>1, Parts DEF ConnInv
<1>2. /\ UNCHANGED <<state_, conn_, cstate, shut, closes, inside, pc, cur, conn, pfds, expired,
                     inbox, sent, rung, hungup, held>>
      /\ verify_timer_[conn_] = 0 /\ timers < MaxTimers /\ \E h \in Fds : file[h] = 0
      /\ verify_timer_' = [verify_timer_ EXCEPT ![conn_] = fd]
      /\ entries_' = Append(entries_, Entry(fd, r))
      /\ file' = [file EXCEPT ![fd] = r]
      /\ role' = Append(role, Use(conn_, "timer"))
  BY <1>1 DEF StartVerifyTimer, handler, peers
<1>3. fd \in Fds /\ file[fd] = 0
  BY <1>2, FreeFdFacts
<1>4. /\ Roles(role)' /\ made' = made /\ Len(role') = r /\ r <= MaxRegs
      /\ \A x \in DOMAIN role : x \in DOMAIN role' /\ role'[x] = role[x]
  BY <1>1, <1>2, TimerRole
<1> HIDE DEF fd
<1>0. r = Len(role) + 1
  OBVIOUS
<1>5. /\ file \in [Fds -> 0 .. Len(role)] /\ verify_timer_ \in [Conns -> Fds \cup {0}]
      /\ role \in Seq(Uses) /\ entries_ \in Seq(Entries)
      /\ Polls(entries_, file, role, conn_, 0) /\ Len(role) \in Nat
  BY <1>1, <1>2, Parts DEF Types, Due
<1>6. Polls(entries_', file', role', conn_, fd) /\ entries_' \in Seq(Entries)
  <2> HIDE DEF r
  <2>1. Len(role) + 1 <= MaxRegs /\ entries_' = Append(entries_, Entry(fd, r))
        /\ file' = [file EXCEPT ![fd] = r] /\ role' = Append(role, Use(conn_, "timer"))
    BY <1>2, <1>4, <1>0
  <2>2. conn_ \in Conns /\ fd \in Fds /\ file[fd] = 0 /\ r = Len(role) + 1
    BY <1>1, <1>3, <1>0
  <2>3. TimerAdded(entries_, file, role, conn_, fd, r, entries_', file', role')
    BY <1>5, <2>1, <2>2 DEF TimerAdded
  <2> QED
    BY <2>3, PollsTimerAdded
<1>7. /\ file' \in [Fds -> 0 .. r]
      /\ verify_timer_' \in [Conns -> Fds \cup {0}] /\ verify_timer_'[conn_] = fd
      /\ \A j \in Conns : j # conn_ => verify_timer_'[j] = verify_timer_[j]
  BY <1>1, <1>2, <1>3, <1>5, SMT
<1>8. Types'
  <2>1. DOMAIN role \subseteq DOMAIN role' /\ 0 .. Len(role) \subseteq 0 .. Len(role')
    BY <1>4, <1>5, SMT
  <2>2. (expired \subseteq DOMAIN role)' /\ (cur \in 0 .. Len(role))'
    BY <1>2, <2>1, Parts DEF Types
  <2> QED
    BY <1>2, <1>4, <1>6, <1>7, <2>2, Parts DEF Types
<1>9. ConnInv'
  BY <1>2, <1>4, <1>7, Parts DEF ConnInv
<1>10. HandlerInv'
  <2>1. conn # 0 => role'[cur] = role[cur]
    BY <1>4, Parts, SMTT(30) DEF HandlerInv, Types
  <2> QED
    BY <1>2, <2>1, Parts DEF HandlerInv
<1>11. Leads(pfds, entries_, role, hungup \cup shut)'
  <2>1. \A n \in DOMAIN entries_ : n \in DOMAIN entries_' /\ entries_'[n] = entries_[n]
    <3>1. Entry(fd, r) \in Entries
      BY <1>3, <1>4, <1>5, SMT DEF Entry, Entries
    <3> QED
      BY <1>2, <1>5, <3>1, SMTT(30)
  <2>2. \A n \in DOMAIN entries_ : ~entries_[n].dead => entries_[n].reg \in DOMAIN role
    BY <1>5 DEF Polls
  <2>3. Leads(pfds, entries_', role', hungup \cup shut)
    BY <1>4, <2>1, <2>2, Parts, LeadsOn, SMT
  <2> QED
    BY <1>2, <2>3
<1>12. Polls(entries_, file, role, conn_, Due)'
  <2>1. Due' = fd
    BY <1>1, <1>2, <1>7 DEF Due
  <2> QED
    BY <1>2, <1>6, <2>1
<1> QED
  BY <1>4, <1>8, <1>9, <1>10, <1>11, <1>12 DEF Inv

(* The rest of the pollfds.                                                *)
LEMMA LeadsTail ==
  ASSUME NEW ps \in Seq(Pollfds), ps # <<>>, NEW es, NEW ro, NEW ended, Leads(ps, es, ro, ended)
  PROVE  Leads(Tail(ps), es, ro, ended) /\ Tail(ps) \in Seq(Pollfds)
<1>1. /\ Tail(ps) \in Seq(Pollfds)
      /\ \A n \in DOMAIN Tail(ps) : n + 1 \in DOMAIN ps /\ Tail(ps)[n] = ps[n + 1]
  BY SMT
<1> QED
  BY <1>1 DEF Leads

(* The dispatch: an entry that is no tombstone is one of the current       *)
(* connection.                                                             *)
LEMMA DispatchInv == ASSUME Inv, Dispatch PROVE Inv'
<1>1. /\ UNCHANGED <<state_, conn_, cstate, shut, closes, role, inside, inbox, sent, hungup, held>>
      /\ pc = "dispatch" /\ pfds # <<>> /\ pfds' = Tail(pfds)
  BY DEF Dispatch
<1>2. pfds' \in Seq(Pollfds) /\ \A es : Leads(pfds, es, role, hungup \cup shut) =>
                                          Leads(pfds', es, role, hungup \cup shut)
  <2>1. pfds \in Seq(Pollfds)
    BY Parts DEF Types
  <2> QED
    BY <1>1, <2>1, Parts, LeadsTail
<1>3. conn = 0
  BY <1>1, Parts DEF HandlerInv
<1>4. CASE Skipped(entries_, Head(pfds))
  <2>1. UNCHANGED <<cur, pc, conn, verify_timer_, entries_, file, rung, expired>>
    BY <1>4 DEF Dispatch
  <2>2. Types'
    BY <1>1, <1>2, <2>1, Parts DEF Types, made
  <2>3. Roles(role)' /\ Leads(pfds, entries_, role, hungup \cup shut)'
    BY <1>1, <1>2, <2>1, Parts
  <2>4. ConnInv' /\ HandlerInv'
    BY <1>1, <2>1, Parts DEF ConnInv, HandlerInv, made
  <2>5. Polls(entries_, file, role, conn_, Due)'
    BY <1>1, <2>1, Parts DEF Due
  <2> QED
    BY <2>2, <2>3, <2>4, <2>5 DEF Inv
<1>5. CASE ~Skipped(entries_, Head(pfds))
  <2> DEFINE e == EntryAt(entries_, Head(pfds))
             x == pfds[1].idx
  <2>1. 1 \in DOMAIN pfds /\ Head(pfds) = pfds[1]
    <3>1. pfds \in Seq(Pollfds)
      BY Parts DEF Types
    <3> QED
      BY <1>1, <3>1, SMT
  <2>2. /\ e = entries_[x] /\ x \in DOMAIN entries_ /\ ~e.dead
        /\ role[e.reg].use = "socket" => role[e.reg].conn \in hungup \cup shut
    BY <1>5, <2>1, Parts DEF Skipped, EntryAt, Leads
  <2>3. IF role[e.reg].use = "timer" THEN StartTimer(e) ELSE StartHandler(e.reg)
    BY <1>5 DEF Dispatch
  <2> HIDE DEF e, x
  <2>4. /\ e.reg \in DOMAIN role /\ conn_ # 0 /\ role[e.reg].conn = conn_
        /\ role[e.reg].use = "timer" => e.fd = Due
    BY <2>2, Parts DEF Polls
  <2>5. e.fd # 0 /\ e.reg \in 1 .. Len(role) /\ conn_ \in Conns
    BY <2>2, <2>4, Parts, EntryFacts, LoopAssumptions, Numbers
  <2>6. CASE role[e.reg].use = "timer"
    <3>1. /\ pc' = "callback" /\ cur' = e.reg /\ conn' = conn /\ rung' = rung
          /\ entries_' = RemovedFd(entries_, e.fd) /\ file' = TimersClosed(file, {e.fd})
          /\ verify_timer_' = [verify_timer_ EXCEPT ![conn_] = 0] /\ expired' = expired \ {e.reg}
      BY <2>3, <2>4, <2>6 DEF StartTimer, Fired
    <3>2. Timer(conn_) = {e.fd}
      BY <2>4, <2>5, <2>6 DEF Timer, Due
    <3>3. RemovedFd(entries_, e.fd) = Removed(entries_, {e.fd})
      BY DEF RemovedFd, Removed
    <3>4. RemoveVerifyTimer(conn_)
      BY <3>1, <3>2, <3>3 DEF RemoveVerifyTimer
    <3>5. /\ entries_' \in Seq(Entries) /\ file' \in [Fds -> 0 .. Len(role)]
          /\ verify_timer_' \in [Conns -> Fds \cup {0}]
          /\ \A k \in Conns : k # conn_ => verify_timer_'[k] = 0
          /\ Polls(entries_, file, role, conn_, Due)'
          /\ Leads(pfds, entries_', role, hungup \cup shut')
      BY <1>1, <2>5, <3>4, VerifyTimerRemoved
    <3>6. cur' \in 0 .. Len(role)
      BY <2>5, <3>1, SMT
    <3>7. Types'
      BY <1>1, <1>2, <3>1, <3>5, <3>6, Parts DEF Types, made
    <3>8. Roles(role)' /\ Leads(pfds, entries_, role, hungup \cup shut)'
      BY <1>1, <1>2, <3>5, Parts
    <3>9. ConnInv'
      BY <1>1, <3>1, <3>5, Parts DEF ConnInv, made
    <3>10. HandlerInv'
      BY <1>1, <1>3, <3>1 DEF HandlerInv
    <3> QED
      BY <3>5, <3>7, <3>8, <3>9, <3>10 DEF Inv
  <2>7. CASE role[e.reg].use # "timer"
    <3>1. /\ conn' = conn_ /\ pc' = "drain" /\ cur' = e.reg /\ rung' \subseteq rung
          /\ UNCHANGED <<verify_timer_, entries_, file, expired>>
      BY <2>3, <2>4, <2>7 DEF StartHandler
    <3>2. cur' \in 0 .. Len(role) /\ cur' # 0
      BY <2>5, <3>1, SMT
    <3>3. Types'
      BY <1>1, <1>2, <3>1, <3>2, Parts DEF Types, made
    <3>4. Roles(role)' /\ Leads(pfds, entries_, role, hungup \cup shut)'
      BY <1>1, <1>2, <3>1, Parts
    <3>5. ConnInv'
      BY <1>1, <3>1, Parts DEF ConnInv, made
    <3>6. HandlerInv'
      BY <1>1, <2>2, <2>4, <3>1, <3>2 DEF HandlerInv
    <3>7. Polls(entries_, file, role, conn_, Due)'
      BY <1>1, <3>1, Parts DEF Due
    <3> QED
      BY <3>3, <3>4, <3>5, <3>6, <3>7 DEF Inv
  <2> QED
    BY <2>6, <2>7
<1> QED
  BY <1>4, <1>5

=============================================================================
