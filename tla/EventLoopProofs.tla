-------------------------- MODULE EventLoopProofs ---------------------------
(***************************************************************************)
(* Proofs about EventLoop, for every set of fd numbers and every number of *)
(* registrations.                                                          *)
(***************************************************************************)
EXTENDS EventLoop, LoopEntriesProofs, FiniteSetTheorems, TLAPS

(* Most leaves are first-order: Zenon is the prover unless one cites SMT.  *)
USE Zenon

-----------------------------------------------------------------------------
(* The inductive invariant.                                                *)

Kinds == {"fd", "timer", "oneshot"}
Entries == [fd : Fds, reg : Regs, dead : BOOLEAN]
Pollfds == [idx : Nat, fd : Fds, revents : BOOLEAN]

Types ==
  /\ entries_ \in Seq(Entries) /\ Len(entries_) <= regs
  /\ running_ \in BOOLEAN
  /\ file \in [Fds -> 0 .. regs] /\ kind \in [Regs -> Kinds]
  /\ regs \in 0 .. MaxRegs
  /\ ready \subseteq live /\ live \subseteq 1 .. regs /\ fired \subseteq 1 .. regs
  /\ reported \subseteq 1 .. regs
  /\ pfds \in Seq(Pollfds) /\ i \in Nat
  /\ pc \in {"out", "enter", "build", "poll", "dispatch", "callback"}
  /\ cur \in 0 .. regs

(* The entries es that are not tombstones are those of the registrations   *)
(* in lv, one each, and have the numbers of their own files f, which no    *)
(* other number has.                                                       *)
Match(es, f, lv) ==
  /\ \A k \in DOMAIN es : ~es[k].dead => es[k].reg \in lv /\ f[es[k].fd] = es[k].reg
  /\ \A r \in lv : \E k \in DOMAIN es : ~es[k].dead /\ es[k].reg = r
  /\ \A j, k \in DOMAIN es : ~es[j].dead /\ ~es[k].dead /\ es[j].reg = es[k].reg => j = k
  /\ \A g, h \in Fds : f[g] = f[h] /\ f[g] \in lv => g = h

(* The pollfds ps lead to entries es of their numbers.                     *)
Leads(ps, es) ==
  \A n \in DOMAIN ps : ps[n].idx \in DOMAIN es /\ es[ps[n].idx].fd = ps[n].fd

(* What poll reported of an entry that is no tombstone is about that       *)
(* entry's own registration.                                               *)
Own(ps, es, rep) ==
  \A n \in DOMAIN ps :
    ps[n].revents /\ ~es[ps[n].idx].dead => es[ps[n].idx].reg \in rep

(* Where a round is, nothing having been removed between Build and Poll.   *)
RoundInv ==
  /\ pc \in {"poll", "dispatch", "callback"} => Leads(pfds, entries_)
  /\ pc = "poll" => \A n \in DOMAIN pfds : ~entries_[pfds[n].idx].dead
  /\ pc \in {"dispatch", "callback"} => i \in 1 .. Len(pfds) + 1 /\ Own(pfds, entries_, reported)

Inv ==
  /\ Types /\ RoundInv
  /\ Match(entries_, file, live)
  /\ live \cap fired = {}

-----------------------------------------------------------------------------
(* What the operations do to the entries.                                  *)

(* What an entry is.                                                       *)
LEMMA EntryFacts ==
  ASSUME NEW es \in Seq(Entries)
  PROVE  /\ Len(es) \in Nat /\ DOMAIN es = 1 .. Len(es)
         /\ \A k \in DOMAIN es : /\ es[k] \in Entries
                                 /\ es[k].fd \in Fds /\ es[k].reg \in Regs /\ es[k].dead \in BOOLEAN
<1>1. /\ Len(es) \in Nat /\ DOMAIN es = 1 .. Len(es)
      /\ \A k \in DOMAIN es : es[k] \in Entries
  BY SMT
<1> QED
  BY <1>1 DEF Entries

(* push_back of an entry.                                                  *)
LEMMA AppendFacts ==
  ASSUME NEW es \in Seq(Entries), NEW e \in Entries
  PROVE  /\ Append(es, e) \in Seq(Entries) /\ Len(Append(es, e)) = Len(es) + 1
         /\ \A k \in DOMAIN es : k \in DOMAIN Append(es, e) /\ Append(es, e)[k] = es[k]
         /\ \A k \in DOMAIN Append(es, e) : k \in DOMAIN es \/ k = Len(es) + 1
         /\ Len(es) + 1 \in DOMAIN Append(es, e) /\ Append(es, e)[Len(es) + 1] = e
         /\ Len(es) + 1 \notin DOMAIN es
  BY SMT

(* A registration is made for a number that is free.                       *)
LEMMA AppendMatch ==
  ASSUME NEW es \in Seq(Entries), NEW f, NEW lv, Match(es, f, lv),
         NEW fd \in Fds, f \in [Fds -> Int], NEW r \in Regs, r \notin lv,
         f[fd] \notin lv, \A h \in Fds : f[h] # r,
         NEW e, e = [fd |-> fd, reg |-> r, dead |-> FALSE]
  PROVE  Match(Append(es, e), [f EXCEPT ![fd] = r], lv \cup {r})
<1> DEFINE t == Append(es, e)
           g == [f EXCEPT ![fd] = r]
           l == Len(es) + 1
<1>1. e \in Entries /\ e.fd = fd /\ e.reg = r /\ ~e.dead
  BY DEF Entries
<1>2. /\ \A k \in DOMAIN es : k \in DOMAIN t /\ t[k] = es[k]
      /\ \A k \in DOMAIN t : k \in DOMAIN es \/ k = l
      /\ l \in DOMAIN t /\ t[l] = e
  BY <1>1, AppendFacts, SMT
<1>3. g[fd] = r /\ \A h \in Fds : h # fd => g[h] = f[h]
  OBVIOUS
<1>4. \A k \in DOMAIN es : es[k].fd \in Fds
  BY EntryFacts
<1> HIDE DEF t, g, l
<1>5. ASSUME NEW k \in DOMAIN t, ~t[k].dead
      PROVE  t[k].reg \in lv \cup {r} /\ g[t[k].fd] = t[k].reg
  <2>1. CASE k \in DOMAIN es
    <3>1. es[k].reg \in lv /\ f[es[k].fd] = es[k].reg
      BY <1>2, <1>5, <2>1 DEF Match
    <3>2. es[k].fd # fd
      BY <3>1
    <3> QED
      BY <1>2, <1>3, <1>4, <2>1, <3>1, <3>2
  <2>2. CASE k = l
    BY <1>1, <1>2, <1>3, <2>2
  <2> QED
    BY <1>2, <2>1, <2>2
<1>6. ASSUME NEW q \in lv \cup {r}
      PROVE  \E k \in DOMAIN t : ~t[k].dead /\ t[k].reg = q
  BY <1>1, <1>2, SMT DEF Match
<1>7. ASSUME NEW j \in DOMAIN t, NEW k \in DOMAIN t, ~t[j].dead, ~t[k].dead, t[j].reg = t[k].reg
      PROVE  j = k
  <2>1. \A n \in DOMAIN es : ~es[n].dead => es[n].reg # r
    BY SMT DEF Match
  <2>2. \A n \in DOMAIN t : n \in DOMAIN es \/ n = l
    BY <1>2
  <2>3. CASE j \in DOMAIN es /\ k \in DOMAIN es
    BY <1>2, <1>7, <2>3 DEF Match
  <2>4. CASE j = l \/ k = l
    BY <1>1, <1>2, <1>7, <2>1, <2>4
  <2> QED
    BY <2>2, <2>3, <2>4
<1>8. ASSUME NEW h \in Fds, NEW j \in Fds, g[h] = g[j], g[h] \in lv \cup {r}
      PROVE  h = j
  BY <1>3, <1>8, SMT DEF Match
<1>9. Match(t, g, lv \cup {r})
  BY <1>5, <1>6, <1>7, <1>8 DEF Match
<1> QED
  BY <1>9 DEF t, g

(* RemoveFd only sets dead, and only of the entries with the number.       *)
LEMMA RemovedFdFacts ==
  ASSUME NEW es \in Seq(Entries), NEW fd
  PROVE  /\ RemovedFd(es, fd) \in Seq(Entries) /\ Len(RemovedFd(es, fd)) = Len(es)
         /\ DOMAIN RemovedFd(es, fd) = DOMAIN es
         /\ \A k \in DOMAIN es :
              /\ RemovedFd(es, fd)[k].fd = es[k].fd /\ RemovedFd(es, fd)[k].reg = es[k].reg
              /\ RemovedFd(es, fd)[k].dead <=> es[k].dead \/ es[k].fd = fd
<1> DEFINE t == RemovedFd(es, fd)
<1>1. DOMAIN es = 1 .. Len(es) /\ Len(es) \in Nat /\ DOMAIN t = DOMAIN es
  BY EntryFacts DEF RemovedFd
<1>2. ASSUME NEW k \in DOMAIN es
      PROVE  /\ t[k] \in Entries
             /\ t[k].fd = es[k].fd /\ t[k].reg = es[k].reg
             /\ t[k].dead <=> es[k].dead \/ es[k].fd = fd
  <2>1. es[k] \in [fd : Fds, reg : Regs, dead : BOOLEAN]
    BY EntryFacts DEF Entries
  <2>2. t[k] = IF es[k].fd = fd THEN [es[k] EXCEPT !.dead = TRUE] ELSE es[k]
    BY DEF RemovedFd
  <2> HIDE DEF t
  <2>3. CASE es[k].fd = fd
    BY <2>1, <2>2, <2>3 DEF Entries
  <2>4. CASE es[k].fd # fd
    BY <2>1, <2>2, <2>4 DEF Entries
  <2> QED
    BY <2>3, <2>4
<1>3. t = [k \in 1 .. Len(es) |-> t[k]] /\ \A k \in 1 .. Len(es) : t[k] \in Entries
  BY <1>1, <1>2 DEF RemovedFd
<1> HIDE DEF t
<1>4. t \in Seq(Entries) /\ Len(t) = Len(es)
  BY <1>1, <1>3, SMT
<1> QED
  BY <1>1, <1>2, <1>4 DEF t

(* The file with that number, if it is registered, is removed with it.     *)
LEMMA RemovedFdMatch ==
  ASSUME NEW es \in Seq(Entries), NEW f, NEW lv, Match(es, f, lv), NEW fd \in Fds,
         NEW g, \A h \in Fds \ {fd} : g[h] = f[h], g[fd] = f[fd] \/ g[fd] \notin lv
  PROVE  Match(RemovedFd(es, fd), g, lv \ {f[fd]})
<1> DEFINE t == RemovedFd(es, fd)
<1>1. /\ DOMAIN t = DOMAIN es
      /\ \A k \in DOMAIN es : /\ t[k].fd = es[k].fd /\ t[k].reg = es[k].reg
                              /\ t[k].dead <=> es[k].dead \/ es[k].fd = fd
      /\ \A k \in DOMAIN es : es[k].fd \in Fds
  BY RemovedFdFacts, EntryFacts
<1> HIDE DEF t
<1>2. /\ \A k \in DOMAIN es : ~es[k].dead => es[k].reg \in lv /\ f[es[k].fd] = es[k].reg
      /\ \A r \in lv : \E k \in DOMAIN es : ~es[k].dead /\ es[k].reg = r
      /\ \A j, k \in DOMAIN es : ~es[j].dead /\ ~es[k].dead /\ es[j].reg = es[k].reg => j = k
      /\ \A h, j \in Fds : f[h] = f[j] /\ f[h] \in lv => h = j
  BY DEF Match
<1>3. ASSUME NEW k \in DOMAIN t, ~t[k].dead
      PROVE  t[k].reg \in lv \ {f[fd]} /\ g[t[k].fd] = t[k].reg
  <2>1. ~es[k].dead /\ es[k].fd # fd /\ es[k].reg \in lv /\ f[es[k].fd] = es[k].reg
    BY <1>1, <1>2, <1>3
  <2>2. es[k].reg # f[fd]
    BY <1>1, <1>2, <2>1, SMT
  <2> QED
    BY <1>1, <2>1, <2>2, ZenonT(30)
<1>4. ASSUME NEW r \in lv \ {f[fd]}
      PROVE  \E k \in DOMAIN t : ~t[k].dead /\ t[k].reg = r
  <2>1. PICK k \in DOMAIN es : ~es[k].dead /\ es[k].reg = r
    BY <1>2
  <2>2. es[k].fd # fd
    BY <1>2, <2>1
  <2> QED
    BY <1>1, <2>1, <2>2
<1>5. ASSUME NEW j \in DOMAIN t, NEW k \in DOMAIN t, ~t[j].dead, ~t[k].dead, t[j].reg = t[k].reg
      PROVE  j = k
  BY <1>1, <1>2, <1>5, SMT
<1>6. ASSUME NEW h \in Fds, NEW j \in Fds, g[h] = g[j], g[h] \in lv \ {f[fd]}
      PROVE  h = j
  BY <1>2, <1>6, ZenonT(30)
<1>7. Match(t, g, lv \ {f[fd]})
  BY <1>3, <1>4, <1>5, <1>6 DEF Match
<1> QED
  BY <1>7 DEF t

(* CompactDead keeps the entries that are no tombstones, each once.        *)
LEMMA CompactedFacts ==
  ASSUME NEW es \in Seq(Entries)
  PROVE  /\ Compacted(es) \in Seq(Entries) /\ Len(Compacted(es)) <= Len(es)
         /\ \A k \in DOMAIN Compacted(es) : ~Compacted(es)[k].dead
         /\ \A f, lv : Match(es, f, lv) => Match(Compacted(es), f, lv)
<1> DEFINE K == {k \in DOMAIN es : ~es[k].dead}
           t == Selected(es, K)
<1>1. K \in SUBSET (1 .. Len(es)) /\ \A k \in K : k \in DOMAIN es /\ ~es[k].dead
  BY EntryFacts
<1>2. \A k \in DOMAIN es : ~es[k].dead => k \in K
  OBVIOUS
<1> HIDE DEF K, t
<1>3. /\ t \in Seq(Entries) /\ Len(t) <= Len(es)
      /\ \E m : Picks(m, t, es, K)
  BY <1>1, SelectedPicks DEF t
<1>4. PICK m : /\ m \in [1 .. Len(t) -> K]
               /\ \A j \in 1 .. Len(t) : t[j] = es[m[j]]
               /\ \A j, k \in 1 .. Len(t) : j < k => m[j] < m[k]
               /\ \A k \in K : \E j \in 1 .. Len(t) : m[j] = k
  BY <1>3 DEF Picks
<1>5. /\ DOMAIN t = 1 .. Len(t) /\ Len(t) \in Nat
      /\ \A j \in DOMAIN t : m[j] \in K /\ m[j] \in Nat /\ t[j] = es[m[j]]
  <2>1. DOMAIN t = 1 .. Len(t) /\ Len(t) \in Nat
    BY <1>3, EntryFacts
  <2>2. \A k \in K : k \in Nat
    BY <1>1, SMT
  <2> QED
    BY <1>4, <2>1, <2>2
<1>6. \A j, k \in DOMAIN t : m[j] = m[k] => j = k
  BY <1>4, <1>5, SMT
<1>7. \A k \in DOMAIN t : ~t[k].dead
  BY <1>1, <1>5
<1>8. ASSUME NEW f, NEW lv, Match(es, f, lv) PROVE Match(t, f, lv)
  <2>1. /\ \A k \in DOMAIN es : ~es[k].dead => es[k].reg \in lv /\ f[es[k].fd] = es[k].reg
        /\ \A r \in lv : \E k \in DOMAIN es : ~es[k].dead /\ es[k].reg = r
        /\ \A j, k \in DOMAIN es :
             ~es[j].dead /\ ~es[k].dead /\ es[j].reg = es[k].reg => j = k
    BY <1>8 DEF Match
  <2>2. \A k \in DOMAIN t : t[k].reg \in lv /\ f[t[k].fd] = t[k].reg
    BY <1>1, <1>5, <2>1, SMT
  <2>3. \A r \in lv : \E k \in DOMAIN t : ~t[k].dead /\ t[k].reg = r
    BY <1>2, <1>4, <1>5, <1>7, <2>1, SMT
  <2>4. \A j, k \in DOMAIN t : t[j].reg = t[k].reg => j = k
    BY <1>1, <1>5, <1>6, <2>1, SMT
  <2> QED
    BY <1>8, <2>2, <2>3, <2>4 DEF Match
<1> QED
  BY <1>3, <1>7, <1>8 DEF Compacted, Alive, K, t

(* The pollfds lead where they led after entries were added or became      *)
(* tombstones.                                                             *)
LEMMA LeadsOn ==
  ASSUME NEW ps, NEW es, NEW t, NEW rep,
         \A k \in DOMAIN es : /\ k \in DOMAIN t
                              /\ t[k].fd = es[k].fd /\ t[k].reg = es[k].reg
                              /\ ~t[k].dead => ~es[k].dead,
         Leads(ps, es)
  PROVE  Leads(ps, t) /\ (Own(ps, es, rep) => Own(ps, t, rep))
  BY DEF Leads, Own

(* Build makes a pollfd for each entry that is no tombstone.               *)
LEMMA BuiltFacts ==
  ASSUME NEW es \in Seq(Entries), NEW all,
         all = [k \in DOMAIN es |-> [idx |-> k, fd |-> es[k].fd, revents |-> FALSE]],
         NEW K \in SUBSET DOMAIN es, NEW ps, ps = Selected(all, K)
  PROVE  /\ ps \in Seq(Pollfds)
         /\ Leads(ps, es) /\ \A n \in DOMAIN ps : ps[n].idx \in K
<1>1. /\ Len(es) \in Nat /\ DOMAIN es = 1 .. Len(es)
      /\ \A k \in DOMAIN es : es[k].fd \in Fds
  BY EntryFacts
<1>2. all \in [1 .. Len(es) -> Pollfds]
  BY <1>1, SMT DEF Pollfds
<1>3. all \in Seq(Pollfds) /\ Len(all) = Len(es)
  BY <1>1, <1>2, SMT
<1>4. \A k \in DOMAIN es : all[k].idx = k /\ all[k].fd = es[k].fd
  OBVIOUS
<1>5. ps \in Seq(Pollfds) /\ \E m : Picks(m, ps, all, K)
  BY <1>1, <1>3, SelectedPicks
<1>6. PICK m : m \in [1 .. Len(ps) -> K] /\ \A j \in 1 .. Len(ps) : ps[j] = all[m[j]]
  BY <1>5 DEF Picks
<1>7. DOMAIN ps = 1 .. Len(ps)
  BY <1>5, SMT
<1>8. \A n \in DOMAIN ps : m[n] \in K /\ m[n] \in DOMAIN es /\ ps[n] = all[m[n]]
  BY <1>6, <1>7
<1>9. ASSUME NEW n \in DOMAIN ps
      PROVE  ps[n].idx \in K /\ ps[n].idx \in DOMAIN es /\ es[ps[n].idx].fd = ps[n].fd
  <2>1. m[n] \in K /\ m[n] \in DOMAIN es /\ ps[n] = all[m[n]]
    BY <1>8
  <2>2. all[m[n]].idx = m[n] /\ all[m[n]].fd = es[m[n]].fd
    BY <2>1, <1>4
  <2>3. ps[n].idx = m[n] /\ ps[n].fd = es[m[n]].fd
    BY <2>1, <2>2
  <2> QED
    BY <2>1, <2>3
<1> QED
  BY <1>5, <1>9 DEF Leads

-----------------------------------------------------------------------------
(* The steps.                                                              *)

(* AddFd appends an entry whose registration is new.                       *)
LEMMA AddFdInv == ASSUME Inv, NEW k \in Kinds, AddFd(k) PROVE Inv'
<1> DEFINE r == regs + 1
<1>1. /\ Types /\ RoundInv /\ Match(entries_, file, live) /\ live \cap fired = {}
      /\ pc \in {"out", "callback"} /\ regs < MaxRegs
      /\ regs' = r /\ live' = live \cup {r}
      /\ kind' = [kind EXCEPT ![r] = k]
      /\ UNCHANGED <<running_, fired, ready, pfds, reported, i, cur, pc>>
  BY DEF Inv, AddFd, Calling, round
<1>2. PICK fd \in Fds : /\ file[fd] = 0
                        /\ entries_' = Append(entries_, NewEntry(fd))
                        /\ file' = [file EXCEPT ![fd] = r]
  BY DEF AddFd
<1>3. /\ r \in Regs /\ r \in Nat /\ regs \in Nat /\ r \notin live /\ 0 \notin live
      /\ MaxRegs \in Nat
  BY <1>1, MaxRegsAssumption, SMT DEF Types, Regs
<1>4. NewEntry(fd) \in Entries /\ NewEntry(fd) = [fd |-> fd, reg |-> r, dead |-> FALSE]
  BY <1>3 DEF NewEntry, Entries
<1>5. entries_ \in Seq(Entries) /\ file \in [Fds -> 0 .. regs]
  BY <1>1 DEF Types
<1>6. Match(entries_, file, live)'
  <2>1. file \in [Fds -> Int] /\ \A h \in Fds : file[h] # r
    BY <1>3, <1>5, SMT
  <2>2. Match(Append(entries_, NewEntry(fd)), [file EXCEPT ![fd] = r], live \cup {r})
    BY <1>1, <1>2, <1>3, <1>4, <1>5, <2>1, AppendMatch
  <2> QED
    BY <1>1, <1>2, <2>2
<1>7. Types'
  <2>1. (entries_ \in Seq(Entries))' /\ Len(entries_)' = Len(entries_) + 1
    BY <1>2, <1>4, <1>5, AppendFacts
  <2>2. file' \in [Fds -> 0 .. r] /\ kind' \in [Regs -> Kinds]
    BY <1>1, <1>2, <1>3, <1>5, SMT DEF Types
  <2>3. Len(entries_) \in Nat /\ Len(entries_) <= regs
    BY <1>1, <1>5, SMT DEF Types
  <2>4. regs' \in 0 .. MaxRegs /\ Len(entries_)' <= regs' /\ 1 .. regs \subseteq 1 .. r /\ 0 .. regs \subseteq 0 .. r
    BY <1>1, <1>3, <2>1, <2>3, SMT
  <2>5. r \in 1 .. r
    BY <1>3, SMT
  <2> QED
    BY <1>1, <2>1, <2>2, <2>4, <2>5 DEF Types
<1>8. RoundInv'
  <2>1. \A n \in DOMAIN entries_ : n \in DOMAIN entries_' /\ entries_'[n] = entries_[n]
    BY <1>2, <1>4, <1>5, AppendFacts
  <2>2. Leads(pfds, entries_) => /\ Leads(pfds, entries_')
                                 /\ Own(pfds, entries_, reported) => Own(pfds, entries_', reported)
    BY <2>1, LeadsOn
  <2> QED
    BY <1>1, <2>2 DEF RoundInv
<1>9. live' \cap fired' = {}
  <2>1. r \notin fired
    BY <1>1, <1>3, SMT DEF Types
  <2> QED
    BY <1>1, <2>1
<1> QED
  BY <1>6, <1>7, <1>8, <1>9 DEF Inv

(* An entry and its file go: RemoveFd, RemoveTimer and the start of the    *)
(* callback of a one-shot timer.                                           *)
LEMMA Removal ==
  ASSUME Inv, NEW fd \in Fds, file[fd] \in live,
         entries_' = RemovedFd(entries_, fd),
         file' = file \/ file' = [file EXCEPT ![fd] = 0],
         live' = live \ {file[fd]}
  PROVE  /\ Match(entries_, file, live)'
         /\ entries_' \in Seq(Entries) /\ Len(entries_') = Len(entries_)
         /\ file' \in [Fds -> 0 .. regs]
         /\ Leads(pfds, entries_) =>
              /\ Leads(pfds, entries_')
              /\ Own(pfds, entries_, reported) => Own(pfds, entries_', reported)
<1>1. /\ entries_ \in Seq(Entries) /\ file \in [Fds -> 0 .. regs] /\ regs \in Nat
      /\ Match(entries_, file, live) /\ 0 \notin live
  BY MaxRegsAssumption, SMT DEF Inv, Types
<1>2. entries_' = RemovedFd(entries_, fd)
  OBVIOUS
<1>3. /\ file' \in [Fds -> 0 .. regs]
      /\ \A h \in Fds \ {fd} : file'[h] = file[h]
      /\ file'[fd] = file[fd] \/ file'[fd] \notin live
  BY <1>1, SMT
<1>4. Match(entries_', file', live')
  BY <1>1, <1>2, <1>3, RemovedFdMatch, SMT
<1>5. /\ entries_' \in Seq(Entries) /\ Len(entries_') = Len(entries_)
      /\ DOMAIN entries_' = DOMAIN entries_
      /\ \A k \in DOMAIN entries_ :
           /\ entries_'[k].fd = entries_[k].fd /\ entries_'[k].reg = entries_[k].reg
           /\ entries_'[k].dead <=> entries_[k].dead \/ entries_[k].fd = fd
  BY <1>1, <1>2, RemovedFdFacts, SMT
<1>6. Leads(pfds, entries_) => /\ Leads(pfds, entries_')
                               /\ Own(pfds, entries_, reported) => Own(pfds, entries_', reported)
  BY <1>5, LeadsOn
<1> QED
  BY <1>3, <1>4, <1>5, <1>6

LEMMA RemoveFdInv == ASSUME Inv, NEW fd \in Fds, RemoveFd(fd) PROVE Inv'
<1>1. /\ Types /\ RoundInv /\ live \cap fired = {}
      /\ pc \in {"out", "callback"} /\ file[fd] \in live
      /\ entries_' = RemovedFd(entries_, fd) /\ live' = live \ {file[fd]} /\ ready' = ready \ {file[fd]}
      /\ UNCHANGED <<running_, file, kind, regs, fired, pfds, reported, i, cur, pc>>
  BY DEF Inv, RemoveFd, Calling, round
<1>2. /\ Match(entries_, file, live)'
      /\ entries_' \in Seq(Entries) /\ Len(entries_') = Len(entries_)
      /\ Leads(pfds, entries_) =>
           /\ Leads(pfds, entries_')
           /\ Own(pfds, entries_, reported) => Own(pfds, entries_', reported)
  BY <1>1, Removal
<1>3. Types'
  BY <1>1, <1>2 DEF Types
<1>4. RoundInv'
  BY <1>1, <1>2 DEF RoundInv
<1> QED
  BY <1>1, <1>2, <1>3, <1>4 DEF Inv

LEMMA RemoveTimerInv == ASSUME Inv, NEW tfd \in Fds, RemoveTimer(tfd) PROVE Inv'
<1>1. /\ Types /\ RoundInv /\ live \cap fired = {}
      /\ pc \in {"out", "callback"} /\ file[tfd] \in live
      /\ entries_' = RemovedFd(entries_, tfd) /\ live' = live \ {file[tfd]} /\ ready' = ready \ {file[tfd]}
      /\ file' = [file EXCEPT ![tfd] = 0]
      /\ UNCHANGED <<running_, kind, regs, fired, pfds, reported, i, cur, pc>>
  BY DEF Inv, RemoveTimer, Calling, round
<1>2. /\ Match(entries_, file, live)'
      /\ entries_' \in Seq(Entries) /\ Len(entries_') = Len(entries_)
      /\ file' \in [Fds -> 0 .. regs]
      /\ Leads(pfds, entries_) =>
           /\ Leads(pfds, entries_')
           /\ Own(pfds, entries_, reported) => Own(pfds, entries_', reported)
  BY <1>1, Removal
<1>3. Types'
  BY <1>1, <1>2 DEF Types
<1>4. RoundInv'
  BY <1>1, <1>2 DEF RoundInv
<1> QED
  BY <1>1, <1>2, <1>3, <1>4 DEF Inv

(* CloseFile frees a number that no entry but tombstones has.              *)
LEMMA CloseFileInv == ASSUME Inv, NEW fd \in Fds, CloseFile(fd) PROVE Inv'
<1>1. /\ Types /\ RoundInv /\ live \cap fired = {} /\ Match(entries_, file, live)
      /\ file[fd] \notin live /\ file' = [file EXCEPT ![fd] = 0]
      /\ UNCHANGED <<entries_, running_, kind, regs, live, fired, ready, pfds, reported, i, cur, pc>>
  BY DEF Inv, CloseFile, round
<1>2. /\ entries_ \in Seq(Entries) /\ file \in [Fds -> 0 .. regs] /\ regs \in Nat /\ 0 \notin live
  BY <1>1, MaxRegsAssumption, SMT DEF Types
<1>3. file' \in [Fds -> 0 .. regs] /\ file'[fd] \notin live /\ \A h \in Fds \ {fd} : file'[h] = file[h]
  BY <1>1, <1>2, SMT
<1>4. Types'
  BY <1>1, <1>3 DEF Types
<1>5. RoundInv'
  BY <1>1 DEF RoundInv
<1>6. \A k \in DOMAIN entries_ : entries_[k].fd \in Fds
  BY <1>2, EntryFacts
<1>7. Match(entries_, file', live)
  BY <1>1, <1>3, <1>6, ZenonT(30) DEF Match
<1> QED
  BY <1>1, <1>4, <1>5, <1>7 DEF Inv

(* The steps that touch neither entries nor files: a round goes on, or is  *)
(* given up, or none is under way.                                         *)
Quiet ==
  /\ UNCHANGED <<entries_, file, kind, regs, live, fired, reported, i>>
  /\ pfds' = pfds \/ (pfds' = <<>> /\ pc' \in {"build", "out"})
  /\ cur' = cur \/ cur' = 0
  /\ running_' = running_ \/ running_' \in BOOLEAN
  /\ ready' = ready \/ \E r \in live : ready' = ready \cup {r}
  /\ \/ pc' = pc \/ pc' \in {"build", "out", "enter"}
     \/ pc = "callback" /\ pc' = "dispatch"

LEMMA QuietSteps ==
  ASSUME Stop \/ (\E r \in Regs : BecomesReady(r)) \/ Run \/ RunStore
           \/ PollInterrupted \/ PollFails \/ CallbackReturn \/ UNCHANGED vars
  PROVE  Quiet
<1>1. ASSUME Stop PROVE Quiet
  BY <1>1 DEF Stop, Quiet, app, round
<1>2. ASSUME NEW r \in Regs, BecomesReady(r) PROVE Quiet
  BY <1>2 DEF BecomesReady, Quiet, app, round
<1>3. ASSUME Run PROVE Quiet
  BY <1>3 DEF Run, Quiet, app, round
<1>4. ASSUME RunStore PROVE Quiet
  BY <1>4 DEF RunStore, Quiet, app, round
<1>5. ASSUME PollInterrupted \/ PollFails PROVE Quiet
  BY <1>5 DEF PollInterrupted, PollFails, Quiet, app
<1>6. ASSUME CallbackReturn PROVE Quiet
  BY <1>6 DEF CallbackReturn, Quiet, app
<1>7. ASSUME UNCHANGED vars PROVE Quiet
  BY <1>7 DEF vars, app, round, Quiet
<1> QED
  BY <1>1, <1>2, <1>3, <1>4, <1>5, <1>6, <1>7

LEMMA QuietInv == ASSUME Inv, Quiet PROVE Inv'
<1>1. Types /\ RoundInv /\ live \cap fired = {} /\ Match(entries_, file, live)
  BY DEF Inv
<1>2. pfds' \in Seq(Pollfds)
  <2>1. <<>> \in Seq(Pollfds)
    BY SMT
  <2> QED
    BY <1>1, <2>1 DEF Types, Quiet
<1>3. cur' \in 0 .. regs
  BY <1>1, MaxRegsAssumption, SMT DEF Types, Quiet
<1>4. ready' \subseteq live
  BY <1>1 DEF Types, Quiet
<1>5. running_' \in BOOLEAN
  BY <1>1 DEF Types, Quiet
<1>6. (pc \in {"out", "enter", "build", "poll", "dispatch", "callback"})'
  BY <1>1 DEF Types, Quiet
<1>7. UNCHANGED <<entries_, file, kind, regs, live, fired, reported, i>>
  BY DEF Quiet
<1>8. Types'
  BY <1>1, <1>2, <1>3, <1>4, <1>5, <1>6, <1>7 DEF Types
<1>9. RoundInv'
  <2>1. CASE pc' \in {"build", "out", "enter"}
    BY <2>1 DEF RoundInv
  <2>2. CASE pc' \notin {"build", "out", "enter"}
    <3>1. pfds' = pfds /\ (pc' = pc \/ (pc = "callback" /\ pc' = "dispatch"))
      BY <2>2 DEF Quiet
    <3> QED
      BY <1>1, <1>7, <3>1 DEF RoundInv
  <2> QED
    BY <2>1, <2>2
<1> QED
  BY <1>1, <1>7, <1>8, <1>9 DEF Inv

(* Build: each pollfd stands for an entry that is no tombstone.            *)
LEMMA BuildInv == ASSUME Inv, Build PROVE Inv'
<1>1. /\ Types /\ RoundInv /\ live \cap fired = {} /\ Match(entries_, file, live)
      /\ UNCHANGED <<entries_, running_, file, kind, regs, live, fired, ready, reported, i, cur>>
  BY DEF Inv, Build, app
<1>2. CASE Stopped
  <2>1. pc' = "out" /\ pfds' = pfds
    BY <1>2 DEF Build
  <2>2. Types' /\ RoundInv'
    BY <1>1, <2>1 DEF Types, RoundInv
  <2> QED
    BY <1>1, <2>2 DEF Inv
<1>3. CASE ~Stopped
  <2> DEFINE all == [k \in DOMAIN entries_ |->
                       [idx |-> k, fd |-> entries_[k].fd, revents |-> FALSE]]
  <2>1. pc' = "poll" /\ pfds' = Selected(all, Alive(entries_))
    BY <1>3 DEF Build
  <2>2. entries_ \in Seq(Entries) /\ Alive(entries_) \in SUBSET DOMAIN entries_
    BY <1>1 DEF Types, Alive
  <2>3. all = [k \in DOMAIN entries_ |->
                 [idx |-> k, fd |-> entries_[k].fd, revents |-> FALSE]]
    OBVIOUS
  <2> HIDE DEF all
  <2>4. /\ pfds' \in Seq(Pollfds) /\ Leads(pfds', entries_)
        /\ \A n \in DOMAIN pfds' : pfds'[n].idx \in Alive(entries_)
    BY <2>1, <2>2, <2>3, BuiltFacts
  <2>5. \A n \in DOMAIN pfds' : ~entries_[pfds'[n].idx].dead
    BY <2>4 DEF Alive
  <2>6. Types'
    BY <1>1, <2>1, <2>4 DEF Types
  <2>7. RoundInv'
    BY <1>1, <2>1, <2>4, <2>5 DEF RoundInv
  <2> QED
    BY <1>1, <2>6, <2>7 DEF Inv
<1> QED
  BY <1>2, <1>3

(* What a pollfd is.                                                       *)
LEMMA PollfdFacts ==
  ASSUME NEW ps \in Seq(Pollfds)
  PROVE  /\ Len(ps) \in Nat /\ DOMAIN ps = 1 .. Len(ps)
         /\ \A n \in DOMAIN ps : ps[n] \in Pollfds
  BY SMT

(* Poll: no entry has become a tombstone since Build, so what it finds     *)
(* readable under a number is the file of the entry's registration.        *)
LEMMA PollInv == ASSUME Inv, Poll PROVE Inv'
<1>1. /\ Types /\ RoundInv /\ live \cap fired = {} /\ Match(entries_, file, live)
      /\ pc = "poll" /\ pc' = "dispatch" /\ i' = 1 /\ reported' = ready
      /\ pfds' = [n \in DOMAIN pfds |-> [pfds[n] EXCEPT !.revents = file[pfds[n].fd] \in ready]]
      /\ UNCHANGED <<entries_, running_, file, kind, regs, live, fired, ready, cur>>
  BY DEF Inv, Poll, app
<1>2. /\ pfds \in Seq(Pollfds) /\ Len(pfds) \in Nat /\ DOMAIN pfds = 1 .. Len(pfds)
      /\ \A n \in DOMAIN pfds : pfds[n] \in Pollfds
  BY <1>1, PollfdFacts DEF Types
<1>3. \A n \in DOMAIN pfds :
        /\ pfds'[n] \in Pollfds
        /\ pfds'[n].idx = pfds[n].idx /\ pfds'[n].fd = pfds[n].fd
        /\ pfds'[n].revents <=> file[pfds[n].fd] \in ready
  <2>1. ASSUME NEW q \in Pollfds, NEW b \in BOOLEAN, NEW t, t = [q EXCEPT !.revents = b]
        PROVE  t \in Pollfds /\ t.idx = q.idx /\ t.fd = q.fd /\ t.revents = b
    BY <2>1 DEF Pollfds
  <2> TAKE n \in DOMAIN pfds
  <2> DEFINE b == file[pfds[n].fd] \in ready
  <2>2. pfds'[n] = [pfds[n] EXCEPT !.revents = b] /\ pfds[n] \in Pollfds /\ b \in BOOLEAN
    BY <1>1, <1>2, SMT
  <2>3. pfds'[n] \in Pollfds /\ pfds'[n].idx = pfds[n].idx /\ pfds'[n].fd = pfds[n].fd
        /\ pfds'[n].revents = b
    <3> HIDE DEF b
    <3> QED
      BY <2>1, <2>2, SMT
  <2> QED
    BY <2>3
<1>4. DOMAIN pfds' = DOMAIN pfds
  BY <1>1
<1>5. pfds' \in Seq(Pollfds) /\ Len(pfds') = Len(pfds)
  <2>1. pfds' \in [1 .. Len(pfds) -> Pollfds]
    BY <1>1, <1>2, <1>3
  <2> QED
    BY <1>2, <2>1, SMT
<1>6. Leads(pfds', entries_)
  BY <1>1, <1>3, <1>4, ZenonT(30) DEF RoundInv, Leads
<1>7. Own(pfds', entries_, ready)
  <2> SUFFICES ASSUME NEW n \in DOMAIN pfds, file[pfds[n].fd] \in ready
               PROVE  entries_[pfds[n].idx].reg \in ready
    BY <1>3, <1>4 DEF Own
  <2>1. /\ pfds[n].idx \in DOMAIN entries_ /\ entries_[pfds[n].idx].fd = pfds[n].fd
        /\ ~entries_[pfds[n].idx].dead
    BY <1>1 DEF RoundInv, Leads
  <2> QED
    BY <1>1, <2>1 DEF Match
<1>8. Types'
  <2>1. ready \subseteq 1 .. regs
    BY <1>1 DEF Types
  <2> QED
    BY <1>1, <1>5, <2>1 DEF Types
<1>9. RoundInv'
  <2>1. i' \in 1 .. Len(pfds') + 1
    BY <1>1, <1>2, <1>5, SMT
  <2> QED
    BY <1>1, <1>6, <1>7, <2>1 DEF RoundInv
<1> QED
  BY <1>1, <1>8, <1>9 DEF Inv

(* Dispatch: a one-shot timer goes as its callback starts.                 *)
LEMMA DispatchInv ==
  ASSUME Inv, Dispatch
  PROVE  Inv' /\ (pc' = "callback" => cur' \in (live \cap reported) \ fired)
<1>1. /\ Types /\ RoundInv /\ live \cap fired = {} /\ Match(entries_, file, live)
      /\ pc = "dispatch" /\ i' = i + 1 /\ i \in 1 .. Len(pfds)
      /\ UNCHANGED <<running_, kind, regs, pfds, reported>>
  <2>1. Types /\ RoundInv /\ pc = "dispatch" /\ ~(i > Len(pfds)) /\ Len(pfds) \in Nat
    BY PollfdFacts DEF Inv, Dispatch, DispatchEnds, Types
  <2>2. i \in 1 .. Len(pfds)
    BY <2>1, SMT DEF RoundInv
  <2> QED
    BY <2>1, <2>2 DEF Inv, Dispatch
<1>2. Len(pfds) \in Nat /\ DOMAIN pfds = 1 .. Len(pfds)
  BY <1>1, PollfdFacts DEF Types
<1>3. i' \in Nat /\ i' \in 1 .. Len(pfds) + 1
  BY <1>1, <1>2, SMT
<1>4. Leads(pfds, entries_) /\ Own(pfds, entries_, reported)
  BY <1>1 DEF RoundInv
<1>5. CASE Skipped(entries_, pfds[i])
  <2>1. UNCHANGED <<entries_, file, live, fired, ready, cur, pc>>
    BY <1>5 DEF Dispatch
  <2>2. Types'
    BY <1>1, <1>3, <2>1 DEF Types
  <2>3. RoundInv'
    BY <1>1, <1>3, <1>4, <2>1 DEF RoundInv
  <2> QED
    BY <1>1, <2>1, <2>2, <2>3 DEF Inv
<1>6. CASE ~Skipped(entries_, pfds[i])
  <2> DEFINE e == EntryAt(entries_, pfds[i])
  <2>1. /\ e = entries_[pfds[i].idx] /\ pfds[i].idx \in DOMAIN entries_
        /\ ~e.dead /\ pfds[i].revents /\ i \in DOMAIN pfds
    BY <1>1, <1>2, <1>4, <1>6 DEF Skipped, EntryAt, Leads
  <2>2. e.reg \in reported
    BY <1>4, <2>1 DEF Own
  <2>3. e.reg \in live /\ file[e.fd] = e.reg
    BY <1>1, <2>1, SMT DEF Match
  <2>4. e.fd \in Fds
    <3>1. entries_ \in Seq(Entries)
      BY <1>1 DEF Types
    <3> QED
      BY <2>1, <3>1, EntryFacts
  <2> HIDE DEF e
  <2>5. e.reg \notin fired /\ e.reg \in 0 .. regs /\ e.reg \in 1 .. regs
    <3>1. e.reg \notin fired
      BY <1>1, <2>3
    <3>2. e.reg \in 1 .. regs
      BY <1>1, <2>3 DEF Types
    <3>3. 1 .. regs \subseteq 0 .. regs
      BY SMT
    <3> QED
      BY <3>1, <3>2, <3>3
  <2>6. Call(e)
    BY <1>6 DEF Dispatch, e
  <2>7. cur' = e.reg /\ pc' = "callback" /\ ready' = ready \ {e.reg}
    BY <2>6 DEF Call
  <2>8. CASE kind[e.reg] = "oneshot"
    <3>1. /\ entries_' = RemovedFd(entries_, e.fd) /\ file' = [file EXCEPT ![e.fd] = 0]
          /\ live' = live \ {file[e.fd]} /\ fired' = fired \cup {e.reg}
      BY <2>3, <2>6, <2>8 DEF Call
    <3>2. /\ Match(entries_, file, live)'
          /\ entries_' \in Seq(Entries) /\ Len(entries_') = Len(entries_)
          /\ file' \in [Fds -> 0 .. regs]
          /\ Leads(pfds, entries_') /\ Own(pfds, entries_', reported)
      BY <1>4, <2>3, <2>4, <3>1, Removal
    <3>3. Types'
      <4>1. (ready \subseteq live)' /\ live' \subseteq 1 .. regs /\ fired' \subseteq 1 .. regs
        BY <1>1, <2>3, <2>5, <2>7, <3>1 DEF Types
      <4> QED
        BY <1>1, <1>3, <2>5, <2>7, <3>2, <4>1 DEF Types
    <3>4. RoundInv'
      BY <1>1, <1>3, <2>7, <3>2 DEF RoundInv
    <3>5. live' \cap fired' = {}
      BY <1>1, <2>3, <3>1
    <3> QED
      BY <2>2, <2>3, <2>5, <2>7, <3>2, <3>3, <3>4, <3>5 DEF Inv
  <2>9. CASE kind[e.reg] # "oneshot"
    <3>1. UNCHANGED <<entries_, file, live, fired>>
      BY <2>6, <2>9 DEF Call
    <3>2. Types'
      <4>1. (ready \subseteq live)'
        BY <1>1, <2>7, <3>1 DEF Types
      <4> QED
        BY <1>1, <1>3, <2>5, <2>7, <3>1, <4>1 DEF Types
    <3>3. RoundInv'
      BY <1>1, <1>3, <1>4, <2>7, <3>1 DEF RoundInv
    <3> QED
      BY <1>1, <2>2, <2>3, <2>5, <2>7, <3>1, <3>2, <3>3 DEF Inv
  <2> QED
    BY <2>8, <2>9
<1> QED
  BY <1>5, <1>6

(* CompactDead at the end of a round, by return or by exception.           *)
LEMMA CompactInv == ASSUME Inv, CallbackThrows \/ RoundEnd PROVE Inv'
<1>1. /\ Types /\ live \cap fired = {} /\ Match(entries_, file, live)
      /\ entries_' = Compacted(entries_) /\ pc' \in {"build", "out"}
      /\ pfds' = <<>> /\ reported' = {} /\ i' = 0 /\ (cur' = cur \/ cur' = 0)
      /\ UNCHANGED <<running_, file, kind, regs, live, fired, ready>>
  BY DEF Inv, CallbackThrows, RoundEnd, app
<1>2. entries_ \in Seq(Entries) /\ entries_' = Compacted(entries_)
  BY <1>1 DEF Types
<1>3. /\ entries_' \in Seq(Entries) /\ Len(entries_') <= Len(entries_)
      /\ Match(entries_', file, live)
  BY <1>1, <1>2, CompactedFacts
<1>4. Types'
  <2>1. Len(entries_') \in Nat /\ Len(entries_) \in Nat
    BY <1>2, <1>3, EntryFacts
  <2>2. Len(entries_') <= regs /\ cur' \in 0 .. regs
    BY <1>1, <1>3, <2>1, MaxRegsAssumption, SMT DEF Types
  <2>3. pfds' \in Seq(Pollfds) /\ i' \in Nat /\ reported' \subseteq 1 .. regs
    BY <1>1, SMT
  <2>4. (pc \in {"out", "enter", "build", "poll", "dispatch", "callback"})'
    BY <1>1
  <2> QED
    BY <1>1, <1>3, <2>2, <2>3, <2>4 DEF Types
<1>5. RoundInv'
  BY <1>1 DEF RoundInv
<1> QED
  BY <1>1, <1>3, <1>4, <1>5 DEF Inv

-----------------------------------------------------------------------------
(* The theorems.                                                           *)

LEMMA InitInv == Init => Inv
<1> SUFFICES ASSUME Init PROVE Inv
  OBVIOUS
<1>1. entries_ \in Seq(Entries) /\ Len(entries_) = 0 /\ pfds \in Seq(Pollfds) /\ DOMAIN entries_ = {}
  BY SMT DEF Init
<1>2. file \in [Fds -> 0 .. 0] /\ kind \in [Regs -> Kinds]
  BY SMT DEF Init, Kinds
<1>3. Types
  <2>1. regs = 0 /\ regs \in 0 .. MaxRegs /\ cur \in 0 .. regs /\ i \in Nat /\ Len(entries_) <= regs
    BY <1>1, MaxRegsAssumption, SMT DEF Init
  <2>2. /\ running_ \in BOOLEAN /\ ready \subseteq live /\ live \subseteq 1 .. regs
        /\ fired \subseteq 1 .. regs /\ reported \subseteq 1 .. regs
        /\ pc \in {"out", "enter", "build", "poll", "dispatch", "callback"}
    BY DEF Init
  <2> QED
    BY <1>1, <1>2, <2>1, <2>2 DEF Types
<1>4. Match(entries_, file, live)
  BY <1>1 DEF Init, Match
<1> QED
  BY <1>3, <1>4 DEF Init, Inv, RoundInv

LEMMA NextInv == Inv /\ [Next]_vars => Inv'
<1> SUFFICES ASSUME Inv, [Next]_vars PROVE Inv'
  OBVIOUS
<1>1. ASSUME NEW k \in Kinds, AddFd(k) PROVE Inv'
  BY <1>1, AddFdInv
<1>2. ASSUME NEW fd \in Fds, RemoveFd(fd) \/ CloseFile(fd) \/ RemoveTimer(fd) PROVE Inv'
  BY <1>2, RemoveFdInv, CloseFileInv, RemoveTimerInv
<1>3. CASE Build
  BY <1>3, BuildInv
<1>4. CASE Poll
  BY <1>4, PollInv
<1>5. CASE Dispatch
  BY <1>5, DispatchInv
<1>6. CASE CallbackThrows \/ RoundEnd
  BY <1>6, CompactInv
<1>7. CASE Stop \/ (\E r \in Regs : BecomesReady(r)) \/ Run \/ RunStore
             \/ PollInterrupted \/ PollFails \/ CallbackReturn \/ UNCHANGED vars
  BY <1>7, QuietSteps, QuietInv
<1> QED
  BY <1>1, <1>2, <1>3, <1>4, <1>5, <1>6, <1>7 DEF Next, Loop, Environment, Kinds

(* In every reachable state, whatever callbacks add, remove and close in   *)
(* the middle of a round, the indexes taken when the round was built lead  *)
(* to entries of the polled numbers, and what poll reported of an entry    *)
(* that is still there is about its own file.                              *)
THEOREM Invariance == Spec => []Inv
<1>1. Init => Inv
  BY InitInv
<1>2. Inv /\ [Next]_vars => Inv'
  BY NextInv
<1> QED
  BY <1>1, <1>2, PTL DEF Spec

(* There is one entry that is no tombstone for each registration in live.  *)
LEMMA AliveCount ==
  ASSUME Inv
  PROVE  /\ {entries_[k].reg : k \in Alive(entries_)} = live
         /\ Cardinality(Alive(entries_)) = Cardinality(live)
<1>1. Types /\ Match(entries_, file, live)
  BY DEF Inv
<1>2. {entries_[k].reg : k \in Alive(entries_)} = live
  BY <1>1, SMT DEF Match, Alive
<1>3. IsFiniteSet(live)
  <2>1. IsFiniteSet(1 .. regs) /\ live \subseteq 1 .. regs
    BY <1>1, FS_Interval, SMT DEF Types
  <2> QED
    BY <2>1, FS_Subset
<1>4. IsFiniteSet(Alive(entries_))
  <2>1. Len(entries_) \in Nat /\ DOMAIN entries_ = 1 .. Len(entries_)
    BY <1>1, EntryFacts DEF Types
  <2>2. IsFiniteSet(1 .. Len(entries_)) /\ Alive(entries_) \subseteq 1 .. Len(entries_)
    BY <2>1, FS_Interval, SMT DEF Alive
  <2> QED
    BY <2>2, FS_Subset
<1>5. [k \in Alive(entries_) |-> entries_[k].reg] \in Bijection(Alive(entries_), live)
  <2> DEFINE m == [k \in Alive(entries_) |-> entries_[k].reg]
  <2>1. m \in [Alive(entries_) -> live]
    BY <1>2
  <2>2. \A j, k \in Alive(entries_) : m[j] = m[k] => j = k
    BY <1>1 DEF Match, Alive
  <2>3. \A r \in live : \E k \in Alive(entries_) : m[k] = r
    BY <1>2
  <2> HIDE DEF m
  <2>4. m \in Bijection(Alive(entries_), live)
    BY <2>1, <2>2, <2>3 DEF Bijection, Injection, Surjection, IsInjective
  <2> QED
    BY <2>4 DEF m
<1>6. ExistsBijection(Alive(entries_), live)
  BY <1>5 DEF ExistsBijection
<1> QED
  BY <1>2, <1>3, <1>4, <1>6, FS_Bijection

(* For every set of fd numbers and every number of registrations: the      *)
(* entries that are not tombstones are those of the registrations made and *)
(* not removed, one each, and each has the number of its own file.         *)
THEOREM EntriesMatchLiveCorrect == Spec => []EntriesMatchLive
<1>1. Inv => EntriesMatchLive
  <2> SUFFICES ASSUME Inv PROVE EntriesMatchLive
    OBVIOUS
  <2>1. TypeOK
    BY DEF Inv, Types, RoundInv, Leads, TypeOK, Entries, Kinds
  <2>2. \A k \in Alive(entries_) : file[entries_[k].fd] = entries_[k].reg
    BY DEF Inv, Match, Alive
  <2> QED
    BY <2>1, <2>2, AliveCount DEF EntriesMatchLive
<1> QED
  BY <1>1, Invariance, PTL

(* Run starts a callback only for a registration not removed, for an event *)
(* that poll reported of its own file, and only once for a one-shot timer. *)
THEOREM OwnCallbackCorrect == Spec => OwnCallback
<1>1. Inv /\ [Next]_vars => [Starts => cur' \in (live \cap reported) \ fired]_vars
  <2> SUFFICES ASSUME Inv, Next, Starts PROVE cur' \in (live \cap reported) \ fired
    OBVIOUS
  <2>1. Dispatch
    BY DEF Starts, Next, Loop, Environment, AddFd, RemoveFd, CloseFile, RemoveTimer, Calling,
           Stop, BecomesReady, Run, RunStore, Build, Poll, PollInterrupted, PollFails,
           CallbackReturn, CallbackThrows, RoundEnd
  <2> QED
    BY <2>1, DispatchInv DEF Starts
<1> QED
  BY <1>1, Invariance, PTL DEF Spec, OwnCallback

=============================================================================
