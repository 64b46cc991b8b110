-------------------------- MODULE ConnectionProofs --------------------------
(***************************************************************************)
(* Proofs about Connection, for every capacity, every set of packages that *)
(* fit in a ring, either setting of the keepalive at each end and any      *)
(* number of sends.                                                        *)
(***************************************************************************)
EXTENDS Connection, TLAPS

(* Most leaves are first-order: Zenon is the prover unless one cites SMT.  *)
USE Zenon

Package == [kind : {"data", "beat", "bad"}, len : 1 .. Capacity]

(* TypeOK, with inbox known to be a function.                              *)
Types ==
  /\ avail \in [Ends -> 0 .. Capacity] /\ inbox \in [Ends -> Seq(Package)]
  /\ efd \in [Ends -> BOOLEAN] /\ eof \in BOOLEAN
  /\ state \in [Ends -> {"established", "closeing", "closeed"}]
  /\ close_type \in [Ends -> {"Active", "Passive"}]
  /\ pc \in [Ends -> {"poll", "write", "notify", "drain", "commit", "beat", "callback",
                      "drained", "remove", "dead"}]
  /\ ret \in [Ends -> {"poll", "callback", "drain"}]
  /\ via \in [Ends -> {"notify", "socket"}]
  /\ left \in [Ends -> 0 .. Capacity]
  /\ closes \in [Ends -> Nat] /\ sends \in [Ends -> Nat]

(* Only a writer between the check of WriteRaw and its last piece, or one  *)
(* that died there, has bytes left, and a live one has room for them; what *)
(* Decode accepted is still there for CommitRead.                          *)
WriteAt(e) ==
  /\ pc[e] \notin {"write", "dead"} => left[e] = 0
  /\ pc[e] = "write" => left[e] > 0 /\ WritableBytes(e) >= left[e]
  /\ pc[e] = "commit" => Ready(e)

(* The loop thread is in poll, or returns to it without another look at    *)
(* the ring.                                                               *)
Parked(e) ==
  pc[e] \in {"poll", "drained"} \/ (pc[e] \in {"write", "notify"} /\ ret[e] = "poll")

(* NoLostWakeup, wherever the thread will not look at the ring again.      *)
WakeAt(e) ==
  Parked(e) /\ Registered(e) /\ Ready(e) =>
    efd[e] \/ eof \/ pc[Peer(e)] \in {"write", "notify"}

(* off[k] is where the k-th package ends, in the bytes of inbox s.         *)
Offsets(s, off) ==
  /\ off \in [0 .. Len(s) -> Nat] /\ off[0] = 0
  /\ \A k \in 1 .. Len(s) : off[k] = off[k - 1] + s[k].len
  /\ \A k, l \in 0 .. Len(s) : k <= l => off[k] <= off[l]

(* The bytes in a ring and those still to be written make up its packages, *)
(* and what is still to be written belongs to the last of them.            *)
Accounted(s, a, l) ==
  /\ \E off : Offsets(s, off) /\ off[Len(s)] = a + l
  /\ s # <<>> => l <= s[Len(s)].len

AccountAt(e) == Accounted(inbox[e], avail[e], left[Peer(e)])

(* How an end comes to close, and what an end writes that is no longer     *)
(* established.                                                            *)
EndAt(e) ==
  /\ via[e] = "socket" => eof
  /\ state[e] = "closeing" => close_type[e] = "Active"
  /\ state[e] = "closeed" /\ close_type[e] = "Passive" => pc[e] \in {"poll", "dead"}
  /\ pc[e] = "write" => inbox[Peer(e)] # <<>>
  /\ pc[e] = "write" /\ state[e] # "established" =>
       inbox[Peer(e)][Len(inbox[Peer(e)])].kind = "beat"
  /\ eof => \/ pc[e] = "dead" \/ state[e] # "established"
            \/ pc[Peer(e)] = "dead" \/ state[Peer(e)] # "established"

(* No data package is at the front of the ring of e, or becomes it, except *)
(* one that a dead writer left cut off.                                    *)
Quiet(e) ==
  /\ inbox[e] = <<>> => pc[Peer(e)] = "dead" \/ state[Peer(e)] # "established"
  /\ inbox[e] # <<>> /\ Head(inbox[e]).kind = "data" => pc[Peer(e)] = "dead" /\ ~Ready(e)

(* The connection is closed, or the handler that runs is bound to close it.*)
Leaving(e) ==
  pc[e] = "remove" \/ (pc[e] = "drained" /\ via[e] = "socket") \/ state[e] = "closeed"

QuietAt(e) == close_type[e] = "Passive" /\ Leaving(e) => Quiet(e)

CountAt(e) == closes[e] = IF state[e] = "closeed" THEN 1 ELSE 0

Inv ==
  /\ Types
  /\ \A e \in Ends : /\ WriteAt(e) /\ WakeAt(e) /\ AccountAt(e)
                     /\ EndAt(e) /\ QuietAt(e) /\ CountAt(e)

-----------------------------------------------------------------------------
(* The two ends are each other's peer.                                     *)
LEMMA PeerFacts ==
  ASSUME NEW e \in Ends
  PROVE  /\ Peer(e) \in Ends /\ Peer(e) # e /\ Peer(Peer(e)) = e
         /\ \A f \in Ends : f = e \/ f = Peer(e)
  BY DEF Ends, Peer

(* A piece of WriteRaw is no longer than what is left to write.            *)
LEMMA ChunkFacts ==
  ASSUME NEW n \in 0 .. Capacity
  PROVE  (IF n <= max_write_size THEN n ELSE max_write_size) \in 0 .. n
<1>1. Capacity \in Nat /\ max_write_size \in Nat
  BY CapacityAssumption, SMT DEF max_write_size
<1> QED
  BY <1>1, SMT

(* What the applications send, and the answer to a heartbeat, are packages *)
(* that fit in a ring.                                                     *)
LEMMA PackageFacts ==
  /\ Packages \subseteq Package /\ KeepaliveResponse \in Package /\ Capacity \in Nat
  /\ \A p \in Package : p.len \in 1 .. Capacity /\ p.kind \in {"data", "beat", "bad"}
  /\ KeepaliveResponse.kind = "beat" /\ KeepaliveResponse.len = 1
  BY CapacityAssumption, PackagesAssumption, SMT DEF Package, KeepaliveResponse

(* What Append does to the packages of a ring.                             *)
LEMMA AppendFacts ==
  ASSUME NEW s \in Seq(Package), NEW p \in Package
  PROVE  /\ Append(s, p) \in Seq(Package) /\ Append(s, p) # <<>>
         /\ Len(Append(s, p)) = Len(s) + 1 /\ Len(s) \in Nat
         /\ Append(s, p)[Len(s) + 1] = p
         /\ \A k \in 1 .. Len(s) : Append(s, p)[k] = s[k]
         /\ Head(Append(s, p)) = IF s = <<>> THEN p ELSE Head(s)
<1>1. /\ Append(s, p) \in Seq(Package) /\ Append(s, p) # <<>>
      /\ Len(Append(s, p)) = Len(s) + 1 /\ Len(s) \in Nat
      /\ Append(s, p)[Len(s) + 1] = p
      /\ \A k \in 1 .. Len(s) : Append(s, p)[k] = s[k]
  BY SMT
<1>2. Head(Append(s, p)) = Append(s, p)[1]
  BY <1>1, SMT
<1>3. CASE s = <<>>
  BY <1>1, <1>2, <1>3, SMT
<1>4. CASE s # <<>>
  BY <1>1, <1>2, <1>4, SMT
<1> QED
  BY <1>1, <1>3, <1>4

(* What taking the first package does to them.                             *)
LEMMA TailFacts ==
  ASSUME NEW s \in Seq(Package), s # <<>>
  PROVE  /\ Tail(s) \in Seq(Package) /\ Len(Tail(s)) = Len(s) - 1 /\ Len(s) \in Nat \ {0}
         /\ Head(s) = s[1] /\ Head(s) \in Package
         /\ \A k \in 1 .. Len(s) - 1 : Tail(s)[k] = s[k + 1]
<1>1. Len(s) \in Nat \ {0} /\ Head(s) = s[1] /\ Head(s) \in Package
  BY SMT
<1>2. /\ Tail(s) \in Seq(Package) /\ Len(Tail(s)) = Len(s) - 1
      /\ \A k \in 1 .. Len(s) - 1 : Tail(s)[k] = s[k + 1]
  BY SMT
<1> QED
  BY <1>1, <1>2

-----------------------------------------------------------------------------
(* The bytes of a ring and the packages they belong to.                    *)

(* WriteRaw adds a package none of whose bytes are written.                *)
LEMMA AccountAppend ==
  ASSUME NEW s \in Seq(Package), NEW p \in Package, NEW a \in Nat, Accounted(s, a, 0)
  PROVE  Accounted(Append(s, p), a, p.len)
<1> DEFINE t == Append(s, p)
           n == Len(s)
<1>1. PICK off : Offsets(s, off) /\ off[n] = a
  BY SMT DEF Accounted
<1> DEFINE new == [k \in 0 .. n + 1 |-> IF k = n + 1 THEN a + p.len ELSE off[k]]
<1>2. /\ Len(t) = n + 1 /\ n \in Nat /\ t[n + 1] = p /\ t # <<>>
      /\ \A k \in 1 .. n : t[k] = s[k]
  BY AppendFacts
<1>3. p.len \in Nat
  BY PackageFacts, SMT
<1>4. /\ off \in [0 .. n -> Nat] /\ off[0] = 0
      /\ \A k \in 1 .. n : off[k] = off[k - 1] + s[k].len
      /\ \A k, l \in 0 .. n : k <= l => off[k] <= off[l]
  BY <1>1 DEF Offsets
<1> HIDE DEF t, n
<1>5. /\ new \in [0 .. n + 1 -> Nat] /\ new[0] = 0 /\ new[n + 1] = a + p.len
      /\ \A k \in 0 .. n : new[k] = off[k]
  BY <1>2, <1>3, <1>4, SMT
<1> HIDE DEF new
<1>6. \A k \in 1 .. n + 1 : new[k] = new[k - 1] + t[k].len
  <2> TAKE k \in 1 .. n + 1
  <2>1. CASE k = n + 1
    BY <1>1, <1>2, <1>5, <2>1, SMT
  <2>2. CASE k \in 1 .. n
    <3>1. k \in 0 .. n /\ k - 1 \in 0 .. n
      BY <1>2, <2>2, SMT
    <3>2. new[k] = off[k] /\ new[k - 1] = off[k - 1]
      BY <1>5, <3>1
    <3>3. off[k] = off[k - 1] + s[k].len /\ t[k] = s[k]
      BY <1>2, <1>4, <2>2
    <3> QED
      BY <3>2, <3>3
  <2> QED
    BY <1>2, <2>1, <2>2, SMT
<1>7. \A k, l \in 0 .. n + 1 : k <= l => new[k] <= new[l]
  <2> SUFFICES ASSUME NEW k \in 0 .. n + 1, NEW l \in 0 .. n + 1, k <= l
               PROVE  new[k] <= new[l]
    OBVIOUS
  <2>1. CASE l \in 0 .. n
    BY <1>2, <1>4, <1>5, <2>1, SMT
  <2>2. CASE k = n + 1
    BY <1>2, <1>5, <2>2, SMT
  <2>3. CASE k \in 0 .. n /\ l = n + 1
    <3>1. new[k] <= a
      BY <1>1, <1>2, <1>4, <1>5, <2>3, SMT
    <3> QED
      BY <1>2, <1>3, <1>5, <2>3, <3>1, SMT
  <2> QED
    BY <1>2, <2>1, <2>2, <2>3, SMT
<1>8. Offsets(t, new) /\ new[Len(t)] = a + p.len
  BY <1>2, <1>5, <1>6, <1>7 DEF Offsets
<1>9. p.len <= t[Len(t)].len
  BY <1>2, <1>3, SMT
<1> QED
  BY <1>8, <1>9 DEF Accounted, t

(* TryWrite turns bytes that are left into bytes of the ring.              *)
LEMMA AccountWrite ==
  ASSUME NEW s \in Seq(Package), NEW a \in Nat, NEW l \in Nat, NEW c \in 0 .. l,
         Accounted(s, a, l)
  PROVE  Accounted(s, a + c, l - c)
<1>1. (a + c) + (l - c) = a + l /\ l - c <= l
  BY SMT
<1>2. s # <<>> => s[Len(s)].len \in Nat
  <2> HAVE s # <<>>
  <2>1. s[Len(s)] \in Package
    BY SMT
  <2> QED
    BY <2>1, PackageFacts, SMT
<1>3. s # <<>> => l - c <= s[Len(s)].len
  BY <1>2, SMT DEF Accounted
<1> QED
  BY <1>1, <1>3 DEF Accounted

(* CommitRead takes a package and its bytes.                               *)
LEMMA AccountTail ==
  ASSUME NEW s \in Seq(Package), s # <<>>, NEW a \in Nat, NEW l \in Nat,
         Accounted(s, a, l)
  PROVE  Accounted(Tail(s), a - Head(s).len, l)
<1> DEFINE t == Tail(s)
           n == Len(s)
           h == Head(s).len
<1>1. PICK off : Offsets(s, off) /\ off[n] = a + l
  BY DEF Accounted
<1> DEFINE new == [k \in 0 .. n - 1 |-> off[k + 1] - h]
<1>2. /\ Len(t) = n - 1 /\ n \in Nat \ {0} /\ h = s[1].len /\ h \in Nat
      /\ \A k \in 1 .. n - 1 : t[k] = s[k + 1]
  BY TailFacts, PackageFacts, SMT
<1>3. /\ off \in [0 .. n -> Nat] /\ off[0] = 0
      /\ \A k \in 1 .. n : off[k] = off[k - 1] + s[k].len
      /\ \A k, m \in 0 .. n : k <= m => off[k] <= off[m]
  BY <1>1 DEF Offsets
<1>12. l <= s[n].len
  BY DEF Accounted
<1> HIDE DEF t, n, h
<1>4. off[1] = h
  <2>1. 1 \in 1 .. n /\ 1 - 1 = 0
    BY <1>2, SMT
  <2> QED
    BY <1>2, <1>3, <2>1, SMT
<1>5. \A k \in 0 .. n - 1 : off[k + 1] - h \in Nat
  <2> TAKE k \in 0 .. n - 1
  <2>1. 1 \in 0 .. n /\ k + 1 \in 0 .. n /\ 1 <= k + 1
    BY <1>2, SMT
  <2>2. off[1] <= off[k + 1] /\ off[k + 1] \in Nat
    BY <1>3, <2>1
  <2> QED
    BY <1>2, <1>4, <2>2, SMT
<1>6. /\ new \in [0 .. n - 1 -> Nat] /\ new[0] = 0
      /\ \A k \in 0 .. n - 1 : new[k] = off[k + 1] - h
  BY <1>2, <1>4, <1>5, SMT
<1> HIDE DEF new
<1>7. \A k \in 1 .. n - 1 : new[k] = new[k - 1] + t[k].len
  <2> TAKE k \in 1 .. n - 1
  <2>1. k + 1 \in 1 .. n /\ k \in 0 .. n - 1 /\ k - 1 \in 0 .. n - 1 /\ (k + 1) - 1 = k
    BY <1>2, SMT
  <2>2. off[k + 1] = off[k] + t[k].len /\ off[k] \in Nat /\ off[k + 1] \in Nat
    <3>1. off[k + 1] = off[(k + 1) - 1] + s[k + 1].len
      BY <1>3, <2>1
    <3>2. t[k] = s[k + 1]
      BY <1>2
    <3>3. k \in 0 .. n /\ k + 1 \in 0 .. n
      BY <1>2, SMT
    <3>4. off[k] \in Nat /\ off[k + 1] \in Nat
      BY <1>3, <3>3
    <3> QED
      BY <2>1, <3>1, <3>2, <3>4
  <2>3. new[k] = off[k + 1] - h /\ new[k - 1] = off[k] - h
    BY <1>6, <2>1, SMT
  <2>4. t[k].len \in Nat
    <3>1. t[k] \in Package
      BY <1>2, <2>1, SMTT(30) DEF n
    <3> QED
      BY <3>1, PackageFacts, SMT
  <2>5. off[k + 1] - h = (off[k] - h) + t[k].len
    <3>1. h \in Nat
      BY <1>2
    <3> QED
      BY <2>2, <2>4, <3>1, SMT
  <2> QED
    BY <2>3, <2>5
<1>8. \A k, m \in 0 .. n - 1 : k <= m => new[k] <= new[m]
  <2> SUFFICES ASSUME NEW k \in 0 .. n - 1, NEW m \in 0 .. n - 1, k <= m
               PROVE  new[k] <= new[m]
    OBVIOUS
  <2>1. k + 1 \in 0 .. n /\ m + 1 \in 0 .. n /\ k + 1 <= m + 1
    BY <1>2, SMT
  <2>2. off[k + 1] <= off[m + 1] /\ off[k + 1] \in Nat /\ off[m + 1] \in Nat
    BY <1>3, <2>1
  <2>3. off[k + 1] - h <= off[m + 1] - h
    BY <1>2, <2>2, SMTT(30)
  <2>4. new[k] = off[k + 1] - h /\ new[m] = off[m + 1] - h
    BY <1>6
  <2> QED
    BY <2>3, <2>4
<1>9. Offsets(t, new)
  BY <1>2, <1>6, <1>7, <1>8 DEF Offsets
<1>10. new[Len(t)] = (a - h) + l
  <2>1. n - 1 \in 0 .. n - 1 /\ (n - 1) + 1 = n
    BY <1>2, SMT
  <2>2. new[n - 1] = off[n] - h
    BY <1>6, <2>1
  <2>3. off[n] - h = (a - h) + l
    BY <1>1, <1>2, SMT
  <2> QED
    BY <1>2, <2>2, <2>3
<1>11. t # <<>> => l <= t[Len(t)].len
  <2> HAVE t # <<>>
  <2>1. n - 1 \in 1 .. n - 1 /\ (n - 1) + 1 = n
    BY <1>2, TailFacts, SMT DEF t, n
  <2> QED
    BY <1>2, <1>12, <2>1
<1> QED
  BY <1>9, <1>10, <1>11 DEF Accounted, t, h

(* If the first package is not there in full, it is the only one and still *)
(* in the writing.                                                         *)
LEMMA Unfinished ==
  ASSUME NEW s \in Seq(Package), s # <<>>, NEW a \in Nat, NEW l \in Nat,
         Accounted(s, a, l), ~(Head(s).len <= a)
  PROVE  l > 0 /\ Len(s) = 1
<1> DEFINE n == Len(s)
           h == Head(s).len
<1>1. PICK off : Offsets(s, off) /\ off[n] = a + l
  BY DEF Accounted
<1>2. n \in Nat \ {0} /\ h = s[1].len /\ h \in Nat /\ s[n].len \in Nat
  <2>1. s[n] \in Package
    BY SMT
  <2> QED
    BY <2>1, TailFacts, PackageFacts, SMT
<1>3. /\ off \in [0 .. n -> Nat] /\ off[0] = 0
      /\ \A k \in 1 .. n : off[k] = off[k - 1] + s[k].len
      /\ \A k, m \in 0 .. n : k <= m => off[k] <= off[m]
  BY <1>1 DEF Offsets
<1>4. l <= s[n].len /\ ~(h <= a)
  BY DEF Accounted
<1> HIDE DEF n, h
<1>5. off[1] = h /\ off[1] <= off[n]
  <2>1. 1 \in 1 .. n /\ 1 - 1 = 0 /\ n \in 0 .. n /\ 1 \in 0 .. n /\ 1 <= n
    BY <1>2, SMT
  <2> QED
    BY <1>2, <1>3, <2>1, SMT
<1>6. l > 0
  BY <1>1, <1>2, <1>4, <1>5, SMT
<1>7. n = 1
  <2> SUFFICES ASSUME n # 1 PROVE FALSE
    OBVIOUS
  <2>1. n \in 1 .. n /\ 1 \in 0 .. n /\ n - 1 \in 0 .. n /\ 1 <= n - 1
    BY <1>2, SMT
  <2>2. off[n] = off[n - 1] + s[n].len /\ off[1] <= off[n - 1] /\ off[n - 1] \in Nat
    BY <1>3, <2>1
  <2> QED
    BY <1>1, <1>2, <1>4, <1>5, <2>2, SMT
<1> QED
  BY <1>6, <1>7 DEF n

-----------------------------------------------------------------------------
(* Every step keeps the invariant.                                         *)

(* A piece of c bytes goes into the ring of the other end.                 *)
Wrote(a, c) ==
  /\ pc[a] = "write"
  /\ avail' = [avail EXCEPT ![Peer(a)] = @ + c]
  /\ left' = [left EXCEPT ![a] = @ - c]
  /\ pc' = [pc EXCEPT ![a] = IF left[a] = c THEN "notify" ELSE "write"]
  /\ UNCHANGED <<inbox, efd, eof, state, close_type, ret, via, closes, sends>>

(* TryWrite finds the room it needs.                                       *)
LEMMA TryWriteSucceeds ==
  ASSUME Inv, NEW a \in Ends, TryWrite(a)
  PROVE  \E c \in 0 .. left[a] : Wrote(a, c) /\ avail[Peer(a)] + c \in 0 .. Capacity
<1> DEFINE chunk == IF left[a] <= max_write_size THEN left[a] ELSE max_write_size
<1>1. /\ pc[a] = "write" /\ WritableBytes(a) >= left[a]
      /\ left[a] \in 0 .. Capacity /\ avail[Peer(a)] \in 0 .. Capacity /\ Capacity \in Nat
  BY PeerFacts, PackageFacts DEF Inv, Types, WriteAt, TryWrite
<1>2. chunk \in 0 .. left[a]
  BY <1>1, ChunkFacts
<1>3. WritableBytes(a) >= chunk /\ avail[Peer(a)] + chunk \in 0 .. Capacity
  <2> HIDE DEF chunk
  <2> QED
    BY <1>1, <1>2, SMT DEF WritableBytes
<1>4. Wrote(a, chunk)
  BY <1>1, <1>3 DEF TryWrite, Wrote
<1> HIDE DEF chunk
<1> QED
  BY <1>2, <1>3, <1>4

(* WriteRaw starts on package p.                                           *)
Began(a, p) ==
  /\ pc[a] \in {"poll", "callback", "beat"} /\ (state[a] = "established" \/ p.kind = "beat")
  /\ WritableBytes(a) >= p.len
  /\ inbox' = [inbox EXCEPT ![Peer(a)] = Append(@, p)]
  /\ left' = [left EXCEPT ![a] = p.len]
  /\ ret' = [ret EXCEPT ![a] = IF pc[a] = "beat" THEN "drain" ELSE pc[a]]
  /\ pc' = [pc EXCEPT ![a] = "write"]
  /\ (pc[a] \in {"poll", "callback"} => state[a] = "established")
  /\ UNCHANGED <<avail, efd, eof, state, close_type, via, closes>>

(* An answer to a heartbeat that the full ring loses.                      *)
Dropped(a) ==
  /\ pc[a] = "beat" /\ pc' = [pc EXCEPT ![a] = "drain"]
  /\ UNCHANGED <<avail, inbox, efd, eof, state, close_type, ret, via, left, closes, sends>>

(* The steps that write, and all others.                                   *)
LEMMA Cases ==
  ASSUME Inv, NEW a \in Ends, Step(a) \/ Application(a) \/ Crash(a)
  PROVE  \/ \E c \in 0 .. left[a] : Wrote(a, c) /\ avail[Peer(a)] + c \in 0 .. Capacity
         \/ \E p \in Package : Began(a, p)
         \/ NotifyPeer(a) \/ OnNotify(a) \/ OnSocket(a) \/ Decode(a) \/ CommitRead(a)
         \/ Dropped(a) \/ CallbackReturn(a) \/ Drained(a)
         \/ RemoveConn(a) \/ ReleaseConn(a) \/ Close(a) \/ CloseConn(a) \/ Crash(a)
<1>1. ASSUME NEW p \in Packages, SendCmd(a, p) PROVE p \in Package /\ Began(a, p)
  BY <1>1, PackageFacts DEF SendCmd, WriteRaw, Began
<1>2. CASE SendKeepaliveResponse(a)
  <2>1. CASE WritableBytes(a) >= KeepaliveResponse.len
    <3>1. Began(a, KeepaliveResponse)
      BY <1>2, <2>1, PackageFacts DEF SendKeepaliveResponse, WriteRaw, Began
    <3> QED
      BY <3>1, PackageFacts
  <2>2. CASE ~(WritableBytes(a) >= KeepaliveResponse.len)
    BY <1>2, <2>2 DEF SendKeepaliveResponse, Dropped
  <2> QED
    BY <2>1, <2>2
<1>3. CASE TryWrite(a)
  BY <1>3, TryWriteSucceeds
<1> QED
  BY <1>1, <1>2, <1>3 DEF Step, Application

(* Each variable keeps its type; avail does because CommitRead takes a     *)
(* package that is there and TryWrite writes where there is room.          *)
LEMMA TypesStep ==
  ASSUME Inv, NEW a \in Ends, Step(a) \/ Application(a) \/ Crash(a)
  PROVE  Types'
<1> DEFINE b == Peer(a)
<1>1. Types /\ WriteAt(a)
  BY DEF Inv
<1>2. b \in Ends /\ Capacity \in Nat
  BY PeerFacts, PackageFacts
<1>3. /\ avail[a] \in 0 .. Capacity /\ avail[b] \in 0 .. Capacity
      /\ left[a] \in 0 .. Capacity
  BY <1>1, <1>2 DEF Types
<1> USE DEF Types
<1>4. ASSUME NEW p \in Package, NEW back \in {"poll", "callback", "drain"},
             WriteRaw(a, p, back)
      PROVE  /\ inbox' \in [Ends -> Seq(Package)]
             /\ left' \in [Ends -> 0 .. Capacity]
             /\ ret' \in [Ends -> {"poll", "callback", "drain"}]
             /\ pc' = [pc EXCEPT ![a] = "write"]
  <2>1. p.len \in 0 .. Capacity
    BY <1>2, PackageFacts, SMT
  <2>2. Append(inbox[b], p) \in Seq(Package)
    BY <1>1, <1>2, AppendFacts, SMT
  <2> QED
    BY <1>1, <1>2, <1>4, <2>1, <2>2 DEF WriteRaw
<1>5. CASE TryWrite(a)
  <2>1. PICK c \in 0 .. left[a] : Wrote(a, c) /\ avail[b] + c \in 0 .. Capacity
    BY <1>5, TryWriteSucceeds
  <2>2. left[a] - c \in 0 .. Capacity
    BY <1>2, <1>3, SMT
  <2> QED
    BY <1>1, <1>2, <2>1, <2>2 DEF Wrote
<1>6. CASE NotifyPeer(a)
  BY <1>1, <1>2, <1>6 DEF NotifyPeer
<1>7. CASE OnNotify(a) \/ OnSocket(a) \/ CallbackReturn(a) \/ Drained(a)
  <2>1. CASE OnNotify(a)
    BY <1>1, <2>1 DEF OnNotify
  <2>2. CASE OnSocket(a)
    BY <1>1, <2>2 DEF OnSocket
  <2>3. CASE CallbackReturn(a)
    BY <1>1, <2>3 DEF CallbackReturn
  <2>4. CASE Drained(a)
    BY <1>1, <2>4 DEF Drained
  <2> QED
    BY <1>7, <2>1, <2>2, <2>3, <2>4
<1>8. CASE Decode(a)
  BY <1>1, <1>8 DEF Decode
<1>9. CASE CommitRead(a)
  <2>1. inbox[a] # <<>> /\ Head(inbox[a]).len <= avail[a]
    BY <1>1, <1>9 DEF CommitRead, WriteAt, Ready
  <2>2. Tail(inbox[a]) \in Seq(Package) /\ Head(inbox[a]).len \in 1 .. Capacity
    BY <1>1, <2>1, TailFacts, PackageFacts
  <2>3. avail[a] - Head(inbox[a]).len \in 0 .. Capacity
    BY <1>2, <1>3, <2>1, <2>2, SMT
  <2> QED
    BY <1>1, <1>9, <2>2, <2>3 DEF CommitRead
<1>10. CASE SendKeepaliveResponse(a)
  <2>1. CASE WritableBytes(a) >= KeepaliveResponse.len
    BY <1>1, <1>4, <1>10, <2>1, PackageFacts DEF SendKeepaliveResponse
  <2>2. CASE ~(WritableBytes(a) >= KeepaliveResponse.len)
    BY <1>1, <1>10, <2>2 DEF SendKeepaliveResponse
  <2> QED
    BY <2>1, <2>2
<1>11. CASE RemoveConn(a) \/ CloseConn(a)
  <2>1. /\ state' = [state EXCEPT ![a] = "closeed"]
        /\ closes' = [closes EXCEPT ![a] = IF state[a] # "closeed" THEN @ + 1 ELSE @]
    BY <1>11 DEF RemoveConn, CloseConn, OnClose
  <2>2. closes' \in [Ends -> Nat] /\ state' \in [Ends -> {"established", "closeing", "closeed"}]
    BY <1>1, <2>1, SMT
  <2>3. CASE RemoveConn(a)
    BY <1>1, <2>2, <2>3 DEF RemoveConn
  <2>4. CASE CloseConn(a)
    BY <1>1, <2>2, <2>4 DEF CloseConn
  <2> QED
    BY <1>11, <2>3, <2>4
<1>12. CASE ReleaseConn(a) \/ Close(a) \/ Crash(a)
  <2>1. CASE ReleaseConn(a)
    BY <1>1, <2>1 DEF ReleaseConn
  <2>2. CASE Close(a)
    BY <1>1, <2>2 DEF Close
  <2>3. CASE Crash(a)
    BY <1>1, <2>3 DEF Crash
  <2> QED
    BY <1>12, <2>1, <2>2, <2>3
<1>13. ASSUME NEW p \in Packages, SendCmd(a, p) PROVE Types'
  <2>1. pc[a] \in {"poll", "callback", "drain"} /\ p \in Package /\ WriteRaw(a, p, pc[a])
    BY <1>13, PackageFacts DEF SendCmd
  <2>2. /\ inbox' \in [Ends -> Seq(Package)] /\ left' \in [Ends -> 0 .. Capacity]
        /\ ret' \in [Ends -> {"poll", "callback", "drain"}]
        /\ pc' = [pc EXCEPT ![a] = "write"]
    BY <1>4, <2>1
  <2>3. sends' \in [Ends -> Nat] /\ UNCHANGED <<avail, efd, eof, state, close_type, via, closes>>
    BY <1>1, <1>13, SMT DEF SendCmd
  <2> QED
    BY <1>1, <2>2, <2>3
<1> QED
  BY <1>5, <1>6, <1>7, <1>8, <1>9, <1>10, <1>11, <1>12, <1>13 DEF Step, Application

(* What the step of an end a leaves of the other end's state.              *)
LEMMA OtherEnd ==
  ASSUME Inv, NEW a \in Ends, Step(a) \/ Application(a) \/ Crash(a)
  PROVE  LET b == Peer(a) IN
         /\ pc'[b] = pc[b] /\ ret'[b] = ret[b] /\ via'[b] = via[b] /\ left'[b] = left[b]
         /\ state'[b] = state[b] /\ close_type'[b] = close_type[b] /\ closes'[b] = closes[b]
         /\ (eof => eof') /\ (efd[b] => efd'[b]) /\ pc[a] # "dead"
         /\ (state[a] # "established" => state'[a] # "established")
<1> DEFINE b == Peer(a)
<1>1. b \in Ends /\ b # a /\ Types
  BY PeerFacts DEF Inv
<1> USE DEF Types
<1>2. CASE \E c \in 0 .. left[a] : Wrote(a, c)
  BY <1>1, <1>2, SMT DEF Wrote
<1>3. CASE \E p \in Package : Began(a, p)
  BY <1>1, <1>3, SMT DEF Began
<1>4. CASE NotifyPeer(a) \/ OnNotify(a) \/ OnSocket(a)
  BY <1>1, <1>4, SMT DEF NotifyPeer, OnNotify, OnSocket
<1>5. CASE Decode(a) \/ CommitRead(a)
  BY <1>1, <1>5 DEF Decode, CommitRead
<1>6. CASE Dropped(a) \/ CallbackReturn(a) \/ Drained(a)
  BY <1>1, <1>6 DEF Dropped, CallbackReturn, Drained
<1>7. CASE RemoveConn(a)
  BY <1>1, <1>7 DEF RemoveConn, OnClose
<1>8. CASE CloseConn(a)
  BY <1>1, <1>8 DEF CloseConn, OnClose
<1>9. CASE ReleaseConn(a) \/ Close(a) \/ Crash(a)
  BY <1>1, <1>9, ZenonT(30) DEF ReleaseConn, Close, Crash
<1> QED
  BY <1>2, <1>3, <1>4, <1>5, <1>6, <1>7, <1>8, <1>9, Cases

(* The steps that do not touch a ring.                                     *)
Moved(a) ==
  \/ NotifyPeer(a) \/ OnNotify(a) \/ OnSocket(a) \/ Decode(a) \/ Dropped(a)
  \/ CallbackReturn(a) \/ Drained(a) \/ RemoveConn(a) \/ ReleaseConn(a)
  \/ Close(a) \/ CloseConn(a) \/ Crash(a)

(* They leave both rings and the progress of a WriteRaw alone.             *)
LEMMA MovedFacts ==
  ASSUME NEW a, Moved(a)
  PROVE  UNCHANGED <<avail, inbox, left, ret>>
  BY DEF Moved, NotifyPeer, OnNotify, OnSocket, Decode, Dropped, CallbackReturn, Drained,
         RemoveConn, ReleaseConn, Close, CloseConn, Crash, OnClose

(* A writer keeps the room it saw, since only the other end reads its      *)
(* ring, and a reader keeps the package it saw, since only it reads.       *)
LEMMA WriteStep ==
  ASSUME Inv, NEW a \in Ends, Step(a) \/ Application(a) \/ Crash(a)
  PROVE  WriteAt(a)' /\ WriteAt(Peer(a))'
<1> DEFINE b == Peer(a)
<1>1. /\ b \in Ends /\ b # a /\ Peer(b) = a /\ Types /\ Capacity \in Nat
      /\ WriteAt(a) /\ WriteAt(b)
  BY PeerFacts, PackageFacts DEF Inv
<1>2. /\ avail[a] \in 0 .. Capacity /\ avail[b] \in 0 .. Capacity
      /\ left[a] \in 0 .. Capacity /\ left[b] \in 0 .. Capacity
      /\ inbox[a] \in Seq(Package) /\ inbox[b] \in Seq(Package)
      /\ ret[a] \in {"poll", "callback", "drain"}
  BY <1>1 DEF Types
<1>3. pc'[b] = pc[b] /\ left'[b] = left[b]
  BY OtherEnd
<1>4. ASSUME NEW c \in 0 .. left[a], Wrote(a, c) PROVE WriteAt(a)' /\ WriteAt(b)'
  <2>1. /\ avail'[b] = avail[b] + c /\ avail'[a] = avail[a] /\ left'[a] = left[a] - c
        /\ pc'[a] = IF left[a] = c THEN "notify" ELSE "write"
        /\ inbox' = inbox /\ pc[a] = "write"
    BY <1>1, <1>4 DEF Types, Wrote
  <2>2. WriteAt(a)'
    BY <1>1, <1>2, <2>1, SMT DEF WriteAt, WritableBytes
  <2>3. pc[b] = "commit" => Ready(b)'
    <3> HAVE pc[b] = "commit"
    <3>1. inbox[b] # <<>> /\ Head(inbox[b]).len <= avail[b]
      BY <1>1 DEF WriteAt, Ready
    <3>2. Head(inbox[b]).len \in Nat
      BY <1>2, <3>1, TailFacts, PackageFacts, SMT
    <3>3. avail[b] \in Nat /\ c \in Nat
      BY <1>1, <1>2, SMT
    <3>4. Head(inbox[b]).len <= avail[b] + c
      BY <3>1, <3>2, <3>3, SMT
    <3> QED
      BY <2>1, <3>1, <3>4 DEF Ready
  <2>4. WriteAt(b)'
    BY <1>1, <1>2, <1>3, <2>1, <2>3 DEF WriteAt, WritableBytes
  <2> QED
    BY <2>2, <2>4
<1>5. ASSUME NEW p \in Package, Began(a, p) PROVE WriteAt(a)' /\ WriteAt(b)'
  <2>1. /\ avail' = avail /\ left'[a] = p.len /\ pc'[a] = "write"
        /\ inbox'[b] = Append(inbox[b], p) /\ WritableBytes(a) >= p.len
    BY <1>1, <1>5 DEF Types, Began
  <2>2. WriteAt(a)'
    BY <1>1, <2>1, PackageFacts, SMT DEF WriteAt, WritableBytes
  <2>3. Ready(b) => Ready(b)'
    BY <1>2, <2>1, AppendFacts, SMT DEF Ready
  <2>4. WriteAt(b)'
    BY <1>1, <1>3, <2>1, <2>3 DEF WriteAt, WritableBytes
  <2> QED
    BY <2>2, <2>4
<1>6. CASE CommitRead(a)
  <2>1. inbox[a] # <<>> /\ Head(inbox[a]).len <= avail[a] /\ pc[a] = "commit"
    BY <1>1, <1>6 DEF CommitRead, WriteAt, Ready
  <2>2. Head(inbox[a]).len \in Nat
    BY <1>2, <2>1, TailFacts, PackageFacts, SMT
  <2>3. /\ avail'[a] = avail[a] - Head(inbox[a]).len /\ avail'[b] = avail[b]
        /\ inbox'[b] = inbox[b] /\ left' = left
        /\ pc'[a] \in {"callback", "beat", "drain"}
    BY <1>1, <1>6 DEF Types, CommitRead
  <2>4. WriteAt(a)'
    BY <1>1, <2>1, <2>3 DEF WriteAt
  <2>5. WritableBytes(b) >= left[b] => (WritableBytes(b) >= left[b])'
    BY <1>1, <1>2, <2>2, <2>3, SMT DEF WritableBytes
  <2>6. Ready(b) => Ready(b)'
    BY <2>3 DEF Ready
  <2> QED
    BY <1>1, <1>3, <2>4, <2>5, <2>6 DEF WriteAt
<1>7. CASE Moved(a)
  <2>1. UNCHANGED <<avail, inbox, left, ret>>
    BY <1>7, MovedFacts
  <2>2. WriteAt(b)'
    BY <1>1, <1>3, <2>1 DEF WriteAt, WritableBytes, Ready
  <2> SUFFICES WriteAt(a)'
    BY <2>2
  <2>3. CASE Decode(a)
    BY <1>1, <2>1, <2>3 DEF Types, Decode, WriteAt, Ready
  <2>4. CASE NotifyPeer(a)
    BY <1>1, <1>2, <2>1, <2>4 DEF Types, NotifyPeer, WriteAt
  <2>5. CASE ReleaseConn(a) \/ Close(a) \/ CloseConn(a)
    BY <1>1, <2>1, <2>5 DEF ReleaseConn, Close, CloseConn, WriteAt
  <2>6. CASE Crash(a)
    BY <1>1, <2>1, <2>6 DEF Types, Crash, WriteAt
  <2>7. CASE OnNotify(a) \/ OnSocket(a) \/ Dropped(a) \/ CallbackReturn(a)
    BY <1>1, <2>1, <2>7 DEF Types, OnNotify, OnSocket, Dropped, CallbackReturn, WriteAt
  <2>8. CASE Drained(a) \/ RemoveConn(a)
    BY <1>1, <2>1, <2>8 DEF Types, Drained, RemoveConn, WriteAt
  <2> QED
    BY <1>7, <2>3, <2>4, <2>5, <2>6, <2>7, <2>8 DEF Moved
<1> QED
  BY <1>4, <1>5, <1>6, <1>7, Cases DEF Moved

(* A package that becomes whole has a writer on its way to NotifyPeer, and *)
(* the eventfd is read only on the way to the ring.                        *)
LEMMA WakeStep ==
  ASSUME Inv, NEW a \in Ends, Step(a) \/ Application(a) \/ Crash(a)
  PROVE  WakeAt(a)' /\ WakeAt(Peer(a))'
<1> DEFINE b == Peer(a)
<1>1. b \in Ends /\ b # a /\ Peer(b) = a /\ Types /\ WakeAt(a) /\ WakeAt(b)
  BY PeerFacts DEF Inv
<1>2. /\ pc'[b] = pc[b] /\ ret'[b] = ret[b] /\ state'[b] = state[b]
      /\ (eof => eof') /\ (efd[b] => efd'[b])
  BY OtherEnd
<1>3. ASSUME NEW c \in 0 .. left[a], Wrote(a, c) PROVE WakeAt(a)' /\ WakeAt(b)'
  <2>1. /\ pc[a] = "write" /\ pc'[a] \in {"write", "notify"}
        /\ avail'[a] = avail[a] /\ UNCHANGED <<inbox, efd, eof, state, ret>>
    BY <1>1, <1>3 DEF Types, Wrote
  <2> QED
    BY <1>1, <1>2, <2>1 DEF WakeAt, Parked, Registered, Ready
<1>4. ASSUME NEW p \in Package, Began(a, p) PROVE WakeAt(a)' /\ WakeAt(b)'
  <2>1. /\ pc'[a] = "write" /\ (ret'[a] = "poll" => pc[a] = "poll")
        /\ inbox'[a] = inbox[a] /\ UNCHANGED <<avail, efd, eof, state>>
    BY <1>1, <1>4 DEF Types, Began
  <2> QED
    BY <1>1, <1>2, <2>1 DEF WakeAt, Parked, Registered, Ready
<1>5. CASE CommitRead(a)
  <2>1. /\ pc[a] = "commit" /\ pc'[a] \in {"callback", "beat", "drain"}
        /\ avail'[b] = avail[b] /\ inbox'[b] = inbox[b]
    BY <1>1, <1>5 DEF Types, CommitRead
  <2> QED
    BY <1>1, <1>2, <2>1 DEF WakeAt, Parked, Registered, Ready
<1>6. CASE NotifyPeer(a)
  <2>1. /\ pc[a] = "notify" /\ pc'[a] = ret[a] /\ efd'[b] /\ efd'[a] = efd[a]
        /\ ret[a] \in {"poll", "callback", "drain"}
        /\ UNCHANGED <<avail, inbox, eof, state, ret>>
    BY <1>1, <1>6 DEF Types, NotifyPeer
  <2> QED
    BY <1>1, <1>2, <2>1 DEF WakeAt, Parked, Registered, Ready
<1>7. CASE ReleaseConn(a) \/ Close(a) \/ CloseConn(a) \/ Crash(a)
  BY <1>7 DEF ReleaseConn, Close, CloseConn, Crash, WakeAt
<1>8. CASE OnNotify(a) \/ OnSocket(a) \/ Decode(a) \/ Dropped(a) \/ CallbackReturn(a)
             \/ Drained(a) \/ RemoveConn(a)
  <2>1. UNCHANGED <<avail, inbox, left, ret>>
    BY <1>8, MovedFacts DEF Moved
  <2>2. pc[a] \notin {"write", "notify"}
    BY <1>8 DEF OnNotify, OnSocket, Decode, Dropped, CallbackReturn, Drained, RemoveConn
  <2>3. WakeAt(b)'
    BY <1>1, <1>2, <2>1, <2>2 DEF WakeAt, Parked, Registered, Ready
  <2> SUFFICES WakeAt(a)'
    BY <2>3
  <2>4. CASE OnNotify(a) \/ OnSocket(a) \/ Dropped(a) \/ CallbackReturn(a)
    <3>1. pc'[a] = "drain"
      BY <1>1, <2>4 DEF Types, OnNotify, OnSocket, Dropped, CallbackReturn
    <3> QED
      BY <3>1 DEF WakeAt, Parked
  <2>5. CASE Decode(a)
    <3>1. pc'[a] \in {"drained", "remove", "commit"} /\ (pc'[a] = "drained" => ~Ready(a))
      BY <1>1, <2>5 DEF Types, Decode
    <3> QED
      BY <2>1, <3>1 DEF WakeAt, Parked, Ready
  <2>6. CASE Drained(a)
    <3>1. pc[a] = "drained" /\ UNCHANGED <<efd, eof, state>>
      BY <2>6 DEF Drained
    <3> QED
      BY <1>1, <1>2, <2>1, <3>1 DEF WakeAt, Parked, Registered, Ready
  <2>7. CASE RemoveConn(a)
    BY <1>1, <2>7 DEF Types, RemoveConn, OnClose, WakeAt, Registered
  <2> QED
    BY <1>8, <2>4, <2>5, <2>6, <2>7
<1> QED
  BY <1>3, <1>4, <1>5, <1>6, <1>7, <1>8, Cases

(* Bytes and packages of both rings keep agreeing.                         *)
LEMMA AccountStep ==
  ASSUME Inv, NEW a \in Ends, Step(a) \/ Application(a) \/ Crash(a)
  PROVE  AccountAt(a)' /\ AccountAt(Peer(a))'
<1> DEFINE b == Peer(a)
<1>1. /\ b \in Ends /\ b # a /\ Peer(b) = a /\ Types /\ WriteAt(a)
      /\ AccountAt(a) /\ AccountAt(b)
  BY PeerFacts DEF Inv
<1>2. /\ avail[a] \in Nat /\ avail[b] \in Nat /\ left[a] \in Nat /\ left[b] \in Nat
      /\ inbox[a] \in Seq(Package) /\ inbox[b] \in Seq(Package)
  BY <1>1, PackageFacts, SMT DEF Types
<1>3. ASSUME NEW c \in 0 .. left[a], Wrote(a, c) PROVE AccountAt(a)' /\ AccountAt(b)'
  <2>1. /\ avail'[b] = avail[b] + c /\ avail'[a] = avail[a] /\ left'[a] = left[a] - c
        /\ left'[b] = left[b] /\ inbox' = inbox
    BY <1>1, <1>3 DEF Types, Wrote
  <2>2. Accounted(inbox[b], avail[b] + c, left[a] - c)
    BY <1>1, <1>2, AccountWrite DEF AccountAt
  <2> QED
    BY <1>1, <2>1, <2>2 DEF AccountAt
<1>4. ASSUME NEW p \in Package, Began(a, p) PROVE AccountAt(a)' /\ AccountAt(b)'
  <2>1. /\ inbox'[b] = Append(inbox[b], p) /\ inbox'[a] = inbox[a] /\ left'[a] = p.len
        /\ left'[b] = left[b] /\ avail' = avail /\ left[a] = 0
    BY <1>1, <1>4 DEF Types, Began, WriteAt
  <2>2. Accounted(Append(inbox[b], p), avail[b], p.len)
    BY <1>1, <1>2, <2>1, AccountAppend DEF AccountAt
  <2> QED
    BY <1>1, <2>1, <2>2 DEF AccountAt
<1>5. CASE CommitRead(a)
  <2>1. inbox[a] # <<>>
    BY <1>1, <1>5 DEF CommitRead, WriteAt, Ready
  <2>2. /\ avail'[a] = avail[a] - Head(inbox[a]).len /\ avail'[b] = avail[b]
        /\ inbox'[a] = Tail(inbox[a]) /\ inbox'[b] = inbox[b] /\ left' = left
    BY <1>1, <1>5 DEF Types, CommitRead
  <2>3. Accounted(Tail(inbox[a]), avail[a] - Head(inbox[a]).len, left[b])
    BY <1>1, <1>2, <2>1, AccountTail DEF AccountAt
  <2> QED
    BY <1>1, <2>2, <2>3 DEF AccountAt
<1>6. CASE Moved(a)
  BY <1>1, <1>6, MovedFacts DEF AccountAt
<1> QED
  BY <1>3, <1>4, <1>5, <1>6, Cases DEF Moved

(* The socket reads end of file only after an end closed or died, and what *)
(* an end writes after it closed is the answer to a heartbeat.             *)
LEMMA EndStep ==
  ASSUME Inv, NEW a \in Ends, Step(a) \/ Application(a) \/ Crash(a)
  PROVE  EndAt(a)' /\ EndAt(Peer(a))'
<1> DEFINE b == Peer(a)
<1>1. /\ b \in Ends /\ b # a /\ Peer(b) = a /\ Types /\ EndAt(a) /\ EndAt(b)
      /\ inbox[a] \in Seq(Package) /\ inbox[b] \in Seq(Package)
  BY PeerFacts DEF Inv, Types
<1>2. /\ pc'[b] = pc[b] /\ via'[b] = via[b] /\ state'[b] = state[b]
      /\ close_type'[b] = close_type[b] /\ (eof => eof') /\ pc[a] # "dead"
      /\ (state[a] # "established" => state'[a] # "established")
  BY OtherEnd
<1>3. ASSUME NEW c \in 0 .. left[a], Wrote(a, c) PROVE EndAt(a)' /\ EndAt(b)'
  <2>1. /\ pc[a] = "write" /\ pc'[a] \in {"write", "notify"}
        /\ UNCHANGED <<inbox, eof, state, close_type, via>>
    BY <1>1, <1>3 DEF Types, Wrote
  <2> QED
    BY <1>1, <1>2, <2>1 DEF EndAt
<1>4. ASSUME NEW p \in Package, Began(a, p) PROVE EndAt(a)' /\ EndAt(b)'
  <2>1. /\ pc'[a] = "write" /\ UNCHANGED <<eof, state, close_type, via>>
        /\ inbox'[b] = Append(inbox[b], p) /\ inbox'[a] = inbox[a]
        /\ state[a] = "established" \/ p.kind = "beat"
        /\ pc[a] \in {"poll", "callback", "beat"}
        /\ pc[a] = "poll" => state[a] = "established"
    BY <1>1, <1>4 DEF Types, Began
  <2>2. /\ inbox'[b] # <<>> /\ inbox'[b][Len(inbox'[b])] = p
    <3> DEFINE s == inbox[b]
    <3>1. s \in Seq(Package)
      BY <1>1
    <3> HIDE DEF s
    <3>2. Append(s, p) # <<>> /\ Append(s, p)[Len(Append(s, p))] = p
      BY <3>1, AppendFacts, SMT
    <3> QED
      BY <2>1, <3>2 DEF s
  <2>3. EndAt(a)'
    BY <1>1, <1>2, <2>1, <2>2 DEF EndAt
  <2>4. EndAt(b)'
    BY <1>1, <1>2, <2>1 DEF EndAt
  <2> QED
    BY <2>3, <2>4
<1>5. CASE CommitRead(a)
  <2>1. /\ pc[a] = "commit" /\ pc'[a] \in {"callback", "beat", "drain"}
        /\ inbox'[b] = inbox[b] /\ inbox'[a] = Tail(inbox[a])
        /\ UNCHANGED <<eof, state, close_type, via>>
    BY <1>1, <1>5 DEF Types, CommitRead
  <2>2. EndAt(a)'
    BY <1>1, <1>2, <2>1 DEF EndAt
  <2>3. ASSUME pc[b] = "write"
        PROVE  inbox[a] # <<>> /\ inbox'[a] # <<>>
                 /\ inbox'[a][Len(inbox'[a])] = inbox[a][Len(inbox[a])]
    <3>1. inbox[a] # <<>>
      BY <1>1, <2>3 DEF EndAt
    <3>2. inbox'[a] # <<>>
      <4> SUFFICES ASSUME inbox'[a] = <<>> PROVE FALSE
        OBVIOUS
      <4>1. left'[b] \in Nat /\ left'[b] > 0
        <5>1. left'[b] \in Nat
          BY <1>1, TypesStep, PackageFacts, SMT DEF Types
        <5>2. WriteAt(b)'
          BY WriteStep
        <5> QED
          BY <1>2, <2>3, <5>1, <5>2 DEF WriteAt
      <4>2. avail'[a] \in Nat
        BY TypesStep, PackageFacts, SMT DEF Types
      <4>3. Accounted(<<>>, avail'[a], left'[b])
        BY <1>1, AccountStep DEF AccountAt
      <4>4. PICK off : off[0] = 0 /\ off[Len(<<>>)] = avail'[a] + left'[b]
        BY <4>3 DEF Accounted, Offsets
      <4>5. Len(<<>>) = 0
        OBVIOUS
      <4>6. avail'[a] + left'[b] # 0
        BY <4>1, <4>2, SMT
      <4> QED
        BY <4>4, <4>5, <4>6
    <3>3. \A k \in 1 .. Len(inbox[a]) - 1 : inbox'[a][k] = inbox[a][k + 1]
      BY <1>1, <2>1, <3>1, TailFacts
    <3>4. Len(inbox'[a]) = Len(inbox[a]) - 1 /\ Len(inbox[a]) \in Nat
      BY <1>1, <2>1, <3>1, TailFacts
    <3>5. Len(inbox'[a]) \in Nat \ {0}
      BY <1>1, <2>1, <3>1, <3>2, TailFacts
    <3>6. /\ Len(inbox'[a]) \in 1 .. Len(inbox[a]) - 1
          /\ Len(inbox'[a]) + 1 = Len(inbox[a])
      <4>1. \A m \in Nat \ {0}, n \in Nat : m = n - 1 => m \in 1 .. n - 1 /\ m + 1 = n
        BY SMT
      <4> QED
        BY <3>4, <3>5, <4>1
    <3> QED
      BY <3>1, <3>2, <3>3, <3>6
  <2>4. EndAt(b)'
    BY <1>1, <1>2, <2>1, <2>3 DEF EndAt
  <2> QED
    BY <2>2, <2>4
<1>6. CASE Moved(a)
  <2>1. UNCHANGED <<avail, inbox, left, ret>>
    BY <1>6, MovedFacts
  <2> DEFINE Here ==
         /\ via'[a] = "socket" => eof'
         /\ state'[a] = "closeing" => close_type'[a] = "Active"
         /\ state'[a] = "closeed" /\ close_type'[a] = "Passive" => pc'[a] \in {"poll", "dead"}
         /\ pc'[a] # "write"
         /\ eof' => eof \/ pc'[a] = "dead" \/ state'[a] # "established"
  <2>2. ASSUME NotifyPeer(a) PROVE Here
    <3>1. pc[a] = "notify" /\ pc'[a] \in {"poll", "callback", "drain"}
      BY <1>1, <2>2 DEF Types, NotifyPeer
    <3>2. UNCHANGED <<eof, state, close_type, via>>
      BY <2>2 DEF NotifyPeer
    <3> QED
      BY <1>1, <3>1, <3>2 DEF EndAt
  <2>3. ASSUME Decode(a) \/ Dropped(a) \/ CallbackReturn(a) \/ Drained(a) PROVE Here
    <3>1. /\ pc[a] \in {"drain", "beat", "callback", "drained"}
          /\ UNCHANGED <<eof, state, close_type, via>>
      BY <2>3 DEF Decode, Dropped, CallbackReturn, Drained
    <3>2. pc'[a] # "write"
      BY <1>1, <2>3 DEF Types, Decode, Dropped, CallbackReturn, Drained
    <3> QED
      BY <1>1, <3>1, <3>2 DEF EndAt
  <2>4. ASSUME OnNotify(a) \/ OnSocket(a) PROVE Here
    <3>1. /\ state[a] # "closeed" /\ pc'[a] = "drain" /\ UNCHANGED <<eof, state, close_type>>
      BY <1>1, <2>4 DEF Types, OnNotify, OnSocket, Registered
    <3>2. via'[a] = "socket" => eof
      BY <1>1, <2>4, ZenonT(30) DEF Types, OnNotify, OnSocket
    <3> QED
      BY <1>1, <3>1, <3>2 DEF EndAt
  <2>5. ASSUME RemoveConn(a) PROVE Here
    <3>1. state'[a] = "closeed" /\ pc'[a] = "poll" /\ UNCHANGED <<eof, close_type, via>>
      BY <1>1, <2>5 DEF Types, RemoveConn, OnClose
    <3> QED
      BY <1>1, <3>1 DEF EndAt
  <2>6. ASSUME CloseConn(a) PROVE Here
    <3>1. /\ state'[a] = "closeed" /\ close_type'[a] = "Active" /\ eof'
          /\ pc' = pc /\ pc[a] \in {"poll", "callback"}
      BY <1>1, <2>6 DEF Types, CloseConn, OnClose
    <3> QED
      BY <3>1
  <2>7. ASSUME ReleaseConn(a) PROVE Here
    <3>1. eof' /\ state[a] = "closeed" /\ pc[a] = "poll" /\ UNCHANGED <<pc, state, close_type>>
      BY <2>7 DEF ReleaseConn, Registered
    <3> QED
      BY <3>1
  <2>8. ASSUME Close(a) PROVE Here
    <3>1. /\ eof' /\ state'[a] = "closeing" /\ close_type'[a] = "Active"
          /\ pc' = pc /\ pc[a] \in {"poll", "callback"}
      BY <1>1, <2>8 DEF Types, Close
    <3> QED
      BY <3>1
  <2>9. ASSUME Crash(a) PROVE Here
    <3>1. eof' /\ pc'[a] = "dead" /\ UNCHANGED <<state, close_type>>
      BY <1>1, <2>9 DEF Types, Crash
    <3> QED
      BY <1>1, <3>1 DEF EndAt
  <2>10. Here
    BY <1>6, <2>2, <2>3, <2>4, <2>5, <2>6, <2>7, <2>8, <2>9 DEF Moved
  <2>11. EndAt(a)'
    BY <1>1, <1>2, <2>10 DEF EndAt
  <2>12. EndAt(b)'
    BY <1>1, <1>2, <2>1, <2>10 DEF EndAt
  <2> QED
    BY <2>11, <2>12
<1> QED
  BY <1>3, <1>4, <1>5, <1>6, Cases DEF Moved

(* An end that leaves without having closed has looked at its ring after   *)
(* the other end had stopped sending.                                      *)
LEMMA QuietStep ==
  ASSUME Inv, NEW a \in Ends, Step(a) \/ Application(a) \/ Crash(a)
  PROVE  QuietAt(a)' /\ QuietAt(Peer(a))'
<1> DEFINE b == Peer(a)
<1>1. /\ b \in Ends /\ b # a /\ Peer(b) = a /\ Types
      /\ EndAt(a) /\ EndAt(b) /\ QuietAt(a) /\ QuietAt(b)
      /\ inbox[a] \in Seq(Package) /\ inbox[b] \in Seq(Package)
  BY PeerFacts DEF Inv, Types
<1>2. /\ pc'[b] = pc[b] /\ via'[b] = via[b] /\ state'[b] = state[b]
      /\ close_type'[b] = close_type[b] /\ pc[a] # "dead"
      /\ (state[a] # "established" => state'[a] # "established")
  BY OtherEnd
<1>3. ASSUME NEW c \in 0 .. left[a], Wrote(a, c) PROVE QuietAt(a)' /\ QuietAt(b)'
  <2>1. /\ pc[a] = "write" /\ pc'[a] \in {"write", "notify"}
        /\ UNCHANGED <<inbox, eof, state, close_type, via>>
    BY <1>1, <1>3 DEF Types, Wrote
  <2>2. QuietAt(a)'
    BY <1>1, <2>1 DEF QuietAt, Leaving, EndAt
  <2>3. QuietAt(b)'
    BY <1>1, <1>2, <2>1 DEF QuietAt, Leaving, Quiet, EndAt
  <2> QED
    BY <2>2, <2>3
<1>4. ASSUME NEW p \in Package, Began(a, p) PROVE QuietAt(a)' /\ QuietAt(b)'
  <2>1. /\ pc'[a] = "write" /\ UNCHANGED <<state, close_type>>
        /\ inbox'[b] = Append(inbox[b], p)
        /\ state[a] = "established" \/ p.kind = "beat"
        /\ pc[a] \in {"poll", "callback", "beat"}
        /\ pc[a] = "poll" => state[a] = "established"
    BY <1>1, <1>4 DEF Types, Began
  <2>2. QuietAt(a)'
    BY <1>1, <2>1 DEF QuietAt, Leaving, EndAt
  <2>3. inbox'[b] # <<>> /\ Head(inbox'[b]) = IF inbox[b] = <<>> THEN p ELSE Head(inbox[b])
    <3> DEFINE s == inbox[b]
    <3>1. s \in Seq(Package)
      BY <1>1
    <3> HIDE DEF s
    <3>2. Append(s, p) # <<>> /\ Head(Append(s, p)) = IF s = <<>> THEN p ELSE Head(s)
      BY <3>1, AppendFacts
    <3> QED
      BY <2>1, <3>2 DEF s
  <2>4. Quiet(b) => Quiet(b)'
    BY <1>1, <1>2, <2>1, <2>3 DEF Quiet
  <2>5. QuietAt(b)'
    BY <1>2, <1>1, <2>4 DEF QuietAt, Leaving
  <2> QED
    BY <2>2, <2>5
<1>5. CASE CommitRead(a)
  <2>1. /\ pc[a] = "commit" /\ pc'[a] \in {"callback", "beat", "drain"}
        /\ inbox'[b] = inbox[b] /\ avail'[b] = avail[b] /\ UNCHANGED <<state, close_type>>
    BY <1>1, <1>5 DEF Types, CommitRead
  <2>2. QuietAt(a)'
    BY <1>1, <2>1 DEF QuietAt, Leaving, EndAt
  <2>3. QuietAt(b)'
    BY <1>1, <1>2, <2>1 DEF QuietAt, Leaving, Quiet, Ready
  <2> QED
    BY <2>2, <2>3
<1>6. CASE Moved(a)
  <2>1. UNCHANGED <<avail, inbox, left, ret>>
    BY <1>6, MovedFacts
  <2>2. QuietAt(b)'
    BY <1>1, <1>2, <2>1 DEF QuietAt, Leaving, Quiet, Ready
  <2>3. Quiet(a) => Quiet(a)'
    BY <1>2, <2>1 DEF Quiet, Ready
  <2> SUFFICES QuietAt(a)'
    BY <2>2
  <2>4. CASE Decode(a)
    <3>1. /\ pc[a] = "drain" /\ UNCHANGED <<state, close_type, via>>
          /\ pc'[a] \in {"drained", "remove", "commit"}
          /\ pc'[a] = "drained" => ~Ready(a)
          /\ pc'[a] = "remove" => Ready(a) /\ Head(inbox[a]).kind = "bad"
      BY <1>1, <2>4 DEF Types, Decode
    <3> SUFFICES ASSUME close_type[a] = "Passive", Leaving(a)' PROVE Quiet(a)
      BY <2>3, <3>1 DEF QuietAt
    <3>2. state[a] = "established"
      BY <1>1, <3>1 DEF EndAt, Types
    <3>3. CASE pc'[a] = "remove"
      BY <3>1, <3>3 DEF Quiet, Ready
    <3>4. CASE pc'[a] = "drained" /\ via[a] = "socket"
      <4>1. pc[b] = "dead" \/ state[b] # "established"
        BY <1>1, <1>2, <3>2, <3>4 DEF EndAt
      <4>2. ASSUME inbox[a] # <<>>, Head(inbox[a]).kind = "data" PROVE pc[b] = "dead"
        <5>1. left[b] > 0 /\ Len(inbox[a]) = 1
          <6>1. /\ Accounted(inbox[a], avail[a], left[b])
                /\ avail[a] \in Nat /\ left[b] \in Nat
            BY <1>1, PackageFacts, SMT DEF Inv, AccountAt, Types
          <6>2. ~(Head(inbox[a]).len <= avail[a])
            BY <3>1, <3>4, <4>2 DEF Ready
          <6> QED
            BY <1>1, <4>2, <6>1, <6>2, Unfinished
        <5>2. pc[b] \in {"write", "dead"}
          <6>1. WriteAt(b)
            BY <1>1 DEF Inv
          <6>2. left[b] # 0
            BY <5>1, SMT
          <6> QED
            BY <6>1, <6>2 DEF WriteAt
        <5>3. Head(inbox[a]) = inbox[a][Len(inbox[a])]
          BY <1>1, <4>2, <5>1, TailFacts
        <5> QED
          BY <1>1, <4>1, <4>2, <5>2, <5>3 DEF EndAt
      <4> QED
        BY <3>1, <3>4, <4>1, <4>2 DEF Quiet
    <3> QED
      BY <3>1, <3>2, <3>3, <3>4 DEF Leaving
  <2>5. CASE NotifyPeer(a)
    <3>1. /\ pc[a] = "notify" /\ pc'[a] \in {"poll", "callback", "drain"}
          /\ UNCHANGED <<state, close_type>>
      BY <1>1, <2>5 DEF Types, NotifyPeer
    <3> QED
      BY <1>1, <3>1 DEF QuietAt, Leaving, EndAt
  <2>6. CASE Dropped(a) \/ CallbackReturn(a) \/ OnNotify(a) \/ OnSocket(a)
    <3>1. /\ pc'[a] = "drain" /\ UNCHANGED <<state, close_type>>
          /\ pc[a] = "poll" => state[a] # "closeed"
      BY <1>1, <2>6 DEF Types, Dropped, CallbackReturn, OnNotify, OnSocket, Registered
    <3> QED
      BY <1>1, <1>2, <3>1 DEF QuietAt, Leaving, EndAt
  <2>7. CASE Drained(a)
    <3>1. /\ pc[a] = "drained" /\ UNCHANGED <<state, close_type, via>>
          /\ pc'[a] \in {"poll", "remove"}
          /\ pc'[a] = "remove" => via[a] = "socket" \/ state[a] = "closeing"
      BY <1>1, <2>7 DEF Types, Drained
    <3> QED
      BY <1>1, <2>3, <3>1 DEF QuietAt, Leaving, EndAt
  <2>8. CASE RemoveConn(a)
    BY <1>1, <2>3, <2>8 DEF RemoveConn, QuietAt, Leaving
  <2>9. CASE Close(a) \/ CloseConn(a)
    BY <1>1, <2>9 DEF Types, Close, CloseConn, QuietAt
  <2>10. CASE ReleaseConn(a)
    BY <1>1, <2>3, <2>10 DEF ReleaseConn, QuietAt, Leaving
  <2>11. CASE Crash(a)
    BY <1>1, <2>3, <2>11 DEF Types, Crash, QuietAt, Leaving
  <2> QED
    BY <1>6, <2>4, <2>5, <2>6, <2>7, <2>8, <2>9, <2>10, <2>11 DEF Moved
<1> QED
  BY <1>3, <1>4, <1>5, <1>6, Cases DEF Moved

(* OnClose counts the callback when it makes the state closeed.            *)
LEMMA CountStep ==
  ASSUME Inv, NEW a \in Ends, Step(a) \/ Application(a) \/ Crash(a)
  PROVE  CountAt(a)' /\ CountAt(Peer(a))'
<1> DEFINE b == Peer(a)
<1>1. b \in Ends /\ Types /\ CountAt(a) /\ CountAt(b)
  BY PeerFacts DEF Inv
<1>2. CountAt(b)'
  BY <1>1, OtherEnd DEF CountAt
<1>3. CASE RemoveConn(a) \/ CloseConn(a)
  <2>1. /\ state'[a] = "closeed"
        /\ closes'[a] = IF state[a] # "closeed" THEN closes[a] + 1 ELSE closes[a]
    BY <1>1, <1>3 DEF Types, RemoveConn, CloseConn, OnClose
  <2>2. closes'[a] = 1
    BY <1>1, <2>1, SMT DEF CountAt
  <2> QED
    BY <1>2, <2>1, <2>2 DEF CountAt
<1>4. CASE Close(a)
  BY <1>1, <1>2, <1>4 DEF Types, Close, CountAt
<1>5. CASE \E c \in 0 .. left[a] : Wrote(a, c)
  BY <1>1, <1>2, <1>5 DEF Wrote, CountAt
<1>6. CASE \E p \in Package : Began(a, p)
  BY <1>1, <1>2, <1>6 DEF Began, CountAt
<1>7. CASE NotifyPeer(a) \/ OnNotify(a) \/ OnSocket(a) \/ Decode(a) \/ CommitRead(a)
             \/ Dropped(a) \/ CallbackReturn(a) \/ Drained(a) \/ ReleaseConn(a) \/ Crash(a)
  <2>1. UNCHANGED <<state, closes>>
    BY <1>7 DEF NotifyPeer, OnNotify, OnSocket, Decode, CommitRead, Dropped, CallbackReturn,
                Drained, ReleaseConn, Crash
  <2> QED
    BY <1>1, <1>2, <2>1 DEF CountAt
<1> QED
  BY <1>3, <1>4, <1>5, <1>6, <1>7, Cases

-----------------------------------------------------------------------------
(* The theorems.                                                           *)

(* A new connection satisfies the invariant: its rings are empty.          *)
LEMMA InitInv == Init => Inv
<1> SUFFICES ASSUME Init PROVE Inv
  OBVIOUS
<1>1. Types
  <2>1. 0 \in 0 .. Capacity /\ <<>> \in Seq(Package) /\ 0 \in Nat
    BY PackageFacts, SMT
  <2>2. avail \in [Ends -> 0 .. Capacity] /\ left \in [Ends -> 0 .. Capacity]
    BY <2>1 DEF Init
  <2>3. inbox \in [Ends -> Seq(Package)]
    BY <2>1 DEF Init
  <2>4. closes \in [Ends -> Nat] /\ sends \in [Ends -> Nat]
    BY <2>1 DEF Init
  <2> QED
    BY <2>2, <2>3, <2>4 DEF Init, Types
<1>2. ASSUME NEW e \in Ends PROVE AccountAt(e)
  <2>1. inbox[e] = <<>> /\ avail[e] = 0 /\ left[Peer(e)] = 0
    BY PeerFacts DEF Init
  <2> DEFINE off == [k \in 0 .. Len(<<>>) |-> 0]
  <2>2. Offsets(<<>>, off) /\ off[Len(<<>>)] = 0 + 0
    BY SMT DEF Offsets
  <2> QED
    BY <2>1, <2>2 DEF AccountAt, Accounted
<1>3. ASSUME NEW e \in Ends
      PROVE  WriteAt(e) /\ WakeAt(e) /\ EndAt(e) /\ QuietAt(e) /\ CountAt(e)
  BY DEF Init, WriteAt, WakeAt, Ready, EndAt, QuietAt, Leaving, CountAt
<1> QED
  BY <1>1, <1>2, <1>3 DEF Inv

(* A step of either end preserves it at both ends.                         *)
LEMMA NextInv == Inv /\ [Next]_vars => Inv'
<1> SUFFICES ASSUME Inv, [Next]_vars PROVE Inv'
  OBVIOUS
<1>1. CASE UNCHANGED vars
  <2>1. UNCHANGED <<avail, inbox, efd, eof, state, close_type, pc, ret, via, left, closes, sends>>
    BY <1>1 DEF vars
  <2>2. Types'
    BY <2>1 DEF Inv, Types
  <2>3. ASSUME NEW e \in Ends
        PROVE  /\ WriteAt(e)' /\ WakeAt(e)' /\ AccountAt(e)'
               /\ EndAt(e)' /\ QuietAt(e)' /\ CountAt(e)'
    <3>1. /\ WriteAt(e) /\ WakeAt(e) /\ AccountAt(e)
          /\ EndAt(e) /\ QuietAt(e) /\ CountAt(e)
      BY DEF Inv
    <3>2. WriteAt(e)' /\ WakeAt(e)'
      BY <2>1, <3>1 DEF WriteAt, WritableBytes, Ready, WakeAt, Parked, Registered
    <3>3. AccountAt(e)' /\ EndAt(e)' /\ CountAt(e)'
      BY <2>1, <3>1 DEF AccountAt, EndAt, CountAt
    <3>4. QuietAt(e)'
      BY <2>1, <3>1 DEF QuietAt, Leaving, Quiet, Ready
    <3> QED
      BY <3>2, <3>3, <3>4
  <2> QED
    BY <2>2, <2>3 DEF Inv
<1>2. ASSUME NEW a \in Ends, Step(a) \/ Application(a) \/ Crash(a) PROVE Inv'
  <2>1. \A e \in Ends : e = a \/ e = Peer(a)
    BY PeerFacts
  <2> QED
    BY <1>2, <2>1, TypesStep, WriteStep, WakeStep, AccountStep, EndStep, QuietStep, CountStep
       DEF Inv
<1> QED
  BY <1>1, <1>2 DEF Next

(* The invariant holds in every behaviour of a connection.                 *)
THEOREM Invariance == Spec => []Inv
  BY InitInv, NextInv, PTL DEF Spec

(* No end of a connection ever sleeps in poll on a whole package without a *)
(* wake-up under way: DrainNotify before DrainRing loses none.             *)
THEOREM NoLostWakeupCorrect == Spec => []NoLostWakeup
<1>1. Inv => NoLostWakeup
  BY DEF Inv, WakeAt, Parked, NoLostWakeup
<1> QED
  BY <1>1, Invariance, PTL

(* The check at the head of WriteRaw is enough: none of the TryWrite calls *)
(* after it fails, so no package is left cut off.                          *)
THEOREM NoPartialWriteCorrect == Spec => []NoPartialWrite
<1>1. Inv => NoPartialWrite
  BY DEF Inv, WriteAt, NoPartialWrite
<1> QED
  BY <1>1, Invariance, PTL

(* An end that did not close by itself has handed every whole data package *)
(* to its application when its close callback runs.                        *)
THEOREM LastDataDeliveredCorrect == Spec => []LastDataDelivered
<1>1. Inv => LastDataDelivered
  BY DEF Inv, QuietAt, Leaving, Quiet, Ready, LastDataDelivered
<1> QED
  BY <1>1, Invariance, PTL

(* The close callback of a connection runs once, when its state becomes    *)
(* closeed, whichever handlers come together.                              *)
THEOREM CloseOnceCorrect == Spec => []CloseOnce
<1>1. Inv => CloseOnce
  BY DEF Inv, Types, TypeOK, Package, CountAt, CloseOnce
<1> QED
  BY <1>1, Invariance, PTL

=============================================================================
