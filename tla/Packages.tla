------------------------------ MODULE Packages ------------------------------
(***************************************************************************)
(* Two ShmConnections, one at each end of a channel, and the packages that *)
(* SendCmd encodes into one ring and DrainRing decodes out of it: the      *)
(* encode buffer that grows on the word of the codec, the pieces WriteRaw  *)
(* writes, data across the end of the ring, the answer to a heartbeat.     *)
(*                                                                         *)
(* PODs are encoded by SimplePodCodec.  A codec the application brings may *)
(* also have heartbeats, and may break its contract.  A ring is an array   *)
(* of cells: a tag, or one cell of the body of a numbered package.         *)
(***************************************************************************)
EXTENDS Integers, Sequences, FiniteSets, SequencesExt

CONSTANTS
  Capacity,       \* cells of a ring
  Types,          \* POD types: records [tag, size]
  Registrations,  \* the types each process may register, in order
  Answers,        \* what codecs say of a heartbeat: [need, out], out being the buffer
                  \* they ask for while the one they have is smaller than need
  KeepAlive,      \* ends with keepalive_
  Initiators,     \* ends that send of their own accord; others reply in callbacks
  init_size, max_buffer_size_,
  MaxSends        \* bound on the calls of SendCmd

Ends == {1, 2}
Peer(e) == 3 - e
max_write_size == Capacity \div 2

ASSUME CapacityAssumption == Capacity \in Nat \ {0, 1}
ASSUME TypesAssumption == \A t \in Types : t.tag \in Nat \ {0} /\ t.size \in Nat \ {0}
ASSUME BuffersAssumption == init_size \in Nat /\ max_buffer_size_ \in Nat /\ MaxSends \in Nat
ASSUME EndsAssumption == KeepAlive \subseteq Ends /\ Initiators \subseteq Ends

(* RegisterPod: the tag of a type leads to the operations of the type that *)
(* was registered last with it.  TagOf knows every registered type.        *)
TagOf(regs) == ToSet(regs)
OpsOf(regs) == {t \in ToSet(regs) :
  \A n \in DOMAIN regs : regs[n].tag = t.tag => \E m \in DOMAIN regs : m >= n /\ regs[m] = t}

(* The two processes mean the same type by a tag.                          *)
ASSUME AgreeAssumption ==
  \A r \in Registrations : \A t \in OpsOf(r[1]), u \in OpsOf(r[2]) : t.tag = u.tag => t = u

VARIABLES
  regs,          \* the types registered at each end
  state_,        \* of each connection: "established" or "closeing"
  encode_buf_,   \* of each connection: [size, cells], the cells last encoded
  cells, w, r,   \* ring[e], written by e: its cells and the counts written and read
  efd,           \* whether the eventfd of each end is readable
  pc,            \* where the thread of each end is
  back,          \* where the call in progress returns to
  job,           \* what is being encoded
  left,          \* cells WriteRaw has still to write
  buf,           \* the data DrainRing has linearised
  sent,          \* packages e has put into its ring
  got,           \* packages dispatched at e
  sends          \* calls of SendCmd

sending == <<encode_buf_, back, job, left, sent, sends>>
rings == <<cells, w, r>>
vars == <<regs, state_, sending, rings, efd, pc, buf, got>>

NoJob == [kind |-> "none"]
Heartbeat == <<0>>      \* a cell that only codecs with heartbeats know
Odd == <<-1>>           \* a cell that a codec answers with a length out of range

Init ==
  /\ regs \in Registrations
  /\ state_ = [e \in Ends |-> "established"]
  /\ encode_buf_ = [e \in Ends |-> [size |-> init_size, cells |-> <<>>]]
  /\ cells = [e \in Ends |-> [k \in 0 .. Capacity - 1 |-> Heartbeat]]
  /\ w = [e \in Ends |-> 0] /\ r = [e \in Ends |-> 0]
  /\ efd = [e \in Ends |-> FALSE]
  /\ pc = [e \in Ends |-> "idle"] /\ back = [e \in Ends |-> "idle"]
  /\ job = [e \in Ends |-> NoJob] /\ left = [e \in Ends |-> <<>>]
  /\ buf = [e \in Ends |-> <<>>]
  /\ sent = [e \in Ends |-> <<>>] /\ got = [e \in Ends |-> <<>>]
  /\ sends = 0

-----------------------------------------------------------------------------
(* Codecs.  An answer is "skip", "disconnect", "more" with the size asked  *)
(* for in out, or "len" with the cells.                                    *)

Says(ret, out, cs) == [ret |-> ret, out |-> out, cells |-> cs]

(* A package is [type, id]; its body is a cell for each unit of its size.  *)
Encoding(p) == <<<<p.type.tag>>>> \o [k \in 1 .. p.type.size |-> <<p.id, k>>]

(* SimplePodCodec::Encode: the operations are those of the tag, and do not *)
(* take a value of another type.                                           *)
PodEncode(known, p, size) ==
  IF p.type \notin TagOf(known) THEN Says("disconnect", 0, <<>>)
  ELSE LET ops == CHOOSE t \in OpsOf(known) : t.tag = p.type.tag
       IN  IF size < 1 + ops.size THEN Says("more", 1 + ops.size, <<>>)
           ELSE IF ops # p.type THEN Says("disconnect", 0, <<>>)
           ELSE Says("len", 0, Encoding(p))

(* Another codec that encodes the cells cs.                                *)
OtherEncode(answer, cs, size) ==
  IF size < answer.need THEN Says("more", answer.out, <<>>) ELSE Says("len", 0, cs)

(* SimplePodCodec::Decode, and what other codecs make of their cells.      *)
Decode(known, cs) ==
  IF cs[1] = Heartbeat THEN Says("skip", 1, <<>>)
  ELSE IF cs[1] = Odd THEN Says("skip", Len(cs) + 1, <<>>)
  ELSE LET ops == {t \in OpsOf(known) : <<t.tag>> = cs[1]}
       IN  IF ops = {} THEN Says("disconnect", 0, <<>>)
           ELSE LET need == 1 + (CHOOSE t \in ops : TRUE).size
                IN  IF Len(cs) < need THEN Says("more", 0, <<>>)
                    ELSE Says("len", need, SubSeq(cs, 1, need))

(* What the codec of end e says about the job in hand, given its buffer.   *)
Answer(e) ==
  LET size == encode_buf_[e].size
  IN  CASE job[e].kind = "pod" -> PodEncode(regs[e], job[e].pkg, size)
        [] job[e].kind = "skipped" -> Says("skip", 0, <<>>)
        [] OTHER -> OtherEncode(job[e].answer, <<job[e].cell>>, size)

Pod(t, id) == [kind |-> "pod", pkg |-> [type |-> t, id |-> id]]
Other(kind, answer, cell) == [kind |-> kind, answer |-> answer, cell |-> cell]

-----------------------------------------------------------------------------
(* Faults: plausible slips in the code, to show that the properties below  *)
(* would notice them.  No behaviour of Spec uses one.                      *)

(* Only the first segment that Peek returns is decoded.                    *)
LinearisedFault(e) ==
  LET p == Peer(e)
      toEnd == Capacity - (r[p] % Capacity)
      first == IF w[p] - r[p] < toEnd THEN w[p] - r[p] ELSE toEnd
  IN  [k \in 1 .. first |-> cells[p][(r[p] + k - 1) % Capacity]]

(* Too large a package is sent as far as there is room.                    *)
FitsFault(e, cs) == w[e] - r[e] < Capacity

(* A codec that asks for a buffer no larger than the one it has is asked   *)
(* again.                                                                  *)
MayGrowFault(e, out) == out # 0 /\ out <= max_buffer_size_

-----------------------------------------------------------------------------
(* SendCmd.                                                                *)

SendCmd(e, j) ==
  /\ pc[e] = "callback" \/ (pc[e] = "idle" /\ e \in Initiators)
  /\ sends < MaxSends
  /\ sends' = sends + 1
  /\ state_[e] = "established"
  /\ pc' = [pc EXCEPT ![e] = "encode"] /\ back' = [back EXCEPT ![e] = pc[e]]
  /\ job' = [job EXCEPT ![e] = j]
  /\ UNCHANGED <<regs, state_, encode_buf_, left, sent, rings, efd, buf, got>>

(* When the buffer is grown and the codec asked again: GrowEncodeBuffer,   *)
(* for a size that is larger than the one there is.                        *)
MayGrow(e, out) == out # 0 /\ out > encode_buf_[e].size /\ out <= max_buffer_size_

(* WriteRaw starts only if all of the cells fit.                           *)
Fits(e, cs) == Capacity - (w[e] - r[e]) >= Len(cs)

Return(e) == pc' = [pc EXCEPT ![e] = back[e]] /\ job' = [job EXCEPT ![e] = NoJob]

(* A round of the loop in SendCmd or in SendKeepaliveResponse, up to the   *)
(* test at the start of WriteRaw.                                          *)
Encode(e) ==
  /\ pc[e] = "encode"
  /\ LET a == Answer(e)
     IN  \/ /\ a.ret = "skip" /\ Return(e)
            /\ UNCHANGED <<state_, encode_buf_, left, sent>>
         \/ /\ a.ret = "disconnect" /\ Return(e)
            /\ state_' = [state_ EXCEPT ![e] = "closeing"]
            /\ UNCHANGED <<encode_buf_, left, sent>>
         \/ /\ a.ret = "more"
            /\ IF MayGrow(e, a.out)
               THEN encode_buf_' = [encode_buf_ EXCEPT ![e].size = a.out] /\ UNCHANGED <<pc, job>>
               ELSE Return(e) /\ UNCHANGED encode_buf_
            /\ UNCHANGED <<state_, left, sent>>
         \/ /\ a.ret = "len"
            /\ encode_buf_' = [encode_buf_ EXCEPT ![e].cells = a.cells]
            /\ IF Fits(e, a.cells)
               THEN /\ pc' = [pc EXCEPT ![e] = "write"] /\ UNCHANGED job
                    /\ left' = [left EXCEPT ![e] = encode_buf_'[e].cells]
                    /\ sent' = IF job[e].kind = "pod"
                               THEN [sent EXCEPT ![e] = Append(@, a.cells)] ELSE sent
               ELSE Return(e) /\ UNCHANGED <<left, sent>>
            /\ UNCHANGED state_
  /\ UNCHANGED <<regs, back, sends, rings, efd, buf, got>>

(* TryWrite of a piece of at most max_write_size; after the last one       *)
(* NotifyPeer.                                                             *)
WriteRaw(e) ==
  /\ pc[e] = "write"
  /\ LET n == IF Len(left[e]) > max_write_size THEN max_write_size ELSE Len(left[e])
         at(k) == (w[e] + k - 1) % Capacity
     IN  /\ cells' = [cells EXCEPT ![e] = [c \in 0 .. Capacity - 1 |->
              IF \E k \in 1 .. n : at(k) = c
              THEN left[e][CHOOSE k \in 1 .. n : at(k) = c] ELSE @[c]]]
         /\ w' = [w EXCEPT ![e] = @ + n]
         /\ left' = [left EXCEPT ![e] = SubSeq(@, n + 1, Len(@))]
  /\ IF left'[e] = <<>>
     THEN Return(e) /\ efd' = [efd EXCEPT ![Peer(e)] = TRUE]
     ELSE UNCHANGED <<pc, job, efd>>
  /\ UNCHANGED <<regs, state_, encode_buf_, back, sent, sends, r, buf, got>>

-----------------------------------------------------------------------------
(* DrainRing.                                                              *)

(* The handler of the eventfd; a connection that is closed has none.       *)
OnNotify(e) ==
  /\ pc[e] = "idle" /\ efd[e] /\ state_[e] = "established"
  /\ efd' = [efd EXCEPT ![e] = FALSE]
  /\ pc' = [pc EXCEPT ![e] = "peek"]
  /\ UNCHANGED <<regs, state_, sending, rings, buf, got>>

(* What there is to read, both segments in one piece.                      *)
Linearised(e) ==
  LET p == Peer(e)
  IN  [k \in 1 .. w[p] - r[p] |-> cells[p][(r[p] + k - 1) % Capacity]]

Peek(e) ==
  /\ pc[e] = "peek"
  /\ buf' = [buf EXCEPT ![e] = Linearised(e)]
  /\ pc' = [pc EXCEPT ![e] = IF w[Peer(e)] = r[Peer(e)] THEN "idle" ELSE "decode"]
  /\ UNCHANGED <<regs, state_, sending, rings, efd, got>>

(* A consumed length that is zero or more than there is fails the          *)
(* connection.                                                             *)
InRange(e, len) == len > 0 /\ len <= Len(buf[e])

CommitRead(e, len) == r' = [r EXCEPT ![Peer(e)] = @ + len]

(* DrainRing returns -1: the owner of the connection takes it down.        *)
Fail(e) ==
  /\ state_' = [state_ EXCEPT ![e] = "closeing"]
  /\ pc' = [pc EXCEPT ![e] = "idle"]
  /\ UNCHANGED <<r, got, back, job>>

(* What SendKeepaliveResponse may be asked to send.  A codec that refuses  *)
(* to answer, with -1 or -2, is no reason to disconnect here.              *)
Responses == {Other("response", an, Heartbeat) : an \in Answers} \cup {[kind |-> "skipped"]}

(* One package: a heartbeat is answered if keepalive_ is set, a POD is     *)
(* dispatched unless a callback has closed the connection.                 *)
DecodeOne(e) ==
  /\ pc[e] = "decode"
  /\ LET a == Decode(regs[e], buf[e])
     IN  \/ a.ret = "disconnect" /\ Fail(e)
         \/ /\ a.ret = "more"
            /\ pc' = [pc EXCEPT ![e] = "idle"]
            /\ UNCHANGED <<state_, r, got, back, job>>
         \/ a.ret \in {"skip", "len"} /\ ~InRange(e, a.out) /\ Fail(e)
         \/ /\ a.ret = "skip" /\ InRange(e, a.out)
            /\ CommitRead(e, a.out)
            /\ IF e \in KeepAlive
               THEN /\ pc' = [pc EXCEPT ![e] = "encode"] /\ back' = [back EXCEPT ![e] = "peek"]
                    /\ \E j \in Responses : job' = [job EXCEPT ![e] = j]
               ELSE pc' = [pc EXCEPT ![e] = "peek"] /\ UNCHANGED <<back, job>>
            /\ UNCHANGED <<state_, got>>
         \/ /\ a.ret = "len" /\ InRange(e, a.out)
            /\ CommitRead(e, a.out)
            /\ IF state_[e] = "established"
               THEN /\ got' = [got EXCEPT ![e] = Append(@, a.cells)]
                    /\ pc' = [pc EXCEPT ![e] = "callback"]
               ELSE pc' = [pc EXCEPT ![e] = "peek"] /\ UNCHANGED got
            /\ UNCHANGED <<state_, back, job>>
  /\ buf' = [buf EXCEPT ![e] = <<>>]
  /\ UNCHANGED <<regs, encode_buf_, left, sent, sends, cells, w, efd>>

(* The message callback returns; it may have closed the connection.        *)
CallbackReturn(e) ==
  /\ pc[e] = "callback"
  /\ pc' = [pc EXCEPT ![e] = "peek"]
  /\ UNCHANGED <<regs, state_, sending, rings, efd, buf, got>>

Close(e) ==
  /\ pc[e] \in {"idle", "callback"} /\ state_[e] = "established"
  /\ state_' = [state_ EXCEPT ![e] = "closeing"]
  /\ UNCHANGED <<regs, sending, rings, efd, pc, buf, got>>

-----------------------------------------------------------------------------
Step(e) ==
  Encode(e) \/ WriteRaw(e) \/ OnNotify(e) \/ Peek(e) \/ DecodeOne(e) \/ CallbackReturn(e)

Jobs ==
  {Pod(t, sends + 1) : t \in Types} \cup {[kind |-> "skipped"]}
    \cup {Other("other", [need |-> 1, out |-> 1], c) : c \in {Heartbeat, Odd}}

Next == \E e \in Ends : Step(e) \/ Close(e) \/ \E j \in Jobs : SendCmd(e, j)

(* The thread of each end goes on.                                         *)
Spec == Init /\ [][Next]_vars /\ \A e \in Ends : WF_vars(Step(e))

-----------------------------------------------------------------------------
(* Types, and a reader that never passes the writer.                       *)
TypeOK ==
  /\ state_ \in [Ends -> {"established", "closeing"}]
  /\ \A e \in Ends : /\ encode_buf_[e].size \in init_size .. max_buffer_size_ \cup {init_size}
                     /\ w[e] \in Nat /\ r[e] \in 0 .. w[e] /\ w[e] - r[e] <= Capacity
  /\ efd \in [Ends -> BOOLEAN]
  /\ pc \in [Ends -> {"idle", "encode", "write", "peek", "decode", "callback"}]
  /\ back \in [Ends -> {"idle", "peek", "callback"}]
  /\ sends \in 0 .. MaxSends

(* What an end dispatches are the packages its peer has sent, whole, once  *)
(* and in order: however the pieces of WriteRaw and the rounds of          *)
(* DrainRing interleave, wherever the ring ends, whatever codecs answer    *)
(* about sizes and with whatever an earlier package has left in the        *)
(* buffer.  And the state has its types.                                   *)
InOrder == TypeOK /\ \A e \in Ends : IsPrefix(got[e], sent[Peer(e)])

(* A package that SendCmd has accepted is dispatched, unless an end is     *)
(* closed: data a reader saw in part only is announced again.              *)
Delivered ==
  \A e \in Ends :
    got[Peer(e)] # sent[e] ~> \/ got[Peer(e)] = sent[e]
                             \/ \E f \in Ends : state_[f] = "closeing"

(* SendCmd and the answer to a heartbeat end, whatever sizes the codec     *)
(* asks for.                                                               *)
SendReturns == \A e \in Ends : pc[e] \in {"encode", "write"} ~> pc[e] \notin {"encode", "write"}

=============================================================================
