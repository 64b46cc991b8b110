---------------------------- MODULE LoopEntries -----------------------------
(***************************************************************************)
(* What EventLoop does with entries_, for the modules that have a loop.    *)
(* An entry is a record with at least the fields fd and dead, a pollfd one *)
(* with the index idx of the entry it was built from and revents.          *)
(***************************************************************************)
EXTENDS Integers, Sequences

-----------------------------------------------------------------------------
(* Faults: plausible slips in the code, to show that the properties of the *)
(* loop would notice them.  No specification uses one.                     *)

(* RemoveFd marks the first entry of the number, be it a tombstone.        *)
RemovedFdFirst(es, fd) ==
  LET same == {k \in DOMAIN es : es[k].fd = fd}
      k1 == CHOOSE k \in same : \A j \in same : k <= j
  IN  [es EXCEPT ![k1].dead = TRUE]

(* The dispatch does not look at dead again.                               *)
SkippedFault(es, p) == ~p.revents

-----------------------------------------------------------------------------
(* What a loop over s keeps that takes the elements with an index in K.    *)
Selected(s, K) ==
  LET kept[n \in 0 .. Len(s)] ==
        IF n = 0 THEN <<>>
        ELSE IF n \in K THEN Append(kept[n - 1], s[n]) ELSE kept[n - 1]
  IN  kept[Len(s)]

(* The indexes of the entries that are not tombstones.                     *)
Alive(es) == {k \in DOMAIN es : ~es[k].dead}

(* CompactDead.                                                            *)
Compacted(es) == Selected(es, Alive(es))

(* RemoveFd(fd): every entry of that number is a tombstone.                *)
RemovedFd(es, fd) == [k \in DOMAIN es |->
  IF es[k].fd = fd THEN [es[k] EXCEPT !.dead = TRUE] ELSE es[k]]

(* The entry that the pollfd p was built from, and that the dispatch       *)
(* passes over it.                                                         *)
EntryAt(es, p) == es[p.idx]
Skipped(es, p) == EntryAt(es, p).dead \/ ~p.revents

=============================================================================
