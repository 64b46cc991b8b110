------------------------- MODULE LoopEntriesProofs --------------------------
(***************************************************************************)
(* Proofs about LoopEntries, for all sequences: what Selected returns, by  *)
(* induction over the number of elements looked at.                        *)
(***************************************************************************)
EXTENDS LoopEntries, WellFoundedInduction, TLAPS

-----------------------------------------------------------------------------
(* Induction over the natural numbers, for sets instead of predicates.     *)

(* A set of natural numbers has a least element.                           *)
LEMMA LeastNat ==
  ASSUME NEW T \in SUBSET Nat, T # {}
  PROVE  \E x \in T : \A y \in T : x <= y
<1> DEFINE R == OpToRel(<, Nat)
<1>1. IsWellFoundedOn(R, Nat)
  BY NatLessThanWellFounded, Zenon
<1>2. ASSUME NEW x \in Nat, NEW y \in Nat, <<y, x>> \notin R
      PROVE  x <= y
  BY <1>2 DEF OpToRel
<1> HIDE DEF R
<1>3. PICK x \in T : \A y \in T : ~ (<<y, x>> \in R)
  BY <1>1, WFMin, Zenon
<1>4. \A y \in T : x <= y
  BY <1>2, <1>3, Zenon
<1> QED
  BY <1>4

(* A set that has 0 and, with a number, the next one, has all of them.     *)
LEMMA NatSetInduction ==
  ASSUME NEW T, 0 \in T, \A n \in Nat : n \in T => n + 1 \in T
  PROVE  \A n \in Nat : n \in T
<1> SUFFICES ASSUME Nat \ T # {} PROVE FALSE
  OBVIOUS
<1>1. PICK x \in Nat \ T : \A y \in Nat \ T : x <= y
  BY LeastNat, Zenon
<1>2. x # 0 /\ x - 1 \in Nat
  BY <1>1
<1>3. x - 1 \in T
  BY <1>1, <1>2
<1> QED
  BY <1>1, <1>2, <1>3

-----------------------------------------------------------------------------
(* What Selected returns.                                                  *)

(* The function of the sequences kept so far satisfies its equation.       *)
LEMMA SelectedRecursion ==
  ASSUME NEW S, NEW s \in Seq(S), NEW K
  PROVE  \E kept :
           /\ kept = [n \in 0 .. Len(s) |->
                        IF n = 0 THEN <<>>
                        ELSE IF n \in K THEN Append(kept[n - 1], s[n]) ELSE kept[n - 1]]
           /\ Selected(s, K) = kept[Len(s)]
<1> DEFINE Body(g, n) == IF n = 0 THEN <<>>
                         ELSE IF n \in K THEN Append(g[n - 1], s[n]) ELSE g[n - 1]
           Upto(m) == \E g : g = [n \in 0 .. m |-> Body(g, n)]
           T == {m \in Nat : Upto(m)}
<1>1. Len(s) \in Nat
  OBVIOUS
<1>2. 0 \in T
  <2> DEFINE g == [n \in 0 .. 0 |-> <<>>]
  <2>1. g = [n \in 0 .. 0 |-> Body(g, n)]
    OBVIOUS
  <2> QED
    BY <2>1, Zenon
<1>3. ASSUME NEW m \in Nat, m \in T PROVE m + 1 \in T
  <2>1. PICK g : g = [n \in 0 .. m |-> Body(g, n)]
    BY <1>3, Zenon
  <2> DEFINE h == [n \in 0 .. m + 1 |-> IF n = m + 1 THEN Body(g, n) ELSE g[n]]
  <2> HIDE DEF Body
  <2>2. \A n \in 0 .. m : h[n] = g[n]
    OBVIOUS
  <2>3. \A n \in 0 .. m : g[n] = Body(g, n)
    BY <2>1, Zenon
  <2>4. \A n \in 0 .. m + 1 : Body(h, n) = Body(g, n)
    BY <2>2 DEF Body
  <2>5. \A n \in 0 .. m + 1 : h[n] = Body(h, n)
    BY <2>2, <2>3, <2>4
  <2>6. h = [n \in 0 .. m + 1 |-> Body(h, n)]
    BY <2>5
  <2> HIDE DEF h
  <2>7. Upto(m + 1)
    BY <2>6, Zenon
  <2> QED
    BY <2>7
<1> HIDE DEF T
<1>4. Len(s) \in T
  BY <1>1, <1>2, <1>3, NatSetInduction
<1>5. Upto(Len(s))
  BY <1>4 DEF T
<1> DEFINE kept == CHOOSE g : g = [n \in 0 .. Len(s) |-> Body(g, n)]
<1>6. kept = [n \in 0 .. Len(s) |-> Body(kept, n)]
  BY <1>5, Zenon
<1>7. Selected(s, K) = kept[Len(s)]
  BY Zenon DEF Selected
<1> HIDE DEF kept
<1> QED
  BY <1>6, <1>7, Zenon

(* m leads from the elements of t to those of s with an index in K that    *)
(* they are: in order, and to every one.                                   *)
Picks(m, t, s, K) ==
  /\ m \in [1 .. Len(t) -> K]
  /\ \A j \in 1 .. Len(t) : t[j] = s[m[j]]
  /\ \A j, k \in 1 .. Len(t) : j < k => m[j] < m[k]
  /\ \A k \in K : \E j \in 1 .. Len(t) : m[j] = k

(* One element more.                                                       *)
LEMMA PicksAppend ==
  ASSUME NEW S, NEW s \in Seq(S), NEW t \in Seq(S), NEW n \in 1 .. Len(s),
         NEW K \in SUBSET (1 .. n - 1), NEW m, Picks(m, t, s, K)
  PROVE  \E p : Picks(p, Append(t, s[n]), s, K \cup {n})
<1> DEFINE l == Len(t)
           u == Append(t, s[n])
           p == [j \in 1 .. l + 1 |-> IF j = l + 1 THEN n ELSE m[j]]
<1>1. /\ l \in Nat /\ Len(u) = l + 1 /\ u[l + 1] = s[n]
      /\ \A j \in 1 .. l : u[j] = t[j]
  OBVIOUS
<1>2. /\ m \in [1 .. l -> K]
      /\ \A j \in 1 .. l : t[j] = s[m[j]]
      /\ \A j, k \in 1 .. l : j < k => m[j] < m[k]
      /\ \A k \in K : \E j \in 1 .. l : m[j] = k
  BY DEF Picks
<1> HIDE DEF l, u
<1>3. \A j \in 1 .. l : p[j] = m[j] /\ m[j] \in K
  <2>1. \A j \in 1 .. l : j \in 1 .. l + 1 /\ j # l + 1
    BY <1>1
  <2> QED
    BY <1>2, <2>1
<1>4. p[l + 1] = n /\ p \in [1 .. l + 1 -> K \cup {n}]
  BY <1>1, <1>2
<1> HIDE DEF p
<1>5. \A k \in K : k \in Nat /\ k < n
  OBVIOUS
<1>6. \A j \in 1 .. l + 1 : j \in 1 .. l \/ j = l + 1
  BY <1>1
<1>7. \A j \in 1 .. l + 1 : u[j] = s[p[j]]
  BY <1>1, <1>2, <1>3, <1>4, <1>6
<1>8. ASSUME NEW j \in 1 .. l + 1, NEW k \in 1 .. l + 1, j < k
      PROVE  p[j] < p[k]
  <2>1. j \in 1 .. l
    BY <1>1, <1>8
  <2>2. CASE k \in 1 .. l
    BY <1>2, <1>3, <1>8, <2>1, <2>2
  <2>3. CASE k = l + 1
    BY <1>3, <1>4, <1>5, <2>1, <2>3, Zenon
  <2> QED
    BY <1>6, <2>2, <2>3
<1>9. \A k \in K \cup {n} : \E j \in 1 .. l + 1 : p[j] = k
  <2>1. l + 1 \in 1 .. l + 1 /\ \A j \in 1 .. l : j \in 1 .. l + 1
    BY <1>1
  <2> QED
    BY <1>2, <1>3, <1>4, <2>1
<1>10. Picks(p, u, s, K \cup {n})
  BY <1>1, <1>4, <1>7, <1>8, <1>9 DEF Picks
<1> QED
  BY <1>10 DEF u

(* The first n elements of s have been looked at, and kept is what is kept *)
(* of them.                                                                *)
KeptUpTo(S, s, K, kept, n) ==
  /\ kept \in Seq(S) /\ Len(kept) <= n
  /\ \E m : Picks(m, kept, s, K \cap (1 .. n))

(* The next one is looked at.                                              *)
LEMMA KeptNext ==
  ASSUME NEW S, NEW s \in Seq(S), NEW K \in SUBSET (1 .. Len(s)), NEW n \in 1 .. Len(s),
         NEW t, KeptUpTo(S, s, K, t, n - 1),
         NEW u, u = IF n \in K THEN Append(t, s[n]) ELSE t
  PROVE  KeptUpTo(S, s, K, u, n)
<1>1. t \in Seq(S) /\ Len(t) <= n - 1 /\ Len(t) \in Nat /\ s[n] \in S
  BY DEF KeptUpTo
<1>2. PICK m : Picks(m, t, s, K \cap (1 .. n - 1))
  BY DEF KeptUpTo
<1>3. K \cap (1 .. n) = (K \cap (1 .. n - 1)) \cup (K \cap {n})
  OBVIOUS
<1>4. CASE n \notin K
  <2>1. K \cap (1 .. n) = K \cap (1 .. n - 1) /\ u = t /\ Len(t) <= n
    BY <1>1, <1>3, <1>4
  <2> QED
    BY <1>1, <1>2, <2>1, Zenon DEF KeptUpTo
<1>5. CASE n \in K
  <2>1. K \cap (1 .. n) = (K \cap (1 .. n - 1)) \cup {n}
    BY <1>3, <1>5
  <2>2. \E p : Picks(p, Append(t, s[n]), s, (K \cap (1 .. n - 1)) \cup {n})
    BY <1>1, <1>2, PicksAppend, Zenon
  <2>3. Append(t, s[n]) \in Seq(S) /\ Len(Append(t, s[n])) <= n
    BY <1>1
  <2> QED
    BY <1>5, <2>1, <2>2, <2>3, Zenon DEF KeptUpTo
<1> QED
  BY <1>4, <1>5

(* Selected returns the elements of s with an index in K, each once and in *)
(* the order of s.                                                         *)
LEMMA SelectedPicks ==
  ASSUME NEW S, NEW s \in Seq(S), NEW K \in SUBSET (1 .. Len(s))
  PROVE  /\ Selected(s, K) \in Seq(S) /\ Len(Selected(s, K)) <= Len(s)
         /\ \E m : Picks(m, Selected(s, K), s, K)
<1>1. PICK kept :
        /\ kept = [n \in 0 .. Len(s) |->
                     IF n = 0 THEN <<>>
                     ELSE IF n \in K THEN Append(kept[n - 1], s[n]) ELSE kept[n - 1]]
        /\ Selected(s, K) = kept[Len(s)]
  BY SelectedRecursion, Zenon
<1>2. Len(s) \in Nat
  OBVIOUS
<1>3. \A n \in 0 .. Len(s) :
        kept[n] = IF n = 0 THEN <<>>
                  ELSE IF n \in K THEN Append(kept[n - 1], s[n]) ELSE kept[n - 1]
  BY <1>1, Zenon
<1> DEFINE T == {n \in Nat : n <= Len(s) => KeptUpTo(S, s, K, kept[n], n)}
<1>4. 0 \in T
  <2>1. kept[0] = <<>> /\ K \cap (1 .. 0) = {}
    BY <1>2, <1>3
  <2>2. Picks(<<>>, <<>>, s, {})
    BY DEF Picks
  <2>3. KeptUpTo(S, s, K, <<>>, 0)
    BY <2>1, <2>2 DEF KeptUpTo
  <2> QED
    BY <2>1, <2>3
<1>5. ASSUME NEW n \in Nat, n \in T PROVE n + 1 \in T
  <2>1. ASSUME n + 1 <= Len(s) PROVE KeptUpTo(S, s, K, kept[n + 1], n + 1)
    <3>1. n + 1 \in 1 .. Len(s) /\ (n + 1) - 1 = n
      BY <1>2, <2>1
    <3>2. KeptUpTo(S, s, K, kept[n], n)
      BY <1>2, <1>5, <2>1
    <3>3. kept[n + 1] = IF n + 1 \in K THEN Append(kept[n], s[n + 1]) ELSE kept[n]
      BY <1>3, <3>1
    <3> HIDE DEF T
    <3> DEFINE m == n + 1
    <3>4. m \in 1 .. Len(s) /\ KeptUpTo(S, s, K, kept[n], m - 1)
      BY <3>1, <3>2
    <3>5. kept[m] = IF m \in K THEN Append(kept[n], s[m]) ELSE kept[n]
      BY <3>3
    <3> HIDE DEF m
    <3>6. KeptUpTo(S, s, K, kept[m], m)
      BY <3>4, <3>5, KeptNext, Zenon
    <3> QED
      BY <3>6 DEF m
  <2> QED
    BY <2>1
<1> HIDE DEF T
<1>6. Len(s) \in T
  BY <1>2, <1>4, <1>5, NatSetInduction
<1>7. KeptUpTo(S, s, K, Selected(s, K), Len(s))
  BY <1>1, <1>2, <1>6 DEF T
<1>8. K \cap (1 .. Len(s)) = K
  BY Zenon
<1> QED
  BY <1>7, <1>8, Zenon DEF KeptUpTo

=============================================================================
