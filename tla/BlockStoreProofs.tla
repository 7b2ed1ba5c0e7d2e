-------------------------- MODULE BlockStoreProofs --------------------------
(***************************************************************************)
(* Proofs of the safety properties of the block store from the inductive    *)
(* invariant of BlockStoreInv, and that it implements Archive: for any      *)
(* number of blocks in a chunk, any heights of the fork and the genesis,    *)
(* any list of chunks and any blocks of the node, and any number of         *)
(* interrupts and kills.                                                    *)
(***************************************************************************)
EXTENDS BlockStoreInv, SetFacts, SequenceTheorems, TLAPS

(* The constants that are numbers, and sets of them. *)
LEMMA Constants ==
  /\ BlocksPerChunk \in Nat \ {0}
  /\ MaxHeight \in Nat /\ ForkHeight \in 1..MaxHeight /\ GenesisHeight \in 0..MaxHeight
  /\ ListedChunks \subseteq 1..MaxHeight
  /\ DownloadFullChunksOnly \subseteq BOOLEAN
  /\ MaxFaults \in Nat
BY StoreAssumption

-----------------------------------------------------------------------------
(* What is kept of a sequence.                                              *)

(* g has what is kept of the beginnings of s, up to the n-th.               *)
OfFirst(g, s, T, n) ==
  g = [i \in 0..n |-> IF i = 0 THEN << >>
                      ELSE IF s[i] \in T THEN Append(g[i - 1], s[i])
                      ELSE g[i - 1]]

(* There is such a function.                                                *)
LEMMA OfFirstExists ==
  ASSUME NEW s, NEW T, NEW n \in Nat
  PROVE  \E g : OfFirst(g, s, T, n)
<1> DEFINE B == {m \in Nat : \A g : ~OfFirst(g, s, T, m)}
<1>1. SUFFICES ASSUME B # {} PROVE FALSE
  OBVIOUS
<1>2. PICK m \in B : \A k \in B : m <= k
  <2>1. B \subseteq Nat
    OBVIOUS
  <2> HIDE DEF B
  <2> QED
    BY <1>1, <2>1, Least
<1>3. CASE m = 0
  <2>1. OfFirst([i \in 0..0 |-> << >>], s, T, 0)
    BY DEF OfFirst
  <2> QED
    BY <1>2, <1>3, <2>1
<1>4. CASE m # 0
  <2>1. PICK k \in Nat : k = m - 1
    BY <1>4
  <2>2. PICK g : OfFirst(g, s, T, k)
    <3>1. ~(m <= k)
      BY <2>1
    <3>2. k \notin B
      BY <1>2, <3>1
    <3> QED
      BY <2>1, <3>2
  <2> DEFINE h == [i \in 0..m |-> IF i <= k THEN g[i]
                                  ELSE IF s[m] \in T THEN Append(g[k], s[m]) ELSE g[k]]
  <2>3. \A i \in 0..k : g[i] = IF i = 0 THEN << >>
                               ELSE IF s[i] \in T THEN Append(g[i - 1], s[i])
                               ELSE g[i - 1]
    BY <2>2, Zenon DEF OfFirst
  <2>4. ASSUME NEW i \in 0..m
        PROVE  h[i] = IF i = 0 THEN << >>
                      ELSE IF s[i] \in T THEN Append(h[i - 1], s[i])
                      ELSE h[i - 1]
    <3>1. CASE i \in 0..k
      <4>1. i # 0 => i - 1 \in 0..m /\ i - 1 <= k
        BY <2>1, <3>1
      <4>2. i # 0 => h[i - 1] = g[i - 1]
        BY <4>1
      <4>3. h[i] = g[i]
        BY <3>1
      <4> HIDE DEF h
      <4> QED
        BY <2>3, <3>1, <4>2, <4>3
    <3>2. CASE i = m
      <4>1. k \in 0..m /\ i - 1 = k /\ ~(i <= k) /\ i # 0
        BY <2>1, <3>2
      <4>2. h[k] = g[k] /\ h[i] = IF s[m] \in T THEN Append(g[k], s[m]) ELSE g[k]
        BY <4>1
      <4> HIDE DEF h
      <4> QED
        BY <3>2, <4>1, <4>2
    <3> QED
      BY <2>1, <3>1, <3>2
  <2>5. OfFirst(h, s, T, m)
    <3>1. h = [i \in 0..m |-> h[i]]
      OBVIOUS
    <3> HIDE DEF h
    <3> QED
      BY <2>4, <3>1, Zenon DEF OfFirst
  <2> QED
    BY <1>2, <2>5
<1> QED
  BY <1>3, <1>4

(* And it is the one that Kept goes by.                                     *)
LEMMA KeptIs ==
  ASSUME NEW s, NEW T, Len(s) \in Nat
  PROVE  \E g : OfFirst(g, s, T, Len(s)) /\ Kept(s, T) = g[Len(s)]
<1> DEFINE g == CHOOSE f : OfFirst(f, s, T, Len(s))
<1>1. OfFirst(g, s, T, Len(s))
  BY OfFirstExists
<1>2. Kept(s, T) = g[Len(s)]
  BY DEF Kept, OfFirst
<1> QED
  BY <1>1, <1>2

(* What is kept of a beginning depends on nothing behind it.                *)
LEMMA OfFirstSame ==
  ASSUME NEW s, NEW t, NEW T, NEW m \in Nat, NEW n \in Nat, NEW k \in Nat, k <= m, k <= n,
         \A i \in 1..k : s[i] = t[i],
         NEW f, OfFirst(f, s, T, m), NEW g, OfFirst(g, t, T, n)
  PROVE  f[k] = g[k]
<1> DEFINE B == {i \in 0..k : f[i] # g[i]}
<1>1. SUFFICES ASSUME B # {} PROVE FALSE
  OBVIOUS
<1>2. PICK i \in B : \A j \in B : i <= j
  <2>1. B \subseteq Nat
    OBVIOUS
  <2> HIDE DEF B
  <2> QED
    BY <1>1, <2>1, Least
<1>3. /\ i \in 0..m /\ i \in 0..n /\ i \in Int
  OBVIOUS
<1>4. f[i] = IF i = 0 THEN << >> ELSE IF s[i] \in T THEN Append(f[i - 1], s[i]) ELSE f[i - 1]
  BY <1>3, Zenon DEF OfFirst
<1>5. g[i] = IF i = 0 THEN << >> ELSE IF t[i] \in T THEN Append(g[i - 1], t[i]) ELSE g[i - 1]
  BY <1>3, Zenon DEF OfFirst
<1>6. i # 0
  BY <1>2, <1>4, <1>5
<1>7. s[i] = t[i]
  BY <1>6
<1>8. f[i - 1] = g[i - 1]
  <2>1. i - 1 \in 0..k /\ ~(i <= i - 1)
    BY <1>6
  <2> QED
    BY <1>2, <2>1
<1> QED
  BY <1>2, <1>4, <1>5, <1>6, <1>7, <1>8

(* The two equations of Kept.                                               *)
LEMMA KeptOfNone == \A T : Kept(<< >>, T) = << >>
<1> TAKE T
<1>1. Len(<< >>) = 0
  OBVIOUS
<1>2. PICK g : OfFirst(g, << >>, T, 0) /\ Kept(<< >>, T) = g[0]
  BY <1>1, KeptIs
<1>3. g[0] = << >>
  <2>1. 0 \in 0..0
    OBVIOUS
  <2> QED
    BY <1>2, <2>1, Zenon DEF OfFirst
<1> QED
  BY <1>2, <1>3

LEMMA KeptOfMore ==
  ASSUME NEW S, NEW s \in Seq(S), NEW x \in S, NEW T
  PROVE  Kept(Append(s, x), T) = IF x \in T THEN Append(Kept(s, T), x) ELSE Kept(s, T)
<1>1. PICK n \in Nat, m \in Nat : n = Len(s) /\ m = n + 1
  OBVIOUS
<1> DEFINE t == Append(s, x)
<1>2. Len(t) = m /\ t[m] = x /\ \A i \in 1..n : s[i] = t[i]
  BY <1>1
<1> HIDE DEF t
<1>3. PICK f : OfFirst(f, s, T, n) /\ Kept(s, T) = f[n]
  BY <1>1, KeptIs
<1>4. PICK g : OfFirst(g, t, T, m) /\ Kept(t, T) = g[m]
  BY <1>2, KeptIs
<1>5. f[n] = g[n]
  <2>1. n <= n /\ n <= m
    BY <1>1
  <2> QED
    BY <1>2, <1>3, <1>4, <2>1, OfFirstSame
<1>6. g[m] = IF m = 0 THEN << >> ELSE IF t[m] \in T THEN Append(g[m - 1], t[m]) ELSE g[m - 1]
  <2>1. m \in 0..m
    OBVIOUS
  <2> QED
    BY <1>4, <2>1, Zenon DEF OfFirst
<1>7. m # 0 /\ m - 1 = n
  BY <1>1
<1> QED
  BY <1>1, <1>2, <1>3, <1>4, <1>5, <1>6, <1>7 DEF t

(* Of sequences for which something does not hold, one is the shortest: it  *)
(* is empty, or it holds for what comes before its last element.            *)
LEMMA Shortest ==
  ASSUME NEW S, NEW B, B \subseteq Seq(S), B # {}, << >> \notin B
  PROVE  \E s \in Seq(S), x \in S : s \notin B /\ Append(s, x) \in B
<1> DEFINE N == {Len(s) : s \in B}
<1>1. PICK n \in N : \A k \in N : n <= k
  <2>1. N \subseteq Nat /\ N # {}
    <3>1. \A s \in B : Len(s) \in Nat
      OBVIOUS
    <3>2. N \subseteq Nat
      BY <3>1
    <3>3. N # {}
      OBVIOUS
    <3> QED
      BY <3>2, <3>3
  <2> HIDE DEF N
  <2> QED
    BY <2>1, Least
<1>2. PICK t \in B : n = Len(t)
  OBVIOUS
<1>3. t \in Seq(S) /\ t # << >>
  OBVIOUS
<1>4. PICK s \in Seq(S), x \in S : t = Append(s, x)
  BY <1>3, SequenceEmptyOrAppend
<1>5. Len(t) = Len(s) + 1 /\ Len(s) \in Nat
  BY <1>4
<1>6. s \notin B
  BY <1>1, <1>2, <1>5
<1> QED
  BY <1>4, <1>6

(* Kept keeps the type.                                                     *)
LEMMA KeptType ==
  ASSUME NEW S, NEW s \in Seq(S), NEW T
  PROVE  Kept(s, T) \in Seq(S)
<1> DEFINE B == {t \in Seq(S) : Kept(t, T) \notin Seq(S)}
<1>1. SUFFICES ASSUME B # {} PROVE FALSE
  OBVIOUS
<1>2. << >> \notin B
  BY KeptOfNone
<1>3. PICK t \in Seq(S), x \in S : t \notin B /\ Append(t, x) \in B
  <2>1. B \subseteq Seq(S)
    OBVIOUS
  <2> HIDE DEF B
  <2> QED
    BY <1>1, <1>2, <2>1, Shortest
<1>4. Kept(t, T) \in Seq(S) /\ Kept(Append(t, x), T) \notin Seq(S)
  BY <1>3
<1> HIDE DEF B
<1>5. Kept(Append(t, x), T) = IF x \in T THEN Append(Kept(t, T), x) ELSE Kept(t, T)
  BY KeptOfMore
<1> QED
  BY <1>4, <1>5

(* What is kept of what is kept.                                            *)
LEMMA KeptOfKept ==
  ASSUME NEW S, NEW s \in Seq(S), NEW U, NEW T, T \subseteq U
  PROVE  Kept(Kept(s, U), T) = Kept(s, T)
<1> DEFINE B == {t \in Seq(S) : Kept(Kept(t, U), T) # Kept(t, T)}
<1>1. SUFFICES ASSUME B # {} PROVE FALSE
  OBVIOUS
<1>2. << >> \notin B
  BY KeptOfNone
<1>3. PICK t \in Seq(S), x \in S : t \notin B /\ Append(t, x) \in B
  <2>1. B \subseteq Seq(S)
    OBVIOUS
  <2> HIDE DEF B
  <2> QED
    BY <1>1, <1>2, <2>1, Shortest
<1>4. PICK k : k = Kept(t, U) /\ k \in Seq(S)
  BY KeptType
<1>5. /\ Kept(k, T) = Kept(t, T)
      /\ Kept(Kept(Append(t, x), U), T) # Kept(Append(t, x), T)
  BY <1>3, <1>4
<1>6. Kept(Append(k, x), T) = IF x \in T THEN Append(Kept(k, T), x) ELSE Kept(k, T)
  BY <1>4, KeptOfMore
<1> HIDE DEF B
<1>7. /\ Kept(Append(t, x), U) = IF x \in U THEN Append(k, x) ELSE k
      /\ Kept(Append(t, x), T) = IF x \in T THEN Append(Kept(t, T), x) ELSE Kept(t, T)
  BY <1>4, KeptOfMore
<1> QED
  BY <1>5, <1>6, <1>7

(* What is not kept may be anything.                                        *)
LEMMA KeptOfOther ==
  ASSUME NEW S, NEW s \in Seq(S), NEW t \in Seq(S), NEW T, NEW U, Len(s) = Len(t),
         \A i \in 1..Len(s) : IF s[i] \in T THEN t[i] = s[i] /\ t[i] \in U ELSE t[i] \notin U
  PROVE  Kept(s, T) = Kept(t, U)
<1> DEFINE same(a, b) ==
             /\ Len(a) = Len(b)
             /\ \A i \in 1..Len(a) : IF a[i] \in T THEN b[i] = a[i]
                  /\ b[i] \in U ELSE b[i] \notin U
           B == {a \in Seq(S) : \E b \in Seq(S) : same(a, b) /\ Kept(a, T) # Kept(b, U)}
<1>1. SUFFICES ASSUME B # {} PROVE FALSE
  OBVIOUS
<1>2. << >> \notin B
  <2>1. \A b \in Seq(S) : Len(<< >>) = Len(b) => b = << >>
    BY EmptySeq
  <2> QED
    BY <2>1, KeptOfNone
<1>3. PICK a \in Seq(S), x \in S : a \notin B /\ Append(a, x) \in B
  <2>1. B \subseteq Seq(S)
    OBVIOUS
  <2> HIDE DEF B
  <2> QED
    BY <1>1, <1>2, <2>1, Shortest
<1>4. PICK c \in Seq(S) : same(Append(a, x), c) /\ Kept(Append(a, x), T) # Kept(c, U)
  BY <1>3
<1>5. PICK n \in Nat, m \in Nat : n = Len(a) /\ m = n + 1
  OBVIOUS
<1>6. Len(Append(a, x)) = m /\ Append(a, x)[m] = x /\ \A i \in 1..n : Append(a, x)[i] = a[i]
  BY <1>5
<1>7. Len(c) = m /\ c # << >>
  <2>1. Len(c) = m
    BY <1>4, <1>6
  <2>2. Len(<< >>) = 0 /\ m # 0
    BY <1>5
  <2> QED
    BY <2>1, <2>2
<1>8. PICK b \in Seq(S), y \in S : c = Append(b, y)
  BY <1>7, SequenceEmptyOrAppend
<1>9. Len(b) = n /\ c[m] = y /\ \A i \in 1..n : c[i] = b[i]
  BY <1>5, <1>7, <1>8
<1>10. /\ \A i \in 1..n : IF a[i] \in T THEN b[i] = a[i] /\ b[i] \in U ELSE b[i] \notin U
       /\ IF x \in T THEN y = x /\ y \in U ELSE y \notin U
  <2>1. \A i \in 1..m : IF Append(a, x)[i] \in T THEN c[i] = Append(a, x)[i] /\ c[i] \in U
                                                 ELSE c[i] \notin U
    BY <1>4, <1>6
  <2>2. m \in 1..m /\ \A i \in 1..n : i \in 1..m
    BY <1>5
  <2> QED
    BY <1>6, <1>9, <2>1, <2>2
<1>11. Kept(a, T) = Kept(b, U)
  <2>1. same(a, b)
    BY <1>5, <1>9, <1>10
  <2> QED
    BY <1>3, <2>1
<1> HIDE DEF B, same
<1>12. Kept(c, U) = IF y \in U THEN Append(Kept(b, U), y) ELSE Kept(b, U)
  BY <1>8, KeptOfMore
<1>13. Kept(Append(a, x), T) = IF x \in T THEN Append(Kept(a, T), x) ELSE Kept(a, T)
  BY KeptOfMore
<1> QED
  BY <1>4, <1>10, <1>11, <1>12, <1>13

(* Nothing is kept of a sequence that has none of the set.                  *)
LEMMA NothingKept ==
  ASSUME NEW S, NEW s \in Seq(S), NEW T, \A i \in 1..Len(s) : s[i] \notin T
  PROVE  Kept(s, T) = << >>
<1> DEFINE none(a) == \A i \in 1..Len(a) : a[i] \notin T
           B == {a \in Seq(S) : none(a) /\ Kept(a, T) # << >>}
<1>1. SUFFICES ASSUME B # {} PROVE FALSE
  OBVIOUS
<1>2. << >> \notin B
  BY KeptOfNone
<1>3. PICK a \in Seq(S), x \in S : a \notin B /\ Append(a, x) \in B
  <2>1. B \subseteq Seq(S)
    OBVIOUS
  <2> HIDE DEF B
  <2> QED
    BY <1>1, <1>2, <2>1, Shortest
<1>4. none(Append(a, x)) /\ Kept(Append(a, x), T) # << >>
  BY <1>3
<1>5. x \notin T /\ none(a)
  BY <1>4, AppendProperties
<1>6. Kept(a, T) = << >>
  BY <1>3, <1>5
<1> QED
  BY <1>4, <1>5, <1>6, KeptOfMore

(* A sequence whose members of T come last is what is kept of the others,   *)
(* followed by what is kept of T.                                           *)
LEMMA KeptApart ==
  ASSUME NEW S, NEW s \in Seq(S), NEW T, NEW U, T \cap U = {}, S \subseteq T \cup U,
         \A i, j \in 1..Len(s) : i < j /\ s[i] \in T => s[j] \in T
  PROVE  Kept(s, U) \o Kept(s, T) = s
<1> DEFINE apart(a) == \A i, j \in 1..Len(a) : i < j /\ a[i] \in T => a[j] \in T
           B == {a \in Seq(S) : apart(a) /\ Kept(a, U) \o Kept(a, T) # a}
<1>1. SUFFICES ASSUME B # {} PROVE FALSE
  OBVIOUS
<1>2. << >> \notin B
  BY KeptOfNone
<1>3. PICK a \in Seq(S), x \in S : a \notin B /\ Append(a, x) \in B
  <2>1. B \subseteq Seq(S)
    OBVIOUS
  <2> HIDE DEF B
  <2> QED
    BY <1>1, <1>2, <2>1, Shortest
<1>4. apart(Append(a, x)) /\ Kept(Append(a, x), U) \o Kept(Append(a, x), T) # Append(a, x)
  BY <1>3
<1>5. apart(a) /\ \A i \in 1..Len(a) : a[i] \in T => x \in T
  <2>1. PICK n \in Nat, m \in Nat : n = Len(a) /\ m = n + 1
    OBVIOUS
  <2> DEFINE b == Append(a, x)
  <2>2. Len(b) = m /\ b[m] = x /\ \A i \in 1..n : b[i] = a[i]
    BY <2>1
  <2>3. \A i, j \in 1..m : i < j /\ b[i] \in T => b[j] \in T
    BY <1>4, <2>1, <2>2
  <2>4. m \in 1..m /\ \A i \in 1..n : i \in 1..m /\ i < m
    BY <2>1
  <2> HIDE DEF B
  <2> QED
    BY <2>1, <2>2, <2>3, <2>4
<1>6. Kept(a, U) \o Kept(a, T) = a
  BY <1>3, <1>5
<1> HIDE DEF B
<1>7. Kept(a, U) \in Seq(S) /\ Kept(a, T) \in Seq(S)
  BY KeptType
<1>8. CASE x \in T
  <2>1. x \notin U
    BY <1>8
  <2>2. Kept(Append(a, x), U) = Kept(a, U) /\ Kept(Append(a, x), T) = Append(Kept(a, T), x)
    BY <1>8, <2>1, KeptOfMore
  <2>3. Kept(a, U) \o Append(Kept(a, T), x) = Append(Kept(a, U) \o Kept(a, T), x)
    BY <1>7
  <2> QED
    BY <1>4, <1>6, <2>2, <2>3
<1>9. CASE x \notin T
  <2>1. x \in U
    BY <1>9
  <2>2. Kept(Append(a, x), U) = Append(Kept(a, U), x) /\ Kept(Append(a, x), T) = Kept(a, T)
    BY <1>9, <2>1, KeptOfMore
  <2>3. Kept(a, T) = << >>
    <3>1. \A i \in 1..Len(a) : a[i] \notin T
      BY <1>5, <1>9
    <3> QED
      BY <3>1, NothingKept
  <2>4. Append(Kept(a, U), x) \in Seq(S) /\ Kept(a, U) = a
    BY <1>6, <1>7, <2>3, AppendProperties, ConcatEmptySeq
  <2>5. Append(a, x) \o << >> = Append(a, x)
    BY AppendProperties, ConcatEmptySeq
  <2> QED
    BY <1>4, <2>2, <2>3, <2>4, <2>5
<1> QED
  BY <1>8, <1>9

-----------------------------------------------------------------------------
(* What is stored of an event, and what is made of it.                      *)

(* An attribute that processEvent goes by.                                  *)
IsConsidered(a) == a.key \notin {"mode", "msg_index"} /\ a.value # ""

(* An event that has been stored and read has its type, and the attributes  *)
(* that are considered, in their order, whatever became of its mode.        *)
LEMMA EventAsFetched ==
  ASSUME NEW e \in Events, NEW mode,
         NEW r, r = TendermintToCometEvent(CometToTendermintEvent(e), mode)
  PROVE  r.type = e.type /\ Considered(r) = Considered(e)
<1> DEFINE s == e.attributes
           c == [i \in DOMAIN s |-> IF s[i].key = "mode" THEN NilAttribute ELSE s[i]]
           k == Kept(c, Range(c) \ {NilAttribute})
           m == [key |-> "mode", value |-> mode]
           d == k \o IF mode = "" THEN << >> ELSE <<m>>
           S == Range(s) \cup {NilAttribute, m}
           T == {a \in S : IsConsidered(a)}
<1>1. s \in Seq(Attributes) /\ e = [type |-> e.type, attributes |-> s]
  BY DEF Events
<1>2. PICK n \in Nat : n = Len(s) /\ DOMAIN s = 1..n
  BY <1>1
<1>3. r = [type |-> e.type, attributes |-> d]
  <2>1. CometToTendermintEvent(e) = [type |-> e.type, attributes |-> c]
    BY <1>1 DEF CometToTendermintEvent
  <2> DEFINE f == CometToTendermintEvent(e)
  <2>2. f.type = e.type /\ f.attributes = c /\ DOMAIN f = {"type", "attributes"}
    <3> HIDE DEF c
    <3> QED
      BY <2>1
  <2>3. r = [f EXCEPT !.attributes = Kept(@, Range(@) \ {NilAttribute})
                                       \o IF mode = "" THEN << >> ELSE <<m>>]
    BY Zenon DEF TendermintToCometEvent
  <2> HIDE DEF c, f, m
  <2>4. r = [f EXCEPT !.attributes = d]
    BY <2>2, <2>3
  <2> HIDE DEF d
  <2>5. f = [type |-> e.type, attributes |-> c]
    BY <2>1 DEF f
  <2> QED
    BY <2>4, <2>5
<1>4. /\ s \in Seq(S) /\ \A i \in 1..n : s[i] \in S
      /\ c \in Seq(S) /\ Len(c) = n
      /\ \A i \in 1..n : c[i] = IF s[i].key = "mode" THEN NilAttribute ELSE s[i]
  <2>1. \A i \in 1..n : s[i] \in S
    BY <1>2 DEF Range
  <2>2. \A i \in 1..n : c[i] = IF s[i].key = "mode" THEN NilAttribute ELSE s[i]
    BY <1>2
  <2>3. \A i \in 1..n : c[i] \in S
    BY <2>1, <2>2
  <2>4. s \in [1..n -> S] /\ c \in [1..n -> S]
    <3>1. DOMAIN c = 1..n /\ c = [i \in DOMAIN c |-> c[i]] /\ s = [i \in 1..n |-> s[i]]
      BY <1>1, <1>2
    <3> QED
      BY <2>1, <2>3, <3>1, Zenon
  <2> HIDE DEF s, c, S
  <2> QED
    BY <2>1, <2>2, <2>4
<1>5. /\ m \in S /\ NilAttribute \in S
      /\ ~IsConsidered(m) /\ ~IsConsidered(NilAttribute)
      /\ \A a : a.key = "mode" => ~IsConsidered(a)
  BY DEF IsConsidered, NilAttribute
<1>6. Considered(r) = Kept(d, {a \in Range(d) : IsConsidered(a)})
  <2> HIDE DEF d, c
  <2>1. r.attributes = d
    BY <1>3
  <2> QED
    BY <2>1 DEF Considered, IsConsidered
<1>7. Considered(e) = Kept(s, {a \in Range(s) : IsConsidered(a)})
  BY DEF Considered, IsConsidered
<1> HIDE DEF S, m, c, s, d
<1>8. ASSUME NEW t \in Seq(S)
      PROVE  /\ Kept(t, {a \in Range(t) : IsConsidered(a)}) = Kept(t, T)
             /\ Kept(t, Range(t) \ {NilAttribute}) = Kept(t, S \ {NilAttribute})
  <2>1. DOMAIN t = 1..Len(t) /\ Len(t) \in Nat /\ \A i \in 1..Len(t) : t[i] \in S
    BY <1>8
  <2>2. \A i \in 1..Len(t) : t[i] \in Range(t)
    BY <2>1 DEF Range
  <2>3. \A i \in 1..Len(t) : IF t[i] \in {a \in Range(t) : IsConsidered(a)}
                             THEN t[i] = t[i] /\ t[i] \in T ELSE t[i] \notin T
    BY <2>1, <2>2
  <2>4. \A i \in 1..Len(t) : IF t[i] \in Range(t) \ {NilAttribute}
                             THEN t[i] = t[i] /\ t[i] \in S \ {NilAttribute}
                             ELSE t[i] \notin S \ {NilAttribute}
    BY <2>1, <2>2
  <2> HIDE DEF T
  <2>5. Kept(t, {a \in Range(t) : IsConsidered(a)}) = Kept(t, T)
    BY <1>8, <2>3, KeptOfOther
  <2>6. Kept(t, Range(t) \ {NilAttribute}) = Kept(t, S \ {NilAttribute})
    BY <1>8, <2>4, KeptOfOther
  <2> QED
    BY <2>5, <2>6
<1>9. k = Kept(c, S \ {NilAttribute}) /\ k \in Seq(S)
  BY <1>4, <1>8, KeptType
<1>10. T \subseteq S \ {NilAttribute} /\ m \notin T
  BY <1>5
<1> HIDE DEF k
<1>11. d \in Seq(S) /\ Kept(d, T) = Kept(k, T)
  <2>1. CASE mode = ""
    BY <1>9, <2>1, ConcatEmptySeq DEF d
  <2>2. CASE mode # ""
    <3>1. d = Append(k, m)
      BY <1>5, <1>9, <2>2, AppendIsConcat DEF d
    <3> HIDE DEF T
    <3>2. Kept(Append(k, m), T) = Kept(k, T)
      BY <1>5, <1>9, <1>10, KeptOfMore
    <3>3. Append(k, m) \in Seq(S)
      BY <1>5, <1>9
    <3> QED
      BY <3>1, <3>2, <3>3
  <2> QED
    BY <2>1, <2>2
<1>12. Kept(k, T) = Kept(c, T)
  <2> HIDE DEF T
  <2> QED
    BY <1>4, <1>9, <1>10, KeptOfKept
<1>13. Kept(s, T) = Kept(c, T)
  <2>1. \A i \in 1..n : IF s[i] \in T THEN c[i] = s[i] /\ c[i] \in T ELSE c[i] \notin T
    <3> TAKE i \in 1..n
    <3>1. CASE s[i].key = "mode"
      BY <1>4, <1>5, <3>1
    <3>2. CASE s[i].key # "mode"
      BY <1>4, <3>2
    <3> QED
      BY <3>1, <3>2
  <2> HIDE DEF T
  <2> QED
    BY <1>2, <1>4, <2>1, KeptOfOther
<1>14. Considered(r) = Kept(d, T) /\ Considered(e) = Kept(s, T)
  BY <1>4, <1>6, <1>7, <1>8, <1>11
<1> QED
  BY <1>3, <1>11, <1>12, <1>13, <1>14

(* What becomes of an event that is stored, and read back in a mode.       *)
ReadEvent(e, mode) == TendermintToCometEvent(CometToTendermintEvent(e), mode)

(* It is recorded as it was: in a list of events ...                        *)
LEMMA RecordedEvents ==
  ASSUME NEW s \in Seq(Events), NEW mode,
         NEW t, t = [i \in 1..Len(s) |-> ReadEvent(s[i], mode)]
  PROVE  Recorded(t) = Recorded(s)
<1>1. PICK n \in Nat : n = Len(s) /\ DOMAIN s = 1..n /\ \A i \in 1..n : s[i] \in Events
  OBVIOUS
<1>2. DOMAIN t = 1..n
  BY <1>1
<1>3. \A i \in 1..n : t[i].type = s[i].type /\ Considered(t[i]) = Considered(s[i])
  <2> TAKE i \in 1..n
  <2>1. t[i] = TendermintToCometEvent(CometToTendermintEvent(s[i]), mode)
    BY <1>1 DEF ReadEvent
  <2> QED
    BY <1>1, <2>1, EventAsFetched
<1> QED
  BY <1>1, <1>2, <1>3 DEF Recorded

(* ... and in two lists, one after the other.                               *)
LEMMA RecordedBoth ==
  ASSUME NEW R, NEW S, NEW s \in Seq(S), NEW t \in Seq(S), NEW u \in Seq(R), NEW v \in Seq(R),
         Recorded(s) = Recorded(u), Recorded(t) = Recorded(v)
  PROVE  Recorded(s \o t) = Recorded(u \o v)
<1>1. PICK n \in Nat, m \in Nat : n = Len(s) /\ m = Len(t)
  OBVIOUS
<1>2. DOMAIN s = 1..n /\ DOMAIN t = 1..m /\ DOMAIN u = 1..Len(u) /\ DOMAIN v = 1..Len(v)
  BY <1>1
<1>3. DOMAIN u = DOMAIN s /\ DOMAIN v = DOMAIN t
  <2>1. /\ DOMAIN Recorded(s) = DOMAIN s /\ DOMAIN Recorded(t) = DOMAIN t
        /\ DOMAIN Recorded(u) = DOMAIN u /\ DOMAIN Recorded(v) = DOMAIN v
    BY Zenon DEF Recorded
  <2> QED
    BY <2>1
<1>4. Len(u) = n /\ Len(v) = m
  <2>1. Len(u) \in Nat /\ Len(v) \in Nat
    OBVIOUS
  <2>2. 1..Len(u) = 1..n /\ 1..Len(v) = 1..m
    BY <1>2, <1>3
  <2> QED
    BY <1>1, <2>1, <2>2
<1>5. DOMAIN (s \o t) = 1..(n + m) /\ DOMAIN (u \o v) = 1..(n + m)
  <2>1. s \o t \in Seq(S) /\ Len(s \o t) = n + m
    BY <1>1, ConcatProperties
  <2>2. u \o v \in Seq(R) /\ Len(u \o v) = n + m
    BY <1>4, ConcatProperties
  <2> QED
    BY <2>1, <2>2, LenProperties
<1>6. ASSUME NEW i \in 1..(n + m)
      PROVE  /\ (s \o t)[i].type = (u \o v)[i].type
             /\ Considered((s \o t)[i]) = Considered((u \o v)[i])
  <2>1. CASE i <= n
    <3>1. (s \o t)[i] = s[i] /\ (u \o v)[i] = u[i] /\ i \in DOMAIN s
      BY <1>1, <1>2, <1>4, <2>1
    <3>2. Recorded(s)[i] = [type |-> s[i].type, attrs |-> Considered(s[i])]
      BY <3>1, Zenon DEF Recorded
    <3>3. Recorded(u)[i] = [type |-> u[i].type, attrs |-> Considered(u[i])]
      BY <1>3, <3>1, Zenon DEF Recorded
    <3> QED
      BY <3>1, <3>2, <3>3
  <2>2. CASE ~(i <= n)
    <3>1. PICK j \in 1..m : j = i - n
      BY <2>2
    <3>2. (s \o t)[i] = t[j] /\ (u \o v)[i] = v[j] /\ j \in DOMAIN t
      BY <1>1, <1>2, <1>4, <2>2, <3>1
    <3>3. Recorded(t)[j] = [type |-> t[j].type, attrs |-> Considered(t[j])]
      BY <3>2, Zenon DEF Recorded
    <3>4. Recorded(v)[j] = [type |-> v[j].type, attrs |-> Considered(v[j])]
      BY <1>3, <3>2, Zenon DEF Recorded
    <3> QED
      BY <3>2, <3>3, <3>4
  <2> QED
    BY <2>1, <2>2
<1> QED
  BY <1>5, <1>6 DEF Recorded

(* What is read of the events of a block, those of its beginning before     *)
(* those of its end, are its events in their order.                         *)
LEMMA BlockEventsAsFetched ==
  ASSUME NEW h \in 1..MaxHeight
  PROVE  Recorded(StoredToBlock(Line(h, TRUE)).FinalizeBlockEvents)
           = Recorded(Blocks[h].FinalizeBlockEvents)
<1> DEFINE s == Blocks[h].FinalizeBlockEvents
           begin == {e \in Range(s) : StoredMode(e) = "BeginBlock"}
           end == {e \in Range(s) : StoredMode(e) = "EndBlock"}
           b == Kept(s, begin)
           c == Kept(s, end)
           rb == [i \in 1..Len(b) |-> ReadEvent(b[i], "BeginBlock")]
           rc == [i \in 1..Len(c) |-> ReadEvent(c[i], "EndBlock")]
<1>1. s \in Seq(Events) /\ NodeOrder(Blocks[h])
  BY StoreAssumption DEF ChainBlock
<1>2. b \in Seq(Events) /\ c \in Seq(Events)
  BY <1>1, KeptType
<1>3. StoredToBlock(Line(h, TRUE)).FinalizeBlockEvents = rb \o rc
  <2>1. /\ Line(h, TRUE).begin = Each(CometToTendermintEvent, b)
        /\ Line(h, TRUE).end = Each(CometToTendermintEvent, c)
    BY DEF Line, BlockToStored, StoredEvents
  <2>2. DOMAIN b = 1..Len(b) /\ DOMAIN c = 1..Len(c)
    BY <1>2
  <2> HIDE DEF b, c
  <2>3. /\ Each(LAMBDA e : TendermintToCometEvent(e, "BeginBlock"), Line(h, TRUE).begin) = rb
        /\ Each(LAMBDA e : TendermintToCometEvent(e, "EndBlock"), Line(h, TRUE).end) = rc
    BY <2>1, <2>2 DEF Each, ReadEvent
  <2> QED
    BY <2>3 DEF StoredToBlock
<1>4. b \o c = s
  <2>1. begin \cap end = {} /\ Range(s) \subseteq begin \cup end /\ s \in Seq(Range(s))
    BY <1>1 DEF StoredMode, Range
  <2>2. \A i, j \in 1..Len(s) : i < j /\ s[i] \in end => s[j] \in end
    <3>1. DOMAIN s = 1..Len(s) /\ \A i \in 1..Len(s) : s[i] \in Range(s)
      BY <1>1 DEF Range
    <3>2. \A i \in 1..Len(s) : s[i] \in end <=> EventMode(s[i]) = "EndBlock"
      BY <3>1 DEF StoredMode
    <3>3. \A i, j \in DOMAIN s :
            i < j /\ EventMode(s[i]) = "EndBlock" => EventMode(s[j]) = "EndBlock"
      BY <1>1 DEF NodeOrder
    <3> QED
      BY <3>1, <3>2, <3>3
  <2> HIDE DEF s, begin, end
  <2> QED
    BY <1>1, <2>1, <2>2, KeptApart
<1> HIDE DEF s, b, c
<1>5. Recorded(rb) = Recorded(b) /\ Recorded(rc) = Recorded(c)
  <2>1. \A mode, t : t = [i \in 1..Len(b) |-> ReadEvent(b[i], mode)] => Recorded(t) = Recorded(b)
    BY <1>2, RecordedEvents
  <2>2. \A mode, t : t = [i \in 1..Len(c) |-> ReadEvent(c[i], mode)] => Recorded(t) = Recorded(c)
    BY <1>2, RecordedEvents
  <2> QED
    BY <2>1, <2>2
<1>6. \E R : rb \in Seq(R) /\ rc \in Seq(R)
  <2> DEFINE R == {ReadEvent(b[i], "BeginBlock") : i \in 1..Len(b)}
                    \cup {ReadEvent(c[i], "EndBlock") : i \in 1..Len(c)}
  <2>1. Len(b) \in Nat /\ Len(c) \in Nat
    BY <1>2
  <2>2. rb \in [1..Len(b) -> R] /\ rc \in [1..Len(c) -> R]
    OBVIOUS
  <2> HIDE DEF rb, rc, R
  <2>3. rb \in Seq(R) /\ rc \in Seq(R)
    BY <2>1, <2>2
  <2> QED
    BY <2>3
<1> HIDE DEF rb, rc
<1>7. PICK R : rb \in Seq(R) /\ rc \in Seq(R)
  BY <1>6
<1>8. Recorded(rb \o rc) = Recorded(b \o c)
  BY <1>2, <1>5, <1>7, RecordedBoth
<1> QED
  BY <1>3, <1>4, <1>8 DEF s

-----------------------------------------------------------------------------
(* The constants, and groups of variables, expanded everywhere below.      *)
USE Constants
USE DEF dirVars, fileVars, jobVars, DirectoryOK, ToolOK, FileOK, JobOK

-----------------------------------------------------------------------------
(* Chunks.                                                                  *)

(* The product with n leaves nothing. *)
LEMMA ProductMod ==
  ASSUME NEW q \in Nat, NEW n \in Nat \ {0}
  PROVE  (n * q) % n = 0
OBVIOUS

(* What is taken off a number leaves a multiple of n. *)
LEMMA RoundedDown ==
  ASSUME NEW x \in Nat, NEW n \in Nat \ {0}
  PROVE  x - (x % n) \in 0..x /\ (x - (x % n)) % n = 0
<1>1. x - (x % n) = n * (x \div n) /\ x \div n \in Nat
  OBVIOUS
<1>2. x % n \in 0..x
  OBVIOUS
<1> QED
  BY <1>1, <1>2, ProductMod

(* A store without chunks begins at the end of one, or at nothing. *)
LEMMA StoreBaseEndsChunk == StoreBase \in 0..MaxHeight /\ StoreBase \in {0} \cup ChunkNames
<1>1. GenesisHeight \in Nat
  OBVIOUS
<1>2. StoreBase \in 0..GenesisHeight /\ StoreBase % BlocksPerChunk = 0
  BY <1>1, RoundedDown DEF StoreBase
<1> QED
  BY <1>2 DEF ChunkNames, EndsChunk

(* The last of some chunks, or where a store without chunks begins. *)
LEMMA LastOf ==
  ASSUME NEW D \in SUBSET ChunkNames, NEW l, l = IF D = {} THEN StoreBase ELSE Max(D)
  PROVE  /\ l \in 0..MaxHeight /\ l \in {0} \cup ChunkNames
         /\ \A n \in D : n <= l
         /\ D = {} => l = StoreBase
         /\ D # {} => l \in D
<1>1. CASE D = {}
  BY <1>1, StoreBaseEndsChunk
<1>2. CASE D # {}
  <2>1. D \subseteq Nat /\ \A x \in D : x <= MaxHeight
    BY DEF ChunkNames
  <2>2. l \in D /\ \A x \in D : x <= l
    BY <1>2, <2>1, MaxOf
  <2> QED
    BY <1>2, <2>1, <2>2
<1> QED
  BY <1>1, <1>2

(* A chunk begins after the one before it, and no other ends within. *)
LEMMA FirstOfChunk ==
  ASSUME NEW n \in ChunkNames
  PROVE  /\ FirstIn(n) \in 1..n
         /\ FirstIn(n) - 1 \in {0} \cup ChunkNames
         /\ NothingEnds(FirstIn(n), n - 1)
<1> DEFINE S == {0} \cup {m \in ChunkNames : m < n}
<1>1. S \subseteq Nat /\ S # {} /\ n \in 1..MaxHeight /\ \A x \in S : x < n /\ x <= n
  BY DEF ChunkNames
<1>2. Max(S) \in S /\ \A x \in S : x <= Max(S)
  <2>1. n \in Nat
    BY <1>1
  <2> HIDE DEF S
  <2> QED
    BY <1>1, <2>1, MaxOf
<1>3. FirstIn(n) = 1 + Max(S)
  BY DEF FirstIn
<1>4. NothingEnds(FirstIn(n), n - 1)
  <2> SUFFICES ASSUME NEW h \in FirstIn(n)..(n - 1), EndsChunk(h) PROVE FALSE
    BY DEF NothingEnds
  <2>1. h \in S
    BY <1>1, <1>2, <1>3 DEF ChunkNames
  <2> QED
    BY <1>1, <1>2, <1>3, <2>1
<1> QED
  BY <1>1, <1>2, <1>3, <1>4

(* There is only one such height. *)
LEMMA OnlyFirst ==
  ASSUME NEW n \in ChunkNames, NEW f \in 1..n, f - 1 \in {0} \cup ChunkNames,
         NothingEnds(f, n - 1)
  PROVE  f = FirstIn(n)
<1>1. /\ FirstIn(n) \in 1..n /\ FirstIn(n) - 1 \in {0} \cup ChunkNames
      /\ NothingEnds(FirstIn(n), n - 1) /\ n \in Nat
  BY FirstOfChunk DEF ChunkNames
<1>2. ~(f < FirstIn(n))
  <2> SUFFICES ASSUME f < FirstIn(n) PROVE FALSE
    OBVIOUS
  <2>1. FirstIn(n) - 1 \in f..(n - 1) /\ FirstIn(n) - 1 \in ChunkNames
    BY <1>1
  <2> QED
    BY <2>1 DEF NothingEnds, ChunkNames
<1>3. ~(FirstIn(n) < f)
  <2> SUFFICES ASSUME FirstIn(n) < f PROVE FALSE
    OBVIOUS
  <2>1. f - 1 \in FirstIn(n)..(n - 1) /\ f - 1 \in ChunkNames
    BY <1>1
  <2> QED
    BY <1>1, <2>1 DEF NothingEnds, ChunkNames
<1> QED
  BY <1>1, <1>2, <1>3

-----------------------------------------------------------------------------
(* Lines.                                                                   *)

(* A line has its height, and an old one no PureBlock. *)
LEMMA LineOfHeight ==
  ASSUME NEW h
  PROVE  /\ \A p \in BOOLEAN : Line(h, p).height = h
         /\ Line(h, FALSE).PureBlock = NoPureBlock
         /\ Line(h, TRUE) = BlockToStored(h, Blocks[h])
BY DEF Line, BlockToStored

(* The lines of some heights. *)
LEMMA LinesOfHeights ==
  ASSUME NEW first \in Nat \ {0}, NEW last \in 0..MaxHeight, NEW p \in BOOLEAN,
         first <= last + 1
  PROVE  LET s == Lines(first, last, p)
         IN  /\ s \in Seq(StoredLines) /\ Len(s) + first = last + 1 /\ DOMAIN s = 1..Len(s)
             /\ \A i \in DOMAIN s : s[i] = Line(first + i - 1, p)
<1>0. PICK n \in Nat : n = last + 1 - first
  OBVIOUS
<1>1. \A i \in 1..n : Line(first + i - 1, p) \in StoredLines
  <2> TAKE i \in 1..n
  <2>1. first + i - 1 \in 1..MaxHeight
    BY <1>0
  <2> QED
    BY <2>1 DEF StoredLines
<1> DEFINE s == [i \in 1..n |-> Line(first + i - 1, p)]
<1>2. s \in [1..n -> StoredLines]
  BY <1>1
<1>3. \A i \in 1..n : s[i] = Line(first + i - 1, p)
  OBVIOUS
<1>4. Lines(first, last, p) = s
  BY <1>0 DEF Lines
<1> HIDE DEF s
<1>5. s \in Seq(StoredLines) /\ Len(s) = n /\ DOMAIN s = 1..n
  BY <1>2
<1>6. n + first = last + 1
  BY <1>0
<1> QED
  BY <1>3, <1>4, <1>5, <1>6

(* A line is put after the others. *)
LEMMA LinesAppended ==
  ASSUME NEW first \in Nat \ {0}, NEW last \in 0..MaxHeight, first <= last + 1,
         NEW next \in 1..MaxHeight, next = last + 1, NEW p \in BOOLEAN
  PROVE  Append(Lines(first, last, p), Line(next, p)) = Lines(first, next, p)
<1> DEFINE s == Lines(first, last, p)
           t == Lines(first, next, p)
           r == Append(s, Line(next, p))
<1>1. /\ s \in Seq(StoredLines) /\ Len(s) + first = last + 1 /\ DOMAIN s = 1..Len(s)
      /\ \A i \in DOMAIN s : s[i] = Line(first + i - 1, p)
  BY LinesOfHeights
<1>2. /\ t \in Seq(StoredLines) /\ Len(t) + first = next + 1 /\ DOMAIN t = 1..Len(t)
      /\ \A i \in DOMAIN t : t[i] = Line(first + i - 1, p)
  <2>1. next \in 0..MaxHeight /\ first <= next + 1
    OBVIOUS
  <2> QED
    BY <2>1, LinesOfHeights
<1>3. Line(next, p) \in StoredLines
  BY DEF StoredLines
<1> HIDE DEF s, t
<1>4. Len(t) = Len(s) + 1 /\ Len(s) \in Nat /\ first + Len(t) - 1 = next
  <2>1. Len(s) \in Nat /\ Len(t) \in Nat
    BY <1>1, <1>2
  <2>2. Len(s) + first = last + 1 /\ Len(t) + first = next + 1
    BY <1>1, <1>2
  <2> QED
    BY <2>1, <2>2
<1>5. t[Len(t)] = Line(next, p)
  <2>1. Len(t) \in DOMAIN t
    BY <1>2, <1>4
  <2> QED
    BY <1>2, <1>4, <2>1
<1>6. /\ r \in Seq(StoredLines) /\ Len(r) = Len(t) /\ r[Len(t)] = Line(next, p)
      /\ \A i \in 1..Len(s) : r[i] = s[i]
  BY <1>1, <1>3, <1>4
<1> HIDE DEF r
<1>7. \A i \in 1..Len(t) : r[i] = t[i]
  <2> TAKE i \in 1..Len(t)
  <2>1. CASE i = Len(t)
    BY <1>5, <1>6, <2>1
  <2>2. CASE i # Len(t)
    <3>1. i \in 1..Len(s)
      BY <1>4, <2>2
    <3> QED
      BY <1>1, <1>2, <1>6, <3>1
  <2> QED
    BY <2>1, <2>2
<1>8. r = t
  BY <1>2, <1>6, <1>7
<1> QED
  BY <1>8 DEF r, s, t

(* One line. *)
LEMMA OneLine ==
  ASSUME NEW h \in 1..MaxHeight, NEW p \in BOOLEAN
  PROVE  <<Line(h, p)>> = Lines(h, h, p)
<1> DEFINE s == Lines(h, h, p)
<1>1. h \in Nat \ {0} /\ h \in 0..MaxHeight /\ h <= h + 1 /\ h + 1 - 1 = h
  OBVIOUS
<1>2. /\ s \in Seq(StoredLines) /\ Len(s) + h = h + 1 /\ DOMAIN s = 1..Len(s)
      /\ \A i \in DOMAIN s : s[i] = Line(h + i - 1, p)
  BY <1>1, LinesOfHeights
<1> HIDE DEF s
<1>3. Len(s) = 1
  BY <1>2
<1>4. s[1] = Line(h, p)
  BY <1>1, <1>2, <1>3
<1>5. <<Line(h, p)>> = s
  BY <1>2, <1>3, <1>4
<1> QED
  BY <1>5 DEF s

(* What is left after the line of a height. *)
LEMMA LinesAfter ==
  ASSUME NEW first \in Nat \ {0}, NEW last \in 0..MaxHeight, NEW h \in first..last,
         NEW next \in Nat \ {0}, next = h + 1, NEW p \in BOOLEAN
  PROVE  \A i \in DOMAIN Lines(first, last, p) :
           Lines(first, last, p)[i].height = h =>
             /\ i = h + 1 - first
             /\ Lines(first, last, p)[i] = Line(h, p)
             /\ SubSeq(Lines(first, last, p), i + 1, Len(Lines(first, last, p)))
                  = Lines(next, last, p)
<1> DEFINE s == Lines(first, last, p)
           t == Lines(next, last, p)
<1>1. /\ s \in Seq(StoredLines) /\ Len(s) + first = last + 1 /\ DOMAIN s = 1..Len(s)
      /\ \A j \in DOMAIN s : s[j] = Line(first + j - 1, p)
  <2>1. first <= last + 1
    OBVIOUS
  <2> QED
    BY <2>1, LinesOfHeights
<1>2. /\ t \in Seq(StoredLines) /\ Len(t) + next = last + 1 /\ DOMAIN t = 1..Len(t)
      /\ \A j \in DOMAIN t : t[j] = Line(next + j - 1, p)
  <2>1. next <= last + 1
    OBVIOUS
  <2> QED
    BY <2>1, LinesOfHeights
<1> HIDE DEF s, t
<1> SUFFICES ASSUME NEW i \in DOMAIN s, s[i].height = h
             PROVE  i = h + 1 - first /\ s[i] = Line(h, p) /\ SubSeq(s, i + 1, Len(s)) = t
  BY DEF s, t
<1>3. /\ i \in 1..Len(s) /\ s[i].height = h /\ s[i] = Line(first + i - 1, p)
  BY <1>1
<1>4. first + i - 1 = h /\ i = h + 1 - first
  <2>1. s[i].height = first + i - 1
    BY <1>3, LineOfHeight
  <2> QED
    BY <1>3, <2>1
<1>5. Len(t) = Len(s) - i /\ Len(s) \in Nat /\ Len(t) \in Nat
  <2>1. PICK m, n : m = Len(s) /\ n = Len(t)
    OBVIOUS
  <2>2. m \in Nat /\ n \in Nat
    BY <1>1, <1>2, <2>1
  <2>3. m + first = last + 1 /\ n + next = last + 1
    BY <1>1, <1>2, <2>1
  <2>4. n = m - i
    BY <1>4, <2>2, <2>3
  <2> QED
    BY <2>1, <2>2, <2>4
<1> DEFINE r == SubSeq(s, i + 1, Len(s))
<1> HIDE DEF r
<1>6. /\ r \in Seq(StoredLines) /\ Len(r) = Len(t)
      /\ \A j \in 1..Len(t) : r[j] = s[j + i]
  <2>1. PICK m \in Int : m = i + 1
    BY <1>3
  <2>2. Len(s) \in Int /\ \A j \in m..Len(s) : s[j] \in StoredLines
    BY <1>1, <1>3, <2>1
  <2>3. /\ SubSeq(s, m, Len(s)) \in Seq(StoredLines)
        /\ Len(SubSeq(s, m, Len(s))) = IF m <= Len(s) THEN Len(s) - m + 1 ELSE 0
        /\ \A j \in 1..(Len(s) - m + 1) : SubSeq(s, m, Len(s))[j] = s[m + j - 1]
    BY <2>2, SubSeqProperties
  <2>4. Len(s) - m + 1 = Len(t) /\ (m <= Len(s) \/ Len(t) = 0)
    BY <1>3, <1>5, <2>1
  <2>6. r \in Seq(StoredLines) /\ Len(r) = Len(t)
    BY <1>5, <2>1, <2>3, <2>4 DEF r
  <2>7. \A j \in 1..Len(t) : r[j] = s[j + i]
    <3> TAKE j \in 1..Len(t)
    <3>1. m + j - 1 = j + i
      BY <1>4, <1>5, <2>1
    <3>2. j \in 1..(Len(s) - m + 1)
      BY <2>4
    <3> QED
      BY <2>1, <2>3, <3>1, <3>2 DEF r
  <2> QED
    BY <2>6, <2>7
<1>7. \A j \in 1..Len(t) : s[j + i] = t[j]
  <2> TAKE j \in 1..Len(t)
  <2>1. PICK k \in DOMAIN s : k = j + i
    BY <1>1, <1>3, <1>5
  <2>2. first + k - 1 = next + j - 1 /\ j \in DOMAIN t
    BY <1>2, <1>3, <1>4, <2>1
  <2>3. s[k] = Line(first + k - 1, p) /\ t[j] = Line(next + j - 1, p)
    BY <1>1, <1>2, <2>1, <2>2
  <2> QED
    BY <2>1, <2>2, <2>3
<1>8. \A j \in 1..Len(t) : r[j] = t[j]
  BY <1>6, <1>7
<1>9. r = t
  BY <1>2, <1>6, <1>8
<1> QED
  BY <1>3, <1>4, <1>9 DEF r

(* Their heights. *)
LEMMA HeightsOfLines ==
  ASSUME NEW first \in Nat \ {0}, NEW last \in 0..MaxHeight, NEW p \in BOOLEAN,
         first <= last + 1, NEW h \in Int
  PROVE  (\E i \in DOMAIN Lines(first, last, p) : Lines(first, last, p)[i].height = h)
           <=> h \in first..last
<1> DEFINE s == Lines(first, last, p)
<1>1. /\ s \in Seq(StoredLines) /\ Len(s) + first = last + 1 /\ DOMAIN s = 1..Len(s)
      /\ \A i \in DOMAIN s : s[i] = Line(first + i - 1, p)
  BY LinesOfHeights
<1> HIDE DEF s
<1>2. Len(s) \in Nat
  BY <1>1
<1>3. \A i \in DOMAIN s : s[i].height = first + i - 1
  BY <1>1, LineOfHeight
<1>4. ASSUME NEW i \in DOMAIN s, s[i].height = h PROVE h \in first..last
  BY <1>1, <1>2, <1>3, <1>4
<1>5. ASSUME h \in first..last PROVE \E i \in DOMAIN s : s[i].height = h
  <2>1. PICK i \in Int : i = h + 1 - first
    OBVIOUS
  <2>2. i \in DOMAIN s /\ first + i - 1 = h
    BY <1>1, <1>2, <1>5, <2>1
  <2> QED
    BY <1>3, <2>2
<1>6. (\E i \in DOMAIN s : s[i].height = h) <=> h \in first..last
  BY <1>4, <1>5
<1> QED
  BY <1>6 DEF s

(* A whole chunk. *)
LEMMA WholeChunk ==
  ASSUME NEW n \in ChunkNames, NEW p \in BOOLEAN
  PROVE  /\ n \in 1..MaxHeight /\ FirstIn(n) \in 1..n
         /\ LinesOf(n, p) = Lines(FirstIn(n), n, p)
         /\ LinesOf(n, p) \in Seq(StoredLines)
<1>1. n \in 1..MaxHeight
  BY DEF ChunkNames
<1>2. FirstIn(n) \in 1..n
  BY FirstOfChunk
<1>3. /\ FirstIn(n) \in Nat \ {0} /\ n \in 0..MaxHeight /\ FirstIn(n) <= n + 1
  BY <1>1, <1>2
<1>4. Lines(FirstIn(n), n, p) \in Seq(StoredLines)
  BY <1>3, LinesOfHeights
<1> QED
  BY <1>1, <1>2, <1>4 DEF LinesOf

-----------------------------------------------------------------------------
(* The directory.                                                           *)

(* The last chunk. *)
LEMMA LastChunk ==
  ASSUME ChunksWhole
  PROVE  /\ LastLocal \in 0..MaxHeight /\ LastLocal \in {0} \cup ChunkNames
         /\ \A n \in DOMAIN chunks : n <= LastLocal
         /\ DOMAIN chunks = {} => LastLocal = StoreBase
         /\ DOMAIN chunks # {} => LastLocal \in DOMAIN chunks
<1>1. DOMAIN chunks \in SUBSET ChunkNames
  BY DEF ChunksWhole
<1>2. LastLocal = IF DOMAIN chunks = {} THEN StoreBase ELSE Max(DOMAIN chunks)
  BY DEF LastLocal
<1> QED
  BY <1>1, <1>2, LastOf

(* The chunk of a height, or the one that is open. *)
LEMMA ChunkOpened ==
  ASSUME TypeOK, ChunksWhole, ReaderInv,
         ~(NextChunkReached(itb) /\ ChunksFrom(itb.next) = {})
  PROVE  \E n \in ChunkNames, p \in BOOLEAN, f \in Nat \ {0} :
           /\ OpenChunk(itb) = [chunk |-> n, rest |-> Lines(f, n, p), next |-> itb.next]
           /\ itb.next <= n /\ f <= n /\ FirstIn(n) <= f
           /\ \/ f = itb.next
              \/ f = FirstIn(n) /\ n \in ChunksFrom(itb.next)
                   /\ \A m \in ChunksFrom(itb.next) : n <= m
<1>1. itb = [chunk |-> itb.chunk, rest |-> itb.rest, next |-> itb.next]
      /\ itb.chunk \in Nat /\ itb.next \in Int
  BY DEF TypeOK, HeightsAskedFor
<1>2. CASE ~NextChunkReached(itb)
  <2>1. itb.chunk # 0 /\ itb.next <= itb.chunk /\ OpenChunk(itb) = itb
    BY <1>1, <1>2 DEF NextChunkReached, OpenChunk
  <2>2. itb.chunk \in ChunkNames /\ FirstIn(itb.chunk) < itb.next
    BY <2>1 DEF ReaderInv
  <2>3. FirstIn(itb.chunk) \in 1..itb.chunk
    BY <2>2, WholeChunk
  <2>4. PICK p \in BOOLEAN : itb.rest = Lines(itb.next, itb.chunk, p)
    BY <2>1 DEF ReaderInv
  <2>5. itb.next \in Nat \ {0} /\ FirstIn(itb.chunk) <= itb.next
    BY <1>1, <2>2, <2>3
  <2> QED
    BY <1>1, <2>1, <2>2, <2>4, <2>5
<1>3. CASE NextChunkReached(itb)
  <2> DEFINE S == ChunksFrom(itb.next)
  <2>1. S # {} /\ S \subseteq Nat /\ S \subseteq ChunkNames /\ S \subseteq DOMAIN chunks
    <3>1. S # {} /\ S \subseteq DOMAIN chunks
      BY <1>3 DEF ChunksFrom
    <3>2. DOMAIN chunks \subseteq ChunkNames
      BY DEF ChunksWhole
    <3>3. ChunkNames \subseteq Nat
      BY DEF ChunkNames
    <3> QED
      BY <3>1, <3>2, <3>3
  <2>2. PICK n \in S : n = Min(S) /\ \A m \in S : n <= m
    BY <2>1, MinOf
  <2>3. n \in ChunkNames /\ itb.next <= n
    BY <2>1, <2>2 DEF ChunksFrom
  <2>4. PICK p \in BOOLEAN : chunks[n] = LinesOf(n, p)
    BY <2>1, <2>2 DEF ChunksWhole
  <2>5. FirstIn(n) \in 1..n /\ chunks[n] = Lines(FirstIn(n), n, p) /\ n \in 1..MaxHeight
    BY <2>3, <2>4, WholeChunk
  <2>6. OpenChunk(itb) = [chunk |-> n, rest |-> Lines(FirstIn(n), n, p), next |-> itb.next]
    <3>1. OpenChunk(itb) = [itb EXCEPT !.chunk = n, !.rest = chunks[n]]
      BY <1>3, <2>2 DEF OpenChunk
    <3> QED
      BY <1>1, <2>5, <3>1
  <2>7. FirstIn(n) \in Nat \ {0} /\ FirstIn(n) <= n /\ FirstIn(n) <= FirstIn(n)
    BY <2>5
  <2> QED
    BY <2>2, <2>3, <2>6, <2>7
<1> QED
  BY <1>2, <1>3

(* The next block is found where its chunk is. *)
LEMMA BlockFound ==
  ASSUME TypeOK, ChunksWhole, ReaderInv, ReaderHasBlock(itb)
  PROVE  \E n \in ChunkNames, p \in BOOLEAN, h \in 1..MaxHeight :
           /\ h = itb.next /\ h <= n /\ FirstIn(n) <= h
           /\ BlockRead(itb) = Line(h, p)
           /\ AfterRead(itb) = [chunk |-> n, rest |-> Lines(h + 1, n, p), next |-> h + 1]
<1>1. ~(NextChunkReached(itb) /\ ChunksFrom(itb.next) = {})
  BY DEF ReaderHasBlock, Matching
<1>2. PICK n \in ChunkNames, p \in BOOLEAN, f \in Nat \ {0} :
        /\ OpenChunk(itb) = [chunk |-> n, rest |-> Lines(f, n, p), next |-> itb.next]
        /\ itb.next <= n /\ f <= n /\ FirstIn(n) <= f
  BY <1>1, ChunkOpened
<1>3. n \in 1..MaxHeight /\ FirstIn(n) \in 1..n /\ itb.next \in Int
  BY WholeChunk DEF TypeOK, HeightsAskedFor
<1> DEFINE s == Lines(f, n, p)
<1>4. Matching(itb) = {i \in DOMAIN s : s[i].height = itb.next}
  BY <1>1, <1>2 DEF Matching
<1>5. n \in 0..MaxHeight /\ f <= n + 1
  BY <1>2, <1>3
<1>6. itb.next \in f..n
  <2>1. \E i \in DOMAIN s : s[i].height = itb.next
    BY <1>4 DEF ReaderHasBlock
  <2> QED
    BY <1>3, <1>5, <2>1, HeightsOfLines
<1>7. PICK h \in f..n : h = itb.next
  BY <1>6
<1>8. PICK next \in Nat \ {0} : next = h + 1
  BY <1>3
<1>9. \A i \in Matching(itb) :
        s[i] = Line(h, p) /\ SubSeq(s, i + 1, Len(s)) = Lines(next, n, p)
  <2>1. \A i \in DOMAIN s : s[i].height = h =>
          s[i] = Line(h, p) /\ SubSeq(s, i + 1, Len(s)) = Lines(next, n, p)
    BY <1>5, <1>8, LinesAfter
  <2> QED
    BY <1>4, <1>7, <2>1
<1>10. Min(Matching(itb)) \in Matching(itb)
  <2>1. DOMAIN s = 1..Len(s)
    BY <1>5, LinesOfHeights
  <2>2. Matching(itb) # {} /\ Matching(itb) \subseteq Nat
    BY <1>4, <2>1 DEF ReaderHasBlock
  <2> QED
    BY <2>2, MinOf
<1> HIDE DEF s
<1>11. PICK i \in Matching(itb) : i = Min(Matching(itb))
  BY <1>10
<1>12. BlockRead(itb) = Line(h, p)
  BY <1>2, <1>9, <1>11 DEF BlockRead, s
<1>13. AfterRead(itb) = [chunk |-> n, rest |-> Lines(next, n, p), next |-> next]
  <2>1. PICK o : o = OpenChunk(itb) /\ o = [chunk |-> n, rest |-> s, next |-> itb.next]
    BY <1>2 DEF s
  <2>2. o.chunk = n /\ o.next + 1 = next
          /\ SubSeq(o.rest, i + 1, Len(o.rest)) = Lines(next, n, p)
    BY <1>7, <1>8, <1>9, <2>1
  <2>3. AfterRead(itb) = [chunk |-> o.chunk, rest |-> SubSeq(o.rest, i + 1, Len(o.rest)),
                          next |-> o.next + 1]
    BY <1>11, <2>1 DEF AfterRead
  <2> QED
    BY <2>2, <2>3
<1>14. h \in 1..MaxHeight /\ h <= n /\ FirstIn(n) <= h
  BY <1>2, <1>3, <1>7
<1> QED
  BY <1>7, <1>8, <1>12, <1>13, <1>14

(* It is not found only where the chunk that has it is missing. *)
LEMMA BlockMissing ==
  ASSUME TypeOK, ChunksWhole, ReaderInv, ~ReaderAtEnd(itb), ~ReaderHasBlock(itb)
  PROVE  DOMAIN chunks = {} \/ itb.next < 1 \/ ChunkOf(itb.next) \notin DOMAIN chunks
<1> SUFFICES ASSUME DOMAIN chunks # {}, ~(itb.next < 1)
             PROVE  ChunkOf(itb.next) \notin DOMAIN chunks
  OBVIOUS
<1>1. ~(NextChunkReached(itb) /\ ChunksFrom(itb.next) = {})
  BY DEF ReaderAtEnd
<1>2. PICK n \in ChunkNames, p \in BOOLEAN, f \in Nat \ {0} :
        /\ OpenChunk(itb) = [chunk |-> n, rest |-> Lines(f, n, p), next |-> itb.next]
        /\ itb.next <= n /\ f <= n
        /\ \/ f = itb.next
           \/ f = FirstIn(n) /\ \A m \in ChunksFrom(itb.next) : n <= m
  BY <1>1, ChunkOpened
<1>3. n \in 1..MaxHeight /\ FirstIn(n) \in 1..n /\ itb.next \in Int
  BY WholeChunk DEF TypeOK, HeightsAskedFor
<1> DEFINE s == Lines(f, n, p)
<1>4. Matching(itb) = {i \in DOMAIN s : s[i].height = itb.next}
  BY <1>1, <1>2 DEF Matching
<1>5. n \in 0..MaxHeight /\ f <= n + 1
  BY <1>2, <1>3
<1>6. itb.next \notin f..n
  <2>1. ~ \E i \in DOMAIN s : s[i].height = itb.next
    BY <1>4 DEF ReaderHasBlock
  <2>2. PICK h \in Int : h = itb.next
    BY <1>3
  <2>3. (\E i \in DOMAIN s : s[i].height = h) <=> h \in f..n
    BY <1>5, HeightsOfLines
  <2> QED
    BY <2>1, <2>2, <2>3
<1>7. itb.next < FirstIn(n) /\ \A k \in ChunksFrom(itb.next) : n <= k
  BY <1>2, <1>3, <1>6
<1> DEFINE T == {m \in ChunkNames : m >= itb.next}
<1>8. FirstIn(n) - 1 \in T
  <2>1. FirstIn(n) - 1 \in {0} \cup ChunkNames
    BY FirstOfChunk
  <2> QED
    BY <1>3, <1>7, <2>1
<1>9. T \subseteq Nat /\ T # {}
  BY <1>8 DEF ChunkNames
<1> HIDE DEF T
<1>10. PICK m \in T : m = Min(T) /\ m <= FirstIn(n) - 1
  BY <1>8, <1>9, MinOf
<1>11. m \in Nat /\ m < n /\ m >= itb.next
  BY <1>3, <1>9, <1>10 DEF T
<1>12. m \notin DOMAIN chunks
  <2> SUFFICES ASSUME m \in DOMAIN chunks PROVE FALSE
    OBVIOUS
  <2>1. m \in ChunksFrom(itb.next)
    BY <1>11 DEF ChunksFrom
  <2>2. n <= m
    BY <1>7, <2>1
  <2>3. n \in Nat
    BY <1>3
  <2> QED
    BY <1>11, <2>2, <2>3
<1> QED
  BY <1>10, <1>12 DEF ChunkOf, T

(* A program begins with what is missing, and nothing open. *)
LEMMA StartStep ==
  ASSUME IInv, NEW t \in {"dump", "fragment", "read"}, NEW n \in Nodes, Start(t, n)
  PROVE  IInv'
<1>1. missing' = ListedFromGenesis \ DOMAIN chunks /\ UNCHANGED chunks /\ pc' = "update"
  BY DEF Start, CleanUp, MissingChunks
<1>2. current' \in Seq(StoredLines) /\ itb' = [chunk |-> 0, rest |-> << >>, next |-> 1]
  BY DEF Start, CleanUp, Iterator
<1>3. TypeOK'
  <2>1. node' \in [earliest : 1..MaxHeight, latest : 1..MaxHeight, fork : 0..MaxHeight]
    BY DEF Start, Nodes
  <2>2. missing' \subseteq ListedChunks
    BY <1>1 DEF ListedFromGenesis
  <2>3. itb' \in [chunk : 0..MaxHeight, rest : Seq(StoredLines), next : HeightsAskedFor]
    BY <1>2 DEF HeightsAskedFor
  <2>4. chunks' = chunks /\ pc' = "update" /\ faults' = faults
    BY <1>1 DEF Start
  <2>5. /\ temps' = {} /\ cancelled' = FALSE /\ complete' = FALSE /\ opened' = FALSE
        /\ finished' = FALSE /\ finalName' = 0 /\ lastFetchedHeight' = 0 /\ endHeight' = 0
        /\ currentHeight' = 0 /\ read' = NothingRead /\ tool' = t
    BY DEF Start, CleanUp
  <2> QED
    BY <1>2, <2>1, <2>2, <2>3, <2>4, <2>5 DEF IInv, TypeOK
<1>4. ChunksWhole'
  BY DEF IInv, ChunksWhole, Start, CleanUp
<1>5. UpdateInv'
  BY <1>1 DEF IInv, UpdateInv, Start
<1>6. FinalizeInv'
  BY DEF IInv, FinalizeInv, Start, CleanUp, LastLocal, Finalizing, NothingEnds
<1>7. DumpInv'
  BY DEF IInv, DumpInv, Start, CleanUp, LastLocal, NothingEnds
<1>8. NodeInv'
  BY DEF IInv, NodeInv, Start, CleanUp
<1>9. ReaderInv'
  BY <1>1, <1>2 DEF IInv, ReaderInv, Start
<1>10. LostChunkRestored'
  BY DEF IInv, LostChunkRestored, Start, CleanUp
<1>11. ReaderFailsOnlyAtGap'
  BY DEF IInv, ReaderFailsOnlyAtGap, Start, CleanUp
<1> QED
  BY <1>3, <1>4, <1>5, <1>6, <1>7, <1>8, <1>9, <1>10, <1>11 DEF IInv

(* A listed chunk that is missing is fetched. *)
LEMMA FetchChunkStep ==
  ASSUME IInv, FetchChunk
  PROVE  IInv'
<1>1. finalName' \in missing
  <2>1. missing # {} /\ missing \subseteq Nat
    BY DEF IInv, TypeOK, FetchChunk
  <2> QED
    BY <2>1, MinOf DEF FetchChunk
<1>2. TypeOK'
  BY <1>1 DEF IInv, TypeOK, FetchChunk
<1>3. ChunksWhole'
  BY DEF IInv, ChunksWhole, FetchChunk
<1>4. UpdateInv'
  BY <1>1 DEF IInv, UpdateInv, FetchChunk
<1>5. FinalizeInv'
  BY DEF IInv, FinalizeInv, FetchChunk, LastLocal, Finalizing, NothingEnds
<1>6. DumpInv'
  BY DEF IInv, DumpInv, FetchChunk, LastLocal, NothingEnds
<1>7. NodeInv'
  BY DEF IInv, NodeInv, FetchChunk
<1>8. ReaderInv'
  BY DEF IInv, ReaderInv, FetchChunk
<1>9. LostChunkRestored'
  BY DEF IInv, LostChunkRestored, FetchChunk
<1>10. ReaderFailsOnlyAtGap'
  BY DEF IInv, ReaderFailsOnlyAtGap, FetchChunk
<1> QED
  BY <1>2, <1>3, <1>4, <1>5, <1>6, <1>7, <1>8, <1>9, <1>10 DEF IInv

(* What has the hash of the list is the whole chunk. *)
LEMMA DownloadMatchesStep ==
  ASSUME IInv, DownloadMatches
  PROVE  IInv'
<1>1. /\ finalName \in ListedFromGenesis /\ finalName \in ChunkNames \ DOMAIN chunks
      /\ missing = ListedFromGenesis \ DOMAIN chunks /\ currentHeight = 0
  BY ListAssumption DEF IInv, UpdateInv, DownloadMatches
<1>2. current' = LinesOf(finalName, TRUE) /\ current' \in Seq(StoredLines)
  BY <1>1, WholeChunk DEF DownloadMatches
<1>3. TypeOK'
  BY <1>2 DEF IInv, TypeOK, DownloadMatches
<1>4. ChunksWhole'
  BY DEF IInv, ChunksWhole, DownloadMatches
<1>5. UpdateInv'
  BY DEF IInv, UpdateInv, DownloadMatches
<1>6. FinalizeInv'
  BY <1>1, <1>2 DEF IInv, FinalizeInv, DownloadMatches, Finalizing
<1>7. DumpInv'
  BY DEF IInv, DumpInv, DownloadMatches, LastLocal, NothingEnds
<1>8. NodeInv'
  BY DEF IInv, NodeInv, DownloadMatches
<1>9. ReaderInv'
  BY DEF IInv, ReaderInv, DownloadMatches
<1>10. LostChunkRestored'
  BY DEF IInv, LostChunkRestored, DownloadMatches
<1>11. ReaderFailsOnlyAtGap'
  BY DEF IInv, ReaderFailsOnlyAtGap, DownloadMatches
<1> QED
  BY <1>3, <1>4, <1>5, <1>6, <1>7, <1>8, <1>9, <1>10, <1>11 DEF IInv

(* Nothing of a chunk is left behind; at the end of the list none is *)
(* missing.                                                          *)
LEMMA UpdateReturnsStep ==
  ASSUME IInv, UpdateReturns
  PROVE  IInv'
<1>1. TypeOK'
  <2>1. DirectoryOK'
    BY DEF IInv, TypeOK, UpdateReturns, CleanUp
  <2>2. ToolOK'
    BY DEF IInv, TypeOK, UpdateReturns, CleanUp
  <2>3. FileOK'
    <3>1. opened' = FALSE /\ current' = << >> /\ finalName' = 0
      BY DEF UpdateReturns, CleanUp
    <3>2. opened' \in BOOLEAN
      BY <3>1
    <3>3. finalName' \in 0..MaxHeight
      BY <3>1
    <3>4. current' \in Seq(StoredLines)
      BY <3>1
    <3> QED
      BY <3>2, <3>3, <3>4
  <2>4. JobOK'
    BY DEF IInv, TypeOK, UpdateReturns, CleanUp
  <2> QED
    BY <2>1, <2>2, <2>3, <2>4 DEF TypeOK
<1>2. ChunksWhole'
  BY DEF IInv, ChunksWhole, UpdateReturns, CleanUp
<1>3. UpdateInv'
  BY DEF IInv, UpdateInv, UpdateReturns, CleanUp
<1>4. FinalizeInv'
  BY DEF IInv, FinalizeInv, UpdateReturns, CleanUp, LastLocal, Finalizing, NothingEnds
<1>5. DumpInv'
  BY DEF IInv, DumpInv, UpdateReturns, CleanUp, LastLocal, NothingEnds
<1>6. NodeInv'
  BY DEF IInv, NodeInv, UpdateReturns, CleanUp
<1>7. ReaderInv'
  BY DEF IInv, ReaderInv, UpdateReturns, CleanUp
<1>8. LostChunkRestored'
  BY DEF IInv, UpdateInv, LostChunkRestored, UpdateReturns, CleanUp
<1>9. ReaderFailsOnlyAtGap'
  BY DEF IInv, ReaderFailsOnlyAtGap, UpdateReturns, CleanUp
<1> QED
  BY <1>1, <1>2, <1>3, <1>4, <1>5, <1>6, <1>7, <1>8, <1>9 DEF IInv

(* There is no chunk of that name. *)
LEMMA RemoveOldStep ==
  ASSUME IInv, RemoveOld
  PROVE  IInv'
<1>1. finalName \notin DOMAIN chunks
  BY DEF IInv, FinalizeInv, Finalizing, RemoveOld
<1>2. UNCHANGED chunks
  <2>1. DOMAIN chunks \ {finalName} = DOMAIN chunks
    BY <1>1
  <2>2. chunks' = [n \in DOMAIN chunks |-> chunks[n]]
    BY <2>1 DEF RemoveOld, Restrict
  <2>3. chunks \in [DOMAIN chunks -> Seq(StoredLines)]
    BY DEF IInv, TypeOK
  <2> QED
    BY <2>2, <2>3
<1>3. TypeOK'
  BY <1>2 DEF IInv, TypeOK, RemoveOld
<1>4. ChunksWhole'
  BY <1>2 DEF IInv, ChunksWhole, RemoveOld
<1>5. UpdateInv'
  BY <1>2 DEF IInv, UpdateInv, RemoveOld
<1>6. FinalizeInv'
  BY <1>2 DEF IInv, FinalizeInv, Finalizing, LastLocal, RemoveOld
<1>7. DumpInv'
  BY <1>2 DEF IInv, DumpInv, RemoveOld
<1>8. NodeInv'
  BY DEF IInv, NodeInv, RemoveOld
<1>9. ReaderInv'
  BY DEF IInv, ReaderInv, RemoveOld
<1>10. LostChunkRestored'
  BY <1>2 DEF IInv, LostChunkRestored, RemoveOld
<1>11. ReaderFailsOnlyAtGap'
  BY <1>2 DEF IInv, ReaderFailsOnlyAtGap, RemoveOld
<1> QED
  BY <1>3, <1>4, <1>5, <1>6, <1>7, <1>8, <1>9, <1>10, <1>11 DEF IInv

(* The file that gets the name of the chunk is the whole chunk. *)
LEMMA RenameNewStep ==
  ASSUME IInv, RenameNew
  PROVE  IInv'
<1>1. /\ finalName \in ChunkNames \ DOMAIN chunks
      /\ current = LinesOf(finalName, TRUE) /\ current \in Seq(StoredLines)
  BY DEF IInv, TypeOK, FinalizeInv, Finalizing, RenameNew
<1>2. /\ DOMAIN chunks' = DOMAIN chunks \cup {finalName}
      /\ chunks'[finalName] = current
      /\ \A n \in DOMAIN chunks : chunks'[n] = chunks[n]
  BY <1>1 DEF RenameNew
<1>3. ChunksWhole'
  BY <1>1, <1>2 DEF IInv, ChunksWhole
<1>4. /\ opened' = FALSE /\ UNCHANGED <<tool, node, missing, currentHeight>>
      /\ \/ currentHeight = 0 /\ pc' = "update"
         \/ currentHeight # 0 /\ pc' \in {"close", "loop"}
  <2>1. currentHeight = 0 => AfterFinalize = "update"
    BY DEF AfterFinalize
  <2>2. currentHeight # 0 => AfterFinalize \in {"close", "loop"}
    BY DEF AfterFinalize
  <2> QED
    BY <2>1, <2>2 DEF RenameNew
<1>5. currentHeight # 0 => LastLocal' = finalName /\ currentHeight = finalName + 1
  <2> SUFFICES ASSUME currentHeight # 0
                      PROVE LastLocal' = finalName /\ currentHeight = finalName + 1
    OBVIOUS
  <2>1. LastLocal < finalName /\ currentHeight = finalName + 1
    BY DEF IInv, FinalizeInv, Finalizing, RenameNew
  <2>2. PICK l : l = LastLocal'
    OBVIOUS
  <2>3. l = IF DOMAIN chunks' = {} THEN StoreBase ELSE Max(DOMAIN chunks')
    BY <2>2 DEF LastLocal
  <2>4. DOMAIN chunks' \in SUBSET ChunkNames /\ DOMAIN chunks' # {}
    BY <1>2, <1>3 DEF ChunksWhole
  <2>5. l \in DOMAIN chunks' /\ (\A n \in DOMAIN chunks' : n <= l) /\ l \in 0..MaxHeight
    BY <2>3, <2>4, LastOf
  <2>6. \A n \in DOMAIN chunks : n <= LastLocal
    BY LastChunk DEF IInv
  <2>7. finalName <= l /\ LastLocal \in Nat /\ finalName \in Nat
    BY <1>1, <1>2, <2>5, LastChunk DEF IInv, ChunkNames
  <2>8. l \notin DOMAIN chunks
    BY <2>1, <2>5, <2>6, <2>7
  <2> QED
    BY <1>2, <2>1, <2>2, <2>5, <2>8
<1>6. TypeOK'
  <2>1. chunks' \in [DOMAIN chunks' -> Seq(StoredLines)] /\ DOMAIN chunks' \subseteq 1..MaxHeight
    BY <1>1, <1>2 DEF IInv, TypeOK, RenameNew, ChunkNames
  <2>2. temps' \subseteq {"tmp", "closed"} /\ finished' \in BOOLEAN
    BY DEF IInv, TypeOK, RenameNew
  <2>3. DirectoryOK'
    BY <2>1, <2>2, <1>4 DEF IInv, TypeOK, RenameNew
  <2>4. ToolOK'
    BY <2>1, <2>2, <1>4 DEF IInv, TypeOK, RenameNew
  <2>5. FileOK'
    <3>1. opened' = FALSE /\ current' = << >> /\ finalName' = 0
      BY DEF RenameNew
    <3>2. opened' \in BOOLEAN
      BY <3>1
    <3>3. finalName' \in 0..MaxHeight
      BY <3>1
    <3>4. current' \in Seq(StoredLines)
      BY <3>1
    <3> QED
      BY <3>2, <3>3, <3>4
  <2>6. JobOK'
    BY <2>1, <2>2, <1>4 DEF IInv, TypeOK, RenameNew
  <2> QED
    BY <2>3, <2>4, <2>5, <2>6 DEF TypeOK
<1>7. ChunksWhole'
  BY <1>3
<1>8. UpdateInv'
  BY <1>2, <1>4 DEF IInv, UpdateInv, FinalizeInv, Finalizing, RenameNew
<1>9. FinalizeInv'
  BY <1>4 DEF FinalizeInv, Finalizing
<1>10. DumpInv'
  <2> SUFFICES ASSUME (pc = "loop" /\ tool = "dump")' PROVE (DumpInv)'
    BY DEF DumpInv
  <2>1. LastLocal' = finalName /\ currentHeight' = finalName + 1 /\ opened' = FALSE
    BY <1>4, <1>5
  <2>2. finalName \in Nat
    BY <1>1 DEF ChunkNames
  <2>3. LastLocal' + 1 = currentHeight' /\ LastLocal' + 1 > currentHeight' - 1
    BY <2>1, <2>2
  <2>4. NothingEnds(LastLocal + 1, currentHeight - 1)'
    BY <2>1, <2>2, <2>3 DEF NothingEnds
  <2> QED
    BY <2>1, <2>3, <2>4 DEF DumpInv
<1>11. NodeInv'
  BY <1>4 DEF IInv, NodeInv, RenameNew
<1>12. ReaderInv'
  BY <1>4, <1>5 DEF IInv, ReaderInv, FinalizeInv, Finalizing, RenameNew
<1>13. LostChunkRestored'
  BY <1>4 DEF LostChunkRestored
<1>14. ReaderFailsOnlyAtGap'
  BY <1>4 DEF ReaderFailsOnlyAtGap
<1> QED
  BY <1>6, <1>7, <1>8, <1>9, <1>10, <1>11, <1>12, <1>13, <1>14 DEF IInv

(* No chunk changes. *)
LEMMA CloseStep ==
  ASSUME IInv, Close
  PROVE  IInv'
<1>1. TypeOK'
  <2>1. DirectoryOK'
    BY DEF IInv, TypeOK, Close
  <2>2. ToolOK'
    BY DEF IInv, TypeOK, Close
  <2>3. FileOK'
    <3>1. opened' = FALSE /\ current' = << >> /\ finalName' = 0
      BY DEF Close
    <3>2. opened' \in BOOLEAN
      BY <3>1
    <3>3. finalName' \in 0..MaxHeight
      BY <3>1
    <3>4. current' \in Seq(StoredLines)
      BY <3>1
    <3> QED
      BY <3>2, <3>3, <3>4
  <2>4. JobOK'
    BY DEF IInv, TypeOK, Close
  <2> QED
    BY <2>1, <2>2, <2>3, <2>4 DEF TypeOK
<1>2. ChunksWhole'
  BY DEF IInv, ChunksWhole, Close
<1>3. UpdateInv'
  BY DEF IInv, UpdateInv, Close
<1>4. FinalizeInv'
  BY DEF IInv, FinalizeInv, Close, LastLocal, Finalizing, NothingEnds
<1>5. DumpInv'
  BY DEF IInv, DumpInv, Close, LastLocal, NothingEnds
<1>6. NodeInv'
  BY DEF IInv, NodeInv, Close
<1>7. ReaderInv'
  BY DEF IInv, ReaderInv, Close
<1>8. LostChunkRestored'
  BY DEF IInv, LostChunkRestored, Close
<1>9. ReaderFailsOnlyAtGap'
  BY DEF IInv, ReaderFailsOnlyAtGap, Close
<1> QED
  BY <1>1, <1>2, <1>3, <1>4, <1>5, <1>6, <1>7, <1>8, <1>9 DEF IInv

(* A program that exits leaves the chunks as they are. *)
LEMMA ExitStep ==
  ASSUME IInv, NEW running, pc = running, Exit
  PROVE  IInv'
<1>1. TypeOK'
  BY DEF IInv, TypeOK, Exit, HeightsAskedFor
<1>2. ChunksWhole'
  BY DEF IInv, ChunksWhole, Exit
<1>3. UpdateInv'
  BY DEF IInv, UpdateInv, Exit
<1>4. FinalizeInv'
  BY DEF IInv, FinalizeInv, Exit, LastLocal, Finalizing, NothingEnds
<1>5. DumpInv'
  BY DEF IInv, DumpInv, Exit, LastLocal, NothingEnds
<1>6. NodeInv'
  BY DEF IInv, NodeInv, Exit
<1>7. ReaderInv'
  BY DEF IInv, ReaderInv, Exit
<1>8. LostChunkRestored'
  BY DEF IInv, LostChunkRestored, Exit
<1>9. ReaderFailsOnlyAtGap'
  BY DEF IInv, ReaderFailsOnlyAtGap, Exit
<1> QED
  BY <1>1, <1>2, <1>3, <1>4, <1>5, <1>6, <1>7, <1>8, <1>9 DEF IInv

(* dump begins after the last chunk, if the node has what follows. *)
LEMMA DumpBeginsStep ==
  ASSUME IInv, DumpBegins
  PROVE  IInv'
<1>1. /\ LastLocal \in 0..MaxHeight /\ node \in Nodes /\ opened = FALSE
      /\ node.earliest <= LastLocal + 1 /\ node.latest \in 1..MaxHeight
  BY LastChunk DEF IInv, TypeOK, NodeInv, UpdateInv, DumpBegins
<1>2. \A full \in BOOLEAN : DumpEnd(full) \in 0..MaxHeight /\ DumpEnd(full) <= node.latest
  <2>1. PICK h \in Nat : h = node.latest
    BY <1>1
  <2>2. h - (h % BlocksPerChunk) \in 0..h
    BY RoundedDown
  <2>3. node.fork \in 0..MaxHeight
    BY DEF IInv, TypeOK
  <2> QED
    BY <1>1, <2>1, <2>2, <2>3 DEF DumpEnd
<1>3. endHeight' \in 0..MaxHeight /\ endHeight' <= node.latest
  BY <1>2 DEF DumpBegins
<1>4. /\ currentHeight' = LastLocal + 1 /\ UNCHANGED <<chunks, opened, node, itb>>
      /\ lastFetchedHeight' = LastLocal /\ pc' = "loop" /\ tool' = "dump"
  BY DEF DumpBegins
<1>5. LastLocal' = LastLocal
  BY <1>4 DEF LastLocal
<1>6. TypeOK'
  <2>1. currentHeight' \in {0} \cup HeightsAskedFor
    BY <1>1, <1>4 DEF HeightsAskedFor
  <2> QED
    BY <1>1, <1>3, <1>4, <2>1 DEF IInv, TypeOK, DumpBegins
<1>7. ChunksWhole'
  BY DEF IInv, ChunksWhole, DumpBegins
<1>8. UpdateInv'
  BY DEF IInv, UpdateInv, DumpBegins
<1>9. FinalizeInv'
  BY <1>4 DEF FinalizeInv, Finalizing
<1>10. DumpInv'
  <2>1. PICK l \in Nat : l = LastLocal'
    BY <1>1, <1>5
  <2>2. PICK c \in Nat : c = currentHeight' /\ c = l + 1
    BY <1>1, <1>4, <1>5, <2>1
  <2>3. c - 1 = l /\ l + 1 > l
    BY <2>2
  <2>4. \A x \in (l + 1)..(c - 1) : FALSE
    BY <2>3
  <2>5. NothingEnds(LastLocal + 1, currentHeight - 1)'
    BY <2>1, <2>2, <2>4 DEF NothingEnds
  <2> QED
    BY <1>1, <1>4, <2>1, <2>2, <2>5 DEF DumpInv
<1>11. NodeInv'
  BY <1>1, <1>3, <1>4 DEF NodeInv
<1>12. ReaderInv'
  BY <1>4 DEF IInv, ReaderInv
<1>13. LostChunkRestored'
  BY DEF IInv, LostChunkRestored, DumpBegins
<1>14. ReaderFailsOnlyAtGap'
  BY DEF IInv, ReaderFailsOnlyAtGap, DumpBegins
<1> QED
  BY <1>6, <1>7, <1>8, <1>9, <1>10, <1>11, <1>12, <1>13, <1>14 DEF IInv

(* The next line; the chunk is finalized at its last height. *)
LEMMA DumpNextStep ==
  ASSUME IInv, DumpNext
  PROVE  IInv'
<1>1. /\ LastLocal \in 0..MaxHeight /\ LastLocal \in {0} \cup ChunkNames
      /\ \A n \in DOMAIN chunks : n <= LastLocal
  BY LastChunk DEF IInv
<1>2. PICK h \in 1..MaxHeight : h = currentHeight
  <2>1. IF opened THEN LastLocal + 1 < currentHeight ELSE LastLocal + 1 = currentHeight
    BY DEF IInv, DumpInv, DumpNext
  <2>2. currentHeight <= endHeight /\ endHeight \in 0..MaxHeight /\ currentHeight \in Int
    BY DEF IInv, TypeOK, HeightsAskedFor, DumpNext, MoreToFetch
  <2> QED
    BY <1>1, <2>1, <2>2
<1>3. /\ NothingEnds(LastLocal + 1, h - 1) /\ opened \in BOOLEAN
      /\ opened => LastLocal + 1 < h /\ current = Lines(LastLocal + 1, h - 1, TRUE)
      /\ ~opened => LastLocal + 1 = h
  BY <1>2 DEF IInv, TypeOK, DumpInv, DumpNext
<1>4. /\ opened' = TRUE /\ currentHeight' = h + 1
      /\ temps' = temps \cup {"tmp"} /\ UNCHANGED <<chunks, tool, node, endHeight, itb>>
      /\ current' = IF opened THEN Append(current, Line(h, TRUE)) ELSE <<Line(h, TRUE)>>
  BY <1>2, LineOfHeight DEF DumpNext, DumpBlock
<1>5. /\ EndsChunk(h) => pc' = "remove" /\ finalName' = h
      /\ ~EndsChunk(h) => pc' = "loop" /\ finalName' = finalName
  <2>1. Line(h, TRUE).height = h /\ Line(h, TRUE) = BlockToStored(h, Blocks[h])
    BY LineOfHeight
  <2>2. h = ForkHeight <=> (node.fork # 0 /\ h = node.fork)
    BY <1>2 DEF IInv, NodeInv, Nodes, DumpNext
  <2>3. EndsChunk(h) <=> (h % BlocksPerChunk = 0 \/ (node.fork # 0 /\ h = node.fork))
    <3>1. CASE h = ForkHeight
      BY <2>2, <3>1 DEF EndsChunk
    <3>2. CASE h # ForkHeight
      <4>1. EndsChunk(h) <=> h % BlocksPerChunk = 0
        BY <3>2 DEF EndsChunk
      <4>2. ~(node.fork # 0 /\ h = node.fork)
        BY <2>2, <3>2
      <4> QED
        BY <4>1, <4>2, Zenon
    <3> QED
      BY <3>1, <3>2
  <2>4. DumpBlock(Line(h, TRUE), node.fork # 0 /\ h = node.fork)
    BY <1>2, <2>1 DEF DumpNext
  <2> DEFINE line == Line(h, TRUE)
             force == node.fork # 0 /\ h = node.fork
  <2>5. IF line.height % BlocksPerChunk = 0 \/ force
        THEN pc' = "remove" /\ finalName' = line.height
        ELSE pc' = "loop" /\ finalName' = finalName
    BY <2>4 DEF DumpBlock
  <2>6. IF h % BlocksPerChunk = 0 \/ force
        THEN pc' = "remove" /\ finalName' = h
        ELSE pc' = "loop" /\ finalName' = finalName
    BY <2>1, <2>5
  <2> QED
    BY <2>3, <2>6, Zenon
<1>6. LastLocal' = LastLocal
  BY <1>4 DEF LastLocal
<1>7. PICK f \in 1..h : f = LastLocal + 1
  <2>1. LastLocal + 1 < h \/ LastLocal + 1 = h
    BY <1>3, Zenon
  <2> QED
    BY <1>1, <2>1
<1>8. current' = Lines(f, h, TRUE)
  <2>1. CASE opened
    <3>1. PICK l \in 0..MaxHeight : l = h - 1
      BY <1>2
    <3>2. f \in Nat \ {0} /\ f <= l + 1 /\ h = l + 1 /\ current = Lines(f, l, TRUE)
      BY <1>3, <1>7, <2>1, <3>1
    <3> QED
      BY <1>4, <2>1, <3>2, LinesAppended
  <2>2. CASE ~opened
    BY <1>3, <1>4, <1>7, <2>2, OneLine
  <2> QED
    BY <2>1, <2>2
<1>9. TypeOK'
  <2>1. current' \in Seq(StoredLines)
    <3>1. f \in Nat \ {0} /\ h \in 0..MaxHeight /\ f <= h + 1
      BY <1>2, <1>7
    <3> QED
      BY <1>8, <3>1, LinesOfHeights
  <2>2. currentHeight' \in {0} \cup HeightsAskedFor
    BY <1>2, <1>4 DEF HeightsAskedFor
  <2>3. pc' \in {"remove", "loop"} /\ finalName' \in 0..MaxHeight
    BY <1>2, <1>5 DEF IInv, TypeOK
  <2> QED
    BY <1>4, <2>1, <2>2, <2>3 DEF IInv, TypeOK, DumpNext
<1>10. ChunksWhole'
  BY <1>4 DEF IInv, ChunksWhole
<1>11. UpdateInv'
  BY <1>5 DEF UpdateInv
<1>12. FinalizeInv'
  <2> SUFFICES ASSUME EndsChunk(h) PROVE FinalizeInv'
    BY <1>5 DEF FinalizeInv, Finalizing
  <2>1. h \in ChunkNames
    BY DEF ChunkNames
  <2>2. f - 1 \in {0} \cup ChunkNames /\ NothingEnds(f, h - 1)
    BY <1>1, <1>3, <1>7
  <2>3. f = FirstIn(h)
    BY <2>1, <2>2, OnlyFirst
  <2>4. current' = LinesOf(h, TRUE)
    BY <1>8, <2>3 DEF LinesOf
  <2>5. h \notin DOMAIN chunks /\ LastLocal < h
    BY <1>1, <1>7
  <2>6. currentHeight' # 0 /\ tool' = "dump"
    BY <1>4 DEF DumpNext
  <2>7. NothingEnds(LastLocal + 1, h - 1)
    BY <1>3
  <2> QED
    BY <1>4, <1>5, <1>6, <2>1, <2>4, <2>5, <2>6, <2>7 DEF FinalizeInv, NothingEnds
<1>13. DumpInv'
  <2> SUFFICES ASSUME ~EndsChunk(h) PROVE DumpInv'
    BY <1>5 DEF DumpInv
  <2>1. NothingEnds(f, h)
    BY <1>3, <1>7 DEF NothingEnds
  <2>2. currentHeight' - 1 = h /\ LastLocal' + 1 = f /\ f < currentHeight'
    BY <1>4, <1>6, <1>7
  <2> QED
    BY <1>4, <1>8, <2>1, <2>2 DEF DumpInv, NothingEnds
<1>14. NodeInv'
  <2>1. node.earliest <= h /\ node.earliest \in 1..MaxHeight /\ endHeight <= node.latest
        /\ node \in Nodes
    BY <1>2 DEF IInv, TypeOK, NodeInv, DumpNext
  <2>2. node.earliest <= h + 1
    BY <2>1
  <2> QED
    BY <1>4, <2>1, <2>2 DEF NodeInv
<1>15. ReaderInv'
  BY <1>4, <1>5 DEF IInv, ReaderInv, DumpNext
<1>16. LostChunkRestored'
  BY <1>5 DEF LostChunkRestored
<1>17. ReaderFailsOnlyAtGap'
  BY <1>5 DEF ReaderFailsOnlyAtGap
<1> QED
  BY <1>9, <1>10, <1>11, <1>12, <1>13, <1>14, <1>15, <1>16, <1>17 DEF IInv

(* A job that ends leaves the chunks as they are. *)
LEMMA JobReturnsStep ==
  ASSUME IInv, NEW normally \in BOOLEAN, pc # "down", JobReturns(normally)
  PROVE  IInv'
<1>1. TypeOK'
  BY DEF IInv, TypeOK, JobReturns, HeightsAskedFor
<1>2. ChunksWhole'
  BY DEF IInv, ChunksWhole, JobReturns
<1>3. UpdateInv'
  BY DEF IInv, UpdateInv, JobReturns
<1>4. FinalizeInv'
  BY DEF IInv, FinalizeInv, JobReturns, LastLocal, Finalizing, NothingEnds
<1>5. DumpInv'
  BY DEF IInv, DumpInv, JobReturns, LastLocal, NothingEnds
<1>6. NodeInv'
  BY DEF IInv, NodeInv, JobReturns
<1>7. ReaderInv'
  BY DEF IInv, ReaderInv, JobReturns
<1>8. LostChunkRestored'
  BY DEF IInv, LostChunkRestored, JobReturns
<1>9. ReaderFailsOnlyAtGap'
  BY DEF IInv, ReaderFailsOnlyAtGap, JobReturns
<1> QED
  BY <1>1, <1>2, <1>3, <1>4, <1>5, <1>6, <1>7, <1>8, <1>9 DEF IInv

(* A reader opens nothing yet. *)
LEMMA ReadBeginsStep ==
  ASSUME IInv, ReadBegins
  PROVE  IInv'
<1>1. LastLocal \in 0..MaxHeight /\ StoreBase \in 0..MaxHeight
  BY LastChunk, StoreBaseEndsChunk DEF IInv
<1>2. PICK h \in StoreBase + 1 .. LastLocal : itb' = [chunk |-> 0, rest |-> << >>, next |-> h]
  BY DEF ReadBegins, Iterator
<1>3. itb' \in [chunk : 0..MaxHeight, rest : Seq(StoredLines), next : HeightsAskedFor]
  BY <1>1, <1>2 DEF HeightsAskedFor
<1>4. TypeOK'
  BY <1>1, <1>3 DEF IInv, TypeOK, ReadBegins
<1>5. ChunksWhole'
  BY DEF IInv, ChunksWhole, ReadBegins, Iterator
<1>6. UpdateInv'
  BY DEF IInv, UpdateInv, ReadBegins, Iterator
<1>7. FinalizeInv'
  BY DEF IInv, FinalizeInv, ReadBegins, Iterator, LastLocal, Finalizing, NothingEnds
<1>8. DumpInv'
  BY DEF IInv, DumpInv, ReadBegins, Iterator, LastLocal, NothingEnds
<1>9. NodeInv'
  BY DEF IInv, NodeInv, ReadBegins, Iterator
<1>10. ReaderInv'
  BY <1>2 DEF ReaderInv, ReadBegins
<1>11. LostChunkRestored'
  BY DEF IInv, LostChunkRestored, ReadBegins, Iterator
<1>12. ReaderFailsOnlyAtGap'
  BY DEF IInv, ReaderFailsOnlyAtGap, ReadBegins, Iterator
<1> QED
  BY <1>4, <1>5, <1>6, <1>7, <1>8, <1>9, <1>10, <1>11, <1>12 DEF IInv

(* What is left of the chunk begins after the block just read. *)
LEMMA ReadsBlockStep ==
  ASSUME IInv, ReadsBlock,
           currentHeight' = IF tool = "fragment" THEN currentHeight + 1 ELSE currentHeight
  PROVE  IInv'
<1>1. PICK n \in ChunkNames, p \in BOOLEAN, h \in 1..MaxHeight :
        /\ h = itb.next /\ h <= n /\ FirstIn(n) <= h
        /\ BlockRead(itb) = Line(h, p)
        /\ itb' = [chunk |-> n, rest |-> Lines(h + 1, n, p), next |-> h + 1]
  BY BlockFound DEF IInv, ReadsBlock
<1>2. n \in 1..MaxHeight /\ FirstIn(n) \in 1..n
  BY WholeChunk
<1>3. read' \in BlocksRead
  <2>1. p # FALSE
    BY <1>1, LineOfHeight DEF ReadsBlock
  <2>2. BlockRead(itb) = Line(h, TRUE)
    BY <1>1, <2>1
  <2> QED
    BY <2>2 DEF ReadsBlock, BlocksRead
<1>4. UNCHANGED <<chunks, temps, tool, pc, node, cancelled, missing, complete, opened, current,
                  finalName, lastFetchedHeight, endHeight, finished, faults>>
  BY DEF ReadsBlock
<1>5. PICK m \in 1..(MaxHeight + 1) : m = h + 1
             /\ itb' = [chunk |-> n, rest |-> Lines(m, n, p), next |-> m]
  BY <1>1
<1>6. TypeOK'
  <2>1. Lines(m, n, p) \in Seq(StoredLines)
    <3>1. m \in Nat \ {0} /\ n \in 0..MaxHeight /\ m <= n + 1
      BY <1>1, <1>2, <1>5
    <3> QED
      BY <3>1, LinesOfHeights
  <2>2. itb' \in [chunk : 0..MaxHeight, rest : Seq(StoredLines), next : HeightsAskedFor]
    BY <1>2, <1>5, <2>1 DEF HeightsAskedFor
  <2>3. currentHeight' \in {0} \cup HeightsAskedFor
    <3>1. tool = "fragment" => currentHeight = h
      BY <1>1 DEF IInv, ReaderInv, ReadsBlock
    <3>2. tool = "fragment" => currentHeight' = m
      BY <1>5, <3>1
    <3>3. m \in HeightsAskedFor
      BY DEF HeightsAskedFor
    <3> QED
      BY <3>2, <3>3 DEF IInv, TypeOK
  <2> QED
    BY <1>3, <1>4, <2>2, <2>3 DEF IInv, TypeOK
<1>7. ChunksWhole'
  BY DEF IInv, ChunksWhole, ReadsBlock
<1>8. UpdateInv'
  BY DEF IInv, UpdateInv, ReadsBlock
<1>9. FinalizeInv'
  BY DEF IInv, FinalizeInv, ReadsBlock, LastLocal, Finalizing, NothingEnds
<1>10. DumpInv'
  <2>1. LastLocal' = LastLocal
    BY <1>4 DEF LastLocal
  <2> QED
    BY <1>4, <2>1 DEF IInv, DumpInv, NothingEnds
<1>11. NodeInv'
  BY <1>4 DEF IInv, NodeInv
<1>12. ReaderInv'
  <2>1. tool = "fragment" => currentHeight' = m
    BY <1>1, <1>5 DEF IInv, ReaderInv, ReadsBlock
  <2>2. FirstIn(n) < m /\ m <= n + 1 /\ n # 0
    BY <1>1, <1>2, <1>5
  <2>3. itb'.chunk = n /\ itb'.next = m /\ itb'.rest = Lines(m, n, p)
    BY <1>5
  <2> QED
    BY <1>4, <2>1, <2>2, <2>3 DEF IInv, ReaderInv, ReadsBlock
<1>13. LostChunkRestored'
  BY DEF IInv, LostChunkRestored, ReadsBlock
<1>14. ReaderFailsOnlyAtGap'
  BY DEF IInv, ReaderFailsOnlyAtGap, ReadsBlock
<1> QED
  BY <1>6, <1>7, <1>8, <1>9, <1>10, <1>11, <1>12, <1>13, <1>14 DEF IInv

(* A reader fails where a chunk is missing. *)
LEMMA ReadFailsStep ==
  ASSUME IInv, ReadFails
  PROVE  IInv'
<1>1. DOMAIN chunks = {} \/ itb.next < 1 \/ ChunkOf(itb.next) \notin DOMAIN chunks
  BY BlockMissing DEF IInv, ReadFails
<1>2. TypeOK'
  BY DEF IInv, TypeOK, ReadFails, HeightsAskedFor
<1>3. ChunksWhole'
  BY DEF IInv, ChunksWhole, ReadFails
<1>4. UpdateInv'
  BY DEF IInv, UpdateInv, ReadFails
<1>5. FinalizeInv'
  BY DEF IInv, FinalizeInv, ReadFails, LastLocal, Finalizing, NothingEnds
<1>6. DumpInv'
  BY DEF IInv, DumpInv, ReadFails, LastLocal, NothingEnds
<1>7. NodeInv'
  BY DEF IInv, NodeInv, ReadFails
<1>8. ReaderInv'
  BY DEF IInv, ReaderInv, ReadFails
<1>9. LostChunkRestored'
  BY DEF IInv, LostChunkRestored, ReadFails
<1>10. ReaderFailsOnlyAtGap'
  BY <1>1 DEF ReaderFailsOnlyAtGap, ReadFails
<1> QED
  BY <1>2, <1>3, <1>4, <1>5, <1>6, <1>7, <1>8, <1>9, <1>10 DEF IInv

(* fragment takes the first chunk for a full one. *)
LEMMA FragmentBeginsStep ==
  ASSUME IInv, FragmentBegins
  PROVE  IInv'
<1>1. LastLocal \in 0..MaxHeight
  BY LastChunk DEF IInv
<1>2. FirstFetchedHeight \in HeightsAskedFor
  <2>1. DOMAIN chunks # {} /\ DOMAIN chunks \subseteq 1..MaxHeight
    BY DEF FragmentBegins, IInv, TypeOK
  <2>2. PICK s : s = DOMAIN chunks /\ s # {} /\ s \subseteq 1..MaxHeight
    BY <2>1
  <2>3. s \subseteq Nat
    BY <2>2
  <2>4. Min(s) \in s
    BY <2>2, <2>3, MinOf
  <2> QED
    BY <2>2, <2>4 DEF FirstFetchedHeight, HeightsAskedFor
<1>3. itb' = [chunk |-> 0, rest |-> << >>, next |-> FirstFetchedHeight]
      /\ currentHeight' = FirstFetchedHeight
  BY DEF FragmentBegins, Iterator
<1>4. itb' \in [chunk : 0..MaxHeight, rest : Seq(StoredLines), next : HeightsAskedFor]
  BY <1>2, <1>3
<1>5. TypeOK'
  BY <1>1, <1>2, <1>3, <1>4 DEF IInv, TypeOK, FragmentBegins
<1>6. ChunksWhole'
  BY DEF IInv, ChunksWhole, FragmentBegins, FirstFetchedHeight, Iterator
<1>7. UpdateInv'
  BY DEF IInv, UpdateInv, FragmentBegins, FirstFetchedHeight, Iterator
<1>8. FinalizeInv'
  BY DEF IInv, FinalizeInv, FragmentBegins, FirstFetchedHeight, Iterator, LastLocal,
         Finalizing, NothingEnds
<1>9. DumpInv'
  BY DEF IInv, DumpInv, FragmentBegins, FirstFetchedHeight, Iterator, LastLocal, NothingEnds
<1>10. NodeInv'
  BY DEF IInv, NodeInv, FragmentBegins
<1>11. ReaderInv'
  BY <1>3 DEF ReaderInv, FragmentBegins
<1>12. LostChunkRestored'
  BY DEF IInv, LostChunkRestored, FragmentBegins, FirstFetchedHeight, Iterator
<1>13. ReaderFailsOnlyAtGap'
  BY DEF IInv, ReaderFailsOnlyAtGap, FragmentBegins, FirstFetchedHeight, Iterator
<1> QED
  BY <1>5, <1>6, <1>7, <1>8, <1>9, <1>10, <1>11, <1>12, <1>13 DEF IInv

(* Only the context changes. *)
LEMMA InterruptStep ==
  ASSUME IInv, Interrupt
  PROVE  IInv'
<1>1. TypeOK'
  <2>1. faults' \in 0..MaxFaults /\ cancelled' = TRUE
    BY DEF IInv, TypeOK, Interrupt, Fault
  <2>2. UNCHANGED <<dirVars, tool, pc, node, missing, complete, fileVars, jobVars>>
    BY DEF Interrupt
  <2> QED
    BY <2>1, <2>2 DEF IInv, TypeOK
<1>2. ChunksWhole'
  BY DEF IInv, ChunksWhole, Interrupt, Fault
<1>3. UpdateInv'
  BY DEF IInv, UpdateInv, Interrupt, Fault
<1>4. FinalizeInv'
  BY DEF IInv, FinalizeInv, Interrupt, Fault, LastLocal, Finalizing, NothingEnds
<1>5. DumpInv'
  BY DEF IInv, DumpInv, Interrupt, Fault, LastLocal, NothingEnds
<1>6. NodeInv'
  BY DEF IInv, NodeInv, Interrupt, Fault
<1>7. ReaderInv'
  BY DEF IInv, ReaderInv, Interrupt, Fault
<1>8. LostChunkRestored'
  BY DEF IInv, LostChunkRestored, Interrupt, Fault
<1>9. ReaderFailsOnlyAtGap'
  BY DEF IInv, ReaderFailsOnlyAtGap, Interrupt, Fault
<1> QED
  BY <1>1, <1>2, <1>3, <1>4, <1>5, <1>6, <1>7, <1>8, <1>9 DEF IInv

(* Only the directory is left. *)
LEMMA KillStep ==
  ASSUME IInv, Kill
  PROVE  IInv'
<1>1. TypeOK'
  <2>1. DirectoryOK'
    BY DEF IInv, TypeOK, Kill, Fault
  <2>2. ToolOK'
    BY DEF IInv, TypeOK, Kill, Fault
  <2>3. FileOK'
    <3>1. opened' = FALSE /\ current' = << >> /\ finalName' = 0
      BY DEF Kill, Fault
    <3>2. opened' \in BOOLEAN
      BY <3>1
    <3>3. finalName' \in 0..MaxHeight
      BY <3>1
    <3>4. current' \in Seq(StoredLines)
      BY <3>1
    <3> QED
      BY <3>2, <3>3, <3>4
  <2>4. JobOK'
    BY DEF IInv, TypeOK, Kill, Fault
  <2> QED
    BY <2>1, <2>2, <2>3, <2>4 DEF TypeOK
<1>2. ChunksWhole'
  BY DEF IInv, ChunksWhole, Kill, Fault
<1>3. UpdateInv'
  BY DEF IInv, UpdateInv, Kill, Fault
<1>4. FinalizeInv'
  BY DEF IInv, FinalizeInv, Kill, Fault, LastLocal, Finalizing, NothingEnds
<1>5. DumpInv'
  BY DEF IInv, DumpInv, Kill, Fault, LastLocal, NothingEnds
<1>6. NodeInv'
  BY DEF IInv, NodeInv, Kill, Fault
<1>7. ReaderInv'
  BY DEF IInv, ReaderInv, Kill, Fault
<1>8. LostChunkRestored'
  BY DEF IInv, LostChunkRestored, Kill, Fault
<1>9. ReaderFailsOnlyAtGap'
  BY DEF IInv, ReaderFailsOnlyAtGap, Kill, Fault
<1> QED
  BY <1>1, <1>2, <1>3, <1>4, <1>5, <1>6, <1>7, <1>8, <1>9 DEF IInv

-----------------------------------------------------------------------------
(* The invariant. *)

(* The directory the owner made holds whole chunks, and nothing runs. *)
LEMMA InitIInv ==
  ASSUME Init
  PROVE  IInv
<1>0. PICK names \in SUBSET {n \in ChunkNames : n <= ForkHeight} :
        \E pure \in [names -> BOOLEAN] : chunks = [n \in names |-> LinesOf(n, pure[n])]
  BY DEF Init
<1>1. PICK pure \in [names -> BOOLEAN] : chunks = [n \in names |-> LinesOf(n, pure[n])]
  BY <1>0
<1>2. names \subseteq 1..MaxHeight
  BY DEF ChunkNames
<1>3. DOMAIN chunks = names /\ \A n \in names : chunks[n] = LinesOf(n, pure[n])
  BY <1>1
<1>4. ChunksWhole
  <2> SUFFICES ASSUME NEW n \in names
               PROVE  n \in ChunkNames /\ chunks[n] \in {LinesOf(n, TRUE), LinesOf(n, FALSE)}
    BY <1>3 DEF ChunksWhole
  <2>1. pure[n] \in BOOLEAN
    OBVIOUS
  <2> QED
    BY <1>3, <2>1
<1>5. DirectoryOK
  <2>1. \A n \in names : LinesOf(n, pure[n]) \in Seq(StoredLines)
    <3> TAKE n \in names
    <3>1. n \in ChunkNames /\ pure[n] \in BOOLEAN
      OBVIOUS
    <3> QED
      BY <3>1, WholeChunk
  <2>2. chunks \in [names -> Seq(StoredLines)]
    BY <1>1, <2>1
  <2> QED
    BY <1>2, <1>3, <2>2 DEF Init
<1>6. node \in Nodes
        /\ node \in [earliest : 1..MaxHeight, latest : 1..MaxHeight, fork : 0..MaxHeight]
  BY DEF Init, Nodes
<1>7. ToolOK
  <2>1. tool = "read" /\ pc = "down" /\ cancelled = FALSE /\ missing = {}
          /\ complete = FALSE /\ faults = 0
    BY DEF Init
  <2>2. cancelled \in BOOLEAN /\ complete \in BOOLEAN
    BY <2>1
  <2>3. missing \subseteq ListedChunks
    BY <2>1
  <2>4. faults \in 0..MaxFaults
    BY <2>1
  <2> QED
    BY <1>6, <2>1, <2>2, <2>3, <2>4
<1>8. FileOK
  <2>1. opened = FALSE /\ current = << >> /\ finalName = 0
    BY DEF Init
  <2>2. opened \in BOOLEAN
    BY <2>1
  <2>3. finalName \in 0..MaxHeight
    BY <2>1
  <2>4. current \in Seq(StoredLines)
    BY <2>1
  <2> QED
    BY <2>2, <2>3, <2>4
<1>9. itb = [chunk |-> 0, rest |-> << >>, next |-> 1]
  BY DEF Init, Iterator
<1>10. JobOK
  <2>1. lastFetchedHeight = 0 /\ endHeight = 0 /\ currentHeight = 0 /\ read = NothingRead
          /\ finished = FALSE
    BY DEF Init
  <2>2. itb \in [chunk : 0..MaxHeight, rest : Seq(StoredLines), next : HeightsAskedFor]
    BY <1>9 DEF HeightsAskedFor
  <2>3. /\ lastFetchedHeight \in 0..MaxHeight /\ endHeight \in 0..MaxHeight
        /\ currentHeight \in {0} \cup HeightsAskedFor
    BY <2>1
  <2>4. read \in {NothingRead} \cup BlocksRead /\ finished \in BOOLEAN
    BY <2>1
  <2> QED
    BY <2>2, <2>3, <2>4
<1>11. UpdateInv /\ FinalizeInv /\ DumpInv /\ LostChunkRestored /\ ReaderFailsOnlyAtGap
  BY DEF Init, UpdateInv, FinalizeInv, Finalizing, DumpInv, LostChunkRestored,
         ReaderFailsOnlyAtGap
<1>12. NodeInv /\ ReaderInv
  BY <1>6, <1>9 DEF Init, NodeInv, ReaderInv
<1> QED
  BY <1>4, <1>5, <1>7, <1>8, <1>10, <1>11, <1>12 DEF IInv, TypeOK

(* Nothing changes when nothing happens. *)
LEMMA StutterStep ==
  ASSUME IInv, UNCHANGED vars
  PROVE  IInv'
<1>1. TypeOK'
  <2>1. DirectoryOK'
    BY DEF vars, IInv, TypeOK
  <2>2. ToolOK'
    BY DEF vars, IInv, TypeOK
  <2>3. FileOK'
    BY DEF vars, IInv, TypeOK
  <2>4. JobOK'
    BY DEF vars, IInv, TypeOK
  <2> QED
    BY <2>1, <2>2, <2>3, <2>4 DEF TypeOK
<1>2. ChunksWhole'
  BY DEF vars, IInv, ChunksWhole
<1>3. UpdateInv' /\ NodeInv'
  BY DEF vars, IInv, UpdateInv, NodeInv
<1>4. FinalizeInv' /\ DumpInv'
  BY DEF vars, IInv, FinalizeInv, DumpInv, Finalizing, NothingEnds, LastLocal
<1>5. ReaderInv' /\ LostChunkRestored' /\ ReaderFailsOnlyAtGap'
  BY DEF vars, IInv, ReaderInv, LostChunkRestored, ReaderFailsOnlyAtGap
<1> QED
  BY <1>1, <1>2, <1>3, <1>4, <1>5 DEF IInv

(* No step breaks the invariant. *)
LEMMA StepIInv ==
  ASSUME IInv, [Next]_vars
  PROVE  IInv'
<1>1. ASSUME NEW t \in {"dump", "fragment", "read"}, NEW n \in Nodes, Start(t, n) PROVE IInv'
  BY <1>1, StartStep
<1>2. CASE UpdateStep
  BY <1>2, FetchChunkStep, DownloadMatchesStep, UpdateReturnsStep DEF UpdateStep
<1>3. CASE FinalizeStep
  BY <1>3, RemoveOldStep, RenameNewStep, CloseStep DEF FinalizeStep
<1>4. CASE StoppedWhileOpening
  BY <1>4, ExitStep DEF StoppedWhileOpening
<1>5. CASE JobCancelled
  BY <1>5, JobReturnsStep DEF JobCancelled
<1>6. CASE DumpStep
  <2>1. CASE DumpBegins
    BY <2>1, DumpBeginsStep
  <2>2. CASE NothingToDump
    BY <2>2, ExitStep DEF NothingToDump
  <2>3. CASE DumpNext
    BY <2>3, DumpNextStep
  <2>4. CASE DumpReachesEnd
    BY <2>4, JobReturnsStep DEF DumpReachesEnd
  <2> QED
    BY <1>6, <2>1, <2>2, <2>3, <2>4 DEF DumpStep
<1>7. CASE ReadStep
  <2>1. CASE ReadBegins
    BY <2>1, ReadBeginsStep
  <2>2. CASE StoreNotRead
    BY <2>2, ExitStep DEF StoreNotRead
  <2>3. CASE ReadNext
    <3>1. currentHeight' = IF tool = "fragment" THEN currentHeight + 1 ELSE currentHeight
      BY <2>3 DEF ReadNext
    <3> QED
      BY <2>3, <3>1, ReadsBlockStep DEF ReadNext
  <2>4. CASE ReaderPanics
    BY <2>4, ExitStep DEF ReaderPanics
  <2>5. CASE ReadEnds
    BY <2>5, JobReturnsStep DEF ReadEnds
  <2>6. CASE ReadFails
    BY <2>6, ReadFailsStep
  <2>7. CASE ReadFailed
    BY <2>7, JobReturnsStep DEF ReadFailed
  <2> QED
    BY <1>7, <2>1, <2>2, <2>3, <2>4, <2>5, <2>6, <2>7 DEF ReadStep
<1>8. CASE FragmentStep
  <2>1. CASE FragmentBegins
    BY <2>1, FragmentBeginsStep
  <2>2. CASE FragmentPanics
    BY <2>2, ExitStep DEF FragmentPanics
  <2>3. CASE FragmentPasses
    <3>1. currentHeight' = IF tool = "fragment" THEN currentHeight + 1 ELSE currentHeight
      BY <2>3 DEF FragmentPasses
    <3> QED
      BY <2>3, <3>1, ReadsBlockStep DEF FragmentPasses
  <2>4. CASE FragmentEnds
    BY <2>4, JobReturnsStep DEF FragmentEnds
  <2> QED
    BY <1>8, <2>1, <2>2, <2>3, <2>4 DEF FragmentStep
<1>9. CASE Interrupt
  BY <1>9, InterruptStep
<1>10. CASE Kill
  BY <1>10, KillStep
<1>11. CASE UNCHANGED vars
  BY <1>11, StutterStep
<1> QED
  BY <1>1, <1>2, <1>3, <1>4, <1>5, <1>6, <1>7, <1>8, <1>9, <1>10, <1>11 DEF Next, ToolStep

(* The inductive invariant holds of every reachable state: what is in each  *)
(* file and what is left of the one being read, at every step.              *)
THEOREM Invariance == Spec => []IInv
BY InitIInv, StepIInv, PTL DEF Spec

(* The variables have their types: in particular a chunk never holds        *)
(* anything but stored blocks.                                              *)
THEOREM TypeCorrect == Spec => []TypeOK
<1>1. IInv => TypeOK
  BY DEF IInv
<1> QED
  BY Invariance, <1>1, PTL

(* finalizeChunk only ever gives its name to a whole chunk: what an         *)
(* interrupt, a kill, or a bad download leaves is never taken for one.      *)
THEOREM ChunksAreWhole == Spec => []ChunksWhole
<1>1. IInv => ChunksWhole
  BY DEF IInv
<1> QED
  BY Invariance, <1>1, PTL

(* updateFromRemote, when it gets through its list, leaves nothing of it    *)
(* missing, below the last local chunk or above.                            *)
THEOREM ListedChunksComeBack == Spec => []LostChunkRestored
<1>1. IInv => LostChunkRestored
  BY DEF IInv
<1> QED
  BY Invariance, <1>1, PTL

(* The iterator of the store passes every boundary between chunks: it fails *)
(* only where a chunk is missing or no block has the height.                *)
THEOREM ReaderStopsOnlyAtGap == Spec => []ReaderFailsOnlyAtGap
<1>1. IInv => ReaderFailsOnlyAtGap
  BY DEF IInv
<1> QED
  BY Invariance, <1>1, PTL

(* A block read from the store is recorded as the one fetched from the node *)
(* would be: neither the place of the mode, nor its loss in the events of   *)
(* the transactions, nor the two lists of events make a difference, as long *)
(* as the node lists the events of the end of a block last.                 *)
THEOREM StoredBlocksAsFetched == Spec => []RecordedAsFetched
<1>1. TypeOK => RecordedAsFetched
  <2> SUFFICES ASSUME TypeOK, read # NothingRead PROVE RecordedAsFetched
    BY DEF RecordedAsFetched
  <2>1. PICK h \in 1..MaxHeight : read = StoredToBlock(Line(h, TRUE))
    BY DEF TypeOK, BlocksRead
  <2>2. read.height = h
    BY <2>1 DEF StoredToBlock, Line, BlockToStored
  <2>3. Recorded(read.FinalizeBlockEvents) = Recorded(Blocks[h].FinalizeBlockEvents)
    BY <2>1, BlockEventsAsFetched
  <2>4. Each(Recorded, read.TxsResults) = Each(Recorded, Blocks[h].TxsResults)
    <3> DEFINE s == Blocks[h].TxsResults
    <3>1. s \in Seq(Seq(Events))
      BY StoreAssumption DEF ChainBlock
    <3>2. PICK n \in Nat : DOMAIN s = 1..n /\ \A i \in 1..n : s[i] \in Seq(Events)
      BY <3>1
    <3>3. read.TxsResults =
            [i \in DOMAIN s |-> Each(LAMBDA e : TendermintToCometEvent(e, ""),
                                     Each(CometToTendermintEvent, s[i]))]
      BY <2>1 DEF StoredToBlock, Line, BlockToStored, Each
    <3> HIDE DEF s
    <3>4. ASSUME NEW i \in 1..n
          PROVE  Recorded(read.TxsResults[i]) = Recorded(s[i])
      <4>1. s[i] \in Seq(Events) /\ DOMAIN s[i] = 1..Len(s[i])
        BY <3>2
      <4>2. read.TxsResults[i] = [k \in 1..Len(s[i]) |-> ReadEvent(s[i][k], "")]
        BY <3>2, <3>3, <4>1 DEF Each, ReadEvent
      <4>3. \A mode, t : t = [k \in 1..Len(s[i]) |-> ReadEvent(s[i][k], mode)]
                           => Recorded(t) = Recorded(s[i])
        BY <4>1, RecordedEvents
      <4> QED
        BY <4>2, <4>3
    <3>5. DOMAIN read.TxsResults = 1..n
      BY <3>2, <3>3
    <3> QED
      BY <3>2, <3>4, <3>5 DEF Each, s
  <2>5. read.PureBlock.txs = Blocks[h].PureBlock.txs
    <3>1. Blocks[h].PureBlock = [txs |-> Blocks[h].PureBlock.txs,
                                 evidence |-> Blocks[h].PureBlock.evidence]
      BY StoreAssumption DEF ChainBlock
    <3> QED
      BY <2>1, <3>1 DEF StoredToBlock, Line, BlockToStored, CometToTendermintBlock,
                        TendermintToCometBlock
  <2> QED
    BY <2>2, <2>3, <2>4, <2>5 DEF RecordedAsFetched
<1> QED
  BY TypeCorrect, <1>1, PTL

-----------------------------------------------------------------------------
(* The promise to the readers. *)

(* What the owner made is an archive. *)
LEMMA InitPromise ==
  ASSUME Init
  PROVE  Promise!Init
BY InitIInv DEF IInv, ChunksWhole, Promise!Init

(* The rename of a finished file adds its chunk, one of the list or the     *)
(* next after the last.                                                     *)
LEMMA RenamePromise ==
  ASSUME IInv, RenameNew
  PROVE  Promise!Next
<1>1. /\ finalName \in ChunkNames /\ finalName \notin DOMAIN chunks
      /\ DOMAIN chunks' = DOMAIN chunks \cup {finalName}
  BY DEF IInv, FinalizeInv, Finalizing, RenameNew
<1>2. finalName \in ListedChunks \/ Promise!IsNext(finalName)
  <2>1. CASE currentHeight = 0
    BY <2>1 DEF IInv, FinalizeInv, Finalizing, RenameNew, ListedFromGenesis
  <2>2. CASE currentHeight # 0
    <3>1. LastLocal < finalName /\ NothingEnds(LastLocal + 1, finalName - 1)
      BY <2>2 DEF IInv, FinalizeInv, Finalizing, RenameNew
    <3>2. /\ LastLocal \in 0..MaxHeight
          /\ DOMAIN chunks = {} => LastLocal = StoreBase
          /\ DOMAIN chunks # {} => LastLocal \in DOMAIN chunks
      BY LastChunk DEF IInv
    <3>3. SUFFICES ASSUME NEW m \in ChunkNames, StoreBase < m, m < finalName,
                            m \notin DOMAIN chunks
                   PROVE  \E k \in DOMAIN chunks : m < k
      BY DEF Promise!IsNext
    <3>4. m \in Nat /\ finalName \in Nat /\ EndsChunk(m)
      BY <1>1 DEF ChunkNames
    <3>5. ~(LastLocal < m)
      <4> SUFFICES ASSUME LastLocal < m PROVE FALSE
        OBVIOUS
      <4>1. m \in (LastLocal + 1)..(finalName - 1)
        BY <3>2, <3>3, <3>4
      <4> QED
        BY <3>1, <3>4, <4>1 DEF NothingEnds
    <3>6. DOMAIN chunks # {}
      BY <3>2, <3>3, <3>5
    <3>7. LastLocal \in DOMAIN chunks /\ LastLocal # m
      BY <3>2, <3>3, <3>6
    <3> QED
      BY <3>2, <3>4, <3>5, <3>7
  <2> QED
    BY <2>1, <2>2
<1> QED
  BY <1>1, <1>2 DEF Promise!Next, Promise!Add

(* Every other step leaves the names of the chunks as they are. *)
LEMMA StepPromise ==
  ASSUME IInv, [Next]_vars
  PROVE  [Promise!Next]_(DOMAIN chunks)
<1>1. ASSUME NEW t \in {"dump", "fragment", "read"}, NEW n \in Nodes, Start(t, n)
      PROVE  UNCHANGED chunks
  BY <1>1 DEF Start, CleanUp
<1>2. CASE UpdateStep
  BY <1>2 DEF UpdateStep, FetchChunk, DownloadMatches, UpdateReturns, CleanUp
<1>3. CASE RemoveOld
  <2>1. finalName \notin DOMAIN chunks
    BY <1>3 DEF IInv, FinalizeInv, Finalizing, RemoveOld
  <2>2. DOMAIN chunks' = DOMAIN chunks
    BY <1>3, <2>1 DEF RemoveOld, Restrict
  <2> QED
    BY <2>2
<1>4. CASE RenameNew
  BY <1>4, RenamePromise
<1>5. CASE Close
  BY <1>5 DEF Close
<1>6. CASE StoppedWhileOpening \/ JobCancelled
  BY <1>6 DEF StoppedWhileOpening, Exit, JobCancelled, JobReturns
<1>7. CASE DumpStep
  BY <1>7 DEF DumpStep, DumpBegins, NothingToDump, Exit, DumpNext, DumpBlock, DumpReachesEnd,
              JobReturns
<1>8. CASE ReadStep
  <2>1. UNCHANGED chunks
    BY <1>8 DEF ReadStep, ReadBegins, StoreNotRead, Exit, ReadNext, ReadsBlock, ReaderPanics,
                ReadEnds, ReadFails, ReadFailed, JobReturns
  <2> QED
    BY <2>1
<1>9. CASE FragmentStep
  <2>1. UNCHANGED chunks
    BY <1>9 DEF FragmentStep, FragmentBegins, FragmentPanics, Exit, FragmentPasses, ReadsBlock,
                FragmentEnds, JobReturns
  <2> QED
    BY <2>1
<1>10. CASE Interrupt \/ Kill
  BY <1>10 DEF Interrupt, Kill
<1>11. CASE UNCHANGED vars
  BY <1>11 DEF vars
<1> QED
  BY <1>1, <1>2, <1>3, <1>4, <1>5, <1>6, <1>7, <1>8, <1>9, <1>10, <1>11
     DEF Next, ToolStep, FinalizeStep

(* The store implements Archive: chunks appear whole, in order or from the  *)
(* list, and none that was there is ever gone, though finalizeChunk removes *)
(* the old file of a name before it gives the name to the new one.          *)
THEOREM StoreImplementsArchive == Spec => ImplementsArchive
<1>1. Init => Promise!Init
  BY InitPromise
<1>2. IInv /\ [Next]_vars => [Promise!Next]_(DOMAIN chunks)
  BY StepPromise
<1> QED
  BY <1>1, <1>2, Invariance, PTL DEF Spec, ImplementsArchive, Promise!Spec
=============================================================================
