--------------------------- MODULE SequenceLemmas ---------------------------
(***************************************************************************)
(* Facts about sequences and numbers that the proofs about the lists and   *)
(* texts of this program (connections, toasts, data_) share.               *)
(***************************************************************************)
EXTENDS Integers, Sequences, SequencesExt, SequenceTheorems, WellFoundedInduction, TLAPS

(* Numbers are well ordered: of some there is a least. *)
LEMMA LeastNumber ==
    ASSUME NEW T, T \subseteq Nat, T # {}
    PROVE  \E m \in T : \A k \in T : m <= k
<1> DEFINE R == {pair \in Nat \X Nat : pair[1] < pair[2]}
<1>1. IsWellFoundedOn(R, Nat)
  BY NatLessThanWellFounded DEF OpToRel
<1>2. PICK m \in T : \A k \in T : ~(<<k, m>> \in R)
  <2> HIDE DEF R
  <2> QED  BY <1>1, WFMin
<1>3. ASSUME NEW k \in T PROVE m <= k
  <2>1. m \in Nat /\ k \in Nat
    OBVIOUS
  <2>2. ~(k < m)
    BY <1>2, <2>1
  <2> QED  BY <2>1, <2>2
<1> QED  BY <1>3

(* Induction, for a set of numbers in place of a predicate: what holds of 0 *)
(* and, with each number below n, of the next one, holds up to n.          *)
LEMMA Induction ==
    ASSUME NEW n \in Nat, NEW T, 0 \in T,
           \A k \in 0..(n - 1) : k \in T => k + 1 \in T
    PROVE  \A k \in 0..n : k \in T
<1> DEFINE U == {k \in 0..n : k \notin T}
<1> SUFFICES ASSUME U # {} PROVE FALSE
  OBVIOUS
<1>1. U \subseteq Nat
  OBVIOUS
<1>2. PICK m \in U : \A k \in U : m <= k
  <2> HIDE DEF U
  <2> QED  BY <1>1, LeastNumber
<1>3. m \in 0..n /\ m \notin T /\ m # 0
  OBVIOUS
<1>4. m - 1 \in 0..(n - 1) /\ m - 1 \in 0..n /\ (m - 1) + 1 = m /\ ~(m <= m - 1)
  BY <1>3
<1>5. m - 1 \in T
  BY <1>2, <1>4
<1> QED  BY <1>3, <1>4, <1>5

(* Appending a new element keeps a sequence free of duplicates. *)
LEMMA AppendNew ==
    ASSUME NEW S, NEW s \in Seq(S), NEW e \in S
    PROVE  /\ Append(s, e) \in Seq(S)
           /\ Len(Append(s, e)) = Len(s) + 1
           /\ ToSet(Append(s, e)) = ToSet(s) \cup {e}
           /\ IsInjective(s) /\ e \notin ToSet(s) => IsInjective(Append(s, e))
<1>1. /\ Append(s, e) \in Seq(S)
      /\ Len(Append(s, e)) = Len(s) + 1
      /\ \A i \in 1..Len(s) : Append(s, e)[i] = s[i]
      /\ Append(s, e)[Len(s) + 1] = e
  BY AppendProperties
<1>2. /\ Len(s) \in Nat
      /\ DOMAIN s = 1..Len(s)
      /\ DOMAIN Append(s, e) = 1..(Len(s) + 1)
  BY <1>1, LenProperties
<1>3. ToSet(Append(s, e)) = ToSet(s) \cup {e}
  BY <1>1, <1>2 DEF ToSet
<1>4. IsInjective(s) /\ e \notin ToSet(s) => IsInjective(Append(s, e))
  BY <1>1, <1>2 DEF ToSet, IsInjective
<1> QED  BY <1>1, <1>3, <1>4

(* Taking the head off a sequence without duplicates removes it. *)
LEMMA TailRemovesHead ==
    ASSUME NEW S, NEW s \in Seq(S), s # << >>
    PROVE  /\ Head(s) \in S
           /\ Head(s) \in ToSet(s)
           /\ Tail(s) \in Seq(S)
           /\ ToSet(Tail(s)) \subseteq ToSet(s)
           /\ IsInjective(s) => /\ IsInjective(Tail(s))
                                /\ Head(s) \notin ToSet(Tail(s))
<1>1. /\ Head(s) = s[1]
      /\ Tail(s) \in Seq(S)
      /\ Len(Tail(s)) = Len(s) - 1
      /\ \A i \in 1..Len(Tail(s)) : Tail(s)[i] = s[i + 1]
  BY HeadTailProperties
<1>2. /\ Len(s) \in Nat \ {0}
      /\ DOMAIN s = 1..Len(s)
      /\ DOMAIN Tail(s) = 1..(Len(s) - 1)
  BY <1>1, LenProperties, EmptySeq
<1>3. Head(s) \in S
  BY <1>1, <1>2, ElementOfSeq
<1>4. /\ Head(s) \in ToSet(s)
      /\ ToSet(Tail(s)) \subseteq ToSet(s)
  BY <1>1, <1>2 DEF ToSet
<1>5. IsInjective(s) => IsInjective(Tail(s)) /\ Head(s) \notin ToSet(Tail(s))
  BY <1>1, <1>2 DEF ToSet, IsInjective
<1> QED  BY <1>1, <1>3, <1>4, <1>5

(* RemoveAt takes one element out; those behind it move up by one place. *)
LEMMA RemoveAtProperties ==
    ASSUME NEW S, NEW s \in Seq(S), NEW k \in 1..Len(s)
    PROVE  /\ RemoveAt(s, k) \in Seq(S)
           /\ Len(RemoveAt(s, k)) = Len(s) - 1
           /\ \A i \in 1..(k - 1) : RemoveAt(s, k)[i] = s[i]
           /\ \A i \in k..(Len(s) - 1) : RemoveAt(s, k)[i] = s[i + 1]
<1> DEFINE n == Len(s)
           left == SubSeq(s, 1, k - 1)
           right == SubSeq(s, k + 1, n)
           t == left \o right
<1>1. n \in Nat /\ DOMAIN s = 1..n
  BY LenProperties
<1>2. k \in Int /\ n \in Int /\ 1 <= k /\ k <= n
  BY <1>1
<1> HIDE DEF n
<1>3. /\ left \in Seq(S)
      /\ Len(left) = k - 1
      /\ \A i \in 1..(k - 1) : left[i] = s[i]
  <2>1. \A i \in 1..(k - 1) : s[i] \in S
    BY <1>1, <1>2, ElementOfSeq DEF n
  <2>2. /\ left \in Seq(S)
        /\ Len(left) = IF 1 <= k - 1 THEN (k - 1) - 1 + 1 ELSE 0
        /\ \A i \in 1..((k - 1) - 1 + 1) : left[i] = s[1 + i - 1]
    BY <1>2, <2>1, SubSeqProperties
  <2> HIDE DEF left
  <2> QED  BY <2>2, <1>2
<1>4. /\ right \in Seq(S)
      /\ Len(right) = n - k
      /\ \A i \in 1..(n - k) : right[i] = s[k + i]
  <2>1. \A i \in (k + 1)..n : s[i] \in S
    BY <1>1, <1>2, ElementOfSeq DEF n
  <2>2. /\ right \in Seq(S)
        /\ Len(right) = IF k + 1 <= n THEN n - (k + 1) + 1 ELSE 0
        /\ \A i \in 1..(n - (k + 1) + 1) : right[i] = s[(k + 1) + i - 1]
    BY <1>2, <2>1, SubSeqProperties
  <2> HIDE DEF right
  <2>3. Len(right) = n - k
    BY <2>2, <1>2
  <2>4. ASSUME NEW i \in 1..(n - k) PROVE right[i] = s[k + i]
    <3>1. i \in 1..(n - (k + 1) + 1) /\ (k + 1) + i - 1 = k + i
      BY <1>2
    <3> QED  BY <3>1, <2>2
  <2> QED  BY <2>2, <2>3, <2>4
<1>5. /\ t \in Seq(S)
      /\ Len(t) = Len(left) + Len(right)
      /\ \A i \in 1..(Len(left) + Len(right)) :
            t[i] = IF i <= Len(left) THEN left[i] ELSE right[i - Len(left)]
  BY <1>3, <1>4, ConcatProperties
<1>6. t = RemoveAt(s, k)
  BY DEF RemoveAt, n
<1> HIDE DEF left, right, t
<1>7. Len(t) = n - 1
  BY <1>5, <1>2, <1>3, <1>4
<1>8. ASSUME NEW i \in 1..(k - 1) PROVE t[i] = s[i]
  <2>1. i \in 1..(Len(left) + Len(right)) /\ i <= Len(left)
    BY <1>2, <1>3, <1>4
  <2> QED  BY <2>1, <1>5, <1>3
<1>9. ASSUME NEW i \in k..(n - 1) PROVE t[i] = s[i + 1]
  <2>1. /\ i \in 1..(Len(left) + Len(right))
        /\ ~(i <= Len(left))
        /\ i - Len(left) \in 1..(n - k)
        /\ k + (i - Len(left)) = i + 1
    BY <1>2, <1>3, <1>4
  <2> QED  BY <2>1, <1>5, <1>4
<1> QED  BY <1>5, <1>6, <1>7, <1>8, <1>9 DEF n

(* A sequence that agrees with another place by place is a prefix of it. *)
LEMMA PrefixByPlace ==
    ASSUME NEW S, NEW s \in Seq(S), NEW t \in Seq(S),
           Len(s) <= Len(t), \A k \in 1..Len(s) : s[k] = t[k]
    PROVE  IsPrefix(s, t)
<1>1. Len(s) \in Nat /\ Len(t) \in Nat
  BY LenProperties
<1>2. SubSeq(s, 1, Len(s)) = s
  BY SubSeqFull
<1>3. \A k \in 1..Len(s) : t[k] \in S
  BY <1>1, ElementOfSeq
<1>4. /\ SubSeq(t, 1, Len(s)) \in Seq(S)
      /\ Len(SubSeq(t, 1, Len(s))) = Len(s)
      /\ \A k \in 1..Len(s) : SubSeq(t, 1, Len(s))[k] = t[k]
  <2> DEFINE n == Len(s)
             u == SubSeq(t, 1, n)
  <2>1. /\ u \in Seq(S)
        /\ Len(u) = IF 1 <= n THEN n - 1 + 1 ELSE 0
        /\ \A k \in 1..(n - 1 + 1) : u[k] = t[1 + k - 1]
    BY <1>1, <1>3, SubSeqProperties
  <2>2. n \in Nat
    BY <1>1
  <2> HIDE DEF u, n
  <2>3. Len(u) = n /\ \A k \in 1..n : u[k] = t[k]
    BY <2>1, <2>2
  <2> QED  BY <2>1, <2>3 DEF u, n
<1>5. SubSeq(t, 1, Len(s)) = s
  BY <1>4, SeqEqual
<1> QED  BY <1>2, <1>5 DEF IsPrefix

(* Likewise, from the end, a suffix. *)
LEMMA SuffixByPlace ==
    ASSUME NEW S, NEW s \in Seq(S), NEW t \in Seq(S),
           Len(s) <= Len(t), \A k \in 1..Len(s) : s[k] = t[Len(t) - Len(s) + k]
    PROVE  IsSuffix(s, t)
<1> DEFINE m == Len(s)
           n == Len(t)
<1>1. m \in Nat /\ n \in Nat /\ m <= n
  BY LenProperties
<1>2. ASSUME NEW u \in Seq(S)
      PROVE  /\ Reverse(u) \in Seq(S)
             /\ Len(Reverse(u)) = Len(u)
             /\ \A k \in 1..Len(u) : Reverse(u)[k] = u[(Len(u) - k) + 1]
  <2>1. Len(u) \in Nat
    BY LenProperties
  <2>2. \A k \in 1..Len(u) : u[(Len(u) - k) + 1] \in S
    <3>1. ASSUME NEW k \in 1..Len(u) PROVE (Len(u) - k) + 1 \in 1..Len(u)
      BY <2>1
    <3> QED  BY <3>1, ElementOfSeq
  <2>3. Reverse(u) \in [1..Len(u) -> S]
    BY <2>2 DEF Reverse
  <2>4. Reverse(u) \in Seq(S)
    BY <2>1, <2>3, SeqDef
  <2> QED  BY <2>1, <2>3, <2>4, LenProperties DEF Reverse
<1> HIDE DEF m, n
<1>3. ASSUME NEW k \in 1..m PROVE Reverse(s)[k] = Reverse(t)[k]
  <2>1. /\ k \in 1..n /\ (m - k) + 1 \in 1..m
        /\ (n - m) + ((m - k) + 1) = (n - k) + 1
    BY <1>1
  <2>2. Reverse(s)[k] = s[(m - k) + 1] /\ Reverse(t)[k] = t[(n - k) + 1]
    BY <1>2, <2>1 DEF m, n
  <2>3. s[(m - k) + 1] = t[(n - m) + ((m - k) + 1)]
    BY <2>1 DEF m, n
  <2> QED  BY <2>1, <2>2, <2>3
<1>4. /\ Reverse(s) \in Seq(S) /\ Reverse(t) \in Seq(S)
      /\ Len(Reverse(s)) = m /\ Len(Reverse(t)) = n
  BY <1>2 DEF m, n
<1>5. IsPrefix(Reverse(s), Reverse(t))
  BY <1>1, <1>3, <1>4, PrefixByPlace
<1> QED  BY <1>5 DEF IsSuffix
=============================================================================
