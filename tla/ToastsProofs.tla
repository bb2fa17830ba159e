---------------------------- MODULE ToastsProofs ----------------------------
(***************************************************************************)
(* Proofs about Toasts, for all limits, dismiss times and bounds.          *)
(***************************************************************************)
EXTENDS Toasts, SequenceLemmas, SequenceTheorems, FiniteSetTheorems, TLAPS

-----------------------------------------------------------------------------
(***************************************************************************)
(* The inductive invariant: besides the types, that no id is used twice,   *)
(* that what was due is expired and stays so, and what the walk has done   *)
(* with the toasts it has passed.                                          *)
(***************************************************************************)
Toast == [id : 1..inserted, dismissTime : DismissTimes, creationTime : 0..now]

Places == 1..Len(notifications)

DistinctIds == \A p, q \in Places : notifications[p].id = notifications[q].id => p = q

AllInserted == erased + Len(notifications) <= inserted

DueExpired == \A p \in Places : notifications[p].id \in due => Expired(notifications[p])

Reached(n) == IF n < Limit + 1 THEN n ELSE Limit + 1

ShownInOrder ==
    rendering /\ erased = 0
        => /\ i <= Len(notifications)
           /\ shown = [k \in 1..Reached(i) |-> notifications[k].id]

Passed == {notifications[p].id : p \in {q \in Places : q <= i}}

FewDuePassed == rendering => Cardinality(due \cap Passed) <= erased

ToastsInv ==
    /\ ToastsTypeOK /\ DistinctIds /\ AllInserted
    /\ DueExpired /\ ShownInOrder /\ FewDuePassed

-----------------------------------------------------------------------------
(* What the type invariant says of the vector. *)
LEMMA ToastFields ==
    ASSUME ToastsTypeOK
    PROVE  /\ notifications \in Seq(Toast)
           /\ now \in Nat /\ inserted \in Nat /\ erased \in Nat
           /\ Len(notifications) \in Nat
           /\ DOMAIN notifications = Places
           /\ \A p \in Places : /\ notifications[p] \in Toast
                                /\ notifications[p].id \in 1..inserted
                                /\ notifications[p].creationTime \in 0..now
                                /\ notifications[p].dismissTime \in Nat
           /\ ToSet(notifications) = {notifications[p] : p \in Places}
           /\ Ids(notifications) = {notifications[p].id : p \in Places}
<1>1. /\ notifications \in Seq(Toast)
      /\ now \in Nat /\ inserted \in Nat /\ erased \in Nat
  BY ToastBounds DEF ToastsTypeOK, Toast
<1>2. /\ Len(notifications) \in Nat
      /\ DOMAIN notifications = Places
      /\ \A p \in Places : notifications[p] \in Toast
  BY <1>1, LenProperties, ElementOfSeq DEF Places
<1>3. \A p \in Places : /\ notifications[p].id \in 1..inserted
                        /\ notifications[p].creationTime \in 0..now
                        /\ notifications[p].dismissTime \in Nat
  BY <1>2, TimesAssumption DEF Toast
<1>4. ToSet(notifications) = {notifications[p] : p \in Places}
  BY <1>2 DEF ToSet
<1>5. Ids(notifications) = {notifications[p].id : p \in Places}
  BY <1>4 DEF Ids
<1> QED  BY <1>1, <1>2, <1>3, <1>4, <1>5

(* Sets of ids are finite. *)
LEMMA DueFinite ==
    ASSUME ToastsTypeOK, NEW T
    PROVE  IsFiniteSet(due \cap T) /\ Cardinality(due \cap T) \in Nat
<1>1. inserted \in Nat /\ due \subseteq 1..inserted
  BY ToastFields DEF ToastsTypeOK
<1>2. IsFiniteSet(1..inserted)
  BY <1>1, FS_Interval
<1>3. IsFiniteSet(due \cap T)
  BY <1>1, <1>2, FS_Subset
<1> QED  BY <1>3, FS_CardinalityType

LEMMA ToastsInitInv == ToastsInit => ToastsInv
<1> SUFFICES ASSUME ToastsInit PROVE ToastsInv
  OBVIOUS
<1>1. /\ notifications = << >> /\ Len(notifications) = 0 /\ Places = {}
      /\ shown \in Seq(1..inserted) /\ notifications \in Seq(Toast)
  BY EmptySeq DEF ToastsInit, Places
<1>2. ToastsTypeOK
  <2>1. /\ now \in 0..MaxNow /\ inserted \in 0..MaxToasts /\ erased \in 0..inserted
        /\ rendering = FALSE /\ due \subseteq 1..inserted
    BY ToastBounds DEF ToastsInit
  <2> QED  BY <1>1, <2>1 DEF ToastsTypeOK, Toast
<1> QED
  BY <1>1, <1>2
  DEF ToastsInit, ToastsInv, DistinctIds, AllInserted, DueExpired, ShownInOrder, FewDuePassed

(* A new toast comes last and has an id of its own. *)
LEMMA InsertKeepsInv ==
    ASSUME ToastsInv, NEW d \in DismissTimes, InsertNotification(d)
    PROVE  ToastsInv'
<1> DEFINE s == notifications
           toast == [id |-> inserted + 1, dismissTime |-> d, creationTime |-> now]
           n == Len(notifications)
<1>1. ToastsTypeOK
  BY DEF ToastsInv
<1>2. /\ inserted' = inserted + 1 /\ inserted < MaxToasts
      /\ s' = Append(s, toast)
      /\ now' = now /\ rendering' = rendering /\ i' = i
      /\ shown' = shown /\ due' = due /\ erased' = erased
  BY DEF InsertNotification
<1>3. /\ now \in Nat /\ inserted \in Nat /\ erased \in Nat /\ n \in Nat
      /\ s \in Seq(Toast)
      /\ due \subseteq 1..inserted
  BY <1>1, ToastFields DEF ToastsTypeOK
<1>4. Toast \subseteq Toast' /\ toast \in Toast'
  BY <1>2, <1>3 DEF Toast
<1>5. s \in Seq(Toast')
  BY <1>3, <1>4, SeqMonotonic
<1>6. /\ s' \in Seq(Toast')
      /\ Len(s') = n + 1
      /\ \A p \in 1..n : s'[p] = s[p]
      /\ s'[n + 1] = toast
  BY <1>2, <1>4, <1>5, AppendProperties
<1> HIDE DEF s, n
<1>7. Places' = 1..(n + 1) /\ Places = 1..n
  BY <1>6 DEF Places, s, n
<1>8. \A p \in 1..n : s'[p].id = s[p].id /\ s[p].id \in 1..inserted
  BY <1>1, <1>6, <1>7, ToastFields DEF s
<1>9. toast.id = inserted + 1 /\ toast.id \notin 1..inserted
  BY <1>3
<1> HIDE DEF toast
<1>10. ToastsTypeOK'
  <2>1. shown' \in Seq((1..inserted)')
    BY <1>1, <1>2, <1>3, SeqMonotonic DEF ToastsTypeOK
  <2>2. due' \subseteq (1..inserted)' /\ erased' \in (0..inserted)' /\ inserted' \in 0..MaxToasts
    BY <1>1, <1>2, <1>3, ToastBounds DEF ToastsTypeOK
  <2>3. rendering' => i' \in 0..(Len(s') + 1)
    BY <1>1, <1>2, <1>3, <1>6 DEF ToastsTypeOK, s, n
  <2> QED  BY <1>1, <1>2, <1>6, <2>1, <2>2, <2>3 DEF ToastsTypeOK, Toast, s
<1>11. DistinctIds'
  <2>1. \A p, q \in 1..n : s'[p].id = s'[q].id => p = q
    BY <1>7, <1>8 DEF ToastsInv, DistinctIds, s
  <2>2. \A p \in 1..n : s'[p].id # s'[n + 1].id
    BY <1>6, <1>8, <1>9
  <2>3. \A p \in 1..(n + 1) : p \in 1..n \/ p = n + 1
    BY <1>3
  <2> QED  BY <1>7, <2>1, <2>2, <2>3 DEF DistinctIds, s
<1>12. AllInserted'
  BY <1>2, <1>3, <1>6 DEF ToastsInv, AllInserted, s, n
<1>13. DueExpired'
  <2>1. ASSUME NEW p \in 1..(n + 1), s'[p].id \in due PROVE p \in 1..n
    <3>1. p = n + 1 \/ p \in 1..n
      BY <1>3
    <3> QED  BY <2>1, <3>1, <1>3, <1>6, <1>9
  <2>2. ASSUME NEW p \in 1..n, s'[p].id \in due PROVE Expired(s[p])
    BY <2>2, <1>7, <1>8 DEF ToastsInv, DueExpired, s
  <2>3. ASSUME NEW p \in 1..n, Expired(s[p]) PROVE Expired(s[p])'
    BY <2>3, <1>2, <1>6 DEF Expired
  <2> QED  BY <1>2, <1>7, <1>8, <2>1, <2>2, <2>3 DEF DueExpired, s
<1>14. ShownInOrder'
  <2>1. CASE rendering /\ erased = 0
    <3>1. i <= n /\ shown = [k \in 1..Reached(i) |-> s[k].id]
      BY <2>1 DEF ToastsInv, ShownInOrder, s, n
    <3>2. i \in Nat
      BY <2>1, <1>1, <1>3 DEF ToastsTypeOK
    <3>3. \A k \in 1..Reached(i) : k \in 1..n
      BY <3>1, <3>2, <1>3, LimitAssumption DEF Reached
    <3>4. shown = [k \in 1..Reached(i) |-> s'[k].id]
      BY <3>1, <3>3, <1>8
    <3>5. i <= Len(s')
      BY <3>1, <3>2, <1>3, <1>6
    <3> QED  BY <3>4, <3>5, <1>2 DEF ShownInOrder, Reached, s
  <2>2. CASE ~(rendering /\ erased = 0)
    BY <2>2, <1>2 DEF ShownInOrder
  <2> QED  BY <2>1, <2>2
<1>15. FewDuePassed'
  <2>1. due' \cap Passed' \subseteq due \cap Passed
    <3>1. ASSUME NEW x \in due, NEW p \in 1..(n + 1), s'[p].id = x, p <= i PROVE x \in Passed
      <4>1. p = n + 1 \/ p \in 1..n
        BY <1>3
      <4>2. p \in 1..n
        BY <4>1, <3>1, <1>3, <1>6, <1>9
      <4> QED  BY <4>2, <3>1, <1>7, <1>8 DEF Passed, s
    <3> QED  BY <3>1, <1>2, <1>7 DEF Passed, s
  <2>2. due \cap Passed \subseteq due' \cap Passed'
    <3>1. ASSUME NEW p \in 1..n PROVE p \in 1..(n + 1)
      BY <1>3
    <3> QED  BY <3>1, <1>2, <1>7, <1>8 DEF Passed, s
  <2>3. due' \cap Passed' = due \cap Passed
    BY <2>1, <2>2
  <2> QED  BY <2>3, <1>2 DEF ToastsInv, FewDuePassed
<1> QED  BY <1>10, <1>11, <1>12, <1>13, <1>14, <1>15 DEF ToastsInv

(* An expired toast stays expired. *)
LEMMA TickKeepsInv ==
    ASSUME ToastsInv, Tick
    PROVE  ToastsInv'
<1>1. /\ now' = now + 1 /\ now < MaxNow
      /\ UNCHANGED <<inserted, notifications, rendering, i, shown, due, erased>>
      /\ ToastsTypeOK
  BY DEF Tick, ToastsInv
<1>2. /\ now \in Nat /\ notifications \in Seq(Toast)
      /\ \A p \in Places : /\ notifications[p].creationTime \in 0..now
                           /\ notifications[p].dismissTime \in Nat
  BY <1>1, ToastFields
<1>3. ToastsTypeOK'
  <2>1. Toast \subseteq Toast'
    BY <1>1, <1>2 DEF Toast
  <2>2. notifications' \in Seq(Toast')
    BY <1>1, <1>2, <2>1, SeqMonotonic
  <2> QED  BY <1>1, <1>2, <2>2, ToastBounds DEF ToastsTypeOK, Toast
<1>4. DueExpired'
  <2>1. ASSUME NEW p \in Places, Expired(notifications[p]) PROVE Expired(notifications[p])'
    BY <1>1, <1>2, <2>1, TimesAssumption DEF Expired
  <2> QED  BY <1>1, <2>1 DEF ToastsInv, DueExpired, Places
<1> QED
  BY <1>1, <1>3, <1>4
  DEF ToastsInv, DistinctIds, AllInserted, ShownInOrder, FewDuePassed, Passed, Places, Reached

(* As no id is used twice, what is due is what is expired. *)
LEMMA BeginKeepsInv ==
    ASSUME ToastsInv, BeginWalk
    PROVE  ToastsInv'
<1>1. /\ rendering' = TRUE /\ i' = 0 /\ shown' = << >> /\ erased' = 0
      /\ due' = {t.id : t \in {u \in ToSet(notifications) : Expired(u)}}
      /\ UNCHANGED <<now, inserted, notifications>>
      /\ ToastsTypeOK
  BY DEF BeginWalk, ToastsInv
<1>2. /\ inserted \in Nat /\ erased \in Nat /\ Len(notifications) \in Nat
      /\ \A p \in Places : notifications[p].id \in 1..inserted
      /\ ToSet(notifications) = {notifications[p] : p \in Places}
  BY <1>1, ToastFields
<1>3. due' \subseteq 1..inserted
  BY <1>1, <1>2
<1>4. ToastsTypeOK'
  <2>1. shown' \in Seq(1..inserted)
    BY <1>1, EmptySeq
  <2>2. i' \in 0..(Len(notifications) + 1) /\ erased' \in 0..inserted
    BY <1>1, <1>2
  <2>3. rendering' \in BOOLEAN
    BY <1>1
  <2> QED  BY <1>1, <1>3, <2>1, <2>2, <2>3 DEF ToastsTypeOK
<1>5. DueExpired'
  <2>1. ASSUME NEW p \in Places, notifications[p].id \in due' PROVE Expired(notifications[p])
    <3>1. PICK q \in Places : Expired(notifications[q]) /\ notifications[q].id = notifications[p].id
      BY <1>1, <1>2, <2>1
    <3>2. q = p
      BY <3>1 DEF ToastsInv, DistinctIds
    <3> QED  BY <3>1, <3>2
  <2>2. ASSUME NEW p \in Places, Expired(notifications[p]) PROVE Expired(notifications[p])'
    BY <1>1, <2>2 DEF Expired
  <2> QED  BY <1>1, <2>1, <2>2 DEF DueExpired, Places
<1>6. AllInserted'
  BY <1>1, <1>2 DEF ToastsInv, AllInserted
<1>7. ShownInOrder'
  <2>1. Reached(0) = 0 /\ 0 <= Len(notifications)
    BY <1>2, LimitAssumption DEF Reached
  <2>2. << >> = [k \in 1..0 |-> notifications[k].id]
    OBVIOUS
  <2> QED  BY <1>1, <2>1, <2>2 DEF ShownInOrder, Reached
<1>8. FewDuePassed'
  <2>1. Passed' = {}
    BY <1>1, <1>2 DEF Passed, Places
  <2>2. Cardinality(due' \cap Passed') = 0
    BY <2>1, FS_EmptySet
  <2> QED  BY <1>1, <2>2 DEF FewDuePassed
<1> QED
  BY <1>1, <1>4, <1>5, <1>6, <1>7, <1>8 DEF ToastsInv, DistinctIds, Places

(* What RemoveExpired does to the vector: the toasts behind move up. *)
LEMMA Removal ==
    ASSUME ToastsTypeOK, RemoveExpired
    PROVE  /\ i \in Nat /\ i + 1 \in Places
           /\ notifications' \in Seq(Toast)
           /\ Len(notifications') = Len(notifications) - 1
           /\ \A p \in 1..i : notifications'[p] = notifications[p]
           /\ \A p \in (i + 1)..(Len(notifications) - 1) :
                 notifications'[p] = notifications[p + 1]
<1>1. /\ notifications \in Seq(Toast) /\ Len(notifications) \in Nat
  BY ToastFields
<1>2. i \in Nat /\ i + 1 \in 1..Len(notifications)
  BY <1>1 DEF RemoveExpired, Round, ToastsTypeOK
<1>3. notifications' = RemoveAt(notifications, i + 1)
  BY DEF RemoveExpired, WithoutToast
<1>4. (i + 1) - 1 = i
  BY <1>2
<1> QED  BY <1>1, <1>2, <1>3, <1>4, RemoveAtProperties DEF Places

(* The walk passes over the toast that moves up to where the removed one   *)
(* was, and over no other.                                                 *)
LEMMA RemoveKeepsInv ==
    ASSUME ToastsInv, RemoveExpired
    PROVE  ToastsInv'
<1> DEFINE s == notifications
           n == Len(notifications)
           old(p) == IF p <= i THEN p ELSE p + 1
<1>1. ToastsTypeOK
  BY DEF ToastsInv
<1>2. /\ rendering /\ rendering' = rendering
      /\ i' = i + 1 /\ erased' = erased + 1
      /\ now' = now /\ inserted' = inserted /\ shown' = shown /\ due' = due
  BY DEF RemoveExpired, Round
<1>3. /\ inserted \in Nat /\ erased \in Nat /\ n \in Nat
      /\ \A p \in Places : s[p].id \in 1..inserted
  BY <1>1, ToastFields
<1>4. /\ i \in Nat /\ i + 1 \in 1..n
      /\ s' \in Seq(Toast) /\ Len(s') = n - 1
      /\ \A p \in 1..i : s'[p] = s[p]
      /\ \A p \in (i + 1)..(n - 1) : s'[p] = s[p + 1]
  BY <1>1, Removal DEF Places
<1>5. Places = 1..n /\ Places' = 1..(n - 1)
  BY <1>4 DEF Places
<1> HIDE DEF s, n
<1>6. ASSUME NEW p \in 1..(n - 1)
      PROVE  old(p) \in 1..n /\ old(p) # i + 1 /\ s'[p] = s[old(p)]
  <2>1. CASE p <= i
    BY <2>1, <1>3, <1>4
  <2>2. CASE ~(p <= i)
    <3>1. p \in (i + 1)..(n - 1) /\ old(p) = p + 1
      BY <2>2, <1>3, <1>4
    <3> QED  BY <3>1, <1>3, <1>4
  <2> QED  BY <2>1, <2>2
<1>7. \A p, q \in 1..(n - 1) : old(p) = old(q) => p = q
  BY <1>3, <1>4
<1> HIDE DEF old
<1>8. ToastsTypeOK'
  <2>1. AllInserted
    BY DEF ToastsInv
  <2>2. erased' \in 0..inserted
    BY <1>2, <1>3, <1>4, <2>1 DEF AllInserted, s, n
  <2>3. i' \in 0..(Len(s') + 1)
    BY <1>2, <1>3, <1>4
  <2> QED  BY <1>1, <1>2, <1>4, <2>2, <2>3 DEF ToastsTypeOK, Toast, s
<1>9. DistinctIds'
  <2>1. ASSUME NEW p \in 1..(n - 1), NEW q \in 1..(n - 1), s'[p].id = s'[q].id PROVE p = q
    <3>1. old(p) = old(q)
      BY <1>5, <1>6, <2>1 DEF ToastsInv, DistinctIds, s
    <3> QED  BY <3>1, <1>7
  <2> QED  BY <2>1, <1>5 DEF DistinctIds, s
<1>10. AllInserted'
  BY <1>2, <1>3, <1>4 DEF ToastsInv, AllInserted, s, n
<1>11. DueExpired'
  <2>1. ASSUME NEW p \in 1..(n - 1), s'[p].id \in due PROVE Expired(s[old(p)])
    BY <2>1, <1>5, <1>6 DEF ToastsInv, DueExpired, s
  <2>2. ASSUME NEW p \in 1..(n - 1), Expired(s[old(p)]) PROVE Expired(s[p])'
    BY <2>2, <1>2, <1>6 DEF Expired
  <2> QED  BY <1>2, <1>5, <2>1, <2>2 DEF DueExpired, s
<1>12. ShownInOrder'
  BY <1>2, <1>3 DEF ShownInOrder
<1>13. FewDuePassed'
  <2> DEFINE x == s[i + 2].id
  <2>1. due' \cap Passed' \subseteq (due \cap Passed) \cup {x}
    <3>1. ASSUME NEW p \in 1..(n - 1), p <= i + 1, s'[p].id # x PROVE s'[p].id \in Passed
      <4>1. old(p) <= i
        <5>1. p = i + 1 => old(p) = i + 2
          BY <1>4 DEF old
        <5>2. p # i + 1
          BY <3>1, <5>1, <1>6
        <5> QED  BY <5>2, <3>1, <1>4 DEF old
      <4> QED  BY <4>1, <1>5, <1>6 DEF Passed, s
    <3> QED  BY <3>1, <1>2, <1>5 DEF Passed, s
  <2>2. /\ IsFiniteSet(due \cap Passed) /\ Cardinality(due \cap Passed) \in Nat
        /\ Cardinality(due \cap Passed) <= erased
    BY <1>1, <1>2, DueFinite DEF ToastsInv, FewDuePassed
  <2> HIDE DEF x
  <2>3. /\ IsFiniteSet((due \cap Passed) \cup {x})
        /\ Cardinality((due \cap Passed) \cup {x}) <= Cardinality(due \cap Passed) + 1
    BY <2>2, FS_AddElement
  <2>4. Cardinality(due' \cap Passed') <= Cardinality((due \cap Passed) \cup {x})
    BY <2>1, <2>3, FS_Subset
  <2>5. /\ Cardinality(due' \cap Passed') \in Nat
        /\ Cardinality((due \cap Passed) \cup {x}) \in Nat
    BY <1>8, <2>3, FS_CardinalityType, FS_Subset, <2>1
  <2> QED  BY <1>2, <1>3, <2>2, <2>3, <2>4, <2>5 DEF FewDuePassed
<1> QED  BY <1>8, <1>9, <1>10, <1>11, <1>12, <1>13 DEF ToastsInv

(* A toast that is not expired is not due; it is shown up to the limit. *)
LEMMA RenderKeepsInv ==
    ASSUME ToastsInv, RenderToast
    PROVE  ToastsInv'
<1> DEFINE n == Len(notifications)
<1>1. ToastsTypeOK
  BY DEF ToastsInv
<1>2. /\ rendering /\ ~Expired(notifications[i + 1])
      /\ shown' = IF BeyondLimit(i) THEN shown ELSE Append(shown, notifications[i + 1].id)
      /\ i' = i + 1
      /\ UNCHANGED <<now, inserted, notifications, rendering, due, erased>>
  BY DEF RenderToast, Round
<1>3. /\ inserted \in Nat /\ erased \in Nat /\ n \in Nat
      /\ \A p \in Places : notifications[p].id \in 1..inserted
  BY <1>1, ToastFields
<1>4. i \in Nat /\ i + 1 \in Places
  BY <1>1, <1>3 DEF RenderToast, Round, ToastsTypeOK, Places
<1>5. shown \in Seq(1..inserted)
  BY <1>1 DEF ToastsTypeOK
<1>6. notifications[i + 1].id \in 1..inserted
  BY <1>3, <1>4
<1>7. ToastsTypeOK'
  <2>1. shown' \in Seq(1..inserted)
    BY <1>2, <1>5, <1>6, AppendProperties
  <2>2. i' \in 0..(n + 1)
    BY <1>2, <1>3, <1>4 DEF Places
  <2> QED  BY <1>1, <1>2, <2>1, <2>2 DEF ToastsTypeOK
<1>8. ShownInOrder'
  <2>1. CASE erased = 0
    <3>1. i <= n /\ shown = [k \in 1..Reached(i) |-> notifications[k].id]
      BY <2>1, <1>2 DEF ToastsInv, ShownInOrder
    <3>2. i + 1 <= n
      BY <1>3, <1>4 DEF Places
    <3>3. CASE i > Limit
      <4>1. Reached(i + 1) = Reached(i)
        BY <3>3, <1>4, LimitAssumption DEF Reached
      <4> QED
        BY <1>2, <3>1, <3>2, <3>3, <4>1 DEF ShownInOrder, BeyondLimit, Reached
    <3>4. CASE ~(i > Limit)
      <4>1. Reached(i) = i /\ Reached(i + 1) = i + 1
        BY <3>4, <1>4, LimitAssumption DEF Reached
      <4>2. shown' = Append(shown, notifications[i + 1].id)
        BY <3>4, <1>2 DEF BeyondLimit
      <4>3. DOMAIN shown = 1..i /\ Len(shown) = i
        BY <1>4, <1>5, <3>1, <4>1, LenProperties
      <4>4. /\ shown' \in Seq(1..inserted)
            /\ Len(shown') = i + 1
            /\ \A k \in 1..i : shown'[k] = shown[k]
            /\ shown'[i + 1] = notifications[i + 1].id
        BY <1>5, <1>6, <4>2, <4>3, AppendProperties
      <4>5. DOMAIN shown' = 1..(i + 1) /\ shown' \in [1..(i + 1) -> 1..inserted]
        BY <4>4, LenProperties
      <4>6. ASSUME NEW k \in 1..(i + 1) PROVE shown'[k] = notifications[k].id
        <5>1. k \in 1..i \/ k = i + 1
          BY <1>4
        <5> QED  BY <5>1, <3>1, <4>1, <4>4
      <4>7. shown' = [k \in 1..(i + 1) |-> notifications[k].id]
        BY <4>5, <4>6
      <4> QED  BY <1>2, <3>2, <4>1, <4>7 DEF ShownInOrder, Reached
    <3> QED  BY <3>3, <3>4
  <2>2. CASE erased # 0
    BY <2>2, <1>2 DEF ShownInOrder
  <2> QED  BY <2>1, <2>2
<1>9. FewDuePassed'
  <2>1. notifications[i + 1].id \notin due
    BY <1>2, <1>4 DEF ToastsInv, DueExpired
  <2>2. due' \cap Passed' \subseteq due \cap Passed
    <3>1. ASSUME NEW p \in Places, p <= i + 1, notifications[p].id \in due
          PROVE  p <= i
      <4>1. p # i + 1
        BY <2>1, <3>1
      <4> QED  BY <4>1, <3>1, <1>3, <1>4 DEF Places
    <3> QED  BY <3>1, <1>2 DEF Passed, Places
  <2>3. /\ IsFiniteSet(due \cap Passed) /\ Cardinality(due \cap Passed) \in Nat
        /\ Cardinality(due \cap Passed) <= erased
    BY <1>1, <1>2, DueFinite DEF ToastsInv, FewDuePassed
  <2>4. /\ Cardinality(due' \cap Passed') <= Cardinality(due \cap Passed)
        /\ Cardinality(due' \cap Passed') \in Nat
    BY <2>2, <2>3, FS_Subset, FS_CardinalityType
  <2> QED  BY <1>2, <1>3, <2>3, <2>4 DEF FewDuePassed
<1>10. DueExpired'
  BY <1>2 DEF ToastsInv, DueExpired, Places, Expired
<1> QED
  BY <1>2, <1>7, <1>8, <1>9, <1>10 DEF ToastsInv, DistinctIds, AllInserted, Places

LEMMA EndKeepsInv ==
    ASSUME ToastsInv, EndWalk
    PROVE  ToastsInv'
<1>1. /\ rendering' = FALSE
      /\ UNCHANGED <<now, inserted, notifications, i, shown, due, erased>>
  BY DEF EndWalk
<1> QED
  BY <1>1
  DEF ToastsInv, ToastsTypeOK, DistinctIds, AllInserted, DueExpired, Expired, Places,
      ShownInOrder, FewDuePassed

LEMMA ToastsInvStep == ToastsInv /\ [ToastsNext]_toastVars => ToastsInv'
<1> SUFFICES ASSUME ToastsInv, [ToastsNext]_toastVars PROVE ToastsInv'
  OBVIOUS
<1>1. CASE UNCHANGED toastVars
  BY <1>1
  DEF toastVars, ToastsInv, ToastsTypeOK, DistinctIds, AllInserted, DueExpired, Expired,
      Places, ShownInOrder, Reached, FewDuePassed, Passed
<1> QED
  BY <1>1, InsertKeepsInv, TickKeepsInv, BeginKeepsInv, RemoveKeepsInv, RenderKeepsInv,
     EndKeepsInv
  DEF ToastsNext, RenderNotifications

-----------------------------------------------------------------------------
(* The invariant holds of every behaviour. *)
THEOREM ToastsInvariance == ToastsSpec => []ToastsInv
<1> QED  BY ToastsInitInv, ToastsInvStep, PTL DEF ToastsSpec

(* The vector holds toasts that were inserted, and the walk's index passes *)
(* its end by one at most, for any number of toasts.                       *)
THEOREM ToastsTypeCorrect == ToastsSpec => []ToastsTypeOK
<1>1. ToastsInv => ToastsTypeOK
  BY DEF ToastsInv
<1> QED  BY <1>1, ToastsInvariance, PTL

(* Only an expired toast is ever removed, whatever the server thread       *)
(* inserts and whatever expires between the rounds of the walk.            *)
THEOREM LiveToastsStay == ToastsSpec => OnlyExpiredRemoved
<1> DEFINE A == \A t \in ToSet(notifications) : t.id \notin Ids(notifications') => Expired(t)
<1>1. ASSUME ToastsInv, [ToastsNext]_toastVars PROVE [A]_toastVars
  <2>1. ToastsTypeOK /\ ToastsInv'
    BY <1>1, ToastsInvStep DEF ToastsInv
  <2>2. /\ ToSet(notifications) = {notifications[p] : p \in Places}
        /\ Ids(notifications') = {notifications'[p].id : p \in Places'}
    <3>1. notifications' \in Seq(Toast')
      BY <2>1 DEF ToastsInv, ToastsTypeOK, Toast
    <3>2. DOMAIN notifications' = Places'
      BY <3>1, LenProperties DEF Places
    <3>3. Ids(notifications') = {notifications'[p].id : p \in Places'}
      BY <3>2 DEF Ids, ToSet
    <3> QED  BY <2>1, <3>3, ToastFields
  <2>3. (UNCHANGED notifications) => A
    BY DEF Ids
  <2>4. CASE RemoveExpired
    <3>1. ASSUME NEW p \in Places, p # i + 1
          PROVE  \E q \in Places' : notifications'[q] = notifications[p]
      <4>1. /\ i \in Nat /\ i + 1 \in Places /\ Len(notifications) \in Nat
            /\ Len(notifications') = Len(notifications) - 1
            /\ \A q \in 1..i : notifications'[q] = notifications[q]
            /\ \A q \in (i + 1)..(Len(notifications) - 1) :
                  notifications'[q] = notifications[q + 1]
        BY <2>1, <2>4, Removal, ToastFields
      <4>2. Places' = 1..(Len(notifications) - 1)
        BY <4>1 DEF Places
      <4>3. CASE p < i + 1
        <5>1. p \in 1..i /\ p \in Places'
          BY <3>1, <4>1, <4>2, <4>3 DEF Places
        <5> QED  BY <5>1, <4>1
      <4>4. CASE p > i + 1
        <5>1. /\ p - 1 \in (i + 1)..(Len(notifications) - 1)
              /\ p - 1 \in Places' /\ (p - 1) + 1 = p
          BY <3>1, <4>1, <4>2, <4>4 DEF Places
        <5> QED  BY <5>1, <4>1
      <4> QED  BY <3>1, <4>1, <4>3, <4>4 DEF Places
    <3>2. Expired(notifications[i + 1])
      BY <2>4 DEF RemoveExpired
    <3>3. ASSUME NEW p \in Places, notifications[p].id \notin Ids(notifications')
          PROVE  Expired(notifications[p])
      BY <2>2, <3>1, <3>2, <3>3
    <3> QED  BY <2>2, <3>3
  <2>5. ASSUME NEW d \in DismissTimes, InsertNotification(d) PROVE A
    <3> DEFINE toast == [id |-> inserted + 1, dismissTime |-> d, creationTime |-> now]
    <3>1. /\ notifications \in Seq(Toast) /\ inserted \in Nat /\ now \in Nat
          /\ notifications' = Append(notifications, toast)
      BY <2>1, <2>5, ToastFields DEF InsertNotification
    <3>2. /\ \A p \in Places : notifications'[p] = notifications[p]
          /\ Places \subseteq Places'
      <4> DEFINE T == Toast \cup {toast}
      <4>1. notifications \in Seq(T) /\ toast \in T
        BY <3>1, SeqMonotonic
      <4> HIDE DEF toast, T
      <4>2. /\ Len(notifications') = Len(notifications) + 1
            /\ \A p \in 1..Len(notifications) : notifications'[p] = notifications[p]
            /\ Len(notifications) \in Nat
        BY <3>1, <4>1, AppendProperties, LenProperties
      <4> QED  BY <4>2 DEF Places
    <3> QED  BY <2>2, <3>2
  <2>6. CASE Tick
    BY <2>3, <2>6 DEF Tick
  <2>7. CASE BeginWalk \/ RenderToast \/ EndWalk
    BY <2>3, <2>7 DEF BeginWalk, RenderToast, EndWalk
  <2> HIDE DEF A
  <2> QED  BY <1>1, <2>4, <2>5, <2>6, <2>7 DEF ToastsNext, RenderNotifications
<1> QED  BY <1>1, ToastsInvariance, PTL DEF ToastsSpec, OnlyExpiredRemoved

(* A walk that removes nothing shows the oldest toasts in their order, all *)
(* of them or at least as many as the limit says.                          *)
THEOREM OldestShown == ToastsSpec => WalkShowsOldest
<1> DEFINE A == (EndWalk /\ erased = 0) =>
                  /\ shown = [k \in 1..Len(shown) |-> notifications[k].id]
                  /\ Len(shown) = Len(notifications) \/ Len(shown) >= Limit
<1>1. ASSUME ToastsInv, [ToastsNext]_toastVars PROVE [A]_toastVars
  <2>1. ASSUME EndWalk, erased = 0
        PROVE  /\ shown = [k \in 1..Len(shown) |-> notifications[k].id]
               /\ Len(shown) = Len(notifications) \/ Len(shown) >= Limit
    <3>1. /\ rendering /\ i >= Len(notifications) /\ i <= Len(notifications)
          /\ shown = [k \in 1..Reached(i) |-> notifications[k].id]
      BY <1>1, <2>1 DEF EndWalk, ToastsInv, ShownInOrder
    <3>2. /\ i \in Int /\ Len(notifications) \in Nat
          /\ shown \in Seq(1..inserted)
      BY <1>1, <3>1, ToastFields DEF ToastsInv, ToastsTypeOK
    <3>3. i = Len(notifications) /\ Reached(i) \in Nat
      BY <3>1, <3>2, LimitAssumption DEF Reached
    <3>4. Len(shown) = Reached(i)
      BY <3>1, <3>2, <3>3, LenProperties
    <3>5. Reached(i) = Len(notifications) \/ Reached(i) >= Limit
      BY <3>2, <3>3, LimitAssumption DEF Reached
    <3> QED  BY <3>1, <3>4, <3>5
  <2> QED  BY <2>1
<1> QED  BY <1>1, ToastsInvariance, PTL DEF ToastsSpec, WalkShowsOldest

(* Of the toasts that were expired when it began, a walk leaves no more    *)
(* than it has removed, though each removal makes it pass over one.        *)
THEOREM WalkLeavesFew == ToastsSpec => RemovesAsManyAsItLeaves
<1> DEFINE A == EndWalk => Cardinality(due \cap Ids(notifications)) <= erased
<1>1. ASSUME ToastsInv, [ToastsNext]_toastVars PROVE [A]_toastVars
  <2>1. ASSUME EndWalk PROVE Ids(notifications) = Passed
    <3>1. i \in Int /\ i >= Len(notifications) /\ Len(notifications) \in Nat
      BY <1>1, <2>1, ToastFields DEF EndWalk, ToastsInv, ToastsTypeOK
    <3>2. \A p \in Places : p <= i
      BY <3>1 DEF Places
    <3> QED  BY <1>1, <3>2, ToastFields DEF ToastsInv, Passed
  <2> QED  BY <1>1, <2>1 DEF EndWalk, ToastsInv, FewDuePassed
<1> QED  BY <1>1, ToastsInvariance, PTL DEF ToastsSpec, RemovesAsManyAsItLeaves
=============================================================================
