---------------------------- MODULE SendingProofs ----------------------------
(***************************************************************************)
(* Proofs about Sending, for any outputs, any capacity and any number of   *)
(* answers.                                                                *)
(***************************************************************************)
EXTENDS Sending, SequenceLemmas, SequenceTheorems, TLAPS

-----------------------------------------------------------------------------
(***************************************************************************)
(* The inductive invariant.  InOrder and InTurn are the two halves of      *)
(* PlacesInOrder; Unfilled says why nothing is cut before the buffer is    *)
(* full: only the answer that starts is not sent to its end.               *)
(***************************************************************************)
InOrder ==
    /\ \A p \in Bytes : stream[p][2] <= written[stream[p][1]]
    /\ \A k \in Answers : \A i \in 1..written[k] :
          \E p \in Bytes : stream[p][1] = k /\ stream[p][2] = i
    /\ \A p, q \in Bytes :
          p < q /\ stream[p][1] = stream[q][1] => stream[p][2] < stream[q][2]

InTurn == \A p, q \in Bytes : p < q => stream[p][1] <= stream[q][1]

Unfilled ==
    /\ op_queue_ = << >> /\ try_speculative_ = TRUE /\ performing = FALSE
    /\ \A k \in 1..reads : written[k] = length[k] \/ (starting /\ k = reads)
    /\ \A p \in Bytes : stream[p][1] <= reads

LatestInCells == \A i \in 1..Width[version] : cells[i] = <<version, i>>

NotAskedYet == \A k \in Answers : k > reads => written[k] = 0

SendingInv ==
    /\ SendingTypeOK
    /\ performing => op_queue_ # << >>
    /\ starting => reads > 0
    /\ InOrder /\ (~filled => InTurn /\ Unfilled)
    /\ LatestInCells /\ NotAskedYet

-----------------------------------------------------------------------------
LEMMA Widths ==
    /\ Len(Width) \in Nat /\ Len(Width) > 0 /\ DOMAIN Width = 1..Len(Width)
    /\ \A v \in DOMAIN Width : Width[v] \in 1..InPlace
    /\ InPlace = 15 /\ MaxReads \in Nat /\ Capacity \in Nat \ {0}
<1>1. Len(Width) \in Nat \ {0} /\ DOMAIN Width = 1..Len(Width)
  BY WidthAssumption, LenProperties, EmptySeq
<1>2. \A v \in DOMAIN Width : Width[v] \in 1..InPlace
  BY <1>1, WidthAssumption, ElementOfSeq
<1> QED  BY <1>1, <1>2, SendingAssumption DEF InPlace

(* Where m more bytes of answer k go, behind all the others. *)
LEMMA StreamGrows ==
    ASSUME SendingTypeOK, InOrder, NEW k \in Answers, NEW m \in Nat,
           written[k] + m <= InPlace,
           stream' = stream \o Piece(k, m),
           written' = [written EXCEPT ![k] = @ + m]
    PROVE  /\ InOrder'
           /\ stream' \in Seq(Answers \X (1..InPlace) \X Chars)
           /\ Bytes \subseteq Bytes'
           /\ \A p \in Bytes : stream'[p] = stream[p]
           /\ \A p \in Bytes' \ Bytes :
                 /\ p > Len(stream)
                 /\ p - Len(stream) \in 1..m
                 /\ stream'[p] = <<k, written[k] + (p - Len(stream)),
                                   cells[written[k] + (p - Len(stream))]>>
<1> DEFINE S == Answers \X (1..InPlace) \X Chars
           n == Len(stream)
           w == written[k]
           piece == Piece(k, m)
<1>1. /\ stream \in Seq(S) /\ n \in Nat /\ Bytes = 1..n
      /\ w \in Nat /\ w + m <= InPlace /\ InPlace = 15
  <2>1. stream \in Seq(S)
    BY Zenon DEF SendingTypeOK
  <2>2. n \in Nat /\ Bytes = 1..n
    <3> HIDE DEF S
    <3> QED  BY <2>1, LenProperties DEF Bytes
  <2>3. written \in [Answers -> 0..InPlace] /\ InPlace = 15
    BY Zenon, Widths DEF SendingTypeOK
  <2> HIDE DEF S, n
  <2> QED  BY <2>1, <2>2, <2>3
<1>2. piece = [i \in 1..m |-> <<k, w + i, cells[w + i]>>]
  BY DEF Piece
<1>3. \A i \in 1..m : <<k, w + i, cells[w + i]>> \in S
  <2>1. ASSUME NEW i \in 1..m PROVE w + i \in 1..InPlace /\ cells[w + i] \in Chars
    <3>1. w + i \in 1..InPlace /\ w + i \in 1..InPlace + 1
      <4> HIDE DEF w, S, n
      <4> QED  BY <1>1
    <3>2. cells \in [1..InPlace + 1 -> Chars]
      BY Zenon DEF SendingTypeOK
    <3> QED  BY <3>1, <3>2, Zenon
  <2> QED  BY <2>1
<1>4. piece \in [1..m -> S]
  BY <1>2, <1>3
<1>5. piece \in Seq(S) /\ Len(piece) = m /\ \A i \in 1..m : piece[i] = <<k, w + i, cells[w + i]>>
  <2>1. piece \in Seq(S)
    BY <1>4, SeqDef
  <2>2. Len(piece) = m
    BY <1>4, <2>1, LenProperties
  <2> QED  BY <1>2, <2>1, <2>2
<1> HIDE DEF piece, S
<1>6. /\ stream' \in Seq(S) /\ Len(stream') = n + m
      /\ \A p \in 1..(n + m) : stream'[p] = IF p <= n THEN stream[p] ELSE piece[p - n]
  <2>1. stream' = stream \o piece
    BY DEF piece
  <2>2. /\ stream \o piece \in Seq(S) /\ Len(stream \o piece) = Len(stream) + Len(piece)
        /\ \A p \in 1..Len(stream) + Len(piece) :
              (stream \o piece)[p] =
                 IF p <= Len(stream) THEN stream[p] ELSE piece[p - Len(stream)]
    BY <1>1, <1>5, ConcatProperties
  <2> QED  BY <1>5, <2>1, <2>2
<1>7. Bytes' = 1..(n + m)
  BY <1>6, LenProperties DEF Bytes
<1> HIDE DEF n
<1>8. \A p \in 1..n : p \in 1..(n + m) /\ stream'[p] = stream[p]
  <2>1. \A p \in 1..n : p \in 1..(n + m) /\ p <= n
    BY <1>1
  <2> QED  BY <2>1, <1>6
<1>9. ASSUME NEW p \in 1..(n + m), p \notin 1..n
      PROVE  /\ p > n /\ p - n \in 1..m
             /\ stream'[p] = <<k, w + (p - n), cells[w + (p - n)]>>
             /\ stream'[p][1] = k /\ stream'[p][2] = w + (p - n)
  <2>1. p > n /\ p - n \in 1..m /\ ~(p <= n)
    BY <1>1, <1>9
  <2>2. stream'[p] = <<k, w + (p - n), cells[w + (p - n)]>>
    BY <2>1, <1>5, <1>6
  <2> QED  BY <2>1, <2>2
<1>10. /\ written' \in [Answers -> Nat] /\ written'[k] = w + m
       /\ \A j \in Answers : j # k => written'[j] = written[j]
       /\ \A j \in Answers : written[j] \in Nat
  <2>1. written \in [Answers -> 0..InPlace]
    BY Zenon DEF SendingTypeOK
  <2>2. written' = [written EXCEPT ![k] = w + m]
    OBVIOUS
  <2> HIDE DEF w
  <2>3. w + m \in Nat
    BY <1>1
  <2> QED  BY <2>1, <2>2, <2>3
<1>11. \A p \in 1..n : /\ stream[p][1] \in Answers /\ stream[p][2] \in Nat
                       /\ stream[p][2] <= written[stream[p][1]]
  <2>1. \A p \in 1..n : stream[p] \in S
    BY <1>1, ElementOfSeq DEF n
  <2>2. \A p \in 1..n : stream[p][2] <= written[stream[p][1]]
    BY <1>1, Zenon DEF InOrder
  <2>3. ASSUME NEW p \in 1..n PROVE stream[p][1] \in Answers /\ stream[p][2] \in Nat
    <3>1. stream[p] \in Answers \X (1..InPlace) \X Chars
      BY <2>1 DEF S
    <3> QED  BY <3>1
  <2> QED  BY <2>2, <2>3
<1> HIDE DEF w
<1>12. \A p \in Bytes' : stream'[p][2] <= written'[stream'[p][1]]
  <2>1. ASSUME NEW p \in 1..n PROVE stream'[p][2] <= written'[stream'[p][1]]
    <3>1. stream[p][2] <= written'[stream[p][1]]
      <4>1. CASE stream[p][1] = k
        <5>1. stream[p][2] <= w
          BY <4>1, <1>11 DEF w
        <5> QED  BY <4>1, <5>1, <1>1, <1>10, <1>11
      <4>2. CASE stream[p][1] # k
        BY <4>2, <1>10, <1>11
      <4> QED  BY <4>1, <4>2
    <3> QED  BY <3>1, <1>8
  <2>2. ASSUME NEW p \in 1..(n + m), p \notin 1..n
        PROVE  stream'[p][2] <= written'[stream'[p][1]]
    <3>1. /\ p - n \in 1..m /\ stream'[p][1] = k /\ stream'[p][2] = w + (p - n)
      BY <2>2, <1>9
    <3>2. w + (p - n) <= w + m
      BY <3>1, <1>1
    <3> QED  BY <3>1, <3>2, <1>10
  <2> QED  BY <2>1, <2>2, <1>7
<1>13. ASSUME NEW j \in Answers, NEW i \in 1..written'[j]
       PROVE  \E p \in Bytes' : stream'[p][1] = j /\ stream'[p][2] = i
  <2>1. CASE i \in 1..written[j]
    <3>1. PICK p \in 1..n : stream[p][1] = j /\ stream[p][2] = i
      BY <2>1, <1>1 DEF InOrder
    <3> QED  BY <3>1, <1>7, <1>8
  <2>2. CASE i \notin 1..written[j]
    <3>1. j = k /\ i \in 1..(w + m) /\ i > w
      BY <1>10, <1>13, <1>1, <2>2 DEF w
    <3>2. /\ n + (i - w) \in 1..(n + m) /\ n + (i - w) \notin 1..n
          /\ w + ((n + (i - w)) - n) = i
      BY <3>1, <1>1
    <3>3. stream'[n + (i - w)][1] = k /\ stream'[n + (i - w)][2] = i
      BY <3>2, <1>9
    <3> QED  BY <3>1, <3>2, <3>3, <1>7
  <2> QED  BY <2>1, <2>2
<1>14. ASSUME NEW p \in 1..(n + m), NEW q \in 1..(n + m), p < q, stream'[p][1] = stream'[q][1]
       PROVE  stream'[p][2] < stream'[q][2]
  <2>1. CASE q \in 1..n
    <3>1. p \in 1..n
      BY <1>1, <1>14, <2>1
    <3> QED  BY <1>1, <1>8, <1>14, <2>1, <3>1 DEF InOrder
  <2>2. CASE q \notin 1..n /\ p \in 1..n
    <3>1. stream'[q][1] = k /\ stream'[q][2] = w + (q - n) /\ q - n \in 1..m
      BY <2>2, <1>9
    <3>2. stream[p][1] = k /\ stream[p][2] <= w /\ stream[p][2] \in Nat
      BY <2>2, <3>1, <1>8, <1>11, <1>14 DEF w
    <3>3. stream'[p][2] = stream[p][2]
      BY <2>2, <1>8
    <3> QED  BY <3>1, <3>2, <3>3, <1>1
  <2>3. CASE q \notin 1..n /\ p \notin 1..n
    <3>1. /\ stream'[q][2] = w + (q - n) /\ q - n \in 1..m
          /\ stream'[p][2] = w + (p - n) /\ p - n \in 1..m
      BY <2>3, <1>9
    <3> QED  BY <3>1, <1>1, <1>14
  <2> QED  BY <2>1, <2>2, <2>3
<1>15. InOrder'
  BY <1>7, <1>12, <1>13, <1>14 DEF InOrder
<1> QED  BY <1>1, <1>6, <1>7, <1>8, <1>9, <1>15 DEF S, n, w

(* What the socket takes of the rest of a write is no more than the rest,  *)
(* and what it has room for.                                               *)
LEMMA TakenBounds ==
    ASSUME pipe \in 0..Capacity, NEW left \in Nat
    PROVE  /\ Taken(left) \in 0..left /\ pipe + Taken(left) \in 0..Capacity
           /\ ~(Taken(left) < left) => Taken(left) = left
  BY Widths DEF Taken, Room

LEMMA Transmitted ==
    ASSUME SendingTypeOK, InOrder, NEW k \in Answers, NEW left \in Nat,
           written[k] + left <= InPlace, NEW others, Transmit(k, left, others)
    PROVE  /\ InOrder'
           /\ stream' \in Seq(Answers \X (1..InPlace) \X Chars)
           /\ pipe' \in 0..Capacity
           /\ written' \in [Answers -> 0..InPlace]
           /\ \A j \in Answers : j # k => written'[j] = written[j]
           /\ written'[k] \in 0..(written[k] + left)
           /\ completed' = others \cup {k}
           /\ try_speculative_' \in BOOLEAN /\ filled' \in BOOLEAN
           /\ filled => filled'
           /\ ~filled' => /\ ~filled /\ try_speculative_' = TRUE
                          /\ stream' = stream \o Piece(k, left)
                          /\ written' = [written EXCEPT ![k] = @ + left]
<1> DEFINE m == Taken(left)
<1>1. /\ pipe \in 0..Capacity /\ filled \in BOOLEAN
      /\ written \in [Answers -> 0..InPlace] /\ InPlace = 15
  BY Zenon, Widths DEF SendingTypeOK
<1>2. /\ m \in 0..left /\ pipe + m \in 0..Capacity /\ (~(m < left) => m = left)
  BY <1>1, TakenBounds
<1>3. /\ stream' = stream \o Piece(k, m)
      /\ pipe' = pipe + m
      /\ written' = [written EXCEPT ![k] = @ + m]
      /\ completed' = others \cup {k}
      /\ try_speculative_' = (m = left)
      /\ filled' = (filled \/ m < left)
  BY Zenon DEF Transmit
<1> HIDE DEF m
<1>4. m \in Nat /\ written[k] + m <= InPlace /\ written[k] + m \in 0..(written[k] + left)
  BY <1>1, <1>2
<1>5. InOrder' /\ stream' \in Seq(Answers \X (1..InPlace) \X Chars)
  <2>1. m \in Nat /\ written[k] + m <= InPlace
    BY <1>4
  <2> QED  BY <2>1, <1>3, StreamGrows
<1>6. /\ written' \in [Answers -> 0..InPlace]
      /\ \A j \in Answers : j # k => written'[j] = written[j]
      /\ written'[k] \in 0..(written[k] + left)
  <2>1. written[k] + m \in 0..InPlace
    BY <1>1, <1>4
  <2>2. written' = [written EXCEPT ![k] = written[k] + m]
    BY <1>3
  <2> QED  BY <1>1, <1>4, <2>1, <2>2
<1>7. pipe' \in 0..Capacity
  BY <1>2, <1>3
<1>8. /\ completed' = others \cup {k}
      /\ try_speculative_' \in BOOLEAN /\ filled' \in BOOLEAN /\ (filled => filled')
  BY <1>1, <1>3
<1>9. ~filled' => /\ ~filled /\ try_speculative_' = TRUE
                  /\ stream' = stream \o Piece(k, left)
                  /\ written' = [written EXCEPT ![k] = @ + left]
  <2>1. ~filled' => ~filled /\ m = left
    BY <1>2, <1>3
  <2> QED  BY <1>3, <2>1
<1> QED  BY <1>5, <1>6, <1>7, <1>8, <1>9

(* What a write that is started changes: it transmits, or it waits. *)
LEMMA Started ==
    ASSUME SendingTypeOK, InOrder, NEW k \in Answers, NEW left \in Nat,
           written[k] + left <= InPlace, NEW others, StartOp(k, left, others)
    PROVE  /\ InOrder'
           /\ stream' \in Seq(Answers \X (1..InPlace) \X Chars)
           /\ pipe' \in 0..Capacity
           /\ written' \in [Answers -> 0..InPlace]
           /\ \A j \in Answers : j # k => written'[j] = written[j]
           /\ written'[k] \in 0..(written[k] + left)
           /\ op_queue_' = op_queue_ \/ op_queue_' = Append(op_queue_, k)
           /\ completed' \subseteq others \cup {k}
           /\ try_speculative_' \in BOOLEAN /\ filled' \in BOOLEAN
           /\ filled => filled'
           /\ ~filled' => /\ ~filled /\ try_speculative_' = TRUE /\ op_queue_' = << >>
                          /\ stream' = stream \o Piece(k, left)
                          /\ written' = [written EXCEPT ![k] = @ + left]
<1>1. CASE op_queue_ = << >> /\ try_speculative_ /\ Room > 0
  <2>1. Transmit(k, left, others) /\ op_queue_' = op_queue_
    BY <1>1 DEF StartOp
  <2> QED  BY <1>1, <2>1, Transmitted
<1>2. CASE ~(op_queue_ = << >> /\ try_speculative_ /\ Room > 0)
  <2>1. /\ op_queue_' = Append(op_queue_, k) /\ completed' = others /\ filled' = TRUE
        /\ written' = written /\ stream' = stream /\ pipe' = pipe
        /\ try_speculative_' = try_speculative_
    BY <1>2 DEF StartOp
  <2>2. InOrder'
    BY <2>1, SMT DEF InOrder, Bytes
  <2>3. /\ stream' \in Seq(Answers \X (1..InPlace) \X Chars)
        /\ pipe' \in 0..Capacity /\ written' \in [Answers -> 0..InPlace]
        /\ try_speculative_' \in BOOLEAN
    BY <2>1, Zenon DEF SendingTypeOK
  <2>4. written'[k] \in 0..(written[k] + left)
    BY <2>1, <2>3, Widths
  <2> QED  BY <2>1, <2>2, <2>3, <2>4
<1> QED  BY <1>1, <1>2

(* A sequence over a set is one over any larger set. *)
LEMMA SeqOfMore ==
    ASSUME NEW S, NEW T, S \subseteq T, NEW s \in Seq(S)
    PROVE  s \in Seq(T)
<1>1. s \in [1..Len(s) -> S] /\ Len(s) \in Nat
  BY LenProperties
<1>2. s \in [1..Len(s) -> T]
  BY <1>1
<1> QED  BY <1>1, <1>2, SeqDef

(* Where the bytes of a stream are, and what they belong to. *)
LEMMA PlacesOfBytes ==
    ASSUME NEW S, NEW s \in Seq(S), NEW t \in Seq(S)
    PROVE  DOMAIN s = 1..Len(s) /\ Len(s) \in Nat /\ DOMAIN t \subseteq Nat
  BY LenProperties

LEMMA AnswerOfByte ==
    ASSUME SendingTypeOK, NEW p \in Bytes PROVE stream[p][1] \in Answers
<1> DEFINE S == Answers \X (1..InPlace) \X Chars
<1>1. stream \in Seq(S)
  BY Zenon DEF SendingTypeOK
<1> HIDE DEF S
<1>2. stream[p] \in S
  <2>1. p \in 1..Len(stream)
    BY <1>1, LenProperties DEF Bytes
  <2> QED  BY <1>1, <2>1, ElementOfSeq
<1>3. stream[p] \in Answers \X (1..InPlace) \X Chars
  BY <1>2 DEF S
<1> QED  BY <1>3

(* An output's text, assigned over the old one, is there in full. *)
LEMMA AssignedInCells ==
    ASSUME NEW old \in [1..InPlace + 1 -> Chars], NEW v \in DOMAIN Width
    PROVE  /\ Assigned(old, v) \in [1..InPlace + 1 -> Chars]
           /\ \A i \in 1..Width[v] : Assigned(old, v)[i] = <<v, i>>
<1>1. v \in Nat /\ Width[v] \in 1..InPlace /\ InPlace = 15 /\ Nul \in Chars
  <2>1. v \in Nat /\ Width[v] \in 1..InPlace /\ InPlace = 15
    BY Widths
  <2>2. Nul \in Chars
    BY DEF Nul, Chars
  <2> QED  BY <2>1, <2>2
<1>2. ASSUME NEW i \in 1..InPlace + 1
      PROVE  /\ i \in Nat /\ <<v, i>> \in Chars /\ old[i] \in Chars
  BY <1>1 DEF Chars
<1>3. DOMAIN old = 1..InPlace + 1
  OBVIOUS
<1>4. Assigned(old, v) \in [1..InPlace + 1 -> Chars]
  BY <1>1, <1>2, <1>3 DEF Assigned, CharAt
<1>5. ASSUME NEW i \in 1..Width[v] PROVE Assigned(old, v)[i] = <<v, i>>
  <2>1. i \in 1..InPlace + 1 /\ i <= Width[v]
    BY <1>1
  <2>2. i <= Width[v] + 1 /\ i <= Width[v]
    BY <1>1
  <2> QED  BY <1>3, <2>1, <2>2 DEF Assigned, CharAt
<1> QED  BY <1>4, <1>5

-----------------------------------------------------------------------------
LEMMA InitInv ==
    ASSUME SendingInit PROVE SendingInv
<1>1. 1 \in DOMAIN Width /\ InPlace = 15 /\ MaxReads \in Nat /\ Capacity \in Nat \ {0}
  BY Widths
<1>2. [i \in 1..InPlace + 1 |-> Nul] \in [1..InPlace + 1 -> Chars]
  BY DEF Nul, Chars
<1>3. cells \in [1..InPlace + 1 -> Chars] /\ LatestInCells
  BY <1>1, <1>2, AssignedInCells DEF SendingInit, LatestInCells
<1>4. /\ version \in DOMAIN Width /\ reads \in 0..MaxReads
      /\ asked \in [Answers -> 0..Len(Width)]
      /\ length \in [Answers -> 0..InPlace]
      /\ written \in [Answers -> 0..InPlace] /\ \A k \in Answers : written[k] <= length[k]
  BY <1>1, Widths DEF SendingInit
<1>5. /\ op_queue_ \in Seq(1..reads) /\ completed \subseteq 1..reads
      /\ try_speculative_ \in BOOLEAN /\ performing \in BOOLEAN /\ filled \in BOOLEAN
      /\ pipe \in 0..Capacity
      /\ stream \in Seq(Answers \X (1..InPlace) \X Chars)
  <2>1. << >> \in Seq(1..reads) /\ << >> \in Seq(Answers \X (1..InPlace) \X Chars)
    BY EmptySeq
  <2>2. pipe \in 0..Capacity
    BY <1>1 DEF SendingInit
  <2> QED  BY <2>1, <2>2, Zenon DEF SendingInit
<1>6. SendingTypeOK
  <2>1. starting \in BOOLEAN
    BY DEF SendingInit
  <2> QED  BY <1>3, <1>4, <1>5, <2>1, Zenon DEF SendingTypeOK
<1>7. Bytes = {} /\ 1..reads = {}
  BY EmptySeq DEF SendingInit, Bytes
<1>8. InOrder
  <2>1. \A k \in Answers : 1..written[k] = {}
    BY DEF SendingInit
  <2> QED  BY <1>7, <2>1 DEF InOrder
<1>9. InTurn /\ Unfilled
  BY <1>7 DEF SendingInit, InTurn, Unfilled
<1> QED  BY <1>3, <1>6, <1>8, <1>9 DEF SendingInv, SendingInit, NotAskedYet

LEMMA UpdateStep ==
    ASSUME SendingInv, UpdateSendingData PROVE SendingInv'
<1>1. /\ version' = version + 1 /\ version < Len(Width)
      /\ cells' = Assigned(cells, version')
      /\ reads' = reads /\ asked' = asked /\ length' = length /\ written' = written
      /\ starting' = starting
      /\ op_queue_' = op_queue_ /\ try_speculative_' = try_speculative_
      /\ performing' = performing /\ completed' = completed
      /\ pipe' = pipe /\ stream' = stream /\ filled' = filled
  BY DEF UpdateSendingData, writes, reactor, network
<1>2. version \in DOMAIN Width /\ cells \in [1..InPlace + 1 -> Chars]
  BY DEF SendingInv, SendingTypeOK
<1>3. version' \in DOMAIN Width
  BY <1>1, <1>2, Widths
<1>4. cells' \in [1..InPlace + 1 -> Chars] /\ LatestInCells'
  BY <1>1, <1>2, <1>3, AssignedInCells DEF LatestInCells
<1>5. SendingTypeOK'
  BY <1>1, <1>3, <1>4 DEF SendingInv, SendingTypeOK, Answers
<1>6. /\ performing' => op_queue_' # << >>
      /\ starting' => reads' > 0
      /\ InOrder' /\ (~filled' => InTurn' /\ Unfilled') /\ NotAskedYet'
  BY <1>1 DEF SendingInv, InOrder, InTurn, Unfilled, NotAskedYet, Bytes, Answers
<1> QED  BY <1>4, <1>5, <1>6 DEF SendingInv

LEMMA PeerReadsStep ==
    ASSUME SendingInv, PeerReads PROVE SendingInv'
<1>1. PICK n \in 1..pipe : pipe' = pipe - n
  BY DEF PeerReads
<1>2. /\ version' = version /\ cells' = cells
      /\ reads' = reads /\ asked' = asked /\ length' = length /\ written' = written
      /\ starting' = starting
      /\ op_queue_' = op_queue_ /\ try_speculative_' = try_speculative_
      /\ performing' = performing /\ completed' = completed
      /\ stream' = stream /\ filled' = filled
  BY DEF PeerReads, writes, reactor
<1>3. pipe' \in 0..Capacity
  <2>1. pipe \in 0..Capacity
    BY DEF SendingInv, SendingTypeOK
  <2> QED  BY <1>1, <2>1, Widths
<1>4. SendingTypeOK'
  BY <1>2, <1>3 DEF SendingInv, SendingTypeOK, Answers
<1>5. /\ performing' => op_queue_' # << >>
      /\ starting' => reads' > 0
      /\ InOrder' /\ (~filled' => InTurn' /\ Unfilled')
      /\ LatestInCells' /\ NotAskedYet'
  BY <1>2
     DEF SendingInv, InOrder, InTurn, Unfilled, LatestInCells, NotAskedYet, Bytes, Answers
<1> QED  BY <1>4, <1>5 DEF SendingInv

LEMMA WritableStep ==
    ASSUME SendingInv, Writable PROVE SendingInv'
<1>1. /\ version' = version /\ cells' = cells
      /\ reads' = reads /\ asked' = asked /\ length' = length /\ written' = written
      /\ starting' = starting
      /\ op_queue_' = op_queue_ /\ try_speculative_' = TRUE
      /\ performing' = (op_queue_ # << >>) /\ completed' = completed
      /\ pipe' = pipe /\ stream' = stream /\ filled' = filled
      /\ op_queue_ # << >> \/ ~try_speculative_
  BY DEF Writable, writes, network
<1>2. filled /\ filled'
  BY <1>1 DEF SendingInv, SendingTypeOK, Unfilled
<1>3. SendingTypeOK'
  BY <1>1 DEF SendingInv, SendingTypeOK, Answers
<1>4. (starting' => reads' > 0) /\ InOrder' /\ LatestInCells' /\ NotAskedYet'
  BY <1>1 DEF SendingInv, InOrder, LatestInCells, NotAskedYet, Bytes, Answers
<1> QED  BY <1>1, <1>2, <1>3, <1>4 DEF SendingInv

(* The rest of an answer that was asked for fits in the text's memory. *)
LEMMA LeftBounds ==
    ASSUME SendingTypeOK, NEW k \in 1..reads
    PROVE  /\ k \in Answers /\ Left(k) \in Nat
           /\ written[k] + Left(k) = length[k] /\ written[k] + Left(k) <= InPlace
<1>1. /\ reads \in 0..MaxReads /\ written \in [Answers -> 0..InPlace]
      /\ length \in [Answers -> 0..InPlace] /\ \A j \in Answers : written[j] <= length[j]
  BY Zenon DEF SendingTypeOK
<1>2. k \in Answers
  BY <1>1, Widths DEF Answers
<1>3. written[k] \in 0..15 /\ length[k] \in 0..15 /\ written[k] <= length[k]
  BY <1>1, <1>2, Widths
<1>4. InPlace = 15
  BY Widths
<1> DEFINE a == written[k]
           b == length[k]
<1>5. a \in 0..15 /\ b \in 0..15 /\ a <= b /\ Left(k) = b - a
  BY <1>3 DEF Left
<1> HIDE DEF a, b
<1>6. Left(k) \in Nat /\ a + Left(k) = b /\ b <= 15
  BY <1>5
<1> QED  BY <1>2, <1>4, <1>6 DEF a, b

(* What is the same for every write that goes on with an answer. *)
LEMMA GoesOn ==
    ASSUME SendingInv, NEW k \in 1..reads,
           version' = version, cells' = cells, reads' = reads, asked' = asked,
           length' = length,
           InOrder',
           stream' \in Seq(Answers \X (1..InPlace) \X Chars),
           pipe' \in 0..Capacity,
           written' \in [Answers -> 0..InPlace],
           \A j \in Answers : j # k => written'[j] = written[j],
           written'[k] \in 0..(written[k] + Left(k)),
           op_queue_' \in Seq(1..reads),
           completed' \subseteq 1..reads,
           try_speculative_' \in BOOLEAN, filled' \in BOOLEAN, performing' \in BOOLEAN,
           performing' => op_queue_' # << >>,
           starting' \in BOOLEAN, starting' => starting,
           ~filled' => InTurn' /\ Unfilled'
    PROVE  SendingInv'
<1>1. SendingTypeOK /\ k \in Answers
  BY LeftBounds DEF SendingInv
<1>2. starting' => reads' > 0
  BY DEF SendingInv
<1>3. \A j \in Answers : written'[j] <= length'[j]
  <2>1. ASSUME NEW j \in Answers PROVE written'[j] <= length'[j]
    <3>1. CASE j = k
      BY <1>1, <3>1, LeftBounds, Widths
    <3>2. CASE j # k
      BY <1>1, <3>2 DEF SendingTypeOK
    <3> QED  BY <3>1, <3>2
  <2> QED  BY <2>1
<1>4. SendingTypeOK'
  BY <1>1, <1>3, Zenon DEF SendingTypeOK, Answers
<1>5. LatestInCells'
  BY DEF SendingInv, LatestInCells
<1>6. NotAskedYet'
  <2>1. k <= reads /\ reads \in Nat /\ Answers \subseteq Nat
    BY <1>1 DEF SendingTypeOK, Answers
  <2>2. \A j \in Answers : j > reads => j # k
    BY <2>1
  <2> QED  BY <2>2 DEF SendingInv, NotAskedYet, Answers
<1> QED  BY <1>2, <1>4, <1>5, <1>6 DEF SendingInv

LEMMA PerformStep ==
    ASSUME SendingInv, Perform PROVE SendingInv'
<1> DEFINE k == Head(op_queue_)
<1>1. /\ SendingTypeOK /\ InOrder /\ performing /\ op_queue_ # << >>
      /\ filled
      /\ version' = version /\ cells' = cells /\ reads' = reads /\ asked' = asked
      /\ length' = length /\ starting' = starting /\ starting \in BOOLEAN
      /\ starting => reads > 0
  BY DEF SendingInv, Perform, Unfilled, SendingTypeOK
<1>2. op_queue_ \in Seq(1..reads) /\ completed \subseteq 1..reads
  BY <1>1, Zenon DEF SendingTypeOK
<1>3. /\ k \in 1..reads /\ Tail(op_queue_) \in Seq(1..reads)
      /\ Len(op_queue_) > 1 => Tail(op_queue_) # << >>
  <2>1. /\ k \in 1..reads /\ Tail(op_queue_) \in Seq(1..reads)
        /\ Len(Tail(op_queue_)) = Len(op_queue_) - 1 /\ Len(op_queue_) \in Nat
    <3> DEFINE T == 1..reads
    <3>1. op_queue_ \in Seq(T)
      BY <1>2
    <3> HIDE DEF T
    <3>2. /\ k \in T /\ Tail(op_queue_) \in Seq(T)
          /\ Len(Tail(op_queue_)) = Len(op_queue_) - 1 /\ Len(op_queue_) \in Nat
      BY <1>1, <3>1, HeadTailProperties, LenProperties
    <3> QED  BY <3>2 DEF T
  <2>2. Len(<< >>) = 0
    BY EmptySeq
  <2>3. ASSUME Len(op_queue_) > 1, Tail(op_queue_) = << >> PROVE FALSE
    <3>1. Len(op_queue_) - 1 = 0
      BY <2>1, <2>2, <2>3, Zenon
    <3> DEFINE n == Len(op_queue_)
    <3>2. n \in Nat /\ n > 1 /\ n - 1 = 0
      BY <2>1, <2>3, <3>1, Zenon
    <3> HIDE DEF n
    <3> QED  BY <3>2
  <2> QED  BY <2>1, <2>3
<1>4. /\ k \in Answers /\ Left(k) \in Nat /\ written[k] + Left(k) <= InPlace
  BY <1>1, <1>3, LeftBounds
<1>5. CASE Room > 0
  <2>1. /\ Transmit(k, Left(k), completed)
        /\ op_queue_' = Tail(op_queue_)
        /\ performing' = (Left(k) <= Room /\ Len(op_queue_) > 1)
    BY <1>5 DEF Perform
  <2> HIDE DEF k
  <2>2. op_queue_' \in Seq(1..reads) /\ performing' \in BOOLEAN
        /\ (performing' => op_queue_' # << >>)
    BY <1>3, <2>1
  <2>3. /\ InOrder'
        /\ stream' \in Seq(Answers \X (1..InPlace) \X Chars)
        /\ pipe' \in 0..Capacity
        /\ written' \in [Answers -> 0..InPlace]
        /\ \A j \in Answers : j # k => written'[j] = written[j]
        /\ written'[k] \in 0..(written[k] + Left(k))
        /\ completed' = completed \cup {k}
        /\ try_speculative_' \in BOOLEAN /\ filled' \in BOOLEAN
        /\ filled => filled'
    BY <1>1, <1>4, <2>1, Transmitted
  <2>4. completed' \subseteq 1..reads
    BY <1>2, <1>3, <2>3
  <2> QED  BY <1>1, <1>3, <2>2, <2>3, <2>4, GoesOn
<1>6. CASE ~(Room > 0)
  <2>1. /\ performing' = FALSE
        /\ written' = written /\ op_queue_' = op_queue_ /\ completed' = completed
        /\ try_speculative_' = try_speculative_
        /\ pipe' = pipe /\ stream' = stream /\ filled' = filled
    BY <1>6 DEF Perform, network
  <2>2. SendingTypeOK'
    BY <1>1, <2>1, Zenon DEF SendingTypeOK, Answers
  <2>3. InOrder' /\ LatestInCells' /\ NotAskedYet'
    BY <1>1, <2>1 DEF SendingInv, InOrder, LatestInCells, NotAskedYet, Bytes, Answers
  <2> QED  BY <1>1, <2>1, <2>2, <2>3 DEF SendingInv
<1> QED  BY <1>5, <1>6

LEMMA HandleWriteSomeStep ==
    ASSUME SendingInv, HandleWriteSome PROVE SendingInv'
<1>1. /\ SendingTypeOK /\ InOrder /\ performing' = performing /\ performing = FALSE
      /\ version' = version /\ cells' = cells /\ reads' = reads /\ asked' = asked
      /\ length' = length
  BY DEF SendingInv, HandleWriteSome, SendingTypeOK
<1>0. starting' = starting /\ starting = FALSE
  BY DEF SendingInv, HandleWriteSome, SendingTypeOK
<1>2. PICK k \in completed :
         IF Unsent(k) > 0
            THEN StartOp(k, Unsent(k), completed \ {k})
            ELSE /\ completed' = completed \ {k}
                 /\ UNCHANGED <<written, op_queue_, try_speculative_, network>>
  BY DEF HandleWriteSome
<1>3. /\ completed \subseteq 1..reads /\ k \in 1..reads /\ op_queue_ \in Seq(1..reads)
      /\ Unsent(k) = Left(k)
  BY <1>1 DEF SendingTypeOK, Unsent
<1>4. k \in Answers /\ Left(k) \in Nat /\ written[k] + Left(k) <= InPlace
  BY <1>1, <1>3, LeftBounds
<1>5. CASE Left(k) > 0
  <2>1. StartOp(k, Left(k), completed \ {k})
    BY <1>2, <1>3, <1>5
  <2>2. /\ InOrder'
        /\ stream' \in Seq(Answers \X (1..InPlace) \X Chars)
        /\ pipe' \in 0..Capacity
        /\ written' \in [Answers -> 0..InPlace]
        /\ \A j \in Answers : j # k => written'[j] = written[j]
        /\ written'[k] \in 0..(written[k] + Left(k))
        /\ op_queue_' = op_queue_ \/ op_queue_' = Append(op_queue_, k)
        /\ completed' \subseteq (completed \ {k}) \cup {k}
        /\ try_speculative_' \in BOOLEAN /\ filled' \in BOOLEAN
        /\ filled => filled'
    BY <1>1, <1>4, <2>1, Started
  <2>3. op_queue_' \in Seq(1..reads) /\ completed' \subseteq 1..reads
    <3>1. Append(op_queue_, k) \in Seq(1..reads)
      BY <1>3, AppendProperties
    <3>2. completed' \subseteq 1..reads
      BY <1>3, <2>2
    <3> QED  BY <1>3, <2>2, <3>1, <3>2
  <2>4. filled
    <3>1. ASSUME ~filled PROVE FALSE
      <4>1. written[k] = length[k] /\ written[k] \in 0..InPlace
        BY <1>0, <1>1, <1>3, <1>4, <3>1 DEF SendingInv, Unfilled, SendingTypeOK
      <4> QED  BY <1>5, <4>1, Widths DEF Left
    <3> QED  BY <3>1
  <2>5. performing' \in BOOLEAN /\ (performing' => op_queue_' # << >>)
    BY <1>1
  <2> QED  BY <1>0, <1>1, <1>3, <2>2, <2>3, <2>4, <2>5, GoesOn
<1>6. CASE ~(Left(k) > 0)
  <2>1. /\ completed' = completed \ {k}
        /\ written' = written /\ op_queue_' = op_queue_
        /\ try_speculative_' = try_speculative_
        /\ pipe' = pipe /\ stream' = stream /\ filled' = filled
    BY <1>2, <1>3, <1>6 DEF network
  <2>2. completed' \subseteq 1..reads
    BY <1>3, <2>1
  <2>3. SendingTypeOK'
    BY <1>0, <1>1, <2>1, <2>2, Zenon DEF SendingTypeOK, Answers
  <2>4. InOrder' /\ (~filled' => InTurn' /\ Unfilled') /\ LatestInCells' /\ NotAskedYet'
    BY <1>0, <1>1, <2>1
       DEF SendingInv, InOrder, InTurn, Unfilled, LatestInCells, NotAskedYet, Bytes, Answers
  <2> QED  BY <1>0, <1>1, <2>3, <2>4 DEF SendingInv
<1> QED  BY <1>5, <1>6

LEMMA HandleReadStep ==
    ASSUME SendingInv, HandleRead PROVE SendingInv'
<1> DEFINE k == reads + 1
           w == Width[version]
<1>1. /\ SendingTypeOK /\ InOrder
      /\ performing' = performing /\ performing = FALSE
      /\ starting' = TRUE /\ starting = FALSE
      /\ version' = version /\ cells' = cells /\ written' = written
      /\ reads' = k /\ reads < MaxReads
      /\ asked' = [asked EXCEPT ![k] = version]
      /\ length' = [length EXCEPT ![k] = w]
      /\ op_queue_' = op_queue_ /\ try_speculative_' = try_speculative_
      /\ completed' = completed /\ pipe' = pipe /\ stream' = stream /\ filled' = filled
  BY DEF SendingInv, HandleRead, LengthToSend, SendingTypeOK, reactor, network
<1>2. /\ reads \in Nat /\ version \in DOMAIN Width
      /\ asked \in [Answers -> 0..Len(Width)] /\ length \in [Answers -> 0..InPlace]
      /\ written \in [Answers -> 0..InPlace] /\ (\A j \in Answers : written[j] <= length[j])
      /\ op_queue_ \in Seq(1..reads) /\ completed \subseteq 1..reads
  <2>1. reads \in 0..MaxReads
    BY <1>1, Zenon DEF SendingTypeOK
  <2>2. reads \in Nat
    BY <2>1
  <2> QED  BY <1>1, <2>2, Zenon DEF SendingTypeOK
<1>3. /\ k \in Answers /\ 1..reads \subseteq 1..k /\ k > reads /\ k > 0 /\ k \in 0..MaxReads
      /\ \A j \in 1..k : j \in Answers /\ (j # k => j \in 1..reads)
  BY <1>1, <1>2, Widths DEF Answers
<1>4. w \in 0..InPlace /\ InPlace = 15 /\ version \in 0..Len(Width)
  BY <1>2, Widths
<1>5. written[k] = 0
  BY <1>3 DEF SendingInv, NotAskedYet
<1> HIDE DEF k, w
<1>6. op_queue_' \in Seq(1..k) /\ completed' \subseteq 1..k
  BY <1>1, <1>2, <1>3, SeqOfMore
<1>7. /\ asked' \in [Answers -> 0..Len(Width)] /\ length' \in [Answers -> 0..InPlace]
      /\ length'[k] = w
      /\ \A j \in Answers : j # k => length'[j] = length[j]
  BY <1>1, <1>2, <1>3, <1>4
<1>8. \A j \in Answers : written'[j] <= length'[j]
  <2>1. ASSUME NEW j \in Answers PROVE written'[j] <= length'[j]
    <3>1. CASE j = k
      BY <1>1, <1>4, <1>5, <1>7, <3>1
    <3>2. CASE j # k
      BY <1>1, <1>2, <1>7, <3>2
    <3> QED  BY <3>1, <3>2
  <2> QED  BY <2>1
<1>9. SendingTypeOK'
  BY <1>1, <1>2, <1>3, <1>6, <1>7, <1>8, Zenon DEF SendingTypeOK, Answers
<1>10. InOrder' /\ LatestInCells' /\ NotAskedYet'
  <2>1. InOrder' /\ LatestInCells'
    BY <1>1 DEF SendingInv, InOrder, LatestInCells, Bytes, Answers
  <2>2. \A j \in Answers : j > k => j > reads
    BY <1>2 DEF Answers, k
  <2> QED  BY <1>1, <2>1, <2>2 DEF SendingInv, NotAskedYet, Answers
<1>11. ASSUME ~filled' PROVE InTurn' /\ Unfilled'
  <2>1. InTurn /\ Unfilled
    BY <1>1, <1>11 DEF SendingInv
  <2>2. \A j \in 1..k : written'[j] = length'[j] \/ j = k
    BY <1>1, <1>3, <1>7, <2>1 DEF Unfilled
  <2>3. \A p \in Bytes : stream[p][1] <= k
    <3>1. ASSUME NEW p \in Bytes PROVE stream[p][1] <= k
      <4>1. stream[p][1] \in Nat
        BY <1>1, AnswerOfByte DEF Answers
      <4>2. stream[p][1] <= reads
        BY <2>1 DEF Unfilled
      <4> QED  BY <1>2, <4>1, <4>2 DEF k
    <3> QED  BY <3>1
  <2> QED  BY <1>1, <2>1, <2>2, <2>3 DEF InTurn, Unfilled, Bytes
<1> QED  BY <1>1, <1>3, <1>9, <1>10, <1>11 DEF SendingInv

(* The first send of an answer puts its bytes behind those of the others.  *)
LEMMA SendDataStep ==
    ASSUME SendingInv, SendData PROVE SendingInv'
<1>1. /\ SendingTypeOK /\ InOrder
      /\ version' = version /\ cells' = cells /\ reads' = reads /\ asked' = asked
      /\ length' = length /\ performing' = performing /\ performing \in BOOLEAN
      /\ performing => op_queue_ # << >>
      /\ starting /\ starting' = FALSE /\ reads > 0
      /\ StartOp(reads, Left(reads), completed)
  BY DEF SendingInv, SendData, SendingTypeOK
<1>2. /\ reads \in Nat /\ reads \in 1..reads
      /\ completed \subseteq 1..reads /\ op_queue_ \in Seq(1..reads)
  <2>1. reads \in 0..MaxReads /\ completed \subseteq 1..reads /\ op_queue_ \in Seq(1..reads)
    BY <1>1, Zenon DEF SendingTypeOK
  <2> QED  BY <1>1, <2>1
<1>3. PICK k \in 1..reads : k = reads
  BY <1>2
<1>4. /\ k \in Answers /\ Left(k) \in Nat
      /\ written[k] + Left(k) = length[k] /\ written[k] + Left(k) <= InPlace
  BY <1>1, LeftBounds
<1>5. /\ InOrder'
      /\ stream' \in Seq(Answers \X (1..InPlace) \X Chars)
      /\ pipe' \in 0..Capacity
      /\ written' \in [Answers -> 0..InPlace]
      /\ \A j \in Answers : j # k => written'[j] = written[j]
      /\ written'[k] \in 0..(written[k] + Left(k))
      /\ op_queue_' = op_queue_ \/ op_queue_' = Append(op_queue_, k)
      /\ completed' \subseteq completed \cup {k}
      /\ try_speculative_' \in BOOLEAN /\ filled' \in BOOLEAN
      /\ ~filled' => /\ ~filled /\ try_speculative_' = TRUE /\ op_queue_' = << >>
                     /\ stream' = stream \o Piece(k, Left(k))
                     /\ written' = [written EXCEPT ![k] = @ + Left(k)]
  BY <1>1, <1>3, <1>4, Started
<1>6. op_queue_' \in Seq(1..reads) /\ (op_queue_ # << >> => op_queue_' # << >>)
  <2>1. /\ Append(op_queue_, k) \in Seq(1..reads)
        /\ Append(op_queue_, k) # << >>
    BY <1>2, AppendProperties, EmptySeq
  <2> QED  BY <1>2, <1>5, <2>1
<1>7. ASSUME ~filled' PROVE InTurn' /\ Unfilled'
  <2>1. /\ InTurn /\ Unfilled /\ performing = FALSE
        /\ stream' = stream \o Piece(k, Left(k))
        /\ written' = [written EXCEPT ![k] = @ + Left(k)]
    BY <1>5, <1>7 DEF SendingInv, Unfilled
  <2>2. /\ Bytes \subseteq Bytes'
        /\ \A p \in Bytes : stream'[p] = stream[p]
        /\ \A p \in Bytes' \ Bytes : p > Len(stream) /\ stream'[p][1] = k
    <3>1. /\ Bytes \subseteq Bytes'
          /\ \A p \in Bytes : stream'[p] = stream[p]
          /\ \A p \in Bytes' \ Bytes :
                /\ p > Len(stream)
                /\ p - Len(stream) \in 1..Left(k)
                /\ stream'[p] = <<k, written[k] + (p - Len(stream)),
                                  cells[written[k] + (p - Len(stream))]>>
      BY <1>1, <1>4, <2>1, StreamGrows
    <3> QED  BY <3>1
  <2>3. \A p \in Bytes : stream'[p][1] \in Nat /\ stream'[p][1] <= k
    <3>1. ASSUME NEW p \in Bytes PROVE stream'[p][1] \in Nat /\ stream'[p][1] <= k
      <4>1. stream[p][1] \in Nat /\ stream[p][1] <= reads
        BY <1>1, <2>1, AnswerOfByte DEF Unfilled, Answers
      <4> QED  BY <1>3, <2>2, <4>1
    <3> QED  BY <3>1
  <2>4. \A p \in Bytes' : stream'[p][1] \in Nat /\ stream'[p][1] <= k
    <3>1. k \in Nat /\ k <= k
      BY <1>2, <1>3
    <3> QED  BY <2>2, <2>3, <3>1
  <2>5. ASSUME NEW p \in Bytes', NEW q \in Bytes', p < q
        PROVE  stream'[p][1] <= stream'[q][1]
    <3>1. CASE q \in Bytes
      <4>1. Bytes = 1..Len(stream) /\ Len(stream) \in Nat /\ Bytes' \subseteq Nat
        <5> DEFINE S == Answers \X (1..InPlace) \X Chars
        <5>1. stream \in Seq(S) /\ stream' \in Seq(S)
          BY <1>1, <1>5, Zenon DEF SendingTypeOK
        <5> HIDE DEF S
        <5> QED  BY <5>1, PlacesOfBytes DEF Bytes
      <4>2. p \in Bytes
        <5>1. p \in Bytes' \ Bytes => p > Len(stream)
          BY <2>2
        <5> QED  BY <2>5, <3>1, <4>1, <5>1
      <4> QED  BY <2>1, <2>2, <2>5, <3>1, <4>2 DEF InTurn
    <3>2. CASE q \notin Bytes
      BY <2>2, <2>4, <3>2
    <3> QED  BY <3>1, <3>2
  <2>6. ASSUME NEW j \in 1..reads PROVE written'[j] = length'[j]
    <3>1. CASE j = k
      BY <1>1, <1>4, <2>1, <3>1 DEF SendingTypeOK
    <3>2. CASE j # k
      BY <1>1, <1>3, <1>5, <2>1, <3>2, LeftBounds DEF Unfilled
    <3> QED  BY <3>1, <3>2
  <2> QED  BY <1>1, <1>3, <1>5, <1>7, <2>1, <2>4, <2>5, <2>6 DEF InTurn, Unfilled
<1> QED  BY <1>1, <1>2, <1>5, <1>6, <1>7, GoesOn

-----------------------------------------------------------------------------
(***************************************************************************)
(* Which output a byte is of.  What counts is the memory up to the length  *)
(* that was asked for: nothing older than the answer is left there.        *)
(***************************************************************************)
OfLater(k, i, c) == \E v \in asked[k]..version : i <= Width[v] + 1 /\ c = CharAt(v, i)

AskedKept == \A k \in 1..reads : asked[k] \in 1..version /\ length[k] = Width[asked[k]]

CellsOfLater == \A k \in 1..reads : \A i \in 1..length[k] : OfLater(k, i, cells[i])

BytesOfLater ==
    \A p \in Bytes : stream[p][1] \in 1..reads /\ OfLater(stream[p][1], stream[p][2], stream[p][3])

LaterInv == AskedKept /\ CellsOfLater /\ BytesOfLater

(* A byte that the socket takes comes from the memory, within what is left *)
(* of the write.                                                           *)
LEMMA TransmitSends ==
    ASSUME SendingTypeOK, InOrder, NEW k \in Answers, NEW left \in Nat,
           written[k] + left <= InPlace, NEW others, Transmit(k, left, others)
    PROVE  \A p \in Bytes' :
              \/ p \in Bytes /\ stream'[p] = stream[p]
              \/ \E i \in 1..left :
                    stream'[p] = <<k, written[k] + i, cells[written[k] + i]>>
<1> DEFINE m == Taken(left)
           n == Len(stream)
<1>1. written[k] \in 0..InPlace /\ InPlace = 15 /\ pipe \in 0..Capacity
  BY Zenon, Widths DEF SendingTypeOK
<1>2. m \in 0..left
  BY <1>1, TakenBounds
<1>3. stream' = stream \o Piece(k, m) /\ written' = [written EXCEPT ![k] = @ + m]
  BY Zenon DEF Transmit
<1> HIDE DEF m, n
<1>4. m \in Nat /\ written[k] + m <= InPlace /\ 1..m \subseteq 1..left
  BY <1>1, <1>2
<1>5. /\ \A p \in Bytes : stream'[p] = stream[p]
      /\ \A p \in Bytes' \ Bytes :
            /\ p - Len(stream) \in 1..m
            /\ stream'[p] = <<k, written[k] + (p - Len(stream)),
                              cells[written[k] + (p - Len(stream))]>>
  BY <1>3, <1>4, StreamGrows
<1> QED  BY <1>4, <1>5

LEMMA StartSends ==
    ASSUME SendingTypeOK, InOrder, NEW k \in Answers, NEW left \in Nat,
           written[k] + left <= InPlace, NEW others, StartOp(k, left, others)
    PROVE  \A p \in Bytes' :
              \/ p \in Bytes /\ stream'[p] = stream[p]
              \/ \E i \in 1..left :
                    stream'[p] = <<k, written[k] + i, cells[written[k] + i]>>
<1>1. CASE op_queue_ = << >> /\ try_speculative_ /\ Room > 0
  <2>1. Transmit(k, left, others)
    BY <1>1 DEF StartOp
  <2> QED  BY <2>1, TransmitSends
<1>2. CASE ~(op_queue_ = << >> /\ try_speculative_ /\ Room > 0)
  BY <1>2 DEF StartOp, Bytes
<1> QED  BY <1>1, <1>2

(* A write that goes on with an answer takes what later outputs have left. *)
LEMMA GoesOnLater ==
    ASSUME SendingInv, LaterInv, NEW k \in 1..reads,
           version' = version, cells' = cells, reads' = reads, asked' = asked,
           length' = length,
           \A p \in Bytes' :
              \/ p \in Bytes /\ stream'[p] = stream[p]
              \/ \E i \in 1..Left(k) :
                    stream'[p] = <<k, written[k] + i, cells[written[k] + i]>>
    PROVE  LaterInv'
<1>1. AskedKept' /\ CellsOfLater'
  BY DEF LaterInv, AskedKept, CellsOfLater, OfLater
<1>2. ASSUME NEW p \in Bytes'
      PROVE  stream'[p][1] \in 1..reads /\ OfLater(stream'[p][1], stream'[p][2], stream'[p][3])
  <2>1. CASE p \in Bytes /\ stream'[p] = stream[p]
    BY <2>1, Zenon DEF LaterInv, BytesOfLater
  <2>2. ASSUME NEW i \in 1..Left(k),
               stream'[p] = <<k, written[k] + i, cells[written[k] + i]>>
        PROVE  /\ stream'[p][1] \in 1..reads
               /\ OfLater(stream'[p][1], stream'[p][2], stream'[p][3])
    <3>1. written[k] + i \in 1..length[k]
      <4>1. /\ k \in Answers /\ Left(k) \in Nat /\ written[k] + Left(k) = length[k]
        BY LeftBounds DEF SendingInv
      <4>2. written[k] \in 0..InPlace /\ InPlace = 15
        BY <4>1, Zenon, Widths DEF SendingInv, SendingTypeOK
      <4> DEFINE a == written[k]
                 b == length[k]
      <4>3. a \in 0..15 /\ a + Left(k) = b
        BY <4>1, <4>2
      <4> HIDE DEF a, b
      <4>4. a + i \in 1..b
        BY <4>1, <4>3
      <4> QED  BY <4>4 DEF a, b
    <3>2. OfLater(k, written[k] + i, cells[written[k] + i])
      BY <3>1, Zenon DEF LaterInv, CellsOfLater
    <3>3. /\ stream'[p][1] = k /\ stream'[p][2] = written[k] + i
          /\ stream'[p][3] = cells[written[k] + i]
      BY <2>2
    <3> QED  BY <3>2, <3>3, Zenon
  <2> QED  BY <2>1, <2>2
<1>3. BytesOfLater'
  BY <1>2 DEF BytesOfLater, OfLater
<1> QED  BY <1>1, <1>3 DEF LaterInv

(* An assignment leaves, at each place, its own character or the old one.  *)
LEMMA UpdateLater ==
    ASSUME SendingInv, LaterInv, UpdateSendingData PROVE LaterInv'
<1>1. /\ version' = version + 1 /\ cells' = Assigned(cells, version')
      /\ reads' = reads /\ asked' = asked /\ length' = length /\ stream' = stream
  BY DEF UpdateSendingData, writes, network
<1>2. version \in Nat /\ cells \in [1..InPlace + 1 -> Chars] /\ InPlace = 15
  <2>1. version \in DOMAIN Width /\ cells \in [1..InPlace + 1 -> Chars]
    BY Zenon DEF SendingInv, SendingTypeOK
  <2> QED  BY <2>1, Widths
<1>3. ASSUME NEW k \in 1..reads
      PROVE  /\ asked[k] \in 1..version /\ asked[k] \in 1..version'
             /\ version' \in asked[k]..version' /\ asked[k]..version \subseteq asked[k]..version'
             /\ length[k] = Width[asked[k]]
  <2>1. asked[k] \in 1..version /\ length[k] = Width[asked[k]]
    BY DEF LaterInv, AskedKept
  <2> QED  BY <1>1, <1>2, <2>1
<1>4. AskedKept'
  BY <1>1, <1>3 DEF AskedKept
<1>5. ASSUME NEW k \in 1..reads, NEW i, NEW c, OfLater(k, i, c)
      PROVE  \E v \in asked[k]..version' : i <= Width[v] + 1 /\ c = CharAt(v, i)
  BY <1>3, <1>5 DEF OfLater
<1>6. BytesOfLater'
  <2>1. ASSUME NEW p \in Bytes
        PROVE  /\ stream[p][1] \in 1..reads
               /\ \E v \in asked[stream[p][1]]..version' :
                     stream[p][2] <= Width[v] + 1 /\ stream[p][3] = CharAt(v, stream[p][2])
    <3>1. stream[p][1] \in 1..reads /\ OfLater(stream[p][1], stream[p][2], stream[p][3])
      BY Zenon DEF LaterInv, BytesOfLater
    <3> QED  BY <1>5, <3>1
  <2>2. Bytes' = Bytes
    BY <1>1 DEF Bytes
  <2> QED  BY <1>1, <2>1, <2>2 DEF BytesOfLater, OfLater, CharAt
<1>7. ASSUME NEW k \in 1..reads, NEW i \in 1..length[k]
      PROVE  \E v \in asked[k]..version' : i <= Width[v] + 1 /\ cells'[i] = CharAt(v, i)
  <2>1. i \in 1..InPlace + 1
    <3>1. length[k] \in 0..InPlace
      BY LeftBounds, Zenon DEF SendingInv, SendingTypeOK
    <3> QED  BY <1>2, <3>1
  <2>2. cells'[i] = IF i <= Width[version'] + 1 THEN CharAt(version', i) ELSE cells[i]
    <3>1. DOMAIN cells = 1..InPlace + 1
      BY <1>2
    <3> QED  BY <1>1, <2>1, <3>1 DEF Assigned
  <2>3. CASE i <= Width[version'] + 1
    BY <1>3, <2>2, <2>3
  <2>4. CASE ~(i <= Width[version'] + 1)
    <3>1. OfLater(k, i, cells[i])
      BY Zenon DEF LaterInv, CellsOfLater
    <3> QED  BY <1>5, <2>2, <2>4, <3>1
  <2> QED  BY <2>3, <2>4
<1>8. CellsOfLater'
  BY <1>1, <1>7 DEF CellsOfLater, OfLater, CharAt
<1> QED  BY <1>4, <1>6, <1>8 DEF LaterInv

(* A read asks for the latest output, which the memory holds. *)
LEMMA HandleReadLater ==
    ASSUME SendingInv, LaterInv, HandleRead PROVE LaterInv'
<1>0. PICK k, w : k = reads + 1 /\ w = Width[version]
  OBVIOUS
<1>1. /\ version' = version /\ cells' = cells /\ reads' = k /\ reads < MaxReads
      /\ asked' = [asked EXCEPT ![k] = version]
      /\ length' = [length EXCEPT ![k] = w]
      /\ stream' = stream
  BY <1>0 DEF HandleRead, LengthToSend, network
<1>2. /\ reads \in Nat /\ version \in 1..version /\ version \in Nat
      /\ w \in Nat /\ w <= InPlace
      /\ asked \in [Answers -> 0..Len(Width)] /\ length \in [Answers -> 0..InPlace]
  <2>1. /\ reads \in 0..MaxReads /\ version \in DOMAIN Width
        /\ asked \in [Answers -> 0..Len(Width)] /\ length \in [Answers -> 0..InPlace]
    BY Zenon DEF SendingInv, SendingTypeOK
  <2> QED  BY <1>0, <2>1, Widths
<1>3. /\ k \in Answers /\ k \in 1..k
      /\ \A j \in 1..k : j # k => j \in 1..reads /\ j \in Answers
      /\ \A j \in 1..reads : j # k /\ j \in 1..k /\ j \in Answers
  BY <1>0, <1>1, <1>2, Widths DEF Answers
<1>4. /\ asked'[k] = version /\ length'[k] = w
      /\ \A j \in 1..reads : asked'[j] = asked[j] /\ length'[j] = length[j]
  BY <1>1, <1>2, <1>3
<1>5. AskedKept'
  BY <1>0, <1>1, <1>2, <1>3, <1>4 DEF LaterInv, AskedKept
<1>6. ASSUME NEW i \in 1..w PROVE OfLater(k, i, cells[i])'
  <2>1. cells'[i] = CharAt(version, i) /\ i <= Width[version] + 1
    <3>1. cells[i] = <<version, i>>
      BY <1>0, <1>6 DEF SendingInv, LatestInCells
    <3>2. i <= Width[version] /\ i <= Width[version] + 1
      BY <1>0, <1>2, <1>6
    <3> QED  BY <1>1, <3>1, <3>2 DEF CharAt
  <2>2. version \in asked'[k]..version'
    BY <1>1, <1>2, <1>4
  <2> QED  BY <2>1, <2>2, Zenon DEF OfLater, CharAt
<1>7. CellsOfLater'
  <2>1. ASSUME NEW j \in 1..k, NEW i \in 1..length'[j] PROVE OfLater(j, i, cells[i])'
    <3>1. CASE j = k
      BY <1>4, <1>6, <2>1, <3>1
    <3>2. CASE j # k
      <4>1. j \in 1..reads /\ i \in 1..length[j]
        BY <1>3, <1>4, <2>1, <3>2
      <4>2. OfLater(j, i, cells[i])
        BY <4>1, Zenon DEF LaterInv, CellsOfLater
      <4>3. OfLater(j, i, cells[i])'
        BY <1>1, <1>4, <4>1, <4>2 DEF OfLater
      <4> QED  BY <4>3
    <3> QED  BY <3>1, <3>2
  <2> QED  BY <1>1, <2>1 DEF CellsOfLater
<1>8. BytesOfLater'
  <2>1. ASSUME NEW p \in Bytes
        PROVE  stream[p][1] \in 1..k /\ OfLater(stream[p][1], stream[p][2], stream[p][3])'
    <3>1. stream[p][1] \in 1..reads /\ OfLater(stream[p][1], stream[p][2], stream[p][3])
      BY Zenon DEF LaterInv, BytesOfLater
    <3> QED  BY <1>1, <1>3, <1>4, <3>1 DEF OfLater
  <2> QED  BY <1>1, <2>1 DEF BytesOfLater, Bytes
<1> QED  BY <1>5, <1>7, <1>8 DEF LaterInv

LEMMA LaterStep ==
    ASSUME SendingInv, LaterInv, [SendingNext]_sendingVars PROVE LaterInv'
<1>1. SendingTypeOK /\ InOrder
  BY DEF SendingInv
<1>2. ASSUME PeerReads \/ Writable \/ UNCHANGED sendingVars PROVE LaterInv'
  <2>1. /\ version' = version /\ cells' = cells /\ reads' = reads /\ asked' = asked
        /\ length' = length /\ stream' = stream
    BY <1>2 DEF PeerReads, Writable, sendingVars, writes, network
  <2> QED  BY <2>1 DEF LaterInv, AskedKept, CellsOfLater, BytesOfLater, OfLater, Bytes
<1>3. CASE Perform
  <2> DEFINE k == Head(op_queue_)
  <2>1. /\ version' = version /\ cells' = cells /\ reads' = reads /\ asked' = asked
        /\ length' = length
    BY <1>3 DEF Perform
  <2>2. k \in 1..reads
    <3> DEFINE T == 1..reads
    <3>1. op_queue_ \in Seq(T) /\ op_queue_ # << >>
      BY <1>1, <1>3, Zenon DEF SendingInv, SendingTypeOK, Perform
    <3> HIDE DEF T
    <3>2. k \in T
      BY <3>1, HeadTailProperties
    <3> QED  BY <3>2 DEF T
  <2>3. k \in Answers /\ Left(k) \in Nat /\ written[k] + Left(k) <= InPlace
    BY <1>1, <2>2, LeftBounds
  <2>4. CASE Room > 0
    <3>1. Transmit(k, Left(k), completed)
      BY <1>3, <2>4 DEF Perform
    <3> HIDE DEF k
    <3> QED  BY <1>1, <2>1, <2>2, <2>3, <3>1, TransmitSends, GoesOnLater
  <2>5. CASE ~(Room > 0)
    <3>1. stream' = stream
      BY <1>3, <2>5 DEF Perform, network
    <3> QED  BY <2>1, <2>2, <3>1, GoesOnLater DEF Bytes
  <2> QED  BY <2>4, <2>5
<1>4. CASE HandleWriteSome
  <2>1. /\ version' = version /\ cells' = cells /\ reads' = reads /\ asked' = asked
        /\ length' = length
    BY <1>4 DEF HandleWriteSome
  <2>2. PICK k \in completed :
           IF Unsent(k) > 0
              THEN StartOp(k, Unsent(k), completed \ {k})
              ELSE stream' = stream
    BY <1>4 DEF HandleWriteSome, network
  <2>3. k \in 1..reads
    BY <1>1, Zenon DEF SendingTypeOK
  <2>4. k \in Answers /\ Left(k) \in Nat /\ written[k] + Left(k) <= InPlace
    BY <1>1, <2>3, LeftBounds
  <2>5. CASE Unsent(k) > 0
    <3>1. StartOp(k, Left(k), completed \ {k})
      BY <2>2, <2>5 DEF Unsent
    <3> QED  BY <1>1, <2>1, <2>3, <2>4, <3>1, StartSends, GoesOnLater
  <2>6. CASE ~(Unsent(k) > 0)
    <3>1. stream' = stream
      BY <2>2, <2>6
    <3> QED  BY <2>1, <2>3, <3>1, GoesOnLater DEF Bytes
  <2> QED  BY <2>5, <2>6
<1>5. CASE SendData
  <2>1. /\ version' = version /\ cells' = cells /\ reads' = reads /\ asked' = asked
        /\ length' = length /\ StartOp(reads, Left(reads), completed) /\ reads > 0
    BY <1>5 DEF SendData, SendingInv
  <2>2. PICK k \in 1..reads : k = reads
    <3>1. reads \in 0..MaxReads
      BY <1>1, Zenon DEF SendingTypeOK
    <3> QED  BY <2>1, <3>1
  <2>3. k \in Answers /\ Left(k) \in Nat /\ written[k] + Left(k) <= InPlace
    BY <1>1, LeftBounds
  <2> QED  BY <1>1, <2>1, <2>2, <2>3, StartSends, GoesOnLater
<1> QED  BY <1>2, <1>3, <1>4, <1>5, UpdateLater, HandleReadLater DEF SendingNext

-----------------------------------------------------------------------------
(***************************************************************************)
(* The theorems.                                                           *)
(***************************************************************************)
(* The invariant holds, whatever the peer does or does not read.           *)
THEOREM SendingInvariance == SendingSpec => []SendingInv
<1>1. SendingInit => SendingInv
  BY InitInv
<1>2. SendingInv /\ [SendingNext]_sendingVars => SendingInv'
  <2> SUFFICES ASSUME SendingInv, [SendingNext]_sendingVars PROVE SendingInv'
    OBVIOUS
  <2>1. CASE UpdateSendingData
    BY <2>1, UpdateStep
  <2>2. CASE PeerReads
    BY <2>2, PeerReadsStep
  <2>3. CASE Writable
    BY <2>3, WritableStep
  <2>4. CASE Perform
    BY <2>4, PerformStep
  <2>5. CASE HandleRead
    BY <2>5, HandleReadStep
  <2>6. CASE HandleWriteSome
    BY <2>6, HandleWriteSomeStep
  <2>7. CASE SendData
    BY <2>7, SendDataStep
  <2>8. CASE UNCHANGED sendingVars
    <3>1. /\ version' = version /\ cells' = cells
          /\ reads' = reads /\ asked' = asked /\ length' = length /\ written' = written
          /\ starting' = starting
          /\ op_queue_' = op_queue_ /\ try_speculative_' = try_speculative_
          /\ performing' = performing /\ completed' = completed
          /\ pipe' = pipe /\ stream' = stream /\ filled' = filled
      BY <2>8 DEF sendingVars, writes, reactor, network
    <3> QED  BY <3>1
             DEF SendingInv, SendingTypeOK, InOrder, InTurn, Unfilled, LatestInCells,
                 NotAskedYet, Bytes, Answers
  <2> QED  BY <2>1, <2>2, <2>3, <2>4, <2>5, <2>6, <2>7, <2>8 DEF SendingNext
<1> QED  BY <1>1, <1>2, PTL DEF SendingSpec

(* Everything async_write keeps has its type; no piece is taken from       *)
(* behind the end of the text as it was when the write began.              *)
THEOREM SendingTypeCorrect == SendingSpec => []SendingTypeOK
<1>1. SendingInv => SendingTypeOK
  BY DEF SendingInv
<1> QED  BY <1>1, SendingInvariance, PTL

(* However answers are cut and interleaved on the socket, each one's       *)
(* places come in order, none missing and none twice; before the buffer    *)
(* first fills up, one answer follows the other.                           *)
THEOREM AnswersArriveInOrder == SendingSpec => []PlacesInOrder
<1>1. SendingInv => PlacesInOrder
  BY DEF SendingInv, InOrder, InTurn, PlacesInOrder
<1> QED  BY <1>1, SendingInvariance, PTL

(* However late a piece is taken, and whatever was assigned meanwhile, the *)
(* peer never sees an output that was already replaced when its read was   *)
(* handled.                                                                *)
THEOREM AnswersAreNotStale == SendingSpec => []NeverOlderThanAsked
<1>1. SendingInit => LaterInv
  <2> SUFFICES ASSUME SendingInit PROVE LaterInv
    OBVIOUS
  <2>1. Bytes = {} /\ 1..reads = {}
    BY EmptySeq DEF SendingInit, Bytes
  <2> QED  BY <2>1 DEF LaterInv, AskedKept, CellsOfLater, BytesOfLater
<1>2. SendingInv /\ LaterInv /\ [SendingNext]_sendingVars => LaterInv'
  BY LaterStep
<1>3. LaterInv => NeverOlderThanAsked
  BY DEF LaterInv, BytesOfLater, OfLater, NeverOlderThanAsked
<1> QED  BY <1>1, <1>2, <1>3, SendingInvariance, PTL DEF SendingSpec
=============================================================================
