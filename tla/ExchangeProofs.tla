--------------------------- MODULE ExchangeProofs ---------------------------
(***************************************************************************)
(* Proofs about Exchange, for any number of samples of any length that     *)
(* fits in data_ and for every size of data_.                              *)
(***************************************************************************)
EXTENDS Exchange, SequenceLemmas, SequenceTheorems, TLAPS

-----------------------------------------------------------------------------
(***************************************************************************)
(* The inductive invariant: besides the types, where the one sample or     *)
(* answer is, what of data_ is text, and that its last cell never is.      *)
(***************************************************************************)
Lockstep ==
    \/ /\ client = "idle"
       /\ wire = << >> /\ replies = << >> /\ reading = "armed"
    \/ /\ client = "waiting" /\ sent \in Samples
       /\ \/ wire = Message(sent) /\ replies = << >> /\ reading = "armed"
          \/ /\ wire = << >> /\ replies = << >> /\ reading = "ok"
             /\ bytes_transferred = Width[sent] /\ chunk = Message(sent)
          \/ wire = << >> /\ Len(replies) = 1 /\ reading = "armed"

TextInPlace ==
    /\ Len(chunk) < Size
    /\ \A p \in 1..Len(chunk) : data_[p - 1] = chunk[p]
    /\ reading = "armed" => data_[Len(chunk)] = Nul
    /\ reading = "ok" => bytes_transferred = Len(chunk)

LastCellNul == data_[Size - 1] = Nul /\ seen[Size - 1] \subseteq {Nul}

ExchangeInv == ExchangeTypeOK /\ Lockstep /\ TextInPlace /\ LastCellNul

-----------------------------------------------------------------------------
(***************************************************************************)
(* Texts.                                                                  *)
(***************************************************************************)
LEMMA Sizes ==
    /\ Size \in Nat /\ Size > 0
    /\ Len(Width) \in Nat /\ Samples = 1..Len(Width)
    /\ \A k \in Samples : Width[k] \in Nat /\ Width[k] > 0 /\ Width[k] < Size
    /\ 0 \in Cells /\ Size - 1 \in Cells
<1>1. Size \in Nat /\ Size > 0 /\ \A k \in Samples : Width[k] < Size
  BY SizeAssumption DEF Samples
<1>2. Len(Width) \in Nat /\ Samples = 1..Len(Width)
  BY WidthAssumption, LenProperties DEF Samples
<1>3. \A k \in Samples : Width[k] \in Nat \ {0}
  BY <1>2, WidthAssumption, ElementOfSeq
<1> QED  BY <1>1, <1>2, <1>3 DEF Cells

(* The text of a sample is a sequence of its own characters, none of which *)
(* is the terminator.                                                      *)
LEMMA MessageText ==
    ASSUME NEW k \in Samples
    PROVE  /\ Message(k) \in Seq(Chars)
           /\ Len(Message(k)) = Width[k]
           /\ Message(k) # << >>
<1>1. Width[k] \in Nat /\ Width[k] > 0
  BY Sizes
<1>2. DOMAIN Message(k) = 1..Width[k]
  BY DEF Message
<1>3. \A p \in 1..Width[k] : Message(k)[p] \in Chars
  <2>1. \A p \in 1..Width[k] : Message(k)[p] \in ToSet(Message(k))
    BY <1>2 DEF ToSet
  <2> QED  BY <2>1 DEF Chars
<1>4. Message(k) \in [1..Width[k] -> Chars]
  BY <1>2, <1>3 DEF Message
<1>5. Message(k) \in Seq(Chars)
  BY <1>1, <1>4, SeqDef
<1>6. Len(Message(k)) = Width[k]
  BY <1>1, <1>2, <1>5, LenProperties
<1> QED  BY <1>1, <1>5, <1>6, EmptySeq

LEMMA CharsNotNul ==
    ASSUME NEW x \in Chars
    PROVE  x # Nul /\ x[1] \in Samples
<1>1. PICK k \in Samples : x \in ToSet(Message(k))
  BY DEF Chars
<1>2. PICK p \in 1..Width[k] : x = <<k, p>>
  BY <1>1 DEF ToSet, Message
<1>3. k # 0
  BY Sizes
<1> QED  BY <1>2, <1>3 DEF Nul

(* The place of a terminator that nothing but characters precedes is the   *)
(* end of the text.                                                        *)
LEMMA TextEndsAt ==
    ASSUME NEW cells, NEW n \in Cells, cells[n] = Nul, \A j \in 0..(n - 1) : cells[j] # Nul
    PROVE  TextOf(cells) = [p \in 1..n |-> cells[p - 1]]
<1> DEFINE End(m) == cells[m] = Nul /\ \A j \in 0..(m - 1) : cells[j] # Nul
<1>1. ASSUME NEW m \in Cells, End(m) PROVE m = n
  <2>1. m \in Int /\ n \in Int /\ 0 <= m /\ 0 <= n
    BY Sizes DEF Cells
  <2>2. ~(m < n) /\ ~(n < m)
    BY <1>1, <2>1
  <2> QED  BY <2>1, <2>2
<1>2. (CHOOSE m \in Cells : End(m)) = n
  BY <1>1
<1> QED  BY <1>2 DEF TextOf

(* Cells whose last is the terminator hold a text. *)
LEMMA TextExists ==
    ASSUME NEW cells \in [Cells -> Chars \cup {Nul}], cells[Size - 1] = Nul
    PROVE  TextOf(cells) \in Seq(Chars)
<1> DEFINE T == {m \in Cells : cells[m] = Nul}
<1>1. T \subseteq Nat /\ T # {}
  BY Sizes DEF Cells
<1>2. PICK n \in T : \A k \in T : n <= k
  BY <1>1, LeastNumber
<1>3. /\ n \in Cells /\ n \in Nat /\ n < Size /\ cells[n] = Nul
      /\ \A j \in 0..(n - 1) : j \in Cells /\ cells[j] # Nul
  BY <1>1, <1>2, Sizes DEF Cells
<1>4. TextOf(cells) = [p \in 1..n |-> cells[p - 1]]
  BY <1>3, TextEndsAt
<1>5. \A p \in 1..n : cells[p - 1] \in Chars
  <2>1. ASSUME NEW p \in 1..n PROVE cells[p - 1] \in Chars
    <3>1. p - 1 \in 0..(n - 1)
      BY <1>3
    <3> QED  BY <3>1, <1>3
  <2> QED  BY <2>1
<1>6. TextOf(cells) \in [1..n -> Chars]
  BY <1>4, <1>5
<1> QED  BY <1>3, <1>6, SeqDef

(* So does what a frame copies, though each cell may be of another read.   *)
LEMMA CopiesAreTexts ==
    ASSUME ExchangeTypeOK, LastCellNul, NEW text \in CopiedTexts, text # << >>
    PROVE  text \in Seq(Chars) /\ text[1][1] \in Samples
<1>1. PICK c \in [Cells -> UNION {seen[j] : j \in Cells}] :
        /\ text = TextOf(c)
        /\ \A j \in Cells : c[j] \in seen[j]
  BY DEF CopiedTexts
<1>2. c \in [Cells -> Chars \cup {Nul}]
  <2>1. \A j \in Cells : seen[j] \subseteq Chars \cup {Nul}
    BY DEF ExchangeTypeOK
  <2> QED  BY <1>1, <2>1
<1>3. c[Size - 1] = Nul
  BY <1>1, Sizes DEF LastCellNul
<1>4. text \in Seq(Chars)
  BY <1>1, <1>2, <1>3, TextExists
<1>5. Len(text) \in Nat \ {0}
  BY <1>4, EmptySeq
<1>6. text[1] \in Chars
  BY <1>4, <1>5, ElementOfSeq
<1> QED  BY <1>4, <1>6, CharsNotNul

-----------------------------------------------------------------------------
(***************************************************************************)
(* The steps.                                                              *)
(***************************************************************************)
LEMMA ExchangeInitInv == ExchangeInit => ExchangeInv
<1> SUFFICES ASSUME ExchangeInit PROVE ExchangeInv
  OBVIOUS
<1>1. << >> \in Seq(Chars) /\ << >> \in Seq(Numbers \cup {Torn}) /\ Len(<< >>) = 0
  BY EmptySeq
<1>2. ExchangeTypeOK
  <2>1. sent \in 0..Len(Width) /\ bytes_transferred \in 0..Size
    BY Sizes DEF ExchangeInit
  <2>2. /\ data_ \in [Cells -> Chars \cup {Nul}]
        /\ seen \in [Cells -> SUBSET (Chars \cup {Nul})]
    BY DEF ExchangeInit
  <2> QED  BY <1>1, <2>1, <2>2 DEF ExchangeInit, ExchangeTypeOK, Numbers
<1>3. Lockstep
  BY DEF ExchangeInit, Lockstep
<1>4. TextInPlace /\ LastCellNul
  BY <1>1, Sizes DEF ExchangeInit, TextInPlace, LastCellNul
<1> QED  BY <1>2, <1>3, <1>4 DEF ExchangeInv

(* What a copy under way may find are characters of the text, and in the   *)
(* last cell the terminator.                                               *)
LEMMA ObserveKeeps ==
    ASSUME ExchangeTypeOK, LastCellNul, Observe,
           data_' \in [Cells -> Chars \cup {Nul}], data_'[Size - 1] = Nul
    PROVE  /\ seen' \in [Cells -> SUBSET (Chars \cup {Nul})]
           /\ LastCellNul'
<1>1. seen \in [Cells -> SUBSET (Chars \cup {Nul})] /\ Size - 1 \in Cells
  BY Sizes DEF ExchangeTypeOK
<1>2. CASE frame = "copying"
  <2>1. seen' = [j \in Cells |-> seen[j] \cup {data_'[j]}]
    BY <1>2 DEF Observe
  <2>2. ASSUME NEW j \in Cells PROVE seen[j] \cup {data_'[j]} \in SUBSET (Chars \cup {Nul})
    BY <1>1
  <2>3. seen'[Size - 1] \subseteq {Nul}
    BY <1>1, <2>1 DEF LastCellNul
  <2> QED  BY <2>1, <2>2, <2>3 DEF LastCellNul
<1>3. CASE frame # "copying"
  BY <1>1, <1>3 DEF Observe, LastCellNul
<1> QED  BY <1>2, <1>3

LEMMA SendKeepsInv ==
    ASSUME ExchangeInv, ClientSends
    PROVE  ExchangeInv'
<1>1. /\ client = "idle" /\ client' = "waiting"
      /\ sent < Len(Width) /\ sent' = sent + 1
      /\ wire' = wire \o Message(sent + 1)
      /\ UNCHANGED <<answer, replies, readVars, latest_data_to_send_, frameVars>>
  BY DEF ClientSends
<1>2. wire = << >> /\ replies = << >> /\ reading = "armed"
  BY <1>1 DEF ExchangeInv, Lockstep
<1>3. sent' \in Samples /\ sent' \in 0..Len(Width)
  BY <1>1, Sizes DEF ExchangeInv, ExchangeTypeOK
<1>4. Message(sent') \in Seq(Chars) /\ wire' = Message(sent')
  BY <1>1, <1>2, <1>3, MessageText, ConcatEmptySeq
<1>5. ExchangeTypeOK'
  BY <1>1, <1>3, <1>4 DEF ExchangeInv, ExchangeTypeOK, readVars, frameVars
<1>6. Lockstep'
  BY <1>1, <1>2, <1>3, <1>4 DEF Lockstep, readVars
<1> QED
  BY <1>1, <1>5, <1>6 DEF ExchangeInv, TextInPlace, LastCellNul, readVars, frameVars

LEMMA AnswerKeepsInv ==
    ASSUME ExchangeInv, ClientReceives
    PROVE  ExchangeInv'
<1>1. /\ client = "waiting" /\ replies # << >> /\ replies' = << >>
      /\ UNCHANGED <<sent, wire, readVars, latest_data_to_send_, frameVars>>
  BY DEF ClientReceives
<1>2. wire = << >> /\ Len(replies) = 1 /\ reading = "armed"
  BY <1>1 DEF ExchangeInv, Lockstep
<1>3. client' = "idle" /\ answer' = Head(replies)
  BY <1>2 DEF ClientReceives
<1>4. Head(replies) \in Numbers \cup {Torn}
  BY <1>1, HeadTailProperties DEF ExchangeInv, ExchangeTypeOK
<1>5. << >> \in Seq(Numbers \cup {Torn})
  BY EmptySeq
<1>6. ExchangeTypeOK'
  BY <1>1, <1>3, <1>4, <1>5 DEF ExchangeInv, ExchangeTypeOK, readVars, frameVars
<1>7. Lockstep'
  BY <1>1, <1>2, <1>3 DEF Lockstep, readVars
<1> QED
  BY <1>1, <1>6, <1>7 DEF ExchangeInv, TextInPlace, LastCellNul, readVars, frameVars

(* All of the sample is read at once, and leaves the last cell alone. *)
LEMMA ReceiveKeepsInv ==
    ASSUME ExchangeInv, Receive
    PROVE  ExchangeInv'
<1> DEFINE n == IF Len(wire) < Size THEN Len(wire) ELSE Size
<1>1. /\ reading = "armed" /\ wire # << >> /\ reading' = "ok"
      /\ data_' = [j \in Cells |-> IF j < n THEN wire[j + 1] ELSE data_[j]]
      /\ chunk' = SubSeq(wire, 1, n)
      /\ wire' = SubSeq(wire, n + 1, Len(wire))
      /\ bytes_transferred' = n
      /\ Observe
      /\ UNCHANGED <<clientVars, replies, latest_data_to_send_,
                     frame, shown, visible, pid_enable, pid, output>>
  BY DEF Receive
<1>2. /\ client = "waiting" /\ sent \in Samples
      /\ wire = Message(sent) /\ replies = << >>
  BY <1>1 DEF ExchangeInv, Lockstep
<1>3. /\ wire \in Seq(Chars) /\ Len(wire) = Width[sent]
      /\ Len(wire) \in Nat /\ Len(wire) > 0 /\ Len(wire) < Size
      /\ n = Len(wire)
  BY <1>2, MessageText, Sizes
<1> HIDE DEF n
<1>4. chunk' = wire /\ wire' = << >>
  <2>1. SubSeq(wire, 1, Len(wire)) = wire
    BY <1>3, SubSeqFull
  <2>2. SubSeq(wire, n + 1, Len(wire)) = << >>
    BY <1>3, SubSeqEmpty
  <2> QED  BY <1>1, <1>3, <2>1, <2>2
<1>5. \A p \in 1..Len(wire) : p - 1 \in Cells /\ p - 1 < n /\ (p - 1) + 1 = p
  BY <1>3, Sizes DEF Cells
<1>6. \A p \in 1..Len(wire) : data_'[p - 1] = wire[p]
  BY <1>1, <1>5
<1>7. data_'[Size - 1] = data_[Size - 1]
  BY <1>1, <1>3, Sizes
<1>8. data_' \in [Cells -> Chars \cup {Nul}]
  <2>1. ASSUME NEW j \in Cells, j < n PROVE wire[j + 1] \in Chars
    <3>1. j + 1 \in 1..Len(wire)
      BY <1>3, <2>1, Sizes DEF Cells
    <3> QED  BY <1>3, <3>1, ElementOfSeq
  <2>2. data_ \in [Cells -> Chars \cup {Nul}]
    BY DEF ExchangeInv, ExchangeTypeOK
  <2> QED  BY <1>1, <2>1, <2>2
<1>9. bytes_transferred' \in 0..Size /\ << >> \in Seq(Chars)
  BY <1>1, <1>3, EmptySeq, Sizes
<1>10. data_'[Size - 1] = Nul
  BY <1>7 DEF ExchangeInv, LastCellNul
<1>11. seen' \in [Cells -> SUBSET (Chars \cup {Nul})] /\ LastCellNul'
  BY <1>1, <1>8, <1>10, ObserveKeeps DEF ExchangeInv
<1>12. ExchangeTypeOK'
  BY <1>1, <1>3, <1>4, <1>8, <1>9, <1>11
  DEF ExchangeInv, ExchangeTypeOK, clientVars
<1>13. Lockstep'
  BY <1>1, <1>2, <1>3, <1>4 DEF Lockstep, clientVars
<1>14. TextInPlace'
  BY <1>1, <1>3, <1>4, <1>6 DEF TextInPlace
<1> QED  BY <1>12, <1>13, <1>14, <1>11 DEF ExchangeInv

(* The terminator goes behind the text, and one answer out. *)
LEMMA HandleReadKeepsInv ==
    ASSUME ExchangeInv, HandleRead
    PROVE  ExchangeInv'
<1> DEFINE n == bytes_transferred
<1>1. /\ reading = "ok" /\ reading' = "armed"
      /\ data_' = [data_ EXCEPT ![n] = Nul]
      /\ Observe
      /\ UNCHANGED <<clientVars, wire, bytes_transferred, chunk, latest_data_to_send_,
                     frame, shown, visible, pid_enable, pid, output>>
  BY DEF HandleRead, Terminated
<1>2. PICK r \in LatestNow : replies' = Append(replies, r)
  BY DEF HandleRead
<1>3. /\ client = "waiting" /\ sent \in Samples
      /\ wire = << >> /\ replies = << >>
      /\ n = Width[sent] /\ chunk = Message(sent)
  BY <1>1 DEF ExchangeInv, Lockstep
<1>4. n \in Nat /\ n < Size /\ n \in Cells /\ Len(chunk) = n
  BY <1>3, MessageText, Sizes DEF Cells
<1>5. r \in Numbers \cup {Torn}
  BY DEF LatestNow, ExchangeInv, ExchangeTypeOK
<1>6. replies' \in Seq(Numbers \cup {Torn}) /\ Len(replies') = 1
  BY <1>2, <1>3, <1>5, AppendProperties, EmptySeq
<1>7. data_ \in [Cells -> Chars \cup {Nul}]
  BY DEF ExchangeInv, ExchangeTypeOK
<1> HIDE DEF n
<1>8. data_' \in [Cells -> Chars \cup {Nul}]
  BY <1>1, <1>7
<1>9. data_'[n] = Nul /\ data_'[Size - 1] = Nul
  BY <1>1, <1>4, <1>7, Sizes DEF ExchangeInv, LastCellNul
<1>10. \A p \in 1..Len(chunk) : data_'[p - 1] = chunk[p]
  <2>1. ASSUME NEW p \in 1..Len(chunk) PROVE p - 1 # n /\ p - 1 \in Cells
    BY <1>4, Sizes DEF Cells
  <2> QED  BY <1>1, <1>7, <2>1 DEF ExchangeInv, TextInPlace
<1>11. seen' \in [Cells -> SUBSET (Chars \cup {Nul})] /\ LastCellNul'
  BY <1>1, <1>8, <1>9, ObserveKeeps DEF ExchangeInv
<1>12. ExchangeTypeOK'
  BY <1>1, <1>6, <1>8, <1>11 DEF ExchangeInv, ExchangeTypeOK, clientVars
<1>13. Lockstep'
  BY <1>1, <1>3, <1>6 DEF Lockstep, clientVars
<1>14. TextInPlace'
  BY <1>1, <1>4, <1>9, <1>10 DEF TextInPlace
<1> QED  BY <1>12, <1>13, <1>14, <1>11 DEF ExchangeInv

(* The main thread leaves the server's and the client's state alone. *)
LEMMA FrameKeepsInv ==
    ASSUME ExchangeInv,
           \/ BeginCopy \/ NothingReceived \/ UpdateSendingData \/ UserFoldsWindow
           \/ \E clicked \in BOOLEAN : RenderText(clicked)
    PROVE  ExchangeInv'
<1>1. UNCHANGED <<clientVars, wire, replies, readVars>>
  BY DEF BeginCopy, NothingReceived, UpdateSendingData, UserFoldsWindow, RenderText
<1>2. Lockstep' /\ TextInPlace'
  BY <1>1 DEF ExchangeInv, Lockstep, TextInPlace, clientVars, readVars
<1>3. LastCellNul' /\ seen' \in [Cells -> SUBSET (Chars \cup {Nul})]
  <2>1. \/ seen' = seen
        \/ seen' = [j \in Cells |-> {}]
        \/ seen' = [j \in Cells |-> {data_[j]}]
    BY DEF BeginCopy, NothingReceived, UpdateSendingData, UserFoldsWindow, RenderText
  <2>2. data_' = data_ /\ Size - 1 \in Cells
    BY <1>1, Sizes DEF readVars
  <2>3. /\ data_ \in [Cells -> Chars \cup {Nul}]
        /\ seen \in [Cells -> SUBSET (Chars \cup {Nul})]
    BY DEF ExchangeInv, ExchangeTypeOK
  <2>4. data_[Size - 1] = Nul /\ seen[Size - 1] \subseteq {Nul}
    BY DEF ExchangeInv, LastCellNul
  <2>5. CASE seen' = seen
    BY <2>2, <2>3, <2>4, <2>5 DEF LastCellNul
  <2>6. CASE seen' = [j \in Cells |-> {}]
    BY <2>2, <2>4, <2>6 DEF LastCellNul
  <2>7. CASE seen' = [j \in Cells |-> {data_[j]}]
    BY <2>2, <2>3, <2>4, <2>7 DEF LastCellNul
  <2> QED  BY <2>1, <2>5, <2>6, <2>7
<1>4. ExchangeTypeOK'
  <2>1. CASE BeginCopy
    BY <1>1, <1>3, <2>1 DEF BeginCopy, ExchangeInv, ExchangeTypeOK, clientVars, readVars
  <2>2. CASE NothingReceived
    BY <1>1, <1>3, <2>2 DEF NothingReceived, ExchangeInv, ExchangeTypeOK, clientVars, readVars
  <2>3. CASE UpdateSendingData
    BY <1>1, <2>3 DEF UpdateSendingData, ExchangeInv, ExchangeTypeOK, clientVars, readVars
  <2>4. CASE UserFoldsWindow
    BY <1>1, <2>4 DEF UserFoldsWindow, ExchangeInv, ExchangeTypeOK, clientVars, readVars
  <2>5. ASSUME NEW clicked \in BOOLEAN, RenderText(clicked) PROVE ExchangeTypeOK'
    <3>1. PICK text \in CopiedTexts \ {<< >>} :
            /\ shown' = text
            /\ pid_enable' = (pid_enable # clicked)
            /\ pid' = IF pid_enable' /\ visible THEN text[1][1] ELSE pid
            /\ output' = IF pid_enable' THEN pid ELSE Zero
      BY <2>5 DEF RenderText
    <3>2. shown' \in Seq(Chars) /\ text[1][1] \in Samples
      BY <3>1, CopiesAreTexts DEF ExchangeInv
    <3>3. pid \in Samples \cup {Gains}
      BY DEF ExchangeInv, ExchangeTypeOK
    <3>4. pid' \in Samples \cup {Gains} /\ output' \in Numbers
      BY <3>1, <3>2, <3>3 DEF Numbers
    <3>5. pid_enable' \in BOOLEAN
      BY <3>1 DEF ExchangeInv, ExchangeTypeOK
    <3>6. /\ frame' = "assigning"
          /\ UNCHANGED <<latest_data_to_send_, visible>>
      BY <2>5 DEF RenderText
    <3> QED
      BY <1>1, <1>3, <3>2, <3>4, <3>5, <3>6 DEF ExchangeInv, ExchangeTypeOK, clientVars, readVars
  <2> QED  BY <2>1, <2>2, <2>3, <2>4, <2>5
<1> QED  BY <1>2, <1>3, <1>4 DEF ExchangeInv

LEMMA ExchangeInvStep == ExchangeInv /\ [ExchangeNext]_exchangeVars => ExchangeInv'
<1> SUFFICES ASSUME ExchangeInv, [ExchangeNext]_exchangeVars PROVE ExchangeInv'
  OBVIOUS
<1>1. CASE UNCHANGED exchangeVars
  BY <1>1
  DEF exchangeVars, clientVars, readVars, frameVars,
      ExchangeInv, ExchangeTypeOK, Lockstep, TextInPlace, LastCellNul
<1> QED
  BY <1>1, SendKeepsInv, AnswerKeepsInv, ReceiveKeepsInv, HandleReadKeepsInv, FrameKeepsInv
  DEF ExchangeNext, MainLoop, UserClicks

-----------------------------------------------------------------------------
(* The invariant holds of every behaviour. *)
THEOREM ExchangeInvariance == ExchangeSpec => []ExchangeInv
<1> QED  BY ExchangeInitInv, ExchangeInvStep, PTL DEF ExchangeSpec

(* Every copy of data_ that a frame can end with is a text, however it was *)
(* mixed: the last cell always ends it.  So every number plotted and every *)
(* answer is of the right kind.                                            *)
THEOREM ExchangeTypeCorrect == ExchangeSpec => []ExchangeTypeOK
<1>1. ExchangeInv => ExchangeTypeOK
  BY DEF ExchangeInv
<1> QED  BY <1>1, ExchangeInvariance, PTL

(* Between two reads data_ holds the text of the last one and no more.     *)
THEOREM TextSettles == ExchangeSpec => []SettledText
<1>1. ASSUME ExchangeInv PROVE SettledText
  <2> SUFFICES ASSUME reading = "armed" PROVE TextOf(data_) = chunk
    BY DEF SettledText
  <2> DEFINE n == Len(chunk)
  <2>1. /\ chunk \in Seq(Chars) /\ n \in Nat /\ DOMAIN chunk = 1..n /\ n < Size
        /\ \A p \in 1..n : data_[p - 1] = chunk[p]
        /\ data_[n] = Nul
    BY <1>1, LenProperties DEF ExchangeInv, ExchangeTypeOK, TextInPlace
  <2>2. \A p \in 1..n : chunk[p] # Nul
    BY <2>1, ElementOfSeq, CharsNotNul
  <2> HIDE DEF n
  <2>3. \A j \in 0..(n - 1) : data_[j] # Nul
    <3>1. ASSUME NEW j \in 0..(n - 1) PROVE j + 1 \in 1..n /\ (j + 1) - 1 = j
      BY <2>1
    <3> QED  BY <2>1, <2>2, <3>1
  <2>4. n \in Cells
    BY <2>1, Sizes DEF Cells
  <2>5. TextOf(data_) = [p \in 1..n |-> data_[p - 1]]
    BY <2>1, <2>3, <2>4, TextEndsAt
  <2>6. chunk = [p \in 1..n |-> chunk[p]]
    BY <2>1, LenProperties DEF n
  <2> QED  BY <2>1, <2>5, <2>6
<1> QED  BY <1>1, ExchangeInvariance, PTL

(* A client that waits for each answer gets one for each sample, and never *)
(* two at a time.                                                          *)
THEOREM OneAnswerEach == ExchangeSpec => []OneAnswerPerSample
<1>1. ASSUME ExchangeInv PROVE OneAnswerPerSample
  <2>1. Len(<< >>) = 0
    BY EmptySeq
  <2> QED  BY <1>1, <2>1 DEF ExchangeInv, Lockstep, OneAnswerPerSample
<1> QED  BY <1>1, ExchangeInvariance, PTL
=============================================================================
