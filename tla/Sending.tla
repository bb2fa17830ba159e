------------------------------ MODULE Sending ------------------------------
(***************************************************************************)
(* The answers on one connection when the client does not take them at     *)
(* once (ServerModule.cpp send_data, update_sending_data).  async_write is *)
(* given the memory of latest_data_to_send_ and the length it has then; it *)
(* reads that memory whenever the socket takes bytes, and several writes   *)
(* may be under way, each in pieces (boost/asio write.hpp,                 *)
(* epoll_reactor.ipp).                                                     *)
(*                                                                         *)
(* Output v of the plot window is a text of Width[v] characters, <<v, i>>; *)
(* output 1 is the "0" of before the first frame.  All fit in the string's *)
(* own 15 characters, so an assignment never moves them.  (The race within *)
(* one assignment is in Exchange; the greeting has memory of its own.)     *)
(***************************************************************************)
EXTENDS Integers, Sequences, FiniteSets, SequencesExt

CONSTANTS
    Width,      \* Width[v]: the length of the text of output v
    Capacity,   \* bytes that fit between the two programs
    MaxReads    \* bound: reads that complete

InPlace == 15   \* the capacity of a std::string without an allocation

ASSUME WidthAssumption == Width \in Seq(1..InPlace) /\ Width # << >>
ASSUME SendingAssumption == Capacity \in Nat \ {0} /\ MaxReads \in Nat

VARIABLES
    version,        \* the last output that was assigned
    cells,          \* the memory of latest_data_to_send_
    (* writes, numbered by the read they answer *)
    reads,          \* reads handled so far
    asked,          \* asked[k]: the output that was the latest at read k
    length,         \* length[k]: its length then, as buffer(data) keeps it
    written,        \* written[k]: how much of it the socket has taken
    starting,       \* has the last answer its length but no first send yet?
    (* the socket and the reactor *)
    op_queue_,      \* writes that wait for the socket
    try_speculative_,
    performing,     \* is the reactor performing what waits?
    completed,      \* writes of which a piece was taken, to be handled
    pipe,           \* bytes that the peer has not read
    stream,         \* all bytes so far: <<k, place in text k, character>>
    filled          \* has a write ever found too little room?

writes == <<reads, asked, length, written, starting>>
reactor == <<op_queue_, try_speculative_, performing, completed>>
network == <<pipe, stream, filled>>
sendingVars == <<version, cells, writes, reactor, network>>

Nul == <<0, 0>>
Answers == 1..MaxReads
Room == Capacity - pipe

CharAt(v, i) == IF i <= Width[v] THEN <<v, i>> ELSE Nul

(* A string of the width of output v, assigned over what is there, and the *)
(* terminator after it.                                                    *)
Assigned(old, v) ==
    [i \in DOMAIN old |-> IF i <= Width[v] + 1 THEN CharAt(v, i) ELSE old[i]]

SendingInit ==
    /\ version = 1
    /\ cells = Assigned([i \in 1..InPlace + 1 |-> Nul], 1)
    /\ reads = 0
    /\ asked = [k \in Answers |-> 0] /\ length = [k \in Answers |-> 0]
    /\ written = [k \in Answers |-> 0] /\ starting = FALSE
    /\ op_queue_ = << >> /\ try_speculative_ = TRUE
    /\ performing = FALSE /\ completed = {}
    /\ pipe = 0 /\ stream = << >> /\ filled = FALSE

-----------------------------------------------------------------------------
(* The main thread. *)
UpdateSendingData ==
    /\ version < Len(Width)
    /\ version' = version + 1
    /\ cells' = Assigned(cells, version + 1)
    /\ UNCHANGED <<writes, reactor, network>>

(* The peer takes some of what has arrived. *)
PeerReads ==
    /\ \E n \in 1..pipe : pipe' = pipe - n
    /\ UNCHANGED <<version, cells, writes, reactor, stream, filled>>

-----------------------------------------------------------------------------
(***************************************************************************)
(* The socket and the reactor.                                             *)
(***************************************************************************)
(* Mutant of Piece: from the beginning of the text each time.              *)
PieceFromStart(k, n) == [i \in 1..n |-> <<k, i, cells[i]>>]

(* The next n bytes of write k, as they are in memory now.                 *)
Piece(k, n) == [i \in 1..n |-> <<k, written[k] + i, cells[written[k] + i]>>]

Taken(left) == IF left < Room THEN left ELSE Room

(* The socket takes what it has room for of the rest of write k.  A write  *)
(* that it cuts short is the last one tried before it reports room again.  *)
Transmit(k, left, others) ==
    /\ stream' = stream \o Piece(k, Taken(left))
    /\ pipe' = pipe + Taken(left)
    /\ written' = [written EXCEPT ![k] = @ + Taken(left)]
    /\ completed' = others \cup {k}
    /\ try_speculative_' = (Taken(left) = left)
    /\ filled' = (filled \/ Taken(left) < left)

(* start_op: a write is tried at once unless others wait, or the last one  *)
(* was cut; otherwise, or if there is no room at all, it waits.            *)
StartOp(k, left, others) ==
    IF op_queue_ = << >> /\ try_speculative_ /\ Room > 0
       THEN Transmit(k, left, others) /\ UNCHANGED op_queue_
       ELSE /\ op_queue_' = Append(op_queue_, k)
            /\ completed' = others
            /\ filled' = TRUE
            /\ UNCHANGED <<written, stream, pipe, try_speculative_>>

(* perform_io: epoll reports room, and the writes that wait are performed, *)
(* one after the other, until one is cut or finds no room.                 *)
Writable ==
    /\ ~performing /\ ~starting
    /\ Room > 0
    /\ op_queue_ # << >> \/ ~try_speculative_
    /\ try_speculative_' = TRUE
    /\ performing' = (op_queue_ # << >>)
    /\ UNCHANGED <<version, cells, writes, op_queue_, completed, network>>

Left(k) == length[k] - written[k]

Perform ==
    /\ performing
    /\ LET k == Head(op_queue_)
       IN  IF Room > 0
              THEN /\ Transmit(k, Left(k), completed)
                   /\ op_queue_' = Tail(op_queue_)
                   /\ performing' = (Left(k) <= Room /\ Len(op_queue_) > 1)
              ELSE /\ performing' = FALSE
                   /\ UNCHANGED <<written, op_queue_, try_speculative_, completed, network>>
    /\ UNCHANGED <<version, cells, reads, asked, length, starting>>

-----------------------------------------------------------------------------
(***************************************************************************)
(* The handlers of the server thread.                                      *)
(***************************************************************************)
(* Mutant of LengthToSend: the capacity of the string for its size.        *)
LengthOfMemory == InPlace

LengthToSend == Width[version]

(* handle_read without an error calls send_data: buffer(data) notes where  *)
(* the text is and how long it is now.                                     *)
HandleRead ==
    /\ ~performing /\ ~starting
    /\ reads < MaxReads
    /\ reads' = reads + 1
    /\ asked' = [asked EXCEPT ![reads'] = version]
    /\ length' = [length EXCEPT ![reads'] = LengthToSend]
    /\ starting' = TRUE
    /\ UNCHANGED <<version, cells, written, reactor, network>>

(* async_write, in the same handler, starts to send.  The main thread may  *)
(* have assigned another text meanwhile.                                   *)
SendData ==
    /\ starting
    /\ StartOp(reads, Left(reads), completed)
    /\ starting' = FALSE
    /\ UNCHANGED <<version, cells, reads, asked, length, performing>>

(* Mutants of Unsent: what is left of the text as it is now; nothing, as   *)
(* with async_write_some instead of async_write.                           *)
UnsentNow(k) == Width[version] - written[k]
NeverUnsent(k) == 0

Unsent(k) == Left(k)

(* async_write goes on with the rest, or calls handle_write, which does    *)
(* nothing.  Which of the completed writes is next is left to the          *)
(* scheduler.                                                              *)
HandleWriteSome ==
    /\ ~performing /\ ~starting
    /\ \E k \in completed :
          IF Unsent(k) > 0
             THEN StartOp(k, Unsent(k), completed \ {k})
             ELSE /\ completed' = completed \ {k}
                  /\ UNCHANGED <<written, op_queue_, try_speculative_, network>>
    /\ UNCHANGED <<version, cells, reads, asked, length, starting, performing>>

SendingNext ==
    \/ UpdateSendingData \/ PeerReads
    \/ Writable \/ Perform \/ HandleRead \/ SendData \/ HandleWriteSome

(* The server thread runs, and epoll tells it of room.  Nothing is asked   *)
(* of the peer.                                                            *)
SendingFairness ==
    /\ WF_sendingVars(SendData) /\ WF_sendingVars(HandleWriteSome)
    /\ WF_sendingVars(Writable) /\ WF_sendingVars(Perform)

SendingSpec == SendingInit /\ [][SendingNext]_sendingVars /\ SendingFairness

-----------------------------------------------------------------------------
(***************************************************************************)
(* Properties.                                                             *)
(***************************************************************************)
Chars == Nat \X Nat

SendingTypeOK ==
    /\ version \in DOMAIN Width
    /\ cells \in [1..InPlace + 1 -> Chars]
    /\ reads \in 0..MaxReads
    /\ asked \in [Answers -> 0..Len(Width)]
    /\ length \in [Answers -> 0..InPlace]
    /\ written \in [Answers -> 0..InPlace] /\ \A k \in Answers : written[k] <= length[k]
    /\ starting \in BOOLEAN
    /\ op_queue_ \in Seq(1..reads) /\ completed \subseteq 1..reads
    /\ try_speculative_ \in BOOLEAN /\ performing \in BOOLEAN /\ filled \in BOOLEAN
    /\ pipe \in 0..Capacity
    /\ stream \in Seq(Answers \X (1..InPlace) \X Chars)

Bytes == DOMAIN stream

(* What the peer gets of each answer is one place after the other, none    *)
(* missing and none twice, whatever it gets of other answers in between;   *)
(* and as long as it never let the buffer fill up, one answer follows the  *)
(* other, though nothing orders the writes that handle_read starts.        *)
PlacesInOrder ==
    /\ \A p \in Bytes : stream[p][2] <= written[stream[p][1]]
    /\ \A k \in Answers : \A i \in 1..written[k] :
          \E p \in Bytes : stream[p][1] = k /\ stream[p][2] = i
    /\ \A p, q \in Bytes :
          p < q /\ stream[p][1] = stream[q][1] => stream[p][2] < stream[q][2]
    /\ ~filled => \A p, q \in Bytes : p < q => stream[p][1] <= stream[q][1]

(* Each byte of an answer is the character at its place of the output that *)
(* was the latest when the read was handled, or of a later one, or its     *)
(* terminator: however late a piece is taken from the memory that is       *)
(* assigned meanwhile, no output from before the read is ever seen again.  *)
NeverOlderThanAsked ==
    \A p \in Bytes :
        \E v \in asked[stream[p][1]]..version :
            stream[p][2] <= Width[v] + 1 /\ stream[p][3] = CharAt(v, stream[p][2])

(* A peer that makes room again and again gets each answer to its end.     *)
WritesProgress ==
    []<>(Room > 0) => \A k \in Answers : k <= reads ~> k <= reads /\ Left(k) = 0
=============================================================================
