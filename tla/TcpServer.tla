------------------------------ MODULE TcpServer ------------------------------
(***************************************************************************)
(* tcp_server and tcp_connection (modules/ServerModule.h, .cpp): the       *)
(* handlers that one io_context thread runs, the sockets they act on and   *)
(* the peers at the other end.                                             *)
(*                                                                         *)
(* Handlers are atomic here: a single thread runs them one after the       *)
(* other.  Module Monitor adds the second thread, which reads the same     *)
(* objects without a lock.                                                 *)
(*                                                                         *)
(* A member of Conns is one tcp_connection object and the one TCP          *)
(* connection it ever carries; a peer that reconnects is another member.   *)
(***************************************************************************)
EXTENDS Integers, Sequences, FiniteSets, SequencesExt

CONSTANTS
    Conns,          \* the connection objects
    Senders,        \* bound: the connections on which peers send data
    MaxChunks,      \* bound: pieces of data a peer sends on one connection
    MaxResets,      \* bound: connections that are reset
    MaxOpen,        \* descriptors the process may use for accepted sockets
    ResetThrows     \* does remote_endpoint() fail once a socket was reset?
                    \* (TRUE on Linux; FALSE where the peer address is kept)

ASSUME ConnsAssumption == IsFiniteSet(Conns)
ASSUME BoundsAssumption == MaxChunks \in Nat /\ MaxResets \in Nat /\ MaxOpen \in Nat
ASSUME ResetThrowsAssumption == ResetThrows \in BOOLEAN

VARIABLES
    (* the network, as the kernel of the server's host sees it *)
    backlog,            \* established connections not accepted yet, in order
    stream,             \* stream[c]: "none" before the peer connects, then
                        \* "open", "eof" (FIN received) or "reset"
    sent,               \* sent[c]: pieces of data the peer has sent
    inbox,              \* inbox[c]: those of them not read yet
    (* asynchronous operations of the io_context *)
    accept,             \* "armed", "failed" (completed with an error), "idle"
    reading,            \* reading[c]: "none", "armed", "ok" or "error"
    writing,            \* writing[c]: async_write operations not yet handled
    (* the objects of the program *)
    close_callback_,    \* close_callback_[c]: is the callback set?
    received,           \* received[c]: does data_ hold anything yet?
    connections_,
    connection_count_,
    alive               \* FALSE once an exception has left io_context::run()

network == <<backlog, stream, sent, inbox>>
registry == <<close_callback_, connections_, connection_count_, alive>>
vars == <<network, accept, reading, writing, received, registry>>

Registered == ToSet(connections_)

(***************************************************************************)
(* get_ip() and get_port() call remote_endpoint() without an error code,   *)
(* which throws when getpeername() fails: on Linux, on a socket that was   *)
(* reset.  No caller catches the exception.                                *)
(***************************************************************************)
GetIpThrows(c) == stream[c] = "reset" /\ ResetThrows

(* Mutants of Without: std::remove without erase; the last entry erased. *)
RemovedNotErased(s, c) ==
    IF c \in ToSet(s)
       THEN Append(RemoveAt(s, CHOOSE k \in DOMAIN s : s[k] = c), "moved from")
       ELSE s
LastErased(s, c) == IF c \in ToSet(s) THEN Front(s) ELSE s

(* connections_.erase(std::remove(...)); connections_ has no duplicates.   *)
Without(s, c) ==
    IF c \in ToSet(s) THEN RemoveAt(s, CHOOSE k \in DOMAIN s : s[k] = c) ELSE s

TypeOK ==
    /\ backlog \in Seq(Conns)
    /\ stream \in [Conns -> {"none", "open", "eof", "reset"}]
    /\ sent \in [Conns -> 0..MaxChunks]
    /\ inbox \in [Conns -> 0..MaxChunks]
    /\ accept \in {"armed", "failed", "idle"}
    /\ reading \in [Conns -> {"none", "armed", "ok", "error"}]
    /\ writing \in [Conns -> Nat]
    /\ close_callback_ \in [Conns -> BOOLEAN]
    /\ received \in [Conns -> BOOLEAN]
    /\ connections_ \in Seq(Conns)
    /\ connection_count_ \in Int
    /\ alive \in BOOLEAN

(* The constructor binds the acceptor and calls start_accept().            *)
Init ==
    /\ backlog = << >>
    /\ stream = [c \in Conns |-> "none"]
    /\ sent = [c \in Conns |-> 0]
    /\ inbox = [c \in Conns |-> 0]
    /\ accept = "armed"
    /\ reading = [c \in Conns |-> "none"]
    /\ writing = [c \in Conns |-> 0]
    /\ close_callback_ = [c \in Conns |-> FALSE]
    /\ received = [c \in Conns |-> FALSE]
    /\ connections_ = << >>
    /\ connection_count_ = 0
    /\ alive = TRUE

-----------------------------------------------------------------------------
(***************************************************************************)
(* The peers and the network: they act whether the server does or not.     *)
(***************************************************************************)
PeerConnects(c) ==
    /\ stream[c] = "none"
    /\ stream' = [stream EXCEPT ![c] = "open"]
    /\ backlog' = Append(backlog, c)
    /\ UNCHANGED <<sent, inbox, accept, reading, writing, received, registry>>

PeerSends(c) ==
    /\ c \in Senders /\ stream[c] = "open"
    /\ sent[c] < MaxChunks
    /\ sent' = [sent EXCEPT ![c] = @ + 1]
    /\ inbox' = [inbox EXCEPT ![c] = @ + 1]
    /\ UNCHANGED <<backlog, stream, accept, reading, writing, received, registry>>

PeerCloses(c) ==
    /\ stream[c] = "open"
    /\ stream' = [stream EXCEPT ![c] = "eof"]
    /\ UNCHANGED <<backlog, sent, inbox, accept, reading, writing, received, registry>>

(* A reset follows an abortive close, a crash of the peer, or a reply sent *)
(* to a peer that has closed already.                                      *)
PeerResets(c) ==
    /\ stream[c] \in {"open", "eof"}
    /\ Cardinality({d \in Conns : stream[d] = "reset"}) < MaxResets
    /\ stream' = [stream EXCEPT ![c] = "reset"]
    /\ UNCHANGED <<backlog, sent, inbox, accept, reading, writing, received, registry>>

Environment ==
    \E c \in Conns :
        PeerConnects(c) \/ PeerSends(c) \/ PeerCloses(c) \/ PeerResets(c)

-----------------------------------------------------------------------------
(***************************************************************************)
(* Completions.  A read takes one or more of the pieces that have arrived, *)
(* or fails; after a reset the data still queued may be read or lost.      *)
(***************************************************************************)
ReceiveData(c) ==
    /\ alive
    /\ reading[c] = "armed"
    /\ \E n \in 1..inbox[c] : inbox' = [inbox EXCEPT ![c] = @ - n]
    /\ reading' = [reading EXCEPT ![c] = "ok"]
    /\ received' = [received EXCEPT ![c] = TRUE]
    /\ UNCHANGED <<backlog, stream, sent, accept, writing, registry>>

ReceiveFails(c) ==
    /\ alive
    /\ reading[c] = "armed"
    /\ stream[c] = "reset" \/ (stream[c] = "eof" /\ inbox[c] = 0)
    /\ reading' = [reading EXCEPT ![c] = "error"]
    /\ UNCHANGED <<network, accept, writing, received, registry>>

(* Every accepted socket keeps its descriptor: close_callback_ holds a     *)
(* shared_ptr to the connection that owns it, so none is ever destroyed.   *)
OpenSockets == {c \in Conns : close_callback_[c]}

(* accept() fails when the process has no descriptor left, and may fail    *)
(* when the host is short of files or memory; the peer stays in the queue. *)
AcceptFails ==
    /\ alive
    /\ accept = "armed"
    /\ backlog # << >>
    /\ accept' = "failed"
    /\ UNCHANGED <<network, reading, writing, received, registry>>

-----------------------------------------------------------------------------
(***************************************************************************)
(* The handlers.                                                           *)
(***************************************************************************)
(* Mutant of start_accept: the acceptor is not armed again.                *)
AcceptNotArmed == accept' = "idle"

start_accept == accept' = "armed"

(* start() sends the greeting and arms the first read.                     *)
start(c) ==
    /\ writing' = [writing EXCEPT ![c] = @ + 1]
    /\ reading' = [reading EXCEPT ![c] = "armed"]

(* handle_accept without an error.  The address is asked for, and may be   *)
(* refused, after the connection was counted and stored and before it is   *)
(* started.                                                                *)
HandleAccept ==
    /\ alive
    /\ accept = "armed"
    /\ backlog # << >>
    /\ Cardinality(OpenSockets) < MaxOpen
    /\ LET c == Head(backlog)
       IN  /\ connection_count_' = connection_count_ + 1
           /\ connections_' = Append(connections_, c)
           /\ IF GetIpThrows(c)
                 THEN /\ alive' = FALSE
                      /\ accept' = "idle"
                      /\ UNCHANGED <<writing, reading, close_callback_>>
                 ELSE /\ start(c)
                      /\ close_callback_' = [close_callback_ EXCEPT ![c] = TRUE]
                      /\ start_accept
                      /\ UNCHANGED alive
    /\ backlog' = Tail(backlog)
    /\ UNCHANGED <<stream, sent, inbox, received>>

(* handle_accept with an error only arms the next accept.                  *)
HandleAcceptError ==
    /\ alive
    /\ accept = "failed"
    /\ start_accept
    /\ UNCHANGED <<network, reading, writing, received, registry>>

(* Mutant of CloseConnection: the counter is left alone.                   *)
CloseKeepsCount(c) ==
    /\ IF ~close_callback_[c] THEN UNCHANGED <<connections_, alive>>
       ELSE IF GetIpThrows(c) THEN alive' = FALSE /\ UNCHANGED connections_
       ELSE connections_' = Without(connections_, c) /\ UNCHANGED alive
    /\ UNCHANGED <<connection_count_, close_callback_>>

(* The callback handle_accept installs: the count goes down first, then    *)
(* the address is asked for, then the connection is erased.                *)
CloseConnection(c) ==
    /\ IF close_callback_[c]
          THEN /\ connection_count_' = connection_count_ - 1
               /\ IF GetIpThrows(c)
                     THEN alive' = FALSE /\ UNCHANGED connections_
                     ELSE connections_' = Without(connections_, c) /\ UNCHANGED alive
          ELSE UNCHANGED <<connection_count_, connections_, alive>>
    /\ UNCHANGED close_callback_

(* Mutant of HandleRead: no further read, as in handle_write.              *)
ReadOnce(c) ==
    /\ alive
    /\ reading[c] = "ok"
    /\ writing' = [writing EXCEPT ![c] = @ + 1]
    /\ reading' = [reading EXCEPT ![c] = "none"]
    /\ UNCHANGED <<network, accept, received, registry>>

(* handle_read without an error: one reply for each completed read, then   *)
(* the next read.                                                          *)
HandleRead(c) ==
    /\ alive
    /\ reading[c] = "ok"
    /\ writing' = [writing EXCEPT ![c] = @ + 1]
    /\ reading' = [reading EXCEPT ![c] = "armed"]
    /\ UNCHANGED <<network, accept, received, registry>>

(* Mutant of HandleReadError: the error is reported and nothing else.      *)
ReadErrorLogged(c) ==
    /\ alive
    /\ reading[c] = "error"
    /\ reading' = [reading EXCEPT ![c] = "none"]
    /\ UNCHANGED <<network, accept, writing, received, registry>>

(* handle_read with an error.                                              *)
HandleReadError(c) ==
    /\ alive
    /\ reading[c] = "error"
    /\ reading' = [reading EXCEPT ![c] = "none"]
    /\ CloseConnection(c)
    /\ UNCHANGED <<network, accept, writing, received>>

(* Mutant of HandleWrite: the callback is called without looking at error. *)
WriteAlwaysCloses(c) ==
    /\ alive
    /\ writing[c] > 0
    /\ writing' = [writing EXCEPT ![c] = @ - 1]
    /\ CloseConnection(c)
    /\ UNCHANGED <<network, accept, reading, received>>

(* handle_write without an error does nothing.  A write that completed     *)
(* before a reset is reported as sent even when it is handled after it.    *)
HandleWrite(c) ==
    /\ alive
    /\ writing[c] > 0
    /\ writing' = [writing EXCEPT ![c] = @ - 1]
    /\ UNCHANGED <<network, accept, reading, received, registry>>

HandleWriteError(c) ==
    /\ alive
    /\ writing[c] > 0
    /\ stream[c] = "reset"
    /\ writing' = [writing EXCEPT ![c] = @ - 1]
    /\ CloseConnection(c)
    /\ UNCHANGED <<network, accept, reading, received>>

(* What becomes of the accept, of the read of c and of its writes.         *)
AcceptStep == AcceptFails \/ HandleAccept \/ HandleAcceptError

ReadStep(c) == ReceiveData(c) \/ ReceiveFails(c) \/ HandleRead(c) \/ HandleReadError(c)

WriteStep(c) == HandleWrite(c) \/ HandleWriteError(c)

Handlers == AcceptStep \/ \E c \in Conns : ReadStep(c) \/ WriteStep(c)

Next == Environment \/ Handlers

(***************************************************************************)
(* run() takes ready handlers in the order in which they became ready and  *)
(* polls the sockets in between, so none that stays ready waits for ever.  *)
(* (At most one of the steps joined here is ever ready at a time, but an   *)
(* accept that can succeed may also fail: not for ever, unless the process *)
(* has used up its descriptors.)                                           *)
(* A peer owes nothing: it may stay silent, and it may never make room for *)
(* what the server writes to it.                                           *)
(***************************************************************************)
Fairness ==
    /\ WF_vars(AcceptStep) /\ SF_vars(HandleAccept)
    /\ \A c \in Conns : WF_vars(ReadStep(c))

Spec == Init /\ [][Next]_vars /\ Fairness

-----------------------------------------------------------------------------
(***************************************************************************)
(* Properties.                                                             *)
(***************************************************************************)
(* The counter may fall behind the list of connections but never runs      *)
(* ahead of it: every call of the close callback takes one off, and at     *)
(* most one call per connection finds something to erase.                  *)
CountNeverAhead == connection_count_ <= Len(connections_)

(* While the process lives, the counter is the number of connections in    *)
(* the list: on Linux always, because a second call of a close callback    *)
(* throws; elsewhere as long as no connection was reset, because only a    *)
(* reset lets both handle_read and handle_write call it.                   *)
CountIsExact ==
    alive /\ (ResetThrows \/ \A c \in Conns : stream[c] # "reset")
        => connection_count_ = Len(connections_)

(* While the process lives, every connection in the list has a read        *)
(* outstanding, the only operation that notices a peer that leaves in      *)
(* silence, and has its close callback.                                    *)
RegisteredIsWatched ==
    alive => \A c \in Registered : reading[c] # "none" /\ close_callback_[c]

(* The io_context never runs out of work while the process lives, so run() *)
(* does not return and no peer finds the port closed.                      *)
KeepsListening == alive => accept # "idle"

(* A connection whose peer has closed or reset it leaves the list, unless  *)
(* the process dies.                                                       *)
DisconnectIsNoticed ==
    \A c \in Conns :
        (c \in Registered /\ stream[c] \in {"eof", "reset"})
            ~> (c \notin Registered \/ ~alive)

(* The server implements the abstract registry.                            *)
Lost == {c \in Conns : stream[c] \in {"eof", "reset"}}

Registry == INSTANCE ConnectionRegistry WITH
    arrived <- {c \in Conns : stream[c] # "none"},
    lost    <- Lost,
    members <- IF alive THEN Registered ELSE {},
    gone    <- {c \in Conns : close_callback_[c]} \ Registered,
    count   <- IF alive THEN connection_count_ ELSE 0

ImplementsRegistry == Registry!Spec

(* The part of it that says what may never happen. *)
RegistrySafety == Registry!Init /\ [][Registry!Next]_(Registry!vars)

(* handle_read takes a failing read for a connection that "was closed"     *)
(* (ServerModule.cpp:110) and calls its close callback: the server is      *)
(* meant to live on after handling the error.                              *)
SurvivesDisconnect ==
    [][\A c \in Conns : reading[c] = "error" /\ reading'[c] = "none" => alive']_vars

(* A peer that waits to be accepted while no earlier connection is open    *)
(* any more is accepted: closed connections leave room for new ones.       *)
ClosedConnectionsMakeRoom ==
    \A c \in Conns :
        (c \in ToSet(backlog) /\ Registered = {})
            ~> (c \in Registered \/ c \in Lost \/ ~alive)
=============================================================================
