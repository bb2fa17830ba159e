-------------------------- MODULE TcpServerProofs --------------------------
(***************************************************************************)
(* Proofs about TcpServer, for every set of connections, every bound and   *)
(* both platforms.                                                         *)
(***************************************************************************)
EXTENDS TcpServer, SequenceLemmas, SequenceTheorems, TLAPS

-----------------------------------------------------------------------------
(* The list of connections.                                                *)

(* Without takes out its one occurrence of c and nothing else. *)
LEMMA WithoutRemoves ==
    ASSUME NEW S, NEW s \in Seq(S), NEW c, IsInjective(s)
    PROVE  /\ Without(s, c) \in Seq(S)
           /\ IsInjective(Without(s, c))
           /\ ToSet(Without(s, c)) = ToSet(s) \ {c}
           /\ Len(Without(s, c)) =
                 IF c \in ToSet(s) THEN Len(s) - 1 ELSE Len(s)
<1>1. CASE c \notin ToSet(s)
  BY <1>1 DEF Without
<1>2. CASE c \in ToSet(s)
  <2> DEFINE k == CHOOSE j \in DOMAIN s : s[j] = c
             n == Len(s)
             t == RemoveAt(s, k)
  <2>1. n \in Nat /\ DOMAIN s = 1..n
    BY LenProperties
  <2>2. k \in 1..n /\ s[k] = c
    BY <1>2, <2>1 DEF ToSet
  <2>a. k \in Int /\ n \in Int /\ 1 <= k /\ k <= n
    BY <2>1, <2>2
  <2>6. Without(s, c) = t
    BY <1>2 DEF Without
  <2> HIDE DEF k
  <2>5. /\ t \in Seq(S)
        /\ Len(t) = n - 1
        /\ \A i \in 1..(k - 1) : t[i] = s[i]
        /\ \A i \in k..(n - 1) : t[i] = s[i + 1]
    BY <2>2, RemoveAtProperties
  <2> HIDE DEF n
  <2>7. DOMAIN t = 1..(n - 1)
    BY <2>5, LenProperties
  <2> HIDE DEF t
  <2>8. IsInjective(t)
    <3>1. ASSUME NEW i \in 1..(n - 1), NEW j \in 1..(n - 1), t[i] = t[j]
          PROVE  i = j
      <4> DEFINE from(m) == IF m < k THEN m ELSE m + 1
      <4>1. /\ from(i) \in DOMAIN s /\ t[i] = s[from(i)]
            /\ from(j) \in DOMAIN s /\ t[j] = s[from(j)]
        BY <2>1, <2>a, <2>5
      <4>2. from(i) = from(j)
        BY <4>1, <3>1 DEF IsInjective
      <4> QED  BY <4>2, <2>a
    <3> QED  BY <3>1, <2>7 DEF IsInjective
  <2>9. ToSet(t) = ToSet(s) \ {c}
    <3>1. ASSUME NEW x \in ToSet(t) PROVE x \in ToSet(s) /\ x # c
      <4>1. PICK i \in 1..(n - 1) : t[i] = x
        BY <2>7, <3>1 DEF ToSet
      <4>2. CASE i < k
        <5>1. i \in DOMAIN s /\ i # k /\ s[i] = x
          BY <4>1, <4>2, <2>1, <2>a, <2>5
        <5> QED  BY <5>1, <2>1, <2>2 DEF ToSet, IsInjective
      <4>3. CASE i >= k
        <5>1. i + 1 \in DOMAIN s /\ i + 1 # k /\ s[i + 1] = x
          BY <4>1, <4>3, <2>1, <2>a, <2>5
        <5> QED  BY <5>1, <2>1, <2>2 DEF ToSet, IsInjective
      <4> QED  BY <4>2, <4>3, <2>a
    <3>2. ASSUME NEW x \in ToSet(s), x # c PROVE x \in ToSet(t)
      <4>1. PICK i \in 1..n : s[i] = x
        BY <2>1 DEF ToSet
      <4>2. CASE i < k
        BY <4>1, <4>2, <2>1, <2>2, <2>5, <2>7 DEF ToSet
      <4>3. CASE i > k
        <5>1. i - 1 \in k..(n - 1) /\ t[i - 1] = x
          BY <4>1, <4>3, <2>1, <2>2, <2>5
        <5> QED  BY <5>1, <2>2, <2>7 DEF ToSet
      <4> QED  BY <4>1, <4>2, <4>3, <2>1, <2>2, <3>2
    <3> QED  BY <3>1, <3>2
  <2> QED  BY <1>2, <2>5, <2>6, <2>8, <2>9 DEF n
<1> QED  BY <1>1, <1>2

-----------------------------------------------------------------------------
(***************************************************************************)
(* The inductive invariant.  It says where a connection can be (nowhere,   *)
(* in the backlog, accepted), and, for the counter, that as long as no     *)
(* reset can hide it a connection with a read outstanding is in the list:  *)
(* the one read of a connection then decrements and erases together, and   *)
(* a write that fails can only follow a reset.                             *)
(***************************************************************************)
Unstarted(c) ==
    /\ ~close_callback_[c]
    /\ c \notin Registered
    /\ reading[c] = "none"
    /\ writing[c] = 0

Placement ==
    /\ IsInjective(backlog)
    /\ IsInjective(connections_)
    /\ \A c \in Conns :
          /\ stream[c] = "none" => c \notin ToSet(backlog) /\ Unstarted(c)
          /\ c \in ToSet(backlog) => Unstarted(c)

(* What waits to be read was sent. *)
UnreadWasSent == \A c \in Conns : inbox[c] <= sent[c]

ReadersAreRegistered ==
    alive => \A c \in Conns :
        reading[c] # "none" /\ (ResetThrows \/ stream[c] # "reset")
            => c \in Registered

Inv ==
    /\ TypeOK
    /\ UnreadWasSent
    /\ Placement
    /\ ReadersAreRegistered
    /\ RegisteredIsWatched
    /\ CountIsExact
    /\ CountNeverAhead
    /\ KeepsListening

LEMMA InitInv == Init => Inv
<1> SUFFICES ASSUME Init PROVE Inv
  OBVIOUS
<1>1. << >> \in Seq(Conns) /\ Len(<< >>) = 0 /\ ToSet(<< >>) = {} /\ IsInjective(<< >>)
  BY DEF ToSet, IsInjective
<1>2. TypeOK
  BY <1>1, BoundsAssumption DEF Init, TypeOK
<1>3. Placement
  BY <1>1 DEF Init, Placement, Unstarted, Registered
<1> QED
  BY <1>1, <1>2, <1>3 DEF Init, Inv, UnreadWasSent, ReadersAreRegistered, RegisteredIsWatched,
     CountIsExact, CountNeverAhead, KeepsListening, Registered

LEMMA RegisteredAreConns == Inv => Registered \subseteq Conns
  BY ElementOfSeq, LenProperties DEF Inv, TypeOK, Registered, ToSet

(* What a call of the close callback does to the list and the counter. *)
LEMMA CloseKeepsList ==
    ASSUME Inv, NEW c \in Conns, CloseConnection(c)
    PROVE  /\ connections_' \in Seq(Conns)
           /\ IsInjective(connections_')
           /\ Registered' \subseteq Registered
           /\ Registered \subseteq Registered' \cup {c}
           /\ connection_count_' \in Int
           /\ alive' \in BOOLEAN
           /\ alive' => alive
           /\ CountNeverAhead'
           /\ close_callback_' = close_callback_
           /\ alive' /\ close_callback_[c] =>
                 /\ ~GetIpThrows(c)
                 /\ c \notin Registered'
                 /\ connection_count_' = connection_count_ - 1
                 /\ c \in Registered => Len(connections_') = Len(connections_) - 1
           /\ ~close_callback_[c] => UNCHANGED <<connections_, connection_count_, alive>>
<1> USE DEF Inv, TypeOK, Placement, CountNeverAhead, Registered, CloseConnection
<1>1. Len(connections_) \in Nat
  BY LenProperties
<1>2. CASE ~close_callback_[c]
  BY <1>1, <1>2
<1>3. CASE close_callback_[c] /\ GetIpThrows(c)
  <2>1. /\ connection_count_' = connection_count_ - 1
        /\ alive' = FALSE
        /\ UNCHANGED <<connections_, close_callback_>>
    BY <1>3
  <2>2. CountNeverAhead'
    BY <1>1, <2>1
  <2>3. Registered' = Registered /\ connection_count_' \in Int
    BY <2>1
  <2> QED  BY <2>1, <2>2, <2>3, <1>3
<1>4. CASE close_callback_[c] /\ ~GetIpThrows(c)
  <2>1. /\ connections_' = Without(connections_, c)
        /\ connection_count_' = connection_count_ - 1
        /\ UNCHANGED <<alive, close_callback_>>
    BY <1>4
  <2>2. /\ connections_' \in Seq(Conns)
        /\ IsInjective(connections_')
        /\ ToSet(connections_') = ToSet(connections_) \ {c}
        /\ Len(connections_') = IF c \in ToSet(connections_)
                                THEN Len(connections_) - 1 ELSE Len(connections_)
    BY <2>1, WithoutRemoves
  <2>3. CountNeverAhead'
    BY <1>1, <2>1, <2>2
  <2>4. /\ Registered' = Registered \ {c}
        /\ connection_count_' \in Int
        /\ c \in Registered => Len(connections_') = Len(connections_) - 1
    BY <2>1, <2>2
  <2> QED  BY <1>4, <2>1, <2>2, <2>3, <2>4
<1> QED  BY <1>2, <1>3, <1>4

(* Steps that leave the list, the counter and the backlog alone. *)
Quiet ==
    /\ UNCHANGED <<backlog, registry>>
    /\ \A c \in Conns : /\ stream'[c] = stream[c] \/ stream[c] # "none"
                        /\ stream'[c] = "none" => stream[c] = "none"
                        /\ stream[c] = "reset" => stream'[c] = "reset"
                        /\ reading'[c] # "none" <=> reading[c] # "none"
                        /\ writing'[c] # 0 => reading[c] # "none" \/ writing[c] # 0
    /\ accept' = "idle" => accept = "idle"

LEMMA QuietKeepsInv == Inv /\ Quiet /\ TypeOK' /\ UnreadWasSent' => Inv'
<1> SUFFICES ASSUME Inv, Quiet, TypeOK', UnreadWasSent' PROVE Inv'
  OBVIOUS
<1>1. Placement'
  BY DEF Inv, Placement, Quiet, Unstarted, Registered, registry
<1>2. ReadersAreRegistered' /\ RegisteredIsWatched'
  <2>1. /\ Registered' = Registered /\ alive' = alive
        /\ close_callback_' = close_callback_
    BY DEF Quiet, registry, Registered
  <2>2. ReadersAreRegistered'
    BY <2>1 DEF Inv, ReadersAreRegistered, Quiet
  <2>3. ASSUME alive', NEW c \in Conns, c \in Registered
        PROVE  reading'[c] # "none" /\ close_callback_'[c]
    BY <2>1, <2>3 DEF Inv, RegisteredIsWatched, Quiet
  <2>4. Registered \subseteq Conns
    BY RegisteredAreConns
  <2> QED  BY <2>1, <2>2, <2>3, <2>4 DEF RegisteredIsWatched
<1>3. CountIsExact' /\ CountNeverAhead' /\ KeepsListening'
  BY DEF Inv, CountIsExact, CountNeverAhead, KeepsListening, Quiet, registry
<1> QED  BY <1>1, <1>2, <1>3 DEF Inv

LEMMA InvStep == Inv /\ [Next]_vars => Inv'
<1> SUFFICES ASSUME Inv, [Next]_vars PROVE Inv'
  OBVIOUS
<1>1. ASSUME NEW c \in Conns, PeerSends(c) PROVE Inv'
  <2>1. TypeOK' /\ UnreadWasSent'
    BY <1>1, BoundsAssumption DEF Inv, TypeOK, UnreadWasSent, PeerSends, registry, network
  <2>2. Quiet
    BY <1>1 DEF Inv, TypeOK, Quiet, PeerSends, registry, network
  <2> QED  BY <2>1, <2>2, QuietKeepsInv
<1>2. ASSUME NEW c \in Conns, PeerCloses(c) PROVE Inv'
  <2>1. TypeOK' /\ UnreadWasSent'
    BY <1>2, BoundsAssumption DEF Inv, TypeOK, UnreadWasSent, PeerCloses, registry, network
  <2>2. Quiet
    BY <1>2 DEF Inv, TypeOK, Quiet, PeerCloses, registry, network
  <2> QED  BY <2>1, <2>2, QuietKeepsInv
<1>3. ASSUME NEW c \in Conns, PeerResets(c) PROVE Inv'
  <2>1. TypeOK' /\ UnreadWasSent'
    BY <1>3, BoundsAssumption DEF Inv, TypeOK, UnreadWasSent, PeerResets, registry, network
  <2>2. Quiet
    BY <1>3 DEF Inv, TypeOK, Quiet, PeerResets, registry, network
  <2> QED  BY <2>1, <2>2, QuietKeepsInv
<1>4. ASSUME NEW c \in Conns, ReceiveData(c) PROVE Inv'
  <2>1. TypeOK' /\ UnreadWasSent'
    BY <1>4, BoundsAssumption DEF Inv, TypeOK, UnreadWasSent, ReceiveData, registry, network
  <2>2. Quiet
    BY <1>4 DEF Inv, TypeOK, Quiet, ReceiveData, registry, network
  <2> QED  BY <2>1, <2>2, QuietKeepsInv
<1>5. ASSUME NEW c \in Conns, ReceiveFails(c) PROVE Inv'
  <2>1. TypeOK' /\ UnreadWasSent'
    BY <1>5, BoundsAssumption DEF Inv, TypeOK, UnreadWasSent, ReceiveFails, registry, network
  <2>2. Quiet
    BY <1>5 DEF Inv, TypeOK, Quiet, ReceiveFails, registry, network
  <2> QED  BY <2>1, <2>2, QuietKeepsInv
<1>6. ASSUME NEW c \in Conns, HandleRead(c) PROVE Inv'
  <2>1. TypeOK' /\ UnreadWasSent'
    BY <1>6, BoundsAssumption DEF Inv, TypeOK, UnreadWasSent, HandleRead, registry, network
  <2>2. Quiet
    BY <1>6 DEF Inv, TypeOK, Quiet, HandleRead, registry, network
  <2> QED  BY <2>1, <2>2, QuietKeepsInv
<1>7. ASSUME NEW c \in Conns, HandleWrite(c) PROVE Inv'
  <2>1. TypeOK' /\ UnreadWasSent'
    BY <1>7, BoundsAssumption DEF Inv, TypeOK, UnreadWasSent, HandleWrite, registry, network
  <2>2. Quiet
    BY <1>7 DEF Inv, TypeOK, Quiet, HandleWrite, registry, network
  <2> QED  BY <2>1, <2>2, QuietKeepsInv
<1>8. ASSUME AcceptFails \/ HandleAcceptError PROVE Inv'
  <2>1. TypeOK' /\ UnreadWasSent' /\ Quiet
    BY <1>8 DEF Inv, TypeOK, UnreadWasSent, Quiet, AcceptFails, HandleAcceptError,
       start_accept, registry, network
  <2> QED  BY <2>1, QuietKeepsInv
<1>9. ASSUME NEW c \in Conns, PeerConnects(c) PROVE Inv'
  <2> USE <1>9 DEF PeerConnects
  <2>1. /\ backlog' \in Seq(Conns)
        /\ ToSet(backlog') = ToSet(backlog) \cup {c}
        /\ IsInjective(backlog')
    BY AppendNew DEF Inv, TypeOK, Placement
  <2>2. TypeOK'
    BY <2>1 DEF Inv, TypeOK, registry
  <2>3. Placement'
    BY <2>1 DEF Inv, TypeOK, Placement, Unstarted, Registered, registry
  <2>4. ReadersAreRegistered' /\ RegisteredIsWatched'
    BY DEF Inv, TypeOK, ReadersAreRegistered, RegisteredIsWatched, Registered, registry
  <2>5. CountIsExact' /\ CountNeverAhead' /\ KeepsListening'
    BY DEF Inv, TypeOK, CountIsExact, CountNeverAhead, KeepsListening, registry
  <2>6. UnreadWasSent'
    BY DEF Inv, UnreadWasSent
  <2> QED  BY <2>2, <2>3, <2>4, <2>5, <2>6 DEF Inv
<1>10. ASSUME HandleAccept PROVE Inv'
  <2> DEFINE c == Head(backlog)
  <2>1. /\ alive
        /\ backlog # << >>
        /\ connection_count_' = connection_count_ + 1
        /\ connections_' = Append(connections_, c)
        /\ backlog' = Tail(backlog)
        /\ UNCHANGED <<stream, sent, inbox, received>>
    BY <1>10 DEF HandleAccept, start, start_accept
  <2>2. /\ c \in Conns
        /\ c \in ToSet(backlog)
        /\ backlog' \in Seq(Conns)
        /\ ToSet(backlog') \subseteq ToSet(backlog)
        /\ IsInjective(backlog')
        /\ c \notin ToSet(backlog')
    BY <2>1, TailRemovesHead DEF Inv, TypeOK, Placement
  <2>3. c \notin Registered /\ stream[c] # "none"
    BY <2>2 DEF Inv, Placement, Unstarted
  <2>4. /\ connections_' \in Seq(Conns)
        /\ Len(connections_') = Len(connections_) + 1
        /\ Registered' = Registered \cup {c}
        /\ IsInjective(connections_')
    BY <2>1, <2>2, <2>3, AppendNew DEF Inv, TypeOK, Placement, Registered
  <2>5. Len(connections_) \in Nat
    BY LenProperties DEF Inv, TypeOK
  <2>6. CountNeverAhead'
    BY <2>1, <2>4, <2>5 DEF Inv, TypeOK, CountNeverAhead
  <2>9. UnreadWasSent'
    BY <2>1 DEF Inv, UnreadWasSent
  <2>7. CASE GetIpThrows(c)
    <3>1. /\ alive' = FALSE /\ accept' = "idle"
          /\ UNCHANGED <<writing, reading, close_callback_>>
      BY <1>10, <2>7 DEF HandleAccept, start, start_accept
    <3>2. TypeOK'
      <4>1. connection_count_' \in Int
        BY <2>1 DEF Inv, TypeOK
      <4>2. alive' \in BOOLEAN /\ accept' \in {"armed", "failed", "idle"}
        BY <3>1
      <4> HIDE DEF c
      <4> QED  BY <2>1, <2>2, <2>4, <3>1, <4>1, <4>2 DEF Inv, TypeOK
    <3>3. Placement'
      BY <2>1, <2>2, <2>3, <2>4, <3>1 DEF Inv, TypeOK, Placement, Unstarted
    <3> QED
      BY <2>6, <2>9, <3>1, <3>2, <3>3 DEF Inv, ReadersAreRegistered, RegisteredIsWatched,
         CountIsExact, KeepsListening
  <2>8. CASE ~GetIpThrows(c)
    <3>1. /\ writing' = [writing EXCEPT ![c] = @ + 1]
          /\ reading' = [reading EXCEPT ![c] = "armed"]
          /\ close_callback_' = [close_callback_ EXCEPT ![c] = TRUE]
          /\ UNCHANGED <<alive, accept>>
      BY <1>10, <2>8 DEF HandleAccept, start, start_accept
    <3>2. TypeOK'
      <4>1. /\ writing' \in [Conns -> Nat]
            /\ reading' \in [Conns -> {"none", "armed", "ok", "error"}]
            /\ close_callback_' \in [Conns -> BOOLEAN]
        BY <3>1, <2>2 DEF Inv, TypeOK
      <4> QED  BY <2>1, <2>2, <2>4, <3>1, <4>1 DEF Inv, TypeOK
    <3>3. Placement'
      BY <2>1, <2>2, <2>3, <2>4, <3>1 DEF Inv, TypeOK, Placement, Unstarted
    <3>4. ReadersAreRegistered' /\ RegisteredIsWatched'
      BY <2>1, <2>2, <2>4, <3>1
         DEF Inv, TypeOK, ReadersAreRegistered, RegisteredIsWatched
    <3>5. CountIsExact' /\ KeepsListening'
      BY <2>1, <2>4, <2>5, <3>1 DEF Inv, TypeOK, CountIsExact, KeepsListening
    <3> QED  BY <2>6, <2>9, <3>2, <3>3, <3>4, <3>5 DEF Inv
  <2> QED  BY <2>7, <2>8
<1>11. ASSUME NEW c \in Conns, HandleReadError(c) PROVE Inv'
  <2>1. /\ alive
        /\ reading[c] = "error"
        /\ reading' = [reading EXCEPT ![c] = "none"]
        /\ CloseConnection(c)
        /\ UNCHANGED <<network, accept, writing, received>>
    BY <1>11 DEF HandleReadError
  <2>2. /\ connections_' \in Seq(Conns)
        /\ IsInjective(connections_')
        /\ Registered' \subseteq Registered
        /\ Registered \subseteq Registered' \cup {c}
        /\ connection_count_' \in Int
        /\ alive' \in BOOLEAN
        /\ close_callback_' = close_callback_
    BY <2>1, CloseKeepsList
  <2>3. /\ backlog' = backlog /\ stream' = stream
        /\ sent' = sent /\ inbox' = inbox
    BY <2>1 DEF network
  <2>4. /\ reading' \in [Conns -> {"none", "armed", "ok", "error"}]
        /\ reading'[c] = "none"
        /\ \A d \in Conns \ {c} : reading'[d] = reading[d]
    BY <2>1 DEF Inv, TypeOK
  <2>5. TypeOK' /\ UnreadWasSent'
    BY <2>1, <2>2, <2>3, <2>4 DEF Inv, TypeOK, UnreadWasSent
  <2>6. Placement'
    <3>1. ASSUME NEW d \in Conns, Unstarted(d) PROVE Unstarted(d)'
      BY <3>1, <2>1, <2>2, <2>4 DEF Unstarted, Inv, TypeOK
    <3> QED  BY <3>1, <2>2, <2>3 DEF Inv, Placement
  <2>7. ReadersAreRegistered'
    <3>1. ASSUME alive', NEW d \in Conns, reading'[d] # "none",
                 ResetThrows \/ stream'[d] # "reset"
          PROVE  d \in Registered'
      <4>1. d # c /\ reading[d] # "none" /\ (ResetThrows \/ stream[d] # "reset")
        BY <2>3, <2>4, <3>1
      <4>2. d \in Registered
        BY <4>1, <2>1 DEF Inv, ReadersAreRegistered
      <4> QED  BY <4>1, <4>2, <2>2
    <3> QED  BY <3>1 DEF ReadersAreRegistered
  <2>8. RegisteredIsWatched'
    <3>1. ASSUME alive', NEW d \in Registered'
          PROVE  reading'[d] # "none" /\ close_callback_'[d]
      <4>1. d \in Registered /\ d \in Conns
        BY <2>2, RegisteredAreConns
      <4>2. reading[d] # "none" /\ close_callback_[d]
        BY <4>1, <2>1 DEF Inv, RegisteredIsWatched
      <4>3. d # c
        BY <3>1, <4>2, <2>1, CloseKeepsList
      <4> QED  BY <4>1, <4>2, <4>3, <2>2, <2>4
    <3> QED  BY <3>1 DEF RegisteredIsWatched
  <2>9. CountIsExact'
    <3>1. SUFFICES ASSUME alive', ResetThrows \/ \A d \in Conns : stream[d] # "reset"
                   PROVE  connection_count_' = Len(connections_')
      BY <2>3 DEF CountIsExact
    <3>2. c \in Registered /\ close_callback_[c]
      <4>1. ResetThrows \/ stream[c] # "reset"
        BY <3>1
      <4> QED
        BY <4>1, <2>1 DEF Inv, ReadersAreRegistered, RegisteredIsWatched
    <3>3. connection_count_ = Len(connections_)
      BY <2>1, <3>1 DEF Inv, CountIsExact
    <3> QED
      BY <2>1, <3>1, <3>2, <3>3, CloseKeepsList
  <2>10. CountNeverAhead' /\ KeepsListening'
    BY <2>1, CloseKeepsList DEF Inv, KeepsListening
  <2> QED
    BY <2>5, <2>6, <2>7, <2>8, <2>9, <2>10 DEF Inv
<1>12. ASSUME NEW c \in Conns, HandleWriteError(c) PROVE Inv'
  <2>1. /\ alive
        /\ stream[c] = "reset"
        /\ writing[c] > 0
        /\ writing' = [writing EXCEPT ![c] = @ - 1]
        /\ CloseConnection(c)
        /\ UNCHANGED <<network, accept, reading, received>>
    BY <1>12 DEF HandleWriteError
  <2>2. /\ connections_' \in Seq(Conns)
        /\ IsInjective(connections_')
        /\ Registered' \subseteq Registered
        /\ Registered \subseteq Registered' \cup {c}
        /\ connection_count_' \in Int
        /\ alive' \in BOOLEAN
        /\ close_callback_' = close_callback_
    BY <2>1, CloseKeepsList
  <2>3. /\ backlog' = backlog /\ stream' = stream
        /\ sent' = sent /\ inbox' = inbox
    BY <2>1 DEF network
  <2>4. /\ writing' \in [Conns -> Nat]
        /\ \A d \in Conns : writing[d] = 0 => writing'[d] = 0
    BY <2>1 DEF Inv, TypeOK
  <2>5. TypeOK' /\ UnreadWasSent'
    BY <2>1, <2>2, <2>3, <2>4 DEF Inv, TypeOK, UnreadWasSent
  <2>6. Placement'
    <3>1. ASSUME NEW d \in Conns, Unstarted(d) PROVE Unstarted(d)'
      BY <3>1, <2>1, <2>2, <2>4 DEF Unstarted, Inv, TypeOK
    <3> QED  BY <3>1, <2>2, <2>3 DEF Inv, Placement
  <2>7. ASSUME alive', close_callback_[c] PROVE ~ResetThrows /\ c \notin Registered'
    BY <2>1, <2>7, CloseKeepsList DEF GetIpThrows
  <2>8. ReadersAreRegistered'
    <3>1. ASSUME alive', NEW d \in Conns, reading[d] # "none",
                 ResetThrows \/ stream[d] # "reset"
          PROVE  d \in Registered'
      <4>1. d \in Registered
        BY <2>1, <3>1 DEF Inv, ReadersAreRegistered
      <4>2. CASE d = c
        <5>1. close_callback_[c]
          BY <4>1, <4>2, <2>1 DEF Inv, RegisteredIsWatched
        <5> QED  BY <5>1, <3>1, <4>2, <2>1, <2>7
      <4> QED  BY <4>1, <4>2, <2>2
    <3> QED  BY <3>1, <2>1, <2>3 DEF ReadersAreRegistered
  <2>9. RegisteredIsWatched'
    BY <2>1, <2>2 DEF Inv, RegisteredIsWatched
  <2>10. CountIsExact'
    <3>1. SUFFICES ASSUME alive', ResetThrows \/ \A d \in Conns : stream[d] # "reset"
                   PROVE  connection_count_' = Len(connections_')
      BY <2>3 DEF CountIsExact
    <3>2. ResetThrows /\ ~close_callback_[c]
      BY <2>1, <2>7, <3>1
    <3>3. connection_count_ = Len(connections_)
      BY <2>1, <3>1 DEF Inv, CountIsExact
    <3> QED
      BY <2>1, <3>2, <3>3, CloseKeepsList
  <2>11. CountNeverAhead' /\ KeepsListening'
    BY <2>1, CloseKeepsList DEF Inv, KeepsListening
  <2> QED
    BY <2>5, <2>6, <2>8, <2>9, <2>10, <2>11 DEF Inv
<1>13. ASSUME UNCHANGED vars PROVE Inv'
  <2>1. TypeOK' /\ UnreadWasSent' /\ Quiet
    BY <1>13 DEF Inv, TypeOK, UnreadWasSent, Quiet, vars, registry, network
  <2> QED  BY <2>1, QuietKeepsInv
<1> QED
  BY <1>1, <1>2, <1>3, <1>4, <1>5, <1>6, <1>7, <1>8, <1>9, <1>10, <1>11, <1>12, <1>13
     DEF Next, Environment, Handlers, AcceptStep, ReadStep, WriteStep

(* Inv holds in every reachable state. *)
THEOREM Invariance == Spec => []Inv
<1>1. Init => Inv
  BY InitInv
<1>2. Inv /\ [Next]_vars => Inv'
  BY InvStep
<1> QED  BY <1>1, <1>2, PTL DEF Spec

(* Every variable keeps its type: no counter of writes goes below zero, no *)
(* inbox grows beyond what was sent.                                       *)
THEOREM TypeCorrect == Spec => []TypeOK
<1>1. Inv => TypeOK
  BY DEF Inv
<1> QED  BY <1>1, Invariance, PTL

(* The counter the program shows is the length of the list of connections  *)
(* as long as the platform or the peers do not let a callback run twice.   *)
THEOREM CountExact == Spec => []CountIsExact
<1>1. Inv => CountIsExact
  BY DEF Inv
<1> QED  BY <1>1, Invariance, PTL

(* Even where it drifts, the counter never exceeds the length of the list. *)
THEOREM NeverAhead == Spec => []CountNeverAhead
<1>1. Inv => CountNeverAhead
  BY DEF Inv
<1> QED  BY <1>1, Invariance, PTL

(* Every connection in the list has a read outstanding and its callback.   *)
THEOREM Watched == Spec => []RegisteredIsWatched
<1>1. Inv => RegisteredIsWatched
  BY DEF Inv
<1> QED  BY <1>1, Invariance, PTL

(* The server keeps an accept outstanding while the process lives. *)
THEOREM Listening == Spec => []KeepsListening
<1>1. Inv => KeepsListening
  BY DEF Inv
<1> QED  BY <1>1, Invariance, PTL

-----------------------------------------------------------------------------
(***************************************************************************)
(* The server implements the abstract registry on a platform where asking  *)
(* a reset socket for its address throws.  (Elsewhere it does not: the     *)
(* counter drifts.)                                                        *)
(***************************************************************************)
(* A read fails only when the peer has left. *)
ReadErrorIsLoss ==
    \A c \in Conns : reading[c] = "error" => stream[c] \in {"eof", "reset"}

LEMMA ReadErrorStep == Inv /\ ReadErrorIsLoss /\ [Next]_vars => ReadErrorIsLoss'
<1> SUFFICES ASSUME Inv, ReadErrorIsLoss, [Next]_vars PROVE ReadErrorIsLoss'
  OBVIOUS
<1> USE DEF ReadErrorIsLoss, Inv, TypeOK
<1>1. ASSUME NEW c \in Conns, PeerConnects(c) \/ PeerCloses(c) \/ PeerResets(c)
      PROVE  ReadErrorIsLoss'
  BY <1>1 DEF PeerConnects, PeerCloses, PeerResets
<1>2. ASSUME NEW c \in Conns, ReceiveData(c) \/ ReceiveFails(c) \/ HandleRead(c)
      PROVE  ReadErrorIsLoss'
  BY <1>2 DEF ReceiveData, ReceiveFails, HandleRead, network
<1>3. ASSUME NEW c \in Conns, HandleReadError(c) PROVE ReadErrorIsLoss'
  BY <1>3 DEF HandleReadError, network
<1>4. ASSUME HandleAccept PROVE ReadErrorIsLoss'
  BY <1>4 DEF HandleAccept, start, start_accept
<1>5. ASSUME UNCHANGED <<stream, reading>> PROVE ReadErrorIsLoss'
  BY <1>5
<1> QED
  BY <1>1, <1>2, <1>3, <1>4, <1>5 DEF Next, Environment, Handlers, AcceptStep, ReadStep, WriteStep,
     PeerSends, AcceptFails, HandleAcceptError, start_accept, HandleWrite, HandleWriteError, vars, network

LEMMA ReadErrorInvariance == Spec => []ReadErrorIsLoss
<1>1. Init => ReadErrorIsLoss
  BY DEF Init, ReadErrorIsLoss
<1> QED  BY <1>1, ReadErrorStep, Invariance, PTL DEF Spec

Arrived == {c \in Conns : stream[c] # "none"}
Gone == {c \in Conns : close_callback_[c]} \ Registered
Members == IF alive THEN Registered ELSE {}
Count == IF alive THEN connection_count_ ELSE 0

(* A step that changes none of what the registry shows. *)
LEMMA Stutter ==
    UNCHANGED <<stream, registry>> => UNCHANGED (Registry!vars)
BY DEF registry, Registry!vars, Lost, Registered

(* A step in which the process dies after a peer has left. *)
LEMMA DieStep ==
    ASSUME NEW c \in Conns, stream[c] = "reset", stream' = stream,
           alive, ~alive', close_callback_' = close_callback_, Gone' = Gone
    PROVE  Registry!Next
<1>1. Lost' = Lost /\ c \in Lost /\ Arrived' = Arrived
  BY DEF Lost, Arrived
<1>2. Registry!Die
  BY <1>1 DEF Registry!Die, Arrived, Gone
<1> QED  BY <1>2 DEF Registry!Next

LEMMA RegistryStep ==
    ASSUME ResetThrows, Inv, ReadErrorIsLoss, [Next]_vars
    PROVE  [Registry!Next]_(Registry!vars)
<1>1. ASSUME NEW c \in Conns, PeerConnects(c) PROVE Registry!Arrive(c)
  <2>1. /\ Arrived' = Arrived \cup {c} /\ c \notin Arrived
        /\ Lost' = Lost
    BY <1>1 DEF PeerConnects, Arrived, Lost, Inv, TypeOK
  <2>2. UNCHANGED <<close_callback_, connections_, connection_count_, alive>>
    BY <1>1 DEF PeerConnects, registry
  <2>3. UNCHANGED <<Members, Gone, Count, alive>>
    BY <2>2 DEF Members, Gone, Count, Registered
  <2> QED  BY <2>1, <2>3 DEF Registry!Arrive, Arrived, Gone, Members, Count
<1>2. ASSUME NEW c \in Conns, PeerCloses(c) \/ PeerResets(c)
      PROVE  Registry!Leave(c) \/ UNCHANGED (Registry!vars)
  <2>1. /\ Arrived' = Arrived /\ c \in Arrived
        /\ Lost' = Lost \cup {c}
    BY <1>2 DEF PeerCloses, PeerResets, Arrived, Lost, Inv, TypeOK
  <2>2. UNCHANGED <<close_callback_, connections_, connection_count_, alive>>
    BY <1>2 DEF PeerCloses, PeerResets, registry
  <2>3. UNCHANGED <<Members, Gone, Count, alive>>
    BY <2>2 DEF Members, Gone, Count, Registered
  <2>4. CASE c \notin Lost
    BY <2>1, <2>3, <2>4 DEF Registry!Leave, Arrived, Gone, Members, Count
  <2>5. CASE c \in Lost
    <3>1. Lost' = Lost
      BY <2>1, <2>5
    <3> QED  BY <2>1, <2>3, <3>1 DEF Registry!vars, Arrived, Gone, Members, Count
  <2> QED  BY <2>4, <2>5
<1>3. ASSUME HandleAccept PROVE Registry!Next
  <2> DEFINE c == Head(backlog)
  <2>1. /\ alive
        /\ backlog # << >>
        /\ connection_count_' = connection_count_ + 1
        /\ connections_' = Append(connections_, c)
        /\ stream' = stream
    BY <1>3 DEF HandleAccept, start, start_accept
  <2>2. c \in Conns /\ c \in ToSet(backlog)
    BY <2>1, TailRemovesHead DEF Inv, TypeOK
  <2>3. ~close_callback_[c] /\ c \notin Registered /\ stream[c] # "none"
    BY <2>2 DEF Inv, Placement, Unstarted
  <2>4. Registered' = Registered \cup {c}
    BY <2>1, <2>2, AppendNew DEF Inv, TypeOK, Registered
  <2>5. Arrived' = Arrived /\ Lost' = Lost /\ c \in Arrived
    BY <2>1, <2>2, <2>3 DEF Arrived, Lost
  <2>6. CASE GetIpThrows(c)
    <3>1. alive' = FALSE /\ close_callback_' = close_callback_
      BY <1>3, <2>6 DEF HandleAccept, start, start_accept
    <3>2. Gone' = Gone
      BY <2>3, <2>4, <3>1 DEF Gone
    <3>3. stream[c] = "reset"
      BY <2>6 DEF GetIpThrows
    <3> HIDE DEF c
    <3> QED  BY <2>1, <2>2, <3>1, <3>2, <3>3, DieStep
  <2>7. CASE ~GetIpThrows(c)
    <3>1. alive' = alive /\ close_callback_' = [close_callback_ EXCEPT ![c] = TRUE]
      BY <1>3, <2>7 DEF HandleAccept, start, start_accept
    <3> HIDE DEF c
    <3>2. Gone' = Gone /\ c \notin Gone
      BY <2>2, <2>3, <2>4, <3>1 DEF Gone, Inv, TypeOK
    <3>3. Members = Registered /\ Members' = Registered \cup {c}
      BY <2>1, <2>4, <3>1 DEF Members
    <3>4. Count' = Count + 1
      BY <2>1, <3>1 DEF Count
    <3>5. Registry!Admit(c)
      BY <2>1, <2>3, <2>5, <3>1, <3>2, <3>3, <3>4
         DEF Registry!Admit, Arrived, Gone, Members, Count
    <3> QED  BY <2>2, <3>5 DEF Registry!Next
  <2> QED  BY <2>6, <2>7
<1>4. ASSUME NEW c \in Conns, HandleReadError(c) PROVE Registry!Next
  <2>1. alive /\ reading[c] = "error" /\ CloseConnection(c) /\ stream' = stream
    BY <1>4 DEF HandleReadError, network
  <2>2. c \in Registered /\ close_callback_[c] /\ c \in Lost
    BY <2>1 DEF Inv, ReadersAreRegistered, RegisteredIsWatched, ReadErrorIsLoss, Lost
  <2>3. Arrived' = Arrived /\ Lost' = Lost /\ close_callback_' = close_callback_
    BY <2>1 DEF Arrived, Lost, CloseConnection
  <2>4. CASE GetIpThrows(c)
    <3>1. ~alive' /\ connections_' = connections_
      BY <2>1, <2>2, <2>4 DEF CloseConnection
    <3>2. Gone' = Gone
      BY <2>3, <3>1 DEF Gone, Registered
    <3> QED  BY <2>1, <2>3, <2>4, <3>1, <3>2, DieStep DEF GetIpThrows
  <2>5. CASE ~GetIpThrows(c)
    <3>1. /\ alive' = alive
          /\ connections_' = Without(connections_, c)
          /\ connection_count_' = connection_count_ - 1
      BY <2>1, <2>2, <2>5 DEF CloseConnection
    <3>2. Registered' = Registered \ {c}
      BY <3>1, WithoutRemoves DEF Registered, Inv, TypeOK, Placement
    <3>3. Gone' = Gone \cup {c}
      BY <2>2, <2>3, <3>2 DEF Gone
    <3>4. Members = Registered /\ Members' = Registered \ {c} /\ Count' = Count - 1
      BY <2>1, <3>1, <3>2 DEF Members, Count
    <3>5. Registry!Remove(c)
      BY <2>1, <2>2, <2>3, <3>1, <3>3, <3>4
         DEF Registry!Remove, Arrived, Gone, Members, Count
    <3> QED  BY <3>5 DEF Registry!Next
  <2> QED  BY <2>4, <2>5
<1>5. ASSUME NEW c \in Conns, HandleWriteError(c)
      PROVE  Registry!Next \/ UNCHANGED (Registry!vars)
  <2>1. alive /\ stream[c] = "reset" /\ CloseConnection(c) /\ stream' = stream
    BY <1>5 DEF HandleWriteError, network
  <2>2. GetIpThrows(c)
    BY <2>1 DEF GetIpThrows
  <2>3. CASE close_callback_[c]
    <3>1. ~alive' /\ connections_' = connections_ /\ close_callback_' = close_callback_
      BY <2>1, <2>2, <2>3 DEF CloseConnection
    <3>2. Gone' = Gone
      BY <3>1 DEF Gone, Registered
    <3> QED  BY <2>1, <3>1, <3>2, DieStep
  <2>4. CASE ~close_callback_[c]
    <3>1. UNCHANGED <<stream, registry>>
      BY <2>1, <2>4 DEF CloseConnection, registry
    <3> QED  BY <3>1, Stutter
  <2> QED  BY <2>3, <2>4
<1>6. ASSUME UNCHANGED <<stream, registry>> PROVE UNCHANGED (Registry!vars)
  BY <1>6, Stutter
<1> QED
  BY <1>1, <1>2, <1>3, <1>4, <1>5, <1>6
     DEF Next, Environment, Handlers, AcceptStep, ReadStep, WriteStep,
         Registry!Next, PeerSends, ReceiveData,
         ReceiveFails, AcceptFails, HandleAcceptError, start_accept, start, HandleRead, HandleWrite,
         vars, network

(* On that platform every behaviour of the server is, step by step, one of *)
(* the abstract registry: nobody is admitted twice, removed before the     *)
(* peer has left, or counted wrongly.                                      *)
THEOREM ServerImplementsRegistry == ResetThrows => (Spec => RegistrySafety)
<1> SUFFICES ASSUME ResetThrows PROVE Spec => RegistrySafety
  OBVIOUS
<1>1. Init => Registry!Init
  BY DEF Init, Registry!Init, Lost, Registered, ToSet
<1>2. Inv /\ ReadErrorIsLoss /\ [Next]_vars => [Registry!Next]_(Registry!vars)
  BY RegistryStep
<1> QED
  BY <1>1, <1>2, Invariance, ReadErrorInvariance, PTL DEF Spec, RegistrySafety
=============================================================================
