--------------------------- MODULE MonitorProofs ---------------------------
(***************************************************************************)
(* Proofs about Monitor, on top of those about TcpServer: for every set of *)
(* connections, every bound and both platforms, with every interleaving of *)
(* the two threads.                                                        *)
(***************************************************************************)
EXTENDS Monitor, TcpServerProofs, FiniteSetTheorems

-----------------------------------------------------------------------------
(* What the steps of the server do to the main thread's knowledge.         *)

Admitted == Registered \cup Callbacks

(* Peers that have left or were let in or let go stay so, only those that  *)
(* have left are let go, and a list that changes shows in one of the two.  *)
LEMMA ServerMovesPeers ==
    ASSUME Inv, ReadErrorIsLoss, Next
    PROVE  /\ Lost \subseteq Lost'
           /\ Admitted \subseteq Admitted'
           /\ Gone \subseteq Gone' /\ Gone' \subseteq Gone \cup Lost
           /\ connections_' \in Seq(Conns)
           /\ connections_' = connections_ \/ Admitted' # Admitted \/ Gone' # Gone
<1> USE DEF Admitted, Gone, Callbacks
<1>1. ASSUME NEW c \in Conns, PeerConnects(c) \/ PeerCloses(c) \/ PeerResets(c)
      PROVE  Lost \subseteq Lost' /\ UNCHANGED <<connections_, close_callback_>>
  BY <1>1 DEF PeerConnects, PeerCloses, PeerResets, Lost, registry, Inv, TypeOK
<1>2. ASSUME HandleAccept
      PROVE  /\ Lost' = Lost /\ Admitted \subseteq Admitted' /\ Admitted' # Admitted
             /\ Gone' = Gone /\ connections_' \in Seq(Conns)
  <2>1. /\ stream' = stream
        /\ connections_' = Append(connections_, Head(backlog))
        /\ Head(backlog) \in Conns /\ Head(backlog) \in ToSet(backlog)
        /\ \/ close_callback_' = close_callback_
           \/ close_callback_' = [close_callback_ EXCEPT ![Head(backlog)] = TRUE]
    BY <1>2, TailRemovesHead DEF HandleAccept, Inv, TypeOK
  <2>2. /\ connections_' \in Seq(Conns)
        /\ Registered' = Registered \cup {Head(backlog)}
    BY <2>1, AppendNew DEF Inv, TypeOK, Registered
  <2>3. ~close_callback_[Head(backlog)] /\ Head(backlog) \notin Registered
    BY <2>1 DEF Inv, Placement, Unstarted
  <2>4. Lost' = Lost
    BY <2>1 DEF Lost
  <2>5. Callbacks \subseteq Callbacks' /\ Callbacks' \subseteq Callbacks \cup {Head(backlog)}
    BY <2>1 DEF Inv, TypeOK
  <2> QED  BY <2>2, <2>3, <2>4, <2>5
<1>3. ASSUME NEW c \in Conns, CloseConnection(c), alive, stream' = stream, c \in Lost
      PROVE  /\ Lost' = Lost /\ Admitted' = Admitted
             /\ Gone \subseteq Gone' /\ Gone' \subseteq Gone \cup Lost
             /\ connections_' \in Seq(Conns)
             /\ connections_' = connections_ \/ Gone' # Gone
  <2>1. Lost' = Lost /\ Callbacks' = Callbacks
    BY <1>3, CloseKeepsList DEF Lost
  <2>2. CASE connections_' = connections_
    <3>1. Registered' = Registered
      BY <2>2 DEF Registered
    <3> QED  BY <2>1, <2>2, <3>1 DEF Inv, TypeOK
  <2>3. CASE connections_' # connections_
    <3>1. close_callback_[c] /\ c \in Registered /\ connections_' = Without(connections_, c)
      BY <1>3, <2>3 DEF CloseConnection, Without, Registered
    <3>2. Registered' = Registered \ {c} /\ connections_' \in Seq(Conns)
      BY <3>1, WithoutRemoves DEF Registered, Inv, TypeOK, Placement
    <3> QED  BY <1>3, <2>1, <3>1, <3>2
  <2> QED  BY <2>2, <2>3
<1>4. ASSUME NEW c \in Conns, HandleReadError(c) \/ HandleWriteError(c)
      PROVE  CloseConnection(c) /\ alive /\ stream' = stream /\ c \in Lost
  BY <1>4 DEF HandleReadError, HandleWriteError, network, ReadErrorIsLoss, Lost
<1>5. ASSUME UNCHANGED <<stream, connections_, close_callback_>>
      PROVE  Lost' = Lost /\ UNCHANGED <<connections_, close_callback_>>
  BY <1>5 DEF Lost
<1>6. ASSUME Lost \subseteq Lost', UNCHANGED <<connections_, close_callback_>>
      PROVE  /\ Admitted' = Admitted /\ Gone' = Gone /\ connections_' \in Seq(Conns)
  BY <1>6 DEF Registered, Inv, TypeOK
<1>7. CASE UNCHANGED <<stream, connections_, close_callback_>>
  BY <1>5, <1>6, <1>7
<1>8. CASE \E c \in Conns : PeerConnects(c) \/ PeerCloses(c) \/ PeerResets(c)
  BY <1>1, <1>6, <1>8
<1>9. CASE \E c \in Conns : HandleReadError(c) \/ HandleWriteError(c)
  BY <1>3, <1>4, <1>9
<1>10. CASE HandleAccept
  BY <1>2, <1>10
<1> HIDE DEF Admitted, Gone, Callbacks
<1> QED
  BY <1>7, <1>8, <1>9, <1>10
     DEF Next, Environment, Handlers, AcceptStep, ReadStep, WriteStep, PeerSends, ReceiveData,
         ReceiveFails, AcceptFails, HandleAcceptError, start_accept, HandleRead, HandleWrite,
         network, registry

(* The process may die in the main thread: what the server's invariant     *)
(* says of a living one is not affected.                                   *)
OnlyDies ==
    /\ alive' \in BOOLEAN /\ (alive' => alive)
    /\ UNCHANGED <<network, accept, reading, writing, received, close_callback_,
                   connections_, connection_count_>>

LEMMA DeathKeepsInv == Inv /\ ReadErrorIsLoss /\ OnlyDies => Inv' /\ ReadErrorIsLoss'
<1> SUFFICES ASSUME Inv, ReadErrorIsLoss, OnlyDies PROVE Inv' /\ ReadErrorIsLoss'
  OBVIOUS
<1>1. Registered' = Registered
  BY DEF OnlyDies, Registered
<1>2. TypeOK' /\ UnreadWasSent' /\ ReadErrorIsLoss'
  BY DEF OnlyDies, network, Inv, TypeOK, UnreadWasSent, ReadErrorIsLoss
<1>3. Placement'
  BY <1>1 DEF OnlyDies, network, Inv, Placement, Unstarted
<1>4. ReadersAreRegistered' /\ RegisteredIsWatched' /\ CountIsExact' /\ CountNeverAhead' /\ KeepsListening'
  BY <1>1 DEF OnlyDies, network, Inv, ReadersAreRegistered, RegisteredIsWatched, CountIsExact,
     CountNeverAhead, KeepsListening
<1> QED  BY <1>2, <1>3, <1>4 DEF Inv

-----------------------------------------------------------------------------
(* What a copy may hold.                                                   *)

LEMMA KeysFinite == IsFiniteSet(Keys)
BY ConnsAssumption, FS_AddElement DEF Keys

(* A copy is a list of pointers, each of which was in memory meanwhile. *)
LEMMA CopyFromMemory ==
    ASSUME NEW values \in SUBSET Seq(Keys), NEW copy \in CopiesOf(values)
    PROVE  /\ copy \in Seq(Keys)
           /\ ToSet(copy) \subseteq Keys
           /\ \A k \in ToSet(copy) : \E v \in values : k \in ToSet(v)
<1>1. PICK s \in values :
         /\ copy \in [DOMAIN s -> Keys]
         /\ \A i \in DOMAIN s : \E v \in values : i \in DOMAIN v /\ copy[i] = v[i]
  BY DEF CopiesOf
<1>2. s \in Seq(Keys) /\ Len(s) \in Nat /\ DOMAIN s = 1..Len(s)
  BY LenProperties
<1>3. copy \in Seq(Keys)
  BY <1>1, <1>2, SeqDef
<1>4. ToSet(copy) = {copy[i] : i \in DOMAIN s}
  BY <1>1 DEF ToSet
<1> QED  BY <1>1, <1>3, <1>4 DEF ToSet

(* Nothing is torn in a copy that no change has disturbed. *)
LEMMA UndisturbedCopy ==
    ASSUME NEW s \in Seq(Keys), NEW copy \in CopiesOf({s})
    PROVE  copy = s
<1>1. /\ copy \in [DOMAIN s -> Keys]
      /\ \A i \in DOMAIN s : copy[i] = s[i]
  BY DEF CopiesOf
<1>2. s \in [DOMAIN s -> Keys]
  BY LenProperties, ElementOfSeq
<1> QED  BY <1>1, <1>2

(* What a change leaves in memory are pointers of the list, or null. *)
LEMMA MovedFromList ==
    ASSUME NEW t, connections_ \in Seq(Conns)
    PROVE  /\ MovedFrom(t) \in Seq(Keys)
           /\ ToSet(MovedFrom(t)) \subseteq Registered \cup {NullConn}
           /\ t = connections_ => MovedFrom(t) = connections_
<1>1. Len(connections_) \in Nat /\ DOMAIN connections_ = 1..Len(connections_)
  BY LenProperties
<1>2. \A i \in DOMAIN connections_ : connections_[i] \in Conns
  BY ElementOfSeq, <1>1
<1>3. /\ DOMAIN MovedFrom(t) = DOMAIN connections_
      /\ \A i \in DOMAIN connections_ : MovedFrom(t)[i] \in {connections_[i], NullConn}
  BY DEF MovedFrom
<1>4. MovedFrom(t) \in Seq(Keys)
  <2>1. MovedFrom(t) \in [1..Len(connections_) -> Keys]
    BY <1>1, <1>2 DEF MovedFrom, Keys
  <2> QED  BY <1>1, <2>1, SeqDef
<1>5. ToSet(MovedFrom(t)) \subseteq Registered \cup {NullConn}
  BY <1>3 DEF ToSet, Registered
<1>6. ASSUME t = connections_ PROVE MovedFrom(t) = connections_
  <2>1. \A j \in DOMAIN connections_ : connections_[j] \in ToSet(connections_)
    BY DEF ToSet
  <2>2. ASSUME NEW i \in DOMAIN connections_, NEW j \in 1..(i - 1) PROVE j \in DOMAIN connections_
    BY <1>1
  <2>3. \A i \in DOMAIN connections_ : MovedFrom(t)[i] = connections_[i]
    BY <1>1, <1>6, <2>1, <2>2 DEF MovedFrom
  <2>4. MovedFrom(t) = [i \in DOMAIN connections_ |-> MovedFrom(t)[i]]
    BY <1>3 DEF MovedFrom
  <2>5. connections_ = [i \in DOMAIN connections_ |-> connections_[i]]
    BY <1>1, LenProperties
  <2> QED  BY <2>3, <2>4, <2>5
<1> QED  BY <1>4, <1>5, <1>6

-----------------------------------------------------------------------------
(***************************************************************************)
(* The inductive invariant: the invariant of the server, the order in      *)
(* which the program ends, and what the frame may conclude from a copy of  *)
(* the list, however torn: a connection in a copy was admitted, and so was *)
(* one that has a window; a copy is disturbed unless the list is still the *)
(* only value its memory has had.                                          *)
(***************************************************************************)
Ending ==
    /\ stopped <=> phase \in {"joining", "exited"}
    /\ phase = "exited" => thread = "finished"
    /\ ServesUntilStopped

Copies ==
    /\ WindowsOf \subseteq Admitted \cup {NullConn}
    /\ \A s \in seen : ToSet(s) \subseteq Admitted \cup {NullConn}
    /\ seen = {} \/ connections_ \in seen
    /\ seen # {} <=> phase \in {"updating", "copying"}

MonitorInv ==
    /\ Inv /\ ReadErrorIsLoss
    /\ MonitorTypeOK /\ InstanceCountExact
    /\ Ending /\ Copies

LEMMA WindowsFinite ==
    IsFiniteSet(WindowsOf) /\ Cardinality(WindowsOf) \in Nat
<1>1. WindowsOf \subseteq Keys
  BY DEF WindowsOf
<1> QED  BY <1>1, KeysFinite, FS_Subset, FS_CardinalityType

LEMMA MonitorInitInv == MonitorInit => MonitorInv
<1> SUFFICES ASSUME MonitorInit PROVE MonitorInv
  OBVIOUS
<1>1. Inv
  BY InitInv DEF MonitorInit
<1>2. ReadErrorIsLoss
  BY DEF MonitorInit, Init, ReadErrorIsLoss
<1>3. WindowsOf = {}
  BY DEF MonitorInit, WindowsOf
<1>4. InstanceCountExact
  BY <1>3, FS_EmptySet DEF MonitorInit, InstanceCountExact
<1>5. MonitorTypeOK
  <2>1. << >> \in Seq(Keys) /\ TypeOK
    BY <1>1 DEF Inv
  <2> QED  BY <2>1 DEF MonitorInit, MonitorTypeOK
<1>6. Ending
  BY DEF MonitorInit, Ending, ServesUntilStopped
<1>7. Copies
  BY <1>3 DEF MonitorInit, Copies
<1> QED  BY <1>1, <1>2, <1>4, <1>5, <1>6, <1>7 DEF MonitorInv

(* A step of the server or of the network. *)
LEMMA ServerStep ==
    ASSUME MonitorInv, Next, Observe \/ (seen' = seen /\ connections_' = connections_),
           UNCHANGED <<serverThread, done, phase, rendering, windows>>
    PROVE  MonitorInv'
<1>1. Inv' /\ ReadErrorIsLoss'
  BY InvStep, ReadErrorStep DEF MonitorInv
<1>2. /\ Admitted \subseteq Admitted'
      /\ connections_ \in Seq(Conns) /\ connections_' \in Seq(Conns)
  BY ServerMovesPeers DEF MonitorInv, Inv, TypeOK
<1>3. /\ seen' \subseteq seen \cup {connections_', MovedFrom(connections_')}
      /\ seen = {} <=> seen' = {}
      /\ seen' = {} \/ connections_' \in seen'
  BY DEF Observe, MonitorInv, Copies
<1>4. /\ connections_' \in Seq(Keys)
      /\ MovedFrom(connections_') \in Seq(Keys)
      /\ ToSet(MovedFrom(connections_')) \subseteq Admitted \cup {NullConn}
  BY <1>2, MovedFromList, SeqMonotonic DEF Keys, Admitted
<1>5. MonitorTypeOK'
  BY <1>1, <1>3, <1>4 DEF MonitorInv, MonitorTypeOK, Inv, serverThread, windows
<1>6. WindowsOf' = WindowsOf
  BY DEF WindowsOf, windows
<1>7. InstanceCountExact' /\ Ending'
  BY <1>6 DEF MonitorInv, InstanceCountExact, Ending, ServesUntilStopped, windows, serverThread
<1>8. ASSUME NEW s \in seen' PROVE ToSet(s) \subseteq Admitted' \cup {NullConn}
  <2>1. CASE s \in seen
    BY <1>2, <2>1 DEF MonitorInv, Copies
  <2>2. CASE s = connections_'
    BY <2>2 DEF Admitted, Registered
  <2>3. CASE s = MovedFrom(connections_')
    BY <1>2, <1>4, <2>3
  <2> QED  BY <1>3, <2>1, <2>2, <2>3
<1>9. Copies'
  BY <1>2, <1>3, <1>6, <1>8 DEF MonitorInv, Copies
<1> QED  BY <1>1, <1>5, <1>7, <1>9 DEF MonitorInv

(* update_plot_windows keeps the count exact. *)
LEMMA UpdateKeepsCount ==
    ASSUME MonitorTypeOK, InstanceCountExact, NEW s \in CopiesOf(seen),
           plotWindowsMap' = [k \in Keys |-> EntryAfter(s, k)],
           instance_count' = InstancesAfter(s)
    PROVE  /\ plotWindowsMap' \in [Keys -> {"absent", "null", "window"}]
           /\ WindowsOf' = (WindowsOf \ Stale(s)) \cup Added(s)
           /\ Added(s) \subseteq Keys \cap ToSet(s)
           /\ InstanceCountExact'
<1>1. ToSet(s) \subseteq Keys
  BY CopyFromMemory DEF MonitorTypeOK
<1>2. /\ Added(s) \subseteq Keys \cap ToSet(s)
      /\ Added(s) \cap WindowsOf = {}
      /\ Added(s) \cap Stale(s) = {}
  BY <1>1 DEF Added, Stale, WindowsOf
<1>3. \A k \in Keys : EntryAfter(s, k) \in {"absent", "null", "window"}
  BY DEF EntryAfter, MonitorTypeOK
<1>4. \A k \in Keys : EntryAfter(s, k) = "window" <=> k \in (WindowsOf \ Stale(s)) \cup Added(s)
  BY <1>2 DEF EntryAfter, WindowsOf
<1>5. WindowsOf' = (WindowsOf \ Stale(s)) \cup Added(s)
  <2>1. WindowsOf' = {k \in Keys : EntryAfter(s, k) = "window"}
    BY DEF WindowsOf
  <2>2. WindowsOf \subseteq Keys
    BY DEF WindowsOf
  <2> QED  BY <2>1, <2>2, <1>2, <1>4
<1>6. IsFiniteSet(Added(s)) /\ Cardinality(Added(s)) \in Nat
  BY <1>2, KeysFinite, FS_Subset, FS_CardinalityType
<1>7. /\ IsFiniteSet(WindowsOf \ Stale(s))
      /\ Cardinality(WindowsOf \ Stale(s)) = Cardinality(WindowsOf) - Cardinality(WindowsOf \cap Stale(s))
  BY WindowsFinite, FS_Difference
<1>8. Cardinality(WindowsOf') = Cardinality(WindowsOf \ Stale(s)) + Cardinality(Added(s))
  <2>1. (WindowsOf \ Stale(s)) \cap Added(s) = {}
    BY <1>2
  <2>2. Cardinality(WindowsOf') = Cardinality(WindowsOf \ Stale(s)) + Cardinality(Added(s))
                                     - Cardinality((WindowsOf \ Stale(s)) \cap Added(s))
    BY <1>5, <1>6, <1>7, FS_Union
  <2>3. Cardinality(WindowsOf \ Stale(s)) \in Nat
    BY <1>7, FS_CardinalityType
  <2> QED  BY <2>1, <2>2, <2>3, <1>6, FS_EmptySet
<1>9. Cardinality(WindowsOf \cap Stale(s)) \in Nat
  BY WindowsFinite, FS_Intersection, FS_CardinalityType
<1>10. InstanceCountExact'
  BY <1>6, <1>7, <1>8, <1>9, WindowsFinite DEF InstanceCountExact, InstancesAfter
<1> QED  BY <1>2, <1>3, <1>5, <1>10

(* A step that leaves windows and the list alone. *)
LEMMA RestKeepsCopies ==
    ASSUME MonitorInv, UNCHANGED <<vars, plotWindowsMap, instance_count>>,
           \/ seen' = seen /\ (phase' = phase \/ {phase, phase'} \cap {"updating", "copying"} = {})
           \/ seen' = {} /\ phase' \notin {"updating", "copying"}
           \/ seen' = {connections_} /\ phase' \in {"updating", "copying"}
    PROVE  Inv' /\ ReadErrorIsLoss' /\ TypeOK' /\ InstanceCountExact' /\ Copies'
           /\ seen' \subseteq Seq(Keys)
<1>1. /\ network' = network /\ accept' = accept /\ reading' = reading
      /\ writing' = writing /\ received' = received /\ registry' = registry
  BY DEF vars
<1>2. Inv' /\ ReadErrorIsLoss'
  BY InvStep, ReadErrorStep DEF MonitorInv
<1>3. /\ Admitted' = Admitted /\ WindowsOf' = WindowsOf /\ connections_' = connections_
      /\ connections_ \in Seq(Conns)
  BY <1>1 DEF registry, Admitted, Callbacks, Registered, WindowsOf, MonitorInv, Inv, TypeOK
<1>4. InstanceCountExact'
  BY <1>3 DEF MonitorInv, InstanceCountExact
<1>5. ToSet(connections_) \subseteq Admitted
  BY DEF Admitted, Registered
<1>6. Copies'
  BY <1>3, <1>5 DEF MonitorInv, Copies
<1>7. connections_ \in Seq(Keys)
  BY <1>3, SeqMonotonic DEF Keys
<1> QED  BY <1>2, <1>4, <1>6, <1>7 DEF MonitorInv, MonitorTypeOK, Inv, TypeOK

LEMMA MonitorStep == MonitorInv /\ [MonitorNext]_monitorVars => MonitorInv'
<1> SUFFICES ASSUME MonitorInv, [MonitorNext]_monitorVars PROVE MonitorInv'
  OBVIOUS
<1>1. ASSUME Peers PROVE MonitorInv'
  <2>1. Next /\ connections_' = connections_ /\ UNCHANGED <<serverThread, mainThread>>
    BY <1>1 DEF Peers, Next, Environment, PeerConnects, PeerSends, PeerCloses, PeerResets, registry
  <2> QED  BY <2>1, ServerStep DEF mainThread
<1>2. ASSUME Serve(Handlers) PROVE MonitorInv'
  BY <1>2, ServerStep DEF Serve, Next
<1>3. ASSUME Resolve PROVE MonitorInv'
  <2>1. /\ UNCHANGED <<vars, mainThread, stopped>>
        /\ thread = "resolving" /\ thread' = "serving"
    BY <1>3 DEF Resolve
  <2>2. Inv' /\ ReadErrorIsLoss' /\ TypeOK' /\ InstanceCountExact' /\ Copies'
    BY <2>1, RestKeepsCopies DEF mainThread, windows
  <2>3. Ending'
    BY <2>1 DEF MonitorInv, Ending, ServesUntilStopped, mainThread
  <2>4. MonitorTypeOK'
    BY <2>1, <2>2 DEF MonitorInv, MonitorTypeOK, mainThread, windows
  <2> QED  BY <2>2, <2>3, <2>4 DEF MonitorInv
<1>4. ASSUME RunReturns PROVE MonitorInv'
  <2>1. /\ UNCHANGED <<vars, mainThread, stopped>>
        /\ thread = "serving" /\ thread' = "finished"
        /\ stopped
    BY <1>4 DEF RunReturns, MonitorInv, Inv, KeepsListening
  <2>2. Inv' /\ ReadErrorIsLoss' /\ TypeOK' /\ InstanceCountExact' /\ Copies'
    BY <2>1, RestKeepsCopies DEF mainThread, windows
  <2>3. Ending'
    BY <2>1 DEF MonitorInv, Ending, ServesUntilStopped, mainThread
  <2>4. MonitorTypeOK'
    BY <2>1, <2>2 DEF MonitorInv, MonitorTypeOK, mainThread, windows
  <2> QED  BY <2>2, <2>3, <2>4 DEF MonitorInv
<1>5. ASSUME NEW closes \in BOOLEAN, BeginFrame(closes) PROVE MonitorInv'
  <2>1. /\ UNCHANGED <<vars, thread, rendering, windows>>
        /\ phase = "frame" /\ done' \in BOOLEAN
        /\ \/ phase' = "updating" /\ stopped' = stopped /\ seen' = {connections_}
           \/ phase' = "joining" /\ stopped' = TRUE /\ seen' = {}
           \/ phase' = "frame" /\ stopped' = FALSE /\ seen' = {}
    BY <1>5 DEF BeginFrame, NextFrame, MonitorInv, MonitorTypeOK, Copies
  <2>2. /\ Inv' /\ ReadErrorIsLoss' /\ TypeOK' /\ InstanceCountExact' /\ Copies'
        /\ seen' \subseteq Seq(Keys)
    BY <2>1, RestKeepsCopies DEF windows
  <2>3. Ending'
    BY <2>1 DEF MonitorInv, Ending, ServesUntilStopped
  <2>4. MonitorTypeOK'
    BY <2>1, <2>2 DEF MonitorInv, MonitorTypeOK, windows
  <2> QED  BY <2>2, <2>3, <2>4 DEF MonitorInv
<1>6. ASSUME TornCopy PROVE MonitorInv'
  <2>1. OnlyDies /\ UNCHANGED <<serverThread, mainThread>>
    BY <1>6 DEF TornCopy, OnlyDies
  <2>2. Inv' /\ ReadErrorIsLoss'
    BY <2>1, DeathKeepsInv DEF MonitorInv
  <2>3. Admitted' = Admitted /\ WindowsOf' = WindowsOf
    BY <2>1 DEF OnlyDies, Admitted, Callbacks, Registered, WindowsOf, mainThread, windows
  <2>4. InstanceCountExact' /\ Ending' /\ Copies'
    BY <2>1, <2>3 DEF MonitorInv, InstanceCountExact, Ending, ServesUntilStopped, Copies,
       OnlyDies, serverThread, mainThread, windows
  <2>5. MonitorTypeOK'
    BY <2>1, <2>2 DEF MonitorInv, MonitorTypeOK, Inv, serverThread, mainThread, windows
  <2> QED  BY <2>2, <2>4, <2>5 DEF MonitorInv
<1>7. ASSUME UpdatePlotWindows PROVE MonitorInv'
  <2>1. PICK s \in CopiesOf(seen) : /\ plotWindowsMap' = [k \in Keys |-> EntryAfter(s, k)]
                                    /\ instance_count' = InstancesAfter(s)
    BY <1>7 DEF UpdatePlotWindows
  <2>2. /\ UNCHANGED <<vars, serverThread, done, rendering, plotted>>
        /\ phase = "updating" /\ phase' = "copying" /\ seen' = {connections_}
    BY <1>7 DEF UpdatePlotWindows
  <2>3. /\ plotWindowsMap' \in [Keys -> {"absent", "null", "window"}]
        /\ WindowsOf' = (WindowsOf \ Stale(s)) \cup Added(s)
        /\ Added(s) \subseteq Keys \cap ToSet(s)
        /\ InstanceCountExact'
    BY <2>1, UpdateKeepsCount DEF MonitorInv
  <2>4. Inv' /\ ReadErrorIsLoss'
    BY <2>2, InvStep, ReadErrorStep DEF MonitorInv
  <2>5. instance_count' \in Nat
    <3>1. WindowsOf' \subseteq Keys
      BY <2>3 DEF WindowsOf
    <3>2. Cardinality(WindowsOf') \in Nat
      BY <3>1, KeysFinite, FS_Subset, FS_CardinalityType
    <3> QED  BY <2>3, <3>2 DEF InstanceCountExact
  <2>10. connections_ \in Seq(Keys)
    BY SeqMonotonic DEF MonitorInv, Inv, TypeOK, Keys
  <2>6. MonitorTypeOK'
    BY <2>2, <2>3, <2>4, <2>5, <2>10 DEF MonitorInv, MonitorTypeOK, serverThread, Inv, TypeOK, vars, registry
  <2>7. Ending'
    BY <2>2 DEF MonitorInv, Ending, ServesUntilStopped, serverThread
  <2>8. Admitted' = Admitted /\ connections_' = connections_
    BY <2>2 DEF vars, registry, Admitted, Callbacks, Registered
  <2>9. Copies'
    <3>1. ToSet(s) \subseteq Admitted \cup {NullConn}
      BY CopyFromMemory DEF MonitorInv, MonitorTypeOK, Copies
    <3>2. WindowsOf' \subseteq Admitted \cup {NullConn}
      BY <2>3, <3>1 DEF MonitorInv, Copies
    <3>3. ToSet(connections_) \subseteq Admitted
      BY DEF Admitted, Registered
    <3> QED  BY <2>2, <2>8, <3>2, <3>3 DEF Copies
  <2> QED  BY <2>3, <2>4, <2>6, <2>7, <2>9 DEF MonitorInv
<1>8. ASSUME BeginRendering PROVE MonitorInv'
  <2>1. /\ UNCHANGED <<vars, serverThread, done, windows>>
        /\ rendering' \in CopiesOf(seen) /\ seen' = {}
        /\ phase = "copying" /\ phase' = "rendering"
    BY <1>8 DEF BeginRendering
  <2>2. Inv' /\ ReadErrorIsLoss' /\ TypeOK' /\ InstanceCountExact' /\ Copies'
    BY <2>1, RestKeepsCopies DEF windows
  <2>3. Ending'
    BY <2>1 DEF MonitorInv, Ending, ServesUntilStopped, serverThread
  <2>5. rendering' \in Seq(Keys)
    BY <2>1, CopyFromMemory DEF MonitorInv, MonitorTypeOK
  <2>4. MonitorTypeOK'
    BY <2>1, <2>2, <2>5 DEF MonitorInv, MonitorTypeOK, windows, serverThread
  <2> QED  BY <2>2, <2>3, <2>4 DEF MonitorInv
<1>9. ASSUME RenderOne PROVE MonitorInv'
  <2>1. /\ UNCHANGED <<network, accept, reading, writing, received, close_callback_,
                       connections_, connection_count_, serverThread>>
        /\ UNCHANGED <<done, phase, seen, instance_count>>
        /\ alive /\ phase = "rendering" /\ rendering # << >>
        /\ rendering' = Tail(rendering)
    BY <1>9 DEF RenderOne, Unrendered
  <2>2. Head(rendering) \in Keys /\ Tail(rendering) \in Seq(Keys)
    BY <2>1, TailRemovesHead DEF MonitorInv, MonitorTypeOK
  <2>3. PICK entry \in {"absent", "null", "window"} :
           /\ plotWindowsMap' = [plotWindowsMap EXCEPT ![Head(rendering)] = entry]
           /\ entry = "window" <=> plotWindowsMap[Head(rendering)] = "window"
    BY <1>9, <2>2 DEF RenderOne, MonitorInv, MonitorTypeOK
  <2>4. alive' \in BOOLEAN
    BY <1>9, <2>2 DEF RenderOne, MonitorInv, Inv, TypeOK
  <2>5. plotted' \in [Conns -> BOOLEAN]
    BY <1>9, <2>2, <2>4 DEF RenderOne, MonitorInv, MonitorTypeOK, Inv, TypeOK
  <2>6. Inv' /\ ReadErrorIsLoss'
    BY <2>1, <2>4, DeathKeepsInv DEF OnlyDies, MonitorInv
  <2>7. WindowsOf' = WindowsOf
    BY <2>2, <2>3 DEF WindowsOf, MonitorInv, MonitorTypeOK
  <2>8. Admitted' = Admitted
    BY <2>1 DEF Admitted, Callbacks, Registered
  <2>9. InstanceCountExact' /\ Copies'
    BY <2>1, <2>7, <2>8 DEF MonitorInv, InstanceCountExact, Copies
  <2>10. Ending'
    BY <2>1 DEF MonitorInv, Ending, ServesUntilStopped, serverThread
  <2>11. MonitorTypeOK'
    BY <2>1, <2>2, <2>3, <2>5, <2>6 DEF MonitorInv, MonitorTypeOK, Inv, serverThread
  <2> QED  BY <2>6, <2>9, <2>10, <2>11 DEF MonitorInv
<1>10. ASSUME EndFrame PROVE MonitorInv'
  <2>1. /\ UNCHANGED <<vars, thread, done, seen, rendering, windows>>
        /\ phase = "rendering"
        /\ \/ phase' = "joining" /\ stopped' = TRUE
           \/ phase' = "frame" /\ stopped' = FALSE
    BY <1>10 DEF EndFrame, NextFrame, MonitorInv, MonitorTypeOK
  <2>2. Inv' /\ ReadErrorIsLoss' /\ TypeOK' /\ InstanceCountExact' /\ Copies'
    BY <2>1, RestKeepsCopies DEF windows
  <2>3. Ending'
    BY <2>1 DEF MonitorInv, Ending, ServesUntilStopped
  <2>4. MonitorTypeOK'
    BY <2>1, <2>2 DEF MonitorInv, MonitorTypeOK, windows
  <2> QED  BY <2>2, <2>3, <2>4 DEF MonitorInv
<1>11. ASSUME Exit PROVE MonitorInv'
  <2>1. /\ UNCHANGED <<vars, serverThread, done, seen, rendering, plotted>>
        /\ phase = "joining" /\ thread = "finished" /\ phase' = "exited"
        /\ plotWindowsMap' = [k \in Keys |-> "absent"]
        /\ instance_count' = instance_count - Cardinality(WindowsOf)
    BY <1>11 DEF Exit
  <2>2. WindowsOf' = {}
    BY <2>1 DEF WindowsOf
  <2>3. instance_count' = 0
    BY <2>1, WindowsFinite DEF MonitorInv, InstanceCountExact
  <2>4. InstanceCountExact'
    BY <2>2, <2>3, FS_EmptySet DEF InstanceCountExact
  <2>5. Inv' /\ ReadErrorIsLoss'
    BY <2>1, InvStep, ReadErrorStep DEF MonitorInv
  <2>6. Admitted' = Admitted /\ connections_' = connections_
    BY <2>1 DEF vars, registry, Admitted, Callbacks, Registered
  <2>7. Copies'
    BY <2>1, <2>2, <2>6 DEF MonitorInv, Copies
  <2>8. Ending'
    BY <2>1 DEF MonitorInv, Ending, ServesUntilStopped, serverThread
  <2>9. MonitorTypeOK'
    BY <2>1, <2>3, <2>5 DEF MonitorInv, MonitorTypeOK, Inv, serverThread
  <2> QED  BY <2>4, <2>5, <2>7, <2>8, <2>9 DEF MonitorInv
<1>12. ASSUME UNCHANGED monitorVars PROVE MonitorInv'
  <2>1. UNCHANGED <<vars, serverThread, mainThread>>
    BY <1>12 DEF monitorVars
  <2>2. Inv' /\ ReadErrorIsLoss' /\ TypeOK' /\ InstanceCountExact' /\ Copies'
    BY <2>1, RestKeepsCopies DEF mainThread, windows
  <2>3. Ending'
    BY <2>1 DEF MonitorInv, Ending, ServesUntilStopped, mainThread, serverThread
  <2>4. MonitorTypeOK'
    BY <2>1, <2>2 DEF MonitorInv, MonitorTypeOK, mainThread, windows, serverThread
  <2> QED  BY <2>2, <2>3, <2>4 DEF MonitorInv
<1> QED
  BY <1>1, <1>2, <1>3, <1>4, <1>5, <1>6, <1>7, <1>8, <1>9, <1>10, <1>11, <1>12
     DEF MonitorNext, MainThread, UserCloses

(* MonitorInv holds in every reachable state. *)
THEOREM MonitorInvariance == MonitorSpec => []MonitorInv
<1> QED  BY MonitorInitInv, MonitorStep, PTL DEF MonitorSpec

(* Every variable of both threads keeps its type; above all, the number of *)
(* windows never goes below zero.                                          *)
THEOREM MonitorTypeCorrect == MonitorSpec => []MonitorTypeOK
<1>1. MonitorInv => MonitorTypeOK
  BY DEF MonitorInv
<1> QED  BY <1>1, MonitorInvariance, PTL

(* instance_count is the number of entries of the map that hold a window,  *)
(* whatever the copies of the list were, torn ones included: the window of *)
(* the null key counts, null entries do not.                               *)
THEOREM InstancesCounted == MonitorSpec => []InstanceCountExact
<1>1. MonitorInv => InstanceCountExact
  BY DEF MonitorInv
<1> QED  BY <1>1, MonitorInvariance, PTL

(* The server thread does not end before it is told to. *)
THEOREM ServerServes == MonitorSpec => []ServesUntilStopped
<1>1. MonitorInv => ServesUntilStopped
  BY DEF MonitorInv, Ending
<1> QED  BY <1>1, MonitorInvariance, PTL

(* The counter never exceeds the list in the whole program, either. *)
THEOREM MonitorNeverAhead == MonitorSpec => []CountNeverAhead
<1>1. MonitorInv => CountNeverAhead
  BY DEF MonitorInv, Inv
<1> QED  BY <1>1, MonitorInvariance, PTL

-----------------------------------------------------------------------------
(* Action properties.                                                      *)

(* After main has destroyed its locals nothing of the server runs. *)
THEOREM ThreadJoined == MonitorSpec => ThreadEndsBeforeMain
<1>1. ASSUME MonitorInv, [MonitorNext]_monitorVars, phase = "exited"
      PROVE  UNCHANGED <<registry, thread>>
  <2>1. thread = "finished" /\ ~Disturbed
    BY <1>1 DEF MonitorInv, Ending, Copies, Disturbed
  <2>2. UNCHANGED monitorVars
    BY <1>1, <2>1 DEF MonitorNext, MainThread, UserCloses, Peers, Serve, Resolve, RunReturns, BeginFrame,
       TornCopy, UpdatePlotWindows, BeginRendering, RenderOne, EndFrame, Exit
  <2> QED  BY <2>2 DEF monitorVars, vars, serverThread
<1>2. MonitorInv /\ [MonitorNext]_monitorVars
         => [phase = "exited" => UNCHANGED <<registry, thread>>]_monitorVars
  BY <1>1
<1> QED  BY <1>2, MonitorInvariance, PTL DEF MonitorSpec, ThreadEndsBeforeMain
-----------------------------------------------------------------------------
(***************************************************************************)
(* The display.  The loop is left only when the user has closed the        *)
(* window.                                                                 *)
(***************************************************************************)
EndsAsked == phase \in {"joining", "exited"} => done

LEMMA EndsAskedInvariance == MonitorSpec => []EndsAsked
<1>1. MonitorInit => EndsAsked
  BY DEF MonitorInit, EndsAsked
<1>2. MonitorInv /\ EndsAsked /\ [MonitorNext]_monitorVars => EndsAsked'
  <2> SUFFICES ASSUME MonitorInv, EndsAsked, [MonitorNext]_monitorVars PROVE EndsAsked'
    OBVIOUS
  <2>1. ASSUME NEW closes \in BOOLEAN, BeginFrame(closes) PROVE EndsAsked'
    BY <2>1 DEF BeginFrame, NextFrame, EndsAsked
  <2>2. CASE EndFrame
    BY <2>2 DEF EndFrame, NextFrame, EndsAsked
  <2>3. CASE Exit
    BY <2>3 DEF Exit, EndsAsked
  <2>4. CASE TornCopy \/ UpdatePlotWindows \/ BeginRendering \/ RenderOne
    BY <2>4 DEF TornCopy, UpdatePlotWindows, BeginRendering, RenderOne, EndsAsked, mainThread
  <2>5. CASE Peers \/ Resolve \/ Serve(Handlers) \/ RunReturns \/ UNCHANGED monitorVars
    BY <2>5 DEF Peers, Resolve, Serve, RunReturns, EndsAsked, mainThread, monitorVars
  <2> QED  BY <2>1, <2>2, <2>3, <2>4, <2>5 DEF MonitorNext, MainThread, UserCloses
<1> QED  BY <1>1, <1>2, MonitorInvariance, PTL DEF MonitorSpec

Plotted == {c \in Conns : plotted[c]}

LEMMA DisplayStutters ==
    UNCHANGED <<stream, close_callback_, connections_, Disturbed,
                plotWindowsMap, instance_count, plotted, done, phase = "exited">>
        => UNCHANGED (Display!vars)
BY DEF Display!vars, Display!peers, Display!plots, Lost, Registered, Callbacks, WindowsOf

(* Peers that were let in, have left or were let go stay so, and a look is *)
(* disturbed only when one comes or is let go.                             *)
LEMMA PeersMoveInDisplay ==
    ASSUME MonitorInv, Next, Observe \/ (seen' = seen /\ connections_' = connections_),
           UNCHANGED <<plotWindowsMap, instance_count, plotted, done, phase>>
    PROVE  Display!PeersMove
<1>1. /\ Lost \subseteq Lost'
      /\ Admitted \subseteq Admitted'
      /\ Gone \subseteq Gone' /\ Gone' \subseteq Gone \cup Lost
      /\ connections_ \in Seq(Conns) /\ connections_' \in Seq(Conns)
      /\ connections_' = connections_ \/ Admitted' # Admitted \/ Gone' # Gone
  BY ServerMovesPeers DEF MonitorInv, Inv, TypeOK
<1>2. Lost' \in SUBSET Conns
  BY DEF Lost
<1>3. Admitted' \in SUBSET Conns
  <2>1. TypeOK'
    BY InvStep DEF MonitorInv, Inv
  <2>2. Registered' \subseteq Conns
    BY <2>1, ElementOfSeq, LenProperties DEF TypeOK, Registered, ToSet
  <2> QED  BY <2>2 DEF Admitted, Callbacks
<1>4. Gone' \in SUBSET Admitted'
  BY DEF Gone, Admitted, Callbacks
<1>5. ASSUME connections_' = connections_ PROVE Disturbed' = Disturbed
  <2>1. MovedFrom(connections_') = connections_
    BY <1>1, <1>5, MovedFromList
  <2>2. seen' = seen
    BY <1>5, <2>1 DEF Observe, MonitorInv, Copies
  <2> QED  BY <1>5, <2>2 DEF Disturbed
<1>6. ASSUME Disturbed, connections_' # connections_ PROVE Disturbed'
  <2>1. connections_ \in seen'
    BY <1>6 DEF Observe, Disturbed, MonitorInv, Copies
  <2> QED  BY <1>6, <2>1 DEF Disturbed
<1>7. \/ Disturbed' = Disturbed
      \/ Disturbed' = TRUE /\ (Admitted' # Admitted \/ Gone' # Gone)
  BY <1>1, <1>5, <1>6 DEF Disturbed
<1>8. WindowsOf' = WindowsOf /\ Plotted' = Plotted
  BY DEF WindowsOf, Plotted
<1>9. UNCHANGED <<Display!plots, done, phase = "exited">>
  BY <1>8 DEF Display!plots, Plotted
<1>10. Gone = Callbacks \ Registered /\ Gone' = Callbacks' \ Registered'
  BY DEF Gone, Callbacks
<1> HIDE DEF Lost, WindowsOf, Disturbed, Callbacks, Registered, MonitorInv, Next, Observe
<1> QED
  BY <1>1, <1>2, <1>3, <1>4, <1>7, <1>9, <1>10, Zenon DEF Display!PeersMove, Admitted

(* A frame brings up plots of peers that were let in, and, with a copy     *)
(* that nothing disturbed, takes down those of peers that were let go.     *)
LEMMA UpdatesDisplay ==
    ASSUME MonitorInv, UpdatePlotWindows
    PROVE  Display!Change
<1>1. PICK s \in CopiesOf(seen) : /\ plotWindowsMap' = [k \in Keys |-> EntryAfter(s, k)]
                                  /\ instance_count' = InstancesAfter(s)
  BY DEF UpdatePlotWindows
<1>2. /\ UNCHANGED <<vars, serverThread, done, rendering, plotted>>
      /\ phase = "updating" /\ phase' = "copying" /\ seen' = {connections_}
  BY DEF UpdatePlotWindows
<1>3. /\ WindowsOf' = (WindowsOf \ Stale(s)) \cup Added(s)
      /\ Added(s) \subseteq Keys \cap ToSet(s)
      /\ InstanceCountExact'
  BY <1>1, UpdateKeepsCount DEF MonitorInv
<1>4. UNCHANGED <<stream, close_callback_, connections_>>
  BY <1>2 DEF vars, network, registry
<1>5. ToSet(s) \subseteq Admitted \cup {NullConn}
  BY CopyFromMemory DEF MonitorInv, MonitorTypeOK, Copies
<1>6. WindowsOf' \in SUBSET (WindowsOf \cup Admitted \cup {NullConn})
  BY <1>3, <1>5
<1>7. ASSUME ~Disturbed
      PROVE  NullConn \notin WindowsOf' /\ WindowsOf \ WindowsOf' \subseteq Gone \cup {NullConn}
  <2>1. seen = {connections_}
    BY <1>2, <1>7 DEF Disturbed, MonitorInv, Copies
  <2>2. connections_ \in Seq(Conns) /\ connections_ \in Seq(Keys)
    BY SeqMonotonic DEF MonitorInv, Inv, TypeOK, Keys
  <2>3. s = connections_
    BY <2>1, <2>2, UndisturbedCopy
  <2>4. Registered \subseteq Conns /\ NullConn \notin Registered
    BY RegisteredAreConns, NullConnAssumption DEF MonitorInv
  <2>5. NullConn \notin Added(s) /\ NullConn \notin WindowsOf \ Stale(s)
    BY <1>3, <2>3, <2>4 DEF Stale, WindowsOf, Registered
  <2>6. WindowsOf \cap Stale(s) \subseteq Gone \cup {NullConn}
    <3>1. WindowsOf \cap Stale(s) \cap Registered = {}
      BY <2>3 DEF Stale, Registered
    <3> QED  BY <3>1 DEF MonitorInv, Copies, Admitted, Gone, Callbacks
  <2> QED  BY <1>3, <2>5, <2>6
<1>8. instance_count' = Cardinality(WindowsOf')
  BY <1>3 DEF InstanceCountExact
<1>9. /\ Lost' = Lost /\ Admitted' = Admitted /\ Gone' = Gone /\ Plotted' = Plotted
      /\ done' = done /\ phase # "exited" /\ phase' # "exited"
  BY <1>2, <1>4 DEF Lost, Admitted, Gone, Callbacks, Registered, Plotted
<1>10. Disturbed' = FALSE
  BY <1>2, <1>4 DEF Disturbed
<1>11. Cardinality(WindowsOf') = Display!Cardinality(WindowsOf')
  BY DEF Cardinality, Display!Cardinality
<1> HIDE DEF Lost, WindowsOf, Disturbed
<1> QED
  BY <1>6, <1>7, <1>8, <1>9, <1>10, <1>11, Zenon
     DEF Display!Change, Display!peers, Admitted, Gone, Callbacks, Plotted

(* Data is drawn through the pointer to the window of its peer only. *)
LEMMA RendersInDisplay ==
    ASSUME MonitorInv, RenderOne
    PROVE  (\E c \in Conns : Display!Draw(c)) \/ UNCHANGED (Display!vars)
<1>1. PICK k \in Keys : k = Head(rendering)
  BY TailRemovesHead DEF RenderOne, MonitorInv, MonitorTypeOK
<1>2. /\ UNCHANGED <<network, close_callback_, connections_, instance_count, done, phase, seen>>
      /\ phase = "rendering"
      /\ plotWindowsMap' = [plotWindowsMap EXCEPT ![k] =
            IF plotWindowsMap[k] = "absent" THEN "null" ELSE plotWindowsMap[k]]
  BY <1>1 DEF RenderOne
<1>3. WindowsOf' = WindowsOf
  BY <1>1, <1>2 DEF WindowsOf, MonitorInv, MonitorTypeOK
<1>4. /\ Lost' = Lost /\ Registered' = Registered /\ Callbacks' = Callbacks
      /\ Disturbed' = Disturbed
  BY <1>2 DEF network, Lost, Registered, Callbacks, Disturbed
<1>5. CASE Plotted' = Plotted
  BY <1>2, <1>3, <1>4, <1>5 DEF Display!vars, Display!peers, Display!plots, Plotted
<1>6. CASE Plotted' # Plotted
  <2>1. /\ k \in Conns /\ k \in WindowsOf
        /\ Plotted' = Plotted \cup {k}
    BY <1>1, <1>6 DEF RenderOne, Plotted, WindowsOf, Keys, MonitorInv, MonitorTypeOK
  <2>2. Display!Draw(k)
    BY <1>2, <1>3, <1>4, <2>1 DEF Display!Draw, Display!peers, Plotted
  <2> QED  BY <2>1, <2>2
<1> QED  BY <1>5, <1>6

LEMMA ExitEndsDisplay ==
    ASSUME MonitorInv, EndsAsked, Exit
    PROVE  Display!End
<1>1. /\ UNCHANGED <<vars, done, plotted, seen>>
      /\ phase = "joining" /\ phase' = "exited"
      /\ plotWindowsMap' = [k \in Keys |-> "absent"]
      /\ instance_count' = instance_count - Cardinality(WindowsOf)
  BY DEF Exit
<1>2. WindowsOf' = {}
  BY <1>1 DEF WindowsOf
<1>3. instance_count' = 0
  BY <1>1, WindowsFinite DEF MonitorInv, InstanceCountExact
<1>4. /\ Lost' = Lost /\ Registered' = Registered /\ Callbacks' = Callbacks
      /\ Plotted' = Plotted /\ Disturbed' = Disturbed
  BY <1>1 DEF vars, network, registry, Lost, Registered, Callbacks, Plotted, Disturbed
<1> QED  BY <1>1, <1>2, <1>3, <1>4 DEF EndsAsked, Display!End, Display!peers, Plotted

LEMMA DisplayStep ==
    ASSUME MonitorInv, EndsAsked, [MonitorNext]_monitorVars
    PROVE  [Display!Next]_(Display!vars)
<1>1. ASSUME Peers \/ Serve(Handlers) PROVE Display!Next
  <2>1. /\ Next
        /\ Observe \/ (seen' = seen /\ connections_' = connections_)
        /\ UNCHANGED <<plotWindowsMap, instance_count, plotted, done, phase>>
    BY <1>1 DEF Peers, Serve, Next, mainThread, windows, Environment, PeerConnects, PeerSends,
       PeerCloses, PeerResets, registry
  <2>2. Display!PeersMove
    BY <2>1, PeersMoveInDisplay
  <2> QED  BY <2>2 DEF Display!Next
<1>2. ASSUME NEW closes \in BOOLEAN, BeginFrame(closes)
      PROVE  Display!Next \/ UNCHANGED (Display!vars)
  <2>1. /\ UNCHANGED <<vars, windows>>
        /\ phase # "exited" /\ phase' # "exited"
        /\ done' \in {done, TRUE}
        /\ seen = {} /\ seen' \subseteq {connections_}
    BY <1>2 DEF BeginFrame, NextFrame, MonitorInv, MonitorTypeOK, Copies
  <2>2. UNCHANGED <<stream, close_callback_, connections_, plotWindowsMap, instance_count, plotted>>
    BY <2>1 DEF vars, network, registry, windows
  <2>3. Disturbed' = Disturbed
    BY <2>1, <2>2 DEF Disturbed
  <2>4. CASE done' = done
    BY <2>1, <2>2, <2>3, <2>4, DisplayStutters
  <2>5. CASE done' = TRUE
    <3>1. /\ Lost' = Lost /\ Registered' = Registered /\ Callbacks' = Callbacks
          /\ WindowsOf' = WindowsOf /\ Plotted' = Plotted
      BY <2>2 DEF Lost, Registered, Callbacks, WindowsOf, Plotted
    <3>2. Display!Ask
      BY <2>1, <2>2, <2>3, <2>5, <3>1 DEF Display!Ask, Display!peers, Display!plots, Plotted
    <3> QED  BY <3>2 DEF Display!Next
  <2> QED  BY <2>1, <2>4, <2>5
<1>3. ASSUME BeginRendering PROVE Display!Look
  <2>1. UNCHANGED <<stream, close_callback_, connections_, plotWindowsMap, instance_count,
                    plotted, done, phase = "exited">>
        /\ seen' = {}
    BY <1>3 DEF BeginRendering, vars, network, registry, windows
  <2>2. /\ Lost' = Lost /\ Registered' = Registered /\ Callbacks' = Callbacks
        /\ WindowsOf' = WindowsOf /\ Plotted' = Plotted /\ Disturbed' = FALSE
    BY <2>1 DEF Lost, Registered, Callbacks, WindowsOf, Plotted, Disturbed
  <2> QED  BY <2>1, <2>2 DEF Display!Look, Display!peers, Display!plots, Plotted
<1>4. ASSUME Resolve \/ RunReturns \/ TornCopy \/ EndFrame \/ UNCHANGED monitorVars
      PROVE  UNCHANGED (Display!vars)
  <2>1. UNCHANGED <<stream, close_callback_, connections_, seen, plotWindowsMap, instance_count,
                    plotted, done, phase = "exited">>
    BY <1>4 DEF Resolve, RunReturns, TornCopy, EndFrame, NextFrame, monitorVars,
       vars, network, registry, mainThread, windows
  <2>2. Disturbed' = Disturbed
    BY <2>1 DEF Disturbed
  <2> QED  BY <2>1, <2>2, DisplayStutters
<1>5. ASSUME UpdatePlotWindows \/ RenderOne \/ Exit
      PROVE  Display!Next \/ UNCHANGED (Display!vars)
  BY <1>5, UpdatesDisplay, RendersInDisplay, ExitEndsDisplay DEF Display!Next
<1> QED
  BY <1>1, <1>2, <1>3, <1>4, <1>5 DEF MonitorNext, MainThread, UserCloses, Display!Next

(* However the server thread interleaves with the frames, plots come up    *)
(* only for peers that were let in, or for nobody when the list changed    *)
(* under the copy, go, when it did not change, only for peers that were    *)
(* let go after they left, are counted exactly, and are all closed at the  *)
(* end the user asked for.                                                 *)
THEOREM MonitorImplementsDisplay == MonitorSpec => ImplementsDisplay
<1>1. MonitorInit => Display!Init
  BY DEF MonitorInit, Init, Display!Init, Lost, WindowsOf, Registered, Callbacks, ToSet, Disturbed
<1>2. MonitorInv /\ EndsAsked /\ [MonitorNext]_monitorVars => [Display!Next]_(Display!vars)
  BY DisplayStep
<1> QED
  BY <1>1, <1>2, MonitorInvariance, EndsAskedInvariance, PTL
     DEF MonitorSpec, ImplementsDisplay, Display!Spec
=============================================================================
