------------------------------- MODULE Monitor -------------------------------
(***************************************************************************)
(* The whole process (main.cpp): the thread that runs the io_context of    *)
(* TcpServer, and the main thread, whose frame loop reads the connections  *)
(* without a lock and keeps one PlotWindow per connection.                 *)
(*                                                                         *)
(* A frame is: read the counter; if it is positive, copy connections_ and  *)
(* bring plotWindowsMap up to date; copy connections_ again and render the *)
(* window of each connection.  Handlers of the server thread run between   *)
(* any two steps of the frame and during both copies.                      *)
(***************************************************************************)
EXTENDS TcpServer

CONSTANT NullConn       \* the null pointer among the keys of plotWindowsMap

ASSUME NullConnAssumption == NullConn \notin Conns

Keys == Conns \cup {NullConn}

VARIABLES
    (* the server thread and the order to stop it *)
    thread,             \* "resolving" (get_server_ip), "serving", "finished"
    stopped,            \* has io_context->stop() been called?
    (* the main thread *)
    done,               \* has the user closed the application?
    phase,              \* "frame", "updating", "copying", "rendering",
                        \* "joining", "exited"
    seen,               \* while a copy is under way: what has been in the
                        \* memory of connections_ since it began
    rendering,          \* pointers still to be rendered in this frame
    plotWindowsMap,     \* plotWindowsMap[k]: "absent", "null" or "window"
    instance_count,     \* the static member of PlotWindow
    plotted             \* plotted[c]: has data of c been drawn?

serverThread == <<thread, stopped>>
windows == <<plotWindowsMap, instance_count, plotted>>
mainThread == <<done, phase, seen, rendering, windows>>
monitorVars == <<vars, serverThread, mainThread>>

WindowsOf == {k \in Keys : plotWindowsMap[k] = "window"}

MonitorTypeOK ==
    /\ TypeOK
    /\ thread \in {"resolving", "serving", "finished"}
    /\ stopped \in BOOLEAN
    /\ done \in BOOLEAN
    /\ phase \in {"frame", "updating", "copying", "rendering", "joining", "exited"}
    /\ seen \subseteq Seq(Keys)
    /\ rendering \in Seq(Keys)
    /\ plotWindowsMap \in [Keys -> {"absent", "null", "window"}]
    /\ instance_count \in Nat
    /\ plotted \in [Conns -> BOOLEAN]

MonitorInit ==
    /\ Init
    /\ thread = "resolving"
    /\ stopped = FALSE
    /\ done = FALSE
    /\ phase = "frame"
    /\ seen = {}
    /\ rendering = << >>
    /\ plotWindowsMap = [k \in Keys |-> "absent"]
    /\ instance_count = 0
    /\ plotted = [c \in Conns |-> FALSE]

-----------------------------------------------------------------------------
(***************************************************************************)
(* The server thread.                                                      *)
(***************************************************************************)
(* get_server_ip() asks the resolver; it answers or throws, and either way *)
(* the thread goes on to run().                                            *)
Resolve ==
    /\ alive
    /\ thread = "resolving"
    /\ thread' = "serving"
    /\ UNCHANGED <<vars, stopped, mainThread>>

(***************************************************************************)
(* What the old memory of the list holds while it becomes connections.     *)
(* push_back into a full vector (whether it is full is left open) moves    *)
(* every pointer to new memory and std::remove moves each pointer behind   *)
(* the removed one a place forward; a shared_ptr that was moved from is    *)
(* null.                                                                   *)
(***************************************************************************)
MovedFrom(connections) ==
    [i \in DOMAIN connections_ |->
        IF \/ Len(connections) > Len(connections_)
           \/ \E j \in 1..(i - 1) : connections_[j] \notin ToSet(connections)
        THEN NullConn
        ELSE connections_[i]]

(* What a copy under way may still pick up. *)
Observe ==
    seen' = IF seen = {} THEN {}
            ELSE seen \cup {connections_', MovedFrom(connections_')}

(* A handler runs inside run(), until stop() is called. *)
Serve(handler) ==
    /\ thread = "serving" /\ ~stopped
    /\ handler
    /\ Observe
    /\ UNCHANGED <<serverThread, done, phase, rendering, windows>>

(* run() returns when it was stopped or has no work left. *)
RunReturns ==
    /\ alive
    /\ thread = "serving"
    /\ stopped \/ accept = "idle"
    /\ thread' = "finished"
    /\ UNCHANGED <<vars, stopped, mainThread>>

-----------------------------------------------------------------------------
(***************************************************************************)
(* The main thread.                                                        *)
(***************************************************************************)
(* Mutant of NextFrame: the loop ends without io_context->stop().          *)
LeaveWithoutStop(quit) ==
    /\ phase' = IF quit THEN "joining" ELSE "frame"
    /\ UNCHANGED stopped

(* The end of a frame: the loop goes on, or stops the io_context.          *)
NextFrame(quit) ==
    /\ phase' = IF quit THEN "joining" ELSE "frame"
    /\ stopped' = quit

(* Events are polled (closes: the user has closed the window) and the      *)
(* counter is read; a frame with a counter that is not positive neither    *)
(* updates nor renders.                                                    *)
BeginFrame(closes) ==
    /\ alive
    /\ phase = "frame"
    /\ done' = (done \/ closes)
    /\ IF connection_count_ > 0
          THEN /\ phase' = "updating"
               /\ seen' = {connections_}
               /\ UNCHANGED stopped
          ELSE NextFrame(done') /\ UNCHANGED seen
    /\ UNCHANGED <<vars, thread, rendering, windows>>

(***************************************************************************)
(* get_connections() copies, pointer by pointer, a vector that the other   *)
(* thread may be changing.  That is a data race: the copy is as long as    *)
(* one of the values in memory meanwhile and each place has what one of    *)
(* them has there, or the process dies on memory that was freed.           *)
(***************************************************************************)
CopiesOf(values) ==
    UNION {{copy \in [DOMAIN s -> Keys] :
               \A i \in DOMAIN s : \E v \in values : i \in DOMAIN v /\ copy[i] = v[i]} :
           s \in values}

(* The list has changed since the copy under way began. *)
Disturbed == \E s \in seen : s # connections_

TornCopy ==
    /\ alive
    /\ Disturbed
    /\ alive' = FALSE
    /\ UNCHANGED <<network, accept, reading, writing, received, close_callback_,
                   connections_, connection_count_, serverThread, mainThread>>

(* Mutant of Stale: no entry is ever removed.                              *)
NeverStale(connections) == {}

(* The entries update_plot_windows removes and makes, given its copy.      *)
Stale(connections) == {k \in Keys : plotWindowsMap[k] # "absent"} \ ToSet(connections)
Added(connections) == {k \in ToSet(connections) : plotWindowsMap[k] = "absent"}

(* Mutants of InstancesAfter: null entries count down too; nothing does.   *)
NullsCountDown(connections) ==
    instance_count + Cardinality(Added(connections)) - Cardinality(Stale(connections))
NothingCountsDown(connections) == instance_count + Cardinality(Added(connections))

(* Each destructor takes one off the counter, each constructor adds one.   *)
InstancesAfter(connections) ==
    instance_count + Cardinality(Added(connections))
        - Cardinality(WindowsOf \cap Stale(connections))

(* Entries that are there are left alone, also null ones.                  *)
EntryAfter(connections, k) ==
    IF k \in Stale(connections) THEN "absent"
    ELSE IF k \in Added(connections) THEN "window" ELSE plotWindowsMap[k]

(* update_plot_windows, with what its copy picked up; the null pointer is  *)
(* a key like any other.  The copies of main.cpp:189, never used, and of   *)
(* render_windows follow at once.                                          *)
UpdatePlotWindows ==
    /\ alive
    /\ phase = "updating"
    /\ \E connections \in CopiesOf(seen) :
          /\ plotWindowsMap' = [k \in Keys |-> EntryAfter(connections, k)]
          /\ instance_count' = InstancesAfter(connections)
    /\ phase' = "copying"
    /\ seen' = {connections_}
    /\ UNCHANGED <<vars, serverThread, done, rendering, plotted>>

BeginRendering ==
    /\ alive
    /\ phase = "copying"
    /\ rendering' \in CopiesOf(seen)
    /\ phase' = "rendering"
    /\ seen' = {}
    /\ UNCHANGED <<vars, serverThread, done, windows>>

(* Mutant of Unrendered: a connection without data ends the loop.          *)
NoneAfterSilent == IF Head(rendering) \in Conns /\ received[Head(rendering)] THEN Tail(rendering) ELSE << >>

Unrendered == Tail(rendering)

(* One turn of the loop of render_windows.  plotWindowsMap[connection]     *)
(* inserts a null pointer for a connection that is not in the map.  With   *)
(* data, the address is asked for (which may throw, uncaught) and then     *)
(* Render is called through the pointer, which ends the process if null.   *)
(* A null connection ends it at once: get_latest_data() is called on it.   *)
RenderOne ==
    /\ alive
    /\ phase = "rendering"
    /\ rendering # << >>
    /\ LET c == Head(rendering)
           entry == IF plotWindowsMap[c] = "absent" THEN "null" ELSE plotWindowsMap[c]
           draws == c # NullConn /\ received[c] /\ ~GetIpThrows(c) /\ entry = "window"
           quiet == c # NullConn /\ ~received[c]
       IN  /\ plotWindowsMap' = [plotWindowsMap EXCEPT ![c] = entry]
           /\ alive' = (draws \/ quiet)
           /\ plotted' = [d \in Conns |-> plotted[d] \/ (d = c /\ draws)]
    /\ rendering' = Unrendered
    /\ UNCHANGED <<network, accept, reading, writing, received, close_callback_,
                   connections_, connection_count_, serverThread,
                   done, phase, seen, instance_count>>

EndFrame ==
    /\ alive
    /\ phase = "rendering"
    /\ rendering = << >>
    /\ NextFrame(done)
    /\ UNCHANGED <<vars, thread, done, seen, rendering, windows>>

(* Mutant of Exit: main does not join the thread.                          *)
ExitWithoutJoin ==
    /\ alive
    /\ phase = "joining"
    /\ phase' = "exited"
    /\ plotWindowsMap' = [k \in Keys |-> "absent"]
    /\ instance_count' = 0
    /\ UNCHANGED <<vars, serverThread, done, seen, rendering, plotted>>

(* server_thread.join(); main returns and destroys plotWindowsMap, whose   *)
(* windows write their files.                                              *)
Exit ==
    /\ alive
    /\ phase = "joining"
    /\ thread = "finished"
    /\ phase' = "exited"
    /\ plotWindowsMap' = [k \in Keys |-> "absent"]
    /\ instance_count' = instance_count - Cardinality(WindowsOf)
    /\ UNCHANGED <<vars, serverThread, done, seen, rendering, plotted>>

MainThread ==
    \/ BeginFrame(FALSE) \/ TornCopy \/ UpdatePlotWindows \/ BeginRendering
    \/ RenderOne \/ EndFrame \/ Exit

UserCloses == BeginFrame(TRUE)

(* Bound: what the peers do after the process has ended is left out.       *)
Peers ==
    /\ alive /\ phase # "exited"
    /\ Environment
    /\ UNCHANGED <<serverThread, mainThread>>

MonitorNext ==
    \/ Peers \/ Resolve \/ Serve(Handlers) \/ RunReturns
    \/ MainThread \/ UserCloses

(* Both threads are scheduled, the resolver answers or gives up, and run() *)
(* treats its handlers as in TcpServer.  The user may never close.         *)
MonitorFairness ==
    /\ WF_monitorVars(Resolve \/ RunReturns)
    /\ WF_monitorVars(MainThread)
    /\ WF_monitorVars(Serve(AcceptStep)) /\ SF_monitorVars(Serve(HandleAccept))
    /\ \A c \in Conns : WF_monitorVars(Serve(ReadStep(c)))

MonitorSpec == MonitorInit /\ [][MonitorNext]_monitorVars /\ MonitorFairness

-----------------------------------------------------------------------------
(***************************************************************************)
(* Properties.                                                             *)
(***************************************************************************)
(* instance_count is the number of windows that exist: every constructor   *)
(* is matched by a destructor and null entries count for nothing.          *)
InstanceCountExact == instance_count = Cardinality(WindowsOf)

(* The server thread serves until the main thread tells it to stop. *)
ServesUntilStopped == thread = "finished" => stopped

(* The server thread, which uses locals of main by reference, has ended    *)
(* when main destroys them: nothing of it happens afterwards.              *)
ThreadEndsBeforeMain ==
    [][phase = "exited" => UNCHANGED <<registry, thread>>]_monitorVars

(* Seen from the user, the two threads keep what PlotDisplay promises of   *)
(* the plots, although frames work on copies of a list that is changing.   *)
Callbacks == {c \in Conns : close_callback_[c]}

Display == INSTANCE PlotDisplay WITH
    Nobody    <- NullConn,
    admitted  <- Registered \cup Callbacks,
    left      <- Lost,
    dismissed <- Callbacks \ Registered,
    disturbed <- Disturbed,
    shown     <- WindowsOf,
    count     <- instance_count,
    drawn     <- {c \in Conns : plotted[c]},
    asked     <- done,
    ended     <- (phase = "exited")

ImplementsDisplay == Display!Spec

(* Closing the application ends it, whatever the peers and the resolver    *)
(* are doing.  (done is never taken back, so this is done ~> the end.)     *)
QuitEndsProgram == []<>(done => phase = "exited" \/ ~alive)

(* The frame loop asks the counter whether there is anything to draw.      *)
Drifted == connection_count_ # Len(connections_)

(* A connection that has sent data is drawn, unless it goes away, the      *)
(* counter has drifted from the list, the user quits or the process dies:  *)
(* again and again there is none still to be drawn.                        *)
PlotAppears ==
    []<>(\/ \A c \in Registered : received[c] => plotted[c]
         \/ Drifted \/ done \/ ~alive)

(* The window of a connection that has left is destroyed as long as some   *)
(* connection is left; the last one stays until the next client comes.     *)
StaleWindowGoes ==
    []<>(\/ WindowsOf \subseteq Registered
         \/ Registered = {} \/ Drifted \/ done \/ ~alive)

(* "Add a PlotWindow for any new connections" (main.cpp:267): each gets    *)
(* its window sooner or later.                                             *)
ConnectionGetsWindow ==
    \A c \in Conns :
        c \in Registered ~> (c \in WindowsOf \/ c \notin Registered \/ done \/ ~alive)
=============================================================================
