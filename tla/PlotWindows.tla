---------------------------- MODULE PlotWindows ----------------------------
(***************************************************************************)
(* The plot windows of the main thread with their plots and recordings     *)
(* (modules/PlotWindow.h, .cpp), the CSV files the recordings end in       *)
(* (libs/include/csvfile.h) and the saved plot that the menu opens again   *)
(* (modules/mainMenu.cpp), through crashes and restarts of the process.    *)
(*                                                                         *)
(* Which windows go and come is decided by the connections (Monitor); here *)
(* a frame takes any.  Time is in seconds, which is what file names hold;  *)
(* a row is a time and a number that stands for input and PID output.      *)
(***************************************************************************)
EXTENDS Integers, Sequences, FiniteSets, SequencesExt

CONSTANTS
    Windows,            \* the PlotWindow objects of all runs of the program
    Data,               \* the numbers that are plotted
    Printed,            \* Printed[v]: v as ofstream writes it, to six digits
    Limits,             \* positions of "Num values on plot" (100..50000)
    InitialLimit,       \* where that slider starts (5000)
    Day,                \* the seconds of a day
    MaxNow, MaxFrames, MaxStarts    \* bounds: clock, frames, program starts

Cut == 0                \* the number in a row that a crash cut short

ASSUME WindowsAssumption == IsFiniteSet(Windows)
ASSUME DataAssumption == Data \subseteq Nat \ {Cut} /\ Printed \in [Data -> Nat \ {Cut}]
ASSUME LimitsAssumption == InitialLimit \in Limits /\ Limits \subseteq Nat \ {0}
ASSUME TimeAssumption ==
    Day \in Nat \ {0} /\ MaxNow \in Nat /\ MaxFrames \in Nat /\ MaxStarts \in Nat

VARIABLES
    now, starts, frames,
    mode,               \* "running", "ended" (the loop has), "dead"
    (* what is left to do in this frame, and when it began *)
    current_time, closing, opening, rendering,
    (* the windows *)
    window,             \* "none", "open", "closed" (destroyed), "lost"
    instance_count,     \* the static member of PlotWindow
    id, max_data_on_plot,
    saved,              \* saved_time_data_, saved_input_data_, saved_pid_data_
    plot,               \* times, client_output, pid_outs
    (* the directory Monitor_Saved_Plots: files[name] is a recording *)
    files,
    (* the saved plot on show *)
    open_saved_, shown,
    quiet               \* names written since a window was last opened

clock == <<now, starts>>
work == <<closing, opening, rendering>>
windows == <<window, instance_count, id, max_data_on_plot, saved, plot>>
menu == <<open_saved_, shown>>
plotVars == <<clock, frames, mode, current_time, work, windows, files, menu, quiet>>

Open == {w \in Windows : window[w] = "open"}
Busy == closing \cup opening \cup rendering # {}
Exited == mode = "ended" /\ closing = {}

PlotWindowsInit ==
    /\ now = 0 /\ starts = 1 /\ frames = 0 /\ mode = "running"
    /\ current_time = 0 /\ closing = {} /\ opening = {} /\ rendering = {}
    /\ window = [w \in Windows |-> "none"]
    /\ instance_count = 0
    /\ id = [w \in Windows |-> 0]
    /\ max_data_on_plot = [w \in Windows |-> InitialLimit]
    /\ saved = [w \in Windows |-> << >>] /\ plot = [w \in Windows |-> << >>]
    /\ files = << >>
    /\ open_saved_ = FALSE /\ shown = << >>
    /\ quiet = {}

Tick ==
    /\ now < MaxNow
    /\ now' = now + 1
    /\ UNCHANGED <<starts, frames, mode, current_time, work, windows, files, menu, quiet>>

-----------------------------------------------------------------------------
(***************************************************************************)
(* Files.                                                                  *)
(***************************************************************************)
(* Mutant of FileName: the time alone.                                     *)
TimeOnly == <<0, now>>

(* "Client_" + instance_count + "_" + date and time: the count of windows  *)
(* and not the id, which the window keeps for itself.                      *)
FileName == <<instance_count, now>>

(* Hours, minutes and seconds without the date; six digits of the number.  *)
Stored(rows) == [i \in DOMAIN rows |-> <<rows[i][1] % Day, Printed[rows[i][2]]>>]

(* Mutant of Written: the rows of the plot instead of those of the         *)
(* recording.                                                              *)
PlotWritten(w) == [of |-> w, rows |-> Stored(plot[w]), torn |-> FALSE]

(* What the destructor writes; of is not in the file.                      *)
Written(w) == [of |-> w, rows |-> Stored(saved[w]), torn |-> FALSE]

(* What is in the file when the destructor does not come to its end: some  *)
(* of the rows, and perhaps a piece of the next.                           *)
CutShort(w) ==
    {file \in {[of |-> w, rows |-> SubSeq(Stored(saved[w]), 1, k), torn |-> t] :
                  k \in 0..Len(saved[w]), t \in BOOLEAN} :
        file.torn => Len(file.rows) < Len(saved[w])}

Store(file) ==
    files' = [n \in DOMAIN files \cup {FileName} |-> IF n = FileName THEN file ELSE files[n]]

-----------------------------------------------------------------------------
(***************************************************************************)
(* The process.                                                            *)
(***************************************************************************)
(* The windows that were open are lost, with their recordings.             *)
Die ==
    /\ mode' = "dead"
    /\ window' = [w \in Windows |-> IF w \in Open THEN "lost" ELSE window[w]]
    /\ closing' = {} /\ opening' = {} /\ rendering' = {}
    /\ UNCHANGED <<clock, frames, current_time, quiet,
                   instance_count, id, max_data_on_plot, saved, plot>>

(* It is killed, or an exception leaves one of its threads.                *)
ProcessDies ==
    /\ mode # "dead" /\ ~Exited
    /\ Die
    /\ UNCHANGED <<files, menu>>

(* An exception in a destructor (no directory, no space) ends the process, *)
(* too.                                                                    *)
DiesWriting(w) ==
    /\ w \in closing
    /\ \E file \in CutShort(w) : Store(file)
    /\ Die
    /\ UNCHANGED menu

Start ==
    /\ mode = "dead" \/ Exited
    /\ starts < MaxStarts
    /\ starts' = starts + 1
    /\ mode' = "running"
    /\ instance_count' = 0 /\ quiet' = {}
    /\ open_saved_' = FALSE /\ shown' = << >>
    /\ UNCHANGED <<now, frames, current_time, work, files,
                   window, id, max_data_on_plot, saved, plot>>

-----------------------------------------------------------------------------
(***************************************************************************)
(* A frame: update_plot_windows, then render_windows.                      *)
(***************************************************************************)
BeginFrame(gone, come) ==
    /\ mode = "running" /\ ~Busy
    /\ frames < MaxFrames
    /\ gone \subseteq Open
    /\ come \subseteq {w \in Windows : window[w] = "none"}
    /\ frames' = frames + 1
    /\ current_time' = now
    /\ closing' = gone /\ opening' = come
    /\ rendering' = (Open \ gone) \cup come
    /\ UNCHANGED <<clock, mode, windows, files, menu, quiet>>

(* ~PlotWindow: the recording is written under a name made of the counter  *)
(* and the time as they are now, then the counter goes down.               *)
CloseWindow(w) ==
    /\ w \in closing
    /\ Store(Written(w))
    /\ quiet' = quiet \cup {FileName}
    /\ instance_count' = instance_count - 1
    /\ window' = [window EXCEPT ![w] = "closed"]
    /\ closing' = closing \ {w}
    /\ UNCHANGED <<clock, frames, mode, current_time, opening, rendering,
                   id, max_data_on_plot, saved, plot, menu>>

(* Mutant of InstancesAfterOpening: the constructor does not count.        *)
NotCounted == instance_count

InstancesAfterOpening == instance_count + 1

(* The constructor: id = instance_count++.                                 *)
OpenWindow(w) ==
    /\ closing = {} /\ w \in opening
    /\ id' = [id EXCEPT ![w] = instance_count]
    /\ instance_count' = InstancesAfterOpening
    /\ window' = [window EXCEPT ![w] = "open"]
    /\ quiet' = {}
    /\ opening' = opening \ {w}
    /\ UNCHANGED <<clock, frames, mode, current_time, closing, rendering,
                   max_data_on_plot, saved, plot, files, menu>>

(* Mutant of Trimmed: one row makes room for one.                          *)
OneDropped(rows, limit) == IF Len(rows) > limit THEN Tail(rows) ELSE rows

(* The oldest rows leave the plot.                                         *)
Trimmed(rows, limit) ==
    IF Len(rows) > limit THEN SubSeq(rows, Len(rows) - limit + 1, Len(rows)) ELSE rows

(* PlotWindow::Render: the row joins the recording and the plot, which is  *)
(* cut to its limit; the slider below it may then move.                    *)
RenderWindow(w, v) ==
    /\ closing = {} /\ opening = {} /\ w \in rendering
    /\ LET row == <<current_time, v>>
       IN  /\ saved' = [saved EXCEPT ![w] = Append(@, row)]
           /\ plot' = [plot EXCEPT ![w] = Trimmed(Append(@, row), max_data_on_plot[w])]
    /\ \E limit \in Limits : max_data_on_plot' = [max_data_on_plot EXCEPT ![w] = limit]
    /\ rendering' = rendering \ {w}
    /\ UNCHANGED <<clock, frames, mode, current_time, closing, opening,
                   window, instance_count, id, files, menu, quiet>>

(* Its connection has not received anything yet, or is no longer in the    *)
(* copy of the list that the frame renders from (main.cpp:277).            *)
NothingToRender(w) ==
    /\ closing = {} /\ opening = {} /\ w \in rendering
    /\ rendering' = rendering \ {w}
    /\ UNCHANGED <<clock, frames, mode, current_time, closing, opening,
                   windows, files, menu, quiet>>

(* The loop has ended: main destroys the map and the windows in it.        *)
Quit ==
    /\ mode = "running" /\ ~Busy
    /\ mode' = "ended"
    /\ closing' = Open
    /\ UNCHANGED <<clock, frames, current_time, opening, rendering, windows, files, menu, quiet>>

-----------------------------------------------------------------------------
(***************************************************************************)
(* The menu, at the beginning of a frame.                                  *)
(***************************************************************************)
(* Mutant of RowsRead: the vectors are not cleared.                        *)
RowsAppended(file) == {shown \o file.rows}

(* csvfile::read: nothing if the file has gone meanwhile; a row that ends  *)
(* early is passed over, or, if only its last number does, taken.          *)
RowsRead(file) ==
    {<< >>, file.rows} \cup
    (IF file.torn
        THEN {Append(file.rows, <<Stored(saved[file.of])[Len(file.rows) + 1][1], Cut>>)}
        ELSE {})

ChooseFile(name) ==
    /\ mode = "running" /\ ~Busy
    /\ shown' \in RowsRead(files[name])
    /\ open_saved_' = TRUE
    /\ UNCHANGED <<clock, frames, mode, current_time, work, windows, files, quiet>>

(* Only the sign is left of the last number: stod throws.                  *)
DiesReading(name) ==
    /\ mode = "running" /\ ~Busy
    /\ files[name].torn
    /\ Die
    /\ UNCHANGED <<files, menu>>

ClosePlot ==
    /\ mode = "running" /\ ~Busy
    /\ open_saved_
    /\ open_saved_' = FALSE
    /\ UNCHANGED <<clock, frames, mode, current_time, work, windows, files, shown, quiet>>

PlotWindowsNext ==
    \/ Tick \/ ProcessDies \/ Start \/ Quit \/ ClosePlot
    \/ \E gone, come \in SUBSET Windows : BeginFrame(gone, come)
    \/ \E w \in Windows :
          \/ CloseWindow(w) \/ DiesWriting(w) \/ OpenWindow(w) \/ NothingToRender(w)
          \/ \E v \in Data : RenderWindow(w, v)
    \/ \E name \in DOMAIN files : ChooseFile(name) \/ DiesReading(name)

PlotWindowsSpec == PlotWindowsInit /\ [][PlotWindowsNext]_plotVars

-----------------------------------------------------------------------------
(***************************************************************************)
(* Properties.                                                             *)
(***************************************************************************)
Rows == Seq(Nat \X Nat)

PlotWindowsTypeOK ==
    /\ now \in 0..MaxNow /\ current_time \in 0..MaxNow
    /\ starts \in Nat /\ frames \in 0..MaxFrames
    /\ mode \in {"running", "ended", "dead"}
    /\ closing \subseteq Open /\ opening \subseteq Windows /\ rendering \subseteq Windows
    /\ window \in [Windows -> {"none", "open", "closed", "lost"}]
    /\ instance_count \in Nat
    /\ id \in [Windows -> Nat] /\ max_data_on_plot \in [Windows -> Limits]
    /\ saved \in [Windows -> Rows] /\ plot \in [Windows -> Rows]
    /\ DOMAIN files \subseteq (Nat \ {0}) \X (0..MaxNow)
    /\ \A n \in DOMAIN files : files[n] \in [of : Windows, rows : Rows, torn : BOOLEAN]
    /\ open_saved_ \in BOOLEAN /\ shown \in Rows
    /\ quiet \subseteq DOMAIN files

(* What is plotted after a frame is the end of what has been recorded, not *)
(* longer than the slider allowed, however the slider was moved before.    *)
PlotFollowsRecording ==
    [][\A w \in Windows :
          saved'[w] # saved[w]
              => /\ IsSuffix(plot'[w], saved'[w])
                 /\ Len(plot'[w]) \in 1..max_data_on_plot[w]]_plotVars

(* A file is what one window recorded: all of it when the window was       *)
(* destroyed, a beginning of it when the process died meanwhile.           *)
FilesHoldRecordings ==
    \A n \in DOMAIN files :
        LET recorded == Stored(saved[files[n].of])
        IN  /\ IsPrefix(files[n].rows, recorded)
            /\ window[files[n].of] \in {"closed", "lost"}
            /\ window[files[n].of] = "closed" => files[n].rows = recorded
            /\ files[n].torn => files[n].rows # recorded

(* The file of one window is not overwritten by that of another, even in   *)
(* the same second, unless a window was opened or the program started      *)
(* between the two: the counter is smaller by then.                        *)
QuietFilesStay == [][\A n \in quiet : files'[n] = files[n]]_plotVars

(* The saved plot shows rows that one window recorded, from the first and  *)
(* in order, and no others, but for a last number that a crash cut short.  *)
ShownWasRecorded ==
    shown # << >> =>
        \E w \in Windows :
            \/ IsPrefix(shown, Stored(saved[w]))
            \/ /\ shown[Len(shown)][2] = Cut
               /\ IsPrefix(Front(shown), Stored(saved[w]))
               /\ Len(shown) <= Len(saved[w])

(* The windows and files keep what RecordingArchive promises: a recording  *)
(* never loses a row or gets one after its window is gone, and nothing but *)
(* a destructor writes a file.                                             *)
Archive == INSTANCE RecordingArchive WITH
    Names <- (1..Cardinality(Windows)) \X (0..MaxNow),
    Row <- (0..(Day - 1)) \X {Printed[v] : v \in Data},
    Piece <- (0..(Day - 1)) \X {Cut},
    state <- window,
    recording <- [w \in Windows |-> Stored(saved[w])],
    archive <- files,
    display <- shown

ImplementsArchive == Archive!Spec

(* "This is the unique ID for each instance" (PlotWindow.h:99): no two     *)
(* open windows have the same, by which ImGui would take them for one.     *)
UniqueIds == \A v, w \in Open : id[v] = id[w] => v = w
=============================================================================
