# Monitor: a verification development

TLA+ models, model-checking configurations and machine-checked proofs for
*Monitor*, the desktop application of this repository: a TCP server on port
12000 to which microcontrollers send sensor readings, which plots them, runs a
PID controller on them and answers with its output. Paths below are relative to
`src/`.

- [The system](#the-system)
- [Modules](#modules) and how they correspond to the code
- [Runs](#runs), bounds and fairness
- [Proofs](#proofs)
- [What is not modelled](#what-is-not-modelled)
- [Plan](#plan)

## The system

| component | code | state | operations |
|---|---|---|---|
| server | `modules/ServerModule.{h,cpp}`, `tcp_server` | `connections_`, `connection_count_`, the acceptor | `start_accept`, `handle_accept`, the close callback, `get_connections`, `get_connections_count` |
| connection | same files, `tcp_connection` | the socket, `data_[128]`, `latest_data_to_send_`, `message_`, `close_callback_` | `start`, `start_read`, `handle_read`, `handle_write`, `send_data`, `get_latest_data`, `update_sending_data`, `get_ip` |
| main loop and threads | `main.cpp` | `done`, `plotWindowsMap`, `logs`, the `io_context`, the server thread | `handle_events`, `update_plot_windows`, `render_windows`, `get_server_ip`, stop and join |
| plot window | `modules/PlotWindow.{h,cpp}` | plot buffers, the recording, `id`, the static `instance_count`, PID switches and sliders | `Render`, `update_pid`, `GetPidOutput`, the destructor that writes a CSV file |
| PID | `modules/PID.{h,cpp}` | errors, gains, state and index of the tuner | `Init`, `UpdateError`, `AutoTuneController`, `GetValue` |
| notifications | `libs/include/ImGuiNotify.hpp` | the vector `notifications` | `InsertNotification`, `RemoveNotification`, `RenderNotifications` |
| CSV files | `libs/include/csvfile.h` | an output stream | `operator<<`, `endrow`, `read` |
| main menu | `modules/mainMenu.{h,cpp}` | the saved plot that is shown | `ShowMenuFile`, `ShowChosenPlot`, colours |
| control panel | `modules/ControlPanel.{h,cpp}` | none of its own | draws a number and the logs |
| clients | `Tests/Pid_regulator_test/*.py` | | send a number, wait for a number |

**Interaction.** `main` creates the server on an `io_context` and starts one
thread that asks the resolver for an address and then runs the `io_context`; all
handlers of the server and its connections run there, one after the other. The
main thread draws frames. In each frame it reads the counter of connections;
if it is positive it copies the list of connections twice (once to bring
`plotWindowsMap` up to date, once to render), reads each connection's `data_`,
gives the number to its plot window and writes the window's output into the
connection's `latest_data_to_send_`. The two threads share the list, the
counter, `data_`, `latest_data_to_send_`, `logs` and `notifications`, all
without a lock. Closing the application stops the `io_context` and joins the
thread.

**What is hard.** A frame works on copies and on a counter that are out of date
by the time they are used; a reset connection can be noticed twice (by its read
and by a write) and its address can no longer be asked for; objects, windows
and counters are created and destroyed by different threads; the end of the
program may meet the server thread anywhere; text arrives in a buffer before the
handler that terminates it runs, and is read meanwhile. `PROJECT.json` lists
these hazards at their lines, with the properties about each.

**What correctness means**, component by component:

- *server*: every client is admitted once, stays listed until it has left,
  leaves the list when it has, the counter is the length of the list, the
  server goes on accepting;
- *main loop*: each client that sends is drawn, windows of departed clients go,
  and no others unless the list changes while it is copied, the counter of
  windows is exact, closing ends the program;
- *exchange*: what is plotted is one sample that was sent (it is not always), every
  sample is answered once, the answers catch up with the samples;
- *notifications*: only expired ones go, all of those in the end, the oldest
  are shown;
- *PID*: the integral stays bounded, the average is that of the recent errors,
  the tuner takes turns, and what it found stays in use;
- *plot windows*: what is plotted is the end of what is recorded, no two open
  windows look the same to ImGui, a recording ends in a file of its own;
- *files and saved plots*: a file holds one recording or, after a crash, its
  beginning; what the menu shows again was recorded;
- *sending*: a peer that reads slowly gets all places of every answer, in order, and
  nothing older than the read it answers.

## Modules

```
ConnectionRegistry        what the server promises (abstract)
        ^ implements
TcpServer  <-- extends -- Monitor (both threads)
                             | implements
                             v
                          PlotDisplay     what the user sees of the plots (abstract)

Exchange      one connection's samples and answers, client in lockstep
Sending       one connection's answers, peer that may stop reading
PlotWindows   all windows: plots, recordings, files, saved plot, crashes
        | implements
        v
RecordingArchive          what becomes of recordings (abstract)
Pid           one window's PID and its tuner
Toasts        the notifications

SequenceLemmas <- TcpServerProofs <- MonitorProofs      proofs
       ^--------- ExchangeProofs, SendingProofs, PlotWindowsProofs, ToastsProofs
                  PidProofs
MC...: instances for TLC
```

`Exchange`, `Sending`, `PlotWindows`, `Pid` and `Toasts` share no variables with `Monitor` or with each other.
Where the code connects them, one takes as an input what the other decides:
`Monitor` decides which windows open and close in a frame, and `PlotWindows`
takes any; `Exchange` decides which sample a frame renders, and `Pid` and
`PlotWindows` take any number; the answers that `Exchange` asks for come in
`Sending` in any order of outputs and reads. So what is checked of each holds
for whatever the others do.

### TcpServer

The handlers of `ServerModule.cpp`, atomic because one thread runs them. A
member of `Conns` is one `tcp_connection` and the TCP connection it carries.

| model | code |
|---|---|
| `HandleAccept`, `HandleAcceptError` | `handle_accept`: counting, storing and only then asking for the address, which may throw; `start`; the close callback; `start_accept` |
| `HandleRead`, `HandleReadError` | `handle_read`: one reply per read, next read; or the close callback |
| `HandleWrite`, `HandleWriteError` | `handle_write`: nothing; or the close callback |
| `CloseConnection` | the lambda in `handle_accept`: counter, address, list, in this order |
| `ReceiveData`, `ReceiveFails`, `AcceptFails` | completions, as the vendored Boost.Asio reports them |
| `PeerConnects`, `PeerSends`, `PeerCloses`, `PeerResets` | the peers |
| `alive` | FALSE once an exception has left a handler: nobody catches it, the process ends |

`ResetThrows` says what `remote_endpoint()` does on a socket that was reset: on
Linux it fails (and throws), elsewhere it may still know the address. Both are
checked and proved about. `OpenSockets` counts every connection ever started
and not only the listed ones, because each close callback owns the connection
that it is stored in.

### ConnectionRegistry

The abstract server: peers arrive and leave, are admitted and removed, the
count is reported, and the registry may die, but only once some peer has left.
`TcpServer!Registry` instantiates it with a refinement mapping in which
an admitted peer is one in `connections_` and a removed one has its callback set but is no
longer listed. `ImplementsRegistry` checks it with the abstract liveness.

### Monitor

`TcpServer` with the second thread. The server thread resolves, serves and
finishes; the main thread goes through the steps of a frame.

| model | code |
|---|---|
| `BeginFrame` | `handle_events`, the counter test (`main.cpp:166-186`) |
| `UpdatePlotWindows` | `update_plot_windows`: `Stale` entries erased, `Added` ones made |
| `BeginRendering`, `RenderOne`, `EndFrame` | the second copy and the loop of `render_windows`; `RenderOne` inserts the null pointer that `operator[]` inserts, and ends the process where the code throws or uses it |
| `CopiesOf`, `MovedFrom`, `TornCopy` | what a copy of a vector may pick up, or do, while another thread changes it |
| `NextFrame`, `RunReturns`, `Exit` | the end of the loop, `stop()`, the return of `run()`, `join()` |

A copy of the list (`get_connections`, no lock) begins in one step and ends in another. `seen`
collects what the memory of the list has held between the two: its values, and the
states in between that a handler leaves behind in the old memory (`MovedFrom`), where
`push_back` has moved every pointer to new memory or `std::remove` has moved those behind the
removed one forward, and what was moved from is null. The copy is made pointer by pointer, so it is as long as
one of these and takes each place from any of them (`CopiesOf`): it may lack a connection
that is there, name one twice, hold null, and be a list there never was. Or the process dies on
memory that was freed (`TornCopy`). `NullConn` is therefore a key of `plotWindowsMap` like any
connection: `update_plot_windows` makes a window for it, and destroys the window of a live
connection that its copy lacks. Handlers stay atomic in everything else: that the counter goes up
before the list grows, inside one handler, is visible to the frame in the code and not in this model
(it could only let a frame begin with an empty copy, which draws nothing).

### PlotDisplay

The abstract display: plots come up only for peers that were admitted and go only when these
were let go, which they are only after they left; data is drawn only in its peer's own plot, the
number of plots is known, and only the user ends the program, with all plots closed for
good. A look during which a peer comes or is let go is *disturbed*: it may miss peers that are
there and see one that is nobody, so the display promises less of it, but never a plot of
a peer that was not admitted and never a wrong count. It knows of no list, no copies and no
threads. `Monitor!Display` maps the plots to the map's windows, the number to
`instance_count`, nobody to the null pointer, and a disturbed look to a copy under way whose memory has held
something else than the list (`Disturbed`). That an undisturbed look takes away no window
of a peer that is listed is what the refinement is about; that a disturbed one may is what the
code does.

### Exchange

One connection's data. Texts are sequences of characters `<<sample, place>>`, so
that a mixture of two texts can be told from either; numbers are named by the
sample they were computed from, `Gains` (the errors `PID::Init` starts with),
`Zero` (the PID is off) or `Torn` (a racing assignment). `Receive` fills `data_`
when the read completes, `HandleRead` terminates and answers, `BeginCopy`
begins the copy of `data_`, `seen` collects what each cell has held since, and
`CopiedTexts` is what the copy may end with, each cell taken before, between or after the
reads and handlers that ran meanwhile. `RenderText` is `PlotWindow::Render`: output first, then
the button, then the PID update, which needs an open window. `UpdateSendingData`
ends the assignment that `HandleRead` may race with. The client is that of
`SensorOutTest.py`.

### Pid

The PID of one plot window with its tuner, all of it in the main thread.

| model | code |
|---|---|
| `ErrorsAfter`, `UpdateAverage` | `PID::UpdateError`, and the running average of `update_pid` |
| `IncreaseP`, `ResampleP`, `Decrease2P`, `Resample2P` | the four states of `PID::AutoTuneController`; `next_state` and `next_index` equal `tune_state` and `K_index` after each call and have no variable |
| `TunedFrame`, `PlainFrame` | `update_pid` with `autotune_enabled` and without; `Finish` is the end of the tuning |
| `PressAutotune`, `MoveSlider`, `CheckPositive` | the widgets of `widget_pid_config`, at most one of them before the `update_pid` of the frame (`touched`) |

Frames in which the PID is off touch none of this. Integers stand for the doubles, and
products with 1.1 and 0.9 are cut off; the rounding of doubles, and of gains
that pass through the `float` sliders, is left out. `probes` and `settled` only observe.

### Toasts

`RenderNotifications` as a loop with one round per step, so that toasts can be
inserted and expire between rounds. `RemoveExpired` erases and still increments
the index, as the code does.

### Sending

`async_write` (`ServerModule.cpp:136`) gets the memory of
`latest_data_to_send_` and the length the string has then. `HandleRead` notes both
(`boost::asio::buffer`) and `SendData`, a step of its own because the main thread may assign the
string between the two, makes the first attempt to send. `StartOp` and `Transmit` are what the vendored Boost.Asio makes of
it: tried at once unless others wait, cut where the socket has no more room,
queued in `op_queue_` until epoll reports room (`Writable`, `Perform`), and
gone on with by `HandleWriteSome` until the whole length was taken. The
characters come from `cells`, the memory as it is at that moment, which
`UpdateSendingData` may have assigned to. `stream` keeps every byte with the
answer and the place it belongs to.

### PlotWindows

| model | code |
|---|---|
| `BeginFrame`, `CloseWindow`, `OpenWindow` | the part of a frame that `update_plot_windows` is for the windows: destructors, then constructors |
| `RenderWindow`, `NothingToRender` | `PlotWindow::Render`: recording, plot buffers, limit, slider; nothing while nothing was received |
| `Written`, `FileName`, `Stored` | `~PlotWindow` with `csvfile`: name from counter and time, time of day without the date, six digits |
| `CutShort`, `DiesWriting`, `ProcessDies` | a process that ends in the middle of a write, or anywhere |
| `ChooseFile`, `RowsRead`, `ClosePlot`, `DiesReading` | the menu and `csvfile::read`; a torn row is passed over, read as a shorter number, or (only a sign is left) ends the process |
| `Quit`, `Start` | `main` destroys the map; the program is started again and finds the files |

Numbers are abstracted to which number it is and `Printed`, what six digits keep of it;
a number that a crash cut short is `Cut`. `quiet` only observes.

### RecordingArchive

The abstract archive: a recording is opened, gets rows, and ends with all of its rows
in a file, or with a beginning of them, or nowhere, when the program fails; what is
displayed was read from a file. It knows of no frames, plots, clock, counter or ids.
`PlotWindows!Archive` maps a recording to what six digits keep of its rows
(`Stored`), and a file may be replaced: file names are not its business, they are that of
`QuietFilesStay`.

### Conventions

Definitions called "Mutant of X" are slips a change to the code could make; each
property is run against one, to see that it notices. No specification uses them.

## Runs

Every run is `tlc -workers 2 -config X.cfg M`. `CHECK_DEADLOCK FALSE` is set
everywhere because the models do stop: the peers are finitely many, the clock and
the samples are bounded, and the process may end.

| run | question | result |
|---|---|---|
| `server_linux` | does the server implement the registry, keep watching every connection and keep listening, for two clients that send, close and reset in any order, where a reset ends the process? | holds |
| `server_dies_on_reset` | does the server survive a failing connection, as `ServerModule.cpp:110` expects? | no: the close callback asks for an address that no longer exists, after it has counted the connection down and before it has taken it off the list |
| `descriptors_run_out` | does a closed connection make room for a new one? | no: it is never destroyed |
| `monitor` | with both threads, two clients of which one sends, copies that mix values of the list, and a reset that the process survives: are windows, their counter and the end of the threads right, does the counter of connections drift only downwards, do plots come and go as `PlotDisplay` promises, is what clients send drawn, do windows go, does closing end the program? | holds, up to that drift |
| `null_window` | does each connection get a window, as `main.cpp:267` says? | no: one that the first copy of a frame misses and the second has gets a null pointer for ever; in the trace the first copy misses it because an accept moves the pointers meanwhile |
| `exchange_lockstep` | is every sample answered once, does the buffer hold its text once its handler has run, do the answers catch up? | holds |
| `mixed_text` | is the number that is plotted always read from one sample (`README.md:87`)? | no: between the completion of a read and its handler a frame copies the new text with the tail of the longer one before it |
| `pid_tuner` | with errors of either sign, a tuner that is switched on and off or stops by itself, and sliders moved in between: is the integral bounded, the average right, do turns end, do the gains stay? | holds |
| `toast_walk` | are only expired toasts removed, all of them in the end, and the oldest shown? | holds |
| `sending` | with a peer that stops reading at any time, and outputs assigned at any time: do the places of each answer arrive in order, none missing and none twice, and one answer after the other until the buffer first fills up; is none of it older than the read it answers, and does it go on when the peer does? | holds; that an answer is the text of one output does not (see below) |
| `plot_recordings` | through moving limits, crashes while writing, restarts and windows that close in one second: do plots, files and the saved plot hold what was recorded, and do they implement `RecordingArchive`? | holds |
| `unique_ids` | is the id of a window unique, as `PlotWindow.h:99` says? | no: it is the number of open windows, which falls when an older one closes |

**Bounds.** `Senders` (connections whose peers send), `MaxChunks` (pieces sent on each),
`MaxResets` (connections reset) and `MaxOpen` (descriptors) bound `TcpServer`; in `monitor` one
client sends and one is silent, so that a frame renders both kinds, and in `server_linux` both send; two pieces let a read take one or
both, and leave one unread when a connection ends; two connections are enough for one to be
erased from the front of the list while others stay and for the counter to drift below a
list that is not empty. `Peers` stops the environment of `Monitor` when the
process has ended. In `Exchange` the widths 2, 1, 2 give a text that covers its
predecessor and one that leaves a tail, and `Size` is one more than the longest,
so that the terminator just fits (a text for which it does not is excluded by `SizeAssumption`). `Pid` runs six frames, enough
for each of the four states of the tuner and for an end and a restart of it, with errors large enough to
pass the windup limit in two frames and an average of the last two errors, all of them even so that it is
exact. `Toasts` has four toasts, two dismiss times
and a clock that runs until the longest-lived one has expired, for a limit of 1 instead
of 2, so that the vector can exceed the limit by two. `Sending` answers three reads with outputs
of lengths 1, 4, 2, 3 through a pipe of five bytes: a write can be cut, two can
wait, and a text can be replaced by a shorter or a longer one under way. `PlotWindows`
has two windows (three where an id is to be used twice), a limit that moves between 1 and 3
over three frames, so that several rows go at once, a clock of three seconds that passes
midnight (`Day`), and one restart. Symmetry over windows is used only in
runs without liveness properties.

**Fairness.** `TcpServer`: weak fairness of the accept and of each connection's
read, because `io_context::run()` takes ready handlers in the order they became
ready and polls the sockets in between; strong fairness of a successful accept:
failures while there is room (`AcceptFails`: the host is short of files or memory)
come back to an outstanding accept each time and do not go on for ever. No fairness of peers, and none of
writes, which need the peer to make room. `Monitor` adds weak fairness of the two
threads (the operating system schedules both, and the resolver answers or gives
up). The user never has to close. `Exchange`: both threads, and the client takes
answers it waits for; nobody has to send or click. `Toasts`: the main loop
renders. `Sending`: a write that is begun makes its first attempt, the reactor performs what waits, reports
room, and handlers run; nothing is
asked of the peer, but `WritesProgress` speaks of one that makes room again and again.
`PlotWindows` states safety only.

**Also seen.** The models show some more behaviours that no run keeps. The
window of the last client stays, and its recording is not written, until
another client connects or the program ends, because windows are only updated while the counter is
positive (`main.cpp:186`). After a reset that is noticed twice, the counter can be 0 with a client
connected, which is then not drawn (`Drifted`). When a window opens between two closings in the
same second, the second recording is written over the first (`PlotWindow.h:70`),
which is why `QuietFilesStay` speaks of files written since a window was last opened. An exception in
`~PlotWindow` (no directory, no space) ends the process, because destructors
do not throw, and so does a torn recording of which only the sign of the last
number is left. A frame whose copy lacks a connection that is still there destroys its window, with the
recording in it written to a file, and a later frame makes a new one, unless the second
copy of the same frame has the connection and leaves it a null pointer (`main.cpp:260`, `:279`). Where a
reset has come before the accept is handled, `get_ip()` throws in `handle_accept`
itself (`ServerModule.cpp:28`), before the connection has a callback. An answer need not be the text
of any one output, nor even "the latest data" (`ServerModule.cpp:104`): when the main thread assigns
another text after `buffer(data)` has noted the length (`:136`), at once or while a write waits, the peer gets as many
characters of the new text as the old one had, or the terminator and the tail of the old text, and
the pieces of two answers may be sent in turns (`ServerModule.cpp:135`). A recording
gets a row in every frame, whether or not a sample has come. The answer to a sample is the PID's
output for an earlier one (`ServerModule.cpp:105`, `PlotWindow.cpp:20`). The tuner
never tunes Kd (`PID.cpp:86`, `% 2`), and its first average is compared with a
`best_error` that is kept from one tuning to the next, so that a second tuning may find
nothing that improves. Of two
adjacent expired toasts a walk removes one (`ImGuiNotify.hpp:506`). A walk renders three toasts with the
limit 2, because an index is compared with it (`:510`), where the comment at the limit says "Max
number of toasts rendered at the same time" (`:48`); `WalkShowsOldest` therefore asks for
at least as many as the limit and for no exact number.

## Proofs

`TcpServerProofs` proves, for every finite set of connections, all bounds and
both values of `ResetThrows` unless said otherwise:

| theorem | statement |
|---|---|
| `TypeCorrect` | the type invariant |
| `NeverAhead` | the counter never exceeds the length of the list |
| `CountExact` | it equals it, while the process lives, unless a reset happened on a platform that does not throw |
| `Watched` | a listed connection has a read outstanding and its callback |
| `Listening` | an accept is outstanding or being retried |
| `ServerImplementsRegistry` | where a reset throws, initial states and steps of the server are those of the registry (or stutters) |

They use the named assumptions of `TcpServer` (finite `Conns`, natural bounds, Boolean
`ResetThrows`), the library's facts about sequences and lemmas about the
list: appending a new element, taking the head and `Without` keep a sequence
without duplicates and do to its set of elements what one expects.

None of the properties is inductive. The invariant `Inv` adds

- *where a connection is*: nowhere, in the backlog, or accepted, and the backlog
  and the list have no duplicates. Without it an accept could add a second
  entry for a connection, and the close callback would erase too little;
- *what is unread was sent*, which bounds `inbox`;
- *who reads is listed*: while the process lives, a connection with a read
  outstanding, or failed and not yet handled, is in the list, unless it was
  reset on a platform that does not throw, where a write error may have taken
  it off first. This is why one close means one decrement: the error handler of
  the only read runs once, and a second caller needs a reset.

`InvStep` shows that each action preserves it, one step per action; the actions that do not touch
the list share the lemma `QuietKeepsInv`, the two that close a connection share
`CloseKeepsList`. The theorems follow by temporal induction. The refinement theorem
uses the invariant to see that an accepted connection is new to the registry and
an erased one a lost member.

`PidProofs` proves, for all integer errors, gains, slider positions, limits and sizes:

| theorem | statement |
|---|---|
| `PidTypeCorrect` | the type invariant: the index is that of Kp or Ki, the window of errors keeps its size |
| `IntegralStaysBounded` | the integral is below the windup limit, or a tenth above it after the tuner enlarged it |
| `TunerTakesTurns` | at most four calls for one gain |
| `TunedGainsKept` | after the tuner has stopped by itself, gains and sliders agree until the user changes them |
| `SumFollowsErrors` | the running sum is the sum of the errors in the window |

They use the named assumptions of `Pid`: the constants are integers, the size is
positive, and the initial Ki, which `PID::Init` stores as the integral, is below the limit. The
invariant `PidInv` adds `ProbesFollowState`: the number of calls since the last
turn is the position of `tune_state` in its cycle. `TurnsEnd` alone is not
inductive, since it does not say that the fourth call finds the state that turns.
`TunerStep` deals with the four states, and `TenthsBounds` and `ErrorsAfterBounds` with the
arithmetic of the integral.

`SumIsOfRecent` is inductive beside the types, but what happens to a sum when an error is
added at the end or taken off at the front needs induction over the window. The provers have none
over predicates, but have one over sets of numbers: `Induction` in
`SequenceLemmas` says that a set with 0 and with the next number of each of its numbers
below n contains all up to n, and follows from `LeastNumber`. `Sums` is written for it, as a
recursive function of how many errors are added up.

`MonitorProofs` builds on `TcpServerProofs`:

| theorem | statement |
|---|---|
| `MonitorTypeCorrect` | the type invariant of both threads |
| `InstancesCounted` | `instance_count` is the number of windows in the map, the one of the null pointer included |
| `ServerServes` | `run()` returns only after `stop()` or with the process |
| `ThreadJoined` | `main` does not leave the server thread behind |
| `MonitorImplementsDisplay` | both threads together implement `PlotDisplay`, disturbed looks included |

`MonitorInv` is `Inv` of the server, `ReadErrorIsLoss`, the types, the counter, and two more
facts: `Ending` relates the steps of the two threads once the loop has ended, and `Copies`
says what a frame may conclude from a copy of the list, however torn: a connection in it was
admitted, and a copy is disturbed unless the list is the only value its memory has had. A step of the server keeps the first part by
the lemmas of `TcpServerProofs`; a step that only ends the process is `DeathKeepsInv`.
`CopyFromMemory` and `UndisturbedCopy` say what `CopiesOf` can give. The refinement needs `Copies` again, for the plots that come and go (`UpdatesDisplay`), and
`EndsAsked`: the program ends only when the user has asked for it. Each group of steps has its
lemma: what peers and handlers do is `PeersMoveInDisplay`, a frame `UpdatesDisplay` and
`RendersInDisplay`, the end `ExitEndsDisplay`; every other step is a stutter.

`ToastsProofs`, for any number of toasts, limit and lifetimes:

| theorem | statement |
|---|---|
| `ToastsTypeCorrect` | the type invariant |
| `LiveToastsStay` | only an expired toast is removed |
| `OldestShown` | a walk that removes nothing shows the oldest, in order, all or at least as many as the limit |
| `WalkLeavesFew` | of the toasts expired when it began, a walk leaves no more than it removes |

The last two need to know what a walk has done so far: `ShownInOrder` (it has shown the
first ones up to its index) and `FewDuePassed` (each expired toast it passed over cost one
removal). `DistinctIds` lets a toast be followed while the vector shifts under the index.

`ExchangeProofs`, for any number and any lengths of samples and any size of `data_` they fit in with their terminator:

| theorem | statement |
|---|---|
| `ExchangeTypeCorrect` | the type invariant; every copy that a racing frame ends with is a text |
| `TextSettles` | between reads `data_` up to its terminator is the sample that was sent |
| `OneAnswerEach` | one answer for each sample |

`Lockstep` says where the one message under way is, `TextInPlace` what of `data_` is its
text, and `LastCellNul` that the last cell always ends it. "The first terminator"
exists because numbers are well ordered: `LeastNumber` in `SequenceLemmas`, from
the library's theorem about the order of the naturals. That module also holds the facts about
appending, taking the head, removing an element and prefixes and suffixes by place that several proofs share.

`PlotWindowsProofs`, for any windows, numbers, limits and clock:

| theorem | statement |
|---|---|
| `WindowsTypeCorrect` | the type invariant |
| `FilesAreRecordings` | a file is one window's recording, or its beginning |
| `ShownIsRecorded` | so is what the menu shows, but for a last number cut short |
| `PlotIsEnd` | after each frame the plot is the end of the recording, within the limit |
| `QuietNamesStay` | no recording is written over another before a window opens |
| `WindowsImplementArchive` | windows, files and the saved plot implement `RecordingArchive` |

`WindowsInv` adds `OpenCounted` (the counter is the number of open windows; it is why names
written in one second differ) and `QuietAbove` (those names have a larger counter than the
next). `PlotsAreEnds`, `FilesOK` and `ShownOK` state the rest place by place, which the
provers handle better than prefixes; `WorkOK` says which windows a frame still deals with.
The refinement adds `NewAreEmpty` (a window that was never open has no rows) and two facts about
the mapping: `StoredAppend` (a row appended to a recording is a row appended to what is
stored of it) and `StoredRow` (what is stored of a row is a row of the archive). It uses `FilesOK`
to see that a row cut short was followed by nothing.

`SendingProofs`, for any lengths up to 15, any capacity and number of answers:

| theorem | statement |
|---|---|
| `SendingTypeCorrect` | the type invariant; no write takes more than the length it began with |
| `AnswersArriveInOrder` | each answer's places in order, none missing or twice; one answer after the other until the buffer first fills |
| `AnswersAreNotStale` | each byte is of the output that was the latest at the answer's read, or of a later one |

`SendingInv` adds `Unfilled` (until then nothing waits and every write is done at
once, but for the one that has noted its length and not yet sent), `LatestInCells` and `NotAskedYet`. `StreamGrows` is the lemma that everything
that transmits shares. `AnswersAreNotStale` holds however texts mix.
It rests on `CellsOfLater`: for every answer asked for, done or not, each cell up to its length holds a
character, at that place, of its output or of a later one, because an assignment overwrites
the cells it needs and leaves the others with what they had.

**Only model-checked:** all liveness (`DisconnectIsNoticed`, `PlotAppears`, `StaleWindowGoes`,
`QuitEndsProgram`, `EverySampleAnswered`, `OutputCatchesUp`, `ExpiredLeave`, `WritesProgress`) and
the fairness part of the refinement (`ImplementsRegistry`; `ServerImplementsRegistry` proves
its safety part, `RegistrySafety`): the provers know nothing of `ENABLED` and so of fairness. Every
invariant, action property and safety refinement that a passing run checks is also proved.

**Proved without a run of its own:** `InstanceCountExact` and
`FilesHoldRecordings` are stated separately for the reader and proved (`InstancesCounted`,
`FilesAreRecordings`). They say in one sentence each what the abstract
specifications say step by step, so the runs check `ImplementsDisplay` and
`ImplementsArchive` in their place.

## What is not modelled

- The arithmetic of doubles in the PID (rounding, overflow, NaN from `std::stod`), and
  the value of its output.
- A client that sends without waiting, and texts that TCP delivers in pieces: a read that fills all of `data_` puts
  the terminator out of bounds, after which behaviour is undefined (`ServerModule.cpp:103`).
  The same happens with one text of 128 characters or more, which `SizeAssumption` excludes.
- Outputs of more than 15 characters, for which the string allocates memory that an
  assignment may free under a write. The greeting of `start` is in memory of its own.
- Text that is not a number: `std::stod` throws in the main thread.
- The races of the two threads on `logs` (`main.cpp:159`), on the vector of notifications (an
  insertion and a round of the walk are atomic in `Toasts`) and within one assignment of
  the output beyond what `Exchange` says of it.
- Limits typed into the slider of the plot that are 0 or negative (`PlotWindow.cpp:32` compares a
  `size_t`), and the three vectors of a plot one by one: they grow and shrink in the same statements.
- Files that others write or remove: a recording that has gone is read as nothing.
- Drawing, layout, colours, fonts, SDL and OpenGL, the control panel, build and packaging; Boost
  and ImPlot, except for the completions of the operations the server starts and the
  reactor's queue of writes.

## Plan

In the order they were written: `TcpServer` with `ConnectionRegistry`, `Monitor`,
`Exchange`, `Pid`, `Toasts`, `PlotWindows`, `Sending`, each followed by its
proofs, then `RecordingArchive` and `PlotDisplay` with the proofs that
`PlotWindows` and `Monitor` implement them. What is left is what the list above gives a reason for. The one part of the
program's own logic that could still be added is `handle_read` for a client
that does not wait, up to the point where behaviour becomes undefined.
