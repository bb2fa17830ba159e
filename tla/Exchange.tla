------------------------------ MODULE Exchange ------------------------------
(***************************************************************************)
(* What one connection carries (ServerModule.cpp, PlotWindow.cpp, main.cpp *)
(* render_windows): a client sends a sample and waits for the answer, as   *)
(* Tests/Pid_regulator_test/SensorOutTest.py does; the server thread reads *)
(* into data_, terminates the text and answers with                        *)
(* latest_data_to_send_; the main thread, once a frame and without a lock, *)
(* copies the text out of data_, gives it to the plot window and its PID,  *)
(* and stores what the window puts out in latest_data_to_send_.            *)
(*                                                                         *)
(* A sample is a text of Width[k] characters; character p of sample k is   *)
(* <<k, p>>.  A number put out by the PID is named by the sample it was    *)
(* computed from.                                                          *)
(***************************************************************************)
EXTENDS Integers, Sequences, FiniteSets, SequencesExt

CONSTANTS
    Width,      \* Width[k]: the length of the text of sample k
    Size        \* the size of data_ (128)

ASSUME WidthAssumption == Width \in Seq(Nat \ {0})

(* A text that fills data_ leaves no room for its terminator, which is     *)
(* then written behind it: what the program does next is undefined, so the *)
(* client of the model sends shorter numbers.                              *)
ASSUME SizeAssumption == Size \in Nat \ {0} /\ \A k \in DOMAIN Width : Width[k] < Size

VARIABLES
    client,         \* "idle", "waiting" for an answer, or "confused"
    sent,           \* samples sent so far
    answer,         \* the last answer the client took
    wire,           \* characters on their way to the server
    replies,        \* answers on their way to the client
    data_,
    reading,        \* "armed", or "ok": completed, its handler still to run
    bytes_transferred,
    chunk,          \* the characters of the last completed read
    latest_data_to_send_,
    frame,          \* "idle", "copying" data_, "assigning" the output
    seen,           \* seen[i]: what cell i of data_ has held since the
                    \* copy under way began
    shown,          \* the text last given to PlotWindow::Render
    visible,        \* is the window open, so that its PID widgets run?
    pid_enable,
    pid,            \* the sample last given to PID::UpdateError
    output          \* the number being assigned

clientVars == <<client, sent, answer>>
readVars == <<data_, reading, bytes_transferred, chunk>>
frameVars == <<frame, seen, shown, visible, pid_enable, pid, output>>
exchangeVars == <<clientVars, wire, replies, readVars, latest_data_to_send_, frameVars>>

Samples == DOMAIN Width
Message(k) == [p \in 1..Width[k] |-> <<k, p>>]
Nul == <<0, 0>>
Cells == 0..(Size - 1)
Chars == UNION {ToSet(Message(k)) : k \in Samples}

Zero == 0           \* "0", "0.000000": the answer while the PID is off
Gains == -1         \* computed from the gains PID::Init stores as errors
Torn == -2          \* characters of two numbers, out of a racing assignment
Numbers == Samples \cup {Zero, Gains}

ExchangeTypeOK ==
    /\ client \in {"idle", "waiting", "confused"}
    /\ sent \in 0..Len(Width)
    /\ answer \in Numbers \cup {Torn}
    /\ wire \in Seq(Chars)
    /\ replies \in Seq(Numbers \cup {Torn})
    /\ data_ \in [Cells -> Chars \cup {Nul}]
    /\ reading \in {"armed", "ok"}
    /\ bytes_transferred \in 0..Size
    /\ chunk \in Seq(Chars)
    /\ latest_data_to_send_ \in Numbers
    /\ frame \in {"idle", "copying", "assigning"}
    /\ seen \in [Cells -> SUBSET (Chars \cup {Nul})]
    /\ shown \in Seq(Chars)
    /\ visible \in BOOLEAN /\ pid_enable \in BOOLEAN
    /\ pid \in Samples \cup {Gains}
    /\ output \in Numbers

ExchangeInit ==
    /\ client = "idle" /\ sent = 0 /\ answer = Zero
    /\ wire = << >> /\ replies = << >>
    /\ data_ = [i \in Cells |-> Nul]
    /\ reading = "armed" /\ bytes_transferred = 0 /\ chunk = << >>
    /\ latest_data_to_send_ = Zero
    /\ frame = "idle" /\ seen = [i \in Cells |-> {}] /\ shown = << >>
    /\ visible = TRUE /\ pid_enable = FALSE /\ pid = Gains /\ output = Zero

-----------------------------------------------------------------------------
(* The client. *)
ClientSends ==
    /\ client = "idle"
    /\ sent < Len(Width)
    /\ sent' = sent + 1
    /\ wire' = wire \o Message(sent + 1)
    /\ client' = "waiting"
    /\ UNCHANGED <<answer, replies, readVars, latest_data_to_send_, frameVars>>

(* recv() returns all that has arrived; two answers run into one another   *)
(* do not parse as a number.                                               *)
ClientReceives ==
    /\ client = "waiting"
    /\ replies # << >>
    /\ IF Len(replies) = 1
          THEN client' = "idle" /\ answer' = Head(replies)
          ELSE client' = "confused" /\ UNCHANGED answer
    /\ replies' = << >>
    /\ UNCHANGED <<sent, wire, readVars, latest_data_to_send_, frameVars>>

-----------------------------------------------------------------------------
(***************************************************************************)
(* The server thread.                                                      *)
(***************************************************************************)
(* A copy under way may find any cell as it was or as it becomes. *)
Observe ==
    seen' = IF frame = "copying" THEN [i \in Cells |-> seen[i] \cup {data_'[i]}] ELSE seen

(* async_read_some(buffer(data_)): the characters are in data_ as soon as  *)
(* the read completes, before its handler runs.  All that has arrived and  *)
(* fits is read; a text this short travels in one segment.                 *)
Receive ==
    /\ reading = "armed"
    /\ wire # << >>
    /\ LET n == IF Len(wire) < Size THEN Len(wire) ELSE Size
       IN  /\ data_' = [i \in Cells |-> IF i < n THEN wire[i + 1] ELSE data_[i]]
           /\ chunk' = SubSeq(wire, 1, n)
           /\ wire' = SubSeq(wire, n + 1, Len(wire))
           /\ bytes_transferred' = n
    /\ reading' = "ok"
    /\ Observe
    /\ UNCHANGED <<clientVars, replies, latest_data_to_send_,
                   frame, shown, visible, pid_enable, pid, output>>

(* Mutants of Terminated: no terminator; the digit '0' for '\0'.           *)
NotTerminated(n) == data_
DigitAppended(n) == [data_ EXCEPT ![n] = <<0, 48>>]

(* data_[bytes_transferred] = '\0'.                                         *)
Terminated(n) == [data_ EXCEPT ![n] = Nul]

(* What a reader of latest_data_to_send_ may get while it is assigned.     *)
LatestNow ==
    {latest_data_to_send_}
        \cup (IF frame = "assigning" THEN {output, Torn} ELSE {})

(* Mutant of HandleRead: the answer is left to the frame loop.             *)
ReadWithoutAnswer ==
    /\ reading = "ok"
    /\ data_' = Terminated(bytes_transferred)
    /\ reading' = "armed"
    /\ Observe
    /\ UNCHANGED <<clientVars, wire, replies, bytes_transferred, chunk, latest_data_to_send_,
                   frame, shown, visible, pid_enable, pid, output>>

(* handle_read: terminate, answer, read on.                                *)
HandleRead ==
    /\ reading = "ok"
    /\ data_' = Terminated(bytes_transferred)
    /\ \E r \in LatestNow : replies' = Append(replies, r)
    /\ reading' = "armed"
    /\ Observe
    /\ UNCHANGED <<clientVars, wire, bytes_transferred, chunk, latest_data_to_send_,
                   frame, shown, visible, pid_enable, pid, output>>

-----------------------------------------------------------------------------
(***************************************************************************)
(* The main thread.                                                        *)
(***************************************************************************)
(* get_latest_data() copies data_ up to its terminator.                    *)
BeginCopy ==
    /\ frame = "idle"
    /\ frame' = "copying"
    /\ seen' = [i \in Cells |-> {data_[i]}]
    /\ UNCHANGED <<clientVars, wire, replies, readVars, latest_data_to_send_,
                   shown, visible, pid_enable, pid, output>>

TextOf(cells) ==
    LET end == CHOOSE n \in Cells : cells[n] = Nul /\ \A i \in 0..(n - 1) : cells[i] # Nul
    IN  [p \in 1..end |-> cells[p - 1]]

(* Each character is copied before, between or after the reads and their   *)
(* handlers that run meanwhile.                                            *)
CopiedTexts ==
    {TextOf(cells) : cells \in
        {c \in [Cells -> UNION {seen[i] : i \in Cells}] : \A i \in Cells : c[i] \in seen[i]}}

NothingReceived ==
    /\ frame = "copying"
    /\ << >> \in CopiedTexts
    /\ frame' = "idle"
    /\ seen' = [i \in Cells |-> {}]
    /\ UNCHANGED <<clientVars, wire, replies, readVars, latest_data_to_send_,
                   shown, visible, pid_enable, pid, output>>

(* Mutant of RenderText: a text that is on the plot already is skipped.    *)
RenderNews(clicked) ==
    /\ frame = "copying"
    /\ clicked => visible
    /\ \E text \in CopiedTexts \ {<< >>} :
          /\ shown' = text
          /\ pid_enable' = (pid_enable # clicked)
          /\ IF text = shown THEN UNCHANGED <<pid, output>>
             ELSE /\ pid' = IF pid_enable' /\ visible THEN text[1][1] ELSE pid
                  /\ output' = IF pid_enable' THEN pid ELSE Zero
    /\ frame' = "assigning"
    /\ seen' = [i \in Cells |-> {}]
    /\ UNCHANGED <<clientVars, wire, replies, readVars, latest_data_to_send_, visible>>

(* PlotWindow::Render takes the output of the PID before it feeds it the   *)
(* new error; the button that switches the PID lies between the two.       *)
(* GetPidOutput() is 0 while the PID is off.  A window that is folded or   *)
(* behind another tab runs no widgets, and feeds no PID.  (The sample a    *)
(* text stands for is the one of its first character.)                     *)
RenderText(clicked) ==
    /\ frame = "copying"
    /\ clicked => visible
    /\ \E text \in CopiedTexts \ {<< >>} :
          /\ shown' = text
          /\ pid_enable' = (pid_enable # clicked)
          /\ pid' = IF pid_enable' /\ visible THEN text[1][1] ELSE pid
          /\ output' = IF pid_enable' THEN pid ELSE Zero
    /\ frame' = "assigning"
    /\ seen' = [i \in Cells |-> {}]
    /\ UNCHANGED <<clientVars, wire, replies, readVars, latest_data_to_send_, visible>>

(* Mutant of UpdateSendingData: the output is sent as soon as it is known. *)
PushOutput ==
    /\ frame = "assigning"
    /\ latest_data_to_send_' = output
    /\ replies' = Append(replies, output)
    /\ frame' = "idle"
    /\ UNCHANGED <<clientVars, wire, readVars, seen, shown, visible, pid_enable, pid, output>>

UpdateSendingData ==
    /\ frame = "assigning"
    /\ latest_data_to_send_' = output
    /\ frame' = "idle"
    /\ UNCHANGED <<clientVars, wire, replies, readVars, seen, shown, visible, pid_enable, pid, output>>

MainLoop == BeginCopy \/ NothingReceived \/ RenderText(FALSE) \/ UpdateSendingData

UserClicks == RenderText(TRUE)

UserFoldsWindow ==
    /\ frame = "idle"
    /\ visible' = ~visible
    /\ UNCHANGED <<clientVars, wire, replies, readVars, latest_data_to_send_,
                   frame, seen, shown, pid_enable, pid, output>>

ExchangeNext ==
    \/ ClientSends \/ ClientReceives
    \/ Receive \/ HandleRead
    \/ MainLoop \/ UserClicks \/ UserFoldsWindow

(* Both threads run and the client takes the answers it waits for; it need *)
(* not send, and the user need do nothing.                                 *)
ExchangeFairness ==
    /\ WF_exchangeVars(ClientReceives)
    /\ WF_exchangeVars(Receive \/ HandleRead)
    /\ WF_exchangeVars(MainLoop)

ExchangeSpec == ExchangeInit /\ [][ExchangeNext]_exchangeVars /\ ExchangeFairness

-----------------------------------------------------------------------------
(***************************************************************************)
(* Properties.                                                             *)
(***************************************************************************)
(* Once its handler has run, data_ holds exactly the text of the last read *)
(* whatever longer text was there before.                                  *)
SettledText == reading = "armed" => TextOf(data_) = chunk

(* A client that waits for each answer gets one for each sample: none is   *)
(* on its way while it does not wait, and never two at a time.             *)
OneAnswerPerSample ==
    /\ client # "confused"
    /\ Len(replies) <= 1
    /\ client = "idle" => replies = << >> /\ wire = << >> /\ reading = "armed"

(* Every sample is answered, however slow or fast the frames are. *)
EverySampleAnswered == client = "waiting" ~> client # "waiting"

(* When the last sample has been sent and the PID stays on, in a window    *)
(* that stays open, what would be sent next is in the end computed from    *)
(* that sample (PlotWindow.cpp:20 runs again although nothing new arrives).*)
OutputCatchesUp ==
    <>[](sent = Len(Width) /\ pid_enable /\ visible) => <>[](latest_data_to_send_ = Len(Width))

(* "sends only one number as an actual Data from one sensor"               *)
(* (README.md:87): the number plotted is read from the characters of one   *)
(* sample, never from those of two.                                        *)
PlotsOneSample == \A x, y \in ToSet(shown) : x[1] = y[1]
=============================================================================
