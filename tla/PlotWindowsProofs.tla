-------------------------- MODULE PlotWindowsProofs --------------------------
(***************************************************************************)
(* Proofs about PlotWindows, for any set of windows, numbers, slider       *)
(* positions and bounds.                                                   *)
(***************************************************************************)
EXTENDS PlotWindows, SequenceLemmas, SequenceTheorems, FiniteSetTheorems, TLAPS

-----------------------------------------------------------------------------
(***************************************************************************)
(* The inductive invariant: besides the types, what is left of a frame,    *)
(* what the counter counts, and how plots, files and the saved plot relate *)
(* to what each window has recorded.                                       *)
(***************************************************************************)
Recorded == Seq(Nat \X Data)

Kept(w) == window[w] \in {"closed", "lost"}

WorkOK ==
    /\ closing \cap rendering = {}
    /\ \A w \in opening : window[w] = "none"
    /\ \A w \in rendering : window[w] = "open" \/ w \in opening
    /\ mode # "running" => opening = {} /\ rendering = {}
    /\ mode = "ended" => Open = closing
    /\ mode = "dead" => Open = {}

OpenCounted == mode # "dead" => instance_count = Cardinality(Open)

QuietAbove == \A n \in quiet : n \in DOMAIN files /\ n[1] > instance_count

EndOf(rows, all) ==
    /\ Len(rows) <= Len(all)
    /\ \A k \in 1..Len(rows) : rows[k] = all[Len(all) - Len(rows) + k]

PlotsAreEnds ==
    /\ saved \in [Windows -> Recorded]
    /\ \A w \in Windows : EndOf(plot[w], saved[w])

BeginningOf(rows, w) ==
    /\ Len(rows) <= Len(saved[w])
    /\ \A k \in 1..Len(rows) : rows[k] = Stored(saved[w])[k]

FileOK(f) ==
    /\ Kept(f.of)
    /\ BeginningOf(f.rows, f.of)
    /\ window[f.of] = "closed" => Len(f.rows) = Len(saved[f.of])
    /\ f.torn => Len(f.rows) < Len(saved[f.of])

FilesOK == \A n \in DOMAIN files : FileOK(files[n])

ShownFrom(w) ==
    /\ Kept(w)
    /\ Len(shown) <= Len(saved[w])
    /\ \A k \in 1..(Len(shown) - 1) : shown[k] = Stored(saved[w])[k]
    /\ \/ shown[Len(shown)] = Stored(saved[w])[Len(shown)]
       \/ shown[Len(shown)][2] = Cut

ShownOK == shown # << >> => \E w \in Windows : ShownFrom(w)

WindowsInv ==
    /\ PlotWindowsTypeOK /\ WorkOK /\ OpenCounted /\ QuietAbove
    /\ PlotsAreEnds /\ FilesOK /\ ShownOK

-----------------------------------------------------------------------------
(* Conversion keeps the rows in their places. *)
LEMMA StoredRows ==
    ASSUME NEW rows \in Recorded
    PROVE  /\ Stored(rows) \in Rows
           /\ Len(Stored(rows)) = Len(rows)
<1>1. Len(rows) \in Nat /\ DOMAIN rows = 1..Len(rows)
  BY LenProperties DEF Recorded
<1>2. ASSUME NEW k \in 1..Len(rows)
      PROVE  <<rows[k][1] % Day, Printed[rows[k][2]]>> \in Nat \X Nat
  <2>1. rows[k] \in Nat \X Data
    BY ElementOfSeq DEF Recorded
  <2>2. rows[k][1] % Day \in Nat
    BY <2>1, TimeAssumption
  <2>3. Printed[rows[k][2]] \in Nat
    BY <2>1, DataAssumption
  <2> QED  BY <2>2, <2>3
<1>3. Stored(rows) \in [1..Len(rows) -> Nat \X Nat]
  BY <1>1, <1>2 DEF Stored
<1>4. Stored(rows) \in Rows
  BY <1>1, <1>3, SeqDef DEF Rows
<1> QED  BY <1>1, <1>3, <1>4, LenProperties DEF Rows

(* Windows that are open are finitely many and counted. *)
LEMMA OpenFinite ==
    ASSUME PlotWindowsTypeOK
    PROVE  IsFiniteSet(Open) /\ Cardinality(Open) \in Nat
<1>1. IsFiniteSet(Open)
  BY WindowsAssumption, FS_Subset DEF Open
<1> QED  BY <1>1, FS_CardinalityType

(* Files and the saved plot depend only on windows that are gone.          *)
LEMMA GoneStayGone ==
    ASSUME \A w \in Windows : Kept(w) => window'[w] = window[w] /\ saved'[w] = saved[w]
    PROVE  /\ \A f : f.of \in Windows /\ FileOK(f) => FileOK(f)'
           /\ shown' = shown /\ ShownOK => ShownOK'
<1>1. ASSUME NEW f, f.of \in Windows, FileOK(f) PROVE FileOK(f)'
  BY <1>1 DEF FileOK, Kept, BeginningOf, Stored
<1>2. ASSUME shown' = shown, NEW w \in Windows, ShownFrom(w) PROVE ShownFrom(w)'
  BY <1>2 DEF ShownFrom, Kept, Stored
<1> QED  BY <1>1, <1>2 DEF ShownOK

(* A frame's other steps leave windows, files and the saved plot alone.    *)
LEMMA OthersKeepInv ==
    ASSUME WindowsInv,
           \/ Tick \/ Quit \/ ClosePlot
           \/ \E gone, come \in SUBSET Windows : BeginFrame(gone, come)
           \/ \E w \in Windows : NothingToRender(w)
    PROVE  WindowsInv'
<1>1. UNCHANGED <<window, instance_count, saved, plot, files, shown, quiet, id, max_data_on_plot>>
  BY DEF Tick, Quit, ClosePlot, BeginFrame, NothingToRender, windows, menu
<1>2. Open' = Open
  BY <1>1 DEF Open
<1>3. PlotsAreEnds' /\ QuietAbove'
  BY <1>1 DEF WindowsInv, PlotsAreEnds, EndOf, QuietAbove
<1>4. FilesOK' /\ ShownOK'
  <2>1. /\ \A f : f.of \in Windows /\ FileOK(f) => FileOK(f)'
        /\ ShownOK => ShownOK'
    BY <1>1, GoneStayGone
  <2>2. \A n \in DOMAIN files : files[n].of \in Windows /\ FileOK(files[n])
    BY DEF WindowsInv, PlotWindowsTypeOK, FilesOK
  <2>3. FilesOK'
    BY <1>1, <2>1, <2>2 DEF FilesOK
  <2> QED  BY <2>1, <2>3 DEF WindowsInv
<1>5. PlotWindowsTypeOK' /\ WorkOK' /\ OpenCounted'
  <2> USE DEF WindowsInv
  <2>1. PlotWindowsTypeOK /\ WorkOK /\ OpenCounted
    OBVIOUS
  <2>2. CASE Tick
    <3>1. now' \in 0..MaxNow
      BY <2>1, <2>2, TimeAssumption DEF Tick, PlotWindowsTypeOK
    <3>2. UNCHANGED <<starts, frames, mode, current_time, work, windows, files, menu, quiet>>
      BY <2>2 DEF Tick
    <3> QED
      BY <1>1, <1>2, <2>1, <3>1, <3>2
      DEF PlotWindowsTypeOK, WorkOK, OpenCounted, work, windows, menu
  <2>3. CASE Quit
    BY <1>1, <1>2, <2>1, <2>3
    DEF Quit, Busy, PlotWindowsTypeOK, WorkOK, OpenCounted, clock, menu
  <2>4. CASE ClosePlot
    BY <1>1, <1>2, <2>1, <2>4 DEF ClosePlot, PlotWindowsTypeOK, WorkOK, OpenCounted, clock, work
  <2>5. ASSUME NEW gone \in SUBSET Windows, NEW come \in SUBSET Windows, BeginFrame(gone, come)
        PROVE  PlotWindowsTypeOK' /\ WorkOK' /\ OpenCounted'
    <3>1. /\ mode = "running" /\ mode' = mode
          /\ closing' = gone /\ opening' = come /\ rendering' = (Open \ gone) \cup come
          /\ gone \subseteq Open /\ \A w \in come : window[w] = "none"
          /\ current_time' = now
          /\ UNCHANGED <<clock, windows, menu>>
      BY <2>5 DEF BeginFrame
    <3>2. frames' \in 0..MaxFrames
      BY <2>1, <2>5, TimeAssumption DEF BeginFrame, PlotWindowsTypeOK
    <3>3. WorkOK' /\ OpenCounted'
      BY <1>1, <1>2, <2>1, <3>1 DEF WorkOK, OpenCounted, Open
    <3>4. rendering' \subseteq Windows /\ closing' \subseteq Open'
      BY <1>2, <3>1 DEF Open
    <3> QED
      BY <1>1, <1>2, <2>1, <3>1, <3>2, <3>3, <3>4 DEF PlotWindowsTypeOK, clock, windows, menu
  <2>6. ASSUME NEW w \in Windows, NothingToRender(w)
        PROVE  PlotWindowsTypeOK' /\ WorkOK' /\ OpenCounted'
    <3>1. /\ closing = {} /\ opening = {} /\ rendering' = rendering \ {w}
          /\ UNCHANGED <<clock, frames, mode, current_time, closing, opening, menu>>
      BY <2>6 DEF NothingToRender
    <3> QED
      BY <1>1, <1>2, <2>1, <3>1 DEF PlotWindowsTypeOK, WorkOK, OpenCounted, clock, menu
  <2> QED  BY <2>2, <2>3, <2>4, <2>5, <2>6
<1> QED  BY <1>3, <1>4, <1>5 DEF WindowsInv

(* A process that dies loses the open windows; files may be written before *)
(* (DiesWriting), so they are not spoken of here.                          *)
LEMMA DieKeeps ==
    ASSUME WindowsInv, Die
    PROVE  /\ WorkOK' /\ OpenCounted' /\ PlotsAreEnds'
           /\ quiet' = quiet /\ instance_count' = instance_count
           /\ \A w \in Windows : Kept(w) => window'[w] = window[w] /\ saved'[w] = saved[w]
           /\ \A w \in Windows : w \in Open => window'[w] = "lost" /\ saved'[w] = saved[w]
           /\ (files' = files /\ shown' = shown /\ open_saved_' = open_saved_)
                 => PlotWindowsTypeOK'
<1>1. /\ mode' = "dead"
      /\ window' = [w \in Windows |-> IF w \in Open THEN "lost" ELSE window[w]]
      /\ closing' = {} /\ opening' = {} /\ rendering' = {}
      /\ UNCHANGED <<clock, frames, current_time, quiet,
                     instance_count, id, max_data_on_plot, saved, plot>>
  BY DEF Die
<1>2. Open' = {}
  BY <1>1 DEF Open
<1>3. WorkOK' /\ OpenCounted'
  BY <1>1, <1>2 DEF WorkOK, OpenCounted
<1>4. PlotsAreEnds'
  BY <1>1 DEF WindowsInv, PlotsAreEnds, EndOf
<1>5. \A w \in Windows : Kept(w) => window'[w] = window[w] /\ saved'[w] = saved[w]
  BY <1>1 DEF Kept, Open
<1>6. ASSUME files' = files, shown' = shown, open_saved_' = open_saved_
      PROVE  PlotWindowsTypeOK'
  <2>1. window' \in [Windows -> {"none", "open", "closed", "lost"}]
    BY <1>1 DEF WindowsInv, PlotWindowsTypeOK
  <2> QED  BY <1>1, <1>2, <1>6, <2>1 DEF WindowsInv, PlotWindowsTypeOK, clock
<1> QED  BY <1>1, <1>3, <1>4, <1>5, <1>6

LEMMA DeathKeepsInv ==
    ASSUME WindowsInv,
           ProcessDies \/ \E name \in DOMAIN files : DiesReading(name)
    PROVE  WindowsInv'
<1>1. Die /\ files' = files /\ shown' = shown /\ open_saved_' = open_saved_
  BY DEF ProcessDies, DiesReading, menu
<1>2. /\ WorkOK' /\ OpenCounted' /\ PlotsAreEnds' /\ PlotWindowsTypeOK'
      /\ quiet' = quiet /\ instance_count' = instance_count
      /\ \A w \in Windows : Kept(w) => window'[w] = window[w] /\ saved'[w] = saved[w]
  BY <1>1, DieKeeps
<1>3. /\ \A f : f.of \in Windows /\ FileOK(f) => FileOK(f)'
      /\ ShownOK => ShownOK'
  BY <1>1, <1>2, GoneStayGone
<1>4. \A n \in DOMAIN files : files[n].of \in Windows /\ FileOK(files[n])
  BY DEF WindowsInv, PlotWindowsTypeOK, FilesOK
<1>5. FilesOK' /\ ShownOK' /\ QuietAbove'
  BY <1>1, <1>2, <1>3, <1>4 DEF WindowsInv, FilesOK, QuietAbove
<1> QED  BY <1>2, <1>5 DEF WindowsInv

(* What Store adds: a file of a window that is gone afterwards. *)
LEMMA StoreKeeps ==
    ASSUME WindowsInv, NEW file \in [of : Windows, rows : Rows, torn : BOOLEAN],
           Store(file), FileOK(file)', instance_count > 0,
           \A w \in Windows : Kept(w) => window'[w] = window[w] /\ saved'[w] = saved[w]
    PROVE  /\ FilesOK'
           /\ DOMAIN files' = DOMAIN files \cup {FileName}
           /\ DOMAIN files' \subseteq (Nat \ {0}) \X (0..MaxNow)
           /\ \A n \in DOMAIN files' : files'[n] \in [of : Windows, rows : Rows, torn : BOOLEAN]
           /\ FileName \notin quiet
<1>1. files' = [n \in DOMAIN files \cup {FileName} |-> IF n = FileName THEN file ELSE files[n]]
  BY DEF Store
<1>2. \A f : f.of \in Windows /\ FileOK(f) => FileOK(f)'
  BY GoneStayGone
<1>3. \A n \in DOMAIN files : /\ files[n] \in [of : Windows, rows : Rows, torn : BOOLEAN]
                              /\ files[n].of \in Windows /\ FileOK(files[n])
  BY DEF WindowsInv, PlotWindowsTypeOK, FilesOK
<1>4. FileName \in (Nat \ {0}) \X (0..MaxNow)
  BY DEF FileName, WindowsInv, PlotWindowsTypeOK
<1>5. FileName \notin quiet
  <2>1. FileName[1] = instance_count /\ instance_count \in Nat
    BY DEF FileName, WindowsInv, PlotWindowsTypeOK
  <2> QED  BY <2>1 DEF WindowsInv, QuietAbove
<1> HIDE DEF FileName
<1>6. DOMAIN files' = DOMAIN files \cup {FileName}
  BY <1>1
<1>7. ASSUME NEW n \in DOMAIN files'
      PROVE  /\ files'[n] \in [of : Windows, rows : Rows, torn : BOOLEAN]
             /\ FileOK(files[n])'
  <2>1. CASE n = FileName
    <3>1. files'[n] = file
      BY <1>1, <2>1
    <3> QED  BY <3>1
  <2>2. CASE n # FileName
    <3>1. n \in DOMAIN files /\ files'[n] = files[n]
      BY <1>1, <2>2
    <3> QED  BY <3>1, <1>2, <1>3
  <2> QED  BY <2>1, <2>2
<1>8. DOMAIN files' \subseteq (Nat \ {0}) \X (0..MaxNow)
  BY <1>4, <1>6 DEF WindowsInv, PlotWindowsTypeOK
<1> QED  BY <1>5, <1>6, <1>7, <1>8 DEF FilesOK

(* A window that is being closed is counted. *)
LEMMA ClosingCounted ==
    ASSUME WindowsInv, NEW w \in closing
    PROVE  /\ w \in Windows /\ w \in Open /\ window[w] = "open" /\ mode # "dead"
           /\ IsFiniteSet(Open) /\ instance_count = Cardinality(Open)
           /\ instance_count \in Nat /\ instance_count > 0
           /\ saved[w] \in Recorded
<1>1. w \in Windows /\ w \in Open /\ window[w] = "open"
  BY DEF WindowsInv, PlotWindowsTypeOK, Open
<1>2. mode # "dead"
  BY <1>1 DEF WindowsInv, WorkOK
<1>3. IsFiniteSet(Open) /\ instance_count = Cardinality(Open) /\ instance_count \in Nat
  BY <1>2, OpenFinite DEF WindowsInv, OpenCounted
<1>4. instance_count # 0
  BY <1>1, <1>3, FS_EmptySet
<1>5. saved[w] \in Recorded
  BY <1>1 DEF WindowsInv, PlotsAreEnds
<1> QED  BY <1>1, <1>2, <1>3, <1>4, <1>5

(* The file of a window holds its rows from the first on. *)
LEMMA CloseKeepsInv ==
    ASSUME WindowsInv, NEW w \in Windows, CloseWindow(w)
    PROVE  WindowsInv'
<1>1. /\ w \in closing /\ Store(Written(w))
      /\ quiet' = quiet \cup {FileName}
      /\ instance_count' = instance_count - 1
      /\ window' = [window EXCEPT ![w] = "closed"]
      /\ closing' = closing \ {w}
      /\ UNCHANGED <<clock, frames, mode, current_time, opening, rendering,
                     id, max_data_on_plot, saved, plot, menu>>
  BY DEF CloseWindow
<1>2. /\ w \in Open /\ window[w] = "open" /\ mode # "dead"
      /\ IsFiniteSet(Open) /\ instance_count = Cardinality(Open)
      /\ instance_count \in Nat /\ instance_count > 0
      /\ saved[w] \in Recorded
  BY <1>1, ClosingCounted
<1>3. /\ window' \in [Windows -> {"none", "open", "closed", "lost"}]
      /\ window'[w] = "closed"
      /\ \A v \in Windows : v # w => window'[v] = window[v]
      /\ Open' = Open \ {w}
  BY <1>1, <1>2 DEF WindowsInv, PlotWindowsTypeOK, Open
<1>4. instance_count' \in Nat /\ instance_count' = Cardinality(Open')
  <2>1. Cardinality(Open \ {w}) = Cardinality(Open) - 1
    BY <1>2, FS_RemoveElement
  <2> QED  BY <1>1, <1>2, <1>3, <2>1
<1>5. /\ Stored(saved[w]) \in Rows /\ Len(Stored(saved[w])) = Len(saved[w])
      /\ Len(saved[w]) \in Nat
  BY <1>2, StoredRows, LenProperties DEF Recorded
<1>6. PICK f \in [of : Windows, rows : Rows, torn : BOOLEAN] : f = Written(w)
  BY <1>5 DEF Written
<1>7. f.of = w /\ f.rows = Stored(saved[w]) /\ f.torn = FALSE
  BY <1>6 DEF Written
<1>8. FileOK(f)'
  BY <1>1, <1>3, <1>5, <1>7 DEF FileOK, Kept, BeginningOf, Stored
<1>9. \A v \in Windows : Kept(v) => window'[v] = window[v] /\ saved'[v] = saved[v]
  BY <1>1, <1>2, <1>3 DEF Kept
<1>10. /\ FilesOK'
       /\ DOMAIN files' = DOMAIN files \cup {FileName}
       /\ DOMAIN files' \subseteq (Nat \ {0}) \X (0..MaxNow)
       /\ \A n \in DOMAIN files' : files'[n] \in [of : Windows, rows : Rows, torn : BOOLEAN]
  BY <1>1, <1>2, <1>6, <1>8, <1>9, StoreKeeps
<1>11. QuietAbove'
  <2>1. FileName[1] = instance_count
    BY DEF FileName
  <2>2. ASSUME NEW n \in quiet PROVE n \in DOMAIN files /\ n[1] > instance_count
    BY DEF WindowsInv, QuietAbove
  <2>3. ASSUME NEW n \in quiet PROVE n[1] > instance_count - 1
    <3>1. n \in DOMAIN files /\ n[1] > instance_count
      BY <2>2
    <3>2. n[1] \in Nat
      BY <3>1 DEF WindowsInv, PlotWindowsTypeOK
    <3> QED  BY <3>1, <3>2, <1>2
  <2>4. instance_count > instance_count - 1
    BY <1>2
  <2> HIDE DEF FileName
  <2> QED  BY <1>1, <1>10, <2>1, <2>2, <2>3, <2>4 DEF QuietAbove
<1>12. ShownOK'
  BY <1>1, <1>9, GoneStayGone DEF WindowsInv, menu
<1>13. PlotsAreEnds'
  BY <1>1 DEF WindowsInv, PlotsAreEnds, EndOf
<1>14. WorkOK' /\ OpenCounted'
  BY <1>1, <1>2, <1>3, <1>4
  DEF WindowsInv, WorkOK, OpenCounted, PlotWindowsTypeOK
<1>15. PlotWindowsTypeOK'
  <2>1. quiet' \subseteq DOMAIN files'
    BY <1>1, <1>10 DEF WindowsInv, PlotWindowsTypeOK
  <2>2. closing' \subseteq Open'
    BY <1>1, <1>3 DEF WindowsInv, PlotWindowsTypeOK
  <2> QED
    BY <1>1, <1>3, <1>4, <1>10, <2>1, <2>2 DEF WindowsInv, PlotWindowsTypeOK, clock, menu
<1> QED  BY <1>10, <1>11, <1>12, <1>13, <1>14, <1>15 DEF WindowsInv

(* So does the beginning that is left of it when the process dies. *)
LEMMA TornKeepsInv ==
    ASSUME WindowsInv, NEW w \in Windows, DiesWriting(w)
    PROVE  WindowsInv'
<1>1. PICK f \in CutShort(w) : Store(f)
  BY DEF DiesWriting
<1>2. w \in closing /\ Die /\ UNCHANGED menu
  BY DEF DiesWriting
<1>3. /\ w \in Open /\ instance_count > 0 /\ saved[w] \in Recorded
  BY <1>2, ClosingCounted
<1>4. /\ WorkOK' /\ OpenCounted' /\ PlotsAreEnds'
      /\ quiet' = quiet /\ instance_count' = instance_count
      /\ \A v \in Windows : Kept(v) => window'[v] = window[v] /\ saved'[v] = saved[v]
      /\ window'[w] = "lost" /\ saved'[w] = saved[w]
  BY <1>2, <1>3, DieKeeps
<1>5. /\ Stored(saved[w]) \in Rows /\ Len(Stored(saved[w])) = Len(saved[w])
      /\ Len(saved[w]) \in Nat
  BY <1>3, StoredRows, LenProperties DEF Recorded
<1>6. PICK k \in 0..Len(saved[w]), t \in BOOLEAN :
        f = [of |-> w, rows |-> SubSeq(Stored(saved[w]), 1, k), torn |-> t]
  BY <1>1 DEF CutShort
<1>7. /\ f.rows \in Rows /\ Len(f.rows) = k
      /\ \A j \in 1..k : f.rows[j] = Stored(saved[w])[j]
  <2> DEFINE all == Stored(saved[w])
  <2>1. k \in Nat /\ k <= Len(all) /\ \A j \in 1..k : all[j] \in Nat \X Nat
    BY <1>5, ElementOfSeq DEF Rows
  <2> HIDE DEF all
  <2>2. /\ SubSeq(all, 1, k) \in Seq(Nat \X Nat)
        /\ Len(SubSeq(all, 1, k)) = IF 1 <= k THEN k - 1 + 1 ELSE 0
        /\ \A j \in 1..(k - 1 + 1) : SubSeq(all, 1, k)[j] = all[1 + j - 1]
    BY <2>1, SubSeqProperties
  <2>3. f.rows = SubSeq(all, 1, k)
    BY <1>6 DEF all
  <2>4. Len(f.rows) = k
    BY <2>1, <2>2, <2>3
  <2>5. \A j \in 1..k : f.rows[j] = all[j]
    BY <2>1, <2>2, <2>3
  <2> QED  BY <2>2, <2>3, <2>4, <2>5 DEF all, Rows
<1>8. f.of = w /\ f.torn = t /\ f \in [of : Windows, rows : Rows, torn : BOOLEAN]
  BY <1>6, <1>7
<1>9. f.torn => k < Len(saved[w])
  BY <1>1, <1>7 DEF CutShort
<1>10. FileOK(f)'
  <2>1. Stored(saved[w])' = Stored(saved[w])
    BY <1>4 DEF Stored
  <2> QED  BY <1>4, <1>5, <1>7, <1>8, <1>9, <2>1 DEF FileOK, Kept, BeginningOf
<1>11. /\ FilesOK'
       /\ DOMAIN files' = DOMAIN files \cup {FileName}
       /\ DOMAIN files' \subseteq (Nat \ {0}) \X (0..MaxNow)
       /\ \A n \in DOMAIN files' : files'[n] \in [of : Windows, rows : Rows, torn : BOOLEAN]
  BY <1>1, <1>3, <1>4, <1>8, <1>10, StoreKeeps
<1>12. QuietAbove'
  BY <1>4, <1>11 DEF WindowsInv, QuietAbove
<1>13. ShownOK'
  BY <1>2, <1>4, GoneStayGone DEF WindowsInv, menu
<1>14. PlotWindowsTypeOK'
  <2>1. /\ closing' = {} /\ opening' = {} /\ rendering' = {} /\ mode' = "dead"
        /\ window' \in [Windows -> {"none", "open", "closed", "lost"}]
        /\ UNCHANGED <<clock, frames, current_time, quiet,
                       instance_count, id, max_data_on_plot, saved, plot, menu>>
    BY <1>2 DEF Die, WindowsInv, PlotWindowsTypeOK
  <2>2. quiet' \subseteq DOMAIN files'
    BY <2>1, <1>11 DEF WindowsInv, PlotWindowsTypeOK
  <2> QED
    BY <2>1, <2>2, <1>11 DEF WindowsInv, PlotWindowsTypeOK, clock, menu
<1> QED  BY <1>4, <1>11, <1>12, <1>13, <1>14 DEF WindowsInv

LEMMA OpenKeepsInv ==
    ASSUME WindowsInv, NEW w \in Windows, OpenWindow(w)
    PROVE  WindowsInv'
<1>1. /\ closing = {} /\ w \in opening
      /\ id' = [id EXCEPT ![w] = instance_count]
      /\ instance_count' = instance_count + 1
      /\ window' = [window EXCEPT ![w] = "open"]
      /\ quiet' = {}
      /\ opening' = opening \ {w}
      /\ UNCHANGED <<clock, frames, mode, current_time, closing, rendering,
                     max_data_on_plot, saved, plot, files, menu>>
  BY DEF OpenWindow, InstancesAfterOpening
<1>2. window[w] = "none" /\ mode = "running" /\ w \notin Open
  BY <1>1 DEF WindowsInv, WorkOK, PlotWindowsTypeOK, Open
<1>3. /\ window' \in [Windows -> {"none", "open", "closed", "lost"}]
      /\ window'[w] = "open"
      /\ \A v \in Windows : v # w => window'[v] = window[v]
      /\ Open' = Open \cup {w}
  BY <1>1 DEF WindowsInv, PlotWindowsTypeOK, Open
<1>4. /\ IsFiniteSet(Open) /\ Cardinality(Open) \in Nat /\ instance_count = Cardinality(Open)
  BY <1>2, OpenFinite DEF WindowsInv, OpenCounted
<1>5. instance_count' \in Nat /\ instance_count' = Cardinality(Open')
  <2>1. Cardinality(Open \cup {w}) = Cardinality(Open) + 1
    BY <1>2, <1>4, FS_AddElement
  <2> QED  BY <1>1, <1>3, <1>4, <2>1
<1>6. \A v \in Windows : Kept(v) => window'[v] = window[v] /\ saved'[v] = saved[v]
  BY <1>1, <1>2, <1>3 DEF Kept
<1>7. FilesOK' /\ ShownOK'
  <2>1. /\ \A f : f.of \in Windows /\ FileOK(f) => FileOK(f)'
        /\ shown' = shown /\ ShownOK => ShownOK'
    BY <1>6, GoneStayGone
  <2>2. \A n \in DOMAIN files : files[n].of \in Windows /\ FileOK(files[n])
    BY DEF WindowsInv, PlotWindowsTypeOK, FilesOK
  <2>3. FilesOK'
    BY <1>1, <2>1, <2>2 DEF FilesOK
  <2> QED  BY <1>1, <2>1, <2>3 DEF WindowsInv, menu
<1>8. QuietAbove' /\ PlotsAreEnds'
  BY <1>1 DEF WindowsInv, QuietAbove, PlotsAreEnds, EndOf
<1>9. WorkOK' /\ OpenCounted'
  BY <1>1, <1>2, <1>3, <1>5 DEF WindowsInv, WorkOK, OpenCounted, PlotWindowsTypeOK
<1>10. PlotWindowsTypeOK'
  <2>1. id' \in [Windows -> Nat]
    BY <1>1, <1>4 DEF WindowsInv, PlotWindowsTypeOK
  <2> QED
    BY <1>1, <1>3, <1>5, <2>1 DEF WindowsInv, PlotWindowsTypeOK, clock, menu
<1> QED  BY <1>7, <1>8, <1>9, <1>10 DEF WindowsInv

(* Dropping the oldest rows leaves the end of what was recorded. *)
LEMMA TrimKeepsEnd ==
    ASSUME NEW rows \in Rows, NEW all \in Recorded, EndOf(rows, all),
           NEW row \in Nat \X Data, NEW limit \in Nat \ {0}
    PROVE  LET new == Trimmed(Append(rows, row), limit)
           IN  /\ new \in Rows
               /\ EndOf(new, Append(all, row))
               /\ Len(new) \in 1..limit
<1> DEFINE m == Len(rows)
           n == Len(all)
           longer == Append(rows, row)
           more == Append(all, row)
           cut == SubSeq(longer, (m + 1) - limit + 1, m + 1)
<1>1. m \in Nat /\ n \in Nat /\ m <= n /\ \A k \in 1..m : rows[k] = all[n - m + k]
  BY LenProperties DEF Rows, Recorded, EndOf
<1>2. row \in Nat \X Nat
  BY DataAssumption
<1>3. /\ longer \in Seq(Nat \X Nat) /\ Len(longer) = m + 1
      /\ \A k \in 1..m : longer[k] = rows[k]
      /\ longer[m + 1] = row
  BY <1>2, AppendProperties DEF Rows
<1>4. /\ Len(more) = n + 1
      /\ \A k \in 1..n : more[k] = all[k]
      /\ more[n + 1] = row
  BY AppendProperties DEF Recorded
<1>5. Trimmed(longer, limit) = IF Len(longer) > limit
        THEN SubSeq(longer, Len(longer) - limit + 1, Len(longer)) ELSE longer
  BY DEF Trimmed
<1> HIDE DEF m, n, longer, more
<1>6. \A k \in 1..(m + 1) : longer[k] = more[n - m + k]
  <2>1. ASSUME NEW k \in 1..m PROVE longer[k] = more[n - m + k]
    <3>1. n - m + k \in 1..n
      BY <1>1
    <3> QED  BY <3>1, <1>1, <1>3, <1>4
  <2>2. n - m + (m + 1) = n + 1
    BY <1>1
  <2>3. \A k \in 1..(m + 1) : k \in 1..m \/ k = m + 1
    BY <1>1
  <2> QED  BY <2>1, <2>2, <2>3, <1>3, <1>4
<1>7. CASE m + 1 > limit
  <2>1. \A k \in ((m + 1) - limit + 1)..(m + 1) : longer[k] \in Nat \X Nat
    <3>1. \A k \in ((m + 1) - limit + 1)..(m + 1) : k \in 1..(m + 1)
      BY <1>1, <1>7
    <3> QED  BY <3>1, <1>3, ElementOfSeq
  <2>2. /\ (m + 1) - limit + 1 \in Int /\ m + 1 \in Int
    BY <1>1
  <2>3. /\ cut \in Seq(Nat \X Nat)
        /\ Len(cut) = IF (m + 1) - limit + 1 <= m + 1
                         THEN (m + 1) - ((m + 1) - limit + 1) + 1 ELSE 0
        /\ \A k \in 1..((m + 1) - ((m + 1) - limit + 1) + 1) :
              cut[k] = longer[((m + 1) - limit + 1) + k - 1]
    BY <2>1, <2>2, SubSeqProperties
  <2>4. cut = Trimmed(longer, limit)
    BY <1>3, <1>5, <1>7
  <2> HIDE DEF cut
  <2>5. Len(cut) = limit
    BY <1>1, <2>3
  <2>6. ASSUME NEW k \in 1..limit PROVE cut[k] = more[(n + 1) - limit + k]
    <3>1. /\ k \in 1..((m + 1) - ((m + 1) - limit + 1) + 1)
          /\ ((m + 1) - limit + 1) + k - 1 = (m + 1) - limit + k
          /\ (m + 1) - limit + k \in 1..(m + 1)
          /\ n - m + ((m + 1) - limit + k) = (n + 1) - limit + k
      BY <1>1, <1>7
    <3>2. cut[k] = longer[(m + 1) - limit + k]
      BY <2>3, <3>1
    <3> QED  BY <3>1, <3>2, <1>6
  <2>7. limit <= n + 1
    BY <1>1, <1>7
  <2> QED
    BY <2>3, <2>4, <2>5, <2>6, <2>7, <1>4 DEF EndOf, Rows, longer, more
<1>8. CASE ~(m + 1 > limit)
  <2>1. Trimmed(longer, limit) = longer
    BY <1>3, <1>5, <1>8
  <2>2. m + 1 <= n + 1 /\ m + 1 \in 1..limit
    BY <1>1, <1>8
  <2>3. \A k \in 1..(m + 1) : longer[k] = more[(n + 1) - (m + 1) + k]
    <3>1. \A k \in 1..(m + 1) : (n + 1) - (m + 1) + k = n - m + k
      BY <1>1
    <3> QED  BY <3>1, <1>6
  <2> QED  BY <2>1, <2>2, <2>3, <1>3, <1>4 DEF EndOf, Rows, longer, more
<1> QED  BY <1>7, <1>8

(* What a frame does to the window it draws. *)
LEMMA Rendered ==
    ASSUME WindowsInv, NEW w \in Windows, NEW v \in Data, RenderWindow(w, v)
    PROVE  /\ window[w] = "open"
           /\ saved' = [saved EXCEPT ![w] = Append(@, <<current_time, v>>)]
           /\ saved'[w] = Append(saved[w], <<current_time, v>>)
           /\ saved' \in [Windows -> Recorded]
           /\ plot' \in [Windows -> Rows]
           /\ \A u \in Windows : u # w => plot'[u] = plot[u] /\ saved'[u] = saved[u]
           /\ EndOf(plot'[w], saved'[w])
           /\ Len(plot'[w]) \in 1..max_data_on_plot[w]
<1> DEFINE row == <<current_time, v>>
<1>1. /\ closing = {} /\ opening = {} /\ w \in rendering
      /\ saved' = [saved EXCEPT ![w] = Append(saved[w], row)]
      /\ plot' = [plot EXCEPT ![w] = Trimmed(Append(plot[w], row), max_data_on_plot[w])]
  BY DEF RenderWindow
<1>2. window[w] = "open"
  BY <1>1 DEF WindowsInv, WorkOK
<1>3. /\ saved \in [Windows -> Recorded] /\ plot \in [Windows -> Rows]
      /\ EndOf(plot[w], saved[w])
      /\ max_data_on_plot[w] \in Nat \ {0}
      /\ row \in Nat \X Data
  <2>1. saved \in [Windows -> Recorded] /\ EndOf(plot[w], saved[w])
    BY DEF WindowsInv, PlotsAreEnds
  <2>2. plot \in [Windows -> Rows] /\ max_data_on_plot[w] \in Limits /\ current_time \in 0..MaxNow
    BY DEF WindowsInv, PlotWindowsTypeOK
  <2>3. max_data_on_plot[w] \in Nat \ {0}
    BY <2>2, LimitsAssumption
  <2>4. row \in Nat \X Data
    BY <2>2, TimeAssumption
  <2> QED  BY <2>1, <2>2, <2>3, <2>4
<1>4. saved[w] \in Recorded /\ plot[w] \in Rows
  BY <1>3
<1> HIDE DEF row
<1>5. /\ Trimmed(Append(plot[w], row), max_data_on_plot[w]) \in Rows
      /\ EndOf(Trimmed(Append(plot[w], row), max_data_on_plot[w]), Append(saved[w], row))
      /\ Len(Trimmed(Append(plot[w], row), max_data_on_plot[w])) \in 1..max_data_on_plot[w]
  BY <1>3, <1>4, TrimKeepsEnd
<1>6. Append(saved[w], row) \in Recorded
  BY <1>3, <1>4, AppendProperties DEF Recorded
<1>7. saved'[w] = Append(saved[w], row) /\ saved' \in [Windows -> Recorded]
  BY <1>1, <1>3, <1>6
<1>8. /\ plot'[w] = Trimmed(Append(plot[w], row), max_data_on_plot[w])
      /\ plot' \in [Windows -> Rows]
  BY <1>1, <1>3, <1>5
<1>9. \A u \in Windows : u # w => plot'[u] = plot[u] /\ saved'[u] = saved[u]
  BY <1>1, <1>3
<1> QED  BY <1>1, <1>2, <1>5, <1>7, <1>8, <1>9 DEF row

LEMMA RenderKeepsInv ==
    ASSUME WindowsInv, NEW w \in Windows, NEW v \in Data, RenderWindow(w, v)
    PROVE  WindowsInv'
<1>1. /\ window[w] = "open"
      /\ saved' \in [Windows -> Recorded] /\ plot' \in [Windows -> Rows]
      /\ \A u \in Windows : u # w => plot'[u] = plot[u] /\ saved'[u] = saved[u]
      /\ EndOf(plot'[w], saved'[w])
  BY Rendered
<1>2. /\ rendering' = rendering \ {w}
      /\ UNCHANGED <<clock, frames, mode, current_time, closing, opening,
                     window, instance_count, id, files, menu, quiet>>
      /\ \E limit \in Limits : max_data_on_plot' = [max_data_on_plot EXCEPT ![w] = limit]
  BY DEF RenderWindow
<1>3. Open' = Open
  BY <1>2 DEF Open
<1>4. \A u \in Windows : Kept(u) => window'[u] = window[u] /\ saved'[u] = saved[u]
  BY <1>1, <1>2 DEF Kept
<1>5. FilesOK' /\ ShownOK'
  <2>1. /\ \A f : f.of \in Windows /\ FileOK(f) => FileOK(f)'
        /\ shown' = shown /\ ShownOK => ShownOK'
    BY <1>4, GoneStayGone
  <2>2. \A n \in DOMAIN files : files[n].of \in Windows /\ FileOK(files[n])
    BY DEF WindowsInv, PlotWindowsTypeOK, FilesOK
  <2>3. FilesOK'
    BY <1>2, <2>1, <2>2 DEF FilesOK
  <2> QED  BY <1>2, <2>1, <2>3 DEF WindowsInv, menu
<1>6. QuietAbove' /\ WorkOK' /\ OpenCounted'
  BY <1>2, <1>3 DEF WindowsInv, QuietAbove, WorkOK, OpenCounted
<1>7. PlotsAreEnds'
  <2>1. ASSUME NEW u \in Windows PROVE EndOf(plot'[u], saved'[u])
    <3>1. EndOf(plot[u], saved[u])
      BY DEF WindowsInv, PlotsAreEnds
    <3> QED  BY <1>1, <3>1
  <2> QED  BY <1>1, <2>1 DEF PlotsAreEnds, EndOf
<1>8. PlotWindowsTypeOK'
  <2>1. max_data_on_plot' \in [Windows -> Limits]
    BY <1>2 DEF WindowsInv, PlotWindowsTypeOK
  <2>2. saved' \in [Windows -> Rows]
    <3>1. ASSUME NEW u \in Windows PROVE saved'[u] \in Rows
      <4>1. saved'[u] \in Seq(Nat \X Data) /\ Nat \X Data \subseteq Nat \X Nat
        BY <1>1, DataAssumption DEF Recorded
      <4> QED  BY <4>1, SeqMonotonic DEF Rows
    <3> QED  BY <1>1, <3>1
  <2> QED
    BY <1>1, <1>2, <1>3, <2>1, <2>2 DEF WindowsInv, PlotWindowsTypeOK, clock, menu
<1> QED  BY <1>5, <1>6, <1>7, <1>8 DEF WindowsInv

(* The program starts again with no window open. *)
LEMMA StartKeepsInv ==
    ASSUME WindowsInv, Start
    PROVE  WindowsInv'
<1>1. /\ mode' = "running" /\ instance_count' = 0 /\ quiet' = {} /\ shown' = << >>
      /\ starts' = starts + 1 /\ open_saved_' = FALSE
      /\ UNCHANGED <<now, frames, current_time, work, files,
                     window, id, max_data_on_plot, saved, plot>>
  BY DEF Start
<1>2. Open' = Open /\ Open = {}
  BY <1>1 DEF Start, Exited, WindowsInv, WorkOK, Open
<1>3. WorkOK' /\ OpenCounted' /\ QuietAbove' /\ PlotsAreEnds'
  <2>1. Cardinality({}) = 0
    BY FS_EmptySet
  <2> QED
    BY <1>1, <1>2, <2>1
    DEF WindowsInv, WorkOK, OpenCounted, QuietAbove, PlotsAreEnds, EndOf, work
<1>4. FilesOK'
  <2>1. \A f : f.of \in Windows /\ FileOK(f) => FileOK(f)'
    BY <1>1, GoneStayGone
  <2>2. \A n \in DOMAIN files : files[n].of \in Windows /\ FileOK(files[n])
    BY DEF WindowsInv, PlotWindowsTypeOK, FilesOK
  <2> QED  BY <1>1, <2>1, <2>2 DEF FilesOK
<1>5. ShownOK'
  BY <1>1 DEF ShownOK
<1>6. PlotWindowsTypeOK'
  <2>1. << >> \in Rows
    BY EmptySeq DEF Rows
  <2>2. starts' \in Nat /\ instance_count' \in Nat
    BY <1>1 DEF WindowsInv, PlotWindowsTypeOK
  <2>3. closing' \subseteq Open' /\ quiet' \subseteq DOMAIN files'
    BY <1>1, <1>2 DEF WindowsInv, PlotWindowsTypeOK, work
  <2> QED  BY <1>1, <2>1, <2>2, <2>3 DEF WindowsInv, PlotWindowsTypeOK, work
<1> QED  BY <1>3, <1>4, <1>5, <1>6 DEF WindowsInv

(* What a file holds is what is shown; a torn row comes last, if at all. *)
LEMMA ChooseKeepsInv ==
    ASSUME WindowsInv, NEW name \in DOMAIN files, ChooseFile(name)
    PROVE  WindowsInv'
<1> DEFINE f == files[name]
           w == f.of
           all == Stored(saved[w])
<1>1. /\ shown' \in RowsRead(f) /\ open_saved_' = TRUE
      /\ UNCHANGED <<clock, frames, mode, current_time, work, windows, files, quiet>>
  BY DEF ChooseFile
<1>2. /\ w \in Windows /\ f.rows \in Rows /\ FileOK(f) /\ saved[w] \in Recorded
  BY DEF WindowsInv, PlotWindowsTypeOK, FilesOK, PlotsAreEnds
<1>3. /\ Kept(w) /\ Len(f.rows) <= Len(saved[w])
      /\ \A k \in 1..Len(f.rows) : f.rows[k] = all[k]
      /\ f.torn => Len(f.rows) < Len(saved[w])
  BY <1>2 DEF FileOK, BeginningOf
<1>4. /\ all \in Rows /\ Len(all) = Len(saved[w])
      /\ Len(saved[w]) \in Nat /\ Len(f.rows) \in Nat
  BY <1>2, StoredRows, LenProperties DEF Recorded, Rows
<1>5. Open' = Open
  BY <1>1 DEF Open, windows
<1>6. FilesOK'
  <2>1. \A g : g.of \in Windows /\ FileOK(g) => FileOK(g)'
    BY <1>1, GoneStayGone DEF windows
  <2>2. \A n \in DOMAIN files : files[n].of \in Windows /\ FileOK(files[n])
    BY DEF WindowsInv, PlotWindowsTypeOK, FilesOK
  <2> QED  BY <1>1, <2>1, <2>2 DEF FilesOK
<1>7. WorkOK' /\ OpenCounted' /\ QuietAbove' /\ PlotsAreEnds'
  BY <1>1, <1>5
  DEF WindowsInv, WorkOK, OpenCounted, QuietAbove, PlotsAreEnds, EndOf, work, windows
<1> HIDE DEF all, w, f
<1>8. shown' \in Rows /\ (shown' # << >> =>
          /\ Len(shown') <= Len(saved[w])
          /\ \A k \in 1..(Len(shown') - 1) : shown'[k] = all[k]
          /\ shown'[Len(shown')] = all[Len(shown')] \/ shown'[Len(shown')][2] = Cut)
  <2>1. CASE shown' = << >>
    BY <2>1, EmptySeq DEF Rows
  <2>2. CASE shown' = f.rows /\ shown' # << >>
    <3>1. Len(f.rows) \in Nat \ {0}
      BY <1>2, <2>2, EmptySeq DEF Rows
    <3>2. Len(f.rows) \in 1..Len(f.rows) /\ \A k \in 1..(Len(f.rows) - 1) : k \in 1..Len(f.rows)
      BY <3>1
    <3> QED  BY <1>2, <1>3, <2>2, <3>2
  <2>3. CASE f.torn /\ shown' = Append(f.rows, <<all[Len(f.rows) + 1][1], Cut>>)
    <3> DEFINE last == <<all[Len(f.rows) + 1][1], Cut>>
    <3>1. Len(f.rows) + 1 \in 1..Len(all)
      BY <1>3, <1>4, <2>3
    <3>2. all[Len(f.rows) + 1] \in Nat \X Nat
      BY <1>4, <3>1, ElementOfSeq DEF Rows
    <3>3. last \in Nat \X Nat /\ last[2] = Cut
      BY <3>2 DEF Cut
    <3> HIDE DEF last
    <3>4. /\ shown' \in Rows /\ Len(shown') = Len(f.rows) + 1
          /\ \A k \in 1..Len(f.rows) : shown'[k] = f.rows[k]
          /\ shown'[Len(f.rows) + 1] = last
      <4>1. shown' = Append(f.rows, last)
        BY <2>3 DEF last
      <4> QED  BY <4>1, <1>2, <3>3, AppendProperties DEF Rows
    <3>5. Len(shown') <= Len(saved[w]) /\ Len(shown') - 1 = Len(f.rows)
      BY <1>3, <1>4, <2>3, <3>4
    <3> QED  BY <1>3, <3>3, <3>4, <3>5
  <2>4. \/ shown' = << >> \/ shown' = f.rows
        \/ f.torn /\ shown' = Append(f.rows, <<all[Len(f.rows) + 1][1], Cut>>)
    BY <1>1 DEF RowsRead, all, w
  <2> QED  BY <2>1, <2>2, <2>3, <2>4
<1>9. ShownOK'
  <2>1. PICK u \in Windows : u = w
    BY <1>2
  <2>2. shown' # << >> => ShownFrom(u)'
    <3>1. SUFFICES ASSUME shown' # << >> PROVE ShownFrom(u)'
      OBVIOUS
    <3>2. /\ Kept(u)' /\ Len(saved'[u]) = Len(saved[u]) /\ Stored(saved'[u]) = Stored(saved[u])
      BY <1>1, <1>3, <2>1 DEF Kept, Stored, windows
    <3>3. all = Stored(saved[u])
      BY <2>1 DEF all
    <3> QED  BY <1>8, <2>1, <3>1, <3>2, <3>3 DEF ShownFrom
  <2> QED  BY <2>2 DEF ShownOK
<1>10. PlotWindowsTypeOK'
  BY <1>1, <1>5, <1>8 DEF WindowsInv, PlotWindowsTypeOK, clock, work, windows
<1> QED  BY <1>6, <1>7, <1>9, <1>10 DEF WindowsInv

LEMMA WindowsInitInv == PlotWindowsInit => WindowsInv
<1> SUFFICES ASSUME PlotWindowsInit PROVE WindowsInv
  OBVIOUS
<1>1. << >> \in Rows /\ << >> \in Recorded /\ Len(<< >>) = 0
  BY EmptySeq DEF Rows, Recorded
<1>2. Open = {} /\ Cardinality({}) = 0
  BY FS_EmptySet DEF PlotWindowsInit, Open
<1>3. DOMAIN files = {}
  BY DEF PlotWindowsInit
<1>4. PlotWindowsTypeOK
  <2>1. /\ now \in 0..MaxNow /\ current_time \in 0..MaxNow
        /\ frames \in 0..MaxFrames /\ starts \in Nat /\ instance_count \in Nat
    BY TimeAssumption DEF PlotWindowsInit
  <2>2. /\ id \in [Windows -> Nat] /\ max_data_on_plot \in [Windows -> Limits]
        /\ saved \in [Windows -> Rows] /\ plot \in [Windows -> Rows]
        /\ window \in [Windows -> {"none", "open", "closed", "lost"}]
    BY <1>1, LimitsAssumption DEF PlotWindowsInit
  <2> QED  BY <1>1, <1>2, <1>3, <2>1, <2>2 DEF PlotWindowsInit, PlotWindowsTypeOK
<1>5. WorkOK /\ OpenCounted /\ QuietAbove
  BY <1>2 DEF PlotWindowsInit, WorkOK, OpenCounted, QuietAbove
<1>6. PlotsAreEnds
  BY <1>1 DEF PlotWindowsInit, PlotsAreEnds, EndOf
<1>7. FilesOK /\ ShownOK
  BY <1>3 DEF PlotWindowsInit, FilesOK, ShownOK
<1> QED  BY <1>4, <1>5, <1>6, <1>7 DEF WindowsInv

LEMMA WindowsInvStep == WindowsInv /\ [PlotWindowsNext]_plotVars => WindowsInv'
<1> SUFFICES ASSUME WindowsInv, [PlotWindowsNext]_plotVars PROVE WindowsInv'
  OBVIOUS
<1>1. CASE UNCHANGED plotVars
  <2>1. Open' = Open
    BY <1>1 DEF plotVars, windows, Open
  <2>2. /\ \A f : f.of \in Windows /\ FileOK(f) => FileOK(f)'
        /\ shown' = shown /\ ShownOK => ShownOK'
    BY <1>1, GoneStayGone DEF plotVars, windows
  <2>3. \A n \in DOMAIN files : files[n].of \in Windows /\ FileOK(files[n])
    BY DEF WindowsInv, PlotWindowsTypeOK, FilesOK
  <2>4. FilesOK' /\ ShownOK'
    BY <1>1, <2>2, <2>3 DEF WindowsInv, FilesOK, plotVars, menu
  <2>5. WorkOK' /\ OpenCounted' /\ QuietAbove' /\ PlotsAreEnds'
    BY <1>1, <2>1
    DEF plotVars, work, windows, WindowsInv, WorkOK, OpenCounted, QuietAbove, PlotsAreEnds, EndOf
  <2>6. PlotWindowsTypeOK'
    BY <1>1, <2>1 DEF plotVars, clock, work, windows, menu, WindowsInv, PlotWindowsTypeOK
  <2> QED  BY <2>4, <2>5, <2>6 DEF WindowsInv
<1>2. CASE PlotWindowsNext
  BY <1>2, OthersKeepInv, DeathKeepsInv, StartKeepsInv, CloseKeepsInv, TornKeepsInv,
     OpenKeepsInv, RenderKeepsInv, ChooseKeepsInv
  DEF PlotWindowsNext
<1> QED  BY <1>1, <1>2

-----------------------------------------------------------------------------
(* The invariant holds of every behaviour. *)
THEOREM WindowsInvariance == PlotWindowsSpec => []WindowsInv
<1> QED  BY WindowsInitInv, WindowsInvStep, PTL DEF PlotWindowsSpec

(* The type invariant, with a counter that never falls below zero and file *)
(* names that are never made of a zero.                                    *)
THEOREM WindowsTypeCorrect == PlotWindowsSpec => []PlotWindowsTypeOK
<1>1. WindowsInv => PlotWindowsTypeOK
  BY DEF WindowsInv
<1> QED  BY <1>1, WindowsInvariance, PTL

(* Every file is the recording of one window: all of it when the window    *)
(* was destroyed, a beginning when the process died meanwhile.             *)
THEOREM FilesAreRecordings == PlotWindowsSpec => []FilesHoldRecordings
<1>1. ASSUME WindowsInv, NEW n \in DOMAIN files
      PROVE  LET recorded == Stored(saved[files[n].of])
             IN  /\ IsPrefix(files[n].rows, recorded)
                 /\ window[files[n].of] \in {"closed", "lost"}
                 /\ window[files[n].of] = "closed" => files[n].rows = recorded
                 /\ files[n].torn => files[n].rows # recorded
  <2> DEFINE f == files[n]
             all == Stored(saved[f.of])
  <2>1. f.of \in Windows /\ f.rows \in Rows /\ FileOK(f) /\ saved[f.of] \in Recorded
    BY <1>1 DEF WindowsInv, PlotWindowsTypeOK, FilesOK, PlotsAreEnds
  <2>2. all \in Rows /\ Len(all) = Len(saved[f.of])
    BY <2>1, StoredRows
  <2>3. /\ window[f.of] \in {"closed", "lost"}
        /\ Len(f.rows) <= Len(all)
        /\ \A k \in 1..Len(f.rows) : f.rows[k] = all[k]
        /\ window[f.of] = "closed" => Len(f.rows) = Len(all)
        /\ f.torn => Len(f.rows) < Len(all)
    BY <2>1, <2>2 DEF FileOK, BeginningOf, Kept
  <2> HIDE DEF f, all
  <2>4. IsPrefix(f.rows, all)
    BY <2>1, <2>2, <2>3, PrefixByPlace DEF Rows
  <2>5. window[f.of] = "closed" => f.rows = all
    BY <2>1, <2>2, <2>3, SeqEqual DEF Rows
  <2>6. f.torn => f.rows # all
    <3>1. Len(all) \in Nat
      BY <2>2, LenProperties DEF Rows
    <3> QED  BY <2>3, <3>1
  <2> QED  BY <2>3, <2>4, <2>5, <2>6 DEF f, all
<1>2. WindowsInv => FilesHoldRecordings
  BY <1>1 DEF FilesHoldRecordings
<1> QED  BY <1>2, WindowsInvariance, PTL

(* The saved plot shows one recording from its first row on, whatever a    *)
(* crash has left of the file.                                             *)
THEOREM ShownIsRecorded == PlotWindowsSpec => []ShownWasRecorded
<1>1. ASSUME WindowsInv PROVE ShownWasRecorded
  <2> SUFFICES ASSUME shown # << >>
               PROVE  \E w \in Windows :
                         \/ IsPrefix(shown, Stored(saved[w]))
                         \/ /\ shown[Len(shown)][2] = Cut
                            /\ IsPrefix(Front(shown), Stored(saved[w]))
                            /\ Len(shown) <= Len(saved[w])
    BY DEF ShownWasRecorded
  <2>1. PICK w \in Windows : ShownFrom(w)
    BY <1>1 DEF WindowsInv, ShownOK
  <2> DEFINE all == Stored(saved[w])
             n == Len(shown)
  <2>2. all \in Rows /\ Len(all) = Len(saved[w])
    BY <1>1, StoredRows DEF WindowsInv, PlotsAreEnds
  <2>3. shown \in Rows /\ n \in Nat \ {0}
    BY <1>1, EmptySeq DEF WindowsInv, PlotWindowsTypeOK, Rows
  <2>4. /\ n <= Len(all)
        /\ \A k \in 1..(n - 1) : shown[k] = all[k]
        /\ shown[n] = all[n] \/ shown[n][2] = Cut
    BY <2>1, <2>2 DEF ShownFrom
  <2> HIDE DEF all, n
  <2>5. CASE shown[n] = all[n]
    <3>1. \A k \in 1..n : shown[k] = all[k]
      <4>1. \A k \in 1..n : k \in 1..(n - 1) \/ k = n
        BY <2>3
      <4> QED  BY <4>1, <2>4, <2>5
    <3>2. IsPrefix(shown, all)
      BY <2>2, <2>3, <2>4, <3>1, PrefixByPlace DEF Rows, n
    <3> QED  BY <3>2 DEF all
  <2>6. CASE shown[n][2] = Cut
    <3>1. /\ Front(shown) \in Seq(Nat \X Nat) /\ Len(Front(shown)) = n - 1
          /\ \A k \in 1..(n - 1) : Front(shown)[k] = shown[k]
      <4>1. \A k \in 1..(n - 1) : shown[k] \in Nat \X Nat
        <5>1. \A k \in 1..(n - 1) : k \in 1..n
          BY <2>3
        <5> QED  BY <2>3, <5>1, ElementOfSeq DEF Rows, n
      <4>2. n - 1 \in Int /\ (n - 1) - 1 + 1 = n - 1
        BY <2>3
      <4>3. /\ SubSeq(shown, 1, n - 1) \in Seq(Nat \X Nat)
            /\ Len(SubSeq(shown, 1, n - 1)) = IF 1 <= n - 1 THEN (n - 1) - 1 + 1 ELSE 0
            /\ \A k \in 1..((n - 1) - 1 + 1) : SubSeq(shown, 1, n - 1)[k] = shown[1 + k - 1]
        BY <4>1, <4>2, SubSeqProperties
      <4>4. Front(shown) = SubSeq(shown, 1, n - 1)
        BY DEF Front, n
      <4> HIDE DEF Front
      <4>5. Len(Front(shown)) = n - 1
        BY <2>3, <4>3, <4>4
      <4>6. \A k \in 1..(n - 1) : Front(shown)[k] = shown[k]
        BY <2>3, <4>3, <4>4
      <4> QED  BY <4>3, <4>4, <4>5, <4>6
    <3>2. Len(Front(shown)) <= Len(all)
      <4>1. Len(all) \in Nat
        BY <2>2, LenProperties DEF Rows
      <4> QED  BY <2>3, <2>4, <3>1, <4>1
    <3>3. IsPrefix(Front(shown), all)
      BY <2>2, <2>4, <3>1, <3>2, PrefixByPlace DEF Rows
    <3> QED  BY <2>2, <2>4, <2>6, <3>3 DEF all, n
  <2> QED  BY <2>4, <2>5, <2>6
<1> QED  BY <1>1, WindowsInvariance, PTL

(* After each frame the plot is the end of the recording, within the limit *)
(* the slider had.                                                         *)
THEOREM PlotIsEnd == PlotWindowsSpec => PlotFollowsRecording
<1> DEFINE A == \A w \in Windows :
                   saved'[w] # saved[w]
                       => /\ IsSuffix(plot'[w], saved'[w])
                          /\ Len(plot'[w]) \in 1..max_data_on_plot[w]
<1>1. ASSUME WindowsInv, [PlotWindowsNext]_plotVars PROVE [A]_plotVars
  <2>1. ASSUME NEW w \in Windows, NEW v \in Data, RenderWindow(w, v) PROVE A
    <3>1. /\ saved' \in [Windows -> Recorded] /\ plot' \in [Windows -> Rows]
          /\ \A u \in Windows : u # w => saved'[u] = saved[u]
          /\ EndOf(plot'[w], saved'[w])
          /\ Len(plot'[w]) \in 1..max_data_on_plot[w]
      BY <1>1, <2>1, Rendered
    <3>2. plot'[w] \in Seq(Nat \X Nat) /\ saved'[w] \in Seq(Nat \X Nat)
      <4>1. saved'[w] \in Seq(Nat \X Data) /\ Nat \X Data \subseteq Nat \X Nat
        BY <3>1, DataAssumption DEF Recorded
      <4> QED  BY <3>1, <4>1, SeqMonotonic DEF Rows
    <3>3. IsSuffix(plot'[w], saved'[w])
      BY <3>1, <3>2, SuffixByPlace DEF EndOf
    <3> QED  BY <3>1, <3>3
  <2>2. saved' = saved => A
    OBVIOUS
  <2>3. ASSUME NEW w \in Windows,
               CloseWindow(w) \/ DiesWriting(w) \/ OpenWindow(w) \/ NothingToRender(w)
        PROVE  saved' = saved
    BY <2>3 DEF CloseWindow, DiesWriting, Die, OpenWindow, NothingToRender, windows
  <2>4. ASSUME NEW name \in DOMAIN files, ChooseFile(name) \/ DiesReading(name)
        PROVE  saved' = saved
    BY <2>4 DEF ChooseFile, DiesReading, Die, windows
  <2>5. ASSUME \/ Tick \/ ProcessDies \/ Start \/ Quit \/ ClosePlot
               \/ \E gone, come \in SUBSET Windows : BeginFrame(gone, come)
        PROVE  saved' = saved
    BY <2>5 DEF Tick, ProcessDies, Die, Start, Quit, ClosePlot, BeginFrame, windows
  <2> HIDE DEF A
  <2> QED  BY <1>1, <2>1, <2>2, <2>3, <2>4, <2>5 DEF PlotWindowsNext
<1> QED  BY <1>1, WindowsInvariance, PTL DEF PlotWindowsSpec, PlotFollowsRecording

(* No file is overwritten before a window is opened: the counter falls     *)
(* with each closing, and is in the name.                                  *)
THEOREM QuietNamesStay == PlotWindowsSpec => QuietFilesStay
<1> DEFINE A == \A n \in quiet : files'[n] = files[n]
<1>1. ASSUME WindowsInv, [PlotWindowsNext]_plotVars PROVE [A]_plotVars
  <2>1. ASSUME NEW file, Store(file) PROVE A
    <3>1. FileName \notin quiet /\ quiet \subseteq DOMAIN files
      <4>1. FileName[1] = instance_count /\ instance_count \in Nat
        BY <1>1 DEF FileName, WindowsInv, PlotWindowsTypeOK
      <4> QED  BY <1>1, <4>1 DEF WindowsInv, QuietAbove
    <3> QED  BY <2>1, <3>1 DEF Store
  <2>2. files' = files => A
    OBVIOUS
  <2>3. ASSUME NEW w \in Windows, CloseWindow(w) \/ DiesWriting(w) PROVE A
    <3>1. \E file : Store(file)
      BY <2>3 DEF CloseWindow, DiesWriting
    <3> QED  BY <2>1, <3>1
  <2>4. ASSUME NEW w \in Windows, OpenWindow(w) \/ NothingToRender(w)
        PROVE  files' = files
    BY <2>4 DEF OpenWindow, NothingToRender
  <2>5. ASSUME NEW name \in DOMAIN files, ChooseFile(name) \/ DiesReading(name)
        PROVE  files' = files
    BY <2>5 DEF ChooseFile, DiesReading
  <2>6. ASSUME \/ Tick \/ ProcessDies \/ Start \/ Quit \/ ClosePlot
               \/ \E gone, come \in SUBSET Windows : BeginFrame(gone, come)
        PROVE  files' = files
    BY <2>6 DEF Tick, ProcessDies, Start, Quit, ClosePlot, BeginFrame
  <2>7. ASSUME NEW w \in Windows, NEW v \in Data, RenderWindow(w, v) PROVE files' = files
    BY <2>7 DEF RenderWindow
  <2> HIDE DEF A
  <2> QED  BY <1>1, <2>2, <2>3, <2>4, <2>5, <2>6, <2>7 DEF PlotWindowsNext
<1> QED  BY <1>1, WindowsInvariance, PTL DEF PlotWindowsSpec, QuietFilesStay
-----------------------------------------------------------------------------
(***************************************************************************)
(* The archive.  A window that is not open yet has recorded nothing.       *)
(***************************************************************************)
NewAreEmpty == \A w \in Windows : window[w] = "none" => saved[w] = << >>

LEMMA NewAreEmptyInvariance == PlotWindowsSpec => []NewAreEmpty
<1>1. PlotWindowsInit => NewAreEmpty
  BY DEF PlotWindowsInit, NewAreEmpty
<1>2. ASSUME WindowsInv, NewAreEmpty, [PlotWindowsNext]_plotVars PROVE NewAreEmpty'
  <2> DEFINE Stays == \A w \in Windows : /\ window'[w] = "none" => window[w] = "none"
                                         /\ window[w] = "none" => saved'[w] = saved[w]
  <2>1. window \in [Windows -> {"none", "open", "closed", "lost"}]
    BY <1>2 DEF WindowsInv, PlotWindowsTypeOK
  <2>2. ASSUME UNCHANGED <<window, saved>> PROVE Stays
    BY <2>2
  <2>3. ASSUME NEW w \in Windows, NEW v \in Data, RenderWindow(w, v) PROVE Stays
    <3>1. /\ window[w] = "open" /\ window' = window
          /\ \A u \in Windows : u # w => saved'[u] = saved[u]
      BY <1>2, <2>3, Rendered DEF RenderWindow
    <3> QED  BY <3>1
  <2>4. ASSUME NEW w \in Windows, CloseWindow(w) \/ OpenWindow(w) PROVE Stays
    <3>1. saved' = saved /\ \E s \in {"open", "closed"} : window' = [window EXCEPT ![w] = s]
      BY <2>4 DEF CloseWindow, OpenWindow
    <3> QED  BY <2>1, <3>1
  <2>5. ASSUME Die PROVE Stays
    BY <2>1, <2>5 DEF Die, Open
  <2>6. ASSUME NEW w \in Windows, DiesWriting(w) \/ NothingToRender(w) PROVE Stays
    BY <2>2, <2>5, <2>6 DEF DiesWriting, NothingToRender, windows
  <2>7. ASSUME NEW name \in DOMAIN files, ChooseFile(name) \/ DiesReading(name) PROVE Stays
    BY <2>2, <2>5, <2>7 DEF ChooseFile, DiesReading, windows
  <2>8. ASSUME \/ Tick \/ ProcessDies \/ Start \/ Quit \/ ClosePlot
               \/ \E gone, come \in SUBSET Windows : BeginFrame(gone, come)
        PROVE  Stays
    BY <2>2, <2>5, <2>8 DEF Tick, ProcessDies, Start, Quit, ClosePlot, BeginFrame, windows
  <2>9. ASSUME UNCHANGED plotVars PROVE Stays
    <3>1. UNCHANGED <<window, saved>>
      BY <2>9 DEF plotVars, windows
    <3> QED  BY <2>2, <3>1
  <2> HIDE DEF Stays
  <2>10. ASSUME PlotWindowsNext PROVE Stays
    BY <2>3, <2>4, <2>6, <2>7, <2>8, <2>10 DEF PlotWindowsNext
  <2>11. Stays
    BY <1>2, <2>9, <2>10
  <2> QED  BY <1>2, <2>11 DEF NewAreEmpty, Stays
<1> QED  BY <1>1, <1>2, WindowsInvariance, PTL DEF PlotWindowsSpec

(* Conversion goes row by row. *)
LEMMA StoredAppend ==
    ASSUME NEW rows \in Recorded, NEW row \in Nat \X Data
    PROVE  Stored(Append(rows, row)) = Append(Stored(rows), <<row[1] % Day, Printed[row[2]]>>)
<1> DEFINE longer == Append(rows, row)
           last == <<row[1] % Day, Printed[row[2]]>>
           n == Len(rows)
<1>1. /\ longer \in Recorded /\ n \in Nat /\ Len(longer) = n + 1
      /\ (\A k \in 1..n : longer[k] = rows[k]) /\ longer[n + 1] = row
  BY AppendProperties, LenProperties DEF Recorded
<1>2. /\ Stored(longer) \in Rows /\ Len(Stored(longer)) = n + 1
      /\ Stored(rows) \in Rows /\ Len(Stored(rows)) = n
  BY <1>1, StoredRows
<1>3. last \in Nat \X Nat
  <2>1. row[1] % Day \in Nat
    BY TimeAssumption
  <2>2. Printed[row[2]] \in Nat
    BY DataAssumption
  <2> QED  BY <2>1, <2>2
<1>4. /\ DOMAIN longer = 1..(n + 1) /\ DOMAIN rows = 1..n
  BY <1>1, LenProperties DEF Recorded
<1> HIDE DEF longer, last, n
<1>5. /\ Append(Stored(rows), last) \in Rows /\ Len(Append(Stored(rows), last)) = n + 1
      /\ \A k \in 1..n : Append(Stored(rows), last)[k] = Stored(rows)[k]
      /\ Append(Stored(rows), last)[n + 1] = last
  BY <1>2, <1>3, AppendProperties DEF Rows
<1>6. ASSUME NEW k \in 1..(n + 1) PROVE Stored(longer)[k] = Append(Stored(rows), last)[k]
  <2>1. Stored(longer)[k] = <<longer[k][1] % Day, Printed[longer[k][2]]>>
    BY <1>4 DEF Stored
  <2>2. CASE k \in 1..n
    <3>1. Stored(rows)[k] = <<rows[k][1] % Day, Printed[rows[k][2]]>>
      BY <1>4, <2>2 DEF Stored
    <3> QED  BY <1>1, <1>5, <2>1, <2>2, <3>1
  <2>3. CASE k = n + 1
    BY <1>1, <1>5, <2>1, <2>3 DEF last
  <2>4. k \in 1..n \/ k = n + 1
    BY <1>1
  <2> QED  BY <2>2, <2>3, <2>4
<1>7. Stored(longer) = Append(Stored(rows), last)
  BY <1>2, <1>5, <1>6, SeqEqual DEF Rows
<1> QED  BY <1>7 DEF longer, last

(* What a row becomes in a file. *)
LEMMA StoredRow ==
    ASSUME NEW rows \in Recorded, NEW k \in 1..Len(rows)
    PROVE  Stored(rows)[k][1] \in 0..(Day - 1)
<1>1. DOMAIN rows = 1..Len(rows) /\ rows[k] \in Nat \X Data
  BY LenProperties, ElementOfSeq DEF Recorded
<1>2. Stored(rows)[k] = <<rows[k][1] % Day, Printed[rows[k][2]]>>
  BY <1>1 DEF Stored
<1>3. rows[k][1] % Day \in 0..(Day - 1)
  BY <1>1, TimeAssumption
<1> QED  BY <1>2, <1>3

(* A name is made of the count of the windows, which are no more than all. *)
LEMMA NameOfWindow ==
    ASSUME WindowsInv, NEW w \in closing
    PROVE  FileName \in (1..Cardinality(Windows)) \X (0..MaxNow)
<1>1. /\ instance_count \in Nat /\ instance_count > 0 /\ instance_count = Cardinality(Open)
  BY ClosingCounted
<1>2. Cardinality(Open) <= Cardinality(Windows) /\ Cardinality(Windows) \in Nat
  BY WindowsAssumption, FS_Subset, FS_CardinalityType DEF Open
<1>3. now \in 0..MaxNow
  BY DEF WindowsInv, PlotWindowsTypeOK
<1> QED  BY <1>1, <1>2, <1>3 DEF FileName

(* Only the rows of windows count for the archive, and only while they do  *)
(* not change is it left alone.                                            *)
LEMMA ArchiveStutters ==
    UNCHANGED <<window, saved, files, shown>> => UNCHANGED (Archive!vars)
BY DEF Archive!vars, Stored

LEMMA FailsInArchive ==
    ASSUME Die, shown' = shown
    PROVE  Archive!Fail
<1>1. /\ window' = [w \in Windows |-> IF window[w] = "open" THEN "lost" ELSE window[w]]
      /\ saved' = saved
  BY DEF Die, Open
<1> QED  BY <1>1 DEF Archive!Fail, Stored

(* Closing archives the whole recording, failing a beginning at most.      *)
LEMMA ClosesInArchive ==
    ASSUME WindowsInv, NEW w \in Windows, CloseWindow(w)
    PROVE  Archive!Next
<1>1. /\ w \in closing /\ Store(Written(w))
      /\ window' = [window EXCEPT ![w] = "closed"]
      /\ saved' = saved /\ shown' = shown
  BY DEF CloseWindow, menu
<1>2. window[w] = "open" /\ FileName \in (1..Cardinality(Windows)) \X (0..MaxNow)
  BY <1>1, ClosingCounted, NameOfWindow
<1>3. Archive!Archived(FileName, [of |-> w, rows |-> Stored(saved[w]), torn |-> FALSE])
  BY <1>1 DEF Archive!Archived, Store, Written
<1> HIDE DEF FileName
<1>4. Archive!Close(w, FileName)
  BY <1>1, <1>2, <1>3 DEF Archive!Close, Stored
<1> QED  BY <1>2, <1>4 DEF Archive!Next

LEMMA FailsWritingInArchive ==
    ASSUME WindowsInv, NEW w \in Windows, DiesWriting(w)
    PROVE  Archive!Next
<1>1. PICK f \in CutShort(w) : Store(f)
  BY DEF DiesWriting
<1>2. w \in closing /\ Die /\ shown' = shown /\ saved' = saved
  BY DEF DiesWriting, Die, menu
<1>3. /\ window[w] = "open" /\ saved[w] \in Recorded
      /\ FileName \in (1..Cardinality(Windows)) \X (0..MaxNow)
  BY <1>2, ClosingCounted, NameOfWindow
<1>4. /\ Stored(saved[w]) \in Rows /\ Len(Stored(saved[w])) = Len(saved[w])
      /\ Len(saved[w]) \in Nat
  BY <1>3, StoredRows, LenProperties DEF Recorded
<1>5. PICK k \in 0..Len(saved[w]), t \in BOOLEAN :
        f = [of |-> w, rows |-> SubSeq(Stored(saved[w]), 1, k), torn |-> t]
  BY <1>1 DEF CutShort
<1>6. t => k < Len(Stored(saved[w]))
  <2> DEFINE all == Stored(saved[w])
  <2>1. k \in Nat /\ \A j \in 1..k : all[j] \in Nat \X Nat
    BY <1>4, ElementOfSeq DEF Rows
  <2> HIDE DEF all
  <2>2. Len(SubSeq(all, 1, k)) = IF 1 <= k THEN k - 1 + 1 ELSE 0
    BY <2>1, SubSeqProperties
  <2>3. Len(f.rows) = k
    BY <1>5, <2>1, <2>2 DEF all
  <2>4. f.torn => Len(f.rows) < Len(saved[w])
    BY <1>1 DEF CutShort
  <2>5. f.torn = t
    BY <1>5
  <2> QED  BY <1>4, <2>3, <2>4, <2>5
<1>7. Archive!Archived(FileName, [of |-> w, rows |-> SubSeq(Stored(saved[w]), 1, k), torn |-> t])
  BY <1>1, <1>5 DEF Archive!Archived, Store
<1> HIDE DEF FileName
<1>8. Archive!Beginning(w, FileName, k, t)
  BY <1>6, <1>7 DEF Archive!Beginning
<1>9. k \in 0..Len(Stored(saved[w]))
  BY <1>4
<1>10. Archive!FailWriting(w, FileName)
  BY <1>2, <1>3, <1>8, <1>9, FailsInArchive DEF Archive!FailWriting
<1> QED  BY <1>3, <1>10 DEF Archive!Next

LEMMA OpensInArchive ==
    ASSUME WindowsInv, NewAreEmpty, NEW w \in Windows, OpenWindow(w)
    PROVE  Archive!Next
<1>1. /\ window' = [window EXCEPT ![w] = "open"]
      /\ saved' = saved /\ files' = files /\ shown' = shown
      /\ w \in opening
  BY DEF OpenWindow, menu
<1>2. window[w] = "none" /\ saved[w] = << >>
  BY <1>1 DEF WindowsInv, WorkOK, NewAreEmpty
<1>3. Stored(saved[w]) = << >>
  <2>1. << >> \in Recorded
    BY EmptySeq DEF Recorded
  <2>2. Stored(<< >>) \in Rows /\ Len(Stored(<< >>)) = 0
    BY <2>1, StoredRows, EmptySeq
  <2> QED  BY <1>2, <2>2, EmptySeq DEF Rows
<1>4. Archive!Open(w)
  BY <1>1, <1>2, <1>3 DEF Archive!Open, Stored
<1> QED  BY <1>4 DEF Archive!Next

(* A frame lengthens the recording of an open window by one row. *)
LEMMA RecordsInArchive ==
    ASSUME WindowsInv, NEW w \in Windows, NEW v \in Data, RenderWindow(w, v)
    PROVE  Archive!Next
<1> DEFINE row == <<current_time, v>>
           last == <<current_time % Day, Printed[v]>>
           before == [u \in Windows |-> Stored(saved[u])]
           after == [u \in Windows |-> Stored(saved'[u])]
<1>1. /\ window[w] = "open" /\ saved'[w] = Append(saved[w], row)
      /\ \A u \in Windows : u # w => saved'[u] = saved[u]
      /\ saved[w] \in Recorded
  BY Rendered DEF WindowsInv, PlotsAreEnds
<1>2. window' = window /\ files' = files /\ shown' = shown
  BY DEF RenderWindow, menu
<1>3. row \in Nat \X Data /\ last \in (0..(Day - 1)) \X {Printed[u] : u \in Data}
  <2>1. current_time \in Nat
    BY TimeAssumption DEF WindowsInv, PlotWindowsTypeOK
  <2>2. current_time % Day \in 0..(Day - 1)
    BY <2>1, TimeAssumption
  <2> QED  BY <2>1, <2>2
<1>4. Stored(saved'[w]) = Append(Stored(saved[w]), last)
  <2>1. Stored(Append(saved[w], row)) = Append(Stored(saved[w]), <<row[1] % Day, Printed[row[2]]>>)
    BY <1>1, <1>3, StoredAppend
  <2>2. <<row[1] % Day, Printed[row[2]]>> = last
    OBVIOUS
  <2> QED  BY <1>1, <2>1, <2>2
<1>5. \A u \in Windows : u # w => Stored(saved'[u]) = Stored(saved[u])
  BY <1>1
<1>6. after = [before EXCEPT ![w] = Append(@, last)]
  BY <1>4, <1>5
<1>7. before' = after
  BY DEF Stored
<1> HIDE DEF row, last
<1>8. Archive!Record(w, last)
  BY <1>1, <1>2, <1>6, <1>7 DEF Archive!Record
<1> QED  BY <1>3, <1>8 DEF Archive!Next

(* What is read is a file, and a piece after it if it was cut short. *)
LEMMA ShowsFromArchive ==
    ASSUME WindowsInv, NEW name \in DOMAIN files, ChooseFile(name)
    PROVE  Archive!Next
<1> DEFINE f == files[name]
           next == Len(f.rows) + 1
           piece == <<Stored(saved[f.of])[next][1], Cut>>
<1>1. /\ shown' \in RowsRead(f)
      /\ window' = window /\ saved' = saved /\ files' = files
  BY DEF ChooseFile, windows
<1>2. /\ f.of \in Windows /\ f.rows \in Rows /\ FileOK(f) /\ saved[f.of] \in Recorded
  BY DEF WindowsInv, PlotWindowsTypeOK, FilesOK, PlotsAreEnds
<1>3. \/ shown' \in {<< >>, f.rows}
      \/ f.torn /\ shown' = Append(f.rows, piece)
  BY <1>1 DEF RowsRead
<1>4. f.torn => piece \in (0..(Day - 1)) \X {Cut}
  <2>1. Len(f.rows) \in Nat /\ Len(saved[f.of]) \in Nat
    BY <1>2, LenProperties DEF Rows, Recorded
  <2>2. f.torn => next \in 1..Len(saved[f.of])
    BY <1>2, <2>1 DEF FileOK
  <2> QED  BY <1>2, <2>2, StoredRow
<1> HIDE DEF f, piece, next
<1>5. Archive!Show(f)
  BY <1>1, <1>3, <1>4 DEF Archive!Show, Stored
<1> QED  BY <1>5 DEF Archive!Next, f

LEMMA ArchiveStep ==
    ASSUME WindowsInv, NewAreEmpty, [PlotWindowsNext]_plotVars
    PROVE  [Archive!Next]_(Archive!vars)
<1>1. ASSUME \/ Tick \/ Quit \/ ClosePlot
             \/ \E gone, come \in SUBSET Windows : BeginFrame(gone, come)
             \/ \E w \in Windows : NothingToRender(w)
      PROVE  UNCHANGED (Archive!vars)
  BY <1>1, ArchiveStutters
  DEF Tick, Quit, ClosePlot, BeginFrame, NothingToRender, windows, menu
<1>2. ASSUME ProcessDies \/ \E name \in DOMAIN files : DiesReading(name)
      PROVE  Archive!Next
  <2>1. Die /\ shown' = shown /\ files' = files
    BY <1>2 DEF ProcessDies, DiesReading, menu
  <2> QED  BY <2>1, FailsInArchive DEF Archive!Next
<1>3. ASSUME Start PROVE Archive!Next
  <2>1. shown' = << >> /\ window' = window /\ saved' = saved /\ files' = files
    BY <1>3 DEF Start
  <2>2. Archive!Clear
    BY <2>1 DEF Archive!Clear, Stored
  <2> QED  BY <2>2 DEF Archive!Next
<1>4. ASSUME UNCHANGED plotVars PROVE UNCHANGED (Archive!vars)
  <2>1. UNCHANGED <<window, saved, files, shown>>
    BY <1>4 DEF plotVars, windows, menu
  <2> QED  BY <2>1, ArchiveStutters
<1>5. ASSUME PlotWindowsNext PROVE Archive!Next \/ UNCHANGED (Archive!vars)
  BY <1>1, <1>2, <1>3, <1>5, ClosesInArchive, FailsWritingInArchive, OpensInArchive,
     RecordsInArchive, ShowsFromArchive
  DEF PlotWindowsNext
<1> QED  BY <1>4, <1>5

(* Windows, frames, crashes and restarts keep what the archive promises:   *)
(* every step that touches a recording, a file or the saved plot is one of *)
(* the few the archive knows.                                              *)
THEOREM WindowsImplementArchive == PlotWindowsSpec => ImplementsArchive
<1>1. PlotWindowsInit => Archive!Init
  <2> SUFFICES ASSUME PlotWindowsInit PROVE Archive!Init
    OBVIOUS
  <2>1. << >> \in Recorded
    BY EmptySeq DEF Recorded
  <2>2. Stored(<< >>) \in Rows /\ Len(Stored(<< >>)) = 0
    BY <2>1, StoredRows, EmptySeq
  <2>3. Stored(<< >>) = << >>
    BY <2>2, EmptySeq DEF Rows
  <2> QED  BY <2>3 DEF PlotWindowsInit, Archive!Init
<1>2. WindowsInv /\ NewAreEmpty /\ [PlotWindowsNext]_plotVars
        => [Archive!Next]_(Archive!vars)
  BY ArchiveStep
<1> QED
  BY <1>1, <1>2, WindowsInvariance, NewAreEmptyInvariance, PTL
  DEF PlotWindowsSpec, ImplementsArchive, Archive!Spec
=============================================================================
