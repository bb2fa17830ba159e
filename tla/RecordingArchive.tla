------------------------- MODULE RecordingArchive -------------------------
(***************************************************************************)
(* What the program promises of the recordings, whatever its windows,      *)
(* frames and files do: a recording only grows, one row after the other,   *)
(* while its window is open; the archive gets all of it when the window is *)
(* closed, or a beginning of one of them when the program fails; nothing   *)
(* else changes the archive; and what the display shows was read from it.  *)
(***************************************************************************)
EXTENDS Naturals, Sequences

CONSTANTS
    Windows,
    Names,      \* of files
    Row,        \* what is recorded, as it is archived
    Piece       \* what a row that was cut short may be read as

VARIABLES
    state,      \* "none", "open", "closed", "lost"
    recording,
    archive,    \* archive[name]: whose recording it is, its rows, is a piece left?
    display

vars == <<state, recording, archive, display>>

Init ==
    /\ state = [w \in Windows |-> "none"]
    /\ recording = [w \in Windows |-> << >>]
    /\ archive = << >>
    /\ display = << >>

Open(w) ==
    /\ state[w] = "none" /\ recording[w] = << >>
    /\ state' = [state EXCEPT ![w] = "open"]
    /\ UNCHANGED <<recording, archive, display>>

Record(w, row) ==
    /\ state[w] = "open"
    /\ recording' = [recording EXCEPT ![w] = Append(@, row)]
    /\ UNCHANGED <<state, archive, display>>

Archived(name, file) ==
    archive' = [n \in DOMAIN archive \cup {name} |-> IF n = name THEN file ELSE archive[n]]

Close(w, name) ==
    /\ state[w] = "open"
    /\ state' = [state EXCEPT ![w] = "closed"]
    /\ Archived(name, [of |-> w, rows |-> recording[w], torn |-> FALSE])
    /\ UNCHANGED <<recording, display>>

(* Every open recording is lost, but for the file that was being written.  *)
Fail ==
    /\ state' = [w \in Windows |-> IF state[w] = "open" THEN "lost" ELSE state[w]]
    /\ UNCHANGED <<recording, display>>

Beginning(w, name, k, torn) ==
    /\ torn => k < Len(recording[w])
    /\ Archived(name, [of |-> w, rows |-> SubSeq(recording[w], 1, k), torn |-> torn])

FailWriting(w, name) ==
    /\ state[w] = "open"
    /\ Fail
    /\ \E k \in 0..Len(recording[w]), torn \in BOOLEAN : Beginning(w, name, k, torn)

Show(file) ==
    /\ \/ display' \in {<< >>, file.rows}
       \/ file.torn /\ \E piece \in Piece : display' = Append(file.rows, piece)
    /\ UNCHANGED <<state, recording, archive>>

Clear ==
    /\ display' = << >>
    /\ UNCHANGED <<state, recording, archive>>

Next ==
    \/ \E w \in Windows :
          \/ Open(w)
          \/ \E row \in Row : Record(w, row)
          \/ \E name \in Names : Close(w, name) \/ FailWriting(w, name)
    \/ Fail /\ UNCHANGED archive
    \/ \E name \in DOMAIN archive : Show(archive[name])
    \/ Clear

Spec == Init /\ [][Next]_vars
=============================================================================
