--------------------------- MODULE MCPlotWindows ---------------------------
(* Small instances of PlotWindows for TLC. *)
EXTENDS PlotWindows, TLC

CONSTANTS w1, w2, w3

TwoWindows == {w1, w2}
ThreeWindows == {w1, w2, w3}
OneNumber == {11}
Rounded == [v \in OneNumber |-> 10]
OneOrThree == {1, 3}

(* The windows are interchangeable. *)
Symmetric == Permutations(Windows)
=============================================================================
