---------------------------- MODULE PlotDisplay ----------------------------
(***************************************************************************)
(* What the main thread promises of the plots, whatever the server thread  *)
(* does meanwhile.  A plot comes up only for a peer that was admitted and  *)
(* goes only when its peer was dismissed, which it is only after it left,  *)
(* unless the list of peers changes while the main thread looks at it:     *)
(* such a disturbed look may miss peers and see one that is nobody.  What  *)
(* holds even then: a plot is never of a peer that was not admitted, a     *)
(* peer is drawn only in its own plot, the number of plots is always       *)
(* known, and when the user ends the program, and not before, all of them  *)
(* are closed for good.                                                    *)
(***************************************************************************)
EXTENDS Naturals, FiniteSets

CONSTANTS Conns, Nobody

VARIABLES
    admitted,           \* the peers that were ever let in
    left,               \* the peers that have left
    dismissed,          \* those of the admitted that were let go
    disturbed,          \* have peers come or gone during the look under way?
    shown,              \* the peers, or nobody, that have a plot
    count,              \* how many plots the program knows of
    drawn,              \* the peers of which data was drawn
    asked, ended        \* has the user ended the program, and has it?

peers == <<admitted, left, dismissed>>
plots == <<shown, count, drawn>>
vars == <<peers, disturbed, plots, asked, ended>>

Init ==
    /\ admitted = {} /\ left = {} /\ dismissed = {} /\ disturbed = FALSE
    /\ shown = {} /\ drawn = {} /\ count = 0
    /\ asked = FALSE /\ ended = FALSE

(* Peers come and go; none comes back, and none is let go that is there.   *)
(* Only that peers come or are let go can disturb a look.                  *)
PeersMove ==
    /\ admitted' \in SUBSET Conns /\ admitted \subseteq admitted'
    /\ left' \in SUBSET Conns /\ left \subseteq left'
    /\ dismissed' \in SUBSET admitted' /\ dismissed \subseteq dismissed'
    /\ dismissed' \subseteq dismissed \cup left
    /\ \/ disturbed' = disturbed
       \/ disturbed' = TRUE /\ (admitted' # admitted \/ dismissed' # dismissed)
    /\ UNCHANGED <<plots, asked, ended>>

(* A look begins afresh. *)
Look ==
    /\ disturbed' = FALSE
    /\ UNCHANGED <<peers, plots, asked, ended>>

(* A look ends and the plots follow what was seen. *)
Change ==
    /\ ~ended
    /\ shown' \in SUBSET (shown \cup admitted \cup {Nobody})
    /\ ~disturbed => Nobody \notin shown' /\ shown \ shown' \subseteq dismissed \cup {Nobody}
    /\ count' = Cardinality(shown')
    /\ disturbed' = FALSE
    /\ UNCHANGED <<peers, drawn, asked, ended>>

Draw(c) ==
    /\ ~ended
    /\ c \in shown
    /\ drawn' = drawn \cup {c}
    /\ UNCHANGED <<peers, disturbed, shown, count, asked, ended>>

Ask ==
    /\ asked' = TRUE
    /\ UNCHANGED <<peers, disturbed, plots, ended>>

End ==
    /\ asked /\ ~ended
    /\ ended' = TRUE
    /\ shown' = {} /\ count' = 0
    /\ UNCHANGED <<peers, disturbed, drawn, asked>>

Next == PeersMove \/ Look \/ Change \/ Ask \/ End \/ \E c \in Conns : Draw(c)

Spec == Init /\ [][Next]_vars
=============================================================================
