------------------------ MODULE ConnectionRegistry ------------------------
(***************************************************************************)
(* What the server promises to the rest of the program about its           *)
(* connections, whatever the sockets do: a peer that arrives is admitted   *)
(* once, it stays a member until it has left, a member that has left is    *)
(* removed for good, and the number the program shows is the number of     *)
(* members.  The registry may die, but only when some peer has left.       *)
(***************************************************************************)
EXTENDS Naturals

CONSTANT Conns

VARIABLES
    arrived,    \* the peers that have connected
    lost,       \* those whose end of the connection is closed
    members,    \* those the registry holds
    gone,       \* those it held and has removed
    count,      \* the number of members it reports
    alive       \* FALSE once the registry has died with its process

vars == <<arrived, lost, members, gone, count, alive>>

Init ==
    /\ arrived = {} /\ lost = {} /\ members = {} /\ gone = {}
    /\ count = 0
    /\ alive = TRUE

Arrive(c) ==
    /\ c \notin arrived
    /\ arrived' = arrived \cup {c}
    /\ UNCHANGED <<lost, members, gone, count, alive>>

Leave(c) ==
    /\ c \in arrived \ lost
    /\ lost' = lost \cup {c}
    /\ UNCHANGED <<arrived, members, gone, count, alive>>

Admit(c) ==
    /\ alive
    /\ c \in arrived \ (members \cup gone)
    /\ members' = members \cup {c}
    /\ count' = count + 1
    /\ UNCHANGED <<arrived, lost, gone, alive>>

Remove(c) ==
    /\ alive
    /\ c \in members \cap lost
    /\ members' = members \ {c}
    /\ gone' = gone \cup {c}
    /\ count' = count - 1
    /\ UNCHANGED <<arrived, lost, alive>>

Die ==
    /\ alive
    /\ lost # {}
    /\ alive' = FALSE
    /\ members' = {}
    /\ count' = 0
    /\ UNCHANGED <<arrived, lost, gone>>

Next == Die \/ \E c \in Conns : Arrive(c) \/ Leave(c) \/ Admit(c) \/ Remove(c)

(* A waiting peer is admitted and a lost member removed, in the end.       *)
Fairness == \A c \in Conns : WF_vars(Admit(c)) /\ WF_vars(Remove(c))

Spec == Init /\ [][Next]_vars /\ Fairness
=============================================================================
