------------------------------- MODULE Toasts -------------------------------
(***************************************************************************)
(* The notifications of the user interface (libs/include/ImGuiNotify.hpp): *)
(* both threads insert toasts, the main thread walks the vector once a     *)
(* frame, removes the expired ones and renders the first few of the rest.  *)
(*                                                                         *)
(* Toasts may be inserted between any two rounds of the walk.  That two    *)
(* threads touch one vector without a lock is not modelled: an insertion   *)
(* and a round are atomic.                                                 *)
(***************************************************************************)
EXTENDS Integers, Sequences, FiniteSets, SequencesExt

CONSTANTS
    Limit,          \* NOTIFY_RENDER_LIMIT (2)
    Fade,           \* NOTIFY_FADE_IN_OUT_TIME (150 ms)
    DismissTimes,   \* the dismiss times toasts are created with
    MaxToasts,      \* bound on the toasts inserted
    MaxNow          \* bound on the clock

ASSUME LimitAssumption == Limit \in Nat \ {0}
ASSUME TimesAssumption == Fade \in Nat /\ DismissTimes \subseteq Nat
ASSUME ToastBounds == MaxToasts \in Nat /\ MaxNow \in Nat

VARIABLES
    now,            \* system_clock::now()
    inserted,       \* toasts inserted so far; they are numbered in this order
    notifications,
    rendering,      \* is the main thread inside RenderNotifications?
    i,              \* its loop variable
    shown,          \* the toasts this walk has rendered
    due,            \* the toasts that were expired when this walk began
    erased          \* how many this walk has removed

toastVars == <<now, inserted, notifications, rendering, i, shown, due, erased>>

Ids(toasts) == {t.id : t \in ToSet(toasts)}

Expired(toast) == now - toast.creationTime > Fade + toast.dismissTime + Fade

ToastsInit ==
    /\ now = 0 /\ inserted = 0 /\ notifications = << >>
    /\ rendering = FALSE /\ i = 0 /\ shown = << >> /\ due = {} /\ erased = 0

InsertNotification(dismissTime) ==
    /\ inserted < MaxToasts
    /\ inserted' = inserted + 1
    /\ notifications' = Append(notifications,
                               [id |-> inserted + 1, dismissTime |-> dismissTime,
                                creationTime |-> now])
    /\ UNCHANGED <<now, rendering, i, shown, due, erased>>

Tick ==
    /\ now < MaxNow
    /\ now' = now + 1
    /\ UNCHANGED <<inserted, notifications, rendering, i, shown, due, erased>>

BeginWalk ==
    /\ ~rendering
    /\ rendering' = TRUE
    /\ i' = 0
    /\ shown' = << >>
    /\ due' = {t.id : t \in {u \in ToSet(notifications) : Expired(u)}}
    /\ erased' = 0
    /\ UNCHANGED <<now, inserted, notifications>>

(* Mutants of WithoutToast: the one behind; nothing; all that expired.     *)
WithoutNext(index) ==
    IF index + 2 \in DOMAIN notifications THEN RemoveAt(notifications, index + 2)
                                          ELSE notifications
NothingRemoved(index) == notifications
WithoutExpired(index) == SelectSeq(notifications, LAMBDA t : ~Expired(t))

(* RemoveNotification(index) *)
WithoutToast(index) == RemoveAt(notifications, index + 1)

Round == rendering /\ i < Len(notifications)

(* Mutant of RemoveExpired: the walk ends with the first removal.          *)
RemoveAndReturn ==
    /\ Round
    /\ Expired(notifications[i + 1])
    /\ notifications' = WithoutToast(i)
    /\ i' = Len(notifications)
    /\ erased' = erased + 1
    /\ UNCHANGED <<now, inserted, rendering, shown, due>>

(* The toast that moves up to index i is passed over in this walk.         *)
RemoveExpired ==
    /\ Round
    /\ Expired(notifications[i + 1])
    /\ notifications' = WithoutToast(i)
    /\ i' = i + 1
    /\ erased' = erased + 1
    /\ UNCHANGED <<now, inserted, rendering, shown, due>>

(* Mutant of BeyondLimit: the index is taken for the number of toasts.     *)
CountsFromOne(index) == index + 1 >= Limit

BeyondLimit(index) == index > Limit

RenderToast ==
    /\ Round
    /\ ~Expired(notifications[i + 1])
    /\ shown' = IF BeyondLimit(i) THEN shown ELSE Append(shown, notifications[i + 1].id)
    /\ i' = i + 1
    /\ UNCHANGED <<now, inserted, notifications, rendering, due, erased>>

EndWalk ==
    /\ rendering
    /\ i >= Len(notifications)
    /\ rendering' = FALSE
    /\ UNCHANGED <<now, inserted, notifications, i, shown, due, erased>>

RenderNotifications == BeginWalk \/ RemoveExpired \/ RenderToast \/ EndWalk

ToastsNext ==
    \/ \E d \in DismissTimes : InsertNotification(d)
    \/ Tick
    \/ RenderNotifications

(* The main loop renders in every frame; nobody has to insert anything.    *)
ToastsSpec ==
    /\ ToastsInit /\ [][ToastsNext]_toastVars
    /\ WF_toastVars(RenderNotifications)

-----------------------------------------------------------------------------
(***************************************************************************)
(* Properties.                                                             *)
(***************************************************************************)
(* Types, and the loop variable: it passes the end of the vector by one at *)
(* most, after the removal of the last toast.                              *)
ToastsTypeOK ==
    /\ now \in 0..MaxNow /\ inserted \in 0..MaxToasts
    /\ notifications \in Seq([id : 1..inserted, dismissTime : DismissTimes,
                              creationTime : 0..now])
    /\ rendering \in BOOLEAN
    /\ rendering => i \in 0..(Len(notifications) + 1)
    /\ shown \in Seq(1..inserted) /\ due \subseteq 1..inserted
    /\ erased \in 0..inserted

(* A toast that is not expired is never removed, whatever is inserted and  *)
(* expires during a walk.                                                  *)
OnlyExpiredRemoved ==
    [][\A t \in ToSet(notifications) : t.id \notin Ids(notifications') => Expired(t)]_toastVars

(* A walk that removes nothing renders the oldest toasts, in the order of  *)
(* their insertion: all of them, or as many as the limit allows.           *)
WalkShowsOldest ==
    [][(EndWalk /\ erased = 0) =>
          /\ shown = [k \in 1..Len(shown) |-> notifications[k].id]
          /\ Len(shown) = Len(notifications) \/ Len(shown) >= Limit]_toastVars

(* Each removal makes the walk pass over one toast at most: of the toasts   *)
(* that were expired when it began, a walk leaves no more than it removed, *)
(* also when others expire while it runs.                                  *)
RemovesAsManyAsItLeaves ==
    [][EndWalk => Cardinality(due \cap Ids(notifications)) <= erased]_toastVars

(* Every expired toast is removed in the end: none is passed over for ever.*)
ExpiredLeave ==
    \A k \in 1..MaxToasts :
        (\E t \in ToSet(notifications) : t.id = k /\ Expired(t))
            ~> k \notin Ids(notifications)
=============================================================================
