----------------------------- MODULE ReviewCycle -----------------------------
(***************************************************************************)
(* What submitting and reviewing promise to the owner of a hotel and to    *)
(* its guests. The owner hands in the texts of a hotel and waits. While    *)
(* the owner waits, and only then, guests get to see texts: never older    *)
(* ones than were handed in, never older ones than they have seen. The     *)
(* hotel is given back when they see what was handed in.                   *)
(***************************************************************************)
EXTENDS Integers

CONSTANTS
    Hotels,
    Texts,        \* the versions of a hotel's texts, numbers
    NotPublished  \* what guests see of a hotel they do not see yet

VARIABLES
    phase,     \* "new", "submitted" or "accepted"
    submitted, \* the texts that were handed in last
    shown      \* the texts guests see

vars == <<phase, submitted, shown>>

Init ==
    /\ phase = [h \in Hotels |-> "new"]
    /\ submitted = [h \in Hotels |-> 0]
    /\ shown = [h \in Hotels |-> NotPublished]

HandIn(h, text) ==
    /\ phase[h] # "submitted"
    /\ text >= submitted[h]
    /\ phase' = [phase EXCEPT ![h] = "submitted"]
    /\ submitted' = [submitted EXCEPT ![h] = text]
    /\ UNCHANGED shown

Show(h, text) ==
    /\ phase[h] = "submitted"
    /\ text >= submitted[h]
    /\ shown[h] # NotPublished => text >= shown[h]
    /\ shown' = [shown EXCEPT ![h] = text]
    /\ UNCHANGED <<phase, submitted>>

GiveBack(h) ==
    /\ phase[h] = "submitted"
    /\ shown[h] # NotPublished
    /\ shown[h] >= submitted[h]
    /\ phase' = [phase EXCEPT ![h] = "accepted"]
    /\ UNCHANGED <<submitted, shown>>

Next ==
    \E h \in Hotels :
        \/ \E text \in Texts : HandIn(h, text) \/ Show(h, text)
        \/ GiveBack(h)

Spec == Init /\ [][Next]_vars
=============================================================================
