----------------------------- MODULE OrderDesk -----------------------------
(***************************************************************************)
(* What a page promises about orders whose price the user may change:      *)
(* there is one order on the desk, further orders wait in line, and they   *)
(* come on the desk in the order of their arrival, each once, none lost.   *)
(***************************************************************************)
EXTENDS Sequences

CONSTANTS
    Pages,
    Orders,
    NoOrder

VARIABLES
    desk,    \* the order each page is about
    waiting  \* the orders in line behind it

vars == <<desk, waiting>>

Init ==
    /\ desk = [p \in Pages |-> NoOrder]
    /\ waiting = [p \in Pages |-> << >>]

Arrive(p, o) ==
    \/ /\ desk[p] = NoOrder
       /\ desk' = [desk EXCEPT ![p] = o]
       /\ UNCHANGED waiting
    \/ /\ desk[p] # NoOrder
       /\ waiting' = [waiting EXCEPT ![p] = Append(@, o)]
       /\ UNCHANGED desk

Finish(p) ==
    /\ desk[p] # NoOrder
    /\ \/ /\ waiting[p] # << >>
          /\ desk' = [desk EXCEPT ![p] = Head(waiting[p])]
          /\ waiting' = [waiting EXCEPT ![p] = Tail(@)]
       \/ /\ waiting[p] = << >>
          /\ desk' = [desk EXCEPT ![p] = NoOrder]
          /\ UNCHANGED waiting

\* A page that is left takes its orders with it.
Close(p) ==
    /\ desk' = [desk EXCEPT ![p] = NoOrder]
    /\ waiting' = [waiting EXCEPT ![p] = << >>]

Next == \E p \in Pages : (\E o \in Orders : Arrive(p, o)) \/ Finish(p) \/ Close(p)

Spec == Init /\ [][Next]_vars
=============================================================================
