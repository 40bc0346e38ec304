---------------------------- MODULE RuleLifecycle ----------------------------
(***************************************************************************)
(* What changing a hotel's rule promises, without clock, nodes, tasks or   *)
(* requests: a book of scheduled rule changes.  An entry takes effect only *)
(* once its hotel is published with the new rule, is settled only when its *)
(* hotel got an early bill, and never changes again once it is withdrawn.  *)
(* A hotel gets an early bill only when one of its entries took effect.    *)
(***************************************************************************)
CONSTANTS
    Hotels,
    RuleIds,
    NoRule

VARIABLES
    book,       \* the entries
    published,  \* hotels published with the new rule
    billed      \* hotels that got an early bill

vars == <<book, published, billed>>

Phases == {"scheduled", "effective", "settling", "settled"}
Entry == [hotel : Hotels, phase : Phases, standing : {"active", "withdrawn"}]

Init ==
    /\ book = [r \in RuleIds |-> NoRule]
    /\ published = {}
    /\ billed = {}

EntriesOf(h) == {r \in RuleIds : book[r] # NoRule /\ book[r].hotel = h}

Schedule(r, h) ==
    /\ book[r] = NoRule
    /\ book' = [book EXCEPT ![r] = [hotel |-> h, phase |-> "scheduled", standing |-> "active"]]
    /\ UNCHANGED <<published, billed>>

Publish(h) ==
    /\ published' = published \cup {h}
    /\ UNCHANGED <<book, billed>>

\* All active entries of the hotel in one phase move on together.
Move(h, from, to) ==
    /\ book' = [r \in RuleIds |->
                  IF r \in EntriesOf(h) /\ book[r].standing = "active" /\ book[r].phase = from
                  THEN [book[r] EXCEPT !.phase = to]
                  ELSE book[r]]
    /\ UNCHANGED <<published, billed>>

TakeEffect(h) == h \in published /\ Move(h, "scheduled", "effective")
Claim(h) == Move(h, "effective", "settling")
Settle(h) == h \in billed /\ Move(h, "settling", "settled")
Release(h) == Move(h, "settling", "effective")

Bill(h) ==
    /\ \E r \in EntriesOf(h) : book[r].phase # "scheduled"
    /\ billed' = billed \cup {h}
    /\ UNCHANGED <<book, published>>

Withdraw(h) ==
    /\ book' = [r \in RuleIds |-> IF r \in EntriesOf(h)
                                  THEN [book[r] EXCEPT !.standing = "withdrawn"]
                                  ELSE book[r]]
    /\ UNCHANGED <<published, billed>>

Next ==
    \E h \in Hotels :
        \/ \E r \in RuleIds : Schedule(r, h)
        \/ Publish(h)
        \/ TakeEffect(h)
        \/ Claim(h)
        \/ Settle(h)
        \/ Release(h)
        \/ Bill(h)
        \/ Withdraw(h)

Spec == Init /\ [][Next]_vars
=============================================================================
