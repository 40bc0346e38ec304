----------------------------- MODULE BillConfirm -----------------------------
(***************************************************************************)
(* A hotel's answer to its bills.                                          *)
(*                                                                         *)
(* The back office draws up a bill and lets it await the hotel's           *)
(* confirmation. A user of the hotel confirms it or objects to the amount; *)
(* each decision is written to the bill and then to an audit table. An     *)
(* objection goes back and forth in the back office until the bill awaits  *)
(* confirmation again, a confirmed bill is settled.                        *)
(*                                                                         *)
(* Two kinds of bill differ in how they are written: BillService answers   *)
(* the bills of a period (b_bill_confirm_check) in two or three            *)
(* statements, BillSpecialService those of special prices (bill_special)   *)
(* in two. Settled special bills may be appealed against                   *)
(* (FeedbackService; appeals against weekly bills differ in the type       *)
(* only). Every mapper call commits on its own (see HotelRule).            *)
(***************************************************************************)
EXTENDS Integers, FiniteSets

CONSTANTS
    PeriodBills,  \* bills of b_bill_confirm_check
    SpecialBills, \* bills of bill_special
    Users,        \* users of the hotel, each with one request at a time
    Amounts,      \* amounts a hotel may ask for
    MaxRounds,    \* bound: how often objections send bills round again
    FaultKinds,   \* kinds of fault that may happen
    MaxFaults,    \* bound: faults in a behaviour
    Null,         \* a column that is not set
    Idle          \* a user who is waiting for no request

Bills == PeriodBills \cup SpecialBills

ASSUME MaxRoundsAssumption == MaxRounds \in Nat
ASSUME BillMaxFaultsAssumption == MaxFaults \in Nat
ASSUME BillKindsAssumption == PeriodBills \cap SpecialBills = {}
ASSUME BillFaultKindsAssumption == FaultKinds \subseteq {"crash", "logout"}

\* HmsSimpleBBillConfirmCheckEnum
Created == 0
Confirming == 1    \* awaits the hotel
Disagreed == 2     \* the hotel objects
Checking == 3      \* awaits the manager of the back office
CheckFailed == 4   \* sent back by the manager
Checked == 5       \* approved by the manager
Confirmed == 6     \* the hotel agrees
Finished == 7      \* settled
Statuses == 0..7
Objected == {Disagreed, Checking, CheckFailed, Checked}
Agreed == {Confirmed, Finished}

\* A row of a bill table. Special bills record no users.
Row == [status : Statuses, objection : Amounts \cup {Null},
        objector : Users \cup {Null}, confirmer : Users \cup {Null}]

\* A request: the row it has read, with its changes, and its next statement.
PeriodSteps == {"confirm", "amount", "disagree", "auditConfirmed", "auditDisagreed"}
SpecialSteps == {"decide", "auditSpecial", "appeal"}
AuditSteps == {"auditConfirmed", "auditDisagreed", "auditSpecial"}
Request == [bill : PeriodBills, row : Row, pc : PeriodSteps]
           \cup [bill : SpecialBills, row : Row, pc : SpecialSteps]

ASSUME BillNullsAssumption ==
    /\ Null \notin Amounts
    /\ Null \notin Users
    /\ Idle \notin Request

VARIABLES
    bill,       \* the rows of both tables
    audit,      \* who decided on which bill, and the status that was filed
    appeals,    \* t_bill_feedback: appeals against a special bill
    rounds,     \* objections that were sent round so far
    req,        \* the request each user is waiting for
    overlapped, \* bills with two requests under way at the same time, ever
    cutOff,     \* decisions whose request ended before they were filed
    faults      \* faults so far

vars == <<bill, audit, appeals, rounds, req, overlapped, cutOff, faults>>

AuditEntry == [bill : Bills, user : Users, status : Statuses]

TypeOK ==
    /\ bill \in [Bills -> Row]
    /\ audit \subseteq AuditEntry
    /\ appeals \in [SpecialBills -> Nat]
    /\ rounds \in 0..MaxRounds
    /\ req \in [Users -> Request \cup {Idle}]
    /\ overlapped \subseteq Bills
    /\ cutOff \subseteq Bills \X Users
    /\ faults \in 0..MaxFaults

Init ==
    /\ bill = [b \in Bills |-> [status |-> Created, objection |-> Null,
                                objector |-> Null, confirmer |-> Null]]
    /\ audit = {}
    /\ appeals = [b \in SpecialBills |-> 0]
    /\ rounds = 0
    /\ req = [u \in Users |-> Idle]
    /\ overlapped = {}
    /\ cutOff = {}
    /\ faults = 0

-----------------------------------------------------------------------------
(* Requests.                                                               *)

About(u, b) == req[u] # Idle /\ req[u].bill = b

Begin(u, b, row, pc) ==
    /\ req[u] = Idle
    /\ req' = [req EXCEPT ![u] = [bill |-> b, row |-> row, pc |-> pc]]
    /\ overlapped' = IF \E v \in Users : About(v, b)
                     THEN overlapped \cup {b} ELSE overlapped
    /\ UNCHANGED <<bill, audit, appeals, rounds, cutOff, faults>>

At(u, pc) == req[u] # Idle /\ req[u].pc = pc
Goto(u, pc) == req' = [req EXCEPT ![u].pc = pc]
Done(u) == req' = [req EXCEPT ![u] = Idle]

Fault(kind) ==
    /\ kind \in FaultKinds
    /\ faults < MaxFaults
    /\ faults' = faults + 1

\* The statements before which the user is looked up in the session.
SessionSteps == {"confirm", "disagree", "auditSpecial", "appeal"}

\* The request dies, or finds that its user has logged out in another window.
\* What it has written stays.
CutOff(u) ==
    /\ req[u] # Idle
    /\ \/ Fault("crash")
       \/ req[u].pc \in SessionSteps /\ Fault("logout")
    /\ cutOff' = IF req[u].pc \in AuditSteps
                 THEN cutOff \cup {<<req[u].bill, u>>} ELSE cutOff
    /\ Done(u)
    /\ UNCHANGED <<bill, audit, appeals, rounds, overlapped>>

\* updateByPrimaryKeySelective: columns of the row that are not set keep
\* their value.
Overlay(old, row) ==
    [status |-> row.status,
     objection |-> IF row.objection = Null THEN old.objection ELSE row.objection,
     objector |-> IF row.objector = Null THEN old.objector ELSE row.objector,
     confirmer |-> IF row.confirmer = Null THEN old.confirmer ELSE row.confirmer]

Update(u, row, pc) ==
    /\ bill' = [bill EXCEPT ![req[u].bill] = row]
    /\ Goto(u, pc)
    /\ UNCHANGED <<audit, appeals, rounds, overlapped, cutOff, faults>>

\* Mutant: an objection is filed as a confirmation.
FiledAsConfirmed(pc) == IF pc = "auditSpecial" THEN Confirming ELSE Confirmed

\* The status that is filed; for special bills the one they had before.
FiledAs(pc) ==
    CASE pc = "auditConfirmed" -> Confirmed
      [] pc = "auditDisagreed" -> Disagreed
      [] pc = "auditSpecial" -> Confirming

\* The decision is filed, under the user of the session.
File(u) ==
    /\ req[u] # Idle
    /\ req[u].pc \in AuditSteps
    /\ audit' = audit \cup {[bill |-> req[u].bill, user |-> u,
                             status |-> FiledAs(req[u].pc)]}
    /\ Done(u)
    /\ UNCHANGED <<bill, appeals, rounds, overlapped, cutOff, faults>>

-----------------------------------------------------------------------------
(* Bills of a period: simpleHmsConfirmBillAmount, simpleHmsCheckBillAmount. *)

ReadConfirm(u, b) ==
    /\ b \in PeriodBills
    /\ bill[b].status = Confirming
    /\ Begin(u, b, bill[b], "confirm")

\* Mutant: the status "split or adjusted", which the enum does not know.
WriteConfirmSplit(u) ==
    /\ At(u, "confirm")
    /\ Update(u, [bill[req[u].bill] EXCEPT !.status = 8, !.confirmer = u],
              "auditConfirmed")

\* Only the status and the user are written.
WriteConfirm(u) ==
    /\ At(u, "confirm")
    /\ Update(u, [bill[req[u].bill] EXCEPT !.status = Confirmed, !.confirmer = u],
              "auditConfirmed")

\* Mutant: the state of the bill is not looked at.
ReadObjectionAnyStatus(u, b, amount) ==
    /\ b \in PeriodBills
    /\ Begin(u, b, [bill[b] EXCEPT !.objection = amount], "amount")

\* Mutant: the status is written before the amount.
ReadObjectionStatusFirst(u, b, amount) ==
    /\ b \in PeriodBills
    /\ bill[b].status = Confirming
    /\ Begin(u, b, [bill[b] EXCEPT !.objection = amount], "disagree")

ReadObjection(u, b, amount) ==
    /\ b \in PeriodBills
    /\ bill[b].status = Confirming
    /\ Begin(u, b, [bill[b] EXCEPT !.objection = amount], "amount")

\* The whole row that was read is written back with the amount, its status
\* included.
WriteAmount(u) ==
    /\ At(u, "amount")
    /\ Update(u, Overlay(bill[req[u].bill], req[u].row), "disagree")

WriteDisagree(u) ==
    /\ At(u, "disagree")
    /\ Update(u, [bill[req[u].bill] EXCEPT !.status = Disagreed, !.objector = u],
              "auditDisagreed")

-----------------------------------------------------------------------------
(* Special bills: specialConfirmAmount, specialCheckAmount.                *)

\* The amount the hotel asks for is not among the columns that are read.
ReadSpecialConfirm(u, b) ==
    /\ b \in SpecialBills
    /\ bill[b].status = Confirming
    /\ Begin(u, b, [bill[b] EXCEPT !.status = Confirmed, !.objection = Null], "decide")

ReadSpecialObjection(u, b, amount) ==
    /\ b \in SpecialBills
    /\ bill[b].status = Confirming
    /\ Begin(u, b, [bill[b] EXCEPT !.status = Disagreed, !.objection = amount], "decide")

\* An objection is written selectively, a confirmation as a whole row; but
\* updateByPrimaryKey does not know the amount the hotel asks for either.
WriteSpecial(u) ==
    /\ At(u, "decide")
    /\ Update(u, Overlay(bill[req[u].bill], req[u].row), "auditSpecial")

-----------------------------------------------------------------------------
(* Appeals: FeedbackController.create.                                     *)

\* Mutant: earlier appeals do not matter.
ReadAppealsAlways(u, b) ==
    /\ b \in SpecialBills
    /\ Begin(u, b, bill[b], "appeal")

\* Any appeal against the bill stands in the way, a settled one too.
ReadAppeals(u, b) ==
    /\ b \in SpecialBills
    /\ appeals[b] = 0
    /\ Begin(u, b, bill[b], "appeal")

SaveAppeal(u) ==
    /\ At(u, "appeal")
    /\ appeals' = [appeals EXCEPT ![req[u].bill] = @ + 1]
    /\ Done(u)
    /\ UNCHANGED <<bill, audit, rounds, overlapped, cutOff, faults>>

-----------------------------------------------------------------------------
(* The back office. Its program is not part of the repository; the statuses*)
(* it sets are those the enum's comments name.                             *)

Office == {<<Created, Confirming>>, <<Disagreed, Checking>>,
           <<Checking, CheckFailed>>, <<Checking, Checked>>,
           <<CheckFailed, Checking>>, <<Checked, Confirming>>,
           <<Confirmed, Finished>>}

BackOffice(b) ==
    /\ \E status \in Statuses :
         /\ <<bill[b].status, status>> \in Office
         /\ bill' = [bill EXCEPT ![b].status = status]
    /\ IF bill[b].status = Checked
       THEN rounds < MaxRounds /\ rounds' = rounds + 1
       ELSE rounds' = rounds
    /\ UNCHANGED <<audit, appeals, req, overlapped, cutOff, faults>>

-----------------------------------------------------------------------------
\* The statements of a request about the bill of a period.
Period(u) == WriteConfirm(u) \/ WriteAmount(u) \/ WriteDisagree(u)

Start(u, b) ==
    \/ ReadConfirm(u, b)
    \/ ReadSpecialConfirm(u, b)
    \/ ReadAppeals(u, b)
    \/ \E amount \in Amounts :
         ReadObjection(u, b, amount) \/ ReadSpecialObjection(u, b, amount)

Next ==
    \/ \E u \in Users :
         \/ \E b \in Bills : Start(u, b)
         \/ Period(u)
         \/ WriteSpecial(u)
         \/ File(u)
         \/ SaveAppeal(u)
         \/ CutOff(u)
    \/ \E b \in Bills : BackOffice(b)

Spec == Init /\ [][Next]_vars
-----------------------------------------------------------------------------
(* What holds for any users, requests and faults.                          *)

\* While an objection is being handled the bill says which amount the hotel
\* asks for, although amount and status of a period's bill are written by
\* two statements, and rows that were read earlier are written over it
\* (BillService.java:702-707, BillSpecialService.java:130-132).
ObjectionHasAmount ==
    \A b \in Bills : bill[b].status \in Objected => bill[b].objection # Null

\* What the audit tables are to say after each decision.
FiledStatus == [auditConfirmed |-> Confirmed, auditDisagreed |-> Disagreed,
                auditSpecial |-> Confirming]

\* User u's decision on bill b was filed, is about to be, or its request was
\* cut off just before.
Filed(b, u, pc) ==
    /\ u \in Users
    /\ \/ [bill |-> b, user |-> u, status |-> FiledStatus[pc]] \in audit
       \/ About(u, b) /\ req[u].pc = pc
       \/ <<b, u>> \in cutOff

\* A decision is never without its entry in the audit tables, and for the
\* bills of a period the entry is that of the very user the bill names:
\* "write the audit record" (BillService.java:623-629 and 666-672,
\* BillSpecialService.java:133-135).
DecisionIsFiled ==
    /\ \A b \in PeriodBills :
         /\ bill[b].status \in Objected =>
              Filed(b, bill[b].objector, "auditDisagreed")
         /\ bill[b].status \in Agreed =>
              Filed(b, bill[b].confirmer, "auditConfirmed")
    /\ \A b \in SpecialBills :
         bill[b].status \in Objected \cup Agreed =>
           \E u \in Users : Filed(b, u, "auditSpecial")

\* A bill has one appeal, as long as nobody else works on the bill at the
\* same time: "appeal is being handled" (FeedbackController.java:41-46).
OneAppeal ==
    \A b \in SpecialBills : b \notin overlapped => appeals[b] <= 1

\* A confirmation that was filed stands, as long as requests about the bill do
\* not overlap: the bill stays confirmed or settled, under that user, so no
\* objection and no second confirmation ever follows it, whatever was cut off
\* (the checks of the status, BillService.java:578 and 686).
ConfirmationStands ==
    \A b \in PeriodBills \ overlapped : \A u \in Users :
        [bill |-> b, user |-> u, status |-> Confirmed] \in audit =>
            bill[b].status \in Agreed /\ bill[b].confirmer = u

\* As long as requests about a bill do not overlap, it takes only the steps of
\* the back office and, while it awaits the hotel, one of the hotel's two
\* (BillService.java:574-710, BillSpecialService.java:107-176).
Hotel == {<<Confirming, Disagreed>>, <<Confirming, Confirmed>>}
Flow ==
    [][\A b \in Bills :
         b \notin overlapped /\ bill'[b].status # bill[b].status =>
           <<bill[b].status, bill'[b].status>> \in Office \cup Hotel]_vars

=============================================================================
