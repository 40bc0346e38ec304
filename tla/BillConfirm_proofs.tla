-------------------------- MODULE BillConfirm_proofs --------------------------
(***************************************************************************)
(* Proofs about BillConfirm, for any bills, users, amounts, rounds and     *)
(* faults.                                                                 *)
(***************************************************************************)
EXTENDS BillConfirm, TLAPS

USE MaxRoundsAssumption, BillMaxFaultsAssumption, BillKindsAssumption,
    BillNullsAssumption

\* The statements of a request that decides on a bill, before it is filed.
Deciding == {"confirm", "amount", "disagree", "decide"}

\* A row that confirms, or objects and names the amount.
DecidedRow(row) ==
    \/ row.status = Confirmed
    \/ row.status = Disagreed /\ row.objection # Null

\* What a request carries to its next statement.
ReqInv ==
    \A u \in Users : req[u] # Idle =>
        /\ req[u].pc = "amount" => /\ req[u].row.status = Confirming
                                   /\ req[u].row.objection # Null
        /\ req[u].pc = "disagree" => bill[req[u].bill].objection # Null
        /\ req[u].pc = "decide" => DecidedRow(req[u].row)

\* On a bill without overlapping requests there is one request at most, and
\* what it has read is still true.
AloneInv ==
    \A b \in Bills : b \notin overlapped =>
        /\ \A u, v \in Users : About(u, b) /\ About(v, b) => u = v
        /\ \A u \in Users : About(u, b) =>
              /\ req[u].pc \in Deciding => bill[b].status = Confirming
              /\ req[u].pc = "appeal" => appeals[b] = 0

\* The inductive invariant.
Inv == TypeOK /\ ReqInv /\ AloneInv /\ ObjectionHasAmount /\ DecisionIsFiled /\ OneAppeal

-----------------------------------------------------------------------------
(* Lemmas about requests and rows.                                         *)

\* A request is about a bill of the kind its statements are for.
LEMMA RequestFields ==
    ASSUME TypeOK, NEW u \in Users, req[u] # Idle
    PROVE  /\ req[u].bill \in Bills
           /\ req[u].row \in Row
           /\ req[u].pc \in PeriodSteps \cup SpecialSteps
           /\ req[u].pc \in PeriodSteps => req[u].bill \in PeriodBills
           /\ req[u].pc \in SpecialSteps => req[u].bill \in SpecialBills
<1>1. req[u] \in Request
  BY DEF TypeOK
<1>2. CASE req[u] \in [bill : PeriodBills, row : Row, pc : PeriodSteps]
  BY <1>2 DEF PeriodSteps, SpecialSteps, Bills
<1>3. CASE req[u] \in [bill : SpecialBills, row : Row, pc : SpecialSteps]
  BY <1>3 DEF PeriodSteps, SpecialSteps, Bills
<1>4. QED
  BY <1>1, <1>2, <1>3 DEF Request

\* A request that goes on is still about the same bill and carries the same
\* row; the other requests are as they were.
LEMMA GotoReq ==
    ASSUME TypeOK, NEW u \in Users, req[u] # Idle, NEW pc, Goto(u, pc),
           \/ req[u].pc \in PeriodSteps /\ pc \in PeriodSteps
           \/ req[u].pc \in SpecialSteps /\ pc \in SpecialSteps
    PROVE  /\ req' \in [Users -> Request \cup {Idle}]
           /\ req'[u] # Idle
           /\ req'[u].bill = req[u].bill
           /\ req'[u].row = req[u].row
           /\ req'[u].pc = pc
           /\ \A v \in Users : v # u => req'[v] = req[v]
<1> DEFINE new == [req[u] EXCEPT !.pc = pc]
<1>1. req \in [Users -> Request \cup {Idle}] /\ req[u] \in Request
  BY DEF TypeOK
<1>2. new \in Request /\ new.bill = req[u].bill /\ new.row = req[u].row /\ new.pc = pc
  <2>1. CASE req[u] \in [bill : PeriodBills, row : Row, pc : PeriodSteps]
    BY <2>1, RequestFields DEF Request, PeriodSteps, SpecialSteps
  <2>2. CASE req[u] \in [bill : SpecialBills, row : Row, pc : SpecialSteps]
    BY <2>2, RequestFields DEF Request, PeriodSteps, SpecialSteps
  <2>3. QED
    BY <1>1, <2>1, <2>2 DEF Request
<1>3. req' = [req EXCEPT ![u] = new]
  BY DEF Goto
<1>4. new # Idle
  BY <1>2
<1> HIDE DEF new
<1>5. QED
  BY <1>1, <1>2, <1>3, <1>4

\* A request that ends leaves the others as they were.
LEMMA DoneReq ==
    ASSUME TypeOK, NEW u \in Users, Done(u)
    PROVE  /\ req' \in [Users -> Request \cup {Idle}]
           /\ req'[u] = Idle
           /\ \A v \in Users : v # u => req'[v] = req[v]
  BY DEF TypeOK, Done

\* A row laid over another is a row, and forgets no objection.
LEMMA OverlayRowType ==
    ASSUME NEW old \in Row, NEW row \in Row
    PROVE  /\ Overlay(old, row) \in Row
           /\ Overlay(old, row).status = row.status
           /\ row.objection # Null => Overlay(old, row).objection # Null
           /\ old.objection # Null => Overlay(old, row).objection # Null
  BY DEF Row, Overlay

\* DecisionIsFiled, for one bill.
BillIsFiled(b) ==
    /\ b \in PeriodBills =>
         /\ bill[b].status \in Objected => Filed(b, bill[b].objector, "auditDisagreed")
         /\ bill[b].status \in Agreed => Filed(b, bill[b].confirmer, "auditConfirmed")
    /\ b \in SpecialBills /\ bill[b].status \in Objected \cup Agreed =>
           \E u \in Users : Filed(b, u, "auditSpecial")

\* The property is about each bill by itself.
LEMMA FiledBillByBill == DecisionIsFiled <=> \A b \in Bills : BillIsFiled(b)
  BY DEF DecisionIsFiled, BillIsFiled, Bills

\* A step that keeps the decision of a bill and forgets nothing about who
\* files it keeps it filed.
LEMMA BillStaysFiled ==
    ASSUME NEW b \in Bills, BillIsFiled(b),
           \A u \in Users : \A pc \in AuditSteps : Filed(b, u, pc) => Filed(b, u, pc)',
           bill'[b].objector = bill[b].objector,
           bill'[b].confirmer = bill[b].confirmer,
           bill'[b].status \in Objected => bill[b].status \in Objected,
           bill'[b].status \in Agreed => bill[b].status \in Agreed
    PROVE  BillIsFiled(b)'
<1>1. \A u, pc : Filed(b, u, pc) => u \in Users
  BY DEF Filed
<1>2. ASSUME b \in PeriodBills, bill'[b].status \in Objected
      PROVE  Filed(b, bill[b].objector, "auditDisagreed")'
  BY <1>1, <1>2 DEF BillIsFiled, AuditSteps
<1>3. ASSUME b \in PeriodBills, bill'[b].status \in Agreed
      PROVE  Filed(b, bill[b].confirmer, "auditConfirmed")'
  BY <1>1, <1>3 DEF BillIsFiled, AuditSteps
<1>4. ASSUME b \in SpecialBills, bill'[b].status \in Objected \cup Agreed
      PROVE  \E u \in Users : Filed(b, u, "auditSpecial")'
  BY <1>4 DEF BillIsFiled, AuditSteps
<1>5. QED
  BY <1>2, <1>3, <1>4 DEF BillIsFiled

-----------------------------------------------------------------------------
(* Steps of the same shape preserve the invariant for the same reason.     *)

\* A request begins with what is true of its bill.
LEMMA BeginKeeps ==
    ASSUME Inv, NEW u \in Users, NEW b \in Bills, NEW row \in Row, NEW pc,
           Begin(u, b, row, pc),
           \/ b \in PeriodBills /\ pc \in PeriodSteps
           \/ b \in SpecialBills /\ pc \in SpecialSteps,
           pc \in (Deciding \ {"disagree"}) \cup {"appeal"},
           pc = "amount" => row.status = Confirming /\ row.objection # Null,
           pc = "decide" => DecidedRow(row),
           pc \in Deciding => bill[b].status = Confirming,
           pc = "appeal" => appeals[b] = 0
    PROVE  Inv'
<1> DEFINE new == [bill |-> b, row |-> row, pc |-> pc]
<1>1. /\ new \in Request
      /\ new # Idle
      /\ new.bill = b
      /\ new.row = row
      /\ new.pc = pc
  BY DEF Request
<1>2. /\ req[u] = Idle
      /\ req' = [req EXCEPT ![u] = new]
      /\ UNCHANGED <<bill, audit, appeals, rounds, cutOff, faults>>
  BY DEF Begin
<1> HIDE DEF new
<1>3. /\ req' \in [Users -> Request \cup {Idle}]
      /\ req'[u] = new
      /\ \A v \in Users : v # u => req'[v] = req[v]
  BY <1>1, <1>2 DEF Inv, TypeOK
<1>4. /\ overlapped' \subseteq Bills
      /\ overlapped \subseteq overlapped'
      /\ b \notin overlapped' => \A v \in Users : ~About(v, b)
  BY DEF Begin, Inv, TypeOK
<1>5. TypeOK'
  BY <1>2, <1>3, <1>4 DEF Inv, TypeOK
<1>6. ReqInv'
  BY <1>1, <1>2, <1>3 DEF Inv, ReqInv, Deciding
<1>7. AloneInv'
  <2> SUFFICES ASSUME NEW c \in Bills, c \notin overlapped'
               PROVE  /\ \A v, w \in Users : About(v, c)' /\ About(w, c)' => v = w
                      /\ \A v \in Users : About(v, c)' =>
                            /\ req'[v].pc \in Deciding => bill'[c].status = Confirming
                            /\ req'[v].pc = "appeal" => appeals'[c] = 0
    BY DEF AloneInv, About
  <2>1. c \notin overlapped
    BY <1>4
  <2>2. CASE c = b
    BY <2>1, <2>2, <1>1, <1>2, <1>3, <1>4 DEF About
  <2>3. CASE c # b
    BY <2>1, <2>3, <1>1, <1>2, <1>3 DEF Inv, AloneInv, About
  <2>4. QED
    BY <2>2, <2>3
<1>8. ObjectionHasAmount'
  BY <1>2 DEF Inv, ObjectionHasAmount
<1>9. DecisionIsFiled'
  <2> SUFFICES ASSUME NEW c \in Bills
               PROVE  BillIsFiled(c)'
    BY FiledBillByBill DEF DecisionIsFiled, BillIsFiled, Bills
  <2>1. ASSUME NEW v \in Users, NEW p, Filed(c, v, p)
        PROVE  Filed(c, v, p)'
    BY <2>1, <1>2, <1>3 DEF Filed, About
  <2>2. BillIsFiled(c)
    BY FiledBillByBill DEF Inv
  <2>3. bill' = bill
    BY <1>2
  <2>4. QED
    BY <2>1, <2>2, <2>3, BillStaysFiled
<1>10. OneAppeal'
  BY <1>2, <1>4 DEF Inv, OneAppeal
<1>11. QED
  BY <1>5, <1>6, <1>7, <1>8, <1>9, <1>10 DEF Inv

\* A request writes a row that shows its decision and goes on to file it, or
\* writes the amount and goes on to write the decision.
LEMMA UpdateKeeps ==
    ASSUME Inv, NEW u \in Users, req[u] # Idle, req[u].pc \in Deciding,
           NEW row \in Row, NEW pc, Update(u, row, pc),
           \/ /\ req[u].pc \in PeriodSteps
              /\ \/ pc = "disagree" /\ row.status = Confirming /\ row.objection # Null
                 \/ /\ pc = "auditDisagreed" /\ row.status = Disagreed
                    /\ row.objector = u /\ row.objection # Null
                 \/ pc = "auditConfirmed" /\ row.status = Confirmed /\ row.confirmer = u
              /\ bill[req[u].bill].objection # Null => row.objection # Null
           \/ /\ req[u].pc \in SpecialSteps /\ pc = "auditSpecial"
              /\ DecidedRow(row)
    PROVE  Inv'
<1>1. PICK b \in Bills : b = req[u].bill
  BY RequestFields DEF Inv
<1>2. /\ bill' = [bill EXCEPT ![b] = row]
      /\ Goto(u, pc)
      /\ UNCHANGED <<audit, appeals, rounds, overlapped, cutOff, faults>>
  BY <1>1 DEF Update
<1>3. /\ bill' \in [Bills -> Row]
      /\ bill'[b] = row
      /\ \A c \in Bills : c # b => bill'[c] = bill[c]
  BY <1>2 DEF Inv, TypeOK
<1>4. /\ req' \in [Users -> Request \cup {Idle}]
      /\ req'[u] # Idle
      /\ req'[u].bill = b
      /\ req'[u].row = req[u].row
      /\ req'[u].pc = pc
      /\ \A v \in Users : v # u => req'[v] = req[v]
  BY <1>1, <1>2, GotoReq DEF Inv, PeriodSteps, SpecialSteps
<1>5. /\ req[u].pc \in PeriodSteps => b \in PeriodBills
      /\ req[u].pc \in SpecialSteps => b \in SpecialBills
  BY <1>1, RequestFields DEF Inv
<1>6. TypeOK'
  BY <1>2, <1>3, <1>4 DEF Inv, TypeOK
<1>7. ReqInv'
  <2> SUFFICES ASSUME NEW v \in Users, req'[v] # Idle
               PROVE  /\ req'[v].pc = "amount" => /\ req'[v].row.status = Confirming
                                                  /\ req'[v].row.objection # Null
                      /\ req'[v].pc = "disagree" => bill'[req'[v].bill].objection # Null
                      /\ req'[v].pc = "decide" => DecidedRow(req'[v].row)
    BY DEF ReqInv
  <2>1. CASE v = u
    BY <2>1, <1>3, <1>4
  <2>2. CASE v # u
    <3>1. req'[v] = req[v] /\ req[v].bill \in Bills
      BY <2>2, <1>4, RequestFields DEF Inv
    <3>2. ASSUME req[v].pc = "disagree", req[v].bill = b
          PROVE  row.objection # Null
      <4>1. b \in PeriodBills /\ bill[b].objection # Null
        BY <3>1, <3>2, RequestFields DEF Inv, ReqInv, PeriodSteps
      <4>2. req[u].pc \in PeriodSteps
        BY <4>1, <1>5
      <4>3. QED
        BY <4>1, <4>2, <1>1 DEF PeriodSteps, SpecialSteps
    <3>3. QED
      BY <3>1, <3>2, <1>3 DEF Inv, ReqInv
  <2>3. QED
    BY <2>1, <2>2
<1>8. AloneInv'
  <2> SUFFICES ASSUME NEW c \in Bills, c \notin overlapped
               PROVE  /\ \A v, w \in Users : About(v, c)' /\ About(w, c)' => v = w
                      /\ \A v \in Users : About(v, c)' =>
                            /\ req'[v].pc \in Deciding => bill'[c].status = Confirming
                            /\ req'[v].pc = "appeal" => appeals'[c] = 0
    BY <1>2 DEF AloneInv, About
  <2>1. \A v \in Users : About(v, c)' <=> About(v, c)
    BY <1>1, <1>4 DEF About
  <2>2. CASE c = b
    BY <2>1, <2>2, <1>1, <1>2, <1>3, <1>4
       DEF Inv, AloneInv, About, Deciding, PeriodSteps, SpecialSteps
  <2>3. CASE c # b
    BY <2>1, <2>3, <1>1, <1>2, <1>3, <1>4 DEF Inv, AloneInv, About
  <2>4. QED
    BY <2>2, <2>3
<1>9. ObjectionHasAmount'
  BY <1>3 DEF Inv, ObjectionHasAmount, DecidedRow, Objected, Confirming, Confirmed,
              Disagreed, Checking, CheckFailed, Checked
<1>10. DecisionIsFiled'
  <2> SUFFICES ASSUME NEW c \in Bills
               PROVE  BillIsFiled(c)'
    BY FiledBillByBill DEF DecisionIsFiled, BillIsFiled, Bills
  <2>1. CASE c # b
    <3>1. ASSUME NEW v \in Users, NEW p, Filed(c, v, p)
          PROVE  Filed(c, v, p)'
      BY <3>1, <2>1, <1>1, <1>2, <1>4 DEF Filed, About
    <3>2. BillIsFiled(c) /\ bill'[c] = bill[c]
      BY <2>1, <1>3, FiledBillByBill DEF Inv
    <3>3. QED
      BY <3>1, <3>2, BillStaysFiled
  <2>2. CASE c = b
    <3>1. Filed(b, u, pc)'
      BY <1>4 DEF Filed, About
    <3>2. b \in PeriodBills => b \notin SpecialBills
      OBVIOUS
    <3>3. CASE req[u].pc \in PeriodSteps
      BY <2>2, <3>1, <3>2, <3>3, <1>3, <1>5
         DEF BillIsFiled, Objected, Agreed, Confirming, Confirmed, Disagreed, Finished,
             Checking, CheckFailed, Checked, PeriodSteps, SpecialSteps
    <3>4. CASE req[u].pc \in SpecialSteps
      BY <2>2, <3>1, <3>2, <3>4, <1>3, <1>5
         DEF BillIsFiled, PeriodSteps, SpecialSteps
    <3>5. QED
      BY <3>3, <3>4
  <2>3. QED
    BY <2>1, <2>2
<1>11. OneAppeal'
  BY <1>2 DEF Inv, OneAppeal
<1>12. QED
  BY <1>6, <1>7, <1>8, <1>9, <1>10, <1>11 DEF Inv

\* A request ends: it has filed its decision, saved its appeal, or was cut
\* off.
LEMMA EndKeeps ==
    ASSUME Inv, NEW u \in Users, req[u] # Idle, Done(u),
           UNCHANGED <<bill, rounds, overlapped>>,
           audit' \subseteq AuditEntry, audit \subseteq audit',
           cutOff' \subseteq Bills \X Users, cutOff \subseteq cutOff',
           faults' \in 0..MaxFaults,
           appeals' \in [SpecialBills -> Nat],
           \A b \in SpecialBills : b \notin overlapped =>
              \/ appeals'[b] = appeals[b]
              \/ appeals'[b] <= 1 /\ About(u, b),
           \/ req[u].pc \notin AuditSteps
           \/ <<req[u].bill, u>> \in cutOff'
           \/ [bill |-> req[u].bill, user |-> u, status |-> FiledStatus[req[u].pc]] \in audit'
    PROVE  Inv'
<1>1. PICK b \in Bills : b = req[u].bill
  BY RequestFields DEF Inv
<1>2. /\ req' \in [Users -> Request \cup {Idle}]
      /\ req'[u] = Idle
      /\ \A v \in Users : v # u => req'[v] = req[v]
  BY DoneReq DEF Inv
<1>3. TypeOK'
  BY <1>2 DEF Inv, TypeOK
<1>4. ReqInv'
  BY <1>2 DEF Inv, ReqInv
<1>5. AloneInv'
  <2> SUFFICES ASSUME NEW c \in Bills, c \notin overlapped
               PROVE  /\ \A v, w \in Users : About(v, c)' /\ About(w, c)' => v = w
                      /\ \A v \in Users : About(v, c)' =>
                            /\ req'[v].pc \in Deciding => bill'[c].status = Confirming
                            /\ req'[v].pc = "appeal" => appeals'[c] = 0
    BY DEF AloneInv, About
  <2>1. \A v \in Users : About(v, c)' => About(v, c) /\ v # u /\ req'[v] = req[v]
    BY <1>2 DEF About
  <2>2. ASSUME NEW v \in Users, About(v, c)', req'[v].pc = "appeal"
        PROVE  appeals'[c] = appeals[c]
    <3>1. c \in SpecialBills /\ ~About(u, c)
      BY <2>1, <2>2, RequestFields DEF Inv, AloneInv, About, PeriodSteps, SpecialSteps
    <3>2. QED
      BY <3>1
  <2>3. QED
    BY <2>1, <2>2 DEF Inv, AloneInv
<1>6. ObjectionHasAmount'
  BY DEF Inv, ObjectionHasAmount
<1>7. DecisionIsFiled'
  <2> SUFFICES ASSUME NEW c \in Bills
               PROVE  BillIsFiled(c)'
    BY FiledBillByBill DEF DecisionIsFiled, BillIsFiled, Bills
  <2>1. ASSUME NEW v \in Users, NEW p \in AuditSteps, Filed(c, v, p)
        PROVE  Filed(c, v, p)'
    BY <2>1, <1>2 DEF Filed, About
  <2>2. BillIsFiled(c)
    BY FiledBillByBill DEF Inv
  <2>3. QED
    BY <2>1, <2>2, BillStaysFiled
<1>8. OneAppeal'
  BY DEF Inv, OneAppeal
<1>9. QED
  BY <1>3, <1>4, <1>5, <1>6, <1>7, <1>8 DEF Inv

\* The back office moves the status only, and never into one that needs a
\* decision the bill does not have.
LEMMA OfficeKeeps ==
    ASSUME Inv, NEW b \in Bills, BackOffice(b)
    PROVE  Inv'
<1>1. PICK status \in Statuses :
        /\ <<bill[b].status, status>> \in Office
        /\ bill' = [bill EXCEPT ![b].status = status]
  BY DEF BackOffice
<1>2. UNCHANGED <<audit, appeals, req, overlapped, cutOff, faults>>
  BY DEF BackOffice
<1>3. /\ bill' \in [Bills -> Row]
      /\ bill'[b].status = status
      /\ \A c \in Bills : c # b => bill'[c] = bill[c]
      /\ \A c \in Bills : /\ bill'[c].objection = bill[c].objection
                           /\ bill'[c].objector = bill[c].objector
                           /\ bill'[c].confirmer = bill[c].confirmer
  BY <1>1 DEF Inv, TypeOK, Row
<1>4. /\ bill[b].status # Confirming
      /\ status \in Objected => bill[b].status \in Objected
      /\ status \in Agreed => bill[b].status \in Agreed
  BY <1>1 DEF Office, Objected, Agreed, Created, Confirming, Disagreed, Checking,
              CheckFailed, Checked, Confirmed, Finished
<1>5. TypeOK'
  <2>1. rounds' \in 0..MaxRounds
    BY DEF BackOffice, Inv, TypeOK
  <2>2. QED
    BY <2>1, <1>2, <1>3 DEF Inv, TypeOK
<1>6. ReqInv'
  <2>1. \A v \in Users : req[v] # Idle => req[v].bill \in Bills
    BY RequestFields DEF Inv
  <2>2. QED
    BY <2>1, <1>2, <1>3 DEF Inv, ReqInv
<1>7. AloneInv'
  BY <1>2, <1>3, <1>4 DEF Inv, AloneInv, About
<1>8. ObjectionHasAmount'
  BY <1>3, <1>4 DEF Inv, ObjectionHasAmount
<1>9. DecisionIsFiled'
  <2> SUFFICES ASSUME NEW c \in Bills
               PROVE  BillIsFiled(c)'
    BY FiledBillByBill DEF DecisionIsFiled, BillIsFiled, Bills
  <2>1. ASSUME NEW v \in Users, NEW p \in AuditSteps, Filed(c, v, p)
        PROVE  Filed(c, v, p)'
    BY <2>1, <1>2 DEF Filed, About
  <2>2. BillIsFiled(c)
    BY FiledBillByBill DEF Inv
  <2>3. QED
    BY <2>1, <2>2, <1>3, <1>4, BillStaysFiled
<1>10. OneAppeal'
  BY <1>2 DEF Inv, OneAppeal
<1>11. QED
  BY <1>5, <1>6, <1>7, <1>8, <1>9, <1>10 DEF Inv

-----------------------------------------------------------------------------
(* The invariant.                                                          *)

LEMMA InitInv == Init => Inv
<1> SUFFICES ASSUME Init
             PROVE  Inv
  OBVIOUS
<1>1. TypeOK
  BY DEF Init, TypeOK, Row, Statuses, Created
<1>2. ReqInv /\ AloneInv /\ OneAppeal
  BY DEF Init, ReqInv, AloneInv, OneAppeal, About
<1>3. ObjectionHasAmount /\ DecisionIsFiled
  BY DEF Init, ObjectionHasAmount, DecisionIsFiled, Bills, Objected, Agreed, Created,
         Disagreed, Checking, CheckFailed, Checked, Confirmed, Finished
<1>4. QED
  BY <1>1, <1>2, <1>3 DEF Inv

\* A user opens a bill.
LEMMA StartKeeps ==
    ASSUME Inv, NEW u \in Users, NEW b \in Bills, Start(u, b)
    PROVE  Inv'
<1>1. bill[b] \in Row
  BY DEF Inv, TypeOK
<1>2. CASE ReadConfirm(u, b)
  BY <1>1, <1>2, BeginKeeps DEF ReadConfirm, PeriodSteps, Deciding
<1>3. CASE ReadSpecialConfirm(u, b)
  <2> DEFINE row == [bill[b] EXCEPT !.status = Confirmed, !.objection = Null]
  <2>1. row \in Row /\ row.status = Confirmed
    <3> DEFINE mid == [bill[b] EXCEPT !.status = Confirmed]
    <3>1. mid \in Row /\ mid.status = Confirmed
      BY <1>1 DEF Row, Statuses, Confirmed
    <3>2. row = [mid EXCEPT !.objection = Null]
      BY <1>1 DEF Row
    <3> HIDE DEF mid, row
    <3>3. QED
      BY <3>1, <3>2 DEF Row
  <2>2. Begin(u, b, row, "decide") /\ b \in SpecialBills /\ bill[b].status = Confirming
    BY <1>3 DEF ReadSpecialConfirm
  <2> HIDE DEF row
  <2>3. QED
    BY <2>1, <2>2, BeginKeeps DEF SpecialSteps, Deciding, DecidedRow
<1>4. CASE ReadAppeals(u, b)
  BY <1>1, <1>4, BeginKeeps DEF ReadAppeals, SpecialSteps, Deciding
<1>5. ASSUME NEW amount \in Amounts, ReadObjection(u, b, amount)
      PROVE  Inv'
  <2> DEFINE row == [bill[b] EXCEPT !.objection = amount]
  <2>1. row \in Row /\ row.status = bill[b].status /\ row.objection # Null
    BY <1>1 DEF Row
  <2>2. Begin(u, b, row, "amount") /\ b \in PeriodBills /\ bill[b].status = Confirming
    BY <1>5 DEF ReadObjection
  <2> HIDE DEF row
  <2>3. QED
    BY <2>1, <2>2, BeginKeeps DEF PeriodSteps, Deciding
<1>6. ASSUME NEW amount \in Amounts, ReadSpecialObjection(u, b, amount)
      PROVE  Inv'
  <2> DEFINE row == [bill[b] EXCEPT !.status = Disagreed, !.objection = amount]
  <2>1. /\ row \in Row /\ row.status = Disagreed /\ row.objection # Null
    <3> DEFINE mid == [bill[b] EXCEPT !.status = Disagreed]
    <3>1. mid \in Row /\ mid.status = Disagreed /\ mid.objection = bill[b].objection
      BY <1>1 DEF Row, Statuses, Disagreed
    <3>2. row = [mid EXCEPT !.objection = amount]
      BY <1>1 DEF Row
    <3> HIDE DEF mid, row
    <3>3. QED
      BY <3>1, <3>2 DEF Row
  <2>2. Begin(u, b, row, "decide") /\ b \in SpecialBills /\ bill[b].status = Confirming
    BY <1>6 DEF ReadSpecialObjection
  <2> HIDE DEF row
  <2>3. QED
    BY <2>1, <2>2, BeginKeeps DEF SpecialSteps, Deciding, DecidedRow
<1>7. QED
  BY <1>2, <1>3, <1>4, <1>5, <1>6 DEF Start

\* A request writes to the bill of a period.
LEMMA PeriodKeeps ==
    ASSUME Inv, NEW u \in Users, Period(u)
    PROVE  Inv'
<1>1. req[u] # Idle
  BY DEF Period, WriteConfirm, WriteAmount, WriteDisagree, At
<1>2. PICK b \in Bills : b = req[u].bill
  BY <1>1, RequestFields DEF Inv
<1>3. bill[b] \in Row /\ req[u].row \in Row
  BY <1>1, RequestFields DEF Inv, TypeOK
<1>4. CASE WriteConfirm(u)
  <2> DEFINE row == [bill[b] EXCEPT !.status = Confirmed, !.confirmer = u]
  <2>1. /\ row \in Row /\ row.status = Confirmed /\ row.confirmer = u
        /\ row.objection = bill[b].objection
    <3> DEFINE mid == [bill[b] EXCEPT !.status = Confirmed]
    <3>1. mid \in Row /\ mid.status = Confirmed /\ mid.objection = bill[b].objection
      BY <1>3 DEF Row, Statuses, Confirmed
    <3>2. row = [mid EXCEPT !.confirmer = u]
      BY <1>3 DEF Row
    <3> HIDE DEF mid, row
    <3>3. QED
      BY <3>1, <3>2 DEF Row
  <2>2. Update(u, row, "auditConfirmed") /\ req[u].pc = "confirm"
    BY <1>2, <1>4 DEF WriteConfirm, At
  <2> HIDE DEF row
  <2>3. QED
    BY <1>1, <1>2, <2>1, <2>2, UpdateKeeps DEF PeriodSteps, Deciding
<1>5. CASE WriteAmount(u)
  <2>1. /\ Overlay(bill[b], req[u].row) \in Row
        /\ Overlay(bill[b], req[u].row).status = req[u].row.status
        /\ req[u].row.objection # Null => Overlay(bill[b], req[u].row).objection # Null
    BY <1>3, OverlayRowType
  <2>2. Update(u, Overlay(bill[b], req[u].row), "disagree") /\ req[u].pc = "amount"
    BY <1>2, <1>5 DEF WriteAmount, At
  <2>3. req[u].row.status = Confirming /\ req[u].row.objection # Null
    BY <1>1, <2>2 DEF Inv, ReqInv
  <2>4. QED
    BY <1>1, <2>1, <2>2, <2>3, UpdateKeeps DEF PeriodSteps, Deciding
<1>6. CASE WriteDisagree(u)
  <2> DEFINE row == [bill[b] EXCEPT !.status = Disagreed, !.objector = u]
  <2>1. /\ row \in Row /\ row.status = Disagreed /\ row.objector = u
        /\ row.objection = bill[b].objection
    <3> DEFINE mid == [bill[b] EXCEPT !.status = Disagreed]
    <3>1. mid \in Row /\ mid.status = Disagreed /\ mid.objection = bill[b].objection
      BY <1>3 DEF Row, Statuses, Disagreed
    <3>2. row = [mid EXCEPT !.objector = u]
      BY <1>3 DEF Row
    <3> HIDE DEF mid, row
    <3>3. QED
      BY <3>1, <3>2 DEF Row
  <2>2. Update(u, row, "auditDisagreed") /\ req[u].pc = "disagree"
    BY <1>2, <1>6 DEF WriteDisagree, At
  <2>3. bill[b].objection # Null
    BY <1>1, <1>2, <2>2 DEF Inv, ReqInv
  <2> HIDE DEF row
  <2>4. QED
    BY <1>1, <1>2, <2>1, <2>2, <2>3, UpdateKeeps DEF PeriodSteps, Deciding
<1>7. QED
  BY <1>4, <1>5, <1>6 DEF Period

\* A request writes to a special bill.
LEMMA WriteSpecialKeeps ==
    ASSUME Inv, NEW u \in Users, WriteSpecial(u)
    PROVE  Inv'
<1>1. req[u] # Idle /\ req[u].pc = "decide"
  BY DEF WriteSpecial, At
<1>2. PICK b \in Bills : b = req[u].bill
  BY <1>1, RequestFields DEF Inv
<1>3. bill[b] \in Row /\ req[u].row \in Row
  BY <1>1, RequestFields DEF Inv, TypeOK
<1>4. PICK row \in Row : row = Overlay(bill[b], req[u].row)
  BY <1>3, OverlayRowType
<1>5. DecidedRow(row)
  BY <1>1, <1>3, <1>4, OverlayRowType DEF Inv, ReqInv, DecidedRow
<1>6. Update(u, row, "auditSpecial")
  BY <1>2, <1>4 DEF WriteSpecial
<1>7. req[u].pc \in SpecialSteps /\ req[u].pc \in Deciding
  BY <1>1 DEF SpecialSteps, Deciding
<1>8. QED
  BY <1>1, <1>5, <1>6, <1>7, UpdateKeeps

\* A request files its decision, saves its appeal or is cut off.
LEMMA FileKeeps ==
    ASSUME Inv, NEW u \in Users, File(u)
    PROVE  Inv'
<1>1. /\ req[u] # Idle /\ req[u].pc \in AuditSteps /\ Done(u)
      /\ audit' = audit \cup {[bill |-> req[u].bill, user |-> u,
                               status |-> FiledAs(req[u].pc)]}
      /\ UNCHANGED <<bill, appeals, rounds, overlapped, cutOff, faults>>
  BY DEF File
<1>2. FiledAs(req[u].pc) \in Statuses
  BY <1>1 DEF FiledAs, AuditSteps, Statuses, Confirming, Confirmed, Disagreed
<1>3. audit' \subseteq AuditEntry
  BY <1>1, <1>2, RequestFields DEF AuditEntry, Inv, TypeOK
<1>4. FiledAs(req[u].pc) = FiledStatus[req[u].pc]
  BY <1>1 DEF FiledAs, FiledStatus, AuditSteps
<1>5. QED
  BY <1>1, <1>3, <1>4, EndKeeps DEF Inv, TypeOK

LEMMA SaveAppealKeeps ==
    ASSUME Inv, NEW u \in Users, SaveAppeal(u)
    PROVE  Inv'
<1>1. /\ req[u] # Idle /\ req[u].pc = "appeal" /\ Done(u)
      /\ UNCHANGED <<bill, audit, rounds, overlapped, cutOff, faults>>
  BY DEF SaveAppeal, At
<1>2. PICK b \in SpecialBills : b = req[u].bill
  BY <1>1, RequestFields DEF Inv, SpecialSteps
<1>3. appeals' = [appeals EXCEPT ![b] = appeals[b] + 1]
  BY <1>2 DEF SaveAppeal
<1>4. b \notin overlapped => appeals[b] = 0
  BY <1>1, <1>2 DEF Inv, AloneInv, About, Bills
<1>5. appeals' \in [SpecialBills -> Nat]
  BY <1>3 DEF Inv, TypeOK
<1>6. ASSUME NEW c \in SpecialBills, c \notin overlapped
      PROVE  appeals'[c] = appeals[c] \/ (appeals'[c] <= 1 /\ About(u, c))
  <2>1. CASE c = b
    <3>1. appeals'[c] = appeals[b] + 1 /\ appeals[b] = 0
      BY <2>1, <1>3, <1>4, <1>6 DEF Inv, TypeOK
    <3>2. QED
      BY <2>1, <3>1, <1>1, <1>2 DEF About
  <2>2. CASE c # b
    BY <2>2, <1>3 DEF Inv, TypeOK
  <2>3. QED
    BY <2>1, <2>2
<1>7. QED
  BY <1>1, <1>5, <1>6, EndKeeps DEF Inv, TypeOK, AuditSteps

LEMMA CutOffKeeps ==
    ASSUME Inv, NEW u \in Users, CutOff(u)
    PROVE  Inv'
<1>1. /\ req[u] # Idle /\ Done(u) /\ faults' \in 0..MaxFaults
      /\ cutOff' = IF req[u].pc \in AuditSteps
                   THEN cutOff \cup {<<req[u].bill, u>>} ELSE cutOff
      /\ UNCHANGED <<bill, audit, appeals, rounds, overlapped>>
  BY DEF CutOff, Fault, Inv, TypeOK
<1>2. cutOff' \subseteq Bills \X Users /\ cutOff \subseteq cutOff'
  BY <1>1, RequestFields DEF Inv, TypeOK
<1>3. QED
  BY <1>1, <1>2, EndKeeps DEF Inv, TypeOK

LEMMA NextInv == Inv /\ [Next]_vars => Inv'
<1> SUFFICES ASSUME Inv, [Next]_vars
             PROVE  Inv'
  OBVIOUS
<1>1. ASSUME NEW u \in Users, NEW b \in Bills, Start(u, b)
      PROVE  Inv'
  BY <1>1, StartKeeps
<1>2. ASSUME NEW u \in Users,
             Period(u) \/ WriteSpecial(u) \/ File(u) \/ SaveAppeal(u) \/ CutOff(u)
      PROVE  Inv'
  BY <1>2, PeriodKeeps, WriteSpecialKeeps, FileKeeps, SaveAppealKeeps, CutOffKeeps
<1>3. ASSUME NEW b \in Bills, BackOffice(b)
      PROVE  Inv'
  BY <1>3, OfficeKeeps
<1>4. CASE UNCHANGED vars
  BY <1>4 DEF vars, Inv, TypeOK, ReqInv, AloneInv, ObjectionHasAmount, DecisionIsFiled,
              OneAppeal, Filed, About
<1>5. QED
  BY <1>1, <1>2, <1>3, <1>4 DEF Next

THEOREM BillInv == Spec => []Inv
  BY InitInv, NextInv, PTL DEF Spec

-----------------------------------------------------------------------------
(* The results.                                                            *)

\* Every reachable state is well typed.
THEOREM BillTypeOK == Spec => []TypeOK
  BY BillInv, PTL DEF Inv

\* An objection that is being handled always names its amount, whichever
\* requests overwrite each other (BillService.java:702-707).
THEOREM BillObjectionHasAmount == Spec => []ObjectionHasAmount
  BY BillInv, PTL DEF Inv

\* A decision is in the audit tables, on its way there, or was cut off
\* (BillService.java:623-672, BillSpecialService.java:133-135).
THEOREM BillDecisionIsFiled == Spec => []DecisionIsFiled
  BY BillInv, PTL DEF Inv

\* Without overlapping requests a bill has one appeal at most
\* (FeedbackController.java:41-46).
THEOREM BillOneAppeal == Spec => []OneAppeal
  BY BillInv, PTL DEF Inv

\* A bill without overlapping requests takes a step of the back office or,
\* awaiting the hotel, one of the hotel's.
LEMMA FlowStep ==
    ASSUME Inv, [Next]_vars, NEW b \in Bills, b \notin overlapped,
           bill'[b].status # bill[b].status
    PROVE  <<bill[b].status, bill'[b].status>> \in Office \cup Hotel
<1>1. ASSUME NEW u \in Users, Period(u)
      PROVE  <<bill[b].status, bill'[b].status>> \in Hotel
  <2>1. PICK c \in Bills : req[u] # Idle /\ c = req[u].bill
    BY <1>1, RequestFields DEF Inv, Period, WriteConfirm, WriteAmount, WriteDisagree, At
  <2>2. req[u].pc \in Deciding
    BY <1>1 DEF Period, WriteConfirm, WriteAmount, WriteDisagree, At, Deciding
  <2>3. \A row : Update(u, row, "auditConfirmed") \/ Update(u, row, "disagree")
                  \/ Update(u, row, "auditDisagreed") => bill' = [bill EXCEPT ![c] = row]
    BY <2>1 DEF Update
  <2>4. c = b
    BY <1>1, <2>1, <2>3 DEF Period, WriteConfirm, WriteAmount, WriteDisagree, Inv, TypeOK
  <2>5. bill[b].status = Confirming
    BY <2>1, <2>2, <2>4 DEF Inv, AloneInv, About
  <2>6. bill'[b].status \in {Confirming, Disagreed, Confirmed}
    <3>1. CASE WriteConfirm(u)
      <4>1. bill' = [bill EXCEPT ![b] = [bill[b] EXCEPT !.status = Confirmed, !.confirmer = u]]
        BY <3>1, <2>1, <2>3, <2>4 DEF WriteConfirm
      <4>2. [bill[b] EXCEPT !.status = Confirmed, !.confirmer = u].status = Confirmed
        BY DEF Inv, TypeOK, Row
      <4>3. QED
        BY <4>1, <4>2 DEF Inv, TypeOK
    <3>2. CASE WriteAmount(u)
      BY <3>2, <2>1, <2>3, <2>4, RequestFields, OverlayRowType
         DEF WriteAmount, At, Inv, TypeOK, ReqInv
    <3>3. CASE WriteDisagree(u)
      <4>1. bill' = [bill EXCEPT ![b] = [bill[b] EXCEPT !.status = Disagreed, !.objector = u]]
        BY <3>3, <2>1, <2>3, <2>4 DEF WriteDisagree
      <4>2. [bill[b] EXCEPT !.status = Disagreed, !.objector = u].status = Disagreed
        BY DEF Inv, TypeOK, Row
      <4>3. QED
        BY <4>1, <4>2 DEF Inv, TypeOK
    <3>4. QED
      BY <1>1, <3>1, <3>2, <3>3 DEF Period
  <2>7. QED
    BY <2>5, <2>6 DEF Hotel
<1>2. ASSUME NEW u \in Users, WriteSpecial(u)
      PROVE  <<bill[b].status, bill'[b].status>> \in Hotel
  <2>1. PICK c \in Bills : req[u] # Idle /\ req[u].pc = "decide" /\ c = req[u].bill
    BY <1>2, RequestFields DEF Inv, WriteSpecial, At
  <2>2. bill' = [bill EXCEPT ![c] = Overlay(bill[c], req[u].row)]
    BY <1>2, <2>1 DEF WriteSpecial, Update
  <2>3. c = b
    BY <2>2 DEF Inv, TypeOK
  <2>4. bill[b].status = Confirming
    BY <2>1, <2>3 DEF Inv, AloneInv, About, Deciding
  <2>5. bill'[b].status \in {Disagreed, Confirmed}
    BY <2>1, <2>2, <2>3, RequestFields, OverlayRowType
       DEF Inv, TypeOK, ReqInv, DecidedRow
  <2>6. QED
    BY <2>4, <2>5 DEF Hotel
<1>3. ASSUME NEW c \in Bills, BackOffice(c)
      PROVE  <<bill[b].status, bill'[b].status>> \in Office
  BY <1>3 DEF BackOffice, Inv, TypeOK, Row
<1>4. ASSUME bill' = bill
      PROVE  FALSE
  BY <1>4
<1>5. QED
  BY <1>1, <1>2, <1>3, <1>4 DEF Next, vars, Start, ReadConfirm, ReadSpecialConfirm,
     ReadAppeals, ReadObjection, ReadSpecialObjection, Begin, File, SaveAppeal, CutOff

\* As long as requests about a bill do not overlap, it follows the flow the
\* statuses are made for (BillService.java:574-710).
THEOREM BillFlow == Spec => Flow
<1>1. Inv /\ [Next]_vars =>
        [\A b \in Bills :
           b \notin overlapped /\ bill'[b].status # bill[b].status =>
             <<bill[b].status, bill'[b].status>> \in Office \cup Hotel]_vars
  BY FlowStep
<1>2. QED
  BY <1>1, BillInv, PTL DEF Spec, Flow

-----------------------------------------------------------------------------
(* Confirmations stand.                                                    *)

\* User u's confirmation of b was filed or is about to be.
Confirms(u, b) ==
    \/ [bill |-> b, user |-> u, status |-> Confirmed] \in audit
    \/ About(u, b) /\ req[u].pc = "auditConfirmed"

\* The inductive invariant: from the statement that confirms on, and not only
\* from the entry on.
StandInv ==
    \A b \in PeriodBills \ overlapped : \A u \in Users :
        Confirms(u, b) => bill[b].status \in Agreed /\ bill[b].confirmer = u

\* A bill that awaits the hotel was not confirmed before.
LEMMA NotConfirmed ==
    ASSUME StandInv, NEW b \in PeriodBills \ overlapped, bill[b].status = Confirming,
           NEW u \in Users
    PROVE  ~Confirms(u, b)
  BY DEF StandInv, Agreed, Confirming, Confirmed, Finished

\* A statement of a request about the bill of a period, which is b or not.
LEMMA PeriodStands ==
    ASSUME Inv, StandInv, NEW v \in Users, Period(v),
           NEW b \in PeriodBills \ overlapped, NEW u \in Users, Confirms(u, b)'
    PROVE  bill'[b].status \in Agreed /\ bill'[b].confirmer = u
<1>1. /\ req[v] # Idle /\ req[v].pc \in Deciding /\ req[v].pc \in PeriodSteps
  BY DEF Period, WriteConfirm, WriteAmount, WriteDisagree, At, Deciding, PeriodSteps
<1>2. PICK c \in PeriodBills : c = req[v].bill
  BY <1>1, RequestFields DEF Inv
<1>3. PICK row, pc : Update(v, row, pc) /\ pc \in PeriodSteps
                    /\ (pc = "auditConfirmed" => WriteConfirm(v))
  BY DEF Period, WriteConfirm, WriteAmount, WriteDisagree, PeriodSteps
<1>4. /\ req'[v] # Idle /\ req'[v].bill = c /\ req'[v].pc = pc
      /\ \A w \in Users : w # v => req'[w] = req[w]
  BY <1>1, <1>2, <1>3, GotoReq DEF Inv, Update
<1>5. bill' = [bill EXCEPT ![c] = row] /\ audit' = audit
  BY <1>2, <1>3 DEF Update
<1>6. b \in Bills /\ c \in Bills
  BY DEF Bills
<1>7. CASE c # b
  <2>1. bill'[b] = bill[b]
    BY <1>5, <1>6, <1>7 DEF Inv, TypeOK
  <2>2. Confirms(u, b)
    BY <1>4, <1>5, <1>7 DEF Confirms, About
  <2>3. QED
    BY <2>1, <2>2 DEF StandInv
<1>8. CASE c = b
  <2>1. bill[b].status = Confirming /\ \A w \in Users : About(w, b) => w = v
    <3>1. About(v, b)
      BY <1>1, <1>2, <1>8 DEF About
    <3>2. /\ \A w, x \in Users : About(w, b) /\ About(x, b) => w = x
          /\ req[v].pc \in Deciding => bill[b].status = Confirming
      BY <1>6, <3>1 DEF Inv, AloneInv
    <3>3. QED
      BY <1>1, <3>1, <3>2
  <2>2. ~Confirms(u, b)
    BY <2>1, NotConfirmed
  <2>3. u = v /\ pc = "auditConfirmed"
    BY <1>4, <1>5, <2>2 DEF Confirms, About
  <2>4. bill' = [bill EXCEPT ![b] = [bill[b] EXCEPT !.status = Confirmed, !.confirmer = u]]
    BY <1>2, <1>3, <1>8, <2>3 DEF WriteConfirm, Update
  <2>5. /\ [bill[b] EXCEPT !.status = Confirmed, !.confirmer = u].status = Confirmed
        /\ [bill[b] EXCEPT !.status = Confirmed, !.confirmer = u].confirmer = u
    BY <1>6 DEF Inv, TypeOK, Row
  <2>6. QED
    BY <1>6, <2>4, <2>5 DEF Inv, TypeOK, Agreed
<1>9. QED
  BY <1>7, <1>8

\* Every request begins in the same way, and none with a confirmation to file.
LEMMA StartBegins ==
    ASSUME NEW v \in Users, NEW c \in Bills, Start(v, c)
    PROVE  \E row, pc : Begin(v, c, row, pc) /\ pc # "auditConfirmed"
<1>1. CASE ReadConfirm(v, c)
  BY <1>1 DEF ReadConfirm
<1>2. CASE ReadSpecialConfirm(v, c)
  BY <1>2 DEF ReadSpecialConfirm
<1>3. CASE ReadAppeals(v, c)
  BY <1>3 DEF ReadAppeals
<1>4. ASSUME NEW amount \in Amounts, ReadObjection(v, c, amount)
      PROVE  \E row, pc : Begin(v, c, row, pc) /\ pc # "auditConfirmed"
  BY <1>4 DEF ReadObjection
<1>5. ASSUME NEW amount \in Amounts, ReadSpecialObjection(v, c, amount)
      PROVE  \E row, pc : Begin(v, c, row, pc) /\ pc # "auditConfirmed"
  BY <1>5 DEF ReadSpecialObjection
<1>6. QED
  BY <1>1, <1>2, <1>3, <1>4, <1>5 DEF Start

\* No bill is taken off the list of those that had overlapping requests.
LEMMA OverlapGrows == [Next]_vars => overlapped \subseteq overlapped'
<1>1. ASSUME NEW u \in Users, NEW b \in Bills, Start(u, b)
      PROVE  overlapped \subseteq overlapped'
  BY <1>1, StartBegins DEF Begin
<1>2. ASSUME NEW u \in Users,
             Period(u) \/ WriteSpecial(u) \/ File(u) \/ SaveAppeal(u) \/ CutOff(u)
      PROVE  overlapped' = overlapped
  BY <1>2 DEF Period, WriteConfirm, WriteAmount, WriteDisagree, WriteSpecial, Update,
              File, SaveAppeal, CutOff
<1>3. ASSUME NEW b \in Bills, BackOffice(b) PROVE overlapped' = overlapped
  BY <1>3 DEF BackOffice
<1>4. QED
  BY <1>1, <1>2, <1>3 DEF Next, vars

LEMMA StandStep == Inv /\ StandInv /\ [Next]_vars => StandInv'
<1> SUFFICES ASSUME Inv, StandInv, [Next]_vars,
                    NEW b \in PeriodBills, b \notin overlapped', NEW u \in Users,
                    Confirms(u, b)'
             PROVE  bill'[b].status \in Agreed /\ bill'[b].confirmer = u
  BY DEF StandInv
<1> DEFINE Goal == bill'[b].status \in Agreed /\ bill'[b].confirmer = u
<1>0. b \in PeriodBills \ overlapped
  BY OverlapGrows
<1>1. ASSUME NEW v \in Users, NEW c \in Bills, Start(v, c) PROVE Goal
  <2>1. PICK row, pc : Begin(v, c, row, pc) /\ pc # "auditConfirmed"
    BY <1>1, StartBegins
  <2>2. /\ UNCHANGED <<bill, audit>> /\ req'[v].pc = pc
        /\ \A w \in Users : w # v => req'[w] = req[w]
    BY <2>1 DEF Begin, Inv, TypeOK
  <2>3. Confirms(u, b)
    BY <2>1, <2>2 DEF Confirms, About
  <2>4. QED
    BY <1>0, <2>2, <2>3 DEF StandInv
<1>2. ASSUME NEW v \in Users, Period(v) PROVE Goal
  BY <1>0, <1>2, PeriodStands
<1>3. ASSUME NEW v \in Users, WriteSpecial(v) PROVE Goal
  <2>1. PICK c \in SpecialBills : req[v] # Idle /\ req[v].pc = "decide" /\ c = req[v].bill
    BY <1>3, RequestFields DEF WriteSpecial, At, Inv, SpecialSteps
  <2>2. bill'[b] = bill[b] /\ audit' = audit
    BY <1>3, <2>1 DEF WriteSpecial, Update, Inv, TypeOK, Bills
  <2>3. req'[v].pc = "auditSpecial" /\ \A w \in Users : w # v => req'[w] = req[w]
    BY <1>3, <2>1, GotoReq DEF WriteSpecial, Update, Inv, SpecialSteps
  <2>4. Confirms(u, b)
    BY <2>2, <2>3 DEF Confirms, About
  <2>5. QED
    BY <1>0, <2>2, <2>4 DEF StandInv
<1>4. ASSUME NEW v \in Users, File(v) PROVE Goal
  <2>1. req[v] # Idle /\ req[v].pc \in AuditSteps /\ Done(v) /\ bill' = bill
        /\ audit' = audit \cup {[bill |-> req[v].bill, user |-> v,
                                 status |-> FiledAs(req[v].pc)]}
    BY <1>4 DEF File
  <2>2. req'[v] = Idle /\ \A w \in Users : w # v => req'[w] = req[w]
    BY <2>1, DoneReq DEF Inv
  <2>3. FiledAs(req[v].pc) = Confirmed => req[v].pc = "auditConfirmed"
    BY <2>1 DEF FiledAs, AuditSteps, Confirmed, Disagreed, Confirming
  <2>4. Confirms(u, b)
    BY <2>1, <2>2, <2>3 DEF Confirms, About
  <2>5. QED
    BY <1>0, <2>1, <2>4 DEF StandInv
<1>5. ASSUME NEW v \in Users, SaveAppeal(v) \/ CutOff(v) PROVE Goal
  <2>1. Done(v) /\ UNCHANGED <<bill, audit>>
    BY <1>5 DEF SaveAppeal, CutOff
  <2>2. req'[v] = Idle /\ \A w \in Users : w # v => req'[w] = req[w]
    BY <2>1, DoneReq DEF Inv
  <2>3. Confirms(u, b)
    BY <2>1, <2>2 DEF Confirms, About
  <2>4. QED
    BY <1>0, <2>1, <2>3 DEF StandInv
<1>6. ASSUME NEW c \in Bills, BackOffice(c) PROVE Goal
  <2>1. PICK status \in Statuses :
            /\ <<bill[c].status, status>> \in Office
            /\ bill' = [bill EXCEPT ![c].status = status]
    BY <1>6 DEF BackOffice
  <2>2. UNCHANGED <<audit, req>>
    BY <1>6 DEF BackOffice
  <2>3. Confirms(u, b)
    BY <2>2 DEF Confirms, About
  <2>4. bill[b].status \in Agreed /\ bill[b].confirmer = u
    BY <1>0, <2>3 DEF StandInv
  <2>5. CASE c = b
    <3>1. status = Finished
      BY <2>1, <2>4, <2>5 DEF Office, Agreed, Created, Confirming, Disagreed, Checking,
                              CheckFailed, Checked, Confirmed, Finished
    <3>2. bill[b] \in Row /\ b \in Bills
      BY DEF Inv, TypeOK, Bills
    <3>3. bill'[b].status = Finished /\ bill'[b].confirmer = bill[b].confirmer
      BY <2>1, <2>5, <3>1, <3>2 DEF Inv, TypeOK, Row
    <3>4. QED
      BY <2>4, <3>3 DEF Agreed
  <2>6. CASE c # b
    BY <2>1, <2>4, <2>6 DEF Inv, TypeOK, Bills
  <2>7. QED
    BY <2>5, <2>6
<1>7. CASE UNCHANGED vars
  BY <1>0, <1>7 DEF vars, StandInv, Confirms, About
<1>8. QED
  BY <1>1, <1>2, <1>3, <1>4, <1>5, <1>6, <1>7 DEF Next

\* Without overlapping requests a confirmation that was filed is never
\* overwritten: every later decision looks at the status first
\* (BillService.java:578 and 686), and only the back office goes on with it.
THEOREM BillConfirmationStands == Spec => []ConfirmationStands
<1>1. Init => StandInv
  BY DEF Init, StandInv, Confirms, About
<1>2. StandInv => ConfirmationStands
  BY DEF StandInv, ConfirmationStands, Confirms
<1>3. QED
  BY <1>1, <1>2, StandStep, BillInv, PTL DEF Spec
=============================================================================
