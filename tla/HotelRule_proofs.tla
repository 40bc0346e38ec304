--------------------------- MODULE HotelRule_proofs ---------------------------
(***************************************************************************)
(* Proofs about HotelRule, for every value of its constants.               *)
(***************************************************************************)
EXTENDS HotelRule, FiniteSetTheorems, TLAPS

USE MaxDayAssumption, BillRunsAssumption, PoolCapAssumption, MaxFaultsAssumption,
    FaultKindsAssumption, NoRuleAssumption, IdleAssumption

\* What is true of a task in a pool: its row is still there and still its
\* hotel's; past its first statement a sync task has published the hotel; a
\* bill task works on a row that was synced and takes effect today; and a
\* task that saw a success left a bill behind.
TaskInv ==
    \A n \in Nodes : \A t \in tasks[n] :
        /\ rule[t.id] # NoRule
        /\ rule[t.id].hotel = t.hotel
        /\ t.pc \in {"updateEhotel", "updateState"} => tHotel[t.hotel] = B_RULE
        /\ t.pc \in BillSteps => /\ rule[t.id].state # INITSTATE
                                 /\ rule[t.id].eff \in {day, NullDate}
        /\ t.pc = "success" => \E d \in Days : bills[t.hotel][d] > 0

\* The inductive invariant.
Inv == TypeOK /\ TaskInv /\ SyncedIsPublished /\ SettledHasBill /\ BillIsOfItsDay

-----------------------------------------------------------------------------
(* Lemmas about the statements and the pools.                              *)

\* updateState keeps every row's hotel and effect date, moves the matching
\* rows to the given state and leaves the others alone.
LEMMA UpdateStateRows ==
    ASSUME TypeOK,
           NEW h \in Hotels,
           NEW to \in {INITSTATE, SYNCSTATE, PREBILLSTATE, BILLSTATE},
           NEW from, UpdateState(h, to, from)
    PROVE  /\ rule' \in [RuleIds -> Row \cup {NoRule}]
           /\ \A r \in RuleIds :
                 /\ rule'[r] = NoRule <=> rule[r] = NoRule
                 /\ rule[r] # NoRule =>
                       /\ rule'[r].hotel = rule[r].hotel
                       /\ rule'[r].eff = rule[r].eff
                 /\ r \in Matching(h, from) => rule'[r].state = to
                 /\ r \notin Matching(h, from) => rule'[r] = rule[r]
<1>1. ASSUME NEW r \in Matching(h, from)
      PROVE  /\ r \in RuleIds
             /\ rule[r] \in Row
             /\ [rule[r] EXCEPT !.state = to] \in Row
             /\ [rule[r] EXCEPT !.state = to].hotel = rule[r].hotel
             /\ [rule[r] EXCEPT !.state = to].eff = rule[r].eff
             /\ [rule[r] EXCEPT !.state = to].state = to
  BY DEF TypeOK, Matching, Row
<1>2. rule' = [r \in RuleIds |-> IF r \in Matching(h, from)
                                 THEN [rule[r] EXCEPT !.state = to]
                                 ELSE rule[r]]
  BY DEF UpdateState
<1>3. QED
  BY <1>1, <1>2 DEF TypeOK, Matching

\* A task that takes a step is replaced by one for the same row at the next
\* step; no other task changes.
LEMMA AdvanceTasks ==
    ASSUME TypeOK, NEW n \in Nodes, NEW t \in tasks[n],
           NEW pc \in SyncSteps \cup BillSteps, Advance(n, t, pc)
    PROVE  /\ tasks' \in [Nodes -> SUBSET Task]
           /\ \A m \in Nodes : \A u \in tasks'[m] :
                 \/ u \in tasks[m]
                 \/ u.id = t.id /\ u.hotel = t.hotel /\ u.pc = pc
<1>1. t \in Task
  BY DEF TypeOK
<1>2. /\ [t EXCEPT !.pc = pc] \in Task
      /\ [t EXCEPT !.pc = pc].id = t.id
      /\ [t EXCEPT !.pc = pc].hotel = t.hotel
      /\ [t EXCEPT !.pc = pc].pc = pc
  BY <1>1 DEF Task
<1>3. QED
  BY <1>1, <1>2 DEF TypeOK, Advance

LEMMA FinishTasks ==
    ASSUME TypeOK, NEW n \in Nodes, NEW t, Finish(n, t)
    PROVE  /\ tasks' \in [Nodes -> SUBSET Task]
           /\ \A m \in Nodes : tasks'[m] \subseteq tasks[m]
  BY DEF TypeOK, Finish

\* A job adds tasks for listed rows only.
LEMMA SubmitTasks ==
    ASSUME TypeOK, NEW n \in Nodes, NEW pc \in SyncSteps \cup BillSteps,
           NEW state, Submit(n, GetHMSHotelRuleList(state), pc)
    PROVE  /\ tasks' \in [Nodes -> SUBSET Task]
           /\ \A m \in Nodes : \A u \in tasks'[m] :
                 \/ u \in tasks[m]
                 \/ /\ u.pc = pc
                    /\ u.id \in RuleIds
                    /\ rule[u.id] # NoRule
                    /\ rule[u.id].hotel = u.hotel
                    /\ rule[u.id].eff = day
                    /\ rule[u.id].state = state
<1> DEFINE listed == GetHMSHotelRuleList(state)
           new(S) == {[id |-> r, hotel |-> rule[r].hotel, pc |-> pc] : r \in S}
<1>1. PICK S \in SUBSET listed : tasks' = [tasks EXCEPT ![n] = @ \cup new(S)]
  BY DEF Submit
<1>2. \A r \in listed : r \in RuleIds /\ rule[r] \in Row
  BY DEF TypeOK, GetHMSHotelRuleList
<1>3. new(S) \subseteq Task
  BY <1>2 DEF Row, Task
<1>4. \A u \in new(S) : /\ u.pc = pc
                        /\ u.id \in S
                        /\ rule[u.id].hotel = u.hotel
  OBVIOUS
<1> HIDE DEF new
<1>5. tasks' \in [Nodes -> SUBSET Task]
  BY <1>1, <1>3 DEF TypeOK
<1>6. \A m \in Nodes : \A u \in tasks'[m] : u \in tasks[m] \/ u \in new(S)
  BY <1>1 DEF TypeOK
<1>7. QED
  BY <1>4, <1>5, <1>6 DEF GetHMSHotelRuleList
-----------------------------------------------------------------------------
(* The inductive invariant.                                                *)

LEMMA InitInv == Init => Inv
<1> SUFFICES ASSUME Init PROVE Inv
  OBVIOUS
<1>1. TypeOK
  BY DEF Init, TypeOK, Days, RuleCodes
<1>2. Entered = {}
  BY DEF Init, Entered
<1>3. TaskInv
  BY DEF Init, TaskInv
<1>4. BillIsOfItsDay
  BY DEF Init, BillIsOfItsDay
<1>5. QED
  BY <1>1, <1>2, <1>3, <1>4 DEF Inv, SyncedIsPublished, SettledHasBill

\* A statement that moves rows on keeps the parts of the invariant that are
\* about rows, if the hotel is published when rows leave the initial state and
\* has a bill when rows become settled.
LEMMA MoveKeepsRows ==
    ASSUME Inv, NEW h \in Hotels,
           NEW to \in {SYNCSTATE, PREBILLSTATE, BILLSTATE},
           NEW from, UpdateState(h, to, from),
           from = INITSTATE => tHotel[h] = B_RULE,
           to = BILLSTATE => \E d \in Days : bills[h][d] > 0,
           UNCHANGED <<day, tHotel, bills>>
    PROVE  /\ SyncedIsPublished'
           /\ SettledHasBill'
           /\ BillIsOfItsDay'
<1> USE DEF INITSTATE, SYNCSTATE, PREBILLSTATE, BILLSTATE
<1>1. /\ \A r \in RuleIds :
           /\ rule'[r] = NoRule <=> rule[r] = NoRule
           /\ rule[r] # NoRule =>
                 /\ rule'[r].hotel = rule[r].hotel
                 /\ rule'[r].eff = rule[r].eff
           /\ r \in Matching(h, from) => rule'[r].state = to
           /\ r \notin Matching(h, from) => rule'[r] = rule[r]
  BY UpdateStateRows DEF Inv
<1>2. Entered' = Entered
  BY <1>1 DEF Entered
<1>3. \A r \in Matching(h, from) : r \in Entered /\ rule[r].hotel = h /\ rule[r].state = from
  BY DEF Matching, Entered
<1>4. SyncedIsPublished'
  BY <1>1, <1>2, <1>3 DEF Inv, SyncedIsPublished, Entered
<1>5. SettledHasBill'
  BY <1>1, <1>2, <1>3 DEF Inv, SettledHasBill, Entered
<1>6. BillIsOfItsDay'
  BY <1>1, <1>2, <1>3 DEF Inv, BillIsOfItsDay, Entered
<1>7. QED
  BY <1>4, <1>5, <1>6

\* The same statement keeps what is true of the tasks that remain.
LEMMA MoveKeepsTasks ==
    ASSUME Inv, NEW h \in Hotels,
           NEW to \in {SYNCSTATE, PREBILLSTATE, BILLSTATE},
           NEW from, UpdateState(h, to, from),
           \A m \in Nodes : tasks'[m] \subseteq tasks[m],
           UNCHANGED <<day, tHotel, bills>>
    PROVE  TaskInv'
<1> USE DEF INITSTATE, SYNCSTATE, PREBILLSTATE, BILLSTATE
<1>1. /\ \A r \in RuleIds :
           /\ rule'[r] = NoRule <=> rule[r] = NoRule
           /\ rule[r] # NoRule =>
                 /\ rule'[r].hotel = rule[r].hotel
                 /\ rule'[r].eff = rule[r].eff
           /\ r \in Matching(h, from) => rule'[r].state = to
           /\ r \notin Matching(h, from) => rule'[r] = rule[r]
  BY UpdateStateRows DEF Inv
<1>2. ASSUME NEW n \in Nodes, NEW t \in tasks[n]
      PROVE  t.id \in RuleIds
  BY DEF Inv, TypeOK, Task
<1>3. QED
  BY <1>1, <1>2 DEF Inv, TaskInv
LEMMA RequestKeepsInv ==
    ASSUME Inv,
           NEW n \in Nodes,
           \/ \E h \in Hotels, code \in RuleCodes : SaveHotelRule(n, h, code)
           \/ RequestStep(n)
           \/ RequestFails(n)
    PROVE  Inv'
<1> USE DEF Inv
<1>1. ASSUME NEW h \in Hotels, NEW code \in RuleCodes, SaveHotelRule(n, h, code)
      PROVE  Inv'
  <2>1. TypeOK'
    BY <1>1 DEF TypeOK, SaveHotelRule, Request, clock
  <2>2. QED
    BY <1>1, <2>1 DEF SaveHotelRule, clock, TaskInv, SyncedIsPublished,
         SettledHasBill, BillIsOfItsDay, Entered
<1>2. CASE ComputeEffectDate(n)
  <2>1. day + 1 \in Days \cup {MaxDay + 1}
    BY DEF TypeOK, Days
  <2>2. [req[n] EXCEPT !.eff = day + 1] \in Request
    BY <1>2, <2>1 DEF ComputeEffectDate, TypeOK, Request
  <2>3. TypeOK'
    BY <1>2, <2>2 DEF TypeOK, ComputeEffectDate, clock, hotelTables
  <2>4. QED
    BY <1>2, <2>3 DEF ComputeEffectDate, clock, hotelTables, TaskInv,
         SyncedIsPublished, SettledHasBill, BillIsOfItsDay, Entered
<1>3. CASE InsertHotelRule(n)
  <2> DEFINE row == [hotel |-> req[n].hotel, eff |-> req[n].eff, state |-> INITSTATE]
  <2>1. row \in Row
    BY <1>3 DEF InsertHotelRule, TypeOK, Request, Row
  <2>2. row.state = INITSTATE
    OBVIOUS
  <2>3. PICK r \in RuleIds : rule[r] = NoRule /\ rule' = [rule EXCEPT ![r] = row]
    BY <1>3 DEF InsertHotelRule
  <2> HIDE DEF row
  <2>4. TypeOK'
    BY <1>3, <2>1, <2>3 DEF TypeOK, InsertHotelRule, clock, hotelTables
  <2>5. /\ \A q \in RuleIds \ {r} : rule'[q] = rule[q]
        /\ rule'[r] = row
        /\ row # NoRule
    BY <2>1, <2>3 DEF TypeOK
  <2>6. UNCHANGED <<day, tHotel, bills, tasks>>
    BY <1>3 DEF InsertHotelRule, clock, hotelTables
  <2>7. TaskInv'
    <3>1. ASSUME NEW m \in Nodes, NEW t \in tasks[m]
          PROVE  t.id \in RuleIds \ {r}
      BY <2>3 DEF TypeOK, Task, TaskInv
    <3>2. QED
      BY <2>5, <2>6, <3>1 DEF TaskInv
  <2>8. SyncedIsPublished'
    BY <2>2, <2>5, <2>6 DEF SyncedIsPublished, Entered
  <2>9. SettledHasBill'
    BY <2>2, <2>5, <2>6 DEF SettledHasBill, Entered, BILLSTATE, INITSTATE
  <2>10. BillIsOfItsDay'
    BY <2>3, <2>5, <2>6 DEF BillIsOfItsDay, Entered
  <2>11. QED
    BY <2>4, <2>7, <2>8, <2>9, <2>10
<1>4. CASE UpdateHotelRuleToA(n)
  <2>1. \A r \in RuleIds :
           /\ rule[r] = NoRule => rule'[r] = NoRule
           /\ rule[r] # NoRule =>
                 /\ rule'[r] \in Row
                 /\ rule'[r].hotel = rule[r].hotel
                 /\ rule'[r].state = rule[r].state
                 /\ rule'[r].eff \in {rule[r].eff, NullDate}
    BY <1>4 DEF UpdateHotelRuleToA, TypeOK, Row
  <2>2. TypeOK'
    BY <1>4, <2>1 DEF TypeOK, UpdateHotelRuleToA, clock, hotelTables
  <2>3. UNCHANGED <<day, tHotel, bills, tasks>>
    BY <1>4 DEF UpdateHotelRuleToA, clock, hotelTables
  <2>4. Entered' = Entered
    BY <2>1 DEF Entered
  <2>5. TaskInv'
    <3>1. ASSUME NEW m \in Nodes, NEW t \in tasks[m]
          PROVE  t.id \in RuleIds
      BY DEF TypeOK, Task
    <3>2. QED
      BY <2>1, <2>3, <3>1 DEF TaskInv
  <2>6. SyncedIsPublished'
    BY <2>1, <2>3, <2>4 DEF SyncedIsPublished, Entered
  <2>7. SettledHasBill'
    BY <2>1, <2>3, <2>4 DEF SettledHasBill, Entered
  <2>8. BillIsOfItsDay'
    BY <2>1, <2>3, <2>4 DEF BillIsOfItsDay, Entered
  <2>9. QED
    BY <2>2, <2>5, <2>6, <2>7, <2>8
<1>5. CASE RequestFails(n)
  <2>1. TypeOK'
    BY <1>5 DEF TypeOK, RequestFails, Fault, clock, hotelTables
  <2>2. QED
    BY <1>5, <2>1 DEF RequestFails, clock, hotelTables, TaskInv,
         SyncedIsPublished, SettledHasBill, BillIsOfItsDay, Entered
<1>6. QED
  BY <1>1, <1>2, <1>3, <1>4, <1>5 DEF RequestStep
LEMMA JobKeepsInv ==
    ASSUME Inv, NEW n \in Nodes, Job(n)
    PROVE  Inv'
<1> USE DEF Inv
<1>1. /\ UNCHANGED <<day, slot, up, rule, tHotel, eHotel, req, bills, faults>>
      /\ due' \subseteq due
  BY DEF Job, HotelRuleJob, BillRuleJob, hotelTables
<1>2. \/ Submit(n, GetHMSHotelRuleList(INITSTATE), "updateThotel")
      \/ Submit(n, GetHMSHotelRuleList(SYNCSTATE), "lock")
  BY DEF Job, HotelRuleJob, BillRuleJob
<1>3. CASE Submit(n, GetHMSHotelRuleList(INITSTATE), "updateThotel")
  <2>1. TypeOK'
    BY <1>1, <1>3, SubmitTasks DEF TypeOK, SyncSteps
  <2>2. TaskInv'
    BY <1>1, <1>3, SubmitTasks DEF TaskInv, SyncSteps, BillSteps
  <2>3. QED
    BY <1>1, <2>1, <2>2 DEF SyncedIsPublished, SettledHasBill, BillIsOfItsDay, Entered
<1>4. CASE Submit(n, GetHMSHotelRuleList(SYNCSTATE), "lock")
  <2>1. TypeOK'
    BY <1>1, <1>4, SubmitTasks DEF TypeOK, BillSteps
  <2>2. TaskInv'
    BY <1>1, <1>4, SubmitTasks DEF TaskInv, BillSteps, INITSTATE, SYNCSTATE
  <2>3. QED
    BY <1>1, <2>1, <2>2 DEF SyncedIsPublished, SettledHasBill, BillIsOfItsDay, Entered
<1>5. QED
  BY <1>2, <1>3, <1>4

LEMMA SyncKeepsInv ==
    ASSUME Inv, NEW n \in Nodes, NEW t \in tasks[n], SyncStep(n, t)
    PROVE  Inv'
<1> USE DEF Inv
<1>1. t \in Task
  BY DEF TypeOK
<1>2. t.id \in RuleIds /\ t.hotel \in Hotels
  BY <1>1 DEF Task
<1>3. CASE UpdateThotel(n, t)
  <2>1. /\ Advance(n, t, "updateEhotel")
        /\ tHotel' = [tHotel EXCEPT ![t.hotel] = B_RULE]
        /\ UNCHANGED <<day, slot, due, up, rule, eHotel, req, bills, faults>>
    BY <1>3 DEF UpdateThotel, clock
  <2>2. \A h \in Hotels : tHotel[h] = B_RULE => tHotel'[h] = B_RULE
    BY <2>1 DEF TypeOK
  <2>3. tHotel'[t.hotel] = B_RULE
    BY <1>2, <2>1 DEF TypeOK
  <2>4. TypeOK'
    BY <2>1, AdvanceTasks DEF TypeOK, SyncSteps, RuleCodes
  <2>5. TaskInv'
    <3>1. ASSUME NEW m \in Nodes, NEW u \in tasks[m]
          PROVE  u.hotel \in Hotels
      BY DEF TypeOK, Task
    <3>2. QED
      BY <2>1, <2>2, <2>3, <3>1, AdvanceTasks DEF TaskInv, SyncSteps, BillSteps
  <2>6. SyncedIsPublished'
    BY <2>1, <2>2 DEF SyncedIsPublished, Entered, TypeOK, Row
  <2>7. QED
    BY <2>1, <2>4, <2>5, <2>6 DEF SettledHasBill, BillIsOfItsDay, Entered
<1>4. CASE UpdateEhotel(n, t)
  <2>1. /\ Advance(n, t, "updateState")
        /\ eHotel' = [eHotel EXCEPT ![t.hotel] = B_RULE]
        /\ t.pc = "updateEhotel"
        /\ UNCHANGED <<day, slot, due, up, rule, tHotel, req, bills, faults>>
    BY <1>4 DEF UpdateEhotel, clock
  <2>2. TypeOK'
    BY <2>1, AdvanceTasks DEF TypeOK, SyncSteps, RuleCodes
  <2>3. TaskInv'
    BY <2>1, AdvanceTasks DEF TaskInv, SyncSteps, BillSteps
  <2>4. QED
    BY <2>1, <2>2, <2>3 DEF SyncedIsPublished, SettledHasBill, BillIsOfItsDay, Entered
<1>5. CASE SyncState(n, t)
  <2>1. /\ UpdateState(t.hotel, SYNCSTATE, INITSTATE)
        /\ Finish(n, t)
        /\ tHotel[t.hotel] = B_RULE
        /\ UNCHANGED <<day, slot, due, up, tHotel, eHotel, req, bills, faults>>
    BY <1>5 DEF SyncState, clock, hotelTables, TaskInv
  <2>2. TypeOK'
    BY <1>2, <2>1, UpdateStateRows, FinishTasks DEF TypeOK
  <2>3. TaskInv'
    BY <1>2, <2>1, FinishTasks, MoveKeepsTasks
  <2>4. SyncedIsPublished' /\ SettledHasBill' /\ BillIsOfItsDay'
    BY <1>2, <2>1, MoveKeepsRows DEF SYNCSTATE, BILLSTATE
  <2>5. QED
    BY <2>2, <2>3, <2>4
<1>6. QED
  BY <1>3, <1>4, <1>5 DEF SyncStep

\* A bill made today for the hotel of a bill task.
LEMMA MakeBillKeepsInv ==
    ASSUME Inv, NEW n \in Nodes, NEW t \in tasks[n], t.pc = "post",
           NEW pc \in {"success", "failure"},
           MakeBill(t.hotel), Advance(n, t, pc),
           UNCHANGED <<day, slot, due, up, rule, tHotel, eHotel, req>>,
           faults' \in 0..MaxFaults
    PROVE  Inv'
<1> USE DEF Inv
<1>1. t.id \in RuleIds /\ t.hotel \in Hotels /\ day \in Days
  BY DEF TypeOK, Task
<1>2. \A h \in Hotels : \A d \in Days : bills[h][d] \in Nat
  BY DEF TypeOK
<1>3. /\ bills' \in [Hotels -> [Days -> Nat]]
      /\ bills'[t.hotel][day] > 0
      /\ \A h \in Hotels : \A d \in Days :
            /\ bills[h][d] > 0 => bills'[h][d] > 0
            /\ bills'[h][d] > 0 => bills[h][d] > 0 \/ (h = t.hotel /\ d = day)
  <2>1. bills[t.hotel] \in [Days -> Nat]
    BY <1>1 DEF TypeOK
  <2>2. bills' = [bills EXCEPT ![t.hotel] = [bills[t.hotel] EXCEPT ![day] = bills[t.hotel][day] + 1]]
    BY <1>1, <2>1 DEF MakeBill, TypeOK
  <2>3. [bills[t.hotel] EXCEPT ![day] = bills[t.hotel][day] + 1] \in [Days -> Nat]
    BY <1>1, <1>2, <2>1
  <2>4. QED
    BY <1>1, <1>2, <2>1, <2>2, <2>3 DEF TypeOK
<1>4. TypeOK'
  BY <1>3, AdvanceTasks DEF TypeOK, BillSteps
<1>5. TaskInv'
  <2>1. ASSUME NEW m \in Nodes, NEW u \in tasks[m]
        PROVE  u.hotel \in Hotels
    BY DEF TypeOK, Task
  <2>2. QED
    BY <1>1, <1>3, <2>1, AdvanceTasks DEF TaskInv, BillSteps
<1>6. SyncedIsPublished'
  BY DEF SyncedIsPublished, Entered
<1>7. SettledHasBill'
  BY <1>3 DEF SettledHasBill, Entered, TypeOK, Row
<1>8. BillIsOfItsDay'
  <2>1. /\ t.id \in Entered
        /\ rule[t.id].hotel = t.hotel
        /\ rule[t.id].eff \in {day, NullDate}
        /\ rule[t.id].state # INITSTATE
    BY <1>1 DEF TaskInv, Entered, BillSteps
  <2>2. QED
    BY <1>1, <1>3, <2>1 DEF BillIsOfItsDay, Entered
<1>9. QED
  BY <1>4, <1>5, <1>6, <1>7, <1>8
LEMMA BillKeepsInv ==
    ASSUME Inv, NEW n \in Nodes, NEW t \in tasks[n], BillStep(n, t)
    PROVE  Inv'
<1> USE DEF Inv
<1>1. t.id \in RuleIds /\ t.hotel \in Hotels
  BY DEF TypeOK, Task
<1>2. CASE BillLock(n, t)
  <2>1. /\ t.pc = "lock"
        /\ UpdateState(t.hotel, PREBILLSTATE, SYNCSTATE)
        /\ Advance(n, t, "post")
        /\ UNCHANGED <<day, slot, due, up, tHotel, eHotel, req, bills, faults>>
    BY <1>2 DEF BillLock, clock, hotelTables
  <2>2. TypeOK'
    BY <1>1, <2>1, UpdateStateRows, AdvanceTasks DEF TypeOK, BillSteps
  <2>3. \A r \in RuleIds :
           /\ rule'[r] = NoRule <=> rule[r] = NoRule
           /\ rule[r] # NoRule =>
                 /\ rule'[r].hotel = rule[r].hotel
                 /\ rule'[r].eff = rule[r].eff
                 /\ rule[r].state # INITSTATE => rule'[r].state # INITSTATE
    BY <1>1, <2>1, UpdateStateRows DEF PREBILLSTATE, INITSTATE
  <2>4. TaskInv'
    <3>1. ASSUME NEW m \in Nodes, NEW u \in tasks[m]
          PROVE  u.id \in RuleIds
      BY DEF TypeOK, Task
    <3>2. \A m \in Nodes : \A u \in tasks'[m] :
             \/ u \in tasks[m]
             \/ u.id = t.id /\ u.hotel = t.hotel /\ u.pc = "post"
      BY <2>1, AdvanceTasks DEF BillSteps
    <3>3. QED
      BY <1>1, <2>1, <2>3, <3>1, <3>2 DEF TaskInv, BillSteps
  <2>5. SyncedIsPublished' /\ SettledHasBill' /\ BillIsOfItsDay'
    BY <1>1, <2>1, MoveKeepsRows DEF PREBILLSTATE, INITSTATE, SYNCSTATE, BILLSTATE
  <2>6. QED
    BY <2>2, <2>4, <2>5
<1>3. CASE BillSkip(n, t)
  <2>1. /\ Finish(n, t)
        /\ UNCHANGED <<day, slot, due, up, rule, tHotel, eHotel, req, bills, faults>>
    BY <1>3 DEF BillSkip, clock, hotelTables
  <2>2. TypeOK' /\ TaskInv'
    BY <2>1, FinishTasks DEF TypeOK, TaskInv
  <2>3. QED
    BY <2>1, <2>2 DEF SyncedIsPublished, SettledHasBill, BillIsOfItsDay, Entered
<1>4. CASE PostSucceeds(n, t)
  BY <1>4, MakeBillKeepsInv DEF PostSucceeds, clock, hotelTables, TypeOK
<1>5. CASE BillSuccess(n, t)
  <2>1. /\ UpdateState(t.hotel, BILLSTATE, PREBILLSTATE)
        /\ Finish(n, t)
        /\ \E d \in Days : bills[t.hotel][d] > 0
        /\ UNCHANGED <<day, slot, due, up, tHotel, eHotel, req, bills, faults>>
    BY <1>5 DEF BillSuccess, clock, hotelTables, TaskInv
  <2>2. TypeOK'
    BY <1>1, <2>1, UpdateStateRows, FinishTasks DEF TypeOK
  <2>3. TaskInv'
    BY <1>1, <2>1, FinishTasks, MoveKeepsTasks
  <2>4. SyncedIsPublished' /\ SettledHasBill' /\ BillIsOfItsDay'
    BY <1>1, <2>1, MoveKeepsRows DEF PREBILLSTATE, INITSTATE
  <2>5. QED
    BY <2>2, <2>3, <2>4
<1>6. CASE BillFailure(n, t)
  <2>1. /\ UpdateState(t.hotel, SYNCSTATE, PREBILLSTATE)
        /\ Finish(n, t)
        /\ UNCHANGED <<day, slot, due, up, tHotel, eHotel, req, bills, faults>>
    BY <1>6 DEF BillFailure, clock, hotelTables
  <2>2. TypeOK'
    BY <1>1, <2>1, UpdateStateRows, FinishTasks DEF TypeOK
  <2>3. TaskInv'
    BY <1>1, <2>1, FinishTasks, MoveKeepsTasks
  <2>4. SyncedIsPublished' /\ SettledHasBill' /\ BillIsOfItsDay'
    BY <1>1, <2>1, MoveKeepsRows DEF PREBILLSTATE, INITSTATE, SYNCSTATE, BILLSTATE
  <2>5. QED
    BY <2>2, <2>3, <2>4
<1>7. QED
  BY <1>2, <1>3, <1>4, <1>5, <1>6 DEF BillStep

LEMMA TaskFaultKeepsInv ==
    ASSUME Inv, NEW n \in Nodes, NEW t \in tasks[n], TaskFault(n, t)
    PROVE  Inv'
<1> USE DEF Inv
<1>1. faults' \in 0..MaxFaults
  BY DEF TaskFault, PostFails, PostReplyLost, TaskFails, Fault, TypeOK
<1>2. CASE PostFails(n, t)
  <2>1. /\ Advance(n, t, "failure")
        /\ t.pc = "post"
        /\ UNCHANGED <<day, slot, due, up, rule, tHotel, eHotel, req, bills>>
    BY <1>2 DEF PostFails, clock, hotelTables
  <2>2. TypeOK'
    BY <1>1, <2>1, AdvanceTasks DEF TypeOK, BillSteps
  <2>3. TaskInv'
    BY <2>1, AdvanceTasks DEF TaskInv, BillSteps
  <2>4. QED
    BY <2>1, <2>2, <2>3 DEF SyncedIsPublished, SettledHasBill, BillIsOfItsDay, Entered
<1>3. CASE PostReplyLost(n, t)
  BY <1>1, <1>3, MakeBillKeepsInv DEF PostReplyLost, clock, hotelTables
<1>4. CASE TaskFails(n, t)
  <2>1. /\ Finish(n, t)
        /\ UNCHANGED <<day, slot, due, up, rule, tHotel, eHotel, req, bills>>
    BY <1>4 DEF TaskFails, clock, hotelTables
  <2>2. TypeOK' /\ TaskInv'
    BY <1>1, <2>1, FinishTasks DEF TypeOK, TaskInv
  <2>3. QED
    BY <2>1, <2>2 DEF SyncedIsPublished, SettledHasBill, BillIsOfItsDay, Entered
<1>5. QED
  BY <1>2, <1>3, <1>4 DEF TaskFault

LEMMA NodeOrTickKeepsInv ==
    ASSUME Inv, (\E n \in Nodes : Crash(n) \/ Restart(n)) \/ Tick
    PROVE  Inv'
<1> USE DEF Inv
<1>1. ASSUME NEW n \in Nodes, Crash(n)
      PROVE  Inv'
  <2>1. /\ \A m \in Nodes : tasks'[m] \subseteq tasks[m]
        /\ UNCHANGED <<day, slot, rule, tHotel, eHotel, bills>>
    BY <1>1 DEF Crash, hotelTables, TypeOK
  <2>2. TypeOK'
    BY <1>1 DEF Crash, Fault, hotelTables, TypeOK
  <2>3. TaskInv'
    BY <2>1 DEF TaskInv
  <2>4. QED
    BY <2>1, <2>2, <2>3 DEF SyncedIsPublished, SettledHasBill, BillIsOfItsDay, Entered
<1>2. ASSUME NEW n \in Nodes, Restart(n)
      PROVE  Inv'
  <2>1. TypeOK'
    BY <1>2 DEF Restart, clock, hotelTables, TypeOK
  <2>2. QED
    BY <1>2, <2>1 DEF Restart, clock, hotelTables, TaskInv, SyncedIsPublished,
         SettledHasBill, BillIsOfItsDay, Entered
<1>3. CASE Tick
  <2>1. TypeOK'
    BY <1>3 DEF Tick, hotelTables, TypeOK, Days
  <2>2. TaskInv'
    BY <1>3 DEF Tick, TaskInv
  <2>3. QED
    BY <1>3, <2>1, <2>2 DEF Tick, hotelTables, SyncedIsPublished, SettledHasBill,
         BillIsOfItsDay, Entered
<1>4. QED
  BY <1>1, <1>2, <1>3

LEMMA NextInv == Inv /\ [Next]_vars => Inv'
<1> SUFFICES ASSUME Inv, [Next]_vars PROVE Inv'
  OBVIOUS
<1>1. CASE Next
  BY <1>1, RequestKeepsInv, JobKeepsInv, SyncKeepsInv, BillKeepsInv,
     TaskFaultKeepsInv, NodeOrTickKeepsInv DEF Next
<1>2. CASE UNCHANGED vars
  <2>1. TypeOK'
    BY <1>2 DEF Inv, TypeOK, vars
  <2>2. QED
    BY <1>2, <2>1 DEF Inv, vars, TaskInv, SyncedIsPublished, SettledHasBill,
         BillIsOfItsDay, Entered
<1>3. QED
  BY <1>1, <1>2

\* Every reachable state satisfies the inductive invariant.
THEOREM SpecInv == Spec => []Inv
<1>1. Init => Inv
  BY InitInv
<1>2. Inv /\ [Next]_vars => Inv'
  BY NextInv
<1>3. QED
  BY <1>1, <1>2, PTL DEF Spec

\* The tables, requests and pools always hold what the code can put there.
THEOREM SpecTypeOK == Spec => []TypeOK
BY SpecInv, PTL DEF Inv

\* No row goes past its initial state before its hotel is published with
\* rule B, whatever faults happen (HmsHotelRuleService.syncHotelRule).
THEOREM SpecSyncedIsPublished == Spec => []SyncedIsPublished
BY SpecInv, PTL DEF Inv

\* A settled row's hotel has got an early bill
\* (HmsHotelRuleService.executeBillTask).
THEOREM SpecSettledHasBill == Spec => []SettledHasBill
BY SpecInv, PTL DEF Inv

\* Early bills are made only on a day a rule of the hotel takes effect
\* (BillRuleWorker.doTask and executeBillTask).
THEOREM SpecBillIsOfItsDay == Spec => []BillIsOfItsDay
BY SpecInv, PTL DEF Inv
-----------------------------------------------------------------------------
(* A claim in force has its task, if no node crashes and no statement      *)
(* throws.                                                                 *)

\* A task step disturbs no other task, and the task that advances is there
\* with its next step.
LEMMA OtherTasksStay ==
    ASSUME TypeOK, NEW n \in Nodes, NEW t \in tasks[n],
           \/ Finish(n, t)
           \/ \E pc \in SyncSteps \cup BillSteps : Advance(n, t, pc)
    PROVE  \A m \in Nodes : \A u \in tasks[m] : u # t => u \in tasks'[m]
BY DEF TypeOK, Finish, Advance

LEMMA AdvancedTask ==
    ASSUME TypeOK, NEW n \in Nodes, NEW t \in tasks[n],
           NEW pc \in SyncSteps \cup BillSteps, Advance(n, t, pc)
    PROVE  \E u \in tasks'[n] : u.hotel = t.hotel /\ u.pc = pc
<1>1. t \in Task
  BY DEF TypeOK
<1>2. /\ [t EXCEPT !.pc = pc].hotel = t.hotel
      /\ [t EXCEPT !.pc = pc].pc = pc
  BY <1>1 DEF Task
<1>3. [t EXCEPT !.pc = pc] \in tasks'[n]
  BY DEF TypeOK, Advance
<1>4. QED
  BY <1>2, <1>3

LEMMA NextClaimHasTask ==
    ASSUME "crash" \notin FaultKinds, "db" \notin FaultKinds,
           Inv, ClaimHasTask, [Next]_vars
    PROVE  ClaimHasTask'
<1> USE DEF Inv
<1> DEFINE Claiming == {"post", "success", "failure"}
<1>1. \A r \in Entered :
         rule[r].state = PREBILLSTATE /\ rule[r].eff # NullDate
            => \E m \in Nodes : \E u \in tasks[m] :
                  u.hotel = rule[r].hotel /\ u.pc \in Claiming
  BY DEF ClaimHasTask
<1>2. SUFFICES ASSUME NEW r \in RuleIds, rule'[r] # NoRule,
                      rule'[r].state = PREBILLSTATE, rule'[r].eff # NullDate
               PROVE  \E m \in Nodes : \E u \in tasks'[m] :
                         u.hotel = rule'[r].hotel /\ u.pc \in Claiming
  BY DEF ClaimHasTask, Entered
<1> DEFINE Held == \E m \in Nodes : \E u \in tasks'[m] :
                      u.hotel = rule'[r].hotel /\ u.pc \in Claiming
<1>3. ASSUME NEW n \in Nodes, NEW h \in Hotels, NEW code \in RuleCodes,
             SaveHotelRule(n, h, code)
      PROVE  Held
  BY <1>1, <1>2, <1>3 DEF SaveHotelRule, Entered
<1>4. ASSUME NEW n \in Nodes, RequestStep(n) \/ RequestFails(n)
      PROVE  Held
  <2>1. tasks' = tasks
    BY <1>4 DEF RequestStep, ComputeEffectDate, InsertHotelRule, UpdateHotelRuleToA,
         RequestFails
  <2>2. \/ rule'[r] = rule[r]
        \/ rule'[r].state = INITSTATE
        \/ /\ rule[r] # NoRule
           /\ rule'[r].eff = NullDate
    <3>1. CASE InsertHotelRule(n)
      <4> DEFINE row == [hotel |-> req[n].hotel, eff |-> req[n].eff, state |-> INITSTATE]
      <4>1. PICK q \in RuleIds : rule' = [rule EXCEPT ![q] = row]
        BY <3>1 DEF InsertHotelRule
      <4>2. row.state = INITSTATE
        OBVIOUS
      <4> HIDE DEF row
      <4>3. QED
        BY <4>1, <4>2 DEF TypeOK
    <3>2. CASE UpdateHotelRuleToA(n)
      BY <3>2 DEF UpdateHotelRuleToA, TypeOK, Row
    <3>3. CASE ComputeEffectDate(n) \/ RequestFails(n)
      BY <3>3 DEF ComputeEffectDate, RequestFails
    <3>4. QED
      BY <1>4, <3>1, <3>2, <3>3 DEF RequestStep
  <2>3. QED
    BY <1>1, <1>2, <2>1, <2>2 DEF Entered, PREBILLSTATE, INITSTATE
<1>5. ASSUME NEW n \in Nodes, Job(n)
      PROVE  Held
  <2>1. rule' = rule
    BY <1>5 DEF Job, HotelRuleJob, BillRuleJob
  <2>2. \A m \in Nodes : tasks[m] \subseteq tasks'[m]
    BY <1>5 DEF Job, HotelRuleJob, BillRuleJob, Submit, TypeOK
  <2>3. QED
    BY <1>1, <1>2, <2>1, <2>2 DEF Entered
<1>6. ASSUME NEW n \in Nodes, NEW t \in tasks[n], SyncStep(n, t)
      PROVE  Held
  <2>1. t.hotel \in Hotels /\ t.pc \notin Claiming
    BY <1>6 DEF SyncStep, UpdateThotel, UpdateEhotel, SyncState, TypeOK, Task
  <2>2. \A m \in Nodes : \A u \in tasks[m] : u # t => u \in tasks'[m]
    BY <1>6, OtherTasksStay DEF SyncStep, UpdateThotel, UpdateEhotel, SyncState, SyncSteps
  <2>3. rule' = rule \/ UpdateState(t.hotel, SYNCSTATE, INITSTATE)
    BY <1>6 DEF SyncStep, UpdateThotel, UpdateEhotel, SyncState
  <2>4. rule'[r] = rule[r]
    BY <1>2, <2>1, <2>3, UpdateStateRows DEF SYNCSTATE, PREBILLSTATE
  <2>5. QED
    BY <1>1, <1>2, <2>1, <2>2, <2>4 DEF Entered
<1>7. ASSUME NEW n \in Nodes, NEW t \in tasks[n], BillStep(n, t) \/ TaskFault(n, t)
      PROVE  Held
  <2>1. t.hotel \in Hotels
    BY DEF TypeOK, Task
  <2>2. CASE BillLock(n, t)
    <3>1. /\ t.pc = "lock"
          /\ UpdateState(t.hotel, PREBILLSTATE, SYNCSTATE)
          /\ Advance(n, t, "post")
      BY <2>2 DEF BillLock
    <3>2. \E u \in tasks'[n] : u.hotel = t.hotel /\ u.pc = "post"
      BY <3>1, AdvancedTask DEF BillSteps
    <3>3. \A m \in Nodes : \A u \in tasks[m] : u # t => u \in tasks'[m]
      BY <3>1, OtherTasksStay DEF BillSteps
    <3>4. \/ rule'[r].hotel = t.hotel
          \/ rule'[r] = rule[r]
      BY <1>2, <2>1, <3>1, UpdateStateRows DEF Matching
    <3>5. QED
      BY <1>1, <1>2, <3>1, <3>2, <3>3, <3>4 DEF Entered
  <2>3. CASE BillSkip(n, t)
    <3>1. /\ t.pc = "lock"
          /\ Finish(n, t)
          /\ rule' = rule
      BY <2>3 DEF BillSkip
    <3>2. \A m \in Nodes : \A u \in tasks[m] : u # t => u \in tasks'[m]
      BY <3>1, OtherTasksStay
    <3>3. QED
      BY <1>1, <1>2, <3>1, <3>2 DEF Entered
  <2>4. CASE PostSucceeds(n, t) \/ PostFails(n, t) \/ PostReplyLost(n, t)
    <3>1. PICK pc \in {"success", "failure"} : Advance(n, t, pc) /\ rule' = rule
      BY <2>4 DEF PostSucceeds, PostFails, PostReplyLost
    <3>2. \E u \in tasks'[n] : u.hotel = t.hotel /\ u.pc = pc
      BY <3>1, AdvancedTask DEF BillSteps
    <3>3. \A m \in Nodes : \A u \in tasks[m] : u # t => u \in tasks'[m]
      BY <3>1, OtherTasksStay DEF BillSteps
    <3>4. QED
      BY <1>1, <1>2, <3>1, <3>2, <3>3 DEF Entered
  <2>5. CASE BillSuccess(n, t) \/ BillFailure(n, t)
    <3>1. PICK to \in {SYNCSTATE, BILLSTATE} :
             UpdateState(t.hotel, to, PREBILLSTATE) /\ Finish(n, t)
      BY <2>5 DEF BillSuccess, BillFailure
    <3>2. \A m \in Nodes : \A u \in tasks[m] : u # t => u \in tasks'[m]
      BY <3>1, OtherTasksStay
    <3>3. r \notin Matching(t.hotel, PREBILLSTATE) /\ rule'[r] = rule[r]
      BY <1>2, <2>1, <3>1, UpdateStateRows DEF SYNCSTATE, BILLSTATE, PREBILLSTATE
    <3>4. rule[r].hotel # t.hotel
      BY <1>2, <3>3 DEF Matching
    <3>5. QED
      BY <1>1, <1>2, <3>2, <3>3, <3>4 DEF Entered
  <2>6. ~TaskFails(n, t)
    BY DEF TaskFails, Fault
  <2>7. QED
    BY <1>7, <2>2, <2>3, <2>4, <2>5, <2>6 DEF BillStep, TaskFault
<1>8. ASSUME NEW n \in Nodes, Crash(n) \/ Restart(n)
      PROVE  Held
  BY <1>1, <1>2, <1>8 DEF Crash, Fault, Restart, Entered
<1>9. CASE Tick \/ UNCHANGED vars
  BY <1>1, <1>2, <1>9 DEF Tick, vars, Entered
<1>10. QED
  BY <1>3, <1>4, <1>5, <1>6, <1>7, <1>8, <1>9 DEF Next

\* As long as no node crashes and no statement throws, a claimed rule that is
\* still in force has a task that will settle or release it, however the two
\* jobs of all nodes and the users' requests interleave.
THEOREM SpecClaimHasTask ==
    ASSUME "crash" \notin FaultKinds, "db" \notin FaultKinds
    PROVE  Spec => []ClaimHasTask
<1>1. Init => ClaimHasTask
  BY DEF Init, ClaimHasTask, Entered
<1>2. Inv /\ ClaimHasTask /\ [Next]_vars => ClaimHasTask'
  BY NextClaimHasTask
<1>3. QED
  BY <1>1, <1>2, SpecInv, PTL DEF Spec
-----------------------------------------------------------------------------
(* HotelRule implements RuleLifecycle.                                     *)

LEMMA PhaseNames ==
    /\ Phase(INITSTATE) = "scheduled"
    /\ Phase(SYNCSTATE) = "effective"
    /\ Phase(PREBILLSTATE) = "settling"
    /\ Phase(BILLSTATE) = "settled"
BY DEF Phase, INITSTATE, SYNCSTATE, PREBILLSTATE, BILLSTATE

\* The entries of the book are the rows, seen through Phase.
LEMMA BookRows ==
    ASSUME TypeOK
    PROVE  /\ \A r \in RuleIds :
                 /\ Book[r] = NoRule <=> rule[r] = NoRule
                 /\ rule[r] # NoRule =>
                       /\ Book[r].hotel = rule[r].hotel
                       /\ Book[r].phase = Phase(rule[r].state)
                       /\ Book[r].standing = Standing(rule[r].eff)
           /\ \A h \in Hotels : Lifecycle!EntriesOf(h) =
                 {r \in RuleIds : rule[r] # NoRule /\ rule[r].hotel = h}
<1>1. ASSUME NEW r \in RuleIds, rule[r] # NoRule
      PROVE  [hotel |-> rule[r].hotel,
              phase |-> Phase(rule[r].state),
              standing |-> Standing(rule[r].eff)] \in Lifecycle!Entry
  BY <1>1 DEF Lifecycle!Entry, TypeOK, Row, Phase, Standing, Lifecycle!Phases
<1>2. \A r \in RuleIds :
         /\ Book[r] = NoRule <=> rule[r] = NoRule
         /\ rule[r] # NoRule =>
               Book[r] = [hotel |-> rule[r].hotel,
                          phase |-> Phase(rule[r].state),
                          standing |-> Standing(rule[r].eff)]
  BY <1>1, NoEntryAssumption DEF Book
<1>3. ASSUME NEW r \in RuleIds, rule[r] # NoRule
      PROVE  /\ Book[r].hotel = rule[r].hotel
             /\ Book[r].phase = Phase(rule[r].state)
             /\ Book[r].standing = Standing(rule[r].eff)
  <2> DEFINE entry == [hotel |-> rule[r].hotel,
                       phase |-> Phase(rule[r].state),
                       standing |-> Standing(rule[r].eff)]
  <2>1. Book[r] = entry
    BY <1>2, <1>3
  <2>2. /\ entry.hotel = rule[r].hotel
        /\ entry.phase = Phase(rule[r].state)
        /\ entry.standing = Standing(rule[r].eff)
    OBVIOUS
  <2> HIDE DEF entry
  <2>3. QED
    BY <2>1, <2>2
<1>4. \A h \in Hotels : Lifecycle!EntriesOf(h) =
         {r \in RuleIds : rule[r] # NoRule /\ rule[r].hotel = h}
  BY <1>2, <1>3 DEF Lifecycle!EntriesOf
<1>5. QED
  BY <1>2, <1>3, <1>4

\* updateState is a move of the book's active entries.
LEMMA MoveRefines ==
    ASSUME Inv, NEW h \in Hotels,
           NEW to \in {SYNCSTATE, PREBILLSTATE, BILLSTATE},
           NEW from \in {INITSTATE, SYNCSTATE, PREBILLSTATE},
           UpdateState(h, to, from), UNCHANGED <<tHotel, bills>>
    PROVE  Lifecycle!Move(h, Phase(from), Phase(to))
<1> USE DEF Inv
<1>1. \A s \in {INITSTATE, SYNCSTATE, PREBILLSTATE, BILLSTATE} :
         Phase(s) = Phase(from) <=> s = from
  BY DEF Phase, INITSTATE, SYNCSTATE, PREBILLSTATE, BILLSTATE
<1>2. \A r \in RuleIds :
         r \in Matching(h, from) <=>
            /\ r \in Lifecycle!EntriesOf(h)
            /\ Book[r].standing = "active"
            /\ Book[r].phase = Phase(from)
  <2>1. \A r \in RuleIds : rule[r] # NoRule =>
           rule[r].state \in {INITSTATE, SYNCSTATE, PREBILLSTATE, BILLSTATE}
    BY DEF TypeOK, Row
  <2>2. QED
    BY <1>1, <2>1, BookRows DEF Matching, Standing
<1>3. ASSUME NEW r \in RuleIds
      PROVE  Book'[r] = IF r \in Matching(h, from)
                        THEN [Book[r] EXCEPT !.phase = Phase(to)]
                        ELSE Book[r]
  <2>1. Book'[r] = IF rule'[r] = NoRule THEN NoRule
                   ELSE [hotel |-> rule'[r].hotel,
                         phase |-> Phase(rule'[r].state),
                         standing |-> Standing(rule'[r].eff)]
    BY DEF Book
  <2>2. CASE r \in Matching(h, from)
    <3>1. /\ rule[r] # NoRule /\ rule'[r] # NoRule
          /\ rule'[r].hotel = rule[r].hotel
          /\ rule'[r].eff = rule[r].eff
          /\ rule'[r].state = to
      BY <2>2, UpdateStateRows DEF Matching, INITSTATE, SYNCSTATE
    <3>2. Book[r] = [hotel |-> rule[r].hotel,
                     phase |-> Phase(rule[r].state),
                     standing |-> Standing(rule[r].eff)]
      BY <3>1 DEF Book
    <3>3. QED
      BY <2>1, <2>2, <3>1, <3>2
  <2>3. CASE r \notin Matching(h, from)
    BY <2>1, <2>3, UpdateStateRows DEF Book
  <2>4. QED
    BY <2>2, <2>3
<1>4. Book' = [r \in RuleIds |->
                 IF r \in Lifecycle!EntriesOf(h) /\ Book[r].standing = "active" /\ Book[r].phase = Phase(from)
                 THEN [Book[r] EXCEPT !.phase = Phase(to)]
                 ELSE Book[r]]
  BY <1>2, <1>3 DEF Book
<1>5. UNCHANGED <<Published, Billed>>
  BY DEF Published, Billed
<1>6. QED
  BY <1>4, <1>5 DEF Lifecycle!Move
\* A statement that leaves rows, published hotels and the set of billed
\* hotels alone does not show in the book.
LEMMA StutterRefines ==
    ASSUME UNCHANGED <<rule, tHotel, bills>>
    PROVE  UNCHANGED Lifecycle!vars
BY DEF Lifecycle!vars, Book, Published, Billed

LEMMA BillRefines ==
    ASSUME Inv, NEW n \in Nodes, NEW t \in tasks[n], t.pc = "post",
           MakeBill(t.hotel), UNCHANGED <<rule, tHotel>>
    PROVE  Lifecycle!Bill(t.hotel)
<1> USE DEF Inv
<1>1. t.id \in RuleIds /\ t.hotel \in Hotels /\ day \in Days
  BY DEF TypeOK, Task
<1>2. /\ rule[t.id] # NoRule
      /\ rule[t.id].hotel = t.hotel
      /\ rule[t.id].state # INITSTATE
      /\ rule[t.id].state \in {INITSTATE, SYNCSTATE, PREBILLSTATE, BILLSTATE}
  BY <1>1 DEF TaskInv, BillSteps, TypeOK, Row
<1>3. t.id \in Lifecycle!EntriesOf(t.hotel) /\ Book[t.id].phase # "scheduled"
  BY <1>1, <1>2, BookRows DEF Phase, INITSTATE, SYNCSTATE, PREBILLSTATE, BILLSTATE
<1>4. \A h \in Hotels, d \in Days : bills[h][d] \in Nat
  BY DEF TypeOK
<1>5. \A h \in Hotels, d \in Days :
         bills'[h][d] = IF h = t.hotel /\ d = day THEN bills[h][d] + 1 ELSE bills[h][d]
  BY <1>1 DEF MakeBill, TypeOK
<1>6. Billed' = Billed \cup {t.hotel}
  BY <1>1, <1>4, <1>5 DEF Billed
<1>7. UNCHANGED <<Book, Published>>
  BY DEF Book, Published
<1>8. QED
  BY <1>3, <1>6, <1>7 DEF Lifecycle!Bill

LEMMA RequestRefines ==
    ASSUME Inv, NEW n \in Nodes, RequestStep(n)
    PROVE  [Lifecycle!Next]_(Lifecycle!vars)
<1> USE DEF Inv
<1>1. CASE ComputeEffectDate(n)
  BY <1>1, StutterRefines DEF ComputeEffectDate, hotelTables
<1>2. CASE InsertHotelRule(n)
  <2> DEFINE row == [hotel |-> req[n].hotel, eff |-> req[n].eff, state |-> INITSTATE]
  <2>1. /\ req[n].hotel \in Hotels
        /\ req[n].eff # NullDate
        /\ row \in Row
    BY <1>2 DEF InsertHotelRule, TypeOK, Request, Row
  <2>2. row.hotel = req[n].hotel /\ row.eff = req[n].eff /\ row.state = INITSTATE
    OBVIOUS
  <2>3. PICK r \in RuleIds : rule[r] = NoRule /\ rule' = [rule EXCEPT ![r] = row]
    BY <1>2 DEF InsertHotelRule
  <2>4. UNCHANGED <<tHotel, bills>>
    BY <1>2 DEF InsertHotelRule, hotelTables
  <2> HIDE DEF row
  <2>5. rule'[r] = row /\ row # NoRule /\ \A q \in RuleIds \ {r} : rule'[q] = rule[q]
    BY <2>1, <2>3 DEF TypeOK
  <2>6. Book[r] = NoRule
    BY <2>3 DEF Book
  <2>7. Book'[r] = [hotel |-> req[n].hotel, phase |-> "scheduled", standing |-> "active"]
    <3>1. Book'[r] = [hotel |-> row.hotel,
                      phase |-> Phase(row.state),
                      standing |-> Standing(row.eff)]
      BY <2>5 DEF Book
    <3>2. Phase(row.state) = "scheduled" /\ Standing(row.eff) = "active"
      BY <2>1, <2>2, PhaseNames DEF Standing
    <3>3. QED
      BY <2>2, <3>1, <3>2
  <2>8. \A q \in RuleIds \ {r} : Book'[q] = Book[q]
    BY <2>5 DEF Book
  <2>9. Book' = [Book EXCEPT ![r] =
                   [hotel |-> req[n].hotel, phase |-> "scheduled", standing |-> "active"]]
    BY <2>7, <2>8 DEF Book
  <2>10. Lifecycle!Schedule(r, req[n].hotel)
    BY <2>4, <2>6, <2>9 DEF Lifecycle!Schedule, Published, Billed
  <2>11. QED
    BY <2>1, <2>10 DEF Lifecycle!Next
<1>3. CASE UpdateHotelRuleToA(n)
  <2> DEFINE h == req[n].hotel
  <2>1. h \in Hotels
    BY <1>3 DEF UpdateHotelRuleToA, TypeOK, Request
  <2>2. ASSUME NEW r \in RuleIds
        PROVE  Book'[r] = IF r \in Lifecycle!EntriesOf(h)
                          THEN [Book[r] EXCEPT !.standing = "withdrawn"]
                          ELSE Book[r]
    <3>1. rule'[r] = IF rule[r] # NoRule /\ rule[r].hotel = h
                     THEN [rule[r] EXCEPT !.eff = NullDate]
                     ELSE rule[r]
      BY <1>3 DEF UpdateHotelRuleToA
    <3>2. CASE r \in Lifecycle!EntriesOf(h)
      <4>1. rule[r] # NoRule /\ rule[r].hotel = h /\ rule[r] \in Row
        BY <2>1, <3>2, BookRows DEF TypeOK
      <4>2. /\ rule'[r] # NoRule
            /\ rule'[r].hotel = rule[r].hotel
            /\ rule'[r].state = rule[r].state
            /\ rule'[r].eff = NullDate
        BY <3>1, <4>1 DEF Row
      <4>3. Book[r] = [hotel |-> rule[r].hotel,
                       phase |-> Phase(rule[r].state),
                       standing |-> Standing(rule[r].eff)]
        BY <4>1 DEF Book
      <4>4. Book'[r] = [hotel |-> rule'[r].hotel,
                        phase |-> Phase(rule'[r].state),
                        standing |-> Standing(rule'[r].eff)]
        BY <4>2 DEF Book
      <4>5. QED
        BY <3>2, <4>2, <4>3, <4>4 DEF Standing
    <3>3. CASE r \notin Lifecycle!EntriesOf(h)
      <4>1. ~(rule[r] # NoRule /\ rule[r].hotel = h)
        BY <2>1, <3>3, BookRows
      <4>2. rule'[r] = rule[r]
        BY <3>1, <4>1
      <4>3. QED
        BY <3>3, <4>2 DEF Book
    <3>4. QED
      BY <3>2, <3>3
  <2>3. Book' = [r \in RuleIds |-> IF r \in Lifecycle!EntriesOf(h)
                                   THEN [Book[r] EXCEPT !.standing = "withdrawn"]
                                   ELSE Book[r]]
    BY <2>2 DEF Book
  <2>4. UNCHANGED <<Published, Billed>>
    BY <1>3 DEF UpdateHotelRuleToA, hotelTables, Published, Billed
  <2>5. Lifecycle!Withdraw(h)
    BY <2>3, <2>4 DEF Lifecycle!Withdraw
  <2>6. QED
    BY <2>1, <2>5 DEF Lifecycle!Next
<1>4. QED
  BY <1>1, <1>2, <1>3 DEF RequestStep
LEMMA TaskRefines ==
    ASSUME Inv, NEW n \in Nodes, NEW t \in tasks[n],
           SyncStep(n, t) \/ BillStep(n, t) \/ TaskFault(n, t)
    PROVE  [Lifecycle!Next]_(Lifecycle!vars)
<1> USE DEF Inv
<1>1. t.hotel \in Hotels
  BY DEF TypeOK, Task
<1>2. CASE UpdateThotel(n, t)
  <2>1. Published' = Published \cup {t.hotel}
    BY <1>1, <1>2 DEF UpdateThotel, Published, TypeOK
  <2>2. UNCHANGED <<Book, Billed>>
    BY <1>2 DEF UpdateThotel, Book, Billed
  <2>3. Lifecycle!Publish(t.hotel)
    BY <2>1, <2>2 DEF Lifecycle!Publish
  <2>4. QED
    BY <1>1, <2>3 DEF Lifecycle!Next
<1>3. CASE UpdateEhotel(n, t) \/ BillSkip(n, t) \/ PostFails(n, t) \/ TaskFails(n, t)
  BY <1>3, StutterRefines DEF UpdateEhotel, BillSkip, PostFails, TaskFails, hotelTables
<1>4. CASE SyncState(n, t)
  <2>1. t.hotel \in Published
    BY <1>1, <1>4 DEF SyncState, TaskInv, Published
  <2>2. Lifecycle!Move(t.hotel, "scheduled", "effective")
    <3>1. Lifecycle!Move(t.hotel, Phase(INITSTATE), Phase(SYNCSTATE))
      BY <1>1, <1>4, MoveRefines DEF SyncState, hotelTables
    <3>2. QED
      BY <3>1, PhaseNames
  <2>3. QED
    BY <1>1, <2>1, <2>2 DEF Lifecycle!TakeEffect, Lifecycle!Next
<1>5. CASE BillLock(n, t)
  <2>1. Lifecycle!Move(t.hotel, Phase(SYNCSTATE), Phase(PREBILLSTATE))
    BY <1>1, <1>5, MoveRefines DEF BillLock, hotelTables
  <2>2. QED
    BY <1>1, <2>1, PhaseNames DEF Lifecycle!Claim, Lifecycle!Next
<1>6. CASE PostSucceeds(n, t) \/ PostReplyLost(n, t)
  BY <1>1, <1>6, BillRefines DEF PostSucceeds, PostReplyLost, hotelTables, Lifecycle!Next
<1>7. CASE BillSuccess(n, t)
  <2>1. t.hotel \in Billed
    BY <1>1, <1>7 DEF BillSuccess, TaskInv, Billed
  <2>2. Lifecycle!Move(t.hotel, Phase(PREBILLSTATE), Phase(BILLSTATE))
    BY <1>1, <1>7, MoveRefines DEF BillSuccess, hotelTables
  <2>3. QED
    BY <1>1, <2>1, <2>2, PhaseNames DEF Lifecycle!Settle, Lifecycle!Next
<1>8. CASE BillFailure(n, t)
  <2>1. Lifecycle!Move(t.hotel, Phase(PREBILLSTATE), Phase(SYNCSTATE))
    BY <1>1, <1>8, MoveRefines DEF BillFailure, hotelTables
  <2>2. QED
    BY <1>1, <2>1, PhaseNames DEF Lifecycle!Release, Lifecycle!Next
<1>9. QED
  BY <1>2, <1>3, <1>4, <1>5, <1>6, <1>7, <1>8 DEF SyncStep, BillStep, TaskFault

LEMMA NextRefines == Inv /\ [Next]_vars => [Lifecycle!Next]_(Lifecycle!vars)
<1> SUFFICES ASSUME Inv, [Next]_vars
             PROVE  [Lifecycle!Next]_(Lifecycle!vars)
  OBVIOUS
<1>1. ASSUME NEW n \in Nodes, NEW h \in Hotels, NEW code \in RuleCodes,
             SaveHotelRule(n, h, code)
      PROVE  UNCHANGED Lifecycle!vars
  BY <1>1, StutterRefines DEF SaveHotelRule
<1>2. ASSUME NEW n \in Nodes, RequestFails(n) \/ Job(n) \/ Crash(n) \/ Restart(n)
      PROVE  UNCHANGED Lifecycle!vars
  BY <1>2, StutterRefines DEF RequestFails, Job, HotelRuleJob, BillRuleJob, Crash,
       Restart, hotelTables
<1>3. CASE Tick \/ UNCHANGED vars
  BY <1>3, StutterRefines DEF Tick, vars, hotelTables
<1>4. QED
  BY <1>1, <1>2, <1>3, RequestRefines, TaskRefines DEF Next

\* The controller, both jobs and the tasks of all nodes, with every fault,
\* implement the rule book.
THEOREM SpecImplementsLifecycle == Spec => LifecycleSpec
<1>1. Init => Lifecycle!Init
  BY DEF Init, Lifecycle!Init, Book, Published, Billed, A_RULE, B_RULE
<1>2. Inv /\ [Next]_vars => [Lifecycle!Next]_(Lifecycle!vars)
  BY NextRefines
<1>3. QED
  BY <1>1, <1>2, SpecInv, PTL DEF Spec, LifecycleSpec, Lifecycle!Spec
-----------------------------------------------------------------------------
(* A hotel gets a second early bill on a day only after a fault.           *)

\* Tasks that have claimed the hotel and not yet settled or released it.
Claims(h) == {c \in Nodes \X Task : /\ c[2] \in tasks[c[1]]
                                    /\ c[2].hotel = h
                                    /\ c[2].pc \in {"post", "failure"}}

\* Whether there is something to claim.
Claimable(h) == IF Matching(h, SYNCSTATE) = {} THEN 0 ELSE 1

\* A bill of today, a claim that may become one, rows that may be claimed:
\* what is more than one of them has taken a fault.
Account(h) ==
    /\ IsFiniteSet(Claims(h))
    /\ bills[h][day] + Cardinality(Claims(h)) + Claimable(h) <= 1 + faults

\* Rules are copied at midnight, before there is any bill of the day or any
\* bill task; the hourly runs have bill tasks only.
SlotInv ==
    /\ \A n \in Nodes : \A t \in tasks[n] :
          t.pc \in IF slot = 0 THEN SyncSteps ELSE BillSteps
    /\ slot = 0 => \A h \in Hotels : bills[h][day] = 0
    /\ \A h \in Hotels, d \in Days : d > day => bills[h][d] = 0

\* Inductive together with TypeOK.
AccountInv == AtMostOneBillPerFault /\ SlotInv /\ \A h \in Hotels : Account(h)

\* Removing or adding one element of a finite set, or less.
LEMMA SmallerSet ==
    ASSUME NEW S, IsFiniteSet(S), NEW T \in SUBSET S
    PROVE  IsFiniteSet(T) /\ Cardinality(T) \in Nat /\ Cardinality(T) <= Cardinality(S)
           /\ Cardinality(S) \in Nat
  BY FS_Subset, FS_CardinalityType

LEMMA OneLess ==
    ASSUME NEW S, IsFiniteSet(S), NEW x \in S, NEW T \in SUBSET (S \ {x})
    PROVE  IsFiniteSet(T) /\ Cardinality(T) + 1 <= Cardinality(S)
<1>1. IsFiniteSet(S \ {x}) /\ Cardinality(S \ {x}) = Cardinality(S) - 1
  BY FS_RemoveElement
<1>2. IsFiniteSet(T) /\ Cardinality(T) <= Cardinality(S \ {x})
      /\ Cardinality(T) \in Nat /\ Cardinality(S \ {x}) \in Nat
  BY <1>1, SmallerSet
<1>3. Cardinality(S) \in Nat
  BY SmallerSet
<1>4. QED
  BY <1>1, <1>2, <1>3

LEMMA OneMore ==
    ASSUME NEW S, IsFiniteSet(S), NEW x, NEW T \in SUBSET (S \cup {x})
    PROVE  IsFiniteSet(T) /\ Cardinality(T) <= Cardinality(S) + 1
<1>1. IsFiniteSet(S \cup {x}) /\ Cardinality(S) \in Nat
      /\ Cardinality(S \cup {x}) \in {Cardinality(S), Cardinality(S) + 1}
  BY FS_AddElement, FS_CardinalityType
<1>2. IsFiniteSet(T) /\ Cardinality(T) <= Cardinality(S \cup {x})
      /\ Cardinality(T) \in Nat
  BY <1>1, SmallerSet
<1>3. QED
  BY <1>1, <1>2

\* What a task's step does to the claims of a hotel.
LEMMA AdvanceClaims ==
    ASSUME TypeOK, NEW n \in Nodes, NEW t \in tasks[n], NEW h \in Hotels,
           NEW pc \in SyncSteps \cup BillSteps, pc # t.pc, Advance(n, t, pc),
           IsFiniteSet(Claims(h))
    PROVE  /\ IsFiniteSet(Claims(h)')
           /\ Cardinality(Claims(h)') \in Nat /\ Cardinality(Claims(h)) \in Nat
           /\ Cardinality(Claims(h)') <= Cardinality(Claims(h)) + 1
           /\ t.hotel # h \/ pc \notin {"post", "failure"}
                 => Cardinality(Claims(h)') <= Cardinality(Claims(h))
           /\ t.hotel = h /\ t.pc = "post"
                 => /\ Cardinality(Claims(h)') <= Cardinality(Claims(h))
                    /\ pc # "failure"
                          => Cardinality(Claims(h)') + 1 <= Cardinality(Claims(h))
<1> DEFINE new == [t EXCEPT !.pc = pc]
           rest == Claims(h) \ {<<n, t>>}
<1>1. t \in Task /\ new \in Task /\ new.pc = pc /\ new.hotel = t.hotel /\ new # t
  BY DEF TypeOK, Task
<1> HIDE DEF new
<1>2. tasks' = [tasks EXCEPT ![n] = (tasks[n] \ {t}) \cup {new}]
  BY DEF Advance, new
<1>3. \A c \in Claims(h)' : c \in rest \/ c = <<n, new>>
  BY <1>1, <1>2 DEF Claims, TypeOK
<1>4. IsFiniteSet(rest) /\ Cardinality(rest) <= Cardinality(Claims(h))
      /\ Cardinality(rest) \in Nat /\ Cardinality(Claims(h)) \in Nat
  BY SmallerSet
<1>5. t.hotel = h /\ t.pc = "post" => Cardinality(rest) + 1 <= Cardinality(Claims(h))
  <2> SUFFICES ASSUME t.hotel = h, t.pc = "post"
               PROVE  Cardinality(rest) + 1 <= Cardinality(Claims(h))
    OBVIOUS
  <2>1. <<n, t>> \in Claims(h)
    BY <1>1 DEF Claims
  <2>2. QED
    BY <2>1, OneLess
<1>6. t.hotel # h \/ pc \notin {"post", "failure"} => <<n, new>> \notin Claims(h)'
  BY <1>1 DEF Claims
<1> HIDE DEF rest
<1>7. IsFiniteSet(Claims(h)') /\ Cardinality(Claims(h)') <= Cardinality(rest) + 1
  BY <1>3, <1>4, OneMore
<1>8. t.hotel # h \/ pc \notin {"post", "failure"} => Cardinality(Claims(h)') <= Cardinality(rest)
  <2> SUFFICES ASSUME t.hotel # h \/ pc \notin {"post", "failure"}
               PROVE  Cardinality(Claims(h)') <= Cardinality(rest)
    OBVIOUS
  <2>1. Claims(h)' \in SUBSET rest
    BY <1>3, <1>6
  <2>2. QED
    BY <1>4, <2>1, SmallerSet
<1>9. Cardinality(Claims(h)') \in Nat
  BY <1>7, FS_CardinalityType
<1>10. pc # "failure" /\ t.pc = "post" => pc \notin {"post", "failure"}
  OBVIOUS
<1>11. QED
  BY <1>4, <1>5, <1>7, <1>8, <1>9, <1>10

\* A task that ends claims nothing any more.
LEMMA FinishClaims ==
    ASSUME TypeOK, NEW n \in Nodes, NEW t \in tasks[n], NEW h \in Hotels, Finish(n, t),
           IsFiniteSet(Claims(h))
    PROVE  /\ IsFiniteSet(Claims(h)')
           /\ Cardinality(Claims(h)') \in Nat /\ Cardinality(Claims(h)) \in Nat
           /\ Cardinality(Claims(h)') <= Cardinality(Claims(h))
           /\ t.hotel = h /\ t.pc = "failure"
                 => Cardinality(Claims(h)') + 1 <= Cardinality(Claims(h))
<1>1. t \in Task /\ tasks' = [tasks EXCEPT ![n] = tasks[n] \ {t}]
  BY DEF TypeOK, Finish
<1>2. Claims(h)' \in SUBSET (Claims(h) \ {<<n, t>>})
  BY <1>1 DEF Claims, TypeOK
<1>3. IsFiniteSet(Claims(h)') /\ Cardinality(Claims(h)') \in Nat
      /\ Cardinality(Claims(h)) \in Nat /\ Cardinality(Claims(h)') <= Cardinality(Claims(h))
  BY <1>2, SmallerSet
<1>4. t.hotel = h /\ t.pc = "failure" => <<n, t>> \in Claims(h)
  BY <1>1 DEF Claims
<1>5. QED
  BY <1>2, <1>3, <1>4, OneLess

\* Rows to claim appear only when a statement moves rows to SYNCSTATE, and are
\* gone when all of them are claimed.
LEMMA UpdateStateClaimable ==
    ASSUME TypeOK, NEW g \in Hotels, NEW h \in Hotels,
           NEW to \in {SYNCSTATE, PREBILLSTATE, BILLSTATE},
           NEW from, UpdateState(g, to, from)
    PROVE  /\ h # g \/ to # SYNCSTATE => Claimable(h)' <= Claimable(h)
           /\ h = g /\ to # SYNCSTATE /\ from = SYNCSTATE => Claimable(h)' = 0
<1>1. \A r \in RuleIds :
         /\ rule'[r] = NoRule <=> rule[r] = NoRule
         /\ rule[r] # NoRule => rule'[r].hotel = rule[r].hotel /\ rule'[r].eff = rule[r].eff
         /\ r \in Matching(g, from) => rule'[r].state = to
         /\ r \notin Matching(g, from) => rule'[r] = rule[r]
  BY UpdateStateRows
<1>2. \A r \in Matching(g, from) : rule[r] # NoRule /\ rule[r].hotel = g
  BY DEF Matching
<1>3. h # g \/ to # SYNCSTATE => Matching(h, SYNCSTATE)' \subseteq Matching(h, SYNCSTATE)
  BY <1>1, <1>2 DEF Matching
<1>4. h = g /\ to # SYNCSTATE /\ from = SYNCSTATE => Matching(h, SYNCSTATE)' = {}
  BY <1>1 DEF Matching
<1>5. QED
  BY <1>3, <1>4 DEF Claimable

\* The numbers an account is about.
LEMMA AccountNumbers ==
    ASSUME TypeOK, NEW h \in Hotels
    PROVE  day \in Days /\ faults \in Nat /\ \A d \in Days : bills[h][d] \in Nat
  BY DEF TypeOK

\* Steps that make no bill, no claim and nothing to claim, and put no task of
\* the other kind into a pool.
LEMMA QuietStep ==
    ASSUME TypeOK, TypeOK', AccountInv, UNCHANGED <<day, slot, bills>>, faults <= faults',
           \A m \in Nodes : \A u \in tasks'[m] :
              \/ u \in tasks[m]
              \/ /\ u.pc \notin {"post", "failure"}
                 /\ u.pc \in IF slot = 0 THEN SyncSteps ELSE BillSteps,
           \A h \in Hotels : Claimable(h)' <= Claimable(h)
    PROVE  AccountInv'
<1>1. SlotInv'
  BY DEF AccountInv, SlotInv
<1>2. AtMostOneBillPerFault'
  <2>1. \A h \in Hotels, d \in Days : bills[h][d] \in Nat /\ bills[h][d] <= 1 + faults
    BY AccountNumbers DEF AccountInv, AtMostOneBillPerFault
  <2>2. faults \in Nat /\ faults' \in Nat
    BY DEF TypeOK
  <2>3. QED
    BY <2>1, <2>2 DEF AtMostOneBillPerFault
<1>3. ASSUME NEW h \in Hotels PROVE Account(h)'
  <2>1. Claims(h)' \in SUBSET Claims(h)
    BY DEF Claims
  <2>2. IsFiniteSet(Claims(h)') /\ Cardinality(Claims(h)') \in Nat
        /\ Cardinality(Claims(h)) \in Nat /\ Cardinality(Claims(h)') <= Cardinality(Claims(h))
    BY <2>1, SmallerSet DEF AccountInv, Account
  <2>3. Claimable(h) \in {0, 1} /\ Claimable(h)' \in {0, 1}
    BY DEF Claimable
  <2>4. bills[h][day] \in Nat /\ faults \in Nat /\ faults' \in Nat
    BY AccountNumbers DEF TypeOK
  <2>5. bills[h][day] + Cardinality(Claims(h)) + Claimable(h) <= 1 + faults
    BY DEF AccountInv, Account
  <2>6. Claimable(h)' <= Claimable(h)
    OBVIOUS
  <2>7. bills[h][day] + Cardinality(Claims(h)') + Claimable(h)' <= 1 + faults'
    BY <2>2, <2>3, <2>4, <2>5, <2>6
  <2>8. QED
    BY <2>2, <2>7 DEF Account
<1>4. QED
  BY <1>1, <1>2, <1>3 DEF AccountInv

LEMMA RequestKeepsAccount ==
    ASSUME TypeOK, TypeOK', AccountInv, NEW n \in Nodes,
           \/ \E h \in Hotels, code \in RuleCodes : SaveHotelRule(n, h, code)
           \/ RequestStep(n)
           \/ RequestFails(n)
    PROVE  AccountInv'
<1>1. UNCHANGED <<day, slot, bills, tasks>>
  BY DEF SaveHotelRule, RequestStep, ComputeEffectDate, InsertHotelRule,
         UpdateHotelRuleToA, RequestFails, clock
<1>2. faults <= faults'
  <2>1. faults' = faults \/ faults' = faults + 1
    <3>1. CASE RequestFails(n)
      BY <3>1 DEF RequestFails, Fault
    <3>2. CASE ~RequestFails(n)
      BY <3>2 DEF SaveHotelRule, RequestStep, ComputeEffectDate, InsertHotelRule,
                  UpdateHotelRuleToA
    <3>3. QED
      BY <3>1, <3>2
  <2>2. QED
    BY <2>1 DEF TypeOK
<1>3. \A h \in Hotels : Matching(h, SYNCSTATE)' \subseteq Matching(h, SYNCSTATE)
  <2>1. CASE UNCHANGED rule
    BY <2>1 DEF Matching
  <2>2. CASE InsertHotelRule(n)
    <3> DEFINE row == [hotel |-> req[n].hotel, eff |-> req[n].eff, state |-> INITSTATE]
    <3>1. row.state # SYNCSTATE
      BY DEF INITSTATE, SYNCSTATE
    <3> HIDE DEF row
    <3>2. \E r \in RuleIds : rule' = [rule EXCEPT ![r] = row]
      BY <2>2 DEF InsertHotelRule, row
    <3>3. QED
      BY <3>1, <3>2 DEF Matching, TypeOK
  <2>3. CASE UpdateHotelRuleToA(n)
    <3>1. \A r \in RuleIds : \/ rule'[r] = rule[r]
                             \/ rule[r] # NoRule /\ rule'[r] = [rule[r] EXCEPT !.eff = NullDate]
      BY <2>3 DEF UpdateHotelRuleToA
    <3>2. \A r \in RuleIds : rule'[r] = rule[r] \/ rule'[r].eff = NullDate
      BY <3>1 DEF TypeOK, Row
    <3>3. QED
      BY <3>2 DEF Matching
  <2>4. QED
    BY <2>1, <2>2, <2>3 DEF SaveHotelRule, RequestStep, ComputeEffectDate, RequestFails
<1>4. \A h \in Hotels : Claimable(h)' <= Claimable(h)
  BY <1>3 DEF Claimable
<1>5. QED
  BY <1>1, <1>2, <1>4, QuietStep

LEMMA JobKeepsAccount ==
    ASSUME TypeOK, TypeOK', AccountInv, NEW n \in Nodes, Job(n)
    PROVE  AccountInv'
<1>1. UNCHANGED <<day, slot, bills, rule, faults>>
  BY DEF Job, HotelRuleJob, BillRuleJob
<1>2. \A h \in Hotels : Claimable(h)' <= Claimable(h)
  BY <1>1 DEF Claimable, Matching
<1>3. faults <= faults'
  BY <1>1 DEF TypeOK
<1>4. \A m \in Nodes : \A u \in tasks'[m] :
         \/ u \in tasks[m]
         \/ /\ u.pc \notin {"post", "failure"}
            /\ u.pc \in IF slot = 0 THEN SyncSteps ELSE BillSteps
  <2>1. CASE HotelRuleJob(n)
    <3>1. slot = 0 /\ "updateThotel" \in SyncSteps /\ Submit(n, GetHMSHotelRuleList(INITSTATE), "updateThotel")
      BY <2>1 DEF HotelRuleJob, SyncSteps
    <3>2. QED
      BY <3>1, SubmitTasks
  <2>2. CASE BillRuleJob(n)
    <3>1. slot # 0 /\ "lock" \in BillSteps /\ Submit(n, GetHMSHotelRuleList(SYNCSTATE), "lock")
      BY <2>2 DEF BillRuleJob, BillSteps, TypeOK
    <3>2. QED
      BY <3>1, SubmitTasks
  <2>3. QED
    BY <2>1, <2>2 DEF Job
<1>5. QED
  BY <1>1, <1>2, <1>3, <1>4, QuietStep

LEMMA SyncKeepsAccount ==
    ASSUME TypeOK, TypeOK', AccountInv, NEW n \in Nodes, NEW t \in tasks[n], SyncStep(n, t)
    PROVE  AccountInv'
<1>1. slot = 0 /\ t.pc \in SyncSteps /\ t.hotel \in Hotels
  <2>1. t.pc \in SyncSteps
    BY DEF SyncStep, UpdateThotel, UpdateEhotel, SyncState, SyncSteps
  <2>2. t.hotel \in Hotels
    BY DEF TypeOK, Task
  <2>3. t.pc \in IF slot = 0 THEN SyncSteps ELSE BillSteps
    BY DEF AccountInv, SlotInv
  <2>4. QED
    BY <2>1, <2>2, <2>3 DEF SyncSteps, BillSteps
<1>2. UNCHANGED <<day, slot, bills, faults>>
  BY DEF SyncStep, UpdateThotel, UpdateEhotel, SyncState, clock
<1>3. CASE SyncState(n, t)
  <2>1. \A m \in Nodes : tasks'[m] \subseteq tasks[m]
    BY <1>3, FinishTasks DEF SyncState
  <2>2. SlotInv'
    BY <1>2, <2>1 DEF AccountInv, SlotInv
  <2>3. AtMostOneBillPerFault'
    BY <1>2 DEF AccountInv, AtMostOneBillPerFault
  <2>4. ASSUME NEW h \in Hotels PROVE Account(h)'
    <3>1. Claims(h)' = {} /\ bills'[h][day'] = 0
      BY <1>1, <1>2, <2>2 DEF Claims, SlotInv, SyncSteps
    <3>2. IsFiniteSet(Claims(h)') /\ Cardinality(Claims(h)') = 0
      BY <3>1, FS_EmptySet
    <3>3. Claimable(h)' \in {0, 1} /\ faults' \in Nat
      BY DEF Claimable, TypeOK
    <3>4. QED
      BY <3>1, <3>2, <3>3 DEF Account
  <2>5. QED
    BY <2>2, <2>3, <2>4 DEF AccountInv
<1>4. CASE UpdateThotel(n, t) \/ UpdateEhotel(n, t)
  <2>1. PICK pc \in {"updateEhotel", "updateState"} : Advance(n, t, pc)
    BY <1>4 DEF UpdateThotel, UpdateEhotel
  <2>2. \A m \in Nodes : \A u \in tasks'[m] :
           u \in tasks[m] \/ u.pc \in {"updateEhotel", "updateState"}
    BY <2>1, AdvanceTasks DEF SyncSteps
  <2>3. rule' = rule
    BY <1>4 DEF UpdateThotel, UpdateEhotel
  <2>4. \A h \in Hotels : Claimable(h)' <= Claimable(h)
    BY <2>3 DEF Claimable, Matching
  <2>5. faults <= faults'
    BY <1>2 DEF TypeOK
  <2>6. \A m \in Nodes : \A u \in tasks'[m] :
           \/ u \in tasks[m]
           \/ /\ u.pc \notin {"post", "failure"}
              /\ u.pc \in IF slot = 0 THEN SyncSteps ELSE BillSteps
    BY <1>1, <2>2 DEF SyncSteps
  <2>7. QED
    BY <1>2, <2>4, <2>5, <2>6, QuietStep
<1>5. QED
  BY <1>3, <1>4 DEF SyncStep

\* A task of the bill service, in an hourly run.
LEMMA BillTask ==
    ASSUME TypeOK, AccountInv, NEW n \in Nodes, NEW t \in tasks[n],
           t.pc \in {"lock", "post", "success", "failure"}
    PROVE  slot # 0 /\ t.hotel \in Hotels
<1>1. t.pc \in IF slot = 0 THEN SyncSteps ELSE BillSteps
  BY DEF AccountInv, SlotInv
<1>2. QED
  BY <1>1 DEF TypeOK, Task, SyncSteps

\* The pools of an hourly run hold bill tasks after a bill task's step, too.
LEMMA BillSlot ==
    ASSUME TypeOK, AccountInv, slot # 0, UNCHANGED <<day, slot>>,
           \A m \in Nodes : \A u \in tasks'[m] : u \in tasks[m] \/ u.pc \in BillSteps,
           \A h \in Hotels, d \in Days : d # day => bills'[h][d] = bills[h][d]
    PROVE  SlotInv'
<1>1. \A h \in Hotels, d \in Days : d > day => d # day
  BY DEF TypeOK, Days
<1>2. QED
  BY <1>1 DEF AccountInv, SlotInv

\* No bill has been made: no hotel has too many.
LEMMA SameBills ==
    ASSUME TypeOK, TypeOK', AccountInv, bills' = bills, faults <= faults'
    PROVE  AtMostOneBillPerFault'
<1>1. \A h \in Hotels, d \in Days : bills[h][d] \in Nat /\ bills[h][d] <= 1 + faults
  BY AccountNumbers DEF AccountInv, AtMostOneBillPerFault
<1>2. faults \in Nat /\ faults' \in Nat
  BY DEF TypeOK
<1>3. QED
  BY <1>1, <1>2 DEF AtMostOneBillPerFault

\* A task claims what can be claimed: it may become a bill, but nothing is
\* left to claim.
LEMMA LockKeepsAccount ==
    ASSUME TypeOK, TypeOK', AccountInv, NEW n \in Nodes, NEW t \in tasks[n], BillLock(n, t)
    PROVE  AccountInv'
<1>1. /\ t.pc = "lock" /\ Advance(n, t, "post")
      /\ UpdateState(t.hotel, PREBILLSTATE, SYNCSTATE)
      /\ Matching(t.hotel, SYNCSTATE) # {}
      /\ UNCHANGED <<day, slot, bills, faults>>
  BY DEF BillLock, clock
<1>2. slot # 0 /\ t.hotel \in Hotels
  BY <1>1, BillTask
<1>3. SlotInv'
  <2>1. \A m \in Nodes : \A u \in tasks'[m] : u \in tasks[m] \/ u.pc \in BillSteps
    BY <1>1, AdvanceTasks DEF BillSteps
  <2>2. QED
    BY <1>1, <1>2, <2>1, BillSlot
<1>4. AtMostOneBillPerFault'
  BY <1>1 DEF AccountInv, AtMostOneBillPerFault
<1>5. ASSUME NEW h \in Hotels PROVE Account(h)'
  <2>1. Account(h)
    BY DEF AccountInv
  <2>2. /\ IsFiniteSet(Claims(h)')
        /\ Cardinality(Claims(h)') \in Nat /\ Cardinality(Claims(h)) \in Nat
        /\ Cardinality(Claims(h)') <= Cardinality(Claims(h)) + 1
        /\ t.hotel # h => Cardinality(Claims(h)') <= Cardinality(Claims(h))
    <3>1. "post" \in BillSteps /\ "post" # t.pc
      BY <1>1 DEF BillSteps
    <3>2. QED
      BY <1>1, <2>1, <3>1, AdvanceClaims DEF Account
  <2>3. /\ t.hotel # h => Claimable(h)' <= Claimable(h)
        /\ t.hotel = h => Claimable(h)' = 0 /\ Claimable(h) = 1
    <3>1. PREBILLSTATE # SYNCSTATE
      BY DEF PREBILLSTATE, SYNCSTATE
    <3>2. QED
      BY <1>1, <1>2, <3>1, UpdateStateClaimable DEF Claimable
  <2>4. Claimable(h) \in {0, 1} /\ Claimable(h)' \in {0, 1}
    BY DEF Claimable
  <2>5. bills[h][day] \in Nat /\ faults \in Nat
        /\ bills[h][day] + Cardinality(Claims(h)) + Claimable(h) <= 1 + faults
    BY <2>1, AccountNumbers DEF Account
  <2>6. bills[h][day] + Cardinality(Claims(h)') + Claimable(h)' <= 1 + faults
    <3>1. CASE t.hotel = h
      BY <2>2, <2>3, <2>5, <3>1
    <3>2. CASE t.hotel # h
      BY <2>2, <2>3, <2>4, <2>5, <3>2
    <3>3. QED
      BY <3>1, <3>2
  <2>7. QED
    BY <1>1, <2>2, <2>6 DEF Account
<1>6. QED
  BY <1>3, <1>4, <1>5 DEF AccountInv

\* A claim becomes a bill, or fails, or both: in the last two cases there is
\* a fault for it.
LEMMA PostKeepsAccount ==
    ASSUME TypeOK, TypeOK', AccountInv, NEW n \in Nodes, NEW t \in tasks[n],
           PostSucceeds(n, t) \/ PostFails(n, t) \/ PostReplyLost(n, t)
    PROVE  AccountInv'
<1>1. /\ t.pc = "post"
      /\ UNCHANGED <<day, slot, rule>>
      /\ \/ MakeBill(t.hotel) /\ Advance(n, t, "success") /\ faults' = faults
         \/ bills' = bills /\ Advance(n, t, "failure") /\ faults' = faults + 1
         \/ MakeBill(t.hotel) /\ Advance(n, t, "failure") /\ faults' = faults + 1
  BY DEF PostSucceeds, PostFails, PostReplyLost, Fault, clock
<1>2. slot # 0 /\ t.hotel \in Hotels /\ day \in Days /\ faults \in Nat
      /\ \A h \in Hotels : \A d \in Days : bills[h][d] \in Nat
  BY <1>1, BillTask, AccountNumbers DEF TypeOK
<1>3. MakeBill(t.hotel) =>
         /\ bills'[t.hotel][day] = bills[t.hotel][day] + 1
         /\ \A h \in Hotels : \A d \in Days :
               h # t.hotel \/ d # day => bills'[h][d] = bills[h][d]
  <2>1. bills \in [Hotels -> [Days -> Nat]] /\ bills[t.hotel] \in [Days -> Nat]
    BY <1>2 DEF TypeOK
  <2>2. MakeBill(t.hotel) =>
           bills' = [bills EXCEPT ![t.hotel] = [bills[t.hotel] EXCEPT ![day] = bills[t.hotel][day] + 1]]
    BY <1>2, <2>1 DEF MakeBill
  <2>3. QED
    BY <1>2, <2>1, <2>2
<1>4. \A h \in Hotels : \A d \in Days :
         h # t.hotel \/ d # day => bills'[h][d] = bills[h][d]
  BY <1>1, <1>3
<1>5. SlotInv'
  <2>1. \A m \in Nodes : \A u \in tasks'[m] : u \in tasks[m] \/ u.pc \in BillSteps
    BY <1>1, AdvanceTasks DEF BillSteps
  <2>2. QED
    BY <1>1, <1>2, <1>4, <2>1, BillSlot
<1>6. ASSUME NEW h \in Hotels
      PROVE  Account(h)' /\ (h = t.hotel => bills'[h][day] <= 1 + faults')
  <2>1. Account(h)
    BY DEF AccountInv
  <2>2. PICK pc \in {"success", "failure"} :
           /\ Advance(n, t, pc)
           /\ pc = "success" => MakeBill(t.hotel) /\ faults' = faults
           /\ pc = "failure" => faults' = faults + 1
    BY <1>1
  <2>3. /\ IsFiniteSet(Claims(h)')
        /\ Cardinality(Claims(h)') \in Nat /\ Cardinality(Claims(h)) \in Nat
        /\ Cardinality(Claims(h)') <= Cardinality(Claims(h)) + 1
        /\ t.hotel # h => Cardinality(Claims(h)') <= Cardinality(Claims(h))
        /\ t.hotel = h => Cardinality(Claims(h)') <= Cardinality(Claims(h))
        /\ t.hotel = h /\ pc = "success"
              => Cardinality(Claims(h)') + 1 <= Cardinality(Claims(h))
    <3>1. pc \in BillSteps /\ pc # t.pc
      BY <1>1 DEF BillSteps
    <3>2. QED
      BY <1>1, <2>1, <2>2, <3>1, AdvanceClaims DEF Account
  <2>4. Claimable(h) \in {0, 1} /\ Claimable(h)' = Claimable(h)
    BY <1>1 DEF Claimable, Matching
  <2>5. bills[h][day] \in Nat
        /\ bills[h][day] + Cardinality(Claims(h)) + Claimable(h) <= 1 + faults
    BY <1>2, <2>1 DEF Account
  <2>6. bills'[h][day] \in {bills[h][day], bills[h][day] + 1}
        /\ (h # t.hotel => bills'[h][day] = bills[h][day])
    BY <1>1, <1>2, <1>3
  <2>7. bills'[h][day] + Cardinality(Claims(h)') + Claimable(h)' <= 1 + faults'
        /\ bills'[h][day] <= 1 + faults'
    <3>1. CASE pc = "success"
      BY <1>2, <2>2, <2>3, <2>4, <2>5, <2>6, <3>1
    <3>2. CASE pc = "failure"
      BY <1>2, <2>2, <2>3, <2>4, <2>5, <2>6, <3>2
    <3>3. QED
      BY <3>1, <3>2
  <2>8. QED
    BY <1>1, <2>3, <2>7 DEF Account
<1>7. AtMostOneBillPerFault'
  <2>1. \A h \in Hotels, d \in Days : bills[h][d] <= 1 + faults
    BY DEF AccountInv, AtMostOneBillPerFault
  <2>2. \A h \in Hotels, d \in Days : bills[h][d] <= 1 + faults'
    BY <1>1, <1>2, <2>1
  <2>3. QED
    BY <1>4, <1>6, <2>2 DEF AtMostOneBillPerFault
<1>8. QED
  BY <1>5, <1>6, <1>7 DEF AccountInv

\* A failed claim becomes something to claim again.
LEMMA FailureKeepsAccount ==
    ASSUME TypeOK, TypeOK', AccountInv, NEW n \in Nodes, NEW t \in tasks[n], BillFailure(n, t)
    PROVE  AccountInv'
<1>1. /\ t.pc = "failure" /\ Finish(n, t)
      /\ UpdateState(t.hotel, SYNCSTATE, PREBILLSTATE)
      /\ UNCHANGED <<day, slot, bills, faults>>
  BY DEF BillFailure, clock
<1>2. slot # 0 /\ t.hotel \in Hotels
  BY <1>1, BillTask
<1>3. SlotInv'
  BY <1>1, <1>2, FinishTasks, BillSlot
<1>4. AtMostOneBillPerFault'
  BY <1>1 DEF AccountInv, AtMostOneBillPerFault
<1>5. ASSUME NEW h \in Hotels PROVE Account(h)'
  <2>1. Account(h)
    BY DEF AccountInv
  <2>2. /\ IsFiniteSet(Claims(h)')
        /\ Cardinality(Claims(h)') \in Nat /\ Cardinality(Claims(h)) \in Nat
        /\ Cardinality(Claims(h)') <= Cardinality(Claims(h))
        /\ t.hotel = h => Cardinality(Claims(h)') + 1 <= Cardinality(Claims(h))
    BY <1>1, <2>1, FinishClaims DEF Account
  <2>3. t.hotel # h => Claimable(h)' <= Claimable(h)
    BY <1>1, <1>2, UpdateStateClaimable
  <2>4. Claimable(h) \in {0, 1} /\ Claimable(h)' \in {0, 1}
    BY DEF Claimable
  <2>5. bills[h][day] \in Nat /\ faults \in Nat
        /\ bills[h][day] + Cardinality(Claims(h)) + Claimable(h) <= 1 + faults
    BY <2>1, AccountNumbers DEF Account
  <2>6. bills[h][day] + Cardinality(Claims(h)') + Claimable(h)' <= 1 + faults
    <3>1. CASE t.hotel = h
      BY <2>2, <2>4, <2>5, <3>1
    <3>2. CASE t.hotel # h
      BY <2>2, <2>3, <2>4, <2>5, <3>2
    <3>3. QED
      BY <3>1, <3>2
  <2>7. QED
    BY <1>1, <2>2, <2>6 DEF Account
<1>6. QED
  BY <1>3, <1>4, <1>5 DEF AccountInv

\* The other ends of a task, and of a node.
LEMMA EndKeepsAccount ==
    ASSUME TypeOK, TypeOK', AccountInv, NEW n \in Nodes,
           \/ \E t \in tasks[n] : BillSkip(n, t) \/ BillSuccess(n, t) \/ TaskFails(n, t)
           \/ Crash(n) \/ Restart(n)
    PROVE  AccountInv'
<1>1. UNCHANGED <<day, slot, bills>>
  BY DEF BillSkip, BillSuccess, TaskFails, Crash, Restart, clock
<1>2. faults <= faults'
  <2>1. faults' = faults \/ faults' = faults + 1
    BY DEF BillSkip, BillSuccess, TaskFails, Crash, Restart, Fault
  <2>2. QED
    BY <2>1 DEF TypeOK
<1>3. \A m \in Nodes : tasks'[m] \subseteq tasks[m]
  <2>1. CASE \E t \in tasks[n] : BillSkip(n, t) \/ BillSuccess(n, t) \/ TaskFails(n, t)
    BY <2>1, FinishTasks DEF BillSkip, BillSuccess, TaskFails
  <2>2. CASE Crash(n) \/ Restart(n)
    BY <2>2 DEF Crash, Restart, TypeOK
  <2>3. QED
    BY <2>1, <2>2
<1>4. ASSUME NEW h \in Hotels PROVE Claimable(h)' <= Claimable(h)
  <2>1. CASE UNCHANGED rule
    BY <2>1 DEF Claimable, Matching
  <2>2. ASSUME NEW t \in tasks[n], BillSuccess(n, t) PROVE Claimable(h)' <= Claimable(h)
    <3>1. t.hotel \in Hotels /\ UpdateState(t.hotel, BILLSTATE, PREBILLSTATE)
          /\ BILLSTATE # SYNCSTATE
      BY <2>2 DEF BillSuccess, TypeOK, Task, BILLSTATE, SYNCSTATE
    <3>2. QED
      BY <3>1, UpdateStateClaimable
  <2>3. QED
    BY <2>1, <2>2 DEF BillSkip, TaskFails, Crash, Restart
<1>5. QED
  BY <1>1, <1>2, <1>3, <1>4, QuietStep

\* A new day has no bills, and no tasks are left from the old one.
LEMMA TickKeepsAccount ==
    ASSUME TypeOK, TypeOK', AccountInv, Tick
    PROVE  AccountInv'
<1>1. /\ \A n \in Nodes : tasks[n] = {} /\ tasks'[n] = {}
      /\ UNCHANGED <<rule, bills, faults>>
      /\ \/ day' = day /\ slot' # 0
         \/ day' \in Days /\ day' = day + 1
  BY DEF Tick, TypeOK, Days
<1>2. SlotInv'
  <2>1. \A h \in Hotels, d \in Days : d > day => bills[h][d] = 0
    BY DEF AccountInv, SlotInv
  <2>2. slot' = 0 => day' > day /\ day' \in Days
    BY <1>1 DEF TypeOK, Days
  <2>3. \A d \in Days : d > day' => d > day
    BY <1>1 DEF TypeOK, Days
  <2>4. slot' = 0 => \A h \in Hotels : bills[h][day'] = 0
    BY <1>1, <2>1, <2>2
  <2>5. QED
    BY <1>1, <2>1, <2>3, <2>4 DEF SlotInv
<1>3. AtMostOneBillPerFault'
  BY <1>1 DEF AccountInv, AtMostOneBillPerFault
<1>4. ASSUME NEW h \in Hotels PROVE Account(h)'
  <2>1. Claims(h) = {} /\ Claims(h)' = {}
    BY <1>1 DEF Claims
  <2>2. IsFiniteSet({}) /\ Cardinality({}) = 0
    BY FS_EmptySet
  <2>3. Claimable(h)' = Claimable(h) /\ Claimable(h) \in {0, 1} /\ faults \in Nat
    BY <1>1 DEF Claimable, Matching, TypeOK
  <2>4. bills[h][day] + Claimable(h) <= 1 + faults /\ bills[h][day] \in Nat
    <3>1. bills[h][day] + Cardinality(Claims(h)) + Claimable(h) <= 1 + faults
      BY DEF AccountInv, Account
    <3>2. bills[h][day] \in Nat /\ Cardinality(Claims(h)) = 0
      BY <2>1, <2>2, AccountNumbers
    <3>3. QED
      BY <2>3, <3>1, <3>2
  <2>5. bills'[h][day'] \in {0, bills[h][day]}
    BY <1>1 DEF AccountInv, SlotInv, TypeOK, Days
  <2>6. bills'[h][day'] + Cardinality(Claims(h)') + Claimable(h)' <= 1 + faults'
    BY <1>1, <2>1, <2>2, <2>3, <2>4, <2>5
  <2>7. QED
    BY <2>1, <2>2, <2>6 DEF Account
<1>5. QED
  BY <1>2, <1>3, <1>4 DEF AccountInv

LEMMA InitAccount == Init => AccountInv
<1> SUFFICES ASSUME Init PROVE AccountInv
  OBVIOUS
<1>1. \A h \in Hotels, d \in Days : bills[h][d] = 0
  BY DEF Init
<1>2. AtMostOneBillPerFault /\ SlotInv
  BY <1>1 DEF Init, AtMostOneBillPerFault, SlotInv, Days
<1>3. ASSUME NEW h \in Hotels PROVE Account(h)
  <2>1. Claims(h) = {}
    BY DEF Init, Claims
  <2>2. Claimable(h) = 0
    BY DEF Init, Claimable, Matching
  <2>3. bills[h][day] = 0 /\ faults = 0
    BY <1>1 DEF Init, Days
  <2>4. QED
    BY <2>1, <2>2, <2>3, FS_EmptySet DEF Account
<1>4. QED
  BY <1>2, <1>3 DEF AccountInv

LEMMA NextAccount == TypeOK /\ TypeOK' /\ AccountInv /\ [Next]_vars => AccountInv'
<1> SUFFICES ASSUME TypeOK, TypeOK', AccountInv, [Next]_vars PROVE AccountInv'
  OBVIOUS
<1>1. CASE UNCHANGED vars
  <2>1. \A h \in Hotels : Claimable(h)' <= Claimable(h)
    BY <1>1 DEF vars, Claimable, Matching
  <2>2. faults <= faults'
    BY <1>1 DEF vars, TypeOK
  <2>3. QED
    BY <1>1, <2>1, <2>2, QuietStep DEF vars
<1>2. ASSUME NEW n \in Nodes, NEW t \in tasks[n], BillStep(n, t) \/ TaskFault(n, t)
      PROVE  AccountInv'
  BY <1>2, LockKeepsAccount, PostKeepsAccount, FailureKeepsAccount, EndKeepsAccount
     DEF BillStep, TaskFault
<1>3. QED
  BY <1>1, <1>2, RequestKeepsAccount, JobKeepsAccount, SyncKeepsAccount, EndKeepsAccount,
     TickKeepsAccount DEF Next

\* However many nodes, rows and hourly runs there are, a hotel gets no second
\* early bill on a day without a fault (executeBillTask's claim).
THEOREM SpecAtMostOneBillPerFault == Spec => []AtMostOneBillPerFault
<1>1. AccountInv => AtMostOneBillPerFault
  BY DEF AccountInv
<1>2. QED
  BY <1>1, InitAccount, NextAccount, SpecTypeOK, PTL DEF Spec
=============================================================================
