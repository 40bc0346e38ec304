------------------------------ MODULE HotelRule ------------------------------
(***************************************************************************)
(* Changing a hotel's settlement rule, and the two timed jobs that carry   *)
(* the change out.                                                         *)
(*                                                                         *)
(* HotelMessageController.saveHotelRule stores the rule the user picked in *)
(* the draft hotel (e_hotel).  Going from rule A to rule B also inserts a  *)
(* row into h_hotel_rule that takes effect the next day; going back to A   *)
(* clears the effect date of the hotel's rows.  HotelRuleWorker runs at    *)
(* midnight and copies the rules that take effect today to t_hotel and     *)
(* e_hotel.  BillRuleWorker runs at 6, 7 and 8 o'clock and asks the bill   *)
(* service for an early bill of every hotel whose rule took effect today.  *)
(* Every node of the web tier runs both jobs.                              *)
(*                                                                         *)
(* HmsHotelRuleService is annotated @Transactional, but no Spring context  *)
(* of the application enables annotation-driven transactions and the only  *)
(* transaction pointcut names a package that does not exist                *)
(* (spring/applicationContext-db.xml:80-83).  Every mapper call therefore  *)
(* commits on its own, and each is an action here.                         *)
(*                                                                         *)
(* The hotels here are published.  For one without a row in t_hotel        *)
(* updateThotel touches no row (HotelRuleMapper.xml:19-22), its result is  *)
(* not looked at, and the row of h_hotel_rule is advanced all the same     *)
(* (HmsHotelRuleService.java:69-73); t_hotel gets the rule code of the     *)
(* draft when the hotel is published first.                                *)
(***************************************************************************)
EXTENDS Integers, FiniteSets

CONSTANTS
    Hotels,     \* hotel ids
    Nodes,      \* processes of the web tier, each with its own scheduler
    RuleIds,    \* primary keys h_hotel_rule may hand out: bounds the inserts
    MaxDay,     \* bound: the last day of the calendar
    BillRuns,   \* hourly runs of the bill job in a day (three in the source)
    PoolCap,    \* tasks a worker pool accepts (50 threads + 1000 queued)
    FaultKinds, \* kinds of fault that may happen
    MaxFaults,  \* bound: faults that happen in a behaviour
    NoRule,     \* a primary key not handed out yet
    Idle        \* a node that is serving no saveHotelRule request

ASSUME MaxDayAssumption == MaxDay \in Nat \ {0}
ASSUME BillRunsAssumption == BillRuns \in Nat \ {0}
ASSUME PoolCapAssumption == PoolCap \in Nat \ {0}
ASSUME MaxFaultsAssumption == MaxFaults \in Nat
ASSUME FaultKindsAssumption ==
    FaultKinds \subseteq {"crash", "db", "service", "reply"}

\* The rule codes and the states of a row of h_hotel_rule.
A_RULE == 1001
B_RULE == 1002
RuleCodes == {A_RULE, B_RULE}

INITSTATE == 0      \* inserted
SYNCSTATE == 1      \* copied to the hotel tables (STATE in the source)
PREBILLSTATE == -1  \* an early bill is being asked for
BILLSTATE == 2      \* the early bill was made

Days == 1..MaxDay
NullDate == 0       \* effectdate IS NULL

\* A row of h_hotel_rule. rulecode and isthreshold are left out: every row
\* is inserted with 1002 and "T".
Row == [hotel : Hotels,
        eff : {NullDate} \cup Days \cup {MaxDay + 1},
        state : {INITSTATE, SYNCSTATE, PREBILLSTATE, BILLSTATE}]

ASSUME NoRuleAssumption == NoRule \notin Row

\* A saveHotelRule request that has updated e_hotel and is not done yet.
Request == [hotel : Hotels, code : RuleCodes,
            eff : {NullDate} \cup Days \cup {MaxDay + 1}]

ASSUME IdleAssumption == Idle \notin Request

\* A task in a worker's thread pool: the row it was listed with and the
\* statement it executes next.
SyncSteps == {"updateThotel", "updateEhotel", "updateState"}
BillSteps == {"lock", "post", "success", "failure"}
Task == [id : RuleIds, hotel : Hotels, pc : SyncSteps \cup BillSteps]

VARIABLES
    day,     \* the calendar day
    slot,    \* 0: midnight, k: the k-th run of the bill job on this day
    due,     \* nodes whose trigger of this slot has not fired yet
    up,      \* nodes that are running
    rule,    \* table h_hotel_rule
    tHotel,  \* t_hotel.rulecode, the published hotel
    eHotel,  \* e_hotel.rulecode, the draft
    req,     \* the saveHotelRule request each node is serving
    tasks,   \* tasks in each node's worker pools
    bills,   \* early bills the bill service has made, per hotel and day
    faults   \* faults so far

clock == <<day, slot, due>>
hotelTables == <<tHotel, eHotel>>
vars == <<day, slot, due, up, rule, tHotel, eHotel, req, tasks, bills, faults>>

TypeOK ==
    /\ day \in Days
    /\ slot \in 0..BillRuns
    /\ up \subseteq Nodes
    /\ due \subseteq up
    /\ rule \in [RuleIds -> Row \cup {NoRule}]
    /\ tHotel \in [Hotels -> RuleCodes]
    /\ eHotel \in [Hotels -> RuleCodes]
    /\ req \in [Nodes -> Request \cup {Idle}]
    /\ tasks \in [Nodes -> SUBSET Task]
    /\ bills \in [Hotels -> [Days -> Nat]]
    /\ faults \in 0..MaxFaults

\* The morning of the first day: all hotels on rule A, every node running,
\* the jobs of the slot done.
Init ==
    /\ day = 1
    /\ slot = BillRuns
    /\ due = {}
    /\ up = Nodes
    /\ rule = [r \in RuleIds |-> NoRule]
    /\ tHotel = [h \in Hotels |-> A_RULE]
    /\ eHotel = [h \in Hotels |-> A_RULE]
    /\ req = [n \in Nodes |-> Idle]
    /\ tasks = [n \in Nodes |-> {}]
    /\ bills = [h \in Hotels |-> [d \in Days |-> 0]]
    /\ faults = 0

-----------------------------------------------------------------------------
(* The SQL of HotelRuleMapper.xml.                                         *)

\* Mutant: the WHERE clause loses hotelid.
MatchingAnyHotel(h, preState) ==
    {r \in RuleIds : /\ rule[r] # NoRule
                     /\ rule[r].state = preState
                     /\ rule[r].eff # NullDate}

\* Rows updateState touches: all of the hotel's rows in the given state that
\* have an effect date, whatever that date is.
Matching(h, preState) ==
    {r \in RuleIds : /\ rule[r] # NoRule
                     /\ rule[r].hotel = h
                     /\ rule[r].state = preState
                     /\ rule[r].eff # NullDate}

UpdateState(h, state, preState) ==
    rule' = [r \in RuleIds |-> IF r \in Matching(h, preState)
                               THEN [rule[r] EXCEPT !.state = state]
                               ELSE rule[r]]

\* Mutant: rows whose day has passed are listed again.
ListPastDays(state) ==
    {r \in RuleIds : /\ rule[r] # NoRule
                     /\ rule[r].eff \in 1..day
                     /\ rule[r].state = state}

\* Mutant: the window is off by one day.
ListTomorrow(state) ==
    {r \in RuleIds : /\ rule[r] # NoRule
                     /\ rule[r].eff = day + 1
                     /\ rule[r].state = state}

\* Rows that take effect today and are in the given state.
GetHMSHotelRuleList(state) ==
    {r \in RuleIds : /\ rule[r] # NoRule
                     /\ rule[r].eff = day
                     /\ rule[r].state = state}

-----------------------------------------------------------------------------
(* Faults.                                                                 *)

Fault(kind) ==
    /\ kind \in FaultKinds
    /\ faults < MaxFaults
    /\ faults' = faults + 1

-----------------------------------------------------------------------------
(* HotelMessageController.saveHotelRule.                                   *)

\* The request's first statement: the draft gets the new rule at once.
\* Bound: a request for rule B starts only when a primary key is left for it.
SaveHotelRule(n, h, code) ==
    /\ n \in up
    /\ req[n] = Idle
    /\ code = B_RULE =>
          Cardinality({r \in RuleIds : rule[r] = NoRule})
            > Cardinality({m \in Nodes : req[m] # Idle /\ req[m].code = B_RULE})
    /\ eHotel' = [eHotel EXCEPT ![h] = code]
    /\ req' = [req EXCEPT ![n] = [hotel |-> h, code |-> code, eff |-> NullDate]]
    /\ UNCHANGED <<clock, up, rule, tHotel, tasks, bills, faults>>

\* Mutant: addDate is called with 2.
ComputeEffectDateTwoDays(n) ==
    /\ req[n] # Idle
    /\ req[n].code = B_RULE
    /\ req[n].eff = NullDate
    /\ req' = [req EXCEPT ![n].eff = day + 2]
    /\ UNCHANGED <<clock, up, rule, hotelTables, tasks, bills, faults>>

\* Rule B: the effect date is tomorrow, 00:00:01, by the clock of this moment.
ComputeEffectDate(n) ==
    /\ req[n] # Idle
    /\ req[n].code = B_RULE
    /\ req[n].eff = NullDate
    /\ req' = [req EXCEPT ![n].eff = day + 1]
    /\ UNCHANGED <<clock, up, rule, hotelTables, tasks, bills, faults>>

\* Rule B: the row is inserted, whatever rows the hotel has already.
InsertHotelRule(n) ==
    /\ req[n] # Idle
    /\ req[n].eff # NullDate
    /\ \E r \in RuleIds :
          /\ rule[r] = NoRule
          /\ rule' = [rule EXCEPT ![r] = [hotel |-> req[n].hotel,
                                          eff |-> req[n].eff,
                                          state |-> INITSTATE]]
    /\ req' = [req EXCEPT ![n] = Idle]
    /\ UNCHANGED <<clock, up, hotelTables, tasks, bills, faults>>

\* Rule A: the effect date of all rows of the hotel is cleared. The state of
\* the rows is not looked at, nor is t_hotel.
UpdateHotelRuleToA(n) ==
    /\ req[n] # Idle
    /\ req[n].code = A_RULE
    /\ rule' = [r \in RuleIds |->
                  IF rule[r] # NoRule /\ rule[r].hotel = req[n].hotel
                  THEN [rule[r] EXCEPT !.eff = NullDate]
                  ELSE rule[r]]
    /\ req' = [req EXCEPT ![n] = Idle]
    /\ UNCHANGED <<clock, up, hotelTables, tasks, bills, faults>>

\* The second statement throws: the first is committed and stays.
RequestFails(n) ==
    /\ req[n] # Idle
    /\ Fault("db")
    /\ req' = [req EXCEPT ![n] = Idle]
    /\ UNCHANGED <<clock, up, rule, hotelTables, tasks, bills>>

-----------------------------------------------------------------------------
(* The workers.                                                            *)

\* doTask hands the listed rows to the pool. A full pool rejects a task and
\* ends the loop; tasks that finish meanwhile make room for others.
Submit(n, listed, pc) ==
    \E accepted \in SUBSET listed :
        /\ \/ accepted = listed
           \/ Cardinality(accepted) >= PoolCap
        /\ tasks' = [tasks EXCEPT ![n] = @ \cup
                       {[id |-> r, hotel |-> rule[r].hotel, pc |-> pc] : r \in accepted}]

\* Mutant: the row is marked before the hotel tables are updated.
HotelRuleJobStateFirst(n) ==
    /\ slot = 0
    /\ n \in due
    /\ due' = due \ {n}
    /\ Submit(n, GetHMSHotelRuleList(INITSTATE), "updateState")
    /\ UNCHANGED <<day, slot, up, rule, hotelTables, req, bills, faults>>

\* HotelRuleWorker.doTask, at midnight.
HotelRuleJob(n) ==
    /\ slot = 0
    /\ n \in due
    /\ due' = due \ {n}
    /\ Submit(n, GetHMSHotelRuleList(INITSTATE), "updateThotel")
    /\ UNCHANGED <<day, slot, up, rule, hotelTables, req, bills, faults>>

\* BillRuleWorker.doTask, at 6, 7 and 8 o'clock.
BillRuleJob(n) ==
    /\ slot > 0
    /\ n \in due
    /\ due' = due \ {n}
    /\ Submit(n, GetHMSHotelRuleList(SYNCSTATE), "lock")
    /\ UNCHANGED <<day, slot, up, rule, hotelTables, req, bills, faults>>

\* What a step of a task does to the pool.
Advance(n, t, pc) ==
    tasks' = [tasks EXCEPT ![n] = (@ \ {t}) \cup {[t EXCEPT !.pc = pc]}]
Finish(n, t) == tasks' = [tasks EXCEPT ![n] = @ \ {t}]

\* HmsHotelRuleService.syncHotelRule, statement by statement. The row was
\* read when the job listed it and is not read again.
UpdateThotel(n, t) ==
    /\ t.pc = "updateThotel"
    /\ tHotel' = [tHotel EXCEPT ![t.hotel] = B_RULE]
    /\ Advance(n, t, "updateEhotel")
    /\ UNCHANGED <<clock, up, rule, eHotel, req, bills, faults>>

UpdateEhotel(n, t) ==
    /\ t.pc = "updateEhotel"
    /\ eHotel' = [eHotel EXCEPT ![t.hotel] = B_RULE]
    /\ Advance(n, t, "updateState")
    /\ UNCHANGED <<clock, up, rule, tHotel, req, bills, faults>>

SyncState(n, t) ==
    /\ t.pc = "updateState"
    /\ UpdateState(t.hotel, SYNCSTATE, INITSTATE)
    /\ Finish(n, t)
    /\ UNCHANGED <<clock, up, hotelTables, req, bills, faults>>

\* Mutant: the number of claimed rows is not looked at.
BillLockUnguarded(n, t) ==
    /\ t.pc = "lock"
    /\ UpdateState(t.hotel, PREBILLSTATE, SYNCSTATE)
    /\ Advance(n, t, "post")
    /\ UNCHANGED <<clock, up, hotelTables, req, bills, faults>>

\* HmsHotelRuleService.executeBillTask: claim the hotel's rows.
BillLock(n, t) ==
    /\ t.pc = "lock"
    /\ Matching(t.hotel, SYNCSTATE) # {}
    /\ UpdateState(t.hotel, PREBILLSTATE, SYNCSTATE)
    /\ Advance(n, t, "post")
    /\ UNCHANGED <<clock, up, hotelTables, req, bills, faults>>

\* The update touched no row: another task has the hotel, or it is done.
BillSkip(n, t) ==
    /\ t.pc = "lock"
    /\ Matching(t.hotel, SYNCSTATE) = {}
    /\ Finish(n, t)
    /\ UNCHANGED <<clock, up, rule, hotelTables, req, bills, faults>>

MakeBill(h) == bills' = [bills EXCEPT ![h][day] = @ + 1]

\* invokeBillServcie: a bill is made and the answer says so.
PostSucceeds(n, t) ==
    /\ t.pc = "post"
    /\ MakeBill(t.hotel)
    /\ Advance(n, t, "success")
    /\ UNCHANGED <<clock, up, rule, hotelTables, req, faults>>

\* Mutant: the answer of the service is not looked at.
PostFailsUnseen(n, t) ==
    /\ t.pc = "post"
    /\ Fault("service")
    /\ Advance(n, t, "success")
    /\ UNCHANGED <<clock, up, rule, hotelTables, req, bills>>

\* invokeBillServcie: the service refuses or cannot be reached.
PostFails(n, t) ==
    /\ t.pc = "post"
    /\ Fault("service")
    /\ Advance(n, t, "failure")
    /\ UNCHANGED <<clock, up, rule, hotelTables, req, bills>>

\* invokeBillServcie: a bill is made, but the answer does not arrive within
\* the socket timeout or cannot be read. The task sees a failure.
PostReplyLost(n, t) ==
    /\ t.pc = "post"
    /\ Fault("reply")
    /\ MakeBill(t.hotel)
    /\ Advance(n, t, "failure")
    /\ UNCHANGED <<clock, up, rule, hotelTables, req>>

BillSuccess(n, t) ==
    /\ t.pc = "success"
    /\ UpdateState(t.hotel, BILLSTATE, PREBILLSTATE)
    /\ Finish(n, t)
    /\ UNCHANGED <<clock, up, hotelTables, req, bills, faults>>

\* Mutant: a failed task does not give its rows back.
BillFailureKeepsClaim(n, t) ==
    /\ t.pc = "failure"
    /\ UpdateState(t.hotel, SYNCSTATE, BILLSTATE)
    /\ Finish(n, t)
    /\ UNCHANGED <<clock, up, hotelTables, req, bills, faults>>

BillFailure(n, t) ==
    /\ t.pc = "failure"
    /\ UpdateState(t.hotel, SYNCSTATE, PREBILLSTATE)
    /\ Finish(n, t)
    /\ UNCHANGED <<clock, up, hotelTables, req, bills, faults>>

\* A statement of the task throws. What the task did before stays.
TaskFails(n, t) ==
    /\ t.pc # "post"
    /\ Fault("db")
    /\ Finish(n, t)
    /\ UNCHANGED <<clock, up, rule, hotelTables, req, bills>>

-----------------------------------------------------------------------------
(* Nodes and time.                                                         *)

Crash(n) ==
    /\ n \in up
    /\ Fault("crash")
    /\ up' = up \ {n}
    /\ due' = due \ {n}
    /\ req' = [req EXCEPT ![n] = Idle]
    /\ tasks' = [tasks EXCEPT ![n] = {}]
    /\ UNCHANGED <<day, slot, rule, hotelTables, bills>>

\* A node that starts again keeps no triggers of the time it was down: the
\* scheduler holds its jobs in memory.
Restart(n) ==
    /\ n \in Nodes \ up
    /\ up' = up \cup {n}
    /\ UNCHANGED <<clock, rule, hotelTables, req, tasks, bills, faults>>

\* Time passes to the next trigger. Triggers fire on time on a running node,
\* and the pools drain between two triggers, which are an hour or more apart:
\* a post waits 20 seconds for its answer (HttpClientUtils.java:50).
\* A user's request may be held up across a trigger, midnight included.
Tick ==
    /\ due = {}
    /\ \A n \in Nodes : tasks[n] = {}
    /\ \/ /\ slot < BillRuns
          /\ slot' = slot + 1
          /\ day' = day
       \/ /\ slot = BillRuns
          /\ day < MaxDay
          /\ slot' = 0
          /\ day' = day + 1
    /\ due' = up
    /\ UNCHANGED <<up, rule, hotelTables, req, tasks, bills, faults>>

-----------------------------------------------------------------------------
RequestStep(n) ==
    \/ ComputeEffectDate(n)
    \/ InsertHotelRule(n)
    \/ UpdateHotelRuleToA(n)

Job(n) == HotelRuleJob(n) \/ BillRuleJob(n)

SyncStep(n, t) == UpdateThotel(n, t) \/ UpdateEhotel(n, t) \/ SyncState(n, t)

\* A step of a bill task other than a fault of the bill service.
BillStep(n, t) ==
    \/ BillLock(n, t)
    \/ BillSkip(n, t)
    \/ PostSucceeds(n, t)
    \/ BillSuccess(n, t)
    \/ BillFailure(n, t)

TaskFault(n, t) == PostFails(n, t) \/ PostReplyLost(n, t) \/ TaskFails(n, t)

Next ==
    \/ \E n \in Nodes, h \in Hotels, code \in RuleCodes : SaveHotelRule(n, h, code)
    \/ \E n \in Nodes : RequestStep(n) \/ RequestFails(n)
    \/ \E n \in Nodes : Job(n)
    \/ \E n \in Nodes : \E t \in tasks[n] : SyncStep(n, t)
    \/ \E n \in Nodes : \E t \in tasks[n] : BillStep(n, t)
    \/ \E n \in Nodes : \E t \in tasks[n] : TaskFault(n, t)
    \/ \E n \in Nodes : Crash(n) \/ Restart(n)
    \/ Tick

\* The scheduler fires its triggers, the pools run what they were given and
\* time passes. Users, faults and restarts owe nothing.
Fairness ==
    /\ WF_vars(Tick)
    /\ \A n \in Nodes :
          /\ WF_vars(Job(n))
          /\ WF_vars(\E t \in tasks[n] : SyncStep(n, t) \/ BillStep(n, t))

Spec == Init /\ [][Next]_vars
FairSpec == Spec /\ Fairness
-----------------------------------------------------------------------------
(* Safety.                                                                 *)

Entered == {r \in RuleIds : rule[r] # NoRule}

\* A row that went past its initial state belongs to a hotel that is
\* published with rule B. The state moves in the third statement of
\* syncHotelRule, for all rows of the hotel, and by tasks of any node, some
\* of which may have died half way (HmsHotelRuleService.java:68-73).
SyncedIsPublished ==
    \A r \in Entered :
        rule[r].state # INITSTATE => tHotel[rule[r].hotel] = B_RULE

\* BILLSTATE, "early settlement succeeded" (HmsHotelRuleService.java:37), is
\* never the state of a row of a hotel for which no early bill was made,
\* although a task that finishes moves the rows other tasks claimed as well.
SettledHasBill ==
    \A r \in Entered :
        rule[r].state = BILLSTATE => \E d \in Days : bills[rule[r].hotel][d] > 0

\* An early bill is made only on a day a rule of the hotel takes effect; the
\* user may have withdrawn that rule meanwhile. The task works from a list
\* that was read before (BillRuleWorker.java:57-80).
BillIsOfItsDay ==
    \A h \in Hotels, d \in Days :
        bills[h][d] > 0 =>
            \E r \in Entered : /\ rule[r].hotel = h
                               /\ rule[r].eff \in {d, NullDate}
                               /\ rule[r].state # INITSTATE

\* The claim of executeBillTask (HmsHotelRuleService.java:87-88) keeps all
\* nodes, all hourly runs and all rows of a hotel apart: a hotel gets a second
\* early bill on a day only if something failed before.
AtMostOneBillPerFault ==
    \A h \in Hotels, d \in Days : bills[h][d] <= 1 + faults

\* A claimed row that is still in force has a task that will settle or
\* release it (HmsHotelRuleService.java:26 and 87-104).
ClaimHasTask ==
    \A r \in Entered :
        (rule[r].state = PREBILLSTATE /\ rule[r].eff # NullDate) =>
            \E n \in Nodes : \E t \in tasks[n] :
                t.hotel = rule[r].hotel /\ t.pc \in {"post", "success", "failure"}

\* The rule book that the rows, the published hotels and the bills stand for.
Phase(state) ==
    CASE state = INITSTATE -> "scheduled"
      [] state = SYNCSTATE -> "effective"
      [] state = PREBILLSTATE -> "settling"
      [] OTHER -> "settled"

Standing(eff) == IF eff = NullDate THEN "withdrawn" ELSE "active"

Book == [r \in RuleIds |->
           IF rule[r] = NoRule THEN NoRule
           ELSE [hotel |-> rule[r].hotel,
                 phase |-> Phase(rule[r].state),
                 standing |-> Standing(rule[r].eff)]]
Published == {h \in Hotels : tHotel[h] = B_RULE}
Billed == {h \in Hotels : \E d \in Days : bills[h][d] > 0}

Lifecycle == INSTANCE RuleLifecycle WITH
                 book <- Book, published <- Published, billed <- Billed

ASSUME NoEntryAssumption == NoRule \notin Lifecycle!Entry

\* The code keeps the promises of the rule book: whatever the interleaving
\* and the faults, every step that shows in the tables is a step of the book.
LifecycleSpec == Lifecycle!Spec

-----------------------------------------------------------------------------
(* Liveness, under FairSpec.                                               *)

\* A rule that is waiting at the midnight of its effect day, with a node that
\* is about to run the job, is copied to the hotel tables and gets its early
\* bill on that day, unless the user withdraws it. When the bill service
\* fails fewer times than there are hourly runs, the next runs make up for it
\* (HotelRuleWorker.java:56-84, BillRuleWorker.java:57-84).
EffectiveRuleIsBilled ==
    \A r \in RuleIds, d \in Days :
        (/\ rule[r] # NoRule
         /\ rule[r].eff = d /\ rule[r].state = INITSTATE
         /\ day = d /\ slot = 0 /\ due # {})
            ~> (/\ rule[r] # NoRule
                /\ \/ rule[r].eff = NullDate
                   \/ rule[r].state = BILLSTATE /\ bills[rule[r].hotel][d] > 0)
=============================================================================
