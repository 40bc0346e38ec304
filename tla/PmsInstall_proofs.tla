-------------------------- MODULE PmsInstall_proofs --------------------------
(***************************************************************************)
(* Proofs about PmsInstall, for any hotels, codes, users, pages and number *)
(* of installations.                                                       *)
(***************************************************************************)
EXTENDS PmsInstall, TLAPS

USE MaxInstallsAssumption, InstallNullsAssumption

\* What is true of every copy of a row: the one in the table and those the
\* sessions hold.
Known(h, row) ==
    /\ row.isNewPms = "T" => row.pms \in online
    /\ row.pmsStatus # PmsInit => row.pms # NoCode
    /\ row.state = UNInitial => h \in late \/ row.pmsStatus = Synchronous

CopyInv ==
    /\ \A h \in Hotels : Known(h, eHotel[h])
    /\ \A u \in Users : held[u] # NoHotel => Known(held[u].hotel, held[u].row)

\* What the statements of a call have established.
CallOk(t) ==
    call[t] # Idle =>
        /\ call[t].pc \in {"post", "check", "save"} => ~call[t].inUse
        /\ call[t].pc \in {"check", "save"} /\ call[t].type = "NEW_PMS"
               => call[t].pms \in online
        /\ Underway(t, call[t].hotel) =>
               \/ eHotel[call[t].hotel].state = HotelInit
               \/ call[t].hotel \in late

CallInv == \A t \in Tabs : CallOk(t)

\* A code that has been chosen is still free, and chosen once.
ChoiceInv ==
    \A t \in Tabs : At(t, "save") /\ call[t].pms \notin doubtful =>
        /\ \A h \in Hotels : eHotel[h].pms = call[t].pms => h = call[t].hotel
        /\ \A u \in Tabs : At(u, "save") /\ call[u].pms = call[t].pms
                               => call[u].hotel = call[t].hotel

\* The inductive invariant.
Inv == TypeOK /\ CopyInv /\ CallInv /\ ChoiceInv /\ OneHotelPerCode

-----------------------------------------------------------------------------
(* Lemmas about rows and calls.                                            *)

\* The fields of a row.
LEMMA RowFields ==
    ASSUME NEW row \in Row
    PROVE  /\ row.pms \in Codes \cup {NoCode}
           /\ row.isNewPms \in {"T", "F"}
           /\ row.pmsStatus \in PmsStates
           /\ row.state \in {HotelInit, UNInitial}
  BY DEF Row

\* A page's call and what its session holds.
LEMMA CallFields ==
    ASSUME TypeOK, NEW t \in Tabs
    PROVE  /\ user[t] \in Users
           /\ call[t] # Idle => /\ call[t].hotel \in Hotels
                                /\ call[t].pms \in Codes
                                /\ call[t].type \in {"NEW_PMS", "OLD_PMS"}
                                /\ call[t].inUse \in BOOLEAN
                                /\ call[t].pc \in Steps
           /\ held[user[t]] # NoHotel => /\ held[user[t]].hotel \in Hotels
                                         /\ held[user[t]].row \in Row
<1>1. user[t] \in Users /\ call[t] \in Call \cup {Idle}
      /\ held[user[t]] \in HeldHotel \cup {NoHotel}
  BY DEF TypeOK
<1>2. QED
  BY <1>1 DEF Call, HeldHotel

\* A call that goes on to another statement keeps what it was sent with and
\* what it has seen; the other calls are as they were.
LEMMA GotoCall ==
    ASSUME TypeOK, NEW t \in Tabs, call[t] # Idle, NEW pc \in Steps, Goto(t, pc)
    PROVE  /\ call' \in [Tabs -> Call \cup {Idle}]
           /\ call'[t] # Idle
           /\ call'[t].hotel = call[t].hotel /\ call'[t].pms = call[t].pms
           /\ call'[t].type = call[t].type /\ call'[t].inUse = call[t].inUse
           /\ call'[t].pc = pc
           /\ \A u \in Tabs : u # t => call'[u] = call[u]
<1> DEFINE new == [call[t] EXCEPT !.pc = pc]
<1>1. call \in [Tabs -> Call \cup {Idle}] /\ call[t] \in Call
  BY DEF TypeOK
<1>2. /\ new \in Call /\ new # Idle /\ new.pc = pc
      /\ new.hotel = call[t].hotel /\ new.pms = call[t].pms
      /\ new.type = call[t].type /\ new.inUse = call[t].inUse
  BY <1>1 DEF Call
<1>3. call' = [call EXCEPT ![t] = new]
  BY DEF Goto
<1> HIDE DEF new
<1>4. QED
  BY <1>1, <1>2, <1>3

\* A call that has ended has nothing to keep.
LEMMA FinishedCall ==
    ASSUME TypeOK, NEW t \in Tabs, Finish(t)
    PROVE  /\ call' \in [Tabs -> Call \cup {Idle}]
           /\ call'[t] = Idle
           /\ CallOk(t)' /\ ~At(t, "save")'
           /\ \A u \in Tabs : u # t => call'[u] = call[u]
<1>1. call' = [call EXCEPT ![t] = Idle] /\ call \in [Tabs -> Call \cup {Idle}]
  BY DEF TypeOK, Finish
<1>2. QED
  BY <1>1 DEF CallOk, At

\* A hotel that comes into use is late if a call has seen it unused.
LEMMA LateGrows ==
    ASSUME NEW h \in Hotels, TypeOK, ComesIntoUse(h)
    PROVE  /\ late \subseteq late' /\ late' \in SUBSET Hotels
           /\ \A t \in Tabs : Underway(t, h) => h \in late'
  BY DEF TypeOK, ComesIntoUse


\* Copies that nobody changes stay true.
LEMMA KeepCopies ==
    ASSUME CopyInv, UNCHANGED <<eHotel, held>>,
           online \subseteq online', late \subseteq late'
    PROVE  CopyInv'
  BY DEF CopyInv, Known

\* A session is given a row of the table.
LEMMA HoldCopies ==
    ASSUME TypeOK, CopyInv, NEW t \in Tabs, NEW h \in Hotels,
           held' = [held EXCEPT ![user[t]] = [hotel |-> h, row |-> eHotel[h]]],
           UNCHANGED <<eHotel, online, late>>
    PROVE  /\ CopyInv'
           /\ held' \in [Users -> HeldHotel \cup {NoHotel}]
<1> DEFINE new == [hotel |-> h, row |-> eHotel[h]]
<1>1. eHotel[h] \in Row /\ user[t] \in Users /\ held \in [Users -> HeldHotel \cup {NoHotel}]
  BY DEF TypeOK
<1>2. new \in HeldHotel /\ new.hotel = h /\ new.row = eHotel[h]
  BY <1>1 DEF HeldHotel
<1>3. held' = [held EXCEPT ![user[t]] = new]
  OBVIOUS
<1> HIDE DEF new
<1>4. held' \in [Users -> HeldHotel \cup {NoHotel}]
  BY <1>1, <1>2, <1>3
<1>5. \A u \in Users : (held[u] # NoHotel => Known(held[u].hotel, held[u].row))'
  <2> SUFFICES ASSUME NEW u \in Users
               PROVE  (held[u] # NoHotel => Known(held[u].hotel, held[u].row))'
    OBVIOUS
  <2>1. CASE u = user[t]
    <3>1. held'[u] = new
      BY <1>1, <1>3, <2>1
    <3>2. Known(h, eHotel[h])
      BY DEF CopyInv
    <3>3. QED
      BY <1>2, <3>1, <3>2 DEF Known
  <2>2. CASE u # user[t]
    <3>1. held'[u] = held[u]
      BY <1>1, <1>3, <2>2
    <3>2. QED
      BY <3>1 DEF CopyInv, Known
  <2>3. QED
    BY <2>1, <2>2
<1>6. \A k \in Hotels : Known(k, eHotel[k])'
  BY DEF CopyInv, Known
<1>7. QED
  BY <1>4, <1>5, <1>6 DEF CopyInv

\* One call has changed, to one that has chosen no code.
LEMMA CallGoes ==
    ASSUME CallInv, ChoiceInv, OneHotelPerCode, NEW t \in Tabs,
           UNCHANGED <<eHotel, doubtful, late>>, online \subseteq online',
           \A u \in Tabs : u # t => call'[u] = call[u],
           CallOk(t)', ~At(t, "save")'
    PROVE  CallInv' /\ ChoiceInv' /\ OneHotelPerCode'
<1>1. CallInv'
  BY DEF CallInv, CallOk, Underway
<1>2. ChoiceInv'
  BY DEF ChoiceInv, At
<1>3. OneHotelPerCode'
  BY DEF OneHotelPerCode
<1>4. QED
  BY <1>1, <1>2, <1>3

\* No call has changed, and neither rows nor history.
LEMMA CallsStay ==
    ASSUME CallInv, ChoiceInv, OneHotelPerCode,
           UNCHANGED <<eHotel, online, call, doubtful, late>>
    PROVE  CallInv' /\ ChoiceInv' /\ OneHotelPerCode'
  BY DEF CallInv, CallOk, Underway, ChoiceInv, At, OneHotelPerCode

\* One row is written, none of whose columns the code is.
LEMMA SameCodes ==
    ASSUME ChoiceInv, OneHotelPerCode, UNCHANGED <<call, doubtful>>,
           \A h \in Hotels : eHotel'[h].pms = eHotel[h].pms
    PROVE  ChoiceInv' /\ OneHotelPerCode'
  BY DEF ChoiceInv, At, OneHotelPerCode

-----------------------------------------------------------------------------
(* The pages.                                                              *)

\* What loadData shows.
LEMMA ListedType ==
    ASSUME TypeOK PROVE Listed \in [Hotels -> PmsStates]
  BY RowFields DEF TypeOK, Listed

LEMMA LoadListKeepsInv ==
    ASSUME Inv, NEW t \in Tabs, LoadList(t)
    PROVE  Inv'
<1>1. UNCHANGED <<user, eHotel, online, held, call, installs, doubtful, late>>
  BY DEF LoadList, history
<1>2. TypeOK'
  BY <1>1, ListedType DEF Inv, TypeOK, LoadList
<1>3. QED
  BY <1>1, <1>2, KeepCopies, CallsStay DEF Inv

LEMMA OpenHotelKeepsInv ==
    ASSUME Inv, NEW t \in Tabs, NEW h \in Hotels, OpenHotel(t, h)
    PROVE  Inv'
<1>1. UNCHANGED <<user, eHotel, online, call, installs, doubtful, late>>
  BY DEF OpenHotel, history
<1>2. CopyInv' /\ held' \in [Users -> HeldHotel \cup {NoHotel}]
  BY <1>1, HoldCopies DEF Inv, OpenHotel
<1>3. TypeOK'
  BY <1>1, <1>2 DEF Inv, TypeOK, OpenHotel
<1>4. QED
  BY <1>1, <1>2, <1>3, CallsStay DEF Inv

LEMMA InstallKeepsInv ==
    ASSUME Inv, NEW t \in Tabs, NEW h \in Hotels, Install(t, h)
    PROVE  Inv'
<1>1. UNCHANGED <<user, eHotel, online, held, list, editing, doubtful, late>>
  BY DEF Install, history, pages
<1>2. PICK new \in Call : new.pc = "read" /\ call' = [call EXCEPT ![t] = new]
  <2>1. PICK code \in Codes, type \in {"NEW_PMS", "OLD_PMS"} :
           call' = [call EXCEPT ![t] = [hotel |-> h, pms |-> code, type |-> type,
                                        inUse |-> FALSE, pc |-> "read"]]
    BY DEF Install
  <2>2. QED
    BY <2>1 DEF Call, Steps
<1>3. call' \in [Tabs -> Call \cup {Idle}] /\ call'[t] = new
      /\ \A u \in Tabs : u # t => call'[u] = call[u]
  BY <1>2 DEF Inv, TypeOK
<1>4. TypeOK'
  BY <1>1, <1>3 DEF Inv, TypeOK, Install
<1>5. CallOk(t)' /\ ~At(t, "save")'
  BY <1>2, <1>3 DEF CallOk, At, Underway
<1>6. QED
  BY <1>1, <1>3, <1>4, <1>5, KeepCopies, CallGoes DEF Inv

-----------------------------------------------------------------------------
(* The statements of installPms.                                           *)

LEMMA ReadHotelKeepsInv ==
    ASSUME Inv, NEW t \in Tabs, ReadHotel(t)
    PROVE  Inv'
<1>1. UNCHANGED <<user, eHotel, online, held, list, editing, installs, doubtful, late>>
  BY DEF ReadHotel, history, pages
<1>2. call[t] \in Call /\ call[t] # Idle /\ call[t].pc = "read"
  BY DEF Inv, TypeOK, ReadHotel, At
<1>3. \E new \in Call : /\ call' = [call EXCEPT ![t] = new]
                        /\ new.hotel = call[t].hotel /\ new.pc = "hold"
                        /\ new.inUse = (eHotel[call[t].hotel].state > HotelInit)
  <2> DEFINE inUse == eHotel[call[t].hotel].state > HotelInit
             new == [call[t] EXCEPT !.pc = "hold", !.inUse = inUse]
  <2>1. inUse \in BOOLEAN
    OBVIOUS
  <2>2. new \in Call /\ new.hotel = call[t].hotel /\ new.pc = "hold" /\ new.inUse = inUse
    BY <1>2, <2>1 DEF Call, Steps
  <2>3. call' = [call EXCEPT ![t] = new]
    BY <1>2 DEF ReadHotel, Inv, TypeOK
  <2>4. QED
    BY <2>2, <2>3
<1>4. call' \in [Tabs -> Call \cup {Idle}] /\ call'[t] # Idle
      /\ call'[t].pc = "hold" /\ call'[t].hotel = call[t].hotel
      /\ call'[t].inUse = (eHotel[call[t].hotel].state > HotelInit)
      /\ \A u \in Tabs : u # t => call'[u] = call[u]
  BY <1>3 DEF Inv, TypeOK
<1>5. TypeOK'
  BY <1>1, <1>4 DEF Inv, TypeOK
<1>6. CallOk(t)' /\ ~At(t, "save")'
  <2>1. eHotel[call[t].hotel].state \in {HotelInit, UNInitial}
    BY <1>2, RowFields DEF Inv, TypeOK, Call
  <2>2. ~call'[t].inUse => eHotel[call[t].hotel].state = HotelInit
    <3>1. eHotel[call[t].hotel].state = UNInitial => eHotel[call[t].hotel].state > HotelInit
      BY DEF HotelInit, UNInitial
    <3>2. call'[t].inUse <=> (eHotel[call[t].hotel].state > HotelInit)
      BY <1>4, Zenon
    <3>3. QED
      BY <2>1, <3>1, <3>2, Zenon
  <2>3. call'[t].pc = "hold" /\ call'[t].hotel = call[t].hotel
    BY <1>4
  <2>4. QED
    BY <1>1, <2>2, <2>3 DEF CallOk, At, Underway
<1>7. QED
  BY <1>1, <1>4, <1>5, <1>6, KeepCopies, CallGoes DEF Inv

LEMMA HoldHotelKeepsInv ==
    ASSUME Inv, NEW t \in Tabs, HoldHotel(t)
    PROVE  Inv'
<1>1. UNCHANGED <<user, eHotel, online, list, editing, installs, doubtful, late>>
  BY DEF HoldHotel, history, pages
<1>2. call[t] # Idle /\ call[t].pc = "hold" /\ call[t].hotel \in Hotels
      /\ call[t].type \in {"NEW_PMS", "OLD_PMS"}
  BY CallFields DEF Inv, HoldHotel, At
<1>3. CopyInv' /\ held' \in [Users -> HeldHotel \cup {NoHotel}]
  BY <1>1, <1>2, HoldCopies DEF Inv, HoldHotel
<1>4. PICK pc \in {"post", "check"} :
         /\ call[t].inUse => Finish(t)
         /\ ~call[t].inUse => Goto(t, pc)
         /\ pc = "check" => call[t].type # "NEW_PMS"
  BY DEF HoldHotel
<1>5. /\ call' \in [Tabs -> Call \cup {Idle}]
      /\ CallOk(t)' /\ ~At(t, "save")'
      /\ \A u \in Tabs : u # t => call'[u] = call[u]
  <2>1. CASE ~call[t].inUse
    <3>1. pc \in Steps /\ Goto(t, pc)
      BY <1>4, <2>1 DEF Steps
    <3>2. /\ call' \in [Tabs -> Call \cup {Idle}] /\ call'[t].hotel = call[t].hotel
          /\ call'[t].type = call[t].type /\ call'[t].inUse = call[t].inUse
          /\ call'[t].pc = pc
          /\ \A u \in Tabs : u # t => call'[u] = call[u]
      BY <1>2, <3>1, GotoCall DEF Inv
    <3>3. QED
      BY <1>1, <1>2, <1>4, <2>1, <3>2 DEF Inv, CallInv, CallOk, Underway, At
  <2>2. CASE call[t].inUse
    BY <1>4, <2>2, FinishedCall DEF Inv
  <2>3. QED
    BY <2>1, <2>2
<1>6. TypeOK'
  BY <1>1, <1>3, <1>5 DEF Inv, TypeOK
<1>7. QED
  BY <1>1, <1>3, <1>5, <1>6, CallGoes DEF Inv

LEMMA PostKeepsInv ==
    ASSUME Inv, NEW t \in Tabs, PostSucceeds(t) \/ PostFails(t)
    PROVE  Inv'
<1>1. UNCHANGED <<user, eHotel, held, list, editing, installs, doubtful, late>>
  BY DEF PostSucceeds, PostFails, history, pages
<1>2. call[t] # Idle /\ call[t].pc = "post" /\ call[t].pms \in Codes
  BY CallFields DEF Inv, PostSucceeds, PostFails, At
<1>3. online \subseteq online' /\ online' \in SUBSET Codes
      /\ (PostSucceeds(t) => call[t].pms \in online')
  BY <1>2 DEF Inv, TypeOK, PostSucceeds, PostFails
<1>4. /\ call' \in [Tabs -> Call \cup {Idle}]
      /\ CallOk(t)' /\ ~At(t, "save")'
      /\ \A u \in Tabs : u # t => call'[u] = call[u]
  <2>1. CASE PostSucceeds(t)
    <3>1. "check" \in Steps /\ Goto(t, "check")
      BY <2>1 DEF PostSucceeds, Steps
    <3>2. /\ call' \in [Tabs -> Call \cup {Idle}] /\ call'[t].hotel = call[t].hotel
          /\ call'[t].pms = call[t].pms /\ call'[t].inUse = call[t].inUse
          /\ call'[t].pc = "check"
          /\ \A u \in Tabs : u # t => call'[u] = call[u]
      BY <1>2, <3>1, GotoCall DEF Inv
    <3>3. QED
      BY <1>1, <1>2, <1>3, <2>1, <3>2 DEF Inv, CallInv, CallOk, Underway, At
  <2>2. CASE PostFails(t)
    BY <2>2, FinishedCall DEF Inv, PostFails
  <2>3. QED
    BY <2>1, <2>2
<1>5. TypeOK'
  BY <1>1, <1>3, <1>4 DEF Inv, TypeOK
<1>6. QED
  BY <1>1, <1>3, <1>4, <1>5, KeepCopies, CallGoes DEF Inv

LEMMA CheckKeepsInv ==
    ASSUME Inv, NEW t \in Tabs, CheckPmsCodeState(t)
    PROVE  Inv'
<1>1. UNCHANGED <<user, eHotel, online, held, list, editing, installs, late>>
  BY DEF CheckPmsCodeState, pages
<1>2. call[t] # Idle /\ call[t].pc = "check" /\ call[t].hotel \in Hotels /\ call[t].pms \in Codes
  BY CallFields DEF Inv, CheckPmsCodeState, At
<1>3. CASE Finish(t) /\ UNCHANGED doubtful
  <2>1. TypeOK'
    BY <1>1, <1>3, FinishedCall DEF Inv, TypeOK
  <2>2. QED
    BY <1>1, <1>3, <2>1, FinishedCall, KeepCopies, CallGoes DEF Inv
<1>4. CASE /\ Goto(t, "save")
           /\ FindByPms(call[t].pms) \subseteq {call[t].hotel}
           /\ doubtful' = IF Raced(t) THEN doubtful \cup {call[t].pms} ELSE doubtful
  <2>1. /\ call' \in [Tabs -> Call \cup {Idle}] /\ call'[t] # Idle
        /\ call'[t].hotel = call[t].hotel /\ call'[t].pms = call[t].pms
        /\ call'[t].type = call[t].type
        /\ call'[t].inUse = call[t].inUse /\ call'[t].pc = "save"
        /\ \A u \in Tabs : u # t => call'[u] = call[u]
    <3>1. "save" \in Steps
      BY DEF Steps
    <3>2. QED
      BY <1>2, <1>4, <3>1, GotoCall DEF Inv
  <2>2. TypeOK'
    BY <1>1, <1>2, <1>4, <2>1 DEF Inv, TypeOK
  <2>3. CallInv'
    BY <1>1, <1>2, <2>1 DEF Inv, CallInv, CallOk, Underway
  <2>4. \A h \in Hotels : eHotel[h].pms = call[t].pms => h = call[t].hotel
    BY <1>4 DEF FindByPms
  <2>5. doubtful \subseteq doubtful' /\ (Raced(t) => call[t].pms \in doubtful')
    BY <1>4
  <2>6. OneHotelPerCode'
    BY <1>1, <2>5 DEF Inv, OneHotelPerCode
  <2>7. call[t].pms \notin doubtful' =>
           \A u \in Tabs : At(u, "save") /\ call[u].pms = call[t].pms
                               => call[u].hotel = call[t].hotel
    BY <2>5 DEF Raced
  <2>8. ChoiceInv'
    <3> SUFFICES ASSUME NEW u \in Tabs, At(u, "save")', call'[u].pms \notin doubtful'
                 PROVE  /\ \A h \in Hotels : eHotel'[h].pms = call'[u].pms => h = call'[u].hotel
                        /\ \A v \in Tabs : At(v, "save")' /\ call'[v].pms = call'[u].pms
                                               => call'[v].hotel = call'[u].hotel
      BY DEF ChoiceInv
    <3>1. CASE u = t
      BY <1>1, <2>1, <2>4, <2>7, <3>1 DEF At
    <3>2. CASE u # t
      BY <1>1, <2>1, <2>5, <2>7, <3>2 DEF At, Inv, ChoiceInv
    <3>3. QED
      BY <3>1, <3>2
  <2>9. QED
    BY <1>1, <2>2, <2>3, <2>6, <2>8, KeepCopies DEF Inv
<1>5. QED
  BY <1>3, <1>4 DEF CheckPmsCodeState

LEMMA InstallFailsKeepsInv ==
    ASSUME Inv, NEW t \in Tabs, InstallFails(t)
    PROVE  Inv'
<1>1. UNCHANGED <<user, eHotel, online, held, list, editing, installs, doubtful, late>>
  BY DEF InstallFails, history, pages
<1>2. TypeOK'
  BY <1>1, FinishedCall DEF Inv, TypeOK, InstallFails
<1>3. QED
  BY <1>1, <1>2, FinishedCall, KeepCopies, CallGoes DEF Inv, InstallFails

-----------------------------------------------------------------------------
(* Steps that write a row of the table.                                    *)

\* A row that is written: the table stays well typed, and the others stay.
LEMMA WrittenRow ==
    ASSUME TypeOK, NEW h \in Hotels, NEW row \in Row, Written(h, row)
    PROVE  /\ eHotel' \in [Hotels -> Row]
           /\ eHotel'[h] = row
           /\ \A k \in Hotels : k # h => eHotel'[k] = eHotel[k]
  BY DEF TypeOK, Written

\* The copies stay true if what is written is.
LEMMA WrittenCopies ==
    ASSUME CopyInv, NEW h \in Hotels, Known(h, eHotel[h])',
           \A k \in Hotels : k # h => eHotel'[k] = eHotel[k],
           online' = online, held' = held, late \subseteq late'
    PROVE  CopyInv'
<1>1. \A k \in Hotels : Known(k, eHotel[k])'
  <2> SUFFICES ASSUME NEW k \in Hotels PROVE Known(k, eHotel[k])'
    OBVIOUS
  <2>1. CASE k = h
    BY <2>1
  <2>2. CASE k # h
    BY <2>2 DEF CopyInv, Known
  <2>3. QED
    BY <2>1, <2>2
<1>2. \A u \in Users : (held[u] # NoHotel => Known(held[u].hotel, held[u].row))'
  BY DEF CopyInv, Known
<1>3. QED
  BY <1>1, <1>2 DEF CopyInv

\* Calls stay true if the hotel stays unused or becomes late for them.
LEMMA WrittenCalls ==
    ASSUME CallInv, NEW h \in Hotels, UNCHANGED <<call, online>>,
           \A k \in Hotels : k # h => eHotel'[k] = eHotel[k],
           late \subseteq late',
           TypeOK,
           \/ eHotel'[h].state \in {eHotel[h].state, HotelInit}
           \/ \A t \in Tabs : Underway(t, h) => h \in late'
    PROVE  CallInv'
<1> SUFFICES ASSUME NEW t \in Tabs PROVE CallOk(t)'
  BY DEF CallInv
<1>1. call[t] # Idle => call[t].hotel \in Hotels
  BY CallFields
<1>2. CallOk(t)
  BY DEF CallInv
<1>3. CASE call[t] # Idle /\ call[t].hotel = h
  BY <1>2, <1>3 DEF CallOk, Underway
<1>4. CASE call[t] # Idle /\ call[t].hotel # h
  BY <1>1, <1>2, <1>4 DEF CallOk, Underway
<1>5. QED
  BY <1>3, <1>4 DEF CallOk

LEMMA InstallPmsKeepsInv ==
    ASSUME Inv, NEW t \in Tabs, InstallPms(t)
    PROVE  Inv'
<1> DEFINE h == call[t].hotel
           code == call[t].pms
           row == Installed(eHotel[h], code, call[t].type)
<1>1. UNCHANGED <<user, online, held, editing, installs, doubtful, late>>
  BY DEF InstallPms, history
<1>2. /\ call[t] # Idle /\ call[t].pc = "save" /\ h \in Hotels /\ code \in Codes
      /\ call[t].type \in {"NEW_PMS", "OLD_PMS"} /\ ~call[t].inUse
      /\ call[t].type = "NEW_PMS" => code \in online
      /\ eHotel[h].state = HotelInit \/ h \in late
  BY CallFields DEF Inv, InstallPms, At, CallInv, CallOk, Underway
<1>3. eHotel[h] \in Row
  BY <1>2 DEF Inv, TypeOK
<1>4. /\ row \in Row /\ row.pms = code /\ row.state = eHotel[h].state
      /\ row.isNewPms = "T" => call[t].type = "NEW_PMS"
  <2>1. CASE call[t].type = "NEW_PMS"
    BY <1>2, <1>3, <2>1 DEF Installed, Row, PmsStates
  <2>2. CASE call[t].type = "OLD_PMS"
    BY <1>2, <1>3, <2>2 DEF Installed, Row
  <2>3. QED
    BY <1>2, <2>1, <2>2
<1>5. Written(h, row)
  BY DEF InstallPms
<1>6. /\ call' \in [Tabs -> Call \cup {Idle}] /\ call'[t] = Idle
      /\ CallOk(t)' /\ ~At(t, "save")'
      /\ \A u \in Tabs : u # t => call'[u] = call[u]
  BY FinishedCall DEF Inv, InstallPms
<1> HIDE DEF row
<1>7. /\ eHotel' \in [Hotels -> Row] /\ eHotel'[h] = row
      /\ \A k \in Hotels : k # h => eHotel'[k] = eHotel[k]
  BY <1>2, <1>4, <1>5, WrittenRow DEF Inv
<1>8. TypeOK'
  <2>1. Listed' \in [Hotels -> PmsStates]
    BY <1>7, RowFields DEF Listed
  <2>2. list' \in [Tabs -> [Hotels -> PmsStates] \cup {NoList}]
    BY <2>1 DEF Inv, TypeOK, InstallPms
  <2>3. QED
    BY <1>1, <1>6, <1>7, <2>2 DEF Inv, TypeOK
<1>9. CopyInv'
  <2>1. Known(h, row)
    BY <1>2, <1>4 DEF Known, HotelInit, UNInitial
  <2>2. \A k \in Hotels : k = h => Known(k, eHotel[k])'
    BY <1>1, <1>7, <2>1 DEF Known
  <2>3. PICK k \in Hotels : k = h
    BY <1>2
  <2>4. Known(k, eHotel[k])' /\ \A j \in Hotels : j # k => eHotel'[j] = eHotel[j]
    BY <1>7, <2>2, <2>3
  <2>5. QED
    BY <1>1, <2>4, WrittenCopies DEF Inv
<1>10. CallInv'
  <2> SUFFICES ASSUME NEW u \in Tabs PROVE CallOk(u)'
    BY DEF CallInv
  <2>1. CASE u = t
    BY <1>6, <2>1
  <2>2. CASE u # t
    <3>1. CallOk(u) /\ call'[u] = call[u]
          /\ (call[u] # Idle => eHotel'[call[u].hotel].state = eHotel[call[u].hotel].state)
      BY <1>4, <1>6, <1>7, <2>2, CallFields DEF Inv, CallInv
    <3>2. QED
      BY <1>1, <3>1 DEF CallOk, Underway
  <2>3. QED
    BY <2>1, <2>2
<1>11. code \notin doubtful =>
          /\ \A k \in Hotels : eHotel[k].pms = code => k = h
          /\ \A u \in Tabs : At(u, "save") /\ call[u].pms = code => call[u].hotel = h
  BY <1>2 DEF Inv, ChoiceInv, At
<1>12. ChoiceInv'
  <2>1. \A u \in Tabs : At(u, "save")' => u # t /\ At(u, "save") /\ call'[u] = call[u]
    BY <1>6 DEF At
  <2> SUFFICES ASSUME NEW u \in Tabs, At(u, "save")', call'[u].pms \notin doubtful'
               PROVE  /\ \A k \in Hotels : eHotel'[k].pms = call'[u].pms => k = call'[u].hotel
                      /\ \A v \in Tabs : At(v, "save")' /\ call'[v].pms = call'[u].pms
                                             => call'[v].hotel = call'[u].hotel
    BY DEF ChoiceInv
  <2>2. /\ \A k \in Hotels : eHotel[k].pms = call[u].pms => k = call[u].hotel
        /\ \A v \in Tabs : At(v, "save") /\ call[v].pms = call[u].pms
                               => call[v].hotel = call[u].hotel
    BY <1>1, <2>1 DEF Inv, ChoiceInv
  <2>3. call[u].pms = code => call[u].hotel = h
    BY <1>2, <2>2 DEF At
  <2>4. QED
    BY <1>2, <1>4, <1>7, <2>1, <2>2, <2>3
<1>13. OneHotelPerCode'
  BY <1>1, <1>2, <1>4, <1>7, <1>11 DEF Inv, OneHotelPerCode
<1>14. QED
  BY <1>8, <1>9, <1>10, <1>12, <1>13 DEF Inv

LEMMA SaveHeldRowKeepsInv ==
    ASSUME Inv, NEW t \in Tabs, SaveHeldRow(t)
    PROVE  Inv'
<1>1. UNCHANGED <<user, online, held, list, editing, call, installs>>
  BY DEF SaveHeldRow, pages
<1>2. PICK h \in Hotels, row \in Row :
         /\ Known(h, row)
         /\ Written(h, row)
         /\ doubtful' = IF row.pms \in {NoCode, eHotel[h].pms} THEN doubtful
                        ELSE doubtful \cup {row.pms}
         /\ IF row.state = UNInitial THEN ComesIntoUse(h) ELSE UNCHANGED late
  BY CallFields DEF Inv, CopyInv, SaveHeldRow
<1>3. /\ eHotel' \in [Hotels -> Row] /\ eHotel'[h] = row
      /\ \A k \in Hotels : k # h => eHotel'[k] = eHotel[k]
  BY <1>2, WrittenRow DEF Inv
<1>4. /\ late \subseteq late' /\ late' \in SUBSET Hotels
      /\ row.state = UNInitial => \A u \in Tabs : Underway(u, h) => h \in late'
  BY <1>2, LateGrows DEF Inv, TypeOK
<1>5. doubtful \subseteq doubtful' /\ doubtful' \in SUBSET Codes
      /\ (row.pms \in {NoCode, eHotel[h].pms} \/ row.pms \in doubtful')
  BY <1>2, RowFields DEF Inv, TypeOK
<1>6. TypeOK'
  BY <1>1, <1>3, <1>4, <1>5 DEF Inv, TypeOK
<1>7. CopyInv'
  <2>1. Known(h, eHotel[h])'
    BY <1>1, <1>2, <1>3, <1>4 DEF Known
  <2>2. QED
    BY <1>1, <1>3, <1>4, <2>1, WrittenCopies DEF Inv
<1>8. CallInv'
  <2>1. row.state \in {HotelInit, UNInitial}
    BY RowFields
  <2>2. QED
    BY <1>1, <1>3, <1>4, <2>1, WrittenCalls DEF Inv
<1>9. \A c \in Codes \ doubtful', k \in Hotels : eHotel'[k].pms = c => eHotel[k].pms = c
  BY <1>3, <1>5
<1>10. ChoiceInv'
  <2>1. \A u \in Tabs : At(u, "save") => call[u].pms \in Codes
    BY CallFields DEF Inv, At
  <2>2. QED
    BY <1>1, <1>5, <1>9, <2>1 DEF Inv, ChoiceInv, At
<1>11. OneHotelPerCode'
  <2> SUFFICES ASSUME NEW g \in Hotels, NEW k \in Hotels, g # k,
                      eHotel'[g].pms = eHotel'[k].pms, eHotel'[g].pms # NoCode,
                      eHotel'[g].pms \notin doubtful'
               PROVE  FALSE
    BY DEF OneHotelPerCode
  <2>1. eHotel'[g].pms \in Codes
    BY <1>3, RowFields
  <2>2. eHotel[g].pms = eHotel'[g].pms /\ eHotel[k].pms = eHotel'[g].pms
    BY <1>9, <2>1
  <2>3. QED
    BY <1>5, <2>2 DEF Inv, OneHotelPerCode
<1>12. QED
  BY <1>6, <1>7, <1>8, <1>10, <1>11 DEF Inv

LEMMA PmsKeepsInv ==
    ASSUME Inv, NEW h \in Hotels, Pms(h)
    PROVE  Inv'
<1>1. UNCHANGED <<user, online, held, list, editing, call, installs, doubtful>>
  BY DEF Pms, PmsMatches, PmsSynchronises, history, pages
<1>2. eHotel[h] \in Row /\ Known(h, eHotel[h])
  BY DEF Inv, TypeOK, CopyInv
<1>3. PICK row \in Row :
         /\ Written(h, row)
         /\ row.pms = eHotel[h].pms /\ row.isNewPms = eHotel[h].isNewPms
         /\ row.pms # NoCode
         /\ row.state = UNInitial =>
               \/ row.pmsStatus = Synchronous
               \/ eHotel[h].state = UNInitial /\ eHotel[h].pmsStatus = PmsInit
         /\ \/ row.state = eHotel[h].state /\ UNCHANGED late
            \/ ComesIntoUse(h)
  <2>1. CASE PmsMatches(h)
    <3>1. [eHotel[h] EXCEPT !.pmsStatus = Match] \in Row
      BY <1>2 DEF Row, PmsStates
    <3>2. QED
      BY <1>2, <2>1, <3>1 DEF PmsMatches, history, Row
  <2>2. CASE PmsSynchronises(h)
    <3>1. [eHotel[h] EXCEPT !.pmsStatus = Synchronous, !.state = UNInitial] \in Row
      BY <1>2 DEF Row, PmsStates
    <3>2. eHotel[h].pms # NoCode
      BY <1>2, <2>2 DEF Known, PmsSynchronises, Match, PmsInit
    <3>3. QED
      BY <1>2, <2>2, <3>1, <3>2 DEF PmsSynchronises, Row
  <2>3. QED
    BY <2>1, <2>2 DEF Pms
<1>4. /\ eHotel' \in [Hotels -> Row] /\ eHotel'[h] = row
      /\ \A k \in Hotels : k # h => eHotel'[k] = eHotel[k]
  BY <1>3, WrittenRow DEF Inv
<1>5. /\ late \subseteq late' /\ late' \in SUBSET Hotels
      /\ \/ row.state = eHotel[h].state
         \/ \A u \in Tabs : Underway(u, h) => h \in late'
  BY <1>3, LateGrows DEF Inv, TypeOK
<1>6. TypeOK'
  BY <1>1, <1>4, <1>5 DEF Inv, TypeOK
<1>7. CopyInv'
  <2>1. Known(h, eHotel[h])'
    BY <1>1, <1>2, <1>3, <1>4, <1>5 DEF Known, PmsInit, Synchronous
  <2>2. QED
    BY <1>1, <1>4, <1>5, <2>1, WrittenCopies DEF Inv
<1>8. CallInv'
  BY <1>1, <1>4, <1>5, WrittenCalls DEF Inv
<1>9. ChoiceInv' /\ OneHotelPerCode'
  BY <1>1, <1>3, <1>4, SameCodes DEF Inv
<1>10. QED
  BY <1>6, <1>7, <1>8, <1>9 DEF Inv

-----------------------------------------------------------------------------
(* The theorems.                                                           *)

LEMMA InitInv == Init => Inv
<1> SUFFICES ASSUME Init PROVE Inv
  OBVIOUS
<1>1. Registered \in Row /\ Registered.pms = NoCode
  BY DEF Registered, Row, PmsStates
<1>2. \A h \in Hotels : eHotel[h] = Registered
  BY DEF Init
<1>3. TypeOK
  BY <1>1 DEF Init, TypeOK
<1>4. CopyInv
  BY <1>2 DEF Init, CopyInv, Known, Registered, HotelInit, UNInitial
<1>5. CallInv /\ ChoiceInv
  BY DEF Init, CallInv, CallOk, ChoiceInv, At
<1>6. OneHotelPerCode
  BY <1>1, <1>2 DEF OneHotelPerCode
<1>7. QED
  BY <1>3, <1>4, <1>5, <1>6 DEF Inv

LEMMA NextInv == Inv /\ [Next]_vars => Inv'
<1> SUFFICES ASSUME Inv, [Next]_vars PROVE Inv'
  OBVIOUS
<1>1. CASE UNCHANGED vars
  <2>1. TypeOK'
    BY <1>1 DEF Inv, TypeOK, vars, pages, history
  <2>2. QED
    BY <1>1, <2>1, KeepCopies, CallsStay DEF Inv, vars, pages, history
<1>2. ASSUME NEW t \in Tabs, Page(t) PROVE Inv'
  <2>1. CASE \E h \in Hotels : OpenHotel(t, h)
    BY <2>1, OpenHotelKeepsInv
  <2>2. CASE \E h \in Hotels : Install(t, h)
    BY <2>2, InstallKeepsInv
  <2>3. CASE LoadList(t) \/ SaveHeldRow(t)
    BY <2>3, LoadListKeepsInv, SaveHeldRowKeepsInv
  <2>4. QED
    BY <1>2, <2>1, <2>2, <2>3 DEF Page
<1>3. ASSUME NEW t \in Tabs, Serve(t) PROVE Inv'
  BY <1>3, ReadHotelKeepsInv, HoldHotelKeepsInv, PostKeepsInv, CheckKeepsInv,
     InstallPmsKeepsInv, InstallFailsKeepsInv DEF Serve
<1>4. ASSUME NEW h \in Hotels, Pms(h) PROVE Inv'
  BY <1>4, PmsKeepsInv
<1>5. QED
  BY <1>1, <1>2, <1>3, <1>4 DEF Next

THEOREM InstallInv == Spec => []Inv
<1>1. QED
  BY InitInv, NextInv, PTL DEF Spec

\* Type correctness of every reachable state.
THEOREM InstallTypeOK == Spec => []TypeOK
  BY InstallInv, PTL DEF Inv

\* A code belongs to one hotel, unless two calls have chosen it at once or a
\* session has brought it back.
THEOREM InstallOneHotelPerCode == Spec => []OneHotelPerCode
  BY InstallInv, PTL DEF Inv

\* A hotel in use is connected, unless a call that saw it unused was late.
THEOREM InstallInUseIsConnected == Spec => []InUseIsConnected
<1>1. Inv => InUseIsConnected
  BY DEF Inv, CopyInv, Known, InUseIsConnected, Connected, Synchronous, PmsInit
<1>2. QED
  BY <1>1, InstallInv, PTL
=============================================================================
