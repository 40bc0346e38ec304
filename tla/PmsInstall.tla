----------------------------- MODULE PmsInstall -----------------------------
(***************************************************************************)
(* Installing the PMS of a hotel.                                          *)
(*                                                                         *)
(* A registered hotel is connected to a property management system (PMS,   *)
(* external) by the code the PMS knows it under.  A user picks the hotel   *)
(* from a list that may be old by then and enters a code.  A new PMS is    *)
(* asked over HTTP to put the hotel on line before the code is checked and *)
(* saved; for an old PMS the code is just checked and saved.  The PMS goes *)
(* on from there: it matches the hotel, synchronises its room types, and   *)
(* the hotel is in use.                                                    *)
(*                                                                         *)
(* Every statement of a call is an action (see HotelRule).  Between its    *)
(* statements the PMS goes on, other calls are served, and another page of *)
(* the same user writes back the whole row its session holds, which the    *)
(* installation itself has put there (see HotelReview).                    *)
(*                                                                         *)
(* Left out: the log of operations, the name of the hotel in the PMS, and  *)
(* saves of a hotel that write single columns or a row just read.          *)
(***************************************************************************)
EXTENDS Integers, FiniteSets

CONSTANTS
    Hotels,      \* hotel ids
    Codes,       \* codes of hotels in the PMS
    Users,       \* users who install and edit, with a session each
    Tabs,        \* pages in their browsers
    MaxInstalls, \* bound: calls of installPms
    NoCode,      \* a hotel without a code
    NoHotel,     \* a session without a hotel
    NoList,      \* a page that does not show the list
    Idle         \* a page that is waiting for no installation

ASSUME MaxInstallsAssumption == MaxInstalls \in Nat

\* HmsEHotelPmsStatusEnum
PmsInit == 0
Match == 1        \* matched, being synchronised
Synchronous == 2  \* room types and prices are synchronised
PmsStates == {PmsInit, Match, Synchronous}

\* HmsEHotelStatusEnum: a hotel is in use from UNInitial on; what comes after
\* is the subject of HotelReview.
HotelInit == -1
UNInitial == 0

\* The columns of e_hotel that matter here.
Row == [pms : Codes \cup {NoCode}, isNewPms : {"T", "F"},
        pmsStatus : PmsStates, state : {HotelInit, UNInitial}]

Registered == [pms |-> NoCode, isNewPms |-> "F",
               pmsStatus |-> PmsInit, state |-> HotelInit]

\* A call of installPms: what it was sent with, whether the row it read was in
\* use, and its next statement.
Steps == {"read", "hold", "post", "check", "save"}
Call == [hotel : Hotels, pms : Codes, type : {"NEW_PMS", "OLD_PMS"},
         inUse : BOOLEAN, pc : Steps]

HeldHotel == [hotel : Hotels, row : Row]

ASSUME InstallNullsAssumption ==
    /\ NoCode \notin Codes
    /\ NoHotel \notin Hotels \cup HeldHotel
    /\ NoList \notin [Hotels -> PmsStates]
    /\ Idle \notin Call

VARIABLES
    eHotel,   \* e_hotel
    online,   \* external: codes the new PMS has put on line
    user,     \* the user of each page
    held,     \* the hotel each user's session holds
    list,     \* the pmsStatus of the hotels as a page's list shows it
    editing,  \* whether a page shows a hotel that may be edited
    call,     \* the installation each page is waiting for (isInstalling)
    installs, \* how many there have been
    doubtful, \* history: codes chosen by two calls at once, or brought back
    late      \* history: hotels in use while a call that saw them unused goes on

pages == <<list, editing>>
history == <<doubtful, late>>
vars == <<eHotel, online, user, held, pages, call, installs, history>>

TypeOK ==
    /\ eHotel \in [Hotels -> Row]
    /\ online \in SUBSET Codes
    /\ user \in [Tabs -> Users]
    /\ held \in [Users -> HeldHotel \cup {NoHotel}]
    /\ list \in [Tabs -> [Hotels -> PmsStates] \cup {NoList}]
    /\ editing \in [Tabs -> BOOLEAN]
    /\ call \in [Tabs -> Call \cup {Idle}]
    /\ installs \in 0..MaxInstalls
    /\ doubtful \in SUBSET Codes
    /\ late \in SUBSET Hotels

Init ==
    /\ eHotel = [h \in Hotels |-> Registered]
    /\ online = {}
    /\ user \in [Tabs -> Users]
    /\ held = [u \in Users |-> NoHotel]
    /\ list = [t \in Tabs |-> NoList]
    /\ editing = [t \in Tabs |-> FALSE]
    /\ call = [t \in Tabs |-> Idle]
    /\ installs = 0
    /\ doubtful = {}
    /\ late = {}

At(t, pc) == call[t] # Idle /\ call[t].pc = pc

\* Calls that are past the look at the row they refuse by, and not refused.
Underway(t, h) ==
    /\ call[t] # Idle
    /\ call[t].hotel = h
    /\ call[t].pc # "read"
    /\ ~call[t].inUse

\* A hotel comes into use, whoever says so.
ComesIntoUse(h) ==
    late' = IF \E t \in Tabs : Underway(t, h) THEN late \cup {h} ELSE late

Goto(t, pc) == call' = [call EXCEPT ![t].pc = pc]

\* The answer, after the log is written: the page waits no longer.
Finish(t) == call' = [call EXCEPT ![t] = Idle]

-----------------------------------------------------------------------------
(* The pages.                                                              *)

\* loadData
Listed == [h \in Hotels |-> eHotel[h].pmsStatus]

LoadList(t) ==
    /\ list' = [list EXCEPT ![t] = Listed]
    /\ editing' = [editing EXCEPT ![t] = FALSE]
    /\ UNCHANGED <<user, eHotel, online, held, call, installs, history>>

\* readHotel, editHotel: pmsHotel puts the row into the session. A hotel that
\* the list shows without a working PMS can be looked at only.
OpenHotel(t, h) ==
    /\ list[t] # NoList
    /\ held' = [held EXCEPT ![user[t]] = [hotel |-> h, row |-> eHotel[h]]]
    /\ editing' = [editing EXCEPT ![t] = list[t][h] = Synchronous]
    /\ list' = [list EXCEPT ![t] = NoList]
    /\ UNCHANGED <<user, eHotel, online, call, installs, history>>

\* install, for a hotel the list shows without a PMS. The window in between
\* shows a row of the list, and may be closed while it waits. A new PMS may be
\* told the code or its own id for the hotel and answers with the code: both
\* are the code here. The second call of a page that has closed its window
\* counts as a call of another page of its user.
Install(t, h) ==
    /\ list[t] # NoList
    /\ list[t][h] = PmsInit
    /\ call[t] = Idle
    /\ installs < MaxInstalls
    /\ installs' = installs + 1
    /\ \E code \in Codes, type \in {"NEW_PMS", "OLD_PMS"} :
          call' = [call EXCEPT ![t] = [hotel |-> h, pms |-> code, type |-> type,
                                       inUse |-> FALSE, pc |-> "read"]]
    /\ UNCHANGED <<user, eHotel, online, held, pages, history>>

Written(h, row) ==
    eHotel' = [eHotel EXCEPT ![h] = row]

\* saveTraffic, savePeripheral: the whole row the session holds, which may be
\* that of another hotel than the page's.
SaveHeldRow(t) ==
    /\ editing[t]
    /\ held[user[t]] # NoHotel
    /\ LET h == held[user[t]].hotel
           row == held[user[t]].row
       IN  /\ Written(h, row)
           /\ doubtful' = IF row.pms \in {NoCode, eHotel[h].pms} THEN doubtful
                          ELSE doubtful \cup {row.pms}
           /\ IF row.state = UNInitial THEN ComesIntoUse(h) ELSE UNCHANGED late
    /\ UNCHANGED <<user, online, held, pages, call, installs>>

-----------------------------------------------------------------------------
(* installPms, statement by statement.                                     *)

\* findMyEHotelById
ReadHotel(t) ==
    /\ At(t, "read")
    /\ call' = [call EXCEPT ![t].pc = "hold",
                            ![t].inUse = eHotel[call[t].hotel].state > HotelInit]
    /\ UNCHANGED <<user, eHotel, online, held, pages, installs, history>>

\* Mutant: a hotel that is in use is not refused.
HoldHotelAnyway(t) ==
    /\ At(t, "hold")
    /\ LET h == call[t].hotel
       IN  held' = [held EXCEPT ![user[t]] = [hotel |-> h, row |-> eHotel[h]]]
    /\ Goto(t, IF call[t].type = "NEW_PMS" THEN "post" ELSE "check")
    /\ UNCHANGED <<user, eHotel, online, pages, installs, history>>

\* The row is read once more, for the session. Then a hotel that was in use
\* is refused.
HoldHotel(t) ==
    /\ At(t, "hold")
    /\ LET h == call[t].hotel
       IN  held' = [held EXCEPT ![user[t]] = [hotel |-> h, row |-> eHotel[h]]]
    /\ IF call[t].inUse THEN Finish(t)
       ELSE Goto(t, IF call[t].type = "NEW_PMS" THEN "post" ELSE "check")
    /\ UNCHANGED <<user, eHotel, online, pages, installs, history>>

\* installNewPms: the new PMS puts the hotel on line...
PostSucceeds(t) ==
    /\ At(t, "post")
    /\ online' = online \cup {call[t].pms}
    /\ Goto(t, "check")
    /\ UNCHANGED <<user, eHotel, held, pages, installs, history>>

\* ...or refuses, or is not heard, whatever it has done.
PostFails(t) ==
    /\ At(t, "post")
    /\ online' \in {online, online \cup {call[t].pms}}
    /\ Finish(t)
    /\ UNCHANGED <<user, eHotel, held, pages, installs, history>>

\* Mutant: hotels that wait for their PMS are overlooked.
FindInstalledByPms(code) ==
    {h \in Hotels : eHotel[h].pms = code /\ eHotel[h].pmsStatus # PmsInit}

\* Hotels with a code.
FindByPms(code) == {h \in Hotels : eHotel[h].pms = code}

\* Another call has chosen the same code for another hotel.
Raced(t) ==
    \E u \in Tabs \ {t} : /\ At(u, "save")
                          /\ call[u].pms = call[t].pms
                          /\ call[u].hotel # call[t].hotel

\* checkPmsCodeState: no other hotel has the code.
CheckPmsCodeState(t) ==
    /\ At(t, "check")
    /\ IF FindByPms(call[t].pms) \subseteq {call[t].hotel}
       THEN /\ Goto(t, "save")
            /\ doubtful' = IF Raced(t) THEN doubtful \cup {call[t].pms} ELSE doubtful
       ELSE /\ Finish(t)
            /\ UNCHANGED doubtful
    /\ UNCHANGED <<user, eHotel, online, held, pages, installs, late>>

\* Mutant: the status is advanced and not set.
InstalledFurther(row, code, type) ==
    IF type = "NEW_PMS"
    THEN [row EXCEPT !.pms = code, !.isNewPms = "T", !.pmsStatus = @ + 1]
    ELSE [row EXCEPT !.pms = code, !.isNewPms = "F"]

\* The row after updateEHotelPms (old PMS) and updateEHotelPms2 (new PMS).
Installed(row, code, type) ==
    IF type = "NEW_PMS"
    THEN [row EXCEPT !.pms = code, !.isNewPms = "T", !.pmsStatus = Match]
    ELSE [row EXCEPT !.pms = code, !.isNewPms = "F"]

\* updateEHotelPms. Success loads the list again, if the page still shows it
\* and the user's session has not ended.
InstallPms(t) ==
    /\ At(t, "save")
    /\ LET h == call[t].hotel
       IN  Written(h, Installed(eHotel[h], call[t].pms, call[t].type))
    /\ Finish(t)
    /\ \/ list[t] # NoList /\ list' = [list EXCEPT ![t] = Listed']
       \/ UNCHANGED list
    /\ UNCHANGED <<user, online, held, editing, installs, history>>

\* The statement throws.
InstallFails(t) ==
    /\ At(t, "save")
    /\ Finish(t)
    /\ UNCHANGED <<user, eHotel, online, held, pages, installs, history>>

-----------------------------------------------------------------------------
(* The PMS (external) writes the same table.                               *)

\* An old PMS finds the hotel by its code.
PmsMatches(h) ==
    /\ eHotel[h].pms # NoCode
    /\ eHotel[h].isNewPms = "F"
    /\ eHotel[h].pmsStatus = PmsInit
    /\ Written(h, [eHotel[h] EXCEPT !.pmsStatus = Match])
    /\ UNCHANGED <<user, online, held, pages, call, installs, history>>

\* A matched hotel is synchronised and comes into use.
PmsSynchronises(h) ==
    /\ eHotel[h].pmsStatus = Match
    /\ Written(h, [eHotel[h] EXCEPT !.pmsStatus = Synchronous, !.state = UNInitial])
    /\ ComesIntoUse(h)
    /\ UNCHANGED <<user, online, held, pages, call, installs, doubtful>>

-----------------------------------------------------------------------------
Page(t) ==
    \/ LoadList(t) \/ SaveHeldRow(t)
    \/ \E h \in Hotels : OpenHotel(t, h) \/ Install(t, h)

Serve(t) ==
    \/ ReadHotel(t) \/ HoldHotel(t) \/ PostSucceeds(t) \/ PostFails(t)
    \/ CheckPmsCodeState(t) \/ InstallPms(t) \/ InstallFails(t)

Pms(h) == PmsMatches(h) \/ PmsSynchronises(h)

Next ==
    \/ \E t \in Tabs : Page(t) \/ Serve(t)
    \/ \E h \in Hotels : Pms(h)

Spec == Init /\ [][Next]_vars

-----------------------------------------------------------------------------
\* However many installations, lists and stale rows there are, a code belongs
\* to one hotel (checkPmsCodeState), unless two calls have chosen it at once or
\* a session has brought it back.
OneHotelPerCode ==
    \A g, h \in Hotels :
        g # h /\ eHotel[g].pms = eHotel[h].pms /\ eHotel[g].pms # NoCode
            => eHotel[g].pms \in doubtful

\* A hotel that is in use has been synchronised under the code it has, and if
\* that is one of a new PMS, this PMS has put it on line. No refused, failed,
\* repeated or late call and no stale row takes that away, except for a call
\* that saw the hotel unused and was still under way when it came into use.
Connected(row) ==
    /\ row.pms # NoCode
    /\ row.pmsStatus = Synchronous
    /\ row.isNewPms = "T" => row.pms \in online

InUseIsConnected ==
    \A h \in Hotels : eHotel[h].state = UNInitial => h \in late \/ Connected(eHotel[h])
=============================================================================
