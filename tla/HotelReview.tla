----------------------------- MODULE HotelReview -----------------------------
(***************************************************************************)
(* Editing, submitting, reviewing and publishing a hotel.                  *)
(*                                                                         *)
(* A hotel is edited in the e_ tables. Its owner submits it, a reviewer    *)
(* checks it, and checkEHotel copies it table by table to the t_ tables    *)
(* that guests see, tells the OTS cache, and gives the draft back to the   *)
(* owner.  A reviewer may also take a published hotel off line or put it   *)
(* back.  Every mapper call commits on its own (see HotelRule), so each    *)
(* statement of a request is an action, and requests of different sessions *)
(* interleave.                                                             *)
(*                                                                         *)
(* A session holds the row of the hotel it opened last. saveTraffic,       *)
(* savePeripheral and updateHotelCredentialsPic change one column of that  *)
(* held row and write the whole of it to e_hotel; saveBussinesszones reads *)
(* the row and writes all of it; saveHotelInfoPic writes one column.       *)
(*                                                                         *)
(* The hotels here have their PMS installed and synchronised, their        *)
(* required items filled in, and room types with prices.                   *)
(***************************************************************************)
EXTENDS Integers, FiniteSets

CONSTANTS
    Hotels,       \* hotel ids
    Editors,      \* sessions of people who edit hotels
    Reviewers,    \* sessions of people with the reviewer role
    RowSaves,     \* whole-row saves that are used: "session", "fresh"
    MaxText,      \* bound: saves of a hotel's texts
    FaultKinds,   \* kinds of fault that may happen
    MaxFaults,    \* bound: faults in a behaviour
    NoHotel,      \* a session that has opened no hotel
    NotPublished, \* a hotel without a row in t_hotel
    NotCached,    \* a hotel the OTS cache does not know
    NoRow,        \* a request that has read no row
    Idle          \* a session that is waiting for no request

Sessions == Editors \cup Reviewers

ASSUME MaxTextAssumption == MaxText \in Nat
ASSUME MaxFaultsAssumption == MaxFaults \in Nat
ASSUME RowSavesAssumption == RowSaves \subseteq {"session", "fresh"}
ASSUME ReviewFaultKindsAssumption == FaultKinds \subseteq {"crash", "io"}

\* HmsEHotelStatusEnum
UNInitial == 0       \* not reviewed for the first time yet
Submit == 3          \* submitted for the first review
ManagerEditing == 4  \* with the owner, has been on line once
Editing == 5         \* under review, has been on line once
States == {UNInitial, Submit, ManagerEditing, Editing}
UnderReview == {Submit, Editing}
Reviewed == {ManagerEditing, Editing}

Flags == {"T", "F"}

\* A row of e_hotel. The texts of a hotel (name, traffic, pictures...) are
\* one version number; text 0 is what the hotel was registered with.
Texts == 0..MaxText
Row == [state : States, visible : Flags, text : Texts]

\* A row of t_hotel. visible stands for the columns visible and online, which
\* are always written together.
Published == [visible : Flags, text : Texts]

\* A request that is being served: the hotel, the row it has read and the
\* statement it executes next.
EditSteps == {"zones", "submit"}
CopySteps == {"clear", "clearAgain", "facilities", "rooms",
              "dropServices", "addServices", "post", "accept"}
ReviewSteps == {"find", "insert", "update"} \cup CopySteps
LineSteps == {"offT", "offE", "onE", "onPost", "undoT", "undoE"}
Request == [hotel : Hotels, row : Row \cup {NoRow},
            pc : EditSteps \cup ReviewSteps \cup LineSteps]

\* What a session holds. Only editors use more of it than the id.
HeldHotel == [hotel : Hotels, row : Row \cup {NoRow}]

ASSUME ReviewNullsAssumption ==
    /\ NoHotel \notin HeldHotel
    /\ NotPublished \notin Published \cup Texts
    /\ NotCached \notin Texts
    /\ NoRow \notin Row
    /\ Idle \notin Request

VARIABLES
    draft,      \* e_hotel
    saves,      \* how many times the texts of a hotel have been saved
    submitted,  \* the text of a hotel when it was last submitted
    pub,        \* t_hotel
    rooms,      \* t_roomtype_info: copies of each room type's row
    facilities, \* t_roomtype_facility: copies of each row, counted up to 2
    services,   \* t_hotel_facility: hotels whose facilities are listed
    cache,      \* the text of a hotel the OTS cache holds
    held,       \* the hotel each session holds
    pages,      \* hotels a session's pages offer for review
    req,        \* the request each session is waiting for
    faults      \* faults so far

drafts == <<draft, saves, submitted>>
details == <<rooms, facilities, services>>
browser == <<held, pages>>
vars == <<drafts, pub, details, cache, browser, req, faults>>

TypeOK ==
    /\ draft \in [Hotels -> Row]
    /\ saves \in [Hotels -> Texts]
    /\ submitted \in [Hotels -> Texts]
    /\ pub \in [Hotels -> Published \cup {NotPublished}]
    /\ rooms \in [Hotels -> Nat]
    /\ facilities \in [Hotels -> 0..2]
    /\ services \in [Hotels -> SUBSET Hotels]
    /\ cache \in [Hotels -> Texts \cup {NotCached}]
    /\ held \in [Sessions -> HeldHotel \cup {NoHotel}]
    /\ pages \in [Sessions -> SUBSET Hotels]
    /\ req \in [Sessions -> Request \cup {Idle}]
    /\ faults \in 0..MaxFaults

Init ==
    /\ draft = [h \in Hotels |-> [state |-> UNInitial, visible |-> "T", text |-> 0]]
    /\ saves = [h \in Hotels |-> 0]
    /\ submitted = [h \in Hotels |-> 0]
    /\ pub = [h \in Hotels |-> NotPublished]
    /\ rooms = [h \in Hotels |-> 0]
    /\ facilities = [h \in Hotels |-> 0]
    /\ services = [h \in Hotels |-> {}]
    /\ cache = [h \in Hotels |-> NotCached]
    /\ held = [s \in Sessions |-> NoHotel]
    /\ pages = [s \in Sessions |-> {}]
    /\ req = [s \in Sessions |-> Idle]
    /\ faults = 0

-----------------------------------------------------------------------------
(* Requests.                                                               *)

Begin(s, h, row, pc) ==
    /\ req[s] = Idle
    /\ req' = [req EXCEPT ![s] = [hotel |-> h, row |-> row, pc |-> pc]]

At(s, pc) == req[s] # Idle /\ req[s].pc = pc
Goto(s, pc) == req' = [req EXCEPT ![s].pc = pc]
Done(s) == req' = [req EXCEPT ![s] = Idle]

Fault(kind) ==
    /\ kind \in FaultKinds
    /\ faults < MaxFaults
    /\ faults' = faults + 1

\* An exception ends the request; what it has written stays.
Abort(s) ==
    /\ req[s] # Idle
    /\ Fault("crash")
    /\ Done(s)
    /\ UNCHANGED <<drafts, pub, details, cache, browser>>

-----------------------------------------------------------------------------
(* Opening and editing.                                                    *)

\* Mutant: the list offers every hotel for review.
OffersReviewAlways(row) == row.visible = "T"

\* The hotels a list shows the review button for.
OffersReview(row) == row.state \in UnderReview /\ row.visible = "T"

\* The session reads the row and holds it, whatever its other pages show.
OpenHotel(s, h) ==
    /\ held' = [held EXCEPT ![s] =
                  [hotel |-> h, row |-> IF s \in Editors THEN draft[h] ELSE NoRow]]
    /\ pages' = [pages EXCEPT ![s] =
                   IF s \in Reviewers /\ OffersReview(draft[h]) THEN @ \cup {h} ELSE @]
    /\ UNCHANGED <<drafts, pub, details, cache, req, faults>>

\* A save brings a new text.
NextText(h) ==
    /\ saves[h] < MaxText
    /\ saves' = [saves EXCEPT ![h] = @ + 1]

\* saveTraffic and savePeripheral: the held row with the new text replaces the
\* row of e_hotel, its state and visible included.
SaveHeldRow(s) ==
    /\ "session" \in RowSaves
    /\ s \in Editors
    /\ held[s] # NoHotel
    /\ LET h == held[s].hotel
           row == [held[s].row EXCEPT !.text = saves[h] + 1]
       IN  /\ NextText(h)
           /\ held' = [held EXCEPT ![s] = [hotel |-> h, row |-> row]]
           /\ draft' = [draft EXCEPT ![h] = row]
    /\ UNCHANGED <<submitted, pub, details, cache, pages, req, faults>>

\* saveBussinesszones reads the row afresh and puts the new text into it...
ReadRow(s) ==
    /\ "fresh" \in RowSaves
    /\ s \in Editors
    /\ held[s] # NoHotel
    /\ LET h == held[s].hotel
       IN  /\ NextText(h)
           /\ Begin(s, h, [draft[h] EXCEPT !.text = saves[h] + 1], "zones")
    /\ UNCHANGED <<draft, submitted, pub, details, cache, browser, faults>>

\* ...and writes all of it.
WriteRow(s) ==
    /\ At(s, "zones")
    /\ draft' = [draft EXCEPT ![req[s].hotel] = req[s].row]
    /\ Done(s)
    /\ UNCHANGED <<saves, submitted, pub, details, cache, browser, faults>>

\* saveHotelInfoPic writes a single column.
SavePic(s) ==
    /\ s \in Editors
    /\ held[s] # NoHotel
    /\ LET h == held[s].hotel
       IN  /\ NextText(h)
           /\ draft' = [draft EXCEPT ![h].text = saves[h] + 1]
    /\ UNCHANGED <<submitted, pub, details, cache, browser, req, faults>>

-----------------------------------------------------------------------------
(* submitHotlInfo.                                                         *)

\* Mutant: a hotel under review may be submitted again.
SubmitReadAnyState(s) ==
    /\ s \in Editors
    /\ held[s] # NoHotel
    /\ Begin(s, held[s].hotel, draft[held[s].hotel], "submit")
    /\ UNCHANGED <<drafts, pub, details, cache, browser, faults>>

\* The other states are refused.
SubmitRead(s) ==
    /\ s \in Editors
    /\ held[s] # NoHotel
    /\ LET h == held[s].hotel
       IN  /\ draft[h].state \in {UNInitial, ManagerEditing}
           /\ Begin(s, h, draft[h], "submit")
    /\ UNCHANGED <<drafts, pub, details, cache, browser, faults>>

\* Mutant: the first submission gets the state Initial, which is commented out.
SubmittedStateInitial(state) == IF state = UNInitial THEN 1 ELSE Editing

\* Mutant: the first submission is filed as a later one.
SubmittedStateSame(state) == Editing

SubmittedState(state) == IF state = UNInitial THEN Submit ELSE Editing

SubmitWrite(s) ==
    /\ At(s, "submit")
    /\ LET h == req[s].hotel
       IN  /\ draft' = [draft EXCEPT ![h].state = SubmittedState(req[s].row.state)]
           /\ submitted' = [submitted EXCEPT ![h] = draft[h].text]
    /\ Done(s)
    /\ UNCHANGED <<saves, pub, details, cache, browser, faults>>

-----------------------------------------------------------------------------
(* checkEHotel and copyEHotel2THotel.                                      *)

\* The row is read once. Its visible, PMS, rule and required items are
\* checked, its state is not.
StartReview(s, h) ==
    /\ s \in Reviewers
    /\ h \in pages[s]
    /\ draft[h].visible = "T"
    /\ Begin(s, h, draft[h], "find")
    /\ UNCHANGED <<drafts, pub, details, cache, browser, faults>>

FindTHotel(s) ==
    /\ At(s, "find")
    /\ Goto(s, IF pub[req[s].hotel] = NotPublished THEN "insert" ELSE "update")
    /\ UNCHANGED <<drafts, pub, details, cache, browser, faults>>

\* The row as it was read; needwait and on-line are set.
CopyOf(row) == [visible |-> row.visible, text |-> row.text]

InsertTHotel(s) ==
    /\ At(s, "insert")
    /\ pub[req[s].hotel] = NotPublished
    /\ pub' = [pub EXCEPT ![req[s].hotel] = CopyOf(req[s].row)]
    /\ Goto(s, "clear")
    /\ UNCHANGED <<drafts, details, cache, browser, faults>>

\* Another review inserted the row meanwhile: the primary key is taken.
InsertClashes(s) ==
    /\ At(s, "insert")
    /\ pub[req[s].hotel] # NotPublished
    /\ Done(s)
    /\ UNCHANGED <<drafts, pub, details, cache, browser, faults>>

\* Mutant: a hotel that has its row is taken to have its details.
UpdateTHotelOnly(s) ==
    /\ At(s, "update")
    /\ pub' = [pub EXCEPT ![req[s].hotel] = CopyOf(req[s].row)]
    /\ Goto(s, "post")
    /\ UNCHANGED <<drafts, details, cache, browser, faults>>

UpdateTHotel(s) ==
    /\ At(s, "update")
    /\ pub' = [pub EXCEPT ![req[s].hotel] = CopyOf(req[s].row)]
    /\ Goto(s, "clear")
    /\ UNCHANGED <<drafts, details, cache, browser, faults>>

\* The rows of t_roomtype_info are deleted, twice.
ClearRooms(s) ==
    /\ \/ At(s, "clear") /\ Goto(s, "clearAgain")
       \/ At(s, "clearAgain") /\ Goto(s, "facilities")
    /\ rooms' = [rooms EXCEPT ![req[s].hotel] = 0]
    /\ UNCHANGED <<drafts, pub, facilities, services, cache, browser, faults>>

\* The rows of t_roomtype_facility are added to those that are there.
AddFacilities(s) ==
    /\ At(s, "facilities")
    /\ facilities' = [facilities EXCEPT ![req[s].hotel] = IF @ = 2 THEN 2 ELSE @ + 1]
    /\ Goto(s, "rooms")
    /\ UNCHANGED <<drafts, pub, rooms, services, cache, browser, faults>>

\* Mutant: the batch insert of the room rows is left out.
AddRoomsForgotten(s) ==
    /\ At(s, "rooms")
    /\ Goto(s, "dropServices")
    /\ UNCHANGED <<drafts, pub, details, cache, browser, faults>>

AddRooms(s) ==
    /\ At(s, "rooms")
    /\ rooms' = [rooms EXCEPT ![req[s].hotel] = @ + 1]
    /\ Goto(s, "dropServices")
    /\ UNCHANGED <<drafts, pub, facilities, services, cache, browser, faults>>

DropServices(s) ==
    /\ At(s, "dropServices")
    /\ services' = [services EXCEPT ![req[s].hotel] = {}]
    /\ Goto(s, "addServices")
    /\ UNCHANGED <<drafts, pub, rooms, facilities, cache, browser, faults>>

\* Mutant: the insert of the facilities is left out.
AddServicesForgotten(s) ==
    /\ At(s, "addServices")
    /\ Goto(s, "post")
    /\ UNCHANGED <<drafts, pub, details, cache, browser, faults>>

\* The facilities are those of the hotel the session holds at this moment.
AddServices(s) ==
    /\ At(s, "addServices")
    /\ held[s] # NoHotel
    /\ services' = [services EXCEPT ![req[s].hotel] = @ \cup {held[s].hotel}]
    /\ Goto(s, "post")
    /\ UNCHANGED <<drafts, pub, rooms, facilities, cache, browser, faults>>

\* The cache reloads the published hotel.
Recache(h) == cache' = [cache EXCEPT ![h] = pub[h].text]

\* Mutant: a later review is not posted.
PostSucceedsOnce(s) ==
    /\ At(s, "post")
    /\ req[s].row.state \in UnderReview
    /\ IF req[s].row.state = Submit THEN Recache(req[s].hotel) ELSE UNCHANGED cache
    /\ Goto(s, "accept")
    /\ UNCHANGED <<drafts, pub, details, browser, faults>>

\* The OTS interface answers success. The address depends on the state the
\* row had: insert after Submit, update after Editing.
PostSucceeds(s) ==
    /\ At(s, "post")
    /\ req[s].row.state \in UnderReview
    /\ Recache(req[s].hotel)
    /\ Goto(s, "accept")
    /\ UNCHANGED <<drafts, pub, details, browser, faults>>

\* Mutant: a failed post is not looked at.
PostFailsUnseen(s) ==
    /\ At(s, "post")
    /\ req[s].row.state \in UnderReview
    /\ Goto(s, "accept")
    /\ UNCHANGED <<drafts, pub, details, cache, browser, faults>>

\* An error, or no answer, perhaps after the interface did its work: the
\* reviewer sees it, what was copied stays.
PostFails(s) ==
    /\ At(s, "post")
    /\ req[s].row.state \in UnderReview
    /\ Recache(req[s].hotel) \/ UNCHANGED cache
    /\ Done(s)
    /\ UNCHANGED <<drafts, pub, details, browser, faults>>

\* There is no address for the other states: an exception no one catches.
PostNowhere(s) ==
    /\ At(s, "post")
    /\ req[s].row.state \notin UnderReview
    /\ Done(s)
    /\ UNCHANGED <<drafts, pub, details, cache, browser, faults>>

\* An IOException is logged and taken for success, whether the interface has
\* done its work or not.
PostBreaks(s) ==
    /\ At(s, "post")
    /\ req[s].row.state \in UnderReview
    /\ Fault("io")
    /\ Recache(req[s].hotel) \/ UNCHANGED cache
    /\ Goto(s, "accept")
    /\ UNCHANGED <<drafts, pub, details, browser>>

\* Mutant: the page goes on offering the review.
AcceptPageStays(s) ==
    /\ At(s, "accept")
    /\ draft' = [draft EXCEPT ![req[s].hotel].state = ManagerEditing]
    /\ Done(s)
    /\ UNCHANGED <<saves, submitted, pub, details, cache, browser, faults>>

\* The draft goes back to its owner, and the reviewer's page closes.
Accept(s) ==
    /\ At(s, "accept")
    /\ draft' = [draft EXCEPT ![req[s].hotel].state = ManagerEditing]
    /\ pages' = [pages EXCEPT ![s] = @ \ {req[s].hotel}]
    /\ Done(s)
    /\ UNCHANGED <<saves, submitted, pub, details, cache, held, faults>>

-----------------------------------------------------------------------------
(* offlineHotel and onLineHotel.                                           *)

SetTHotelLine(s, flag, pc) ==
    /\ pub' = [pub EXCEPT ![req[s].hotel].visible = flag]
    /\ Goto(s, pc)
    /\ UNCHANGED <<drafts, details, cache, browser, faults>>

SetEHotelLine(s, flag) ==
    /\ draft' = [draft EXCEPT ![req[s].hotel].visible = flag]
    /\ UNCHANGED <<saves, submitted, pub, details, cache, browser, faults>>

\* The OTS interface agreed to take the hotel off line, or threw.
StartOffline(s, h) ==
    /\ s \in Reviewers
    /\ pub[h] # NotPublished
    /\ Begin(s, h, NoRow, "offT")
    /\ UNCHANGED <<drafts, pub, details, cache, browser, faults>>

OfflineTHotel(s) == At(s, "offT") /\ SetTHotelLine(s, "F", "offE")

\* Mutant: resetEHotelLine is given the wrong flag.
OfflineEHotelVisible(s) == At(s, "offE") /\ SetEHotelLine(s, "T") /\ Done(s)

OfflineEHotel(s) == At(s, "offE") /\ SetEHotelLine(s, "F") /\ Done(s)

\* Both rows are put on line before the interface is asked.
StartOnline(s, h) ==
    /\ s \in Reviewers
    /\ pub[h] # NotPublished
    /\ Begin(s, h, NoRow, "onE")
    /\ pub' = [pub EXCEPT ![h].visible = "T"]
    /\ UNCHANGED <<drafts, details, cache, browser, faults>>

OnlineEHotel(s) == At(s, "onE") /\ SetEHotelLine(s, "T") /\ Goto(s, "onPost")

OnlineSucceeds(s) ==
    /\ At(s, "onPost")
    /\ Done(s)
    /\ UNCHANGED <<drafts, pub, details, cache, browser, faults>>

\* No answer, an error or an exception: both rows go off line, whatever they
\* were before.
OnlineFails(s) ==
    /\ At(s, "onPost")
    /\ Goto(s, "undoT")
    /\ UNCHANGED <<drafts, pub, details, cache, browser, faults>>

UndoTHotel(s) == At(s, "undoT") /\ SetTHotelLine(s, "F", "undoE")
UndoEHotel(s) == At(s, "undoE") /\ SetEHotelLine(s, "F") /\ Done(s)

-----------------------------------------------------------------------------
Edit(s) == SaveHeldRow(s) \/ ReadRow(s) \/ WriteRow(s) \/ SavePic(s)

Submission(s) == SubmitRead(s) \/ SubmitWrite(s)

Copy(s) ==
    \/ FindTHotel(s)
    \/ InsertTHotel(s)
    \/ InsertClashes(s)
    \/ UpdateTHotel(s)
    \/ ClearRooms(s)
    \/ AddFacilities(s)
    \/ AddRooms(s)
    \/ DropServices(s)
    \/ AddServices(s)

Post(s) == PostSucceeds(s) \/ PostFails(s) \/ PostNowhere(s) \/ PostBreaks(s)

Line(s) ==
    \/ OfflineTHotel(s)
    \/ OfflineEHotel(s)
    \/ OnlineEHotel(s)
    \/ OnlineSucceeds(s)
    \/ OnlineFails(s)
    \/ UndoTHotel(s)
    \/ UndoEHotel(s)

Start(s, h) ==
    \/ OpenHotel(s, h)
    \/ StartReview(s, h)
    \/ StartOffline(s, h)
    \/ StartOnline(s, h)

Next ==
    \E s \in Sessions :
        \/ \E h \in Hotels : Start(s, h)
        \/ Edit(s)
        \/ Submission(s)
        \/ Copy(s)
        \/ Post(s)
        \/ Accept(s)
        \/ Line(s)
        \/ Abort(s)

Spec == Init /\ [][Next]_vars
-----------------------------------------------------------------------------
(* What holds for any sessions, saves and faults.                          *)

\* A hotel that "has been on line once" (HmsEHotelStatusEnum.java:20-23) is
\* published, although the state is also written back from rows that
\* sessions have held for long.
ReviewedIsPublished ==
    \A h \in Hotels : draft[h].state \in Reviewed => pub[h] # NotPublished

Clearing(s, h) ==
    /\ req[s] # Idle
    /\ req[s].hotel = h
    /\ req[s].pc \in {"clear", "clearAgain", "facilities", "rooms"}

\* A published hotel has its room rows, unless a review that deleted them is
\* about to add them again or a request was cut off. Two reviews of one hotel
\* delete and add in any order (HotelMessageControllerHelper.java:250-342).
RoomsComeBack ==
    \A h \in Hotels :
        pub[h] # NotPublished /\ rooms[h] = 0 =>
            faults > 0 \/ \E s \in Reviewers : Clearing(s, h)

\* A hotel that was reviewed lists its facilities, unless a review that dropped
\* them is about to add them again or a request was cut off. A second review
\* drops what the first has added, and its session may hold another hotel by then
\* (HotelMessageControllerHelper.java:343-363).
ServicesComeBack ==
    \A h \in Hotels :
        draft[h].state \in Reviewed =>
            \/ faults > 0
            \/ facilities[h] > 0 /\ services[h] # {}
            \/ \E s \in Reviewers : /\ At(s, "addServices")
                                   /\ req[s].hotel = h

\* A hotel that was reviewed is known to the OTS cache, unless an IOException
\* was taken for success (HotelMessageController.java:339-390).
ReviewedIsCached ==
    \A h \in Hotels :
        draft[h].state \in Reviewed => faults > 0 \/ cache[h] # NotCached

-----------------------------------------------------------------------------
(* What holds only when no whole row is saved; all but the first need one  *)
(* owner and one reviewer, too.                                            *)

InReview(h) ==
    \E s \in Sessions : /\ req[s] # Idle
                        /\ req[s].hotel = h
                        /\ req[s].pc \in ReviewSteps \cup LineSteps

\* UNInitial is the state of a hotel that was not reviewed yet
\* (HmsEHotelStatusEnum.java:12-13).
UNInitialIsNotPublished ==
    \A h \in Hotels : draft[h].state = UNInitial => pub[h] = NotPublished

\* A hotel that is back with its owner was published with the texts it was
\* submitted with, or later ones: no submission is accepted unseen
\* (HotelMessageController.java:276-405 and 491-558).
SubmissionIsPublished ==
    \A h \in Hotels :
        draft[h].state = ManagerEditing => pub[h].text >= submitted[h]

\* The OTS cache holds what was published when the review was accepted.
AcceptedIsCached ==
    \A h \in Hotels :
        /\ draft[h].state = ManagerEditing
        /\ faults = 0
        => cache[h] = pub[h].text

\* A hotel that is back with its owner is whole: a review that was cut off leaves
\* it without rooms or facilities, but under review, and only another review that
\* puts them back gets past that (HotelMessageControllerHelper.java:250-363).
AcceptedIsWhole ==
    \A h \in Hotels :
        draft[h].state = ManagerEditing =>
            rooms[h] > 0 /\ facilities[h] > 0 /\ services[h] # {}

\* The two visible columns agree once nobody is working on the hotel
\* (HotelMessageController.java:635-733).
VisibleAgrees ==
    \A h \in Hotels :
        /\ pub[h] # NotPublished
        /\ ~InReview(h)
        /\ faults = 0
        => pub[h].visible = draft[h].visible

-----------------------------------------------------------------------------
(* Submission, review and publication as ReviewCycle has them.             *)

Phase(state) ==
    CASE state = UNInitial -> "new"
      [] state \in UnderReview -> "submitted"
      [] state = ManagerEditing -> "accepted"

Phases == [h \in Hotels |-> Phase(draft[h].state)]

Shown == [h \in Hotels |-> IF pub[h] = NotPublished THEN NotPublished ELSE pub[h].text]

Cycle == INSTANCE ReviewCycle WITH phase <- Phases, shown <- Shown

\* Statement by statement, with reviews that read the row long before they write
\* it, that are cut off and started again, and with saves and submissions in
\* between, hotels go through submission, publication and acceptance in this
\* order, and neither guests nor the owner are put back to older texts
\* (HotelMessageController.java:276-405 and 491-558).
CycleSpec == Cycle!Spec
=============================================================================
