-------------------------- MODULE HotelReview_proofs --------------------------
(***************************************************************************)
(* Proofs about HotelReview, for every value of its constants.             *)
(*                                                                         *)
(* The state of a hotel is written from rows that were read long before,   *)
(* so what is true of the draft must be true of every copy of its row: of  *)
(* those the sessions hold and of those the requests carry. None of it is  *)
(* ever undone, because no step unpublishes a hotel or drops it from the   *)
(* cache.                                                                  *)
(***************************************************************************)
EXTENDS HotelReview, TLAPS

USE MaxTextAssumption, MaxFaultsAssumption, RowSavesAssumption,
    ReviewFaultKindsAssumption, ReviewNullsAssumption

\* The hotel went through a review.
Known(h) == pub[h] # NotPublished /\ (faults > 0 \/ cache[h] # NotCached)

DraftKnown(h) == draft[h].state \in Reviewed => Known(h)

\* An editor holds a row; if it shows a reviewed hotel, that hotel was reviewed.
HeldKnown(s) ==
    held[s] # NoHotel =>
        /\ s \in Editors => held[s].row \in Row
        /\ held[s].row \in Row /\ held[s].row.state \in Reviewed => Known(held[s].hotel)

\* The same of the row a request carries, and what its step depends on.
ReqKnown(s) ==
    req[s] # Idle =>
        /\ req[s].pc \in EditSteps \cup ReviewSteps => req[s].row \in Row
        /\ req[s].row \in Row /\ req[s].row.state \in Reviewed => Known(req[s].hotel)
        /\ req[s].pc = "submit" => req[s].row.state \in {UNInitial, ManagerEditing}
        /\ req[s].pc \in ReviewSteps => s \in Reviewers
        /\ req[s].pc \in CopySteps \cup LineSteps \cup {"update"} =>
               pub[req[s].hotel] # NotPublished
        /\ req[s].pc = "accept" => Known(req[s].hotel)

AllKnown ==
    /\ \A h \in Hotels : DraftKnown(h)
    /\ \A s \in Sessions : HeldKnown(s) /\ ReqKnown(s)

\* The inductive invariant.
Inv == TypeOK /\ AllKnown /\ RoomsComeBack

\* What a step never undoes.
Monotone ==
    /\ faults' >= faults
    /\ \A h \in Hotels : /\ pub[h] # NotPublished => pub'[h] # NotPublished
                         /\ Known(h) => Known(h)'

-----------------------------------------------------------------------------
(* Lemmas about requests.                                                  *)

LEMMA StepSets ==
    /\ EditSteps \cap ReviewSteps = {}
    /\ EditSteps \cap LineSteps = {}
    /\ ReviewSteps \cap LineSteps = {}
    /\ CopySteps \subseteq ReviewSteps
  BY DEF EditSteps, ReviewSteps, CopySteps, LineSteps

\* A request that goes on keeps its hotel and its row.
LEMMA GotoRequest ==
    ASSUME TypeOK, NEW s \in Sessions, NEW from, At(s, from),
           NEW pc \in EditSteps \cup ReviewSteps \cup LineSteps, Goto(s, pc)
    PROVE  /\ req' \in [Sessions -> Request \cup {Idle}]
           /\ \A u \in Sessions \ {s} : req'[u] = req[u]
           /\ req[s] # Idle /\ req[s].pc = from
           /\ req[s].hotel \in Hotels
           /\ req'[s] # Idle
           /\ req'[s].hotel = req[s].hotel
           /\ req'[s].row = req[s].row
           /\ req'[s].pc = pc
<1>1. req[s] \in Request /\ req[s] # Idle /\ req[s].pc = from
  BY DEF TypeOK, At
<1>2. /\ [req[s] EXCEPT !.pc = pc] \in Request
      /\ [req[s] EXCEPT !.pc = pc].hotel = req[s].hotel
      /\ [req[s] EXCEPT !.pc = pc].row = req[s].row
      /\ [req[s] EXCEPT !.pc = pc].pc = pc
  BY <1>1 DEF Request
<1>3. req' = [req EXCEPT ![s] = [req[s] EXCEPT !.pc = pc]]
  BY <1>1 DEF Goto, TypeOK
<1>4. req[s].hotel \in Hotels
  BY <1>1 DEF Request
<1>5. QED
  BY <1>1, <1>2, <1>3, <1>4 DEF TypeOK

LEMMA DoneRequest ==
    ASSUME TypeOK, NEW s \in Sessions, Done(s)
    PROVE  /\ req' \in [Sessions -> Request \cup {Idle}]
           /\ \A u \in Sessions \ {s} : req'[u] = req[u]
           /\ req'[s] = Idle
  BY DEF Done, TypeOK

LEMMA BeginRequest ==
    ASSUME TypeOK, NEW s \in Sessions, NEW h \in Hotels, NEW row \in Row \cup {NoRow},
           NEW pc \in EditSteps \cup ReviewSteps \cup LineSteps, Begin(s, h, row, pc)
    PROVE  /\ req' \in [Sessions -> Request \cup {Idle}]
           /\ \A u \in Sessions \ {s} : req'[u] = req[u]
           /\ req[s] = Idle
           /\ req'[s] # Idle
           /\ req'[s].hotel = h
           /\ req'[s].row = row
           /\ req'[s].pc = pc
<1> DEFINE r == [hotel |-> h, row |-> row, pc |-> pc]
<1>1. r \in Request /\ r.hotel = h /\ r.row = row /\ r.pc = pc
  BY DEF Request
<1>2. req[s] = Idle /\ req' = [req EXCEPT ![s] = r]
  BY DEF Begin
<1> HIDE DEF r
<1>3. QED
  BY <1>1, <1>2 DEF TypeOK

-----------------------------------------------------------------------------
(* What a step has to show for each part of the invariant.                 *)

LEMMA FrameIsMonotone ==
    ASSUME TypeOK, UNCHANGED <<pub, cache, faults>>
    PROVE  Monotone
  BY DEF TypeOK, Monotone, Known

\* It is enough to look at the hotel and the session a step is about.
LEMMA KnownKeeps ==
    ASSUME AllKnown, Monotone,
           NEW h \in Hotels, NEW s \in Sessions,
           \A g \in Hotels \ {h} : draft'[g] = draft[g],
           DraftKnown(h)',
           \A u \in Sessions \ {s} : held'[u] = held[u],
           HeldKnown(s)',
           \A u \in Sessions \ {s} : req'[u] = req[u],
           ReqKnown(s)',
           TypeOK
    PROVE  AllKnown'
<1>1. \A g \in Hotels \ {h} : DraftKnown(g)'
  BY DEF AllKnown, DraftKnown, Monotone
<1>2. ASSUME NEW u \in Sessions \ {s}
      PROVE  HeldKnown(u)'
  <2>1. held[u] # NoHotel => held[u].hotel \in Hotels
    BY DEF TypeOK, HeldHotel
  <2>2. HeldKnown(u) /\ held'[u] = held[u]
    BY DEF AllKnown
  <2>3. QED
    BY <2>1, <2>2 DEF HeldKnown, Monotone
<1>3. ASSUME NEW u \in Sessions \ {s}
      PROVE  ReqKnown(u)'
  <2>1. req[u] # Idle => req[u].hotel \in Hotels
    BY DEF TypeOK, Request
  <2>2. ReqKnown(u) /\ req'[u] = req[u]
    BY DEF AllKnown
  <2>3. QED
    BY <2>1, <2>2 DEF ReqKnown, Monotone
<1>4. QED
  BY <1>1, <1>2, <1>3 DEF AllKnown

\* A hotel without rooms had none before, or is being worked on by the session
\* that took the step; and that session's work on other hotels goes on.
LEMMA RoomsKeep ==
    ASSUME Inv, NEW s \in Sessions,
           \A u \in Sessions \ {s} : req'[u] = req[u],
           faults' >= faults, faults' \in Nat,
           \A h \in Hotels :
              pub'[h] # NotPublished /\ rooms'[h] = 0 =>
                 \/ s \in Reviewers /\ Clearing(s, h)'
                 \/ pub[h] # NotPublished /\ rooms[h] = 0,
           \A h \in Hotels :
              Clearing(s, h) => Clearing(s, h)' \/ rooms'[h] # 0 \/ faults' > 0
    PROVE  RoomsComeBack'
<1> SUFFICES ASSUME NEW h \in Hotels, pub'[h] # NotPublished, rooms'[h] = 0, ~(faults' > 0)
             PROVE  \E u \in Reviewers : Clearing(u, h)'
  BY DEF RoomsComeBack
<1>1. CASE s \in Reviewers /\ Clearing(s, h)'
  BY <1>1
<1>2. CASE pub[h] # NotPublished /\ rooms[h] = 0
  <2>1. ~(faults > 0)
    BY DEF Inv, TypeOK
  <2>2. PICK u \in Reviewers : Clearing(u, h)
    BY <1>2, <2>1 DEF Inv, RoomsComeBack
  <2>3. CASE u = s
    BY <2>2, <2>3
  <2>4. CASE u # s
    BY <2>2, <2>4 DEF Clearing, Sessions
  <2>5. QED
    BY <2>3, <2>4
<1>3. QED
  BY <1>1, <1>2

\* A step that publishes nothing new and touches no room rows.
LEMMA QuietStep ==
    ASSUME Inv, TypeOK', Monotone,
           NEW h \in Hotels, NEW s \in Sessions,
           \A g \in Hotels \ {h} : draft'[g] = draft[g],
           DraftKnown(h)',
           \A u \in Sessions \ {s} : held'[u] = held[u],
           HeldKnown(s)',
           \A u \in Sessions \ {s} : req'[u] = req[u],
           ReqKnown(s)',
           rooms' = rooms,
           \A g \in Hotels : pub'[g] # NotPublished => pub[g] # NotPublished,
           \A g \in Hotels : Clearing(s, g) => Clearing(s, g)' \/ faults' > 0
    PROVE  Inv'
<1>1. AllKnown'
  BY KnownKeeps DEF Inv
<1>2. faults' >= faults /\ faults' \in Nat
  BY DEF Monotone, TypeOK
<1>3. RoomsComeBack'
  BY <1>2, RoomsKeep
<1>4. QED
  BY <1>1, <1>3 DEF Inv

\* A step of a request that changes nothing but the request.
LEMMA RequestStep ==
    ASSUME Inv, NEW s \in Sessions,
           UNCHANGED <<drafts, pub, details, cache, browser, faults>>,
           req' \in [Sessions -> Request \cup {Idle}],
           \A u \in Sessions \ {s} : req'[u] = req[u],
           ReqKnown(s)',
           \A g \in Hotels : Clearing(s, g) => Clearing(s, g)',
           NEW h \in Hotels
    PROVE  Inv'
<1>1. TypeOK'
  BY DEF Inv, TypeOK, drafts, details, browser
<1>2. Monotone
  BY FrameIsMonotone DEF Inv
<1>3. DraftKnown(h)' /\ HeldKnown(s)'
  BY DEF Inv, AllKnown, DraftKnown, HeldKnown, Known, drafts, browser
<1>4. QED
  BY <1>1, <1>2, <1>3, QuietStep DEF drafts, details, browser

LEMMA IdleIsKnown ==
    ASSUME NEW s, req'[s] = Idle
    PROVE  ReqKnown(s)'
  BY DEF ReqKnown

\* What a row that is read now says of its hotel.
LEMMA ReadRowKnown ==
    ASSUME Inv, NEW h \in Hotels
    PROVE  /\ draft[h] \in Row
           /\ draft[h].state \in Reviewed => Known(h)
  BY DEF Inv, TypeOK, AllKnown, DraftKnown

-----------------------------------------------------------------------------
(* Opening and editing.                                                    *)

LEMMA OpenHotelInv ==
    ASSUME Inv, NEW s \in Sessions, NEW h \in Hotels, OpenHotel(s, h)
    PROVE  Inv'
<1> DEFINE row == IF s \in Editors THEN draft[h] ELSE NoRow
           new == [hotel |-> h, row |-> row]
<1>1. /\ row \in Row \cup {NoRow}
      /\ s \in Editors => row \in Row
      /\ row \in Row => row = draft[h]
  BY ReadRowKnown
<1> HIDE DEF row
<1>2. new \in HeldHotel /\ new.hotel = h /\ new.row = row
  BY <1>1 DEF HeldHotel
<1>3. /\ held' = [held EXCEPT ![s] = new]
      /\ pages' \in [Sessions -> SUBSET Hotels]
      /\ UNCHANGED <<drafts, pub, details, cache, req, faults>>
  BY DEF OpenHotel, Inv, TypeOK, row
<1> HIDE DEF new
<1>4. /\ held' \in [Sessions -> HeldHotel \cup {NoHotel}]
      /\ held'[s] = new
      /\ \A u \in Sessions \ {s} : held'[u] = held[u]
  BY <1>2, <1>3 DEF Inv, TypeOK
<1>5. TypeOK'
  BY <1>3, <1>4 DEF Inv, TypeOK, drafts, details
<1>6. Monotone
  BY <1>3, FrameIsMonotone DEF Inv
<1>7. HeldKnown(s)'
  BY <1>1, <1>2, <1>3, <1>4, ReadRowKnown DEF HeldKnown, Known
<1>8. DraftKnown(h)' /\ ReqKnown(s)'
  BY <1>3 DEF Inv, AllKnown, DraftKnown, ReqKnown, Known, drafts
<1>9. QED
  BY <1>3, <1>4, <1>5, <1>6, <1>7, <1>8, QuietStep DEF drafts, details, Clearing

LEMMA NextTextType ==
    ASSUME TypeOK, NEW h \in Hotels, NextText(h)
    PROVE  /\ saves' \in [Hotels -> Texts]
           /\ saves[h] + 1 \in Texts
  BY DEF TypeOK, NextText, Texts

LEMMA WithText ==
    ASSUME NEW row \in Row, NEW text \in Texts
    PROVE  /\ [row EXCEPT !.text = text] \in Row
           /\ [row EXCEPT !.text = text].state = row.state
  BY DEF Row

\* An editor's whole row says of its hotel what the row it was read from said.
LEMMA SaveHeldRowInv ==
    ASSUME Inv, NEW s \in Sessions, SaveHeldRow(s)
    PROVE  Inv'
<1>1. held[s] # NoHotel /\ s \in Editors
  BY DEF SaveHeldRow
<1>2. PICK h \in Hotels : h = held[s].hotel
  BY <1>1 DEF Inv, TypeOK, HeldHotel
<1> DEFINE row == [held[s].row EXCEPT !.text = saves[h] + 1]
           new == [hotel |-> h, row |-> row]
<1>3. /\ NextText(h)
      /\ held' = [held EXCEPT ![s] = new]
      /\ draft' = [draft EXCEPT ![h] = row]
      /\ UNCHANGED <<submitted, pub, details, cache, pages, req, faults>>
  BY <1>2 DEF SaveHeldRow
<1>4. saves' \in [Hotels -> Texts] /\ saves[h] + 1 \in Texts
  BY <1>2, <1>3, NextTextType DEF Inv
<1>5. held[s].row \in Row /\ row \in Row /\ row.state = held[s].row.state
  BY <1>1, <1>4, WithText DEF Inv, AllKnown, HeldKnown
<1>6. row.state \in Reviewed => Known(h)
  BY <1>1, <1>2, <1>5 DEF Inv, AllKnown, HeldKnown
<1> HIDE DEF row
<1>7. new \in HeldHotel /\ new.hotel = h /\ new.row = row
  BY <1>2, <1>5 DEF HeldHotel
<1> HIDE DEF new
<1>8. /\ held' \in [Sessions -> HeldHotel \cup {NoHotel}]
      /\ held'[s] = new
      /\ \A u \in Sessions \ {s} : held'[u] = held[u]
      /\ draft' \in [Hotels -> Row]
      /\ draft'[h] = row
      /\ \A g \in Hotels \ {h} : draft'[g] = draft[g]
  BY <1>2, <1>3, <1>5, <1>7 DEF Inv, TypeOK
<1>9. TypeOK'
  BY <1>3, <1>4, <1>8 DEF Inv, TypeOK, details
<1>10. Monotone
  BY <1>3, FrameIsMonotone DEF Inv
<1>11. DraftKnown(h)' /\ HeldKnown(s)'
  BY <1>3, <1>5, <1>6, <1>7, <1>8 DEF DraftKnown, HeldKnown, Known
<1>12. ReqKnown(s)'
  BY <1>3 DEF Inv, AllKnown, ReqKnown, Known
<1>13. QED
  BY <1>2, <1>3, <1>8, <1>9, <1>10, <1>11, <1>12, QuietStep DEF details, Clearing

LEMMA ReadRowInv ==
    ASSUME Inv, NEW s \in Sessions, ReadRow(s)
    PROVE  Inv'
<1>1. PICK h \in Hotels : h = held[s].hotel
  BY DEF ReadRow, Inv, TypeOK, HeldHotel
<1> DEFINE row == [draft[h] EXCEPT !.text = saves[h] + 1]
<1>2. /\ NextText(h)
      /\ Begin(s, h, row, "zones")
      /\ UNCHANGED <<draft, submitted, pub, details, cache, browser, faults>>
  BY <1>1 DEF ReadRow
<1>3. saves' \in [Hotels -> Texts] /\ saves[h] + 1 \in Texts
  BY <1>1, <1>2, NextTextType DEF Inv
<1>4. row \in Row /\ row.state = draft[h].state
  BY <1>1, <1>3, WithText, ReadRowKnown
<1> HIDE DEF row
<1>5. /\ req' \in [Sessions -> Request \cup {Idle}]
      /\ \A u \in Sessions \ {s} : req'[u] = req[u]
      /\ req[s] = Idle
      /\ req'[s].hotel = h
      /\ req'[s].row = row
      /\ req'[s].pc = "zones"
  BY <1>1, <1>2, <1>4, BeginRequest DEF Inv, EditSteps
<1>6. TypeOK'
  BY <1>2, <1>3, <1>5 DEF Inv, TypeOK, details, browser
<1>7. Monotone
  BY <1>2, FrameIsMonotone DEF Inv
<1>8. DraftKnown(h)' /\ HeldKnown(s)'
  BY <1>1, <1>2 DEF Inv, AllKnown, DraftKnown, HeldKnown, Known, browser
<1>9. ReqKnown(s)'
  BY <1>1, <1>2, <1>4, <1>5, ReadRowKnown
     DEF ReqKnown, Known, ReviewSteps, CopySteps, LineSteps
<1>10. QED
  BY <1>1, <1>2, <1>5, <1>6, <1>7, <1>8, <1>9, QuietStep DEF details, browser, Clearing

LEMMA WriteRowInv ==
    ASSUME Inv, NEW s \in Sessions, WriteRow(s)
    PROVE  Inv'
<1>1. req[s] # Idle /\ req[s].pc = "zones"
  BY DEF WriteRow, At
<1>2. PICK h \in Hotels : h = req[s].hotel
  BY <1>1 DEF Inv, TypeOK, Request
<1>3. req[s].row \in Row /\ (req[s].row.state \in Reviewed => Known(h))
  BY <1>1, <1>2 DEF Inv, AllKnown, ReqKnown, EditSteps
<1>4. /\ draft' = [draft EXCEPT ![h] = req[s].row]
      /\ Done(s)
      /\ UNCHANGED <<saves, submitted, pub, details, cache, browser, faults>>
  BY <1>2 DEF WriteRow
<1>5. /\ req' \in [Sessions -> Request \cup {Idle}]
      /\ \A u \in Sessions \ {s} : req'[u] = req[u]
      /\ req'[s] = Idle
  BY <1>4, DoneRequest DEF Inv
<1>6. /\ draft' \in [Hotels -> Row]
      /\ draft'[h] = req[s].row
      /\ \A g \in Hotels \ {h} : draft'[g] = draft[g]
  BY <1>1, <1>3, <1>4 DEF Inv, TypeOK
<1>7. TypeOK'
  BY <1>4, <1>5, <1>6 DEF Inv, TypeOK, details, browser
<1>8. Monotone
  BY <1>4, FrameIsMonotone DEF Inv
<1>9. DraftKnown(h)' /\ HeldKnown(s)'
  BY <1>3, <1>4, <1>6 DEF Inv, AllKnown, DraftKnown, HeldKnown, Known, browser
<1>10. QED
  BY <1>1, <1>4, <1>5, <1>6, <1>7, <1>8, <1>9, IdleIsKnown, QuietStep
     DEF details, browser, Clearing

LEMMA SavePicInv ==
    ASSUME Inv, NEW s \in Sessions, SavePic(s)
    PROVE  Inv'
<1>1. PICK h \in Hotels : h = held[s].hotel
  BY DEF SavePic, Inv, TypeOK, HeldHotel
<1> DEFINE row == [draft[h] EXCEPT !.text = saves[h] + 1]
<1>2. /\ NextText(h)
      /\ draft' = [draft EXCEPT ![h] = row]
      /\ UNCHANGED <<submitted, pub, details, cache, browser, req, faults>>
  BY <1>1 DEF SavePic, Inv, TypeOK
<1>3. saves' \in [Hotels -> Texts] /\ saves[h] + 1 \in Texts
  BY <1>1, <1>2, NextTextType DEF Inv
<1>4. row \in Row /\ row.state = draft[h].state
  BY <1>1, <1>3, WithText, ReadRowKnown
<1> HIDE DEF row
<1>5. /\ draft' \in [Hotels -> Row]
      /\ draft'[h] = row
      /\ \A g \in Hotels \ {h} : draft'[g] = draft[g]
  BY <1>1, <1>2, <1>4 DEF Inv, TypeOK
<1>6. TypeOK'
  BY <1>2, <1>3, <1>5 DEF Inv, TypeOK, details, browser
<1>7. Monotone
  BY <1>2, FrameIsMonotone DEF Inv
<1>8. DraftKnown(h)' /\ HeldKnown(s)' /\ ReqKnown(s)'
  BY <1>1, <1>2, <1>4, <1>5
     DEF Inv, AllKnown, DraftKnown, HeldKnown, ReqKnown, Known, browser
<1>9. QED
  BY <1>1, <1>2, <1>5, <1>6, <1>7, <1>8, QuietStep DEF details, browser, Clearing

-----------------------------------------------------------------------------
(* Submission.                                                             *)

\* A request that begins with the row just read.
LEMMA BeginReadInv ==
    ASSUME Inv, NEW s \in Sessions, NEW h \in Hotels, NEW pc \in {"submit", "find"},
           pc = "submit" => draft[h].state \in {UNInitial, ManagerEditing},
           pc = "find" => s \in Reviewers,
           Begin(s, h, draft[h], pc),
           UNCHANGED <<drafts, pub, details, cache, browser, faults>>
    PROVE  Inv'
<1>1. draft[h] \in Row /\ (draft[h].state \in Reviewed => Known(h))
  BY ReadRowKnown
<1>2. pc \in EditSteps \cup ReviewSteps \cup LineSteps
  BY DEF EditSteps, ReviewSteps
<1>3. /\ req' \in [Sessions -> Request \cup {Idle}]
      /\ \A u \in Sessions \ {s} : req'[u] = req[u]
      /\ req[s] = Idle
      /\ req'[s].hotel = h
      /\ req'[s].row = draft[h]
      /\ req'[s].pc = pc
  BY <1>1, <1>2, BeginRequest DEF Inv
<1>4. pc \notin CopySteps \cup LineSteps \cup {"update", "accept"}
  BY DEF CopySteps, LineSteps
<1>5. pc = "submit" => pc \notin ReviewSteps
  BY DEF ReviewSteps, CopySteps
<1>6. ReqKnown(s)'
  BY <1>1, <1>3, <1>4, <1>5 DEF ReqKnown, Known
<1>7. \A g \in Hotels : Clearing(s, g) => Clearing(s, g)'
  BY <1>3 DEF Clearing
<1>8. QED
  BY <1>3, <1>6, <1>7, RequestStep

LEMMA SubmitReadInv ==
    ASSUME Inv, NEW s \in Sessions, SubmitRead(s)
    PROVE  Inv'
<1>1. PICK h \in Hotels : h = held[s].hotel
  BY DEF SubmitRead, Inv, TypeOK, HeldHotel
<1>2. QED
  BY <1>1, BeginReadInv DEF SubmitRead

\* Editing is filed only for a row that was in ManagerEditing.
LEMMA SubmitWriteInv ==
    ASSUME Inv, NEW s \in Sessions, SubmitWrite(s)
    PROVE  Inv'
<1>1. req[s] # Idle /\ req[s].pc = "submit"
  BY DEF SubmitWrite, At
<1>2. PICK h \in Hotels : h = req[s].hotel
  BY <1>1 DEF Inv, TypeOK, Request
<1> DEFINE state == SubmittedState(req[s].row.state)
           row == [draft[h] EXCEPT !.state = state]
<1>3. /\ req[s].row \in Row
      /\ req[s].row.state \in {UNInitial, ManagerEditing}
      /\ req[s].row.state \in Reviewed => Known(h)
  BY <1>1, <1>2 DEF Inv, AllKnown, ReqKnown, EditSteps
<1>4. state \in States /\ (state \in Reviewed => Known(h))
  BY <1>3 DEF SubmittedState, States, Reviewed, UNInitial, Submit, ManagerEditing, Editing
<1> HIDE DEF state
<1>5. row \in Row /\ row.state = state
  BY <1>2, <1>4, ReadRowKnown DEF Row
<1>6. /\ draft' = [draft EXCEPT ![h] = row]
      /\ submitted' = [submitted EXCEPT ![h] = draft[h].text]
      /\ Done(s)
      /\ UNCHANGED <<saves, pub, details, cache, browser, faults>>
  BY <1>2 DEF SubmitWrite, state, Inv, TypeOK
<1>7. draft[h].text \in Texts
  BY <1>2, ReadRowKnown DEF Row
<1> HIDE DEF row
<1>8. /\ req' \in [Sessions -> Request \cup {Idle}]
      /\ \A u \in Sessions \ {s} : req'[u] = req[u]
      /\ req'[s] = Idle
  BY <1>6, DoneRequest DEF Inv
<1>9. /\ draft' \in [Hotels -> Row]
      /\ draft'[h] = row
      /\ \A g \in Hotels \ {h} : draft'[g] = draft[g]
      /\ submitted' \in [Hotels -> Texts]
  BY <1>2, <1>5, <1>6, <1>7 DEF Inv, TypeOK
<1>10. TypeOK'
  BY <1>6, <1>8, <1>9 DEF Inv, TypeOK, details, browser
<1>11. Monotone
  BY <1>6, FrameIsMonotone DEF Inv
<1>12. DraftKnown(h)' /\ HeldKnown(s)'
  BY <1>4, <1>5, <1>6, <1>9 DEF Inv, AllKnown, DraftKnown, HeldKnown, Known, browser
<1>13. QED
  BY <1>1, <1>6, <1>8, <1>9, <1>10, <1>11, <1>12, IdleIsKnown, QuietStep
     DEF details, browser, Clearing

-----------------------------------------------------------------------------
(* The review.                                                             *)

\* What is known of a request in the middle of a review.
LEMMA ReviewRequest ==
    ASSUME Inv, NEW s \in Sessions, NEW pc \in ReviewSteps, At(s, pc)
    PROVE  /\ s \in Reviewers
           /\ req[s].hotel \in Hotels
           /\ req[s].row \in Row
           /\ req[s].row.state \in Reviewed => Known(req[s].hotel)
           /\ pc \in CopySteps \cup {"update"} => pub[req[s].hotel] # NotPublished
           /\ pc = "accept" => Known(req[s].hotel)
<1>1. req[s] \in Request /\ req[s] # Idle /\ req[s].pc = pc
  BY DEF Inv, TypeOK, At
<1>2. QED
  BY <1>1 DEF Inv, AllKnown, ReqKnown, Request

\* A review that goes on: its row stays as it was read.
LEMMA ReviewGoesOn ==
    ASSUME Inv, NEW s \in Sessions, NEW from \in ReviewSteps, At(s, from),
           NEW pc \in ReviewSteps, Goto(s, pc),
           NEW h \in Hotels, h = req[s].hotel,
           Monotone,
           pc \in CopySteps \cup {"update"} => pub'[h] # NotPublished,
           pc = "accept" => Known(h)'
    PROVE  ReqKnown(s)'
<1>1. /\ s \in Reviewers
      /\ req[s].row \in Row
      /\ req[s].row.state \in Reviewed => Known(h)
  BY ReviewRequest
<1>2. /\ req'[s].hotel = h
      /\ req'[s].row = req[s].row
      /\ req'[s].pc = pc
  BY GotoRequest DEF Inv
<1>3. pc # "submit" /\ pc \notin LineSteps
  BY DEF ReviewSteps, CopySteps, LineSteps
<1>4. req[s].row.state \in Reviewed => Known(h)'
  BY <1>1 DEF Monotone
<1>5. QED
  BY <1>1, <1>2, <1>3, <1>4 DEF ReqKnown, Known

\* A step of a review that changes nothing but where it stands.
LEMMA ReviewMovesOn ==
    ASSUME Inv, NEW s \in Sessions, NEW from \in ReviewSteps, At(s, from),
           NEW pc \in ReviewSteps, Goto(s, pc),
           UNCHANGED <<drafts, pub, details, cache, browser, faults>>,
           from \in {"clear", "clearAgain", "facilities", "rooms"} =>
               pc \in {"clear", "clearAgain", "facilities", "rooms"},
           pc \in CopySteps \cup {"update"} => pub[req[s].hotel] # NotPublished,
           pc = "accept" => Known(req[s].hotel)
    PROVE  Inv'
<1>1. PICK h \in Hotels : h = req[s].hotel
  BY ReviewRequest
<1>2. Monotone
  BY FrameIsMonotone DEF Inv
<1>3. Known(h) => Known(h)'
  BY <1>2 DEF Monotone
<1>4. ReqKnown(s)'
  BY <1>1, <1>2, <1>3, ReviewGoesOn
<1>5. /\ req' \in [Sessions -> Request \cup {Idle}]
      /\ \A u \in Sessions \ {s} : req'[u] = req[u]
      /\ req'[s] # Idle
      /\ req'[s].hotel = req[s].hotel
      /\ req[s].pc = from
      /\ req'[s].pc = pc
  BY GotoRequest DEF Inv
<1>6. \A g \in Hotels : Clearing(s, g) => Clearing(s, g)'
  BY <1>5 DEF Clearing
<1>7. QED
  BY <1>4, <1>5, <1>6, RequestStep

\* A request that ends where it has no rooms to bring back.
LEMMA RequestEnds ==
    ASSUME Inv, NEW s \in Sessions, NEW from, At(s, from), Done(s),
           from \notin {"clear", "clearAgain", "facilities", "rooms"},
           UNCHANGED <<drafts, pub, details, cache, browser, faults>>
    PROVE  Inv'
<1>1. req[s] # Idle /\ req[s].pc = from
  BY DEF At
<1>2. PICK h \in Hotels : h = req[s].hotel
  BY <1>1 DEF Inv, TypeOK, Request
<1>3. /\ req' \in [Sessions -> Request \cup {Idle}]
      /\ \A u \in Sessions \ {s} : req'[u] = req[u]
      /\ req'[s] = Idle
  BY DoneRequest DEF Inv
<1>4. \A g \in Hotels : Clearing(s, g) => Clearing(s, g)'
  BY <1>1 DEF Clearing
<1>5. QED
  BY <1>3, <1>4, IdleIsKnown, RequestStep

LEMMA StartReviewInv ==
    ASSUME Inv, NEW s \in Sessions, NEW h \in Hotels, StartReview(s, h)
    PROVE  Inv'
  BY BeginReadInv DEF StartReview

LEMMA FindTHotelInv ==
    ASSUME Inv, NEW s \in Sessions, FindTHotel(s)
    PROVE  Inv'
<1> DEFINE pc == IF pub[req[s].hotel] = NotPublished THEN "insert" ELSE "update"
<1>1. /\ At(s, "find")
      /\ Goto(s, pc)
      /\ UNCHANGED <<drafts, pub, details, cache, browser, faults>>
  BY DEF FindTHotel
<1>2. /\ pc \in ReviewSteps
      /\ pc \in CopySteps \cup {"update"} => pub[req[s].hotel] # NotPublished
      /\ pc # "accept"
  BY DEF ReviewSteps, CopySteps
<1> HIDE DEF pc
<1>3. "find" \in ReviewSteps
  BY DEF ReviewSteps
<1>4. QED
  BY <1>1, <1>2, <1>3, ReviewMovesOn

LEMMA CopyOfType ==
    ASSUME NEW row \in Row
    PROVE  CopyOf(row) \in Published
  BY DEF CopyOf, Published, Row

\* The row of t_hotel is inserted or replaced; the rooms are cleared next.
LEMMA WriteTHotelInv ==
    ASSUME Inv, NEW s \in Sessions, NEW from \in {"insert", "update"}, At(s, from),
           pub' = [pub EXCEPT ![req[s].hotel] = CopyOf(req[s].row)],
           Goto(s, "clear"),
           UNCHANGED <<drafts, details, cache, browser, faults>>
    PROVE  Inv'
<1>1. from \in ReviewSteps /\ "clear" \in ReviewSteps
  BY DEF ReviewSteps, CopySteps
<1>2. s \in Reviewers /\ req[s].row \in Row
  BY <1>1, ReviewRequest
<1>3. PICK h \in Hotels : h = req[s].hotel
  BY <1>1, ReviewRequest
<1>4. /\ req' \in [Sessions -> Request \cup {Idle}]
      /\ \A u \in Sessions \ {s} : req'[u] = req[u]
      /\ req[s].pc = from
      /\ req'[s] # Idle
      /\ req'[s].hotel = h
      /\ req'[s].pc = "clear"
  BY <1>1, <1>3, GotoRequest DEF Inv
<1>5. /\ pub' \in [Hotels -> Published \cup {NotPublished}]
      /\ pub'[h] # NotPublished
      /\ \A g \in Hotels \ {h} : pub'[g] = pub[g]
  BY <1>2, <1>3, CopyOfType DEF Inv, TypeOK
<1>6. TypeOK'
  BY <1>4, <1>5 DEF Inv, TypeOK, drafts, details, browser
<1>7. Monotone
  BY <1>5 DEF Inv, TypeOK, Monotone, Known
<1>8. ReqKnown(s)'
  BY <1>1, <1>3, <1>5, <1>7, ReviewGoesOn
<1>9. DraftKnown(h)' /\ HeldKnown(s)'
  <2>1. \A g \in Hotels : Known(g) => Known(g)'
    BY <1>7 DEF Monotone
  <2>2. DraftKnown(h) /\ HeldKnown(s)
    BY DEF Inv, AllKnown
  <2>3. held[s] # NoHotel => held[s].hotel \in Hotels
    BY DEF Inv, TypeOK, HeldHotel
  <2>4. draft' = draft /\ held' = held
    BY DEF drafts, browser
  <2>5. QED
    BY <2>1, <2>2, <2>3, <2>4 DEF DraftKnown, HeldKnown, Known
<1>10. AllKnown'
  BY <1>4, <1>7, <1>8, <1>9, KnownKeeps DEF Inv, drafts, browser
<1>11. /\ \A g \in Hotels : pub'[g] # NotPublished /\ rooms'[g] = 0 =>
              \/ s \in Reviewers /\ Clearing(s, g)'
              \/ pub[g] # NotPublished /\ rooms[g] = 0
       /\ \A g \in Hotels : ~Clearing(s, g)
  BY <1>2, <1>3, <1>4, <1>5 DEF Clearing, details
<1>12. faults' >= faults /\ faults' \in Nat
  BY <1>7, <1>6 DEF Monotone, TypeOK
<1>13. RoomsComeBack'
  BY <1>4, <1>11, <1>12, RoomsKeep
<1>14. QED
  BY <1>6, <1>10, <1>13 DEF Inv

LEMMA InsertTHotelInv ==
    ASSUME Inv, NEW s \in Sessions, InsertTHotel(s)
    PROVE  Inv'
  BY WriteTHotelInv DEF InsertTHotel

LEMMA InsertClashesInv ==
    ASSUME Inv, NEW s \in Sessions, InsertClashes(s)
    PROVE  Inv'
  BY RequestEnds DEF InsertClashes

LEMMA UpdateTHotelInv ==
    ASSUME Inv, NEW s \in Sessions, UpdateTHotel(s)
    PROVE  Inv'
  BY WriteTHotelInv DEF UpdateTHotel

\* A step of the copy that leaves the rooms alone, before or after they are
\* brought back.
LEMMA CopyMovesOn ==
    ASSUME Inv, TypeOK', NEW s \in Sessions,
           NEW from \in CopySteps, At(s, from),
           NEW pc \in CopySteps \ {"accept"}, Goto(s, pc),
           from \in {"clear", "clearAgain", "facilities", "rooms"} =>
               pc \in {"clear", "clearAgain", "facilities", "rooms"},
           UNCHANGED <<drafts, pub, rooms, cache, browser, faults>>
    PROVE  Inv'
<1>1. from \in ReviewSteps /\ pc \in ReviewSteps
  BY StepSets
<1>2. PICK h \in Hotels : h = req[s].hotel
  BY <1>1, ReviewRequest
<1>3. Monotone
  BY FrameIsMonotone DEF Inv
<1>4. pub'[h] # NotPublished
  BY <1>1, <1>2, ReviewRequest
<1>5. ReqKnown(s)'
  BY <1>1, <1>2, <1>3, <1>4, ReviewGoesOn
<1>6. /\ \A u \in Sessions \ {s} : req'[u] = req[u]
      /\ req'[s] # Idle
      /\ req'[s].hotel = req[s].hotel
      /\ req[s].pc = from
      /\ req'[s].pc = pc
  BY <1>1, GotoRequest DEF Inv
<1>7. \A g \in Hotels : Clearing(s, g) => Clearing(s, g)'
  BY <1>6 DEF Clearing
<1>8. DraftKnown(h)' /\ HeldKnown(s)'
  BY DEF Inv, AllKnown, DraftKnown, HeldKnown, Known, drafts, browser
<1>9. QED
  BY <1>3, <1>5, <1>6, <1>7, <1>8, QuietStep DEF drafts, browser

\* The rooms are deleted by a session that is about to bring them back.
LEMMA ClearRoomsInv ==
    ASSUME Inv, NEW s \in Sessions, ClearRooms(s)
    PROVE  Inv'
<1>1. PICK from \in {"clear", "clearAgain"}, pc \in {"clearAgain", "facilities"} :
          At(s, from) /\ Goto(s, pc)
  BY DEF ClearRooms
<1>2. /\ rooms' = [rooms EXCEPT ![req[s].hotel] = 0]
      /\ UNCHANGED <<drafts, pub, facilities, services, cache, browser, faults>>
  BY DEF ClearRooms
<1>3. from \in ReviewSteps /\ pc \in ReviewSteps /\ from \in CopySteps /\ pc # "accept"
  BY DEF ReviewSteps, CopySteps
<1>4. PICK h \in Hotels : h = req[s].hotel
  BY <1>1, <1>3, ReviewRequest
<1>5. s \in Reviewers /\ pub[h] # NotPublished
  BY <1>1, <1>3, <1>4, ReviewRequest
<1>6. /\ req' \in [Sessions -> Request \cup {Idle}]
      /\ \A u \in Sessions \ {s} : req'[u] = req[u]
      /\ req[s].pc = from
      /\ req'[s] # Idle
      /\ req'[s].hotel = h
      /\ req'[s].pc = pc
  BY <1>1, <1>3, <1>4, GotoRequest DEF Inv
<1>7. TypeOK'
  BY <1>2, <1>6 DEF Inv, TypeOK, drafts, browser
<1>8. Monotone
  BY <1>2, FrameIsMonotone DEF Inv
<1>9. ReqKnown(s)'
  BY <1>1, <1>2, <1>3, <1>4, <1>5, <1>8, ReviewGoesOn
<1>10. DraftKnown(h)' /\ HeldKnown(s)'
  BY <1>2 DEF Inv, AllKnown, DraftKnown, HeldKnown, Known, drafts, browser
<1>11. AllKnown'
  BY <1>2, <1>6, <1>8, <1>9, <1>10, KnownKeeps DEF Inv, drafts, browser
<1>12. /\ Clearing(s, h)'
       /\ \A g \in Hotels \ {h} : rooms'[g] = rooms[g]
       /\ \A g \in Hotels : Clearing(s, g) => Clearing(s, g)'
  BY <1>1, <1>2, <1>4, <1>6 DEF Clearing, Inv, TypeOK
<1>13. faults' >= faults /\ faults' \in Nat
  BY <1>7, <1>8 DEF Monotone, TypeOK
<1>14. RoomsComeBack'
  BY <1>2, <1>5, <1>6, <1>12, <1>13, RoomsKeep
<1>15. QED
  BY <1>7, <1>11, <1>14 DEF Inv

LEMMA AddFacilitiesInv ==
    ASSUME Inv, NEW s \in Sessions, AddFacilities(s)
    PROVE  Inv'
<1>1. /\ At(s, "facilities")
      /\ facilities' = [facilities EXCEPT ![req[s].hotel] = IF @ = 2 THEN 2 ELSE @ + 1]
      /\ Goto(s, "rooms")
      /\ UNCHANGED <<drafts, pub, rooms, services, cache, browser, faults>>
  BY DEF AddFacilities
<1>2. "facilities" \in CopySteps /\ "rooms" \in CopySteps \ {"accept"}
  BY DEF CopySteps
<1>3. req' \in [Sessions -> Request \cup {Idle}]
  BY <1>1, <1>2, StepSets, GotoRequest DEF Inv
<1>4. facilities' \in [Hotels -> 0..2]
  <2> DEFINE f == facilities[req[s].hotel]
             new == IF f = 2 THEN 2 ELSE f + 1
  <2>1. facilities \in [Hotels -> 0..2]
    BY DEF Inv, TypeOK
  <2>2. req[s].hotel \in Hotels
    BY <1>1, <1>2, StepSets, ReviewRequest
  <2>3. new \in 0..2
    BY <2>1, <2>2
  <2>4. facilities' = [facilities EXCEPT ![req[s].hotel] = new]
    BY <1>1, <2>1, <2>2
  <2> HIDE DEF new
  <2>5. QED
    BY <2>1, <2>3, <2>4
<1>5. TypeOK'
  BY <1>1, <1>3, <1>4 DEF Inv, TypeOK, drafts, browser
<1>6. QED
  BY <1>1, <1>2, <1>5, CopyMovesOn

\* The rooms are back.
LEMMA AddRoomsInv ==
    ASSUME Inv, NEW s \in Sessions, AddRooms(s)
    PROVE  Inv'
<1>1. /\ At(s, "rooms")
      /\ rooms' = [rooms EXCEPT ![req[s].hotel] = @ + 1]
      /\ Goto(s, "dropServices")
      /\ UNCHANGED <<drafts, pub, facilities, services, cache, browser, faults>>
  BY DEF AddRooms
<1>2. /\ "rooms" \in ReviewSteps /\ "dropServices" \in ReviewSteps
      /\ "rooms" \in CopySteps
  BY DEF ReviewSteps, CopySteps
<1>3. PICK h \in Hotels : h = req[s].hotel
  BY <1>1, <1>2, ReviewRequest
<1>4. pub[h] # NotPublished
  BY <1>1, <1>2, <1>3, ReviewRequest
<1>5. /\ req' \in [Sessions -> Request \cup {Idle}]
      /\ \A u \in Sessions \ {s} : req'[u] = req[u]
      /\ req[s].pc = "rooms"
  BY <1>1, <1>2, GotoRequest DEF Inv
<1>6. /\ rooms' \in [Hotels -> Nat]
      /\ rooms'[h] # 0
      /\ \A g \in Hotels \ {h} : rooms'[g] = rooms[g]
  BY <1>1, <1>3 DEF Inv, TypeOK
<1>7. TypeOK'
  BY <1>1, <1>5, <1>6 DEF Inv, TypeOK, drafts, browser
<1>8. Monotone
  BY <1>1, FrameIsMonotone DEF Inv
<1>9. ReqKnown(s)'
  BY <1>1, <1>2, <1>3, <1>4, <1>8, ReviewGoesOn
<1>10. DraftKnown(h)' /\ HeldKnown(s)'
  BY <1>1 DEF Inv, AllKnown, DraftKnown, HeldKnown, Known, drafts, browser
<1>11. AllKnown'
  BY <1>1, <1>5, <1>8, <1>9, <1>10, KnownKeeps DEF Inv, drafts, browser
<1>12. faults' >= faults /\ faults' \in Nat
  BY <1>7, <1>8 DEF Monotone, TypeOK
<1>13. \A g \in Hotels : Clearing(s, g) => rooms'[g] # 0
  BY <1>3, <1>6 DEF Clearing
<1>14. RoomsComeBack'
  BY <1>1, <1>5, <1>6, <1>12, <1>13, RoomsKeep
<1>15. QED
  BY <1>7, <1>11, <1>14 DEF Inv

LEMMA DropServicesInv ==
    ASSUME Inv, NEW s \in Sessions, DropServices(s)
    PROVE  Inv'
<1>1. /\ At(s, "dropServices")
      /\ services' = [services EXCEPT ![req[s].hotel] = {}]
      /\ Goto(s, "addServices")
      /\ UNCHANGED <<drafts, pub, rooms, facilities, cache, browser, faults>>
  BY DEF DropServices
<1>2. "dropServices" \in CopySteps /\ "addServices" \in CopySteps \ {"accept"}
  BY DEF CopySteps
<1>3. req' \in [Sessions -> Request \cup {Idle}]
  BY <1>1, <1>2, StepSets, GotoRequest DEF Inv
<1>4. TypeOK'
  BY <1>1, <1>3 DEF Inv, TypeOK, drafts, browser
<1>5. QED
  BY <1>1, <1>2, <1>4, CopyMovesOn

LEMMA AddServicesInv ==
    ASSUME Inv, NEW s \in Sessions, AddServices(s)
    PROVE  Inv'
<1>1. /\ At(s, "addServices")
      /\ held[s] # NoHotel
      /\ services' = [services EXCEPT ![req[s].hotel] = @ \cup {held[s].hotel}]
      /\ Goto(s, "post")
      /\ UNCHANGED <<drafts, pub, rooms, facilities, cache, browser, faults>>
  BY DEF AddServices
<1>2. "addServices" \in CopySteps /\ "post" \in CopySteps \ {"accept"}
  BY DEF CopySteps
<1>3. req' \in [Sessions -> Request \cup {Idle}]
  BY <1>1, <1>2, StepSets, GotoRequest DEF Inv
<1>4. held[s].hotel \in Hotels
  BY <1>1 DEF Inv, TypeOK, HeldHotel
<1>5. services' \in [Hotels -> SUBSET Hotels]
  <2>1. services \in [Hotels -> SUBSET Hotels]
    BY DEF Inv, TypeOK
  <2>2. req[s].hotel \in Hotels
    BY <1>1, <1>2, StepSets, ReviewRequest
  <2>3. services[req[s].hotel] \cup {held[s].hotel} \in SUBSET Hotels
    BY <1>4, <2>1, <2>2
  <2>4. services' = [services EXCEPT ![req[s].hotel] =
                       services[req[s].hotel] \cup {held[s].hotel}]
    BY <1>1, <2>1, <2>2
  <2>5. QED
    BY <2>1, <2>3, <2>4
<1>6. TypeOK'
  BY <1>1, <1>3, <1>5 DEF Inv, TypeOK, drafts, browser
<1>7. QED
  BY <1>1, <1>2, <1>6, CopyMovesOn

-----------------------------------------------------------------------------
(* The OTS cache and the end of the review.                                *)

\* What the cache reloads is published.
LEMMA RecacheType ==
    ASSUME TypeOK, NEW h \in Hotels, pub[h] # NotPublished, Recache(h)
    PROVE  /\ cache' \in [Hotels -> Texts \cup {NotCached}]
           /\ cache'[h] # NotCached
           /\ \A g \in Hotels \ {h} : cache'[g] = cache[g]
<1>1. pub[h] \in Published
  BY DEF TypeOK
<1>2. pub[h].text \in Texts
  BY <1>1 DEF Published
<1>3. QED
  BY <1>2 DEF TypeOK, Recache

\* A post that may have reached the cache.
LEMMA PostInv ==
    ASSUME Inv, NEW s \in Sessions, At(s, "post"),
           Recache(req[s].hotel) \/ UNCHANGED cache,
           UNCHANGED <<drafts, pub, details, browser>>,
           faults' \in 0..MaxFaults, faults' >= faults,
           \/ Done(s)
           \/ Goto(s, "accept") /\ (Recache(req[s].hotel) \/ faults' > 0)
    PROVE  Inv'
<1>1. /\ "post" \in ReviewSteps /\ "accept" \in ReviewSteps
      /\ "post" \in CopySteps
  BY DEF ReviewSteps, CopySteps
<1>2. PICK h \in Hotels : h = req[s].hotel
  BY <1>1, ReviewRequest
<1>3. pub[h] # NotPublished
  BY <1>1, <1>2, ReviewRequest
<1>4. /\ cache' \in [Hotels -> Texts \cup {NotCached}]
      /\ Recache(h) => cache'[h] # NotCached
      /\ \A g \in Hotels : cache[g] # NotCached => cache'[g] # NotCached
  BY <1>2, <1>3, RecacheType DEF Inv, TypeOK
<1>5. /\ req' \in [Sessions -> Request \cup {Idle}]
      /\ \A u \in Sessions \ {s} : req'[u] = req[u]
  BY <1>1, DoneRequest, GotoRequest DEF Inv
<1>6. TypeOK'
  BY <1>4, <1>5 DEF Inv, TypeOK, drafts, details, browser
<1>7. Monotone
  BY <1>4 DEF Inv, TypeOK, Monotone, Known
<1>8. ReqKnown(s)'
  <2>1. CASE Done(s)
    BY <2>1, DoneRequest, IdleIsKnown DEF Inv
  <2>2. CASE Goto(s, "accept") /\ (Recache(req[s].hotel) \/ faults' > 0)
    <3>1. Known(h)'
      BY <1>2, <1>3, <1>4, <2>2 DEF Known
    <3>2. pub'[h] # NotPublished
      BY <1>3
    <3>3. QED
      BY <1>1, <1>2, <1>7, <2>2, <3>1, <3>2, ReviewGoesOn
  <2>3. QED
    BY <2>1, <2>2
<1>9. DraftKnown(h)' /\ HeldKnown(s)'
  <2>1. \A g \in Hotels : Known(g) => Known(g)'
    BY <1>7 DEF Monotone
  <2>2. DraftKnown(h) /\ HeldKnown(s)
    BY DEF Inv, AllKnown
  <2>3. held[s] # NoHotel => held[s].hotel \in Hotels
    BY DEF Inv, TypeOK, HeldHotel
  <2>4. draft' = draft /\ held' = held
    BY DEF drafts, browser
  <2>5. QED
    BY <2>1, <2>2, <2>3, <2>4 DEF DraftKnown, HeldKnown, Known
<1>10. \A g \in Hotels : ~Clearing(s, g)
  BY DEF Clearing, At
<1>11. QED
  BY <1>5, <1>6, <1>7, <1>8, <1>9, <1>10, QuietStep DEF drafts, details, browser

LEMMA PostStepInv ==
    ASSUME Inv, NEW s \in Sessions, Post(s)
    PROVE  Inv'
<1> USE DEF Inv, TypeOK
<1>1. CASE PostSucceeds(s)
  BY <1>1, PostInv DEF PostSucceeds
<1>2. CASE PostFails(s)
  BY <1>2, PostInv DEF PostFails
<1>3. CASE PostNowhere(s)
  BY <1>3, RequestEnds DEF PostNowhere
<1>4. CASE PostBreaks(s)
  <2>1. faults' \in 0..MaxFaults /\ faults' >= faults /\ faults' > 0
    BY <1>4 DEF PostBreaks, Fault
  <2>2. QED
    BY <1>4, <2>1, PostInv DEF PostBreaks
<1>5. QED
  BY <1>1, <1>2, <1>3, <1>4 DEF Post

LEMMA AcceptInv ==
    ASSUME Inv, NEW s \in Sessions, Accept(s)
    PROVE  Inv'
<1>1. "accept" \in ReviewSteps
  BY DEF ReviewSteps, CopySteps
<1>2. At(s, "accept") /\ req[s] # Idle
  BY DEF Accept, At
<1>3. PICK h \in Hotels : h = req[s].hotel
  BY <1>1, <1>2, ReviewRequest
<1>4. Known(h)
  BY <1>1, <1>2, <1>3, ReviewRequest
<1> DEFINE row == [draft[h] EXCEPT !.state = ManagerEditing]
<1>5. row \in Row
  BY ReadRowKnown DEF Row, States
<1>6. /\ draft' = [draft EXCEPT ![h] = row]
      /\ pages' \in [Sessions -> SUBSET Hotels]
      /\ Done(s)
      /\ UNCHANGED <<saves, submitted, pub, details, cache, held, faults>>
  BY <1>3 DEF Accept, Inv, TypeOK
<1> HIDE DEF row
<1>7. /\ draft' \in [Hotels -> Row]
      /\ \A g \in Hotels \ {h} : draft'[g] = draft[g]
  BY <1>5, <1>6 DEF Inv, TypeOK
<1>8. /\ req' \in [Sessions -> Request \cup {Idle}]
      /\ \A u \in Sessions \ {s} : req'[u] = req[u]
      /\ req'[s] = Idle
  BY <1>6, DoneRequest DEF Inv
<1>9. TypeOK'
  BY <1>6, <1>7, <1>8 DEF Inv, TypeOK, details
<1>10. Monotone
  BY <1>6, FrameIsMonotone DEF Inv
<1>11. DraftKnown(h)' /\ HeldKnown(s)'
  BY <1>4, <1>6, <1>10 DEF Inv, AllKnown, DraftKnown, HeldKnown, Known
<1>12. \A g \in Hotels : ~Clearing(s, g)
  BY <1>2 DEF Clearing, At
<1>13. QED
  BY <1>6, <1>7, <1>8, <1>9, <1>10, <1>11, <1>12, IdleIsKnown, QuietStep DEF details

-----------------------------------------------------------------------------
(* Taking a hotel off line and putting it back.                            *)

LEMMA LineRequest ==
    ASSUME Inv, NEW s \in Sessions, NEW pc \in LineSteps, At(s, pc)
    PROVE  /\ req[s].hotel \in Hotels
           /\ pub[req[s].hotel] # NotPublished
           /\ req[s].row \in Row /\ req[s].row.state \in Reviewed => Known(req[s].hotel)
<1>1. req[s] \in Request /\ req[s] # Idle /\ req[s].pc = pc
  BY DEF Inv, TypeOK, At
<1>2. QED
  BY <1>1 DEF Inv, AllKnown, ReqKnown, Request

\* The visible column of a published row is set.
LEMMA LineType ==
    ASSUME TypeOK, NEW h \in Hotels, pub[h] # NotPublished, NEW flag \in Flags,
           pub' = [pub EXCEPT ![h].visible = flag]
    PROVE  /\ pub' \in [Hotels -> Published \cup {NotPublished}]
           /\ \A g \in Hotels : pub'[g] # NotPublished <=> pub[g] # NotPublished
<1>1. pub[h] \in Published
  BY DEF TypeOK
<1>2. [pub[h] EXCEPT !.visible = flag] \in Published
  BY <1>1 DEF Published
<1>3. pub' = [pub EXCEPT ![h] = [pub[h] EXCEPT !.visible = flag]]
  BY DEF TypeOK
<1>4. QED
  BY <1>2, <1>3 DEF TypeOK

LEMMA DraftLineType ==
    ASSUME TypeOK, NEW h \in Hotels, NEW flag \in Flags,
           draft' = [draft EXCEPT ![h].visible = flag]
    PROVE  /\ draft' \in [Hotels -> Row]
           /\ \A g \in Hotels : draft'[g].state = draft[g].state
           /\ \A g \in Hotels \ {h} : draft'[g] = draft[g]
<1>1. draft[h] \in Row
  BY DEF TypeOK
<1>2. /\ [draft[h] EXCEPT !.visible = flag] \in Row
      /\ [draft[h] EXCEPT !.visible = flag].state = draft[h].state
  BY <1>1 DEF Row
<1>3. draft' = [draft EXCEPT ![h] = [draft[h] EXCEPT !.visible = flag]]
  BY DEF TypeOK
<1>4. QED
  BY <1>2, <1>3 DEF TypeOK

\* A step that sets visible columns, or nothing.
LEMMA LineInv ==
    ASSUME Inv, NEW s \in Sessions, NEW h \in Hotels,
           \A g \in Hotels : ~Clearing(s, g),
           draft' \in [Hotels -> Row],
           \A g \in Hotels : draft'[g].state = draft[g].state,
           \A g \in Hotels \ {h} : draft'[g] = draft[g],
           pub' \in [Hotels -> Published \cup {NotPublished}],
           \A g \in Hotels : pub'[g] # NotPublished <=> pub[g] # NotPublished,
           req' \in [Sessions -> Request \cup {Idle}],
           \A u \in Sessions \ {s} : req'[u] = req[u],
           \/ req'[s] = Idle
           \/ /\ req'[s].hotel = h
              /\ req'[s].pc \in LineSteps
              /\ req'[s].row \in Row /\ req'[s].row.state \in Reviewed => Known(h)
              /\ pub[h] # NotPublished,
           UNCHANGED <<saves, submitted, details, cache, browser, faults>>
    PROVE  Inv'
<1>1. TypeOK'
  BY DEF Inv, TypeOK, details, browser
<1>2. Monotone
  BY DEF Inv, TypeOK, Monotone, Known
<1>3. \A g \in Hotels : Known(g) => Known(g)'
  BY <1>2 DEF Monotone
<1>4. DraftKnown(h)' /\ HeldKnown(s)'
  <2>1. DraftKnown(h) /\ HeldKnown(s)
    BY DEF Inv, AllKnown
  <2>2. held[s] # NoHotel => held[s].hotel \in Hotels
    BY DEF Inv, TypeOK, HeldHotel
  <2>3. held' = held
    BY DEF browser
  <2>4. QED
    BY <1>3, <2>1, <2>2, <2>3 DEF DraftKnown, HeldKnown, Known
<1>5. ReqKnown(s)'
  <2>1. CASE req'[s] = Idle
    BY <2>1, IdleIsKnown
  <2>2. CASE req'[s] # Idle
    <3>1. req'[s].pc \notin EditSteps \cup ReviewSteps
      BY <2>2, StepSets
    <3>2. req'[s].pc # "submit" /\ req'[s].pc # "accept"
      BY <3>1 DEF EditSteps, ReviewSteps, CopySteps
    <3>3. QED
      BY <1>3, <2>2, <3>1, <3>2 DEF ReqKnown, Known
  <2>3. QED
    BY <2>1, <2>2
<1>6. QED
  BY <1>1, <1>2, <1>4, <1>5, QuietStep DEF details, browser

LEMMA LineStarts ==
    ASSUME Inv, NEW s \in Sessions, NEW h \in Hotels, StartOffline(s, h) \/ StartOnline(s, h)
    PROVE  Inv'
<1>1. PICK pc \in {"offT", "onE"} : Begin(s, h, NoRow, pc)
  BY DEF StartOffline, StartOnline
<1>2. /\ pub[h] # NotPublished
      /\ UNCHANGED <<drafts, details, cache, browser, faults>>
      /\ pub' = [pub EXCEPT ![h].visible = "T"] \/ UNCHANGED pub
  BY DEF StartOffline, StartOnline
<1>3. pc \in LineSteps /\ "T" \in Flags
  BY DEF LineSteps, Flags
<1>4. /\ req' \in [Sessions -> Request \cup {Idle}]
      /\ \A u \in Sessions \ {s} : req'[u] = req[u]
      /\ req[s] = Idle
      /\ req'[s].hotel = h
      /\ req'[s].row = NoRow
      /\ req'[s].pc = pc
  BY <1>1, <1>3, BeginRequest DEF Inv
<1>5. /\ pub' \in [Hotels -> Published \cup {NotPublished}]
      /\ \A g \in Hotels : pub'[g] # NotPublished <=> pub[g] # NotPublished
  BY <1>2, <1>3, LineType DEF Inv, TypeOK
<1>6. \A g \in Hotels : ~Clearing(s, g)
  BY <1>4 DEF Clearing
<1>7. draft' \in [Hotels -> Row]
  BY <1>2 DEF drafts, Inv, TypeOK
<1>8. QED
  BY <1>2, <1>3, <1>4, <1>5, <1>6, <1>7, LineInv DEF drafts

LEMMA LineStepInv ==
    ASSUME Inv, NEW s \in Sessions, Line(s)
    PROVE  Inv'
<1>1. PICK pc \in LineSteps : At(s, pc)
  BY DEF Line, OfflineTHotel, OfflineEHotel, OnlineEHotel, OnlineSucceeds, OnlineFails,
         UndoTHotel, UndoEHotel, LineSteps
<1>2. PICK h \in Hotels : h = req[s].hotel
  BY <1>1, LineRequest
<1>3. /\ pub[h] # NotPublished
      /\ req[s].row \in Row /\ req[s].row.state \in Reviewed => Known(h)
  BY <1>1, <1>2, LineRequest
<1>4. \A g \in Hotels : ~Clearing(s, g)
  BY <1>1 DEF Clearing, At, LineSteps
<1>5. /\ UNCHANGED <<saves, submitted, details, cache, browser, faults>>
      /\ Done(s) \/ \E to \in LineSteps : Goto(s, to)
      /\ \/ UNCHANGED <<draft, pub>>
         \/ \E flag \in Flags :
               pub' = [pub EXCEPT ![h].visible = flag] /\ UNCHANGED draft
         \/ \E flag \in Flags :
               draft' = [draft EXCEPT ![h].visible = flag] /\ UNCHANGED pub
  BY <1>2 DEF Line, OfflineTHotel, OfflineEHotel, OnlineEHotel, OnlineSucceeds, OnlineFails,
         UndoTHotel, UndoEHotel, LineSteps, SetTHotelLine, SetEHotelLine, drafts, Flags
<1>6. /\ req' \in [Sessions -> Request \cup {Idle}]
      /\ \A u \in Sessions \ {s} : req'[u] = req[u]
      /\ \/ req'[s] = Idle
         \/ /\ req'[s].hotel = h
            /\ req'[s].pc \in LineSteps
            /\ req'[s].row = req[s].row
  <2>1. CASE Done(s)
    BY <2>1, DoneRequest DEF Inv
  <2>2. CASE \E to \in LineSteps : Goto(s, to)
    BY <1>1, <1>2, <2>2, GotoRequest DEF Inv
  <2>3. QED
    BY <1>5, <2>1, <2>2
<1>7. /\ draft' \in [Hotels -> Row]
      /\ \A g \in Hotels : draft'[g].state = draft[g].state
      /\ \A g \in Hotels \ {h} : draft'[g] = draft[g]
      /\ pub' \in [Hotels -> Published \cup {NotPublished}]
      /\ \A g \in Hotels : pub'[g] # NotPublished <=> pub[g] # NotPublished
  <2>1. CASE UNCHANGED <<draft, pub>>
    BY <2>1 DEF Inv, TypeOK
  <2>2. CASE \E flag \in Flags :
               pub' = [pub EXCEPT ![h].visible = flag] /\ UNCHANGED draft
    BY <1>3, <2>2, LineType DEF Inv, TypeOK
  <2>3. CASE \E flag \in Flags :
               draft' = [draft EXCEPT ![h].visible = flag] /\ UNCHANGED pub
    BY <2>3, DraftLineType DEF Inv, TypeOK
  <2>4. QED
    BY <1>5, <2>1, <2>2, <2>3
<1>8. QED
  BY <1>3, <1>4, <1>5, <1>6, <1>7, LineInv

-----------------------------------------------------------------------------
(* The invariant holds.                                                    *)

\* A cut-off request counts as a fault, which both properties allow for.
LEMMA AbortInv ==
    ASSUME Inv, NEW s \in Sessions, Abort(s)
    PROVE  Inv'
<1>1. /\ Done(s) /\ req[s] # Idle
      /\ faults' = faults + 1 /\ faults < MaxFaults
      /\ UNCHANGED <<drafts, pub, details, cache, browser>>
  BY DEF Abort, Fault
<1>2. PICK h \in Hotels : h = req[s].hotel
  BY <1>1 DEF Inv, TypeOK, Request
<1>3. /\ req' \in [Sessions -> Request \cup {Idle}]
      /\ \A u \in Sessions \ {s} : req'[u] = req[u]
      /\ req'[s] = Idle
  BY <1>1, DoneRequest DEF Inv
<1>4. faults' \in 0..MaxFaults /\ faults' >= faults /\ faults' > 0
  BY <1>1 DEF Inv, TypeOK
<1>5. TypeOK'
  BY <1>1, <1>3, <1>4 DEF Inv, TypeOK, drafts, details, browser
<1>6. Monotone
  BY <1>1, <1>4 DEF Monotone, Known
<1>7. \A g \in Hotels : Known(g) => Known(g)'
  BY <1>6 DEF Monotone
<1>8. DraftKnown(h)' /\ HeldKnown(s)'
  <2>1. DraftKnown(h) /\ HeldKnown(s)
    BY DEF Inv, AllKnown
  <2>2. held[s] # NoHotel => held[s].hotel \in Hotels
    BY DEF Inv, TypeOK, HeldHotel
  <2>3. held' = held /\ draft' = draft
    BY <1>1 DEF browser, drafts
  <2>4. QED
    BY <1>7, <2>1, <2>2, <2>3 DEF DraftKnown, HeldKnown, Known
<1>9. QED
  BY <1>1, <1>3, <1>4, <1>5, <1>6, <1>8, IdleIsKnown, QuietStep DEF drafts, details, browser

LEMMA InitInv == Init => Inv
<1> SUFFICES ASSUME Init PROVE Inv
  OBVIOUS
<1>1. [state |-> UNInitial, visible |-> "T", text |-> 0] \in Row
  BY DEF Row, States, Flags, Texts
<1>2. TypeOK
  BY <1>1 DEF Init, TypeOK, Texts
<1>3. AllKnown
  BY DEF Init, AllKnown, DraftKnown, HeldKnown, ReqKnown, Reviewed, UNInitial,
         ManagerEditing, Editing
<1>4. RoomsComeBack
  BY DEF Init, RoomsComeBack
<1>5. QED
  BY <1>2, <1>3, <1>4 DEF Inv

LEMMA NextInv == Inv /\ [Next]_vars => Inv'
<1> SUFFICES ASSUME Inv, [Next]_vars PROVE Inv'
  OBVIOUS
<1>1. CASE UNCHANGED vars
  BY <1>1 DEF vars, drafts, details, browser, Inv, TypeOK, AllKnown, DraftKnown,
       HeldKnown, ReqKnown, Known, RoomsComeBack, Clearing
<1>2. ASSUME NEW s \in Sessions, NEW h \in Hotels, Start(s, h)
      PROVE  Inv'
  BY <1>2, OpenHotelInv, StartReviewInv, LineStarts DEF Start
<1>3. ASSUME NEW s \in Sessions, Edit(s) \/ Submission(s)
      PROVE  Inv'
  BY <1>3, SaveHeldRowInv, ReadRowInv, WriteRowInv, SavePicInv, SubmitReadInv,
     SubmitWriteInv DEF Edit, Submission
<1>4. ASSUME NEW s \in Sessions, Copy(s)
      PROVE  Inv'
  BY <1>4, FindTHotelInv, InsertTHotelInv, InsertClashesInv, UpdateTHotelInv,
     ClearRoomsInv, AddFacilitiesInv, AddRoomsInv, DropServicesInv, AddServicesInv
     DEF Copy
<1>5. QED
  BY <1>1, <1>2, <1>3, <1>4, PostStepInv, AcceptInv, LineStepInv, AbortInv DEF Next

THEOREM ReviewInv == Spec => []Inv
  BY InitInv, NextInv, PTL DEF Spec

\* Every state of the drafts, the published hotels, the sessions and their
\* requests is well typed, for any hotels, editors, reviewers and saves.
THEOREM ReviewTypeOK == Spec => []TypeOK
  BY ReviewInv, PTL DEF Inv

\* No save, submission, review or line change, in any order and cut off
\* anywhere, makes the draft of an unpublished hotel look reviewed.
THEOREM ReviewReviewedIsPublished == Spec => []ReviewedIsPublished
<1>1. Inv => ReviewedIsPublished
  BY DEF Inv, AllKnown, DraftKnown, Known, ReviewedIsPublished
<1>2. QED
  BY <1>1, ReviewInv, PTL

\* What looks reviewed is known to the OTS cache, unless something was cut off
\* or a broken connection was taken for success.
THEOREM ReviewReviewedIsCached == Spec => []ReviewedIsCached
<1>1. Inv => ReviewedIsCached
  BY DEF Inv, AllKnown, DraftKnown, Known, ReviewedIsCached
<1>2. QED
  BY <1>1, ReviewInv, PTL

\* Any number of reviews of one hotel, deleting and adding its rooms in any
\* order, leave it with rooms.
THEOREM ReviewRoomsComeBack == Spec => []RoomsComeBack
  BY ReviewInv, PTL DEF Inv
-----------------------------------------------------------------------------
(* Facilities come back. A published hotel may be without them for long; but *)
(* from the first post on it has them, but for the moment of a review that    *)
(* has dropped them, because a post comes after both have been added and      *)
(* facilities of room types are never deleted.                                *)

Adding(s, h) == At(s, "addServices") /\ req[s].hotel = h

Lists(h) ==
    /\ facilities[h] > 0
    /\ services[h] # {} \/ \E s \in Reviewers : Adding(s, h)

\* Where a review has added the facilities of the room types.
PastFacilities == {"rooms", "dropServices", "addServices", "post", "accept"}

ReqLists(s) ==
    req[s] # Idle =>
        /\ req[s].pc \in PastFacilities => facilities[req[s].hotel] > 0
        /\ req[s].pc = "post" => faults > 0 \/ Lists(req[s].hotel)

ListInv ==
    /\ \A h \in Hotels : cache[h] # NotCached => faults > 0 \/ Lists(h)
    /\ \A s \in Sessions : ReqLists(s)

\* What a step of s must not break, and what it must have for itself.
LEMMA ListsKeep ==
    ASSUME Inv, Inv', ListInv, faults' >= faults, NEW s \in Sessions,
           \A u \in Sessions \ {s} : req'[u] = req[u],
           \A h \in Hotels : facilities[h] > 0 => facilities'[h] > 0,
           \A h \in Hotels : services[h] # {} =>
               services'[h] # {} \/ (s \in Reviewers /\ Adding(s, h)'),
           \A h \in Hotels : Adding(s, h) =>
               services'[h] # {} \/ faults' > 0 \/ (s \in Reviewers /\ Adding(s, h)'),
           \A h \in Hotels : cache'[h] # NotCached =>
               cache[h] # NotCached \/ faults' > 0 \/ Lists(h),
           \A h \in Hotels : req'[s] # Idle /\ req'[s].hotel = h =>
               /\ req'[s].pc \in PastFacilities => facilities'[h] > 0
               /\ req'[s].pc = "post" => faults' > 0 \/ Lists(h) \/ Lists(h)'
    PROVE  ListInv'
<1>1. ASSUME NEW h \in Hotels, Lists(h), ~(faults' > 0)
      PROVE  Lists(h)'
  <2>1. facilities'[h] > 0
    BY <1>1 DEF Lists
  <2>2. CASE services[h] # {}
    BY <2>1, <2>2 DEF Lists
  <2>3. ASSUME NEW u \in Reviewers, Adding(u, h)
        PROVE  Lists(h)'
    <3>1. CASE u = s
      BY <1>1, <2>1, <2>3, <3>1 DEF Lists
    <3>2. CASE u # s
      BY <2>1, <2>3, <3>2 DEF Lists, Adding, At, Sessions
    <3>3. QED
      BY <3>1, <3>2
  <2>4. QED
    BY <1>1, <2>2, <2>3 DEF Lists
<1>2. faults \in Nat /\ faults' \in Nat /\ (faults > 0 => faults' > 0)
  BY DEF Inv, TypeOK
<1>3. ASSUME NEW h \in Hotels, cache'[h] # NotCached
      PROVE  faults' > 0 \/ Lists(h)'
  BY <1>1, <1>2, <1>3 DEF ListInv
<1>4. ASSUME NEW u \in Sessions
      PROVE  ReqLists(u)'
  <2>1. CASE u = s
    <3>1. CASE req'[s] = Idle
      BY <2>1, <3>1 DEF ReqLists
    <3>2. CASE req'[s] # Idle
      <4>1. PICK h \in Hotels : h = req'[s].hotel
        BY <3>2 DEF Inv, TypeOK, Request
      <4>2. req'[s].pc = "post" => faults' > 0 \/ Lists(h)'
        BY <1>1, <3>2, <4>1
      <4>3. QED
        BY <2>1, <3>2, <4>1, <4>2 DEF ReqLists
    <3>3. QED
      BY <3>1, <3>2
  <2>2. CASE u # s
    <3>1. ReqLists(u) /\ req'[u] = req[u]
      BY <2>2 DEF ListInv
    <3>2. req[u] # Idle => req[u].hotel \in Hotels
      BY DEF Inv, TypeOK, Request
    <3>3. QED
      BY <1>1, <1>2, <3>1, <3>2 DEF ReqLists
  <2>3. QED
    BY <2>1, <2>2
<1>5. QED
  BY <1>3, <1>4 DEF ListInv

\* A step that leaves the published facilities and the cache alone, and whose
\* request is not, or no longer, past the facilities.
LEMMA ListsQuiet ==
    ASSUME Inv, Inv', ListInv, NEW s \in Sessions, ~At(s, "addServices"),
           \A u \in Sessions \ {s} : req'[u] = req[u],
           faults' >= faults,
           UNCHANGED <<facilities, services, cache>>,
           req'[s] = Idle \/ req'[s].pc \notin PastFacilities
    PROVE  ListInv'
<1>1. "post" \in PastFacilities
  BY DEF PastFacilities
<1>2. \A h \in Hotels : ~Adding(s, h)
  BY DEF Adding
<1>3. QED
  BY <1>1, <1>2, ListsKeep

\* A step that leaves the requests alone, too.
LEMMA ListsStutter ==
    ASSUME ListInv, UNCHANGED <<facilities, services, cache, req, faults>>
    PROVE  ListInv'
  BY DEF ListInv, ReqLists, Lists, Adding, At

\* A request that begins.
LEMMA ListsBegin ==
    ASSUME Inv, Inv', ListInv, NEW s \in Sessions, NEW h \in Hotels,
           NEW row \in Row \cup {NoRow},
           NEW pc \in EditSteps \cup {"find", "offT", "onE"}, Begin(s, h, row, pc),
           UNCHANGED <<facilities, services, cache, faults>>
    PROVE  ListInv'
<1>1. /\ pc \in EditSteps \cup ReviewSteps \cup LineSteps
      /\ pc \notin PastFacilities
  BY DEF EditSteps, ReviewSteps, LineSteps, PastFacilities
<1>2. /\ \A u \in Sessions \ {s} : req'[u] = req[u]
      /\ req[s] = Idle
      /\ req'[s].pc = pc
  BY <1>1, BeginRequest DEF Inv
<1>3. ~At(s, "addServices") /\ faults' >= faults
  BY <1>2 DEF At, Inv, TypeOK
<1>4. QED
  BY <1>1, <1>2, <1>3, ListsQuiet

\* A request that ends, or goes on without having added facilities.
LEMMA ListsGoOn ==
    ASSUME Inv, Inv', ListInv, NEW s \in Sessions,
           NEW from \in (EditSteps \cup ReviewSteps \cup LineSteps) \ {"addServices"},
           At(s, from),
           \/ Done(s)
           \/ \E pc \in (EditSteps \cup ReviewSteps \cup LineSteps) \ PastFacilities :
                  Goto(s, pc),
           UNCHANGED <<facilities, services, cache, faults>>
    PROVE  ListInv'
<1>1. /\ \A u \in Sessions \ {s} : req'[u] = req[u]
      /\ req'[s] = Idle \/ req'[s].pc \notin PastFacilities
  <2>1. CASE Done(s)
    BY <2>1, DoneRequest DEF Inv
  <2>2. ASSUME NEW pc \in (EditSteps \cup ReviewSteps \cup LineSteps) \ PastFacilities,
               Goto(s, pc)
        PROVE  /\ \A u \in Sessions \ {s} : req'[u] = req[u]
               /\ req'[s].pc \notin PastFacilities
    BY <2>2, GotoRequest DEF Inv
  <2>3. QED
    BY <2>1, <2>2
<1>2. ~At(s, "addServices") /\ faults' >= faults
  BY DEF At, Inv, TypeOK
<1>3. QED
  BY <1>1, <1>2, ListsQuiet

LEMMA StartLists ==
    ASSUME Inv, Inv', ListInv, NEW s \in Sessions, NEW h \in Hotels, Start(s, h)
    PROVE  ListInv'
<1>1. CASE OpenHotel(s, h)
  BY <1>1, ListsStutter DEF OpenHotel, details
<1>2. CASE StartReview(s, h)
  BY <1>2, ReadRowKnown, ListsBegin DEF StartReview, details
<1>3. CASE StartOffline(s, h)
  BY <1>3, ListsBegin DEF StartOffline, details
<1>4. CASE StartOnline(s, h)
  BY <1>4, ListsBegin DEF StartOnline, details
<1>5. QED
  BY <1>1, <1>2, <1>3, <1>4 DEF Start

LEMMA EditLists ==
    ASSUME Inv, Inv', ListInv, NEW s \in Sessions, Edit(s) \/ Submission(s)
    PROVE  ListInv'
<1>1. "zones" \in EditSteps /\ "submit" \in EditSteps /\ "addServices" \notin EditSteps
  BY DEF EditSteps
<1>2. held[s] # NoHotel => held[s].hotel \in Hotels
  BY DEF Inv, TypeOK, HeldHotel
<1>3. CASE SaveHeldRow(s) \/ SavePic(s)
  BY <1>3, ListsStutter DEF SaveHeldRow, SavePic, details
<1>4. CASE ReadRow(s)
  <2>1. PICK h \in Hotels : h = held[s].hotel
    BY <1>2, <1>4 DEF ReadRow
  <2>2. [draft[h] EXCEPT !.text = saves[h] + 1] \in Row
    BY <1>4, <2>1, NextTextType, ReadRowKnown, WithText DEF ReadRow, Inv
  <2>3. QED
    BY <1>1, <1>4, <2>1, <2>2, ListsBegin DEF ReadRow, details
<1>5. CASE WriteRow(s) \/ SubmitWrite(s)
  BY <1>1, <1>5, ListsGoOn DEF WriteRow, SubmitWrite, details
<1>6. CASE SubmitRead(s)
  BY <1>1, <1>2, <1>6, ReadRowKnown, ListsBegin DEF SubmitRead, details
<1>7. QED
  BY <1>3, <1>4, <1>5, <1>6 DEF Edit, Submission

LEMMA LineLists ==
    ASSUME Inv, Inv', ListInv, NEW s \in Sessions, Line(s)
    PROVE  ListInv'
<1>1. PICK pc \in LineSteps : At(s, pc)
  BY DEF Line, OfflineTHotel, OfflineEHotel, OnlineEHotel, OnlineSucceeds, OnlineFails,
         UndoTHotel, UndoEHotel, LineSteps
<1>2. /\ UNCHANGED <<facilities, services, cache, faults>>
      /\ Done(s) \/ \E to \in LineSteps : Goto(s, to)
  BY DEF Line, OfflineTHotel, OfflineEHotel, OnlineEHotel, OnlineSucceeds, OnlineFails,
         UndoTHotel, UndoEHotel, LineSteps, SetTHotelLine, SetEHotelLine, details
<1>3. LineSteps \cap PastFacilities = {} /\ "addServices" \notin LineSteps
  BY DEF LineSteps, PastFacilities
<1>4. QED
  BY <1>1, <1>2, <1>3, ListsGoOn

\* A step of the copy from one statement to the next.
LEMMA CopyLists ==
    ASSUME Inv, Inv', ListInv, NEW s \in Sessions, NEW from \in ReviewSteps, At(s, from),
           NEW pc \in ReviewSteps, Goto(s, pc), NEW h \in Hotels, h = req[s].hotel,
           UNCHANGED <<cache, faults>>,
           \A g \in Hotels : facilities[g] > 0 => facilities'[g] > 0,
           pc \in PastFacilities => facilities'[h] > 0,
           \A g \in Hotels \ {h} : services'[g] = services[g],
           services[h] # {} => services'[h] # {} \/ pc = "addServices",
           from = "addServices" => services'[h] # {},
           pc = "post" => services'[h] # {}
    PROVE  ListInv'
<1>1. s \in Reviewers
  BY ReviewRequest
<1>2. /\ \A u \in Sessions \ {s} : req'[u] = req[u]
      /\ req[s].pc = from
      /\ req'[s] # Idle
      /\ req'[s].hotel = h
      /\ req'[s].pc = pc
  BY GotoRequest DEF Inv
<1>3. \A g \in Hotels : Adding(s, g) => services'[g] # {}
  BY <1>2 DEF Adding, At
<1>4. \A g \in Hotels : services[g] # {} => services'[g] # {} \/ Adding(s, g)'
  BY <1>2 DEF Adding, At
<1>5. pc = "post" => Lists(h)'
  BY DEF Lists, PastFacilities
<1>6. faults' >= faults
  BY DEF Inv, TypeOK
<1>7. QED
  BY <1>1, <1>2, <1>3, <1>4, <1>5, <1>6, ListsKeep

LEMMA CopyStepLists ==
    ASSUME Inv, Inv', ListInv, NEW s \in Sessions, Copy(s)
    PROVE  ListInv'
<1> USE DEF ReviewSteps, CopySteps, PastFacilities
<1>1. CASE FindTHotel(s)
  BY <1>1, ListsGoOn DEF FindTHotel, details
<1>2. CASE InsertTHotel(s)
  BY <1>2, ListsGoOn DEF InsertTHotel, details
<1>3. CASE InsertClashes(s)
  BY <1>3, ListsGoOn DEF InsertClashes, details
<1>4. CASE UpdateTHotel(s)
  BY <1>4, ListsGoOn DEF UpdateTHotel, details
<1>5. CASE ClearRooms(s)
  BY <1>5, ListsGoOn DEF ClearRooms
<1>6. CASE AddFacilities(s)
  <2>1. At(s, "facilities") /\ Goto(s, "rooms") /\ UNCHANGED <<services, cache, faults>>
    BY <1>6 DEF AddFacilities
  <2>2. PICK h \in Hotels : h = req[s].hotel
    BY <2>1, ReviewRequest
  <2>3. /\ facilities'[h] > 0
        /\ \A g \in Hotels : facilities[g] > 0 => facilities'[g] > 0
    BY <1>6, <2>2 DEF AddFacilities, Inv, TypeOK
  <2>4. QED
    BY <2>1, <2>2, <2>3, CopyLists
<1>7. CASE AddRooms(s)
  <2>1. /\ At(s, "rooms") /\ Goto(s, "dropServices")
        /\ UNCHANGED <<facilities, services, cache, faults>>
    BY <1>7 DEF AddRooms
  <2>2. PICK h \in Hotels : h = req[s].hotel
    BY <2>1, ReviewRequest
  <2>3. facilities[h] > 0
    BY <2>1, <2>2 DEF ListInv, ReqLists, At
  <2>4. QED
    BY <2>1, <2>2, <2>3, CopyLists
<1>8. CASE DropServices(s)
  <2>1. /\ At(s, "dropServices") /\ Goto(s, "addServices")
        /\ UNCHANGED <<facilities, cache, faults>>
    BY <1>8 DEF DropServices
  <2>2. PICK h \in Hotels : h = req[s].hotel
    BY <2>1, ReviewRequest
  <2>3. facilities[h] > 0
    BY <2>1, <2>2 DEF ListInv, ReqLists, At
  <2>4. \A g \in Hotels \ {h} : services'[g] = services[g]
    BY <1>8, <2>2 DEF DropServices, Inv, TypeOK
  <2>5. QED
    BY <2>1, <2>2, <2>3, <2>4, CopyLists
<1>9. CASE AddServices(s)
  <2>1. /\ At(s, "addServices") /\ Goto(s, "post")
        /\ UNCHANGED <<facilities, cache, faults>>
    BY <1>9 DEF AddServices
  <2>2. PICK h \in Hotels : h = req[s].hotel
    BY <2>1, ReviewRequest
  <2>3. facilities[h] > 0
    BY <2>1, <2>2 DEF ListInv, ReqLists, At
  <2>4. services'[h] # {} /\ \A g \in Hotels \ {h} : services'[g] = services[g]
    BY <1>9, <2>2 DEF AddServices, Inv, TypeOK
  <2>5. QED
    BY <2>1, <2>2, <2>3, <2>4, CopyLists
<1>10. QED
  BY <1>1, <1>2, <1>3, <1>4, <1>5, <1>6, <1>7, <1>8, <1>9 DEF Copy

\* A hotel comes into the cache by a post, when its facilities are there.
LEMMA PostLists ==
    ASSUME Inv, Inv', ListInv, NEW s \in Sessions, Post(s)
    PROVE  ListInv'
<1>1. At(s, "post") /\ req[s] # Idle /\ req[s].pc = "post"
  BY DEF Post, PostSucceeds, PostFails, PostNowhere, PostBreaks, At
<1>2. "post" \in ReviewSteps /\ "accept" \in ReviewSteps /\ "post" \in PastFacilities
  BY DEF ReviewSteps, CopySteps, PastFacilities
<1>3. PICK h \in Hotels : h = req[s].hotel
  BY <1>1, <1>2, ReviewRequest
<1>4. facilities[h] > 0 /\ (faults > 0 \/ Lists(h))
  BY <1>1, <1>2, <1>3 DEF ListInv, ReqLists
<1>5. /\ UNCHANGED <<facilities, services>>
      /\ faults' = faults \/ faults' = faults + 1
      /\ Recache(h) \/ UNCHANGED cache
      /\ Done(s) \/ Goto(s, "accept")
  BY <1>3 DEF Post, PostSucceeds, PostFails, PostNowhere, PostBreaks, Fault, details
<1>6. faults' \in Nat /\ faults' >= faults /\ (faults > 0 => faults' > 0)
  BY <1>5 DEF Inv, TypeOK
<1>7. \A g \in Hotels \ {h} : cache'[g] = cache[g]
  BY <1>5 DEF Recache, Inv, TypeOK
<1>8. /\ \A u \in Sessions \ {s} : req'[u] = req[u]
      /\ req'[s] # Idle => req'[s].hotel = h /\ req'[s].pc = "accept"
  <2>1. CASE Done(s)
    BY <2>1, DoneRequest DEF Inv
  <2>2. CASE Goto(s, "accept")
    BY <1>1, <1>2, <1>3, <2>2, GotoRequest DEF Inv
  <2>3. QED
    BY <1>5, <2>1, <2>2
<1>9. \A g \in Hotels : ~Adding(s, g)
  BY <1>1 DEF Adding, At
<1>10. QED
  BY <1>3, <1>4, <1>5, <1>6, <1>7, <1>8, <1>9, ListsKeep

LEMMA EndLists ==
    ASSUME Inv, Inv', ListInv, NEW s \in Sessions, Accept(s) \/ Abort(s)
    PROVE  ListInv'
<1>1. CASE Accept(s)
  BY <1>1, ListsGoOn DEF Accept, details, ReviewSteps, CopySteps
<1>2. CASE Abort(s)
  <2>1. /\ Done(s) /\ faults' = faults + 1
        /\ UNCHANGED <<facilities, services, cache>>
    BY <1>2 DEF Abort, Fault, details
  <2>2. faults' \in Nat /\ faults' >= faults /\ faults' > 0
    BY <2>1 DEF Inv, TypeOK
  <2>3. /\ \A u \in Sessions \ {s} : req'[u] = req[u]
        /\ req'[s] = Idle
    BY <2>1, DoneRequest DEF Inv
  <2>4. QED
    BY <2>1, <2>2, <2>3, ListsKeep
<1>3. QED
  BY <1>1, <1>2

LEMMA ListNext == Inv /\ Inv' /\ ListInv /\ [Next]_vars => ListInv'
<1> SUFFICES ASSUME Inv, Inv', ListInv, [Next]_vars PROVE ListInv'
  OBVIOUS
<1>1. CASE UNCHANGED vars
  BY <1>1, ListsStutter DEF vars, details
<1>2. QED
  BY <1>1, StartLists, EditLists, LineLists, CopyStepLists, PostLists, EndLists DEF Next

\* Any number of reviews of one hotel, dropping and adding its facilities in any
\* order, leave it with them once it looks reviewed.
THEOREM ReviewServicesComeBack == Spec => []ServicesComeBack
<1>1. Init => ListInv
  BY DEF Init, ListInv, ReqLists
<1>2. Inv /\ ListInv => ServicesComeBack
  BY DEF Inv, TypeOK, AllKnown, DraftKnown, Known, ListInv, Lists, Adding, ServicesComeBack
<1>3. QED
  BY <1>1, <1>2, ListNext, ReviewInv, PTL DEF Spec
=============================================================================
