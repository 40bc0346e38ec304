----------------------- MODULE HotelReviewAlone_proofs -----------------------
(***************************************************************************)
(* Proofs of what holds of HotelReview when no whole row is saved, and of  *)
(* what holds when, besides, a hotel has one owner and one reviewer; for   *)
(* any hotels, saves and faults. Whole rows bring old states back: that is *)
(* what HotelReviewStaleSession.cfg shows.                                 *)
(***************************************************************************)
EXTENDS HotelReview_proofs

-----------------------------------------------------------------------------
(* No whole row is saved: a hotel that was submitted once never looks new. *)

Past(h) == draft[h].state # UNInitial

PagesPast(s) == \A h \in pages[s] : Past(h)

ReqPast(s) ==
    req[s] # Idle =>
        /\ req[s].pc # "zones"
        /\ req[s].pc \in ReviewSteps => Past(req[s].hotel)

PastInv ==
    /\ \A h \in Hotels : pub[h] # NotPublished => Past(h)
    /\ \A s \in Sessions : PagesPast(s) /\ ReqPast(s)

LEMMA PastKeeps ==
    ASSUME Inv, PastInv, NEW s \in Sessions,
           \A h \in Hotels : Past(h) => Past(h)',
           \A h \in Hotels : pub'[h] # NotPublished => pub[h] # NotPublished \/ Past(h)',
           \A u \in Sessions \ {s} : req'[u] = req[u] /\ pages'[u] = pages[u],
           PagesPast(s)', ReqPast(s)'
    PROVE  PastInv'
<1>1. \A h \in Hotels : pub'[h] # NotPublished => Past(h)'
  BY DEF PastInv
<1>2. ASSUME NEW u \in Sessions \ {s}
      PROVE  PagesPast(u)' /\ ReqPast(u)'
  <2>1. PagesPast(u) /\ ReqPast(u) /\ req'[u] = req[u] /\ pages'[u] = pages[u]
    BY DEF PastInv
  <2>2. pages[u] \subseteq Hotels /\ (req[u] # Idle => req[u].hotel \in Hotels)
    BY DEF Inv, TypeOK, Request
  <2>3. QED
    BY <2>1, <2>2 DEF PagesPast, ReqPast
<1>3. QED
  BY <1>1, <1>2 DEF PastInv

\* A step that leaves the states and the pages alone, and publishes nothing but
\* what it has read for review.
LEMMA PastQuiet ==
    ASSUME Inv, PastInv, NEW s \in Sessions,
           \A h \in Hotels : draft'[h].state = draft[h].state,
           \A h \in Hotels : pub'[h] # NotPublished => pub[h] # NotPublished \/ Past(h),
           \A u \in Sessions \ {s} : req'[u] = req[u],
           pages' = pages,
           req' = req \/ ReqPast(s)'
    PROVE  PastInv'
<1>1. \A h \in Hotels : Past(h)' <=> Past(h)
  BY DEF Past
<1>2. pages[s] \subseteq Hotels /\ (req[s] # Idle => req[s].hotel \in Hotels)
  BY DEF Inv, TypeOK, Request
<1>3. PagesPast(s) /\ ReqPast(s)
  BY DEF PastInv
<1>4. PagesPast(s)' /\ ReqPast(s)'
  BY <1>1, <1>2, <1>3 DEF PagesPast, ReqPast
<1>5. QED
  BY <1>1, <1>4, PastKeeps

LEMMA IdleIsPast ==
    ASSUME NEW s, req'[s] = Idle
    PROVE  ReqPast(s)'
  BY DEF ReqPast

\* A step of a review from one statement to the next.
LEMMA CopyPast ==
    ASSUME Inv, PastInv, NEW s \in Sessions, NEW from \in ReviewSteps, At(s, from),
           \/ Done(s)
           \/ \E pc \in ReviewSteps : Goto(s, pc),
           UNCHANGED <<draft, pages>>,
           \A h \in Hotels \ {req[s].hotel} : pub'[h] = pub[h]
    PROVE  PastInv'
<1>1. PICK h \in Hotels : h = req[s].hotel
  BY ReviewRequest
<1>2. Past(h)
  BY <1>1 DEF PastInv, ReqPast, At
<1>3. /\ \A u \in Sessions \ {s} : req'[u] = req[u]
      /\ ReqPast(s)'
  <2>1. CASE Done(s)
    BY <2>1, DoneRequest, IdleIsPast DEF Inv
  <2>2. ASSUME NEW pc \in ReviewSteps, Goto(s, pc)
        PROVE  /\ \A u \in Sessions \ {s} : req'[u] = req[u]
               /\ ReqPast(s)'
    <3>1. /\ \A u \in Sessions \ {s} : req'[u] = req[u]
          /\ req'[s].hotel = h
          /\ req'[s].pc = pc
      BY <1>1, <2>2, GotoRequest DEF Inv
    <3>2. pc # "zones"
      BY StepSets DEF EditSteps
    <3>3. QED
      BY <1>2, <3>1, <3>2 DEF ReqPast, Past
  <2>3. QED
    BY <2>1, <2>2
<1>4. QED
  BY <1>1, <1>2, <1>3, PastQuiet

LEMMA StartPast ==
    ASSUME Inv, PastInv, NEW s \in Sessions, NEW h \in Hotels, Start(s, h)
    PROVE  PastInv'
<1> USE DEF ReviewSteps, CopySteps, LineSteps
<1>1. CASE OpenHotel(s, h)
  <2>1. /\ UNCHANGED <<draft, pub, req>>
        /\ \A u \in Sessions \ {s} : pages'[u] = pages[u]
        /\ \A g \in pages'[s] : g \in pages[s] \/ (g = h /\ OffersReview(draft[h]))
    BY <1>1 DEF OpenHotel, drafts, Inv, TypeOK
  <2>2. OffersReview(draft[h]) => Past(h)
    BY DEF OffersReview, Past, UnderReview, Submit, Editing, UNInitial
  <2>3. PagesPast(s)' /\ ReqPast(s)'
    BY <2>1, <2>2 DEF PastInv, PagesPast, ReqPast, Past
  <2>4. QED
    BY <2>1, <2>3, PastKeeps DEF Past
<1>2. CASE StartReview(s, h)
  <2>1. /\ h \in pages[s]
        /\ Begin(s, h, draft[h], "find")
        /\ UNCHANGED <<draft, pub, pages>>
    BY <1>2 DEF StartReview, drafts, browser
  <2>2. /\ \A u \in Sessions \ {s} : req'[u] = req[u]
        /\ req'[s].hotel = h
        /\ req'[s].pc = "find"
    BY <2>1, ReadRowKnown, BeginRequest DEF Inv
  <2>3. ReqPast(s)'
    BY <2>1, <2>2 DEF PastInv, PagesPast, ReqPast, Past
  <2>4. QED
    BY <2>1, <2>2, <2>3, PastQuiet
<1>3. CASE StartOffline(s, h) \/ StartOnline(s, h)
  <2>1. PICK pc \in {"offT", "onE"} : Begin(s, h, NoRow, pc)
    BY <1>3 DEF StartOffline, StartOnline
  <2>2. /\ UNCHANGED <<draft, pages>>
        /\ \A g \in Hotels : pub'[g] # NotPublished => pub[g] # NotPublished
    BY <1>3 DEF StartOffline, StartOnline, drafts, browser, Inv, TypeOK
  <2>3. /\ \A u \in Sessions \ {s} : req'[u] = req[u]
        /\ req'[s].pc = pc
    BY <2>1, BeginRequest DEF Inv
  <2>4. ReqPast(s)'
    BY <2>3 DEF ReqPast
  <2>5. QED
    BY <2>2, <2>3, <2>4, PastQuiet
<1>4. QED
  BY <1>1, <1>2, <1>3 DEF Start

\* A single column is written to the draft.
LEMMA StateColumn ==
    ASSUME TypeOK, NEW h \in Hotels, NEW state,
           draft' = [draft EXCEPT ![h].state = state]
    PROVE  /\ draft'[h].state = state
           /\ draft'[h].visible = draft[h].visible
           /\ draft'[h].text = draft[h].text
           /\ \A g \in Hotels \ {h} : draft'[g] = draft[g]
<1>1. draft[h] \in Row
  BY DEF TypeOK
<1>2. /\ [draft[h] EXCEPT !.state = state].state = state
      /\ [draft[h] EXCEPT !.state = state].visible = draft[h].visible
      /\ [draft[h] EXCEPT !.state = state].text = draft[h].text
  BY <1>1 DEF Row
<1>3. draft' = [draft EXCEPT ![h] = [draft[h] EXCEPT !.state = state]]
  BY DEF TypeOK
<1>4. QED
  BY <1>2, <1>3 DEF TypeOK

LEMMA TextColumn ==
    ASSUME TypeOK, NEW h \in Hotels, NEW text,
           draft' = [draft EXCEPT ![h].text = text]
    PROVE  /\ draft'[h].state = draft[h].state
           /\ draft'[h].visible = draft[h].visible
           /\ draft'[h].text = text
           /\ \A g \in Hotels \ {h} : draft'[g] = draft[g]
<1>1. draft[h] \in Row
  BY DEF TypeOK
<1>2. /\ [draft[h] EXCEPT !.text = text].state = draft[h].state
      /\ [draft[h] EXCEPT !.text = text].visible = draft[h].visible
      /\ [draft[h] EXCEPT !.text = text].text = text
  BY <1>1 DEF Row
<1>3. draft' = [draft EXCEPT ![h] = [draft[h] EXCEPT !.text = text]]
  BY DEF TypeOK
<1>4. QED
  BY <1>2, <1>3 DEF TypeOK

LEMMA VisibleColumn ==
    ASSUME TypeOK, NEW h \in Hotels, NEW flag,
           draft' = [draft EXCEPT ![h].visible = flag]
    PROVE  /\ draft'[h].state = draft[h].state
           /\ draft'[h].visible = flag
           /\ draft'[h].text = draft[h].text
           /\ \A g \in Hotels \ {h} : draft'[g] = draft[g]
<1>1. draft[h] \in Row
  BY DEF TypeOK
<1>2. /\ [draft[h] EXCEPT !.visible = flag].state = draft[h].state
      /\ [draft[h] EXCEPT !.visible = flag].visible = flag
      /\ [draft[h] EXCEPT !.visible = flag].text = draft[h].text
  BY <1>1 DEF Row
<1>3. draft' = [draft EXCEPT ![h] = [draft[h] EXCEPT !.visible = flag]]
  BY DEF TypeOK
<1>4. QED
  BY <1>2, <1>3 DEF TypeOK

LEMMA EditPast ==
    ASSUME RowSaves = {}, Inv, PastInv, NEW s \in Sessions, Edit(s) \/ Submission(s)
    PROVE  PastInv'
<1>1. held[s] # NoHotel => held[s].hotel \in Hotels
  BY DEF Inv, TypeOK, HeldHotel
<1>2. ~SaveHeldRow(s) /\ ~ReadRow(s) /\ ~WriteRow(s)
  BY DEF SaveHeldRow, ReadRow, WriteRow, PastInv, ReqPast, At
<1>3. CASE SavePic(s)
  <2>1. PICK h \in Hotels : draft' = [draft EXCEPT ![h].text = saves[h] + 1]
    BY <1>1, <1>3 DEF SavePic
  <2>2. \A g \in Hotels : draft'[g].state = draft[g].state
    BY <2>1, TextColumn DEF Inv
  <2>3. UNCHANGED <<pub, pages, req>>
    BY <1>3 DEF SavePic, browser
  <2>4. QED
    BY <2>2, <2>3, PastQuiet
<1>4. CASE SubmitRead(s)
  <2>1. PICK h \in Hotels : Begin(s, h, draft[h], "submit")
    BY <1>1, <1>4 DEF SubmitRead
  <2>2. /\ \A u \in Sessions \ {s} : req'[u] = req[u]
        /\ req'[s].pc = "submit"
    BY <2>1, ReadRowKnown, BeginRequest DEF Inv, EditSteps
  <2>3. ReqPast(s)'
    BY <2>2 DEF ReqPast, ReviewSteps, CopySteps
  <2>4. UNCHANGED <<draft, pub, pages>>
    BY <1>4 DEF SubmitRead, drafts, browser
  <2>5. QED
    BY <2>2, <2>3, <2>4, PastQuiet
<1>5. CASE SubmitWrite(s)
  <2>1. PICK h \in Hotels : h = req[s].hotel
    BY <1>5 DEF SubmitWrite, At, Inv, TypeOK, Request
  <2>2. /\ draft' = [draft EXCEPT ![h].state = SubmittedState(req[s].row.state)]
        /\ Done(s)
        /\ UNCHANGED <<pub, pages>>
    BY <1>5, <2>1 DEF SubmitWrite, browser
  <2>3. SubmittedState(req[s].row.state) # UNInitial
    BY DEF SubmittedState, Submit, Editing, UNInitial
  <2>4. \A g \in Hotels : Past(g) => Past(g)'
    BY <2>2, <2>3, StateColumn DEF Past, Inv
  <2>5. /\ \A u \in Sessions \ {s} : req'[u] = req[u]
        /\ ReqPast(s)'
    BY <2>2, DoneRequest, IdleIsPast DEF Inv
  <2>6. PagesPast(s)'
    BY <2>2, <2>4 DEF PastInv, PagesPast, Inv, TypeOK
  <2>7. QED
    BY <2>2, <2>4, <2>5, <2>6, PastKeeps
<1>6. QED
  BY <1>2, <1>3, <1>4, <1>5 DEF Edit, Submission

LEMMA ReviewPast ==
    ASSUME Inv, PastInv, NEW s \in Sessions, Copy(s) \/ Post(s)
    PROVE  PastInv'
<1> USE DEF ReviewSteps, CopySteps
<1>1. CASE FindTHotel(s)
  BY <1>1, CopyPast DEF FindTHotel, drafts, browser
<1>2. CASE InsertTHotel(s)
  BY <1>2, CopyPast DEF InsertTHotel, drafts, browser, Inv, TypeOK
<1>3. CASE InsertClashes(s)
  BY <1>3, CopyPast DEF InsertClashes, drafts, browser
<1>4. CASE UpdateTHotel(s)
  BY <1>4, CopyPast DEF UpdateTHotel, drafts, browser, Inv, TypeOK
<1>5. CASE ClearRooms(s)
  BY <1>5, CopyPast DEF ClearRooms, drafts, browser
<1>6. CASE AddFacilities(s) \/ AddRooms(s) \/ DropServices(s) \/ AddServices(s)
  BY <1>6, CopyPast DEF AddFacilities, AddRooms, DropServices, AddServices, drafts, browser
<1>7. CASE Post(s)
  BY <1>7, CopyPast
     DEF Post, PostSucceeds, PostFails, PostNowhere, PostBreaks, drafts, browser
<1>8. QED
  BY <1>1, <1>2, <1>3, <1>4, <1>5, <1>6, <1>7 DEF Copy

LEMMA AcceptPast ==
    ASSUME Inv, PastInv, NEW s \in Sessions, Accept(s)
    PROVE  PastInv'
<1>1. "accept" \in ReviewSteps
  BY DEF ReviewSteps, CopySteps
<1>2. PICK h \in Hotels : h = req[s].hotel
  BY <1>1, ReviewRequest DEF Accept
<1>3. /\ draft' = [draft EXCEPT ![h].state = ManagerEditing]
      /\ pages' = [pages EXCEPT ![s] = @ \ {h}]
      /\ Done(s)
      /\ pub' = pub
  BY <1>2 DEF Accept
<1>4. \A g \in Hotels : Past(g) => Past(g)'
  BY <1>3, StateColumn DEF Past, Inv, UNInitial, ManagerEditing
<1>5. /\ \A u \in Sessions \ {s} : req'[u] = req[u] /\ pages'[u] = pages[u]
      /\ pages'[s] \subseteq pages[s] /\ pages[s] \subseteq Hotels
      /\ ReqPast(s)'
  BY <1>3, DoneRequest, IdleIsPast DEF Inv, TypeOK
<1>6. PagesPast(s)'
  BY <1>4, <1>5 DEF PastInv, PagesPast
<1>7. QED
  BY <1>3, <1>4, <1>5, <1>6, PastKeeps

LEMMA LinePast ==
    ASSUME Inv, PastInv, NEW s \in Sessions, Line(s) \/ Abort(s)
    PROVE  PastInv'
<1>1. PICK h \in Hotels : h = req[s].hotel
  BY DEF Line, OfflineTHotel, OfflineEHotel, OnlineEHotel, OnlineSucceeds, OnlineFails,
         UndoTHotel, UndoEHotel, Abort, At, Inv, TypeOK, Request
<1>2. /\ \/ draft' = draft
         \/ \E flag : draft' = [draft EXCEPT ![h].visible = flag]
      /\ \/ pub' = pub
         \/ At(s, "offT") /\ pub' = [pub EXCEPT ![h].visible = "F"]
         \/ At(s, "undoT") /\ pub' = [pub EXCEPT ![h].visible = "F"]
      /\ pages' = pages
      /\ \/ Done(s)
         \/ \E from \in LineSteps, pc \in LineSteps : At(s, from) /\ Goto(s, pc)
  BY <1>1
     DEF Line, OfflineTHotel, OfflineEHotel, OnlineEHotel, OnlineSucceeds, OnlineFails,
         UndoTHotel, UndoEHotel, Abort, SetTHotelLine, SetEHotelLine, drafts, browser,
         LineSteps
<1>3. \A g \in Hotels : draft'[g].state = draft[g].state
  BY <1>2, VisibleColumn DEF Inv
<1>4. \A g \in Hotels : pub'[g] # NotPublished => pub[g] # NotPublished
  <2>1. "offT" \in LineSteps /\ "undoT" \in LineSteps
    BY DEF LineSteps
  <2>2. CASE pub' = pub
    BY <2>2
  <2>3. CASE /\ At(s, "offT") \/ At(s, "undoT")
             /\ pub' = [pub EXCEPT ![h].visible = "F"]
    BY <1>1, <2>1, <2>3, LineRequest DEF Inv, TypeOK
  <2>4. QED
    BY <1>2, <2>2, <2>3
<1>5. /\ \A u \in Sessions \ {s} : req'[u] = req[u]
      /\ ReqPast(s)'
  <2>1. CASE Done(s)
    BY <2>1, DoneRequest, IdleIsPast DEF Inv
  <2>2. ASSUME NEW pc \in LineSteps, NEW from, At(s, from), Goto(s, pc)
        PROVE  /\ \A u \in Sessions \ {s} : req'[u] = req[u]
               /\ ReqPast(s)'
    <3>1. /\ \A u \in Sessions \ {s} : req'[u] = req[u]
          /\ req'[s].pc = pc
      BY <2>2, GotoRequest DEF Inv
    <3>2. pc # "zones" /\ pc \notin ReviewSteps
      BY DEF LineSteps, ReviewSteps, CopySteps
    <3>3. QED
      BY <3>1, <3>2 DEF ReqPast
  <2>3. QED
    BY <1>2, <2>1, <2>2
<1>6. QED
  BY <1>2, <1>3, <1>4, <1>5, PastQuiet

LEMMA PastNext ==
    ASSUME RowSaves = {}
    PROVE  Inv /\ PastInv /\ [Next]_vars => PastInv'
<1> SUFFICES ASSUME Inv, PastInv, [Next]_vars PROVE PastInv'
  OBVIOUS
<1>1. CASE UNCHANGED vars
  BY <1>1 DEF vars, drafts, browser, PastInv, PagesPast, ReqPast, Past
<1>2. QED
  BY <1>1, StartPast, EditPast, ReviewPast, AcceptPast, LinePast DEF Next

\* A hotel in the state of one that was never reviewed is not published, for any
\* owners and reviewers, as long as rows are not written back as a whole.
THEOREM ReviewUNInitialIsNotPublished ==
    ASSUME RowSaves = {}
    PROVE  Spec => []UNInitialIsNotPublished
<1>1. Init => PastInv
  BY DEF Init, PastInv, PagesPast, ReqPast
<1>2. PastInv => UNInitialIsNotPublished
  BY DEF PastInv, Past, UNInitialIsNotPublished
<1>3. QED
  BY <1>1, <1>2, PastNext, ReviewInv, PTL DEF Spec

-----------------------------------------------------------------------------
(* One owner and one reviewer, besides. Between a submission and its       *)
(* acceptance nobody but the reviewer moves the hotel, and a review never  *)
(* meets another one, so what each statement has established still holds   *)
(* at the next.                                                            *)

Alone ==
    /\ RowSaves = {}
    /\ \A e, f \in Editors : e = f
    /\ \A r, q \in Reviewers : r = q

Working(s, h) ==
    /\ req[s] # Idle
    /\ req[s].hotel = h
    /\ req[s].pc \in ReviewSteps \cup LineSteps

\* What a review leaves when it gives the draft back.
Whole(h) ==
    /\ pub[h].text >= submitted[h]
    /\ faults > 0 \/ cache[h] = pub[h].text
    /\ rooms[h] > 0
    /\ facilities[h] > 0
    /\ services[h] # {}

Agrees(h) ==
    pub[h] # NotPublished =>
        \/ faults > 0
        \/ pub[h].visible = draft[h].visible
        \/ \E s \in Reviewers : Working(s, h)

HotelAlone(h) ==
    /\ submitted[h] <= draft[h].text
    /\ draft[h].text <= saves[h]
    /\ draft[h].state = ManagerEditing => Whole(h)
    /\ Agrees(h)

PagesAlone(s) == \A h \in pages[s] : s \in Reviewers /\ draft[h].state \in UnderReview

PastRooms == {"dropServices", "addServices", "post", "accept"}

ReqAlone(s) ==
    LET h == req[s].hotel
        pc == req[s].pc
    IN  req[s] # Idle =>
        /\ pc # "zones"
        /\ pc = "submit" => s \in Editors /\ draft[h].state = req[s].row.state
        /\ pc \in ReviewSteps \cup LineSteps => s \in Reviewers
        /\ pc \in ReviewSteps =>
               /\ draft[h].state \in UnderReview
               /\ draft[h].visible = "T" /\ req[s].row.visible = "T"
               /\ req[s].row.text >= submitted[h]
        /\ pc = "insert" => pub[h] = NotPublished
        /\ pc \in CopySteps => pub[h].text >= submitted[h] /\ pub[h].visible = "T"
        /\ pc \in PastFacilities => facilities[h] > 0
        /\ pc \in PastRooms => rooms[h] > 0
        /\ pc \in {"post", "accept"} => services[h] # {}
        /\ pc = "accept" => faults > 0 \/ cache[h] = pub[h].text
        /\ pc \in {"offE", "undoE"} => pub[h].visible = "F"
        /\ pc \in {"onE", "onPost"} => pub[h].visible = "T"
        /\ pc = "onPost" => draft[h].visible = "T"

AloneInv ==
    /\ \A h \in Hotels : HotelAlone(h)
    /\ \A s \in Sessions : PagesAlone(s) /\ ReqAlone(s)

\* A step of s on h: it is enough to look at s, at h, and at what others do
\* with h.
LEMMA AloneKeeps ==
    ASSUME Inv, AloneInv, NEW s \in Sessions, NEW h \in Hotels,
           \A g \in Hotels \ {h} :
              /\ draft'[g] = draft[g] /\ saves'[g] = saves[g] /\ submitted'[g] = submitted[g]
              /\ pub'[g] = pub[g] /\ cache'[g] = cache[g] /\ rooms'[g] = rooms[g]
              /\ facilities'[g] = facilities[g] /\ services'[g] = services[g],
           \A u \in Sessions \ {s} : req'[u] = req[u] /\ pages'[u] = pages[u],
           faults \in Nat, faults' \in Nat, faults' >= faults,
           req' = req \/ req[s] = Idle \/ req[s].hotel = h,
           \A u \in Sessions \ {s} : h \in pages[u] => draft'[h].state \in UnderReview,
           \A u \in Sessions \ {s} : req[u] # Idle /\ req[u].hotel = h => ReqAlone(u)',
           HotelAlone(h)', PagesAlone(s)', ReqAlone(s)'
    PROVE  AloneInv'
<1>1. ASSUME NEW g \in Hotels \ {h}
      PROVE  HotelAlone(g)'
  <2>1. HotelAlone(g)
    BY DEF AloneInv
  <2>2. Whole(g) => Whole(g)'
    BY DEF Whole
  <2>3. ASSUME pub'[g] # NotPublished, ~(faults' > 0), pub'[g].visible # draft'[g].visible
        PROVE  \E r \in Reviewers : Working(r, g)'
    <3>1. PICK r \in Reviewers : Working(r, g)
      BY <2>1, <2>3 DEF HotelAlone, Agrees
    <3>2. req'[r] = req[r]
      BY <3>1 DEF Working, Sessions
    <3>3. QED
      BY <3>1, <3>2 DEF Working
  <2>4. Agrees(g)'
    BY <2>3 DEF Agrees
  <2>5. QED
    BY <2>1, <2>2, <2>4 DEF HotelAlone
<1>2. ASSUME NEW u \in Sessions \ {s}
      PROVE  PagesAlone(u)' /\ ReqAlone(u)'
  <2>1. PagesAlone(u) /\ ReqAlone(u) /\ req'[u] = req[u] /\ pages'[u] = pages[u]
    BY DEF AloneInv
  <2>2. pages[u] \subseteq Hotels
    BY DEF Inv, TypeOK
  <2>3. PagesAlone(u)'
    BY <2>1, <2>2 DEF PagesAlone
  <2>4. CASE req[u] # Idle /\ req[u].hotel = h
    BY <2>3, <2>4
  <2>5. CASE req[u] # Idle /\ req[u].hotel # h
    <3>1. req[u].hotel \in Hotels \ {h}
      BY <2>5 DEF Inv, TypeOK, Request
    <3>2. QED
      BY <2>1, <2>3, <2>5, <3>1 DEF ReqAlone
  <2>6. CASE req[u] = Idle
    BY <2>1, <2>3, <2>6 DEF ReqAlone
  <2>7. QED
    BY <2>4, <2>5, <2>6
<1>3. QED
  BY <1>1, <1>2 DEF AloneInv

\* The reviewer is the only one, and leaves state and texts of the draft alone.
LEMMA ReviewerStep ==
    ASSUME Alone, Inv, AloneInv, NEW s \in Reviewers, NEW h \in Hotels,
           \A g \in Hotels \ {h} :
              /\ draft'[g] = draft[g] /\ pub'[g] = pub[g]
              /\ cache'[g] = cache[g] /\ rooms'[g] = rooms[g]
              /\ facilities'[g] = facilities[g] /\ services'[g] = services[g],
           draft'[h].state = draft[h].state, draft'[h].text = draft[h].text,
           UNCHANGED <<saves, submitted, pages>>,
           \A u \in Sessions \ {s} : req'[u] = req[u],
           faults' \in Nat, faults' >= faults,
           req[s] = Idle \/ req[s].hotel = h,
           draft[h].state = ManagerEditing => Whole(h)',
           Agrees(h)', ReqAlone(s)'
    PROVE  AloneInv'
<1>1. s \in Sessions /\ faults \in Nat /\ pages[s] \subseteq Hotels
  BY DEF Sessions, Inv, TypeOK
<1>2. ASSUME NEW u \in Sessions \ {s}
      PROVE  /\ h \in pages[u] => draft'[h].state \in UnderReview
             /\ req[u] # Idle /\ req[u].hotel = h => ReqAlone(u)'
  <2>1. PagesAlone(u) /\ ReqAlone(u) /\ u \notin Reviewers
    BY DEF AloneInv, Alone
  <2>2. h \notin pages[u]
    BY <2>1 DEF PagesAlone
  <2>3. ASSUME req[u] # Idle, req[u].hotel = h
        PROVE  ReqAlone(u)'
    <3>1. req[u].pc \in EditSteps \cup ReviewSteps \cup LineSteps
      BY <2>3 DEF Inv, TypeOK, Request
    <3>2. req[u].pc = "submit" /\ draft[h].state = req[u].row.state /\ u \in Editors
      BY <2>1, <2>3, <3>1 DEF ReqAlone, EditSteps
    <3>3. "submit" \notin ReviewSteps \cup LineSteps \cup PastFacilities \cup PastRooms
      BY DEF ReviewSteps, CopySteps, LineSteps, PastFacilities, PastRooms
    <3>4. QED
      BY <2>3, <3>2, <3>3, StepSets DEF ReqAlone
  <2>4. QED
    BY <2>2, <2>3
<1>3. HotelAlone(h)'
  BY DEF AloneInv, HotelAlone
<1>4. PagesAlone(s)'
  BY <1>1 DEF AloneInv, PagesAlone
<1>5. QED
  BY <1>1, <1>2, <1>3, <1>4, AloneKeeps

-----------------------------------------------------------------------------
(* The review.                                                             *)

\* What a review has established for the statement it executes next.
LEMMA ReviewAlone ==
    ASSUME Inv, AloneInv, NEW s \in Sessions, NEW pc \in ReviewSteps, At(s, pc)
    PROVE  /\ s \in Reviewers
           /\ req[s].hotel \in Hotels
           /\ req[s].row \in Row
           /\ draft[req[s].hotel].state \in UnderReview
           /\ ReqAlone(s) /\ req[s] # Idle /\ req[s].pc = pc
  BY ReviewRequest DEF AloneInv, ReqAlone, At

LEMMA UnderReviewIsNotAccepted ==
    ASSUME NEW state \in UnderReview PROVE state # ManagerEditing /\ state # UNInitial
  BY DEF UnderReview, Submit, Editing, ManagerEditing, UNInitial

\* From one statement to the next.
LEMMA ReviewStep ==
    ASSUME Alone, Inv, AloneInv, NEW s \in Sessions, NEW from \in ReviewSteps, At(s, from),
           NEW pc \in ReviewSteps, Goto(s, pc), NEW h \in Hotels, h = req[s].hotel,
           \A g \in Hotels \ {h} :
              /\ pub'[g] = pub[g] /\ cache'[g] = cache[g] /\ rooms'[g] = rooms[g]
              /\ facilities'[g] = facilities[g] /\ services'[g] = services[g],
           UNCHANGED <<drafts, pages>>, faults' \in Nat, faults' >= faults,
           pc = "insert" => pub'[h] = NotPublished,
           pc \in CopySteps => pub'[h].text >= submitted[h] /\ pub'[h].visible = "T",
           pc \in PastFacilities => facilities'[h] > 0,
           pc \in PastRooms => rooms'[h] > 0,
           pc \in {"post", "accept"} => services'[h] # {},
           pc = "accept" => faults' > 0 \/ cache'[h] = pub'[h].text
    PROVE  AloneInv'
<1>1. /\ s \in Reviewers
      /\ draft[h].state \in UnderReview
      /\ ReqAlone(s) /\ req[s] # Idle /\ req[s].pc = from
  BY ReviewAlone
<1>2. /\ \A u \in Sessions \ {s} : req'[u] = req[u]
      /\ req'[s] # Idle
      /\ req'[s].hotel = h
      /\ req'[s].row = req[s].row
      /\ req'[s].pc = pc
  BY GotoRequest DEF Inv
<1>3. UNCHANGED <<draft, saves, submitted, pages>>
  BY DEF drafts
<1>4. draft[h].state # ManagerEditing
  BY <1>1, UnderReviewIsNotAccepted
<1>5. Agrees(h)'
  BY <1>1, <1>2 DEF Agrees, Working
<1>6. pc \notin LineSteps /\ pc \notin {"zones", "submit"}
  BY DEF ReviewSteps, CopySteps, LineSteps
<1>7. pc \notin {"offE", "undoE", "onE", "onPost"}
  BY <1>6 DEF LineSteps
<1>8. ReqAlone(s)'
  BY <1>1, <1>2, <1>3, <1>6, <1>7 DEF ReqAlone
<1>9. QED
  BY <1>1, <1>2, <1>3, <1>4, <1>5, <1>8, ReviewerStep

\* A review that ends after the copy, without giving the draft back.
LEMMA ReviewEnds ==
    ASSUME Alone, Inv, AloneInv, NEW s \in Sessions, NEW from \in CopySteps, At(s, from),
           Done(s), NEW h \in Hotels, h = req[s].hotel,
           \A g \in Hotels \ {h} : cache'[g] = cache[g],
           UNCHANGED <<drafts, pub, details, pages, faults>>
    PROVE  AloneInv'
<1>1. from \in ReviewSteps
  BY StepSets
<1>2. /\ s \in Reviewers
      /\ draft[h].state \in UnderReview
      /\ ReqAlone(s) /\ req[s] # Idle /\ req[s].pc = from
  BY <1>1, ReviewAlone
<1>3. /\ \A u \in Sessions \ {s} : req'[u] = req[u]
      /\ req'[s] = Idle
  BY DoneRequest DEF Inv
<1>4. draft[h].state # ManagerEditing
  BY <1>2, UnderReviewIsNotAccepted
<1>5. Agrees(h)'
  BY <1>1, <1>2 DEF Agrees, ReqAlone, drafts
<1>6. ReqAlone(s)'
  BY <1>3 DEF ReqAlone
<1>7. QED
  BY <1>2, <1>3, <1>4, <1>5, <1>6, ReviewerStep DEF drafts, details, Inv, TypeOK

LEMMA StartReviewAlone ==
    ASSUME Alone, Inv, AloneInv, NEW s \in Sessions, NEW h \in Hotels, StartReview(s, h)
    PROVE  AloneInv'
<1>1. /\ s \in Reviewers /\ h \in pages[s] /\ draft[h].visible = "T"
      /\ Begin(s, h, draft[h], "find")
      /\ UNCHANGED <<draft, saves, submitted, pub, rooms, facilities, services, cache,
                     pages, faults>>
  BY DEF StartReview, drafts, details, browser
<1>2. /\ \A u \in Sessions \ {s} : req'[u] = req[u]
      /\ req[s] = Idle /\ req'[s] # Idle
      /\ req'[s].hotel = h
      /\ req'[s].row = draft[h]
      /\ req'[s].pc = "find"
  BY <1>1, ReadRowKnown, BeginRequest DEF Inv, ReviewSteps
<1>3. draft[h].state \in UnderReview /\ HotelAlone(h)
  BY <1>1 DEF AloneInv, PagesAlone
<1>4. Agrees(h)'
  BY <1>1, <1>2 DEF Agrees, Working, ReviewSteps
<1>5. draft[h].state # ManagerEditing
  BY <1>3, UnderReviewIsNotAccepted
<1>6. draft[h].text >= submitted[h]
  BY <1>3, ReadRowKnown DEF HotelAlone, Inv, TypeOK, Row, Texts
<1>7. ReqAlone(s)'
  BY <1>1, <1>2, <1>3, <1>6
     DEF ReqAlone, CopySteps, LineSteps, PastFacilities, PastRooms
<1>8. QED
  BY <1>1, <1>2, <1>4, <1>5, <1>7, ReviewerStep DEF Inv, TypeOK

LEMMA FindTHotelAlone ==
    ASSUME Alone, Inv, AloneInv, NEW s \in Sessions, FindTHotel(s)
    PROVE  AloneInv'
<1> DEFINE pc == IF pub[req[s].hotel] = NotPublished THEN "insert" ELSE "update"
<1>1. "find" \in ReviewSteps /\ pc \in ReviewSteps
  BY DEF ReviewSteps
<1>2. At(s, "find") /\ Goto(s, pc)
  BY DEF FindTHotel
<1>3. PICK h \in Hotels : h = req[s].hotel
  BY <1>1, <1>2, ReviewAlone
<1>4. /\ pc \notin CopySteps \cup PastFacilities \cup PastRooms \cup {"post", "accept"}
      /\ pc = "insert" => pub[h] = NotPublished
  BY <1>3 DEF CopySteps, PastFacilities, PastRooms
<1> HIDE DEF pc
<1>5. UNCHANGED <<drafts, pub, rooms, facilities, services, cache, pages, faults>>
  BY DEF FindTHotel, details, browser
<1>6. QED
  BY <1>1, <1>2, <1>3, <1>4, <1>5, ReviewStep DEF Inv, TypeOK

\* The row that was read is at least what was submitted, and on line.
LEMMA WriteTHotelAlone ==
    ASSUME Alone, Inv, AloneInv, NEW s \in Sessions, InsertTHotel(s) \/ UpdateTHotel(s)
    PROVE  AloneInv'
<1>1. PICK from \in {"insert", "update"} : At(s, from)
  BY DEF InsertTHotel, UpdateTHotel
<1>2. from \in ReviewSteps /\ "clear" \in ReviewSteps
  BY DEF ReviewSteps, CopySteps
<1>3. PICK h \in Hotels : h = req[s].hotel
  BY <1>1, <1>2, ReviewAlone
<1>4. /\ Goto(s, "clear")
      /\ pub' = [pub EXCEPT ![h] = CopyOf(req[s].row)]
      /\ UNCHANGED <<drafts, rooms, facilities, services, cache, pages, faults>>
  BY <1>3 DEF InsertTHotel, UpdateTHotel, details, browser
<1>5. req[s].row.visible = "T" /\ req[s].row.text >= submitted[h]
  BY <1>1, <1>2, <1>3, ReviewAlone DEF ReqAlone
<1>6. /\ pub'[h].text >= submitted[h] /\ pub'[h].visible = "T"
      /\ \A g \in Hotels \ {h} : pub'[g] = pub[g]
  BY <1>4, <1>5 DEF CopyOf, Inv, TypeOK
<1>7. "clear" \notin PastFacilities \cup PastRooms \cup {"post", "accept", "insert"}
  BY DEF PastFacilities, PastRooms
<1>8. QED
  BY <1>1, <1>2, <1>3, <1>4, <1>6, <1>7, ReviewStep DEF Inv, TypeOK

\* Nobody else inserts the row.
LEMMA InsertClashesAlone ==
    ASSUME Inv, AloneInv, NEW s \in Sessions
    PROVE  ~InsertClashes(s)
  BY ReviewAlone DEF InsertClashes, ReqAlone, ReviewSteps

\* The detail tables, statement by statement. What the published row says was
\* established by the statement that wrote it.
LEMMA DetailsAlone ==
    ASSUME Alone, Inv, AloneInv, NEW s \in Sessions,
           NEW from \in CopySteps \ {"accept"}, At(s, from),
           NEW pc \in CopySteps, Goto(s, pc), NEW h \in Hotels, h = req[s].hotel,
           \A g \in Hotels \ {h} : /\ cache'[g] = cache[g] /\ rooms'[g] = rooms[g]
                                   /\ facilities'[g] = facilities[g]
                                   /\ services'[g] = services[g],
           UNCHANGED <<drafts, pub, pages>>, faults' \in Nat, faults' >= faults,
           pc \in PastFacilities =>
               facilities'[h] > 0 \/ (from \in PastFacilities /\ facilities' = facilities),
           pc \in PastRooms => rooms'[h] > 0 \/ (from \in PastRooms /\ rooms' = rooms),
           pc \in {"post", "accept"} =>
               services'[h] # {} \/ (from = "post" /\ services' = services),
           pc = "accept" => faults' > 0 \/ cache'[h] = pub[h].text
    PROVE  AloneInv'
<1>1. from \in ReviewSteps /\ pc \in ReviewSteps /\ pc # "insert"
  BY StepSets DEF CopySteps
<1>2. ReqAlone(s) /\ req[s] # Idle /\ req[s].pc = from
  BY <1>1, ReviewAlone
<1>3. pub[h].text >= submitted[h] /\ pub[h].visible = "T"
  BY <1>2 DEF ReqAlone
<1>4. /\ from \in PastFacilities => facilities[h] > 0
      /\ from \in PastRooms => rooms[h] > 0
      /\ from = "post" => services[h] # {}
  BY <1>2 DEF ReqAlone
<1>5. QED
  BY <1>1, <1>3, <1>4, ReviewStep

LEMMA CopyAlone ==
    ASSUME Alone, Inv, AloneInv, NEW s \in Sessions, Copy(s)
    PROVE  AloneInv'
<1> USE DEF CopySteps, PastFacilities, PastRooms
<1>0. \A pc \in CopySteps : At(s, pc) => req[s].hotel \in Hotels
  BY StepSets, ReviewAlone
<1>1. CASE ClearRooms(s)
  <2>1. PICK from \in {"clear", "clearAgain"}, pc \in {"clearAgain", "facilities"} :
          At(s, from) /\ Goto(s, pc)
    BY <1>1 DEF ClearRooms
  <2>2. PICK h \in Hotels : h = req[s].hotel
    BY <1>0, <2>1
  <2>3. /\ \A g \in Hotels \ {h} : rooms'[g] = rooms[g]
        /\ UNCHANGED <<drafts, pub, facilities, services, cache, pages, faults>>
    BY <1>1, <2>2 DEF ClearRooms, browser, Inv, TypeOK
  <2>4. QED
    BY <2>1, <2>2, <2>3, DetailsAlone DEF Inv, TypeOK
<1>2. CASE AddFacilities(s)
  <2>1. At(s, "facilities") /\ Goto(s, "rooms")
    BY <1>2 DEF AddFacilities
  <2>2. PICK h \in Hotels : h = req[s].hotel
    BY <1>0, <2>1
  <2>3. /\ facilities'[h] > 0
        /\ \A g \in Hotels \ {h} : facilities'[g] = facilities[g]
        /\ UNCHANGED <<drafts, pub, rooms, services, cache, pages, faults>>
    BY <1>2, <2>2 DEF AddFacilities, browser, Inv, TypeOK
  <2>4. QED
    BY <2>1, <2>2, <2>3, DetailsAlone DEF Inv, TypeOK
<1>3. CASE AddRooms(s)
  <2>1. At(s, "rooms") /\ Goto(s, "dropServices")
    BY <1>3 DEF AddRooms
  <2>2. PICK h \in Hotels : h = req[s].hotel
    BY <1>0, <2>1
  <2>3. /\ rooms'[h] > 0
        /\ \A g \in Hotels \ {h} : rooms'[g] = rooms[g]
        /\ UNCHANGED <<drafts, pub, facilities, services, cache, pages, faults>>
    BY <1>3, <2>2 DEF AddRooms, browser, Inv, TypeOK
  <2>4. QED
    BY <2>1, <2>2, <2>3, DetailsAlone DEF Inv, TypeOK
<1>4. CASE DropServices(s)
  <2>1. At(s, "dropServices") /\ Goto(s, "addServices")
    BY <1>4 DEF DropServices
  <2>2. PICK h \in Hotels : h = req[s].hotel
    BY <1>0, <2>1
  <2>3. /\ \A g \in Hotels \ {h} : services'[g] = services[g]
        /\ UNCHANGED <<drafts, pub, rooms, facilities, cache, pages, faults>>
    BY <1>4, <2>2 DEF DropServices, browser, Inv, TypeOK
  <2>4. QED
    BY <2>1, <2>2, <2>3, DetailsAlone DEF Inv, TypeOK
<1>5. CASE AddServices(s)
  <2>1. At(s, "addServices") /\ Goto(s, "post")
    BY <1>5 DEF AddServices
  <2>2. PICK h \in Hotels : h = req[s].hotel
    BY <1>0, <2>1
  <2>3. /\ services'[h] # {}
        /\ \A g \in Hotels \ {h} : services'[g] = services[g]
        /\ UNCHANGED <<drafts, pub, rooms, facilities, cache, pages, faults>>
    BY <1>5, <2>2 DEF AddServices, browser, Inv, TypeOK
  <2>4. faults' \in Nat /\ faults' >= faults
    BY <2>3 DEF Inv, TypeOK
  <2>5. /\ "addServices" \in CopySteps \ {"accept"} /\ "post" \in CopySteps
        /\ "addServices" \in PastFacilities /\ "addServices" \in PastRooms
    OBVIOUS
  <2>6. QED
    BY <2>1, <2>2, <2>3, <2>4, <2>5, DetailsAlone
<1>6. QED
  BY <1>1, <1>2, <1>3, <1>4, <1>5, FindTHotelAlone, WriteTHotelAlone, InsertClashesAlone
  DEF Copy

LEMMA PostAlone ==
    ASSUME Alone, Inv, AloneInv, NEW s \in Sessions, Post(s)
    PROVE  AloneInv'
<1> USE DEF CopySteps, PastFacilities, PastRooms
<1>1. At(s, "post") /\ "post" \in CopySteps
  BY DEF Post, PostSucceeds, PostFails, PostNowhere, PostBreaks
<1>2. PICK h \in Hotels : h = req[s].hotel
  BY <1>1, StepSets, ReviewAlone
<1>3. /\ UNCHANGED <<drafts, pub, details, pages>>
      /\ Recache(h) \/ UNCHANGED cache
  BY <1>2 DEF Post, PostSucceeds, PostFails, PostNowhere, PostBreaks, browser
<1>4. \A g \in Hotels \ {h} : cache'[g] = cache[g]
  BY <1>3 DEF Recache, Inv, TypeOK
<1>5. CASE PostSucceeds(s) \/ PostBreaks(s)
  <2>1. Goto(s, "accept") /\ faults' \in Nat /\ faults' >= faults
    BY <1>5 DEF PostSucceeds, PostBreaks, Fault, Inv, TypeOK
  <2>2. faults' > 0 \/ cache'[h] = pub[h].text
    BY <1>2, <1>5 DEF PostSucceeds, PostBreaks, Recache, Fault, Inv, TypeOK
  <2>3. QED
    BY <1>1, <1>2, <1>3, <1>4, <2>1, <2>2, DetailsAlone DEF details
<1>6. CASE PostFails(s) \/ PostNowhere(s)
  <2>1. Done(s) /\ faults' = faults
    BY <1>6 DEF PostFails, PostNowhere
  <2>2. QED
    BY <1>1, <1>2, <1>3, <1>4, <2>1, ReviewEnds
<1>7. QED
  BY <1>5, <1>6 DEF Post

\* The draft goes back to its owner, whose own requests are over.
LEMMA AcceptAlone ==
    ASSUME Alone, Inv, AloneInv, NEW s \in Sessions, Accept(s)
    PROVE  AloneInv'
<1>1. "accept" \in ReviewSteps /\ At(s, "accept")
  BY DEF ReviewSteps, CopySteps, Accept
<1>2. PICK h \in Hotels : h = req[s].hotel
  BY <1>1, ReviewAlone
<1>3. /\ s \in Reviewers
      /\ draft[h].state \in UnderReview
      /\ ReqAlone(s) /\ req[s] # Idle /\ req[s].pc = "accept"
  BY <1>1, <1>2, ReviewAlone
<1>4. /\ draft' = [draft EXCEPT ![h].state = ManagerEditing]
      /\ pages' = [pages EXCEPT ![s] = @ \ {h}]
      /\ Done(s)
      /\ UNCHANGED <<saves, submitted, pub, rooms, facilities, services, cache, faults>>
  BY <1>2 DEF Accept, details
<1>5. /\ draft'[h].state = ManagerEditing
      /\ draft'[h].visible = draft[h].visible
      /\ draft'[h].text = draft[h].text
      /\ \A g \in Hotels \ {h} : draft'[g] = draft[g]
  BY <1>4, StateColumn DEF Inv
<1>6. /\ \A u \in Sessions \ {s} : req'[u] = req[u] /\ pages'[u] = pages[u]
      /\ req'[s] = Idle
      /\ pages'[s] = pages[s] \ {h}
      /\ pages[s] \subseteq Hotels
  BY <1>4, DoneRequest DEF Inv, TypeOK
<1>7. ASSUME NEW u \in Sessions \ {s}
      PROVE  h \notin pages[u] /\ ~(req[u] # Idle /\ req[u].hotel = h)
  <2>1. PagesAlone(u) /\ ReqAlone(u) /\ ReqKnown(u) /\ u \notin Reviewers
    BY <1>3 DEF Inv, AllKnown, AloneInv, Alone
  <2>2. ASSUME req[u] # Idle, req[u].hotel = h PROVE FALSE
    <3>1. req[u].pc \in EditSteps \cup ReviewSteps \cup LineSteps
      BY <2>2 DEF Inv, TypeOK, Request
    <3>2. req[u].pc = "submit" /\ draft[h].state = req[u].row.state
      BY <2>1, <2>2, <3>1 DEF ReqAlone, EditSteps
    <3>3. QED
      BY <1>3, <2>1, <2>2, <3>2, UnderReviewIsNotAccepted DEF ReqKnown
  <2>3. QED
    BY <2>1, <2>2 DEF PagesAlone
<1>8. Whole(h)'
  BY <1>2, <1>3, <1>4 DEF Whole, ReqAlone, CopySteps, PastFacilities, PastRooms
<1>9. Agrees(h)'
  BY <1>1, <1>2, <1>3, <1>4, <1>5 DEF Agrees, ReqAlone, CopySteps
<1>10. HotelAlone(h)'
  BY <1>4, <1>5, <1>8, <1>9 DEF AloneInv, HotelAlone
<1>11. PagesAlone(s)' /\ ReqAlone(s)'
  BY <1>5, <1>6 DEF AloneInv, PagesAlone, ReqAlone
<1>12. QED
  BY <1>2, <1>4, <1>5, <1>6, <1>7, <1>10, <1>11, AloneKeeps DEF Inv, TypeOK

-----------------------------------------------------------------------------
(* Off line and on line. The two columns differ only while a request that  *)
(* sets them is under way.                                                 *)

LEMMA PublishedColumn ==
    ASSUME TypeOK, NEW h \in Hotels, pub[h] # NotPublished, NEW flag,
           pub' = [pub EXCEPT ![h].visible = flag]
    PROVE  /\ pub'[h].visible = flag
           /\ pub'[h].text = pub[h].text
           /\ \A g \in Hotels \ {h} : pub'[g] = pub[g]
<1>1. pub[h] \in Published
  BY DEF TypeOK
<1>2. /\ [pub[h] EXCEPT !.visible = flag].visible = flag
      /\ [pub[h] EXCEPT !.visible = flag].text = pub[h].text
  BY <1>1 DEF Published
<1>3. pub' = [pub EXCEPT ![h] = [pub[h] EXCEPT !.visible = flag]]
  BY DEF TypeOK
<1>4. QED
  BY <1>2, <1>3 DEF TypeOK

\* What a request for one of the two columns has established.
LineFacts(pc, visible, draftVisible) ==
    /\ pc \in {"offE", "undoE"} => visible = "F"
    /\ pc \in {"onE", "onPost"} => visible = "T"
    /\ pc = "onPost" => draftVisible = "T"

\* A step that sets visible columns and goes on, or ends with them in agreement.
LEMMA LineStep ==
    ASSUME Alone, Inv, AloneInv, NEW s \in Reviewers, NEW h \in Hotels,
           req[s] = Idle \/ req[s].hotel = h,
           \A g \in Hotels \ {h} : draft'[g] = draft[g] /\ pub'[g] = pub[g],
           draft'[h].state = draft[h].state, draft'[h].text = draft[h].text,
           pub'[h].text = pub[h].text,
           UNCHANGED <<saves, submitted, pages, rooms, facilities, services, cache, faults>>,
           \A u \in Sessions \ {s} : req'[u] = req[u],
           \/ req'[s] = Idle /\ pub'[h].visible = draft'[h].visible
           \/ /\ req'[s] # Idle /\ req'[s].hotel = h /\ req'[s].pc \in LineSteps
              /\ LineFacts(req'[s].pc, pub'[h].visible, draft'[h].visible)
    PROVE  AloneInv'
<1>1. draft[h].state = ManagerEditing => Whole(h)'
  BY DEF AloneInv, HotelAlone, Whole
<1>2. Agrees(h)'
  BY DEF Agrees, Working
<1>3. CASE req'[s] = Idle
  BY <1>1, <1>2, <1>3, ReviewerStep DEF ReqAlone, Inv, TypeOK
<1>4. CASE /\ req'[s] # Idle /\ req'[s].hotel = h /\ req'[s].pc \in LineSteps
           /\ LineFacts(req'[s].pc, pub'[h].visible, draft'[h].visible)
  <2>1. req'[s].pc \notin EditSteps \cup ReviewSteps \cup CopySteps
    BY <1>4, StepSets
  <2>2. /\ PastFacilities \subseteq CopySteps /\ PastRooms \subseteq CopySteps
        /\ "accept" \in CopySteps /\ "post" \in CopySteps /\ "insert" \in ReviewSteps
        /\ "zones" \in EditSteps /\ "submit" \in EditSteps
    BY DEF PastFacilities, PastRooms, CopySteps, ReviewSteps, EditSteps
  <2>3. ReqAlone(s)'
    BY <1>4, <2>1, <2>2 DEF ReqAlone, LineFacts
  <2>4. QED
    BY <1>1, <1>2, <2>3, ReviewerStep DEF Inv, TypeOK
<1>5. QED
  BY <1>3, <1>4

LEMMA StartLineAlone ==
    ASSUME Alone, Inv, AloneInv, NEW s \in Sessions, NEW h \in Hotels,
           StartOffline(s, h) \/ StartOnline(s, h)
    PROVE  AloneInv'
<1>1. /\ s \in Reviewers /\ pub[h] # NotPublished
      /\ UNCHANGED <<draft, saves, submitted, pages, rooms, facilities, services, cache,
                     faults>>
  BY DEF StartOffline, StartOnline, drafts, details, browser
<1>2. PICK pc \in LineSteps :
        /\ Begin(s, h, NoRow, pc)
        /\ \/ pc = "offT" /\ pub' = pub
           \/ pc = "onE" /\ pub' = [pub EXCEPT ![h].visible = "T"]
  BY DEF StartOffline, StartOnline, LineSteps
<1>3. /\ \A u \in Sessions \ {s} : req'[u] = req[u]
      /\ req[s] = Idle /\ req'[s] # Idle
      /\ req'[s].hotel = h
      /\ req'[s].pc = pc
  BY <1>2, BeginRequest DEF Inv
<1>4. /\ pub'[h].text = pub[h].text
      /\ \A g \in Hotels \ {h} : pub'[g] = pub[g]
      /\ pc = "onE" => pub'[h].visible = "T"
  BY <1>1, <1>2, PublishedColumn DEF Inv
<1>5. LineFacts(pc, pub'[h].visible, draft'[h].visible)
  BY <1>2, <1>4 DEF LineFacts
<1>6. QED
  BY <1>1, <1>2, <1>3, <1>4, <1>5, LineStep

LEMMA LineAlone ==
    ASSUME Alone, Inv, AloneInv, NEW s \in Sessions, Line(s)
    PROVE  AloneInv'
<1>1. PICK from \in LineSteps :
        /\ At(s, from)
        /\ \/ OfflineTHotel(s) /\ from = "offT"
           \/ OfflineEHotel(s) /\ from = "offE"
           \/ OnlineEHotel(s) /\ from = "onE"
           \/ OnlineSucceeds(s) /\ from = "onPost"
           \/ OnlineFails(s) /\ from = "onPost"
           \/ UndoTHotel(s) /\ from = "undoT"
           \/ UndoEHotel(s) /\ from = "undoE"
  BY DEF Line, OfflineTHotel, OfflineEHotel, OnlineEHotel, OnlineSucceeds, OnlineFails,
         UndoTHotel, UndoEHotel, LineSteps
<1>2. PICK h \in Hotels : h = req[s].hotel
  BY <1>1, LineRequest
<1>3. /\ pub[h] # NotPublished /\ req[s] # Idle /\ req[s].pc = from
      /\ s \in Reviewers
      /\ LineFacts(from, pub[h].visible, draft[h].visible)
  BY <1>1, <1>2, LineRequest DEF AloneInv, ReqAlone, At, LineFacts
<1>4. UNCHANGED <<saves, submitted, pages, rooms, facilities, services, cache, faults>>
  BY <1>1 DEF OfflineTHotel, OfflineEHotel, OnlineEHotel, OnlineSucceeds, OnlineFails,
         UndoTHotel, UndoEHotel, SetTHotelLine, SetEHotelLine, drafts, details, browser
<1>5. ASSUME Done(s)
      PROVE  req'[s] = Idle /\ \A u \in Sessions \ {s} : req'[u] = req[u]
  BY <1>5, DoneRequest DEF Inv
<1>6. ASSUME NEW pc \in LineSteps, Goto(s, pc)
      PROVE  /\ \A u \in Sessions \ {s} : req'[u] = req[u]
             /\ req'[s] # Idle /\ req'[s].hotel = h /\ req'[s].pc = pc
  BY <1>1, <1>2, <1>6, GotoRequest DEF Inv
<1>7. ASSUME NEW flag, pub' = [pub EXCEPT ![h].visible = flag]
      PROVE  /\ pub'[h].visible = flag
             /\ pub'[h].text = pub[h].text
             /\ \A g \in Hotels \ {h} : pub'[g] = pub[g]
  BY <1>3, <1>7, PublishedColumn DEF Inv
<1>8. ASSUME NEW flag, draft' = [draft EXCEPT ![h].visible = flag]
      PROVE  /\ draft'[h].state = draft[h].state
             /\ draft'[h].visible = flag
             /\ draft'[h].text = draft[h].text
             /\ \A g \in Hotels \ {h} : draft'[g] = draft[g]
  BY <1>8, VisibleColumn DEF Inv
<1>9. CASE OfflineTHotel(s) \/ UndoTHotel(s)
  <2>1. PICK pc \in {"offE", "undoE"} :
          /\ pub' = [pub EXCEPT ![h].visible = "F"]
          /\ Goto(s, pc)
          /\ draft' = draft
    BY <1>2, <1>9 DEF OfflineTHotel, UndoTHotel, SetTHotelLine, drafts
  <2>2. pc \in LineSteps /\ LineFacts(pc, "F", draft'[h].visible)
    BY DEF LineSteps, LineFacts
  <2>3. /\ \A g \in Hotels \ {h} : draft'[g] = draft[g] /\ pub'[g] = pub[g]
        /\ draft'[h] = draft[h] /\ pub'[h].text = pub[h].text /\ pub'[h].visible = "F"
    BY <1>7, <2>1
  <2>4. /\ \A u \in Sessions \ {s} : req'[u] = req[u]
        /\ req'[s] # Idle /\ req'[s].hotel = h /\ req'[s].pc = pc
    BY <1>6, <2>1, <2>2
  <2>5. QED
    BY <1>2, <1>3, <1>4, <2>2, <2>3, <2>4, LineStep
<1>10. CASE (OfflineEHotel(s) /\ from = "offE") \/ (UndoEHotel(s) /\ from = "undoE")
  <2>1. draft' = [draft EXCEPT ![h].visible = "F"] /\ pub' = pub /\ Done(s)
    BY <1>2, <1>10 DEF OfflineEHotel, UndoEHotel, SetEHotelLine
  <2>2. pub[h].visible = "F"
    BY <1>3, <1>10 DEF LineFacts
  <2>3. /\ \A g \in Hotels \ {h} : draft'[g] = draft[g] /\ pub'[g] = pub[g]
        /\ draft'[h].state = draft[h].state /\ draft'[h].text = draft[h].text
        /\ pub'[h] = pub[h] /\ draft'[h].visible = "F"
    BY <1>8, <2>1
  <2>4. req'[s] = Idle /\ \A u \in Sessions \ {s} : req'[u] = req[u]
    BY <1>5, <2>1
  <2>5. QED
    BY <1>2, <1>3, <1>4, <2>2, <2>3, <2>4, LineStep
<1>11. CASE OnlineEHotel(s) /\ from = "onE"
  <2>1. draft' = [draft EXCEPT ![h].visible = "T"] /\ pub' = pub /\ Goto(s, "onPost")
    BY <1>2, <1>11 DEF OnlineEHotel, SetEHotelLine
  <2>2. "onPost" \in LineSteps /\ LineFacts("onPost", pub[h].visible, "T")
    BY <1>3, <1>11 DEF LineSteps, LineFacts
  <2>3. /\ \A g \in Hotels \ {h} : draft'[g] = draft[g] /\ pub'[g] = pub[g]
        /\ draft'[h].state = draft[h].state /\ draft'[h].text = draft[h].text
        /\ pub'[h] = pub[h] /\ draft'[h].visible = "T"
    BY <1>8, <2>1
  <2>4. /\ \A u \in Sessions \ {s} : req'[u] = req[u]
        /\ req'[s] # Idle /\ req'[s].hotel = h /\ req'[s].pc = "onPost"
    BY <1>6, <2>1, <2>2
  <2>5. QED
    BY <1>2, <1>3, <1>4, <2>2, <2>3, <2>4, LineStep
<1>12. CASE (OnlineSucceeds(s) \/ OnlineFails(s)) /\ from = "onPost"
  <2>1. draft' = draft /\ pub' = pub /\ (Done(s) \/ Goto(s, "undoT"))
    BY <1>12 DEF OnlineSucceeds, OnlineFails, drafts
  <2>2. pub[h].visible = draft[h].visible
    BY <1>3, <1>12 DEF LineFacts
  <2>3. "undoT" \in LineSteps /\ LineFacts("undoT", pub[h].visible, draft[h].visible)
    BY DEF LineSteps, LineFacts
  <2>4. QED
    BY <1>2, <1>3, <1>4, <1>5, <1>6, <2>1, <2>2, <2>3, LineStep
<1>13. QED
  BY <1>1, <1>9, <1>10, <1>11, <1>12

-----------------------------------------------------------------------------
(* Opening, editing and submitting.                                        *)

\* A step that leaves the tables alone.
LEMMA TablesStay ==
    ASSUME Inv, AloneInv, NEW s \in Sessions, NEW h \in Hotels,
           UNCHANGED <<drafts, pub, details, cache>>,
           \A u \in Sessions \ {s} : req'[u] = req[u] /\ pages'[u] = pages[u],
           faults' \in Nat, faults' >= faults,
           req' = req \/ req[s] = Idle \/ req[s].hotel = h,
           Agrees(h)', PagesAlone(s)', ReqAlone(s)'
    PROVE  AloneInv'
<1>1. /\ UNCHANGED <<draft, saves, submitted, rooms, facilities, services>>
      /\ faults \in Nat /\ pages \in [Sessions -> SUBSET Hotels]
  BY DEF drafts, details, Inv, TypeOK
<1>2. HotelAlone(h)'
  BY <1>1 DEF AloneInv, HotelAlone, Whole
<1>3. ASSUME NEW u \in Sessions \ {s}
      PROVE  /\ h \in pages[u] => draft'[h].state \in UnderReview
             /\ ReqAlone(u)'
  <2>1. PagesAlone(u) /\ ReqAlone(u) /\ req'[u] = req[u]
    BY DEF AloneInv
  <2>2. QED
    BY <1>1, <2>1 DEF PagesAlone, ReqAlone
<1>4. QED
  BY <1>1, <1>2, <1>3, AloneKeeps

LEMMA OpenHotelAlone ==
    ASSUME Inv, AloneInv, NEW s \in Sessions, NEW h \in Hotels, OpenHotel(s, h)
    PROVE  AloneInv'
<1>1. /\ UNCHANGED <<drafts, pub, details, cache, req, faults>>
      /\ \A u \in Sessions \ {s} : pages'[u] = pages[u]
      /\ \A g \in pages'[s] :
            g \in pages[s] \/ (g = h /\ s \in Reviewers /\ OffersReview(draft[h]))
  BY DEF OpenHotel, Inv, TypeOK
<1>2. PagesAlone(s) /\ ReqAlone(s) /\ HotelAlone(h)
  BY DEF AloneInv
<1>3. UNCHANGED <<draft, saves, submitted, rooms, facilities, services>>
  BY <1>1 DEF drafts, details
<1>4. PagesAlone(s)'
  BY <1>1, <1>2, <1>3 DEF PagesAlone, OffersReview
<1>5. Agrees(h)'
  BY <1>1, <1>2, <1>3 DEF HotelAlone, Agrees, Working
<1>6. ReqAlone(s)'
  BY <1>1, <1>2, <1>3 DEF ReqAlone
<1>7. QED
  BY <1>1, <1>4, <1>5, <1>6, TablesStay DEF Inv, TypeOK

LEMMA SavePicAlone ==
    ASSUME Inv, AloneInv, NEW s \in Sessions, SavePic(s)
    PROVE  AloneInv'
<1>1. PICK h \in Hotels : h = held[s].hotel
  BY DEF SavePic, Inv, TypeOK, HeldHotel
<1>2. /\ saves' = [saves EXCEPT ![h] = saves[h] + 1]
      /\ draft' = [draft EXCEPT ![h].text = saves[h] + 1]
      /\ UNCHANGED <<submitted, pub, rooms, facilities, services, cache, pages, req, faults>>
  BY <1>1 DEF SavePic, NextText, details, browser
<1>3. /\ draft'[h].state = draft[h].state
      /\ draft'[h].visible = draft[h].visible
      /\ draft'[h].text = saves[h] + 1
      /\ \A g \in Hotels \ {h} : draft'[g] = draft[g]
      /\ saves'[h] = saves[h] + 1
      /\ \A g \in Hotels \ {h} : saves'[g] = saves[g]
  BY <1>2, TextColumn DEF Inv, TypeOK
<1>4. saves[h] \in Nat /\ submitted[h] \in Nat /\ draft[h].text \in Nat
  BY ReadRowKnown DEF Inv, TypeOK, Row, Texts
<1>5. HotelAlone(h)'
  BY <1>2, <1>3, <1>4 DEF AloneInv, HotelAlone, Whole, Agrees, Working
<1>6. ASSUME NEW u \in Sessions
      PROVE  /\ h \in pages[u] => draft'[h].state \in UnderReview
             /\ PagesAlone(u)' /\ ReqAlone(u)'
  <2>1. PagesAlone(u) /\ ReqAlone(u)
    BY DEF AloneInv
  <2>2. \A g \in Hotels : draft'[g].state = draft[g].state /\ draft'[g].visible = draft[g].visible
    BY <1>3
  <2>3. pages[u] \subseteq Hotels /\ (req[u] # Idle => req[u].hotel \in Hotels)
    BY DEF Inv, TypeOK, Request
  <2>4. QED
    BY <1>2, <2>1, <2>2, <2>3 DEF PagesAlone, ReqAlone
<1>7. QED
  BY <1>2, <1>3, <1>5, <1>6, AloneKeeps DEF Inv, TypeOK

LEMMA SubmitReadAlone ==
    ASSUME Inv, AloneInv, NEW s \in Sessions, SubmitRead(s)
    PROVE  AloneInv'
<1>1. PICK h \in Hotels : h = held[s].hotel
  BY DEF SubmitRead, Inv, TypeOK, HeldHotel
<1>2. /\ s \in Editors
      /\ Begin(s, h, draft[h], "submit")
      /\ UNCHANGED <<drafts, pub, details, cache, pages, faults>>
  BY <1>1 DEF SubmitRead, browser
<1>3. /\ \A u \in Sessions \ {s} : req'[u] = req[u]
      /\ req[s] = Idle
      /\ req'[s] # Idle
      /\ req'[s].hotel = h
      /\ req'[s].row = draft[h]
      /\ req'[s].pc = "submit"
  BY <1>1, <1>2, ReadRowKnown, BeginRequest DEF Inv, EditSteps
<1>4. "submit" \notin ReviewSteps \cup LineSteps \cup CopySteps \cup PastFacilities \cup PastRooms
  BY DEF ReviewSteps, CopySteps, LineSteps, PastFacilities, PastRooms
<1>5. UNCHANGED <<draft, saves, submitted, rooms, facilities, services>>
  BY <1>2 DEF drafts, details
<1>6. ReqAlone(s)'
  BY <1>2, <1>3, <1>4, <1>5 DEF ReqAlone
<1>7. Agrees(h)'
  <2>1. \A r \in Reviewers : Working(r, h) => Working(r, h)'
    BY <1>3 DEF Working, Sessions
  <2>2. QED
    BY <1>2, <1>5, <2>1 DEF AloneInv, HotelAlone, Agrees
<1>8. PagesAlone(s)'
  BY <1>2, <1>5 DEF AloneInv, PagesAlone
<1>9. QED
  BY <1>1, <1>2, <1>3, <1>6, <1>7, <1>8, TablesStay DEF Inv, TypeOK

\* The hotel is with its owner when its submission is written: no page offers it
\* for review, and none is under way.
LEMMA SubmitWriteAlone ==
    ASSUME Alone, Inv, AloneInv, NEW s \in Sessions, SubmitWrite(s)
    PROVE  AloneInv'
<1>1. req[s] # Idle /\ req[s].pc = "submit"
  BY DEF SubmitWrite, At
<1>2. PICK h \in Hotels : h = req[s].hotel
  BY <1>1 DEF Inv, TypeOK, Request
<1> DEFINE state == SubmittedState(req[s].row.state)
<1>3. state \in UnderReview
  BY DEF SubmittedState, UnderReview
<1>4. /\ s \in Editors
      /\ draft[h].state \in {UNInitial, ManagerEditing}
  BY <1>1, <1>2 DEF AloneInv, ReqAlone, Inv, AllKnown, ReqKnown
<1>5. draft[h].state \notin UnderReview
  BY <1>4, UnderReviewIsNotAccepted
<1> HIDE DEF state
<1>6. /\ draft' = [draft EXCEPT ![h].state = state]
      /\ submitted' = [submitted EXCEPT ![h] = draft[h].text]
      /\ Done(s)
      /\ UNCHANGED <<saves, pub, rooms, facilities, services, cache, pages, faults>>
  BY <1>2 DEF SubmitWrite, details, browser, state
<1>7. /\ draft'[h].state = state
      /\ draft'[h].visible = draft[h].visible
      /\ draft'[h].text = draft[h].text
      /\ \A g \in Hotels \ {h} : draft'[g] = draft[g]
      /\ submitted'[h] = draft[h].text
      /\ \A g \in Hotels \ {h} : submitted'[g] = submitted[g]
  BY <1>6, StateColumn DEF Inv, TypeOK
<1>8. /\ \A u \in Sessions \ {s} : req'[u] = req[u]
      /\ req'[s] = Idle
  BY <1>6, DoneRequest DEF Inv
<1>9. \A u \in Sessions : h \notin pages[u]
  BY <1>5 DEF AloneInv, PagesAlone
<1>10. ASSUME NEW u \in Sessions \ {s}, req[u] # Idle, req[u].hotel = h
       PROVE  ReqAlone(u)'
  <2>1. ReqAlone(u) /\ req'[u] = req[u]
    BY <1>8 DEF AloneInv
  <2>2. req[u].pc \notin ReviewSteps /\ req[u].pc # "submit"
    BY <1>4, <1>5, <1>10, <2>1 DEF ReqAlone, Alone
  <2>3. CopySteps \subseteq ReviewSteps /\ "insert" \in ReviewSteps
        /\ PastFacilities \subseteq CopySteps /\ PastRooms \subseteq CopySteps
        /\ "post" \in CopySteps /\ "accept" \in CopySteps
    BY DEF ReviewSteps, CopySteps, PastFacilities, PastRooms
  <2>4. QED
    BY <1>6, <1>7, <1>10, <2>1, <2>2, <2>3 DEF ReqAlone
<1>11. draft[h].text \in Nat
  BY ReadRowKnown DEF Inv, TypeOK, Row, Texts
<1>12. Agrees(h)'
  <2>1. \A r \in Reviewers : Working(r, h) => Working(r, h)'
    BY <1>1, <1>8 DEF Working, Sessions, ReviewSteps, CopySteps, LineSteps
  <2>2. QED
    BY <1>6, <1>7, <2>1 DEF AloneInv, HotelAlone, Agrees
<1>13. HotelAlone(h)'
  BY <1>3, <1>6, <1>7, <1>11, <1>12, UnderReviewIsNotAccepted DEF AloneInv, HotelAlone
<1>14. PagesAlone(s)' /\ ReqAlone(s)'
  <2>1. pages[s] \subseteq Hotels \ {h}
    BY <1>9 DEF Inv, TypeOK
  <2>2. QED
    BY <1>6, <1>7, <1>8, <2>1 DEF AloneInv, PagesAlone, ReqAlone
<1>15. QED
  BY <1>2, <1>6, <1>7, <1>8, <1>9, <1>10, <1>13, <1>14, AloneKeeps DEF Inv, TypeOK

LEMMA EditAlone ==
    ASSUME Alone, Inv, AloneInv, NEW s \in Sessions, Edit(s) \/ Submission(s)
    PROVE  AloneInv'
<1>1. ~SaveHeldRow(s) /\ ~ReadRow(s) /\ ~WriteRow(s)
  BY DEF Alone, SaveHeldRow, ReadRow, WriteRow, AloneInv, ReqAlone, At
<1>2. QED
  BY <1>1, SavePicAlone, SubmitReadAlone, SubmitWriteAlone DEF Edit, Submission

\* A request is cut off; the two columns may differ from now on.
LEMMA AbortAlone ==
    ASSUME Inv, AloneInv, NEW s \in Sessions, Abort(s)
    PROVE  AloneInv'
<1>1. /\ req[s] # Idle /\ Done(s) /\ faults' = faults + 1
      /\ UNCHANGED <<drafts, pub, details, cache, pages>>
  BY DEF Abort, Fault, browser
<1>2. PICK h \in Hotels : h = req[s].hotel
  BY <1>1 DEF Inv, TypeOK, Request
<1>3. /\ \A u \in Sessions \ {s} : req'[u] = req[u]
      /\ req'[s] = Idle
  BY <1>1, DoneRequest DEF Inv
<1>4. faults' \in Nat /\ faults' >= faults /\ faults' > 0
  BY <1>1 DEF Inv, TypeOK
<1>5. Agrees(h)' /\ ReqAlone(s)' /\ PagesAlone(s)'
  BY <1>1, <1>3, <1>4 DEF Agrees, ReqAlone, AloneInv, PagesAlone, drafts
<1>6. QED
  BY <1>1, <1>2, <1>3, <1>4, <1>5, TablesStay

LEMMA AloneNext ==
    ASSUME Alone
    PROVE  Inv /\ AloneInv /\ [Next]_vars => AloneInv'
<1> SUFFICES ASSUME Inv, AloneInv, [Next]_vars PROVE AloneInv'
  OBVIOUS
<1>1. CASE UNCHANGED vars
  BY <1>1 DEF vars, drafts, details, browser, AloneInv, HotelAlone, Whole, Agrees, Working,
       PagesAlone, ReqAlone
<1>2. ASSUME NEW s \in Sessions, NEW h \in Hotels, Start(s, h)
      PROVE  AloneInv'
  BY <1>2, OpenHotelAlone, StartReviewAlone, StartLineAlone DEF Start
<1>3. QED
  BY <1>1, <1>2, EditAlone, CopyAlone, PostAlone, AcceptAlone, LineAlone, AbortAlone DEF Next

LEMMA AloneInit == Init => AloneInv
<1> SUFFICES ASSUME Init PROVE AloneInv
  OBVIOUS
<1>1. \A h \in Hotels : HotelAlone(h)
  BY DEF Init, HotelAlone, Agrees, UNInitial, ManagerEditing
<1>2. QED
  BY <1>1 DEF Init, AloneInv, PagesAlone, ReqAlone

\* What the statements of a review and of a submission have established holds
\* until the next statement of the same request.
THEOREM ReviewAloneInv ==
    ASSUME Alone
    PROVE  Spec => []AloneInv
  BY AloneInit, AloneNext, ReviewInv, PTL DEF Spec

\* A hotel that is back with its owner was published with the texts it was
\* submitted with, or later ones, whatever is cut off.
THEOREM ReviewSubmissionIsPublished ==
    ASSUME Alone
    PROVE  Spec => []SubmissionIsPublished
<1>1. AloneInv => SubmissionIsPublished
  BY DEF AloneInv, HotelAlone, Whole, SubmissionIsPublished
<1>2. QED
  BY <1>1, ReviewAloneInv, PTL

\* Without faults the OTS cache holds what was published last when the review
\* was accepted.
THEOREM ReviewAcceptedIsCached ==
    ASSUME Alone
    PROVE  Spec => []AcceptedIsCached
<1>1. Inv /\ AloneInv => AcceptedIsCached
  BY DEF Inv, TypeOK, AloneInv, HotelAlone, Whole, AcceptedIsCached
<1>2. QED
  BY <1>1, ReviewInv, ReviewAloneInv, PTL

\* A hotel that is back with its owner has its rooms and facilities, however
\* many reviews were cut off before.
THEOREM ReviewAcceptedIsWhole ==
    ASSUME Alone
    PROVE  Spec => []AcceptedIsWhole
<1>1. AloneInv => AcceptedIsWhole
  BY DEF AloneInv, HotelAlone, Whole, AcceptedIsWhole
<1>2. QED
  BY <1>1, ReviewAloneInv, PTL

\* Without faults the two visible columns agree when no request works on the
\* hotel, although reviews, offlineHotel and onLineHotel set them one by one.
THEOREM ReviewVisibleAgrees ==
    ASSUME Alone
    PROVE  Spec => []VisibleAgrees
<1>1. Inv /\ AloneInv => VisibleAgrees
  BY DEF Inv, TypeOK, AloneInv, HotelAlone, Agrees, Working, InReview, VisibleAgrees,
         Sessions
<1>2. QED
  BY <1>1, ReviewInv, ReviewAloneInv, PTL

-----------------------------------------------------------------------------
(* HotelReview implements ReviewCycle. A review shows the row it read when *)
(* it began: that row is not older than what guests see, because the only  *)
(* reviewer has begun no other review since.                               *)

HotelShown(h) == pub[h] # NotPublished => pub[h].text <= draft[h].text

BeforeShow == {"find", "insert", "update"}

ReqShown(s) ==
    LET h == req[s].hotel
    IN  req[s] # Idle /\ req[s].pc \in BeforeShow =>
            /\ req[s].row.text <= draft[h].text
            /\ pub[h] # NotPublished => pub[h].text <= req[s].row.text

ShownInv ==
    /\ \A h \in Hotels : HotelShown(h)
    /\ \A s \in Sessions : ReqShown(s)

\* A step of s that neither hands in, shows nor gives back anything.
Quiet(s) ==
    /\ \A h \in Hotels :
          /\ draft'[h].state = draft[h].state
          /\ draft'[h].text >= draft[h].text
          /\ pub'[h] = NotPublished <=> pub[h] = NotPublished
          /\ pub[h] # NotPublished => pub'[h].text = pub[h].text
    /\ submitted' = submitted
    /\ \A u \in Sessions \ {s} : req'[u] = req[u]
    /\ ReqShown(s)'

\* The texts are numbers, wherever they are.
LEMMA TextsAreNumbers ==
    ASSUME Inv
    PROVE  /\ \A h \in Hotels :
                 /\ draft[h].text \in Nat /\ draft[h].text \in Texts
                 /\ saves[h] \in Nat
                 /\ submitted[h] \in Nat
                 /\ pub[h] # NotPublished => pub[h].text \in Nat
           /\ \A s \in Sessions, pc \in ReviewSteps :
                 At(s, pc) => req[s].row.text \in Nat /\ req[s].row.text \in Texts
<1>1. Texts \subseteq Nat
  BY DEF Texts
<1>2. ASSUME NEW h \in Hotels
      PROVE  /\ draft[h].text \in Nat /\ draft[h].text \in Texts
             /\ saves[h] \in Nat
             /\ submitted[h] \in Nat
             /\ pub[h] # NotPublished => pub[h].text \in Nat
  BY <1>1 DEF Inv, TypeOK, Row, Published
<1>3. ASSUME NEW s \in Sessions, NEW pc \in ReviewSteps, At(s, pc)
      PROVE  req[s].row.text \in Nat /\ req[s].row.text \in Texts
  BY <1>1, <1>3, ReviewRequest DEF Row
<1>4. QED
  BY <1>2, <1>3

LEMMA PublishedStays ==
    ASSUME TypeOK, NEW h \in Hotels, pub[h] # NotPublished, NEW flag \in Flags,
           pub' = [pub EXCEPT ![h].visible = flag]
    PROVE  \A g \in Hotels : /\ pub'[g] = NotPublished <=> pub[g] = NotPublished
                             /\ pub[g] # NotPublished => pub'[g].text = pub[g].text
<1>1. /\ pub'[h].text = pub[h].text
      /\ \A g \in Hotels \ {h} : pub'[g] = pub[g]
  BY PublishedColumn
<1>2. pub[h] \in Published
  BY DEF TypeOK
<1>3. pub'[h] = [pub[h] EXCEPT !.visible = flag]
  BY <1>2 DEF TypeOK
<1>4. pub'[h] \in Published
  BY <1>2, <1>3 DEF Published
<1>5. QED
  BY <1>1, <1>4, ReviewNullsAssumption

\* What others read stays older than the draft when the step does not change
\* what guests see, or shows them nothing of these hotels.
LEMMA QuietKeeps ==
    ASSUME Inv, TypeOK', ShownInv, NEW s \in Sessions, Quiet(s)
    PROVE  ShownInv' /\ UNCHANGED Cycle!vars
<1>1. \A h \in Hotels : draft[h].text \in Nat /\ draft'[h].text \in Nat
  BY DEF Inv, TypeOK, Row, Texts
<1>2. ASSUME NEW h \in Hotels
      PROVE  HotelShown(h)'
  <2>1. HotelShown(h)
    BY DEF ShownInv
  <2>2. pub[h] # NotPublished => pub[h].text \in Nat
    BY TextsAreNumbers
  <2>3. QED
    BY <1>1, <2>1, <2>2 DEF HotelShown, Quiet
<1>3. ASSUME NEW u \in Sessions \ {s}
      PROVE  ReqShown(u)'
  <2>1. ReqShown(u) /\ req'[u] = req[u]
    BY DEF ShownInv, Quiet
  <2>2. CASE req[u] # Idle /\ req[u].pc \in BeforeShow
    <3>1. PICK pc \in ReviewSteps : At(u, pc)
      BY <2>2 DEF At, BeforeShow, ReviewSteps
    <3>2. req[u].hotel \in Hotels /\ req[u].row.text \in Nat
      BY <3>1, ReviewRequest, TextsAreNumbers
    <3>3. QED
      BY <1>1, <2>1, <2>2, <3>2 DEF ReqShown, Quiet
  <2>3. QED
    BY <2>1, <2>2 DEF ReqShown
<1>4. ShownInv'
  BY <1>2, <1>3 DEF ShownInv, Quiet
<1>5. Phases' = Phases
  <2>1. \A h \in Hotels : Phase(draft'[h].state) = Phase(draft[h].state)
    BY DEF Quiet
  <2>2. QED
    BY <2>1 DEF Phases
<1>6. Shown' = Shown
  BY DEF Shown, Quiet
<1>7. QED
  BY <1>4, <1>5, <1>6 DEF Cycle!vars, Quiet

LEMMA NothingToShow ==
    ASSUME NEW s, req'[s] = Idle \/ req'[s].pc \notin BeforeShow
    PROVE  ReqShown(s)'
  BY DEF ReqShown

\* A step that leaves drafts and published rows alone.
LEMMA QuietTables ==
    ASSUME Inv, NEW s \in Sessions, UNCHANGED <<draft, submitted, pub>>,
           \A u \in Sessions \ {s} : req'[u] = req[u],
           req' = req \/ ReqShown(s)', ShownInv
    PROVE  Quiet(s)
<1>1. \A h \in Hotels : draft[h].text \in Nat
  BY TextsAreNumbers
<1>2. ReqShown(s)'
  BY DEF ShownInv, ReqShown
<1>3. QED
  BY <1>1, <1>2 DEF Quiet

LEMMA StartQuiet ==
    ASSUME Inv, ShownInv, NEW s \in Sessions, NEW h \in Hotels, Start(s, h)
    PROVE  Quiet(s)
<1>1. CASE OpenHotel(s, h)
  BY <1>1, QuietTables DEF OpenHotel, drafts
<1>2. CASE StartReview(s, h)
  <2>1. Begin(s, h, draft[h], "find") /\ UNCHANGED <<draft, submitted, pub>>
    BY <1>2 DEF StartReview, drafts
  <2>2. /\ \A u \in Sessions \ {s} : req'[u] = req[u]
        /\ req'[s].hotel = h /\ req'[s].row = draft[h]
    BY <2>1, ReadRowKnown, BeginRequest DEF Inv, ReviewSteps
  <2>3. HotelShown(h) /\ draft[h].text \in Nat
    BY TextsAreNumbers DEF ShownInv
  <2>4. ReqShown(s)'
    BY <2>1, <2>2, <2>3 DEF ReqShown, HotelShown
  <2>5. QED
    BY <2>1, <2>2, <2>4, QuietTables
<1>3. CASE StartOffline(s, h) \/ StartOnline(s, h)
  <2>1. PICK pc \in LineSteps :
          /\ Begin(s, h, NoRow, pc)
          /\ pub' = pub \/ pub' = [pub EXCEPT ![h].visible = "T"]
    BY <1>3 DEF StartOffline, StartOnline, LineSteps
  <2>2. /\ \A u \in Sessions \ {s} : req'[u] = req[u]
        /\ req'[s].pc = pc
    BY <2>1, BeginRequest DEF Inv
  <2>3. ReqShown(s)'
    BY <2>2, NothingToShow DEF LineSteps, BeforeShow
  <2>4. pub[h] # NotPublished /\ UNCHANGED <<draft, submitted>>
    BY <1>3 DEF StartOffline, StartOnline, drafts
  <2>5. CASE pub' = pub
    BY <2>2, <2>3, <2>4, <2>5, QuietTables
  <2>6. CASE pub' = [pub EXCEPT ![h].visible = "T"]
    <3>1. \A g \in Hotels : /\ pub'[g] = NotPublished <=> pub[g] = NotPublished
                            /\ pub[g] # NotPublished => pub'[g].text = pub[g].text
      BY <2>4, <2>6, PublishedStays DEF Inv, Flags
    <3>2. \A g \in Hotels : draft[g].text \in Nat
      BY TextsAreNumbers
    <3>3. QED
      BY <2>2, <2>3, <2>4, <3>1, <3>2 DEF Quiet
  <2>7. QED
    BY <2>1, <2>5, <2>6
<1>4. QED
  BY <1>1, <1>2, <1>3 DEF Start

LEMMA EditQuiet ==
    ASSUME Alone, Inv, AloneInv, ShownInv, NEW s \in Sessions, Edit(s) \/ SubmitRead(s)
    PROVE  Quiet(s)
<1>1. ~SaveHeldRow(s) /\ ~ReadRow(s) /\ ~WriteRow(s)
  BY DEF Alone, SaveHeldRow, ReadRow, WriteRow, AloneInv, ReqAlone, At
<1>2. PICK h \in Hotels : h = held[s].hotel
  BY <1>1 DEF Edit, SavePic, SubmitRead, Inv, TypeOK, HeldHotel
<1>3. CASE SavePic(s)
  <2>1. /\ draft' = [draft EXCEPT ![h].text = saves[h] + 1]
        /\ UNCHANGED <<submitted, pub, req>>
    BY <1>2, <1>3 DEF SavePic
  <2>2. /\ draft'[h].state = draft[h].state
        /\ draft'[h].text = saves[h] + 1
        /\ \A g \in Hotels \ {h} : draft'[g] = draft[g]
    BY <2>1, TextColumn DEF Inv
  <2>3. HotelAlone(h)
    BY DEF AloneInv
  <2>4. \A g \in Hotels : draft'[g].state = draft[g].state /\ draft'[g].text >= draft[g].text
    BY <2>2, <2>3, TextsAreNumbers DEF HotelAlone
  <2>5. ReqShown(s)'
    <3>1. ReqShown(s) /\ req'[s] = req[s]
      BY <2>1 DEF ShownInv
    <3>2. CASE req[s] # Idle /\ req[s].pc \in BeforeShow
      <4>1. PICK pc \in ReviewSteps : At(s, pc)
        BY <3>2 DEF At, BeforeShow, ReviewSteps
      <4>2. req[s].hotel \in Hotels /\ req[s].row.text \in Nat
        BY <4>1, ReviewRequest, TextsAreNumbers
      <4>3. /\ draft[req[s].hotel].text \in Nat
            /\ draft'[req[s].hotel].text \in Nat
        BY <2>2, <4>2, TextsAreNumbers
      <4>4. QED
        BY <2>1, <2>4, <3>1, <3>2, <4>2, <4>3 DEF ReqShown
    <3>3. QED
      BY <3>1, <3>2 DEF ReqShown
  <2>6. QED
    BY <2>1, <2>4, <2>5 DEF Quiet
<1>4. CASE SubmitRead(s)
  <2>1. Begin(s, h, draft[h], "submit") /\ UNCHANGED <<draft, submitted, pub>>
    BY <1>2, <1>4 DEF SubmitRead, drafts
  <2>2. /\ \A u \in Sessions \ {s} : req'[u] = req[u]
        /\ req'[s].pc = "submit"
    BY <2>1, ReadRowKnown, BeginRequest DEF Inv, EditSteps
  <2>3. QED
    BY <2>1, <2>2, NothingToShow, QuietTables DEF BeforeShow
<1>5. QED
  BY <1>1, <1>3, <1>4 DEF Edit

\* A step of a review that neither shows anything nor gives the draft back.
LEMMA ReviewQuiet ==
    ASSUME Inv, AloneInv, ShownInv, NEW s \in Sessions, Copy(s) \/ Post(s) \/ Abort(s),
           ~InsertTHotel(s), ~UpdateTHotel(s)
    PROVE  Quiet(s)
<1>1. UNCHANGED <<draft, submitted, pub>>
  BY DEF Copy, FindTHotel, InsertClashes, ClearRooms, AddFacilities, AddRooms,
         DropServices, AddServices, Post, PostSucceeds, PostFails, PostNowhere,
         PostBreaks, Abort, drafts
<1>2. \/ FindTHotel(s)
      \/ Done(s)
      \/ \E from \in CopySteps, pc \in CopySteps : At(s, from) /\ Goto(s, pc)
  BY DEF Copy, InsertClashes, ClearRooms, AddFacilities, AddRooms,
         DropServices, AddServices, Post, PostSucceeds, PostFails, PostNowhere,
         PostBreaks, Abort, CopySteps
<1>3. CASE FindTHotel(s)
  <2> DEFINE pc == IF pub[req[s].hotel] = NotPublished THEN "insert" ELSE "update"
  <2>1. At(s, "find") /\ Goto(s, pc) /\ "find" \in ReviewSteps /\ pc \in ReviewSteps
    BY <1>3 DEF FindTHotel, ReviewSteps
  <2> HIDE DEF pc
  <2>2. /\ \A u \in Sessions \ {s} : req'[u] = req[u]
        /\ req'[s].hotel = req[s].hotel /\ req'[s].row = req[s].row
    BY <2>1, GotoRequest DEF Inv
  <2>3. ReqShown(s) /\ req[s] # Idle /\ req[s].pc \in BeforeShow
    BY <2>1 DEF ShownInv, At, BeforeShow
  <2>4. ReqShown(s)'
    BY <1>1, <2>2, <2>3 DEF ReqShown
  <2>5. QED
    BY <1>1, <2>2, <2>4, QuietTables
<1>4. CASE Done(s)
  BY <1>1, <1>4, DoneRequest, NothingToShow, QuietTables DEF Inv
<1>5. ASSUME NEW from \in CopySteps, NEW pc \in CopySteps, At(s, from), Goto(s, pc)
      PROVE  Quiet(s)
  <2>1. \A u \in Sessions \ {s} : req'[u] = req[u]
    BY <1>5, StepSets, GotoRequest DEF Inv
  <2>2. req'[s].pc = pc /\ pc \notin BeforeShow
    BY <1>5, StepSets, GotoRequest DEF Inv, CopySteps, BeforeShow
  <2>3. QED
    BY <1>1, <2>1, <2>2, NothingToShow, QuietTables
<1>6. QED
  BY <1>2, <1>3, <1>4, <1>5

LEMMA LineQuiet ==
    ASSUME Inv, ShownInv, NEW s \in Sessions, Line(s)
    PROVE  Quiet(s)
<1>1. PICK from \in LineSteps : At(s, from)
  BY DEF Line, OfflineTHotel, OfflineEHotel, OnlineEHotel, OnlineSucceeds, OnlineFails,
         UndoTHotel, UndoEHotel, LineSteps
<1>2. PICK h \in Hotels : h = req[s].hotel /\ pub[h] # NotPublished
  BY <1>1, LineRequest
<1>3. /\ draft' = draft \/ \E flag \in Flags : draft' = [draft EXCEPT ![h].visible = flag]
      /\ pub' = pub \/ pub' = [pub EXCEPT ![h].visible = "F"]
      /\ submitted' = submitted
      /\ Done(s) \/ \E pc \in LineSteps : Goto(s, pc)
  BY <1>2
     DEF Line, OfflineTHotel, OfflineEHotel, OnlineEHotel, OnlineSucceeds, OnlineFails,
         UndoTHotel, UndoEHotel, SetTHotelLine, SetEHotelLine, drafts, LineSteps, Flags
<1>4. \A g \in Hotels : draft'[g].state = draft[g].state /\ draft'[g].text = draft[g].text
  BY <1>3, VisibleColumn DEF Inv
<1>5. \A g \in Hotels : /\ pub'[g] = NotPublished <=> pub[g] = NotPublished
                        /\ pub[g] # NotPublished => pub'[g].text = pub[g].text
  BY <1>2, <1>3, PublishedStays DEF Inv, Flags
<1>6. /\ \A u \in Sessions \ {s} : req'[u] = req[u]
      /\ ReqShown(s)'
  <2>1. CASE Done(s)
    BY <2>1, DoneRequest, NothingToShow DEF Inv
  <2>2. ASSUME NEW pc \in LineSteps, Goto(s, pc)
        PROVE  /\ \A u \in Sessions \ {s} : req'[u] = req[u]
               /\ ReqShown(s)'
    <3>1. /\ \A u \in Sessions \ {s} : req'[u] = req[u]
          /\ req'[s].pc = pc
      BY <1>1, <2>2, GotoRequest DEF Inv
    <3>2. pc \notin BeforeShow
      BY DEF LineSteps, BeforeShow
    <3>3. QED
      BY <3>1, <3>2, NothingToShow
  <2>3. QED
    BY <1>3, <2>1, <2>2
<1>7. QED
  BY <1>3, <1>4, <1>5, <1>6, TextsAreNumbers DEF Quiet

LEMMA PhaseNames ==
    /\ Phase(UNInitial) = "new"
    /\ \A state \in UnderReview : Phase(state) = "submitted"
    /\ Phase(ManagerEditing) = "accepted"
  BY DEF Phase, UnderReview, UNInitial, Submit, ManagerEditing, Editing

\* The state of one draft moves on.
LEMMA PhaseMoves ==
    ASSUME TypeOK, NEW h \in Hotels, NEW state,
           draft' = [draft EXCEPT ![h].state = state]
    PROVE  Phases' = [Phases EXCEPT ![h] = Phase(state)]
<1>1. /\ draft'[h].state = state
      /\ \A g \in Hotels \ {h} : draft'[g].state = draft[g].state
  BY StateColumn
<1>2. \A g \in Hotels : Phase(draft'[g].state) = [Phases EXCEPT ![h] = Phase(state)][g]
  BY <1>1 DEF Phases
<1>3. QED
  BY <1>2 DEF Phases

\* The owner hands in what is in the draft.
LEMMA HandInStep ==
    ASSUME Alone, Inv, AloneInv, ShownInv, NEW s \in Sessions, SubmitWrite(s)
    PROVE  ShownInv' /\ Cycle!Next
<1>1. req[s] # Idle /\ req[s].pc = "submit"
  BY DEF SubmitWrite, At
<1>2. PICK h \in Hotels : h = req[s].hotel
  BY <1>1 DEF Inv, TypeOK, Request
<1> DEFINE state == SubmittedState(req[s].row.state)
<1>3. state \in UnderReview
  BY DEF SubmittedState, UnderReview
<1>4. draft[h].state \in {UNInitial, ManagerEditing}
  BY <1>1, <1>2 DEF AloneInv, ReqAlone, Inv, AllKnown, ReqKnown
<1> HIDE DEF state
<1>5. /\ draft' = [draft EXCEPT ![h].state = state]
      /\ submitted' = [submitted EXCEPT ![h] = draft[h].text]
      /\ Done(s)
      /\ pub' = pub
  BY <1>2 DEF SubmitWrite, state
<1>6. \A g \in Hotels : draft'[g].text = draft[g].text
  BY <1>5, StateColumn DEF Inv
<1>7. /\ req'[s] = Idle
      /\ \A u \in Sessions \ {s} : req'[u] = req[u]
  BY <1>5, DoneRequest DEF Inv
<1>8. ShownInv'
  <2>1. \A g \in Hotels : HotelShown(g)'
    BY <1>5, <1>6 DEF ShownInv, HotelShown
  <2>2. ASSUME NEW u \in Sessions \ {s} PROVE ReqShown(u)'
    <3>1. ReqShown(u) /\ req'[u] = req[u] /\ (req[u] # Idle => req[u].hotel \in Hotels)
      BY <1>7 DEF ShownInv, Inv, TypeOK, Request
    <3>2. QED
      BY <1>5, <1>6, <3>1 DEF ReqShown
  <2>3. QED
    BY <1>7, <2>1, <2>2, NothingToShow DEF ShownInv
<1>9. Phases[h] # "submitted"
  BY <1>4, PhaseNames DEF Phases
<1>10. Phases' = [Phases EXCEPT ![h] = "submitted"]
  BY <1>3, <1>5, PhaseMoves, PhaseNames DEF Inv
<1>11. draft[h].text >= submitted[h] /\ draft[h].text \in Texts
  BY TextsAreNumbers DEF AloneInv, HotelAlone
<1>12. Shown' = Shown
  BY <1>5 DEF Shown
<1>13. Cycle!HandIn(h, draft[h].text)
  BY <1>5, <1>9, <1>10, <1>11, <1>12 DEF Cycle!HandIn
<1>14. QED
  BY <1>8, <1>11, <1>13 DEF Cycle!Next

\* The published row is written: guests see what the review has read.
LEMMA ShowStep ==
    ASSUME Alone, Inv, AloneInv, ShownInv, NEW s \in Sessions,
           InsertTHotel(s) \/ UpdateTHotel(s)
    PROVE  ShownInv' /\ Cycle!Next
<1>1. PICK from \in {"insert", "update"} : At(s, from)
  BY DEF InsertTHotel, UpdateTHotel
<1>2. from \in ReviewSteps /\ from \in BeforeShow /\ "clear" \in ReviewSteps
      /\ "clear" \notin BeforeShow
  BY DEF ReviewSteps, CopySteps, BeforeShow
<1>3. PICK h \in Hotels : h = req[s].hotel
  BY <1>1, <1>2, ReviewAlone
<1> DEFINE text == req[s].row.text
<1>4. /\ Goto(s, "clear")
      /\ pub' = [pub EXCEPT ![h] = CopyOf(req[s].row)]
      /\ UNCHANGED <<draft, submitted>>
  BY <1>3 DEF InsertTHotel, UpdateTHotel, drafts
<1>5. /\ s \in Reviewers
      /\ draft[h].state \in UnderReview
      /\ text >= submitted[h]
      /\ text \in Nat /\ text \in Texts
  BY <1>1, <1>2, <1>3, ReviewAlone, TextsAreNumbers DEF ReqAlone
<1>6. text <= draft[h].text /\ (pub[h] # NotPublished => pub[h].text <= text)
  BY <1>1, <1>2, <1>3 DEF ShownInv, ReqShown, At
<1>7. /\ pub'[h] \in Published /\ pub'[h].text = text
      /\ \A g \in Hotels \ {h} : pub'[g] = pub[g]
  <2>1. req[s].row \in Row
    BY <1>1, <1>2, ReviewAlone
  <2>2. CopyOf(req[s].row) \in Published /\ CopyOf(req[s].row).text = text
    BY <2>1 DEF CopyOf, Row, Published
  <2>3. QED
    BY <1>4, <2>2 DEF Inv, TypeOK
<1> HIDE DEF text
<1>8. ShownInv'
  <2>1. ASSUME NEW g \in Hotels PROVE HotelShown(g)'
    <3>1. HotelShown(g)
      BY DEF ShownInv
    <3>2. QED
      BY <1>4, <1>6, <1>7, <3>1 DEF HotelShown
  <2>2. ASSUME NEW u \in Sessions \ {s} PROVE ReqShown(u)'
    <3>1. u \notin Reviewers
      BY <1>5 DEF Alone
    <3>2. ~(req[u] # Idle /\ req[u].pc \in BeforeShow)
      BY <3>1 DEF AloneInv, ReqAlone, BeforeShow, ReviewSteps
    <3>3. req'[u] = req[u]
      BY <1>1, <1>2, <1>4, GotoRequest DEF Inv
    <3>4. QED
      BY <3>2, <3>3 DEF ReqShown
  <2>3. req'[s].pc = "clear"
    BY <1>1, <1>2, <1>4, GotoRequest DEF Inv
  <2>4. QED
    BY <1>2, <2>1, <2>2, <2>3, NothingToShow DEF ShownInv
<1>9. Phases[h] = "submitted" /\ Phases' = Phases
  BY <1>4, <1>5, PhaseNames DEF Phases
<1>10. Shown' = [Shown EXCEPT ![h] = text]
  <2>1. pub'[h] # NotPublished
    BY <1>7, ReviewNullsAssumption
  <2>2. QED
    BY <1>7, <2>1 DEF Shown
<1>11. Shown[h] # NotPublished => text >= Shown[h]
  BY <1>5, <1>6, TextsAreNumbers DEF Shown
<1>12. Cycle!Show(h, text)
  BY <1>4, <1>5, <1>9, <1>10, <1>11 DEF Cycle!Show
<1>13. QED
  BY <1>5, <1>8, <1>12 DEF Cycle!Next

\* The review is over: guests see what was handed in.
LEMMA GiveBackStep ==
    ASSUME Alone, Inv, AloneInv, ShownInv, NEW s \in Sessions, Accept(s)
    PROVE  ShownInv' /\ Cycle!Next
<1>1. "accept" \in ReviewSteps /\ "accept" \in CopySteps /\ At(s, "accept")
  BY DEF ReviewSteps, CopySteps, Accept
<1>2. PICK h \in Hotels : h = req[s].hotel
  BY <1>1, ReviewAlone
<1>3. /\ draft[h].state \in UnderReview
      /\ pub[h] # NotPublished
      /\ pub[h].text >= submitted[h]
  BY <1>1, <1>2, ReviewAlone, ReviewRequest DEF ReqAlone
<1>4. /\ draft' = [draft EXCEPT ![h].state = ManagerEditing]
      /\ Done(s)
      /\ UNCHANGED <<submitted, pub>>
  BY <1>2 DEF Accept
<1>5. \A g \in Hotels : draft'[g].text = draft[g].text
  BY <1>4, StateColumn DEF Inv
<1>6. /\ req'[s] = Idle
      /\ \A u \in Sessions \ {s} : req'[u] = req[u]
  BY <1>4, DoneRequest DEF Inv
<1>7. ShownInv'
  <2>1. \A g \in Hotels : HotelShown(g)'
    BY <1>4, <1>5 DEF ShownInv, HotelShown
  <2>2. ASSUME NEW u \in Sessions \ {s} PROVE ReqShown(u)'
    <3>1. ReqShown(u) /\ req'[u] = req[u] /\ (req[u] # Idle => req[u].hotel \in Hotels)
      BY <1>6 DEF ShownInv, Inv, TypeOK, Request
    <3>2. QED
      BY <1>4, <1>5, <3>1 DEF ReqShown
  <2>3. QED
    BY <1>6, <2>1, <2>2, NothingToShow DEF ShownInv
<1>8. Phases[h] = "submitted" /\ Phases' = [Phases EXCEPT ![h] = "accepted"]
  BY <1>3, <1>4, PhaseMoves, PhaseNames DEF Phases, Inv
<1>9. Shown' = Shown /\ Shown[h] = pub[h].text
  BY <1>3, <1>4 DEF Shown
<1>10. Shown[h] # NotPublished
  <2>1. pub[h].text \in Texts
    BY <1>3 DEF Inv, TypeOK, Published
  <2>2. QED
    BY <1>9, <2>1, ReviewNullsAssumption
<1>11. Cycle!GiveBack(h)
  BY <1>3, <1>4, <1>8, <1>9, <1>10 DEF Cycle!GiveBack
<1>12. QED
  BY <1>7, <1>11 DEF Cycle!Next

LEMMA CycleNext ==
    ASSUME Alone
    PROVE  Inv /\ Inv' /\ AloneInv /\ ShownInv /\ [Next]_vars
           => ShownInv' /\ [Cycle!Next]_(Cycle!vars)
<1> SUFFICES ASSUME Inv, TypeOK', AloneInv, ShownInv, [Next]_vars
             PROVE  ShownInv' /\ [Cycle!Next]_(Cycle!vars)
  BY DEF Inv
<1>1. CASE UNCHANGED vars
  <2>1. UNCHANGED <<draft, submitted, pub, req>>
    BY <1>1 DEF vars, drafts
  <2>2. ShownInv'
    BY <2>1 DEF ShownInv, HotelShown, ReqShown
  <2>3. UNCHANGED Cycle!vars
    BY <2>1 DEF Cycle!vars, Phases, Shown
  <2>4. QED
    BY <2>2, <2>3
<1>2. ASSUME NEW s \in Sessions, Quiet(s)
      PROVE  ShownInv' /\ [Cycle!Next]_(Cycle!vars)
  BY <1>2, QuietKeeps
<1>3. ASSUME NEW s \in Sessions,
             \/ \E h \in Hotels : Start(s, h)
             \/ Edit(s) \/ Line(s) \/ Abort(s)
      PROVE  ShownInv' /\ [Cycle!Next]_(Cycle!vars)
  <2>1. CASE Abort(s)
    <3>1. ~InsertTHotel(s) /\ ~UpdateTHotel(s)
      <4>1. req'[s] = Idle
        BY <2>1, DoneRequest DEF Abort, Inv
      <4>2. ASSUME At(s, "insert") \/ At(s, "update"), Goto(s, "clear")
            PROVE  FALSE
        BY <4>1, <4>2, GotoRequest DEF Inv, ReviewSteps, CopySteps
      <4>3. QED
        BY <4>2 DEF InsertTHotel, UpdateTHotel
    <3>2. QED
      BY <1>2, <2>1, <3>1, ReviewQuiet
  <2>2. QED
    BY <1>2, <1>3, <2>1, StartQuiet, EditQuiet, LineQuiet
<1>4. ASSUME NEW s \in Sessions, Submission(s)
      PROVE  ShownInv' /\ [Cycle!Next]_(Cycle!vars)
  BY <1>2, <1>4, EditQuiet, HandInStep DEF Submission
<1>5. ASSUME NEW s \in Sessions, Copy(s) \/ Post(s)
      PROVE  ShownInv' /\ [Cycle!Next]_(Cycle!vars)
  BY <1>2, <1>5, ReviewQuiet, ShowStep
<1>6. ASSUME NEW s \in Sessions, Accept(s)
      PROVE  ShownInv' /\ [Cycle!Next]_(Cycle!vars)
  BY <1>6, GiveBackStep
<1>7. QED
  BY <1>1, <1>3, <1>4, <1>5, <1>6 DEF Next

LEMMA CycleInit == Init => ShownInv /\ Cycle!Init
<1> SUFFICES ASSUME Init PROVE ShownInv /\ Cycle!Init
  OBVIOUS
<1>1. ShownInv
  BY DEF Init, ShownInv, HotelShown, ReqShown
<1>2. Phases = [h \in Hotels |-> "new"]
  BY PhaseNames DEF Init, Phases
<1>3. Shown = [h \in Hotels |-> NotPublished]
  BY DEF Init, Shown
<1>4. QED
  BY <1>1, <1>2, <1>3 DEF Init, Cycle!Init

\* With one owner and one reviewer who save no whole row, the statements of any
\* number of submissions, reviews and saves, cut off anywhere, go through
\* ReviewCycle: guests and the owner are never put back to older texts, and a
\* hotel is given back only when guests see what was handed in.
THEOREM ReviewImplementsCycle ==
    ASSUME Alone
    PROVE  Spec => CycleSpec
  BY CycleInit, CycleNext, ReviewInv, ReviewAloneInv, PTL DEF Spec, CycleSpec, Cycle!Spec
=============================================================================
