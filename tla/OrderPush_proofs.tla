-------------------------- MODULE OrderPush_proofs --------------------------
(***************************************************************************)
(* Proofs about OrderPush, for every value of its constants.               *)
(***************************************************************************)
EXTENDS OrderPush, SequenceTheorems, FiniteSetTheorems, TLAPS

USE PushBoundsAssumption, PushFaultKindsAssumption,
    PushNullsAssumption

-----------------------------------------------------------------------------
(* Types.                                                                  *)

LEMMA ProcessType ==
    ASSUME TypeOK, NEW p \in Pages, NEW o \in Orders, Process(p, o)
    PROVE  /\ busy' \in [Pages -> BOOLEAN]
           /\ fetches' \in [Pages -> SUBSET Orders]
           /\ hand' \in [Pages -> Orders \cup {NoOrder}]
  BY DEF TypeOK, Process

LEMMA HeadTailType ==
    ASSUME NEW S, NEW s \in Seq(S), s # << >>
    PROVE  Head(s) \in S /\ Tail(s) \in Seq(S)
  OBVIOUS

LEMMA ArriveType ==
    ASSUME TypeOK, NEW p \in Pages, NEW o \in Orders, Arrive(p, o)
    PROVE  /\ queue' \in [Pages -> Seq(Orders)]
           /\ busy' \in [Pages -> BOOLEAN]
           /\ fetches' \in [Pages -> SUBSET Orders]
           /\ timers' \in [Pages -> Nat]
           /\ hand' \in [Pages -> Orders \cup {NoOrder}]
  <1>1. CASE ~busy[p] /\ Process(p, o) /\ UNCHANGED <<queue, timers>>
    BY <1>1, ProcessType DEF TypeOK
  <1>2. CASE /\ queue' = [queue EXCEPT ![p] = Append(@, o)]
             /\ UNCHANGED <<busy, fetches, timers, hand>>
    <2>1. Append(queue[p], o) \in Seq(Orders)
      BY DEF TypeOK
    <2>2. QED
      BY <1>2, <2>1 DEF TypeOK
  <1>3. QED
    BY <1>1, <1>2 DEF Arrive

LEMMA ShowType ==
    ASSUME TypeOK, NEW p \in Pages, NEW window \in {"price", "info"}, Show(p, window)
    PROVE  /\ windows' \in [Pages -> Seq({"price", "info"})]
           /\ holds' \in [Pages -> BOOLEAN]
  <1>1. Append(windows[p], window) \in Seq({"price", "info"})
    BY DEF TypeOK
  <1>2. QED
    BY <1>1 DEF TypeOK, Show

LEMMA DealType ==
    ASSUME TypeOK, NEW p \in Pages, Deal(p)
    PROVE  /\ busy' \in [Pages -> BOOLEAN]
           /\ fetches' \in [Pages -> SUBSET Orders]
           /\ timers' \in [Pages -> Nat]
           /\ hand' \in [Pages -> Orders \cup {NoOrder}]
  <1>1. CASE queue[p] # << >>
    <2>1. queue[p] \in Seq(Orders)
      BY DEF TypeOK
    <2>2. Head(queue[p]) \in Orders
      BY <1>1, <2>1, HeadTailType
    <2>3. Process(p, Head(queue[p])) /\ timers' = [timers EXCEPT ![p] = @ + 1]
      BY <1>1 DEF Deal
    <2>4. timers' \in [Pages -> Nat]
      BY <2>3 DEF TypeOK
    <2>5. QED
      BY <2>2, <2>3, <2>4, ProcessType
  <1>2. CASE queue[p] = << >>
    BY <1>2 DEF Deal, TypeOK
  <1>3. QED
    BY <1>1, <1>2

LEMMA TalliesType ==
    ASSUME TypeOK
    PROVE  (Act \/ \E kind : Fault(kind)) =>
               /\ faults' \in 0..MaxFaults /\ acts' \in 0..MaxActs /\ pushes' \in 0..MaxPushes
               /\ rushed' \subseteq Pages
  BY DEF TypeOK, Fault, Act

LEMMA TypeInit == Init => TypeOK
  <1> SUFFICES ASSUME Init PROVE TypeOK
    OBVIOUS
  <1>1. << >> \in Seq(Orders) /\ << >> \in Seq({"price", "info"})
    OBVIOUS
  <1>2. /\ wire \in [Pages -> Seq(Orders)]
        /\ queue \in [Pages -> Seq(Orders)]
        /\ windows \in [Pages -> Seq({"price", "info"})]
    BY <1>1 DEF Init
  <1>3. /\ busy \in [Pages -> BOOLEAN]
        /\ fetches \in [Pages -> SUBSET Orders]
        /\ dataObj \in [Pages -> Orders \cup {NoOrder}]
        /\ holds \in [Pages -> BOOLEAN]
        /\ timers \in [Pages -> Nat]
        /\ asked \in [Pages -> Nat]
        /\ hand \in [Pages -> Orders \cup {NoOrder}]
    BY DEF Init
  <1>4. /\ link \in {"down", "up", "known"}
        /\ channel \in Connections
        /\ sessionId \in Connections
        /\ registered \in BOOLEAN
        /\ sessionMap \in Pages \cup {Nobody}
        /\ socket \in [Pages -> {"none", "connecting", "open", "closed", "gone"}]
        /\ hello \in [Pages -> {"none", "sent", "mapped", "done"}]
    BY DEF Init, Connections
  <1>5. /\ pushes \in 0..MaxPushes /\ acts \in 0..MaxActs /\ faults \in 0..MaxFaults
        /\ rushed \subseteq Pages
    BY DEF Init
  <1>6. QED
    BY <1>2, <1>3, <1>4, <1>5 DEF TypeOK

LEMMA TypeNext ==
    ASSUME TypeOK, [Next]_vars PROVE TypeOK'
  <1> USE DEF TypeOK, Connections, sync, desk, shown, tallies
  <1>1. ASSUME Connect PROVE TypeOK'
    BY <1>1 DEF Connect
  <1>2. ASSUME Identify PROVE TypeOK'
    BY <1>2 DEF Identify
  <1>3. ASSUME LinkLost PROVE TypeOK'
    <2>1. channel' \in Connections /\ sessionId' \in Connections
      BY <1>3 DEF LinkLost, OfLost
    <2>2. Fault("link")
      BY <1>3 DEF LinkLost
    <2>3. QED
      BY <1>3, <2>1, <2>2, TalliesType DEF LinkLost
  <1>4. ASSUME NEW o \in Orders, PushOrder(o) PROVE TypeOK'
    BY <1>4 DEF PushOrder
  <1>5. ASSUME NEW p \in Pages, OpenPage(p) PROVE TypeOK'
    BY <1>5 DEF OpenPage
  <1>6. ASSUME NEW p \in Pages, SocketOpens(p) PROVE TypeOK'
    BY <1>6 DEF SocketOpens
  <1>7. ASSUME NEW p \in Pages, HandleConnect(p) PROVE TypeOK'
    BY <1>7 DEF HandleConnect
  <1>8. ASSUME NEW p \in Pages, CheckHotelOrder(p) PROVE TypeOK'
    BY <1>8 DEF CheckHotelOrder
  <1>9. ASSUME NEW p \in Pages, SocketLost(p) PROVE TypeOK'
    <2>1. Fault("socket")
      BY <1>9 DEF SocketLost
    <2>2. << >> \in Seq(Orders)
      OBVIOUS
    <2>3. wire' \in [Pages -> Seq(Orders)]
      BY <1>9, <2>2 DEF SocketLost
    <2>4. QED
      BY <1>9, <2>1, <2>3, TalliesType DEF SocketLost
  <1>10. ASSUME NEW p \in Pages, LeavePage(p) PROVE TypeOK'
    BY <1>10 DEF LeavePage
  <1>11. ASSUME NEW p \in Pages, Receive(p) PROVE TypeOK'
    <2>1. wire[p] \in Seq(Orders) /\ wire[p] # << >>
      BY <1>11 DEF Receive
    <2>2. Head(wire[p]) \in Orders /\ Tail(wire[p]) \in Seq(Orders)
      BY <2>1, HeadTailType
    <2>3. wire' = [wire EXCEPT ![p] = Tail(@)] /\ Arrive(p, Head(wire[p]))
      BY <1>11 DEF Receive
    <2>4. wire' \in [Pages -> Seq(Orders)]
      BY <2>2, <2>3
    <2>5. UNCHANGED <<sync, sessionMap, socket, hello, shown, tallies>>
      BY <1>11 DEF Receive
    <2>6. QED
      BY <2>2, <2>3, <2>4, <2>5, ArriveType
  <1>12. ASSUME NEW p \in Pages, NEW o \in Orders, DoModify(p, o) PROVE TypeOK'
    <2>1. Act /\ Arrive(p, o) /\ UNCHANGED <<sync, sessionMap, socket, hello, wire, shown>>
      BY <1>12 DEF DoModify
    <2>2. QED
      BY <2>1, ArriveType, TalliesType
  <1>13. ASSUME NEW p \in Pages, NEW o \in Orders, FetchAnswered(p, o) PROVE TypeOK'
    <2>1. Show(p, "price")
      BY <1>13 DEF FetchAnswered
    <2>2. QED
      BY <1>13, <2>1, ShowType DEF FetchAnswered
  <1>14. ASSUME NEW p \in Pages, NEW o \in Orders, FetchFails(p, o) PROVE TypeOK'
    <2>1. Fault("fetch")
      BY <1>14 DEF FetchFails
    <2>2. fetches' \in [Pages -> SUBSET Orders]
      BY <1>14 DEF FetchFails
    <2>3. QED
      BY <1>14, <2>1, <2>2, TalliesType DEF FetchFails
  <1>15. ASSUME NEW p \in Pages, AskInfo(p) PROVE TypeOK'
    <2>1. Act
      BY <1>15 DEF AskInfo
    <2>2. asked' \in [Pages -> Nat]
      BY <1>15 DEF AskInfo
    <2>3. QED
      BY <1>15, <2>1, <2>2, TalliesType DEF AskInfo
  <1>16. ASSUME NEW p \in Pages, InfoShown(p) PROVE TypeOK'
    <2>1. Show(p, "info")
      BY <1>16 DEF InfoShown
    <2>2. asked' \in [Pages -> Nat]
      BY <1>16 DEF InfoShown
    <2>3. QED
      BY <1>16, <2>1, <2>2, ShowType DEF InfoShown
  <1>17. ASSUME NEW p \in Pages, InfoFails(p) PROVE TypeOK'
    BY <1>17 DEF InfoFails, Fault
  <1>18. ASSUME NEW p \in Pages, CloseTop(p) PROVE TypeOK'
    <2>1. windows[p] \in Seq({"price", "info"}) /\ windows[p] # << >>
      BY <1>18 DEF CloseTop
    <2>2. SubSeq(windows[p], 1, Len(windows[p]) - 1) \in Seq({"price", "info"})
      BY <2>1
    <2>3. windows' \in [Pages -> Seq({"price", "info"})] /\ holds' \in [Pages -> BOOLEAN]
      BY <1>18, <2>2 DEF CloseTop
    <2>4. Deal(p) \/ UNCHANGED <<busy, fetches, timers, hand>>
      BY <1>18 DEF CloseTop
    <2>5. /\ busy' \in [Pages -> BOOLEAN]
          /\ fetches' \in [Pages -> SUBSET Orders]
          /\ timers' \in [Pages -> Nat]
          /\ hand' \in [Pages -> Orders \cup {NoOrder}]
      BY <2>4, DealType
    <2>6. QED
      BY <1>18, <2>3, <2>5 DEF CloseTop
  <1>19. ASSUME NEW p \in Pages, TimerFires(p) PROVE TypeOK'
    <2>1. queue[p] \in Seq(Orders) /\ timers[p] \in Nat /\ timers[p] > 0
      BY <1>19 DEF TimerFires
    <2>2. (IF queue[p] = << >> THEN queue[p] ELSE Tail(queue[p])) \in Seq(Orders)
      BY <2>1, HeadTailType
    <2>3. timers[p] - 1 \in Nat
      BY <2>1
    <2>4. queue' \in [Pages -> Seq(Orders)]
      BY <1>19, <2>2 DEF TimerFires
    <2>5. timers' \in [Pages -> Nat]
      BY <1>19, <2>3 DEF TimerFires
    <2>6. QED
      BY <1>19, <2>4, <2>5 DEF TimerFires
  <1>20. CASE UNCHANGED vars
    BY <1>20 DEF vars
  <1>21. QED
    BY <1>1, <1>2, <1>3, <1>4, <1>5, <1>6, <1>7, <1>8, <1>9, <1>10, <1>11, <1>12, <1>13, <1>14, <1>15, <1>16, <1>17, <1>18, <1>19, <1>20 DEF Next, Sync, Websocket, Page, Fetch

\* Every variable keeps its type.
THEOREM PushTypeOK == Spec => []TypeOK
  BY TypeInit, TypeNext, PTL DEF Spec
-----------------------------------------------------------------------------
(* The connection to the sync server.                                      *)

\* Once the sync server knows this server, the channel and the session that
\* are remembered are those of the connection there is.
KnownLink ==
    /\ link # "down" => channel = "current"
    /\ link = "known" => sessionId = "current"

LEMMA KnownLinkInit == Init => KnownLink
  BY DEF Init, KnownLink

LEMMA KnownLinkNext ==
    ASSUME KnownLink, [Next]_vars PROVE KnownLink'
  <1>1. CASE UNCHANGED sync
    BY <1>1 DEF KnownLink, sync
  <1>2. CASE Connect
    BY <1>2 DEF KnownLink, Connect
  <1>3. CASE Identify
    BY <1>3 DEF KnownLink, Identify
  <1>4. CASE LinkLost
    BY <1>4 DEF KnownLink, LinkLost
  <1>5. ASSUME NEW p \in Pages, CheckHotelOrder(p) PROVE KnownLink'
    BY <1>5 DEF KnownLink, CheckHotelOrder
  <1>6. ASSUME NEW p \in Pages, Websocket(p) PROVE CheckHotelOrder(p) \/ UNCHANGED sync
    BY <1>6 DEF Websocket, OpenPage, SocketOpens, HandleConnect, SocketLost, LeavePage
  <1>7. ASSUME NEW p \in Pages, Page(p) PROVE UNCHANGED sync
    BY <1>7 DEF Page, Receive, Fetch, FetchAnswered, FetchFails, TimerFires, CloseTop,
                DoModify, AskInfo, InfoShown, InfoFails
  <1>8. ASSUME NEW o \in Orders, PushOrder(o) PROVE UNCHANGED sync
    BY <1>8 DEF PushOrder
  <1>9. CASE UNCHANGED vars
    BY <1>1, <1>9 DEF vars
  <1>10. QED
    BY <1>1, <1>2, <1>3, <1>4, <1>5, <1>6, <1>7, <1>8, <1>9 DEF Next, Sync

LEMMA HelloStep ==
    ASSUME TypeOK, KnownLink, [Next]_vars, NEW p \in Pages,
           hello[p] = "mapped", hello'[p] = "done", link = "known"
    PROVE  registered'
  <1>1. CASE UNCHANGED hello
    BY <1>1
  <1>2. CASE Sync
    BY <1>1, <1>2 DEF Sync, Connect, Identify, LinkLost, PushOrder
  <1>3. CASE UNCHANGED vars
    BY <1>1, <1>3 DEF vars
  <1>4. ASSUME NEW q \in Pages, Page(q) PROVE FALSE
    BY <1>1, <1>4 DEF Page, Receive, Fetch, FetchAnswered, FetchFails, TimerFires,
                CloseTop, DoModify, AskInfo, InfoShown, InfoFails
  <1>5. ASSUME NEW q \in Pages, Websocket(q) PROVE registered'
    <2>1. CASE CheckHotelOrder(q)
      BY <2>1 DEF CheckHotelOrder, KnownLink
    <2>2. CASE SocketOpens(q) \/ HandleConnect(q)
      BY <2>2 DEF SocketOpens, HandleConnect, TypeOK
    <2>3. CASE OpenPage(q) \/ SocketLost(q) \/ LeavePage(q)
      BY <1>1, <2>3 DEF OpenPage, SocketLost, LeavePage
    <2>4. QED
      BY <1>5, <2>1, <2>2, <2>3 DEF Websocket
  <1>6. QED
    BY <1>2, <1>3, <1>4, <1>5 DEF Next

\* checkHotelOrder registers the user whenever the sync server knows this
\* server, because setChannel and setSessionId come before that.
THEOREM PushHelloRegisters == Spec => HelloRegisters
  <1>1. Init => TypeOK /\ KnownLink
    BY TypeInit, KnownLinkInit
  <1>2. TypeOK /\ KnownLink /\ [Next]_vars => (TypeOK /\ KnownLink)'
    BY TypeNext, KnownLinkNext
  <1>3. TypeOK /\ KnownLink /\ [Next]_vars =>
          [\A p \in Pages : hello[p] = "mapped" /\ hello'[p] = "done" /\ link = "known"
              => registered']_vars
    BY HelloStep
  <1>4. QED
    BY <1>1, <1>2, <1>3, PTL DEF Spec, HelloRegisters

-----------------------------------------------------------------------------
(* One order at a time.                                                    *)

Windows == {"price", "info"}

LEMMA PricesOfAppend ==
    ASSUME NEW ws \in Seq(Windows), NEW x \in Windows
    PROVE  Prices(Append(ws, x)) =
               IF x = "price" THEN Prices(ws) \cup {Len(ws) + 1} ELSE Prices(ws)
  <1>1. DOMAIN Append(ws, x) = 1..Len(ws) + 1 /\ DOMAIN ws = 1..Len(ws) /\ Len(ws) \in Nat
    OBVIOUS
  <1>2. \A i \in 1..Len(ws) : Append(ws, x)[i] = ws[i]
    OBVIOUS
  <1>3. Append(ws, x)[Len(ws) + 1] = x
    OBVIOUS
  <1>4. QED
    BY <1>1, <1>2, <1>3 DEF Prices

LEMMA PricesOfFront ==
    ASSUME NEW ws \in Seq(Windows), ws # << >>
    PROVE  Prices(SubSeq(ws, 1, Len(ws) - 1)) = Prices(ws) \ {Len(ws)}
  <1> DEFINE front == SubSeq(ws, 1, Len(ws) - 1)
  <1>1. Len(ws) \in Nat /\ Len(ws) > 0
    OBVIOUS
  <1>2. DOMAIN front = 1..Len(ws) - 1 /\ DOMAIN ws = 1..Len(ws)
    BY <1>1
  <1>3. \A i \in 1..Len(ws) - 1 : front[i] = ws[i]
    BY <1>1
  <1>4. QED
    BY <1>1, <1>2, <1>3 DEF Prices

\* What OneAtATime says of a page, of the values it depends on.
One(fs, o, ws, d, b) ==
    /\ fs # {} => fs = {o} /\ Prices(ws) = {}
    /\ Prices(ws) # {} => d = o
    /\ \A i, j \in Prices(ws) : i = j
    /\ (fs # {} \/ Prices(ws) # {}) => b

OneOf(p) == One(fetches[p], hand[p], windows[p], dataObj[p], busy[p])

LEMMA OneAtATimeIsOne == OneAtATime <=> \A p \in Pages : OneOf(p)
  BY DEF OneAtATime, OneOf, One, OnHand, PriceWindows

LEMMA OneInit == Init => OneAtATime
  <1>1. Prices(<< >>) = {}
    BY DEF Prices
  <1>2. QED
    BY <1>1 DEF Init, OneAtATime, OnHand, PriceWindows

\* A free page takes an order up.
LEMMA ProcessOne ==
    ASSUME TypeOK, OneAtATime, NEW p \in Pages, NEW o \in Orders, Process(p, o),
           fetches[p] = {}, NEW ws, ws = windows'[p], Prices(ws) = {}
    PROVE  OneOf(p)'
  <1>1. fetches'[p] = {o} /\ hand'[p] = o /\ busy'[p] = TRUE
    BY DEF Process, TypeOK
  <1>2. QED
    BY <1>1 DEF OneOf, One

LEMMA ArriveOne ==
    ASSUME TypeOK, OneAtATime, NEW p \in Pages, NEW o \in Orders, Arrive(p, o),
           UNCHANGED <<windows, dataObj>>
    PROVE  OneOf(p)'
  <1>1. OneOf(p)
    BY OneAtATimeIsOne
  <1>2. CASE ~busy[p] /\ Process(p, o)
    <2>1. fetches[p] = {} /\ Prices(windows[p]) = {}
      BY <1>1, <1>2 DEF OneOf, One
    <2>2. windows'[p] = windows[p]
      OBVIOUS
    <2>3. QED
      BY <1>2, <2>1, <2>2, ProcessOne
  <1>3. CASE UNCHANGED <<busy, fetches, hand>>
    BY <1>1, <1>3 DEF OneOf
  <1>4. QED
    BY <1>2, <1>3 DEF Arrive

\* What a step of one page does to the others.
Aside(p) ==
    \A q \in Pages \ {p} :
        /\ fetches'[q] = fetches[q] /\ hand'[q] = hand[q] /\ busy'[q] = busy[q]
        /\ windows'[q] = windows[q] /\ dataObj'[q] = dataObj[q]
        /\ timers'[q] = timers[q] /\ queue'[q] = queue[q]
        /\ (q \in rushed)' <=> q \in rushed

LEMMA ArriveAside ==
    ASSUME TypeOK, NEW p \in Pages, NEW o \in Orders, Arrive(p, o),
           UNCHANGED <<windows, dataObj, rushed>>
    PROVE  Aside(p)
  <1>1. CASE Process(p, o) /\ UNCHANGED <<queue, timers>>
    BY <1>1 DEF Process, TypeOK, Aside
  <1>2. CASE /\ queue' = [queue EXCEPT ![p] = Append(@, o)]
             /\ UNCHANGED <<busy, fetches, timers, hand>>
    BY <1>2 DEF TypeOK, Aside
  <1>3. QED
    BY <1>1, <1>2 DEF Arrive

LEMMA CloseAside ==
    ASSUME TypeOK, NEW p \in Pages, CloseTop(p) PROVE Aside(p)
  <1>1. UNCHANGED <<queue, dataObj>> /\ \A q \in Pages \ {p} : (q \in rushed)' <=> q \in rushed
    BY DEF CloseTop
  <1>2. \A q \in Pages \ {p} : windows'[q] = windows[q]
    BY DEF CloseTop, TypeOK
  <1>3. CASE UNCHANGED <<busy, fetches, timers, hand>>
    BY <1>1, <1>2, <1>3 DEF Aside
  <1>4. CASE Process(p, Head(queue[p])) /\ timers' = [timers EXCEPT ![p] = @ + 1]
    BY <1>1, <1>2, <1>4 DEF Process, TypeOK, Aside
  <1>5. CASE busy' = [busy EXCEPT ![p] = FALSE] /\ UNCHANGED <<fetches, timers, hand>>
    BY <1>1, <1>2, <1>5 DEF TypeOK, Aside
  <1>6. QED
    BY <1>3, <1>4, <1>5 DEF CloseTop, Deal

\* The window on top was the only one of its kind, and nothing was fetched.
LEMMA CloseOne ==
    ASSUME TypeOK, OneAtATime, NEW p \in Pages, CloseTop(p) PROVE OneOf(p)'
  <1> DEFINE ws == windows[p]
             front == SubSeq(ws, 1, Len(ws) - 1)
  <1>1. ws \in Seq(Windows) /\ ws # << >>
    BY DEF CloseTop, TypeOK, Windows
  <1>2. windows'[p] = front /\ dataObj' = dataObj
    BY DEF CloseTop, TypeOK
  <1>3. Prices(front) = Prices(ws) \ {Len(ws)}
    BY <1>1, PricesOfFront
  <1>4. OneOf(p)
    BY OneAtATimeIsOne
  <1>5. Len(ws) \in DOMAIN ws
    BY <1>1
  <1>6. CASE Top(p) = "info" /\ UNCHANGED <<busy, fetches, timers, hand>>
    <2>1. Len(ws) \notin Prices(ws)
      BY <1>6 DEF Top, Prices
    <2>2. Prices(front) = Prices(ws)
      BY <1>3, <2>1
    <2>3. QED
      BY <1>2, <1>4, <1>6, <2>2 DEF OneOf, One
  <1>7. CASE Top(p) = "price" /\ Deal(p)
    <2>1. Len(ws) \in Prices(ws)
      BY <1>5, <1>7 DEF Top, Prices
    <2>2. Prices(front) = {} /\ fetches[p] = {}
      BY <1>3, <1>4, <2>1 DEF OneOf, One
    <2>3. CASE queue[p] # << >> /\ Process(p, Head(queue[p]))
      <3>1. queue[p] \in Seq(Orders)
        BY DEF TypeOK
      <3>2. Head(queue[p]) \in Orders
        BY <2>3, <3>1, HeadTailType
      <3>3. QED
        BY <1>2, <2>2, <2>3, <3>2, ProcessOne
    <2>4. CASE busy' = [busy EXCEPT ![p] = FALSE] /\ UNCHANGED <<fetches, timers, hand>>
      BY <1>2, <2>2, <2>4 DEF OneOf, One
    <2>5. QED
      BY <1>7, <2>3, <2>4 DEF Deal
  <1>8. QED
    BY <1>6, <1>7 DEF CloseTop

LEMMA ShowOne ==
    ASSUME TypeOK, OneAtATime, NEW p \in Pages
    PROVE  /\ \A o \in Orders : FetchAnswered(p, o) => OneOf(p)' /\ Aside(p)
           /\ InfoShown(p) => OneOf(p)' /\ Aside(p)
  <1> DEFINE ws == windows[p]
  <1>1. ws \in Seq(Windows)
    BY DEF TypeOK, Windows
  <1>2. OneOf(p)
    BY OneAtATimeIsOne
  <1>3. ASSUME NEW o \in Orders, FetchAnswered(p, o) PROVE OneOf(p)' /\ Aside(p)
    <2>1. windows'[p] = Append(ws, "price")
      BY <1>3 DEF FetchAnswered, Show, TypeOK
    <2>2. Prices(Append(ws, "price")) = Prices(ws) \cup {Len(ws) + 1}
      BY <1>1, PricesOfAppend DEF Windows
    <2>3. /\ fetches'[p] = fetches[p] \ {o} /\ dataObj'[p] = o
          /\ hand' = hand /\ busy' = busy
      BY <1>3 DEF FetchAnswered, TypeOK
    <2>4. fetches[p] = {hand[p]} /\ Prices(ws) = {} /\ o = hand[p] /\ busy[p]
      BY <1>2, <1>3 DEF FetchAnswered, OneOf, One
    <2>5. OneOf(p)'
      BY <2>1, <2>2, <2>3, <2>4 DEF OneOf, One
    <2>6. Aside(p)
      BY <1>3 DEF FetchAnswered, Show, TypeOK, Aside, tallies
    <2>7. QED
      BY <2>5, <2>6
  <1>4. ASSUME InfoShown(p) PROVE OneOf(p)' /\ Aside(p)
    <2>1. windows'[p] = Append(ws, "info") /\ UNCHANGED <<desk, dataObj>>
      BY <1>4 DEF InfoShown, Show, TypeOK
    <2>2. Prices(Append(ws, "info")) = Prices(ws)
      BY <1>1, PricesOfAppend DEF Windows
    <2>3. OneOf(p)'
      BY <1>2, <2>1, <2>2 DEF OneOf, One, desk
    <2>4. Aside(p)
      BY <1>4 DEF InfoShown, Show, TypeOK, Aside, desk, tallies
    <2>5. QED
      BY <2>3, <2>4
  <1>5. QED
    BY <1>3, <1>4

LEMMA LeaveOne ==
    ASSUME TypeOK, OneAtATime, NEW p \in Pages
    PROVE  /\ LeavePage(p) => OneOf(p)' /\ Aside(p)
           /\ \A o \in Orders : FetchFails(p, o) => OneOf(p)' /\ Aside(p)
           /\ TimerFires(p) => OneOf(p)' /\ Aside(p)
  <1>1. Prices(<< >>) = {}
    BY DEF Prices
  <1>2. OneOf(p)
    BY OneAtATimeIsOne
  <1>3. ASSUME LeavePage(p) PROVE OneOf(p)' /\ Aside(p)
    BY <1>1, <1>3 DEF LeavePage, TypeOK, OneOf, One, Aside
  <1>4. ASSUME NEW o \in Orders, FetchFails(p, o) PROVE OneOf(p)' /\ Aside(p)
    BY <1>2, <1>4 DEF FetchFails, Fault, TypeOK, OneOf, One, Aside, shown
  <1>5. ASSUME TimerFires(p) PROVE OneOf(p)' /\ Aside(p)
    BY <1>2, <1>5 DEF TimerFires, TypeOK, OneOf, One, Aside, shown, tallies
  <1>6. QED
    BY <1>3, <1>4, <1>5

\* Every step leaves these variables alone or is about one page.
LEMMA OneNext ==
    ASSUME TypeOK, OneAtATime, [Next]_vars PROVE OneAtATime'
  <1>1. CASE UNCHANGED <<desk, windows, dataObj>>
    BY <1>1 DEF OneAtATime, OnHand, PriceWindows, desk
  <1>2. ASSUME NEW p \in Pages, OneOf(p)', Aside(p) PROVE OneAtATime'
    <2>1. \A q \in Pages : OneOf(q)
      BY OneAtATimeIsOne
    <2>2. \A q \in Pages \ {p} : OneOf(q)'
      BY <1>2, <2>1 DEF OneOf, Aside
    <2>3. \A q \in Pages : OneOf(q)'
      BY <1>2, <2>2
    <2>4. QED
      BY <2>3 DEF OneAtATime, OneOf, One, OnHand, PriceWindows
  <1>3. CASE Sync
    BY <1>1, <1>3 DEF Sync, Connect, Identify, LinkLost, PushOrder, shown
  <1>4. ASSUME NEW p \in Pages, Websocket(p) PROVE OneAtATime'
    <2>1. CASE LeavePage(p)
      BY <1>2, <2>1, LeaveOne
    <2>2. CASE UNCHANGED <<desk, shown>>
      BY <1>1, <2>2 DEF shown
    <2>3. QED
      BY <1>4, <2>1, <2>2 DEF Websocket, OpenPage, SocketOpens, HandleConnect,
                              CheckHotelOrder, SocketLost
  <1>5. ASSUME NEW p \in Pages, Page(p) PROVE OneAtATime'
    <2>1. CASE Receive(p)
      <3>1. wire[p] \in Seq(Orders) /\ wire[p] # << >>
        BY <2>1 DEF Receive, TypeOK
      <3>2. Head(wire[p]) \in Orders
        BY <3>1, HeadTailType
      <3>3. Arrive(p, Head(wire[p])) /\ UNCHANGED <<windows, dataObj, rushed>>
        BY <2>1 DEF Receive, shown, tallies
      <3>4. OneOf(p)' /\ Aside(p)
        BY <3>2, <3>3, ArriveOne, ArriveAside
      <3>5. QED
        BY <1>2, <3>4
    <2>2. ASSUME NEW o \in Orders, DoModify(p, o) PROVE OneAtATime'
      <3>1. Arrive(p, o) /\ UNCHANGED <<windows, dataObj, rushed>>
        BY <2>2 DEF DoModify, Act, shown
      <3>2. OneOf(p)' /\ Aside(p)
        BY <3>1, ArriveOne, ArriveAside
      <3>3. QED
        BY <1>2, <3>2
    <2>3. CASE CloseTop(p)
      BY <1>2, <2>3, CloseOne, CloseAside
    <2>4. CASE Fetch(p) \/ InfoShown(p) \/ TimerFires(p)
      BY <1>2, <2>4, ShowOne, LeaveOne DEF Fetch
    <2>5. CASE AskInfo(p) \/ InfoFails(p)
      BY <1>1, <2>5 DEF AskInfo, InfoFails
    <2>6. QED
      BY <1>5, <2>1, <2>2, <2>3, <2>4, <2>5 DEF Page
  <1>6. CASE UNCHANGED vars
    BY <1>1, <1>6 DEF vars, shown
  <1>7. QED
    BY <1>3, <1>4, <1>5, <1>6 DEF Next

\* However pushes, answers and closings fall, a page has one fetch or one price
\* window, of the order last taken up.
THEOREM PushOneAtATime == Spec => []OneAtATime
  <1>1. TypeOK /\ OneAtATime /\ [Next]_vars => (TypeOK /\ OneAtATime)'
    BY TypeNext, OneNext
  <1>2. QED
    BY <1>1, TypeInit, OneInit, PTL DEF Spec

-----------------------------------------------------------------------------
(* Nothing waits for nothing.                                              *)

WaitsBehind(p) == queue[p] # << >> => busy[p]
IsStuck(p) == busy[p] /\ ~OnHand(p)

\* Pages need not be finite: that only finitely many are stuck is part of it.
QueueInv == IsFiniteSet(Stuck) /\ QueueBehindOrder

LEMMA FaultsGrow == [Next]_vars => faults' \in {faults, faults + 1}
  <1> SUFFICES ASSUME [Next]_vars PROVE faults' \in {faults, faults + 1}
    OBVIOUS
  <1>1. CASE Sync
    BY <1>1 DEF Sync, Connect, Identify, LinkLost, PushOrder, Fault, tallies
  <1>2. ASSUME NEW p \in Pages, Websocket(p) PROVE faults' \in {faults, faults + 1}
    BY <1>2 DEF Websocket, OpenPage, SocketOpens, HandleConnect, CheckHotelOrder,
                SocketLost, LeavePage, Fault, tallies
  <1>3. ASSUME NEW p \in Pages, Page(p) PROVE faults' \in {faults, faults + 1}
    BY <1>3 DEF Page, Receive, Fetch, FetchAnswered, FetchFails, TimerFires, CloseTop,
                DoModify, AskInfo, InfoShown, InfoFails, Act, Fault, tallies
  <1>4. CASE UNCHANGED vars
    BY <1>4 DEF vars, tallies
  <1>5. QED
    BY <1>1, <1>2, <1>3, <1>4 DEF Next

\* A step of one page that gets stuck, if it does, by a fault of its own.
LEMMA QueueStep ==
    ASSUME TypeOK, QueueInv, NEW p \in Pages, Aside(p), WaitsBehind(p)',
           faults' \in {faults, faults + 1},
           IsStuck(p)' => IsStuck(p) \/ faults' = faults + 1
    PROVE  QueueInv'
  <1>1. ASSUME NEW q \in Pages \ {p}
        PROVE  /\ WaitsBehind(q)' <=> WaitsBehind(q)
               /\ IsStuck(q)' <=> IsStuck(q)
    BY DEF Aside, WaitsBehind, IsStuck, OnHand, PriceWindows
  <1>2. \A q \in Pages : queue'[q] # << >> => busy'[q]
    BY <1>1 DEF QueueInv, QueueBehindOrder, WaitsBehind
  <1>3. Stuck' \subseteq Stuck \cup {p} /\ (p \in Stuck' <=> IsStuck(p)')
    BY <1>1 DEF Stuck, IsStuck
  <1>4. p \in Stuck <=> IsStuck(p)
    BY DEF Stuck, IsStuck
  <1>5. IsFiniteSet(Stuck) /\ Cardinality(Stuck) \in Nat /\ faults \in Nat
        /\ Cardinality(Stuck) <= faults
    BY FS_CardinalityType DEF QueueInv, QueueBehindOrder, TypeOK
  <1>6. CASE faults' = faults + 1
    <2>1. IsFiniteSet(Stuck \cup {p}) /\ Cardinality(Stuck \cup {p}) \in Nat
          /\ Cardinality(Stuck \cup {p}) <= Cardinality(Stuck) + 1
      <3>1. IsFiniteSet(Stuck \cup {p})
            /\ (\/ Cardinality(Stuck \cup {p}) = Cardinality(Stuck)
                \/ Cardinality(Stuck \cup {p}) = Cardinality(Stuck) + 1)
        BY <1>5, FS_AddElement
      <3>2. QED
        BY <1>5, <3>1
    <2>2. IsFiniteSet(Stuck') /\ Cardinality(Stuck') \in Nat
          /\ Cardinality(Stuck') <= Cardinality(Stuck \cup {p})
      BY <1>3, <2>1, FS_Subset, FS_CardinalityType
    <2>3. Cardinality(Stuck') <= faults'
      BY <1>5, <1>6, <2>1, <2>2
    <2>4. QED
      BY <1>2, <2>2, <2>3 DEF QueueInv, QueueBehindOrder
  <1>7. CASE faults' = faults
    <2>1. Stuck' \subseteq Stuck
      BY <1>3, <1>4, <1>5, <1>7
    <2>2. IsFiniteSet(Stuck') /\ Cardinality(Stuck') \in Nat
          /\ Cardinality(Stuck') <= Cardinality(Stuck)
      BY <1>5, <2>1, FS_Subset, FS_CardinalityType
    <2>3. Cardinality(Stuck') <= faults'
      BY <1>5, <1>7, <2>2
    <2>4. QED
      BY <1>2, <2>2, <2>3 DEF QueueInv, QueueBehindOrder
  <1>8. QED
    BY <1>6, <1>7

LEMMA QueueSame ==
    ASSUME TypeOK, QueueInv, UNCHANGED <<queue, busy, fetches, windows>>,
           faults' \in {faults, faults + 1}
    PROVE  QueueInv'
  <1>1. Stuck' = Stuck
    BY DEF Stuck, OnHand, PriceWindows
  <1>2. IsFiniteSet(Stuck) /\ Cardinality(Stuck) \in Nat /\ faults \in Nat
    BY FS_CardinalityType DEF QueueInv, TypeOK
  <1>3. QED
    BY <1>1, <1>2 DEF QueueInv, QueueBehindOrder

\* An order is queued only behind another, and one that is taken up is fetched.
LEMMA ArriveQueue ==
    ASSUME TypeOK, QueueInv, NEW p \in Pages, NEW o \in Orders, Arrive(p, o),
           UNCHANGED <<windows, dataObj>>
    PROVE  WaitsBehind(p)' /\ (IsStuck(p)' => IsStuck(p))
  <1>1. WaitsBehind(p)
    BY DEF QueueInv, QueueBehindOrder, WaitsBehind
  <1>2. CASE ~busy[p] /\ Process(p, o) /\ UNCHANGED <<queue, timers>>
    BY <1>2 DEF Process, TypeOK, WaitsBehind, IsStuck, OnHand
  <1>3. CASE /\ busy[p]
             /\ queue' = [queue EXCEPT ![p] = Append(@, o)]
             /\ UNCHANGED <<busy, fetches, timers, hand>>
    BY <1>3 DEF WaitsBehind, IsStuck, OnHand, PriceWindows
  <1>4. QED
    BY <1>2, <1>3 DEF Arrive

\* Behind the price window comes the next order, or the flag goes down; any
\* other window leaves what is on hand alone.
LEMMA CloseQueue ==
    ASSUME TypeOK, QueueInv, NEW p \in Pages, CloseTop(p)
    PROVE  WaitsBehind(p)' /\ (IsStuck(p)' => IsStuck(p))
  <1> DEFINE ws == windows[p]
             front == SubSeq(ws, 1, Len(ws) - 1)
  <1>1. WaitsBehind(p)
    BY DEF QueueInv, QueueBehindOrder, WaitsBehind
  <1>2. ws \in Seq(Windows) /\ ws # << >>
    BY DEF CloseTop, TypeOK, Windows
  <1>3. windows'[p] = front /\ queue' = queue
    BY DEF CloseTop, TypeOK
  <1>4. Prices(front) = Prices(ws) \ {Len(ws)}
    BY <1>2, PricesOfFront
  <1>5. CASE Top(p) = "info" /\ UNCHANGED <<busy, fetches, timers, hand>>
    <2>1. Len(ws) \notin Prices(ws)
      BY <1>5 DEF Top, Prices
    <2>2. Prices(front) = Prices(ws)
      BY <1>4, <2>1
    <2>3. QED
      BY <1>1, <1>3, <1>5, <2>2 DEF WaitsBehind, IsStuck, OnHand, PriceWindows
  <1>6. CASE Deal(p)
    <2>1. CASE Process(p, Head(queue[p]))
      BY <1>3, <2>1 DEF Process, TypeOK, WaitsBehind, IsStuck, OnHand
    <2>2. CASE queue[p] = << >> /\ busy' = [busy EXCEPT ![p] = FALSE]
      BY <1>3, <2>2 DEF TypeOK, WaitsBehind, IsStuck
    <2>3. QED
      BY <1>6, <2>1, <2>2 DEF Deal
  <1>7. QED
    BY <1>5, <1>6 DEF CloseTop

\* An answer puts a window in the place of its fetch, and a timer only shortens
\* the queue; a fetch that fails is the fault that leaves its page stuck.
LEMMA FetchQueue ==
    ASSUME TypeOK, QueueInv, NEW p \in Pages
    PROVE  /\ \A o \in Orders : FetchAnswered(p, o) => WaitsBehind(p)' /\ ~IsStuck(p)'
           /\ \A o \in Orders : FetchFails(p, o) => WaitsBehind(p)' /\ faults' = faults + 1
           /\ TimerFires(p) \/ InfoShown(p) => WaitsBehind(p)' /\ (IsStuck(p)' => IsStuck(p))
           /\ LeavePage(p) => WaitsBehind(p)' /\ ~IsStuck(p)'
  <1> DEFINE ws == windows[p]
  <1>1. ws \in Seq(Windows)
    BY DEF TypeOK, Windows
  <1>2. WaitsBehind(p)
    BY DEF QueueInv, QueueBehindOrder, WaitsBehind
  <1>3. ASSUME NEW o \in Orders, FetchAnswered(p, o) PROVE WaitsBehind(p)' /\ ~IsStuck(p)'
    <2>1. windows'[p] = Append(ws, "price") /\ UNCHANGED <<queue, busy>>
      BY <1>3 DEF FetchAnswered, Show, TypeOK
    <2>2. Prices(Append(ws, "price")) = Prices(ws) \cup {Len(ws) + 1}
      BY <1>1, PricesOfAppend DEF Windows
    <2>3. QED
      BY <1>2, <2>1, <2>2 DEF WaitsBehind, IsStuck, OnHand, PriceWindows
  <1>4. ASSUME NEW o \in Orders, FetchFails(p, o)
        PROVE  WaitsBehind(p)' /\ faults' = faults + 1
    BY <1>2, <1>4 DEF FetchFails, Fault, WaitsBehind
  <1>5. ASSUME TimerFires(p) PROVE WaitsBehind(p)' /\ (IsStuck(p)' => IsStuck(p))
    BY <1>2, <1>5 DEF TimerFires, TypeOK, WaitsBehind, IsStuck, OnHand, PriceWindows, shown
  <1>6. ASSUME InfoShown(p) PROVE WaitsBehind(p)' /\ (IsStuck(p)' => IsStuck(p))
    <2>1. windows'[p] = Append(ws, "info") /\ UNCHANGED <<queue, busy, fetches>>
      BY <1>6 DEF InfoShown, Show, TypeOK, desk
    <2>2. Prices(Append(ws, "info")) = Prices(ws)
      BY <1>1, PricesOfAppend DEF Windows
    <2>3. QED
      BY <1>2, <2>1, <2>2 DEF WaitsBehind, IsStuck, OnHand, PriceWindows
  <1>7. ASSUME LeavePage(p) PROVE WaitsBehind(p)' /\ ~IsStuck(p)'
    BY <1>7 DEF LeavePage, TypeOK, WaitsBehind, IsStuck
  <1>8. QED
    BY <1>3, <1>4, <1>5, <1>6, <1>7

LEMMA QueueNext ==
    ASSUME TypeOK, OneAtATime, QueueInv, [Next]_vars PROVE QueueInv'
  <1>0. faults' \in {faults, faults + 1}
    BY FaultsGrow
  <1>1. CASE UNCHANGED <<queue, busy, fetches, windows>>
    BY <1>0, <1>1, QueueSame
  <1>2. CASE Sync
    BY <1>1, <1>2 DEF Sync, Connect, Identify, LinkLost, PushOrder, shown, desk
  <1>3. ASSUME NEW p \in Pages, Websocket(p) PROVE QueueInv'
    <2>1. CASE LeavePage(p)
      BY <1>0, <2>1, LeaveOne, FetchQueue, QueueStep
    <2>2. CASE UNCHANGED <<desk, shown>>
      BY <1>1, <2>2 DEF shown, desk
    <2>3. QED
      BY <1>3, <2>1, <2>2 DEF Websocket, OpenPage, SocketOpens, HandleConnect,
                              CheckHotelOrder, SocketLost
  <1>4. ASSUME NEW p \in Pages, NEW o \in Orders, Arrive(p, o),
               UNCHANGED <<windows, dataObj, rushed>>
        PROVE  QueueInv'
    BY <1>0, <1>4, ArriveAside, ArriveQueue, QueueStep
  <1>5. ASSUME NEW p \in Pages, Page(p) PROVE QueueInv'
    <2>1. CASE Receive(p)
      <3>1. Head(wire[p]) \in Orders
        BY <2>1, HeadTailType DEF Receive, TypeOK
      <3>2. QED
        BY <1>4, <2>1, <3>1 DEF Receive, shown, tallies
    <2>2. ASSUME NEW o \in Orders, DoModify(p, o) PROVE QueueInv'
      BY <1>4, <2>2 DEF DoModify, Act, shown
    <2>3. CASE CloseTop(p)
      BY <1>0, <2>3, CloseAside, CloseQueue, QueueStep
    <2>4. CASE Fetch(p)
      BY <1>0, <2>4, ShowOne, LeaveOne, FetchQueue, QueueStep DEF Fetch
    <2>5. CASE InfoShown(p) \/ TimerFires(p)
      BY <1>0, <2>5, ShowOne, LeaveOne, FetchQueue, QueueStep
    <2>6. CASE AskInfo(p) \/ InfoFails(p)
      BY <1>1, <2>6 DEF AskInfo, InfoFails, desk
    <2>7. QED
      BY <1>5, <2>1, <2>2, <2>3, <2>4, <2>5, <2>6 DEF Page
  <1>6. CASE UNCHANGED vars
    BY <1>1, <1>6 DEF vars, shown, desk
  <1>7. QED
    BY <1>2, <1>3, <1>5, <1>6 DEF Next

\* Orders are queued only behind one that is fetched or shown, and the pages
\* where they wait in vain are no more than the faults, also for a user who
\* closes windows within two seconds.
THEOREM PushQueueBehindOrder == Spec => []QueueBehindOrder
  <1>1. Init => QueueInv
    <2>1. Init => Stuck = {} /\ faults = 0 /\ \A p \in Pages : queue[p] = << >>
      BY DEF Init, Stuck
    <2>2. IsFiniteSet({}) /\ Cardinality({}) <= 0
      BY FS_EmptySet
    <2>3. QED
      BY <2>1, <2>2 DEF QueueInv, QueueBehindOrder
  <1>2. /\ TypeOK /\ OneAtATime /\ QueueInv /\ [Next]_vars => (TypeOK /\ OneAtATime /\ QueueInv)'
        /\ QueueInv => QueueBehindOrder
    BY TypeNext, OneNext, QueueNext DEF QueueInv
  <1>3. QED
    BY <1>1, <1>2, TypeInit, OneInit, PTL DEF Spec

-----------------------------------------------------------------------------
(* The desk.                                                               *)

\* On a page that is not rushed: if it is free it has no orders in line; during
\* the two seconds after an order was taken up from the queue, and only then, it
\* is still its first.
LineOf(p) ==
    p \notin rushed =>
        /\ busy[p] => hand[p] \in Orders
        /\ ~busy[p] => queue[p] = << >> /\ timers[p] = 0
        /\ timers[p] \in {0, 1}
        /\ timers[p] = 1 => queue[p] # << >> /\ Head(queue[p]) = hand[p]

Line == \A p \in Pages : LineOf(p)

LEMMA LineInit == Init => Line
  <1> SUFFICES ASSUME Init, NEW p \in Pages PROVE LineOf(p)
    BY DEF Line
  <1>1. busy[p] = FALSE /\ queue[p] = << >> /\ timers[p] = 0
    BY DEF Init
  <1>2. QED
    BY <1>1 DEF LineOf

\* What a step does to the desk of its page.
Stays(p) == OnDesk'[p] = OnDesk[p] /\ InLine'[p] = InLine[p]
Comes(p, o) ==
    \/ OnDesk[p] = NoOrder /\ OnDesk'[p] = o /\ InLine'[p] = InLine[p]
    \/ OnDesk[p] # NoOrder /\ OnDesk'[p] = OnDesk[p] /\ InLine'[p] = Append(InLine[p], o)
Goes(p) ==
    /\ OnDesk[p] # NoOrder
    /\ \/ InLine[p] # << >> /\ OnDesk'[p] = Head(InLine[p]) /\ InLine'[p] = Tail(InLine[p])
       \/ InLine[p] = << >> /\ OnDesk'[p] = NoOrder /\ InLine'[p] = InLine[p]
Leaves(p) == OnDesk'[p] = NoOrder /\ InLine'[p] = << >>

\* A rushed page is no desk any more.
LEMMA RushedLine ==
    ASSUME NEW p \in Pages
    PROVE  /\ p \in rushed => OnDesk[p] = NoOrder /\ InLine[p] = << >>
           /\ (p \in rushed)' => LineOf(p)' /\ Leaves(p)
           /\ p \in rushed /\ (p \in rushed)' => LineOf(p)' /\ Stays(p)
  <1>1. p \in rushed => OnDesk[p] = NoOrder /\ InLine[p] = << >>
    BY DEF OnDesk, InLine
  <1>2. (p \in rushed)' => OnDesk'[p] = NoOrder /\ InLine'[p] = << >> /\ LineOf(p)'
    BY DEF OnDesk, InLine, LineOf
  <1>3. QED
    BY <1>1, <1>2 DEF Leaves, Stays

LEMMA ArriveLine ==
    ASSUME TypeOK, Line, NEW p \in Pages, NEW o \in Orders, Arrive(p, o),
           UNCHANGED rushed
    PROVE  LineOf(p)' /\ (Stays(p) \/ Comes(p, o))
  <1> SUFFICES ASSUME p \notin rushed PROVE LineOf(p)' /\ Comes(p, o)
    BY RushedLine
  <1>1. LineOf(p) /\ queue[p] \in Seq(Orders)
    BY DEF Line, TypeOK
  <1>2. CASE ~busy[p] /\ Process(p, o) /\ UNCHANGED <<queue, timers>>
    <2>1. busy'[p] = TRUE /\ hand'[p] = o /\ queue'[p] = queue[p] /\ timers'[p] = timers[p]
      BY <1>2 DEF Process, TypeOK
    <2>2. LineOf(p)'
      BY <1>1, <1>2, <2>1 DEF LineOf
    <2>3. Comes(p, o)
      BY <1>2, <2>1 DEF Comes, OnDesk, InLine
    <2>4. QED
      BY <2>2, <2>3
  <1>3. CASE /\ busy[p]
             /\ queue' = [queue EXCEPT ![p] = Append(@, o)]
             /\ UNCHANGED <<busy, fetches, timers, hand>>
    <2>1. queue'[p] = Append(queue[p], o)
      BY <1>3 DEF TypeOK
    <2>2. Append(queue[p], o) # << >>
      BY <1>1
    <2>3. queue[p] # << >> => /\ Head(Append(queue[p], o)) = Head(queue[p])
                              /\ Tail(Append(queue[p], o)) = Append(Tail(queue[p]), o)
      BY <1>1
    <2>4. LineOf(p)'
      BY <1>1, <1>3, <2>1, <2>2, <2>3 DEF LineOf
    <2>5. OnDesk[p] # NoOrder /\ OnDesk'[p] = OnDesk[p]
      BY <1>1, <1>3 DEF LineOf, OnDesk
    <2>6. InLine'[p] = Append(InLine[p], o)
      BY <1>1, <1>3, <2>1, <2>2, <2>3 DEF LineOf, InLine
    <2>7. QED
      BY <2>4, <2>5, <2>6 DEF Comes
  <1>4. QED
    BY <1>2, <1>3 DEF Arrive

\* If nothing is pending when a price window is closed, the next order is the
\* first of the queue; if something is, the page is rushed from then on.
LEMMA CloseLine ==
    ASSUME TypeOK, OneAtATime, Line, NEW p \in Pages, CloseTop(p)
    PROVE  LineOf(p)' /\ (Stays(p) \/ Goes(p) \/ Leaves(p))
  <1> SUFFICES ASSUME ~(p \in rushed)'
               PROVE  LineOf(p)' /\ (Stays(p) \/ Goes(p))
    BY RushedLine
  <1>0. p \notin rushed /\ (Top(p) = "price" => timers[p] = 0)
    <2>1. p \notin rushed /\ ~(Top(p) = "price" /\ timers[p] > 0)
      BY DEF CloseTop
    <2>2. timers[p] \in Nat
      BY DEF TypeOK
    <2>3. QED
      BY <2>1, <2>2
  <1>1. LineOf(p) /\ queue[p] \in Seq(Orders) /\ UNCHANGED queue
    BY DEF Line, TypeOK, CloseTop
  <1>2. CASE UNCHANGED <<busy, fetches, timers, hand>>
    BY <1>0, <1>1, <1>2 DEF LineOf, Stays, OnDesk, InLine
  <1>3. CASE Top(p) = "price" /\ timers[p] = 0 /\ Deal(p)
    <2>1. busy[p]
      <3>1. windows[p] \in Seq(Windows) /\ windows[p] # << >>
        BY DEF CloseTop, TypeOK, Windows
      <3>2. Len(windows[p]) \in DOMAIN windows[p]
        BY <3>1
      <3>3. QED
        BY <1>3, <3>2 DEF Top, Prices, OneAtATime, OnHand, PriceWindows
    <2>2. OnDesk[p] # NoOrder /\ InLine[p] = queue[p]
      BY <1>0, <1>1, <1>3, <2>1 DEF LineOf, OnDesk, InLine
    <2>3. CASE /\ queue[p] # << >>
               /\ Process(p, Head(queue[p]))
               /\ timers' = [timers EXCEPT ![p] = @ + 1]
      <3>1. Head(queue[p]) \in Orders
        BY <1>1, <2>3, HeadTailType
      <3>2. busy'[p] = TRUE /\ hand'[p] = Head(queue[p]) /\ timers'[p] = 1
        BY <1>3, <2>3 DEF Process, TypeOK
      <3>3. LineOf(p)'
        BY <1>0, <1>1, <2>3, <3>1, <3>2 DEF LineOf
      <3>4. OnDesk'[p] = Head(InLine[p]) /\ InLine'[p] = Tail(InLine[p])
        <4>1. queue'[p] = queue[p] /\ queue[p] # << >>
          BY <1>1, <2>3
        <4>2. OnDesk'[p] = Head(InLine[p])
          BY <2>2, <3>2 DEF OnDesk
        <4>3. InLine'[p] = Tail(InLine[p])
          BY <2>2, <3>2, <4>1 DEF InLine
        <4>4. QED
          BY <4>2, <4>3
      <3>5. QED
        BY <2>2, <2>3, <3>3, <3>4 DEF Goes
    <2>4. CASE /\ queue[p] = << >>
               /\ busy' = [busy EXCEPT ![p] = FALSE]
               /\ UNCHANGED <<fetches, timers, hand>>
      <3>1. busy'[p] = FALSE
        BY <2>4 DEF TypeOK
      <3>2. LineOf(p)'
        BY <1>1, <1>3, <2>4, <3>1 DEF LineOf
      <3>3. OnDesk'[p] = NoOrder /\ InLine'[p] = InLine[p]
        BY <1>1, <2>4, <3>1 DEF OnDesk, InLine
      <3>4. QED
        BY <2>2, <2>4, <3>2, <3>3 DEF Goes
    <2>5. QED
      BY <1>3, <2>3, <2>4 DEF Deal
  <1>4. QED
    BY <1>0, <1>2, <1>3 DEF CloseTop

LEMMA TimerLine ==
    ASSUME TypeOK, Line, NEW p \in Pages, TimerFires(p)
    PROVE  LineOf(p)' /\ Stays(p)
  <1>0. UNCHANGED rushed
    BY DEF TimerFires, tallies
  <1> SUFFICES ASSUME p \notin rushed PROVE LineOf(p)' /\ Stays(p)
    BY <1>0, RushedLine
  <1>1. LineOf(p) /\ queue[p] \in Seq(Orders)
    BY DEF Line, TypeOK
  <1>2. timers[p] = 1 /\ queue[p] # << >> /\ busy[p] /\ hand[p] \in Orders
    BY <1>1 DEF TimerFires, LineOf
  <1>3. /\ timers'[p] = 0 /\ queue'[p] = Tail(queue[p])
        /\ busy'[p] = busy[p] /\ hand'[p] = hand[p]
    BY <1>2 DEF TimerFires, TypeOK
  <1>4. LineOf(p)'
    BY <1>0, <1>2, <1>3 DEF LineOf
  <1>5. OnDesk'[p] = OnDesk[p]
    BY <1>0, <1>3 DEF OnDesk
  <1>6. InLine'[p] = InLine[p]
    BY <1>0, <1>2, <1>3 DEF InLine
  <1>7. QED
    BY <1>4, <1>5, <1>6 DEF Stays

LEMMA LeaveLine ==
    ASSUME TypeOK, NEW p \in Pages, LeavePage(p)
    PROVE  LineOf(p)' /\ Leaves(p)
  <1>1. busy'[p] = FALSE /\ queue'[p] = << >> /\ timers'[p] = 0
    BY DEF LeavePage, TypeOK
  <1>2. QED
    BY <1>1 DEF LineOf, Leaves, OnDesk, InLine

\* What DeskSpec is about.
line == <<queue, busy, timers, hand, rushed>>

LEMMA LineUnchanged ==
    ASSUME UNCHANGED line
    PROVE  OnDesk' = OnDesk /\ InLine' = InLine /\ (Line => Line')
  BY DEF line, OnDesk, InLine, Line, LineOf

\* A step of one page changes one row.
LEMMA RowChanges ==
    ASSUME NEW p \in Pages, Aside(p)
    PROVE  /\ OnDesk' = [OnDesk EXCEPT ![p] = OnDesk'[p]]
           /\ InLine' = [InLine EXCEPT ![p] = InLine'[p]]
           /\ Line /\ LineOf(p)' => Line'
  <1>1. \A q \in Pages \ {p} : OnDesk'[q] = OnDesk[q] /\ InLine'[q] = InLine[q]
    BY DEF Aside, OnDesk, InLine
  <1>2. \A q \in Pages \ {p} : LineOf(q) => LineOf(q)'
    BY DEF Aside, LineOf
  <1>3. OnDesk' = [OnDesk EXCEPT ![p] = OnDesk'[p]]
    BY <1>1 DEF OnDesk
  <1>4. InLine' = [InLine EXCEPT ![p] = InLine'[p]]
    BY <1>1 DEF InLine
  <1>5. Line /\ LineOf(p)' => Line'
    BY <1>2 DEF Line
  <1>6. QED
    BY <1>3, <1>4, <1>5

LEMMA StaysStep ==
    ASSUME NEW p \in Pages, Aside(p), Stays(p) PROVE UNCHANGED Desk!vars
  <1>1. OnDesk' = OnDesk
    BY RowChanges DEF Stays, OnDesk
  <1>2. InLine' = InLine
    BY RowChanges DEF Stays, InLine
  <1>3. QED
    BY <1>1, <1>2 DEF Desk!vars

LEMMA ComesStep ==
    ASSUME NEW p \in Pages, NEW o \in Orders, Aside(p), Comes(p, o) PROVE Desk!Next
  <1>1. OnDesk'[p] = OnDesk[p] => OnDesk' = OnDesk
    BY RowChanges DEF OnDesk
  <1>2. InLine'[p] = InLine[p] => InLine' = InLine
    BY RowChanges DEF InLine
  <1>3. Desk!Arrive(p, o)
    BY <1>1, <1>2, RowChanges DEF Comes, Desk!Arrive
  <1>4. QED
    BY <1>3 DEF Desk!Next

LEMMA GoesStep ==
    ASSUME NEW p \in Pages, Aside(p), Goes(p) PROVE Desk!Next
  <1>1. InLine'[p] = InLine[p] => InLine' = InLine
    BY RowChanges DEF InLine
  <1>2. Desk!Finish(p)
    BY <1>1, RowChanges DEF Goes, Desk!Finish
  <1>3. QED
    BY <1>2 DEF Desk!Next

LEMMA LeaveStep ==
    ASSUME NEW p \in Pages, Aside(p), Leaves(p) PROVE Desk!Next
  <1>1. Desk!Close(p)
    BY RowChanges DEF Leaves, Desk!Close
  <1>2. QED
    BY <1>1 DEF Desk!Next

LEMMA DeskInit == Init => Desk!Init
  BY DEF Init, Desk!Init, OnDesk, InLine

LEMMA DeskNext ==
    ASSUME TypeOK, OneAtATime, Line, [Next]_vars
    PROVE  Line' /\ [Desk!Next]_(Desk!vars)
  <1>1. CASE UNCHANGED line
    BY <1>1, LineUnchanged DEF Desk!vars
  <1>2. CASE Sync
    BY <1>1, <1>2 DEF Sync, Connect, Identify, LinkLost, PushOrder, Fault, desk,
                         tallies, line
  <1>3. ASSUME NEW p \in Pages, Websocket(p) PROVE Line' /\ [Desk!Next]_(Desk!vars)
    <2>1. CASE LeavePage(p)
      BY <2>1, LeaveOne, LeaveLine, LeaveStep, RowChanges
    <2>2. CASE UNCHANGED <<desk, rushed>>
      BY <1>1, <2>2 DEF desk, line
    <2>3. QED
      BY <1>3, <2>1, <2>2 DEF Websocket, OpenPage, SocketOpens, HandleConnect,
                              CheckHotelOrder, SocketLost, Fault, tallies
  <1>4. ASSUME NEW p \in Pages, Page(p) PROVE Line' /\ [Desk!Next]_(Desk!vars)
    <2>1. CASE Receive(p)
      <3>1. wire[p] \in Seq(Orders) /\ wire[p] # << >>
        BY <2>1 DEF Receive, TypeOK
      <3>2. Head(wire[p]) \in Orders
        BY <3>1, HeadTailType
      <3>3. Arrive(p, Head(wire[p])) /\ UNCHANGED <<windows, dataObj, rushed>>
        BY <2>1 DEF Receive, shown, tallies
      <3>4. LineOf(p)' /\ (Stays(p) \/ Comes(p, Head(wire[p]))) /\ Aside(p)
        BY <3>2, <3>3, ArriveLine, ArriveAside
      <3>5. QED
        BY <3>2, <3>4, StaysStep, ComesStep, RowChanges
    <2>2. ASSUME NEW o \in Orders, DoModify(p, o)
          PROVE Line' /\ [Desk!Next]_(Desk!vars)
      <3>1. Arrive(p, o) /\ UNCHANGED <<windows, dataObj, rushed>>
        BY <2>2 DEF DoModify, Act, shown
      <3>2. LineOf(p)' /\ (Stays(p) \/ Comes(p, o)) /\ Aside(p)
        BY <3>1, ArriveLine, ArriveAside
      <3>3. QED
        BY <3>2, StaysStep, ComesStep, RowChanges
    <2>3. CASE CloseTop(p)
      <3>1. LineOf(p)' /\ (Stays(p) \/ Goes(p) \/ Leaves(p)) /\ Aside(p)
        BY <2>3, CloseLine, CloseAside
      <3>2. QED
        BY <3>1, StaysStep, GoesStep, LeaveStep, RowChanges
    <2>4. CASE TimerFires(p)
      <3>1. LineOf(p)' /\ Stays(p) /\ Aside(p)
        BY <2>4, TimerLine, LeaveOne
      <3>2. QED
        BY <3>1, StaysStep, RowChanges
    <2>5. CASE Fetch(p) \/ AskInfo(p) \/ InfoShown(p) \/ InfoFails(p)
      BY <1>1, <2>5 DEF Fetch, FetchAnswered, FetchFails, AskInfo, InfoShown, InfoFails,
                        Act, Fault, desk, tallies, line
    <2>6. QED
      BY <1>4, <2>1, <2>2, <2>3, <2>4, <2>5 DEF Page
  <1>5. CASE UNCHANGED vars
    BY <1>1, <1>5 DEF vars, desk, tallies, line
  <1>6. QED
    BY <1>2, <1>3, <1>4, <1>5 DEF Next

\* The flag, the queue and the timers implement the desk: as long as no price
\* window of a page is closed within two seconds of the one before, the orders of
\* the page come up in the order of their arrival, each once.
THEOREM PushDesk == Spec => DeskSpec
  <1> DEFINE Inv == TypeOK /\ OneAtATime /\ Line
  <1>1. Init => Inv /\ Desk!Init
    BY TypeInit, OneInit, LineInit, DeskInit
  <1>2. Inv /\ [Next]_vars => Inv' /\ [Desk!Next]_(Desk!vars)
    BY TypeNext, OneNext, DeskNext
  <1>3. QED
    BY <1>1, <1>2, PTL DEF Spec, DeskSpec, Desk!Spec
=============================================================================
