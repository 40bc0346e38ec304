----------------------------- MODULE OrderPush -----------------------------
(***************************************************************************)
(* Orders pushed to the pages of a user.                                   *)
(*                                                                         *)
(* The server keeps one connection to the sync server (external), which    *)
(* names the session it gave that connection and then pushes orders.  A    *)
(* page opens a websocket and says hello: its session becomes the user's   *)
(* entry of sessionMap, and the user is registered with the sync server.   *)
(* A pushed order goes to the session of the user's entry.                 *)
(*                                                                         *)
(* A page handles one order at a time: the order is fetched and shown in a *)
(* window in which its price can be changed.  Orders that come meanwhile   *)
(* wait in a queue; closing the window takes up the next, which leaves the *)
(* queue two seconds later.  The service that shows windows remembers only *)
(* the last one, and windows with the details of an order use it too.      *)
(*                                                                         *)
(* Left out: other users, the change of the price itself, and the second   *)
(* kind of push, whose handler fails before it sends anything.             *)
(***************************************************************************)
EXTENDS Integers, Sequences, FiniteSets

CONSTANTS
    Pages,      \* loads of the main page by the user
    Orders,     \* orders of the user's hotels
    MaxPushes,  \* bound: pushes of the sync server
    MaxActs,    \* bound: things the user asks for
    MaxTimers,  \* bound: removals pending on a page at once
    FaultKinds, \* kinds of fault that may happen
    MaxFaults,  \* bound: faults in a behaviour
    Nobody,     \* no entry in sessionMap
    NoOrder     \* undefined

ASSUME PushBoundsAssumption ==
    MaxPushes \in Nat /\ MaxActs \in Nat /\ MaxTimers \in Nat \ {0} /\ MaxFaults \in Nat
ASSUME PushFaultKindsAssumption == FaultKinds \subseteq {"fetch", "socket", "link"}
ASSUME PushNullsAssumption == Nobody \notin Pages /\ NoOrder \notin Orders

VARIABLES
    link,       \* of the sync connection: "known" once its session was named
    channel,    \* ServerChannel.channel: the connection it is of
    sessionId,  \* AbstractProcessor.sessionId: the connection it was named for
    registered, \* external: the sync server has the user, for this connection
    sessionMap, \* the page whose websocket session is the user's entry
    socket,     \* the websocket of each page; "none" before the page is loaded
    hello,      \* how far the hello of each page has come
    wire,       \* orders on the way to each page
    queue,      \* changePriceQueue
    busy,       \* isProcessingSocketModal
    fetches,    \* orders being fetched for the price window
    dataObj,    \* the order the price window shows
    windows,    \* the windows of each page, the top one last
    holds,      \* whether HmsModalService.modal is the last window shown
    timers,     \* pending removals from the queue
    asked,      \* details being fetched
    hand,       \* history: the order last taken up
    rushed,     \* history: pages where a window was closed during a removal
    pushes, acts, faults

sync == <<link, channel, sessionId, registered>>
desk == <<queue, busy, fetches, timers, hand>>
shown == <<dataObj, windows, holds, asked>>
tallies == <<rushed, pushes, acts, faults>>
vars == <<sync, sessionMap, socket, hello, wire, desk, shown, tallies>>

Connections == {"none", "stale", "current"}
Live(p) == socket[p] \in {"connecting", "open", "closed"}

TypeOK ==
    /\ link \in {"down", "up", "known"}
    /\ channel \in Connections
    /\ sessionId \in Connections
    /\ registered \in BOOLEAN
    /\ sessionMap \in Pages \cup {Nobody}
    /\ socket \in [Pages -> {"none", "connecting", "open", "closed", "gone"}]
    /\ hello \in [Pages -> {"none", "sent", "mapped", "done"}]
    /\ wire \in [Pages -> Seq(Orders)]
    /\ queue \in [Pages -> Seq(Orders)]
    /\ busy \in [Pages -> BOOLEAN]
    /\ fetches \in [Pages -> SUBSET Orders]
    /\ dataObj \in [Pages -> Orders \cup {NoOrder}]
    /\ windows \in [Pages -> Seq({"price", "info"})]
    /\ holds \in [Pages -> BOOLEAN]
    /\ timers \in [Pages -> Nat]
    /\ asked \in [Pages -> Nat]
    /\ hand \in [Pages -> Orders \cup {NoOrder}]
    /\ rushed \subseteq Pages
    /\ pushes \in 0..MaxPushes /\ acts \in 0..MaxActs /\ faults \in 0..MaxFaults

Init ==
    /\ link = "down" /\ channel = "none" /\ sessionId = "none"
    /\ registered = FALSE
    /\ sessionMap = Nobody
    /\ socket = [p \in Pages |-> "none"]
    /\ hello = [p \in Pages |-> "none"]
    /\ wire = [p \in Pages |-> << >>]
    /\ queue = [p \in Pages |-> << >>]
    /\ busy = [p \in Pages |-> FALSE]
    /\ fetches = [p \in Pages |-> {}]
    /\ dataObj = [p \in Pages |-> NoOrder]
    /\ windows = [p \in Pages |-> << >>]
    /\ holds = [p \in Pages |-> FALSE]
    /\ timers = [p \in Pages |-> 0]
    /\ asked = [p \in Pages |-> 0]
    /\ hand = [p \in Pages |-> NoOrder]
    /\ rushed = {}
    /\ pushes = 0 /\ acts = 0 /\ faults = 0

Fault(kind) ==
    /\ kind \in FaultKinds
    /\ faults < MaxFaults
    /\ faults' = faults + 1
    /\ UNCHANGED <<rushed, pushes, acts>>

Act == acts < MaxActs /\ acts' = acts + 1 /\ UNCHANGED <<rushed, pushes, faults>>

-----------------------------------------------------------------------------
(* The connection to the sync server.                                      *)

\* channelActive. After a loss, and after a failed attempt, the server tries
\* again five seconds later.
Connect ==
    /\ link = "down"
    /\ link' = "up"
    /\ channel' = "current"
    /\ UNCHANGED <<sessionId, registered, sessionMap, socket, hello, wire, desk, shown, tallies>>

\* Mutant: only the first session is remembered.
IdentifyOnce ==
    /\ link = "up"
    /\ link' = "known"
    /\ sessionId' = IF sessionId = "none" THEN "current" ELSE sessionId
    /\ UNCHANGED <<channel, registered, sessionMap, socket, hello, wire, desk, shown, tallies>>

\* The sync server asks who this is and names the session.
Identify ==
    /\ link = "up"
    /\ link' = "known"
    /\ sessionId' = "current"
    /\ UNCHANGED <<channel, registered, sessionMap, socket, hello, wire, desk, shown, tallies>>

\* Nothing is told to forget the channel or the session.
OfLost(connection) == IF connection = "current" THEN "stale" ELSE connection

LinkLost ==
    /\ link # "down"
    /\ Fault("link")
    /\ link' = "down"
    /\ channel' = OfLost(channel)
    /\ sessionId' = OfLost(sessionId)
    /\ registered' = FALSE
    /\ UNCHANGED <<sessionMap, socket, hello, wire, desk, shown>>

\* The sync server pushes any order, to a user who is registered or not. The
\* push fails without an entry, and to a session that is closed.
PushOrder(o) ==
    /\ link = "known"
    /\ pushes < MaxPushes
    /\ pushes' = pushes + 1
    /\ wire' = [p \in Pages |->
                  IF p = sessionMap /\ socket[p] = "open" THEN Append(wire[p], o) ELSE wire[p]]
    /\ UNCHANGED <<sync, sessionMap, socket, hello, desk, shown, rushed, acts, faults>>

-----------------------------------------------------------------------------
(* Websockets.                                                             *)

OpenPage(p) ==
    /\ socket[p] = "none"
    /\ socket' = [socket EXCEPT ![p] = "connecting"]
    /\ UNCHANGED <<sync, sessionMap, hello, wire, desk, shown, tallies>>

\* onopen sends the hello.
SocketOpens(p) ==
    /\ socket[p] = "connecting"
    /\ socket' = [socket EXCEPT ![p] = "open"]
    /\ hello' = [hello EXCEPT ![p] = "sent"]
    /\ UNCHANGED <<sync, sessionMap, wire, desk, shown, tallies>>

\* onMessage puts the session in the map, whoever was there, ...
HandleConnect(p) ==
    /\ hello[p] = "sent"
    /\ sessionMap' = p
    /\ hello' = [hello EXCEPT ![p] = "mapped"]
    /\ UNCHANGED <<sync, socket, wire, desk, shown, tallies>>

\* ... and registers the user with the channel and the session there are: with
\* none it fails, and to a closed one it writes in vain. (The two are read one
\* after the other; a connection that is lost is made again five seconds later.)
CheckHotelOrder(p) ==
    /\ hello[p] = "mapped"
    /\ hello' = [hello EXCEPT ![p] = "done"]
    /\ registered' = (registered \/ (channel = "current" /\ sessionId = "current"))
    /\ UNCHANGED <<link, channel, sessionId, sessionMap, socket, wire, desk, shown, tallies>>

\* The page does not open another socket, and the entry stays in the map.
SocketLost(p) ==
    /\ socket[p] \in {"connecting", "open"}
    /\ Fault("socket")
    /\ socket' = [socket EXCEPT ![p] = "closed"]
    /\ wire' = [wire EXCEPT ![p] = << >>]
    /\ UNCHANGED <<sync, sessionMap, hello, desk, shown>>

LeavePage(p) ==
    /\ Live(p)
    /\ socket' = [socket EXCEPT ![p] = "gone"]
    /\ wire' = [wire EXCEPT ![p] = << >>]
    /\ queue' = [queue EXCEPT ![p] = << >>]
    /\ busy' = [busy EXCEPT ![p] = FALSE]
    /\ fetches' = [fetches EXCEPT ![p] = {}]
    /\ timers' = [timers EXCEPT ![p] = 0]
    /\ hand' = [hand EXCEPT ![p] = NoOrder]
    /\ dataObj' = [dataObj EXCEPT ![p] = NoOrder]
    /\ windows' = [windows EXCEPT ![p] = << >>]
    /\ holds' = [holds EXCEPT ![p] = FALSE]
    /\ asked' = [asked EXCEPT ![p] = 0]
    /\ rushed' = rushed \ {p}
    /\ UNCHANGED <<sync, sessionMap, hello, pushes, acts, faults>>

-----------------------------------------------------------------------------
(* The page.                                                               *)

\* processChangePrice
Process(p, o) ==
    /\ busy' = [busy EXCEPT ![p] = TRUE]
    /\ fetches' = [fetches EXCEPT ![p] = @ \cup {o}]
    /\ hand' = [hand EXCEPT ![p] = o]

\* Mutant: the flag is not looked at.
ArriveAlways(p, o) == Process(p, o) /\ UNCHANGED <<queue, timers>>

\* Mutant: the last order goes to the front.
ArriveFirst(p, o) ==
    \/ ~busy[p] /\ Process(p, o) /\ UNCHANGED <<queue, timers>>
    \/ busy[p] /\ queue' = [queue EXCEPT ![p] = <<o>> \o @] /\ UNCHANGED <<busy, fetches, timers, hand>>

\* The listener of CHANGE_ORDER_PRICE.
Arrive(p, o) ==
    \/ ~busy[p] /\ Process(p, o) /\ UNCHANGED <<queue, timers>>
    \/ /\ busy[p]
       /\ queue' = [queue EXCEPT ![p] = Append(@, o)]
       /\ UNCHANGED <<busy, fetches, timers, hand>>

Receive(p) ==
    /\ wire[p] # << >>
    /\ wire' = [wire EXCEPT ![p] = Tail(@)]
    /\ Arrive(p, Head(wire[p]))
    /\ UNCHANGED <<sync, sessionMap, socket, hello, shown, tallies>>

\* The user asks for the window from the list of orders, which a window covers.
DoModify(p, o) ==
    /\ Live(p)
    /\ windows[p] = << >>
    /\ Act
    /\ Arrive(p, o)
    /\ UNCHANGED <<sync, sessionMap, socket, hello, wire, shown>>

\* HmsModalService.show
Show(p, window) ==
    /\ windows' = [windows EXCEPT ![p] = Append(@, window)]
    /\ holds' = [holds EXCEPT ![p] = TRUE]

FetchAnswered(p, o) ==
    /\ o \in fetches[p]
    /\ fetches' = [fetches EXCEPT ![p] = @ \ {o}]
    /\ dataObj' = [dataObj EXCEPT ![p] = o]
    /\ Show(p, "price")
    /\ UNCHANGED <<sync, sessionMap, socket, hello, wire, queue, busy, timers, hand, asked, tallies>>

\* The failure is shown in a message, and nothing else is done.
FetchFails(p, o) ==
    /\ o \in fetches[p]
    /\ Fault("fetch")
    /\ fetches' = [fetches EXCEPT ![p] = @ \ {o}]
    /\ UNCHANGED <<sync, sessionMap, socket, hello, wire, queue, busy, timers, hand, shown>>

AskInfo(p) ==
    /\ Live(p)
    /\ windows[p] = << >>
    /\ Act
    /\ asked' = [asked EXCEPT ![p] = @ + 1]
    /\ UNCHANGED <<sync, sessionMap, socket, hello, wire, desk, dataObj, windows, holds>>

InfoShown(p) ==
    /\ asked[p] > 0
    /\ asked' = [asked EXCEPT ![p] = @ - 1]
    /\ Show(p, "info")
    /\ UNCHANGED <<sync, sessionMap, socket, hello, wire, desk, dataObj, tallies>>

InfoFails(p) ==
    /\ asked[p] > 0
    /\ Fault("fetch")
    /\ asked' = [asked EXCEPT ![p] = @ - 1]
    /\ UNCHANGED <<sync, sessionMap, socket, hello, wire, desk, dataObj, windows, holds>>

\* Mutant: the flag is reset, and the next order waits for the next push.
DealLater(p) ==
    /\ busy' = [busy EXCEPT ![p] = FALSE]
    /\ UNCHANGED <<fetches, timers, hand>>

\* dealChangePriceQueue; the queue itself is left alone.
Deal(p) ==
    \/ /\ queue[p] # << >>
       /\ Process(p, Head(queue[p]))
       /\ timers' = [timers EXCEPT ![p] = @ + 1]
    \/ /\ queue[p] = << >>
       /\ busy' = [busy EXCEPT ![p] = FALSE]
       /\ UNCHANGED <<fetches, timers, hand>>

Top(p) == windows[p][Len(windows[p])]

\* HmsModalService.hide hides the window it remembers, if it has one: else it
\* throws, and closing does nothing. Behind the price window comes the next order.
\* One that is closed within two seconds finds the order that was taken up last
\* still in the queue and takes it up again.
CloseTop(p) ==
    /\ windows[p] # << >>
    /\ holds[p]
    /\ windows' = [windows EXCEPT ![p] = SubSeq(@, 1, Len(@) - 1)]
    /\ holds' = [holds EXCEPT ![p] = FALSE]
    /\ \/ Top(p) = "price" /\ timers[p] < MaxTimers /\ Deal(p)
       \/ Top(p) = "info" /\ UNCHANGED <<busy, fetches, timers, hand>>
    /\ rushed' = rushed \cup {q \in {p} : Top(p) = "price" /\ timers[p] > 0}
    /\ UNCHANGED <<sync, sessionMap, socket, hello, wire, queue, dataObj, asked, pushes, acts, faults>>

\* Mutant: the removal does not belong to an order that was taken up.
TimerFiresAlways(p) ==
    /\ timers' = [timers EXCEPT ![p] = @ - 1]
    /\ queue' = [queue EXCEPT ![p] = IF @ = << >> THEN @ ELSE Tail(@)]
    /\ UNCHANGED <<sync, sessionMap, socket, hello, wire, busy, fetches, hand, shown, tallies>>

\* Two seconds after an order was taken up from the queue.
TimerFires(p) ==
    /\ timers[p] > 0
    /\ timers' = [timers EXCEPT ![p] = @ - 1]
    /\ queue' = [queue EXCEPT ![p] = IF @ = << >> THEN @ ELSE Tail(@)]
    /\ UNCHANGED <<sync, sessionMap, socket, hello, wire, busy, fetches, hand, shown, tallies>>

-----------------------------------------------------------------------------
Sync == Connect \/ Identify \/ LinkLost \/ \E o \in Orders : PushOrder(o)

Websocket(p) ==
    \/ OpenPage(p) \/ SocketOpens(p) \/ HandleConnect(p) \/ CheckHotelOrder(p)
    \/ SocketLost(p) \/ LeavePage(p)

Fetch(p) == \E o \in Orders : FetchAnswered(p, o) \/ FetchFails(p, o)

Page(p) ==
    \/ Receive(p) \/ Fetch(p) \/ TimerFires(p) \/ CloseTop(p)
    \/ \E o \in Orders : DoModify(p, o)
    \/ AskInfo(p) \/ InfoShown(p) \/ InfoFails(p)

Next == Sync \/ \E p \in Pages : Websocket(p) \/ Page(p)

\* Answers and timers come. The user need not do anything.
Fairness == \A p \in Pages : WF_vars(Fetch(p)) /\ WF_vars(TimerFires(p))

Spec == Init /\ [][Next]_vars
FairSpec == Spec /\ Fairness

-----------------------------------------------------------------------------
(* Properties.                                                             *)

Prices(ws) == {i \in DOMAIN ws : ws[i] = "price"}
PriceWindows(p) == Prices(windows[p])
OnHand(p) == fetches[p] # {} \/ PriceWindows(p) # {}

\* A page handles one order at a time: whatever the pushes and the list of
\* orders ask for, there is one fetch or one price window, of the order last
\* taken up, and the window shows that order (dataObj is shared by all).
OneAtATime ==
    \A p \in Pages :
        /\ fetches[p] # {} => fetches[p] = {hand[p]} /\ PriceWindows(p) = {}
        /\ PriceWindows(p) # {} => dataObj[p] = hand[p]
        /\ \A i, j \in PriceWindows(p) : i = j
        /\ OnHand(p) => busy[p]

\* No order waits for nothing: orders are queued only behind one that is being
\* fetched or shown, so the closing of its window takes up the next. A page whose
\* flag is set with no order on hand, where they wait in vain, costs a fault of
\* its own. (isProcessingSocketModal is reset by the closing only.)
Stuck == {p \in Pages : busy[p] /\ ~OnHand(p)}
QueueBehindOrder ==
    /\ \A p \in Pages : queue[p] # << >> => busy[p]
    /\ Cardinality(Stuck) <= faults

\* The flag and the queue, from which an order is taken only two seconds after
\* it was taken up, implement a desk with a line of waiting orders. A page on
\* which a price window was closed within these two seconds loses the promise: to
\* the desk it is a page that was left.
OnDesk == [p \in Pages |-> IF busy[p] /\ p \notin rushed THEN hand[p] ELSE NoOrder]
InLine == [p \in Pages |-> IF p \in rushed THEN << >>
                           ELSE IF timers[p] > 0 /\ queue[p] # << >> THEN Tail(queue[p])
                           ELSE queue[p]]

Desk == INSTANCE OrderDesk WITH desk <- OnDesk, waiting <- InLine

DeskSpec == Desk!Spec

\* A hello that is handled while the sync server knows this server registers
\* the user, also after the connection was lost and made again.
HelloRegisters ==
    [][\A p \in Pages : hello[p] = "mapped" /\ hello'[p] = "done" /\ link = "known"
           => registered']_vars

\* A page whose top window cannot be closed: the service shows no window since
\* one that was above it.
Blocked(p) == windows[p] # << >> /\ ~holds[p]

\* An order in the queue is taken up, if the user closes every window that can be
\* closed. Four ways out are the code's own: the page is left, a fetch failed
\* with the flag set (Stuck), the window cannot be closed (Blocked), or a price
\* window was closed within two seconds of the one before (rushed), which may
\* drop orders unseen.
QueueGoesOn ==
    \A p \in Pages, o \in Orders :
        WF_vars(CloseTop(p)) =>
            ((\E i \in DOMAIN queue[p] : queue[p][i] = o)
                ~> (hand[p] = o \/ ~Live(p) \/ p \in Stuck \/ Blocked(p) \/ p \in rushed))

\* What "message queue" (hms-controller.js:10) says: an order leaves the queue of a
\* page that is not left only as the one taken up last. The removal is by
\* position: closing twice within two seconds takes up one order twice, and the
\* second removal drops the order behind it.
LeavesTakenUp ==
    [][\A p \in Pages :
           queue[p] # << >> /\ queue'[p] = Tail(queue[p]) /\ Live(p)'
               => hand[p] = Head(queue[p])]_vars
=============================================================================
