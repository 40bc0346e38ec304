---------------------------- MODULE ShoppingCart ----------------------------
(***************************************************************************)
(* The shop: pages of one user, the cart in redis and the orders.          *)
(*                                                                         *)
(* A user has the shop open in several tabs of one browser, so all of them *)
(* share one http session and the hotel it stands for.  A page calls the   *)
(* server and goes on before the answer comes: the loading overlay goes    *)
(* away after five seconds, and a change of a count has none.  Calls run   *)
(* side by side on the server.                                             *)
(*                                                                         *)
(* The cart of a hotel is one value in redis.  Every call that changes it  *)
(* gets the value, changes its copy and puts the copy back; the key is     *)
(* taken from the session each time.  An order is written line by line     *)
(* with what the page showed, and each ware is then deleted from the cart  *)
(* in the same way.  Nothing is a transaction (see HotelRule).             *)
(*                                                                         *)
(* Prices and promotions are left out: they come and go with a ware.       *)
(***************************************************************************)
EXTENDS Integers, FiniteSets, Sequences

CONSTANTS
    Hotels,     \* hotels of the user
    Wares,      \* wares of the shop
    Tabs,       \* tabs of the user's browser
    Calls,      \* calls that may be under way at once
    Entries,    \* counts the user enters
    MaxActs,    \* bound: things the user does
    FaultKinds, \* kinds of fault that may happen
    MaxFaults,  \* bound: faults in a behaviour
    NoCart,     \* the null of redis
    Idle        \* a call that is not under way

ASSUME EntriesAssumption == Entries \subseteq Nat \ {0}
ASSUME BoundsAssumption == MaxActs \in Nat /\ MaxFaults \in Nat
ASSUME CartFaultKindsAssumption == FaultKinds \subseteq {"io", "net"}

\* How many of each ware; 0 is a ware that is not listed.
Nums == [Wares -> Nat]
None == [w \in Wares |-> 0]
Listed(nums) == {w \in Wares : nums[w] > 0}

Cart == [hotel : Hotels, nums : Nums]
Order == [hotel : Hotels, shown : Hotels, want : Nums, lines : SUBSET Wares]

\* A page: the main page it was opened under shows a hotel; the cart page has
\* a copy of the cart.
Page == [at : {"goods", "cart", "orders"}, shown : Hotels,
         hotel : Hotels, rows : Nums, ticked : SUBSET Wares]

Steps == {"insert", "line", "get", "put"}
Answers == {"ok", "no", "error"}
Call == [op : {"add", "count", "delete", "order"}, tab : Tabs,
         from : {"here", "left", "gone"}, pc : Steps \cup Answers, hotel : Hotels, shown : Hotels,
         want : Nums, ware : Wares, copy : Cart \cup {NoCart}, order : Nat]

ASSUME CartNullsAssumption == NoCart \notin Cart /\ Idle \notin Call

VARIABLES
    cart,      \* redis: the cart of each hotel
    orders,    \* the orders and their lines
    thisHotel, \* the hotel of the session
    page,      \* what each tab shows
    locked,    \* tabs whose submitLock or adding is set
    calls,     \* calls under way
    acts,      \* things the user has done
    faults,    \* faults so far
    disturbed, \* history: calls whose cart something else has changed
    fresh      \* history: cart pages that alone have changed their cart

store == <<cart, orders>>
browser == <<page, locked>>
history == <<disturbed, fresh>>
vars == <<store, thisHotel, browser, calls, acts, faults, history>>

TypeOK ==
    /\ cart \in [Hotels -> Cart \cup {NoCart}]
    /\ orders \in Seq(Order)
    /\ thisHotel \in Hotels
    /\ page \in [Tabs -> Page]
    /\ locked \in SUBSET Tabs
    /\ calls \in [Calls -> Call \cup {Idle}]
    /\ acts \in 0..MaxActs
    /\ faults \in 0..MaxFaults
    /\ disturbed \in SUBSET Calls
    /\ fresh \in SUBSET Tabs

GoodsPage(h) ==
    [at |-> "goods", shown |-> h, hotel |-> h, rows |-> None, ticked |-> {}]

\* Redis still holds the carts of earlier visits.
Init ==
    /\ \E nums \in [Hotels -> [Wares -> Entries \cup {0}]] :
           cart = [h \in Hotels |-> IF nums[h] = None THEN NoCart
                                   ELSE [hotel |-> h, nums |-> nums[h]]]
    /\ orders = << >>
    /\ thisHotel \in Hotels
    /\ page = [t \in Tabs |-> GoodsPage(thisHotel)]
    /\ locked = {}
    /\ calls = [c \in Calls |-> Idle]
    /\ acts = 0
    /\ faults = 0
    /\ disturbed = {}
    /\ fresh = {}

At(c, pc) == calls[c] # Idle /\ calls[c].pc = pc
Ordering == {c \in Calls : calls[c] # Idle /\ calls[c].op = "order"}
Running(c) == calls[c] # Idle /\ calls[c].pc \in Steps
Goto(c, pc) == calls' = [calls EXCEPT ![c].pc = pc]
Waiting(t) == \E c \in Calls : calls[c] # Idle /\ calls[c].tab = t
NumsOf(k) == IF k = NoCart THEN None ELSE k.nums

Fault(kind) ==
    /\ kind \in FaultKinds
    /\ faults < MaxFaults
    /\ faults' = faults + 1

-----------------------------------------------------------------------------
(* The pages.                                                              *)

Act == acts < MaxActs /\ acts' = acts + 1

\* The tab shows another page: it has no lock, and answers to calls of the
\* page before find that left ("left"), or with a reload find nobody ("gone").
Show(t, p) ==
    /\ page' = [page EXCEPT ![t] = p]
    /\ locked' = locked \ {t}
Leave(cs, t, from) == [c \in Calls |->
    IF cs[c] # Idle /\ cs[c].tab = t /\ cs[c].from # "gone"
    THEN [cs[c] EXCEPT !.from = from] ELSE cs[c]]

\* The main page is loaded for a hotel, which the session then stands for.
OpenMain(t, h) ==
    /\ Act
    /\ thisHotel' = h
    /\ Show(t, GoodsPage(h))
    /\ calls' = Leave(calls, t, "gone")
    /\ disturbed' = IF h = thisHotel THEN disturbed ELSE Ordering
    /\ fresh' = IF h = thisHotel THEN fresh \ {t} ELSE {}
    /\ UNCHANGED <<store, faults>>

\* The cart page takes a copy of the cart, all of it ticked. It is taken when
\* redis is read; nothing can be done on the page before it is shown.
OpenCart(t) ==
    /\ cart[thisHotel] # NoCart
    /\ page[t].at # "cart"
    /\ Show(t, [at |-> "cart", shown |-> page[t].shown,
                hotel |-> cart[thisHotel].hotel, rows |-> cart[thisHotel].nums,
                ticked |-> Listed(cart[thisHotel].nums)])
    /\ calls' = Leave(calls, t, "left")
    /\ fresh' = IF Waiting(t) THEN fresh \ {t} ELSE fresh \cup {t}
    /\ UNCHANGED <<store, thisHotel, acts, faults, disturbed>>

\* The user walks to the page of a ware.
OpenGoods(t) ==
    /\ page[t].at # "goods" \/ t \in locked
    /\ Show(t, GoodsPage(page[t].shown))
    /\ calls' = Leave(calls, t, "left")
    /\ fresh' = fresh \ {t}
    /\ UNCHANGED <<store, thisHotel, acts, faults, disturbed>>

\* want of a call that is about one ware.
Only(w, n) == [None EXCEPT ![w] = n]

Send(t, op, pc, w, want, stale) ==
    /\ Act
    /\ \E c \in Calls :
        /\ calls[c] = Idle
        /\ calls' = [calls EXCEPT ![c] =
               [op |-> op, tab |-> t, from |-> "here", pc |-> pc,
                hotel |-> page[t].hotel, shown |-> page[t].shown, want |-> want,
                ware |-> w, copy |-> NoCart, order |-> 0]]
        /\ disturbed' = IF stale THEN disturbed \cup {c} ELSE disturbed
    /\ fresh' = IF Waiting(t) THEN fresh \ {t} ELSE fresh
    /\ UNCHANGED <<store, thisHotel, faults>>

AddToCart(t, w, n) ==
    /\ page[t].at = "goods"
    /\ t \notin locked
    /\ locked' = locked \cup {t}
    /\ Send(t, "add", "get", w, Only(w, n), FALSE)
    /\ UNCHANGED page

\* The count on the page changes at once, whatever becomes of the call.
UpdateCount(t, w, n) ==
    /\ page[t].at = "cart"
    /\ w \in Listed(page[t].rows)
    /\ page' = [page EXCEPT ![t].rows[w] = n]
    /\ Send(t, "count", "get", w, Only(w, n), FALSE)
    /\ UNCHANGED locked

DeleteWare(t, w) ==
    /\ page[t].at = "cart"
    /\ w \in Listed(page[t].rows)
    /\ Send(t, "delete", "get", w, None, FALSE)
    /\ UNCHANGED browser

Tick(t, w) ==
    /\ Act
    /\ page[t].at = "cart"
    /\ w \in Listed(page[t].rows)
    /\ page' = [page EXCEPT ![t].ticked =
                   IF w \in @ THEN @ \ {w} ELSE @ \cup {w}]
    /\ UNCHANGED <<store, thisHotel, locked, calls, faults, history>>

Wanted(t) == [w \in Wares |-> IF w \in page[t].ticked THEN page[t].rows[w] ELSE 0]

\* The page would order something else than the cart holds.
Stale(t) == \E w \in Listed(Wanted(t)) :
                NumsOf(cart[thisHotel])[w] # Wanted(t)[w]

\* submitOrder: with nothing ticked the lock is given back at once.
SubmitOrder(t) ==
    /\ page[t].at = "cart"
    /\ t \notin locked
    /\ Wanted(t) # None
    /\ locked' = locked \cup {t}
    /\ \E w \in Listed(Wanted(t)) :
           Send(t, "order", "insert", w, Wanted(t), Stale(t))
    /\ UNCHANGED page

-----------------------------------------------------------------------------
(* The server.                                                             *)

\* The rows of the order that are still to be written.
Remaining(c) == Listed(calls[c].want) \
    (IF calls[c].order = 0 THEN {} ELSE orders[calls[c].order].lines)

InsertOrder(c) ==
    /\ At(c, "insert")
    /\ orders' = Append(orders, [hotel |-> calls[c].hotel, shown |-> calls[c].shown,
                                 want |-> calls[c].want, lines |-> {}])
    /\ calls' = [calls EXCEPT ![c].order = Len(orders) + 1, ![c].pc = "line"]
    /\ UNCHANGED <<cart, thisHotel, browser, acts, faults, history>>

InsertLine(c, w) ==
    /\ At(c, "line")
    /\ w \in Remaining(c)
    /\ orders' = [orders EXCEPT ![calls[c].order].lines = @ \cup {w}]
    /\ calls' = [calls EXCEPT ![c].ware = w, ![c].pc = "get"]
    /\ UNCHANGED <<cart, thisHotel, browser, acts, faults, history>>

\* saveOrder looks at no result of the deletions: it is done with its lines.
AfterDeletion(c) ==
    IF calls[c].op = "order" /\ Remaining(c) # {} THEN "line" ELSE "ok"

\* Without a cart an add starts one; a deletion or a new count is caught as
\* an exception, which saveOrder does not hear of.
GetCart(c) ==
    /\ At(c, "get")
    /\ \/ /\ cart[thisHotel] = NoCart /\ calls[c].op \in {"count", "delete"}
          /\ Goto(c, "no")
       \/ /\ cart[thisHotel] = NoCart /\ calls[c].op = "order"
          /\ Goto(c, AfterDeletion(c))
       \/ /\ cart[thisHotel] # NoCart \/ calls[c].op = "add"
          /\ calls' = [calls EXCEPT ![c].copy = cart[thisHotel], ![c].pc = "put"]
    /\ UNCHANGED <<store, thisHotel, browser, acts, faults, history>>

\* Mutant: an order takes its count off the cart's.
NewCountLess(op, old, n) ==
    IF op = "add" THEN old + n ELSE IF op = "count" /\ old > 0 THEN n ELSE old - n

\* What a call makes of the count of its ware: a new count is only for a ware
\* that is listed.
NewCount(op, old, n) ==
    IF op = "add" THEN old + n ELSE IF op = "count" /\ old > 0 THEN n ELSE 0

Changed(c) ==
    LET w == calls[c].ware
    IN [NumsOf(calls[c].copy) EXCEPT ![w] = NewCount(calls[c].op, @, calls[c].want[w])]

\* Mutant: an order empties the cart.
StoredEmptied(c) == IF Changed(c) = None \/ calls[c].op = "order" THEN NoCart
    ELSE [hotel |-> thisHotel, nums |-> Changed(c)]

\* A copy that lists nothing is put as null. A new cart is for the hotel of
\* the session, one that was read keeps its own.
Stored(c) ==
    IF Changed(c) = None THEN NoCart
    ELSE [hotel |-> IF calls[c].copy = NoCart THEN thisHotel ELSE calls[c].copy.hotel,
          nums |-> Changed(c)]

PutCart(c) ==
    /\ At(c, "put")
    /\ cart' = [cart EXCEPT ![thisHotel] = Stored(c)]
    /\ calls' = [calls EXCEPT ![c].copy = NoCart, ![c].pc = AfterDeletion(c)]
    /\ disturbed' = disturbed \cup (Ordering \ {c})
    /\ fresh' = fresh \cap {t \in Tabs : calls[c].tab = t /\ calls[c].from = "here"}
    /\ UNCHANGED <<orders, thisHotel, browser, acts, faults>>

\* An exception: the service answers that it failed, or the request ends in
\* an http error. What was written stays.
CutOff(c) ==
    /\ Running(c)
    /\ Fault("io")
    /\ Goto(c, "no") \/ Goto(c, "error")
    /\ fresh' = fresh \ {calls[c].tab}
    /\ UNCHANGED <<store, thisHotel, browser, acts, disturbed>>

-----------------------------------------------------------------------------
(* The answers.                                                            *)

Ended(c) == [calls EXCEPT ![c] = Idle]

\* Mutant: no error callback.
FailedLocked(c) == UNCHANGED browser

\* Mutant: a lock that the pages of a tab share.
FailedAnyPage(c) ==
    /\ locked' = IF calls[c].op \in {"add", "order"}
                    THEN locked \ {calls[c].tab} ELSE locked
    /\ UNCHANGED page

\* The callback of an http error gives the lock of its page back.
Failed(c) ==
    /\ locked' = IF calls[c].from = "here" /\ calls[c].op \in {"add", "order"}
                    THEN locked \ {calls[c].tab} ELSE locked
    /\ UNCHANGED page

\* The callback sends the tab to another page, also when the page it belongs
\* to has been left.
GoTo(c, p) ==
    /\ Show(calls[c].tab, p)
    /\ calls' = Leave(Ended(c), calls[c].tab, "left")

\* Any answer to saveOrder leads to the orders, 0 for a failure too.
AnswerOrder(c) ==
    /\ calls[c].op = "order" /\ calls[c].pc \in {"ok", "no"}
    /\ GoTo(c, [GoodsPage(page[calls[c].tab].shown) EXCEPT !.at = "orders"])

AnswerAdd(c) ==
    /\ calls[c].op = "add"
    /\ \/ calls[c].pc = "ok" /\ GoTo(c, GoodsPage(page[calls[c].tab].shown))
       \/ calls[c].pc = "no" /\ Failed(c) /\ calls' = Ended(c)

\* Mutant: the row stays on the page.
AnswerDeleteKept(c) ==
    /\ calls[c].op = "delete" /\ calls[c].pc \in {"ok", "no"}
    /\ calls' = Ended(c)
    /\ UNCHANGED browser

\* Only a deletion that succeeded takes the row off the page.
AnswerDelete(c) ==
    /\ calls[c].op = "delete" /\ calls[c].pc \in {"ok", "no"}
    /\ page' = IF calls[c].pc = "ok" /\ calls[c].from = "here"
                 THEN [page EXCEPT ![calls[c].tab].rows[calls[c].ware] = 0] ELSE page
    /\ calls' = Ended(c)
    /\ UNCHANGED locked

AnswerCount(c) ==
    /\ calls[c].op = "count" /\ calls[c].pc \in {"ok", "no"}
    /\ calls' = Ended(c)
    /\ UNCHANGED browser

Answer(c) ==
    /\ calls[c] # Idle
    /\ calls[c].from # "gone"
    /\ \/ AnswerOrder(c) \/ AnswerAdd(c) \/ AnswerDelete(c) \/ AnswerCount(c)
       \/ calls[c].pc = "error" /\ Failed(c) /\ calls' = Ended(c)
    /\ disturbed' = disturbed \ {c}
    /\ fresh' = {t \in fresh : page'[t].at = "cart"}
    /\ UNCHANGED <<store, thisHotel, acts, faults>>

\* The network gives a call up for the page; the server may still be at work.
LoseAnswer(c) ==
    /\ calls[c] # Idle
    /\ calls[c].from # "gone"
    /\ Fault("net")
    /\ Failed(c)
    /\ calls' = [calls EXCEPT ![c].from = "gone"]
    /\ fresh' = fresh \ {calls[c].tab}
    /\ UNCHANGED <<store, thisHotel, acts, disturbed>>

\* An answer nobody waits for.
DropAnswer(c) ==
    /\ calls[c] # Idle
    /\ calls[c].from = "gone"
    /\ ~Running(c)
    /\ calls' = Ended(c)
    /\ disturbed' = disturbed \ {c}
    /\ UNCHANGED <<store, thisHotel, browser, acts, faults, fresh>>

-----------------------------------------------------------------------------
User(t) ==
    \/ \E h \in Hotels : OpenMain(t, h)
    \/ OpenCart(t)
    \/ OpenGoods(t)
    \/ \E w \in Wares, n \in Entries : AddToCart(t, w, n) \/ UpdateCount(t, w, n)
    \/ \E w \in Wares : DeleteWare(t, w) \/ Tick(t, w)
    \/ SubmitOrder(t)

Server(c) ==
    \/ InsertOrder(c)
    \/ \E w \in Wares : InsertLine(c, w)
    \/ GetCart(c)
    \/ PutCart(c)

Next ==
    \/ \E t \in Tabs : User(t)
    \/ \E c \in Calls : Server(c) \/ CutOff(c) \/ Answer(c) \/ LoseAnswer(c) \/ DropAnswer(c)

\* The server goes on with its requests and answers arrive. The user need not
\* do anything, and nothing need fail.
Fairness == \A c \in Calls : WF_vars(Server(c)) /\ WF_vars(Answer(c))

Spec == Init /\ [][Next]_vars
FairSpec == Spec /\ Fairness

-----------------------------------------------------------------------------
(* Properties.                                                             *)

Lines(c) == IF calls[c].order = 0 THEN {} ELSE orders[calls[c].order].lines

\* An order that nothing interfered with, at work or broken off at any point,
\* moves its goods: a ware is in the cart in the ordered count until it has a
\* line, and no longer in the cart afterwards, but for the ware in hand. So a
\* failure loses nothing, and at most one ware is both ordered and still there.
\* (saveOrder's insert before deleteShoppingCartForWareId.)
OrderMoves ==
    \A c \in Calls : calls[c] # Idle /\ calls[c].op = "order" /\ c \notin disturbed =>
        \A w \in Listed(calls[c].want) :
            LET n == NumsOf(cart[thisHotel])[w]
            IN IF w \notin Lines(c) THEN n = calls[c].want[w]
               ELSE n = 0 \/ (w = calls[c].ware /\ calls[c].pc \notin {"line", "ok"})

\* A cart page that alone has changed its cart, one call at a time and without
\* a failed one, shows what redis holds whenever it waits for no answer.
PageShowsCart ==
    \A t \in fresh : page[t].at = "cart" /\ ~Waiting(t) =>
        page[t].rows = NumsOf(cart[thisHotel])

\* The calls that a page sent and locked itself for.
Submitting(t) == {c \in Calls :
    calls[c] # Idle /\ calls[c].tab = t /\ calls[c].from = "here" /\ calls[c].op \in {"add", "order"}}

\* A page is locked exactly while one such call of it is under way: it never
\* has two of them, and no page keeps a lock whose call is over. A callback
\* that is late, of a page the tab has left, does not open the page it finds.
\* (submitLock and adding: set before the call, given back by its callbacks.)
LockHasCall ==
    \A t \in Tabs : IF t \in locked THEN \E c \in Calls : Submitting(t) = {c}
                     ELSE Submitting(t) = {}

\* A page that has locked itself is not locked for ever.
LockReleased == \A t \in Tabs : t \in locked ~> t \notin locked

\* The address above the cart is that of the hotel the order is for.
ShippedToShown == \A i \in DOMAIN orders : orders[i].hotel = orders[i].shown
=============================================================================
