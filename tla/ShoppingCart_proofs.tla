------------------------ MODULE ShoppingCart_proofs ------------------------
(***************************************************************************)
(* Proofs about ShoppingCart, for every value of its constants.            *)
(***************************************************************************)
EXTENDS ShoppingCart, SequenceTheorems, TLAPS

USE EntriesAssumption, BoundsAssumption, CartFaultKindsAssumption,
    CartNullsAssumption

-----------------------------------------------------------------------------
(* Types.                                                                  *)

LEMMA NoneType == None \in Nums
  BY DEF None, Nums

LEMMA GoodsPageType ==
    ASSUME NEW h \in Hotels PROVE GoodsPage(h) \in Page
  BY NoneType DEF GoodsPage, Page

LEMMA NumsOfType ==
    ASSUME NEW k \in Cart \cup {NoCart} PROVE NumsOf(k) \in Nums
  BY NoneType DEF NumsOf, Cart

\* What a call puts back is a cart.
LEMMA StoredType ==
    ASSUME TypeOK, NEW c \in Calls, calls[c] # Idle
    PROVE  /\ Changed(c) \in Nums
           /\ Stored(c) \in Cart \cup {NoCart}
  <1> DEFINE k == calls[c].copy
             w == calls[c].ware
             op == calls[c].op
             n == calls[c].want[w]
             nums == NumsOf(k)
  <1>1. calls[c] \in Call
    BY DEF TypeOK
  <1>2. k \in Cart \cup {NoCart} /\ w \in Wares /\ n \in Nat
    BY <1>1 DEF Call, Nums
  <1>3. nums \in [Wares -> Nat]
    BY <1>2, NumsOfType DEF Nums
  <1>4. NewCount(op, nums[w], n) \in Nat
    BY <1>2, <1>3 DEF NewCount
  <1>5. Changed(c) = [nums EXCEPT ![w] = NewCount(op, nums[w], n)]
    BY DEF Changed
  <1>6. Changed(c) \in Nums
    BY <1>2, <1>3, <1>4, <1>5 DEF Nums
  <1>7. thisHotel \in Hotels
    BY DEF TypeOK
  <1>8. k # NoCart => k.hotel \in Hotels
    BY <1>2 DEF Cart
  <1>9. QED
    BY <1>6, <1>7, <1>8 DEF Stored, Cart

LEMMA WantedType ==
    ASSUME TypeOK, NEW t \in Tabs PROVE Wanted(t) \in Nums
  <1>1. page[t].rows \in [Wares -> Nat]
    BY DEF TypeOK, Page, Nums
  <1>2. QED
    BY <1>1 DEF Wanted, Nums

LEMMA OnlyType ==
    ASSUME NEW w \in Wares, NEW n \in Entries PROVE Only(w, n) \in Nums
  BY NoneType DEF Only, Nums

\* A page change and the leaving of a page keep the types.
LEMMA ShowType ==
    ASSUME TypeOK, NEW t \in Tabs, NEW p \in Page, Show(t, p)
    PROVE  page' \in [Tabs -> Page] /\ locked' \in SUBSET Tabs
  BY DEF TypeOK, Show

LEMMA LeaveType ==
    ASSUME NEW cs \in [Calls -> Call \cup {Idle}], NEW t \in Tabs,
           NEW from \in {"left", "gone"}
    PROVE  Leave(cs, t, from) \in [Calls -> Call \cup {Idle}]
  <1>1. ASSUME NEW c \in Calls, cs[c] # Idle
        PROVE  [cs[c] EXCEPT !.from = from] \in Call
    <2>1. cs[c] \in Call
      BY <1>1
    <2>2. QED
      BY <2>1 DEF Call
  <1>2. QED
    BY <1>1 DEF Leave

LEMMA SendType ==
    ASSUME TypeOK, NEW t \in Tabs, NEW op \in {"add", "count", "delete", "order"},
           NEW pc \in Steps, NEW w \in Wares, NEW want \in Nums, NEW stale,
           Send(t, op, pc, w, want, stale)
    PROVE  /\ cart' \in [Hotels -> Cart \cup {NoCart}]
           /\ orders' \in Seq(Order)
           /\ thisHotel' \in Hotels
           /\ calls' \in [Calls -> Call \cup {Idle}]
           /\ acts' \in 0..MaxActs
           /\ faults' \in 0..MaxFaults
           /\ disturbed' \in SUBSET Calls
           /\ fresh' \in SUBSET Tabs
  <1> DEFINE new == [op |-> op, tab |-> t, from |-> "here", pc |-> pc,
                     hotel |-> page[t].hotel, shown |-> page[t].shown,
                     want |-> want, ware |-> w, copy |-> NoCart, order |-> 0]
  <1>1. page[t].hotel \in Hotels /\ page[t].shown \in Hotels
    BY DEF TypeOK, Page
  <1>2. new \in Call
    BY <1>1 DEF Call
  <1>3. PICK c \in Calls :
            /\ calls' = [calls EXCEPT ![c] = new]
            /\ disturbed' = IF stale THEN disturbed \cup {c} ELSE disturbed
    BY DEF Send
  <1> HIDE DEF new
  <1>4. calls' \in [Calls -> Call \cup {Idle}]
    BY <1>2, <1>3 DEF TypeOK
  <1>5. acts' \in 0..MaxActs
    BY DEF TypeOK, Send, Act
  <1>6. QED
    BY <1>3, <1>4, <1>5 DEF TypeOK, Send, store

LEMMA InitType == Init => TypeOK
  <1> SUFFICES ASSUME Init PROVE TypeOK
    OBVIOUS
  <1>1. PICK nums \in [Hotels -> [Wares -> Entries \cup {0}]] :
            cart = [h \in Hotels |-> IF nums[h] = None THEN NoCart
                                     ELSE [hotel |-> h, nums |-> nums[h]]]
    BY DEF Init
  <1>2. ASSUME NEW h \in Hotels PROVE [hotel |-> h, nums |-> nums[h]] \in Cart
    <2>1. nums[h] \in [Wares -> Entries \cup {0}]
      OBVIOUS
    <2>2. \A w \in Wares : nums[h][w] \in Nat
      <3>1. Entries \cup {0} \subseteq Nat
        BY EntriesAssumption
      <3>2. QED
        BY <2>1, <3>1
    <2>3. nums[h] \in [Wares -> Nat]
      BY <2>1, <2>2
    <2>4. QED
      BY <2>3 DEF Cart, Nums
  <1>3. cart \in [Hotels -> Cart \cup {NoCart}]
    BY <1>1, <1>2
  <1>4. thisHotel \in Hotels /\ page \in [Tabs -> Page]
    BY GoodsPageType DEF Init
  <1>5. QED
    BY <1>3, <1>4 DEF Init, TypeOK

\* The steps of the user.
LEMMA UserType ==
    ASSUME TypeOK, NEW t \in Tabs, User(t) PROVE TypeOK'
  <1>1. ASSUME NEW h \in Hotels, OpenMain(t, h) PROVE TypeOK'
    <2>1. page' \in [Tabs -> Page] /\ locked' \in SUBSET Tabs
      BY <1>1, GoodsPageType, ShowType DEF OpenMain
    <2>2. calls' \in [Calls -> Call \cup {Idle}]
      BY <1>1, LeaveType DEF OpenMain, TypeOK
    <2>3. acts' \in 0..MaxActs
      BY <1>1 DEF OpenMain, Act, TypeOK
    <2>4. QED
      BY <1>1, <2>1, <2>2, <2>3 DEF OpenMain, TypeOK, store, Ordering
  <1>2. CASE OpenCart(t)
    <2> DEFINE p == [at |-> "cart", shown |-> page[t].shown,
                     hotel |-> cart[thisHotel].hotel, rows |-> cart[thisHotel].nums,
                     ticked |-> Listed(cart[thisHotel].nums)]
    <2>1. cart[thisHotel] \in Cart /\ page[t].shown \in Hotels
      BY <1>2 DEF OpenCart, TypeOK, Page
    <2>2. p \in Page
      BY <2>1 DEF Page, Cart, Listed
    <2>3. page' \in [Tabs -> Page] /\ locked' \in SUBSET Tabs
      BY <1>2, <2>2, ShowType DEF OpenCart
    <2>4. calls' \in [Calls -> Call \cup {Idle}]
      BY <1>2, LeaveType DEF OpenCart, TypeOK
    <2>5. QED
      BY <1>2, <2>3, <2>4 DEF OpenCart, TypeOK, store
  <1>3. CASE OpenGoods(t)
    <2>1. page[t].shown \in Hotels
      BY DEF TypeOK, Page
    <2>2. page' \in [Tabs -> Page] /\ locked' \in SUBSET Tabs
      BY <1>3, <2>1, GoodsPageType, ShowType DEF OpenGoods
    <2>3. calls' \in [Calls -> Call \cup {Idle}]
      BY <1>3, LeaveType DEF OpenGoods, TypeOK
    <2>4. QED
      BY <1>3, <2>2, <2>3 DEF OpenGoods, TypeOK, store
  <1>4. ASSUME NEW w \in Wares, NEW n \in Entries, AddToCart(t, w, n) PROVE TypeOK'
    <2>1. Send(t, "add", "get", w, Only(w, n), FALSE)
      BY <1>4 DEF AddToCart
    <2>2. QED
      BY <1>4, <2>1, OnlyType, SendType DEF AddToCart, TypeOK, Steps
  <1>5. ASSUME NEW w \in Wares, NEW n \in Entries, UpdateCount(t, w, n) PROVE TypeOK'
    <2>1. Send(t, "count", "get", w, Only(w, n), FALSE)
      BY <1>5 DEF UpdateCount
    <2>2. [page[t].rows EXCEPT ![w] = n] \in Nums
      BY DEF TypeOK, Page, Nums
    <2>3. page' = [page EXCEPT ![t] = [page[t] EXCEPT !.rows = [page[t].rows EXCEPT ![w] = n]]]
      BY <1>5 DEF UpdateCount
    <2>4. page' \in [Tabs -> Page]
      BY <2>2, <2>3 DEF TypeOK, Page
    <2>5. QED
      BY <1>5, <2>1, <2>4, OnlyType, SendType DEF UpdateCount, TypeOK, Steps
  <1>6. ASSUME NEW w \in Wares, DeleteWare(t, w) PROVE TypeOK'
    <2>1. Send(t, "delete", "get", w, None, FALSE)
      BY <1>6 DEF DeleteWare
    <2>2. QED
      BY <1>6, <2>1, NoneType, SendType DEF DeleteWare, TypeOK, Steps, browser
  <1>7. ASSUME NEW w \in Wares, Tick(t, w) PROVE TypeOK'
    <2>1. page' \in [Tabs -> Page]
      BY <1>7 DEF Tick, TypeOK, Page
    <2>2. acts' \in 0..MaxActs
      BY <1>7 DEF Tick, Act, TypeOK
    <2>3. QED
      BY <1>7, <2>1, <2>2 DEF Tick, TypeOK, store, history
  <1>8. CASE SubmitOrder(t)
    <2>1. PICK w \in Wares : Send(t, "order", "insert", w, Wanted(t), Stale(t))
      BY <1>8 DEF SubmitOrder, Listed
    <2>2. Wanted(t) \in Nums
      BY WantedType
    <2>3. QED
      BY <1>8, <2>1, <2>2, SendType DEF SubmitOrder, TypeOK, Steps
  <1>9. QED
    BY <1>1, <1>2, <1>3, <1>4, <1>5, <1>6, <1>7, <1>8 DEF User

\* A call whose row keeps its types.
LEMMA StepType ==
    ASSUME TypeOK, NEW c \in Calls, calls[c] # Idle,
           NEW pc \in Steps \cup Answers
    PROVE  [calls EXCEPT ![c].pc = pc] \in [Calls -> Call \cup {Idle}]
  <1>1. calls[c] \in Call
    BY DEF TypeOK
  <1>2. [calls[c] EXCEPT !.pc = pc] \in Call
    BY <1>1 DEF Call
  <1>3. QED
    BY <1>2 DEF TypeOK

LEMMA RemainingType ==
    ASSUME TypeOK, NEW c \in Calls PROVE AfterDeletion(c) \in Steps \cup Answers
  BY DEF AfterDeletion, Steps, Answers

\* The steps of the server.
LEMMA ServerType ==
    ASSUME TypeOK, NEW c \in Calls, Server(c) PROVE TypeOK'
  <1>0. calls[c] # Idle /\ calls[c] \in Call
    BY DEF Server, InsertOrder, InsertLine, GetCart, PutCart, At, TypeOK
  <1>1. CASE InsertOrder(c)
    <2> DEFINE o == [hotel |-> calls[c].hotel, shown |-> calls[c].shown,
                     want |-> calls[c].want, lines |-> {}]
    <2>1. o \in Order
      BY <1>0 DEF Call, Order
    <2> HIDE DEF o
    <2>2. orders' = Append(orders, o)
      BY <1>1 DEF InsertOrder, o
    <2>3. orders' \in Seq(Order)
      BY <2>1, <2>2 DEF TypeOK
    <2>4. Len(orders) + 1 \in Nat
      BY DEF TypeOK
    <2>5. [calls[c] EXCEPT !.order = Len(orders) + 1, !.pc = "line"] \in Call
      BY <1>0, <2>4 DEF Call, Steps
    <2>6. calls' = [calls EXCEPT ![c] =
                        [calls[c] EXCEPT !.order = Len(orders) + 1, !.pc = "line"]]
      BY <1>1 DEF InsertOrder
    <2>7. calls' \in [Calls -> Call \cup {Idle}]
      BY <2>5, <2>6 DEF TypeOK
    <2>8. QED
      BY <1>1, <2>3, <2>7 DEF InsertOrder, TypeOK, browser, history
  <1>2. ASSUME NEW w \in Wares, InsertLine(c, w) PROVE TypeOK'
    <2> DEFINE i == calls[c].order
               o == [orders[i] EXCEPT !.lines = @ \cup {w}]
    <2>1. orders' = [orders EXCEPT ![i] = o]
      BY <1>2 DEF InsertLine
    <2>2. i \in 1..Len(orders) => orders[i] \in Order
      BY DEF TypeOK
    <2>3. i \in 1..Len(orders) => o \in Order
      BY <2>2 DEF Order
    <2> HIDE DEF o
    <2>4. orders' \in Seq(Order)
      <3>1. orders \in Seq(Order)
        BY DEF TypeOK
      <3>2. CASE i \in 1..Len(orders)
        BY <2>1, <2>3, <3>1, <3>2, ExceptSeq
      <3>3. CASE i \notin 1..Len(orders)
        <4>1. orders \in [1..Len(orders) -> Order]
          BY <3>1
        <4>2. orders' = orders
          BY <2>1, <3>3, <4>1, Zenon
        <4>3. QED
          BY <3>1, <4>2
      <3>4. QED
        BY <3>2, <3>3
    <2>5. [calls[c] EXCEPT !.ware = w, !.pc = "get"] \in Call
      BY <1>0 DEF Call, Steps
    <2>6. calls' = [calls EXCEPT ![c] = [calls[c] EXCEPT !.ware = w, !.pc = "get"]]
      BY <1>2 DEF InsertLine
    <2>7. calls' \in [Calls -> Call \cup {Idle}]
      BY <2>5, <2>6 DEF TypeOK
    <2>8. QED
      BY <1>2, <2>4, <2>7 DEF InsertLine, TypeOK, browser, history
  <1>3. CASE GetCart(c)
    <2>1. [calls[c] EXCEPT !.copy = cart[thisHotel], !.pc = "put"] \in Call
      BY <1>0 DEF Call, TypeOK, Steps
    <2>2. [calls EXCEPT ![c].copy = cart[thisHotel], ![c].pc = "put"] =
          [calls EXCEPT ![c] = [calls[c] EXCEPT !.copy = cart[thisHotel], !.pc = "put"]]
      OBVIOUS
    <2>3. [calls EXCEPT ![c].copy = cart[thisHotel], ![c].pc = "put"]
              \in [Calls -> Call \cup {Idle}]
      BY <2>1, <2>2 DEF TypeOK
    <2>4. calls' \in [Calls -> Call \cup {Idle}]
      <3>1. "no" \in Steps \cup Answers
        BY DEF Answers
      <3>2. CASE Goto(c, "no")
        BY <1>0, <3>1, <3>2, StepType DEF Goto
      <3>3. CASE Goto(c, AfterDeletion(c))
        BY <1>0, <3>3, StepType, RemainingType DEF Goto
      <3>4. QED
        BY <1>3, <2>3, <3>2, <3>3 DEF GetCart
    <2>5. QED
      BY <1>3, <2>4 DEF GetCart, TypeOK, store, browser, history
  <1>4. CASE PutCart(c)
    <2> DEFINE pc == AfterDeletion(c)
    <2>1. cart' \in [Hotels -> Cart \cup {NoCart}]
      BY <1>0, <1>4, StoredType DEF PutCart, TypeOK
    <2>2. pc \in Steps \cup Answers
      BY RemainingType
    <2>3. calls' = [calls EXCEPT ![c] = [calls[c] EXCEPT !.copy = NoCart, !.pc = pc]]
      BY <1>4 DEF PutCart
    <2> HIDE DEF pc
    <2>4. [calls[c] EXCEPT !.copy = NoCart, !.pc = pc] \in Call
      BY <1>0, <2>2 DEF Call
    <2>5. calls' \in [Calls -> Call \cup {Idle}]
      BY <2>3, <2>4 DEF TypeOK
    <2>6. QED
      BY <1>4, <2>1, <2>5 DEF PutCart, TypeOK, browser, Ordering
  <1>5. QED
    BY <1>1, <1>2, <1>3, <1>4 DEF Server

\* The answers.
LEMMA EndedType ==
    ASSUME TypeOK, NEW c \in Calls PROVE Ended(c) \in [Calls -> Call \cup {Idle}]
  BY DEF Ended, TypeOK

LEMMA FailedType ==
    ASSUME TypeOK, NEW c \in Calls, Failed(c)
    PROVE  page' \in [Tabs -> Page] /\ locked' \in SUBSET Tabs
  BY DEF TypeOK, Failed

LEMMA GoToType ==
    ASSUME TypeOK, NEW c \in Calls, calls[c] # Idle, NEW p \in Page, GoTo(c, p)
    PROVE  /\ page' \in [Tabs -> Page] /\ locked' \in SUBSET Tabs
           /\ calls' \in [Calls -> Call \cup {Idle}]
  <1>1. calls[c].tab \in Tabs
    BY DEF TypeOK, Call
  <1>2. page' \in [Tabs -> Page] /\ locked' \in SUBSET Tabs
    BY <1>1, ShowType DEF GoTo
  <1>3. calls' \in [Calls -> Call \cup {Idle}]
    BY <1>1, EndedType, LeaveType DEF GoTo
  <1>4. QED
    BY <1>2, <1>3

LEMMA AnswerType ==
    ASSUME TypeOK, NEW c \in Calls, Answer(c) PROVE TypeOK'
  <1> DEFINE t == calls[c].tab
  <1>0. calls[c] # Idle /\ calls[c] \in Call /\ t \in Tabs
    BY DEF Answer, TypeOK, Call
  <1>1. page[t] \in Page /\ page[t].shown \in Hotels
    BY <1>0 DEF TypeOK, Page
  <1> DEFINE New == /\ page' \in [Tabs -> Page] /\ locked' \in SUBSET Tabs
                    /\ calls' \in [Calls -> Call \cup {Idle}]
  <1>2. CASE AnswerOrder(c)
    <2>1. [GoodsPage(page[t].shown) EXCEPT !.at = "orders"] \in Page
      BY <1>1, GoodsPageType DEF Page
    <2>2. New
      BY <1>0, <1>2, <2>1, GoToType DEF AnswerOrder
    <2>3. QED
      BY <2>2 DEF Answer, TypeOK, store
  <1>3. CASE AnswerAdd(c)
    <2>1. GoodsPage(page[t].shown) \in Page
      BY <1>1, GoodsPageType
    <2>2. New
      BY <1>0, <1>3, <2>1, GoToType, FailedType, EndedType DEF AnswerAdd
    <2>3. QED
      BY <2>2 DEF Answer, TypeOK, store
  <1>4. CASE AnswerDelete(c)
    <2>1. [page[t].rows EXCEPT ![calls[c].ware] = 0] \in Nums
      BY <1>0, <1>1 DEF Page, Nums, Call
    <2>2. [page EXCEPT ![t].rows[calls[c].ware] = 0] =
          [page EXCEPT ![t] = [page[t] EXCEPT !.rows =
              [page[t].rows EXCEPT ![calls[c].ware] = 0]]]
      OBVIOUS
    <2>3. [page EXCEPT ![t].rows[calls[c].ware] = 0] \in [Tabs -> Page]
      BY <1>0, <1>1, <2>1, <2>2 DEF TypeOK, Page
    <2>4. New
      BY <1>4, <2>3, EndedType DEF AnswerDelete, TypeOK
    <2>5. QED
      BY <2>4 DEF Answer, TypeOK, store
  <1>5. CASE AnswerCount(c)
    <2>1. New
      BY <1>5, EndedType DEF AnswerCount, TypeOK, browser
    <2>2. QED
      BY <2>1 DEF Answer, TypeOK, store
  <1>6. CASE calls[c].pc = "error" /\ Failed(c) /\ calls' = Ended(c)
    <2>1. New
      BY <1>6, FailedType, EndedType
    <2>2. QED
      BY <2>1 DEF Answer, TypeOK, store
  <1>7. QED
    BY <1>2, <1>3, <1>4, <1>5, <1>6 DEF Answer

LEMMA TypeStep == TypeOK /\ [Next]_vars => TypeOK'
  <1> SUFFICES ASSUME TypeOK, [Next]_vars PROVE TypeOK'
    OBVIOUS
  <1>1. ASSUME NEW t \in Tabs, User(t) PROVE TypeOK'
    BY <1>1, UserType
  <1>2. ASSUME NEW c \in Calls, Server(c) PROVE TypeOK'
    BY <1>2, ServerType
  <1>3. ASSUME NEW c \in Calls, CutOff(c) PROVE TypeOK'
    <2>1. "no" \in Steps \cup Answers /\ "error" \in Steps \cup Answers
      BY DEF Answers
    <2>2. calls[c] # Idle
      BY <1>3 DEF CutOff, Running
    <2>3. calls' \in [Calls -> Call \cup {Idle}]
      <3>1. CASE Goto(c, "no")
        BY <2>1, <2>2, <3>1, StepType DEF Goto
      <3>2. CASE Goto(c, "error")
        BY <2>1, <2>2, <3>2, StepType DEF Goto
      <3>3. QED
        BY <1>3, <3>1, <3>2 DEF CutOff
    <2>4. faults' \in 0..MaxFaults
      BY <1>3 DEF CutOff, Fault, TypeOK
    <2>5. QED
      BY <1>3, <2>3, <2>4 DEF CutOff, TypeOK, store, browser
  <1>4. ASSUME NEW c \in Calls, Answer(c) PROVE TypeOK'
    BY <1>4, AnswerType
  <1>5. ASSUME NEW c \in Calls, LoseAnswer(c) PROVE TypeOK'
    <2>1. page' \in [Tabs -> Page] /\ locked' \in SUBSET Tabs
      BY <1>5, FailedType DEF LoseAnswer
    <2>2. calls[c] \in Call
      BY <1>5 DEF LoseAnswer, TypeOK
    <2>3. [calls[c] EXCEPT !.from = "gone"] \in Call
      BY <2>2 DEF Call
    <2>4. calls' \in [Calls -> Call \cup {Idle}]
      BY <1>5, <2>3 DEF LoseAnswer, TypeOK
    <2>5. faults' \in 0..MaxFaults
      BY <1>5 DEF LoseAnswer, Fault, TypeOK
    <2>6. QED
      BY <1>5, <2>1, <2>4, <2>5 DEF LoseAnswer, TypeOK, store
  <1>6. ASSUME NEW c \in Calls, DropAnswer(c) PROVE TypeOK'
    BY <1>6, EndedType DEF DropAnswer, TypeOK, store, browser
  <1>7. CASE UNCHANGED vars
    BY <1>7 DEF TypeOK, vars, store, browser, history
  <1>8. QED
    BY <1>1, <1>2, <1>3, <1>4, <1>5, <1>6, <1>7 DEF Next

\* Every reachable state of the shop is well typed.
THEOREM ShopTypeOK == Spec => []TypeOK
  BY InitType, TypeStep, PTL DEF Spec

-----------------------------------------------------------------------------
(* Orders.  A call that writes an order is the only one that writes it, and *)
(* while nothing disturbs it, what it holds of the cart is what redis holds *)
(* and the ware in hand has its line and is still in the cart.              *)

Shape(c) ==
    calls[c] # Idle =>
        /\ calls[c].pc \in {"insert", "line"} => calls[c].op = "order"
        /\ calls[c].op = "order" =>
               /\ calls[c].order \in 0..Len(orders)
               /\ calls[c].pc = "insert" => calls[c].order = 0
               /\ calls[c].pc \in {"line", "get", "put", "ok"} => calls[c].order # 0

OneWriter ==
    \A c, d \in Ordering : c # d /\ calls[c].order # 0 => calls[c].order # calls[d].order

InCart(w) == NumsOf(cart[thisHotel])[w]

GoodsMove(c) ==
    \A w \in Listed(calls[c].want) :
        IF w \notin Lines(c) THEN InCart(w) = calls[c].want[w]
        ELSE InCart(w) = 0 \/ (w = calls[c].ware /\ calls[c].pc \notin {"line", "ok"})

InHand(c) ==
    /\ calls[c].pc \in {"get", "put"} =>
           /\ calls[c].ware \in Lines(c) \cap Listed(calls[c].want)
           /\ InCart(calls[c].ware) = calls[c].want[calls[c].ware]
    /\ calls[c].pc = "put" => calls[c].copy = cart[thisHotel]

Shapes == OneWriter /\ \A c \in Calls : Shape(c)
Moving == \A c \in Ordering \ disturbed : GoodsMove(c) /\ InHand(c)

\* The inductive invariant of OrderMoves.
MoveInv == TypeOK /\ Shapes /\ Moving

LEMMA MovingMoves == MoveInv => OrderMoves
  BY DEF MoveInv, Moving, Ordering, GoodsMove, InCart, OrderMoves

\* A call goes on as it was, or has failed.
Keeps(c) ==
    /\ calls[c] # Idle
    /\ calls'[c].op = calls[c].op /\ calls'[c].want = calls[c].want
    /\ calls'[c].ware = calls[c].ware /\ calls'[c].copy = calls[c].copy
    /\ calls'[c].order = calls[c].order
    /\ calls'[c].pc = calls[c].pc \/ calls'[c].pc \in {"no", "error"}

\* No call does anything to an order.
KeepCalls ==
    \A c \in Calls : calls'[c] # Idle =>
        Keeps(c) \/ (calls'[c].op # "order" /\ calls'[c].pc \notin {"insert", "line"})

LEMMA KeepShapes ==
    ASSUME Shapes, KeepCalls, UNCHANGED orders PROVE Shapes'
  <1>1. ASSUME NEW c \in Calls PROVE Shape(c)'
    BY DEF Shapes, Shape, KeepCalls, Keeps
  <1>2. ASSUME NEW c \in Ordering' PROVE c \in Ordering /\ calls'[c].order = calls[c].order
    BY <1>2 DEF Ordering, KeepCalls, Keeps
  <1>3. OneWriter'
    BY <1>2 DEF Shapes, OneWriter
  <1>4. QED
    BY <1>1, <1>3 DEF Shapes

LEMMA KeepMoving ==
    ASSUME Moving, KeepCalls, UNCHANGED <<store, thisHotel>>,
           \A c \in Ordering' : c \in disturbed => c \in disturbed'
    PROVE  Moving'
  <1> SUFFICES ASSUME NEW c \in Ordering', c \notin disturbed'
               PROVE  GoodsMove(c)' /\ InHand(c)'
    BY DEF Moving
  <1>1. c \in Calls /\ Keeps(c)
    BY DEF Ordering, KeepCalls
  <1>2. c \in Ordering \ disturbed
    BY <1>1 DEF Ordering, Keeps
  <1>3. GoodsMove(c) /\ InHand(c)
    BY <1>2 DEF Moving
  <1>4. Lines(c)' = Lines(c)
    BY <1>1 DEF Lines, Keeps, store
  <1>5. \A w \in Wares : InCart(w)' = InCart(w)
    BY DEF InCart, store
  <1>6. Listed(calls[c].want)' = Listed(calls[c].want) /\ Listed(calls[c].want) \subseteq Wares
    BY <1>1 DEF Listed, Keeps
  <1>7. calls'[c].pc = calls[c].pc \/ calls'[c].pc \in {"no", "error"}
    BY <1>1 DEF Keeps
  <1>8. GoodsMove(c)'
    BY <1>1, <1>3, <1>4, <1>5, <1>6, <1>7 DEF GoodsMove, Keeps
  <1>9. InHand(c)'
    BY <1>1, <1>3, <1>4, <1>5, <1>6, <1>7 DEF InHand, Keeps, store
  <1>10. QED
    BY <1>8, <1>9

LEMMA KeepInv ==
    ASSUME MoveInv, [Next]_vars, KeepCalls, UNCHANGED <<store, thisHotel>>,
           \A c \in Ordering' : c \in disturbed => c \in disturbed'
    PROVE  MoveInv'
  BY TypeStep, KeepShapes, KeepMoving DEF MoveInv, store

\* Leaving a page changes only who waits for the answers.
LEMMA LeaveKeeps ==
    ASSUME NEW cs \in [Calls -> Call \cup {Idle}], NEW t \in Tabs, NEW from, NEW c \in Calls
    PROVE  LET new == Leave(cs, t, from)[c] IN
           /\ new = Idle \/ cs[c] # Idle
           /\ cs[c] # Idle =>
                  /\ new.op = cs[c].op /\ new.want = cs[c].want /\ new.ware = cs[c].ware
                  /\ new.copy = cs[c].copy /\ new.order = cs[c].order /\ new.pc = cs[c].pc
  <1>1. CASE cs[c] = Idle
    BY <1>1 DEF Leave
  <1>2. CASE cs[c] # Idle
    <2>1. cs[c] \in Call
      BY <1>2
    <2>2. Leave(cs, t, from)[c] = cs[c] \/ Leave(cs, t, from)[c] = [cs[c] EXCEPT !.from = from]
      BY DEF Leave
    <2>3. QED
      BY <1>2, <2>1, <2>2 DEF Call
  <1>3. QED
    BY <1>1, <1>2

LEMMA LeaveKeepCalls ==
    ASSUME TypeOK, NEW cs \in [Calls -> Call \cup {Idle}], NEW t \in Tabs, NEW from,
           \A c \in Calls : cs[c] = Idle \/ cs[c] = calls[c],
           calls' = Leave(cs, t, from)
    PROVE  KeepCalls
  <1> SUFFICES ASSUME NEW c \in Calls, calls'[c] # Idle PROVE Keeps(c)
    BY DEF KeepCalls
  <1>1. cs[c] # Idle /\ cs[c] = calls[c]
    BY LeaveKeeps
  <1>2. QED
    BY <1>1, LeaveKeeps DEF Keeps

\* A call is sent: no other is touched.
LEMMA SendCalls ==
    ASSUME TypeOK, NEW t \in Tabs, NEW op, NEW pc, NEW w, NEW want, NEW stale,
           Send(t, op, pc, w, want, stale)
    PROVE  \E c \in Calls :
               /\ calls[c] = Idle
               /\ calls'[c].op = op /\ calls'[c].pc = pc /\ calls'[c].want = want
               /\ calls'[c].order = 0
               /\ \A d \in Calls \ {c} : calls'[d] = calls[d]
               /\ disturbed' = IF stale THEN disturbed \cup {c} ELSE disturbed
  <1> DEFINE new == [op |-> op, tab |-> t, from |-> "here", pc |-> pc,
                     hotel |-> page[t].hotel, shown |-> page[t].shown,
                     want |-> want, ware |-> w, copy |-> NoCart, order |-> 0]
  <1>1. PICK c \in Calls :
            /\ calls[c] = Idle
            /\ calls' = [calls EXCEPT ![c] = new]
            /\ disturbed' = IF stale THEN disturbed \cup {c} ELSE disturbed
    BY DEF Send
  <1>2. calls'[c] = new
    BY <1>1 DEF TypeOK
  <1>3. new.op = op /\ new.pc = pc /\ new.want = want /\ new.order = 0
    OBVIOUS
  <1> HIDE DEF new
  <1>4. \A d \in Calls \ {c} : calls'[d] = calls[d]
    BY <1>1 DEF TypeOK
  <1>5. QED
    BY <1>1, <1>2, <1>3, <1>4

\* Calls that are not orders.
LEMMA SendOther ==
    ASSUME MoveInv, [Next]_vars, NEW t \in Tabs, NEW op \in {"add", "count", "delete"},
           NEW w, NEW want, Send(t, op, "get", w, want, FALSE)
    PROVE  MoveInv'
  <1>0. TypeOK
    BY DEF MoveInv
  <1>1. PICK c \in Calls :
            /\ calls[c] = Idle
            /\ calls'[c].op = op /\ calls'[c].pc = "get" /\ calls'[c].want = want
            /\ calls'[c].order = 0
            /\ \A d \in Calls \ {c} : calls'[d] = calls[d]
            /\ disturbed' = IF FALSE THEN disturbed \cup {c} ELSE disturbed
    BY <1>0, SendCalls, Zenon
  <1>2. KeepCalls
    BY <1>1 DEF KeepCalls, Keeps
  <1>3. UNCHANGED <<store, thisHotel>>
    BY DEF Send
  <1>4. QED
    BY <1>1, <1>2, <1>3, KeepInv

LEMMA SubmitMove ==
    ASSUME MoveInv, [Next]_vars, NEW t \in Tabs, SubmitOrder(t) PROVE MoveInv'
  <1>1. PICK w : Send(t, "order", "insert", w, Wanted(t), Stale(t))
    BY DEF SubmitOrder
  <1>2. UNCHANGED <<store, thisHotel>>
    BY <1>1 DEF Send
  <1>3. PICK c \in Calls :
            /\ calls[c] = Idle
            /\ calls'[c].op = "order" /\ calls'[c].pc = "insert"
            /\ calls'[c].want = Wanted(t) /\ calls'[c].order = 0
            /\ \A d \in Calls \ {c} : calls'[d] = calls[d]
            /\ disturbed' = IF Stale(t) THEN disturbed \cup {c} ELSE disturbed
    BY <1>1, SendCalls DEF MoveInv
  <1>4. TypeOK'
    BY TypeStep DEF MoveInv
  <1>5. Shapes'
    <2>1. ASSUME NEW d \in Calls PROVE Shape(d)'
      <3>1. CASE d = c
        <4>1. Len(orders) \in Nat
          BY DEF MoveInv, TypeOK
        <4>2. QED
          BY <1>2, <1>3, <3>1, <4>1 DEF Shape, store
      <3>2. CASE d # c
        BY <1>2, <1>3, <3>2 DEF Shape, store, MoveInv, Shapes
      <3>3. QED
        BY <3>1, <3>2
    <2>2. OneWriter'
      BY <1>3 DEF OneWriter, Ordering, MoveInv, Shapes
    <2>3. QED
      BY <2>1, <2>2 DEF Shapes
  <1>6. Moving'
    <2> SUFFICES ASSUME NEW d \in Ordering', d \notin disturbed'
                 PROVE  GoodsMove(d)' /\ InHand(d)'
      BY DEF Moving
    <2>1. CASE d = c
      <3>1. ~Stale(t)
        BY <1>3, <2>1
      <3>2. Lines(d)' = {}
        BY <1>3, <2>1 DEF Lines
      <3>3. \A x \in Listed(Wanted(t)) : InCart(x)' = Wanted(t)[x]
        BY <1>2, <3>1 DEF Stale, InCart, store
      <3>4. calls'[d].want = Wanted(t) /\ Listed(calls[d].want)' = Listed(Wanted(t))
        BY <1>3, <2>1 DEF Listed
      <3>5. GoodsMove(d)'
        BY <3>2, <3>3, <3>4 DEF GoodsMove
      <3>6. InHand(d)'
        BY <1>3, <2>1 DEF InHand
      <3>7. QED
        BY <3>5, <3>6
    <2>2. CASE d # c
      <3>1. calls'[d] = calls[d] /\ d \in Ordering \ disturbed
        BY <1>3, <2>2 DEF Ordering
      <3>2. GoodsMove(d) /\ InHand(d)
        BY <3>1 DEF MoveInv, Moving
      <3>3. QED
        BY <1>2, <3>1, <3>2 DEF GoodsMove, InHand, InCart, Lines, Listed, store
    <2>3. QED
      BY <2>1, <2>2
  <1>7. QED
    BY <1>4, <1>5, <1>6 DEF MoveInv

LEMMA UserMove ==
    ASSUME MoveInv, [Next]_vars, NEW t \in Tabs, User(t) PROVE MoveInv'
  <1>0. TypeOK /\ calls \in [Calls -> Call \cup {Idle}]
    BY DEF MoveInv, TypeOK
  <1>1. ASSUME NEW h \in Hotels, OpenMain(t, h) PROVE MoveInv'
    <2>1. KeepCalls
      BY <1>0, <1>1, LeaveKeepCalls DEF OpenMain
    <2>2. CASE h = thisHotel
      BY <1>1, <2>1, <2>2, KeepInv DEF OpenMain
    <2>3. CASE h # thisHotel
      <3>1. disturbed' = Ordering /\ UNCHANGED store
        BY <1>1, <2>3 DEF OpenMain
      <3>2. \A c \in Ordering' : c \in Ordering
        BY <2>1 DEF KeepCalls, Keeps, Ordering
      <3>3. Moving'
        BY <3>1, <3>2 DEF Moving
      <3>4. Shapes'
        BY <2>1, <3>1, KeepShapes DEF MoveInv, store
      <3>5. QED
        BY <3>3, <3>4, TypeStep DEF MoveInv
    <2>4. QED
      BY <2>2, <2>3
  <1>2. CASE OpenCart(t)
    <2>1. KeepCalls
      BY <1>0, <1>2, LeaveKeepCalls DEF OpenCart
    <2>2. QED
      BY <1>2, <2>1, KeepInv DEF OpenCart
  <1>3. CASE OpenGoods(t)
    <2>1. KeepCalls
      BY <1>0, <1>3, LeaveKeepCalls DEF OpenGoods
    <2>2. QED
      BY <1>3, <2>1, KeepInv DEF OpenGoods
  <1>4. ASSUME NEW w \in Wares, NEW n \in Entries, AddToCart(t, w, n) PROVE MoveInv'
    BY <1>4, SendOther DEF AddToCart
  <1>5. ASSUME NEW w \in Wares, NEW n \in Entries, UpdateCount(t, w, n) PROVE MoveInv'
    BY <1>5, SendOther DEF UpdateCount
  <1>6. ASSUME NEW w \in Wares, DeleteWare(t, w) PROVE MoveInv'
    BY <1>6, SendOther DEF DeleteWare
  <1>7. ASSUME NEW w \in Wares, Tick(t, w) PROVE MoveInv'
    <2>1. KeepCalls
      BY <1>7 DEF Tick, KeepCalls, Keeps
    <2>2. QED
      BY <1>7, <2>1, KeepInv DEF Tick, history
  <1>8. CASE SubmitOrder(t)
    BY <1>8, SubmitMove
  <1>9. QED
    BY <1>1, <1>2, <1>3, <1>4, <1>5, <1>6, <1>7, <1>8 DEF User

-----------------------------------------------------------------------------
(* The steps of the server: one call goes on, the others stay.             *)

\* Calls other than c stay, and so do the lines of their orders.
Stay(c) ==
    /\ \A d \in Calls \ {c} : calls'[d] = calls[d]
    /\ \A d \in Ordering \ {c} : Lines(d)' = Lines(d)
    /\ Len(orders) \in Nat /\ Len(orders') \in Nat /\ Len(orders) <= Len(orders')

LEMMA StayShapes ==
    ASSUME Shapes, NEW c \in Calls, Stay(c), Shape(c)',
           \A d \in Ordering : d # c /\ c \in Ordering' /\ calls'[c].order # 0
                   => calls[d].order # calls'[c].order
    PROVE  Shapes'
  <1>1. ASSUME NEW d \in Calls, d # c PROVE Shape(d)'
    <2>1. calls'[d] = calls[d] /\ Shape(d)
      BY <1>1 DEF Stay, Shapes
    <2>2. calls[d].order \in 0..Len(orders) => calls[d].order \in 0..Len(orders')
      BY DEF Stay
    <2>3. QED
      BY <2>1, <2>2 DEF Shape
  <1>2. \A d \in Calls : d # c => calls'[d] = calls[d]
    BY DEF Stay
  <1>3. \A d, e \in Ordering : d # e /\ calls[d].order # 0 => calls[d].order # calls[e].order
    BY DEF Shapes, OneWriter
  <1>4. \A d \in Ordering' : d # c => d \in Ordering /\ calls'[d].order = calls[d].order
    BY <1>2 DEF Ordering
  <1>5. OneWriter'
    <2> SUFFICES ASSUME NEW d \in Ordering', NEW e \in Ordering', d # e, calls'[d].order # 0
                 PROVE  calls'[d].order # calls'[e].order
      BY DEF OneWriter
    <2>1. CASE d = c
      BY <1>4, <2>1
    <2>2. CASE e = c
      BY <1>4, <2>2
    <2>3. CASE d # c /\ e # c
      BY <1>3, <1>4, <2>3
    <2>4. QED
      BY <2>1, <2>2, <2>3
  <1>6. QED
    BY <1>1, <1>5 DEF Shapes

LEMMA StayMoving ==
    ASSUME Moving, NEW c \in Calls, Stay(c), UNCHANGED <<cart, thisHotel, disturbed>>,
           c \in Ordering' \ disturbed => GoodsMove(c)' /\ InHand(c)'
    PROVE  Moving'
  <1> SUFFICES ASSUME NEW d \in Ordering', d \notin disturbed', d # c
               PROVE  GoodsMove(d)' /\ InHand(d)'
    BY DEF Moving
  <1>1. calls'[d] = calls[d] /\ d \in Ordering \ disturbed
    BY DEF Ordering, Stay
  <1>2. Lines(d)' = Lines(d)
    BY <1>1 DEF Stay
  <1>3. GoodsMove(d) /\ InHand(d)
    BY <1>1 DEF Moving
  <1>4. Listed(calls[d].want)' = Listed(calls[d].want)
    BY <1>1 DEF Listed
  <1>5. \A w \in Wares : InCart(w)' = InCart(w)
    BY DEF InCart
  <1>6. Listed(calls[d].want) \subseteq Wares
    BY DEF Listed
  <1>7. GoodsMove(d)'
    BY <1>1, <1>2, <1>3, <1>4, <1>5, <1>6 DEF GoodsMove
  <1>8. InHand(d)'
    BY <1>1, <1>2, <1>3, <1>4, <1>5, <1>6 DEF InHand
  <1>9. QED
    BY <1>7, <1>8

LEMMA InsertOrderMove ==
    ASSUME MoveInv, [Next]_vars, NEW c \in Calls, InsertOrder(c) PROVE MoveInv'
  <1> DEFINE o == [hotel |-> calls[c].hotel, shown |-> calls[c].shown,
                   want |-> calls[c].want, lines |-> {}]
             n == Len(orders) + 1
  <1>1. calls[c] # Idle /\ calls[c] \in Call /\ calls[c].pc = "insert"
    BY DEF InsertOrder, At, MoveInv, TypeOK
  <1>2. calls[c].op = "order" /\ calls[c].order = 0 /\ c \in Ordering
    BY <1>1 DEF MoveInv, Shapes, Shape, Ordering
  <1>3. o \in Order /\ o.lines = {}
    BY <1>1 DEF Call, Order
  <1> HIDE DEF o
  <1>4. orders' = Append(orders, o) /\ orders \in Seq(Order)
    BY DEF InsertOrder, o, MoveInv, TypeOK
  <1>5. /\ Len(orders) \in Nat /\ Len(orders') = n
        /\ orders'[n] = o
        /\ \A i \in 1..Len(orders) : orders'[i] = orders[i]
    BY <1>3, <1>4, AppendProperties
  <1>6. calls' = [calls EXCEPT ![c] = [calls[c] EXCEPT !.order = n, !.pc = "line"]]
    BY DEF InsertOrder
  <1>7. calls'[c] = [calls[c] EXCEPT !.order = n, !.pc = "line"]
    BY <1>6 DEF MoveInv, TypeOK
  <1>8. /\ calls'[c].order = n /\ calls'[c].pc = "line"
        /\ calls'[c].op = "order" /\ calls'[c].want = calls[c].want
    BY <1>1, <1>2, <1>7 DEF Call
  <1>9. \A d \in Calls : d # c => calls'[d] = calls[d]
    BY <1>6 DEF MoveInv, TypeOK
  <1>10. \A d \in Ordering : calls[d].order \in 0..Len(orders)
    BY DEF Ordering, MoveInv, Shapes, Shape
  <1>11. \A d \in Ordering \ {c} : Lines(d)' = Lines(d)
    BY <1>5, <1>9, <1>10 DEF Lines, Ordering
  <1>12. Stay(c)
    BY <1>5, <1>9, <1>11 DEF Stay
  <1>13. Shapes'
    <2>1. n \in 0..Len(orders') /\ n # 0
      BY <1>5
    <2>2. Shape(c)'
      BY <1>8, <2>1 DEF Shape
    <2>3. \A d \in Ordering : calls[d].order # n
      BY <1>5, <1>10
    <2>4. QED
      BY <1>8, <1>12, <2>2, <2>3, StayShapes DEF MoveInv
  <1>14. UNCHANGED <<cart, thisHotel, disturbed>>
    BY DEF InsertOrder, history
  <1>15. Moving'
    <2>1. c \in Ordering' \ disturbed => GoodsMove(c)' /\ InHand(c)'
      <3> SUFFICES ASSUME c \notin disturbed PROVE GoodsMove(c)' /\ InHand(c)'
        OBVIOUS
      <3>1. GoodsMove(c)
        BY <1>2 DEF MoveInv, Moving
      <3>2. Lines(c) = {} /\ Lines(c)' = {}
        BY <1>2, <1>3, <1>5, <1>8 DEF Lines
      <3>3. Listed(calls[c].want)' = Listed(calls[c].want)
        BY <1>8 DEF Listed
      <3>4. GoodsMove(c)'
        BY <1>8, <1>14, <3>1, <3>2, <3>3 DEF GoodsMove, InCart
      <3>5. InHand(c)'
        BY <1>8 DEF InHand
      <3>6. QED
        BY <3>4, <3>5
    <2>2. QED
      BY <1>12, <1>14, <2>1, StayMoving DEF MoveInv
  <1>16. QED
    BY <1>13, <1>15, TypeStep DEF MoveInv

LEMMA InsertLineMove ==
    ASSUME MoveInv, [Next]_vars, NEW c \in Calls, NEW w \in Wares, InsertLine(c, w)
    PROVE  MoveInv'
  <1> DEFINE i == calls[c].order
             o == [orders[i] EXCEPT !.lines = @ \cup {w}]
  <1>1. calls[c] # Idle /\ calls[c] \in Call /\ calls[c].pc = "line"
    BY DEF InsertLine, At, MoveInv, TypeOK
  <1>2. calls[c].op = "order" /\ i \in 1..Len(orders) /\ i # 0 /\ c \in Ordering
    <2>1. Len(orders) \in Nat
      BY DEF MoveInv, TypeOK
    <2>2. QED
      BY <1>1, <2>1 DEF MoveInv, Shapes, Shape, Ordering
  <1>3. orders \in Seq(Order) /\ orders[i] \in Order
    BY <1>2 DEF MoveInv, TypeOK
  <1>4. o \in Order /\ o.lines = orders[i].lines \cup {w}
    BY <1>3 DEF Order
  <1>5. orders' = [orders EXCEPT ![i] = o]
    BY DEF InsertLine
  <1> HIDE DEF o
  <1>6. /\ Len(orders') = Len(orders) /\ Len(orders) \in Nat
        /\ orders'[i] = o
        /\ \A j \in 1..Len(orders) : j # i => orders'[j] = orders[j]
    BY <1>2, <1>3, <1>4, <1>5, ExceptSeq
  <1>7. calls' = [calls EXCEPT ![c] = [calls[c] EXCEPT !.ware = w, !.pc = "get"]]
    BY DEF InsertLine
  <1>8. calls'[c] = [calls[c] EXCEPT !.ware = w, !.pc = "get"]
    BY <1>7 DEF MoveInv, TypeOK
  <1>9. /\ calls'[c].order = i /\ calls'[c].pc = "get" /\ calls'[c].ware = w
        /\ calls'[c].op = "order" /\ calls'[c].want = calls[c].want
    BY <1>1, <1>2, <1>8 DEF Call
  <1>10. \A d \in Calls : d # c => calls'[d] = calls[d]
    BY <1>7 DEF MoveInv, TypeOK
  <1>11. \A d \in Ordering : d # c => calls[d].order \in 0..Len(orders) /\ calls[d].order # i
    BY <1>2 DEF Ordering, MoveInv, Shapes, Shape, OneWriter
  <1>12. \A d \in Ordering \ {c} : Lines(d)' = Lines(d)
    BY <1>6, <1>10, <1>11 DEF Lines, Ordering
  <1>13. Stay(c)
    BY <1>6, <1>10, <1>12 DEF Stay
  <1>14. Shapes'
    <2>1. i \in 0..Len(orders')
      BY <1>2, <1>6
    <2>2. Shape(c)'
      BY <1>2, <1>9, <2>1 DEF Shape
    <2>3. QED
      BY <1>9, <1>11, <1>13, <2>2, StayShapes DEF MoveInv
  <1>15. UNCHANGED <<cart, thisHotel, disturbed>>
    BY DEF InsertLine, history
  <1>16. Lines(c) = orders[i].lines /\ Lines(c)' = Lines(c) \cup {w}
    BY <1>2, <1>4, <1>6, <1>9 DEF Lines
  <1>17. w \in Listed(calls[c].want) \ Lines(c)
    BY <1>2, <1>16 DEF InsertLine, Remaining
  <1>18. Moving'
    <2>1. c \in Ordering' \ disturbed => GoodsMove(c)' /\ InHand(c)'
      <3> SUFFICES ASSUME c \notin disturbed PROVE GoodsMove(c)' /\ InHand(c)'
        OBVIOUS
      <3>1. GoodsMove(c)
        BY <1>2 DEF MoveInv, Moving
      <3>2. Listed(calls[c].want)' = Listed(calls[c].want)
        BY <1>9 DEF Listed
      <3>3. InCart(w) = calls[c].want[w]
        BY <1>17, <3>1 DEF GoodsMove
      <3>4. \A x : InCart(x)' = InCart(x)
        BY <1>15 DEF InCart
      <3>5. GoodsMove(c)'
        BY <1>1, <1>9, <1>16, <3>1, <3>2, <3>4 DEF GoodsMove
      <3>6. InHand(c)'
        BY <1>9, <1>16, <1>17, <3>2, <3>3, <3>4 DEF InHand
      <3>7. QED
        BY <3>5, <3>6
    <2>2. QED
      BY <1>13, <1>15, <2>1, StayMoving DEF MoveInv
  <1>19. QED
    BY <1>14, <1>18, TypeStep DEF MoveInv

LEMMA GetCartMove ==
    ASSUME MoveInv, [Next]_vars, NEW c \in Calls, GetCart(c) PROVE MoveInv'
  <1> DEFINE row == calls[c]
  <1>1. row # Idle /\ row \in Call /\ row.pc = "get"
    BY DEF GetCart, At, MoveInv, TypeOK
  <1>2. UNCHANGED <<store, thisHotel, disturbed>>
    BY DEF GetCart, history
  <1>3. PICK pc \in {"no", "put", AfterDeletion(c)} :
            /\ calls' = [calls EXCEPT ![c].pc = pc] \/
               (pc = "put" /\ calls' = [calls EXCEPT ![c].copy = cart[thisHotel], ![c].pc = pc])
            /\ pc = "put" => cart[thisHotel] # NoCart \/ row.op = "add"
            /\ pc # "put" => cart[thisHotel] = NoCart
            /\ pc = "put" => calls' =
                   [calls EXCEPT ![c] = [row EXCEPT !.copy = cart[thisHotel], !.pc = pc]]
    <2>1. CASE Goto(c, "no") /\ cart[thisHotel] = NoCart
      BY <2>1 DEF Goto
    <2>2. CASE Goto(c, AfterDeletion(c)) /\ cart[thisHotel] = NoCart
      <3>1. AfterDeletion(c) # "put"
        BY DEF AfterDeletion
      <3>2. QED
        BY <2>2, <3>1 DEF Goto
    <2>3. CASE /\ cart[thisHotel] # NoCart \/ row.op = "add"
               /\ calls' = [calls EXCEPT ![c].copy = cart[thisHotel], ![c].pc = "put"]
      BY <2>3
    <2>4. QED
      BY <2>1, <2>2, <2>3 DEF GetCart
  <1>4. \A d \in Calls : d # c => calls'[d] = calls[d]
    BY <1>3 DEF MoveInv, TypeOK
  <1>5. calls'[c] = [row EXCEPT !.pc = pc] \/
        calls'[c] = [row EXCEPT !.copy = cart[thisHotel], !.pc = pc]
    BY <1>3 DEF MoveInv, TypeOK
  <1>6. /\ calls'[c].pc = pc
        /\ calls'[c].op = row.op /\ calls'[c].want = row.want
        /\ calls'[c].order = row.order /\ calls'[c].ware = row.ware
    BY <1>1, <1>5 DEF Call
  <1>7. pc = "put" => calls'[c].copy = cart[thisHotel]
    <2>1. CASE pc = "put"
      <3>1. calls'[c] = [row EXCEPT !.copy = cart[thisHotel], !.pc = pc]
        BY <1>3, <2>1 DEF MoveInv, TypeOK
      <3>2. QED
        BY <1>1, <3>1 DEF Call
    <2>2. QED
      BY <2>1
  <1>8. \A d \in Ordering \ {c} : Lines(d)' = Lines(d)
    BY <1>2, <1>4 DEF Lines, Ordering, store
  <1>9. Stay(c)
    BY <1>2, <1>4, <1>8 DEF Stay, store, MoveInv, TypeOK
  <1>10. Shapes'
    <2>1. Shape(c)
      BY DEF MoveInv, Shapes
    <2>2. pc \in {"no", "put", "ok"} \/ (pc = "line" /\ row.op = "order")
      BY DEF AfterDeletion
    <2>3. Shape(c)'
      BY <1>1, <1>2, <1>6, <2>1, <2>2 DEF Shape, store
    <2>4. \A d \in Ordering : d # c /\ c \in Ordering' /\ calls'[c].order # 0
              => calls[d].order # calls'[c].order
      BY <1>1, <1>6 DEF Ordering, MoveInv, Shapes, OneWriter
    <2>5. QED
      BY <1>9, <2>3, <2>4, StayShapes DEF MoveInv
  <1>11. c \in Ordering' \ disturbed => GoodsMove(c)' /\ InHand(c)'
    <2> SUFFICES ASSUME c \in Ordering', c \notin disturbed
                 PROVE  GoodsMove(c)' /\ InHand(c)'
      OBVIOUS
    <2>1. GoodsMove(c) /\ InHand(c)
      BY <1>1, <1>6 DEF Ordering, MoveInv, Moving
    <2>2. /\ row.ware \in Lines(c) /\ row.ware \in Listed(row.want)
          /\ InCart(row.ware) = row.want[row.ware]
      BY <1>1, <2>1 DEF InHand
    <2>3. row.ware \in Wares /\ InCart(row.ware) > 0
      BY <2>2 DEF Listed
    <2>4. cart[thisHotel] # NoCart
      BY <2>3 DEF InCart, NumsOf, None
    <2>5. pc = "put"
      BY <1>3, <2>4
    <2>6. Lines(c)' = Lines(c)
      BY <1>2, <1>6 DEF Lines, store
    <2>7. \A x : InCart(x)' = InCart(x)
      BY <1>2 DEF InCart, store
    <2>8. Listed(calls[c].want)' = Listed(calls[c].want)
      BY <1>6 DEF Listed
    <2>9. GoodsMove(c)'
      BY <1>1, <1>6, <2>1, <2>5, <2>6, <2>7, <2>8 DEF GoodsMove
    <2>10. InHand(c)'
      BY <1>2, <1>6, <1>7, <2>2, <2>5, <2>6, <2>7, <2>8 DEF InHand, store
    <2>11. QED
      BY <2>9, <2>10
  <1>12. Moving'
    BY <1>2, <1>9, <1>11, StayMoving DEF MoveInv, store
  <1>13. QED
    BY <1>10, <1>12, TypeStep DEF MoveInv

\* What is put back holds what the call made of the cart.
LEMMA NumsOfStored ==
    ASSUME TypeOK, NEW c \in Calls, calls[c] # Idle
    PROVE  NumsOf(Stored(c)) = Changed(c)
  <1>1. CASE Changed(c) = None
    BY <1>1 DEF Stored, NumsOf
  <1>2. CASE Changed(c) # None
    <2> DEFINE h == IF calls[c].copy = NoCart THEN thisHotel ELSE calls[c].copy.hotel
               k == [hotel |-> h, nums |-> Changed(c)]
    <2>1. Stored(c) = k
      BY <1>2 DEF Stored
    <2>2. calls[c].copy \in Cart \cup {NoCart} /\ thisHotel \in Hotels
      BY DEF TypeOK, Call
    <2>3. h \in Hotels
      BY <2>2 DEF Cart
    <2>4. k \in Cart
      BY <2>3, StoredType DEF Cart
    <2>5. k # NoCart /\ k.nums = Changed(c)
      BY <2>4
    <2>6. QED
      BY <2>1, <2>5 DEF NumsOf
  <1>3. QED
    BY <1>1, <1>2

LEMMA PutCartMove ==
    ASSUME MoveInv, [Next]_vars, NEW c \in Calls, PutCart(c) PROVE MoveInv'
  <1> DEFINE row == calls[c]
             pc == AfterDeletion(c)
  <1>1. row # Idle /\ row \in Call /\ row.pc = "put" /\ TypeOK
    BY DEF PutCart, At, MoveInv, TypeOK
  <1>2. UNCHANGED <<orders, thisHotel>>
    BY DEF PutCart
  <1>3. calls' = [calls EXCEPT ![c] = [row EXCEPT !.copy = NoCart, !.pc = pc]]
    BY DEF PutCart
  <1>4. calls'[c] = [row EXCEPT !.copy = NoCart, !.pc = pc]
    BY <1>1, <1>3 DEF TypeOK
  <1>5. /\ calls'[c].pc = pc
        /\ calls'[c].op = row.op /\ calls'[c].want = row.want
        /\ calls'[c].order = row.order /\ calls'[c].ware = row.ware
    BY <1>1, <1>4 DEF Call
  <1>6. \A d \in Calls : d # c => calls'[d] = calls[d]
    BY <1>1, <1>3 DEF TypeOK
  <1>7. \A d \in Ordering \ {c} : Lines(d)' = Lines(d)
    BY <1>2, <1>6 DEF Lines, Ordering
  <1>8. Stay(c)
    BY <1>1, <1>2, <1>6, <1>7 DEF Stay, TypeOK
  <1>9. pc = "ok" \/ (pc = "line" /\ row.op = "order")
    BY DEF AfterDeletion
  <1> HIDE DEF pc
  <1>10. Shapes'
    <2>1. Shape(c)
      BY DEF MoveInv, Shapes
    <2>2. Shape(c)'
      BY <1>1, <1>2, <1>5, <1>9, <2>1 DEF Shape
    <2>3. \A d \in Ordering : d # c /\ c \in Ordering' /\ calls'[c].order # 0
              => calls[d].order # calls'[c].order
      BY <1>1, <1>5 DEF Ordering, MoveInv, Shapes, OneWriter
    <2>4. QED
      BY <1>8, <2>2, <2>3, StayShapes DEF MoveInv
  <1>11. Moving'
    <2> SUFFICES ASSUME NEW d \in Ordering', d \notin disturbed'
                 PROVE  GoodsMove(d)' /\ InHand(d)'
      BY DEF Moving
    <2>1. d = c
      BY <1>6 DEF PutCart, Ordering
    <2>2. row.op = "order" /\ c \in Ordering \ disturbed
      BY <1>1, <1>5, <2>1 DEF PutCart, Ordering
    <2>3. GoodsMove(c) /\ InHand(c)
      BY <2>2 DEF MoveInv, Moving
    <2>4. row.ware \in Wares /\ row.copy = cart[thisHotel]
      BY <1>1, <2>3 DEF InHand, Listed
    <2>5. cart' = [cart EXCEPT ![thisHotel] = Stored(c)]
      BY DEF PutCart
    <2>6. cart'[thisHotel'] = Stored(c)
      BY <1>1, <1>2, <2>5 DEF TypeOK
    <2>7. NumsOf(cart'[thisHotel']) = Changed(c)
      BY <1>1, <2>6, NumsOfStored
    <2>8. NumsOf(row.copy) \in [Wares -> Nat]
      <3>1. row.copy \in Cart \cup {NoCart}
        BY <1>1 DEF Call
      <3>2. QED
        BY <3>1, NumsOfType DEF Nums
    <2>9. Changed(c) = [NumsOf(row.copy) EXCEPT ![row.ware] = 0]
      BY <2>2 DEF Changed, NewCount
    <2>10. \A x \in Wares : InCart(x)' = IF x = row.ware THEN 0 ELSE InCart(x)
      BY <2>4, <2>7, <2>8, <2>9 DEF InCart
    <2>11. Lines(c)' = Lines(c)
      BY <1>2, <1>5 DEF Lines
    <2>12. Listed(row.want)' = Listed(row.want) /\ Listed(row.want) \subseteq Wares
      BY <1>5 DEF Listed
    <2>13. row.ware \in Lines(c)
      BY <1>1, <2>3 DEF InHand
    <2>14. GoodsMove(c)'
      BY <1>1, <1>5, <2>3, <2>10, <2>11, <2>12, <2>13 DEF GoodsMove
    <2>15. InHand(c)'
      BY <1>5, <1>9 DEF InHand
    <2>16. QED
      BY <2>1, <2>14, <2>15
  <1>12. QED
    BY <1>10, <1>11, TypeStep DEF MoveInv

-----------------------------------------------------------------------------
(* Failures and answers.                                                   *)

LEMMA CutOffMove ==
    ASSUME MoveInv, [Next]_vars, NEW c \in Calls, CutOff(c) PROVE MoveInv'
  <1>1. calls[c] # Idle /\ calls[c] \in Call
    BY DEF CutOff, Running, MoveInv, TypeOK
  <1>2. PICK pc \in {"no", "error"} : calls' = [calls EXCEPT ![c] = [calls[c] EXCEPT !.pc = pc]]
    BY DEF CutOff, Goto
  <1>3. calls'[c] = [calls[c] EXCEPT !.pc = pc] /\ \A d \in Calls : d # c => calls'[d] = calls[d]
    BY <1>2 DEF MoveInv, TypeOK
  <1>4. Keeps(c)
    BY <1>1, <1>3 DEF Keeps, Call
  <1>5. KeepCalls
    BY <1>3, <1>4 DEF KeepCalls, Keeps
  <1>6. QED
    BY <1>5, KeepInv DEF CutOff

LEMMA LoseAnswerMove ==
    ASSUME MoveInv, [Next]_vars, NEW c \in Calls, LoseAnswer(c) PROVE MoveInv'
  <1>1. calls[c] # Idle /\ calls[c] \in Call
    BY DEF LoseAnswer, MoveInv, TypeOK
  <1>2. calls' = [calls EXCEPT ![c] = [calls[c] EXCEPT !.from = "gone"]]
    BY DEF LoseAnswer
  <1>3. calls'[c] = [calls[c] EXCEPT !.from = "gone"]
        /\ \A d \in Calls : d # c => calls'[d] = calls[d]
    BY <1>2 DEF MoveInv, TypeOK
  <1>4. Keeps(c)
    BY <1>1, <1>3 DEF Keeps, Call
  <1>5. KeepCalls
    BY <1>3, <1>4 DEF KeepCalls, Keeps
  <1>6. QED
    BY <1>5, KeepInv DEF LoseAnswer

\* A call that is over is no longer under way, the others go on.
LEMMA EndedMove ==
    ASSUME MoveInv, [Next]_vars, NEW c \in Calls, UNCHANGED <<store, thisHotel>>,
           disturbed' = disturbed \ {c}, calls[c] # Idle,
           calls' = Ended(c) \/ \E from : calls' = Leave(Ended(c), calls[c].tab, from)
    PROVE  MoveInv'
  <1>1. TypeOK /\ calls[c].tab \in Tabs /\ Ended(c) \in [Calls -> Call \cup {Idle}]
    BY EndedType DEF MoveInv, TypeOK, Call
  <1>2. Ended(c)[c] = Idle /\ \A d \in Calls : d # c => Ended(c)[d] = calls[d]
    BY <1>1 DEF TypeOK, Ended
  <1>3. calls'[c] = Idle /\ KeepCalls
    <2>1. CASE calls' = Ended(c)
      BY <1>2, <2>1 DEF KeepCalls, Keeps
    <2>2. ASSUME NEW from, calls' = Leave(Ended(c), calls[c].tab, from)
          PROVE  calls'[c] = Idle /\ KeepCalls
      <3>1. KeepCalls
        BY <1>1, <1>2, <2>2, LeaveKeepCalls
      <3>2. calls'[c] = Idle
        BY <1>1, <1>2, <2>2 DEF Leave
      <3>3. QED
        BY <3>1, <3>2
    <2>3. QED
      BY <2>1, <2>2
  <1>4. \A d \in Ordering' : d \in disturbed => d \in disturbed'
    BY <1>3 DEF Ordering
  <1>5. QED
    BY <1>3, <1>4, KeepInv

LEMMA AnswerMove ==
    ASSUME MoveInv, [Next]_vars, NEW c \in Calls, Answer(c) \/ DropAnswer(c) PROVE MoveInv'
  <1>1. UNCHANGED <<store, thisHotel>> /\ disturbed' = disturbed \ {c} /\ calls[c] # Idle
    BY DEF Answer, DropAnswer
  <1>2. calls' = Ended(c) \/ calls' = Leave(Ended(c), calls[c].tab, "left")
    BY DEF Answer, DropAnswer, AnswerOrder, AnswerAdd, AnswerDelete, AnswerCount, GoTo
  <1>3. QED
    BY <1>1, <1>2, EndedMove

LEMMA MoveStep == MoveInv /\ [Next]_vars => MoveInv'
  <1> SUFFICES ASSUME MoveInv, [Next]_vars PROVE MoveInv'
    OBVIOUS
  <1>1. ASSUME NEW t \in Tabs, User(t) PROVE MoveInv'
    BY <1>1, UserMove
  <1>2. ASSUME NEW c \in Calls, Server(c) PROVE MoveInv'
    BY <1>2, InsertOrderMove, InsertLineMove, GetCartMove, PutCartMove DEF Server
  <1>3. ASSUME NEW c \in Calls, CutOff(c) PROVE MoveInv'
    BY <1>3, CutOffMove
  <1>4. ASSUME NEW c \in Calls, Answer(c) \/ DropAnswer(c) PROVE MoveInv'
    BY <1>4, AnswerMove
  <1>5. ASSUME NEW c \in Calls, LoseAnswer(c) PROVE MoveInv'
    BY <1>5, LoseAnswerMove
  <1>6. CASE UNCHANGED vars
    <2>1. KeepCalls
      BY <1>6 DEF KeepCalls, Keeps, vars
    <2>2. QED
      BY <1>6, <2>1, KeepInv DEF vars, history
  <1>7. QED
    BY <1>1, <1>2, <1>3, <1>4, <1>5, <1>6 DEF Next

LEMMA InitMove == Init => MoveInv
  <1> SUFFICES ASSUME Init PROVE MoveInv
    OBVIOUS
  <1>1. \A c \in Calls : calls[c] = Idle
    BY DEF Init
  <1>2. Shapes /\ Moving
    BY <1>1 DEF Shapes, Shape, OneWriter, Ordering, Moving
  <1>3. QED
    BY <1>2, InitType DEF MoveInv

\* An order that nothing interferes with moves its goods out of the cart ware
\* by ware, wherever saveOrder breaks off.
THEOREM ShopOrderMoves == Spec => []OrderMoves
  BY InitMove, MoveStep, MovingMoves, PTL DEF Spec

-----------------------------------------------------------------------------
(* Fresh pages. A fresh page waits for one call at most, and that call will *)
(* make of the cart what the page shows, or of the page what is in the cart. *)

Of(t) == {c \in Calls : calls[c] # Idle /\ calls[c].tab = t}

InRedis == NumsOf(cart[thisHotel])

\* What a call of a fresh page is like, and how its page differs from the cart.
Serves(c, rows) ==
    LET w == calls[c].ware
        pc == calls[c].pc
    IN  /\ calls[c].from = "here"
        /\ calls[c].op \in {"count", "delete", "order"}
        /\ calls[c].op = "order" => pc # "error"
        /\ calls[c].op # "order" =>
               /\ pc \in {"get", "put", "ok"}
               /\ pc = "put" => calls[c].copy = cart[thisHotel]
               /\ pc \in {"get", "put"} => InRedis[w] > 0
        /\ calls[c].op = "count" =>
               rows = IF pc = "ok" THEN InRedis ELSE [InRedis EXCEPT ![w] = calls[c].want[w]]
        /\ calls[c].op = "delete" =>
               IF pc = "ok" THEN InRedis = [rows EXCEPT ![w] = 0] ELSE rows = InRedis

FreshOk(t) ==
    /\ page[t].at = "cart"
    /\ Of(t) = {} => page[t].rows = InRedis
    /\ \A c \in Of(t) : Of(t) = {c} /\ Serves(c, page[t].rows)

FreshInv == \A t \in fresh : FreshOk(t)

\* What other tabs do to the calls of a tab, and to its page.
LEMMA FreshOther ==
    ASSUME NEW s \in Tabs, NEW t \in Tabs \ {s}, FreshOk(t),
           \A c \in Calls :
              \/ calls'[c] = calls[c]
              \/ /\ calls[c] = Idle \/ calls[c].tab = s
                 /\ calls'[c] = Idle \/ calls'[c].tab = s,
           page'[t] = page[t], UNCHANGED <<cart, thisHotel>>
    PROVE  FreshOk(t)'
  <1>1. \A c \in Of(t) : calls'[c] = calls[c]
    BY DEF Of
  <1>2. Of(t)' = Of(t)
    BY DEF Of
  <1>3. InRedis' = InRedis
    BY DEF InRedis
  <1>4. ASSUME NEW c \in Of(t), Serves(c, page[t].rows)
        PROVE  Serves(c, page[t].rows)'
    BY <1>1, <1>3, <1>4 DEF Serves
  <1>5. QED
    BY <1>2, <1>3, <1>4 DEF FreshOk

\* A step of s that leaves the store alone keeps the other pages fresh.
LEMMA FreshStep ==
    ASSUME TypeOK, FreshInv, NEW s \in Tabs,
           \A c \in Calls :
              \/ calls'[c] = calls[c]
              \/ /\ calls[c] = Idle \/ calls[c].tab = s
                 /\ calls'[c] = Idle \/ calls'[c].tab = s,
           \A t \in Tabs \ {s} : page'[t] = page[t],
           UNCHANGED <<cart, thisHotel>>,
           fresh' \subseteq fresh \cup {s},
           s \in fresh' => FreshOk(s)'
    PROVE  FreshInv'
  <1>1. fresh \subseteq Tabs
    BY DEF TypeOK
  <1>2. ASSUME NEW t \in fresh', t # s
        PROVE  FreshOk(t)'
    BY <1>1, <1>2, FreshOther DEF FreshInv
  <1>3. QED
    BY <1>2 DEF FreshInv

\* One call goes on.
LEMMA FreshCall ==
    ASSUME TypeOK, FreshInv, NEW c \in Calls, calls[c] # Idle,
           NEW t \in Tabs, t = calls[c].tab,
           \A d \in Calls \ {c} : calls'[d] = calls[d],
           calls'[c] = Idle \/ calls'[c].tab = t,
           \A u \in Tabs \ {t} : page'[u] = page[u],
           UNCHANGED <<cart, thisHotel>>,
           fresh' \subseteq fresh,
           t \in fresh' => FreshOk(t)'
    PROVE  FreshInv'
  BY FreshStep

\* The page of the call that took the step: it waits for that call only.
LEMMA FreshTab ==
    ASSUME FreshInv, NEW c \in Calls, calls[c] # Idle,
           NEW t \in fresh, t = calls[c].tab,
           \A d \in Calls \ {c} : calls'[d] = calls[d],
           page'[t].at = "cart",
           \/ calls'[c] = Idle /\ page'[t].rows = InRedis'
           \/ calls'[c] # Idle /\ calls'[c].tab = t /\ Serves(c, page[t].rows)'
    PROVE  FreshOk(t)'
  <1>1. Of(t) = {c}
    BY DEF FreshInv, FreshOk, Of
  <1>2. \A d \in Calls \ {c} : ~(calls'[d] # Idle /\ calls'[d].tab = t)
    BY <1>1 DEF Of
  <1>3. CASE calls'[c] = Idle /\ page'[t].rows = InRedis'
    <2>1. Of(t)' = {}
      BY <1>2, <1>3 DEF Of
    <2>2. QED
      BY <1>3, <2>1 DEF FreshOk
  <1>4. CASE calls'[c] # Idle /\ calls'[c].tab = t /\ Serves(c, page[t].rows)'
    <2>1. Of(t)' = {c}
      BY <1>2, <1>4 DEF Of
    <2>2. QED
      BY <1>4, <2>1 DEF FreshOk
  <1>5. QED
    BY <1>3, <1>4

\* Leaving a page touches the calls of its tab only.
LEMMA LeaveOthers ==
    ASSUME NEW cs \in [Calls -> Call \cup {Idle}], NEW s \in Tabs, NEW from
    PROVE  \A c \in Calls :
               \/ Leave(cs, s, from)[c] = cs[c]
               \/ cs[c] # Idle /\ cs[c].tab = s /\ Leave(cs, s, from)[c].tab = s
  <1>1. ASSUME NEW c \in Calls, cs[c] # Idle, cs[c].tab = s
        PROVE  [cs[c] EXCEPT !.from = from].tab = s
    <2>1. cs[c] \in Call
      BY <1>1
    <2>2. QED
      BY <1>1, <2>1 DEF Call
  <1>2. QED
    BY <1>1 DEF Leave

\* A call that is sent from a page that waits for none.
LEMMA FreshSend ==
    ASSUME TypeOK, FreshInv, NEW s \in Tabs,
           NEW op \in {"count", "delete", "order"}, NEW pc \in Steps,
           NEW w \in Wares, NEW want \in Nums, NEW stale,
           Send(s, op, pc, w, want, stale),
           \A t \in Tabs \ {s} : page'[t] = page[t],
           page[s].at = "cart" => page'[s].at = "cart",
           op # "order" => pc = "get" /\ w \in Listed(page[s].rows),
           op = "count" => page'[s].rows = [page[s].rows EXCEPT ![w] = want[w]],
           op = "delete" => page'[s].rows = page[s].rows
    PROVE  FreshInv'
  <1> DEFINE new == [op |-> op, tab |-> s, from |-> "here", pc |-> pc,
                     hotel |-> page[s].hotel, shown |-> page[s].shown,
                     want |-> want, ware |-> w, copy |-> NoCart, order |-> 0]
  <1>1. PICK c \in Calls : calls[c] = Idle /\ calls' = [calls EXCEPT ![c] = new]
    BY DEF Send
  <1>2. /\ new.op = op /\ new.tab = s /\ new.from = "here" /\ new.pc = pc
        /\ new.want = want /\ new.ware = w
    OBVIOUS
  <1>3. page[s].hotel \in Hotels /\ page[s].shown \in Hotels
    BY DEF TypeOK, Page
  <1>4. new \in Call
    BY <1>3 DEF Call
  <1> HIDE DEF new
  <1>5. calls'[c] = new /\ \A d \in Calls \ {c} : calls'[d] = calls[d]
    BY <1>1 DEF TypeOK
  <1>6. UNCHANGED <<cart, thisHotel>>
    BY DEF Send, store
  <1>7. InRedis' = InRedis
    BY <1>6 DEF InRedis
  <1>8. s \in fresh' => FreshOk(s)'
    <2> SUFFICES ASSUME s \in fresh' PROVE FreshOk(s)'
      OBVIOUS
    <2>1. s \in fresh /\ Of(s) = {}
      BY DEF Send, Waiting, Of
    <2>2. page[s].at = "cart" /\ page[s].rows = InRedis
      BY <2>1 DEF FreshInv, FreshOk
    <2>3. calls'[c] # Idle
      BY <1>4, <1>5
    <2>4. Of(s)' = {c}
      BY <1>2, <1>5, <2>1, <2>3 DEF Of
    <2>5. op # "order" => InRedis[w] > 0
      BY <2>2 DEF Listed
    <2>6. pc # "error" /\ pc # "ok"
      BY DEF Steps
    <2>7. Serves(c, page[s].rows)'
      BY <1>2, <1>5, <1>7, <2>2, <2>5, <2>6 DEF Serves
    <2>8. QED
      BY <2>2, <2>4, <2>7 DEF FreshOk
  <1>9. fresh' \subseteq fresh \cup {s}
    BY DEF Send
  <1>10. QED
    BY <1>1, <1>2, <1>5, <1>6, <1>8, <1>9, FreshStep

LEMMA OpenFresh ==
    ASSUME TypeOK, FreshInv, NEW s \in Tabs,
           (\E h \in Hotels : OpenMain(s, h)) \/ OpenCart(s) \/ OpenGoods(s)
    PROVE  FreshInv'
  <1>1. calls \in [Calls -> Call \cup {Idle}] /\ page \in [Tabs -> Page] /\ fresh \subseteq Tabs
    BY DEF TypeOK
  <1>2. \A t \in Tabs \ {s} : page'[t] = page[t]
    BY <1>1 DEF OpenMain, OpenCart, OpenGoods, Show
  <1>3. PICK from \in {"left", "gone"} : calls' = Leave(calls, s, from)
    BY DEF OpenMain, OpenCart, OpenGoods
  <1>4. \A c \in Calls :
            \/ calls'[c] = calls[c]
            \/ calls[c] # Idle /\ calls[c].tab = s /\ calls'[c].tab = s
    BY <1>1, <1>3, LeaveOthers
  <1>5. ASSUME NEW h \in Hotels, OpenMain(s, h) PROVE FreshInv'
    <2>1. CASE h = thisHotel
      <3>1. UNCHANGED <<cart, thisHotel>> /\ fresh' = fresh \ {s}
        BY <1>5, <2>1 DEF OpenMain, store
      <3>2. QED
        BY <1>2, <1>4, <3>1, FreshStep
    <2>2. CASE h # thisHotel
      BY <1>5, <2>2 DEF OpenMain, FreshInv
    <2>3. QED
      BY <2>1, <2>2
  <1>6. CASE OpenCart(s)
    <2>1. UNCHANGED <<cart, thisHotel>> /\ fresh' \subseteq fresh \cup {s}
      BY <1>6 DEF OpenCart, store
    <2>2. s \in fresh' => FreshOk(s)'
      <3> SUFFICES ASSUME s \in fresh' PROVE FreshOk(s)'
        OBVIOUS
      <3>1. Of(s) = {}
        BY <1>6 DEF OpenCart, Of, Waiting
      <3>2. \A c \in Calls : calls'[c] = calls[c]
        BY <1>4, <3>1 DEF Of
      <3>3. Of(s)' = {}
        BY <3>1, <3>2 DEF Of
      <3>4. page'[s].at = "cart" /\ page'[s].rows = cart[thisHotel].nums
        BY <1>1, <1>6 DEF OpenCart, Show
      <3>5. InRedis' = cart[thisHotel].nums
        BY <1>6, <2>1 DEF InRedis, NumsOf, OpenCart
      <3>6. QED
        BY <3>3, <3>4, <3>5 DEF FreshOk
    <2>3. QED
      BY <1>2, <1>4, <2>1, <2>2, FreshStep
  <1>7. CASE OpenGoods(s)
    <2>1. UNCHANGED <<cart, thisHotel>> /\ fresh' = fresh \ {s}
      BY <1>7 DEF OpenGoods, store
    <2>2. QED
      BY <1>2, <1>4, <2>1, FreshStep
  <1>8. QED
    BY <1>5, <1>6, <1>7

LEMMA SendFresh ==
    ASSUME TypeOK, FreshInv, NEW s \in Tabs,
           \/ \E w \in Wares, n \in Entries : AddToCart(s, w, n) \/ UpdateCount(s, w, n)
           \/ \E w \in Wares : DeleteWare(s, w) \/ Tick(s, w)
           \/ SubmitOrder(s)
    PROVE  FreshInv'
  <1>1. page \in [Tabs -> Page] /\ page[s].rows \in [Wares -> Nat]
    BY DEF TypeOK, Page, Nums
  <1>2. ASSUME NEW w \in Wares, NEW n \in Entries, AddToCart(s, w, n) PROVE FreshInv'
    <2>1. s \notin fresh
      BY <1>2 DEF FreshInv, FreshOk, AddToCart
    <2>2. s \notin fresh' /\ fresh' \subseteq fresh
      BY <1>2, <2>1 DEF AddToCart, Send
    <2> DEFINE new == [op |-> "add", tab |-> s, from |-> "here", pc |-> "get",
                       hotel |-> page[s].hotel, shown |-> page[s].shown,
                       want |-> Only(w, n), ware |-> w, copy |-> NoCart, order |-> 0]
    <2>3. PICK c \in Calls : calls[c] = Idle /\ calls' = [calls EXCEPT ![c] = new]
      BY <1>2 DEF AddToCart, Send
    <2>4. new.tab = s
      OBVIOUS
    <2> HIDE DEF new
    <2>5. calls'[c] = new /\ \A d \in Calls \ {c} : calls'[d] = calls[d]
      BY <2>3 DEF TypeOK
    <2>6. UNCHANGED <<cart, thisHotel, page>>
      BY <1>2 DEF AddToCart, Send, store
    <2>7. QED
      BY <2>2, <2>3, <2>4, <2>5, <2>6, FreshStep
  <1>3. ASSUME NEW w \in Wares, NEW n \in Entries, UpdateCount(s, w, n) PROVE FreshInv'
    <2>1. Send(s, "count", "get", w, Only(w, n), FALSE)
      BY <1>3 DEF UpdateCount
    <2>2. Only(w, n) \in Nums /\ Only(w, n)[w] = n
      BY OnlyType DEF Only, None
    <2>3. page' = [page EXCEPT ![s] =
              [page[s] EXCEPT !.rows = [page[s].rows EXCEPT ![w] = n]]]
      BY <1>3 DEF UpdateCount
    <2>4. page[s] \in Page
      BY <1>1
    <2>5. /\ page'[s].at = page[s].at
          /\ page'[s].rows = [page[s].rows EXCEPT ![w] = n]
      BY <1>1, <2>3, <2>4 DEF Page
    <2>6. \A t \in Tabs \ {s} : page'[t] = page[t]
      BY <1>1, <2>3
    <2>7. w \in Listed(page[s].rows) /\ "get" \in Steps
      BY <1>3 DEF UpdateCount, Steps
    <2>8. QED
      BY <2>1, <2>2, <2>5, <2>6, <2>7, FreshSend
  <1>4. ASSUME NEW w \in Wares, DeleteWare(s, w) PROVE FreshInv'
    <2>1. Send(s, "delete", "get", w, None, FALSE)
      BY <1>4 DEF DeleteWare
    <2>2. page' = page /\ w \in Listed(page[s].rows) /\ "get" \in Steps
      BY <1>4 DEF DeleteWare, browser, Steps
    <2>3. QED
      BY <2>1, <2>2, NoneType, FreshSend
  <1>5. ASSUME NEW w \in Wares, Tick(s, w) PROVE FreshInv'
    <2>1. UNCHANGED <<cart, thisHotel, calls, fresh>>
      BY <1>5 DEF Tick, store, history
    <2>2. PICK ticked : page' = [page EXCEPT ![s] = [page[s] EXCEPT !.ticked = ticked]]
      BY <1>5 DEF Tick
    <2>3. page[s] \in Page
      BY <1>1
    <2>4. page'[s].at = page[s].at /\ page'[s].rows = page[s].rows
      BY <1>1, <2>2, <2>3 DEF Page
    <2>5. \A t \in Tabs \ {s} : page'[t] = page[t]
      BY <1>1, <2>2
    <2>6. Of(s)' = Of(s) /\ InRedis' = InRedis
      BY <2>1 DEF Of, InRedis
    <2>7. \A c \in Calls : Serves(c, page[s].rows) => Serves(c, page[s].rows)'
      BY <2>1, <2>4, <2>6 DEF Serves
    <2>8. s \in fresh' => FreshOk(s)'
      BY <2>1, <2>4, <2>6, <2>7 DEF FreshInv, FreshOk, Of
    <2>9. QED
      BY <2>1, <2>5, <2>8, FreshStep
  <1>6. CASE SubmitOrder(s)
    <2>1. PICK w \in Wares : Send(s, "order", "insert", w, Wanted(s), Stale(s))
      BY <1>6 DEF SubmitOrder, Listed
    <2>2. page' = page /\ "insert" \in Steps
      BY <1>6 DEF SubmitOrder, Steps
    <2>3. QED
      BY <2>1, <2>2, WantedType, FreshSend
  <1>7. QED
    BY <1>2, <1>3, <1>4, <1>5, <1>6

\* A step of a call that leaves the cart and the pages alone.
LEMMA FreshGoes ==
    ASSUME TypeOK, FreshInv, NEW c \in Calls, calls[c] # Idle, NEW row \in Call,
           calls' = [calls EXCEPT ![c] = row], row.tab = calls[c].tab,
           UNCHANGED <<cart, thisHotel, page>>, fresh' \subseteq fresh,
           calls[c].tab \in fresh' => Serves(c, page[calls[c].tab].rows)'
    PROVE  FreshInv'
  <1>1. PICK t \in Tabs : t = calls[c].tab
    BY DEF TypeOK, Call
  <1>2. calls'[c] = row /\ \A d \in Calls \ {c} : calls'[d] = calls[d]
    BY DEF TypeOK
  <1>3. row # Idle /\ calls'[c].tab = t
    BY <1>1, <1>2
  <1>4. t \in fresh' => FreshOk(t)'
    <2> SUFFICES ASSUME t \in fresh' PROVE FreshOk(t)'
      OBVIOUS
    <2>1. t \in fresh
      OBVIOUS
    <2>2. page'[t].at = "cart"
      BY <2>1 DEF FreshInv, FreshOk
    <2>3. calls'[c] # Idle
      BY <1>2, <1>3
    <2>4. QED
      BY <1>1, <1>2, <1>3, <2>1, <2>2, <2>3, FreshTab
  <1>5. QED
    BY <1>1, <1>2, <1>3, <1>4, FreshCall

\* A call of a fresh page, as its page has it.
LEMMA FreshServes ==
    ASSUME TypeOK, FreshInv, NEW c \in Calls, calls[c] # Idle, calls[c].tab \in fresh
    PROVE  Serves(c, page[calls[c].tab].rows)
  BY DEF FreshInv, FreshOk, Of

LEMMA InsertFresh ==
    ASSUME TypeOK, FreshInv, NEW c \in Calls,
           InsertOrder(c) \/ \E w \in Wares : InsertLine(c, w)
    PROVE  FreshInv'
  <1>1. calls[c] # Idle /\ calls[c] \in Call /\ calls[c].pc \in {"insert", "line"}
    BY DEF InsertOrder, InsertLine, At, TypeOK
  <1>2. UNCHANGED <<cart, thisHotel, page, fresh>>
    BY DEF InsertOrder, InsertLine, browser, history
  <1> DEFINE Next1(row) == /\ calls' = [calls EXCEPT ![c] = row]
                           /\ row.tab = calls[c].tab /\ row.from = calls[c].from
                           /\ row.op = calls[c].op /\ row.pc \in {"line", "get"}
  <1>3. PICK row \in Call : Next1(row)
    <2>1. CASE InsertOrder(c)
      <3> DEFINE r == [calls[c] EXCEPT !.order = Len(orders) + 1, !.pc = "line"]
      <3>1. calls' = [calls EXCEPT ![c] = r]
        BY <2>1 DEF InsertOrder
      <3>2. Len(orders) + 1 \in Nat
        BY DEF TypeOK
      <3>3. /\ r \in Call /\ r.tab = calls[c].tab /\ r.from = calls[c].from
            /\ r.op = calls[c].op /\ r.pc \in {"line", "get"}
        BY <1>1, <3>2 DEF Call, Steps
      <3> HIDE DEF r
      <3>4. Next1(r)
        BY <3>1, <3>3
      <3> HIDE DEF Next1
      <3>5. QED
        BY <3>3, <3>4
    <2>2. ASSUME NEW w \in Wares, InsertLine(c, w) PROVE \E row \in Call : Next1(row)
      <3> DEFINE r == [calls[c] EXCEPT !.ware = w, !.pc = "get"]
      <3>1. calls' = [calls EXCEPT ![c] = r]
        BY <2>2 DEF InsertLine
      <3>2. /\ r \in Call /\ r.tab = calls[c].tab /\ r.from = calls[c].from
            /\ r.op = calls[c].op /\ r.pc \in {"line", "get"}
        BY <1>1 DEF Call, Steps
      <3> HIDE DEF r
      <3>3. Next1(r)
        BY <3>1, <3>2
      <3> HIDE DEF Next1
      <3>4. QED
        BY <3>2, <3>3
    <2> HIDE DEF Next1
    <2>3. QED
      BY <2>1, <2>2
  <1>6. calls'[c] = row
    BY <1>3 DEF TypeOK
  <1>7. calls[c].tab \in fresh => Serves(c, page[calls[c].tab].rows)'
    <2> SUFFICES ASSUME calls[c].tab \in fresh
                 PROVE  Serves(c, page[calls[c].tab].rows)'
      OBVIOUS
    <2>1. calls[c].op = "order" /\ calls[c].from = "here"
      BY <1>1, FreshServes DEF Serves
    <2>2. QED
      BY <1>3, <1>6, <2>1 DEF Serves
  <1>8. QED
    BY <1>1, <1>2, <1>3, <1>7, FreshGoes

LEMMA GetCartFresh ==
    ASSUME TypeOK, FreshInv, NEW c \in Calls, GetCart(c)
    PROVE  FreshInv'
  <1>1. calls[c] # Idle /\ calls[c] \in Call /\ calls[c].pc = "get"
    BY DEF GetCart, At, TypeOK
  <1>2. UNCHANGED <<cart, thisHotel, page, fresh>> /\ InRedis' = InRedis
    BY DEF GetCart, store, browser, history, InRedis
  <1> DEFINE Next1(row) ==
             /\ calls' = [calls EXCEPT ![c] = row]
             /\ row.tab = calls[c].tab /\ row.from = calls[c].from /\ row.op = calls[c].op
             /\ row.ware = calls[c].ware /\ row.want = calls[c].want
             /\ row.pc \in {"no", "put", "line", "ok"}
             /\ row.pc = "put" => row.copy = cart[thisHotel]
             /\ calls[c].op \in {"count", "delete"} /\ cart[thisHotel] # NoCart
                    => row.pc = "put"
  <1>3. PICK row \in Call : Next1(row)
    <2>1. ASSUME NEW pc \in {"no", "line", "ok"}, Goto(c, pc),
                 calls[c].op \in {"count", "delete"} => cart[thisHotel] = NoCart
          PROVE  \E row \in Call : Next1(row)
      <3> DEFINE r == [calls[c] EXCEPT !.pc = pc]
      <3>1. calls' = [calls EXCEPT ![c] = r]
        BY <2>1 DEF Goto
      <3>2. /\ r \in Call /\ r.tab = calls[c].tab /\ r.from = calls[c].from
            /\ r.op = calls[c].op /\ r.ware = calls[c].ware /\ r.want = calls[c].want
            /\ r.pc = pc
        BY <1>1 DEF Call, Steps, Answers
      <3> HIDE DEF r
      <3>3. Next1(r)
        BY <2>1, <3>1, <3>2
      <3> HIDE DEF Next1
      <3>4. QED
        BY <3>2, <3>3
    <2>2. AfterDeletion(c) \in {"line", "ok"}
      BY DEF AfterDeletion
    <2>3. CASE calls' = [calls EXCEPT ![c].copy = cart[thisHotel], ![c].pc = "put"]
      <3> DEFINE r == [calls[c] EXCEPT !.copy = cart[thisHotel], !.pc = "put"]
      <3>1. cart[thisHotel] \in Cart \cup {NoCart}
        BY DEF TypeOK
      <3>2. calls' = [calls EXCEPT ![c] = r]
        BY <2>3
      <3>3. /\ r \in Call /\ r.tab = calls[c].tab /\ r.from = calls[c].from
            /\ r.op = calls[c].op /\ r.ware = calls[c].ware /\ r.want = calls[c].want
            /\ r.copy = cart[thisHotel] /\ r.pc = "put"
        BY <1>1, <3>1 DEF Call, Steps
      <3> HIDE DEF r
      <3>4. Next1(r)
        BY <3>2, <3>3
      <3> HIDE DEF Next1
      <3>5. QED
        BY <3>3, <3>4
    <2> HIDE DEF Next1
    <2>4. QED
      BY <2>1, <2>2, <2>3 DEF GetCart
  <1>6. calls'[c] = row
    BY <1>3 DEF TypeOK
  <1>7. calls[c].tab \in fresh => Serves(c, page[calls[c].tab].rows)'
    <2> SUFFICES ASSUME calls[c].tab \in fresh
                 PROVE  Serves(c, page[calls[c].tab].rows)'
      OBVIOUS
    <2>1. Serves(c, page[calls[c].tab].rows)
      BY <1>1, FreshServes
    <2>2. CASE calls[c].op = "order"
      BY <1>3, <1>6, <2>1, <2>2 DEF Serves
    <2>3. CASE calls[c].op # "order"
      <3>1. InRedis[calls[c].ware] > 0 /\ calls[c].ware \in Wares
        BY <1>1, <2>1, <2>3 DEF Serves, Call
      <3>2. cart[thisHotel] # NoCart
        BY <3>1 DEF InRedis, NumsOf, None
      <3>3. row.pc = "put" /\ row.copy = cart[thisHotel]
        BY <1>3, <2>1, <2>3, <3>2 DEF Serves
      <3>4. /\ calls'[c].from = "here" /\ calls'[c].pc = "put"
            /\ calls'[c].copy = cart'[thisHotel'] /\ calls'[c].op = calls[c].op
            /\ calls'[c].ware = calls[c].ware /\ calls'[c].want = calls[c].want
            /\ page'[calls'[c].tab].rows = page[calls[c].tab].rows
        BY <1>2, <1>3, <1>6, <2>1, <3>3 DEF Serves
      <3>5. CASE calls[c].op = "count"
        <4>1. page[calls[c].tab].rows =
                  [InRedis EXCEPT ![calls[c].ware] = calls[c].want[calls[c].ware]]
          BY <1>1, <2>1, <3>5 DEF Serves
        <4>2. QED
          BY <1>2, <3>1, <3>4, <3>5, <4>1 DEF Serves
      <3>6. CASE calls[c].op = "delete"
        <4>1. page[calls[c].tab].rows = InRedis
          BY <1>1, <2>1, <3>6 DEF Serves
        <4>2. QED
          BY <1>2, <3>1, <3>4, <3>6, <4>1 DEF Serves
      <3>7. QED
        BY <2>1, <2>3, <3>5, <3>6 DEF Serves
    <2>4. QED
      BY <2>2, <2>3
  <1>8. QED
    BY <1>1, <1>2, <1>3, <1>7, FreshGoes

LEMMA PutCartFresh ==
    ASSUME TypeOK, FreshInv, NEW c \in Calls, PutCart(c)
    PROVE  FreshInv'
  <1> DEFINE t == calls[c].tab
             pc == AfterDeletion(c)
             row == [calls[c] EXCEPT !.copy = NoCart, !.pc = pc]
  <1>1. calls[c] # Idle /\ calls[c] \in Call /\ calls[c].pc = "put"
    BY DEF PutCart, At, TypeOK
  <1>2. UNCHANGED <<thisHotel, page>> /\ fresh' \subseteq fresh \cap {t}
    BY DEF PutCart, browser
  <1>3. pc \in {"line", "ok"} /\ (calls[c].op # "order" => pc = "ok")
    BY DEF AfterDeletion
  <1>4. calls' = [calls EXCEPT ![c] = row]
    BY DEF PutCart
  <1> HIDE DEF pc
  <1>5. /\ row \in Call /\ row.tab = calls[c].tab /\ row.from = calls[c].from
        /\ row.op = calls[c].op /\ row.ware = calls[c].ware /\ row.want = calls[c].want
        /\ row.pc = pc
    BY <1>1, <1>3 DEF Call, Steps, Answers
  <1> HIDE DEF row
  <1>6. calls'[c] = row /\ \A d \in Calls \ {c} : calls'[d] = calls[d]
    BY <1>4 DEF TypeOK
  <1>7. InRedis' = Changed(c)
    <2>1. cart'[thisHotel'] = Stored(c)
      BY <1>2 DEF PutCart, TypeOK
    <2>2. QED
      BY <1>1, <2>1, NumsOfStored DEF InRedis
  <1>8. ASSUME t \in fresh PROVE Serves(c, page[t].rows)'
    <2>1. Serves(c, page[t].rows)
      BY <1>1, <1>8, FreshServes
    <2>2. CASE calls[c].op = "order"
      BY <1>2, <1>3, <1>5, <1>6, <2>1, <2>2 DEF Serves
    <2>3. CASE calls[c].op # "order"
      <3> DEFINE w == calls[c].ware
                 n == calls[c].want[w]
      <3>1. calls[c].copy = cart[thisHotel] /\ InRedis[w] > 0
        BY <1>1, <2>1, <2>3 DEF Serves
      <3>2. Changed(c) = [InRedis EXCEPT ![w] = NewCount(calls[c].op, @, n)]
        BY <3>1 DEF Changed, InRedis
      <3>3. CASE calls[c].op = "count"
        <4>1. InRedis' = [InRedis EXCEPT ![w] = n]
          BY <1>7, <3>1, <3>2, <3>3 DEF NewCount
        <4>2. page[t].rows = [InRedis EXCEPT ![w] = n]
          BY <1>1, <2>1, <3>3 DEF Serves
        <4>3. QED
          BY <1>2, <1>3, <1>5, <1>6, <2>1, <3>3, <4>1, <4>2 DEF Serves
      <3>4. CASE calls[c].op = "delete"
        <4>1. InRedis' = [InRedis EXCEPT ![w] = 0]
          BY <1>7, <3>1, <3>2, <3>4 DEF NewCount
        <4>2. page[t].rows = InRedis
          BY <1>1, <2>1, <3>4 DEF Serves
        <4>3. QED
          BY <1>2, <1>3, <1>5, <1>6, <2>1, <3>4, <4>1, <4>2 DEF Serves
      <3>5. QED
        BY <2>1, <2>3, <3>3, <3>4 DEF Serves
    <2>4. QED
      BY <2>2, <2>3
  <1>9. ASSUME NEW u \in fresh' PROVE FreshOk(u)'
    <2>1. u = t /\ u \in fresh
      BY <1>2
    <2>2. page'[u].at = "cart"
      BY <1>2, <2>1 DEF FreshInv, FreshOk
    <2>3. calls'[c] # Idle /\ calls'[c].tab = u
      BY <1>5, <1>6, <2>1
    <2>4. Serves(c, page[u].rows)'
      BY <1>5, <1>6, <1>8, <2>1
    <2>5. QED
      BY <1>1, <1>6, <2>1, <2>2, <2>3, <2>4, FreshTab
  <1>10. QED
    BY <1>9 DEF FreshInv

LEMMA FailFresh ==
    ASSUME TypeOK, FreshInv, NEW c \in Calls, CutOff(c) \/ LoseAnswer(c)
    PROVE  FreshInv'
  <1>1. calls[c] # Idle /\ calls[c] \in Call
    BY DEF CutOff, LoseAnswer, Running, TypeOK
  <1>2. UNCHANGED <<cart, thisHotel, page>> /\ fresh' = fresh \ {calls[c].tab}
    BY DEF CutOff, LoseAnswer, Failed, store, browser
  <1>3. CASE CutOff(c)
    <2>1. PICK pc \in {"no", "error"} :
              calls' = [calls EXCEPT ![c] = [calls[c] EXCEPT !.pc = pc]]
      BY <1>3 DEF CutOff, Goto
    <2>2. [calls[c] EXCEPT !.pc = pc] \in Call
          /\ [calls[c] EXCEPT !.pc = pc].tab = calls[c].tab
      BY <1>1 DEF Call, Answers
    <2>3. calls[c].tab \in Tabs /\ calls'[c].tab = calls[c].tab
          /\ \A d \in Calls \ {c} : calls'[d] = calls[d]
      BY <1>1, <2>1, <2>2 DEF TypeOK, Call
    <2>4. QED
      BY <1>1, <1>2, <2>3, FreshCall
  <1>4. CASE LoseAnswer(c)
    <2>1. calls' = [calls EXCEPT ![c] = [calls[c] EXCEPT !.from = "gone"]]
      BY <1>4 DEF LoseAnswer
    <2>2. [calls[c] EXCEPT !.from = "gone"].tab = calls[c].tab
      BY <1>1 DEF Call
    <2>3. calls[c].tab \in Tabs /\ calls'[c].tab = calls[c].tab
          /\ \A d \in Calls \ {c} : calls'[d] = calls[d]
      BY <1>1, <2>1, <2>2 DEF TypeOK, Call
    <2>4. QED
      BY <1>1, <1>2, <2>3, FreshCall
  <1>5. QED
    BY <1>3, <1>4

\* The answer to a count finds the page as the cart is, that to a deletion
\* makes it so; after any other the tab shows another page.
LEMMA AnswerFresh ==
    ASSUME TypeOK, FreshInv, NEW c \in Calls, Answer(c) \/ DropAnswer(c)
    PROVE  FreshInv'
  <1>1. calls[c] # Idle /\ calls[c] \in Call /\ calls \in [Calls -> Call \cup {Idle}]
    BY DEF Answer, DropAnswer, TypeOK
  <1>2. PICK t \in Tabs : t = calls[c].tab
    BY <1>1 DEF Call
  <1>3. page \in [Tabs -> Page] /\ page[t].rows \in [Wares -> Nat]
    BY DEF TypeOK, Page, Nums
  <1>4. UNCHANGED <<cart, thisHotel>> /\ fresh' \subseteq fresh /\ InRedis' = InRedis
    BY DEF Answer, DropAnswer, store, InRedis
  <1>5. Ended(c) \in [Calls -> Call \cup {Idle}] /\ Ended(c)[c] = Idle
        /\ \A d \in Calls \ {c} : Ended(c)[d] = calls[d]
    BY <1>1, EndedType DEF Ended
  <1>6. \A d \in Calls :
            \/ calls'[d] = calls[d]
            \/ /\ calls[d] = Idle \/ calls[d].tab = t
               /\ calls'[d] = Idle \/ calls'[d].tab = t
    <2>1. CASE calls' = Ended(c)
      BY <1>2, <1>5, <2>1
    <2>2. CASE calls' = Leave(Ended(c), t, "left")
      <3>1. \A d \in Calls :
                \/ calls'[d] = Ended(c)[d]
                \/ /\ Ended(c)[d] # Idle /\ Ended(c)[d].tab = t
                   /\ calls'[d].tab = t
        BY <1>5, <2>2, LeaveOthers
      <3>2. QED
        BY <1>2, <1>5, <3>1
    <2>3. QED
      BY <1>2, <2>1, <2>2
         DEF Answer, DropAnswer, AnswerOrder, AnswerAdd, AnswerDelete, AnswerCount, GoTo
  <1>7. \A u \in Tabs \ {t} : page'[u] = page[u]
    BY <1>2, <1>3 DEF Answer, DropAnswer, AnswerOrder, AnswerAdd, AnswerDelete,
                      AnswerCount, GoTo, Show, Failed, browser
  <1>8. t \in fresh' => FreshOk(t)'
    <2> SUFFICES ASSUME t \in fresh' PROVE FreshOk(t)'
      OBVIOUS
    <2>1. t \in fresh /\ Serves(c, page[t].rows)
      BY <1>1, <1>2, <1>4, FreshServes
    <2>2. Answer(c) /\ page'[t].at = "cart"
      BY <2>1 DEF Answer, DropAnswer, Serves
    <2>3. ~AnswerOrder(c)
      <3>1. page[t] \in Page
        BY <1>3
      <3>2. [GoodsPage(page[t].shown) EXCEPT !.at = "orders"].at = "orders"
        BY DEF GoodsPage
      <3>3. QED
        BY <1>2, <1>3, <2>2, <3>2 DEF AnswerOrder, GoTo, Show
    <2>4. calls[c].op # "add" /\ calls[c].pc # "error"
      BY <2>1 DEF Serves
    <2>5. AnswerDelete(c) \/ AnswerCount(c)
      BY <2>2, <2>3, <2>4 DEF Answer, AnswerAdd
    <2>6. calls'[c] = Idle /\ \A d \in Calls \ {c} : calls'[d] = calls[d]
      BY <1>5, <2>5 DEF AnswerDelete, AnswerCount
    <2>7. page'[t].rows = InRedis'
      <3>1. CASE AnswerCount(c)
        <4>1. calls[c].op = "count" /\ calls[c].pc = "ok"
          BY <2>1, <3>1 DEF AnswerCount, Serves
        <4>2. page[t].rows = InRedis
          BY <2>1, <4>1 DEF Serves
        <4>3. QED
          BY <1>4, <3>1, <4>2 DEF AnswerCount, browser
      <3>2. CASE AnswerDelete(c)
        <4>1. calls[c].op = "delete" /\ calls[c].pc = "ok" /\ calls[c].from = "here"
          BY <2>1, <3>2 DEF AnswerDelete, Serves
        <4>2. InRedis = [page[t].rows EXCEPT ![calls[c].ware] = 0]
          BY <2>1, <4>1 DEF Serves
        <4>3. page' = [page EXCEPT ![t] = [page[t] EXCEPT !.rows =
                  [page[t].rows EXCEPT ![calls[c].ware] = 0]]]
          BY <1>2, <3>2, <4>1 DEF AnswerDelete
        <4>4. page[t] \in Page
          BY <1>3
        <4>5. page'[t].rows = [page[t].rows EXCEPT ![calls[c].ware] = 0]
          BY <1>3, <4>3, <4>4 DEF Page
        <4>6. QED
          BY <1>4, <4>2, <4>5
      <3>3. QED
        BY <2>5, <3>1, <3>2
    <2>8. QED
      BY <1>1, <1>2, <2>1, <2>2, <2>6, <2>7, FreshTab
  <1>9. QED
    BY <1>4, <1>6, <1>7, <1>8, FreshStep

LEMMA FreshNext == TypeOK /\ FreshInv /\ [Next]_vars => FreshInv'
  <1> SUFFICES ASSUME TypeOK, FreshInv, [Next]_vars PROVE FreshInv'
    OBVIOUS
  <1>1. ASSUME NEW t \in Tabs, User(t) PROVE FreshInv'
    <2>1. CASE (\E h \in Hotels : OpenMain(t, h)) \/ OpenCart(t) \/ OpenGoods(t)
      BY <2>1, OpenFresh
    <2>2. CASE \/ \E w \in Wares, n \in Entries : AddToCart(t, w, n) \/ UpdateCount(t, w, n)
               \/ \E w \in Wares : DeleteWare(t, w) \/ Tick(t, w)
               \/ SubmitOrder(t)
      BY <2>2, SendFresh
    <2>3. QED
      BY <1>1, <2>1, <2>2 DEF User
  <1>2. ASSUME NEW c \in Calls, Server(c) PROVE FreshInv'
    BY <1>2, InsertFresh, GetCartFresh, PutCartFresh DEF Server
  <1>3. ASSUME NEW c \in Calls, CutOff(c) \/ LoseAnswer(c) PROVE FreshInv'
    BY <1>3, FailFresh
  <1>4. ASSUME NEW c \in Calls, Answer(c) \/ DropAnswer(c) PROVE FreshInv'
    BY <1>4, AnswerFresh
  <1>5. CASE UNCHANGED vars
    BY <1>5 DEF vars, store, browser, history, FreshInv, FreshOk, Of, Serves, InRedis
  <1>6. QED
    BY <1>1, <1>2, <1>3, <1>4, <1>5 DEF Next

LEMMA FreshShows == FreshInv => PageShowsCart
  BY DEF FreshInv, FreshOk, Of, InRedis, Waiting, PageShowsCart

\* What a cart page shows is what redis holds, as long as only that page
\* changes the cart, one call at a time, and none of its calls fails: each
\* callback of the cart page leaves the page as the server left the cart.
THEOREM ShopPageShowsCart == Spec => []PageShowsCart
  <1>1. Init => FreshInv
    BY DEF Init, FreshInv
  <1>2. QED
    BY <1>1, FreshNext, FreshShows, ShopTypeOK, PTL DEF Spec

-----------------------------------------------------------------------------
(* Locks. The call a page locked itself for is one row of calls.           *)

Submits(row, t) ==
    row # Idle /\ row.tab = t /\ row.from = "here" /\ row.op \in {"add", "order"}

LEMMA SubmittingIs ==
    \A t \in Tabs : /\ Submitting(t) = {c \in Calls : Submits(calls[c], t)}
                    /\ Submitting(t)' = {c \in Calls : Submits(calls'[c], t)}
  BY DEF Submitting, Submits

LEMMA SameSubmitting ==
    ASSUME NEW t \in Tabs,
           \A c \in Calls : Submits(calls'[c], t) <=> Submits(calls[c], t)
    PROVE  Submitting(t)' = Submitting(t)
  BY DEF Submitting, Submits

\* A step after which the same calls submit for the same tabs.
LEMMA SameLocks ==
    ASSUME LockHasCall, UNCHANGED locked,
           \A c \in Calls, t \in Tabs : Submits(calls'[c], t) <=> Submits(calls[c], t)
    PROVE  LockHasCall'
  <1>1. \A t \in Tabs : Submitting(t)' = Submitting(t)
    BY SameSubmitting
  <1>2. QED
    BY <1>1 DEF LockHasCall

\* One call changes, and neither its row before nor the one after submits.
LEMMA SilentCall ==
    ASSUME LockHasCall, UNCHANGED locked, NEW c \in Calls,
           \A d \in Calls \ {c} : calls'[d] = calls[d],
           \A t \in Tabs : ~Submits(calls[c], t) /\ ~Submits(calls'[c], t)
    PROVE  LockHasCall'
  <1>1. \A d \in Calls, t \in Tabs : Submits(calls'[d], t) <=> Submits(calls[d], t)
    OBVIOUS
  <1>2. QED
    BY <1>1, SameLocks

\* The tab shows another page and leaves the one it had.
LEMMA LeaveLocks ==
    ASSUME LockHasCall, NEW cs \in [Calls -> Call \cup {Idle}], NEW s \in Tabs,
           NEW from \in {"left", "gone"},
           \A c \in Calls : cs[c] = calls[c] \/ (cs[c] = Idle /\ calls[c] # Idle /\ calls[c].tab = s),
           calls' = Leave(cs, s, from), locked' = locked \ {s}
    PROVE  LockHasCall'
  <1>1. ASSUME NEW c \in Calls PROVE ~Submits(calls'[c], s)
    <2>1. CASE cs[c] # Idle /\ cs[c].tab = s /\ cs[c].from # "gone"
      <3>1. cs[c] \in Call
        BY <2>1
      <3>2. calls'[c] = [cs[c] EXCEPT !.from = from]
        BY <2>1 DEF Leave
      <3>3. calls'[c].from = from
        BY <3>1, <3>2 DEF Call
      <3>4. QED
        BY <3>3 DEF Submits
    <2>2. CASE ~(cs[c] # Idle /\ cs[c].tab = s /\ cs[c].from # "gone")
      BY <2>2 DEF Leave, Submits
    <2>3. QED
      BY <2>1, <2>2
  <1>2. ASSUME NEW c \in Calls, NEW t \in Tabs \ {s}
        PROVE  Submits(calls'[c], t) <=> Submits(calls[c], t)
    <2>1. Submits(cs[c], t) <=> Submits(calls[c], t)
      BY DEF Submits
    <2>2. Submits(calls'[c], t) <=> Submits(cs[c], t)
      BY LeaveOthers DEF Submits
    <2>3. QED
      BY <2>1, <2>2
  <1>3. Submitting(s)' = {}
    BY <1>1, SubmittingIs
  <1>4. \A t \in Tabs \ {s} : Submitting(t)' = Submitting(t)
    BY <1>2, SameSubmitting
  <1>5. QED
    BY <1>3, <1>4 DEF LockHasCall

\* A call is sent, with the lock when its page takes one.
LEMMA SendLocks ==
    ASSUME TypeOK, LockHasCall, NEW s \in Tabs,
           NEW op \in {"add", "count", "delete", "order"}, NEW pc \in Steps,
           NEW w \in Wares, NEW want \in Nums, NEW stale,
           Send(s, op, pc, w, want, stale),
           IF op \in {"add", "order"} THEN s \notin locked /\ locked' = locked \cup {s}
                                     ELSE UNCHANGED locked
    PROVE  LockHasCall'
  <1> DEFINE new == [op |-> op, tab |-> s, from |-> "here", pc |-> pc,
                     hotel |-> page[s].hotel, shown |-> page[s].shown,
                     want |-> want, ware |-> w, copy |-> NoCart, order |-> 0]
  <1>1. PICK c \in Calls : calls[c] = Idle /\ calls' = [calls EXCEPT ![c] = new]
    BY DEF Send
  <1>2. new.op = op /\ new.tab = s /\ new.from = "here"
    OBVIOUS
  <1>0. new \in Call
    BY DEF Call, TypeOK, Page
  <1> HIDE DEF new
  <1>3. calls'[c] = new /\ \A d \in Calls \ {c} : calls'[d] = calls[d]
    BY <1>1 DEF TypeOK
  <1>4. \A t \in Tabs : ~Submits(calls[c], t)
    BY <1>1 DEF Submits
  <1>5. \A t \in Tabs : Submits(calls'[c], t) => t = s /\ op \in {"add", "order"}
    BY <1>2, <1>3 DEF Submits
  <1>6. CASE op \notin {"add", "order"}
    BY <1>3, <1>4, <1>5, <1>6, SilentCall
  <1>7. CASE op \in {"add", "order"}
    <2>1. Submitting(s) = {}
      BY <1>7 DEF LockHasCall
    <2>2. Submitting(s)' \subseteq {c}
      BY <1>3, <2>1, SubmittingIs
    <2>3. calls'[c] # Idle
      BY <1>0, <1>3
    <2>4. Submitting(s)' = {c}
      BY <1>2, <1>3, <1>7, <2>2, <2>3, SubmittingIs DEF Submits
    <2>5. ASSUME NEW t \in Tabs \ {s} PROVE Submitting(t)' = Submitting(t)
      <3>1. \A d \in Calls : Submits(calls'[d], t) <=> Submits(calls[d], t)
        BY <1>3, <1>4, <1>5
      <3>2. QED
        BY <3>1, SameSubmitting
    <2>6. QED
      BY <1>7, <2>4, <2>5 DEF LockHasCall
  <1>8. QED
    BY <1>6, <1>7

\* The callback of an http error, and the call it belongs to is over.
LEMMA FailLocks ==
    ASSUME LockHasCall, NEW c \in Calls, calls[c] # Idle, Failed(c),
           \A d \in Calls \ {c} : calls'[d] = calls[d],
           calls'[c] = Idle \/ calls'[c].from = "gone"
    PROVE  LockHasCall'
  <1>1. \A t \in Tabs : ~Submits(calls'[c], t)
    BY DEF Submits
  <1>2. CASE \A t \in Tabs : ~Submits(calls[c], t)
    <2>1. \A t \in Tabs : t \in locked' <=> t \in locked
      BY <1>2 DEF Failed, Submits
    <2>2. ASSUME NEW t \in Tabs PROVE Submitting(t)' = Submitting(t)
      <3>1. \A d \in Calls : Submits(calls'[d], t) <=> Submits(calls[d], t)
        BY <1>1, <1>2
      <3>2. QED
        BY <3>1, SameSubmitting
    <2>3. QED
      BY <2>1, <2>2 DEF LockHasCall
  <1>3. ASSUME NEW t \in Tabs, Submits(calls[c], t)
        PROVE  LockHasCall'
    <2>1. locked' = locked \ {t}
      BY <1>3 DEF Failed, Submits
    <2>2. Submitting(t) = {c}
      BY <1>3, SubmittingIs DEF LockHasCall
    <2>3. Submitting(t)' = {}
      BY <1>1, <2>2, SubmittingIs
    <2>4. \A u \in Tabs \ {t} : ~Submits(calls[c], u)
      BY <1>3 DEF Submits
    <2>5. ASSUME NEW u \in Tabs \ {t} PROVE Submitting(u)' = Submitting(u)
      <3>1. \A d \in Calls : Submits(calls'[d], u) <=> Submits(calls[d], u)
        BY <1>1, <2>4
      <3>2. QED
        BY <3>1, SameSubmitting
    <2>6. QED
      BY <2>1, <2>3, <2>5 DEF LockHasCall
  <1>4. QED
    BY <1>2, <1>3

LEMMA UserLocks ==
    ASSUME TypeOK, LockHasCall, NEW t \in Tabs, User(t) PROVE LockHasCall'
  <1>0. calls \in [Calls -> Call \cup {Idle}]
    BY DEF TypeOK
  <1>1. ASSUME NEW h \in Hotels, OpenMain(t, h) PROVE LockHasCall'
    BY <1>0, <1>1, LeaveLocks DEF OpenMain, Show
  <1>2. CASE OpenCart(t)
    BY <1>0, <1>2, LeaveLocks DEF OpenCart, Show
  <1>3. CASE OpenGoods(t)
    BY <1>0, <1>3, LeaveLocks DEF OpenGoods, Show
  <1>4. ASSUME NEW w \in Wares, NEW n \in Entries, AddToCart(t, w, n) PROVE LockHasCall'
    <2>1. Send(t, "add", "get", w, Only(w, n), FALSE)
      BY <1>4 DEF AddToCart
    <2>2. QED
      BY <1>4, <2>1, OnlyType, SendLocks DEF AddToCart, Steps
  <1>5. ASSUME NEW w \in Wares, NEW n \in Entries, UpdateCount(t, w, n) PROVE LockHasCall'
    <2>1. Send(t, "count", "get", w, Only(w, n), FALSE)
      BY <1>5 DEF UpdateCount
    <2>2. QED
      BY <1>5, <2>1, OnlyType, SendLocks DEF UpdateCount, Steps
  <1>6. ASSUME NEW w \in Wares, DeleteWare(t, w) PROVE LockHasCall'
    <2>1. Send(t, "delete", "get", w, None, FALSE)
      BY <1>6 DEF DeleteWare
    <2>2. QED
      BY <1>6, <2>1, NoneType, SendLocks DEF DeleteWare, Steps, browser
  <1>7. ASSUME NEW w \in Wares, Tick(t, w) PROVE LockHasCall'
    BY <1>7 DEF Tick, LockHasCall, Submitting
  <1>8. CASE SubmitOrder(t)
    <2>1. PICK w \in Wares : Send(t, "order", "insert", w, Wanted(t), Stale(t))
      BY <1>8 DEF SubmitOrder, Listed
    <2>2. QED
      BY <1>8, <2>1, WantedType, SendLocks DEF SubmitOrder, Steps
  <1>9. QED
    BY <1>1, <1>2, <1>3, <1>4, <1>5, <1>6, <1>7, <1>8 DEF User

\* A step of the server, or its failure, changes no more of a call than how far
\* it has come, what it has read and the order it writes.
LEMMA ServerLocks ==
    ASSUME TypeOK, LockHasCall, NEW c \in Calls, Server(c) \/ CutOff(c) PROVE LockHasCall'
  <1>1. calls[c] # Idle /\ calls[c] \in Call
    BY DEF Server, InsertOrder, InsertLine, GetCart, PutCart, CutOff, Running, At, TypeOK
  <1>2. UNCHANGED locked
    BY DEF Server, InsertOrder, InsertLine, GetCart, PutCart, CutOff, browser
  <1> DEFINE Same(row) == /\ row \in Call
                          /\ row.tab = calls[c].tab /\ row.from = calls[c].from
                          /\ row.op = calls[c].op
  <1>3. \E row : /\ Same(row)
                 /\ calls' = [calls EXCEPT ![c] = row]
    <2>1. CASE InsertOrder(c)
      <3> DEFINE row == [calls[c] EXCEPT !.order = Len(orders) + 1, !.pc = "line"]
      <3>1. Len(orders) + 1 \in Nat
        BY DEF TypeOK
      <3>2. Same(row)
        BY <1>1, <3>1 DEF Call, Steps
      <3>3. calls' = [calls EXCEPT ![c] = row]
        BY <2>1 DEF InsertOrder
      <3> HIDE DEF row, Same
      <3>4. QED
        BY <3>2, <3>3
    <2>2. ASSUME NEW w \in Wares, InsertLine(c, w)
          PROVE  \E row : Same(row) /\ calls' = [calls EXCEPT ![c] = row]
      <3> DEFINE row == [calls[c] EXCEPT !.ware = w, !.pc = "get"]
      <3>1. Same(row)
        BY <1>1 DEF Call, Steps
      <3>2. calls' = [calls EXCEPT ![c] = row]
        BY <2>2 DEF InsertLine
      <3> HIDE DEF row, Same
      <3>3. QED
        BY <3>1, <3>2
    <2>3. ASSUME NEW pc \in Steps \cup Answers, Goto(c, pc)
          PROVE  \E row : Same(row) /\ calls' = [calls EXCEPT ![c] = row]
      <3> DEFINE row == [calls[c] EXCEPT !.pc = pc]
      <3>1. Same(row)
        BY <1>1 DEF Call
      <3>2. calls' = [calls EXCEPT ![c] = row]
        BY <2>3 DEF Goto
      <3> HIDE DEF row, Same
      <3>3. QED
        BY <3>1, <3>2
    <2>4. CASE GetCart(c)
      <3> DEFINE row == [calls[c] EXCEPT !.copy = cart[thisHotel], !.pc = "put"]
      <3>1. Same(row)
        BY <1>1 DEF Call, Steps, TypeOK
      <3>2. CASE calls' = [calls EXCEPT ![c].copy = cart[thisHotel], ![c].pc = "put"]
        <4>1. calls' = [calls EXCEPT ![c] = row]
          BY <3>2
        <4> HIDE DEF row, Same
        <4>2. QED
          BY <3>1, <4>1
      <3>3. CASE Goto(c, "no") \/ Goto(c, AfterDeletion(c))
        BY <2>3, <3>3, RemainingType DEF Answers
      <3>4. QED
        BY <2>4, <3>2, <3>3 DEF GetCart
    <2>5. CASE PutCart(c)
      <3> DEFINE row == [calls[c] EXCEPT !.copy = NoCart, !.pc = AfterDeletion(c)]
      <3>1. Same(row)
        BY <1>1, RemainingType DEF Call
      <3>2. calls' = [calls EXCEPT ![c] = row]
        BY <2>5 DEF PutCart
      <3> HIDE DEF row, Same
      <3>3. QED
        BY <3>1, <3>2
    <2>6. CASE CutOff(c)
      BY <2>3, <2>6 DEF CutOff, Answers
    <2>7. QED
      BY <2>1, <2>2, <2>4, <2>5, <2>6 DEF Server
  <1>4. PICK row : Same(row) /\ calls' = [calls EXCEPT ![c] = row]
    BY <1>3
  <1>5. \A d \in Calls, t \in Tabs : Submits(calls'[d], t) <=> Submits(calls[d], t)
    <2>1. row # Idle
      BY <1>4
    <2>2. calls'[c] = row /\ \A d \in Calls \ {c} : calls'[d] = calls[d]
      BY <1>4 DEF TypeOK
    <2>3. QED
      BY <1>1, <1>4, <2>1, <2>2 DEF Submits
  <1>6. QED
    BY <1>2, <1>5, SameLocks

LEMMA AnswerLocks ==
    ASSUME TypeOK, LockHasCall, NEW c \in Calls, Answer(c) \/ LoseAnswer(c) \/ DropAnswer(c)
    PROVE  LockHasCall'
  <1>1. calls[c] # Idle /\ calls[c] \in Call
    BY DEF Answer, LoseAnswer, DropAnswer, TypeOK
  <1>2. Ended(c) \in [Calls -> Call \cup {Idle}]
    BY EndedType
  <1>3. Ended(c)[c] = Idle /\ \A d \in Calls \ {c} : Ended(c)[d] = calls[d]
    BY DEF Ended, TypeOK
  <1>4. ASSUME NEW p, GoTo(c, p) PROVE LockHasCall'
    <2>1. PICK s \in Tabs : s = calls[c].tab
      BY <1>1 DEF Call
    <2>2. calls' = Leave(Ended(c), s, "left") /\ locked' = locked \ {s}
      BY <1>4, <2>1 DEF GoTo, Show
    <2>3. ASSUME NEW d \in Calls
          PROVE  \/ Ended(c)[d] = calls[d]
                 \/ Ended(c)[d] = Idle /\ calls[d] # Idle /\ calls[d].tab = s
      <3>1. CASE d = c
        BY <1>1, <1>3, <2>1, <3>1
      <3>2. CASE d # c
        BY <1>3, <3>2
      <3>3. QED
        BY <3>1, <3>2
    <2>4. QED
      BY <1>2, <2>2, <2>3, LeaveLocks
  <1>5. ASSUME Failed(c), calls' = Ended(c) PROVE LockHasCall'
    BY <1>1, <1>3, <1>5, FailLocks
  <1>6. ASSUME calls' = Ended(c), UNCHANGED locked,
               calls[c].op \notin {"add", "order"} \/ calls[c].from = "gone"
        PROVE  LockHasCall'
    <2>1. \A t \in Tabs : ~Submits(calls[c], t) /\ ~Submits(calls'[c], t)
      BY <1>3, <1>6 DEF Submits
    <2>2. QED
      BY <1>3, <1>6, <2>1, SilentCall
  <1>7. CASE Answer(c)
    <2>1. CASE AnswerOrder(c)
      BY <1>4, <2>1 DEF AnswerOrder
    <2>2. CASE AnswerAdd(c)
      BY <1>4, <1>5, <2>2 DEF AnswerAdd
    <2>3. CASE AnswerDelete(c)
      BY <1>6, <2>3 DEF AnswerDelete
    <2>4. CASE AnswerCount(c)
      BY <1>6, <2>4 DEF AnswerCount, browser
    <2>5. CASE calls[c].pc = "error" /\ Failed(c) /\ calls' = Ended(c)
      BY <1>5, <2>5
    <2>6. QED
      BY <1>7, <2>1, <2>2, <2>3, <2>4, <2>5 DEF Answer
  <1>8. CASE LoseAnswer(c)
    <2>1. calls'[c].from = "gone" /\ \A d \in Calls \ {c} : calls'[d] = calls[d]
      BY <1>1, <1>8 DEF LoseAnswer, TypeOK, Call
    <2>2. QED
      BY <1>1, <1>8, <2>1, FailLocks DEF LoseAnswer
  <1>9. CASE DropAnswer(c)
    BY <1>6, <1>9 DEF DropAnswer, browser
  <1>10. QED
    BY <1>7, <1>8, <1>9

LEMMA LockNext == TypeOK /\ LockHasCall /\ [Next]_vars => LockHasCall'
  <1> SUFFICES ASSUME TypeOK, LockHasCall, [Next]_vars PROVE LockHasCall'
    OBVIOUS
  <1>1. ASSUME NEW t \in Tabs, User(t) PROVE LockHasCall'
    BY <1>1, UserLocks
  <1>2. ASSUME NEW c \in Calls, Server(c) \/ CutOff(c) PROVE LockHasCall'
    BY <1>2, ServerLocks
  <1>3. ASSUME NEW c \in Calls, Answer(c) \/ LoseAnswer(c) \/ DropAnswer(c) PROVE LockHasCall'
    BY <1>3, AnswerLocks
  <1>4. CASE UNCHANGED vars
    BY <1>4 DEF vars, browser, LockHasCall, Submitting
  <1>5. QED
    BY <1>1, <1>2, <1>3, <1>4 DEF Next

\* A page is locked exactly while one call that it locked itself for is under
\* way: the lock is set with the call and every callback of that call gives it
\* back, and no callback of a page the tab has left opens the page it finds.
THEOREM ShopLockHasCall == Spec => []LockHasCall
  <1>1. Init => LockHasCall
    BY DEF Init, LockHasCall, Submitting
  <1>2. QED
    BY <1>1, LockNext, ShopTypeOK, PTL DEF Spec
=============================================================================
