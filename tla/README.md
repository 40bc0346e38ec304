# A verification development for the hotel manager system

The hotel manager system (`src/`, a Spring MVC application) is where hotels
describe themselves, are reviewed by sales staff and published to guests,
choose how they are settled, answer their bills and buy supplies. This
directory holds TLA+ models of its core logic, TLC configurations that check
them on small instances, and proofs that the TLA+ proof system TLAPS checks
for all values of the constants.

Paths below are relative to `src/src/main/java/com/mk/hms/` unless they say
otherwise.

## 1. Inventory

### Facts that shape every model

* **No transactions.** Services are annotated `@Transactional`, but no Spring
  context has `tx:annotation-driven`, the only transaction pointcut names the
  package `com.mk.ots.service`, which does not exist
  (`spring/applicationContext-db.xml:80-83` under `src/src/main/resources`), and AspectJ weaving is
  commented out. Every mapper call commits on its own: in every model *one
  statement is one action*, and whatever a request has written before it dies
  stays.
* **Several web nodes.** The application runs on several nodes. Each has its
  own Quartz scheduler with an in-memory job store, so each runs every job.
* **Sessions are stale.** A session holds the row of the hotel that was opened
  last. Some saves write that held row back as a whole.
* **Requests of one browser overlap.** A page keeps working while another tab
  opens a second hotel in the same session.

### Components

| component | state | operations | interacts with | hard behaviour | what makes it correct |
|---|---|---|---|---|---|
| rule switch and early billing (`HotelMessageController.saveHotelRule`, `HmsHotelRuleService`, `quartz/`) | `h_hotel_rule`, rule columns of `e_hotel` and `t_hotel`, thread pools | save a rule; midnight job; hourly bill job; sync and bill tasks | bill service over HTTP, the hotel tables | two nodes, crash, lost answers, full pools, requests across midnight | rows, published rule and bills agree; one early bill a day; no claim is stranded; a rule is billed on its day |
| editing, submitting, reviewing, publishing a hotel (`HotelController`, `HotelMessageController`, helper, `HotelService`) | `e_hotel`, `t_hotel`, room and facility tables, the OTS cache, sessions, pages | open, save (three ways), submit, review, off line, on line | OTS interface over HTTP, sessions | stale rows, two reviewers, partial copies, refused or broken calls | what was reviewed is published, cached, with its rooms; no submission is lost |
| bill confirmation, objections, appeals (`BillService`, `BillSpecialService`, `FeedbackController`) | `b_bill_confirm_check`, `bill_special`, their audit tables, `t_bill_feedback` | confirm, object, appeal | the back office through the same tables | two users, whole rows written back, logout between two statements | flow of the statuses; an objection has its amount; a decision has its audit record; one appeal |
| shopping cart and orders (`webapp/main/shopping/js/shopping-module.js`, `ShoppingController`, `WareShoppingCartService`, `OrderShoppingService`) | the pages with their locks and copies of the cart, the cart in redis, `order_shopping`, `order_detail`, the hotel of the session | open a page, add, change a count, delete, tick, order, cancel | pages and server over HTTP, redis, the session | get and put in two steps, calls that overlap, lost answers, an order line by line | an order moves its goods and loses none; a page shows what redis holds; a page does not stay locked |
| sync server client, push (`server/`, `websocket/`, `webapp/js/hms-controller.js`, `router-config.js`) | the static channel and session id, the map of browser sockets; on the page a flag, a queue, a timer and windows | connect, reconnect, name the session, say hello, push; fetch, show, close | external sync server, browsers, the order interface | reconnecting, a null or dead channel, replaced sockets, a queue emptied by a timer, a window service that remembers one window | orders are handled one at a time, in order, none lost; who says hello hears of orders |
| PMS installation (`HotelMessageController:411-460, 918-996`, `home-jin-module.js`) | `pms`, `pmsStatus`, `state` of `e_hotel`, the row in the session, lists and windows of pages | list, open, install old, install new; token login | PMS over HTTP and through the table, saves of the session's row | two hotels race for one code; the PMS moves on while a call is under way; a stale row brings an old code back | one hotel per code; a hotel in use stays connected |
| verification codes (`SmsService`, `HmsRedisCacheUtils`, `BankService`) | cache with expiry | send, verify, use | SMS service | check then send, expiry | at most one valid code; the code that was sent is valid |
| request log pool (`HmsThreadPool`, `log/`, `aop/`) | queue of 1000, 5 to 10 threads | log after a request | log table | full queue blocks requests | a request ends |
| room types, prices, room settings | `e_roomtype_info`, `e_baseprice`, strategies | forms | the review copies them | none beyond a race for the first insert | |
| login, users | sessions, user tables | log in, out, choose a hotel | Spring security | expiry within a request | modelled as `logout` where it matters |
| queries, statistics, comments, logs, kafka, uploads, 2-D codes | none, or append only | | | | |

`PROJECT.json` lists every component with its sources, those that are not
modelled with the reason, and under `hazards` each behaviour that is hard to
test at the line where it bites.

## 2. Modules

| module | role |
|---|---|
| `RuleLifecycle` | abstract rule book: what a rule change promises, without nodes, clock, tasks |
| `HotelRule` | rule switch and early billing, statement by statement |
| `HotelRule_proofs` | invariants of `HotelRule`, and that it implements `RuleLifecycle` |
| `ReviewCycle` | abstract promise to owner and guests: hand in, show, give back |
| `HotelReview` | drafts, submissions, reviews, off and on line, statement by statement |
| `HotelReview_proofs`, `HotelReviewAlone_proofs` | its invariants for any owners and reviewers, and for one of each; that it implements `ReviewCycle` |
| `BillConfirm`, `BillConfirm_proofs` | a hotel's answers to its bills |
| `ShoppingCart`, `ShoppingCart_proofs` | the shop's pages, the cart in redis, orders line by line |
| `OrderDesk` | abstract desk: one order on it, the others in line behind it |
| `OrderPush`, `OrderPush_proofs` | the sync connection, websockets, and a page's flag, queue, timers and windows; that they implement `OrderDesk` |
| `PmsInstall`, `PmsInstall_proofs` | connecting a hotel to its PMS, statement by statement |
| `MCHotelRule`, `MCHotelReview`, `MCBillConfirm`, `MCShoppingCart`, `MCOrderPush`, `MCPmsInstall` | instances and symmetry sets for TLC |

In every model a request or a task is a record with the data it has read and a
program counter `pc` that names its next statement. A reader finds the code of
an action through `map` in `PROJECT.json`. Definitions under a comment
`Mutant:` are not part of the specification: each is a plausible bug in the
definition that follows it, and each property is violated when its mutant
takes that definition's place.

### HotelRule

`rule` is `h_hotel_rule`; `tHotel` and `eHotel` are the rule codes of the
published and the draft hotel; `tasks[n]` holds the tasks in node n's pools;
`bills` counts what the bill service has made. Time is `day` and `slot`
(midnight, then the hourly runs); `due` are the nodes whose trigger has not
fired yet.

* `SaveHotelRule`, then `ComputeEffectDate` and `InsertHotelRule` (rule B) or
  `UpdateHotelRuleToA` (rule A): the statements of `saveHotelRule`. The date is
  computed in a step of its own, so that a request may be held up across
  midnight. `RequestFails` ends it between statements.
* `HotelRuleJob` and `BillRuleJob` list rows and fill the pool; a full pool
  rejects a task and the rest of the list is dropped (`Submit`).
* `UpdateThotel`, `UpdateEhotel`, `SyncState`: the three statements of
  `syncHotelRule`. `BillLock`/`BillSkip`, `PostSucceeds`/`PostFails`/
  `PostReplyLost`, `BillSuccess`/`BillFailure`: `executeBillTask`.
  `UpdateState` moves *all* rows of the hotel in a state, as the SQL does.
* Faults: `Crash`/`Restart` of a node, a statement that throws (`TaskFails`,
  `RequestFails`), a bill service that refuses, an answer that is lost.

Left out: the wording of requests and logs; `isthreshold` (a copy of one more
column in the same statements); the rule name. The hotels of the model are
published. One that is not has no row in `t_hotel`: `updateThotel` then touches
no row, nobody looks at its result, and `updateState` advances the row all the
same (`HotelRuleMapper.xml:21`, `HmsHotelRuleService:69`); the rule of such a
hotel reaches `t_hotel` with its first publication, which inserts the rule code
of the draft.

### HotelReview

`draft` is `e_hotel`, `pub` is `t_hotel` (`visible` and `online` are always
written together), `rooms`, `facilities` and `services` are the copied detail
tables, `cache` is what the OTS system answers from. A hotel's texts are one
version number; `saves` makes versions unique and `submitted` remembers what
the owner submitted last. `held` is what a session holds, `pages` which hotels
its pages still offer for review.

* Saving in the three ways of the code: `SaveHeldRow` (the whole row of the
  session), `ReadRow` and `WriteRow` (a fresh read, the whole row), `SavePic`
  (one column).
* `SubmitRead`, `SubmitWrite`: `submitHotlInfo`.
* `StartReview` to `Accept`: `checkEHotel` and `copyEHotel2THotel`, table by
  table, the HTTP call with its four outcomes, and the return of the draft.
* `StartOffline`, `StartOnline` and their steps, with the undo of a refused
  call.

Two properties are about the detail tables. `ServicesComeBack` is about two
reviews of one hotel that drop and add each other's rows; `AcceptedIsWhole` is
about reviews that are cut off: the hotel they leave bare is still under
review, and the review that ends this puts everything back.

`ReviewCycle` is what an owner and the guests may expect: texts that were handed
in wait, guests see texts only while something waits, never older than what was
handed in or than what they have seen, and the hotel is given back when they see
what was handed in. The mapping reads the phase from the state of the draft
(both states under review are *submitted*) and what guests see from `t_hotel`.
It needs `Alone` (section 5): with two reviewers the one who read the row first
may write it last, and guests are put back to older texts.

Left out: hotels whose PMS is not installed or whose required items are
missing (they are refused before anything changes); bed numbers, base prices,
room settings and business zones of the copy; `updateHotelLocation`; the kafka
message after a review; the rule code. The statement that *updates* `t_hotel` in
a review does not touch `rulecode`, so the review of a published hotel leaves
the published rule to `HotelRule`. Two other statements do write the column: the
insert of a first publication copies it from the draft
(`THotelMapperExt.xml:161,174`), and a save of the whole row writes the
`e_hotel.rulecode` that was read (`EHotelMapper.xml:944`), which may put an older
rule back into the draft. Neither is modelled, and the two modules are not
composed.

### BillConfirm

`bill` holds the rows of both bill tables, `audit` what was filed, `appeals`
the number of rows of `t_bill_feedback` per bill. `overlapped` and `cutOff` are
history: which bills ever had two requests at once, and whose decision was cut
off before it was filed.

* `ReadConfirm`, `WriteConfirm`, `File`: `simpleHmsConfirmBillAmount`.
* `ReadObjection`, `WriteAmount`, `WriteDisagree`, `File`:
  `simpleHmsCheckBillAmount`. `WriteAmount` writes the whole row that was read,
  so it may bring an old status back.
* `ReadSpecialConfirm`/`ReadSpecialObjection`, `WriteSpecial`, `File`: the same
  for special bills, which are decided before the session is looked at. The
  amount the hotel asks for (`hotelchangecost`) is neither selected nor part
  of `updateByPrimaryKey`, so a confirmation leaves it as it was.
* `ReadAppeals`, `SaveAppeal`: `FeedbackController.create`. The filter on open
  appeals is commented out; any appeal stands in the way.
* `CutOff`: a request dies, or finds at one of `SessionSteps` that its user has
  logged out.
* `BackOffice` is external: its program is not in the repository. It takes the
  steps the comments of `HmsSimpleBBillConfirmCheckEnum` describe.

Left out: the older confirmation flow, which no page calls
(`hmsConfirmBillAmount`, with a guard of the ordinary kind, and
`hmsCheckBillAmount`, whose guard at `BillService:368` refuses unless the status
has two values at once); `preCalAccount`, whose button is commented out; the queries.

### ShoppingCart

`cart[h]` is the value redis holds for a hotel, `orders` the rows of
`order_shopping` with the wares that have a row in `order_detail`, `thisHotel`
the hotel of the session, `page[t]` what a tab shows: the hotel of the main
page, and on the cart page a copy of the cart with its ticks. A call is a
record with its `op`, what it was sent with, the copy of the cart it works on
and its `pc`; `from` says whether the page it came from is still there
(`here`), was left within the main page (`left`: its callbacks still run) or
reloaded (`gone`: nobody hears the answer).

* Pages: `OpenMain` (which switches the hotel of the session for every tab),
  `OpenCart`, `OpenGoods`, `AddToCart`, `UpdateCount`, `DeleteWare`, `Tick`,
  `SubmitOrder`. `locked` is `submitLock`/`adding`.
* Server: `GetCart` and `PutCart` are the two redis calls of every operation;
  the key is taken from the session each time, so they may be about different
  hotels. `InsertOrder` and `InsertLine` are `saveOrder`, which deletes each
  ware from the cart after its line and looks at no result.
* Answers: `AnswerAdd`, `AnswerOrder`, `AnswerDelete`, `AnswerCount`, `Failed`
  are the callbacks. `AnswerOrder` leads to the orders for a failure, too.
* Faults: `CutOff` (an exception on the server) and `LoseAnswer` (the page gives
  a call up while the server may still be at work).

`disturbed` and `fresh` are history: calls whose cart something else has
changed, and cart pages that alone have changed their cart. `OrderMoves` and
`PageShowsCart` exclude what they mark, because two tabs of a user overwrite
each other's carts, and no code prevents it.

Left out: prices and promotions (they come and go with a ware), the catalogue
(read only), paying and cancelling an order.

### OrderPush

`link`, `channel`, `sessionId` and `registered` are the connection to the sync
server: its state, the static `ServerChannel.channel`, the session id the
processors share, and whether the sync server has registered the user for this
connection. `sessionMap` is the page whose websocket is the user's entry.
Per page, `queue`, `busy`, `dataObj` are `changePriceQueue`,
`isProcessingSocketModal` and the order in the window; `windows` and `holds`
are the windows on the screen and whether `HmsModalService` still remembers one;
`timers` counts pending removals from the queue.

* Connection: `Connect`, `Identify`, `LinkLost`, `PushOrder`.
* Websockets: `OpenPage`, `SocketOpens`, `HandleConnect`, `CheckHotelOrder`
  (two steps of one hello), `SocketLost`, `LeavePage`.
* Page: `Receive` and `DoModify` end in `Arrive`, the listener that looks at
  the flag; `FetchAnswered`, `FetchFails`; `CloseTop` with `Deal`, which takes
  up the head of the queue but leaves it there; `TimerFires`, which removes the
  head two seconds later; `AskInfo`, `InfoShown`, `InfoFails` for the windows
  with details that share the service.

`OrderDesk` is what all this is for: one order on the desk, the others in line.
The mapping takes the flag and the order last taken up as the desk, and the
queue without a head that is about to be removed as the line.

The source does not keep a user from closing a price window while a removal is
pending, that is within two seconds of the one before, and `CloseTop` does not
either. The order taken up last is then taken up again, and the second removal
drops the order behind it unseen: `OrderPushQuick` shows this. Such a page is
`rushed`, a history variable, until it is left. The properties that promise the
queue's orders say so: to `DeskSpec` a page that becomes rushed is one that was
left (`Close`), and `QueueGoesOn` names `rushed` among its ways out. All other
properties hold on rushed pages, too.

Left out: other users (the map has one entry per user and no two interfere);
the change of the price itself; the push of received orders, whose processor
fails on a service that was never injected; the calculator and the other
widgets of the main page.

### PmsInstall

`eHotel` is `e_hotel` (code, kind of PMS, `pmsStatus`, `state`); `held` is the
hotel and row a user's session holds. A page shows a `list`, with the statuses
of the moment it was loaded, or a hotel that may be changed (`editing`); `call`
is the call of `installPms` it waits for, with a program counter. `online` is
what the new PMS, external, knows. `user` says whose page each is: two pages of
one user share a session, two users do not.

* Pages: `LoadList`, `OpenHotel` (which puts a row into the session), `Install`
  from whatever the list shows, `SaveHeldRow` (traffic and surroundings, the
  whole row of the session).
* `installPms`: `ReadHotel` reads the row the refusal looks at; `HoldHotel`
  reads it again for the session, refuses, or branches on the kind of PMS;
  `PostSucceeds`/`PostFails` ask a new PMS, and a call that failed may have put
  the hotel on line all the same; `CheckPmsCodeState` looks for other hotels
  with the code; `InstallPms`/`InstallFails` write it.
* The PMS: `PmsMatches` finds a hotel by its code, `PmsSynchronises` brings it
  into use. The repository only shows that the columns change (the statuses and
  the labels of the list).

`doubtful` and `late` are history: codes that two calls chose at once or that a
stale row brought back, and hotels that came into use while a call that had
seen them unused went on. Nothing in the code prevents any of the three; the
properties say that nothing else leads to a shared code or a disconnected
hotel.

Left out: `checkInstallPms` and the login with a token, which only read; saves
of single columns or fresh rows; the log of operations.

## 3. Runs

| run | instance | what it shows |
|---|---|---|
| `HotelRule` | 2 hotels, 2 nodes, 2 rows, 3 days of 2 hourly runs, pools of one task, one fault of any kind | rows, published rule and bills agree; every step implements `RuleLifecycle` |
| `HotelRuleLive` | 1 hotel, 2 nodes, 2 rows, 2 days of 3 runs, pools of 1050, two faults of the bill service | no claim is ever stranded; a rule waiting at its midnight is billed that day |
| `HotelRuleNoTransaction` | violation | a node that stops strands its claim |
| `HotelReview` | 1 hotel, 1 owner with all kinds of saves, 2 reviewers | reviewed means published and cached; rooms and facilities come back |
| `HotelReviewAlone` | 1 hotel, 1 owner who saves single columns, 1 reviewer, 3 saves, 2 faults | every step implements `ReviewCycle`: no submission lost, no older text shown; an accepted hotel is whole; cache and visible columns agree |
| `HotelReviewStaleSession` | violation | a stale session resets a published hotel to "never reviewed" |
| `BillConfirm` | 1 bill of each kind, 2 users, 1 round through the back office, one crash or logout | amounts, audit records, one appeal, flow of the statuses; a confirmation that was filed stands |
| `ShoppingCart` | 1 hotel, 2 wares, 2 tabs, 2 calls at once, 2 acts, one fault | an order moves its goods one by one; a page that worked alone shows what redis holds; a page is locked exactly while one call of it is under way; every lock is given back |
| `ShoppingCartAddress` | violation | an order goes to another hotel than the one whose address the cart page showed |
| `OrderPush` | 2 pages, 2 orders, 2 pushes, 1 act, 2 removals pending at once, one fault of any kind | the page implements `OrderDesk` until it is rushed; one order at a time; no order waits for nothing; a hello registers; queued orders come up if the user closes windows, on pages that are not left, stuck, blocked or rushed |
| `OrderPushQuick` | violation: 1 page, no faults | a window closed within two seconds of the one before: an order leaves the queue that was not taken up |
| `PmsInstall` | 2 hotels, 2 codes, 2 pages of one user or of two, 3 installations | a code belongs to one hotel; a hotel in use is connected |

**Why the bounds are enough.** The interesting cases need two of something: two
nodes that claim the same rows, two rows of one hotel that one `updateState`
moves together, two hotels of which a pool accepts one, two reviewers, two
users, a request that reads before and writes after the other. Three days let a
row be inserted, take effect, and be passed by, with a request that is held up
across midnight. `MaxText = 3` lets an owner save before, during and after a
review and once more before the next. Two wares are the least with which an
order is broken off in the middle, two tabs and two calls the least with which
carts overwrite each other; two acts are a change and an order, or two of one
kind, on carts that `Init` takes with any content; a second hotel matters to the
address only, since a switch of hotels takes orders and pages out of what
`OrderMoves` and `PageShowsCart` are about (the theorems cover any hotels and
acts for all but `LockReleased`). Two pages let one replace the other in
`sessionMap`; two pushes and one order asked for by the user make three
arrivals, so that a queue of two is possible behind an order, and two removals
pending at once (`MaxTimers`) are what it takes to drop one unseen. Three
installations give a hotel a code, give it another and give the first to the
other hotel, which is what a stale row needs to make two hotels share it; the
instance reaches that, and a call that is late. One objection that goes round
meets a second decision on the same bill. One fault is enough for each property
that holds under faults; `HotelReview` runs without any because two reviewers
and crashes together exceed the time of a run, and the theorems cover its
properties with any number of them. `AtMostOneBillPerFault` and
`EffectiveRuleIsBilled` count the faults they allow.

**Deadlock** is checked for `HotelRule`, `HotelReview` and `PmsInstall` (whose
pages can always load the list). `BillConfirm`,
`ShoppingCart` and `OrderPush` may stop: every bill is settled and every appeal
made, or the bounded user has nothing more to ask for and no call is under way.

**Symmetry** is used over nodes, rows, reviewers, users, tabs and codes, in runs
without liveness properties only; hotels are interchangeable in `PmsInstall`,
elsewhere they are named in `bills` and `services` and stay apart.

**Fairness**, `HotelRule!FairSpec`. `WF(Tick)`: time
passes. `WF(Job(n))`: Quartz fires the triggers of a running node.
`WF(task steps)`: a pool runs what it was given. Users, faults and restarts owe
nothing. `Tick` waits for the pools to drain: triggers are an hour or more
apart, and a task waits 20 seconds for an answer at most
(`utils/HttpClientUtils.java:50`). `EffectiveRuleIsBilled` says "if a node is
about to run the midnight job", because nothing makes up for a midnight at
which all nodes were down, and it is checked with fewer faults (2) than there
are hourly runs (3): with three the day passes unbilled, as the code intends.

`ShoppingCart!FairSpec`: the server goes on with a request it has begun
(`WF(Server(c))`), and an answer reaches a page that still waits for it
(`WF(Answer(c))`). `LockReleased` therefore rests on the callbacks: each way a
call can end for a page that is still there must unlock it or leave the page.

`OrderPush!FairSpec`: a fetch is answered or fails, and a timer fires. Nothing
obliges the user, so `QueueGoesOn` has `WF(CloseTop(p))` as its premise: the user
closes each window that can be closed. It has four ways out, and TLC refutes it
without any one of the last three. The page is left. It is stuck (`Stuck`): the
flag is set before an order is fetched and stays set when the fetch fails. It is
blocked (`Blocked`): of two windows only the upper one can be closed. It is
`rushed`: a price window was closed within two seconds of the one before, and an
order may have been dropped. In the last three cases nothing in the source makes
up for it until the page is loaded again (`hazards`). No fairness is assumed of
the sync server.

## 4. Disagreements between code and comments

Each violation run above checks what a comment, an annotation or a message
says. `findings` in `PROJECT.json` quotes the line.

1. *`@Transactional`*, *lock the task* (`HotelRuleNoTransaction`): nothing rolls
   the lock back.
2. *Change the traffic information* (`HotelReviewStaleSession`): the whole stale
   row is written.
3. *Address: ...* above the cart (`ShoppingCartAddress`): it is that of the hotel
   the main page was loaded for, the order is for the hotel of redis.
4. *Message queue* (`OrderPushQuick`): it is emptied by position two seconds
   later, and an order may be dropped that was never taken up.

The code has further behaviour that its comments do not expect. No run is about
it; what the models reach of it is among the hazards: rule A clears the date of a rule B
that is already published; a review copies the facilities of whatever hotel the
session holds by then; the facilities of room types are added to, since the
call that should delete them deletes the rooms a second time; the second of two
decisions on one bill is written after the status was checked; the flag of the
order page stays set when a fetch fails.

## 5. Proofs

All theorems hold for every value of the constants that satisfies the
assumptions in the modules: finite bounds that are natural numbers, fault kinds
among those named, two kinds of bills with no bill in common, and "null" values
that are not members of the sets they stand apart from. No set of hotels,
nodes, users, rows or texts has to be finite. Each invariant is one conjunction
`Inv` of named parts, with one lemma per action and one step per part the
action can disturb.

**HotelRule_proofs.** `Inv` = `TypeOK`, `TaskInv`, `SyncedIsPublished`,
`SettledHasBill`, `BillIsOfItsDay`. None of the last three is inductive alone:
a task works from a list that was read earlier, and `updateState` looks at
neither the row nor the day the task was listed with. `TaskInv` says what a
task's `pc` has already established: past `updateThotel` its hotel is published
with B; a bill task's row has left its initial state and takes effect today
or was withdrawn since; at `success` its hotel has a bill. It survives the
tasks of other nodes because no statement takes a row back to its initial
state, a published hotel off rule B, or a bill away, and the day does not
change while a pool is busy. `SpecClaimHasTask` proves with the help of `Inv`
that, without crashes and failing statements, a claimed row always has a task.
`SpecImplementsLifecycle` proves the refinement: the mapping `Book`,
`Published`, `Billed` takes every step to a step of the rule book or a stutter.
`SpecAtMostOneBillPerFault` is proved from an account that is kept for each
hotel (`AccountInv`): its bills of today, the tasks that have claimed it and
have not yet posted or released (`Claims`), and 1 when it has rows that can be
claimed (`Claimable`) add up to at most 1 + `faults`. A claim empties what can
be claimed, a post turns a claim into a bill, and a release that makes rows
claimable again ends its claim, so the sum grows only with a fault. Rows
become claimable in no other way than at midnight, when there is neither a bill
of the day nor a bill task (`SlotInv`).

**HotelReview_proofs.** "Reviewed means published" is not inductive because a
draft may be overwritten by a copy read long ago. `Inv` therefore says it of
every copy of a row (`AllKnown`): of the draft, of the row a session holds, of
the row a request carries. If it shows a reviewed hotel, that hotel is published
and cached. It is preserved because publication and cache entries are never
taken back (`Monotone`), so a copy that was right when it was taken stays right.
`RoomsComeBack` holds since a review that deleted rows is recognised by its
`pc` until it has added them, whatever another review does in between.
`ListInv` does the same for the facilities: a hotel in the cache has them, or a
review stands between dropping and adding; a review posts to the cache only
after it has added them.

**HotelReviewAlone_proofs.** The properties of `HotelReviewAlone.cfg` are false
when whole rows are saved, so their theorems say so in their hypothesis:
`RowSaves = {}` for `UNInitialIsNotPublished`, which then holds for any owners
and reviewers (`PastInv`: pages, reviews and publications concern hotels that
were submitted, and no single-column write makes a hotel look new again); and
`Alone`, which adds that no two sessions are owners and no two are reviewers,
for the other four. With two owners a submission that was read before a review
and written after it began is accepted unseen. `AloneInv` is one account of
what a request has established by the statement it stands at (`ReqAlone`): a
hotel whose submission is about to be written is still with its owner, one
under review stays so and on line, the row that was read is at least what was
submitted, what is written is what is published, each detail table is filled
once its statement is past, and each request that sets the visible columns
knows which of them it has set. It needs that pages only offer hotels that are
under review (`PagesAlone`), since `checkEHotel` never looks at the state.
Hotels, saves and faults are any number.
`ReviewImplementsCycle` proves the refinement. `AloneInv` gives the guards of
`HandIn` and `GiveBack` and that what is shown is no older than what was handed
in; that it is no older than what guests have seen takes `ShownInv`: what guests
see is no newer than the draft, and a review that has yet to write `t_hotel`
holds a row at least as new as what they see, for the only reviewer has begun
no other review since reading it. All other steps are `Quiet`: they keep
states, submissions and published texts, and map to a stutter.

**BillConfirm_proofs.** `ReqInv` says what a request carries: an objection that
is about to write its amount has one, with the status *confirming* that it will
write back; one that is about to write its status finds an amount in the bill;
a decision on a special bill has its status and, if it objects, an amount.
`AloneInv`
says that a bill that was never `overlapped` has one request at most, and that
what this request has read is still true; for appeals, that there is none yet.
From it follow `OneAppeal` and the action property `Flow`.
`ObjectionHasAmount` and `DecisionIsFiled` hold with overlapping requests, too.
`ConfirmationStands` is about the entries of the audit table, which are written
one statement after the bill; `StandInv` extends it to the request that is
about to file a confirmation, and is inductive with `Inv`. A write that follows
a confirmation would have to come from a request that read the bill before it,
and that request overlapped.

**ShoppingCart_proofs.** `MoveInv` = `TypeOK`, `Shapes`, `Moving`. `Shapes`
says what a call is like at its `pc` (an order past its insert has one, its
lines are among its wares, no two calls write one order); `Moving` extends
`OrderMoves` to the copy of the cart a call holds between its get and its put:
for an order that nobody disturbs, the copy is the cart. That is what makes the
invariant inductive, for a put writes the copy and not the cart.
`FreshInv` does the same for `PageShowsCart`: a fresh page waits for one call at
most (`Serves`), which holds a copy that is the cart between its get and its
put, and whose page is already what the cart will be (a new count) or still what
it was (a deletion, until its answer). An action of another tab or call leaves
all that alone (`FreshStep`, `FreshCall`); a failed call, an overlapping one and
a put from elsewhere take the page out of `fresh`.
`LockHasCall` is inductive together with `TypeOK`: a page locks itself in the
step that sends the call, every callback of a page that is still there unlocks
or leaves it, and a page that is left or loaded again is unlocked with its calls
no longer counted as its own (`Submitting`).

**OrderPush_proofs.** `OneAtATime`, which ties the fetch under way and the price
windows of a page to its flag, is inductive together with `TypeOK`. `KnownLink`
(named means current) carries `HelloRegisters`. The refinement `PushDesk` needs
`LineOf`, of pages that are not `rushed`: one that is free has neither queue nor
timer, there is one timer at most, and while it runs the head of the queue is
the order on the desk. Receiving, closing and firing map to `Arrive`, `Finish`
and a stutter; the closing that makes a page rushed maps to `Close`, and what
such a page does later to a stutter. `QueueBehindOrder` counts the pages whose
flag is set with nothing on hand (`Stuck`) against the faults. The count needs
that the set is finite for any set of pages (`QueueInv`): a step adds one page
to it at most, and only a fetch that fails adds one.

**PmsInstall_proofs.** What must be true of a row in use must be true of every
copy of it, since any copy may be written back: `CopyInv` says of the table and
of all sessions that a code of a new PMS is on line, that a matched row has a
code, and that a row in use is synchronised unless its hotel is `late`. It
survives because `online` and `late` only grow. `CallInv` says what the
statements of a call have established: past the refusal it saw the hotel
unused, and then it still is or is `late`; past the HTTP call the code is on
line. `ChoiceInv` is what makes `OneHotelPerCode` inductive: between the check
and the write a chosen code is still free, and chosen for one hotel, unless it
is `doubtful`.

**Only model-checked.** The three liveness properties `EffectiveRuleIsBilled`,
`LockReleased` and `QueueGoesOn`: liveness under fairness, `ENABLED`, and
induction over data are outside what the prover does. Every invariant, action
property and refinement of a passing run is a theorem. `ClaimHasTask` is one
for any faults but a crash and a statement that throws; with those it is false,
as `HotelRuleNoTransaction` shows.

## 6. Not modelled

What is left is named in `PROJECT.json` with its reason. In short:

* *Verification codes, short messages, banks*: one cached value that is compared
  once.
* *Request log pool*, operation logs, kafka, uploads, remote calls: output that
  nothing reads.
* *Room types, prices, room settings, strategies*: forms of one page and
  calculations for which the repository has no second definition to check
  against; what a review copies of them is in `HotelReview`.
* *Login, sessions, users*: Spring security; the hotel a session holds and its
  end are in the models that depend on them.
* *Lists, statistics, exports, the older confirmation flow*: queries, or code no
  page calls.
* *Third-party scripts* under `webapp/`: angular, jquery, socket.io, codemirror
  and others make up nearly all of the JavaScript; they are not this program.
* Within the modelled parts: what each module's section names as left out.

The components are not composed with each other. `PmsInstall` and `HotelReview`
both write whole rows of `e_hotel` from a session; the second starts where the
first ends, with hotels that are in use and synchronised, and a hotel's code and
PMS status do not change there. `HotelRule` and `HotelReview` share `rulecode`: the
update of `t_hotel` in a review leaves it alone, but the insert of a first
publication copies it from the draft (`THotelMapperExt.xml:161,174`) and a save of
a whole row writes it back as it was read (`EHotelMapper.xml:944`); what that does
to the draft's rule is not modelled. The others share tables, but no column that
one writes and another reads: the bills `HotelRule` has made are answered through
columns it never reads, and carts and pushes have their own stores.
