# A verification model of newlibbroker

newlibbroker is a C++ library for stock, futures and option brokers.  A client
publishes requests (orders, withdraws, queries) on an Aeron stream;
`MemBrokerServer<Broker>` polls them in one thread, passes them through flow
control and a self-knock check, and hands them to a `Broker`, which talks to the
counter of an exchange.  Answers and knocks (fills) come back from the counter in
callbacks, which publish them on an inner stream that the same thread polls.

This directory models that program in TLA+, checks the models with TLC and
proves what matters most with TLAPS.  `PROJECT.json` lists the components, the
runs, which lines each definition stands for, the hazards and the theorems.

## The system

| component | state | operations | model |
|---|---|---|---|
| Flow control (`flow_control.*`) | per market a heap of items, a window of send times, counters; a queue for the rest; the day's total in a mapped file | `Push`, `Pop` (`GetMaxPriorityItem`, `TryPop`), the constructor | `FlowControl`, `RateLimiter` |
| Self-knock check (`anti_self_knock_risker.*`) | per security the bids and asks; orders by `order_no` and by `batch_no`; knocks that came early | `HandleTradeOrderReq`, `OnTradeOrderReqPass`, `HandleTradeOrderRep`, `HandleTradeWithdrawReq`, `HandleTradeWithdrawRep`, `HandleTradeKnock` | `AntiSelfKnock` |
| Positions (`position_master.*`) | per contract, long and short: initial, frozen, closed and opened volumes of today and yesterday | `InitPositions`, `HandleTradeOrderReq`, `HandleTradeOrderRep`, `HandleTradeKnock`, `GetAutoOcFlag`, `GetCloseYesterdayFlag` | `PositionMaster`, `PositionLedger` |
| Server (`mem_server.h`) | message ids seen, the three components above | `Run`, `HandleMessage`, `Send...Req`, `OnRsp...`, `Handle...Rep` | `MemServer` |
| Checks of requests (`utils.cc`) | none | `CheckTradeOrderMessage`, `CheckTradeWithdrawMessage` | only that they pass or refuse |
| Numbers (`utils.cc`), options, example brokers, request client | none, or read once | formatting, parsing, I/O | not modelled |

How they interact: `Run` polls requests, `HandleMessage` drops what it has seen before,
checks the message and calls `Push`; after the polls `Run` calls `Pop` once and gives what
it returns to `SendTradeOrderReq` (self-knock check, time limit, insertion into the book,
booking in the positions with the flag the client has set, `broker_.SendTradeOrderReq`) or
to `SendTradeWithdrawReq`.  The counter's answers are published on the inner stream.  All
state belongs to the one thread of `Run`: what interleaves are whole operations, with each
other, with time, with reports that come late, early or never, and with the death of the
process.

What makes each component correct:

* flow control: never more than the limit of a market in a window, nor more than
  its daily budget, across restarts; nothing lost or duplicated; withdraws and
  large orders first; everything leaves in the end;
* self-knock check: two orders that could match are never open together; an
  order that is over does not block others for ever; whatever the order of reports;
* positions: what is frozen is what open orders can still fill, a withdrawn volume
  comes back once, and the class does not choose to close more than there is;
* server: a message acts at most once, or is refused; every report reaches the
  components that wait for it, which it does not (`server_reports`).

The hazards (`PROJECT.json`, "hazards") are these at the lines where they bite.

## Modules

| module | what it is |
|---|---|
| `RateLimiter` | the abstract promise of flow control: a sliding-window limit and a daily budget, no queues |
| `FlowControl` | `FlowControlQueue` and `FlowControlMarketQueue` in full, with properties |
| `MCFlowControl` | its instances for TLC, and what comments say of it that it does not do |
| `FlowControl_proofs` | its theorems |
| `AntiSelfKnock` | `AntiSelfKnockRisk`, `OrderBook` and `InnerOrder` with an external counter |
| `MCAntiSelfKnock` | its instances for TLC |
| `AntiSelfKnock_proofs` | its theorems |
| `PositionLedger` | the abstract promise of the positions: what is held, what is frozen, and that only what was frozen is closed or released |
| `PositionMaster` | `PositionMaster` and `InnerPosition`, with properties |
| `MCPositionMaster` | its instances for TLC |
| `PositionMaster_proofs` | its theorems |
| `MemServer` | `MemBrokerServer`: the loop and the path of a message, composed with `AntiSelfKnock` |
| `MCMemServer` | its instances for TLC |
| `MemServer_proofs` | its theorems |

Definitions marked "Mutant" belong to no behaviour.  Each is a plausible bug in
the definition that follows it, and some property fails when it takes its place.

### FlowControl

The variables have the names of the code's fields.  A heap is the set of its
items; which of several equal items is the top is left open, as
`std::priority_queue` leaves it.  `PushOrder`, `PushEmptyOrder`, `PushWithdraw`
and `PushOther` are the branches of `Push`; `PopFlow`, `PopNormal` and
`PopNothing` those of `Pop`, each with the pruning of the windows and the
errors that `GetMaxPriorityItem` leaves behind in every market it looks at.
`Restart` is a crash and a new process, on the same or on a new day: only
`state_total_cmd_size`, the mapped file, survives.  `Tick` is time.  `sent_log`,
`log_from`, `passed_today`, `arrived`, `delivered` and `lost` are history, read
by no action.

The `double` amounts are natural numbers; only their order matters.  A
`batch_no` is what `Push` finds in it, its size.  The warning thresholds are left
out: the code stores them and does not use them.

### AntiSelfKnock

One security; the code keeps books of different securities apart.  An order is the pair of
its message and its place in it.  It has a `side`, which the exchange trades by, and the
`bs_flag` of its item, which is all that the check reads and which may be missing:
`send_req.cc` sets the flag of the message only.  `InnerOrder`s are records with the code's
fields, `match_volume` is the set of numbered shares that were matched, and the cached
knocks of an order are what they add up to.  `PassOrder` and `RefuseOrder` are
`MemBrokerServer::SendTradeOrderReq` as far as the check is concerned, including the
finished orders a check removes from the book, whether the message then passes or not;
`HandleTradeOrderRep`, `HandleTradeWithdrawReq`, `HandleTradeWithdrawRep` and
`HandleTradeKnock` are the methods of that name, called as the unit tests call them.
`Answer`, `Fill` and `AnswerWithdraw` are the counter, modelled from what the code expects
of it; `MayFail` names the withdraws, of an order or of a batch, that it may refuse although
there is something to withdraw. `Deliver` and `Lose` take any report that is under way, so
that reports come in any order. `answered`, `awaited` and `late` are history: the messages
whose reply and the withdraws whose answer has or has not arrived, and the orders for which
one did not come in time.

### PositionMaster

One contract, whose trade type and market are picked at the start: no method
touches two contracts.  `positions_` has the two `InnerPosition`s with the code's
fields.  `Booked` says in which volume an order with a flag is booked; `Ordered`,
`Matched` and `Withdrawn` are what `Update` does for an `order_volume`, a
`match_volume` and a `withdraw_volume`, with every `>=` (and the one `>`) of its
branches.  `HandleTradeOrderReq`, `HandleTradeOrderRep` and `HandleTradeKnock` are the
methods of that name.  `oc_flag`, `left` and `held` are the counter's side: the flag an
order is traded with, what is open of it, and what the account holds.

There are two specifications, because the class is called in two ways.

* `Spec` is the server.  `SendTradeOrderReq` (`mem_server.h:377-379`) books an order with
  the `oc_flag` of the client and only then hands it to the broker (`SendOrder`).  The
  positions are private to the server, so the broker cannot ask them for a flag, and
  nothing outside the unit tests calls `GetAutoOcFlag`; nothing at all calls
  `GetCloseYesterdayFlag`.  `TradedAs` is the flag an order is traded with: the one it
  was booked with, or, if the client has left it open (`Auto`), one that the broker finds
  by itself.  `Update` has no case for `Auto` on futures and options, so that such an
  order freezes nothing.
* `ChosenSpec` is the class as the unit tests of options and credit call it (that of
  futures is an empty file): `GetAutoOcFlag` chooses a flag from what is available, the
  caller puts it into the order, and the next call books the order with it
  (`SendChosen`).  That nothing happens between the two calls is the caller's doing, and
  no caller in the server does it.  `RefuseOrder` is the exception that the choice throws.

In both, rejections and fills are booked by the class's own methods, as the handlers of the
server would call them; `MemServer` shows that no report gets to these handlers
(`mem_server.h:259`).  What is shown of `PositionMaster` is therefore shown of the class
and not of the server as it is wired.

`open_cache_` is the constant zero (`open_volume`): the lines that would insert its
entries are commented out (`position_master.cc:83`).  So `max_today_opening_volume_`, the
limit of what is opened in a day (`broker.yaml:32`), is held against each order by itself.

`PositionLedger` is what the module promises without days, flags and markets:
`Bought`, `Freeze`, `Release`, `Closed`.  Any volume may be frozen, as the exchange and not
the broker rejects an order for what there is not; but only what was frozen is released
or closed.  The refinement mapping adds up today and yesterday.

### MemServer

`pc` is the place in the loop of `Run`: polling requests, polling reports, calling
`Pop`.  `HandleMessage` remembers the id and checks the message, which is then
refused (`Refuse`, the error reply) or given to `Push`, which queues it, in a queue of
its market (`queue`, for the messages in `Limited`) or in the normal one
(`normal_queue_`, first in, first out), or, if it has no orders, drops it
(`flow_control.cc:106`).  `Dispatch` gives what `Pop` returns
to `SendTradeOrderReq` or `SendTradeWithdrawReq`, with their three ways to refuse:
over the daily limit, crossing another order, too old for the message's own `timeout`
or else for `request_timeout_ms`.  The self-knock check is
an instance of `AntiSelfKnock`, whose actions `MemServer` uses where the server
calls its methods.  That is not where its unit tests call them: a withdraw *request*
goes to `HandleTradeWithdrawRep` (`mem_server.h:413`), and the reports on the inner
stream go nowhere (`PollReport`, `mem_server.h:259`).

Flow control is represented by what `FlowControl` shows of it: a message of a limited market
is popped when there is room for it, once; `Pop` returns the others in turn when no market
has room.  A restart is not modelled here.  Of the positions only `reserved` is kept, the
messages they were told of.  `dropped`, `sends` and `refusals` are history.  The checks of a
message may pass or refuse: `HandleMessage` hands them the frame header instead of the body
(`mem_server.h:223`), so what they find depends on a layout outside the repository.

## Runs

| run | what it asks | result |
|---|---|---|
| `flow_safety` | limits, budget, window, no loss or duplication, priority, refinement of `RateLimiter` | holds, 877 888 states |
| `flow_liveness` | does everything leave? | holds, but for what waits behind an item larger than the limit |
| `flow_restart` | does the limit per second (`flow_control.h:58`) hold across a restart? | no: the window is forgotten |
| `knock_safety` | no self-knock, no lasting false block, no unreachable order | holds, 645 617 states |
| `knock_alike` | the same with two orders of one message at one price | no: a rejection erases the wrong order |
| `knock_batch_withdraw` | the same when a batch withdraw may be refused | no: the error is not looked at |
| `knock_refused_withdraw` | the same when the withdraw of an order may be refused | no: 3 seconds later the live order leaves the check |
| `position_client` | booked as the server does it: do the books agree with the exchange; refinement of `PositionLedger` | holds, 3 716 states |
| `position_chosen` | booked as the unit tests do it: do the books agree, is nothing promised twice, does what stays frozen for opening add up | holds, 11 417 states |
| `position_withdraw` | `position_client` when knocks report withdrawn volume | no: it is booked as filled too |
| `server_safety` | one fate for every message, no trace of a refused order, what is left of the self-knock check, everything settled in the end | holds, 322 857 states |
| `server_reports` | does the self-knock check keep its promise in the server? | no: reports do not reach it |

What the properties say:

* `RateLimit` is stated on the full log of send times, not on the pruned window
  the code decides with; `WindowExact` says that pruning forgets nothing that
  counts.  Both hold per process (`flow_restart` shows why).
* `DailyLimit` counts what leaves without an error on one day, in all processes.  What is
  refused for it uses up the budget all the same, although `flow_control.h:68` describes
  `total_cmd_size_` as what was sent; no property calls that wrong.
* `Accounted`: every message that arrived is in exactly one place.
* `PriorityRespected`: nothing is overtaken by what ranks below it, unless its
  market is out of room for something that ranks at least as high.
* `Progress`: every message that fits its market leaves, unless one that never
  fits is ranked level with it or ahead.
* `NoSelfKnock`: a buy and a sell that could match are never both open, unless
  the broker has given one of them up and an answer for it, the reply to the order or the
  answer to its withdraw, had not come within `kOrderTimeoutMS`.  The excuse is judged by
  when reports really arrived, not by the flags of the code.  A refusal that came in time
  is no excuse, nor is an answer that was misread.
* `NoPhantomBlock`: when all reports have arrived, no order that is over blocks.
* `Reachable`: an acknowledged order that is not finished can be found by its
  `order_no`, and by its `batch_no`.
* `BooksAgree`: what a position holds is what the account holds, and what is frozen
  for closing is what the open orders can still close, lot by lot, with neither day's
  frozen volume below zero.
* `OpeningLeak`: the same for opening, but for one thing.  A comment
  (`position_master.cc:201`) says that the withdraw of an opening order reduces what is
  frozen; on futures it does not when it is all that is frozen (`>` in line 202, `>=` in the
  other branches).  The property does not hide that: it says that the surplus is nothing, or
  on a future exactly the volume of one order that is over, on the one position that order
  was about.  However orders interleave, a second one never adds to it.
* `NoOversell`: neither today's nor yesterday's position is promised twice.  On DCE and
  CZCE an order is split over the two by what is available when it is sent, and
  settled by what is frozen when it is filled; the property says that this fits.  It is a
  property of `ChosenSpec`: in the server the client's flag is booked unseen, a client may
  ask to close what there is not, and `position_client` has such clients.
* `OneFate`: a message that was read is queued, with the broker, or answered with an
  error, in exactly one of these and once, however often it was published.  Only a
  message without orders may have been dropped instead: `Push` has no branch for it, the
  check that would refuse it (`utils.cc:93`) is given the wrong address, and its client
  gets no answer.
* `RefusedLeavesNoTrace`: the broker, the book and the positions know the same orders: a
  refused one blocks no other and the positions were not told of it.  Whether an order it
  was told of freezes anything is `PositionMaster`'s matter.
* `ApartOrNoKnock`: what the self-knock check still guarantees in the server, where
  no report reaches it: orders that could match are both open only if they were
  sent more than `kOrderTimeoutMS` apart.
* `Settled`: what is published is handed to the broker or refused in the end, provided
  that the loop gets to `Pop` again and again, for messages with orders and of markets
  without limits.  The others are `Progress`'s, but for a withdraw with market 0, which no
  `Pop` looks at (`flow_control.cc:163`) and which no property covers.

### Bounds

* Flow control, safety: seven messages (a batch of two, a withdraw, a
  redemption, a query, an order without items, two orders of one amount) for two
  markets with limits 2 and 1 per window and 3 and 2 per day.  Each limit is
  reached and overrun by a batch.  One tick is the whole window (1500 ms); time
  runs to 3, so that send times enter the window, stay on its edge and leave it.
  One restart.  Messages arrive until time 1.
* Flow control, liveness: two items larger than their markets' limits; time runs
  to 9, more than the six messages need when each waits for an empty window.
* Self-knock: a batch of two buys (volumes 2 and 1, so that there are partial
  fills) and a sell that crosses both, at the same price as one of them; time
  runs to 3 with a limit of one tick, so that both time-outs happen, on the
  edge and beyond; one withdraw, of an order or of the batch, which is refused only when
  there is nothing to withdraw (`MayFail` is empty; the two runs in which it is not show
  why).  The system may stop when all orders are over: deadlock is not checked there.
* Positions: one contract each of CFFEX, of SHFE (as INE), of DCE (as CZCE), an option and a
  credit contract; two reports, mostly yesterday's volume and mostly today's.  Fills of
  any part that the account can close, rejections.  `position_client`: two sells that close
  one long position, of volumes 2 and 1 and so sometimes more than it has, a buy of 2 that
  opens more of it and a buy that closes a short one; the flags fit every contract of the
  run (a credit order with one of them touches no position; credit is `position_chosen`'s).
  `position_chosen`: three sells of volumes 2, 1 and 1 that compete for one long position
  and a buy of 2, all without a flag, so that the class closes yesterday's,
  today's, both, or finds that they do not fit and opens.  Withdrawn volume is kept out of
  these runs because `position_withdraw` shows what it does.  Deadlock is not checked: the
  system stops when every order is over.
* Server: a buy; two sells in one message, of which one crosses the buy and the other
  crosses nothing and has no flag of its own, so that the check skips it; a message without
  orders; a withdraw of the buy.  Each is published any number of times until time 1, with
  at most one unread copy.  The sells ask for a `timeout` of two ticks, the server gives
  one; they and the withdraw are of limited markets.  Time runs to 3.

`MaxNow`, `LastArrival`, `MaxRestarts`, `MaxWithdraws`, `MaxUnread` and `LastPublish` are the
only bounds, and appear in the guards of `Tick`, `Arrive`, `Restart`, `RequestWithdraw` and
`Publish`.

### Fairness

`Progress` is checked under `PromptSpec`: weak fairness of `Pop` and of time.  `Run`
is a loop without a way out that calls `Pop` in every turn and never sleeps, so a
`Pop` that can return something is called; for the same reason time passes only
when `Pop` has nothing to return (thousands of turns fit into a tick).  Arrivals
and restarts are not fair.  The loop polls until the request stream is
empty before it calls `Pop`: `Progress` assumes that it gets there, which
finitely many arrivals give.

`Settled` is checked under `FairSpec`: weak fairness of `Run`, the loop, which never
waits, and nothing else.  Clients, counter, exchange, time and the room in the markets'
queues are not fair.  A client can publish for ever, and one that never pauses keeps the
loop polling: `MaxUnread` bounds the copies unread at a time, not the publications, so the
model has this client as long as the clock stands still.  `Settled` excludes it by its
premise, `[]<>(pc = "pop")`.  A
message of a limited market may never find room here; that it does is `Progress`.

## Proofs

`FlowControl_proofs` proves, for all messages, markets, limits, window lengths and
bounds that satisfy the named assumptions of `FlowControl` (types only):

* `TypeCorrect`: `Spec => []TypeOK`;
* `Invariance`: `Spec => []IInv`;
* `RateLimitHolds` and `DailyLimitHolds`: the two limits;
* `Refinement`: `Spec => ImplementsLimiter`, the abstract `RateLimiter`;
* `AccountedHolds` and `PriorityRespectedHolds`: nothing is lost or duplicated, and
  nothing is overtaken by what ranks below it.

`RateLimit` is not inductive: `Pop` decides with the pruned window.  `IInv` adds
`WindowExact` (the window is the end of the log, and all that was pruned is
expired) and `BudgetCounted` (the two totals agree and count at least what left
without an error).  The argument: `ExpiredPrefixExists` shows that the pruning
loop stops at a well-defined place; the lemmas `PruneWindow`, `BurstWindow` and
`QuietWindow` that pruning and appending keep the window exact; then for a burst
of n sub-commands, any `th_tps_limit_` + 1 in a row that end in it begin before
the window of at most `th_tps_limit_` - n, hence in what has expired
(`PopFlowMaySend`, `PopFlowRate`); `PopFlowBudget` does the daily count.  The
refinement follows from the same facts, one step of the code being one step of
the limiter or a stutter.

`WindowExactHolds` states the middle part of the invariant by itself.

`Accounted` counts, and counting is not inductive: a step that drops one message and
doubles another would pass.  `AccountsInv` says where each message is: the five places
(market queues, normal queue, returned, lost, empty orders) are disjoint (`OnePlace`), no
message has two items (`OneItemEach`) or two entries in the normal queue (`NormalOnce`).
`ItemCount`, `NormalCount` and `PlacesCount` turn that into the numbers.  TLC checked
`AccountsInv` on the instance of `flow_safety` before it was proved.

`PriorityRespected` measures the room of a market on the full log, `Pop` on the pruned
window.  `RoomIsReal` shows that what the window holds is in the window of the log, for
which send times must not go back (`LogSorted`) and the window must be exact (`IInv`); so a
market that `Pop` passes over is out of room (`NoRoomBlocks`).  The rest is the order of
ranks: the best of the tops is not outranked by another top, nor a top by what waits
under it (`PopFlowRespects`).

`AntiSelfKnock_proofs` proves for all messages, orders, time limits and bounds:

* `TypeCorrect`: `Spec => []TypeOK`, without a premise;
* `Invariance` (the inductive invariant `KnockInv`), `ReachableHolds` and
  `NoPhantomBlockHolds`, for messages without equal orders (`NoneAlike`);
* `NoSelfKnockHolds`, for messages without equal orders, none of which crosses itself
  (`NoneCrossesItself`), all with flags of their own (`AllFlagged`), when the counter
  withdraws what is live (`WithdrawsSucceed`: `MayFail` is empty).

Each premise is one the code relies on without a check, and `NoSelfKnock` fails without it.
A reply names its items by side and price alone (`knock_alike`).  An item without a flag is
neither compared (`anti_self_knock_risker.cc:109`) nor put into the book (line 126), so that
two such orders may match.  A refused withdraw ends a live order after `kOrderTimeoutMS`
(`knock_refused_withdraw`), that of a batch at once (`knock_batch_withdraw`).  The orders of
a message are not compared with each other: every item has a `bs_flag` of its own
(`anti_self_knock_risker.cc:109`), which nothing compares with that of the message, so that
a buy and a sell sent together would pass.  The messages of `knock_safety` satisfy all four.

None of the three properties is inductive: what the broker does with a report depends on
whether the report is true, and on what it remembers.  `KnockInv` has a part for each side.
`CounterOK`: a message is sent and answered as a whole, and an order that is filled is
over.  `NoticesOK`: a report under way says what has happened.  `MemoryOK`: so does what the
broker remembers, in the order or, before its reply, in the knocks that came first.
`BookOK`: an order that was sent and not rejected stays in the book until it is finished.
`LookupOK`: the two maps lead to it from its reply until then, which is `Reachable`.
`FinitelyMany` orders were sent, so that the next place in the book is a number.

For `NoSelfKnock`, `GivenUpOnlyLate` adds that the broker takes an open order for finished
only when an answer has not come in time; that a withdraw which was requested of an open
order is still unanswered, because an answer ends the order; and that the broker takes a
withdraw for a success only when the order is over.  A new order is compared with all that
is in the book; an open order that is not there was given up.  For `NoPhantomBlock`,
`NothingForgotten` adds that without a loss every answer, every share and every end is known
to the broker or under way, so that when no report is under way an order that is over has
all its shares, or its end, and is finished.

TLC checked these invariants on the instance of `knock_safety` before they were proved.

`PositionMaster_proofs` proves for all sets of orders, volumes, reports and contracts:

* `TypeCorrect`: `Spec \/ ChosenSpec => []TypeOK`, without a premise;
* `Books`, `BooksAgreeHolds` and `Refinement` (`Spec => ImplementsLedger`) for the server,
  under two premises: `FlagsFit`, the clients set flags that the market of the contract
  knows (`FitFlags`: no `Auto` but for credit, only `Open` and `Close` for options, and no flag
  that tells the days apart on DCE and CZCE), and `OnlyFills`, withdrawn volume is not
  reported by knocks;
* `OpeningLeakHolds`, for the class as the unit tests drive it, whatever flags the clients
  set, under `OnlyFills`; `ServerLeakHolds`, for the server, under both premises;
* `NoOversellHolds`, for the class as the unit tests drive it (`ChosenSpec`), with
  `BooksAgree`, under `NoClientCloses`, clients ask for `Auto` or `Open`, and `OnlyFills`.

`OnlyFills` is needed (`position_withdraw`), and so is `FlagsFit`: an order booked with
`Auto` freezes nothing, whatever it is then traded as.  That orders are booked with the flag
they are traded with is thus a premise (`FlagsFit`) or the caller's doing (`ChosenSpec`):
the server does not see to it.  `NoOversell` does not hold of `Spec`, and no theorem says
so.

`BooksAgree` is not inductive: a fill of a `CloseYesterday` order must find its lots in
`yd_closing`, not just in the sum.  The invariant says per side (`PosOK`) that the lots
of the open closing orders, as a finite set, are as many as is frozen; that on markets
which tell the days apart `yd_closing` and `td_closing` each equal the lots booked
there, and on the others neither is negative and today's available volume is not either;
and that an order that is open has a flag that fits (`OrderOK`).  `OrderedEffect`,
`MatchedEffect` and `WithdrawnEffect` say what `Update` does to the fields, `LotsChange`
what a step does to the number of open lots, `OrderedKeeps`, `MatchedKeeps` and
`WithdrawnKeeps` put the two together for each way of booking.  For `NoOversell`, `Safe` adds
that what is available of either day is not negative (`Free`): `ChosenFlag` gives what is
available when the class chooses a flag, `OrderedFree` that it is enough, and `NoLessFree`
that no answer takes from it.  The refinement follows from the invariant: a step is one
step of the ledger on the position it changes.

For `OpeningLeak`, `LeakInv` counts the lots of the open opening orders in the same way and
adds that an order that is not sent has none; so the order that has left its volume frozen
never moves again, and witnesses the surplus for ever (`LeakStep`).  The rejection that
leaks is one that finds all that is frozen to be its own volume: nothing else is open then
and nothing was left before (`HandleTradeOrderRepLeak`).

`MemServer_proofs` proves for all messages, withdraws, limits and numbers of copies:

* `TypeCorrect`, with the types of the self-knock check;
* `OneFateHolds`: `OneFate` is inductive with the types, dropped messages included;
* `RefusedLeavesNoTraceHolds` and `ApartOrNoKnockHolds`, the latter for orders that have
  flags (`AllFlagged`) and messages none of whose orders cross each other
  (`NoneCrossesItself`).

The invariant behind the last two says what the book does not know (`Unanswered`: no order
is acknowledged, filled or withdrawn in it, and none is found by its numbers, so that a
withdraw finds nothing), what it does (`OnlyAge`: an order with a flag that was sent is in
the book, or finished and more than `kOrderTimeoutMS` old), and that the accounts of what
was sent agree (`SentAgrees`).  `NextEffect` reduces the steps to three kinds: an order
message passes, one is refused, or the book is left alone.  A new order is compared with
every open order that is not old (`OpponentIsOld`), which gives `ApartOrNoKnock`.

Every invariant and action property of a passing run is stated by a theorem.  Only
model-checked: the liveness properties `Progress` and `Settled`, which are out of the
prover's reach, and what the runs that expect a violation refute.

## Not modelled

* The checks of requests in `utils.cc`.  `CheckTradeOrderMessage` uses `=` where `==` is
  meant (line 112), so that it overwrites the code of every sell order it reads; the
  server hands it the wrong address, so what it reads there is not determined by the
  repository.  `CheckTradeWithdrawMessage` likewise.
* Queries, which go to the broker and back and change no state.
* Numbers and codes (`CreateStandardOrderNo`, `ParseStandardOrderNo`,
  `CreateInnerMatchNo`: text without state), options (read once; note that
  `Load` never fills `flow_controls_`), the mapping calls (a failure ends the
  process), the example brokers, the CRTP example and the request client (I/O).
* `forbid_closing_today_`: it guards only changes of entries of `open_cache_`, and there
  are none.
* Closing flags of clients that do not fit the market, `CloseToday` next to `Close` on DCE
  and CZCE for one (`position_master.cc:249`); those that fit are in `Spec`.
* Batches in `PositionMaster`: only the first order of a message is booked
  (`position_master.cc:93`), as in all unit tests.

## Plan

1. `OrderCheck`: the two checks of requests as operators on the message they are meant
   for, against what their comments say.
2. `PositionMaster` with flags that do not fit the market and with messages of several orders.
3. `MemServer` with the queue of `FlowControl` itself, across a restart and with market 0.
4. Theorems about these.
