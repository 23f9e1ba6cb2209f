----------------------------- MODULE AntiSelfKnock -----------------------------
(***************************************************************************)
(* The self-knock check of the broker (anti_self_knock_risker.h and .cc): a *)
(* book of the orders the broker has let through, against which every new  *)
(* order is checked, kept up to date from withdraw requests and from the   *)
(* replies to orders and withdraws and the knocks.  All of it runs in one  *)
(* thread: every public method of AntiSelfKnockRisk is one atomic action.  *)
(*                                                                         *)
(* The class is driven as its unit tests drive it: each message goes to the *)
(* method that is named for it.  The wiring of MemBrokerServer, which      *)
(* hands withdraw requests to another method, is not part of this module.  *)
(*                                                                         *)
(* The counter and the exchange are external: they accept or reject the    *)
(* orders of a message, fill and cancel them, and report each step by a    *)
(* notice.  Notices arrive in any order and may be lost.  A book is kept   *)
(* per security and books do not touch each other: this is one security.   *)
(***************************************************************************)
EXTENDS Integers, Sequences, FiniteSets

CONSTANTS
    Message,         \* order messages, each with one or more orders
    Items,           \* Items[m]: the orders of message m
    kOrderTimeoutMS, \* in ticks of the clock
    MayFail,         \* the withdraws that may be refused though orders are live
    MaxNow,          \* bound: the clock stops here
    MaxWithdraws     \* bound: withdraw requests in all

(* side is what the exchange trades, bs_flag the flag of the item, which is   *)
(* all that the check reads.  A client may leave the flag out (send_req.cc  *)
(* does: it sets that of the message only).                                *)
OrderType ==
    {i \in [side : {"buy", "sell"}, bs_flag : {"buy", "sell", "none"},
            price : Nat, volume : Nat \ {0}] : i.bs_flag \in {i.side, "none"}}

ASSUME ItemsAssumption == Items \in [Message -> Seq(OrderType)]

ASSUME NumbersAssumption ==
    /\ kOrderTimeoutMS \in Nat
    /\ MayFail \subseteq {"order", "batch"}
    /\ MaxNow \in Nat
    /\ MaxWithdraws \in Nat

(* An order is named by its message and its place in it.  The exchange's    *)
(* order_no of an order is the order itself.                               *)
Order == UNION {{m} \X (1 .. Len(Items[m])) : m \in Message}

OrdersOf(m) == {m} \X (1 .. Len(Items[m]))
Side(o) == Items[o[1]][o[2]].side
BsFlag(o) == Items[o[1]][o[2]].bs_flag
Price(o) == Items[o[1]][o[2]].price
Volume(o) == Items[o[1]][o[2]].volume

(* The shares of an order are numbered, so that a knock is the set of the    *)
(* shares it fills and a match_volume the number of shares in a set.        *)
Shares(o, n) == {o} \X (1 .. n)

NoOrder == <<>>

VARIABLES
    now,                \* x::UnixMilli()
    inner,              \* the InnerOrder made for each order
    book,               \* the orders in bids_ and asks_
    single_orders_,     \* order_no -> the order its InnerOrder was made for
    batch_orders_,      \* batch_no (a message) -> its InnerOrders
    knock_first_orders_,\* order_no -> knocks that came before the reply
    \* external
    stage,              \* what has become of an order
    filled,             \* how much of it the exchange has filled
    withdraws,          \* withdraw requests on their way
    notices,            \* reports on their way
    lost,               \* whether a report was lost
    requested,          \* withdraw requests so far
    answered,           \* ghost: the messages whose reply has arrived
    awaited,            \* ghost: the withdraws whose answer has not arrived
    late                \* ghost: the orders that an answer came, or is, late for

risk == <<inner, book, single_orders_, batch_orders_, knock_first_orders_>>
external == <<stage, filled, withdraws, notices, lost, requested>>
ghosts == <<answered, awaited, late>>
vars == <<now, risk, external, ghosts>>

(* Times start at 1: withdraw_time 0 means that no withdraw was requested.  *)
(* arrival is the place in the insertion order of the multimaps; acked is  *)
(* "order_no is not empty"; matched holds the shares that match_volume      *)
(* counts.                                                                 *)
NewInnerOrder ==
    [create_time |-> 0, arrival |-> 0, acked |-> FALSE, matched |-> {},
     withdraw_time |-> 0, withdraw_succeed |-> FALSE, finish_flag |-> FALSE]

(* A cached vector of knocks is abstracted to what it adds up to. *)
NoKnocks == [shares |-> {}, withdrawn |-> FALSE]

Init ==
    /\ now = 1
    /\ inner = [o \in Order |-> NewInnerOrder]
    /\ book = {}
    /\ single_orders_ = [o \in Order |-> NoOrder]
    /\ batch_orders_ = [m \in Message |-> {}]
    /\ knock_first_orders_ = [o \in Order |-> NoKnocks]
    /\ stage = [o \in Order |-> "unsent"]
    /\ filled = [o \in Order |-> 0]
    /\ withdraws = {}
    /\ notices = {}
    /\ lost = FALSE
    /\ requested = 0
    /\ answered = {}
    /\ awaited = {}
    /\ late = {}

--------------------------------------------------------------------------------
(* InnerOrder::IsFinished: the reason is tested before the flag is set.      *)

AckTimedOut(i) == ~i.acked /\ now - i.create_time > kOrderTimeoutMS

WithdrawTimedOut(i) ==
    i.acked /\ i.withdraw_time > 0 /\ now - i.withdraw_time > kOrderTimeoutMS

IsFinished(o, i) ==
    \/ i.finish_flag
    \/ i.withdraw_succeed
    \/ Cardinality(i.matched) >= Volume(o)
    \/ AckTimedOut(i)
    \/ WithdrawTimedOut(i)

Finished(o) == IsFinished(o, inner[o])

--------------------------------------------------------------------------------
(* OrderBook::HandleTradeOrderReq.  An item without a flag of its own has no   *)
(* InnerOrder: it is neither checked nor put into the book.                *)

Flagged(o) == BsFlag(o) # "none"

(* Mutant: orders of the same price do not cross. *)
CrossStrictly(o, p) ==
    \/ BsFlag(o) = "buy" /\ BsFlag(p) = "sell" /\ Price(p) < Price(o)
    \/ BsFlag(o) = "sell" /\ BsFlag(p) = "buy" /\ Price(p) > Price(o)

Cross(o, p) ==
    \/ BsFlag(o) = "buy" /\ BsFlag(p) = "sell" /\ Price(p) <= Price(o)
    \/ BsFlag(o) = "sell" /\ BsFlag(p) = "buy" /\ Price(p) >= Price(o)

(* p stands before q in the multimap of their side. *)
StandsBefore(p, q) ==
    \/ BsFlag(p) = "buy" /\ Price(p) > Price(q)
    \/ BsFlag(p) = "sell" /\ Price(p) < Price(q)
    \/ Price(p) = Price(q) /\ inner[p].arrival < inner[q].arrival

Crossing(o) == {p \in book : Cross(o, p)}

Passes(o) == \A p \in Crossing(o) : Finished(p)

(* The loop erases the finished orders that stand before the first that is  *)
(* not.                                                                    *)
Erased(o) ==
    {p \in Crossing(o) : 
        \A q \in Crossing(o) : q = p \/ StandsBefore(q, p) => Finished(q)}

(* The orders of a message are checked in turn, up to the first refused.    *)
Checked(m) == {o \in OrdersOf(m) : \A p \in OrdersOf(m) : p[2] < o[2] => Passes(p)}

AllErased(m) == UNION {Erased(o) : o \in Checked(m)}

(* OnTradeOrderReqPass: one new InnerOrder per item with a flag, inserted     *)
(* behind those of the same price.                                         *)
Entered(m) == {o \in OrdersOf(m) : Flagged(o)}

Placed == Cardinality({o \in Order : stage[o] # "unsent"})

PassedOrder(o) ==
    [NewInnerOrder EXCEPT !.create_time = now, !.arrival = Placed + o[2]]

WithErased(m) ==
    [o \in Order |->
       IF o \in AllErased(m) THEN [inner[o] EXCEPT !.finish_flag = TRUE] ELSE inner[o]]

(* MemBrokerServer::SendTradeOrderReq: the check and, when it passes, the    *)
(* insertion and the send.                                                 *)
PassOrder(m) ==
    /\ \A o \in OrdersOf(m) : stage[o] = "unsent" /\ Passes(o)
    /\ book' = (book \ AllErased(m)) \cup Entered(m)
    /\ inner' = [o \in Order |->
                   IF o \in Entered(m) THEN PassedOrder(o) ELSE WithErased(m)[o]]
    /\ stage' = [o \in Order |-> IF o \in OrdersOf(m) THEN "sent" ELSE stage[o]]
    /\ UNCHANGED <<now, single_orders_, batch_orders_, knock_first_orders_,
                   filled, withdraws, notices, lost, requested, ghosts>>

(* The message is refused because one of its orders crosses, or because all  *)
(* pass but it is older than its timeout (the age of a message is not       *)
(* modelled: it may be either).  The client may send the like again.        *)
RefuseOrder(m) ==
    /\ \A o \in OrdersOf(m) : stage[o] = "unsent"
    /\ book' = book \ AllErased(m)
    /\ inner' = WithErased(m)
    /\ UNCHANGED <<now, single_orders_, batch_orders_, knock_first_orders_,
                   external, ghosts>>

SendTradeOrderReq(m) == PassOrder(m) \/ RefuseOrder(m)

--------------------------------------------------------------------------------
(* HandleTradeOrderRep *)

(* Orders of one message with the same flag and price: a reply item names    *)
(* them by these alone, and OrderBook::HandleTradeOrderRep takes the first  *)
(* one still in the book.                                                  *)
Alike(o, p) == o[1] = p[1] /\ BsFlag(o) = BsFlag(p) /\ Price(o) = Price(p)

(* An item without an order_no erases the one it finds, so the next reply    *)
(* item finds the next one.                                                *)
ErasedBefore(o, accepted) ==
    Cardinality({p \in OrdersOf(o[1]) \ accepted : Alike(p, o) /\ p[2] < o[2]})

FoundBy(o, accepted) ==
    {p \in book :
        /\ Alike(p, o)
        /\ Cardinality({q \in book : Alike(q, o) /\ StandsBefore(q, p)})
             = ErasedBefore(o, accepted)}

ErasedByReply(m, accepted) == UNION {FoundBy(o, accepted) : o \in OrdersOf(m) \ accepted}

(* Mutant: an order that is not found is not skipped. *)
AckedByReplyOrNull(m, accepted) ==
    UNION {IF FoundBy(o, accepted) = {} THEN {NoOrder} ELSE FoundBy(o, accepted) : o \in accepted}

AckedByReply(m, accepted) == UNION {FoundBy(o, accepted) : o \in accepted}

(* Mutant: the knocks that came first are not replayed. *)
ReplaysNone(p, accepted) == {}

(* Knocks that came first are replayed after the loop.  Those of an order    *)
(* that the replay finishes leave nothing behind that is read again.        *)
Replays(p, accepted) ==
    {o \in accepted : p \in FoundBy(o, accepted) /\ knock_first_orders_[o] # NoKnocks}

Acked(p, replays) ==
    [inner[p] EXCEPT
        !.acked = TRUE,
        !.matched = @ \cup UNION {knock_first_orders_[o].shares : o \in replays},
        !.withdraw_succeed = @ \/ \E o \in replays : knock_first_orders_[o].withdrawn]

AckedAndReplayed(p, accepted) ==
    LET i == Acked(p, Replays(p, accepted)) IN
    [i EXCEPT !.finish_flag = @ \/ (Replays(p, accepted) # {} /\ IsFinished(p, i))]

(* The replay of o's knocks finds p finished and takes o out. *)
FinishedByReplay(o, p, accepted) ==
    /\ o \in Replays(p, accepted)
    /\ IsFinished(p, Acked(p, {q \in Replays(p, accepted) : q[2] <= o[2]}))

Batched(m) == Len(Items[m]) > 1

HandleTradeOrderRep(m, accepted) ==
    /\ book' = book \ ErasedByReply(m, accepted)
    /\ inner' =
         [p \in Order |->
            IF p \in AckedByReply(m, accepted) THEN AckedAndReplayed(p, accepted) ELSE inner[p]]
    /\ single_orders_' =
         [o \in Order |->
            IF o \in accepted /\ FoundBy(o, accepted) # {}
            THEN LET p == CHOOSE p \in FoundBy(o, accepted) : TRUE IN
                 IF FinishedByReplay(o, p, accepted) THEN NoOrder ELSE p
            ELSE single_orders_[o]]
    /\ batch_orders_' =
         [batch_orders_ EXCEPT
            ![m] = LET all == @ \cup AckedByReply(m, accepted) IN
                   IF ~Batched(m) THEN @
                   ELSE IF /\ \E p \in all, o \in accepted : FinishedByReplay(o, p, accepted)
                           /\ \A p \in all : IsFinished(p, inner'[p])
                   THEN {} ELSE all]
    /\ knock_first_orders_' =
         [o \in Order |->
            IF o \in accepted /\ FoundBy(o, accepted) # {} THEN NoKnocks
            ELSE knock_first_orders_[o]]

--------------------------------------------------------------------------------
(* Withdraws *)

(* An order_no withdraws one order, a batch_no all those of its message.     *)
WithdrawTarget == [order : Order] \cup [batch : {m \in Message : Batched(m)}]

Names(t) == "order" \in DOMAIN t

(* The orders that a withdraw is meant for, and those it finds. *)
Meant(t) == IF Names(t) THEN {t.order} ELSE OrdersOf(t.batch)

Targets(t) ==
    IF Names(t) THEN {single_orders_[t.order]} \ {NoOrder} ELSE batch_orders_[t.batch]

HandleTradeWithdrawReq(t) ==
    /\ inner' = [p \in Order |-> IF p \in Targets(t)
                                THEN [inner[p] EXCEPT !.withdraw_time = now] ELSE inner[p]]
    /\ UNCHANGED <<book, single_orders_, batch_orders_, knock_first_orders_>>

(* The error of a reply is looked at for a single order only. *)
HandleTradeWithdrawRep(t, succeeded) ==
    /\ inner' =
         [p \in Order |->
            IF p \in Targets(t) /\ (Names(t) => succeeded)
            THEN [inner[p] EXCEPT !.withdraw_succeed = TRUE] ELSE inner[p]]
    /\ UNCHANGED <<book, single_orders_, batch_orders_, knock_first_orders_>>

--------------------------------------------------------------------------------
(* HandleTradeKnock *)

CacheKnock(o, shares, withdrawn) ==
    /\ single_orders_[o] = NoOrder
    /\ knock_first_orders_' =
         [knock_first_orders_ EXCEPT
            ![o] = [shares |-> @.shares \cup shares, withdrawn |-> @.withdrawn \/ withdrawn]]
    /\ UNCHANGED <<inner, book, single_orders_, batch_orders_>>

Knocked(p, shares, withdrawn) ==
    [inner[p] EXCEPT !.matched = @ \cup shares, !.withdraw_succeed = @ \/ withdrawn]

(* The orders of the batch are tested in turn, up to the first that is not   *)
(* finished; the batch goes when all are.                                  *)
TestedFinished(batch, p, i) ==
    {q \in batch :
        \A r \in batch : r[2] <= q[2] => IF r = p THEN IsFinished(p, i) ELSE Finished(r)}

(* Mutant: the batch goes with the first of its orders that is finished. *)
BatchLeftEarly(batch, p, tested) == IF p \in tested THEN {} ELSE batch

BatchLeft(batch, p, tested) == IF batch \subseteq tested THEN {} ELSE batch

ApplyKnock(o, shares, withdrawn) ==
    /\ single_orders_[o] # NoOrder
    /\ LET p == single_orders_[o]
           i == Knocked(p, shares, withdrawn)
           done == IsFinished(p, i)
           tested == IF done THEN {p} \cup TestedFinished(batch_orders_[o[1]], p, i) ELSE {}
       IN  /\ inner' =
                [q \in Order |->
                   LET new == IF q = p THEN i ELSE inner[q] IN
                   IF q \in tested THEN [new EXCEPT !.finish_flag = TRUE] ELSE new]
           /\ single_orders_' =
                IF done THEN [single_orders_ EXCEPT ![o] = NoOrder] ELSE single_orders_
           /\ batch_orders_' =
                [batch_orders_ EXCEPT ![o[1]] = BatchLeft(@, p, tested)]
    /\ UNCHANGED <<book, knock_first_orders_>>

HandleTradeKnock(o, shares, withdrawn) ==
    CacheKnock(o, shares, withdrawn) \/ ApplyKnock(o, shares, withdrawn)

--------------------------------------------------------------------------------
(* The steps of the broker: requests from clients, reports from outside.      *)

RequestWithdraw(t) ==
    /\ requested < MaxWithdraws
    /\ requested' = requested + 1
    /\ IF Names(t) THEN stage[t.order] \in {"live", "done"}
       ELSE \E o \in OrdersOf(t.batch) : stage[o] \in {"live", "done"}
    /\ HandleTradeWithdrawReq(t)
    /\ withdraws' = withdraws \cup {t}
    /\ awaited' = awaited \cup {t}
    /\ UNCHANGED <<now, stage, filled, notices, lost, answered, late>>

(* A report that is read is under way no more. *)
Noted(n) ==
    /\ notices' = notices \ {n}
    /\ answered' = IF n.type = "order" THEN answered \cup {n.message} ELSE answered
    /\ awaited' = IF n.type = "withdraw" THEN awaited \ {n.target} ELSE awaited

Deliver(n) ==
    /\ \/ n.type = "order" /\ HandleTradeOrderRep(n.message, n.accepted)
       \/ n.type = "withdraw" /\ HandleTradeWithdrawRep(n.target, n.succeeded)
       \/ n.type = "knock" /\ HandleTradeKnock(n.order, n.shares, n.withdrawn)
    /\ Noted(n)
    /\ UNCHANGED <<now, stage, filled, withdraws, lost, requested, late>>

(* offer() returned less than 0: the report is only logged. *)
Lose(n) ==
    /\ notices' = notices \ {n}
    /\ lost' = TRUE
    /\ UNCHANGED <<now, risk, stage, filled, withdraws, requested, ghosts>>

(* The reply to an order, or the answer to a withdraw of it, has not arrived   *)
(* and is more than kOrderTimeoutMS away from its request.  A withdraw that *)
(* was answered in time is not late, whatever the answer.                  *)
Awaited(o) == \E t \in awaited : o \in Meant(t)

Overdue(o, t) ==
    /\ stage[o] # "unsent"
    /\ \/ o[1] \notin answered /\ t - inner[o].create_time > kOrderTimeoutMS
       \/ /\ Awaited(o)
          /\ inner[o].withdraw_time > 0
          /\ t - inner[o].withdraw_time > kOrderTimeoutMS

Tick ==
    /\ now < MaxNow
    /\ now' = now + 1
    /\ late' = late \cup {o \in Order : Overdue(o, now + 1)}
    /\ UNCHANGED <<risk, external, answered, awaited>>

--------------------------------------------------------------------------------
(* The counter and the exchange. *)

OrderNotice(m, accepted) == [type |-> "order", message |-> m, accepted |-> accepted]

WithdrawNotice(t, succeeded) == [type |-> "withdraw", target |-> t, succeeded |-> succeeded]

KnockNotice(o, shares, withdrawn) ==
    [type |-> "knock", order |-> o, shares |-> shares, withdrawn |-> withdrawn]

Answer(m, accepted) ==
    /\ \A o \in OrdersOf(m) : stage[o] = "sent"
    /\ stage' =
         [o \in Order |->
            IF o \notin OrdersOf(m) THEN stage[o]
            ELSE IF o \in accepted THEN "live" ELSE "rejected"]
    /\ notices' = notices \cup {OrderNotice(m, accepted)}
    /\ UNCHANGED <<now, risk, filled, withdraws, lost, requested, ghosts>>

Fill(o, n) ==
    /\ stage[o] = "live"
    /\ n \in filled[o] + 1 .. Volume(o)
    /\ filled' = [filled EXCEPT ![o] = n]
    /\ stage' = [stage EXCEPT ![o] = IF n = Volume(o) THEN "done" ELSE "live"]
    /\ notices' = notices \cup {KnockNotice(o, Shares(o, n) \ Shares(o, filled[o]), FALSE)}
    /\ UNCHANGED <<now, risk, withdraws, lost, requested, ghosts>>

Withdrawn(t) == {o \in Meant(t) : stage[o] = "live"}

(* The answer says whether an order was withdrawn, that of a batch withdraw   *)
(* also succeeds when its orders are over.  The counter may also refuse     *)
(* what it could withdraw.                                                 *)
MayAnswer(t, succeeded) ==
    IF Names(t) THEN IF succeeded THEN Withdrawn(t) # {} ELSE Withdrawn(t) = {} \/ "order" \in MayFail
    ELSE succeeded \/ "batch" \in MayFail

AnswerWithdraw(t, succeeded) ==
    /\ MayAnswer(t, succeeded)
    /\ withdraws' = withdraws \ {t}
    /\ stage' =
         [o \in Order |-> IF succeeded /\ o \in Withdrawn(t) THEN "done" ELSE stage[o]]
    /\ notices' =
         notices \cup {WithdrawNotice(t, succeeded)}
                 \cup {KnockNotice(o, {}, TRUE) : o \in IF succeeded THEN Withdrawn(t) ELSE {}}
    /\ UNCHANGED <<now, risk, filled, lost, requested, ghosts>>

Next ==
    \/ \E m \in Message : SendTradeOrderReq(m)
    \/ \E t \in WithdrawTarget : RequestWithdraw(t)
    \/ \E n \in notices : Deliver(n) \/ Lose(n)
    \/ Tick
    \/ \E m \in Message : \E accepted \in SUBSET OrdersOf(m) : Answer(m, accepted)
    \/ \E o \in Order : \E n \in 1 .. Volume(o) : Fill(o, n)
    \/ \E t \in withdraws, succeeded \in BOOLEAN : AnswerWithdraw(t, succeeded)

Spec == Init /\ [][Next]_vars

--------------------------------------------------------------------------------
(* Properties *)

NoticeType ==
    [type : {"order"}, message : Message, accepted : SUBSET Order]
        \cup [type : {"withdraw"}, target : WithdrawTarget, succeeded : BOOLEAN]
        \cup [type : {"knock"}, order : Order, shares : SUBSET (Order \X Nat), withdrawn : BOOLEAN]

(* Every variable keeps its type. *)
TypeOK ==
    /\ now \in Nat
    /\ inner \in [Order -> [create_time : Nat, arrival : Nat, acked : BOOLEAN,
                            matched : SUBSET (Order \X Nat), withdraw_time : Nat,
                            withdraw_succeed : BOOLEAN, finish_flag : BOOLEAN]]
    /\ book \subseteq Order
    /\ single_orders_ \in [Order -> Order \cup {NoOrder}]
    /\ batch_orders_ \in [Message -> SUBSET Order]
    /\ knock_first_orders_ \in [Order -> [shares : SUBSET (Order \X Nat), withdrawn : BOOLEAN]]
    /\ stage \in [Order -> {"unsent", "sent", "live", "rejected", "done"}]
    /\ filled \in [Order -> Nat]
    /\ withdraws \subseteq WithdrawTarget
    /\ notices \subseteq NoticeType
    /\ lost \in BOOLEAN
    /\ requested \in Nat
    /\ answered \subseteq Message
    /\ awaited \subseteq WithdrawTarget
    /\ late \subseteq Order

Open(o) == stage[o] \in {"sent", "live"}

(* The exchange would match buy order o with sell order p. *)
CanMatch(o, p) == Side(o) = "buy" /\ Side(p) = "sell" /\ Price(o) >= Price(p)

(* The broker stopped waiting for an answer that did not come in time. *)
GaveUp(o) == o \in late /\ inner[o].finish_flag

(* Two orders that could match each other are never both open, unless the     *)
(* broker has given up waiting for news of one of them: for the reply, or   *)
(* for the answer to a withdraw, that has not come in time.  Whatever order *)
(* the reports come in, and whichever are lost.                            *)
NoSelfKnock ==
    \A o, p \in Order :
        Open(o) /\ Open(p) /\ CanMatch(o, p) => GaveUp(o) \/ GaveUp(p)

(* Once every report has arrived and none was lost, no order that is over     *)
(* blocks another: what comes early, late or out of order is not forgotten. *)
NoPhantomBlock ==
    notices = {} /\ withdraws = {} /\ ~lost =>
        \A p \in book : stage[p] \in {"rejected", "done"} => Finished(p)

(* Every acknowledged order that is not finished can be found, by the knocks  *)
(* and withdraws of its order_no and by those of its batch_no.              *)
Reachable ==
    \A p \in Order :
        inner[p].acked /\ ~IsFinished(p, inner[p]) =>
            /\ single_orders_[p] = p
            /\ Batched(p[1]) => p \in batch_orders_[p[1]]
================================================================================
