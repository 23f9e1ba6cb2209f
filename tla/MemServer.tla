------------------------------- MODULE MemServer -------------------------------
(***************************************************************************)
(* MemBrokerServer (mem_server.h): the loop of Run with what it does to a    *)
(* message from the request stream to the broker and to a report on the     *)
(* inner stream, around the self-knock check of AntiSelfKnock, which is wired *)
(* here as the server wires it and not as its unit tests do.               *)
(*                                                                         *)
(* Flow control is what FlowControl shows of it: Pop returns what was pushed *)
(* once, the messages of a limited market when there is room for them, the  *)
(* others first in, first out.  Of PositionMaster it is modelled which       *)
(* messages it was told of.  Clients, counter and exchange are external.    *)
(***************************************************************************)
EXTENDS Integers, Sequences, FiniteSets

CONSTANTS
    Message,             \* order messages
    Items,               \* Items[m]: the orders of message m
    kOrderTimeoutMS,     \* of the self-knock check, in ticks
    Withdraw,            \* withdraw messages
    Target,              \* Target[w]: the order or batch that w withdraws
    request_timeout_ms,  \* in ticks, 0 for none
    timeout,             \* timeout[m]: the one that message m asks for, or 0
    Limited,             \* the messages for markets with a queue of their own
    enable_query_only,
    MaxNow,              \* bound: the clock stops here
    MaxUnread,           \* bound: copies of a message in the stream at once
    LastPublish          \* bound: nothing is published after it

Id == Message \cup Withdraw

VARIABLES
    pc,                  \* where Run is: "requests", "reports", "pop"
    all_message_,        \* the ids seen
    queue,               \* flow_control_queue_: the queues of the markets
    normal_queue_,       \* and the one for all else
    reserved,            \* the messages pos_master_ was told of
    \* the state of risk_, and of its counter and exchange
    now, inner, book, single_orders_, batch_orders_, knock_first_orders_,
    stage, filled, withdraws, notices, lost, requested, answered, awaited, late,
    \* external
    unread,              \* copies of a message in the request stream
    timestamp,           \* when it was made, 0 before
    \* history
    dropped,             \* the messages that Push dropped
    sends,               \* how often the broker was given it
    refusals             \* how often it was answered with an error

Risk ==
    INSTANCE AntiSelfKnock WITH
        MayFail <- {"order", "batch"}, MaxWithdraws <- 0

ASSUME WithdrawAssumption == Target \in [Withdraw -> Risk!WithdrawTarget]

ASSUME ItemsAssumption == IsFiniteSet(Message) /\ Items \in [Message -> Seq(Risk!OrderType)]

ASSUME TimeoutAssumption ==
    /\ kOrderTimeoutMS \in Nat
    /\ request_timeout_ms \in Nat
    /\ timeout \in [Message -> Nat]
    /\ enable_query_only \in BOOLEAN
    /\ Limited \subseteq Id
    /\ MaxUnread \in Nat
    /\ LastPublish \in Nat
    /\ MaxNow \in Nat

risk == <<inner, book, single_orders_, batch_orders_, knock_first_orders_>>
counter == <<stage, filled, withdraws, notices, lost, requested, answered, awaited, late>>
client == <<unread, timestamp>>
fate == <<queue, normal_queue_, dropped, reserved, sends, refusals>>
vars == <<pc, all_message_, fate, now, risk, counter, client>>

Init ==
    /\ pc = "requests"
    /\ all_message_ = {}
    /\ queue = {}
    /\ normal_queue_ = <<>>
    /\ dropped = {}
    /\ reserved = {}
    /\ Risk!Init
    /\ unread = [m \in Id |-> 0]
    /\ timestamp = [m \in Id |-> 0]
    /\ sends = [m \in Id |-> 0]
    /\ refusals = [m \in Id |-> 0]

--------------------------------------------------------------------------------
(* HandleMessage.  A definition marked "Mutant" is part of no behaviour: it   *)
(* is a plausible bug in the definition after it.                          *)

(* Mutant: nothing is remembered. *)
SeenNever(m) == enable_query_only

Ignored(m) == m \in all_message_ \/ enable_query_only

(* WriteRepPublic, whose failure is only logged. *)
Refuse(m) ==
    /\ refusals' = [refusals EXCEPT ![m] = @ + 1]
    /\ UNCHANGED <<reserved, sends>>

(* The check is given the buffer from the frame header on.  What it finds     *)
(* there for the fields of the message may pass or not.                    *)
CheckRefuses(m) == Refuse(m) /\ UNCHANGED <<queue, normal_queue_, dropped>>

Empty(m) == m \in Message /\ Items[m] = <<>>

(* FlowControlQueue::Push.  For an order without items it does nothing.       *)
Push(m) ==
    /\ queue' = IF ~Empty(m) /\ m \in Limited THEN queue \cup {m} ELSE queue
    /\ normal_queue_' =
         IF ~Empty(m) /\ m \notin Limited THEN Append(normal_queue_, m) ELSE normal_queue_
    /\ dropped' = IF Empty(m) THEN dropped \cup {m} ELSE dropped

CheckPasses(m) == Push(m) /\ UNCHANGED <<reserved, sends, refusals>>

HandleMessage(m) ==
    IF Ignored(m) THEN UNCHANGED <<all_message_, fate>>
    ELSE /\ all_message_' = all_message_ \cup {m}
         /\ CheckRefuses(m) \/ CheckPasses(m)

PollRequest(m) ==
    /\ pc = "requests"
    /\ unread[m] > 0
    /\ unread' = [unread EXCEPT ![m] = @ - 1]
    /\ HandleMessage(m)
    /\ UNCHANGED <<pc, now, risk, counter, timestamp>>

NoMoreRequests ==
    /\ pc = "requests"
    /\ \A m \in Id : unread[m] = 0
    /\ pc' = "reports"
    /\ UNCHANGED <<all_message_, fate, now, risk, counter, client>>

(* The replies to orders and withdraws and the knocks have no case in         *)
(* HandleMessage: what is read from the inner stream goes no further.      *)
PollReport(n) ==
    /\ pc = "reports"
    /\ Risk!Noted(n)
    /\ UNCHANGED <<pc, all_message_, fate, now, risk, stage, filled, withdraws, lost,
                   requested, late, client>>

NoMoreReports ==
    /\ pc = "reports"
    /\ notices = {}
    /\ pc' = "pop"
    /\ UNCHANGED <<all_message_, fate, now, risk, counter, client>>

--------------------------------------------------------------------------------
(* What Pop returns goes to SendTradeOrderReq or SendTradeWithdrawReq.        *)

TimeLimit(m) == IF timeout[m] > 0 THEN timeout[m] ELSE request_timeout_ms

TimedOut(m) == TimeLimit(m) > 0 /\ now - timestamp[m] > TimeLimit(m)

(* Flow control has filled in the error of a message over the daily limit. *)
RefuseOverLimit(m) == m \in Limited /\ Refuse(m) /\ UNCHANGED <<risk, counter>>

RefuseOrder(m) ==
    /\ Risk!RefuseOrder(m)
    /\ \/ \E o \in Risk!OrdersOf(m) : ~Risk!Passes(o)
       \/ TimedOut(m)
    /\ Refuse(m)

(* Mutant: the position is not told of an order. *)
SendUnreserved(m) ==
    /\ sends' = [sends EXCEPT ![m] = @ + 1]
    /\ UNCHANGED <<reserved, refusals>>

(* Mutant: a withdraw is booked as an order would be. *)
ReserveAny(m) ==
    /\ sends' = [sends EXCEPT ![m] = @ + 1]
    /\ reserved' = reserved \cup {m}
    /\ UNCHANGED refusals

SendToBroker(m) ==
    /\ sends' = [sends EXCEPT ![m] = @ + 1]
    /\ reserved' = reserved \cup ({m} \cap Message)
    /\ UNCHANGED refusals

(* Mutant: an order is let through unchecked. *)
PassUnchecked(m) ==
    /\ ~TimedOut(m)
    /\ book' = book \cup Risk!Entered(m)
    /\ inner' = [o \in Risk!Order |->
                   IF o \in Risk!Entered(m) THEN Risk!PassedOrder(o) ELSE inner[o]]
    /\ stage' = [o \in Risk!Order |-> IF o \in Risk!OrdersOf(m) THEN "sent" ELSE stage[o]]
    /\ SendToBroker(m)
    /\ UNCHANGED <<now, single_orders_, batch_orders_, knock_first_orders_,
                   filled, withdraws, notices, lost, requested, answered, awaited,
                   late>>

PassOrder(m) ==
    /\ Risk!PassOrder(m)
    /\ ~TimedOut(m)
    /\ SendToBroker(m)

SendTradeOrderReq(m) == RefuseOverLimit(m) \/ RefuseOrder(m) \/ PassOrder(m)

(* The request is given to the handler of the reply. *)
PassWithdraw(m) ==
    /\ Risk!HandleTradeWithdrawRep(Target[m], TRUE)
    /\ withdraws' = withdraws \cup {Target[m]}
    /\ awaited' = awaited \cup {Target[m]}
    /\ SendToBroker(m)
    /\ UNCHANGED <<stage, filled, notices, lost, requested, answered, late>>

SendTradeWithdrawReq(m) == RefuseOverLimit(m) \/ PassWithdraw(m)

(* Mutant: the loop polls no more once it has sent something. *)
ThenPop == pc' = "pop"

ThenPoll == pc' = "requests"

(* FlowControlQueue::Pop *)
PopLimited(m) ==
    /\ m \in queue
    /\ queue' = queue \ {m}
    /\ UNCHANGED normal_queue_

PopNormal(m) ==
    /\ normal_queue_ # <<>>
    /\ m = Head(normal_queue_)
    /\ normal_queue_' = Tail(normal_queue_)
    /\ UNCHANGED queue

Dispatch(m) ==
    /\ pc = "pop"
    /\ PopLimited(m) \/ PopNormal(m)
    /\ ThenPoll
    /\ IF m \in Message THEN SendTradeOrderReq(m) ELSE SendTradeWithdrawReq(m)
    /\ UNCHANGED <<all_message_, dropped, now, client>>

(* No market has room, and nothing else is queued. *)
PopNothing ==
    /\ pc = "pop"
    /\ normal_queue_ = <<>>
    /\ ThenPoll
    /\ UNCHANGED <<all_message_, fate, now, risk, counter, client>>

Run ==
    \/ \E m \in Id : PollRequest(m)
    \/ NoMoreRequests
    \/ \E n \in notices : PollReport(n)
    \/ NoMoreReports
    \/ \E m \in Id : Dispatch(m)
    \/ PopNothing

--------------------------------------------------------------------------------
(* Outside.  A client names an order by its order_no, which it learns from    *)
(* the counter; it may publish the same message again.                     *)

Publish(m) ==
    /\ unread[m] < MaxUnread
    /\ now <= LastPublish
    /\ m \in Withdraw =>
         \E o \in Risk!Order :
             /\ IF Risk!Names(Target[m]) THEN o = Target[m].order ELSE o[1] = Target[m].batch
             /\ stage[o] \in {"live", "done"}
    /\ unread' = [unread EXCEPT ![m] = @ + 1]
    /\ timestamp' = [timestamp EXCEPT ![m] = IF @ = 0 THEN now ELSE @]
    /\ UNCHANGED <<pc, all_message_, fate, now, risk, counter>>

(* The callbacks of the broker put a report on the inner stream ...            *)
OnRspTradeOrder ==
    \E m \in {n \in Message : sends[n] > 0} : \E accepted \in SUBSET Risk!OrdersOf(m) : Risk!Answer(m, accepted)

SendTradeKnock == \E o \in Risk!Order : \E n \in 1 .. Risk!Volume(o) : Risk!Fill(o, n)

OnRspTradeWithdraw ==
    \E t \in withdraws, succeeded \in BOOLEAN : Risk!AnswerWithdraw(t, succeeded)

(* ... or fail to, which they only log. *)
NotOffered == \E n \in notices : Risk!Lose(n)

Outside ==
    Risk!Tick \/ OnRspTradeOrder \/ SendTradeKnock \/ OnRspTradeWithdraw \/ NotOffered

Next ==
    \/ Run
    \/ \E m \in Id : Publish(m)
    \/ Outside /\ UNCHANGED <<pc, all_message_, fate, client>>

Spec == Init /\ [][Next]_vars

(* The thread runs.  Nothing is assumed of clients, counter and exchange, nor *)
(* of the markets' queues.                                                 *)
FairSpec == Spec /\ WF_vars(Run)

--------------------------------------------------------------------------------
(* Properties *)

(* Every variable keeps its type, those of the self-knock check included. *)
TypeOK ==
    /\ pc \in {"requests", "reports", "pop"}
    /\ all_message_ \subseteq Id
    /\ queue \subseteq Id
    /\ normal_queue_ \in Seq(Id)
    /\ dropped \subseteq Id
    /\ reserved \subseteq Message
    /\ {unread, timestamp, sends, refusals} \subseteq [Id -> Nat]
    /\ Risk!TypeOK

Count(m, S) == IF m \in S THEN 1 ELSE 0

Times(m, q) == Cardinality({i \in 1 .. Len(q) : q[i] = m})

(* A message that was read is at any time in a queue, with the broker or       *)
(* answered with an error, in exactly one of these and once, however often  *)
(* it was published and however it was refused.  Only an order message      *)
(* without orders may have been dropped instead.                           *)
OneFate ==
    /\ \A m \in Id :
        Count(m, queue) + Times(m, normal_queue_) + Count(m, dropped)
              + sends[m] + refusals[m] = Count(m, all_message_)
    /\ \A m \in dropped : Empty(m)

(* The broker, the positions and the book know the same orders: an order that  *)
(* the broker was not given blocks no other and the positions were not told *)
(* of it, and of one that it was given they were told, and it is in the     *)
(* book unless it is finished or has no flag for the check.                 *)
RefusedLeavesNoTrace ==
    /\ reserved = {m \in Message : sends[m] > 0}
    /\ \A o \in book : sends[o[1]] > 0
    /\ \A o \in Risk!Order :
        sends[o[1]] > 0 /\ Risk!Flagged(o) => o \in book \/ inner[o].finish_flag

(* What is left of the self-knock check as long as no report reaches it: two   *)
(* orders that could match are both open only if they were sent more than     *)
(* kOrderTimeoutMS apart.                                                  *)
ApartOrNoKnock ==
    \A o, p \in Risk!Order :
        Risk!Open(o) /\ Risk!Open(p) /\ Risk!CanMatch(o, p) =>
            \/ inner[o].create_time - inner[p].create_time > kOrderTimeoutMS
            \/ inner[p].create_time - inner[o].create_time > kOrderTimeoutMS

(* The self-knock check keeps its promise in the server too. *)
NoSelfKnock == Risk!NoSelfKnock

(* What is published for a market without limits, with orders in it, is handed *)
(* to the broker or refused, as long as the loop gets to Pop again and      *)
(* again: a client that never pauses can keep it polling.                   *)
Settled ==
    []<>(pc = "pop") =>
        \A m \in Id \ Limited :
            timestamp[m] > 0 ~>
                (enable_query_only \/ Empty(m) \/ sends[m] + refusals[m] > 0)
================================================================================
