------------------------------ MODULE FlowControl ------------------------------
(***************************************************************************)
(* The flow control of the broker (flow_control.h, flow_control.cc): one   *)
(* priority queue per market, a sliding window of send times that bounds   *)
(* the sub-commands of each market in any window, a daily budget kept in a *)
(* memory-mapped file, and a queue for what needs no flow control.         *)
(*                                                                         *)
(* Push and Pop are called by the one thread of MemBrokerServer::Run, so   *)
(* each is one atomic action.  A message is a model value; what Push reads *)
(* of it is given by the constant function Msg.                            *)
(***************************************************************************)
EXTENDS Integers, Sequences, FiniteSets

CONSTANTS
    Request,        \* the messages of the run; each arrives at most once
    Msg,            \* what Push reads of each message
    FlowMarkets,    \* the markets that have a FlowControlConfig
    th_tps_limit,   \* per market: sub-commands allowed in one window
    th_daily_limit, \* per market: sub-commands allowed in one day
    kFlowControlWindowMS,               \* the window, in ticks of the clock
    kFlowControlPriorityWithdraw,       \* the "amount" of a withdraw
    kFlowControlPriorityCreateRedeem,   \* the "amount" of a creation or redemption
    MaxNow,         \* bound: the clock stops here
    LastArrival,    \* bound: no message arrives after this time
    MaxRestarts     \* bound: restarts of the process

kMarketQueueSize == 4

(* items_size is int64_t in the message; Push treats 0 and less alike.  A   *)
(* batch_no that Push can parse makes a withdraw "batched".                *)
MessageType ==
    [type : {"order", "withdraw", "other"}, market : Int, items_size : Nat,
     trade : BOOLEAN, order_amount : Nat, batched : BOOLEAN, batch_size : Nat]

ASSUME MessageAssumption == Msg \in [Request -> MessageType]

ASSUME MarketAssumption == FlowMarkets \subseteq 0 .. kMarketQueueSize - 1

ASSUME LimitAssumption ==
    /\ th_tps_limit \in [FlowMarkets -> Nat]
    /\ th_daily_limit \in [FlowMarkets -> Nat]

ASSUME NumberAssumption ==
    /\ kFlowControlWindowMS \in Nat
    /\ kFlowControlPriorityWithdraw \in Nat
    /\ kFlowControlPriorityCreateRedeem \in Nat
    /\ MaxNow \in Nat
    /\ LastArrival \in Nat
    /\ MaxRestarts \in Nat

VARIABLES
    now,                  \* x::RawDateTime()
    flow_control_queue_,  \* per market: the heap, as a set of FlowControlItem
    sent_ns_queue_,       \* per market: the send times still in the window
    cmd_size_,            \* per market
    total_cmd_size_,      \* per market
    normal_queue_,        \* the messages that need no flow control
    error,                \* the messages whose error field was filled in
    state_total_cmd_size, \* per market: total_cmd_size in state.<date>.mem
    \* what happened, to state the properties on
    arrived,              \* the messages pushed so far
    delivered,            \* the messages Pop has returned
    lost,                 \* the messages in a queue when the process died
    sent_log,             \* per market: every send time, of all processes
    log_from,             \* per market: how much of sent_log is older than this process
    passed_today,         \* per market: sub-commands popped without an error today
    restarts

memory == <<flow_control_queue_, sent_ns_queue_, cmd_size_, total_cmd_size_, normal_queue_>>
history == <<arrived, delivered, lost, sent_log, log_from, passed_today, restarts>>
vars == <<now, memory, error, state_total_cmd_size, history>>

FlowControlItem ==
    [timestamp : Nat, order_amount : Nat, sub_order_size : Nat, msg : Request]

Init ==
    /\ now = 0
    /\ flow_control_queue_ = [m \in FlowMarkets |-> {}]
    /\ sent_ns_queue_ = [m \in FlowMarkets |-> << >>]
    /\ cmd_size_ = [m \in FlowMarkets |-> 0]
    /\ total_cmd_size_ = [m \in FlowMarkets |-> 0]
    /\ normal_queue_ = << >>
    /\ error = {}
    /\ state_total_cmd_size = [m \in FlowMarkets |-> 0]
    /\ arrived = {}
    /\ delivered = {}
    /\ lost = {}
    /\ sent_log = [m \in FlowMarkets |-> << >>]
    /\ log_from = [m \in FlowMarkets |-> 0]
    /\ passed_today = [m \in FlowMarkets |-> 0]
    /\ restarts = 0

--------------------------------------------------------------------------------
(* Push.  A definition marked "Mutant" is part of no behaviour: it is a       *)
(* plausible bug in the definition after it, which a property must notice.  *)

Arrive(r) ==
    /\ r \notin arrived
    /\ now <= LastArrival
    /\ arrived' = arrived \cup {r}
    /\ UNCHANGED <<now, sent_ns_queue_, total_cmd_size_, error, state_total_cmd_size,
                   delivered, lost, sent_log, log_from, passed_today, restarts>>

(* cmd_size_ counts one per message here, and TryPop takes off one per      *)
(* sub-command.                                                            *)
MarketPush(m, item) ==
    /\ flow_control_queue_' = [flow_control_queue_ EXCEPT ![m] = @ \cup {item}]
    /\ cmd_size_' = [cmd_size_ EXCEPT ![m] = @ + 1]

(* Mutant: the message also falls through to the normal queue. *)
EnqueueTwice(r, amount, size) ==
    /\ IF Msg[r].market \in FlowMarkets
       THEN MarketPush(Msg[r].market,
                       [timestamp |-> now, order_amount |-> amount,
                        sub_order_size |-> size, msg |-> r])
       ELSE UNCHANGED <<flow_control_queue_, cmd_size_>>
    /\ normal_queue_' = Append(normal_queue_, r)

Enqueue(r, amount, size) ==
    IF Msg[r].market \in FlowMarkets
    THEN /\ MarketPush(Msg[r].market,
                       [timestamp |-> now, order_amount |-> amount,
                        sub_order_size |-> size, msg |-> r])
         /\ UNCHANGED normal_queue_
    ELSE /\ normal_queue_' = Append(normal_queue_, r)
         /\ UNCHANGED <<flow_control_queue_, cmd_size_>>

(* Mutant: creations and redemptions are pushed to the end with a negative amount. *)
OrderAmountNegated(r) ==
    IF Msg[r].trade THEN Msg[r].order_amount ELSE -kFlowControlPriorityCreateRedeem

OrderAmount(r) ==
    IF Msg[r].trade THEN Msg[r].order_amount ELSE kFlowControlPriorityCreateRedeem

(* An order without items is queued nowhere. *)
EmptyOrder(r) == Msg[r].type = "order" /\ Msg[r].items_size = 0

PushOrder(r) ==
    /\ Arrive(r)
    /\ Msg[r].type = "order"
    /\ Msg[r].items_size > 0
    /\ Enqueue(r, OrderAmount(r), Msg[r].items_size)

PushEmptyOrder(r) ==
    /\ Arrive(r)
    /\ EmptyOrder(r)
    /\ UNCHANGED <<flow_control_queue_, cmd_size_, normal_queue_>>

WithdrawSize(r) == IF Msg[r].batched THEN Msg[r].batch_size ELSE 1

PushWithdraw(r) ==
    /\ Arrive(r)
    /\ Msg[r].type = "withdraw"
    /\ Enqueue(r, kFlowControlPriorityWithdraw, WithdrawSize(r))

PushOther(r) ==
    /\ Arrive(r)
    /\ Msg[r].type = "other"
    /\ normal_queue_' = Append(normal_queue_, r)
    /\ UNCHANGED <<flow_control_queue_, cmd_size_>>

--------------------------------------------------------------------------------
(* Pop *)

(* Pop looks at the queues 1, 2 and 3; Init and Push accept market 0 too.   *)
PolledMarkets == FlowMarkets \cap (1 .. kMarketQueueSize - 1)

(* Mutant: a send time leaves the window one tick early. *)
ExpiredOnTheDot(sent_dt) == now - sent_dt >= kFlowControlWindowMS

Expired(sent_dt) == now - sent_dt > kFlowControlWindowMS

(* Mutant: the loop also drops the first send time that is still in the window. *)
ExpiredPrefixAndOne(q) ==
    CHOOSE k \in 0 .. Len(q) :
        /\ \A i \in 1 .. k - 1 : Expired(q[i])
        /\ k < Len(q) => ~Expired(q[k + 1])
        /\ k > 0 \/ q = << >>

(* The loop at the head of GetMaxPriorityItem: drop from the front until    *)
(* one is still in the window.                                             *)
ExpiredPrefix(q) ==
    CHOOSE k \in 0 .. Len(q) :
        /\ \A i \in 1 .. k : Expired(q[i])
        /\ k < Len(q) => ~Expired(q[k + 1])

InWindow(q) == SubSeq(q, ExpiredPrefix(q) + 1, Len(q))

(* CompareFlowControlItemPtr, and the same comparison in Pop.  Equal amounts *)
(* of the same millisecond are ranked neither way: the heap picks one.     *)
Outranks(a, b) ==
    \/ a.order_amount > b.order_amount
    \/ a.order_amount = b.order_amount /\ a.timestamp < b.timestamp

(* Mutant: first in, first out. *)
TopsOldest(m) ==
    {a \in flow_control_queue_[m] :
        \A b \in flow_control_queue_[m] : a.timestamp <= b.timestamp}

Tops(m) == {a \in flow_control_queue_[m] : \A b \in flow_control_queue_[m] : ~Outranks(b, a)}

Busy == {m \in PolledMarkets : flow_control_queue_[m] # {}}

TopChoices == {top \in [Busy -> UNION {Tops(m) : m \in Busy}] : \A m \in Busy : top[m] \in Tops(m)}

(* Mutant: a batch goes out when one command would fit. *)
HasRoomForOne(m, item) == Len(InWindow(sent_ns_queue_[m])) + 1 <= th_tps_limit[m]

HasRoom(m, item) == Len(InWindow(sent_ns_queue_[m])) + item.sub_order_size <= th_tps_limit[m]

(* Mutant: the size of the batch is not counted. *)
OverDailyLimitBefore(m, item) == state_total_cmd_size[m] >= th_daily_limit[m]

OverDailyLimit(m, item) ==
    state_total_cmd_size[m] + item.sub_order_size > th_daily_limit[m]

(* The markets whose GetMaxPriorityItem returns an item. *)
Ready(top) == {m \in Busy : HasRoom(m, top[m])}

(* GetMaxPriorityItem fills in the error of a top that is over the daily    *)
(* limit, of every polled market, whichever Pop then takes.                *)
Peek(top) ==
    error' = error \cup {top[m].msg : m \in {n \in Ready(top) : OverDailyLimit(n, top[n])}}

(* Mutant: the markets are served in the order of their numbers. *)
IsFirst(top, m) == \A n \in Ready(top) : m <= n

IsBest(top, m) ==
    \A n \in Ready(top) \ {m} :
        \/ Outranks(top[m], top[n])
        \/ ~Outranks(top[n], top[m]) /\ m < n

TryPop(m, item) ==
    /\ flow_control_queue_' = [flow_control_queue_ EXCEPT ![m] = @ \ {item}]
    /\ cmd_size_' = [cmd_size_ EXCEPT ![m] = @ - item.sub_order_size]
    /\ sent_ns_queue_' =
         [n \in FlowMarkets |->
            IF n = m
            THEN InWindow(sent_ns_queue_[n]) \o [i \in 1 .. item.sub_order_size |-> now]
            ELSE IF n \in PolledMarkets THEN InWindow(sent_ns_queue_[n])
            ELSE sent_ns_queue_[n]]
    /\ total_cmd_size_' = [total_cmd_size_ EXCEPT ![m] = @ + item.sub_order_size]
    /\ state_total_cmd_size' = [state_total_cmd_size EXCEPT ![m] = @ + item.sub_order_size]

PopFlow(top, m) ==
    /\ m \in Ready(top)
    /\ IsBest(top, m)
    /\ Peek(top)
    /\ TryPop(m, top[m])
    /\ delivered' = delivered \cup {top[m].msg}
    /\ sent_log' =
         [sent_log EXCEPT ![m] = @ \o [i \in 1 .. top[m].sub_order_size |-> now]]
    /\ passed_today' =
         [passed_today EXCEPT
            ![m] = IF top[m].msg \in error' THEN @ ELSE @ + top[m].sub_order_size]
    /\ UNCHANGED <<now, normal_queue_, arrived, lost, log_from, restarts>>

ExpireSent ==
    sent_ns_queue_' =
        [n \in FlowMarkets |->
            IF n \in PolledMarkets THEN InWindow(sent_ns_queue_[n]) ELSE sent_ns_queue_[n]]

PopNormal(top) ==
    /\ Ready(top) = {}
    /\ normal_queue_ # << >>
    /\ Peek(top)
    /\ ExpireSent
    /\ delivered' = delivered \cup {Head(normal_queue_)}
    /\ normal_queue_' = Tail(normal_queue_)
    /\ UNCHANGED <<now, flow_control_queue_, cmd_size_, total_cmd_size_, state_total_cmd_size,
                   arrived, lost, sent_log, log_from, passed_today, restarts>>

PopNothing(top) ==
    /\ Ready(top) = {}
    /\ normal_queue_ = << >>
    /\ Peek(top)
    /\ ExpireSent
    /\ UNCHANGED <<now, flow_control_queue_, cmd_size_, total_cmd_size_, normal_queue_,
                   state_total_cmd_size, history>>

Pop ==
    \E top \in TopChoices :
        \/ \E m \in Busy : PopFlow(top, m)
        \/ PopNormal(top)
        \/ PopNothing(top)

--------------------------------------------------------------------------------
(* The process dies and starts again: FlowControlMarketQueue's constructor   *)
(* reads the total of the day's state file, nothing else survives.  On a   *)
(* new day the name of the file is new and its bytes are zero.             *)

Queued == {i.msg : i \in UNION {flow_control_queue_[m] : m \in FlowMarkets}}

InNormal == {normal_queue_[i] : i \in 1 .. Len(normal_queue_)}

Restart(new_day) ==
    /\ restarts < MaxRestarts
    /\ restarts' = restarts + 1
    /\ state_total_cmd_size' =
         IF new_day THEN [m \in FlowMarkets |-> 0] ELSE state_total_cmd_size
    /\ total_cmd_size_' = state_total_cmd_size'
    /\ flow_control_queue_' = [m \in FlowMarkets |-> {}]
    /\ sent_ns_queue_' = [m \in FlowMarkets |-> << >>]
    /\ cmd_size_' = [m \in FlowMarkets |-> 0]
    /\ normal_queue_' = << >>
    /\ lost' = lost \cup Queued \cup InNormal
    /\ log_from' = [m \in FlowMarkets |-> Len(sent_log[m])]
    /\ passed_today' = IF new_day THEN [m \in FlowMarkets |-> 0] ELSE passed_today
    /\ UNCHANGED <<now, error, arrived, delivered, sent_log>>

Tick ==
    /\ now < MaxNow
    /\ now' = now + 1
    /\ UNCHANGED <<memory, error, state_total_cmd_size, history>>

Push(r) == PushOrder(r) \/ PushEmptyOrder(r) \/ PushWithdraw(r) \/ PushOther(r)

Next ==
    \/ \E r \in Request : Push(r)
    \/ Pop
    \/ \E new_day \in BOOLEAN : Restart(new_day)
    \/ Tick

Spec == Init /\ [][Next]_vars

--------------------------------------------------------------------------------
(* Properties *)

(* Every variable keeps its type. *)
TypeOK ==
    /\ now \in Nat
    /\ flow_control_queue_ \in [FlowMarkets -> SUBSET FlowControlItem]
    /\ sent_ns_queue_ \in [FlowMarkets -> Seq(Nat)]
    /\ cmd_size_ \in [FlowMarkets -> Int]
    /\ total_cmd_size_ \in [FlowMarkets -> Nat]
    /\ normal_queue_ \in Seq(Request)
    /\ error \subseteq Request
    /\ state_total_cmd_size \in [FlowMarkets -> Nat]
    /\ arrived \subseteq Request
    /\ delivered \subseteq Request
    /\ lost \subseteq Request
    /\ sent_log \in [FlowMarkets -> Seq(Nat)]
    /\ log_from \in [FlowMarkets -> Nat]
    /\ passed_today \in [FlowMarkets -> Nat]
    /\ restarts \in Nat

(* Pop never lets more than th_tps_limit_ sub-commands of a market out in    *)
(* one window of one process: of any th_tps_limit_ + 1 in a row the last    *)
(* leaves more than a window after the first.  Stated on the full log of    *)
(* send times, which nothing prunes; refused requests are in the log too.   *)
RateLimit ==
    \A m \in FlowMarkets :
        \A i \in log_from[m] + 1 .. Len(sent_log[m]) - th_tps_limit[m] :
            sent_log[m][i + th_tps_limit[m]] - sent_log[m][i] > kFlowControlWindowMS

(* The pruned queue of send times is never wrong about the window: it is the  *)
(* end of the full log, and what it has forgotten of this process's log is  *)
(* out of the window for good.                                             *)
WindowOf(q, log, from) ==
    LET old == Len(log) - Len(q) IN
    /\ from <= old
    /\ \A i \in 1 .. Len(q) : q[i] = log[old + i]
    /\ \A i \in from + 1 .. old : Expired(log[i])

WindowExact ==
    \A m \in FlowMarkets : WindowOf(sent_ns_queue_[m], sent_log[m], log_from[m])

(* The sub-commands that leave without an error on one day never exceed     *)
(* th_daily_limit_, however often the process restarts on that day.         *)
DailyLimit == \A m \in FlowMarkets : passed_today[m] <= th_daily_limit[m]

(* The two counters agree, and no sub-command that left is missing in them.  *)
BudgetCounted ==
    \A m \in FlowMarkets :
        /\ total_cmd_size_[m] = state_total_cmd_size[m]
        /\ passed_today[m] <= state_total_cmd_size[m]

(* The inductive invariant behind RateLimit and DailyLimit. *)
IInv == TypeOK /\ WindowExact /\ BudgetCounted /\ RateLimit /\ DailyLimit

(* Every message that arrived is in exactly one place: in one flow control  *)
(* queue, in the normal queue, returned by Pop once, lost in a restart, or  *)
(* an order without items.  None is duplicated and none disappears.         *)
Discarded == {r \in arrived : EmptyOrder(r)}

Accounted ==
    /\ arrived = Queued \cup InNormal \cup delivered \cup lost \cup Discarded
    /\ Cardinality(arrived) =
         Cardinality(UNION {flow_control_queue_[m] \X {m} : m \in FlowMarkets})
         + Len(normal_queue_) + Cardinality(delivered) + Cardinality(lost)
         + Cardinality(Discarded)

SentInWindow(m) ==
    Cardinality({i \in log_from[m] + 1 .. Len(sent_log[m]) : ~Expired(sent_log[m][i])})

Blocked(m, item) ==
    \E top \in flow_control_queue_[m] :
        /\ ~Outranks(item, top)
        /\ SentInWindow(m) + top.sub_order_size > th_tps_limit[m]

Popped == delivered' \ delivered

PoppedItems ==
    {i \in UNION {flow_control_queue_[m] : m \in FlowMarkets} : i.msg \in Popped}

(* The step returns nothing that item, which waits in market m, outranks. *)
Respects(m, item) ==
    \/ Popped = {}
    \/ \E i \in PoppedItems : ~Outranks(item, i)
    \/ Blocked(m, item)

(* What Pop returns is never outranked by a waiting item of a polled market, *)
(* unless the market of that item is out of room for one that is at least   *)
(* as urgent: a withdraw waits for an order only when its own market's      *)
(* window is full.  The room is measured on the full log.  A message of the *)
(* normal queue ranks below every item.                                     *)
PriorityRespected ==
    [][\A m \in PolledMarkets : \A item \in flow_control_queue_[m] : Respects(m, item)]_vars

(* Flow control implements the abstract limiter. *)
Limiter ==
    INSTANCE RateLimiter
        WITH Market <- FlowMarkets, Limit <- th_tps_limit, DailyLimit <- th_daily_limit,
             Window <- kFlowControlWindowMS, clock <- now, sent <- sent_log,
             from <- log_from, today <- passed_today

ImplementsLimiter == Limiter!Spec

--------------------------------------------------------------------------------
(* Liveness.  The loop of Run calls Pop in every turn and never sleeps, so   *)
(* that it turns many times in a tick of this clock: time passes only when  *)
(* Pop has nothing to return.                                              *)
NothingToPop == normal_queue_ = << >> /\ \A top \in TopChoices : Ready(top) = {}

PromptTick == NothingToPop /\ Tick

PromptNext ==
    \/ \E r \in Request : Push(r)
    \/ Pop
    \/ \E new_day \in BOOLEAN : Restart(new_day)
    \/ PromptTick

PromptSpec ==
    Init /\ [][PromptNext]_vars /\ WF_vars(Pop) /\ WF_vars(PromptTick)

(* An item larger than the whole window: nothing ranked below it can pass.   *)
Oversize(m, i) == i.sub_order_size > th_tps_limit[m]

Waiting(r) ==
    \/ r \in InNormal
    \/ \E m \in FlowMarkets :
        \E i \in flow_control_queue_[m] : i.msg = r /\ ~Oversize(m, i)

BehindOversize(r) ==
    \E m \in FlowMarkets : \E i, j \in flow_control_queue_[m] :
        i.msg = r /\ Oversize(m, j) /\ ~Outranks(i, j)

(* Every waiting message leaves in the end, whatever else waits, except one  *)
(* with an item larger than the limit of its market ranked level or ahead.  *)
Progress ==
    \A r \in Request :
        Waiting(r) ~> (r \in delivered \cup lost \/ BehindOversize(r))
================================================================================
