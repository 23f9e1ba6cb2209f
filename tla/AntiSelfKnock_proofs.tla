-------------------------- MODULE AntiSelfKnock_proofs --------------------------
(***************************************************************************)
(* Theorems of AntiSelfKnock, for any messages, orders, time limits and     *)
(* bounds: types, that every acknowledged order can be found, that no order *)
(* that is over blocks for ever, and that orders that could match are not   *)
(* open together.                                                          *)
(***************************************************************************)
EXTENDS AntiSelfKnock, FiniteSetTheorems, TLAPS

--------------------------------------------------------------------------------
(* The premises. *)

(* No two orders of a message have the same side and price: a reply names its *)
(* items by these alone (knock_alike shows what happens otherwise).         *)
NoneAlike == \A o, p \in Order : Alike(o, p) => o = p

(* No two orders of a message could match, as they are never checked against *)
(* each other: the messages that clients send are on one side.              *)
NoneCrossesItself == \A o, p \in Order : o[1] = p[1] => ~CanMatch(o, p)

(* Every item has the flag of its side: one without is neither checked nor    *)
(* put into the book, and two such orders may match.                       *)
AllFlagged == \A o \in Order : Flagged(o)

(* The counter withdraws what is live: a live order whose withdraw was refused *)
(* leaves the check all the same (knock_refused_withdraw), and the error of *)
(* a batch withdraw is not looked at (knock_batch_withdraw).                *)
WithdrawsSucceed == MayFail = {}

--------------------------------------------------------------------------------
(* The invariant, in parts. *)

(* The counter has not answered the message of o, or has taken o. *)
Unanswered(o) == stage[o] \in {"unsent", "sent"}

Taken(o) == stage[o] \in {"live", "done"}

FinitelyMany == IsFiniteSet({o \in Order : stage[o] # "unsent"})

(* What the counter keeps: a message is sent and answered as a whole, and an  *)
(* order is filled only while it is open.                                  *)
CounterOK ==
    /\ \A o, p \in Order : o[1] = p[1] /\ Unanswered(o) => stage[p] = stage[o]
    /\ \A o \in Order :
        /\ filled[o] <= Volume(o)
        /\ ~Taken(o) => filled[o] = 0
        /\ filled[o] = Volume(o) => stage[o] = "done"

(* A report under way says what has happened. *)
OrderNoticeOK(n) ==
    \A o \in OrdersOf(n.message) :
        /\ o[1] \notin answered
        /\ ~Unanswered(o)
        /\ o \in n.accepted <=> Taken(o)

KnockNoticeOK(n) ==
    /\ Taken(n.order)
    /\ n.shares \subseteq Shares(n.order, filled[n.order])
    /\ n.withdrawn => stage[n.order] = "done"

WithdrawNoticeOK(n) == \A o \in Meant(n.target) : ~Unanswered(o)

NoticesOK ==
    /\ \A n \in notices :
        /\ n.type = "order" => n.accepted \subseteq OrdersOf(n.message) /\ OrderNoticeOK(n)
        /\ n.type = "knock" => KnockNoticeOK(n)
        /\ n.type = "withdraw" => WithdrawNoticeOK(n)
    /\ \A t \in withdraws : \A o \in Meant(t) : ~Unanswered(o)
    /\ \A o \in Order : o[1] \in answered => ~Unanswered(o)

(* What the broker remembers of an order has happened: before the reply      *)
(* nothing but knocks that came first, after it what was reported.          *)
MemoryOK(o) ==
    /\ inner[o].matched \subseteq Shares(o, filled[o])
    /\ knock_first_orders_[o].shares \subseteq Shares(o, filled[o])
    /\ knock_first_orders_[o].withdrawn => stage[o] = "done"
    /\ inner[o].acked => Taken(o) /\ o[1] \in answered
    /\ ~inner[o].acked =>
        inner[o].matched = {} /\ inner[o].withdraw_time = 0 /\ ~inner[o].withdraw_succeed

(* The book and the two maps: an order that was sent with a flag and not      *)
(* rejected is in the book until it is finished, and from its reply until    *)
(* then it is found by its order_no and in its batch.                      *)
BookOK(o) ==
    /\ o \in book => Flagged(o) /\ stage[o] # "unsent"
    /\ o \in book /\ o[1] \in answered => Taken(o)
    /\ Flagged(o) =>
        /\ stage[o] = "sent" \/ Taken(o) => o \in book \/ inner[o].finish_flag
        /\ Taken(o) /\ o[1] \in answered => inner[o].acked \/ inner[o].finish_flag

LookupOK(o) ==
    /\ single_orders_[o] \in {NoOrder, o}
    /\ single_orders_[o] = o => inner[o].acked /\ knock_first_orders_[o] = NoKnocks
    /\ \A m \in Message : o \in batch_orders_[m] => o[1] = m /\ inner[o].acked
    /\ inner[o].acked /\ ~inner[o].finish_flag =>
        /\ single_orders_[o] = o
        /\ Batched(o[1]) => o \in batch_orders_[o[1]]

BrokerOK == \A o \in Order : MemoryOK(o) /\ BookOK(o) /\ LookupOK(o)

KnockInv == TypeOK /\ FinitelyMany /\ CounterOK /\ NoticesOK /\ BrokerOK

(* Without a loss every step of the counter is known or under way. *)
KnocksUnderWay(o) == {n \in notices : n.type = "knock" /\ n.order = o}

AnswerKnown(o) ==
    o[1] \in answered \/ \E n \in notices : n.type = "order" /\ n.message = o[1]

KnownShares(o) ==
    inner[o].matched \cup knock_first_orders_[o].shares
      \cup UNION {n.shares : n \in KnocksUnderWay(o)}

EndKnown(o) ==
    \/ inner[o].withdraw_succeed
    \/ knock_first_orders_[o].withdrawn
    \/ \E n \in KnocksUnderWay(o) : n.withdrawn

NewsOK(o) ==
    /\ ~Unanswered(o) => AnswerKnown(o)
    /\ ~inner[o].finish_flag =>
        /\ Shares(o, filled[o]) \subseteq KnownShares(o)
        /\ stage[o] = "done" => filled[o] = Volume(o) \/ EndKnown(o)

NothingForgotten == ~lost => \A o \in Order : NewsOK(o)

(* The broker takes no open order for finished, but for one it waited for in  *)
(* vain.                                                                   *)
LateOK(o) ==
    /\ Overdue(o, now) /\ Open(o) => o \in late
    /\ inner[o].withdraw_time > 0 /\ Open(o) => Awaited(o)
    /\ inner[o].withdraw_succeed => stage[o] = "done"
    /\ inner[o].finish_flag /\ Open(o) => o \in late

(* No order that a withdraw was meant for is open once it is answered. *)
WithdrawnOK ==
    \A n \in notices : n.type = "withdraw" => \A o \in Meant(n.target) : ~Open(o)

GivenUpOnlyLate == WithdrawnOK /\ \A o \in Order : LateOK(o)

--------------------------------------------------------------------------------
(* Orders, shares and the targets of withdraws. *)

LEMMA OrderFacts ==
    ASSUME NEW o \in Order
    PROVE  /\ o[1] \in Message
           /\ Len(Items[o[1]]) \in Nat
           /\ o[2] \in Nat
           /\ o[2] \in 1 .. Len(Items[o[1]])
           /\ o \in OrdersOf(o[1])
           /\ Volume(o) \in Nat \ {0}
           /\ Price(o) \in Nat
           /\ BsFlag(o) \in {Side(o), "none"}
           /\ o # NoOrder
<1>1. PICK m \in Message : o \in {m} \X (1 .. Len(Items[m]))
  BY DEF Order
<1>2. o = <<m, o[2]>> /\ o[1] = m /\ o[2] \in 1 .. Len(Items[m])
  BY <1>1
<1>3. Items[m] \in Seq(OrderType)
  BY ItemsAssumption
<1>4. Items[m][o[2]] \in OrderType
  BY <1>2, <1>3
<1>5. Len(Items[m]) \in Nat
  BY <1>3
<1>6. o # NoOrder
  BY <1>1 DEF NoOrder
<1>7. Volume(o) \in Nat \ {0} /\ Price(o) \in Nat /\ BsFlag(o) \in {Side(o), "none"}
  BY <1>2, <1>4 DEF Volume, Price, BsFlag, Side, OrderType
<1>8. QED
  BY <1>1, <1>2, <1>5, <1>6, <1>7 DEF OrdersOf

LEMMA OrdersOfFacts ==
    ASSUME NEW m \in Message
    PROVE  /\ OrdersOf(m) \subseteq Order
           /\ \A o \in OrdersOf(m) : o[1] = m
           /\ \A o \in Order : o[1] = m => o \in OrdersOf(m)
           /\ IsFiniteSet(OrdersOf(m))
<1>1. OrdersOf(m) \subseteq Order
  BY DEF OrdersOf, Order
<1>2. \A o \in OrdersOf(m) : o[1] = m
  BY DEF OrdersOf
<1>3. \A o \in Order : o[1] = m => o \in OrdersOf(m)
  BY OrderFacts
<1>4. IsFiniteSet(OrdersOf(m))
  <2>1. Len(Items[m]) \in Nat
    BY ItemsAssumption
  <2>2. IsFiniteSet(1 .. Len(Items[m]))
    BY <2>1, FS_Interval
  <2>3. QED
    BY <2>2, FS_Singleton, FS_Product DEF OrdersOf
<1>5. QED
  BY <1>1, <1>2, <1>3, <1>4

(* The first n shares of an order are n. *)
LEMMA SharesFacts ==
    ASSUME NEW o \in Order, NEW n \in Nat
    PROVE  /\ IsFiniteSet(Shares(o, n))
           /\ Cardinality(Shares(o, n)) = n
           /\ Shares(o, n) \subseteq Order \X Nat
           /\ \A k \in Nat : k <= n => Shares(o, k) \subseteq Shares(o, n)
<1>1. IsFiniteSet(1 .. n) /\ Cardinality(1 .. n) = n
  BY FS_Interval
<1>2. IsFiniteSet({o}) /\ Cardinality({o}) = 1
  BY FS_Singleton
<1>3. /\ IsFiniteSet({o} \X (1 .. n))
      /\ Cardinality({o} \X (1 .. n)) = 1 * n
  BY <1>1, <1>2, FS_Product
<1>4. Shares(o, n) \subseteq Order \X Nat
  BY DEF Shares
<1>5. \A k \in Nat : k <= n => Shares(o, k) \subseteq Shares(o, n)
  BY DEF Shares
<1>6. QED
  BY <1>3, <1>4, <1>5 DEF Shares

(* Fewer shares than the order has are matched as long as it is not filled. *)
LEMMA MatchedCount ==
    ASSUME NEW o \in Order, NEW n \in Nat, NEW matched, matched \subseteq Shares(o, n)
    PROVE  /\ Cardinality(matched) \in Nat
           /\ Cardinality(matched) <= n
           /\ matched = Shares(o, n) => Cardinality(matched) = n
<1>1. /\ IsFiniteSet(matched)
      /\ Cardinality(matched) <= Cardinality(Shares(o, n))
  BY SharesFacts, FS_Subset
<1>2. QED
  BY <1>1, SharesFacts, FS_CardinalityType

LEMMA TargetFacts ==
    ASSUME NEW t \in WithdrawTarget
    PROVE  /\ Names(t) => t.order \in Order
           /\ ~Names(t) => t.batch \in Message /\ Batched(t.batch)
           /\ Meant(t) \subseteq Order
<1>1. CASE t \in [order : Order]
  BY <1>1 DEF Names, Meant
<1>2. CASE t \in [batch : {m \in Message : Batched(m)}]
  <2>1. ~Names(t) /\ t.batch \in Message /\ Batched(t.batch)
    BY <1>2 DEF Names
  <2>2. QED
    BY <2>1, OrdersOfFacts DEF Meant
<1>3. QED
  BY <1>1, <1>2 DEF WithdrawTarget

--------------------------------------------------------------------------------
(* A reply item finds the order it is meant for, if it is still in the book. *)

LEMMA FindsItself ==
    ASSUME NoneAlike, TypeOK, NEW m \in Message, NEW accepted \in SUBSET OrdersOf(m),
           NEW o \in OrdersOf(m)
    PROVE  FoundBy(o, accepted) = {o} \cap book
<1>1. o \in Order /\ Alike(o, o)
  BY OrdersOfFacts DEF Alike
<1>2. ErasedBefore(o, accepted) = 0
  <2> DEFINE before == {p \in OrdersOf(o[1]) \ accepted : Alike(p, o) /\ p[2] < o[2]}
  <2>1. before = {}
    <3> SUFFICES ASSUME NEW p \in before
                 PROVE  FALSE
      OBVIOUS
    <3>1. p \in Order /\ p = o
      BY <1>1, OrderFacts, OrdersOfFacts DEF NoneAlike
    <3>2. o[2] \in Nat
      BY <1>1, OrderFacts
    <3>3. QED
      BY <3>1, <3>2
  <2>2. QED
    BY <2>1, FS_EmptySet DEF ErasedBefore
<1>3. Cardinality({q \in book : Alike(q, o) /\ StandsBefore(q, o)}) = 0
  <2>1. {q \in book : Alike(q, o) /\ StandsBefore(q, o)} = {}
    <3> SUFFICES ASSUME NEW q \in book, Alike(q, o), StandsBefore(q, o)
                 PROVE  FALSE
      OBVIOUS
    <3>1. q = o
      BY <1>1 DEF NoneAlike, TypeOK
    <3>2. Price(o) \in Nat /\ inner[o].arrival \in Nat
      BY <1>1, OrderFacts DEF TypeOK
    <3>3. QED
      BY <3>1, <3>2 DEF StandsBefore
  <2>2. QED
    BY <2>1, FS_EmptySet
<1>4. \A p \in book : Alike(p, o) <=> p = o
  BY <1>1 DEF NoneAlike, TypeOK
<1>5. QED
  BY <1>2, <1>3, <1>4 DEF FoundBy

--------------------------------------------------------------------------------
(* Types *)

InnerType ==
    [create_time : Nat, arrival : Nat, acked : BOOLEAN, matched : SUBSET (Order \X Nat),
     withdraw_time : Nat, withdraw_succeed : BOOLEAN, finish_flag : BOOLEAN]

KnocksType == [shares : SUBSET (Order \X Nat), withdrawn : BOOLEAN]

StageType == {"unsent", "sent", "live", "rejected", "done"}

LEMMA RecordTypes ==
    ASSUME TypeOK, NEW o \in Order
    PROVE  inner[o] \in InnerType /\ knock_first_orders_[o] \in KnocksType
BY DEF TypeOK, InnerType, KnocksType

LEMMA NoticeFacts ==
    ASSUME NEW n \in NoticeType
    PROVE  /\ n.type \in {"order", "withdraw", "knock"}
           /\ n.type = "order" =>
                /\ n.message \in Message /\ n.accepted \subseteq Order
                /\ n = OrderNotice(n.message, n.accepted)
           /\ n.type = "withdraw" => n.target \in WithdrawTarget /\ n.succeeded \in BOOLEAN
           /\ n.type = "knock" =>
                /\ n.order \in Order
                /\ n.shares \subseteq Order \X Nat
                /\ n.withdrawn \in BOOLEAN
<1>1. CASE n \in [type : {"order"}, message : Message, accepted : SUBSET Order]
  BY <1>1 DEF OrderNotice
<1>2. CASE n \in [type : {"withdraw"}, target : WithdrawTarget, succeeded : BOOLEAN]
  BY <1>2
<1>3. CASE n \in [type : {"knock"}, order : Order, shares : SUBSET (Order \X Nat),
                  withdrawn : BOOLEAN]
  BY <1>3
<1>4. QED
  BY <1>1, <1>2, <1>3 DEF NoticeType

LEMMA InitType == Init => TypeOK /\ FinitelyMany
<1> SUFFICES ASSUME Init
             PROVE  TypeOK /\ FinitelyMany
  OBVIOUS
<1>1. inner \in [Order -> InnerType]
  BY DEF Init, NewInnerOrder, InnerType
<1>2. knock_first_orders_ \in [Order -> KnocksType]
  BY DEF Init, NoKnocks, KnocksType
<1>3. single_orders_ \in [Order -> Order \cup {NoOrder}] /\ batch_orders_ \in [Message -> SUBSET Order]
  BY DEF Init
<1>4. FinitelyMany
  <2>1. {o \in Order : stage[o] # "unsent"} = {}
    BY DEF Init
  <2>2. QED
    BY <2>1, FS_EmptySet DEF FinitelyMany
<1>5. QED
  BY <1>1, <1>2, <1>3, <1>4 DEF Init, TypeOK, InnerType, KnocksType

(* A new order goes behind all that were sent. *)
LEMMA PassedOrderType ==
    ASSUME TypeOK, FinitelyMany, NEW o \in Order
    PROVE  PassedOrder(o) \in InnerType
<1>1. Placed \in Nat
  BY FS_CardinalityType DEF FinitelyMany, Placed
<1>2. Placed + o[2] \in Nat
  BY <1>1, OrderFacts
<1>3. NewInnerOrder \in InnerType
  BY DEF NewInnerOrder, InnerType
<1>4. QED
  BY <1>2, <1>3 DEF PassedOrder, InnerType, TypeOK

LEMMA AllErasedFacts ==
    ASSUME NEW m \in Message
    PROVE  /\ AllErased(m) \subseteq book
           /\ \A o \in AllErased(m) : Finished(o)
BY DEF AllErased, Erased, Crossing

LEMMA WithErasedType ==
    ASSUME TypeOK, NEW m \in Message, NEW o \in Order
    PROVE  WithErased(m)[o] \in InnerType
BY RecordTypes DEF WithErased, InnerType

LEMMA PassOrderType ==
    ASSUME TypeOK, FinitelyMany, NEW m \in Message, PassOrder(m)
    PROVE  TypeOK' /\ FinitelyMany'
<1>1. inner' \in [Order -> InnerType]
  BY PassedOrderType, WithErasedType DEF PassOrder
<1>2. book' \subseteq Order
  BY OrdersOfFacts DEF PassOrder, Entered, TypeOK
<1>3. stage' \in [Order -> StageType]
  BY DEF PassOrder, TypeOK, StageType
<1>4. FinitelyMany'
  <2>1. {o \in Order : stage'[o] # "unsent"}
          \subseteq {o \in Order : stage[o] # "unsent"} \cup OrdersOf(m)
    BY DEF PassOrder
  <2>2. IsFiniteSet({o \in Order : stage[o] # "unsent"} \cup OrdersOf(m))
    BY OrdersOfFacts, FS_Union DEF FinitelyMany
  <2>3. QED
    BY <2>1, <2>2, FS_Subset DEF FinitelyMany
<1>5. QED
  BY <1>1, <1>2, <1>3, <1>4 DEF PassOrder, ghosts, TypeOK, InnerType, StageType

LEMMA RefuseOrderType ==
    ASSUME TypeOK, NEW m \in Message, RefuseOrder(m)
    PROVE  TypeOK'
<1>1. inner' \in [Order -> InnerType]
  BY WithErasedType DEF RefuseOrder, WithErased
<1>2. QED
  BY <1>1 DEF RefuseOrder, external, ghosts, TypeOK, InnerType

LEMMA RequestWithdrawType ==
    ASSUME TypeOK, NEW t \in WithdrawTarget, RequestWithdraw(t)
    PROVE  TypeOK'
<1>1. \A p \in Order : [inner[p] EXCEPT !.withdraw_time = now] \in InnerType
  <2>1. now \in Nat
    BY DEF TypeOK
  <2>2. QED
    BY <2>1, RecordTypes DEF InnerType
<1>2. inner' \in [Order -> InnerType]
  BY <1>1, RecordTypes DEF RequestWithdraw, HandleTradeWithdrawReq
<1>3. QED
  BY <1>2 DEF RequestWithdraw, HandleTradeWithdrawReq, ghosts, TypeOK, InnerType

(* Acknowledging an order, with what came first, keeps its type. *)
LEMMA AckedType ==
    ASSUME NEW i \in InnerType, NEW shares \in SUBSET (Order \X Nat), NEW b \in BOOLEAN
    PROVE  [i EXCEPT !.acked = TRUE, !.matched = i.matched \cup shares,
                     !.withdraw_succeed = b] \in InnerType
BY DEF InnerType

LEMMA OrderRepType ==
    ASSUME TypeOK, NEW m \in Message, NEW accepted \in SUBSET Order,
           HandleTradeOrderRep(m, accepted)
    PROVE  /\ inner' \in [Order -> InnerType]
           /\ book' \subseteq Order
           /\ single_orders_' \in [Order -> Order \cup {NoOrder}]
           /\ batch_orders_' \in [Message -> SUBSET Order]
           /\ knock_first_orders_' \in [Order -> KnocksType]
<1> DEFINE replayed(p) == UNION {knock_first_orders_[o].shares : o \in Replays(p, accepted)}
<1>1. \A o \in Order : FoundBy(o, accepted) \subseteq Order
  BY DEF FoundBy, TypeOK
<1>2. \A o \in Order : inner[o] \in InnerType /\ knock_first_orders_[o] \in KnocksType
  BY RecordTypes
<1>3. inner' \in [Order -> InnerType]
  <2>1. \A p \in Order : replayed(p) \subseteq Order \X Nat
    BY <1>2 DEF Replays, KnocksType
  <2> DEFINE withdrawn(p) ==
         inner[p].withdraw_succeed
           \/ \E o \in Replays(p, accepted) : knock_first_orders_[o].withdrawn
  <2>2. \A p \in Order :
           Acked(p, Replays(p, accepted)) =
             [inner[p] EXCEPT !.acked = TRUE, !.matched = inner[p].matched \cup replayed(p),
                              !.withdraw_succeed = withdrawn(p)]
    BY DEF Acked
  <2> HIDE DEF replayed
  <2>3. \A p \in Order : withdrawn(p) \in BOOLEAN
    OBVIOUS
  <2> HIDE DEF withdrawn
  <2>4. \A p \in Order : Acked(p, Replays(p, accepted)) \in InnerType
    <3> SUFFICES ASSUME NEW p \in Order
                 PROVE  Acked(p, Replays(p, accepted)) \in InnerType
      OBVIOUS
    <3>1. inner[p] \in InnerType /\ replayed(p) \in SUBSET (Order \X Nat) /\ withdrawn(p) \in BOOLEAN
      BY <1>2, <2>1, <2>3
    <3>2. [inner[p] EXCEPT !.acked = TRUE, !.matched = inner[p].matched \cup replayed(p),
                           !.withdraw_succeed = withdrawn(p)] \in InnerType
      BY <3>1, AckedType
    <3>3. QED
      BY <2>2, <3>2
  <2>5. \A p \in Order : AckedAndReplayed(p, accepted) \in InnerType
    BY <2>4 DEF AckedAndReplayed, InnerType
  <2>6. QED
    BY <1>2, <2>5 DEF HandleTradeOrderRep
<1>4. single_orders_' \in [Order -> Order \cup {NoOrder}]
  <2> SUFFICES ASSUME NEW o \in Order
               PROVE  single_orders_'[o] \in Order \cup {NoOrder}
    BY DEF HandleTradeOrderRep
  <2>1. CASE o \in accepted /\ FoundBy(o, accepted) # {}
    <3>1. (CHOOSE p \in FoundBy(o, accepted) : TRUE) \in Order
      BY <1>1, <2>1
    <3>2. QED
      BY <2>1, <3>1 DEF HandleTradeOrderRep
  <2>2. CASE ~(o \in accepted /\ FoundBy(o, accepted) # {})
    BY <2>2 DEF HandleTradeOrderRep, TypeOK
  <2>3. QED
    BY <2>1, <2>2
<1>5. batch_orders_' \in [Message -> SUBSET Order]
  <2>1. AckedByReply(m, accepted) \subseteq Order
    BY <1>1 DEF AckedByReply
  <2>2. batch_orders_[m] \cup AckedByReply(m, accepted) \subseteq Order
    BY <2>1 DEF TypeOK
  <2>3. batch_orders_'[m] \subseteq Order
    BY <2>2 DEF HandleTradeOrderRep, TypeOK
  <2>4. QED
    BY <2>3 DEF HandleTradeOrderRep, TypeOK
<1>6. knock_first_orders_' \in [Order -> KnocksType]
  <2>1. NoKnocks \in KnocksType
    BY DEF NoKnocks, KnocksType
  <2>2. QED
    BY <1>2, <2>1 DEF HandleTradeOrderRep
<1>7. QED
  BY <1>3, <1>4, <1>5, <1>6 DEF HandleTradeOrderRep, TypeOK

LEMMA WithdrawRepType ==
    ASSUME TypeOK, NEW t \in WithdrawTarget, NEW succeeded \in BOOLEAN,
           HandleTradeWithdrawRep(t, succeeded)
    PROVE  inner' \in [Order -> InnerType]
<1>1. \A p \in Order : [inner[p] EXCEPT !.withdraw_succeed = TRUE] \in InnerType
  BY RecordTypes DEF InnerType
<1>2. QED
  BY <1>1, RecordTypes DEF HandleTradeWithdrawRep

(* Applying a knock, and setting the flag of an order, keep its type. *)
LEMMA KnockedType ==
    ASSUME NEW i \in InnerType, NEW shares \in SUBSET (Order \X Nat), NEW b \in BOOLEAN
    PROVE  /\ [i EXCEPT !.matched = i.matched \cup shares, !.withdraw_succeed = b] \in InnerType
           /\ [i EXCEPT !.finish_flag = TRUE] \in InnerType
BY DEF InnerType

LEMMA KnockType ==
    ASSUME TypeOK, NEW o \in Order, NEW shares \in SUBSET (Order \X Nat),
           NEW withdrawn \in BOOLEAN, HandleTradeKnock(o, shares, withdrawn)
    PROVE  /\ inner' \in [Order -> InnerType]
           /\ book' \subseteq Order
           /\ single_orders_' \in [Order -> Order \cup {NoOrder}]
           /\ batch_orders_' \in [Message -> SUBSET Order]
           /\ knock_first_orders_' \in [Order -> KnocksType]
<1>1. CASE CacheKnock(o, shares, withdrawn)
  <2>1. knock_first_orders_[o] \in KnocksType
    BY RecordTypes
  <2>2. knock_first_orders_' \in [Order -> KnocksType]
    BY <1>1, <2>1, RecordTypes DEF CacheKnock, KnocksType, TypeOK
  <2>3. QED
    BY <1>1, <2>2 DEF CacheKnock, TypeOK, InnerType
<1>2. CASE ApplyKnock(o, shares, withdrawn)
  <2> DEFINE p == single_orders_[o]
             i == Knocked(p, shares, withdrawn)
             done == IsFinished(p, i)
             tested ==
               IF done THEN {p} \cup TestedFinished(batch_orders_[o[1]], p, i) ELSE {}
             new(q) == IF q = p THEN i ELSE inner[q]
  <2>1. p \in Order
    BY <1>2 DEF ApplyKnock, TypeOK
  <2>2. i \in InnerType
    <3> DEFINE b == inner[p].withdraw_succeed \/ withdrawn
    <3>1. i = [inner[p] EXCEPT !.matched = inner[p].matched \cup shares, !.withdraw_succeed = b]
      BY DEF Knocked
    <3>2. b \in BOOLEAN
      OBVIOUS
    <3>3. inner[p] \in InnerType
      BY <2>1, RecordTypes
    <3> HIDE DEF b, i, p
    <3>4. QED
      BY <3>1, <3>2, <3>3, KnockedType
  <2>3. /\ inner' = [q \in Order |->
                       IF q \in tested THEN [new(q) EXCEPT !.finish_flag = TRUE] ELSE new(q)]
        /\ single_orders_' =
             IF done THEN [single_orders_ EXCEPT ![o] = NoOrder] ELSE single_orders_
        /\ batch_orders_' = [batch_orders_ EXCEPT ![o[1]] = BatchLeft(@, p, tested)]
        /\ UNCHANGED <<book, knock_first_orders_>>
    BY <1>2 DEF ApplyKnock
  <2> HIDE DEF i, p, done, tested
  <2>4. \A q \in Order : new(q) \in InnerType
    BY <2>2, RecordTypes
  <2> HIDE DEF new
  <2>5. inner' \in [Order -> InnerType]
    BY <2>3, <2>4, KnockedType
  <2>6. batch_orders_' \in [Message -> SUBSET Order]
    BY <2>3 DEF BatchLeft, TypeOK
  <2>7. single_orders_' \in [Order -> Order \cup {NoOrder}]
    BY <2>3 DEF TypeOK
  <2>8. QED
    BY <2>3, <2>5, <2>6, <2>7 DEF TypeOK, KnocksType
<1>3. QED
  BY <1>1, <1>2 DEF HandleTradeKnock

LEMMA DeliverType ==
    ASSUME TypeOK, NEW n \in notices, Deliver(n)
    PROVE  TypeOK'
<1>1. n \in NoticeType
  BY DEF TypeOK
<1>2. /\ inner' \in [Order -> InnerType]
      /\ book' \subseteq Order
      /\ single_orders_' \in [Order -> Order \cup {NoOrder}]
      /\ batch_orders_' \in [Message -> SUBSET Order]
      /\ knock_first_orders_' \in [Order -> KnocksType]
  <2>1. CASE n.type = "order" /\ HandleTradeOrderRep(n.message, n.accepted)
    BY <1>1, <2>1, NoticeFacts, OrderRepType
  <2>2. CASE n.type = "withdraw" /\ HandleTradeWithdrawRep(n.target, n.succeeded)
    <3>1. inner' \in [Order -> InnerType]
      BY <1>1, <2>2, NoticeFacts, WithdrawRepType
    <3>2. QED
      BY <2>2, <3>1 DEF HandleTradeWithdrawRep, TypeOK, KnocksType
  <2>3. CASE n.type = "knock" /\ HandleTradeKnock(n.order, n.shares, n.withdrawn)
    BY <1>1, <2>3, NoticeFacts, KnockType
  <2>4. QED
    BY <2>1, <2>2, <2>3 DEF Deliver, Noted
<1>3. answered' \subseteq Message
  BY <1>1, NoticeFacts DEF Deliver, Noted, TypeOK
<1>4. QED
  BY <1>2, <1>3 DEF Deliver, Noted, TypeOK, InnerType, KnocksType

LEMMA AnswerType ==
    ASSUME TypeOK, NEW m \in Message, NEW accepted \in SUBSET OrdersOf(m), Answer(m, accepted)
    PROVE  TypeOK'
<1>1. OrderNotice(m, accepted) \in NoticeType
  BY OrdersOfFacts DEF OrderNotice, NoticeType
<1>2. notices' \subseteq NoticeType
  BY <1>1 DEF Answer, TypeOK
<1>3. stage' \in [Order -> StageType]
  BY DEF Answer, TypeOK, StageType
<1>4. QED
  BY <1>2, <1>3 DEF Answer, risk, ghosts, TypeOK, StageType

LEMMA FillType ==
    ASSUME TypeOK, NEW o \in Order, NEW n \in 1 .. Volume(o), Fill(o, n)
    PROVE  TypeOK'
<1>1. n \in Nat
  BY OrderFacts
<1>2. Shares(o, n) \subseteq Order \X Nat
  BY <1>1 DEF Shares
<1>3. KnockNotice(o, Shares(o, n) \ Shares(o, filled[o]), FALSE) \in NoticeType
  BY <1>2 DEF KnockNotice, NoticeType
<1>4. notices' \subseteq NoticeType
  BY <1>3 DEF Fill, TypeOK
<1>5. filled' \in [Order -> Nat] /\ stage' \in [Order -> StageType]
  BY <1>1 DEF Fill, TypeOK, StageType
<1>6. QED
  BY <1>4, <1>5 DEF Fill, risk, ghosts, TypeOK, StageType

LEMMA AnswerWithdrawType ==
    ASSUME TypeOK, NEW t \in withdraws, NEW succeeded \in BOOLEAN, AnswerWithdraw(t, succeeded)
    PROVE  TypeOK'
<1>1. t \in WithdrawTarget
  BY DEF TypeOK
<1>2. Withdrawn(t) \subseteq Order
  BY <1>1, TargetFacts DEF Withdrawn, Meant
<1>3. WithdrawNotice(t, succeeded) \in NoticeType
  BY <1>1 DEF WithdrawNotice, NoticeType
<1>4. \A o \in Order : KnockNotice(o, {}, TRUE) \in NoticeType
  BY DEF KnockNotice, NoticeType
<1>5. notices' \subseteq NoticeType
  <2>1. {KnockNotice(o, {}, TRUE) : o \in IF succeeded THEN Withdrawn(t) ELSE {}}
          \subseteq NoticeType
    BY <1>2, <1>4
  <2>2. QED
    BY <1>3, <2>1 DEF AnswerWithdraw, TypeOK
<1>6. stage' \in [Order -> StageType] /\ withdraws' \subseteq WithdrawTarget
  BY DEF AnswerWithdraw, TypeOK, StageType
<1>7. QED
  BY <1>5, <1>6 DEF AnswerWithdraw, risk, ghosts, TypeOK, StageType

(* Only a message that is sent adds to the orders that were sent. *)
LEMMA KeepsFinite ==
    ASSUME FinitelyMany, \A o \in Order : stage'[o] # "unsent" => stage[o] # "unsent"
    PROVE  FinitelyMany'
BY FS_Subset DEF FinitelyMany

LEMMA NextType == TypeOK /\ FinitelyMany /\ [Next]_vars => TypeOK' /\ FinitelyMany'
<1> SUFFICES ASSUME TypeOK, FinitelyMany, [Next]_vars
             PROVE  TypeOK' /\ FinitelyMany'
  OBVIOUS
<1>1. CASE \E m \in Message : PassOrder(m)
  BY <1>1, PassOrderType
<1>2. CASE \E m \in Message : RefuseOrder(m)
  BY <1>2, RefuseOrderType, KeepsFinite DEF RefuseOrder, external
<1>3. CASE \E t \in WithdrawTarget : RequestWithdraw(t)
  BY <1>3, RequestWithdrawType, KeepsFinite DEF RequestWithdraw
<1>4. CASE \E n \in notices : Deliver(n)
  BY <1>4, DeliverType, KeepsFinite DEF Deliver, Noted
<1>5. CASE \E n \in notices : Lose(n)
  <2>1. TypeOK'
    BY <1>5 DEF Lose, risk, ghosts, TypeOK
  <2>2. QED
    BY <1>5, <2>1, KeepsFinite DEF Lose
<1>6. CASE Tick
  <2>1. TypeOK'
    BY <1>6 DEF Tick, risk, external, TypeOK
  <2>2. QED
    BY <1>6, <2>1, KeepsFinite DEF Tick, external
<1>7. CASE \E m \in Message : \E accepted \in SUBSET OrdersOf(m) : Answer(m, accepted)
  BY <1>7, AnswerType, KeepsFinite, OrderFacts, OrdersOfFacts DEF Answer
<1>8. CASE \E o \in Order : \E n \in 1 .. Volume(o) : Fill(o, n)
  <2>1. PICK o \in Order : \E n \in 1 .. Volume(o) : Fill(o, n)
    BY <1>8
  <2>2. PICK n \in 1 .. Volume(o) : Fill(o, n)
    BY <2>1
  <2>3. \A p \in Order : stage'[p] # "unsent" => stage[p] # "unsent"
    BY <2>2 DEF Fill, TypeOK
  <2>4. QED
    BY <2>2, <2>3, FillType, KeepsFinite
<1>9. CASE \E t \in withdraws, succeeded \in BOOLEAN : AnswerWithdraw(t, succeeded)
  <2>1. PICK t \in withdraws, succeeded \in BOOLEAN : AnswerWithdraw(t, succeeded)
    BY <1>9
  <2>2. \A p \in Order : stage'[p] # "unsent" => stage[p] # "unsent"
    BY <2>1 DEF AnswerWithdraw, Withdrawn
  <2>3. QED
    BY <2>1, <2>2, AnswerWithdrawType, KeepsFinite
<1>10. CASE UNCHANGED vars
  BY <1>10, KeepsFinite DEF vars, risk, external, ghosts, TypeOK
<1>11. QED
  BY <1>1, <1>2, <1>3, <1>4, <1>5, <1>6, <1>7, <1>8, <1>9, <1>10 DEF Next, SendTradeOrderReq

(* Every variable keeps its type, also when orders of a message are alike:    *)
(* what a reply finds, and what the two maps lead to, are always orders.     *)
THEOREM TypeCorrect == Spec => []TypeOK
<1>1. Spec => [](TypeOK /\ FinitelyMany)
  BY InitType, NextType, PTL DEF Spec
<1>2. QED
  BY <1>1, PTL

--------------------------------------------------------------------------------
(* The counter and what is under way. *)

(* A step of the broker leaves the counter alone. *)
LEMMA QuietCounter ==
    ASSUME CounterOK, UNCHANGED <<stage, filled>>
    PROVE  CounterOK'
BY DEF CounterOK, Unanswered, Taken

LEMMA PassOrderCounter ==
    ASSUME TypeOK, CounterOK, NEW m \in Message, PassOrder(m)
    PROVE  CounterOK'
<1>1. \A o \in Order : stage'[o] = IF o[1] = m THEN "sent" ELSE stage[o]
  BY OrdersOfFacts DEF PassOrder
<1>2. \A o \in Order : o[1] = m => stage[o] = "unsent"
  BY OrdersOfFacts DEF PassOrder
<1>3. filled' = filled
  BY DEF PassOrder
<1>4. QED
  BY <1>1, <1>2, <1>3, OrderFacts DEF CounterOK, Unanswered, Taken

LEMMA AnswerCounter ==
    ASSUME TypeOK, CounterOK, NEW m \in Message, NEW accepted \in SUBSET OrdersOf(m),
           Answer(m, accepted)
    PROVE  CounterOK'
<1>1. \A o \in Order :
        stage'[o] = IF o[1] # m THEN stage[o]
                    ELSE IF o \in accepted THEN "live" ELSE "rejected"
  BY OrdersOfFacts DEF Answer
<1>2. \A o \in Order : o[1] = m => stage[o] = "sent"
  BY OrdersOfFacts DEF Answer
<1>3. filled' = filled
  BY DEF Answer
<1>4. QED
  BY <1>1, <1>2, <1>3, OrderFacts DEF CounterOK, Unanswered, Taken

LEMMA FillEffect ==
    ASSUME TypeOK, CounterOK, NEW o \in Order, NEW n \in 1 .. Volume(o), Fill(o, n)
    PROVE  /\ n \in Nat /\ filled[o] < n /\ n <= Volume(o)
           /\ \A p \in Order : p # o => stage'[p] = stage[p] /\ filled'[p] = filled[p]
           /\ filled'[o] = n
           /\ stage[o] = "live"
           /\ stage'[o] = IF n = Volume(o) THEN "done" ELSE "live"
BY OrderFacts DEF Fill, TypeOK

LEMMA FillCounter ==
    ASSUME TypeOK, CounterOK, NEW o \in Order, NEW n \in 1 .. Volume(o), Fill(o, n)
    PROVE  CounterOK'
BY FillEffect, OrderFacts DEF CounterOK, Unanswered, Taken

LEMMA AnswerWithdrawEffect ==
    ASSUME TypeOK, NEW t \in withdraws, NEW succeeded \in BOOLEAN, AnswerWithdraw(t, succeeded)
    PROVE  /\ t \in WithdrawTarget
           /\ Withdrawn(t) = {o \in Meant(t) : stage[o] = "live"}
           /\ \A o \in Order :
                stage'[o] = IF succeeded /\ o \in Withdrawn(t) THEN "done" ELSE stage[o]
           /\ filled' = filled
<1>1. t \in WithdrawTarget
  BY DEF TypeOK
<1>2. Withdrawn(t) = {o \in Meant(t) : stage[o] = "live"}
  BY DEF Withdrawn, Meant
<1>3. QED
  BY <1>1, <1>2 DEF AnswerWithdraw

LEMMA AnswerWithdrawCounter ==
    ASSUME TypeOK, CounterOK, NEW t \in withdraws, NEW succeeded \in BOOLEAN,
           AnswerWithdraw(t, succeeded)
    PROVE  CounterOK'
<1>1. \A o \in Order : stage'[o] # stage[o] => stage[o] = "live" /\ stage'[o] = "done"
  BY AnswerWithdrawEffect
<1>2. QED
  BY <1>1, AnswerWithdrawEffect DEF CounterOK, Unanswered, Taken

LEMMA NextCounter == TypeOK /\ CounterOK /\ [Next]_vars => CounterOK'
<1> SUFFICES ASSUME TypeOK, CounterOK, [Next]_vars
             PROVE  CounterOK'
  OBVIOUS
<1>1. CASE \E m \in Message : PassOrder(m)
  BY <1>1, PassOrderCounter
<1>2. CASE \E m \in Message : RefuseOrder(m)
  BY <1>2, QuietCounter DEF RefuseOrder, external
<1>3. CASE \E t \in WithdrawTarget : RequestWithdraw(t)
  BY <1>3, QuietCounter DEF RequestWithdraw
<1>4. CASE \E n \in notices : Deliver(n) \/ Lose(n)
  BY <1>4, QuietCounter DEF Deliver, Lose
<1>5. CASE Tick
  BY <1>5, QuietCounter DEF Tick, external
<1>6. CASE \E m \in Message : \E accepted \in SUBSET OrdersOf(m) : Answer(m, accepted)
  BY <1>6, AnswerCounter
<1>7. CASE \E o \in Order : \E n \in 1 .. Volume(o) : Fill(o, n)
  BY <1>7, FillCounter
<1>8. CASE \E t \in withdraws, succeeded \in BOOLEAN : AnswerWithdraw(t, succeeded)
  BY <1>8, AnswerWithdrawCounter
<1>9. CASE UNCHANGED vars
  BY <1>9, QuietCounter DEF vars, external
<1>10. QED
  BY <1>1, <1>2, <1>3, <1>4, <1>5, <1>6, <1>7, <1>8, <1>9 DEF Next, SendTradeOrderReq

(* A notice stays true when the counter goes on: no order that was answered   *)
(* is unanswered again, and what was filled or is over stays so.             *)
GoesOn(o) ==
    /\ ~Unanswered(o) => ~Unanswered(o)' /\ (Taken(o)' <=> Taken(o))
    /\ stage[o] = "done" => stage'[o] = "done"
    /\ filled[o] <= filled'[o]

LEMMA NoticesStay ==
    ASSUME TypeOK, CounterOK, NoticesOK, \A o \in Order : GoesOn(o), filled' \in [Order -> Nat],
           UNCHANGED answered, NEW n \in notices
    PROVE  /\ n.type = "order" => n.accepted \subseteq OrdersOf(n.message) /\ OrderNoticeOK(n)'
           /\ n.type = "knock" => KnockNoticeOK(n)'
           /\ n.type = "withdraw" => WithdrawNoticeOK(n)'
<1>1. n \in NoticeType
  BY DEF TypeOK
<1>2. ASSUME n.type = "order"
      PROVE  n.accepted \subseteq OrdersOf(n.message) /\ OrderNoticeOK(n)'
  <2>1. n.message \in Message /\ OrderNoticeOK(n) /\ n.accepted \subseteq OrdersOf(n.message)
    BY <1>1, <1>2, NoticeFacts DEF NoticesOK
  <2>2. QED
    BY <2>1, OrdersOfFacts DEF OrderNoticeOK, GoesOn
<1>3. ASSUME n.type = "knock"
      PROVE  KnockNoticeOK(n)'
  <2>1. n.order \in Order /\ KnockNoticeOK(n)
    BY <1>1, <1>3, NoticeFacts DEF NoticesOK
  <2>2. Shares(n.order, filled[n.order]) \subseteq Shares(n.order, filled'[n.order])
    BY <2>1, SharesFacts DEF GoesOn, TypeOK
  <2>3. ~Unanswered(n.order)
    BY <2>1 DEF KnockNoticeOK, Taken, Unanswered
  <2>4. QED
    BY <2>1, <2>2, <2>3 DEF KnockNoticeOK, GoesOn
<1>4. ASSUME n.type = "withdraw"
      PROVE  WithdrawNoticeOK(n)'
  <2>1. n.target \in WithdrawTarget /\ WithdrawNoticeOK(n)
    BY <1>1, <1>4, NoticeFacts DEF NoticesOK
  <2>2. QED
    BY <2>1, TargetFacts DEF WithdrawNoticeOK, GoesOn, Meant
<1>5. QED
  BY <1>2, <1>3, <1>4

LEMMA NoticesKept ==
    ASSUME TypeOK, CounterOK, NoticesOK, \A o \in Order : GoesOn(o), filled' \in [Order -> Nat],
           UNCHANGED answered, notices' \subseteq notices, withdraws' \subseteq withdraws
    PROVE  NoticesOK'
<1>1. \A n \in notices' :
        /\ n.type = "order" => n.accepted \subseteq OrdersOf(n.message) /\ OrderNoticeOK(n)'
        /\ n.type = "knock" => KnockNoticeOK(n)'
        /\ n.type = "withdraw" => WithdrawNoticeOK(n)'
  BY NoticesStay
<1>2. \A t \in withdraws' : \A o \in Meant(t) : ~Unanswered(o)'
  <2>1. \A t \in withdraws' : Meant(t) \subseteq Order
    BY TargetFacts DEF TypeOK
  <2>2. QED
    BY <2>1 DEF NoticesOK, GoesOn
<1>3. \A o \in Order : o[1] \in answered => ~Unanswered(o)'
  BY DEF NoticesOK, GoesOn
<1>4. QED
  BY <1>1, <1>2, <1>3 DEF NoticesOK

LEMMA QuietGoesOn ==
    ASSUME TypeOK, UNCHANGED <<stage, filled>>
    PROVE  /\ \A o \in Order : GoesOn(o)
           /\ filled' \in [Order -> Nat]
BY DEF TypeOK, GoesOn, Unanswered, Taken

LEMMA PassOrderGoesOn ==
    ASSUME TypeOK, NEW m \in Message, PassOrder(m)
    PROVE  /\ \A o \in Order : GoesOn(o)
           /\ filled' \in [Order -> Nat]
BY DEF PassOrder, TypeOK, GoesOn, Unanswered, Taken

LEMMA AnswerGoesOn ==
    ASSUME TypeOK, NEW m \in Message, NEW accepted \in SUBSET OrdersOf(m), Answer(m, accepted)
    PROVE  /\ \A o \in Order : GoesOn(o)
           /\ filled' \in [Order -> Nat]
BY DEF Answer, TypeOK, GoesOn, Unanswered, Taken

LEMMA FillGoesOn ==
    ASSUME TypeOK, CounterOK, NEW o \in Order, NEW n \in 1 .. Volume(o), Fill(o, n)
    PROVE  /\ \A p \in Order : GoesOn(p)
           /\ filled' \in [Order -> Nat]
<1>1. filled' \in [Order -> Nat]
  BY FillEffect DEF Fill, TypeOK
<1>2. \A p \in Order : GoesOn(p)
  BY FillEffect DEF GoesOn, Unanswered, Taken, TypeOK
<1>3. QED
  BY <1>1, <1>2

LEMMA AnswerWithdrawGoesOn ==
    ASSUME TypeOK, NEW t \in withdraws, NEW succeeded \in BOOLEAN, AnswerWithdraw(t, succeeded)
    PROVE  /\ \A o \in Order : GoesOn(o)
           /\ filled' \in [Order -> Nat]
BY AnswerWithdrawEffect DEF GoesOn, Unanswered, Taken, TypeOK

LEMMA RequestWithdrawNotices ==
    ASSUME TypeOK, CounterOK, NoticesOK, NEW t \in WithdrawTarget, RequestWithdraw(t)
    PROVE  NoticesOK'
<1>1. UNCHANGED <<stage, filled, notices, answered>> /\ withdraws' = withdraws \cup {t}
  BY DEF RequestWithdraw, ghosts
<1>2. \A o \in Meant(t) : ~Unanswered(o)
  <2>1. CASE Names(t)
    BY <2>1 DEF RequestWithdraw, Meant, Unanswered
  <2>2. CASE ~Names(t)
    <3>1. PICK p \in OrdersOf(t.batch) : stage[p] \in {"live", "done"}
      BY <2>2 DEF RequestWithdraw
    <3>2. \A o \in OrdersOf(t.batch) : o \in Order /\ p \in Order /\ o[1] = p[1]
      BY <2>2, <3>1, TargetFacts, OrdersOfFacts
    <3>3. QED
      BY <2>2, <3>1, <3>2 DEF CounterOK, Meant, Unanswered
  <2>3. QED
    BY <2>1, <2>2
<1>3. \A n \in notices :
        /\ n.type = "order" => n.accepted \subseteq OrdersOf(n.message) /\ OrderNoticeOK(n)'
        /\ n.type = "knock" => KnockNoticeOK(n)'
        /\ n.type = "withdraw" => WithdrawNoticeOK(n)'
  BY <1>1, QuietGoesOn, NoticesStay
<1>4. QED
  BY <1>1, <1>2, <1>3 DEF NoticesOK, Unanswered

(* The notices of a message with orders are one. *)
LEMMA OneAnswer ==
    ASSUME TypeOK, NoticesOK, NEW n \in notices, NEW k \in notices,
           n.type = "order", k.type = "order", n.message = k.message
    PROVE  OrdersOf(n.message) # {} => n = k
<1>1. n \in NoticeType /\ k \in NoticeType
  BY DEF TypeOK
<1>2. n.accepted = k.accepted
  BY DEF NoticesOK, OrderNoticeOK
<1>3. QED
  BY <1>1, <1>2, NoticeFacts

LEMMA DeliverNotices ==
    ASSUME TypeOK, CounterOK, NoticesOK, NEW n \in notices, Deliver(n)
    PROVE  NoticesOK'
<1>1. n \in NoticeType
  BY DEF TypeOK
<1>2. CASE n.type # "order"
  BY <1>2, QuietGoesOn, NoticesKept DEF Deliver, Noted
<1>3. CASE n.type = "order"
  <2>1. /\ UNCHANGED <<stage, filled, withdraws>>
        /\ answered' = answered \cup {n.message}
        /\ notices' = notices \ {n}
    BY <1>3 DEF Deliver, Noted
  <2>2. n.message \in Message /\ OrderNoticeOK(n)
    BY <1>1, <1>3, NoticeFacts DEF NoticesOK
  <2>3. ASSUME NEW k \in notices', k.type = "order"
        PROVE  k.accepted \subseteq OrdersOf(k.message) /\ OrderNoticeOK(k)'
    <3>1. k \in notices /\ k # n
      BY <2>1
    <3>2. k.accepted \subseteq OrdersOf(k.message) /\ OrderNoticeOK(k)
      BY <2>3, <3>1 DEF NoticesOK
    <3>3. k.message \in Message
      BY <2>3, <3>1, NoticeFacts DEF TypeOK
    <3>4. ASSUME NEW o \in OrdersOf(k.message)
          PROVE  o[1] \notin answered'
      <4>1. o[1] = k.message /\ o[1] \notin answered
        BY <3>2, <3>3, OrdersOfFacts DEF OrderNoticeOK
      <4>2. k.message # n.message
        BY <1>3, <2>3, <3>1, OneAnswer
      <4>3. QED
        BY <2>1, <4>1, <4>2
    <3>5. QED
      BY <2>1, <3>2, <3>4 DEF OrderNoticeOK, Unanswered, Taken
  <2>4. \A k \in notices' :
          /\ k.type = "knock" => KnockNoticeOK(k)'
          /\ k.type = "withdraw" => WithdrawNoticeOK(k)'
    BY <2>1 DEF NoticesOK, KnockNoticeOK, WithdrawNoticeOK, Unanswered, Taken
  <2>5. \A o \in Order : o[1] \in answered' => ~Unanswered(o)
    BY <2>1, <2>2, OrdersOfFacts DEF NoticesOK, OrderNoticeOK
  <2>6. QED
    BY <2>1, <2>3, <2>4, <2>5 DEF NoticesOK, Unanswered
<1>4. QED
  BY <1>2, <1>3

(* The counter reports what it does as it is. *)
LEMMA AnswerNotices ==
    ASSUME TypeOK, CounterOK, NoticesOK, NEW m \in Message, NEW accepted \in SUBSET OrdersOf(m),
           Answer(m, accepted)
    PROVE  NoticesOK'
<1> DEFINE new == OrderNotice(m, accepted)
<1>1. /\ new.type = "order" /\ new.message = m /\ new.accepted = accepted
      /\ notices' = notices \cup {new}
      /\ UNCHANGED <<withdraws, answered>>
  BY DEF OrderNotice, Answer, ghosts
<1>2. OrderNoticeOK(new)'
  <2> SUFFICES ASSUME NEW o \in OrdersOf(m)
               PROVE  /\ o[1] \notin answered
                      /\ ~Unanswered(o)'
                      /\ o \in accepted <=> Taken(o)'
    BY <1>1 DEF OrderNoticeOK
  <2>1. o \in Order /\ stage[o] = "sent"
    BY OrdersOfFacts DEF Answer
  <2>2. o[1] \notin answered
    BY <2>1 DEF NoticesOK, Unanswered
  <2>3. stage'[o] = IF o \in accepted THEN "live" ELSE "rejected"
    BY <2>1 DEF Answer
  <2>4. QED
    BY <2>2, <2>3 DEF Unanswered, Taken
<1>3. \A n \in notices :
        /\ n.type = "order" => n.accepted \subseteq OrdersOf(n.message) /\ OrderNoticeOK(n)'
        /\ n.type = "knock" => KnockNoticeOK(n)'
        /\ n.type = "withdraw" => WithdrawNoticeOK(n)'
  BY <1>1, AnswerGoesOn, NoticesStay
<1>4. \A t \in withdraws : Meant(t) \subseteq Order
  BY TargetFacts DEF TypeOK
<1>5. /\ \A t \in withdraws : \A o \in Meant(t) : ~Unanswered(o)'
      /\ \A o \in Order : o[1] \in answered => ~Unanswered(o)'
  BY <1>4, AnswerGoesOn DEF NoticesOK, GoesOn
<1> HIDE DEF new
<1>6. QED
  BY <1>1, <1>2, <1>3, <1>5 DEF NoticesOK

LEMMA FillNotices ==
    ASSUME TypeOK, CounterOK, NoticesOK, NEW o \in Order, NEW n \in 1 .. Volume(o), Fill(o, n)
    PROVE  NoticesOK'
<1>1. PICK new :
        /\ new = KnockNotice(o, Shares(o, n) \ Shares(o, filled[o]), FALSE)
        /\ notices' = notices \cup {new}
  BY DEF Fill
<1>2. /\ new.type = "knock" /\ new.order = o /\ new.withdrawn = FALSE
      /\ new.shares \subseteq Shares(o, n)
  BY <1>1 DEF KnockNotice
<1>3. UNCHANGED <<withdraws, answered>>
  BY DEF Fill, ghosts
<1>4. KnockNoticeOK(new)'
  BY <1>2, FillEffect DEF KnockNoticeOK, Taken
<1>5. \A k \in notices :
        /\ k.type = "order" => k.accepted \subseteq OrdersOf(k.message) /\ OrderNoticeOK(k)'
        /\ k.type = "knock" => KnockNoticeOK(k)'
        /\ k.type = "withdraw" => WithdrawNoticeOK(k)'
  BY <1>3, FillGoesOn, NoticesStay
<1>6. \A t \in withdraws : Meant(t) \subseteq Order
  BY TargetFacts DEF TypeOK
<1>7. /\ \A t \in withdraws : \A p \in Meant(t) : ~Unanswered(p)'
      /\ \A p \in Order : p[1] \in answered => ~Unanswered(p)'
  BY <1>6, FillGoesOn DEF NoticesOK, GoesOn
<1>8. QED
  BY <1>1, <1>2, <1>3, <1>4, <1>5, <1>7 DEF NoticesOK

LEMMA AnswerWithdrawNotices ==
    ASSUME TypeOK, CounterOK, NoticesOK, NEW t \in withdraws, NEW succeeded \in BOOLEAN,
           AnswerWithdraw(t, succeeded)
    PROVE  NoticesOK'
<1> DEFINE reply == WithdrawNotice(t, succeeded)
           over == IF succeeded THEN Withdrawn(t) ELSE {}
<1>1. /\ reply.type = "withdraw" /\ reply.target = t
      /\ notices' = notices \cup {reply} \cup {KnockNotice(o, {}, TRUE) : o \in over}
      /\ withdraws' = withdraws \ {t}
      /\ UNCHANGED answered
  BY DEF WithdrawNotice, AnswerWithdraw, ghosts
<1>2. \A s \in withdraws : Meant(s) \subseteq Order
  BY TargetFacts DEF TypeOK
<1>3. WithdrawNoticeOK(reply)'
  BY <1>1, <1>2, AnswerWithdrawGoesOn DEF WithdrawNoticeOK, NoticesOK, GoesOn
<1>4. \A o \in over : LET k == KnockNotice(o, {}, TRUE) IN k.type = "knock" /\ KnockNoticeOK(k)'
  <2> SUFFICES ASSUME NEW o \in over
               PROVE  stage'[o] = "done"
    BY DEF KnockNotice, KnockNoticeOK, Taken
  <2>1. o \in Order
    BY <1>2, AnswerWithdrawEffect
  <2>2. QED
    BY <2>1, AnswerWithdrawEffect
<1>5. \A k \in notices :
        /\ k.type = "order" => k.accepted \subseteq OrdersOf(k.message) /\ OrderNoticeOK(k)'
        /\ k.type = "knock" => KnockNoticeOK(k)'
        /\ k.type = "withdraw" => WithdrawNoticeOK(k)'
  BY <1>1, AnswerWithdrawGoesOn, NoticesStay
<1>6. /\ \A s \in withdraws' : \A p \in Meant(s) : ~Unanswered(p)'
      /\ \A p \in Order : p[1] \in answered => ~Unanswered(p)'
  BY <1>1, <1>2, AnswerWithdrawGoesOn DEF NoticesOK, GoesOn
<1> HIDE DEF reply, over
<1>7. QED
  BY <1>1, <1>3, <1>4, <1>5, <1>6 DEF NoticesOK

LEMMA NextNotices == TypeOK /\ CounterOK /\ NoticesOK /\ [Next]_vars => NoticesOK'
<1> SUFFICES ASSUME TypeOK, CounterOK, NoticesOK, [Next]_vars
             PROVE  NoticesOK'
  OBVIOUS
<1>1. CASE \E m \in Message : PassOrder(m)
  BY <1>1, PassOrderGoesOn, NoticesKept DEF PassOrder, ghosts
<1>2. CASE \E m \in Message : RefuseOrder(m)
  BY <1>2, QuietGoesOn, NoticesKept DEF RefuseOrder, external, ghosts
<1>3. CASE \E t \in WithdrawTarget : RequestWithdraw(t)
  BY <1>3, RequestWithdrawNotices
<1>4. CASE \E n \in notices : Deliver(n)
  BY <1>4, DeliverNotices
<1>5. CASE \E n \in notices : Lose(n)
  BY <1>5, QuietGoesOn, NoticesKept DEF Lose, ghosts
<1>6. CASE Tick
  BY <1>6, QuietGoesOn, NoticesKept DEF Tick, external
<1>7. CASE \E m \in Message : \E accepted \in SUBSET OrdersOf(m) : Answer(m, accepted)
  BY <1>7, AnswerNotices
<1>8. CASE \E o \in Order : \E n \in 1 .. Volume(o) : Fill(o, n)
  BY <1>8, FillNotices
<1>9. CASE \E t \in withdraws, succeeded \in BOOLEAN : AnswerWithdraw(t, succeeded)
  BY <1>9, AnswerWithdrawNotices
<1>10. CASE UNCHANGED vars
  BY <1>10, QuietGoesOn, NoticesKept DEF vars, external, ghosts
<1>11. QED
  BY <1>1, <1>2, <1>3, <1>4, <1>5, <1>6, <1>7, <1>8, <1>9, <1>10 DEF Next, SendTradeOrderReq

--------------------------------------------------------------------------------
(* The broker's book and maps.  First the steps that leave them alone. *)

Forward(o) ==
    /\ stage'[o] = "unsent" <=> stage[o] = "unsent"
    /\ stage'[o] = "sent" \/ Taken(o)' => stage[o] = "sent" \/ Taken(o)

LEMMA CounterKeepsBroker ==
    ASSUME TypeOK, NoticesOK, BrokerOK, UNCHANGED <<risk, answered>>,
           \A o \in Order : GoesOn(o) /\ Forward(o), filled' \in [Order -> Nat]
    PROVE  BrokerOK'
<1> SUFFICES ASSUME NEW o \in Order
             PROVE  MemoryOK(o)' /\ BookOK(o)' /\ LookupOK(o)'
  BY DEF BrokerOK
<1>1. MemoryOK(o) /\ BookOK(o) /\ LookupOK(o) /\ GoesOn(o) /\ Forward(o)
  BY DEF BrokerOK
<1>2. UNCHANGED <<inner, book, single_orders_, batch_orders_, knock_first_orders_>>
  BY DEF risk
<1>3. Shares(o, filled[o]) \subseteq Shares(o, filled'[o])
  BY <1>1, SharesFacts DEF GoesOn, TypeOK
<1>4. Taken(o) => Taken(o)'
  BY <1>1 DEF GoesOn, Taken, Unanswered
<1>5. MemoryOK(o)'
  BY <1>1, <1>2, <1>3, <1>4 DEF MemoryOK, GoesOn
<1>6. BookOK(o)'
  <2>1. o[1] \in answered => ~Unanswered(o)
    BY DEF NoticesOK
  <2>2. QED
    BY <1>1, <1>2, <1>4, <2>1 DEF BookOK, GoesOn, Forward
<1>7. LookupOK(o)'
  BY <1>1, <1>2 DEF LookupOK, MemoryOK
<1>8. QED
  BY <1>5, <1>6, <1>7

LEMMA QuietForward ==
    ASSUME UNCHANGED stage
    PROVE  \A o \in Order : Forward(o)
BY DEF Forward, Taken

LEMMA AnswerForward ==
    ASSUME TypeOK, NEW m \in Message, NEW accepted \in SUBSET OrdersOf(m), Answer(m, accepted)
    PROVE  \A o \in Order : Forward(o)
BY DEF Answer, TypeOK, Forward, Taken

LEMMA FillForward ==
    ASSUME TypeOK, CounterOK, NEW o \in Order, NEW n \in 1 .. Volume(o), Fill(o, n)
    PROVE  \A p \in Order : Forward(p)
BY FillEffect DEF Forward, Taken

LEMMA AnswerWithdrawForward ==
    ASSUME TypeOK, NEW t \in withdraws, NEW succeeded \in BOOLEAN, AnswerWithdraw(t, succeeded)
    PROVE  \A o \in Order : Forward(o)
BY AnswerWithdrawEffect DEF Forward, Taken

(* A check of new orders finishes what it erases and changes nothing else. *)
FlaggedOnly(o, i) ==
    /\ i.create_time = inner[o].create_time
    /\ i.acked <=> inner[o].acked
    /\ i.matched = inner[o].matched
    /\ i.withdraw_time = inner[o].withdraw_time
    /\ i.withdraw_succeed <=> inner[o].withdraw_succeed
    /\ inner[o].finish_flag => i.finish_flag

LEMMA WithErasedEffect ==
    ASSUME TypeOK, NEW m \in Message, NEW o \in Order
    PROVE  /\ FlaggedOnly(o, WithErased(m)[o])
           /\ o \in AllErased(m) => WithErased(m)[o].finish_flag
           /\ WithErased(m)[o].finish_flag => inner[o].finish_flag \/ Finished(o)
<1>1. inner[o] \in InnerType
  BY RecordTypes
<1>2. CASE o \in AllErased(m)
  <2>1. WithErased(m)[o] = [inner[o] EXCEPT !.finish_flag = TRUE]
    BY <1>2 DEF WithErased
  <2>2. QED
    BY <1>1, <1>2, <2>1, AllErasedFacts DEF FlaggedOnly, InnerType
<1>3. CASE o \notin AllErased(m)
  BY <1>3 DEF WithErased, FlaggedOnly
<1>4. QED
  BY <1>2, <1>3

LEMMA FlaggedOnlyKeeps ==
    ASSUME NEW o \in Order, MemoryOK(o), BookOK(o), LookupOK(o),
           FlaggedOnly(o, inner'[o]),
           UNCHANGED <<stage[o], filled[o], answered, single_orders_[o], batch_orders_,
                       knock_first_orders_[o]>>,
           o \in book' => o \in book, o \in book => o \in book' \/ inner'[o].finish_flag
    PROVE  MemoryOK(o)' /\ BookOK(o)' /\ LookupOK(o)'
<1>1. MemoryOK(o)'
  BY DEF MemoryOK, FlaggedOnly, Taken
<1>2. BookOK(o)'
  BY DEF BookOK, FlaggedOnly, Taken
<1>3. LookupOK(o)'
  BY DEF LookupOK, FlaggedOnly
<1>4. QED
  BY <1>1, <1>2, <1>3

LEMMA RefuseOrderBroker ==
    ASSUME TypeOK, BrokerOK, NEW m \in Message, RefuseOrder(m)
    PROVE  BrokerOK'
<1> SUFFICES ASSUME NEW o \in Order
             PROVE  MemoryOK(o)' /\ BookOK(o)' /\ LookupOK(o)'
  BY DEF BrokerOK
<1>1. inner'[o] = WithErased(m)[o] /\ book' = book \ AllErased(m)
  BY DEF RefuseOrder
<1>2. FlaggedOnly(o, inner'[o]) /\ (o \in AllErased(m) => inner'[o].finish_flag)
  BY <1>1, WithErasedEffect
<1>3. MemoryOK(o) /\ BookOK(o) /\ LookupOK(o)
  BY DEF BrokerOK
<1>4. QED
  BY <1>1, <1>2, <1>3, FlaggedOnlyKeeps DEF RefuseOrder, external, ghosts

LEMMA PassOrderEffect ==
    ASSUME TypeOK, NEW m \in Message, PassOrder(m)
    PROVE  /\ \A o \in Order : o[1] = m =>
                /\ stage[o] = "unsent" /\ stage'[o] = "sent"
                /\ Flagged(o) => o \in book' /\ inner'[o] = PassedOrder(o)
                /\ ~Flagged(o) =>
                     (o \in book' => o \in book) /\ inner'[o] = WithErased(m)[o]
           /\ \A o \in Order : o[1] # m =>
                /\ stage'[o] = stage[o]
                /\ o \in book' => o \in book
                /\ o \in book => o \in book' \/ inner'[o].finish_flag
                /\ inner'[o] = WithErased(m)[o]
<1>1. \A o \in Order : o[1] = m <=> o \in OrdersOf(m)
  BY OrdersOfFacts
<1>2. \A o \in Order : o \in AllErased(m) => WithErased(m)[o].finish_flag
  BY WithErasedEffect
<1>3. \A o \in Order : o \in Entered(m) <=> o[1] = m /\ Flagged(o)
  BY <1>1 DEF Entered
<1>4. QED
  BY <1>1, <1>2, <1>3 DEF PassOrder

LEMMA PassedOrderFields ==
    ASSUME NEW o \in Order
    PROVE  /\ PassedOrder(o).create_time = now
           /\ PassedOrder(o).acked = FALSE
           /\ PassedOrder(o).matched = {}
           /\ PassedOrder(o).withdraw_time = 0
           /\ PassedOrder(o).withdraw_succeed = FALSE
           /\ PassedOrder(o).finish_flag = FALSE
BY DEF PassedOrder, NewInnerOrder

(* Nothing is known of an order that was not sent. *)
LEMMA UnsentUnknown ==
    ASSUME NoticesOK, CounterOK, BrokerOK, NEW o \in Order, stage[o] = "unsent"
    PROVE  /\ ~inner[o].acked
           /\ o[1] \notin answered
           /\ single_orders_[o] # o
           /\ \A m \in Message : o \notin batch_orders_[m]
           /\ filled[o] = 0
<1>1. MemoryOK(o) /\ LookupOK(o)
  BY DEF BrokerOK
<1>2. ~inner[o].acked
  BY <1>1 DEF MemoryOK, Taken
<1>3. QED
  BY <1>1, <1>2 DEF LookupOK, NoticesOK, Unanswered, CounterOK, Taken

LEMMA PassOrderBroker ==
    ASSUME TypeOK, NoticesOK, CounterOK, BrokerOK, NEW m \in Message, PassOrder(m)
    PROVE  BrokerOK'
<1> SUFFICES ASSUME NEW o \in Order
             PROVE  MemoryOK(o)' /\ BookOK(o)' /\ LookupOK(o)'
  BY DEF BrokerOK
<1>1. /\ UNCHANGED <<single_orders_, batch_orders_, knock_first_orders_, filled, answered>>
      /\ MemoryOK(o) /\ BookOK(o) /\ LookupOK(o)
  BY DEF PassOrder, ghosts, BrokerOK
<1>2. CASE o[1] = m /\ Flagged(o)
  <2>1. inner'[o] = PassedOrder(o) /\ stage[o] = "unsent" /\ stage'[o] = "sent" /\ o \in book'
    BY <1>2, PassOrderEffect
  <2>2. /\ ~inner'[o].acked /\ ~inner'[o].withdraw_succeed /\ ~inner'[o].finish_flag
        /\ inner'[o].matched = {} /\ inner'[o].withdraw_time = 0
    BY <2>1, PassedOrderFields
  <2>3. /\ o[1] \notin answered /\ single_orders_[o] # o
        /\ \A k \in Message : o \notin batch_orders_[k]
    BY <2>1, UnsentUnknown
  <2>4. MemoryOK(o)'
    BY <1>1, <2>1, <2>2 DEF MemoryOK, Taken
  <2>5. BookOK(o)'
    BY <1>1, <1>2, <2>1, <2>3 DEF BookOK, Taken, Flagged
  <2>6. LookupOK(o)'
    BY <1>1, <2>2, <2>3 DEF LookupOK
  <2>7. QED
    BY <2>4, <2>5, <2>6
<1>3. CASE o[1] # m
  <2>1. FlaggedOnly(o, inner'[o]) /\ stage'[o] = stage[o]
    BY <1>3, PassOrderEffect, WithErasedEffect
  <2>2. (o \in book' => o \in book) /\ (o \in book => o \in book' \/ inner'[o].finish_flag)
    BY <1>3, PassOrderEffect
  <2>3. QED
    BY <1>1, <2>1, <2>2, FlaggedOnlyKeeps
<1>4. CASE o[1] = m /\ ~Flagged(o)
  <2>1. /\ stage[o] = "unsent" /\ stage'[o] = "sent" /\ inner'[o] = WithErased(m)[o]
        /\ o \in book' => o \in book
    BY <1>4, PassOrderEffect
  <2>2. FlaggedOnly(o, inner'[o])
    BY <2>1, WithErasedEffect
  <2>3. MemoryOK(o)'
    BY <1>1, <2>1, <2>2 DEF MemoryOK, FlaggedOnly, Taken
  <2>4. BookOK(o)'
    BY <1>1, <1>4, <2>1 DEF BookOK, Flagged
  <2>5. LookupOK(o)'
    BY <1>1, <2>2 DEF LookupOK, FlaggedOnly
  <2>6. QED
    BY <2>3, <2>4, <2>5
<1>5. QED
  BY <1>2, <1>3, <1>4

(* A withdraw finds none but acknowledged orders that it is meant for. *)
LEMMA TargetsFound ==
    ASSUME TypeOK, BrokerOK, NEW t \in WithdrawTarget
    PROVE  \A o \in Targets(t) : o \in Order /\ o \in Meant(t) /\ inner[o].acked
<1>1. CASE Names(t)
  <2>1. t.order \in Order /\ LookupOK(t.order)
    BY <1>1, TargetFacts DEF BrokerOK
  <2>2. Targets(t) \subseteq {t.order}
    BY <1>1, <2>1 DEF Targets, LookupOK
  <2>3. t.order \in Targets(t) => single_orders_[t.order] = t.order
    BY <1>1, <2>1 DEF Targets, LookupOK
  <2>4. QED
    BY <1>1, <2>1, <2>2, <2>3 DEF Meant, LookupOK
<1>2. CASE ~Names(t)
  <2>1. t.batch \in Message /\ Targets(t) = batch_orders_[t.batch]
    BY <1>2, TargetFacts DEF Targets
  <2>2. Targets(t) \subseteq Order
    BY <2>1 DEF TypeOK
  <2>3. \A o \in Targets(t) : o[1] = t.batch /\ inner[o].acked
    BY <2>1, <2>2 DEF BrokerOK, LookupOK
  <2>4. QED
    BY <1>2, <2>1, <2>2, <2>3, OrdersOfFacts DEF Meant
<1>3. QED
  BY <1>1, <1>2

LEMMA WithdrawReqEffect ==
    ASSUME TypeOK, NEW t \in WithdrawTarget, HandleTradeWithdrawReq(t), NEW o \in Order
    PROVE  /\ inner'[o].create_time = inner[o].create_time
           /\ inner'[o].acked <=> inner[o].acked
           /\ inner'[o].matched = inner[o].matched
           /\ inner'[o].withdraw_time =
                IF o \in Targets(t) THEN now ELSE inner[o].withdraw_time
           /\ inner'[o].withdraw_succeed <=> inner[o].withdraw_succeed
           /\ inner'[o].finish_flag <=> inner[o].finish_flag
<1>1. inner[o] \in InnerType
  BY RecordTypes
<1>2. inner'[o] = IF o \in Targets(t) THEN [inner[o] EXCEPT !.withdraw_time = now] ELSE inner[o]
  BY DEF HandleTradeWithdrawReq
<1>3. QED
  BY <1>1, <1>2 DEF InnerType

LEMMA WithdrawRepEffect ==
    ASSUME TypeOK, NEW t \in WithdrawTarget, NEW succeeded \in BOOLEAN,
           HandleTradeWithdrawRep(t, succeeded), NEW o \in Order
    PROVE  /\ inner'[o].create_time = inner[o].create_time
           /\ inner'[o].acked <=> inner[o].acked
           /\ inner'[o].matched = inner[o].matched
           /\ inner'[o].withdraw_time = inner[o].withdraw_time
           /\ inner'[o].withdraw_succeed <=>
                \/ inner[o].withdraw_succeed
                \/ o \in Targets(t) /\ (Names(t) => succeeded)
           /\ inner'[o].finish_flag <=> inner[o].finish_flag
<1>1. inner[o] \in InnerType
  BY RecordTypes
<1>2. CASE o \in Targets(t) /\ (Names(t) => succeeded)
  <2>1. inner'[o] = [inner[o] EXCEPT !.withdraw_succeed = TRUE]
    BY <1>2 DEF HandleTradeWithdrawRep
  <2>2. QED
    BY <1>1, <1>2, <2>1 DEF InnerType
<1>3. CASE ~(o \in Targets(t) /\ (Names(t) => succeeded))
  <2>1. inner'[o] = inner[o]
    BY <1>3 DEF HandleTradeWithdrawRep
  <2>2. QED
    BY <1>3, <2>1
<1>4. QED
  BY <1>2, <1>3

LEMMA RequestWithdrawBroker ==
    ASSUME TypeOK, BrokerOK, NEW t \in WithdrawTarget, RequestWithdraw(t)
    PROVE  BrokerOK'
<1> SUFFICES ASSUME NEW o \in Order
             PROVE  MemoryOK(o)' /\ BookOK(o)' /\ LookupOK(o)'
  BY DEF BrokerOK
<1>1. HandleTradeWithdrawReq(t) /\ UNCHANGED <<stage, filled, answered>>
  BY DEF RequestWithdraw, ghosts
<1>2. UNCHANGED <<book, single_orders_, batch_orders_, knock_first_orders_>>
  BY <1>1 DEF HandleTradeWithdrawReq
<1>3. MemoryOK(o) /\ BookOK(o) /\ LookupOK(o)
  BY DEF BrokerOK
<1>4. o \in Targets(t) => inner[o].acked
  BY TargetsFound
<1>5. MemoryOK(o)'
  BY <1>1, <1>2, <1>3, <1>4, WithdrawReqEffect DEF MemoryOK, Taken
<1>6. BookOK(o)'
  BY <1>1, <1>2, <1>3, WithdrawReqEffect DEF BookOK, Taken
<1>7. LookupOK(o)'
  BY <1>1, <1>2, <1>3, WithdrawReqEffect DEF LookupOK
<1>8. QED
  BY <1>5, <1>6, <1>7

LEMMA WithdrawRepBroker ==
    ASSUME TypeOK, BrokerOK, NEW t \in WithdrawTarget, NEW succeeded \in BOOLEAN,
           HandleTradeWithdrawRep(t, succeeded), UNCHANGED <<stage, filled, answered>>
    PROVE  BrokerOK'
<1> SUFFICES ASSUME NEW o \in Order
             PROVE  MemoryOK(o)' /\ BookOK(o)' /\ LookupOK(o)'
  BY DEF BrokerOK
<1>2. UNCHANGED <<book, single_orders_, batch_orders_, knock_first_orders_>>
  BY DEF HandleTradeWithdrawRep
<1>3. MemoryOK(o) /\ BookOK(o) /\ LookupOK(o)
  BY DEF BrokerOK
<1>4. o \in Targets(t) => inner[o].acked
  BY TargetsFound
<1>5. MemoryOK(o)'
  BY <1>2, <1>3, <1>4, WithdrawRepEffect DEF MemoryOK, Taken
<1>6. BookOK(o)'
  BY <1>2, <1>3, WithdrawRepEffect DEF BookOK, Taken
<1>7. LookupOK(o)'
  BY <1>2, <1>3, WithdrawRepEffect DEF LookupOK
<1>8. QED
  BY <1>5, <1>6, <1>7

--------------------------------------------------------------------------------
(* Knocks. *)

(* What a knock does to the order it names. *)
LEMMA KnockedFields ==
    ASSUME TypeOK, NEW o \in Order, NEW shares \in SUBSET (Order \X Nat),
           NEW withdrawn \in BOOLEAN
    PROVE  LET i == Knocked(o, shares, withdrawn) IN
           /\ i \in InnerType
           /\ i.create_time = inner[o].create_time
           /\ i.acked <=> inner[o].acked
           /\ i.matched = inner[o].matched \cup shares
           /\ i.withdraw_time = inner[o].withdraw_time
           /\ i.withdraw_succeed <=> inner[o].withdraw_succeed \/ withdrawn
           /\ i.finish_flag <=> inner[o].finish_flag
<1> DEFINE b == inner[o].withdraw_succeed \/ withdrawn
<1>1. Knocked(o, shares, withdrawn) =
        [inner[o] EXCEPT !.matched = inner[o].matched \cup shares, !.withdraw_succeed = b]
  BY DEF Knocked
<1>2. b \in BOOLEAN /\ (b <=> inner[o].withdraw_succeed \/ withdrawn)
  OBVIOUS
<1>3. inner[o] \in InnerType
  BY RecordTypes
<1> HIDE DEF b
<1>4. QED
  BY <1>1, <1>2, <1>3 DEF InnerType

(* What applying a knock changes: the order it names, perhaps the flags of its *)
(* batch, and the maps for what is finished.                               *)
KnockApplied(o, shares, withdrawn) ==
    /\ single_orders_[o] = o
    /\ UNCHANGED <<book, knock_first_orders_>>
    /\ inner'[o].create_time = inner[o].create_time
    /\ inner'[o].acked <=> inner[o].acked
    /\ inner'[o].matched = inner[o].matched \cup shares
    /\ inner'[o].withdraw_time = inner[o].withdraw_time
    /\ inner'[o].withdraw_succeed <=> inner[o].withdraw_succeed \/ withdrawn
    /\ inner[o].finish_flag => inner'[o].finish_flag
    /\ inner'[o].finish_flag =>
         inner[o].finish_flag \/ IsFinished(o, Knocked(o, shares, withdrawn))
    /\ \A q \in Order : q # o =>
         /\ FlaggedOnly(q, inner'[q])
         /\ inner'[q].finish_flag => inner[q].finish_flag \/ Finished(q)
         /\ single_orders_'[q] = single_orders_[q]
    /\ \/ single_orders_'[o] = o
       \/ single_orders_'[o] = NoOrder /\ inner'[o].finish_flag
    /\ \A m \in Message : batch_orders_'[m] \subseteq batch_orders_[m]
    /\ \A m \in Message : \A q \in batch_orders_[m] :
         q \in batch_orders_'[m] \/ inner'[q].finish_flag

LEMMA ApplyKnockEffect ==
    ASSUME TypeOK, BrokerOK, NEW o \in Order, NEW shares \in SUBSET (Order \X Nat),
           NEW withdrawn \in BOOLEAN, ApplyKnock(o, shares, withdrawn)
    PROVE  KnockApplied(o, shares, withdrawn)
<1> DEFINE i == Knocked(o, shares, withdrawn)
           done == IsFinished(o, i)
           tested == IF done THEN {o} \cup TestedFinished(batch_orders_[o[1]], o, i) ELSE {}
           new(q) == IF q = o THEN i ELSE inner[q]
<1>1. single_orders_[o] = o
  BY DEF ApplyKnock, BrokerOK, LookupOK
<1>2. /\ inner' = [q \in Order |->
                     IF q \in tested THEN [new(q) EXCEPT !.finish_flag = TRUE] ELSE new(q)]
      /\ single_orders_' = IF done THEN [single_orders_ EXCEPT ![o] = NoOrder]
                           ELSE single_orders_
      /\ batch_orders_' = [batch_orders_ EXCEPT ![o[1]] = BatchLeft(@, o, tested)]
      /\ UNCHANGED <<book, knock_first_orders_>>
  BY <1>1 DEF ApplyKnock
<1>3. /\ i \in InnerType
      /\ i.create_time = inner[o].create_time
      /\ i.acked <=> inner[o].acked
      /\ i.matched = inner[o].matched \cup shares
      /\ i.withdraw_time = inner[o].withdraw_time
      /\ i.withdraw_succeed <=> inner[o].withdraw_succeed \/ withdrawn
      /\ i.finish_flag <=> inner[o].finish_flag
  BY KnockedFields
<1>4. batch_orders_[o[1]] \subseteq Order /\ o[1] \in Message
  BY OrderFacts DEF TypeOK
<1>5. \A q \in tested : q \in Order /\ (q = o => done) /\ (q # o => Finished(q))
  <2> SUFFICES ASSUME NEW q \in tested, q # o
               PROVE  q \in Order /\ Finished(q)
    OBVIOUS
  <2>1. q \in TestedFinished(batch_orders_[o[1]], o, i)
    OBVIOUS
  <2>2. q \in batch_orders_[o[1]] /\ q \in Order /\ q[2] \in Nat
    BY <1>4, <2>1, OrderFacts DEF TestedFinished
  <2>3. q[2] <= q[2]
    BY <2>2
  <2>4. QED
    BY <2>1, <2>2, <2>3 DEF TestedFinished
<1>6. done => o \in tested
  OBVIOUS
<1> HIDE DEF i, done, tested
<1>7. \A q \in Order :
        /\ inner[q] \in InnerType
        /\ new(q) \in InnerType
        /\ new(q).finish_flag <=> inner[q].finish_flag
  BY <1>3, RecordTypes
<1>8. \A q \in Order :
        /\ inner'[q].create_time = new(q).create_time
        /\ inner'[q].acked <=> new(q).acked
        /\ inner'[q].matched = new(q).matched
        /\ inner'[q].withdraw_time = new(q).withdraw_time
        /\ inner'[q].withdraw_succeed <=> new(q).withdraw_succeed
        /\ inner'[q].finish_flag <=> (inner[q].finish_flag \/ q \in tested)
  <2> SUFFICES ASSUME NEW q \in Order
               PROVE  /\ inner'[q].create_time = new(q).create_time
                      /\ inner'[q].acked <=> new(q).acked
                      /\ inner'[q].matched = new(q).matched
                      /\ inner'[q].withdraw_time = new(q).withdraw_time
                      /\ inner'[q].withdraw_succeed <=> new(q).withdraw_succeed
                      /\ inner'[q].finish_flag <=> (inner[q].finish_flag \/ q \in tested)
    OBVIOUS
  <2> HIDE DEF new
  <2>1. CASE q \in tested
    <3>1. inner'[q] = [new(q) EXCEPT !.finish_flag = TRUE]
      BY <1>2, <2>1
    <3>2. QED
      BY <1>7, <2>1, <3>1 DEF InnerType
  <2>2. CASE q \notin tested
    <3>1. inner'[q] = new(q)
      BY <1>2, <2>2
    <3>2. QED
      BY <1>7, <2>2, <3>1
  <2>3. QED
    BY <2>1, <2>2
<1>9. /\ inner'[o].create_time = inner[o].create_time
      /\ inner'[o].acked <=> inner[o].acked
      /\ inner'[o].matched = inner[o].matched \cup shares
      /\ inner'[o].withdraw_time = inner[o].withdraw_time
      /\ inner'[o].withdraw_succeed <=> inner[o].withdraw_succeed \/ withdrawn
      /\ inner[o].finish_flag => inner'[o].finish_flag
      /\ inner'[o].finish_flag => inner[o].finish_flag \/ done
  BY <1>3, <1>5, <1>8
<1>10. \A q \in Order : q # o =>
         /\ FlaggedOnly(q, inner'[q])
         /\ inner'[q].finish_flag => inner[q].finish_flag \/ Finished(q)
         /\ single_orders_'[q] = single_orders_[q]
  BY <1>2, <1>5, <1>8 DEF FlaggedOnly, TypeOK
<1>11. \/ single_orders_'[o] = o
       \/ single_orders_'[o] = NoOrder /\ inner'[o].finish_flag
  BY <1>1, <1>2, <1>6, <1>8 DEF TypeOK
<1>12. \A m \in Message : batch_orders_'[m] \subseteq batch_orders_[m]
  BY <1>2 DEF BatchLeft, TypeOK
<1>13. \A m \in Message : \A q \in batch_orders_[m] :
         q \in batch_orders_'[m] \/ inner'[q].finish_flag
  <2> SUFFICES ASSUME NEW m \in Message, NEW q \in batch_orders_[m], q \notin batch_orders_'[m]
               PROVE  inner'[q].finish_flag
    OBVIOUS
  <2>1. m = o[1] /\ q \in tested
    BY <1>2, <1>4 DEF BatchLeft, TypeOK
  <2>2. QED
    BY <1>5, <1>8, <2>1
<1>14. QED
  BY <1>1, <1>2, <1>9, <1>10, <1>11, <1>12, <1>13 DEF done, i, KnockApplied

LEMMA CacheKnockEffect ==
    ASSUME TypeOK, NEW o \in Order, NEW shares \in SUBSET (Order \X Nat),
           NEW withdrawn \in BOOLEAN, CacheKnock(o, shares, withdrawn)
    PROVE  /\ single_orders_[o] = NoOrder
           /\ UNCHANGED <<inner, book, single_orders_, batch_orders_>>
           /\ knock_first_orders_'[o].shares = knock_first_orders_[o].shares \cup shares
           /\ knock_first_orders_'[o].withdrawn <=>
                knock_first_orders_[o].withdrawn \/ withdrawn
           /\ \A q \in Order : q # o => knock_first_orders_'[q] = knock_first_orders_[q]
BY DEF CacheKnock, TypeOK

LEMMA KnockBroker ==
    ASSUME TypeOK, BrokerOK, NEW n \in NoticeType, n.type = "knock", KnockNoticeOK(n),
           HandleTradeKnock(n.order, n.shares, n.withdrawn), UNCHANGED <<stage, filled, answered>>
    PROVE  BrokerOK'
<1> DEFINE o == n.order
<1>1. o \in Order /\ n.shares \in SUBSET (Order \X Nat) /\ n.withdrawn \in BOOLEAN
  BY NoticeFacts
<1>2. /\ n.shares \subseteq Shares(o, filled[o])
      /\ n.withdrawn => stage[o] = "done"
  BY DEF KnockNoticeOK
<1> HIDE DEF o
<1> SUFFICES ASSUME NEW q \in Order
             PROVE  MemoryOK(q)' /\ BookOK(q)' /\ LookupOK(q)'
  BY DEF BrokerOK
<1>3. MemoryOK(q) /\ BookOK(q) /\ LookupOK(q)
  BY DEF BrokerOK
<1>4. CASE CacheKnock(o, n.shares, n.withdrawn)
  <2>1. MemoryOK(q)'
    BY <1>1, <1>2, <1>3, <1>4, CacheKnockEffect DEF MemoryOK, Taken
  <2>2. BookOK(q)'
    BY <1>1, <1>3, <1>4, CacheKnockEffect DEF BookOK, Taken
  <2>3. single_orders_[q] = q => q # o
    <3>1. single_orders_[o] = NoOrder
      BY <1>1, <1>4, CacheKnockEffect
    <3>2. q # NoOrder
      BY OrderFacts
    <3>3. QED
      BY <3>1, <3>2
  <2>4. LookupOK(q)'
    BY <1>1, <1>3, <1>4, <2>3, CacheKnockEffect DEF LookupOK
  <2>5. QED
    BY <2>1, <2>2, <2>4
<1>5. CASE ApplyKnock(o, n.shares, n.withdrawn)
  <2>0. KnockApplied(o, n.shares, n.withdrawn)
    BY <1>1, <1>5, ApplyKnockEffect
  <2>1. MemoryOK(q)'
    <3>1. CASE q = o
      <4>1. inner[o].acked
        BY <1>3, <2>0, <3>1 DEF LookupOK, KnockApplied
      <4>2. QED
        BY <1>2, <1>3, <2>0, <3>1, <4>1 DEF MemoryOK, Taken, KnockApplied
    <3>2. CASE q # o
      BY <1>3, <2>0, <3>2 DEF MemoryOK, Taken, FlaggedOnly, KnockApplied
    <3>3. QED
      BY <3>1, <3>2
  <2>2. /\ inner'[q].acked <=> inner[q].acked
        /\ inner[q].finish_flag => inner'[q].finish_flag
    BY <2>0 DEF FlaggedOnly, KnockApplied
  <2>3. BookOK(q)'
    BY <1>3, <2>0, <2>2 DEF BookOK, Taken, KnockApplied
  <2>4. LookupOK(q)'
    <3>1. single_orders_'[q] \in {NoOrder, single_orders_[q]}
      BY <2>0 DEF KnockApplied
    <3>2. single_orders_[q] = q => single_orders_'[q] = q \/ inner'[q].finish_flag
      BY <2>0 DEF KnockApplied
    <3>3. \A m \in Message :
            /\ q \in batch_orders_'[m] => q \in batch_orders_[m]
            /\ q \in batch_orders_[m] => q \in batch_orders_'[m] \/ inner'[q].finish_flag
      BY <2>0 DEF KnockApplied
    <3>4. knock_first_orders_' = knock_first_orders_
      BY <2>0 DEF KnockApplied
    <3>5. q[1] \in Message /\ q # NoOrder
      BY OrderFacts
    <3>6. QED
      BY <1>3, <2>2, <3>1, <3>2, <3>3, <3>4, <3>5 DEF LookupOK
  <2>5. QED
    BY <2>1, <2>3, <2>4
<1>6. QED
  BY <1>4, <1>5 DEF HandleTradeKnock, o

--------------------------------------------------------------------------------
(* The reply to an order message. *)

(* What becomes of the order o when its reply item finds it. *)
Replayed(o, accepted) == Acked(o, Replays(o, accepted))

ReplyApplied(m, accepted) ==
    /\ book' = book \ (OrdersOf(m) \ accepted)
    /\ \A o \in Order : o \notin accepted \cap book =>
        /\ inner'[o] = inner[o]
        /\ single_orders_'[o] = single_orders_[o]
        /\ knock_first_orders_'[o] = knock_first_orders_[o]
    /\ \A o \in accepted \cap book :
        /\ inner'[o].create_time = inner[o].create_time
        /\ inner'[o].acked
        /\ inner'[o].matched = inner[o].matched \cup knock_first_orders_[o].shares
        /\ inner'[o].withdraw_time = inner[o].withdraw_time
        /\ inner'[o].withdraw_succeed <=>
             inner[o].withdraw_succeed \/ knock_first_orders_[o].withdrawn
        /\ inner'[o].finish_flag <=>
             \/ inner[o].finish_flag
             \/ knock_first_orders_[o] # NoKnocks /\ IsFinished(o, Replayed(o, accepted))
        /\ \/ single_orders_'[o] = o
           \/ single_orders_'[o] = NoOrder /\ inner'[o].finish_flag
        /\ knock_first_orders_'[o] = NoKnocks
    /\ \A k \in Message : k # m => batch_orders_'[k] = batch_orders_[k]
    /\ ~Batched(m) => batch_orders_'[m] = batch_orders_[m]
    /\ Batched(m) =>
        \/ batch_orders_'[m] = batch_orders_[m] \cup (accepted \cap book)
        \/ /\ batch_orders_'[m] = {}
           /\ \A o \in accepted \cap book : IsFinished(o, inner'[o])

LEMMA ReplayedFields ==
    ASSUME NoneAlike, TypeOK, NEW m \in Message, NEW accepted \in SUBSET OrdersOf(m),
           NEW o \in accepted, o \in book
    PROVE  /\ Replays(o, accepted) = IF knock_first_orders_[o] = NoKnocks THEN {} ELSE {o}
           /\ Replayed(o, accepted) \in InnerType
           /\ Replayed(o, accepted).create_time = inner[o].create_time
           /\ Replayed(o, accepted).acked
           /\ Replayed(o, accepted).matched =
                inner[o].matched \cup knock_first_orders_[o].shares
           /\ Replayed(o, accepted).withdraw_time = inner[o].withdraw_time
           /\ Replayed(o, accepted).withdraw_succeed <=>
                inner[o].withdraw_succeed \/ knock_first_orders_[o].withdrawn
           /\ Replayed(o, accepted).finish_flag <=> inner[o].finish_flag
<1> DEFINE replays == Replays(o, accepted)
           shares == UNION {knock_first_orders_[q].shares : q \in replays}
           b == inner[o].withdraw_succeed \/ \E q \in replays : knock_first_orders_[q].withdrawn
<1>1. o \in Order
  BY OrdersOfFacts
<1>2. \A q \in accepted : o \in FoundBy(q, accepted) <=> q = o
  BY FindsItself
<1>3. replays = IF knock_first_orders_[o] = NoKnocks THEN {} ELSE {o}
  BY <1>2 DEF Replays
<1>4. inner[o] \in InnerType /\ knock_first_orders_[o] \in KnocksType
  BY <1>1, RecordTypes
<1>5. shares = knock_first_orders_[o].shares
  <2>1. CASE knock_first_orders_[o] = NoKnocks
    BY <1>3, <2>1 DEF NoKnocks
  <2>2. CASE knock_first_orders_[o] # NoKnocks
    BY <1>3, <2>2
  <2>3. QED
    BY <2>1, <2>2
<1>6. b \in BOOLEAN /\ (b <=> inner[o].withdraw_succeed \/ knock_first_orders_[o].withdrawn)
  <2>1. CASE knock_first_orders_[o] = NoKnocks
    BY <1>3, <2>1 DEF NoKnocks
  <2>2. CASE knock_first_orders_[o] # NoKnocks
    BY <1>3, <2>2
  <2>3. QED
    BY <2>1, <2>2
<1>7. Replayed(o, accepted) =
        [inner[o] EXCEPT !.acked = TRUE, !.matched = inner[o].matched \cup shares,
                         !.withdraw_succeed = b]
  BY DEF Replayed, Acked
<1>8. shares \in SUBSET (Order \X Nat)
  BY <1>4, <1>5 DEF KnocksType
<1> HIDE DEF replays, shares, b
<1>9. Replayed(o, accepted) \in InnerType
  <2>1. [inner[o] EXCEPT !.acked = TRUE, !.matched = inner[o].matched \cup shares,
                         !.withdraw_succeed = b] \in InnerType
    BY <1>4, <1>6, <1>8, AckedType
  <2>2. QED
    BY <1>7, <2>1
<1>10. QED
  BY <1>3, <1>4, <1>5, <1>6, <1>7, <1>9 DEF InnerType, replays

LEMMA OrderRepEffect ==
    ASSUME NoneAlike, TypeOK, NEW m \in Message, NEW accepted \in SUBSET OrdersOf(m),
           HandleTradeOrderRep(m, accepted)
    PROVE  ReplyApplied(m, accepted)
<1>1. /\ OrdersOf(m) \subseteq Order
      /\ \A o \in OrdersOf(m) : FoundBy(o, accepted) = {o} \cap book
  BY OrdersOfFacts, FindsItself
<1>2. book' = book \ (OrdersOf(m) \ accepted)
  <2>1. ErasedByReply(m, accepted) = (OrdersOf(m) \ accepted) \cap book
    BY <1>1 DEF ErasedByReply
  <2>2. QED
    BY <2>1 DEF HandleTradeOrderRep
<1>3. AckedByReply(m, accepted) = accepted \cap book
  BY <1>1 DEF AckedByReply
<1>4. \A o \in accepted : FoundBy(o, accepted) # {} <=> o \in book
  BY <1>1
<1>5. \A o \in Order : o \notin accepted \cap book =>
        /\ inner'[o] = inner[o]
        /\ single_orders_'[o] = single_orders_[o]
        /\ knock_first_orders_'[o] = knock_first_orders_[o]
  BY <1>3, <1>4 DEF HandleTradeOrderRep
<1>6. ASSUME NEW o \in accepted \cap book
      PROVE  /\ inner'[o].create_time = inner[o].create_time
             /\ inner'[o].acked
             /\ inner'[o].matched = inner[o].matched \cup knock_first_orders_[o].shares
             /\ inner'[o].withdraw_time = inner[o].withdraw_time
             /\ inner'[o].withdraw_succeed <=>
                  inner[o].withdraw_succeed \/ knock_first_orders_[o].withdrawn
             /\ inner'[o].finish_flag <=>
                  \/ inner[o].finish_flag
                  \/ knock_first_orders_[o] # NoKnocks /\ IsFinished(o, Replayed(o, accepted))
  <2> DEFINE b == \/ Replayed(o, accepted).finish_flag
                  \/ Replays(o, accepted) # {} /\ IsFinished(o, Replayed(o, accepted))
  <2>1. inner'[o] = AckedAndReplayed(o, accepted)
    BY <1>1, <1>3 DEF HandleTradeOrderRep
  <2>2. AckedAndReplayed(o, accepted) = [Replayed(o, accepted) EXCEPT !.finish_flag = b]
    BY DEF AckedAndReplayed, Replayed
  <2>3. b \in BOOLEAN
        /\ (b <=> \/ inner[o].finish_flag
                  \/ knock_first_orders_[o] # NoKnocks /\ IsFinished(o, Replayed(o, accepted)))
    BY ReplayedFields
  <2> HIDE DEF b
  <2>4. Replayed(o, accepted) \in InnerType
    BY ReplayedFields
  <2>5. /\ inner'[o].create_time = Replayed(o, accepted).create_time
        /\ inner'[o].acked <=> Replayed(o, accepted).acked
        /\ inner'[o].matched = Replayed(o, accepted).matched
        /\ inner'[o].withdraw_time = Replayed(o, accepted).withdraw_time
        /\ inner'[o].withdraw_succeed <=> Replayed(o, accepted).withdraw_succeed
        /\ inner'[o].finish_flag <=> b
    BY <2>1, <2>2, <2>3, <2>4 DEF InnerType
  <2>6. QED
    BY <2>3, <2>5, ReplayedFields
<1>7. \A o \in accepted \cap book : knock_first_orders_'[o] = NoKnocks
  BY <1>1, <1>4 DEF HandleTradeOrderRep
<1>8. ASSUME NEW o \in accepted \cap book
      PROVE  \/ single_orders_'[o] = o
             \/ single_orders_'[o] = NoOrder /\ inner'[o].finish_flag
  <2>1. (CHOOSE p \in FoundBy(o, accepted) : TRUE) = o
    <3>1. FoundBy(o, accepted) = {o}
      BY <1>1
    <3>2. QED
      BY <3>1
  <2>2. single_orders_'[o] = IF FinishedByReplay(o, o, accepted) THEN NoOrder ELSE o
    BY <1>1, <1>4, <2>1 DEF HandleTradeOrderRep
  <2>3. ASSUME FinishedByReplay(o, o, accepted)
        PROVE  inner'[o].finish_flag
    <3>1. o[2] \in Nat
      BY <1>1, OrderFacts
    <3>2. Replays(o, accepted) = {o} /\ knock_first_orders_[o] # NoKnocks
      BY <2>3, ReplayedFields DEF FinishedByReplay
    <3>3. {q \in Replays(o, accepted) : q[2] <= o[2]} = Replays(o, accepted)
      BY <3>1, <3>2
    <3>4. IsFinished(o, Replayed(o, accepted))
      BY <2>3, <3>3 DEF FinishedByReplay, Replayed
    <3>5. QED
      BY <1>6, <3>2, <3>4
  <2>4. QED
    BY <2>2, <2>3
<1>9. /\ \A k \in Message : k # m => batch_orders_'[k] = batch_orders_[k]
      /\ ~Batched(m) => batch_orders_'[m] = batch_orders_[m]
  BY DEF HandleTradeOrderRep, TypeOK
<1>10. ASSUME Batched(m)
       PROVE  \/ batch_orders_'[m] = batch_orders_[m] \cup (accepted \cap book)
              \/ /\ batch_orders_'[m] = {}
                 /\ \A o \in accepted \cap book : IsFinished(o, inner'[o])
  <2> DEFINE all == batch_orders_[m] \cup (accepted \cap book)
             gone == /\ \E p \in all, o \in accepted : FinishedByReplay(o, p, accepted)
                     /\ \A p \in all : IsFinished(p, inner'[p])
  <2>1. batch_orders_'[m] = IF gone THEN {} ELSE all
    BY <1>3, <1>10 DEF HandleTradeOrderRep, TypeOK
  <2>2. QED
    BY <2>1
<1>11. QED
  BY <1>2, <1>5, <1>6, <1>7, <1>8, <1>9, <1>10 DEF ReplyApplied

LEMMA OrderRepBroker ==
    ASSUME NoneAlike, TypeOK, NoticesOK, BrokerOK, NEW n \in notices, n.type = "order",
           HandleTradeOrderRep(n.message, n.accepted), UNCHANGED <<stage, filled>>,
           answered' = answered \cup {n.message}
    PROVE  BrokerOK'
<1> DEFINE m == n.message
           accepted == n.accepted
<1>1. /\ m \in Message
      /\ accepted \in SUBSET OrdersOf(m)
      /\ OrderNoticeOK(n)
  BY NoticeFacts DEF TypeOK, NoticesOK
<1>2. /\ ReplyApplied(m, accepted)
      /\ answered' = answered \cup {m}
  BY <1>1, OrderRepEffect
<1>3. \A o \in Order : o[1] = m =>
        o[1] \notin answered /\ ~Unanswered(o) /\ (o \in accepted <=> Taken(o))
  BY <1>1, OrdersOfFacts DEF OrderNoticeOK
<1> HIDE DEF m, accepted
<1> SUFFICES ASSUME NEW o \in Order
             PROVE  MemoryOK(o)' /\ BookOK(o)' /\ LookupOK(o)'
  BY DEF BrokerOK
<1>4. MemoryOK(o) /\ BookOK(o) /\ LookupOK(o) /\ o[1] \in Message
  BY OrderFacts DEF BrokerOK
<1>5. o \in OrdersOf(m) <=> o[1] = m
  BY <1>1, OrdersOfFacts
<1>6. CASE o \in accepted /\ o \in book
  <2>1. o[1] = m /\ Taken(o) /\ o[1] \notin answered
    BY <1>1, <1>3, <1>5, <1>6
  <2>2. /\ ~inner[o].acked /\ inner[o].matched = {} /\ inner[o].withdraw_time = 0
        /\ ~inner[o].withdraw_succeed
        /\ \A k \in Message : o \notin batch_orders_[k]
    BY <1>4, <2>1 DEF MemoryOK, LookupOK
  <2>3. /\ inner'[o].acked
        /\ inner'[o].matched = inner[o].matched \cup knock_first_orders_[o].shares
        /\ inner'[o].withdraw_time = inner[o].withdraw_time
        /\ inner'[o].withdraw_succeed <=>
             inner[o].withdraw_succeed \/ knock_first_orders_[o].withdrawn
        /\ inner'[o].finish_flag <=>
             \/ inner[o].finish_flag
             \/ knock_first_orders_[o] # NoKnocks /\ IsFinished(o, Replayed(o, accepted))
        /\ \/ single_orders_'[o] = o
           \/ single_orders_'[o] = NoOrder /\ inner'[o].finish_flag
        /\ knock_first_orders_'[o] = NoKnocks
    BY <1>2, <1>6 DEF ReplyApplied
  <2>4. MemoryOK(o)'
    BY <1>2, <1>4, <2>1, <2>2, <2>3 DEF MemoryOK, Taken, NoKnocks
  <2>5. BookOK(o)'
    BY <1>2, <1>4, <1>6, <2>1, <2>3 DEF BookOK, Taken, ReplyApplied
  <2>6. Batched(m) /\ ~inner'[o].finish_flag => o \in batch_orders_'[m]
    <3> SUFFICES ASSUME Batched(m), ~inner'[o].finish_flag, IsFinished(o, inner'[o])
                 PROVE  FALSE
      BY <1>2, <1>6 DEF ReplyApplied
    <3>1. inner'[o].withdraw_succeed \/ Cardinality(inner'[o].matched) >= Volume(o)
      BY <2>2, <2>3 DEF IsFinished, AckTimedOut, WithdrawTimedOut
    <3>2. CASE knock_first_orders_[o] = NoKnocks
      <4>1. inner'[o].matched = {} /\ ~inner'[o].withdraw_succeed
        BY <2>2, <2>3, <3>2 DEF NoKnocks
      <4>2. QED
        BY <3>1, <4>1, FS_EmptySet, OrderFacts
    <3>3. CASE knock_first_orders_[o] # NoKnocks
      <4>1. /\ Replayed(o, accepted).matched = inner'[o].matched
            /\ Replayed(o, accepted).withdraw_succeed <=> inner'[o].withdraw_succeed
        BY <1>1, <1>6, <2>3, ReplayedFields
      <4>2. IsFinished(o, Replayed(o, accepted))
        BY <3>1, <4>1 DEF IsFinished
      <4>3. QED
        BY <2>3, <3>3, <4>2
    <3>4. QED
      BY <3>2, <3>3
  <2>7. \A k \in Message : o \in batch_orders_'[k] => k = m
    BY <1>2, <2>2 DEF ReplyApplied
  <2>8. LookupOK(o)'
    BY <2>1, <2>3, <2>6, <2>7 DEF LookupOK
  <2>9. QED
    BY <2>4, <2>5, <2>8
<1>7. CASE ~(o \in accepted /\ o \in book)
  <2>1. /\ inner'[o] = inner[o]
        /\ single_orders_'[o] = single_orders_[o]
        /\ knock_first_orders_'[o] = knock_first_orders_[o]
        /\ book' = book \ (OrdersOf(m) \ accepted)
    BY <1>2, <1>7 DEF ReplyApplied
  <2>2. MemoryOK(o)'
    BY <1>2, <1>4, <2>1 DEF MemoryOK, Taken
  <2>3. BookOK(o)'
    <3>1. CASE o[1] = m
      BY <1>2, <1>3, <1>4, <1>5, <1>7, <2>1, <3>1 DEF BookOK, Taken, Unanswered
    <3>2. CASE o[1] # m
      BY <1>2, <1>4, <1>5, <2>1, <3>2 DEF BookOK, Taken
    <3>3. QED
      BY <3>1, <3>2
  <2>4. \A k \in Message : o \in batch_orders_'[k] => o \in batch_orders_[k]
    BY <1>2, <1>7 DEF ReplyApplied
  <2>5. inner[o].acked => o[1] # m
    BY <1>3, <1>4 DEF MemoryOK
  <2>6. o[1] # m => batch_orders_'[o[1]] = batch_orders_[o[1]]
    BY <1>2, <1>4 DEF ReplyApplied
  <2>7. LookupOK(o)'
    BY <1>4, <2>1, <2>4, <2>5, <2>6 DEF LookupOK
  <2>8. QED
    BY <2>2, <2>3, <2>7
<1>8. QED
  BY <1>6, <1>7

LEMMA DeliverBroker ==
    ASSUME NoneAlike, TypeOK, NoticesOK, BrokerOK, NEW n \in notices, Deliver(n)
    PROVE  BrokerOK'
<1>1. n \in NoticeType
  BY DEF TypeOK
<1>2. CASE n.type = "order" /\ HandleTradeOrderRep(n.message, n.accepted)
  BY <1>2, OrderRepBroker DEF Deliver, Noted
<1>3. CASE n.type = "withdraw" /\ HandleTradeWithdrawRep(n.target, n.succeeded)
  <2>1. n.target \in WithdrawTarget /\ n.succeeded \in BOOLEAN
    BY <1>1, <1>3, NoticeFacts
  <2>2. UNCHANGED <<stage, filled, answered>>
    BY <1>3 DEF Deliver, Noted
  <2>3. QED
    BY <1>3, <2>1, <2>2, WithdrawRepBroker
<1>4. CASE n.type = "knock" /\ HandleTradeKnock(n.order, n.shares, n.withdrawn)
  BY <1>1, <1>4, KnockBroker DEF Deliver, Noted, NoticesOK
<1>5. QED
  BY <1>2, <1>3, <1>4 DEF Deliver, Noted

LEMMA NextBroker ==
    NoneAlike /\ TypeOK /\ CounterOK /\ NoticesOK /\ BrokerOK /\ [Next]_vars => BrokerOK'
<1> SUFFICES ASSUME NoneAlike, TypeOK, CounterOK, NoticesOK, BrokerOK, [Next]_vars
             PROVE  BrokerOK'
  OBVIOUS
<1>1. CASE \E m \in Message : PassOrder(m)
  BY <1>1, PassOrderBroker
<1>2. CASE \E m \in Message : RefuseOrder(m)
  BY <1>2, RefuseOrderBroker
<1>3. CASE \E t \in WithdrawTarget : RequestWithdraw(t)
  BY <1>3, RequestWithdrawBroker
<1>4. CASE \E n \in notices : Deliver(n)
  BY <1>4, DeliverBroker
<1>5. CASE \E n \in notices : Lose(n)
  BY <1>5, QuietGoesOn, QuietForward, CounterKeepsBroker DEF Lose, ghosts
<1>6. CASE Tick
  BY <1>6, QuietGoesOn, QuietForward, CounterKeepsBroker DEF Tick, external
<1>7. CASE \E m \in Message : \E accepted \in SUBSET OrdersOf(m) : Answer(m, accepted)
  BY <1>7, AnswerGoesOn, AnswerForward, CounterKeepsBroker DEF Answer, ghosts
<1>8. CASE \E o \in Order : \E n \in 1 .. Volume(o) : Fill(o, n)
  BY <1>8, FillGoesOn, FillForward, CounterKeepsBroker DEF Fill, ghosts
<1>9. CASE \E t \in withdraws, succeeded \in BOOLEAN : AnswerWithdraw(t, succeeded)
  BY <1>9, AnswerWithdrawGoesOn, AnswerWithdrawForward, CounterKeepsBroker
     DEF AnswerWithdraw, ghosts
<1>10. CASE UNCHANGED vars
  BY <1>10, QuietGoesOn, QuietForward, CounterKeepsBroker DEF vars, external, ghosts
<1>11. QED
  BY <1>1, <1>2, <1>3, <1>4, <1>5, <1>6, <1>7, <1>8, <1>9, <1>10 DEF Next, SendTradeOrderReq

LEMMA InitInv == Init => KnockInv
<1> SUFFICES ASSUME Init
             PROVE  KnockInv
  OBVIOUS
<1>1. \A o \in Order :
        /\ inner[o] = NewInnerOrder /\ knock_first_orders_[o] = NoKnocks
        /\ single_orders_[o] = NoOrder /\ stage[o] = "unsent" /\ filled[o] = 0
        /\ o # NoOrder /\ Volume(o) \in Nat \ {0}
  BY OrderFacts DEF Init
<1>2. CounterOK
  BY <1>1 DEF CounterOK, Taken, Unanswered
<1>3. NoticesOK
  BY DEF Init, NoticesOK
<1>4. BrokerOK
  <2> SUFFICES ASSUME NEW o \in Order
               PROVE  MemoryOK(o) /\ BookOK(o) /\ LookupOK(o)
    BY DEF BrokerOK
  <2>1. /\ ~inner[o].acked /\ ~inner[o].withdraw_succeed /\ ~inner[o].finish_flag
        /\ inner[o].matched = {} /\ inner[o].withdraw_time = 0
        /\ knock_first_orders_[o].shares = {} /\ ~knock_first_orders_[o].withdrawn
    BY <1>1 DEF NewInnerOrder, NoKnocks
  <2>2. MemoryOK(o)
    BY <2>1 DEF MemoryOK
  <2>3. BookOK(o)
    BY <1>1 DEF Init, BookOK, Taken
  <2>4. LookupOK(o)
    BY <1>1, <2>1 DEF Init, LookupOK
  <2>5. QED
    BY <2>2, <2>3, <2>4
<1>5. QED
  BY <1>2, <1>3, <1>4, InitType DEF KnockInv

LEMMA NextInv == NoneAlike /\ KnockInv /\ [Next]_vars => KnockInv'
BY NextType, NextCounter, NextNotices, NextBroker DEF KnockInv

(* The inductive invariant, for messages without equal orders: types, what the *)
(* counter keeps, reports that are true, and a book and maps that know what  *)
(* was reported and nothing else.                                          *)
THEOREM Invariance == NoneAlike => (Spec => []KnockInv)
<1> SUFFICES ASSUME NoneAlike
             PROVE  Spec => []KnockInv
  OBVIOUS
<1>1. KnockInv /\ [Next]_vars => KnockInv'
  BY NextInv
<1>2. QED
  BY InitInv, <1>1, PTL DEF Spec

(* Every acknowledged order that is not finished can be found by its order_no *)
(* and in its batch, so that knocks and withdraws reach it.                  *)
THEOREM ReachableHolds == NoneAlike => (Spec => []Reachable)
<1> SUFFICES ASSUME NoneAlike
             PROVE  Spec => []Reachable
  OBVIOUS
<1>1. Spec => []KnockInv
  BY Invariance
<1>2. KnockInv => Reachable
  BY DEF KnockInv, BrokerOK, LookupOK, Reachable, IsFinished
<1>3. QED
  BY <1>1, <1>2, PTL

--------------------------------------------------------------------------------
(* No open order is taken for finished but a late one. *)

(* The reasons of IsFinished, for an order as it is and as a report is about   *)
(* to leave it.                                                            *)
LEMMA FinishedIsLate ==
    ASSUME AllFlagged, KnockInv, NEW o \in Order, LateOK(o), Open(o), NEW i \in InnerType,
           i.create_time = inner[o].create_time,
           i.withdraw_time = inner[o].withdraw_time,
           inner[o].acked => i.acked,
           i.matched \subseteq Shares(o, filled[o]),
           i.withdraw_succeed => stage[o] = "done",
           i.finish_flag => inner[o].finish_flag,
           IsFinished(o, i)
    PROVE  o \in late
<1>1. MemoryOK(o) /\ BookOK(o) /\ TypeOK /\ CounterOK /\ NoticesOK
  BY DEF KnockInv, BrokerOK
<1>2. stage[o] # "done" /\ stage[o] # "unsent"
  BY DEF Open
<1>3. CASE i.finish_flag
  BY <1>3 DEF LateOK
<1>4. CASE Cardinality(i.matched) >= Volume(o)
  <2>1. filled[o] \in Nat /\ filled[o] <= Volume(o) /\ Volume(o) \in Nat
    BY <1>1, OrderFacts DEF TypeOK, CounterOK
  <2>2. Cardinality(i.matched) \in Nat /\ Cardinality(i.matched) <= filled[o]
    BY <2>1, MatchedCount
  <2>3. filled[o] = Volume(o)
    BY <1>4, <2>1, <2>2
  <2>4. QED
    BY <1>1, <1>2, <2>3 DEF CounterOK
<1>5. CASE AckTimedOut(i)
  <2>1. CASE o[1] \in answered
    BY <1>1, <1>5, <2>1
       DEF AckTimedOut, NoticesOK, Unanswered, Taken, Open, BookOK, LateOK, AllFlagged
  <2>2. CASE o[1] \notin answered
    BY <1>2, <1>5, <2>2 DEF AckTimedOut, Overdue, LateOK
  <2>3. QED
    BY <2>1, <2>2
<1>6. CASE WithdrawTimedOut(i)
  <2>1. inner[o].withdraw_time > 0 /\ now - inner[o].withdraw_time > kOrderTimeoutMS
    BY <1>6 DEF WithdrawTimedOut
  <2>2. Overdue(o, now)
    BY <1>2, <2>1 DEF Overdue, LateOK
  <2>3. QED
    BY <2>2 DEF LateOK
<1>7. QED
  BY <1>2, <1>3, <1>4, <1>5, <1>6 DEF IsFinished

LEMMA FinishedOrderIsLate ==
    ASSUME AllFlagged, KnockInv, NEW o \in Order, LateOK(o), Open(o), Finished(o)
    PROVE  o \in late
<1>1. inner[o] \in InnerType /\ MemoryOK(o)
  BY RecordTypes DEF KnockInv, BrokerOK
<1>2. QED
  BY <1>1, FinishedIsLate DEF Finished, MemoryOK, LateOK

(* What an answered withdraw was meant for is not opened again. *)
LEMMA WithdrawnStays ==
    ASSUME KnockInv, WithdrawnOK,
           \A o \in Order : GoesOn(o), NEW n \in notices, n.type = "withdraw"
    PROVE  \A o \in Meant(n.target) : ~Open(o)'
<1>1. n.target \in WithdrawTarget
  BY NoticeFacts DEF KnockInv, TypeOK
<1>2. SUFFICES ASSUME NEW o \in Meant(n.target)
               PROVE  ~Open(o)'
  OBVIOUS
<1>3. o \in Order /\ ~Open(o) /\ ~Unanswered(o)
  BY <1>1, TargetFacts DEF WithdrawnOK, KnockInv, NoticesOK, WithdrawNoticeOK
<1>4. GoesOn(o) /\ stage[o] \in StageType
  BY <1>3 DEF KnockInv, TypeOK, StageType
<1>5. QED
  BY <1>3, <1>4 DEF GoesOn, Open, Unanswered, Taken, StageType

(* Steps of the counter. *)
LEMMA CounterKeepsLate ==
    ASSUME KnockInv, NEW o \in Order, LateOK(o), GoesOn(o), Forward(o),
           UNCHANGED <<now, inner, answered, awaited, late>>
    PROVE  LateOK(o)'
<1>1. Open(o)' => Open(o)
  BY DEF GoesOn, Forward, Open, Taken
<1>2. (Overdue(o, now)' => Overdue(o, now)) /\ (Awaited(o)' <=> Awaited(o))
  BY DEF Overdue, Awaited, Forward
<1>3. QED
  BY <1>1, <1>2 DEF LateOK, GoesOn

LEMMA TickLate ==
    ASSUME KnockInv, NEW o \in Order, LateOK(o), Tick
    PROVE  LateOK(o)'
<1>1. UNCHANGED <<inner, stage, answered, awaited>> /\ now' = now + 1
  BY DEF Tick, risk, external
<1>2. (Overdue(o, now)' <=> Overdue(o, now + 1)) /\ (Awaited(o)' <=> Awaited(o))
  BY <1>1 DEF Overdue, Awaited
<1>3. late' = late \cup {p \in Order : Overdue(p, now + 1)}
  BY DEF Tick
<1>4. QED
  BY <1>1, <1>2, <1>3 DEF LateOK, Open

(* Steps of the broker. *)
LEMMA FlaggedLate ==
    ASSUME AllFlagged, KnockInv, NEW o \in Order, LateOK(o), FlaggedOnly(o, inner'[o]),
           inner'[o].finish_flag => inner[o].finish_flag \/ Finished(o),
           UNCHANGED <<now, stage[o], awaited, late>>, answered \subseteq answered'
    PROVE  LateOK(o)'
<1>1. (Overdue(o, now)' => Overdue(o, now)) /\ (Awaited(o)' <=> Awaited(o))
  BY DEF Overdue, Awaited, FlaggedOnly
<1>2. Finished(o) /\ Open(o) => o \in late
  BY FinishedOrderIsLate
<1>3. QED
  BY <1>1, <1>2 DEF LateOK, FlaggedOnly, Open

LEMMA PassOrderLate ==
    ASSUME AllFlagged, KnockInv, NEW o \in Order, LateOK(o), NEW m \in Message, PassOrder(m)
    PROVE  LateOK(o)'
<1>1. UNCHANGED <<now, answered, awaited, late>> /\ TypeOK
  BY DEF PassOrder, ghosts, KnockInv
<1>2. CASE o[1] = m
  <2>1. inner'[o] = PassedOrder(o)
    BY <1>1, <1>2, PassOrderEffect DEF AllFlagged
  <2>2. /\ inner'[o].create_time = now /\ inner'[o].withdraw_time = 0
        /\ ~inner'[o].withdraw_succeed /\ ~inner'[o].finish_flag
    BY <2>1, PassedOrderFields
  <2>3. now \in Nat /\ kOrderTimeoutMS \in Nat
    BY <1>1, NumbersAssumption DEF TypeOK
  <2>4. ~Overdue(o, now)'
    BY <1>1, <2>2, <2>3 DEF Overdue
  <2>5. QED
    BY <2>2, <2>4 DEF LateOK
<1>3. CASE o[1] # m
  <2>1. stage'[o] = stage[o] /\ inner'[o] = WithErased(m)[o]
    BY <1>1, <1>3, PassOrderEffect
  <2>2. /\ FlaggedOnly(o, inner'[o])
        /\ inner'[o].finish_flag => inner[o].finish_flag \/ Finished(o)
    BY <1>1, <2>1, WithErasedEffect
  <2>3. QED
    BY <1>1, <2>1, <2>2, FlaggedLate
<1>4. QED
  BY <1>2, <1>3

LEMMA RefuseOrderLate ==
    ASSUME AllFlagged, KnockInv, NEW o \in Order, LateOK(o), NEW m \in Message, RefuseOrder(m)
    PROVE  LateOK(o)'
<1>1. UNCHANGED <<now, stage, answered, awaited, late>> /\ inner'[o] = WithErased(m)[o] /\ TypeOK
  BY DEF RefuseOrder, external, ghosts, KnockInv
<1>2. /\ FlaggedOnly(o, inner'[o])
      /\ inner'[o].finish_flag => inner[o].finish_flag \/ Finished(o)
  BY <1>1, WithErasedEffect
<1>3. QED
  BY <1>1, <1>2, FlaggedLate

LEMMA RequestWithdrawLate ==
    ASSUME KnockInv, NEW o \in Order, LateOK(o), NEW t \in WithdrawTarget, RequestWithdraw(t)
    PROVE  LateOK(o)'
<1>1. /\ TypeOK /\ HandleTradeWithdrawReq(t)
      /\ UNCHANGED <<now, stage, answered, late>>
      /\ awaited' = awaited \cup {t}
  BY DEF RequestWithdraw, KnockInv
<1>2. /\ inner'[o].create_time = inner[o].create_time
      /\ inner'[o].withdraw_time = IF o \in Targets(t) THEN now ELSE inner[o].withdraw_time
      /\ inner'[o].withdraw_succeed <=> inner[o].withdraw_succeed
      /\ inner'[o].finish_flag <=> inner[o].finish_flag
  BY <1>1, WithdrawReqEffect
<1>3. now \in Nat /\ kOrderTimeoutMS \in Nat
  BY <1>1, NumbersAssumption DEF TypeOK
<1>4. Awaited(o) => Awaited(o)'
  BY <1>1 DEF Awaited
<1>5. o \in Targets(t) => Awaited(o)'
  BY <1>1, TargetsFound DEF Awaited, KnockInv
<1>6. Overdue(o, now)' /\ Open(o) => Overdue(o, now)
  BY <1>1, <1>2, <1>3 DEF Overdue, LateOK
<1>7. QED
  BY <1>1, <1>2, <1>4, <1>5, <1>6 DEF LateOK, Open

LEMMA OrderRepLate ==
    ASSUME NoneAlike, AllFlagged, KnockInv, NEW o \in Order, LateOK(o),
           NEW n \in notices, n.type = "order", Deliver(n)
    PROVE  LateOK(o)'
<1>1. n.message \in Message /\ n.accepted \in SUBSET OrdersOf(n.message) /\ TypeOK
  BY NoticeFacts DEF KnockInv, TypeOK, NoticesOK
<1>2. /\ HandleTradeOrderRep(n.message, n.accepted)
      /\ UNCHANGED <<now, stage, awaited, late>>
      /\ answered \subseteq answered'
  BY DEF Deliver, Noted
<1>3. ReplyApplied(n.message, n.accepted)
  BY <1>1, <1>2, OrderRepEffect
<1>4. CASE o \in n.accepted /\ o \in book
  <2> DEFINE i == Replayed(o, n.accepted)
  <2>1. /\ inner'[o].create_time = inner[o].create_time
        /\ inner'[o].withdraw_time = inner[o].withdraw_time
        /\ inner'[o].withdraw_succeed =>
             inner[o].withdraw_succeed \/ knock_first_orders_[o].withdrawn
        /\ inner'[o].finish_flag => inner[o].finish_flag \/ IsFinished(o, i)
    BY <1>3, <1>4 DEF ReplyApplied
  <2>2. MemoryOK(o)
    BY DEF KnockInv, BrokerOK
  <2>3. /\ i \in InnerType
        /\ i.create_time = inner[o].create_time
        /\ i.withdraw_time = inner[o].withdraw_time
        /\ i.acked
        /\ i.matched = inner[o].matched \cup knock_first_orders_[o].shares
        /\ i.withdraw_succeed <=>
             inner[o].withdraw_succeed \/ knock_first_orders_[o].withdrawn
        /\ i.finish_flag <=> inner[o].finish_flag
    BY <1>1, <1>4, ReplayedFields
  <2>4. i.matched \subseteq Shares(o, filled[o]) /\ (i.withdraw_succeed => stage[o] = "done")
    BY <2>2, <2>3 DEF MemoryOK, LateOK
  <2> HIDE DEF i
  <2>5. IsFinished(o, i) /\ Open(o) => o \in late
    BY <2>3, <2>4, FinishedIsLate
  <2>6. (Overdue(o, now)' => Overdue(o, now)) /\ (Awaited(o)' <=> Awaited(o))
    BY <1>2, <2>1 DEF Overdue, Awaited
  <2>7. QED
    BY <1>2, <2>1, <2>2, <2>5, <2>6 DEF LateOK, MemoryOK, Open
<1>5. CASE ~(o \in n.accepted /\ o \in book)
  <2>1. inner'[o] = inner[o]
    BY <1>3, <1>5 DEF ReplyApplied
  <2>2. (Overdue(o, now)' => Overdue(o, now)) /\ (Awaited(o)' <=> Awaited(o))
    BY <1>2, <2>1 DEF Overdue, Awaited
  <2>3. QED
    BY <1>2, <2>1, <2>2 DEF LateOK, Open
<1>6. QED
  BY <1>4, <1>5

LEMMA WithdrawRepLate ==
    ASSUME KnockInv, WithdrawnOK, NEW o \in Order, LateOK(o), NEW n \in notices,
           n.type = "withdraw", Deliver(n)
    PROVE  LateOK(o)'
<1>1. n.target \in WithdrawTarget /\ n.succeeded \in BOOLEAN /\ TypeOK /\ BrokerOK
  BY NoticeFacts DEF KnockInv, TypeOK
<1>2. /\ HandleTradeWithdrawRep(n.target, n.succeeded)
      /\ UNCHANGED <<now, stage, late, answered>>
      /\ awaited' = awaited \ {n.target}
  BY DEF Deliver, Noted
<1>3. /\ inner'[o].create_time = inner[o].create_time
      /\ inner'[o].withdraw_time = inner[o].withdraw_time
      /\ inner'[o].withdraw_succeed <=>
           \/ inner[o].withdraw_succeed
           \/ o \in Targets(n.target) /\ (Names(n.target) => n.succeeded)
      /\ inner'[o].finish_flag <=> inner[o].finish_flag
  BY <1>1, <1>2, WithdrawRepEffect
<1>4. ASSUME o \in Targets(n.target)
      PROVE  stage[o] = "done"
  <2>1. o \in Meant(n.target) /\ inner[o].acked
    BY <1>1, <1>4, TargetsFound
  <2>2. ~Open(o)
    BY <1>4, <2>1 DEF WithdrawnOK
  <2>3. Taken(o)
    BY <1>1, <2>1 DEF BrokerOK, MemoryOK
  <2>4. QED
    BY <2>2, <2>3 DEF Open, Taken
<1>5. Overdue(o, now)' => Overdue(o, now)
  BY <1>2, <1>3 DEF Overdue, Awaited
<1>6. Awaited(o) /\ Open(o) => Awaited(o)'
  BY <1>2 DEF Awaited, WithdrawnOK
<1>7. QED
  BY <1>2, <1>3, <1>4, <1>5, <1>6 DEF LateOK, Open

LEMMA KnockLate ==
    ASSUME AllFlagged, KnockInv, NEW o \in Order, LateOK(o), NEW n \in notices, n.type = "knock",
           Deliver(n)
    PROVE  LateOK(o)'
<1>1. /\ n.order \in Order /\ n.shares \in SUBSET (Order \X Nat) /\ n.withdrawn \in BOOLEAN
      /\ TypeOK /\ BrokerOK /\ KnockNoticeOK(n)
  BY NoticeFacts DEF KnockInv, TypeOK, NoticesOK
<1>2. /\ HandleTradeKnock(n.order, n.shares, n.withdrawn)
      /\ UNCHANGED <<now, stage, late, answered, awaited>>
  BY DEF Deliver, Noted
<1>3. CASE CacheKnock(n.order, n.shares, n.withdrawn)
  <2>1. inner' = inner
    BY <1>3 DEF CacheKnock
  <2>2. QED
    BY <1>2, <2>1 DEF LateOK, Open, Overdue, Awaited
<1>4. CASE ApplyKnock(n.order, n.shares, n.withdrawn)
  <2>1. KnockApplied(n.order, n.shares, n.withdrawn)
    BY <1>1, <1>4, ApplyKnockEffect
  <2>2. CASE o # n.order
    BY <1>2, <2>1, <2>2, FlaggedLate DEF KnockApplied
  <2>3. CASE o = n.order
    <3> DEFINE i == Knocked(o, n.shares, n.withdrawn)
    <3>1. /\ i \in InnerType
          /\ i.create_time = inner[o].create_time
          /\ i.acked <=> inner[o].acked
          /\ i.matched = inner[o].matched \cup n.shares
          /\ i.withdraw_time = inner[o].withdraw_time
          /\ i.withdraw_succeed <=> inner[o].withdraw_succeed \/ n.withdrawn
          /\ i.finish_flag <=> inner[o].finish_flag
      <4>1. TypeOK /\ n.shares \in SUBSET (Order \X Nat) /\ n.withdrawn \in BOOLEAN
        BY <1>1
      <4>2. QED
        BY <4>1, KnockedFields, Zenon
    <3>2. i.matched \subseteq Shares(o, filled[o]) /\ (i.withdraw_succeed => stage[o] = "done")
      <4>1. MemoryOK(o)
        BY <1>1 DEF BrokerOK
      <4>2. inner[o].withdraw_succeed => stage[o] = "done"
        BY DEF LateOK
      <4>3. QED
        BY <1>1, <2>3, <3>1, <4>1, <4>2 DEF MemoryOK, KnockNoticeOK
    <3>3. /\ inner'[o].create_time = inner[o].create_time
          /\ inner'[o].withdraw_time = inner[o].withdraw_time
          /\ inner'[o].withdraw_succeed <=> inner[o].withdraw_succeed \/ n.withdrawn
          /\ inner'[o].finish_flag => inner[o].finish_flag \/ IsFinished(o, i)
      BY <2>1, <2>3 DEF KnockApplied
    <3> HIDE DEF i
    <3>4. IsFinished(o, i) /\ Open(o) => o \in late
      BY <3>1, <3>2, FinishedIsLate
    <3>5. (Overdue(o, now)' => Overdue(o, now)) /\ (Awaited(o)' <=> Awaited(o))
      BY <1>2, <3>3 DEF Overdue, Awaited
    <3>6. QED
      BY <1>1, <1>2, <2>3, <3>3, <3>4, <3>5 DEF LateOK, KnockNoticeOK, Open
  <2>4. QED
    BY <2>2, <2>3
<1>5. QED
  BY <1>2, <1>3, <1>4 DEF HandleTradeKnock

LEMMA NextLate ==
    ASSUME NoneAlike, AllFlagged, KnockInv, WithdrawnOK, NEW o \in Order, LateOK(o), [Next]_vars
    PROVE  LateOK(o)'
<1> TypeOK /\ CounterOK
  BY DEF KnockInv
<1>1. CASE \E m \in Message : PassOrder(m)
  BY <1>1, PassOrderLate
<1>2. CASE \E m \in Message : RefuseOrder(m)
  BY <1>2, RefuseOrderLate
<1>3. CASE \E t \in WithdrawTarget : RequestWithdraw(t)
  BY <1>3, RequestWithdrawLate
<1>4. CASE \E n \in notices : Deliver(n)
  BY <1>4, OrderRepLate, WithdrawRepLate, KnockLate DEF Deliver, Noted
<1>5. CASE \E n \in notices : Lose(n)
  BY <1>5, QuietGoesOn, QuietForward, CounterKeepsLate DEF Lose, risk, ghosts
<1>6. CASE Tick
  BY <1>6, TickLate
<1>7. CASE \E m \in Message : \E accepted \in SUBSET OrdersOf(m) : Answer(m, accepted)
  BY <1>7, AnswerGoesOn, AnswerForward, CounterKeepsLate DEF Answer, risk, ghosts
<1>8. CASE \E p \in Order : \E n \in 1 .. Volume(p) : Fill(p, n)
  BY <1>8, FillGoesOn, FillForward, CounterKeepsLate DEF Fill, risk, ghosts
<1>9. CASE \E t \in withdraws, succeeded \in BOOLEAN : AnswerWithdraw(t, succeeded)
  BY <1>9, AnswerWithdrawGoesOn, AnswerWithdrawForward, CounterKeepsLate
     DEF AnswerWithdraw, risk, ghosts
<1>10. CASE UNCHANGED vars
  BY <1>10, QuietGoesOn, QuietForward, CounterKeepsLate DEF vars, external, risk, ghosts
<1>11. QED
  BY <1>1, <1>2, <1>3, <1>4, <1>5, <1>6, <1>7, <1>8, <1>9, <1>10 DEF Next, SendTradeOrderReq

(* The counter answers a withdraw when it is done, or when nothing is live. *)
LEMMA AnsweredIsWithdrawn ==
    ASSUME WithdrawsSucceed, KnockInv, WithdrawnOK, NEW t \in withdraws,
           NEW succeeded \in BOOLEAN, AnswerWithdraw(t, succeeded)
    PROVE  WithdrawnOK'
<1>1. TypeOK /\ \A o \in Order : GoesOn(o)
  BY AnswerWithdrawGoesOn DEF KnockInv
<1>2. PICK reply : reply = WithdrawNotice(t, succeeded)
  OBVIOUS
<1>3. reply.target = t
  BY <1>2 DEF WithdrawNotice
<1>4. ASSUME NEW n \in notices', n.type = "withdraw"
      PROVE  n \in notices \/ n = reply
  <2>1. n \notin {KnockNotice(o, {}, TRUE) : o \in IF succeeded THEN Withdrawn(t) ELSE {}}
    BY <1>4 DEF KnockNotice
  <2>2. QED
    BY <1>2, <2>1 DEF AnswerWithdraw
<1>5. \A o \in Meant(t) : ~Open(o)'
  <2>1. succeeded \/ Withdrawn(t) = {}
    BY DEF AnswerWithdraw, MayAnswer, WithdrawsSucceed
  <2>2. SUFFICES ASSUME NEW o \in Meant(t)
                 PROVE  ~Open(o)'
    OBVIOUS
  <2>3. t \in WithdrawTarget /\ o \in Order /\ ~Unanswered(o)
    BY <1>1, AnswerWithdrawEffect, TargetFacts DEF KnockInv, NoticesOK
  <2>4. stage'[o] = IF succeeded /\ o \in Withdrawn(t) THEN "done" ELSE stage[o]
    BY <1>1, <2>3, AnswerWithdrawEffect
  <2>5. o \in Withdrawn(t) <=> stage[o] = "live"
    BY DEF Withdrawn
  <2>6. QED
    BY <2>1, <2>3, <2>4, <2>5 DEF Open, Unanswered
<1>6. QED
  BY <1>1, <1>3, <1>4, <1>5, WithdrawnStays DEF WithdrawnOK

LEMMA NextWithdrawn ==
    ASSUME WithdrawsSucceed, KnockInv, WithdrawnOK, [Next]_vars
    PROVE  WithdrawnOK'
<1>1. TypeOK /\ CounterOK
  BY DEF KnockInv
<1>2. ASSUME \A o \in Order : GoesOn(o),
             \A n \in notices' : n \in notices \/ n.type \in {"order", "knock"}
      PROVE  WithdrawnOK'
  BY <1>2, WithdrawnStays DEF WithdrawnOK
<1>3. CASE \E m \in Message : PassOrder(m)
  BY <1>1, <1>2, <1>3, PassOrderGoesOn DEF PassOrder
<1>4. CASE UNCHANGED <<stage, filled>> /\ notices' \subseteq notices
  BY <1>1, <1>2, <1>4, QuietGoesOn
<1>5. CASE \E m \in Message : \E accepted \in SUBSET OrdersOf(m) : Answer(m, accepted)
  BY <1>1, <1>2, <1>5, AnswerGoesOn DEF Answer, OrderNotice
<1>6. CASE \E o \in Order : \E n \in 1 .. Volume(o) : Fill(o, n)
  <2>1. PICK o \in Order : \E n \in 1 .. Volume(o) : Fill(o, n)
    BY <1>6
  <2>2. PICK n \in 1 .. Volume(o) : Fill(o, n)
    BY <2>1
  <2>3. \A p \in Order : GoesOn(p)
    BY <1>1, <2>2, FillGoesOn
  <2>4. \A k \in notices' : k \in notices \/ k.type = "knock"
    BY <2>2 DEF Fill, KnockNotice
  <2>5. QED
    BY <1>2, <2>3, <2>4
<1>7. CASE \E t \in withdraws, succeeded \in BOOLEAN : AnswerWithdraw(t, succeeded)
  BY <1>7, AnsweredIsWithdrawn
<1>8. (\E m \in Message : RefuseOrder(m)) \/ (\E t \in WithdrawTarget : RequestWithdraw(t))
        \/ (\E n \in notices : Deliver(n) \/ Lose(n)) \/ Tick \/ UNCHANGED vars
        => UNCHANGED <<stage, filled>> /\ notices' \subseteq notices
  BY DEF RefuseOrder, RequestWithdraw, Deliver, Noted, Lose, Tick, vars, external
<1>9. QED
  BY <1>3, <1>4, <1>5, <1>6, <1>7, <1>8 DEF Next, SendTradeOrderReq

LEMMA InitLate == Init => GivenUpOnlyLate
<1> SUFFICES ASSUME Init
             PROVE  GivenUpOnlyLate
  OBVIOUS
<1>1. WithdrawnOK
  BY DEF Init, WithdrawnOK
<1>2. ASSUME NEW o \in Order
      PROVE  LateOK(o)
  <2>1. stage[o] = "unsent" /\ ~inner[o].withdraw_succeed /\ ~inner[o].finish_flag
    BY DEF Init, NewInnerOrder
  <2>2. QED
    BY <2>1 DEF LateOK, Overdue, Open
<1>3. QED
  BY <1>1, <1>2 DEF GivenUpOnlyLate

LEMMA NextGivenUp ==
    NoneAlike /\ AllFlagged /\ WithdrawsSucceed /\ KnockInv /\ GivenUpOnlyLate /\ [Next]_vars
      => GivenUpOnlyLate'
<1> SUFFICES ASSUME NoneAlike, AllFlagged, WithdrawsSucceed, KnockInv, GivenUpOnlyLate, [Next]_vars
             PROVE  GivenUpOnlyLate'
  OBVIOUS
<1>1. WithdrawnOK'
  BY NextWithdrawn DEF GivenUpOnlyLate
<1>2. \A o \in Order : LateOK(o)'
  BY NextLate DEF GivenUpOnlyLate
<1>3. QED
  BY <1>1, <1>2 DEF GivenUpOnlyLate

(* What a check lets pass crosses nothing that stays in the book. *)
LEMMA PassedCrossesNothing ==
    ASSUME KnockInv, NEW m \in Message, PassOrder(m), NEW o \in OrdersOf(m),
           NEW p \in Order, p[1] # m, Cross(o, p)
    PROVE  p \in book => inner'[p].finish_flag
<1> SUFFICES ASSUME p \in book
             PROVE  inner'[p].finish_flag
  OBVIOUS
<1>1. \A q \in OrdersOf(m) : Passes(q)
  BY DEF PassOrder
<1>2. p \in Crossing(o) /\ \A q \in Crossing(o) : Finished(q)
  BY <1>1 DEF Crossing, Passes
<1>3. p \in Erased(o)
  BY <1>2 DEF Erased
<1>4. o \in Checked(m)
  BY <1>1 DEF Checked
<1>5. p \in AllErased(m)
  BY <1>3, <1>4 DEF AllErased
<1>6. TypeOK /\ inner'[p] = WithErased(m)[p]
  BY PassOrderEffect DEF KnockInv
<1>7. QED
  BY <1>5, <1>6, WithErasedEffect

(* So an open order that a passed one could match was given up. *)
LEMMA PassedMeetsGivenUp ==
    ASSUME NoneAlike, AllFlagged, WithdrawsSucceed, KnockInv, GivenUpOnlyLate, NEW m \in Message,
           PassOrder(m), NEW o \in OrdersOf(m), NEW p \in Order, p[1] # m, Cross(o, p), Open(p)
    PROVE  GaveUp(p)'
<1>1. BookOK(p) /\ TypeOK
  BY DEF KnockInv, BrokerOK
<1>2. p \in book \/ inner[p].finish_flag
  BY <1>1 DEF BookOK, Open, Taken, AllFlagged
<1>3. FlaggedOnly(p, inner'[p]) /\ stage'[p] = stage[p]
  BY <1>1, PassOrderEffect, WithErasedEffect
<1>4. inner'[p].finish_flag
  BY <1>2, <1>3, PassedCrossesNothing DEF FlaggedOnly
<1>5. LateOK(p)'
  BY PassOrderLate DEF GivenUpOnlyLate
<1>6. QED
  BY <1>3, <1>4, <1>5 DEF LateOK, Open, GaveUp

(* Every other step leaves given up what is, and opens no order. *)
StaysGivenUp(o) ==
    /\ Open(o)' => Open(o)
    /\ GaveUp(o) => GaveUp(o)'

LEMMA QuietStaysGivenUp ==
    ASSUME UNCHANGED stage, NEW o \in Order, inner[o].finish_flag => inner'[o].finish_flag,
           late \subseteq late'
    PROVE  StaysGivenUp(o)
BY DEF StaysGivenUp, Open, GaveUp

LEMMA CounterStaysGivenUp ==
    ASSUME NEW o \in Order, GoesOn(o), Forward(o), UNCHANGED <<inner, late>>
    PROVE  StaysGivenUp(o)
BY DEF StaysGivenUp, GoesOn, Forward, Open, Taken, GaveUp

LEMMA DeliverKeepsFlag ==
    ASSUME NoneAlike, KnockInv, NEW o \in Order, NEW n \in notices, Deliver(n)
    PROVE  inner[o].finish_flag => inner'[o].finish_flag
<1>1. TypeOK /\ BrokerOK /\ NoticesOK /\ n \in NoticeType
  BY DEF KnockInv, TypeOK
<1>2. CASE n.type = "order"
  <2>1. n.message \in Message /\ n.accepted \in SUBSET OrdersOf(n.message)
    BY <1>1, <1>2, NoticeFacts DEF NoticesOK
  <2>2. ReplyApplied(n.message, n.accepted)
    BY <1>1, <1>2, <2>1, OrderRepEffect DEF Deliver, Noted
  <2>3. QED
    BY <2>2 DEF ReplyApplied
<1>3. CASE n.type = "withdraw"
  BY <1>1, <1>3, NoticeFacts, WithdrawRepEffect DEF Deliver, Noted
<1>4. CASE n.type = "knock"
  <2>1. n.order \in Order /\ n.shares \in SUBSET (Order \X Nat) /\ n.withdrawn \in BOOLEAN
    BY <1>1, <1>4, NoticeFacts
  <2>2. CASE CacheKnock(n.order, n.shares, n.withdrawn)
    BY <2>2 DEF CacheKnock
  <2>3. CASE ApplyKnock(n.order, n.shares, n.withdrawn)
    <3>1. KnockApplied(n.order, n.shares, n.withdrawn)
      BY <1>1, <2>1, <2>3, ApplyKnockEffect
    <3>2. QED
      BY <3>1 DEF KnockApplied, FlaggedOnly
  <2>4. QED
    BY <1>4, <2>2, <2>3 DEF Deliver, HandleTradeKnock
<1>5. QED
  BY <1>1, <1>2, <1>3, <1>4, NoticeFacts

LEMMA NextStaysGivenUp ==
    ASSUME NoneAlike, KnockInv, NEW o \in Order, [Next]_vars,
           \A m \in Message : ~PassOrder(m)
    PROVE  StaysGivenUp(o)
<1> TypeOK /\ CounterOK
  BY DEF KnockInv
<1>2. CASE \E m \in Message : RefuseOrder(m)
  <2>1. PICK m \in Message : RefuseOrder(m)
    BY <1>2
  <2>2. UNCHANGED <<stage, late>> /\ inner'[o] = WithErased(m)[o]
    BY <2>1 DEF RefuseOrder, external, ghosts
  <2>3. inner[o].finish_flag => inner'[o].finish_flag
    BY <2>2, WithErasedEffect DEF FlaggedOnly
  <2>4. QED
    BY <2>2, <2>3, QuietStaysGivenUp
<1>3. CASE \E t \in WithdrawTarget : RequestWithdraw(t)
  BY <1>3, WithdrawReqEffect, QuietStaysGivenUp DEF RequestWithdraw, ghosts
<1>4. CASE \E n \in notices : Deliver(n)
  BY <1>4, DeliverKeepsFlag, QuietStaysGivenUp DEF Deliver, Noted
<1>5. CASE \E n \in notices : Lose(n)
  BY <1>5, QuietStaysGivenUp DEF Lose, risk, ghosts
<1>6. CASE Tick
  BY <1>6, QuietStaysGivenUp DEF Tick, risk, external
<1>7. CASE \E m \in Message : \E accepted \in SUBSET OrdersOf(m) : Answer(m, accepted)
  BY <1>7, AnswerGoesOn, AnswerForward, CounterStaysGivenUp DEF Answer, risk, ghosts
<1>8. CASE \E p \in Order : \E n \in 1 .. Volume(p) : Fill(p, n)
  BY <1>8, FillGoesOn, FillForward, CounterStaysGivenUp DEF Fill, risk, ghosts
<1>9. CASE \E t \in withdraws, succeeded \in BOOLEAN : AnswerWithdraw(t, succeeded)
  BY <1>9, AnswerWithdrawGoesOn, AnswerWithdrawForward, CounterStaysGivenUp
     DEF AnswerWithdraw, risk, ghosts
<1>10. CASE UNCHANGED vars
  BY <1>10, QuietStaysGivenUp DEF vars, external, risk, ghosts
<1>11. QED
  BY <1>2, <1>3, <1>4, <1>5, <1>6, <1>7, <1>8, <1>9, <1>10 DEF Next, SendTradeOrderReq

LEMMA NextNoSelfKnock ==
    NoneAlike /\ NoneCrossesItself /\ AllFlagged /\ WithdrawsSucceed /\ KnockInv /\ GivenUpOnlyLate
      /\ NoSelfKnock /\ [Next]_vars => NoSelfKnock'
<1> SUFFICES ASSUME NoneAlike, NoneCrossesItself, AllFlagged, WithdrawsSucceed, KnockInv,
                    GivenUpOnlyLate, NoSelfKnock, [Next]_vars,
                    NEW o \in Order, NEW p \in Order, Open(o)', Open(p)', CanMatch(o, p)
             PROVE  GaveUp(o)' \/ GaveUp(p)'
  BY DEF NoSelfKnock, CanMatch
<1>1. CASE \A m \in Message : ~PassOrder(m)
  BY <1>1, NextStaysGivenUp DEF StaysGivenUp, NoSelfKnock
<1>2. CASE \E m \in Message : PassOrder(m)
  <2>1. PICK m \in Message : PassOrder(m)
    BY <1>2
  <2>2. TypeOK /\ late' = late
    BY <2>1 DEF KnockInv, PassOrder, ghosts
  <2>3. \A q \in Order : q[1] = m => q \in OrdersOf(m)
    BY OrdersOfFacts
  <2>4. \A q \in Order : q[1] # m =>
          stage'[q] = stage[q] /\ (inner[q].finish_flag => inner'[q].finish_flag)
    BY <2>1, <2>2, PassOrderEffect, WithErasedEffect DEF FlaggedOnly
  <2>5. Cross(o, p) /\ Cross(p, o)
    <3>1. BsFlag(o) = Side(o) /\ BsFlag(p) = Side(p)
      BY OrderFacts DEF AllFlagged, Flagged
    <3>2. QED
      BY <3>1, OrderFacts DEF CanMatch, Cross
  <2>6. CASE o[1] = m /\ p[1] = m
    BY <2>6 DEF NoneCrossesItself
  <2>7. CASE o[1] = m /\ p[1] # m
    BY <2>1, <2>3, <2>4, <2>5, <2>7, PassedMeetsGivenUp DEF Open
  <2>8. CASE o[1] # m /\ p[1] = m
    BY <2>1, <2>3, <2>4, <2>5, <2>8, PassedMeetsGivenUp DEF Open
  <2>9. CASE o[1] # m /\ p[1] # m
    BY <2>2, <2>4, <2>9 DEF NoSelfKnock, Open, GaveUp
  <2>10. QED
    BY <2>6, <2>7, <2>8, <2>9
<1>3. QED
  BY <1>1, <1>2

(* Two orders that could match each other are never both open unless the      *)
(* broker gave up one of them, its reply or the answer to its withdraw not   *)
(* having come in time: for messages of one side with no equal orders and   *)
(* every flag set, when the counter withdraws what is live.                 *)
THEOREM NoSelfKnockHolds ==
    NoneAlike /\ NoneCrossesItself /\ AllFlagged /\ WithdrawsSucceed => (Spec => []NoSelfKnock)
<1> SUFFICES ASSUME NoneAlike, NoneCrossesItself, AllFlagged, WithdrawsSucceed
             PROVE  Spec => []NoSelfKnock
  OBVIOUS
<1>1. Init => GivenUpOnlyLate /\ NoSelfKnock
  <2>1. Init => NoSelfKnock
    BY DEF Init, NoSelfKnock, Open
  <2>2. QED
    BY <2>1, InitLate
<1>2. KnockInv /\ GivenUpOnlyLate /\ NoSelfKnock /\ [Next]_vars
        => GivenUpOnlyLate' /\ NoSelfKnock'
  BY NextGivenUp, NextNoSelfKnock
<1>3. Spec => []KnockInv
  BY Invariance
<1>4. QED
  BY <1>1, <1>2, <1>3, PTL DEF Spec

--------------------------------------------------------------------------------
(* Nothing is forgotten: what the counter has done is known, or a report of it *)
(* is under way.                                                           *)

LEMMA KnowsNoLess ==
    ASSUME NEW o \in Order,
           inner[o].matched \subseteq inner'[o].matched,
           inner[o].withdraw_succeed => inner'[o].withdraw_succeed,
           knock_first_orders_[o].shares \subseteq knock_first_orders_'[o].shares,
           knock_first_orders_[o].withdrawn => knock_first_orders_'[o].withdrawn,
           KnocksUnderWay(o) \subseteq notices'
    PROVE  KnownShares(o) \subseteq KnownShares(o)' /\ (EndKnown(o) => EndKnown(o)')
<1>1. KnocksUnderWay(o) \subseteq KnocksUnderWay(o)'
  BY DEF KnocksUnderWay
<1>2. QED
  BY <1>1 DEF KnownShares, EndKnown

LEMMA NewsStays ==
    ASSUME NEW o \in Order, NewsOK(o),
           KnownShares(o) \subseteq KnownShares(o)', EndKnown(o) => EndKnown(o)',
           inner[o].finish_flag => inner'[o].finish_flag,
           filled'[o] = filled[o],
           stage'[o] = "done" => stage[o] = "done",
           ~Unanswered(o)' => AnswerKnown(o)'
    PROVE  NewsOK(o)'
BY DEF NewsOK

(* Steps of the broker on requests know no less. *)
LEMMA FlaggedOnlyNews ==
    ASSUME NEW o \in Order, NewsOK(o), FlaggedOnly(o, inner'[o]),
           UNCHANGED <<knock_first_orders_, stage[o], filled, notices, answered>>
    PROVE  NewsOK(o)'
<1>1. KnownShares(o) \subseteq KnownShares(o)' /\ (EndKnown(o) => EndKnown(o)')
  BY KnowsNoLess DEF FlaggedOnly, KnocksUnderWay
<1>2. ~Unanswered(o)' => AnswerKnown(o)'
  BY DEF NewsOK, Unanswered, AnswerKnown
<1>3. QED
  BY <1>1, <1>2, NewsStays DEF FlaggedOnly

LEMMA PassOrderNews ==
    ASSUME KnockInv, NEW o \in Order, NewsOK(o), NEW m \in Message, PassOrder(m)
    PROVE  NewsOK(o)'
<1>1. TypeOK /\ CounterOK /\ UNCHANGED <<knock_first_orders_, filled, notices, answered>>
  BY DEF KnockInv, PassOrder, ghosts
<1>2. CASE o[1] = m
  <2>1. stage[o] = "unsent" /\ stage'[o] = "sent"
    BY <1>1, <1>2, PassOrderEffect
  <2>2. filled'[o] = 0
    BY <1>1, <2>1 DEF CounterOK, Taken
  <2>3. Shares(o, 0) = {}
    BY DEF Shares
  <2>4. QED
    BY <2>1, <2>2, <2>3 DEF NewsOK, Unanswered
<1>3. CASE o[1] # m
  BY <1>1, <1>3, PassOrderEffect, WithErasedEffect, FlaggedOnlyNews
<1>4. QED
  BY <1>2, <1>3

LEMMA RefuseOrderNews ==
    ASSUME KnockInv, NEW o \in Order, NewsOK(o), NEW m \in Message, RefuseOrder(m)
    PROVE  NewsOK(o)'
<1>1. TypeOK /\ inner'[o] = WithErased(m)[o]
  BY DEF KnockInv, RefuseOrder
<1>2. FlaggedOnly(o, inner'[o])
  BY <1>1, WithErasedEffect
<1>3. QED
  BY <1>2, FlaggedOnlyNews DEF RefuseOrder, external, ghosts

LEMMA RequestWithdrawNews ==
    ASSUME KnockInv, NEW o \in Order, NewsOK(o), NEW t \in WithdrawTarget, RequestWithdraw(t)
    PROVE  NewsOK(o)'
<1>1. /\ TypeOK /\ HandleTradeWithdrawReq(t)
      /\ UNCHANGED <<knock_first_orders_, stage, filled, notices, answered>>
  BY DEF KnockInv, RequestWithdraw, HandleTradeWithdrawReq, ghosts
<1>2. /\ inner'[o].matched = inner[o].matched
      /\ inner'[o].withdraw_succeed <=> inner[o].withdraw_succeed
      /\ inner'[o].finish_flag <=> inner[o].finish_flag
  BY <1>1, WithdrawReqEffect
<1>3. KnownShares(o) \subseteq KnownShares(o)' /\ (EndKnown(o) => EndKnown(o)')
  BY <1>1, <1>2, KnowsNoLess DEF KnocksUnderWay
<1>4. ~Unanswered(o)' => AnswerKnown(o)'
  BY <1>1 DEF NewsOK, Unanswered, AnswerKnown
<1>5. QED
  BY <1>1, <1>2, <1>3, <1>4, NewsStays

(* Steps of the counter report what they do. *)
LEMMA AnswerNews ==
    ASSUME KnockInv, NEW o \in Order, NewsOK(o), NEW m \in Message,
           NEW accepted \in SUBSET OrdersOf(m), Answer(m, accepted)
    PROVE  NewsOK(o)'
<1>1. /\ UNCHANGED <<inner, knock_first_orders_, filled, answered>>
      /\ notices' = notices \cup {OrderNotice(m, accepted)}
  BY DEF Answer, risk, ghosts
<1>2. KnownShares(o) \subseteq KnownShares(o)' /\ (EndKnown(o) => EndKnown(o)')
  BY <1>1, KnowsNoLess DEF KnocksUnderWay
<1>3. stage'[o] = "done" => stage[o] = "done"
  BY DEF Answer
<1>4. ~Unanswered(o)' => AnswerKnown(o)'
  <2>1. CASE o \in OrdersOf(m)
    <3>1. PICK n \in notices' : n = OrderNotice(m, accepted)
      BY <1>1
    <3>2. n.type = "order" /\ n.message = m /\ o[1] = m
      BY <2>1, <3>1, OrdersOfFacts DEF OrderNotice
    <3>3. QED
      BY <3>2 DEF AnswerKnown
  <2>2. CASE o \notin OrdersOf(m)
    BY <1>1, <2>2 DEF Answer, NewsOK, Unanswered, AnswerKnown
  <2>3. QED
    BY <2>1, <2>2
<1>5. QED
  BY <1>1, <1>2, <1>3, <1>4, NewsStays

LEMMA FillNews ==
    ASSUME KnockInv, NEW o \in Order, NewsOK(o), NEW p \in Order, NEW n \in 1 .. Volume(p),
           Fill(p, n)
    PROVE  NewsOK(o)'
<1>1. PICK new :
        /\ new = KnockNotice(p, Shares(p, n) \ Shares(p, filled[p]), FALSE)
        /\ notices' = notices \cup {new}
  BY DEF Fill
<1>2. /\ TypeOK /\ CounterOK
      /\ UNCHANGED <<inner, knock_first_orders_, answered>>
  BY DEF KnockInv, Fill, risk, ghosts
<1>3. KnownShares(o) \subseteq KnownShares(o)' /\ (EndKnown(o) => EndKnown(o)')
  BY <1>1, <1>2, KnowsNoLess DEF KnocksUnderWay
<1>4. ~Unanswered(o)' => ~Unanswered(o)
  BY <1>2, FillEffect DEF Unanswered
<1>5. AnswerKnown(o) => AnswerKnown(o)'
  BY <1>1, <1>2 DEF AnswerKnown
<1>6. CASE o # p
  BY <1>2, <1>3, <1>4, <1>5, <1>6, FillEffect, NewsStays DEF NewsOK
<1>7. CASE o = p
  <2>1. new \in KnocksUnderWay(o)' /\ new.shares = Shares(o, n) \ Shares(o, filled[o])
    BY <1>1, <1>7 DEF KnockNotice, KnocksUnderWay
  <2>2. new.shares \subseteq KnownShares(o)'
    BY <2>1 DEF KnownShares
  <2>3. filled'[o] = n /\ (stage'[o] = "done" => n = Volume(o))
    BY <1>2, <1>7, FillEffect
  <2>4. QED
    BY <1>2, <1>3, <1>4, <1>5, <2>1, <2>2, <2>3 DEF NewsOK
<1>8. QED
  BY <1>6, <1>7

LEMMA AnswerWithdrawNews ==
    ASSUME KnockInv, NEW o \in Order, NewsOK(o), NEW t \in withdraws, NEW succeeded \in BOOLEAN,
           AnswerWithdraw(t, succeeded)
    PROVE  NewsOK(o)'
<1>1. /\ TypeOK
      /\ UNCHANGED <<inner, knock_first_orders_, filled, answered>>
      /\ notices \subseteq notices'
  BY DEF KnockInv, AnswerWithdraw, risk, ghosts
<1>2. KnownShares(o) \subseteq KnownShares(o)' /\ (EndKnown(o) => EndKnown(o)')
  BY <1>1, KnowsNoLess DEF KnocksUnderWay
<1>3. stage'[o] = IF succeeded /\ o \in Withdrawn(t) THEN "done" ELSE stage[o]
  BY <1>1, AnswerWithdrawEffect
<1>4. ~Unanswered(o)' => AnswerKnown(o)'
  <2>1. o \in Withdrawn(t) => stage[o] = "live"
    BY <1>1, AnswerWithdrawEffect
  <2>2. QED
    BY <1>1, <1>3, <2>1 DEF NewsOK, Unanswered, AnswerKnown
<1>5. CASE succeeded /\ o \in Withdrawn(t)
  <2>1. PICK new \in notices' : new = KnockNotice(o, {}, TRUE)
    BY <1>5 DEF AnswerWithdraw
  <2>2. new \in KnocksUnderWay(o)' /\ new.withdrawn
    BY <2>1 DEF KnockNotice, KnocksUnderWay
  <2>3. EndKnown(o)'
    BY <2>2 DEF EndKnown
  <2>4. QED
    BY <1>1, <1>2, <1>4, <2>3 DEF NewsOK
<1>6. CASE ~(succeeded /\ o \in Withdrawn(t))
  BY <1>1, <1>2, <1>3, <1>4, <1>6, NewsStays
<1>7. QED
  BY <1>5, <1>6

(* A report that arrives is remembered, or kept until its reply comes. *)
LEMMA DeliverKnown ==
    ASSUME NEW o \in Order, NewsOK(o), NEW n \in notices, Deliver(n)
    PROVE  ~Unanswered(o)' => AnswerKnown(o)'
<1>1. /\ stage' = stage /\ notices' = notices \ {n}
      /\ answered \subseteq answered'
      /\ n.type = "order" => n.message \in answered'
  BY DEF Deliver, Noted
<1>2. SUFFICES ASSUME AnswerKnown(o)
               PROVE  AnswerKnown(o)'
  BY <1>1 DEF NewsOK, Unanswered
<1>3. CASE o[1] \in answered
  BY <1>1, <1>3 DEF AnswerKnown
<1>4. CASE \E k \in notices : k.type = "order" /\ k.message = o[1]
  BY <1>1, <1>4 DEF AnswerKnown
<1>5. QED
  BY <1>2, <1>3, <1>4 DEF AnswerKnown

LEMMA OrderRepNews ==
    ASSUME NoneAlike, KnockInv, NEW o \in Order, NewsOK(o), NEW n \in notices, n.type = "order",
           Deliver(n)
    PROVE  NewsOK(o)'
<1>1. n.message \in Message /\ n.accepted \in SUBSET OrdersOf(n.message) /\ TypeOK
  BY NoticeFacts DEF KnockInv, TypeOK, NoticesOK
<1>2. /\ ReplyApplied(n.message, n.accepted)
      /\ UNCHANGED <<stage, filled>> /\ notices' = notices \ {n}
  BY <1>1, OrderRepEffect DEF Deliver, Noted
<1>3. KnocksUnderWay(o)' = KnocksUnderWay(o)
  BY <1>2 DEF KnocksUnderWay
<1>4. CASE o \in n.accepted /\ o \in book
  <2>1. /\ inner'[o].matched = inner[o].matched \cup knock_first_orders_[o].shares
        /\ inner'[o].withdraw_succeed <=>
             inner[o].withdraw_succeed \/ knock_first_orders_[o].withdrawn
        /\ inner[o].finish_flag => inner'[o].finish_flag
    BY <1>2, <1>4 DEF ReplyApplied
  <2>2. KnownShares(o) \subseteq KnownShares(o)' /\ (EndKnown(o) => EndKnown(o)')
    BY <1>3, <2>1 DEF KnownShares, EndKnown
  <2>3. QED
    BY <1>2, <2>1, <2>2, DeliverKnown, NewsStays
<1>5. CASE ~(o \in n.accepted /\ o \in book)
  <2>1. UNCHANGED <<inner[o], knock_first_orders_[o]>>
    BY <1>2, <1>5 DEF ReplyApplied
  <2>2. KnownShares(o) \subseteq KnownShares(o)' /\ (EndKnown(o) => EndKnown(o)')
    BY <1>3, <2>1 DEF KnownShares, EndKnown
  <2>3. QED
    BY <1>2, <2>1, <2>2, DeliverKnown, NewsStays
<1>6. QED
  BY <1>4, <1>5

LEMMA WithdrawRepNews ==
    ASSUME KnockInv, NEW o \in Order, NewsOK(o), NEW n \in notices, n.type = "withdraw",
           Deliver(n)
    PROVE  NewsOK(o)'
<1>1. n.target \in WithdrawTarget /\ n.succeeded \in BOOLEAN /\ TypeOK
  BY NoticeFacts DEF KnockInv, TypeOK
<1>2. /\ HandleTradeWithdrawRep(n.target, n.succeeded)
      /\ UNCHANGED <<stage, filled>> /\ notices' = notices \ {n}
  BY DEF Deliver, Noted
<1>3. /\ inner'[o].matched = inner[o].matched
      /\ inner[o].withdraw_succeed => inner'[o].withdraw_succeed
      /\ inner'[o].finish_flag <=> inner[o].finish_flag
      /\ knock_first_orders_' = knock_first_orders_
  BY <1>1, <1>2, WithdrawRepEffect DEF HandleTradeWithdrawRep
<1>4. KnocksUnderWay(o) \subseteq notices'
  BY <1>2 DEF KnocksUnderWay
<1>5. KnownShares(o) \subseteq KnownShares(o)' /\ (EndKnown(o) => EndKnown(o)')
  BY <1>3, <1>4, KnowsNoLess
<1>6. QED
  BY <1>2, <1>3, <1>5, DeliverKnown, NewsStays

LEMMA KnockNews ==
    ASSUME KnockInv, NEW o \in Order, NewsOK(o), NEW n \in notices, n.type = "knock",
           Deliver(n)
    PROVE  NewsOK(o)'
<1>1. /\ n.order \in Order /\ n.shares \in SUBSET (Order \X Nat) /\ n.withdrawn \in BOOLEAN
      /\ TypeOK /\ BrokerOK
  BY NoticeFacts DEF KnockInv, TypeOK
<1>2. /\ HandleTradeKnock(n.order, n.shares, n.withdrawn)
      /\ UNCHANGED <<stage, filled>> /\ notices' = notices \ {n}
  BY DEF Deliver, Noted
<1>3. /\ inner[o].matched \subseteq inner'[o].matched
      /\ inner[o].withdraw_succeed => inner'[o].withdraw_succeed
      /\ inner[o].finish_flag => inner'[o].finish_flag
      /\ knock_first_orders_[o].shares \subseteq knock_first_orders_'[o].shares
      /\ knock_first_orders_[o].withdrawn => knock_first_orders_'[o].withdrawn
      /\ o = n.order =>
           /\ n.shares \subseteq inner'[o].matched \cup knock_first_orders_'[o].shares
           /\ n.withdrawn => inner'[o].withdraw_succeed \/ knock_first_orders_'[o].withdrawn
  <2>1. CASE CacheKnock(n.order, n.shares, n.withdrawn)
    <3>1. /\ UNCHANGED inner
          /\ knock_first_orders_'[n.order].shares = knock_first_orders_[n.order].shares \cup n.shares
          /\ knock_first_orders_'[n.order].withdrawn <=>
               knock_first_orders_[n.order].withdrawn \/ n.withdrawn
          /\ \A q \in Order : q # n.order => knock_first_orders_'[q] = knock_first_orders_[q]
      BY <1>1, <2>1 DEF CacheKnock, TypeOK
    <3>2. CASE o = n.order
      <4>1. knock_first_orders_'[o].shares = knock_first_orders_[o].shares \cup n.shares
        BY <3>1, <3>2
      <4>2. knock_first_orders_'[o].withdrawn <=>
              knock_first_orders_[o].withdrawn \/ n.withdrawn
        BY <3>1, <3>2, Zenon
      <4>3. QED
        BY <3>1, <4>1, <4>2
    <3>3. CASE o # n.order
      BY <3>1, <3>3
    <3>4. QED
      BY <3>2, <3>3
  <2>2. CASE ApplyKnock(n.order, n.shares, n.withdrawn)
    <3>1. KnockApplied(n.order, n.shares, n.withdrawn)
      BY <1>1, <2>2, ApplyKnockEffect
    <3>2. QED
      BY <3>1 DEF KnockApplied, FlaggedOnly
  <2>3. QED
    BY <1>2, <2>1, <2>2 DEF HandleTradeKnock
<1>4. KnocksUnderWay(o) \ {n} = KnocksUnderWay(o)' /\ (n \in KnocksUnderWay(o) => o = n.order)
  BY <1>2 DEF KnocksUnderWay
<1>5. KnownShares(o) \subseteq KnownShares(o)'
  BY <1>3, <1>4 DEF KnownShares
<1>6. EndKnown(o) => EndKnown(o)'
  BY <1>3, <1>4 DEF EndKnown
<1>7. QED
  BY <1>2, <1>3, <1>5, <1>6, DeliverKnown, NewsStays

LEMMA NextNews ==
    NoneAlike /\ KnockInv /\ NothingForgotten /\ [Next]_vars => NothingForgotten'
<1> SUFFICES ASSUME NoneAlike, KnockInv, NothingForgotten, [Next]_vars, ~lost',
                    NEW o \in Order
             PROVE  NewsOK(o)'
  BY DEF NothingForgotten
<1>1. lost \in BOOLEAN /\ (lost => lost') /\ \A n \in notices : ~Lose(n)
  BY DEF KnockInv, TypeOK, Next, SendTradeOrderReq, PassOrder, RefuseOrder, RequestWithdraw,
         Deliver, Lose, Tick, Answer, Fill, AnswerWithdraw, vars, external
<1>2. NewsOK(o)
  BY <1>1 DEF NothingForgotten
<1>3. CASE \E m \in Message : PassOrder(m)
  BY <1>2, <1>3, PassOrderNews
<1>4. CASE \E m \in Message : RefuseOrder(m)
  BY <1>2, <1>4, RefuseOrderNews
<1>5. CASE \E t \in WithdrawTarget : RequestWithdraw(t)
  BY <1>2, <1>5, RequestWithdrawNews
<1>6. CASE \E n \in notices : Deliver(n)
  BY <1>2, <1>6, OrderRepNews, WithdrawRepNews, KnockNews DEF Deliver, Noted
<1>7. CASE UNCHANGED <<inner, knock_first_orders_, stage, filled, notices, answered>>
  BY <1>2, <1>7
     DEF NewsOK, Unanswered, AnswerKnown, KnownShares, EndKnown, KnocksUnderWay
<1>8. CASE \E m \in Message : \E accepted \in SUBSET OrdersOf(m) : Answer(m, accepted)
  BY <1>2, <1>8, AnswerNews
<1>9. CASE \E p \in Order : \E n \in 1 .. Volume(p) : Fill(p, n)
  BY <1>2, <1>9, FillNews
<1>10. CASE \E t \in withdraws, succeeded \in BOOLEAN : AnswerWithdraw(t, succeeded)
  BY <1>2, <1>10, AnswerWithdrawNews
<1>11. Tick \/ UNCHANGED vars
         => UNCHANGED <<inner, knock_first_orders_, stage, filled, notices, answered>>
  BY DEF Tick, vars, risk, external, ghosts
<1>12. QED
  BY <1>1, <1>3, <1>4, <1>5, <1>6, <1>7, <1>8, <1>9, <1>10, <1>11 DEF Next, SendTradeOrderReq

LEMMA InitNews == Init => NothingForgotten
<1> SUFFICES ASSUME Init, NEW o \in Order
             PROVE  NewsOK(o)
  BY DEF NothingForgotten
<1>1. stage[o] = "unsent" /\ filled[o] = 0
  BY DEF Init
<1>2. Shares(o, 0) = {}
  BY DEF Shares
<1>3. QED
  BY <1>1, <1>2 DEF NewsOK, Unanswered

(* What is over and known to be over is finished. *)
LEMMA QuietIsFinished ==
    ASSUME KnockInv, notices = {}, NEW p \in book, NewsOK(p), stage[p] \in {"rejected", "done"}
    PROVE  Finished(p)
<1> SUFFICES ASSUME ~inner[p].finish_flag
             PROVE  Finished(p)
  BY DEF Finished, IsFinished
<1>1. p \in Order /\ TypeOK /\ MemoryOK(p) /\ BookOK(p) /\ LookupOK(p)
  BY DEF KnockInv, TypeOK, BrokerOK
<1>2. p[1] \in answered
  BY DEF NewsOK, Unanswered, AnswerKnown
<1>3. stage[p] = "done" /\ Taken(p)
  BY <1>1, <1>2 DEF BookOK, Taken
<1>4. knock_first_orders_[p] = NoKnocks
  BY <1>1, <1>2, <1>3 DEF BookOK, LookupOK
<1>5. KnocksUnderWay(p) = {}
  BY DEF KnocksUnderWay
<1>6. Shares(p, filled[p]) \subseteq inner[p].matched
  BY <1>4, <1>5 DEF NewsOK, KnownShares, NoKnocks
<1>7. CASE filled[p] = Volume(p)
  <2>1. inner[p].matched = Shares(p, Volume(p))
    BY <1>1, <1>6, <1>7 DEF MemoryOK
  <2>2. Volume(p) \in Nat
    BY <1>1, OrderFacts
  <2>3. Cardinality(inner[p].matched) = Volume(p)
    BY <1>1, <2>1, <2>2, SharesFacts
  <2>4. QED
    BY <2>2, <2>3 DEF Finished, IsFinished
<1>8. CASE EndKnown(p)
  BY <1>4, <1>5, <1>8 DEF EndKnown, NoKnocks, Finished, IsFinished
<1>9. QED
  BY <1>3, <1>7, <1>8 DEF NewsOK

(* Once every report has arrived and none was lost, no order that is over      *)
(* blocks another, for messages without equal orders.                       *)
THEOREM NoPhantomBlockHolds == NoneAlike => (Spec => []NoPhantomBlock)
<1> SUFFICES ASSUME NoneAlike
             PROVE  Spec => []NoPhantomBlock
  OBVIOUS
<1>1. KnockInv /\ NothingForgotten /\ [Next]_vars => NothingForgotten'
  BY NextNews
<1>2. KnockInv /\ NothingForgotten => NoPhantomBlock
  <2> SUFFICES ASSUME KnockInv, NothingForgotten, notices = {}, ~lost,
                      NEW p \in book, stage[p] \in {"rejected", "done"}
               PROVE  Finished(p)
    BY DEF NoPhantomBlock
  <2>1. NewsOK(p)
    BY DEF KnockInv, TypeOK, NothingForgotten
  <2>2. QED
    BY <2>1, QuietIsFinished
<1>3. Spec => []KnockInv
  BY Invariance
<1>4. QED
  BY InitNews, <1>1, <1>2, <1>3, PTL DEF Spec

================================================================================
