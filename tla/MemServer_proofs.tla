---------------------------- MODULE MemServer_proofs ----------------------------
(***************************************************************************)
(* Theorems of MemServer, for any messages, withdraws, time limits and       *)
(* bounds: types, the one fate of every message, no trace of a refused      *)
(* order, and what is left of the self-knock check.                        *)
(***************************************************************************)
EXTENDS MemServer, FiniteSetTheorems, SequenceTheorems, TLAPS

--------------------------------------------------------------------------------
(* The orders of a message are finitely many pairs of it and their place. *)

LEMMA OrderFacts ==
    ASSUME NEW o \in Risk!Order
    PROVE  /\ o[1] \in Message
           /\ o[1] \in Id
           /\ o[2] \in 1 .. Len(Items[o[1]])
           /\ o \in Risk!OrdersOf(o[1])
           /\ Risk!Volume(o) \in Nat \ {0}
<1>1. PICK m \in Message : o \in {m} \X (1 .. Len(Items[m]))
  BY DEF Risk!Order
<1>2. o = <<m, o[2]>> /\ o[1] = m /\ o[2] \in 1 .. Len(Items[m])
  BY <1>1
<1>3. Items[m] \in Seq(Risk!OrderType)
  BY ItemsAssumption
<1>4. Items[m][o[2]] \in Risk!OrderType
  BY <1>2, <1>3
<1>5. QED
  BY <1>1, <1>2, <1>4 DEF Id, Risk!OrdersOf, Risk!Volume, Risk!OrderType

LEMMA OrdersOfFacts ==
    ASSUME NEW m \in Message
    PROVE  /\ Risk!OrdersOf(m) \subseteq Risk!Order
           /\ \A o \in Risk!OrdersOf(m) : o[1] = m
           /\ \A o \in Risk!Order : o[1] = m => o \in Risk!OrdersOf(m)
<1>1. Risk!OrdersOf(m) \subseteq Risk!Order
  BY DEF Risk!OrdersOf, Risk!Order
<1>2. \A o \in Risk!OrdersOf(m) : o[1] = m
  BY DEF Risk!OrdersOf
<1>3. \A o \in Risk!Order : o[1] = m => o \in Risk!OrdersOf(m)
  BY OrderFacts
<1>4. QED
  BY <1>1, <1>2, <1>3

(* The instance has its own name for the one Cardinality. *)
LEMMA RiskCardinality == \A S : Risk!Cardinality(S) = Cardinality(S)
BY DEF Risk!Cardinality, Cardinality

LEMMA OrderFinite == IsFiniteSet(Risk!Order)
<1> DEFINE of(m) == {m} \X (1 .. Len(Items[m]))
<1>1. \A m \in Message : IsFiniteSet(of(m))
  <2> SUFFICES ASSUME NEW m \in Message
               PROVE  IsFiniteSet(of(m))
    OBVIOUS
  <2>1. Len(Items[m]) \in Nat
    BY ItemsAssumption
  <2>2. IsFiniteSet(1 .. Len(Items[m]))
    BY <2>1, FS_Interval
  <2>3. IsFiniteSet({m})
    BY FS_Singleton
  <2>4. QED
    BY <2>2, <2>3, FS_Product
<1>2. IsFiniteSet({of(m) : m \in Message})
  <2> DEFINE f == [m \in Message |-> of(m)]
  <2>1. f \in Surjection(Message, {of(m) : m \in Message})
    BY DEF Surjection
  <2>2. IsFiniteSet(Message)
    BY ItemsAssumption
  <2> HIDE DEF f, of
  <2>3. QED
    BY <2>1, <2>2, FS_Surjection
<1>3. IsFiniteSet(UNION {of(m) : m \in Message})
  BY <1>1, <1>2, FS_UNION
<1>4. QED
  BY <1>3 DEF Risk!Order

--------------------------------------------------------------------------------
(* Types *)

InnerType ==
    [create_time : Nat, arrival : Nat, acked : BOOLEAN, matched : SUBSET (Risk!Order \X Nat),
     withdraw_time : Nat, withdraw_succeed : BOOLEAN, finish_flag : BOOLEAN]

LEMMA InitType == Init => TypeOK
<1> SUFFICES ASSUME Init
             PROVE  TypeOK
  OBVIOUS
<1>1. {unread, timestamp, sends, refusals} \subseteq [Id -> Nat]
  BY DEF Init
<1>2. inner \in [Risk!Order -> InnerType]
  BY DEF Init, Risk!Init, Risk!NewInnerOrder, InnerType
<1>3. knock_first_orders_ \in
        [Risk!Order -> [shares : SUBSET (Risk!Order \X Nat), withdrawn : BOOLEAN]]
  BY DEF Init, Risk!Init, Risk!NoKnocks
<1>4. Risk!TypeOK
  BY <1>2, <1>3 DEF Init, Risk!Init, Risk!TypeOK, InnerType
<1>5. <<>> \in Seq(Id)
  OBVIOUS
<1>6. QED
  BY <1>1, <1>4, <1>5 DEF Init, TypeOK

(* What a step does to the book and the orders in it keeps their types. *)
LEMMA AllErasedFacts ==
    ASSUME NEW m \in Message
    PROVE  /\ Risk!AllErased(m) \subseteq book
           /\ \A o \in Risk!AllErased(m) : Risk!Finished(o)
BY DEF Risk!AllErased, Risk!Erased, Risk!Crossing

LEMMA WithErasedType ==
    ASSUME inner \in [Risk!Order -> InnerType], NEW m \in Message, NEW o \in Risk!Order
    PROVE  Risk!WithErased(m)[o] \in InnerType
BY DEF Risk!WithErased, InnerType

LEMMA PassedOrderType ==
    ASSUME now \in Nat, NEW o \in Risk!Order
    PROVE  Risk!PassedOrder(o) \in InnerType
<1>1. Risk!Placed \in Nat
  <2> DEFINE placed == {p \in Risk!Order : stage[p] # "unsent"}
  <2>1. IsFiniteSet(placed)
    BY OrderFinite, FS_Subset
  <2>2. Cardinality(placed) \in Nat
    BY <2>1, FS_CardinalityType
  <2>3. QED
    BY <2>2, RiskCardinality DEF Risk!Placed
<1>2. o[2] \in Nat
  <2>1. Len(Items[o[1]]) \in Nat
    BY OrderFacts, ItemsAssumption
  <2>2. QED
    BY <2>1, OrderFacts
<1>3. Risk!NewInnerOrder \in InnerType
  BY DEF Risk!NewInnerOrder, InnerType
<1>4. Risk!Placed + o[2] \in Nat
  BY <1>1, <1>2
<1>5. QED
  BY <1>3, <1>4 DEF Risk!PassedOrder, InnerType

LEMMA PassOrderType ==
    ASSUME TypeOK, NEW m \in Message, Risk!PassOrder(m)
    PROVE  Risk!TypeOK'
<1>1. inner' \in [Risk!Order -> InnerType]
  <2>1. \A o \in Risk!Order : Risk!PassedOrder(o) \in InnerType /\ Risk!WithErased(m)[o] \in InnerType
    BY PassedOrderType, WithErasedType DEF TypeOK, Risk!TypeOK, InnerType
  <2>2. QED
    BY <2>1 DEF Risk!PassOrder
<1>2. book' \subseteq Risk!Order
  BY OrdersOfFacts DEF Risk!PassOrder, Risk!Entered, TypeOK, Risk!TypeOK
<1>3. stage' \in [Risk!Order -> {"unsent", "sent", "live", "rejected", "done"}]
  BY DEF Risk!PassOrder, TypeOK, Risk!TypeOK
<1>4. QED
  BY <1>1, <1>2, <1>3 DEF Risk!PassOrder, Risk!ghosts, TypeOK, Risk!TypeOK, InnerType

LEMMA RefuseOrderType ==
    ASSUME TypeOK, NEW m \in Message, Risk!RefuseOrder(m)
    PROVE  Risk!TypeOK'
<1>1. inner' \in [Risk!Order -> InnerType]
  <2>1. \A o \in Risk!Order : Risk!WithErased(m)[o] \in InnerType
    BY WithErasedType DEF TypeOK, Risk!TypeOK, InnerType
  <2>2. QED
    BY <2>1 DEF Risk!RefuseOrder, Risk!WithErased
<1>2. QED
  BY <1>1 DEF Risk!RefuseOrder, Risk!external, Risk!ghosts, TypeOK, Risk!TypeOK, InnerType

LEMMA WithdrawRepType ==
    ASSUME TypeOK, NEW m \in Withdraw, PassWithdraw(m), UNCHANGED now
    PROVE  Risk!TypeOK'
<1>1. Target[m] \in Risk!WithdrawTarget
  BY WithdrawAssumption
<1>2. withdraws' \subseteq Risk!WithdrawTarget /\ awaited' \subseteq Risk!WithdrawTarget
  BY <1>1 DEF PassWithdraw, TypeOK, Risk!TypeOK
<1>3. inner' \in [Risk!Order -> InnerType]
  <2>1. \A p \in Risk!Order : inner[p] \in InnerType
    BY DEF TypeOK, Risk!TypeOK, InnerType
  <2>2. \A p \in Risk!Order : [inner[p] EXCEPT !.withdraw_succeed = TRUE] \in InnerType
    BY <2>1 DEF InnerType
  <2>3. QED
    BY <2>1, <2>2 DEF PassWithdraw, Risk!HandleTradeWithdrawRep
<1>4. QED
  BY <1>2, <1>3
     DEF PassWithdraw, Risk!HandleTradeWithdrawRep, TypeOK, Risk!TypeOK, InnerType

LEMMA AnswerType ==
    ASSUME TypeOK, NEW m \in Message, NEW accepted \in SUBSET Risk!OrdersOf(m),
           Risk!Answer(m, accepted)
    PROVE  Risk!TypeOK'
<1>1. Risk!OrderNotice(m, accepted) \in Risk!NoticeType
  BY OrdersOfFacts DEF Risk!OrderNotice, Risk!NoticeType
<1>2. notices' \subseteq Risk!NoticeType
  BY <1>1 DEF Risk!Answer, TypeOK, Risk!TypeOK
<1>3. stage' \in [Risk!Order -> {"unsent", "sent", "live", "rejected", "done"}]
  BY DEF Risk!Answer, TypeOK, Risk!TypeOK
<1>4. QED
  BY <1>2, <1>3 DEF Risk!Answer, Risk!risk, Risk!ghosts, TypeOK, Risk!TypeOK

LEMMA FillType ==
    ASSUME TypeOK, NEW o \in Risk!Order, NEW n \in 1 .. Risk!Volume(o), Risk!Fill(o, n)
    PROVE  Risk!TypeOK'
<1>1. n \in Nat
  BY OrderFacts
<1>2. Risk!Shares(o, n) \subseteq Risk!Order \X Nat
  BY <1>1 DEF Risk!Shares
<1>3. Risk!KnockNotice(o, Risk!Shares(o, n) \ Risk!Shares(o, filled[o]), FALSE) \in Risk!NoticeType
  BY <1>2 DEF Risk!KnockNotice, Risk!NoticeType
<1>4. notices' \subseteq Risk!NoticeType
  BY <1>3 DEF Risk!Fill, TypeOK, Risk!TypeOK
<1>5. /\ filled' \in [Risk!Order -> Nat]
      /\ stage' \in [Risk!Order -> {"unsent", "sent", "live", "rejected", "done"}]
  BY <1>1 DEF Risk!Fill, TypeOK, Risk!TypeOK
<1>6. QED
  BY <1>4, <1>5 DEF Risk!Fill, Risk!risk, Risk!ghosts, TypeOK, Risk!TypeOK

LEMMA AnswerWithdrawType ==
    ASSUME TypeOK, NEW t \in withdraws, NEW succeeded \in BOOLEAN,
           Risk!AnswerWithdraw(t, succeeded)
    PROVE  Risk!TypeOK'
<1>1. t \in Risk!WithdrawTarget
  BY DEF TypeOK, Risk!TypeOK
<1>2. Risk!Withdrawn(t) \subseteq Risk!Order
  BY <1>1, OrdersOfFacts DEF Risk!Withdrawn, Risk!Meant, Risk!WithdrawTarget, Risk!Names
<1>3. Risk!WithdrawNotice(t, succeeded) \in Risk!NoticeType
  BY <1>1 DEF Risk!WithdrawNotice, Risk!NoticeType
<1>4. \A o \in Risk!Order : Risk!KnockNotice(o, {}, TRUE) \in Risk!NoticeType
  BY DEF Risk!KnockNotice, Risk!NoticeType
<1>5. notices' \subseteq Risk!NoticeType
  <2>1. {Risk!KnockNotice(o, {}, TRUE) : o \in IF succeeded THEN Risk!Withdrawn(t) ELSE {}}
          \subseteq Risk!NoticeType
    BY <1>2, <1>4
  <2>2. QED
    BY <1>3, <2>1 DEF Risk!AnswerWithdraw, TypeOK, Risk!TypeOK
<1>6. stage' \in [Risk!Order -> {"unsent", "sent", "live", "rejected", "done"}]
  BY DEF Risk!AnswerWithdraw, TypeOK, Risk!TypeOK
<1>7. withdraws' \subseteq Risk!WithdrawTarget
  BY DEF Risk!AnswerWithdraw, TypeOK, Risk!TypeOK
<1>8. QED
  BY <1>5, <1>6, <1>7 DEF Risk!AnswerWithdraw, Risk!risk, Risk!ghosts, TypeOK, Risk!TypeOK

LEMMA TickType ==
    ASSUME TypeOK, Risk!Tick
    PROVE  Risk!TypeOK'
BY DEF Risk!Tick, Risk!risk, Risk!external, TypeOK, Risk!TypeOK

LEMMA LoseType ==
    ASSUME TypeOK, NEW n \in notices, Risk!Lose(n)
    PROVE  Risk!TypeOK'
BY DEF Risk!Lose, Risk!risk, Risk!ghosts, TypeOK, Risk!TypeOK

(* What happens to a message outside the self-knock check keeps its types. *)
LEMMA RefuseType ==
    ASSUME TypeOK, NEW m \in Id, Refuse(m)
    PROVE  reserved' \subseteq Message /\ {sends, refusals}' \subseteq [Id -> Nat]
BY DEF Refuse, TypeOK

LEMMA SendType ==
    ASSUME TypeOK, NEW m \in Id, SendToBroker(m)
    PROVE  reserved' \subseteq Message /\ {sends, refusals}' \subseteq [Id -> Nat]
BY DEF SendToBroker, TypeOK

LEMMA PollRequestType ==
    ASSUME TypeOK, NEW m \in Id, PollRequest(m)
    PROVE  TypeOK'
<1>1. Risk!TypeOK'
  BY DEF PollRequest, risk, counter, TypeOK, Risk!TypeOK
<1>2. {unread, timestamp}' \subseteq [Id -> Nat]
  BY DEF PollRequest, TypeOK
<1>3. /\ all_message_' \subseteq Id
      /\ reserved' \subseteq Message
      /\ {sends, refusals}' \subseteq [Id -> Nat]
  BY RefuseType
     DEF PollRequest, HandleMessage, CheckRefuses, CheckPasses, fate, TypeOK
<1>4. queue' \subseteq Id /\ dropped' \subseteq Id /\ normal_queue_' \in Seq(Id)
  <2>1. Append(normal_queue_, m) \in Seq(Id)
    BY DEF TypeOK
  <2>2. QED
    BY <2>1 DEF PollRequest, HandleMessage, CheckRefuses, CheckPasses, Push, fate, TypeOK
<1>5. QED
  BY <1>1, <1>2, <1>3, <1>4 DEF PollRequest, TypeOK

LEMMA PollReportType ==
    ASSUME TypeOK, NEW n \in notices, PollReport(n)
    PROVE  TypeOK'
<1>1. n.type = "order" => n.message \in Message
  BY DEF TypeOK, Risk!TypeOK, Risk!NoticeType
<1>2. Risk!TypeOK'
  BY <1>1 DEF PollReport, Risk!Noted, risk, TypeOK, Risk!TypeOK
<1>3. QED
  BY <1>2 DEF PollReport, fate, client, TypeOK

LEMMA DispatchType ==
    ASSUME TypeOK, NEW m \in Id, Dispatch(m)
    PROVE  TypeOK'
<1>1. Risk!TypeOK' /\ reserved' \subseteq Message /\ {sends, refusals}' \subseteq [Id -> Nat]
  <2>1. CASE RefuseOverLimit(m)
    <3>1. Risk!TypeOK'
      BY <2>1 DEF RefuseOverLimit, Dispatch, risk, counter, TypeOK, Risk!TypeOK
    <3>2. QED
      BY <2>1, <3>1, RefuseType DEF RefuseOverLimit
  <2>2. CASE m \in Message /\ RefuseOrder(m)
    BY <2>2, RefuseOrderType, RefuseType DEF RefuseOrder
  <2>3. CASE m \in Message /\ PassOrder(m)
    BY <2>3, PassOrderType, SendType DEF PassOrder
  <2>4. CASE m \in Withdraw /\ PassWithdraw(m)
    <3>1. UNCHANGED now
      BY DEF Dispatch
    <3>2. QED
      BY <2>4, <3>1, WithdrawRepType, SendType DEF PassWithdraw
  <2>5. QED
    BY <2>1, <2>2, <2>3, <2>4 DEF Dispatch, SendTradeOrderReq, SendTradeWithdrawReq, Id
<1>2. queue' \subseteq Id /\ normal_queue_' \in Seq(Id)
  <2>1. normal_queue_ # <<>> => Tail(normal_queue_) \in Seq(Id)
    BY DEF TypeOK
  <2>2. QED
    BY <2>1 DEF Dispatch, PopLimited, PopNormal, TypeOK
<1>3. QED
  BY <1>1, <1>2 DEF Dispatch, ThenPoll, client, TypeOK

LEMMA OutsideType ==
    ASSUME TypeOK, Outside
    PROVE  Risk!TypeOK'
BY TickType, AnswerType, FillType, AnswerWithdrawType, LoseType
   DEF Outside, OnRspTradeOrder, SendTradeKnock, OnRspTradeWithdraw, NotOffered

LEMMA NextType == TypeOK /\ [Next]_vars => TypeOK'
<1> SUFFICES ASSUME TypeOK, [Next]_vars
             PROVE  TypeOK'
  OBVIOUS
<1>1. ASSUME NEW m \in Id, PollRequest(m)
      PROVE  TypeOK'
  BY <1>1, PollRequestType
<1>2. ASSUME NEW n \in notices, PollReport(n)
      PROVE  TypeOK'
  BY <1>2, PollReportType
<1>3. ASSUME NEW m \in Id, Dispatch(m)
      PROVE  TypeOK'
  BY <1>3, DispatchType
<1>4. CASE NoMoreRequests \/ NoMoreReports \/ PopNothing
  <2>1. Risk!TypeOK'
    BY <1>4 DEF NoMoreRequests, NoMoreReports, PopNothing, risk, counter, TypeOK, Risk!TypeOK
  <2>2. QED
    BY <1>4, <2>1
       DEF NoMoreRequests, NoMoreReports, PopNothing, ThenPoll, fate, client, TypeOK
<1>5. ASSUME NEW m \in Id, Publish(m)
      PROVE  TypeOK'
  <2>1. Risk!TypeOK'
    BY <1>5 DEF Publish, risk, counter, TypeOK, Risk!TypeOK
  <2>2. {unread, timestamp}' \subseteq [Id -> Nat]
    BY <1>5 DEF Publish, TypeOK, Risk!TypeOK
  <2>3. QED
    BY <1>5, <2>1, <2>2 DEF Publish, fate, TypeOK
<1>6. CASE Outside /\ UNCHANGED <<pc, all_message_, fate, client>>
  BY <1>6, OutsideType DEF fate, client, TypeOK
<1>7. CASE UNCHANGED vars
  BY <1>7 DEF vars, fate, risk, counter, client, TypeOK, Risk!TypeOK
<1>8. QED
  BY <1>1, <1>2, <1>3, <1>4, <1>5, <1>6, <1>7 DEF Next, Run

(* Every variable keeps its type, those of the self-knock check included.     *)
THEOREM TypeCorrect == Spec => []TypeOK
BY InitType, NextType, PTL DEF Spec

--------------------------------------------------------------------------------
(* How often a message is in a sequence. *)

LEMMA TimesType ==
    ASSUME NEW q \in Seq(Id), NEW n \in Id
    PROVE  /\ IsFiniteSet({i \in 1 .. Len(q) : q[i] = n})
           /\ Times(n, q) \in Nat
<1>1. Len(q) \in Nat
  OBVIOUS
<1>2. IsFiniteSet(1 .. Len(q))
  BY <1>1, FS_Interval
<1>3. IsFiniteSet({i \in 1 .. Len(q) : q[i] = n})
  BY <1>2, FS_Subset
<1>4. QED
  BY <1>3, FS_CardinalityType DEF Times

LEMMA TimesAppend ==
    ASSUME NEW q \in Seq(Id), NEW m \in Id, NEW n \in Id
    PROVE  Times(n, Append(q, m)) = Times(n, q) + Count(n, {m})
<1> DEFINE at == {i \in 1 .. Len(q) : q[i] = n}
           len == Len(q)
<1>1. /\ len \in Nat /\ Len(Append(q, m)) = len + 1
      /\ \A i \in 1 .. len : Append(q, m)[i] = q[i]
      /\ Append(q, m)[len + 1] = m
  OBVIOUS
<1>2. IsFiniteSet(at) /\ len + 1 \notin at
  BY <1>1, TimesType
<1>3. 1 .. len + 1 = (1 .. len) \cup {len + 1}
  BY <1>1
<1>4. CASE n = m
  <2>1. {i \in 1 .. Len(Append(q, m)) : Append(q, m)[i] = n} = at \cup {len + 1}
    BY <1>1, <1>3, <1>4
  <2>2. Cardinality(at \cup {len + 1}) = Cardinality(at) + 1
    BY <1>2, FS_AddElement
  <2>3. QED
    BY <1>4, <2>1, <2>2 DEF Times, Count
<1>5. CASE n # m
  <2>1. {i \in 1 .. Len(Append(q, m)) : Append(q, m)[i] = n} = at
    BY <1>1, <1>3, <1>5
  <2>2. Times(n, Append(q, m)) = Times(n, q) /\ Times(n, q) \in Nat
    BY <2>1, TimesType DEF Times
  <2>3. QED
    BY <1>5, <2>2 DEF Count
<1>6. QED
  BY <1>4, <1>5

LEMMA TimesTail ==
    ASSUME NEW q \in Seq(Id), q # <<>>, NEW n \in Id
    PROVE  Times(n, q) = Times(n, Tail(q)) + Count(n, {Head(q)})
<1> DEFINE at == {i \in 1 .. Len(q) : q[i] = n}
           of == {i \in 1 .. Len(Tail(q)) : Tail(q)[i] = n}
           next == [i \in of |-> i + 1]
<1>1. /\ Len(q) \in Nat \ {0} /\ Len(Tail(q)) = Len(q) - 1
      /\ \A i \in 1 .. Len(q) - 1 : Tail(q)[i] = q[i + 1]
      /\ Head(q) = q[1] /\ Tail(q) \in Seq(Id)
  BY HeadTailProperties
<1>2. IsFiniteSet(at) /\ IsFiniteSet(of)
  BY <1>1, TimesType
<1>3. next \in Bijection(of, at \ {1})
  <2>1. \A i \in of : i + 1 \in at \ {1}
    BY <1>1
  <2>2. \A i, j \in of : next[i] = next[j] => i = j
    BY <1>1
  <2>3. \A k \in at \ {1} : k - 1 \in of /\ next[k - 1] = k
    BY <1>1
  <2>4. next \in [of -> at \ {1}]
    BY <2>1
  <2> HIDE DEF next, of, at
  <2>5. QED
    BY <2>2, <2>3, <2>4 DEF Bijection, Injection, IsInjective, Surjection
<1>4. Cardinality(at \ {1}) = Cardinality(of)
  <2> HIDE DEF next, of, at
  <2>1. ExistsBijection(of, at \ {1})
    BY <1>3 DEF ExistsBijection
  <2>2. QED
    BY <1>2, <2>1, FS_Bijection
<1>5. CASE n = Head(q)
  <2>1. 1 \in at
    BY <1>1, <1>5
  <2>2. Cardinality(at \ {1}) = Cardinality(at) - 1 /\ Cardinality(at) \in Nat
    BY <1>2, <2>1, FS_RemoveElement, FS_CardinalityType
  <2>3. Times(n, q) = Cardinality(at) /\ Times(n, Tail(q)) = Cardinality(of)
    BY DEF Times
  <2> HIDE DEF of, at
  <2>4. QED
    BY <1>4, <1>5, <2>2, <2>3 DEF Count
<1>6. CASE n # Head(q)
  <2>1. at \ {1} = at
    BY <1>1, <1>6
  <2>2. Cardinality(at) \in Nat
    BY <1>2, FS_CardinalityType
  <2>3. Times(n, q) = Cardinality(at) /\ Times(n, Tail(q)) = Cardinality(of)
    BY DEF Times
  <2>4. Count(n, {Head(q)}) = 0
    BY <1>6 DEF Count
  <2> HIDE DEF of, at
  <2>5. Cardinality(of) = Cardinality(at)
    BY <1>4, <2>1
  <2>6. QED
    BY <2>2, <2>3, <2>4, <2>5
<1>7. QED
  BY <1>5, <1>6

--------------------------------------------------------------------------------
(* The fate of a message.  OneFate is inductive: a message that was not read   *)
(* is in no queue and was neither sent, refused nor dropped, and one that   *)
(* leaves a queue is sent or refused once.                                 *)

Fated(n) ==
    Count(n, queue) + Times(n, normal_queue_) + Count(n, dropped) + sends[n] + refusals[n]

LEMMA FateTypes ==
    ASSUME TypeOK, NEW n \in Id
    PROVE  /\ Times(n, normal_queue_) \in Nat
           /\ sends[n] \in Nat /\ refusals[n] \in Nat
           /\ \A S : Count(n, S) \in {0, 1}
BY TimesType DEF TypeOK, Count

LEMMA InitFate == Init => OneFate
<1> SUFFICES ASSUME Init, NEW n \in Id
             PROVE  Fated(n) = Count(n, all_message_)
  BY DEF Init, OneFate, Fated
<1>1. {i \in 1 .. Len(<<>>) : <<>>[i] = n} = {}
  OBVIOUS
<1>2. Times(n, <<>>) = 0
  BY <1>1, FS_EmptySet DEF Times
<1>3. QED
  BY <1>2 DEF Init, Fated, Count

(* A message that is read comes to one place, so that its count is right. *)
LEMMA ReadOnce ==
    ASSUME OneFate, NEW m \in Id, m \notin all_message_, all_message_' = all_message_ \cup {m},
           \A n \in Id : Fated(n)' = Fated(n) + Count(n, {m}),
           \A n \in dropped' : Empty(n)
    PROVE  OneFate'
<1>1. \A n \in Id : Count(n, all_message_') = Count(n, all_message_) + Count(n, {m})
  BY DEF Count
<1>2. \A n \in Id : Fated(n)' = Count(n, all_message_')
  BY <1>1 DEF OneFate, Fated
<1>3. QED
  BY <1>2 DEF OneFate, Fated, Count, Empty

LEMMA PollRequestFate ==
    ASSUME TypeOK, OneFate, NEW m \in Id, PollRequest(m)
    PROVE  OneFate'
<1>1. CASE Ignored(m)
  BY <1>1 DEF PollRequest, HandleMessage, fate, OneFate, Count, Empty
<1>2. CASE ~Ignored(m)
  <2>1. /\ m \notin queue /\ m \notin dropped /\ Times(m, normal_queue_) = 0
        /\ sends[m] = 0 /\ refusals[m] = 0
    BY <1>2, FateTypes DEF Ignored, OneFate, Count
  <2>2. all_message_' = all_message_ \cup {m} /\ m \notin all_message_
    BY <1>2 DEF PollRequest, HandleMessage, Ignored
  <2>3. CASE CheckRefuses(m)
    <3>1. /\ UNCHANGED <<queue, normal_queue_, dropped, sends>>
          /\ refusals' = [refusals EXCEPT ![m] = @ + 1]
      BY <2>3 DEF CheckRefuses, Refuse
    <3>2. \A n \in Id : refusals'[n] = refusals[n] + Count(n, {m})
      BY <3>1 DEF TypeOK, Count
    <3>3. \A n \in Id : Fated(n)' = Fated(n) + Count(n, {m})
      BY <3>1, <3>2, FateTypes DEF Fated
    <3>4. QED
      BY <2>2, <3>1, <3>3, ReadOnce DEF OneFate
  <2>4. CASE CheckPasses(m)
    <3>1. Push(m) /\ UNCHANGED <<sends, refusals>>
      BY <2>4 DEF CheckPasses
    <3>2. CASE Empty(m)
      <4>1. UNCHANGED <<queue, normal_queue_>> /\ dropped' = dropped \cup {m}
        BY <3>1, <3>2 DEF Push
      <4>2. \A n \in Id : Count(n, dropped') = Count(n, dropped) + Count(n, {m})
        BY <2>1, <4>1 DEF Count
      <4>3. \A n \in Id : Fated(n)' = Fated(n) + Count(n, {m})
        BY <3>1, <4>1, <4>2, FateTypes DEF Fated
      <4>4. QED
        BY <2>2, <3>2, <4>1, <4>3, ReadOnce DEF OneFate
    <3>3. CASE ~Empty(m) /\ m \in Limited
      <4>1. UNCHANGED <<dropped, normal_queue_>> /\ queue' = queue \cup {m}
        BY <3>1, <3>3 DEF Push
      <4>2. \A n \in Id : Count(n, queue') = Count(n, queue) + Count(n, {m})
        BY <2>1, <4>1 DEF Count
      <4>3. \A n \in Id : Fated(n)' = Fated(n) + Count(n, {m})
        BY <3>1, <4>1, <4>2, FateTypes DEF Fated
      <4>4. QED
        BY <2>2, <4>1, <4>3, ReadOnce DEF OneFate
    <3>4. CASE ~Empty(m) /\ m \notin Limited
      <4>1. UNCHANGED <<dropped, queue>> /\ normal_queue_' = Append(normal_queue_, m)
        BY <3>1, <3>4 DEF Push
      <4>2. \A n \in Id : Times(n, normal_queue_') = Times(n, normal_queue_) + Count(n, {m})
        BY <4>1, TimesAppend DEF TypeOK
      <4>3. ASSUME NEW n \in Id
            PROVE  Fated(n)' = Fated(n) + Count(n, {m})
        <5>1. Count(n, queue') = Count(n, queue) /\ Count(n, dropped') = Count(n, dropped)
          BY <4>1
        <5>2. sends'[n] = sends[n] /\ refusals'[n] = refusals[n]
          BY <3>1
        <5>3. /\ Times(n, normal_queue_) \in Nat /\ sends[n] \in Nat /\ refusals[n] \in Nat
              /\ Count(n, queue) \in {0, 1} /\ Count(n, dropped) \in {0, 1}
              /\ Count(n, {m}) \in {0, 1}
          BY FateTypes
        <5>4. Fated(n)' = Count(n, queue') + Times(n, normal_queue_') + Count(n, dropped')
                            + sends'[n] + refusals'[n]
          BY DEF Fated
        <5>5. QED
          BY <4>2, <5>1, <5>2, <5>3, <5>4 DEF Fated
      <4>4. QED
        BY <2>2, <4>1, <4>3, ReadOnce DEF OneFate
    <3>5. QED
      BY <3>2, <3>3, <3>4
  <2>5. QED
    BY <1>2, <2>3, <2>4 DEF PollRequest, HandleMessage
<1>3. QED
  BY <1>1, <1>2

LEMMA DispatchFate ==
    ASSUME TypeOK, OneFate, NEW m \in Id, Dispatch(m)
    PROVE  OneFate'
<1>1. UNCHANGED <<all_message_, dropped>>
  BY DEF Dispatch
<1>2. \A n \in Id :
        Count(n, queue') + Times(n, normal_queue_') + Count(n, {m})
          = Count(n, queue) + Times(n, normal_queue_)
  <2> SUFFICES ASSUME NEW n \in Id
               PROVE  Count(n, queue') + Times(n, normal_queue_') + Count(n, {m})
                        = Count(n, queue) + Times(n, normal_queue_)
    OBVIOUS
  <2>1. CASE PopLimited(m)
    BY <2>1, FateTypes DEF PopLimited, Count
  <2>2. CASE PopNormal(m)
    <3>1. /\ normal_queue_ \in Seq(Id) /\ normal_queue_ # <<>> /\ m = Head(normal_queue_)
          /\ normal_queue_' = Tail(normal_queue_) /\ queue' = queue
      BY <2>2 DEF PopNormal, TypeOK
    <3>2. Times(n, normal_queue_) = Times(n, normal_queue_') + Count(n, {m})
      BY <3>1, TimesTail
    <3>3. Times(n, normal_queue_') \in Nat
      <4>1. Tail(normal_queue_) \in Seq(Id)
        BY <3>1
      <4>2. QED
        BY <3>1, <4>1, TimesType
    <3>4. QED
      BY <3>1, <3>2, <3>3, FateTypes
  <2>3. QED
    BY <2>1, <2>2 DEF Dispatch
<1>3. Refuse(m) \/ SendToBroker(m)
  BY DEF Dispatch, SendTradeOrderReq, SendTradeWithdrawReq, RefuseOverLimit, RefuseOrder,
         PassOrder, PassWithdraw
<1>4. \A n \in Id : sends'[n] + refusals'[n] = sends[n] + refusals[n] + Count(n, {m})
  BY <1>3 DEF Refuse, SendToBroker, TypeOK, Count
<1>5. \A n \in Id : Times(n, normal_queue_') \in Nat /\ sends'[n] \in Nat /\ refusals'[n] \in Nat
  <2>1. TypeOK'
    BY DispatchType
  <2>2. QED
    BY <2>1, TimesType DEF TypeOK
<1>6. \A n \in Id : Count(n, queue') \in {0, 1}
  BY DEF Count
<1>7. \A n \in Id : Fated(n)' = Fated(n)
  BY <1>1, <1>2, <1>4, <1>5, <1>6, FateTypes DEF Fated
<1>8. QED
  BY <1>1, <1>7 DEF OneFate, Fated, Count, Empty

LEMMA NextFate == TypeOK /\ OneFate /\ [Next]_vars => OneFate'
<1> SUFFICES ASSUME TypeOK, OneFate, [Next]_vars
             PROVE  OneFate'
  OBVIOUS
<1>1. ASSUME NEW m \in Id, PollRequest(m)
      PROVE  OneFate'
  BY <1>1, PollRequestFate
<1>2. ASSUME NEW m \in Id, Dispatch(m)
      PROVE  OneFate'
  BY <1>2, DispatchFate
<1>3. CASE UNCHANGED <<all_message_, queue, normal_queue_, dropped, sends, refusals>>
  BY <1>3 DEF OneFate, Count, Empty
<1>4. QED
  BY <1>1, <1>2, <1>3
     DEF Next, Run, NoMoreRequests, NoMoreReports, PollReport, PopNothing, Publish, vars, fate

(* Every message that was read is, exactly once, in a queue, with the broker   *)
(* or answered with an error, and one that was not read is nowhere.  Only an *)
(* order message without orders may be dropped instead.                    *)
THEOREM OneFateHolds == Spec => []OneFate
BY InitType, NextType, InitFate, NextFate, PTL DEF Spec

--------------------------------------------------------------------------------
(* What the book knows, and what it does not. *)

(* No report reaches the self-knock check: no order is acknowledged, filled or *)
(* withdrawn in it, and none can be found by its numbers.                  *)
Unanswered ==
    /\ single_orders_ = [o \in Risk!Order |-> Risk!NoOrder]
    /\ batch_orders_ = [m \in Message |-> {}]
    /\ \A o \in Risk!Order :
         ~inner[o].acked /\ inner[o].matched = {} /\ ~inner[o].withdraw_succeed

(* An order is finished, and out of the book, by its age alone.               *)
Old(o) == now - inner[o].create_time > kOrderTimeoutMS

OnlyAge ==
    \A o \in Risk!Order :
        /\ inner[o].finish_flag => Old(o)
        /\ Risk!Flagged(o) /\ stage[o] # "unsent" => o \in book \/ inner[o].finish_flag

(* The orders that the broker was given, the book and the positions agree.    *)
SentAgrees ==
    /\ reserved = {m \in Message : sends[m] > 0}
    /\ \A o \in book : stage[o] # "unsent"
    /\ \A o \in Risk!Order : sends[o[1]] > 0 <=> stage[o] # "unsent"

IInv == TypeOK /\ OneFate /\ Unanswered /\ OnlyAge /\ SentAgrees

(* No two orders of a message could match, as they are never checked against *)
(* each other: the messages that clients send are on one side, but no code   *)
(* compares the bs_flag of an item with that of its message.               *)
NoneCrossesItself ==
    \A o, p \in Risk!Order : o[1] = p[1] => ~Risk!CanMatch(o, p)

(* Every item has the flag of its side: one without is not checked.           *)
AllFlagged == \A o \in Risk!Order : Risk!Flagged(o)

LEMMA FinishedIsOld ==
    ASSUME Unanswered, OnlyAge, NEW o \in Risk!Order, Risk!Finished(o)
    PROVE  Old(o)
<1>1. Risk!Cardinality(inner[o].matched) = 0
  BY RiskCardinality, FS_EmptySet DEF Unanswered
<1>2. ~(0 >= Risk!Volume(o))
  BY OrderFacts
<1>3. QED
  BY <1>1, <1>2
     DEF Risk!Finished, Risk!IsFinished, Risk!AckTimedOut, Risk!WithdrawTimedOut, Unanswered,
         OnlyAge, Old

LEMMA InitInv == Init => IInv
<1> SUFFICES ASSUME Init
             PROVE  IInv
  OBVIOUS
<1>1. TypeOK /\ OneFate
  BY InitType, InitFate
<1>2. \A o \in Risk!Order : inner[o] = Risk!NewInnerOrder /\ stage[o] = "unsent"
  BY DEF Init, Risk!Init
<1>3. Unanswered
  BY <1>2 DEF Init, Risk!Init, Unanswered, Risk!NewInnerOrder
<1>4. OnlyAge
  BY <1>2 DEF OnlyAge, Risk!NewInnerOrder
<1>5. SentAgrees
  BY <1>2, OrderFacts DEF Init, Risk!Init, SentAgrees, Id
<1>6. QED
  BY <1>1, <1>3, <1>4, <1>5 DEF IInv

(* All but the passing and the refusal of an order message leaves the book and *)
(* its orders alone.                                                       *)
Quiet ==
    /\ UNCHANGED <<inner, book, single_orders_, batch_orders_, reserved>>
    /\ now' \in {now, now + 1}
    /\ \A m \in Message : sends'[m] = sends[m]
    /\ \A o \in Risk!Order :
         /\ stage'[o] = "unsent" <=> stage[o] = "unsent"
         /\ Risk!Open(o)' => Risk!Open(o)

(* Neither does the withdraw request that is taken for a reply: it finds no    *)
(* order.                                                                  *)
LEMMA WithdrawFindsNothing ==
    ASSUME TypeOK, Unanswered, NEW m \in Withdraw, PassWithdraw(m)
    PROVE  UNCHANGED <<inner, book, single_orders_, batch_orders_>>
<1> DEFINE t == Target[m]
<1>1. t \in Risk!WithdrawTarget
  BY WithdrawAssumption
<1>2. Risk!Targets(t) = {}
  <2>1. CASE t \in [order : Risk!Order]
    BY <2>1 DEF Risk!Targets, Risk!Names, Unanswered
  <2>2. CASE t \in [batch : {n \in Message : Risk!Batched(n)}]
    <3>1. t.batch \in Message /\ ~Risk!Names(t)
      BY <2>2 DEF Risk!Names
    <3>2. QED
      BY <3>1 DEF Risk!Targets, Unanswered
  <2>3. QED
    BY <1>1, <2>1, <2>2 DEF Risk!WithdrawTarget
<1>3. inner' = [p \in Risk!Order |-> inner[p]]
  BY <1>2 DEF PassWithdraw, Risk!HandleTradeWithdrawRep
<1>4. inner' = inner
  BY <1>3 DEF TypeOK, Risk!TypeOK
<1>5. QED
  BY <1>4 DEF PassWithdraw, Risk!HandleTradeWithdrawRep

LEMMA DispatchEffect ==
    ASSUME IInv, NEW m \in Id, Dispatch(m)
    PROVE  \/ m \in Message /\ PassOrder(m)
           \/ m \in Message /\ Risk!RefuseOrder(m) /\ Refuse(m)
           \/ Quiet
<1>1. UNCHANGED now
  BY DEF Dispatch
<1>2. CASE RefuseOverLimit(m)
  BY <1>1, <1>2 DEF RefuseOverLimit, Refuse, risk, counter, Quiet, Risk!Open
<1>3. CASE m \in Message /\ RefuseOrder(m)
  BY <1>3 DEF RefuseOrder
<1>4. CASE m \in Withdraw \ Message /\ PassWithdraw(m)
  <2>1. UNCHANGED <<inner, book, single_orders_, batch_orders_>>
    BY <1>4, WithdrawFindsNothing DEF IInv
  <2>2. SendToBroker(m) /\ UNCHANGED stage
    BY <1>4 DEF PassWithdraw
  <2>3. reserved' = reserved /\ \A n \in Message : sends'[n] = sends[n]
    BY <1>4, <2>2 DEF SendToBroker, IInv, TypeOK
  <2>4. QED
    BY <1>1, <2>1, <2>2, <2>3 DEF Quiet, Risk!Open
<1>5. QED
  BY <1>2, <1>3, <1>4 DEF Dispatch, SendTradeOrderReq, SendTradeWithdrawReq, Id

LEMMA OutsideEffect ==
    ASSUME IInv, Outside, UNCHANGED <<pc, all_message_, fate, client>>
    PROVE  Quiet
<1> USE DEF IInv, TypeOK, Risk!TypeOK, Quiet, Risk!Open, fate
<1>1. CASE Risk!Tick
  BY <1>1 DEF Risk!Tick, Risk!risk, Risk!external
<1>2. ASSUME NEW m \in Message, NEW accepted \in SUBSET Risk!OrdersOf(m), Risk!Answer(m, accepted)
      PROVE  Quiet
  BY <1>2 DEF Risk!Answer, Risk!risk
<1>3. ASSUME NEW o \in Risk!Order, NEW n \in 1 .. Risk!Volume(o), Risk!Fill(o, n)
      PROVE  Quiet
  BY <1>3 DEF Risk!Fill, Risk!risk
<1>4. ASSUME NEW t \in withdraws, NEW succeeded \in BOOLEAN, Risk!AnswerWithdraw(t, succeeded)
      PROVE  Quiet
  BY <1>4 DEF Risk!AnswerWithdraw, Risk!Withdrawn, Risk!risk
<1>5. ASSUME NEW n \in notices, Risk!Lose(n)
      PROVE  Quiet
  BY <1>5 DEF Risk!Lose, Risk!risk
<1>6. QED
  BY <1>1, <1>2, <1>3, <1>4, <1>5
     DEF Outside, OnRspTradeOrder, SendTradeKnock, OnRspTradeWithdraw, NotOffered

LEMMA NextEffect ==
    ASSUME IInv, [Next]_vars
    PROVE  \/ \E m \in Message : PassOrder(m)
           \/ \E m \in Message : Risk!RefuseOrder(m) /\ Refuse(m)
           \/ Quiet
<1>1. ASSUME NEW m \in Id, Dispatch(m)
      PROVE  \/ \E n \in Message : PassOrder(n)
             \/ \E n \in Message : Risk!RefuseOrder(n) /\ Refuse(n)
             \/ Quiet
  BY <1>1, DispatchEffect
<1>2. ASSUME NEW m \in Id, PollRequest(m)
      PROVE  Quiet
  BY <1>2
     DEF PollRequest, HandleMessage, CheckRefuses, CheckPasses, Push, Refuse, risk, counter, fate,
         Quiet, Risk!Open
<1>3. CASE Outside /\ UNCHANGED <<pc, all_message_, fate, client>>
  BY <1>3, OutsideEffect
<1>4. CASE UNCHANGED <<now, inner, book, single_orders_, batch_orders_, reserved, sends, stage>>
  BY <1>4 DEF Quiet, Risk!Open
<1>5. QED
  BY <1>1, <1>2, <1>3, <1>4
     DEF Next, Run, NoMoreRequests, NoMoreReports, PollReport, PopNothing, Publish, vars, fate,
         risk, counter

(* Quiet steps. *)
LEMMA QuietKeeps ==
    ASSUME IInv, Quiet
    PROVE  Unanswered' /\ OnlyAge' /\ SentAgrees'
<1>1. Unanswered'
  BY DEF IInv, Quiet, Unanswered
<1>2. ASSUME NEW o \in Risk!Order, Old(o)
      PROVE  Old(o)'
  BY <1>2, TimeoutAssumption DEF IInv, TypeOK, Risk!TypeOK, Quiet, Old
<1>3. OnlyAge'
  BY <1>2 DEF IInv, Quiet, OnlyAge
<1>4. SentAgrees'
  BY OrderFacts DEF IInv, TypeOK, Risk!TypeOK, Quiet, SentAgrees
<1>5. QED
  BY <1>1, <1>3, <1>4

(* What WithErased does to an order it takes out, and to the others. *)
LEMMA WithErasedFacts ==
    ASSUME IInv, NEW m \in Message, NEW o \in Risk!Order
    PROVE  LET i == Risk!WithErased(m)[o] IN
           /\ i.create_time = inner[o].create_time
           /\ i.acked = inner[o].acked
           /\ i.matched = inner[o].matched
           /\ i.withdraw_succeed = inner[o].withdraw_succeed
           /\ i.finish_flag = (inner[o].finish_flag \/ o \in Risk!AllErased(m))
<1>1. inner[o] \in InnerType
  BY DEF IInv, TypeOK, Risk!TypeOK, InnerType
<1>2. Risk!WithErased(m)[o] =
        IF o \in Risk!AllErased(m) THEN [inner[o] EXCEPT !.finish_flag = TRUE] ELSE inner[o]
  BY DEF Risk!WithErased
<1>3. QED
  BY <1>1, <1>2 DEF InnerType

(* A refused message takes finished orders out of the book. *)
LEMMA RefuseOrderKeeps ==
    ASSUME IInv, NEW m \in Message, Risk!RefuseOrder(m), Refuse(m)
    PROVE  Unanswered' /\ OnlyAge' /\ SentAgrees'
<1>1. /\ \A o \in Risk!Order : inner'[o] = Risk!WithErased(m)[o]
      /\ book' = book \ Risk!AllErased(m)
      /\ UNCHANGED <<now, single_orders_, batch_orders_, stage, reserved, sends>>
  BY DEF Risk!RefuseOrder, Risk!external, Refuse
<1>2. Unanswered'
  BY <1>1, WithErasedFacts DEF IInv, Unanswered
<1>3. ASSUME NEW o \in Risk!Order
      PROVE  /\ inner[o].finish_flag' => Old(o)'
             /\ Risk!Flagged(o) /\ stage[o]' # "unsent" => (o \in book \/ inner[o].finish_flag)'
  <2>1. o \in Risk!AllErased(m) => Old(o)
    BY AllErasedFacts, FinishedIsOld DEF IInv
  <2>2. Old(o)' <=> Old(o)
    BY <1>1, WithErasedFacts DEF Old
  <2>3. inner[o].finish_flag' <=> inner[o].finish_flag \/ o \in Risk!AllErased(m)
    BY <1>1, WithErasedFacts
  <2>4. QED
    BY <1>1, <2>1, <2>2, <2>3 DEF IInv, OnlyAge
<1>4. OnlyAge'
  BY <1>3 DEF OnlyAge, Risk!Flagged, Risk!BsFlag
<1>5. SentAgrees'
  BY <1>1, AllErasedFacts DEF IInv, SentAgrees
<1>6. QED
  BY <1>2, <1>4, <1>5

(* A message that passes takes finished orders out and puts its own in. *)
LEMMA PassOrderEffect ==
    ASSUME IInv, NEW m \in Message, PassOrder(m)
    PROVE  /\ \A o \in Risk!OrdersOf(m) :
                /\ stage[o] = "unsent"
                /\ \A p \in book : Risk!Cross(o, p) => Old(p)
                /\ stage'[o] = "sent"
                /\ Risk!Flagged(o) => o \in Risk!Entered(m)
           /\ \A o \in Risk!Entered(m) :
                /\ o \in Risk!OrdersOf(m)
                /\ inner'[o] = Risk!PassedOrder(o)
                /\ o \in book'
           /\ \A o \in Risk!Order \ Risk!Entered(m) :
                /\ inner'[o] = Risk!WithErased(m)[o]
                /\ o \in book' <=> o \in book /\ o \notin Risk!AllErased(m)
           /\ \A o \in Risk!Order \ Risk!OrdersOf(m) : stage'[o] = stage[o]
           /\ book' \subseteq Risk!Order
           /\ UNCHANGED <<now, single_orders_, batch_orders_>>
           /\ sends' = [sends EXCEPT ![m] = @ + 1]
           /\ reserved' = reserved \cup {m}
<1>1. Risk!PassOrder(m) /\ SendToBroker(m)
  BY DEF PassOrder
<1>2. Risk!OrdersOf(m) \subseteq Risk!Order /\ book \subseteq Risk!Order
  BY OrdersOfFacts DEF IInv, TypeOK, Risk!TypeOK
<1>3. ASSUME NEW o \in Risk!OrdersOf(m), NEW p \in book, Risk!Cross(o, p)
      PROVE  Old(p)
  <2>1. Risk!Finished(p)
    BY <1>1, <1>3 DEF Risk!PassOrder, Risk!Passes, Risk!Crossing
  <2>2. QED
    BY <1>2, <2>1, FinishedIsOld DEF IInv
<1>4. QED
  BY <1>1, <1>2, <1>3 DEF Risk!PassOrder, Risk!Entered, SendToBroker

LEMMA PassedOrderFacts ==
    ASSUME NEW o \in Risk!Order
    PROVE  LET i == Risk!PassedOrder(o) IN
           /\ i.create_time = now
           /\ ~i.acked
           /\ i.matched = {}
           /\ ~i.withdraw_succeed
           /\ ~i.finish_flag
BY DEF Risk!PassedOrder, Risk!NewInnerOrder

LEMMA PassOrderKeeps ==
    ASSUME IInv, NEW m \in Message, PassOrder(m)
    PROVE  Unanswered' /\ OnlyAge' /\ SentAgrees'
<1> DEFINE own == Risk!Entered(m)
<1>1. own \subseteq Risk!OrdersOf(m) /\ own \subseteq Risk!Order
  BY OrdersOfFacts DEF Risk!Entered
<1>2. Unanswered'
  <2>1. ASSUME NEW o \in Risk!Order
        PROVE  (~inner[o].acked /\ inner[o].matched = {} /\ ~inner[o].withdraw_succeed)'
    <3>1. CASE o \in own
      BY <3>1, PassOrderEffect, PassedOrderFacts
    <3>2. CASE o \notin own
      BY <3>2, PassOrderEffect, WithErasedFacts DEF IInv, Unanswered
    <3>3. QED
      BY <3>1, <3>2
  <2>2. QED
    BY <2>1, PassOrderEffect DEF IInv, Unanswered
<1>3. ASSUME NEW o \in Risk!Order
      PROVE  /\ inner[o].finish_flag' => Old(o)'
             /\ Risk!Flagged(o) /\ stage[o]' # "unsent" => (o \in book \/ inner[o].finish_flag)'
  <2>1. CASE o \in own
    BY <2>1, PassOrderEffect, PassedOrderFacts
  <2>2. CASE o \notin own
    <3>1. o \in Risk!AllErased(m) => Old(o)
      BY AllErasedFacts, FinishedIsOld DEF IInv
    <3>2. Old(o)' <=> Old(o)
      BY <2>2, PassOrderEffect, WithErasedFacts DEF Old
    <3>3. inner[o].finish_flag' <=> inner[o].finish_flag \/ o \in Risk!AllErased(m)
      BY <2>2, PassOrderEffect, WithErasedFacts
    <3>4. /\ Risk!Flagged(o) => stage'[o] = stage[o]
          /\ o \in book' <=> o \in book /\ o \notin Risk!AllErased(m)
      BY <2>2, PassOrderEffect
    <3>5. QED
      BY <3>1, <3>2, <3>3, <3>4 DEF IInv, OnlyAge
  <2>3. QED
    BY <2>1, <2>2
<1>4. OnlyAge'
  BY <1>3 DEF OnlyAge, Risk!Flagged, Risk!BsFlag
<1>5. SentAgrees'
  <2>1. \A n \in Id : sends[n] \in Nat
    BY DEF IInv, TypeOK
  <2>2. /\ sends'[m] = sends[m] + 1
        /\ \A n \in Message : n # m => sends'[n] = sends[n]
    BY PassOrderEffect DEF IInv, TypeOK, Id
  <2>3. reserved' = {n \in Message : sends'[n] > 0}
    BY <2>1, <2>2, PassOrderEffect DEF IInv, SentAgrees, Id
  <2>4. ASSUME NEW o \in Risk!Order
        PROVE  /\ sends'[o[1]] > 0 <=> stage'[o] # "unsent"
               /\ o \in book' => stage'[o] # "unsent"
    <3>1. CASE o \in Risk!OrdersOf(m)
      BY <2>1, <2>2, <3>1, PassOrderEffect, OrdersOfFacts DEF Id
    <3>2. CASE o \notin Risk!OrdersOf(m)
      <4>1. o[1] # m /\ o[1] \in Message
        BY <3>2, OrderFacts, OrdersOfFacts
      <4>2. o \in book' => o \in book
        BY <1>1, <3>2, PassOrderEffect
      <4>3. QED
        BY <2>2, <3>2, <4>1, <4>2, PassOrderEffect DEF IInv, SentAgrees
    <3>3. QED
      BY <3>1, <3>2
  <2>5. QED
    BY <2>3, <2>4, PassOrderEffect DEF SentAgrees
<1>6. QED
  BY <1>2, <1>4, <1>5

(* The invariant is inductive. *)
LEMMA NextInv == IInv /\ [Next]_vars => IInv'
<1> SUFFICES ASSUME IInv, [Next]_vars
             PROVE  IInv'
  OBVIOUS
<1>1. TypeOK' /\ OneFate'
  BY NextType, NextFate DEF IInv
<1>2. Unanswered' /\ OnlyAge' /\ SentAgrees'
  BY NextEffect, PassOrderKeeps, RefuseOrderKeeps, QuietKeeps
<1>3. QED
  BY <1>1, <1>2 DEF IInv

(* The inductive invariant holds in every reachable state: the book knows      *)
(* nothing but the age of what was sent, and the accounts of what was sent  *)
(* agree.                                                                  *)
THEOREM Invariance == Spec => []IInv
BY InitInv, NextInv, PTL DEF Spec

(* The broker, the positions and the book know the same orders: of an order     *)
(* that the broker was not given the positions were not told and it blocks   *)
(* no other, and of one that it was given they were told, and it is in the  *)
(* book unless it is finished or has no flag.                               *)
THEOREM RefusedLeavesNoTraceHolds == Spec => []RefusedLeavesNoTrace
<1>1. IInv => RefusedLeavesNoTrace
  BY DEF IInv, TypeOK, Risk!TypeOK, OnlyAge, SentAgrees, RefusedLeavesNoTrace
<1>2. QED
  BY Invariance, <1>1, PTL

--------------------------------------------------------------------------------
(* What is left of the self-knock check. *)

Apart(o, p) ==
    \/ inner[o].create_time - inner[p].create_time > kOrderTimeoutMS
    \/ inner[p].create_time - inner[o].create_time > kOrderTimeoutMS

LEMMA QuietApart ==
    ASSUME IInv, ApartOrNoKnock, Quiet
    PROVE  ApartOrNoKnock'
BY DEF Quiet, ApartOrNoKnock, Risk!CanMatch, Risk!Side, Risk!Price

LEMMA RefuseOrderApart ==
    ASSUME IInv, ApartOrNoKnock, NEW m \in Message, Risk!RefuseOrder(m)
    PROVE  ApartOrNoKnock'
<1>1. \A o \in Risk!Order : inner'[o].create_time = inner[o].create_time
  BY WithErasedFacts DEF Risk!RefuseOrder
<1>2. stage' = stage
  BY DEF Risk!RefuseOrder, Risk!external
<1>3. QED
  BY <1>1, <1>2 DEF ApartOrNoKnock, Risk!Open, Risk!CanMatch, Risk!Side, Risk!Price

(* What a new order could match and is open is old: in the book it was looked  *)
(* at, and out of the book it is anyway.                                   *)
LEMMA OpponentIsOld ==
    ASSUME AllFlagged, IInv, NEW m \in Message, PassOrder(m),
           NEW o \in Risk!OrdersOf(m), NEW p \in Risk!Order \ Risk!OrdersOf(m),
           Risk!Open(p)', Risk!CanMatch(o, p) \/ Risk!CanMatch(p, o)
    PROVE  Apart(o, p)'
<1>1. stage[p] # "unsent"
  BY PassOrderEffect DEF Risk!Open
<1>2. Old(p)
  <2>1. CASE p \in book
    <3>1. /\ Risk!Price(o) \in Nat /\ Risk!Price(p) \in Nat
          /\ Risk!BsFlag(o) = Risk!Side(o) /\ Risk!BsFlag(p) = Risk!Side(p)
      <4>1. ASSUME NEW q \in Risk!Order
            PROVE  Risk!Price(q) \in Nat /\ Risk!BsFlag(q) = Risk!Side(q)
        <5>1. Items[q[1]] \in Seq(Risk!OrderType) /\ q[2] \in 1 .. Len(Items[q[1]])
          BY OrderFacts, ItemsAssumption
        <5>2. Items[q[1]][q[2]] \in Risk!OrderType
          BY <5>1
        <5>3. QED
          BY <5>2
             DEF AllFlagged, Risk!Flagged, Risk!Price, Risk!BsFlag, Risk!Side, Risk!OrderType
      <4>2. QED
        BY <4>1, OrdersOfFacts
    <3>2. Risk!Cross(o, p)
      BY <3>1 DEF Risk!CanMatch, Risk!Cross
    <3>3. QED
      BY <2>1, <3>2, PassOrderEffect
  <2>2. CASE p \notin book
    BY <1>1, <2>2 DEF IInv, OnlyAge, AllFlagged
  <2>3. QED
    BY <2>1, <2>2
<1>3. inner'[o].create_time = now /\ inner'[p].create_time = inner[p].create_time
  <2>1. o \in Risk!Entered(m) /\ o \in Risk!Order /\ p \notin Risk!Entered(m)
    BY PassOrderEffect, OrdersOfFacts DEF AllFlagged
  <2>2. QED
    BY <2>1, PassOrderEffect, PassedOrderFacts, WithErasedFacts
<1>4. QED
  BY <1>2, <1>3 DEF Apart, Old

LEMMA PassOrderApart ==
    ASSUME NoneCrossesItself, AllFlagged, IInv, ApartOrNoKnock, NEW m \in Message, PassOrder(m)
    PROVE  ApartOrNoKnock'
<1> DEFINE own == Risk!OrdersOf(m)
<1> SUFFICES ASSUME NEW o \in Risk!Order, NEW p \in Risk!Order,
                    Risk!Open(o)', Risk!Open(p)', Risk!CanMatch(o, p)
             PROVE  Apart(o, p)'
  BY DEF ApartOrNoKnock, Apart, Risk!CanMatch, Risk!Side, Risk!Price
<1>1. CASE o \in own /\ p \in own
  <2>1. o[1] = m /\ p[1] = m
    BY <1>1, OrdersOfFacts
  <2>2. ~Risk!CanMatch(o, p)
    BY <2>1 DEF NoneCrossesItself
  <2>3. QED
    BY <2>2 DEF Risk!CanMatch, Risk!Side, Risk!Price
<1>2. CASE o \in own /\ p \notin own
  BY <1>2, OpponentIsOld
<1>3. CASE o \notin own /\ p \in own
  <2>1. Apart(p, o)'
    BY <1>3, OpponentIsOld
  <2>2. QED
    BY <2>1 DEF Apart
<1>4. CASE o \notin own /\ p \notin own
  <2>1. Risk!Open(o) /\ Risk!Open(p)
    BY <1>4, PassOrderEffect DEF Risk!Open
  <2>2. /\ inner'[o].create_time = inner[o].create_time
        /\ inner'[p].create_time = inner[p].create_time
    BY <1>4, PassOrderEffect, WithErasedFacts DEF Risk!Entered
  <2>3. QED
    BY <2>1, <2>2 DEF ApartOrNoKnock, Apart
<1>5. QED
  BY <1>1, <1>2, <1>3, <1>4

LEMMA InitApart == Init => ApartOrNoKnock
BY DEF Init, Risk!Init, ApartOrNoKnock, Risk!Open

LEMMA NextApart ==
    NoneCrossesItself /\ AllFlagged /\ IInv /\ ApartOrNoKnock /\ [Next]_vars
      => ApartOrNoKnock'
BY NextEffect, PassOrderApart, RefuseOrderApart, QuietApart

(* Two orders that could match are both open only if they were sent more than  *)
(* kOrderTimeoutMS apart, when no two orders of a message could match and    *)
(* every item has its flag.                                                *)
THEOREM ApartOrNoKnockHolds ==
    NoneCrossesItself /\ AllFlagged => (Spec => []ApartOrNoKnock)
<1> SUFFICES ASSUME NoneCrossesItself, AllFlagged
             PROVE  Spec => []ApartOrNoKnock
  OBVIOUS
<1>1. IInv /\ ApartOrNoKnock /\ [Next]_vars => ApartOrNoKnock'
  BY NextApart
<1>2. QED
  BY Invariance, InitApart, <1>1, PTL DEF Spec
================================================================================
