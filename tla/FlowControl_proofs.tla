--------------------------- MODULE FlowControl_proofs ---------------------------
(* Theorems about FlowControl, for every value of its constants. *)
EXTENDS FlowControl, SequenceTheorems, FiniteSetTheorems, WellFoundedInduction, TLAPS

(* The loop of GetMaxPriorityItem stops: some prefix of the send times is    *)
(* the one it removes, every time in it is out of the window, and the next   *)
(* one is not.                                                             *)
LEMMA ExpiredPrefixExists ==
    ASSUME NEW q \in Seq(Nat)
    PROVE  /\ ExpiredPrefix(q) \in 0 .. Len(q)
           /\ \A i \in 1 .. ExpiredPrefix(q) : Expired(q[i])
           /\ ExpiredPrefix(q) < Len(q) => ~Expired(q[ExpiredPrefix(q) + 1])
<1> DEFINE Stop == {k \in 0 .. Len(q) : k < Len(q) => ~Expired(q[k + 1])}
           Less == StrictSubsetOrdering(Nat)
           Intervals == {0 .. k : k \in Stop}
<1>1. Stop \subseteq Nat /\ Stop # {}
  <2>1. Len(q) \in Stop
    OBVIOUS
  <2>2. QED
    BY <2>1
<1>2. PICK I \in Intervals : \A J \in Intervals : ~(<<J, I>> \in Less)
  <2>1. ASSUME NEW J \in Intervals
        PROVE  J \in FiniteSubsetsOf(Nat)
    <3>1. PICK k \in Stop : J = 0 .. k
      OBVIOUS
    <3>2. k \in Int /\ J \subseteq Nat
      BY <1>1, <3>1
    <3>3. IsFiniteSet(J)
      BY <3>1, <3>2, FS_Interval
    <3>4. QED
      BY <3>2, <3>3 DEF FiniteSubsetsOf
  <2>2. Intervals \subseteq FiniteSubsetsOf(Nat) /\ Intervals # {}
    BY <1>1, <2>1
  <2>3. IsWellFoundedOn(Less, FiniteSubsetsOf(Nat))
    BY FS_StrictSubsetOrderingWellFounded
  <2> HIDE DEF Intervals, Less
  <2>4. QED
    BY <2>2, <2>3, WFMin
<1>3. PICK k \in Stop : I = 0 .. k
  OBVIOUS
<1>4. ASSUME NEW j \in Stop, j < k
      PROVE  FALSE
  <2>1. 0 .. j \subseteq Nat /\ 0 .. k \subseteq Nat /\ 0 .. j \subseteq 0 .. k
    BY <1>1, <1>4
  <2>2. 0 .. j # 0 .. k
    <3>1. k \in 0 .. k /\ k \notin 0 .. j
      BY <1>1, <1>4
    <3>2. QED
      BY <3>1
  <2>3. 0 .. j \in Intervals
    OBVIOUS
  <2>4. <<0 .. j, I>> \in Less
    BY <2>1, <2>2, <1>3 DEF StrictSubsetOrdering
  <2>5. QED
    BY <1>2, <2>3, <2>4
<1>5. \A i \in 1 .. k : Expired(q[i])
  <2>1. SUFFICES ASSUME NEW i \in 1 .. k
                 PROVE  Expired(q[i])
    OBVIOUS
  <2>2. i - 1 \in 0 .. Len(q) /\ i - 1 < k /\ (i - 1) + 1 = i
    OBVIOUS
  <2>3. i - 1 \notin Stop
    BY <1>4, <2>2
  <2>4. QED
    BY <2>2, <2>3
<1>6. QED
  BY <1>5 DEF ExpiredPrefix

(* What InWindow returns: the rest of the send times, in their order. *)
LEMMA InWindowProperties ==
    ASSUME NEW q \in Seq(Nat)
    PROVE  /\ InWindow(q) \in Seq(Nat)
           /\ Len(InWindow(q)) = Len(q) - ExpiredPrefix(q)
           /\ \A i \in 1 .. Len(InWindow(q)) : InWindow(q)[i] = q[ExpiredPrefix(q) + i]
<1> DEFINE k == ExpiredPrefix(q)
<1>1. k \in 0 .. Len(q) /\ Len(q) \in Nat
  BY ExpiredPrefixExists
<1>2. \A i \in k + 1 .. Len(q) : q[i] \in Nat
  BY <1>1, ElementOfSeq
<1> HIDE DEF k
<1>3. /\ SubSeq(q, k + 1, Len(q)) \in Seq(Nat)
      /\ Len(SubSeq(q, k + 1, Len(q))) = IF k + 1 <= Len(q) THEN Len(q) - (k + 1) + 1 ELSE 0
      /\ \A i \in 1 .. Len(q) - (k + 1) + 1 : SubSeq(q, k + 1, Len(q))[i] = q[(k + 1) + i - 1]
  BY <1>1, <1>2, SubSeqProperties
<1>4. InWindow(q) = SubSeq(q, k + 1, Len(q))
  BY DEF InWindow, k
<1>5. Len(InWindow(q)) = Len(q) - k
  BY <1>1, <1>3, <1>4
<1>6. ASSUME NEW i \in 1 .. Len(q) - k
      PROVE  InWindow(q)[i] = q[k + i]
  <2>1. i \in 1 .. Len(q) - (k + 1) + 1 /\ (k + 1) + i - 1 = k + i
    BY <1>1
  <2>2. QED
    BY <2>1, <1>3, <1>4
<1>7. QED
  BY <1>3, <1>4, <1>5, <1>6 DEF k

(* A burst of n commands sent at one time. *)
LEMMA BurstProperties ==
    ASSUME NEW n \in Nat, NEW t \in Nat
    PROVE  /\ [i \in 1 .. n |-> t] \in Seq(Nat)
           /\ Len([i \in 1 .. n |-> t]) = n
<1>1. [i \in 1 .. n |-> t] \in [1 .. n -> Nat]
  OBVIOUS
<1>2. [i \in 1 .. n |-> t] \in Seq(Nat)
  BY <1>1, SeqDef
<1>3. DOMAIN [i \in 1 .. n |-> t] = 1 .. n
  OBVIOUS
<1>4. QED
  BY <1>2, <1>3

(* The top of a market is an item of its queue. *)
LEMMA TopIsQueued ==
    ASSUME TypeOK, NEW top \in TopChoices, NEW m \in Busy
    PROVE  /\ m \in FlowMarkets
           /\ top[m] \in flow_control_queue_[m]
           /\ top[m] \in FlowControlItem
           /\ top[m].sub_order_size \in Nat
           /\ top[m].msg \in Request
<1>1. m \in FlowMarkets
  BY DEF Busy, PolledMarkets
<1>2. top[m] \in flow_control_queue_[m]
  BY DEF TopChoices, Tops
<1>3. top[m] \in FlowControlItem
  BY <1>1, <1>2 DEF TypeOK
<1>4. QED
  BY <1>1, <1>2, <1>3 DEF FlowControlItem

(* Filling in the errors of the tops keeps error a set of messages. *)
LEMMA PeekType ==
    ASSUME TypeOK, NEW top \in TopChoices, Peek(top)
    PROVE  error' \subseteq Request
<1>1. \A m \in Ready(top) : top[m].msg \in Request
  BY TopIsQueued DEF Ready
<1>2. QED
  BY <1>1 DEF Peek, TypeOK

(* Pruning the windows keeps them sequences of times. *)
LEMMA ExpireSentType ==
    ASSUME TypeOK, ExpireSent
    PROVE  sent_ns_queue_' \in [FlowMarkets -> Seq(Nat)]
BY InWindowProperties DEF TypeOK, ExpireSent

(* An arrival keeps the type of what it changes. *)
LEMMA ArriveType ==
    ASSUME TypeOK, NEW r \in Request, Arrive(r)
    PROVE  /\ now' \in Nat
           /\ sent_ns_queue_' \in [FlowMarkets -> Seq(Nat)]
           /\ total_cmd_size_' \in [FlowMarkets -> Nat]
           /\ error' \subseteq Request
           /\ state_total_cmd_size' \in [FlowMarkets -> Nat]
           /\ arrived' \subseteq Request
           /\ delivered' \subseteq Request
           /\ lost' \subseteq Request
           /\ sent_log' \in [FlowMarkets -> Seq(Nat)]
           /\ log_from' \in [FlowMarkets -> Nat]
           /\ passed_today' \in [FlowMarkets -> Nat]
           /\ restarts' \in Nat
BY DEF TypeOK, Arrive

(* Queueing a message, in its market or in the normal queue, keeps the *)
(* types. *)
LEMMA EnqueueType ==
    ASSUME TypeOK, NEW r \in Request, NEW amount \in Nat, NEW size \in Nat,
           Enqueue(r, amount, size)
    PROVE  /\ flow_control_queue_' \in [FlowMarkets -> SUBSET FlowControlItem]
           /\ cmd_size_' \in [FlowMarkets -> Int]
           /\ normal_queue_' \in Seq(Request)
<1>1. CASE Msg[r].market \in FlowMarkets
  <2> DEFINE item == [timestamp |-> now, order_amount |-> amount,
                      sub_order_size |-> size, msg |-> r]
             m == Msg[r].market
  <2>0. m \in FlowMarkets
    BY <1>1
  <2>1. item \in FlowControlItem
    BY DEF FlowControlItem, TypeOK
  <2>2. MarketPush(m, item) /\ UNCHANGED normal_queue_
    BY <1>1 DEF Enqueue
  <2> HIDE DEF item, m
  <2>3. flow_control_queue_' \in [FlowMarkets -> SUBSET FlowControlItem]
    BY <2>1, <2>2 DEF MarketPush, TypeOK
  <2>4. cmd_size_' \in [FlowMarkets -> Int]
    <3>1. cmd_size_' = [cmd_size_ EXCEPT ![m] = @ + 1]
      BY <2>2 DEF MarketPush
    <3>2. cmd_size_ \in [FlowMarkets -> Int]
      BY DEF TypeOK
    <3>3. cmd_size_[m] + 1 \in Int
      BY <2>0, <3>2
    <3>4. QED
      BY <3>1, <3>2, <3>3
  <2>5. normal_queue_' \in Seq(Request)
    BY <2>2 DEF TypeOK
  <2>6. QED
    BY <2>3, <2>4, <2>5
<1>2. CASE Msg[r].market \notin FlowMarkets
  <2>1. /\ normal_queue_' = Append(normal_queue_, r)
        /\ UNCHANGED <<flow_control_queue_, cmd_size_>>
    BY <1>2 DEF Enqueue
  <2>2. normal_queue_' \in Seq(Request)
    BY <2>1, AppendProperties DEF TypeOK
  <2>3. QED
    BY <2>1, <2>2 DEF TypeOK
<1>3. QED
  BY <1>1, <1>2

(* Push keeps TypeOK, whatever the message. *)
LEMMA PushType ==
    ASSUME TypeOK, NEW r \in Request, Push(r)
    PROVE  TypeOK'
<1>1. Arrive(r)
  BY DEF Push, PushOrder, PushEmptyOrder, PushWithdraw, PushOther
<1>2. Msg[r] \in MessageType
  BY MessageAssumption
<1>3. /\ flow_control_queue_' \in [FlowMarkets -> SUBSET FlowControlItem]
      /\ cmd_size_' \in [FlowMarkets -> Int]
      /\ normal_queue_' \in Seq(Request)
  <2>1. CASE PushOrder(r)
    <3>1. OrderAmount(r) \in Nat /\ Msg[r].items_size \in Nat
      BY <1>2, NumberAssumption DEF OrderAmount, MessageType
    <3>2. QED
      BY <2>1, <3>1, EnqueueType DEF PushOrder
  <2>2. CASE PushEmptyOrder(r)
    BY <2>2 DEF PushEmptyOrder, TypeOK
  <2>3. CASE PushWithdraw(r)
    <3>1. WithdrawSize(r) \in Nat /\ kFlowControlPriorityWithdraw \in Nat
      BY <1>2, NumberAssumption DEF WithdrawSize, MessageType
    <3>2. QED
      BY <2>3, <3>1, EnqueueType DEF PushWithdraw
  <2>4. CASE PushOther(r)
    <3>1. /\ normal_queue_' = Append(normal_queue_, r)
          /\ UNCHANGED <<flow_control_queue_, cmd_size_>>
      BY <2>4 DEF PushOther
    <3>2. normal_queue_' \in Seq(Request)
      BY <3>1, AppendProperties DEF TypeOK
    <3>3. QED
      BY <3>1, <3>2 DEF TypeOK
  <2>5. QED
    BY <2>1, <2>2, <2>3, <2>4 DEF Push
<1>4. QED
  BY <1>1, <1>3, ArriveType DEF TypeOK

(* Returning an item of a market keeps TypeOK. *)
LEMMA PopFlowType ==
    ASSUME TypeOK, NEW top \in TopChoices, NEW m \in Busy, PopFlow(top, m)
    PROVE  TypeOK'
<1> DEFINE item == top[m]
           size == item.sub_order_size
           burst == [i \in 1 .. size |-> now]
<1>1. /\ m \in FlowMarkets
      /\ item \in FlowControlItem
      /\ size \in Nat
      /\ item.msg \in Request
  BY TopIsQueued
<1>2. burst \in Seq(Nat)
  BY <1>1, BurstProperties DEF TypeOK
<1>3. TryPop(m, item) /\ Peek(top)
  BY DEF PopFlow
<1>4. /\ delivered' = delivered \cup {item.msg}
      /\ sent_log' = [sent_log EXCEPT ![m] = @ \o burst]
      /\ passed_today' = [passed_today EXCEPT
                             ![m] = IF item.msg \in error' THEN @ ELSE @ + size]
      /\ UNCHANGED <<now, normal_queue_, arrived, lost, log_from, restarts>>
  BY DEF PopFlow
<1>5. /\ flow_control_queue_' = [flow_control_queue_ EXCEPT ![m] = @ \ {item}]
      /\ cmd_size_' = [cmd_size_ EXCEPT ![m] = @ - size]
      /\ sent_ns_queue_' =
           [n \in FlowMarkets |->
              IF n = m THEN InWindow(sent_ns_queue_[n]) \o burst
              ELSE IF n \in PolledMarkets THEN InWindow(sent_ns_queue_[n])
              ELSE sent_ns_queue_[n]]
      /\ total_cmd_size_' = [total_cmd_size_ EXCEPT ![m] = @ + size]
      /\ state_total_cmd_size' = [state_total_cmd_size EXCEPT ![m] = @ + size]
  BY <1>3 DEF TryPop
<1>6. error' \subseteq Request
  BY <1>3, PeekType
<1> HIDE DEF burst, size, item
<1>7. flow_control_queue_' \in [FlowMarkets -> SUBSET FlowControlItem]
  BY <1>5 DEF TypeOK
<1>8. cmd_size_' \in [FlowMarkets -> Int]
  <2>1. cmd_size_[m] - size \in Int
    BY <1>1 DEF TypeOK
  <2>2. QED
    BY <1>5, <2>1 DEF TypeOK
<1>9. sent_ns_queue_' \in [FlowMarkets -> Seq(Nat)]
  <2>1. \A n \in FlowMarkets : sent_ns_queue_[n] \in Seq(Nat)
    BY DEF TypeOK
  <2>2. \A n \in FlowMarkets : InWindow(sent_ns_queue_[n]) \in Seq(Nat)
    BY <2>1, InWindowProperties
  <2>3. InWindow(sent_ns_queue_[m]) \o burst \in Seq(Nat)
    BY <1>1, <1>2, <2>2, ConcatProperties
  <2>4. QED
    BY <1>5, <2>1, <2>2, <2>3
<1>10. total_cmd_size_' \in [FlowMarkets -> Nat] /\ state_total_cmd_size' \in [FlowMarkets -> Nat]
  <2>1. total_cmd_size_[m] + size \in Nat /\ state_total_cmd_size[m] + size \in Nat
    BY <1>1 DEF TypeOK
  <2>2. QED
    BY <1>5, <2>1 DEF TypeOK
<1>11. sent_log' \in [FlowMarkets -> Seq(Nat)]
  <2>1. sent_log[m] \o burst \in Seq(Nat)
    BY <1>1, <1>2, ConcatProperties DEF TypeOK
  <2>2. QED
    BY <1>4, <2>1 DEF TypeOK
<1>12. passed_today' \in [FlowMarkets -> Nat]
  <2>1. passed_today[m] + size \in Nat
    BY <1>1 DEF TypeOK
  <2>2. QED
    BY <1>4, <2>1 DEF TypeOK
<1>13. QED
  BY <1>1, <1>4, <1>6, <1>7, <1>8, <1>9, <1>10, <1>11, <1>12 DEF TypeOK

(* Returning a message of the normal queue keeps TypeOK. *)
LEMMA PopNormalType ==
    ASSUME TypeOK, NEW top \in TopChoices, PopNormal(top)
    PROVE  TypeOK'
<1>1. normal_queue_ \in Seq(Request) /\ normal_queue_ # << >>
  BY DEF PopNormal, TypeOK
<1>2. Head(normal_queue_) \in Request /\ Tail(normal_queue_) \in Seq(Request)
  BY <1>1, HeadTailProperties
<1>3. error' \subseteq Request /\ sent_ns_queue_' \in [FlowMarkets -> Seq(Nat)]
  BY PeekType, ExpireSentType DEF PopNormal
<1>4. QED
  BY <1>2, <1>3 DEF PopNormal, TypeOK

(* A Pop that returns nothing keeps TypeOK. *)
LEMMA PopNothingType ==
    ASSUME TypeOK, NEW top \in TopChoices, PopNothing(top)
    PROVE  TypeOK'
<1>1. error' \subseteq Request /\ sent_ns_queue_' \in [FlowMarkets -> Seq(Nat)]
  BY PeekType, ExpireSentType DEF PopNothing
<1>2. QED
  BY <1>1 DEF PopNothing, TypeOK, history

(* A restart keeps TypeOK. *)
LEMMA RestartType ==
    ASSUME TypeOK, NEW new_day \in BOOLEAN, Restart(new_day)
    PROVE  TypeOK'
<1>1. Queued \subseteq Request
  BY DEF Queued, TypeOK, FlowControlItem
<1>2. InNormal \subseteq Request
  BY ElementOfSeq DEF InNormal, TypeOK
<1>3. \A m \in FlowMarkets : Len(sent_log[m]) \in Nat
  BY DEF TypeOK
<1>4. << >> \in Seq(Nat) /\ << >> \in Seq(Request)
  BY EmptySeq
<1>5. state_total_cmd_size' \in [FlowMarkets -> Nat]
  BY DEF Restart, TypeOK
<1>6. /\ sent_ns_queue_' \in [FlowMarkets -> Seq(Nat)]
      /\ normal_queue_' \in Seq(Request)
      /\ log_from' \in [FlowMarkets -> Nat]
      /\ passed_today' \in [FlowMarkets -> Nat]
      /\ lost' \subseteq Request
  BY <1>1, <1>2, <1>3, <1>4 DEF Restart, TypeOK
<1>7. /\ flow_control_queue_' \in [FlowMarkets -> SUBSET FlowControlItem]
      /\ cmd_size_' \in [FlowMarkets -> Int]
      /\ restarts' \in Nat
  BY DEF Restart, TypeOK
<1>8. total_cmd_size_' \in [FlowMarkets -> Nat]
  BY <1>5 DEF Restart
<1>9. UNCHANGED <<now, error, arrived, delivered, sent_log>>
  BY DEF Restart
<1>10. QED
  BY <1>5, <1>6, <1>7, <1>8, <1>9 DEF TypeOK

(* Every step keeps the types. *)
LEMMA NextType ==
    ASSUME TypeOK, [Next]_vars
    PROVE  TypeOK'
<1>1. CASE \E r \in Request : Push(r)
  BY <1>1, PushType
<1>2. CASE Pop
  BY <1>2, PopFlowType, PopNormalType, PopNothingType DEF Pop
<1>3. CASE \E new_day \in BOOLEAN : Restart(new_day)
  BY <1>3, RestartType
<1>4. CASE Tick
  BY <1>4 DEF Tick, TypeOK, memory, history
<1>5. CASE UNCHANGED vars
  BY <1>5 DEF vars, TypeOK, memory, history
<1>6. QED
  BY <1>1, <1>2, <1>3, <1>4, <1>5 DEF Next

(* The queues of a new process have their types. *)
LEMMA InitType == Init => TypeOK
BY EmptySeq DEF Init, TypeOK

(* In every behaviour the variables keep their types. *)
THEOREM TypeCorrect == Spec => []TypeOK
<1>1. TypeOK /\ [Next]_vars => TypeOK'
  BY NextType
<1>2. QED
  BY InitType, <1>1, PTL DEF Spec

--------------------------------------------------------------------------------
(* The window *)

(* Dropping the expired prefix keeps the queue right about the window. *)
LEMMA PruneWindow ==
    ASSUME NEW q \in Seq(Nat), NEW log \in Seq(Nat), NEW from \in Nat,
           WindowOf(q, log, from)
    PROVE  WindowOf(InWindow(q), log, from)
<1> DEFINE k == ExpiredPrefix(q)
           old == Len(log) - Len(q)
<1>1. /\ k \in 0 .. Len(q)
      /\ \A i \in 1 .. k : Expired(q[i])
  BY ExpiredPrefixExists
<1>2. /\ Len(InWindow(q)) = Len(q) - k
      /\ \A i \in 1 .. Len(InWindow(q)) : InWindow(q)[i] = q[k + i]
  BY InWindowProperties
<1>3. /\ from <= old
      /\ \A i \in 1 .. Len(q) : q[i] = log[old + i]
      /\ \A i \in from + 1 .. old : Expired(log[i])
  BY DEF WindowOf
<1>4. Len(q) \in Nat /\ Len(log) \in Nat
  OBVIOUS
<1> HIDE DEF k
<1>5. Len(log) - Len(InWindow(q)) = old + k
  BY <1>1, <1>2, <1>4
<1>6. ASSUME NEW i \in 1 .. Len(InWindow(q))
      PROVE  InWindow(q)[i] = log[(old + k) + i]
  <2>1. k + i \in 1 .. Len(q) /\ old + (k + i) = (old + k) + i
    BY <1>1, <1>2, <1>4
  <2>2. QED
    BY <1>2, <1>3, <2>1
<1>7. ASSUME NEW i \in from + 1 .. old + k
      PROVE  Expired(log[i])
  <2>1. CASE i <= old
    BY <1>3, <1>4, <2>1
  <2>2. CASE ~(i <= old)
    <3>1. i - old \in 1 .. k /\ i - old \in 1 .. Len(q) /\ old + (i - old) = i
      BY <1>1, <1>4, <2>2
    <3>2. QED
      BY <1>1, <1>3, <3>1
  <2>3. QED
    BY <2>1, <2>2
<1>8. from <= old + k
  BY <1>1, <1>3, <1>4
<1> DEFINE rest == InWindow(q)
           newOld == Len(log) - Len(rest)
<1>9. /\ from <= newOld
      /\ \A i \in 1 .. Len(rest) : rest[i] = log[newOld + i]
      /\ \A i \in from + 1 .. newOld : Expired(log[i])
  BY <1>5, <1>6, <1>7, <1>8
<1>10. QED
  BY <1>9 DEF WindowOf

(* Appending the same send times to the queue and to the log keeps it right. *)
LEMMA BurstWindow ==
    ASSUME NEW q \in Seq(Nat), NEW log \in Seq(Nat), NEW from \in Nat,
           NEW burst \in Seq(Nat), WindowOf(q, log, from)
    PROVE  WindowOf(q \o burst, log \o burst, from)
<1> DEFINE old == Len(log) - Len(q)
<1>1. /\ Len(q \o burst) = Len(q) + Len(burst)
      /\ Len(log \o burst) = Len(log) + Len(burst)
      /\ \A i \in 1 .. Len(q) + Len(burst) :
            (q \o burst)[i] = IF i <= Len(q) THEN q[i] ELSE burst[i - Len(q)]
      /\ \A i \in 1 .. Len(log) + Len(burst) :
            (log \o burst)[i] = IF i <= Len(log) THEN log[i] ELSE burst[i - Len(log)]
  BY ConcatProperties
<1>2. Len(q) \in Nat /\ Len(log) \in Nat /\ Len(burst) \in Nat
  OBVIOUS
<1>3. /\ from <= old
      /\ \A i \in 1 .. Len(q) : q[i] = log[old + i]
      /\ \A i \in from + 1 .. old : Expired(log[i])
  BY DEF WindowOf
<1>4. Len(log \o burst) - Len(q \o burst) = old
  BY <1>1, <1>2
<1>5. ASSUME NEW i \in 1 .. Len(q) + Len(burst)
      PROVE  (q \o burst)[i] = (log \o burst)[old + i]
  <2>1. old + i \in 1 .. Len(log) + Len(burst) /\ (i <= Len(q) <=> old + i <= Len(log))
    BY <1>2, <1>3
  <2>2. (old + i) - Len(log) = i - Len(q)
    BY <1>2
  <2>3. CASE i <= Len(q)
    BY <1>1, <1>2, <1>3, <2>1, <2>3
  <2>4. CASE ~(i <= Len(q))
    BY <1>1, <2>1, <2>2, <2>4
  <2>5. QED
    BY <2>3, <2>4
<1>6. ASSUME NEW i \in from + 1 .. old
      PROVE  Expired((log \o burst)[i])
  <2>1. i \in 1 .. Len(log) + Len(burst) /\ i <= Len(log)
    BY <1>2
  <2>2. QED
    BY <1>1, <1>3, <2>1
<1>7. QED
  BY <1>1, <1>3, <1>4, <1>5, <1>6 DEF WindowOf

(* A step that sends nothing and expires at most what is out of the window. *)
LEMMA QuietWindow ==
    ASSUME TypeOK, WindowExact, UNCHANGED <<now, sent_log, log_from>>,
           UNCHANGED sent_ns_queue_ \/ ExpireSent
    PROVE  WindowExact'
<1> SUFFICES ASSUME NEW m \in FlowMarkets
             PROVE  WindowOf(sent_ns_queue_[m], sent_log[m], log_from[m])'
  BY DEF WindowExact
<1>1. /\ sent_ns_queue_[m] \in Seq(Nat)
      /\ sent_log[m] \in Seq(Nat)
      /\ log_from[m] \in Nat
  BY DEF TypeOK
<1>2. WindowOf(sent_ns_queue_[m], sent_log[m], log_from[m])
  BY DEF WindowExact
<1>3. sent_ns_queue_'[m] = sent_ns_queue_[m] \/ sent_ns_queue_'[m] = InWindow(sent_ns_queue_[m])
  BY DEF ExpireSent
<1>4. WindowOf(sent_ns_queue_'[m], sent_log[m], log_from[m])
  BY <1>1, <1>2, <1>3, PruneWindow
<1>5. QED
  BY <1>4 DEF WindowOf, Expired

(* What PopFlow does to one market, in the terms of the lemmas above. *)
LEMMA PopFlowEffect ==
    ASSUME TypeOK, NEW top \in TopChoices, NEW m \in Busy, PopFlow(top, m)
    PROVE  LET size == top[m].sub_order_size
               burst == [i \in 1 .. size |-> now]
           IN  /\ m \in FlowMarkets
               /\ size \in Nat
               /\ burst \in Seq(Nat)
               /\ Len(burst) = size
               /\ UNCHANGED <<now, log_from>>
               /\ sent_log' = [sent_log EXCEPT ![m] = @ \o burst]
               /\ sent_ns_queue_'[m] = InWindow(sent_ns_queue_[m]) \o burst
               /\ \A n \in FlowMarkets \ {m} :
                     \/ sent_ns_queue_'[n] = sent_ns_queue_[n]
                     \/ sent_ns_queue_'[n] = InWindow(sent_ns_queue_[n])
               /\ Len(InWindow(sent_ns_queue_[m])) + size <= th_tps_limit[m]
<1> DEFINE size == top[m].sub_order_size
           burst == [i \in 1 .. size |-> now]
<1>1. m \in FlowMarkets /\ size \in Nat
  BY TopIsQueued
<1>2. burst \in Seq(Nat) /\ Len(burst) = size
  BY <1>1, BurstProperties DEF TypeOK
<1>3. UNCHANGED <<now, log_from>> /\ sent_log' = [sent_log EXCEPT ![m] = @ \o burst]
  BY DEF PopFlow
<1>4. sent_ns_queue_' =
        [n \in FlowMarkets |->
           IF n = m THEN InWindow(sent_ns_queue_[n]) \o burst
           ELSE IF n \in PolledMarkets THEN InWindow(sent_ns_queue_[n])
           ELSE sent_ns_queue_[n]]
  BY DEF PopFlow, TryPop
<1>5. Len(InWindow(sent_ns_queue_[m])) + size <= th_tps_limit[m]
  BY DEF PopFlow, Ready, HasRoom
<1> HIDE DEF burst, size
<1>6. sent_ns_queue_'[m] = InWindow(sent_ns_queue_[m]) \o burst
  BY <1>1, <1>4
<1>7. \A n \in FlowMarkets \ {m} :
          \/ sent_ns_queue_'[n] = sent_ns_queue_[n]
          \/ sent_ns_queue_'[n] = InWindow(sent_ns_queue_[n])
  BY <1>4
<1>8. QED
  BY <1>1, <1>2, <1>3, <1>5, <1>6, <1>7 DEF burst, size

(* Returning an item keeps every window the exact end of its log. *)
LEMMA PopFlowWindow ==
    ASSUME TypeOK, WindowExact, NEW top \in TopChoices, NEW m \in Busy, PopFlow(top, m)
    PROVE  WindowExact'
<1> DEFINE size == top[m].sub_order_size
           burst == [i \in 1 .. size |-> now]
<1>1. /\ m \in FlowMarkets
      /\ burst \in Seq(Nat)
      /\ UNCHANGED <<now, log_from>>
      /\ sent_log' = [sent_log EXCEPT ![m] = @ \o burst]
      /\ sent_ns_queue_'[m] = InWindow(sent_ns_queue_[m]) \o burst
      /\ \A n \in FlowMarkets \ {m} :
            \/ sent_ns_queue_'[n] = sent_ns_queue_[n]
            \/ sent_ns_queue_'[n] = InWindow(sent_ns_queue_[n])
  BY PopFlowEffect
<1> HIDE DEF burst
<1> SUFFICES ASSUME NEW n \in FlowMarkets
             PROVE  WindowOf(sent_ns_queue_[n], sent_log[n], log_from[n])'
  BY DEF WindowExact
<1>2. /\ sent_ns_queue_[n] \in Seq(Nat)
      /\ sent_log[n] \in Seq(Nat)
      /\ log_from[n] \in Nat
  BY DEF TypeOK
<1>3. /\ WindowOf(sent_ns_queue_[n], sent_log[n], log_from[n])
      /\ WindowOf(InWindow(sent_ns_queue_[n]), sent_log[n], log_from[n])
  BY <1>2, PruneWindow DEF WindowExact
<1>4. WindowOf(sent_ns_queue_'[n], sent_log'[n], log_from[n])
  <2>1. CASE n = m
    <3>1. sent_log'[n] = sent_log[n] \o burst
      BY <1>1, <2>1 DEF TypeOK
    <3>2. InWindow(sent_ns_queue_[n]) \in Seq(Nat)
      BY <1>2, InWindowProperties
    <3>3. QED
      BY <1>1, <1>2, <1>3, <2>1, <3>1, <3>2, BurstWindow
  <2>2. CASE n # m
    <3>1. sent_log'[n] = sent_log[n]
      BY <1>1, <2>2 DEF TypeOK
    <3>2. QED
      BY <1>1, <1>3, <2>2, <3>1
  <2>3. QED
    BY <2>1, <2>2
<1>5. QED
  BY <1>1, <1>4 DEF WindowOf, Expired

(* A restart leaves empty windows: all of the log is older than the *)
(* process. *)
LEMMA RestartWindow ==
    ASSUME TypeOK, NEW new_day \in BOOLEAN, Restart(new_day)
    PROVE  WindowExact'
<1> SUFFICES ASSUME NEW m \in FlowMarkets
             PROVE  WindowOf(sent_ns_queue_[m], sent_log[m], log_from[m])'
  BY DEF WindowExact
<1>1. sent_ns_queue_'[m] = << >> /\ log_from'[m] = Len(sent_log[m]) /\ sent_log' = sent_log
  BY DEF Restart
<1>2. Len(sent_log[m]) \in Nat
  BY DEF TypeOK
<1>3. QED
  BY <1>1, <1>2 DEF WindowOf

(* What is out of the window stays out as time passes. *)
LEMMA TickWindow ==
    ASSUME TypeOK, WindowExact, Tick
    PROVE  WindowExact'
<1> SUFFICES ASSUME NEW m \in FlowMarkets
             PROVE  WindowOf(sent_ns_queue_[m], sent_log[m], log_from[m])'
  BY DEF WindowExact
<1> DEFINE old == Len(sent_log[m]) - Len(sent_ns_queue_[m])
<1>1. WindowOf(sent_ns_queue_[m], sent_log[m], log_from[m])
  BY DEF WindowExact
<1>2. now' = now + 1 /\ UNCHANGED <<sent_ns_queue_, sent_log, log_from>>
  BY DEF Tick, memory, history
<1>3. ASSUME NEW i \in log_from[m] + 1 .. old
      PROVE  Expired(sent_log[m][i])'
  <2>1. Expired(sent_log[m][i])
    BY <1>1 DEF WindowOf
  <2>2. i \in 1 .. Len(sent_log[m])
    BY DEF TypeOK
  <2>3. sent_log[m][i] \in Nat /\ now \in Nat
    BY <2>2 DEF TypeOK
  <2>4. QED
    BY <1>2, <2>1, <2>3, NumberAssumption DEF Expired
<1>4. QED
  BY <1>1, <1>2, <1>3 DEF WindowOf

(* Every step keeps the queue right about the window. *)
LEMMA NextWindow ==
    ASSUME TypeOK, WindowExact, [Next]_vars
    PROVE  WindowExact'
<1>1. CASE \E r \in Request : Push(r)
  <2>1. UNCHANGED <<now, sent_ns_queue_, sent_log, log_from>>
    BY <1>1 DEF Push, PushOrder, PushEmptyOrder, PushWithdraw, PushOther, Arrive
  <2>2. QED
    BY <2>1, QuietWindow
<1>2. CASE Pop
  <2>1. ASSUME NEW top \in TopChoices, PopNormal(top) \/ PopNothing(top)
        PROVE  WindowExact'
    <3>1. UNCHANGED <<now, sent_log, log_from>> /\ ExpireSent
      BY <2>1 DEF PopNormal, PopNothing, history
    <3>2. QED
      BY <3>1, QuietWindow
  <2>2. QED
    BY <1>2, <2>1, PopFlowWindow DEF Pop
<1>3. CASE \E new_day \in BOOLEAN : Restart(new_day)
  BY <1>3, RestartWindow
<1>4. CASE Tick
  BY <1>4, TickWindow
<1>5. CASE UNCHANGED vars
  <2>1. UNCHANGED <<now, sent_ns_queue_, sent_log, log_from>>
    BY <1>5 DEF vars, memory, history
  <2>2. QED
    BY <2>1, QuietWindow
<1>6. QED
  BY <1>1, <1>2, <1>3, <1>4, <1>5 DEF Next

--------------------------------------------------------------------------------
(* The limits *)

(* A burst goes out only when everything it could overtake in the window is  *)
(* older than the window.                                                  *)
LEMMA PopFlowMaySend ==
    ASSUME TypeOK, WindowExact, NEW top \in TopChoices, NEW m \in Busy, PopFlow(top, m),
           NEW i \in log_from[m] + 1 .. Len(sent_log[m]),
           i <= Len(sent_log[m]) + top[m].sub_order_size - th_tps_limit[m]
    PROVE  now - sent_log[m][i] > kFlowControlWindowMS
<1> DEFINE size == top[m].sub_order_size
           q == InWindow(sent_ns_queue_[m])
           old == Len(sent_log[m]) - Len(q)
<1>1. m \in FlowMarkets /\ size \in Nat /\ Len(q) + size <= th_tps_limit[m]
  BY PopFlowEffect
<1>2. /\ sent_ns_queue_[m] \in Seq(Nat)
      /\ sent_log[m] \in Seq(Nat)
      /\ log_from[m] \in Nat
      /\ th_tps_limit[m] \in Nat
  BY <1>1, LimitAssumption DEF TypeOK
<1>3. WindowOf(q, sent_log[m], log_from[m])
  BY <1>1, <1>2, PruneWindow DEF WindowExact
<1>4. \A j \in log_from[m] + 1 .. old : Expired(sent_log[m][j])
  BY <1>3 DEF WindowOf
<1>5. Len(q) \in Nat /\ Len(sent_log[m]) \in Nat
  BY <1>2, InWindowProperties
<1> HIDE DEF q, size
<1>6. i <= Len(sent_log[m]) + size - th_tps_limit[m]
  BY DEF size
<1>7. i \in log_from[m] + 1 .. old
  BY <1>1, <1>2, <1>5, <1>6
<1>8. QED
  BY <1>4, <1>7 DEF Expired

(* Returning an item keeps any th_tps_limit_ + 1 send times spread over *)
(* more than a window. *)
LEMMA PopFlowRate ==
    ASSUME TypeOK, WindowExact, RateLimit,
           NEW top \in TopChoices, NEW m \in Busy, PopFlow(top, m)
    PROVE  RateLimit'
<1> DEFINE size == top[m].sub_order_size
           burst == [i \in 1 .. size |-> now]
           log == sent_log[m]
           limit == th_tps_limit[m]
<1>1. /\ m \in FlowMarkets
      /\ size \in Nat
      /\ burst \in Seq(Nat)
      /\ Len(burst) = size
      /\ UNCHANGED <<now, log_from>>
      /\ sent_log' = [sent_log EXCEPT ![m] = @ \o burst]
      /\ Len(InWindow(sent_ns_queue_[m])) + size <= limit
  BY PopFlowEffect
<1>2. log \in Seq(Nat) /\ Len(log) \in Nat /\ limit \in Nat /\ log_from[m] \in Nat
  <2>1. log \in Seq(Nat) /\ log_from[m] \in Nat
    BY <1>1 DEF TypeOK
  <2>2. limit \in Nat
    BY <1>1, LimitAssumption
  <2>3. QED
    BY <2>1, <2>2
<1>3. size <= limit
  <2>1. Len(InWindow(sent_ns_queue_[m])) \in Nat
    BY <1>1, InWindowProperties DEF TypeOK
  <2>2. QED
    BY <1>1, <1>2, <2>1
<1> HIDE DEF burst, size, log, limit
<1>4. ASSUME NEW i \in log_from[m] + 1 .. Len(log) + size - limit
      PROVE  (log \o burst)[i + limit] - (log \o burst)[i] > kFlowControlWindowMS
  <2>1. /\ i \in 1 .. Len(log) + size /\ i <= Len(log)
        /\ i + limit \in 1 .. Len(log) + size
    BY <1>1, <1>2, <1>3
  <2>2. \A j \in 1 .. Len(log) + size :
           (log \o burst)[j] = IF j <= Len(log) THEN log[j] ELSE burst[j - Len(log)]
    BY <1>1, <1>2, ConcatProperties
  <2>3. (log \o burst)[i] = log[i]
    BY <2>1, <2>2
  <2>4. CASE i + limit <= Len(log)
    <3>1. (log \o burst)[i + limit] = log[i + limit]
      BY <2>1, <2>2, <2>4
    <3>2. i \in log_from[m] + 1 .. Len(log) - limit
      BY <1>2, <2>4
    <3>3. log[i + limit] - log[i] > kFlowControlWindowMS
      BY <1>1, <3>2 DEF RateLimit, log, limit
    <3>4. QED
      BY <2>3, <3>1, <3>3
  <2>5. CASE ~(i + limit <= Len(log))
    <3>1. (i + limit) - Len(log) \in 1 .. size
      BY <1>1, <1>2, <2>1, <2>5
    <3>2. (log \o burst)[i + limit] = now
      BY <2>1, <2>2, <2>5, <3>1 DEF burst
    <3>3. i \in log_from[m] + 1 .. Len(log) /\ i <= Len(log) + size - limit
      BY <1>1, <1>2, <2>1
    <3>4. now - log[i] > kFlowControlWindowMS
      BY <3>3, PopFlowMaySend DEF log, limit, size
    <3>5. QED
      BY <2>3, <3>2, <3>4
  <2>6. QED
    BY <2>4, <2>5
<1>5. sent_log'[m] = log \o burst /\ Len(sent_log'[m]) = Len(log) + size
  <2>1. sent_log'[m] = log \o burst
    BY <1>1 DEF TypeOK, log
  <2>2. Len(log \o burst) = Len(log) + size
    BY <1>1, <1>2, ConcatProperties
  <2>3. QED
    BY <2>1, <2>2
<1>6. \A n \in FlowMarkets \ {m} : sent_log'[n] = sent_log[n]
  BY <1>1 DEF TypeOK
<1>7. SUFFICES ASSUME NEW n \in FlowMarkets,
                      NEW i \in log_from[n] + 1 .. Len(sent_log'[n]) - th_tps_limit[n]
               PROVE  sent_log'[n][i + th_tps_limit[n]] - sent_log'[n][i]
                        > kFlowControlWindowMS
  BY <1>1 DEF RateLimit
<1>8. CASE n = m
  <2>1. i \in log_from[m] + 1 .. Len(log) + size - limit
    <3>1. i \in log_from[m] + 1 .. Len(sent_log'[m]) - limit
      BY <1>8 DEF limit
    <3>2. Len(sent_log'[m]) = Len(log) + size
      BY <1>5
    <3>3. i \in log_from[m] + 1 .. (Len(log) + size) - limit
      BY <3>1, <3>2
    <3>4. QED
      BY <1>1, <1>2, <3>3
  <2>2. (log \o burst)[i + limit] - (log \o burst)[i] > kFlowControlWindowMS
    BY <1>4, <2>1
  <2>3. QED
    BY <1>5, <1>8, <2>2 DEF limit
<1>9. CASE n # m
  BY <1>6, <1>9 DEF RateLimit
<1>10. QED
  BY <1>8, <1>9

(* Every step keeps the limit of the window. *)
LEMMA NextRate ==
    ASSUME TypeOK, WindowExact, RateLimit, [Next]_vars
    PROVE  RateLimit'
<1>1. CASE UNCHANGED <<sent_log, log_from>>
  BY <1>1 DEF RateLimit
<1>2. CASE \E new_day \in BOOLEAN : Restart(new_day)
  <2>1. /\ sent_log' = sent_log
        /\ \A m \in FlowMarkets : log_from'[m] = Len(sent_log[m])
    BY <1>2 DEF Restart
  <2>2. SUFFICES ASSUME NEW m \in FlowMarkets,
                        NEW i \in Len(sent_log[m]) + 1 .. Len(sent_log[m]) - th_tps_limit[m]
                 PROVE  FALSE
    BY <2>1 DEF RateLimit
  <2>3. Len(sent_log[m]) \in Nat /\ th_tps_limit[m] \in Nat
    BY LimitAssumption DEF TypeOK
  <2>4. QED
    BY <2>3
<1>3. CASE \E top \in TopChoices : \E m \in Busy : PopFlow(top, m)
  BY <1>3, PopFlowRate
<1>4. QED
  BY <1>1, <1>2, <1>3
     DEF Next, Push, PushOrder, PushEmptyOrder, PushWithdraw, PushOther, Arrive,
         Pop, PopNormal, PopNothing, Tick, vars, history

(* A burst that leaves without an error fits into the day's budget. *)
LEMMA PopFlowBudget ==
    ASSUME TypeOK, BudgetCounted, DailyLimit,
           NEW top \in TopChoices, NEW m \in Busy, PopFlow(top, m)
    PROVE  /\ BudgetCounted'
           /\ DailyLimit'
           /\ top[m].msg \notin error' =>
                passed_today[m] + top[m].sub_order_size <= th_daily_limit[m]
<1> DEFINE size == top[m].sub_order_size
<1>1. /\ m \in FlowMarkets
      /\ size \in Nat
  BY TopIsQueued
<1>2. /\ total_cmd_size_' = [total_cmd_size_ EXCEPT ![m] = @ + size]
      /\ state_total_cmd_size' = [state_total_cmd_size EXCEPT ![m] = @ + size]
  BY DEF PopFlow, TryPop
<1>3. passed_today' = [passed_today EXCEPT
                         ![m] = IF top[m].msg \in error' THEN @ ELSE @ + size]
  BY DEF PopFlow
<1>4. top[m].msg \notin error' => state_total_cmd_size[m] + size <= th_daily_limit[m]
  <2>1. top[m].msg \notin error' => ~OverDailyLimit(m, top[m])
    BY DEF PopFlow, Peek
  <2>2. state_total_cmd_size[m] \in Nat /\ th_daily_limit[m] \in Nat
    BY <1>1, LimitAssumption DEF TypeOK
  <2>3. QED
    BY <1>1, <2>1, <2>2 DEF OverDailyLimit
<1>5. \A n \in FlowMarkets :
          /\ total_cmd_size_[n] \in Nat
          /\ state_total_cmd_size[n] \in Nat
          /\ passed_today[n] \in Nat
          /\ total_cmd_size_[n] = state_total_cmd_size[n]
          /\ passed_today[n] <= state_total_cmd_size[n]
          /\ passed_today[n] <= th_daily_limit[n]
          /\ th_daily_limit[n] \in Nat
  BY LimitAssumption DEF TypeOK, BudgetCounted, DailyLimit
<1> HIDE DEF size
<1>6. top[m].msg \notin error' => passed_today[m] + size <= th_daily_limit[m]
  BY <1>1, <1>4, <1>5
<1>7. ASSUME NEW n \in FlowMarkets
      PROVE  /\ total_cmd_size_'[n] = state_total_cmd_size'[n]
             /\ passed_today'[n] <= state_total_cmd_size'[n]
             /\ passed_today'[n] <= th_daily_limit[n]
  <2>1. CASE n = m
    <3>1. /\ total_cmd_size_'[n] = total_cmd_size_[n] + size
          /\ state_total_cmd_size'[n] = state_total_cmd_size[n] + size
          /\ passed_today'[n] = IF top[m].msg \in error' THEN passed_today[n]
                                ELSE passed_today[n] + size
      BY <1>2, <1>3, <2>1 DEF TypeOK
    <3>2. QED
      BY <1>1, <1>5, <1>6, <2>1, <3>1
  <2>2. CASE n # m
    <3>1. /\ total_cmd_size_'[n] = total_cmd_size_[n]
          /\ state_total_cmd_size'[n] = state_total_cmd_size[n]
          /\ passed_today'[n] = passed_today[n]
      BY <1>2, <1>3, <2>2 DEF TypeOK
    <3>2. QED
      BY <1>5, <3>1
  <2>3. QED
    BY <2>1, <2>2
<1>8. QED
  BY <1>6, <1>7 DEF BudgetCounted, DailyLimit, size

(* Every step keeps the counters and the limit of the day. *)
LEMMA NextBudget ==
    ASSUME TypeOK, BudgetCounted, DailyLimit, [Next]_vars
    PROVE  BudgetCounted' /\ DailyLimit'
<1>1. CASE UNCHANGED <<total_cmd_size_, state_total_cmd_size, passed_today>>
  BY <1>1 DEF BudgetCounted, DailyLimit
<1>2. ASSUME NEW new_day \in BOOLEAN, Restart(new_day)
      PROVE  BudgetCounted' /\ DailyLimit'
  <2>1. total_cmd_size_' = state_total_cmd_size'
    BY <1>2 DEF Restart
  <2>2. CASE new_day
    <3>1. \A m \in FlowMarkets : passed_today'[m] = 0 /\ state_total_cmd_size'[m] = 0
      BY <1>2, <2>2 DEF Restart
    <3>2. \A m \in FlowMarkets : 0 <= th_daily_limit[m]
      BY LimitAssumption
    <3>3. QED
      BY <2>1, <3>1, <3>2 DEF BudgetCounted, DailyLimit
  <2>3. CASE ~new_day
    <3>1. UNCHANGED <<passed_today, state_total_cmd_size>>
      BY <1>2, <2>3 DEF Restart
    <3>2. QED
      BY <2>1, <3>1 DEF BudgetCounted, DailyLimit
  <2>4. QED
    BY <2>2, <2>3
<1>3. CASE \E top \in TopChoices : \E m \in Busy : PopFlow(top, m)
  BY <1>3, PopFlowBudget
<1>4. QED
  BY <1>1, <1>2, <1>3
     DEF Next, Push, PushOrder, PushEmptyOrder, PushWithdraw, PushOther, Arrive,
         Pop, PopNormal, PopNothing, Tick, vars, memory, history

(* The inductive invariant holds of a new process. *)
LEMMA InitInv == Init => IInv
<1> SUFFICES ASSUME Init
             PROVE  IInv
  OBVIOUS
<1>1. TypeOK
  BY InitType
<1>2. \A m \in FlowMarkets : sent_log[m] = << >> /\ sent_ns_queue_[m] = << >> /\ log_from[m] = 0
  BY DEF Init
<1>3. WindowExact
  <2>1. ASSUME NEW m \in FlowMarkets
        PROVE  WindowOf(<< >>, << >>, 0)
    BY DEF WindowOf
  <2>2. QED
    BY <1>2, <2>1 DEF WindowExact
<1>4. RateLimit
  <2>1. \A m \in FlowMarkets : th_tps_limit[m] \in Nat
    BY LimitAssumption
  <2>2. QED
    BY <1>2, <2>1 DEF RateLimit
<1>5. BudgetCounted /\ DailyLimit
  <2>1. \A m \in FlowMarkets : th_daily_limit[m] \in Nat
    BY LimitAssumption
  <2>2. QED
    BY <2>1 DEF Init, BudgetCounted, DailyLimit
<1>6. QED
  BY <1>1, <1>3, <1>4, <1>5 DEF IInv

(* The invariant is inductive. *)
LEMMA NextInv == IInv /\ [Next]_vars => IInv'
BY NextType, NextWindow, NextRate, NextBudget DEF IInv

(* The inductive invariant holds in every reachable state: the windows are *)
(* exact, the counters agree, and both limits hold. *)
THEOREM Invariance == Spec => []IInv
BY InitInv, NextInv, PTL DEF Spec

(* Pruning forgets no send time that still counts: the window is exact. *)
THEOREM WindowExactHolds == Spec => []WindowExact
<1>1. IInv => WindowExact
  BY DEF IInv
<1>2. QED
  BY Invariance, <1>1, PTL

(* No window of a process ever holds more than th_tps_limit_ sub-commands.    *)
THEOREM RateLimitHolds == Spec => []RateLimit
<1>1. IInv => RateLimit
  BY DEF IInv
<1>2. QED
  BY Invariance, <1>1, PTL

(* No day ever sees more than th_daily_limit_ sub-commands leave without an   *)
(* error, over any number of restarts.                                     *)
THEOREM DailyLimitHolds == Spec => []DailyLimit
<1>1. IInv => DailyLimit
  BY DEF IInv
<1>2. QED
  BY Invariance, <1>1, PTL

--------------------------------------------------------------------------------
(* Refinement *)

LEMMA PopFlowSends ==
    ASSUME IInv, NEW top \in TopChoices, NEW m \in Busy, PopFlow(top, m)
    PROVE  Limiter!Send(m)
<1> DEFINE size == top[m].sub_order_size
           passed == top[m].msg \notin error'
<1>1. /\ m \in FlowMarkets
      /\ size \in Nat
      /\ UNCHANGED <<now, log_from>>
      /\ sent_log' = [sent_log EXCEPT ![m] = @ \o [i \in 1 .. size |-> now]]
      /\ Len(InWindow(sent_ns_queue_[m])) + size <= th_tps_limit[m]
  BY PopFlowEffect DEF IInv
<1>2. size \in 0 .. th_tps_limit[m]
  <2>1. sent_ns_queue_[m] \in Seq(Nat)
    BY <1>1 DEF IInv, TypeOK
  <2>2. Len(InWindow(sent_ns_queue_[m])) \in Nat
    BY <2>1, InWindowProperties
  <2>3. th_tps_limit[m] \in Nat
    BY <1>1, LimitAssumption
  <2>4. QED
    BY <1>1, <2>2, <2>3
<1>3. Limiter!MaySend(m, size)
  BY PopFlowMaySend DEF Limiter!MaySend, IInv
<1>4. passed => passed_today[m] + size <= th_daily_limit[m]
  BY PopFlowBudget DEF IInv
<1>5. passed_today' = [passed_today EXCEPT ![m] = IF passed THEN @ + size ELSE @]
  BY DEF PopFlow
<1>6. passed \in BOOLEAN
  OBVIOUS
<1> HIDE DEF size, passed
<1>7. QED
  BY <1>1, <1>2, <1>3, <1>4, <1>5, <1>6 DEF Limiter!Send

(* Every step of flow control is a step of the limiter or leaves it alone. *)
LEMMA NextRefines ==
    ASSUME IInv, [Next]_vars
    PROVE  [Limiter!Next]_(Limiter!vars)
<1>1. CASE \E top \in TopChoices : \E m \in Busy : PopFlow(top, m)
  <2>1. PICK top \in TopChoices, m \in Busy : PopFlow(top, m)
    BY <1>1
  <2>2. m \in FlowMarkets
    BY DEF Busy, PolledMarkets
  <2>3. QED
    BY <2>1, <2>2, PopFlowSends DEF Limiter!Next
<1>2. CASE \E new_day \in BOOLEAN : Restart(new_day)
  <2>1. PICK new_day \in BOOLEAN : Restart(new_day)
    BY <1>2
  <2>2. Limiter!NewProcess(new_day)
    BY <2>1 DEF Limiter!NewProcess, Restart
  <2>3. QED
    BY <2>2 DEF Limiter!Next
<1>3. CASE Tick
  BY <1>3 DEF Tick, history, Limiter!Next, Limiter!Advance
<1>4. CASE UNCHANGED <<now, sent_log, log_from, passed_today>>
  BY <1>4 DEF Limiter!vars
<1>5. QED
  BY <1>1, <1>2, <1>3, <1>4
     DEF Next, Push, PushOrder, PushEmptyOrder, PushWithdraw, PushOther, Arrive,
         Pop, PopNormal, PopNothing, vars, history

(* Flow control implements the abstract limiter. *)
THEOREM Refinement == Spec => ImplementsLimiter
<1>1. Init => Limiter!Init
  BY DEF Init, Limiter!Init
<1>2. IInv /\ [Next]_vars => [Limiter!Next]_(Limiter!vars)
  BY NextRefines
<1>3. QED
  BY Invariance, <1>1, <1>2, PTL DEF Spec, ImplementsLimiter, Limiter!Spec

--------------------------------------------------------------------------------
(* No message is duplicated and none disappears.  Counting places is not       *)
(* inductive: what is says where each message is.                           *)

(* No message is in two items, and none twice in the normal queue. *)
OneItemEach ==
    \A m, n \in FlowMarkets :
        \A i \in flow_control_queue_[m], j \in flow_control_queue_[n] :
            i.msg = j.msg => m = n /\ i = j

NormalOnce ==
    \A i, j \in 1 .. Len(normal_queue_) : normal_queue_[i] = normal_queue_[j] => i = j

OnePlace ==
    /\ Queued \cap InNormal = {}
    /\ Queued \cap delivered = {}
    /\ Queued \cap lost = {}
    /\ InNormal \cap delivered = {}
    /\ InNormal \cap lost = {}
    /\ delivered \cap lost = {}
    /\ \A r \in Queued \cup InNormal \cup delivered \cup lost : ~EmptyOrder(r)

AccountsInv ==
    /\ IsFiniteSet(arrived)
    /\ arrived = Queued \cup InNormal \cup delivered \cup lost \cup Discarded
    /\ OnePlace
    /\ OneItemEach
    /\ NormalOnce

LEMMA QueuedFacts ==
    ASSUME TypeOK
    PROVE  /\ Queued \subseteq Request
           /\ \A r : r \in Queued <=>
                \E m \in FlowMarkets : \E i \in flow_control_queue_[m] : i.msg = r
<1>1. \A m \in FlowMarkets : \A i \in flow_control_queue_[m] : i.msg \in Request
  BY DEF TypeOK, FlowControlItem
<1>2. QED
  BY <1>1 DEF Queued

LEMMA QueuedPush ==
    ASSUME OneItemEach, NEW m \in FlowMarkets, NEW item, item.msg \notin Queued,
           flow_control_queue_ \in [FlowMarkets -> SUBSET FlowControlItem],
           flow_control_queue_' = [flow_control_queue_ EXCEPT ![m] = @ \cup {item}]
    PROVE  Queued' = Queued \cup {item.msg} /\ OneItemEach'
<1>1. \A n \in FlowMarkets :
        flow_control_queue_'[n] =
          IF n = m THEN flow_control_queue_[m] \cup {item} ELSE flow_control_queue_[n]
  OBVIOUS
<1>2. Queued' = Queued \cup {item.msg}
  BY <1>1 DEF Queued
<1>3. \A n \in FlowMarkets : \A i \in flow_control_queue_[n] : i.msg # item.msg
  BY DEF Queued
<1>4. QED
  BY <1>1, <1>2, <1>3 DEF OneItemEach

LEMMA QueuedPop ==
    ASSUME OneItemEach, NEW m \in FlowMarkets, NEW item \in flow_control_queue_[m],
           flow_control_queue_ \in [FlowMarkets -> SUBSET FlowControlItem],
           flow_control_queue_' = [flow_control_queue_ EXCEPT ![m] = @ \ {item}]
    PROVE  item.msg \in Queued /\ Queued' = Queued \ {item.msg} /\ OneItemEach'
<1>1. \A n \in FlowMarkets :
        flow_control_queue_'[n] =
          IF n = m THEN flow_control_queue_[m] \ {item} ELSE flow_control_queue_[n]
  OBVIOUS
<1>2. \A n \in FlowMarkets : \A i \in flow_control_queue_[n] :
        i.msg = item.msg <=> n = m /\ i = item
  BY DEF OneItemEach
<1>3. item.msg \in Queued
  BY DEF Queued
<1>4. Queued' = Queued \ {item.msg}
  BY <1>1, <1>2 DEF Queued
<1>5. QED
  BY <1>1, <1>3, <1>4 DEF OneItemEach

LEMMA NormalAppend ==
    ASSUME NormalOnce, normal_queue_ \in Seq(Request), NEW r \in Request, r \notin InNormal,
           normal_queue_' = Append(normal_queue_, r)
    PROVE  InNormal' = InNormal \cup {r} /\ NormalOnce'
<1> DEFINE n == Len(normal_queue_)
<1>1. /\ n \in Nat /\ Len(normal_queue_') = n + 1
      /\ \A i \in 1 .. n : normal_queue_'[i] = normal_queue_[i] /\ normal_queue_[i] # r
      /\ normal_queue_'[n + 1] = r
  BY DEF InNormal
<1>2. 1 .. n + 1 = (1 .. n) \cup {n + 1}
  BY <1>1
<1>3. InNormal' = InNormal \cup {r}
  BY <1>1, <1>2 DEF InNormal
<1>4. NormalOnce'
  BY <1>1, <1>2 DEF NormalOnce
<1>5. QED
  BY <1>3, <1>4

LEMMA NormalTail ==
    ASSUME NormalOnce, normal_queue_ \in Seq(Request), normal_queue_ # << >>,
           normal_queue_' = Tail(normal_queue_)
    PROVE  /\ Head(normal_queue_) \in InNormal
           /\ InNormal' = InNormal \ {Head(normal_queue_)}
           /\ NormalOnce'
<1> DEFINE n == Len(normal_queue_)
<1>1. /\ n \in Nat \ {0} /\ Len(normal_queue_') = n - 1
      /\ \A i \in 1 .. n - 1 : normal_queue_'[i] = normal_queue_[i + 1]
      /\ Head(normal_queue_) = normal_queue_[1]
  BY HeadTailProperties
<1>2. Head(normal_queue_) \in InNormal
  BY <1>1 DEF InNormal
<1>3. \A i \in 1 .. n : normal_queue_[i] = normal_queue_[1] <=> i = 1
  BY <1>1 DEF NormalOnce
<1>4. InNormal' = InNormal \ {Head(normal_queue_)}
  <2>1. ASSUME NEW r \in InNormal'
        PROVE  r \in InNormal \ {Head(normal_queue_)}
    <3>1. PICK i \in 1 .. n - 1 : r = normal_queue_[i + 1]
      BY <1>1 DEF InNormal
    <3>2. i + 1 \in 1 .. n /\ i + 1 # 1
      BY <1>1
    <3>3. QED
      BY <1>1, <1>3, <3>1, <3>2 DEF InNormal
  <2>2. ASSUME NEW r \in InNormal, r # Head(normal_queue_)
        PROVE  r \in InNormal'
    <3>1. PICK i \in 1 .. n : r = normal_queue_[i]
      BY DEF InNormal
    <3>2. i - 1 \in 1 .. n - 1 /\ (i - 1) + 1 = i
      BY <1>1, <2>2, <3>1
    <3>3. normal_queue_'[i - 1] = r
      BY <1>1, <3>1, <3>2
    <3>4. QED
      BY <1>1, <3>2, <3>3 DEF InNormal
  <2>3. QED
    BY <2>1, <2>2
<1>5. NormalOnce'
  <2>1. ASSUME NEW i \in 1 .. n - 1, NEW j \in 1 .. n - 1,
               normal_queue_'[i] = normal_queue_'[j]
        PROVE  i = j
    <3>1. i + 1 \in 1 .. n /\ j + 1 \in 1 .. n
      BY <1>1
    <3>2. normal_queue_[i + 1] = normal_queue_[j + 1]
      BY <1>1, <2>1
    <3>3. i + 1 = j + 1
      BY <3>1, <3>2 DEF NormalOnce
    <3>4. QED
      BY <3>3
  <2>2. QED
    BY <1>1, <2>1 DEF NormalOnce
<1>6. QED
  BY <1>2, <1>4, <1>5

(* Push puts a message that is new into one place. *)
LEMMA PushPlaces ==
    ASSUME TypeOK, AccountsInv, NEW r \in Request, Push(r)
    PROVE  /\ r \notin arrived /\ arrived' = arrived \cup {r}
           /\ UNCHANGED <<delivered, lost>>
           /\ \/ /\ ~EmptyOrder(r)
                 /\ Queued' = Queued \cup {r} /\ OneItemEach'
                 /\ InNormal' = InNormal /\ NormalOnce'
              \/ /\ ~EmptyOrder(r)
                 /\ InNormal' = InNormal \cup {r} /\ NormalOnce'
                 /\ Queued' = Queued /\ OneItemEach'
              \/ /\ EmptyOrder(r)
                 /\ Queued' = Queued /\ OneItemEach'
                 /\ InNormal' = InNormal /\ NormalOnce'
<1>1. /\ r \notin arrived /\ arrived' = arrived \cup {r}
      /\ UNCHANGED <<delivered, lost>>
  BY DEF Push, PushOrder, PushEmptyOrder, PushWithdraw, PushOther, Arrive
<1>2. /\ r \notin Queued /\ r \notin InNormal /\ OneItemEach /\ NormalOnce
      /\ flow_control_queue_ \in [FlowMarkets -> SUBSET FlowControlItem]
      /\ normal_queue_ \in Seq(Request)
  BY <1>1 DEF AccountsInv, TypeOK
<1>3. UNCHANGED flow_control_queue_ => Queued' = Queued /\ OneItemEach'
  BY <1>2 DEF Queued, OneItemEach
<1>4. UNCHANGED normal_queue_ => InNormal' = InNormal /\ NormalOnce'
  BY <1>2 DEF InNormal, NormalOnce
<1>5. normal_queue_' = Append(normal_queue_, r) => InNormal' = InNormal \cup {r} /\ NormalOnce'
  BY <1>2, NormalAppend
<1>6. ASSUME NEW amount, NEW size, Enqueue(r, amount, size)
      PROVE  \/ /\ Queued' = Queued \cup {r} /\ OneItemEach'
                /\ InNormal' = InNormal /\ NormalOnce'
             \/ /\ InNormal' = InNormal \cup {r} /\ NormalOnce'
                /\ Queued' = Queued /\ OneItemEach'
  <2>1. CASE Msg[r].market \in FlowMarkets
    <3>1. PICK item :
            /\ item = [timestamp |-> now, order_amount |-> amount,
                       sub_order_size |-> size, msg |-> r]
            /\ flow_control_queue_' =
                 [flow_control_queue_ EXCEPT ![Msg[r].market] = @ \cup {item}]
            /\ UNCHANGED normal_queue_
      BY <1>6, <2>1 DEF Enqueue, MarketPush
    <3>2. item.msg = r
      BY <3>1
    <3>3. Queued' = Queued \cup {item.msg} /\ OneItemEach'
      BY <1>2, <2>1, <3>1, <3>2, QueuedPush
    <3>4. QED
      BY <1>4, <3>1, <3>2, <3>3
  <2>2. CASE Msg[r].market \notin FlowMarkets
    BY <1>3, <1>5, <1>6, <2>2 DEF Enqueue
  <2>3. QED
    BY <2>1, <2>2
<1>7. CASE PushOrder(r)
  <2>1. ~EmptyOrder(r)
    BY <1>7 DEF PushOrder, EmptyOrder
  <2>2. QED
    BY <1>1, <1>6, <1>7, <2>1 DEF PushOrder
<1>8. CASE PushWithdraw(r)
  <2>1. ~EmptyOrder(r)
    BY <1>8 DEF PushWithdraw, EmptyOrder
  <2>2. QED
    BY <1>1, <1>6, <1>8, <2>1 DEF PushWithdraw
<1>9. CASE PushOther(r)
  <2>1. ~EmptyOrder(r)
    BY <1>9 DEF PushOther, EmptyOrder
  <2>2. QED
    BY <1>1, <1>3, <1>5, <1>9, <2>1 DEF PushOther
<1>10. CASE PushEmptyOrder(r)
  BY <1>1, <1>3, <1>4, <1>10 DEF PushEmptyOrder
<1>11. QED
  BY <1>7, <1>8, <1>9, <1>10 DEF Push

LEMMA PushAccounts ==
    ASSUME TypeOK, AccountsInv, NEW r \in Request, Push(r)
    PROVE  AccountsInv'
<1>1. IsFiniteSet(arrived')
  BY PushPlaces, FS_AddElement DEF AccountsInv
<1>2. Discarded' = IF EmptyOrder(r) THEN Discarded \cup {r} ELSE Discarded
  BY PushPlaces DEF Discarded, EmptyOrder
<1>3. arrived' = Queued' \cup InNormal' \cup delivered' \cup lost' \cup Discarded'
  BY <1>2, PushPlaces DEF AccountsInv
<1>4. r \notin Queued /\ r \notin InNormal /\ r \notin delivered /\ r \notin lost
  BY PushPlaces DEF AccountsInv
<1>5. OnePlace'
  BY <1>4, PushPlaces DEF AccountsInv, OnePlace, EmptyOrder
<1>6. QED
  BY <1>1, <1>3, <1>5, PushPlaces DEF AccountsInv

(* Pop takes a message from its place and returns it. *)
LEMMA PopAccounts ==
    ASSUME AccountsInv, UNCHANGED <<arrived, lost>>, OneItemEach', NormalOnce',
           NEW r, delivered' = delivered \cup {r},
           \/ r \in Queued /\ Queued' = Queued \ {r} /\ InNormal' = InNormal
           \/ r \in InNormal /\ InNormal' = InNormal \ {r} /\ Queued' = Queued
    PROVE  AccountsInv'
<1>1. Discarded' = Discarded
  BY DEF Discarded, EmptyOrder
<1>2. arrived = Queued' \cup InNormal' \cup delivered' \cup lost \cup Discarded
  BY DEF AccountsInv
<1>3. OnePlace'
  BY DEF AccountsInv, OnePlace, EmptyOrder
<1>4. QED
  BY <1>1, <1>2, <1>3 DEF AccountsInv

LEMMA PopFlowAccounts ==
    ASSUME TypeOK, AccountsInv, NEW top \in TopChoices, NEW m \in Busy, PopFlow(top, m)
    PROVE  AccountsInv'
<1>1. /\ m \in FlowMarkets /\ top[m] \in flow_control_queue_[m]
      /\ flow_control_queue_ \in [FlowMarkets -> SUBSET FlowControlItem]
  BY TopIsQueued DEF TypeOK
<1>2. /\ flow_control_queue_' = [flow_control_queue_ EXCEPT ![m] = @ \ {top[m]}]
      /\ delivered' = delivered \cup {top[m].msg}
      /\ UNCHANGED <<normal_queue_, arrived, lost>>
  BY DEF PopFlow, TryPop
<1>3. top[m].msg \in Queued /\ Queued' = Queued \ {top[m].msg} /\ OneItemEach'
  BY <1>1, <1>2, QueuedPop DEF AccountsInv
<1>4. InNormal' = InNormal /\ NormalOnce'
  BY <1>2 DEF InNormal, NormalOnce, AccountsInv
<1>5. QED
  BY <1>2, <1>3, <1>4, PopAccounts

LEMMA PopNormalAccounts ==
    ASSUME TypeOK, AccountsInv, NEW top \in TopChoices, PopNormal(top)
    PROVE  AccountsInv'
<1>1. /\ normal_queue_ # << >> /\ normal_queue_' = Tail(normal_queue_)
      /\ delivered' = delivered \cup {Head(normal_queue_)}
      /\ UNCHANGED <<flow_control_queue_, arrived, lost>>
  BY DEF PopNormal
<1>2. /\ Head(normal_queue_) \in InNormal
      /\ InNormal' = InNormal \ {Head(normal_queue_)}
      /\ NormalOnce'
  BY <1>1, NormalTail DEF AccountsInv, TypeOK
<1>3. Queued' = Queued /\ OneItemEach'
  BY <1>1 DEF Queued, OneItemEach, AccountsInv
<1>4. QED
  BY <1>1, <1>2, <1>3, PopAccounts

(* What was in a queue when the process died is lost. *)
LEMMA RestartAccounts ==
    ASSUME TypeOK, AccountsInv, NEW new_day \in BOOLEAN, Restart(new_day)
    PROVE  AccountsInv'
<1>1. /\ flow_control_queue_' = [m \in FlowMarkets |-> {}]
      /\ normal_queue_' = << >>
      /\ lost' = lost \cup Queued \cup InNormal
      /\ UNCHANGED <<arrived, delivered>>
  BY DEF Restart
<1>2. Queued' = {} /\ OneItemEach'
  BY <1>1 DEF Queued, OneItemEach
<1>3. InNormal' = {} /\ NormalOnce'
  BY <1>1 DEF InNormal, NormalOnce
<1>4. Discarded' = Discarded
  BY <1>1 DEF Discarded, EmptyOrder
<1>5. arrived = Queued' \cup InNormal' \cup delivered' \cup lost' \cup Discarded
  BY <1>1, <1>2, <1>3 DEF AccountsInv
<1>6. OnePlace'
  BY <1>1, <1>2, <1>3 DEF AccountsInv, OnePlace, EmptyOrder
<1>7. QED
  BY <1>1, <1>2, <1>3, <1>4, <1>5, <1>6 DEF AccountsInv

LEMMA NextAccounts == TypeOK /\ AccountsInv /\ [Next]_vars => AccountsInv'
<1> SUFFICES ASSUME TypeOK, AccountsInv, [Next]_vars
             PROVE  AccountsInv'
  OBVIOUS
<1>1. CASE \E r \in Request : Push(r)
  BY <1>1, PushAccounts
<1>2. CASE \E top \in TopChoices : \E m \in Busy : PopFlow(top, m)
  BY <1>2, PopFlowAccounts
<1>3. CASE \E top \in TopChoices : PopNormal(top)
  BY <1>3, PopNormalAccounts
<1>4. CASE \E new_day \in BOOLEAN : Restart(new_day)
  BY <1>4, RestartAccounts
<1>5. CASE UNCHANGED <<flow_control_queue_, normal_queue_, arrived, delivered, lost>>
  BY <1>5 DEF AccountsInv, OnePlace, OneItemEach, NormalOnce, Queued, InNormal, Discarded,
              EmptyOrder
<1>6. Tick \/ (\E top \in TopChoices : PopNothing(top)) \/ UNCHANGED vars
        => UNCHANGED <<flow_control_queue_, normal_queue_, arrived, delivered, lost>>
  BY DEF Tick, PopNothing, vars, memory, history
<1>7. QED
  BY <1>1, <1>2, <1>3, <1>4, <1>5, <1>6 DEF Next, Pop

LEMMA InitAccounts == Init => AccountsInv
<1> SUFFICES ASSUME Init
             PROVE  AccountsInv
  OBVIOUS
<1>1. Queued = {} /\ OneItemEach
  BY DEF Init, Queued, OneItemEach
<1>2. InNormal = {} /\ NormalOnce
  BY DEF Init, InNormal, NormalOnce
<1>3. arrived = {} /\ delivered = {} /\ lost = {} /\ Discarded = {}
  BY DEF Init, Discarded
<1>4. QED
  BY <1>1, <1>2, <1>3, FS_EmptySet DEF AccountsInv, OnePlace

(* Items are as many as the messages in them. *)
LEMMA ItemCount ==
    ASSUME TypeOK, AccountsInv
    PROVE  Cardinality(UNION {flow_control_queue_[m] \X {m} : m \in FlowMarkets})
             = Cardinality(Queued)
<1> DEFINE P == UNION {flow_control_queue_[m] \X {m} : m \in FlowMarkets}
           f == [p \in P |-> p[1].msg]
<1>1. \A p \in P : p[2] \in FlowMarkets /\ p[1] \in flow_control_queue_[p[2]] /\ p = <<p[1], p[2]>>
  OBVIOUS
<1>2. f \in [P -> Queued]
  BY <1>1 DEF Queued
<1>3. \A p, q \in P : f[p] = f[q] => p = q
  BY <1>1 DEF AccountsInv, OneItemEach
<1>4. \A r \in Queued : \E p \in P : f[p] = r
  <2> SUFFICES ASSUME NEW r \in Queued
               PROVE  \E p \in P : f[p] = r
    OBVIOUS
  <2>1. PICK m \in FlowMarkets : \E i \in flow_control_queue_[m] : i.msg = r
    BY QueuedFacts
  <2>2. PICK i \in flow_control_queue_[m] : i.msg = r
    BY <2>1
  <2>3. <<i, m>> \in P
    OBVIOUS
  <2>4. QED
    BY <2>2, <2>3
<1> HIDE DEF P, f
<1>5. f \in Injection(P, Queued)
  BY <1>2, <1>3 DEF Injection, IsInjective
<1>6. f \in Surjection(P, Queued)
  BY <1>2, <1>4 DEF Surjection
<1>7. IsFiniteSet(Queued)
  BY FS_Subset DEF AccountsInv
<1>8. QED
  BY <1>5, <1>6, <1>7, FS_Injection DEF P

(* The normal queue is as long as it has messages. *)
LEMMA NormalCount ==
    ASSUME TypeOK, AccountsInv
    PROVE  Len(normal_queue_) = Cardinality(InNormal)
<1> DEFINE n == Len(normal_queue_)
           f == [i \in 1 .. n |-> normal_queue_[i]]
<1>1. n \in Nat
  BY DEF TypeOK
<1>2. f \in [1 .. n -> InNormal]
  BY DEF InNormal
<1>3. \A i, j \in 1 .. n : f[i] = f[j] => i = j
  BY DEF AccountsInv, NormalOnce
<1>4. \A r \in InNormal : \E i \in 1 .. n : f[i] = r
  BY DEF InNormal
<1> HIDE DEF f
<1>5. f \in Injection(1 .. n, InNormal) /\ f \in Surjection(1 .. n, InNormal)
  BY <1>2, <1>3, <1>4 DEF Injection, IsInjective, Surjection
<1>6. IsFiniteSet(InNormal)
  BY FS_Subset DEF AccountsInv
<1>7. Cardinality(1 .. n) = Cardinality(InNormal)
  BY <1>5, <1>6, FS_Injection
<1>8. Cardinality(1 .. n) = n
  BY <1>1, FS_Interval
<1>9. QED
  BY <1>7, <1>8

LEMMA DisjointCount ==
    ASSUME NEW S, NEW T, IsFiniteSet(S), IsFiniteSet(T), S \cap T = {}
    PROVE  /\ IsFiniteSet(S \cup T)
           /\ Cardinality(S \cup T) = Cardinality(S) + Cardinality(T)
<1>1. /\ IsFiniteSet(S \cup T)
      /\ Cardinality(S \cup T) = Cardinality(S) + Cardinality(T) - Cardinality(S \cap T)
  BY FS_Union
<1>2. Cardinality(S) \in Nat /\ Cardinality(T) \in Nat /\ Cardinality(S \cap T) = 0
  BY FS_CardinalityType, FS_EmptySet
<1>3. QED
  BY <1>1, <1>2

LEMMA PlacesCount ==
    ASSUME TypeOK, AccountsInv
    PROVE  Accounted
<1>1. /\ IsFiniteSet(Queued) /\ IsFiniteSet(InNormal) /\ IsFiniteSet(delivered)
      /\ IsFiniteSet(lost) /\ IsFiniteSet(Discarded)
  BY FS_Subset DEF AccountsInv
<1>2. /\ Queued \cap InNormal = {}
      /\ (Queued \cup InNormal) \cap delivered = {}
      /\ (Queued \cup InNormal \cup delivered) \cap lost = {}
      /\ (Queued \cup InNormal \cup delivered \cup lost) \cap Discarded = {}
  BY DEF AccountsInv, OnePlace, Discarded
<1>3. Cardinality(arrived) =
        Cardinality(Queued) + Cardinality(InNormal) + Cardinality(delivered)
          + Cardinality(lost) + Cardinality(Discarded)
  <2>1. /\ IsFiniteSet(Queued \cup InNormal)
        /\ Cardinality(Queued \cup InNormal) = Cardinality(Queued) + Cardinality(InNormal)
    BY <1>1, <1>2, DisjointCount
  <2>2. /\ IsFiniteSet(Queued \cup InNormal \cup delivered)
        /\ Cardinality(Queued \cup InNormal \cup delivered) =
             Cardinality(Queued \cup InNormal) + Cardinality(delivered)
    BY <1>1, <1>2, <2>1, DisjointCount
  <2>3. /\ IsFiniteSet(Queued \cup InNormal \cup delivered \cup lost)
        /\ Cardinality(Queued \cup InNormal \cup delivered \cup lost) =
             Cardinality(Queued \cup InNormal \cup delivered) + Cardinality(lost)
    BY <1>1, <1>2, <2>2, DisjointCount
  <2>4. Cardinality(Queued \cup InNormal \cup delivered \cup lost \cup Discarded) =
          Cardinality(Queued \cup InNormal \cup delivered \cup lost) + Cardinality(Discarded)
    BY <1>1, <1>2, <2>3, DisjointCount
  <2>5. QED
    BY <2>1, <2>2, <2>3, <2>4 DEF AccountsInv
<1>4. QED
  BY <1>3, ItemCount, NormalCount DEF Accounted, AccountsInv

(* Every message that arrived is in one flow control queue, in the normal      *)
(* queue, returned once, lost in a restart or an order without items.        *)
THEOREM AccountedHolds == Spec => []Accounted
<1>1. TypeOK /\ AccountsInv => Accounted
  BY PlacesCount
<1>2. QED
  BY TypeCorrect, InitAccounts, NextAccounts, <1>1, PTL DEF Spec

--------------------------------------------------------------------------------
(* Urgent messages first.  The room that Pop sees in a window is the room that *)
(* the full log leaves, because send times never go back.                   *)

LogSorted ==
    \A m \in FlowMarkets :
        /\ \A i \in 1 .. Len(sent_log[m]) : sent_log[m][i] <= now
        /\ \A i, j \in 1 .. Len(sent_log[m]) : i < j => sent_log[m][i] <= sent_log[m][j]

LEMMA PopFlowSorted ==
    ASSUME TypeOK, LogSorted, NEW top \in TopChoices, NEW m \in Busy, PopFlow(top, m)
    PROVE  LogSorted'
<1> DEFINE size == top[m].sub_order_size
           burst == [i \in 1 .. size |-> now]
<1>1. /\ m \in FlowMarkets /\ size \in Nat /\ now \in Nat /\ now' = now
      /\ burst \in Seq(Nat) /\ Len(burst) = size
      /\ \A i \in 1 .. size : burst[i] = now
      /\ sent_log' = [sent_log EXCEPT ![m] = @ \o burst]
      /\ sent_log \in [FlowMarkets -> Seq(Nat)]
  BY PopFlowEffect DEF TypeOK
<1> HIDE DEF burst, size
<1> SUFFICES ASSUME NEW n \in FlowMarkets
             PROVE  /\ \A i \in 1 .. Len(sent_log'[n]) : sent_log'[n][i] <= now
                    /\ \A i, j \in 1 .. Len(sent_log'[n]) :
                         i < j => sent_log'[n][i] <= sent_log'[n][j]
  BY <1>1 DEF LogSorted
<1>2. CASE n # m
  BY <1>1, <1>2 DEF LogSorted
<1>3. CASE n = m
  <2> DEFINE log == sent_log[m]
             new == log \o burst
  <2>1. /\ log \in Seq(Nat) /\ Len(log) \in Nat
        /\ sent_log'[n] = new
    BY <1>1, <1>3
  <2>2. /\ Len(new) = Len(log) + size
        /\ \A i \in 1 .. Len(log) + size :
             new[i] = IF i <= Len(log) THEN log[i] ELSE burst[i - Len(log)]
    <3>1. log \in Seq(Nat) /\ burst \in Seq(Nat)
      BY <1>1, <2>1
    <3> HIDE DEF log
    <3>2. QED
      BY <1>1, <3>1, ConcatProperties
  <2>3. /\ \A i \in 1 .. Len(log) : log[i] <= now /\ log[i] \in Nat
        /\ \A i, j \in 1 .. Len(log) : i < j => log[i] <= log[j]
    BY <1>1, <2>1 DEF LogSorted
  <2> DEFINE old == Len(log)
             total == Len(new)
  <2>4. /\ old \in Nat /\ total = old + size
        /\ \A i \in 1 .. old : new[i] = log[i]
    BY <1>1, <2>1, <2>2
  <2>5. \A i \in 1 .. total : i > old => new[i] = now
    <3> SUFFICES ASSUME NEW i \in 1 .. total, i > old
                 PROVE  new[i] = now
      OBVIOUS
    <3>1. i \in 1 .. old + size /\ i - old \in 1 .. size /\ ~(i <= old)
      BY <1>1, <2>4
    <3>2. new[i] = burst[i - old]
      BY <2>2, <3>1
    <3>3. QED
      BY <1>1, <3>1, <3>2
  <2> HIDE DEF log, new, old, total
  <2>6. \A i \in 1 .. total : i \in 1 .. old \/ i > old
    BY <1>1, <2>4
  <2>7. ASSUME NEW i \in 1 .. total
        PROVE  new[i] \in Nat /\ new[i] <= now
    <3>1. CASE i \in 1 .. old
      BY <2>3, <2>4, <3>1 DEF old
    <3>2. CASE i > old
      <4>1. new[i] = now
        BY <2>5, <3>2
      <4>2. QED
        BY <1>1, <4>1
    <3>3. QED
      BY <2>6, <3>1, <3>2
  <2>8. ASSUME NEW i \in 1 .. total, NEW j \in 1 .. total, i < j
        PROVE  new[i] <= new[j]
    <3>1. CASE j > old
      BY <1>1, <2>5, <2>7, <3>1
    <3>2. CASE j \in 1 .. old
      <4>1. i \in 1 .. old
        BY <2>4, <2>8, <3>2
      <4>2. QED
        BY <2>3, <2>4, <2>8, <3>2, <4>1 DEF old
    <3>3. QED
      BY <2>6, <3>1, <3>2
  <2>9. QED
    BY <2>1, <2>7, <2>8 DEF total
<1>4. QED
  BY <1>2, <1>3

LEMMA NextSorted == TypeOK /\ LogSorted /\ [Next]_vars => LogSorted'
<1> SUFFICES ASSUME TypeOK, LogSorted, [Next]_vars
             PROVE  LogSorted'
  OBVIOUS
<1>1. CASE UNCHANGED sent_log /\ (now' = now \/ now' = now + 1)
  <2>1. \A m \in FlowMarkets : \A i \in 1 .. Len(sent_log[m]) : sent_log[m][i] \in Nat
    BY DEF TypeOK
  <2>2. now \in Nat
    BY DEF TypeOK
  <2>3. QED
    BY <1>1, <2>1, <2>2 DEF LogSorted
<1>2. CASE \E top \in TopChoices : \E m \in Busy : PopFlow(top, m)
  BY <1>2, PopFlowSorted
<1>3. QED
  BY <1>1, <1>2
     DEF Next, Push, PushOrder, PushEmptyOrder, PushWithdraw, PushOther, Arrive,
         Pop, PopNormal, PopNothing, Restart, Tick, vars, history

(* What is left of the pruned window is in the window of the full log. *)
LEMMA RoomIsReal ==
    ASSUME IInv, LogSorted, NEW m \in FlowMarkets
    PROVE  /\ Len(InWindow(sent_ns_queue_[m])) \in Nat
           /\ SentInWindow(m) \in Nat
           /\ Len(InWindow(sent_ns_queue_[m])) <= SentInWindow(m)
<1> DEFINE q == sent_ns_queue_[m]
           log == sent_log[m]
           from == log_from[m]
           k == ExpiredPrefix(q)
           old == Len(log) - Len(q)
           window == {i \in from + 1 .. Len(log) : ~Expired(log[i])}
           rest == old + k + 1 .. Len(log)
<1>1. /\ q \in Seq(Nat) /\ log \in Seq(Nat) /\ from \in Nat /\ now \in Nat
      /\ Len(q) \in Nat /\ Len(log) \in Nat
      /\ kFlowControlWindowMS \in Nat
  BY NumberAssumption DEF IInv, TypeOK
<1>2. /\ k \in 0 .. Len(q)
      /\ k < Len(q) => ~Expired(q[k + 1])
      /\ Len(InWindow(q)) = Len(q) - k
  BY <1>1, ExpiredPrefixExists, InWindowProperties
<1>3. /\ from <= old
      /\ \A i \in 1 .. Len(q) : q[i] = log[old + i]
  BY DEF IInv, WindowExact, WindowOf
<1>4. \A i, j \in 1 .. Len(log) : i < j => log[i] <= log[j]
  BY DEF LogSorted
<1>5. \A i \in 1 .. Len(log) : log[i] \in Nat
  BY <1>1
<1> HIDE DEF q, log, from, k
<1>6. /\ k \in Nat /\ k <= Len(q) /\ old \in Nat
      /\ old + k + 1 \in Nat /\ old + k <= Len(log)
  BY <1>1, <1>2, <1>3
<1>7. old + Len(q) = Len(log)
  BY <1>1
<1> HIDE DEF old
<1>8. ASSUME NEW i \in rest
      PROVE  i \in window
  <2>1. /\ k < Len(q) /\ k + 1 \in 1 .. Len(q) /\ old + (k + 1) \in 1 .. Len(log)
        /\ i \in 1 .. Len(log) /\ i \in from + 1 .. Len(log)
        /\ i = old + (k + 1) \/ old + (k + 1) < i
    <3>1. i \in Nat /\ old + k + 1 <= i /\ i <= Len(log)
      BY <1>6, <1>1
    <3> HIDE DEF rest, window
    <3>2. k < Len(q)
      BY <1>6, <1>1, <1>7, <3>1
    <3>3. old + (k + 1) = old + k + 1
      BY <1>6
    <3>4. QED
      BY <1>6, <1>1, <1>3, <1>7, <3>1, <3>2, <3>3
  <2>2. ~Expired(log[old + (k + 1)])
    BY <1>2, <1>3, <2>1
  <2>3. log[old + (k + 1)] <= log[i]
    BY <1>4, <1>5, <2>1
  <2>4. log[old + (k + 1)] \in Nat /\ log[i] \in Nat
    BY <1>5, <2>1
  <2>5. ~Expired(log[i])
    BY <1>1, <2>2, <2>3, <2>4 DEF Expired
  <2>6. QED
    BY <2>1, <2>5
<1>9. IsFiniteSet(from + 1 .. Len(log))
  BY <1>1, FS_Interval
<1>10. IsFiniteSet(window) /\ Cardinality(window) \in Nat
  BY <1>9, FS_Subset, FS_CardinalityType
<1>11. Cardinality(rest) = Len(q) - k
  <2>1. Cardinality(rest) =
          IF old + k + 1 > Len(log) THEN 0 ELSE Len(log) - (old + k + 1) + 1
    <3>1. old + k + 1 \in Int /\ Len(log) \in Int
      BY <1>6, <1>1
    <3>2. QED
      BY <3>1, FS_Interval
  <2> HIDE DEF rest
  <2>2. QED
    BY <1>6, <1>1, <1>7, <2>1
<1>12. rest \subseteq window
  BY <1>8
<1>13. Cardinality(rest) <= Cardinality(window)
  BY <1>10, <1>12, FS_Subset
<1>14. SentInWindow(m) = Cardinality(window)
  BY DEF SentInWindow, log, from
<1>15. Len(InWindow(sent_ns_queue_[m])) = Len(q) - k
  BY <1>2 DEF q
<1> HIDE DEF window, rest
<1>16. QED
  BY <1>1, <1>2, <1>10, <1>11, <1>13, <1>14, <1>15

(* A market without room for its top blocks what waits behind it. *)
LEMMA NoRoomBlocks ==
    ASSUME IInv, LogSorted, NEW top \in TopChoices, NEW m \in Busy, ~HasRoom(m, top[m]),
           NEW item \in flow_control_queue_[m]
    PROVE  Blocked(m, item)
<1>1. /\ m \in FlowMarkets /\ top[m] \in flow_control_queue_[m]
      /\ top[m].sub_order_size \in Nat
  BY TopIsQueued DEF IInv
<1>2. ~Outranks(item, top[m])
  BY DEF TopChoices, Tops
<1>3. Len(InWindow(sent_ns_queue_[m])) + top[m].sub_order_size > th_tps_limit[m]
  <2>1. th_tps_limit[m] \in Nat /\ Len(InWindow(sent_ns_queue_[m])) \in Nat
    BY <1>1, LimitAssumption, RoomIsReal
  <2>2. QED
    BY <1>1, <2>1 DEF HasRoom
<1>4. SentInWindow(m) + top[m].sub_order_size > th_tps_limit[m]
  <2>1. th_tps_limit[m] \in Nat
    BY <1>1, LimitAssumption
  <2>2. QED
    BY <1>1, <1>3, <2>1, RoomIsReal
<1>5. QED
  BY <1>1, <1>2, <1>4 DEF Blocked

(* Ranks are comparable: what does not outrank a top does not outrank what    *)
(* that top does not outrank.                                              *)
LEMMA RanksCompare ==
    ASSUME NEW a \in FlowControlItem, NEW b \in FlowControlItem, NEW c \in FlowControlItem,
           ~Outranks(a, b), ~Outranks(b, c)
    PROVE  ~Outranks(a, c)
BY DEF FlowControlItem, Outranks

LEMMA PopFlowRespects ==
    ASSUME IInv, LogSorted, NEW top \in TopChoices, NEW n \in Busy, PopFlow(top, n),
           NEW m \in PolledMarkets, NEW item \in flow_control_queue_[m]
    PROVE  Respects(m, item)
<1>1. /\ m \in Busy /\ TypeOK /\ item \in FlowControlItem
  BY DEF IInv, TypeOK, Busy, PolledMarkets
<1>2. /\ top[m] \in FlowControlItem /\ top[n] \in FlowControlItem
      /\ n \in FlowMarkets /\ top[n] \in flow_control_queue_[n]
      /\ ~Outranks(item, top[m])
  BY <1>1, TopIsQueued DEF TopChoices, Tops
<1>3. Popped \subseteq {top[n].msg}
  BY DEF Popped, PopFlow
<1>4. CASE m \notin Ready(top)
  BY <1>1, <1>4, NoRoomBlocks DEF Ready, Respects
<1>5. CASE m \in Ready(top) /\ Popped # {}
  <2>1. top[n] \in PoppedItems
    BY <1>2, <1>3, <1>5 DEF PoppedItems
  <2>2. m = n \/ ~Outranks(top[m], top[n])
    <3>1. m = n \/ Outranks(top[n], top[m]) \/ ~Outranks(top[m], top[n])
      BY <1>5 DEF PopFlow, IsBest
    <3>2. Outranks(top[n], top[m]) => ~Outranks(top[m], top[n])
      BY <1>2 DEF FlowControlItem, Outranks
    <3>3. QED
      BY <3>1, <3>2
  <2>3. ~Outranks(item, top[n])
    BY <1>1, <1>2, <2>2, RanksCompare
  <2>4. QED
    BY <2>1, <2>3 DEF Respects
<1>6. QED
  BY <1>4, <1>5 DEF Respects

LEMMA NextRespects ==
    ASSUME IInv, LogSorted, [Next]_vars, NEW m \in PolledMarkets,
           NEW item \in flow_control_queue_[m]
    PROVE  Respects(m, item)
<1>1. CASE \E top \in TopChoices : \E n \in Busy : PopFlow(top, n)
  BY <1>1, PopFlowRespects
<1>2. CASE \E top \in TopChoices : PopNormal(top)
  <2>1. PICK top \in TopChoices : Ready(top) = {}
    BY <1>2 DEF PopNormal
  <2>2. m \in Busy
    BY DEF Busy
  <2>3. ~HasRoom(m, top[m])
    BY <2>1, <2>2 DEF Ready
  <2>4. QED
    BY <2>2, <2>3, NoRoomBlocks DEF Respects
<1>3. CASE delivered' = delivered
  BY <1>3 DEF Respects, Popped
<1>4. QED
  BY <1>1, <1>2, <1>3
     DEF Next, Push, PushOrder, PushEmptyOrder, PushWithdraw, PushOther, Arrive,
         Pop, PopNothing, Restart, Tick, vars, history

(* What Pop returns is never outranked by a waiting item of a polled market,   *)
(* unless that market is out of room for one at least as urgent.             *)
THEOREM PriorityRespectedHolds == Spec => PriorityRespected
<1>1. Init => LogSorted
  BY DEF Init, LogSorted
<1>2. IInv /\ LogSorted /\ [Next]_vars => LogSorted'
  BY NextSorted DEF IInv
<1>3. IInv /\ LogSorted /\ [Next]_vars
        => [\A m \in PolledMarkets : \A item \in flow_control_queue_[m] : Respects(m, item)]_vars
  BY NextRespects
<1>4. QED
  BY Invariance, <1>1, <1>2, <1>3, PTL DEF Spec, PriorityRespected

================================================================================
