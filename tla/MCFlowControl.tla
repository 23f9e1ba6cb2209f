----------------------------- MODULE MCFlowControl -----------------------------
(* Instances of FlowControl for TLC.  One tick is the window itself, 1500 ms: *)
(* "more than the window" is two ticks.                                    *)
EXTENDS FlowControl, FiniteSetsExt, TLC

CONSTANTS r1, r2, r3, r4, r5, r6, r7

Order(market, size, amount) ==
    [type |-> "order", market |-> market, items_size |-> size, trade |-> TRUE,
     order_amount |-> amount, batched |-> FALSE, batch_size |-> 0]

CreateRedeem(market) ==
    [type |-> "order", market |-> market, items_size |-> 1, trade |-> FALSE,
     order_amount |-> 0, batched |-> FALSE, batch_size |-> 0]

Withdraw(market) ==
    [type |-> "withdraw", market |-> market, items_size |-> 0, trade |-> FALSE,
     order_amount |-> 0, batched |-> FALSE, batch_size |-> 0]

BatchWithdraw(market, size) ==
    [type |-> "withdraw", market |-> market, items_size |-> 0, trade |-> FALSE,
     order_amount |-> 0, batched |-> TRUE, batch_size |-> size]

Query ==
    [type |-> "other", market |-> 0, items_size |-> 0, trade |-> FALSE,
     order_amount |-> 0, batched |-> FALSE, batch_size |-> 0]

SafetyRequest == {r1, r2, r3, r4, r5, r6, r7}

(* Shanghai (1) gets a batch of two, a redemption and a withdraw, Shenzhen   *)
(* (2) an order, market 9 (no flow control) an order without items.         *)
SafetyMsg ==
    (r1 :> Order(1, 2, 5)) @@ (r2 :> Withdraw(1)) @@ (r3 :> Order(2, 1, 5)) @@
    (r4 :> CreateRedeem(1)) @@ (r5 :> Query) @@ (r6 :> Order(9, 0, 5)) @@
    (r7 :> Order(2, 1, 5))

SafetyTps == (1 :> 2) @@ (2 :> 1)

SafetyDaily == (1 :> 3) @@ (2 :> 2)

TwoMarkets == {1, 2}

LivenessRequest == {r1, r2, r3, r4, r5, r6}

(* The batch withdraw of three and the order of three are larger than the    *)
(* limits of their markets.                                                *)
LivenessMsg ==
    (r1 :> Order(1, 2, 5)) @@ (r2 :> BatchWithdraw(1, 3)) @@ (r3 :> Withdraw(1)) @@
    (r4 :> Order(2, 3, 5)) @@ (r5 :> Withdraw(2)) @@ (r6 :> Order(9, 1, 5))

LivenessTps == (1 :> 2) @@ (2 :> 1)

LivenessDaily == (1 :> 2) @@ (2 :> 9)

--------------------------------------------------------------------------------
(* What a comment of flow_control.h says, and the code does not do. *)

(* flow_control.h:58 calls th_tps_limit_ the limit of orders and withdraws   *)
(* per second, with no exception for the second after a restart: more than  *)
(* that never leave at one instant.                                        *)
RateAcrossRestarts ==
    \A m \in FlowMarkets :
        \A i \in 1 .. Len(sent_log[m]) - th_tps_limit[m] :
            sent_log[m][i + th_tps_limit[m]] > sent_log[m][i]
================================================================================
