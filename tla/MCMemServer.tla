------------------------------ MODULE MCMemServer ------------------------------
(* Instances of MemServer for TLC. *)
EXTENDS MemServer, TLC

CONSTANTS m1, m2, m3, w1

(* A buy and a sell that would match. *)
BuyAndSell ==
    (m1 :> <<[side |-> "buy", bs_flag |-> "buy", price |-> 1, volume |-> 1]>>)
        @@ (m2 :> <<[side |-> "sell", bs_flag |-> "sell", price |-> 1, volume |-> 1]>>)

(* The same, the sell with a second order that crosses nothing and has no flag *)
(* of its own, and a message without orders.                               *)
BuySellAndNone ==
    [BuyAndSell EXCEPT
       ![m2] = Append(@, [side |-> "sell", bs_flag |-> "none", price |-> 2, volume |-> 1])]
        @@ (m3 :> <<>>)

WithdrawFirst == w1 :> [order |-> <<m1, 1>>]

(* The sell asks for more time than the server gives. *)
SellWaits == [m \in Message |-> IF m = m2 THEN 2 ELSE 0]
================================================================================
