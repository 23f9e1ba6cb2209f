---------------------------- MODULE MCAntiSelfKnock ----------------------------
(* Instances of AntiSelfKnock for TLC. *)
EXTENDS AntiSelfKnock, TLC

CONSTANTS m1, m2

Buy(price, volume) == [side |-> "buy", bs_flag |-> "buy", price |-> price, volume |-> volume]

Sell(price, volume) == [side |-> "sell", bs_flag |-> "sell", price |-> price, volume |-> volume]

TwoMessages == {m1, m2}

(* A batch of two buys at different prices against one sell that crosses      *)
(* both.                                                                   *)
BatchItems == (m1 :> <<Buy(2, 2), Buy(1, 1)>>) @@ (m2 :> <<Sell(1, 1)>>)

(* A batch of two buys of the same price. *)
AlikeItems == (m1 :> <<Buy(2, 1), Buy(2, 1)>>) @@ (m2 :> <<Sell(1, 1)>>)
================================================================================
