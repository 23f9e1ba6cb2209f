--------------------------- MODULE MCPositionMaster ---------------------------
(* Instances of PositionMaster for TLC. *)
EXTENDS PositionMaster, TLC

CONSTANTS o1, o2, o3, o4

Ask(bs_flag, flag, volume) == [bs_flag |-> bs_flag, oc_flag |-> flag, volume |-> volume]

FourOrders == {o1, o2, o3, o4}

(* Clients that set the flags themselves: sells that close one long position, *)
(* and may ask for more than there is, a buy that opens more of it and one   *)
(* that closes a short one.                                                *)
ClientRequests ==
    (o1 :> Ask("sell", "Close", 2)) @@ (o2 :> Ask("sell", "Close", 1))
        @@ (o3 :> Ask("buy", "Open", 2)) @@ (o4 :> Ask("buy", "Close", 1))

(* Clients that leave the flag to the broker: sells that compete for one long *)
(* position, and a buy that may open more of it or close a short one.      *)
AutoRequests ==
    (o1 :> Ask("sell", "Auto", 2)) @@ (o2 :> Ask("sell", "Auto", 1))
        @@ (o3 :> Ask("sell", "Auto", 1)) @@ (o4 :> Ask("buy", "Auto", 2))

Future(market) == [trade_type |-> "future", market |-> market]

EveryContract ==
    {Future("CFFEX"), Future("SHFE"), Future("DCE"),
     [trade_type |-> "option", market |-> "SH"], [trade_type |-> "credit", market |-> "SH"]}

Report(long, long_pre, short, short_pre) ==
    [long_volume |-> long, long_pre_volume |-> long_pre, long_can_close |-> long,
     short_volume |-> short, short_pre_volume |-> short_pre, short_can_close |-> short]

(* Mostly yesterday's, mostly today's. *)
TwoReports == {Report(3, 2, 2, 2), Report(4, 1, 3, 0)}
================================================================================
