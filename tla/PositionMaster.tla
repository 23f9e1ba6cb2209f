---------------------------- MODULE PositionMaster ----------------------------
(***************************************************************************)
(* The positions of the broker (position_master.h and .cc): how much of a   *)
(* contract is held long and short, since yesterday and since today, how   *)
(* much of it is frozen for orders that would close it, and from that the  *)
(* flag of an order that leaves open or close to the broker.  One thread    *)
(* calls it, each method is one atomic action.                             *)
(*                                                                         *)
(* Spec books orders as the server does: with the flag of the client, before *)
(* the broker sees them.  ChosenSpec books them as the unit tests of options *)
(* and credit do, with the flag that the class has just chosen; the server   *)
(* asks for none.                                                          *)
(*                                                                         *)
(* The counter is external: it fills an order, in one or several knocks,    *)
(* rejects it, or reports that it was withdrawn, and the class is told, as   *)
(* the handlers of the server would tell it (MemServer shows that no report  *)
(* gets to them).  A message has one order.  No method touches two           *)
(* contracts: this is one, whose trade type and market are picked at the     *)
(* start.                                                                  *)
(***************************************************************************)
EXTENDS Integers, FiniteSets

CONSTANTS
    Order,
    Request,   \* Request[o]: what the client asks for
    Contracts, \* the trade types and markets to pick from
    Reported,  \* the positions the counter may report at the start
    KnockTypes,\* the match_type of the knocks the counter sends
    max_today_opening_volume_

CloseFlags == {"Close", "ForceClose", "ForceOff", "LocalForceClose"}

Flag == {"Auto", "Open", "CloseToday", "CloseYesterday"} \cup CloseFlags

ContractType ==
    [trade_type : {"future"}, market : {"CFFEX", "SHFE", "INE", "DCE", "CZCE"}]
        \cup [trade_type : {"option", "credit"}, market : {"SH", "SZ"}]

ReportType ==
    {r \in [long_volume : Nat, long_pre_volume : Nat, long_can_close : Nat,
            short_volume : Nat, short_pre_volume : Nat, short_can_close : Nat] :
        r.long_pre_volume <= r.long_volume /\ r.short_pre_volume <= r.short_volume}

ASSUME OrderAssumption == IsFiniteSet(Order)

ASSUME RequestAssumption ==
    Request \in [Order -> [bs_flag : {"buy", "sell"}, oc_flag : Flag, volume : Nat \ {0}]]

ASSUME ContractAssumption == Contracts \subseteq ContractType

ASSUME ReportAssumption == Reported \subseteq ReportType

ASSUME KnockAssumption == KnockTypes \subseteq {"OK", "WithdrawOK", "Failed"}

ASSUME LimitAssumption == max_today_opening_volume_ \in Int

VARIABLES
    contract,   \* trade_type_ and the marker_ of the contract
    positions_, \* its InnerPositions, long and short
    \* external
    oc_flag,    \* the flag an order is traded with, which its reports have
    left,       \* what is open of an order, 0 before it is sent and after its end
    held        \* what the account holds at the exchange

external == <<oc_flag, left, held>>
vars == <<contract, positions_, external>>

Side == {"long", "short"}

InnerPosition ==
    [yd_init : Nat, yd_closing : Int, yd_close : Int,
     td_init : Nat, td_closing : Int, td_close : Int, td_opening : Int, td_open : Nat]

NewPosition(yd_init, td_init) ==
    [yd_init |-> yd_init, yd_closing |-> 0, yd_close |-> 0,
     td_init |-> td_init, td_closing |-> 0, td_close |-> 0, td_opening |-> 0, td_open |-> 0]

GetYesterdayAvailableVolume(p) == p.yd_init - (p.yd_closing + p.yd_close)

GetTodayAvailableVolume(p) == (p.td_init + p.td_open) - (p.td_closing + p.td_close)

(* A definition marked "Mutant" is part of no behaviour: it is a plausible    *)
(* bug in the definition after it, which a property must notice.            *)

(* Mutant: the two volumes of the report change places. *)
InitPositionsSwapped(trade_type, r) ==
    [s \in Side |->
       IF s = "long"
       THEN NewPosition(r.long_volume, r.long_pre_volume - r.long_volume)
       ELSE NewPosition(r.short_volume, r.short_pre_volume - r.short_volume)]

InitPositions(trade_type, r) ==
    CASE trade_type = "future" ->
           [s \in Side |->
              IF s = "long"
              THEN NewPosition(r.long_pre_volume, r.long_volume - r.long_pre_volume)
              ELSE NewPosition(r.short_pre_volume, r.short_volume - r.short_pre_volume)]
      [] trade_type = "option" ->
           [s \in Side |->
              NewPosition(0, IF s = "long" THEN r.long_can_close ELSE r.short_can_close)]
      [] trade_type = "credit" ->
           [s \in Side |-> NewPosition(IF s = "long" THEN r.long_can_close ELSE 0, 0)]

Init ==
    /\ contract \in Contracts
    /\ \E r \in Reported : positions_ = InitPositions(contract.trade_type, r)
    /\ oc_flag = [o \in Order |-> "none"]
    /\ left = [o \in Order |-> 0]
    /\ held = [s \in Side |-> positions_[s].yd_init + positions_[s].td_init]

--------------------------------------------------------------------------------
(* Update: what an order, a match and a withdraw do to a position.            *)

(* Where an order with this flag is booked: Close means yesterday's position *)
(* on some markets and both, today's first, on the others.                 *)
Booked(flag) ==
    CASE contract.trade_type = "credit" -> "yesterday"
      [] contract.trade_type # "credit" /\ flag = "Open" -> "opening"
      [] contract.trade_type = "option" /\ flag # "Open" ->
           IF flag = "Close" THEN "today" ELSE "nowhere"
      [] contract.trade_type = "future" /\ flag # "Open" ->
           IF flag \in CloseFlags
           THEN IF contract.market \in {"SHFE", "INE", "CFFEX"} THEN "yesterday" ELSE "both"
           ELSE IF flag = "CloseToday" THEN "today"
           ELSE IF flag = "CloseYesterday" THEN "yesterday" ELSE "nowhere"

AtMost(n, bound) == IF bound >= n THEN n ELSE bound

(* Mutant: > where >= is meant, on every branch as it is on the opening branch *)
(* of futures.                                                             *)
ReducedIfMore(x, n) == IF x > n THEN x - n ELSE x

(* "if (x >= n) x -= n" *)
Reduced(x, n) == IF x >= n THEN x - n ELSE x

Ordered(p, flag, n) ==
    CASE Booked(flag) = "opening" -> [p EXCEPT !.td_opening = @ + n]
      [] Booked(flag) = "today" -> [p EXCEPT !.td_closing = @ + n]
      [] Booked(flag) = "yesterday" -> [p EXCEPT !.yd_closing = @ + n]
      [] Booked(flag) = "both" ->
           LET today == AtMost(n, GetTodayAvailableVolume(p)) IN
           [p EXCEPT !.td_closing = @ + today, !.yd_closing = @ + (n - today)]
      [] OTHER -> p

(* Mutant: what takes from both is split by what is available. *)
OfTodayAvailable(p, n) == AtMost(n, GetTodayAvailableVolume(p))

(* What takes from both takes what is frozen of today's position first.       *)
OfToday(p, n) == AtMost(n, p.td_closing)

Matched(p, flag, n) ==
    CASE Booked(flag) = "opening" ->
           [p EXCEPT
              !.td_opening = IF contract.trade_type = "option" THEN Reduced(@, n) ELSE @ - n,
              !.td_open = @ + n]
      [] Booked(flag) = "today" ->
           [p EXCEPT !.td_closing = Reduced(@, n), !.td_close = @ + n]
      [] Booked(flag) = "yesterday" ->
           [p EXCEPT !.yd_closing = Reduced(@, n), !.yd_close = @ + n]
      [] Booked(flag) = "both" ->
           LET today == OfToday(p, n) IN
           [p EXCEPT
              !.td_closing = @ - today, !.td_close = @ + today,
              !.yd_closing = @ - (n - today), !.yd_close = @ + (n - today)]
      [] OTHER -> p

(* Mutant: nothing of it is released. *)
OpeningKept(x, n) == x

(* Futures have ">" here where all else has ">=". *)
OpeningReduced(x, n) == IF contract.trade_type = "future" /\ x = n THEN x ELSE Reduced(x, n)

Withdrawn(p, flag, n) ==
    CASE Booked(flag) = "opening" ->
           [p EXCEPT !.td_opening = OpeningReduced(@, n)]
      [] Booked(flag) = "today" -> [p EXCEPT !.td_closing = Reduced(@, n)]
      [] Booked(flag) = "yesterday" -> [p EXCEPT !.yd_closing = Reduced(@, n)]
      [] Booked(flag) = "both" ->
           LET today == OfToday(p, n) IN
           [p EXCEPT !.td_closing = @ - today, !.yd_closing = @ - (n - today)]
      [] OTHER -> p

--------------------------------------------------------------------------------
(* Which position an order is about.                                         *)

GetPosition(bs_flag, flag) ==
    IF contract.trade_type = "credit"
    THEN IF flag = "Auto" /\ bs_flag = "sell" THEN {"long"} ELSE {}
    ELSE IF (bs_flag = "buy") = (flag = "Open") THEN {"long"} ELSE {"short"}

PositionOf(o) == GetPosition(Request[o].bs_flag, oc_flag[o])

(* The position that an order would close. *)
Counterpart(bs_flag) == positions_[IF bs_flag = "buy" THEN "short" ELSE "long"]

(* open_cache_ has no entry: the lines that would insert them are commented   *)
(* out.  What was opened today counts as nothing.                          *)
open_volume == 0

OverLimit(flag, volume) ==
    /\ contract.market = "CFFEX"
    /\ max_today_opening_volume_ >= 0
    /\ flag = "Open"
    /\ volume + open_volume > max_today_opening_volume_

(* Mutant: what is frozen counts as available. *)
AutoFutureFlagFrozen(bs_flag, volume) ==
    LET p == Counterpart(bs_flag) IN
    CASE contract.market = "CFFEX" ->
           IF open_volume = 0 /\ p.yd_init - p.yd_close >= volume THEN "Close" ELSE "Open"
      [] contract.market \in {"SHFE", "INE"} ->
           IF p.yd_init - p.yd_close >= volume THEN "CloseYesterday" ELSE "Open"
      [] OTHER -> "Open"

AutoFutureFlag(bs_flag, volume) ==
    LET yesterday == GetYesterdayAvailableVolume(Counterpart(bs_flag))
        today == GetTodayAvailableVolume(Counterpart(bs_flag))
    IN  CASE contract.market = "CFFEX" ->
               IF open_volume = 0 /\ yesterday >= volume THEN "Close" ELSE "Open"
          [] contract.market \in {"SHFE", "INE"} ->
               IF yesterday >= volume THEN "CloseYesterday"
               ELSE IF today > volume THEN "CloseToday" ELSE "Open"
          [] contract.market \in {"DCE", "CZCE"} ->
               IF yesterday + today >= volume THEN "Close" ELSE "Open"

(* A flag that the client has set is kept, except on CFFEX. *)
GetAutoOcFlag(bs_flag, flag, volume) ==
    CASE contract.trade_type = "future" ->
           IF flag = "Auto" THEN AutoFutureFlag(bs_flag, volume)
           ELSE IF contract.market = "CFFEX" THEN "Open" ELSE flag
      [] contract.trade_type = "option" ->
           IF GetTodayAvailableVolume(Counterpart(bs_flag)) > volume THEN "Close" ELSE "Open"
      [] contract.trade_type = "credit" ->
           IF bs_flag = "sell" /\ GetYesterdayAvailableVolume(positions_["long"]) >= volume
           THEN "Auto" ELSE "Open"

GetCloseYesterdayFlag(bs_flag, volume) ==
    IF GetYesterdayAvailableVolume(Counterpart(bs_flag)) < volume THEN "Open"
    ELSE IF contract.market \in {"SHFE", "INE"} THEN "CloseYesterday" ELSE "Close"

(* The flags that the class may choose: by the one method or, for futures, by  *)
(* the other.  No code but the unit tests asks for them.                   *)
FlagFor(o) ==
    LET r == Request[o] IN
    {GetAutoOcFlag(r.bs_flag, r.oc_flag, r.volume)}
        \cup (IF contract.trade_type = "future"
              THEN {GetCloseYesterdayFlag(r.bs_flag, r.volume)} ELSE {})

--------------------------------------------------------------------------------
(* The steps. *)

HandleTradeOrderReq(o, flag) ==
    positions_' =
        [s \in Side |->
           IF s \in GetPosition(Request[o].bs_flag, flag)
           THEN Ordered(positions_[s], flag, Request[o].volume) ELSE positions_[s]]

(* An order is booked with one flag, sent, and traded with another.           *)
Send(o, flag, traded) ==
    /\ oc_flag[o] = "none"
    /\ HandleTradeOrderReq(o, flag)
    /\ oc_flag' = [oc_flag EXCEPT ![o] = traded]
    /\ left' = [left EXCEPT ![o] = Request[o].volume]
    /\ UNCHANGED <<contract, held>>

(* A broker must find a flag for an order that leaves it to the broker.       *)
TradedAs(o) ==
    IF Request[o].oc_flag = "Auto" /\ contract.trade_type # "credit" THEN {"Open", "Close"}
    ELSE {Request[o].oc_flag}

(* The end of MemBrokerServer::SendTradeOrderReq. *)
SendOrder(o) == \E traded \in TradedAs(o) : Send(o, Request[o].oc_flag, traded)

(* A unit test sets the flag that the class chooses. *)
SendChosen(o) ==
    \E flag \in FlagFor(o) : ~OverLimit(flag, Request[o].volume) /\ Send(o, flag, flag)

(* The function throws, the order is not sent. *)
RefuseOrder(o) ==
    /\ oc_flag[o] = "none"
    /\ \E flag \in FlagFor(o) : OverLimit(flag, Request[o].volume)
    /\ oc_flag' = [oc_flag EXCEPT ![o] = "refused"]
    /\ UNCHANGED <<contract, positions_, left, held>>

(* HandleTradeOrderRep without an order_no: the order was rejected.  With an  *)
(* order_no it does nothing.                                               *)
HandleTradeOrderRep(o) ==
    /\ left[o] > 0
    /\ left[o] = Request[o].volume
    /\ positions_' =
         [s \in Side |->
            IF s \in PositionOf(o)
            THEN Withdrawn(positions_[s], oc_flag[o], Request[o].volume) ELSE positions_[s]]
    /\ left' = [left EXCEPT ![o] = 0]
    /\ UNCHANGED <<contract, oc_flag, held>>

(* The match_volume of a knock goes to Update as it is, also when the knock   *)
(* says that this volume was withdrawn.                                    *)
HandleTradeKnock(o, match_type, match_volume) ==
    LET withdraw_volume == IF match_type = "OK" THEN 0 ELSE match_volume
        Updated(p) ==
            LET q == Matched(p, oc_flag[o], match_volume) IN
            IF withdraw_volume > 0 THEN Withdrawn(q, oc_flag[o], withdraw_volume) ELSE q
    IN  positions_' =
            [s \in Side |->
               IF s \in PositionOf(o) THEN Updated(positions_[s]) ELSE positions_[s]]

(* The exchange fills n of an order, which it can only close if the account   *)
(* holds it, or withdraws all that is left.                                *)
Knock(o, match_type, n) ==
    /\ n \in 1 .. left[o]
    /\ match_type = "OK" /\ oc_flag[o] # "Open" => \A s \in PositionOf(o) : n <= held[s]
    /\ match_type # "OK" => n = left[o]
    /\ HandleTradeKnock(o, match_type, n)
    /\ left' = [left EXCEPT ![o] = @ - n]
    /\ held' =
         [s \in Side |->
            IF s \notin PositionOf(o) \/ match_type # "OK" THEN held[s]
            ELSE IF oc_flag[o] = "Open" THEN held[s] + n ELSE held[s] - n]
    /\ UNCHANGED <<contract, oc_flag>>

Answer(o) ==
    \/ HandleTradeOrderRep(o)
    \/ \E match_type \in KnockTypes, n \in 1 .. left[o] : Knock(o, match_type, n)

Next == \E o \in Order : SendOrder(o) \/ Answer(o)

NextChosen == \E o \in Order : SendChosen(o) \/ RefuseOrder(o) \/ Answer(o)

Spec == Init /\ [][Next]_vars

ChosenSpec == Init /\ [][NextChosen]_vars

--------------------------------------------------------------------------------
(* Properties *)

(* Every variable keeps its type. *)
TypeOK ==
    /\ contract \in Contracts
    /\ positions_ \in [Side -> InnerPosition]
    /\ oc_flag \in [Order -> Flag \cup {"none", "refused"}]
    /\ left \in [Order -> Nat]
    /\ held \in [Side -> Int]

(* The lots of the open orders that are booked on a position, those that      *)
(* would open it and those that would close it.                            *)
Lots(o) == {o} \X (1 .. left[o])

OpeningLots(s) == UNION {Lots(o) : o \in {q \in Order : s \in PositionOf(q) /\ oc_flag[q] = "Open"}}

ClosingLots(s) == UNION {Lots(o) : o \in {q \in Order : s \in PositionOf(q) /\ oc_flag[q] # "Open"}}

Held(p) == (p.yd_init - p.yd_close) + ((p.td_init + p.td_open) - p.td_close)

Frozen(p) == p.yd_closing + p.td_closing

(* What the position holds is what the account holds at the exchange, and     *)
(* what is frozen for closing is what the open orders can still close: with *)
(* any number of orders open at once, some filled in part, some rejected.   *)
(* Of neither day's position is released what was not frozen.               *)
BooksAgree ==
    \A s \in Side :
        /\ Held(positions_[s]) = held[s]
        /\ Frozen(positions_[s]) = Cardinality(ClosingLots(s))
        /\ positions_[s].yd_closing >= 0
        /\ positions_[s].td_closing >= 0

(* What is frozen for opening is what the open orders can still open, and on   *)
(* futures at most the volume of one more order: when the only opening order *)
(* is rejected, all that is frozen stays so (">" where the other branches   *)
(* have ">="), but nothing is ever added to it.                            *)
OpeningLeak ==
    \A s \in Side :
        LET leak == positions_[s].td_opening - Cardinality(OpeningLots(s)) IN
        \/ leak = 0
        \/ /\ contract.trade_type = "future"
           /\ \E o \in Order :
                /\ oc_flag[o] = "Open" /\ left[o] = 0
                /\ PositionOf(o) = {s}
                /\ leak = Request[o].volume

(* Neither of today's nor of yesterday's position is more promised than there *)
(* is: what the class chooses to close, and what is booked before it is      *)
(* asked again, can be closed.  It holds of ChosenSpec: the flag of a client *)
(* is booked unseen, and the exchange may reject the order.                 *)
NoOversell ==
    \A s \in Side :
        /\ GetYesterdayAvailableVolume(positions_[s]) >= 0
        /\ GetTodayAvailableVolume(positions_[s]) >= 0

Ledger ==
    INSTANCE PositionLedger WITH
        Volume <- UNION {1 .. Request[o].volume : o \in Order},
        held <- [s \in Side |-> Held(positions_[s])],
        frozen <- [s \in Side |-> Frozen(positions_[s])]

(* Seen without days and flags, the position master is a PositionLedger.      *)
ImplementsLedger == Ledger!Spec
================================================================================
