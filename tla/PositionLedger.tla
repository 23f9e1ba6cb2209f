---------------------------- MODULE PositionLedger ----------------------------
(***************************************************************************)
(* What the bookkeeping of positions promises, without yesterday and today, *)
(* flags or markets: an order that would close freezes its volume, a fill     *)
(* takes what was frozen for it, and what is not filled is free again.  How  *)
(* much may be frozen is for the exchange to say, which rejects an order.   *)
(***************************************************************************)
EXTENDS Integers

CONSTANTS
    Side,
    Volume  \* what one step may move

VARIABLES held, frozen

vars == <<held, frozen>>

Init ==
    /\ held \in [Side -> Nat]
    /\ frozen = [s \in Side |-> 0]

Bought(s, n) ==
    /\ held' = [held EXCEPT ![s] = @ + n]
    /\ UNCHANGED frozen

Freeze(s, n) ==
    /\ frozen' = [frozen EXCEPT ![s] = @ + n]
    /\ UNCHANGED held

Release(s, n) ==
    /\ n <= frozen[s]
    /\ frozen' = [frozen EXCEPT ![s] = @ - n]
    /\ UNCHANGED held

Closed(s, n) ==
    /\ n <= frozen[s]
    /\ frozen' = [frozen EXCEPT ![s] = @ - n]
    /\ held' = [held EXCEPT ![s] = @ - n]

Next ==
    \E s \in Side, n \in Volume : Bought(s, n) \/ Freeze(s, n) \/ Release(s, n) \/ Closed(s, n)

Spec == Init /\ [][Next]_vars
================================================================================
