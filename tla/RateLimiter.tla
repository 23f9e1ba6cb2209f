------------------------------ MODULE RateLimiter ------------------------------
(***************************************************************************)
(* What flow control promises an exchange, whatever queues it keeps: in    *)
(* the life of one process no more than Limit[m] commands reach market m   *)
(* within one window, and no more than DailyLimit[m] of them are sent      *)
(* without an error on one day, restarts or not.                           *)
(***************************************************************************)
EXTENDS Integers, Sequences

CONSTANTS
    Market,
    Limit,      \* per market: commands in one window
    DailyLimit, \* per market: commands without an error in one day
    Window      \* the length of the window

VARIABLES
    clock,
    sent,   \* per market: the time of every command
    from,   \* per market: how many commands earlier processes sent
    today   \* per market: commands sent without an error today

vars == <<clock, sent, from, today>>

Init ==
    /\ clock = 0
    /\ sent = [m \in Market |-> << >>]
    /\ from = [m \in Market |-> 0]
    /\ today = [m \in Market |-> 0]

Advance ==
    /\ clock' = clock + 1
    /\ UNCHANGED <<sent, from, today>>

(* n more commands may be sent when all but the last Limit[m] - n of this   *)
(* process are older than the window.                                      *)
MaySend(m, n) ==
    \A i \in from[m] + 1 .. Len(sent[m]) :
        i <= Len(sent[m]) + n - Limit[m] => clock - sent[m][i] > Window

Send(m) ==
    \E n \in 0 .. Limit[m], passed \in BOOLEAN :
        /\ MaySend(m, n)
        /\ sent' = [sent EXCEPT ![m] = @ \o [i \in 1 .. n |-> clock]]
        /\ passed => today[m] + n <= DailyLimit[m]
        /\ today' = [today EXCEPT ![m] = IF passed THEN @ + n ELSE @]
        /\ UNCHANGED <<clock, from>>

NewProcess(new_day) ==
    /\ from' = [m \in Market |-> Len(sent[m])]
    /\ today' = IF new_day THEN [m \in Market |-> 0] ELSE today
    /\ UNCHANGED <<clock, sent>>

Next ==
    \/ Advance
    \/ \E m \in Market : Send(m)
    \/ \E new_day \in BOOLEAN : NewProcess(new_day)

Spec == Init /\ [][Next]_vars

================================================================================
