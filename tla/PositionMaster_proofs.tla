------------------------ MODULE PositionMaster_proofs ------------------------
(* Theorems about PositionMaster, for every set of orders, any report of the  *)
(* counter and every contract.                                             *)
EXTENDS PositionMaster, FiniteSetTheorems, TLAPS

(* A flag that the class may choose is one of the flags of the exchange.      *)
LEMMA FlagType ==
    ASSUME contract \in Contracts, NEW o \in Order, NEW flag \in FlagFor(o)
    PROVE  flag \in Flag
<1>1. contract \in ContractType
  BY ContractAssumption
<1>2. Request[o].oc_flag \in Flag
  BY RequestAssumption
<1>3. GetCloseYesterdayFlag(Request[o].bs_flag, Request[o].volume) \in Flag
  BY DEF GetCloseYesterdayFlag, Flag, CloseFlags
<1>4. ASSUME contract.trade_type = "future"
      PROVE  AutoFutureFlag(Request[o].bs_flag, Request[o].volume) \in Flag
  <2>1. contract.market \in {"CFFEX", "SHFE", "INE", "DCE", "CZCE"}
    BY <1>1, <1>4 DEF ContractType
  <2>2. QED
    BY <2>1 DEF AutoFutureFlag, Flag, CloseFlags
<1>5. GetAutoOcFlag(Request[o].bs_flag, Request[o].oc_flag, Request[o].volume) \in Flag
  <2>1. contract.trade_type \in {"future", "option", "credit"}
    BY <1>1 DEF ContractType
  <2>2. QED
    BY <1>2, <1>4, <2>1 DEF GetAutoOcFlag, Flag, CloseFlags
<1>6. QED
  BY <1>3, <1>5 DEF FlagFor

(* What an order of n that is booked at b, today of it today, makes of p. *)
OrderedTo(p, q, n, b, today) ==
    /\ q \in InnerPosition
    /\ q.yd_init = p.yd_init /\ q.yd_close = p.yd_close
    /\ q.td_init = p.td_init /\ q.td_close = p.td_close /\ q.td_open = p.td_open
    /\ q.yd_closing = IF b = "yesterday" THEN p.yd_closing + n
                      ELSE IF b = "both" THEN p.yd_closing + (n - today)
                      ELSE p.yd_closing
    /\ q.td_closing = IF b = "today" THEN p.td_closing + n
                      ELSE IF b = "both" THEN p.td_closing + today
                      ELSE p.td_closing
    /\ q.td_opening = IF b = "opening" THEN p.td_opening + n ELSE p.td_opening

(* What an order does to a position. *)
LEMMA OrderedEffect ==
    ASSUME NEW p \in InnerPosition, NEW flag, NEW n \in Nat
    PROVE  OrderedTo(p, Ordered(p, flag, n), n, Booked(flag), AtMost(n, GetTodayAvailableVolume(p)))
<1> SUFFICES ASSUME NEW q, q = Ordered(p, flag, n),
                    NEW b, b = Booked(flag),
                    NEW today, today = AtMost(n, GetTodayAvailableVolume(p))
             PROVE  OrderedTo(p, q, n, b, today)
  OBVIOUS
<1>1. today \in Int /\ \A x \in Int : Reduced(x, n) \in Int
  BY DEF AtMost, OfToday, Reduced, GetTodayAvailableVolume, InnerPosition
<1>2. q = CASE b = "opening" -> [p EXCEPT !.td_opening = @ + n]
            [] b = "today" -> [p EXCEPT !.td_closing = @ + n]
            [] b = "yesterday" -> [p EXCEPT !.yd_closing = @ + n]
            [] b = "both" -> [p EXCEPT !.td_closing = @ + today, !.yd_closing = @ + (n - today)]
            [] OTHER -> p
  BY DEF Ordered
<1>3. CASE b = "opening"
  BY <1>1, <1>2, <1>3 DEF InnerPosition, OrderedTo
<1>4. CASE b = "today"
  BY <1>1, <1>2, <1>4 DEF InnerPosition, OrderedTo
<1>5. CASE b = "yesterday"
  BY <1>1, <1>2, <1>5 DEF InnerPosition, OrderedTo
<1>6. CASE b = "both"
  <2> DEFINE a == p.td_closing + today
             c == p.yd_closing + (n - today)
  <2>1. a \in Int /\ c \in Int
    BY <1>1 DEF InnerPosition, OrderedTo
  <2>2. q = [p EXCEPT !.td_closing = a, !.yd_closing = c]
    BY <1>2, <1>6
  <2> HIDE DEF a, c
  <2>3. QED
    BY <1>6, <2>1, <2>2 DEF InnerPosition, OrderedTo, a, c
<1>7. CASE b \notin {"opening", "today", "yesterday", "both"}
  <2>1. q = p
    BY <1>2, <1>7
  <2>2. QED
    BY <1>7, <2>1 DEF InnerPosition, OrderedTo
<1>8. QED
  BY <1>3, <1>4, <1>5, <1>6, <1>7

(* What a match of n that is booked at b, today of it today, makes of p. *)
MatchedTo(p, q, n, b, today) ==
    /\ q \in InnerPosition
    /\ q.yd_init = p.yd_init /\ q.td_init = p.td_init
    /\ q.td_open = IF b = "opening" THEN p.td_open + n ELSE p.td_open
    /\ q.yd_close = IF b = "yesterday" THEN p.yd_close + n
                    ELSE IF b = "both" THEN p.yd_close + (n - today)
                    ELSE p.yd_close
    /\ q.td_close = IF b = "today" THEN p.td_close + n
                    ELSE IF b = "both" THEN p.td_close + today
                    ELSE p.td_close
    /\ q.yd_closing = IF b = "yesterday" THEN Reduced(p.yd_closing, n)
                      ELSE IF b = "both" THEN p.yd_closing - (n - today)
                      ELSE p.yd_closing
    /\ q.td_closing = IF b = "today" THEN Reduced(p.td_closing, n)
                      ELSE IF b = "both" THEN p.td_closing - today
                      ELSE p.td_closing
    /\ q.td_opening = IF b # "opening" THEN p.td_opening
                      ELSE IF contract.trade_type = "option"
                           THEN Reduced(p.td_opening, n) ELSE p.td_opening - n

(* What a match does to a position. *)
LEMMA MatchedEffect ==
    ASSUME NEW p \in InnerPosition, NEW flag, NEW n \in Nat
    PROVE  MatchedTo(p, Matched(p, flag, n), n, Booked(flag), OfToday(p, n))
<1> SUFFICES ASSUME NEW q, q = Matched(p, flag, n),
                    NEW b, b = Booked(flag),
                    NEW today, today = OfToday(p, n)
             PROVE  MatchedTo(p, q, n, b, today)
  OBVIOUS
<1>1. today \in Int /\ \A x \in Int : Reduced(x, n) \in Int
  BY DEF AtMost, OfToday, Reduced, GetTodayAvailableVolume, InnerPosition
<1>2. q = CASE b = "opening" -> [p EXCEPT
              !.td_opening = IF contract.trade_type = "option" THEN Reduced(@, n) ELSE @ - n,
              !.td_open = @ + n]
            [] b = "today" -> [p EXCEPT !.td_closing = Reduced(@, n), !.td_close = @ + n]
            [] b = "yesterday" -> [p EXCEPT !.yd_closing = Reduced(@, n), !.yd_close = @ + n]
            [] b = "both" -> [p EXCEPT
              !.td_closing = @ - today, !.td_close = @ + today,
              !.yd_closing = @ - (n - today), !.yd_close = @ + (n - today)]
            [] OTHER -> p
  BY DEF Matched
<1>3. CASE b = "opening"
  <2> DEFINE a == IF contract.trade_type = "option" THEN Reduced(p.td_opening, n) ELSE p.td_opening - n
             c == p.td_open + n
  <2>1. a \in Int /\ c \in Nat
    BY <1>1 DEF InnerPosition, MatchedTo
  <2>2. q = [p EXCEPT !.td_opening = a, !.td_open = c]
    BY <1>2, <1>3
  <2> HIDE DEF a, c
  <2>3. QED
    BY <1>3, <2>1, <2>2 DEF InnerPosition, MatchedTo, a, c
<1>4. CASE b = "today"
  <2> DEFINE a == Reduced(p.td_closing, n)
             c == p.td_close + n
  <2>1. a \in Int /\ c \in Int
    BY <1>1 DEF InnerPosition, MatchedTo
  <2>2. q = [p EXCEPT !.td_closing = a, !.td_close = c]
    BY <1>2, <1>4
  <2> HIDE DEF a, c
  <2>3. QED
    BY <1>4, <2>1, <2>2 DEF InnerPosition, MatchedTo, a, c
<1>5. CASE b = "yesterday"
  <2> DEFINE a == Reduced(p.yd_closing, n)
             c == p.yd_close + n
  <2>1. a \in Int /\ c \in Int
    BY <1>1 DEF InnerPosition, MatchedTo
  <2>2. q = [p EXCEPT !.yd_closing = a, !.yd_close = c]
    BY <1>2, <1>5
  <2> HIDE DEF a, c
  <2>3. QED
    BY <1>5, <2>1, <2>2 DEF InnerPosition, MatchedTo, a, c
<1>6. CASE b = "both"
  <2> DEFINE a == p.td_closing - today
             c == p.td_close + today
             d == p.yd_closing - (n - today)
             e == p.yd_close + (n - today)
  <2>1. a \in Int /\ c \in Int /\ d \in Int /\ e \in Int
    BY <1>1 DEF InnerPosition, MatchedTo
  <2>2. q = [p EXCEPT !.td_closing = a, !.td_close = c, !.yd_closing = d, !.yd_close = e]
    BY <1>2, <1>6
  <2> HIDE DEF a, c, d, e
  <2>3. QED
    BY <1>6, <2>1, <2>2 DEF InnerPosition, MatchedTo, a, c, d, e
<1>7. CASE b \notin {"opening", "today", "yesterday", "both"}
  <2>1. q = p
    BY <1>2, <1>7
  <2>2. QED
    BY <1>7, <2>1 DEF InnerPosition, MatchedTo
<1>8. QED
  BY <1>3, <1>4, <1>5, <1>6, <1>7

(* What a withdraw of n that is booked at b, today of it today, makes of p. *)
WithdrawnTo(p, q, n, b, today) ==
    /\ q \in InnerPosition
    /\ q.yd_init = p.yd_init /\ q.yd_close = p.yd_close
    /\ q.td_init = p.td_init /\ q.td_close = p.td_close /\ q.td_open = p.td_open
    /\ q.yd_closing = IF b = "yesterday" THEN Reduced(p.yd_closing, n)
                      ELSE IF b = "both" THEN p.yd_closing - (n - today)
                      ELSE p.yd_closing
    /\ q.td_closing = IF b = "today" THEN Reduced(p.td_closing, n)
                      ELSE IF b = "both" THEN p.td_closing - today
                      ELSE p.td_closing
    /\ q.td_opening =
         IF b # "opening" \/ (contract.trade_type = "future" /\ p.td_opening = n)
         THEN p.td_opening ELSE Reduced(p.td_opening, n)

(* What a withdraw does to a position. *)
LEMMA WithdrawnEffect ==
    ASSUME NEW p \in InnerPosition, NEW flag, NEW n \in Nat
    PROVE  WithdrawnTo(p, Withdrawn(p, flag, n), n, Booked(flag), OfToday(p, n))
<1> SUFFICES ASSUME NEW q, q = Withdrawn(p, flag, n),
                    NEW b, b = Booked(flag),
                    NEW today, today = OfToday(p, n)
             PROVE  WithdrawnTo(p, q, n, b, today)
  OBVIOUS
<1>1. today \in Int /\ \A x \in Int : Reduced(x, n) \in Int
  BY DEF AtMost, OfToday, Reduced, GetTodayAvailableVolume, InnerPosition
<1>2. q = CASE b = "opening" -> [p EXCEPT !.td_opening = OpeningReduced(@, n)]
            [] b = "today" -> [p EXCEPT !.td_closing = Reduced(@, n)]
            [] b = "yesterday" -> [p EXCEPT !.yd_closing = Reduced(@, n)]
            [] b = "both" -> [p EXCEPT !.td_closing = @ - today, !.yd_closing = @ - (n - today)]
            [] OTHER -> p
  BY DEF Withdrawn
<1>3. CASE b = "opening"
  <2> DEFINE a == OpeningReduced(p.td_opening, n)
  <2>1. a \in Int
    BY <1>1 DEF OpeningReduced, InnerPosition
  <2>2. q = [p EXCEPT !.td_opening = a]
    BY <1>2, <1>3
  <2>3. a = IF contract.trade_type = "future" /\ p.td_opening = n
            THEN p.td_opening ELSE Reduced(p.td_opening, n)
    BY DEF OpeningReduced
  <2> HIDE DEF a
  <2>4. QED
    BY <1>3, <2>1, <2>2, <2>3 DEF InnerPosition, WithdrawnTo
<1>4. CASE b = "today"
  BY <1>1, <1>2, <1>4 DEF InnerPosition, WithdrawnTo
<1>5. CASE b = "yesterday"
  BY <1>1, <1>2, <1>5 DEF InnerPosition, WithdrawnTo
<1>6. CASE b = "both"
  <2> DEFINE a == p.td_closing - today
             c == p.yd_closing - (n - today)
  <2>1. a \in Int /\ c \in Int
    BY <1>1 DEF InnerPosition, WithdrawnTo
  <2>2. q = [p EXCEPT !.td_closing = a, !.yd_closing = c]
    BY <1>2, <1>6
  <2> HIDE DEF a, c
  <2>3. QED
    BY <1>6, <2>1, <2>2 DEF InnerPosition, WithdrawnTo, a, c
<1>7. CASE b \notin {"opening", "today", "yesterday", "both"}
  <2>1. q = p
    BY <1>2, <1>7
  <2>2. QED
    BY <1>7, <2>1 DEF InnerPosition, WithdrawnTo
<1>8. QED
  BY <1>3, <1>4, <1>5, <1>6, <1>7

(* Update keeps a position a position. *)
LEMMA UpdateType ==
    ASSUME NEW p \in InnerPosition, NEW flag, NEW n \in Nat
    PROVE  /\ Ordered(p, flag, n) \in InnerPosition
           /\ Matched(p, flag, n) \in InnerPosition
           /\ Withdrawn(p, flag, n) \in InnerPosition
  BY OrderedEffect, MatchedEffect, WithdrawnEffect DEF OrderedTo, MatchedTo, WithdrawnTo

(* The positions at the start, and the rest of it, are of their types. *)
LEMMA InitType == Init => TypeOK
<1> SUFFICES ASSUME Init PROVE TypeOK
  OBVIOUS
<1>1. PICK r \in Reported : positions_ = InitPositions(contract.trade_type, r)
  BY DEF Init
<1>2. r \in ReportType
  BY ReportAssumption
<1>3. contract.trade_type \in {"future", "option", "credit"}
  BY ContractAssumption DEF Init, ContractType
<1>4. \A y, t \in Nat : NewPosition(y, t) \in InnerPosition
  BY DEF NewPosition, InnerPosition
<1>5. /\ r.long_volume - r.long_pre_volume \in Nat
      /\ r.short_volume - r.short_pre_volume \in Nat
      /\ r.long_pre_volume \in Nat /\ r.short_pre_volume \in Nat
      /\ r.long_can_close \in Nat /\ r.short_can_close \in Nat
  BY <1>2 DEF ReportType
<1>6. positions_ \in [Side -> InnerPosition]
  BY <1>1, <1>3, <1>4, <1>5 DEF InitPositions
<1>7. held \in [Side -> Int]
  <2>1. \A s \in Side : positions_[s].yd_init + positions_[s].td_init \in Int
    BY <1>6 DEF InnerPosition
  <2>2. QED
    BY <2>1 DEF Init
<1>8. QED
  BY <1>6, <1>7 DEF Init, TypeOK

(* A step of the server or of a unit test. *)
AnyNext == Next \/ NextChosen

(* Every step keeps the types. *)
LEMMA NextType == TypeOK /\ [AnyNext]_vars => TypeOK'
<1> SUFFICES ASSUME TypeOK, [AnyNext]_vars PROVE TypeOK'
  OBVIOUS
<1>1. ASSUME NEW o \in Order
      PROVE  Request[o].volume \in Nat \ {0} /\ Request[o].oc_flag \in Flag
  BY RequestAssumption
<1>2. ASSUME NEW o \in Order, NEW flag \in Flag, NEW traded \in Flag, Send(o, flag, traded)
      PROVE  TypeOK'
  <2>1. \A s \in Side : Ordered(positions_[s], flag, Request[o].volume) \in InnerPosition
    BY <1>1, UpdateType DEF TypeOK
  <2>2. positions_' \in [Side -> InnerPosition]
    BY <1>2, <2>1 DEF Send, HandleTradeOrderReq, TypeOK
  <2>3. QED
    BY <1>1, <1>2, <2>2 DEF Send, TypeOK
<1>3. ASSUME NEW o \in Order, RefuseOrder(o)
      PROVE  TypeOK'
  BY <1>3 DEF RefuseOrder, TypeOK
<1>4. ASSUME NEW o \in Order, HandleTradeOrderRep(o)
      PROVE  TypeOK'
  <2>1. \A s \in Side :
          Withdrawn(positions_[s], oc_flag[o], Request[o].volume) \in InnerPosition
    BY <1>1, UpdateType DEF TypeOK
  <2>2. positions_' \in [Side -> InnerPosition]
    BY <1>4, <2>1 DEF HandleTradeOrderRep, TypeOK
  <2>3. QED
    BY <1>4, <2>2 DEF HandleTradeOrderRep, TypeOK
<1>5. ASSUME NEW o \in Order, NEW match_type \in KnockTypes, NEW n \in 1 .. left[o],
             Knock(o, match_type, n)
      PROVE  TypeOK'
  <2>1. n \in Nat /\ left[o] - n \in Nat
    BY DEF TypeOK
  <2>2. \A s \in Side : Matched(positions_[s], oc_flag[o], n) \in InnerPosition
    BY <2>1, UpdateType DEF TypeOK
  <2>3. \A s \in Side :
          Withdrawn(Matched(positions_[s], oc_flag[o], n), oc_flag[o], n) \in InnerPosition
    BY <2>1, <2>2, UpdateType
  <2>4. positions_' \in [Side -> InnerPosition]
    BY <1>5, <2>1, <2>2, <2>3 DEF Knock, HandleTradeKnock, TypeOK
  <2>5. held' \in [Side -> Int]
    BY <1>5, <2>1 DEF Knock, TypeOK
  <2>6. QED
    BY <1>5, <2>1, <2>4, <2>5 DEF Knock, TypeOK
<1>6. CASE UNCHANGED vars
  BY <1>6 DEF vars, external, TypeOK
<1>7. ASSUME NEW o \in Order, SendOrder(o)
      PROVE  TypeOK'
  <2>1. PICK traded \in TradedAs(o) : Send(o, Request[o].oc_flag, traded)
    BY <1>7 DEF SendOrder
  <2>2. traded \in Flag
    BY <1>1 DEF TradedAs, Flag, CloseFlags
  <2>3. QED
    BY <1>1, <1>2, <2>1, <2>2
<1>8. ASSUME NEW o \in Order, SendChosen(o)
      PROVE  TypeOK'
  <2>1. PICK flag \in FlagFor(o) : Send(o, flag, flag)
    BY <1>8 DEF SendChosen
  <2>2. flag \in Flag
    BY FlagType DEF TypeOK
  <2>3. QED
    BY <1>2, <2>1, <2>2
<1>9. QED
  BY <1>3, <1>4, <1>5, <1>6, <1>7, <1>8 DEF AnyNext, Next, NextChosen, Answer

(* Positions, flags and volumes keep their types, whoever sets the flags. *)
THEOREM TypeCorrect == Spec \/ ChosenSpec => []TypeOK
<1>1. TypeOK /\ [Next]_vars => TypeOK'
  BY NextType DEF AnyNext
<1>2. TypeOK /\ [NextChosen]_vars => TypeOK'
  BY NextType DEF AnyNext
<1>3. QED
  BY <1>1, <1>2, InitType, PTL DEF Spec, ChosenSpec
--------------------------------------------------------------------------------
(* Open lots *)

(* What is left, by f, of the orders in S. *)
LotsOf(f, S) == UNION {{o} \X (1 .. f[o]) : o \in S}

(* The lots of one order are as many as it says. *)
LEMMA LotsOfOne ==
    ASSUME NEW o, NEW k \in Nat
    PROVE  IsFiniteSet({o} \X (1 .. k)) /\ Cardinality({o} \X (1 .. k)) = k
<1>1. IsFiniteSet({o}) /\ Cardinality({o}) = 1
  BY FS_Singleton
<1>2. IsFiniteSet(1 .. k) /\ Cardinality(1 .. k) = k
  BY FS_Interval
<1>3. /\ IsFiniteSet({o} \X (1 .. k))
      /\ Cardinality({o} \X (1 .. k)) = Cardinality({o}) * Cardinality(1 .. k)
  BY <1>1, <1>2, FS_Product
<1>4. 1 * k = k
  OBVIOUS
<1>5. QED
  BY <1>1, <1>2, <1>3, <1>4

(* There are finitely many lots. *)
LEMMA LotsFinite ==
    ASSUME NEW f \in [Order -> Nat], NEW S \in SUBSET Order
    PROVE  IsFiniteSet(LotsOf(f, S)) /\ Cardinality(LotsOf(f, S)) \in Nat
<1> DEFINE T == {{o} \X (1 .. f[o]) : o \in S}
           g == [o \in S |-> {o} \X (1 .. f[o])]
<1>1. IsFiniteSet(S)
  BY OrderAssumption, FS_Subset
<1>2. g \in Surjection(S, T)
  BY DEF Surjection
<1>3. IsFiniteSet(T)
  BY <1>1, <1>2, FS_Surjection
<1>4. \A t \in T : IsFiniteSet(t)
  BY LotsOfOne
<1>5. IsFiniteSet(UNION T)
  BY <1>3, <1>4, FS_UNION
<1>6. QED
  BY <1>5, FS_CardinalityType DEF LotsOf

(* One order more adds its lots. *)
LEMMA LotsAdd ==
    ASSUME NEW f \in [Order -> Nat], NEW S \in SUBSET Order, NEW o \in Order \ S
    PROVE  Cardinality(LotsOf(f, S \cup {o})) = Cardinality(LotsOf(f, S)) + f[o]
<1> DEFINE L == {o} \X (1 .. f[o])
<1>1. LotsOf(f, S \cup {o}) = LotsOf(f, S) \cup L
  BY DEF LotsOf
<1>2. LotsOf(f, S) \cap L = {}
  BY DEF LotsOf
<1>3. IsFiniteSet(L) /\ Cardinality(L) = f[o]
  BY LotsOfOne
<1>4. IsFiniteSet(LotsOf(f, S)) /\ Cardinality(LotsOf(f, S)) \in Nat
  BY LotsFinite
<1>5. Cardinality({}) = 0
  BY FS_EmptySet
<1> DEFINE M == LotsOf(f, S)
<1> HIDE DEF L, M
<1>6. Cardinality(M \cup L) = Cardinality(M) + Cardinality(L) - Cardinality(M \cap L)
  BY <1>3, <1>4, FS_Union DEF M
<1>7. M \cap L = {} /\ Cardinality(M) \in Nat /\ f[o] \in Nat
  BY <1>2, <1>4 DEF M
<1>8. Cardinality(M \cup L) = Cardinality(M) + f[o]
  <2>1. Cardinality(M \cap L) = 0
    BY <1>5, <1>7
  <2> DEFINE c == Cardinality(M)
             x == Cardinality(M \cap L)
             l == Cardinality(L)
             u == Cardinality(M \cup L)
  <2>2. c \in Nat /\ f[o] \in Nat /\ l = f[o] /\ x = 0 /\ u = c + l - x
    BY <1>3, <1>6, <1>7, <2>1
  <2> HIDE DEF c, x, l, u
  <2>3. u = c + f[o]
    BY <2>2
  <2>4. QED
    BY <2>3 DEF u, c
<1>9. QED
  BY <1>1, <1>8 DEF M

(* What a step that concerns one order does to the number of open lots. *)
LEMMA LotsChange ==
    ASSUME NEW f \in [Order -> Nat], NEW g \in [Order -> Nat],
           NEW S \in SUBSET Order, NEW U \in SUBSET Order, NEW o \in Order,
           S \ {o} = U \ {o}, \A q \in Order \ {o} : g[q] = f[q]
    PROVE  \E rest \in Nat :
             /\ Cardinality(LotsOf(f, S)) = IF o \in S THEN rest + f[o] ELSE rest
             /\ Cardinality(LotsOf(g, U)) = IF o \in U THEN rest + g[o] ELSE rest
<1> DEFINE R == S \ {o}
<1>1. LotsOf(f, R) = LotsOf(g, R)
  BY DEF LotsOf
<1>2. Cardinality(LotsOf(f, R)) \in Nat
  BY LotsFinite
<1>3. o \in S => S = R \cup {o}
  OBVIOUS
<1>4. o \in U => U = R \cup {o}
  OBVIOUS
<1>5. o \notin S => S = R
  OBVIOUS
<1>6. o \notin U => U = R
  OBVIOUS
<1>7. R \in SUBSET Order /\ o \in Order \ R
  OBVIOUS
<1> HIDE DEF R
<1>8. /\ Cardinality(LotsOf(f, R \cup {o})) = Cardinality(LotsOf(f, R)) + f[o]
      /\ Cardinality(LotsOf(g, R \cup {o})) = Cardinality(LotsOf(f, R)) + g[o]
  BY <1>1, <1>7, LotsAdd
<1>9. Cardinality(LotsOf(f, S)) =
         IF o \in S THEN Cardinality(LotsOf(f, R)) + f[o] ELSE Cardinality(LotsOf(f, R))
  BY <1>3, <1>5, <1>8
<1>10. Cardinality(LotsOf(g, U)) =
         IF o \in U THEN Cardinality(LotsOf(f, R)) + g[o] ELSE Cardinality(LotsOf(f, R))
  BY <1>1, <1>4, <1>6, <1>8
<1>11. QED
  BY <1>2, <1>9, <1>10
--------------------------------------------------------------------------------
(* The books.  A client may set any flag that the market of the contract      *)
(* knows; DCE and CZCE do not tell the days apart.                         *)

FitFlags(c) ==
    IF c.trade_type = "credit" THEN Flag
    ELSE IF c.trade_type = "option" THEN {"Open", "Close"}
    ELSE IF c.market \in {"DCE", "CZCE"} THEN {"Open"} \cup CloseFlags
    ELSE Flag \ {"Auto"}

(* The clients do set flags, and such as fit. *)
FlagsFit == \A c \in Contracts, o \in Order : Request[o].oc_flag \in FitFlags(c)

(* They leave the closing flags to the class. *)
NoClientCloses == \A o \in Order : Request[o].oc_flag \in {"Auto", "Open"}

(* Withdrawn volume is not reported by knocks. *)
OnlyFills == KnockTypes \subseteq {"OK"}

(* Yesterday's and today's position are closed by different flags. *)
SplitDays == contract.trade_type # "future" \/ contract.market \notin {"DCE", "CZCE"}

(* What an order may be booked with. *)
AllowedFlag == FitFlags(contract)

(* Where an order with this flag may be booked. *)
Bookings(flag) ==
    IF flag = "Open" THEN {"opening"}
    ELSE IF SplitDays THEN {"yesterday", "today"} ELSE {"both"}

(* A position p, when the account holds h and the open orders can still close *)
(* c, of it y of yesterday's and t of today's position.                    *)
PosOK(p, h, c, y, t) ==
    /\ Held(p) = h
    /\ Frozen(p) = c
    /\ SplitDays => p.yd_closing = y /\ p.td_closing = t
    /\ p.yd_closing >= 0
    /\ p.td_closing >= 0
    /\ ~SplitDays => GetTodayAvailableVolume(p) >= 0

(* Nothing of it is promised twice. *)
Free(p) == GetYesterdayAvailableVolume(p) >= 0 /\ GetTodayAvailableVolume(p) >= 0

(* As much of q is available as of p, or more. *)
NoLess(q, p) ==
    /\ GetYesterdayAvailableVolume(q) >= GetYesterdayAvailableVolume(p)
    /\ GetTodayAvailableVolume(q) >= GetTodayAvailableVolume(p)

(* n can be closed where it would be booked. *)
CanTake(p, b, n) ==
    /\ b = "yesterday" => GetYesterdayAvailableVolume(p) >= n
    /\ b = "today" => GetTodayAvailableVolume(p) >= n
    /\ b = "both" => GetYesterdayAvailableVolume(p) + GetTodayAvailableVolume(p) >= n

(* An order that is sent is frozen. *)
LEMMA OrderedKeeps ==
    ASSUME NEW p \in InnerPosition, NEW flag, NEW n \in Nat,
           NEW b, b = Booked(flag), b \in Bookings(flag),
           NEW h \in Int, NEW c \in Nat, NEW y \in Nat, NEW t \in Nat,
           PosOK(p, h, c, y, t)
    PROVE  PosOK(Ordered(p, flag, n), h, IF flag = "Open" THEN c ELSE c + n,
                 IF b = "yesterday" THEN y + n ELSE y, IF b = "today" THEN t + n ELSE t)
<1> SUFFICES ASSUME NEW q, q = Ordered(p, flag, n),
                    NEW today, today = AtMost(n, GetTodayAvailableVolume(p))
             PROVE  PosOK(q, h, IF flag = "Open" THEN c ELSE c + n,
                   IF b = "yesterday" THEN y + n ELSE y, IF b = "today" THEN t + n ELSE t)
  OBVIOUS
<1>1. OrderedTo(p, q, n, b, today)
  BY OrderedEffect
<1>2. CASE b = "opening"
  <2>1. /\ flag = "Open"
        /\ q.yd_closing = p.yd_closing /\ q.td_closing = p.td_closing
    BY <1>1, <1>2 DEF OrderedTo, Bookings
  <2>2. /\ q.yd_init = p.yd_init /\ q.yd_close = p.yd_close
        /\ q.td_init = p.td_init /\ q.td_close = p.td_close /\ q.td_open = p.td_open
    BY <1>1 DEF OrderedTo
  <2>3. QED
    BY <1>1, <1>2, <2>1, <2>2
       DEF InnerPosition, PosOK, OrderedTo, Held, Frozen,
           GetYesterdayAvailableVolume, GetTodayAvailableVolume
<1>3. CASE b \in {"yesterday", "today"}
  <2>1. /\ flag # "Open" /\ SplitDays
        /\ q.yd_closing = IF b = "yesterday" THEN p.yd_closing + n ELSE p.yd_closing
        /\ q.td_closing = IF b = "today" THEN p.td_closing + n ELSE p.td_closing
    BY <1>1, <1>3 DEF OrderedTo, Bookings
  <2>2. /\ q.yd_init = p.yd_init /\ q.yd_close = p.yd_close
        /\ q.td_init = p.td_init /\ q.td_close = p.td_close /\ q.td_open = p.td_open
    BY <1>1 DEF OrderedTo
  <2>3. Held(q) = h /\ Frozen(q) = c + n
    <3>1. Held(q) = Held(p)
      BY <2>2 DEF Held
    <3>2. p.yd_closing \in Int /\ p.td_closing \in Int /\ p.yd_closing + p.td_closing = c
      BY DEF InnerPosition, PosOK, Frozen
    <3>3. q.yd_closing + q.td_closing = c + n
      <4>1. CASE b = "yesterday"
        BY <2>1, <3>2, <4>1
      <4>2. CASE b = "today"
        BY <2>1, <3>2, <4>2
      <4>3. QED
        BY <1>3, <4>1, <4>2
    <3>4. QED
      BY <3>1, <3>3 DEF PosOK, Frozen
  <2>4. /\ q.yd_closing = IF b = "yesterday" THEN y + n ELSE y
        /\ q.td_closing = IF b = "today" THEN t + n ELSE t
        /\ q.yd_closing >= 0 /\ q.td_closing >= 0
    BY <1>3, <2>1 DEF PosOK
  <2>5. QED
    BY <2>1, <2>3, <2>4 DEF PosOK
<1>4. CASE b = "both"
  <2>1. /\ flag # "Open" /\ ~SplitDays
        /\ q.yd_closing = p.yd_closing + (n - today)
        /\ q.td_closing = p.td_closing + today
    BY <1>1, <1>4 DEF OrderedTo, Bookings
  <2>2. /\ q.yd_init = p.yd_init /\ q.yd_close = p.yd_close
        /\ q.td_init = p.td_init /\ q.td_close = p.td_close /\ q.td_open = p.td_open
    BY <1>1 DEF OrderedTo
  <2>3. /\ today \in Nat /\ today <= n
        /\ today <= GetTodayAvailableVolume(p)
    BY <1>4, <2>1 DEF AtMost, InnerPosition, PosOK, GetTodayAvailableVolume
  <2>4. QED
    BY <1>1, <1>4, <2>1, <2>2, <2>3
       DEF InnerPosition, PosOK, OrderedTo, Held, Frozen,
           GetYesterdayAvailableVolume, GetTodayAvailableVolume
<1>5. QED
  BY <1>2, <1>3, <1>4 DEF Bookings

(* An order that there is room for leaves nothing promised twice. *)
LEMMA OrderedFree ==
    ASSUME NEW p \in InnerPosition, NEW flag, NEW n \in Nat,
           NEW b, b = Booked(flag), CanTake(p, b, n), Free(p)
    PROVE  Free(Ordered(p, flag, n))
<1> SUFFICES ASSUME NEW q, q = Ordered(p, flag, n),
                    NEW today, today = AtMost(n, GetTodayAvailableVolume(p))
             PROVE  Free(q)
  OBVIOUS
<1>1. OrderedTo(p, q, n, b, today)
  BY OrderedEffect
<1>2. b = "both" =>
        /\ today \in Nat /\ today <= GetTodayAvailableVolume(p)
        /\ n - today <= GetYesterdayAvailableVolume(p)
  BY DEF AtMost, InnerPosition, Free, CanTake,
         GetYesterdayAvailableVolume, GetTodayAvailableVolume
<1>3. /\ q.yd_init = p.yd_init /\ q.yd_close = p.yd_close
      /\ q.td_init = p.td_init /\ q.td_close = p.td_close /\ q.td_open = p.td_open
      /\ q.yd_closing = IF b = "yesterday" THEN p.yd_closing + n
                        ELSE IF b = "both" THEN p.yd_closing + (n - today)
                        ELSE p.yd_closing
      /\ q.td_closing = IF b = "today" THEN p.td_closing + n
                        ELSE IF b = "both" THEN p.td_closing + today
                        ELSE p.td_closing
  BY <1>1 DEF OrderedTo
<1>4. QED
  BY <1>2, <1>3
     DEF InnerPosition, Free, CanTake, GetYesterdayAvailableVolume, GetTodayAvailableVolume

(* More is free when more is available. *)
LEMMA NoLessFree ==
    ASSUME NEW p \in InnerPosition, NEW q \in InnerPosition, NoLess(q, p), Free(p)
    PROVE  Free(q)
  BY DEF InnerPosition, NoLess, Free, GetYesterdayAvailableVolume, GetTodayAvailableVolume

(* A match takes what was frozen for it. *)
LEMMA MatchedKeeps ==
    ASSUME NEW p \in InnerPosition, NEW flag, NEW n \in Nat,
           NEW b, b = Booked(flag), b \in Bookings(flag),
           NEW h \in Int, NEW c \in Nat, NEW y \in Nat, NEW t \in Nat,
           PosOK(p, h, c, y, t),
           flag # "Open" => n <= c,
           b = "yesterday" => n <= y,
           b = "today" => n <= t
    PROVE  /\ PosOK(Matched(p, flag, n),
                    IF flag = "Open" THEN h + n ELSE h - n, IF flag = "Open" THEN c ELSE c - n,
                    IF b = "yesterday" THEN y - n ELSE y, IF b = "today" THEN t - n ELSE t)
           /\ NoLess(Matched(p, flag, n), p)
<1> SUFFICES ASSUME NEW q, q = Matched(p, flag, n),
                    NEW today, today = OfToday(p, n)
             PROVE  /\ PosOK(q,
                          IF flag = "Open" THEN h + n ELSE h - n,
                          IF flag = "Open" THEN c ELSE c - n,
                          IF b = "yesterday" THEN y - n ELSE y, IF b = "today" THEN t - n ELSE t)
                    /\ NoLess(q, p)
  OBVIOUS
<1>1. MatchedTo(p, q, n, b, today)
  BY MatchedEffect
<1>2. CASE b = "opening"
  <2>1. /\ flag = "Open"
        /\ q.yd_init = p.yd_init /\ q.td_init = p.td_init
        /\ q.td_open = p.td_open + n
        /\ q.yd_close = p.yd_close /\ q.td_close = p.td_close
        /\ q.yd_closing = p.yd_closing /\ q.td_closing = p.td_closing
    BY <1>1, <1>2 DEF MatchedTo, Bookings
  <2>2. QED
    BY <1>1, <1>2, <2>1
       DEF InnerPosition, PosOK, NoLess, MatchedTo, Held, Frozen,
           GetYesterdayAvailableVolume, GetTodayAvailableVolume
<1>3. CASE b \in {"yesterday", "today"}
  <2>1. /\ flag # "Open" /\ SplitDays
        /\ q.yd_init = p.yd_init /\ q.td_init = p.td_init /\ q.td_open = p.td_open
        /\ q.yd_close = IF b = "yesterday" THEN p.yd_close + n ELSE p.yd_close
        /\ q.td_close = IF b = "today" THEN p.td_close + n ELSE p.td_close
        /\ q.yd_closing = IF b = "yesterday" THEN Reduced(p.yd_closing, n) ELSE p.yd_closing
        /\ q.td_closing = IF b = "today" THEN Reduced(p.td_closing, n) ELSE p.td_closing
    BY <1>1, <1>3 DEF MatchedTo, Bookings
  <2>2. /\ b = "yesterday" => Reduced(p.yd_closing, n) = p.yd_closing - n
        /\ b = "today" => Reduced(p.td_closing, n) = p.td_closing - n
    BY <2>1 DEF PosOK, Reduced
  <2>3. q \in InnerPosition
    BY <1>1 DEF MatchedTo
  <2>4. Held(q) = h - n /\ Frozen(q) = c - n
    BY <1>3, <2>1, <2>2 DEF InnerPosition, PosOK, Held, Frozen
  <2>5. /\ GetYesterdayAvailableVolume(q) = GetYesterdayAvailableVolume(p)
        /\ GetTodayAvailableVolume(q) = GetTodayAvailableVolume(p)
    BY <2>1, <2>2 DEF InnerPosition, GetYesterdayAvailableVolume, GetTodayAvailableVolume
  <2>6. /\ q.yd_closing = IF b = "yesterday" THEN y - n ELSE y
        /\ q.td_closing = IF b = "today" THEN t - n ELSE t
        /\ q.yd_closing >= 0 /\ q.td_closing >= 0
    BY <1>3, <2>1, <2>2 DEF PosOK
  <2>7. NoLess(q, p)
    BY <2>5 DEF NoLess, InnerPosition, GetYesterdayAvailableVolume, GetTodayAvailableVolume
  <2>8. QED
    BY <1>3, <2>1, <2>3, <2>4, <2>5, <2>6, <2>7 DEF PosOK
<1>4. CASE b = "both"
  <2>1. /\ flag # "Open" /\ ~SplitDays
        /\ q.yd_init = p.yd_init /\ q.td_init = p.td_init /\ q.td_open = p.td_open
        /\ q.yd_close = p.yd_close + (n - today) /\ q.td_close = p.td_close + today
        /\ q.yd_closing = p.yd_closing - (n - today) /\ q.td_closing = p.td_closing - today
    BY <1>1, <1>4 DEF MatchedTo, Bookings
  <2>2. /\ today \in Nat /\ today <= n
        /\ today <= p.td_closing
        /\ n - today <= p.yd_closing
    BY <2>1 DEF AtMost, OfToday, InnerPosition, PosOK, Frozen
  <2>3. Held(q) = h - n /\ Frozen(q) = c - n
    <3>1. /\ p.yd_init - p.yd_close \in Int /\ (p.td_init + p.td_open) - p.td_close \in Int
          /\ p.yd_closing \in Int /\ p.td_closing \in Int /\ n - today \in Int
      BY <2>2 DEF InnerPosition
    <3>2. q.yd_init - q.yd_close = (p.yd_init - p.yd_close) - (n - today)
      BY <2>1, <2>2 DEF InnerPosition
    <3>3. (q.td_init + q.td_open) - q.td_close = ((p.td_init + p.td_open) - p.td_close) - today
      BY <2>1, <2>2 DEF InnerPosition
    <3>4. Held(q) = Held(p) - n
      BY <2>2, <3>1, <3>2, <3>3 DEF Held
    <3>5. Frozen(q) = Frozen(p) - n
      BY <2>1, <2>2, <3>1 DEF Frozen
    <3>6. QED
      BY <3>4, <3>5 DEF PosOK
  <2>4. /\ GetYesterdayAvailableVolume(q) = GetYesterdayAvailableVolume(p)
        /\ GetTodayAvailableVolume(q) = GetTodayAvailableVolume(p)
        /\ GetYesterdayAvailableVolume(p) \in Int /\ GetTodayAvailableVolume(p) \in Int
    <3>1. /\ p.yd_init \in Int /\ p.yd_closing \in Int /\ p.yd_close \in Int
          /\ p.td_init \in Int /\ p.td_open \in Int /\ p.td_closing \in Int /\ p.td_close \in Int
      BY DEF InnerPosition
    <3>2. n - today \in Int /\ today \in Int
      BY <2>2
    <3>3. q.yd_closing + q.yd_close = p.yd_closing + p.yd_close
      <4>1. \A a, b1, k \in Int : (a - k) + (b1 + k) = a + b1
        OBVIOUS
      <4>2. QED
        BY <2>1, <3>1, <3>2, <4>1
    <3>4. q.td_closing + q.td_close = p.td_closing + p.td_close
      BY <2>1, <3>1, <3>2
    <3>5. QED
      BY <2>1, <3>1, <3>3, <3>4 DEF GetYesterdayAvailableVolume, GetTodayAvailableVolume
  <2>5. q.yd_closing >= 0 /\ q.td_closing >= 0
    BY <2>1, <2>2 DEF InnerPosition
  <2>6. QED
    BY <2>1, <2>3, <2>4, <2>5 DEF PosOK, NoLess
<1>5. QED
  BY <1>2, <1>3, <1>4 DEF Bookings

(* A withdraw frees what was frozen for it. *)
LEMMA WithdrawnKeeps ==
    ASSUME NEW p \in InnerPosition, NEW flag, NEW n \in Nat,
           Booked(flag) \in Bookings(flag),
           NEW h \in Int, NEW c \in Nat, NEW y \in Nat, NEW t \in Nat,
           PosOK(p, h, c, y, t),
           flag # "Open" => n <= c,
           Booked(flag) = "yesterday" => n <= y,
           Booked(flag) = "today" => n <= t
    PROVE  /\ PosOK(Withdrawn(p, flag, n), h, IF flag = "Open" THEN c ELSE c - n,
                    IF Booked(flag) = "yesterday" THEN y - n ELSE y,
                    IF Booked(flag) = "today" THEN t - n ELSE t)
           /\ NoLess(Withdrawn(p, flag, n), p)
<1> SUFFICES ASSUME NEW b, b = Booked(flag),
                    NEW q, q = Withdrawn(p, flag, n),
                    NEW today, today = OfToday(p, n)
             PROVE  /\ PosOK(q, h, IF flag = "Open" THEN c ELSE c - n,
                          IF b = "yesterday" THEN y - n ELSE y, IF b = "today" THEN t - n ELSE t)
                    /\ NoLess(q, p)
  OBVIOUS
<1>1. WithdrawnTo(p, q, n, b, today)
  BY WithdrawnEffect
<1>2. /\ q.yd_init = p.yd_init /\ q.yd_close = p.yd_close
      /\ q.td_init = p.td_init /\ q.td_close = p.td_close /\ q.td_open = p.td_open
  BY <1>1 DEF WithdrawnTo
<1>3. CASE b = "opening"
  <2>1. /\ flag = "Open"
        /\ q.yd_closing = p.yd_closing /\ q.td_closing = p.td_closing
    BY <1>1, <1>3 DEF WithdrawnTo, Bookings
  <2>2. QED
    BY <1>1, <1>2, <1>3, <2>1
       DEF InnerPosition, PosOK, NoLess, WithdrawnTo, Held, Frozen,
           GetYesterdayAvailableVolume, GetTodayAvailableVolume
<1>4. CASE b \in {"yesterday", "today"}
  <2>1. /\ flag # "Open" /\ SplitDays
        /\ q.yd_closing = IF b = "yesterday" THEN Reduced(p.yd_closing, n) ELSE p.yd_closing
        /\ q.td_closing = IF b = "today" THEN Reduced(p.td_closing, n) ELSE p.td_closing
    BY <1>1, <1>4 DEF WithdrawnTo, Bookings
  <2>2. /\ b = "yesterday" => Reduced(p.yd_closing, n) = p.yd_closing - n
        /\ b = "today" => Reduced(p.td_closing, n) = p.td_closing - n
    BY <2>1 DEF PosOK, Reduced
  <2>3. QED
    BY <1>1, <1>2, <1>4, <2>1, <2>2
       DEF InnerPosition, PosOK, NoLess, WithdrawnTo, Held, Frozen,
           GetYesterdayAvailableVolume, GetTodayAvailableVolume
<1>5. CASE b = "both"
  <2>1. /\ flag # "Open" /\ ~SplitDays
        /\ q.yd_closing = p.yd_closing - (n - today) /\ q.td_closing = p.td_closing - today
    BY <1>1, <1>5 DEF WithdrawnTo, Bookings
  <2>2. /\ today \in Nat /\ today <= n
        /\ today <= p.td_closing
        /\ n - today <= p.yd_closing
    BY <2>1 DEF AtMost, OfToday, InnerPosition, PosOK, Frozen
  <2>3. QED
    BY <1>1, <1>2, <1>5, <2>1, <2>2
       DEF InnerPosition, PosOK, NoLess, WithdrawnTo, Held, Frozen,
           GetYesterdayAvailableVolume, GetTodayAvailableVolume
<1>6. QED
  BY <1>3, <1>4, <1>5 DEF Bookings

(* An order that closes does so on the position that it names, with a flag    *)
(* that has room for it.                                                   *)
LEMMA ChosenFlag ==
    ASSUME NoClientCloses, TypeOK, NEW o \in Order, NEW flag \in FlagFor(o)
    PROVE  /\ flag \in AllowedFlag
           /\ \A s \in GetPosition(Request[o].bs_flag, flag) :
                /\ s \in Side
                /\ Booked(flag) \in Bookings(flag)
                /\ flag # "Open" /\ GetTodayAvailableVolume(positions_[s]) >= 0 =>
                     CanTake(positions_[s], Booked(flag), Request[o].volume)
<1> DEFINE r == Request[o]
           p == Counterpart(r.bs_flag)
           yesterday == GetYesterdayAvailableVolume(p)
           today == GetTodayAvailableVolume(p)
<1>1. contract \in ContractType /\ p \in InnerPosition /\ r.volume \in Nat
      /\ r.bs_flag \in {"buy", "sell"} /\ r.oc_flag \in {"Auto", "Open"}
  BY ContractAssumption, RequestAssumption DEF TypeOK, Side, Counterpart, NoClientCloses
<1>2. yesterday \in Int /\ today \in Int
  BY <1>1 DEF InnerPosition, GetYesterdayAvailableVolume, GetTodayAvailableVolume
<1>3. CASE contract.trade_type = "credit"
  <2>1. /\ flag \in {"Auto", "Open"}
        /\ flag = "Auto" => /\ r.bs_flag = "sell"
                            /\ GetYesterdayAvailableVolume(positions_["long"]) >= r.volume
    BY <1>3 DEF FlagFor, GetAutoOcFlag
  <2>2. Booked(flag) = "yesterday"
    BY <1>3 DEF Booked
  <2>3. SplitDays
    BY <1>3 DEF SplitDays
  <2>4. flag \in AllowedFlag
    BY <1>3, <2>1 DEF AllowedFlag, FitFlags, Flag
  <2>5. GetPosition(r.bs_flag, flag) = IF flag = "Auto" THEN {"long"} ELSE {}
    BY <1>3, <2>1 DEF GetPosition
  <2>6. QED
    BY <2>1, <2>2, <2>3, <2>4, <2>5 DEF Side, Bookings, CanTake
<1>4. CASE contract.trade_type # "credit"
  <2>1. \A s \in GetPosition(r.bs_flag, flag) :
          /\ s \in Side
          /\ flag # "Open" => positions_[s] = p
    BY <1>1, <1>4 DEF GetPosition, Side, Counterpart
  <2>2. flag = "Open" => Booked(flag) = "opening" /\ flag \in AllowedFlag
    BY <1>1, <1>4 DEF Booked, AllowedFlag, FitFlags, Flag, ContractType
  <2>3. CASE contract.trade_type = "option"
    <3>1. flag \in {"Open", "Close"} /\ (flag = "Close" => today > r.volume)
      BY <2>3 DEF FlagFor, GetAutoOcFlag
    <3>2. flag \in AllowedFlag /\ SplitDays
      BY <2>3, <3>1 DEF AllowedFlag, FitFlags, SplitDays
    <3>3. flag = "Close" => Booked(flag) = "today"
      BY <2>3 DEF Booked
    <3> HIDE DEF yesterday, today
    <3>4. flag = "Close" => today >= r.volume
      BY <1>1, <1>2, <3>1
    <3>5. QED
      BY <2>1, <2>2, <3>1, <3>2, <3>3, <3>4 DEF Bookings, CanTake, today
  <2>4. CASE contract.trade_type = "future"
    <3>1. contract.market \in {"CFFEX", "SHFE", "INE", "DCE", "CZCE"}
      BY <1>1, <2>4 DEF ContractType
    <3>2. \/ flag = "Open"
          \/ flag = AutoFutureFlag(r.bs_flag, r.volume)
          \/ flag = GetCloseYesterdayFlag(r.bs_flag, r.volume)
      BY <1>1, <2>4 DEF FlagFor, GetAutoOcFlag
    <3>3. CASE contract.market = "CFFEX"
      <4>1. flag \in {"Open", "Close"} /\ (flag = "Close" => yesterday >= r.volume)
        BY <1>1, <1>2, <3>2, <3>3 DEF AutoFutureFlag, GetCloseYesterdayFlag
      <4>2. flag \in AllowedFlag /\ SplitDays
        BY <2>4, <3>3, <4>1 DEF AllowedFlag, FitFlags, Flag, CloseFlags, SplitDays
      <4>3. flag = "Close" => Booked(flag) = "yesterday"
        BY <2>4, <3>3 DEF Booked, CloseFlags
      <4>4. QED
        BY <2>1, <2>2, <4>1, <4>2, <4>3 DEF Bookings, CanTake
    <3>4. CASE contract.market \in {"SHFE", "INE"}
      <4>1. /\ flag \in {"Open", "CloseYesterday", "CloseToday"}
            /\ flag = "CloseYesterday" => yesterday >= r.volume
            /\ flag = "CloseToday" => today >= r.volume
        BY <1>1, <1>2, <3>2, <3>4 DEF AutoFutureFlag, GetCloseYesterdayFlag
      <4>2. flag \in AllowedFlag /\ SplitDays
        BY <2>4, <3>4, <4>1 DEF AllowedFlag, FitFlags, Flag, CloseFlags, SplitDays
      <4>3. /\ flag = "CloseYesterday" => Booked(flag) = "yesterday"
            /\ flag = "CloseToday" => Booked(flag) = "today"
        BY <2>4, <3>4 DEF Booked, CloseFlags
      <4>4. QED
        BY <2>1, <2>2, <4>1, <4>2, <4>3 DEF Bookings, CanTake
    <3>5. CASE contract.market \in {"DCE", "CZCE"}
      <4>1. /\ flag \in {"Open", "Close"}
            /\ flag = "Close" => yesterday >= r.volume \/ yesterday + today >= r.volume
        BY <1>1, <1>2, <3>2, <3>5 DEF AutoFutureFlag, GetCloseYesterdayFlag
      <4>2. flag \in AllowedFlag /\ ~SplitDays
        BY <2>4, <3>5, <4>1 DEF AllowedFlag, FitFlags, CloseFlags, SplitDays
      <4>3. flag = "Close" => Booked(flag) = "both"
        BY <2>4, <3>5 DEF Booked, CloseFlags
      <4> HIDE DEF yesterday, today
      <4>4. flag = "Close" /\ today >= 0 => yesterday + today >= r.volume
        BY <1>1, <1>2, <4>1
      <4>5. QED
        BY <2>1, <2>2, <4>1, <4>2, <4>3, <4>4 DEF Bookings, CanTake, yesterday, today
    <3>6. QED
      BY <3>1, <3>3, <3>4, <3>5
  <2>5. QED
    BY <1>1, <1>4, <2>3, <2>4 DEF ContractType
<1>5. QED
  BY <1>3, <1>4

(* The orders that are booked on a side. *)
ClosingOrders(s) == {o \in Order : s \in PositionOf(o) /\ oc_flag[o] # "Open"}

FrozenAs(s, b) == {o \in ClosingOrders(s) : Booked(oc_flag[o]) = b}

(* An order has lots left only with a flag that fits. *)
OrderOK(o) ==
    IF oc_flag[o] \in {"none", "refused"} THEN left[o] = 0
    ELSE oc_flag[o] \in AllowedFlag /\ left[o] <= Request[o].volume

SideOK(s) ==
    PosOK(positions_[s], held[s],
          Cardinality(LotsOf(left, ClosingOrders(s))),
          Cardinality(LotsOf(left, FrozenAs(s, "yesterday"))),
          Cardinality(LotsOf(left, FrozenAs(s, "today"))))

(* The inductive invariant: BooksAgree does not say of which day the open      *)
(* orders close, so from it alone a fill could find too little frozen.     *)
IInv ==
    /\ TypeOK
    /\ \A o \in Order : OrderOK(o)
    /\ \A s \in Side : SideOK(s)

(* What is left of the other orders does not change when one order moves. *)
LEMMA Counts ==
    ASSUME TypeOK, TypeOK', contract' = contract, NEW o \in Order, NEW s \in Side,
           \A q \in Order \ {o} : oc_flag'[q] = oc_flag[q] /\ left'[q] = left[q]
    PROVE  \E c, y, t \in Nat :
             /\ SideOK(s) <=>
                  PosOK(positions_[s], held[s],
                        IF o \in ClosingOrders(s) THEN c + left[o] ELSE c,
                        IF o \in FrozenAs(s, "yesterday") THEN y + left[o] ELSE y,
                        IF o \in FrozenAs(s, "today") THEN t + left[o] ELSE t)
             /\ SideOK(s)' <=>
                  PosOK(positions_'[s], held'[s],
                        IF o \in ClosingOrders(s)' THEN c + left'[o] ELSE c,
                        IF o \in FrozenAs(s, "yesterday")' THEN y + left'[o] ELSE y,
                        IF o \in FrozenAs(s, "today")' THEN t + left'[o] ELSE t)
<1>1. left \in [Order -> Nat] /\ left' \in [Order -> Nat]
  BY DEF TypeOK
<1>2. \A q \in Order \ {o} : PositionOf(q)' = PositionOf(q) /\ Booked(oc_flag[q])' = Booked(oc_flag[q])
  BY DEF PositionOf, GetPosition, Booked
<1>3. /\ ClosingOrders(s) \ {o} = ClosingOrders(s)' \ {o}
      /\ ClosingOrders(s) \in SUBSET Order /\ ClosingOrders(s)' \in SUBSET Order
  BY <1>2 DEF ClosingOrders
<1>4. ASSUME NEW b
      PROVE  /\ FrozenAs(s, b) \ {o} = FrozenAs(s, b)' \ {o}
             /\ FrozenAs(s, b) \in SUBSET Order /\ FrozenAs(s, b)' \in SUBSET Order
  BY <1>2, <1>3 DEF FrozenAs
<1>5. PICK c \in Nat :
        /\ Cardinality(LotsOf(left, ClosingOrders(s))) =
             IF o \in ClosingOrders(s) THEN c + left[o] ELSE c
        /\ Cardinality(LotsOf(left', ClosingOrders(s)')) =
             IF o \in ClosingOrders(s)' THEN c + left'[o] ELSE c
  BY <1>1, <1>3, LotsChange
<1>6. PICK y \in Nat :
        /\ Cardinality(LotsOf(left, FrozenAs(s, "yesterday"))) =
             IF o \in FrozenAs(s, "yesterday") THEN y + left[o] ELSE y
        /\ Cardinality(LotsOf(left', FrozenAs(s, "yesterday")')) =
             IF o \in FrozenAs(s, "yesterday")' THEN y + left'[o] ELSE y
  BY <1>1, <1>4, LotsChange
<1>7. PICK t \in Nat :
        /\ Cardinality(LotsOf(left, FrozenAs(s, "today"))) =
             IF o \in FrozenAs(s, "today") THEN t + left[o] ELSE t
        /\ Cardinality(LotsOf(left', FrozenAs(s, "today")')) =
             IF o \in FrozenAs(s, "today")' THEN t + left'[o] ELSE t
  BY <1>1, <1>4, LotsChange
<1>8. /\ Cardinality(LotsOf(left, ClosingOrders(s)))' = Cardinality(LotsOf(left', ClosingOrders(s)'))
      /\ \A b : Cardinality(LotsOf(left, FrozenAs(s, b)))' = Cardinality(LotsOf(left', FrozenAs(s, b)'))
  BY DEF LotsOf
<1>9. SideOK(s)' <=>
         PosOK(positions_'[s], held'[s],
               Cardinality(LotsOf(left', ClosingOrders(s)')),
               Cardinality(LotsOf(left', FrozenAs(s, "yesterday")')),
               Cardinality(LotsOf(left', FrozenAs(s, "today")')))
  BY <1>8 DEF SideOK, PosOK, SplitDays, Held, Frozen, GetYesterdayAvailableVolume, GetTodayAvailableVolume
<1>10. QED
  BY <1>5, <1>6, <1>7, <1>9 DEF SideOK

(* The books are right at the start. *)
LEMMA InitBooks == Init => IInv
<1> SUFFICES ASSUME Init PROVE IInv
  OBVIOUS
<1>1. TypeOK
  BY InitType
<1>2. \A o \in Order : OrderOK(o)
  BY DEF Init, OrderOK
<1>3. ASSUME NEW s \in Side
      PROVE  SideOK(s)
  <2>1. \A S \in SUBSET Order : LotsOf(left, S) = {}
    BY DEF Init, LotsOf
  <2>2. \A S \in SUBSET Order : Cardinality(LotsOf(left, S)) = 0
    BY <2>1, FS_EmptySet
  <2>3. /\ Cardinality(LotsOf(left, ClosingOrders(s))) = 0
        /\ Cardinality(LotsOf(left, FrozenAs(s, "yesterday"))) = 0
        /\ Cardinality(LotsOf(left, FrozenAs(s, "today"))) = 0
    BY <2>2 DEF ClosingOrders, FrozenAs
  <2>4. \E yd, td \in Nat : positions_[s] = NewPosition(yd, td)
    <3>1. PICK r \in Reported : positions_ = InitPositions(contract.trade_type, r)
      BY DEF Init
    <3>2. r \in ReportType /\ contract.trade_type \in {"future", "option", "credit"}
      BY ReportAssumption, ContractAssumption DEF Init, ContractType
    <3>3. /\ r.long_volume - r.long_pre_volume \in Nat
          /\ r.short_volume - r.short_pre_volume \in Nat
          /\ r.long_pre_volume \in Nat /\ r.short_pre_volume \in Nat
          /\ r.long_can_close \in Nat /\ r.short_can_close \in Nat
      BY <3>2 DEF ReportType
    <3>4. QED
      BY <3>1, <3>2, <3>3 DEF InitPositions
  <2>5. PICK yd \in Nat, td \in Nat : positions_[s] = NewPosition(yd, td)
    BY <2>4
  <2>6. held[s] = yd + td
    BY <2>5 DEF Init, NewPosition
  <2>7. QED
    BY <2>3, <2>5, <2>6
       DEF SideOK, PosOK, NewPosition, Held, Frozen,
           GetYesterdayAvailableVolume, GetTodayAvailableVolume
<1>4. QED
  BY <1>1, <1>2, <1>3 DEF IInv

(* An order is booked according to its flag. *)
LEMMA FlagBooked ==
    ASSUME TypeOK, NEW flag \in AllowedFlag, NEW bs_flag, NEW s \in GetPosition(bs_flag, flag)
    PROVE  Booked(flag) \in Bookings(flag)
<1>1. contract \in ContractType
  BY ContractAssumption DEF TypeOK
<1>2. CASE contract.trade_type = "credit"
  <2>1. flag = "Auto" /\ Booked(flag) = "yesterday" /\ SplitDays
    BY <1>2 DEF GetPosition, Booked, SplitDays
  <2>2. QED
    BY <2>1 DEF Bookings
<1>3. CASE contract.trade_type = "option"
  BY <1>3 DEF AllowedFlag, FitFlags, Booked, Bookings, SplitDays
<1>4. CASE contract.trade_type = "future"
  <2>1. contract.market \in {"CFFEX", "SHFE", "INE", "DCE", "CZCE"}
    BY <1>1, <1>4 DEF ContractType
  <2>2. CASE flag = "Open"
    BY <1>4, <2>2 DEF Booked, Bookings
  <2>3. CASE flag # "Open" /\ contract.market \in {"DCE", "CZCE"}
    <3>1. flag \in CloseFlags
      BY <1>4, <2>3 DEF AllowedFlag, FitFlags
    <3>2. Booked(flag) = "both"
      BY <1>4, <2>3, <3>1 DEF Booked
    <3>3. QED
      BY <1>4, <2>3, <3>2 DEF Bookings, SplitDays
  <2>4. CASE flag # "Open" /\ contract.market \in {"CFFEX", "SHFE", "INE"}
    <3>1. flag \in CloseFlags \cup {"CloseToday", "CloseYesterday"}
      BY <1>4, <2>4 DEF AllowedFlag, FitFlags, Flag
    <3>2. Booked(flag) \in {"yesterday", "today"}
      BY <1>4, <2>4, <3>1 DEF Booked
    <3>3. QED
      BY <1>4, <2>4, <3>2 DEF Bookings, SplitDays
  <2>5. QED
    BY <2>1, <2>2, <2>3, <2>4
<1>5. QED
  BY <1>1, <1>2, <1>3, <1>4 DEF ContractType

(* An order that is sent with a flag that fits is frozen, or opens. *)
LEMMA SendBooks ==
    ASSUME IInv, TypeOK', NEW o \in Order, NEW flag \in AllowedFlag, Send(o, flag, flag)
    PROVE  IInv'
<1> DEFINE n == Request[o].volume
<1>1. HandleTradeOrderReq(o, flag) /\ oc_flag' = [oc_flag EXCEPT ![o] = flag]
  BY DEF Send
<1>2. /\ contract' = contract /\ held' = held
      /\ left[o] = 0 /\ left'[o] = n /\ oc_flag'[o] = flag
      /\ \A q \in Order \ {o} : oc_flag'[q] = oc_flag[q] /\ left'[q] = left[q]
  BY <1>1 DEF Send, IInv, TypeOK, OrderOK
<1>3. TypeOK /\ n \in Nat
  BY RequestAssumption DEF IInv
<1>4. AllowedFlag' = AllowedFlag
  BY <1>2 DEF AllowedFlag
<1>5. \A q \in Order : OrderOK(q)'
  <2>1. OrderOK(o)'
    <3>1. flag \notin {"none", "refused"}
      BY <1>3 DEF AllowedFlag, FitFlags, Flag, CloseFlags
    <3>2. QED
      BY <1>2, <1>3, <1>4, <3>1 DEF OrderOK
  <2>2. \A q \in Order \ {o} : OrderOK(q)'
    BY <1>2, <1>4 DEF IInv, OrderOK
  <2>3. QED
    BY <2>1, <2>2
<1>6. ASSUME NEW s \in Side
      PROVE  SideOK(s)'
  <2>1. PICK c \in Nat, y \in Nat, t \in Nat :
          /\ SideOK(s) <=>
               PosOK(positions_[s], held[s],
                     IF o \in ClosingOrders(s) THEN c + left[o] ELSE c,
                     IF o \in FrozenAs(s, "yesterday") THEN y + left[o] ELSE y,
                     IF o \in FrozenAs(s, "today") THEN t + left[o] ELSE t)
          /\ SideOK(s)' <=>
               PosOK(positions_'[s], held'[s],
                     IF o \in ClosingOrders(s)' THEN c + left'[o] ELSE c,
                     IF o \in FrozenAs(s, "yesterday")' THEN y + left'[o] ELSE y,
                     IF o \in FrozenAs(s, "today")' THEN t + left'[o] ELSE t)
    BY <1>2, <1>3, Counts
  <2>2. PosOK(positions_[s], held[s], c, y, t)
    BY <1>2, <2>1 DEF IInv
  <2>3. PositionOf(o)' = GetPosition(Request[o].bs_flag, flag) /\ Booked(oc_flag[o])' = Booked(flag)
    BY <1>2 DEF PositionOf, GetPosition, Booked
  <2>4. CASE s \notin GetPosition(Request[o].bs_flag, flag)
    <3>1. positions_'[s] = positions_[s]
      BY <1>1, <2>4 DEF HandleTradeOrderReq
    <3>2. o \notin ClosingOrders(s)'
      BY <2>3, <2>4 DEF ClosingOrders
    <3>3. o \notin FrozenAs(s, "yesterday")' /\ o \notin FrozenAs(s, "today")'
      BY <3>2 DEF FrozenAs
    <3>4. QED
      BY <1>2, <2>1, <2>2, <3>1, <3>2, <3>3
  <2>5. CASE s \in GetPosition(Request[o].bs_flag, flag)
    <3>1. positions_'[s] = Ordered(positions_[s], flag, n)
      BY <1>1, <2>5 DEF HandleTradeOrderReq
    <3>2. Booked(flag) \in Bookings(flag)
      BY <1>3, <2>5, FlagBooked
    <3>3. o \in ClosingOrders(s)' <=> flag # "Open"
      BY <1>2, <2>3, <2>5 DEF ClosingOrders
    <3>4. \A b \in {"yesterday", "today"} : o \in FrozenAs(s, b)' <=> Booked(flag) = b
      BY <2>3, <3>2, <3>3 DEF FrozenAs, Bookings
    <3>5. positions_[s] \in InnerPosition /\ held[s] \in Int
      BY <1>3 DEF TypeOK
    <3>6. PosOK(Ordered(positions_[s], flag, n), held[s], IF flag = "Open" THEN c ELSE c + n,
                IF Booked(flag) = "yesterday" THEN y + n ELSE y,
                IF Booked(flag) = "today" THEN t + n ELSE t)
      BY <1>3, <2>2, <3>2, <3>5, OrderedKeeps
    <3>7. QED
      BY <1>2, <2>1, <3>1, <3>3, <3>4, <3>6
  <2>6. QED
    BY <2>4, <2>5
<1>7. QED
  BY <1>5, <1>6 DEF IInv

(* A rejected order frees what it had frozen. *)
LEMMA HandleTradeOrderRepBooks ==
    ASSUME IInv, TypeOK', NEW o \in Order, HandleTradeOrderRep(o),
           NEW n, n = Request[o].volume
    PROVE  IInv' /\ \A s \in Side : NoLess(positions_'[s], positions_[s])
<1> DEFINE flag == oc_flag[o]
<1>1. /\ contract' = contract /\ oc_flag' = oc_flag
      /\ n \in Nat /\ n <= left[o] /\ left[o] \in Nat /\ left[o] > 0 /\ left'[o] = left[o] - n
      /\ \A q \in Order \ {o} : oc_flag'[q] = oc_flag[q] /\ left'[q] = left[q]
  BY RequestAssumption DEF HandleTradeOrderRep, IInv, TypeOK
<1>2. TypeOK /\ OrderOK(o)
  BY DEF IInv
<1>3. /\ flag \in AllowedFlag /\ left[o] <= Request[o].volume
  BY <1>1, <1>2  DEF OrderOK
<1>4. \A q \in Order : OrderOK(q)'
  <2>1. OrderOK(o)'
    BY <1>1, <1>2, RequestAssumption DEF OrderOK, AllowedFlag, TypeOK
  <2>2. \A q \in Order \ {o} : OrderOK(q)'
    BY <1>1 DEF IInv, OrderOK, AllowedFlag
  <2>3. QED
    BY <2>1, <2>2
<1>5. ASSUME NEW s \in Side
      PROVE  SideOK(s)' /\ NoLess(positions_'[s], positions_[s])
  <2>1. PICK c \in Nat, y \in Nat, t \in Nat :
          /\ SideOK(s) <=>
               PosOK(positions_[s], held[s],
                     IF o \in ClosingOrders(s) THEN c + left[o] ELSE c,
                     IF o \in FrozenAs(s, "yesterday") THEN y + left[o] ELSE y,
                     IF o \in FrozenAs(s, "today") THEN t + left[o] ELSE t)
          /\ SideOK(s)' <=>
               PosOK(positions_'[s], held'[s],
                     IF o \in ClosingOrders(s)' THEN c + left'[o] ELSE c,
                     IF o \in FrozenAs(s, "yesterday")' THEN y + left'[o] ELSE y,
                     IF o \in FrozenAs(s, "today")' THEN t + left'[o] ELSE t)
    BY <1>1, <1>2, Counts
  <2>2. /\ ClosingOrders(s)' = ClosingOrders(s)
        /\ FrozenAs(s, "yesterday")' = FrozenAs(s, "yesterday")
        /\ FrozenAs(s, "today")' = FrozenAs(s, "today")
    BY <1>1 DEF ClosingOrders, FrozenAs, PositionOf, GetPosition, Booked
  <2>3. SideOK(s)
    BY DEF IInv
  <2>4. CASE s \notin PositionOf(o)
    <3>1. positions_'[s] = positions_[s] /\ held'[s] = held[s]
      BY <2>4 DEF HandleTradeOrderRep
    <3>2. o \notin ClosingOrders(s)
      BY <2>4 DEF ClosingOrders
    <3>3. o \notin FrozenAs(s, "yesterday") /\ o \notin FrozenAs(s, "today")
      BY <3>2 DEF FrozenAs
    <3>4. NoLess(positions_'[s], positions_[s])
      BY <1>2, <3>1 DEF TypeOK, InnerPosition, NoLess,
                        GetYesterdayAvailableVolume, GetTodayAvailableVolume
    <3>5. QED
      BY <2>1, <2>2, <2>3, <3>1, <3>2, <3>3, <3>4
  <2>5. CASE s \in PositionOf(o)
    <3> DEFINE b == Booked(flag)
               c1 == IF flag # "Open" THEN c + left[o] ELSE c
               y1 == IF b = "yesterday" THEN y + left[o] ELSE y
               t1 == IF b = "today" THEN t + left[o] ELSE t
    <3>1. positions_'[s] = Withdrawn(positions_[s], flag, n)
      BY <2>5, <1>1 DEF HandleTradeOrderRep
    <3>2. held'[s] = held[s]
      BY <2>5 DEF HandleTradeOrderRep
    <3>3. b \in Bookings(flag)
      BY <1>2, <1>3, <2>5, FlagBooked DEF PositionOf
    <3>4. o \in ClosingOrders(s) <=> flag # "Open"
      BY <2>5 DEF ClosingOrders
    <3>5. \A x \in {"yesterday", "today"} : o \in FrozenAs(s, x) <=> b = x
      BY <3>3, <3>4 DEF FrozenAs, Bookings
    <3>6. positions_[s] \in InnerPosition /\ held[s] \in Int
      BY <1>2 DEF TypeOK
    <3>7. PosOK(positions_[s], held[s], c1, y1, t1)
      BY <2>1, <2>3, <3>4, <3>5
    <3>8. c1 \in Nat /\ y1 \in Nat /\ t1 \in Nat
      BY <1>1
    <3>9. /\ flag # "Open" => n <= c1
          /\ b = "yesterday" => n <= y1
          /\ b = "today" => n <= t1
      BY <1>1
    <3>10. /\ (IF flag = "Open" THEN c1 ELSE c1 - n) = IF flag # "Open" THEN c + left'[o] ELSE c
           /\ (IF b = "yesterday" THEN y1 - n ELSE y1) = IF b = "yesterday" THEN y + left'[o] ELSE y
           /\ (IF b = "today" THEN t1 - n ELSE t1) = IF b = "today" THEN t + left'[o] ELSE t
      BY <1>1
    <3> DEFINE p == positions_[s]
               h == held[s]
    <3> HIDE DEF c1, y1, t1, flag, p, h
    <3>11. /\ PosOK(Withdrawn(p, flag, n), h,
                    IF flag = "Open" THEN c1 ELSE c1 - n,
                    IF b = "yesterday" THEN y1 - n ELSE y1,
                    IF b = "today" THEN t1 - n ELSE t1)
           /\ NoLess(Withdrawn(p, flag, n), p)
      <4>1. p \in InnerPosition /\ h \in Int /\ PosOK(p, h, c1, y1, t1)
        BY <3>6, <3>7 DEF p, h
      <4>2. QED
        BY <1>1, <3>3, <3>8, <3>9, <4>1, WithdrawnKeeps
    <3>12. QED
      BY <2>1, <2>2, <3>1, <3>2, <3>4, <3>5, <3>10, <3>11 DEF flag, p, h
  <2>6. QED
    BY <2>4, <2>5
<1>6. QED
  BY <1>4, <1>5 DEF IInv

(* A fill takes what its order had frozen. *)
LEMMA KnockBooks ==
    ASSUME OnlyFills, IInv, TypeOK', NEW o \in Order, NEW match_type \in KnockTypes,
           NEW n \in 1 .. left[o], Knock(o, match_type, n)
    PROVE  IInv' /\ \A s \in Side : NoLess(positions_'[s], positions_[s])
<1> DEFINE flag == oc_flag[o]
<1>0. match_type = "OK"
  BY DEF OnlyFills
<1>1. /\ contract' = contract /\ oc_flag' = oc_flag
      /\ n \in Nat /\ n <= left[o] /\ left[o] \in Nat /\ left'[o] = left[o] - n
      /\ \A q \in Order \ {o} : oc_flag'[q] = oc_flag[q] /\ left'[q] = left[q]
  BY DEF Knock, IInv, TypeOK
<1>2. TypeOK /\ OrderOK(o)
  BY DEF IInv
<1>3. /\ flag \in AllowedFlag /\ left[o] <= Request[o].volume
  BY <1>1, <1>2  DEF OrderOK
<1>4. \A q \in Order : OrderOK(q)'
  <2>1. OrderOK(o)'
    BY <1>1, <1>2, RequestAssumption DEF OrderOK, AllowedFlag, TypeOK
  <2>2. \A q \in Order \ {o} : OrderOK(q)'
    BY <1>1 DEF IInv, OrderOK, AllowedFlag
  <2>3. QED
    BY <2>1, <2>2
<1>5. ASSUME NEW s \in Side
      PROVE  SideOK(s)' /\ NoLess(positions_'[s], positions_[s])
  <2>1. PICK c \in Nat, y \in Nat, t \in Nat :
          /\ SideOK(s) <=>
               PosOK(positions_[s], held[s],
                     IF o \in ClosingOrders(s) THEN c + left[o] ELSE c,
                     IF o \in FrozenAs(s, "yesterday") THEN y + left[o] ELSE y,
                     IF o \in FrozenAs(s, "today") THEN t + left[o] ELSE t)
          /\ SideOK(s)' <=>
               PosOK(positions_'[s], held'[s],
                     IF o \in ClosingOrders(s)' THEN c + left'[o] ELSE c,
                     IF o \in FrozenAs(s, "yesterday")' THEN y + left'[o] ELSE y,
                     IF o \in FrozenAs(s, "today")' THEN t + left'[o] ELSE t)
    BY <1>1, <1>2, Counts
  <2>2. /\ ClosingOrders(s)' = ClosingOrders(s)
        /\ FrozenAs(s, "yesterday")' = FrozenAs(s, "yesterday")
        /\ FrozenAs(s, "today")' = FrozenAs(s, "today")
    BY <1>1 DEF ClosingOrders, FrozenAs, PositionOf, GetPosition, Booked
  <2>3. SideOK(s)
    BY DEF IInv
  <2>4. CASE s \notin PositionOf(o)
    <3>1. positions_'[s] = positions_[s] /\ held'[s] = held[s]
      BY <2>4, <1>0 DEF Knock, HandleTradeKnock
    <3>2. o \notin ClosingOrders(s)
      BY <2>4 DEF ClosingOrders
    <3>3. o \notin FrozenAs(s, "yesterday") /\ o \notin FrozenAs(s, "today")
      BY <3>2 DEF FrozenAs
    <3>4. NoLess(positions_'[s], positions_[s])
      BY <1>2, <3>1 DEF TypeOK, InnerPosition, NoLess,
                        GetYesterdayAvailableVolume, GetTodayAvailableVolume
    <3>5. QED
      BY <2>1, <2>2, <2>3, <3>1, <3>2, <3>3, <3>4
  <2>5. CASE s \in PositionOf(o)
    <3> DEFINE b == Booked(flag)
               c1 == IF flag # "Open" THEN c + left[o] ELSE c
               y1 == IF b = "yesterday" THEN y + left[o] ELSE y
               t1 == IF b = "today" THEN t + left[o] ELSE t
    <3>1. positions_'[s] = Matched(positions_[s], flag, n)
      <4> DEFINE withdraw_volume == IF match_type = "OK" THEN 0 ELSE n
                 q == Matched(positions_[s], flag, n)
      <4>1. withdraw_volume = 0
        BY <1>0
      <4>2. positions_'[s] = IF withdraw_volume > 0 THEN Withdrawn(q, flag, withdraw_volume) ELSE q
        <5>1. HandleTradeKnock(o, match_type, n)
          BY DEF Knock
        <5>2. QED
          BY <2>5, <5>1 DEF HandleTradeKnock
      <4> HIDE DEF q, withdraw_volume
      <4>3. positions_'[s] = q
        BY <4>1, <4>2
      <4>4. QED
        BY <4>3 DEF q
    <3>2. held'[s] = (IF flag = "Open" THEN held[s] + n ELSE held[s] - n)
      BY <2>5, <1>0 DEF Knock
    <3>3. b \in Bookings(flag)
      BY <1>2, <1>3, <2>5, FlagBooked DEF PositionOf
    <3>4. o \in ClosingOrders(s) <=> flag # "Open"
      BY <2>5 DEF ClosingOrders
    <3>5. \A x \in {"yesterday", "today"} : o \in FrozenAs(s, x) <=> b = x
      BY <3>3, <3>4 DEF FrozenAs, Bookings
    <3>6. positions_[s] \in InnerPosition /\ held[s] \in Int
      BY <1>2 DEF TypeOK
    <3>7. PosOK(positions_[s], held[s], c1, y1, t1)
      BY <2>1, <2>3, <3>4, <3>5
    <3>8. c1 \in Nat /\ y1 \in Nat /\ t1 \in Nat
      BY <1>1
    <3>9. /\ flag # "Open" => n <= c1
          /\ b = "yesterday" => n <= y1
          /\ b = "today" => n <= t1
      BY <1>1
    <3>10. /\ (IF flag = "Open" THEN c1 ELSE c1 - n) = IF flag # "Open" THEN c + left'[o] ELSE c
           /\ (IF b = "yesterday" THEN y1 - n ELSE y1) = IF b = "yesterday" THEN y + left'[o] ELSE y
           /\ (IF b = "today" THEN t1 - n ELSE t1) = IF b = "today" THEN t + left'[o] ELSE t
      BY <1>1
    <3>11. b = Booked(flag)
      OBVIOUS
    <3> DEFINE p == positions_[s]
               h == held[s]
    <3> HIDE DEF c1, y1, t1, b, flag, p, h
    <3>12. /\ PosOK(Matched(p, flag, n), (IF flag = "Open" THEN h + n ELSE h - n),
                    IF flag = "Open" THEN c1 ELSE c1 - n,
                    IF b = "yesterday" THEN y1 - n ELSE y1,
                    IF b = "today" THEN t1 - n ELSE t1)
           /\ NoLess(Matched(p, flag, n), p)
      <4>1. p \in InnerPosition /\ h \in Int /\ PosOK(p, h, c1, y1, t1)
        BY <3>6, <3>7 DEF p, h
      <4>2. QED
        BY <1>1, <3>3, <3>8, <3>9, <3>11, <4>1, MatchedKeeps
    <3>13. QED
      BY <2>1, <2>2, <3>1, <3>2, <3>4, <3>5, <3>10, <3>12 DEF flag, b, p, h
  <2>6. QED
    BY <2>4, <2>5
<1>6. QED
  BY <1>4, <1>5 DEF IInv

(* Whatever the counter answers, the books are kept, and nothing that was     *)
(* available is taken.                                                     *)
LEMMA AnswerBooks ==
    ASSUME OnlyFills, IInv, TypeOK', NEW o \in Order, Answer(o)
    PROVE  IInv' /\ \A s \in Side : NoLess(positions_'[s], positions_[s])
<1>1. CASE HandleTradeOrderRep(o)
  BY <1>1, HandleTradeOrderRepBooks
<1>2. ASSUME NEW match_type \in KnockTypes, NEW n \in 1 .. left[o], Knock(o, match_type, n)
      PROVE  IInv' /\ \A s \in Side : NoLess(positions_'[s], positions_[s])
  BY <1>2, KnockBooks
<1>3. QED
  BY <1>1, <1>2 DEF Answer

(* An order that is not sent changes nothing in the books. *)
LEMMA RefuseOrderBooks ==
    ASSUME IInv, TypeOK', NEW o \in Order, RefuseOrder(o)
    PROVE  IInv'
<1>1. /\ contract' = contract /\ positions_' = positions_ /\ left' = left /\ held' = held
      /\ oc_flag[o] = "none" /\ oc_flag' = [oc_flag EXCEPT ![o] = "refused"]
  BY DEF RefuseOrder
<1>2. left[o] = 0
  BY <1>1 DEF IInv, OrderOK
<1>3. oc_flag'[o] = "refused" /\ \A q \in Order \ {o} : oc_flag'[q] = oc_flag[q]
  BY <1>1 DEF IInv, TypeOK
<1>4. \A q \in Order : OrderOK(q)'
  BY <1>1, <1>2, <1>3 DEF IInv, OrderOK, AllowedFlag
<1>5. ASSUME NEW s \in Side
      PROVE  SideOK(s)'
  <2>1. TypeOK /\ SideOK(s)
    BY DEF IInv
  <2>2. PICK c \in Nat, y \in Nat, t \in Nat :
          /\ SideOK(s) <=>
               PosOK(positions_[s], held[s],
                     IF o \in ClosingOrders(s) THEN c + left[o] ELSE c,
                     IF o \in FrozenAs(s, "yesterday") THEN y + left[o] ELSE y,
                     IF o \in FrozenAs(s, "today") THEN t + left[o] ELSE t)
          /\ SideOK(s)' <=>
               PosOK(positions_'[s], held'[s],
                     IF o \in ClosingOrders(s)' THEN c + left'[o] ELSE c,
                     IF o \in FrozenAs(s, "yesterday")' THEN y + left'[o] ELSE y,
                     IF o \in FrozenAs(s, "today")' THEN t + left'[o] ELSE t)
    BY <1>1, <1>3, <2>1, Counts
  <2>3. PosOK(positions_[s], held[s], c, y, t)
    BY <1>2, <2>1, <2>2
  <2>4. QED
    BY <1>1, <1>2, <2>2, <2>3
<1>6. QED
  BY <1>4, <1>5 DEF IInv

(* Nor does a stutter. *)
LEMMA IdleBooks ==
    ASSUME IInv, TypeOK', UNCHANGED vars
    PROVE  IInv'
<1>1. /\ contract' = contract /\ positions_' = positions_ /\ oc_flag' = oc_flag
      /\ left' = left /\ held' = held
  BY DEF vars, external
<1>2. \A q \in Order : OrderOK(q)'
  BY <1>1 DEF IInv, OrderOK, AllowedFlag
<1>3. ASSUME NEW s \in Side
      PROVE  SideOK(s)'
  <2>1. /\ ClosingOrders(s)' = ClosingOrders(s)
        /\ \A b : FrozenAs(s, b)' = FrozenAs(s, b)
    BY <1>1 DEF ClosingOrders, FrozenAs, PositionOf, GetPosition, Booked
  <2>2. SideOK(s)
    BY DEF IInv
  <2>3. QED
    BY <1>1, <2>1, <2>2 DEF SideOK, PosOK, SplitDays, LotsOf
<1>4. QED
  BY <1>2, <1>3 DEF IInv

(* The server books and sends an order with one flag, when the flags fit. *)
LEMMA SentAsAsked ==
    ASSUME FlagsFit, TypeOK, NEW o \in Order, SendOrder(o)
    PROVE  \E flag \in AllowedFlag : Send(o, flag, flag)
<1> DEFINE flag == Request[o].oc_flag
<1>1. PICK traded \in TradedAs(o) : Send(o, flag, traded)
  BY DEF SendOrder
<1>2. flag \in AllowedFlag
  BY DEF FlagsFit, AllowedFlag, TypeOK
<1>3. contract \in ContractType
  BY ContractAssumption DEF TypeOK
<1>4. contract.trade_type = "credit" \/ flag # "Auto"
  BY <1>2, <1>3 DEF AllowedFlag, FitFlags, ContractType, CloseFlags
<1>5. traded = flag
  BY <1>4 DEF TradedAs
<1>6. QED
  BY <1>1, <1>2, <1>5

(* Every step of the server keeps the books. *)
LEMMA NextBooks ==
    ASSUME FlagsFit, OnlyFills, IInv, [Next]_vars
    PROVE  IInv'
<1>1. TypeOK /\ TypeOK'
  BY NextType DEF IInv, AnyNext
<1>2. ASSUME NEW o \in Order, SendOrder(o)
      PROVE  IInv'
  <2>1. PICK flag \in AllowedFlag : Send(o, flag, flag)
    BY <1>1, <1>2, SentAsAsked
  <2>2. QED
    BY <1>1, <2>1, SendBooks
<1>3. ASSUME NEW o \in Order, Answer(o)
      PROVE  IInv'
  BY <1>1, <1>3, AnswerBooks
<1>4. CASE UNCHANGED vars
  BY <1>1, <1>4, IdleBooks
<1>5. QED
  BY <1>2, <1>3, <1>4 DEF Next

(* The inductive invariant holds of the server. *)
THEOREM Books ==
    ASSUME FlagsFit, OnlyFills
    PROVE  Spec => []IInv
<1>1. IInv /\ [Next]_vars => IInv'
  BY NextBooks
<1>2. QED
  BY <1>1, InitBooks, PTL DEF Spec

(* The lots that the property counts are those of the invariant. *)
LEMMA LotsAgree ==
    ASSUME NEW s \in Side
    PROVE  ClosingLots(s) = LotsOf(left, ClosingOrders(s))
  BY DEF ClosingLots, LotsOf, Lots, ClosingOrders

(* What is held and what is frozen is what the account and the open orders    *)
(* say, however the fills of several orders interleave.                    *)
THEOREM BooksAgreeHolds ==
    ASSUME FlagsFit, OnlyFills
    PROVE  Spec => []BooksAgree
<1>1. IInv => BooksAgree
  BY LotsAgree DEF IInv, SideOK, PosOK, BooksAgree
<1>2. QED
  BY <1>1, Books, PTL
--------------------------------------------------------------------------------
(* What the class chooses can be closed. *)

Safe == IInv /\ \A s \in Side : Free(positions_[s])

(* At the start nothing is promised. *)
LEMMA InitSafe == Init => Safe
<1> SUFFICES ASSUME Init PROVE Safe
  OBVIOUS
<1>1. IInv
  BY InitBooks
<1>2. ASSUME NEW s \in Side
      PROVE  Free(positions_[s])
  <2>1. PICK r \in Reported : positions_ = InitPositions(contract.trade_type, r)
    BY DEF Init
  <2>2. r \in ReportType /\ contract.trade_type \in {"future", "option", "credit"}
    BY ReportAssumption, ContractAssumption DEF Init, ContractType
  <2>3. /\ r.long_volume - r.long_pre_volume \in Nat
        /\ r.short_volume - r.short_pre_volume \in Nat
        /\ r.long_pre_volume \in Nat /\ r.short_pre_volume \in Nat
        /\ r.long_can_close \in Nat /\ r.short_can_close \in Nat
    BY <2>2 DEF ReportType
  <2>4. \E yd, td \in Nat : positions_[s] = NewPosition(yd, td)
    BY <2>1, <2>2, <2>3 DEF InitPositions
  <2>5. QED
    BY <2>4 DEF NewPosition, Free, GetYesterdayAvailableVolume, GetTodayAvailableVolume
<1>3. QED
  BY <1>1, <1>2 DEF Safe

(* An order that leaves with the flag of the class takes what there is. *)
LEMMA SendChosenSafe ==
    ASSUME NoClientCloses, Safe, TypeOK', NEW o \in Order, SendChosen(o)
    PROVE  Safe'
<1>1. PICK flag \in FlagFor(o) : Send(o, flag, flag)
  BY DEF SendChosen
<1>2. IInv /\ TypeOK
  BY DEF Safe, IInv
<1>3. flag \in AllowedFlag
  BY <1>2, ChosenFlag
<1>4. IInv'
  BY <1>1, <1>2, <1>3, SendBooks
<1>5. ASSUME NEW s \in Side
      PROVE  Free(positions_'[s])
  <2> DEFINE n == Request[o].volume
  <2>1. positions_[s] \in InnerPosition /\ n \in Nat /\ Free(positions_[s])
    BY <1>2, RequestAssumption DEF TypeOK, Safe
  <2>2. CASE s \notin GetPosition(Request[o].bs_flag, flag)
    <3>1. positions_'[s] = positions_[s]
      BY <1>1, <2>2 DEF Send, HandleTradeOrderReq
    <3>2. QED
      BY <2>1, <3>1
  <2>3. CASE s \in GetPosition(Request[o].bs_flag, flag)
    <3>1. positions_'[s] = Ordered(positions_[s], flag, n)
      BY <1>1, <2>3 DEF Send, HandleTradeOrderReq
    <3>2. Booked(flag) \in Bookings(flag)
      BY <1>2, <1>3, <2>3, FlagBooked
    <3>3. CanTake(positions_[s], Booked(flag), n)
      <4>1. CASE flag = "Open"
        BY <3>2, <4>1 DEF Bookings, CanTake
      <4>2. CASE flag # "Open"
        BY <1>2, <2>1, <2>3, <4>2, ChosenFlag DEF Free
      <4>3. QED
        BY <4>1, <4>2
    <3>4. Free(Ordered(positions_[s], flag, n))
      BY <2>1, <3>3, OrderedFree
    <3>5. QED
      BY <3>1, <3>4
  <2>4. QED
    BY <2>2, <2>3
<1>6. QED
  BY <1>4, <1>5 DEF Safe, Free, GetYesterdayAvailableVolume, GetTodayAvailableVolume

(* Every step of the unit tests keeps it. *)
LEMMA NextChosenSafe ==
    ASSUME NoClientCloses, OnlyFills, Safe, [NextChosen]_vars
    PROVE  Safe'
<1>1. TypeOK /\ TypeOK' /\ IInv
  BY NextType DEF Safe, IInv, AnyNext
<1>2. ASSUME NEW o \in Order, SendChosen(o)
      PROVE  Safe'
  BY <1>1, <1>2, SendChosenSafe
<1>3. ASSUME NEW o \in Order, RefuseOrder(o)
      PROVE  Safe'
  <2>1. IInv' /\ positions_' = positions_
    BY <1>1, <1>3, RefuseOrderBooks DEF RefuseOrder
  <2>2. QED
    BY <2>1 DEF Safe, Free, GetYesterdayAvailableVolume, GetTodayAvailableVolume
<1>4. ASSUME NEW o \in Order, Answer(o)
      PROVE  Safe'
  <2>1. IInv' /\ \A s \in Side : NoLess(positions_'[s], positions_[s])
    BY <1>1, <1>4, AnswerBooks
  <2>2. \A s \in Side : positions_[s] \in InnerPosition /\ positions_'[s] \in InnerPosition
    BY <1>1 DEF TypeOK
  <2>3. \A s \in Side : Free(positions_'[s])
    BY <2>1, <2>2, NoLessFree DEF Safe
  <2>4. QED
    BY <2>1, <2>3 DEF Safe, Free, GetYesterdayAvailableVolume, GetTodayAvailableVolume
<1>5. CASE UNCHANGED vars
  <2>1. IInv' /\ positions_' = positions_
    BY <1>1, <1>5, IdleBooks DEF vars
  <2>2. QED
    BY <2>1 DEF Safe, Free, GetYesterdayAvailableVolume, GetTodayAvailableVolume
<1>6. QED
  BY <1>2, <1>3, <1>4, <1>5 DEF NextChosen

(* What the class has once promised to close can be closed: when each order   *)
(* is booked with the flag that the class has just chosen for it, which the  *)
(* unit tests see to and the server does not, nothing is promised twice, and *)
(* the books agree.                                                        *)
THEOREM NoOversellHolds ==
    ASSUME NoClientCloses, OnlyFills
    PROVE  ChosenSpec => [](NoOversell /\ BooksAgree)
<1>1. Safe /\ [NextChosen]_vars => Safe'
  BY NextChosenSafe
<1>2. Safe => NoOversell /\ BooksAgree
  BY LotsAgree DEF Safe, Free, NoOversell, IInv, SideOK, PosOK, BooksAgree
<1>3. QED
  BY <1>1, <1>2, InitSafe, PTL DEF ChosenSpec
--------------------------------------------------------------------------------
(* What is frozen for opening. *)

(* The orders that would open more of a side. *)
OpeningOrders(s) == {o \in Order : s \in PositionOf(o) /\ oc_flag[o] = "Open"}

OpeningVolume(s) == Cardinality(LotsOf(left, OpeningOrders(s)))

(* An order that is over has left k frozen. *)
Stuck(s, k) ==
    /\ contract.trade_type = "future"
    /\ \E o \in Order :
         /\ oc_flag[o] = "Open" /\ left[o] = 0
         /\ PositionOf(o) = {s}
         /\ k = Request[o].volume

LeakOK(s) ==
    \E k \in Nat :
        /\ k = 0 \/ Stuck(s, k)
        /\ positions_[s].td_opening = OpeningVolume(s) + k

(* The inductive invariant: an order that is not sent has nothing open, so     *)
(* the one that has left something frozen never moves again.                *)
LeakInv ==
    /\ TypeOK
    /\ \A o \in Order : oc_flag[o] = "none" => left[o] = 0
    /\ \A s \in Side : LeakOK(s)

(* An order is about one position or none. *)
LEMMA OnePosition ==
    ASSUME NEW bs_flag, NEW flag
    PROVE  \/ GetPosition(bs_flag, flag) = {}
           \/ \E s \in Side : GetPosition(bs_flag, flag) = {s}
  BY DEF GetPosition, Side

(* The invariant says what the property says. *)
LEMMA LeakAgrees == LeakInv => OpeningLeak
<1> SUFFICES ASSUME LeakInv, NEW s \in Side
             PROVE  LET leak == positions_[s].td_opening - Cardinality(OpeningLots(s)) IN
                    leak = 0 \/ Stuck(s, leak)
  BY DEF OpeningLeak, Stuck
<1>1. PICK k \in Nat :
        /\ k = 0 \/ Stuck(s, k)
        /\ positions_[s].td_opening = OpeningVolume(s) + k
  BY DEF LeakInv, LeakOK
<1>2. OpeningLots(s) = LotsOf(left, OpeningOrders(s))
  BY DEF OpeningLots, LotsOf, Lots, OpeningOrders
<1>3. OpeningVolume(s) \in Nat
  <2>1. left \in [Order -> Nat] /\ OpeningOrders(s) \in SUBSET Order
    BY DEF LeakInv, TypeOK, OpeningOrders
  <2>2. QED
    BY <2>1, LotsFinite DEF OpeningVolume
<1>4. positions_[s].td_opening - OpeningVolume(s) = k
  BY <1>1, <1>3
<1>5. QED
  BY <1>1, <1>2, <1>4 DEF OpeningVolume

(* An order is booked for opening when its flag says so. *)
LEMMA OpeningBooked ==
    ASSUME TypeOK, NEW bs_flag, NEW flag, NEW s \in GetPosition(bs_flag, flag)
    PROVE  Booked(flag) = "opening" <=> flag = "Open"
<1>1. contract.trade_type \in {"future", "option", "credit"}
  BY ContractAssumption DEF TypeOK, ContractType
<1>2. CASE contract.trade_type = "credit"
  BY <1>2 DEF Booked, GetPosition
<1>3. CASE contract.trade_type \in {"future", "option"}
  BY <1>3 DEF Booked
<1>4. QED
  BY <1>1, <1>2, <1>3

(* When one order moves, the others have as much open as before, and what was  *)
(* stuck stays so.                                                         *)
LEMMA LeakStep ==
    ASSUME LeakInv, TypeOK', contract' = contract, NEW o \in Order, NEW s \in Side,
           \A q \in Order \ {o} : oc_flag'[q] = oc_flag[q] /\ left'[q] = left[q],
           oc_flag[o] = "none" \/ (oc_flag'[o] = oc_flag[o] /\ left[o] > 0)
    PROVE  \E rest, k \in Nat :
             /\ k = 0 \/ Stuck(s, k)'
             /\ positions_[s].td_opening =
                  (IF o \in OpeningOrders(s) THEN rest + left[o] ELSE rest) + k
             /\ OpeningVolume(s)' = IF o \in OpeningOrders(s)' THEN rest + left'[o] ELSE rest
<1>1. PICK k \in Nat :
        /\ k = 0 \/ Stuck(s, k)
        /\ positions_[s].td_opening = OpeningVolume(s) + k
  BY DEF LeakInv, LeakOK
<1>2. \A q \in Order \ {o} : PositionOf(q)' = PositionOf(q)
  BY DEF PositionOf, GetPosition
<1>3. k = 0 \/ Stuck(s, k)'
  BY <1>1, <1>2 DEF Stuck
<1>4. /\ left \in [Order -> Nat] /\ left' \in [Order -> Nat]
      /\ OpeningOrders(s) \in SUBSET Order /\ OpeningOrders(s)' \in SUBSET Order
      /\ OpeningOrders(s) \ {o} = OpeningOrders(s)' \ {o}
  BY <1>2 DEF LeakInv, TypeOK, OpeningOrders
<1>5. PICK rest \in Nat :
        /\ Cardinality(LotsOf(left, OpeningOrders(s))) =
             IF o \in OpeningOrders(s) THEN rest + left[o] ELSE rest
        /\ Cardinality(LotsOf(left', OpeningOrders(s)')) =
             IF o \in OpeningOrders(s)' THEN rest + left'[o] ELSE rest
  BY <1>4, LotsChange
<1>6. OpeningVolume(s)' = Cardinality(LotsOf(left', OpeningOrders(s)'))
  BY DEF OpeningVolume, LotsOf
<1>7. QED
  BY <1>1, <1>3, <1>5, <1>6 DEF OpeningVolume

(* At the start nothing is frozen. *)
LEMMA InitLeak == Init => LeakInv
<1> SUFFICES ASSUME Init PROVE LeakInv
  OBVIOUS
<1>1. TypeOK /\ \A o \in Order : left[o] = 0
  BY InitType DEF Init
<1>2. ASSUME NEW s \in Side
      PROVE  LeakOK(s)
  <2>1. positions_[s].td_opening = 0
    <3>1. PICK r \in Reported : positions_ = InitPositions(contract.trade_type, r)
      BY DEF Init
    <3>2. contract.trade_type \in {"future", "option", "credit"}
      BY ContractAssumption DEF Init, ContractType
    <3>3. \E yd, td : positions_[s] = NewPosition(yd, td)
      BY <3>1, <3>2 DEF InitPositions
    <3>4. QED
      BY <3>3 DEF NewPosition
  <2>2. LotsOf(left, OpeningOrders(s)) = {}
    BY <1>1 DEF LotsOf, OpeningOrders
  <2>3. OpeningVolume(s) = 0
    BY <2>2, FS_EmptySet DEF OpeningVolume
  <2>4. QED
    BY <2>1, <2>3 DEF LeakOK
<1>3. QED
  BY <1>1, <1>2 DEF LeakInv

(* An order that opens freezes its volume. *)
LEMMA SendLeak ==
    ASSUME LeakInv, TypeOK', NEW o \in Order, NEW flag \in Flag, Send(o, flag, flag)
    PROVE  LeakInv'
<1> DEFINE n == Request[o].volume
<1>1. /\ contract' = contract /\ oc_flag[o] = "none" /\ left[o] = 0
      /\ left'[o] = n /\ oc_flag'[o] = flag /\ n \in Nat /\ flag # "none"
      /\ \A q \in Order \ {o} : oc_flag'[q] = oc_flag[q] /\ left'[q] = left[q]
  BY RequestAssumption DEF Send, LeakInv, TypeOK, Flag, CloseFlags
<1>2. ASSUME NEW s \in Side
      PROVE  LeakOK(s)'
  <2>1. PICK rest \in Nat, k \in Nat :
          /\ k = 0 \/ Stuck(s, k)'
          /\ positions_[s].td_opening =
               (IF o \in OpeningOrders(s) THEN rest + left[o] ELSE rest) + k
          /\ OpeningVolume(s)' = IF o \in OpeningOrders(s)' THEN rest + left'[o] ELSE rest
    BY <1>1, LeakStep
  <2>2. positions_[s].td_opening = rest + k
    BY <1>1, <2>1 DEF OpeningOrders
  <2>3. PositionOf(o)' = GetPosition(Request[o].bs_flag, flag)
    BY <1>1 DEF PositionOf, GetPosition
  <2>4. CASE s \notin GetPosition(Request[o].bs_flag, flag)
    <3>1. positions_'[s] = positions_[s]
      BY <2>4 DEF Send, HandleTradeOrderReq
    <3>2. o \notin OpeningOrders(s)'
      BY <2>3, <2>4 DEF OpeningOrders
    <3>3. QED
      BY <2>1, <2>2, <3>1, <3>2 DEF LeakOK
  <2>5. CASE s \in GetPosition(Request[o].bs_flag, flag)
    <3>1. positions_[s] \in InnerPosition /\ Booked(flag) = "opening" <=> flag = "Open"
      BY <2>5, OpeningBooked DEF LeakInv, TypeOK
    <3>2. positions_'[s] = Ordered(positions_[s], flag, n)
      BY <2>5 DEF Send, HandleTradeOrderReq
    <3>3. positions_'[s].td_opening = IF flag = "Open" THEN rest + k + n ELSE rest + k
      BY <1>1, <2>2, <2>5, <3>1, <3>2, OrderedEffect, OpeningBooked
         DEF OrderedTo, LeakInv, TypeOK
    <3>4. OpeningVolume(s)' = IF flag = "Open" THEN rest + n ELSE rest
      BY <1>1, <2>1, <2>3, <2>5 DEF OpeningOrders
    <3>5. positions_'[s].td_opening = OpeningVolume(s)' + k
      BY <1>1, <3>3, <3>4
    <3>6. QED
      BY <2>1, <3>5 DEF LeakOK
  <2>6. QED
    BY <2>4, <2>5
<1>3. QED
  BY <1>1, <1>2 DEF LeakInv

(* An order that is rejected releases what it froze for opening, but for the   *)
(* last order of a future.                                                 *)
LEMMA HandleTradeOrderRepLeak ==
    ASSUME LeakInv, TypeOK', NEW o \in Order, HandleTradeOrderRep(o)
    PROVE  LeakInv'
<1> DEFINE n == Request[o].volume
           flag == oc_flag[o]
<1>1. /\ contract' = contract /\ oc_flag' = oc_flag
      /\ left[o] = n /\ left'[o] = 0 /\ n \in Nat \ {0}
      /\ \A q \in Order \ {o} : oc_flag'[q] = oc_flag[q] /\ left'[q] = left[q]
  BY RequestAssumption DEF HandleTradeOrderRep, LeakInv, TypeOK
<1>2. ASSUME NEW s \in Side
      PROVE  LeakOK(s)'
  <2>1. PICK rest \in Nat, k \in Nat :
          /\ k = 0 \/ Stuck(s, k)'
          /\ positions_[s].td_opening =
               (IF o \in OpeningOrders(s) THEN rest + left[o] ELSE rest) + k
          /\ OpeningVolume(s)' = IF o \in OpeningOrders(s)' THEN rest + left'[o] ELSE rest
    BY <1>1, LeakStep
  <2>2. OpeningOrders(s)' = OpeningOrders(s) /\ PositionOf(o)' = PositionOf(o)
    BY <1>1 DEF OpeningOrders, PositionOf, GetPosition
  <2>3. OpeningVolume(s)' = rest
    BY <1>1, <2>1
  <2>4. CASE s \notin PositionOf(o)
    <3>1. positions_'[s] = positions_[s] /\ o \notin OpeningOrders(s)
      BY <2>4 DEF HandleTradeOrderRep, OpeningOrders
    <3>2. QED
      BY <2>1, <2>3, <3>1 DEF LeakOK
  <2>5. CASE s \in PositionOf(o)
    <3> DEFINE t == positions_[s].td_opening
    <3>1. Booked(flag) = "opening" <=> flag = "Open"
      BY <2>5, OpeningBooked DEF LeakInv, PositionOf
    <3>2. positions_'[s].td_opening =
            IF flag # "Open" \/ (contract.trade_type = "future" /\ t = n)
            THEN t ELSE Reduced(t, n)
      <4>1. positions_[s] \in InnerPosition
        BY DEF LeakInv, TypeOK
      <4>2. positions_'[s] = Withdrawn(positions_[s], flag, n)
        BY <2>5 DEF HandleTradeOrderRep
      <4>3. QED
        BY <1>1, <3>1, <4>1, <4>2, WithdrawnEffect DEF WithdrawnTo
    <3>3. o \in OpeningOrders(s) <=> flag = "Open"
      BY <2>5 DEF OpeningOrders
    <3> HIDE DEF t
    <3>4. CASE flag # "Open"
      BY <2>1, <2>3, <3>2, <3>3, <3>4 DEF LeakOK, t
    <3>5. CASE flag = "Open" /\ ~(contract.trade_type = "future" /\ t = n)
      <4>1. t = (rest + n) + k
        BY <1>1, <2>1, <3>3, <3>5 DEF t
      <4>2. Reduced(t, n) = rest + k
        BY <1>1, <4>1 DEF Reduced
      <4>3. QED
        BY <2>1, <2>3, <3>2, <3>5, <4>2 DEF LeakOK
    <3>6. CASE flag = "Open" /\ contract.trade_type = "future" /\ t = n
      <4>1. t = (rest + n) + k
        BY <1>1, <2>1, <3>3, <3>6 DEF t
      <4>2. rest = 0
        BY <1>1, <3>6, <4>1
      <4>3. PositionOf(o) = {s}
        BY <2>5, OnePosition DEF PositionOf
      <4>4. Stuck(s, n)'
        BY <1>1, <2>2, <3>6, <4>3 DEF Stuck
      <4>5. positions_'[s].td_opening = OpeningVolume(s)' + n
        BY <1>1, <2>3, <3>2, <3>6, <4>2
      <4>6. QED
        BY <1>1, <4>4, <4>5 DEF LeakOK
    <3>7. QED
      BY <3>4, <3>5, <3>6
  <2>6. QED
    BY <2>4, <2>5
<1>3. QED
  BY <1>1, <1>2 DEF LeakInv

(* An order that is filled releases what is filled. *)
LEMMA KnockLeak ==
    ASSUME OnlyFills, LeakInv, TypeOK', NEW o \in Order, NEW match_type \in KnockTypes,
           NEW n \in 1 .. left[o], Knock(o, match_type, n)
    PROVE  LeakInv'
<1> DEFINE flag == oc_flag[o]
<1>1. /\ contract' = contract /\ oc_flag' = oc_flag
      /\ left'[o] = left[o] - n /\ left[o] \in Nat /\ n \in Nat /\ n <= left[o] /\ n > 0
      /\ \A q \in Order \ {o} : oc_flag'[q] = oc_flag[q] /\ left'[q] = left[q]
  BY DEF Knock, LeakInv, TypeOK
<1>2. match_type = "OK"
  BY DEF OnlyFills
<1>3. ASSUME NEW s \in Side
      PROVE  LeakOK(s)'
  <2>1. PICK rest \in Nat, k \in Nat :
          /\ k = 0 \/ Stuck(s, k)'
          /\ positions_[s].td_opening =
               (IF o \in OpeningOrders(s) THEN rest + left[o] ELSE rest) + k
          /\ OpeningVolume(s)' = IF o \in OpeningOrders(s)' THEN rest + left'[o] ELSE rest
    BY <1>1, LeakStep
  <2>2. OpeningOrders(s)' = OpeningOrders(s)
    BY <1>1 DEF OpeningOrders, PositionOf, GetPosition
  <2>3. CASE s \notin PositionOf(o)
    <3>1. positions_'[s] = positions_[s] /\ o \notin OpeningOrders(s)
      BY <2>3 DEF Knock, HandleTradeKnock, OpeningOrders
    <3>2. QED
      BY <2>1, <2>2, <3>1 DEF LeakOK
  <2>4. CASE s \in PositionOf(o)
    <3> DEFINE t == positions_[s].td_opening
    <3>1. Booked(flag) = "opening" <=> flag = "Open"
      BY <2>4, OpeningBooked DEF LeakInv, PositionOf
    <3>2. positions_'[s] = Matched(positions_[s], flag, n)
      BY <1>2, <2>4 DEF Knock, HandleTradeKnock
    <3>3. positions_'[s].td_opening =
            IF flag # "Open" THEN t
            ELSE IF contract.trade_type = "option" THEN Reduced(t, n) ELSE t - n
      <4>1. positions_[s] \in InnerPosition
        BY DEF LeakInv, TypeOK
      <4>2. QED
        BY <1>1, <3>1, <3>2, <4>1, MatchedEffect DEF MatchedTo
    <3>4. o \in OpeningOrders(s) <=> flag = "Open"
      BY <2>4 DEF OpeningOrders
    <3> HIDE DEF t
    <3>5. CASE flag # "Open"
      BY <2>1, <2>2, <3>3, <3>4, <3>5 DEF LeakOK, t
    <3>6. CASE flag = "Open"
      <4>1. t = (rest + left[o]) + k /\ OpeningVolume(s)' = rest + (left[o] - n)
        BY <1>1, <2>1, <2>2, <3>4, <3>6 DEF t
      <4>2. Reduced(t, n) = t - n
        BY <1>1, <4>1 DEF Reduced
      <4>3. positions_'[s].td_opening = OpeningVolume(s)' + k
        BY <1>1, <3>3, <3>6, <4>1, <4>2
      <4>4. QED
        BY <2>1, <4>3 DEF LeakOK
    <3>7. QED
      BY <3>5, <3>6
  <2>5. QED
    BY <2>3, <2>4
<1>4. QED
  BY <1>1, <1>3 DEF LeakInv

(* What the counter answers and an order that is refused keep it. *)
LEMMA AnswerLeak ==
    ASSUME OnlyFills, LeakInv, TypeOK', NEW o \in Order, Answer(o) \/ RefuseOrder(o)
    PROVE  LeakInv'
<1>1. CASE HandleTradeOrderRep(o)
  BY <1>1, HandleTradeOrderRepLeak
<1>2. ASSUME NEW match_type \in KnockTypes, NEW n \in 1 .. left[o], Knock(o, match_type, n)
      PROVE  LeakInv'
  BY <1>2, KnockLeak
<1>3. CASE RefuseOrder(o)
  <2>1. /\ contract' = contract /\ positions_' = positions_ /\ left' = left
        /\ oc_flag[o] = "none" /\ oc_flag'[o] = "refused" /\ left[o] = 0
        /\ \A q \in Order \ {o} : oc_flag'[q] = oc_flag[q] /\ left'[q] = left[q]
    BY <1>3 DEF RefuseOrder, LeakInv, TypeOK
  <2>2. ASSUME NEW s \in Side
        PROVE  LeakOK(s)'
    <3>1. o \notin OpeningOrders(s) /\ o \notin OpeningOrders(s)'
      BY <2>1 DEF OpeningOrders
    <3>2. QED
      BY <2>1, <3>1, LeakStep DEF LeakOK
  <2>3. QED
    BY <2>1, <2>2 DEF LeakInv
<1>4. QED
  BY <1>1, <1>2, <1>3 DEF Answer

(* A stutter keeps it. *)
LEMMA IdleLeak ==
    ASSUME LeakInv, TypeOK', UNCHANGED vars
    PROVE  LeakInv'
<1>1. /\ contract' = contract /\ positions_' = positions_ /\ oc_flag' = oc_flag
      /\ left' = left
  BY DEF vars, external
<1>2. ASSUME NEW s \in Side
      PROVE  LeakOK(s)'
  <2>1. OpeningVolume(s)' = OpeningVolume(s)
    BY <1>1 DEF OpeningVolume, OpeningOrders, LotsOf, PositionOf, GetPosition
  <2>2. \A k \in Nat : Stuck(s, k)' <=> Stuck(s, k)
    BY <1>1 DEF Stuck, PositionOf, GetPosition
  <2>3. QED
    BY <1>1, <2>1, <2>2 DEF LeakInv, LeakOK
<1>3. QED
  BY <1>1, <1>2 DEF LeakInv

(* However orders, fills and rejections interleave, what is frozen for opening *)
(* exceeds what is open by no more than the volume of one order that is      *)
(* over, and on futures only, when the class has chosen the flags.           *)
THEOREM OpeningLeakHolds ==
    ASSUME OnlyFills
    PROVE  ChosenSpec => []OpeningLeak
<1>1. ASSUME LeakInv, [NextChosen]_vars
      PROVE  LeakInv'
  <2>1. TypeOK /\ TypeOK'
    BY <1>1, NextType DEF LeakInv, AnyNext
  <2>2. ASSUME NEW o \in Order, SendChosen(o)
        PROVE  LeakInv'
    <3>1. PICK flag \in FlagFor(o) : Send(o, flag, flag)
      BY <2>2 DEF SendChosen
    <3>2. flag \in Flag
      BY <2>1, FlagType DEF TypeOK
    <3>3. QED
      BY <1>1, <2>1, <3>1, <3>2, SendLeak
  <2>3. QED
    BY <1>1, <2>1, <2>2, AnswerLeak, IdleLeak DEF NextChosen
<1>2. QED
  BY <1>1, InitLeak, LeakAgrees, PTL DEF ChosenSpec

(* The same of the server, as long as clients set flags that fit. *)
THEOREM ServerLeakHolds ==
    ASSUME FlagsFit, OnlyFills
    PROVE  Spec => []OpeningLeak
<1>1. ASSUME LeakInv, [Next]_vars
      PROVE  LeakInv'
  <2>1. TypeOK /\ TypeOK'
    BY <1>1, NextType DEF LeakInv, AnyNext
  <2>2. ASSUME NEW o \in Order, SendOrder(o)
        PROVE  LeakInv'
    <3>1. PICK flag \in AllowedFlag : Send(o, flag, flag)
      BY <2>1, <2>2, SentAsAsked
    <3>2. flag \in Flag
      BY DEF AllowedFlag, FitFlags, Flag, CloseFlags
    <3>3. QED
      BY <1>1, <2>1, <3>1, <3>2, SendLeak
  <2>3. QED
    BY <1>1, <2>1, <2>2, AnswerLeak, IdleLeak DEF Next
<1>2. QED
  BY <1>1, InitLeak, LeakAgrees, PTL DEF Spec
--------------------------------------------------------------------------------
(* Refinement *)

(* What is frozen moves with what is left of the order that moves. *)
LEMMA FrozenMoves ==
    ASSUME IInv, IInv', contract' = contract, NEW o \in Order, NEW s \in Side,
           \A q \in Order \ {o} : oc_flag'[q] = oc_flag[q] /\ left'[q] = left[q]
    PROVE  \E c \in Nat :
             /\ Frozen(positions_[s]) = IF o \in ClosingOrders(s) THEN c + left[o] ELSE c
             /\ Frozen(positions_'[s]) = IF o \in ClosingOrders(s)' THEN c + left'[o] ELSE c
<1>1. /\ left \in [Order -> Nat] /\ left' \in [Order -> Nat]
      /\ ClosingOrders(s) \in SUBSET Order /\ ClosingOrders(s)' \in SUBSET Order
  BY DEF IInv, TypeOK, ClosingOrders
<1>2. ClosingOrders(s) \ {o} = ClosingOrders(s)' \ {o}
  BY DEF ClosingOrders, PositionOf, GetPosition
<1>3. PICK c \in Nat :
        /\ Cardinality(LotsOf(left, ClosingOrders(s))) =
             IF o \in ClosingOrders(s) THEN c + left[o] ELSE c
        /\ Cardinality(LotsOf(left', ClosingOrders(s)')) =
             IF o \in ClosingOrders(s)' THEN c + left'[o] ELSE c
  BY <1>1, <1>2, LotsChange
<1>4. Frozen(positions_[s]) = Cardinality(LotsOf(left, ClosingOrders(s)))
  BY DEF IInv, SideOK, PosOK
<1>5. Frozen(positions_'[s]) = Cardinality(LotsOf(left', ClosingOrders(s)'))
  BY DEF IInv, SideOK, PosOK, LotsOf, Frozen
<1>6. QED
  BY <1>3, <1>4, <1>5

(* The books as the ledger sees them. *)
HeldBooks == [s \in Side |-> Held(positions_[s])]

FrozenBooks == [s \in Side |-> Frozen(positions_[s])]

Volumes == UNION {1 .. Request[o].volume : o \in Order}

(* What the invariant says of them. *)
BooksOK ==
    /\ HeldBooks = held
    /\ HeldBooks \in [Side -> Int]
    /\ FrozenBooks \in [Side -> Nat]

(* The invariant says so. *)
LEMMA BooksOf == IInv => BooksOK
<1> SUFFICES ASSUME IInv PROVE BooksOK
  OBVIOUS
<1>1. ASSUME NEW s \in Side
      PROVE  /\ Held(positions_[s]) = held[s] /\ held[s] \in Int
             /\ Frozen(positions_[s]) \in Nat
  <2>1. positions_[s] \in InnerPosition /\ held[s] \in Int
    BY DEF IInv, TypeOK
  <2>2. /\ Held(positions_[s]) = held[s]
        /\ positions_[s].yd_closing >= 0 /\ positions_[s].td_closing >= 0
    BY DEF IInv, SideOK, PosOK
  <2>3. QED
    BY <2>1, <2>2 DEF InnerPosition, Frozen
<1>2. held \in [Side -> Int]
  BY DEF IInv, TypeOK
<1>3. QED
  BY <1>1, <1>2 DEF HeldBooks, FrozenBooks, BooksOK

(* Also after a step. *)
LEMMA BooksOfNext == IInv' => BooksOK'
  BY BooksOf, PTL

(* What changes when an order that closes one position, or none, moves. *)
LEMMA FrozenStep ==
    ASSUME IInv, IInv', contract' = contract, NEW o \in Order,
           \A q \in Order \ {o} : oc_flag'[q] = oc_flag[q] /\ left'[q] = left[q],
           left[o] = 0 \/ oc_flag'[o] = oc_flag[o]
    PROVE  /\ PositionOf(o)' = {} \/ oc_flag'[o] = "Open" => FrozenBooks' = FrozenBooks
           /\ \A s \in Side : PositionOf(o)' = {s} /\ oc_flag'[o] # "Open" =>
                FrozenBooks' = [FrozenBooks EXCEPT ![s] = (@ - left[o]) + left'[o]]
<1>1. ASSUME NEW s \in Side, s \notin PositionOf(o)' \/ oc_flag'[o] = "Open"
      PROVE  Frozen(positions_'[s]) = Frozen(positions_[s])
  <2>1. PICK c \in Nat :
          /\ Frozen(positions_[s]) = IF o \in ClosingOrders(s) THEN c + left[o] ELSE c
          /\ Frozen(positions_'[s]) = IF o \in ClosingOrders(s)' THEN c + left'[o] ELSE c
    BY FrozenMoves
  <2>2. o \notin ClosingOrders(s)'
    BY <1>1 DEF ClosingOrders
  <2>3. left[o] = 0 \/ o \notin ClosingOrders(s)
    BY <1>1 DEF ClosingOrders, PositionOf, GetPosition
  <2>4. QED
    BY <2>1, <2>2, <2>3
<1>2. ASSUME NEW s \in Side, s \in PositionOf(o)', oc_flag'[o] # "Open"
      PROVE  Frozen(positions_'[s]) = (Frozen(positions_[s]) - left[o]) + left'[o]
  <2>1. PICK c \in Nat :
          /\ Frozen(positions_[s]) = IF o \in ClosingOrders(s) THEN c + left[o] ELSE c
          /\ Frozen(positions_'[s]) = IF o \in ClosingOrders(s)' THEN c + left'[o] ELSE c
    BY FrozenMoves
  <2>2. o \in ClosingOrders(s)'
    BY <1>2 DEF ClosingOrders
  <2>3. left[o] = 0 \/ o \in ClosingOrders(s)
    BY <1>2 DEF ClosingOrders, PositionOf, GetPosition
  <2>4. left[o] \in Nat /\ left'[o] \in Nat
    BY DEF IInv, TypeOK
  <2>5. QED
    BY <2>1, <2>2, <2>3, <2>4
<1>3. \A s \in Side : FrozenBooks[s] = Frozen(positions_[s]) /\ FrozenBooks'[s] = Frozen(positions_'[s])
  BY DEF FrozenBooks, Frozen
<1>4. FrozenBooks \in [Side -> Nat] /\ FrozenBooks' \in [Side -> Nat]
  BY BooksOf, BooksOfNext DEF BooksOK
<1>5. PositionOf(o)' = {} \/ oc_flag'[o] = "Open" => FrozenBooks' = FrozenBooks
  BY <1>1, <1>3, <1>4
<1>6. ASSUME NEW s \in Side, PositionOf(o)' = {s}, oc_flag'[o] # "Open"
      PROVE  FrozenBooks' = [FrozenBooks EXCEPT ![s] = (@ - left[o]) + left'[o]]
  <2>1. ASSUME NEW x \in Side
        PROVE  FrozenBooks'[x] = [FrozenBooks EXCEPT ![s] = (@ - left[o]) + left'[o]][x]
    <3>1. CASE x = s
      <4>1. Frozen(positions_'[s]) = (Frozen(positions_[s]) - left[o]) + left'[o]
        BY <1>2, <1>6
      <4>2. QED
        BY <1>3, <1>4, <3>1, <4>1
    <3>2. CASE x # s
      <4>1. Frozen(positions_'[x]) = Frozen(positions_[x])
        BY <1>1, <1>6, <3>2
      <4>2. QED
        BY <1>3, <1>4, <3>2, <4>1
    <3>3. QED
      BY <3>1, <3>2
  <2>2. QED
    BY <1>4, <2>1
<1>7. QED
  BY <1>5, <1>6

(* An order that is sent freezes, or opens. *)
LEMMA SendRefines ==
    ASSUME IInv, IInv', NEW o \in Order, NEW flag, Send(o, flag, flag)
    PROVE  [Ledger!Next]_(Ledger!vars)
<1>1. /\ contract' = contract /\ held' = held
      /\ left[o] = 0 /\ left'[o] = Request[o].volume
      /\ \A q \in Order \ {o} : oc_flag'[q] = oc_flag[q] /\ left'[q] = left[q]
  BY DEF Send, IInv, TypeOK, OrderOK
<1>2. HeldBooks' = HeldBooks
  BY <1>1, BooksOf, BooksOfNext DEF BooksOK
<1>3. Request[o].volume \in Volumes /\ Request[o].volume \in Nat
  BY RequestAssumption DEF Volumes
<1>4. CASE PositionOf(o)' = {} \/ oc_flag'[o] = "Open"
  <2>1. FrozenBooks' = FrozenBooks
    BY <1>1, <1>4, FrozenStep
  <2>2. QED
    BY <1>2, <2>1 DEF Ledger!vars, HeldBooks, FrozenBooks
<1>5. CASE PositionOf(o)' # {} /\ oc_flag'[o] # "Open"
  <2>1. PICK s \in Side : PositionOf(o)' = {s}
    BY <1>5, OnePosition DEF PositionOf, GetPosition, Side
  <2>2. FrozenBooks' = [FrozenBooks EXCEPT ![s] = @ + Request[o].volume]
    <3>1. FrozenBooks' = [FrozenBooks EXCEPT ![s] = (@ - 0) + Request[o].volume]
      BY <1>1, <1>5, <2>1, FrozenStep
    <3>2. FrozenBooks[s] \in Nat
      BY BooksOf, BooksOfNext DEF BooksOK
    <3>3. (FrozenBooks[s] - 0) + Request[o].volume = FrozenBooks[s] + Request[o].volume
      BY <1>3, <3>2
    <3>4. QED
      BY <3>1, <3>3
  <2>3. Ledger!Freeze(s, Request[o].volume)
    BY <1>2, <2>2 DEF Ledger!Freeze, HeldBooks, FrozenBooks
  <2>4. QED
    BY <1>3, <2>3 DEF Ledger!Next, Volumes
<1>6. QED
  BY <1>4, <1>5

(* An order that is rejected releases what it had frozen. *)
LEMMA HandleTradeOrderRepRefines ==
    ASSUME IInv, IInv', NEW o \in Order, HandleTradeOrderRep(o)
    PROVE  [Ledger!Next]_(Ledger!vars)
<1> DEFINE n == Request[o].volume
<1>1. /\ contract' = contract /\ held' = held /\ oc_flag' = oc_flag
      /\ left[o] = n /\ left'[o] = 0
      /\ \A q \in Order \ {o} : oc_flag'[q] = oc_flag[q] /\ left'[q] = left[q]
  BY DEF HandleTradeOrderRep, IInv, TypeOK
<1>2. HeldBooks' = HeldBooks
  BY <1>1, BooksOf, BooksOfNext DEF BooksOK
<1>3. n \in Volumes /\ n \in Nat
  BY RequestAssumption DEF Volumes
<1>4. CASE PositionOf(o)' = {} \/ oc_flag'[o] = "Open"
  <2>1. FrozenBooks' = FrozenBooks
    BY <1>1, <1>4, FrozenStep
  <2>2. QED
    BY <1>2, <2>1 DEF Ledger!vars, HeldBooks, FrozenBooks
<1>5. CASE PositionOf(o)' # {} /\ oc_flag'[o] # "Open"
  <2>1. PICK s \in Side : PositionOf(o)' = {s}
    BY <1>5, OnePosition DEF PositionOf, GetPosition, Side
  <2>2. FrozenBooks' = [FrozenBooks EXCEPT ![s] = (@ - n) + 0]
    BY <1>1, <1>5, <2>1, FrozenStep
  <2> HIDE DEF n
  <2>3. FrozenBooks \in [Side -> Nat] /\ FrozenBooks' \in [Side -> Nat]
    BY BooksOf, BooksOfNext DEF BooksOK
  <2>4. FrozenBooks' = [FrozenBooks EXCEPT ![s] = @ - n] /\ n <= FrozenBooks[s]
    <3>1. (FrozenBooks[s] - n) + 0 = FrozenBooks[s] - n
      BY <1>3, <2>3
    <3>2. FrozenBooks' = [FrozenBooks EXCEPT ![s] = @ - n]
      BY <2>2, <3>1
    <3>3. FrozenBooks'[s] = FrozenBooks[s] - n /\ FrozenBooks'[s] >= 0
      BY <2>3, <3>2
    <3>4. QED
      BY <1>3, <2>3, <3>2, <3>3
  <2>5. Ledger!Release(s, n)
    BY <1>2, <2>4 DEF Ledger!Release, HeldBooks, FrozenBooks
  <2>6. QED
    BY <1>3, <2>5 DEF Ledger!Next, Volumes
<1>6. QED
  BY <1>4, <1>5

(* An order that is filled buys, or takes what it had frozen. *)
LEMMA KnockRefines ==
    ASSUME OnlyFills, IInv, IInv', NEW o \in Order, NEW match_type \in KnockTypes,
           NEW n \in 1 .. left[o], Knock(o, match_type, n)
    PROVE  [Ledger!Next]_(Ledger!vars)
<1>1. /\ contract' = contract /\ oc_flag' = oc_flag
      /\ left'[o] = left[o] - n /\ left[o] \in Nat /\ n \in Nat /\ n <= left[o] /\ n > 0
      /\ \A q \in Order \ {o} : oc_flag'[q] = oc_flag[q] /\ left'[q] = left[q]
  BY DEF Knock, IInv, TypeOK
<1>2. n \in Volumes
  <2>1. left[o] <= Request[o].volume /\ Request[o].volume \in Nat
    BY <1>1, RequestAssumption DEF IInv, OrderOK
  <2>2. n \in 1 .. Request[o].volume
    BY <1>1, <2>1
  <2>3. QED
    BY <2>2 DEF Volumes
<1>3. match_type = "OK"
  BY DEF OnlyFills
<1>4. held' = [s \in Side |->
                 IF s \notin PositionOf(o) THEN held[s]
                 ELSE IF oc_flag[o] = "Open" THEN held[s] + n ELSE held[s] - n]
  BY <1>3 DEF Knock
<1>5. PositionOf(o)' = PositionOf(o)
  BY <1>1 DEF PositionOf, GetPosition
<1>6. HeldBooks = held /\ HeldBooks' = held' /\ held \in [Side -> Int]
      /\ FrozenBooks \in [Side -> Nat] /\ FrozenBooks' \in [Side -> Nat]
  BY BooksOf, BooksOfNext DEF BooksOK, IInv, TypeOK
<1>7. CASE PositionOf(o) = {}
  <2>1. FrozenBooks' = FrozenBooks
    BY <1>1, <1>5, <1>7, FrozenStep
  <2>2. HeldBooks' = HeldBooks
    BY <1>4, <1>6, <1>7
  <2>3. QED
    BY <2>1, <2>2 DEF Ledger!vars, HeldBooks, FrozenBooks
<1>8. ASSUME NEW s \in Side, PositionOf(o) = {s}, oc_flag[o] = "Open"
      PROVE  Ledger!Next
  <2>1. FrozenBooks' = FrozenBooks
    BY <1>1, <1>8, FrozenStep
  <2>2. HeldBooks' = [HeldBooks EXCEPT ![s] = @ + n]
    BY <1>4, <1>6, <1>8
  <2>3. Ledger!Bought(s, n)
    BY <2>1, <2>2 DEF Ledger!Bought, HeldBooks, FrozenBooks
  <2>4. QED
    BY <1>2, <2>3 DEF Ledger!Next, Volumes
<1>9. ASSUME NEW s \in Side, PositionOf(o) = {s}, oc_flag[o] # "Open"
      PROVE  Ledger!Next
  <2>1. FrozenBooks' = [FrozenBooks EXCEPT ![s] = (@ - left[o]) + (left[o] - n)]
    BY <1>1, <1>5, <1>9, FrozenStep
  <2>2. FrozenBooks' = [FrozenBooks EXCEPT ![s] = @ - n] /\ n <= FrozenBooks[s]
    <3>1. (FrozenBooks[s] - left[o]) + (left[o] - n) = FrozenBooks[s] - n
      BY <1>1, <1>6
    <3>2. FrozenBooks' = [FrozenBooks EXCEPT ![s] = @ - n]
      BY <2>1, <3>1
    <3>3. FrozenBooks'[s] = FrozenBooks[s] - n /\ FrozenBooks'[s] >= 0
      BY <1>6, <3>2
    <3>4. QED
      BY <1>1, <1>6, <3>2, <3>3
  <2>3. HeldBooks' = [HeldBooks EXCEPT ![s] = @ - n]
    BY <1>4, <1>6, <1>9
  <2>4. Ledger!Closed(s, n)
    BY <2>2, <2>3 DEF Ledger!Closed, HeldBooks, FrozenBooks
  <2>5. QED
    BY <1>2, <2>4 DEF Ledger!Next, Volumes
<1>10. PositionOf(o) = {} \/ \E s \in Side : PositionOf(o) = {s}
  BY OnePosition DEF PositionOf
<1>11. QED
  BY <1>7, <1>8, <1>9, <1>10

(* Seen without days, flags and markets, the position master is the ledger. *)
THEOREM Refinement ==
    ASSUME FlagsFit, OnlyFills
    PROVE  Spec => ImplementsLedger
<1>1. Init => Ledger!Init
  <2> SUFFICES ASSUME Init PROVE Ledger!Init
    OBVIOUS
  <2>1. \A s \in Side : Frozen(positions_[s]) = 0 /\ Held(positions_[s]) \in Nat
    <3>1. PICK r \in Reported : positions_ = InitPositions(contract.trade_type, r)
      BY DEF Init
    <3>2. r \in ReportType /\ contract.trade_type \in {"future", "option", "credit"}
      BY ReportAssumption, ContractAssumption DEF Init, ContractType
    <3>3. /\ r.long_volume - r.long_pre_volume \in Nat
          /\ r.short_volume - r.short_pre_volume \in Nat
          /\ r.long_pre_volume \in Nat /\ r.short_pre_volume \in Nat
          /\ r.long_can_close \in Nat /\ r.short_can_close \in Nat
      BY <3>2 DEF ReportType
    <3>4. \A s \in Side : \E yd, td \in Nat : positions_[s] = NewPosition(yd, td)
      BY <3>1, <3>2, <3>3 DEF InitPositions
    <3>5. \A yd, td \in Nat : Frozen(NewPosition(yd, td)) = 0 /\ Held(NewPosition(yd, td)) \in Nat
      BY DEF NewPosition, Frozen, Held
    <3>6. QED
      BY <3>4, <3>5
  <2>2. QED
    BY <2>1 DEF Ledger!Init
<1>2. ASSUME IInv, [Next]_vars
      PROVE  [Ledger!Next]_(Ledger!vars)
  <2>1. IInv'
    BY <1>2, NextBooks
  <2>2. ASSUME NEW o \in Order, SendOrder(o)
        PROVE  [Ledger!Next]_(Ledger!vars)
    <3>1. PICK flag \in AllowedFlag : Send(o, flag, flag)
      BY <1>2, <2>2, SentAsAsked DEF IInv
    <3>2. QED
      BY <1>2, <2>1, <3>1, SendRefines
  <2>3. ASSUME NEW o \in Order, HandleTradeOrderRep(o)
        PROVE  [Ledger!Next]_(Ledger!vars)
    BY <1>2, <2>1, <2>3, HandleTradeOrderRepRefines
  <2>4. ASSUME NEW o \in Order, NEW match_type \in KnockTypes, NEW n \in 1 .. left[o],
               Knock(o, match_type, n)
        PROVE  [Ledger!Next]_(Ledger!vars)
    BY <1>2, <2>1, <2>4, KnockRefines
  <2>5. CASE positions_' = positions_
    BY <2>5 DEF Ledger!vars, Held, Frozen
  <2>6. QED
    BY <1>2, <2>2, <2>3, <2>4, <2>5 DEF Next, Answer, vars
<1>3. QED
  BY <1>1, <1>2, Books, PTL DEF Spec, ImplementsLedger, Ledger!Spec
================================================================================
