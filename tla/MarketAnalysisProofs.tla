------------------------ MODULE MarketAnalysisProofs ------------------------
(***************************************************************************)
(* Proofs about the analysis, for all candles, pivot wings, risk/rewards   *)
(* and windows, which may slide and change their length: its setups are    *)
(* tradable, its structures are permanent, and they are broken in order.   *)
(***************************************************************************)
EXTENDS MarketAnalysis, WellFoundedInduction, TLAPS

Candle == [high : Int, low : Int, close : Int]

Extremes(type) == [type : {type}, time : Nat \ {0}, index : Int, price : Int]

(* Least and greatest elements.                                             *)
LEMMA MinIsLeast ==
    ASSUME NEW S, S \subseteq Nat, S # {}
    PROVE  Min(S) \in S /\ \A n \in S : Min(S) <= n
<1>1. PICK m \in S : \A n \in S : ~(<<n, m>> \in OpToRel(<, Nat))
  BY NatLessThanWellFounded, WFMin
<1>2. \A n \in S : ~(n < m)
  BY <1>1 DEF OpToRel
<1>3. \A n \in S : m =< n
  BY <1>2
<1> QED
  BY <1>3 DEF Min

LEMMA GreatestExists ==
    ASSUME NEW n \in Nat, NEW S, S \subseteq 0 .. n, S # {}
    PROVE  \E m \in S : \A x \in S : x <= m
<1> DEFINE T == {n - x : x \in S}
<1>1. T \subseteq Nat /\ T # {}
  <2>1. \A x \in S : x \in Int /\ 0 <= x /\ x <= n
    OBVIOUS
  <2>2. \A x \in S : n - x \in Nat
    BY <2>1
  <2> QED
    BY <2>2
<1>2. Min(T) \in T /\ \A y \in T : Min(T) <= y
  BY <1>1, MinIsLeast
<1>3. PICK m \in S : Min(T) = n - m
  BY <1>2
<1>4. \A x \in S : n - m <= n - x
  BY <1>2, <1>3
<1>5. \A x \in S : x <= m
  BY <1>4
<1> QED
  BY <1>5

LEMMA MaxIsGreatest ==
    ASSUME NEW n \in Nat, NEW S, S \subseteq 0 .. n, S # {}
    PROVE  Max(S) \in S /\ \A x \in S : x <= Max(S)
<1>1. PICK m \in S : \A x \in S : x <= m
  BY GreatestExists
<1>2. \A x \in S : m >= x
  BY <1>1
<1>3. Max(S) \in S /\ \A x \in S : Max(S) >= x
  BY <1>2 DEF Max
<1>4. \A x \in S : x <= Max(S)
  BY <1>3
<1> QED
  BY <1>3, <1>4

LEMMA NewestIsNewest ==
    ASSUME NEW n \in Nat, NEW E, \A e \in E : e.time \in 0 .. n, E # {}
    PROVE  Newest(E) \in E /\ \A e \in E : e.time <= Newest(E).time
<1> DEFINE S == {e.time : e \in E}
<1>1. S \subseteq 0 .. n /\ S # {}
  OBVIOUS
<1>2. PICK m \in S : \A x \in S : x <= m
  BY <1>1, GreatestExists
<1>3. PICK f \in E : f.time = m
  BY <1>2
<1>4. \A e \in E : e.time <= f.time
  BY <1>2, <1>3
<1> QED
  BY <1>4 DEF Newest

----------------------------------------------------------------------------
(* The structures of a window *)

LEMMA StructuresTyped ==
    ASSUME NEW candles \in Seq(Candle), NEW n \in Nat
    PROVE  \A e \in Structures(candles, n) :
             /\ e.type \in Types /\ e \in Extremes(e.type)
             /\ e.time \in 0 .. Len(candles)
             /\ e.index = e.time - Before(candles, n) - 1
<1>1. Len(candles) \in Nat /\ Left \in Nat /\ Right \in Nat /\ Before(candles, n) \in Nat
  BY WingsAssumption DEF Before
<1>2. \A time \in Confirmed(candles, n) :
        /\ time \in 1 .. Len(candles)
        /\ candles[time].high \in Int /\ candles[time].low \in Int
  <2> SUFFICES ASSUME NEW time \in Confirmed(candles, n)
               PROVE  /\ time \in 1 .. Len(candles)
                      /\ candles[time].high \in Int /\ candles[time].low \in Int
    OBVIOUS
  <2>1. time \in 1 .. Len(candles)
    BY <1>1, WingsAssumption DEF Confirmed
  <2>2. candles[time] \in Candle
    BY <2>1
  <2> QED
    BY <2>1, <2>2 DEF Candle
<1>3. ASSUME NEW time \in Confirmed(candles, n), NEW type \in Types
      PROVE  LET e == Extreme(candles, n, time, type) IN
             /\ e.type \in Types /\ e \in Extremes(e.type)
             /\ e.time \in 0 .. Len(candles)
             /\ e.index = e.time - Before(candles, n) - 1
  BY <1>1, <1>2 DEF Extreme, Extremes
<1>4. \A e \in Highs(candles, n) :
        \E time \in Confirmed(candles, n), type \in Types : e = Extreme(candles, n, time, type)
  BY DEF Highs, SwingHighs, Types
<1>5. \A e \in Lows(candles, n) :
        \E time \in Confirmed(candles, n), type \in Types : e = Extreme(candles, n, time, type)
  BY DEF Lows, SwingLows, Types
<1> QED
  BY <1>3, <1>4, <1>5 DEF Structures

LEMMA NoneIsNone == \A type \in Types : \A e \in Extremes(type) : e # None /\ e.type = type
BY DEF None, Extremes, Types

(* The state remembers extremes by their type.                              *)
LastTyped == \A t \in Types : last[t] \in Extremes(t) \cup {None}

LEMMA LastAfterTyped ==
    ASSUME NEW candles \in Seq(Candle), NEW n \in Nat, LastTyped
    PROVE  \A t \in Types :
             LET l == LastAfter(Structures(candles, n))[t]
                 seen == Of(Structures(candles, n), t)
             IN /\ l \in Extremes(t) \cup {None}
                /\ seen = {} => l = last[t]
                /\ seen # {} => l \in seen /\ \A e \in seen : e.time <= l.time
<1> SUFFICES ASSUME NEW t \in Types
             PROVE  LET l == LastAfter(Structures(candles, n))[t]
                        seen == Of(Structures(candles, n), t)
                    IN /\ l \in Extremes(t) \cup {None}
                       /\ seen = {} => l = last[t]
                       /\ seen # {} => l \in seen /\ \A e \in seen : e.time <= l.time
  OBVIOUS
<1> DEFINE seen == Of(Structures(candles, n), t)
<1>1. \A e \in seen : e \in Extremes(t) /\ e.time \in 0 .. Len(candles)
  BY StructuresTyped DEF Of
<1>2. LastAfter(Structures(candles, n))[t] = IF seen = {} THEN last[t] ELSE Newest(seen)
  BY DEF LastAfter
<1>3. seen # {} => Newest(seen) \in seen /\ \A e \in seen : e.time <= Newest(seen).time
  BY <1>1, NewestIsNewest
<1> HIDE DEF seen
<1> QED
  BY <1>1, <1>2, <1>3 DEF LastTyped, seen

----------------------------------------------------------------------------
(* One analysis *)

LEMMA ScaledRisk ==
    ASSUME NEW entry \in Int, NEW stop \in Int
    PROVE  /\ stop < entry => entry < entry + (entry - stop) * RiskReward
           /\ stop > entry => entry + (entry - stop) * RiskReward < entry
<1>1. \A a \in Int, b \in Int : a > 0 /\ b > 0 => a * b > 0
  OBVIOUS
<1>2. \A a \in Int, b \in Int : a < 0 /\ b > 0 => a * b < 0
  OBVIOUS
<1>3. RiskReward \in Int /\ RiskReward > 0
  BY RiskRewardAssumption
<1>4. stop < entry => (entry - stop) * RiskReward > 0
  BY <1>1, <1>3
<1>5. stop > entry => (entry - stop) * RiskReward < 0
  BY <1>2, <1>3
<1>6. (entry - stop) * RiskReward \in Int
  BY <1>3
<1> QED
  BY <1>4, <1>5, <1>6

(* The event of an analysis is an extreme that is now remembered and that   *)
(* the last close has broken.                                               *)
LEMMA EventFacts ==
    ASSUME LastTyped, NEW candles \in Seq(Candle), NEW n \in Depths, Analyse(candles, n)
    PROVE  /\ LastTyped'
           /\ \A e \in {bos', choch'} \ {None} :
                /\ e.type \in Types /\ e = last'[e.type]
                /\ Broken(e, candles[Len(candles)].close)
                /\ e.type \in IF e = bos' THEN {"HH", "LL"} ELSE {"HL", "LH"}
           /\ Event' \in {bos', choch'}
           /\ setup' = SetupFrom(Event', last', Len(candles))
<1> DEFINE close == candles[Len(candles)].close
<1>1. LastTyped'
  <2>1. n \in Nat
    BY DepthsAssumption
  <2>2. last' = LastAfter(Structures(candles, n))
    BY DEF Analyse
  <2> QED
    BY <2>1, <2>2, LastAfterTyped DEF LastTyped
<1>2. /\ bos' = BrokenOf(last'["HH"], last'["LL"], close)
      /\ choch' = BrokenOf(last'["HL"], last'["LH"], close)
      /\ setup' = SetupFrom(Event', last', Len(candles))
  BY DEF Analyse
<1>3. Event' \in {bos', choch'}
  BY DEF Event, LatestEvent
<1>4. \A t \in Types : last'[t] # None => last'[t].type = t
  BY <1>1, NoneIsNone DEF LastTyped
<1>5. \A a, b : BrokenOf(a, b, close) # None =>
         BrokenOf(a, b, close) \in {a, b} /\ Broken(BrokenOf(a, b, close), close)
  BY DEF BrokenOf
<1>6. bos' # None => \E t \in {"HH", "LL"} : bos' = last'[t] /\ Broken(bos', close)
  BY <1>2, <1>5
<1>7. choch' # None => \E t \in {"HL", "LH"} : choch' = last'[t] /\ Broken(choch', close)
  BY <1>2, <1>5
<1>8. bos' # None => bos'.type \in {"HH", "LL"} /\ bos' = last'[bos'.type] /\ Broken(bos', close)
  BY <1>4, <1>6 DEF Types
<1>9. choch' # None => choch'.type \in {"HL", "LH"} /\ choch' = last'[choch'.type]
                        /\ Broken(choch', close)
  BY <1>4, <1>7 DEF Types
<1> QED
  BY <1>1, <1>2, <1>3, <1>8, <1>9 DEF Types

LEMMA SetupFacts ==
    ASSUME LastTyped, NEW candles \in Seq(Candle), candles # <<>>, NEW n \in Depths,
           Analyse(candles, n), market' = candles
    PROVE  SetupsAreTradable'
<1> DEFINE close == candles[Len(candles)].close
           e == Event'
           decision == IF Direction(e) = "BULLISH" THEN "BUY" ELSE "SELL"
           stop == last'[IF decision = "BUY" THEN "HL" ELSE "LH"]
<1> SUFFICES ASSUME setup' # None
             PROVE  IF setup'.type = "BUY"
                    THEN setup'.stop < setup'.entry /\ setup'.entry < setup'.target
                         /\ setup'.entry < close
                    ELSE setup'.target < setup'.entry /\ setup'.entry < setup'.stop
                         /\ close < setup'.entry
  BY DEF SetupsAreTradable
<1>1. /\ e # None /\ stop # None /\ StopBehind(decision, e.price, stop.price)
      /\ setup' = Request(decision, e.price, stop.price, Len(candles))
  BY EventFacts DEF SetupFrom
<1>2. e.type \in Types /\ e = last'[e.type] /\ Broken(e, close)
  BY <1>1, EventFacts
<1>3. e.price \in Int /\ stop.price \in Int
  <2>1. LastTyped'
    BY EventFacts
  <2>2. e \in Extremes(e.type) /\ stop \in Extremes("HL") \cup Extremes("LH")
    BY <1>1, <1>2, <2>1 DEF LastTyped, Types
  <2> HIDE DEF e, stop
  <2> QED
    BY <2>2 DEF Extremes
<1>4. /\ setup'.type = decision /\ setup'.entry = e.price /\ setup'.stop = stop.price
      /\ setup'.target = e.price + (e.price - stop.price) * RiskReward
  BY <1>1 DEF Request
<1>5. CASE decision = "BUY"
  <2>1. e.price < close /\ stop.price < e.price
    <3>1. Direction(e) = "BULLISH"
      BY <1>5
    <3>2. close > e.price
      BY <1>2, <3>1 DEF Broken
    <3>3. candles[Len(candles)] \in Candle
      OBVIOUS
    <3> HIDE DEF e, stop
    <3> QED
      BY <1>1, <1>3, <1>5, <3>2, <3>3 DEF StopBehind, Candle
  <2> HIDE DEF e, stop, decision
  <2> QED
    BY <1>3, <1>4, <1>5, <2>1, ScaledRisk
<1>6. CASE decision = "SELL"
  <2>1. close < e.price /\ stop.price > e.price
    <3>1. Direction(e) # "BULLISH"
      BY <1>6
    <3>2. close < e.price
      BY <1>2, <3>1 DEF Broken
    <3> HIDE DEF e, stop
    <3> QED
      BY <1>1, <1>6, <3>2 DEF StopBehind
  <2>2. e.price < stop.price
    <3> HIDE DEF e, stop
    <3> QED
      BY <1>3, <2>1
  <2> HIDE DEF e, stop, decision
  <2> QED
    BY <1>3, <1>4, <1>6, <2>1, <2>2, ScaledRisk
<1> QED
  BY <1>5, <1>6

MarketOK == market \in Seq(Candle) /\ Len(market) <= MaxCandle

TradableInv == MarketOK /\ LastTyped /\ SetupsAreTradable

(* Every step analyses the market it leaves, or leaves the state alone.     *)
LEMMA AnalysisSteps ==
    ASSUME MarketOK, [Next]_vars
    PROVE  /\ MarketOK'
           /\ \/ \E shape \in Shapes, n \in Depths : AnalyseCandle(shape, n)
              \/ \E n \in Depths : AnalyseAgain(n)
              \/ \E shape \in Shapes : SkipCandle(shape)
              \/ UNCHANGED vars
<1>1. ASSUME NEW shape \in Shapes PROVE Append(market, shape) \in Seq(Candle)
                                       /\ Len(Append(market, shape)) = Len(market) + 1
                                       /\ Len(market) \in Nat
  BY ShapesAssumption DEF MarketOK, Candle
<1>2. ASSUME NEW shape \in Shapes, NEW n \in Depths, AnalyseCandle(shape, n) PROVE MarketOK'
  BY <1>1, <1>2, MaxCandleAssumption DEF AnalyseCandle, MarketOK
<1>3. ASSUME NEW n \in Depths, AnalyseAgain(n) PROVE MarketOK'
  BY <1>3 DEF AnalyseAgain, MarketOK
<1>4. ASSUME NEW shape \in Shapes, SkipCandle(shape) PROVE MarketOK'
  BY <1>1, <1>4, MaxCandleAssumption DEF SkipCandle, MarketOK
<1>5. CASE UNCHANGED vars
  BY <1>5 DEF vars, MarketOK
<1> QED
  BY <1>2, <1>3, <1>4, <1>5 DEF Next, Analysis

LEMMA TradableKept == TradableInv /\ [Next]_vars => TradableInv'
<1> SUFFICES ASSUME TradableInv, [Next]_vars PROVE TradableInv'
  OBVIOUS
<1> USE DEF TradableInv
<1>1. MarketOK'
  BY AnalysisSteps
<1>2. ASSUME NEW shape \in Shapes, NEW n \in Depths, AnalyseCandle(shape, n) PROVE TradableInv'
  <2>1. Analyse(market', n) /\ market' \in Seq(Candle) /\ market' # <<>>
    BY <1>1, <1>2 DEF AnalyseCandle, MarketOK
  <2> QED
    BY <1>1, <2>1, EventFacts, SetupFacts
<1>3. ASSUME NEW n \in Depths, AnalyseAgain(n) PROVE TradableInv'
  <2>1. Analyse(market', n) /\ market' \in Seq(Candle) /\ market' # <<>>
    BY <1>1, <1>3 DEF AnalyseAgain, MarketOK
  <2> QED
    BY <1>1, <2>1, EventFacts, SetupFacts
<1>4. ASSUME NEW shape \in Shapes, SkipCandle(shape) PROVE TradableInv'
  BY <1>1, <1>4 DEF SkipCandle, stateVars, LastTyped, SetupsAreTradable
<1>5. CASE UNCHANGED vars
  BY <1>1, <1>5 DEF vars, stateVars, LastTyped, SetupsAreTradable
<1> QED
  BY <1>2, <1>3, <1>4, <1>5, AnalysisSteps

LEMMA TradableInvariant == Spec => []TradableInv
<1>1. Init => TradableInv
  BY MaxCandleAssumption DEF Init, TradableInv, MarketOK, LastTyped, SetupsAreTradable
<1> QED
  BY <1>1, TradableKept, PTL DEF Spec

(* A request can rest as a limit order and be protected, whatever the       *)
(* candles, the depths of the analyses and the risk/reward: the broker      *)
(* never has a reason to reject it (SetupEngine and RiskManager).           *)
THEOREM TradableSetups == Spec => []SetupsAreTradable
<1>1. TradableInv => SetupsAreTradable
  BY DEF TradableInv
<1> QED
  BY <1>1, TradableInvariant, PTL

----------------------------------------------------------------------------
(* The structures of all the candles: a window shows those of them whose    *)
(* swing and the swing before it are confirmed within the window.           *)
All(candles) == Structures(candles, Len(candles))

LEMMA WholeWindow ==
    ASSUME NEW candles \in Seq(Candle)
    PROVE  /\ Before(candles, Len(candles)) = 0
           /\ Confirmed(candles, Len(candles)) = Left + 1 .. Len(candles) - Right
<1>1. Before(candles, Len(candles)) = 0
  BY DEF Before
<1> QED
  BY <1>1, WingsAssumption DEF Confirmed

LEMMA HighsAndLows ==
    ASSUME NEW candles \in Seq(Candle), NEW n \in Nat
    PROVE  /\ \A e \in Highs(candles, n) : Kind(e) = "high" /\ e \in Structures(candles, n)
           /\ \A e \in Lows(candles, n) : Kind(e) = "low" /\ e \in Structures(candles, n)
           /\ \A e \in Structures(candles, n) :
                e \in IF Kind(e) = "high" THEN Highs(candles, n) ELSE Lows(candles, n)
<1>1. \A e \in Highs(candles, n) : e.type \in {"HH", "LH"}
  BY DEF Highs, Extreme
<1>2. \A e \in Lows(candles, n) : e.type \in {"HL", "LL"}
  BY DEF Lows, Extreme
<1> QED
  BY <1>1, <1>2 DEF Structures, Kind

(* An extreme of the whole history is known by its swing.                   *)
LEMMA KnownByTime ==
    ASSUME NEW candles \in Seq(Candle), NEW d \in All(candles), NEW e \in All(candles),
           SameSwing(d, e)
    PROVE  d = e
<1>1. Len(candles) \in Nat
  OBVIOUS
<1>2. CASE Kind(d) = "high"
  <2>1. d \in Highs(candles, Len(candles)) /\ e \in Highs(candles, Len(candles)) /\ d.time = e.time
    BY <1>1, <1>2, HighsAndLows DEF All, SameSwing
  <2> QED
    BY <2>1 DEF Highs, Extreme
<1>3. CASE Kind(d) # "high"
  <2>1. d \in Lows(candles, Len(candles)) /\ e \in Lows(candles, Len(candles)) /\ d.time = e.time
    BY <1>1, <1>3, HighsAndLows DEF All, SameSwing
  <2> QED
    BY <2>1 DEF Lows, Extreme
<1> QED
  BY <1>2, <1>3

(* Dropping old swings changes none that has another before it.             *)
LEMMA LaterSwings ==
    ASSUME NEW S, NEW S1, S1 \subseteq Nat, NEW k \in Nat,
           \A x : x \in S <=> x \in S1 /\ x > k,
           NEW t \in S, t # Min(S)
    PROVE  t # Min(S1) /\ ComparedWith(S, t) = ComparedWith(S1, t)
<1> DEFINE A == {x \in S : x < t}
           A1 == {x \in S1 : x < t}
<1>1. S \subseteq S1 /\ S \subseteq Nat /\ S # {} /\ S1 # {} /\ t \in Nat /\ t \in S1
  OBVIOUS
<1>2. Min(S) \in S /\ Min(S) <= t /\ Min(S) \in Nat
  BY <1>1, MinIsLeast
<1>3. Min(S) \in A /\ A \subseteq A1
  BY <1>1, <1>2
<1>4. A \subseteq 0 .. t /\ A1 \subseteq 0 .. t
  <2>1. \A x \in Nat : x < t => x \in 0 .. t
    BY <1>1
  <2>2. \A x \in S1 : x < t => x \in 0 .. t
    BY <2>1
  <2> QED
    BY <1>3, <2>2
<1>5. /\ Max(A) \in A /\ \A x \in A : x <= Max(A)
      /\ Max(A1) \in A1 /\ \A x \in A1 : x <= Max(A1)
  BY <1>1, <1>3, <1>4, MaxIsGreatest
<1>6. Max(A1) \in A
  <2>1. Max(A1) \in S1 /\ Max(A1) \in Nat /\ Max(A1) < t /\ Min(S) <= Max(A1) /\ Min(S) > k
    BY <1>1, <1>2, <1>3, <1>5
  <2>2. Max(A1) > k
    BY <1>2, <2>1
  <2> QED
    BY <2>1, <2>2
<1>7. Max(A) = Max(A1)
  <2>1. Max(A) <= Max(A1) /\ Max(A1) <= Max(A) /\ Max(A) \in Nat /\ Max(A1) \in Nat
    BY <1>1, <1>3, <1>5, <1>6
  <2> QED
    BY <2>1
<1>8. t # Min(S1)
  <2>1. Min(S1) <= Min(S) /\ Min(S1) \in Nat
    BY <1>1, <1>2, MinIsLeast
  <2>2. Min(S) < t
    BY <1>1, <1>2
  <2> QED
    BY <1>1, <1>2, <2>1, <2>2
<1> QED
  BY <1>7, <1>8 DEF ComparedWith

LEMMA WindowSwings ==
    ASSUME NEW candles \in Seq(Candle), NEW n \in Nat
    PROVE  LET N == Len(candles)
               k == Before(candles, n) + Left
           IN /\ N \in Nat /\ k \in Nat
              /\ SwingHighs(candles, N) \subseteq Nat /\ SwingLows(candles, N) \subseteq Nat
              /\ \A x : x \in SwingHighs(candles, n) <=> x \in SwingHighs(candles, N) /\ x > k
              /\ \A x : x \in SwingLows(candles, n) <=> x \in SwingLows(candles, N) /\ x > k
<1> DEFINE N == Len(candles)
           k == Before(candles, n) + Left
<1>1. N \in Nat /\ Before(candles, n) \in Nat /\ Left \in Nat \ {0} /\ Right \in Nat \ {0}
  BY WingsAssumption DEF Before
<1>2. k \in Nat /\ k >= Left
  BY <1>1
<1>3. Confirmed(candles, N) = Left + 1 .. N - Right
  BY WholeWindow
<1>4. Confirmed(candles, n) = k + 1 .. N - Right
  BY DEF Confirmed
<1> HIDE DEF N, k
<1>5. Confirmed(candles, N) \subseteq Nat
  BY <1>1, <1>3
<1>6. \A x : x \in Confirmed(candles, n) <=> x \in Confirmed(candles, N) /\ x > k
  BY <1>1, <1>2, <1>3, <1>4
<1> QED
  BY <1>1, <1>2, <1>5, <1>6 DEF SwingHighs, SwingLows, N, k

(* Every structure of a window is one of all the candles, but for its       *)
(* index; and one of all the candles is in every window that shows an       *)
(* earlier structure of its kind.                                           *)
LEMMA WindowOfHighs ==
    ASSUME NEW candles \in Seq(Candle), NEW n \in Nat
    PROVE  /\ \A d \in Highs(candles, n) :
                \E a \in Highs(candles, Len(candles)) : SameExtreme(d, a)
           /\ \A a \in Highs(candles, Len(candles)), e \in Highs(candles, n) :
                e.time < a.time => \E f \in Highs(candles, n) : SameExtreme(a, f)
<1> DEFINE N == Len(candles)
           k == Before(candles, n) + Left
           S == SwingHighs(candles, n)
           S1 == SwingHighs(candles, N)
           Type(s, t) == IF candles[t].high > candles[ComparedWith(s, t)].high THEN "HH" ELSE "LH"
<1>1. /\ k \in Nat /\ S1 \subseteq Nat
      /\ \A x : x \in S <=> x \in S1 /\ x > k
  BY WindowSwings
<1>2. /\ \A d : d \in Highs(candles, n) <=>
               \E t \in S : t # Min(S) /\ d = Extreme(candles, n, t, Type(S, t))
      /\ \A d : d \in Highs(candles, N) <=>
               \E t \in S1 : t # Min(S1) /\ d = Extreme(candles, N, t, Type(S1, t))
  BY DEF Highs
<1> HIDE DEF N, k, S, S1
<1>3. ASSUME NEW t \in S, t # Min(S)
      PROVE  t \in S1 /\ t # Min(S1) /\ Type(S, t) = Type(S1, t)
  <2>1. t # Min(S1) /\ ComparedWith(S, t) = ComparedWith(S1, t)
    BY <1>1, <1>3, LaterSwings
  <2> QED
    BY <1>1, <2>1
<1>4. \A t, type : /\ SameExtreme(Extreme(candles, n, t, type), Extreme(candles, N, t, type))
                   /\ SameExtreme(Extreme(candles, N, t, type), Extreme(candles, n, t, type))
                   /\ Extreme(candles, n, t, type).time = t
                   /\ Extreme(candles, N, t, type).time = t
  BY DEF Extreme, SameExtreme
<1> HIDE DEF Type
<1>5. \A d \in Highs(candles, n) : \E a \in Highs(candles, N) : SameExtreme(d, a)
  BY <1>2, <1>3, <1>4
<1>6. ASSUME NEW a \in Highs(candles, N), NEW e \in Highs(candles, n), e.time < a.time
      PROVE  \E f \in Highs(candles, n) : SameExtreme(a, f)
  <2>1. PICK t \in S1 : a = Extreme(candles, N, t, Type(S1, t))
    BY <1>2
  <2>2. PICK s \in S : e = Extreme(candles, n, s, Type(S, s))
    BY <1>2
  <2>3. s < t
    BY <1>4, <1>6, <2>1, <2>2
  <2>4. S \subseteq Nat /\ S1 \subseteq Nat
    BY <1>1
  <2>5. t \in S
    BY <1>1, <2>3, <2>4
  <2>6. t # Min(S)
    <3>1. Min(S) <= s /\ Min(S) \in Nat
      BY <2>4, MinIsLeast
    <3> QED
      BY <2>3, <2>4, <3>1
  <2>7. Extreme(candles, n, t, Type(S, t)) \in Highs(candles, n) /\ Type(S, t) = Type(S1, t)
    BY <1>2, <1>3, <2>5, <2>6
  <2> QED
    BY <1>4, <2>1, <2>7
<1> QED
  BY <1>5, <1>6 DEF N

LEMMA WindowOfLows ==
    ASSUME NEW candles \in Seq(Candle), NEW n \in Nat
    PROVE  /\ \A d \in Lows(candles, n) :
                \E a \in Lows(candles, Len(candles)) : SameExtreme(d, a)
           /\ \A a \in Lows(candles, Len(candles)), e \in Lows(candles, n) :
                e.time < a.time => \E f \in Lows(candles, n) : SameExtreme(a, f)
<1> DEFINE N == Len(candles)
           k == Before(candles, n) + Left
           S == SwingLows(candles, n)
           S1 == SwingLows(candles, N)
           Type(s, t) == IF candles[t].low > candles[ComparedWith(s, t)].low THEN "HL" ELSE "LL"
<1>1. /\ k \in Nat /\ S1 \subseteq Nat
      /\ \A x : x \in S <=> x \in S1 /\ x > k
  BY WindowSwings
<1>2. /\ \A d : d \in Lows(candles, n) <=>
               \E t \in S : t # Min(S) /\ d = Extreme(candles, n, t, Type(S, t))
      /\ \A d : d \in Lows(candles, N) <=>
               \E t \in S1 : t # Min(S1) /\ d = Extreme(candles, N, t, Type(S1, t))
  BY DEF Lows
<1> HIDE DEF N, k, S, S1
<1>3. ASSUME NEW t \in S, t # Min(S)
      PROVE  t \in S1 /\ t # Min(S1) /\ Type(S, t) = Type(S1, t)
  <2>1. t # Min(S1) /\ ComparedWith(S, t) = ComparedWith(S1, t)
    BY <1>1, <1>3, LaterSwings
  <2> QED
    BY <1>1, <2>1
<1>4. \A t, type : /\ SameExtreme(Extreme(candles, n, t, type), Extreme(candles, N, t, type))
                   /\ SameExtreme(Extreme(candles, N, t, type), Extreme(candles, n, t, type))
                   /\ Extreme(candles, n, t, type).time = t
                   /\ Extreme(candles, N, t, type).time = t
  BY DEF Extreme, SameExtreme
<1> HIDE DEF Type
<1>5. \A d \in Lows(candles, n) : \E a \in Lows(candles, N) : SameExtreme(d, a)
  BY <1>2, <1>3, <1>4
<1>6. ASSUME NEW a \in Lows(candles, N), NEW e \in Lows(candles, n), e.time < a.time
      PROVE  \E f \in Lows(candles, n) : SameExtreme(a, f)
  <2>1. PICK t \in S1 : a = Extreme(candles, N, t, Type(S1, t))
    BY <1>2
  <2>2. PICK s \in S : e = Extreme(candles, n, s, Type(S, s))
    BY <1>2
  <2>3. s < t
    BY <1>4, <1>6, <2>1, <2>2
  <2>4. S \subseteq Nat /\ S1 \subseteq Nat
    BY <1>1
  <2>5. t \in S
    BY <1>1, <2>3, <2>4
  <2>6. t # Min(S)
    <3>1. Min(S) <= s /\ Min(S) \in Nat
      BY <2>4, MinIsLeast
    <3> QED
      BY <2>3, <2>4, <3>1
  <2>7. Extreme(candles, n, t, Type(S, t)) \in Lows(candles, n) /\ Type(S, t) = Type(S1, t)
    BY <1>2, <1>3, <2>5, <2>6
  <2> QED
    BY <1>4, <2>1, <2>7
<1> QED
  BY <1>5, <1>6 DEF N

LEMMA WindowStructures ==
    ASSUME NEW candles \in Seq(Candle), NEW n \in Nat
    PROVE  /\ \A d \in Structures(candles, n) : \E a \in All(candles) : SameExtreme(d, a)
           /\ \A a \in All(candles), e \in Structures(candles, n) :
                Kind(a) = Kind(e) /\ e.time < a.time
                  => \E f \in Structures(candles, n) : SameExtreme(a, f)
<1>1. Len(candles) \in Nat
  OBVIOUS
<1>2. \A d \in Structures(candles, n) : \E a \in All(candles) : SameExtreme(d, a)
  BY <1>1, HighsAndLows, WindowOfHighs, WindowOfLows DEF All
<1>3. ASSUME NEW a \in All(candles), NEW e \in Structures(candles, n),
             Kind(a) = Kind(e), e.time < a.time
      PROVE  \E f \in Structures(candles, n) : SameExtreme(a, f)
  BY <1>1, <1>3, HighsAndLows, WindowOfHighs, WindowOfLows DEF All
<1> QED
  BY <1>2, <1>3

(* Later swings change neither the first one nor those before a swing.      *)
LEMMA EarlierSwings ==
    ASSUME NEW S, NEW S1, S1 \subseteq Nat, NEW k \in Nat,
           \A x : x \in S <=> x \in S1 /\ x <= k,
           NEW t \in S, t # Min(S)
    PROVE  /\ t # Min(S1)
           /\ ComparedWith(S, t) = ComparedWith(S1, t)
           /\ ComparedWith(S, t) \in S
<1>1. S \subseteq Nat /\ S # {} /\ S1 # {} /\ t \in Nat
  OBVIOUS
<1>2. Min(S) \in S /\ (\A x \in S : Min(S) <= x) /\ Min(S1) \in S1 /\ (\A x \in S1 : Min(S1) <= x)
  BY <1>1, MinIsLeast
<1>3. t # Min(S1)
  <2> SUFFICES ASSUME t = Min(S1) PROVE FALSE
    OBVIOUS
  <2>1. \A x \in S : t <= x
    BY <1>2
  <2>2. t <= Min(S) /\ Min(S) <= t /\ Min(S) \in Nat
    BY <1>1, <1>2, <2>1
  <2> QED
    BY <1>1, <2>2
<1>4. {x \in S : x < t} = {x \in S1 : x < t}
  <2>1. \A x \in S1 : x < t => x <= k
    BY <1>1
  <2> QED
    BY <2>1
<1>5. Max({x \in S : x < t}) \in {x \in S : x < t}
  <2>1. Min(S) \in {x \in S : x < t}
    <3>1. Min(S) <= t /\ Min(S) # t /\ Min(S) \in Nat
      BY <1>1, <1>2
    <3>2. Min(S) < t
      BY <1>1, <3>1
    <3> QED
      BY <1>2, <3>2
  <2>2. {x \in S : x < t} \subseteq 0 .. t
    <3>1. \A x \in S : x \in Nat
      BY <1>1
    <3>2. \A x \in Nat : x < t => x \in 0 .. t
      BY <1>1
    <3> QED
      BY <3>1, <3>2
  <2> QED
    BY <1>1, <2>1, <2>2, MaxIsGreatest
<1> QED
  BY <1>3, <1>4, <1>5 DEF ComparedWith

LEMMA SwingsKept ==
    ASSUME NEW candles \in Seq(Candle), NEW shape \in Candle,
           NEW wider, wider = Append(candles, shape)
    PROVE  LET n == Len(candles) IN
           /\ wider \in Seq(Candle) /\ Len(wider) = n + 1 /\ n \in Nat
           /\ \A i \in 1 .. n : wider[i] = candles[i]
           /\ SwingHighs(candles, n) = {x \in SwingHighs(wider, n + 1) : x <= n - Right}
           /\ SwingLows(candles, n) = {x \in SwingLows(wider, n + 1) : x <= n - Right}
           /\ SwingHighs(wider, n + 1) \subseteq Nat /\ SwingLows(wider, n + 1) \subseteq Nat
           /\ SwingHighs(candles, n) \subseteq 1 .. n - Right
           /\ SwingLows(candles, n) \subseteq 1 .. n - Right
<1> DEFINE n == Len(candles)
<1>1. wider \in Seq(Candle) /\ Len(wider) = n + 1 /\ n \in Nat
      /\ \A i \in 1 .. n : wider[i] = candles[i]
  OBVIOUS
<1>2. Left \in Nat \ {0} /\ Right \in Nat \ {0}
  BY WingsAssumption
<1>3. Confirmed(candles, n) = Left + 1 .. n - Right
      /\ Confirmed(wider, n + 1) = Left + 1 .. n + 1 - Right
  <2>2. Confirmed(candles, n) = Left + 1 .. n - Right
    BY WholeWindow
  <2>3. Confirmed(wider, n + 1) = Left + 1 .. Len(wider) - Right
    BY <1>1, WholeWindow
  <2>4. Len(wider) - Right = n + 1 - Right
    <3>1. Len(wider) = n + 1 /\ n \in Nat
      BY <1>1
    <3> HIDE DEF n
    <3> QED
      BY <1>2, <3>1
  <2> QED
    BY <2>2, <2>3, <2>4
<1>4. DOMAIN candles = 1 .. n /\ DOMAIN wider = 1 .. n + 1
  BY <1>1
<1> HIDE DEF n
<1>5. Confirmed(candles, n) = {x \in Confirmed(wider, n + 1) : x <= n - Right}
  BY <1>1, <1>2, <1>3
<1>6. ASSUME NEW time \in Confirmed(candles, n)
      PROVE  /\ time \in 1 .. n
             /\ Neighbours(candles, time) = Neighbours(wider, time)
             /\ Neighbours(candles, time) \subseteq 1 .. n
  <2>1. time \in Int /\ time + Right <= n /\ 1 <= time /\ time <= n
    BY <1>1, <1>2, <1>3
  <2>2. \A x \in time - Left .. time + Right : x \in 1 .. n <=> x \in 1 .. n + 1
    BY <1>1, <1>2, <2>1
  <2> QED
    BY <1>1, <1>4, <2>1, <2>2 DEF Neighbours
<1>7. ASSUME NEW time \in Confirmed(candles, n)
      PROVE  /\ time \in SwingHighs(candles, n) <=> time \in SwingHighs(wider, n + 1)
             /\ time \in SwingLows(candles, n) <=> time \in SwingLows(wider, n + 1)
  <2>1. time \in Confirmed(wider, n + 1)
    BY <1>5
  <2>2. wider[time] = candles[time]
        /\ \A other \in Neighbours(candles, time) : wider[other] = candles[other]
    BY <1>1, <1>6 DEF n
  <2> QED
    BY <1>6, <2>1, <2>2 DEF SwingHighs, SwingLows
<1>8. SwingHighs(candles, n) \subseteq Confirmed(candles, n)
      /\ SwingLows(candles, n) \subseteq Confirmed(candles, n)
      /\ SwingHighs(wider, n + 1) \subseteq Confirmed(wider, n + 1)
      /\ SwingLows(wider, n + 1) \subseteq Confirmed(wider, n + 1)
  BY DEF SwingHighs, SwingLows
<1>9. SwingHighs(candles, n) = {x \in SwingHighs(wider, n + 1) : x <= n - Right}
      /\ SwingLows(candles, n) = {x \in SwingLows(wider, n + 1) : x <= n - Right}
  BY <1>5, <1>7, <1>8
<1>10. Confirmed(wider, n + 1) \subseteq Nat /\ Confirmed(candles, n) \subseteq 1 .. n - Right
  BY <1>1, <1>2, <1>3
<1> QED
  BY <1>1, <1>8, <1>9, <1>10 DEF n

(* Nothing that a later candle shows withdraws or changes an extreme.       *)
LEMMA StructuresKept ==
    ASSUME NEW candles \in Seq(Candle), NEW shape \in Candle
    PROVE  All(candles) \subseteq All(Append(candles, shape))
<1> DEFINE wider == Append(candles, shape)
           n == Len(candles)
<1>1. /\ wider \in Seq(Candle) /\ Len(wider) = n + 1 /\ n \in Nat
      /\ \A i \in 1 .. n : wider[i] = candles[i]
      /\ SwingHighs(candles, n) = {x \in SwingHighs(wider, n + 1) : x <= n - Right}
      /\ SwingLows(candles, n) = {x \in SwingLows(wider, n + 1) : x <= n - Right}
      /\ SwingHighs(wider, n + 1) \subseteq Nat /\ SwingLows(wider, n + 1) \subseteq Nat
      /\ SwingHighs(candles, n) \subseteq 1 .. n - Right
      /\ SwingLows(candles, n) \subseteq 1 .. n - Right
  BY SwingsKept
<1>2. Before(candles, n) = 0 /\ Before(wider, n + 1) = 0 /\ Right \in Nat \ {0}
  BY <1>1, WingsAssumption DEF Before
<1> HIDE DEF wider, n
<1>3. ASSUME NEW time \in 1 .. n, NEW type
      PROVE  Extreme(candles, n, time, type) = Extreme(wider, n + 1, time, type)
  BY <1>1, <1>2 DEF Extreme
<1>4. ASSUME NEW S, NEW S1, S1 \subseteq Nat, \A x : x \in S <=> x \in S1 /\ x <= n - Right,
             S \subseteq 1 .. n - Right, NEW t \in S, t # Min(S)
      PROVE  /\ t \in S1 /\ t # Min(S1) /\ t \in 1 .. n
             /\ ComparedWith(S, t) = ComparedWith(S1, t)
             /\ ComparedWith(S, t) \in 1 .. n
  <2>1. t \in 1 .. n - Right /\ n - Right \in Nat /\ S \subseteq 1 .. n
    BY <1>1, <1>2, <1>4
  <2>2. /\ t # Min(S1)
        /\ ComparedWith(S, t) = ComparedWith(S1, t)
        /\ ComparedWith(S, t) \in S
    <3> HIDE DEF n
    <3> DEFINE k == n - Right
    <3>1. k \in Nat /\ \A x : x \in S <=> x \in S1 /\ x <= k
      BY <1>4, <2>1
    <3> HIDE DEF k
    <3> QED
      BY <1>4, <3>1, EarlierSwings
  <2> QED
    BY <1>4, <2>1, <2>2
<1>5. Highs(candles, n) \subseteq Highs(wider, n + 1)
  <2> DEFINE S == SwingHighs(candles, n)
             S1 == SwingHighs(wider, n + 1)
             T(c, s, t) == IF c[t].high > c[ComparedWith(s, t)].high THEN "HH" ELSE "LH"
  <2>2. /\ S1 \subseteq Nat /\ (\A x : x \in S <=> x \in S1 /\ x <= n - Right)
        /\ S \subseteq 1 .. n - Right
    BY <1>1
  <2>1. ASSUME NEW t \in S, t # Min(S)
        PROVE  /\ t \in S1 /\ t # Min(S1)
               /\ Extreme(candles, n, t, T(candles, S, t)) = Extreme(wider, n + 1, t, T(wider, S1, t))
    <3>1. /\ t \in S1 /\ t # Min(S1) /\ t \in 1 .. n
          /\ ComparedWith(S, t) = ComparedWith(S1, t) /\ ComparedWith(S, t) \in 1 .. n
      <4> HIDE DEF S, S1
      <4> QED
        BY <1>4, <2>1, <2>2
    <3>2. T(candles, S, t) = T(wider, S1, t)
      BY <1>1, <3>1
    <3> QED
      BY <1>3, <3>1, <3>2
  <2> QED
    BY <2>1 DEF Highs
<1>6. Lows(candles, n) \subseteq Lows(wider, n + 1)
  <2> DEFINE S == SwingLows(candles, n)
             S1 == SwingLows(wider, n + 1)
             T(c, s, t) == IF c[t].low > c[ComparedWith(s, t)].low THEN "HL" ELSE "LL"
  <2>2. /\ S1 \subseteq Nat /\ (\A x : x \in S <=> x \in S1 /\ x <= n - Right)
        /\ S \subseteq 1 .. n - Right
    BY <1>1
  <2>1. ASSUME NEW t \in S, t # Min(S)
        PROVE  /\ t \in S1 /\ t # Min(S1)
               /\ Extreme(candles, n, t, T(candles, S, t)) = Extreme(wider, n + 1, t, T(wider, S1, t))
    <3>1. /\ t \in S1 /\ t # Min(S1) /\ t \in 1 .. n
          /\ ComparedWith(S, t) = ComparedWith(S1, t) /\ ComparedWith(S, t) \in 1 .. n
      <4> HIDE DEF S, S1
      <4> QED
        BY <1>4, <2>1, <2>2
    <3>2. T(candles, S, t) = T(wider, S1, t)
      BY <1>1, <3>1
    <3> QED
      BY <1>3, <3>1, <3>2
  <2> QED
    BY <2>1 DEF Lows
<1>7. All(candles) = Highs(candles, n) \cup Lows(candles, n)
      /\ All(wider) = Highs(wider, n + 1) \cup Lows(wider, n + 1)
  BY <1>1 DEF All, Structures, n
<1> QED
  BY <1>5, <1>6, <1>7 DEF wider

----------------------------------------------------------------------------
(* What the state remembers of the candles *)

Classified(e, candles) == \E a \in All(candles) : SameExtreme(e, a)

(* Every extreme remembered is still one of the structures of all candles;  *)
(* the last one broken of a type is no later than the last one of that type.*)
HeldOK == \A t \in Types : last[t] # None => Classified(last[t], market)

BrokenOK ==
    \A t \in Types : broken[t] # None =>
        /\ broken[t] \in Extremes(t) /\ Classified(broken[t], market)
        /\ last[t] # None /\ broken[t].time <= last[t].time

(* An extreme that was ever broken is no later than the last one broken of  *)
(* its type, which is why remembering that one alone is enough.             *)
FiredOK ==
    \A t \in Types : \A time \in Nat :
        <<t, time>> \in fired => broken[t] # None /\ time <= broken[t].time

HistoryInv == MarketOK /\ LastTyped /\ HeldOK /\ BrokenOK /\ FiredOK

LEMMA SameExtremes ==
    ASSUME NEW t \in Types, NEW e \in Extremes(t), NEW a, SameExtreme(e, a)
    PROVE  a.type = t /\ a.time = e.time /\ a.price = e.price /\ e.time \in Nat /\ Kind(a) = Kind(e)
BY DEF SameExtreme, Extremes, Kind

(* The last extreme of a type only gets later, whatever the window.         *)
LEMMA LastGetsLater ==
    ASSUME HistoryInv, NEW candles \in Seq(Candle), All(market) \subseteq All(candles),
           NEW n \in Depths, Analyse(candles, n), NEW t \in Types
    PROVE  /\ last'[t] # None => Classified(last'[t], candles)
           /\ last[t] # None => last'[t] # None /\ last[t].time <= last'[t].time
<1> DEFINE seen == Of(Structures(candles, n), t)
           l == last'[t]
<1> USE DEF HistoryInv
<1>1. n \in Nat
  BY DepthsAssumption
<1>2. last' = LastAfter(Structures(candles, n))
  BY DEF Analyse
<1>3. /\ l \in Extremes(t) \cup {None}
      /\ seen = {} => l = last[t]
      /\ seen # {} => l \in seen /\ \A e \in seen : e.time <= l.time
  BY <1>1, <1>2, LastAfterTyped
<1>4. last[t] # None => last[t] \in Extremes(t) /\ Classified(last[t], candles)
  BY DEF LastTyped, HeldOK, Classified
<1>5. \A e \in seen : e \in Structures(candles, n) /\ e.type = t /\ e \in Extremes(t) /\ e # None
  BY <1>1, StructuresTyped, NoneIsNone DEF Of
<1> HIDE DEF l
<1>6. CASE seen = {}
  <2>1. last[t] # None => last[t].time \in Nat
    BY <1>4 DEF Extremes
  <2> QED
    BY <1>3, <1>4, <1>6, <2>1 DEF l
<1>7. CASE seen # {}
  <2>1. l \in Structures(candles, n) /\ l.type = t /\ l \in Extremes(t) /\ l # None
    BY <1>3, <1>5, <1>7
  <2>2. Classified(l, candles)
    BY <1>1, <2>1, WindowStructures DEF Classified
  <2>3. ASSUME last[t] # None, ~(last[t].time <= l.time) PROVE FALSE
    <3>1. PICK a \in All(candles) : SameExtreme(last[t], a)
      BY <1>4, <2>3 DEF Classified
    <3>2. a.type = t /\ a.time = last[t].time /\ a.time \in Nat /\ l.time \in Nat
      BY <1>4, <2>1, <2>3, <3>1, SameExtremes DEF Extremes
    <3>3. Kind(a) = Kind(l) /\ l.time < a.time
      BY <2>1, <2>3, <3>2 DEF Kind
    <3>4. PICK f \in Structures(candles, n) : SameExtreme(a, f)
      BY <1>1, <2>1, <3>3, WindowStructures
    <3>5. f \in seen /\ f.time = a.time
      BY <3>2, <3>4 DEF Of, SameExtreme
    <3>6. a.time <= l.time
      BY <1>3, <1>7, <3>5
    <3> QED
      BY <2>3, <3>2, <3>6
  <2> QED
    BY <2>1, <2>2, <2>3 DEF l
<1> QED
  BY <1>6, <1>7

(* What an analysis breaks, and what it remembers of it.                    *)
LEMMA BrokenAfter ==
    ASSUME HistoryInv, MarketOK', NEW n \in Depths, Analyse(market', n)
    PROVE  /\ LastTyped'
           /\ \A e \in {bos', choch'} \ {None} :
                e.type \in Types /\ e = last'[e.type] /\ broken[e.type] # e
           /\ \A t \in Types :
                /\ (\E e \in {bos', choch'} \ {None} : e.type = t)
                     => broken'[t] = last'[t] /\ last'[t] # None
                /\ ~(\E e \in {bos', choch'} \ {None} : e.type = t) => broken'[t] = broken[t]
<1>1. market' \in Seq(Candle)
  BY DEF MarketOK
<1>2. /\ LastTyped'
      /\ \A e \in {bos', choch'} \ {None} :
           e.type \in Types /\ e = last'[e.type] /\ broken[e.type] # e
  BY <1>1, EventFacts DEF HistoryInv, Broken
<1>3. \A t \in Types :
        broken'[t] = IF \E e \in {bos', choch'} : e.type = t THEN last'[t] ELSE broken[t]
  BY DEF Analyse
<1>4. \A t \in Types : (\E e \in {bos', choch'} : e.type = t)
                         <=> \E e \in {bos', choch'} \ {None} : e.type = t
  BY DEF None, Types
<1> QED
  BY <1>2, <1>3, <1>4

LEMMA AnalysisKeepsHistory ==
    ASSUME HistoryInv, MarketOK', All(market) \subseteq All(market'),
           NEW n \in Depths, Analyse(market', n), Remembered
    PROVE  HistoryInv'
<1> DEFINE events == {bos', choch'} \ {None}
<1> USE DEF HistoryInv
<1>1. market' \in Seq(Candle)
  BY DEF MarketOK
<1>2. \A t \in Types :
        /\ last'[t] # None => Classified(last'[t], market')
        /\ last[t] # None => last'[t] # None /\ last[t].time <= last'[t].time
  BY <1>1, LastGetsLater
<1>3. /\ LastTyped'
      /\ \A e \in events : e.type \in Types /\ e = last'[e.type]
      /\ \A t \in Types :
           /\ (\E e \in events : e.type = t) => broken'[t] = last'[t] /\ last'[t] # None
           /\ ~(\E e \in events : e.type = t) => broken'[t] = broken[t]
  BY BrokenAfter
<1>4. HeldOK'
  BY <1>2 DEF HeldOK
<1>5. \A t \in Types :
        /\ last[t] # None => last[t].time \in Nat
        /\ last'[t] # None => last'[t] \in Extremes(t) /\ last'[t].time \in Nat
  BY <1>3 DEF LastTyped, Extremes
<1>6. ASSUME NEW t \in Types, broken[t] # None
      PROVE  /\ broken[t] \in Extremes(t) /\ Classified(broken[t], market')
             /\ last'[t] # None /\ broken[t].time \in Nat /\ broken[t].time <= last'[t].time
  <2>1. /\ broken[t] \in Extremes(t) /\ Classified(broken[t], market)
        /\ last[t] # None /\ broken[t].time <= last[t].time
    BY <1>6 DEF BrokenOK
  <2>2. Classified(broken[t], market')
    BY <2>1 DEF Classified
  <2>3. broken[t].time \in Nat
    BY <2>1 DEF Extremes
  <2>4. last'[t] # None /\ last[t].time <= last'[t].time
        /\ last[t].time \in Nat /\ last'[t].time \in Nat
    BY <1>2, <1>5, <2>1
  <2> QED
    BY <2>1, <2>2, <2>3, <2>4
<1>7. BrokenOK'
  <2> SUFFICES ASSUME NEW t \in Types, broken'[t] # None
               PROVE  /\ broken'[t] \in Extremes(t) /\ Classified(broken'[t], market')
                      /\ last'[t] # None /\ broken'[t].time <= last'[t].time
    BY DEF BrokenOK
  <2>1. CASE \E e \in events : e.type = t
    BY <1>2, <1>3, <1>5, <2>1
  <2>2. CASE ~ \E e \in events : e.type = t
    BY <1>3, <1>6, <2>2
  <2> QED
    BY <2>1, <2>2
<1>8. FiredOK'
  <2> SUFFICES ASSUME NEW t \in Types, NEW time \in Nat, <<t, time>> \in fired'
               PROVE  broken'[t] # None /\ time <= broken'[t].time
    BY DEF FiredOK
  <2>1. <<t, time>> \in fired \/ \E e \in events : <<t, time>> = <<e.type, e.time>>
    BY DEF Remembered, Events, Identity
  <2>2. CASE <<t, time>> \in fired
    <3>1. broken[t] # None /\ time <= broken[t].time
      BY <2>2 DEF FiredOK
    <3>2. broken'[t] = broken[t] \/ broken'[t] = last'[t]
      BY <1>3
    <3> QED
      BY <1>5, <1>6, <3>1, <3>2
  <2>3. ASSUME NEW e \in events, <<t, time>> = <<e.type, e.time>>
        PROVE  broken'[t] # None /\ time <= broken'[t].time
    <3>1. e.type = t /\ e.time = time
      BY <2>3
    <3>2. broken'[t] = e /\ e # None
      BY <1>3, <3>1
    <3> QED
      BY <3>1, <3>2
  <2> QED
    BY <2>1, <2>2, <2>3
<1> QED
  BY <1>3, <1>4, <1>7, <1>8

(* A step only adds structures.                                             *)
LEMMA StructuresGrow ==
    ASSUME MarketOK, [Next]_vars
    PROVE  All(market) \subseteq All(market')
<1>1. \A shape \in Shapes : shape \in Candle
  BY ShapesAssumption DEF Candle
<1>2. market' = market \/ \E shape \in Shapes : market' = Append(market, shape)
  BY AnalysisSteps DEF AnalyseCandle, AnalyseAgain, SkipCandle, vars
<1> QED
  BY <1>1, <1>2, StructuresKept DEF MarketOK

LEMMA HistoryKept == HistoryInv /\ [Next]_vars => HistoryInv'
<1> SUFFICES ASSUME HistoryInv, [Next]_vars PROVE HistoryInv'
  OBVIOUS
<1>1. MarketOK /\ MarketOK' /\ All(market) \subseteq All(market')
  BY AnalysisSteps, StructuresGrow DEF HistoryInv
<1>2. ASSUME NEW shape \in Shapes, NEW n \in Depths, AnalyseCandle(shape, n) PROVE HistoryInv'
  BY <1>1, <1>2, AnalysisKeepsHistory DEF AnalyseCandle
<1>3. ASSUME NEW n \in Depths, AnalyseAgain(n) PROVE HistoryInv'
  <2>1. market' = market /\ Analyse(market', n) /\ Remembered
    BY <1>3 DEF AnalyseAgain
  <2> QED
    BY <1>1, <2>1, AnalysisKeepsHistory
<1>4. ASSUME UNCHANGED <<stateVars, fired>> PROVE HistoryInv'
  BY <1>1, <1>4 DEF HistoryInv, stateVars, LastTyped, HeldOK, BrokenOK, FiredOK, Classified
<1>5. ASSUME NEW shape \in Shapes, SkipCandle(shape) PROVE HistoryInv'
  BY <1>4, <1>5 DEF SkipCandle
<1>6. CASE UNCHANGED vars
  BY <1>4, <1>6 DEF vars
<1> QED
  BY <1>1, <1>2, <1>3, <1>5, <1>6, AnalysisSteps

LEMMA HistoryInvariant == Spec => []HistoryInv
<1>1. Init => HistoryInv
  BY MaxCandleAssumption DEF Init, HistoryInv, MarketOK, LastTyped, HeldOK, BrokenOK, FiredOK
<1> QED
  BY <1>1, HistoryKept, PTL DEF Spec

(* Nothing looks ahead: whatever the windows of the analyses, no later      *)
(* candle and no later window changes a classified extreme, and a window    *)
(* forgets extremes from its old end only (PivotSwingDetector and           *)
(* StructureEngine).                                                        *)
THEOREM StructuresPermanent == Spec => StructuresArePermanent
<1> DEFINE Permanent ==
             \A n, m \in Depths :
                LET later == Structures(market', m) IN
                \A d \in Structures(market, n) :
                   /\ \A e \in later : SameSwing(d, e) => SameExtreme(d, e)
                   /\ (\E e \in later : Kind(e) = Kind(d) /\ e.time < d.time)
                         => \E e \in later : SameExtreme(d, e)
<1>1. MarketOK /\ [Next]_vars => [Permanent]_vars
  <2> SUFFICES ASSUME MarketOK, [Next]_vars, NEW n \in Depths, NEW m \in Depths,
                      NEW d \in Structures(market, n)
               PROVE  /\ \A e \in Structures(market', m) : SameSwing(d, e) => SameExtreme(d, e)
                      /\ (\E e \in Structures(market', m) : Kind(e) = Kind(d) /\ e.time < d.time)
                            => \E e \in Structures(market', m) : SameExtreme(d, e)
    OBVIOUS
  <2>1. /\ market \in Seq(Candle) /\ market' \in Seq(Candle) /\ All(market) \subseteq All(market')
        /\ n \in Nat /\ m \in Nat
    BY AnalysisSteps, StructuresGrow, DepthsAssumption DEF MarketOK
  <2>2. PICK a \in All(market') : SameExtreme(d, a)
    BY <2>1, WindowStructures
  <2>3. Kind(a) = Kind(d) /\ a.time = d.time /\ a.type = d.type /\ a.price = d.price
    BY <2>2 DEF SameExtreme, Kind
  <2>4. ASSUME NEW e \in Structures(market', m), SameSwing(d, e) PROVE SameExtreme(d, e)
    <3>1. PICK b \in All(market') : SameExtreme(e, b)
      BY <2>1, WindowStructures
    <3>2. Kind(b) = Kind(e) /\ b.time = e.time
      BY <3>1 DEF SameExtreme, Kind
    <3>3. a = b
      BY <2>1, <2>3, <2>4, <3>2, KnownByTime DEF SameSwing
    <3> QED
      BY <2>3, <3>1, <3>3 DEF SameExtreme
  <2>5. ASSUME NEW e \in Structures(market', m), Kind(e) = Kind(d), e.time < d.time
        PROVE  \E f \in Structures(market', m) : SameExtreme(d, f)
    <3>1. PICK f \in Structures(market', m) : SameExtreme(a, f)
      BY <2>1, <2>3, <2>5, WindowStructures
    <3> QED
      BY <2>3, <3>1 DEF SameExtreme
  <2> QED
    BY <2>4, <2>5
<1>2. TradableInv => MarketOK
  BY DEF TradableInv
<1> QED
  BY <1>1, <1>2, TradableInvariant, PTL DEF Spec, StructuresArePermanent

(* The extremes of a type are broken in their order, in windows that slide  *)
(* and change their length too, and the same one again only where it is     *)
(* seen at another index (BOSEngine and CHOCHEngine): although only the last*)
(* one broken of each type is remembered, none that is superseded comes up. *)
THEOREM BrokenInOrder == Spec => BreaksInOrder
<1> DEFINE InOrder ==
             Analysis =>
               \A e \in {bos', choch'} \ {None} : \A time \in 0 .. Len(market) :
                 <<e.type, time>> \in fired =>
                    \/ time < e.time
                    \/ time = e.time /\ broken[e.type].time = time
                                    /\ broken[e.type].index # e.index
<1>1. HistoryInv /\ [Next]_vars => [InOrder]_vars
  <2> SUFFICES ASSUME HistoryInv, [Next]_vars, Analysis,
                      NEW e \in {bos', choch'} \ {None}, NEW time \in 0 .. Len(market),
                      <<e.type, time>> \in fired
               PROVE  \/ time < e.time
                      \/ time = e.time /\ broken[e.type].time = time
                                      /\ broken[e.type].index # e.index
    OBVIOUS
  <2> DEFINE t == e.type
             b == broken[t]
  <2>1. PICK n \in Depths : Analyse(market', n)
    BY DEF Analysis, AnalyseAgain, AnalyseCandle
  <2>2. MarketOK' /\ market' \in Seq(Candle) /\ market \in Seq(Candle)
        /\ All(market) \subseteq All(market')
    BY AnalysisSteps, StructuresGrow DEF HistoryInv, MarketOK
  <2>3. t \in Types /\ e = last'[t] /\ b # e /\ LastTyped' /\ e # None
    BY <2>1, <2>2, BrokenAfter
  <2>4. time \in Nat
    BY <2>2
  <2>5. b # None /\ time <= b.time
    BY <2>3, <2>4 DEF HistoryInv, FiredOK
  <2>6. b \in Extremes(t) /\ Classified(b, market) /\ last[t] # None /\ b.time <= last[t].time
    BY <2>3, <2>5 DEF HistoryInv, BrokenOK
  <2>7. last[t].time <= e.time /\ Classified(e, market')
    BY <2>1, <2>2, <2>3, <2>6, LastGetsLater
  <2>8. e \in Extremes(t) /\ last[t] \in Extremes(t)
    BY <2>3, <2>6 DEF LastTyped, HistoryInv
  <2> HIDE DEF b, t
  <2>9. b.time \in Nat /\ e.time \in Nat /\ last[t].time \in Nat
    BY <2>6, <2>8 DEF Extremes
  <2>10. time <= e.time
    BY <2>4, <2>5, <2>6, <2>7, <2>9
  <2>11. ASSUME time = e.time PROVE b.time = time /\ b.index # e.index
    <3>1. b.time = e.time
      BY <2>4, <2>5, <2>6, <2>7, <2>9, <2>11
    <3>2. PICK a \in All(market') : SameExtreme(b, a)
      BY <2>2, <2>6 DEF Classified
    <3>3. PICK c \in All(market') : SameExtreme(e, c)
      BY <2>7 DEF Classified
    <3>4. /\ a.type = t /\ a.time = b.time /\ a.price = b.price
          /\ c.type = t /\ c.time = e.time /\ c.price = e.price
      BY <2>3, <2>6, <2>8, <3>2, <3>3, SameExtremes
    <3>5. a = c
      BY <2>2, <3>1, <3>4, KnownByTime DEF SameSwing, Kind
    <3>6. b.price = e.price
      BY <3>4, <3>5
    <3>7. b.index # e.index
      BY <2>3, <2>6, <2>8, <3>1, <3>6 DEF Extremes
    <3> QED
      BY <2>11, <3>1, <3>7
  <2> QED
    BY <2>4, <2>9, <2>10, <2>11 DEF b, t
<1> QED
  BY <1>1, HistoryInvariant, PTL DEF Spec, BreaksInOrder
=============================================================================
