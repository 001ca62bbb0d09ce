--------------------------- MODULE MarketAnalysis ---------------------------
(***************************************************************************)
(* From candles to a trade request: swings, structure, breaks of structure *)
(* (BOS), changes of character (CHOCH), the trend, the setup, and the      *)
(* levels of the request (core/analysis_engine.py and the engines it runs, *)
(* core/decision_engine.py, core/risk_manager.py).                         *)
(*                                                                         *)
(* Every analysis looks at the last candles only, a window whose length    *)
(* may differ by one from poll to poll, but its state is kept for the life *)
(* of the process.  A candle that passes while an entry or a position is   *)
(* open is not analysed, and one whose processing failed is analysed again.*)
(*                                                                         *)
(* Prices are integers.  An extreme is known by its candle, its type and   *)
(* its index in the window in which it was seen last; a break is known by  *)
(* the extreme broken, which gives its price, its direction and its index. *)
(***************************************************************************)
EXTENDS Integers, Sequences, FiniteSetsExt

CONSTANTS
    Left, Right,  \* PivotSwingDetector.LEFT and RIGHT
    Shapes,       \* the candles that occur, without their time
    Depths,       \* how many completed candles an analysis may be given
    RiskReward,   \* RiskManager's risk/reward
    MaxCandle     \* bound: candles

ASSUME WingsAssumption == {Left, Right} \subseteq Nat \ {0}
ASSUME ShapesAssumption ==
    /\ Shapes \subseteq [high : Int, low : Int, close : Int]
    /\ \A c \in Shapes : c.low <= c.close /\ c.close <= c.high
ASSUME DepthsAssumption == Depths \subseteq Nat \ {0} /\ Depths # {}
ASSUME RiskRewardAssumption == RiskReward \in Nat \ {0}
ASSUME MaxCandleAssumption == MaxCandle \in Nat

VARIABLES
    market,  \* all candles so far; a candle's time is its position
    depth,   \* how many of them the last analysis was given
    \* MarketStructureState
    last, previous, broken,  \* by type of extreme
    trend, bos, choch,
    setup,   \* the request the last analysis leads to
    \* History: the extremes broken so far, and the setup of the first analysis
    \* of the last candle.
    fired, first

stateVars == <<last, previous, broken, trend, bos, choch>>
vars == <<market, depth, stateVars, setup, fired, first>>

Types == {"HH", "HL", "LH", "LL"}
None == [type |-> "none"]

Init ==
    /\ market = <<>> /\ depth = Min(Depths)
    /\ last = [t \in Types |-> None]
    /\ previous = [t \in Types |-> None]
    /\ broken = [t \in Types |-> None]
    /\ trend = "RANGE" /\ bos = None /\ choch = None
    /\ setup = None
    /\ fired = {} /\ first = None

----------------------------------------------------------------------------
(* PivotSwingDetector and StructureEngine, on a window of `n` candles. *)

(* The time of the candle before the window.                               *)
Before(candles, n) == IF Len(candles) > n THEN Len(candles) - n ELSE 0

Unconfirmed(candles, n) == Before(candles, n) + Left + 1 .. Len(candles)

(* Candles with enough neighbours on both sides within the window, and      *)
(* their neighbours.                                                       *)
Confirmed(candles, n) == Before(candles, n) + Left + 1 .. Len(candles) - Right

Neighbours(candles, time) ==
    ((time - Left .. time + Right) \cap DOMAIN candles) \ {time}

SwingHighs(candles, n) ==
    {time \in Confirmed(candles, n) :
        \A other \in Neighbours(candles, time) :
            candles[time].high > candles[other].high}

SwingLows(candles, n) ==
    {time \in Confirmed(candles, n) :
        \A other \in Neighbours(candles, time) :
            candles[time].low < candles[other].low}

Extreme(candles, n, time, type) ==
    [type |-> type, time |-> time, index |-> time - Before(candles, n) - 1,
     price |-> IF type \in {"HH", "LH"} THEN candles[time].high
                                        ELSE candles[time].low]

(* A swing is compared with the one before it of the same kind.            *)
ComparedWith(swings, time) == Max({other \in swings : other < time})

Highs(candles, n) ==
    LET swings == SwingHighs(candles, n) IN
    {Extreme(candles, n, time,
             IF candles[time].high > candles[ComparedWith(swings, time)].high
             THEN "HH" ELSE "LH") :
        time \in {t \in swings : t # Min(swings)}}

Lows(candles, n) ==
    LET swings == SwingLows(candles, n) IN
    {Extreme(candles, n, time,
             IF candles[time].low > candles[ComparedWith(swings, time)].low
             THEN "HL" ELSE "LL") :
        time \in {t \in swings : t # Min(swings)}}

Structures(candles, n) == Highs(candles, n) \cup Lows(candles, n)

(* MarketStructureEngine takes all extremes of the window in again, in      *)
(* their order.                                                            *)
Newest(extremes) == CHOOSE e \in extremes : \A x \in extremes : x.time <= e.time

Of(structures, type) == {e \in structures : e.type = type}

LastAfter(structures) ==
    [type \in Types |-> IF Of(structures, type) = {} THEN last[type]
                        ELSE Newest(Of(structures, type))]

PreviousAfter(structures) ==
    [type \in Types |->
        LET seen == Of(structures, type) IN
        IF seen = {} THEN previous[type]
        ELSE IF Cardinality(seen) = 1 THEN last[type]
        ELSE Newest(seen \ {Newest(seen)})]

----------------------------------------------------------------------------
(* BOSEngine, CHOCHEngine and TrendEngine *)

Direction(e) == IF e.type \in {"HH", "LH"} THEN "BULLISH" ELSE "BEARISH"

BrokenAgain(e, close) ==
    /\ e # None
    /\ IF Direction(e) = "BULLISH" THEN close > e.price ELSE close < e.price

(* An extreme is broken by a close beyond it, unless the last one broken of *)
(* its type is the same extreme at the same index.                         *)
Broken(e, close) ==
    /\ e # None
    /\ broken[e.type] # e
    /\ IF Direction(e) = "BULLISH" THEN close > e.price ELSE close < e.price

(* At most one extreme is broken of each pair, `a` before `b`.             *)
BrokenOf(a, b, close) ==
    IF Broken(a, close) THEN a ELSE IF Broken(b, close) THEN b ELSE None

BOSFirst(b, c) == IF b # None THEN b ELSE c

(* The later of this analysis's events, by index.                          *)
LatestEvent(b, c) ==
    IF c # None /\ (b = None \/ c.index > b.index) THEN c ELSE b

(* SetupEngine, DecisionEngine and RiskManager: the request for the event   *)
(* `e` with the stop at the last extreme on the other side.                *)
AnyStop(decision, entry, stop) == TRUE

StopBehind(decision, entry, stop) ==
    IF decision = "BUY" THEN stop < entry ELSE stop > entry

Request(decision, entry, stop, time) ==
    [type |-> decision, entry |-> entry, stop |-> stop, time |-> time,
     target |-> entry + (entry - stop) * RiskReward]

SetupFrom(e, extremes, time) ==
    IF e = None THEN None
    ELSE LET decision == IF Direction(e) = "BULLISH" THEN "BUY" ELSE "SELL"
             stop == extremes[IF decision = "BUY" THEN "HL" ELSE "LH"]
         IN IF stop # None /\ StopBehind(decision, e.price, stop.price)
            THEN Request(decision, e.price, stop.price, time) ELSE None

----------------------------------------------------------------------------
(* AnalysisEngine.analyze of the last `n` of `candles` *)

Event == LatestEvent(bos, choch)

Analyse(candles, n) ==
    LET structures == Structures(candles, n)
        time == Len(candles)
    IN
    /\ depth' = n
    /\ last' = LastAfter(structures)
    /\ previous' = PreviousAfter(structures)
    /\ bos' = BrokenOf(last'["HH"], last'["LL"], candles[time].close)
    /\ choch' = BrokenOf(last'["HL"], last'["LH"], candles[time].close)
    /\ broken' = [type \in Types |->
                    IF \E e \in {bos', choch'} : e.type = type
                    THEN last'[type] ELSE broken[type]]
    /\ trend' = IF Event' = None THEN trend ELSE Direction(Event')
    /\ setup' = SetupFrom(Event', last', time)

Identity(e) == <<e.type, e.time>>

Events == {Identity(e) : e \in {bos, choch} \ {None}}

Remembered == fired' = fired \cup Events'

(* A new candle completes, is analysed, and is done with.                  *)
AnalyseCandle(shape, n) ==
    /\ Len(market) < MaxCandle
    /\ market' = Append(market, shape)
    /\ Analyse(market', n)
    /\ Remembered
    /\ first' = setup'

(* Processing the last candle failed after its analysis, and is repeated.   *)
AnalyseAgain(n) ==
    /\ market # <<>> /\ setup # None
    /\ UNCHANGED <<market, first>>
    /\ Analyse(market, n)
    /\ Remembered

(* A candle that passes while an entry or a position is open.              *)
SkipCandle(shape) ==
    /\ Len(market) < MaxCandle
    /\ market' = Append(market, shape)
    /\ setup' = None /\ first' = None
    /\ UNCHANGED <<depth, stateVars, fired>>

Analysis ==
    \E n \in Depths :
        AnalyseAgain(n) \/ \E shape \in Shapes : AnalyseCandle(shape, n)

Next == Analysis \/ \E shape \in Shapes : SkipCandle(shape)

Spec == Init /\ [][Next]_vars

----------------------------------------------------------------------------
(* Properties *)

Kind(e) == IF e.type \in {"HH", "LH"} THEN "high" ELSE "low"

SameSwing(d, e) == Kind(d) = Kind(e) /\ d.time = e.time

SameExtreme(d, e) == d.type = e.type /\ d.time = e.time /\ d.price = e.price

(* Nothing looks ahead, and a window that slides or changes its length      *)
(* changes no structure: a swing is classified in one way by all analyses   *)
(* that classify it, whatever their windows, and it is forgotten only from  *)
(* the old end, so that the newest extreme of a window is never older than  *)
(* one known before.                                                       *)
StructuresArePermanent ==
    [][\A n, m \in Depths :
          LET later == Structures(market', m) IN
          \A d \in Structures(market, n) :
             /\ \A e \in later : SameSwing(d, e) => SameExtreme(d, e)
             /\ (\E e \in later : Kind(e) = Kind(d) /\ e.time < d.time)
                   => \E e \in later : SameExtreme(d, e)]_vars

(* The extremes of a type are broken in their order, although the engines   *)
(* remember only the last one broken: one that is superseded never comes    *)
(* back, and one is broken again only in a window that has moved, where it  *)
(* is seen at another index.                                               *)
BreaksInOrder ==
    [][Analysis =>
          \A e \in {bos', choch'} \ {None} : \A time \in 0 .. Len(market) :
              <<e.type, time>> \in fired =>
                 \/ time < e.time
                 \/ time = e.time /\ broken[e.type].time = time
                                 /\ broken[e.type].index # e.index]_vars

(* A request can rest as a limit order and be protected: the market is      *)
(* beyond its entry, the stop on the losing side and the target on the      *)
(* winning side of it, so that the simulated broker never rejects it.       *)
SetupsAreTradable ==
    setup # None =>
        LET close == market[Len(market)].close IN
        IF setup.type = "BUY"
        THEN setup.stop < setup.entry /\ setup.entry < setup.target
             /\ setup.entry < close
        ELSE setup.target < setup.entry /\ setup.entry < setup.stop
             /\ close < setup.entry

(* What the code does not keep: the README shows how.                      *)

(* The event that decides the trend and the setup is that of the newer of   *)
(* the structures broken.                                                  *)
NewestEventDecides ==
    \A e \in {bos, choch} \ {None} : e.time <= Event.time

(* A structure is broken once: its first violation is an event, the second  *)
(* is not.                                                                 *)
BrokenOnce == [][Analysis => fired \cap Events' = {}]_vars

(* A candle whose processing failed is processed again: its setup is found  *)
(* again.                                                                  *)
RetryFindsSetupAgain == setup = first

(* A change of character alone does not make a new trend.                   *)
ChochIsOnlyAWarning == [][bos' = None => trend' = trend]_vars

(* A lower high is lower than the high before it.                           *)
LowerHighsAreLower ==
    \A n \in Depths : \A e \in Of(Highs(market, n), "LH") :
        e.price < market[ComparedWith(SwingHighs(market, n), e.time)].high

(* The previous extreme of a type is an earlier one than the last.          *)
PreviousIsEarlier ==
    \A type \in Types :
        previous[type] # None => previous[type].time < last[type].time
=============================================================================
