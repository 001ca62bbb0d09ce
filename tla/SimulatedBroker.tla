-------------------------- MODULE SimulatedBroker --------------------------
(***************************************************************************)
(* The backtest's broker (backtesting/simulated_broker.py): one resting    *)
(* limit entry or one position of one symbol, moved by candles.  Every     *)
(* operation is atomic: a backtest is sequential.                          *)
(*                                                                         *)
(* Prices are integers.  An order link id stands for its setup and its     *)
(* request; tickets are numbered from 1.  The volume is filled as a whole, *)
(* at the entry's price, so the filled quantities follow from the status.  *)
(***************************************************************************)
EXTENDS PendingEntry, Sequences, FiniteSetsExt

CONSTANTS
    Ids,        \* order link ids
    Requests,   \* the request of each id
    Prices,     \* prices of candles
    TTL,        \* pending_entry_ttl_candles
    MaxCandle,  \* bound: candles
    MaxTicket   \* bound: positions opened

Request == [decision : {"BUY", "SELL"}, entry : Int, stop : Int, target : Int]

ASSUME RequestsAssumption == Requests \in [Ids -> Request]
ASSUME PricesAssumption == Prices \subseteq Int
ASSUME SimulationBounds == {TTL, MaxCandle, MaxTicket} \subseteq Nat \ {0}
ASSUME SimulatedIdsAssumption == "none" \notin Ids

VARIABLES
    candle,      \* _current_candle
    pending,     \* _pending_entry
    entries,     \* _entry_orders, by status; "none" when absent
    lastSeen,    \* _last_pending_candle_timestamp
    position,    \* _position
    lastTrade,   \* _last_closed_trade
    nextTicket,  \* _next_ticket
    outcome      \* how the last operation ended: "ok" or its exception

brokerVars == <<candle, pending, entries, lastSeen, position, lastTrade,
                nextTicket, outcome>>

----------------------------------------------------------------------------
(* Values *)

NoCandle == [time |-> 0]

Candles(time) ==
    {c \in [time : {time}, open : Prices, high : Prices, low : Prices,
            close : Prices] :
        c.low <= c.open /\ c.open <= c.high /\ c.low <= c.close
        /\ c.close <= c.high}

NoEntry == [status |-> "none"]
NoPosition == [ticket |-> 0]
NoTrade == [ticket |-> 0]

SimInit ==
    /\ candle = NoCandle
    /\ pending = NoEntry
    /\ entries = [id \in Ids |-> "none"]
    /\ lastSeen = 0
    /\ position = NoPosition
    /\ lastTrade = NoTrade
    /\ nextTicket = 1
    /\ outcome = "ok"

(* _transition_entry: along the path given, every edge of it checked.       *)
Allowed(path) ==
    \A i \in 1 .. Len(path) - 1 : path[i + 1] \in AllowedTransitions[path[i]]

----------------------------------------------------------------------------
(* Prices against levels *)

MarketableAtOpen(request, c) ==
    IF request.decision = "BUY" THEN c.open <= request.entry
                                ELSE c.open >= request.entry

Touched(request, c) == c.low <= request.entry /\ request.entry <= c.high

StopTouched(request, c) ==
    IF request.decision = "BUY" THEN c.low <= request.stop
                                ELSE c.high >= request.stop

TargetTouched(request, c) ==
    IF request.decision = "BUY" THEN c.high >= request.target
                                ELSE c.low <= request.target

(* _validate_protective_levels *)
LevelsValid(request, price) ==
    IF request.decision = "BUY"
    THEN request.stop < price /\ price < request.target
    ELSE request.target < price /\ price < request.stop
----------------------------------------------------------------------------
(* update_market *)

EntrySees(c) ==
    /\ pending # NoEntry
    /\ c.time > pending.signal
    /\ lastSeen # c.time

TouchedWithin(c) == Touched(Requests[pending.id], c)

EntryReached(c) ==
    LET request == Requests[pending.id] IN
    MarketableAtOpen(request, c) \/ Touched(request, c)

WorkingPath ==
    IF pending.status = "SUBMITTED" THEN <<"SUBMITTED", "WORKING">>
                                    ELSE <<pending.status>>

(* _store_terminal_entry *)
EntryEnds(status) ==
    /\ entries' = [entries EXCEPT ![pending.id] = status]
    /\ pending' = NoEntry
    /\ lastSeen' = 0

TargetFirst(request, c) ==
    IF TargetTouched(request, c) THEN {request.target}
    ELSE IF StopTouched(request, c) THEN {request.stop}
    ELSE {}

(* The price at which a candle closes a position held before it, if any ... *)
PositionExit(request, c) ==
    IF StopTouched(request, c) THEN {request.stop}
    ELSE IF TargetTouched(request, c) THEN {request.target}
    ELSE {}

(* ... and one it has opened itself: the target counts only if the entry   *)
(* was filled at the candle's open.                                        *)
FillExit(request, c) ==
    IF StopTouched(request, c) THEN {request.stop}
    ELSE IF MarketableAtOpen(request, c) /\ TargetTouched(request, c)
    THEN {request.target}
    ELSE {}

(* _close_at the one price of `exits`, or keep the position.               *)
Settle(held, exits) ==
    IF exits = {}
    THEN position' = held /\ UNCHANGED lastTrade
    ELSE /\ position' = NoPosition
         /\ lastTrade' = [ticket |-> held.ticket, id |-> held.id,
                          entry |-> held.entry,
                          exit |-> CHOOSE price \in exits : TRUE]

Opened(id, price, time) ==
    [ticket |-> nextTicket, id |-> id, entry |-> price, opened |-> time]

EntryFills(c) ==
    LET request == Requests[pending.id] IN
    /\ EntrySees(c) /\ EntryReached(c)
    /\ nextTicket <= MaxTicket
    /\ Allowed(WorkingPath \o <<"FILLED">>)
    /\ nextTicket' = nextTicket + 1
    /\ Settle(Opened(pending.id, request.entry, c.time),
              FillExit(request, c))
    /\ EntryEnds("FILLED")

(* The entry grows older and, at the end of its last candle, expires.      *)
LastsTooLong(age) == age > TTL

AgedOut(age) == age >= TTL

EntryWaits(c) ==
    /\ EntrySees(c) /\ ~EntryReached(c)
    /\ IF AgedOut(pending.age + 1)
       THEN /\ Allowed(WorkingPath \o <<"CANCEL_REQUESTED", "EXPIRED">>)
            /\ EntryEnds("EXPIRED")
       ELSE /\ Allowed(WorkingPath)
            /\ pending' = [pending EXCEPT !.age = @ + 1, !.status = "WORKING"]
            /\ entries' = [entries EXCEPT ![pending.id] = "WORKING"]
            /\ lastSeen' = c.time
    /\ UNCHANGED nextTicket

EntryUntouched(c) ==
    ~EntrySees(c) /\ UNCHANGED <<pending, entries, lastSeen, nextTicket>>

(* A position is moved by the candles after the one that opened it.        *)
PositionSees(c) ==
    IF position # NoPosition /\ c.time > position.opened
    THEN Settle(position, PositionExit(Requests[position.id], c))
    ELSE UNCHANGED <<position, lastTrade>>

UpdateMarket(c) ==
    /\ candle' = c
    /\ \/ EntryFills(c)
       \/ (EntryWaits(c) \/ EntryUntouched(c)) /\ PositionSees(c)
    /\ outcome' = "ok"

----------------------------------------------------------------------------
(* The other operations *)

Answers(o) ==
    /\ outcome' = o
    /\ UNCHANGED <<candle, pending, entries, lastSeen, position, lastTrade,
                   nextTicket>>

PositionBlocksEntry == position # NoPosition

SubmissionRefused(id, signal) ==
    \/ PositionBlocksEntry
    \/ pending # NoEntry /\ (pending.id # id \/ pending.signal # signal)
    \/ pending = NoEntry /\ entries[id] # "none"

SubmitEntry(id, signal) ==
    \/ SubmissionRefused(id, signal) /\ Answers("error")
    \/ ~SubmissionRefused(id, signal) /\ pending # NoEntry /\ Answers("ok")
    \/ /\ ~SubmissionRefused(id, signal)
       /\ pending = NoEntry
       /\ IF LevelsValid(Requests[id], Requests[id].entry)
          THEN /\ pending' = [id |-> id, status |-> "SUBMITTED", age |-> 0,
                              signal |-> signal]
               /\ entries' = [entries EXCEPT ![id] = "SUBMITTED"]
               /\ lastSeen' = 0
               /\ outcome' = "ok"
          ELSE /\ entries' = [entries EXCEPT ![id] = "REJECTED"]
               /\ outcome' = "rejected"
               /\ UNCHANGED <<pending, lastSeen>>
       /\ UNCHANGED <<candle, position, lastTrade, nextTicket>>

CancelEntry(id) ==
    \/ /\ entries[id] \in TerminalStatuses \cup {"none"}
       /\ Answers("ok")
    \/ /\ entries[id] \notin TerminalStatuses \cup {"none"}
       /\ Allowed(IF pending.status = "SUBMITTED"
                  THEN <<"SUBMITTED", "CANCELLED">>
                  ELSE <<pending.status, "CANCEL_REQUESTED", "CANCELLED">>)
       /\ EntryEnds("CANCELLED")
       /\ outcome' = "ok"
       /\ UNCHANGED <<candle, position, lastTrade, nextTicket>>

(* A market fill at the last close.                                        *)
OpenPosition(id) ==
    \/ /\ \/ position # NoPosition \/ pending # NoEntry
          \/ candle = NoCandle
       /\ Answers("error")
    \/ /\ position = NoPosition /\ pending = NoEntry /\ candle # NoCandle
       /\ nextTicket <= MaxTicket
       /\ IF LevelsValid(Requests[id], candle.close)
          THEN /\ position' = Opened(id, candle.close, candle.time)
               /\ nextTicket' = nextTicket + 1
               /\ outcome' = "ok"
          ELSE outcome' = "rejected" /\ UNCHANGED <<position, nextTicket>>
       /\ UNCHANGED <<candle, pending, entries, lastSeen, lastTrade>>

ClosePosition ==
    \/ position = NoPosition /\ Answers("error")
    \/ /\ position # NoPosition
       /\ Settle(position, {candle.close})
       /\ outcome' = "ok"
       /\ UNCHANGED <<candle, pending, entries, lastSeen, nextTicket>>

(* Candles come in order, the last one possibly again; the signal of an    *)
(* entry is the last candle.                                               *)
SimNext ==
    \/ \E time \in {candle.time, candle.time + 1} \ {0} :
         time <= MaxCandle /\ \E c \in Candles(time) : UpdateMarket(c)
    \/ \E id \in Ids :
         \/ SubmitEntry(id, candle.time)
         \/ CancelEntry(id) \/ OpenPosition(id)
    \/ ClosePosition

SimSpec == SimInit /\ [][SimNext]_brokerVars

----------------------------------------------------------------------------
(* The reference: prices move within a candle from its open to both of its  *)
(* extremes, in either order, and to its close.                            *)

Distance(a, b) == IF a <= b THEN b - a ELSE a - b

Walk(a, b) ==
    [i \in 1 .. Distance(a, b) + 1 |-> IF a <= b THEN a + i - 1 ELSE a - i + 1]

PricePaths(c) ==
    {Walk(c.open, c.high) \o Walk(c.high, c.low) \o Walk(c.low, c.close),
     Walk(c.open, c.low) \o Walk(c.low, c.high) \o Walk(c.high, c.close)}

(* a is at b or on its losing side.                                        *)
Losing(request, a, b) == IF request.decision = "BUY" THEN a <= b ELSE a >= b

Reaches(request, path) ==
    \E i \in 1 .. Len(path) : Losing(request, path[i], request.entry)

(* From when on a path moves the position: held from its start, or filled   *)
(* where the path first reaches the entry, at the price of that point.     *)
Since(request, path, held) ==
    IF held THEN 1
    ELSE Min({i \in 1 .. Len(path) : Losing(request, path[i], request.entry)})

(* What an open position is worth: no more than its target will bring.     *)
Worth(request, price) ==
    IF Losing(request, price, request.target) THEN price ELSE request.target

(* A path closes the position at the price of the first point that is at   *)
(* the stop or beyond it, or at the target or beyond it.                   *)
Closing(request, path, since) ==
    {i \in since .. Len(path) : \/ Losing(request, path[i], request.stop)
                                \/ Losing(request, request.target, path[i])}

PathExit(request, path, since) ==
    LET closing == Closing(request, path, since) IN
    IF closing = {} THEN Worth(request, path[Len(path)])
                    ELSE path[Min(closing)]

----------------------------------------------------------------------------
(* Properties *)

SimTypeOK ==
    /\ candle = NoCandle \/ candle \in Candles(candle.time)
    /\ entries \in [Ids -> PendingEntryStatus \cup {"none"}]
    /\ pending # NoEntry =>
         /\ pending.id \in Ids
         /\ pending.status \in {"SUBMITTED", "WORKING"}
         /\ entries[pending.id] = pending.status
    /\ lastSeen \in 0 .. MaxCandle
    /\ nextTicket \in 1 .. MaxTicket + 1
    /\ {position.ticket, lastTrade.ticket} \subseteq 0 .. nextTicket - 1
    /\ outcome \in {"ok", "error", "rejected"}

(* An entry rests only while no position is open.                          *)
EntryOrPosition == pending = NoEntry \/ position = NoPosition

(* A resting entry has lived through every candle after its signal exactly  *)
(* once, a candle that is shown again included, and never outlives its TTL. *)
LivesItsCandles ==
    pending # NoEntry =>
        /\ pending.age = candle.time - pending.signal
        /\ pending.age < TTL

NewCandle == candle'.time > candle.time

(* A resting entry is filled by a candle exactly if the price reaches it,   *)
(* whichever way it takes within the candle.                               *)
FillsWhenReached ==
    [][NewCandle /\ pending # NoEntry =>
          \A path \in PricePaths(candle') :
              entries'[pending.id] = "FILLED"
                  <=> Reaches(Requests[pending.id], path)]_brokerVars

(* What the simulator says of a step, and of the trade in it.              *)
Traded == position # NoPosition \/ position' # NoPosition \/ lastTrade' # lastTrade
Held == position # NoPosition
TradedRequest == Requests[IF Held THEN position.id ELSE pending.id]

SimulatedFill == IF lastTrade' = lastTrade THEN position'.entry ELSE lastTrade'.entry

SimulatedExit ==
    IF lastTrade' = lastTrade THEN Worth(TradedRequest, candle'.close)
                              ELSE lastTrade'.exit

(* What is won from the entry to the exit; a position held before the       *)
(* candle has the same entry in the simulation and on a path.              *)
SimulatedGain == SimulatedExit - (IF Held THEN 0 ELSE SimulatedFill)

PathGain(path) ==
    LET since == Since(TradedRequest, path, Held) IN
    PathExit(TradedRequest, path, since) - (IF Held THEN 0 ELSE path[since])

OpensBeyondStop(request, c) ==
    c.open # request.stop /\ Losing(request, c.open, request.stop)

(* A candle is never read in favour of the trade, in prices: whichever way  *)
(* the price takes within it, the simulated trade wins no more than one that*)
(* is filled, stopped and closed at the prices of that way, also when the   *)
(* candle opens beyond the entry, the stop or the target.  One case is     *)
(* excepted, in which the code is optimistic: a position that is held when a*)
(* candle opens beyond its stop is closed at the stop, as if the price had  *)
(* still been there.                                                       *)
NeverOptimistic ==
    [][NewCandle /\ Traded /\ ~(Held /\ OpensBeyondStop(TradedRequest, candle'))
          => \A path \in PricePaths(candle') :
                Losing(TradedRequest, SimulatedGain, PathGain(path))]_brokerVars

(* Without the exception it does not hold: see the README.                 *)
NeverOptimisticInGaps ==
    [][NewCandle /\ Traded
          => \A path \in PricePaths(candle') :
                Losing(TradedRequest, SimulatedGain, PathGain(path))]_brokerVars
============================================================================
