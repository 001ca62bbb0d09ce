------------------------------ MODULE Backtest ------------------------------
(***************************************************************************)
(* A backtest (backtesting/backtest_runner.py): for every historical candle*)
(* the simulated broker's market moves, the engine processes the snapshot, *)
(* and the position monitor looks once more.  The engine, the execution    *)
(* service and the monitor are the live program's own, here with a broker  *)
(* that never fails and a journal that is only in memory.                  *)
(*                                                                         *)
(* The analysis is abstracted to the setup it finds, if any: an element of *)
(* Ids, chosen freely (MarketAnalysis models it).                          *)
(***************************************************************************)
EXTENDS SimulatedBroker

VARIABLES
    step,        \* the runner's next step for the current snapshot
    keys,        \* Execution._submitted_setup_keys
    baseline,    \* PositionMonitor._closed_trade_baseline_initialized
    lastTicket,  \* PositionMonitor._last_closed_trade_ticket
    journal,     \* TradeJournal: the tickets of its trades, in order
    processed,   \* candles_processed
    rejected     \* rejected_orders

monitorVars == <<baseline, lastTicket, journal>>
backtestVars == <<brokerVars, step, keys, monitorVars, processed, rejected>>

BacktestInit ==
    /\ SimInit
    /\ step = "market"
    /\ keys = {}
    /\ baseline = FALSE /\ lastTicket = 0 /\ journal = <<>>
    /\ processed = 0 /\ rejected = 0

(* The snapshots are in strictly chronological order.                       *)
Snapshot(c) ==
    /\ step = "market"
    /\ candle.time < MaxCandle
    /\ UpdateMarket(c)
    /\ step' = "process"
    /\ UNCHANGED <<keys, monitorVars, processed, rejected>>

(* PositionMonitor.update: the trade that the monitor finds first is        *)
(* history; another one that it has not seen is journaled.                 *)
BaselineAtFirstTrade == ~baseline /\ lastTrade # NoTrade

BaselineAtFirstLook == ~baseline

UpdateMonitor ==
    /\ baseline' = (baseline \/ BaselineAtFirstLook)
    /\ lastTicket' = IF lastTrade = NoTrade THEN lastTicket
                                            ELSE lastTrade.ticket
    /\ journal' = IF \/ BaselineAtFirstLook
                     \/ lastTrade.ticket \in {0, lastTicket}
                  THEN journal ELSE Append(journal, lastTrade.ticket)

(* TradingEngine.process: nothing more while a position is open or an       *)
(* entry pending, or if the analysis finds no setup or one seen before.     *)
NoNewEntry ==
    /\ step = "process"
    /\ step' = "finish"
    /\ UpdateMonitor
    /\ UNCHANGED <<brokerVars, keys, processed, rejected>>

NeverDuplicate(id) == FALSE

Duplicate(id) == id \in keys

KeysAfter(id) == keys \cup {id}

(* A rejected order is counted by the runner; any other exception would     *)
(* end the backtest.                                                       *)
CountedRejection == IF outcome' = "rejected" THEN rejected + 1 ELSE rejected

SubmitSetup(id) ==
    /\ step = "process"
    /\ position = NoPosition /\ pending = NoEntry
    /\ ~Duplicate(id)
    /\ UpdateMonitor
    /\ SubmitEntry(id, candle.time)
    /\ keys' = KeysAfter(id)
    /\ rejected' = CountedRejection
    /\ step' = "finish"
    /\ UNCHANGED processed

(* The runner's own look, and the next snapshot.                            *)
FinishSnapshot ==
    /\ step = "finish"
    /\ UpdateMonitor
    /\ processed' = processed + 1
    /\ step' = "market"
    /\ UNCHANGED <<brokerVars, keys, rejected>>

BacktestNext ==
    \/ \E c \in Candles(candle.time + 1) : Snapshot(c)
    \/ NoNewEntry
    \/ \E id \in Ids : SubmitSetup(id)
    \/ FinishSnapshot

BacktestSpec == BacktestInit /\ [][BacktestNext]_backtestVars

----------------------------------------------------------------------------
(* Properties *)

EndedAs(status) == {id \in Ids : entries[id] = status}

(* After every snapshot the journal holds every trade the broker has        *)
(* closed, each once and in order, although the monitor only ever sees the *)
(* latest and one candle can open and close a trade.                       *)
JournalComplete ==
    step = "market" =>
        LET closed == nextTicket - 1 - (IF position = NoPosition THEN 0 ELSE 1)
        IN journal = [i \in 1 .. closed |-> i]

(* The result's counters add up: every submitted entry was filled, has      *)
(* expired, was rejected or is still pending; every fill is a trade or the  *)
(* open position; every rejection was counted.                             *)
ResultAddsUp ==
    step = "market" =>
        /\ Cardinality({id \in Ids : entries[id] # "none"}) =
             Cardinality(EndedAs("FILLED")) + Cardinality(EndedAs("EXPIRED"))
               + rejected + (IF pending = NoEntry THEN 0 ELSE 1)
        /\ Cardinality(EndedAs("FILLED")) =
             Len(journal) + (IF position = NoPosition THEN 0 ELSE 1)
        /\ processed = candle.time

(* What the backtest returns is complete: its trades and its counters.      *)
ResultIsComplete == JournalComplete /\ ResultAddsUp

(* No candle and no setup aborts a backtest: the broker refuses nothing     *)
(* that the engine lets through.                                           *)
BrokerNeverRefuses == outcome \in {"ok", "rejected"}
=============================================================================
