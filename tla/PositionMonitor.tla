-------------------------- MODULE PositionMonitor --------------------------
(***************************************************************************)
(* How closed trades reach the journal (core/position_monitor.py and       *)
(* infrastructure/csv_trade_journal.py): every poll reads the position,    *)
(* then the one latest closed trade, and records a trade it has not seen:  *)
(* a row in the CSV file first, then the statistics, then the notification.*)
(*                                                                         *)
(* A closed trade is known by its ticket, numbered in closing order; 0     *)
(* stands for "no trade".  The position is known by whether it is open: the*)
(* live broker's ticket is the position index, the same for every position,*)
(* so _last_open_position_ticket follows _position.  A notification that   *)
(* fails is logged and changes nothing.                                    *)
(***************************************************************************)
EXTENDS Integers, Sequences, FiniteSets

CONSTANTS
    MaxTrades,  \* bound: trades that ever close
    MaxRows,    \* bound: rows the file takes
    Faults      \* a subset of AllFaults

AllFaults ==
    {"crash",  \* the process dies between two steps
     "stale",  \* the closed-trade listing lags behind
     "read",   \* the second read of a poll fails
     "write",  \* the row does not reach the file
     "sync"}   \* the row reaches the file but writing it reports an error

ASSUME MaxTradesAssumption == MaxTrades \in Nat
ASSUME MaxRowsAssumption == MaxRows \in Nat
ASSUME MonitorFaultsAssumption == Faults \subseteq AllFaults

VARIABLES
    \* The exchange: an open position, and the trades closed so far.
    open, closed,
    \* The journal's file: the tickets of its rows.
    file,
    \* The process: "down", "up", or "broken" when the journal cannot be
    \* loaded; PositionMonitor's fields (_position,
    \* _last_closed_trade_ticket, _closed_trade_baseline_initialized), the
    \* journal's memory (_tickets) and the statistics' trades.
    process, position, lastTicket, baseline, tickets, statistics,
    \* The step of update() in progress and the trade it has read.
    pc, trade,
    \* History: the trades whose closing was announced, and the ticket the
    \* baseline was set to.
    announced, baselineTicket

exchangeVars == <<open, closed>>
monitorVars == <<position, lastTicket, baseline, baselineTicket>>
memoryVars == <<tickets, statistics>>
vars == <<exchangeVars, file, process, monitorVars, memoryVars, pc, trade,
          announced>>

Init ==
    /\ open = FALSE /\ closed = 0
    /\ file = <<>>
    /\ process = "down"
    /\ position = FALSE /\ lastTicket = 0
    /\ baseline = FALSE /\ baselineTicket = 0
    /\ tickets = {} /\ statistics = <<>>
    /\ pc = "idle" /\ trade = 0
    /\ announced = <<>>

----------------------------------------------------------------------------
(* The exchange. *)

ExchangeOnly ==
    UNCHANGED <<file, process, monitorVars, memoryVars, pc, trade, announced>>

Open == ~open /\ open' = TRUE /\ UNCHANGED closed /\ ExchangeOnly

(* A trade closes all of the position or a part of it.                     *)
Close ==
    /\ open
    /\ closed < MaxTrades
    /\ closed' = closed + 1
    /\ open' \in BOOLEAN
    /\ ExchangeOnly

(* What the latest trade of the listing may be.                            *)
Listed == IF "stale" \in Faults THEN 0 .. closed ELSE {closed}

----------------------------------------------------------------------------
(* update() *)

ProcessOnly == UNCHANGED <<exchangeVars, process>>

ReadPosition ==
    /\ process = "up" /\ pc = "idle"
    /\ position' = open
    /\ pc' = "inspect"
    /\ ProcessOnly
    /\ UNCHANGED <<file, lastTicket, baseline, baselineTicket, memoryVars,
                   trade, announced>>

InspectFails ==
    /\ pc = "inspect"
    /\ "read" \in Faults
    /\ pc' = "idle"
    /\ ProcessOnly
    /\ UNCHANGED <<file, monitorVars, memoryVars, trade, announced>>

(* The first trade a process sees is history, not news.                    *)
TakeBaseline(latest) ==
    /\ baseline' = TRUE
    /\ baselineTicket' = latest
    /\ lastTicket' = latest
    /\ pc' = "idle"
    /\ UNCHANGED trade

Seen(latest) == latest = 0 \/ latest = lastTicket

Examine(latest) ==
    /\ IF Seen(latest)
       THEN pc' = "idle" /\ UNCHANGED trade
       ELSE pc' = "record" /\ trade' = latest
    /\ UNCHANGED <<baseline, baselineTicket, lastTicket>>

InspectClosedTrade(latest) ==
    /\ pc = "inspect"
    /\ IF baseline THEN Examine(latest) ELSE TakeBaseline(latest)
    /\ ProcessOnly
    /\ UNCHANGED <<file, position, memoryVars, announced>>

(* The journal already holds the trade: seen, and nothing else.            *)
AlreadyJournaled ==
    /\ pc = "record"
    /\ trade \in tickets
    /\ lastTicket' = trade
    /\ pc' = "idle"
    /\ ProcessOnly
    /\ UNCHANGED <<file, position, baseline, baselineTicket, memoryVars, trade,
                   announced>>

Written == Append(file, trade)

WriteRow ==
    /\ pc = "record"
    /\ trade \notin tickets
    /\ Len(file) < MaxRows
    /\ file' = Written
    /\ pc' = "written"
    /\ ProcessOnly
    /\ UNCHANGED <<monitorVars, memoryVars, trade, announced>>

(* A failing write leaves the memory as it was: the trade is tried again at *)
(* the next poll.                                                          *)
TicketTakenAnyway == trade

LastTicketAfterFailure == lastTicket

WriteFails ==
    /\ \/ pc = "record" /\ trade \notin tickets /\ "write" \in Faults
       \/ pc = "written" /\ "sync" \in Faults
    /\ pc' = "idle"
    /\ ProcessOnly
    /\ lastTicket' = LastTicketAfterFailure
    /\ UNCHANGED <<file, position, baseline, baselineTicket, memoryVars, trade,
                   announced>>

(* After the row: the journal's memory, the statistics, the notification.  *)
Remember ==
    /\ pc = "written"
    /\ tickets' = tickets \cup {trade}
    /\ lastTicket' = trade
    /\ statistics' = Append(statistics, trade)
    /\ announced' = Append(announced, trade)
    /\ pc' = "idle"
    /\ ProcessOnly
    /\ UNCHANGED <<file, position, baseline, baselineTicket, trade>>

----------------------------------------------------------------------------
(* The process: bootstrap loads the journal, which refuses duplicate       *)
(* tickets, and fills the statistics from it.                              *)

RowsOf(rows) == {rows[i] : i \in 1 .. Len(rows)}

Loadable == Cardinality(RowsOf(file)) = Len(file)

LoadedNothing == {}

Loaded == RowsOf(file)

NotHydrated == <<>>

Hydrated == file

Start ==
    /\ process = "down"
    /\ IF Loadable
       THEN /\ process' = "up"
            /\ tickets' = Loaded
            /\ statistics' = Hydrated
       ELSE process' = "broken" /\ UNCHANGED memoryVars
    /\ UNCHANGED <<exchangeVars, file, monitorVars, pc, trade, announced>>

Crash ==
    /\ "crash" \in Faults
    /\ process = "up"
    /\ process' = "down"
    /\ position' = FALSE /\ lastTicket' = 0
    /\ baseline' = FALSE /\ baselineTicket' = 0
    /\ tickets' = {} /\ statistics' = <<>>
    /\ pc' = "idle" /\ trade' = 0
    /\ UNCHANGED <<exchangeVars, file, announced>>

Update ==
    \/ ReadPosition \/ InspectFails
    \/ \E latest \in Listed : InspectClosedTrade(latest)
    \/ AlreadyJournaled \/ WriteRow \/ WriteFails \/ Remember

Next == Open \/ Close \/ Update \/ Start \/ Crash

Spec == Init /\ [][Next]_vars

(* The main loop polls for ever; the listing does not lag for ever and the *)
(* disk does not fail for ever.                                            *)
Fairness ==
    /\ WF_vars(ReadPosition) /\ SF_vars(InspectClosedTrade(closed))
    /\ WF_vars(AlreadyJournaled) /\ SF_vars(WriteRow) /\ SF_vars(Remember)
    /\ WF_vars(Start)

FairSpec == Spec /\ Fairness

----------------------------------------------------------------------------
(* Properties *)

MonitorTypeOK ==
    /\ open \in BOOLEAN /\ position \in BOOLEAN /\ baseline \in BOOLEAN
    /\ closed \in 0 .. MaxTrades
    /\ {lastTicket, trade, baselineTicket} \subseteq 0 .. closed
    /\ file \in Seq(1 .. closed) /\ statistics \in Seq(1 .. closed)
    /\ announced \in Seq(1 .. closed)
    /\ tickets \subseteq 1 .. closed
    /\ process \in {"down", "up", "broken"}
    /\ pc \in {"idle", "inspect", "record", "written"}

NoDuplicates(s) == Cardinality(RowsOf(s)) = Len(s)

(* Between two polls the statistics and the journal's memory are what the   *)
(* file would be loaded as; while a row is being recorded they are behind   *)
(* by that row.                                                             *)
MemoryMatchesFile ==
    process = "up" =>
        /\ tickets = RowsOf(statistics)
        /\ file = IF pc = "written" THEN Append(statistics, trade)
                                    ELSE statistics

(* The file never holds a trade twice, and a closing is announced at most   *)
(* once over all restarts and only after it is durable, whatever writes     *)
(* fail, however far the listing lags and wherever the process dies.        *)
RecordedThenAnnouncedOnce ==
    /\ NoDuplicates(file)
    /\ NoDuplicates(announced)
    /\ RowsOf(announced) \subseteq RowsOf(file)

(* The journal can be loaded again at the next start.                       *)
JournalLoadable == process # "broken"

(* The latest closed trade is journaled although writes and reads fail at   *)
(* first, unless it was there before the process looked for the first time, *)
(* or another trade closes first: only the latest one is ever read.         *)
LatestTradeJournaled ==
    \A t \in 1 .. MaxTrades :
        (process = "up" /\ baseline /\ closed = t /\ baselineTicket < t)
            ~> (t \in RowsOf(file) \/ closed # t \/ process # "up")
============================================================================
