--------------------------- MODULE BacktestProofs ---------------------------
(***************************************************************************)
(* Proofs about the backtest's half of the system, for all requests,       *)
(* prices, TTLs and numbers of candles: the simulated broker by itself,    *)
(* and the backtest that drives it, whose steps are steps of the broker.   *)
(***************************************************************************)
EXTENDS Backtest, FiniteSetTheorems, SequenceTheorems, WellFoundedInduction, TLAPS

(* The settlements of a position keep it or close it; a trade is the last   *)
(* one held.                                                                *)
LEMMA SettleKeeps ==
    ASSUME NEW held, NEW exits, Settle(held, exits)
    PROVE  \/ exits = {} /\ position' = held /\ lastTrade' = lastTrade
           \/ /\ exits # {} /\ position' = NoPosition
              /\ lastTrade'.ticket = held.ticket
              /\ lastTrade'.exit \in exits
BY DEF Settle

(* An entry rests only while no position is open (submit_entry and          *)
(* open_position of backtesting/simulated_broker.py refuse the other case,  *)
(* and a fill removes the entry before it opens the position).              *)
THEOREM EntryExcludesPosition == SimSpec => []EntryOrPosition
<1>1. SimInit => EntryOrPosition
  BY DEF SimInit, EntryOrPosition
<1>2. EntryOrPosition /\ [SimNext]_brokerVars => EntryOrPosition'
  <2> SUFFICES ASSUME EntryOrPosition, [SimNext]_brokerVars PROVE EntryOrPosition'
    OBVIOUS
  <2>1. CASE UNCHANGED <<pending, position>>
    BY <2>1 DEF EntryOrPosition
  <2>2. ASSUME NEW c, UpdateMarket(c) PROVE EntryOrPosition'
    <3>1. CASE EntryFills(c)
      BY <3>1 DEF EntryFills, EntryEnds, EntryOrPosition
    <3>2. CASE (EntryWaits(c) \/ EntryUntouched(c)) /\ PositionSees(c)
      <4>1. position' \in {position, NoPosition}
        BY <3>2, SettleKeeps DEF PositionSees
      <4>2. pending = NoEntry => pending' = NoEntry
        BY <3>2 DEF EntryWaits, EntrySees, EntryUntouched
      <4> QED
        BY <4>1, <4>2 DEF EntryOrPosition
    <3> QED
      BY <2>2, <3>1, <3>2 DEF UpdateMarket
  <2>3. ASSUME NEW id, NEW signal, SubmitEntry(id, signal) PROVE EntryOrPosition'
    BY <2>3, <2>1 DEF SubmitEntry, SubmissionRefused, PositionBlocksEntry, Answers,
       EntryOrPosition
  <2>4. ASSUME NEW id, CancelEntry(id) PROVE EntryOrPosition'
    BY <2>4, <2>1 DEF CancelEntry, EntryEnds, Answers, EntryOrPosition
  <2>5. ASSUME NEW id, OpenPosition(id) PROVE EntryOrPosition'
    BY <2>5, <2>1 DEF OpenPosition, Answers, EntryOrPosition
  <2>6. CASE ClosePosition
    <3>1. pending' = pending /\ position' \in {position, NoPosition}
      BY <2>6, SettleKeeps DEF ClosePosition, Answers
    <3> QED
      BY <3>1 DEF EntryOrPosition
  <2> QED
    BY <2>1, <2>2, <2>3, <2>4, <2>5, <2>6 DEF SimNext, brokerVars
<1> QED
  BY <1>1, <1>2, PTL DEF SimSpec

----------------------------------------------------------------------------
(* The simulated broker's invariant. *)

(* Only the resting entry is not over, and its order says what it says.     *)
RestingOK ==
    /\ pending # NoEntry =>
         /\ pending \in [id : Ids, status : {"SUBMITTED", "WORKING"}, age : 0 .. TTL - 1,
                         signal : 0 .. candle.time]
         /\ entries[pending.id] = pending.status
         /\ pending.age = candle.time - pending.signal
    /\ lastSeen = IF pending = NoEntry \/ pending.signal = candle.time THEN 0
                                                                       ELSE candle.time
    /\ \A id \in Ids : entries[id] \in PersistableStatuses =>
         pending # NoEntry /\ pending.id = id

(* Tickets are given in order, and the position held has the newest: every  *)
(* earlier one has been closed, the newest of them last.                    *)
TicketsOK ==
    /\ nextTicket \in 1 .. MaxTicket + 1
    /\ position # NoPosition =>
         /\ position.ticket = nextTicket - 1 /\ position.ticket # 0
         /\ position.id \in Ids
         /\ position.opened \in 0 .. candle.time
    /\ lastTrade.ticket = nextTicket - 1 - (IF position = NoPosition THEN 0 ELSE 1)
    /\ lastTrade.ticket = 0 => lastTrade = NoTrade

CandleOK ==
    /\ candle = NoCandle \/ candle \in Candles(candle.time)
    /\ candle.time \in 0 .. MaxCandle

SimInv ==
    /\ CandleOK
    /\ EntryOrPosition
    /\ entries \in [Ids -> PendingEntryStatus \cup {"none"}]
    /\ RestingOK
    /\ TicketsOK
    /\ outcome \in {"ok", "error", "rejected"}

LEMMA CandleTime ==
    ASSUME NEW time, NEW c \in Candles(time)
    PROVE  c.time = time
BY DEF Candles

(* The records that stand for nothing differ from every other one.          *)
LEMMA NothingElse ==
    /\ \A id, status, age, signal : status # "none" =>
         [id |-> id, status |-> status, age |-> age, signal |-> signal] # NoEntry
    /\ \A ticket, id, entry, opened : ticket # 0 =>
         [ticket |-> ticket, id |-> id, entry |-> entry, opened |-> opened] # NoPosition
BY DEF NoEntry, NoPosition

(* A resting entry sees a new candle, and never one twice.                  *)
LEMMA SeesNewCandles ==
    ASSUME SimInv, NEW c, c.time \in {candle.time, candle.time + 1}
    PROVE  /\ EntrySees(c) <=> pending # NoEntry /\ c.time = candle.time + 1
           /\ position # NoPosition =>
                (c.time = candle.time + 1 => c.time > position.opened)
<1> QED
  BY DEF EntrySees, SimInv, CandleOK, RestingOK, TicketsOK

LEMMA EndedEntryKept ==
    ASSUME SimInv, NEW status \in TerminalStatuses, EntryEnds(status), pending # NoEntry,
           candle'.time \in 0 .. MaxCandle
    PROVE  /\ pending' = NoEntry
           /\ entries' \in [Ids -> PendingEntryStatus \cup {"none"}]
           /\ RestingOK'
<1>1. status \notin PersistableStatuses /\ status \in PendingEntryStatus
  BY DEF TerminalStatuses, PersistableStatuses, PendingEntryStatus
<1>2. \A id \in Ids : entries'[id] = IF id = pending.id THEN status ELSE entries[id]
  BY DEF EntryEnds, SimInv
<1>3. entries' \in [Ids -> PendingEntryStatus \cup {"none"}] /\ pending' = NoEntry /\ lastSeen' = 0
  BY <1>1 DEF EntryEnds, SimInv
<1> QED
  BY <1>1, <1>2, <1>3 DEF SimInv, RestingOK

LEMMA SettledTickets ==
    ASSUME SimInv, NEW exits, NEW held,
           Settle(held, exits),
           nextTicket' \in 2 .. MaxTicket + 1, held.ticket = nextTicket' - 1,
           held.id \in Ids, held.opened \in 0 .. candle'.time,
           lastTrade.ticket = held.ticket - 1, held # NoPosition
    PROVE  TicketsOK'
<1>1. CASE exits = {}
  BY <1>1, SimulationBounds DEF Settle, SimInv, TicketsOK
<1>2. CASE exits # {}
  BY <1>2, SimulationBounds, SettleKeeps DEF SimInv, TicketsOK
<1> QED
  BY <1>1, <1>2

LEMMA MarketKeepsInv ==
    ASSUME SimInv, NEW time \in {candle.time, candle.time + 1} \ {0}, time <= MaxCandle,
           NEW c \in Candles(time), UpdateMarket(c)
    PROVE  SimInv'
<1>1. c.time = time /\ candle' = c /\ candle'.time \in 1 .. MaxCandle
  BY CandleTime, SimulationBounds DEF SimInv, CandleOK, UpdateMarket
<1>2. CandleOK' /\ outcome' = "ok"
  BY <1>1 DEF CandleOK, UpdateMarket
<1>3. CASE EntryFills(c)
  <2>1. pending # NoEntry /\ pending.id \in Ids /\ position = NoPosition
    BY <1>3 DEF EntryFills, EntrySees, SimInv, RestingOK, EntryOrPosition
  <2>2. RestingOK' /\ entries' \in [Ids -> PendingEntryStatus \cup {"none"}] /\ pending' = NoEntry
    BY <1>1, <1>3, <2>1, EndedEntryKept DEF EntryFills, TerminalStatuses
  <2> DEFINE held == Opened(pending.id, Requests[pending.id].entry, c.time)
  <2>3. /\ held.ticket = nextTicket /\ held.id = pending.id /\ held.opened = c.time
        /\ nextTicket \in 1 .. MaxTicket /\ nextTicket' = nextTicket + 1
        /\ held # NoPosition
    BY <1>3, SimulationBounds DEF EntryFills, Opened, SimInv, TicketsOK, NoPosition
  <2>4. Settle(held, FillExit(Requests[pending.id], c))
    BY <1>3 DEF EntryFills
  <2>5. TicketsOK'
    <3>1. /\ nextTicket' \in 2 .. MaxTicket + 1 /\ held.ticket = nextTicket' - 1
          /\ held.opened \in 0 .. candle'.time /\ lastTrade.ticket = held.ticket - 1
      BY <1>1, <2>1, <2>3, SimulationBounds DEF SimInv, TicketsOK
    <3> HIDE DEF held
    <3> QED
      BY <2>1, <2>3, <2>4, <3>1, SettledTickets
  <2> QED
    BY <1>2, <2>2, <2>5 DEF SimInv, EntryOrPosition
<1>4. CASE (EntryWaits(c) \/ EntryUntouched(c)) /\ PositionSees(c)
  <2>1. nextTicket' = nextTicket
    BY <1>4 DEF EntryWaits, EntryUntouched
  <2>2. TicketsOK' /\ (position = NoPosition => position' = NoPosition)
    <3>1. CASE UNCHANGED <<position, lastTrade>>
      BY <1>1, <2>1, <3>1 DEF SimInv, TicketsOK, CandleOK
    <3>2. ASSUME position # NoPosition, Settle(position, PositionExit(Requests[position.id], c))
          PROVE  TicketsOK'
      BY <1>1, <2>1, <3>2, SettledTickets, SimulationBounds DEF SimInv, TicketsOK, CandleOK
    <3> QED
      BY <1>4, <3>1, <3>2 DEF PositionSees
  <2>3. CASE EntryUntouched(c)
    <3>1. ~(pending # NoEntry /\ c.time = candle.time + 1)
      BY <1>1, <2>3, SeesNewCandles DEF EntryUntouched
    <3>2. pending' = pending /\ entries' = entries /\ lastSeen' = lastSeen
      BY <2>3 DEF EntryUntouched
    <3>3. RestingOK'
      BY <1>1, <3>1, <3>2 DEF SimInv, RestingOK
    <3> QED
      BY <1>2, <2>2, <3>2, <3>3 DEF SimInv, EntryOrPosition
  <2>4. CASE EntryWaits(c)
    <3>1. pending # NoEntry /\ c.time = candle.time + 1 /\ position = NoPosition
      BY <1>1, <2>4, SeesNewCandles DEF EntryWaits, SimInv, EntryOrPosition
    <3>2. CASE AgedOut(pending.age + 1)
      <4>1. EntryEnds("EXPIRED")
        BY <2>4, <3>2 DEF EntryWaits
      <4> QED
        BY <1>1, <1>2, <2>2, <3>1, <4>1, EndedEntryKept DEF SimInv, EntryOrPosition, TerminalStatuses
    <3>3. CASE ~AgedOut(pending.age + 1)
      <4>1. /\ pending' = [pending EXCEPT !.age = @ + 1, !.status = "WORKING"]
            /\ entries' = [entries EXCEPT ![pending.id] = "WORKING"]
            /\ lastSeen' = c.time
        BY <2>4, <3>3 DEF EntryWaits
      <4>2. TTL \in Nat /\ pending.age + 1 < TTL
        BY <3>1, <3>3, SimulationBounds DEF AgedOut, SimInv, RestingOK
      <4>3. pending' \in [id : Ids, status : {"SUBMITTED", "WORKING"}, age : 0 .. TTL - 1,
                          signal : 0 .. c.time]
            /\ pending'.status = "WORKING" /\ pending'.id = pending.id
            /\ pending'.age = pending.age + 1 /\ pending'.signal = pending.signal
        <5>1. pending \in [id : Ids, status : {"SUBMITTED", "WORKING"}, age : 0 .. TTL - 1,
                           signal : 0 .. candle.time]
          BY <3>1 DEF SimInv, RestingOK
        <5>2. candle.time \in Nat /\ c.time \in Nat /\ candle.time <= c.time
          BY <1>1, <3>1 DEF SimInv, CandleOK
        <5>3. pending.signal \in 0 .. c.time /\ pending.age + 1 \in 0 .. TTL - 1
          BY <4>2, <5>1, <5>2
        <5> QED
          BY <4>1, <5>1, <5>3
      <4>4. pending' # NoEntry
        BY <4>3 DEF NoEntry
      <4>5. \A id \in Ids : entries'[id] = IF id = pending.id THEN "WORKING" ELSE entries[id]
        BY <4>1 DEF SimInv
      <4>6. entries' \in [Ids -> PendingEntryStatus \cup {"none"}]
        BY <4>1 DEF SimInv, PendingEntryStatus, PersistableStatuses
      <4>7. pending.age = candle.time - pending.signal /\ pending.signal \in 0 .. candle.time
        BY <3>1 DEF SimInv, RestingOK
      <4>8. \A id \in Ids : entries'[id] \in PersistableStatuses => id = pending.id
        BY <4>5 DEF SimInv, RestingOK
      <4>9. RestingOK'
        BY <1>1, <3>1, <4>1, <4>3, <4>4, <4>5, <4>7, <4>8 DEF RestingOK, SimInv, CandleOK
      <4> QED
        BY <1>2, <2>2, <3>1, <4>6, <4>9 DEF SimInv, EntryOrPosition
    <3> QED
      BY <3>2, <3>3
  <2> QED
    BY <1>4, <2>3, <2>4
<1> QED
  BY <1>3, <1>4 DEF UpdateMarket

LEMMA AnswersKeepsInv ==
    ASSUME SimInv, NEW o \in {"ok", "error", "rejected"}, Answers(o)
    PROVE  SimInv'
BY DEF Answers, SimInv, CandleOK, RestingOK, TicketsOK, EntryOrPosition

LEMMA SubmitKeepsInv ==
    ASSUME SimInv, NEW id \in Ids, SubmitEntry(id, candle.time)
    PROVE  SimInv'
<1>1. CASE Answers("error") \/ Answers("ok")
  BY <1>1, AnswersKeepsInv
<1>2. CASE ~SubmissionRefused(id, candle.time) /\ pending = NoEntry
             /\ ~(Answers("error") \/ Answers("ok"))
  <2>1. position = NoPosition /\ UNCHANGED <<candle, position, lastTrade, nextTicket>>
    BY <1>2 DEF SubmissionRefused, PositionBlocksEntry, SubmitEntry
  <2>2. CandleOK' /\ TicketsOK' /\ EntryOrPosition'
    BY <2>1 DEF SimInv, CandleOK, TicketsOK, EntryOrPosition
  <2>3. \A i \in Ids : entries[i] \notin PersistableStatuses
    BY <1>2 DEF SimInv, RestingOK
  <2>4. CASE LevelsValid(Requests[id], Requests[id].entry)
    <3>1. /\ pending' = [id |-> id, status |-> "SUBMITTED", age |-> 0, signal |-> candle.time]
          /\ entries' = [entries EXCEPT ![id] = "SUBMITTED"]
          /\ lastSeen' = 0 /\ outcome' = "ok" /\ candle' = candle
      BY <1>2, <2>4 DEF SubmitEntry
    <3>2. pending' # NoEntry
      BY <3>1, NothingElse
    <3>3. pending' \in [id : Ids, status : {"SUBMITTED", "WORKING"}, age : 0 .. TTL - 1,
                       signal : 0 .. candle.time]
      BY <3>1, SimulationBounds DEF SimInv, CandleOK
    <3>4. \A i \in Ids : entries'[i] = IF i = id THEN "SUBMITTED" ELSE entries[i]
      BY <3>1 DEF SimInv
    <3>5. RestingOK'
      BY <2>3, <3>1, <3>2, <3>3, <3>4 DEF RestingOK, SimInv, CandleOK
    <3> QED
      BY <2>2, <3>1, <3>5 DEF SimInv, PendingEntryStatus, PersistableStatuses
  <2>5. CASE ~LevelsValid(Requests[id], Requests[id].entry)
    <3>1. /\ entries' = [entries EXCEPT ![id] = "REJECTED"] /\ outcome' = "rejected"
          /\ pending' = pending /\ lastSeen' = lastSeen /\ candle' = candle
      BY <1>2, <2>5 DEF SubmitEntry
    <3>2. \A i \in Ids : entries'[i] = IF i = id THEN "REJECTED" ELSE entries[i]
      BY <3>1 DEF SimInv
    <3>3. RestingOK'
      BY <1>2, <2>3, <3>1, <3>2 DEF RestingOK, SimInv, PersistableStatuses
    <3> QED
      BY <2>2, <3>1, <3>3 DEF SimInv, PendingEntryStatus, TerminalStatuses
  <2> QED
    BY <2>4, <2>5
<1> QED
  BY <1>1, <1>2 DEF SubmitEntry

LEMMA CancelKeepsInv ==
    ASSUME SimInv, NEW id \in Ids, CancelEntry(id)
    PROVE  SimInv'
<1>1. CASE Answers("ok")
  BY <1>1, AnswersKeepsInv
<1>2. CASE ~Answers("ok")
  <2>1. /\ entries[id] \notin TerminalStatuses \cup {"none"}
        /\ EntryEnds("CANCELLED") /\ outcome' = "ok"
        /\ UNCHANGED <<candle, position, lastTrade, nextTicket>>
    BY <1>2 DEF CancelEntry
  <2>2. pending # NoEntry
    BY <2>1 DEF SimInv, RestingOK, PendingEntryStatus
  <2>3. pending' = NoEntry /\ entries' \in [Ids -> PendingEntryStatus \cup {"none"}] /\ RestingOK'
    BY <2>1, <2>2, EndedEntryKept DEF SimInv, CandleOK, TerminalStatuses
  <2> QED
    BY <2>1, <2>3 DEF SimInv, CandleOK, TicketsOK, EntryOrPosition
<1> QED
  BY <1>1, <1>2

LEMMA OpenKeepsInv ==
    ASSUME SimInv, NEW id \in Ids, OpenPosition(id)
    PROVE  SimInv'
<1>1. CASE Answers("error")
  BY <1>1, AnswersKeepsInv
<1>2. CASE ~Answers("error")
  <2>1. /\ position = NoPosition /\ pending = NoEntry /\ nextTicket <= MaxTicket
        /\ UNCHANGED <<candle, pending, entries, lastSeen, lastTrade>>
    BY <1>2 DEF OpenPosition
  <2>2. CASE UNCHANGED <<position, nextTicket>> /\ outcome' = "rejected"
    BY <2>1, <2>2 DEF SimInv, CandleOK, RestingOK, TicketsOK, EntryOrPosition
  <2>3. CASE position' = Opened(id, candle.close, candle.time) /\ nextTicket' = nextTicket + 1
             /\ outcome' = "ok"
    <3>1. nextTicket \in 1 .. MaxTicket
      BY <2>1, SimulationBounds DEF SimInv, TicketsOK
    <3>2. /\ position' # NoPosition /\ position'.ticket = nextTicket
          /\ position'.id = id /\ position'.opened = candle.time
      BY <2>3, <3>1 DEF Opened, NoPosition
    <3>3. lastTrade.ticket = nextTicket - 1 /\ (lastTrade.ticket = 0 => lastTrade = NoTrade)
      BY <2>1, <3>1 DEF SimInv, TicketsOK
    <3>4. TicketsOK'
      BY <2>1, <2>3, <3>1, <3>2, <3>3, SimulationBounds DEF TicketsOK, SimInv, CandleOK
    <3> QED
      BY <2>1, <2>3, <3>4 DEF SimInv, CandleOK, RestingOK, EntryOrPosition
  <2> QED
    BY <1>2, <2>2, <2>3 DEF OpenPosition
<1> QED
  BY <1>1, <1>2

LEMMA CloseKeepsInv ==
    ASSUME SimInv, ClosePosition
    PROVE  SimInv'
<1>1. CASE Answers("error")
  BY <1>1, AnswersKeepsInv
<1>2. CASE ~Answers("error")
  <2>1. /\ position # NoPosition /\ Settle(position, {candle.close}) /\ outcome' = "ok"
        /\ UNCHANGED <<candle, pending, entries, lastSeen, nextTicket>>
    BY <1>2 DEF ClosePosition
  <2>2. position' = NoPosition /\ lastTrade'.ticket = position.ticket
    BY <2>1, SettleKeeps
  <2>3. TicketsOK'
    BY <2>1, <2>2 DEF SimInv, TicketsOK
  <2> QED
    BY <2>1, <2>2, <2>3 DEF SimInv, CandleOK, RestingOK, EntryOrPosition
<1> QED
  BY <1>1, <1>2

LEMMA SimInvKept == SimInv /\ [SimNext]_brokerVars => SimInv'
<1> SUFFICES ASSUME SimInv, [SimNext]_brokerVars PROVE SimInv'
  OBVIOUS
<1>1. CASE UNCHANGED brokerVars
  BY <1>1 DEF brokerVars, SimInv, CandleOK, RestingOK, TicketsOK, EntryOrPosition
<1> QED
  BY <1>1, MarketKeepsInv, SubmitKeepsInv, CancelKeepsInv, OpenKeepsInv, CloseKeepsInv DEF SimNext

LEMMA SimInvInit == SimInit => SimInv
<1> SUFFICES ASSUME SimInit PROVE SimInv
  OBVIOUS
<1>1. CandleOK
  BY SimulationBounds DEF SimInit, CandleOK, NoCandle
<1>2. TicketsOK
  BY SimulationBounds DEF SimInit, TicketsOK, NoTrade
<1>3. RestingOK
  BY DEF SimInit, RestingOK, PersistableStatuses
<1> QED
  BY <1>1, <1>2, <1>3 DEF SimInit, SimInv, EntryOrPosition

LEMMA SimInvariant == SimSpec => []SimInv
BY SimInvInit, SimInvKept, PTL DEF SimSpec

(* The simulated broker's fields keep their types.                          *)
THEOREM SimTypeCorrect == SimSpec => []SimTypeOK
<1>1. SimInv => SimTypeOK
  <2> SUFFICES ASSUME SimInv PROVE SimTypeOK
    OBVIOUS
  <2>1. {position.ticket, lastTrade.ticket} \subseteq 0 .. nextTicket - 1
    BY SimulationBounds DEF SimInv, TicketsOK, NoPosition
  <2>2. lastSeen \in 0 .. MaxCandle
    BY SimulationBounds DEF SimInv, RestingOK, CandleOK
  <2> QED
    BY <2>1, <2>2 DEF SimInv, SimTypeOK, CandleOK, RestingOK, TicketsOK
<1> QED
  BY <1>1, SimInvariant, PTL

(* A resting entry has lived through every candle after its signal exactly  *)
(* once and never outlives its TTL (_process_pending_entry).                *)
THEOREM LivesCandles == SimSpec => []LivesItsCandles
<1>1. SimInv => LivesItsCandles
  BY SimulationBounds DEF SimInv, RestingOK, LivesItsCandles
<1> QED
  BY <1>1, SimInvariant, PTL

----------------------------------------------------------------------------
(* Candles against the ways the price may take within them. *)

Points(path) == {path[i] : i \in 1 .. Len(path)}

LEMMA PointsOfConcat ==
    ASSUME NEW s \in Seq(Int), NEW t \in Seq(Int), Len(s) > 0
    PROVE  /\ s \o t \in Seq(Int) /\ Len(s \o t) = Len(s) + Len(t)
           /\ (s \o t)[1] = s[1]
           /\ Points(s \o t) = Points(s) \cup Points(t)
<1>1. /\ s \o t \in Seq(Int) /\ Len(s \o t) = Len(s) + Len(t)
      /\ \A i \in 1 .. Len(s) + Len(t) :
           (s \o t)[i] = IF i <= Len(s) THEN s[i] ELSE t[i - Len(s)]
  BY ConcatProperties
<1>2. Len(s) \in Nat /\ Len(t) \in Nat
  OBVIOUS
<1>3. \A x \in Points(s \o t) : x \in Points(s) \cup Points(t)
  <2> SUFFICES ASSUME NEW i \in 1 .. Len(s) + Len(t)
               PROVE  (s \o t)[i] \in Points(s) \cup Points(t)
    BY <1>1 DEF Points
  <2>1. i <= Len(s) => i \in 1 .. Len(s)
    BY <1>2
  <2>2. ~(i <= Len(s)) => i - Len(s) \in 1 .. Len(t)
    BY <1>2
  <2> QED
    BY <1>1, <2>1, <2>2 DEF Points
<1>4. \A x \in Points(s) : x \in Points(s \o t)
  <2> SUFFICES ASSUME NEW i \in 1 .. Len(s) PROVE s[i] \in Points(s \o t)
    BY DEF Points
  <2>1. i \in 1 .. Len(s) + Len(t) /\ i <= Len(s)
    BY <1>2
  <2> QED
    BY <1>1, <2>1 DEF Points
<1>5. \A x \in Points(t) : x \in Points(s \o t)
  <2> SUFFICES ASSUME NEW i \in 1 .. Len(t) PROVE t[i] \in Points(s \o t)
    BY DEF Points
  <2>1. /\ Len(s) + i \in 1 .. Len(s) + Len(t) /\ ~(Len(s) + i <= Len(s))
        /\ Len(s) + i - Len(s) = i
    BY <1>2
  <2>2. (s \o t)[Len(s) + i] = t[i]
    BY <1>1, <2>1
  <2> QED
    BY <1>1, <2>1, <2>2 DEF Points
<1> QED
  BY <1>1, <1>2, <1>3, <1>4, <1>5

LEMMA WalkFacts ==
    ASSUME NEW a \in Int, NEW b \in Int
    PROVE  /\ Walk(a, b) \in Seq(Int) /\ Len(Walk(a, b)) > 0
           /\ Walk(a, b)[1] = a
           /\ {a, b} \subseteq Points(Walk(a, b))
           /\ Points(Walk(a, b)) \subseteq IF a <= b THEN a .. b ELSE b .. a
<1> DEFINE n == Distance(a, b) + 1
<1>1. n \in Nat \ {0} /\ n = IF a <= b THEN b - a + 1 ELSE a - b + 1
  BY DEF Distance
<1>2. Walk(a, b) = [i \in 1 .. n |-> IF a <= b THEN a + i - 1 ELSE a - i + 1]
  BY DEF Walk
<1> HIDE DEF n
<1>3. \A i \in 1 .. n : Walk(a, b)[i] = IF a <= b THEN a + i - 1 ELSE a - i + 1
  BY <1>2
<1>4. Walk(a, b) \in Seq(Int) /\ Len(Walk(a, b)) = n
  BY <1>1, <1>2
<1>5. Walk(a, b)[1] = a /\ Walk(a, b)[n] = b
  BY <1>1, <1>3
<1>6. \A i \in 1 .. n : Walk(a, b)[i] \in IF a <= b THEN a .. b ELSE b .. a
  BY <1>1, <1>3
<1>7. 1 \in 1 .. n /\ n \in 1 .. n
  BY <1>1
<1> QED
  BY <1>1, <1>4, <1>5, <1>6, <1>7 DEF Points

LEMMA WalkStaysWithin ==
    ASSUME NEW lo \in Int, NEW hi \in Int, NEW a \in lo .. hi, NEW b \in lo .. hi
    PROVE  Points(Walk(a, b)) \subseteq lo .. hi
<1>1. Points(Walk(a, b)) \subseteq IF a <= b THEN a .. b ELSE b .. a
  BY WalkFacts
<1>2. a .. b \subseteq lo .. hi /\ b .. a \subseteq lo .. hi
  OBVIOUS
<1> QED
  BY <1>1, <1>2

(* Every way the price may take within a candle starts at its open, reaches *)
(* both of its extremes and leaves neither.                                 *)
LEMMA PathFacts ==
    ASSUME NEW time, NEW c \in Candles(time), NEW path \in PricePaths(c)
    PROVE  /\ {c.open, c.low, c.high, c.close} \subseteq Int
           /\ path \in Seq(Int) /\ Len(path) > 0
           /\ path[1] = c.open
           /\ {c.low, c.high} \subseteq Points(path)
           /\ Points(path) \subseteq c.low .. c.high
<1>1. /\ c.open \in Int /\ c.low \in Int /\ c.high \in Int /\ c.close \in Int
      /\ c.low <= c.open /\ c.open <= c.high /\ c.low <= c.close /\ c.close <= c.high
  BY PricesAssumption DEF Candles
<1>2. ASSUME NEW p \in Int, NEW q \in Int, <<p, q>> \in {<<c.low, c.high>>, <<c.high, c.low>>},
             path = Walk(c.open, p) \o Walk(p, q) \o Walk(q, c.close)
      PROVE  /\ path \in Seq(Int) /\ Len(path) > 0
             /\ path[1] = c.open
             /\ {c.low, c.high} \subseteq Points(path)
             /\ Points(path) \subseteq c.low .. c.high
  <2> DEFINE u == Walk(c.open, p)
             v == Walk(p, q)
             w == Walk(q, c.close)
  <2>1. /\ u \in Seq(Int) /\ Len(u) > 0 /\ u[1] = c.open
        /\ v \in Seq(Int) /\ Len(v) > 0 /\ {p, q} \subseteq Points(v)
        /\ w \in Seq(Int) /\ Len(w) > 0
    BY <1>1, WalkFacts
  <2>2. c.open \in c.low .. c.high /\ c.close \in c.low .. c.high
        /\ p \in c.low .. c.high /\ q \in c.low .. c.high
    <3>1. p \in {c.low, c.high} /\ q \in {c.low, c.high} /\ c.low <= c.high
      BY <1>1, <1>2
    <3> QED
      BY <1>1, <3>1
  <2>3. Points(u) \subseteq c.low .. c.high
    BY <1>1, <2>2, WalkStaysWithin
  <2>4. Points(v) \subseteq c.low .. c.high /\ Points(w) \subseteq c.low .. c.high
    BY <1>1, <2>2, WalkStaysWithin
  <2> HIDE DEF u, v, w
  <2>5. /\ u \o v \in Seq(Int) /\ Len(u \o v) > 0 /\ (u \o v)[1] = c.open
        /\ Points(u \o v) = Points(u) \cup Points(v)
    BY <2>1, PointsOfConcat
  <2> DEFINE uv == u \o v
  <2> HIDE DEF uv
  <2>6. /\ uv \o w \in Seq(Int) /\ Len(uv \o w) = Len(uv) + Len(w) /\ (uv \o w)[1] = c.open
        /\ Points(uv \o w) = Points(uv) \cup Points(w)
    BY <2>1, <2>5, PointsOfConcat DEF uv
  <2>7. path = uv \o w /\ uv = u \o v
    BY <1>2 DEF u, v, w, uv
  <2>8. Len(uv) \in Nat /\ Len(uv) > 0 /\ Len(w) \in Nat /\ Len(w) > 0
    BY <2>1, <2>5, <2>7
  <2>9. {c.low, c.high} \subseteq Points(v)
    BY <1>2, <2>1
  <2>10. Points(path) = Points(u) \cup Points(v) \cup Points(w)
    BY <2>5, <2>6, <2>7
  <2>11. Points(path) \subseteq c.low .. c.high
    BY <2>3, <2>4, <2>10
  <2>12. {c.low, c.high} \subseteq Points(path)
    BY <2>9, <2>10
  <2>13. path \in Seq(Int) /\ path[1] = c.open /\ Len(path) = Len(uv) + Len(w)
    BY <2>6, <2>7
  <2> QED
    BY <2>8, <2>11, <2>12, <2>13
<1>3. \/ path = Walk(c.open, c.high) \o Walk(c.high, c.low) \o Walk(c.low, c.close)
      \/ path = Walk(c.open, c.low) \o Walk(c.low, c.high) \o Walk(c.high, c.close)
  BY DEF PricePaths
<1> QED
  BY <1>1, <1>2, <1>3

(* What a candle's extremes say of a level, its ways say too.               *)
LEMMA LevelsOfPaths ==
    ASSUME NEW time, NEW c \in Candles(time), NEW path \in PricePaths(c), NEW r \in Request
    PROVE  /\ Reaches(r, path) <=> MarketableAtOpen(r, c) \/ Touched(r, c)
           /\ (\E i \in 1 .. Len(path) : Losing(r, path[i], r.stop)) <=> StopTouched(r, c)
           /\ (\E i \in 1 .. Len(path) : Losing(r, r.target, path[i])) <=> TargetTouched(r, c)
           /\ Losing(r, path[1], r.entry) <=> MarketableAtOpen(r, c)
<1>1. /\ c.open \in Int /\ c.low \in Int /\ c.high \in Int
      /\ c.low <= c.open /\ c.open <= c.high
  BY PricesAssumption DEF Candles
<1>2. /\ Len(path) \in Nat /\ Len(path) > 0 /\ path[1] = c.open
      /\ \A i \in 1 .. Len(path) : path[i] \in Int /\ c.low <= path[i] /\ path[i] <= c.high
      /\ \E i \in 1 .. Len(path) : path[i] = c.low
      /\ \E i \in 1 .. Len(path) : path[i] = c.high
  <2>1. /\ path \in Seq(Int) /\ Len(path) > 0 /\ path[1] = c.open
        /\ {c.low, c.high} \subseteq Points(path) /\ Points(path) \subseteq c.low .. c.high
    BY PathFacts
  <2>2. \A i \in 1 .. Len(path) : path[i] \in c.low .. c.high
    BY <2>1 DEF Points
  <2>3. (\E i \in 1 .. Len(path) : path[i] = c.low) /\ (\E i \in 1 .. Len(path) : path[i] = c.high)
    BY <2>1 DEF Points
  <2>4. Len(path) \in Nat
    BY <2>1
  <2> QED
    BY <1>1, <2>1, <2>2, <2>3, <2>4
<1>3. r.entry \in Int /\ r.stop \in Int /\ r.target \in Int
  BY DEF Request
<1>4. ASSUME NEW level \in Int
      PROVE  /\ (\E i \in 1 .. Len(path) : path[i] <= level) <=> c.low <= level
             /\ (\E i \in 1 .. Len(path) : path[i] >= level) <=> c.high >= level
             /\ (\E i \in 1 .. Len(path) : level <= path[i]) <=> c.high >= level
             /\ (\E i \in 1 .. Len(path) : level >= path[i]) <=> c.low <= level
  <2>1. (\E i \in 1 .. Len(path) : path[i] <= level) <=> c.low <= level
    BY <1>1, <1>2
  <2>2. (\E i \in 1 .. Len(path) : path[i] >= level) <=> c.high >= level
    BY <1>1, <1>2
  <2>3. \A i \in 1 .. Len(path) : /\ path[i] <= level <=> level >= path[i]
                                  /\ path[i] >= level <=> level <= path[i]
    BY <1>2
  <2> QED
    BY <2>1, <2>2, <2>3
<1>5. Reaches(r, path) <=> IF r.decision = "BUY" THEN c.low <= r.entry ELSE c.high >= r.entry
  BY <1>3, <1>4 DEF Reaches, Losing
<1>6. MarketableAtOpen(r, c) \/ Touched(r, c)
        <=> IF r.decision = "BUY" THEN c.low <= r.entry ELSE c.high >= r.entry
  BY <1>1, <1>3 DEF MarketableAtOpen, Touched
<1>7. (\E i \in 1 .. Len(path) : Losing(r, path[i], r.stop)) <=> StopTouched(r, c)
  BY <1>3, <1>4 DEF Losing, StopTouched
<1>8. (\E i \in 1 .. Len(path) : Losing(r, r.target, path[i])) <=> TargetTouched(r, c)
  BY <1>3, <1>4 DEF Losing, TargetTouched
<1>9. Losing(r, path[1], r.entry) <=> MarketableAtOpen(r, c)
  BY <1>2 DEF Losing, MarketableAtOpen
<1> QED
  BY <1>5, <1>6, <1>7, <1>8, <1>9

LEMMA MinIsLeast ==
    ASSUME NEW S, S \subseteq Nat, S # {}
    PROVE  Min(S) \in S /\ \A n \in S : Min(S) <= n
<1>1. \E m \in S : \A n \in S : ~(<<n, m>> \in OpToRel(<, Nat))
  BY NatLessThanWellFounded, WFMin
<1>2. PICK m \in S : \A n \in S : ~(<<n, m>> \in OpToRel(<, Nat))
  BY <1>1
<1>3. \A n \in S : ~(n < m)
  BY <1>2 DEF OpToRel
<1>4. \A n \in S : m =< n
  BY <1>3
<1> QED
  BY <1>4 DEF Min

(* The price moves by steps of one, and ends at the close.                  *)
StepsByOne(path) == \A i \in 2 .. Len(path) : path[i] - path[i - 1] \in {-1, 0, 1}

LEMMA StepsOfConcat ==
    ASSUME NEW s \in Seq(Int), NEW t \in Seq(Int), Len(s) > 0, Len(t) > 0,
           StepsByOne(s), StepsByOne(t), s[Len(s)] = t[1]
    PROVE  /\ s \o t \in Seq(Int) /\ Len(s \o t) > 0
           /\ StepsByOne(s \o t)
           /\ (s \o t)[Len(s \o t)] = t[Len(t)]
<1>1. /\ s \o t \in Seq(Int) /\ Len(s \o t) = Len(s) + Len(t)
      /\ \A i \in 1 .. Len(s) + Len(t) :
           (s \o t)[i] = IF i <= Len(s) THEN s[i] ELSE t[i - Len(s)]
  BY ConcatProperties
<1>2. Len(s) \in Nat /\ Len(t) \in Nat
  OBVIOUS
<1>3. ASSUME NEW i \in 2 .. Len(s) + Len(t)
      PROVE  (s \o t)[i] - (s \o t)[i - 1] \in {-1, 0, 1}
  <2>1. i \in 1 .. Len(s) + Len(t) /\ i - 1 \in 1 .. Len(s) + Len(t)
    BY <1>2
  <2>2. CASE i <= Len(s)
    <3>1. (s \o t)[i] = s[i] /\ (s \o t)[i - 1] = s[i - 1] /\ i \in 2 .. Len(s)
      BY <1>1, <1>2, <2>1, <2>2
    <3> QED
      BY <3>1 DEF StepsByOne
  <2>3. CASE i = Len(s) + 1
    <3>1. (s \o t)[i] = t[1] /\ (s \o t)[i - 1] = s[Len(s)]
      BY <1>1, <1>2, <2>1, <2>3
    <3>2. t[1] \in Int
      BY <1>2
    <3> QED
      BY <3>1, <3>2
  <2>4. CASE i > Len(s) + 1
    <3> DEFINE j == i - Len(s)
    <3>1. j \in 2 .. Len(t) /\ (s \o t)[i] = t[j] /\ (s \o t)[i - 1] = t[j - 1]
      BY <1>1, <1>2, <2>1, <2>4
    <3> QED
      BY <3>1 DEF StepsByOne
  <2> QED
    BY <1>2, <2>2, <2>3, <2>4
<1>4. (s \o t)[Len(s) + Len(t)] = t[Len(t)]
  BY <1>1, <1>2
<1> DEFINE st == s \o t
<1>5. st \in Seq(Int) /\ Len(st) = Len(s) + Len(t) /\ Len(st) > 0
  BY <1>1, <1>2
<1> HIDE DEF st
<1>6. StepsByOne(st)
  BY <1>3, <1>5 DEF StepsByOne, st
<1>7. st[Len(st)] = t[Len(t)]
  BY <1>4, <1>5 DEF st
<1> QED
  BY <1>5, <1>6, <1>7 DEF st

LEMMA WalkSteps ==
    ASSUME NEW a \in Int, NEW b \in Int
    PROVE  /\ Walk(a, b) \in Seq(Int) /\ Len(Walk(a, b)) > 0
           /\ StepsByOne(Walk(a, b))
           /\ Walk(a, b)[1] = a /\ Walk(a, b)[Len(Walk(a, b))] = b
<1> DEFINE n == Distance(a, b) + 1
<1>1. n \in Nat \ {0} /\ n = IF a <= b THEN b - a + 1 ELSE a - b + 1
  BY DEF Distance
<1>2. Walk(a, b) = [i \in 1 .. n |-> IF a <= b THEN a + i - 1 ELSE a - i + 1]
  BY DEF Walk
<1> HIDE DEF n
<1>3. \A i \in 1 .. n : Walk(a, b)[i] = IF a <= b THEN a + i - 1 ELSE a - i + 1
  BY <1>2
<1>4. Walk(a, b) \in Seq(Int) /\ Len(Walk(a, b)) = n
  BY <1>1, <1>2
<1>5. Walk(a, b)[1] = a /\ Walk(a, b)[n] = b
  BY <1>1, <1>3
<1>6. \A i \in 2 .. n : Walk(a, b)[i] - Walk(a, b)[i - 1] \in {-1, 0, 1}
  <2> SUFFICES ASSUME NEW i \in 2 .. n PROVE Walk(a, b)[i] - Walk(a, b)[i - 1] \in {-1, 0, 1}
    OBVIOUS
  <2>1. i \in 1 .. n /\ i - 1 \in 1 .. n
    BY <1>1
  <2> QED
    BY <1>3, <2>1
<1> QED
  BY <1>1, <1>4, <1>5, <1>6 DEF StepsByOne

LEMMA PathSteps ==
    ASSUME NEW time, NEW c \in Candles(time), NEW path \in PricePaths(c)
    PROVE  StepsByOne(path) /\ path[Len(path)] = c.close
<1>1. c.open \in Int /\ c.low \in Int /\ c.high \in Int /\ c.close \in Int
  BY PricesAssumption DEF Candles
<1>2. ASSUME NEW p \in Int, NEW q \in Int,
             path = Walk(c.open, p) \o Walk(p, q) \o Walk(q, c.close)
      PROVE  StepsByOne(path) /\ path[Len(path)] = c.close
  <2> DEFINE u == Walk(c.open, p)
             v == Walk(p, q)
             w == Walk(q, c.close)
  <2>1. /\ u \in Seq(Int) /\ Len(u) > 0 /\ StepsByOne(u) /\ u[Len(u)] = p
        /\ v \in Seq(Int) /\ Len(v) > 0 /\ StepsByOne(v) /\ v[1] = p /\ v[Len(v)] = q
        /\ w \in Seq(Int) /\ Len(w) > 0 /\ StepsByOne(w) /\ w[1] = q /\ w[Len(w)] = c.close
    BY <1>1, WalkSteps
  <2> HIDE DEF u, v, w
  <2> DEFINE uv == u \o v
  <2>2. uv \in Seq(Int) /\ Len(uv) > 0 /\ StepsByOne(uv) /\ uv[Len(uv)] = q
    BY <2>1, StepsOfConcat
  <2> HIDE DEF uv
  <2>3. StepsByOne(uv \o w) /\ (uv \o w)[Len(uv \o w)] = c.close
    BY <2>1, <2>2, StepsOfConcat
  <2>4. path = uv \o w
    BY <1>2 DEF u, v, w, uv
  <2> QED
    BY <2>3, <2>4
<1>3. \/ path = Walk(c.open, c.high) \o Walk(c.high, c.low) \o Walk(c.low, c.close)
      \/ path = Walk(c.open, c.low) \o Walk(c.low, c.high) \o Walk(c.high, c.close)
  BY DEF PricePaths
<1> QED
  BY <1>1, <1>2, <1>3

(* A path moves the position from its first point on if the position was    *)
(* held or the entry is filled at the open, and otherwise from the first    *)
(* point at the entry, which is no worse than the entry.                   *)
LEMMA SinceFacts ==
    ASSUME NEW path \in Seq(Int), Len(path) > 0, NEW r \in Request, NEW held \in BOOLEAN,
           held \/ Reaches(r, path)
    PROVE  /\ Since(r, path, held) \in 1 .. Len(path)
           /\ held \/ Losing(r, path[1], r.entry) => Since(r, path, held) = 1
           /\ ~held => /\ Losing(r, path[Since(r, path, held)], r.entry)
                       /\ \A i \in 1 .. Len(path) :
                            Losing(r, path[i], r.entry) => Since(r, path, held) <= i
<1> DEFINE reached == {i \in 1 .. Len(path) : Losing(r, path[i], r.entry)}
<1>1. Len(path) \in Nat /\ 1 \in 1 .. Len(path)
  OBVIOUS
<1>2. CASE held
  BY <1>1, <1>2 DEF Since
<1>3. CASE ~held
  <2>1. reached \subseteq Nat /\ reached # {}
    BY <1>3 DEF Reaches
  <2>2. Min(reached) \in reached /\ \A n \in reached : Min(reached) <= n
    BY <2>1, MinIsLeast
  <2>3. Since(r, path, held) = Min(reached)
    BY <1>3 DEF Since
  <2>4. Losing(r, path[1], r.entry) => 1 \in reached
    BY <1>1
  <2> QED
    BY <1>1, <1>3, <2>2, <2>3, <2>4
<1> QED
  BY <1>2, <1>3

(* Where a path closes the position, or what it leaves it worth: at its     *)
(* first point if that is at a level, and after it no further beyond the    *)
(* stop than at it, because the price has come there step by step.          *)
LEMMA PathExitFacts ==
    ASSUME NEW path \in Seq(Int), StepsByOne(path), NEW r \in Request,
           NEW since \in 1 .. Len(path)
    PROVE  LET exit == PathExit(r, path, since) IN
           \/ /\ Closing(r, path, since) = {}
              /\ exit = Worth(r, path[Len(path)])
           \/ \E i \in Closing(r, path, since) :
                /\ exit = path[i]
                /\ \/ i = since
                   \/ Losing(r, r.stop, path[i])
<1> DEFINE closing == Closing(r, path, since)
<1>1. Len(path) \in Nat /\ since \in Nat /\ closing \subseteq since .. Len(path)
  BY DEF Closing
<1>2. CASE closing = {}
  BY <1>2 DEF PathExit
<1>3. CASE closing # {}
  <2> DEFINE i == Min(closing)
  <2>1. closing \subseteq Nat
    BY <1>1
  <2>2. i \in closing /\ \A n \in closing : i <= n
    BY <1>3, <2>1, MinIsLeast
  <2>3. PathExit(r, path, since) = path[i]
    BY <1>3 DEF PathExit
  <2> HIDE DEF i
  <2>4. i \in since .. Len(path)
    BY <1>1, <2>2
  <2>5. ASSUME i # since PROVE Losing(r, r.stop, path[i])
    <3>1. i - 1 \in since .. Len(path) /\ i \in 2 .. Len(path) /\ i - 1 \in 1 .. Len(path)
      BY <1>1, <2>4, <2>5
    <3>2. i - 1 \notin closing
      BY <2>2, <3>1
    <3>3. ~Losing(r, path[i - 1], r.stop)
      BY <3>1, <3>2 DEF Closing
    <3>4. path[i] - path[i - 1] \in {-1, 0, 1} /\ path[i] \in Int /\ path[i - 1] \in Int
      BY <3>1 DEF StepsByOne
    <3>5. r.decision \in {"BUY", "SELL"} /\ r.stop \in Int
      BY DEF Request
    <3>6. CASE r.decision = "BUY"
      BY <3>3, <3>4, <3>5, <3>6 DEF Losing
    <3>7. CASE r.decision = "SELL"
      BY <3>3, <3>4, <3>5, <3>7 DEF Losing
    <3> QED
      BY <3>5, <3>6, <3>7
  <2> QED
    BY <2>2, <2>3, <2>5
<1> QED
  BY <1>2, <1>3

(* What a candle allows to say of a position, no path contradicts: `exit` is *)
(* the stop if the candle touches it, or what the position is worth in the   *)
(* end, or the target if the position was there for all of the candle.      *)
Judged(r, c, exit, always) ==
    \/ exit = r.stop /\ StopTouched(r, c)
    \/ exit = Worth(r, c.close) /\ ~StopTouched(r, c)
    \/ exit = r.target /\ ~StopTouched(r, c) /\ TargetTouched(r, c) /\ always

LEMMA HeldGain ==
    ASSUME NEW time, NEW c \in Candles(time), NEW path \in PricePaths(c), NEW r \in Request,
           NEW exit, Judged(r, c, exit, TRUE), ~OpensBeyondStop(r, c)
    PROVE  Losing(r, exit, PathExit(r, path, 1))
<1>1. /\ c.open \in Int /\ c.close \in Int
      /\ path \in Seq(Int) /\ Len(path) \in Nat /\ Len(path) > 0 /\ path[1] = c.open
      /\ \A i \in 1 .. Len(path) : path[i] \in Int
  BY PathFacts
<1>2. StepsByOne(path) /\ path[Len(path)] = c.close
  BY PathSteps
<1>3. /\ r.decision \in {"BUY", "SELL"} /\ r.entry \in Int /\ r.stop \in Int /\ r.target \in Int
  BY DEF Request
<1>4. Closing(r, path, 1) = {} =>
        /\ ~StopTouched(r, c)
        /\ ~TargetTouched(r, c)
  BY LevelsOfPaths DEF Closing
<1>5. \A i \in Closing(r, path, 1) :
        /\ i \in 1 .. Len(path)
        /\ StopTouched(r, c) \/ Losing(r, r.target, path[i])
  BY LevelsOfPaths DEF Closing
<1>6. CASE Closing(r, path, 1) = {} /\ PathExit(r, path, 1) = Worth(r, path[Len(path)])
  BY <1>1, <1>2, <1>3, <1>4, <1>6 DEF Judged, Losing, Worth
<1>7. ASSUME NEW i \in Closing(r, path, 1), PathExit(r, path, 1) = path[i],
             i = 1 \/ Losing(r, r.stop, path[i])
      PROVE  Losing(r, exit, PathExit(r, path, 1))
  <2>1. path[i] \in Int
    BY <1>1, <1>5
  <2>2. Losing(r, r.stop, path[i])
    BY <1>1, <1>3, <1>7 DEF OpensBeyondStop, Losing
  <2>3. CASE StopTouched(r, c)
    BY <1>7, <2>2, <2>3 DEF Judged
  <2>4. CASE ~StopTouched(r, c)
    <3>1. Losing(r, r.target, path[i])
      BY <1>5, <2>4
    <3> QED
      BY <1>1, <1>3, <1>7, <2>1, <2>4, <3>1 DEF Judged, Losing, Worth
  <2> QED
    BY <2>3, <2>4
<1>8. 1 \in 1 .. Len(path)
  BY <1>1
<1> QED
  BY <1>1, <1>2, <1>6, <1>7, <1>8, PathExitFacts

LEMMA ExitTypes ==
    ASSUME NEW time, NEW c \in Candles(time), NEW path \in PricePaths(c), NEW r \in Request,
           NEW exit, Judged(r, c, exit, TRUE)
    PROVE  exit \in Int /\ PathExit(r, path, 1) \in Int
<1>1. /\ c.close \in Int /\ path \in Seq(Int) /\ Len(path) \in Nat /\ Len(path) > 0
      /\ \A i \in 1 .. Len(path) : path[i] \in Int
  BY PathFacts
<1>2. r.stop \in Int /\ r.target \in Int
  BY DEF Request
<1>3. 1 \in 1 .. Len(path) /\ Len(path) \in 1 .. Len(path)
  BY <1>1
<1>4. \A i \in Closing(r, path, 1) : path[i] \in Int
  BY <1>1 DEF Closing
<1>5. PathExit(r, path, 1) \in Int
  BY <1>1, <1>2, <1>3, <1>4, PathSteps, PathExitFacts DEF Worth
<1> QED
  BY <1>1, <1>2, <1>5 DEF Judged, Worth

LEMMA FilledGain ==
    ASSUME NEW time, NEW c \in Candles(time), NEW path \in PricePaths(c), NEW r \in Request,
           LevelsValid(r, r.entry), Reaches(r, path),
           NEW exit, Judged(r, c, exit, MarketableAtOpen(r, c))
    PROVE  LET since == Since(r, path, FALSE) IN
           Losing(r, exit - r.entry, PathExit(r, path, since) - path[since])
<1> DEFINE since == Since(r, path, FALSE)
           bought == path[since]
           sold == PathExit(r, path, since)
<1>1. /\ c.open \in Int /\ c.close \in Int
      /\ path \in Seq(Int) /\ Len(path) \in Nat /\ Len(path) > 0 /\ path[1] = c.open
      /\ \A i \in 1 .. Len(path) : path[i] \in Int
  BY PathFacts
<1>2. StepsByOne(path) /\ path[Len(path)] = c.close
  BY PathSteps
<1>3. /\ r.decision \in {"BUY", "SELL"} /\ r.entry \in Int /\ r.stop \in Int /\ r.target \in Int
  BY DEF Request
<1>4. /\ since \in 1 .. Len(path)
      /\ MarketableAtOpen(r, c) => since = 1
      /\ Losing(r, bought, r.entry)
      /\ \A i \in 1 .. Len(path) : Losing(r, path[i], r.entry) => since <= i
  BY <1>1, SinceFacts, LevelsOfPaths
<1>5. bought \in Int
  BY <1>1, <1>4
<1> HIDE DEF since
<1>6. Closing(r, path, since) = {} =>
        /\ ~StopTouched(r, c)
        /\ ~(TargetTouched(r, c) /\ MarketableAtOpen(r, c))
  <2>1. ASSUME NEW i \in 1 .. Len(path), Losing(r, path[i], r.stop)
        PROVE  i \in Closing(r, path, since)
    <3>1. Losing(r, path[i], r.entry)
      BY <1>1, <1>3, <2>1 DEF LevelsValid, Losing
    <3>2. since <= i
      BY <1>4, <3>1
    <3> QED
      BY <1>1, <1>4, <2>1, <3>2 DEF Closing
  <2>2. ASSUME NEW i \in 1 .. Len(path), Losing(r, r.target, path[i]), MarketableAtOpen(r, c)
        PROVE  i \in Closing(r, path, since)
    BY <1>1, <1>4, <2>2 DEF Closing
  <2> QED
    BY <2>1, <2>2, LevelsOfPaths
<1>7. \A i \in Closing(r, path, since) :
        /\ i \in 1 .. Len(path)
        /\ StopTouched(r, c) \/ Losing(r, r.target, path[i])
  BY <1>1, <1>4, LevelsOfPaths DEF Closing
<1> HIDE DEF bought, sold
<1>8. ASSUME Closing(r, path, since) = {}, sold = Worth(r, path[Len(path)])
      PROVE  Losing(r, exit - r.entry, sold - bought)
  <2>1. exit = Worth(r, c.close) /\ sold = Worth(r, c.close)
    BY <1>2, <1>6, <1>8 DEF Judged
  <2>2. Worth(r, c.close) \in Int
    BY <1>1, <1>3 DEF Worth
  <2> QED
    BY <1>3, <1>4, <1>5, <2>1, <2>2 DEF Losing
<1>9. ASSUME NEW i \in Closing(r, path, since), sold = path[i],
             i = since \/ Losing(r, r.stop, path[i])
      PROVE  Losing(r, exit - r.entry, sold - bought)
  <2>1. path[i] \in Int
    BY <1>1, <1>7
  <2>2. CASE StopTouched(r, c)
    <3>1. exit = r.stop
      BY <2>2 DEF Judged
    <3>2. CASE i = since
      BY <1>3, <1>5, <1>9, <3>1, <3>2 DEF Losing, LevelsValid, bought
    <3>3. CASE Losing(r, r.stop, path[i])
      BY <1>3, <1>4, <1>5, <1>9, <2>1, <3>1, <3>3 DEF Losing
    <3> QED
      BY <1>9, <3>2, <3>3
  <2>3. CASE ~StopTouched(r, c)
    <3>1. Losing(r, r.target, path[i])
      BY <1>7, <2>3
    <3>2. exit = Worth(r, c.close) \/ exit = r.target
      BY <2>3 DEF Judged
    <3>3. exit \in Int /\ Losing(r, exit, r.target)
      BY <1>1, <1>3, <3>2 DEF Losing, Worth
    <3> QED
      BY <1>3, <1>4, <1>5, <1>9, <2>1, <3>1, <3>3 DEF Losing
  <2> QED
    BY <2>2, <2>3
<1>10. \/ Closing(r, path, since) = {} /\ sold = Worth(r, path[Len(path)])
       \/ \E i \in Closing(r, path, since) :
            sold = path[i] /\ (i = since \/ Losing(r, r.stop, path[i]))
  BY <1>1, <1>2, <1>4, PathExitFacts DEF sold
<1>11. Losing(r, exit - r.entry, sold - bought)
  BY <1>8, <1>9, <1>10
<1> QED
  BY <1>11 DEF since, sold, bought

LEMMA NewCandleSteps ==
    ASSUME SimInv, SimNext, NewCandle
    PROVE  /\ candle' \in Candles(candle.time + 1) /\ candle'.time = candle.time + 1
           /\ UpdateMarket(candle')
<1>1. candle.time \in Nat
  BY SimulationBounds DEF SimInv, CandleOK
<1>2. candle' # candle
  BY <1>1 DEF NewCandle
<1>3. PICK time \in {candle.time, candle.time + 1} : \E c \in Candles(time) : UpdateMarket(c)
  BY <1>2 DEF SimNext, SubmitEntry, CancelEntry, OpenPosition, ClosePosition, Answers
<1>4. PICK c \in Candles(time) : UpdateMarket(c)
  BY <1>3
<1>5. candle' = c /\ c.time = time
  BY <1>4, CandleTime DEF UpdateMarket
<1> QED
  BY <1>1, <1>4, <1>5 DEF NewCandle

(* A resting entry is filled by a candle exactly if the price reaches it,   *)
(* whichever way it takes within the candle (_process_pending_entry).       *)
THEOREM FilledWhenReached == SimSpec => FillsWhenReached
<1> DEFINE Fills == NewCandle /\ pending # NoEntry =>
                      \A path \in PricePaths(candle') :
                          entries'[pending.id] = "FILLED"
                            <=> Reaches(Requests[pending.id], path)
<1>1. SimInv /\ [SimNext]_brokerVars => [Fills]_brokerVars
  <2> SUFFICES ASSUME SimInv, SimNext, NewCandle, pending # NoEntry,
                      NEW path \in PricePaths(candle')
               PROVE  entries'[pending.id] = "FILLED" <=> Reaches(Requests[pending.id], path)
    OBVIOUS
  <2> DEFINE c == candle'
  <2>1. c \in Candles(candle.time + 1) /\ c.time = candle.time + 1 /\ UpdateMarket(c)
    BY NewCandleSteps
  <2>2. pending.id \in Ids /\ Requests[pending.id] \in Request
    BY RequestsAssumption DEF SimInv, RestingOK
  <2>3. EntrySees(c) /\ ~EntryUntouched(c)
    BY <2>1, SeesNewCandles DEF EntryUntouched
  <2>4. Reaches(Requests[pending.id], path) <=> EntryReached(c)
    BY <2>1, <2>2, LevelsOfPaths DEF EntryReached
  <2>5. CASE EntryFills(c)
    <3>1. EntryReached(c) /\ EntryEnds("FILLED")
      BY <2>5 DEF EntryFills
    <3>2. entries'[pending.id] = "FILLED"
      BY <2>2, <3>1 DEF EntryEnds, SimInv
    <3> QED
      BY <2>4, <3>1, <3>2
  <2>6. CASE EntryWaits(c)
    <3>1. ~EntryReached(c)
      BY <2>6 DEF EntryWaits
    <3>2. entries'[pending.id] \in {"EXPIRED", "WORKING"}
      BY <2>2, <2>6 DEF EntryWaits, EntryEnds, SimInv
    <3> QED
      BY <2>4, <3>1, <3>2
  <2> QED
    BY <2>1, <2>3, <2>5, <2>6 DEF UpdateMarket
<1> QED
  BY <1>1, SimInvariant, PTL DEF SimSpec, FillsWhenReached

(* The levels of a resting entry are in order: any other is refused.        *)
RestingValid ==
    pending # NoEntry => LevelsValid(Requests[pending.id], Requests[pending.id].entry)

LEMMA RestingValidKept == SimInv /\ RestingValid /\ [SimNext]_brokerVars => RestingValid'
<1> SUFFICES ASSUME SimInv, RestingValid, [SimNext]_brokerVars PROVE RestingValid'
  OBVIOUS
<1>1. CASE UNCHANGED pending \/ pending' = NoEntry
  BY <1>1 DEF RestingValid
<1>2. ASSUME NEW c, UpdateMarket(c) PROVE RestingValid'
  <2>1. CASE EntryWaits(c)
    <3>1. \/ pending' = NoEntry
          \/ pending # NoEntry /\ pending' = [pending EXCEPT !.age = @ + 1, !.status = "WORKING"]
      BY <2>1 DEF EntryWaits, EntrySees, EntryEnds
    <3>2. pending' # NoEntry => pending # NoEntry /\ pending'.id = pending.id
      BY <3>1 DEF SimInv, RestingOK
    <3> QED
      BY <3>2 DEF RestingValid
  <2> QED
    BY <1>1, <1>2, <2>1 DEF UpdateMarket, EntryFills, EntryUntouched, EntryEnds
<1>3. ASSUME NEW id, NEW signal, SubmitEntry(id, signal) PROVE RestingValid'
  BY <1>1, <1>3 DEF SubmitEntry, Answers, RestingValid
<1> QED
  BY <1>1, <1>2, <1>3 DEF SimNext, CancelEntry, EntryEnds, OpenPosition, ClosePosition, Answers,
     brokerVars

LEMMA HeldIsJudged ==
    ASSUME SimInv, NEW c \in Candles(candle.time + 1), UpdateMarket(c), position # NoPosition,
           NEW r, r = Requests[position.id]
    PROVE  \/ lastTrade' = lastTrade /\ ~StopTouched(r, c)
           \/ lastTrade' # lastTrade /\ Judged(r, c, lastTrade'.exit, TRUE)
<1>1. c.time = candle.time + 1
  BY CandleTime
<1>2. pending = NoEntry /\ ~EntryFills(c)
  BY DEF SimInv, EntryOrPosition, EntryFills, EntrySees
<1>3. c.time > position.opened
  BY <1>1, SeesNewCandles
<1>4. Settle(position, PositionExit(r, c))
  BY <1>2, <1>3 DEF UpdateMarket, PositionSees
<1>5. position.ticket \in Int /\ lastTrade.ticket = position.ticket - 1
  BY SimulationBounds DEF SimInv, TicketsOK
<1>6. CASE PositionExit(r, c) = {}
  <2>1. ~StopTouched(r, c)
    BY <1>6 DEF PositionExit
  <2> QED
    BY <1>4, <1>6, <2>1 DEF Settle
<1>7. CASE PositionExit(r, c) # {}
  <2>1. lastTrade'.ticket = position.ticket /\ lastTrade'.exit \in PositionExit(r, c)
    BY <1>4, <1>7, SettleKeeps
  <2>2. lastTrade' # lastTrade
    BY <1>5, <2>1
  <2>3. Judged(r, c, lastTrade'.exit, TRUE)
    BY <2>1 DEF PositionExit, Judged
  <2> QED
    BY <2>2, <2>3
<1> QED
  BY <1>6, <1>7

LEMMA FilledIsJudged ==
    ASSUME SimInv, NEW c \in Candles(candle.time + 1), UpdateMarket(c), position = NoPosition,
           position' # NoPosition \/ lastTrade' # lastTrade,
           NEW r, r = Requests[pending.id]
    PROVE  /\ pending # NoEntry /\ EntryReached(c)
           /\ SimulatedFill = r.entry
           /\ \/ lastTrade' = lastTrade /\ ~StopTouched(r, c)
              \/ lastTrade' # lastTrade /\ Judged(r, c, lastTrade'.exit, MarketableAtOpen(r, c))
<1>1. EntryFills(c)
  BY DEF UpdateMarket, PositionSees
<1> DEFINE held == Opened(pending.id, r.entry, c.time)
<1>2. held.ticket = nextTicket /\ held.entry = r.entry /\ Settle(held, FillExit(r, c))
  BY <1>1 DEF EntryFills, Opened
<1> HIDE DEF held
<1>3. nextTicket \in Int /\ lastTrade.ticket = nextTicket - 1
  BY SimulationBounds DEF SimInv, TicketsOK
<1>4. CASE FillExit(r, c) = {}
  BY <1>1, <1>2, <1>4 DEF Settle, FillExit, EntryFills, EntrySees, SimulatedFill
<1>5. CASE FillExit(r, c) # {}
  <2>1. lastTrade'.ticket = held.ticket /\ lastTrade'.exit \in FillExit(r, c)
    BY <1>2, <1>5, SettleKeeps
  <2>2. lastTrade'.entry = held.entry /\ lastTrade' # lastTrade
    BY <1>2, <1>3, <1>5, <2>1 DEF Settle
  <2> QED
    BY <1>1, <1>2, <2>1, <2>2 DEF FillExit, EntryFills, EntrySees, SimulatedFill, Judged
<1> QED
  BY <1>4, <1>5

(* A candle is never read in favour of the trade: whichever way the price   *)
(* takes within it, the simulated trade wins no more than one at the prices *)
(* of that way (_evaluate_position_exit and _evaluate_pending_fill_exit),   *)
(* but for a position held when a candle opens beyond its stop.             *)
THEOREM NotOptimistic == SimSpec => NeverOptimistic
<1> DEFINE Pessimistic ==
             NewCandle /\ Traded /\ ~(Held /\ OpensBeyondStop(TradedRequest, candle'))
               => \A path \in PricePaths(candle') :
                     Losing(TradedRequest, SimulatedGain, PathGain(path))
<1>1. SimInv /\ RestingValid /\ [SimNext]_brokerVars => [Pessimistic]_brokerVars
  <2> SUFFICES ASSUME SimInv, RestingValid, SimNext, NewCandle, Traded,
                      ~(Held /\ OpensBeyondStop(TradedRequest, candle')),
                      NEW path \in PricePaths(candle')
               PROVE  Losing(TradedRequest, SimulatedGain, PathGain(path))
    OBVIOUS
  <2> DEFINE c == candle'
  <2>1. c \in Candles(candle.time + 1) /\ UpdateMarket(c)
    BY NewCandleSteps
  <2>2. CASE Held
    <3> DEFINE r == Requests[position.id]
    <3>1. r \in Request /\ TradedRequest = r
      BY <2>2, RequestsAssumption DEF SimInv, TicketsOK, TradedRequest, Held
    <3>2. \/ lastTrade' = lastTrade /\ ~StopTouched(r, c)
          \/ lastTrade' # lastTrade /\ Judged(r, c, lastTrade'.exit, TRUE)
      BY <2>1, <2>2, HeldIsJudged DEF Held
    <3> HIDE DEF r
    <3>3. Judged(r, c, SimulatedExit, TRUE)
      BY <3>1, <3>2 DEF SimulatedExit, Judged
    <3>4. Losing(r, SimulatedExit, PathExit(r, path, 1))
      BY <2>1, <2>2, <3>1, <3>3, HeldGain
    <3>5. SimulatedExit \in Int /\ PathExit(r, path, 1) \in Int
      BY <2>1, <3>1, <3>3, ExitTypes
    <3>6. SimulatedGain = SimulatedExit - 0 /\ PathGain(path) = PathExit(r, path, 1) - 0
      BY <2>2, <3>1 DEF SimulatedGain, PathGain, Since
    <3>7. SimulatedGain = SimulatedExit /\ PathGain(path) = PathExit(r, path, 1)
      BY <3>5, <3>6
    <3> QED
      BY <3>1, <3>4, <3>7
  <2>3. CASE ~Held
    <3> DEFINE r == Requests[pending.id]
    <3>1. /\ pending # NoEntry /\ EntryReached(c) /\ SimulatedFill = r.entry
          /\ \/ lastTrade' = lastTrade /\ ~StopTouched(r, c)
             \/ lastTrade' # lastTrade /\ Judged(r, c, lastTrade'.exit, MarketableAtOpen(r, c))
      BY <2>1, <2>3, FilledIsJudged DEF Held, Traded
    <3>2. r \in Request /\ TradedRequest = r /\ LevelsValid(r, r.entry)
      BY <2>3, <3>1, RequestsAssumption DEF SimInv, RestingOK, TradedRequest, RestingValid
    <3>3. Reaches(r, path)
      BY <2>1, <3>1, <3>2, LevelsOfPaths DEF EntryReached
    <3> HIDE DEF r
    <3>4. Judged(r, c, SimulatedExit, MarketableAtOpen(r, c))
      BY <3>1, <3>2 DEF SimulatedExit, Judged
    <3>5. LET since == Since(r, path, FALSE) IN
          Losing(r, SimulatedExit - r.entry, PathExit(r, path, since) - path[since])
      BY <2>1, <3>2, <3>3, <3>4, FilledGain
    <3>6. Since(r, path, Held) = Since(r, path, FALSE)
      BY <2>3 DEF Since
    <3>7. SimulatedGain = SimulatedExit - r.entry
      BY <2>3, <3>1 DEF SimulatedGain
    <3>8. PathGain(path) = PathExit(r, path, Since(r, path, Held)) - path[Since(r, path, Held)]
      BY <2>3, <3>2 DEF PathGain
    <3> QED
      BY <3>2, <3>5, <3>6, <3>7, <3>8
  <2> QED
    BY <2>2, <2>3
<1>2. SimInit => RestingValid
  BY DEF SimInit, RestingValid
<1> QED
  BY <1>1, <1>2, SimInvariant, RestingValidKept, PTL DEF SimSpec, NeverOptimistic

----------------------------------------------------------------------------
(* The backtest: its broker is the simulated broker, whatever the engine    *)
(* and the monitor make of it.                                             *)

LEMMA BacktestStepsBroker ==
    ASSUME SimInv, [BacktestNext]_backtestVars
    PROVE  [SimNext]_brokerVars
<1>1. ASSUME NEW c \in Candles(candle.time + 1), Snapshot(c) PROVE SimNext
  <2>1. candle.time + 1 \in {candle.time, candle.time + 1} \ {0} /\ candle.time + 1 <= MaxCandle
    BY <1>1, SimulationBounds DEF SimInv, CandleOK, Snapshot
  <2> QED
    BY <1>1, <2>1 DEF Snapshot, SimNext
<1>2. ASSUME NEW id \in Ids, SubmitSetup(id) PROVE SimNext
  BY <1>2 DEF SubmitSetup, SimNext
<1>3. CASE NoNewEntry \/ FinishSnapshot \/ UNCHANGED backtestVars
  BY <1>3 DEF NoNewEntry, FinishSnapshot, backtestVars
<1> QED
  BY <1>1, <1>2, <1>3 DEF BacktestNext

LEMMA BacktestSimInvariant == BacktestSpec => []SimInv
<1>1. BacktestInit => SimInv
  BY SimInvInit DEF BacktestInit
<1>2. SimInv /\ [BacktestNext]_backtestVars => SimInv'
  BY BacktestStepsBroker, SimInvKept
<1> QED
  BY <1>1, <1>2, PTL DEF BacktestSpec

(* A backtest uses the simulated broker as SimSpec allows.                  *)
THEOREM BacktestImplementsBroker == BacktestSpec => SimSpec
<1>1. BacktestInit => SimInit
  BY DEF BacktestInit
<1> QED
  BY <1>1, BacktestSimInvariant, BacktestStepsBroker, PTL DEF BacktestSpec, SimSpec

(* Every order the broker knows is one the execution service remembers.     *)
KeysOK ==
    /\ \A id \in Ids : entries[id] # "none" => id \in keys
    /\ BrokerNeverRefuses

LEMMA KeysKept == SimInv /\ KeysOK /\ [BacktestNext]_backtestVars => KeysOK'
<1> SUFFICES ASSUME SimInv, KeysOK, [BacktestNext]_backtestVars PROVE KeysOK'
  OBVIOUS
<1> USE DEF KeysOK, BrokerNeverRefuses
<1>1. ASSUME NEW c \in Candles(candle.time + 1), Snapshot(c) PROVE KeysOK'
  <2>1. keys' = keys /\ outcome' = "ok" /\ UpdateMarket(c)
    BY <1>1 DEF Snapshot, UpdateMarket
  <2>2. \A id \in Ids : entries'[id] # "none" => entries[id] # "none"
    <3>1. entries' = entries \/ (pending # NoEntry /\ \E s : entries' = [entries EXCEPT ![pending.id] = s])
      BY <2>1 DEF UpdateMarket, EntryFills, EntryWaits, EntryUntouched, EntryEnds, EntrySees
    <3>2. pending # NoEntry => entries[pending.id] # "none"
      BY DEF SimInv, RestingOK
    <3> QED
      BY <3>1, <3>2 DEF SimInv
  <2> QED
    BY <2>1, <2>2
<1>2. ASSUME NEW id \in Ids, SubmitSetup(id) PROVE KeysOK'
  <2>1. position = NoPosition /\ pending = NoEntry /\ id \notin keys /\ keys' = keys \cup {id}
        /\ SubmitEntry(id, candle.time)
    BY <1>2 DEF SubmitSetup, Duplicate, KeysAfter
  <2>2. ~SubmissionRefused(id, candle.time)
    BY <2>1 DEF SubmissionRefused, PositionBlocksEntry
  <2>3. /\ outcome' \in {"ok", "rejected"}
        /\ \E s : entries' = [entries EXCEPT ![id] = s]
    BY <2>1, <2>2 DEF SubmitEntry
  <2>4. \A i \in Ids : i # id => entries'[i] = entries[i]
    BY <2>3 DEF SimInv
  <2> QED
    BY <2>1, <2>3, <2>4
<1>3. CASE NoNewEntry \/ FinishSnapshot \/ UNCHANGED backtestVars
  BY <1>3 DEF NoNewEntry, FinishSnapshot, backtestVars, brokerVars
<1> QED
  BY <1>1, <1>2, <1>3 DEF BacktestNext

LEMMA KeysInvariant == BacktestSpec => []KeysOK
<1>1. BacktestInit => KeysOK
  BY DEF BacktestInit, SimInit, KeysOK, BrokerNeverRefuses
<1> QED
  BY <1>1, KeysKept, BacktestSimInvariant, PTL DEF BacktestSpec

(* No candle and no setup aborts a backtest: the broker refuses nothing     *)
(* that the engine and the execution service let through.                   *)
THEOREM NeverRefused == BacktestSpec => []BrokerNeverRefuses
<1>1. KeysOK => BrokerNeverRefuses
  BY DEF KeysOK
<1> QED
  BY <1>1, KeysInvariant, PTL

(* The journal holds the trades of the tickets from 1 to the last one the   *)
(* monitor has seen.  A candle closes at most one trade, and every candle   *)
(* is looked at before the next; the monitor's first look, which takes a    *)
(* trade for history, finds none, for nothing is submitted before it.       *)
JournalOK ==
    /\ step \in {"market", "process", "finish"}
    /\ processed = candle.time - (IF step = "market" THEN 0 ELSE 1)
    /\ ~baseline => /\ step # "finish" /\ lastTicket = 0
                    /\ pending = NoEntry /\ position = NoPosition /\ lastTrade = NoTrade
    /\ lastTicket \in Nat
    /\ journal = [i \in 1 .. lastTicket |-> i]
    /\ lastTrade.ticket \in {lastTicket, IF step = "process" THEN lastTicket + 1 ELSE lastTicket}

LEMMA AppendNext ==
    ASSUME NEW n \in Nat
    PROVE  Append([i \in 1 .. n |-> i], n + 1) = [i \in 1 .. n + 1 |-> i]
<1> DEFINE s == [i \in 1 .. n |-> i]
           t == [i \in 1 .. n + 1 |-> i]
<1>1. s \in Seq(Nat) /\ Len(s) = n /\ t \in Seq(Nat) /\ Len(t) = n + 1
  OBVIOUS
<1>2. Append(s, n + 1) \in Seq(Nat) /\ Len(Append(s, n + 1)) = n + 1
  BY <1>1
<1>3. \A i \in 1 .. n + 1 : Append(s, n + 1)[i] = IF i = n + 1 THEN n + 1 ELSE s[i]
  BY <1>1
<1>4. \A i \in 1 .. n + 1 : Append(s, n + 1)[i] = t[i]
  BY <1>3
<1> HIDE DEF s, t
<1>5. Append(s, n + 1) = t
  BY <1>1, <1>2, <1>4, SeqEqual
<1> QED
  BY <1>5 DEF s, t

LEMMA MonitorSees ==
    ASSUME SimInv, JournalOK, UpdateMonitor
    PROVE  /\ baseline' /\ lastTicket' = lastTrade.ticket
           /\ journal' = [i \in 1 .. lastTrade.ticket |-> i]
<1>1. lastTrade = NoTrade => lastTrade.ticket = 0
  BY DEF NoTrade
<1>2. lastTicket' = lastTrade.ticket /\ baseline'
  <2>1. lastTicket' = lastTrade.ticket
    BY <1>1 DEF JournalOK, UpdateMonitor
  <2>2. baseline' = (baseline \/ ~baseline)
    BY DEF UpdateMonitor, BaselineAtFirstLook
  <2> QED
    BY <2>1, <2>2, Zenon
<1>3. CASE lastTrade.ticket = lastTicket
  BY <1>2, <1>3 DEF JournalOK, UpdateMonitor
<1>4. CASE lastTrade.ticket # lastTicket
  <2>1. baseline /\ lastTrade.ticket = lastTicket + 1 /\ lastTrade.ticket # 0
    BY <1>1, <1>4 DEF JournalOK
  <2>2. journal' = Append(journal, lastTicket + 1)
    BY <1>4, <2>1 DEF UpdateMonitor, BaselineAtFirstLook
  <2> QED
    BY <1>2, <2>1, <2>2, AppendNext DEF JournalOK
<1> QED
  BY <1>2, <1>3, <1>4

LEMMA OneTradePerCandle ==
    ASSUME SimInv, NEW c \in Candles(candle.time + 1), UpdateMarket(c)
    PROVE  /\ lastTrade'.ticket \in {lastTrade.ticket, lastTrade.ticket + 1}
           /\ pending = NoEntry /\ position = NoPosition =>
                UNCHANGED <<pending, position, lastTrade>>
<1>1. /\ position = NoPosition => lastTrade.ticket = nextTicket - 1
      /\ position # NoPosition => lastTrade.ticket = position.ticket - 1
      /\ nextTicket \in Int /\ (position # NoPosition => position.ticket \in Int)
  BY SimulationBounds DEF SimInv, TicketsOK
<1>2. CASE EntryFills(c)
  <2>1. position = NoPosition /\ pending # NoEntry
    BY <1>2 DEF EntryFills, EntrySees, SimInv, EntryOrPosition
  <2>2. PICK held : held.ticket = nextTicket /\ Settle(held, FillExit(Requests[pending.id], c))
    BY <1>2 DEF EntryFills, Opened
  <2> QED
    BY <1>1, <2>1, <2>2, SettleKeeps
<1>3. CASE (EntryWaits(c) \/ EntryUntouched(c)) /\ PositionSees(c)
  <2>1. lastTrade'.ticket \in {lastTrade.ticket, lastTrade.ticket + 1}
    BY <1>1, <1>3, SettleKeeps DEF PositionSees
  <2> QED
    BY <1>3, <2>1 DEF PositionSees, EntryWaits, EntrySees, EntryUntouched
<1> QED
  BY <1>2, <1>3 DEF UpdateMarket

LEMMA JournalKept == SimInv /\ JournalOK /\ [BacktestNext]_backtestVars => JournalOK'
<1> SUFFICES ASSUME SimInv, JournalOK, [BacktestNext]_backtestVars PROVE JournalOK'
  OBVIOUS
<1>1. lastTrade.ticket \in Nat /\ candle.time \in Nat
  BY SimulationBounds DEF JournalOK, SimInv, CandleOK
<1>2. ASSUME NEW c \in Candles(candle.time + 1), Snapshot(c) PROVE JournalOK'
  <2>1. /\ step = "market" /\ step' = "process" /\ UpdateMarket(c) /\ candle'.time = candle.time + 1
        /\ UNCHANGED <<keys, monitorVars, processed, rejected>>
    BY <1>2, CandleTime DEF Snapshot, UpdateMarket
  <2> QED
    BY <1>1, <2>1, OneTradePerCandle DEF JournalOK, monitorVars
<1>3. ASSUME UpdateMonitor, step # "market",
             step' = (IF step = "process" THEN "finish" ELSE "market"),
             processed' = (IF step = "process" THEN processed ELSE processed + 1),
             UNCHANGED <<candle, lastTrade>>
      PROVE  JournalOK'
  <2>1. /\ baseline' /\ lastTicket' = lastTrade.ticket
        /\ journal' = [i \in 1 .. lastTrade.ticket |-> i]
    BY <1>3, MonitorSees
  <2> QED
    BY <1>1, <1>3, <2>1 DEF JournalOK
<1>4. CASE NoNewEntry \/ FinishSnapshot
  BY <1>3, <1>4 DEF NoNewEntry, FinishSnapshot, brokerVars
<1>5. ASSUME NEW id \in Ids, SubmitSetup(id) PROVE JournalOK'
  <2>1. UNCHANGED <<candle, lastTrade>>
    BY <1>5 DEF SubmitSetup, SubmitEntry, Answers
  <2> QED
    BY <1>3, <1>5, <2>1 DEF SubmitSetup
<1>6. CASE UNCHANGED backtestVars
  BY <1>6 DEF backtestVars, brokerVars, monitorVars, JournalOK
<1> QED
  BY <1>2, <1>4, <1>5, <1>6 DEF BacktestNext

LEMMA JournalInvariant == BacktestSpec => []JournalOK
<1>1. BacktestInit => JournalOK
  <2> SUFFICES ASSUME BacktestInit PROVE JournalOK
    OBVIOUS
  <2>1. journal = [i \in 1 .. lastTicket |-> i]
    BY DEF BacktestInit
  <2> QED
    BY <2>1 DEF BacktestInit, SimInit, JournalOK, NoTrade, NoCandle
<1> QED
  BY <1>1, JournalKept, BacktestSimInvariant, PTL DEF BacktestSpec

(* The counters of the result: what was submitted, filled and has expired.  *)
Used == {id \in Ids : entries[id] # "none"}

CountersOK ==
    /\ IsFiniteSet(Used)
    /\ rejected \in Nat
    /\ Cardinality(Used) =
         Cardinality(EndedAs("FILLED")) + Cardinality(EndedAs("EXPIRED"))
           + rejected + (IF pending = NoEntry THEN 0 ELSE 1)
    /\ Cardinality(EndedAs("FILLED")) = nextTicket - 1

LEMMA UsedIsFinite ==
    ASSUME IsFiniteSet(Used)
    PROVE  /\ Cardinality(Used) \in Nat
           /\ \A status : status # "none" =>
                IsFiniteSet(EndedAs(status)) /\ Cardinality(EndedAs(status)) \in Nat
<1>1. \A status : status # "none" => EndedAs(status) \in SUBSET Used
  BY DEF EndedAs, Used
<1> QED
  BY <1>1, FS_Subset, FS_CardinalityType

(* An order whose status becomes `status`, from no status or that of the    *)
(* resting entry.                                                           *)
LEMMA StatusCounted ==
    ASSUME entries \in [Ids -> PendingEntryStatus \cup {"none"}], IsFiniteSet(Used),
           NEW id \in Ids, entries[id] \notin {"FILLED", "EXPIRED"},
           NEW status, status # "none", entries' = [entries EXCEPT ![id] = status]
    PROVE  /\ IsFiniteSet(Used')
           /\ Cardinality(Used') = Cardinality(Used) + (IF entries[id] = "none" THEN 1 ELSE 0)
           /\ Cardinality(EndedAs("FILLED")') =
                Cardinality(EndedAs("FILLED")) + (IF status = "FILLED" THEN 1 ELSE 0)
           /\ Cardinality(EndedAs("EXPIRED")') =
                Cardinality(EndedAs("EXPIRED")) + (IF status = "EXPIRED" THEN 1 ELSE 0)
<1>1. \A i \in Ids : entries'[i] = IF i = id THEN status ELSE entries[i]
  OBVIOUS
<1>2. Used' = Used \cup {id} /\ (id \in Used <=> entries[id] # "none")
  BY <1>1 DEF Used
<1>3. ASSUME NEW s \in {"FILLED", "EXPIRED"}
      PROVE  Cardinality(EndedAs(s)') = Cardinality(EndedAs(s)) + (IF status = s THEN 1 ELSE 0)
  <2>1. EndedAs(s)' = (IF status = s THEN EndedAs(s) \cup {id} ELSE EndedAs(s))
        /\ id \notin EndedAs(s)
    BY <1>1 DEF EndedAs
  <2>2. IsFiniteSet(EndedAs(s)) /\ Cardinality(EndedAs(s)) \in Nat
    BY UsedIsFinite
  <2>3. Cardinality(EndedAs(s) \cup {id}) = Cardinality(EndedAs(s)) + 1
    BY <2>1, <2>2, FS_AddElement
  <2>4. CASE status = s
    BY <2>1, <2>3, <2>4
  <2>5. CASE status # s
    BY <2>1, <2>2, <2>5
  <2> QED
    BY <2>4, <2>5
<1>4. Cardinality(Used) \in Nat
  BY UsedIsFinite
<1>5. IsFiniteSet(Used') /\ Cardinality(Used') = Cardinality(Used) + (IF entries[id] = "none" THEN 1 ELSE 0)
  <2>1. IsFiniteSet(Used \cup {id})
        /\ Cardinality(Used \cup {id}) = IF id \in Used THEN Cardinality(Used) ELSE Cardinality(Used) + 1
    BY FS_AddElement
  <2> QED
    BY <1>2, <1>4, <2>1
<1> QED
  BY <1>3, <1>5

(* An order's steps in a backtest, as its counters see them.                *)
OrderMoved(old, new) ==
    \/ /\ old \in {"SUBMITTED", "WORKING"} /\ new = "FILLED"
       /\ pending # NoEntry /\ pending' = NoEntry
       /\ nextTicket' = nextTicket + 1 /\ rejected' = rejected
    \/ /\ old \in {"SUBMITTED", "WORKING"} /\ new = "EXPIRED"
       /\ pending # NoEntry /\ pending' = NoEntry
       /\ nextTicket' = nextTicket /\ rejected' = rejected
    \/ /\ old \in {"SUBMITTED", "WORKING"} /\ new = "WORKING"
       /\ pending # NoEntry /\ pending' # NoEntry
       /\ nextTicket' = nextTicket /\ rejected' = rejected
    \/ /\ old = "none" /\ new = "SUBMITTED"
       /\ pending = NoEntry /\ pending' # NoEntry
       /\ nextTicket' = nextTicket /\ rejected' = rejected
    \/ /\ old = "none" /\ new = "REJECTED"
       /\ pending = NoEntry /\ pending' = NoEntry
       /\ nextTicket' = nextTicket /\ rejected' = rejected + 1

LEMMA CountersMoved ==
    ASSUME CountersOK, entries \in [Ids -> PendingEntryStatus \cup {"none"}], nextTicket \in Int,
           NEW id \in Ids, NEW status, entries' = [entries EXCEPT ![id] = status],
           OrderMoved(entries[id], status)
    PROVE  CountersOK'
<1> DEFINE u == Cardinality(Used)
           f == Cardinality(EndedAs("FILLED"))
           e == Cardinality(EndedAs("EXPIRED"))
           u1 == Cardinality(Used')
           f1 == Cardinality(EndedAs("FILLED")')
           e1 == Cardinality(EndedAs("EXPIRED")')
<1>1. IsFiniteSet(Used) /\ rejected \in Nat /\ u \in Nat /\ f \in Nat /\ e \in Nat
  BY UsedIsFinite DEF CountersOK
<1>2. /\ IsFiniteSet(Used')
      /\ u1 = u + (IF entries[id] = "none" THEN 1 ELSE 0)
      /\ f1 = f + (IF status = "FILLED" THEN 1 ELSE 0)
      /\ e1 = e + (IF status = "EXPIRED" THEN 1 ELSE 0)
  <2>1. entries[id] \notin {"FILLED", "EXPIRED"} /\ status # "none"
    BY DEF OrderMoved
  <2> QED
    BY <1>1, <2>1, StatusCounted
<1>3. f = nextTicket - 1 /\ u = f + e + rejected + (IF pending = NoEntry THEN 0 ELSE 1)
  BY DEF CountersOK
<1>4. CountersOK' <=> /\ IsFiniteSet(Used') /\ rejected' \in Nat
                      /\ u1 = f1 + e1 + rejected' + (IF pending' = NoEntry THEN 0 ELSE 1)
                      /\ f1 = nextTicket' - 1
  BY DEF CountersOK
<1> HIDE DEF u, f, e, u1, f1, e1
<1>5. CASE /\ entries[id] # "none" /\ status = "FILLED" /\ pending # NoEntry /\ pending' = NoEntry
           /\ nextTicket' = nextTicket + 1 /\ rejected' = rejected
  <2>1. u1 = u /\ f1 = f + 1 /\ e1 = e /\ u = f + e + rejected + 1
    BY <1>1, <1>2, <1>3, <1>5
  <2> QED
    BY <1>1, <1>2, <1>3, <1>4, <1>5, <2>1
<1>6. CASE /\ entries[id] # "none" /\ status = "EXPIRED" /\ pending # NoEntry /\ pending' = NoEntry
           /\ nextTicket' = nextTicket /\ rejected' = rejected
  <2>1. u1 = u /\ f1 = f /\ e1 = e + 1 /\ u = f + e + rejected + 1
    BY <1>1, <1>2, <1>3, <1>6
  <2> QED
    BY <1>1, <1>2, <1>3, <1>4, <1>6, <2>1
<1>7. CASE /\ entries[id] # "none" /\ status = "WORKING" /\ pending # NoEntry /\ pending' # NoEntry
           /\ nextTicket' = nextTicket /\ rejected' = rejected
  <2>1. u1 = u /\ f1 = f /\ e1 = e /\ u = f + e + rejected + 1
    BY <1>1, <1>2, <1>3, <1>7
  <2> QED
    BY <1>1, <1>2, <1>3, <1>4, <1>7, <2>1
<1>8. CASE /\ entries[id] = "none" /\ status = "SUBMITTED" /\ pending = NoEntry /\ pending' # NoEntry
           /\ nextTicket' = nextTicket /\ rejected' = rejected
  <2>1. u1 = u + 1 /\ f1 = f /\ e1 = e /\ u = f + e + rejected
    BY <1>1, <1>2, <1>3, <1>8
  <2> QED
    BY <1>1, <1>2, <1>3, <1>4, <1>8, <2>1
<1>9. CASE /\ entries[id] = "none" /\ status = "REJECTED" /\ pending = NoEntry /\ pending' = NoEntry
           /\ nextTicket' = nextTicket /\ rejected' = rejected + 1
  <2>1. u1 = u + 1 /\ f1 = f /\ e1 = e /\ u = f + e + rejected
    BY <1>1, <1>2, <1>3, <1>9
  <2> QED
    BY <1>1, <1>2, <1>3, <1>4, <1>9, <2>1
<1> QED
  BY <1>5, <1>6, <1>7, <1>8, <1>9 DEF OrderMoved

LEMMA CountersKept == SimInv /\ CountersOK /\ KeysOK /\ [BacktestNext]_backtestVars => CountersOK'
<1> SUFFICES ASSUME SimInv, CountersOK, KeysOK, [BacktestNext]_backtestVars PROVE CountersOK'
  OBVIOUS
<1>1. /\ Cardinality(Used) \in Nat /\ Cardinality(EndedAs("FILLED")) \in Nat
      /\ Cardinality(EndedAs("EXPIRED")) \in Nat
      /\ IsFiniteSet(Used) /\ rejected \in Nat /\ nextTicket \in Int
      /\ entries \in [Ids -> PendingEntryStatus \cup {"none"}]
  BY UsedIsFinite, SimulationBounds DEF CountersOK, SimInv, TicketsOK
<1>2. CASE UNCHANGED <<entries, rejected, nextTicket, pending>>
  <2>1. Used' = Used /\ \A s : EndedAs(s)' = EndedAs(s)
    BY <1>2 DEF Used, EndedAs
  <2> QED
    BY <1>2, <2>1 DEF CountersOK
<1>3. ASSUME NEW c \in Candles(candle.time + 1), Snapshot(c) PROVE CountersOK'
  <2>1. rejected' = rejected /\ UpdateMarket(c)
    BY <1>3 DEF Snapshot
  <2>2. CASE EntryUntouched(c)
    BY <1>2, <2>1, <2>2 DEF EntryUntouched
  <2>3. CASE EntryFills(c) \/ EntryWaits(c)
    <3>1. pending # NoEntry
      BY <2>3 DEF EntryFills, EntryWaits, EntrySees
    <3>2. /\ pending.id \in Ids /\ pending.status \in {"SUBMITTED", "WORKING"}
          /\ entries[pending.id] = pending.status
      BY <3>1 DEF SimInv, RestingOK
    <3>3. entries[pending.id] \notin {"FILLED", "EXPIRED", "none"}
      BY <3>2
    <3>4. CASE EntryFills(c)
      <4>1. /\ entries' = [entries EXCEPT ![pending.id] = "FILLED"] /\ pending' = NoEntry
            /\ nextTicket' = nextTicket + 1
        BY <3>4 DEF EntryFills, EntryEnds
      <4> QED
        BY <1>1, <2>1, <3>1, <3>2, <3>3, <4>1, CountersMoved DEF OrderMoved
    <3>5. CASE EntryWaits(c) /\ AgedOut(pending.age + 1)
      <4>1. /\ entries' = [entries EXCEPT ![pending.id] = "EXPIRED"] /\ pending' = NoEntry
            /\ nextTicket' = nextTicket
        BY <3>5 DEF EntryWaits, EntryEnds
      <4> QED
        BY <1>1, <2>1, <3>1, <3>2, <3>3, <4>1, CountersMoved DEF OrderMoved
    <3>6. CASE EntryWaits(c) /\ ~AgedOut(pending.age + 1)
      <4>1. /\ entries' = [entries EXCEPT ![pending.id] = "WORKING"]
            /\ pending' = [pending EXCEPT !.age = @ + 1, !.status = "WORKING"]
            /\ nextTicket' = nextTicket
        BY <3>6 DEF EntryWaits
      <4>2. pending \in [id : Ids, status : {"SUBMITTED", "WORKING"}, age : 0 .. TTL - 1,
                        signal : 0 .. candle.time]
        BY <3>1 DEF SimInv, RestingOK
      <4>3. pending'.status = "WORKING"
        BY <4>1, <4>2
      <4>4. pending' # NoEntry
        BY <4>3 DEF NoEntry
      <4> QED
        BY <1>1, <2>1, <3>1, <3>2, <3>3, <4>1, <4>4, CountersMoved DEF OrderMoved
    <3> QED
      BY <2>3, <3>4, <3>5, <3>6
  <2> QED
    BY <2>1, <2>2, <2>3 DEF UpdateMarket
<1>4. ASSUME NEW id \in Ids, SubmitSetup(id) PROVE CountersOK'
  <2>1. position = NoPosition /\ pending = NoEntry /\ entries[id] = "none"
        /\ SubmitEntry(id, candle.time) /\ rejected' = CountedRejection
    BY <1>4 DEF SubmitSetup, Duplicate, KeysOK
  <2>2. ~SubmissionRefused(id, candle.time)
    BY <2>1 DEF SubmissionRefused, PositionBlocksEntry
  <2>3. nextTicket' = nextTicket
    BY <2>1, <2>2 DEF SubmitEntry
  <2>4. CASE LevelsValid(Requests[id], Requests[id].entry)
    <3>1. /\ entries' = [entries EXCEPT ![id] = "SUBMITTED"] /\ outcome' = "ok"
          /\ pending' = [id |-> id, status |-> "SUBMITTED", age |-> 0, signal |-> candle.time]
      BY <2>1, <2>2, <2>4 DEF SubmitEntry
    <3>2. pending' # NoEntry /\ rejected' = rejected
      BY <2>1, <3>1, NothingElse DEF CountedRejection
    <3> QED
      BY <1>1, <2>1, <2>3, <3>1, <3>2, CountersMoved DEF OrderMoved
  <2>5. CASE ~LevelsValid(Requests[id], Requests[id].entry)
    <3>1. /\ entries' = [entries EXCEPT ![id] = "REJECTED"] /\ outcome' = "rejected"
          /\ pending' = pending /\ rejected' = rejected + 1
      BY <2>1, <2>2, <2>5 DEF SubmitEntry, CountedRejection
    <3> QED
      BY <1>1, <2>1, <2>3, <3>1, CountersMoved DEF OrderMoved
  <2> QED
    BY <2>4, <2>5
<1>5. CASE NoNewEntry \/ FinishSnapshot \/ UNCHANGED backtestVars
  BY <1>2, <1>5 DEF NoNewEntry, FinishSnapshot, backtestVars, brokerVars
<1> QED
  BY <1>3, <1>4, <1>5 DEF BacktestNext

LEMMA CountersInvariant == BacktestSpec => []CountersOK
<1>1. BacktestInit => CountersOK
  <2> SUFFICES ASSUME BacktestInit PROVE CountersOK
    OBVIOUS
  <2>1. Used = {} /\ EndedAs("FILLED") = {} /\ EndedAs("EXPIRED") = {}
    BY DEF BacktestInit, SimInit, Used, EndedAs
  <2>2. /\ IsFiniteSet(Used) /\ Cardinality(Used) = 0
        /\ Cardinality(EndedAs("FILLED")) = 0 /\ Cardinality(EndedAs("EXPIRED")) = 0
    BY <2>1, FS_EmptySet
  <2> QED
    BY <2>2 DEF BacktestInit, SimInit, CountersOK
<1> QED
  BY <1>1, CountersKept, KeysInvariant, BacktestSimInvariant, PTL DEF BacktestSpec

(* What a backtest returns is complete: after every snapshot the journal    *)
(* holds every trade once and in order, and the counters of submitted,      *)
(* filled, expired and rejected entries add up.                             *)
THEOREM CompleteResult == BacktestSpec => []ResultIsComplete
<1>1. SimInv /\ JournalOK /\ CountersOK => ResultIsComplete
  <2> SUFFICES ASSUME SimInv, JournalOK, CountersOK, step = "market" PROVE JournalComplete /\ ResultAddsUp
    BY DEF ResultIsComplete, JournalComplete, ResultAddsUp
  <2>1. lastTicket = nextTicket - 1 - (IF position = NoPosition THEN 0 ELSE 1)
        /\ nextTicket \in Int /\ lastTicket \in Nat
    BY SimulationBounds DEF JournalOK, SimInv, TicketsOK
  <2>2. journal = [i \in 1 .. lastTicket |-> i] /\ processed = candle.time
    BY SimulationBounds DEF JournalOK, SimInv, CandleOK
  <2>3. Len(journal) = lastTicket
    BY <2>1, <2>2
  <2>4. JournalComplete
    BY <2>1, <2>2 DEF JournalComplete
  <2>5. ResultAddsUp
    BY <2>1, <2>2, <2>3 DEF ResultAddsUp, CountersOK, Used
  <2> QED
    BY <2>4, <2>5
<1> QED
  BY <1>1, BacktestSimInvariant, JournalInvariant, CountersInvariant, PTL
=============================================================================
