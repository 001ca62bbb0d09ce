------------------------ MODULE HistoricalDataProofs ------------------------
(***************************************************************************)
(* Proofs, for every range, interval, page size and number of runs, and    *)
(* whatever faults occur, of what MCHistoricalData checks on one range.    *)
(*                                                                         *)
(* The invariant behind them says what an unfinished download knows: rows  *)
(* of candles that were over when it began have their final values, and no *)
(* candle from the cursor on is missing.                                   *)
(***************************************************************************)
EXTENDS HistoricalData, TLAPS

USE DEF environmentVars

(* A download's rows: of candles that exist, final if they were over when  *)
(* it began.                                                               *)
RowsTrue(rs, since) ==
    \A row \in rs : Close(row.open) <= since => row.seen = Close(row.open)

HasFrom(rs, first, end) ==
    \A open \in Opens : first <= open /\ open < end =>
        \E row \in rs : row.open = open

Clean(r) == rows[r] = {} /\ history[r] = NoHistory

Paging(r) ==
    /\ Start < cursor[r] /\ cursor[r] <= EffectiveEnd(r)
    /\ HasFrom(rows[r], cursor[r], EffectiveEnd(r))
    /\ history[r] = NoHistory

Mapping(r) ==
    /\ HasFrom(rows[r], Start, EffectiveEnd(r))
    /\ history[r] = NoHistory

Downloaded(r) ==
    /\ rows[r] = {}
    /\ history[r].source = "Bybit"
    /\ history[r].candles = FinishedBy(asked[r])

FromFile(r) ==
    /\ rows[r] = {}
    /\ history[r].source = "cache"
    /\ \E time \in 0 .. now : history[r].candles = FinishedBy(time)

RunInv(r) ==
    /\ asked[r] <= now
    /\ RowsTrue(rows[r], asked[r])
    /\ pc[r] \in {"idle", "failed"} => Clean(r)
    /\ pc[r] = "page" => Paging(r)
    /\ pc[r] = "map" => Mapping(r)
    /\ pc[r] \in {"write", "replace"} => Downloaded(r)
    /\ pc[r] = "done" => Downloaded(r) \/ FromFile(r)
    /\ pc[r] # "conflict"

HistoryInv ==
    /\ HistoryTypeOK
    /\ CacheIsWhole
    /\ \A r \in Runs : RunInv(r)

----------------------------------------------------------------------------
(* What is kept of complete and true rows is what the backtest should see,  *)
(* and no two kept rows are of the same candle.                            *)
LEMMA KeptIsFinished ==
    ASSUME NEW rs \in SUBSET Row, NEW since \in Nat,
           RowsTrue(rs, since), HasFrom(rs, Start, Lesser(End, since))
    PROVE  /\ Kept(rs, Lesser(End, since)) = FinishedBy(since)
           /\ ~Conflicting(rs, Lesser(End, since))
<1> DEFINE end == Lesser(End, since)
<1> USE RangeAssumption, IntervalAssumption, OpensAssumption DEF Close
<1>1. end \in Nat /\ end <= since
  BY DEF Lesser
<1>2. ASSUME NEW row \in Kept(rs, end)
      PROVE  /\ row \in Row /\ row = [open |-> row.open, seen |-> Close(row.open)]
             /\ Start <= row.open /\ Close(row.open) <= end
  <2>1. row \in rs /\ row \in Row /\ Close(row.open) <= end /\ Start <= row.open
    BY <1>2 DEF Kept
  <2>2. row.open \in Nat /\ since \in Nat
    BY <2>1 DEF Row
  <2>3. Close(row.open) <= since
    BY <1>1, <2>1, <2>2
  <2>4. row.seen = Close(row.open)
    BY <2>1, <2>3 DEF RowsTrue
  <2> QED
    BY <2>1, <2>4 DEF Row
<1>3. Kept(rs, end) \subseteq FinishedBy(since)
  BY <1>2 DEF FinishedBy, Row
<1>4. ASSUME NEW o \in Opens, Start <= o, Close(o) <= end
      PROVE  [open |-> o, seen |-> Close(o)] \in Kept(rs, end)
  <2>1. PICK row \in rs : row.open = o
    BY <1>1, <1>4 DEF HasFrom
  <2>2. row \in Kept(rs, end)
    BY <1>1, <1>4, <2>1 DEF Kept
  <2> QED
    BY <1>2, <2>1, <2>2
<1>5. FinishedBy(since) \subseteq Kept(rs, end)
  BY <1>4 DEF FinishedBy
<1>6. ~Conflicting(rs, end)
  BY <1>2 DEF Conflicting, Ambiguous
<1> QED
  BY <1>3, <1>5, <1>6

(* Reading a file back loses nothing.                                       *)
LEMMA KeptIsIdempotent ==
    ASSUME NEW time \in Nat
    PROVE  Kept(FinishedBy(time), End) = FinishedBy(time)
<1> USE RangeAssumption, IntervalAssumption, OpensAssumption DEF Close
<1> SUFFICES ASSUME NEW row \in FinishedBy(time) PROVE row \in Kept(FinishedBy(time), End)
  BY DEF Kept
<1>1. PICK o \in Opens : /\ row = [open |-> o, seen |-> Close(o)]
                         /\ Start <= o /\ Close(o) <= Lesser(End, time)
  BY DEF FinishedBy
<1>2. o \in Nat /\ o < End /\ o + Interval <= End
  BY <1>1 DEF Lesser
<1> QED
  BY <1>1, <1>2 DEF Kept

(* A range that has not begun has no finished candle.                       *)
LEMMA NothingFinishedYet ==
    ASSUME NEW time \in Nat, Lesser(End, time) <= Start
    PROVE  FinishedBy(time) = {}
BY RangeAssumption, IntervalAssumption, OpensAssumption DEF FinishedBy, Lesser, Close

(* What a page shows is the candles as they are now.                        *)
LEMMA PageIsTrue ==
    ASSUME NEW time \in Nat, NEW since \in Nat, since <= time,
           NEW opens \in SUBSET Opens
    PROVE  LET page == {RowAt(open, time) : open \in opens} IN
           page \in SUBSET Row /\ RowsTrue(page, since)
<1> USE IntervalAssumption, OpensAssumption
<1>1. ASSUME NEW open \in opens
      PROVE  /\ RowAt(open, time) \in Row /\ RowAt(open, time).open = open
             /\ Close(open) <= since => RowAt(open, time).seen = Close(open)
  BY DEF RowAt, Row, Lesser, Close
<1> QED
  BY <1>1 DEF RowsTrue

----------------------------------------------------------------------------
LEMMA HistoryInitInv == Init => HistoryInv
<1> SUFFICES ASSUME Init PROVE HistoryInv
  OBVIOUS
<1>1. HistoryTypeOK
  BY DEF Init, HistoryTypeOK, NoHistory, Absent
<1>2. CacheIsWhole
  BY DEF Init, CacheIsWhole, Absent
<1>3. ASSUME NEW r \in Runs PROVE RunInv(r)
  BY DEF Init, RunInv, Clean, RowsTrue
<1> QED
  BY <1>1, <1>2, <1>3 DEF HistoryInv

(* A step that leaves a run's own state alone, while the market moves on,   *)
(* keeps what is known of it.                                              *)
LEMMA OthersKeep ==
    ASSUME HistoryInv, NEW r \in Runs, now' \in Nat, now <= now',
           pc'[r] = pc[r], asked'[r] = asked[r], cursor'[r] = cursor[r],
           rows'[r] = rows[r], history'[r] = history[r]
    PROVE  RunInv(r)'
<1>1. RunInv(r) /\ now \in Nat /\ asked[r] \in Nat
  BY DEF HistoryInv, HistoryTypeOK
<1>2. EffectiveEnd(r)' = EffectiveEnd(r)
  BY DEF EffectiveEnd
<1>3. asked'[r] <= now'
  BY <1>1 DEF RunInv
<1>4. FromFile(r) => FromFile(r)'
  <2> SUFFICES ASSUME FromFile(r) PROVE FromFile(r)'
    OBVIOUS
  <2>1. PICK time \in 0 .. now : history[r].candles = FinishedBy(time)
    BY DEF FromFile
  <2>2. time \in 0 .. now'
    BY <1>1
  <2> QED
    BY <2>1, <2>2 DEF FromFile
<1> QED
  BY <1>1, <1>2, <1>3, <1>4 DEF RunInv, Clean, Paging, Mapping, Downloaded

(* Leaving the function forgets the download.                               *)
LEMMA LeaveKeeps ==
    ASSUME HistoryInv, NEW r \in Runs, NEW label \in {"idle", "failed"},
           Leave(r, label)
    PROVE  HistoryInv'
<1> USE DEF Leave, Goto
<1>1. HistoryTypeOK'
  BY DEF HistoryInv, HistoryTypeOK, NoHistory
<1>2. CacheIsWhole'
  BY DEF HistoryInv, CacheIsWhole
<1>3. RunInv(r)'
  BY DEF HistoryInv, HistoryTypeOK, RunInv, Clean, RowsTrue
<1>4. ASSUME NEW q \in Runs, q # r PROVE RunInv(q)'
  BY <1>4, OthersKeep DEF HistoryInv, HistoryTypeOK
<1> QED
  BY <1>1, <1>2, <1>3, <1>4 DEF HistoryInv

LEMMA EnvironmentKeeps ==
    ASSUME HistoryInv, Tick \/ Damage PROVE HistoryInv'
<1>1. HistoryTypeOK'
  <2>1. CASE Tick
    BY <2>1 DEF HistoryInv, HistoryTypeOK, Tick
  <2>2. CASE Damage
    BY <2>2 DEF HistoryInv, HistoryTypeOK, Damage, Unreadable
  <2> QED
    BY <2>1, <2>2
<1>2. now' \in Nat /\ now <= now' /\ now \in Nat
  BY DEF HistoryInv, HistoryTypeOK, Tick, Damage
<1>3. CacheIsWhole'
  <2>1. CASE Tick
    <3>1. ASSUME cache.state = "readable"
          PROVE  \E time \in 0 .. now' : cache.candles = FinishedBy(time)
      <4>1. PICK time \in 0 .. now : cache.candles = FinishedBy(time)
        BY <3>1 DEF HistoryInv, CacheIsWhole
      <4>2. time \in 0 .. now'
        BY <1>2
      <4> QED
        BY <4>1, <4>2
    <3> QED
      BY <2>1, <3>1 DEF HistoryInv, CacheIsWhole, Tick, FinishedBy
  <2>2. CASE Damage
    BY <2>2 DEF CacheIsWhole, Damage, Unreadable
  <2> QED
    BY <2>1, <2>2
<1>4. ASSUME NEW r \in Runs PROVE RunInv(r)'
  BY <1>2, OthersKeep DEF Tick, Damage
<1> QED
  BY <1>1, <1>3, <1>4 DEF HistoryInv

LEMMA LoadCacheKeeps ==
    ASSUME HistoryInv, NEW r \in Runs, LoadCache(r) PROVE HistoryInv'
<1>1. CASE Leave(r, "failed")
  BY <1>1, LeaveKeeps
<1>2. ASSUME cache.state = "readable", pc[r] = "idle", Goto(r, "done"),
             history' = [history EXCEPT ![r] =
                            From("cache", Kept(cache.candles, End))],
             UNCHANGED <<environmentVars, asked, cursor, rows>>
      PROVE  HistoryInv'
  <2> USE <1>2 DEF Goto
  <2>1. now \in Nat /\ rows[r] = {}
    BY DEF HistoryInv, HistoryTypeOK, RunInv, Clean
  <2>2. PICK time \in 0 .. now : cache.candles = FinishedBy(time)
    BY DEF HistoryInv, CacheIsWhole
  <2>3. Kept(cache.candles, End) = FinishedBy(time)
    BY <2>1, <2>2, KeptIsIdempotent
  <2>4. history'[r] = From("cache", FinishedBy(time)) /\ pc'[r] = "done"
    BY <2>3 DEF HistoryInv, HistoryTypeOK
  <2>5. HistoryTypeOK'
    BY <2>2, <2>3 DEF HistoryInv, HistoryTypeOK, From
  <2>6. CacheIsWhole'
    BY DEF HistoryInv, CacheIsWhole
  <2>7. RunInv(r)'
    BY <2>1, <2>4 DEF HistoryInv, HistoryTypeOK, RunInv, FromFile, From
  <2>8. ASSUME NEW q \in Runs, q # r PROVE RunInv(q)'
    BY <2>1, <2>8, OthersKeep DEF HistoryInv, HistoryTypeOK
  <2> QED
    BY <2>5, <2>6, <2>7, <2>8 DEF HistoryInv
<1> QED
  BY <1>1, <1>2 DEF LoadCache

LEMMA BeginDownloadKeeps ==
    ASSUME HistoryInv, NEW r \in Runs, BeginDownload(r) PROVE HistoryInv'
<1> USE RangeAssumption DEF BeginDownload, Goto
<1>1. now \in Nat /\ rows[r] = {} /\ history[r] = NoHistory /\ now' = now
  BY DEF HistoryInv, HistoryTypeOK, RunInv, Clean
<1>2. asked'[r] = now /\ rows'[r] = {} /\ EffectiveEnd(r)' = Lesser(End, now)
  BY <1>1 DEF HistoryInv, HistoryTypeOK, EffectiveEnd
<1>3. Lesser(End, now) \in Nat
  BY <1>1 DEF Lesser
<1>4. HistoryTypeOK'
  <2>1. From("Bybit", {}) \in [source : {"none", "cache", "Bybit"},
                              candles : SUBSET Row]
    BY DEF From
  <2>2. history' \in [Runs -> [source : {"none", "cache", "Bybit"},
                               candles : SUBSET Row]]
    BY <2>1 DEF HistoryInv, HistoryTypeOK
  <2>3. cursor' \in [Runs -> Nat] /\ asked' \in [Runs -> Nat]
    BY <1>1, <1>3 DEF HistoryInv, HistoryTypeOK
  <2> QED
    BY <2>2, <2>3 DEF HistoryInv, HistoryTypeOK
<1>5. CacheIsWhole'
  BY DEF HistoryInv, CacheIsWhole
<1>6. RunInv(r)'
  <2>1. CASE Lesser(End, now) <= Start
    <3>1. pc'[r] = "write" /\ history'[r] = From("Bybit", {})
      BY <2>1 DEF HistoryInv, HistoryTypeOK
    <3>2. FinishedBy(now) = {}
      BY <1>1, <2>1, NothingFinishedYet
    <3>3. Downloaded(r)'
      BY <1>2, <3>1, <3>2 DEF Downloaded, From, FinishedBy
    <3> QED
      BY <1>1, <1>2, <3>1, <3>3 DEF RunInv, RowsTrue
  <2>2. CASE ~(Lesser(End, now) <= Start)
    <3>1. pc'[r] = "page" /\ cursor'[r] = Lesser(End, now) /\ history'[r] = NoHistory
      BY <1>1, <2>2 DEF HistoryInv, HistoryTypeOK
    <3>2. Paging(r)'
      BY <1>2, <1>3, <2>2, <3>1, OpensAssumption DEF Paging, HasFrom
    <3> QED
      BY <1>1, <1>2, <3>1, <3>2 DEF RunInv, RowsTrue
  <2> QED
    BY <2>1, <2>2
<1>7. ASSUME NEW q \in Runs, q # r PROVE RunInv(q)'
  BY <1>1, <1>7, OthersKeep DEF HistoryInv, HistoryTypeOK
<1> QED
  BY <1>4, <1>5, <1>6, <1>7 DEF HistoryInv

----------------------------------------------------------------------------
(* Whatever range a page is asked for, an earlier page has what is above it.*)
LEMMA PageEndAbove ==
    ASSUME HistoryInv, NEW r \in Runs, pc[r] = "page", NEW range \in PageRanges(r)
    PROVE  /\ range.start \in Nat /\ range.start <= Start
           /\ range.end \in Nat /\ cursor[r] <= range.end
           /\ EffectiveEnd(r) <= now
BY RangeAssumption
   DEF HistoryInv, HistoryTypeOK, RunInv, Paging, PageRanges, Span, EffectiveEnd, Lesser

LEMMA EmptyPageKeeps ==
    ASSUME HistoryInv, NEW r \in Runs, pc[r] = "page",
           NEW range \in PageRanges(r), Available(range.start, range.end) = {},
           Goto(r, "map"),
           UNCHANGED <<cursor, rows, asked, history, environmentVars>>
    PROVE  HistoryInv'
<1> USE RangeAssumption, OpensAssumption DEF Goto
<1>1. HistoryTypeOK'
  BY DEF HistoryInv, HistoryTypeOK
<1>2. CacheIsWhole'
  BY DEF HistoryInv, CacheIsWhole
<1>3. RunInv(r)'
  <2>1. RunInv(r) /\ Paging(r) /\ pc'[r] = "map" /\ now \in Nat
        /\ cursor[r] \in Nat /\ asked[r] \in Nat
    BY DEF HistoryInv, HistoryTypeOK, RunInv
  <2>2. /\ range.start \in Nat /\ range.start <= Start
        /\ range.end \in Nat /\ cursor[r] <= range.end /\ EffectiveEnd(r) <= now
    BY PageEndAbove
  <2>3. EffectiveEnd(r) \in Nat
    BY <2>1 DEF EffectiveEnd, Lesser
  <2>4. ASSUME NEW open \in Opens, Start <= open, open < EffectiveEnd(r)
        PROVE  cursor[r] <= open
    BY <2>1, <2>2, <2>3, <2>4 DEF Available
  <2>5. HasFrom(rows[r], Start, EffectiveEnd(r))
    BY <2>1, <2>4 DEF Paging, HasFrom
  <2> QED
    BY <2>1, <2>5 DEF RunInv, Paging, Mapping, EffectiveEnd
<1>4. ASSUME NEW q \in Runs, q # r PROVE RunInv(q)'
  BY <1>4, OthersKeep DEF HistoryInv, HistoryTypeOK
<1> QED
  BY <1>1, <1>2, <1>3, <1>4 DEF HistoryInv

LEMMA FullPageKeeps ==
    ASSUME HistoryInv, NEW r \in Runs, pc[r] = "page",
           NEW range \in PageRanges(r), NEW oldest \in Available(range.start, range.end),
           oldest <= Start \/ Advances(oldest, cursor[r]),
           rows' = [rows EXCEPT ![r] = @ \cup
                       {RowAt(open, now) : open \in Available(oldest, range.end)}],
           Goto(r, IF oldest <= Start THEN "map" ELSE "page"),
           cursor' = [cursor EXCEPT ![r] = IF oldest <= Start THEN @ ELSE oldest],
           UNCHANGED <<asked, history, environmentVars>>
    PROVE  HistoryInv'
<1> DEFINE page == {RowAt(open, now) : open \in Available(oldest, range.end)}
<1> USE RangeAssumption, OpensAssumption DEF Goto
<1>1. /\ RunInv(r) /\ Paging(r) /\ now \in Nat /\ rows[r] \in SUBSET Row
      /\ cursor[r] \in Nat /\ asked[r] \in Nat /\ asked[r] <= now
      /\ oldest \in Nat /\ Available(oldest, range.end) \in SUBSET Opens
  BY DEF HistoryInv, HistoryTypeOK, RunInv, Available
<1>2. range.end \in Nat /\ cursor[r] <= range.end /\ EffectiveEnd(r) <= now
  BY PageEndAbove
<1>3. page \in SUBSET Row /\ RowsTrue(page, asked[r])
  BY <1>1, PageIsTrue
<1>4. rows'[r] = rows[r] \cup page
  BY DEF HistoryInv, HistoryTypeOK
<1>5. EffectiveEnd(r) \in Nat /\ EffectiveEnd(r)' = EffectiveEnd(r)
  BY <1>1 DEF EffectiveEnd, Lesser
<1>6. HistoryTypeOK'
  <2>1. rows' \in [Runs -> SUBSET Row]
    BY <1>3 DEF HistoryInv, HistoryTypeOK
  <2> QED
    BY <1>1, <2>1 DEF HistoryInv, HistoryTypeOK
<1>7. CacheIsWhole'
  BY DEF HistoryInv, CacheIsWhole
<1>8. HasFrom(rows'[r], oldest, EffectiveEnd(r))
  <2> SUFFICES ASSUME NEW open \in Opens, oldest <= open, open < EffectiveEnd(r)
               PROVE  \E row \in rows'[r] : row.open = open
    BY DEF HasFrom
  <2>1. CASE cursor[r] <= open
    BY <1>1, <1>4, <2>1 DEF Paging, HasFrom
  <2>2. CASE open < cursor[r]
    <3>1. open \in Available(oldest, range.end)
      BY <1>1, <1>2, <1>5, <2>2 DEF Available
    <3>2. RowAt(open, now) \in rows'[r] /\ RowAt(open, now).open = open
      BY <1>4, <3>1 DEF RowAt
    <3> QED
      BY <3>2
  <2> QED
    BY <1>1, <2>1, <2>2
<1>9. RowsTrue(rows'[r], asked[r]) /\ history'[r] = NoHistory
  BY <1>1, <1>3, <1>4 DEF RunInv, RowsTrue, Paging
<1>10. RunInv(r)'
  <2>1. CASE oldest <= Start
    <3>1. pc'[r] = "map"
      BY <1>1, <2>1 DEF HistoryInv, HistoryTypeOK
    <3>2. HasFrom(rows'[r], Start, EffectiveEnd(r))
      BY <1>1, <1>8, <2>1 DEF HasFrom
    <3> QED
      BY <1>1, <1>5, <1>9, <3>1, <3>2 DEF RunInv, Mapping
  <2>2. CASE ~(oldest <= Start)
    <3>1. pc'[r] = "page" /\ cursor'[r] = oldest /\ oldest < cursor[r]
      BY <2>2 DEF HistoryInv, HistoryTypeOK, Advances
    <3>2. Start < oldest /\ oldest <= EffectiveEnd(r)
      BY <1>1, <1>5, <2>2, <3>1 DEF Paging
    <3> QED
      BY <1>1, <1>5, <1>8, <1>9, <3>1, <3>2 DEF RunInv, Paging
  <2> QED
    BY <2>1, <2>2
<1>11. ASSUME NEW q \in Runs, q # r PROVE RunInv(q)'
  BY <1>1, <1>11, OthersKeep DEF HistoryInv, HistoryTypeOK
<1> QED
  BY <1>6, <1>7, <1>10, <1>11 DEF HistoryInv

LEMMA ReadPageKeeps ==
    ASSUME HistoryInv, NEW r \in Runs, ReadPage(r) PROVE HistoryInv'
BY EmptyPageKeeps, FullPageKeeps, LeaveKeeps DEF ReadPage

LEMMA MapRowsKeeps ==
    ASSUME HistoryInv, NEW r \in Runs, MapRows(r) PROVE HistoryInv'
<1> USE DEF MapRows, Goto
<1>1. /\ rows[r] \in SUBSET Row /\ asked[r] \in Nat /\ asked[r] <= now /\ now \in Nat
      /\ RowsTrue(rows[r], asked[r])
      /\ HasFrom(rows[r], Start, Lesser(End, asked[r]))
  BY DEF HistoryInv, HistoryTypeOK, RunInv, Mapping, EffectiveEnd
<1>2. /\ Kept(rows[r], EffectiveEnd(r)) = FinishedBy(asked[r])
      /\ ~Conflicting(rows[r], EffectiveEnd(r))
  BY <1>1, KeptIsFinished DEF EffectiveEnd
<1>3. /\ pc'[r] = "write" /\ rows'[r] = {} /\ asked' = asked /\ now' = now
      /\ history'[r] = From("Bybit", FinishedBy(asked[r]))
  BY <1>2 DEF HistoryInv, HistoryTypeOK
<1>4. HistoryTypeOK'
  <2>1. FinishedBy(asked[r]) \in SUBSET Row
    BY <1>1, <1>2 DEF Kept
  <2>2. From("Bybit", FinishedBy(asked[r]))
           \in [source : {"none", "cache", "Bybit"}, candles : SUBSET Row]
    BY <2>1 DEF From
  <2>3. history' \in [Runs -> [source : {"none", "cache", "Bybit"},
                               candles : SUBSET Row]]
    BY <1>2, <2>2 DEF HistoryInv, HistoryTypeOK
  <2>4. pc' \in [Runs -> {"idle", "page", "map", "write", "replace",
                         "done", "failed", "conflict"}]
    BY <1>2 DEF HistoryInv, HistoryTypeOK
  <2>5. rows' \in [Runs -> SUBSET Row]
    BY <1>2 DEF HistoryInv, HistoryTypeOK
  <2>6. cursor' \in [Runs -> Nat]
    BY <1>2 DEF HistoryInv, HistoryTypeOK
  <2>7. UNCHANGED <<now, cache, damaged, asked>>
    BY <1>2 DEF environmentVars
  <2> HIDE DEF MapRows, Goto
  <2> QED
    BY <2>3, <2>4, <2>5, <2>6, <2>7 DEF HistoryInv, HistoryTypeOK
<1>5. CacheIsWhole'
  BY <1>2 DEF HistoryInv, CacheIsWhole
<1>6. RunInv(r)'
  BY <1>1, <1>3 DEF RunInv, RowsTrue, Downloaded, From, FinishedBy
<1>7. ASSUME NEW q \in Runs, q # r PROVE RunInv(q)'
  BY <1>1, <1>2, <1>7, OthersKeep DEF HistoryInv, HistoryTypeOK
<1> QED
  BY <1>4, <1>5, <1>6, <1>7 DEF HistoryInv

LEMMA WritingKeeps ==
    ASSUME HistoryInv, NEW r \in Runs, WriteTemporary(r) \/ Replace(r)
    PROVE  HistoryInv'
<1> USE DEF WriteTemporary, Replace, Goto
<1>1. /\ Downloaded(r) /\ now' = now /\ now \in Nat /\ asked' = asked
      /\ asked[r] \in 0 .. now /\ rows' = rows /\ history' = history
      /\ pc'[r] \in {"replace", "done"} /\ RunInv(r)
  BY DEF HistoryInv, HistoryTypeOK, RunInv
<1>2. HistoryTypeOK'
  BY DEF HistoryInv, HistoryTypeOK, Holding
<1>3. CacheIsWhole'
  <2>1. CASE WriteTemporary(r)
    BY <2>1 DEF HistoryInv, CacheIsWhole
  <2>2. CASE Replace(r)
    BY <1>1, <2>2 DEF CacheIsWhole, Holding, Downloaded, FinishedBy
  <2> QED
    BY <2>1, <2>2
<1>4. RunInv(r)'
  BY <1>1 DEF RunInv, Downloaded, FinishedBy
<1>5. ASSUME NEW q \in Runs, q # r PROVE RunInv(q)'
  BY <1>1, <1>5, OthersKeep DEF HistoryInv, HistoryTypeOK
<1> QED
  BY <1>2, <1>3, <1>4, <1>5 DEF HistoryInv

----------------------------------------------------------------------------
LEMMA HistoryStepInv == HistoryInv /\ [Next]_vars => HistoryInv'
<1> SUFFICES ASSUME HistoryInv, [Next]_vars PROVE HistoryInv'
  OBVIOUS
<1>1. CASE UNCHANGED vars
  <2>1. HistoryTypeOK' /\ CacheIsWhole' /\ now' \in Nat /\ now <= now'
    BY <1>1 DEF HistoryInv, HistoryTypeOK, CacheIsWhole, vars
  <2>2. ASSUME NEW r \in Runs PROVE RunInv(r)'
    BY <1>1, <2>1, OthersKeep DEF vars
  <2> QED
    BY <2>1, <2>2 DEF HistoryInv
<1>2. CASE Tick \/ Damage
  BY <1>2, EnvironmentKeeps
<1>3. ASSUME NEW r \in Runs, LoadCache(r) \/ BeginDownload(r) PROVE HistoryInv'
  BY <1>3, LoadCacheKeeps, BeginDownloadKeeps
<1>4. ASSUME NEW r \in Runs, Work(r) PROVE HistoryInv'
  <2>1. CASE PageFails(r) \/ WriteFails(r)
    BY <2>1, LeaveKeeps DEF PageFails, WriteFails
  <2> QED
    BY <1>4, <2>1, ReadPageKeeps, MapRowsKeeps, WritingKeeps DEF Work
<1>5. ASSUME NEW r \in Runs, NextRun(r) \/ Crash(r) PROVE HistoryInv'
  BY <1>5, LeaveKeeps DEF NextRun, Crash
<1> QED
  BY <1>1, <1>2, <1>3, <1>4, <1>5 DEF Next

LEMMA AlwaysHistoryInv == Spec => []HistoryInv
BY HistoryInitInv, HistoryStepInv, PTL DEF Spec

(* A history is exactly the candles that were over at one moment, for a     *)
(* download the moment it began: BybitHistoricalClient.fetch_candles and   *)
(* BybitHistoricalMapper.map_rows, whatever pages the exchange answers with.*)
THEOREM HistoriesAreExact == Spec => []HistoryIsExact
<1>1. HistoryInv => HistoryIsExact
  <2> SUFFICES ASSUME HistoryInv, NEW r \in Runs
               PROVE  /\ history[r].source = "Bybit" =>
                            history[r].candles = FinishedBy(asked[r])
                      /\ history[r].source = "cache" =>
                            \E time \in 0 .. now :
                               history[r].candles = FinishedBy(time)
    BY DEF HistoryIsExact
  <2>1. history[r] = NoHistory \/ Downloaded(r) \/ FromFile(r)
    BY DEF HistoryInv, HistoryTypeOK, RunInv, Clean, Paging, Mapping
  <2> QED
    BY <2>1 DEF NoHistory, Downloaded, FromFile
<1> QED
  BY <1>1, AlwaysHistoryInv, PTL

(* The file is always one whole download, whichever writers race or die:    *)
(* HistoricalCandleCache.save.                                             *)
THEOREM CacheAlwaysWhole == Spec => []CacheIsWhole
<1>1. HistoryInv => CacheIsWhole
  BY DEF HistoryInv
<1> QED
  BY <1>1, AlwaysHistoryInv, PTL

(* map_rows never refuses a download for two readings of one candle.        *)
THEOREM DownloadsNeverConflict == Spec => []FormingCandlesNeverConflict
<1>1. HistoryInv => FormingCandlesNeverConflict
  BY DEF HistoryInv, RunInv, FormingCandlesNeverConflict
<1> QED
  BY <1>1, AlwaysHistoryInv, PTL
=============================================================================
