--------------------------- MODULE HistoricalData ---------------------------
(***************************************************************************)
(* The candles a backtest runs on: the paged download of a range           *)
(* (bybit_historical_client.py), the mapping of its rows                   *)
(* (bybit_historical_mapper.py), and the cache file the download is kept   *)
(* in (backtesting/historical_data.py).                                    *)
(*                                                                         *)
(* Several command line runs may ask for the same range at once: they have *)
(* the one cache file in common and nothing else.  A step of a run ends    *)
(* where it next talks to the exchange or to the file system; the market   *)
(* goes on between any two steps, so two pages of one download are read at *)
(* different times, and the candle that is forming changes between them.   *)
(*                                                                         *)
(* A candle's prices are abstracted to the time up to which it has seen    *)
(* the market: it is final when that is its close.  Histories are sets:    *)
(* the mapper sorts and numbers what it keeps.                             *)
(***************************************************************************)
EXTENDS Integers, FiniteSets

CONSTANTS
    Runs,       \* command line runs for this request
    Start, End, \* the request's range, end excluded
    Interval,   \* length of a candle
    Opens,      \* opening times of the exchange's candles, gaps included
    PageLimit,  \* MAX_PAGE_SIZE
    MaxTime,    \* bound: the market's clock stops here
    Faults      \* a subset of AllFaults

AllFaults ==
    {"request",  \* a page cannot be had, or is refused or malformed
     "range",    \* the exchange answers with newer candles than asked for
     "write",    \* the cache file cannot be written or replaced
     "damage",   \* the cache file is damaged from outside
     "crash"}    \* a run dies between two steps

ASSUME RangeAssumption == Start \in Nat /\ End \in Nat /\ Start < End
ASSUME IntervalAssumption == Interval \in Nat \ {0}
ASSUME OpensAssumption == Opens \subseteq Nat
ASSUME PageLimitAssumption == PageLimit \in Nat \ {0}
ASSUME HistoryBoundAssumption == MaxTime \in Nat

VARIABLES
    now,      \* the exchange's clock, which the runs' clocks agree with
    cache,    \* the file of this request
    damaged,  \* history: somebody else has damaged the file
    pc,       \* what each run does next
    asked,    \* when the run's download began (fetch_candles reads it once)
    cursor,   \* cursor_end: candles from here on have been downloaded
    rows,     \* the rows of the pages so far
    history   \* the candles the run has got: from the file or downloaded

vars == <<now, cache, damaged, pc, asked, cursor, rows, history>>
environmentVars == <<now, cache, damaged>>

Lesser(a, b) == IF a < b THEN a ELSE b

Row == [open : Opens, seen : Nat]
Close(open) == open + Interval
RowAt(open, time) == [open |-> open, seen |-> Lesser(time, Close(open))]

Absent == [state |-> "absent", candles |-> {}]
Unreadable == [state |-> "unreadable", candles |-> {}]
Holding(candles) == [state |-> "readable", candles |-> candles]

NoHistory == [source |-> "none", candles |-> {}]
From(origin, candles) == [source |-> origin, candles |-> candles]

Init ==
    /\ now = 0
    /\ cache = Absent
    /\ damaged = FALSE
    /\ pc = [r \in Runs |-> "idle"]
    /\ asked = [r \in Runs |-> 0]
    /\ cursor = [r \in Runs |-> 0]
    /\ rows = [r \in Runs |-> {}]
    /\ history = [r \in Runs |-> NoHistory]

----------------------------------------------------------------------------
(* The world around the runs. *)

Tick ==
    /\ now < MaxTime
    /\ now' = now + 1
    /\ UNCHANGED <<cache, damaged, pc, asked, cursor, rows, history>>

Damage ==
    /\ "damage" \in Faults
    /\ cache # Absent
    /\ cache' = Unreadable
    /\ damaged' = TRUE
    /\ UNCHANGED <<now, pc, asked, cursor, rows, history>>

----------------------------------------------------------------------------
(* load_historical_data *)

Goto(r, label) == pc' = [pc EXCEPT ![r] = label]

(* The run leaves load_historical_data: nothing of its download is kept.   *)
Leave(r, label) ==
    /\ Goto(r, label)
    /\ asked' = [asked EXCEPT ![r] = 0]
    /\ cursor' = [cursor EXCEPT ![r] = 0]
    /\ rows' = [rows EXCEPT ![r] = {}]
    /\ history' = [history EXCEPT ![r] = NoHistory]
    /\ UNCHANGED environmentVars

(* Rows of the half-open range whose candles are over by its end.          *)
KeptUnfinished(rs, end) == {row \in rs : Start <= row.open /\ row.open < end}

Kept(rs, end) ==
    {row \in rs : Start <= row.open /\ row.open < end /\ Close(row.open) <= end}

Ambiguous(rs) == \E a, b \in rs : a.open = b.open /\ a # b

ConflictingBeforeFilter(rs, end) == Ambiguous(rs)

Conflicting(rs, end) == Ambiguous(Kept(rs, end))

LoadCache(r) ==
    /\ pc[r] = "idle"
    /\ \/ /\ cache.state = "readable"
          /\ Goto(r, "done")
          /\ history' = [history EXCEPT ![r] =
                            From("cache", Kept(cache.candles, End))]
          /\ UNCHANGED <<environmentVars, asked, cursor, rows>>
       \/ cache.state = "unreadable" /\ Leave(r, "failed")

EffectiveEnd(r) == Lesser(End, asked[r])

(* Without a file, or to refresh it: now is read, and the whole range asked *)
(* for.  A range that has not begun has no candles yet.                     *)
BeginDownload(r) ==
    /\ pc[r] = "idle"
    /\ asked' = [asked EXCEPT ![r] = now]
    /\ IF Lesser(End, now) <= Start
       THEN /\ Goto(r, "write")
            /\ history' = [history EXCEPT ![r] = From("Bybit", {})]
            /\ UNCHANGED cursor
       ELSE /\ Goto(r, "page")
            /\ cursor' = [cursor EXCEPT ![r] = Lesser(End, now)]
            /\ UNCHANGED history
    /\ UNCHANGED <<environmentVars, rows>>

----------------------------------------------------------------------------
(* fetch_candles *)

(* The exchange's newest candles of a range, PageLimit of them or fewer; a *)
(* page is empty only when the range is.  With the fault "range" the reply  *)
(* ignores the range it was asked for.                                     *)
Available(start, end) ==
    {open \in Opens : start <= open /\ open < end /\ open <= now}

Span(start, end) == [start |-> start, end |-> end]

PageRanges(r) ==
    {Span(Start, cursor[r])}
        \cup (IF "range" \in Faults THEN {Span(0, now + 1)} ELSE {})

AlwaysAdvances(oldest, end) == TRUE

Advances(oldest, end) == oldest < end

(* The next page: rows are kept and the cursor moves to the oldest of them, *)
(* unless that would ask for the same candles again.                       *)
ReadPage(r) ==
    /\ pc[r] = "page"
    /\ \E range \in PageRanges(r) :
         \/ /\ Available(range.start, range.end) = {}
            /\ Goto(r, "map")
            /\ UNCHANGED <<cursor, rows, asked, history, environmentVars>>
         \/ \E oldest \in Available(range.start, range.end) :
              /\ Cardinality(Available(oldest, range.end)) <= PageLimit
              /\ IF oldest <= Start \/ Advances(oldest, cursor[r])
                 THEN /\ rows' = [rows EXCEPT ![r] = @ \cup
                             {RowAt(open, now) : open \in Available(oldest, range.end)}]
                      /\ Goto(r, IF oldest <= Start THEN "map" ELSE "page")
                      /\ cursor' = [cursor EXCEPT ![r] =
                                        IF oldest <= Start THEN @ ELSE oldest]
                      /\ UNCHANGED <<asked, history, environmentVars>>
                 ELSE Leave(r, "failed")

PageFails(r) ==
    /\ pc[r] = "page"
    /\ "request" \in Faults
    /\ Leave(r, "failed")

(* map_rows *)
MapRows(r) ==
    /\ pc[r] = "map"
    /\ IF Conflicting(rows[r], EffectiveEnd(r))
       THEN Leave(r, "conflict")
       ELSE /\ Goto(r, "write")
            /\ history' = [history EXCEPT ![r] =
                              From("Bybit", Kept(rows[r], EffectiveEnd(r)))]
            /\ cursor' = [cursor EXCEPT ![r] = 0]
            /\ rows' = [rows EXCEPT ![r] = {}]
            /\ UNCHANGED <<environmentVars, asked>>

----------------------------------------------------------------------------
(* HistoricalCandleCache.save: the candles go to a temporary file, which    *)
(* then replaces the request's file at once.                               *)
WriteInPlace(r) ==
    /\ pc[r] = "write"
    /\ Goto(r, "replace")
    /\ cache' = Unreadable
    /\ UNCHANGED <<now, damaged, asked, cursor, rows, history>>

WriteTemporary(r) ==
    /\ pc[r] = "write"
    /\ Goto(r, "replace")
    /\ UNCHANGED <<environmentVars, asked, cursor, rows, history>>

Replace(r) ==
    /\ pc[r] = "replace"
    /\ Goto(r, "done")
    /\ cache' = Holding(history[r].candles)
    /\ UNCHANGED <<now, damaged, asked, cursor, rows, history>>

(* The temporary file is removed, the request's file is as it was.          *)
WriteFails(r) ==
    /\ pc[r] \in {"write", "replace"}
    /\ "write" \in Faults
    /\ Leave(r, "failed")

----------------------------------------------------------------------------
(* A run ends with its backtest or its error; another may be started.      *)
NextRun(r) ==
    /\ pc[r] \in {"done", "failed", "conflict"}
    /\ Leave(r, "idle")

Crash(r) ==
    /\ "crash" \in Faults
    /\ pc[r] \notin {"idle", "done", "failed", "conflict"}
    /\ Leave(r, "idle")

Work(r) ==
    \/ ReadPage(r) \/ PageFails(r) \/ MapRows(r)
    \/ WriteTemporary(r) \/ Replace(r) \/ WriteFails(r)

Next ==
    \/ Tick \/ Damage
    \/ \E r \in Runs :
         LoadCache(r) \/ BeginDownload(r) \/ Work(r) \/ NextRun(r) \/ Crash(r)

Spec == Init /\ [][Next]_vars

(* A run that has begun is not suspended for ever: it has no lock to wait   *)
(* for, and every request has a timeout.                                   *)
FairSpec == Spec /\ \A r \in Runs : WF_vars(Work(r))

----------------------------------------------------------------------------
(* What the candles are. *)

HistoryTypeOK ==
    /\ now \in Nat
    /\ cache \in [state : {"absent", "unreadable", "readable"},
                  candles : SUBSET Row]
    /\ damaged \in BOOLEAN
    /\ pc \in [Runs -> {"idle", "page", "map", "write", "replace",
                        "done", "failed", "conflict"}]
    /\ asked \in [Runs -> Nat]
    /\ cursor \in [Runs -> Nat]
    /\ rows \in [Runs -> SUBSET Row]
    /\ history \in [Runs -> [source : {"none", "cache", "Bybit"},
                             candles : SUBSET Row]]

(* All the candles of the range that were over at a time, with the values   *)
(* they had at their close.                                                *)
FinishedBy(time) ==
    {[open |-> open, seen |-> Close(open)] :
        open \in {o \in Opens : Start <= o /\ Close(o) <= Lesser(End, time)}}

(* Whatever pages the download was read in, however the market moved        *)
(* between them: a downloaded history is exactly the candles that were over *)
(* when it began, none missing and none still forming, and a history from   *)
(* the file is exactly that of an earlier moment.                          *)
HistoryIsExact ==
    \A r \in Runs :
        /\ history[r].source = "Bybit" =>
              history[r].candles = FinishedBy(asked[r])
        /\ history[r].source = "cache" =>
              \E time \in 0 .. now : history[r].candles = FinishedBy(time)

(* However runs that write the file overlap, fail and die, what it holds is *)
(* always one whole download; only somebody else can make it unreadable.    *)
CacheIsWhole ==
    /\ cache.state = "readable" =>
          \E time \in 0 .. now : cache.candles = FinishedBy(time)
    /\ cache.state = "unreadable" => damaged

(* A candle that is still forming, read twice with different values, never  *)
(* makes a download fail: only finished candles can conflict.               *)
FormingCandlesNeverConflict == \A r \in Runs : pc[r] # "conflict"

(* A download does not ask for the same page for ever, also when the        *)
(* exchange ignores the range it is asked for.                             *)
DownloadEnds ==
    \A r \in Runs : (pc[r] = "page") ~> (pc[r] # "page")
============================================================================
