--------------------------- MODULE TradingRuntime ---------------------------
(***************************************************************************)
(* The live program around the broker: the main loop (main.py), the engine *)
(* (engine/trading_engine.py) and the execution service (core/execution.py)*)
(* calling the broker of BybitPendingEntry, whose steps and whose exchange *)
(* go on between any two of theirs.                                        *)
(*                                                                         *)
(* One iteration polls (refresh, position monitor, delivery), collects the *)
(* completed candles, ages the pending entry and processes a new candle.   *)
(* Any exception ends the iteration and the next one starts at the poll:   *)
(* temporary errors and others differ only in the pause (RuntimeFailures). *)
(* `at` names the loop's next step; a step that calls the broker waits     *)
(* until the broker is idle again and looks at the outcome.                *)
(*                                                                         *)
(* What the analysis finds, a setup with a tradable decision or "none", is *)
(* chosen freely each time: it depends on the candles and on its own state,*)
(* so that processing a candle again may find the same setup or another.   *)
(***************************************************************************)
EXTENDS BybitPendingEntryProperties

CONSTANT CandlesLag  \* whether the candle listing may lag behind

ASSUME CandlesLagAssumption == CandlesLag \in BOOLEAN

VARIABLES
    at,         \* the loop's next step
    done,       \* successful_analysis_timestamp, or NoCandle
    latest,     \* the last completed candle collected
    keys,       \* Execution._submitted_setup_keys
    recovered,  \* Execution._recovered_order_link_ids
    setup,      \* what the analysis found, from there to the submission
    \* History of this process: the first candle it was done with, and the setups
    \* whose order it tried to place.
    began, sent

memory == <<done, latest, keys, recovered, began, sent>>
runtimeVars == <<vars, at, memory, setup>>

NoCandle == -1

RuntimeInit ==
    /\ Init
    /\ at = "down"
    /\ done = NoCandle /\ latest = 0 /\ began = NoCandle
    /\ keys = {} /\ recovered = {} /\ sent = {}
    /\ setup = "none"

----------------------------------------------------------------------------
(* Steps *)

LoopOnly == UNCHANGED <<vars, setup>>
To(step) == at' = step /\ UNCHANGED memory
BrokerReturned == pc = "idle"

(* Whether Execution has seen the setup.                                    *)
RecoveredOnly == setup \in recovered

Duplicate == setup \in keys \cup recovered

(* An iteration that reads the exchange or writes the journal may fail;     *)
(* what it has done so far stays done.  The position monitor's own fields   *)
(* matter only to itself (PositionMonitor models them): every use of the    *)
(* position it sees follows its reading.                                   *)
IterationFails ==
    /\ "read" \in Faults
    /\ \/ at \in {"update", "collect", "process"}
       \/ at = "submit" /\ ~Duplicate
    /\ To("poll")
    /\ LoopOnly

(* _deliver_pending_entry_events drains the broker's queue; a notification *)
(* that fails is logged.                                                   *)
Deliver(step) == at = step /\ DrainEvents /\ UNCHANGED <<at, memory, setup>>

Delivered(step) == at = step /\ events = <<>>

----------------------------------------------------------------------------
(* recover_runtime_state, repeated while it fails temporarily *)

StartRuntime == at = "down" /\ Start /\ To("recover") /\ UNCHANGED setup

RecoverState ==
    /\ at = "recover" /\ Recover /\ To("recovering") /\ UNCHANGED setup

(* Execution remembers the recovered order, so as not to submit it again.   *)
RecoveryReturns ==
    /\ at = "recovering" /\ BrokerReturned
    /\ outcome \in {"ok", "temporary"}
    /\ IF outcome = "ok"
       THEN /\ at' = "recover_update"
            /\ recovered' = recovered \cup
                 (IF slot = NoEntry THEN {} ELSE {slot.id})
            /\ UNCHANGED <<done, latest, keys, began, sent>>
       ELSE To("recover")
    /\ LoopOnly

RecoverUpdate ==
    /\ at = "recover_update"
    /\ \/ To("recover_deliver")
       \/ "retry" \in Faults /\ To("recover")
    /\ LoopOnly

RuntimeStarted ==
    /\ Delivered("recover_deliver")
    /\ StartupDone
    /\ To("poll")
    /\ UNCHANGED setup

ProcessForgets ==
    /\ at' = "down"
    /\ done' = NoCandle /\ latest' = 0 /\ began' = NoCandle
    /\ keys' = {} /\ recovered' = {} /\ sent' = {}
    /\ setup' = "none"

RecoveryEndsProcess ==
    at = "recovering" /\ StartupFailed /\ ProcessForgets

RuntimeCrash == Crash /\ ProcessForgets

----------------------------------------------------------------------------
(* poll_runtime_state *)

PollOnlyEntries == at = "poll" /\ slot = NoEntry /\ To("collect") /\ LoopOnly

PollEmpty == at = "poll" /\ slot = NoEntry /\ To("update") /\ LoopOnly

Poll == at = "poll" /\ Refresh /\ To("refreshing") /\ UNCHANGED setup

PollReturns ==
    /\ at = "refreshing" /\ BrokerReturned
    /\ To(IF outcome = "ok" THEN "update" ELSE "poll")
    /\ LoopOnly

PollUpdate == at = "update" /\ To("deliver") /\ LoopOnly

PollDelivered == Delivered("deliver") /\ To("collect") /\ LoopOnly

----------------------------------------------------------------------------
(* The candles: nothing new, or older than before, ends the iteration.      *)

CollectCompleted(candle) ==
    /\ at = "collect"
    /\ latest' = candle
    /\ at' = IF done # NoCandle /\ candle <= done THEN "poll" ELSE "age"
    /\ UNCHANGED <<done, keys, recovered, began, sent>>
    /\ LoopOnly

CandlesShown == IF CandlesLag THEN 0 .. clock ELSE {clock}

(* age_pending_entry *)
AgeNothing ==
    /\ at = "age"
    /\ slot = NoEntry \/ slot.status \in TerminalStatuses
    /\ To("aged")
    /\ LoopOnly

AgeEntry == at = "age" /\ Age(latest) /\ To("aging") /\ UNCHANGED setup

AgeErrorsPass(result) == "aged"

AfterAging(result) == IF result = "ok" THEN "aged" ELSE "poll"

AgeReturns ==
    /\ at = "aging" /\ BrokerReturned
    /\ To(AfterAging(outcome))
    /\ LoopOnly

(* The first candle a process collects only ages the entry: it may have     *)
(* completed long before, and is not traded on.                            *)
NoneOnlyAges == FALSE

FirstOnlyAges == done = NoCandle

CandleDone ==
    /\ at' = "poll" /\ done' = latest
    /\ began' = IF began = NoCandle THEN latest ELSE began
    /\ UNCHANGED <<latest, keys, recovered, sent>>

AgeDelivered ==
    /\ Delivered("aged")
    /\ IF FirstOnlyAges THEN CandleDone
                        ELSE To("process")
    /\ LoopOnly

----------------------------------------------------------------------------
(* process: the position monitor's look at the position, and the analysis.   *)

SkipCandle ==
    /\ at = "process"
    /\ position # "none" \/ slot # NoEntry
    /\ CandleDone
    /\ LoopOnly

AnalyseCandle(found) ==
    /\ at = "process"
    /\ position = "none" /\ slot = NoEntry
    /\ setup' = found
    /\ IF found = "none" THEN CandleDone ELSE To("submit")
    /\ UNCHANGED vars

(* submit_pending_entry: the duplicate check, a look at the position, the   *)
(* key, and only then the broker.                                          *)
SuppressedAsError ==
    /\ at = "submit" /\ Duplicate
    /\ To("poll")
    /\ LoopOnly

SuppressDuplicate ==
    /\ at = "submit" /\ Duplicate
    /\ CandleDone
    /\ LoopOnly

SubmissionConflicts ==
    /\ at = "submit" /\ ~Duplicate
    /\ position # "none"
    /\ To("poll")
    /\ LoopOnly

SubmitEntry ==
    /\ at = "submit" /\ ~Duplicate
    /\ position = "none"
    /\ \/ SubmitRefusedLocally(setup, latest)
       \/ Submit(setup, latest)
    /\ at' = "submitting"
    /\ keys' = keys \cup {setup}
    /\ UNCHANGED <<done, latest, recovered, began, sent, setup>>

(* An entry that left the slot before the call returned, because it had     *)
(* ended, is an error as well.                                             *)
SubmitReturns ==
    /\ at = "submitting" /\ BrokerReturned
    /\ To(IF outcome = "ok" /\ slot # NoEntry THEN "submitted" ELSE "poll")
    /\ LoopOnly

SubmitDelivered ==
    /\ Delivered("submitted")
    /\ CandleDone
    /\ LoopOnly

----------------------------------------------------------------------------

LoopStep ==
    \/ IterationFails
    \/ \E step \in {"recover_deliver", "deliver", "aged", "submitted"} :
         Deliver(step)
    \/ StartRuntime \/ RecoverState \/ RecoveryReturns \/ RecoverUpdate
    \/ RuntimeStarted \/ RecoveryEndsProcess
    \/ PollEmpty \/ Poll \/ PollReturns \/ PollUpdate \/ PollDelivered
    \/ \E candle \in CandlesShown : CollectCompleted(candle)
    \/ AgeNothing \/ AgeEntry \/ AgeReturns \/ AgeDelivered
    \/ SkipCandle
    \/ \E found \in Ids \cup {"none"} : AnalyseCandle(found)
    \/ SuppressDuplicate \/ SubmissionConflicts \/ SubmitEntry
    \/ SubmitReturns \/ SubmitDelivered

BrokerWorks ==
    /\ BrokerStep
    /\ sent' = IF pc = "submit_place" THEN sent \cup {arg.id} ELSE sent
    /\ UNCHANGED <<at, done, latest, keys, recovered, began, setup>>

WorldMoves == Exchange /\ UNCHANGED <<at, memory, setup>>

RuntimeNext == LoopStep \/ BrokerWorks \/ WorldMoves \/ RuntimeCrash

RuntimeSpec == RuntimeInit /\ [][RuntimeNext]_runtimeVars

(* The loop goes on as long as the process lives, and so does a call of the *)
(* broker.  A read or a cancellation may fail any number of times, but one  *)
(* that is tried for ever succeeds some time.                               *)
RuntimeFairness ==
    /\ WF_runtimeVars(LoopStep) /\ WF_runtimeVars(BrokerWorks)
    /\ SF_runtimeVars(PollUpdate)
    /\ SF_runtimeVars(CollectCompleted(clock))
    /\ SF_runtimeVars(SkipCandle \/ \E found \in Ids \cup {"none"} : AnalyseCandle(found))
    /\ SF_runtimeVars(SubmitEntry)
    /\ SF_runtimeVars(op = "refresh" /\ Query /\ pc' = "reconcile" /\ BrokerWorks)
    /\ SF_runtimeVars(op = "age" /\ Query /\ pc' = "reconcile" /\ BrokerWorks)
    /\ SF_runtimeVars(CancelSend /\ pc' = "cancel_ack" /\ BrokerWorks)
    /\ \A id \in Ids : WF_runtimeVars(FinishCancel(id) /\ WorldMoves)

FairRuntime == RuntimeSpec /\ RuntimeFairness

----------------------------------------------------------------------------
(* Properties *)

RuntimeTypeOK ==
    /\ at \in {"down", "recover", "recovering", "recover_update",
               "recover_deliver", "poll", "refreshing", "update", "deliver",
               "collect", "age", "aging", "aged", "process", "submit",
               "submitting", "submitted"}
    /\ {done, began} \subseteq {NoCandle} \cup 0 .. clock
    /\ latest \in 0 .. clock
    /\ keys \subseteq Ids /\ recovered \subseteq Ids /\ sent \subseteq Ids
    /\ setup \in Ids \cup {"none"}

(* A process tries to place the order of a setup once, however often the    *)
(* setup is found again and whatever fails between; and never that of an    *)
(* order it has recovered.                                                  *)
PlacedOncePerProcess ==
    pc = "submit_place" => arg.id \notin sent \cup recovered

(* A process trades only on candles newer than the first it was done with,  *)
(* and on the last it has collected, however the listing lags: what had     *)
(* completed before the start only ages the entry.                          *)
TradesFreshCandlesOnly ==
    pc \in {"submit_position", "submit_listing", "submit_place"} =>
        began # NoCandle /\ arg.candle > began /\ arg.candle = latest

(* An entry's age is the number of candles completed since its signal and   *)
(* up to the last one counted: none is skipped and none counted twice, over *)
(* failures, repetitions and restarts, as long as the listing shows every   *)
(* candle in time.                                                          *)
CandlesCountedOnce ==
    slot # NoEntry =>
        slot.age = IF lastAged > slot.signal THEN lastAged - slot.signal ELSE 0

(* No candle is processed before the pending entry has been aged by it, or  *)
(* its cancellation is under way: seen by the exchange, or, for an entry    *)
(* that is over, sent by this process.                                     *)
AgedBeforeProcessing ==
    at = "process" /\ slot # NoEntry =>
        \/ slot.status \in TerminalStatuses \cup {"CANCEL_REQUESTED"}
        \/ slot.expiry /\ slot.id \in cancelSent
        \/ lastAged >= latest
        \/ slot.signal >= latest

(* A running bot catches up with the market: whatever fails on the way, the *)
(* candle that is the newest now is processed, or a newer one, unless the   *)
(* process dies.                                                           *)
EveryCandleProcessed ==
    \A candle \in 0 .. MaxCandle :
        (phase = "running" /\ clock = candle)
            ~> (done >= candle \/ phase # "running")

(* Events that a failing iteration has left in the queue are handed to the   *)
(* notifier by a later one, also when the entry they tell of is gone.       *)
EventsAreDelivered == (events # <<>>) ~> (events = <<>>)

(* A setup that is suppressed as "already submitted" was submitted: its     *)
(* order was sent to the exchange, now or before the restart.               *)
SuppressedWasSubmitted ==
    at = "submit" /\ Duplicate => setup \in sent \cup recovered
=============================================================================
