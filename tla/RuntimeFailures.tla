-------------------------- MODULE RuntimeFailures --------------------------
(***************************************************************************)
(* How the main loop (main.py) survives failures: the growing pause after  *)
(* consecutive temporary errors (RuntimeBackoff) and the throttling of     *)
(* identical alerts (RuntimeFailureAlertDeduplicator).  What an iteration  *)
(* does is abstracted to how it ends: TradingRuntime models it.            *)
(*                                                                         *)
(* Time is counted in units of five seconds.  An alert is known by the     *)
(* loop it comes from and the class of the error: its text says no more.   *)
(***************************************************************************)
EXTENDS Integers

CONSTANTS
    Temporary,    \* classes of temporary errors
    Other,        \* classes of other errors
    Durations,    \* how long an iteration may take, in units
    MaxFailures,  \* bound: consecutive temporary failures
    MaxExponent   \* the largest n for which 2 ** n converts to a float

ASSUME ErrorClasses == Temporary \cap Other = {}
ASSUME TimeAssumption == Durations \subseteq Nat
ASSUME FailureBounds == MaxFailures \in Nat /\ MaxExponent \in Nat

VARIABLES
    phase,     \* "recovering", "trading", "ended", or "escaped" by an error
    failures,  \* RuntimeBackoff._consecutive_failures
    notified,  \* units since _last_notified_at, by alert; Never
    pause,     \* the pause before the next iteration; 0 in an iteration
    notifier,  \* whether notifications get through, see NotifierStates
    \* History: units since the alert last arrived, and the alert whose failure
    \* this iteration has handled.
    heard, handled

vars == <<phase, failures, notified, pause, notifier, heard, handled>>

Keys == {"recovering", "trading"} \X (Temporary \cup Other)

(* 300 seconds; greater ages are all the same.                             *)
Interval == 60
Never == -1
Ages == {Never} \cup 0 .. Interval
NoAlert == <<"none", "none">>

(* A message arrives and its reply too, or neither; or the message arrives  *)
(* and its reply is late or damaged.                                       *)
NotifierStates == {"delivers", "fails", "delivers unconfirmed"}

Init ==
    /\ phase = "recovering"
    /\ failures = 0
    /\ notified = [k \in Keys |-> Never]
    /\ pause = 0
    /\ notifier = "delivers"
    /\ heard = [k \in Keys |-> Never]
    /\ handled = NoAlert

----------------------------------------------------------------------------
(* RuntimeFailureAlertDeduplicator and _notify_runtime_failure *)

AlwaysNotify(key) == TRUE

ShouldNotify(key) == notified[key] = Never \/ notified[key] >= Interval

RecordedAnyway == TRUE

(* TelegramNotifier._send raises unless the reply confirms the message, and *)
(* only a notification that does not raise is recorded.                     *)
Recorded == notifier = "delivers"

Arrives == notifier # "fails"

Notify(key) ==
    /\ handled' = key
    /\ IF ShouldNotify(key)
       THEN /\ notified' = IF Recorded THEN [notified EXCEPT ![key] = 0]
                                       ELSE notified
            /\ heard' = IF Arrives THEN [heard EXCEPT ![key] = 0] ELSE heard
       ELSE UNCHANGED <<notified, heard>>

NotifyNothing == handled' = NoAlert /\ UNCHANGED <<notified, heard>>

(* RuntimeBackoff.next_delay: 5, 10, 20, 40 and then 60 seconds; the power  *)
(* itself is computed first, and is not bounded.                            *)
Delay(n) == IF n > 3 THEN 12 ELSE 2 ^ n

----------------------------------------------------------------------------

Running == phase \in {"recovering", "trading"} /\ pause = 0

(* A temporary error: the same in recovery and in the trading loop.  An     *)
(* error inside the handler is caught by neither loop.                      *)
TemporaryFailure(error) ==
    /\ Running
    /\ failures < MaxFailures
    /\ Notify(<<phase, error>>)
    /\ IF failures > MaxExponent
       THEN phase' = "escaped" /\ UNCHANGED <<failures, pause>>
       ELSE /\ pause' = Delay(failures)
            /\ failures' = failures + 1
            /\ UNCHANGED phase
    /\ UNCHANGED notifier

(* Any other error ends a recovering process; the trading loop goes on.     *)
RecoveryFails(error) ==
    /\ Running /\ phase = "recovering"
    /\ Notify(<<phase, error>>)
    /\ phase' = "ended"
    /\ UNCHANGED <<failures, pause, notifier>>

IterationFails(error) ==
    /\ Running /\ phase = "trading"
    /\ Notify(<<phase, error>>)
    /\ failures' = 0
    /\ pause' = 2
    /\ UNCHANGED <<phase, notifier>>

Recovers ==
    /\ Running /\ phase = "recovering"
    /\ phase' = "trading"
    /\ failures' = 0
    /\ NotifyNothing
    /\ UNCHANGED <<pause, notifier>>

IterationSucceeds ==
    /\ Running /\ phase = "trading"
    /\ failures' = 0
    /\ pause' = 1
    /\ NotifyNothing
    /\ UNCHANGED <<phase, notifier>>

(* KeyboardInterrupt, in an iteration or in the pause of the trading loop.  *)
Interrupted ==
    /\ phase = "trading"
    /\ phase' = "ended"
    /\ pause' = 0
    /\ NotifyNothing
    /\ UNCHANGED <<failures, notifier>>

(* The pause passes, and the time the next iteration takes.                 *)
Older(ages, units) ==
    [k \in Keys |-> IF ages[k] = Never THEN Never
                    ELSE IF ages[k] + units > Interval THEN Interval
                    ELSE ages[k] + units]

Sleep(duration) ==
    /\ pause > 0
    /\ pause' = 0
    /\ notified' = Older(notified, pause + duration)
    /\ heard' = Older(heard, pause + duration)
    /\ handled' = NoAlert
    /\ UNCHANGED <<phase, failures, notifier>>

NotifierChanges ==
    /\ phase \in {"recovering", "trading"}
    /\ pause > 0
    /\ notifier' \in NotifierStates \ {notifier}
    /\ UNCHANGED <<phase, failures, notified, pause, heard, handled>>

Next ==
    \/ \E error \in Temporary : TemporaryFailure(error)
    \/ \E error \in Other : RecoveryFails(error) \/ IterationFails(error)
    \/ Recovers \/ IterationSucceeds \/ Interrupted
    \/ \E duration \in Durations : Sleep(duration)
    \/ NotifierChanges

Spec == Init /\ [][Next]_vars

----------------------------------------------------------------------------
(* Properties *)

FailuresTypeOK ==
    /\ phase \in {"recovering", "trading", "ended", "escaped"}
    /\ failures \in 0 .. MaxFailures
    /\ notified \in [Keys -> Ages] /\ heard \in [Keys -> Ages]
    /\ pause \in 0 .. 12
    /\ notifier \in NotifierStates
    /\ handled \in Keys \cup {NoAlert}

(* A person is never alerted twice within five minutes by one failure that  *)
(* repeats itself, unless the first alert arrived without a confirmation.   *)
AlertsThrottled ==
    [][\A k \in Keys :
          heard'[k] = 0 /\ heard[k] \in 1 .. Interval - 1 => notified[k] # heard[k]]_vars

(* When a failure has been handled while notifications arrive, it has been  *)
(* heard of less than five minutes ago: an alert that was lost does not     *)
(* silence the next one.                                                    *)
FailuresAreHeard ==
    [][handled' \in Keys /\ Arrives /\ pause = 0
          => heard'[handled'] \in 0 .. Interval - 1]_vars

(* What the code does not keep, as the README shows.                       *)
(* The runtime stays alive: no number of consecutive temporary failures     *)
(* ends it.                                                                 *)
TemporaryFailuresAreSurvived == phase # "escaped"
============================================================================
