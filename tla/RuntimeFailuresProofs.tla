----------------------- MODULE RuntimeFailuresProofs -----------------------
(***************************************************************************)
(* Proofs, for all classes of errors, durations and numbers of failures,   *)
(* that alerts are throttled and not silenced.                             *)
(***************************************************************************)
EXTENDS RuntimeFailures, TLAPS

(* The pauses of RuntimeBackoff lie between 5 and 60 seconds.               *)
LEMMA DelayBounded ==
    ASSUME NEW n \in Nat
    PROVE  Delay(n) \in 1 .. 12
<1>1. CASE n > 3
  BY <1>1 DEF Delay
<1>2. CASE ~(n > 3)
  <2>1. 2 ^ 0 = 1 /\ 2 ^ 1 = 2 /\ 2 ^ 2 = 4 /\ 2 ^ 3 = 8
    OBVIOUS
  <2>2. n = 0 \/ n = 1 \/ n = 2 \/ n = 3
    BY <1>2
  <2>3. Delay(n) = 2 ^ n
    BY <1>2 DEF Delay
  <2>4. 2 ^ n \in {1, 2, 4, 8}
    BY <2>1, <2>2, Zenon
  <2> QED
    BY <2>3, <2>4
<1> QED
  BY <1>1, <1>2

(* What is recorded as notified has been heard since, see NotifierStates.   *)
HeardSince ==
    \A k \in Keys : notified[k] # Never => heard[k] \in 0 .. notified[k]

FailuresInv == FailuresTypeOK /\ HeardSince

(* Waiting keeps the order of two ages and never makes one zero.            *)
LEMMA OlderAges ==
    ASSUME NEW ages \in [Keys -> Ages], NEW units \in Nat \ {0}
    PROVE  /\ Older(ages, units) \in [Keys -> Ages]
           /\ \A k \in Keys : (Older(ages, units)[k] = Never) <=> (ages[k] = Never)
           /\ \A k \in Keys : Older(ages, units)[k] # 0
BY DEF Older, Ages, Never, Interval

LEMMA OlderKeepsOrder ==
    ASSUME NEW a \in [Keys -> Ages], NEW b \in [Keys -> Ages], NEW units \in Nat,
           \A k \in Keys : a[k] # Never => b[k] \in 0 .. a[k]
    PROVE  \A k \in Keys :
             Older(a, units)[k] # Never => Older(b, units)[k] \in 0 .. Older(a, units)[k]
BY DEF Older, Ages, Never, Interval

(* An alert that is due and arrives has just been heard; one that is not    *)
(* due has been heard as lately as it was recorded.                         *)
LEMMA NotifySteps ==
    ASSUME FailuresInv, NEW key \in Keys, Notify(key)
    PROVE  /\ handled' = key
           /\ notified' \in [Keys -> Ages] /\ heard' \in [Keys -> Ages]
           /\ HeardSince'
           /\ Arrives => heard'[key] \in 0 .. Interval - 1
           /\ \A k \in Keys :
                heard'[k] = 0 /\ heard[k] \in 1 .. Interval - 1 => notified[k] # heard[k]
<1> USE DEF FailuresInv, FailuresTypeOK, HeardSince
<1>1. CASE ShouldNotify(key)
  <2>1. 0 \in Ages /\ Never # 0
    BY DEF Ages, Interval, Never
  <2>2. notified' \in [Keys -> Ages] /\ heard' \in [Keys -> Ages]
    BY <1>1, <2>1 DEF Notify
  <2>3. HeardSince'
    <3>1. CASE Recorded
      <4>1. Arrives
        BY <3>1 DEF Recorded, Arrives
      <4>2. \A k \in Keys : /\ notified'[k] = IF k = key THEN 0 ELSE notified[k]
                            /\ heard'[k] = IF k = key THEN 0 ELSE heard[k]
        BY <1>1, <3>1, <4>1 DEF Notify
      <4> QED
        BY <4>2
    <3>2. CASE ~Recorded
      <4>1. \A k \in Keys : /\ notified'[k] = notified[k]
                            /\ heard'[k] = heard[k] \/ heard'[k] = 0
        BY <1>1, <3>2 DEF Notify
      <4> QED
        BY <4>1 DEF Ages, Never, Interval
    <3> QED
      BY <3>1, <3>2
  <2>4. Arrives => heard'[key] = 0
    BY <1>1 DEF Notify
  <2>5. \A k \in Keys : k # key => heard'[k] = heard[k]
    BY <1>1 DEF Notify
  <2>6. notified[key] = Never \/ notified[key] >= Interval
    BY <1>1 DEF ShouldNotify
  <2> QED
    BY <2>2, <2>3, <2>4, <2>5, <2>6 DEF Notify, Never, Interval
<1>2. CASE ~ShouldNotify(key)
  <2>1. UNCHANGED <<notified, heard>> /\ handled' = key
    BY <1>2 DEF Notify
  <2>2. heard[key] \in 0 .. Interval - 1
    BY <1>2 DEF ShouldNotify, Ages, Never, Interval
  <2> QED
    BY <2>1, <2>2
<1> QED
  BY <1>1, <1>2

(* The loop's steps notify of a failure of this phase, let time pass, or    *)
(* leave the alerts alone.                                                  *)
LEMMA AlertSteps ==
    ASSUME FailuresTypeOK, Next
    PROVE  \/ \E key \in Keys : pause = 0 /\ Notify(key)
           \/ /\ handled' = NoAlert
              /\ \E units \in Nat \ {0} : notified' = Older(notified, units)
                                          /\ heard' = Older(heard, units)
           \/ NotifyNothing
           \/ pause # 0 /\ UNCHANGED <<notified, heard, handled>>
<1>1. ASSUME NEW error \in Temporary, TemporaryFailure(error)
      PROVE  \E key \in Keys : pause = 0 /\ Notify(key)
  BY <1>1 DEF TemporaryFailure, Running, Keys
<1>2. ASSUME NEW error \in Other, RecoveryFails(error) \/ IterationFails(error)
      PROVE  \E key \in Keys : pause = 0 /\ Notify(key)
  BY <1>2 DEF RecoveryFails, IterationFails, Running, Keys
<1>3. CASE Recovers \/ IterationSucceeds \/ Interrupted
  BY <1>3 DEF Recovers, IterationSucceeds, Interrupted
<1>4. ASSUME NEW duration \in Durations, Sleep(duration)
      PROVE  /\ handled' = NoAlert
             /\ \E units \in Nat \ {0} : notified' = Older(notified, units)
                                         /\ heard' = Older(heard, units)
  <2>1. pause + duration \in Nat \ {0}
    BY <1>4, TimeAssumption DEF Sleep, FailuresTypeOK
  <2> QED
    BY <1>4, <2>1 DEF Sleep
<1>5. CASE NotifierChanges
  BY <1>5 DEF NotifierChanges
<1> QED
  BY <1>1, <1>2, <1>3, <1>4, <1>5 DEF Next

LEMMA OtherTypesKept ==
    ASSUME FailuresTypeOK, Next
    PROVE  /\ phase' \in {"recovering", "trading", "ended", "escaped"}
           /\ failures' \in 0 .. MaxFailures
           /\ pause' \in 0 .. 12
           /\ notifier' \in NotifierStates
<1> USE FailureBounds DEF FailuresTypeOK
<1>1. ASSUME NEW error \in Temporary, TemporaryFailure(error)
      PROVE  /\ phase' \in {phase, "escaped"}
             /\ failures' \in 0 .. MaxFailures /\ pause' \in 0 .. 12
             /\ notifier' = notifier
  <2>1. Delay(failures) \in 1 .. 12
    BY DelayBounded
  <2> QED
    BY <1>1, <2>1 DEF TemporaryFailure, Running
<1>2. ASSUME NEW error \in Other, RecoveryFails(error) \/ IterationFails(error)
      PROVE  /\ phase' \in {phase, "ended"}
             /\ failures' \in 0 .. MaxFailures /\ pause' \in 0 .. 12
             /\ notifier' = notifier
  BY <1>2 DEF RecoveryFails, IterationFails
<1>3. CASE Recovers \/ IterationSucceeds \/ Interrupted
  BY <1>3 DEF Recovers, IterationSucceeds, Interrupted
<1>4. ASSUME NEW duration \in Durations, Sleep(duration)
      PROVE  pause' = 0 /\ UNCHANGED <<phase, failures, notifier>>
  BY <1>4 DEF Sleep
<1>5. CASE NotifierChanges
  BY <1>5 DEF NotifierChanges
<1> QED
  BY <1>1, <1>2, <1>3, <1>4, <1>5 DEF Next

LEMMA FailuresInvKept == FailuresInv /\ [Next]_vars => FailuresInv'
<1> SUFFICES ASSUME FailuresInv, [Next]_vars PROVE FailuresInv'
  OBVIOUS
<1>1. CASE UNCHANGED vars
  BY <1>1 DEF vars, FailuresInv, FailuresTypeOK, HeardSince
<1>2. CASE Next
  <2>1. /\ notified' \in [Keys -> Ages] /\ heard' \in [Keys -> Ages] /\ HeardSince'
        /\ handled' \in Keys \cup {NoAlert}
    <3>1. ASSUME NEW key \in Keys, Notify(key) PROVE <2>1!:
      BY <3>1, NotifySteps
    <3>2. ASSUME handled' = NoAlert, NEW units \in Nat \ {0},
                 notified' = Older(notified, units), heard' = Older(heard, units)
          PROVE  <2>1!:
      BY <3>2, OlderAges, OlderKeepsOrder DEF FailuresInv, FailuresTypeOK, HeardSince
    <3>3. ASSUME UNCHANGED <<notified, heard>>, handled' \in {handled, NoAlert}
          PROVE  <2>1!:
      BY <3>3 DEF FailuresInv, FailuresTypeOK, HeardSince
    <3> QED
      BY <1>2, <3>1, <3>2, <3>3, AlertSteps DEF FailuresInv, NotifyNothing
  <2> QED
    BY <1>2, <2>1, OtherTypesKept DEF FailuresInv, FailuresTypeOK
<1> QED
  BY <1>1, <1>2

LEMMA FailuresInvariant == Spec => []FailuresInv
<1>1. Init => FailuresInv
  BY FailureBounds DEF Init, FailuresInv, FailuresTypeOK, HeardSince, Ages, Never, Interval,
     NotifierStates
<1> QED
  BY <1>1, FailuresInvKept, PTL DEF Spec

(* The loop's variables keep their types: its pause never exceeds a minute. *)
THEOREM FailuresTypeCorrect == Spec => []FailuresTypeOK
<1>1. FailuresInv => FailuresTypeOK
  BY DEF FailuresInv
<1> QED
  BY <1>1, FailuresInvariant, PTL

(* One failure that repeats itself alerts a person once in five minutes,    *)
(* unless the first alert arrived without a confirmation                    *)
(* (RuntimeFailureAlertDeduplicator in main.py).                            *)
THEOREM Throttled == Spec => AlertsThrottled
<1> DEFINE Once == \A k \in Keys :
               heard'[k] = 0 /\ heard[k] \in 1 .. Interval - 1 => notified[k] # heard[k]
<1>1. FailuresInv /\ [Next]_vars => [Once]_vars
  <2> SUFFICES ASSUME FailuresInv, Next PROVE Once
    OBVIOUS
  <2>1. CASE \E key \in Keys : pause = 0 /\ Notify(key)
    BY <2>1, NotifySteps
  <2>2. ASSUME NEW units \in Nat \ {0}, heard' = Older(heard, units) PROVE Once
    BY <2>2, OlderAges DEF FailuresInv, FailuresTypeOK
  <2>3. CASE UNCHANGED heard
    BY <2>3
  <2> QED
    BY <2>1, <2>2, <2>3, AlertSteps DEF FailuresInv, NotifyNothing
<1> QED
  BY <1>1, FailuresInvariant, PTL DEF Spec, AlertsThrottled

(* A failure that is handled while notifications arrive has been heard of   *)
(* less than five minutes ago: neither the throttling nor an alert that was *)
(* lost silences it (_notify_runtime_failure in main.py).                   *)
THEOREM Heard == Spec => FailuresAreHeard
<1> DEFINE IsHeard == handled' \in Keys /\ Arrives /\ pause = 0
                        => heard'[handled'] \in 0 .. Interval - 1
<1>1. FailuresInv /\ [Next]_vars => [IsHeard]_vars
  <2> SUFFICES ASSUME FailuresInv, Next PROVE IsHeard
    OBVIOUS
  <2>1. NoAlert \notin Keys
    BY DEF NoAlert, Keys
  <2>2. CASE \E key \in Keys : pause = 0 /\ Notify(key)
    BY <2>2, NotifySteps
  <2> QED
    BY <2>1, <2>2, AlertSteps DEF FailuresInv, NotifyNothing
<1> QED
  BY <1>1, FailuresInvariant, PTL DEF Spec, FailuresAreHeard
=============================================================================
