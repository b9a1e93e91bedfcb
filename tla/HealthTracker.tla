---------------------------- MODULE HealthTracker ----------------------------
(***************************************************************************)
(* The hysteresis of anycast/health: health.Tracker turns the outcomes of  *)
(* the periodic probe into the health that gates the BGP announcement.     *)
(* The counters are only ever compared with their thresholds, so the model *)
(* stops counting there.                                                   *)
(***************************************************************************)
EXTENDS Naturals

CONSTANTS FailThreshold, RecoverThreshold

\* config.applyDefaults replaces a threshold that is not positive.
ASSUME ThresholdAssumption ==
  /\ FailThreshold \in Nat \ {0}
  /\ RecoverThreshold \in Nat \ {0}

VARIABLES failCount, recoverCount, healthy,
          last                  \* Tracker.last.OK, the outcome of the last probe

tracker == <<failCount, recoverCount, healthy, last>>

TrackerTypeOK ==
  /\ failCount \in 0..FailThreshold
  /\ recoverCount \in 0..RecoverThreshold
  /\ healthy \in BOOLEAN
  /\ last \in BOOLEAN

\* The Tracker of a process that has just started: not healthy.
NewTracker ==
  /\ failCount = 0
  /\ recoverCount = 0
  /\ healthy = FALSE
  /\ last = FALSE

\* The same, in the next state.
ResetTracker ==
  /\ failCount' = 0
  /\ recoverCount' = 0
  /\ healthy' = FALSE
  /\ last' = FALSE

bump(n, threshold) == IF n < threshold THEN n + 1 ELSE n

MutantObserve(ok) ==       \* a success does not clear the failure count
  /\ last' = ok
  /\ failCount' = IF ok THEN failCount ELSE bump(failCount, FailThreshold)
  /\ recoverCount' = IF ok THEN bump(recoverCount, RecoverThreshold) ELSE 0
  /\ healthy' = IF ok THEN healthy \/ recoverCount' >= RecoverThreshold
                      ELSE healthy /\ failCount' < FailThreshold

\* Tracker.Observe, one critical section of Tracker.mu.
Observe(ok) ==
  /\ last' = ok
  /\ failCount' = IF ok THEN 0 ELSE bump(failCount, FailThreshold)
  /\ recoverCount' = IF ok THEN bump(recoverCount, RecoverThreshold) ELSE 0
  /\ healthy' = IF ok THEN healthy \/ recoverCount' >= RecoverThreshold
                      ELSE healthy /\ failCount' < FailThreshold
=============================================================================
