---------------------------- MODULE HealthHistory ----------------------------
(***************************************************************************)
(* health.Tracker beside the list of every probe outcome it was given,     *)
(* so that its answer, computed from two counters, can be compared with    *)
(* what the thresholds mean on the whole list.                             *)
(***************************************************************************)
EXTENDS HealthTracker, Sequences

CONSTANT MaxProbes              \* bound on the length of the recorded history

ASSUME MaxProbesAssumption == MaxProbes \in Nat

VARIABLE probes                 \* history: the outcomes observed since start

vars == <<failCount, recoverCount, healthy, last, probes>>

TypeOK ==
  /\ TrackerTypeOK
  /\ probes \in Seq(BOOLEAN)
  /\ Len(probes) <= MaxProbes

Init == NewTracker /\ probes = <<>>

\* updater.tick up to the decision: one probe cycle, one Observe.
Probe(ok) ==
  /\ Len(probes) < MaxProbes
  /\ Observe(ok)
  /\ probes' = Append(probes, ok)

\* A new process builds a new Tracker; nothing of the old one is kept.
Restart ==
  /\ probes # <<>>
  /\ ResetTracker
  /\ probes' = <<>>

Next == (\E ok \in BOOLEAN : Probe(ok)) \/ Restart

Spec == Init /\ [][Next]_vars

-----------------------------------------------------------------------------
\* The last `threshold` of the first i outcomes of h were all ok.
Streak(h, i, threshold, ok) ==
  /\ threshold <= i
  /\ \A j \in 1..i : i - threshold < j => h[j] = ok

Recovered(h, i) == Streak(h, i, RecoverThreshold, TRUE)

Failed(h, i) == Streak(h, i, FailThreshold, FALSE)

\* The reference definition of health: at some point recover_threshold probes
\* in a row succeeded, and since then there were never fail_threshold failures
\* in a row.
HealthyByHistory(h) ==
  \E i \in 1..Len(h) :
     /\ Recovered(h, i)
     /\ \A k \in 1..Len(h) : i < k => ~Failed(h, k)

(***************************************************************************)
(* Tracker.Observe (health.go) answers from two counters that each outcome *)
(* resets or advances; whatever the order of successes and failures, the   *)
(* health it reports is the one the whole probe history defines: no flap   *)
(* shorter than a threshold gets through, and no streak is missed.         *)
(***************************************************************************)
HealthMatchesHistory == healthy <=> HealthyByHistory(probes)
=============================================================================
