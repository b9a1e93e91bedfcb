------------------------- MODULE HealthHistoryProofs -------------------------
(***************************************************************************)
(* Proof that the counters of health.Tracker compute the health that the   *)
(* probe history defines, for every pair of positive thresholds.           *)
(***************************************************************************)
EXTENDS HealthHistory, TLAPS

\* What a counter says of a history h: the last `count` outcomes were ok and,
\* while the counter has not reached its threshold, the one before was not.
Counts(h, count, threshold, ok) ==
  /\ count <= Len(h)
  /\ \A j \in 1..Len(h) : Len(h) - count < j => h[j] = ok
  /\ count < threshold /\ count < Len(h) => h[Len(h) - count] # ok

CountInv ==
  /\ Counts(probes, failCount, FailThreshold, FALSE)
  /\ Counts(probes, recoverCount, RecoverThreshold, TRUE)

\* The inductive invariant.
HistoryInv == TypeOK /\ CountInv /\ HealthMatchesHistory

-----------------------------------------------------------------------------
(* Histories, apart from the state.                                        *)

\* Recording an outcome keeps the earlier ones.
LEMMA AppendFacts ==
  ASSUME NEW h \in Seq(BOOLEAN), NEW b \in BOOLEAN
  PROVE  /\ Len(h) \in Nat
         /\ Append(h, b) \in Seq(BOOLEAN)
         /\ Len(Append(h, b)) = Len(h) + 1
         /\ Append(h, b)[Len(h) + 1] = b
         /\ \A j \in 1..Len(h) : Append(h, b)[j] = h[j]
OBVIOUS

\* The counter of the outcome just recorded is advanced.
LEMMA CountAdvances ==
  ASSUME NEW h \in Seq(BOOLEAN), NEW count \in Nat, NEW threshold \in Nat \ {0},
         NEW ok \in BOOLEAN, Counts(h, count, threshold, ok)
  PROVE  Counts(Append(h, ok), bump(count, threshold), threshold, ok)
<1> DEFINE g == Append(h, ok)
<1>1. /\ Len(h) \in Nat
      /\ Len(g) = Len(h) + 1
      /\ g[Len(h) + 1] = ok
      /\ \A j \in 1..Len(h) : g[j] = h[j]
  BY AppendFacts
<1> HIDE DEF g
<1>2. CASE count < threshold
  <2>1. bump(count, threshold) = count + 1
    BY <1>2 DEF bump
  <2>2. Counts(g, count + 1, threshold, ok)
    BY <1>1, <1>2 DEF Counts
  <2> QED BY <2>1, <2>2 DEF g
<1>3. CASE ~(count < threshold)
  <2>1. bump(count, threshold) = count
    BY <1>3 DEF bump
  <2>2. Counts(g, count, threshold, ok)
    BY <1>1, <1>3 DEF Counts
  <2> QED BY <2>1, <2>2 DEF g
<1> QED BY <1>2, <1>3

\* The counter of the other outcome starts again.
LEMMA CountRestarts ==
  ASSUME NEW h \in Seq(BOOLEAN), NEW threshold \in Nat, NEW ok \in BOOLEAN,
         NEW b \in BOOLEAN, b # ok
  PROVE  Counts(Append(h, b), 0, threshold, ok)
<1> DEFINE g == Append(h, b)
<1>1. Len(h) \in Nat /\ Len(g) = Len(h) + 1 /\ g[Len(h) + 1] = b
  BY AppendFacts
<1> HIDE DEF g
<1>2. Counts(g, 0, threshold, ok)
  BY <1>1 DEF Counts
<1> QED BY <1>2 DEF g

\* Where a counter describes a history, the history ends in a streak exactly
\* when the counter has reached its threshold.
LEMMA StreakAtEnd ==
  ASSUME NEW h \in Seq(BOOLEAN), NEW count \in Nat, NEW threshold \in Nat \ {0},
         NEW ok \in BOOLEAN, Counts(h, count, threshold, ok)
  PROVE  Streak(h, Len(h), threshold, ok) <=> threshold <= count
<1>1. Len(h) \in Nat
  OBVIOUS
<1>2. ASSUME threshold <= count
      PROVE  Streak(h, Len(h), threshold, ok)
  BY <1>1, <1>2 DEF Streak, Counts
<1>3. ASSUME Streak(h, Len(h), threshold, ok), count < threshold
      PROVE  FALSE
  <2>1. /\ Len(h) - count \in 1..Len(h)
        /\ Len(h) - threshold < Len(h) - count
        /\ count < Len(h)
    BY <1>1, <1>3 DEF Streak
  <2>2. h[Len(h) - count] = ok
    BY <1>3, <2>1 DEF Streak
  <2> QED BY <1>3, <2>1, <2>2 DEF Counts
<1> QED BY <1>2, <1>3

\* A streak of the first i outcomes does not depend on the later ones.
LEMMA StreakStable ==
  ASSUME NEW h \in Seq(BOOLEAN), NEW b \in BOOLEAN, NEW i \in 1..Len(h),
         NEW threshold \in Nat, NEW ok \in BOOLEAN
  PROVE  Streak(Append(h, b), i, threshold, ok) <=> Streak(h, i, threshold, ok)
<1> DEFINE g == Append(h, b)
<1>1. \A j \in 1..i : g[j] = h[j]
  BY AppendFacts
<1> HIDE DEF g
<1>2. Streak(g, i, threshold, ok) <=> Streak(h, i, threshold, ok)
  BY <1>1 DEF Streak
<1> QED BY <1>2 DEF g

\* How the reference definition changes when one more outcome is recorded.
LEMMA HistoryGrows ==
  ASSUME NEW h \in Seq(BOOLEAN), NEW b \in BOOLEAN, NEW g, g = Append(h, b)
  PROVE  HealthyByHistory(g) <=>
           \/ Recovered(g, Len(g))
           \/ HealthyByHistory(h) /\ ~Failed(g, Len(g))
<1>1. Len(h) \in Nat /\ Len(g) = Len(h) + 1
  BY AppendFacts
<1>2. \A i \in 1..Len(h) :
        /\ Recovered(g, i) <=> Recovered(h, i)
        /\ Failed(g, i) <=> Failed(h, i)
  BY StreakStable, ThresholdAssumption DEF Recovered, Failed
<1>3. ASSUME Recovered(g, Len(g))
      PROVE  HealthyByHistory(g)
  BY <1>1, <1>3 DEF HealthyByHistory
<1>4. ASSUME HealthyByHistory(h), ~Failed(g, Len(g))
      PROVE  HealthyByHistory(g)
  <2>1. PICK i \in 1..Len(h) :
           /\ Recovered(h, i)
           /\ \A k \in 1..Len(h) : i < k => ~Failed(h, k)
    BY <1>4 DEF HealthyByHistory
  <2>2. Recovered(g, i) /\ i \in 1..Len(g)
    BY <1>1, <1>2, <2>1
  <2>3. ASSUME NEW k \in 1..Len(g), i < k
        PROVE  ~Failed(g, k)
    <3>1. CASE k = Len(g)
      BY <1>4, <3>1
    <3>2. CASE k # Len(g)
      BY <1>1, <1>2, <2>1, <2>3, <3>2
    <3> QED BY <3>1, <3>2
  <2> QED BY <2>2, <2>3 DEF HealthyByHistory
<1>5. ASSUME HealthyByHistory(g), ~Recovered(g, Len(g))
      PROVE  HealthyByHistory(h) /\ ~Failed(g, Len(g))
  <2>1. PICK i \in 1..Len(g) :
           /\ Recovered(g, i)
           /\ \A k \in 1..Len(g) : i < k => ~Failed(g, k)
    BY <1>5 DEF HealthyByHistory
  <2>2. i # Len(g)
    BY <1>5, <2>1
  <2>3. i \in 1..Len(h) /\ i < Len(g) /\ Len(g) \in 1..Len(g)
    BY <1>1, <2>1, <2>2
  <2>4. \A k \in 1..Len(h) : i < k => ~Failed(h, k)
    BY <1>1, <1>2, <2>1
  <2> QED BY <1>2, <2>1, <2>3, <2>4 DEF HealthyByHistory
<1> QED BY <1>3, <1>4, <1>5

-----------------------------------------------------------------------------
LEMMA ProbeTypes ==
  ASSUME TypeOK, NEW b \in BOOLEAN, Probe(b)
  PROVE  TypeOK'
<1>1. probes' \in Seq(BOOLEAN) /\ Len(probes') <= MaxProbes
  BY MaxProbesAssumption DEF TypeOK, Probe
<1>2. failCount' \in 0..FailThreshold /\ recoverCount' \in 0..RecoverThreshold
  BY ThresholdAssumption DEF TypeOK, TrackerTypeOK, Probe, Observe, bump
<1>3. healthy' \in BOOLEAN /\ last' \in BOOLEAN
  BY DEF TypeOK, TrackerTypeOK, Probe, Observe
<1> QED BY <1>1, <1>2, <1>3 DEF TypeOK, TrackerTypeOK

LEMMA ProbeCounts ==
  ASSUME TypeOK, CountInv, NEW b \in BOOLEAN, Probe(b)
  PROVE  CountInv'
<1>1. /\ probes \in Seq(BOOLEAN) /\ probes' = Append(probes, b)
      /\ failCount \in Nat /\ recoverCount \in Nat
  BY DEF TypeOK, TrackerTypeOK, Probe
<1>2. CASE b = TRUE
  <2>1. failCount' = 0 /\ recoverCount' = bump(recoverCount, RecoverThreshold)
    BY <1>2 DEF Probe, Observe
  <2>2. Counts(probes', failCount', FailThreshold, FALSE)
    BY <1>1, <1>2, <2>1, CountRestarts, ThresholdAssumption
  <2>3. Counts(probes', recoverCount', RecoverThreshold, TRUE)
    BY <1>1, <1>2, <2>1, CountAdvances, ThresholdAssumption DEF CountInv
  <2> QED BY <2>2, <2>3 DEF CountInv
<1>3. CASE b = FALSE
  <2>1. failCount' = bump(failCount, FailThreshold) /\ recoverCount' = 0
    BY <1>3 DEF Probe, Observe
  <2>2. Counts(probes', recoverCount', RecoverThreshold, TRUE)
    BY <1>1, <1>3, <2>1, CountRestarts, ThresholdAssumption
  <2>3. Counts(probes', failCount', FailThreshold, FALSE)
    BY <1>1, <1>3, <2>1, CountAdvances, ThresholdAssumption DEF CountInv
  <2> QED BY <2>2, <2>3 DEF CountInv
<1> QED BY <1>2, <1>3

LEMMA ProbeStep ==
  ASSUME HistoryInv, NEW b \in BOOLEAN, Probe(b)
  PROVE  HistoryInv'
<1>1. TypeOK' /\ CountInv'
  BY ProbeTypes, ProbeCounts DEF HistoryInv
<1>2. HealthyByHistory(probes') <=>
           \/ Recovered(probes', Len(probes'))
           \/ /\ HealthyByHistory(probes)
              /\ ~Failed(probes', Len(probes'))
  BY HistoryGrows DEF HistoryInv, TypeOK, Probe
<1>3. /\ probes' \in Seq(BOOLEAN) /\ failCount' \in Nat /\ recoverCount' \in Nat
      /\ Counts(probes', recoverCount', RecoverThreshold, TRUE)
      /\ Counts(probes', failCount', FailThreshold, FALSE)
  <2>1. probes' \in Seq(BOOLEAN)
    BY <1>1 DEF TypeOK
  <2>2. failCount' \in Nat /\ recoverCount' \in Nat
    BY <1>1, ThresholdAssumption DEF TypeOK, TrackerTypeOK
  <2> QED BY <1>1, <2>1, <2>2 DEF CountInv
<1>4. Recovered(probes', Len(probes'))
        <=> RecoverThreshold <= recoverCount'
  BY <1>3, StreakAtEnd, ThresholdAssumption DEF Recovered
<1>5. Failed(probes', Len(probes'))
        <=> FailThreshold <= failCount'
  BY <1>3, StreakAtEnd, ThresholdAssumption DEF Failed
<1>6. healthy' <=> \/ RecoverThreshold <= recoverCount'
                   \/ healthy /\ ~(FailThreshold <= failCount')
  <2>1. CASE b = TRUE
    <3>1. healthy' = (healthy \/ recoverCount' >= RecoverThreshold) /\ failCount' = 0
      BY <2>1 DEF Probe, Observe
    <3>2. (recoverCount' >= RecoverThreshold) <=> (RecoverThreshold <= recoverCount')
      BY <1>3, ThresholdAssumption
    <3>3. ~(FailThreshold <= failCount')
      BY <3>1, ThresholdAssumption
    <3> QED BY <3>1, <3>2, <3>3
  <2>2. CASE b = FALSE
    <3>1. healthy' = (healthy /\ failCount' < FailThreshold) /\ recoverCount' = 0
      BY <2>2 DEF Probe, Observe
    <3>2. (failCount' < FailThreshold) <=> ~(FailThreshold <= failCount')
      BY <1>3, ThresholdAssumption
    <3>3. ~(RecoverThreshold <= recoverCount')
      BY <3>1, ThresholdAssumption
    <3> QED BY <3>1, <3>2, <3>3
  <2> QED BY <2>1, <2>2
<1>7. healthy <=> HealthyByHistory(probes)
  BY DEF HistoryInv, HealthMatchesHistory
<1>8. healthy' <=> HealthyByHistory(probes')
  BY <1>2, <1>4, <1>5, <1>6, <1>7
<1> QED BY <1>1, <1>8 DEF HistoryInv, HealthMatchesHistory

\* A Tracker that has observed nothing is not healthy, and neither is the
\* empty history.
LEMMA EmptyHistory == /\ Counts(<<>>, 0, FailThreshold, FALSE)
                      /\ Counts(<<>>, 0, RecoverThreshold, TRUE)
                      /\ ~HealthyByHistory(<<>>)
BY ThresholdAssumption DEF Counts, HealthyByHistory

LEMMA EmptyTypes == /\ 0 \in 0..FailThreshold /\ 0 \in 0..RecoverThreshold
                    /\ <<>> \in Seq(BOOLEAN) /\ Len(<<>>) <= MaxProbes
BY ThresholdAssumption, MaxProbesAssumption

(***************************************************************************)
(* Whatever the thresholds and the order of the probe outcomes, the health *)
(* that Tracker.Observe reports is the one the probe history defines.      *)
(***************************************************************************)
THEOREM HealthCorrect == Spec => []HealthMatchesHistory
<1>1. Init => HistoryInv
  <2> SUFFICES ASSUME Init PROVE HistoryInv
    OBVIOUS
  <2>1. TypeOK
    BY EmptyTypes, Zenon DEF Init, NewTracker, TypeOK, TrackerTypeOK
  <2>2. CountInv
    BY EmptyHistory DEF Init, NewTracker, CountInv
  <2>3. HealthMatchesHistory
    BY EmptyHistory DEF Init, NewTracker, HealthMatchesHistory
  <2> QED BY <2>1, <2>2, <2>3 DEF HistoryInv
<1>2. HistoryInv /\ [Next]_vars => HistoryInv'
  <2> SUFFICES ASSUME HistoryInv, [Next]_vars PROVE HistoryInv'
    OBVIOUS
  <2>1. CASE \E ok \in BOOLEAN : Probe(ok)
    BY <2>1, ProbeStep
  <2>2. CASE Restart
    <3>1. TypeOK'
      BY <2>2, EmptyTypes, Zenon DEF Restart, ResetTracker, TypeOK, TrackerTypeOK
    <3>2. CountInv'
      BY <2>2, EmptyHistory DEF Restart, ResetTracker, CountInv
    <3>3. HealthMatchesHistory'
      BY <2>2, EmptyHistory DEF Restart, ResetTracker, HealthMatchesHistory
    <3> QED BY <3>1, <3>2, <3>3 DEF HistoryInv
  <2>3. CASE UNCHANGED vars
    BY <2>3 DEF vars, HistoryInv, TypeOK, TrackerTypeOK, CountInv,
                HealthMatchesHistory
  <2> QED BY <2>1, <2>2, <2>3 DEF Next
<1>3. HistoryInv => HealthMatchesHistory
  BY DEF HistoryInv
<1> QED BY <1>1, <1>2, <1>3, PTL DEF Spec
=============================================================================
