-------------------------- MODULE AnycastEdgeProofs --------------------------
(***************************************************************************)
(* Proofs about one anycast point of presence, for every set of prefixes,  *)
(* every configuration and every pair of thresholds.                       *)
(***************************************************************************)
EXTENDS AnycastEdge, TLAPS

LEMMA TrackerInit == NewTracker => TrackerTypeOK
<1> SUFFICES ASSUME NewTracker PROVE TrackerTypeOK
  OBVIOUS
<1>1. 0 \in 0..FailThreshold /\ 0 \in 0..RecoverThreshold
  BY ThresholdAssumption
<1> QED BY <1>1, Zenon DEF NewTracker, TrackerTypeOK

LEMMA TrackerStep ==
  ASSUME TrackerTypeOK, [Next]_vars
  PROVE  TrackerTypeOK'
<1>1. ASSUME NEW ok \in BOOLEAN, Observe(ok)
      PROVE  TrackerTypeOK'
  <2>1. failCount' \in 0..FailThreshold /\ recoverCount' \in 0..RecoverThreshold
    BY <1>1, ThresholdAssumption DEF TrackerTypeOK, Observe, bump
  <2>2. healthy' \in BOOLEAN /\ last' \in BOOLEAN
    BY <1>1 DEF TrackerTypeOK, Observe
  <2> QED BY <2>1, <2>2 DEF TrackerTypeOK
<1>2. ASSUME ResetTracker
      PROVE  TrackerTypeOK'
  <2>1. 0 \in 0..FailThreshold /\ 0 \in 0..RecoverThreshold
    BY ThresholdAssumption
  <2> QED BY <1>2, <2>1, Zenon DEF ResetTracker, TrackerTypeOK
<1>3. ASSUME UNCHANGED tracker
      PROVE  TrackerTypeOK'
  BY <1>3 DEF tracker, TrackerTypeOK
<1>4. \/ \E ok \in BOOLEAN : Observe(ok)
      \/ ResetTracker
      \/ UNCHANGED tracker
  BY Zenon
  DEF Next, vars, Tick, SetHealthy, SetHealthyNoop, AnnounceBlocked, AnnounceStart,
      WithdrawStart, Apply, WriteInclude, WriteFails, ConfigureFails, ConfigureOK,
      Cancel, ShutDown, SpeakerStop, SpeakerStart, BirdcHangs, Crash, Restart
<1> QED BY <1>1, <1>2, <1>3, <1>4

LEMMA EdgeTypeStep ==
  ASSUME EdgeTypeOK, [Next]_vars
  PROVE  EdgeTypeOK'
<1>1. ASSUME NEW ok \in BOOLEAN, Tick(ok)
      PROVE  EdgeTypeOK'
  BY <1>1 DEF EdgeTypeOK, Tick, manager, speaker
<1>2. CASE SetHealthyNoop
  BY <1>2 DEF EdgeTypeOK, SetHealthyNoop, manager, speaker
<1>3. CASE AnnounceBlocked
  BY <1>3 DEF EdgeTypeOK, AnnounceBlocked, speaker
<1>4. ASSUME NEW sigs \in SUBSET Prefixes, AnnounceStart(sigs)
      PROVE  EdgeTypeOK'
  BY <1>4 DEF EdgeTypeOK, AnnounceStart, speaker
<1>5. CASE WithdrawStart
  BY <1>5 DEF EdgeTypeOK, WithdrawStart, manager, speaker
<1>6. CASE WriteInclude
  BY <1>6 DEF EdgeTypeOK, WriteInclude, manager
<1>7. CASE WriteFails
  BY <1>7 DEF EdgeTypeOK, WriteFails, recordFailure, return, speaker
<1>8. CASE ConfigureFails
  BY <1>8 DEF EdgeTypeOK, ConfigureFails, recordFailure, return, speaker
<1>9. CASE ConfigureOK
  BY <1>9 DEF EdgeTypeOK, ConfigureOK, return
<1>10. CASE Cancel
  BY <1>10 DEF EdgeTypeOK, Cancel, manager, speaker
<1>11. CASE ShutDown
  BY <1>11 DEF EdgeTypeOK, ShutDown, manager, speaker
<1>12. CASE SpeakerStop \/ SpeakerStart
  BY <1>12 DEF EdgeTypeOK, SpeakerStop, SpeakerStart, manager
<1>13. CASE Crash
  BY <1>13 DEF EdgeTypeOK, Crash, manager, speaker
<1>14. CASE Restart
  BY <1>14 DEF EdgeTypeOK, Restart, speaker
<1>15. CASE UNCHANGED vars
  BY <1>15 DEF EdgeTypeOK, vars, manager, speaker
<1>16. CASE BirdcHangs
  BY <1>16 DEF EdgeTypeOK, BirdcHangs, manager, speaker
<1> QED
  BY <1>1, <1>2, <1>3, <1>4, <1>5, <1>6, <1>7, <1>8, <1>9, <1>10, <1>11, <1>12,
     <1>13, <1>14, <1>15, <1>16 DEF Next, SetHealthy, Apply

(***************************************************************************)
(* The state of the updater, the manager and the speaker keeps its types.  *)
(***************************************************************************)
THEOREM TypeCorrect == Spec => []TypeOK
<1>1. Init => TypeOK
  BY TrackerInit DEF Init, TypeOK, EdgeTypeOK
<1>2. TypeOK /\ [Next]_vars => TypeOK'
  BY TrackerStep, EdgeTypeStep DEF TypeOK
<1> QED BY <1>1, <1>2, PTL DEF Spec

-----------------------------------------------------------------------------
\* While birdc runs, the include file is the one the call in progress wrote.
FileWritten ==
  pc = "configure" => file = IF want = "announce" THEN Prefixes ELSE {}

\* The inductive invariant behind NoSilentDivergence.
DivergenceInv == EdgeTypeOK /\ FileWritten /\ NoSilentDivergence

LEMMA DivergenceStep ==
  ASSUME DivergenceInv, [Next]_vars
  PROVE  FileWritten' /\ NoSilentDivergence'
<1> USE DEF DivergenceInv, FileWritten, NoSilentDivergence, believed
<1>1. ASSUME NEW ok \in BOOLEAN, Tick(ok)
      PROVE  FileWritten' /\ NoSilentDivergence'
  BY <1>1 DEF Tick, manager, speaker
<1>2. CASE SetHealthyNoop
  BY <1>2 DEF SetHealthyNoop, manager, speaker
<1>3. CASE AnnounceBlocked
  BY <1>3 DEF AnnounceBlocked, speaker
<1>4. ASSUME NEW sigs \in SUBSET Prefixes, AnnounceStart(sigs)
      PROVE  FileWritten' /\ NoSilentDivergence'
  BY <1>4 DEF AnnounceStart, speaker
<1>5. CASE WithdrawStart
  BY <1>5 DEF WithdrawStart, manager, speaker
<1>6. CASE WriteInclude
  BY <1>6 DEF WriteInclude, manager
<1>7. CASE WriteFails
  BY <1>7 DEF WriteFails, recordFailure, return, speaker
<1>8. CASE ConfigureFails
  BY <1>8 DEF ConfigureFails, recordFailure, return, speaker
<1>9. CASE ConfigureOK
  BY <1>9 DEF ConfigureOK, return
<1>10. CASE Cancel
  BY <1>10 DEF Cancel, manager, speaker
<1>11. CASE ShutDown
  BY <1>11 DEF ShutDown, manager, speaker
<1>12. CASE SpeakerStop \/ SpeakerStart
  BY <1>12 DEF SpeakerStop, SpeakerStart, manager
<1>13. CASE Crash
  BY <1>13 DEF Crash, manager, speaker
<1>14. CASE Restart
  BY <1>14 DEF Restart, speaker
<1>15. CASE UNCHANGED vars
  BY <1>15 DEF vars, manager, speaker
<1>16. CASE BirdcHangs
  BY <1>16 DEF BirdcHangs, manager, speaker
<1> QED
  BY <1>1, <1>2, <1>3, <1>4, <1>5, <1>6, <1>7, <1>8, <1>9, <1>10, <1>11, <1>12,
     <1>13, <1>14, <1>15, <1>16 DEF Next, SetHealthy, Apply

(***************************************************************************)
(* bgp.Manager and the BIRD backend never disagree silently: without a     *)
(* recorded error, file and speaker say what Manager.announced says.       *)
(***************************************************************************)
THEOREM DivergenceVisible == Spec => []NoSilentDivergence
<1>1. Init => DivergenceInv
  BY DEF Init, DivergenceInv, EdgeTypeOK, FileWritten, NoSilentDivergence, believed
<1>2. DivergenceInv /\ [Next]_vars => DivergenceInv'
  BY DivergenceStep, EdgeTypeStep DEF DivergenceInv
<1>3. DivergenceInv => NoSilentDivergence
  BY DEF DivergenceInv
<1> QED BY <1>1, <1>2, <1>3, PTL DEF Spec

-----------------------------------------------------------------------------
\* A backend announce in progress has passed the gates.
AnnounceGated ==
  want = "announce" =>
     /\ rovHard => rovAllows
     /\ cfg.requireSign => cfg.signer
     /\ signHard /\ cfg.signer => prepared = Prefixes

\* The gates as the code states them, at the speaker.
GatesAtSpeaker ==
  /\ rovHard /\ ~rovAllows => file = {} /\ rib = {}
  /\ cfg.requireSign /\ ~cfg.signer => file = {} /\ rib = {}
  /\ signHard /\ cfg.signer /\ announced => signed = Prefixes

\* The inductive invariant behind GatesEnforced.
GateInv == EdgeTypeOK /\ FileWritten /\ AnnounceGated /\ GatesAtSpeaker

(***************************************************************************)
(* For every table of ROAs: what AllowAnnounce lets pass under             *)
(* require_valid is valid by RFC 6811, unless it is exempt. (Without       *)
(* require_valid it is not: a route longer than max_length is "not_found"  *)
(* to ValidateOrigin and invalid by the RFC.)                              *)
(***************************************************************************)
THEOREM StrictMeansRFC6811 ==
  ASSUME NEW v \in Validator, NEW p \in Prefix, NEW asn,
         v.requireValid, ~exempt(v, p, asn), AllowAnnounce(v, p, asn)
  PROVE  RFC6811(v.roas, p, asn) = "valid"
<1>1. PICK roa \in considered(v, p) : roa.asn = asn
  BY DEF AllowAnnounce, ValidateOrigin
<1>2. roa \in v.roas /\ roa \in ROA
  BY <1>1 DEF considered, Validator
<1>3. Contains(roa.prefix, p) /\ Len(roa.prefix) <= Len(p) /\ Len(p) <= maxLength(roa)
  BY <1>1 DEF considered
<1>4. Covers(roa, p)
  BY <1>2, <1>3 DEF Contains, Covers, ROA, Prefix
<1>5. Matches(roa, p, asn)
  BY <1>1, <1>3, <1>4 DEF Matches
<1> QED BY <1>2, <1>5 DEF RFC6811

(***************************************************************************)
(* The other way round, for every table of ROAs: what RFC 6811 calls valid *)
(* is allowed, with or without require_valid.                              *)
(***************************************************************************)
THEOREM RFC6811IsAllowed ==
  ASSUME NEW v \in Validator, NEW p \in Prefix, NEW asn,
         RFC6811(v.roas, p, asn) = "valid"
  PROVE  AllowAnnounce(v, p, asn)
<1>1. PICK roa \in v.roas : Matches(roa, p, asn)
  BY DEF RFC6811
<1>2. roa \in ROA
  BY <1>1 DEF Validator
<1>3. Contains(roa.prefix, p)
  BY <1>1, <1>2 DEF Matches, Covers, Contains, ROA, Prefix
<1>4. roa \in considered(v, p) /\ roa.asn = asn
  BY <1>1, <1>3 DEF considered, Matches, Covers
<1> QED BY <1>4 DEF AllowAnnounce, ValidateOrigin

LEMMA GateStep ==
  ASSUME GateInv, FileWritten', [Next]_vars
  PROVE  AnnounceGated' /\ GatesAtSpeaker'
<1> USE DEF GateInv, FileWritten, AnnounceGated, GatesAtSpeaker, rovHard, rovAllows,
            signHard, EdgeTypeOK
<1>1. ASSUME NEW ok \in BOOLEAN, Tick(ok)
      PROVE  AnnounceGated' /\ GatesAtSpeaker'
  BY <1>1 DEF Tick, manager, speaker
<1>2. CASE SetHealthyNoop
  BY <1>2 DEF SetHealthyNoop, manager, speaker
<1>3. CASE AnnounceBlocked
  BY <1>3 DEF AnnounceBlocked, speaker
<1>4. ASSUME NEW sigs \in SUBSET Prefixes, AnnounceStart(sigs)
      PROVE  AnnounceGated' /\ GatesAtSpeaker'
  BY <1>4 DEF AnnounceStart, prepareRoutes, speaker
<1>5. CASE WithdrawStart
  BY <1>5 DEF WithdrawStart, manager, speaker
<1>6. CASE WriteInclude
  BY <1>6 DEF WriteInclude, manager
<1>7. CASE WriteFails
  BY <1>7 DEF WriteFails, recordFailure, return, speaker
<1>8. CASE ConfigureFails
  BY <1>8 DEF ConfigureFails, recordFailure, return, speaker
<1>9. CASE ConfigureOK
  BY <1>9 DEF ConfigureOK, return
<1>10. CASE Cancel
  BY <1>10 DEF Cancel, manager, speaker
<1>11. CASE ShutDown
  BY <1>11 DEF ShutDown, manager, speaker
<1>12. CASE SpeakerStop \/ SpeakerStart
  BY <1>12 DEF SpeakerStop, SpeakerStart, manager
<1>13. CASE Crash
  BY <1>13 DEF Crash, manager, speaker
<1>14. CASE Restart
  BY <1>14 DEF Restart, speaker
<1>15. CASE UNCHANGED vars
  BY <1>15 DEF vars, manager, speaker
<1>16. CASE BirdcHangs
  BY <1>16 DEF BirdcHangs, manager, speaker
<1> QED
  BY <1>1, <1>2, <1>3, <1>4, <1>5, <1>6, <1>7, <1>8, <1>9, <1>10, <1>11, <1>12,
     <1>13, <1>14, <1>15, <1>16 DEF Next, SetHealthy, Apply

(***************************************************************************)
(* The ROV and BGPsec gates of prepareRoutes hold at the speaker, through  *)
(* retries, crashes of the updater and restarts of the speaker.            *)
(***************************************************************************)
THEOREM GatesHold == Spec => []GatesEnforced
<1> DEFINE Inv == DivergenceInv /\ GateInv
<1>1. Init => Inv
  BY DEF Init, DivergenceInv, GateInv, EdgeTypeOK, FileWritten, NoSilentDivergence,
         believed, AnnounceGated, GatesAtSpeaker
<1>2. Inv /\ [Next]_vars => Inv'
  BY DivergenceStep, GateStep, EdgeTypeStep DEF DivergenceInv, GateInv
<1>3. Inv => GatesEnforced
  <2> SUFFICES ASSUME GateInv PROVE GatesEnforced
    BY DEF Inv
  <2>1. cfg.rov \in Validator
    BY ConfigsAssumption DEF GateInv, EdgeTypeOK, Config
  <2>2. ASSUME cfg.rov.requireValid, NEW p \in Prefixes, ~exempt(cfg.rov, p, LocalASN),
               RFC6811(cfg.rov.roas, p, LocalASN) # "valid"
        PROVE  file = {} /\ rib = {}
    <3>1. ~AllowAnnounce(cfg.rov, p, LocalASN)
      BY <2>1, <2>2, StrictMeansRFC6811, PrefixesAssumption
    <3> QED BY <2>2, <3>1 DEF GateInv, GatesAtSpeaker, rovHard, rovAllows
  <2>3. cfg.failClosed /\ ~rovAllows => file = {} /\ rib = {}
    BY DEF GateInv, GatesAtSpeaker, rovHard
  <2> QED BY <2>2, <2>3 DEF GateInv, GatesAtSpeaker, GatesEnforced
<1> QED BY <1>1, <1>2, <1>3, PTL DEF Spec
=============================================================================
