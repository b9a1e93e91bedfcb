----------------------------- MODULE AnycastEdge -----------------------------
(***************************************************************************)
(* One anycast point of presence (anycast/updater, anycast/bgp): the loop  *)
(* that probes the local service and announces or withdraws its prefixes,  *)
(* the Manager with its ROV and BGPsec gates, and the BIRD backend that    *)
(* rewrites an include file and then runs `birdc configure`.               *)
(*                                                                         *)
(* The speaker (BIRD) is another process. It reads the include file when   *)
(* it starts and when it is told to reconfigure; both can happen between   *)
(* any two steps of the updater, and so can a crash of the updater. What   *)
(* outlives the updater is the include file and what the speaker has       *)
(* loaded from it.                                                         *)
(***************************************************************************)
EXTENDS HealthTracker, OriginValidation

CONSTANTS Prefixes,        \* cfg.BGP.Prefixes
          LocalASN,        \* cfg.BGP.LocalASN
          Configs          \* the configurations considered: a set of Config

\* The part of the configuration the gates look at. The ROAs are read once, and
\* NewManager fails when they do not make a Validator.
Config == {c \in [failClosed  : BOOLEAN,
                  requireSign : BOOLEAN,
                  signer      : BOOLEAN,      \* a BGPsec router key is loaded
                  rov         : Validator] : newSucceeds(c.rov)}

ASSUME PrefixesAssumption == Prefixes # {} /\ Prefixes \subseteq Prefix
ASSUME ConfigsAssumption == Configs \subseteq Config

VARIABLES
  cfg,             \* the configuration this PoP runs with
  pc,              \* where Updater.Run is
  want,            \* the backend call in progress
  cancelled,       \* the context of Run is done
  announced,       \* Manager.announced
  lastErr,         \* Manager.lastErr # ""
  prepared,        \* the prefixes prepareRoutes signed, for the call in progress
  signed,          \* the prefixes of Manager.routes that carry a signature
  file,            \* the prefixes in BIRD's include file
  up,              \* the speaker is running
  rib,             \* the prefixes the speaker announces to its peers
  inherited        \* an earlier process left routes behind that no call of this
                   \* one has yet replaced (history)

manager == <<announced, lastErr, prepared, signed>>
speaker == <<file, up, rib>>
vars == <<tracker, cfg, pc, want, cancelled, manager, speaker, inherited>>

EdgeTypeOK ==
  /\ cfg \in Configs
  /\ pc \in {"tick", "loop", "set", "apply", "configure", "hung",
            "stopped", "crashed"}
  /\ want \in {"none", "announce", "withdraw", "force", "close"}
  /\ want = "none" <=> pc \notin {"apply", "configure", "hung"}
  /\ cancelled \in BOOLEAN /\ announced \in BOOLEAN /\ lastErr \in BOOLEAN
  /\ prepared \subseteq Prefixes /\ signed \subseteq Prefixes
  /\ file \in {{}, Prefixes}
  /\ up \in BOOLEAN
  /\ rib \in {{}, Prefixes}
  /\ inherited \in BOOLEAN

TypeOK == TrackerTypeOK /\ EdgeTypeOK

alive == pc \notin {"stopped", "crashed"}

\* A PoP that is installed now: an empty include file.
Init ==
  /\ NewTracker
  /\ cfg \in Configs
  /\ pc = "tick" /\ want = "none" /\ cancelled = FALSE
  /\ announced = FALSE /\ lastErr = FALSE /\ prepared = {} /\ signed = {}
  /\ file = {} /\ up \in BOOLEAN /\ rib = {}
  /\ inherited = FALSE

-----------------------------------------------------------------------------
(* The gates of Manager.prepareRoutes.                                     *)

rovAllows == \A p \in Prefixes : AllowAnnounce(cfg.rov, p, LocalASN)

rovHard == cfg.failClosed \/ cfg.rov.requireValid
signHard == cfg.failClosed \/ cfg.requireSign

\* prepareRoutes succeeds and signs the prefixes in sigs. Signing, or verifying
\* the new signature, may fail for any prefix.
prepareRoutes(sigs) ==
  /\ rovHard => rovAllows
  /\ IF cfg.signer THEN signHard => sigs = Prefixes
                   ELSE ~cfg.requireSign /\ sigs = {}

\* prepareRoutes can return an error.
prepareFails ==
  \/ rovHard /\ ~rovAllows
  \/ cfg.signer /\ signHard
  \/ ~cfg.signer /\ cfg.requireSign

-----------------------------------------------------------------------------
(* Updater.Run and Updater.tick.                                           *)

\* The probe of the next tick has an outcome and the tracker has observed it.
\* The first tick comes before the loop.
Tick(ok) ==
  /\ pc \in {"tick", "loop"}
  /\ Observe(ok)
  /\ pc' = "set"
  /\ UNCHANGED <<cfg, want, cancelled, manager, speaker, inherited>>

\* SetHealthy when the manager believes there is nothing to change.
SetHealthyNoop ==
  /\ pc = "set" /\ healthy = announced
  /\ pc' = "loop"
  /\ UNCHANGED <<tracker, cfg, want, cancelled, manager, speaker, inherited>>

\* SetHealthy(true) stopped by a gate, or by the signature export under
\* fail_closed.
AnnounceBlocked ==
  /\ pc = "set" /\ healthy /\ ~announced
  /\ \/ prepareFails
     \/ cfg.failClosed /\ \E sigs \in SUBSET Prefixes : prepareRoutes(sigs)
  /\ lastErr' = TRUE
  /\ pc' = "loop"
  /\ UNCHANGED <<tracker, cfg, want, cancelled, announced, prepared, signed,
                 speaker, inherited>>

\* SetHealthy(true) passes the gates and calls the backend. An export error
\* is only recorded when not fail_closed.
AnnounceStart(sigs) ==
  /\ pc = "set" /\ healthy /\ ~announced
  /\ prepareRoutes(sigs)
  /\ prepared' = sigs
  /\ lastErr' \in IF cfg.failClosed THEN {lastErr} ELSE {lastErr, TRUE}
  /\ pc' = "apply" /\ want' = "announce"
  /\ UNCHANGED <<tracker, cfg, cancelled, announced, signed, speaker, inherited>>

\* SetHealthy(false) calls the backend.
WithdrawStart ==
  /\ pc = "set" /\ ~healthy /\ announced
  /\ pc' = "apply" /\ want' = "withdraw"
  /\ UNCHANGED <<tracker, cfg, cancelled, manager, speaker, inherited>>

\* The context is cancelled; Run notices it at its next select.
Cancel ==
  /\ alive /\ ~cancelled
  /\ cancelled' = TRUE
  /\ UNCHANGED <<tracker, cfg, pc, want, manager, speaker, inherited>>

MutantShutDownWhenWithdrawn ==    \* waits for the health gate to withdraw first
  /\ pc = "loop" /\ cancelled /\ ~announced
  /\ pc' = "apply" /\ want' = "force"
  /\ UNCHANGED <<tracker, cfg, cancelled, manager, speaker, inherited>>

\* Run calls ForceWithdraw, and then Close, which calls it again.
ShutDown ==
  /\ pc = "loop" /\ cancelled
  /\ pc' = "apply" /\ want' = "force"
  /\ UNCHANGED <<tracker, cfg, cancelled, manager, speaker, inherited>>

-----------------------------------------------------------------------------
(* BirdBackend.apply, called with Manager.mu held.                         *)

\* Where Run goes on after the call in progress has returned.
return ==
  CASE want = "force" -> pc' = "apply" /\ want' = "close"
    [] want = "close" -> pc' = "stopped" /\ want' = "none"
    [] OTHER          -> pc' = "loop" /\ want' = "none"

\* The new include file is renamed into place.
WriteInclude ==
  /\ pc = "apply"
  /\ file' = IF want = "announce" THEN Prefixes ELSE {}
  /\ pc' = "configure"
  /\ UNCHANGED <<tracker, cfg, want, cancelled, manager, up, rib, inherited>>

\* What the manager records when the backend call fails. ForceWithdraw clears
\* its state even then.
recordFailure ==
  /\ lastErr' = TRUE
  /\ announced' = (announced /\ want \notin {"force", "close"})
  /\ signed' = IF want \in {"force", "close"} THEN {} ELSE signed
  /\ UNCHANGED prepared

\* The directory, the temporary file or the rename failed.
WriteFails ==
  /\ pc = "apply"
  /\ recordFailure
  /\ return
  /\ UNCHANGED <<tracker, cfg, cancelled, speaker, inherited>>

MutantConfigureFailsSilently ==   \* the error of birdc is not recorded
  /\ pc = "configure"
  /\ UNCHANGED manager
  /\ return
  /\ UNCHANGED <<tracker, cfg, cancelled, speaker, inherited>>

\* `birdc configure` failed: the file has changed, the speaker has not read it.
ConfigureFails ==
  /\ pc = "configure"
  /\ recordFailure
  /\ return
  /\ UNCHANGED <<tracker, cfg, cancelled, speaker, inherited>>

MutantAnnounceNotRecorded ==      \* a successful announce is not recorded
  /\ pc = "configure" /\ up
  /\ rib' = file
  /\ announced' = FALSE
  /\ signed' = IF want = "announce" THEN prepared ELSE {}
  /\ lastErr' = FALSE
  /\ inherited' = FALSE
  /\ return
  /\ UNCHANGED <<tracker, cfg, cancelled, prepared, file, up>>

MutantWithdrawNotRecorded ==      \* a successful withdraw leaves announced set
  /\ pc = "configure" /\ up
  /\ rib' = file
  /\ announced' = (announced \/ want = "announce")
  /\ signed' = IF want = "announce" THEN prepared ELSE {}
  /\ lastErr' = FALSE
  /\ inherited' = FALSE
  /\ return
  /\ UNCHANGED <<tracker, cfg, cancelled, prepared, file, up>>

\* The speaker has loaded the file, and the manager records the success.
ConfigureOK ==
  /\ pc = "configure" /\ up
  /\ rib' = file
  /\ announced' = (want = "announce")
  /\ signed' = IF want = "announce" THEN prepared ELSE {}
  /\ lastErr' = FALSE
  /\ inherited' = FALSE
  /\ return
  /\ UNCHANGED <<tracker, cfg, cancelled, prepared, file, up>>

\* birdc does not return, now or ever: it runs without a context, and the call
\* holds Manager.mu. Only a kill of the updater ends this.
BirdcHangs ==
  /\ pc = "configure"
  /\ pc' = "hung"
  /\ UNCHANGED <<tracker, cfg, want, cancelled, manager, speaker, inherited>>

-----------------------------------------------------------------------------
(* The processes come and go.                                              *)

\* The speaker stops: its peers drop what it announced.
SpeakerStop ==
  /\ up
  /\ up' = FALSE /\ rib' = {}
  /\ UNCHANGED <<tracker, cfg, pc, want, cancelled, manager, file, inherited>>

\* The speaker starts and reads the include file.
SpeakerStart ==
  /\ ~up
  /\ up' = TRUE /\ rib' = file
  /\ UNCHANGED <<tracker, cfg, pc, want, cancelled, manager, file, inherited>>

\* The updater is killed between any two steps.
Crash ==
  /\ alive
  /\ pc' = "crashed" /\ want' = "none"
  /\ UNCHANGED <<tracker, cfg, cancelled, manager, speaker, inherited>>

\* updater.New and the start of Run in a new process.
Restart ==
  /\ ~alive
  /\ ResetTracker
  /\ pc' = "tick" /\ want' = "none" /\ cancelled' = FALSE
  /\ announced' = FALSE /\ lastErr' = FALSE /\ prepared' = {} /\ signed' = {}
  /\ inherited' = (file # {} \/ rib # {})
  /\ UNCHANGED <<cfg, speaker>>

SetHealthy ==
  \/ SetHealthyNoop
  \/ AnnounceBlocked
  \/ \E sigs \in SUBSET Prefixes : AnnounceStart(sigs)
  \/ WithdrawStart

Apply == WriteInclude \/ WriteFails \/ ConfigureFails \/ ConfigureOK

Next ==
  \/ \E ok \in BOOLEAN : Tick(ok)
  \/ SetHealthy
  \/ Apply \/ BirdcHangs
  \/ Cancel \/ ShutDown
  \/ SpeakerStop \/ SpeakerStart
  \/ Crash \/ Restart

Spec == Init /\ [][Next]_vars

(***************************************************************************)
(* The loop keeps running: a ticker fires, SetHealthy returns, and so does *)
(* a backend call, unless birdc hangs. select takes the cancelled context some time, since it     *)
(* chooses at random among the cases that are ready. The strong fairness   *)
(* of the steps that succeed says that the file system, birdc and the      *)
(* signer do not fail for ever, and that a stopped speaker comes up again. *)
(***************************************************************************)
Fairness ==
  /\ WF_vars(\E ok \in BOOLEAN : Tick(ok))
  /\ WF_vars(SetHealthy)
  /\ WF_vars(Apply)
  /\ SF_vars(ShutDown)
  /\ SF_vars(\E sigs \in SUBSET Prefixes : AnnounceStart(sigs))
  /\ SF_vars(WriteInclude)
  /\ SF_vars(ConfigureOK)
  /\ WF_vars(SpeakerStart)

FairSpec == Spec /\ Fairness

-----------------------------------------------------------------------------

\* What the manager believes the speaker should be told.
believed == IF announced THEN Prefixes ELSE {}

(***************************************************************************)
(* The Manager never diverges from the speaker without lastErr saying so:  *)
(* between two ticks, and after a graceful stop, with no recorded error,   *)
(* the include file and what a running speaker announces are what          *)
(* Manager.announced says (nothing, after a stop). The exception is routes *)
(* that an earlier process left behind.                                    *)
(***************************************************************************)
NoSilentDivergence ==
  pc \in {"tick", "loop", "set", "stopped"} /\ ~lastErr /\ ~inherited =>
     /\ file = believed
     /\ up => rib = file

(***************************************************************************)
(* The gates of prepareRoutes hold at the speaker. Under require_valid     *)
(* nothing is in the include file or announced as long as RFC 6811 does    *)
(* not call every prefix valid (private space under allow_private aside);  *)
(* under fail_closed nothing as long as a prefix is refused; where signing *)
(* is required, the manager reports routes as announced only when all are  *)
(* signed. Neither retries, crashes nor speaker restarts get around a      *)
(* gate.                                                                   *)
(***************************************************************************)
GatesEnforced ==
  /\ cfg.rov.requireValid /\ (\E p \in Prefixes :
           ~exempt(cfg.rov, p, LocalASN) /\ RFC6811(cfg.rov.roas, p, LocalASN) # "valid")
       => file = {} /\ rib = {}
  /\ cfg.failClosed /\ ~rovAllows => file = {} /\ rib = {}
  /\ cfg.requireSign /\ ~cfg.signer => file = {} /\ rib = {}
  /\ signHard /\ cfg.signer /\ announced => signed = Prefixes

\* The gates let the routes through, signing errors aside.
gatesOpen ==
  /\ rovHard => rovAllows
  /\ cfg.requireSign => cfg.signer

\* Run makes progress: the process lives and no birdc hangs in it.
running == alive /\ pc # "hung"

(***************************************************************************)
(* Liveness of the health gate: while process and speaker stay up, no      *)
(* birdc hangs, the probes keep succeeding and the gates let the routes    *)
(* pass, the manager announces and stays announced, and from then on the   *)
(* speaker announces every prefix. The exception is visible in lastErr: a  *)
(* withdrawal that failed left announced set, and when the probes recover  *)
(* SetHealthy(true) repairs nothing.                                       *)
(***************************************************************************)
HealthyAnnounces ==
  gatesOpen /\ <>[](last /\ up /\ ~cancelled /\ running)
     => <>[](announced /\ (rib = Prefixes \/ lastErr))

(***************************************************************************)
(* While process and speaker stay up, no birdc hangs and the probes keep   *)
(* failing, the manager ends withdrawn, however often the backend fails in *)
(* between, and the speaker announces nothing from then on. The exceptions *)
(* are an announcement that failed after it wrote the include file, which  *)
(* lastErr shows and SetHealthy(false) does not take back, and routes an   *)
(* earlier process left behind.                                            *)
(***************************************************************************)
FailingWithdraws ==
  <>[](~last /\ up /\ ~cancelled /\ running)
     => <>[](~announced /\ (rib = {} \/ lastErr \/ inherited))

(***************************************************************************)
(* A cancelled Run comes to its end, through failing withdrawals and       *)
(* whatever the select takes first, unless a birdc hangs: nothing bounds   *)
(* that wait, and the shutdown withdrawal is then never done.              *)
(***************************************************************************)
ShutDownEnds == cancelled ~> ~running
=============================================================================
