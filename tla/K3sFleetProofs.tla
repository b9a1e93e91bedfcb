----------------------------- MODULE K3sFleetProofs -----------------------------
(* Theorems about the fleet on k3s for every number of pods, every partition, every
   set of images and of command lines. *)
EXTENDS K3sFleet, TLAPS

(* The controller knows its flags until it exits. *)
FlagsKnown == pc # "exited" => flags \in Flags

(* A pod whose template is pinned runs the image it is pinned to. *)
PinnedPods == \A i \in Ready : pod[i].template # Tag => pod[i].runs = pod[i].template

(* The signing variables along the way: the digest is settled before signing, a
   grant is for that digest, and what is deployed is then the digest itself. *)
Unsigned == pc \in {"exited", "publish", "prepare", "attest", "sign"} => token = None
ToSign == pc \in {"sign", "verify"} => digest # None
Signed == token # None => /\ digest # None /\ token.digest = digest
                          /\ deploy = digest
Deploys == pc = "sign" => deploy = digest
Chosen == pc \in {"sign", "verify", "configmap", "get", "update", "watch"} => deploy # None

(* What the reconcile has written so far is what it holds in memory. *)
Written ==
    /\ pc \in {"get", "update", "watch"} => cm = [image |-> deploy, digest |-> digest, token |-> token]
    /\ pc = "watch" /\ sts # None => /\ sts.template = deploy
                                     /\ digest # None => sts.digest = digest

(* The inductive invariant: SignedMeansRunning speaks of the last step of the
   reconcile only, and needs what each earlier step has established, and that no
   pod, of whatever controller, runs anything but its pinned image. *)
FleetInv == /\ TypeOK /\ FlagsKnown /\ PinnedPods
            /\ Unsigned /\ ToSign /\ Signed /\ Deploys /\ Chosen /\ Written

LEMMA InitFleetInv == Init => FleetInv
  BY K3sAssumption DEF Init, FleetInv, TypeOK, FlagsKnown, PinnedPods, Ready, Unsigned, ToSign, Signed,
     Deploys, Chosen, Written, Steps

(* A process that ends leaves no trace in memory. *)
LEMMA ExitStep ==
    ASSUME FleetInv, Exit, UNCHANGED <<cm, pod>>,
           hubTag' \in Digests, local' \in Digests \cup {None}, stored' \subseteq Digests,
           sts' = sts \/ (sts # None /\ sts' = [sts EXCEPT !.deleting = TRUE])
    PROVE  FleetInv'
<1> USE DEF FleetInv, Exit
<1>1. TypeOK'
  BY DEF TypeOK, Steps
<1>2. PinnedPods'
  BY DEF PinnedPods, Ready
<1>3. (FlagsKnown /\ Unsigned /\ ToSign /\ Signed /\ Deploys /\ Chosen /\ Written)'
  BY DEF FlagsKnown, Unsigned, ToSign, Signed, Deploys, Chosen, Written
<1> QED BY <1>1, <1>2, <1>3

(* The steps up to the signature. *)
LEMMA PrepareStep ==
    ASSUME FleetInv, Start \/ Publish \/ Prepare PROVE FleetInv'
<1> USE K3sAssumption DEF FleetInv, TypeOK, Steps
<1>1. CASE Start
  BY <1>1 DEF Start, At, FlagsKnown, PinnedPods, Ready, Unsigned, ToSign, Signed, Deploys, Chosen, Written,
     image, cluster, signing
<1>2. CASE Publish
  <2>1. flags \in Flags /\ flags.publish \in Digests \cup {None}
    BY <1>2 DEF Publish, FlagsKnown
  <2>2. CASE Exit
    <3>1. /\ UNCHANGED <<cm, pod>>
          /\ hubTag' \in Digests /\ local' \in Digests \cup {None} /\ stored' \subseteq Digests
      BY <1>2, <2>1 DEF Publish, cluster, image
    <3>2. sts' = sts
      BY <1>2 DEF Publish, cluster
    <3> HIDE DEF FleetInv, TypeOK
    <3> QED BY <2>2, <3>1, <3>2, ExitStep
  <2>3. CASE UNCHANGED memory /\ pc' = "prepare"
    BY <1>2, <2>1, <2>3 DEF Publish, FlagsKnown, PinnedPods, Ready, Unsigned, ToSign, Signed, Deploys,
       Chosen, Written, memory, signing, cluster, image
  <2> QED BY <1>2, <2>2, <2>3 DEF Publish
<1>3. CASE Prepare
  BY <1>3 DEF Prepare, At, FlagsKnown, PinnedPods, Ready, Unsigned, ToSign, Signed, Deploys, Chosen, Written,
     cluster, signing
<1> QED BY <1>1, <1>2, <1>3

LEMMA AttestStep == ASSUME FleetInv, Attest PROVE FleetInv'
<1> USE K3sAssumption DEF FleetInv, TypeOK, Steps, Attest, image, cluster
<1>1. flags \in Flags /\ flags.image \in References /\ token = None
  BY DEF FlagsKnown, Unsigned
<1>2. PICK att \in {None} \cup resolveImageAttestation(flags.image) :
        digest' = att /\ deploy' = pinned(att) /\ pc' = IF att = None THEN "configmap" ELSE "sign"
  OBVIOUS
<1>3. att \in Digests \cup {None}
  BY <1>1, <1>2 DEF resolveImageAttestation, References
<1>4. pinned(att) \in References /\ (att # None => pinned(att) = att)
  BY <1>1, <1>3 DEF pinned, References
<1> QED BY <1>1, <1>2, <1>3, <1>4 DEF FlagsKnown, PinnedPods, Ready, Unsigned, ToSign, Signed, Deploys,
           Chosen, Written, References

LEMMA SignStep == ASSUME FleetInv, Sign \/ Verify PROVE FleetInv'
<1> USE K3sAssumption DEF FleetInv, TypeOK, Steps, image, cluster
<1>1. CASE Sign
  <2>1. flags \in Flags /\ flags.image \in References /\ digest \in Digests /\ token = None
    BY <1>1 DEF Sign, FlagsKnown, Unsigned, ToSign
  <2> QED BY <1>1, <2>1 DEF Sign, Grant, FlagsKnown, PinnedPods, Ready, Unsigned, ToSign, Signed, Deploys,
             Chosen, Written
<1>2. CASE Verify
  BY <1>2 DEF Verify, At, VerifyImage, FlagsKnown, PinnedPods, Ready, Unsigned, ToSign, Signed, Deploys,
     Chosen, Written
<1> QED BY <1>1, <1>2

(* The steps that write, and the ones after them. *)
LEMMA WriteStep ==
    ASSUME FleetInv, EnsureConfigMap \/ GetStatefulSet \/ UpdateStatefulSet \/ Dashboard
    PROVE  FleetInv'
<1> USE K3sAssumption DEF FleetInv, TypeOK, Steps, image, memory, signing
<1>1. CASE EnsureConfigMap
  BY <1>1 DEF EnsureConfigMap, At, FlagsKnown, PinnedPods, Ready, Unsigned, ToSign, Signed, Deploys,
     Chosen, Written
<1>2. CASE GetStatefulSet
  <2>1. CASE sts = None
    <3>1. /\ sts' = [template |-> deploy, current |-> deploy, digest |-> digest,
                      partition |-> flags.partition, deleting |-> FALSE]
          /\ deploy \in References /\ flags \in Flags /\ pc = "get" /\ pc' = "watch" /\ UNCHANGED <<image, cm, pod, memory>>
      BY <1>2, <2>1 DEF GetStatefulSet, Chosen, FlagsKnown
    <3>2. TypeOK'
      BY <3>1
    <3> QED BY <3>1, <3>2 DEF FlagsKnown, PinnedPods, Ready, Unsigned, ToSign, Signed, Deploys, Chosen, Written
  <2>2. CASE sts # None
    BY <1>2, <2>2 DEF GetStatefulSet, FlagsKnown, PinnedPods, Ready, Unsigned, ToSign, Signed, Deploys,
       Chosen, Written
  <2> QED BY <2>1, <2>2
<1>3. CASE UpdateStatefulSet
  BY <1>3 DEF UpdateStatefulSet, merged, At, FlagsKnown, PinnedPods, Ready, Unsigned, ToSign, Signed,
     Deploys, Chosen, Written
<1>4. CASE Dashboard
  BY <1>4 DEF Dashboard, VerifyImage, cluster, FlagsKnown, PinnedPods, Ready, Unsigned, ToSign, Signed,
     Deploys, Chosen, Written
<1> QED BY <1>1, <1>2, <1>3, <1>4

(* Kubernetes, containerd and the registry. *)
LEMMA ClusterStep == ASSUME FleetInv, Kubernetes \/ Retag PROVE FleetInv'
<1> USE K3sAssumption DEF FleetInv, cluster, image, signing
<1>r. ASSUME UNCHANGED <<cluster, pc, flags, signing>>, PinnedPods', TypeOK' PROVE FleetInv'
  BY <1>r DEF FlagsKnown, Unsigned, ToSign, Signed, Deploys, Chosen, Written
<1>s. \A i \in Ordinals : pod[i] # None => pod[i] \in [template : References, runs : Digests \cup {None}]
  BY DEF TypeOK
<1>1. ASSUME NEW i \in Ordinals, CreatePod(i) PROVE FleetInv'
  <2>1. sts.template \in References /\ sts.current \in References
    BY <1>1 DEF CreatePod, active, TypeOK
  <2>2. PICK ref \in References : pod' = [pod EXCEPT ![i] = [template |-> ref, runs |-> None]]
    BY <1>1, <2>1 DEF CreatePod
  <2>3. [template |-> ref, runs |-> None] \in [template : References, runs : Digests \cup {None}]
    OBVIOUS
  <2>4. TypeOK'
    BY <1>1, <2>2, <2>3 DEF CreatePod, TypeOK
  <2>5. PinnedPods'
    BY <2>2 DEF TypeOK, PinnedPods, Ready
  <2> QED BY <1>1, <1>r, <2>4, <2>5 DEF CreatePod
<1>2. ASSUME NEW i \in Ordinals, StartPod(i) PROVE FleetInv'
  <2> DEFINE ref == pod[i].template
  <2>1. pod[i] # None /\ ref \in References
    BY <1>2, <1>s DEF StartPod
  <2>2. PICK runs \in Digests :
           /\ ref # Tag => runs = ref
           /\ pod' = [pod EXCEPT ![i] = [template |-> ref, runs |-> runs]]
           /\ local' \in {local, runs}
    BY <1>2 DEF StartPod, TypeOK
  <2> HIDE DEF ref
  <2>3. [template |-> ref, runs |-> runs] \in [template : References, runs : Digests \cup {None}]
    BY <2>1
  <2>4. TypeOK'
    BY <1>2, <2>2, <2>3 DEF StartPod, TypeOK
  <2>5. PinnedPods'
    BY <2>2 DEF TypeOK, PinnedPods, Ready
  <2> QED BY <1>2, <1>r, <2>4, <2>5 DEF StartPod
<1>3. ASSUME NEW i \in Ordinals, RollPod(i) \/ EndPod(i) PROVE FleetInv'
  <2>1. TypeOK' /\ PinnedPods'
    BY <1>3 DEF RollPod, EndPod, TypeOK, PinnedPods, Ready
  <2> QED BY <1>3, <1>r, <2>1 DEF RollPod, EndPod
<1>4. ASSUME CompleteRoll \/ Deleted PROVE FleetInv'
  <2>1. TypeOK'
    BY <1>4 DEF CompleteRoll, Deleted, active, TypeOK
  <2>2. Written'
    BY <1>4 DEF CompleteRoll, Deleted, active, Written, TypeOK
  <2>3. (FlagsKnown /\ PinnedPods /\ Unsigned /\ ToSign /\ Signed /\ Deploys /\ Chosen)'
    BY <1>4 DEF CompleteRoll, Deleted, FlagsKnown, PinnedPods, Ready, Unsigned, ToSign, Signed, Deploys, Chosen
  <2> QED BY <2>1, <2>2, <2>3
<1>5. ASSUME Retag PROVE FleetInv'
  <2>1. TypeOK' /\ PinnedPods'
    BY <1>5 DEF Retag, TypeOK, PinnedPods, Ready
  <2> QED BY <1>5, <1>r, <2>1 DEF Retag
<1> QED BY <1>1, <1>2, <1>3, <1>4, <1>5 DEF Kubernetes

LEMMA FleetInvariant == Spec => []FleetInv
<1>1. ASSUME FleetInv, [Next]_vars PROVE FleetInv'
  <2>1. CASE Fatal \/ Crash \/ Signal
    <3>1. /\ hubTag' \in Digests /\ local' \in Digests \cup {None} /\ stored' \subseteq Digests
          /\ sts' = sts \/ (sts # None /\ sts' = [sts EXCEPT !.deleting = TRUE])
      <4>1. UNCHANGED image /\ TypeOK
        BY <1>1, <2>1 DEF Fatal, Crash, Signal, FleetInv
      <4>2. sts' = sts \/ (sts # None /\ sts' = [sts EXCEPT !.deleting = TRUE])
        <5>1. CASE Fatal \/ Crash
          BY <5>1 DEF Fatal, Crash, cluster
        <5>2. CASE Signal
          <6>1. CASE flags.cleanup /\ sts # None
            BY <5>2, <6>1 DEF Signal
          <6>2. CASE ~(flags.cleanup /\ sts # None)
            BY <5>2, <6>2 DEF Signal
          <6> QED BY <6>1, <6>2
        <5> QED BY <2>1, <5>1, <5>2
      <4> QED BY <4>1, <4>2 DEF image, TypeOK
    <3> QED BY <1>1, <2>1, <3>1, ExitStep DEF Fatal, Crash, Signal, cluster
  <2>2. CASE UNCHANGED vars
    <3> USE <1>1, <2>2 DEF vars, image, cluster, memory, signing, FleetInv
    <3>1. TypeOK'
      BY DEF TypeOK
    <3>2. (FlagsKnown /\ PinnedPods /\ Unsigned /\ ToSign)'
      BY DEF FlagsKnown, PinnedPods, Ready, Unsigned, ToSign
    <3>3. (Signed /\ Deploys /\ Chosen /\ Written)'
      BY DEF Signed, Deploys, Chosen, Written
    <3> QED BY <3>1, <3>2, <3>3
  <2> QED BY <1>1, <2>1, <2>2, PrepareStep, AttestStep, SignStep, WriteStep, ClusterStep
             DEF Next, Reconcile
<1> QED BY <1>1, InitFleetInv, PTL DEF Spec

(* The variables of controller and cluster keep their types. *)
THEOREM FleetTypeCorrect == Spec => []TypeOK
<1>1. FleetInv => TypeOK
  BY DEF FleetInv
<1> QED BY <1>1, FleetInvariant, PTL

(* Every pod that has the template of a signed and reconciled fleet runs the signed
   digest, through any number of crashes, other controllers, pushes and retags. *)
THEOREM SignedFleetRuns == Spec => []SignedMeansRunning
<1>1. FleetInv => SignedMeansRunning
  <2> SUFFICES ASSUME FleetInv, pc = "watch", token # None, sts # None
               PROVE  /\ cm.token = token
                      /\ cm.digest = token.digest /\ sts.digest = token.digest
                      /\ cm.image = sts.template
                      /\ \A i \in Ready : pod[i].template = sts.template => pod[i].runs = token.digest
    BY DEF SignedMeansRunning
  <2>1. /\ cm = [image |-> deploy, digest |-> digest, token |-> token]
        /\ sts.template = deploy /\ deploy = digest /\ token.digest = digest /\ sts.digest = digest
    BY DEF FleetInv, Written, Signed
  <2>2. deploy # Tag
    BY <2>1, K3sAssumption DEF FleetInv, TypeOK, Signed
  <2> QED BY <2>1, <2>2 DEF FleetInv, PinnedPods
<1> QED BY <1>1, FleetInvariant, PTL
================================================================================
