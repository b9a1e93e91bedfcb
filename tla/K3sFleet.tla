-------------------------------- MODULE K3sFleet --------------------------------
(* The barge fleet on k3s (barge_k3s.go, barge_sdf.go, barge_k3s_hub.go): the
   controller publishes and pulls the engine image, resolves its digest, signs
   fleet shape and digest, and reconciles ConfigMap, Service and StatefulSet; then
   it only watches. It may crash and start again with other flags at any point.

   A "get, then create or update" on one object is one step: create fails when the
   object exists and update when it changed since the get, so the two calls either
   happen as if at once or end the controller (Fatal). The StatefulSet is read
   before the pods are asked for snapshots and written afterwards, so these stay
   apart. Kubernetes and containerd are external: pods are created and rolled in order,
   one at a time, those below the partition from the previous revision; a pod waits
   for ever for an image that nobody has; a StatefulSet that is being deleted stays,
   readable and writable, until its pods are gone. The pods have no readiness probe:
   one that runs is ready. A template is represented by its image, the fleet shape
   in the grant (replicas, ports, domain) is left out. *)
EXTENDS Integers

CONSTANTS
    Digests,     \* image contents, sha256:...
    Replicas,    \* -barge-replicas
    HubTag,      \* -k3s-image by tag means a floating tag of the hub
    Flags,       \* the command lines a controller may be started with
    None

Ordinals == 0 .. Replicas - 1
Tag == "tag"
References == {Tag} \cup Digests   \* -k3s-image by tag, or pinned by digest

ASSUME K3sAssumption ==
    /\ Replicas \in Nat /\ HubTag \in BOOLEAN
    /\ None \notin References /\ Tag \notin Digests
    /\ Flags \subseteq [image : References,
                        partition : Nat,   \* -k3s-update-partition
                        publish : Digests \cup {None}, publishOnly : BOOLEAN,
                        hub : BOOLEAN, pull : BOOLEAN, cleanup : BOOLEAN]

VARIABLES
    hubTag, local,  \* the digest the tag stands for in the registry, in containerd
    stored,         \* the image contents that the registry or containerd has
    cm, sts,        \* ConfigMap and StatefulSet; None when absent
    pod,            \* pod[i]: the pod with ordinal i; runs: None until its image is there
    pc, flags,      \* the controller: where runBargeK3s stands, its flags
    deploy, digest, token,  \* deployImage, imageDigest, sdfToken
    verified        \* lastVerify

image   == <<hubTag, local, stored>>
cluster == <<cm, sts>>
signing == <<deploy, digest, token, verified>>
memory  == <<flags, signing>>
vars    == <<image, cluster, pod, pc, memory>>


Steps == {"exited", "publish", "prepare", "attest", "sign", "verify", "configmap", "get",
          "update", "watch"}
Grant == [image : References, digest : Digests]

TypeOK ==
    /\ hubTag \in Digests /\ local \in Digests \cup {None} /\ stored \subseteq Digests
    /\ cm \in [image : References, digest : Digests \cup {None}, token : Grant \cup {None}] \cup {None}
    /\ sts \in [template : References, current : References, digest : Digests \cup {None},
               partition : Nat, deleting : BOOLEAN] \cup {None}
    /\ pod \in [Ordinals -> [template : References, runs : Digests \cup {None}] \cup {None}]
    /\ pc \in Steps /\ flags \in Flags \cup {None}
    /\ deploy \in References \cup {None} /\ digest \in Digests \cup {None}
    /\ token \in Grant \cup {None}
    /\ verified \in {"never", "ok", "failed"}

Init ==
    /\ hubTag \in Digests /\ local = None /\ stored = {hubTag}
    /\ cm = None /\ sts = None
    /\ pod = [i \in Ordinals |-> None]
    /\ pc = "exited" /\ flags = None
    /\ deploy = None /\ digest = None /\ token = None /\ verified = "never"

Ready == {i \in Ordinals : pod[i] # None /\ pod[i].runs # None}

--------------------------------------------------------------------------------
(* runBargeK3s, step by step. *)

At(l, next) == pc = l /\ pc' = next

(* The process ends, and what it had in memory goes with it. *)
Exit ==
    /\ pc' = "exited" /\ flags' = None
    /\ deploy' = None /\ digest' = None /\ token' = None /\ verified' = "never"


(* loadK3sBargeConfig: a new process. *)
Start ==
    /\ At("exited", "publish")
    /\ flags' \in Flags
    /\ UNCHANGED <<image, cluster, pod, signing>>

(* publishK3sBargeImage: tag the source locally, then push; the push may fail with
   the local tag already moved. *)
Publish ==
    /\ pc = "publish"
    /\ \/ flags.publish = None /\ pc' = "prepare" /\ UNCHANGED <<image, memory>>
       \/ /\ flags.publish # None
          /\ local' = flags.publish /\ stored' = stored \cup {flags.publish}
          /\ \/ hubTag' = flags.publish /\ ~flags.publishOnly /\ pc' = "prepare" /\ UNCHANGED memory
             \/ hubTag' = flags.publish /\ flags.publishOnly /\ Exit
             \/ UNCHANGED hubTag /\ Exit
    /\ UNCHANGED <<cluster, pod>>

(* startK3sBargeHub, newBargeSDF (without it nothing is attested), then
   ensureK3sBargeImage: pull unless the reference is in containerd already (a
   failure is only logged), newKubernetesClient and ensureK3sNamespace. *)
Prepare ==
    /\ At("prepare", "attest")
    /\ \/ flags.pull /\ flags.image = Tag /\ local = None /\ local' = hubTag
       \/ UNCHANGED local
    /\ UNCHANGED <<hubTag, stored, cluster, pod, flags, signing>>

(* Every call whose failure ends the process: the hub's listener, the client, the
   namespace, ConfigMap, Service, StatefulSet. *)
Fatal ==
    /\ pc \in {"prepare", "configmap", "get", "update"}
    /\ Exit
    /\ UNCHANGED <<image, cluster, pod>>

(* resolveImageAttestation: what it may return. A pinned reference is its own digest; a
   tag is looked up in containerd, where the first image counts whose reference
   contains it. *)
resolveImageAttestation(ref) == IF ref = Tag THEN stored \cup {local} ELSE {ref}

(* Mutant: the StatefulSet keeps the tag. *)
MutantPinned(att) == flags.image

(* att.Pinned replaces the configured image, so that the tag cannot drift. *)
pinned(att) == IF att = None THEN flags.image ELSE att

Attest ==
    /\ pc = "attest"
    /\ \E att \in {None} \cup resolveImageAttestation(flags.image) :
         /\ digest' = att
         /\ deploy' = pinned(att)
         /\ pc' = IF att = None THEN "configmap" ELSE "sign"
    /\ UNCHANGED <<image, cluster, pod, flags, token, verified>>

(* SignFleetReconcileWithImage: the grant binds fleet shape and image digest. *)
Sign ==
    /\ pc = "sign"
    /\ \/ /\ token' = [image |-> flags.image, digest |-> digest]
          /\ pc' = "verify"
       \/ UNCHANGED token /\ pc' = "configmap"
    /\ UNCHANGED <<image, cluster, pod, flags, deploy, digest, verified>>

(* VerifyImage: what containerd has now against the signed claim; when the signed
   reference cannot be resolved, its pinned form is. *)
VerifyImage ==
    /\ token # None
    /\ \E live \in {token.digest} \cup (resolveImageAttestation(token.image) \ {None}) :
         verified' = IF live = token.digest THEN "ok" ELSE "failed"

Verify ==
    /\ At("verify", "configmap")
    /\ VerifyImage
    /\ UNCHANGED <<image, cluster, pod, flags, deploy, digest, token>>

(* ensureK3sConfigMapSDF; then ensureK3sHeadlessService, which only creates. *)
EnsureConfigMap ==
    /\ At("configmap", "get")
    /\ cm' = [image |-> deploy, digest |-> digest, token |-> token]
    /\ UNCHANGED <<image, sts, pod, memory>>

(* ensureK3sStatefulSetSDF: read; when the image changes (bargeTemplateChanged),
   requestK3sPodSnapshots asks every ready pod and only logs what they answer;
   write. Annotations are merged: one that is not wanted any more stays. *)
GetStatefulSet ==
    /\ pc = "get"
    /\ \/ /\ sts = None
          /\ sts' = [template |-> deploy, current |-> deploy, digest |-> digest,
                     partition |-> flags.partition, deleting |-> FALSE]
          /\ pc' = "watch"
       \/ /\ sts # None
          /\ pc' = "update"
          /\ UNCHANGED sts
    /\ UNCHANGED <<image, cm, pod, memory>>

merged(new, old) == IF new = None THEN old ELSE new

(* Mutant: only the annotations are updated. *)
MutantUpdateStatefulSet ==
    /\ At("update", "watch")
    /\ sts # None
    /\ sts' = [sts EXCEPT !.digest = merged(digest, sts.digest)]
    /\ UNCHANGED <<image, cm, pod, memory>>

UpdateStatefulSet ==
    /\ At("update", "watch")
    /\ sts # None
    /\ sts' = [sts EXCEPT !.template = deploy, !.partition = flags.partition,
                         !.digest = merged(digest, sts.digest)]
    /\ UNCHANGED <<image, cm, pod, memory>>

(* The dashboard verifies at every poll; watchK3sBargePods only refreshes a copy of
   the pod list. *)
Dashboard ==
    /\ pc = "watch"
    /\ VerifyImage
    /\ UNCHANGED <<image, cluster, pod, pc, flags, deploy, digest, token>>

(* The signal: with -k3s-cleanup the StatefulSet is deleted in the foreground, that is,
   marked; an error is ignored. Else everything stays. *)
Signal ==
    /\ pc = "watch" /\ Exit
    /\ sts' \in {sts} \cup IF flags.cleanup /\ sts # None THEN {[sts EXCEPT !.deleting = TRUE]} ELSE {}
    /\ UNCHANGED <<image, cm, pod>>

Crash ==
    /\ pc # "exited" /\ Exit
    /\ UNCHANGED <<image, cluster, pod>>

--------------------------------------------------------------------------------
(* External: the StatefulSet controller, kubelet, containerd, the registry. *)

(* The StatefulSet controller, with OrderedReady: it does nothing else while a pod that
   exists is not ready. *)
active == sts # None /\ ~sts.deleting

CreatePod(i) ==
    /\ active /\ pod[i] = None
    /\ \A j \in 0 .. i - 1 : j \in Ready
    /\ pod' = [pod EXCEPT ![i] = [template |-> IF i < sts.partition THEN sts.current ELSE sts.template,
                                  runs |-> None]]
    /\ UNCHANGED <<image, cluster, pc, flags, signing>>

RollPod(i) ==
    /\ active /\ i >= sts.partition /\ Ready = Ordinals
    /\ pod[i].template # sts.template
    /\ \A j \in Ordinals : j > i => pod[j].template = sts.template
    /\ pod' = [pod EXCEPT ![i] = None]
    /\ UNCHANGED <<image, cluster, pc, flags, signing>>

(* All pods have the template: it becomes the revision below the partition too. *)
CompleteRoll ==
    /\ active /\ sts.current # sts.template
    /\ \A i \in Ordinals : i \in Ready /\ pod[i].template = sts.template
    /\ sts' = [sts EXCEPT !.current = sts.template]
    /\ UNCHANGED <<image, cm, pod, pc, flags, signing>>

(* k3sImagePullPolicy: is the registry asked even when containerd has the reference? *)
k3sImagePullPolicy(ref) == IF ref = Tag /\ HubTag THEN "Always" ELSE "IfNotPresent"

(* kubelet pulls by that policy, which moves containerd's tag, and starts the container. *)
StartPod(i) ==
    /\ pod[i] # None /\ pod[i].runs = None
    /\ LET ref == pod[i].template
           pulled == IF k3sImagePullPolicy(ref) = "Always" \/ local = None THEN hubTag ELSE local
           runs == IF ref = Tag THEN pulled ELSE ref
       IN  /\ runs \in stored
           /\ pod' = [pod EXCEPT ![i] = [template |-> ref, runs |-> runs]]
           /\ local' = IF ref = Tag THEN runs ELSE local
    /\ UNCHANGED <<hubTag, stored, cluster, pc, flags, signing>>

(* Foreground deletion: the pods go, then the StatefulSet. *)
EndPod(i) ==
    /\ sts # None /\ sts.deleting /\ pod[i] # None
    /\ pod' = [pod EXCEPT ![i] = None]
    /\ UNCHANGED <<image, cluster, pc, flags, signing>>

Deleted ==
    /\ sts # None /\ sts.deleting /\ \A i \in Ordinals : pod[i] = None
    /\ sts' = None
    /\ UNCHANGED <<image, cm, pod, pc, flags, signing>>

(* Somebody pushes another image under the tag, changes the local one, or removes an
   image (kubelet, too, when the disk is full) that only containerd had. *)
Retag ==
    /\ \/ hubTag' \in Digests /\ stored' = stored \cup {hubTag'} /\ UNCHANGED local
       \/ local' \in Digests \cup {None} /\ stored' = stored \cup ({local'} \ {None}) /\ UNCHANGED hubTag
       \/ \E d \in stored \ {hubTag, local} : stored' = stored \ {d} /\ UNCHANGED <<hubTag, local>>
    /\ UNCHANGED <<cluster, pod, pc, flags, signing>>

--------------------------------------------------------------------------------
Reconcile ==
    \/ Publish \/ Prepare \/ Attest \/ Sign \/ Verify
    \/ EnsureConfigMap \/ GetStatefulSet \/ UpdateStatefulSet

Kubernetes == \/ \E i \in Ordinals : CreatePod(i) \/ RollPod(i) \/ StartPod(i) \/ EndPod(i)
              \/ CompleteRoll \/ Deleted

Next == \/ Start \/ Reconcile \/ Fatal \/ Dashboard \/ Signal \/ Crash
        \/ Kubernetes \/ Retag

Spec == Init /\ [][Next]_vars

(* Kubernetes keeps working; what the registry or the node has can be had. *)
FairSpec == Spec /\ WF_vars(Kubernetes)

--------------------------------------------------------------------------------
(* PROPERTIES *)

(* Once the controller has reconciled with a signed manifest, ConfigMap and
   StatefulSet carry that very manifest, and every pod that has the StatefulSet's
   template runs the signed digest: whatever is pushed or retagged meanwhile, and
   whatever earlier controllers left behind half-way. *)
SignedMeansRunning ==
    pc = "watch" /\ token # None /\ sts # None =>
        /\ cm.token = token
        /\ cm.digest = token.digest /\ sts.digest = token.digest
        /\ cm.image = sts.template
        /\ \A i \in Ready : pod[i].template = sts.template => pod[i].runs = token.digest

(* A controller that stays up gets its template rolled out: every pod becomes ready,
   and every pod the partition does not hold back has the template. This needs images
   that can be had (a digest that was only tagged locally cannot be pulled once it is
   gone, and a pod that waits for its image holds up every later roll), and a
   StatefulSet that stays: a controller that has updated one that was being deleted
   does not create it again. *)
pullable(ref) == ref = Tag \/ ref \in stored
AllPullable ==
    /\ pullable(sts.template) /\ pullable(sts.current)
    /\ \A i \in Ordinals : pod[i] # None => pullable(pod[i].template)
RollCompletes ==
    \A r \in References :
        <>[](pc = "watch" /\ deploy = r /\ sts # None /\ AllPullable) =>
            <>[](/\ Ready = Ordinals
                 /\ \A i \in Ordinals : i >= sts.partition => pod[i].template = r)
================================================================================
