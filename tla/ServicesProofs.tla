----------------------------- MODULE ServicesProofs -----------------------------
(* Theorems about the services for every value of their constants: any publishers,
   images and stack files, any vhost files and cutovers, any DNS files, snapshots and packs. *)
EXTENDS Services, FiniteSetTheorems, FunctionTheorems, WellFoundedInduction, TLAPS

(* Whichever service runs, a component takes its own steps or none. *)
LEMMA ComponentStep ==
    ASSUME [ServiceNext]_allVars
    PROVE  [Next]_vars /\ [Stack!Next]_stackVars /\ [VH!Next]_vhostVars /\ [DNS!Next]_dnsVars
  BY DEF ServiceNext, Run, allVars, vars, stackVars, vhostVars, dnsVars

--------------------------------------------------------------------------------
(* THE HUB *)

(* The steps at which a publisher has blob n[p] of its image before it ... *)
Sending == {"ctr_start", "ctr_patch", "ctr_chunk", "ctr_put", "post", "start", "put", "body", "commit"}

(* ... and those at which it has them all behind it. *)
Sent == {"manifest", "digest", "index", "save"}

(* Publishers are where a publisher can be. *)
PublisherType ==
    /\ pc \in [Publishers -> Steps]
    /\ n \in [Publishers -> Nat] /\ todo \in [Publishers -> SUBSET Images]
    /\ image \in [Publishers -> Images \cup {None}]
    /\ \A p \in Publishers : pc[p] \in Sending \cup Sent \cup {"pack"} => image[p] \in Images

(* Whatever is stored under a digest hashes to it. *)
BlobsMatch == \A d \in DOMAIN blobs : blobs[d] = <<d>>

(* Blobs before the n-th are stored, and all of them once the manifest is due. *)
Uploaded ==
    \A p \in Publishers :
        /\ pc[p] \in Sending =>
             \A i \in DOMAIN BlobsOf[image[p]] : i < n[p] => BlobsOf[image[p]][i] \in DOMAIN blobs
        /\ pc[p] \in Sent =>
             \A i \in DOMAIN BlobsOf[image[p]] : BlobsOf[image[p]][i] \in DOMAIN blobs

(* Manifests are those of images, with their blobs in the store. *)
ManifestsPull ==
    \A key \in DOMAIN manifests :
        /\ manifests[key] \in Images
        /\ \A i \in DOMAIN BlobsOf[manifests[key]] : BlobsOf[manifests[key]][i] \in DOMAIN blobs

(* The inductive invariant. A manifest is accepted without a look at its blobs, so
   PullsComplete rests on the order in which the publishers push (Uploaded), on
   the digest check (BlobsMatch), and on the store, which never drops a blob. *)
HubInv == PublisherType /\ BlobsMatch /\ Uploaded /\ ManifestsPull

LEMMA InitHubInv == Init => HubInv
  BY HubAssumption DEF Init, HubInv, PublisherType, BlobsMatch, Uploaded, ManifestsPull, Steps, Sending,
     Sent

(* Storing a blob that matches keeps what is stored. *)
LEMMA CommitKeeps ==
    ASSUME BlobsMatch, NEW d, NEW data, commitBlob(d, data)
    PROVE  BlobsMatch' /\ DOMAIN blobs' = DOMAIN blobs \cup {d}
  BY DEF BlobsMatch, commitBlob, Put

(* A publisher's step that stores at most the blob it has before it. *)
LEMMA BlobStep ==
    ASSUME HubInv, NEW p \in Publishers, pc[p] \in Sending, commitBlob(Blob(p), <<Blob(p)>>),
           NEW l \in Sending, NextBlob(p, l), UNCHANGED <<manifests, todo, image>>
    PROVE  HubInv'
<1> USE DEF HubInv
<1>1. BlobsMatch' /\ DOMAIN blobs' = DOMAIN blobs \cup {Blob(p)}
  BY CommitKeeps
<1>2. BlobsOf[image[p]] \in Seq(Blobs) /\ image[p] \in Images /\ n[p] \in Nat
  BY HubAssumption DEF PublisherType
<1>3. PublisherType'
  <2>1. n' \in [Publishers -> Nat]
    BY <1>2 DEF PublisherType, NextBlob
  <2>2. pc' = [pc EXCEPT ![p] = "manifest"] \/ pc' = [pc EXCEPT ![p] = l]
    BY DEF NextBlob, Goto
  <2>3. pc' \in [Publishers -> Steps] /\ \A q \in Publishers \ {p} : pc'[q] = pc[q]
    BY <2>2 DEF PublisherType, Sending, Steps
  <2> QED BY <1>2, <2>1, <2>3 DEF PublisherType
<1>4. Uploaded'
  <2> SUFFICES ASSUME NEW q \in Publishers PROVE Uploaded!(q)'
    BY DEF Uploaded
  <2>1. CASE q # p
    BY <1>1, <1>3, <2>1 DEF Uploaded, PublisherType, NextBlob, Goto
  <2>2. CASE q = p /\ n[p] = Len(BlobsOf[image[p]])
    <3>1. pc'[p] = "manifest" /\ pc'[p] \notin Sending
      BY <2>2 DEF NextBlob, Goto, PublisherType, Sending
    <3>2. \A i \in DOMAIN BlobsOf[image[p]] : i < n[p] \/ i = n[p]
      BY <1>2, <2>2
    <3>3. \A i \in DOMAIN BlobsOf[image[p]] : BlobsOf[image[p]][i] \in DOMAIN blobs'
      BY <1>1, <3>2 DEF Uploaded, Blob
    <3> QED BY <2>2, <3>1, <3>3
  <2>3. CASE q = p /\ n[p] # Len(BlobsOf[image[p]])
    <3>1. pc'[p] = l /\ pc'[p] \notin Sent /\ n'[p] = n[p] + 1
      BY <2>3 DEF NextBlob, Goto, PublisherType, Sent, Sending
    <3>2. \A i \in DOMAIN BlobsOf[image[p]] : i < n[p] + 1 => i < n[p] \/ i = n[p]
      BY <1>2
    <3>3. \A i \in DOMAIN BlobsOf[image[p]] : i < n[p] + 1 => BlobsOf[image[p]][i] \in DOMAIN blobs'
      BY <1>1, <3>2 DEF Uploaded, Blob
    <3> QED BY <2>3, <3>1, <3>3
  <2> QED BY <2>1, <2>2, <2>3
<1>5. ManifestsPull'
  BY <1>1 DEF ManifestsPull
<1> QED BY <1>1, <1>3, <1>4, <1>5

(* A step that stores nothing and moves one publisher on: to a step at which it has
   nothing to send, within the sending steps or the sent ones, or to the first
   blob of an image. *)
LEMMA MoveStep ==
    ASSUME HubInv, NEW p \in Publishers, NEW l \in Steps, Goto(p, l), UNCHANGED <<blobs, manifests>>,
           n' \in [Publishers -> Nat], todo' \in [Publishers -> SUBSET Images],
           image' \in [Publishers -> Images \cup {None}],
           \A q \in Publishers \ {p} : n'[q] = n[q] /\ image'[q] = image[q],
           \/ l \notin Sending \cup Sent /\ (l = "pack" => image'[p] \in Images)
           \/ l \in Sending /\ pc[p] \in Sending /\ n'[p] = n[p] /\ image'[p] = image[p]
           \/ l \in Sent /\ pc[p] \in Sent /\ image'[p] = image[p]
           \/ l \in Sending /\ n'[p] = 1 /\ image'[p] \in Images
    PROVE  HubInv'
<1>0. PublisherType /\ BlobsMatch /\ Uploaded /\ ManifestsPull
  BY DEF HubInv
<1>1. /\ pc' \in [Publishers -> Steps] /\ pc'[p] = l
      /\ \A q \in Publishers \ {p} : pc'[q] = pc[q]
  BY <1>0 DEF Goto, PublisherType
<1>2. Sending \cap Sent = {}
  BY DEF Sending, Sent
<1>3. PublisherType'
  BY <1>0, <1>1 DEF PublisherType
<1>4. Uploaded'
  <2> SUFFICES ASSUME NEW q \in Publishers PROVE Uploaded!(q)'
    BY DEF Uploaded
  <2>1. CASE q # p
    BY <1>0, <1>1, <2>1 DEF Uploaded
  <2>2. CASE q = p /\ l \in Sending /\ n'[p] = 1 /\ image'[p] \in Images
    <3>1. \A i \in DOMAIN BlobsOf[image'[p]] : ~ (i < 1)
      BY <2>2, HubAssumption
    <3> QED BY <1>1, <1>2, <2>2, <3>1
  <2>3. CASE q = p /\ ~ (l \in Sending /\ n'[p] = 1 /\ image'[p] \in Images)
    BY <1>0, <1>1, <1>2, <2>3 DEF Uploaded
  <2> QED BY <2>1, <2>2, <2>3
<1>5. BlobsMatch' /\ ManifestsPull'
  BY <1>0 DEF BlobsMatch, ManifestsPull
<1> QED BY <1>3, <1>4, <1>5 DEF HubInv

(* Publishers that give up start with the first blob again, pack, or have failed. *)
GaveUp == {"ctr_start", "pack", "failed"}

LEMMA GiveUpMoves ==
    ASSUME PublisherType, NEW S \in SUBSET Publishers, GiveUp(S)
    PROVE  /\ pc' \in [Publishers -> Steps] /\ n' \in [Publishers -> Nat]
           /\ \A q \in Publishers \ S : pc'[q] = pc[q] /\ n'[q] = n[q]
           /\ \A q \in S : pc'[q] \in GaveUp /\ n'[q] = 1
<1>1. /\ DOMAIN pc' = Publishers
      /\ \A q \in Publishers \ S : pc'[q] = pc[q]
      /\ \A q \in S : pc'[q] \in GaveUp
  BY DEF GiveUp, GaveUp
<1>2. pc' = [q \in Publishers |-> pc'[q]]
  BY DEF GiveUp
<1>3. \A q \in Publishers : pc'[q] \in Steps
  BY <1>1 DEF GaveUp, Steps, PublisherType
<1>4. /\ n' \in [Publishers -> Nat]
      /\ \A q \in Publishers \ S : n'[q] = n[q]
      /\ \A q \in S : n'[q] = 1
  BY DEF GiveUp, PublisherType
<1> QED BY <1>1, <1>2, <1>3, <1>4

LEMMA GiveUpStep ==
    ASSUME HubInv, NEW S \in SUBSET Publishers, GiveUp(S), UNCHANGED <<blobs, todo, image>>,
           \A q \in S : pc[q] \in Sending \cup Sent, ManifestsPull'
    PROVE  HubInv'
<1>0. PublisherType /\ BlobsMatch /\ Uploaded
  BY DEF HubInv
<1>1. /\ pc' \in [Publishers -> Steps] /\ n' \in [Publishers -> Nat]
      /\ \A q \in Publishers \ S : pc'[q] = pc[q] /\ n'[q] = n[q]
      /\ \A q \in S : pc'[q] \in GaveUp /\ n'[q] = 1
  BY <1>0, GiveUpMoves
<1>2. GaveUp \cap Sent = {}
  BY DEF GaveUp, Sent
<1>3. PublisherType'
  BY <1>0, <1>1 DEF PublisherType
<1>4. Uploaded'
  <2> SUFFICES ASSUME NEW q \in Publishers PROVE Uploaded!(q)'
    BY DEF Uploaded
  <2>1. CASE q \notin S
    BY <1>0, <1>1, <2>1 DEF Uploaded
  <2>2. CASE q \in S
    <3>1. image[q] \in Images /\ \A i \in DOMAIN BlobsOf[image[q]] : ~ (i < 1)
      BY <1>0, <2>2, HubAssumption DEF PublisherType
    <3> QED BY <1>1, <1>2, <2>2, <3>1
  <2> QED BY <2>1, <2>2
<1>5. BlobsMatch'
  BY <1>0 DEF BlobsMatch
<1> QED BY <1>3, <1>4, <1>5 DEF HubInv

(* A manifest is stored once all its blobs are. *)
LEMMA ManifestPulls ==
    ASSUME HubInv, NEW p \in Publishers, pc[p] \in Sent, NEW key,
           manifests' = Put(manifests, key, image[p]), UNCHANGED blobs
    PROVE  ManifestsPull'
<1>1. image[p] \in Images /\ \A i \in DOMAIN BlobsOf[image[p]] : BlobsOf[image[p]][i] \in DOMAIN blobs
  BY DEF HubInv, Uploaded, PublisherType
<1> QED BY <1>1 DEF HubInv, ManifestsPull, Put

LEMMA ManifestStep ==
    ASSUME HubInv, NEW p \in Publishers, pc[p] \in Sent, NEW key, NEW l \in Sent,
           manifests' = Put(manifests, key, image[p]), Goto(p, l), UNCHANGED <<blobs, todo, n, image>>
    PROVE  HubInv'
<1>0. PublisherType /\ BlobsMatch /\ Uploaded /\ ManifestsPull
  BY DEF HubInv
<1>1. /\ pc' \in [Publishers -> Steps] /\ pc'[p] = l
      /\ \A q \in Publishers \ {p} : pc'[q] = pc[q]
  BY <1>0 DEF Goto, PublisherType, Sent, Steps
<1>2. l \notin Sending
  BY DEF Sending, Sent
<1>3. image[p] \in Images /\ \A i \in DOMAIN BlobsOf[image[p]] : BlobsOf[image[p]][i] \in DOMAIN blobs
  BY <1>0 DEF Uploaded, PublisherType
<1>4. PublisherType'
  BY <1>0, <1>1, <1>3 DEF PublisherType
<1>5. Uploaded'
  <2> SUFFICES ASSUME NEW q \in Publishers PROVE Uploaded!(q)'
    BY DEF Uploaded
  <2> QED BY <1>0, <1>1, <1>2, <1>3 DEF Uploaded
<1>6. ManifestsPull'
  BY <1>0, ManifestPulls
<1>7. BlobsMatch'
  BY <1>0 DEF BlobsMatch
<1> QED BY <1>4, <1>5, <1>6, <1>7 DEF HubInv

(* The publisher's own steps: the next product, packing, the end of a product. *)
LEMMA ProductStep ==
    ASSUME HubInv, NEW p \in Publishers, NextProduct(p) \/ Pack(p) \/ EndProduct(p) PROVE HubInv'
<1>0. PublisherType
  BY DEF HubInv
<1>1. CASE NextProduct(p)
  <2>1. /\ UNCHANGED <<blobs, manifests>> /\ n' \in [Publishers -> Nat] /\ n'[p] = 1
        /\ \A q \in Publishers \ {p} : n'[q] = n[q]
        /\ todo[p] \subseteq Images /\ todo' \in [Publishers -> SUBSET Images]
    BY <1>0, <1>1 DEF NextProduct, store, PublisherType
  <2>2. CASE UNCHANGED image /\ Goto(p, "exit")
    BY <1>0, <2>1, <2>2, MoveStep DEF Steps, Sending, Sent, PublisherType
  <2>3. ASSUME NEW m \in todo[p], image' = [image EXCEPT ![p] = m],
               NEW l \in {"ctr_start"}, Goto(p, l)
        PROVE  HubInv'
    <3>1. /\ image' \in [Publishers -> Images \cup {None}] /\ image'[p] \in Images
          /\ \A q \in Publishers \ {p} : image'[q] = image[q]
      BY <1>0, <2>1, <2>3 DEF PublisherType
    <3>2. l \in Steps /\ (l \in Sending \/ l \notin Sending \cup Sent)
      BY DEF Steps, Sending, Sent
    <3> QED BY <2>1, <2>3, <3>1, <3>2, MoveStep
  <2> QED BY <1>1, <2>2, <2>3 DEF NextProduct
<1>2. CASE Pack(p)
  <2>1. /\ UNCHANGED <<blobs, manifests, image>> /\ n' \in [Publishers -> Nat] /\ n'[p] = 1
        /\ \A q \in Publishers \ {p} : n'[q] = n[q]
        /\ todo' \in [Publishers -> SUBSET Images]
        /\ image[p] \in Images /\ image \in [Publishers -> Images \cup {None}]
    BY <1>0, <1>2 DEF Pack, Keep, store, PublisherType
  <2>2. "post" \in Steps /\ "post" \in Sending /\ "failed" \in Steps /\ "failed" \notin Sending \cup Sent
    BY DEF Steps, Sending, Sent
  <2>3. CASE Goto(p, "post")
    BY <2>1, <2>2, <2>3, MoveStep
  <2>4. CASE Goto(p, "failed")
    BY <2>1, <2>2, <2>4, MoveStep
  <2> QED BY <1>2, <2>3, <2>4 DEF Pack
<1>3. CASE EndProduct(p)
  <2>1. "next" \in Steps /\ "next" \notin Sending \cup Sent \cup {"pack"}
    BY DEF Steps, Sending, Sent
  <2> QED BY <1>0, <1>3, <2>1, MoveStep DEF EndProduct, store, PublisherType
<1> QED BY <1>1, <1>2, <1>3

(* The requests of both clients that store nothing. *)
LEMMA RequestStep ==
    ASSUME HubInv, NEW p \in Publishers, pc[p] \in Sending \cup Sent,
           NEW l \in Steps, Goto(p, l), UNCHANGED <<blobs, manifests, todo, image, n>>,
           \/ l \in {"pack", "failed", "pushed"}
           \/ l \in Sending /\ pc[p] \in Sending
           \/ l \in Sent /\ pc[p] \in Sent
    PROVE  HubInv'
<1>1. {"pack", "failed", "pushed"} \cap (Sending \cup Sent) = {}
  BY DEF Sending, Sent
<1>2. image[p] \in Images
  BY DEF HubInv, PublisherType
<1> QED BY <1>1, <1>2, MoveStep DEF HubInv, PublisherType

LEMMA StepKeeps ==
    ASSUME HubInv, NEW p \in Publishers, Step(p) \/ Lost(p) PROVE HubInv'
<1> USE DEF Keep, store
<1>1. CASE NextProduct(p) \/ Pack(p) \/ EndProduct(p)
  BY <1>1, ProductStep
<1>2. CASE StartUpload(p) \/ PatchAppend(p) \/ PutLock(p) \/ ReadBody(p)
  <2>1. /\ pc[p] \in Sending /\ UNCHANGED <<blobs, manifests, todo, image, n>>
        /\ \E l \in Sending \cup {"failed"} : Goto(p, l)
    BY <1>2 DEF StartUpload, PatchAppend, PutLock, ReadBody, Sending
  <2>2. Sending \cup {"failed"} \subseteq Steps
    BY DEF Sending, Steps
  <2> QED BY <2>1, <2>2, RequestStep
<1>3. CASE PatchLookup(p) \/ Lost(p)
  <2>1. /\ pc[p] \in Sending /\ UNCHANGED <<blobs, manifests, todo, image>>
        /\ GiveUp({p}) \/ (Goto(p, "ctr_chunk") /\ UNCHANGED n)
    BY <1>3 DEF PatchLookup, Lost, Sending
  <2>2. "ctr_chunk" \in Sending /\ "ctr_chunk" \in Steps
    BY DEF Sending, Steps
  <2>3. ManifestsPull'
    BY <2>1 DEF HubInv, ManifestsPull
  <2> QED BY <2>1, <2>2, <2>3, RequestStep, GiveUpStep
<1>4. ASSUME PostBlob(p) \/ CompleteUpload(p) \/ Commit(p) PROVE HubInv'
  <2>1. pc[p] \in Sending /\ UNCHANGED <<manifests, todo, image>>
    BY <1>4 DEF PostBlob, CompleteUpload, Commit, Sending
  <2>2. \/ \E l \in Sending : commitBlob(Blob(p), <<Blob(p)>>) /\ NextBlob(p, l)
        \/ UNCHANGED <<blobs, n>> /\ \E l \in Sending : Goto(p, l)
        \/ UNCHANGED blobs /\ GiveUp({p})
    BY <1>4 DEF PostBlob, CompleteUpload, Commit, commitBlob, Sending
  <2>3. Sending \subseteq Steps
    BY DEF Sending, Steps
  <2>4. UNCHANGED blobs => ManifestsPull'
    BY <2>1 DEF HubInv, ManifestsPull
  <2> QED BY <2>1, <2>2, <2>3, <2>4, BlobStep, RequestStep, GiveUpStep
<1>5. CASE PutManifest(p) \/ PutDigest(p)
  <2>1. pc[p] \in Sent /\ UNCHANGED <<blobs, todo, image>>
    BY <1>5 DEF PutManifest, PutDigest, Sent
  <2>2. /\ \E key : manifests' = Put(manifests, key, image[p]) \/ UNCHANGED manifests
        /\ GiveUp({p}) \/ (UNCHANGED n /\ \E l \in Sent : Goto(p, l))
    BY <1>5 DEF PutManifest, PutDigest, Sent
  <2>3. Sent \subseteq Steps
    BY DEF Sent, Steps
  <2>4. ManifestsPull'
    BY <2>1, <2>2, ManifestPulls DEF HubInv, ManifestsPull
  <2> QED BY <2>1, <2>2, <2>3, <2>4, ManifestStep, RequestStep, GiveUpStep
<1>6. CASE ReadTags(p) \/ WriteTags(p)
  <2>1. /\ pc[p] \in Sent /\ UNCHANGED <<blobs, manifests, todo, image, n>>
        /\ Goto(p, "save") \/ Goto(p, "pushed")
    BY <1>6 DEF ReadTags, WriteTags, Sent
  <2>2. "save" \in Sent /\ {"save", "pushed"} \subseteq Steps
    BY DEF Sent, Steps
  <2> QED BY <2>1, <2>2, RequestStep
<1> QED BY <1>1, <1>2, <1>3, <1>4, <1>5, <1>6 DEF Step

(* A restart takes publishers out of the requests being served, no further. *)
LEMMA RestartStep == ASSUME HubInv, Restart PROVE HubInv'
<1> DEFINE S == {p \in Publishers : pc[p] \in {"ctr_chunk", "body", "commit", "digest", "index", "save"}}
<1>1. GiveUp(S) /\ UNCHANGED <<blobs, manifests, todo, image>>
  BY DEF Restart, Keep, store
<1>2. \A p \in S : pc[p] \in Sending \cup Sent
  BY DEF Sending, Sent
<1>3. ManifestsPull'
  BY <1>1 DEF HubInv, ManifestsPull
<1> HIDE DEF S
<1>4. S \in SUBSET Publishers
  BY DEF S
<1> QED BY <1>1, <1>2, <1>3, <1>4, GiveUpStep

LEMMA HubInvStep == HubInv /\ [Next]_vars => HubInv'
<1>1. ASSUME HubInv, UNCHANGED vars PROVE HubInv'
  BY <1>1 DEF vars, store, HubInv, PublisherType, BlobsMatch, Uploaded, ManifestsPull
<1> QED BY <1>1, StepKeeps, RestartStep DEF Next

LEMMA HubInvariant == Spec => []HubInv
  BY InitHubInv, HubInvStep, PTL DEF Spec

(* Every image that can be pulled, by tag or by digest, is complete and intact:
   the hub never checks that the blobs of a manifest are there, and repeats, cut
   bodies, failures of the store and restarts are all possible. *)
THEOREM HubPullsComplete == Spec => []PullsComplete
<1>1. HubInv => PullsComplete
  BY DEF HubInv, BlobsMatch, ManifestsPull, PullsComplete, pullManifest, pullBlob
<1> QED BY <1>1, HubInvariant, PTL

--------------------------------------------------------------------------------
(* Type correctness. What a publisher sends is a blob of its image only while n is
   an index of it, a body is appended to a session only while there is one, and a
   product that has failed is one that was being pushed. *)
HubType ==
    /\ TypeOK
    /\ \A p \in Publishers :
         /\ pc[p] \in Sending => n[p] \in DOMAIN BlobsOf[image[p]]
         /\ pc[p] = "failed" => image[p] \in Images
         /\ mu = p => pc[p] = "body" /\ upload[p] # None

StoreType ==
    /\ DOMAIN blobs \subseteq Blobs
    /\ manifests \in [DOMAIN manifests -> Images] /\ DOMAIN manifests \subseteq Tags \cup Images
    /\ tags \subseteq Tags

(* A step of one publisher: what has to be shown of it. *)
LEMMA HubTypeOf ==
    ASSUME HubType, HubInv', NEW p \in Publishers, StoreType',
           upload' \in [Publishers -> Seq(Blobs) \cup {None}], mu' \in {mu, p, None},
           failed' \in [Publishers -> SUBSET Images], listed' \in [Publishers -> SUBSET Tags],
           left' \in [Publishers -> 0 .. LocalNames],
           \A q \in Publishers \ {p} :
               pc'[q] = pc[q] /\ n'[q] = n[q] /\ image'[q] = image[q] /\ upload'[q] = upload[q],
           pc'[p] \in Sending => n'[p] \in DOMAIN BlobsOf[image'[p]],
           pc'[p] = "failed" => image'[p] \in Images,
           mu' = p => pc'[p] = "body" /\ upload'[p] # None
    PROVE  HubType'
<1>1. TypeOK'
  BY DEF HubType, TypeOK, StoreType, HubInv, PublisherType
<1>2. ASSUME NEW q \in Publishers
      PROVE  /\ pc'[q] \in Sending => n'[q] \in DOMAIN BlobsOf[image'[q]]
             /\ pc'[q] = "failed" => image'[q] \in Images
             /\ mu' = q => pc'[q] = "body" /\ upload'[q] # None
  <2>1. CASE q = p
    BY <2>1
  <2>2. CASE q # p
    <3>1. /\ pc'[q] = pc[q] /\ n'[q] = n[q] /\ image'[q] = image[q] /\ upload'[q] = upload[q]
          /\ mu' = q => mu = q
      BY <2>2, HubAssumption
    <3> QED BY <3>1 DEF HubType
  <2> QED BY <2>1, <2>2
<1> QED BY <1>1, <1>2 DEF HubType

(* The same for a step that leaves the store, the sessions and the list alone. *)
LEMMA HubTypeMove ==
    ASSUME HubType, HubInv, HubInv', NEW p \in Publishers, mu # p,
           UNCHANGED <<blobs, manifests, tags, upload, mu, listed>>,
           failed' \in [Publishers -> SUBSET Images], left' \in [Publishers -> 0 .. LocalNames],
           \A q \in Publishers \ {p} : pc'[q] = pc[q] /\ n'[q] = n[q] /\ image'[q] = image[q],
           pc'[p] \in Sending => n'[p] \in DOMAIN BlobsOf[image'[p]],
           pc'[p] = "failed" => image'[p] \in Images
    PROVE  HubType'
<1>1. StoreType'
  BY DEF HubType, TypeOK, StoreType
<1> QED BY <1>1, HubTypeOf DEF HubType, TypeOK

(* The local names left only go down while a product is pushed. *)
LEMMA LeftStep ==
    ASSUME left \in [Publishers -> 0 .. LocalNames], [Next]_vars
    PROVE  left' \in [Publishers -> 0 .. LocalNames]
<1>0. LocalNames \in Nat
  BY HubAssumption
<1>1. ASSUME NEW S, GiveUp(S) PROVE left' \in [Publishers -> 0 .. LocalNames]
  <2>1. left' = [p \in Publishers |-> IF p \in S /\ left[p] > 0 THEN left[p] - 1 ELSE left[p]]
    BY <1>1 DEF GiveUp
  <2> QED BY <1>0, <2>1
<1>2. ASSUME NEW p \in Publishers, Step(p) \/ Lost(p)
      PROVE  \/ left' = left \/ left' = [left EXCEPT ![p] = LocalNames] \/ GiveUp({p})
  BY <1>2 DEF Step, Lost, NextProduct, Pack, PostBlob, StartUpload, PatchLookup, PatchAppend,
     CompleteUpload, PutLock, ReadBody, Commit, PutManifest, PutDigest, ReadTags, WriteTags, EndProduct,
     Keep, NextBlob
<1>3. ASSUME NEW p \in Publishers, left' = [left EXCEPT ![p] = LocalNames]
      PROVE  left' \in [Publishers -> 0 .. LocalNames]
  BY <1>0, <1>3
<1>4. ASSUME Restart PROVE left' \in [Publishers -> 0 .. LocalNames]
  BY <1>1, <1>4 DEF Restart
<1>5. ASSUME UNCHANGED vars PROVE left' \in [Publishers -> 0 .. LocalNames]
  BY <1>5 DEF vars
<1> QED BY <1>1, <1>2, <1>3, <1>4, <1>5 DEF Next

LEMMA HubTypeStep ==
    ASSUME HubInv, HubType, NEW p \in Publishers, Step(p) \/ Lost(p), HubInv'
    PROVE  HubType'
<1> USE DEF store, Keep, Goto
<1>l. left' \in [Publishers -> 0 .. LocalNames]
  BY LeftStep DEF HubType, TypeOK, Next
<1>0. /\ PublisherType /\ PublisherType' /\ TypeOK /\ StoreType
      /\ pc[p] \in Sending => n[p] \in DOMAIN BlobsOf[image[p]] /\ image[p] \in Images
      /\ pc[p] \in Sent \cup {"pack", "failed"} => image[p] \in Images
      /\ mu = p => pc[p] = "body" /\ upload[p] # None
  BY DEF HubInv, HubType, PublisherType, StoreType, TypeOK
<1>1. ASSUME pc[p] \in Sending PROVE Blob(p) \in Blobs
  BY <1>0, <1>1, HubAssumption DEF Blob
<1>g. ASSUME GiveUp({p}), pc[p] \in Sending \cup Sent, UNCHANGED image
      PROVE  /\ \A q \in Publishers \ {p} : pc'[q] = pc[q] /\ n'[q] = n[q]
             /\ image[p] \in Images /\ n'[p] \in DOMAIN BlobsOf[image[p]]
             /\ pc'[p] \in GaveUp
  <2>1. n'[p] = 1 /\ pc'[p] \in GaveUp /\ \A q \in Publishers \ {p} : pc'[q] = pc[q] /\ n'[q] = n[q]
    BY <1>0, <1>g, GiveUpMoves
  <2> QED BY <1>0, <1>g, <2>1, HubAssumption
<1>2. CASE NextProduct(p)
  <2>1. pc'[p] = "ctr_start" => n'[p] = 1 /\ image'[p] \in Images
    BY <1>0, <1>2 DEF NextProduct, PublisherType
  <2>2. pc'[p] \in {"ctr_start", "exit"}
    BY <1>0, <1>2 DEF NextProduct, PublisherType
  <2>3. pc'[p] \in Sending => n'[p] \in DOMAIN BlobsOf[image'[p]]
    BY <2>1, <2>2, HubAssumption DEF Sending
  <2>4. mu # p
    BY <1>0, <1>2 DEF NextProduct
  <2>5. \A q \in Publishers \ {p} : pc'[q] = pc[q] /\ n'[q] = n[q] /\ image'[q] = image[q]
    BY <1>0, <1>2 DEF NextProduct, PublisherType
  <2> QED BY <1>0, <1>2, <2>2, <2>3, <2>4, <2>5, <1>l, HubTypeMove DEF NextProduct, TypeOK
<1>3. CASE Pack(p)
  <2>1. /\ pc[p] = "pack" /\ pc'[p] \in {"post", "failed"} /\ n'[p] = 1 /\ image' = image
        /\ \A q \in Publishers \ {p} : pc'[q] = pc[q] /\ n'[q] = n[q]
    BY <1>0, <1>3 DEF Pack, PublisherType
  <2>2. image[p] \in Images /\ 1 \in DOMAIN BlobsOf[image[p]]
    BY <1>0, <2>1, HubAssumption
  <2> QED BY <1>0, <1>3, <2>1, <2>2, <1>l, HubTypeMove DEF Pack, TypeOK
<1>4. CASE EndProduct(p)
  <2>1. /\ pc[p] \in {"pushed", "failed"} /\ pc'[p] = "next"
        /\ \A q \in Publishers \ {p} : pc'[q] = pc[q]
    BY <1>0, <1>4 DEF EndProduct, PublisherType
  <2>2. failed' \in [Publishers -> SUBSET Images]
    BY <1>0, <1>4 DEF EndProduct, TypeOK
  <2>3. "next" \notin Sending
    BY DEF Sending
  <2> QED BY <1>0, <1>4, <2>1, <2>2, <2>3, <1>l, HubTypeMove DEF EndProduct
<1>5. CASE PatchLookup(p) \/ Lost(p)
  <2>1. /\ pc[p] \in Sending /\ pc[p] # "body"
        /\ GiveUp({p}) \/ (UNCHANGED n /\ Goto(p, "ctr_chunk"))
        /\ UNCHANGED <<blobs, manifests, tags, upload, mu, listed, image, failed>>
    BY <1>5 DEF PatchLookup, Lost, Sending
  <2>2. /\ \A q \in Publishers \ {p} : pc'[q] = pc[q] /\ n'[q] = n[q]
        /\ n'[p] \in DOMAIN BlobsOf[image[p]] /\ image[p] \in Images
    BY <1>0, <1>g, <2>1 DEF PublisherType
  <2> QED BY <1>0, <2>1, <2>2, <1>l, HubTypeMove DEF TypeOK
<1>6. CASE StartUpload(p) \/ PatchAppend(p) \/ PutLock(p) \/ ReadBody(p)
  <2>1. /\ pc[p] \in Sending
        /\ \A q \in Publishers \ {p} : pc'[q] = pc[q] /\ upload'[q] = upload[q]
        /\ UNCHANGED <<blobs, manifests, tags, listed, n, image, failed>>
    BY <1>0, <1>6 DEF StartUpload, PatchAppend, PutLock, ReadBody, PublisherType, Sending, TypeOK
  <2>2. Blob(p) \in Blobs
    BY <1>1, <2>1
  <2>3. upload' \in [Publishers -> Seq(Blobs) \cup {None}]
    <3>1. ASSUME NEW u \in Seq(Blobs) PROVE Append(u, Blob(p)) \in Seq(Blobs) /\ u \o <<Blob(p)>> \in Seq(Blobs)
                                            /\ u \o <<>> \in Seq(Blobs)
      BY <2>2
    <3>2. <<>> \in Seq(Blobs) /\ <<Blob(p)>> \in Seq(Blobs)
      BY <2>2
    <3>3. upload[p] # None => upload[p] \in Seq(Blobs)
      BY <1>0 DEF TypeOK
    <3>4. \E u \in Seq(Blobs) \cup {None} : upload' = [upload EXCEPT ![p] = u]
      <4>1. CASE StartUpload(p)
        BY <3>2, <4>1 DEF StartUpload
      <4>2. CASE PatchAppend(p)
        BY <1>0, <3>1, <3>3, <4>2 DEF PatchAppend, TypeOK
      <4>3. CASE PutLock(p)
        BY <1>0, <4>3 DEF PutLock, TypeOK
      <4>4. CASE ReadBody(p)
        BY <1>0, <3>1, <3>2, <3>3, <4>4 DEF ReadBody, TypeOK
      <4> QED BY <1>6, <4>1, <4>2, <4>3, <4>4
    <3> QED BY <1>0, <3>4 DEF TypeOK
  <2>4. mu' \in {mu, p, None} /\ (mu' = p => pc'[p] = "body" /\ upload'[p] # None)
    BY <1>0, <1>6, HubAssumption DEF StartUpload, PatchAppend, PutLock, ReadBody, PublisherType, TypeOK
  <2>5. StoreType'
    BY <1>0, <2>1 DEF StoreType
  <2> QED BY <1>0, <2>1, <2>3, <2>4, <2>5, <1>l, HubTypeOf DEF TypeOK
<1>7. CASE PostBlob(p) \/ CompleteUpload(p) \/ Commit(p)
  <2>1. /\ pc[p] \in Sending /\ pc[p] # "body"
        /\ upload' \in {upload, [upload EXCEPT ![p] = None]}
        /\ UNCHANGED <<manifests, tags, mu, listed, image, failed>>
    BY <1>7 DEF PostBlob, CompleteUpload, Commit, Sending
  <2>2. \/ \E l \in Sending : commitBlob(Blob(p), <<Blob(p)>>) /\ NextBlob(p, l)
        \/ UNCHANGED <<blobs, n>> /\ \E l \in Sending : Goto(p, l)
        \/ UNCHANGED blobs /\ GiveUp({p})
    BY <1>7 DEF PostBlob, CompleteUpload, Commit, commitBlob, Sending
  <2>3. DOMAIN blobs' \subseteq Blobs
    BY <1>0, <1>1, <2>1, <2>2 DEF commitBlob, Put, TypeOK
  <2>4. \A q \in Publishers \ {p} : pc'[q] = pc[q] /\ n'[q] = n[q]
    BY <1>0, <1>g, <2>1, <2>2 DEF NextBlob, PublisherType
  <2>5. pc'[p] \in Sending => n'[p] \in DOMAIN BlobsOf[image[p]]
    <3>1. CASE \E l \in Sending : NextBlob(p, l)
      <4>1. n[p] # Len(BlobsOf[image[p]]) => n[p] + 1 \in DOMAIN BlobsOf[image[p]]
        BY <1>0, <2>1, HubAssumption
      <4>2. pc'[p] \in Sending => n[p] # Len(BlobsOf[image[p]]) /\ n'[p] = n[p] + 1
        BY <1>0, <3>1 DEF NextBlob, PublisherType, Sending
      <4> QED BY <4>1, <4>2
    <3>2. CASE UNCHANGED n
      BY <1>0, <2>1, <3>2
    <3>3. CASE GiveUp({p})
      BY <1>g, <2>1, <3>3
    <3> QED BY <2>2, <3>1, <3>2, <3>3
  <2>6. StoreType' /\ upload' \in [Publishers -> Seq(Blobs) \cup {None}]
        /\ \A q \in Publishers \ {p} : upload'[q] = upload[q]
    BY <1>0, <2>1, <2>3 DEF StoreType, TypeOK
  <2> QED BY <1>0, <2>1, <2>4, <2>5, <2>6, <1>l, HubTypeOf DEF TypeOK
<1>8. CASE PutManifest(p) \/ PutDigest(p) \/ ReadTags(p) \/ WriteTags(p)
  <2>1. /\ pc[p] \in Sent /\ pc[p] # "body"
        /\ GiveUp({p}) \/ (UNCHANGED n /\ \E l \in Sent \cup {"pushed"} : Goto(p, l))
        /\ UNCHANGED <<blobs, upload, mu, image, failed>>
    BY <1>8 DEF PutManifest, PutDigest, ReadTags, WriteTags, Sent
  <2>2. /\ image[p] \in Images /\ TagOf[image[p]] \in Tags
        /\ \A q \in Publishers \ {p} : pc'[q] = pc[q] /\ n'[q] = n[q]
        /\ pc'[p] \in Sending => n'[p] \in DOMAIN BlobsOf[image[p]]
    <3>1. CASE GiveUp({p})
      BY <1>g, <2>1, <3>1, HubAssumption
    <3>2. CASE UNCHANGED n /\ \E l \in Sent \cup {"pushed"} : Goto(p, l)
      BY <1>0, <2>1, <3>2, HubAssumption DEF Sent, Sending, PublisherType
    <3> QED BY <2>1, <3>1, <3>2
  <2>3. manifests' \in [DOMAIN manifests' -> Images] /\ DOMAIN manifests' \subseteq Tags \cup Images
    BY <1>0, <1>8, <2>2 DEF PutManifest, PutDigest, ReadTags, WriteTags, Put, StoreType
  <2>4. tags' \subseteq Tags /\ listed' \in [Publishers -> SUBSET Tags]
    <3>1. CASE PutManifest(p) \/ PutDigest(p)
      BY <1>0, <3>1 DEF PutManifest, PutDigest, TypeOK
    <3>2. CASE ReadTags(p)
      BY <1>0, <3>2 DEF ReadTags, TypeOK
    <3>3. CASE WriteTags(p)
      BY <1>0, <2>2, <3>3 DEF WriteTags, TypeOK
    <3> QED BY <1>8, <3>1, <3>2, <3>3
  <2>5. StoreType'
    BY <1>0, <2>1, <2>3, <2>4 DEF StoreType
  <2> QED BY <1>0, <2>1, <2>2, <2>4, <2>5, <1>l, HubTypeOf DEF TypeOK
<1> QED BY <1>2, <1>3, <1>4, <1>5, <1>6, <1>7, <1>8 DEF Step

LEMMA HubTypeNext == HubInv /\ HubType /\ [Next]_vars => HubType'
<1>1. ASSUME HubInv, HubType, Restart PROVE HubType'
  <2> DEFINE S == {p \in Publishers : pc[p] \in {"ctr_chunk", "body", "commit", "digest", "index", "save"}}
  <2>1. HubInv' /\ PublisherType /\ left' \in [Publishers -> 0 .. LocalNames]
    BY <1>1, RestartStep, LeftStep DEF HubType, TypeOK, Next, HubInv
  <2>2. /\ UNCHANGED <<blobs, manifests, tags, image, failed>>
        /\ mu' = None /\ upload' \in [Publishers -> {None}] /\ listed' \in [Publishers -> SUBSET Tags]
        /\ GiveUp(S)
    BY <1>1 DEF Restart, store, Keep
  <2>3. \A p \in S : image[p] \in Images
    BY <2>1 DEF PublisherType, Sending, Sent
  <2> HIDE DEF S
  <2>4. /\ \A p \in Publishers \ S : pc'[p] = pc[p] /\ n'[p] = n[p]
        /\ \A p \in S : n'[p] = 1
    <3>1. S \in SUBSET Publishers
      BY DEF S
    <3> QED BY <2>1, <2>2, <3>1, GiveUpMoves
  <2>5. TypeOK'
    BY <1>1, <2>1, <2>2 DEF HubType, TypeOK, HubInv, PublisherType
  <2>6. ASSUME NEW p \in Publishers
        PROVE  /\ pc'[p] \in Sending => n'[p] \in DOMAIN BlobsOf[image'[p]]
               /\ pc'[p] = "failed" => image'[p] \in Images
               /\ mu' # p
    <3>1. mu' # p
      BY <2>2, HubAssumption
    <3>2. CASE p \in S
      BY <2>2, <2>3, <2>4, <3>1, <3>2, HubAssumption
    <3>3. CASE p \notin S
      BY <1>1, <2>2, <2>4, <3>1, <3>3 DEF HubType
    <3> QED BY <3>2, <3>3
  <2> QED BY <2>5, <2>6 DEF HubType
<1>2. ASSUME HubType, UNCHANGED vars PROVE HubType'
  BY <1>2 DEF vars, store, HubType, TypeOK
<1> QED BY <1>1, <1>2, HubTypeStep, StepKeeps DEF Next

--------------------------------------------------------------------------------
(* ORDER AND ENUMERATION *)

(* Every nonempty set of naturals has a least element. *)
LEMMA LeastExists ==
  ASSUME NEW S \in SUBSET Nat, S # {}
  PROVE  \E x \in S : \A y \in S : x <= y
<1> DEFINE R == OpToRel(<, Nat)
<1>1. PICK x \in S : \A y \in S : ~ (<<y, x>> \in R)
  BY NatLessThanWellFounded, WFMin
<1>2. R = {p \in Nat \X Nat : p[1] < p[2]}
  BY DEF OpToRel
<1> HIDE DEF R
<1>3. ASSUME NEW y \in S, y < x PROVE FALSE
  <2>1. <<y, x>> \in R
    BY <1>2, <1>3
  <2>. QED  BY <1>1, <2>1
<1>. QED  BY <1>3

(* An element of a finite set of naturals by its position: every position up to the
   cardinality is taken. *)
LEMMA Enumeration ==
    ASSUME NEW S \in SUBSET Nat, IsFiniteSet(S), NEW m \in 1 .. Cardinality(S)
    PROVE  \E i \in S : Cardinality({j \in S : j <= i}) = m
<1> DEFINE upTo(i) == {j \in S : j <= i}
           pos == [i \in S |-> Cardinality(upTo(i))]
<1>1. ASSUME NEW i \in S
      PROVE  /\ IsFiniteSet(upTo(i)) /\ Cardinality(upTo(i)) \in 1 .. Cardinality(S)
  <2>1. upTo(i) \subseteq S /\ upTo(i) # {}
    OBVIOUS
  <2>2. IsFiniteSet(upTo(i)) /\ Cardinality(upTo(i)) <= Cardinality(S)
    BY <2>1, FS_Subset
  <2>3. Cardinality(upTo(i)) \in Nat /\ Cardinality(upTo(i)) # 0 /\ Cardinality(S) \in Nat
    BY <2>1, <2>2, FS_CardinalityType, FS_EmptySet
  <2> QED BY <2>2, <2>3
<1>2. ASSUME NEW i \in S, NEW h \in S, h < i PROVE pos[h] # pos[i]
  <2>0. h \in Nat /\ i \in Nat /\ S \subseteq Nat
    OBVIOUS
  <2>3. \A j \in S : j <= h => j <= i
    BY <1>2, <2>0
  <2>4. i <= i /\ ~(i <= h)
    BY <1>2, <2>0
  <2>1. upTo(h) \subseteq upTo(i) /\ i \in upTo(i) /\ i \notin upTo(h)
    BY <2>3, <2>4
  <2>2. Cardinality(upTo(h)) <= Cardinality(upTo(i))
        /\ (Cardinality(upTo(h)) = Cardinality(upTo(i)) => upTo(h) = upTo(i))
    BY <1>1, <2>1, FS_Subset
  <2> QED BY <2>1, <2>2
<1>3. pos \in Injection(S, 1 .. Cardinality(S))
  <2>1. pos \in [S -> 1 .. Cardinality(S)]
    BY <1>1
  <2>2. \A h, i \in S : pos[h] = pos[i] => h = i
    <3> SUFFICES ASSUME NEW h \in S, NEW i \in S, h # i PROVE pos[h] # pos[i]
      OBVIOUS
    <3>1. h < i \/ i < h
      OBVIOUS
    <3> QED BY <1>2, <3>1
  <2> HIDE DEF pos
  <2> QED BY <2>1, <2>2, Fun_IsInj
<1>4. Cardinality(S) \in Nat
  BY FS_CardinalityType
<1>5. IsFiniteSet(1 .. Cardinality(S)) /\ Cardinality(1 .. Cardinality(S)) = Cardinality(S)
  BY <1>4, FS_Interval
<1>6. pos \in Surjection(S, 1 .. Cardinality(S))
  BY <1>3, <1>5, FS_Injection
<1> HIDE DEF pos
<1>7. PICK i \in S : pos[i] = m
  BY <1>6 DEF Surjection
<1> QED BY <1>7 DEF pos

(* A finite nonempty set of naturals has a greatest element: the last one. *)
LEMMA GreatestExists ==
    ASSUME NEW S \in SUBSET Nat, IsFiniteSet(S), S # {}
    PROVE  \E x \in S : \A y \in S : y <= x
<1>1. Cardinality(S) \in 1 .. Cardinality(S)
  BY FS_CardinalityType, FS_EmptySet
<1>2. PICK x \in S : Cardinality({y \in S : y <= x}) = Cardinality(S)
  BY <1>1, Enumeration
<1>3. {y \in S : y <= x} = S
  BY <1>2, FS_Subset
<1> QED BY <1>3

--------------------------------------------------------------------------------
(* THE PRODUCT STACK *)

(* What a resolved stack is: a list of known products, none twice, each with its
   port in the environment of a product that reads it there. *)
Resolved(a) ==
    /\ Len(a) \in Nat \ {0} /\ DOMAIN a = 1 .. Len(a)
    /\ \A i \in DOMAIN a :
         /\ a[i].name \in Stack!Keys
         /\ a[i].name \notin Stack!Deaf =>
              "LISTEN" \in DOMAIN a[i].env /\ a[i].env["LISTEN"] = a[i].port
    /\ \A i, j \in DOMAIN a : a[i].name = a[j].name => i = j

LEMMA ResolveStack ==
    ASSUME NEW f \in StackFiles, Stack!resolveStackConfig(f) # None
    PROVE  Resolved(Stack!resolveStackConfig(f))
<1> DEFINE e(i) == Stack!loadBargeEntry(f.entries[i])
           key(i) == Stack!canonical(e(i).name)
           live == {i \in DOMAIN f.entries : ~e(i).disabled /\ key(i) \notin Stack!Engine}
           firsts == {i \in live : \A j \in live : j < i => key(j) # key(i)}
           nth(m) == CHOOSE i \in firsts : Cardinality({j \in firsts : j <= i}) = m
           app(m) == Stack!applyBargeOverrides(key(nth(m)), e(nth(m)), f.tag)
           size == Cardinality(firsts)
           a == Stack!resolveStackConfig(f)
<1>1. /\ live # {} /\ \A i \in live : key(i) \in Stack!Keys
      /\ a = [m \in 1 .. size |-> app(m)]
  BY DEF Stack!resolveStackConfig, Stack!Cardinality, Cardinality
<1>2. Len(f.entries) \in Nat /\ DOMAIN f.entries = 1 .. Len(f.entries)
  BY StackAssumption DEF Stack!StackConstants
<1>3. live \subseteq Nat /\ firsts \subseteq live /\ live \subseteq 1 .. Len(f.entries)
  BY <1>2
<1> HIDE DEF live
<1>4. firsts # {}
  <2>1. PICK i \in live : \A j \in live : i <= j
    BY <1>1, <1>3, LeastExists
  <2>2. \A j \in live : ~(j < i)
    BY <1>3, <2>1
  <2> QED BY <2>1, <2>2
<1>5. \A i, j \in firsts : key(i) = key(j) => i = j
  <2> SUFFICES ASSUME NEW i \in firsts, NEW j \in firsts, i # j PROVE key(i) # key(j)
    OBVIOUS
  <2>1. i < j \/ j < i
    BY <1>3
  <2> HIDE DEF key
  <2> QED BY <2>1
<1> HIDE DEF firsts, key, e
<1>6. IsFiniteSet(firsts) /\ size \in Nat \ {0}
  <2>1. 1 \in Int /\ Len(f.entries) \in Int
    BY <1>2
  <2>3. IsFiniteSet(1 .. Len(f.entries))
    BY <2>1, FS_Interval
  <2>2. IsFiniteSet(firsts)
    BY <1>3, <2>3, FS_Subset
  <2> QED BY <1>4, <2>2, FS_CardinalityType, FS_EmptySet
<1>7. ASSUME NEW m \in 1 .. size
      PROVE  nth(m) \in firsts /\ Cardinality({j \in firsts : j <= nth(m)}) = m
  BY <1>3, <1>6, Enumeration
<1>8. ASSUME NEW m \in 1 .. size
      PROVE  /\ app(m).name = key(nth(m))
             /\ app(m).name \notin Stack!Deaf =>
                  "LISTEN" \in DOMAIN app(m).env /\ app(m).env["LISTEN"] = app(m).port
  BY DEF Stack!applyBargeOverrides
<1> HIDE DEF nth, app, size
<1>9. Len(a) = size /\ DOMAIN a = 1 .. size
  BY <1>1, <1>6
<1>10. ASSUME NEW i \in 1 .. size, NEW j \in 1 .. size, a[i].name = a[j].name PROVE i = j
  <2>1. key(nth(i)) = key(nth(j))
    BY <1>1, <1>8, <1>10
  <2>2. nth(i) = nth(j)
    BY <1>5, <1>7, <2>1
  <2> QED BY <1>7, <2>2
<1>11. ASSUME NEW i \in 1 .. size
       PROVE  /\ a[i].name \in Stack!Keys
              /\ a[i].name \notin Stack!Deaf =>
                   "LISTEN" \in DOMAIN a[i].env /\ a[i].env["LISTEN"] = a[i].port
  <2>1. a[i] = app(i) /\ nth(i) \in live
    BY <1>1, <1>3, <1>7
  <2> QED BY <1>1, <1>8, <2>1
<1> QED BY <1>6, <1>9, <1>10, <1>11 DEF Resolved

(* Where the controller stands. *)
StackType ==
    /\ s_config \in StackFiles \cup {None}
    /\ s_pc \in {"exited", "pull", "namespace", "service", "configmap", "deployment", "online"}
    /\ DOMAIN s_svc \subseteq Stack!Keys /\ DOMAIN s_cmap \subseteq Stack!Keys
    /\ DOMAIN s_dep \subseteq Stack!Keys /\ s_rows \subseteq Stack!Keys
    /\ s_pc = "exited" => s_apps = None
    /\ s_pc \in {"exited", "pull", "namespace"} => s_k = 1
    /\ s_pc # "exited" => /\ Resolved(s_apps)
                          /\ s_k \in IF s_pc = "online" THEN {Len(s_apps) + 1} ELSE 1 .. Len(s_apps)

(* The objects of an app as this configuration wants them. *)
ServiceApplied(svc, a) == a.name \in DOMAIN svc /\ svc[a.name] = a.port

ConfigApplied(cmap, a) ==
    a.config # None => a.name \in DOMAIN cmap /\ cmap[a.name] = a.config

DeploymentApplied(dep, apps, j) ==
    LET a == apps[j]  d == dep[a.name]
    IN  /\ a.name \in DOMAIN dep
        /\ d.port = a.port /\ d.config = a.config
        /\ a.name \notin Stack!Untold => d.bind = a.port
        /\ \A i \in DOMAIN apps :
             apps[i].name \in Stack!generated(a.name) /\ apps[i].name \notin DOMAIN a.env
             => d.env[apps[i].name] = apps[i].port

(* Every object of an app that has had its turn is what this configuration wants,
   whatever was there before; no app undoes what was done for another, for no
   product has two. *)
Applied ==
    s_pc # "exited" =>
        \A j \in DOMAIN s_apps :
            /\ j < s_k \/ (j = s_k /\ s_pc \in {"configmap", "deployment"}) => ServiceApplied(s_svc, s_apps[j])
            /\ j < s_k \/ (j = s_k /\ s_pc = "deployment") => ConfigApplied(s_cmap, s_apps[j])
            /\ j < s_k => DeploymentApplied(s_dep, s_apps, j)

StackInv == StackType /\ Applied

(* A product's own environment, and the port of a product of the stack. *)
LEMMA DeploymentEnv ==
    ASSUME Resolved(s_apps), NEW j \in DOMAIN s_apps
    PROVE  LET a == s_apps[j]  env == Stack!deploymentEnv(a)
           IN  /\ a.name \notin Stack!Untold => Stack!bindOf(a) = a.port
               /\ \A i \in DOMAIN s_apps :
                    s_apps[i].name \in Stack!generated(a.name) /\ s_apps[i].name \notin DOMAIN a.env
                    => env[s_apps[i].name] = s_apps[i].port
<1> DEFINE a == s_apps[j]
           env == Stack!deploymentEnv(a)
<1>1. ASSUME a.name \notin Stack!Deaf PROVE env["LISTEN"] = a.port
  <2>3. \A i \in DOMAIN s_apps : s_apps[i].name \notin Stack!Deaf =>
           "LISTEN" \in DOMAIN s_apps[i].env /\ s_apps[i].env["LISTEN"] = s_apps[i].port
    BY DEF Resolved
  <2>1. "LISTEN" \in DOMAIN a.env /\ a.env["LISTEN"] = a.port
    BY <1>1, <2>3
  <2> HIDE DEF a
  <2>2. env["LISTEN"] = a.env["LISTEN"]
    BY <2>1 DEF Stack!deploymentEnv
  <2> QED BY <2>1, <2>2
<1>2. ASSUME NEW i \in DOMAIN s_apps, s_apps[i].name \in Stack!generated(a.name),
             s_apps[i].name \notin DOMAIN a.env
      PROVE  env[s_apps[i].name] = s_apps[i].port
  <2> DEFINE q == s_apps[i].name
             all == {s_apps[h] : h \in DOMAIN s_apps}
  <2>1. \A x \in all : x.name = q => x = s_apps[i]
    BY DEF Resolved
  <2>2. (CHOOSE x \in all : x.name = q) = s_apps[i]
    <3>1. s_apps[i] \in all /\ s_apps[i].name = q
      OBVIOUS
    <3> HIDE DEF all, q
    <3> QED BY <2>1, <3>1
  <2>3. Stack!inStack(q)
    BY DEF Stack!inStack
  <2>4. Stack!portOf(q) = s_apps[i].port
    BY <2>2, <2>3 DEF Stack!portOf
  <2> QED BY <1>2, <2>4 DEF Stack!deploymentEnv
<1>3. ASSUME a.name \notin Stack!Untold PROVE Stack!bindOf(a) = a.port
  BY <1>1, <1>3 DEF Stack!bindOf, Stack!Deaf
<1> QED BY <1>2, <1>3

LEMMA StackInvInit == Stack!Init => StackInv
  BY DEF Stack!Init, StackInv, StackType, Applied

LEMMA StackTypeStep ==
    ASSUME StackType, Stack!Next
    PROVE  StackType'
<1> USE DEF StackType, Stack!objects
<1>1. CASE Stack!Start
  <2>1. PICK c \in StackFiles : /\ Stack!resolveStackConfig(c) # None
                                /\ s_config' = c /\ s_apps' = Stack!resolveStackConfig(c)
    BY <1>1 DEF Stack!Start
  <2>2. Resolved(s_apps')
    BY <2>1, ResolveStack
  <2>3. 1 \in 1 .. Len(s_apps')
    BY <2>2 DEF Resolved
  <2> QED BY <1>1, <2>1, <2>2, <2>3 DEF Stack!Start
<1>2. CASE Stack!Prepare
  BY <1>2 DEF Stack!Prepare
<1>3. ASSUME s_pc \in {"service", "configmap", "deployment"}
      PROVE  s_k \in DOMAIN s_apps /\ Stack!app.name \in Stack!Keys
  <2>1. Resolved(s_apps) /\ s_k \in 1 .. Len(s_apps)
    BY <1>3
  <2> QED BY <2>1 DEF Resolved, Stack!app
<1>4. CASE Stack!EnsureService
  BY <1>3, <1>4 DEF Stack!EnsureService, Stack!Put
<1>5. CASE Stack!EnsureConfigMap
  BY <1>3, <1>5 DEF Stack!EnsureConfigMap, Stack!Put
<1>6. CASE Stack!EnsureDeployment
  <2>1. DOMAIN s_dep' \subseteq Stack!Keys
    BY <1>3, <1>6 DEF Stack!EnsureDeployment, Stack!Put
  <2>2. Len(s_apps) \in Nat /\ s_k \in 1 .. Len(s_apps)
    BY <1>6 DEF Stack!EnsureDeployment, Resolved
  <2> QED BY <1>6, <2>1, <2>2 DEF Stack!EnsureDeployment
<1>7. CASE Stack!Fail
  BY <1>7 DEF Stack!Fail, Stack!Exit
<1>8. CASE Stack!Signal
  BY <1>8 DEF Stack!Signal, Stack!Exit, Stack!Drop
<1> QED BY <1>1, <1>2, <1>4, <1>5, <1>6, <1>7, <1>8 DEF Stack!Next

LEMMA AppliedStep ==
    ASSUME StackInv, Stack!Next
    PROVE  Applied'
<1> USE DEF StackInv, Stack!objects
<1>1. CASE Stack!Start
  <2>1. s_k' = 1 /\ s_pc' = "pull"
    BY <1>1 DEF Stack!Start, StackType
  <2>2. StackType'
    BY StackTypeStep
  <2>3. \A j \in DOMAIN s_apps' : ~(j < 1)
    BY <2>1, <2>2 DEF StackType, Resolved
  <2> QED BY <2>1, <2>3 DEF Applied
<1>2. CASE Stack!Prepare
  BY <1>2 DEF Stack!Prepare, Applied
<1>3. ASSUME s_pc \in {"service", "configmap", "deployment"}
      PROVE  /\ Resolved(s_apps) /\ s_k \in DOMAIN s_apps /\ DOMAIN s_apps \subseteq Nat
             /\ \A j \in DOMAIN s_apps : j # s_k => s_apps[j].name # s_apps[s_k].name
  <2>1. Resolved(s_apps) /\ s_k \in 1 .. Len(s_apps)
    BY <1>3 DEF StackType
  <2> QED BY <2>1 DEF Resolved
<1>4. CASE Stack!EnsureService
  <2>1. /\ s_pc = "service" /\ s_pc' = "configmap"
        /\ UNCHANGED <<s_apps, s_k, s_cmap, s_dep>>
        /\ s_svc' = Stack!Put(s_svc, s_apps[s_k].name, s_apps[s_k].port)
    BY <1>4 DEF Stack!EnsureService, Stack!app
  <2>2. ServiceApplied(s_svc', s_apps[s_k])
    BY <2>1 DEF ServiceApplied, Stack!Put
  <2>3. ASSUME NEW j \in DOMAIN s_apps, j < s_k PROVE ServiceApplied(s_svc', s_apps[j])
    <3>1. ServiceApplied(s_svc, s_apps[j]) /\ s_apps[j].name # s_apps[s_k].name
      BY <1>3, <2>1, <2>3 DEF Applied
    <3> QED BY <2>1, <3>1 DEF ServiceApplied, Stack!Put
  <2> QED BY <2>1, <2>2, <2>3 DEF Applied
<1>5. CASE Stack!EnsureConfigMap
  <2>1. /\ s_pc = "configmap" /\ s_pc' = "deployment"
        /\ UNCHANGED <<s_apps, s_k, s_svc, s_dep>>
        /\ s_cmap' = IF s_apps[s_k].config = None THEN s_cmap
                     ELSE Stack!Put(s_cmap, s_apps[s_k].name, s_apps[s_k].config)
    BY <1>5 DEF Stack!EnsureConfigMap, Stack!app
  <2>2. ConfigApplied(s_cmap', s_apps[s_k])
    BY <2>1 DEF ConfigApplied, Stack!Put
  <2>3. ASSUME NEW j \in DOMAIN s_apps, j < s_k PROVE ConfigApplied(s_cmap', s_apps[j])
    <3>1. ConfigApplied(s_cmap, s_apps[j]) /\ s_apps[j].name # s_apps[s_k].name
      BY <1>3, <2>1, <2>3 DEF Applied
    <3> QED BY <2>1, <3>1 DEF ConfigApplied, Stack!Put
  <2> QED BY <2>1, <2>2, <2>3 DEF Applied
<1>6. CASE Stack!EnsureDeployment
  <2> DEFINE a == s_apps[s_k]
             d == [port |-> a.port, bind |-> Stack!bindOf(a),
                   env |-> Stack!deploymentEnv(a), image |-> a.image,
                   replicas |-> a.replicas, config |-> a.config]
  <2>1. /\ s_pc = "deployment" /\ s_k' = s_k + 1
        /\ s_pc' \in {"online", "service"}
        /\ UNCHANGED <<s_apps, s_svc, s_cmap>>
        /\ s_dep' = Stack!Put(s_dep, a.name, d)
    BY <1>6 DEF Stack!EnsureDeployment, Stack!app
  <2>2. DeploymentApplied(s_dep', s_apps, s_k)
    <3>1. a.name \in DOMAIN s_dep' /\ s_dep'[a.name] = d
      BY <2>1 DEF Stack!Put
    <3>2. /\ a.name \notin Stack!Untold => d.bind = a.port
          /\ \A i \in DOMAIN s_apps :
               s_apps[i].name \in Stack!generated(a.name) /\ s_apps[i].name \notin DOMAIN a.env
               => d.env[s_apps[i].name] = s_apps[i].port
      BY <1>3, <2>1, DeploymentEnv
    <3>3. d.port = a.port /\ d.config = a.config
      OBVIOUS
    <3> HIDE DEF d
    <3> QED BY <3>1, <3>2, <3>3 DEF DeploymentApplied
  <2> HIDE DEF d
  <2>3. ASSUME NEW j \in DOMAIN s_apps, j < s_k PROVE DeploymentApplied(s_dep', s_apps, j)
    <3>1. DeploymentApplied(s_dep, s_apps, j) /\ s_apps[j].name # a.name
      BY <1>3, <2>1, <2>3 DEF Applied
    <3>2. s_apps[j].name \in DOMAIN s_dep' /\ s_dep'[s_apps[j].name] = s_dep[s_apps[j].name]
      BY <2>1, <3>1 DEF DeploymentApplied, Stack!Put
    <3> QED BY <3>1, <3>2 DEF DeploymentApplied
  <2>4. ASSUME NEW j \in DOMAIN s_apps, j < s_k + 1
        PROVE  /\ ServiceApplied(s_svc, s_apps[j]) /\ ConfigApplied(s_cmap, s_apps[j])
               /\ DeploymentApplied(s_dep', s_apps, j)
    <3>1. j < s_k \/ j = s_k
      BY <1>3, <2>1, <2>4
    <3> QED BY <1>3, <2>1, <2>2, <2>3, <3>1 DEF Applied
  <2>5. ~(s_k + 1 \in DOMAIN s_apps /\ s_pc' \in {"configmap", "deployment"})
    BY <2>1
  <2> QED BY <2>1, <2>4, <2>5 DEF Applied
<1>7. CASE Stack!Fail
  BY <1>7 DEF Stack!Fail, Stack!Exit, Applied
<1>8. CASE Stack!Signal
  BY <1>8 DEF Stack!Signal, Stack!Exit, Applied
<1> QED BY <1>1, <1>2, <1>4, <1>5, <1>6, <1>7, <1>8 DEF Stack!Next

LEMMA StackInvStep == StackInv /\ [Stack!Next]_stackVars => StackInv'
<1>1. ASSUME StackInv, Stack!Next PROVE StackInv'
  BY <1>1, StackTypeStep, AppliedStep DEF StackInv
<1>2. ASSUME StackInv, UNCHANGED stackVars PROVE StackInv'
  BY <1>2 DEF StackInv, StackType, Applied, stackVars
<1> QED BY <1>1, <1>2

LEMMA StackInvariant == ServiceSpec => []StackInv
<1>1. ServiceInit => StackInv
  BY StackInvInit DEF ServiceInit
<1>2. StackInv /\ [ServiceNext]_allVars => StackInv'
  BY ComponentStep, StackInvStep
<1> QED BY <1>1, <1>2, PTL DEF ServiceSpec

(* For every set of stack files: once the controller is online, every product has the
   container port of its Service and, services and anycast apart, listens there; it mounts
   what it runs with, and is linked to the
   Services of its siblings, whatever controllers with other files left behind and
   wherever they were stopped. *)
THEOREM StackStaysConnected == ServiceSpec => []StackConnected
<1>1. ASSUME StackInv, s_pc = "online", NEW i \in DOMAIN s_apps
      PROVE  LET p == s_apps[i].name  d == s_dep[p]
             IN  /\ d.port = s_svc[p]
                 /\ p \notin Stack!Untold => d.bind = s_svc[p]
                 /\ d.config # None => s_cmap[p] = d.config
                 /\ \A q \in Stack!generated(p) : Stack!inStack(q) /\ q \notin DOMAIN s_apps[i].env
                                                  => d.env[q] = s_svc[q]
  <2>1. ASSUME NEW j \in DOMAIN s_apps
        PROVE  /\ ServiceApplied(s_svc, s_apps[j]) /\ ConfigApplied(s_cmap, s_apps[j])
               /\ DeploymentApplied(s_dep, s_apps, j)
    <3>1. j < s_k
      BY <1>1 DEF StackInv, StackType, Resolved
    <3> QED BY <1>1, <3>1 DEF StackInv, Applied
  <2> DEFINE p == s_apps[i].name
             d == s_dep[p]
  <2>2. /\ d.port = s_svc[p]
        /\ p \notin Stack!Untold => d.bind = s_svc[p]
        /\ d.config # None => s_cmap[p] = d.config
    BY <2>1 DEF ServiceApplied, ConfigApplied, DeploymentApplied
  <2>3. ASSUME NEW q \in Stack!generated(p), Stack!inStack(q), q \notin DOMAIN s_apps[i].env
        PROVE  d.env[q] = s_svc[q]
    <3>1. PICK j \in DOMAIN s_apps : s_apps[j].name = q
      BY <2>3 DEF Stack!inStack
    <3>2. d.env[q] = s_apps[j].port
      BY <2>1, <2>3, <3>1 DEF DeploymentApplied
    <3>3. s_svc[q] = s_apps[j].port
      BY <2>1, <3>1 DEF ServiceApplied
    <3> QED BY <3>2, <3>3
  <2> QED BY <2>2, <2>3
<1>2. StackInv => StackConnected
  BY <1>1 DEF StackConnected, Stack!StackConnected
<1> QED BY <1>2, StackInvariant, PTL

--------------------------------------------------------------------------------
(* PRODUCT VHOSTS *)

(* Changing upstreams keeps the type and the domains of a table. *)
LEMMA Retarget ==
    ASSUME NEW es \in VH!Table, NEW e \in Cutovers
    PROVE  /\ VH!retarget(es, e) \in VH!Table
           /\ DOMAIN VH!retarget(es, e) = DOMAIN es
           /\ \A i \in DOMAIN es :
                /\ VH!retarget(es, e)[i].domain = es[i].domain
                /\ VH!retarget(es, e)[i].upstream \in {es[i].upstream, e.upstream}
<1>1. e \in VH!Row
  BY VHostsAssumption DEF VH!VHostsConstants
<1>2. ASSUME NEW i \in DOMAIN es
      PROVE  /\ VH!retarget(es, e)[i] \in VH!Row
             /\ VH!retarget(es, e)[i].domain = es[i].domain
             /\ VH!retarget(es, e)[i].upstream \in {es[i].upstream, e.upstream}
  <2>1. es[i] \in VH!Row
    BY DEF VH!Table
  <2> QED BY <1>1, <2>1 DEF VH!retarget, VH!Row
<1>3. DOMAIN VH!retarget(es, e) = DOMAIN es
  BY DEF VH!retarget
<1>4. DOMAIN es = 1 .. Len(es) /\ Len(es) \in Nat
  BY DEF VH!Table
<1>5. VH!retarget(es, e) = [i \in 1 .. Len(es) |-> VH!retarget(es, e)[i]]
  BY <1>3, <1>4 DEF VH!retarget
<1>6. VH!retarget(es, e) \in Seq(VH!Row)
  BY <1>2, <1>4, <1>5
<1> QED BY <1>2, <1>3, <1>6 DEF VH!Table

(* A handler is one of the usable upstreams of the table. *)
LEMMA Handlers ==
    ASSUME NEW es \in VH!Table
    PROVE  LET h == VH!buildVHostHandlers(es)
           IN  /\ DOMAIN h \subseteq VH!Domains
               /\ \A i \in DOMAIN es : es[i].upstream # VH!Unusable => es[i].domain \in DOMAIN h
               /\ \A d \in DOMAIN h : h[d] # None
<1> DEFINE usable == {i \in DOMAIN es : es[i].upstream # VH!Unusable}
           of(d) == {i \in usable : es[i].domain = d}
           h == VH!buildVHostHandlers(es)
<1>1. h = [d \in {es[i].domain : i \in usable} |->
            es[CHOOSE i \in of(d) : \A j \in of(d) : j <= i].upstream]
  BY DEF VH!buildVHostHandlers
<1>2. ASSUME NEW i \in DOMAIN es
      PROVE  i \in 1 .. Len(es) /\ es[i].domain \in VH!Domains /\ es[i].upstream # None
  <2>1. es[i] \in VH!Row
    BY DEF VH!Table
  <2> QED BY <2>1, VHostsAssumption DEF VH!Row, VH!Table, VH!VHostsConstants
<1>3. ASSUME NEW d \in {es[i].domain : i \in usable} PROVE h[d] # None
  <2>1. of(d) \in SUBSET (1 .. Len(es)) /\ of(d) # {} /\ Len(es) \in Nat
    BY <1>2 DEF VH!Table
  <2>4. IsFiniteSet(1 .. Len(es)) /\ 1 .. Len(es) \subseteq Nat
    BY <2>1, FS_Interval
  <2>5. IsFiniteSet(of(d)) /\ of(d) \in SUBSET Nat
    BY <2>1, <2>4, FS_Subset
  <2> DEFINE last == CHOOSE i \in of(d) : \A j \in of(d) : j <= i
  <2>2. last \in of(d)
    BY <2>1, <2>5, GreatestExists
  <2>3. h[d] = es[last].upstream
    BY <1>1
  <2> HIDE DEF last
  <2> QED BY <1>2, <2>2, <2>3
<1>4. DOMAIN h = {es[i].domain : i \in usable}
  BY <1>1
<1>5. /\ DOMAIN h \subseteq VH!Domains
      /\ \A i \in DOMAIN es : es[i].upstream # VH!Unusable => es[i].domain \in DOMAIN h
  BY <1>2, <1>4
<1> QED BY <1>3, <1>4, <1>5

LEMMA VHostTypeInit == VH!Init => VH!TypeOK
<1> SUFFICES ASSUME VH!Init PROVE VH!TypeOK
  OBVIOUS
<1>1. v_path \in VH!Table
  BY VHostsAssumption DEF VH!VHostsConstants, VH!Init
<1>2. DOMAIN v_handlers \subseteq VH!Domains
  BY <1>1, Handlers DEF VH!Init
<1>3. <<>> \in VH!Table
  BY DEF VH!Table
<1> QED BY <1>1, <1>2, <1>3 DEF VH!Init, VH!TypeOK

LEMMA VHostTypeStep == VH!TypeOK /\ [VH!Next]_vhostVars => VH!TypeOK'
<1> SUFFICES ASSUME VH!TypeOK, [VH!Next]_vhostVars PROVE VH!TypeOK'
  OBVIOUS
<1> USE DEF VH!TypeOK, VH!disk, VH!memory, VH!local, VH!Goto
<1>0. <<>> \in VH!Table
  BY DEF VH!Table
<1>1. ASSUME NEW p \in VH!Procs, NEW e \in Cutovers, VH!SetUpstream(p, e) PROVE VH!TypeOK'
  <2>1. v_vhostFile' \in VH!Table
    <3>1. e \in VH!Row
      BY VHostsAssumption DEF VH!VHostsConstants
    <3>2. Append(v_vhostFile, e) \in VH!Table
      BY <3>1 DEF VH!Table
    <3> QED BY <1>1, <3>2, Retarget DEF VH!SetUpstream
  <2>2. v_copy' \in [VH!Procs -> VH!Table]
    <3>1. \A q \in VH!Procs : VH!retarget(v_copy[q], e) \in VH!Table
      BY Retarget
    <3> QED BY <1>1, <2>1, <3>1 DEF VH!SetUpstream
  <2>3. v_shares' \subseteq Admins
    BY <1>1 DEF VH!SetUpstream
  <2> QED BY <1>1, <2>1, <2>2, <2>3 DEF VH!SetUpstream
<1>2. ASSUME NEW p \in VH!Procs, VH!OpenTmp(p) \/ VH!WriteTmp(p) \/ VH!Rename(p) \/ VH!Reload(p)
      PROVE  VH!TypeOK'
  BY <1>0, <1>2 DEF VH!OpenTmp, VH!WriteTmp, VH!Rename, VH!Reload
<1>3. ASSUME NEW p \in VH!Procs, VH!ReadFile(p) \/ VH!Fail(p) PROVE VH!TypeOK'
  BY <1>0, <1>3 DEF VH!ReadFile, VH!Fail, VH!Return
<1>4. ASSUME NEW p \in VH!Procs, VH!Install(p) PROVE VH!TypeOK'
  <2>1. DOMAIN v_handlers' \subseteq VH!Domains
    BY <1>4, Handlers DEF VH!Install
  <2> QED BY <1>0, <1>4, <2>1 DEF VH!Install, VH!Return
<1>5. CASE VH!Restart
  <2>1. DOMAIN v_handlers' \subseteq VH!Domains
    BY <1>5, Handlers DEF VH!Restart
  <2> QED BY <1>0, <1>5, <2>1 DEF VH!Restart
<1>6. ASSUME NEW f \in VHostFiles, VH!Edit(f) PROVE VH!TypeOK'
  <2>1. f \in VH!Table
    BY VHostsAssumption DEF VH!VHostsConstants
  <2> QED BY <1>6, <2>1 DEF VH!Edit
<1>7. CASE UNCHANGED vhostVars
  BY <1>7 DEF vhostVars
<1> QED BY <1>1, <1>2, <1>3, <1>4, <1>5, <1>6, <1>7 DEF VH!Next

(* A table in which every primary domain has a usable upstream. *)
Serves(es) ==
    \A d \in VH!Primary : \E i \in DOMAIN es : es[i].domain = d /\ es[i].upstream # VH!Unusable

(* Memory, the file, and every copy that may still become one of them serve all
   primary domains; the temporary file does so when it is about to be renamed. *)
RoutesInv ==
    /\ Serves(v_path) /\ Serves(v_vhostFile)
    /\ VH!Primary \subseteq DOMAIN v_handlers
    /\ \A d \in DOMAIN v_handlers : v_handlers[d] # None
    /\ \A p \in VH!Procs :
         /\ v_pc[p] \in {"open", "write", "rename"} => p \in Admins /\ Serves(v_copy[p])
         /\ v_fd[p] # "gone" => p \in Admins /\ v_fd[p] = "tmp"
         /\ v_pc[p] = "write" => v_fd[p] = "tmp"
         /\ v_pc[p] = "rename" => Serves(v_tmp)
         /\ v_pc[p] = "install" => Serves(v_raw[p])

LEMMA HandlersServe ==
    ASSUME NEW es \in VH!Table, Serves(es)
    PROVE  /\ VH!Primary \subseteq DOMAIN VH!buildVHostHandlers(es)
           /\ \A d \in DOMAIN VH!buildVHostHandlers(es) : VH!buildVHostHandlers(es)[d] # None
  BY Handlers DEF Serves

LEMMA FilesServe == ASSUME NEW f \in VHostFiles PROVE f \in VH!Table /\ Serves(f)
  BY VHostsAssumption DEF VH!VHostsConstants, VH!Primary, Serves

LEMMA RoutesInvInit == VH!Init => RoutesInv
<1> SUFFICES ASSUME VH!Init PROVE RoutesInv
  OBVIOUS
<1>1. v_path \in VH!Table /\ Serves(v_path)
  BY FilesServe DEF VH!Init
<1> QED BY <1>1, HandlersServe DEF VH!Init, RoutesInv

LEMMA RoutesInvStep ==
    ASSUME VH!OneCutover, VH!UsableCutovers, VH!TypeOK, RoutesInv, [VH!Next]_vhostVars
    PROVE  RoutesInv'
<1> USE DEF VH!TypeOK, VH!disk, VH!memory, VH!local, VH!Goto
<1>1. ASSUME NEW p \in VH!Procs, NEW e \in Cutovers, VH!SetUpstream(p, e) PROVE RoutesInv'
  <2>1. Serves(v_vhostFile')
    <3>1. CASE v_vhostFile' = VH!retarget(v_vhostFile, e)
      <4>1. e.upstream # VH!Unusable
        BY DEF VH!UsableCutovers
      <4> DEFINE es == VH!retarget(v_vhostFile, e)
      <4>2. /\ DOMAIN es = DOMAIN v_vhostFile
            /\ \A i \in DOMAIN v_vhostFile : /\ es[i].domain = v_vhostFile[i].domain
                                             /\ es[i].upstream \in {v_vhostFile[i].upstream, e.upstream}
        BY Retarget
      <4> HIDE DEF es
      <4>3. Serves(es)
        BY <4>1, <4>2 DEF RoutesInv, Serves
      <4> QED BY <3>1, <4>3 DEF es
    <3>2. CASE v_vhostFile' = Append(v_vhostFile, e)
      <4>1. /\ DOMAIN v_vhostFile \subseteq DOMAIN Append(v_vhostFile, e)
            /\ \A i \in DOMAIN v_vhostFile : Append(v_vhostFile, e)[i] = v_vhostFile[i]
        BY DEF VH!Table
      <4> QED BY <3>2, <4>1 DEF RoutesInv, Serves
    <3> QED BY <1>1, <3>1, <3>2 DEF VH!SetUpstream
  <2>2. p \in Admins /\ v_shares \subseteq {p} /\ v_pc[p] = "idle"
    BY <1>1 DEF VH!SetUpstream, VH!OneCutover
  <2>3. /\ v_copy' = [q \in VH!Procs |-> IF q = p THEN v_vhostFile' ELSE v_copy[q]]
        /\ v_pc' = [v_pc EXCEPT ![p] = "open"]
        /\ UNCHANGED <<v_path, v_tmp, v_handlers, v_fd, v_raw>>
    BY <1>1, <2>2 DEF VH!SetUpstream
  <2> QED BY <2>1, <2>2, <2>3 DEF RoutesInv
<1>2. ASSUME NEW p \in VH!Procs, VH!OpenTmp(p) PROVE RoutesInv'
  <2>1. \A q \in VH!Procs : v_pc[q] \in {"open", "write", "rename"} => q = p
    BY <1>2 DEF VH!OpenTmp, RoutesInv, VH!OneCutover
  <2> QED BY <1>2, <2>1 DEF VH!OpenTmp, RoutesInv
<1>3. ASSUME NEW p \in VH!Procs, VH!WriteTmp(p) PROVE RoutesInv'
  <2>1. \A q \in VH!Procs : v_pc[q] \in {"open", "write", "rename"} => q = p
    BY <1>3 DEF VH!WriteTmp, RoutesInv, VH!OneCutover
  <2>2. v_tmp' = v_copy[p] /\ v_path' = v_path /\ Serves(v_copy[p])
    BY <1>3 DEF VH!WriteTmp, RoutesInv
  <2> QED BY <1>3, <2>1, <2>2 DEF VH!WriteTmp, RoutesInv
<1>4. ASSUME NEW p \in VH!Procs, VH!Rename(p) PROVE RoutesInv'
  <2>1. \A q \in VH!Procs : v_pc[q] \in {"open", "write", "rename"} \/ v_fd[q] # "gone" => q = p
    BY <1>4 DEF VH!Rename, RoutesInv, VH!OneCutover
  <2>2. Serves(v_path') /\ v_fd' = [q \in VH!Procs |-> "gone"]
    BY <1>4, <2>1 DEF VH!Rename, RoutesInv
  <2> QED BY <1>4, <2>1, <2>2 DEF VH!Rename, RoutesInv
<1>5. ASSUME NEW p \in VH!Procs, VH!Reload(p) \/ VH!ReadFile(p) PROVE RoutesInv'
  BY <1>5 DEF VH!Reload, VH!ReadFile, RoutesInv
<1>6. ASSUME NEW p \in VH!Procs, VH!Install(p) PROVE RoutesInv'
  <2>1. v_raw[p] \in VH!Table /\ Serves(v_raw[p])
    BY <1>6 DEF VH!Install, RoutesInv
  <2>2. /\ Serves(v_vhostFile') /\ VH!Primary \subseteq DOMAIN v_handlers'
        /\ \A d \in DOMAIN v_handlers' : v_handlers'[d] # None
    BY <1>6, <2>1, HandlersServe DEF VH!Install
  <2> QED BY <1>6, <2>2 DEF VH!Install, VH!Return, RoutesInv
<1>7. ASSUME NEW p \in VH!Procs, VH!Fail(p) PROVE RoutesInv'
  BY <1>7 DEF VH!Fail, VH!Return, RoutesInv
<1>8. CASE VH!Restart
  <2>1. Serves(v_path) /\ v_path \in VH!Table
    BY DEF RoutesInv
  <2> QED BY <1>8, <2>1, HandlersServe DEF VH!Restart, RoutesInv
<1>9. ASSUME NEW f \in VHostFiles, VH!Edit(f) PROVE RoutesInv'
  BY <1>9, FilesServe DEF VH!Edit, RoutesInv
<1>10. CASE UNCHANGED vhostVars
  BY <1>10 DEF vhostVars, RoutesInv
<1> QED BY <1>1, <1>2, <1>3, <1>4, <1>5, <1>6, <1>7, <1>8, <1>9, <1>10 DEF VH!Next

(* For every set of files, cutovers and reloaders: a primary host has a handler at
   every moment, through failed writes, reloads, edits and restarts, provided that
   cutovers come one at a time (two at once lose routes, as the run
   vhosts_concurrent shows) and name usable upstreams. *)
THEOREM RoutesKeptOneCutover == VH!OneCutover /\ VH!UsableCutovers /\ ServiceSpec => []RoutesKept
<1> SUFFICES ASSUME VH!OneCutover, VH!UsableCutovers PROVE ServiceSpec => []RoutesKept
  OBVIOUS
<1>1. ServiceInit => VH!TypeOK /\ RoutesInv
  BY VHostTypeInit, RoutesInvInit DEF ServiceInit
<1>2. VH!TypeOK /\ RoutesInv /\ [ServiceNext]_allVars => (VH!TypeOK /\ RoutesInv)'
  BY ComponentStep, VHostTypeStep, RoutesInvStep
<1>3. VH!TypeOK /\ RoutesInv => RoutesKept
  <2> SUFFICES ASSUME VH!TypeOK, RoutesInv, NEW d \in VH!Primary
               PROVE  VH!matchProductVHost(d) # None
    BY DEF RoutesKept, VH!RoutesKept
  <2> DEFINE hits == {i \in DOMAIN v_vhostFile : /\ v_vhostFile[i].domain \in DOMAIN v_handlers
                                                 /\ VH!hostMatchesVHostEntry(d, v_vhostFile[i])}
             first == CHOOSE i \in hits : \A j \in hits : i <= j
  <2>1. PICK i \in DOMAIN v_vhostFile : v_vhostFile[i].domain = d
    BY DEF RoutesInv, Serves
  <2>2. i \in hits
    BY <2>1 DEF RoutesInv, VH!hostMatchesVHostEntry
  <2>3. hits \in SUBSET Nat
    BY DEF VH!TypeOK, VH!Table
  <2>4. first \in hits
    <3> HIDE DEF hits
    <3> QED BY <2>2, <2>3, LeastExists
  <2>5. v_vhostFile[first].domain \in DOMAIN v_handlers
    <3> HIDE DEF first
    <3> QED BY <2>4
  <2>6. VH!matchProductVHost(d) = v_handlers[v_vhostFile[first].domain]
    BY <2>2 DEF VH!matchProductVHost
  <2> HIDE DEF first
  <2> QED BY <2>5, <2>6 DEF RoutesInv
<1> QED BY <1>1, <1>2, <1>3, PTL DEF ServiceSpec

--------------------------------------------------------------------------------
(* PRIVATE NAMES *)

(* The image of a finite set under a function is finite. *)
LEMMA FiniteImage ==
    ASSUME NEW S, IsFiniteSet(S), NEW g, DOMAIN g = S
    PROVE  IsFiniteSet({g[x] : x \in S})
<1> DEFINE T == {g[x] : x \in S}
           f == [x \in S |-> g[x]]
<1>1. f \in [S -> T] /\ \A t \in T : \E x \in S : f[x] = t
  OBVIOUS
<1> HIDE DEF T, f
<1>2. f \in Surjection(S, T)
  BY <1>1, Fun_IsSurj
<1>3. IsFiniteSet(T)
  BY <1>2, FS_Surjection
<1> QED BY <1>3 DEF T

LEMMA SameFinite == \A S : DNS!IsFiniteSet(S) <=> IsFiniteSet(S)
  BY DEF DNS!IsFiniteSet, IsFiniteSet

(* A zone has finitely many scores, all of them naturals. *)
LEMMA Scores ==
    ASSUME NEW f \in DNSFiles, NEW i \in DOMAIN f.zones, NEW name
    PROVE  /\ DNS!scores(name, f.zones[i]) \in SUBSET Nat
           /\ IsFiniteSet(DNS!scores(name, f.zones[i]))
<1> DEFINE z == f.zones[i]
           apex == {d \in z.domains : d.suffix = name}
           sub == {d \in z.domains : d.suffix # name /\ DNS!Under(name, d.suffix)}
           g == [d \in apex |-> (IF d.wild THEN 300 ELSE 400) + 8 * Len(d.suffix)]
           h == [d \in sub |-> (IF d.wild THEN 200 ELSE 250) + 8 * Len(d.suffix)]
           own == (IF z.tld = name THEN 100 ELSE 50) + 8 * Len(z.tld)
           rest == {s \in {own} : z.tld # <<>> /\ DNS!Under(name, z.tld)}
<1>1. /\ IsFiniteSet(z.domains) /\ Len(z.tld) \in Nat
      /\ \A d \in z.domains : Len(d.suffix) \in Nat
  BY DNSAssumption, SameFinite DEF DNS!DNSConstants
<1>2. DNS!scores(name, z) = {g[d] : d \in apex} \cup {h[d] : d \in sub} \cup rest
  <2>1. {g[d] : d \in apex} = {(IF d.wild THEN 300 ELSE 400) + 8 * Len(d.suffix) : d \in apex}
    OBVIOUS
  <2>2. {h[d] : d \in sub} = {(IF d.wild THEN 200 ELSE 250) + 8 * Len(d.suffix) : d \in sub}
    OBVIOUS
  <2> HIDE DEF g, h
  <2> QED BY <2>1, <2>2 DEF DNS!scores
<1>3. IsFiniteSet(apex) /\ IsFiniteSet(sub)
  BY <1>1, FS_Subset
<1>4. IsFiniteSet({g[d] : d \in apex})
  <2>1. DOMAIN g = apex
    OBVIOUS
  <2> HIDE DEF g, apex
  <2> QED BY <1>3, <2>1, FiniteImage
<1>5. IsFiniteSet({h[d] : d \in sub})
  <2>1. DOMAIN h = sub
    OBVIOUS
  <2> HIDE DEF h, sub
  <2> QED BY <1>3, <2>1, FiniteImage
<1>6. IsFiniteSet(rest)
  <2>1. rest \subseteq {own}
    OBVIOUS
  <2> HIDE DEF rest, own
  <2> QED BY <2>1, FS_Singleton, FS_Subset
<1>7. (\A d \in apex : g[d] \in Nat) /\ (\A d \in sub : h[d] \in Nat) /\ own \in Nat
  <2>1. ASSUME NEW d \in z.domains
        PROVE  /\ (IF d.wild THEN 300 ELSE 400) + 8 * Len(d.suffix) \in Nat
               /\ (IF d.wild THEN 200 ELSE 250) + 8 * Len(d.suffix) \in Nat
    <3>1. 8 * Len(d.suffix) \in Nat
      BY <1>1
    <3>2. ASSUME NEW n8 \in Nat
          PROVE  (IF d.wild THEN 300 ELSE 400) + n8 \in Nat /\ (IF d.wild THEN 200 ELSE 250) + n8 \in Nat
      OBVIOUS
    <3> QED BY <3>1, <3>2
  <2>2. own \in Nat
    <3>1. Len(z.tld) \in Nat
      BY <1>1
    <3>2. ASSUME NEW len \in Nat PROVE (IF z.tld = name THEN 100 ELSE 50) + 8 * len \in Nat
      OBVIOUS
    <3> QED BY <3>1, <3>2
  <2> QED BY <2>1, <2>2
<1> HIDE DEF g, h, apex, sub, own
<1>8. rest \subseteq Nat
  BY <1>7
<1> HIDE DEF rest
<1> QED BY <1>2, <1>4, <1>5, <1>6, <1>7, <1>8, FS_Union

(* A name that some zone matches gets one of the zones of the file. *)
LEMMA MatchIsZone ==
    ASSUME NEW f \in DNSFiles, NEW name, DNS!matchDNSZone(name, f.zones) # None
    PROVE  \E i \in DOMAIN f.zones : DNS!matchDNSZone(name, f.zones) = f.zones[i]
<1> DEFINE hits == {i \in DOMAIN f.zones : DNS!scores(name, f.zones[i]) # {}}
           top(i) == DNS!Max(DNS!scores(name, f.zones[i]))
           best == CHOOSE i \in hits : \A j \in hits :
                       top(j) < top(i) \/ (top(j) = top(i) /\ i <= j)
<1>1. hits # {} /\ DNS!matchDNSZone(name, f.zones) = f.zones[best]
  BY DEF DNS!matchDNSZone
<1>2. ASSUME NEW i \in hits PROVE top(i) \in Nat
  <2> DEFINE S == DNS!scores(name, f.zones[i])
  <2>1. S \in SUBSET Nat /\ IsFiniteSet(S) /\ S # {}
    BY Scores
  <2> HIDE DEF S
  <2>2. PICK x \in S : \A y \in S : y <= x
    BY <2>1, GreatestExists
  <2>3. \A y \in S : x >= y
    BY <2>1, <2>2
  <2>4. DNS!Max(S) \in S
    BY <2>3 DEF DNS!Max
  <2>5. DNS!Max(S) \in Nat
    BY <2>1, <2>4
  <2> QED BY <2>5 DEF S
<1>3. Len(f.zones) \in Nat /\ hits \subseteq 1 .. Len(f.zones)
  BY DNSAssumption DEF DNS!DNSConstants
<1>4. IsFiniteSet(hits) /\ hits \subseteq Nat
  <2> HIDE DEF hits
  <2>2. 1 \in Int /\ Len(f.zones) \in Int
    BY <1>3
  <2>1. IsFiniteSet(1 .. Len(f.zones)) /\ 1 .. Len(f.zones) \subseteq Nat
    BY <2>2, FS_Interval
  <2> QED BY <1>3, <2>1, FS_Subset
<1> DEFINE tops == [i \in hits |-> top(i)]
<1>5. PICK t \in {tops[i] : i \in hits} : \A u \in {tops[i] : i \in hits} : u <= t
  <2>1. DOMAIN tops = hits /\ \A i \in hits : tops[i] \in Nat
    BY <1>2
  <2> HIDE DEF tops, hits
  <2>2. IsFiniteSet({tops[i] : i \in hits})
    BY <1>4, <2>1, FiniteImage
  <2>3. {tops[i] : i \in hits} \in SUBSET Nat /\ {tops[i] : i \in hits} # {}
    BY <1>1, <2>1
  <2> QED BY <2>2, <2>3, GreatestExists
<1> HIDE DEF hits, top
<1>6. \A i \in hits : top(i) <= t /\ top(i) \in Nat
  BY <1>2, <1>5
<1> DEFINE firsts == {i \in hits : top(i) = t}
<1>7. firsts # {} /\ firsts \in SUBSET Nat
  BY <1>4, <1>5
<1>8. PICK i \in firsts : \A j \in firsts : i <= j
  <2> HIDE DEF firsts
  <2> QED BY <1>7, LeastExists
<1>9. \A j \in hits : top(j) < top(i) \/ (top(j) = top(i) /\ i <= j)
  BY <1>6, <1>8
<1>10. best \in hits
  BY <1>8, <1>9
<1> HIDE DEF best
<1> QED BY <1>1, <1>10 DEF hits

PrivateName(name, f, c) == DNS!matchDNSZone(name, f.zones) # None \/ DNS!isPrivateDNSName(name, c)

(* The stub has somewhere to send every query; for a private name that is one of the
   private resolvers of the file, otherwise the fallback at worst. *)
LEMMA ResolverOf ==
    ASSUME NEW f \in DNSFiles, NEW c, c = DNS!resolveVPIStubConfig(f), NEW name
    PROVE  LET r == DNS!resolverForDomain(name, f, c)
               asked == {r.doh, r.udp} \ {None}
           IN  /\ asked # {}
               /\ asked \subseteq DNS!PrivateNS(f) \cup {c.fallback}
               /\ PrivateName(name, f, c) => asked \subseteq DNS!PrivateNS(f)
<1> DEFINE z == DNS!matchDNSZone(name, f.zones)
           r == DNS!resolverForDomain(name, f, c)
           asked == {r.doh, r.udp} \ {None}
           Ns == DNS!PrivateNS(f)
<1>0. None \notin {DNS!MeshNS, DNS!PublicNS}
  BY DNSAssumption DEF DNS!DNSConstants
<1>1. c.upstream # None /\ c.upstream \in Ns /\ c.fallback # None
  BY <1>0 DEF DNS!resolveVPIStubConfig, DNS!firstNonEmpty, DNS!PrivateNS
<1>2. DNS!firstNonEmpty(f.defaultUpstream, c.upstream) \in Ns
  BY <1>1 DEF DNS!firstNonEmpty, DNS!PrivateNS
<1>3. ({f.defaultDoH, f.defaultUpstream} \ {None}) \subseteq Ns /\ None \notin Ns
  BY DEF DNS!PrivateNS
<1>4. CASE z # None /\ (z.doh # None \/ z.upstream # None)
  <2>1. r = DNS!Resolver(z.doh, z.upstream)
    BY <1>4 DEF DNS!resolverForDomain
  <2>2. PICK i \in DOMAIN f.zones : z = f.zones[i]
    BY <1>4, MatchIsZone
  <2>3. ({z.doh, z.upstream} \ {None}) \subseteq Ns
    BY <2>2 DEF DNS!PrivateNS
  <2> QED BY <1>4, <2>1, <2>3 DEF DNS!Resolver
<1>5. CASE z # None /\ z.doh = None /\ z.upstream = None
  <2>1. r = DNS!inherited(f, c)
    BY <1>5 DEF DNS!resolverForDomain
  <2> QED BY <1>2, <1>3, <2>1 DEF DNS!inherited, DNS!Resolver
<1>6. CASE z = None /\ DNS!isPrivateDNSName(name, c)
  <2>1. r = DNS!Resolver(f.defaultDoH, DNS!firstNonEmpty(f.defaultUpstream, c.upstream))
    BY <1>6 DEF DNS!resolverForDomain
  <2> QED BY <1>2, <1>3, <2>1 DEF DNS!Resolver
<1>7. CASE z = None /\ ~DNS!isPrivateDNSName(name, c)
  <2>1. r \in {DNS!Resolver(c.fallback, None), DNS!Resolver(None, c.fallback)}
    BY <1>7 DEF DNS!resolverForDomain
  <2> QED BY <1>1, <1>7, <2>1 DEF DNS!Resolver, PrivateName
<1> QED BY <1>4, <1>5, <1>6, <1>7

(* The resolvers a query may still be sent to. *)
PendingNS(q) == IF q.at \in {"doh", "udp"} THEN {q.doh, q.udp} \ {None} ELSE {}

(* The stub works with one file and what follows from it. *)
StubInv == d_dnsFile \in DNSFiles /\ d_cfg = DNS!resolveVPIStubConfig(d_dnsFile)

(* No step of a synchronisation takes a suffix that all snapshots keep. *)
SuffixInv ==
    /\ d_origin \in Snapshots \cup {None}
    /\ d_spc = "suffixes" => d_last \in Snapshots
    /\ DNS!Kept \subseteq d_suffixes

(* A query, with the resolvers it was and may yet be sent to. *)
QueryInv ==
    /\ DOMAIN d_query = {"at", "name", "doh", "udp"}
    /\ d_query.at = "doh" => d_query.doh # None
    /\ d_query.at = "udp" => d_query.udp # None
    /\ d_query.at = "idle" => d_sent = {}
    /\ PendingNS(d_query) \subseteq DNS!PrivateNS(d_dnsFile) \cup {d_cfg.fallback}
    /\ PrivateName(d_query.name, d_dnsFile, d_cfg) =>
         PendingNS(d_query) \cup d_sent \subseteq DNS!PrivateNS(d_dnsFile) \cup {DNS!RecursiveNS}
    /\ d_query.at = "recurse" \/ DNS!RecursiveNS \in d_sent =>
         \A s \in DNS!Kept : ~DNS!Under(d_query.name, s)

PrivateInv == StubInv /\ SuffixInv /\ QueryInv

LEMMA PrivateInvInit == DNS!Init => PrivateInv
<1> SUFFICES ASSUME DNS!Init PROVE PrivateInv
  OBVIOUS
<1>1. StubInv
  BY DEF DNS!Init, DNS!StartVPIStub, DNS!loadDNSConfig, StubInv
<1>2. SuffixInv
  BY DEF DNS!Init, DNS!Kept, SuffixInv
<1>3. QueryInv
  BY DEF DNS!Init, DNS!Idle, PendingNS, QueryInv
<1> QED BY <1>1, <1>2, <1>3 DEF PrivateInv

LEMMA StubStep ==
    ASSUME StubInv, [DNS!Next]_dnsVars
    PROVE  StubInv' /\ UNCHANGED <<d_dnsFile, d_cfg>>
<1>1. UNCHANGED <<d_dnsFile, d_cfg>>
  BY DEF dnsVars, DNS!Next, DNS!Forward, DNS!AskEdge, DNS!ExchangeDoH, DNS!ExchangeUDP, DNS!IsPrivate,
     DNS!Answer, DNS!Done, DNS!Start, DNS!PullFails, DNS!Pull, DNS!ReplaceSuffixes, DNS!ReapplyGlue,
     DNS!LoadZonePack, DNS!Tick, DNS!Stop, DNS!OriginChanges, DNS!PackChanges, DNS!stub
<1> QED BY <1>1 DEF StubInv

LEMMA SuffixStep ==
    ASSUME SuffixInv, [DNS!Next]_dnsVars
    PROVE  SuffixInv'
<1> USE DEF SuffixInv, DNS!world, DNS!edge, DNS!stub
<1>1. ASSUME NEW d \in Names, DNS!Forward(d) \/ DNS!AskEdge(d) PROVE SuffixInv'
  BY <1>1 DEF DNS!Forward, DNS!AskEdge
<1>2. CASE DNS!ExchangeDoH \/ DNS!ExchangeUDP \/ DNS!IsPrivate \/ DNS!Answer \/ DNS!Done
  BY <1>2 DEF DNS!ExchangeDoH, DNS!ExchangeUDP, DNS!IsPrivate, DNS!Answer, DNS!Done
<1>3. CASE DNS!Start \/ DNS!LoadZonePack
  BY <1>3 DEF DNS!Start, DNS!LoadZonePack
<1>4. CASE DNS!PullFails \/ DNS!Pull \/ DNS!ReapplyGlue \/ DNS!Tick \/ DNS!Stop
  BY <1>4 DEF DNS!PullFails, DNS!Pull, DNS!ReapplyGlue, DNS!Tick, DNS!Stop
<1>5. CASE DNS!ReplaceSuffixes
  <2>1. d_last.suffixes # {} => DNS!Kept \subseteq d_last.suffixes
    BY <1>5 DEF DNS!ReplaceSuffixes, DNS!Kept
  <2> QED BY <1>5, <2>1 DEF DNS!ReplaceSuffixes
<1>6. ASSUME NEW s \in Snapshots \cup {None}, DNS!OriginChanges(s) PROVE SuffixInv'
  BY <1>6 DEF DNS!OriginChanges
<1>7. ASSUME NEW p \in Packs, DNS!PackChanges(p) PROVE SuffixInv'
  BY <1>7 DEF DNS!PackChanges
<1>8. CASE UNCHANGED dnsVars
  BY <1>8 DEF dnsVars
<1> QED BY <1>1, <1>2, <1>3, <1>4, <1>5, <1>6, <1>7, <1>8 DEF DNS!Next

LEMMA QueryStep ==
    ASSUME DNS!ResolversApart, PrivateInv, [DNS!Next]_dnsVars
    PROVE  QueryInv'
<1> DEFINE Ns == DNS!PrivateNS(d_dnsFile)
<1>0. UNCHANGED <<d_dnsFile, d_cfg>> /\ StubInv /\ QueryInv
  BY StubStep DEF PrivateInv
<1>1. DNS!RecursiveNS \notin Ns \cup {d_cfg.fallback}
  BY <1>0 DEF DNS!ResolversApart, StubInv, DNS!resolveVPIStubConfig
<1> HIDE DEF Ns
<1>2. ASSUME NEW d \in Names, DNS!Forward(d) PROVE QueryInv'
  <2> DEFINE r == DNS!resolverForDomain(d, d_dnsFile, d_cfg)
  <2>1. /\ d_query' = [at |-> IF r.doh # None THEN "doh" ELSE "udp", name |-> d,
                       doh |-> r.doh, udp |-> r.udp]
        /\ d_sent' = {}
    BY <1>2 DEF DNS!Forward
  <2>2. /\ {r.doh, r.udp} \ {None} # {}
        /\ ({r.doh, r.udp} \ {None}) \subseteq Ns \cup {d_cfg.fallback}
        /\ PrivateName(d, d_dnsFile, d_cfg) => ({r.doh, r.udp} \ {None}) \subseteq Ns
    BY <1>0, ResolverOf DEF StubInv, Ns
  <2> HIDE DEF r
  <2>3. PendingNS(d_query') = {r.doh, r.udp} \ {None}
    BY <2>1 DEF PendingNS
  <2> QED BY <1>0, <2>1, <2>2, <2>3 DEF QueryInv, Ns
<1>3. CASE DNS!ExchangeDoH
  <2>1. d_query.at = "doh" /\ d_query.doh # None /\ d_sent' = d_sent \cup {d_query.doh}
        /\ d_query.doh \in PendingNS(d_query)
    BY <1>0, <1>3 DEF DNS!ExchangeDoH, PendingNS, QueryInv
  <2>2. \/ d_query' = [d_query EXCEPT !.at = "done"]
        \/ d_query' = [d_query EXCEPT !.at = "udp"] /\ d_query.udp # None
    BY <1>3 DEF DNS!ExchangeDoH
  <2>3. PendingNS(d_query') \subseteq PendingNS(d_query)
    BY <1>0, <2>1, <2>2 DEF PendingNS, QueryInv
  <2>4. d_query.doh # DNS!RecursiveNS
    BY <1>0, <1>1, <2>1 DEF QueryInv, Ns
  <2>5. /\ d_query'.name = d_query.name /\ d_query'.at \in {"done", "udp"}
        /\ d_query'.at = "udp" => d_query'.udp # None
        /\ DOMAIN d_query' = {"at", "name", "doh", "udp"}
    BY <1>0, <2>2 DEF QueryInv
  <2> QED BY <1>0, <2>1, <2>3, <2>4, <2>5 DEF QueryInv
<1>4. CASE DNS!ExchangeUDP
  <2>1. d_query.at = "udp" /\ d_query.udp # None /\ d_sent' = d_sent \cup {d_query.udp}
        /\ d_query.udp \in PendingNS(d_query)
    BY <1>0, <1>4 DEF DNS!ExchangeUDP, PendingNS, QueryInv
  <2>2. /\ d_query'.name = d_query.name /\ d_query'.at \in {"edge", "done"}
        /\ DOMAIN d_query' = {"at", "name", "doh", "udp"}
    BY <1>4 DEF DNS!ExchangeUDP, DNS!Idle
  <2>3. PendingNS(d_query') = {}
    BY <2>2 DEF PendingNS
  <2>4. d_query.udp # DNS!RecursiveNS
    BY <1>0, <1>1, <2>1 DEF QueryInv, Ns
  <2> QED BY <1>0, <2>1, <2>2, <2>3, <2>4 DEF QueryInv
<1>5. ASSUME NEW d \in Names, DNS!AskEdge(d) PROVE QueryInv'
  <2>1. d_sent' = {} /\ d_query'.at = "edge" /\ DOMAIN d_query' = {"at", "name", "doh", "udp"}
    BY <1>5 DEF DNS!AskEdge, DNS!Idle
  <2> QED BY <2>1 DEF QueryInv, PendingNS
<1>6. CASE DNS!IsPrivate
  <2>1. /\ d_query'.name = d_query.name /\ d_query'.at \in {"zone", "recurse"} /\ d_sent' = d_sent
        /\ DOMAIN d_query' = {"at", "name", "doh", "udp"}
    BY <1>0, <1>6 DEF DNS!IsPrivate, QueryInv
  <2>2. d_query'.at = "recurse" => \A s \in d_suffixes : ~DNS!Under(d_query.name, s)
    BY <1>0, <1>6 DEF DNS!IsPrivate, QueryInv
  <2>3. PendingNS(d_query') = {}
    BY <2>1 DEF PendingNS
  <2> QED BY <1>0, <2>1, <2>2, <2>3 DEF QueryInv, PrivateInv, SuffixInv
<1>7. CASE DNS!Answer
  <2>1. /\ d_query'.name = d_query.name /\ d_query'.at = "done"
        /\ DOMAIN d_query' = {"at", "name", "doh", "udp"}
    BY <1>0, <1>7 DEF DNS!Answer, QueryInv
  <2>2. \/ d_sent' = d_sent
        \/ d_query.at = "recurse" /\ d_sent' = d_sent \cup {DNS!RecursiveNS}
    BY <1>7 DEF DNS!Answer
  <2>3. PendingNS(d_query') = {}
    BY <2>1 DEF PendingNS
  <2> QED BY <1>0, <2>1, <2>2, <2>3 DEF QueryInv
<1>8. CASE DNS!Done
  BY <1>8 DEF DNS!Done, DNS!Idle, QueryInv, PendingNS
<1>9. ASSUME UNCHANGED <<d_query, d_sent>> PROVE QueryInv'
  BY <1>0, <1>9 DEF QueryInv
<1>10. CASE \/ DNS!Start \/ DNS!PullFails \/ DNS!Pull \/ DNS!ReplaceSuffixes \/ DNS!ReapplyGlue
            \/ DNS!LoadZonePack \/ DNS!Tick \/ DNS!Stop
            \/ \E s \in Snapshots \cup {None} : DNS!OriginChanges(s)
            \/ \E p \in Packs : DNS!PackChanges(p)
            \/ UNCHANGED dnsVars
  BY <1>9, <1>10 DEF DNS!Start, DNS!PullFails, DNS!Pull, DNS!ReplaceSuffixes, DNS!ReapplyGlue,
     DNS!LoadZonePack, DNS!Tick, DNS!Stop, DNS!OriginChanges, DNS!PackChanges, dnsVars
<1> QED BY <1>2, <1>3, <1>4, <1>5, <1>6, <1>7, <1>8, <1>10 DEF DNS!Next

(* For every set of files, snapshots, packs and names: a private name is asked of no
   public resolver, by the stub or by the edge, wherever a synchronisation stands,
   provided that the files themselves do not name a public resolver for it. *)
THEOREM PrivateNamesStayPrivate == DNS!ResolversApart /\ ServiceSpec => []PrivateStaysPrivate
<1> SUFFICES ASSUME DNS!ResolversApart PROVE ServiceSpec => []PrivateStaysPrivate
  OBVIOUS
<1>1. ServiceInit => PrivateInv
  BY PrivateInvInit DEF ServiceInit
<1>2. PrivateInv /\ [ServiceNext]_allVars => PrivateInv'
  BY ComponentStep, StubStep, SuffixStep, QueryStep DEF PrivateInv
<1>3. PrivateInv => PrivateStaysPrivate
  <2> SUFFICES ASSUME PrivateInv PROVE PrivateStaysPrivate
    OBVIOUS
  <2>1. d_cfg.fallback \notin DNS!PrivateNS(d_dnsFile) \cup {DNS!RecursiveNS}
    BY DEF PrivateInv, StubInv, DNS!ResolversApart, DNS!resolveVPIStubConfig
  <2> QED BY <2>1 DEF PrivateInv, QueryInv, PrivateName, PrivateStaysPrivate, DNS!PrivateStaysPrivate,
         DNS!Private
<1> QED BY <1>1, <1>2, <1>3, PTL DEF ServiceSpec

--------------------------------------------------------------------------------
(* THE ZONE OF THE EDGE *)

(* A pack that loads has records and suffixes, and records of the edge's domains. *)
LEMMA LoadPack ==
    ASSUME NEW p \in Packs, DNS!Load(p) # None
    PROVE  /\ DOMAIN DNS!Load(p) = {"records", "suffixes"}
           /\ DOMAIN DNS!Load(p).records \subseteq DNS!RecordKeys
<1>1. p # None
  BY DEF DNS!Load
<1>2. /\ Len(p.parts) \in Nat \ {0} /\ DOMAIN p.parts = 1 .. Len(p.parts)
      /\ \A i \in DOMAIN p.parts :
           p.parts[i] # None => /\ DOMAIN p.parts[i] = {"records", "suffixes"}
                                /\ DOMAIN p.parts[i].records \subseteq DNS!RecordKeys
  BY <1>1, DNSAssumption DEF DNS!DNSConstants
<1>3. CASE ~p.dir
  <2>1. DNS!Load(p) = p.parts[1] /\ 1 \in DOMAIN p.parts
    BY <1>1, <1>2, <1>3 DEF DNS!Load
  <2> QED BY <1>2, <2>1
<1>4. CASE p.dir
  <2> DEFINE keys == UNION {DOMAIN p.parts[i].records : i \in DOMAIN p.parts}
  <2>1. DNS!Load(p) = DNS!loadDir(p.parts)
    BY <1>1, <1>4 DEF DNS!Load
  <2>2. \A i \in DOMAIN p.parts : p.parts[i] # None
    BY <2>1 DEF DNS!loadDir
  <2>3. DOMAIN DNS!loadDir(p.parts) = {"records", "suffixes"} /\ DOMAIN DNS!loadDir(p.parts).records = keys
    BY <2>1 DEF DNS!loadDir
  <2>4. keys \subseteq DNS!RecordKeys
    BY <1>2, <2>2
  <2> QED BY <2>1, <2>3, <2>4
<1> QED BY <1>3, <1>4

(* What the edge applies by itself. *)
LEMMA Glue ==
    /\ DOMAIN DNS!NSGlue = {<<NSHost, "A">>} /\ DNS!NSGlue[<<NSHost, "A">>] = "vip"
    /\ DOMAIN DNS!TLDGlue = {<<<<t>>, "NS">> : t \in TLDs}
    /\ DOMAIN DNS!NSGlue \subseteq DNS!RecordKeys /\ DOMAIN DNS!TLDGlue \subseteq DNS!RecordKeys
    /\ <<NSHost, "A">> \notin DOMAIN DNS!TLDGlue
  BY DEF DNS!NSGlue, DNS!TLDGlue, DNS!RecordKeys, DNS!Domains

LEMMA Upserted ==
    ASSUME NEW recs, NEW z
    PROVE  /\ DOMAIN DNS!Upsert(recs, z) = DOMAIN recs \cup DOMAIN z
           /\ \A k \in DOMAIN recs : DNS!Upsert(recs, z)[k] = recs[k]
           /\ \A k \in DOMAIN z \ DOMAIN recs : DNS!Upsert(recs, z)[k] = z[k]
  BY DEF DNS!Upsert

(* A zone with the edge's own glue, and one with the records of a pack. *)
HasGlue(z) ==
    /\ <<NSHost, "A">> \in DOMAIN z /\ z[<<NSHost, "A">>] = "vip"
    /\ \A t \in TLDs : <<<<t>>, "NS">> \in DOMAIN z
HasPack(z, sfx, p) ==
    p # None => /\ p.suffixes \subseteq sfx
                /\ \A k \in DOMAIN p.records \ {<<NSHost, "A">>} : z[k] = p.records[k]

(* The syncer replaces the zone first, then puts back what is local: the glue is
   there again when the pack is due, the pack when the syncer waits. Records of the
   snapshot are overwritten, never removed. *)
EdgeInv ==
    /\ d_spc \in {"pack", "pull", "wait", "exit"} => HasGlue(d_zone)
    /\ d_spc \in {"pull", "wait", "exit"} => HasPack(d_zone, d_suffixes, d_packed)
    /\ d_last # None => d_spc # "start" /\ DOMAIN d_last.records \subseteq DOMAIN d_zone

(* Applying a pack to a zone with the glue. *)
LEMMA PackApplied ==
    ASSUME NEW z, NEW p, NEW sfx, p # None, \A t \in TLDs : <<<<t>>, "NS">> \in DOMAIN z
    PROVE  LET y == DNS!Upsert(DNS!NSGlue, DNS!Upsert(p.records, z))
           IN  HasGlue(y) /\ HasPack(y, sfx \cup p.suffixes, p) /\ DOMAIN z \subseteq DOMAIN y
<1> DEFINE x == DNS!Upsert(p.records, z)
           y == DNS!Upsert(DNS!NSGlue, x)
<1>1. /\ DOMAIN x = DOMAIN p.records \cup DOMAIN z
      /\ \A k \in DOMAIN p.records : x[k] = p.records[k]
  BY Upserted
<1> HIDE DEF x
<1>2. /\ DOMAIN y = {<<NSHost, "A">>} \cup DOMAIN x
      /\ y[<<NSHost, "A">>] = "vip"
      /\ \A k \in DOMAIN x \ {<<NSHost, "A">>} : y[k] = x[k]
  <2>1. /\ DOMAIN y = DOMAIN DNS!NSGlue \cup DOMAIN x
        /\ \A k \in DOMAIN DNS!NSGlue : y[k] = DNS!NSGlue[k]
        /\ \A k \in DOMAIN x \ DOMAIN DNS!NSGlue : y[k] = x[k]
    BY Upserted
  <2> HIDE DEF y
  <2> QED BY <2>1, Glue
<1> HIDE DEF y
<1>3. HasGlue(y)
  BY <1>1, <1>2 DEF HasGlue
<1>4. HasPack(y, sfx \cup p.suffixes, p)
  BY <1>1, <1>2 DEF HasPack
<1> QED BY <1>1, <1>2, <1>3, <1>4 DEF x, y

LEMMA EdgeStep ==
    ASSUME EdgeInv, [DNS!Next]_dnsVars
    PROVE  EdgeInv'
<1> USE DEF DNS!world, DNS!edge, DNS!stub
<1>1. CASE DNS!Start
  <2> DEFINE p == DNS!Load(d_disk)
             more == [k \in {<<<<t>>, "TXT">> : t \in TLDs} \cup ({Zone} \X {"A", "NS", "TXT"}) |->
                         CASE k[2] = "A" -> "vip" [] k[2] = "NS" -> NSHost [] OTHER -> "glue"]
             seeds == DNS!Upsert(DNS!Upsert(DNS!NSGlue, DNS!TLDGlue), more)
  <2>1. /\ d_spc = "start" /\ d_spc' = "pull" /\ d_packed' = p /\ d_last' = d_last
        /\ d_zone' = IF p = None THEN seeds ELSE DNS!Upsert(DNS!NSGlue, DNS!Upsert(p.records, seeds))
        /\ d_suffixes' = d_suffixes \cup (IF p = None THEN {} ELSE p.suffixes)
    BY <1>1 DEF DNS!Start
  <2> HIDE DEF p, more
  <2>2. HasGlue(seeds)
    <3> DEFINE own == DNS!Upsert(DNS!NSGlue, DNS!TLDGlue)
    <3>1. /\ DOMAIN own = {<<NSHost, "A">>} \cup {<<<<t>>, "NS">> : t \in TLDs}
          /\ own[<<NSHost, "A">>] = "vip"
      BY Upserted, Glue
    <3> HIDE DEF own
    <3>2. DOMAIN seeds = DOMAIN own \cup DOMAIN more /\ \A k \in DOMAIN own : seeds[k] = own[k]
      BY Upserted DEF own
    <3> HIDE DEF seeds
    <3> QED BY <3>1, <3>2 DEF HasGlue
  <2> HIDE DEF seeds
  <2>3. HasGlue(d_zone') /\ HasPack(d_zone', d_suffixes', d_packed')
    <3>1. CASE p = None
      BY <2>1, <2>2, <3>1 DEF HasPack
    <3>2. CASE p # None
      <4>1. \A t \in TLDs : <<<<t>>, "NS">> \in DOMAIN seeds
        BY <2>2 DEF HasGlue
      <4> QED BY <2>1, <3>2, <4>1, PackApplied
    <3> QED BY <3>1, <3>2
  <2> QED BY <2>1, <2>3 DEF EdgeInv
<1>2. CASE DNS!Pull
  <2>1. /\ d_spc' = "suffixes" /\ d_last' = d_origin /\ d_zone' = d_origin.records
    BY <1>2 DEF DNS!Pull
  <2> QED BY <2>1 DEF EdgeInv
<1>3. CASE DNS!ReplaceSuffixes
  BY <1>3 DEF DNS!ReplaceSuffixes, EdgeInv
<1>4. CASE DNS!ReapplyGlue
  <2> DEFINE x == DNS!Upsert(DNS!NSGlue, d_zone)
             y == DNS!Upsert(DNS!TLDGlue, x)
  <2>1. d_spc = "glue" /\ d_spc' = "pack" /\ d_last' = d_last /\ d_zone' = y
    BY <1>4 DEF DNS!ReapplyGlue
  <2>2. DOMAIN x = {<<NSHost, "A">>} \cup DOMAIN d_zone /\ x[<<NSHost, "A">>] = "vip"
    <3>1. /\ DOMAIN x = DOMAIN DNS!NSGlue \cup DOMAIN d_zone
          /\ \A k \in DOMAIN DNS!NSGlue : x[k] = DNS!NSGlue[k]
      BY Upserted
    <3> HIDE DEF x
    <3> QED BY <3>1, Glue
  <2> HIDE DEF x
  <2>3. /\ DOMAIN y = {<<<<t>>, "NS">> : t \in TLDs} \cup DOMAIN x
        /\ y[<<NSHost, "A">>] = x[<<NSHost, "A">>]
    <3>1. /\ DOMAIN y = DOMAIN DNS!TLDGlue \cup DOMAIN x
          /\ \A k \in DOMAIN x \ DOMAIN DNS!TLDGlue : y[k] = x[k]
      BY Upserted
    <3> HIDE DEF y
    <3> QED BY <2>2, <3>1, Glue
  <2> HIDE DEF y
  <2>4. HasGlue(d_zone') /\ DOMAIN d_zone \subseteq DOMAIN d_zone'
    BY <2>1, <2>2, <2>3 DEF HasGlue
  <2> QED BY <2>1, <2>4 DEF EdgeInv
<1>5. CASE DNS!LoadZonePack
  <2> DEFINE p == DNS!Load(d_disk)
  <2>1. /\ d_spc = "pack" /\ d_spc' = "wait" /\ d_packed' = p /\ d_last' = d_last
        /\ d_zone' = IF p = None THEN d_zone ELSE DNS!Upsert(DNS!NSGlue, DNS!Upsert(p.records, d_zone))
        /\ d_suffixes' = d_suffixes \cup (IF p = None THEN {} ELSE p.suffixes)
    BY <1>5 DEF DNS!LoadZonePack
  <2> HIDE DEF p
  <2>2. HasGlue(d_zone)
    BY <2>1 DEF EdgeInv
  <2>3. /\ HasGlue(d_zone') /\ HasPack(d_zone', d_suffixes', d_packed')
        /\ DOMAIN d_zone \subseteq DOMAIN d_zone'
    <3>1. CASE p = None
      BY <2>1, <2>2, <3>1 DEF HasPack
    <3>2. CASE p # None
      <4>1. \A t \in TLDs : <<<<t>>, "NS">> \in DOMAIN d_zone
        BY <2>2 DEF HasGlue
      <4> QED BY <2>1, <3>2, <4>1, PackApplied
    <3> QED BY <3>1, <3>2
  <2> QED BY <2>1, <2>3 DEF EdgeInv
<1>6. CASE DNS!PullFails \/ DNS!Tick
  BY <1>6 DEF DNS!PullFails, DNS!Tick, EdgeInv
<1>7. ASSUME UNCHANGED <<d_zone, d_suffixes, d_last, d_packed, d_spc>> PROVE EdgeInv'
  BY <1>7 DEF EdgeInv
<1>8. CASE \/ \E d \in Names : DNS!Forward(d) \/ DNS!AskEdge(d)
           \/ DNS!ExchangeDoH \/ DNS!ExchangeUDP \/ DNS!IsPrivate \/ DNS!Answer \/ DNS!Done \/ DNS!Stop
           \/ \E s \in Snapshots \cup {None} : DNS!OriginChanges(s)
           \/ \E p \in Packs : DNS!PackChanges(p)
           \/ UNCHANGED dnsVars
  BY <1>7, <1>8 DEF DNS!Forward, DNS!AskEdge, DNS!ExchangeDoH, DNS!ExchangeUDP, DNS!IsPrivate,
     DNS!Answer, DNS!Done, DNS!Stop, DNS!OriginChanges, DNS!PackChanges, dnsVars
<1> QED BY <1>1, <1>2, <1>3, <1>4, <1>5, <1>6, <1>8 DEF DNS!Next

(* For every set of snapshots and packs: whenever the syncer rests, the edge serves
   its own glue, the pack it read last and every record of the snapshot it has. *)
THEOREM EdgeServesAllSources == ServiceSpec => []EdgeServesAll
<1>1. ServiceInit => EdgeInv
  BY DEF ServiceInit, DNS!Init, EdgeInv
<1>2. EdgeInv /\ [ServiceNext]_allVars => EdgeInv'
  BY ComponentStep, EdgeStep
<1>3. EdgeInv => EdgeServesAll
  BY DEF EdgeInv, HasGlue, HasPack, EdgeServesAll, DNS!EdgeServesAll
<1> QED BY <1>1, <1>2, <1>3, PTL DEF ServiceSpec

--------------------------------------------------------------------------------
(* TYPES *)

DnsType == DNS!TypeOK /\ DOMAIN d_query = {"at", "name", "doh", "udp"}

LEMMA UpsertKeys ==
    ASSUME NEW recs, NEW z, DOMAIN recs \subseteq DNS!RecordKeys, DOMAIN z \subseteq DNS!RecordKeys
    PROVE  DOMAIN DNS!Upsert(recs, z) \subseteq DNS!RecordKeys
<1>1. DOMAIN DNS!Upsert(recs, z) = DOMAIN recs \cup DOMAIN z
  BY Upserted
<1> QED BY <1>1

LEMMA DnsTypeInit == DNS!Init => DnsType
<1> SUFFICES ASSUME DNS!Init PROVE DnsType
  OBVIOUS
<1>1. d_dnsFile \in DNSFiles /\ DOMAIN d_cfg = {"upstream", "fallback", "suffixes"}
  BY DEF DNS!Init, DNS!StartVPIStub, DNS!loadDNSConfig, DNS!resolveVPIStubConfig
<1>2. d_query.at = "idle" /\ DOMAIN d_query = {"at", "name", "doh", "udp"}
  BY DEF DNS!Init, DNS!Idle
<1>3. DOMAIN d_zone \subseteq DNS!RecordKeys
  <2>1. d_zone = << >>
    BY DEF DNS!Init
  <2>2. DOMAIN d_zone = {}
    BY <2>1
  <2> QED BY <2>2
<1>4. /\ d_origin \in Snapshots \cup {None} /\ d_last \in Snapshots \cup {None}
      /\ d_disk \in Packs /\ d_packed = None /\ d_spc = "start" /\ d_stopped = FALSE
  BY DEF DNS!Init
<1> QED BY <1>1, <1>2, <1>3, <1>4 DEF DnsType, DNS!TypeOK

LEMMA DnsTypeStep ==
    ASSUME DnsType, [DNS!Next]_dnsVars
    PROVE  DnsType'
<1> USE DEF DnsType, DNS!TypeOK, DNS!world, DNS!edge, DNS!stub
<1>g. DOMAIN DNS!NSGlue \subseteq DNS!RecordKeys /\ DOMAIN DNS!TLDGlue \subseteq DNS!RecordKeys
  BY Glue
<1>1. CASE \/ \E d \in Names : DNS!Forward(d) \/ DNS!AskEdge(d)
           \/ DNS!ExchangeDoH \/ DNS!ExchangeUDP
  <2>1. d_query'.at \in {"doh", "udp", "done", "edge"} /\ DOMAIN d_query' = {"at", "name", "doh", "udp"}
    <3>1. ASSUME NEW d \in Names, DNS!Forward(d)
          PROVE  /\ d_query'.at \in {"doh", "udp", "done", "edge"}
                 /\ DOMAIN d_query' = {"at", "name", "doh", "udp"}
      BY <3>1 DEF DNS!Forward
    <3>2. ASSUME NEW d \in Names, DNS!AskEdge(d)
          PROVE  /\ d_query'.at \in {"doh", "udp", "done", "edge"}
                 /\ DOMAIN d_query' = {"at", "name", "doh", "udp"}
      BY <3>2 DEF DNS!AskEdge, DNS!Idle
    <3>3. CASE DNS!ExchangeDoH
      BY <3>3 DEF DNS!ExchangeDoH
    <3>4. CASE DNS!ExchangeUDP
      BY <3>4 DEF DNS!ExchangeUDP, DNS!Idle
    <3> QED BY <1>1, <3>1, <3>2, <3>3, <3>4
  <2>2. UNCHANGED <<DNS!stub, DNS!world, DNS!edge, d_spc>>
    <3>1. ASSUME NEW d \in Names, DNS!Forward(d) \/ DNS!AskEdge(d)
          PROVE  UNCHANGED <<DNS!stub, DNS!world, DNS!edge, d_spc>>
      BY <3>1 DEF DNS!Forward, DNS!AskEdge
    <3>2. CASE DNS!ExchangeDoH \/ DNS!ExchangeUDP
      BY <3>2 DEF DNS!ExchangeDoH, DNS!ExchangeUDP
    <3> QED BY <1>1, <3>1, <3>2
  <2> QED BY <2>1, <2>2
<1>2. CASE DNS!IsPrivate \/ DNS!Answer \/ DNS!Done
  <2>1. d_query'.at \in {"zone", "recurse", "done", "idle"} /\ DOMAIN d_query' = {"at", "name", "doh", "udp"}
    BY <1>2 DEF DNS!IsPrivate, DNS!Answer, DNS!Done, DNS!Idle
  <2> QED BY <1>2, <2>1 DEF DNS!IsPrivate, DNS!Answer, DNS!Done
<1>3. ASSUME NEW z, DOMAIN z \subseteq DNS!RecordKeys, DNS!Load(d_disk) # None
      PROVE  /\ DOMAIN DNS!Load(d_disk) = {"records", "suffixes"}
             /\ DOMAIN DNS!Upsert(DNS!NSGlue, DNS!Upsert(DNS!Load(d_disk).records, z)) \subseteq DNS!RecordKeys
  <2>1. /\ DOMAIN DNS!Load(d_disk) = {"records", "suffixes"}
        /\ DOMAIN DNS!Load(d_disk).records \subseteq DNS!RecordKeys
    BY <1>3, LoadPack
  <2>2. DOMAIN DNS!Upsert(DNS!Load(d_disk).records, z) \subseteq DNS!RecordKeys
    BY <1>3, <2>1, UpsertKeys
  <2> QED BY <2>1, <2>2, <1>g, UpsertKeys
<1>4. CASE DNS!Start
  <2> DEFINE more == [k \in {<<<<t>>, "TXT">> : t \in TLDs} \cup ({Zone} \X {"A", "NS", "TXT"}) |->
                         CASE k[2] = "A" -> "vip" [] k[2] = "NS" -> NSHost [] OTHER -> "glue"]
             own == DNS!Upsert(DNS!NSGlue, DNS!TLDGlue)
             seeds == DNS!Upsert(own, more)
  <2>1. DOMAIN more \subseteq DNS!RecordKeys
    BY DEF DNS!RecordKeys, DNS!Domains
  <2>2. DOMAIN own \subseteq DNS!RecordKeys
    BY <1>g, UpsertKeys
  <2>3. d_zone' = IF DNS!Load(d_disk) = None THEN seeds
                  ELSE DNS!Upsert(DNS!NSGlue, DNS!Upsert(DNS!Load(d_disk).records, seeds))
    BY <1>4 DEF DNS!Start
  <2> HIDE DEF more, own
  <2>4. DOMAIN seeds \subseteq DNS!RecordKeys
    BY <2>1, <2>2, UpsertKeys
  <2> HIDE DEF seeds
  <2>5. DOMAIN d_zone' \subseteq DNS!RecordKeys
    BY <1>3, <2>3, <2>4
  <2> QED BY <1>3, <1>4, <2>4, <2>5 DEF DNS!Start
<1>5. CASE DNS!LoadZonePack
  <2>1. DOMAIN d_zone' \subseteq DNS!RecordKeys
    BY <1>3, <1>5 DEF DNS!LoadZonePack
  <2> QED BY <1>3, <1>5, <2>1 DEF DNS!LoadZonePack
<1>6. CASE DNS!Pull
  <2>1. DOMAIN d_zone' \subseteq DNS!RecordKeys
    BY <1>6, DNSAssumption DEF DNS!Pull, DNS!DNSConstants
  <2> QED BY <1>6, <2>1 DEF DNS!Pull
<1>7. CASE DNS!ReapplyGlue
  <2>1. DOMAIN DNS!Upsert(DNS!NSGlue, d_zone) \subseteq DNS!RecordKeys
    BY <1>g, UpsertKeys
  <2>2. DOMAIN d_zone' \subseteq DNS!RecordKeys
    BY <1>7, <1>g, <2>1, UpsertKeys DEF DNS!ReapplyGlue
  <2> QED BY <1>7, <2>2 DEF DNS!ReapplyGlue
<1>8. CASE DNS!PullFails \/ DNS!ReplaceSuffixes \/ DNS!Tick \/ DNS!Stop
  BY <1>8 DEF DNS!PullFails, DNS!ReplaceSuffixes, DNS!Tick, DNS!Stop
<1>9. CASE \/ \E s \in Snapshots \cup {None} : DNS!OriginChanges(s)
           \/ \E p \in Packs : DNS!PackChanges(p)
  BY <1>9 DEF DNS!OriginChanges, DNS!PackChanges
<1>10. CASE UNCHANGED dnsVars
  BY <1>10 DEF dnsVars
<1> QED BY <1>1, <1>2, <1>4, <1>5, <1>6, <1>7, <1>8, <1>9, <1>10 DEF DNS!Next

(* For all constants, every component keeps its types, whichever service runs. The
   hub needs its inductive invariant for that (a blob of an image is sent only at an
   index of the image), the stack that its products are known ones. *)
THEOREM ServiceTypeCorrect == ServiceSpec => []ServiceTypeOK
<1> DEFINE I == HubInv /\ HubType /\ StackInv /\ VH!TypeOK /\ DnsType
<1>1. ServiceInit => I
  <2>1. ServiceInit => HubInv /\ HubType
    BY HubAssumption DEF ServiceInit, HubInv, HubType, TypeOK, PublisherType, BlobsMatch, Uploaded,
       ManifestsPull, Steps, Sending, Sent
  <2> QED BY <2>1, StackInvInit, VHostTypeInit, DnsTypeInit DEF ServiceInit
<1>2. I /\ [ServiceNext]_allVars => I'
  BY ComponentStep, HubInvStep, HubTypeNext, StackInvStep, VHostTypeStep, DnsTypeStep
<1>3. I => ServiceTypeOK
  <2>1. StackInv => Stack!TypeOK
    BY DEF StackInv, StackType, Resolved, Stack!TypeOK
  <2> QED BY <2>1 DEF HubType, DnsType, ServiceTypeOK
<1> HIDE DEF I
<1> QED BY <1>1, <1>2, <1>3, PTL DEF ServiceSpec

(* The hub's invariant holds among the services too: what can be pulled is complete. *)
THEOREM ServicePullsComplete == ServiceSpec => []PullsComplete
<1>1. ServiceInit => HubInv
  BY HubAssumption DEF ServiceInit, HubInv, PublisherType, BlobsMatch, Uploaded, ManifestsPull, Steps,
     Sending, Sent
<1>2. HubInv /\ [ServiceNext]_allVars => HubInv'
  BY ComponentStep, HubInvStep
<1>3. HubInv => PullsComplete
  BY DEF HubInv, BlobsMatch, ManifestsPull, PullsComplete, pullManifest, pullBlob
<1> QED BY <1>1, <1>2, <1>3, PTL DEF ServiceSpec
================================================================================
