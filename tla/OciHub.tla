--------------------------------- MODULE OciHub ---------------------------------
(* The image hub (hub.go, hub_s3.go) and the processes that publish to it
   (hub_publish.go, hub_oci_push.go, barge_k3s_hub.go). The hub keeps upload
   sessions in memory under h.mu; blobs, manifests and the list of tags of a
   repository are objects of a store whose calls may fail. Only authenticated
   requests write; the publishers here have the token.

   A publisher pushes every product of its list: first the local image with
   `k3s ctr images push`, an external client that sends chunks in a session, under
   one local name after the other until one is pushed; if all fail, the packed binary
   with the client of hub_oci_push.go: a POST with the whole blob, and a session
   when that is refused. The hub may restart at any time: sessions are gone, and a
   request that was being served gets no answer.

   A blob is written d for content and digest alike; what was received is the
   sequence of its chunks, and hashes to d only when it is <<d>>. *)
EXTENDS Integers, Sequences, FiniteSets

CONSTANTS
    Publishers,
    Images,      \* images, and the digests of their manifests
    Blobs,       \* blob contents
    BlobsOf,     \* BlobsOf[m]: config and layers of image m, in the order of the push
    Tags,
    TagOf,       \* TagOf[m]: the tag image m is pushed under
    Products,    \* Products[p]: the images publisher p has to push
    LocalNames,  \* how many local names of an image are tried
    None

ASSUME HubAssumption ==
    /\ BlobsOf \in [Images -> Seq(Blobs)] /\ TagOf \in [Images -> Tags]
    /\ \A m \in Images : BlobsOf[m] # <<>>    \* the config at least
    /\ Products \in [Publishers -> SUBSET Images] /\ LocalNames \in Nat \ {0}
    /\ Tags \cap Images = {} /\ None \notin Tags \cup Images \cup Publishers

VARIABLES
    blobs,      \* store: blobs[d] is what is stored under digest d
    manifests,  \* store: the image under a tag or a manifest digest
    tags,       \* store: the list of tags, a set here
    upload,     \* h.upload: the chunks received in a session (one per publisher)
    mu,         \* h.mu while a request body is read under it: its holder or None
    pc, todo, image, n,   \* a publisher: its step, products left, image, blob index
    left,       \* local names left, with the one being pushed; 0: the binary is packed
    listed,     \* the list of tags that indexTag has read
    failed      \* products that could not be published

store == <<blobs, manifests, tags>>
vars == <<store, upload, mu, pc, todo, image, n, left, listed, failed>>

(* Steps of the two clients; a "ctr_" step belongs to k3s ctr images push. *)
Steps == {"next", "ctr_start", "ctr_patch", "ctr_chunk", "ctr_put", "pack", "post", "start", "put",
          "body", "commit", "manifest", "digest", "index", "save", "pushed", "failed", "exit"}

TypeOK ==
    /\ DOMAIN blobs \subseteq Blobs
    /\ manifests \in [DOMAIN manifests -> Images] /\ DOMAIN manifests \subseteq Tags \cup Images
    /\ tags \subseteq Tags
    /\ upload \in [Publishers -> Seq(Blobs) \cup {None}]
    /\ mu \in Publishers \cup {None}
    /\ pc \in [Publishers -> Steps]
    /\ todo \in [Publishers -> SUBSET Images] /\ failed \in [Publishers -> SUBSET Images]
    /\ image \in [Publishers -> Images \cup {None}]
    /\ \A p \in Publishers : n[p] \in Nat
    /\ left \in [Publishers -> 0 .. LocalNames]
    /\ listed \in [Publishers -> SUBSET Tags]

Init ==
    /\ blobs = <<>> /\ manifests = <<>> /\ tags = {}
    /\ upload = [p \in Publishers |-> None] /\ mu = None
    /\ pc = [p \in Publishers |-> "next"] /\ todo = Products
    /\ image = [p \in Publishers |-> None] /\ n = [p \in Publishers |-> 1]
    /\ left = [p \in Publishers |-> 0]
    /\ listed = [p \in Publishers |-> {}] /\ failed = [p \in Publishers |-> {}]

Goto(p, l) == pc' = [pc EXCEPT ![p] = l]
Blob(p) == BlobsOf[image[p]][n[p]]
Put(f, k, v) == [x \in DOMAIN f \cup {k} |-> IF x = k THEN v ELSE f[x]]

Keep(rest) == UNCHANGED <<todo, image, failed>> /\ UNCHANGED rest

--------------------------------------------------------------------------------
(* The hub. *)

(* Mutant: the digest is not checked. *)
MutantCommitBlob(d, data) == data # <<>> /\ blobs' = Put(blobs, d, data)

(* commitBlob succeeds: the digest matches and the store takes the blob. *)
commitBlob(d, data) == data = <<d>> /\ blobs' = Put(blobs, d, data)

(* The publisher goes on to the next blob, or to the manifest. *)
NextBlob(p, l) ==
    /\ IF n[p] = Len(BlobsOf[image[p]])
         THEN n' = n /\ Goto(p, "manifest")
         ELSE n' = [n EXCEPT ![p] = @ + 1] /\ Goto(p, l)
    /\ UNCHANGED left

(* What publishers S do when a request of theirs fails: a push by ctr has failed, and
   the next local name is tried; after the last one the binary is packed; when that
   client gives up too, the product has failed. *)
GiveUp(S) ==
    /\ pc' = [p \in Publishers |-> CASE p \notin S -> pc[p]
                                     [] p \in S /\ left[p] > 1 -> "ctr_start"
                                     [] p \in S /\ left[p] = 1 -> "pack"
                                     [] OTHER -> "failed"]
    /\ left' = [p \in Publishers |-> IF p \in S /\ left[p] > 0 THEN left[p] - 1 ELSE left[p]]
    /\ n' = [p \in Publishers |-> IF p \in S THEN 1 ELSE n[p]]

(* handleManifest PUT: first under the tag; storing it under its digest and
   listing the tag come next, and their errors are ignored. *)
PutManifest(p) ==
    /\ pc[p] = "manifest"
    /\ \/ /\ manifests' = Put(manifests, TagOf[image[p]], image[p])
          /\ \/ Goto(p, "digest") /\ UNCHANGED <<n, left>>
             \/ GiveUp({p})                      \* the store's answer is lost
       \/ UNCHANGED manifests /\ GiveUp({p})
    /\ Keep(<<blobs, tags, upload, mu, listed>>)

PutDigest(p) ==
    /\ pc[p] = "digest"
    /\ manifests' \in {Put(manifests, image[p], image[p]), manifests}
    /\ Goto(p, "index")
    /\ Keep(<<blobs, tags, upload, mu, n, left, listed>>)

(* indexTag: read the list (empty when that fails), add the tag, write it back. *)
ReadTags(p) ==
    /\ pc[p] = "index"
    /\ \E seen \in {tags, {}} : listed' = [listed EXCEPT ![p] = seen]
    /\ Goto(p, "save")
    /\ Keep(<<store, upload, mu, n, left>>)

(* Mutant: the digest is listed. *)
MutantWriteTags(p) ==
    /\ pc[p] = "save"
    /\ tags' \in {listed[p] \cup {image[p]}, tags}
    /\ listed' = [listed EXCEPT ![p] = {}]
    /\ Goto(p, "pushed")
    /\ Keep(<<blobs, manifests, upload, mu, n, left>>)

WriteTags(p) ==
    /\ pc[p] = "save"
    /\ tags' \in {listed[p] \cup {TagOf[image[p]]}, tags}
    /\ listed' = [listed EXCEPT ![p] = {}]
    /\ Goto(p, "pushed")
    /\ Keep(<<blobs, manifests, upload, mu, n, left>>)

(* handleManifest GET and handleBlob GET: what the store has under the key. *)
pullManifest(ref) == IF ref \in DOMAIN manifests THEN manifests[ref] ELSE None
pullBlob(d) == IF d \in DOMAIN blobs THEN blobs[d] ELSE None

(* A restart: the store survives. A request being served fails at its client. *)
Restart ==
    /\ upload' = [p \in Publishers |-> None]
    /\ mu' = None
    /\ GiveUp({p \in Publishers : pc[p] \in {"ctr_chunk", "body", "commit", "digest", "index", "save"}})
    /\ listed' = [p \in Publishers |-> {}]
    /\ Keep(store)

--------------------------------------------------------------------------------
(* The sessions of handleBlobUpload. Each needs h.mu, which a PUT keeps while it
   reads its body. *)

(* POST without digest *)
StartUpload(p) ==
    /\ pc[p] \in {"ctr_start", "start"} /\ mu = None
    /\ upload' = [upload EXCEPT ![p] = <<>>]
    /\ Goto(p, IF pc[p] = "start" THEN "put" ELSE "ctr_patch")
    /\ Keep(<<store, mu, n, left, listed>>)

(* PATCH looks the session up, reads the chunk without the lock, appends it. The
   client may repeat a chunk whose answer it did not get. *)
PatchLookup(p) ==
    /\ pc[p] = "ctr_patch" /\ mu = None
    /\ \/ upload[p] = None /\ GiveUp({p})
       \/ upload[p] # None /\ Goto(p, "ctr_chunk") /\ UNCHANGED <<n, left>>
    /\ Keep(<<store, upload, mu, listed>>)

PatchAppend(p) ==
    /\ pc[p] = "ctr_chunk" /\ mu = None
    /\ upload' = [upload EXCEPT ![p] = IF @ = None THEN @ ELSE Append(@, Blob(p))]
    /\ \/ Goto(p, "ctr_put")
       \/ Len(upload[p]) < 1 /\ Goto(p, "ctr_patch")
    /\ Keep(<<store, mu, n, left, listed>>)

(* PUT with an empty body: the session is deleted, then its data is committed. *)
CompleteUpload(p) ==
    /\ pc[p] = "ctr_put" /\ mu = None
    /\ upload' = [upload EXCEPT ![p] = None]
    /\ \/ upload[p] # None /\ commitBlob(Blob(p), upload[p]) /\ NextBlob(p, "ctr_start")
       \/ GiveUp({p}) /\ UNCHANGED blobs
    /\ Keep(<<manifests, tags, mu, listed>>)

(* PUT with the blob in its body: the lock is taken, and the body is read under it
   when the session is known; otherwise the body alone is the blob. *)
PutLock(p) ==
    /\ pc[p] = "put" /\ mu = None
    /\ mu' = IF upload[p] # None THEN p ELSE None
    /\ Goto(p, "body")
    /\ Keep(<<store, upload, n, left, listed>>)

(* Mutant: a read that ends early returns without unlocking. *)
MutantReadBody(p) ==
    /\ pc[p] = "body"
    /\ \E chunk \in {<<Blob(p)>>, <<>>} :
         \/ /\ mu = p
            /\ upload' = [upload EXCEPT ![p] = @ \o chunk]
            /\ mu' = IF chunk = <<>> THEN p ELSE None
            /\ Goto(p, "commit")
         \/ /\ mu # p /\ UNCHANGED mu
            /\ upload' = [upload EXCEPT ![p] = chunk]
            /\ IF chunk = <<>> THEN Goto(p, "failed") ELSE Goto(p, "commit")
    /\ Keep(<<store, n, left, listed>>)

(* The body arrives, or the read ends early (ReadTimeout): inside a session what
   was read so far is taken, without one the request is refused. *)
ReadBody(p) ==
    /\ pc[p] = "body"
    /\ \E chunk \in {<<Blob(p)>>, <<>>} :
         \/ /\ mu = p
            /\ upload' = [upload EXCEPT ![p] = @ \o chunk]
            /\ mu' = None
            /\ Goto(p, "commit")
         \/ /\ mu # p /\ UNCHANGED mu
            /\ upload' = [upload EXCEPT ![p] = chunk]
            /\ IF chunk = <<>> THEN Goto(p, "failed") ELSE Goto(p, "commit")
    /\ Keep(<<store, n, left, listed>>)

Commit(p) ==
    /\ pc[p] = "commit"
    /\ upload' = [upload EXCEPT ![p] = None]
    /\ \/ commitBlob(Blob(p), upload[p]) /\ NextBlob(p, "post")
       \/ GiveUp({p}) /\ UNCHANGED blobs
    /\ Keep(<<manifests, tags, mu, listed>>)

--------------------------------------------------------------------------------
(* The publishers. *)

(* runHubPublish takes the next product; at the end it fails if one has failed. *)
NextProduct(p) ==
    /\ pc[p] = "next"
    /\ \/ \E m \in todo[p] :
            /\ todo' = [todo EXCEPT ![p] = @ \ {m}]
            /\ image' = [image EXCEPT ![p] = m]
            /\ Goto(p, "ctr_start")
            /\ left' = [left EXCEPT ![p] = LocalNames]
       \/ /\ todo[p] = {}
          /\ Goto(p, "exit")
          /\ UNCHANGED <<todo, image, left>>
    /\ n' = [n EXCEPT ![p] = 1]
    /\ UNCHANGED <<store, upload, mu, listed, failed>>

(* resolveHubBinary and packBinaryImage. *)
Pack(p) ==
    /\ pc[p] = "pack"
    /\ n' = [n EXCEPT ![p] = 1]
    /\ Goto(p, "post") \/ Goto(p, "failed")
    /\ Keep(<<store, upload, mu, left, listed>>)

(* hubPutBlob: POST ?digest= with the whole blob. Refused, it tries a session. *)
PostBlob(p) ==
    /\ pc[p] = "post"
    /\ \/ commitBlob(Blob(p), <<Blob(p)>>) /\ NextBlob(p, "post")
       \/ Goto(p, "start") /\ UNCHANGED <<blobs, n, left>>
       \/ GiveUp({p}) /\ UNCHANGED blobs
    /\ Keep(<<manifests, tags, upload, mu, listed>>)

EndProduct(p) ==
    /\ pc[p] \in {"pushed", "failed"}
    /\ failed' = [failed EXCEPT ![p] = IF pc[p] = "failed" THEN @ \cup {image[p]} ELSE @]
    /\ Goto(p, "next")
    /\ UNCHANGED <<store, upload, mu, todo, image, n, left, listed>>

(* No image under this local name, no answer, or a refused request: the client gives up. *)
Lost(p) ==
    /\ pc[p] \in {"ctr_start", "ctr_patch", "ctr_chunk", "ctr_put", "start", "put"}
    /\ GiveUp({p})
    /\ Keep(<<store, upload, mu, listed>>)

Step(p) ==
    \/ NextProduct(p) \/ Pack(p) \/ PostBlob(p) \/ StartUpload(p) \/ PatchLookup(p) \/ PatchAppend(p)
    \/ CompleteUpload(p) \/ PutLock(p) \/ ReadBody(p) \/ Commit(p) \/ PutManifest(p) \/ PutDigest(p)
    \/ ReadTags(p) \/ WriteTags(p) \/ EndProduct(p)

Next == (\E p \in Publishers : Step(p) \/ Lost(p)) \/ Restart

Spec == Init /\ [][Next]_vars

(* Requests are served and bodies end (the server's ReadTimeout); a publisher that
   waits for h.mu gets it in its turn, as Go's mutexes hand over. *)
FairSpec == Spec /\ \A p \in Publishers : SF_vars(Step(p))

--------------------------------------------------------------------------------
(* PROPERTIES *)

(* What can be pulled is complete: every manifest under a tag or a digest has all
   its blobs in the store, each with the content its digest names, though chunks
   were repeated, bodies cut short, the store failed and the hub restarted. *)
PullsComplete ==
    \A ref \in Tags \cup Images :
        LET m == pullManifest(ref)
        IN  m # None => \A i \in DOMAIN BlobsOf[m] : pullBlob(BlobsOf[m][i]) = <<BlobsOf[m][i]>>

(* Every publisher gets through its list: nobody waits for h.mu for ever behind a
   body that does not come. *)
PublishEnds == \A p \in Publishers : <>(pc[p] = "exit" /\ mu # p)
================================================================================
