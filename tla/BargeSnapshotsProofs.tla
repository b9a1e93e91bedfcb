------------------------ MODULE BargeSnapshotsProofs ------------------------
(* Theorems about the snapshots of a barge for any number of writers, any
   -snapshot-keep and any number of snapshots. *)
EXTENDS BargeSnapshots, FiniteSetTheorems, WellFoundedInduction, TLAPS

(* No file is newer than the newest one completed. *)
FilesUpToNewest == \A t \in files : t <= newest

(* What a writer still means to remove is older than the newest file, whatever
   was written or removed since its listing. *)
StaleIsOlder == \A w \in Writers : \A t \in stale[w] : t < newest

(* The inductive invariant: StaleIsOlder protects the newest file from the
   removals of an old listing, FilesUpToNewest establishes it at the listing. *)
SnapshotInv == /\ TypeOK
               /\ FilesUpToNewest
               /\ NewestSurvives
               /\ StaleIsOlder

-----------------------------------------------------------------------------
(* The oldest and the newest of a set of snapshots.                        *)

LEMMA LeastExists ==
  ASSUME NEW S \in SUBSET Nat, S # {}
  PROVE  \E x \in S : \A y \in S : x <= y
<1> DEFINE R == OpToRel(<, Nat)
<1>1. PICK x \in S : \A y \in S : ~ (<<y, x>> \in R)
  BY NatLessThanWellFounded, WFMin
<1>2. R = {p \in Nat \X Nat : p[1] < p[2]}
  BY DEF OpToRel
<1> HIDE DEF R
<1>3. ASSUME NEW y \in S, y < x PROVE FALSE
  <2>1. <<y, x>> \in R
    BY <1>2, <1>3
  <2>. QED  BY <1>1, <2>1
<1>. QED  BY <1>3

LEMMA MinIsMember ==
  ASSUME NEW S \in SUBSET Nat, S # {}
  PROVE  Min(S) \in S
  BY LeastExists DEF Min

LEMMA MaxIsMember ==
  ASSUME NEW n \in Nat, NEW S \in SUBSET (1..n), S # {}
  PROVE  Max(S) \in S
<1> DEFINE D == {n - y : y \in S}
<1>1. D \in SUBSET Nat
  OBVIOUS
<1>2. D # {}
  <2>1. PICK y \in S : TRUE
    OBVIOUS
  <2>2. n - y \in D
    BY <2>1
  <2>. QED  BY <2>2
<1>3. PICK d \in D : \A e \in D : d <= e
  <2> HIDE DEF D
  <2>. QED  BY <1>1, <1>2, LeastExists
<1>4. PICK x \in S : d = n - x
  BY <1>3
<1>5. ASSUME NEW y \in S PROVE x >= y
  <2>1. n - y \in D
    OBVIOUS
  <2>2. n - x <= n - y
    BY <1>3, <1>4, <2>1
  <2>3. x \in Int /\ y \in Int /\ n \in Int
    OBVIOUS
  <2> HIDE DEF D
  <2>. QED  BY <2>2, <2>3
<1>. QED  BY <1>5 DEF Max

(* Only snapshots with a newer one beside them are removed. *)
LEMMA StaleHasNewer ==
  ASSUME NEW s, IsFiniteSet(s), NEW t \in allButNewest(s, Keep)
  PROVE  t \in s /\ \E u \in s : t < u
<1>1. t \in s /\ Cardinality({u \in s : t < u}) >= Keep
  BY DEF allButNewest
<1>2. {u \in s : t < u} # {}
  BY <1>1, KeepAssumption, FS_EmptySet
<1>. QED  BY <1>1, <1>2

-----------------------------------------------------------------------------
LEMMA InitSnapshotInv == Init => SnapshotInv
<1>1. 0 \in 0..MaxTaken
  BY MaxTakenAssumption
<1>2. Init => TypeOK
  BY <1>1 DEF Init, TypeOK, Taken
<1>3. Init => FilesUpToNewest /\ NewestSurvives /\ StaleIsOlder
  BY DEF Init, FilesUpToNewest, NewestSurvives, StaleIsOlder
<1>. QED  BY <1>2, <1>3 DEF SnapshotInv

LEMMA TypeStep == TypeOK /\ [Next]_vars => TypeOK'
<1> SUFFICES ASSUME TypeOK, [Next]_vars PROVE TypeOK'
  OBVIOUS
<1> USE MaxTakenAssumption DEF TypeOK, Taken, disk, history
<1>1. ASSUME NEW w \in Writers, buildSnapshot(w) PROVE TypeOK'
  BY <1>1 DEF buildSnapshot
<1>2. ASSUME NEW w \in Writers, WriteTimestamped(w) PROVE TypeOK'
  BY <1>2 DEF WriteTimestamped, larger
<1>3. ASSUME NEW w \in Writers, WriteFails(w) \/ LatestFails(w) \/ Return(w) PROVE TypeOK'
  BY <1>3 DEF WriteFails, LatestFails, Return
<1>4. ASSUME NEW w \in Writers, OpenLatest(w) PROVE TypeOK'
  BY <1>4 DEF OpenLatest
<1>5. ASSUME NEW w \in Writers, FillLatest(w) PROVE TypeOK'
  BY <1>5 DEF FillLatest, larger
<1>6. ASSUME NEW w \in Writers, ListSnapshots(w) PROVE TypeOK'
  BY <1>6 DEF ListSnapshots, allButNewest
<1>7. ASSUME NEW w \in Writers, RemoveStale(w) PROVE TypeOK'
  BY <1>7 DEF RemoveStale
<1>11. ASSUME NEW w \in Writers, ListFails(w) PROVE TypeOK'
  BY <1>11 DEF ListFails
<1>12. ASSUME NEW w \in Writers, RemoveFails(w) PROVE TypeOK'
  BY <1>12 DEF RemoveFails
<1>8. CASE ProcessEnds
  BY <1>8 DEF ProcessEnds
<1>9. CASE RestoreOnStart
  <2>1. files # {} => Max(files) \in files
    BY MaxIsMember
  <2>2. loadLatestSnapshot \in 0..MaxTaken
    <3>1. files \subseteq 0..MaxTaken /\ 0 \in 0..MaxTaken /\ latest \in 0..MaxTaken
      OBVIOUS
    <3>. QED  BY <2>1, <3>1, Zenon DEF loadLatestSnapshot
  <2>. QED  BY <1>9, <2>2 DEF RestoreOnStart
<1>10. CASE UNCHANGED vars
  BY <1>10 DEF vars
<1>. QED  BY <1>1, <1>2, <1>3, <1>4, <1>5, <1>6, <1>7, <1>8, <1>9, <1>10, <1>11, <1>12 DEF Next

LEMMA SurvivesStep ==
  ASSUME SnapshotInv, [Next]_vars
  PROVE  FilesUpToNewest' /\ NewestSurvives' /\ StaleIsOlder'
<1> DEFINE Goal == FilesUpToNewest' /\ NewestSurvives' /\ StaleIsOlder'
<1> USE MaxTakenAssumption DEF SnapshotInv, TypeOK, Taken, disk, history,
        FilesUpToNewest, NewestSurvives, StaleIsOlder
<1>1. ASSUME NEW w \in Writers, WriteTimestamped(w) PROVE Goal
  <2>1. at[w] \in Taken /\ newest \in 0..MaxTaken
    BY <1>1 DEF WriteTimestamped
  <2>2. newest <= newest' /\ at[w] <= newest' /\ newest' \in {newest, at[w]}
    BY <1>1, <2>1 DEF WriteTimestamped, larger
  <2>. QED  BY <1>1, <2>1, <2>2 DEF WriteTimestamped
<1>2. ASSUME NEW w \in Writers, ListSnapshots(w) PROVE Goal
  <2>1. IsFiniteSet(files)
    <3>1. IsFiniteSet(1..MaxTaken) /\ files \in SUBSET (1..MaxTaken)
      BY FS_Interval
    <3>. QED  BY <3>1, FS_Subset
  <2>2. ASSUME NEW t \in allButNewest(files, Keep) PROVE t < newest
    <3>1. PICK u \in files : t \in files /\ t < u
      BY <2>1, StaleHasNewer
    <3>2. t \in Nat /\ u \in Nat /\ newest \in Nat /\ u <= newest
      BY <3>1
    <3>. QED  BY <3>1, <3>2
  <2>. QED  BY <1>2, <2>2 DEF ListSnapshots
<1>3. ASSUME NEW w \in Writers, RemoveStale(w) PROVE Goal
  <2>1. Min(stale[w]) \in stale[w]
    BY <1>3, MinIsMember DEF RemoveStale
  <2>. QED  BY <1>3, <2>1 DEF RemoveStale
<1>4. ASSUME NEW w \in Writers,
             buildSnapshot(w) \/ WriteFails(w) \/ OpenLatest(w) \/ FillLatest(w)
               \/ LatestFails(w) \/ ListFails(w) \/ RemoveFails(w) \/ Return(w)
      PROVE Goal
  BY <1>4 DEF buildSnapshot, WriteFails, OpenLatest, FillLatest, LatestFails, ListFails,
       RemoveFails, Return
<1>5. CASE ProcessEnds
  BY <1>5 DEF ProcessEnds
<1>6. CASE RestoreOnStart
  BY <1>6 DEF RestoreOnStart
<1>7. CASE UNCHANGED vars
  BY <1>7 DEF vars
<1>. QED  BY <1>1, <1>2, <1>3, <1>4, <1>5, <1>6, <1>7 DEF Next

-----------------------------------------------------------------------------
(* The state of writers, process and disk keeps its types. *)
THEOREM SnapshotTypeCorrect == Spec => []TypeOK
<1>1. Init => TypeOK
  BY InitSnapshotInv DEF SnapshotInv
<1>. QED  BY <1>1, TypeStep, PTL DEF Spec

(* However many writers of takeAndWriteSnapshot overlap, and wherever the
   process ends, pruneSnapshots never removes the newest completed snapshot. *)
THEOREM NewestAlwaysSurvives == Spec => []NewestSurvives
<1>1. SnapshotInv /\ [Next]_vars => SnapshotInv'
  BY TypeStep, SurvivesStep DEF SnapshotInv
<1>2. SnapshotInv => NewestSurvives
  BY DEF SnapshotInv
<1>. QED  BY <1>1, <1>2, InitSnapshotInv, PTL DEF Spec

-----------------------------------------------------------------------------
(* -snapshot-keep. A writer that has added a file and not listed the directory
   yet will still prune. When there is none and none was cut off or failed to list,
   nothing was added since the last listing, and what that listing keeps is small
   enough; the rest is removed, or has met an error of os.Remove. *)

StaleWhileRemoving == \A w \in Writers : pc[w] # "remove" => stale[w] = {}

Doomed == UNION {stale[w] : w \in Writers}
Kept == files \ (Doomed \cup unremoved)
Unlisted(w) == pc[w] \in {"open", "fill", "list"}

KeptBounded ==
  ~unpruned /\ (\A w \in Writers : ~Unlisted(w))
    => Cardinality(Kept) <= Keep

RetentionInv == TypeOK /\ StaleWhileRemoving /\ KeptBounded

(* A listing keeps at most keep files: the number of newer files tells them
   apart, and it is below keep. *)
LEMMA ListingKeeps ==
  ASSUME NEW s \in SUBSET Nat, IsFiniteSet(s), NEW keep \in Nat
  PROVE  Cardinality(s \ allButNewest(s, keep)) <= keep
<1> DEFINE newer(t) == {u \in s : t < u}
           kept == s \ allButNewest(s, keep)
           rank == [t \in kept |-> Cardinality(newer(t))]
<1>1. ASSUME NEW t \in s
      PROVE  IsFiniteSet(newer(t)) /\ Cardinality(newer(t)) \in Nat
  BY FS_Subset, FS_CardinalityType
<1>2. ASSUME NEW t \in kept PROVE rank[t] \in 0..keep-1
  <2>1. ~ (Cardinality(newer(t)) >= keep)
    BY DEF allButNewest
  <2>2. Cardinality(newer(t)) \in Nat
    BY <1>1
  <2> HIDE DEF newer
  <2>. QED  BY <2>1, <2>2
<1>3. ASSUME NEW t \in kept, NEW u \in kept, t < u PROVE rank[t] # rank[u]
  <2>0. t \in s /\ u \in s /\ s \in SUBSET Nat
    OBVIOUS
  <2> HIDE DEF kept, rank
  <2>1. newer(u) \in SUBSET newer(t) /\ u \in newer(t) /\ u \notin newer(u)
    <3>1. \A x \in s : x \in Nat /\ (u < x => t < x)
      BY <1>3, <2>0
    <3>2. ~ (u < u)
      BY <2>0
    <3>. QED  BY <1>3, <2>0, <3>1, <3>2, Zenon
  <2>2. Cardinality(newer(t)) # Cardinality(newer(u))
    BY <1>1, <2>0, <2>1, FS_Subset
  <2>. QED  BY <2>2 DEF rank
<1>4. rank \in [kept -> 0..keep-1]
  BY <1>2
<1>5. ASSUME NEW t \in kept, NEW u \in kept, t # u PROVE rank[t] # rank[u]
  <2>1. t \in Nat /\ u \in Nat
    OBVIOUS
  <2>2. t < u \/ u < t
    BY <1>5, <2>1
  <2> HIDE DEF rank, kept
  <2>. QED  BY <1>3, <2>2
<1>6. rank \in Injection(kept, 0..keep-1)
  <2> HIDE DEF rank, kept
  <2>. QED  BY <1>4, <1>5 DEF Injection, IsInjective
<1>7. IsFiniteSet(0..keep-1) /\ Cardinality(0..keep-1) = keep
  BY FS_Interval
<1> HIDE DEF rank, kept
<1>8. Cardinality(kept) <= Cardinality(0..keep-1)
  BY <1>6, <1>7, FS_Injection
<1>. QED  BY <1>7, <1>8 DEF kept

LEMMA RetentionStep ==
  ASSUME RetentionInv, [Next]_vars
  PROVE  StaleWhileRemoving' /\ KeptBounded'
<1> DEFINE Goal == StaleWhileRemoving' /\ KeptBounded'
<1> USE DEF RetentionInv
<1>0. TypeOK'
  BY TypeStep
<1>a. IsFiniteSet(files) /\ IsFiniteSet(files')
  <2>1. IsFiniteSet(1..MaxTaken)
    BY MaxTakenAssumption, FS_Interval
  <2>2. files \in SUBSET (1..MaxTaken) /\ files' \in SUBSET (1..MaxTaken)
    BY <1>0 DEF TypeOK, Taken
  <2>. QED  BY <2>1, <2>2, FS_Subset
<1>b. ASSUME StaleWhileRemoving', Kept' \subseteq Kept,
             unpruned' = unpruned, \A w \in Writers : Unlisted(w) => Unlisted(w)'
      PROVE  Goal
  <2>1. IsFiniteSet(Kept)
    BY <1>a, FS_Subset DEF Kept
  <2>2. Cardinality(Kept') <= Cardinality(Kept)
        /\ Cardinality(Kept') \in Nat /\ Cardinality(Kept) \in Nat
    BY <1>b, <2>1, FS_Subset, FS_CardinalityType
  <2>. QED  BY <1>b, <2>2, KeepAssumption DEF KeptBounded
<1> USE DEF StaleWhileRemoving, disk, history, TypeOK
<1>1. ASSUME NEW w \in Writers,
             buildSnapshot(w) \/ WriteFails(w) \/ OpenLatest(w) \/ LatestFails(w)
               \/ FillLatest(w) \/ Return(w)
      PROVE Goal
  <2>1. files' = files /\ stale' = stale /\ unpruned' = unpruned /\ unremoved' = unremoved
    BY <1>1 DEF buildSnapshot, WriteFails, OpenLatest, FillLatest, LatestFails, Return
  <2>2. StaleWhileRemoving' /\ \A v \in Writers : Unlisted(v) => Unlisted(v)'
    BY <1>1, <2>1 DEF buildSnapshot, WriteFails, OpenLatest, FillLatest, LatestFails, Return,
         Unlisted
  <2>3. Kept' = Kept
    BY <2>1 DEF Doomed, Kept
  <2>. QED  BY <1>b, <2>1, <2>2, <2>3
<1>2. ASSUME NEW w \in Writers, WriteTimestamped(w) PROVE Goal
  <2>1. Unlisted(w)'
    BY <1>2 DEF WriteTimestamped, Unlisted
  <2>2. StaleWhileRemoving'
    BY <1>2 DEF WriteTimestamped
  <2>. QED  BY <2>1, <2>2 DEF KeptBounded
<1>3. ASSUME NEW w \in Writers, ListSnapshots(w) PROVE Goal
  <2>1. StaleWhileRemoving'
    BY <1>3 DEF ListSnapshots
  <2>2. files' = files /\ stale'[w] = allButNewest(files, Keep)
    BY <1>3 DEF ListSnapshots
  <2>3. Kept' \in SUBSET (files \ allButNewest(files, Keep))
    BY <2>2 DEF Doomed, Kept
  <2>4. Cardinality(files \ allButNewest(files, Keep)) <= Keep
    <3>1. files \in SUBSET Nat
      BY MaxTakenAssumption DEF Taken
    <3>. QED  BY <1>a, <3>1, ListingKeeps, KeepAssumption
  <2>5. IsFiniteSet(files \ allButNewest(files, Keep))
    BY <1>a, FS_Subset
  <2>6. Cardinality(Kept') <= Cardinality(files \ allButNewest(files, Keep))
        /\ Cardinality(Kept') \in Nat
        /\ Cardinality(files \ allButNewest(files, Keep)) \in Nat
    BY <2>3, <2>5, FS_Subset, FS_CardinalityType
  <2>. QED  BY <2>1, <2>4, <2>6, KeepAssumption DEF KeptBounded
<1>7. ASSUME NEW w \in Writers, ListFails(w) PROVE Goal
  BY <1>7 DEF ListFails, KeptBounded
<1>4. ASSUME NEW w \in Writers, RemoveStale(w) \/ RemoveFails(w) PROVE Goal
  <2>1. StaleWhileRemoving'
    BY <1>4 DEF RemoveStale, RemoveFails
  <2>2. Kept' \subseteq Kept
    <3> SUFFICES ASSUME NEW t \in files', t \notin Doomed', t \notin unremoved'
                 PROVE  t \in files /\ t \notin Doomed /\ t \notin unremoved
      BY DEF Kept
    <3>1. t \in files /\ t # Min(stale[w]) /\ t \notin unremoved
      BY <1>4 DEF RemoveStale, RemoveFails
    <3>2. ASSUME NEW v \in Writers, t \in stale[v] PROVE t \in stale'[v]
      BY <1>4, <3>1, <3>2 DEF RemoveStale, RemoveFails
    <3>. QED  BY <3>1, <3>2 DEF Doomed
  <2>3. unpruned' = unpruned /\ pc' = pc
    BY <1>4 DEF RemoveStale, RemoveFails
  <2>4. \A v \in Writers : Unlisted(v) => Unlisted(v)'
    BY <2>3 DEF Unlisted
  <2>. QED  BY <1>b, <2>1, <2>2, <2>3, <2>4
<1>5. CASE ProcessEnds
  <2>1. CASE \E w \in Writers : pc[w] # "idle"
    <3>1. unpruned' = TRUE /\ StaleWhileRemoving'
      BY <1>5, <2>1 DEF ProcessEnds
    <3>. QED  BY <3>1 DEF KeptBounded
  <2>2. CASE \A w \in Writers : pc[w] = "idle"
    <3>1. /\ StaleWhileRemoving' /\ unpruned' = unpruned
          /\ files' = files /\ unremoved' = unremoved
      BY <1>5, <2>2 DEF ProcessEnds
    <3>2. \A w \in Writers : stale[w] = {} /\ stale'[w] = {}
      BY <1>5, <2>2 DEF ProcessEnds
    <3>3. Doomed = {} /\ Doomed' = {}
      BY <3>2 DEF Doomed
    <3>4. \A w \in Writers : ~Unlisted(w)
      BY <2>2 DEF Unlisted
    <3>5. Kept' = Kept
      BY <3>1, <3>3 DEF Kept
    <3>. QED  BY <1>b, <3>1, <3>4, <3>5
  <2>. QED  BY <2>1, <2>2
<1>6. CASE RestoreOnStart \/ UNCHANGED vars
  <2>1. /\ files' = files /\ stale' = stale /\ pc' = pc
        /\ unpruned' = unpruned /\ unremoved' = unremoved
    BY <1>6 DEF RestoreOnStart, vars
  <2>2. Kept' = Kept /\ \A w \in Writers : Unlisted(w) => Unlisted(w)'
    BY <2>1 DEF Doomed, Kept, Unlisted
  <2>3. StaleWhileRemoving'
    BY <2>1
  <2>. QED  BY <1>b, <2>1, <2>2, <2>3
<1>. QED  BY <1>1, <1>2, <1>3, <1>4, <1>5, <1>6, <1>7 DEF Next

(* However the listings and removals of overlapping writers interleave,
   pruneSnapshots leaves at most -snapshot-keep files once all have returned, not
   counting those it tried to remove in vain, unless a writer was cut off or could
   not list the directory since the last listing. *)
THEOREM RetentionHolds == Spec => []RetentionBound
<1>1. Init => RetentionInv
  <2>1. Init => TypeOK
    BY InitSnapshotInv DEF SnapshotInv
  <2>2. ASSUME Init PROVE StaleWhileRemoving /\ KeptBounded
    <3>1. Kept = {}
      BY <2>2 DEF Init, Kept
    <3>2. Cardinality(Kept) = 0
      BY <3>1, FS_EmptySet
    <3>. QED  BY <2>2, <3>2, KeepAssumption DEF Init, StaleWhileRemoving, KeptBounded
  <2>. QED  BY <2>1, <2>2 DEF RetentionInv
<1>2. RetentionInv /\ [Next]_vars => RetentionInv'
  BY TypeStep, RetentionStep DEF RetentionInv
<1>3. RetentionInv => RetentionBound
  <2> SUFFICES ASSUME RetentionInv, \A w \in Writers : pc[w] = "idle", ~unpruned
               PROVE  Cardinality(files \ unremoved) <= Keep
    BY DEF RetentionBound
  <2>1. Kept = files \ unremoved
    BY DEF RetentionInv, StaleWhileRemoving, Doomed, Kept
  <2>. QED  BY <2>1 DEF RetentionInv, KeptBounded, Unlisted
<1>. QED  BY <1>1, <1>2, <1>3, PTL DEF Spec

-----------------------------------------------------------------------------
(* One writer at a time. It holds the newest snapshot taken, so "latest" never
   goes back. *)

OneWriter == /\ \A v, w \in Writers : pc[v] # "idle" /\ pc[w] # "idle" => v = w
             /\ \A w \in Writers : pc[w] # "idle" => at[w] = clock

LatestIsNewest == /\ written <= clock /\ \A w \in Writers : at[w] <= clock
                  /\ latest = 0 => written = 0
                  /\ ~overlapped => OneWriter /\ latest >= written

RestoreInv == TypeOK /\ LatestIsNewest

LEMMA RestoreInvStep == RestoreInv /\ [Next]_vars => RestoreInv'
<1> SUFFICES ASSUME RestoreInv, [Next]_vars PROVE LatestIsNewest'
  BY TypeStep DEF RestoreInv
<1> USE MaxTakenAssumption DEF RestoreInv, TypeOK, Taken, LatestIsNewest, OneWriter, disk, history
<1>1. ASSUME NEW w \in Writers, buildSnapshot(w) PROVE LatestIsNewest'
  <2>1. written' <= clock' /\ (latest' = 0 => written' = 0)
    BY <1>1 DEF buildSnapshot
  <2>5. \A v \in Writers : at'[v] <= clock'
    BY <1>1 DEF buildSnapshot
  <2>2. ~overlapped' => ~overlapped /\ \A v \in Writers : pc[v] = "idle"
    BY <1>1 DEF buildSnapshot
  <2>3. ~overlapped' => OneWriter'
    BY <1>1, <2>2 DEF buildSnapshot
  <2>4. ~overlapped' => latest' >= written'
    BY <1>1, <2>2 DEF buildSnapshot
  <2>. QED  BY <2>1, <2>3, <2>4, <2>5
<1>2. ASSUME NEW w \in Writers, FillLatest(w) PROVE LatestIsNewest'
  <2>1. at[w] \in 1..MaxTaken /\ latest' = at[w] /\ written' = larger(written, at[w])
        /\ clock' = clock /\ overlapped' = overlapped
    BY <1>2 DEF FillLatest
  <2>2. ~overlapped => OneWriter' /\ at[w] = clock
    BY <1>2 DEF FillLatest
  <2>3. \A v \in Writers : at'[v] <= clock'
    BY <1>2 DEF FillLatest
  <2>. QED  BY <2>1, <2>2, <2>3 DEF larger
<1>3. ASSUME NEW w \in Writers,
             WriteTimestamped(w) \/ WriteFails(w) \/ OpenLatest(w) \/ LatestFails(w)
               \/ ListSnapshots(w) \/ ListFails(w) \/ RemoveStale(w) \/ RemoveFails(w)
               \/ Return(w)
      PROVE LatestIsNewest'
  BY <1>3 DEF WriteTimestamped, WriteFails, OpenLatest, LatestFails, ListSnapshots, ListFails,
       RemoveStale, RemoveFails, Return
<1>4. CASE ProcessEnds \/ RestoreOnStart \/ UNCHANGED vars
  BY <1>4 DEF ProcessEnds, RestoreOnStart, vars
<1>. QED  BY <1>1, <1>2, <1>3, <1>4 DEF Next

(* As long as writers did not overlap, loadLatestSnapshot returns nothing older
   than the last snapshot that reached "latest", wherever the process was cut off
   and whichever writes failed. *)
THEOREM SequentialRestoreHolds == Spec => SequentialRestore
<1>1. Init => RestoreInv
  <2>1. Init => TypeOK
    BY InitSnapshotInv DEF SnapshotInv
  <2>. QED  BY <2>1 DEF Init, RestoreInv, LatestIsNewest, OneWriter
<1>2. ASSUME RestoreInv, RestoreOnStart, restored' # 0, ~overlapped
      PROVE  restored' >= written
  <2>1. restored' = loadLatestSnapshot /\ ~torn
    BY <1>2 DEF RestoreOnStart, loadLatestSnapshot
  <2>2. CASE latest # 0
    <3>1. restored' = latest
      BY <2>1, <2>2 DEF loadLatestSnapshot
    <3>. QED  BY <1>2, <3>1 DEF RestoreInv, LatestIsNewest
  <2>3. CASE latest = 0
    <3>1. files # {} /\ restored' = Max(files)
      BY <1>2, <2>1, <2>3 DEF loadLatestSnapshot
    <3>2. files \in SUBSET (1..MaxTaken)
      BY <1>2 DEF RestoreInv, TypeOK, Taken
    <3>3. restored' \in 1..MaxTaken
      BY <3>1, <3>2, MaxIsMember, MaxTakenAssumption
    <3>. QED  BY <1>2, <2>3, <3>3, MaxTakenAssumption DEF RestoreInv, LatestIsNewest
  <2>. QED  BY <2>2, <2>3
<1>3. RestoreInv => [RestoreOnStart /\ restored' # 0 /\ ~overlapped => restored' >= written]_vars
  BY <1>2
<1>. QED  BY <1>1, <1>3, RestoreInvStep, PTL DEF Spec, SequentialRestore
=============================================================================
