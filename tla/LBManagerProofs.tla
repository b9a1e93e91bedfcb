---------------------------- MODULE LBManagerProofs ----------------------------
(* Theorems about the load balancer for every pool, key set, number of clients
   and flag setting. *)
EXTENDS LBManager, FiniteSetTheorems, TLAPS

--------------------------------------------------------------------------------
(* Type correctness. *)

LEMMA InitTypeOK == Init => TypeOK
  BY ObjsAssumption, StaticsAssumption DEF Init, TypeOK, PCs

(* One step of a client handler keeps the types. *)
LEMMA HandlerTypeOK ==
    ASSUME TypeOK, NEW c \in Conns,
           (\E k \in Keys : PickSticky(c, k) \/ PickSnapshot(c, k))
           \/ Handle(c) \/ RelayClosed(c)
    PROVE  TypeOK'
<1> USE ObjsAssumption DEF TypeOK, PCs
<1>1. ASSUME NEW k \in Keys, PickSticky(c, k) PROVE TypeOK'
  BY <1>1 DEF PickSticky, stickyHit, lbVars, pruneVars
<1>2. ASSUME NEW k \in Keys, PickSnapshot(c, k) PROVE TypeOK'
  BY <1>2 DEF PickSnapshot, eligibleBackends, lbVars, pruneVars
<1>3. CASE FilterNamespace(c)
  <2>1. CASE sameNamespace(c) = {}
    BY <1>3, <2>1 DEF FilterNamespace, finish, lbVars, pruneVars
  <2>2. CASE sameNamespace(c) # {}
    <3>1. sameNamespace(c) \in SUBSET Objs
      BY DEF sameNamespace
    <3>2. /\ cand' = [cand EXCEPT ![c] = sameNamespace(c)]
          /\ pc' = [pc EXCEPT ![c] = "choose"]
          /\ pc[c] = "filter"
          /\ UNCHANGED <<key, obj, backends, namespace, moved, seen, routes, load, cutoff, pruner>>
      BY <1>3, <2>2 DEF FilterNamespace, lbVars, pruneVars
    <3> QED BY <3>1, <3>2
  <2> QED BY <2>1, <2>2
<1>4. CASE PickLeastLoaded(c) \/ PickRoundRobin(c)
  <2>1. PICK o \in cand[c] : choose(c, o)
    BY <1>4 DEF PickLeastLoaded, PickRoundRobin
  <2>2. o \in Objs
    OBVIOUS
  <2> QED BY <2>1, <2>2 DEF choose, lbVars, pruneVars
<1>5. CASE RegisterRoute(c)
  BY <1>5 DEF RegisterRoute, pruneVars
<1>6. CASE DialFail(c)
  BY <1>6 DEF DialFail, unregisterRoute, finish, pruneVars
<1>7. CASE DialOK(c)
  BY <1>7 DEF DialOK, incLoad, pruneVars
<1>8. CASE RelayClosed(c)
  BY <1>8 DEF RelayClosed, decLoad, finish, pruneVars
<1> QED BY <1>1, <1>2, <1>3, <1>4, <1>5, <1>6, <1>7, <1>8 DEF Handle

(* What dropBackends leaves is well typed. *)
LEMMA DropTypeOK ==
    ASSUME TypeOK, NEW gone, dropBackends(gone)
    PROVE  /\ backends' \subseteq Objs
           /\ routes' \in [Keys -> Objs \cup {None}]
           /\ load' \in [Ids -> Nat]
  BY DEF TypeOK, dropBackends

(* Registration and pruning keep the types. *)
LEMMA PoolTypeOK ==
    ASSUME TypeOK,
           Registration \/ (\E o \in Objs : Expire(o)) \/ PruneCutoff \/ PruneStale
    PROVE  TypeOK'
<1> USE ObjsAssumption, RegNsAssumption
<1>1. ASSUME NEW i \in Ids, NEW n \in RegNs[i], RegisterExisting(i, n)
      PROVE  TypeOK'
  BY <1>1 DEF RegisterExisting, TypeOK, PCs, connVars
<1>2. ASSUME NEW i \in Ids, NEW n \in RegNs[i], RegisterNew(i, n)
      PROVE  TypeOK'
  BY <1>2 DEF RegisterNew, TypeOK, PCs, connVars
<1>3. ASSUME NEW i \in Ids, Heartbeat(i)
      PROVE  TypeOK'
  BY <1>3 DEF Heartbeat, TypeOK, PCs, connVars
<1>4. ASSUME NEW i \in Ids, Deregister(i)
      PROVE  TypeOK'
  BY <1>4, DropTypeOK DEF Deregister, TypeOK, PCs, connVars, pruneVars
<1>5. ASSUME NEW o \in Objs, Expire(o)
      PROVE  TypeOK'
  BY <1>5 DEF Expire, TypeOK, PCs, connVars, pruneVars
<1>6. CASE PruneCutoff
  BY <1>6 DEF PruneCutoff, TypeOK, PCs, connVars, lbVars
<1>7. CASE PruneStale
  BY <1>7, DropTypeOK DEF PruneStale, TypeOK, PCs, connVars
<1> QED BY <1>1, <1>2, <1>3, <1>4, <1>5, <1>6, <1>7 DEF Registration

(* TypeOK is inductive. *)
LEMMA TypeStep == TypeOK /\ [Next]_vars => TypeOK'
<1> SUFFICES ASSUME TypeOK, [Next]_vars PROVE TypeOK'
  OBVIOUS
<1>1. CASE Next
  BY <1>1, HandlerTypeOK, PoolTypeOK DEF Next
<1>2. CASE UNCHANGED vars
  BY <1>2 DEF vars, lbVars, pruneVars, connVars, TypeOK
<1> QED BY <1>1, <1>2

(* Every variable of the load balancer keeps its type, the load counters never
   go below zero, and a handler past pickBackend always holds a backend. *)
THEOREM TypeCorrect == Spec => []TypeOK
  BY InitTypeOK, TypeStep, PTL DEF Spec

--------------------------------------------------------------------------------
(* The pool. NoNewDuplicates is inductive by itself; that pruning spares a refreshed
   backend rests on every backend behind the cutoff being stale still. *)

CutoffStale == \A o \in cutoff \cap backends : seen[o] = "stale"

PoolInv == TypeOK /\ NoNewDuplicates /\ CutoffStale

(* Client handlers touch neither the pool nor the pruner. *)
LEMMA HandlerFrame ==
    ASSUME NEW c \in Conns,
           (\E k \in Keys : PickSticky(c, k) \/ PickSnapshot(c, k))
           \/ Handle(c) \/ RelayClosed(c)
    PROVE  UNCHANGED <<backends, namespace, moved, seen, cutoff, pruner>>
<1> USE DEF lbVars, pruneVars
<1>1. ASSUME NEW k \in Keys, PickSticky(c, k) \/ PickSnapshot(c, k)
      PROVE  UNCHANGED <<backends, namespace, moved, seen, cutoff, pruner>>
  BY <1>1 DEF PickSticky, PickSnapshot
<1>2. CASE Handle(c)
  BY <1>2 DEF Handle, FilterNamespace, PickLeastLoaded, PickRoundRobin, choose,
              RegisterRoute, DialFail, DialOK
<1>3. CASE RelayClosed(c)
  BY <1>3 DEF RelayClosed
<1> QED BY <1>1, <1>2, <1>3

(* The pool invariant is inductive. *)
LEMMA PoolInvStep == PoolInv /\ [Next]_vars => PoolInv'
<1> SUFFICES ASSUME PoolInv, [Next]_vars PROVE NoNewDuplicates' /\ CutoffStale'
  BY TypeStep DEF PoolInv
<1> USE ObjsAssumption DEF PoolInv, NoNewDuplicates, CutoffStale
<1>1. ASSUME NEW c \in Conns,
             (\E k \in Keys : PickSticky(c, k) \/ PickSnapshot(c, k))
             \/ Handle(c) \/ RelayClosed(c)
      PROVE  NoNewDuplicates' /\ CutoffStale'
  BY <1>1, HandlerFrame
<1>2. ASSUME NEW i \in Ids, NEW n \in RegNs[i], RegisterExisting(i, n)
      PROVE  NoNewDuplicates' /\ CutoffStale'
  BY <1>2 DEF RegisterExisting, TypeOK
<1>3. ASSUME NEW i \in Ids, NEW n \in RegNs[i], RegisterNew(i, n)
      PROVE  NoNewDuplicates' /\ CutoffStale'
  BY <1>3 DEF RegisterNew, TypeOK
<1>4. ASSUME NEW i \in Ids, Heartbeat(i)
      PROVE  NoNewDuplicates' /\ CutoffStale'
  BY <1>4 DEF Heartbeat, TypeOK
<1>5. ASSUME NEW i \in Ids, Deregister(i)
      PROVE  NoNewDuplicates' /\ CutoffStale'
  BY <1>5 DEF Deregister, dropBackends, pruneVars, TypeOK
<1>6. ASSUME NEW o \in Objs, Expire(o)
      PROVE  NoNewDuplicates' /\ CutoffStale'
  BY <1>6 DEF Expire, pruneVars, TypeOK
<1>7. CASE PruneCutoff
  BY <1>7 DEF PruneCutoff, lbVars
<1>8. CASE PruneStale
  BY <1>8 DEF PruneStale, dropBackends
<1>9. CASE UNCHANGED vars
  BY <1>9 DEF vars, lbVars, pruneVars
<1> QED BY <1>1, <1>2, <1>3, <1>4, <1>5, <1>6, <1>7, <1>8, <1>9
        DEF Next, Registration

LEMMA PoolInvariant == Spec => []PoolInv
<1>1. Init => PoolInv
  BY InitTypeOK, StaticsAssumption DEF Init, PoolInv, NoNewDuplicates, CutoffStale
<1> QED BY <1>1, PoolInvStep, PTL DEF Spec

(* A registration never adds a second struct of an id: duplicates are those of
   -backends. *)
THEOREM IdsUnique == Spec => []NoNewDuplicates
<1>1. PoolInv => NoNewDuplicates
  BY DEF PoolInv
<1> QED BY <1>1, PoolInvariant, PTL

(* One struct to an id, when -backends names no address twice. *)
UniqueIds == \A o, p \in backends : IdOf[o] = IdOf[p] => o = p

LEMMA DistinctIds == DistinctStatics /\ PoolInv => UniqueIds
  BY DEF DistinctStatics, PoolInv, NoNewDuplicates, UniqueIds

(* A backend leaves the pool only when it is stale or deregisters itself: the
   cutoff that pruneStaleBackends computes before taking the lock never costs a
   backend refreshed in between. *)
THEOREM PruneSparesFresh == Spec => FreshNeverPruned
<1>1. PoolInv /\ [Next]_vars =>
        [\A o \in backends \ backends' :
            seen[o] = "stale" \/ Deregister(IdOf[o])]_vars
  <2> SUFFICES ASSUME PoolInv, Next,
                      NEW o \in backends, o \notin backends'
               PROVE  seen[o] = "stale" \/ Deregister(IdOf[o])
    OBVIOUS
  <2>1. ASSUME NEW c \in Conns,
               (\E k \in Keys : PickSticky(c, k) \/ PickSnapshot(c, k))
               \/ Handle(c) \/ RelayClosed(c)
        PROVE  FALSE
    BY <2>1, HandlerFrame
  <2>2. ASSUME NEW i \in Ids, Deregister(i) PROVE Deregister(IdOf[o])
    BY <2>2 DEF Deregister, dropBackends
  <2>3. CASE PruneStale
    BY <2>3 DEF PruneStale, dropBackends, PoolInv, CutoffStale
  <2>4. ASSUME NEW i \in Ids,
               (\E n \in RegNs[i] : RegisterExisting(i, n) \/ RegisterNew(i, n))
               \/ Heartbeat(i)
        PROVE  FALSE
    BY <2>4 DEF RegisterExisting, RegisterNew, Heartbeat
  <2>5. ASSUME (\E p \in Objs : Expire(p)) \/ PruneCutoff PROVE FALSE
    BY <2>5 DEF Expire, PruneCutoff, lbVars
  <2> QED BY <2>1, <2>2, <2>3, <2>4, <2>5 DEF Next, Registration
<1> QED BY <1>1, PoolInvariant, PTL DEF Spec, FreshNeverPruned

--------------------------------------------------------------------------------
(* Load counters. A step moves at most one connection into or out of the relays
   of one backend, and the counter of that backend moves with it. *)

Count(i) == Cardinality(Relays(i))

LoadInv == LoadBounded /\ StaticLoadExact

LEMMA RelaysFinite ==
    ASSUME NEW i PROVE IsFiniteSet(Relays(i)) /\ Count(i) \in Nat
<1>1. IsFiniteSet(Relays(i))
  BY ConnsAssumption, FS_Subset DEF Relays
<1> QED BY <1>1, FS_CardinalityType DEF Count

(* A step that leaves the relaying connections alone and the counters no higher,
   and lowers no counter of a backend that is static afterwards. *)
LEMMA LoadFrame ==
    ASSUME PoolInv, LoadInv, TypeOK',
           \A i \in Ids : Relays(i)' = Relays(i),
           \A i \in Ids : load'[i] <= load[i],
           DistinctStatics => \A o \in backends' : seen'[o] = "static" =>
                /\ o \in backends
                /\ seen[o] = "static"
                /\ load'[IdOf[o]] = load[IdOf[o]]
    PROVE  LoadInv'
<1>1. \A i \in Ids : /\ Count(i)' = Count(i)
                     /\ Count(i) \in Nat
                     /\ load[i] \in Nat
                     /\ load'[i] \in Nat
  BY RelaysFinite DEF Count, PoolInv, TypeOK
<1>2. \A i \in Ids : load[i] <= Count(i)
  BY DEF LoadInv, LoadBounded, Count
<1>3. LoadBounded'
  <2>1. \A i \in Ids : load'[i] <= Count(i)'
    BY <1>1, <1>2
  <2> QED BY <2>1 DEF LoadBounded, Count
<1>4. StaticLoadExact'
  <2> SUFFICES ASSUME DistinctStatics, NEW o \in backends', seen'[o] = "static"
               PROVE  load'[IdOf[o]] = Count(IdOf[o])'
    BY DEF StaticLoadExact, Count
  <2>1. IdOf[o] \in Ids
    BY ObjsAssumption DEF TypeOK
  <2>2. load[IdOf[o]] = Count(IdOf[o])
    BY DEF LoadInv, StaticLoadExact, Count
  <2> QED BY <1>1, <2>1, <2>2
<1> QED BY <1>3, <1>4 DEF LoadInv

(* incLoad when the relay starts. *)
LEMMA DialOKLoad ==
    ASSUME PoolInv, LoadInv, NEW c \in Conns, DialOK(c)
    PROVE  LoadInv'
<1> DEFINE j == IdOf[obj[c]]
<1>1. /\ pc[c] = "dial" /\ obj[c] \in Objs /\ j \in Ids
      /\ load' = [load EXCEPT ![j] = @ + 1]
      /\ pc' = [pc EXCEPT ![c] = "relay"]
      /\ UNCHANGED <<backends, seen, obj>>
      /\ load \in [Ids -> Nat] /\ pc \in [Conns -> PCs] /\ backends \subseteq Objs
  BY ObjsAssumption DEF DialOK, incLoad, PoolInv, TypeOK
<1>2. c \notin Relays(j) /\ Relays(j)' = Relays(j) \cup {c}
  BY <1>1 DEF Relays
<1>3. Count(j)' = Count(j) + 1
  BY <1>2, RelaysFinite, FS_AddElement DEF Count
<1>4. \A i \in Ids : i # j => Count(i)' = Count(i)
  <2>1. ASSUME NEW i \in Ids, i # j PROVE Relays(i)' = Relays(i)
    BY <1>1, <2>1 DEF Relays
  <2> QED BY <2>1 DEF Count
<1>5. \A i \in Ids : Count(i) \in Nat
  BY RelaysFinite
<1>6. LoadBounded'
  <2>1. \A i \in Ids : load[i] <= Count(i)
    BY DEF LoadInv, LoadBounded, Count
  <2>2. \A i \in Ids : load'[i] <= Count(i)'
    BY <1>1, <1>3, <1>4, <1>5, <2>1
  <2> QED BY <2>2 DEF LoadBounded, Count
<1>7. StaticLoadExact'
  <2> SUFFICES ASSUME DistinctStatics
               PROVE  \A o \in backends' : seen'[o] = "static" => load'[IdOf[o]] = Count(IdOf[o])'
    BY DEF StaticLoadExact, Count
  <2>1. \A o \in backends : seen[o] = "static" => load[IdOf[o]] = Count(IdOf[o])
    BY DEF LoadInv, StaticLoadExact, Count
  <2>2. \A o \in backends : IdOf[o] \in Ids
    BY <1>1, ObjsAssumption
  <2> QED BY <1>1, <1>3, <1>4, <1>5, <2>1, <2>2
<1> QED BY <1>6, <1>7 DEF LoadInv

(* The guarded decLoad when the relay ends. *)
LEMMA RelayClosedLoad ==
    ASSUME PoolInv, LoadInv, NEW c \in Conns, RelayClosed(c)
    PROVE  LoadInv'
<1>0. PICK j \in Ids : j = IdOf[obj[c]]
  BY ObjsAssumption DEF RelayClosed, PoolInv, TypeOK
<1>1. /\ pc[c] = "relay" /\ obj[c] \in Objs /\ j = IdOf[obj[c]]
      /\ load' = [load EXCEPT ![j] = IF @ > 0 THEN @ - 1 ELSE @]
      /\ pc' = [pc EXCEPT ![c] = "idle"]
      /\ obj' = [obj EXCEPT ![c] = None]
      /\ UNCHANGED <<backends, seen>>
      /\ load \in [Ids -> Nat] /\ pc \in [Conns -> PCs] /\ backends \subseteq Objs
      /\ obj \in [Conns -> Objs \cup {None}]
  BY <1>0 DEF RelayClosed, decLoad, finish, PoolInv, TypeOK
<1>2. c \in Relays(j) /\ Relays(j)' = Relays(j) \ {c}
  BY <1>1 DEF Relays
<1>3. Count(j)' = Count(j) - 1
  BY <1>2, RelaysFinite, FS_RemoveElement DEF Count
<1>4. \A i \in Ids : i # j => Count(i)' = Count(i)
  <2>1. ASSUME NEW i \in Ids, i # j PROVE Relays(i)' = Relays(i)
    BY <1>1, <2>1 DEF Relays
  <2> QED BY <2>1 DEF Count
<1>5. /\ \A i \in Ids : Count(i) \in Nat
      /\ Count(j)' \in Nat
  BY RelaysFinite, <1>1, <1>2, FS_RemoveElement, FS_CardinalityType DEF Count
<1>6. LoadBounded'
  <2>1. \A i \in Ids : load[i] <= Count(i)
    BY DEF LoadInv, LoadBounded, Count
  <2>2. \A i \in Ids : load'[i] <= Count(i)'
    BY <1>1, <1>3, <1>4, <1>5, <2>1
  <2> QED BY <2>2 DEF LoadBounded, Count
<1>7. StaticLoadExact'
  <2> SUFFICES ASSUME DistinctStatics
               PROVE  \A o \in backends' : seen'[o] = "static" => load'[IdOf[o]] = Count(IdOf[o])'
    BY DEF StaticLoadExact, Count
  <2>1. \A o \in backends : seen[o] = "static" => load[IdOf[o]] = Count(IdOf[o])
    BY DEF LoadInv, StaticLoadExact, Count
  <2>2. \A o \in backends : IdOf[o] \in Ids
    BY <1>1, ObjsAssumption
  <2> QED BY <1>1, <1>3, <1>4, <1>5, <2>1, <2>2
<1> QED BY <1>6, <1>7 DEF LoadInv

(* No other step changes which connections are relaying. *)
LEMMA LoadStep == PoolInv /\ LoadInv /\ [Next]_vars => LoadInv'
<1> SUFFICES ASSUME PoolInv, LoadInv, [Next]_vars PROVE LoadInv'
  OBVIOUS
<1>0. TypeOK /\ TypeOK' /\ backends \subseteq Objs
  BY TypeStep DEF PoolInv, TypeOK
<1>1. ASSUME NEW c \in Conns, NEW k \in Keys, PickSticky(c, k) \/ PickSnapshot(c, k)
      PROVE  LoadInv'
  <2>1. \A i \in Ids : Relays(i)' = Relays(i)
    BY <1>0, <1>1 DEF PickSticky, PickSnapshot, Relays, TypeOK
  <2>2. UNCHANGED <<backends, seen, load>>
    BY <1>1 DEF PickSticky, PickSnapshot, lbVars
  <2> QED BY <1>0, <2>1, <2>2, LoadFrame DEF TypeOK
<1>2. ASSUME NEW c \in Conns,
             FilterNamespace(c) \/ PickLeastLoaded(c) \/ PickRoundRobin(c)
             \/ RegisterRoute(c) \/ DialFail(c)
      PROVE  LoadInv'
  <2>1. /\ pc[c] \notin {"relay", "idle"}
        /\ \E q \in {"idle", "choose", "register", "dial"} : pc' = [pc EXCEPT ![c] = q]
        /\ \E o \in Objs \cup {None} : obj' = [obj EXCEPT ![c] = o]
    BY <1>0, <1>2 DEF FilterNamespace, PickLeastLoaded, PickRoundRobin, choose,
                      RegisterRoute, DialFail, finish, TypeOK
  <2>2. \A i \in Ids : Relays(i)' = Relays(i)
    BY <1>0, <2>1 DEF Relays, TypeOK
  <2>3. UNCHANGED <<backends, seen, load>>
    BY <1>2 DEF FilterNamespace, PickLeastLoaded, PickRoundRobin, choose,
                RegisterRoute, DialFail, lbVars
  <2> QED BY <1>0, <2>2, <2>3, LoadFrame DEF TypeOK
<1>3. ASSUME NEW i \in Ids,
             (\E n \in RegNs[i] : RegisterExisting(i, n) \/ RegisterNew(i, n))
             \/ Heartbeat(i)
      PROVE  LoadInv'
  <2>1. UNCHANGED <<load, connVars>>
    BY <1>3 DEF RegisterExisting, RegisterNew, Heartbeat
  <2>2. \E o \in Objs : /\ seen' = [seen EXCEPT ![o] = "fresh"]
                        /\ backends' \subseteq backends \cup {o}
    BY <1>0, <1>3 DEF RegisterExisting, RegisterNew, Heartbeat
  <2>3. \A j \in Ids : Relays(j)' = Relays(j)
    BY <2>1 DEF Relays, connVars
  <2>4. \A o \in backends' : seen'[o] = "static" => o \in backends /\ seen[o] = "static"
    BY <1>0, <2>2 DEF TypeOK
  <2> QED BY <1>0, <2>1, <2>3, <2>4, LoadFrame DEF TypeOK
<1>4. ASSUME NEW gone \in SUBSET backends, dropBackends(gone),
             \A o \in gone : seen[o] # "static",
             UNCHANGED <<seen, connVars>>
      PROVE  LoadInv'
  <2>1. \A j \in Ids : Relays(j)' = Relays(j)
    BY <1>4 DEF Relays, connVars
  <2>2. DistinctStatics => \A o \in backends' : seen'[o] = "static" =>
            /\ o \in backends /\ seen[o] = "static"
            /\ load'[IdOf[o]] = load[IdOf[o]]
    BY <1>0, <1>4, ObjsAssumption, DistinctIds DEF dropBackends, UniqueIds, TypeOK
  <2>3. \A j \in Ids : load'[j] <= load[j]
    BY <1>0, <1>4 DEF dropBackends, TypeOK
  <2> QED BY <1>0, <2>1, <2>2, <2>3, LoadFrame
<1>5. ASSUME NEW i \in Ids, Deregister(i) PROVE LoadInv'
  <2>1. PICK o \in backends : seen[o] # "static" /\ dropBackends({o})
    BY <1>5 DEF Deregister
  <2> QED BY <1>4, <1>5, <2>1 DEF Deregister
<1>6. CASE PruneStale
  BY <1>4, <1>6 DEF PruneStale
<1>7. ASSUME (\E o \in Objs : Expire(o)) \/ PruneCutoff \/ UNCHANGED vars PROVE LoadInv'
  <2>1. UNCHANGED <<backends, load, connVars>>
    BY <1>7 DEF Expire, PruneCutoff, lbVars, vars
  <2>2. \A o \in backends : seen'[o] = "static" => seen[o] = "static"
    BY <1>0, <1>7 DEF Expire, PruneCutoff, lbVars, vars, TypeOK
  <2>3. \A j \in Ids : Relays(j)' = Relays(j)
    BY <2>1 DEF Relays, connVars
  <2> QED BY <1>0, <2>1, <2>2, <2>3, LoadFrame DEF TypeOK
<1> QED BY <1>1, <1>2, <1>3, <1>5, <1>6, <1>7, DialOKLoad, RelayClosedLoad
        DEF Next, Handle, Registration

LEMMA LoadInvariant == Spec => []LoadInv
<1>1. Init => LoadInv
  <2> SUFFICES ASSUME Init PROVE \A i \in Ids : load[i] = Count(i)
    BY ObjsAssumption, StaticsAssumption, RelaysFinite
       DEF Init, LoadInv, LoadBounded, StaticLoadExact, Count
  <2>1. \A i \in Ids : Relays(i) = {}
    BY DEF Init, Relays
  <2> QED BY <2>1, FS_EmptySet DEF Count, Init
<1> QED BY <1>1, LoadStep, PoolInvariant, PTL DEF Spec

(* A load counter never exceeds the relays open on its backend, whatever drops
   and re-registrations the pool went through meanwhile. *)
THEOREM LoadNeverOvercounts == Spec => []LoadBounded
<1>1. LoadInv => LoadBounded
  BY DEF LoadInv
<1> QED BY <1>1, LoadInvariant, PTL

(* The counter of a static backend is exact. *)
THEOREM StaticLoadCorrect == Spec => []StaticLoadExact
<1>1. LoadInv => StaticLoadExact
  BY DEF LoadInv
<1> QED BY <1>1, LoadInvariant, PTL

--------------------------------------------------------------------------------
(* Namespaces. NamespaceIsolation speaks of public look-ups and of handlers past
   the pick; to be inductive it needs the routes themselves and the filtered
   candidate lists as well. *)

Serves(o, k) == namespace[o] = KeyNs[k] \/ o \in moved

NamespaceInv ==
    /\ \A c \in Conns : pc[c] = "choose" => \A o \in cand[c] : Serves(o, key[c])
    /\ \A k \in Keys : routes[k] # None => Serves(routes[k], k)
    /\ \A c \in Conns : pc[c] \in {"register", "dial", "relay"} => Serves(obj[c], key[c])

(* Handlers keep the invariant: only FilterNamespace lets a candidate through,
   and every later pointer comes from it or from a route. *)
LEMMA HandlerNamespace ==
    ASSUME TypeOK, NamespaceInv, NEW c \in Conns,
           (\E k \in Keys : PickSticky(c, k) \/ PickSnapshot(c, k))
           \/ Handle(c) \/ RelayClosed(c)
    PROVE  NamespaceInv'
<1>0. namespace' = namespace /\ moved' = moved
  BY HandlerFrame
<1> USE <1>0, ObjsAssumption DEF TypeOK, NamespaceInv, Serves
<1>1. ASSUME NEW k \in Keys, PickSticky(c, k) PROVE NamespaceInv'
  BY <1>1 DEF PickSticky, stickyHit, lbVars
<1>2. ASSUME NEW k \in Keys, PickSnapshot(c, k) PROVE NamespaceInv'
  BY <1>2 DEF PickSnapshot, lbVars
<1>3. CASE FilterNamespace(c)
  <2>1. CASE sameNamespace(c) = {}
    BY <1>3, <2>1 DEF FilterNamespace, finish, lbVars
  <2>2. CASE sameNamespace(c) # {}
    <3>1. \A o \in sameNamespace(c) : namespace[o] = KeyNs[key[c]]
      BY DEF sameNamespace
    <3>2. /\ cand' = [cand EXCEPT ![c] = sameNamespace(c)]
          /\ pc' = [pc EXCEPT ![c] = "choose"]
          /\ UNCHANGED <<key, obj, routes>>
      BY <1>3, <2>2 DEF FilterNamespace, lbVars
    <3> QED BY <3>1, <3>2
  <2> QED BY <2>1, <2>2
<1>4. CASE PickLeastLoaded(c) \/ PickRoundRobin(c)
  <2>1. PICK o \in cand[c] : choose(c, o)
    BY <1>4 DEF PickLeastLoaded, PickRoundRobin
  <2> QED BY <2>1 DEF choose, lbVars
<1>5. CASE RegisterRoute(c)
  BY <1>5 DEF RegisterRoute
<1>6. CASE DialFail(c)
  BY <1>6 DEF DialFail, unregisterRoute, finish
<1>7. CASE DialOK(c)
  BY <1>7 DEF DialOK
<1>8. CASE RelayClosed(c)
  BY <1>8 DEF RelayClosed, finish
<1> QED BY <1>1, <1>2, <1>3, <1>4, <1>5, <1>6, <1>7, <1>8 DEF Handle

(* A registration in place marks the struct it moves, and a new struct is one that
   no route, handler or candidate list holds. *)
LEMMA RegistrationNamespace ==
    ASSUME TypeOK, NamespaceInv, NEW i \in Ids, NEW n \in RegNs[i],
           RegisterExisting(i, n) \/ RegisterNew(i, n)
    PROVE  NamespaceInv'
<1> USE ObjsAssumption DEF TypeOK, NamespaceInv, Serves, connVars
<1>1. CASE RegisterExisting(i, n)
  <2>1. PICK o \in Objs : /\ namespace' = [namespace EXCEPT ![o] = n]
                          /\ moved' = IF n = namespace[o] THEN moved ELSE moved \cup {o}
    BY <1>1 DEF RegisterExisting
  <2>2. \A p \in Objs, k \in Keys : Serves(p, k) => Serves(p, k)'
    BY <2>1
  <2> QED BY <1>1, <2>2 DEF RegisterExisting
<1>2. CASE RegisterNew(i, n)
  <2>1. PICK o \in Objs : /\ free(o)
                          /\ namespace' = [namespace EXCEPT ![o] = n]
                          /\ moved' = moved \ {o}
    BY <1>2 DEF RegisterNew
  <2>2. \A p \in Objs \ {o}, k \in Keys : Serves(p, k) => Serves(p, k)'
    BY <2>1
  <2>3. UNCHANGED <<routes, pc, key, obj, cand>>
    BY <1>2 DEF RegisterNew
  <2> QED BY <2>1, <2>2, <2>3 DEF free
<1> QED BY <1>1, <1>2

LEMMA NamespaceStep == TypeOK /\ NamespaceInv /\ [Next]_vars => NamespaceInv'
<1> SUFFICES ASSUME TypeOK, NamespaceInv, [Next]_vars PROVE NamespaceInv'
  OBVIOUS
<1>1. ASSUME NEW c \in Conns,
             (\E k \in Keys : PickSticky(c, k) \/ PickSnapshot(c, k))
             \/ Handle(c) \/ RelayClosed(c)
      PROVE  NamespaceInv'
  BY <1>1, HandlerNamespace
<1>2. ASSUME \A k \in Keys : routes'[k] \in {routes[k], None}, UNCHANGED connVars,
             UNCHANGED <<namespace, moved>>
      PROVE  NamespaceInv'
  BY <1>2 DEF NamespaceInv, Serves, connVars
<1>3. ASSUME (\E i \in Ids : Heartbeat(i) \/ Deregister(i)) \/ (\E o \in Objs : Expire(o))
             \/ PruneCutoff \/ PruneStale \/ UNCHANGED vars
      PROVE  NamespaceInv'
  <2>1. UNCHANGED connVars /\ UNCHANGED <<namespace, moved>>
    BY <1>3 DEF Heartbeat, Deregister, Expire, PruneCutoff, PruneStale, vars, lbVars
  <2>2. \A k \in Keys : routes'[k] \in {routes[k], None}
    BY <1>3 DEF Heartbeat, Deregister, dropBackends, Expire, PruneCutoff, PruneStale,
                vars, lbVars, TypeOK
  <2> QED BY <1>2, <2>1, <2>2
<1> QED BY <1>1, <1>3, RegistrationNamespace DEF Next, Registration

(* Tunnels and public requests of a namespace reach a backend of another one only
   through a struct that a registration moved in place, or through the fallback of
   direct routing: for every pool, and every sequence of namespaces the barges
   register under. *)
THEOREM NamespacesIsolated == Spec => []NamespaceIsolation
<1>1. Init => NamespaceInv
  BY DEF Init, NamespaceInv
<1>2. NamespaceInv => NamespaceIsolation
  BY DEF NamespaceInv, Serves, NamespaceIsolation, routeBackend, stickyHit
<1> QED BY <1>1, <1>2, NamespaceStep, TypeCorrect, PTL DEF Spec

--------------------------------------------------------------------------------
(* Routes. A step that takes a route takes it with every struct of the id, for the
   pool has one struct per id when -backends has. *)

(* What a step may do to the route of a relayed tunnel. *)
RouteSafe(c) ==
    \/ routes'[key[c]] = routes[key[c]]
    \/ \A o \in Objs : o = routes[key[c]] => ~availableID(IdOf[o])'

LEMMA DropRouteSafe ==
    ASSUME DistinctStatics, PoolInv, NEW gone \in SUBSET backends, dropBackends(gone), seen' = seen,
           NEW k \in Keys, NEW b \in Objs, b = routes[k], routes'[k] # routes[k]
    PROVE  ~availableID(IdOf[b])'
<1> USE ObjsAssumption DEF PoolInv, TypeOK
<1>1. PICK o \in gone : IdOf[b] = IdOf[o]
  BY DEF dropBackends
<1>2. backends' = backends \ gone
  BY DEF dropBackends
<1>3. ASSUME NEW p \in backends' PROVE IdOf[p] # IdOf[b]
  BY <1>1, <1>2, DistinctIds DEF UniqueIds
<1> QED BY <1>3 DEF availableID

LEMMA RouteStep ==
    ASSUME DistinctStatics, PoolInv, Next,
           NEW c \in Conns, pc[c] = "relay", pc'[c] = "relay",
           \A d \in Conns \ {c} : pc[d] # "idle" => key[d] # key[c]
    PROVE  RouteSafe(c) /\ key'[c] = key[c]
<1>0. key[c] \in Keys
  BY DEF PoolInv, TypeOK
<1> USE DEF lbVars, pruneVars, connVars
<1>1. ASSUME NEW d \in Conns, NEW k \in Keys, PickSticky(d, k) \/ PickSnapshot(d, k)
      PROVE  RouteSafe(c) /\ key'[c] = key[c]
  BY <1>1 DEF PickSticky, PickSnapshot, RouteSafe, PoolInv, TypeOK
<1>2. ASSUME NEW d \in Conns, Handle(d)
      PROVE  RouteSafe(c) /\ key'[c] = key[c]
  <2>1. d # c
    BY <1>2 DEF Handle, FilterNamespace, PickLeastLoaded, PickRoundRobin, choose, RegisterRoute,
         DialFail, DialOK
  <2>2. pc[d] # "idle"
    BY <1>2 DEF Handle, FilterNamespace, PickLeastLoaded, PickRoundRobin, choose, RegisterRoute,
         DialFail, DialOK
  <2>3. key[d] # key[c] /\ key[d] \in Keys
    BY <2>1, <2>2 DEF PoolInv, TypeOK
  <2>4. key'[c] = key[c]
    BY <1>2, <2>1 DEF Handle, FilterNamespace, PickLeastLoaded, PickRoundRobin, choose,
         RegisterRoute, DialFail, DialOK, finish, PoolInv, TypeOK
  <2>5. routes'[key[c]] = routes[key[c]]
    BY <1>0, <1>2, <2>3 DEF Handle, FilterNamespace, PickLeastLoaded, PickRoundRobin, choose,
         RegisterRoute, DialFail, DialOK, unregisterRoute, PoolInv, TypeOK
  <2> QED BY <2>4, <2>5 DEF RouteSafe
<1>3. ASSUME NEW d \in Conns, RelayClosed(d) PROVE RouteSafe(c) /\ key'[c] = key[c]
  <2>1. d # c
    BY <1>3 DEF RelayClosed, finish, PoolInv, TypeOK
  <2> QED BY <1>3, <2>1 DEF RelayClosed, finish, RouteSafe, PoolInv, TypeOK
<1>4. CASE Registration
  <2>1. ASSUME NEW i \in Ids, NEW n \in RegNs[i], RegisterExisting(i, n) \/ RegisterNew(i, n)
        PROVE  RouteSafe(c) /\ key'[c] = key[c]
    BY <2>1 DEF RegisterExisting, RegisterNew, RouteSafe
  <2>2. ASSUME NEW i \in Ids, Heartbeat(i) PROVE RouteSafe(c) /\ key'[c] = key[c]
    BY <2>2 DEF Heartbeat, RouteSafe
  <2>3. ASSUME NEW i \in Ids, Deregister(i) PROVE RouteSafe(c) /\ key'[c] = key[c]
    <3>1. PICK o \in backends : dropBackends({o})
      BY <2>3 DEF Deregister
    <3>2. key' = key /\ seen' = seen
      BY <2>3 DEF Deregister
    <3> QED BY <1>0, <3>1, <3>2, DropRouteSafe DEF RouteSafe
  <2> QED BY <1>4, <2>1, <2>2, <2>3 DEF Registration
<1>5. ASSUME NEW o \in Objs, Expire(o) PROVE RouteSafe(c) /\ key'[c] = key[c]
  BY <1>5 DEF Expire, RouteSafe
<1>6. CASE PruneCutoff
  BY <1>6 DEF PruneCutoff, RouteSafe
<1>7. CASE PruneStale
  <2> DEFINE gone == {o \in backends : seen[o] # "static" /\ o \in cutoff}
  <2>1. dropBackends(gone) /\ key' = key /\ seen' = seen /\ gone \in SUBSET backends
    BY <1>7 DEF PruneStale
  <2> HIDE DEF gone
  <2> QED BY <1>0, <2>1, DropRouteSafe DEF RouteSafe
<1> QED BY <1>1, <1>2, <1>3, <1>4, <1>5, <1>6, <1>7 DEF Next

(* Whatever registers, deregisters, expires, is pruned or fails its dial, a relayed
   tunnel keeps its route while the id it leads to is available and its handler is
   the only one of its key: unregisterRoute and dropBackends take nothing else. *)
THEOREM RouteKeptWithRelay == Spec => RouteKept
<1>1. ASSUME DistinctStatics, PoolInv, Next,
             NEW c \in Conns, pc[c] = "relay", pc'[c] = "relay",
             \A d \in Conns \ {c} : pc[d] # "idle" => key[d] # key[c],
             NEW o \in Objs, o = routes[key[c]], availableID(IdOf[o])'
      PROVE  stickyHit(key[c])'
  <2>1. routes'[key[c]] = routes[key[c]] /\ key'[c] = key[c]
    BY <1>1, RouteStep DEF RouteSafe
  <2> QED BY <1>1, <2>1, ObjsAssumption DEF stickyHit, availableID
<1>2. PoolInv /\ [Next]_vars =>
        [\A c \in Conns :
            /\ DistinctStatics
            /\ pc[c] = "relay" /\ pc'[c] = "relay"
            /\ \A d \in Conns \ {c} : pc[d] # "idle" => key[d] # key[c]
            /\ \E o \in Objs : o = routes[key[c]] /\ availableID(IdOf[o])'
            => stickyHit(key[c])']_vars
  BY <1>1
<1> QED BY <1>2, PoolInvariant, PTL DEF Spec, RouteKept

--------------------------------------------------------------------------------
(* Refinement of the lease protocol. *)

(* A backend of the pool determines the lease of its id, and an id that no
   backend of the pool has is absent. *)
LeaseDetermined ==
    /\ leaseOf = [i \in Ids |-> leaseOf[i]]
    /\ \A o \in backends : IdOf[o] \in Ids /\ leaseOf[IdOf[o]] = seen[o]
    /\ \A i \in Ids : (\A o \in backends : IdOf[o] # i) => leaseOf[i] = "absent"

LEMMA LeaseOfBackend == DistinctStatics /\ PoolInv => LeaseDetermined
<1> SUFFICES ASSUME DistinctStatics, PoolInv PROVE LeaseDetermined
  OBVIOUS
<1>1. ASSUME NEW o \in backends
      PROVE  IdOf[o] \in Ids /\ leaseOf[IdOf[o]] = seen[o]
  <2>1. IdOf[o] \in Ids
    BY ObjsAssumption DEF PoolInv, TypeOK
  <2>2. (CHOOSE p \in backends : IdOf[p] = IdOf[o]) = o
    BY DistinctIds DEF UniqueIds
  <2> QED BY <2>1, <2>2 DEF leaseOf
<1>2. \A i \in Ids : (\A o \in backends : IdOf[o] # i) => leaseOf[i] = "absent"
  BY DEF leaseOf
<1>3. leaseOf = [i \in Ids |-> leaseOf[i]]
  BY DEF leaseOf
<1> QED BY <1>1, <1>2, <1>3 DEF LeaseDetermined

LEMMA LeaseOfBackendNext ==
    ASSUME DistinctStatics PROVE PoolInv' => LeaseDetermined'
<1>1. PoolInv => LeaseDetermined
  BY LeaseOfBackend
<1> QED BY <1>1, PTL

(* Every step of the pool is a step of the lease protocol or leaves it alone. *)
LEMMA LeaseStep ==
    ASSUME DistinctStatics PROVE PoolInv /\ [Next]_vars => [Lease!Next]_leaseOf
<1> SUFFICES ASSUME PoolInv, [Next]_vars
             PROVE  Lease!Next \/ leaseOf' = leaseOf
  OBVIOUS
<1>0. /\ PoolInv' /\ LeaseDetermined /\ LeaseDetermined'
      /\ backends \subseteq Objs /\ backends' \subseteq Objs
      /\ seen \in [Objs -> {"static", "fresh", "stale"}]
      /\ UniqueIds
  BY PoolInvStep, LeaseOfBackend, LeaseOfBackendNext, DistinctIds DEF PoolInv, TypeOK
<1>1. ASSUME UNCHANGED <<backends, seen>> PROVE leaseOf' = leaseOf
  BY <1>1 DEF leaseOf
<1>2. ASSUME NEW i \in Ids, NEW o \in Objs, IdOf[o] = i,
             backends' = backends \cup {o},
             \A p \in backends : IdOf[p] = i => p = o,
             seen' = [seen EXCEPT ![o] = "fresh"]
      PROVE  Lease!Next
  <2>1. ASSUME NEW j \in Ids PROVE leaseOf'[j] = IF j = i THEN "fresh" ELSE leaseOf[j]
    <3>1. CASE j = i
      BY <1>0, <1>2, <3>1 DEF LeaseDetermined
    <3>2. ASSUME j # i, NEW p \in backends, IdOf[p] = j PROVE leaseOf'[j] = leaseOf[j]
      BY <1>0, <1>2, <3>2 DEF LeaseDetermined
    <3>3. ASSUME j # i, \A p \in backends : IdOf[p] # j PROVE leaseOf'[j] = leaseOf[j]
      BY <1>0, <1>2, <3>3 DEF LeaseDetermined
    <3> QED BY <3>1, <3>2, <3>3
  <2>2. leaseOf' = [leaseOf EXCEPT ![i] = "fresh"]
    BY <1>0, <2>1 DEF LeaseDetermined
  <2> QED BY <2>2 DEF Lease!Next, Lease!Renew
<1>3. ASSUME NEW i \in Ids,
             (\E n \in RegNs[i] : RegisterExisting(i, n) \/ RegisterNew(i, n))
             \/ Heartbeat(i)
      PROVE  Lease!Next
  <2>1. \E o \in Objs : /\ IdOf[o] = i
                        /\ backends' = backends \cup {o}
                        /\ \A p \in backends : IdOf[p] = i => p = o
                        /\ seen' = [seen EXCEPT ![o] = "fresh"]
    BY <1>0, <1>3 DEF RegisterExisting, RegisterNew, Heartbeat, UniqueIds
  <2> QED BY <1>2, <2>1
<1>4. ASSUME NEW gone \in SUBSET backends, backends' = backends \ gone, UNCHANGED seen
      PROVE  leaseOf' = [i \in Ids |->
                IF i \in {IdOf[o] : o \in gone} THEN "absent" ELSE leaseOf[i]]
  <2>1. ASSUME NEW j \in Ids
        PROVE  leaseOf'[j] = IF j \in {IdOf[o] : o \in gone} THEN "absent" ELSE leaseOf[j]
    <3>1. CASE j \in {IdOf[o] : o \in gone}
      BY <1>0, <1>4, <3>1 DEF LeaseDetermined, UniqueIds
    <3>2. ASSUME j \notin {IdOf[o] : o \in gone}, NEW p \in backends, IdOf[p] = j
          PROVE  leaseOf'[j] = leaseOf[j]
      BY <1>0, <1>4, <3>2 DEF LeaseDetermined
    <3>3. ASSUME \A p \in backends : IdOf[p] # j PROVE leaseOf'[j] = leaseOf[j]
      BY <1>0, <1>4, <3>3 DEF LeaseDetermined
    <3> QED BY <3>1, <3>2, <3>3
  <2> QED BY <1>0, <2>1 DEF LeaseDetermined
<1>5. ASSUME NEW i \in Ids, Deregister(i) PROVE Lease!Next
  <2>1. PICK o \in backends : /\ IdOf[o] = i
                             /\ seen[o] # "static"
                             /\ backends' = backends \ {o}
                             /\ UNCHANGED seen
    BY <1>5 DEF Deregister, dropBackends
  <2>2. leaseOf[i] \in {"fresh", "stale"}
    BY <1>0, <2>1 DEF LeaseDetermined
  <2>3. {o} \in SUBSET backends /\ {IdOf[p] : p \in {o}} = {i}
    BY <2>1
  <2>4. leaseOf' = [j \in Ids |-> IF j \in {i} THEN "absent" ELSE leaseOf[j]]
    BY <1>4, <2>1, <2>3
  <2>5. leaseOf' = [leaseOf EXCEPT ![i] = "absent"]
    BY <1>0, <2>4 DEF LeaseDetermined
  <2> QED BY <2>2, <2>5 DEF Lease!Next, Lease!Leave
<1>6. CASE PruneStale
  <2> DEFINE gone == {o \in backends : seen[o] # "static" /\ o \in cutoff}
             ids == {IdOf[o] : o \in gone}
  <2>1. backends' = backends \ gone /\ UNCHANGED seen
    BY <1>6 DEF PruneStale, dropBackends
  <2>2. \A o \in gone : seen[o] = "stale"
    BY DEF PoolInv, CutoffStale
  <2>3. ids \in SUBSET {i \in Ids : leaseOf[i] = "stale"}
    BY <1>0, <2>2 DEF LeaseDetermined
  <2>4. gone \in SUBSET backends
    OBVIOUS
  <2> HIDE DEF gone
  <2>5. leaseOf' = [i \in Ids |-> IF i \in ids THEN "absent" ELSE leaseOf[i]]
    BY <1>4, <2>1, <2>4
  <2> QED BY <2>3, <2>5 DEF Lease!Next, Lease!Evict
<1>7. ASSUME NEW o \in Objs, Expire(o) PROVE Lease!Next
  <2>1. /\ o \in backends /\ seen[o] = "fresh"
        /\ seen' = [seen EXCEPT ![o] = "stale"] /\ backends' = backends
    BY <1>7 DEF Expire
  <2>2. IdOf[o] \in Ids /\ leaseOf[IdOf[o]] = "fresh"
    BY <1>0, <2>1 DEF LeaseDetermined
  <2>3. ASSUME NEW j \in Ids
        PROVE  leaseOf'[j] = IF j = IdOf[o] THEN "stale" ELSE leaseOf[j]
    <3>1. CASE j = IdOf[o]
      BY <1>0, <2>1, <3>1 DEF LeaseDetermined
    <3>2. ASSUME j # IdOf[o], NEW p \in backends, IdOf[p] = j
          PROVE  leaseOf'[j] = leaseOf[j]
      BY <1>0, <2>1, <3>2 DEF LeaseDetermined
    <3>3. ASSUME \A p \in backends : IdOf[p] # j PROVE leaseOf'[j] = leaseOf[j]
      BY <1>0, <2>1, <3>3 DEF LeaseDetermined
    <3> QED BY <2>1, <3>1, <3>2, <3>3
  <2>4. leaseOf' = [leaseOf EXCEPT ![IdOf[o]] = "stale"]
    BY <1>0, <2>3 DEF LeaseDetermined
  <2> QED BY <2>2, <2>4 DEF Lease!Next, Lease!Lapse
<1>8. ASSUME PruneCutoff \/ UNCHANGED vars PROVE leaseOf' = leaseOf
  BY <1>1, <1>8 DEF PruneCutoff, vars, lbVars
<1>9. ASSUME NEW c \in Conns,
             (\E k \in Keys : PickSticky(c, k) \/ PickSnapshot(c, k))
             \/ Handle(c) \/ RelayClosed(c)
      PROVE  leaseOf' = leaseOf
  BY <1>1, <1>9, HandlerFrame
<1> QED BY <1>3, <1>5, <1>6, <1>7, <1>8, <1>9 DEF Next, Registration

(* The load balancer implements the lease protocol: whatever its handlers,
   registrations and prunes do, a backend id moves only along BackendLease, provided
   that -backends names no address twice. *)
THEOREM ImplementsLease == DistinctStatics => (Spec => LeaseRefinement)
<1> SUFFICES ASSUME DistinctStatics PROVE Spec => LeaseRefinement
  OBVIOUS
<1>1. Init => Lease!Init
  <2> SUFFICES ASSUME Init PROVE Lease!Init
    OBVIOUS
  <2>1. PoolInv
    BY InitTypeOK, StaticsAssumption DEF Init, PoolInv, NoNewDuplicates, CutoffStale
  <2>2. LeaseDetermined
    BY <2>1, LeaseOfBackend
  <2>3. ASSUME NEW i \in Ids
        PROVE  leaseOf[i] = IF i \in {IdOf[o] : o \in Statics} THEN "static" ELSE "absent"
    BY <2>2, StaticsAssumption DEF Init, LeaseDetermined
  <2> QED BY <2>2, <2>3 DEF Lease!Init, LeaseDetermined
<1> QED BY <1>1, LeaseStep, PoolInvariant, PTL DEF Spec, LeaseRefinement, Lease!Spec
================================================================================
