------------------------------- MODULE LBManager -------------------------------
(* The load balancer (lb.go, lb_control.go, lb_register.go): a pool of backends,
   static or registered by barges over HTTP, the sticky map from tunnel keys to
   backends, the per-backend load counters, and the goroutines that share them
   under one RWMutex: one handler per tunnel client, the registration handlers,
   the pruner, and the public ingress, which only reads.

   A step is one critical section of m.mu, or one stretch of code between two of
   them. Backends are pointers in the code, and routes and handlers keep them
   after the pool has dropped the backend; they are the members of Objs here. *)
EXTENDS Integers, FiniteSets

CONSTANTS
    Ids,          \* backend ids (net.JoinHostPort(host, controlPort))
    Namespaces,   \* logical namespaces
    Keys,         \* tunnel keys
    Conns,        \* tunnel client connections being handled
    Objs,         \* addresses of tunnelBackend structs
    IdOf,         \* the id field of the struct at an address; no code changes it
    KeyNs,        \* the namespace splitTunnelKey finds in a key
    RegNs,        \* the namespaces a barge may register backend id i under
    Statics,      \* structs made from the -backends flag
    Dynamic,      \* -lb-dynamic
    Policy,       \* -lb-policy
    DirectRouting,\* -routing direct
    None          \* nil

ASSUME ObjsAssumption == /\ IdOf \in [Objs -> Ids]
                         /\ None \notin Objs
ASSUME KeysAssumption == KeyNs \in [Keys -> Namespaces]
ASSUME RegNsAssumption == RegNs \in [Ids -> (SUBSET Namespaces) \ {{}}]
ASSUME StaticsAssumption == Statics \subseteq Objs
ASSUME FlagsAssumption == /\ Dynamic \in BOOLEAN
                          /\ DirectRouting \in BOOLEAN
                          /\ Policy \in {"sticky", "round-robin"}
ASSUME ConnsAssumption == IsFiniteSet(Conns)

VARIABLES
    backends,   \* m.backends: the structs in the pool (order abstracted, see README)
    namespace,  \* namespace[o]: the struct's namespace field
    seen,       \* seen[o]: "static" when ~dynamic, else "fresh" or "stale" as
                \* lastSeen is or is not After(now - TTL)
    routes,     \* m.routes: tunnel key -> struct, None when absent
    load,       \* m.load: id -> count (an absent entry reads as 0)
    cutoff,     \* structs not seen after the cutoff the pruner has computed
    pruner,     \* where serveDynamicPrune stands: "ticker" or "lock"
    pc,         \* where handleLBClientConnection of a connection stands
    key,        \* its tunnelKey
    obj,        \* its backend
    cand,       \* its list of candidate backends in pickBackend
    moved       \* history: structs whose namespace a registration has changed in
                \* place since they were allocated

lbVars   == <<backends, namespace, seen, routes, load, moved>>
pruneVars == <<cutoff, pruner>>
connVars == <<pc, key, obj, cand>>
vars     == <<lbVars, pruneVars, connVars>>

PCs == {"idle", "filter", "choose", "register", "dial", "relay"}

TypeOK ==
    /\ backends \subseteq Objs
    /\ namespace \in [Objs -> Namespaces]
    /\ seen \in [Objs -> {"static", "fresh", "stale"}]
    /\ routes \in [Keys -> Objs \cup {None}]
    /\ load \in [Ids -> Nat]
    /\ cutoff \subseteq Objs
    /\ pruner \in {"ticker", "lock"}
    /\ pc \in [Conns -> PCs]
    /\ key \in [Conns -> Keys \cup {None}]
    /\ obj \in [Conns -> Objs \cup {None}]
    /\ cand \in [Conns -> SUBSET Objs]
    /\ moved \subseteq Objs
    /\ \A c \in Conns : /\ pc[c] # "idle" => key[c] \in Keys
                        /\ pc[c] \in {"register", "dial", "relay"} => obj[c] \in Objs

--------------------------------------------------------------------------------
(* Reading the pool. *)

(* backendAvailable: static, or seen within the TTL. *)
backendAvailable(o) == seen[o] # "stale"

(* backendByID(id) # nil: some available struct of the pool has the id. *)
availableID(i) == \E o \in backends : IdOf[o] = i /\ backendAvailable(o)

eligibleBackends == {o \in backends : backendAvailable(o)}

(* The sticky branch of pickBackend: the route's own struct is returned, while
   availability is looked up by its id. *)
stickyHit(k) == routes[k] # None /\ availableID(IdOf[routes[k]])

(* routeBackend: where the public ingress sends a request for key k. *)
routeBackend(k) ==
    IF stickyHit(k) THEN {routes[k]}
    ELSE IF DirectRouting /\ Cardinality(backends) = 1 THEN backends
    ELSE {}

--------------------------------------------------------------------------------
(* Mutations of the maps, each one critical section of m.mu. *)

unregisterRoute(k, o) ==
    routes' = IF routes[k] # None /\ IdOf[routes[k]] = IdOf[o]
              THEN [routes EXCEPT ![k] = None] ELSE routes

incLoad(i) == load' = [load EXCEPT ![i] = @ + 1]

decLoad(i) == load' = [load EXCEPT ![i] = IF @ > 0 THEN @ - 1 ELSE @]

(* Mutant: every route goes, whoever leaves. *)
MutantDropBackends(gone) ==
    /\ backends' = backends \ gone
    /\ load' = [i \in Ids |-> IF i \in {IdOf[o] : o \in gone} THEN 0 ELSE load[i]]
    /\ routes' = [k \in Keys |-> None]

(* What deregistration and pruning do with the structs they drop: forget the
   load of their ids and every route to those ids. *)
dropBackends(gone) ==
    LET ids == {IdOf[o] : o \in gone}
    IN  /\ backends' = backends \ gone
        /\ load' = [i \in Ids |-> IF i \in ids THEN 0 ELSE load[i]]
        /\ routes' = [k \in Keys |->
              IF routes[k] # None /\ IdOf[routes[k]] \in ids THEN None ELSE routes[k]]

(* A struct is free for allocation when nothing points to it. *)
free(o) == /\ o \notin backends
           /\ \A k \in Keys : routes[k] # o
           /\ \A c \in Conns : obj[c] # o /\ o \notin cand[c]

--------------------------------------------------------------------------------
(* handleLBClientConnection, one step per critical section. Connections whose
   preamble does not decode or whose token is wrong return before any of this. *)

Init ==
    /\ backends = Statics
    /\ namespace \in [Objs -> Namespaces]
    /\ \A o \in Objs : namespace[o] \in RegNs[IdOf[o]]
    /\ seen = [o \in Objs |-> "static"]
    /\ routes = [k \in Keys |-> None]
    /\ load = [i \in Ids |-> 0]
    /\ cutoff = {}
    /\ pruner = "ticker"
    /\ pc = [c \in Conns |-> "idle"]
    /\ key = [c \in Conns |-> None]
    /\ obj = [c \in Conns |-> None]
    /\ cand = [c \in Conns |-> {}]
    /\ moved = {}

(* The handler returns and drops its locals. *)
finish(c) == /\ pc' = [pc EXCEPT ![c] = "idle"]
             /\ key' = [key EXCEPT ![c] = None]
             /\ obj' = [obj EXCEPT ![c] = None]
             /\ cand' = [cand EXCEPT ![c] = {}]

(* pickBackend, first critical section, when the key has a usable route. *)
PickSticky(c, k) ==
    /\ pc[c] = "idle"
    /\ stickyHit(k)
    /\ pc' = [pc EXCEPT ![c] = "register"]
    /\ key' = [key EXCEPT ![c] = k]
    /\ obj' = [obj EXCEPT ![c] = routes[k]]
    /\ UNCHANGED <<lbVars, pruneVars, cand>>

(* pickBackend, first critical section otherwise: copy the eligible backends. *)
PickSnapshot(c, k) ==
    /\ pc[c] = "idle"
    /\ ~stickyHit(k)
    /\ pc' = [pc EXCEPT ![c] = "filter"]
    /\ key' = [key EXCEPT ![c] = k]
    /\ cand' = [cand EXCEPT ![c] = eligibleBackends]
    /\ UNCHANGED <<lbVars, pruneVars, obj>>

sameNamespace(c) == {o \in cand[c] : namespace[o] = KeyNs[key[c]]}

(* Mutant: candidates are not filtered by namespace. *)
MutantFilterAnyNamespace(c) ==
    /\ pc[c] = "filter"
    /\ IF cand[c] = {}
       THEN finish(c)
       ELSE /\ pc' = [pc EXCEPT ![c] = "choose"]
            /\ UNCHANGED <<key, obj, cand>>
    /\ UNCHANGED <<lbVars, pruneVars>>

(* Mutant: an empty candidate list is not an error. *)
MutantFilterEmptyGoesOn(c) ==
    /\ pc[c] = "filter"
    /\ cand' = [cand EXCEPT ![c] = sameNamespace(c)]
    /\ pc' = [pc EXCEPT ![c] = "choose"]
    /\ UNCHANGED <<lbVars, pruneVars, key, obj>>

(* The namespace filter runs without the lock; nothing left is an error. *)
FilterNamespace(c) ==
    /\ pc[c] = "filter"
    /\ IF sameNamespace(c) = {}
       THEN finish(c)
       ELSE /\ cand' = [cand EXCEPT ![c] = sameNamespace(c)]
            /\ pc' = [pc EXCEPT ![c] = "choose"]
            /\ UNCHANGED <<key, obj>>
    /\ UNCHANGED <<lbVars, pruneVars>>

choose(c, o) ==
    /\ pc[c] = "choose"
    /\ o \in cand[c]
    /\ pc' = [pc EXCEPT ![c] = "register"]
    /\ obj' = [obj EXCEPT ![c] = o]
    /\ cand' = [cand EXCEPT ![c] = {}]
    /\ UNCHANGED <<lbVars, pruneVars, key>>

(* Ties go to the earliest of the slice: any of them here. *)
PickLeastLoaded(c) ==
    /\ Policy # "round-robin"
    /\ \E o \in cand[c] : /\ \A p \in cand[c] : load[IdOf[o]] <= load[IdOf[p]]
                          /\ choose(c, o)

(* The counter is shared by all keys, so any candidate may be next. *)
PickRoundRobin(c) ==
    /\ Policy = "round-robin"
    /\ \E o \in cand[c] : choose(c, o)

RegisterRoute(c) ==
    /\ pc[c] = "register"
    /\ routes' = [routes EXCEPT ![key[c]] = obj[c]]
    /\ pc' = [pc EXCEPT ![c] = "dial"]
    /\ UNCHANGED <<backends, namespace, moved, seen, load, pruneVars, key, obj, cand>>

(* Mutant: decLoad is deferred before the dial instead of after incLoad. *)
MutantDialFailDecrements(c) ==
    /\ pc[c] = "dial"
    /\ unregisterRoute(key[c], obj[c])
    /\ decLoad(IdOf[obj[c]])
    /\ finish(c)
    /\ UNCHANGED <<backends, namespace, moved, seen, pruneVars>>

(* The QUIC dial or the forwarding of the preamble failed. *)
DialFail(c) ==
    /\ pc[c] = "dial"
    /\ unregisterRoute(key[c], obj[c])
    /\ finish(c)
    /\ UNCHANGED <<backends, namespace, moved, seen, load, pruneVars>>

DialOK(c) ==
    /\ pc[c] = "dial"
    /\ incLoad(IdOf[obj[c]])
    /\ pc' = [pc EXCEPT ![c] = "relay"]
    /\ UNCHANGED <<backends, namespace, moved, seen, routes, pruneVars, key, obj, cand>>

(* Mutant: the deferred decLoad is missing. *)
MutantRelayClosedKeepsLoad(c) ==
    /\ pc[c] = "relay"
    /\ finish(c)
    /\ UNCHANGED <<lbVars, pruneVars>>

(* relayConns returned; the deferred decLoad runs. The route stays. *)
RelayClosed(c) ==
    /\ pc[c] = "relay"
    /\ decLoad(IdOf[obj[c]])
    /\ finish(c)
    /\ UNCHANGED <<backends, namespace, moved, seen, routes, pruneVars>>

--------------------------------------------------------------------------------
(* Registration, heartbeats and pruning. *)

(* registerDynamicBackend when the id is in the pool: the struct is updated in
   place, and becomes dynamic if it was static. *)
RegisterExisting(i, n) ==
    /\ Dynamic
    /\ \E o \in backends :
          /\ IdOf[o] = i
          /\ namespace' = [namespace EXCEPT ![o] = n]
          /\ moved' = IF n = namespace[o] THEN moved ELSE moved \cup {o}
          /\ seen' = [seen EXCEPT ![o] = "fresh"]
          /\ cutoff' = cutoff \ {o}
    /\ UNCHANGED <<backends, routes, load, pruner, connVars>>

(* ... and when it is not: a new struct is appended. *)
RegisterNew(i, n) ==
    /\ Dynamic
    /\ \A o \in backends : IdOf[o] # i
    /\ \E o \in Objs :
          /\ IdOf[o] = i
          /\ free(o)
          /\ backends' = backends \cup {o}
          /\ namespace' = [namespace EXCEPT ![o] = n]
          /\ moved' = moved \ {o}
          /\ seen' = [seen EXCEPT ![o] = "fresh"]
          /\ cutoff' = cutoff \ {o}
    /\ UNCHANGED <<routes, load, pruner, connVars>>

(* Mutant: the pruner settles its victims before it takes the lock, so that a
   heartbeat in between comes too late. *)
MutantHeartbeatTooLate(i) ==
    /\ \E o \in backends :
          /\ IdOf[o] = i
          /\ seen[o] # "static"
          /\ seen' = [seen EXCEPT ![o] = "fresh"]
    /\ UNCHANGED <<backends, namespace, moved, routes, load, pruneVars, connVars>>

(* handleLBHeartbeat of a known dynamic backend. For any other id the handler
   goes on to registerDynamicBackend: RegisterExisting or RegisterNew above, in
   a critical section of its own. *)
Heartbeat(i) ==
    /\ \E o \in backends :
          /\ IdOf[o] = i
          /\ seen[o] # "static"
          /\ seen' = [seen EXCEPT ![o] = "fresh"]
          /\ cutoff' = cutoff \ {o}
    /\ UNCHANGED <<backends, namespace, moved, routes, load, pruner, connVars>>

(* Mutant: deregistration does not look at the dynamic flag. *)
MutantDeregisterAny(i) ==
    /\ \E o \in backends : IdOf[o] = i /\ dropBackends({o})
    /\ UNCHANGED <<namespace, moved, seen, pruneVars, connVars>>

Deregister(i) ==
    /\ \E o \in backends : /\ IdOf[o] = i
                           /\ seen[o] # "static"
                           /\ dropBackends({o})
    /\ UNCHANGED <<namespace, moved, seen, pruneVars, connVars>>

(* The TTL of a backend in the pool elapses. *)
Expire(o) ==
    /\ o \in backends
    /\ seen[o] = "fresh"
    /\ seen' = [seen EXCEPT ![o] = "stale"]
    /\ UNCHANGED <<backends, namespace, moved, routes, load, pruneVars, connVars>>

(* pruneStaleBackends computes its cutoff before it takes the lock ... *)
PruneCutoff ==
    /\ Dynamic
    /\ pruner = "ticker"
    /\ pruner' = "lock"
    /\ cutoff' = {o \in backends : seen[o] = "stale"}
    /\ UNCHANGED <<lbVars, connVars>>

(* Mutant: the pruned slice is not stored back. *)
MutantPruneKeepsPool ==
    /\ pruner = "lock"
    /\ pruner' = "ticker"
    /\ cutoff' = {}
    /\ UNCHANGED <<lbVars, connVars>>

(* ... and then drops the dynamic backends not seen after it: a backend whose
   heartbeat came in between is kept. *)
PruneStale ==
    /\ pruner = "lock"
    /\ pruner' = "ticker"
    /\ dropBackends({o \in backends : seen[o] # "static" /\ o \in cutoff})
    /\ cutoff' = {}
    /\ UNCHANGED <<namespace, moved, seen, connVars>>

--------------------------------------------------------------------------------
Handle(c) == \/ FilterNamespace(c)
             \/ PickLeastLoaded(c)
             \/ PickRoundRobin(c)
             \/ RegisterRoute(c)
             \/ DialFail(c)
             \/ DialOK(c)

Registration == \E i \in Ids : \/ \E n \in RegNs[i] : RegisterExisting(i, n) \/ RegisterNew(i, n)
                               \/ Heartbeat(i)
                               \/ Deregister(i)

Next ==
    \/ \E c \in Conns : \/ \E k \in Keys : PickSticky(c, k) \/ PickSnapshot(c, k)
                        \/ Handle(c)
                        \/ RelayClosed(c)
    \/ Registration
    \/ \E o \in Objs : Expire(o)
    \/ PruneCutoff
    \/ PruneStale

Spec == Init /\ [][Next]_vars

(* Goroutines run: a handler's next step is taken (the dial is bounded by a 30 s
   context) and the pruner's ticker fires. Nothing obliges clients to connect,
   relays to end, or barges to send anything. *)
Fairness == /\ \A c \in Conns : WF_vars(Handle(c))
            /\ WF_vars(PruneCutoff)
            /\ WF_vars(PruneStale)

FairSpec == Spec /\ Fairness

--------------------------------------------------------------------------------
(* Correctness. *)

(* -backends names no address twice. parseBackends does not check it. *)
DistinctStatics == \A o, p \in Statics : IdOf[o] = IdOf[p] => o = p

(* However registrations, late heartbeats, deregistrations and prunes interleave,
   two structs of the pool that share an id both come from -backends:
   backendByID, touchDynamicBackend and deregisterDynamicBackend stop at the first
   struct they find, so a duplicate could be neither refreshed nor removed. *)
NoNewDuplicates ==
    \A o, p \in backends : IdOf[o] = IdOf[p] => o = p \/ {o, p} \subseteq Statics

Relays(i) == {c \in Conns : pc[c] = "relay" /\ IdOf[obj[c]] = i}

(* A load counter never exceeds the relays that are open on the backend. The
   pool forgets the counter of a backend it drops while relays are still open on
   it, and their decLoad then meets the counter of a re-registered backend; the
   guard in decLoad must keep this from drifting upwards, which would starve the
   backend under least-loaded assignment for good. *)
LoadBounded == \A i \in Ids : load[i] <= Cardinality(Relays(i))

(* For a backend that is still static the counter is exact: no deregistration,
   prune or registration of other backends touches it. (The counter belongs to the
   id: a second -backends entry of the same address, registered over and pruned,
   takes it along.) *)
StaticLoadExact ==
    DistinctStatics =>
        \A o \in backends : seen[o] = "static" =>
            load[IdOf[o]] = Cardinality(Relays(IdOf[o]))

(* Tunnels of a namespace are relayed to, and public requests for its keys
   answered by, backends of that namespace, through all the pointers that routes
   and handlers keep after the pool has dropped and replaced a backend; with two
   exceptions, which are all there are. A registration may change the namespace of
   a struct in place, under the routes and candidate lists that hold it; and under
   direct routing a key without a usable route goes to the only backend of the
   pool, whatever its namespace. *)
NamespaceIsolation ==
    /\ \A k \in Keys : \A o \in routeBackend(k) :
          \/ namespace[o] = KeyNs[k]
          \/ o \in moved
          \/ DirectRouting /\ ~stickyHit(k)
    /\ \A c \in Conns : pc[c] \in {"register", "dial", "relay"} =>
            namespace[obj[c]] = KeyNs[key[c]] \/ obj[c] \in moved

(* The pruner drops no backend whose heartbeat arrived after its cutoff was
   computed and no static backend: whoever leaves the pool was stale, or
   deregistered itself. *)
FreshNeverPruned ==
    [][\A o \in backends \ backends' :
          seen[o] = "stale" \/ Deregister(IdOf[o])]_vars

(* The membership of a backend id, as the pool has it. *)
leaseOf == [i \in Ids |->
    IF \E o \in backends : IdOf[o] = i
    THEN seen[CHOOSE o \in backends : IdOf[o] = i]
    ELSE "absent"]

(* The pool, seen through ids, implements the lease protocol. *)
Lease == INSTANCE BackendLease WITH
    StaticIds <- {IdOf[o] : o \in Statics},
    lease <- leaseOf

(* Registration, heartbeats, expiry and the two-step prune only ever move a
   backend along the lease protocol of BackendLease, provided that -backends names
   no address twice. *)
LeaseRefinement == Lease!Spec

(* A tunnel keeps its public route with its relay: no step takes the route of a
   relayed tunnel while the id it leads to is available and no other handler of the
   same key is at work, whatever the other backends and tunnels do, provided that
   -backends names no address twice. (The route goes with the backend, and does not
   come back with it.) *)
RouteKept ==
    [][\A c \in Conns :
          /\ DistinctStatics
          /\ pc[c] = "relay" /\ pc'[c] = "relay"
          /\ \A d \in Conns \ {c} : pc[d] # "idle" => key[d] # key[c]
          /\ \E o \in Objs : o = routes[key[c]] /\ availableID(IdOf[o])'
          => stickyHit(key[c])']_vars

(* A backend whose barge died is out of the pool eventually, unless a heartbeat
   or a registration revives it. *)
StaleEvicted ==
    \A o \in Objs : (o \in backends /\ seen[o] = "stale")
                       ~> (o \notin backends \/ seen[o] # "stale")

(* Every tunnel client is relayed or turned away: no handler is stuck between
   the candidate list and the dial, even when the pool empties meanwhile. *)
HandlerResolves ==
    \A c \in Conns : pc[c] # "idle" ~> pc[c] \in {"idle", "relay"}
================================================================================
