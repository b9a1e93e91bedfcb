------------------------------ MODULE TunnelServer ------------------------------
(* The tunnel server (server.go, production.go, with mesh_runtime.go,
   mesh_authority.go and the inventory side of snapshot.go): the table of live
   tunnels, one handler goroutine per client connection, the A records that
   handlers publish in the mesh zone, the restored tunnels awaiting their
   clients, shutdown, crash and restart.

   A step is one critical section of m.mu or of the mesh authority's lock. How a
   snapshot reaches the disk is the subject of BargeSnapshots; here taking one is
   a single step. *)
EXTENDS FiniteSets

CONSTANTS
    Keys,     \* tunnel keys
    Conns,    \* client connections (a liveTunnel record each)
    Names,    \* host names of the mesh zone
    HostID,   \* the mesh name publishTunnelToMesh derives from a key
    None      \* nil

ASSUME HostIDAssumption == HostID \in [Keys -> Names]
ASSUME NoneAssumption == None \notin Conns

VARIABLES
    phase,    \* runServer: "up", "snapshot", "close", "exit" while shutting down, "down"
    tunnels,  \* m.tunnels: key -> connection, None when absent
    pending,  \* m.pending: restored keys awaiting reconnect
    mesh,     \* names with an A record; the store outlives the process
    loose,    \* history: names whose record no handler answers for, as it was found
              \* at the start, registered over the API, or kept by a failed delete
    published,\* history: connections whose publishTunnelToMesh succeeded, and whose
              \* name was not deregistered over the API afterwards
    saved,    \* keys in the latest snapshot
    open,     \* connections whose yamux session is open
    pc,       \* where handleClientConnection of a connection stands
    key       \* its tunnelKey

vars == <<phase, tunnels, pending, mesh, loose, published, saved, open, pc, key>>

TypeOK ==
    /\ phase \in {"up", "snapshot", "close", "exit", "down"}
    /\ tunnels \in [Keys -> Conns \cup {None}]
    /\ pending \subseteq Keys
    /\ mesh \subseteq Names
    /\ loose \subseteq Names
    /\ published \subseteq Conns
    /\ saved \subseteq Keys
    /\ open \subseteq Conns
    /\ pc \in [Conns -> {"idle", "publish", "serving", "unpublish"}]
    /\ key \in [Conns -> Keys \cup {None}]
    /\ \A c \in Conns : pc[c] # "idle" => key[c] \in Keys

liveKeys == {k \in Keys : tunnels[k] # None}

Init ==
    /\ phase = "up"
    /\ tunnels = [k \in Keys |-> None]
    /\ pending = {}
    /\ mesh = {}
    /\ loose = {}
    /\ published = {}
    /\ saved = {}
    /\ open = {}
    /\ pc = [c \in Conns |-> "idle"]
    /\ key = [c \in Conns |-> None]

--------------------------------------------------------------------------------
(* handleClientConnection. *)

(* Mutant: a client that reconnects stays on the pending list. *)
MutantEstablishKeepsPending(c, k) ==
    /\ phase # "down"
    /\ pc[c] = "idle"
    /\ open' = (open \ {tunnels[k]}) \cup {c}
    /\ tunnels' = [tunnels EXCEPT ![k] = c]
    /\ pc' = [pc EXCEPT ![c] = "publish"]
    /\ key' = [key EXCEPT ![c] = k]
    /\ UNCHANGED <<phase, pending, mesh, loose, published, saved>>

(* A client with a valid token and preamble takes the key over: the previous
   session is closed, the record replaced, the pending mark removed, all in one
   critical section. Nothing here looks at the shutdown context, so a connection
   accepted earlier may still arrive while the server is shutting down. *)
Establish(c, k) ==
    /\ phase # "down"
    /\ pc[c] = "idle"
    /\ open' = (open \ {tunnels[k]}) \cup {c}
    /\ tunnels' = [tunnels EXCEPT ![k] = c]
    /\ pending' = pending \ {k}
    /\ pc' = [pc EXCEPT ![c] = "publish"]
    /\ key' = [key EXCEPT ![c] = k]
    /\ UNCHANGED <<phase, mesh, loose, published, saved>>

(* publishTunnelToMesh, after the lock is released. When the registrar or the zone
   refuses, the error is logged and the handler goes on. *)
Publish(c) ==
    /\ phase # "down"
    /\ pc[c] = "publish"
    /\ \/ /\ mesh' = mesh \cup {HostID[key[c]]}
          /\ published' = published \cup {c}
       \/ UNCHANGED <<mesh, published>>
    /\ pc' = [pc EXCEPT ![c] = "serving"]
    /\ UNCHANGED <<phase, tunnels, pending, loose, saved, open, key>>

(* handleMeshRegister: a client has its name published, without a tunnel. *)
MeshRegister(n) ==
    /\ phase # "down"
    /\ mesh' = mesh \cup {n}
    /\ loose' = loose \cup {n}
    /\ UNCHANGED <<phase, tunnels, pending, published, saved, open, pc, key>>

(* handleMeshDeregister: the record goes, whoever published it. *)
MeshDeregister(n) ==
    /\ phase # "down"
    /\ mesh' = mesh \ {n}
    /\ loose' = loose \ {n}
    /\ published' = {c \in published : HostID[key[c]] # n}
    /\ UNCHANGED <<phase, tunnels, pending, saved, open, pc, key>>

(* The client leaves, or the transport breaks. *)
SessionCloses(c) ==
    /\ phase # "down"
    /\ c \in open
    /\ open' = open \ {c}
    /\ UNCHANGED <<phase, tunnels, pending, mesh, loose, published, saved, pc, key>>

(* Mutant: the handler deletes the entry of its key, whoever holds it. *)
MutantRemoveAny(c) ==
    /\ phase # "down"
    /\ pc[c] = "serving"
    /\ c \notin open
    /\ tunnels' = [tunnels EXCEPT ![key[c]] = None]
    /\ pc' = [pc EXCEPT ![c] = "unpublish"]
    /\ UNCHANGED <<phase, pending, mesh, loose, published, saved, open, key>>

(* Mutant: the handler leaves its entry in the table. *)
MutantRemoveNone(c) ==
    /\ phase # "down"
    /\ pc[c] = "serving"
    /\ c \notin open
    /\ pc' = [pc EXCEPT ![c] = "unpublish"]
    /\ UNCHANGED <<phase, tunnels, pending, mesh, loose, published, saved, open, key>>

(* Mutant: the handler of a replaced connection returns without unpublishing. *)
MutantRemoveReplacedReturns(c) ==
    /\ phase # "down"
    /\ pc[c] = "serving"
    /\ c \notin open
    /\ IF tunnels[key[c]] = c
       THEN /\ tunnels' = [tunnels EXCEPT ![key[c]] = None]
            /\ pc' = [pc EXCEPT ![c] = "unpublish"]
            /\ UNCHANGED <<key, published>>
       ELSE /\ pc' = [pc EXCEPT ![c] = "idle"]
            /\ key' = [key EXCEPT ![c] = None]
            /\ published' = published \ {c}
            /\ UNCHANGED tunnels
    /\ UNCHANGED <<phase, pending, mesh, loose, saved, open>>

(* CloseChan fired: the handler removes its record if the key is still its own. *)
Remove(c) ==
    /\ phase # "down"
    /\ pc[c] = "serving"
    /\ c \notin open
    /\ tunnels' = IF tunnels[key[c]] = c THEN [tunnels EXCEPT ![key[c]] = None] ELSE tunnels
    /\ pc' = [pc EXCEPT ![c] = "unpublish"]
    /\ UNCHANGED <<phase, pending, mesh, loose, published, saved, open, key>>

(* unpublishTunnelFromMesh, unconditionally; then the handler returns. The error of
   a delete that fails is dropped, and the record stays. *)
Unpublish(c) ==
    /\ phase # "down"
    /\ pc[c] = "unpublish"
    /\ \/ /\ mesh' = mesh \ {HostID[key[c]]}
          /\ loose' = loose \ {HostID[key[c]]}
       \/ /\ mesh' = mesh
          /\ loose' = loose \cup (mesh \cap {HostID[key[c]]})
    /\ published' = published \ {c}
    /\ pc' = [pc EXCEPT ![c] = "idle"]
    /\ key' = [key EXCEPT ![c] = None]
    /\ UNCHANGED <<phase, tunnels, pending, saved, open>>

--------------------------------------------------------------------------------
(* Snapshots, shutdown and restart. *)

(* POST /_tunneltug/snapshot or the periodic writer. *)
TakeSnapshot ==
    /\ phase # "down"
    /\ saved' = liveKeys \cup pending
    /\ UNCHANGED <<phase, tunnels, pending, mesh, loose, published, open, pc, key>>

(* SIGTERM: runServer leaves <-ctx.Done(). *)
Sigterm ==
    /\ phase = "up"
    /\ phase' = "snapshot"
    /\ UNCHANGED <<tunnels, pending, mesh, loose, published, saved, open, pc, key>>

(* maybeSnapshotOnShutdown; a failed write is only logged. *)
ShutdownSnapshot ==
    /\ phase = "snapshot"
    /\ phase' = "close"
    /\ saved' \in {saved, liveKeys \cup pending}
    /\ UNCHANGED <<tunnels, pending, mesh, loose, published, open, pc, key>>

closeAllTunnels ==
    /\ phase = "close"
    /\ phase' = "exit"
    /\ open' = open \ {tunnels[k] : k \in Keys}
    /\ tunnels' = [k \in Keys |-> None]
    /\ UNCHANGED <<pending, mesh, loose, published, saved, pc, key>>

(* The process ends: after gracefulShutdown, or at any time when it is killed.
   Handlers that have not unpublished yet never will. *)
ProcessEnds ==
    /\ phase' = "down"
    /\ tunnels' = [k \in Keys |-> None]
    /\ pending' = {}
    /\ open' = {}
    /\ pc' = [c \in Conns |-> "idle"]
    /\ key' = [c \in Conns |-> None]
    /\ published' = {}
    /\ UNCHANGED <<mesh, loose, saved>>

Exit == phase = "exit" /\ ProcessEnds

Crash == phase # "down" /\ ProcessEnds

(* runServer again: maybeRestoreOnStart runs before the control listener is up,
   marks the snapshot's tunnels pending and publishes their names, each of which
   may fail. Nothing is restored when restoring is off or the snapshot does not
   load. *)
Restart ==
    /\ phase = "down"
    /\ phase' = "up"
    /\ pending' \in {saved, {}}
    /\ \E named \in SUBSET {HostID[k] : k \in pending'} : mesh' = mesh \cup named
    /\ loose' = mesh
    /\ UNCHANGED <<tunnels, published, saved, open, pc, key>>

--------------------------------------------------------------------------------
Handle(c) == Publish(c) \/ Remove(c) \/ Unpublish(c)

Next ==
    \/ \E c \in Conns : \/ \E k \in Keys : Establish(c, k)
                        \/ SessionCloses(c)
                        \/ Handle(c)
    \/ \E n \in Names : MeshRegister(n) \/ MeshDeregister(n)
    \/ TakeSnapshot
    \/ Sigterm \/ ShutdownSnapshot \/ closeAllTunnels \/ Exit
    \/ Crash \/ Restart

Spec == Init /\ [][Next]_vars

(* Handler goroutines run. Whether clients come or go, and when the process is
   signalled, killed or restarted, is up to the environment. *)
FairSpec == Spec /\ \A c \in Conns : WF_vars(Handle(c))

--------------------------------------------------------------------------------
(* Correctness. *)

(* tunnelSession: where the public ingress finds the session of a key. *)
tunnelSession(k) == tunnels[k]

(* A client whose session is open and whose handler is past the registration is
   the one public requests for its key go to: however reconnects, late closes
   and shutdown interleave, the handler of a replaced connection never removes
   its successor's record, and no two open sessions compete for a key. *)
OpenIsRoutable ==
    \A c \in Conns : (c \in open /\ pc[c] \in {"publish", "serving"})
                        => tunnelSession(key[c]) = c

(* The table refers only to connections whose handler will still remove the
   record: no entry outlives its handler. *)
NoOrphanEntry ==
    \A k \in Keys : tunnels[k] # None =>
        key[tunnels[k]] = k /\ pc[tunnels[k]] \in {"publish", "serving"}

(* A tunnel is never both live and pending, so live_tunnels and pending_tunnels
   on /_tunneltug/health count every key once, across snapshots and restarts. *)
PendingNotLive == pending \cap liveKeys = {}

(* Every A record has a reason: a handler still at work on a key with this name,
   a restored tunnel awaiting its client, or a record that no handler answers for,
   because the process found it in the store, because it was registered over the
   API, or because deleting it failed. In particular a publish that is overtaken by
   the close of its own session, or by its successor's, is undone. *)
NoLeakedRecord ==
    phase # "down" =>
        \A n \in mesh : \/ \E c \in Conns : pc[c] # "idle" /\ HostID[key[c]] = n
                        \/ \E k \in pending : HostID[k] = n
                        \/ n \in loose

(* A closed session is out of the routing table eventually, unless the process
   ends first. *)
DeadEntryRemoved ==
    \A c \in Conns : \A k \in Keys :
        (tunnels[k] = c /\ c \notin open) ~> tunnels[k] # c

(* A tunnel that is connected and was published without an error has its A record,
   once no other handler is at work on its name. *)
LiveTunnelPublished ==
    \A c \in Conns :
        /\ c \in open /\ pc[c] = "serving" /\ c \in published
        /\ \A d \in Conns \ {c} : pc[d] = "idle"
        => HostID[key[c]] \in mesh
================================================================================
