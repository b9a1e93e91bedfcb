# TunnelTug in TLA+

TunnelTug exposes local services through QUIC tunnels. A *client* dials the
control port of a *tunnel server* (a barge), or of a *load balancer* that relays
it to one of several barges; public requests find the tunnel by its key. Around
this core are snapshots of the tunnel inventory, a private DNS mesh, an anycast
edge that announces prefixes by BGP while it is healthy, an OCI hub, Kubernetes
reconcilers and several configuration languages.

This directory holds TLA+ models of the parts that keep state and run
concurrently, the TLC configurations that check them, and TLAPS proofs.
`PROJECT.json` lists, in machine-readable form, the components, the runs, the
source lines behind each definition, the findings, the hazards and the theorems.

Run a check with `tlc -config MCLBManager.cfg MCLBManager`, a proof with
`tlapm LBManagerProofs.tla`.

## 1. Inventory

| Component | State | Operations | Talks to | What is hard |
|---|---|---|---|---|
| LB pool (`lb.go`, `lb_control.go`, `lb_register.go`) | backends (pointers), routes, load, all under one RWMutex | pick, register route, dial, relay, register, heartbeat, deregister, prune | barges by HTTP, clients by QUIC, public ingress | the lock is released between picking and registering; pointers outlive the pool entry; the prune cutoff is taken before the lock; registrations and heartbeats arrive late |
| Tunnel server (`server.go`, `production.go`) | tunnels, pending | establish, replace, remove, shutdown | clients by yamux, mesh authority, snapshots | handlers of old and new connection of one key interleave; publish and unpublish happen outside the lock |
| Snapshots (`snapshot.go`) | files on disk, pending list | write, latest, prune, restore | server, k3s controller by HTTP | three kinds of writers and no lock; the process may end anywhere |
| Mesh authority (`mesh_authority.go`, `mesh_runtime.go`, `mesh_api.go`) | zone records in a database | publish, unpublish, register, lookup | server, clients, DNS | records outlive the process |
| Anycast edge (`anycast/updater`, `anycast/health`, `anycast/bgp`) | counters, health, announced, include file | probe, observe, announce, withdraw, shutdown | BIRD, ExaBGP, HTTP status | two processes and a file that can disagree after a failure or a crash |
| ROV, BGPsec (`anycast/rov`, `anycast/bgpsec`) | ROAs, a key | validate, sign, verify | BGP manager | policy corner cases (RFC 6811) |
| Split DNS, zone sync (`anycast/splitdns`, `zonesync`) | zone records, suffixes | query, load snapshot, poll | authority | reload while serving |
| Barge registrar (`barge_register.go`, `register_runtime.go`) | none | wait ready, register, heartbeat, deregister | LB | lost, delayed and repeated calls |
| Barge supervisor (`barge.go`) | child processes | start, restart, stop | registrar | stop races with restart |
| k3s controllers (`barge_k3s.go`, `stack_k3s.go`) | Kubernetes objects | reconcile, watch, snapshot before roll | API server, barges | stale reads |
| Client, relay (`client.go`, `streaming.go`) | sessions, stream counter | connect, accept, relay, reconnect | server | half-close, limits |
| Vhosts (`vhost*.go`) | vhost file and handlers | match, cutover, reload, persist | ingress, disk | cutover and reload run concurrently |
| Hub (`hub*.go`) | upload sessions, blobs, tags | push, pull, list | S3 | a tag index by read-modify-write |
| Configuration (`site_*.go`, `tugconf.go`, `stack_config.go`, `dns_config.go`, `config.go`) | trees of settings | parse, merge, validate, expand | main | precedence |

The properties that make the components correct are stated in their modules and
listed in section 4; the hazards behind them are in `PROJECT.json`, each at its
line, together with those that no property covers.

## 2. Plan

Done: the load balancer with its abstract lease; the tunnel server with mesh
records, crash and restart; snapshots on disk; the anycast health gate and edge;
the barge supervisor and registrar over an unreliable network; the client with its
streams and mesh refresh; the hub and its publishers; vhost cutover and reload; the
product stack and the k3s fleet; the resolution of private names; route origin
validation against RFC 6811.

Left, in this order:

1. Proofs: every invariant and every safety action property that a run checks is
   proved; left is an abstract specification of snapshots (a register with atomic save
   and restore) and its refinement for one writer.
2. An end-to-end composition of client, LB and server in which a reconnect travels
   through the LB.
3. Pure algorithms against reference definitions: `parseBackends`, the Tugconf
   tree.

## 3. Modules

| Module | Stands for | Role |
|---|---|---|
| `BackendLease` | the promise of the registration protocol | abstract specification |
| `LBManager` | `LBManager` of `lb*.go` | component |
| `LBManagerProofs` | | proofs |
| `MCLBManager` | | TLC instances |
| `TunnelServer` | `ServerManager`, `handleClientConnection`, mesh publish | component |
| `TunnelServerProofs`, `MCTunnelServer` | | proofs, TLC instances |
| `BargeSnapshots`, `BargeSnapshotsProofs` | `writeBargeSnapshot`, `pruneSnapshots`, `loadLatestSnapshot` | component, run directly; proofs |
| `HealthTracker` | `health.Tracker` | part of the next two |
| `HealthHistory`, `HealthHistoryProofs` | the tracker beside its probe history | component with a reference definition, proofs |
| `OriginValidation` | `rov.Validator`, and RFC 6811 | operators and their reference |
| `AnycastEdge`, `AnycastEdgeProofs`, `MCAnycastEdge` | `updater.Updater`, `bgp.Manager`, `BirdBackend`, the speaker | component, proofs, TLC instances |
| `BargeFleet` | `superviseBarge`, `waitBarge`, the registrar, `runRegistrationLifecycle` | component; instantiates `BackendLease` as its load balancer |
| `TunnelClient` | `runClient`, `handleStream`, `relay`, tunnel keys and public names, the mesh refresh | component |
| `Processes`, `ProcessesProofs`, `MCProcesses` | one process of the two above | composition, proofs, TLC instances |
| `OciHub` | the hub's uploads, manifests and tag index; `hub-publish` | component |
| `StackBarges` | `resolveStackConfig`, the reconcile loop of `runStackK3s` | component |
| `VHosts` | `loadVHosts`, `setVHostUpstream`, the reload request | component |
| `PrivateDNS` | the stub's forwarding, `splitdns.Server`, `zonesync.Syncer`, the zone pack | component |
| `Services`, `ServicesProofs`, `MCServices` | one service of the four above | composition, proofs, TLC instances |
| `K3sFleet`, `K3sFleetProofs`, `MCK3sFleet` | `runBargeK3s`, digest pinning and signatures, with pods and registry | component, proofs, TLC instances |

### LBManager

A step is one critical section of `LBManager.mu`, or a stretch of a handler
without the lock. Backends are struct addresses (`Objs`), each with an id
(`IdOf`): the code keeps pointers in routes and in handlers after the pool has
dropped them, and a backend that registers again gets a new struct. `seen` is
the dynamic flag together with the age of the last heartbeat (`static`, `fresh`,
`stale`); `Expire` is the passing of the TTL. `pickBackend` is four actions
(sticky hit or snapshot of the eligible backends, namespace filter, policy),
because the lock is released after the first; then `RegisterRoute`, the dial,
the relay. `pruneStaleBackends` is two actions, because the cutoff is taken
before the lock. A heartbeat for an unknown id goes on to register it, as in the
code. Messages from barges may come at any time and any number of times, which
covers loss, delay and repetition. A registration over a known id changes the
namespace of its struct in place, while routes and candidate lists point to it; the
history variable `moved` remembers the structs this happened to. The statics may hold
an id twice, as `parseBackends` accepts the same host and port twice;
`DistinctStatics` says that they do not.

`BackendLease` says what this amounts to for one id: absent, static, fresh or
stale, with renewal, leave, lapse and eviction of the stale only.

### TunnelServer

`tunnels[k]` is the connection whose record is stored for key `k`. A connection's
handler stores its record (closing the one before it) in one critical section,
publishes the mesh name outside the lock, waits for the session to close, removes
the record if it is still its own, and unpublishes. Shutdown is the sequence of
`runServer`: snapshot, `closeAllTunnels`, graceful shutdown, exit; connections
already accepted may still establish meanwhile. A crash may come at any point;
the mesh store and the saved snapshot survive it. A restart restores the saved
inventory or, when that fails or is switched off, nothing. Publishing may fail, which
is only logged, and so may deleting a record, which is ignored; the register and
deregister requests of the mesh API write and delete records without a tunnel.
`loose` collects the names whose record no handler answers for. Here a snapshot is
saved in one step; `BargeSnapshots` shows that this is right for one writer at a
time, and what happens otherwise.

### BargeSnapshots

A snapshot is the second it was taken. A writer renames its timestamped file into
place, truncates and fills `latest`, lists the directory, removes what the listing
says. Two writers that both have `latest` open leave one of the two documents or
a mixture. Each step of the disk may fail as the code allows for: a directory that
cannot be read is not pruned (`unpruned`), a file that cannot be removed stays
(`unremoved`).

### HealthTracker, HealthHistory, OriginValidation, AnycastEdge

`HealthTracker` has the four fields of `health.Tracker` and `Observe`. The counters
stop at their thresholds, which is all they are compared with. `HealthHistory`
records every outcome and defines health on the whole list: recover_threshold
successes in a row, and since then never fail_threshold failures in a row.

`OriginValidation` has `compileROAs`, `ValidateOrigin` and `AllowAnnounce` as
operators; a prefix is the sequence of its bits, of one address family. Beside them
stands what RFC 6811 says (`Covers`, `Matches`, `RFC6811`), in the RFC's own terms.

`AnycastEdge` adds the loop: tick and `Observe`, then `SetHealthy` (no-op, blocked
by a gate, announce, withdraw), then the two steps of `BirdBackend.apply`, each of
which may fail, then the return to the loop; `birdc`, which has no time limit, may
also hang (`BirdcHangs`), and then holds up loop and shutdown for ever. Shutdown calls the backend twice.
The speaker stops and starts at any time, and reads the include file when it
starts. The updater may crash and be restarted; the configuration stays. The
configuration is a variable that never changes, so that one run covers many.

### BargeFleet

One supervisor per barge goes through start, readiness, registration, waiting for
the child, deregistration, and the decision to restart, sleep or give up; a server
started with `-register-lb` goes through the registrar's part of it. Requests to the
load balancer are a set of messages: a sender that times out leaves its request
behind, the network delivers in any order, delays, or loses. The load balancer is
`BackendLease`, which `LBManagerProofs` shows `LBManager` to implement, with a
restart that forgets all dynamic backends. At the signal two things happen
independently: the supervisor asks the child to stop and waits eight seconds, and
the context of `exec.CommandContext` kills it.

### TunnelClient

The client dials, establishes, serves streams and reconnects; the goroutine that
watches the context closes the session that `active` holds when it looks. The
server is what `TunnelServer` does for one client: it registers and publishes, and
an earlier connection's handler may still be about to unpublish (`late`). A stream
takes a slot, dials the application and runs two copies; either side may close or
fail first, or stop reading (`Stall`), which holds the copier that writes to it,
since a `Write` has no deadline. A configuration holds the flags of the client and,
in `srv`, those of the server it dials: the client builds `publicURL` from its own,
and the server computes the key of the tunnel (`tunnelKey`) and that of a public
request (`publicHandler`: product vhosts, then `tunnelKeyFromHost`) from its own.
Keys, hosts and mesh names are sequences of labels.

### OciHub

The store's objects are written one by one, and each call may fail, or succeed
with its answer lost. Sessions live in memory and go with a restart. A publisher
tries the external `ctr images push` (modelled from how it is called: chunks in a
session) under one local name after the other, then packs the binary and sends it by the project's own client. A body
that is shorter than announced is committed nowhere, because the hash differs.
`h.mu` is modelled where it is held for long: a PUT reads its body under it.

### StackBarges, VHosts

`StackBarges` first resolves a file (per-barge files merged over defaults, aliases,
duplicates, disabled entries, unknown names), then creates or updates Service,
ConfigMap and Deployment of one product after another; it may stop at any of them,
and starts again with any of the files. An environment variable stands for the port
in it; `bindOf` is the port a product's process is told, by its listen variable or, for
the kernel barges, by its arguments. `services` and `anycast` are told none.

`VHosts` follows a cutover through its system calls. The entries it will write are
a slice that shares its array with the table (`shares`) until the table moves; the
encoding happens when the temporary file is written, after the lock is released.
A descriptor stays open on a file that was renamed (`fd`).

### K3sFleet

The controller publishes, pulls, resolves the digest, signs, verifies, writes the
ConfigMap, asks the pods for snapshots, updates the StatefulSet and watches. Tags
move in the registry at any time; containerd keeps its own idea of a tag and pulls
by the policy of the template. The controller stops on any error, crashes anywhere
and starts again with other flags. The StatefulSet rolls from the highest ordinal
down, one pod at a time, as far as the partition of the last controller that wrote it; below it pods come from the previous
revision. A pod starts when registry or node has its image, and waits otherwise, and
nothing is rolled while a pod waits. `-k3s-cleanup` deletes in the foreground: the
StatefulSet stays, marked, readable and writable, until its pods are gone.

### PrivateDNS

The stub matches a name against the zones of its file with the code's scores, and
tries DoH, then UDP, of the resolver it chose. The edge decides private or public
by its list of suffixes and then looks the name up: two steps, between which the
syncer may replace the zone, replace the suffixes, re-apply the glue or load the
pack, each a critical section of its own. Names are sequences of labels, the
top-level label first.

### Processes, Services

`main` runs one mode per process. These two modules hold several components side by
side; the initial state chooses which one runs, and the others stay in an initial
state. Each component has its own variables, so nothing is shared and the run's
states are the union of the components'. The fairness of each component is repeated
with the guard that it is the one that runs. `MCProcesses` and `MCServices` give the
constants their values.

## 4. Runs

| Run | Instance | Shows |
|---|---|---|
| `lb_pool` | one static and one dynamic backend, two addresses for the latter, two handlers, one key, least-loaded | `LoadBounded`, `StaticLoadExact`, `FreshNeverPruned`, `LeaseRefinement` |
| `lb_namespaces` | two namespaces, a backend of one and a backend that registers in both, direct routing, two handlers, two keys, round-robin, fairness | `NamespaceIsolation`, `RouteKept`, `StaleEvicted`, `HandlerResolves` |
| `tunnel_server` | three connections, one key, failing mesh store, mesh API, fairness | `OpenIsRoutable`, `NoOrphanEntry`, `PendingNotLive`, `NoLeakedRecord`, `DeadEntryRemoved` |
| `tunnel_mesh` | two connections, one key | *violated*: `LiveTunnelPublished` |
| `snapshots` | three writers, four snapshots, keep two | `NewestSurvives`, `RetentionBound`, `SequentialRestore` |
| `health_history` | thresholds 3 and 2, nine probes | `HealthMatchesHistory` |
| `anycast_edge` | two nested prefixes, six tables of ROAs, every setting of the other gates, thresholds 3 and 2, fairness | `NoSilentDivergence`, `GatesEnforced`, `HealthyAnnounces`, `FailingWithdraws`, `ShutDownEnds` |
| `processes` | a barge with at most two starts, a self-registering server, with and without registrar; a client with eight pairs of flags of client and server, of which five are `Named`, two streams, one slot; fairness | `ProcessTypeOK`, `PublicURLReaches`, `FleetStops`, `DeadLeavesPool`, `HeartbeatRenews`, `ClientStops`, `RefreshRepairs`, `SlotsReturn` |
| `fleet_kill` | the same | *violated*: `KilledAfterGrace` |
| `services` | two publishers whose images share a layer, two local names each; five stack files; one cutover at a time with reload and edits; three DNS files, two origin zones, four packs; fairness | `ServiceTypeOK`, `PullsComplete`, `PublishEnds`, `StackConnected`, `RoutesKept`, `PrivateStaysPrivate`, `EdgeServesAll`, `EdgeFollowsOrigin` |
| `vhosts_concurrent` | two cutovers at a time, no reload | *violated*: `RoutesKept` |
| `k3s_fleet` | two pods, two images, a floating tag of the hub, three sets of flags with partitions zero and one, fairness | `SignedMeansRunning`, `RollCompletes` |

The type invariants of the first five components and of the k3s fleet are proved
(section 6) and not checked by a run of their own; those of the others are
`ProcessTypeOK` and `ServiceTypeOK`. `NoNewDuplicates`, on which the lease rests, is
proved too.

What the properties except, they name. `NamespaceIsolation`: structs that were moved to
another namespace, and the fallback of direct routing. `NoLeakedRecord`: records that no
handler answers for (`loose`). `RetentionBound`: files whose removal failed, and a
directory that was not pruned since. `HealthyAnnounces` and `FailingWithdraws` speak of
the flag and of the routes at the speaker; the routes may differ from the flag as long
as `lastErr` reports a failed call, and by what an earlier process left. `ShutDownEnds`:
a hanging `birdc`. `SlotsReturn`: a copier held in a `Write` for ever. `RollCompletes`:
images that cannot be had, and a StatefulSet that is being deleted. Each exception was
checked to be needed: without it TLC finds the trace that section 5 tells.

### Bounds

* Handlers: a race in the LB needs two handlers of one key, or a handler and a
  registration; two handlers give both. In the server a third connection lets a
  replaced connection be replaced again while the first handler is still on its
  way out. Handlers of different keys share no state but the locks, so one key is
  enough; where namespaces matter there are two.
* Addresses: two for the dynamic backend, so that a route can point to the struct
  before the last one.
* Snapshots: two more than are kept, so that pruning happens with two writers at
  work; a third writer lets a listing become stale twice.
* Probes: nine outcomes hold a recovery, a full failure streak and another
  recovery with room between them; beyond that the theorem takes over.
* Prefixes: two, the second inside the first, so that a set can be partly valid and
  partly signed. Validators: disabled; both valid, one of them by a ROA for a shorter
  prefix; the second longer than max_length; the second of another network; the
  second private; an empty table.
* Barges: supervisors share only the context, the network and the pool, in which
  each has its own messages and its own id; one is enough. Two starts reach a
  restart and the limit.
* Streams: two for one slot, so that one is refused and gets the slot afterwards.
* Publishers: two, with a common layer and different tags, so that sessions, the
  lock and the tag index are contended; two local names (`LocalNames`; the code tries
  up to five) reach a second push by `ctr` and the packed binary; a client sends a blob in at most two chunks
  (one repeated), which makes a blob wrong as well as more would.
* Flags of client and server: under the server's domain with and without a namespace,
  outside it with a namespace, a local server, direct routing; and three pairs whose URL
  leads elsewhere (a server that routes directly in another namespace, a server without
  the client's domain, a product's host).
* Stack files: chosen so that each one changes something that another has set up
  (ports, links, configuration, presence), with every merge rule used.
* Cutovers: one that changes a product, one that adds a domain (which moves the
  array); with two at a time `RoutesKept` does not hold.
* Origin zones: one without a list of suffixes and one with a list, so that
  the edge's list is kept and replaced; the first claims the edge's own name server.
* Pods: of two, partition one has one pod rolled and one held back; partition zero
  rolls both, which completes a revision. Two images, so that a pinned one can be lost while the tag has moved to the other.

### Fairness

* LB: weak fairness of each handler's next step (the dial is bounded by a context
  with a timeout) and of the pruner (a ticker). None of clients, relays, barges.
* Server: weak fairness of each handler's next step. None of sessions or signals.
* Anycast: weak fairness of the tick, `SetHealthy` and the backend call (the loop
  is sequential and always goes on; a call of `birdc` ends, or hangs for ever, which is
  an action of its own without fairness); strong fairness of
  the shutdown case of the `select`, which chooses at random among ready cases;
  strong fairness of the successful outcomes of signing, writing and configuring,
  which says that the environment does not fail every time. The convergence
  properties also require that the speaker stays up.
* Fleet: weak fairness of the supervisors (their waits have time-outs), of the
  heartbeat ticker, of lapse and eviction at the LB, of the kill by the context;
  strong fairness of the delivery of each request, that is, the network does not
  lose a request that is sent again and again, nor keep one for ever.
* Client: weak fairness of its goroutines, of the server's handlers and of the
  answer to a registration; strong fairness of a successful answer. None of
  dialling, visitors, applications or the network that breaks sessions; in particular
  an end that does not read need never read again.
* Hub: strong fairness of each publisher's step, since `h.mu` is free again and
  again: bodies are read under the server's `ReadTimeout`, requests have time-outs.
* DNS: weak fairness of the syncer (a ticker, HTTP with a time-out).
* k3s: weak fairness of Kubernetes, which starts a pod whose image registry or node
  has. None of the controller, nor of pushes.

## 5. Findings

Three runs show behaviour that a comment or a document of the repository excludes.

1. **Mesh name of a reconnected client** (`tunnel_mesh`). The handler of the old
   connection unpublishes the name after the new one has published it.
   `RefreshRepairs` (`processes`) shows that a client which refreshes the same name
   puts it back at its next tick.
2. **Children are killed at the signal** (`fleet_kill`). `waitBarge` asks the child
   to stop and gives it eight seconds to write its snapshot (`barge.go:347`), but it
   was started with `exec.CommandContext`, which kills it as soon as the context is
   done.
3. **Concurrent cutovers** (`vhosts_concurrent`). Both write `file.tmp`. One
   truncates it just before the other renames it over the configuration;
   `loadVHosts` reads an empty table and no product is served.

### Further disagreements

These were met while modelling; the models behave as the code does, and the passing
properties are stated so that they hold all the same.

Load balancer and server:

* When a backend deregisters or is pruned, its routes are deleted and registering
  again restores none (`lb_register.go:213`). Relay open, deregister, register: the
  relay is alive, the backend available, and public requests do not find it until
  the client reconnects. `docs/ARCHITECTURES.md:215` lists the LB backend flap
  among the failures covered. `RouteKept` excepts it. Under `-routing direct` a key
  without a route of its own is served by the only backend (`routeBackend`), and no
  longer once a second backend registers; `RouteKept` is about registered routes.
* A second connection for a key whose dial fails removes the route of the first
  (`lb_control.go:146`).
* The client builds its public URL from its own `-domain`, `-namespace` and
  `-routing`, and the server reads the host with its own (`namespace.go:57`). `Named`
  says when the URL is right. It is not, for instance, when the client is told no domain
  and dials a server of several labels from the default namespace (the first label of
  that name is read as a namespace), when the server routes directly in another
  namespace, or when the host is that of a product vhost, which matches first
  (`production.go:132`). With a namespace or `-mesh-host` the client
  refreshes another mesh name than the server publishes, and a registration request
  that arrives late leaves a stale A record.
* A registration over an existing id may change its namespace in place
  (`lb_register.go:187`), under relays, routes and candidate lists that hold the
  struct: they then lead to the other namespace. Under `-routing direct` a key without
  a usable route is answered by the only backend, whatever its namespace
  (`lb_control.go:171`). `-backends` may name one address twice; registrations and
  heartbeats reach the first entry only, and when that one is pruned, the load counter
  and the routes of the id go with it.
* A publish that fails is only logged and a delete that fails is ignored
  (`mesh_runtime.go:314-318`, `mesh_authority.go:386`): the record stays until
  somebody publishes or deletes the same name again.
* A copier that writes to an end which is open and does not read stands in `Write`
  without a deadline (`streaming.go:63`). While it does, the relay of a visitor who has
  gone keeps its slot; `-maxstreams` such relays refuse every new stream.
* `-maxstreams` (`flags.go:42`) can be exceeded: check and count are separate steps
  (`client.go:117-122`). When one direction of a relay ends, both are closed. The
  client reconnects without a pause after a failed authentication.
* `-barge-max-restarts` (`flags.go:55`) counts starts, not restarts. A barge that
  fails its one readiness wait or registration is never registered.

Snapshots:

* Two writers: the newer one fills `latest`, then the older one does; the next start
  restores the older (`snapshot.go:204`, against `flags.go:82`).
  `SequentialRestore` is about one writer at a time.
* The process ends between truncating and filling `latest`: the file does not parse
  and the start restores nothing although timestamped files exist
  (`snapshot.go:248`; `snapshot.go:254` announces the fallback).
* A file that cannot be removed and a directory that cannot be read are passed over
  without a word (`snapshot.go:216`, `snapshot.go:235`); `-snapshot-keep` is then
  exceeded until a later pruning succeeds.

Anycast edge:

* A process that starts after a crash believes that nothing is announced
  (`bgp.go:253`), so while unhealthy it never withdraws what is left in the include
  file (`health.go:62`: "Cold start: stay withdrawn").
* `rov.go:1` and `rov.go:146` name RFC 6811, but a route longer than max_length is
  "not_found" (`rov.go:183` passes over the ROA), where the RFC says invalid; without
  `require_valid` it is announced. `GatesEnforced` speaks of the RFC under
  `require_valid`.
* A withdraw that fails in `birdc` has emptied the file and leaves `announced` set
  (`bgp.go:256`). If health recovers first, `SetHealthy(true)` does nothing; after a
  restart of the speaker nothing is announced and `/ready` answers 200
  (`README.md:131`). An announce that fails in `birdc` leaves routes in the file of a
  PoP that may become unhealthy: a restarted speaker announces them, and
  `SetHealthy(false)` does nothing (against `docs/ARCHITECTURES.md:148`).
  `NoSilentDivergence` shows that `lastErr` says so, and the two convergence properties
  that nothing else keeps the speaker's routes from following the probes.
* `birdc` runs without a time limit under `Manager.mu` (`bird.go:57`). When it hangs,
  the loop, the status pages and the shutdown withdrawal hang with it.

Hub, k3s, stack:

* `indexTag` is a read-modify-write without a lock (`hub.go:536`): of two pushes at
  once one tag may be missing from the list. Sessions that are given up are never
  removed (`hub.go:411`). A manifest PUT under a digest is not checked against it. A
  product may be published before the embedded hub serves.
* A tag that is present is not pulled again, contrary to the comment about
  re-pulling; the annotations of a StatefulSet are merged, so that an old image digest
  may stay; a template whose arguments alone changed is rolled without snapshots.
  `barge_sdf.go:26-28`: verification falls back to the pinned form when the tag
  cannot be resolved, so it does not show that the registry has the image now.
* `-k3s-cleanup` deletes in the foreground (`barge_k3s.go:177-184`). A controller
  started before the pods are gone finds the StatefulSet, updates it and watches; when
  Kubernetes has finished the deletion, nothing creates it again.
* A digest found in containerd is pinned (`barge_k3s.go:290`) though no registry may
  have it. When the image is removed from the node, pods wait for it for ever, and with
  `OrderedReady` one such pod holds up every later template. The digest of a tag is that
  of the first image whose reference contains it (`barge_sdf.go:191-197`), so `:1` may
  find `:10`; what is signed is then still what runs.
* `stack_config.go:437-438`: "YAML port: overrides keep Service, containerPort, and
  process bind in sync". For `services` and `anycast` only the first two follow: neither
  has a listen variable that `syncStackListenEnv` knows or an argument with the port
  (`stack_k3s.go:110-131`), so with a port in the file their Service leads to a port
  where nothing listens.
* `LISTEN` is overwritten by `syncStackListenEnv` whatever the file sets
  (`stack_k3s.go:543`: "so SRE env: overrides always win"); the order in which
  `loadBargeEntry` applies overrides differs from the comment at the struct.

Vhosts:

* A cutover to an upstream that cannot be used answers ok and drops the route. A
  reload that has read the file before a cutover undoes the cutover.

DNS:

* A snapshot's list of suffixes replaces the configured one (`splitdns/server.go`), so
  names that it leaves out are asked of public resolvers; the suffixes of the zone
  pack too, between the replacement and `loadZonePack`, or for good when the pack
  cannot be read. `PrivateStaysPrivate` is about the suffixes that every list has.
* After a snapshot only part of the glue is re-applied (`server.go:115`); names of
  pack and glue are missing for a moment during each synchronisation; an older
  snapshot replaces a newer one.
* A domain pattern makes its whole top-level label private (`dns_config.go:409`)
  against `dns_config.go:35`; a shorter plain suffix beats a longer wildcard against
  the comment at `dns_config.go:253`; the stub treats an answer with an error code as
  a failure.

## 6. Proofs

All theorems hold for every value of the constants under the assumptions named in
the modules: `LBManager` assumes that ids, namespaces and key namespaces are
functions of the right type and that the statics are structs; `TunnelServer` that mesh names are a function of the
key and `None` is not a connection; the anycast modules that thresholds are
positive (the code replaces others by defaults), that there is a prefix, that
prefixes are sequences of bits and that configurations are well-formed; `BargeSnapshots` that at least one snapshot is kept;
`OciHub` that images have blobs and a tag, that at least one local name is tried, and
that tags and digests differ;
`K3sFleet` that flags are well-formed and a tag is not a digest; `StackBarges` that
files are lists of entries; `VHosts` that files and cutovers are rows
with an upstream; `PrivateDNS` that files list zones with finitely many patterns and
records are those of the known names; `BargeFleet` that barges and servers differ;
`TunnelClient` that configurations are well-formed. Some theorems have a condition of
their own, because the property does not hold without it; each is a named definition
beside the code it is about, and TLC evaluates it for the constants of the runs:
`VHosts.OneCutover` and `UsableCutovers` (the run `vhosts_concurrent` shows why),
`PrivateDNS.ResolversApart` (a file may name its own public fallback as the resolver
of a private zone), `LBManager.DistinctStatics` (a hypothesis of `ImplementsLease`, and
within `StaticLoadExact` and `RouteKept`: of two structs of one id only the first is
renewed, and dropping one drops what belongs to the id), and `TunnelClient.Named`, which
is part of `PublicURLReaches`.

**LBManagerProofs.** `PoolInv` is the types, `NoNewDuplicates` (two structs of one id
are both static entries) and `CutoffStale`: every backend behind the cutoff a prune is working with that is still
in the pool is still stale. It is inductive and gives `TypeCorrect` and `IdsUnique`;
`PruneSparesFresh` is an action property that rests on `CutoffStale`. `LoadInv` is
what makes the counters work: no counter exceeds the relays open on its id, and the
counter of a static backend equals them (`LoadNeverOvercounts`, `StaticLoadCorrect`).
`NamespaceInv` follows the namespace along a handler: through the candidates it
filtered, the object it chose and the route it registered, which the public look-up
then uses (`NamespacesIsolated`); a struct leaves the argument when it is moved. `RouteKeptWithRelay` goes through
the actions once: a step leaves the route of a relayed key alone or makes the id it
leads to unavailable (`RouteSafe`); for a backend that is dropped this needs
`UniqueIds`, which `DistinctStatics` and `NoNewDuplicates` give, since another struct of the same id would keep the id available.
`ImplementsLease` maps the
pool to `BackendLease`; that each id has one struct is needed to know that the
mapping is well-defined (`LeaseDetermined`).

**TunnelServerProofs.** `ServerInv` is the conjunction of the types, the four
invariants, `DownEmpty` (a process that is down has an empty table) and what `loose` and
`published` record; none of the four is shown on its own. It gives `NewestClientServed`, `NoOrphans`, `PendingDisjoint`, `RecordsAccountedFor`.

**HealthHistoryProofs.** `CountInv` says what each counter means on the history:
the last *n* outcomes were equal, and below the threshold the one before was
different. `StreakAtEnd` turns this into "the history ends in a streak iff the
counter is at its threshold", `HistoryGrows` says how the reference definition
changes with one more outcome, and `HealthCorrect` puts the two together.

**AnycastEdgeProofs.** `DivergenceInv` adds that the include file is the one the
call in progress wrote while `birdc` runs (`DivergenceVisible`). `GateInv` adds that
an announce in progress has passed the gates, and states them at the speaker in the
code's terms (`GatesAtSpeaker`); `StrictMeansRFC6811` turns these into RFC 6811's
(`GatesHold`). `RFC6811IsAllowed` is the converse for one route.

**BargeSnapshotsProofs.** `SnapshotInv` is the types, `FilesUpToNewest`,
`NewestSurvives` and `StaleIsOlder`: whatever a writer still means to remove is older
than the newest completed snapshot. A listing establishes it, because what it drops
has a newer file beside it (`StaleHasNewer`), and no later step can falsify it, as
`newest` only grows. `MinIsMember` and `MaxIsMember` come from the well-foundedness
of the naturals. `SnapshotTypeCorrect`, `NewestAlwaysSurvives`.
`RetentionInv` counts: once every writer has listed, the files that none of them
means to remove are at most `Keep`. A listing establishes it (`ListingKeeps`: the
number of newer files is an injection of what is kept into 0 .. Keep - 1), further
removals only help, and a removal that fails moves its file to `unremoved`; with all
writers idle nothing is left to remove (`RetentionHolds`). `RestoreInv` says that, while writers have not overlapped, the one
active writer has the latest second and `latest` is not older than what was written
last (`SequentialRestoreHolds`).

**ServicesProofs.** One step of the composition is a step of one component and a
stutter of the others (`ComponentStep`), so each component has its own invariant.

* Hub: `HubInv` says that a stored blob hashes to its key (`BlobsMatch`), that a
  publisher has stored all blobs before the one it is at (`Uploaded`), and that each
  stored manifest has all of its blobs (`ManifestsPull`). Blobs are never removed, so
  neither restarts, second attempts nor other publishers undo it (`HubPullsComplete`, and
  `ServicePullsComplete` for the composition). `HubType` adds what the types need: a
  blob is sent only at an index of the image, and the lock is held by a publisher with
  a session.
* Stack: `ResolveStack` shows that what `resolveStackConfig` returns is a list of known,
  distinct products with ports (by `Enumeration`: the entries that count are
  numbered by how many are before them). `StackInv` says that the objects of the
  products before the one in work are as this configuration wants them; that names are
  distinct is what keeps a later product from undoing an earlier one
  (`StackStaysConnected`).
* Vhosts: `RoutesInv` says that the file, the table, the handlers and everything that
  may still become one of them serve the primary domains: a copy before it is written,
  the temporary file before it is renamed, what was read before it is installed. With
  two cutovers the temporary file is where it fails (`RoutesKeptOneCutover`).
* Private names: `ResolverOf` computes where a name may be sent; its core is
  `MatchIsZone`, that the best-scored zone exists and is one of the file's.
  `PrivateInv` follows a query with the resolvers it has been and may yet be sent to,
  and says that no step of a synchronisation removes a suffix that all snapshots keep
  (`PrivateNamesStayPrivate`).
* Zone of the edge: `EdgeInv` says what is there again after which step: the glue when
  the pack is due, the pack when the syncer waits; records of the snapshot are
  overwritten and never removed (`EdgeServesAllSources`).
* `ServiceTypeCorrect` combines the types.

**ProcessesProofs.** `ClientInv` adds to the types that while a session's handler is
there, there is room for it among the late ones (`ProcessTypeCorrect`). `URLReaches`
follows a name through the client's `publicURL` and back through the server's
`publicHandler`, for any labels: `KeyUnderDomain` under the server's domain,
`KeyOutsideDomain` otherwise (`PublicURLsReach`). Two theorems state the safety
behind liveness properties of the run: `FleetInv` says that a supervisor is past its
child only when the child has ended, that a heartbeat goroutine exists only between
registration and deregistration, and that the fleet stops after its supervisors
(`StoppedFleetLeavesNothing`); `StreamsHoldNoMore` that a stream holds what its place in
`proxyStreamToLocal` says and nothing when it has returned (`StreamsLeaveNothing`).

**K3sFleetProofs.** `FleetInv` follows the digest from the look-up (`ToSign`) through
the signature (`Signed`) to the reference that is deployed (`Deploys`, `Chosen`) and
to ConfigMap and StatefulSet (`Written`); `PinnedPods` says that a pod whose template
names a digest runs that digest, whatever the tag has come to mean. It gives
`FleetTypeCorrect` and `SignedFleetRuns`, for any number of replicas and any flags.

Only model-checked: the liveness properties (fairness and ENABLED are out of the
prover's reach) `StaleEvicted`, `HandlerResolves`, `DeadEntryRemoved`,
`HealthyAnnounces`, `FailingWithdraws`, `ShutDownEnds`, `FleetStops`, `DeadLeavesPool`,
`HeartbeatRenews`, `ClientStops`, `RefreshRepairs`, `SlotsReturn`, `PublishEnds`,
`EdgeFollowsOrigin` and `RollCompletes`, and the violated properties. Every other
property of a run is stated by a theorem.

## 7. Not modelled

The transports (QUIC, yamux, HTTP, DNS messages) appear through their outcomes: a
session closes, a dial fails. Probes and signatures are inputs; ROAs are part of the configuration. Two
snapshots within one second, which share a file name, are left out, and so are two
clients whose mesh names collide. A handler reads the namespace of a backend without the
lock while a registration writes it; the model lets it see the old or the new value, not
a torn one.

* The hub's in-memory store: it has the same operations, and is lost at a restart.
  The pages of `hub_index.go` and the dashboards are templates.
* `-subdomain` is one label. The load balancer, when it looks up a public request, reads
  the host with its own flags as the server does; `PublicURLReaches` is about a client
  that dials the server.
* Of the grant that the k3s controller signs only image and digest: replicas, ports,
  domain and state root are left out, and so are a number of replicas that changes
  from one controller to the next, and containers that kubelet restarts in
  their pod (which pull again by the same policy).
* The images under different local names of a product, and the packed binary, are taken
  to be the same image.
* The registrar's side of the mesh authority (ownership, SOA, NS glue).
* ExaBGP and the other BGP backends, and the BGPsec signer: each is a call that
  succeeds or fails, as `AnycastEdge` has it.
* HTTP upgrades on the server side, socket tuning, rate limits and request sizes.
* Site and Tugconf configuration, flag parsing: computed once before anything runs,
  by recursion over trees; only a bounded check of a pure algorithm could cover them.
* TLS set-up, tokens, the construction of Kubernetes objects beyond the fields that
  the properties read: they keep no state that a model would say anything about.
