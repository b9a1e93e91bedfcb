------------------------------ MODULE TunnelClient ------------------------------
(* The tunnel client (client.go, streaming.go) with the part of the server that it
   sees: the reconnect loop, the goroutine that closes the session when the signal
   comes, the streams relayed to the local application, the goroutine that keeps
   the client's name in the mesh zone (mesh_runtime.go, mesh_api.go), and the
   names under which a visitor finds the tunnel (namespace.go).

   Host names are sequences of labels. The server is TunnelServer seen through one
   client: the handler of the connection registers and publishes, and, once it
   notices the end of the session, removes its record and unpublishes; the
   handler of an earlier connection may still be on its way to that. *)
EXTENDS Integers, Sequences, FiniteSets, SequencesExt

CONSTANTS
    Configs,     \* flags of a client and (srv) of its server, and what visitors do
    Streams,     \* streams; cfg.visits: those that visitors may open
    MaxStreams   \* -maxstreams, 0 means unlimited

(* What the constants must satisfy. *)
ClientConstants ==
    /\ MaxStreams \in Nat /\ Configs # {}
    /\ Configs \subseteq [ns : STRING, sub : STRING, domain : Seq(STRING), server : Seq(STRING),
                          direct : BOOLEAN, mesh : BOOLEAN, meshHost : STRING,
                          visits : SUBSET Streams,
                          srv : [ns : STRING, domain : Seq(STRING), direct : BOOLEAN,
                                 vhosts : SUBSET Seq(STRING)]]

--------------------------------------------------------------------------------
(* Names. An absent flag is "" or <<>>. Client and server are two processes with
   flags of their own: c is a configuration, s = c.srv the flags of the server. *)

Default == "default"   \* defaultNamespace and defaultTunnelKey
Local == <<"127", "0", "0", "1">>

normalizeNamespace(ns) == IF ns = "" THEN Default ELSE ns

(* composeTunnelKey, as <<namespace, subdomain>>; the default namespace is left out
   of the string, which no namespace with a name can produce. *)
composeTunnelKey(direct, ns, sub) == <<normalizeNamespace(ns), IF direct THEN Default ELSE sub>>

(* The key under which the server enters the tunnel: the client's names, composed
   with the server's -routing. *)
tunnelKey(c) == composeTunnelKey(c.srv.direct, c.ns, c.sub)

(* The host of publicURL, which the client logs and shows. *)
urlBase(c) ==
    IF c.domain # <<>> THEN c.domain
    ELSE IF c.server \in {<<>>, Local} THEN <<"localhost">> ELSE c.server
publicURL(c) ==
    LET ns == normalizeNamespace(c.ns)
    IN  IF c.direct THEN urlBase(c)
        ELSE IF ns = Default THEN <<c.sub>> \o urlBase(c) ELSE <<c.sub, ns>> \o urlBase(c)

(* Mutant: the namespace is taken from the label before the domain only when there
   is exactly one. *)
MutantTunnelKeyFromHost(s, host) ==
    LET n == Len(host) - Len(s.domain)
    IN  IF s.direct THEN composeTunnelKey(s.direct, s.ns, Default)
        ELSE IF n < 1 THEN <<>>
        ELSE IF n = 1 THEN composeTunnelKey(s.direct, Default, host[1])
        ELSE composeTunnelKey(s.direct, host[1], host[n])

(* tunnelKeyFromHost in the server, <<>> for "". *)
tunnelKeyFromHost(s, host) ==
    LET n == Len(host) - Len(s.domain)      \* labels before the domain
    IN  IF s.direct THEN composeTunnelKey(s.direct, s.ns, Default)
        ELSE IF host = <<>> \/ host = s.domain THEN <<>>
        ELSE IF s.domain # <<>> /\ IsSuffix(s.domain, host)
          THEN composeTunnelKey(s.direct, IF n = 1 THEN Default ELSE host[n], host[1])
        ELSE IF Len(host) < 2 \/ host[1] \in {"localhost", "127", "0"} THEN <<>>
        ELSE composeTunnelKey(s.direct, IF Len(host) >= 3 THEN host[2] ELSE Default, host[1])

(* publicHandler: the key of the tunnel a request for the host goes to, <<>> when it
   goes to none. Product vhosts come first (s.vhosts: the hosts they match). *)
publicHandler(s, host) == IF host \in s.vhosts THEN <<>> ELSE tunnelKeyFromHost(s, host)

(* The condition on the flags of client and server under which the public URL of the
   client leads to it: the host is no product's, and
     - a server of direct routing is in the client's namespace (it does not matter
       what the client takes the routing to be), or
     - neither routes directly and the URL is under the server's own -domain, or
     - neither does, it is not under that domain, and the label after the subdomain is
       the namespace: without a namespace, and a name of more than one label after
       the subdomain, the first label of that name is taken for one. *)
Named(c) ==
    LET s == c.srv
        ns == normalizeNamespace(c.ns)
    IN  /\ publicURL(c) \notin s.vhosts
        /\ \/ s.direct /\ normalizeNamespace(s.ns) = ns
           \/ /\ ~s.direct /\ ~c.direct
              /\ \/ s.domain # <<>> /\ urlBase(c) = s.domain
                 \/ /\ s.domain = <<>> \/ ~IsSuffix(s.domain, publicURL(c))
                    /\ c.sub \notin {"localhost", "127", "0"}
                    /\ ns # Default \/ Len(urlBase(c)) = 1

(* publishTunnelToMesh in the server, and meshHostID in the client. A host id with a namespace is
   the two joined by a hyphen. *)
publishedID(c) ==
    LET id == IF c.srv.direct THEN "direct" ELSE IF c.sub = "" THEN Default ELSE c.sub
    IN  IF normalizeNamespace(c.ns) = Default THEN <<id>> ELSE <<id, c.ns>>
meshHostID(c) == <<IF c.meshHost # "" THEN c.meshHost ELSE IF c.direct THEN "direct" ELSE c.sub>>

--------------------------------------------------------------------------------
VARIABLES
    cfg,
    ctx,       \* "live" until the signal
    pc,        \* runClient: "dial", "auth", "yamux", "enter", "loop", "accept", "leave", "exited"
    link,      \* the connection as the client sees it: "none", "open", "closed"
    active,    \* active.session is set
    watcher,   \* the goroutine that waits for ctx: "wait" or "done"
    entry,     \* the server's record of this session: "none", "publish", "live"
    late,      \* handlers of earlier sessions that have still to unpublish
    record,    \* names with an A record
    reg,       \* registerWithBuiltInMesh: "off", "post", "sent", "sleep", "done"
    st,        \* proxyStreamToLocal per stream
    conns,     \* open ends of a relay: "tunnel", "local"
    copiers,   \* running copy goroutines, by the end they read from
    stalled    \* those of them that are held in Write: the other end does not read

conn == <<pc, link, active, watcher>>
server == <<entry, late, record>>
relay == <<st, conns, copiers, stalled>>
vars == <<cfg, ctx, conn, server, reg, relay>>

MaxLate == 2   \* bound: earlier handlers still at work

TypeOK ==
    /\ cfg \in Configs /\ ctx \in {"live", "done"}
    /\ pc \in {"dial", "auth", "yamux", "enter", "loop", "accept", "leave", "exited"}
    /\ link \in {"none", "open", "closed"} /\ active \in BOOLEAN /\ watcher \in {"wait", "done"}
    /\ entry \in {"none", "publish", "live"} /\ late \in 0 .. MaxLate
    /\ record \subseteq {publishedID(cfg), meshHostID(cfg)}
    /\ reg \in {"off", "post", "sent", "sleep", "done"}
    /\ st \in [Streams -> {"idle", "check", "count", "dial", "relay"}]
    /\ conns \in [Streams -> SUBSET {"tunnel", "local"}]
    /\ copiers \in [Streams -> SUBSET {"tunnel", "local"}]
    /\ stalled \in [Streams -> SUBSET {"tunnel", "local"}]

Init ==
    /\ cfg \in Configs /\ ctx = "live"
    /\ pc = "dial" /\ link = "none" /\ active = FALSE /\ watcher = "wait"
    /\ entry = "none" /\ late = 0 /\ record = {}
    /\ reg = IF cfg.mesh THEN "post" ELSE "off"
    /\ st = [s \in Streams |-> "idle"]
    /\ conns = [s \in Streams |-> {}] /\ copiers = [s \in Streams |-> {}]
    /\ stalled = [s \in Streams |-> {}]

--------------------------------------------------------------------------------
(* runClient. The loop heads look at ctx; everything between them does not. *)

(* dialControlQUIC, under ctx and 30 s; a failure waits clientBackoff or for ctx and
   dials again. *)
Dial ==
    /\ pc = "dial" /\ ctx = "live"
    /\ pc' = "auth" /\ link' = "open"
    /\ UNCHANGED <<cfg, ctx, active, watcher, server, reg, relay>>

(* The process ends, and all its goroutines; a registration may be on its way. *)
Exit ==
    /\ pc = "dial" /\ ctx = "done"
    /\ pc' = "exited"
    /\ st' = [s \in Streams |-> "idle"]
    /\ conns' = [s \in Streams |-> {}] /\ copiers' = [s \in Streams |-> {}]
    /\ stalled' = [s \in Streams |-> {}]
    /\ reg' = IF reg \in {"sent", "off"} THEN reg ELSE "done"
    /\ UNCHANGED <<cfg, ctx, link, active, watcher, server>>

(* The control message; on a connection that has ended, the write may fail. *)
SendAuth ==
    /\ pc = "auth"
    /\ \/ pc' = "yamux" /\ UNCHANGED link
       \/ link = "closed" /\ pc' = "dial" /\ link' = "none"
    /\ UNCHANGED <<cfg, ctx, active, watcher, server, reg, relay>>

(* yamux.Server *)
NewSession ==
    /\ pc = "yamux"
    /\ pc' = "enter"
    /\ UNCHANGED <<cfg, ctx, link, active, watcher, server, reg, relay>>

SetActive ==
    /\ pc = "enter"
    /\ active' = TRUE /\ pc' = "loop"
    /\ UNCHANGED <<cfg, ctx, link, watcher, server, reg, relay>>

(* Mutant: the accept loop does not look at ctx. *)
MutantLoop ==
    /\ pc = "loop"
    /\ pc' = "accept"
    /\ UNCHANGED <<cfg, ctx, link, active, watcher, server, reg, relay>>

Loop ==
    /\ pc = "loop"
    /\ pc' = IF ctx = "live" THEN "accept" ELSE "leave"
    /\ UNCHANGED <<cfg, ctx, link, active, watcher, server, reg, relay>>

(* session.Accept returns a stream, or an error once the session is closed. *)
Accept(s) ==
    /\ pc = "accept" /\ link = "open" /\ entry = "live"
    /\ s \in cfg.visits /\ st[s] = "idle"
    /\ st' = [st EXCEPT ![s] = "check"]
    /\ conns' = [conns EXCEPT ![s] = {"tunnel"}]
    /\ pc' = "loop"
    /\ UNCHANGED <<cfg, ctx, link, active, watcher, server, reg, copiers, stalled>>

AcceptFails ==
    /\ pc = "accept" /\ link = "closed"
    /\ pc' = "leave"
    /\ UNCHANGED <<cfg, ctx, link, active, watcher, server, reg, relay>>

(* active is cleared and the session closed; then the next attempt. *)
Leave ==
    /\ pc = "leave"
    /\ active' = FALSE /\ link' = "none" /\ pc' = "dial"
    /\ conns' = [s \in Streams |-> conns[s] \ {"tunnel"}]
    /\ late' = IF entry = "none" \/ ~cfg.mesh THEN late ELSE late + 1
    /\ entry' = "none"
    /\ UNCHANGED <<cfg, ctx, watcher, record, reg, st, copiers, stalled>>

(* The goroutine that waits for ctx runs once. *)
Watch ==
    /\ watcher = "wait" /\ ctx = "done"
    /\ watcher' = "done"
    /\ link' = IF active THEN "closed" ELSE link
    /\ conns' = [s \in Streams |-> IF active THEN conns[s] \ {"tunnel"} ELSE conns[s]]
    /\ UNCHANGED <<cfg, ctx, pc, active, server, reg, st, copiers, stalled>>

Signal ==
    /\ ctx = "live"
    /\ ctx' = "done"
    /\ UNCHANGED <<cfg, conn, server, reg, relay>>

(* The connection breaks, or the server refuses or ends it. *)
Break ==
    /\ link = "open"
    /\ link' = "closed"
    /\ conns' = [s \in Streams |-> conns[s] \ {"tunnel"}]
    /\ UNCHANGED <<cfg, ctx, pc, active, watcher, server, reg, st, copiers, stalled>>

--------------------------------------------------------------------------------
(* The server's handlers of this client's sessions, and its mesh authority. *)

Establish ==
    /\ link = "open" /\ pc \notin {"dial", "auth"} /\ entry = "none" /\ late < MaxLate
    /\ entry' = "publish"
    /\ UNCHANGED <<cfg, ctx, conn, late, record, reg, relay>>

(* Mutant: the namespace is not normalised. *)
MutantPublish ==
    /\ entry = "publish"
    /\ entry' = "live"
    /\ record' = IF cfg.mesh THEN record \cup {<<cfg.sub, cfg.ns>>} ELSE record
    /\ UNCHANGED <<cfg, ctx, conn, late, reg, relay>>

(* PublishTunnel; an error is logged. *)
Publish ==
    /\ entry = "publish"
    /\ entry' = "live"
    /\ record' \in {record} \cup (IF cfg.mesh THEN {record \cup {publishedID(cfg)}} ELSE {})
    /\ UNCHANGED <<cfg, ctx, conn, late, reg, relay>>

(* UnpublishTunnel by the handler of a session that is gone; errors are ignored. *)
Unpublish ==
    /\ late > 0
    /\ late' = late - 1
    /\ record' \in {record, record \ {publishedID(cfg)}}
    /\ UNCHANGED <<cfg, ctx, conn, entry, reg, relay>>

--------------------------------------------------------------------------------
(* registerWithBuiltInMesh: again every 30 s, after a failure with a back-off. The
   request is not bound to ctx. *)

Post ==
    /\ reg = "post"
    /\ reg' = IF ctx = "done" THEN "done" ELSE "sent"
    /\ UNCHANGED <<cfg, ctx, conn, server, relay>>

(* handleMeshRegister publishes for the client's own host id. *)
Registered ==
    /\ reg = "sent"
    /\ record' = record \cup {meshHostID(cfg)}
    /\ reg' = IF pc = "exited" THEN "done" ELSE "sleep"
    /\ UNCHANGED <<cfg, ctx, conn, entry, late, relay>>

PostFails ==
    /\ reg = "sent"
    /\ reg' = IF pc = "exited" THEN "done" ELSE "sleep"
    /\ UNCHANGED <<cfg, ctx, conn, server, relay>>

(* Mutant: the goroutine registers once. *)
MutantSleep ==
    /\ reg = "sleep"
    /\ reg' = "done"
    /\ UNCHANGED <<cfg, ctx, conn, server, relay>>

Sleep ==
    /\ reg = "sleep"
    /\ reg' = IF ctx = "done" THEN "done" ELSE "post"
    /\ UNCHANGED <<cfg, ctx, conn, server, relay>>

--------------------------------------------------------------------------------
(* proxyStreamToLocal and relayConns. *)

activeStreams == Cardinality({s \in Streams : st[s] \in {"dial", "relay"}})

(* The stream is closed and, when it was counted, the count goes down. *)
EndStream(s) ==
    /\ st' = [st EXCEPT ![s] = "idle"]
    /\ conns' = [conns EXCEPT ![s] = {}]
    /\ copiers' = [copiers EXCEPT ![s] = {}]
    /\ stalled' = [stalled EXCEPT ![s] = {}]

(* The limit is compared first and the stream counted afterwards. *)
CheckLimit(s) ==
    /\ st[s] = "check"
    /\ IF MaxStreams > 0 /\ activeStreams >= MaxStreams
         THEN EndStream(s)
         ELSE st' = [st EXCEPT ![s] = "count"] /\ UNCHANGED <<conns, copiers, stalled>>
    /\ UNCHANGED <<cfg, ctx, conn, server, reg>>

Count(s) ==
    /\ st[s] = "count"
    /\ st' = [st EXCEPT ![s] = "dial"]
    /\ UNCHANGED <<cfg, ctx, conn, server, reg, conns, copiers, stalled>>

DialLocal(s) ==
    /\ st[s] = "dial"
    /\ \/ /\ st' = [st EXCEPT ![s] = "relay"]
          /\ conns' = [conns EXCEPT ![s] = @ \cup {"local"}]
          /\ copiers' = [copiers EXCEPT ![s] = {"tunnel", "local"}]
          /\ UNCHANGED stalled
       \/ EndStream(s)
    /\ UNCHANGED <<cfg, ctx, conn, server, reg>>

(* Either peer ends its side: the visitor or the local application. *)
PeerCloses(s, e) ==
    /\ st[s] = "relay" /\ e \in conns[s]
    /\ conns' = [conns EXCEPT ![s] = @ \ {e}]
    /\ UNCHANGED <<cfg, ctx, conn, server, reg, st, copiers, stalled>>

other(e) == IF e = "tunnel" THEN "local" ELSE "tunnel"

(* The Write of a copier is held up: its reader has stopped reading and the buffers
   are full. There is no deadline. It goes on when the reader reads again. (What was
   read before the source ended may stall later; that is the same state.) *)
Stall(s, e) ==
    /\ e \in copiers[s] \ stalled[s] /\ conns[s] = {"tunnel", "local"}
    /\ stalled' = [stalled EXCEPT ![s] = @ \cup {e}]
    /\ UNCHANGED <<cfg, ctx, conn, server, reg, st, conns, copiers>>

PeerReads(s, e) ==
    /\ e \in stalled[s] /\ other(e) \in conns[s]
    /\ stalled' = [stalled EXCEPT ![s] = @ \ {e}]
    /\ UNCHANGED <<cfg, ctx, conn, server, reg, st, conns, copiers>>

(* Mutant: closeBoth is not called. *)
MutantCloseBoth(s, e) ==
    /\ copiers' = [copiers EXCEPT ![s] = @ \ {e}]
    /\ stalled' = [stalled EXCEPT ![s] = @ \ {e}]
    /\ UNCHANGED <<cfg, ctx, conn, server, reg, st, conns>>

(* A copier that returns closes both ends, which also frees the Write of the other. *)
closeBoth(s, e) ==
    /\ copiers' = [copiers EXCEPT ![s] = @ \ {e}]
    /\ conns' = [conns EXCEPT ![s] = {}]
    /\ stalled' = [stalled EXCEPT ![s] = {}]
    /\ UNCHANGED <<cfg, ctx, conn, server, reg, st>>

(* copyStream returns when the end it reads from is closed, unless it is in Write ... *)
CopyEnds(s, e) == e \in copiers[s] \ stalled[s] /\ e \notin conns[s] /\ closeBoth(s, e)

(* ... or when a Write fails because the other end is closed. *)
WriteFails(s, e) == e \in copiers[s] /\ other(e) \notin conns[s] /\ closeBoth(s, e)

RelayReturns(s) ==
    /\ st[s] = "relay" /\ copiers[s] = {}
    /\ EndStream(s)
    /\ UNCHANGED <<cfg, ctx, conn, server, reg>>

--------------------------------------------------------------------------------
Client == Exit \/ SendAuth \/ NewSession \/ SetActive \/ Loop \/ AcceptFails \/ Leave
Serve(s) == CheckLimit(s) \/ Count(s) \/ DialLocal(s) \/ RelayReturns(s)
            \/ \E e \in {"tunnel", "local"} : CopyEnds(s, e)

Peer(s, e) == PeerCloses(s, e) \/ Stall(s, e) \/ PeerReads(s, e) \/ WriteFails(s, e)

Next ==
    \/ Dial \/ Client \/ Watch \/ Signal \/ Break
    \/ Establish \/ Publish \/ Unpublish
    \/ Post \/ Registered \/ PostFails \/ Sleep
    \/ \E s \in Streams : \/ Accept(s) \/ Serve(s)
                          \/ \E e \in {"tunnel", "local"} : Peer(s, e)

Spec == Init /\ [][Next]_vars

(* The goroutines of client and server run, local dials and reads of a closed
   connection return, and not every registration fails. *)
Fairness ==
    /\ WF_vars(Client) /\ WF_vars(Watch) /\ WF_vars(Publish) /\ WF_vars(Unpublish)
    /\ WF_vars(Post) /\ WF_vars(Sleep) /\ WF_vars(Registered \/ PostFails) /\ SF_vars(Registered)
    /\ \A s \in Streams : WF_vars(Serve(s))

FairSpec == Spec /\ Fairness

--------------------------------------------------------------------------------
(* PROPERTIES *)

(* After the signal the client leaves runClient, wherever it stood: in particular
   when the watcher ran before the session it should have closed existed. *)
ClientStops == ctx = "done" ~> pc = "exited"

(* A visitor who follows the public URL reaches this client's tunnel, whenever the
   flags of the two processes are as Named asks: the key the server derives from the
   host with its own flags is the key it has entered the tunnel under. *)
PublicURLReaches ==
    entry = "live" /\ Named(cfg) => publicHandler(cfg.srv, publicURL(cfg)) = tunnelKey(cfg)

(* "so A records stay fresh": while the tunnel stays up, the record that a late
   handler of an earlier session has removed is there again in the end. (In
   another namespace, or with -mesh-host, the client refreshes another name.) *)
RefreshRepairs ==
    cfg.mesh /\ publishedID(cfg) = meshHostID(cfg) =>
        (<>[](entry = "live" /\ ctx = "live") => <>[](publishedID(cfg) \in record))

(* A relay whose visitor or application has gone away ends, and its slot is free
   again, unless from some point on whatever copier could notice is held in a Write:
   neither direction waits for ever to read from an end that nobody closes. *)
HeldInWrite(s) ==
    st[s] = "relay" /\ stalled[s] # {} /\ \A e \in copiers[s] \ conns[s] : e \in stalled[s]
SlotsReturn ==
    \A s \in Streams :
        \/ st[s] = "relay" /\ conns[s] # {"tunnel", "local"} ~> st[s] = "idle"
        \/ <>[]HeldInWrite(s)
================================================================================
