-------------------------------- MODULE Services --------------------------------
(* The services around the tunnels, each a mode of its own in main: publishers and
   the image hub (OciHub), the product stack (StackBarges), product vhosts (VHosts),
   and the resolution of private names (PrivateDNS). The initial state chooses one,
   only that one takes steps, and the others stay where they start. *)
EXTENDS OciHub

CONSTANTS
    StackFiles,                          \* StackBarges
    Admins, Reloaders, Www, Cutovers, VHostFiles,   \* VHosts
    DNSFiles, Snapshots, Packs, Names, DoHURLs, MeshTLD, ConfSuffixes, TLDs, Zone, NSHost   \* PrivateDNS

VARIABLES
    service,     \* "hub", "stack", "vhosts", "dns"
    s_config, s_apps, s_pc, s_k, s_svc, s_cmap, s_dep, s_rows,
    v_path, v_tmp, v_vhostFile, v_handlers, v_pc, v_copy, v_shares, v_fd, v_raw,
    d_dnsFile, d_cfg, d_origin, d_disk, d_zone, d_suffixes, d_last, d_packed, d_spc, d_stopped,
    d_query, d_sent

stackVars == <<s_config, s_apps, s_pc, s_k, s_svc, s_cmap, s_dep, s_rows>>
vhostVars == <<v_path, v_tmp, v_vhostFile, v_handlers, v_pc, v_copy, v_shares, v_fd, v_raw>>
dnsVars == <<d_dnsFile, d_cfg, d_origin, d_disk, d_zone, d_suffixes, d_last, d_packed, d_spc,
             d_stopped, d_query, d_sent>>
allVars == <<service, vars, stackVars, vhostVars, dnsVars>>

--------------------------------------------------------------------------------
Stack == INSTANCE StackBarges WITH
    Configs <- StackFiles,
    config <- s_config, apps <- s_apps, pc <- s_pc, k <- s_k, svc <- s_svc, cmap <- s_cmap,
    dep <- s_dep, rows <- s_rows

VH == INSTANCE VHosts WITH
    Files <- VHostFiles,
    path <- v_path, tmp <- v_tmp, vhostFile <- v_vhostFile, handlers <- v_handlers, pc <- v_pc,
    copy <- v_copy, shares <- v_shares, fd <- v_fd, raw <- v_raw

DNS == INSTANCE PrivateDNS WITH
    dnsFile <- d_dnsFile, cfg <- d_cfg, origin <- d_origin, disk <- d_disk, zone <- d_zone,
    suffixes <- d_suffixes, last <- d_last, packed <- d_packed, spc <- d_spc,
    stopped <- d_stopped, query <- d_query, sent <- d_sent

ASSUME StackAssumption == Stack!StackConstants
ASSUME VHostsAssumption == VH!VHostsConstants
ASSUME DNSAssumption == DNS!DNSConstants

--------------------------------------------------------------------------------
(* The services that do not run are all in one of their initial states; publishers
   that are not started have nothing to do. *)
ServiceInit ==
    /\ service \in {"hub", "stack", "vhosts", "dns"}
    /\ blobs = <<>> /\ manifests = <<>> /\ tags = {}
    /\ upload = [p \in Publishers |-> None] /\ mu = None
    /\ pc = [p \in Publishers |-> IF service = "hub" THEN "next" ELSE "exit"] /\ todo = Products
    /\ image = [p \in Publishers |-> None] /\ n = [p \in Publishers |-> 1]
    /\ left = [p \in Publishers |-> 0]
    /\ listed = [p \in Publishers |-> {}] /\ failed = [p \in Publishers |-> {}]
    /\ Stack!Init
    /\ VH!Init /\ (service # "vhosts" => v_path = CHOOSE f \in VHostFiles : TRUE)
    /\ DNS!Init
    /\ service # "dns" => /\ d_dnsFile = CHOOSE f \in DNSFiles : DNS!validateDNSFile(f)
                          /\ d_origin = None /\ d_disk = CHOOSE p \in Packs : p # None

Run(s) == service = s /\ UNCHANGED service

ServiceNext ==
    \/ Run("hub")    /\ Next       /\ UNCHANGED <<stackVars, vhostVars, dnsVars>>
    \/ Run("stack")  /\ Stack!Next /\ UNCHANGED <<vars, vhostVars, dnsVars>>
    \/ Run("vhosts") /\ VH!Next    /\ UNCHANGED <<vars, stackVars, dnsVars>>
    \/ Run("dns")    /\ DNS!Next   /\ UNCHANGED <<vars, stackVars, vhostVars>>

(* The fairness of OciHub and of PrivateDNS, while they run. *)
ServiceSpec ==
    /\ ServiceInit /\ [][ServiceNext]_allVars
    /\ \A p \in Publishers : SF_vars(service = "hub" /\ Step(p))
    /\ WF_dnsVars(service = "dns" /\ DNS!Start) /\ WF_dnsVars(service = "dns" /\ DNS!Sync)

--------------------------------------------------------------------------------
(* PROPERTIES, next to those of OciHub *)

(* Every component keeps its types. *)
ServiceTypeOK == TypeOK /\ Stack!TypeOK /\ VH!TypeOK /\ DNS!TypeOK

(* Once the stack is online, the container port of every product is its Service's port;
   every product that is told its port (all but services and anycast) listens there, runs
   with the configuration it mounts, and every generated link between two products
   of the stack leads to the other's Service: whatever an earlier controller with
   another file left, completely or half-way. *)
StackConnected == Stack!StackConnected

(* "never lose primary routes": a primary host is served at every moment, through
   one cutover at a time, reloads, edits, failed writes and restarts. *)
RoutesKept == VH!RoutesKept

(* A private name is never asked of a public resolver, by the stub or by the edge, at
   whatever point of a synchronisation the query comes. *)
PrivateStaysPrivate == DNS!PrivateStaysPrivate

(* While no snapshot is being applied the edge serves its own glue, the pack it read
   and the whole snapshot of the origin. *)
EdgeServesAll == DNS!EdgeServesAll

(* A zone that the origin goes on serving reaches the edge. *)
EdgeFollowsOrigin == service = "dns" => DNS!EdgeFollowsOrigin
================================================================================
