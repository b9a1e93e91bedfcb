------------------------------ MODULE StackBarges ------------------------------
(* The product stack (stack_config.go, stack_k3s.go, kernel_barge.go): a YAML file,
   or -stack-products, is resolved into a list of product barges, and for each one
   in turn a Service, an optional ConfigMap and a Deployment are created or
   updated. The first error ends the controller, which may crash anywhere and is
   started again with whatever the file says then. Nothing is ever deleted except
   by -k3s-cleanup, and then only what the present configuration lists.

   An environment variable is modelled by the port it carries: LISTEN (the
   process's own address), the link to each sibling, KERNEL (the replication
   peer). Only links that the YAML does not set are generated. *)
EXTENDS Integers, Sequences, FiniteSets

CONSTANTS
    Configs,    \* what the command line and the YAML files may hold
    None

(* What the constants must satisfy: the entries of a file are a list. *)
StackConstants ==
    \A f \in Configs : Len(f.entries) \in Nat /\ DOMAIN f.entries = 1 .. Len(f.entries)

(* stackCatalog: the zero-config port of every product. *)
stackCatalog ==
    [williwaw |-> 3081, motionkb |-> 8090, ack |-> 3083, mail |-> 3086, search |-> 3087,
     social |-> 3085, platform |-> 8443, services |-> 8080, name |-> 8447, dbsc_relay |-> 8450,
     anycast |-> 9099, orchid_ingest |-> 8451, auth |-> 8460, iam |-> 8461, access |-> 8462,
     scim |-> 8463, pki |-> 8464, workflows |-> 8465, topology |-> 8466, nameservice |-> 8467,
     servicekeys |-> 8468, vpi |-> 8469, logs |-> 8470, ultimate_db |-> 8480,
     ultimate_keystore |-> 8481]

Keys == DOMAIN stackCatalog
Kernel == {"ultimate_db", "ultimate_keystore"}
Engine == {"tunneltug", "engine", "barge"}

(* The siblings productLinkEnv gives a product the URL of. *)
siblings(p) == CASE p = "williwaw" -> {"social", "ack"}
                 [] p = "motionkb" -> {"social", "williwaw", "ack"}
                 [] p = "ack"      -> {"social"}
                 [] OTHER          -> {}

(* The image of services and the configuration file of anycast say where they listen;
   nothing of the stack does. A product without a listen variable is one of these, or
   takes its port from its arguments. *)
Untold == {"services", "anycast"}
Deaf == Untold \cup Kernel

(* hubProductCatalog, and the switch after resolveHubProduct: aliases by catalog key. *)
aliases ==
    [social |-> {"cdn"}, ack |-> {"defcon"}, motionkb |-> {"motion"},
     name |-> {"gtld", "0trust-name", "0trust_name"}, dbsc_relay |-> {"dbsc-relay", "dbsc"},
     orchid_ingest |-> {"orchid-ingest", "orchid_sync_ingest", "orchid-sync-ingest",
                        "orchid_sync", "orchid-sync", "orchid"},
     auth |-> {"idp", "identity"}, access |-> {"ztna"}, workflows |-> {"workflow"},
     nameservice |-> {"name-service", "name_service"},
     servicekeys |-> {"service-keys", "service_keys", "keys"},
     logs |-> {"elastic", "observability"},
     ultimate_db |-> {"ultimate-db", "udb", "kernel-db", "kernel_replication_db"},
     ultimate_keystore |-> {"ultimate-keystore", "ultimate_store", "ultimate-store", "uks", "keystore",
                            "kernel-keystore", "store", "kernel_replication_keystore"}]
canonical(n) == IF \E p \in DOMAIN aliases : n \in aliases[p]
                THEN CHOOSE p \in DOMAIN aliases : n \in aliases[p] ELSE n

--------------------------------------------------------------------------------
(* stack_config.go: from the file to the resolved stack. An entry is a record of
   its YAML keys, None where a key is not given. *)

given(over, base) == IF over = None THEN base ELSE over

(* mergeBargeConfig: what is given wins, variable by variable for env; disabled
   can be added, never taken back. *)
mergeBargeConfig(base, over) ==
    [name     |-> given(over.name, base.name),
     port     |-> given(over.port, base.port),
     tag      |-> given(over.tag, base.tag),
     image    |-> given(over.image, base.image),
     replicas |-> given(over.replicas, base.replicas),
     config   |-> given(over.config, base.config),
     env      |-> [k \in DOMAIN base.env \cup DOMAIN over.env |->
                      IF k \in DOMAIN over.env THEN over.env[k] ELSE base.env[k]],
     disabled |-> base.disabled \/ over.disabled]

(* loadBargeEntry: an entry with a file is the file, overridden by the entry. *)
loadBargeEntry(e) == IF e.file = None THEN e ELSE mergeBargeConfig(e.file, e)

(* applyBargeOverrides, with syncStackListenEnv after the merge of env. *)
applyBargeOverrides(p, e, tag) ==
    LET port == IF e.port # None /\ e.port > 0 THEN e.port ELSE stackCatalog[p]
        keys == DOMAIN e.env \cup (IF p \in Deaf THEN {} ELSE {"LISTEN"})
    IN  [name     |-> p,
         port     |-> port,
         env      |-> [k \in keys |-> IF k = "LISTEN" THEN port ELSE e.env[k]],
         replicas |-> IF e.replicas # None /\ e.replicas > 0 THEN e.replicas ELSE 1,
         image    |-> given(e.image, given(e.tag, tag)),
         config   |-> e.config]

(* The loop of resolveStackConfig: disabled entries and the engine are skipped, the
   first entry of a product counts, an unknown one spoils the whole file. The m-th
   app is the first entry with m - 1 such entries before it. *)
resolveStackConfig(file) ==
    LET e(i) == loadBargeEntry(file.entries[i])
        key(i) == canonical(e(i).name)
        live == {i \in DOMAIN file.entries : ~e(i).disabled /\ key(i) \notin Engine}
        firsts == {i \in live : \A j \in live : j < i => key(j) # key(i)}
        nth(m) == CHOOSE i \in firsts : Cardinality({j \in firsts : j <= i}) = m
    IN  IF live = {} \/ \E i \in live : key(i) \notin Keys THEN None
        ELSE [m \in 1 .. Cardinality(firsts) |-> applyBargeOverrides(key(nth(m)), e(nth(m)), file.tag)]

--------------------------------------------------------------------------------
VARIABLES
    config,   \* the configuration of the present controller
    apps,     \* its resolved stack
    pc, k,    \* where runStack stands, and at which app
    svc,      \* svc[p]: the port of p's Service
    cmap,     \* cmap[p]: the content of p's ConfigMap
    dep,      \* dep[p]: p's Deployment
    rows      \* stackStatus: the products whose Deployment was found

objects == <<svc, cmap, dep>>
vars == <<config, apps, pc, k, objects, rows>>

TypeOK ==
    /\ config \in Configs \cup {None}
    /\ pc \in {"exited", "pull", "namespace", "service", "configmap", "deployment", "online"}
    /\ apps # None => k \in 1 .. Len(apps) + 1
    /\ DOMAIN svc \subseteq Keys /\ DOMAIN cmap \subseteq Keys /\ DOMAIN dep \subseteq Keys
    /\ rows \subseteq Keys

Init ==
    /\ config = None /\ apps = None /\ pc = "exited" /\ k = 1
    /\ svc = <<>> /\ cmap = <<>> /\ dep = <<>> /\ rows = {}

Put(f, p, v) == [q \in DOMAIN f \cup {p} |-> IF q = p THEN v ELSE f[q]]
Drop(f, S) == [q \in DOMAIN f \ S |-> f[q]]

Exit == pc' = "exited" /\ config' = None /\ apps' = None /\ k' = 1 /\ rows' = {}

(* resolveStackApps; a configuration that does not resolve is fatal. *)
Start ==
    /\ pc = "exited"
    /\ \E c \in Configs :
         /\ resolveStackConfig(c) # None
         /\ config' = c
         /\ apps' = resolveStackConfig(c)
    /\ pc' = "pull"
    /\ UNCHANGED <<k, objects, rows>>

(* startK3sBargeHub, ensureK3sBargeImage for every app, the client, the namespace. *)
Prepare ==
    /\ \/ pc = "pull" /\ pc' = "namespace"
       \/ pc = "namespace" /\ pc' = "service"
    /\ UNCHANGED <<config, apps, k, objects, rows>>

app == apps[k]

EnsureService ==
    /\ pc = "service" /\ pc' = "configmap"
    /\ svc' = Put(svc, app.name, app.port)
    /\ UNCHANGED <<config, apps, k, cmap, dep, rows>>

EnsureConfigMap ==
    /\ pc = "configmap" /\ pc' = "deployment"
    /\ cmap' = IF app.config = None THEN cmap ELSE Put(cmap, app.name, app.config)
    /\ UNCHANGED <<config, apps, k, svc, dep, rows>>

(* stackClusterServiceURL and stackKernelEnv: the port of a sibling is the one this
   configuration resolves for it, else the catalog's. *)
inStack(p) == \E i \in DOMAIN apps : apps[i].name = p
portOf(p) == IF inStack(p) THEN (CHOOSE a \in {apps[i] : i \in DOMAIN apps} : a.name = p).port
             ELSE stackCatalog[p]

generated(p) == siblings(p) \cup (IF p \in Kernel THEN {} ELSE Kernel)

(* Mutant: the catalog's port whatever the configuration says. *)
MutantDeploymentEnv(a) ==
    [v \in generated(a.name) \cup DOMAIN a.env |->
        IF v \in DOMAIN a.env THEN a.env[v] ELSE stackCatalog[v]]

(* The environment of a Deployment: generated links first, env wins. *)
deploymentEnv(a) ==
    [v \in generated(a.name) \cup DOMAIN a.env |->
        IF v \in DOMAIN a.env THEN a.env[v] ELSE portOf(v)]

(* Where a Deployment makes the process of a product listen: the arguments of a kernel
   barge, the listen variable of the others; None when it is not told. *)
bindOf(a) == IF a.name \in Kernel THEN a.port
             ELSE IF a.name \in Untold THEN None ELSE deploymentEnv(a)["LISTEN"]

EnsureDeployment ==
    /\ pc = "deployment"
    /\ dep' = Put(dep, app.name, [port |-> app.port, bind |-> bindOf(app),
                                  env |-> deploymentEnv(app), image |-> app.image,
                                  replicas |-> app.replicas, config |-> app.config])
    /\ k' = k + 1
    /\ pc' = IF k = Len(apps) THEN "online" ELSE "service"
    /\ rows' = IF k = Len(apps) THEN DOMAIN dep' \cap {apps[i].name : i \in DOMAIN apps} ELSE rows
    /\ UNCHANGED <<config, apps, svc, cmap>>

(* Any call to k3s ctr or to the API that fails is fatal; so is a crash. *)
Fail ==
    /\ pc # "exited" /\ Exit
    /\ UNCHANGED objects

(* The signal; with -k3s-cleanup every app of the configuration is deleted. *)
Signal ==
    /\ pc = "online" /\ Exit
    /\ LET names == {apps[i].name : i \in DOMAIN apps}
       IN  IF config.cleanup
             THEN /\ svc' = Drop(svc, names) /\ dep' = Drop(dep, names)
                  /\ cmap' = Drop(cmap, {apps[i].name : i \in {j \in DOMAIN apps : apps[j].config # None}})
             ELSE UNCHANGED objects

Next == Start \/ Prepare \/ EnsureService \/ EnsureConfigMap \/ EnsureDeployment \/ Fail \/ Signal

Spec == Init /\ [][Next]_vars

--------------------------------------------------------------------------------
(* PROPERTIES *)

(* Once the stack is online, the container port of every product is its Service's port;
   every product that is told its port (all but services and anycast) listens there; every
   product runs with the configuration it mounts, and every link between two products of the
   stack that the YAML does not set itself leads to the other's Service: whatever
   an earlier controller with another file left, completely or half-way. *)
StackConnected ==
    pc = "online" =>
        \A i \in DOMAIN apps :
            LET p == apps[i].name  d == dep[p]
            IN  /\ d.port = svc[p]
                /\ p \notin Untold => d.bind = svc[p]
                /\ d.config # None => cmap[p] = d.config
                /\ \A q \in generated(p) : inStack(q) /\ q \notin DOMAIN apps[i].env
                                           => d.env[q] = svc[q]
================================================================================
