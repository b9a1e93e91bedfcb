------------------------------- MODULE PrivateDNS -------------------------------
(* How a private name is resolved. The stub of a client (vpi_stub.go, dns_config.go)
   chooses a resolver for every query; the anycast edge (anycast/splitdns, zonesync,
   zonepack) answers private names from its zone and asks public resolvers for the
   rest. The edge's zone and its list of private suffixes change under the queries:
   the syncer replaces them by the origin's snapshot and then re-applies what is
   local, one locked step after the other.

   A domain name is the sequence of its labels, the top-level label first, so that
   "under a suffix" is "has it as a prefix". *)
EXTENDS Naturals, Sequences, FiniteSets, SequencesExt, FiniteSetsExt

CONSTANTS
    DNSFiles,    \* versions of the -dns file
    Snapshots,   \* zones the origin may serve
    Packs,       \* what the zone_pack path may hold
    Names,       \* the names asked for
    DoHURLs,     \* resolvers that are given by an http(s) URL
    MeshTLD,     \* -mesh-tld, <<>> when it is empty
    ConfSuffixes, TLDs, Zone, NSHost,   \* the edge's configuration
    None

(* Resolvers by role. MeshNS: -vpi-upstream, the mesh authority or the server's mesh
   DNS, whichever resolveVPIStubConfig finds first. *)
MeshNS == "mesh"
PublicNS == "public"      \* the stub's fallback, unless the file names another
RecursiveNS == "recursive"  \* the public resolvers behind the edge
Edge == "edge"

VARIABLES
    dnsFile, cfg,    \* the loaded file and vpiStubConfig
    origin,          \* the snapshot the origin serves, None when it does not answer
    disk,            \* what is at the zone_pack path
    zone, suffixes,  \* the edge: <<domain, type>> -> value, and the private suffixes
    last,            \* Syncer.last
    packed,          \* what the last loadZonePack applied, None when it failed
    spc, stopped,    \* the syncer, and whether its context has ended
    query, sent      \* the query under way, and the servers that were asked for it

stub == <<dnsFile, cfg>>
edge == <<zone, suffixes, last, packed>>
world == <<origin, disk, stopped>>
vars == <<stub, world, edge, spc, query, sent>>

Idle == [at |-> "idle", name |-> <<>>, doh |-> None, udp |-> None]
Domains == Names \cup {Zone, NSHost} \cup {<<t>> : t \in TLDs}
RecordKeys == Domains \X {"A", "NS", "TXT"}

(* What the constants must satisfy: files list zones, each with finitely many
   patterns; packs are lists of parsed files or None; records are those of Domains. *)
DNSConstants ==
    /\ None \notin {MeshNS, PublicNS, RecursiveNS} /\ None \notin Snapshots
    /\ \A f \in DNSFiles :
         /\ Len(f.zones) \in Nat /\ DOMAIN f.zones = 1 .. Len(f.zones)
         /\ \A i \in DOMAIN f.zones :
              /\ IsFiniteSet(f.zones[i].domains) /\ Len(f.zones[i].tld) \in Nat
              /\ \A d \in f.zones[i].domains : Len(d.suffix) \in Nat
    /\ \A s \in Snapshots : DOMAIN s.records \subseteq RecordKeys
    /\ \A p \in Packs \ {None} :
         /\ Len(p.parts) \in Nat \ {0} /\ DOMAIN p.parts = 1 .. Len(p.parts)
         /\ \A i \in DOMAIN p.parts :
              p.parts[i] # None => /\ DOMAIN p.parts[i] = {"records", "suffixes"}
                                   /\ DOMAIN p.parts[i].records \subseteq RecordKeys

TypeOK ==
    /\ dnsFile \in DNSFiles
    /\ DOMAIN cfg = {"upstream", "fallback", "suffixes"}
    /\ origin \in Snapshots \cup {None} /\ last \in Snapshots \cup {None}
    /\ disk \in Packs
    /\ DOMAIN zone \subseteq RecordKeys
    /\ packed = None \/ DOMAIN packed = {"records", "suffixes"}
    /\ spc \in {"start", "pull", "suffixes", "glue", "pack", "wait", "exit"}
    /\ stopped \in BOOLEAN
    /\ query.at \in {"idle", "doh", "udp", "edge", "zone", "recurse", "done"}

(* A name is under a suffix when it is the suffix or ends in it. *)
Under(name, suffix) == IsPrefix(suffix, name)

--------------------------------------------------------------------------------
(* THE STUB *)

(* validateDNSFile, without the syntax of URLs and methods: a zone says what it
   matches, a TLD is one label. *)
validateDNSFile(f) ==
    /\ \A i \in DOMAIN f.zones : f.zones[i].tld # <<>> \/ f.zones[i].domains # {}
    /\ \A i \in DOMAIN f.zones : Len(f.zones[i].tld) <= 1
    /\ \A t \in f.privateTLDs : Len(t) = 1

(* privateSuffixesFromDNSFile: of a domain pattern only the top-level label. *)
privateSuffixesFromDNSFile(f) ==
    f.privateTLDs
    \cup {f.zones[i].tld : i \in {j \in DOMAIN f.zones : f.zones[j].tld # <<>>}}
    \cup {<<Head(d.suffix)>> : d \in UNION {f.zones[i].domains : i \in DOMAIN f.zones}}

firstNonEmpty(a, b) == IF a # None THEN a ELSE b

(* resolveVPIStubConfig and the defaults of startVPIStub. *)
resolveVPIStubConfig(f) ==
    [upstream |-> firstNonEmpty(f.defaultUpstream, MeshNS),
     fallback |-> firstNonEmpty(f.fallback, PublicNS),
     suffixes |-> {<<"mesh">>, <<"social">>, <<"tunnel">>} \cup ({MeshTLD} \ {<<>>})
                 \cup privateSuffixesFromDNSFile(f)]

(* The scores a zone gets in matchDNSZone; a label counts eight characters. *)
scores(name, z) ==
    LET len(s) == 8 * Len(s)
        apex == {d \in z.domains : d.suffix = name}
        sub  == {d \in z.domains : d.suffix # name /\ Under(name, d.suffix)}
    IN  {(IF d.wild THEN 300 ELSE 400) + len(d.suffix) : d \in apex}
        \cup {(IF d.wild THEN 200 ELSE 250) + len(d.suffix) : d \in sub}
        \cup {s \in {(IF z.tld = name THEN 100 ELSE 50) + len(z.tld)} :
                z.tld # <<>> /\ Under(name, z.tld)}

(* matchDNSZone: the best score, and the first zone that has it. *)
matchDNSZone(name, zones) ==
    LET hits == {i \in DOMAIN zones : scores(name, zones[i]) # {}}
        top(i) == Max(scores(name, zones[i]))
    IN  IF hits = {} THEN None
        ELSE zones[CHOOSE i \in hits : \A j \in hits :
                        top(j) < top(i) \/ (top(j) = top(i) /\ i <= j)]

isPrivateDNSName(name, c) == \E s \in c.suffixes : Under(name, s)

Resolver(doh, udp) == [doh |-> doh, udp |-> udp]
isDoHURL(s) == s \in DoHURLs

(* What a matched zone without a resolver of its own falls back on. *)
inherited(f, c) ==
    CASE f.defaultDoH # None -> Resolver(f.defaultDoH, f.defaultUpstream)
      [] OTHER -> Resolver(None, firstNonEmpty(f.defaultUpstream, c.upstream))

(* resolverForDomain, by the zone that matches, else by the kind of name. *)
resolverForDomain(name, f, c) ==
    LET z == matchDNSZone(name, f.zones)
    IN  CASE z # None /\ (z.doh # None \/ z.upstream # None) -> Resolver(z.doh, z.upstream)
          [] z # None /\ z.doh = None /\ z.upstream = None -> inherited(f, c)
          [] z = None /\ isPrivateDNSName(name, c) ->
                Resolver(f.defaultDoH, firstNonEmpty(f.defaultUpstream, c.upstream))
          [] OTHER -> IF isDoHURL(c.fallback) THEN Resolver(c.fallback, None)
                      ELSE Resolver(None, c.fallback)

(* The private resolvers of a file, and the condition that they are not the public
   ones: no zone and no default names the fallback or what the edge recurses to. *)
PrivateNS(f) ==
    ({MeshNS, f.defaultDoH, f.defaultUpstream} \cup {f.zones[i].doh : i \in DOMAIN f.zones}
     \cup {f.zones[i].upstream : i \in DOMAIN f.zones}) \ {None}
ResolversApart ==
    \A f \in DNSFiles :
        LET fallback == firstNonEmpty(f.fallback, PublicNS)
        IN  fallback # RecursiveNS /\ PrivateNS(f) \cap {fallback, RecursiveNS} = {}

(* loadDNSConfig: a file that cannot be used leaves the loaded one in place. Values
   are normalised as they are read, hence the labels instead of strings. *)
loadDNSConfig(read, loaded) == IF validateDNSFile(read) THEN read ELSE loaded

(* startVPIStub, initially: validateConfig has loaded one version of the file, and
   resolveVPIStubConfig reads it again. *)
StartVPIStub ==
    \E loaded \in {f \in DNSFiles : validateDNSFile(f)}, read \in DNSFiles :
        /\ dnsFile = loadDNSConfig(read, loaded)
        /\ cfg = resolveVPIStubConfig(dnsFile)

(* vpiForward: a query comes in and gets its resolver, ... *)
Forward(name) ==
    /\ query = Idle
    /\ LET r == resolverForDomain(name, dnsFile, cfg)
       IN  query' = [at |-> IF r.doh # None THEN "doh" ELSE "udp", name |-> name,
                     doh |-> r.doh, udp |-> r.udp]
    /\ sent' = {}
    /\ UNCHANGED <<stub, world, edge, spc>>

(* ... which vpiExchangeResolver asks over HTTPS first, and then, if that failed and
   there is one, over UDP. *)
ExchangeDoH ==
    /\ query.at = "doh"
    /\ sent' = sent \cup {query.doh}
    /\ \/ query' = [query EXCEPT !.at = "done"]
       \/ query' = [query EXCEPT !.at = "udp"] /\ query.udp # None
    /\ UNCHANGED <<stub, world, edge, spc>>

ExchangeUDP ==
    /\ query.at = "udp"
    /\ sent' = sent \cup {query.udp}
    /\ query' = [Idle EXCEPT !.name = query.name, !.at = IF query.udp = Edge THEN "edge" ELSE "done"]
    /\ UNCHANGED <<stub, world, edge, spc>>

--------------------------------------------------------------------------------
(* QUERIES AT THE EDGE *)

(* The edge is also asked directly. *)
AskEdge(name) ==
    /\ query = Idle /\ spc # "start"
    /\ query' = [Idle EXCEPT !.at = "edge", !.name = name]
    /\ sent' = {}
    /\ UNCHANGED <<stub, world, edge, spc>>

(* IsPrivate copies the suffixes under the lock and decides ... *)
IsPrivate ==
    /\ query.at = "edge" /\ spc # "start"
    /\ query' = [query EXCEPT !.at =
                    IF \E s \in suffixes : Under(query.name, s) THEN "zone" ELSE "recurse"]
    /\ UNCHANGED <<stub, world, edge, spc, sent>>

(* ... between the zone and forwardWire, which tries one recursive resolver after
   the other. *)
Answer ==
    /\ query.at \in {"zone", "recurse"}
    /\ sent' = sent \cup (IF query.at = "recurse" THEN {RecursiveNS} ELSE {})
    /\ query' = [query EXCEPT !.at = "done"]
    /\ UNCHANGED <<stub, world, edge, spc>>

Done ==
    /\ query.at = "done"
    /\ query' = Idle /\ sent' = {}
    /\ UNCHANGED <<stub, world, edge, spc>>

--------------------------------------------------------------------------------
(* THE EDGE *)

(* UpsertRecord, of secure_dns: one value for a domain and type. *)
Upsert(recs, z) ==
    [k \in DOMAIN recs \cup DOMAIN z |-> IF k \in DOMAIN recs THEN recs[k] ELSE z[k]]

(* zonepack.Load of a file, or of a directory: one file that does not parse, or no
   record at all, and the directory is not loaded. Records are upserted file by
   file, so that of two files with a record the later one counts. *)
loadDir(parts) ==
    LET with(k) == {i \in DOMAIN parts : k \in DOMAIN parts[i].records}
        keys == UNION {DOMAIN parts[i].records : i \in DOMAIN parts}
    IN  IF (\E i \in DOMAIN parts : parts[i] = None) \/ keys = {} THEN None
        ELSE [records  |-> [k \in keys |-> parts[CHOOSE i \in with(k) : \A j \in with(k) : j <= i].records[k]],
              suffixes |-> UNION {parts[i].suffixes : i \in DOMAIN parts}]

Load(p) == IF p = None THEN None ELSE IF p.dir THEN loadDir(p.parts) ELSE p.parts[1]

NSGlue == [k \in {<<NSHost, "A">>} |-> "vip"]
TLDGlue == [k \in {<<<<t>>, "NS">> : t \in TLDs} |-> NSHost]

(* BootstrapSeeds and Start; serving begins with the zone complete. *)
Start ==
    /\ spc = "start"
    /\ LET p == Load(disk)
           seeds == Upsert(Upsert(NSGlue, TLDGlue),
                           [k \in {<<<<t>>, "TXT">> : t \in TLDs} \cup ({Zone} \X {"A", "NS", "TXT"}) |->
                               CASE k[2] = "A" -> "vip" [] k[2] = "NS" -> NSHost [] OTHER -> "glue"])
       IN  /\ zone' = IF p = None THEN seeds ELSE Upsert(NSGlue, Upsert(p.records, seeds))
           /\ suffixes' = suffixes \cup (IF p = None THEN {} ELSE p.suffixes)
           /\ packed' = p
    /\ spc' = "pull"
    /\ UNCHANGED <<stub, world, last, query, sent>>

(* Mutant: Run ends when the initial pull fails. *)
MutantPullFails ==
    /\ spc = "pull" /\ (origin = None \/ stopped)
    /\ spc' = IF last = None THEN "exit" ELSE "wait"
    /\ UNCHANGED <<stub, world, edge, query, sent>>

(* Pull: no answer, another status, no JSON, or the context ends; the zone stays. *)
PullFails ==
    /\ spc = "pull" /\ (origin = None \/ stopped)
    /\ spc' = "wait"
    /\ UNCHANGED <<stub, world, edge, query, sent>>

(* Pull: the snapshot is kept, and LoadSnapshot begins by replacing the zone ... *)
Pull ==
    /\ spc = "pull" /\ origin # None
    /\ last' = origin
    /\ zone' = origin.records
    /\ spc' = "suffixes"
    /\ UNCHANGED <<stub, world, suffixes, packed, query, sent>>

(* Mutant: an empty list of suffixes replaces the list too. *)
MutantReplaceSuffixes ==
    /\ spc = "suffixes"
    /\ suffixes' = last.suffixes
    /\ spc' = "glue"
    /\ UNCHANGED <<stub, world, zone, last, packed, query, sent>>

(* ... and the suffixes, unless the snapshot has none, ... *)
ReplaceSuffixes ==
    /\ spc = "suffixes"
    /\ suffixes' = IF last.suffixes # {} THEN last.suffixes ELSE suffixes
    /\ spc' = "glue"
    /\ UNCHANGED <<stub, world, zone, last, packed, query, sent>>

(* Mutant: only the address of the name server is applied again. *)
MutantReapplyGlue ==
    /\ spc = "glue"
    /\ zone' = Upsert(NSGlue, zone)
    /\ spc' = "pack"
    /\ UNCHANGED <<stub, world, suffixes, last, packed, query, sent>>

(* ... goes on with the local glue, which the snapshot does not overrule, ... *)
ReapplyGlue ==
    /\ spc = "glue"
    /\ zone' = Upsert(TLDGlue, Upsert(NSGlue, zone))
    /\ spc' = "pack"
    /\ UNCHANGED <<stub, world, suffixes, last, packed, query, sent>>

(* ... and ends with loadZonePack, which only logs that it failed. *)
LoadZonePack ==
    /\ spc = "pack"
    /\ LET p == Load(disk)
       IN  /\ packed' = p
           /\ suffixes' = suffixes \cup (IF p = None THEN {} ELSE p.suffixes)
           /\ zone' = IF p = None THEN zone ELSE Upsert(NSGlue, Upsert(p.records, zone))
    /\ spc' = "wait"
    /\ UNCHANGED <<stub, world, last, query, sent>>

(* Run waits for the ticker or for the end of the context. *)
Tick ==
    /\ spc = "wait"
    /\ spc' = "pull" \/ (stopped /\ spc' = "exit")
    /\ UNCHANGED <<stub, world, edge, query, sent>>

Stop ==
    /\ ~stopped /\ stopped' = TRUE
    /\ UNCHANGED <<stub, origin, disk, edge, spc, query, sent>>

(* The origin publishes another zone or stops answering; operators change the pack. *)
OriginChanges(s) ==
    /\ origin' = s
    /\ UNCHANGED <<stub, disk, stopped, edge, spc, query, sent>>

PackChanges(p) ==
    /\ disk' = p
    /\ UNCHANGED <<stub, origin, stopped, edge, spc, query, sent>>

(* config.Validate has found the pack. *)
Init ==
    /\ StartVPIStub
    /\ origin \in Snapshots \cup {None} /\ disk \in Packs \ {None}
    /\ zone = <<>> /\ suffixes = ConfSuffixes /\ last = None /\ packed = None
    /\ spc = "start" /\ stopped = FALSE /\ query = Idle /\ sent = {}

Sync == PullFails \/ Pull \/ ReplaceSuffixes \/ ReapplyGlue \/ LoadZonePack \/ Tick

Next ==
    \/ \E d \in Names : Forward(d) \/ AskEdge(d)
    \/ ExchangeDoH \/ ExchangeUDP \/ IsPrivate \/ Answer \/ Done
    \/ Start \/ PullFails \/ Pull \/ ReplaceSuffixes \/ ReapplyGlue \/ LoadZonePack \/ Tick \/ Stop
    \/ \E s \in Snapshots \cup {None} : OriginChanges(s)
    \/ \E p \in Packs : PackChanges(p)

(* The syncer runs on a ticker. *)
Spec == Init /\ [][Next]_vars /\ WF_vars(Start) /\ WF_vars(Sync)

--------------------------------------------------------------------------------
(* PROPERTIES *)

(* The names a stub must keep private: those some zone of the file matches, and those
   under a suffix the file or the program declares private. *)
Private(name) == matchDNSZone(name, dnsFile.zones) # None \/ isPrivateDNSName(name, cfg)

(* The suffixes every snapshot with a list of its own has in common with the edge's
   configuration. *)
Kept == {s \in ConfSuffixes : \A snap \in Snapshots : snap.suffixes = {} \/ s \in snap.suffixes}

(* A private name is never asked of a public resolver: not by the stub, whatever
   fails, and not by the edge, at whatever point of a synchronisation the query
   comes, unless the origin's own list of suffixes leaves the name out. *)
PrivateStaysPrivate ==
    /\ Private(query.name) => cfg.fallback \notin sent
    /\ RecursiveNS \in sent => \A s \in Kept : ~Under(query.name, s)

(* While no snapshot is being applied the edge serves all of its sources: the name
   server has the edge's address whatever the origin says, its TLDs are delegated,
   every record of the pack that was read is there and its names are private, and
   nothing of the snapshot is missing. *)
EdgeServesAll ==
    spc \in {"pull", "wait", "exit"} =>
        /\ zone[<<NSHost, "A">>] = "vip"
        /\ \A t \in TLDs : <<<<t>>, "NS">> \in DOMAIN zone
        /\ packed # None =>
              /\ packed.suffixes \subseteq suffixes
              /\ \A k \in DOMAIN packed.records \ {<<NSHost, "A">>} : zone[k] = packed.records[k]
        /\ last # None => DOMAIN last.records \subseteq DOMAIN zone

(* A zone that the origin goes on serving reaches the edge and stays, however many
   pulls failed before. *)
EdgeFollowsOrigin ==
    \A s \in Snapshots : <>[](origin = s /\ ~stopped) => <>[](last = s)
================================================================================
