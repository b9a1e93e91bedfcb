------------------------------- MODULE MCServices -------------------------------
(* Small instances of the services, for TLC. *)
EXTENDS Services, TLC

CONSTANTS p1, p2, m1, m2, b1, b2, b3, t1, t2

(* Two publishers; their images share a layer and have tags of their own. *)
MCImages == {m1, m2}
MCBlobs == {b1, b2, b3}
MCTags == {t1, t2}
MCPublishers == {p1, p2}
MCBlobsOf == [m \in MCImages |-> IF m = m1 THEN <<b1, b2>> ELSE <<b3, b2>>]
MCTagOf == [m \in MCImages |-> IF m = m1 THEN t1 ELSE t2]
MCProducts == [p \in MCPublishers |-> IF p = p1 THEN {m1} ELSE {m2}]

(* Five files for one stack: catalog ports; moved ports and an overridden link; a
   per-barge file with an alias, a duplicate and a disabled entry; an unknown
   product; a smaller stack that is cleaned up, with the products that are not told
   their ports. *)
E(nm) == [name |-> nm, file |-> None, port |-> None, tag |-> None, image |-> None,
         replicas |-> None, config |-> None, env |-> <<>>, disabled |-> FALSE]
File(entries, cleanup) == [entries |-> entries, tag |-> "latest", cleanup |-> cleanup]
MCStackFiles ==
    {File(<<E("williwaw"), E("social"), E("ack"), E("ultimate_db")>>, FALSE),
     File(<<[E("social") EXCEPT !.port = 4000, !.config = "cfg1"],
            [E("williwaw") EXCEPT !.env = [ack |-> 5000], !.replicas = 2],
            [E("udb") EXCEPT !.port = 4001]>>, TRUE),
     File(<<[E("ack") EXCEPT !.file = [E("defcon") EXCEPT !.port = 4002, !.env = [social |-> 5001]]],
            E("engine"), [E("social") EXCEPT !.disabled = TRUE],
            [E("defcon") EXCEPT !.port = 4003], [E("cdn") EXCEPT !.port = 0, !.config = "cfg2"]>>, FALSE),
     File(<<[E("williwaw") EXCEPT !.tag = "v2"], E("nosuch")>>, FALSE),
     File(<<[E("williwaw") EXCEPT !.image = "own", !.port = 4004], [E("services") EXCEPT !.port = 4005],
            E("anycast")>>, TRUE)}

(* A product with a www entry of its own, and a domain that only a cutover or an
   edit adds; a primary and a standby upstream. *)
Line(d, u) == [domain |-> d, upstream |-> u]
MCWww == [d \in {"app"} |-> "www.app"]
MCCutovers == {Line("app", "standby"), Line("new", "primary")}
MCVHostFiles == {<<Line("app", "primary"), Line("www.app", "primary")>>,
               <<Line("new", "unusable"), Line("app", "standby")>>}

(* A corporate zone that the edge serves too, with a wildcard and a suffix that have
   no resolver of their own; a file with defaults and private labels; one that does
   not validate. The origin's zones: one that claims the name server and lists no
   suffixes, one with a longer list. A pack file, a directory, one with a bad file. *)
ZoneOf(tld, ds, doh, udp) == [tld |-> tld, domains |-> ds, doh |-> doh, upstream |-> udp]
DnsFileOf(zs, doh, udp, fb, tlds) ==
    [zones |-> zs, defaultDoH |-> doh, defaultUpstream |-> udp, fallback |-> fb, privateTLDs |-> tlds]
MCDNSFiles ==
    {DnsFileOf(<<ZoneOf(<<"corp">>, {}, "doh.corp", "edge"),
                 ZoneOf(<<>>, {[wild |-> TRUE, suffix |-> <<"corp", "lab">>],
                               [wild |-> FALSE, suffix |-> <<"net", "svc">>]}, None, None)>>,
               None, None, None, {}),
     DnsFileOf(<<ZoneOf(<<"tunnel">>, {[wild |-> FALSE, suffix |-> <<"tunnel", "app">>]}, None, "edge"),
                 ZoneOf(<<"net">>, {}, None, None)>>,
               "doh.default", None, "doh.public", {<<"priv">>}),
     DnsFileOf(<<ZoneOf(<<>>, {}, "doh.corp", None)>>, None, "edge", None, {})}
MCDoHURLs == {"doh.public"}
MCMeshTLD == <<"grid">>
MCConfSuffixes == {<<"tunnel">>, <<"mesh">>}
MCTLDs == {"tunnel"}
MCZone == <<"tunnel", "tt">>
App == <<"tunnel", "app">>
MCNSHost == <<"tunnel", "tt", "ns">>
Shop == <<"com", "shop">>
MCNames == {App, Shop, <<"corp", "lab", "x">>, <<"net", "svc">>, <<"priv", "y">>, <<"grid", "z">>}
Rec(d, v) == [key \in {<<d, "A">>} |-> v]
MCSnapshots == {[records |-> Rec(App, "o1") @@ Rec(MCNSHost, "o1"), suffixes |-> {}],
                [records |-> Rec(App, "o2"), suffixes |-> {<<"tunnel">>, <<"corp">>}]}
PackPart(recs) == [records |-> recs, suffixes |-> {<<"com">>}]
MCPacks == {None,
              [dir |-> FALSE, parts |-> <<PackPart(Rec(Shop, "vip"))>>],
              [dir |-> TRUE, parts |-> <<PackPart(Rec(App, "p1")), PackPart(Rec(App, "p2") @@ Rec(MCNSHost, "p2"))>>],
              [dir |-> TRUE, parts |-> <<PackPart(Rec(Shop, "vip")), None>>]}

(* The instances meet the conditions of the theorems of ServicesProofs. *)
ASSUME ConditionsAssumption == VH!UsableCutovers /\ DNS!ResolversApart
================================================================================
