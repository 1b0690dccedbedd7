----------------------------- MODULE Cp3Network -----------------------------
(***************************************************************************)
(* The network of a generated scenario: link parameters, transports, the   *)
(* links between addresses, and which network sees which address.          *)
(***************************************************************************)
EXTENDS Cp3Actors

Ixp == Shared("IXP-DEFAULT-ADDR")
PublicDns == Shared("publicDnsAddr")
PublicNetSrv == Shared("publicResolverNetSrvAddr")

\* Parameters of a link: a network's for TCP, its own for DNS, and those of the way
\* to the DNS network and on.
LinkType(net, kind) == <<net, kind>>
LinkParams(s) ==
    {LinkType(n, kind) : n \in NetNames(s), kind \in {"Tcp", "Dns", "DnsComposed"}}
      \ {LinkType("dns_net", "DnsComposed")}

-----------------------------------------------------------------------------
(* Transports. *)

\* The ends of a covert channel that send over TCP: at the client, at the server.
TcpEnds ==
    {[ch |-> "webtunnel", net |-> "client_net_racetunnel", near |-> "ClientAddr", far |-> "ProxyAddr"],
     [ch |-> "obfs4",     net |-> "client_net_obfs",       near |-> "ClientAddr", far |-> "ServerAddr"],
     [ch |-> "skyhook",   net |-> "client_net_sky",        near |-> "SdkacAddr",  far |-> "SdkasAddr"],
     [ch |-> "mastodon",  net |-> "client_net_mastodon",   near |-> "McacAddr",   far |-> "McasAddr"]}

\* The end of a generator that sends over TCP.
TgenEnd(t) == OfTgen(t, CASE t.type = "masTgen" -> "McAddr"
                          [] t.type = "minTgen" -> "S3ClAddr" [] OTHER -> "TgAddr")
TcpTgens(s) == TgensOf(s, TgenTypes \ {"dnsTgen"})

TcpAddrs(s) ==
    (UNION {{OfClient(e.ch, i, role) : i \in Range(ClientIds(s, e.ch)), role \in {e.near, e.far}} : e \in TcpEnds})
      \cup {S3Srv, Mastodon, Irc, Shared("ftpSrvAddr"), Shared("gorillaSrvAddr")}
      \cup {OfTgen(t, "TgAddr") : t \in TcpTgens(s)} \cup {TgenEnd(t) : t \in TcpTgens(s)}

UdpAddrs(s) ==
    {PublicDns} \cup {Shared(r.dns) : r \in Resolvers}
      \cup {OfClient("iodine", i, role) : i \in Range(ClientIds(s, "iodine")), role \in {"ServerAddr", "NetServerAddr"}}

-----------------------------------------------------------------------------
(* Links.  A call enters links, and who sees an address: its network, or for a *)
(* link that spans two, the source network the one and dns_net the other end.   *)

\* Mutation: only the way there.
add_bidir_link_oneway(a, b, kind, net) ==
    [links |-> {<<a, b, LinkType(net, kind)>>},
     seen |-> {[net |-> net, addr |-> a], [net |-> "dns_net", addr |-> b]}]

add_bidir_link(a, b, kind, net) ==
    [links |-> {<<a, b, LinkType(net, kind)>>, <<b, a, LinkType(net, kind)>>},
     seen |-> {[net |-> net, addr |-> a], [net |-> "dns_net", addr |-> b]}]
add_bidir_ixp(a, kind, net) ==
    [links |-> {<<a, Ixp, LinkType(net, kind)>>, <<Ixp, a, LinkType(net, kind)>>},
     seen |-> {[net |-> net, addr |-> a]}]

\* A network's resolver reaches the public one, and so does its network client.
ResolverLinks(r) ==
    {add_bidir_ixp(Shared(r.dns), "Dns", r.net),
     add_bidir_link(Shared(r.cl), PublicNetSrv, "DnsComposed", r.net),
     add_bidir_link(Shared(r.cl), PublicDns, "DnsComposed", r.net),
     add_bidir_link(Shared(r.dns), PublicDns, "DnsComposed", r.net)}
      \cup (IF r.net = "server_net" THEN {} ELSE {add_bidir_ixp(Shared(r.cl), "Dns", r.net)})

\* Both ends of a client, where its network is part of the scenario.
ClientLinks(s, e) ==
    UNION {{add_bidir_ixp(OfClient(e.ch, i, e.near), "Tcp", e.net),
            add_bidir_ixp(OfClient(e.ch, i, e.far), "Tcp", "server_net")} : i \in Range(ClientIds(s, e.ch))}

IodineLinks(s) ==
    UNION {LET R(role) == OfClient("iodine", i, role)
           IN {add_bidir_ixp(R("ServerAddr"), "Dns", "server_net"),
               add_bidir_ixp(R("SrvNetSrvAddr"), "Dns", "server_net"),
               add_bidir_ixp(R("SrvNetClAddr"), "Dns", "dns_net"),
               add_bidir_link(R("SrvNetClAddr"), R("SrvNetSrvAddr"), "DnsComposed", "server_net"),
               add_bidir_link(R("ServerAddr"), PublicDns, "DnsComposed", "server_net")} :
           i \in Range(ClientIds(s, "iodine"))}

\* Servers stand in their own networks (the Mastodon server's is entered with the
\* Mastodon clients' network); generators where the scenario puts them.
ServerLinks(s) ==
    {add_bidir_ixp(S3Srv, "Tcp", "minio_net"), add_bidir_ixp(PublicDns, "Dns", "dns_net")}
      \cup {add_bidir_ixp(a, "Tcp", "server_net") : a \in {Irc, Shared("ftpSrvAddr"), Shared("gorillaSrvAddr")}}
      \cup (IF {"client_net_mastodon", "mastodon_net"} \subseteq NetNames(s)
            THEN {add_bidir_ixp(Mastodon, "Tcp", "mastodon_net")} ELSE {})
TgenLinks(s) == {add_bidir_ixp(TgenEnd(t), "Tcp", t.net) : t \in TcpTgens(s)}

LinkCalls(s) ==
    (UNION {ResolverLinks(r) : r \in {q \in Resolvers : q.net \in NetNames(s) \cup {"server_net"}}})
      \cup (UNION {ClientLinks(s, e) : e \in {f \in TcpEnds : f.net \in NetNames(s)}})
      \cup (IF "client_net_iodine" \in NetNames(s) THEN IodineLinks(s) ELSE {})
      \cup ServerLinks(s) \cup TgenLinks(s)

visibilityMap(s) ==
    {v \in UNION {c.seen : c \in LinkCalls(s)} : v.net \in NetNames(s)}
=============================================================================
