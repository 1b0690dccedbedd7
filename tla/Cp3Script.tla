------------------------------ MODULE Cp3Script ------------------------------
(***************************************************************************)
(* What the two generators write for a scenario.  The stand-alone script   *)
(* is an older copy of the generator: it writes the same sections, with a  *)
(* monitor for Iodine more, and with other names and places for the action *)
(* models and other names for Skyhook's first objects.                     *)
(***************************************************************************)
EXTENDS Cp3Network

-----------------------------------------------------------------------------
(* Skyhook: the client fetches from one bucket and posts to the other, and the *)
(* account holder the other way round; each names the object it begins with.    *)
(* An object is named by its generation, or after its bucket.                   *)

\* The library's sha256: the next generation; of no other name it is defined.
NextObject(id) == IF id[1] = "generation" THEN <<"generation", id[2] + 1>> ELSE <<"sha256", id>>

SkyhookObjects ==
    [clientFetch |-> <<"generation", 0>>, clientPost |-> <<"generation", 1>>,
     serverFetch |-> <<"generation", 0>>, serverPost |-> <<"generation", 0>>]
ScriptSkyhookObjects ==
    [clientFetch |-> <<"s_to_c">>, clientPost |-> <<"c_to_s-hash">>,
     serverFetch |-> <<"c_to_s">>, serverPost |-> <<"s_to_c">>]

\* The account holder prepares the objects that follow its first one, and the client
\* posts to one of them; the client fetches what the account holder posts first.
SkyhookEndsMeet(objects) ==
    /\ objects.clientPost = NextObject(objects.serverFetch)
    /\ objects.clientFetch = objects.serverPost

-----------------------------------------------------------------------------
(* Sections of the script. *)

ScriptAddressesFile(s) == <<{Shared("iodineMonitorAddr")}>> \o gen_addresses_file(s)

\* It knows no loss profile "none".
ScriptLossProfile(s, name) == name \in s.lossFiles

\* Models of the DNS and Mastodon generators come from the library; the others from the
\* scenario's directory.
ScriptModelFile(m) ==
    CASE m[1] = "dns-tgen"      -> [dir |-> <<"lib", "dns">>, stem |-> <<"config", m[2]>>]
      [] m[1] = "mastodon-tgen" -> [dir |-> <<"lib", "mastodon">>, stem |-> <<"config", m[2]>>]
      [] OTHER -> ModelFile(m)
ScriptLoads(s) == {ScriptModelFile(m) : m \in ModelFiles(s)}

\* A channel's module bears the name of its file alone.
ScriptModule(s, m) ==
    CASE m[1] \in Channels      -> [name |-> m, version |-> 1]
      [] m[1] = "dns-tgen"      -> [name |-> <<"dns", "config", m[2]>>, version |-> 1]
      [] m[1] = "mastodon-tgen" -> [name |-> <<"mastodon", "config", m[2]>>, version |-> 1]
      [] OTHER -> ModelModule(s, m)
ScriptIncludes(s) == {ScriptModule(s, m) : m \in ModelFiles(s)}
ScriptMAModelMap(s) == {m \in ModelFiles(s) : ScriptModule(s, m).version = 2}

\* Names that zones and the public resolver's cache resolve.
ScriptResolvedAddrs(s) ==
    {Shared(a) : a \in {"rootDnsAddr", "tldDnsAddr", "authDnsAddr", "masSrvAddr"} \cup {r.dns : r \in Resolvers}}
      \cup {OfClient("iodine", i, "SrvNetClAddr") : i \in Range(ClientIds(s, "iodine"))}

ScriptLinkParams(s) ==
    UNION {{LinkType(n, "Tcp"), LinkType(n, "Dns")} \cup
             (IF n = "dns_net" THEN {} ELSE {LinkType(n, "DnsComposed")}) : n \in NetNames(s)}

\* Transports, resolvers and startup timers are the generator's.
ScriptTcpAddrs(s) == TcpAddrs(s)
ScriptUdpAddrs(s) == UdpAddrs(s)
ScriptDns == DnsActors
ScriptStartupTimers(s, notgens) == StartupTimers(s, notgens)

\* Links of the client networks, with their resolvers and the clients' far ends, and of
\* the servers and generators.
ScriptClientLinks(s) ==
    (UNION {ResolverLinks(r) \cup (UNION {ClientLinks(s, e) : e \in {f \in TcpEnds : f.net = r.net}}) :
              r \in {q \in Resolvers : q.net \in NetNames(s) \cap ClientNets}})
      \cup (IF "client_net_iodine" \in NetNames(s) THEN IodineLinks(s) ELSE {})
ScriptServerLinks(s) ==
    (UNION {ResolverLinks(r) : r \in {q \in Resolvers : q.net = "server_net"}})
      \cup ServerLinks(s) \cup TgenLinks(s)
ScriptLinkCalls(s) == ScriptClientLinks(s) \cup ScriptServerLinks(s)

\* A network in which nothing is seen is left out.
ScriptVisibilityMap(s) ==
    {v \in UNION {c.seen : c \in ScriptLinkCalls(s)} : v.net \in NetNames(s)}

\* Actors.
ScriptClients(s) == UNION {ChannelActors(s, ch) : ch \in Channels}
ScriptBase == BaseActors \cup {Actor(Shared("iodineMonitor"), Shared("iodineMonitorAddr"), {}, NoModel)}
ScriptTgens(s) == TgenServerActors(s) \cup UNION {TgenActors(t) : t \in Tgens(s)}
ScriptInitState(s) == initState(s) \cup {Shared("iodineMonitor")}

-----------------------------------------------------------------------------
(* A main file and its addresses: what each tool writes. *)

GenOutput(s) ==
    [declared |-> gen_addresses_file(s), loads |-> {ModelFile(m) : m \in ModelFiles(s)},
     includes |-> {ModelModule(s, m) : m \in ModelFiles(s)},
     uses |-> [m \in {a.model : a \in DefinedActors(s)} \ {NoModel} |-> ModelModule(s, m)],
     map |-> MAModelMap(s), resolved |-> ResolvedAddrs(s), params |-> LinkParams(s),
     tcp |-> TcpAddrs(s), udp |-> UdpAddrs(s), calls |-> LinkCalls(s), seen |-> visibilityMap(s),
     defined |-> DefinedActors(s), names |-> initState(s),
     timers |-> [notgens \in BOOLEAN |-> StartupTimers(s, notgens)], objects |-> SkyhookObjects]
ScriptOutput(s) ==
    LET actors == ScriptClients(s) \cup ScriptBase \cup ScriptDns \cup ScriptTgens(s)
    IN [declared |-> ScriptAddressesFile(s), loads |-> ScriptLoads(s), includes |-> ScriptIncludes(s),
        uses |-> [m \in {a.model : a \in actors} \ {NoModel} |-> ScriptModule(s, m)],
        map |-> ScriptMAModelMap(s), resolved |-> ScriptResolvedAddrs(s), params |-> ScriptLinkParams(s),
        tcp |-> ScriptTcpAddrs(s), udp |-> ScriptUdpAddrs(s), calls |-> ScriptLinkCalls(s),
        seen |-> ScriptVisibilityMap(s), defined |-> actors, names |-> ScriptInitState(s),
        timers |-> [notgens \in BOOLEAN |-> ScriptStartupTimers(s, notgens)], objects |-> ScriptSkyhookObjects]
Output(tool, s) == IF tool = "generate" THEN GenOutput(s) ELSE ScriptOutput(s)

\* The actors of an initial state.
PlacedBy(out) == {a \in out.defined : a.name \in out.names}
=============================================================================
