----------------------------- MODULE Cp3Actors -----------------------------
(***************************************************************************)
(* The actors of a generated scenario: which are defined, at which address *)
(* and with which addresses and action models, which the initial state     *)
(* places, and the timers that set them going.                             *)
(***************************************************************************)
EXTENDS Cp3Scenario

\* An actor: its name, its address, the addresses it is given, the action model it
\* runs (<<>> for none), and for a network client the two ends whose traffic it
\* carries and the resolver with which it finds the server.
Actor(name, at, refs, model) ==
    [name |-> name, at |-> at, refs |-> refs, model |-> model, carries |-> {}]
NoModel == <<>>
NetClient(name, at, server, client, dns) ==
    [Actor(name, at, {server, client} \cup dns, NoModel) EXCEPT
        !.carries = {[server |-> server, client |-> client, dns |-> dns]}]

-----------------------------------------------------------------------------
(* Covert clients.  An actor's name is that of its owner and a role. *)

Irc == Shared("ircServerAddr")
Mastodon == Shared("masSrvAddr")
S3Srv == Shared("s3SrvAddr")

\* The actors every channel has: IRC client and user, and an interface at each end.
IrcSide(ch, i, profile, down, up) ==
    LET R(role) == OfClient(ch, i, role)
    IN {Actor(R("Irc"), R("IrcAddr"), {R("IfaceAddr")}, NoModel),
        Actor(R("Um"), R("UmAddr"), {R("IrcAddr"), Irc, R("SrvIfaceAddr")}, <<"irc", profile>>),
        Actor(R("Iface"), R("IfaceAddr"), {R("IrcAddr"), R(down)}, NoModel),
        Actor(R("SrvIface"), R("SrvIfaceAddr"), {Irc, R(up)}, NoModel)}

WebtunnelClient(i, profile) ==
    LET R(role) == OfClient("webtunnel", i, role)
    IN IrcSide("webtunnel", i, profile, "ClientAddr", "ProxyAddr") \cup
       {Actor(R("Client"), R("ClientAddr"), {R("ProxyAddr"), Irc, R("IfaceAddr")}, NoModel),
        Actor(R("Proxy"), R("ProxyAddr"), {R("SrvIfaceAddr")}, NoModel),
        NetClient(R("NetClient"), R("NetClientAddr"), R("ProxyAddr"), R("ClientAddr"), {Shared("corpRtDnsAddr")}),
        Actor(R("NetServer"), R("NetServerAddr"), {R("ProxyAddr")}, NoModel)}

SkyhookClient(i, profile) ==
    LET R(role) == OfClient("skyhook", i, role)
    IN IrcSide("skyhook", i, profile, "CmacAddr", "CmasAddr") \cup
       {Actor(R("UmacAct"), R("UmacAddr"), {R("CmacAddr")}, <<"skyhook", "client">>),
        Actor(R("CmacAct"), R("CmacAddr"), {R("IfaceAddr"), R("PuaAddr")}, NoModel),
        Actor(R("PuaAct"), R("PuaAddr"), {R("CmacAddr"), R("SdkacAddr")}, NoModel),
        Actor(R("SdkacAct"), R("SdkacAddr"), {S3Srv}, NoModel),
        Actor(R("UmasAct"), R("UmasAddr"), {R("CmasAddr")}, <<"skyhook", "server">>),
        Actor(R("CmasAct"), R("CmasAddr"), {R("SrvIfaceAddr"), R("AhaAddr")}, NoModel),
        Actor(R("AhaAct"), R("AhaAddr"), {R("CmasAddr"), R("SdkasAddr")}, NoModel),
        Actor(R("SdkasAct"), R("SdkasAddr"), {S3Srv}, NoModel),
        NetClient(R("ClNet"), R("ClNetAddr"), S3Srv, R("SdkacAddr"), {Shared("corpSkyDnsAddr")}),
        Actor(R("NetSrv"), R("NetSrvAddr"), {S3Srv}, NoModel),
        NetClient(R("SrvNetCl"), R("SrvNetClAddr"), S3Srv, R("SdkasAddr"), {Shared("servDnsAddr")})}

Obfs4Client(i, profile) ==
    LET R(role) == OfClient("obfs4", i, role)
    IN IrcSide("obfs4", i, profile, "ClientAddr", "ServerAddr") \cup
       {Actor(R("Cl"), R("ClientAddr"), {R("IfaceAddr"), R("ServerAddr")}, NoModel),
        Actor(R("Srv"), R("ServerAddr"), {R("SrvIfaceAddr"), R("ClientAddr")}, NoModel),
        NetClient(R("NetCl"), R("NetClientAddr"), R("ServerAddr"), R("ClientAddr"), {Shared("corpObfsDnsAddr")}),
        Actor(R("NetSrv"), R("NetServerAddr"), {R("ServerAddr")}, NoModel)}

IodineClient(i, profile) ==
    LET R(role) == OfClient("iodine", i, role)
    IN IrcSide("iodine", i, profile, "SendAppAddr", "RcvAppAddr") \cup
       {Actor(R("SendApp"), R("SendAppAddr"), {R("RcvAppAddr"), R("IfaceAddr"), R("ClientAddr")}, NoModel),
        Actor(R("RcvApp"), R("RcvAppAddr"), {R("SendAppAddr"), R("SrvIfaceAddr"), R("ServerAddr")}, NoModel),
        Actor(R("Cl"), R("ClientAddr"), {Shared("corpIodDnsAddr")}, NoModel),
        Actor(R("Srv"), R("ServerAddr"), {}, NoModel),
        Actor(R("SrvNetSrv"), R("SrvNetSrvAddr"), {R("ServerAddr")}, NoModel),
        Actor(R("SrvNetCl"), R("SrvNetClAddr"), {R("SrvNetSrvAddr"), R("ServerAddr"),
              Shared("publicDnsAddr")}, NoModel)}

MastodonClient(i, profile) ==
    LET R(role) == OfClient("mastodon", i, role)
    IN IrcSide("mastodon", i, profile, "CmacAddr", "CmasAddr") \cup
       {Actor(R("UmacAct"), R("UmacAddr"), {R("CmacAddr")}, <<"mastodon", "client">>),
        Actor(R("CmacAct"), R("CmacAddr"), {R("EdacAddr"), R("McacAddr"), R("IfaceAddr")}, NoModel),
        Actor(R("McacAct"), R("McacAddr"), {Mastodon, R("CmacAddr")}, NoModel),
        Actor(R("EdacAct"), R("EdacAddr"), {}, NoModel),
        Actor(R("UmasAct"), R("UmasAddr"), {R("CmasAddr")}, <<"mastodon", "server">>),
        Actor(R("CmasAct"), R("CmasAddr"), {R("EdasAddr"), R("McasAddr"), R("SrvIfaceAddr")}, NoModel),
        Actor(R("McasAct"), R("McasAddr"), {Mastodon, R("CmasAddr")}, NoModel),
        Actor(R("EdasAct"), R("EdasAddr"), {}, NoModel),
        NetClient(R("ClNet"), R("ClNetAddr"), Mastodon, R("McacAddr"), {Shared("corpMasDnsAddr")}),
        NetClient(R("SrvNetCl"), R("SrvNetClAddr"), Mastodon, R("McasAddr"), {Shared("servDnsAddr")})}

ChannelActors(s, ch) ==
    UNION {LET profile == ClientProfile(s, ch, i)
           IN CASE ch = "webtunnel" -> WebtunnelClient(i, profile)
                [] ch = "skyhook"   -> SkyhookClient(i, profile)
                [] ch = "obfs4"     -> Obfs4Client(i, profile)
                [] ch = "iodine"    -> IodineClient(i, profile)
                [] ch = "mastodon"  -> MastodonClient(i, profile) : i \in Range(ClientIds(s, ch))}

-----------------------------------------------------------------------------
(* Shared actors, named by their role. *)

BaseActors ==
    {Actor(Shared("ircServer"), Irc, {}, NoModel),
     Actor(Shared("s3SrvAct"), S3Srv, {}, NoModel),
     Actor(Shared("masSrvAct"), Mastodon, {}, NoModel),
     Actor(Shared("masNetSrv"), Shared("masNetSrvAddr"), {Mastodon}, NoModel),
     Actor(Shared("advActor"), Shared("advAddr"), {}, NoModel)}

\* Every network has a resolver that asks the public one through its network client.
DnsActors ==
    {Actor(Shared(r.dns), Shared(r.dns), {Shared(r.cl)}, NoModel) : r \in Resolvers} \cup
    {Actor(Shared(r.cl), Shared(r.cl), {Shared("publicResolverNetSrvAddr"),
           Shared("publicDnsAddr"), Shared(r.dns)}, NoModel) : r \in Resolvers} \cup
    {Actor(Shared(z), Shared(z), {}, NoModel) :
           z \in {"publicDnsAddr", "rootDnsAddr", "tldDnsAddr", "authDnsAddr"}} \cup
    {Actor(Shared("publicResolverNetSrvAddr"), Shared("publicResolverNetSrvAddr"),
           {Shared("publicDnsAddr")}, NoModel)}

\* Addresses that zones and the resolver's cache resolve names to.
ResolvedAddrs(s) ==
    {Shared(z) : z \in {"rootDnsAddr", "tldDnsAddr", "authDnsAddr", "masSrvAddr"}}
      \cup {Shared(r.dns) : r \in Resolvers}
      \cup {OfClient("iodine", i, "SrvNetClAddr") : i \in Range(ClientIds(s, "iodine"))}

TgenServerActors(s) ==
    {Actor(Shared("ftpSrvAct"), Shared("ftpSrvAddr"), {}, NoModel),
     Actor(Shared("ftpNetSrvAct"), Shared("ftpNetSrvAddr"), {Shared("ftpSrvAddr")}, NoModel),
     Actor(Shared("gorillaSrvAct"), Shared("gorillaSrvAddr"),
           {OfTgen(t, "TgAddr") : t \in TgensOf(s, {"gorTgen"})}, NoModel),
     Actor(Shared("gorillaNetSrvAct"), Shared("gorillaNetSrvAddr"), {Shared("gorillaSrvAddr")}, NoModel),
     Actor(Shared("ircTgenSrvNet"), Shared("ircTgenSrvNetAddr"), {Irc}, NoModel)}

-----------------------------------------------------------------------------
(* Traffic generators: the generator, its user model, its network client. *)

TgenModel(t) ==
    <<CASE t.type = "masTgen" -> "mastodon-tgen" [] t.type = "ftpTgen" -> "ftp-tgen"
        [] t.type = "dnsTgen" -> "dns-tgen"      [] t.type = "minTgen" -> "minio-tgen"
        [] t.type = "gorTgen" -> "gorilla-tgen"  [] t.type = "ircTgen" -> "irc-tgen",
      t.profile>>

TgenActors(t) ==
    LET R(role) == OfTgen(t, role)
        dns == {Shared(d) : d \in ResolverOf(t.net)}
        Um(refs) == Actor(R("UmAct"), R("UmAddr"), {R("TgAddr")} \cup refs, TgenModel(t))
        Tg(refs, model) == Actor(R("Act"), R("TgAddr"), refs, model)
        Net(server, client, resolver) ==
            NetClient(R("NetClAct"), R("NetClAddr"), server, R(client), resolver)
    IN CASE t.type = "ftpTgen" ->
              {Tg({Shared("ftpSrvAddr")}, TgenModel(t)), Um({}), Net(Shared("ftpSrvAddr"), "TgAddr", dns)}
         [] t.type = "gorTgen" ->
              {Tg({Shared("gorillaSrvAddr")}, NoModel), Um({}), Net(Shared("gorillaSrvAddr"), "TgAddr", dns)}
         [] t.type = "minTgen" ->
              {Tg({R("S3ClAddr")}, NoModel), Um({}), Net(S3Srv, "S3ClAddr", dns),
               Actor(R("S3ClAct"), R("S3ClAddr"), {S3Srv}, NoModel)}
         [] t.type = "dnsTgen" ->
              {Tg(IF dns = {} THEN {Shared("publicDnsAddr")} ELSE dns, NoModel), Um({})}
         [] t.type = "masTgen" ->
              {Tg({R("McAddr")}, TgenModel(t)), Um({}), Net(Mastodon, "McAddr", dns),
               Actor(R("McAct"), R("McAddr"), {Mastodon, R("TgAddr")}, NoModel)}
         [] t.type = "ircTgen" ->
              {Tg({Irc}, NoModel), Um({Irc}), Net(Irc, "TgAddr", {})}

DefinedActors(s) ==
    BaseActors \cup DnsActors \cup TgenServerActors(s)
      \cup (UNION {ChannelActors(s, ch) : ch \in Channels}) \cup (UNION {TgenActors(t) : t \in Tgens(s)})

-----------------------------------------------------------------------------
(* Action models: what the main file loads, and the map of the second version. *)

ModelFiles(s) ==
    {<<"irc", p.name>> : p \in UNION {Range(LastNode(s, n.channel).profs) : n \in Range(s.nodes)}}
      \cup {TgenModel(t) : t \in Tgens(s)}
      \cup (hcs_channel_models(s) \cap {"skyhook", "mastodon"}) \X {"client", "server"}
MAModelMap(s) ==
    {m \in ModelFiles(s) :
        m[1] \in {"irc", "irc-tgen", "ftp-tgen", "minio-tgen", "gorilla-tgen"}}

\* A model's file: its directory, and its name as the words of it.  A channel's model
\* bears the channel's name.
ModelFile(m) ==
    CASE m[1] \in Channels -> [dir |-> <<"action_models", m[1]>>, stem |-> m]
      [] m[1] = "irc"      -> [dir |-> <<"user_models", "irc">>, stem |-> <<m[2]>>]
      [] OTHER             -> [dir |-> <<"tgen_user_models", m[1]>>, stem |-> <<m[2]>>]

\* The Maude module the main file includes for a model, and actors use: its name, as
\* words, and the version of its format.
ModelModule(s, m) ==
    [name |-> <<m[1]>> \o ModelFile(m).stem, version |-> IF m \in MAModelMap(s) THEN 2 ELSE 1]

-----------------------------------------------------------------------------
(* The initial state.  It lists its actors by name, in an order of its own. *)

IrcSideNames == {"Irc", "Um", "Iface", "SrvIface"}
PlacedNames ==
    [webtunnel |-> IrcSideNames \cup {"Client", "Proxy", "NetClient", "NetServer"},
     skyhook |-> IrcSideNames \cup {"UmacAct", "CmacAct", "PuaAct", "SdkacAct", "UmasAct",
                 "CmasAct", "AhaAct", "SdkasAct", "ClNet", "NetSrv", "SrvNetCl"},
     obfs4 |-> IrcSideNames \cup {"Cl", "Srv", "NetCl", "NetSrv"},
     iodine |-> IrcSideNames \cup {"SendApp", "RcvApp", "Cl", "Srv", "SrvNetSrv", "SrvNetCl"},
     mastodon |-> IrcSideNames \cup {"UmacAct", "CmacAct", "McacAct", "EdacAct", "UmasAct",
                  "CmasAct", "McasAct", "EdasAct", "ClNet", "SrvNetCl"},
     masTgen |-> {"UmAct", "Act", "McAct", "NetClAct"}, ftpTgen |-> {"UmAct", "Act", "NetClAct"},
     dnsTgen |-> {"UmAct", "Act"}, minTgen |-> {"UmAct", "Act", "S3ClAct", "NetClAct"},
     gorTgen |-> {"UmAct", "Act", "NetClAct"}, ircTgen |-> {"UmAct", "Act", "NetClAct"}]

SharedPlaced ==
    {"ircServer", "s3SrvAct", "masSrvAct", "advActor", "publicDnsAddr", "rootDnsAddr",
     "tldDnsAddr", "authDnsAddr", "publicResolverNetSrvAddr", "ftpSrvAct", "ftpNetSrvAct",
     "gorillaSrvAct", "gorillaNetSrvAct", "ircTgenSrvNet"}
        \cup {r.dns : r \in Resolvers} \cup {r.cl : r \in Resolvers}

\* The Mastodon server's network actor comes with the Mastodon clients.
initState(s) ==
    {Shared(name) : name \in SharedPlaced}
      \cup (IF ClientIds(s, "mastodon") = <<>> THEN {} ELSE {Shared("masNetSrv")})
      \cup (UNION {{OfClient(ch, i, name) : name \in PlacedNames[ch], i \in Range(ClientIds(s, ch))} :
                      ch \in Channels})
      \cup (UNION {{OfTgen(t, name) : name \in PlacedNames[t.type]} : t \in Tgens(s)})

-----------------------------------------------------------------------------
(* Startup: a timer has an addressee, a message, the delay it adds to ("hcs",     *)
(* "tgen" or "window") and the seconds it adds; its place is its random stream.    *)

Timer(to, msg, base, plus) == [to |-> to, msg |-> msg, base |-> base, plus |-> plus]

ClientTimers(ch, i) ==
    LET Start(role, msg) == Timer(OfClient(ch, i, role), msg, "hcs", 0)
        User == <<Timer(OfClient(ch, i, "UmAddr"), "burstDelayTO", "hcs", 10)>>
    IN CASE ch = "skyhook" -> <<Start("AhaAddr", "SkyhookStartCmd"), Start("UmacAddr", "actionR"),
                                Start("UmasAddr", "actionR")>> \o User
         [] ch = "webtunnel" -> <<Start("ClientAddr", "WtStartCmd")>> \o User
         [] ch = "iodine" -> <<Start("SendAppAddr", "start"), Start("RcvAppAddr", "start")>> \o User
         [] ch = "mastodon" -> <<Start("UmacAddr", "actionR"), Start("UmasAddr", "actionR")>> \o User
         [] ch = "obfs4" -> User

\* Mutation: the DNS generator is started like those of the second version.
TgenTimerDnsV2(t) ==
    Timer(OfTgen(t, "UmAddr"), IF t.type = "masTgen" THEN "actionR" ELSE "burstDelayTO", "tgen", 0)

\* User models of the first version wait for an answer, those of the second for a timeout.
TgenTimer(t) ==
    Timer(OfTgen(t, "UmAddr"),
          IF t.type \in {"masTgen", "dnsTgen"} THEN "actionR" ELSE "burstDelayTO", "tgen", 0)

\* The monitor, which is left out for performance measures, opens its windows then.
Monitor == Shared("baseLineAddr")
Monitors(perf) == IF perf THEN {} ELSE {Monitor}

StartupTimers(s, notgens) ==
    LET Of(ch) == FlattenSeq([k \in DOMAIN ClientIds(s, ch) |-> ClientTimers(ch, ClientIds(s, ch)[k])])
        tgens == generate_all_tgen_instances(s)
    IN Of("skyhook") \o Of("webtunnel") \o Of("iodine") \o Of("mastodon") \o Of("obfs4")
         \o (IF notgens THEN <<>> ELSE [k \in DOMAIN tgens |-> TgenTimer(tgens[k])])
         \o <<Timer(Monitor, "initKs", "window", 0)>>

\* The clients whose integrity is measured.
get_client_lst(s) ==
    UNION {{OfClient(ch, i, "IrcAddr") : i \in Range(ClientIds(s, ch))} : ch \in Channels}
=============================================================================
