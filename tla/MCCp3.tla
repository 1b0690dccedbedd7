------------------------------- MODULE MCCp3 -------------------------------
EXTENDS Cp3Results

Net(name, latency) == [name |-> name, latency |-> latency, loss |-> "good", symmetric |-> TRUE]
P(name, share) == [name |-> name, share |-> share]
Quarter == <<P("light", 25), P("medium", 50), P("heavy", 25)>>
Half == <<P("light", 50), P("heavy", 50)>>
Node(channel, net, qty, profs) ==
    [channel |-> channel, net |-> net, qty |-> qty, profs |-> profs, models |-> channel \in {"skyhook", "mastodon"}]
Tg(type, net) == [type |-> type, net |-> net, qty |-> 4, profs |-> Quarter]
Yaml(nets, nodes, tgens) ==
    [nets |-> nets, lossFiles |-> {"good"}, nodes |-> nodes, tgens |-> tgens, duration |-> 60, window |-> 15]

AllNets ==
    <<Net("client_net_mastodon", 30), Net("client_net_racetunnel", 20), Net("client_net_iodine", 20),
      Net("client_net_obfs", 25), Net("client_net_sky", 25), Net("server_net", 10), Net("minio_net", 10),
      Net("mastodon_net", 15), Net("dns_net", 5)>>
AllNodes ==
    <<Node("webtunnel", "client_net_racetunnel", 2, Half), Node("skyhook", "client_net_sky", 2, <<P("light", 100)>>),
      Node("obfs4", "client_net_obfs", 2, Half), Node("iodine", "client_net_iodine", 2, <<P("heavy", 100)>>),
      Node("mastodon", "client_net_mastodon", 1, <<P("light", 100)>>)>>

\* The first scenario of the challenge problem, with a generator of every type.
Scenario1 ==
    Yaml(AllNets, AllNodes,
         <<Tg("masTgen", "client_net_mastodon"), Tg("ftpTgen", "client_net_racetunnel"), Tg("dnsTgen", "client_net_iodine"),
           Tg("dnsTgen", "server_net"), Tg("minTgen", "client_net_sky"), Tg("gorTgen", "client_net_obfs"),
           Tg("ircTgen", "client_net_obfs"), Tg("ftpTgen", "client_net_sky")>>)

\* One channel alone, as in the isolated scenarios.
Isolated(channel, net) ==
    Yaml(<<Net("minio_net", 10), Net("mastodon_net", 15), Net(net, 20), Net("server_net", 10), Net("dns_net", 5)>>,
         <<Node(channel, net, 2, <<P("light", 100)>>)>>, <<Tg("ircTgen", net), Tg("gorTgen", net)>>)

\* Shares that do not add up to the quantity when each is rounded.
Uneven ==
    Yaml(AllNets, <<Node("webtunnel", "client_net_racetunnel", 5, <<P("light", 50), P("medium", 30), P("heavy", 20)>>)>>,
         <<[type |-> "ftpTgen", net |-> "client_net_obfs", qty |-> 7, profs |-> Quarter]>>)

\* A channel on two networks; a network that loses more one way; no DNS network.
TwoNets == [Scenario1 EXCEPT !.nodes = AllNodes \o <<Node("obfs4", "client_net_sky", 1, Half)>>]
Lopsided == [Scenario1 EXCEPT !.nets = [AllNets EXCEPT ![3].symmetric = FALSE]]
NoDns == [Scenario1 EXCEPT !.nets = SubSeq(AllNets, 1, 8)]

Scn(number, yaml) == [number |-> number, yaml |-> yaml]
MCScenarios ==
    {Scn(1, Scenario1), Scn(0, Uneven), Scn(0, TwoNets), Scn(0, Lopsided), Scn(0, NoDns),
     Scn(0, Isolated("iodine", "client_net_iodine")), Scn(0, Isolated("mastodon", "client_net_mastodon")),
     Scn(-1, Isolated("webtunnel", "client_net_racetunnel"))}

Gen ==
    [baselineTime |-> 0, runTime |-> 0, hcsDelay |-> 10, tgenDelay |-> 1, parallelizeBaseline |-> FALSE, quatex |-> TRUE,
     perf |-> FALSE, confidentiality |-> FALSE, notgens |-> FALSE, vpts |-> VANTAGE_POINTS, feats |-> FEATURES]
MCGenArgs ==
    {Gen, [Gen EXCEPT !.baselineTime = 30, !.vpts = {"client_net_iodine", "ixp-router"}, !.feats = {"dnsQueryRate", "dnsQuerySize"}],
     [Gen EXCEPT !.runTime = 50, !.perf = TRUE, !.notgens = TRUE],
     [Gen EXCEPT !.runTime = 10], [Gen EXCEPT !.quatex = FALSE, !.confidentiality = TRUE],
     [Gen EXCEPT !.tgenDelay = 12], [Gen EXCEPT !.parallelizeBaseline = TRUE, !.baselineTime = 30]}

Scr(combo) ==
    [baselineTime |-> 0, runTime |-> 0, hcsDelay |-> 10, tgenDelay |-> 1, quatex |-> TRUE, perf |-> FALSE,
     confidentiality |-> FALSE, notgens |-> FALSE, parallelizeBaseline |-> FALSE, combo |-> combo]
MCScriptArgs == {Scr("combo4x5"), Scr("top25"), [Scr("combo2") EXCEPT !.perf = TRUE, !.runTime = 20], [Scr("ixp") EXCEPT !.notgens = TRUE, !.quatex = FALSE], [Scr("combo1") EXCEPT !.parallelizeBaseline = TRUE], [Scr("combo1") EXCEPT !.parallelizeBaseline = TRUE, !.baselineTime = 30]}

Pipe(combo, trials, skipGen, skipRun) ==
    [Scr(combo) EXCEPT !.baselineTime = 30] @@ [trials |-> trials, skipGen |-> skipGen, skipRun |-> skipRun]
MCPipelineArgs ==
    {Pipe("combo4x5", 2, FALSE, FALSE), Pipe("combo4x5", 2, TRUE, FALSE), Pipe("combo4x5", 2, TRUE, TRUE),
     Pipe("combo2", 3, FALSE, FALSE), Pipe("all", 1, FALSE, FALSE)}
MCSamples == <<<<2, 5, 3>>, <<9, 4>>, <<1, 4, 7>>>>
=============================================================================
