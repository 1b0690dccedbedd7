---------------------------- MODULE Cp3Scenario ----------------------------
(***************************************************************************)
(* What the CP3 generator reads from a scenario: networks, covert clients  *)
(* with their channels, traffic generators, and the profiles they run.     *)
(* A fraction of a quantity is given in hundredths.                        *)
(***************************************************************************)
EXTENDS Integers, Sequences, FiniteSets, SequencesExt, FiniteSetsExt

ClientNets == {"client_net_mastodon", "client_net_racetunnel", "client_net_iodine",
               "client_net_obfs", "client_net_sky"}
ServerNets == {"server_net", "minio_net", "mastodon_net", "dns_net"}
Channels == {"webtunnel", "skyhook", "obfs4", "iodine", "mastodon"}
TgenTypes == {"masTgen", "ftpTgen", "dnsTgen", "minTgen", "gorTgen", "ircTgen"}

NetNames(s) == {s.nets[k].name : k \in DOMAIN s.nets}
Network(s, name) == CHOOSE n \in Range(s.nets) : n.name = name

\* A network's losses come from a file of the scenario; "none" needs none.
load_loss_profile(s, name) == name \in s.lossFiles \cup {"none"}

\* A network with other loss or delay downstream, of a name without a NetId, with
\* a loss profile nobody defined, or a quantity that is not positive ends the tool.
ScenarioAccepted(s) ==
    /\ \A n \in Range(s.nets) : n.symmetric /\ load_loss_profile(s, n.loss)
    /\ NetNames(s) \subseteq ClientNets \cup ServerNets
    /\ \A n \in Range(s.nodes) \cup Range(s.tgens) : n.qty > 0

\* Client networks are numbered in the order of the file.
NetId(s, name) ==
    CASE name = "server_net"   -> <<"srvN", 0>>
      [] name = "minio_net"    -> <<"minN", 0>>
      [] name = "mastodon_net" -> <<"masN", 0>>
      [] name = "dns_net"      -> <<"dnsN", 0>>
      [] OTHER -> <<"cl", Cardinality({k \in DOMAIN s.nets :
                           /\ s.nets[k].name \in ClientNets
                           /\ \E l \in k .. Len(s.nets) : s.nets[l].name = name})>>

\* The network's part of a generator's name.
NetShort(name) ==
    CASE name = "client_net_mastodon" -> "Mas" [] name = "mastodon_net" -> "MasNet"
      [] name = "client_net_racetunnel" -> "Rt" [] name = "client_net_iodine" -> "Iod"
      [] name = "client_net_obfs" -> "Obfs" [] name = "client_net_sky" -> "Sky"
      [] name = "server_net" -> "Srv" [] name = "minio_net" -> "MinioNet"
      [] name = "dns_net" -> "DnsNet"

-----------------------------------------------------------------------------
(* Covert clients. *)

\* The sum of the first numbers of a sequence.
SumTo(seq, n) ==
    LET sum[k \in 0 .. n] == IF k = 0 THEN 0 ELSE sum[k - 1] + seq[k]
    IN sum[n]

\* Python rounds a half to the even neighbour.
RoundHalfEven(n, d) ==
    LET q == n \div d
        r == 2 * (n % d)
    IN IF r > d \/ (r = d /\ q % 2 = 1) THEN q + 1 ELSE q

\* Mutation: the last profile gets its rounded share, too.
ProfileCountRounded(qty, profs, k) == RoundHalfEven(qty * profs[k].share, 100)

\* How many get a profile: rounded shares, and for the last profile what remains
\* (nothing, when the others took more than there are).
ProfileCount(qty, profs, k) ==
    LET share == [l \in DOMAIN profs |-> RoundHalfEven(qty * profs[l].share, 100)]
    IN IF k < Len(profs) THEN share[k] ELSE qty - SumTo(share, Len(profs) - 1)

distribute_profiles(qty, profs) ==
    FlattenSeq([k \in DOMAIN profs |->
        [l \in 1 .. ProfileCount(qty, profs, k) |-> profs[k].name]])

\* Clients are numbered through, over all channels and networks.
Qtys(s) == [k \in DOMAIN s.nodes |-> s.nodes[k].qty]
FirstClient(s, k) == 1 + SumTo(Qtys(s), k - 1)
ClientIds(s, ch) ==
    FlattenSeq([k \in DOMAIN s.nodes |->
        IF s.nodes[k].channel = ch
        THEN [l \in 1 .. s.nodes[k].qty |-> FirstClient(s, k) + l - 1] ELSE <<>>])

\* Quantity and profiles of a channel are those of its last network.
LastNode(s, ch) ==
    s.nodes[CHOOSE k \in DOMAIN s.nodes : s.nodes[k].channel = ch
              /\ \A l \in k + 1 .. Len(s.nodes) : s.nodes[l].channel # ch]
ClientProfiles(s, ch) == distribute_profiles(LastNode(s, ch).qty, LastNode(s, ch).profs)
ClientProfile(s, ch, i) ==
    ClientProfiles(s, ch)[CHOOSE k \in DOMAIN ClientIds(s, ch) : ClientIds(s, ch)[k] = i]

\* Channels with an action model of their own.
hcs_channel_models(s) == {n.channel : n \in {m \in Range(s.nodes) : m.models}}

-----------------------------------------------------------------------------
(* Traffic generators, numbered within type and network. *)

generate_all_tgen_instances(s) ==
    FlattenSeq([k \in DOMAIN s.tgens |->
        LET t == s.tgens[k]
            profiles == distribute_profiles(t.qty, t.profs)
        IN [i \in DOMAIN profiles |->
              [type |-> t.type, net |-> t.net, idx |-> i, profile |-> profiles[i]]]])
Tgens(s) == Range(generate_all_tgen_instances(s))
TgensOf(s, types) == {t \in Tgens(s) : t.type \in types}

-----------------------------------------------------------------------------
(* Addresses: whose, number, role.  *)

OfClient(ch, i, role) == <<ch, "", i, role>>
OfTgen(t, role) == <<t.type, NetShort(t.net), t.idx, role>>
Shared(role) == <<"shared", "", 0, role>>

\* The resolver of each network and its network client.
Resolvers ==
    {[net |-> "client_net_mastodon",   dns |-> "corpMasDnsAddr",  cl |-> "corpMasNetClAddr"],
     [net |-> "client_net_racetunnel", dns |-> "corpRtDnsAddr",   cl |-> "corpRtNetClAddr"],
     [net |-> "client_net_iodine",     dns |-> "corpIodDnsAddr",  cl |-> "corpIodNetClAddr"],
     [net |-> "client_net_obfs",       dns |-> "corpObfsDnsAddr", cl |-> "corpObfsNetClAddr"],
     [net |-> "client_net_sky",        dns |-> "corpSkyDnsAddr",  cl |-> "corpSkyNetClAddr"],
     [net |-> "server_net",            dns |-> "servDnsAddr",     cl |-> "servNetClAddr"]}
ResolverOf(net) == {r.dns : r \in {q \in Resolvers : q.net = net}}

ChannelRoles ==
    [webtunnel |-> {"IrcAddr", "UmAddr", "IfaceAddr", "SrvIfaceAddr", "ClientAddr", "ProxyAddr",
                    "NetClientAddr", "NetServerAddr"},
     skyhook |-> {"IrcAddr", "UmAddr", "IfaceAddr", "SrvIfaceAddr", "UmacAddr", "CmacAddr",
                  "PuaAddr", "SdkacAddr", "UmasAddr", "CmasAddr", "AhaAddr", "SdkasAddr",
                  "ClNetAddr", "SrvNetClAddr", "NetSrvAddr"},
     obfs4 |-> {"IrcAddr", "UmAddr", "IfaceAddr", "SrvIfaceAddr", "ClientAddr", "ServerAddr",
                "NetClientAddr", "NetServerAddr"},
     iodine |-> {"IrcAddr", "UmAddr", "IfaceAddr", "SrvIfaceAddr", "SendAppAddr", "RcvAppAddr",
                 "ClientAddr", "ServerAddr", "NetServerAddr", "SrvNetClAddr", "SrvNetSrvAddr"},
     mastodon |-> {"IrcAddr", "UmAddr", "IfaceAddr", "SrvIfaceAddr", "UmacAddr", "CmacAddr",
                   "McacAddr", "EdacAddr", "UmasAddr", "CmasAddr", "McasAddr", "EdasAddr",
                   "ClNetAddr", "SrvNetClAddr"}]
TgenRoles ==
    [masTgen |-> {"UmAddr", "TgAddr", "McAddr", "NetClAddr"},
     ftpTgen |-> {"UmAddr", "TgAddr", "NetClAddr"},
     dnsTgen |-> {"UmAddr", "TgAddr"},
     minTgen |-> {"UmAddr", "TgAddr", "S3ClAddr", "NetClAddr"},
     gorTgen |-> {"UmAddr", "TgAddr", "NetClAddr"},
     ircTgen |-> {"UmAddr", "TgAddr", "NetClAddr"}]
SharedRoles ==
    {"ircServerAddr", "s3SrvAddr", "ircMonitorAddr", "masSrvAddr", "masNetSrvAddr", "advAddr",
     "publicDnsAddr", "rootDnsAddr", "tldDnsAddr", "authDnsAddr", "publicResolverNetSrvAddr",
     "ftpSrvAddr", "ftpNetSrvAddr", "gorillaSrvAddr", "gorillaNetSrvAddr", "ircTgenSrvNetAddr"}
        \cup {r.dns : r \in Resolvers} \cup {r.cl : r \in Resolvers}

\* The addresses file: what each of its declarations declares.
gen_addresses_file(s) ==
    <<{Shared(r) : r \in SharedRoles}>>
      \o FlattenSeq([k \in DOMAIN s.nodes |-> [l \in 1 .. s.nodes[k].qty |->
            {OfClient(s.nodes[k].channel, FirstClient(s, k) + l - 1, r) :
                 r \in ChannelRoles[s.nodes[k].channel]}]])
      \o [k \in DOMAIN generate_all_tgen_instances(s) |->
            LET t == generate_all_tgen_instances(s)[k] IN {OfTgen(t, r) : r \in TgenRoles[t.type]}]
=============================================================================
