---------------------------- MODULE MCConverter ----------------------------
(***************************************************************************)
(* An instance of ModelConverter: a channel with models of its own, IRC    *)
(* users with two profiles, a generator of the first version, one of the   *)
(* second and one whose protocol is also a channel's.                      *)
(***************************************************************************)
EXTENDS ModelConverter

P(name, share) == [name |-> name, share |-> share]
Tg(type, profs) == [type |-> type, net |-> "server_net", qty |-> 2, profs |-> profs]
MCYaml ==
    [nets |-> <<>>, lossFiles |-> {}, duration |-> 60, window |-> 15,
     nodes |-> <<[channel |-> "skyhook", net |-> "client_net_sky", qty |-> 2, models |-> TRUE,
                  profs |-> <<P("heavy", 100)>>]>>,
     tgens |-> <<Tg("dnsTgen", <<P("light", 50), P("heavy", 50)>>), Tg("ftpTgen", <<P("light", 100)>>),
                 Tg("ircTgen", <<P("light", 100)>>)>>]
MCMayBreak == {<<"skyhook", "client">>, <<"dns-tgen", "light">>, <<"irc", "heavy">>}
=============================================================================
