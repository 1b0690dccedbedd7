------------------------------ MODULE MCUserV2 ------------------------------
(* Profiles for UserV2 with the shape of those of the repository: one of an *)
(* IRC user, one of an ftp generator and a flat one without states.         *)
EXTENDS UserV2, TLC

Rooms == ("#tgen_chat" :> 0) @@ ("#tgen_general" :> 1)
Room == <<"select_room", [type |-> "select_room", choice |-> Uniform(IntN(0), IntN(1))]>>
Say == <<"send_message", [type |-> "roommsg"]>>
Never == Uniform(IntN(0), IntN(0))

\* Profiles of irc: rooms are numbered first, then the user chats or is idle.
Irc(steps) ==
    [markov |-> << <<"initialization", {"casual_chat"}>>, <<"idle", {"idle", "casual_chat"}>>,
                   <<"casual_chat", {"idle", "casual_chat"}>> >>,
     states |->
       << <<"initialization",
            [type |-> "state", initial_action |-> "set_room_numbers",
             dwell_steps |-> Uniform(IntN(2), IntN(2)),
             actions |-> << <<"set_room_numbers", [type |-> "set_room_numbers", rooms |-> Rooms]>>,
                            Room>>,
             markov |-> << <<"set_room_numbers", {"select_room"}>>,
                           <<"select_room", {"select_room"}>> >>,
             burst_steps |-> Uniform(IntN(2), IntN(2)),
             intra_burst_delay |-> Never, inter_burst_delay |-> Never]>>,
          <<"idle",
            [type |-> "state", initial_action |-> "wait",
             dwell_steps |-> Uniform(IntN(3), IntN(3)),
             actions |-> << <<"wait", [type |-> "wait", sleep |-> Uniform(FloatN(0), FloatN(9))]>>,
                            Room, Say>>,
             markov |-> << <<"wait", {"select_room"}>>, <<"select_room", {"send_message"}>>,
                           <<"send_message", {"wait"}>> >>,
             burst_steps |-> Uniform(IntN(3), IntN(3)),
             intra_burst_delay |-> Never, inter_burst_delay |-> Never]>>,
          <<"casual_chat",
            [type |-> "state", initial_action |-> "send_message",
             dwell_steps |-> Gaussian(FloatN(2), FloatN(2)),
             actions |-> <<Say>>, markov |-> << <<"send_message", {"send_message"}>> >>,
             burst_steps |-> Gaussian(FloatN(1), FloatN(2)),
             intra_burst_delay |-> Uniform(IntN(0), FloatN(2)),
             inter_burst_delay |-> Gaussian(FloatN(1), FloatN(2))]>> >>,
     parameters |-> [model_steps |-> steps, initial_state |-> "initialization"]]

\* Profiles of ftp: an idle state of type wait comes first, being the default;
\* one of the states has no bursts, and one leaves every burst field out.
Ftp(steps) ==
    [markov |-> << <<"browse", {"browse", "download", "idle"}>>, <<"download", {"browse"}>>,
                   <<"idle", {"idle", "browse"}>> >>,
     states |->
       << <<"browse",
            [type |-> "state", dwell_steps |-> Gaussian(FloatN(3), FloatN(1)),
             actions |-> << <<"browse_list", [type |-> "browse_list"]>>,
                            <<"browse_noop", [type |-> "browse_noop"]>> >>,
             markov |-> << <<"browse_list", {"browse_list", "browse_noop"}>>,
                           <<"browse_noop", {"browse_list"}>> >>,
             burst_prob |-> 50, burst_steps |-> Gaussian(IntN(2), IntN(1)),
             intra_burst_delay |-> Gaussian(FloatN(1), FloatN(1)),
             inter_burst_delay |-> FloatN(4)]>>,
          <<"download",
            [type |-> "state", dwell_steps |-> Gaussian(IntN(4), IntN(0)),
             actions |-> << <<"download_retr", [type |-> "download_retr"]>> >>,
             markov |-> << <<"download_retr", {"download_retr"}>> >>]>>,
          <<"idle", [type |-> "wait", sleep |-> Gaussian(IntN(5), IntN(1))]>> >>,
     parameters |-> [model_steps |-> steps]]

\* A flat profile: actions only.
Flat(steps) ==
    [markov |-> << <<"post", {"post", "rest"}>>, <<"rest", {"post"}>> >>,
     states |-> <<>>,
     actions |-> << <<"post", [type |-> "post", sleep |-> Gaussian(FloatN(1), FloatN(1))]>>,
                    <<"rest", [type |-> "wait"]>> >>,
     parameters |-> [model_steps |-> steps, initial_state |-> "post"]]

\* An irc profile whose idle state is of type wait.
IrcIdle(steps) ==
    [Irc(steps) EXCEPT !.states[2] = <<"idle", [type |-> "wait"]>>]

MCProfiles ==
    [irc |-> [irc |-> TRUE, data |-> Irc(9)],
     irc_idle |-> [irc |-> TRUE, data |-> IrcIdle(8)],
     ftp |-> [irc |-> FALSE, data |-> Ftp(8)],
     flat |-> [irc |-> FALSE, data |-> Flat(6)]]
=============================================================================
