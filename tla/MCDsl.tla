------------------------------- MODULE MCDsl -------------------------------
(***************************************************************************)
(* The IRC model of utils/intermediate_reps/irc, its structs replaced by   *)
(* their fields, with counters of what clients hear, a door that uses      *)
(* states, if and else, and a relay that calls who an attribute names.     *)
(***************************************************************************)
EXTENDS DslTool

Str1 == <<"String">>
Is(x, v) == Eq(V(x), Str(v))
Client(x) == Var(x, <<"IRCClient">>, <<>>)
Text(x) == Var(x, Str1, <<>>)

IRCServer ==
    Machine(<<>>,
        <<Var("connections", <<"List", "IRCClient">>, <<>>),
          Var("channels", <<"Map", "String", "List", "IRCClient">>, <<>>)>>,
        [member |-> <<<<"IRCClient">>, Str1, Str1>>, say |-> <<<<"IRCClient">>, Str1>>],
        <<>>, <<"START">>, "START",
        <<On("member", <<Client("client"), Text("command"), Text("channel")>>,
             Is("command", "JOIN"), "START", "START",
             <<Assign("connections", Cat(V("connections"), One(V("client")))),
               AssignAt("channels", V("channel"),
                        Cat(At(V("channels"), V("channel")), One(V("client")))),
               Send(V("client"), "welcome", <<V("channel")>>)>>),
          On("member", <<Client("client"), Text("command"), Text("channel")>>,
             Is("command", "LEAVE"), "START", "START",
             <<DelFrom("connections", V("client")),
               DelAt("channels", V("channel"), V("client"))>>),
          On("say", <<Client("client"), Text("channel")>>, Bool(TRUE), "START", "START",
             <<For("peer", At(V("channels"), V("channel")),
                   <<If(Not(Eq(V("peer"), V("client"))),
                        <<Send(V("peer"), "heard", <<V("channel")>>)>>, <<>>)>>)>>)>>)

\* The client's functions send the server what they say.
ToServer(event, args) ==
    Function(<<Var("server", <<"IRCServer">>, <<>>), Text("channel")>>,
             <<Send(V("server"), event, args)>>)

IRCClient ==
    Machine(<<Text("client_id")>>,
        <<Var("nick", Str1, <<V("client_id")>>), Var("welcomed", <<"Int">>, <<Num(0)>>),
          Var("messages", <<"Int">>, <<Num(0)>>)>>,
        [welcome |-> <<Str1>>, heard |-> <<<<"IRCServer">>, Str1>>],
        [joinChannel   |-> ToServer("member", <<Str("JOIN"), V("channel")>>),
         leaveChannel  |-> ToServer("member", <<Str("LEAVE"), V("channel")>>),
         sendToChannel |-> ToServer("say", <<V("channel")>>)],
        <<>>, "START",
        <<On("welcome", <<Text("channel")>>, Bool(TRUE), "START", "START",
             <<Assign("welcomed", Plus(V("welcomed"), Num(1)))>>),
          On("heard", <<Var("server", <<"IRCServer">>, <<>>), Text("channel")>>, Bool(TRUE),
             "START", "START", <<Assign("messages", Plus(V("messages"), Num(1)))>>)>>)

\* Every second knock shuts the door, and a shut door hears nothing but the ring.
Door ==
    Machine(<<>>,
        <<Var("count", <<"Int">>, <<Num(0)>>), Var("last", <<"List", "Object">>, <<>>)>>,
        [knock |-> <<<<"Object">>, <<"Door">>>>, shut |-> <<>>, ring |-> <<>>],
        <<>>, <<"OPEN", "SHUT">>, "",
        <<On("knock", <<Var("who", <<"Object">>, <<>>), Var("door", <<"Door">>, <<>>)>>,
             Bool(TRUE), "OPEN", "OPEN",
             <<Assign("count", Plus(V("count"), Num(1))),
               If(Less(V("count"), Num(2)),
                  <<Assign("last", Cat(V("last"), One(V("who"))))>>,
                  <<Assign("count", Num(0)), Send(V("door"), "shut", <<>>)>>)>>),
          On("shut", <<>>, Bool(TRUE), "OPEN", "SHUT", <<>>),
          On("ring", <<>>, Bool(TRUE), "SHUT", "OPEN", <<Assign("last", Empty)>>)>>)

\* A ping is passed on to the peer that was aimed at last; a turn is passed to the old
\* peer, and then another one is aimed at.
Relay ==
    LET peer == Var("to", <<"Relay">>, <<>>)
    IN Machine(<<Var("first", <<"Relay">>, <<>>)>>,
        <<Var("peer", <<"Relay">>, <<V("first")>>), Var("pings", <<"Int">>, <<Num(0)>>)>>,
        [aim |-> <<<<"Relay">>>>, turn |-> <<<<"Relay">>>>, ping |-> <<>>],
        <<>>, <<"START">>, "",
        <<On("aim", <<peer>>, Bool(TRUE), "START", "START", <<Assign("peer", V("to"))>>),
          On("turn", <<peer>>, Bool(TRUE), "START", "START",
             <<Send(V("peer"), "ping", <<>>), Assign("peer", V("to"))>>),
          On("ping", <<>>, Less(V("pings"), Num(2)), "START", "START",
             <<Assign("pings", Plus(V("pings"), Num(1))), Send(V("peer"), "ping", <<>>)>>)>>)

\* A call of an event that is declared nowhere.
Wrong ==
    Machine(<<>>, <<>>, [ring |-> <<>>], <<>>, <<"START">>, "",
        <<On("ring", <<>>, Bool(TRUE), "START", "START", <<Send(V("self"), "nosuch", <<>>)>>)>>)

MCMachines == [IRCServer |-> IRCServer, IRCClient |-> IRCClient, Door |-> Door, Relay |-> Relay,
               Wrong |-> Wrong]

-----------------------------------------------------------------------------
(* Tests. *)

New(x, mac, args) == [st |-> "new", x |-> x, mac |-> mac, args |-> args]
Do(to, name, args) == [st |-> "call", to |-> to, name |-> name, args |-> args]
Check(x, attr, is) == [st |-> "assert", x |-> x, attr |-> attr, is |-> is]

Join(c)  == Do(c, "joinChannel", <<V("server"), Str("#general")>>)
Leave(c) == Do(c, "leaveChannel", <<V("server"), Str("#general")>>)
Say(c)   == Do(c, "sendToChannel", <<V("server"), Str("#general")>>)

IRCStart == <<New("server", "IRCServer", <<>>), New("alice", "IRCClient", <<Str("Alice")>>),
              New("bob", "IRCClient", <<Str("Bob")>>)>>
IRCCalls == {Join("alice"), Join("bob"), Leave("alice"), Say("alice"), Say("bob")}

\* Does nobody join a channel again without having left it?
JoinsOnce(calls) ==
    \A i, j \in DOMAIN calls : \A c \in {"alice", "bob"} :
        i < j /\ calls[i] = Join(c) /\ calls[j] = Join(c)
        => \E k \in i..j : calls[k] = Leave(c)

IRCTests == {IRCStart \o calls : calls \in {s \in TupleOf(IRCCalls, 4) : JoinsOnce(s)}}
DoorTests ==
    {<<New("door", "Door", <<>>)>> \o s \o <<Check("door", "count", 1)>> :
        s \in TupleOf({Do("door", "knock", <<V("alice"), V("door")>>), Do("door", "ring", <<>>)}, 4)}

RelayTests ==
    {<<New("c", "Relay", <<Str("nobody")>>), New("b", "Relay", <<V("c")>>),
       New("a", "Relay", <<V("b")>>)>> \o s :
        s \in TupleOf({Do("a", "aim", <<V("c")>>), Do("a", "turn", <<V("c")>>),
                       Do("a", "turn", <<V("b")>>), Do("b", "ping", <<>>), Do("a", "ping", <<>>)}, 3)}

\* The files of the IRC model, with the tests in main; "common" imports what is given.
Files(tests, imports) ==
    [main   |-> [imports |-> <<"client", "server">>, machines |-> <<>>, tests |-> tests],
     client |-> [imports |-> <<"common">>, machines |-> <<"IRCClient">>, tests |-> <<>>],
     server |-> [imports |-> <<"common", "client">>, machines |-> <<"IRCServer">>, tests |-> <<>>],
     common |-> [imports |-> imports, machines |-> <<"Door">>, tests |-> <<>>]]

RingTest == <<New("x", "Wrong", <<>>), Do("x", "ring", <<>>)>>
OneFile(mac, tests) == [main |-> [imports |-> <<>>, machines |-> <<mac>>, tests |-> tests]]

MCTexts ==
    {Files(<<t>>, <<>>) : t \in IRCTests}
    \cup {Files(<<t, t>>, <<"main", "server">>) : t \in DoorTests}
    \cup {OneFile("Relay", <<t>>) : t \in RelayTests}
    \cup {Files(<<>>, <<"gone">>), OneFile("Wrong", <<RingTest, RingTest>>)}

\* Alice joins twice and leaves.
TwiceTexts == {Files(<<IRCStart \o <<Join("alice"), Join("alice"), Leave("alice")>>>>, <<>>)}

MCTests == UNION {UNION {Range(t[f].tests) : f \in DOMAIN t} : t \in MCTexts}

-----------------------------------------------------------------------------
(* Properties of the IRC model. *)

\* What the running test did so far.
Did ==
    SubSeq(CurrentTest, 1, Len(CurrentTest) - Len(todo))

\* A client hears what another one says on a channel while it is on it, once, and
\* its own words never, whatever joins and leaves there were before.
ChannelDelivery ==
    running /\ queue = <<>> /\ "server" \in DOMAIN objs =>
        \A c \in {"alice", "bob"} \cap DOMAIN objs :
            objs[c].attrs.messages =
                Cardinality({<<j, i>> \in (DOMAIN Did) \X (DOMAIN Did) :
                    /\ j < i /\ Did[j] = Join(c)
                    /\ \E d \in {"alice", "bob"} \ {c} : Did[i] = Say(d)
                    /\ \A k \in j..i : Did[k] # Leave(c)})

\* "For lists: removes first element equal to the given value": leaving takes one
\* entry out of the server's connections.
DelRemovesFirst ==
    [][running /\ "server" \in DOMAIN objs =>
          Len(objs'["server"].attrs.connections)
            >= Len(objs["server"].attrs.connections) - 1]_objs
=============================================================================
