------------------------------- MODULE Cp3Gen -------------------------------
(***************************************************************************)
(* Runs of the two generators in a scenario's directory: "maude-hcs        *)
(* generate" and the stand-alone script.  Each writes its files one after  *)
(* the other and may stop between any two of them: on an assertion, on a   *)
(* missing network, or because it is killed.  Files of earlier runs stay.  *)
(***************************************************************************)
EXTENDS Cp3Script

CONSTANTS Scenarios,   \* the scenarios, [number |-> n, yaml |-> what the file says]
          GenArgs,     \* argument lists of maude-hcs generate
          ScriptArgs,  \* argument lists of the script
          MaxJobs      \* bound: how many tools are started

ScriptCombos == {"combo1", "combo2", "combo4x5", "top25", "ixp", "all"}

ASSUME ScenariosAssumption ==
    \A scn \in Scenarios : LET s == scn.yaml IN
        /\ {s.duration, s.window} \subseteq Nat \ {0}
        /\ s.nets \in Seq(Range(s.nets)) /\ s.nodes \in Seq(Range(s.nodes)) /\ s.tgens \in Seq(Range(s.tgens))
        /\ \A n \in Range(s.nodes) \cup Range(s.tgens) :
              n.qty \in Int /\ n.profs \in Seq(Range(n.profs)) /\ \A p \in Range(n.profs) : p.share \in Int
        /\ \A n \in Range(s.nodes) : n.channel \in Channels
        /\ \A t \in Range(s.tgens) : t.type \in TgenTypes
        /\ \A j, k \in DOMAIN s.tgens : <<s.tgens[j].type, s.tgens[j].net>> = <<s.tgens[k].type, s.tgens[k].net>> => j = k

ASSUME ArgsAssumption ==
    \A a \in GenArgs \cup ScriptArgs :
        /\ {"hcsDelay", "tgenDelay", "perf", "notgens"} \subseteq DOMAIN a
        /\ {a.runTime, a.hcsDelay, a.tgenDelay, a.baselineTime} \subseteq Nat
        /\ {a.quatex, a.perf, a.confidentiality, a.notgens, a.parallelizeBaseline} \subseteq BOOLEAN
        /\ a \in ScriptArgs => a.combo \in ScriptCombos

VARIABLES scenario, disk, job

NoFile == <<>>
FEATURES ==
    {"dnsQueryRate", "dnsQuerySize", "dnsRespSize", "tcpUpRate", "tcpDownRate", "tcpUpToDownRate",
     "tcpOutPktRate", "tcpInPktRate", "tcpOutToInPktRate", "tcpPktSizeStdDev", "tcpPktSize",
     "tcpPktInterarrival", "tcpDirectionChange", "tcpActiveFlow", "tcpNewCnx"}
VANTAGE_POINTS == ClientNets \cup {"ixp-router", "mastodon_net", "minio_net", "server_net"}

\* The analyst's name of a vantage point.
VantageId(s, v) == IF v = "ixp-router" THEN <<"ixpN", 0>> ELSE NetId(s, v)

-----------------------------------------------------------------------------
(* Vantage points and features. *)

\* A command line selects by parts of names; "ixp-router" is no network of the file.
filter_feats(args) == args.feats \cap FEATURES
filter_vpts(s, args) == (args.vpts \cap VANTAGE_POINTS) \cap NetNames(s)

\* The script has named sets of both; some demand every one of their networks.
ComboVantages(s, combo) ==
    CASE combo = "combo1" -> {"ixp-router"} \cup (NetNames(s) \cap {"client_net_sky"})
      [] combo = "combo2" -> {"server_net"} \cup (NetNames(s) \cap {"client_net_mastodon", "client_net_racetunnel"})
      [] combo = "combo4x5" -> {"mastodon_net", "client_net_iodine", "minio_net", "client_net_racetunnel"}
      [] combo = "top25" -> VANTAGE_POINTS
      [] combo = "ixp" -> {"ixp-router"}
      [] combo = "all" -> {"ixp-router"} \cup (NetNames(s) \cap (ClientNets \cup {"server_net", "mastodon_net"}))
ComboComplete(s, combo) ==
    combo \in {"combo4x5", "top25"} => ComboVantages(s, combo) \subseteq NetNames(s) \cup {"ixp-router"}
ComboFeatures(combo) ==
    CASE combo = "top25" -> {"tcpActiveFlow", "tcpDirectionChange", "dnsQueryRate", "dnsQuerySize", "dnsRespSize",
                             "tcpPktInterarrival", "tcpPktSize", "tcpPktSizeStdDev", "tcpNewCnx"}
      [] combo = "combo4x5" -> {"dnsQueryRate", "dnsQuerySize", "tcpPktInterarrival", "tcpNewCnx", "tcpPktSizeStdDev"}
      [] combo \in {"combo1", "combo2"} -> {"dnsQueryRate", "tcpOutPktRate", "tcpInPktRate", "tcpPktSize", "tcpPktInterarrival"}
      [] combo \in {"all", "ixp"} -> FEATURES

-----------------------------------------------------------------------------
(* Queries: one per measure and window, from the start to the window's end.  *)

\* Mutation: up to the end of the window after.
get_prefix_start_end_late(cfg, win) == <<0, (win + 2) * cfg.window>>

get_prefix_start_end(cfg, win) == <<0, (win + 1) * cfg.window>>

\* Measures of the whole system, of a client, of a feature at a vantage point.
all_queries(cfg) ==
    LET span(win) == get_prefix_start_end(cfg, win)
        Q(win, what, of) == [cumulative |-> TRUE, start |-> span(win)[1] + cfg.delay, end |-> span(win)[2] + cfg.delay,
                             what |-> what, of |-> of]
        wins == 0 .. cfg.maxWin - 1
    IN (IF cfg.confOnly THEN {}
        ELSE {Q(win, "system", m) : win \in wins, m \in {<<"latency">>, <<"goodput">>, <<"integrity">>, <<"availability">>}}
               \cup {Q(win, "client", c) : win \in wins, c \in cfg.clients})
       \cup (IF cfg.perfOnly THEN {}
             ELSE {Q(win, "vantage", vf) : win \in wins, vf \in cfg.vpts \X cfg.feats})

\* The script's spans begin with the covert clients: from there to the window's end, or
\* the window by itself.  The first window's are the same, and asked for once.
script_prefix_start_end(cfg, win, cum) ==
    <<cfg.delay + (IF cum THEN 0 ELSE win * cfg.window), cfg.delay + (win + 1) * cfg.window>>

script_queries(cfg) ==
    LET spans == {w \in (0 .. cfg.maxWin - 1) \X BOOLEAN : w[1] = 0 => w[2]}
        Q(w, what, of) ==
            LET span == script_prefix_start_end(cfg, w[1], w[2])
            IN [cumulative |-> w[2], start |-> span[1], end |-> span[2], what |-> what, of |-> of]
    IN (IF cfg.confOnly THEN {}
        ELSE {Q(w, "system", m) : w \in spans, m \in {<<"latency">>, <<"goodput">>, <<"integrity">>, <<"availability">>}}
               \cup {Q(w, "client", c) : w \in spans, c \in cfg.clients})
       \cup (IF cfg.perfOnly THEN {}
             ELSE {Q(w, "vantage", vf) : w \in spans, vf \in cfg.vpts \X cfg.feats})

-----------------------------------------------------------------------------
(* Files.  A main file is what it was generated from. *)

\* Profiles of a channel are given out to its clients one by one.
ProfilesReach(s) ==
    \A n \in Range(s.nodes) : Len(ClientIds(s, n.channel)) <= Len(ClientProfiles(s, n.channel))
MainPossible(s) == ProfilesReach(s) /\ "dns_net" \in NetNames(s)
NetworksKnown(s) == \A n \in Range(s.nodes) \cup Range(s.tgens) : n.net \in NetNames(s)

MainFile(s, args, slimit, vpts, feats) ==
    [slimit |-> slimit, hcsDelay |-> args.hcsDelay, tgenDelay |-> args.tgenDelay,
     vpts |-> {VantageId(s, v) : v \in vpts}, feats |-> feats, perf |-> args.perf, notgens |-> args.notgens]

\* A baseline stops its clients from starting; a run includes an equation and opens the
\* windows with its clients.  For performance measures there is none of this: a delay
\* that no file sets is the main file's, and windows would open after the end.
BaselineFile(main, perf, time) ==
    [slimit |-> time, hcsDelay |-> IF perf THEN main.hcsDelay ELSE 2 * time, windowDelay |-> 2 * time]
RunFile(main, perf, slimit, eq) ==
    [slimit |-> slimit, hcsDelay |-> main.hcsDelay, windowDelay |-> IF perf THEN 2 * slimit ELSE main.hcsDelay,
     equation |-> IF perf THEN NoFile ELSE eq]

\* Each generator gives its copy of the module the delay of its own.
ScriptQuatexFile(s, args) ==
    [vpts |-> {VantageId(s, v) : v \in ComboVantages(s, args.combo)}, feats |-> ComboFeatures(args.combo),
     clients |-> get_client_lst(s), window |-> s.window, maxWin |-> s.duration \div s.window,
     delay |-> args.hcsDelay, perfOnly |-> args.perf, confOnly |-> args.confidentiality, by |-> "script"]
QuatexFile(s, args, vpts, feats, duration, delay) ==
    [vpts |-> {VantageId(s, v) : v \in vpts}, feats |-> feats, clients |-> get_client_lst(s),
     window |-> s.window, maxWin |-> duration \div s.window, delay |-> delay,
     perfOnly |-> args.perf, confOnly |-> args.confidentiality, by |-> "generate"]
Queries(quatex) == IF quatex.by = "script" THEN script_queries(quatex) ELSE all_queries(quatex)

-----------------------------------------------------------------------------
Files == {"addresses", "main", "quatex", "baseline", "baselines", "eqtmp", "run"}
Idle == [tool |-> "none", step |-> "none", args |-> <<>>, done |-> 0, ok |-> TRUE]
S == scenario.yaml

Busy(tool, step) == job.tool = tool /\ job.step = step
Goto(step) == job' = [job EXCEPT !.step = step]
Write(file, content, next) == disk' = [disk EXCEPT ![file] = content] /\ Goto(next)
Skip(next) == Goto(next) /\ UNCHANGED disk
Ended(ok) == [job EXCEPT !.step = IF ok THEN "done" ELSE "failed", !.ok = ok]

\* An exception ends the tool; what it has written stays.
Fail == job' = Ended(FALSE) /\ UNCHANGED disk

GenInit ==
    /\ scenario \in Scenarios
    /\ disk = [f \in Files |-> NoFile]
    /\ job = Idle

Start(tool, args) ==
    /\ job.step \in {"none", "done", "failed"} /\ job.done < MaxJobs
    /\ job' = [tool |-> tool, step |-> "parse", args |-> args, done |-> job.done + 1, ok |-> TRUE]
    /\ UNCHANGED disk

-----------------------------------------------------------------------------
(* maude-hcs generate. *)

StartGenerate == \E args \in GenArgs : Start("generate", args)

\* The run lasts what the command line or the file says, after the longer delay.
RunTime == IF job.args.runTime = 0 THEN S.duration ELSE job.args.runTime
Delay == IF job.args.hcsDelay > job.args.tgenDelay THEN job.args.hcsDelay ELSE job.args.tgenDelay

\* Parallel baselines check an argument the parser does not define.
GenParse ==
    /\ Busy("generate", "parse")
    /\ IF /\ job.args.tgenDelay <= job.args.hcsDelay /\ ~job.args.parallelizeBaseline
          /\ ScenarioAccepted(S) /\ NetworksKnown(S)
       THEN Skip("addresses") ELSE Fail

GenAddresses == Busy("generate", "addresses") /\ Write("addresses", [clients |-> get_client_lst(S)], "main")

\* Without generators their delay is longer than the run.
GenMain ==
    /\ Busy("generate", "main")
    /\ IF MainPossible(S)
       THEN Write("main",
              MainFile(S, IF job.args.notgens THEN [job.args EXCEPT !.tgenDelay = 2 * RunTime] ELSE job.args,
                       RunTime + Delay, filter_vpts(S, job.args), filter_feats(job.args)), "quatex")
       ELSE Fail

GenQuatex ==
    /\ Busy("generate", "quatex")
    /\ IF ~job.args.quatex THEN Skip("baseline")
       ELSE IF RunTime \div S.window = 0 THEN Fail
       ELSE Write("quatex", QuatexFile(S, job.args, filter_vpts(S, job.args), filter_feats(job.args), RunTime, Delay), "baseline")

GenBaseline ==
    /\ Busy("generate", "baseline")
    /\ IF job.args.baselineTime = 0 THEN Skip("run")
       ELSE Write("baseline", BaselineFile(disk["main"], job.args.perf, job.args.baselineTime), "eqtmp")
GenEqTmp == Busy("generate", "eqtmp") /\ Write("eqtmp", [bl |-> "nil"], "run")

GenRun ==
    /\ Busy("generate", "run")
    /\ disk' = [disk EXCEPT !["run"] = RunFile(disk["main"], job.args.perf, RunTime + Delay, "all")]
    /\ job' = Ended(TRUE)

Generate ==
    /\ \/ StartGenerate \/ GenParse \/ GenAddresses \/ GenMain \/ GenQuatex
       \/ GenBaseline \/ GenEqTmp \/ GenRun
    /\ UNCHANGED scenario

-----------------------------------------------------------------------------
(* The script: the same files in another order, for a set of vantage points.  It *)
(* is run by hand or as the first step of one of the baseline pipelines.           *)

ScriptCallers == {"script", "pipeline", "isolated"}
StartScript == \E args \in ScriptArgs : Start("script", args)

ScriptMainFile(s, args) ==
    MainFile(s, IF args.notgens THEN [args EXCEPT !.tgenDelay = 2 * s.duration] ELSE args,
             s.duration, ComboVantages(s, args.combo), ComboFeatures(args.combo))

ScriptParse ==
    /\ job.tool \in ScriptCallers /\ job.step = "parse"
    /\ IF ScenarioAccepted(S) /\ NetworksKnown(S) /\ (\A n \in Range(S.nets) : ScriptLossProfile(S, n.loss))
       THEN Skip("addresses") ELSE Fail
ScriptAddresses ==
    /\ job.tool \in ScriptCallers /\ job.step = "addresses"
    /\ Write("addresses", [clients |-> get_client_lst(S)], "main")
ScriptMain ==
    /\ job.tool \in ScriptCallers /\ job.step = "main"
    /\ IF ComboComplete(S, job.args.combo) /\ MainPossible(S)
       THEN Write("main", ScriptMainFile(S, job.args), "baseline")
       ELSE Fail

\* Without a time of its own, or for performance measures, a file has the main file's.
ScriptLimit(time) == IF time = 0 \/ job.args.perf THEN disk["main"].slimit ELSE time
ScriptBaseline ==
    /\ job.tool \in ScriptCallers /\ job.step = "baseline"
    /\ Write("baseline", BaselineFile(disk["main"], job.args.perf,
                  ScriptLimit(job.args.baselineTime)), "quatex")
ScriptQuatex ==
    /\ job.tool \in ScriptCallers /\ job.step = "quatex"
    /\ IF ~job.args.quatex THEN Skip("parallel")
       ELSE Write("quatex", ScriptQuatexFile(S, job.args), "parallel")
\* On demand there is a baseline file for each pair, in a directory of its own, named
\* after the pair and the time; the files of an earlier call stay beside them.
Overlay(new, old) == [f \in DOMAIN new \cup DOMAIN old |-> IF f \in DOMAIN new THEN new[f] ELSE old[f]]
PairFiles(args, vpts, feats, main) ==
    [f \in {VantageId(S, v) : v \in vpts} \X feats \X {args.baselineTime} |->
        [vpts |-> IF args.perf THEN main.vpts ELSE {f[1]}, feats |-> IF args.perf THEN main.feats ELSE {f[2]}]]
ScriptParallel ==
    /\ job.tool \in ScriptCallers /\ job.step = "parallel"
    /\ IF job.args.parallelizeBaseline
       THEN Write("baselines",
              Overlay(PairFiles(job.args, ComboVantages(S, job.args.combo), ComboFeatures(job.args.combo), disk["main"]),
                      disk["baselines"]), "eqtmp")
       ELSE Skip("eqtmp")

\* Mutation: the template is only written for a call by hand.
ScriptEqTmpByHand ==
    /\ job.tool \in ScriptCallers /\ job.step = "eqtmp"
    /\ IF job.tool = "script" THEN Write("eqtmp", [bl |-> "nil"], "run") ELSE Skip("run")
ScriptEqTmp ==
    /\ job.tool \in ScriptCallers /\ job.step = "eqtmp"
    /\ Write("eqtmp", [bl |-> "nil"], "run")

\* The run includes the equation of its combo.
ScriptRun ==
    /\ job.tool \in ScriptCallers /\ job.step = "run"
    /\ disk' = [disk EXCEPT !["run"] = RunFile(disk["main"], job.args.perf,
                  ScriptLimit(job.args.runTime), job.args.combo)]
    /\ job' = CASE job.tool = "script"   -> Ended(TRUE)
              [] job.tool = "pipeline" -> [job EXCEPT !.step = "trials"]
              [] job.tool = "isolated" -> [job EXCEPT !.step = "list"]

Script ==
    /\ \/ StartScript \/ ScriptParse \/ ScriptAddresses \/ ScriptMain \/ ScriptBaseline
       \/ ScriptQuatex \/ ScriptParallel \/ ScriptEqTmp \/ ScriptRun
    /\ UNCHANGED scenario

-----------------------------------------------------------------------------
(* Properties of what is generated.  The first three are looked at when the first  *)
(* tool has just written the main file: what it writes depends on no earlier file.   *)

MainWritten ==
    /\ job.done = 1
    /\ Busy("generate", "quatex") \/ (job.tool \in ScriptCallers /\ job.step = "baseline")
Out == Output(job.tool, S)

\* Do the links of a main file fit its actors?
NetworkFits(out) ==
    LET links == UNION {c.links : c \in out.calls}
        ends == {<<l[1], l[2]>> : l \in links}
        placed == PlacedBy(out)
        at == {a.at : a \in placed} \cup {Ixp}
        tcp == out.tcp \ out.udp
    IN /\ \A l \in links : <<l[2], l[1], l[3]>> \in links /\ l[1] \in at /\ l[3] \in out.params
       /\ Cardinality(ends) = Cardinality(links)
       /\ \A c \in UNION {a.carries : a \in placed} :
             /\ \A end \in {c.server, c.client} : end \in tcp /\ <<end, Ixp>> \in ends
             /\ \A d \in c.dns : d \in out.udp /\ {<<d, PublicDns>>, <<d, Ixp>>} \subseteq ends
       /\ \A v, w \in out.seen : v.addr = w.addr /\ "dns_net" \notin {v.net, w.net} => v.net = w.net

\* Every network client the initial state places can do its work: both ends send over
\* TCP and have a link to the exchange, and its resolver has one to the public one.
\* Links lead both ways over the same, defined parameters, between addresses of actors
\* that are there; an address is seen in one network, besides the DNS network.
NetworkComplete == MainWritten => NetworkFits(Out)

\* Do its actors, addresses and modules fit together?
ActorsFit(out) ==
    LET placed == PlacedBy(out)
        at == {a.at : a \in placed}
        defined == {a.name : a \in out.defined}
        tgens == Tgens(S)
    IN /\ \A a \in placed : a.refs \subseteq at
       /\ at \subseteq UNION Range(out.declared) /\ out.resolved \subseteq at
       /\ defined \ {Shared("masNetSrv")} \subseteq out.names /\ out.names \subseteq defined
       /\ Cardinality(at) = Cardinality(placed)
       /\ Range(out.uses) \subseteq out.includes /\ Cardinality(out.loads) = Cardinality(out.includes)
       /\ job.tool = "generate" => SkyhookEndsMeet(out.objects)
       /\ \A n \in Range(S.nodes) : Cardinality({a \in placed : a.name[1] = n.channel /\ a.name[4] = "Um"})
             = SumTo([k \in DOMAIN S.nodes |-> IF S.nodes[k].channel = n.channel THEN S.nodes[k].qty ELSE 0], Len(S.nodes))
       /\ \A k \in DOMAIN S.tgens : Cardinality({t \in tgens : t.type = S.tgens[k].type /\ t.net = S.tgens[k].net})
             = S.tgens[k].qty

\* Whatever address an actor of the initial state is given, or a zone resolves a name
\* to, is declared and some actor of the initial state is there; every actor defined is
\* placed, no two at one address, and the module of its action model is included.  The
\* ends of a Skyhook channel begin with the same objects, if the generator wrote them.
ActorsComplete == MainWritten => ActorsFit(Out)

\* The user models of the initial state.
UserModels(out) == {a \in PlacedBy(out) : a.name[4] \in {"Um", "UmAct", "UmacAct", "UmasAct"}}

\* Do its timers start each of its user models?
UsersStart(out) ==
    LET timers == out.timers[disk["main"].notgens]
        at == {a.at : a \in PlacedBy(out)}
        To(addr) == {k \in DOMAIN timers : timers[k].to = addr}
        Started(a) == ~disk["main"].notgens \/ a.name[1] \in Channels
    IN /\ \A k \in DOMAIN timers : timers[k].to \in at \/ timers[k].base = "window"
       /\ \A a \in UserModels(out) :
             /\ Cardinality(To(a.at)) = IF Started(a) THEN 1 ELSE 0
             /\ \A k \in To(a.at) : timers[k].msg = "burstDelayTO" <=> a.model \in out.map
       /\ \A j, k \in DOMAIN timers :
             /\ timers[j].to[1] \in Channels /\ timers[j].to[3] = timers[k].to[3] /\ timers[j].to[4] = "UmAddr"
             /\ timers[k].to[1] = timers[j].to[1] /\ k # j
             => timers[j].plus > timers[k].plus

\* Every user model is started once, in the way its version understands, after the parts
\* of its channel; nothing is sent to an address where nobody is; without generators
\* none of theirs is started.
EveryoneStarts == MainWritten => UsersStart(Out)

\* When maude-hcs generate has written queries, the run of the same call can answer them:
\* it lasts to the end of the last window, measures every client asked for and observes
\* every feature at every vantage point asked for, and nothing asked for begins before
\* the covert clients do; the monitor opens its windows with them, if it is there.  The
\* script's last window may end after its run.
RunMeasures ==
    job.step = "done" /\ job.tool \in {"generate", "script"} /\ job.args.quatex =>
        LET at == {a.at : a \in PlacedBy(Output(job.tool, S))}
            pairs == disk["main"].vpts \X disk["main"].feats
            cfg == disk["quatex"]
        IN /\ IF Monitor \in Monitors(disk["main"].perf) THEN disk["run"].windowDelay = disk["run"].hcsDelay
              ELSE disk["run"].windowDelay > disk["run"].slimit
           /\ \A q \in Queries(cfg) :
                 /\ \/ job.tool = "script" /\ q.end = cfg.delay + cfg.maxWin * cfg.window
                    \/ q.end <= disk["run"].slimit /\ q.end <= disk["main"].slimit
                 /\ q.start >= disk["run"].hcsDelay
                 /\ q.what = "client" => q.of \in at
                 /\ q.what = "vantage" => q.of \in pairs /\ ~disk["main"].perf
=============================================================================
