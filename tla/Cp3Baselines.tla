---------------------------- MODULE Cp3Baselines ----------------------------
(***************************************************************************)
(* The baseline pipeline: generate one baseline file, run it as several    *)
(* trials in a pool of processes, and combine what they print into the     *)
(* equation the run file includes, and into JSON files.  Each of the first *)
(* two steps can be skipped; the files of an earlier call are used then.   *)
(***************************************************************************)
EXTENDS Cp3Gen

CONSTANTS PipelineArgs,  \* argument lists of the pipeline
          Workers,       \* processes of the pool
          Samples,       \* what a trial measures, for each random seed: a sequence of numbers
          SizeLimit      \* most numbers of a combined distribution

ASSUME SizeLimitAssumption == SizeLimit \in Nat \ {0}

\* There is a sample for every trial that is asked for; the script is called for a combo,
\* and to start the generators.
ASSUME TrialsAssumption ==
    /\ Samples \in Seq(Seq(Int))
    /\ \A a \in PipelineArgs :
        /\ a.trials \in 1 .. Len(Samples) /\ a.combo \in ScriptCombos
        /\ {a.skipGen, a.skipRun} \subseteq BOOLEAN /\ a.notgens = FALSE

VARIABLES trial, logs, equation, json

Trials == DOMAIN Samples
Combos == {a.combo : a \in PipelineArgs}

\* A trial's log of its own combo, and what was printed: the pairs, the numbers, and
\* (as history) which call of the tool ran it.  A log without a result is broken.
Broken == [result |-> FALSE, pairs |-> {}, k |-> 0, ecdf |-> <<>>, by |-> 0]
NoLog == [Broken EXCEPT !.by = -1]
NoEquation == <<>>

BaselinesInit ==
    /\ GenInit
    /\ trial = [i \in Trials |-> "none"]
    /\ logs = [c \in Combos |-> [i \in Trials |-> NoLog]]
    /\ equation = [c \in Combos |-> [temp |-> NoEquation, out |-> NoEquation]]
    /\ json = NoFile

\* The names of the ids in the JSON files, by the number of the scenario.
MappedClients(number) ==
    IF number = 1
    THEN <<"client_net_mastodon", "client_net_racetunnel", "client_net_iodine", "client_net_obfs", "client_net_sky">>
    ELSE <<"client_net_mastodon", "client_net_racetunnel", "client_net_obfs", "client_net_sky">>
MappedServers ==
    [srvN |-> "server_net", minN |-> "minio_net", masN |-> "mastodon_net", dnsN |-> "dns_net", ixpN |-> "ixp-router"]
NET_MAPPING(number) ==
    [id \in {<<"cl", k>> : k \in DOMAIN MappedClients(number)} \cup {<<n, 0>> : n \in DOMAIN MappedServers} |->
        IF id[1] = "cl" THEN MappedClients(number)[id[2]] ELSE MappedServers[id[1]]]

\* The two scenarios' files have their client networks in the order of the names.
ASSUME NamesAssumption ==
    \A scn \in Scenarios : scn.number \in {1, 2} =>
        \E place \in [DOMAIN MappedClients(scn.number) -> DOMAIN scn.yaml.nets] :
            /\ \A j, k \in DOMAIN place : j < k => place[j] < place[k]
            /\ \A k \in DOMAIN scn.yaml.nets : scn.yaml.nets[k].name \in ClientNets => k \in Range(place)
            /\ \A j \in DOMAIN place : scn.yaml.nets[place[j]].name = MappedClients(scn.number)[j]

-----------------------------------------------------------------------------
(* Distributions. *)

\* The i-th of size evenly spaced places in n, from the first to the last.
QuantilePlace(i, n, size) == (i * (n - 1) + (size - 1) \div 2) \div (size - 1) + 1

systematic_quantile_extraction(values, size) ==
    LET n == Len(values)
    IN IF n <= size THEN values
       ELSE IF size = 1 THEN <<values[(n - 1) \div 2 + 1]>>
       ELSE [i \in 1 .. size |-> values[QuantilePlace(i - 1, n, size)]]

\* Before the number at a place fewer are less than it, and up to it as many are not greater.
Sorted(values) ==
    [i \in DOMAIN values |-> CHOOSE v \in Range(values) :
        /\ Cardinality({j \in DOMAIN values : values[j] < v}) < i
        /\ Cardinality({j \in DOMAIN values : values[j] <= v}) >= i]

\* All trials' numbers in order.
MergedEcdf(used) == Sorted(FlattenSeq([i \in 1 .. Len(used) |-> used[i].ecdf]))
SumOfK(used) == FoldSet(LAMBDA i, sum : sum + used[i].k, 0, DOMAIN used)

-----------------------------------------------------------------------------
(* The pipeline. *)

InPipeline(step) == job.tool = "pipeline" /\ job.step = step
Untouched == UNCHANGED <<scenario, disk>>

StartPipeline ==
    \E args \in PipelineArgs :
        /\ scenario.number \in {1, 2}
        /\ job.step \in {"none", "done", "failed"} /\ job.done < MaxJobs
        /\ job' = [tool |-> "pipeline", args |-> args, done |-> job.done + 1, ok |-> TRUE,
                   step |-> IF args.skipGen THEN "trials" ELSE "parse"]
        /\ Untouched /\ UNCHANGED <<trial, logs, equation, json>>

\* Without the combined file there is nothing to run.
SetUpTrials ==
    /\ InPipeline("trials")
    /\ CASE job.args.skipRun -> Goto("combine") /\ UNCHANGED trial
         [] ~job.args.skipRun /\ disk["baseline"] = NoFile -> job' = Ended(FALSE) /\ UNCHANGED trial
         [] OTHER -> Goto("running") /\ trial' = [i \in Trials |-> IF i <= job.args.trials THEN "waiting" ELSE "none"]
    /\ Untouched /\ UNCHANGED <<logs, equation, json>>

\* A worker takes the next trial and opens its log, which empties it; if that fails, an
\* earlier one stays.
StartTrial(i) ==
    /\ InPipeline("running") /\ trial[i] = "waiting"
    /\ \A j \in 1 .. i - 1 : trial[j] # "waiting"
    /\ Cardinality({j \in Trials : trial[j] = "running"}) < Workers
    /\ \/ /\ trial' = [trial EXCEPT ![i] = "running"]
          /\ logs' = [logs EXCEPT ![job.args.combo][i] = Broken]
       \/ trial' = [trial EXCEPT ![i] = "failed"] /\ UNCHANGED logs
    /\ Untouched /\ UNCHANGED <<job, equation, json>>

\* Maude loads the main file and measures every pair it names, or fails to; its exit
\* status, and messages of modules that do not load, say whether the trial is taken for
\* a success: a result is not looked for.
FinishTrial(i) ==
    /\ InPipeline("running") /\ trial[i] = "running"
    /\ \E st \in {"ok", "failed"} : trial' = [trial EXCEPT ![i] = st]
    /\ \/ /\ disk["main"] # NoFile
          /\ logs' = [logs EXCEPT ![job.args.combo][i] =
                        [result |-> TRUE, pairs |-> disk["main"].vpts \X disk["main"].feats,
                         k |-> i, ecdf |-> Samples[i], by |-> job.done]]
       \/ UNCHANGED logs
    /\ Untouched /\ UNCHANGED <<job, equation, json>>

\* All are waited for; one failure fails the pipeline.
TrialsOver ==
    /\ InPipeline("running") /\ \A i \in Trials : trial[i] \in {"none", "ok", "failed"}
    /\ IF \E i \in Trials : trial[i] = "failed" THEN job' = Ended(FALSE) ELSE Goto("combine")
    /\ Untouched /\ UNCHANGED <<trial, logs, equation, json>>

\* The logs must all be there, hold a result, and be of the same pairs.
Used == [i \in 1 .. job.args.trials |-> logs[job.args.combo][i]]
Combinable ==
    \A i \in DOMAIN Used : Used[i].result /\ Used[i].pairs = Used[1].pairs
CombinedEquation ==
    [pairs |-> Used[1].pairs,
     k |-> <<SumOfK(Used), Len(Used)>>,
     ecdf |-> systematic_quantile_extraction(MergedEcdf(Used), SizeLimit),
     from |-> Used]

\* The equation replaces the empty one of the template.  The template is the generator's
\* or, without one, the last result of this combo, where there is nothing to replace.
Template ==
    IF disk["eqtmp"] # NoFile THEN "empty"
    ELSE IF equation[job.args.combo].temp # NoEquation THEN "last" ELSE "built in"
NewEquation == IF Template = "last" THEN equation[job.args.combo].temp ELSE CombinedEquation

Combine ==
    /\ InPipeline("combine")
    /\ IF Combinable
       THEN equation' = [equation EXCEPT ![job.args.combo].temp = NewEquation] /\ Goto("write")
       ELSE job' = Ended(FALSE) /\ UNCHANGED equation
    /\ Untouched /\ UNCHANGED <<trial, logs, json>>
WriteEquation ==
    /\ InPipeline("write")
    /\ equation' = [equation EXCEPT ![job.args.combo].out = equation[job.args.combo].temp]
    /\ Goto("json")
    /\ Untouched /\ UNCHANGED <<trial, logs, json>>

\* The JSON files of this call's pairs, under the networks' names, replace those of the
\* same name; files of pairs that only other combos have stay.
JsonName(id) == IF id \in DOMAIN NET_MAPPING(scenario.number) THEN NET_MAPPING(scenario.number)[id] ELSE id
JsonFiles ==
    [p \in {<<JsonName(q[1]), q[2]>> : q \in CombinedEquation.pairs} |->
        [k |-> CombinedEquation.k, ecdf |-> CombinedEquation.ecdf]]
WriteJson ==
    /\ InPipeline("json")
    /\ json' = Overlay(JsonFiles, json)
    /\ job' = Ended(TRUE)
    /\ Untouched /\ UNCHANGED <<trial, logs, equation>>

\* The tool is killed, and its processes with it.
Kill ==
    /\ job.step \notin {"none", "done", "failed"}
    /\ job' = Ended(FALSE)
    /\ UNCHANGED <<scenario, disk, trial, logs, equation, json>>

Pipelines ==
    \/ (Generate \/ Script) /\ UNCHANGED <<trial, logs, equation, json>>
    \/ StartPipeline \/ SetUpTrials \/ TrialsOver \/ Combine \/ WriteEquation \/ WriteJson
    \/ \E i \in Trials : StartTrial(i) \/ FinishTrial(i)
    \/ Kill

-----------------------------------------------------------------------------
(* Properties. *)

\* A pipeline that was told to skip nothing and reports success has written the equation
\* of its own trials, as many as asked for and no other call's: for exactly the pairs of
\* its combo, the mean of their k, and of their numbers at most SizeLimit in order, the
\* least and the greatest among them.  The JSON file of each of these pairs, under the
\* right network's name, has the same numbers; of other pairs there may be older ones.
PipelineFresh ==
    job.tool = "pipeline" /\ job.step = "done" /\ ~job.args.skipGen /\ ~job.args.skipRun =>
        LET eq == equation[job.args.combo].out
            own == UNION {Range(Samples[i]) : i \in 1 .. job.args.trials}
        IN /\ Len(eq.from) = job.args.trials
           /\ \A i \in DOMAIN eq.from : eq.from[i].by = job.done /\ eq.from[i].ecdf = Samples[i]
           /\ eq.pairs = {VantageId(S, v) : v \in ComboVantages(S, job.args.combo)} \X ComboFeatures(job.args.combo)
           /\ eq.k = <<SumOfK(eq.from), job.args.trials>>
           /\ Len(eq.ecdf) = (IF Len(MergedEcdf(eq.from)) < SizeLimit THEN Len(MergedEcdf(eq.from)) ELSE SizeLimit)
           /\ \A j, k \in DOMAIN eq.ecdf : j < k => eq.ecdf[j] <= eq.ecdf[k]
           /\ Range(eq.ecdf) \subseteq own
           /\ SizeLimit > 1 /\ own # {} => {Min(own), Max(own)} \subseteq Range(eq.ecdf)
           /\ \A p \in ComboVantages(S, job.args.combo) \X ComboFeatures(job.args.combo) :
                p \in DOMAIN json /\ json[p] = [k |-> eq.k, ecdf |-> eq.ecdf]
=============================================================================
