----------------------------- MODULE Cp3Parallel -----------------------------
(***************************************************************************)
(* Baselines of the isolated channels: one baseline file for each pair of  *)
(* a vantage point and a feature, all run in a pool of processes, and      *)
(* their logs joined into the equation.  Unlike the trials of the other    *)
(* pipeline, a file that fails is not noticed before its log is read, or,  *)
(* when it has none, at all.  The parser of logs can be called by hand.    *)
(***************************************************************************)
EXTENDS Cp3Baselines

CONSTANT ParseLimits  \* limits the parser is called with by hand; 0 for none

VARIABLES tasks,    \* the pool's tasks in their order, [file |-> f, st |-> its state]
          results,  \* the directory of logs, of the files whose log could be opened
          joined,   \* the equation made of joined logs
          parsed    \* the JSON files the parser wrote by hand

parallelVars == <<tasks, results, joined, parsed>>

NoLogs == <<>>

ParallelInit ==
    /\ BaselinesInit
    /\ tasks = <<>> /\ results = NoLogs /\ joined = NoEquation /\ parsed = NoFile

-----------------------------------------------------------------------------
(* Baselines, as the parser reads them.  Maude prints one as a term: vantage  *)
(* point, feature, constant, and the distribution's numbers, if there are any. *)

parse_bl(bl) == [vantage |-> bl[1], feat |-> bl[2], k |-> bl[3], ecdf |-> bl[4]]

\* A limit keeps the first numbers of each.
parse_baseline(log, maxlimit) ==
    [bls |-> [i \in DOMAIN log.bls |->
        LET bl == parse_bl(log.bls[i])
        IN IF maxlimit = 0 \/ Len(bl.ecdf) <= maxlimit THEN bl
           ELSE [bl EXCEPT !.ecdf = SubSeq(@, 1, maxlimit)]],
     params |-> log.params]

Pair(bl) == <<bl.vantage, bl.feat>>
no_dupe_bls(bls) == \A i, j \in DOMAIN bls : Pair(bls[i]) = Pair(bls[j]) => i = j

\* Baselines are joined when there are any, of the same parameters, and no pair is twice.
AllBls(baselines) == FlattenSeq([i \in DOMAIN baselines |-> baselines[i].bls])
Joinable(baselines) ==
    /\ baselines # <<>>
    /\ \A i \in DOMAIN baselines : baselines[i].params = baselines[1].params
    /\ no_dupe_bls(AllBls(baselines))
join(baselines) == [bls |-> AllBls(baselines), params |-> baselines[1].params]

to_tne_dict(baseline) ==
    [p \in {Pair(bl) : bl \in Range(baseline.bls)} |->
        LET bl == CHOOSE b \in Range(baseline.bls) : Pair(b) = p
        IN [n_values |-> Len(bl.ecdf), k |-> bl.k, ecdf_values |-> bl.ecdf, params |-> baseline.params]]

\* Files of other pairs stay.
write_jsons(baseline, dir) == Overlay(to_tne_dict(baseline), dir)

-----------------------------------------------------------------------------
(* The tool: of a channel it clears the directory, has the script write the  *)
(* files, runs them and joins the logs.                                       *)

InIsolated(step) == job.tool = "isolated" /\ job.step = step
UntouchedPipeline == UNCHANGED <<trial, logs, equation, json>>

IsolatedArgs ==
    [baselineTime |-> 3600, runTime |-> 0, hcsDelay |-> 10, tgenDelay |-> 1, quatex |-> TRUE, perf |-> FALSE,
     confidentiality |-> FALSE, notgens |-> FALSE, parallelizeBaseline |-> TRUE, combo |-> "combo1"]

StartIsolated ==
    /\ scenario.number = -1
    /\ job.step \in {"none", "done", "failed"} /\ job.done < MaxJobs
    /\ job' = [tool |-> "isolated", step |-> "parse", args |-> IsolatedArgs, done |-> job.done + 1, ok |-> TRUE]
    /\ disk' = [disk EXCEPT !["baselines"] = NoFile]
    /\ results' = NoLogs
    /\ UntouchedPipeline /\ UNCHANGED <<scenario, tasks, joined, parsed>>

\* Every file in the directory is a task.
ListFiles ==
    /\ InIsolated("list")
    /\ tasks' = LET files == SetToSeq(DOMAIN disk["baselines"])
                IN [k \in DOMAIN files |-> [file |-> files[k], st |-> "waiting"]]
    /\ Goto("running")
    /\ UntouchedPipeline /\ UNCHANGED <<scenario, disk, results, joined, parsed>>

\* A worker takes the next task and opens its log, which empties it.  If that fails Maude
\* is not run, the error is only printed, and there is no log.
Unread(by) == [result |-> FALSE, bls |-> <<>>, params |-> <<>>, by |-> by]
StartMaude(k) ==
    /\ InIsolated("running") /\ tasks[k].st = "waiting"
    /\ \A l \in 1 .. k - 1 : tasks[l].st # "waiting"
    /\ Cardinality({l \in DOMAIN tasks : tasks[l].st = "running"}) < Workers
    /\ \/ /\ tasks' = [tasks EXCEPT ![k].st = "running"]
          /\ results' = Overlay([f \in {tasks[k].file} |-> Unread(job.done)], results)
       \/ tasks' = [tasks EXCEPT ![k].st = "finished"] /\ UNCHANGED results
    /\ UntouchedPipeline /\ UNCHANGED <<scenario, disk, job, joined, parsed>>

\* Maude measures the file's own pair, or it fails, and nobody is told.
Measured(file) ==
    LET pairs == SetToSeq(disk["baselines"][file].vpts \X disk["baselines"][file].feats)
    IN [result |-> TRUE, bls |-> [i \in DOMAIN pairs |-> <<pairs[i][1], pairs[i][2], 1, Samples[1]>>],
        params |-> [binSize |-> 10, tStart |-> 0, winSize |-> 60], by |-> job.done]
FinishMaude(k) ==
    /\ InIsolated("running") /\ tasks[k].st = "running"
    /\ tasks' = [tasks EXCEPT ![k].st = "finished"]
    /\ \/ disk["main"] # NoFile /\ results' = [results EXCEPT ![tasks[k].file] = Measured(tasks[k].file)]
       \/ UNCHANGED results
    /\ UntouchedPipeline /\ UNCHANGED <<scenario, disk, job, joined, parsed>>

MaudesOver ==
    /\ InIsolated("running") /\ \A k \in DOMAIN tasks : tasks[k].st = "finished"
    /\ Goto("join")
    /\ UntouchedPipeline /\ UNCHANGED <<scenario, disk, tasks, results, joined, parsed>>

\* Every log of a directory; one without a result ends the parser's caller.
AllRead(dir) == \A f \in DOMAIN dir : dir[f].result
Baselines(dir, maxlimit) ==
    LET names == SetToSeq(DOMAIN dir) IN [i \in DOMAIN names |-> parse_baseline(dir[names[i]], maxlimit)]

\* The joined baselines replace the empty one of the template; without a log it stays
\* empty.  Which files were generated is not looked at.
nilBaseLine == [bls |-> <<>>, params |-> <<>>]
JoinLogs ==
    /\ InIsolated("join")
    /\ IF /\ AllRead(results)
          /\ DOMAIN results = {} \/ Joinable(Baselines(results, 0))
          /\ disk["eqtmp"] # NoFile
       THEN /\ joined' = IF DOMAIN results = {} THEN nilBaseLine ELSE join(Baselines(results, 0))
            /\ job' = Ended(TRUE)
       ELSE job' = Ended(FALSE) /\ UNCHANGED joined
    /\ UntouchedPipeline /\ UNCHANGED <<scenario, disk, tasks, results, parsed>>

-----------------------------------------------------------------------------
(* The parser by hand, of one log or of a directory: it reads them all before *)
(* it writes.                                                                  *)

ParseByHand ==
    /\ job.step \in {"none", "done", "failed"} /\ job.done < MaxJobs
    /\ \E maxlimit \in ParseLimits, names \in {DOMAIN results} \cup {{f} : f \in DOMAIN results} :
          LET dir == [f \in names |-> results[f]]
              ok == AllRead(dir) /\ Joinable(Baselines(dir, maxlimit))
          IN /\ job' = [tool |-> "parse", step |-> IF ok THEN "done" ELSE "failed", args |-> [maxlimit |-> maxlimit],
                        done |-> job.done + 1, ok |-> ok]
             /\ parsed' = IF ok THEN write_jsons(join(Baselines(dir, maxlimit)), parsed) ELSE parsed
    /\ UntouchedPipeline /\ UNCHANGED <<scenario, disk, tasks, results, joined>>

Tools ==
    \/ Pipelines /\ UNCHANGED parallelVars
    \/ StartIsolated \/ ListFiles \/ MaudesOver \/ JoinLogs \/ ParseByHand
    \/ \E k \in DOMAIN tasks : StartMaude(k) \/ FinishMaude(k)

-----------------------------------------------------------------------------
(* Properties. *)

\* The pairs that the files of the directory are for.
PairsOf(files) == UNION {disk["baselines"][f].vpts \X disk["baselines"][f].feats : f \in files}

\* The tool for the isolated channels has written a file for each pair of its vantage
\* points and features, and for no other, when it reports success.  The equation then has
\* the pairs of the files whose log could be opened: each once, from a log of this call
\* and with all its numbers, for the run file it has also written.  So a pair is missing
\* only if its file has no log; that is not reported, nor that all are.
IsolatedFresh ==
    job.tool = "isolated" /\ job.step = "done" =>
        /\ PairsOf(DOMAIN disk["baselines"]) =
             {VantageId(S, v) : v \in ComboVantages(S, "combo1")} \X ComboFeatures("combo1")
        /\ DOMAIN results \subseteq DOMAIN disk["baselines"]
        /\ {Pair(bl) : bl \in Range(joined.bls)} = PairsOf(DOMAIN results)
        /\ Len(joined.bls) = Cardinality(PairsOf(DOMAIN results))
        /\ \A bl \in Range(joined.bls) : bl.ecdf = Samples[1]
        /\ \A f \in DOMAIN results : results[f].by = job.done
        /\ disk["run"].equation = "combo1"

\* Both pipelines: see PipelineFresh of the module of trials, and above.  What is written
\* for the run comes from the trials or files of this call, and from no other; it has all
\* pairs, except those of isolated channels that have no log.
EquationFresh == PipelineFresh /\ IsolatedFresh
=============================================================================
