------------------------------ MODULE Cp3Results ------------------------------
(***************************************************************************)
(* What becomes of the queries: maude-hcs scheck answers them one by one,  *)
(* and the formatter writes the answers as two JSON files.  An answer says *)
(* nothing of its query: the formatter pairs the answers with the queries  *)
(* of a file, which may have been written anew since, and puts each where  *)
(* the tag behind its query says.                                          *)
(***************************************************************************)
EXTENDS Cp3Parallel

VARIABLES stats,  \* the queries that were answered, and whether to the last
          tne     \* the pairs of the formatted files

vars == <<scenario, disk, job, trial, logs, equation, json, tasks, results, joined, parsed, stats, tne>>

Init == ParallelInit /\ stats = NoFile /\ tne = NoFile

-----------------------------------------------------------------------------
(* A query's tag: the kind of its window, a name, the window, and for some a *)
(* client or a vantage point.                                                  *)

parse_quatex(q) ==
    [typ |-> IF q.cumulative THEN "cumulative" ELSE "independent", win |-> <<q.start, q.end>>,
     name |-> CASE q.what = "system" -> q.of [] q.what = "client" -> <<"integrity">> [] q.what = "vantage" -> <<q.of[2]>>,
     extra |-> CASE q.what = "system" -> <<>> [] q.what = "client" -> q.of [] q.what = "vantage" -> q.of[1]]

is_adv_stat(tag) == tag.extra # <<>> /\ tag.name # <<"integrity">>

\* Where in the two files an answer is put.
write_adv_stat(tag) == <<"adv", tag.extra, tag.name>>
write_integrity_stat(tag) == <<"perf", "integrity", IF tag.extra = <<>> THEN <<"global">> ELSE tag.extra>>
write_perf_stat(tag) ==
    IF tag.name = <<"integrity">> THEN write_integrity_stat(tag) ELSE <<"perf", tag.name>>
Place(q) ==
    LET tag == parse_quatex(q)
    IN <<IF is_adv_stat(tag) THEN write_adv_stat(tag) ELSE write_perf_stat(tag), tag.typ, tag.win>>

-----------------------------------------------------------------------------
\* The run's queries are answered in their order; what was captured of it may end early.
RunQueries ==
    /\ job.tool \in {"generate", "script"} /\ job.step = "done"
    /\ disk["quatex"] # NoFile /\ disk["run"] # NoFile /\ stats = NoFile
    /\ \E complete \in BOOLEAN : stats' = [asked |-> disk["quatex"], complete |-> complete]
    /\ UNCHANGED <<scenario, disk, job, trial, logs, equation, json, parallelVars, tne>>

\* Answers and queries are paired as far as both go.  The answers are used up.
write_stats_to_json_file ==
    /\ job.step \in {"done", "failed"} /\ stats # NoFile
    /\ tne' = [asked |-> stats.asked, read |-> disk["quatex"], complete |-> stats.complete]
    /\ stats' = NoFile
    /\ job' = [job EXCEPT !.tool = "format", !.step = "done", !.ok = TRUE]
    /\ UNCHANGED <<scenario, disk, trial, logs, equation, json, parallelVars>>

Next ==
    \/ Tools /\ UNCHANGED <<stats, tne>>
    \/ RunQueries \/ write_stats_to_json_file

Spec == Init /\ [][Next]_vars

-----------------------------------------------------------------------------
(* Properties. *)

\* Answers to the file that is read back do not overwrite each other: the two JSON files
\* have a place for every query, and what an adversary sees is apart from performance.
ResultsFound ==
    job.tool = "format" /\ tne.asked = tne.read =>
        LET queries == Queries(tne.read)
        IN /\ Cardinality({Place(q) : q \in queries}) = Cardinality(queries)
           /\ \A q \in queries : q.what = "vantage" <=> Place(q)[1][1] = "adv"

\* What is asked for can be answered by the run (RunMeasures, where the generators are
\* modelled), and every answer is found again.
QueriesAnswerable == RunMeasures /\ ResultsFound
=============================================================================
