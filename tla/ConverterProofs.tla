--------------------------- MODULE ConverterProofs ---------------------------
(***************************************************************************)
(* Proofs about ModelConverter: what a conversion may do to the models of  *)
(* the library and the scenario, what a tool has done when it ends, and    *)
(* what a build provides.                                                  *)
(***************************************************************************)
EXTENDS ModelConverter, FiniteSetTheorems, TLAPS

-----------------------------------------------------------------------------
(* The inductive invariant. *)

Files == LibraryFiles \cup ScenarioFiles
Loaded == {ModelFile(m) : m \in ModelFiles(Yaml)}
BuildJob(dir) == Conversion(IF Burst(dir) THEN "v2" ELSE "v1", dir, BuildProto(dir), "build", "build")
Jobs == {c \in ByHand : Fits(c)} \cup {BuildJob(d) : d \in Dirs}

AtFile == {"file", "maude", "copy", "json"}
Steps == AtFile \cup {"none", "walk", "done", "failed"}
Tools ==
    [build : BOOLEAN, step : Steps, plan : Seq(Jobs), files : SUBSET Files, todo : SUBSET Files,
     at : Files, logged : SUBSET Paths, started : Nat]

TypeOK ==
    /\ json \in [Paths -> {"none", "broken", "whole", "cut"}]
    /\ DOMAIN maude = Paths
    /\ tool \in Tools
    /\ faults \in Nat

\* What a tool at a file is about.
AtWork ==
    /\ tool.step \in AtFile \cup {"walk", "done"} => tool.plan # <<>>
    /\ tool.step \in AtFile \cup {"done"} =>
          tool.todo \subseteq tool.files /\ \A f \in tool.files : f.dir = Job.dir
    /\ tool.step \in {"maude", "copy", "json"} => tool.at \in tool.files /\ tool.at \notin tool.todo
    /\ tool.step \in {"copy", "json"} => First
    /\ tool.step = "copy" => maude[OutFile(tool.at)] = Generate(Job, tool.at)
    /\ tool.step \in {"walk", "done"} => tool.todo = {}
    /\ tool.step = "done" => Len(tool.plan) = 1

\* Of the files it was given, those it is through with are converted or logged.
Converted ==
    tool.step \in AtFile \cup {"done"} =>
        \A f \in tool.files \ tool.todo :
            \/ OutFile(f) \in tool.logged
            \/ maude[OutFile(f)] = Generate(Job, f)
            \/ tool.step = "maude" /\ tool.at = f

\* A build comes to a file when it comes to its directory.
Waiting(f) ==
    \/ \E k \in DOMAIN tool.plan : tool.plan[k].dir = f.dir /\ (k = 1 => tool.step = "walk")
    \/ f \in tool.todo
    \/ tool.step = "maude" /\ tool.at = f
Built ==
    tool.build /\ tool.step \in AtFile \cup {"walk", "done"} =>
        /\ \A k \in DOMAIN tool.plan : tool.plan[k] = BuildJob(tool.plan[k].dir)
        /\ tool.logged = {} =>
              \A f \in Loaded : Waiting(f) \/ maude[<<"build", f>>] = Generate(BuildJob(f.dir), f)

\* The scenario has the JSON file of each of its models, and a build has its copy.
JsonThere ==
    \A f \in ScenarioFiles :
        /\ json[<<"scenario", f>>] # "none"
        /\ tool.build => json[<<"build", f>>] # "none"

Inv == TypeOK /\ AtWork /\ ProfileKept /\ Converted /\ Built /\ JsonThere

-----------------------------------------------------------------------------
(* Files and conversions. *)

\* A file in a place is a path, whose file is the place's own.
LEMMA FilePath ==
    ASSUME NEW p \in Places, NEW f \in Files
    PROVE  <<p, f>> \in Paths
BY DEF Paths, Files

\* The monitor's model is one of the scenario's, in a directory of the first version.
LEMMA MonitorFile ==
    /\ Monitor0 \in Files /\ Monitor0.dir \in Dirs
    /\ Monitor0.dir[1] # "lib" /\ ~Burst(Monitor0.dir)
<1>1. Monitor0 \in Files
    BY DEF Files, ScenarioFiles
<1>2. Monitor0.dir \in Dirs
    BY <1>1 DEF Dirs, Files
<1>3. Monitor0.dir = <<"tgen_user_models", "minio-monitor-tgen">>
    BY DEF Monitor0
<1>. QED
    BY <1>1, <1>2, <1>3 DEF Burst

Kinds == {"v1", "v1alone", "v2", "v2alone", "v2single"}

\* A conversion that writes to the library or the scenario reads there, too; one of the
\* first version takes a directory of the first version.
LEMMA JobFacts ==
    ASSUME NEW c \in Jobs
    PROVE  /\ c.kind \in Kinds /\ c.place \in Places /\ c.out \in Places
           /\ c.out \in {"library", "scenario"} => c.out = c.place
           /\ c.kind \in {"v1", "v1alone"} => ~Burst(c.dir)
<1>1. CASE c \in ByHand /\ Fits(c)
    <2>1. CASE \E k \in {"v1", "v1alone"}, d \in {e \in Dirs : ~Burst(e)}, p \in {"library", "scenario"},
                  o \in Places \ {"build"} : c = Conversion(k, d, d[2], p, o)
        BY <1>1, <2>1 DEF Conversion, Fits, Kinds, Places
    <2>2. CASE \E k \in {"v2alone", "v2single"}, d \in {e \in Dirs : Burst(e)}, proto \in {"irc", "ftp", "ftp-tgen"} :
                  c = Conversion(k, d, proto, "scenario", "scenario")
        BY <2>2 DEF Conversion, Kinds, Places
    <2>. QED
        BY <1>1, <2>1, <2>2 DEF ByHand
<1>2. CASE \E d \in Dirs : c = BuildJob(d)
    BY <1>2 DEF BuildJob, Conversion, Kinds, Places
<1>. QED
    BY <1>1, <1>2 DEF Jobs

\* A conversion's module is whole, and has all the sections of its JSON file.
LEMMA GenerateFacts ==
    ASSUME NEW c \in Jobs, NEW f, f.dir = c.dir
    PROVE  Generate(c, f).state = "whole" /\ Generate(c, f).prints = Sections(f)
<1>1. \A proto, load : generate_v2(f, proto, load).state = "whole" /\ generate_v2(f, proto, load).prints = Sections(f)
    BY DEF generate_v2
<1>2. ASSUME ~Burst(f.dir)
      PROVE  \A proto, load : generate_v1(f, proto, load).state = "whole" /\ generate_v1(f, proto, load).prints = Sections(f)
    <2>1. convert_sections_v1(f) = Sections(f)
        BY <1>2 DEF convert_sections_v1, Sections
    <2>. QED
        BY <2>1 DEF generate_v1
<1>3. CASE c.kind \in {"v1", "v1alone"}
    BY <1>2, <1>3, JobFacts DEF Generate, generate_v1_cli
<1>4. CASE c.kind \in {"v2", "v2alone", "v2single"}
    BY <1>1, <1>4 DEF Generate
<1>. QED
    BY <1>3, <1>4, JobFacts DEF Kinds

-----------------------------------------------------------------------------
(* The plan of a build. *)

\* What a function takes finitely many arguments to is finite.
LEMMA FiniteImage ==
    ASSUME NEW S, IsFiniteSet(S), NEW g, DOMAIN g = S, NEW T, T = {g[x] : x \in S}
    PROVE  IsFiniteSet(T)
<1>. DEFINE h == [x \in S |-> g[x]]
<1>1. h \in [S -> T] /\ \A t \in T : \E x \in S : h[x] = t
    OBVIOUS
<1>2. h \in Surjection(S, T)
    BY <1>1 DEF Surjection
<1>. QED
    BY <1>2, FS_Surjection

\* A scenario has finitely many directories of models.
LEMMA FiniteDirs == IsFiniteSet(Dirs)
<1>. DEFINE M == ModelFiles(Yaml)
            loads == [m \in M |-> ScriptModelFile(m)]
            files == [m \in M |-> ModelFile(m)]
            dirs == [f \in Files |-> f.dir]
<1>1. IsFiniteSet(M)
    BY ScenarioAssumption
<1>2. IsFiniteSet(ScriptLoads(Yaml))
    <2>. HIDE DEF M
    <2>0. DOMAIN loads = M
        OBVIOUS
    <2>1. {ScriptModelFile(m) : m \in M} = {loads[m] : m \in M}
        OBVIOUS
    <2>. HIDE DEF loads
    <2>2. IsFiniteSet({ScriptModelFile(m) : m \in M})
        BY <1>1, <2>0, <2>1, FiniteImage
    <2>. QED
        BY <2>2 DEF M, ScriptLoads
<1>3. IsFiniteSet(LibraryFiles)
    BY <1>2, FS_Subset DEF LibraryFiles
<1>4. IsFiniteSet({ModelFile(m) : m \in M})
    <2>. HIDE DEF M
    <2>0. DOMAIN files = M
        OBVIOUS
    <2>1. {ModelFile(m) : m \in M} = {files[m] : m \in M}
        OBVIOUS
    <2>. HIDE DEF files
    <2>. QED
        BY <1>1, <2>0, <2>1, FiniteImage
<1>5. IsFiniteSet(Files)
    BY <1>3, <1>4, FS_Singleton, FS_Union DEF Files, ScenarioFiles
<1>6. Dirs = {dirs[f] : f \in Files}
    BY DEF Dirs, Files
<1>. HIDE DEF dirs
<1>7. DOMAIN dirs = Files
    BY DEF dirs
<1>. QED
    BY <1>5, <1>6, <1>7, FiniteImage

\* The members of a finite set, in some order.
LEMMA InSomeOrder ==
    ASSUME NEW S, IsFiniteSet(S)
    PROVE  /\ SetToSeq(S) \in Seq(S)
           /\ \A x \in S : \E k \in DOMAIN SetToSeq(S) : SetToSeq(S)[k] = x
<1>. DEFINE n == Cardinality(S)
<1>1. n \in Nat /\ ExistsBijection(1 .. n, S)
    BY FS_CardinalityType
<1>2. PICK g \in Bijection(1 .. n, S) : TRUE
    BY <1>1 DEF ExistsBijection
<1>3. g \in [1 .. n -> S] /\ IsInjective(g)
    BY <1>2 DEF Bijection, Injection
<1>4. SetToSeq(S) \in [1 .. n -> S] /\ IsInjective(SetToSeq(S))
    BY <1>3 DEF SetToSeq
<1>5. SetToSeq(S) \in Injection(1 .. n, S)
    BY <1>4 DEF Injection
<1>6. IsFiniteSet(1 .. n) /\ Cardinality(1 .. n) = n
    BY <1>1, FS_Interval
<1>7. SetToSeq(S) \in Surjection(1 .. n, S)
    BY <1>5, <1>6, FS_Injection
<1>8. SetToSeq(S) \in Seq(S)
    BY <1>1, <1>4
<1>9. \A x \in S : \E k \in 1 .. n : SetToSeq(S)[k] = x
    BY <1>7 DEF Surjection
<1>. QED
    BY <1>4, <1>8, <1>9

\* A model's file is in a directory of its own kind, and not in the library.
LEMMA LoadedFacts ==
    ASSUME NEW m \in ModelFiles(Yaml)
    PROVE  /\ ModelFile(m) \in Loaded /\ ModelFile(m) \in ScenarioFiles /\ ModelFile(m) \in Files
           /\ ModelFile(m).dir[1] \in {"action_models", "user_models", "tgen_user_models"}
           /\ ModelFile(m).dir[2] = m[1]
           /\ ModelFile(m).dir \in Dirs
<1>1. ModelFile(m) \in ScenarioFiles /\ ModelFile(m) \in Files /\ ModelFile(m) \in Loaded
    BY DEF ScenarioFiles, Files, Loaded
<1>2. /\ ModelFile(m).dir[1] \in {"action_models", "user_models", "tgen_user_models"}
      /\ ModelFile(m).dir[2] = m[1]
    <2>1. CASE m[1] \in Channels
        BY <2>1 DEF ModelFile
    <2>2. CASE m[1] \notin Channels /\ m[1] = "irc"
        BY <2>2 DEF ModelFile
    <2>3. CASE m[1] \notin Channels /\ m[1] # "irc"
        BY <2>3 DEF ModelFile
    <2>. QED
        BY <2>1, <2>2, <2>3
<1>. QED
    BY <1>1, <1>2 DEF Dirs, Files

\* A build comes to the directory of every model the main file loads, and converts each
\* directory by the version it holds.
LEMMA PlanFacts ==
    /\ build_plan \in Seq(Jobs) /\ build_plan # <<>>
    /\ \A k \in DOMAIN build_plan : build_plan[k] = BuildJob(build_plan[k].dir)
    /\ \A f \in Loaded : \E k \in DOMAIN build_plan : build_plan[k].dir = f.dir
<1>. DEFINE Of(v) == {d \in Dirs : d[1] # "lib" /\ (Burst(d) <=> v = 2)}
            one == SetToSeq(Of(1))
            two == SetToSeq(Of(2))
<1>1. IsFiniteSet(Of(1)) /\ IsFiniteSet(Of(2))
    BY FiniteDirs, FS_Subset
<1>2. /\ one \in Seq(Of(1)) /\ two \in Seq(Of(2))
      /\ \A d \in Of(1) : \E k \in DOMAIN one : one[k] = d
      /\ \A d \in Of(2) : \E k \in DOMAIN two : two[k] = d
    BY <1>1, InSomeOrder
<1>3. build_dirs = one \o two
    BY DEF build_dirs
<1>4. one \in Seq(Dirs) /\ two \in Seq(Dirs)
    BY <1>2
<1>5. \A d \in Dirs : d[1] # "lib" => d \in Of(1) \/ d \in Of(2)
    OBVIOUS
<1>. HIDE DEF Of, one, two
<1>6. build_dirs \in Seq(Dirs)
    BY <1>3, <1>4
<1>7. \A d \in Dirs : d[1] # "lib" => \E k \in DOMAIN build_dirs : build_dirs[k] = d
    <2>. SUFFICES ASSUME NEW d \in Dirs, d[1] # "lib"
                  PROVE  \E k \in DOMAIN build_dirs : build_dirs[k] = d
        OBVIOUS
    <2>1. CASE d \in Of(1)
        <3>1. PICK k \in DOMAIN one : one[k] = d
            BY <1>2, <2>1
        <3>2. k \in DOMAIN build_dirs /\ build_dirs[k] = d
            BY <1>3, <1>4, <3>1
        <3>. QED
            BY <3>2
    <2>2. CASE d \in Of(2)
        <3>1. PICK k \in DOMAIN two : two[k] = d
            BY <1>2, <2>2
        <3>2. Len(one) + k \in DOMAIN build_dirs /\ build_dirs[Len(one) + k] = d
            BY <1>3, <1>4, <3>1
        <3>. QED
            BY <3>2
    <2>. QED
        BY <1>5, <2>1, <2>2
<1>8. /\ DOMAIN build_plan = DOMAIN build_dirs
      /\ \A k \in DOMAIN build_dirs : build_plan[k] = BuildJob(build_dirs[k])
    BY DEF build_plan, BuildJob
<1>9. \A d : BuildJob(d).dir = d
    BY DEF BuildJob, Conversion
<1>10. \A k \in DOMAIN build_dirs : build_plan[k] \in Jobs
    BY <1>6, <1>8 DEF Jobs
<1>11. build_plan \in Seq(Jobs)
    <2>1. build_plan = [k \in 1 .. Len(build_dirs) |-> build_plan[k]]
        BY <1>6 DEF build_plan
    <2>2. Len(build_dirs) \in Nat /\ DOMAIN build_dirs = 1 .. Len(build_dirs)
        BY <1>6
    <2>. QED
        BY <1>10, <2>1, <2>2
<1>12. \A k \in DOMAIN build_plan : build_plan[k] = BuildJob(build_plan[k].dir)
    BY <1>8, <1>9
<1>13. \A f \in Loaded : \E k \in DOMAIN build_plan : build_plan[k].dir = f.dir
    BY <1>7, <1>8, <1>9, LoadedFacts DEF Loaded
<1>14. build_plan # <<>>
    BY <1>7, <1>8, MonitorFile
<1>. QED
    BY <1>11, <1>12, <1>13, <1>14

-----------------------------------------------------------------------------
(* Types. *)

\* The job of a tool at work is a conversion, and what follows it in the plan is a plan.
LEMMA JobType ==
    ASSUME TypeOK, AtWork, tool.step \in AtFile \cup {"walk", "done"}
    PROVE  /\ Job \in Jobs /\ Job = tool.plan[1]
           /\ Len(tool.plan) \in Nat \ {0}
           /\ \A f \in Files : In(f) \in Paths /\ OutFile(f) \in Paths
<1>1. tool.plan \in Seq(Jobs) /\ tool.plan # <<>>
    BY DEF TypeOK, Tools, AtWork
<1>2. Job \in Jobs /\ Job = tool.plan[1] /\ Len(tool.plan) \in Nat \ {0}
    BY <1>1 DEF Job
<1>3. \A f \in Files : In(f) \in Paths /\ OutFile(f) \in Paths
    BY <1>2, JobFacts, FilePath DEF In, OutFile
<1>. QED
    BY <1>2, <1>3

\* Where the tool stands.
LEMMA ToolFields ==
    ASSUME TypeOK
    PROVE  /\ tool.build \in BOOLEAN /\ tool.step \in Steps /\ tool.plan \in Seq(Jobs)
           /\ tool.files \subseteq Files /\ tool.todo \subseteq Files /\ tool.at \in Files
           /\ tool.logged \subseteq Paths /\ tool.started \in Nat
BY DEF TypeOK, Tools

\* An idle tool.
LEMMA IdleType == Idle \in Tools
<1>1. <<>> \in Seq(Jobs)
    OBVIOUS
<1>. QED
    BY <1>1, MonitorFile DEF Idle, Tools, Steps, AtFile

\* Every step of a tool is one of the conversions of files.
LEMMA ToolType ==
    ASSUME TypeOK, AtWork, [Next]_vars
    PROVE  tool' \in Tools
<1>. USE DEF TypeOK
<1>1. CASE StartConverter
    <2>1. PICK c \in {d \in ByHand : Fits(d)} : Begin(FALSE, <<c>>)
        BY <1>1 DEF StartConverter
    <2>2. <<c>> \in Seq(Jobs)
        BY DEF Jobs
    <2>3. tool.started + 1 \in Nat
        BY ToolFields
    <2>. QED
        BY <2>1, <2>2, <2>3, IdleType DEF Begin, Tools, Steps, AtFile
<1>2. CASE StartCommandLineV2
    <2>3. tool.started + 1 \in Nat
        BY ToolFields
    <2>. QED
        BY <1>2, <2>3, IdleType DEF StartCommandLineV2, Tools, Steps, AtFile
<1>3. CASE StartBuild
    <2>3. tool.started + 1 \in Nat
        BY ToolFields
    <2>. QED
        BY <1>3, <2>3, IdleType, PlanFacts DEF StartBuild, Begin, Tools, Steps, AtFile
<1>4. CASE Walk
    <2>. DEFINE files == {f \in Files : f.dir = Job.dir /\ json[In(f)] # "none"}
    <2>1. PICK taken \in Taken(files) : tool' = [tool EXCEPT !.files = taken, !.todo = taken, !.step = "file"]
        BY <1>4 DEF Walk, Files
    <2>2. taken \subseteq Files
        BY <2>1 DEF Taken
    <2>. QED
        BY <2>1, <2>2 DEF Tools, Steps, AtFile
<1>5. ASSUME NEW f \in Files, Log(f), tool.step \in AtFile PROVE tool' \in Tools
    <2>1. OutFile(f) \in Paths
        BY <1>5, JobType
    <2>2. tool.logged \cup {OutFile(f)} \subseteq Paths /\ tool.todo \ {f} \subseteq Files
        BY <2>1, ToolFields
    <2>3. (IF Job.kind = "v2single" THEN "failed" ELSE "file") \in Steps
        BY DEF Steps, AtFile
    <2>. HIDE DEF TypeOK
    <2>4. tool \in Tools
        BY DEF TypeOK
    <2>. QED
        BY <1>5, <2>2, <2>3, <2>4 DEF Log, Tools
<1>6. CASE \E f \in Files : Take(f)
    <2>1. PICK f \in Files : Take(f)
        BY <1>6
    <2>2. CASE Log(f)
        BY <1>5, <2>1, <2>2 DEF Take, AtFile
    <2>3. CASE tool' = [tool EXCEPT !.at = f, !.todo = @ \ {f}, !.step = "maude"]
        BY <2>3, ToolFields DEF Tools, Steps, AtFile
    <2>. QED
        BY <2>1, <2>2, <2>3 DEF Take
<1>7. ASSUME NEW step \in Steps, Goto(step) PROVE tool' \in Tools
    BY <1>7 DEF Goto, Tools
<1>8. CASE WriteMaude
    BY <1>7, <1>8 DEF WriteMaude, Steps, AtFile
<1>9. CASE OpenJson
    BY <1>7, <1>9 DEF OpenJson, Steps, AtFile
<1>10. CASE WriteJson
    BY <1>7, <1>10 DEF WriteJson, Steps, AtFile
<1>11. CASE EndDirectory
    <2>1. Tail(tool.plan) \in Seq(Jobs)
        BY <1>11, ToolFields, JobType DEF EndDirectory, AtFile, Job, AtWork
    <2>2. CASE tool' = [tool EXCEPT !.step = "done"]
        BY <2>2 DEF Tools, Steps, AtFile
    <2>3. CASE tool' = [tool EXCEPT !.step = "walk", !.plan = Tail(@)]
        BY <2>1, <2>3 DEF Tools, Steps, AtFile
    <2>. QED
        BY <1>11, <2>2, <2>3 DEF EndDirectory
<1>12. CASE WriteFails
    BY <1>5, <1>12, ToolFields DEF WriteFails, AtFile
<1>13. CASE Kill
    BY <1>13, IdleType, ToolFields DEF Kill, Tools, Steps, AtFile
<1>14. CASE UNCHANGED vars
    BY <1>14 DEF vars
<1>. QED
    BY <1>1, <1>2, <1>3, <1>4, <1>6, <1>8, <1>9, <1>10, <1>11, <1>12, <1>13, <1>14 DEF Next, Files

\* Paths have JSON files in one of four states, and modules.
LEMMA TypeStep ==
    ASSUME TypeOK, AtWork, [Next]_vars
    PROVE  TypeOK'
<1>. DEFINE States == {"none", "broken", "whole", "cut"}
<1>1. json' \in [Paths -> States]
    <2>1. CASE StartBuild
        <3>1. \A p \in Paths : p[1] = "build" => <<"scenario", p[2]>> \in Paths
            BY DEF Paths, Places
        <3>. QED
            BY <2>1, <3>1 DEF StartBuild, TypeOK
    <2>2. CASE OpenJson \/ WriteJson
        BY <2>2 DEF OpenJson, WriteJson, TypeOK
    <2>3. CASE UNCHANGED json
        BY <2>3 DEF TypeOK
    <2>. QED
        BY <2>1, <2>2, <2>3 DEF Next, vars, StartConverter, StartCommandLineV2, Walk, Take, WriteMaude,
              EndDirectory, WriteFails, Kill
<1>2. DOMAIN maude' = Paths
    BY DEF TypeOK, Next, vars, StartConverter, StartCommandLineV2, StartBuild, Walk, Take, WriteMaude, OpenJson, WriteJson,
              EndDirectory, WriteFails, Kill
<1>3. faults' \in Nat
    <2>1. faults' = faults \/ faults' = faults + 1
        BY Zenon DEF Next, vars, StartConverter, StartCommandLineV2, StartBuild, Walk, Take, WriteMaude,
              OpenJson, WriteJson, EndDirectory, WriteFails, Kill
    <2>. QED
        BY <2>1 DEF TypeOK
<1>. QED
    BY <1>1, <1>2, <1>3, ToolType DEF TypeOK

-----------------------------------------------------------------------------
(* Models kept. *)

\* While a JSON file of the library or the scenario is cut, its module is whole.
LEMMA ProfileStep ==
    ASSUME TypeOK, AtWork, ProfileKept, [Next]_vars
    PROVE  ProfileKept'
<1>. SUFFICES ASSUME NEW p \in {"library", "scenario"} \X (LibraryFiles \cup ScenarioFiles), json'[p] = "cut"
              PROVE  maude'[p].state = "whole" /\ maude'[p].prints = Sections(p[2])
    BY DEF ProfileKept
<1>1. p \in Paths /\ p[1] \in {"library", "scenario"} /\ p[2] \in Files /\ p = <<p[1], p[2]>>
    BY DEF Paths, Places, Files
<1>2. json[p] = "cut" => maude[p].state = "whole" /\ maude[p].prints = Sections(p[2])
    BY DEF ProfileKept
<1>3. CASE StartBuild
    BY <1>1, <1>2, <1>3 DEF StartBuild
<1>4. ASSUME NEW f \in Files, Take(f)
      PROVE  maude'[p].state = "whole" /\ maude'[p].prints = Sections(p[2])
    <2>1. json[p] = "cut"
        BY <1>4 DEF Take
    <2>2. Job \in Jobs
        BY <1>4, JobType DEF Take, AtFile
    <2>3. p = OutFile(f) => p = In(f)
        BY <1>1, <2>2, JobFacts DEF OutFile, In
    <2>4. CASE json[In(f)] # "whole"
        BY <1>2, <1>4, <2>1, <2>4 DEF Take
    <2>5. CASE json[In(f)] = "whole"
        <3>1. p # OutFile(f) /\ maude' = [maude EXCEPT ![OutFile(f)] = Cut]
            BY <1>4, <2>1, <2>3, <2>5 DEF Take
        <3>2. maude'[p] = maude[p]
            BY <1>1, <3>1 DEF TypeOK
        <3>. QED
            BY <1>2, <2>1, <3>2
    <2>. QED
        BY <2>4, <2>5
<1>5. CASE WriteMaude
    <2>1. json[p] = "cut" /\ tool.step = "maude" /\ maude' = [maude EXCEPT ![OutFile(tool.at)] = Generate(Job, tool.at)]
        BY <1>5 DEF WriteMaude
    <2>2. Job \in Jobs /\ tool.at.dir = Job.dir
        BY <2>1, JobType DEF AtFile, AtWork
    <2>3. CASE p = OutFile(tool.at)
        <3>1. maude'[p] = Generate(Job, tool.at) /\ p[2] = tool.at
            BY <1>1, <2>1, <2>3 DEF TypeOK, OutFile
        <3>. QED
            BY <2>2, <3>1, GenerateFacts
    <2>4. CASE p # OutFile(tool.at)
        BY <1>1, <1>2, <2>1, <2>4 DEF TypeOK
    <2>. QED
        BY <2>3, <2>4
<1>6. CASE OpenJson
    <2>1. tool.step = "copy" /\ maude' = maude /\ json' = [json EXCEPT ![OutFile(tool.at)] = "cut"]
        BY <1>6 DEF OpenJson
    <2>2. Job \in Jobs /\ tool.at.dir = Job.dir /\ maude[OutFile(tool.at)] = Generate(Job, tool.at)
        BY <2>1, JobType DEF AtFile, AtWork
    <2>3. CASE p = OutFile(tool.at)
        <3>1. p[2] = tool.at
            BY <2>3 DEF OutFile
        <3>. QED
            BY <2>1, <2>2, <2>3, <3>1, GenerateFacts
    <2>4. CASE p # OutFile(tool.at)
        BY <1>1, <1>2, <2>1, <2>4 DEF TypeOK
    <2>. QED
        BY <2>3, <2>4
<1>7. CASE WriteJson
    BY <1>1, <1>2, <1>7 DEF WriteJson, TypeOK
<1>8. CASE UNCHANGED <<json, maude>>
    BY <1>2, <1>8
<1>. QED
    BY <1>3, <1>4, <1>5, <1>6, <1>7, <1>8 DEF Next, vars, StartConverter, StartCommandLineV2, Walk,
          EndDirectory, WriteFails, Kill, Files

-----------------------------------------------------------------------------
(* Fields of a tool at work. *)

\* A step that leaves the tool's job as it is.
Kept == tool'.build = tool.build /\ tool'.plan = tool.plan /\ tool'.files = tool.files

\* Log.
LEMMA LogFields ==
    ASSUME TypeOK, NEW f, Log(f)
    PROVE  /\ Kept /\ tool'.at = tool.at /\ tool'.todo = tool.todo \ {f}
           /\ tool'.logged = tool.logged \cup {OutFile(f)}
           /\ tool'.step \in {"failed", "file"}
BY DEF TypeOK, Tools, Log, Kept

\* A file that is read.
LEMMA TakenFields ==
    ASSUME TypeOK, NEW f, tool' = [tool EXCEPT !.at = f, !.todo = @ \ {f}, !.step = "maude"]
    PROVE  /\ Kept /\ tool'.at = f /\ tool'.todo = tool.todo \ {f}
           /\ tool'.logged = tool.logged /\ tool'.step = "maude"
BY DEF TypeOK, Tools, Kept

\* Goto.
LEMMA GotoFields ==
    ASSUME TypeOK, NEW step, Goto(step)
    PROVE  /\ Kept /\ tool'.at = tool.at /\ tool'.todo = tool.todo
           /\ tool'.logged = tool.logged /\ tool'.step = step
BY DEF TypeOK, Tools, Goto, Kept

\* Begin.
LEMMA BeginFields ==
    ASSUME NEW build \in BOOLEAN, NEW plan, Begin(build, plan)
    PROVE  /\ tool'.build = build /\ tool'.plan = plan /\ tool'.logged = {} /\ tool'.todo = {} /\ tool'.step = "walk"
BY DEF Begin, Idle

\* The end of a tool.
LEMMA StoppedFields ==
    ASSUME NEW n, tool' = [Idle EXCEPT !.step = "failed", !.started = n]
    PROVE  tool'.step = "failed" /\ tool'.build = FALSE
BY DEF Idle

\* The JSON files of a directory.
LEMMA WalkFields ==
    ASSUME TypeOK, NEW taken, tool' = [tool EXCEPT !.files = taken, !.todo = taken, !.step = "file"]
    PROVE  /\ tool'.build = tool.build /\ tool'.plan = tool.plan /\ tool'.logged = tool.logged
           /\ tool'.files = taken /\ tool'.todo = taken /\ tool'.step = "file"
BY DEF TypeOK, Tools

\* The next directory.
LEMMA NextFields ==
    ASSUME TypeOK, tool' = [tool EXCEPT !.step = "walk", !.plan = Tail(@)]
    PROVE  /\ tool'.build = tool.build /\ tool'.plan = Tail(tool.plan) /\ tool'.logged = tool.logged
           /\ tool'.todo = tool.todo /\ tool'.step = "walk"
BY DEF TypeOK, Tools

\* What a tool in its job calls its own stays so.
LEMMA KeptFacts ==
    ASSUME Kept
    PROVE  /\ Job' = Job /\ (First' <=> First)
           /\ \A f : In(f)' = In(f) /\ OutFile(f)' = OutFile(f)
BY DEF Kept, Job, In, OutFile, First

-----------------------------------------------------------------------------
(* What a tool at a file is about, and what it is through with. *)

\* A tool that is logging is still at its directory, or fails.
LEMMA LogWork ==
    ASSUME TypeOK, AtWork, tool.step \in AtFile, NEW f, Log(f)
    PROVE  AtWork'
<1>1. /\ Kept /\ tool'.todo = tool.todo \ {f} /\ tool'.step \in {"failed", "file"}
    BY LogFields
<1>2. /\ tool.plan # <<>> /\ tool.todo \subseteq tool.files
      /\ \A g \in tool.files : g.dir = Job.dir
    BY DEF AtWork
<1>3. tool'.plan # <<>> /\ tool'.todo \subseteq tool'.files /\ \A g \in tool'.files : g.dir = Job'.dir
    BY <1>1, <1>2, KeptFacts DEF Kept
<1>. QED
    BY <1>1, <1>3 DEF AtWork, AtFile

\* What is left of a plan after its first conversion.
LEMMA TailFacts ==
    ASSUME NEW S, NEW plan \in Seq(S), plan # <<>>
    PROVE  /\ Tail(plan) \in Seq(S) /\ Len(Tail(plan)) = Len(plan) - 1 /\ Len(plan) \in Nat \ {0}
           /\ Len(plan) # 1 => Tail(plan) # <<>>
           /\ \A k \in DOMAIN Tail(plan) : k + 1 \in DOMAIN plan /\ Tail(plan)[k] = plan[k + 1]
           /\ \A k \in DOMAIN plan : k # 1 => k - 1 \in DOMAIN Tail(plan) /\ Tail(plan)[k - 1] = plan[k]
<1>1. Tail(plan) \in Seq(S) /\ Len(Tail(plan)) = Len(plan) - 1 /\ Len(plan) \in Nat \ {0}
    OBVIOUS
<1>2. Len(plan) # 1 => Tail(plan) # <<>>
    <2>1. \A s : s = <<>> => Len(s) = 0
        OBVIOUS
    <2>2. \A n, m \in Nat : n = m - 1 /\ n = 0 => m = 1
        OBVIOUS
    <2>3. Len(Tail(plan)) \in Nat
        BY <1>1
    <2>. QED
        BY <1>1, <2>1, <2>2, <2>3
<1>3. \A k \in 1 .. Len(plan) - 1 : Tail(plan)[k] = plan[k + 1]
    OBVIOUS
<1>4. DOMAIN plan = 1 .. Len(plan) /\ DOMAIN Tail(plan) = 1 .. Len(plan) - 1
    BY <1>1
<1>. QED
    BY <1>1, <1>2, <1>3, <1>4

\* What a tool at a file is about stays so.
LEMMA WorkStep ==
    ASSUME TypeOK, AtWork, [Next]_vars
    PROVE  AtWork'
<1>1. CASE StartConverter
    <2>1. PICK c \in {d \in ByHand : Fits(d)} : Begin(FALSE, <<c>>)
        BY <1>1 DEF StartConverter
    <2>2. tool'.plan = <<c>> /\ tool'.todo = {} /\ tool'.step = "walk"
        BY <2>1, BeginFields
    <2>. QED
        BY <2>2 DEF AtWork, AtFile
<1>2. CASE StartCommandLineV2
    BY <1>2, StoppedFields DEF StartCommandLineV2, AtWork, AtFile
<1>3. CASE StartBuild
    BY <1>3, BeginFields, PlanFacts DEF StartBuild, AtWork, AtFile
<1>4. CASE Walk
    <2>. DEFINE files == {f \in Files : f.dir = Job.dir /\ json[In(f)] # "none"}
    <2>1. PICK taken \in Taken(files) : tool' = [tool EXCEPT !.files = taken, !.todo = taken, !.step = "file"]
        BY <1>4 DEF Walk, Files
    <2>2. tool'.plan = tool.plan /\ tool'.files = taken /\ tool'.todo = taken /\ tool'.step = "file"
        BY <2>1, WalkFields
    <2>3. taken \subseteq files
        BY <2>1 DEF Taken
    <2>4. tool.plan # <<>> /\ Job' = Job
        BY <1>4, <2>2 DEF Walk, AtWork, Job
    <2>. QED
        BY <2>2, <2>3, <2>4 DEF AtWork, AtFile
<1>5. CASE \E f \in Files : Take(f)
    <2>1. PICK f \in Files : Take(f)
        BY <1>5
    <2>2. CASE Log(f)
        BY <2>1, <2>2, LogWork DEF Take, AtFile
    <2>3. CASE tool' = [tool EXCEPT !.at = f, !.todo = @ \ {f}, !.step = "maude"]
        <3>1. /\ Kept /\ tool'.at = f /\ tool'.todo = tool.todo \ {f} /\ tool'.step = "maude"
            BY <2>3, TakenFields
        <3>2. /\ tool.plan # <<>> /\ tool.todo \subseteq tool.files /\ f \in tool.files
              /\ \A g \in tool.files : g.dir = Job.dir
            BY <2>1 DEF AtWork, AtFile, Take
        <3>3. tool'.plan # <<>> /\ tool'.todo \subseteq tool'.files /\ \A g \in tool'.files : g.dir = Job'.dir
            BY <3>1, <3>2, KeptFacts DEF Kept
        <3>4. tool'.at \in tool'.files /\ tool'.at \notin tool'.todo
            BY <3>1, <3>2 DEF Kept
        <3>. QED
            BY <3>1, <3>3, <3>4 DEF AtWork, AtFile
    <2>. QED
        BY <2>1, <2>2, <2>3 DEF Take
<1>6. ASSUME NEW step \in AtFile, Goto(step), tool.step \in {"maude", "copy", "json"},
             step \in {"copy", "json"} => First,
             step = "copy" => maude'[OutFile(tool.at)] = Generate(Job, tool.at)
      PROVE  AtWork'
    <2>1. /\ Kept /\ tool'.at = tool.at /\ tool'.todo = tool.todo /\ tool'.step = step
        BY <1>6, GotoFields
    <2>2. /\ tool.plan # <<>> /\ tool.todo \subseteq tool.files
          /\ tool.at \in tool.files /\ tool.at \notin tool.todo
          /\ \A g \in tool.files : g.dir = Job.dir
        BY <1>6 DEF AtWork, AtFile
    <2>3. tool'.plan # <<>> /\ tool'.todo \subseteq tool'.files /\ \A g \in tool'.files : g.dir = Job'.dir
        BY <2>1, <2>2, KeptFacts DEF Kept
    <2>4. tool'.at \in tool'.files /\ tool'.at \notin tool'.todo
        BY <2>1, <2>2 DEF Kept
    <2>5. /\ tool'.step \in {"copy", "json"} => First'
          /\ tool'.step = "copy" => maude'[OutFile(tool.at)'] = Generate(Job', tool'.at)
        BY <1>6, <2>1, KeptFacts DEF Kept, OutFile
    <2>. QED
        BY <1>6, <2>1, <2>3, <2>4, <2>5 DEF AtWork, AtFile
<1>7. CASE WriteMaude
    <2>1. tool.step = "maude" /\ maude' = [maude EXCEPT ![OutFile(tool.at)] = Generate(Job, tool.at)]
        BY <1>7 DEF WriteMaude
    <2>2. OutFile(tool.at) \in DOMAIN maude
        BY <2>1, ToolFields, JobType DEF TypeOK, AtFile
    <2>3. maude'[OutFile(tool.at)] = Generate(Job, tool.at)
        BY <2>1, <2>2
    <2>. QED
        BY <1>6, <1>7, <2>3 DEF WriteMaude, AtFile
<1>8. CASE OpenJson
    BY <1>6, <1>8 DEF OpenJson, AtFile, AtWork
<1>9. CASE WriteJson
    BY <1>6, <1>9 DEF WriteJson, AtFile
<1>10. CASE EndDirectory
    <2>0. tool.step = "file" /\ tool.todo = {} /\ tool.plan # <<>> /\ tool.plan \in Seq(Jobs)
        BY <1>10, ToolFields DEF EndDirectory, AtWork, AtFile
    <2>1. CASE Len(tool.plan) = 1
        <3>1. Goto("done")
            BY <1>10, <2>1 DEF EndDirectory, Goto
        <3>2. /\ Kept /\ tool'.todo = tool.todo /\ tool'.step = "done"
            BY <3>1, GotoFields
        <3>3. \A g \in tool'.files : g.dir = Job'.dir
            BY <2>0, <3>2, KeptFacts DEF Kept, AtWork, AtFile
        <3>. QED
            BY <2>0, <2>1, <3>2, <3>3 DEF Kept, AtWork, AtFile
    <2>2. CASE Len(tool.plan) # 1
        <3>1. tool'.plan = Tail(tool.plan) /\ tool'.todo = {} /\ tool'.step = "walk"
            BY <1>10, <2>0, <2>2, NextFields DEF EndDirectory
        <3>2. Tail(tool.plan) # <<>>
            BY <2>0, <2>2, TailFacts
        <3>. QED
            BY <3>1, <3>2 DEF AtWork, AtFile
    <2>. QED
        BY <2>1, <2>2
<1>11. CASE WriteFails
    BY <1>11, LogWork DEF WriteFails, AtFile
<1>12. CASE Kill
    BY <1>12, StoppedFields DEF Kill, AtWork, AtFile
<1>13. CASE UNCHANGED vars
    BY <1>13 DEF vars, AtWork, Job, First, OutFile
<1>. QED
    BY <1>1, <1>2, <1>3, <1>4, <1>5, <1>7, <1>8, <1>9, <1>10, <1>11, <1>12, <1>13 DEF Next, Files

\* Logging adds a file to those the tool is through with.
LEMMA LogConverted ==
    ASSUME TypeOK, AtWork, Converted, tool.step \in AtFile, UNCHANGED maude, NEW f, Log(f),
           tool.step = "maude" => tool.at = f
    PROVE  Converted'
<1>1. /\ Kept /\ tool'.todo = tool.todo \ {f} /\ tool'.step \in {"failed", "file"}
      /\ tool'.logged = tool.logged \cup {OutFile(f)}
    BY LogFields
<1>2. SUFFICES ASSUME NEW g \in tool'.files, g \notin tool'.todo
               PROVE  OutFile(g)' \in tool'.logged \/ maude'[OutFile(g)'] = Generate(Job', g)
    BY DEF Converted
<1>3. CASE g = f
    BY <1>1, <1>3, KeptFacts
<1>4. CASE g # f
    <2>1. g \in tool.files \ tool.todo
        BY <1>1, <1>2, <1>4 DEF Kept
    <2>2. \/ OutFile(g) \in tool.logged
          \/ maude[OutFile(g)] = Generate(Job, g)
        BY <2>1, <1>4 DEF Converted
    <2>. QED
        BY <1>1, <2>2, KeptFacts
<1>. QED
    BY <1>3, <1>4

\* A step loses no conversion.
LEMMA ConvertedStep ==
    ASSUME TypeOK, AtWork, Converted, [Next]_vars
    PROVE  Converted'
<1>1. CASE StartConverter \/ StartBuild
    BY <1>1, BeginFields DEF StartConverter, StartBuild, Converted, AtFile
<1>2. CASE StartCommandLineV2 \/ Kill
    BY <1>2, StoppedFields DEF StartCommandLineV2, Kill, Converted, AtFile
<1>3. CASE Walk
    <2>1. tool'.files = tool'.todo
        BY <1>3, WalkFields DEF Walk
    <2>. QED
        BY <2>1 DEF Converted
<1>4. CASE \E f \in Files : Take(f)
    <2>1. PICK f \in Files : Take(f)
        BY <1>4
    <2>2. tool.step = "file" /\ f \in tool.todo
        BY <2>1 DEF Take
    <2>3. CASE json[In(f)] # "whole"
        BY <2>1, <2>2, <2>3, LogConverted DEF Take, AtFile
    <2>4. CASE json[In(f)] = "whole"
        <3>1. /\ maude' = [maude EXCEPT ![OutFile(f)] = Cut]
              /\ tool' = [tool EXCEPT !.at = f, !.todo = @ \ {f}, !.step = "maude"]
            BY <2>1, <2>4 DEF Take
        <3>2. /\ Kept /\ tool'.at = f /\ tool'.todo = tool.todo \ {f} /\ tool'.step = "maude"
              /\ tool'.logged = tool.logged
            BY <3>1, TakenFields
        <3>3. SUFFICES ASSUME NEW g \in tool'.files, g \notin tool'.todo, g # f
                       PROVE  OutFile(g)' \in tool'.logged \/ maude'[OutFile(g)'] = Generate(Job', g)
            BY <3>2 DEF Converted
        <3>4. g \in tool.files \ tool.todo
            BY <3>2, <3>3 DEF Kept
        <3>5. OutFile(g) \in tool.logged \/ maude[OutFile(g)] = Generate(Job, g)
            BY <2>2, <3>4 DEF Converted, AtFile
        <3>6. OutFile(g) # OutFile(f) /\ OutFile(g) \in DOMAIN maude
            BY <2>2, <3>3, <3>4, ToolFields, JobType DEF OutFile, AtFile, TypeOK
        <3>7. maude'[OutFile(g)] = maude[OutFile(g)]
            BY <3>1, <3>6
        <3>. QED
            BY <3>2, <3>5, <3>7, KeptFacts
    <2>. QED
        BY <2>3, <2>4
<1>5. CASE WriteMaude
    <2>1. /\ tool.step = "maude" /\ maude' = [maude EXCEPT ![OutFile(tool.at)] = Generate(Job, tool.at)]
          /\ Goto(IF First THEN "copy" ELSE "file")
        BY <1>5 DEF WriteMaude
    <2>2. /\ Kept /\ tool'.at = tool.at /\ tool'.todo = tool.todo /\ tool'.logged = tool.logged
        BY <2>1, GotoFields
    <2>3. SUFFICES ASSUME NEW g \in tool'.files, g \notin tool'.todo
                   PROVE  OutFile(g)' \in tool'.logged \/ maude'[OutFile(g)'] = Generate(Job', g)
        BY DEF Converted
    <2>4. g \in tool.files \ tool.todo /\ g \in Files
        BY <2>2, <2>3, ToolFields DEF Kept
    <2>5. OutFile(g) \in DOMAIN maude
        BY <2>1, <2>4, JobType DEF AtFile, TypeOK
    <2>6. CASE g = tool.at
        BY <2>1, <2>2, <2>5, <2>6, KeptFacts
    <2>7. CASE g # tool.at
        <3>1. OutFile(g) # OutFile(tool.at)
            BY <2>7 DEF OutFile
        <3>2. OutFile(g) \in tool.logged \/ maude[OutFile(g)] = Generate(Job, g)
            BY <2>1, <2>4, <2>7 DEF Converted, AtFile
        <3>. QED
            BY <2>1, <2>2, <2>5, <3>1, <3>2, KeptFacts
    <2>. QED
        BY <2>6, <2>7
<1>6. ASSUME NEW step, Goto(step), UNCHANGED maude, tool.step \in {"file", "copy", "json"} PROVE Converted'
    <2>1. /\ Kept /\ tool'.at = tool.at /\ tool'.todo = tool.todo /\ tool'.logged = tool.logged
        BY <1>6, GotoFields
    <2>2. SUFFICES ASSUME NEW g \in tool'.files, g \notin tool'.todo
                   PROVE  OutFile(g)' \in tool'.logged \/ maude'[OutFile(g)'] = Generate(Job', g)
        BY DEF Converted
    <2>3. g \in tool.files \ tool.todo
        BY <2>1, <2>2 DEF Kept
    <2>4. OutFile(g) \in tool.logged \/ maude[OutFile(g)] = Generate(Job, g)
        BY <1>6, <2>3 DEF Converted, AtFile
    <2>. QED
        BY <1>6, <2>1, <2>4, KeptFacts
<1>7. CASE OpenJson \/ WriteJson
    BY <1>6, <1>7 DEF OpenJson, WriteJson
<1>8. CASE EndDirectory
    <2>1. CASE Len(tool.plan) = 1
        BY <1>6, <1>8, <2>1 DEF EndDirectory, Goto
    <2>2. CASE Len(tool.plan) # 1
        BY <1>8, <2>2, NextFields DEF EndDirectory, Converted, AtFile
    <2>. QED
        BY <2>1, <2>2
<1>9. CASE WriteFails
    <2>1. tool.step = "maude" \/ tool.step = "json"
        BY <1>9 DEF WriteFails
    <2>. QED
        BY <1>9, <2>1, LogConverted DEF WriteFails, AtFile
<1>10. CASE UNCHANGED vars
    BY <1>10 DEF vars, Converted, Job, OutFile
<1>. QED
    BY <1>1, <1>2, <1>3, <1>4, <1>5, <1>7, <1>8, <1>9, <1>10 DEF Next, Files

-----------------------------------------------------------------------------
(* Builds. *)

\* No step takes a JSON file away, and a build begins with a copy of all.
LEMMA JsonStep ==
    ASSUME TypeOK, AtWork, JsonThere, [Next]_vars
    PROVE  JsonThere'
<1>1. \A f \in ScenarioFiles : <<"scenario", f>> \in Paths /\ <<"build", f>> \in Paths
    BY FilePath DEF Places, Files
<1>2. CASE StartBuild
    BY <1>1, <1>2 DEF StartBuild, JsonThere
<1>3. ASSUME \A p \in Paths : json[p] # "none" => json'[p] # "none", tool'.build => tool.build
      PROVE  JsonThere'
    BY <1>1, <1>3 DEF JsonThere
<1>4. CASE UNCHANGED json /\ (tool'.build => tool.build)
    BY <1>3, <1>4
<1>5. ASSUME NEW step, Goto(step) PROVE tool'.build => tool.build
    BY <1>5, GotoFields DEF Kept
<1>6. ASSUME NEW f, Log(f) PROVE tool'.build => tool.build
    BY <1>6, LogFields DEF Kept
<1>7. CASE OpenJson \/ WriteJson
    <2>1. tool'.build => tool.build
        BY <1>5, <1>7 DEF OpenJson, WriteJson
    <2>2. \A p \in Paths : json[p] # "none" => json'[p] # "none"
        BY <1>7 DEF OpenJson, WriteJson, TypeOK
    <2>. QED
        BY <1>3, <2>1, <2>2
<1>8. CASE StartConverter
    <2>1. tool'.build = FALSE
        BY <1>8, BeginFields DEF StartConverter
    <2>. QED
        BY <1>4, <1>8, <2>1 DEF StartConverter
<1>9. CASE StartCommandLineV2 \/ Kill
    BY <1>4, <1>9, StoppedFields DEF StartCommandLineV2, Kill
<1>10. CASE Walk
    BY <1>4, <1>10, WalkFields DEF Walk
<1>11. CASE \E f \in Files : Take(f)
    <2>1. PICK f \in Files : Take(f)
        BY <1>11
    <2>2. tool'.build => tool.build
        BY <1>6, <2>1, TakenFields DEF Take, Kept
    <2>. QED
        BY <1>4, <2>1, <2>2 DEF Take
<1>12. CASE WriteMaude
    BY <1>4, <1>5, <1>12 DEF WriteMaude
<1>13. CASE EndDirectory
    <2>1. tool' = [tool EXCEPT !.step = "done"] => tool'.build = tool.build
        BY GotoFields DEF Goto, Kept
    <2>2. tool'.build => tool.build
        BY <1>13, <2>1, NextFields DEF EndDirectory
    <2>. QED
        BY <1>4, <1>13, <2>2 DEF EndDirectory
<1>14. CASE WriteFails
    BY <1>4, <1>6, <1>14 DEF WriteFails
<1>15. CASE UNCHANGED vars
    BY <1>4, <1>15 DEF vars
<1>. QED
    BY <1>2, <1>7, <1>8, <1>9, <1>10, <1>11, <1>12, <1>13, <1>14, <1>15 DEF Next, Files

\* A step within a directory that leaves none of its files behind.
LEMMA BuiltKept ==
    ASSUME Built, Kept, tool.step \in AtFile, tool'.logged = {} => tool.logged = {},
           tool'.build /\ tool'.logged = {} =>
             \A f \in Loaded : \/ f \in tool'.todo
                               \/ tool'.step = "maude" /\ tool'.at = f
                               \/ maude'[<<"build", f>>] = Generate(BuildJob(f.dir), f)
                               \/ /\ f \notin tool.todo
                                  /\ ~(tool.step = "maude" /\ tool.at = f)
                                  /\ maude'[<<"build", f>>] = maude[<<"build", f>>]
    PROVE  Built'
<1>1. SUFFICES ASSUME tool'.build
               PROVE  /\ \A k \in DOMAIN tool'.plan : tool'.plan[k] = BuildJob(tool'.plan[k].dir)
                      /\ tool'.logged = {} =>
                           \A f \in Loaded : Waiting(f)' \/ maude'[<<"build", f>>] = Generate(BuildJob(f.dir), f)
    BY DEF Built
<1>2. /\ \A k \in DOMAIN tool.plan : tool.plan[k] = BuildJob(tool.plan[k].dir)
      /\ tool.logged = {} =>
            \A f \in Loaded : Waiting(f) \/ maude[<<"build", f>>] = Generate(BuildJob(f.dir), f)
    BY <1>1 DEF Built, Kept, AtFile
<1>3. \A k \in DOMAIN tool'.plan : tool'.plan[k] = BuildJob(tool'.plan[k].dir)
    BY <1>2 DEF Kept
<1>4. ASSUME tool'.logged = {}, NEW f \in Loaded
      PROVE  Waiting(f)' \/ maude'[<<"build", f>>] = Generate(BuildJob(f.dir), f)
    <2>1. SUFFICES ASSUME f \notin tool.todo, ~(tool.step = "maude" /\ tool.at = f),
                          maude'[<<"build", f>>] = maude[<<"build", f>>]
                   PROVE  Waiting(f)' \/ maude'[<<"build", f>>] = Generate(BuildJob(f.dir), f)
        BY <1>1, <1>4 DEF Waiting
    <2>2. CASE \E k \in DOMAIN tool.plan : tool.plan[k].dir = f.dir /\ (k = 1 => tool.step = "walk")
        <3>1. PICK k \in DOMAIN tool.plan : tool.plan[k].dir = f.dir /\ (k = 1 => tool.step = "walk")
            BY <2>2
        <3>2. k \in DOMAIN tool'.plan /\ tool'.plan[k].dir = f.dir /\ k # 1
            BY <3>1 DEF Kept, AtFile
        <3>. QED
            BY <3>2 DEF Waiting
    <2>3. CASE maude[<<"build", f>>] = Generate(BuildJob(f.dir), f)
        BY <2>1, <2>3
    <2>. QED
        BY <1>2, <1>4, <2>1, <2>2, <2>3 DEF Waiting
<1>. QED
    BY <1>3, <1>4

\* A build's conversions write to the build's directory.
LEMMA BuildOut ==
    ASSUME TypeOK, AtWork, Built, tool.build, tool.step \in AtFile \cup {"walk"}
    PROVE  /\ Job = BuildJob(Job.dir) /\ Job.kind # "v2single"
           /\ \A f : OutFile(f) = <<"build", f>> /\ In(f) = <<"build", f>>
<1>1. Job = tool.plan[1] /\ 1 \in DOMAIN tool.plan
    BY JobType, ToolFields
<1>2. Job = BuildJob(Job.dir)
    BY <1>1 DEF Built
<1>3. Job.out = "build" /\ Job.place = "build" /\ Job.kind # "v2single"
    BY <1>2 DEF BuildJob, Conversion
<1>. QED
    BY <1>2, <1>3 DEF OutFile, In

\* A build that logs a file promises nothing.
LEMMA LogBuilt ==
    ASSUME TypeOK, Built, tool.step \in AtFile, NEW f, Log(f)
    PROVE  Built'
<1>1. Kept /\ tool'.logged # {}
    BY LogFields
<1>. QED
    BY <1>1, BuiltKept

\* A build that is through with a directory has converted all its files.
LEMMA BuiltStep ==
    ASSUME TypeOK, AtWork, Built, JsonThere, [Next]_vars
    PROVE  Built'
<1>0. \A f \in Loaded : f \in Files /\ f \in ScenarioFiles /\ <<"build", f>> \in Paths
    BY LoadedFacts, FilePath DEF Loaded, Places
<1>1. CASE StartConverter
    BY <1>1, BeginFields DEF StartConverter, Built
<1>2. CASE StartCommandLineV2 \/ Kill
    BY <1>2, StoppedFields DEF StartCommandLineV2, Kill, Built
<1>3. CASE StartBuild
    <2>1. tool'.plan = build_plan /\ tool'.step = "walk"
        BY <1>3, BeginFields DEF StartBuild
    <2>2. \A f \in Loaded : Waiting(f)'
        BY <2>1, PlanFacts DEF Waiting
    <2>. QED
        BY <2>1, <2>2, PlanFacts DEF Built
<1>4. CASE Walk
    <2>. DEFINE files == {f \in Files : f.dir = Job.dir /\ json[In(f)] # "none"}
    <2>1. PICK taken \in Taken(files) : tool' = [tool EXCEPT !.files = taken, !.todo = taken, !.step = "file"]
        BY <1>4 DEF Walk, Files
    <2>2. /\ tool'.build = tool.build /\ tool'.plan = tool.plan /\ tool'.logged = tool.logged
          /\ tool'.todo = taken /\ tool'.step = "file"
        BY <2>1, WalkFields
    <2>3. SUFFICES ASSUME tool.build
                   PROVE  /\ \A k \in DOMAIN tool'.plan : tool'.plan[k] = BuildJob(tool'.plan[k].dir)
                          /\ tool'.logged = {} =>
                                \A f \in Loaded : Waiting(f)' \/ maude'[<<"build", f>>] = Generate(BuildJob(f.dir), f)
        BY <2>2 DEF Built
    <2>4. /\ \A k \in DOMAIN tool.plan : tool.plan[k] = BuildJob(tool.plan[k].dir)
          /\ tool.logged = {} =>
                \A f \in Loaded : Waiting(f) \/ maude[<<"build", f>>] = Generate(BuildJob(f.dir), f)
        BY <1>4, <2>3 DEF Walk, Built
    <2>5. taken = files /\ Job = tool.plan[1]
        BY <1>4, <2>1, <2>3, BuildOut, JobType DEF Walk, Taken
    <2>6. ASSUME tool.logged = {}, NEW f \in Loaded
          PROVE  Waiting(f)' \/ maude'[<<"build", f>>] = Generate(BuildJob(f.dir), f)
        <3>1. CASE maude[<<"build", f>>] = Generate(BuildJob(f.dir), f)
            BY <1>4, <3>1 DEF Walk
        <3>2. CASE \E k \in DOMAIN tool.plan : tool.plan[k].dir = f.dir
            <4>1. PICK k \in DOMAIN tool.plan : tool.plan[k].dir = f.dir
                BY <3>2
            <4>2. CASE k = 1
                <5>1. json[In(f)] # "none"
                    BY <1>0, <1>4, <2>3, BuildOut DEF Walk, JsonThere
                <5>2. f \in files
                    BY <1>0, <2>5, <4>1, <4>2, <5>1
                <5>. QED
                    BY <2>2, <2>5, <5>2 DEF Waiting
            <4>3. CASE k # 1
                BY <2>2, <4>1, <4>3 DEF Waiting
            <4>. QED
                BY <4>2, <4>3
        <3>3. f \notin tool.todo
            BY <1>4 DEF Walk, AtWork
        <3>. QED
            BY <1>4, <2>4, <2>6, <3>1, <3>2, <3>3 DEF Walk, Waiting
    <2>. QED
        BY <2>2, <2>4, <2>6
<1>5. CASE \E f \in Files : Take(f)
    <2>1. PICK f \in Files : Take(f)
        BY <1>5
    <2>2. tool.step = "file" /\ f \in tool.todo
        BY <2>1 DEF Take
    <2>3. CASE json[In(f)] # "whole"
        BY <2>1, <2>2, <2>3, LogBuilt DEF Take, AtFile
    <2>4. CASE json[In(f)] = "whole"
        <3>1. /\ maude' = [maude EXCEPT ![OutFile(f)] = Cut]
              /\ tool' = [tool EXCEPT !.at = f, !.todo = @ \ {f}, !.step = "maude"]
            BY <2>1, <2>4 DEF Take
        <3>2. /\ Kept /\ tool'.at = f /\ tool'.todo = tool.todo \ {f} /\ tool'.step = "maude"
              /\ tool'.logged = tool.logged
            BY <3>1, TakenFields
        <3>3. ASSUME tool'.build, NEW g \in Loaded, g \notin tool'.todo, g # f
              PROVE  g \notin tool.todo /\ maude'[<<"build", g>>] = maude[<<"build", g>>]
            <4>1. OutFile(f) = <<"build", f>>
                BY <2>2, <3>2, <3>3, BuildOut DEF Kept, AtFile
            <4>2. <<"build", g>> \in DOMAIN maude /\ <<"build", g>> # <<"build", f>>
                BY <1>0, <3>3 DEF TypeOK
            <4>. QED
                BY <3>1, <3>2, <3>3, <4>1, <4>2
        <3>. QED
            BY <2>2, <3>2, <3>3, BuiltKept DEF AtFile
    <2>. QED
        BY <2>3, <2>4
<1>6. CASE WriteMaude
    <2>1. /\ tool.step = "maude" /\ maude' = [maude EXCEPT ![OutFile(tool.at)] = Generate(Job, tool.at)]
          /\ Goto(IF First THEN "copy" ELSE "file")
        BY <1>6 DEF WriteMaude
    <2>2. /\ Kept /\ tool'.at = tool.at /\ tool'.todo = tool.todo /\ tool'.logged = tool.logged
        BY <2>1, GotoFields
    <2>3. ASSUME tool'.build, NEW f \in Loaded
          PROVE  \/ f \in tool'.todo
                 \/ maude'[<<"build", f>>] = Generate(BuildJob(f.dir), f)
                 \/ f \notin tool.todo /\ tool.at # f /\ maude'[<<"build", f>>] = maude[<<"build", f>>]
        <3>1. Job = BuildJob(Job.dir) /\ OutFile(tool.at) = <<"build", tool.at>>
            BY <2>1, <2>2, <2>3, BuildOut DEF Kept, AtFile
        <3>2. tool.at.dir = Job.dir
            BY <2>1 DEF AtWork, AtFile
        <3>3. <<"build", f>> \in DOMAIN maude
            BY <1>0 DEF TypeOK
        <3>4. CASE f = tool.at
            BY <2>1, <3>1, <3>2, <3>3, <3>4
        <3>5. CASE f # tool.at
            BY <2>1, <2>2, <3>1, <3>3, <3>5
        <3>. QED
            BY <3>4, <3>5
    <2>. QED
        BY <2>1, <2>2, <2>3, BuiltKept DEF AtFile
<1>7. ASSUME NEW step, Goto(step), UNCHANGED maude, tool.step \in {"file", "copy", "json"} PROVE Built'
    <2>1. /\ Kept /\ tool'.at = tool.at /\ tool'.todo = tool.todo /\ tool'.logged = tool.logged
        BY <1>7, GotoFields
    <2>. QED
        BY <1>7, <2>1, BuiltKept DEF AtFile
<1>8. CASE OpenJson \/ WriteJson
    BY <1>7, <1>8 DEF OpenJson, WriteJson
<1>9. CASE EndDirectory
    <2>1. CASE Len(tool.plan) = 1
        BY <1>7, <1>9, <2>1 DEF EndDirectory, Goto
    <2>2. CASE Len(tool.plan) # 1
        <3>1. /\ tool'.build = tool.build /\ tool'.plan = Tail(tool.plan) /\ tool'.logged = tool.logged
              /\ tool'.step = "walk" /\ maude' = maude /\ tool.step = "file" /\ tool.todo = {}
            BY <1>9, <2>2, NextFields DEF EndDirectory
        <3>2. tool.plan \in Seq(Jobs) /\ tool.plan # <<>>
            BY <3>1, ToolFields DEF AtWork, AtFile
        <3>3. SUFFICES ASSUME tool.build
                       PROVE  /\ \A k \in DOMAIN tool'.plan : tool'.plan[k] = BuildJob(tool'.plan[k].dir)
                              /\ tool'.logged = {} =>
                                    \A f \in Loaded : Waiting(f)' \/ maude'[<<"build", f>>] = Generate(BuildJob(f.dir), f)
            BY <3>1 DEF Built
        <3>4. /\ \A k \in DOMAIN tool.plan : tool.plan[k] = BuildJob(tool.plan[k].dir)
              /\ tool.logged = {} =>
                    \A f \in Loaded : Waiting(f) \/ maude[<<"build", f>>] = Generate(BuildJob(f.dir), f)
            BY <3>1, <3>3 DEF Built, AtFile
        <3>5. \A k \in DOMAIN tool'.plan : tool'.plan[k] = BuildJob(tool'.plan[k].dir)
            BY <3>1, <3>2, <3>4, TailFacts
        <3>6. ASSUME tool.logged = {}, NEW f \in Loaded, ~(maude'[<<"build", f>>] = Generate(BuildJob(f.dir), f))
              PROVE  Waiting(f)'
            <4>1. PICK k \in DOMAIN tool.plan : tool.plan[k].dir = f.dir /\ (k = 1 => tool.step = "walk")
                BY <3>1, <3>4, <3>6 DEF Waiting
            <4>2. k - 1 \in DOMAIN tool'.plan /\ tool'.plan[k - 1] = tool.plan[k]
                BY <3>1, <3>2, <4>1, TailFacts
            <4>. QED
                BY <3>1, <4>1, <4>2 DEF Waiting
        <3>. QED
            BY <3>1, <3>5, <3>6
    <2>. QED
        BY <2>1, <2>2
<1>10. CASE WriteFails
    BY <1>10, LogBuilt DEF WriteFails, AtFile
<1>11. CASE UNCHANGED vars
    BY <1>11 DEF vars, Built, Waiting
<1>. QED
    BY <1>1, <1>2, <1>3, <1>4, <1>5, <1>6, <1>8, <1>9, <1>10, <1>11 DEF Next, Files

-----------------------------------------------------------------------------
(* Theorems. *)

\* The invariant holds when no tool has been started.
LEMMA InitInv == Init => Inv
<1>. SUFFICES ASSUME Init PROVE Inv
    OBVIOUS
<1>1. PICK broken \in {{}} \cup {{ModelFile(m)} : m \in MayBreak} :
          json = [p \in Paths |->
             CASE p[2] \in broken /\ p[1] = "scenario" -> "broken"
               [] \/ p[1] = "library" /\ p[2] \in LibraryFiles
                  \/ p[1] = "scenario" /\ p[2] \in ScenarioFiles \ broken -> "whole"
               [] OTHER -> "none"]
    BY Zenon DEF Init
<1>2. tool = Idle /\ faults = 0
    BY Zenon DEF Init
<1>3. tool.step = "none" /\ tool.build = FALSE
    BY <1>2 DEF Idle
<1>4. \A p \in Paths : json[p] \in {"none", "broken", "whole"}
    BY <1>1
<1>5. TypeOK
    <2>1. json \in [Paths -> {"none", "broken", "whole", "cut"}]
        BY <1>1, <1>4
    <2>2. DOMAIN maude = Paths
        BY DEF Init
    <2>. QED
        BY <1>2, <2>1, <2>2, IdleType DEF TypeOK
<1>6. AtWork /\ Converted /\ Built
    BY <1>3 DEF AtWork, Converted, Built, AtFile
<1>7. ProfileKept
    <2>1. \A p \in {"library", "scenario"} \X (LibraryFiles \cup ScenarioFiles) : p \in Paths
        BY DEF Paths, Places
    <2>. QED
        BY <1>4, <2>1 DEF ProfileKept
<1>8. JsonThere
    <2>1. \A f \in ScenarioFiles : <<"scenario", f>> \in Paths
        BY DEF Paths, Places
    <2>2. \A f \in ScenarioFiles : json[<<"scenario", f>>] # "none"
        BY <1>1, <2>1
    <2>. QED
        BY <1>3, <2>2 DEF JsonThere
<1>. QED
    BY <1>5, <1>6, <1>7, <1>8 DEF Inv

\* Every step keeps the invariant.
LEMMA NextInv == Inv /\ [Next]_vars => Inv'
BY TypeStep, WorkStep, ProfileStep, ConvertedStep, BuiltStep, JsonStep DEF Inv

\* The invariant holds in every run.
LEMMA Invariance == Spec => []Inv
BY InitInv, NextInv, PTL DEF Spec

\* Every tool is in one of its steps, with a plan of conversions, and at files of the
\* library or the scenario (ModelConverter; the four converters and the build).
THEOREM TypeCorrect == Spec => []TypeOK
<1>1. Inv => TypeOK
    BY DEF Inv
<1>. QED
    BY <1>1, Invariance, PTL

\* No conversion loses a model of the library or the scenario, for any scenario: where the
\* first version copies a JSON file onto itself, and a kill or a full disk leaves it cut,
\* the module beside it is whole.
THEOREM ModelsKept == Spec => []ProfileKept
<1>1. Inv => ProfileKept
    BY DEF Inv
<1>. QED
    BY <1>1, Invariance, PTL

\* One bad file costs no other: a tool that ends has converted or logged every file.
THEOREM AllConverted == Spec => []ConvertedOrLogged
<1>1. Inv => ConvertedOrLogged
    BY DEF Inv, Converted, ConvertedOrLogged, AtWork, AtFile
<1>. QED
    BY <1>1, Invariance, PTL

-----------------------------------------------------------------------------
(* What a build provides. *)

\* The words a scenario's models begin with.
ModelKinds == {"irc", "mastodon-tgen", "ftp-tgen", "dns-tgen", "minio-tgen", "gorilla-tgen", "irc-tgen"}

\* A scenario's models are of IRC users, of its generators and of two channels.
LEMMA ModelKind ==
    ASSUME NEW m \in ModelFiles(Yaml)
    PROVE  m[1] \in ModelKinds \cup Channels
<1>1. CASE m \in {<<"irc", p.name>> : p \in UNION {Range(LastNode(Yaml, n.channel).profs) : n \in Range(Yaml.nodes)}}
    BY <1>1 DEF ModelKinds
<1>2. CASE m \in {TgenModel(t) : t \in Tgens(Yaml)}
    <2>1. PICK t \in Tgens(Yaml) : m = TgenModel(t)
        BY <1>2
    <2>2. t.type \in TgenTypes
        BY ScenarioAssumption
    <2>. QED
        BY <2>1, <2>2 DEF TgenModel, TgenTypes, ModelKinds
<1>3. CASE m \in (hcs_channel_models(Yaml) \cap {"skyhook", "mastodon"}) \X {"client", "server"}
    BY <1>3 DEF Channels
<1>. QED
    BY <1>1, <1>2, <1>3 DEF ModelFiles

\* A build converts a model to the module the main file includes, loadable and sound.
LEMMA BuildsModule ==
    ASSUME NEW m \in ModelFiles(Yaml)
    PROVE  LET made == Generate(BuildJob(ModelFile(m).dir), ModelFile(m))
           IN /\ made.state = "whole" /\ made.load /\ made.sound
              /\ [name |-> made.name, version |-> made.version] = ModelModule(Yaml, m)
<1>. DEFINE f == ModelFile(m)
            dir == f.dir
            made == Generate(BuildJob(dir), f)
<1>1. /\ dir[1] \in {"action_models", "user_models", "tgen_user_models"} /\ dir[2] = m[1]
      /\ m[1] \in ModelKinds \cup Channels
    BY LoadedFacts, ModelKind
<1>2. m \in MAModelMap(Yaml) <=> Burst(dir)
    BY <1>1 DEF MAModelMap, Burst, ModelKinds, Channels
<1>3. f # Monitor0
    <2>1. Monitor0.dir[2] = "minio-monitor-tgen"
        BY DEF Monitor0
    <2>. QED
        BY <1>1, <2>1 DEF ModelKinds, Channels
<1>4. dir[1] = "tgen_user_models" => WithTgen(m[1]) = m[1]
    <2>1. dir[1] = "tgen_user_models" => m[1] # "irc"
        BY DEF ModelFile, Channels
    <2>. QED
        BY <1>1, <2>1 DEF WithTgen, ModelKinds, Channels
<1>5. CASE Burst(dir)
    <2>1. made = generate_v2(f, dir[2], TRUE)
        BY <1>5 DEF Generate, BuildJob, Conversion, BuildProto
    <2>2. stem_clean(f, dir[2]) = <<m[1]>> \o f.stem
        BY <1>1, <1>4 DEF stem_clean
    <2>. HIDE DEF f
    <2>3. made.state = "whole" /\ made.load = TRUE /\ made.sound = TRUE /\ made.version = 2 /\ made.name = <<m[1]>> \o f.stem
        BY <2>1, <2>2 DEF generate_v2
    <2>4. ModelModule(Yaml, m) = [name |-> <<m[1]>> \o f.stem, version |-> 2]
        BY <1>2, <1>5 DEF ModelModule, f
    <2>. QED
        BY <2>3, <2>4 DEF f
<1>6. CASE ~Burst(dir)
    <2>1. made = generate_v1(f, dir[2], TRUE)
        BY <1>6 DEF Generate, BuildJob, Conversion, BuildProto, generate_v1_cli
    <2>2. convert_sections_v1(f) = {"markov", "actions", "parameters"}
        BY <1>3, <1>6 DEF convert_sections_v1, Sections
    <2>3. Cardinality({"markov", "actions", "parameters"}) = 3
        <3>1. Cardinality({"markov"}) = 1 /\ IsFiniteSet({"markov"})
            BY FS_Singleton
        <3>2. Cardinality({"markov"} \cup {"actions"}) = 2 /\ IsFiniteSet({"markov"} \cup {"actions"})
            BY <3>1, FS_AddElement
        <3>3. Cardinality(({"markov"} \cup {"actions"}) \cup {"parameters"}) = 3
            BY <3>2, FS_AddElement
        <3>4. ({"markov"} \cup {"actions"}) \cup {"parameters"} = {"markov", "actions", "parameters"}
            OBVIOUS
        <3>. QED
            BY <3>3, <3>4
    <2>. HIDE DEF f
    <2>4. made.state = "whole" /\ made.load = TRUE /\ made.version = 1 /\ made.name = <<m[1]>> \o f.stem
        <3>1. \A proto : /\ generate_v1(f, proto, TRUE).state = "whole" /\ generate_v1(f, proto, TRUE).load = TRUE
                         /\ generate_v1(f, proto, TRUE).version = 1
                         /\ generate_v1(f, proto, TRUE).name = <<proto>> \o f.stem
            BY DEF generate_v1
        <3>. HIDE DEF made
        <3>. QED
            BY <1>1, <2>1, <3>1
    <2>5. made.sound
        <3>1. Cardinality(convert_sections_v1(f)) = 3
            BY <2>2, <2>3
        <3>2. \A proto : generate_v1(f, proto, TRUE).sound <=> Cardinality(convert_sections_v1(f)) = 3
            BY Zenon DEF generate_v1
        <3>. HIDE DEF made
        <3>. QED
            BY <2>1, <3>1, <3>2, Zenon
    <2>6. ModelModule(Yaml, m) = [name |-> <<m[1]>> \o f.stem, version |-> 1]
        BY <1>2, <1>6 DEF ModelModule, f
    <2>. QED
        BY <2>4, <2>5, <2>6 DEF f
<1>. QED
    BY <1>5, <1>6

\* Whatever the scenario's directory held and whatever tools ran before: after a build
\* that has logged nothing, the main file finds the modules it includes.
THEOREM BuildProvides == Spec => []ModelsProvided
<1>1. ASSUME Inv, tool.step = "done", tool.build, tool.logged = {}
      PROVE  Provided(GenOutput(Yaml), "build")
    <2>. DEFINE out == GenOutput(Yaml)
                At(f) == maude[<<IF f.dir[1] = "lib" THEN "library" ELSE "build", f>>]
                loaded == {At(f) : f \in out.loads}
    <2>1. out.loads = Loaded /\ out.includes = {ModelModule(Yaml, m) : m \in ModelFiles(Yaml)}
        BY DEF GenOutput, Loaded
    <2>2. DOMAIN tool.plan = {1} /\ tool.todo = {}
        <3>1. Len(tool.plan) = 1 /\ tool.plan \in Seq(Jobs) /\ tool.todo = {}
            BY <1>1, ToolFields DEF Inv, AtWork
        <3>. QED
            BY <3>1
    <2>3. \A f \in Loaded : maude[<<"build", f>>] = Generate(BuildJob(f.dir), f)
        BY <1>1, <2>2 DEF Inv, Built, Waiting
    <2>4. ASSUME NEW m \in ModelFiles(Yaml)
          PROVE  /\ At(ModelFile(m)).state = "whole" /\ At(ModelFile(m)).load /\ At(ModelFile(m)).sound
                 /\ [name |-> At(ModelFile(m)).name, version |-> At(ModelFile(m)).version] = ModelModule(Yaml, m)
        <3>1. At(ModelFile(m)) = Generate(BuildJob(ModelFile(m).dir), ModelFile(m))
            BY <2>3, LoadedFacts
        <3>. QED
            BY <3>1, BuildsModule
    <2>. HIDE DEF At
    <2>5. loaded = {At(ModelFile(m)) : m \in ModelFiles(Yaml)}
        BY <2>1 DEF Loaded
    <2>6. \A r \in loaded : r.state = "whole" /\ r.load /\ r.sound
        BY <2>4, <2>5
    <2>7. {[name |-> r.name, version |-> r.version] : r \in loaded} = out.includes
        BY <2>1, <2>4, <2>5
    <2>. QED
        BY <2>6, <2>7 DEF Provided, At
<1>. QED
    BY <1>1, Invariance, PTL DEF ModelsProvided
=============================================================================
