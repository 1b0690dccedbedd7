---------------------------- MODULE ModelConverter ----------------------------
(***************************************************************************)
(* The converters that turn action models written in JSON into the Maude   *)
(* modules a scenario loads: the first version's (stand-alone and in the   *)
(* command line), the second version's (a directory or a file at a time),  *)
(* and the build that copies a scenario and converts its directories.  A   *)
(* converter works file by file; a file may be unreadable, a write may     *)
(* fail, and the tool may be killed between any two steps.                 *)
(***************************************************************************)
EXTENDS Cp3Script

CONSTANTS Yaml,       \* the scenario whose models are converted
          MayBreak,   \* models of it whose JSON file may be unreadable, one at a time
          MaxTools,   \* bound: how many tools are started
          MaxFaults   \* bound: kills and writes that fail

\* A scenario names finitely many models; its generators are of the six types.
ASSUME ScenarioAssumption ==
    /\ IsFiniteSet(ModelFiles(Yaml))
    /\ \A t \in Tgens(Yaml) : t.type \in TgenTypes

VARIABLES json, maude, tool, faults
vars == <<json, maude, tool, faults>>

-----------------------------------------------------------------------------
(* Files.  The library has the models the script loads from it, the scenario's *)
(* directory the others; a build has a copy of them.                            *)

Places == {"library", "scenario", "build", "other"}
Monitor0 == [dir |-> <<"tgen_user_models", "minio-monitor-tgen">>, stem |-> <<"default">>]
LibraryFiles == {f \in ScriptLoads(Yaml) : f.dir[1] = "lib"}
ScenarioFiles == {ModelFile(m) : m \in ModelFiles(Yaml)} \cup {Monitor0}
Paths == Places \X (LibraryFiles \cup ScenarioFiles)
Dirs == {f.dir : f \in LibraryFiles \cup ScenarioFiles}

\* Directories of IRC, ftp, Gorilla, MinIO and TLS models hold the second version.
Burst(dir) == dir[2] \in {"irc", "irc-tgen", "ftp-tgen", "gorilla-tgen", "minio-tgen", "tls-tgen"}
\* The sections of a JSON file: the second version has states where the first has
\* actions; the monitor's model has no parameters.
Sections(f) ==
    IF Burst(f.dir) THEN {"markov", "states", "parameters"}
    ELSE {"markov", "actions"} \cup (IF f = Monitor0 THEN {} ELSE {"parameters"})

NoFile == [state |-> "none"]
Cut == [state |-> "cut"]

\* The first version prints each of three sections, entry by entry; one without entries
\* becomes an empty pair of brackets, which Maude does not read.
convert_sections_v1(f) == Sections(f) \cap {"markov", "actions", "parameters"}
generate_v1(f, proto, load) ==
    [state |-> "whole", name |-> <<proto>> \o f.stem, version |-> 1, load |-> load,
     prints |-> convert_sections_v1(f), sound |-> Cardinality(convert_sections_v1(f)) = 3]

\* The command line's copy loads the library by its absolute path.
generate_v1_cli(f, proto) == generate_v1(f, proto, TRUE)

\* The second version makes states of actions, and prints a section without entries as
\* the empty map.  It says that a model is a generator's, if its path does and its
\* protocol does not.
WithTgen(proto) ==
    CASE proto = "ftp" -> "ftp-tgen" [] proto = "irc" -> "irc-tgen" [] OTHER -> proto
stem_clean(f, proto) ==
    <<IF f.dir[1] = "tgen_user_models" THEN WithTgen(proto) ELSE proto>> \o f.stem
generate_v2(f, proto, load) ==
    [state |-> "whole", name |-> stem_clean(f, proto), version |-> 2, load |-> load,
     prints |-> Sections(f), sound |-> TRUE]

\* Does the relative path of a stand-alone converter lead to the library?  The first
\* version's needs a directory "lib" above the file, the second's the repository.
calculate_relative_load_path_v1(place) == place = "library"
calculate_relative_load_path_v2(place) == place \in {"library", "scenario"}

Generate(c, f) ==
    CASE c.kind = "v1"      -> generate_v1_cli(f, c.proto)
      [] c.kind = "v1alone" -> generate_v1(f, c.proto, calculate_relative_load_path_v1(c.out))
      [] c.kind = "v2"      -> generate_v2(f, c.proto, TRUE)
      [] c.kind \in {"v2alone", "v2single"} ->
             generate_v2(f, c.proto, calculate_relative_load_path_v2(c.out))

-----------------------------------------------------------------------------
(* What is converted: by hand, each directory with the converter of its version, *)
(* and by a build.                                                                *)

\* Mutation: the generators' models bear the protocol's name alone.
BuildProtoShort(dir) == IF dir[2] = "dns-tgen" THEN "dns" ELSE dir[2]

BuildProto(dir) == dir[2]

Conversion(kind, dir, proto, place, out) ==
    [kind |-> kind, dir |-> dir, proto |-> proto, place |-> place, out |-> out]

ByHand ==
    {Conversion(k, d, d[2], p, o) :
       k \in {"v1", "v1alone"}, d \in {e \in Dirs : ~Burst(e)}, p \in {"library", "scenario"}, o \in Places \ {"build"}}
      \cup {Conversion(k, d, proto, "scenario", "scenario") :
              k \in {"v2alone", "v2single"}, d \in {e \in Dirs : Burst(e)}, proto \in {"irc", "ftp", "ftp-tgen"}}
Fits(c) ==
    /\ c.kind \in {"v1", "v1alone"} => c.out \in {c.place, "other"} /\ (c.place = "library" <=> c.dir[1] = "lib")
    /\ c.kind \in {"v2alone", "v2single"} =>
         c.proto = c.dir[2] \/ (c.dir[1] = "tgen_user_models" /\ WithTgen(c.proto) = c.dir[2])

\* A build takes the directories of the first version, then those of the second.
build_dirs ==
    LET InOrder(version) == SetToSeq({d \in Dirs : d[1] # "lib" /\ (Burst(d) <=> version = 2)})
    IN InOrder(1) \o InOrder(2)
build_plan ==
    [k \in DOMAIN build_dirs |->
        Conversion(IF Burst(build_dirs[k]) THEN "v2" ELSE "v1", build_dirs[k], BuildProto(build_dirs[k]), "build", "build")]

-----------------------------------------------------------------------------
(* A tool at work. *)

Idle == [build |-> FALSE, step |-> "none", plan |-> <<>>, files |-> {}, todo |-> {}, at |-> Monitor0,
         logged |-> {}, started |-> 0]
Job == Head(tool.plan)
In(f) == <<Job.place, f>>
OutFile(f) == <<Job.out, f>>
First == Job.kind \in {"v1", "v1alone"}

Goto(step) == tool' = [tool EXCEPT !.step = step]

\* The library has its modules; the scenario's directory those of its repository, or none yet.
Init ==
    /\ \E broken \in {{}} \cup {{ModelFile(m)} : m \in MayBreak} :
          json = [p \in Paths |->
             CASE p[2] \in broken /\ p[1] = "scenario" -> "broken"
               [] \/ p[1] = "library" /\ p[2] \in LibraryFiles
                  \/ p[1] = "scenario" /\ p[2] \in ScenarioFiles \ broken -> "whole"
               [] OTHER -> "none"]
    /\ \E committed \in BOOLEAN :
          maude = [p \in Paths |->
             CASE p[1] = "library" /\ p[2] \in LibraryFiles ->
                    generate_v1(p[2], p[2].dir[2], TRUE)
               [] p[1] = "scenario" /\ p[2] \in ScenarioFiles /\ p[2].dir[1] = "action_models" /\ committed ->
                    [generate_v1(p[2], "", TRUE) EXCEPT !.name = p[2].stem]
               [] p[1] = "scenario" /\ p[2] \in ScenarioFiles /\ Burst(p[2].dir) /\ committed ->
                    generate_v2(p[2], p[2].dir[2], TRUE)
               [] OTHER -> NoFile]
    /\ tool = Idle /\ faults = 0

MayStart == tool.step \in {"none", "done", "failed"} /\ tool.started < MaxTools
Begin(build, plan) ==
    tool' = [Idle EXCEPT !.build = build, !.plan = plan, !.step = "walk", !.started = tool.started + 1]

StartConverter ==
    /\ MayStart
    /\ \E c \in {d \in ByHand : Fits(d)} : Begin(FALSE, <<c>>)
    /\ UNCHANGED <<json, maude, faults>>

\* The command line knows the second version's converter but leaves its choice of a
\* directory or a file where the converter does not look: it fails at once.
StartCommandLineV2 ==
    /\ MayStart
    /\ tool' = [Idle EXCEPT !.step = "failed", !.started = tool.started + 1]
    /\ UNCHANGED <<json, maude, faults>>

\* A build begins with a copy of the scenario in a directory of its own.
StartBuild ==
    /\ MayStart
    /\ json' = [p \in Paths |-> IF p[1] = "build" THEN json[<<"scenario", p[2]>>] ELSE json[p]]
    /\ maude' = [p \in Paths |-> IF p[1] = "build" THEN maude[<<"scenario", p[2]>>] ELSE maude[p]]
    /\ Begin(TRUE, build_plan)
    /\ UNCHANGED faults

\* A directory is converted whole, or one file of it.
Taken(files) == IF Job.kind = "v2single" THEN {{f} : f \in files} ELSE {files}

\* The JSON files of a directory.
Walk ==
    /\ tool.step = "walk"
    /\ LET files == {f \in LibraryFiles \cup ScenarioFiles : f.dir = Job.dir /\ json[In(f)] # "none"}
       IN \E taken \in Taken(files) : tool' = [tool EXCEPT !.files = taken, !.todo = taken, !.step = "file"]
    /\ UNCHANGED <<json, maude, faults>>

\* Mutation: an exception ends the walk over the directory.
LogAndStop(f) ==
    tool' = [tool EXCEPT !.logged = @ \cup {OutFile(f)}, !.todo = {},
                         !.step = IF Job.kind = "v2single" THEN "failed" ELSE "file"]

\* A file that cannot be read or written is logged and left out; a single one ends the tool.
Log(f) ==
    tool' = [tool EXCEPT !.logged = @ \cup {OutFile(f)}, !.todo = @ \ {f},
                         !.step = IF Job.kind = "v2single" THEN "failed" ELSE "file"]

\* Mutation: the module's file is opened before the JSON file is read.
TakeOpensFirst(f) ==
    /\ tool.step = "file" /\ f \in tool.todo
    /\ maude' = [maude EXCEPT ![OutFile(f)] = Cut]
    /\ IF json[In(f)] # "whole" THEN Log(f)
       ELSE tool' = [tool EXCEPT !.at = f, !.todo = @ \ {f}, !.step = "maude"]
    /\ UNCHANGED <<json, faults>>

\* A file is read and converted, in the order the directory happens to have; then the
\* module's file is opened, which empties it.
Take(f) ==
    /\ tool.step = "file" /\ f \in tool.todo
    /\ IF json[In(f)] # "whole" THEN Log(f) /\ UNCHANGED maude
       ELSE /\ maude' = [maude EXCEPT ![OutFile(f)] = Cut]
            /\ tool' = [tool EXCEPT !.at = f, !.todo = @ \ {f}, !.step = "maude"]
    /\ UNCHANGED <<json, faults>>

WriteMaude ==
    /\ tool.step = "maude"
    /\ maude' = [maude EXCEPT ![OutFile(tool.at)] = Generate(Job, tool.at)]
    /\ Goto(IF First THEN "copy" ELSE "file")
    /\ UNCHANGED <<json, faults>>

\* The first version copies the JSON file beside the module, which in place is the file
\* it has read.
OpenJson ==
    /\ tool.step = "copy"
    /\ json' = [json EXCEPT ![OutFile(tool.at)] = "cut"]
    /\ Goto("json")
    /\ UNCHANGED <<maude, faults>>
WriteJson ==
    /\ tool.step = "json"
    /\ json' = [json EXCEPT ![OutFile(tool.at)] = "whole"]
    /\ Goto("file")
    /\ UNCHANGED <<maude, faults>>

\* The next directory, or the end.
EndDirectory ==
    /\ tool.step = "file" /\ tool.todo = {}
    /\ tool' = IF Len(tool.plan) = 1 THEN [tool EXCEPT !.step = "done"]
               ELSE [tool EXCEPT !.step = "walk", !.plan = Tail(@)]
    /\ UNCHANGED <<json, maude, faults>>

\* The disk is full: the write ends in an exception, and the file stays as it is.
WriteFails ==
    /\ tool.step \in {"maude", "json"} /\ faults < MaxFaults
    /\ Log(tool.at)
    /\ faults' = faults + 1
    /\ UNCHANGED <<json, maude>>

Kill ==
    /\ tool.step \notin {"none", "done", "failed"} /\ faults < MaxFaults
    /\ tool' = [Idle EXCEPT !.step = "failed", !.started = tool.started]
    /\ faults' = faults + 1
    /\ UNCHANGED <<json, maude>>

Next ==
    \/ StartConverter \/ StartCommandLineV2 \/ StartBuild
    \/ Walk \/ (\E f \in LibraryFiles \cup ScenarioFiles : Take(f))
    \/ WriteMaude \/ OpenJson \/ WriteJson \/ EndDirectory
    \/ WriteFails \/ Kill

Spec == Init /\ [][Next]_vars

-----------------------------------------------------------------------------
(* Properties *)

\* No conversion loses a model of the library or the scenario: while its JSON file is
\* being copied onto itself, or after a kill or a full disk has left that file cut, its
\* module is whole, with all its sections.
ProfileKept ==
    \A p \in {"library", "scenario"} \X (LibraryFiles \cup ScenarioFiles) :
        json[p] = "cut" => maude[p].state = "whole" /\ maude[p].prints = Sections(p[2])

\* A tool that has come to its end has converted every file it was given, as it would
\* convert that file alone, or has logged it: one bad file costs no other.
ConvertedOrLogged ==
    tool.step = "done" =>
        \A f \in tool.files : OutFile(f) \in tool.logged \/ maude[OutFile(f)] = Generate(Job, f)

\* What a main file loads and includes, from the library or from a directory.
Provided(out, place) ==
    LET At(f) == maude[<<IF f.dir[1] = "lib" THEN "library" ELSE place, f>>]
        loaded == {At(f) : f \in out.loads}
    IN /\ \A m \in loaded : m.state = "whole" /\ m.load /\ m.sound
       /\ {[name |-> m.name, version |-> m.version] : m \in loaded} = out.includes

\* After a build that has logged nothing, the generator's main file finds in the build's
\* directory exactly the modules it includes, whatever the scenario's directory held.
ModelsProvided ==
    tool.step = "done" /\ tool.build /\ tool.logged = {} => Provided(GenOutput(Yaml), "build")
=============================================================================
