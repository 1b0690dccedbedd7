------------------------------ MODULE DslTool ------------------------------
(***************************************************************************)
(* The protocol modeller's command: resolve the imports of a model file,   *)
(* validate the program, run its tests in the simulator, transpile it.     *)
(* Files, machines and tests are data (texts of the program); formatting,  *)
(* structs, functions that return values and expressions that raise are    *)
(* left out.                                                               *)
(***************************************************************************)
EXTENDS DslTheory

CONSTANTS Texts,      \* sets of files to start the tool on: for each file its imports,
                      \* machines and tests
          Main        \* the file named on the command line

VARIABLES text,     \* the files
          phase,    \* "resolve", "validate", "simulate", "done" or "failed"
          open,     \* calls of parse_and_resolve in progress: file and next import
          parsed,   \* parsed_files
          merged,   \* files of the merged program, in its order
          objs,     \* objects of the test that runs, by name
          queue,    \* event_queue
          running,  \* a test is being run
          todo,     \* statements of the test that were not run
          left,     \* tests that have not begun
          verdicts, \* results of the others
          dropped   \* events of the test that found no transition (for the properties)

vars == <<text, phase, open, parsed, merged, objs, queue, running, todo, left,
          verdicts, dropped>>
simVars == <<objs, queue, running, todo, left, verdicts, dropped>>

Init ==
    /\ text \in Texts
    /\ phase = "resolve"
    /\ open = <<[file |-> Main, next |-> 1]>>
    /\ parsed = {Main} /\ merged = <<Main>>
    /\ objs = <<>> /\ queue = <<>> /\ todo = <<>> /\ left = <<>> /\ verdicts = <<>>
    /\ running = FALSE /\ dropped = EmptyBag

-----------------------------------------------------------------------------
(* Imports. *)

\* Mutation: a file counts as parsed when its imports are done.
ParsedWhenDone(p, f) == p

\* A file counts as parsed before its imports are looked at.
ParsedBefore(p, f) == p \cup {f}

\* The next import of the innermost call: a file that was parsed adds nothing, a
\* file that is not there ends the tool.
ResolveImport ==
    LET top == Last(open)
        imp == text[top.file].imports[top.next]
    IN /\ phase = "resolve" /\ open # <<>>
       /\ top.next <= Len(text[top.file].imports)
       /\ IF imp \notin DOMAIN text
          THEN phase' = "failed" /\ UNCHANGED <<open, parsed, merged>>
          ELSE /\ LET rest == [open EXCEPT ![Len(open)].next = @ + 1]
                  IN IF imp \in parsed
                     THEN open' = rest /\ UNCHANGED <<parsed, merged>>
                     ELSE /\ open' = Append(rest, [file |-> imp, next |-> 1])
                          /\ parsed' = ParsedBefore(parsed, imp)
                          /\ merged' = Append(merged, imp)
               /\ UNCHANGED phase
       /\ UNCHANGED <<text, simVars>>

\* The innermost call returns; its program has been merged into its caller's.
ResolveReturn ==
    /\ phase = "resolve" /\ open # <<>>
    /\ Last(open).next > Len(text[Last(open).file].imports)
    /\ open' = Front(open)
    /\ phase' = IF open' = <<>> THEN "validate" ELSE phase
    /\ UNCHANGED <<text, parsed, merged, simVars>>

MergedMachines == UNION {Range(text[f].machines) : f \in Range(merged)}
MergedTests == FlattenSeq([i \in DOMAIN merged |-> text[merged[i]].tests])

-----------------------------------------------------------------------------
(* Validation. *)

\* Names a call may use: events, declared or of transitions, and functions.
KnownNames ==
    UNION {LET m == Machines[mac]
           IN {t.event : t \in Range(m.transitions)} \cup DOMAIN m.events \cup DOMAIN m.funcs :
           mac \in MergedMachines}

\* Calls outside of if and for are looked up; those inside are not.
ActionsValid(actions) ==
    \A i \in DOMAIN actions : actions[i].st = "send" => actions[i].name \in KnownNames

StatementValid(s) ==
    CASE s.st = "new"  -> s.mac \in MergedMachines
      [] s.st = "call" -> s.name \in KnownNames
      [] OTHER -> TRUE

Validate ==
    /\ phase = "validate"
    /\ IF /\ \A mac \in MergedMachines : \A i \in DOMAIN Machines[mac].transitions :
                ActionsValid(Machines[mac].transitions[i].actions)
          /\ \A i \in DOMAIN MergedTests : \A j \in DOMAIN MergedTests[i] :
                StatementValid(MergedTests[i][j])
       THEN phase' = "simulate" /\ left' = MergedTests
       ELSE phase' = "failed" /\ UNCHANGED left
    /\ UNCHANGED <<text, open, parsed, merged, objs, queue, running, todo, verdicts, dropped>>

-----------------------------------------------------------------------------
(* Simulation. *)

RunTest ==
    /\ phase = "simulate" /\ ~running /\ left # <<>>
    /\ running' = TRUE
    /\ objs' = <<>> /\ dropped' = EmptyBag
    /\ todo' = Head(left) /\ left' = Tail(left)
    /\ UNCHANGED <<text, phase, open, parsed, merged, queue, verdicts>>

\* Mutation: the test goes on.
VerdictForgotten(v) == UNCHANGED <<verdicts, running>>

\* The test ends; what is left of it is not run.
Verdict(v) == verdicts' = Append(verdicts, v) /\ running' = FALSE

\* A machine's constructor: an initialiser sees the arguments; a list without one is
\* empty, and so is a map; anything else has no value.
Instance(mac, args) ==
    LET m    == Machines[mac]
        env  == Binding(m.params, EvalAll(args, <<>>))
        Value(v) == IF v.init # <<>> THEN Eval(v.init[1], env)
                    ELSE IF v.type[1] \in {"List", "Map"} THEN <<>> ELSE "None"
    IN [type |-> mac, state |-> m.initial,
        attrs |-> [x \in {m.vars[i].x : i \in DOMAIN m.vars} |->
                      Value(m.vars[CHOOSE i \in DOMAIN m.vars : m.vars[i].x = x])]]

\* What calling s does: an event is put in the queue; a function's body is executed
\* for its object, at once, where the objects of the test are known, but for calls the
\* attributes are not.
Called(s) ==
    LET args == EvalAll(s.args, <<>>)
        o    == objs[s.to]
    IN IF s.to \in DOMAIN objs /\ s.name \in DOMAIN Machines[o.type].funcs
       THEN LET f == Machines[o.type].funcs[s.name]
            IN ExecStmts(s.to, f.body,
                         [attrs |-> o.attrs, locals |-> Binding(f.params, args),
                          start |-> [x \in DOMAIN objs |-> x], out |-> <<>>])
       ELSE [attrs |-> o.attrs, out |-> <<[to |-> s.to, name |-> s.name, args |-> args]>>]

\* One statement of the test, once the events of the one before are all handled.
RunTestStmt ==
    /\ phase = "simulate" /\ running /\ todo # <<>> /\ queue = <<>>
    /\ todo' = Tail(todo)
    /\ LET s == Head(todo)
       IN \/ /\ s.st = "new"
             /\ objs' = (s.x :> Instance(s.mac, s.args)) @@ objs
             /\ UNCHANGED <<queue, running, verdicts>>
          \/ /\ s.st = "call"
             /\ queue' = queue \o Called(s).out
             /\ objs' = [objs EXCEPT ![s.to].attrs = Called(s).attrs]
             /\ UNCHANGED <<running, verdicts>>
          \/ /\ s.st = "assert"
             /\ IF objs[s.x].attrs[s.attr] = s.is
                THEN UNCHANGED <<running, verdicts>> ELSE Verdict("failed")
             /\ UNCHANGED <<objs, queue>>
    /\ UNCHANGED <<text, phase, open, parsed, merged, left, dropped>>

TestPassed ==
    /\ phase = "simulate" /\ running /\ todo = <<>> /\ queue = <<>>
    /\ Verdict("passed")
    /\ UNCHANGED <<text, phase, open, parsed, merged, objs, queue, todo, left, dropped>>

\* An object fits a parameter of its machine, or of no type; other values fit all.
TypeFits(type, v) == type # <<>> /\ v \in DOMAIN objs => type = <<objs[v].type>>

\* A transition takes an event that has at least its parameters.
Matches(t, o, ev) ==
    /\ t.from = o.state /\ t.event = ev.name /\ Len(t.params) <= Len(ev.args)
    /\ \A k \in DOMAIN t.params : TypeFits(t.params[k].type, ev.args[k])
    /\ Eval(t.guard, o.attrs @@ Binding(t.params, ev.args))

\* The first transition that matches, in the order of the program.
FirstMatch(o, ev) ==
    LET ts == Machines[o.type].transitions
    IN {i \in DOMAIN ts : /\ Matches(ts[i], o, ev)
                          /\ \A j \in 1..(i - 1) : ~Matches(ts[j], o, ev)}

\* The head of the queue goes to the first transition that matches it, or is dropped.
DispatchEvent ==
    /\ phase = "simulate" /\ queue # <<>>
    /\ LET ev == Head(queue)
       IN \/ /\ ev.to \in DOMAIN objs => FirstMatch(objs[ev.to], ev) = {}
             /\ dropped' = Sent(dropped, ev)
             /\ queue' = Tail(queue)
             /\ UNCHANGED objs
          \/ /\ ev.to \in DOMAIN objs
             /\ \E i \in FirstMatch(objs[ev.to], ev) :
                  LET t == Machines[objs[ev.to].type].transitions[i]
                      m == ExecStmts(ev.to, t.actions,
                             [attrs |-> objs[ev.to].attrs, locals |-> Binding(t.params, ev.args),
                              start |-> objs[ev.to].attrs, out |-> <<>>])
                  IN /\ objs' = [objs EXCEPT ![ev.to].state = t.to, ![ev.to].attrs = m.attrs]
                     /\ queue' = Tail(queue) \o m.out
             /\ UNCHANGED dropped
    /\ UNCHANGED <<text, phase, open, parsed, merged, running, todo, left, verdicts>>

\* The program is transpiled whatever its tests' results.
Transpile ==
    /\ phase = "simulate" /\ ~running /\ left = <<>>
    /\ phase' = "done"
    /\ UNCHANGED <<text, open, parsed, merged, simVars>>

-----------------------------------------------------------------------------
Next ==
    \/ ResolveImport \/ ResolveReturn \/ Validate
    \/ RunTest \/ RunTestStmt \/ TestPassed \/ DispatchEvent \/ Transpile

Spec == Init /\ [][Next]_vars

\* The tool is one process that runs until it is done.
FairSpec == Spec /\ WF_vars(Next)
-----------------------------------------------------------------------------
(* Properties. *)

\* Type invariant.
TypeOK ==
    /\ phase \in {"resolve", "validate", "simulate", "done", "failed"}
    /\ merged \in Seq(DOMAIN text) /\ parsed \subseteq DOMAIN text
    /\ \A i \in DOMAIN queue : Len(queue[i].args) = Len(Signatures[queue[i].name])
    /\ \A x \in DOMAIN objs :
         /\ objs[x].type \in MergedMachines
         /\ DOMAIN objs[x].attrs = DOMAIN attrs_decl(objs[x].type)
         /\ objs[x].state \in Machines[objs[x].type].states
    /\ Range(verdicts) \subseteq {"passed", "failed"}
    /\ ~running => queue = <<>>

\* Files reached by imports from f.
RECURSIVE Reached(_)
Reached(fs) ==
    LET more == fs \cup {g \in DOMAIN text : \E f \in fs : g \in Range(text[f].imports)}
    IN IF more = fs THEN fs ELSE Reached(more)

\* "Automatic dependency resolution": files that import each other, or are imported
\* on several paths, are merged once each, and no file that is reached is left out.
MergedOnce ==
    /\ \A i, j \in DOMAIN merged : merged[i] = merged[j] => i = j
    /\ phase \in {"validate", "simulate", "done"} => Range(merged) = Reached({Main})

\* Every program that is validated and every run of a test comes to an end.
ToolEnds == <>(phase \in {"done", "failed"})

CurrentTest == MergedTests[Len(MergedTests) - Len(left)]

\* The objects and the messages of the last n statements of a test.
Rest ==
    [stmts \in Tests |->
        [n \in 0..Len(stmts) |->
            LET rest == SubSeq(stmts, Len(stmts) - n + 1, Len(stmts))
                news == {i \in DOMAIN rest : rest[i].st = "new"}
                The(x) == rest[CHOOSE i \in news : rest[i].x = x]
            IN [objs |-> [x \in {rest[i].x : i \in news} |-> Instance(The(x).mac, The(x).args)],
                msgs |-> MessagesOf(rest, ObjectsOf(stmts))]]]

\* What the test has still to create and to call.
Ahead == IF todo = <<>> THEN [objs |-> <<>>, msgs |-> EmptyBag] ELSE Rest[CurrentTest][Len(todo)]

\* Every run of a test in the simulator is a run of the theory the transpiler
\* generates, with the events it drops left in the soup: what a test reaches, a
\* search finds.  By the code it does not hold of a program that calls through an
\* attribute it has just assigned, nor of one that reads an attribute in a list
\* alone: the definitions Call and Scanned follow the code there.
Rules == INSTANCE DslRules WITH
    program <- IF phase \in {"simulate", "done"} THEN MergedMachines ELSE {},
    objs <- objs @@ Ahead.objs,
    soup <- FoldLeft(Sent, Ahead.msgs (+) dropped, queue)
SimulatesRules == Rules!Spec
=============================================================================
