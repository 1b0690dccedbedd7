------------------------------ MODULE DslRules ------------------------------
(***************************************************************************)
(* What the generated theory does: objects and a soup of messages, one     *)
(* rule for each transition.  A rule rewrites any message that fits it, in *)
(* any order; a test is a configuration to start the search from.          *)
(***************************************************************************)
EXTENDS DslLang

CONSTANTS map_dsl_type(_),   \* sort of a type
          RuleTerms,         \* by machine, the right-hand sides of its rules
          Loads,             \* programs whose modules load
          TestConfigurations \* configurations to start from, each with its program

VARIABLES program,   \* machines of the program that was transpiled
          objs,      \* objects by name: their machine, state and attributes
          soup       \* messages

LOCAL rvars == <<program, objs, soup>>

Init == program = {} /\ objs = <<>> /\ soup = EmptyBag

\* A program is transpiled.
Generate ==
    /\ program = {} /\ program' \in SUBSET DOMAIN Machines
    /\ UNCHANGED <<objs, soup>>

\* A test's configuration is searched anew.
Load ==
    /\ [program |-> program, objs |-> objs', soup |-> soup'] \in TestConfigurations
    /\ UNCHANGED program

\* Does a variable of the sort match the value?
Fits(sort, v) == sort = "String" => v \notin DOMAIN objs

\* Rule i of the machine of object ev.to rewrites ev.
Rewrite(ev, i) ==
    LET o    == objs[ev.to]
        t    == Machines[o.type].transitions[i]
        rhs  == RuleTerms[o.type][i]
        env  == Binding(t.params, ev.args) @@ ("O" :> ev.to) @@ o.attrs
        outs == Reduced(rhs.out, env)
    IN /\ t.from = o.state /\ t.event = ev.name /\ Len(t.params) = Len(ev.args)
       /\ \A k \in DOMAIN t.params : Fits(map_dsl_type(t.params[k].type), ev.args[k])
       /\ Eval(t.guard, env)
       /\ objs' = [objs EXCEPT ![ev.to] =
                     [type |-> o.type, state |-> t.to,
                      attrs |-> [x \in DOMAIN rhs.sets |-> Eval(rhs.sets[x], env)] @@ o.attrs]]
       /\ soup' = FoldLeft(Sent, Taken(soup, ev), outs)

\* Nothing is rewritten by a theory that does not load.
Rule ==
    /\ program \in Loads
    /\ \E ev \in BagToSet(soup) :
          /\ ev.to \in DOMAIN objs
          /\ \E i \in DOMAIN Machines[objs[ev.to].type].transitions : Rewrite(ev, i)
    /\ UNCHANGED program

Spec == Init /\ [][Generate \/ Load \/ Rule]_rvars
=============================================================================
