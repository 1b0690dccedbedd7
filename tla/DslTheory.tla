----------------------------- MODULE DslTheory -----------------------------
(***************************************************************************)
(* The Maude theory that the transpiler writes for a program: the sorts,   *)
(* operators and classes its modules declare, the terms of its rules and   *)
(* functions, the configuration of a test, and whether every term uses     *)
(* only what is declared, at the sorts it is declared for.  Structs and    *)
(* functions that return values are left out: a struct stands as its       *)
(* fields.                                                                 *)
(***************************************************************************)
EXTENDS DslLang

CONSTANT Tests    \* tests of the programs, each a sequence of statements

\* Sorts of PROTO-TYPES; a string is an identifier, an identifier is a list.
DeclaredSorts == {"Int", "Bool", "String", "Oid", "OidList", "Configuration"}

Below(s, t) ==
    \/ s = t /\ s # "?"
    \/ <<s, t>> \in {<<"String", "Oid">>, <<"String", "OidList">>, <<"Oid", "OidList">>}

\* The sort of a type.  A list of anything but identifiers gets a sort of its own;
\* what is not known, maps included, is a string.
RECURSIVE map_dsl_type(_)
map_dsl_type(ty) ==
    CASE ty = <<>> -> "String"
      [] ty # <<>> /\ ty[1] = "List" ->
            IF Len(ty) = 1 THEN "OidList" ELSE map_dsl_type(Tail(ty)) \o "List"
      [] OTHER ->
            CASE ty[1] \in {"Int", "Bool", "String"} -> ty[1]
              [] ty[1] \in {"Object"} \cup DOMAIN Machines -> "Oid"
              [] ty[1] = "None" -> "Configuration"
              [] OTHER -> "String"

Sorts(decls) == [x \in {decls[i].x : i \in DOMAIN decls} |->
                    map_dsl_type(decls[CHOOSE i \in DOMAIN decls : decls[i].x = x].type)]

\* Attributes of a class.
attrs_decl(mac) == Sorts(Machines[mac].vars)

-----------------------------------------------------------------------------
(* The rule of a transition. *)

\* Names that the scan of a rule finds in an expression: it does not look into lists.
Scanned(ex) == Names(ex, {"list"})

\* Names that actions read.  What is left of an assignment is not looked at.
RECURSIVE ScanActions(_)
ScanActions(actions) ==
    UNION {LET s == actions[i]
           IN CASE s.st \in {"assign", "assignAt"} -> Scanned(s.ex)
                [] s.st = "del"   -> {s.x} \cup Scanned(s.ex)
                [] s.st = "delAt" -> {s.x} \cup Scanned(s.k) \cup Scanned(s.ex)
                [] s.st = "send"  -> Scanned(s.to) \cup NamesOf(s.args, {"list"})
                [] s.st = "if"    -> Scanned(s.c) \cup ScanActions(s.t) \cup ScanActions(s.f)
                [] s.st = "for"   -> Scanned(s.coll) \cup ScanActions(s.body) :
           i \in DOMAIN actions}

\* Attributes a rule has variables for, on both of its sides.
find_referenced_attrs(mac, t) ==
    DOMAIN attrs_decl(mac) \cap (ScanActions(t.actions) \cup Scanned(t.guard))

ParamNames(params) == {params[k].x : k \in DOMAIN params}

\* Variables of a rule: those of the event and of the attributes it refers to.
RuleVars(mac, t) ==
    [x \in ParamNames(t.params) \cup find_referenced_attrs(mac, t) |-> V(x)]

\* Terms of the attributes before the actions; an attribute without a variable is
\* written as its bare name, which does no harm when the rule leaves it alone.
InitState(mac, t) ==
    LET vars == RuleVars(mac, t)
    IN [x \in DOMAIN attrs_decl(mac) |-> IF x \in DOMAIN vars THEN vars[x] ELSE Token(x)]

\* The terms of the attributes a rule writes, and its messages.
RightHandSide(mac, t) ==
    LET init == InitState(mac, t)
        rhs  == ApplyActions(t.actions, init, RuleVars(mac, t))
        sets == {x \in DOMAIN init : rhs.cur[x] # init[x]}
    IN [sets |-> [x \in sets |-> rhs.cur[x]], out |-> rhs.out]

RuleTerms ==
    [mac \in DOMAIN Machines |->
        [i \in DOMAIN Machines[mac].transitions |->
            RightHandSide(mac, Machines[mac].transitions[i])]]

\* A function is an equation that rewrites a call to the messages of its body; its
\* assignments change no object.
FunctionTerms(mac, f) ==
    LET func == Machines[mac].funcs[f]
    IN ApplyActions(func.body,
                    [x \in ParamNames(func.params) \cup DOMAIN attrs_decl(mac) |-> V(x)],
                    <<>>).out

-----------------------------------------------------------------------------
(* Sorts of terms, "?" when an operator does not take its arguments. *)

Max2(s, t) == IF Below(s, t) THEN t ELSE IF Below(t, s) THEN s ELSE "?"

RECURSIVE SortOf(_, _)
SortOf(ex, sorts) ==
    LET Is(a, s) == Below(SortOf(a, sorts), s)
        When(c, s) == IF c THEN s ELSE "?"
    IN CASE ex.e = "var"   -> IF ex.x \in DOMAIN sorts THEN sorts[ex.x] ELSE "?"
         [] ex.e = "lit"   -> ex.sort
         [] ex.e = "token" -> "?"
         [] ex.e = "list"  -> When(Is(ex.a, "Oid"), "OidList")
         [] ex.e = "len"   -> When(Is(ex.a, "OidList"), "Int")
         [] ex.e = "not"   -> When(Is(ex.a, "Bool"), "Bool")
         [] ex.e = "cat"   -> When(Is(ex.a, "OidList") /\ Is(ex.b, "OidList"), "OidList")
         [] ex.e = "plus"  -> When(Is(ex.a, "Int") /\ Is(ex.b, "Int"), "Int")
         [] ex.e = "less"  -> When(Is(ex.a, "Int") /\ Is(ex.b, "Int"), "Bool")
         [] ex.e = "eq"    -> When(Max2(SortOf(ex.a, sorts), SortOf(ex.b, sorts)) # "?", "Bool")
         [] ex.e = "at"    -> When(Is(ex.a, "String") /\ Is(ex.b, "String"), "OidList")
         [] ex.e = "del"   -> When(Is(ex.a, "OidList") /\ Is(ex.b, "Oid"), "OidList")
         [] ex.e = "put"   -> When(/\ Is(ex.a, "String") /\ Is(ex.b, "String")
                                 /\ Is(ex.c, "OidList"), "String")
         [] ex.e = "ite"   -> When(Is(ex.a, "Bool"), Max2(SortOf(ex.b, sorts), SortOf(ex.c, sorts)))

\* Events that the machines of a program declare, with the sorts of their parameters.
collect_events(macs) ==
    [name \in UNION {DOMAIN Machines[mac].events : mac \in macs} |->
        [i \in DOMAIN Signatures[name] |-> map_dsl_type(Signatures[name][i])]]

Takes(op, args, sorts) ==
    Len(args) = Len(op) /\ \A i \in DOMAIN op : Below(SortOf(args[i], sorts), op[i])

\* The operator of a loop takes the names its body uses at the sorts of their types;
\* the sort of an attribute is taken for a type once more.
HelperTakes(names, attrs) ==
    \A x \in names \cap DOMAIN attrs : Below(attrs[x], map_dsl_type(<<attrs[x]>>))

RECURSIVE MessagesFit(_, _, _, _)
MessagesFit(outs, events, sorts, attrs) ==
    \A i \in DOMAIN outs :
        /\ \A j \in DOMAIN outs[i].when : SortOf(outs[i].when[j], sorts) = "Bool"
        /\ outs[i].kind = "msg" =>
              /\ Below(SortOf(outs[i].to, sorts), "Oid")
              /\ outs[i].name \in DOMAIN events
              /\ Takes(events[outs[i].name], outs[i].args, sorts)
        /\ outs[i].kind = "each" =>
              /\ Below(SortOf(outs[i].coll, sorts), "OidList")
              /\ HelperTakes(outs[i].uses, attrs)
              /\ MessagesFit(outs[i].body, events, (outs[i].x :> "Oid") @@ sorts, attrs)

RuleFits(mac, i, events) ==
    LET t     == Machines[mac].transitions[i]
        rhs   == RuleTerms[mac][i]
        attrs == attrs_decl(mac)
        sorts == Sorts(t.params) @@ [x \in find_referenced_attrs(mac, t) |-> attrs[x]]
                 @@ ("O" :> "Oid")
    IN /\ t.event \in DOMAIN events
       /\ Takes(events[t.event], [k \in DOMAIN t.params |-> V(t.params[k].x)], sorts)
       /\ SortOf(FormatExpr(t.guard, RuleVars(mac, t)), sorts) = "Bool"
       /\ \A x \in DOMAIN rhs.sets : Below(SortOf(rhs.sets[x], sorts), attrs[x])
       /\ MessagesFit(rhs.out, events, sorts, attrs)

FunctionFits(mac, f, events) ==
    LET params == Machines[mac].funcs[f].params
    IN /\ \A k \in DOMAIN params : map_dsl_type(params[k].type) \in DeclaredSorts
       /\ MessagesFit(FunctionTerms(mac, f), events,
                      Sorts(params) @@ attrs_decl(mac) @@ ("O" :> "Oid"), attrs_decl(mac))

\* The programs, as sets of machines, whose modules of types, events, functions and
\* machines load.
Loads ==
    {macs \in SUBSET DOMAIN Machines :
        LET events == collect_events(macs)
        IN /\ \A name \in DOMAIN events : Range(events[name]) \subseteq DeclaredSorts
           /\ \A mac \in macs :
                /\ Range(attrs_decl(mac)) \subseteq DeclaredSorts
                /\ \A f \in DOMAIN Machines[mac].funcs : FunctionFits(mac, f, events)
                /\ \A i \in DOMAIN Machines[mac].transitions : RuleFits(mac, i, events)}

-----------------------------------------------------------------------------
(* PROTO-TESTS: the configuration a test starts from. *)

default_for_type(ty) ==
    CASE map_dsl_type(ty) = "Int"  -> 0
      [] map_dsl_type(ty) = "Bool" -> FALSE
      [] ty # <<>> /\ ty[1] \in {"List", "Map"} -> <<>>
      [] OTHER -> ""

\* The object a constructor is turned into: attributes take its arguments in order,
\* and those that are left take what their sort begins with.
Object(mac, args) ==
    LET vars == Machines[mac].vars
        At1(i) == IF i \in DOMAIN args THEN Eval(args[i], <<>>) ELSE default_for_type(vars[i].type)
    IN [type |-> mac, state |-> Machines[mac].initial,
        attrs |-> [x \in {vars[i].x : i \in DOMAIN vars} |->
                      At1(CHOOSE i \in DOMAIN vars : vars[i].x = x)]]

\* The objects of a test, whatever their order in it.
ObjectsOf(stmts) ==
    LET news == {i \in DOMAIN stmts : stmts[i].st = "new"}
        The(x) == stmts[CHOOSE i \in news : stmts[i].x = x]
    IN [x \in {stmts[i].x : i \in news} |-> Object(The(x).mac, The(x).args)]

\* The messages of a call: the event's own, or those a function rewrites to, with
\* the attributes the object was created with.
Trigger(s, objects) ==
    LET args == EvalAll(s.args, <<>>)
        o    == objects[s.to]
    IN IF s.to \in DOMAIN objects /\ s.name \in DOMAIN Machines[o.type].funcs
       THEN Reduced(FunctionTerms(o.type, s.name),
                    Binding(Machines[o.type].funcs[s.name].params, args)
                    @@ ("O" :> s.to) @@ o.attrs)
       ELSE <<[to |-> s.to, name |-> s.name, args |-> args]>>

MessagesOf(stmts, objects) ==
    LET calls == SelectSeq(stmts, LAMBDA s : s.st = "call")
    IN FoldLeft(LAMBDA b, s : FoldLeft(Sent, b, Trigger(s, objects)), EmptyBag, calls)

\* Identifiers that a test's module declares: its objects, and bare names in calls.
oid_names(stmts) ==
    UNION {CASE stmts[i].st = "new" -> {stmts[i].x}
             [] stmts[i].st = "call" -> {a.x : a \in {b \in Range(stmts[i].args) : b.e = "var"}}
             [] OTHER -> {} : i \in DOMAIN stmts}

\* Are the objects of a test of classes of the program, and its messages those that
\* the operators of the program take?
TestFits(stmts, macs) ==
    LET sorts   == [x \in oid_names(stmts) |-> "Oid"]
        objects == ObjectsOf(stmts)
        events  == collect_events(macs)
        FuncsOf(x) == IF x \in DOMAIN objects THEN Machines[objects[x].type].funcs ELSE <<>>
        Called(s) ==
            CASE s.name \in DOMAIN FuncsOf(s.to) ->
                    LET params == FuncsOf(s.to)[s.name].params
                    IN Takes([k \in DOMAIN params |-> map_dsl_type(params[k].type)], s.args, sorts)
              [] s.name \notin DOMAIN FuncsOf(s.to) ->
                    s.name \in DOMAIN events /\ Takes(events[s.name], s.args, sorts)
    IN /\ \A x \in DOMAIN objects : objects[x].type \in macs
       /\ \A i \in DOMAIN stmts : stmts[i].st = "call" => Called(stmts[i])

\* The configurations that the tests give to start from, with their programs.
TestConfigurations ==
    {[program |-> p[2], objs |-> ObjectsOf(p[1]), soup |-> MessagesOf(p[1], ObjectsOf(p[1]))] :
        p \in {p \in Tests \X SUBSET DOMAIN Machines : TestFits(p[1], p[2])}}
=============================================================================
