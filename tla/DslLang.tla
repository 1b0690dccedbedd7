------------------------------ MODULE DslLang ------------------------------
(***************************************************************************)
(* The action language of the protocol modeller, and its two meanings: the *)
(* simulator executes the statements of a transition one after another,    *)
(* the transpiler runs them once on terms, to build the right-hand side of *)
(* a rewrite rule.  A list holds names of machines, a map lists by key; no *)
(* map is assigned as a whole, and no parameter or loop variable has the   *)
(* name of an attribute.                                                   *)
(***************************************************************************)
EXTENDS Integers, Sequences, SequencesExt, FiniteSets, Bags, TLC

CONSTANT Machines     \* declarations of machines, by name

\* Declarations.  A type is a sequence of names, such as <<"List", "IRCClient">>;
\* one that is left out is <<>>.
Var(x, type, init) == [x |-> x, type |-> type, init |-> init]

On(event, params, guard, from, to, actions) ==
    [event |-> event, params |-> params, guard |-> guard, from |-> from, to |-> to,
     actions |-> actions]

Function(params, body) == [params |-> params, body |-> body]

\* A machine that names no initial state starts in the first one it declares.
Machine(params, vars, events, funcs, states, initial, transitions) ==
    [params |-> params, vars |-> vars, events |-> events, funcs |-> funcs,
     states |-> Range(states), initial |-> IF initial = "" THEN Head(states) ELSE initial,
     transitions |-> transitions]

\* Expressions.
V(x)       == [e |-> "var", x |-> x]
Str(v)     == [e |-> "lit", v |-> v, sort |-> "String"]
Num(v)     == [e |-> "lit", v |-> v, sort |-> "Int"]
Bool(v)    == [e |-> "lit", v |-> v, sort |-> "Bool"]
Empty      == [e |-> "lit", v |-> <<>>, sort |-> "OidList"]
One(a)     == [e |-> "list", a |-> a]
LenOf(a)   == [e |-> "len", a |-> a]
Not(a)     == [e |-> "not", a |-> a]
Cat(a, b)  == [e |-> "cat", a |-> a, b |-> b]
Plus(a, b) == [e |-> "plus", a |-> a, b |-> b]
Eq(a, b)   == [e |-> "eq", a |-> a, b |-> b]
Less(a, b) == [e |-> "less", a |-> a, b |-> b]
At(m, k)   == [e |-> "at", a |-> m, b |-> k]
\* Terms that only the transpiler builds.
Del(l, x)    == [e |-> "del", a |-> l, b |-> x]
Put(m, k, v) == [e |-> "put", a |-> m, b |-> k, c |-> v]
Ite(c, t, f) == [e |-> "ite", a |-> c, b |-> t, c |-> f]
Token(x)     == [e |-> "token", x |-> x]      \* a name that is declared nowhere

\* Statements.
Assign(x, ex)        == [st |-> "assign", x |-> x, ex |-> ex]
AssignAt(m, k, ex)   == [st |-> "assignAt", x |-> m, k |-> k, ex |-> ex]
DelFrom(l, ex)       == [st |-> "del", x |-> l, ex |-> ex]
DelAt(m, k, ex)      == [st |-> "delAt", x |-> m, k |-> k, ex |-> ex]
Send(to, name, args) == [st |-> "send", to |-> to, name |-> name, args |-> args]
If(c, t, f)          == [st |-> "if", c |-> c, t |-> t, f |-> f]
For(x, coll, body)   == [st |-> "for", x |-> x, coll |-> coll, body |-> body]

\* Declared parameters of the events.
Signatures ==
    [name \in UNION {DOMAIN Machines[mac].events : mac \in DOMAIN Machines} |->
        Machines[CHOOSE mac \in DOMAIN Machines : name \in DOMAIN Machines[mac].events]
            .events[name]]

\* Does the event have one parameter more than a call has arguments?
LacksOne(name, args) ==
    name \in DOMAIN Signatures /\ Len(args) + 1 = Len(Signatures[name])

\* Names of parameters stand for the arguments in their places.
Binding(params, args) ==
    [x \in {params[k].x : k \in DOMAIN params \cap DOMAIN args} |->
        args[CHOOSE k \in DOMAIN params : params[k].x = x]]

-----------------------------------------------------------------------------
(* Values. *)

\* A key without an entry counts as an empty list, and so does an attribute
\* without a value.
Entry(m, k) == IF k \in DOMAIN m THEN m[k] ELSE <<>>

BinOp(op, l, r) ==
    CASE op = "cat"  -> l \o r
      [] op = "plus" -> l + r
      [] op = "eq"   -> l = r
      [] op = "less" -> l < r

\* The simulator's del on a list drops every element that is equal to x.
Removed(s, x) == SelectSeq(s, LAMBDA y : y # x)

\* The equations of del in PROTO-TYPES drop the first one.
MaudeDel(s, x) == RemoveFirst(s, x)

\* The equations of getMap and putMap in PROTO-SYSTEM: the outermost entry counts.
MaudePut(m, k, v) == (k :> v) @@ m

\* An expression or a term in an environment; a name that stands for nothing is a
\* string.
RECURSIVE Eval(_, _)
Eval(ex, env) ==
    CASE ex.e = "var"  -> IF ex.x \in DOMAIN env THEN env[ex.x] ELSE ex.x
      [] ex.e = "lit"  -> ex.v
      [] ex.e = "list" -> <<Eval(ex.a, env)>>
      [] ex.e = "len"  -> Len(Eval(ex.a, env))
      [] ex.e = "not"  -> ~Eval(ex.a, env)
      [] ex.e \in {"cat", "plus", "eq", "less"} ->
            BinOp(ex.e, Eval(ex.a, env), Eval(ex.b, env))
      [] ex.e = "at"   -> Entry(Eval(ex.a, env), Eval(ex.b, env))
      [] ex.e = "del"  -> MaudeDel(Eval(ex.a, env), Eval(ex.b, env))
      [] ex.e = "put"  -> MaudePut(Eval(ex.a, env), Eval(ex.b, env), Eval(ex.c, env))
      [] ex.e = "ite"  -> IF Eval(ex.a, env) THEN Eval(ex.b, env) ELSE Eval(ex.c, env)

EvalAll(exs, env) == [i \in DOMAIN exs |-> Eval(exs[i], env)]

-----------------------------------------------------------------------------
(* The simulator. *)

\* Mutation: the sender is never added.
CallPlain(self, s, m) ==
    [m EXCEPT !.out = Append(@, [to |-> (m.locals @@ m.start)[s.to.x], name |-> s.name,
                                 args |-> EvalAll(s.args, m.attrs @@ m.locals)])]

\* The event a call of a method is turned into: the caller goes first when the
\* event declares one parameter more than the call has arguments.  The machine it is
\* for is looked up among the local names, then as it was at the start: a name that
\* was not known then calls nothing, and an assignment does not redirect a call.
Call(self, s, m) ==
    LET known == m.locals @@ m.start
        args  == EvalAll(s.args, m.attrs @@ m.locals)
    IN IF s.to.x \notin DOMAIN known THEN m
       ELSE [m EXCEPT !.out = Append(@,
                [to   |-> known[s.to.x], name |-> s.name,
                 args |-> IF LacksOne(s.name, args) THEN <<self>> \o args ELSE args])]

\* m has a machine's attributes, its local names, what was known when the execution
\* started and the events that were enqueued.  Attributes are looked up, and
\* assigned, before local names.
RECURSIVE ExecStmts(_, _, _), ExecEach(_, _, _, _)
ExecStmts(self, stmts, m) ==
    IF stmts = <<>> THEN m ELSE
    LET s    == Head(stmts)
        env  == m.attrs @@ m.locals
        next ==
          CASE s.st = "assign" ->
                 IF s.x \in DOMAIN m.attrs
                 THEN [m EXCEPT !.attrs[s.x] = Eval(s.ex, env)]
                 ELSE [m EXCEPT !.locals = (s.x :> Eval(s.ex, env)) @@ @]
            [] s.st = "assignAt" ->
                 [m EXCEPT !.attrs[s.x] = (Eval(s.k, env) :> Eval(s.ex, env)) @@ @]
            [] s.st = "del" ->
                 [m EXCEPT !.attrs[s.x] = Removed(@, Eval(s.ex, env))]
            [] s.st = "delAt" ->
                 [m EXCEPT !.attrs[s.x] =
                    (Eval(s.k, env) :> Removed(Entry(@, Eval(s.k, env)), Eval(s.ex, env))) @@ @]
            [] s.st = "send" -> Call(self, s, m)
            [] s.st = "if"   -> ExecStmts(self, IF Eval(s.c, env) THEN s.t ELSE s.f, m)
            [] s.st = "for"  -> ExecEach(self, s, Eval(s.coll, env), m)
    IN ExecStmts(self, Tail(stmts), next)

\* The collection is evaluated once; the variable keeps its last value.
ExecEach(self, s, items, m) ==
    IF items = <<>> THEN m
    ELSE ExecEach(self, s, Tail(items),
                  ExecStmts(self, s.body, [m EXCEPT !.locals = (s.x :> Head(items)) @@ @]))

-----------------------------------------------------------------------------
(* The transpiler. *)

\* Names an expression reads, to a scan that does not look into some kinds of it.
RECURSIVE Names(_, _)
Names(ex, blind) ==
    CASE ex.e \in blind \cup {"lit"} -> {}
      [] ex.e = "var" -> {ex.x}
      [] ex.e \in {"list", "len", "not"} \ blind -> Names(ex.a, blind)
      [] OTHER -> Names(ex.a, blind) \cup Names(ex.b, blind)

NamesOf(exs, blind) == UNION {Names(exs[i], blind) : i \in DOMAIN exs}

\* Names that the body of a loop uses, but in lists and indices.
RECURSIVE find_ids(_)
find_ids(actions) ==
    LET Ids(ex) == Names(ex, {"list", "at"})
    IN UNION {LET s == actions[i]
              IN CASE s.st = "assign"   -> {s.x} \cup Ids(s.ex)
                   [] s.st = "assignAt" -> {s.x} \cup Ids(s.k) \cup Ids(s.ex)
                   [] s.st = "del"      -> {s.x} \cup Ids(s.ex)
                   [] s.st = "delAt"    -> Ids(s.ex)
                   [] s.st = "send"     -> {s.to.x} \cup NamesOf(s.args, {"list", "at"})
                   [] s.st = "if"       -> Ids(s.c) \cup find_ids(s.t) \cup find_ids(s.f)
                   [] s.st = "for"      -> Ids(s.coll) \cup find_ids(s.body) :
              i \in DOMAIN actions}

\* Names that are never quoted.
KnownIdents ==
    UNION {LET m == Machines[mac]
           IN {mac} \cup {m.vars[i].x : i \in DOMAIN m.vars} \cup m.states
              \cup UNION {{t.from, t.to} \cup {t.params[k].x : k \in DOMAIN t.params} :
                            t \in Range(m.transitions)} :
           mac \in DOMAIN Machines}

\* An expression with the names in it replaced by terms.
RECURSIVE FormatExpr(_, _)
FormatExpr(ex, names) ==
    CASE ex.e = "var" -> IF ex.x \in DOMAIN names THEN names[ex.x]
                         ELSE IF ex.x \in KnownIdents THEN Token(ex.x) ELSE Str(ex.x)
      [] ex.e = "lit" -> ex
      [] ex.e \in {"list", "len", "not"} -> [ex EXCEPT !.a = FormatExpr(@, names)]
      [] OTHER -> [ex EXCEPT !.a = FormatExpr(@, names), !.b = FormatExpr(@, names)]

FormatAll(exs, names) == [i \in DOMAIN exs |-> FormatExpr(exs[i], names)]

\* A message on the right-hand side; O is the object of the rule.
Emitted(s, names) ==
    LET args  == FormatAll(s.args, names)
        fewer == s.name \in DOMAIN Signatures /\ Len(args) < Len(Signatures[s.name])
    IN [kind |-> "msg", when |-> <<>>, name |-> s.name,
        to |-> IF s.to.x \in DOMAIN names THEN names[s.to.x] ELSE Token(s.to.x),
        args |-> IF fewer THEN <<V("O")>> \o args ELSE args]

\* Messages of a branch are wrapped in its condition.
Wrapped(cond, outs) == [i \in DOMAIN outs |-> [outs[i] EXCEPT !.when = <<cond>> \o @]]

\* Mutation: names stand for the attributes of the left-hand side.
CurrentVarsFirst(vars, cur) == vars @@ cur

\* What names stand for at an action: attributes as the ones before it left them.
CurrentVars(vars, cur) == cur @@ vars

\* The terms of the attributes and the messages, after some actions.  Only
\* attributes in cur change.  An attribute with the same term in both branches of
\* an if keeps the term it had; a loop emits messages through an operator that
\* recurs over the collection as the left-hand side has it, takes the terms of the
\* names its body is found to use, and changes nothing.
RECURSIVE ApplyActions(_, _, _)
ApplyActions(actions, cur, vars) ==
    IF actions = <<>> THEN [cur |-> cur, out |-> <<>>] ELSE
    LET s       == Head(actions)
        names   == CurrentVars(vars, cur)
        Sets(t) == [cur |-> IF s.x \in DOMAIN cur THEN [cur EXCEPT ![s.x] = t] ELSE cur,
                    out |-> <<>>]
        first ==
          CASE s.st = "assign"   -> Sets(FormatExpr(s.ex, names))
            [] s.st = "assignAt" ->
                 Sets(Put(names[s.x], FormatExpr(s.k, names), FormatExpr(s.ex, names)))
            [] s.st = "del"      -> Sets(Del(names[s.x], FormatExpr(s.ex, names)))
            [] s.st = "delAt"    ->
                 LET k == FormatExpr(s.k, names)
                 IN Sets(Put(names[s.x], k, Del(At(names[s.x], k), FormatExpr(s.ex, names))))
            [] s.st = "send"     -> [cur |-> cur, out |-> <<Emitted(s, names)>>]
            [] s.st = "if" ->
                 LET c == FormatExpr(s.c, names)
                     t == ApplyActions(s.t, cur, vars)
                     f == ApplyActions(s.f, cur, vars)
                 IN [cur |-> [x \in DOMAIN cur |->
                                IF t.cur[x] = f.cur[x] THEN cur[x]
                                ELSE Ite(c, t.cur[x], f.cur[x])],
                     out |-> Wrapped(c, t.out) \o Wrapped(Not(c), f.out)]
            [] s.st = "for" ->
                 LET uses == find_ids(s.body) \cap DOMAIN names
                 IN [cur |-> cur,
                     out |-> <<[kind |-> "each", when |-> <<>>, x |-> s.x, uses |-> uses,
                                coll |-> FormatExpr(s.coll, vars),
                                body |-> ApplyActions(s.body, <<>>,
                                            (s.x :> V(s.x)) @@ Restrict(names, uses)).out]>>]
        rest == ApplyActions(Tail(actions), first.cur, vars)
    IN [cur |-> rest.cur, out |-> first.out \o rest.out]

-----------------------------------------------------------------------------
(* Messages that are rewritten to. *)

\* The soup with a message more, and with one less.
Sent(soup, ev) == (ev :> CopiesIn(ev, soup) + 1) @@ soup
Taken(soup, ev) ==
    IF soup[ev] = 1 THEN Restrict(soup, DOMAIN soup \ {ev}) ELSE (ev :> soup[ev] - 1) @@ soup

Holds(when, env) == \A i \in DOMAIN when : Eval(when[i], env)

RECURSIVE Reduced(_, _), ReducedEach(_, _, _)
Reduced(outs, env) ==
    IF outs = <<>> THEN <<>> ELSE
    LET o == Head(outs)
    IN (CASE ~Holds(o.when, env) -> <<>>
          [] o.kind = "msg"  -> <<[to |-> Eval(o.to, env), name |-> o.name,
                                   args |-> EvalAll(o.args, env)]>>
          [] o.kind = "each" -> ReducedEach(o, Eval(o.coll, env), env))
       \o Reduced(Tail(outs), env)

ReducedEach(o, items, env) ==
    IF items = <<>> THEN <<>>
    ELSE Reduced(o.body, (o.x :> Head(items)) @@ env) \o ReducedEach(o, Tail(items), env)
=============================================================================
