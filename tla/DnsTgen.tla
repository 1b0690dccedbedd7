------------------------------ MODULE DnsTgen ------------------------------
(***************************************************************************)
(* The DNS traffic generator (DNS-TGEN, lib/tgen/maude/dnsTgen-actor.      *)
(* maude).  It accepts an action from its user model, resolves as many     *)
(* names as the action asks for, one after the other, and answers ok, or   *)
(* failed when the retries it has for the whole action are used up.  Each  *)
(* action below is one rewrite rule; the resolver and the network it is    *)
(* reached over lose and delay messages at will.                           *)
(*                                                                         *)
(* Names are left out: a query is its id (ctr), which is what responses    *)
(* are matched on.  A timer may fire at any moment after it was set.       *)
(***************************************************************************)
EXTENDS Naturals, Bags, BagsExt

CONSTANTS
    retryMax,           \* retries for one action
    NumToResolve,       \* the values num_to_resolve may take
    maxSteps,           \* steps of the user model, each of at most one action
    noQuery,            \* w4 of an idle generator
    noAction            \* replyTo of an idle generator (null)

\* The step, which no rule reads, tells the actions apart.
Action == [num: NumToResolve, step: 1..maxSteps]

ASSUME TgenAssumption ==
    /\ retryMax \in Nat
    /\ NumToResolve \subseteq Nat
    /\ maxSteps \in Nat
    /\ noQuery \notin Nat
    /\ noAction \notin Action

VARIABLES
    tgen,               \* the generator's attributes
    actions,            \* actionQ messages on their way to it
    replies,            \* bag of actionR messages on their way to the user model
    queries,            \* bag of queries on their way to the resolver
    responses,          \* bag of responses on their way back
    timers              \* bag of pending dnsTO timers

Tgen == [w4: Nat \cup {noQuery}, replyTo: Action \cup {noAction},
         numQ: Nat, ctr: Nat, nRetry: 0..retryMax]

Reply == [result: {"ok", "failed"}, step: 1..maxSteps]

reply(a, result) == [result |-> result, step |-> a.step]

mkDnsTgenA ==
    [w4 |-> noQuery, replyTo |-> noAction, numQ |-> 0, ctr |-> 0, nRetry |-> 0]

-----------------------------------------------------------------------------

\* Variant of tgenQuery: the id is used again for the next name.
tgenQuerySameId(t) ==
    /\ tgen' = [t EXCEPT !.w4 = t.ctr]
    /\ queries' = BagAdd(queries, t.ctr)
    /\ timers' = BagAdd(timers, t.ctr)

\* Ask for the next name: a new id, the query and its timer.
tgenQuery(t) ==
    /\ tgen' = [t EXCEPT !.w4 = t.ctr, !.ctr = @ + 1]
    /\ queries' = BagAdd(queries, t.ctr)
    /\ timers' = BagAdd(timers, t.ctr)

isIdle(t) == t.w4 = noQuery /\ t.replyTo = noAction

\* An action that comes while another is in hand, or asks for no name, is
\* consumed and forgotten.
RcvDNSAction ==
    \E a \in actions :
        /\ actions' = actions \ {a}
        /\ IF isIdle(tgen) /\ a.num > 0
           THEN tgenQuery([tgen EXCEPT !.replyTo = a, !.numQ = a.num - 1,
                                       !.nRetry = retryMax])
           ELSE UNCHANGED <<tgen, queries, timers>>
        /\ UNCHANGED <<replies, responses>>

\* The awaited response: ask for the next name, or answer that all are resolved.
\* The retries used so far stay used.
DnsResponse ==
    /\ BagIn(tgen.w4, responses)
    /\ responses' = BagRemove(responses, tgen.w4)
    /\ IF tgen.numQ = 0
       THEN /\ tgen' = [tgen EXCEPT !.w4 = noQuery, !.replyTo = noAction]
            /\ replies' = BagAdd(replies, reply(tgen.replyTo, "ok"))
            /\ UNCHANGED <<queries, timers>>
       ELSE /\ tgenQuery([tgen EXCEPT !.numQ = @ - 1])
            /\ replies' = replies
    /\ UNCHANGED actions

\* A response to an earlier query, or a second one, changes nothing.
DnsResponseRedundant ==
    \E q \in BagToSet(responses) :
        /\ q # tgen.w4
        /\ responses' = BagRemove(responses, q)
        /\ UNCHANGED <<tgen, actions, replies, queries, timers>>

DnsTOretryIgnore ==
    \E q \in BagToSet(timers) :
        /\ q # tgen.w4
        /\ timers' = BagRemove(timers, q)
        /\ UNCHANGED <<tgen, actions, replies, queries, responses>>

\* Variant of DnsTOretry: the query is repeated without a new timer.
DnsTOretryUntimed ==
    /\ BagIn(tgen.w4, timers)
    /\ tgen.nRetry > 0
    /\ tgen' = [tgen EXCEPT !.nRetry = @ - 1]
    /\ queries' = BagAdd(queries, tgen.w4)
    /\ timers' = BagRemove(timers, tgen.w4)
    /\ UNCHANGED <<actions, replies, responses>>

\* Variant of DnsTOretry: retries are not counted out.
DnsTOretryEndless ==
    /\ BagIn(tgen.w4, timers)
    /\ tgen' = [tgen EXCEPT !.nRetry = @ - 1]
    /\ queries' = BagAdd(queries, tgen.w4)
    /\ UNCHANGED <<actions, replies, responses, timers>>

\* The query is sent again under its old id; the timer that fired is set again.
DnsTOretry ==
    /\ BagIn(tgen.w4, timers)
    /\ tgen.nRetry > 0
    /\ tgen' = [tgen EXCEPT !.nRetry = @ - 1]
    /\ queries' = BagAdd(queries, tgen.w4)
    /\ UNCHANGED <<actions, replies, responses, timers>>

\* Variant of DnsTOgiveup: the query given up is still awaited.
DnsTOgiveupWaiting ==
    /\ BagIn(tgen.w4, timers)
    /\ tgen.nRetry = 0
    /\ replies' = BagAdd(replies, reply(tgen.replyTo, "failed"))
    /\ timers' = BagRemove(timers, tgen.w4)
    /\ UNCHANGED <<tgen, actions, queries, responses>>

\* No retries left: the whole action has failed; numQ is left as it is.
DnsTOgiveup ==
    /\ BagIn(tgen.w4, timers)
    /\ tgen.nRetry = 0
    /\ tgen' = [tgen EXCEPT !.w4 = noQuery, !.replyTo = noAction]
    /\ replies' = BagAdd(replies, reply(tgen.replyTo, "failed"))
    /\ timers' = BagRemove(timers, tgen.w4)
    /\ UNCHANGED <<actions, queries, responses>>

-----------------------------------------------------------------------------
(* The resolver and the network *)

ResolverAnswers ==
    \E q \in BagToSet(queries) :
        /\ queries' = BagRemove(queries, q)
        /\ responses' = BagAdd(responses, q)
        /\ UNCHANGED <<tgen, actions, replies, timers>>

LoseQuery ==
    \E q \in BagToSet(queries) :
        /\ queries' = BagRemove(queries, q)
        /\ UNCHANGED <<tgen, actions, replies, responses, timers>>

LoseResponse ==
    \E q \in BagToSet(responses) :
        /\ responses' = BagRemove(responses, q)
        /\ UNCHANGED <<tgen, actions, replies, queries, timers>>

TgenNext ==
    \/ RcvDNSAction \/ DnsResponse \/ DnsResponseRedundant
    \/ DnsTOretryIgnore \/ DnsTOretry \/ DnsTOgiveup

NetworkNext == ResolverAnswers \/ LoseQuery \/ LoseResponse

TgenInit ==
    /\ tgen = mkDnsTgenA
    /\ actions = {}
    /\ replies = EmptyBag
    /\ queries = EmptyBag
    /\ responses = EmptyBag
    /\ timers = EmptyBag
=============================================================================
