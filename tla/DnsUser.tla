------------------------------ MODULE DnsUser ------------------------------
(***************************************************************************)
(* A user model (USER-ACTION-ACTOR, lib/common/maude/user-action-actor.    *)
(* maude) driving a DNS traffic generator (DnsTgen).  The user model walks *)
(* a Markov chain: on the status of the action it waits for it starts the  *)
(* action of its current state, a pause or a request to the generator, and *)
(* moves to a next state, maxSteps times.  A status carries no number, so  *)
(* it is taken for the answer to whatever its sender was last asked.       *)
(***************************************************************************)
EXTENDS DnsTgen, FiniteSets

CONSTANTS
    States,             \* states of the Markov chain
    start,              \* the first state
    Succ,               \* [States -> SUBSET States]: successors of positive weight
    Nums                \* [States -> SUBSET NumToResolve]: names to resolve, or {} for a wait

ASSUME UserAssumption ==
    /\ start \in States
    /\ Succ \in [States -> SUBSET States]
    /\ \A s \in States : Succ[s] # {}
    /\ Nums \in [States -> SUBSET (NumToResolve \ {0})]

VARIABLES
    um,                 \* the user model's attributes
    wakes               \* messages the user model has sent itself

tgenVars == <<tgen, actions, replies, queries, responses, timers>>
vars == <<um, wakes, tgenVars>>

\* w4 holds the message sent last, of which only the addressee is ever used.
UM == [curState: States, nsteps: 0..maxSteps, w4: {"self", "tgen"}]

mkUMactor == [curState |-> start, nsteps |-> maxSteps, w4 |-> "self"]

-----------------------------------------------------------------------------

isWaitType(s) == Nums[s] = {}

\* Start the action of the current state; wakes and actions are w and as before it.
umRcvStatus(w) ==
    /\ \E s \in Succ[um.curState] :
         um' = [curState |-> s, nsteps |-> um.nsteps - 1,
                w4 |-> IF isWaitType(um.curState) THEN "self" ELSE "tgen"]
    /\ IF isWaitType(um.curState)
       THEN wakes' = w + 1 /\ actions' = actions
       ELSE /\ \E n \in Nums[um.curState] :
                 actions' = actions \cup {[num |-> n, step |-> um.nsteps]}
            /\ wakes' = w

\* A status from addr: ignored at the end, and when addr is not awaited.
statusFrom(addr, w) ==
    IF um.nsteps > 0 /\ um.w4 = addr THEN umRcvStatus(w)
    ELSE wakes' = w /\ UNCHANGED <<um, actions>>

\* The pause is over, or the first message of the simulation has come.
UmRcvWake ==
    /\ wakes > 0
    /\ statusFrom("self", wakes - 1)
    /\ UNCHANGED <<tgen, replies, queries, responses, timers>>

UmRcvReply ==
    \E r \in BagToSet(replies) :
        /\ replies' = BagRemove(replies, r)
        /\ statusFrom("tgen", wakes)
        /\ UNCHANGED <<tgen, queries, responses, timers>>

UserNext == UmRcvWake \/ UmRcvReply

-----------------------------------------------------------------------------

Init ==
    /\ TgenInit
    /\ um = mkUMactor
    /\ wakes = 1

Next == UserNext \/ ((TgenNext \/ NetworkNext) /\ UNCHANGED <<um, wakes>>)

Spec == Init /\ [][Next]_vars

\* Every message is delivered and every timer fires; losing is not fair.
Fairness ==
    /\ WF_vars(UmRcvWake)
    /\ WF_vars(UmRcvReply)
    /\ WF_vars(RcvDNSAction /\ UNCHANGED <<um, wakes>>)
    /\ WF_vars((DnsTOretry \/ DnsTOgiveup) /\ UNCHANGED <<um, wakes>>)

FairSpec == Spec /\ Fairness

-----------------------------------------------------------------------------
(* Properties *)

\* Types of every variable.
TypeOK ==
    /\ um \in UM
    /\ wakes \in Nat
    /\ tgen \in Tgen
    /\ actions \subseteq Action
    /\ IsABag(replies) /\ BagToSet(replies) \subseteq Reply
    /\ IsABag(queries) /\ BagToSet(queries) \subseteq Nat
    /\ IsABag(responses) /\ BagToSet(responses) \subseteq Nat
    /\ IsABag(timers) /\ BagToSet(timers) \subseteq Nat

isBusy == tgen.w4 # noQuery /\ tgen.replyTo # noAction

\* The places the conversation can be at: the user model pauses, has asked, is
\* served, or is about to be answered; in each the number of the step agrees.
Pausing ==
    wakes = 1 /\ actions = {} /\ replies = EmptyBag /\ isIdle(tgen) /\ um.w4 = "self"

Asked ==
    /\ wakes = 0 /\ replies = EmptyBag /\ isIdle(tgen) /\ um.w4 = "tgen"
    /\ \E a \in actions : actions = {a} /\ a.num > 0 /\ a.step = um.nsteps + 1

Served ==
    /\ wakes = 0 /\ actions = {} /\ replies = EmptyBag /\ isBusy /\ um.w4 = "tgen"
    /\ tgen.replyTo.step = um.nsteps + 1

Answered ==
    /\ wakes = 0 /\ actions = {} /\ isIdle(tgen) /\ um.w4 = "tgen"
    /\ \E r \in BagToSet(replies) : replies = SetToBag({r}) /\ r.step = um.nsteps + 1

Ended ==
    um.nsteps = 0 /\ wakes = 0 /\ actions = {} /\ replies = EmptyBag /\ isIdle(tgen)

\* The user model and the generator are always at exactly one place of their
\* conversation: no action is dropped by a busy generator, none is answered twice or
\* not at all, and no status is taken for the answer to another action.
OneConversation == Pausing \/ Asked \/ Served \/ Answered \/ Ended

\* The query the generator waits for has exactly one timer, so it is retried or given
\* up, and no timer of an earlier query, fired late, uses up its retries; ids ahead
\* of ctr are unused.
QueryTimed ==
    /\ tgen.w4 # noQuery => BagIn(tgen.w4, timers) /\ timers[tgen.w4] = 1
    /\ \A q \in BagToSet(timers) \cup BagToSet(queries) \cup BagToSet(responses) : q < tgen.ctr

\* Whatever the network loses, the user model takes all its steps and the generator
\* answers the last action.
StepsTaken == <>[]Ended

\* The generator, driven by this user model, is the service its head comment promises.
AS == INSTANCE ActionService WITH
        Actions <- Action, none <- noAction, replyOf <- reply,
        asked <- actions, inHand <- tgen.replyTo, answers <- replies

ImplementsService == AS!FairSpec
=============================================================================
