--------------------------- MODULE DnsUserProofs ---------------------------
(***************************************************************************)
(* Proofs about DnsUser, for every Markov chain, every number of retries   *)
(* and every number of steps.  The inductive invariant is the conjunction  *)
(* of the three invariants TLC checks: the types of the bags need the      *)
(* place of the conversation (a reply is made from the action in hand),    *)
(* and that place needs the types.                                         *)
(***************************************************************************)
EXTENDS DnsUser, TLAPS

-----------------------------------------------------------------------------
(* Bags: what adding an element and removing one does. *)

\* An element is added to a bag: one more copy of it, nothing else changes.
LEMMA BagAddFacts ==
    ASSUME NEW B, IsABag(B), NEW x
    PROVE  /\ IsABag(BagAdd(B, x))
           /\ BagToSet(BagAdd(B, x)) = BagToSet(B) \cup {x}
           /\ BagAdd(B, x)[x] = IF BagIn(x, B) THEN B[x] + 1 ELSE 1
           /\ \A y \in BagToSet(B) \ {x} : BagAdd(B, x)[y] = B[y]
BY DEF IsABag, BagAdd, BagToSet, BagIn

\* An element of a bag is removed: one copy less of it, nothing else changes.
LEMMA BagRemoveFacts ==
    ASSUME NEW B, IsABag(B), NEW x \in BagToSet(B)
    PROVE  /\ IsABag(BagRemove(B, x))
           /\ BagToSet(BagRemove(B, x)) =
                  IF B[x] = 1 THEN BagToSet(B) \ {x} ELSE BagToSet(B)
           /\ B[x] # 1 => BagRemove(B, x)[x] = B[x] - 1
           /\ \A y \in BagToSet(B) \ {x} : BagRemove(B, x)[y] = B[y]
<1>1. CASE B[x] = 1
    BY <1>1 DEF IsABag, BagRemove, BagToSet
<1>2. CASE B[x] # 1
    BY <1>2 DEF IsABag, BagRemove, BagToSet
<1> QED BY <1>1, <1>2

\* The empty bag is a bag of nothing.
LEMMA EmptyBagFacts == IsABag(EmptyBag) /\ BagToSet(EmptyBag) = {}
BY DEF IsABag, EmptyBag, SetToBag, BagToSet

\* A bag of one element is made from the empty one, and becomes empty again.
LEMMA SingletonBag ==
    ASSUME NEW x
    PROVE  /\ BagAdd(EmptyBag, x) = SetToBag({x})
           /\ BagRemove(SetToBag({x}), x) = EmptyBag
           /\ BagToSet(SetToBag({x})) = {x}
BY DEF EmptyBag, SetToBag, BagAdd, BagRemove, BagToSet

-----------------------------------------------------------------------------
(* The invariant, and the steps. *)

IInv == TypeOK /\ OneConversation /\ QueryTimed

LEMMA InitIInv == Init => IInv
<1> SUFFICES ASSUME Init PROVE IInv
    OBVIOUS
<1> USE TgenAssumption, UserAssumption DEF Init, TgenInit
<1>1. TypeOK
    BY EmptyBagFacts
       DEF TypeOK, UM, mkUMactor, Tgen, mkDnsTgenA
<1>2. Pausing
    BY DEF Pausing, isIdle, mkUMactor, mkDnsTgenA
<1>3. QueryTimed
    BY EmptyBagFacts DEF QueryTimed, mkDnsTgenA
<1> QED BY <1>1, <1>2, <1>3 DEF IInv, OneConversation

\* What tgenQuery does to types and timers: a fresh id is asked for and timed.
LEMMA tgenQueryFacts ==
    ASSUME TypeOK, QueryTimed,
           NEW STATE t, t \in Tgen, t.ctr = tgen.ctr,
           tgenQuery(t), responses' = responses \/ 
               \E q \in BagToSet(responses) : responses' = BagRemove(responses, q)
    PROVE  /\ tgen' \in Tgen
           /\ tgen'.w4 = t.ctr /\ tgen'.replyTo = t.replyTo
           /\ IsABag(queries') /\ BagToSet(queries') \subseteq Nat
           /\ IsABag(responses') /\ BagToSet(responses') \subseteq Nat
           /\ IsABag(timers') /\ BagToSet(timers') \subseteq Nat
           /\ QueryTimed'
<1> USE TgenAssumption DEF tgenQuery
<1>2. t.ctr \in Nat
    BY DEF Tgen
<1> DEFINE u == [t EXCEPT !.w4 = t.ctr]
<1>1. /\ tgen' = [u EXCEPT !.ctr = t.ctr + 1]
      /\ tgen' \in Tgen
      /\ tgen'.w4 = t.ctr /\ tgen'.ctr = t.ctr + 1 /\ tgen'.replyTo = t.replyTo
  <2>1. u \in Tgen /\ u.w4 = t.ctr /\ u.replyTo = t.replyTo
    BY <1>2 DEF Tgen
  <2>2. tgen' = [u EXCEPT !.ctr = t.ctr + 1]
    OBVIOUS
  <2> HIDE DEF u
  <2>3. [u EXCEPT !.ctr = t.ctr + 1] \in Tgen
    BY <1>2, <2>1 DEF Tgen
  <2> QED BY <2>1, <2>2, <2>3 DEF Tgen
<1> HIDE DEF u
<1>3. /\ IsABag(queries') /\ BagToSet(queries') = BagToSet(queries) \cup {t.ctr}
      /\ IsABag(timers') /\ BagToSet(timers') = BagToSet(timers) \cup {t.ctr}
  <2>1. IsABag(queries) /\ IsABag(timers)
    BY DEF TypeOK
  <2>2. queries' = BagAdd(queries, t.ctr) /\ timers' = BagAdd(timers, t.ctr)
    OBVIOUS
  <2> QED BY <2>1, <2>2, BagAddFacts
<1>7. IsABag(responses') /\ BagToSet(responses') \subseteq BagToSet(responses)
  <2>1. IsABag(responses)
    BY DEF TypeOK
  <2> QED BY <2>1, BagRemoveFacts
<1>4. ~BagIn(t.ctr, timers)
    BY <1>2 DEF QueryTimed, BagIn, TypeOK
<1>5. timers'[t.ctr] = 1
    BY <1>4, BagAddFacts DEF TypeOK
<1>6. QueryTimed'
    BY <1>1, <1>2, <1>3, <1>5, <1>7 DEF QueryTimed, BagIn, TypeOK, Tgen
<1> QED BY <1>1, <1>2, <1>3, <1>6, <1>7 DEF TypeOK

\* Starting the action of the current state after the pause or the answer.
LEMMA StatusStep ==
    ASSUME IInv, isIdle(tgen), actions = {}, NEW addr, um.w4 = addr,
           statusFrom(addr, 0), replies' = EmptyBag,
           UNCHANGED <<tgen, queries, responses, timers>>
    PROVE  IInv'
<1> USE TgenAssumption, UserAssumption
<1>1. CASE um.nsteps = 0
  <2>1. wakes' = 0 /\ um' = um /\ actions' = {}
    BY <1>1 DEF statusFrom
  <2>2. TypeOK'
    BY <2>1, EmptyBagFacts DEF IInv, TypeOK
  <2>3. Ended'
    BY <1>1, <2>1 DEF Ended, isIdle
  <2> QED BY <2>2, <2>3 DEF IInv, OneConversation, QueryTimed
<1>2. CASE um.nsteps > 0
  <2>1. um \in UM /\ um.nsteps \in 1..maxSteps /\ um.curState \in States
    BY <1>2 DEF IInv, TypeOK, UM
  <2>2. umRcvStatus(0)
    BY <1>2 DEF statusFrom
  <2>3. PICK s \in Succ[um.curState] :
          um' = [curState |-> s, nsteps |-> um.nsteps - 1,
                 w4 |-> IF isWaitType(um.curState) THEN "self" ELSE "tgen"]
    BY <2>2 DEF umRcvStatus
  <2>4. um' \in UM /\ um'.nsteps + 1 = um.nsteps
    BY <2>1, <2>3 DEF UM
  <2>5. CASE isWaitType(um.curState)
    <3>1. wakes' = 1 /\ actions' = {} /\ um'.w4 = "self"
      BY <2>2, <2>3, <2>5 DEF umRcvStatus
    <3>2. TypeOK'
      BY <2>4, <3>1, EmptyBagFacts DEF IInv, TypeOK
    <3>3. Pausing'
      BY <3>1 DEF Pausing, isIdle
    <3> QED BY <3>2, <3>3 DEF IInv, OneConversation, QueryTimed
  <2>6. CASE ~isWaitType(um.curState)
    <3>1. PICK n \in Nums[um.curState] :
            actions' = {[num |-> n, step |-> um.nsteps]}
      BY <2>2, <2>6 DEF umRcvStatus
    <3>2. wakes' = 0 /\ um'.w4 = "tgen"
      BY <2>2, <2>3, <2>6 DEF umRcvStatus
    <3>3. n \in NumToResolve /\ n > 0
      BY <2>1
    <3>4. actions' \subseteq Action
      BY <2>1, <3>1, <3>3 DEF Action
    <3>5. TypeOK'
      BY <2>4, <3>2, <3>4, EmptyBagFacts DEF IInv, TypeOK
    <3>6. Asked'
      BY <2>4, <3>1, <3>2, <3>3 DEF Asked, isIdle
    <3> QED BY <3>5, <3>6 DEF IInv, OneConversation, QueryTimed
  <2> QED BY <2>5, <2>6
<1>3. um.nsteps \in Nat
  BY DEF IInv, TypeOK, UM
<1> QED BY <1>1, <1>2, <1>3

LEMMA UmRcvWakeStep == IInv /\ UmRcvWake => IInv'
<1> SUFFICES ASSUME IInv, UmRcvWake PROVE IInv'
    OBVIOUS
<1>1. Pausing
    BY DEF IInv, OneConversation, Pausing, Asked, Served, Answered, Ended, UmRcvWake
<1>2. statusFrom("self", 0) /\ replies' = EmptyBag
    BY <1>1 DEF UmRcvWake, Pausing
<1> QED BY <1>1, <1>2, StatusStep DEF Pausing, UmRcvWake

LEMMA UmRcvReplyStep == IInv /\ UmRcvReply => IInv'
<1> SUFFICES ASSUME IInv, UmRcvReply PROVE IInv'
    OBVIOUS
<1>1. PICK r \in BagToSet(replies) :
        /\ replies' = BagRemove(replies, r)
        /\ statusFrom("tgen", wakes)
        /\ UNCHANGED <<tgen, queries, responses, timers>>
    BY DEF UmRcvReply
<1>2. Answered
    BY <1>1, EmptyBagFacts DEF IInv, OneConversation, Pausing, Asked, Served, Ended
<1>3. replies = SetToBag({r}) /\ wakes = 0
  <2>1. PICK q \in BagToSet(replies) : replies = SetToBag({q})
    BY <1>2 DEF Answered
  <2>2. BagToSet(replies) = {q}
    BY <2>1, SingletonBag
  <2> QED BY <1>1, <1>2, <2>1, <2>2 DEF Answered
<1>4. replies' = EmptyBag /\ statusFrom("tgen", 0)
    BY <1>1, <1>3, SingletonBag
<1> QED BY <1>1, <1>2, <1>4, StatusStep DEF Answered

LEMMA RcvDNSActionStep ==
    IInv /\ RcvDNSAction /\ UNCHANGED <<um, wakes>> => IInv'
<1> SUFFICES ASSUME IInv, RcvDNSAction, UNCHANGED <<um, wakes>> PROVE IInv'
    OBVIOUS
<1> USE TgenAssumption
<1>1. Asked
    BY DEF IInv, OneConversation, Pausing, Served, Answered, Ended, RcvDNSAction
<1>2. PICK a \in actions :
        /\ actions' = {} /\ a.num > 0 /\ a.step = um.nsteps + 1
        /\ tgenQuery([tgen EXCEPT !.replyTo = a, !.numQ = a.num - 1, !.nRetry = retryMax])
        /\ UNCHANGED <<replies, responses>>
    BY <1>1 DEF Asked, RcvDNSAction
<1>3. a \in Action /\ a # noAction /\ a.num \in Nat
    BY <1>2 DEF IInv, TypeOK, Action
<1> DEFINE t == [tgen EXCEPT !.replyTo = a, !.numQ = a.num - 1, !.nRetry = retryMax]
<1>4. t \in Tgen /\ t.ctr = tgen.ctr /\ t.replyTo = a
  <2> DEFINE t1 == [tgen EXCEPT !.replyTo = a]
             t2 == [t1 EXCEPT !.numQ = a.num - 1]
  <2>1. t1 \in Tgen /\ t1.ctr = tgen.ctr /\ t1.replyTo = a
    BY <1>3 DEF IInv, TypeOK, Tgen
  <2>2. t = [t2 EXCEPT !.nRetry = retryMax]
    OBVIOUS
  <2> HIDE DEF t1
  <2>3. t2 \in Tgen /\ t2.ctr = tgen.ctr /\ t2.replyTo = a
    BY <1>2, <1>3, <2>1 DEF Tgen
  <2> HIDE DEF t2, t
  <2>4. [t2 EXCEPT !.nRetry = retryMax] \in Tgen
    BY <2>3 DEF Tgen
  <2> QED BY <2>2, <2>3, <2>4 DEF Tgen
<1>5. tgenQuery(t)
    BY <1>2
<1> HIDE DEF t
<1>6. /\ tgen' \in Tgen /\ tgen'.w4 = t.ctr /\ tgen'.replyTo = a
      /\ IsABag(queries') /\ BagToSet(queries') \subseteq Nat
      /\ IsABag(responses') /\ BagToSet(responses') \subseteq Nat
      /\ IsABag(timers') /\ BagToSet(timers') \subseteq Nat
      /\ QueryTimed'
    BY <1>2, <1>4, <1>5, tgenQueryFacts DEF IInv
<1>7. TypeOK'
    BY <1>2, <1>6 DEF IInv, TypeOK
<1>8. t.ctr # noQuery
    BY <1>4 DEF Tgen
<1>9. Served'
    BY <1>1, <1>2, <1>3, <1>6, <1>8 DEF Asked, Served, isBusy
<1> QED BY <1>6, <1>7, <1>9 DEF IInv, OneConversation

\* The generator answers the action in hand, whatever became of the query.
LEMMA AnswerFacts ==
    ASSUME IInv, Served, NEW result \in {"ok", "failed"},
           tgen' = [tgen EXCEPT !.w4 = noQuery, !.replyTo = noAction],
           replies' = BagAdd(replies, reply(tgen.replyTo, result)),
           IsABag(responses'), BagToSet(responses') \subseteq BagToSet(responses),
           IsABag(timers'), BagToSet(timers') \subseteq BagToSet(timers),
           UNCHANGED <<um, wakes, actions, queries>>
    PROVE  IInv'
<1> USE TgenAssumption
<1> DEFINE r == reply(tgen.replyTo, result)
<1>1. tgen \in Tgen /\ tgen.replyTo \in Action
    BY DEF IInv, TypeOK, Tgen, Served, isBusy
<1>2. r \in Reply /\ r.step = um.nsteps + 1
    BY <1>1 DEF reply, Reply, Action, Served
<1>3. replies' = SetToBag({r}) /\ BagToSet(replies') = {r}
    BY SingletonBag DEF Served
<1>4. IsABag(replies')
    BY BagAddFacts DEF IInv, TypeOK
<1> HIDE DEF r
<1>5. tgen' \in Tgen /\ tgen'.w4 = noQuery /\ tgen'.replyTo = noAction /\ tgen'.ctr = tgen.ctr
  <2> DEFINE t == [tgen EXCEPT !.w4 = noQuery]
  <2>1. tgen' = [t EXCEPT !.replyTo = noAction]
    OBVIOUS
  <2>2. t \in Tgen /\ t.w4 = noQuery /\ t.ctr = tgen.ctr
    BY <1>1 DEF Tgen
  <2> HIDE DEF t
  <2>3. [t EXCEPT !.replyTo = noAction] \in Tgen
    BY <2>2 DEF Tgen
  <2> QED BY <2>1, <2>2, <2>3 DEF Tgen
<1>6. TypeOK'
    BY <1>2, <1>3, <1>4, <1>5 DEF IInv, TypeOK
<1>7. Answered'
    BY <1>2, <1>3, <1>5 DEF Served, Answered, isIdle
<1>8. QueryTimed'
    BY <1>5 DEF IInv, QueryTimed
<1> QED BY <1>6, <1>7, <1>8 DEF IInv, OneConversation

LEMMA DnsResponseStep ==
    IInv /\ DnsResponse /\ UNCHANGED <<um, wakes>> => IInv'
<1> SUFFICES ASSUME IInv, DnsResponse, UNCHANGED <<um, wakes>> PROVE IInv'
    OBVIOUS
<1> USE TgenAssumption
<1>1. /\ tgen.w4 \in BagToSet(responses) /\ responses' = BagRemove(responses, tgen.w4)
      /\ actions' = actions
    BY DEF DnsResponse, BagIn
<1>2. tgen.w4 \in Nat /\ tgen \in Tgen
    BY <1>1 DEF IInv, TypeOK
<1>3. Served
    BY <1>2 DEF IInv, OneConversation, Pausing, Asked, Answered, Ended, isIdle
<1>4. tgen.replyTo \in Action
    BY <1>2, <1>3 DEF Served, isBusy, Tgen
<1>5. CASE tgen.numQ = 0
  <2>1. /\ tgen' = [tgen EXCEPT !.w4 = noQuery, !.replyTo = noAction]
        /\ replies' = BagAdd(replies, reply(tgen.replyTo, "ok"))
        /\ UNCHANGED <<queries, timers>>
    BY <1>5 DEF DnsResponse
  <2>2. IsABag(responses') /\ BagToSet(responses') \subseteq BagToSet(responses)
    BY <1>1, BagRemoveFacts DEF IInv, TypeOK
  <2>3. IsABag(timers') /\ BagToSet(timers') \subseteq BagToSet(timers)
    BY <2>1 DEF IInv, TypeOK
  <2>4. UNCHANGED <<um, wakes, actions, queries>>
    BY <1>1, <2>1
  <2> DEFINE result == "ok"
  <2>5. result \in {"ok", "failed"} /\ replies' = BagAdd(replies, reply(tgen.replyTo, result))
    BY <2>1
  <2> HIDE DEF result
  <2> QED BY <1>3, <2>1, <2>2, <2>3, <2>4, <2>5, AnswerFacts
<1>6. CASE tgen.numQ # 0
  <2> DEFINE t == [tgen EXCEPT !.numQ = tgen.numQ - 1]
  <2>1. tgenQuery(t) /\ replies' = replies
    BY <1>6 DEF DnsResponse
  <2>2. t \in Tgen /\ t.ctr = tgen.ctr /\ t.replyTo = tgen.replyTo
    BY <1>2, <1>6 DEF Tgen
  <2> HIDE DEF t
  <2>3. /\ tgen' \in Tgen /\ tgen'.w4 = t.ctr /\ tgen'.replyTo = tgen.replyTo
        /\ IsABag(queries') /\ BagToSet(queries') \subseteq Nat
        /\ IsABag(responses') /\ BagToSet(responses') \subseteq Nat
        /\ IsABag(timers') /\ BagToSet(timers') \subseteq Nat
        /\ QueryTimed'
    BY <1>1, <2>1, <2>2, tgenQueryFacts DEF IInv
  <2>4. TypeOK'
    BY <1>1, <2>1, <2>3 DEF IInv, TypeOK
  <2>5. t.ctr # noQuery
    BY <2>2 DEF Tgen
  <2>6. Served'
    BY <1>1, <1>3, <2>1, <2>3, <2>5 DEF Served, isBusy
  <2> QED BY <2>3, <2>4, <2>6 DEF IInv, OneConversation
<1> QED BY <1>5, <1>6

LEMMA DnsTOretryStep ==
    IInv /\ DnsTOretry /\ UNCHANGED <<um, wakes>> => IInv'
<1> SUFFICES ASSUME IInv, DnsTOretry, UNCHANGED <<um, wakes>> PROVE IInv'
    OBVIOUS
<1> USE TgenAssumption
<1>1. /\ tgen.w4 \in BagToSet(timers) /\ tgen.nRetry > 0
      /\ tgen' = [tgen EXCEPT !.nRetry = @ - 1]
      /\ queries' = BagAdd(queries, tgen.w4)
      /\ UNCHANGED <<actions, replies, responses, timers>>
    BY DEF DnsTOretry, BagIn
<1>2. tgen \in Tgen /\ tgen.w4 \in Nat
    BY <1>1 DEF IInv, TypeOK
<1>3. /\ tgen' \in Tgen /\ tgen'.w4 = tgen.w4
      /\ tgen'.replyTo = tgen.replyTo /\ tgen'.ctr = tgen.ctr
    BY <1>1, <1>2 DEF Tgen
<1>4. IsABag(queries') /\ BagToSet(queries') = BagToSet(queries) \cup {tgen.w4}
    BY <1>1, BagAddFacts DEF IInv, TypeOK
<1>5. TypeOK'
    BY <1>1, <1>2, <1>3, <1>4 DEF IInv, TypeOK
<1>6. OneConversation'
    BY <1>1, <1>3
       DEF IInv, OneConversation, Pausing, Asked, Served, Answered, Ended, isIdle, isBusy
<1>7. QueryTimed'
    BY <1>1, <1>3, <1>4 DEF IInv, QueryTimed, BagIn
<1> QED BY <1>5, <1>6, <1>7 DEF IInv

LEMMA DnsTOgiveupStep ==
    IInv /\ DnsTOgiveup /\ UNCHANGED <<um, wakes>> => IInv'
<1> SUFFICES ASSUME IInv, DnsTOgiveup, UNCHANGED <<um, wakes>> PROVE IInv'
    OBVIOUS
<1> USE TgenAssumption
<1>1. /\ tgen.w4 \in BagToSet(timers)
      /\ tgen' = [tgen EXCEPT !.w4 = noQuery, !.replyTo = noAction]
      /\ timers' = BagRemove(timers, tgen.w4)
      /\ UNCHANGED <<actions, queries, responses>>
    BY DEF DnsTOgiveup, BagIn
<1>2. tgen.w4 \in Nat
    BY <1>1 DEF IInv, TypeOK
<1>3. Served
    BY <1>2 DEF IInv, OneConversation, Pausing, Asked, Answered, Ended, isIdle
<1>4. IsABag(timers') /\ BagToSet(timers') \subseteq BagToSet(timers)
    BY <1>1, BagRemoveFacts DEF IInv, TypeOK
<1>5. IsABag(responses') /\ BagToSet(responses') \subseteq BagToSet(responses)
    BY <1>1 DEF IInv, TypeOK
<1> DEFINE result == "failed"
<1>6. result \in {"ok", "failed"} /\ replies' = BagAdd(replies, reply(tgen.replyTo, result))
    BY DEF DnsTOgiveup
<1> HIDE DEF result
<1> QED BY <1>1, <1>3, <1>4, <1>5, <1>6, AnswerFacts

\* Steps that only move or drop queries, responses and timers not waited for.
LEMMA TrafficFacts ==
    ASSUME IInv, UNCHANGED <<um, wakes, tgen, actions, replies>>,
           IsABag(queries'), IsABag(responses'), IsABag(timers'),
           BagToSet(queries') \cup BagToSet(responses')
               \subseteq BagToSet(queries) \cup BagToSet(responses),
           BagToSet(timers') \subseteq BagToSet(timers),
           BagIn(tgen.w4, timers) =>
               BagIn(tgen.w4, timers') /\ timers'[tgen.w4] = timers[tgen.w4]
    PROVE  IInv'
<1>1. TypeOK'
    BY DEF IInv, TypeOK
<1>2. OneConversation'
    BY DEF IInv, OneConversation, Pausing, Asked, Served, Answered, Ended, isIdle, isBusy
<1>3. QueryTimed'
    BY DEF IInv, QueryTimed
<1> QED BY <1>1, <1>2, <1>3 DEF IInv

LEMMA DnsTOretryIgnoreStep ==
    IInv /\ DnsTOretryIgnore /\ UNCHANGED <<um, wakes>> => IInv'
<1> SUFFICES ASSUME IInv, DnsTOretryIgnore, UNCHANGED <<um, wakes>> PROVE IInv'
    OBVIOUS
<1>1. PICK q \in BagToSet(timers) :
        /\ q # tgen.w4
        /\ timers' = BagRemove(timers, q)
        /\ UNCHANGED <<tgen, actions, replies, queries, responses>>
    BY DEF DnsTOretryIgnore
<1>2. IsABag(timers) /\ IsABag(queries) /\ IsABag(responses)
    BY DEF IInv, TypeOK
<1>3. /\ IsABag(timers') /\ BagToSet(timers') \subseteq BagToSet(timers)
      /\ BagToSet(timers) \ {q} \subseteq BagToSet(timers')
      /\ \A y \in BagToSet(timers) \ {q} : timers'[y] = timers[y]
    BY <1>1, <1>2, BagRemoveFacts
<1>4. BagIn(tgen.w4, timers) =>
          BagIn(tgen.w4, timers') /\ timers'[tgen.w4] = timers[tgen.w4]
    BY <1>1, <1>3 DEF BagIn
<1> QED BY <1>1, <1>2, <1>3, <1>4, TrafficFacts

LEMMA NetworkStep ==
    IInv /\ (NetworkNext \/ DnsResponseRedundant) /\ UNCHANGED <<um, wakes>> => IInv'
<1> SUFFICES ASSUME IInv, NetworkNext \/ DnsResponseRedundant, UNCHANGED <<um, wakes>>
             PROVE IInv'
    OBVIOUS
<1>1. IsABag(timers) /\ IsABag(queries) /\ IsABag(responses)
    BY DEF IInv, TypeOK
<1>2. CASE ResolverAnswers
  <2>1. PICK q \in BagToSet(queries) :
          /\ queries' = BagRemove(queries, q) /\ responses' = BagAdd(responses, q)
          /\ UNCHANGED <<tgen, actions, replies, timers>>
    BY <1>2 DEF ResolverAnswers
  <2>2. IsABag(queries') /\ BagToSet(queries') \subseteq BagToSet(queries)
    BY <1>1, <2>1, BagRemoveFacts
  <2>3. IsABag(responses') /\ BagToSet(responses') = BagToSet(responses) \cup {q}
    BY <1>1, <2>1, BagAddFacts
  <2> QED BY <1>1, <2>1, <2>2, <2>3, TrafficFacts
<1>3. CASE LoseQuery
  <2>1. PICK q \in BagToSet(queries) :
          /\ queries' = BagRemove(queries, q)
          /\ UNCHANGED <<tgen, actions, replies, responses, timers>>
    BY <1>3 DEF LoseQuery
  <2>2. IsABag(queries') /\ BagToSet(queries') \subseteq BagToSet(queries)
    BY <1>1, <2>1, BagRemoveFacts
  <2> QED BY <1>1, <2>1, <2>2, TrafficFacts
<1>4. CASE LoseResponse \/ DnsResponseRedundant
  <2>1. PICK q \in BagToSet(responses) :
          /\ responses' = BagRemove(responses, q)
          /\ UNCHANGED <<tgen, actions, replies, queries, timers>>
    BY <1>4 DEF LoseResponse, DnsResponseRedundant
  <2>2. IsABag(responses') /\ BagToSet(responses') \subseteq BagToSet(responses)
    BY <1>1, <2>1, BagRemoveFacts
  <2> QED BY <1>1, <2>1, <2>2, TrafficFacts
<1> QED BY <1>2, <1>3, <1>4 DEF NetworkNext

LEMMA NextIInv == IInv /\ [Next]_vars => IInv'
<1> SUFFICES ASSUME IInv, [Next]_vars PROVE IInv'
    OBVIOUS
<1>1. CASE UserNext
    BY <1>1, UmRcvWakeStep, UmRcvReplyStep DEF UserNext
<1>2. CASE TgenNext /\ UNCHANGED <<um, wakes>>
    BY <1>2, RcvDNSActionStep, DnsResponseStep, NetworkStep, DnsTOretryIgnoreStep,
       DnsTOretryStep, DnsTOgiveupStep DEF TgenNext
<1>3. CASE NetworkNext /\ UNCHANGED <<um, wakes>>
    BY <1>3, NetworkStep
<1>4. CASE UNCHANGED vars
  <2>1. UNCHANGED <<um, wakes, tgen, actions, replies, queries, responses, timers>>
    BY <1>4 DEF vars, tgenVars
  <2>2. TypeOK'
    BY <2>1 DEF IInv, TypeOK
  <2>3. OneConversation'
    BY <2>1 DEF IInv, OneConversation, Pausing, Asked, Served, Answered, Ended, isIdle, isBusy
  <2>4. QueryTimed'
    BY <2>1 DEF IInv, QueryTimed, BagIn
  <2> QED BY <2>2, <2>3, <2>4 DEF IInv
<1> QED BY <1>1, <1>2, <1>3, <1>4 DEF Next

LEMMA Inductive == Spec => []IInv
<1> QED BY InitIInv, NextIInv, PTL DEF Spec

-----------------------------------------------------------------------------
(* The invariants *)

\* The attributes of both actors keep their types: no retry is taken that is not left,
\* no step is taken beyond maxSteps, and no more names are asked for than wanted.
THEOREM TypeCorrect == Spec => []TypeOK
<1>1. IInv => TypeOK
    BY DEF IInv
<1> QED BY <1>1, Inductive, PTL

\* Whatever is lost and however late timers fire, the user model and the generator are
\* at one place of their conversation (rules dtgenRcvAQ, dnsResponse, umRcvStatus).
THEOREM Conversation == Spec => []OneConversation
<1>1. IInv => OneConversation
    BY DEF IInv
<1> QED BY <1>1, Inductive, PTL

\* The awaited query has exactly one timer, however often it was retried (tgenQuery,
\* dnsTOretry, dnsTOgiveup).
THEOREM Timed == Spec => []QueryTimed
<1>1. IInv => QueryTimed
    BY DEF IInv
<1> QED BY <1>1, Inductive, PTL

-----------------------------------------------------------------------------
(* The generator is the service, safety part *)

LEMMA InitService == Init => AS!Init
BY EmptyBagFacts DEF Init, TgenInit, mkDnsTgenA, AS!Init, BagToSet

LEMMA SameBags ==
    ASSUME NEW B, NEW x
    PROVE  AS!BagAdd(B, x) = BagAdd(B, x) /\ AS!BagRemove(B, x) = BagRemove(B, x)
BY DEF BagAdd, BagRemove, AS!BagAdd, AS!BagRemove

\* Taking an action by the idle generator is Take.
LEMMA RcvService ==
    IInv /\ RcvDNSAction /\ UNCHANGED <<um, wakes>> => AS!Take
<1> SUFFICES ASSUME IInv, RcvDNSAction, UNCHANGED <<um, wakes>> PROVE AS!Take
    OBVIOUS
<1>1. Asked
    BY DEF IInv, OneConversation, Pausing, Served, Answered, Ended, RcvDNSAction
<1>2. PICK a \in actions :
        /\ actions' = actions \ {a}
        /\ tgenQuery([tgen EXCEPT !.replyTo = a, !.numQ = a.num - 1, !.nRetry = retryMax])
        /\ UNCHANGED <<replies, responses>>
    BY <1>1 DEF Asked, RcvDNSAction
<1>3. tgen'.replyTo = a
    BY <1>2 DEF tgenQuery, IInv, TypeOK, Tgen
<1>4. tgen.replyTo = noAction
    BY <1>1 DEF Asked, isIdle
<1> QED BY <1>2, <1>3, <1>4 DEF AS!Take

\* A status makes the user model ask for an action, or for nothing.
LEMMA StatusAsks ==
    ASSUME IInv, NEW addr, NEW w, statusFrom(addr, w)
    PROVE  actions' = actions \/ \E a \in Action : actions' = actions \cup {a}
<1> USE TgenAssumption, UserAssumption
<1>1. CASE um.nsteps > 0 /\ umRcvStatus(w) /\ ~isWaitType(um.curState)
  <2>1. um.nsteps \in 1..maxSteps /\ um.curState \in States
    BY <1>1 DEF IInv, TypeOK, UM
  <2>2. PICK n \in Nums[um.curState] :
          actions' = actions \cup {[num |-> n, step |-> um.nsteps]}
    BY <1>1 DEF umRcvStatus
  <2>3. [num |-> n, step |-> um.nsteps] \in Action
    BY <2>1 DEF Action
  <2> QED BY <2>2, <2>3
<1>2. CASE ~(um.nsteps > 0 /\ umRcvStatus(w) /\ ~isWaitType(um.curState))
    BY <1>2 DEF statusFrom, umRcvStatus
<1> QED BY <1>1, <1>2

LEMMA UserService == IInv /\ UserNext => [AS!Next]_(AS!vars)
<1> SUFFICES ASSUME IInv, UserNext PROVE AS!Next \/ UNCHANGED AS!vars
    OBVIOUS
<1>1. tgen' = tgen
    BY DEF UserNext, UmRcvWake, UmRcvReply
<1>2. actions' = actions \/ \E a \in Action : actions' = actions \cup {a}
    BY StatusAsks DEF UserNext, UmRcvWake, UmRcvReply
<1>3. \/ replies' = replies
      \/ \E r \in DOMAIN replies : replies' = AS!BagRemove(replies, r)
    BY SameBags DEF UserNext, UmRcvWake, UmRcvReply, BagToSet
<1> QED BY <1>1, <1>2, <1>3 DEF AS!Next, AS!Ask, AS!TakeAnswer, AS!vars

\* An answer, whatever the result, is Answer.
LEMMA AnswerService ==
    ASSUME IInv, isBusy, NEW result \in {"ok", "failed"},
           tgen' = [tgen EXCEPT !.w4 = noQuery, !.replyTo = noAction],
           replies' = BagAdd(replies, reply(tgen.replyTo, result)), actions' = actions
    PROVE  AS!Answer
<1>1. tgen'.replyTo = noAction
    BY DEF IInv, TypeOK, Tgen
<1>2. replies' = AS!BagAdd(replies, reply(tgen.replyTo, result))
    BY SameBags
<1> QED BY <1>1, <1>2 DEF AS!Answer, isBusy

LEMMA TgenService ==
    IInv /\ (TgenNext \/ NetworkNext) /\ UNCHANGED <<um, wakes>> => [AS!Next]_(AS!vars)
<1> SUFFICES ASSUME IInv, TgenNext \/ NetworkNext, UNCHANGED <<um, wakes>>
             PROVE AS!Next \/ UNCHANGED AS!vars
    OBVIOUS
<1>1. tgen.w4 \in Nat => isBusy
    BY TgenAssumption
       DEF IInv, OneConversation, Pausing, Asked, Served, Answered, Ended, isIdle
<1>2. CASE RcvDNSAction
    BY <1>2, RcvService DEF AS!Next
<1>3. CASE DnsResponse
  <2>1. isBusy /\ tgen \in Tgen /\ actions' = actions
    BY <1>1, <1>3 DEF DnsResponse, BagIn, IInv, TypeOK
  <2>2. CASE tgen.numQ = 0
    <3> DEFINE result == "ok"
    <3>1. /\ tgen' = [tgen EXCEPT !.w4 = noQuery, !.replyTo = noAction]
          /\ result \in {"ok", "failed"}
          /\ replies' = BagAdd(replies, reply(tgen.replyTo, result))
      BY <1>3, <2>2 DEF DnsResponse
    <3> HIDE DEF result
    <3> QED BY <2>1, <3>1, AnswerService DEF AS!Next
  <2>3. CASE tgen.numQ # 0
    <3>1. tgenQuery([tgen EXCEPT !.numQ = tgen.numQ - 1]) /\ replies' = replies
      BY <1>3, <2>3 DEF DnsResponse
    <3>2. tgen'.replyTo = tgen.replyTo
      BY <2>1, <3>1 DEF tgenQuery, Tgen
    <3> QED BY <2>1, <3>1, <3>2 DEF AS!vars
  <2> QED BY <2>2, <2>3
<1>4. CASE DnsTOretry
  <2>1. tgen'.replyTo = tgen.replyTo
    BY <1>4 DEF DnsTOretry, IInv, TypeOK, Tgen
  <2> QED BY <1>4, <2>1 DEF DnsTOretry, AS!vars
<1>5. CASE DnsTOgiveup
  <2> DEFINE result == "failed"
  <2>1. /\ tgen' = [tgen EXCEPT !.w4 = noQuery, !.replyTo = noAction]
        /\ result \in {"ok", "failed"} /\ actions' = actions
        /\ replies' = BagAdd(replies, reply(tgen.replyTo, result))
    BY <1>5 DEF DnsTOgiveup
  <2>2. isBusy
    BY <1>1, <1>5 DEF DnsTOgiveup, BagIn, IInv, TypeOK
  <2> HIDE DEF result
  <2> QED BY <2>1, <2>2, AnswerService DEF AS!Next
<1>6. CASE DnsResponseRedundant \/ DnsTOretryIgnore \/ NetworkNext
    BY <1>6 DEF DnsResponseRedundant, DnsTOretryIgnore, NetworkNext,
                ResolverAnswers, LoseQuery, LoseResponse, AS!vars
<1> QED BY <1>2, <1>3, <1>4, <1>5, <1>6 DEF TgenNext

\* The generator, driven by any user model, takes one action at a time and answers each
\* action it takes once (rules rcvDNSAction, dnsResponse, dnsTOgiveup).
THEOREM Service == Spec => AS!Spec
<1>1. IInv /\ [Next]_vars => [AS!Next]_(AS!vars)
  <2> SUFFICES ASSUME IInv, [Next]_vars PROVE [AS!Next]_(AS!vars)
      OBVIOUS
  <2>1. CASE UNCHANGED vars
      BY <2>1 DEF vars, tgenVars, AS!vars
  <2> QED BY <2>1, UserService, TgenService DEF Next
<1> QED BY <1>1, InitService, Inductive, PTL DEF Spec, AS!Spec
=============================================================================
