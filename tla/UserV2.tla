------------------------------- MODULE UserV2 -------------------------------
(***************************************************************************)
(* The second-version user model (UM-V2, user-action-actor-v2-aux.maude),  *)
(* of a traffic generator (tgen-action-actor-v2.maude) or of an IRC client *)
(* (irc-action-actor-v2.maude), walking a converted profile.  It stays in  *)
(* a mode for a number of actions, takes them in bursts, and pauses before *)
(* a burst and after each action of one.  A rewriting step reduces through *)
(* several operators with no other rule in between: `at' is the operator   *)
(* it has reached, "rest" between rules.  The client that answers requests *)
(* is external.                                                            *)
(***************************************************************************)
EXTENDS MarkovProfile, FiniteSets, Bags, BagsExt

CONSTANT Profiles       \* [names -> [irc : BOOLEAN, data : JSON of the profile]]

\* What the converter and the rules expect of every profile of the repository.
ASSUME ProfilesAssumption ==
    \A p \in DOMAIN Profiles :
        /\ Profiles[p].irc \in BOOLEAN
        /\ \A i \in DOMAIN Profiles[p].data.states :
            LET s == Profiles[p].data.states[i][2]
            IN s.type # "wait" =>
                  /\ {"type", "dwell_steps", "actions", "markov"} \subseteq DOMAIN s
                  /\ \A k \in {"dwell_steps", "burst_steps"} \cap DOMAIN s : s[k] \in Distributions

VARIABLES
    profile,            \* the profile this user follows
    um,                 \* its attributes
    at,                 \* the operator being reduced
    pend,               \* bag of its timers and of requests and answers under way
    late,               \* the clock has passed stopTime
    joined,             \* rooms it has sent JoinChannel for
    stay                \* history of the mode it is in, read by no action

vars == <<profile, um, at, pend, late, joined, stay>>

Models == [p \in DOMAIN Profiles |-> generate(Profiles[p].data)]

Model == Models[profile]
stateB == Model.states[um.curState]
isIrc == Profiles[profile].irc

none == "none"          \* no mode, no room, no burst yet
NoBurst == -1
Timeouts == {"burstDelayTO", "burstReadyTO", "actionDelayTO"}

getInitialState(params) ==
    IF "initial_state" \in DOMAIN params THEN params.initial_state ELSE "idle"

getModelSteps(params) ==
    IF "model_steps" \in DOMAIN params THEN params.model_steps ELSE 1000

getInitialAction(block) ==
    IF "initial_action" \in DOMAIN block THEN block.initial_action ELSE "none"

\* mkTgenUMV2Actor and mkIrcUMV2Actor
mkUMV2Actor(params) ==
    [modelSteps |-> getModelSteps(params), nextMode |-> getInitialState(params),
     nextAction |-> none, nextRoom |-> none, roomMap |-> <<>>,
     dwellSteps |-> 0, burstSteps |-> 0, curState |-> none, w4 |-> FALSE]

-----------------------------------------------------------------------------

\* The terms a number or a distribution can be realized as.  The two numbers of
\* a distribution must be of the type its equation names, or there is no value.
nullJV == [jv |-> "null", v |-> 0]

realizeRand(d) ==
    CASE d.random = "gaussian" /\ d.mean.jv = "jf" /\ d.std.jv = "jf" ->
           {[jv |-> "jf", v |-> n] : n \in (d.mean.v - d.std.v)..(d.mean.v + d.std.v)}
      [] d.random = "uniform" /\ d.min.jv = d.max.jv ->
           {[jv |-> d.min.jv, v |-> n] : n \in d.min.v..d.max.v}
      [] OTHER -> {nullJV}

realizeParam(x) == IF "random" \in DOMAIN x THEN realizeRand(x) ELSE {x}

jv2nat(x) == IF x.jv = "null" \/ x.v < 0 THEN 0 ELSE x.v

nextByWt(name, markov) == IF name \in DOMAIN markov THEN markov[name] ELSE {""}

\* The row of the current mode, or of an action; modes are an object in order.
nextModes(mode) ==
    IF mode \in Keys(Model.markov) THEN Field(Model.markov, mode) ELSE {""}

noops == {"noop", "browse_noop", "download_noop", "upload_noop"}

-----------------------------------------------------------------------------
(* What every profile of the repository satisfies. *)

\* There is something to draw from x; and what is drawn is a float.
Drawable(x) ==
    /\ x \in Distributions
    /\ "random" \in DOMAIN x => IF x.random = "gaussian" THEN x.std.v >= 0
                                ELSE x.min.v <= x.max.v

DrawsFloats(x) == Drawable(x) /\ \A d \in realizeParam(to_maude_jv(x)) : d.jv = "jf"

\* From each of names a chain leads on, and to names only.
Closed(chain, names) ==
    /\ names \subseteq Keys(chain)
    /\ \A i \in DOMAIN chain : chain[i][2] # {} /\ chain[i][2] \subseteq names

\* There is an equation for the action of an IRC user.
Matched(action) ==
    /\ "type" \in DOMAIN action
    /\ \/ action.type \in {"set_room_numbers", "noop", "roommsg"}
       \/ action.type = "select_room" /\ "choice" \in DOMAIN action /\ Drawable(action.choice)
       \/ action.type = "wait" /\ "sleep" \in DOMAIN action /\ DrawsFloats(action.sleep)

\* A state, or an action that stands for one, can be walked for ever.
RunnableState(s, irc) ==
    IF s.type = "wait" THEN "sleep" \in DOMAIN s => Drawable(s.sleep)
    ELSE /\ \A k \in DistKeys \cap DOMAIN s : Drawable(s[k])
         /\ "burst_prob" \in DOMAIN s => s.burst_prob \in 0..100
         /\ "initial_action" \in DOMAIN s => s.initial_action \in Keys(s.markov)
         /\ FirstAction(s) \in Keys(s.markov)
         /\ Closed(s.markov, Keys(s.markov))
         /\ \A a \in Keys(s.markov) :
              IF irc THEN a \in Keys(s.actions) /\ Matched(Field(s.actions, a))
              ELSE a \in noops \cup Keys(s.actions)

RunnableAction(a, irc) ==
    /\ "sleep" \in DOMAIN a => Drawable(a.sleep)
    /\ a.type # "wait" /\ irc => Matched(a)

Runnable(data, irc) ==
    IF data.states = <<>> /\ "actions" \in DOMAIN data
    THEN /\ getInitialState(data.parameters) \in Keys(data.actions)
         /\ Closed(data.markov, Keys(data.actions))
         /\ \A i \in DOMAIN data.actions : RunnableAction(data.actions[i][2], irc)
    ELSE /\ getInitialState(data.parameters) \in Keys(data.states)
         /\ Closed(data.markov, Keys(data.states))
         /\ \A i \in DOMAIN data.states : RunnableState(data.states[i][2], irc)

ASSUME RunnableAssumption ==
    \A p \in DOMAIN Profiles : Runnable(Profiles[p].data, Profiles[p].irc)

\* The walk of an IRC user begins with numbering its rooms, once, and with at
\* least one choice among them; every choice is of a numbered room.
NumbersRoomsFirst(model) ==
    LET initial == getInitialState(model.params)
        block == model.states[initial]
        first == getInitialAction(block)
        type(m, a) == model.states[m].actions[a].type
        rooms == block.actions[first].rooms
    IN /\ type(initial, first) = "set_room_numbers"
       /\ \A a \in DOMAIN block.markov : \A b \in block.markov[a] : type(initial, b) = "select_room"
       /\ \A d \in realizeParam(block.dwell_steps) : jv2nat(d) >= 2
       /\ \A m \in DOMAIN model.states : \A a \in DOMAIN model.states[m].actions :
            /\ type(m, a) = "set_room_numbers" => m = initial /\ a = first
            /\ type(m, a) = "select_room" =>
                 \A c \in realizeParam(model.states[m].actions[a].choice) :
                     \E r \in DOMAIN rooms : rooms[r] = jv2nat(c)

ASSUME RoomsAssumption ==
    \A p \in DOMAIN Profiles : Profiles[p].irc => NumbersRoomsFirst(Models[p])

-----------------------------------------------------------------------------

\* Where a wait continues when it is over.
resumeWaitV2(timeout) ==
    CASE timeout = "burstDelayTO" -> "timeout"
      [] timeout = "burstReadyTO" -> "exec"
      [] timeout = "actionDelayTO" -> "acted"

\* Wait for d: not at all when d is small, and for ever when d is not a float.
exeWait(d, timeout) ==
    IF d.jv # "jf" THEN at' = "rest" /\ pend' = pend
    ELSE IF d.v <= 0 THEN at' = resumeWaitV2(timeout) /\ pend' = pend
    ELSE at' = "rest" /\ pend' = BagAdd(pend, timeout)

\* The mode is over: enter the next one, and draw the one after it.
initMode ==
    /\ at = "timeout"
    /\ um.dwellSteps = 0
    /\ IF um.nextMode \in DOMAIN Model.states
       THEN LET block == Model.states[um.nextMode]
            IN \E m \in nextModes(um.nextMode), d \in realizeParam(block.dwell_steps) :
                 /\ um' = [um EXCEPT !.curState = um.nextMode, !.nextMode = m,
                                     !.dwellSteps = jv2nat(d), !.burstSteps = 0,
                                     !.nextAction = getInitialAction(block)]
                 /\ at' = "timeout"
                 /\ stay' = [dwell |-> jv2nat(d), acts |-> 0,
                             size |-> NoBurst, done |-> 0, waits |-> 0]
       ELSE at' = "rest" /\ UNCHANGED <<um, stay>>
    /\ UNCHANGED <<profile, pend, late, joined>>

\* Between bursts: start one after a pause, or take a single action.
chooseBurst ==
    /\ at = "timeout"
    /\ um.dwellSteps > 0
    /\ um.burstSteps = 0
    /\ \/ /\ stateB.burst_prob > 0
          /\ \E n \in realizeParam(stateB.burst_steps),
                d \in realizeParam(stateB.inter_burst_delay) :
               /\ um' = [um EXCEPT !.burstSteps = jv2nat(n)]
               /\ exeWait(d, "burstReadyTO")
               /\ stay' = [stay EXCEPT !.size = jv2nat(n), !.done = 0, !.waits = 0]
       \/ /\ stateB.burst_prob < 100
          /\ at' = "exec"
          /\ stay' = [stay EXCEPT !.size = NoBurst, !.done = 0, !.waits = 0]
          /\ UNCHANGED <<um, pend>>
    /\ UNCHANGED <<profile, late, joined>>

\* An action whose name or type no equation matches is not taken, and nothing else is.
executes ==
    /\ \/ at = "exec"
       \/ at = "timeout" /\ um.dwellSteps > 0 /\ um.burstSteps > 0
    /\ um.w4 = FALSE
    /\ stay' = [stay EXCEPT !.acts = @ + 1, !.done = @ + 1]

\* The request of the action goes to the client.
sends(u) ==
    /\ um' = [u EXCEPT !.w4 = TRUE]
    /\ at' = "rest"
    /\ pend' = BagAdd(pend, "actionQ")

exeActionTgen ==
    /\ executes
    /\ ~isIrc
    /\ \E a \in nextByWt(um.nextAction, stateB.markov) :
         LET u == [um EXCEPT !.nextAction = a]
         IN IF um.nextAction \in noops
            THEN um' = [u EXCEPT !.w4 = TRUE] /\ at' = "acted" /\ pend' = pend
            ELSE um.nextAction \in DOMAIN stateB.actions /\ sends(u)
    /\ UNCHANGED <<profile, late, joined>>

strJn2natStrFromOne(rooms) ==
    [n \in {rooms[r] + 1 : r \in DOMAIN rooms} |-> CHOOSE r \in DOMAIN rooms : rooms[r] = n - 1]

\* Rooms are numbered: the map of the action is inverted and each room joined.
strJn2natStr(rooms) ==
    [n \in {rooms[r] : r \in DOMAIN rooms} |-> CHOOSE r \in DOMAIN rooms : rooms[r] = n]

exeActionIrcType(u, action) ==
    \/ /\ action.type = "set_room_numbers"
       /\ um' = [u EXCEPT !.roomMap = strJn2natStr(action.rooms)]
       /\ joined' = joined \cup DOMAIN action.rooms
       /\ at' = "acted" /\ pend' = pend
    \/ /\ action.type = "select_room"
       /\ \E c \in realizeParam(action.choice) :
            um' = [u EXCEPT !.nextRoom = IF jv2nat(c) \in DOMAIN u.roomMap
                                         THEN u.roomMap[jv2nat(c)] ELSE "#chat"]
       /\ at' = "acted" /\ UNCHANGED <<pend, joined>>
    \/ /\ action.type = "wait"
       /\ \E d \in realizeParam(action.sleep) : exeWait(d, "actionDelayTO")
       /\ um' = u /\ UNCHANGED joined
    \/ /\ action.type = "noop"
       /\ um' = u /\ at' = "acted" /\ UNCHANGED <<pend, joined>>
    \/ /\ action.type = "roommsg"
       /\ sends(u) /\ UNCHANGED joined

exeActionIrc ==
    /\ executes
    /\ isIrc /\ um.nextAction \in DOMAIN stateB.actions
    /\ \E a \in nextByWt(um.nextAction, stateB.markov) :
         exeActionIrcType([um EXCEPT !.nextAction = a], stateB.actions[um.nextAction])
    /\ UNCHANGED <<profile, late>>

-----------------------------------------------------------------------------

\* Every action consumes a dwell step, the first in a mode included.
decrDwellStepsNotFirst(u) ==
    [u EXCEPT !.dwellSteps = IF @ > 0 /\ stay.acts > 1 THEN @ - 1 ELSE @]

decrDwellSteps(u) == [u EXCEPT !.dwellSteps = IF @ > 0 THEN @ - 1 ELSE @]

\* An action is over: the last one ends the user; one of a burst is followed by
\* the pause inside a burst, after which the next burst or mode may be chosen.
rcvActRv2 ==
    /\ at = "acted"
    /\ IF um.modelSteps <= 1
       THEN at' = "rest" /\ UNCHANGED <<um, pend, stay>>
       ELSE LET u == [decrDwellSteps(um) EXCEPT !.modelSteps = @ - 1, !.w4 = FALSE]
            IN \/ /\ um.burstSteps > 0
                  /\ um' = [u EXCEPT !.burstSteps = @ - 1]
                  /\ \E d \in realizeParam(stateB.intra_burst_delay) : exeWait(d, "burstDelayTO")
                  /\ stay' = [stay EXCEPT !.waits = @ + 1]
               \/ /\ um.burstSteps = 0
                  /\ um' = u /\ at' = "timeout" /\ UNCHANGED <<pend, stay>>
    /\ UNCHANGED <<profile, late, joined>>

\* A timer fires; after stopTime it is only consumed.
umv2RcvTimeout ==
    /\ at = "rest"
    /\ \E t \in Timeouts \cap DOMAIN pend :
         /\ pend' = BagRemove(pend, t)
         /\ at' = IF late \/ um.modelSteps <= 1 THEN "rest" ELSE resumeWaitV2(t)
    /\ UNCHANGED <<profile, um, late, joined, stay>>

\* An answer comes, whatever w4 holds.
umv2RcvActionR ==
    /\ at = "rest"
    /\ "actionR" \in DOMAIN pend
    /\ pend' = BagRemove(pend, "actionR")
    /\ at' = IF late THEN "rest" ELSE "acted"
    /\ UNCHANGED <<profile, um, late, joined, stay>>

\* External: the client answers each request once.
ClientAnswers ==
    /\ at = "rest"
    /\ "actionQ" \in DOMAIN pend
    /\ pend' = BagAdd(BagRemove(pend, "actionQ"), "actionR")
    /\ UNCHANGED <<profile, um, at, late, joined, stay>>

\* The clock passes stopTime between two rules.
StopTimePasses ==
    /\ at = "rest"
    /\ ~late
    /\ late' = TRUE
    /\ UNCHANGED <<profile, um, at, pend, joined, stay>>

-----------------------------------------------------------------------------

\* The scenario starts each user with one burst timer of its own.
Init ==
    /\ profile \in DOMAIN Profiles
    /\ um = mkUMV2Actor(Model.params)
    /\ at = "rest"
    /\ pend = SetToBag({"burstDelayTO"})
    /\ late = FALSE
    /\ joined = {}
    /\ stay = [dwell |-> 0, acts |-> 0, size |-> NoBurst, done |-> 0, waits |-> 0]

Finished == late \/ um.modelSteps <= 1

\* Only a finished user may stop for good, so every other end is a deadlock.
Over ==
    /\ at = "rest" /\ Finished /\ pend = EmptyBag
    /\ UNCHANGED vars

Reduce == initMode \/ chooseBurst \/ exeActionTgen \/ exeActionIrc \/ rcvActRv2
Next == Reduce \/ umv2RcvTimeout \/ umv2RcvActionR \/ ClientAnswers \/ StopTimePasses \/ Over

Spec == Init /\ [][Next]_vars

-----------------------------------------------------------------------------
(* Properties *)

\* The user lives on one thing at a time: while it is not finished there is
\* exactly one timer, request or answer that will wake it, and never a second
\* one, whose arrival would start a second walk of the same actor; a delay that
\* is not a float (exewait-fails) would leave none.  During a reduction there is
\* none, so that it gets on is that no state deadlocks.
NeverStuck ==
    /\ at # "rest" => pend = EmptyBag
    /\ at = "rest" => \/ Finished /\ pend = EmptyBag
                      \/ \E e \in Timeouts \cup {"actionQ", "actionR"} : pend = SetToBag({e})

\* What the comments promise of a mode: it is left after exactly as many actions
\* as were drawn for it, the first one included (decrDwellSteps); a burst is as
\* long as was drawn unless the mode ends first, and every one of its actions,
\* the last included, is followed by its pause; a burst of no actions still
\* resumes and takes one, without a pause (exeWait, rcvActRv2$).
StaysAndBursts ==
    /\ stay.acts <= stay.dwell
    /\ at = "timeout" =>
         /\ um.dwellSteps = 0 => stay.acts = stay.dwell
         /\ stay.size > 0 => stay.done = stay.waits
         /\ stay.size = 0 => stay.done = 1 /\ stay.waits = 0
         /\ stay.size > 0 /\ um.dwellSteps > 0 /\ um.burstSteps = 0 => stay.done = stay.size

\* An IRC user speaks only in rooms it has joined: the number drawn by
\* select_room means the room that set_room_numbers joined under that number,
\* in the mode the walk begins with, and never the "#chat" of a user without.
RoomsJoined ==
    "actionQ" \in DOMAIN pend /\ isIrc => um.nextRoom \in joined
=============================================================================
