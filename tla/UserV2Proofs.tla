---------------------------- MODULE UserV2Proofs ----------------------------
(***************************************************************************)
(* Proofs about UserV2, for every set of profiles: the user lives on one   *)
(* thing at a time and is never stuck, it stays in a mode and in a burst   *)
(* for as long as was drawn, and an IRC user speaks in rooms it joined.    *)
(***************************************************************************)
EXTENDS UserV2, TLAPS

-----------------------------------------------------------------------------
(* What is drawn. *)

\* Numbers and distributions as Maude terms.
MaudeNumbers == [jv : {"jn", "jf"}, v : Int]
MaudeDistributions ==
    MaudeNumbers \cup [random : {"gaussian"}, mean : MaudeNumbers, std : MaudeNumbers]
                 \cup [random : {"uniform"}, min : MaudeNumbers, max : MaudeNumbers]

\* A number is not a distribution.
LEMMA NumberFacts ==
    /\ \A n \in Numbers : "random" \notin DOMAIN n /\ n.v \in Int /\ n.type \in {"int", "float"}
    /\ \A n \in MaudeNumbers : "random" \notin DOMAIN n /\ n.v \in Int
BY DEF Numbers, MaudeNumbers

\* A number stays one as a float.
LEMMA FloatNumber ==
    ASSUME NEW n \in Numbers
    PROVE  format_float(n) \in Numbers
BY DEF Numbers, format_float

\* A state's distributions stay distributions as floats.
LEMMA FloatDistribution ==
    ASSUME NEW x \in Distributions
    PROVE  (IF "random" \in DOMAIN x
            THEN [p \in DOMAIN x |-> IF p = "random" THEN x[p] ELSE format_float(x[p])]
            ELSE format_float(x)) \in Distributions
<1>1. CASE x \in Numbers
    BY <1>1, NumberFacts, FloatNumber DEF Distributions
<1>2. CASE x \in [random : {"gaussian"}, mean : Numbers, std : Numbers]
    <2>1. DOMAIN x = {"random", "mean", "std"} /\ x.random = "gaussian" /\ x.mean \in Numbers /\ x.std \in Numbers
        BY <1>2
    <2>2. [p \in DOMAIN x |-> IF p = "random" THEN x[p] ELSE format_float(x[p])]
             = [random |-> "gaussian", mean |-> format_float(x.mean), std |-> format_float(x.std)]
        BY <2>1
    <2>. QED
        BY <2>1, <2>2, FloatNumber DEF Distributions
<1>3. CASE x \in [random : {"uniform"}, min : Numbers, max : Numbers]
    <2>1. DOMAIN x = {"random", "min", "max"} /\ x.random = "uniform" /\ x.min \in Numbers /\ x.max \in Numbers
        BY <1>3
    <2>2. [p \in DOMAIN x |-> IF p = "random" THEN x[p] ELSE format_float(x[p])]
             = [random |-> "uniform", min |-> format_float(x.min), max |-> format_float(x.max)]
        BY <2>1
    <2>. QED
        BY <2>1, <2>2, FloatNumber DEF Distributions
<1>. QED
    BY <1>1, <1>2, <1>3 DEF Distributions

\* The converter makes Maude terms of distributions.
LEMMA MaudeDistribution ==
    ASSUME NEW x \in Distributions
    PROVE  to_maude_jv(x) \in MaudeDistributions
<1>. DEFINE number(n) == [jv |-> IF n.type = "int" THEN "jn" ELSE "jf", v |-> n.v]
<1>0. \A n \in Numbers : number(n) \in MaudeNumbers
    BY NumberFacts DEF MaudeNumbers
<1>. HIDE DEF number
<1>a. to_maude_jv(x) = IF "random" \in DOMAIN x
                       THEN [p \in DOMAIN x |-> IF p = "random" THEN x[p] ELSE number(x[p])]
                       ELSE number(x)
    BY DEF to_maude_jv, number
<1>1. CASE x \in Numbers
    BY <1>0, <1>a, <1>1, NumberFacts DEF MaudeDistributions
<1>2. CASE x \in [random : {"gaussian"}, mean : Numbers, std : Numbers]
    <2>1. DOMAIN x = {"random", "mean", "std"} /\ x.random = "gaussian" /\ x.mean \in Numbers /\ x.std \in Numbers
        BY <1>2
    <2>2. to_maude_jv(x) = [random |-> "gaussian", mean |-> number(x.mean), std |-> number(x.std)]
        BY <1>a, <2>1
    <2>. QED
        BY <1>0, <2>1, <2>2 DEF MaudeDistributions
<1>3. CASE x \in [random : {"uniform"}, min : Numbers, max : Numbers]
    <2>1. DOMAIN x = {"random", "min", "max"} /\ x.random = "uniform" /\ x.min \in Numbers /\ x.max \in Numbers
        BY <1>3
    <2>2. to_maude_jv(x) = [random |-> "uniform", min |-> number(x.min), max |-> number(x.max)]
        BY <1>a, <2>1
    <2>. QED
        BY <1>0, <2>1, <2>2 DEF MaudeDistributions
<1>. QED
    BY <1>1, <1>2, <1>3 DEF Distributions

\* A number of steps is drawn.
LEMMA Steps ==
    ASSUME NEW d \in MaudeDistributions, NEW x \in realizeParam(d)
    PROVE  jv2nat(x) \in Nat
<1>1. x.v \in Int
    <2>1. CASE d \in MaudeNumbers
        BY <2>1, NumberFacts DEF realizeParam
    <2>2. CASE d \in [random : {"gaussian"}, mean : MaudeNumbers, std : MaudeNumbers]
        <3>1. /\ "random" \in DOMAIN d /\ d.random = "gaussian" /\ d.mean.v \in Int /\ d.std.v \in Int
            BY <2>2, NumberFacts
        <3>2. x \in realizeRand(d)
            BY <3>1 DEF realizeParam
        <3>. QED
            BY <3>1, <3>2 DEF realizeRand, nullJV
    <2>3. CASE d \in [random : {"uniform"}, min : MaudeNumbers, max : MaudeNumbers]
        <3>1. /\ "random" \in DOMAIN d /\ d.random = "uniform" /\ d.min.v \in Int /\ d.max.v \in Int
            BY <2>3, NumberFacts
        <3>2. x \in realizeRand(d)
            BY <3>1 DEF realizeParam
        <3>. QED
            BY <3>1, <3>2 DEF realizeRand, nullJV
    <2>. QED
        BY <2>1, <2>2, <2>3 DEF MaudeDistributions
<1>. QED
    BY <1>1 DEF jv2nat

\* The numbers of steps the converter gives are distributions.
LEMMA Constants ==
    /\ Gaussian(FloatN(1), FloatN(0)) \in Distributions
    /\ Uniform(IntN(3), IntN(3)) \in Distributions
<1>1. FloatN(1) \in Numbers /\ FloatN(0) \in Numbers /\ IntN(3) \in Numbers
    BY DEF FloatN, IntN, Numbers
<1>. QED
    BY <1>1 DEF Gaussian, Uniform, Distributions

\* Before its floats are made, a state has the steps of its modes and bursts.
HasSteps(s) ==
    /\ {"dwell_steps", "burst_steps"} \subseteq DOMAIN s
    /\ s.dwell_steps \in Distributions /\ s.burst_steps \in Distributions

\* A waiting state has them as an action.
LEMMA IdleSteps ==
    ASSUME NEW s
    PROVE  HasSteps(expand_idle_state(s))
BY Constants DEF HasSteps, expand_idle_state

\* An action of a profile without states has them as a state.
LEMMA FlatSteps ==
    ASSUME NEW name, NEW a
    PROVE  HasSteps(FlatState(name, a))
<1>1. CASE a.type = "wait"
    BY <1>1, IdleSteps DEF FlatState
<1>2. CASE a.type # "wait"
    <2>. DEFINE f == FlatState(name, a)
    <2>1. DOMAIN f = {"type", "initial_action", "dwell_steps", "actions", "markov", "burst_prob",
                      "burst_steps", "inter_burst_delay", "intra_burst_delay"}
        BY <1>2 DEF FlatState
    <2>2. f.dwell_steps = Gaussian(FloatN(1), FloatN(0)) /\ f.burst_steps = Gaussian(FloatN(1), FloatN(0))
        BY <1>2 DEF FlatState
    <2>. QED
        <3>. HIDE DEF f
        <3>1. HasSteps(f)
            BY <2>1, <2>2, Constants DEF HasSteps
        <3>. QED
            BY <3>1 DEF f
<1>. QED
    BY <1>1, <1>2

\* Any other state has them by default.
LEMMA DefaultSteps ==
    ASSUME NEW s, "dwell_steps" \in DOMAIN s, s.dwell_steps \in Distributions,
           "burst_steps" \in DOMAIN s => s.burst_steps \in Distributions
    PROVE  HasSteps(WithDefaults(s))
<1>. DEFINE three == Uniform(IntN(3), IntN(3))
            one == Uniform(IntN(1), IntN(1))
            rest == [burst_prob |-> 100, burst_steps |-> three,
                     inter_burst_delay |-> one, intra_burst_delay |-> one]
            t == setdefault(s, rest)
<1>1. rest.burst_steps \in Distributions /\ DOMAIN rest = {"burst_prob", "burst_steps", "inter_burst_delay", "intra_burst_delay"}
    BY Constants
<1>. HIDE DEF rest
<1>2. /\ DOMAIN t = DOMAIN s \cup DOMAIN rest
      /\ \A k \in DOMAIN t : t[k] = IF k \in DOMAIN s THEN s[k] ELSE rest[k]
    BY DEF setdefault
<1>. HIDE DEF t
<1>3. HasSteps(t)
    BY <1>1, <1>2 DEF HasSteps
<1>4. \A a : HasSteps(setdefault(t, [initial_action |-> a]))
    <2>. TAKE a
    <2>. DEFINE u == setdefault(t, [initial_action |-> a])
    <2>1. /\ DOMAIN t \subseteq DOMAIN u
          /\ \A k \in DOMAIN t : u[k] = t[k]
        BY DEF setdefault
    <2>. HIDE DEF u
    <2>. QED
        BY <1>3, <2>1 DEF HasSteps, u
<1>5. WithDefaults(s) = IF "initial_action" \in DOMAIN t THEN t ELSE setdefault(t, [initial_action |-> FirstAction(t)])
    BY DEF WithDefaults, t, rest
<1>. QED
    BY <1>3, <1>4, <1>5

\* So it has, converted.
LEMMA BlockSteps ==
    ASSUME NEW s, HasSteps(s), NEW k \in {"dwell_steps", "burst_steps"}
    PROVE  convert_state_block(_ensure_distribution_floats(s))[k] \in MaudeDistributions
<1>. DEFINE f == _ensure_distribution_floats(s)
<1>1. k \in DOMAIN s /\ s[k] \in Distributions /\ k \in DistKeys
    BY DEF HasSteps, DistKeys
<1>2. k \in DOMAIN f /\ f[k] = (IF "random" \in DOMAIN s[k]
            THEN [p \in DOMAIN s[k] |-> IF p = "random" THEN s[k][p] ELSE format_float(s[k][p])]
            ELSE format_float(s[k]))
    BY <1>1 DEF _ensure_distribution_floats
<1>3. f[k] \in Distributions
    BY <1>1, <1>2, FloatDistribution
<1>. HIDE DEF f
<1>4. convert_state_block(f)[k] = to_maude_jv(f[k])
    BY <1>1, <1>2 DEF convert_state_block
<1>. QED
    BY <1>3, <1>4, MaudeDistribution DEF f

\* The steps of every state of every profile's model are distributions.
LEMMA ModelSteps ==
    ASSUME NEW p \in DOMAIN Profiles, NEW m \in DOMAIN Models[p].states, NEW k \in {"dwell_steps", "burst_steps"}
    PROVE  Models[p].states[m][k] \in MaudeDistributions
<1>. DEFINE data == Profiles[p].data
            flat == [i \in DOMAIN data.actions |-> <<data.actions[i][1], FlatState(data.actions[i][1], data.actions[i][2])>>]
            states == IF data.states = <<>> /\ "actions" \in DOMAIN data THEN flat ELSE data.states
            s == Field(states, m)
            t == IF s.type = "wait" THEN expand_idle_state(s) ELSE WithDefaults(s)
<1>1. Models[p].states = convert_v2_states_section(states)
    BY DEF Models, generate
<1>2. m \in Keys(states) /\ Models[p].states[m] = convert_state_block(_ensure_distribution_floats(t))
    BY <1>1 DEF convert_v2_states_section
<1>3. PICK i \in DOMAIN states : s = states[i][2]
    BY <1>2 DEF Keys, Field
<1>4. HasSteps(t)
    <2>1. CASE s.type = "wait"
        BY <2>1, IdleSteps
    <2>2. CASE s.type # "wait" /\ data.states = <<>> /\ "actions" \in DOMAIN data
        <3>1. \E a, name : s = FlatState(name, a)
            BY <1>3, <2>2
        <3>2. PICK a, name : s = FlatState(name, a)
            BY <3>1
        <3>3. HasSteps(s)
            BY <3>2, FlatSteps
        <3>. HIDE DEF s
        <3>. QED
            BY <2>2, <3>3, DefaultSteps DEF HasSteps
    <2>3. CASE s.type # "wait" /\ ~(data.states = <<>> /\ "actions" \in DOMAIN data)
        <3>1. i \in DOMAIN data.states /\ s = data.states[i][2]
            BY <1>3, <2>3
        <3>2. /\ "dwell_steps" \in DOMAIN s /\ s.dwell_steps \in Distributions
              /\ "burst_steps" \in DOMAIN s => s.burst_steps \in Distributions
            BY <2>3, <3>1, ProfilesAssumption
        <3>. HIDE DEF s
        <3>. QED
            BY <2>3, <3>2, DefaultSteps
    <2>. QED
        BY <2>1, <2>2, <2>3
<1>. QED
    BY <1>2, <1>4, BlockSteps

-----------------------------------------------------------------------------
(* Every state can be walked. *)

\* An object has a value for each of its keys.
LEMMA FieldFacts ==
    ASSUME NEW object, NEW key \in Keys(object)
    PROVE  \E i \in DOMAIN object : object[i][1] = key /\ Field(object, key) = object[i][2]
<1>. DEFINE P(i) == i \in DOMAIN object /\ object[i][1] = key
<1>1. \E i : P(i)
    BY DEF Keys
<1>2. P(CHOOSE i : P(i))
    BY <1>1
<1>. QED
    BY <1>2 DEF Field

\* A chain that is closed leads on from each of its names.
LEMMA ClosedFacts ==
    ASSUME NEW chain, NEW names, Closed(chain, names), NEW a \in names
    PROVE  a \in Keys(chain) /\ Field(chain, a) # {} /\ Field(chain, a) \subseteq names
BY FieldFacts DEF Closed

\* There is something to draw from what is drawable, with the types it has or as floats.
LEMMA Drawn ==
    ASSUME NEW x, Drawable(x)
    PROVE  realizeParam(to_maude_jv(x)) # {}
<1>. DEFINE number(n) == [jv |-> IF n.type = "int" THEN "jn" ELSE "jf", v |-> n.v]
            y == to_maude_jv(x)
<1>0. \A n \in Numbers : number(n).v = n.v /\ n.v \in Int /\ "random" \notin DOMAIN number(n)
    BY NumberFacts
<1>. HIDE DEF number
<1>a. y = IF "random" \in DOMAIN x
          THEN [p \in DOMAIN x |-> IF p = "random" THEN x[p] ELSE number(x[p])]
          ELSE number(x)
    BY DEF to_maude_jv, number
<1>. HIDE DEF y
<1>1. CASE x \in Numbers
    BY <1>0, <1>a, <1>1, NumberFacts DEF realizeParam, y
<1>2. CASE x \in [random : {"gaussian"}, mean : Numbers, std : Numbers]
    <2>1. DOMAIN x = {"random", "mean", "std"} /\ x.random = "gaussian" /\ x.mean \in Numbers /\ x.std \in Numbers
        BY <1>2
    <2>2. y = [random |-> "gaussian", mean |-> number(x.mean), std |-> number(x.std)]
        BY <1>a, <2>1
    <2>3. y.mean.v = x.mean.v /\ y.std.v = x.std.v /\ x.mean.v \in Int /\ x.std.v \in Int /\ x.std.v >= 0
        BY <1>0, <2>1, <2>2 DEF Drawable
    <2>4. x.mean.v \in (y.mean.v - y.std.v)..(y.mean.v + y.std.v)
        BY <2>3
    <2>5. realizeRand(y) # {}
        BY <2>2, <2>4 DEF realizeRand
    <2>. QED
        BY <2>2, <2>5 DEF realizeParam, y
<1>3. CASE x \in [random : {"uniform"}, min : Numbers, max : Numbers]
    <2>1. DOMAIN x = {"random", "min", "max"} /\ x.random = "uniform" /\ x.min \in Numbers /\ x.max \in Numbers
        BY <1>3
    <2>2. y = [random |-> "uniform", min |-> number(x.min), max |-> number(x.max)]
        BY <1>a, <2>1
    <2>3. y.min.v = x.min.v /\ y.max.v = x.max.v /\ x.min.v \in Int /\ x.max.v \in Int /\ x.min.v <= x.max.v
        BY <1>0, <2>1, <2>2 DEF Drawable
    <2>4. x.min.v \in y.min.v..y.max.v
        BY <2>3
    <2>5. realizeRand(y) # {}
        BY <2>2, <2>4 DEF realizeRand
    <2>. QED
        BY <2>2, <2>5 DEF realizeParam, y
<1>. QED
    BY <1>1, <1>2, <1>3 DEF Drawable, Distributions

\* The floats that the converter makes of a distribution of a state.
floats(x) ==
    IF "random" \in DOMAIN x
    THEN [p \in DOMAIN x |-> IF p = "random" THEN x[p] ELSE format_float(x[p])]
    ELSE format_float(x)

\* Numbers as floats.
LEMMA FormattedFloat ==
    ASSUME NEW n \in Numbers
    PROVE  format_float(n) = [type |-> "float", v |-> n.v]
BY DEF format_float, Numbers

\* What is drawn from them is a float, and there is something to draw.
LEMMA DrawnFloats ==
    ASSUME NEW x, Drawable(x)
    PROVE  /\ realizeParam(to_maude_jv(floats(x))) # {}
           /\ \A d \in realizeParam(to_maude_jv(floats(x))) : d.jv = "jf"
<1>. DEFINE fl(n) == [jv |-> "jf", v |-> n.v]
            y == to_maude_jv(floats(x))
            z == floats(x)
<1>1. CASE x \in Numbers
    <2>1. z = [type |-> "float", v |-> x.v]
        BY <1>1, NumberFacts, FormattedFloat DEF floats
    <2>2. y = [jv |-> "jf", v |-> x.v]
        BY <2>1 DEF to_maude_jv
    <2>3. realizeParam(y) = {[jv |-> "jf", v |-> x.v]}
        BY <2>2 DEF realizeParam
    <2>. QED
        BY <2>3
<1>2. CASE x \in [random : {"gaussian"}, mean : Numbers, std : Numbers]
    <2>1. DOMAIN x = {"random", "mean", "std"} /\ x.random = "gaussian" /\ x.mean \in Numbers /\ x.std \in Numbers
        BY <1>2
    <2>2. z = [random |-> "gaussian", mean |-> [type |-> "float", v |-> x.mean.v],
               std |-> [type |-> "float", v |-> x.std.v]]
        BY <2>1, FormattedFloat DEF floats
    <2>3. y = [random |-> "gaussian", mean |-> fl(x.mean), std |-> fl(x.std)]
        BY <2>2 DEF to_maude_jv
    <2>4. x.mean.v \in Int /\ x.std.v \in Int /\ x.std.v >= 0
        BY <2>1, NumberFacts DEF Drawable
    <2>5. realizeParam(y) = {[jv |-> "jf", v |-> n] : n \in (x.mean.v - x.std.v)..(x.mean.v + x.std.v)}
        BY <2>3 DEF realizeParam, realizeRand
    <2>6. x.mean.v \in (x.mean.v - x.std.v)..(x.mean.v + x.std.v)
        BY <2>4
    <2>. HIDE DEF y
    <2>7. [jv |-> "jf", v |-> x.mean.v] \in realizeParam(y)
        BY <2>5, <2>6
    <2>8. \A d \in realizeParam(y) : d.jv = "jf"
        BY <2>5
    <2>. QED
        BY <2>7, <2>8 DEF y
<1>3. CASE x \in [random : {"uniform"}, min : Numbers, max : Numbers]
    <2>1. DOMAIN x = {"random", "min", "max"} /\ x.random = "uniform" /\ x.min \in Numbers /\ x.max \in Numbers
        BY <1>3
    <2>2. z = [random |-> "uniform", min |-> [type |-> "float", v |-> x.min.v],
               max |-> [type |-> "float", v |-> x.max.v]]
        BY <2>1, FormattedFloat DEF floats
    <2>3. y = [random |-> "uniform", min |-> fl(x.min), max |-> fl(x.max)]
        BY <2>2 DEF to_maude_jv
    <2>4. x.min.v \in Int /\ x.max.v \in Int /\ x.min.v <= x.max.v
        BY <2>1, NumberFacts DEF Drawable
    <2>5. realizeParam(y) = {[jv |-> "jf", v |-> n] : n \in x.min.v..x.max.v}
        BY <2>3 DEF realizeParam, realizeRand
    <2>6. x.min.v \in x.min.v..x.max.v
        BY <2>4
    <2>. HIDE DEF y
    <2>7. [jv |-> "jf", v |-> x.min.v] \in realizeParam(y)
        BY <2>5, <2>6
    <2>8. \A d \in realizeParam(y) : d.jv = "jf"
        BY <2>5
    <2>. QED
        BY <2>7, <2>8 DEF y
<1>. QED
    BY <1>1, <1>2, <1>3 DEF Drawable, Distributions

\* A state that has everything a state can have, before its floats are made.
FullState(s, irc) ==
    /\ DistKeys \cup {"burst_prob", "initial_action", "actions", "markov", "type"} \subseteq DOMAIN s
    /\ s.type # "wait" /\ RunnableState(s, irc)

\* A waiting state has it as an action,
LEMMA IdleRuns ==
    ASSUME NEW s, "sleep" \in DOMAIN s => Drawable(s.sleep), NEW irc \in BOOLEAN
    PROVE  FullState(expand_idle_state(s), irc)
<1>. DEFINE t == expand_idle_state(s)
<1>1. /\ DOMAIN t = DistKeys \cup {"burst_prob", "initial_action", "actions", "markov", "type"}
      /\ t.type = "state" /\ t.initial_action = "noop" /\ t.burst_prob = 100
      /\ t.actions = << <<"noop", [type |-> "noop"]>> >>
      /\ t.markov = << <<"noop", {"noop"}>> >>
      /\ t.inter_burst_delay = IF "sleep" \in DOMAIN s THEN s.sleep ELSE Gaussian(FloatN(300), FloatN(80))
      /\ t.dwell_steps = Gaussian(FloatN(1), FloatN(0)) /\ t.burst_steps = Gaussian(FloatN(1), FloatN(0))
      /\ t.intra_burst_delay = Gaussian(FloatN(0), FloatN(0))
    BY DEF expand_idle_state, DistKeys
<1>. HIDE DEF t
<1>2. \A m, d \in Nat : Drawable(Gaussian(FloatN(m), FloatN(d)))
    <2>1. \A m \in Nat : FloatN(m) \in Numbers /\ FloatN(m).v = m
        BY DEF FloatN, Numbers
    <2>. QED
        BY <2>1 DEF Gaussian, Drawable, Distributions
<1>3. \A k \in DistKeys : Drawable(t[k])
    BY <1>1, <1>2 DEF DistKeys
<1>4. Keys(t.markov) = {"noop"} /\ Keys(t.actions) = {"noop"} /\ FirstAction(t) = "noop"
    BY <1>1 DEF Keys, FirstAction
<1>5. Closed(t.markov, Keys(t.markov))
    BY <1>1, <1>4 DEF Closed
<1>6. Field(t.actions, "noop") = [type |-> "noop"]
    <2>1. PICK i \in DOMAIN t.actions : Field(t.actions, "noop") = t.actions[i][2]
        BY <1>4, FieldFacts
    <2>2. i = 1
        BY <1>1, <2>1
    <2>. QED
        BY <1>1, <2>1, <2>2
<1>7. Matched(Field(t.actions, "noop"))
    BY <1>6 DEF Matched
<1>8. RunnableState(t, irc)
    BY <1>1, <1>3, <1>4, <1>5, <1>7 DEF RunnableState
<1>. QED
    BY <1>1, <1>8 DEF FullState, t

\* any other state by default,
LEMMA DefaultRuns ==
    ASSUME NEW s, NEW irc \in BOOLEAN, s.type # "wait", RunnableState(s, irc),
           {"dwell_steps", "actions", "markov", "type"} \subseteq DOMAIN s
    PROVE  FullState(WithDefaults(s), irc)
<1>. DEFINE three == Uniform(IntN(3), IntN(3))
            one == Uniform(IntN(1), IntN(1))
            rest == [burst_prob |-> 100, burst_steps |-> three,
                     inter_burst_delay |-> one, intra_burst_delay |-> one]
            t == setdefault(s, rest)
            u == IF "initial_action" \in DOMAIN t THEN t
                 ELSE setdefault(t, [initial_action |-> FirstAction(t)])
<1>0. Drawable(three) /\ Drawable(one)
    <2>1. \A m \in Nat : IntN(m) \in Numbers /\ IntN(m).v = m
        BY DEF IntN, Numbers
    <2>. QED
        BY <2>1 DEF Uniform, Drawable, Distributions
<1>1. /\ DOMAIN rest = {"burst_prob", "burst_steps", "inter_burst_delay", "intra_burst_delay"}
      /\ rest.burst_prob = 100
      /\ \A k \in DOMAIN rest \cap DistKeys : Drawable(rest[k])
    BY <1>0 DEF DistKeys
<1>. HIDE DEF rest
<1>2. /\ DOMAIN t = DOMAIN s \cup DOMAIN rest
      /\ \A k \in DOMAIN t : t[k] = IF k \in DOMAIN s THEN s[k] ELSE rest[k]
    BY DEF setdefault
<1>. HIDE DEF t
<1>3. FirstAction(t) = FirstAction(s)
    BY <1>2 DEF FirstAction
<1>4. /\ DOMAIN u = DOMAIN t \cup {"initial_action"}
      /\ \A k \in DOMAIN t : u[k] = t[k]
      /\ "initial_action" \notin DOMAIN t => u.initial_action = FirstAction(t)
    BY DEF setdefault
<1>5. WithDefaults(s) = u
    BY DEF WithDefaults, t, rest
<1>. HIDE DEF u
<1>6. /\ DistKeys \cup {"burst_prob", "initial_action", "actions", "markov", "type"} \subseteq DOMAIN u
      /\ u.type = s.type /\ u.actions = s.actions /\ u.markov = s.markov
    BY <1>1, <1>2, <1>4 DEF DistKeys
<1>7. \A k \in DistKeys : Drawable(u[k])
    <2>. SUFFICES ASSUME NEW k \in DistKeys PROVE Drawable(u[k])
        OBVIOUS
    <2>1. k \in DOMAIN t /\ u[k] = t[k]
        BY <1>1, <1>2, <1>4 DEF DistKeys
    <2>2. CASE k \in DOMAIN s
        BY <1>2, <2>1, <2>2 DEF RunnableState
    <2>3. CASE k \notin DOMAIN s
        BY <1>1, <1>2, <2>1, <2>3
    <2>. QED
        BY <2>2, <2>3
<1>8. u.burst_prob \in 0..100
    BY <1>1, <1>2, <1>4 DEF RunnableState
<1>9. u.initial_action \in Keys(u.markov) /\ FirstAction(u) \in Keys(u.markov)
    <2>1. FirstAction(u) = FirstAction(s)
        BY <1>6 DEF FirstAction
    <2>2. CASE "initial_action" \in DOMAIN s
        BY <1>1, <1>2, <1>4, <1>6, <2>1, <2>2 DEF RunnableState
    <2>3. CASE "initial_action" \notin DOMAIN s
        BY <1>1, <1>2, <1>3, <1>4, <1>6, <2>1, <2>3 DEF RunnableState
    <2>. QED
        BY <2>2, <2>3
<1>10. RunnableState(u, irc)
    BY <1>6, <1>7, <1>8, <1>9 DEF RunnableState
<1>. QED
    BY <1>5, <1>6, <1>10 DEF FullState

\* and an action of a profile without states as a state.
LEMMA FlatRuns ==
    ASSUME NEW name, NEW a, NEW irc \in BOOLEAN, RunnableAction(a, irc)
    PROVE  /\ FlatState(name, a).type # "wait" /\ RunnableState(FlatState(name, a), irc)
           /\ {"dwell_steps", "actions", "markov", "type"} \subseteq DOMAIN FlatState(name, a)
<1>1. CASE a.type = "wait"
    <2>1. FullState(expand_idle_state(a), irc)
        BY IdleRuns DEF RunnableAction
    <2>2. FlatState(name, a) = expand_idle_state(a)
        BY <1>1 DEF FlatState
    <2>. QED
        BY <2>1, <2>2 DEF FullState, DistKeys
<1>2. CASE a.type # "wait"
    <2>. DEFINE t == FlatState(name, a)
    <2>1. /\ DOMAIN t = DistKeys \cup {"burst_prob", "initial_action", "actions", "markov", "type"}
          /\ t.type = "state" /\ t.initial_action = name /\ t.burst_prob = 100
          /\ t.actions = << <<name, a>> >>
          /\ t.markov = << <<name, {name}>> >>
          /\ t.intra_burst_delay = IF "sleep" \in DOMAIN a THEN a.sleep ELSE Gaussian(FloatN(0), FloatN(0))
          /\ t.dwell_steps = Gaussian(FloatN(1), FloatN(0)) /\ t.burst_steps = Gaussian(FloatN(1), FloatN(0))
          /\ t.inter_burst_delay = Gaussian(FloatN(0), FloatN(0))
        BY <1>2 DEF FlatState, DistKeys
    <2>. HIDE DEF t
    <2>2. \A m, d \in Nat : Drawable(Gaussian(FloatN(m), FloatN(d)))
        <3>1. \A m \in Nat : FloatN(m) \in Numbers /\ FloatN(m).v = m
            BY DEF FloatN, Numbers
        <3>. QED
            BY <3>1 DEF Gaussian, Drawable, Distributions
    <2>3. \A k \in DistKeys : Drawable(t[k])
        BY <2>1, <2>2 DEF DistKeys, RunnableAction
    <2>4. Keys(t.markov) = {name} /\ Keys(t.actions) = {name} /\ FirstAction(t) = name
        BY <2>1 DEF Keys, FirstAction
    <2>5. Closed(t.markov, Keys(t.markov))
        BY <2>1, <2>4 DEF Closed
    <2>6. Field(t.actions, name) = a
        <3>1. PICK i \in DOMAIN t.actions : Field(t.actions, name) = t.actions[i][2]
            BY <2>4, FieldFacts
        <3>2. i = 1
            BY <2>1, <3>1
        <3>. QED
            BY <2>1, <3>1, <3>2
    <2>7. irc => Matched(Field(t.actions, name))
        BY <1>2, <2>6 DEF RunnableAction
    <2>8. RunnableState(t, irc)
        BY <2>1, <2>3, <2>4, <2>5, <2>7 DEF RunnableState
    <2>. QED
        BY <2>1, <2>8 DEF t, DistKeys
<1>. QED
    BY <1>1, <1>2

\* The rules have an equation for a converted action of an IRC user.
MatchedAction(a) ==
    \/ a.type \in {"set_room_numbers", "noop", "roommsg"}
    \/ a.type = "select_room" /\ realizeParam(a.choice) # {}
    \/ a.type = "wait" /\ realizeParam(a.sleep) # {} /\ \A d \in realizeParam(a.sleep) : d.jv = "jf"

\* A converted state can be walked: there is something to draw, delays are floats,
\* and its chain leads to actions that can be taken.
RunnableBlock(b, irc) ==
    /\ DistKeys \subseteq DOMAIN b
    /\ \A k \in DistKeys : realizeParam(b[k]) # {} /\ \A d \in realizeParam(b[k]) : d.jv = "jf"
    /\ b.burst_prob \in Int
    /\ getInitialAction(b) \in DOMAIN b.markov
    /\ \A a \in DOMAIN b.markov :
         /\ b.markov[a] # {} /\ b.markov[a] \subseteq DOMAIN b.markov
         /\ IF irc THEN a \in DOMAIN b.actions /\ MatchedAction(b.actions[a])
            ELSE a \in noops \cup DOMAIN b.actions

\* An action keeps its type, and what it draws.
LEMMA ConvertedAction ==
    ASSUME NEW a, Matched(a)
    PROVE  MatchedAction(ConvertAction(a))
<1>. DEFINE c == ConvertAction(a)
<1>1. /\ DOMAIN c = DOMAIN a
      /\ \A f \in DOMAIN a : c[f] = IF f \in {"sleep", "choice"} THEN to_maude_jv(a[f]) ELSE a[f]
    BY DEF ConvertAction
<1>. HIDE DEF c
<1>2. a.type = c.type
    BY <1>1 DEF Matched
<1>3. CASE a.type \in {"set_room_numbers", "noop", "roommsg"}
    BY <1>2, <1>3 DEF MatchedAction, c
<1>4. CASE a.type = "select_room" /\ "choice" \in DOMAIN a /\ Drawable(a.choice)
    BY <1>1, <1>2, <1>4, Drawn DEF MatchedAction, c
<1>5. CASE a.type = "wait" /\ "sleep" \in DOMAIN a /\ DrawsFloats(a.sleep)
    BY <1>1, <1>2, <1>5, Drawn DEF MatchedAction, DrawsFloats, c
<1>. QED
    BY <1>3, <1>4, <1>5 DEF Matched

\* A full state is converted to one that can be walked.
LEMMA BlockRuns ==
    ASSUME NEW s, NEW irc \in BOOLEAN, FullState(s, irc)
    PROVE  RunnableBlock(convert_state_block(_ensure_distribution_floats(s)), irc)
<1>. DEFINE f == _ensure_distribution_floats(s)
            b == convert_state_block(f)
<1>1. /\ DOMAIN f = DOMAIN s
      /\ \A k \in DOMAIN s : f[k] = IF k \in DistKeys THEN floats(s[k]) ELSE s[k]
    BY DEF _ensure_distribution_floats, floats
<1>. HIDE DEF f
<1>2. /\ DOMAIN b = DOMAIN f \ {"sleep", "type"}
      /\ \A k \in DistKeys \cap DOMAIN b : b[k] = to_maude_jv(f[k])
      /\ "actions" \in DOMAIN b => b["actions"] = [a \in Keys(f.actions) |-> ConvertAction(Field(f.actions, a))]
      /\ "markov" \in DOMAIN b => b["markov"] = [a \in Keys(f.markov) |-> Field(f.markov, a)]
      /\ \A k \in {"initial_action", "burst_prob"} : k \in DOMAIN b => b[k] = f[k]
    BY DEF convert_state_block, DistKeys
<1>. HIDE DEF b
<1>3. /\ DistKeys \subseteq DOMAIN b /\ DistKeys \subseteq DOMAIN s
      /\ {"initial_action", "burst_prob", "actions", "markov"} \subseteq DOMAIN b \cap DOMAIN s
    BY <1>1, <1>2 DEF FullState, DistKeys
<1>4. /\ f.actions = s.actions /\ f.markov = s.markov
      /\ b.initial_action = s.initial_action /\ b.burst_prob = s.burst_prob
    BY <1>1, <1>2, <1>3 DEF DistKeys
<1>5. /\ \A k \in DistKeys : Drawable(s[k])
      /\ s.burst_prob \in 0..100 /\ s.initial_action \in Keys(s.markov)
      /\ Closed(s.markov, Keys(s.markov))
      /\ \A a \in Keys(s.markov) :
              IF irc THEN a \in Keys(s.actions) /\ Matched(Field(s.actions, a))
              ELSE a \in noops \cup Keys(s.actions)
    BY <1>3 DEF FullState, RunnableState
<1>6. \A k \in DistKeys : realizeParam(b[k]) # {} /\ \A d \in realizeParam(b[k]) : d.jv = "jf"
    <2>. SUFFICES ASSUME NEW k \in DistKeys
                  PROVE  realizeParam(b[k]) # {} /\ \A d \in realizeParam(b[k]) : d.jv = "jf"
        OBVIOUS
    <2>1. b[k] = to_maude_jv(floats(s[k])) /\ Drawable(s[k])
        BY <1>1, <1>2, <1>3, <1>5
    <2>. QED
        BY <2>1, DrawnFloats
<1>7. /\ DOMAIN b.markov = Keys(s.markov) /\ DOMAIN b.actions = Keys(s.actions)
      /\ \A a \in Keys(s.markov) : b.markov[a] = Field(s.markov, a)
      /\ \A a \in Keys(s.actions) : b.actions[a] = ConvertAction(Field(s.actions, a))
    BY <1>2, <1>3, <1>4
<1>8. ASSUME NEW a \in DOMAIN b.markov
      PROVE  /\ b.markov[a] # {} /\ b.markov[a] \subseteq DOMAIN b.markov
             /\ IF irc THEN a \in DOMAIN b.actions /\ MatchedAction(b.actions[a])
                ELSE a \in noops \cup DOMAIN b.actions
    <2>1. b.markov[a] # {} /\ b.markov[a] \subseteq DOMAIN b.markov
        BY <1>5, <1>7, <1>8, ClosedFacts
    <2>2. CASE irc
        BY <1>5, <1>7, <1>8, <2>1, <2>2, ConvertedAction
    <2>3. CASE ~irc
        BY <1>5, <1>7, <1>8, <2>1, <2>3
    <2>. QED
        BY <2>2, <2>3
<1>9. b.burst_prob \in Int /\ getInitialAction(b) \in DOMAIN b.markov
    BY <1>3, <1>4, <1>5, <1>7 DEF getInitialAction
<1>. QED
    BY <1>3, <1>6, <1>8, <1>9 DEF RunnableBlock, b, f

\* So every state of every profile's model can be walked, and the chain of its modes
\* leads from one to another.
LEMMA ModelRuns ==
    ASSUME NEW p \in DOMAIN Profiles
    PROVE  /\ getInitialState(Models[p].params) \in DOMAIN Models[p].states
           /\ \A m \in DOMAIN Models[p].states :
                /\ RunnableBlock(Models[p].states[m], Profiles[p].irc)
                /\ m \in Keys(Models[p].markov)
                /\ Field(Models[p].markov, m) # {}
                /\ Field(Models[p].markov, m) \subseteq DOMAIN Models[p].states
<1>. DEFINE data == Profiles[p].data
            irc == Profiles[p].irc
            isFlat == data.states = <<>> /\ "actions" \in DOMAIN data
            flat == [i \in DOMAIN data.actions |-> <<data.actions[i][1], FlatState(data.actions[i][1], data.actions[i][2])>>]
            states == IF isFlat THEN flat ELSE data.states
            names == IF isFlat THEN Keys(data.actions) ELSE Keys(data.states)
<1>1. /\ Models[p].states = convert_v2_states_section(states)
      /\ Models[p].params = data.parameters /\ Models[p].markov = data.markov
    BY DEF Models, generate
<1>2. Runnable(data, irc)
    BY RunnableAssumption
<1>3. Keys(states) = names
    <2>1. CASE isFlat
        <3>1. DOMAIN flat = DOMAIN data.actions /\ \A i \in DOMAIN data.actions : flat[i][1] = data.actions[i][1]
            OBVIOUS
        <3>. QED
            BY <2>1, <3>1 DEF Keys
    <2>. QED
        BY <2>1
<1>4. DOMAIN Models[p].states = names
    BY <1>1, <1>3 DEF convert_v2_states_section
<1>5. getInitialState(data.parameters) \in names /\ Closed(data.markov, names)
    BY <1>2 DEF Runnable
<1>6. ASSUME NEW m \in names
      PROVE  RunnableBlock(Models[p].states[m], irc)
    <2>. DEFINE s == Field(states, m)
                t == IF s.type = "wait" THEN expand_idle_state(s) ELSE WithDefaults(s)
    <2>1. Models[p].states[m] = convert_state_block(_ensure_distribution_floats(t))
        BY <1>1, <1>3, <1>6 DEF convert_v2_states_section
    <2>2. PICK i \in DOMAIN states : s = states[i][2]
        <3>1. m \in Keys(states)
            BY <1>3, <1>6
        <3>. HIDE DEF states
        <3>. QED
            BY <3>1, FieldFacts
    <2>3. FullState(t, irc)
        <3>1. CASE isFlat
            <4>1. PICK name, a : s = FlatState(name, a) /\ RunnableAction(a, irc)
                <5>1. i \in DOMAIN data.actions /\ RunnableAction(data.actions[i][2], irc)
                    BY <1>2, <2>2, <3>1 DEF Runnable
                <5>2. s = FlatState(data.actions[i][1], data.actions[i][2])
                    BY <2>2, <3>1, <5>1
                <5>. QED
                    BY <5>1, <5>2
            <4>2. /\ s.type # "wait" /\ RunnableState(s, irc)
                  /\ {"dwell_steps", "actions", "markov", "type"} \subseteq DOMAIN s
                BY <4>1, FlatRuns, ProfilesAssumption
            <4>. HIDE DEF s
            <4>. QED
                BY <4>2, DefaultRuns, ProfilesAssumption
        <3>2. CASE ~isFlat
            <4>1. i \in DOMAIN data.states /\ s = data.states[i][2] /\ RunnableState(s, irc)
                BY <1>2, <2>2, <3>2 DEF Runnable
            <4>2. s.type # "wait" => {"dwell_steps", "actions", "markov", "type"} \subseteq DOMAIN s
                BY <4>1, ProfilesAssumption
            <4>. HIDE DEF s
            <4>3. CASE s.type = "wait"
                BY <4>1, <4>3, IdleRuns, ProfilesAssumption DEF RunnableState
            <4>4. CASE s.type # "wait"
                BY <4>1, <4>2, <4>4, DefaultRuns, ProfilesAssumption
            <4>. QED
                BY <4>3, <4>4
        <3>. QED
            BY <3>1, <3>2
    <2>. HIDE DEF t
    <2>. QED
        BY <2>1, <2>3, BlockRuns, ProfilesAssumption
<1>7. \A m \in names : /\ m \in Keys(data.markov) /\ Field(data.markov, m) # {}
                       /\ Field(data.markov, m) \subseteq names
    BY <1>5, ClosedFacts
<1>. QED
    BY <1>1, <1>4, <1>5, <1>6, <1>7

-----------------------------------------------------------------------------
(* Modes and bursts. *)

Stays == [dwell : Nat, acts : Nat, size : Int, done : Nat, waits : Nat]

\* d dwell steps and b burst steps are left: before the next action is chosen,
Chosen(s, d, b) ==
    /\ s.acts + d = s.dwell
    /\ s.size > 0 => s.done = s.waits /\ s.done + b = s.size
    /\ s.size = 0 => s.done = 1 /\ s.waits = 0 /\ b = 0
    /\ s.size < 0 => b = 0

\* after a pause before a burst, or when a single action is due,
Begun(s, d, b) ==
    /\ s.acts + d = s.dwell /\ d > 0
    /\ s.size > 0 => s.done = s.waits /\ s.done + b = s.size /\ b > 0
    /\ s.size = 0 => s.done = 0 /\ s.waits = 0 /\ b = 0
    /\ s.size < 0 => b = 0

\* and when an action has been taken that no step has been counted for.
Acted(s, d, b) ==
    /\ s.acts + d = s.dwell + 1 /\ d > 0
    /\ s.size > 0 => s.done = s.waits + 1 /\ s.done + b = s.size + 1 /\ b > 0
    /\ s.size = 0 => s.done = 1 /\ s.waits = 0 /\ b = 0
    /\ s.size < 0 => b = 0

\* A mode begins.
LEMMA ModeBegins ==
    ASSUME NEW n \in Nat
    PROVE  LET s == [dwell |-> n, acts |-> 0, size |-> NoBurst, done |-> 0, waits |-> 0]
           IN s \in Stays /\ Chosen(s, n, 0) /\ s.acts <= s.dwell
BY DEF Stays, Chosen, NoBurst

\* A burst of any length begins, or a single action.
LEMMA BurstBegins ==
    ASSUME NEW s \in Stays, NEW d \in Nat, d > 0, Chosen(s, d, 0), NEW n \in Int,
           NEW b \in Nat, n = b \/ (n < 0 /\ b = 0),
           NEW t, t = [s EXCEPT !.size = n, !.done = 0, !.waits = 0]
    PROVE  t \in Stays /\ Begun(t, d, b) /\ t.acts = s.acts /\ t.dwell = s.dwell
<1>1. /\ t \in Stays
      /\ t.dwell = s.dwell /\ t.acts = s.acts /\ t.size = n /\ t.done = 0 /\ t.waits = 0
    BY DEF Stays
<1>2. Begun(t, d, b)
    BY <1>1 DEF Chosen, Begun
<1>. QED
    BY <1>1, <1>2

\* An action is taken, at the beginning of a burst or in it.
LEMMA ActionTaken ==
    ASSUME NEW s \in Stays, NEW d \in Nat, NEW b \in Nat,
           Begun(s, d, b) \/ (Chosen(s, d, b) /\ d > 0 /\ b > 0),
           NEW t, t = [s EXCEPT !.acts = @ + 1, !.done = @ + 1]
    PROVE  t \in Stays /\ Acted(t, d, b) /\ t.acts <= t.dwell
<1>0. s.dwell \in Nat /\ s.acts \in Nat /\ s.done \in Nat /\ s.waits \in Nat /\ s.size \in Int
    BY DEF Stays
<1>. DEFINE u == [s EXCEPT !.acts = @ + 1]
<1>a. /\ u \in Stays
      /\ u.dwell = s.dwell /\ u.acts = s.acts + 1 /\ u.size = s.size /\ u.done = s.done /\ u.waits = s.waits
    BY DEF Stays
<1>b. t = [u EXCEPT !.done = @ + 1]
    BY <1>a
<1>. HIDE DEF u
<1>1. /\ t \in Stays
      /\ t.dwell = s.dwell /\ t.acts = s.acts + 1 /\ t.size = s.size /\ t.done = s.done + 1 /\ t.waits = s.waits
    BY <1>a, <1>b DEF Stays
<1>2. Acted(t, d, b)
    <2>0. s.acts + d = s.dwell /\ d > 0
        BY DEF Chosen, Begun
    <2>1. t.acts + d = t.dwell + 1
        BY <1>0, <1>1, <2>0
    <2>2. CASE s.size > 0
        BY <1>0, <1>1, <2>0, <2>1, <2>2 DEF Chosen, Begun, Acted
    <2>3. CASE s.size = 0
        BY <1>0, <1>1, <2>0, <2>1, <2>3 DEF Chosen, Begun, Acted
    <2>4. CASE s.size < 0
        BY <1>0, <1>1, <2>0, <2>1, <2>4 DEF Chosen, Begun, Acted
    <2>. QED
        BY <1>0, <2>2, <2>3, <2>4
<1>3. t.acts <= t.dwell
    BY <1>0, <1>1 DEF Chosen, Begun
<1>. QED
    BY <1>1, <1>2, <1>3

\* It is counted, and in a burst followed by the pause.
LEMMA ActionCounted ==
    ASSUME NEW s \in Stays, NEW d \in Nat, NEW b \in Nat, Acted(s, d, b)
    PROVE  /\ d > 0
           /\ b = 0 => Chosen(s, d - 1, 0)
           /\ b > 0 => \A t : t = [s EXCEPT !.waits = @ + 1]
                          => t \in Stays /\ Chosen(t, d - 1, b - 1) /\ t.acts = s.acts /\ t.dwell = s.dwell
<1>. DEFINE t == [s EXCEPT !.waits = @ + 1]
<1>1. /\ t \in Stays /\ s.dwell \in Nat /\ s.acts \in Nat /\ s.done \in Nat /\ s.waits \in Nat /\ s.size \in Int
      /\ t.dwell = s.dwell /\ t.acts = s.acts /\ t.size = s.size /\ t.done = s.done /\ t.waits = s.waits + 1
    BY DEF Stays
<1>. HIDE DEF t
<1>2. d > 0 /\ s.acts + (d - 1) = s.dwell
    BY <1>1 DEF Acted
<1>3. b = 0 => Chosen(s, d - 1, 0)
    BY <1>1, <1>2 DEF Chosen, Acted
<1>4. ASSUME b > 0
      PROVE  Chosen(t, d - 1, b - 1)
    <2>1. s.size > 0 /\ t.done = t.waits /\ t.done + (b - 1) = t.size
        BY <1>1, <1>4 DEF Acted
    <2>. QED
        BY <1>1, <1>2, <2>1 DEF Chosen
<1>. QED
    BY <1>1, <1>2, <1>3, <1>4 DEF t

-----------------------------------------------------------------------------
(* The invariant. *)

UserFields ==
    {"modelSteps", "nextMode", "nextAction", "nextRoom", "roomMap",
     "dwellSteps", "burstSteps", "curState", "w4"}

\* The types the steps rest on, and the mode a user with dwell steps left is in.
Typed ==
    /\ profile \in DOMAIN Profiles
    /\ DOMAIN um = UserFields /\ um.dwellSteps \in Nat /\ um.burstSteps \in Nat
    /\ um.dwellSteps > 0 => um.curState \in DOMAIN Model.states
    /\ stay \in Stays

Events == Timeouts \cup {"actionQ", "actionR"}
On(event) == at = "rest" /\ pend = SetToBag({event})

\* There is one thread, or none: a reduction, or one event under way.
OneThread ==
    \/ at = "rest" /\ pend = EmptyBag
    \/ \E e \in Events : On(e)
    \/ at \in {"timeout", "exec", "acted"} /\ pend = EmptyBag

\* What is left agrees with what was drawn, wherever the thread is.
Counted ==
    LET d == um.dwellSteps
        b == um.burstSteps
    IN /\ stay.acts <= stay.dwell
       /\ at = "timeout" \/ On("burstDelayTO") => Chosen(stay, d, b)
       /\ at = "exec" \/ On("burstReadyTO") => Begun(stay, d, b)
       /\ at = "acted" \/ On("actionDelayTO") \/ On("actionQ") \/ On("actionR")
            => Acted(stay, d, b)

Inv == Typed /\ OneThread /\ Counted

-----------------------------------------------------------------------------
(* The thread. *)

\* A bag of one event holds that event.
LEMMA OneEvent ==
    /\ DOMAIN EmptyBag = {}
    /\ \A e : /\ DOMAIN SetToBag({e}) = {e}
              /\ SetToBag({e}) # EmptyBag
              /\ BagAdd(EmptyBag, e) = SetToBag({e})
              /\ BagRemove(SetToBag({e}), e) = EmptyBag
    /\ \A e, f : SetToBag({e}) = SetToBag({f}) => e = f
<1>1. DOMAIN EmptyBag = {}
    BY DEF EmptyBag, SetToBag
<1>2. \A e : /\ DOMAIN SetToBag({e}) = {e}
             /\ BagAdd(EmptyBag, e) = SetToBag({e})
             /\ BagRemove(SetToBag({e}), e) = EmptyBag
    BY DEF EmptyBag, SetToBag, BagAdd, BagRemove
<1>. QED
    BY <1>1, <1>2

\* While a reduction goes on, no event is under way; when it ends in a wait the
\* only event is that of the wait, and without one it goes on behind it.
LEMMA Waits ==
    ASSUME OneThread, at # "rest", NEW d, NEW t \in Timeouts, exeWait(d, t)
    PROVE  /\ OneThread'
           /\ \A e \in Events : On(e)' => e = t
           /\ at' # "rest" => at' = resumeWaitV2(t)
<1>1. pend = EmptyBag
    BY DEF OneThread, On
<1>2. CASE at' = "rest" /\ pend' = pend
    BY <1>1, <1>2, OneEvent DEF OneThread, On
<1>3. CASE at' = resumeWaitV2(t) /\ pend' = pend
    <2>1. resumeWaitV2(t) \in {"timeout", "exec", "acted"}
        BY DEF resumeWaitV2, Timeouts
    <2>. QED
        BY <1>1, <1>3, <2>1 DEF OneThread, On
<1>4. CASE at' = "rest" /\ pend' = BagAdd(pend, t)
    <2>1. pend' = SetToBag({t}) /\ t \in Events
        BY <1>1, <1>4, OneEvent DEF Events
    <2>. QED
        BY <1>4, <2>1, OneEvent DEF OneThread, On
<1>. QED
    BY <1>2, <1>3, <1>4 DEF exeWait

\* A reduction that goes on, or ends without a wait, leaves no event.
LEMMA GoesOn ==
    ASSUME OneThread, at # "rest", at' \in {"rest", "timeout", "exec", "acted"}, pend' = pend
    PROVE  OneThread' /\ \A e \in Events : ~On(e)'
<1>1. pend' = EmptyBag
    BY DEF OneThread, On
<1>. QED
    BY <1>1, OneEvent DEF OneThread, On

\* A request goes out.
LEMMA Sends ==
    ASSUME OneThread, at # "rest", NEW u, sends(u)
    PROVE  /\ OneThread' /\ at' = "rest"
           /\ \A e \in Events : On(e)' => e = "actionQ"
<1>1. pend = EmptyBag
    BY DEF OneThread, On
<1>2. pend' = SetToBag({"actionQ"}) /\ at' = "rest"
    BY <1>1, OneEvent DEF sends
<1>. QED
    BY <1>2, OneEvent DEF OneThread, On, Events

\* An event that is under way is the only one, and no reduction goes on.
LEMMA Comes ==
    ASSUME OneThread, at = "rest", NEW e \in DOMAIN pend
    PROVE  On(e) /\ e \in Events /\ BagRemove(pend, e) = EmptyBag
<1>1. PICK f \in Events : pend = SetToBag({f})
    BY OneEvent DEF OneThread, On
<1>2. DOMAIN SetToBag({f}) = {f} /\ BagRemove(SetToBag({f}), f) = EmptyBag
    BY OneEvent
<1>3. e = f
    BY <1>1, <1>2
<1>. QED
    BY <1>1, <1>2, <1>3 DEF On

-----------------------------------------------------------------------------
(* The steps. *)

\* The events are different from one another.
LEMMA Names ==
    /\ {"burstDelayTO", "burstReadyTO", "actionDelayTO", "actionQ", "actionR"} = Events
    /\ resumeWaitV2("burstDelayTO") = "timeout" /\ resumeWaitV2("burstReadyTO") = "exec"
    /\ resumeWaitV2("actionDelayTO") = "acted"
BY DEF Events, Timeouts, resumeWaitV2

\* Initially the user has one timer, and no steps left of a mode or a burst.
LEMMA InitInv == Init => Inv
<1>. SUFFICES ASSUME Init PROVE Inv
    OBVIOUS
<1>1. Typed
    BY DEF Init, Typed, UserFields, mkUMV2Actor, Stays, NoBurst
<1>2. On("burstDelayTO")
    BY DEF Init, On
<1>3. OneThread
    BY <1>2 DEF OneThread, Events, Timeouts
<1>4. Counted
    <2>1. Chosen(stay, um.dwellSteps, um.burstSteps) /\ stay.acts <= stay.dwell
        BY DEF Init, Chosen, mkUMV2Actor, NoBurst
    <2>2. \A e \in Events : On(e) => e = "burstDelayTO"
        BY <1>2, OneEvent DEF On
    <2>3. at = "rest"
        BY DEF Init
    <2>. QED
        BY <2>1, <2>2, <2>3, Names DEF Counted
<1>. QED
    BY <1>1, <1>3, <1>4 DEF Inv

\* Entering a mode: as many dwell steps as it is to have, no burst yet.
LEMMA initModeInv == Inv /\ initMode => Inv'
<1>. SUFFICES ASSUME Inv, initMode PROVE Inv'
    OBVIOUS
<1>1. /\ at = "timeout" /\ pend' = pend /\ profile' = profile
      /\ Typed /\ OneThread /\ Counted
    BY DEF Inv, initMode
<1>2. CASE at' = "rest" /\ UNCHANGED <<um, stay>>
    <2>1. OneThread' /\ \A e \in Events : ~On(e)'
        BY <1>1, <1>2, GoesOn
    <2>2. Counted'
        BY <1>1, <1>2, <2>1, Names DEF Counted
    <2>3. Typed'
        BY <1>1, <1>2 DEF Typed, Model
    <2>. QED
        BY <2>1, <2>2, <2>3 DEF Inv
<1>3. CASE um.nextMode \in DOMAIN Model.states /\ at' = "timeout"
    <2>1. PICK m \in nextModes(um.nextMode), d \in realizeParam(Model.states[um.nextMode].dwell_steps) :
            /\ um' = [um EXCEPT !.curState = um.nextMode, !.nextMode = m,
                                !.dwellSteps = jv2nat(d), !.burstSteps = 0,
                                !.nextAction = getInitialAction(Model.states[um.nextMode])]
            /\ stay' = [dwell |-> jv2nat(d), acts |-> 0,
                        size |-> NoBurst, done |-> 0, waits |-> 0]
        BY <1>3 DEF initMode
    <2>. DEFINE n == jv2nat(d)
    <2>2. n \in Nat
        BY <1>1, <1>3, ModelSteps, Steps DEF Typed, Model
    <2>. HIDE DEF n
    <2>3. /\ DOMAIN um' = DOMAIN um /\ um'.dwellSteps = n /\ um'.burstSteps = 0
          /\ um'.curState = um.nextMode
        BY <1>1, <2>1 DEF Typed, UserFields, n
    <2>4. stay' \in Stays /\ Chosen(stay', n, 0) /\ stay'.acts <= stay'.dwell
        BY <2>1, <2>2, ModeBegins DEF n
    <2>5. OneThread' /\ \A e \in Events : ~On(e)'
        BY <1>1, <1>3, GoesOn
    <2>6. Counted'
        BY <1>3, <2>3, <2>4, <2>5, Names DEF Counted
    <2>7. Typed'
        BY <1>1, <1>3, <2>2, <2>3, <2>4 DEF Typed, Model
    <2>. QED
        BY <2>5, <2>6, <2>7 DEF Inv
<1>. QED
    BY <1>2, <1>3 DEF initMode

\* Choosing a burst, of any length, or a single action.
LEMMA chooseBurstInv == Inv /\ chooseBurst => Inv'
<1>. SUFFICES ASSUME Inv, chooseBurst PROVE Inv'
    OBVIOUS
<1>1. /\ at = "timeout" /\ um.dwellSteps > 0 /\ um.burstSteps = 0 /\ profile' = profile
      /\ Typed /\ OneThread /\ Counted
    BY DEF Inv, chooseBurst
<1>2. /\ um.dwellSteps \in Nat /\ stay \in Stays /\ stay.acts <= stay.dwell
      /\ Chosen(stay, um.dwellSteps, 0) /\ um.curState \in DOMAIN Model.states
    BY <1>1 DEF Typed, Counted
<1>3. ASSUME NEW n \in realizeParam(stateB.burst_steps), NEW d,
             um' = [um EXCEPT !.burstSteps = jv2nat(n)],
             exeWait(d, "burstReadyTO"),
             stay' = [stay EXCEPT !.size = jv2nat(n), !.done = 0, !.waits = 0]
      PROVE  Inv'
    <2>. DEFINE b == jv2nat(n)
    <2>1. b \in Nat
        BY <1>1, <1>2, ModelSteps, Steps DEF Typed, Model, stateB
    <2>. HIDE DEF b
    <2>2. /\ DOMAIN um' = DOMAIN um /\ um'.dwellSteps = um.dwellSteps /\ um'.burstSteps = b
          /\ um'.curState = um.curState
        BY <1>1, <1>3 DEF Typed, UserFields, b
    <2>3. /\ stay' \in Stays /\ Begun(stay', um.dwellSteps, b) /\ stay'.acts <= stay'.dwell
        <3>1. b \in Int /\ stay' = [stay EXCEPT !.size = b, !.done = 0, !.waits = 0]
            BY <1>3, <2>1 DEF b
        <3>2. stay' \in Stays /\ Begun(stay', um.dwellSteps, b) /\ stay'.acts = stay.acts /\ stay'.dwell = stay.dwell
            BY <1>1, <1>2, <2>1, <3>1, BurstBegins
        <3>. QED
            BY <1>2, <3>2
    <2>4. /\ OneThread' /\ \A e \in Events : On(e)' => e = "burstReadyTO"
          /\ at' \in {"rest", "exec"}
        BY <1>1, <1>3, Waits, Names DEF exeWait, Timeouts
    <2>5. Counted'
        BY <2>2, <2>3, <2>4, Names DEF Counted
    <2>6. Typed'
        BY <1>1, <2>1, <2>2, <2>3 DEF Typed, Model
    <2>. QED
        BY <2>4, <2>5, <2>6 DEF Inv
<1>4. CASE /\ at' = "exec" /\ UNCHANGED <<um, pend>>
           /\ stay' = [stay EXCEPT !.size = NoBurst, !.done = 0, !.waits = 0]
    <2>1. /\ stay' \in Stays /\ Begun(stay', um.dwellSteps, 0) /\ stay'.acts <= stay'.dwell
        <3>1. NoBurst \in Int /\ NoBurst < 0 /\ 0 \in Nat
            BY DEF NoBurst
        <3>2. stay' \in Stays /\ Begun(stay', um.dwellSteps, 0) /\ stay'.acts = stay.acts /\ stay'.dwell = stay.dwell
            BY <1>1, <1>2, <1>4, <3>1, BurstBegins
        <3>. QED
            BY <1>2, <3>2
    <2>2. OneThread' /\ \A e \in Events : ~On(e)'
        BY <1>1, <1>4, GoesOn
    <2>3. Counted'
        BY <1>1, <1>4, <2>1, <2>2, Names DEF Counted
    <2>4. Typed'
        BY <1>1, <1>4, <2>1 DEF Typed, Model
    <2>. QED
        BY <2>2, <2>3, <2>4 DEF Inv
<1>. QED
    BY <1>3, <1>4 DEF chooseBurst

\* u is the user um with the action, the room and the request changed only.
SameSteps(u) ==
    DOMAIN u = UserFields /\ u.dwellSteps = um.dwellSteps /\ u.burstSteps = um.burstSteps
    /\ u.curState = um.curState

\* Taking an action, of either kind: it waits, for its own time or for an answer,
\* or is over at once.
LEMMA executesInv ==
    ASSUME Inv, executes, profile' = profile, SameSteps(um'), OneThread', at' \in {"rest", "acted"},
           \A e \in Events : On(e)' => e \in {"actionDelayTO", "actionQ"}
    PROVE  Inv'
<1>1. /\ Typed /\ OneThread /\ Counted
      /\ stay \in Stays /\ um.dwellSteps \in Nat /\ um.burstSteps \in Nat
      /\ stay' = [stay EXCEPT !.acts = @ + 1, !.done = @ + 1]
    BY DEF Inv, Typed, executes
<1>2. \/ Begun(stay, um.dwellSteps, um.burstSteps)
      \/ Chosen(stay, um.dwellSteps, um.burstSteps) /\ um.dwellSteps > 0 /\ um.burstSteps > 0
    BY <1>1 DEF executes, Counted
<1>3. stay' \in Stays /\ Acted(stay', um.dwellSteps, um.burstSteps) /\ stay'.acts <= stay'.dwell
    BY <1>1, <1>2, ActionTaken
<1>4. Counted'
    BY <1>3, Names DEF Counted, SameSteps
<1>5. Typed'
    BY <1>1, <1>3 DEF Typed, Model, SameSteps
<1>. QED
    BY <1>4, <1>5 DEF Inv

\* Taking an action of a generator.
LEMMA exeActionTgenInv == Inv /\ exeActionTgen => Inv'
<1>. SUFFICES ASSUME Inv, exeActionTgen PROVE Inv'
    OBVIOUS
<1>1. executes /\ profile' = profile /\ at # "rest" /\ OneThread /\ DOMAIN um = UserFields
    BY DEF exeActionTgen, executes, Inv, Typed
<1>2. PICK a \in nextByWt(um.nextAction, stateB.markov) :
         LET u == [um EXCEPT !.nextAction = a]
         IN IF um.nextAction \in noops
            THEN um' = [u EXCEPT !.w4 = TRUE] /\ at' = "acted" /\ pend' = pend
            ELSE um.nextAction \in DOMAIN stateB.actions /\ sends(u)
    BY DEF exeActionTgen
<1>. DEFINE u == [um EXCEPT !.nextAction = a]
<1>3. SameSteps(u)
    BY <1>1 DEF SameSteps, UserFields
<1>. HIDE DEF u
<1>4. SameSteps([u EXCEPT !.w4 = TRUE])
    BY <1>3 DEF SameSteps, UserFields
<1>5. CASE um' = [u EXCEPT !.w4 = TRUE] /\ at' = "acted" /\ pend' = pend
    <2>1. OneThread' /\ \A e \in Events : ~On(e)'
        BY <1>1, <1>5, GoesOn
    <2>. QED
        BY <1>1, <1>4, <1>5, <2>1, executesInv
<1>6. CASE sends(u)
    <2>1. /\ OneThread' /\ at' = "rest"
          /\ \A e \in Events : On(e)' => e = "actionQ"
        BY <1>1, <1>6, Sends
    <2>2. SameSteps(um')
        BY <1>4, <1>6 DEF sends
    <2>. QED
        BY <1>1, <2>1, <2>2, executesInv
<1>. QED
    BY <1>2, <1>5, <1>6 DEF u

\* Taking an action of an IRC user.
LEMMA exeActionIrcInv == Inv /\ exeActionIrc => Inv'
<1>. SUFFICES ASSUME Inv, exeActionIrc PROVE Inv'
    OBVIOUS
<1>1. executes /\ profile' = profile /\ at # "rest" /\ OneThread /\ DOMAIN um = UserFields
    BY DEF exeActionIrc, executes, Inv, Typed
<1>. DEFINE action == stateB.actions[um.nextAction]
<1>2. PICK a : exeActionIrcType([um EXCEPT !.nextAction = a], action)
    BY DEF exeActionIrc
<1>. DEFINE u == [um EXCEPT !.nextAction = a]
<1>3. SameSteps(u)
    BY <1>1 DEF SameSteps, UserFields
<1>. HIDE DEF u, action
<1>4. CASE SameSteps(um') /\ at' = "acted" /\ pend' = pend
    <2>1. OneThread' /\ \A e \in Events : ~On(e)'
        BY <1>1, <1>4, GoesOn
    <2>. QED
        BY <1>1, <1>4, <2>1, executesInv
<1>5. CASE um' = [u EXCEPT !.roomMap = strJn2natStr(action.rooms)] /\ at' = "acted" /\ pend' = pend
    <2>1. SameSteps(um')
        BY <1>3, <1>5 DEF SameSteps, UserFields
    <2>. QED
        BY <1>4, <1>5, <2>1
<1>6. CASE (\E room : um' = [u EXCEPT !.nextRoom = room]) /\ at' = "acted" /\ pend' = pend
    <2>1. SameSteps(um')
        BY <1>3, <1>6 DEF SameSteps, UserFields
    <2>. QED
        BY <1>4, <1>6, <2>1
<1>7. CASE (\E d : exeWait(d, "actionDelayTO")) /\ um' = u
    <2>1. /\ OneThread' /\ \A e \in Events : On(e)' => e = "actionDelayTO"
          /\ at' \in {"rest", "acted"}
        BY <1>1, <1>7, Waits, Names DEF exeWait, Timeouts
    <2>. QED
        BY <1>1, <1>3, <1>7, <2>1, executesInv
<1>8. CASE um' = u /\ at' = "acted" /\ pend' = pend
    BY <1>3, <1>4, <1>8
<1>9. CASE sends(u)
    <2>1. /\ OneThread' /\ at' = "rest"
          /\ \A e \in Events : On(e)' => e = "actionQ"
        BY <1>1, <1>9, Sends
    <2>2. SameSteps(um')
        BY <1>3, <1>9 DEF sends, SameSteps, UserFields
    <2>. QED
        BY <1>1, <2>1, <2>2, executesInv
<1>. QED
    <2>1. exeActionIrcType(u, action)
        BY <1>2 DEF u
    <2>2. action.type \in {"set_room_numbers", "select_room", "wait", "noop", "roommsg"}
        BY <2>1 DEF exeActionIrcType
    <2>. QED
        BY <2>1, <1>5, <1>6, <1>7, <1>8, <1>9 DEF exeActionIrcType

\* An action is over.
LEMMA rcvActRv2Inv == Inv /\ rcvActRv2 => Inv'
<1>. SUFFICES ASSUME Inv, rcvActRv2 PROVE Inv'
    OBVIOUS
<1>1. at = "acted" /\ profile' = profile /\ Typed /\ OneThread /\ Counted
    BY DEF Inv, rcvActRv2
<1>. DEFINE d == um.dwellSteps
            b == um.burstSteps
            u == [decrDwellSteps(um) EXCEPT !.modelSteps = @ - 1, !.w4 = FALSE]
<1>2. d \in Nat /\ b \in Nat /\ stay \in Stays /\ Acted(stay, d, b) /\ stay.acts <= stay.dwell
    BY <1>1 DEF Typed, Counted
<1>3. d > 0 /\ d - 1 \in Nat
    BY <1>2, ActionCounted
<1>4. /\ DOMAIN u = UserFields /\ u.dwellSteps = d - 1 /\ u.burstSteps = b
      /\ u.curState = um.curState
    BY <1>1, <1>3 DEF Typed, UserFields, decrDwellSteps
<1>. HIDE DEF u
<1>5. CASE at' = "rest" /\ UNCHANGED <<um, pend, stay>>
    <2>1. OneThread' /\ \A e \in Events : ~On(e)'
        BY <1>1, <1>5, GoesOn
    <2>2. Counted'
        BY <1>1, <1>5, <2>1, Names DEF Counted
    <2>3. Typed'
        BY <1>1, <1>5 DEF Typed, Model
    <2>. QED
        BY <2>1, <2>2, <2>3 DEF Inv
<1>6. ASSUME b > 0, um' = [u EXCEPT !.burstSteps = @ - 1],
             NEW w, exeWait(w, "burstDelayTO"),
             stay' = [stay EXCEPT !.waits = @ + 1]
      PROVE  Inv'
    <2>1. /\ stay' \in Stays /\ Chosen(stay', d - 1, b - 1)
          /\ stay'.acts <= stay'.dwell
        BY <1>2, <1>6, ActionCounted
    <2>2. /\ DOMAIN um' = UserFields /\ um'.dwellSteps = d - 1 /\ um'.burstSteps = b - 1
          /\ um'.curState = um.curState
        BY <1>4, <1>6 DEF UserFields
    <2>3. /\ OneThread' /\ \A e \in Events : On(e)' => e = "burstDelayTO"
          /\ at' \in {"rest", "timeout"}
        BY <1>1, <1>6, Waits, Names DEF exeWait, Timeouts
    <2>4. Counted'
        BY <2>1, <2>2, <2>3, Names DEF Counted
    <2>5. Typed'
        <3>1. b - 1 \in Nat
            BY <1>2, <1>6
        <3>. QED
            BY <1>1, <1>3, <2>1, <2>2, <3>1 DEF Typed, Model
    <2>. QED
        BY <2>3, <2>4, <2>5 DEF Inv
<1>7. CASE b = 0 /\ um' = u /\ at' = "timeout" /\ UNCHANGED <<pend, stay>>
    <2>1. Chosen(stay, d - 1, 0)
        BY <1>2, <1>7, ActionCounted
    <2>2. OneThread' /\ \A e \in Events : ~On(e)'
        BY <1>1, <1>7, GoesOn
    <2>3. Counted'
        BY <1>2, <1>4, <1>7, <2>1, <2>2, Names DEF Counted
    <2>4. Typed'
        BY <1>1, <1>2, <1>3, <1>4, <1>7 DEF Typed, Model
    <2>. QED
        BY <2>2, <2>3, <2>4 DEF Inv
<1>. QED
    BY <1>5, <1>6, <1>7 DEF rcvActRv2, u

\* A timer fires: the wait is over where it began.
LEMMA umv2RcvTimeoutInv == Inv /\ umv2RcvTimeout => Inv'
<1>. SUFFICES ASSUME Inv, umv2RcvTimeout PROVE Inv'
    OBVIOUS
<1>1. /\ at = "rest" /\ UNCHANGED <<profile, um, stay>> /\ Typed /\ OneThread /\ Counted
    BY DEF Inv, umv2RcvTimeout
<1>2. PICK t \in Timeouts \cap DOMAIN pend :
         /\ pend' = BagRemove(pend, t)
         /\ at' = IF late \/ um.modelSteps <= 1 THEN "rest" ELSE resumeWaitV2(t)
    BY DEF umv2RcvTimeout
<1>3. On(t) /\ pend' = EmptyBag
    BY <1>1, <1>2, Comes
<1>4. at' \in {"rest", "timeout", "exec", "acted"}
    BY <1>2 DEF resumeWaitV2, Timeouts
<1>5. OneThread' /\ \A e \in Events : ~On(e)'
    BY <1>3, <1>4, OneEvent DEF OneThread, On
<1>6. Counted'
    <2>1. at' # "rest" => at' = resumeWaitV2(t)
        BY <1>2
    <2>2. t \in {"burstDelayTO", "burstReadyTO", "actionDelayTO"}
        BY <1>2 DEF Timeouts
    <2>. QED
        BY <1>1, <1>3, <1>5, <2>1, <2>2, Names DEF Counted
<1>7. Typed'
    BY <1>1 DEF Typed, Model
<1>. QED
    BY <1>5, <1>6, <1>7 DEF Inv

\* An answer comes.
LEMMA umv2RcvActionRInv == Inv /\ umv2RcvActionR => Inv'
<1>. SUFFICES ASSUME Inv, umv2RcvActionR PROVE Inv'
    OBVIOUS
<1>1. /\ at = "rest" /\ UNCHANGED <<profile, um, stay>> /\ Typed /\ OneThread /\ Counted
      /\ "actionR" \in DOMAIN pend /\ pend' = BagRemove(pend, "actionR") /\ at' \in {"rest", "acted"}
    BY DEF Inv, umv2RcvActionR
<1>2. On("actionR") /\ pend' = EmptyBag
    BY <1>1, Comes
<1>3. OneThread' /\ \A e \in Events : ~On(e)'
    BY <1>1, <1>2, OneEvent DEF OneThread, On
<1>4. Counted'
    BY <1>1, <1>2, <1>3, Names DEF Counted
<1>5. Typed'
    BY <1>1 DEF Typed, Model
<1>. QED
    BY <1>3, <1>4, <1>5 DEF Inv

\* The client answers.
LEMMA ClientAnswersInv == Inv /\ ClientAnswers => Inv'
<1>. SUFFICES ASSUME Inv, ClientAnswers PROVE Inv'
    OBVIOUS
<1>1. /\ at = "rest" /\ UNCHANGED <<profile, um, at, stay>> /\ Typed /\ OneThread /\ Counted
      /\ "actionQ" \in DOMAIN pend /\ pend' = BagAdd(BagRemove(pend, "actionQ"), "actionR")
    BY DEF Inv, ClientAnswers
<1>2. On("actionQ") /\ BagRemove(pend, "actionQ") = EmptyBag
    BY <1>1, Comes
<1>3. On("actionR")' /\ \A e \in Events : On(e)' => e = "actionR"
    <2>1. pend' = SetToBag({"actionR"}) /\ at' = "rest"
        BY <1>1, <1>2, OneEvent
    <2>. QED
        BY <2>1, OneEvent DEF On
<1>4. OneThread'
    BY <1>3, Names DEF OneThread
<1>5. Counted'
    BY <1>1, <1>2, <1>3, Names DEF Counted
<1>6. Typed'
    BY <1>1 DEF Typed, Model
<1>. QED
    BY <1>4, <1>5, <1>6 DEF Inv

\* Every step keeps the invariant; the clock disturbs none of it.
LEMMA NextInv == Inv /\ [Next]_vars => Inv'
<1>. SUFFICES ASSUME Inv, [Next]_vars PROVE Inv'
    OBVIOUS
<1>1. CASE UNCHANGED <<profile, um, at, pend, stay>>
    BY <1>1 DEF Inv, Typed, OneThread, Counted, Chosen, Begun, Acted, On, Model
<1>2. CASE StopTimePasses
    BY <1>1, <1>2 DEF StopTimePasses
<1>3. CASE UNCHANGED vars \/ Over
    BY <1>1, <1>3 DEF vars, Over
<1>. QED
    BY <1>2, <1>3, initModeInv, chooseBurstInv, exeActionTgenInv, exeActionIrcInv, rcvActRv2Inv,
       umv2RcvTimeoutInv, umv2RcvActionRInv, ClientAnswersInv DEF Next, Reduce

\* So the invariant holds.
LEMMA Invariant == Spec => []Inv
BY InitInv, NextInv, PTL DEF Spec

-----------------------------------------------------------------------------
(* The walk goes on. *)

\* The next mode and the next action are there, the user waits for no answer when
\* it takes an action, and when nothing will wake it, it is finished.
Walk ==
    /\ um.nextMode \in DOMAIN Model.states
    /\ um.dwellSteps > 0 => um.nextAction \in DOMAIN stateB.markov
    /\ at \in {"timeout", "exec"} \/ On("burstDelayTO") \/ On("burstReadyTO") => um.w4 = FALSE
    /\ at = "rest" => Finished \/ \E e \in Events : On(e)

\* The mode the user is in, and the one it enters next, can be walked.
LEMMA ModesRun ==
    ASSUME Typed
    PROVE  /\ um.dwellSteps > 0 => RunnableBlock(stateB, isIrc)
           /\ um.nextMode \in DOMAIN Model.states =>
                /\ RunnableBlock(Model.states[um.nextMode], isIrc)
                /\ nextModes(um.nextMode) # {} /\ nextModes(um.nextMode) \subseteq DOMAIN Model.states
<1>1. profile \in DOMAIN Profiles /\ (um.dwellSteps > 0 => um.curState \in DOMAIN Model.states)
    BY DEF Typed
<1>2. \A m \in DOMAIN Model.states :
        /\ RunnableBlock(Model.states[m], isIrc)
        /\ nextModes(m) # {} /\ nextModes(m) \subseteq DOMAIN Model.states
    BY <1>1, ModelRuns DEF Model, isIrc, nextModes
<1>. QED
    BY <1>1, <1>2 DEF stateB

\* After a wait for a float there is a timer, or the reduction goes on.
LEMMA FloatsWake ==
    ASSUME OneThread, at # "rest", NEW d, d.jv = "jf", NEW t \in Timeouts, exeWait(d, t)
    PROVE  at' = "rest" => On(t)' /\ t \in Events
<1>1. pend = EmptyBag
    BY DEF OneThread, On
<1>2. at' # "rest" \/ (at' = "rest" /\ pend' = BagAdd(pend, t))
    BY DEF exeWait, resumeWaitV2, Timeouts
<1>. QED
    BY <1>1, <1>2, OneEvent DEF On, Events

\* Initially the burst timer will wake the user.
LEMMA InitWalk == Init => Walk
<1>. SUFFICES ASSUME Init PROVE Walk
    OBVIOUS
<1>1. /\ profile \in DOMAIN Profiles /\ at = "rest" /\ On("burstDelayTO")
      /\ um.dwellSteps = 0 /\ um.nextMode = getInitialState(Model.params) /\ um.w4 = FALSE
    BY DEF Init, On, mkUMV2Actor
<1>2. um.nextMode \in DOMAIN Model.states
    BY <1>1, ModelRuns DEF Model
<1>. QED
    BY <1>1, <1>2, Names DEF Walk

\* The mode that is entered has a first action, and one that follows it.
LEMMA initModeWalk == Inv /\ Inv' /\ Walk /\ initMode => Walk'
<1>. SUFFICES ASSUME Inv, Inv', Walk, initMode PROVE Walk'
    OBVIOUS
<1>1. /\ at = "timeout" /\ profile' = profile /\ um.nextMode \in DOMAIN Model.states
      /\ Typed /\ DOMAIN um = UserFields /\ um.w4 = FALSE
    BY DEF Inv, Typed, Walk, initMode
<1>2. PICK m \in nextModes(um.nextMode), n \in Nat :
            /\ um' = [um EXCEPT !.curState = um.nextMode, !.nextMode = m,
                                !.dwellSteps = n, !.burstSteps = 0,
                                !.nextAction = getInitialAction(Model.states[um.nextMode])]
            /\ at' = "timeout"
    BY <1>1, ModelSteps, Steps DEF initMode, Typed, Model
<1>3. /\ um'.curState = um.nextMode /\ um'.nextMode = m /\ um'.w4 = um.w4
      /\ um'.nextAction = getInitialAction(Model.states[um.nextMode])
    BY <1>1, <1>2 DEF UserFields
<1>4. RunnableBlock(Model.states[um.nextMode], isIrc) /\ m \in DOMAIN Model.states
    BY <1>1, <1>2, ModesRun
<1>5. Model' = Model
    BY <1>1 DEF Model
<1>6. um'.nextAction \in DOMAIN stateB'.markov
    BY <1>3, <1>4, <1>5 DEF stateB, RunnableBlock
<1>. QED
    BY <1>1, <1>2, <1>3, <1>4, <1>5, <1>6 DEF Walk

\* u is the user um, in the same mode and with the same action to take.
SameWalk(u) ==
    /\ DOMAIN u = UserFields /\ u.nextMode = um.nextMode /\ u.curState = um.curState
    /\ u.nextAction = um.nextAction

\* A pause is over before the burst begins, or there is a timer.
LEMMA chooseBurstWalk == Inv /\ Inv' /\ Walk /\ chooseBurst => Walk'
<1>. SUFFICES ASSUME Inv, Inv', Walk, chooseBurst PROVE Walk'
    OBVIOUS
<1>1. /\ at = "timeout" /\ profile' = profile /\ late' = late /\ um.dwellSteps > 0
      /\ Typed /\ OneThread /\ DOMAIN um = UserFields /\ um.w4 = FALSE
    BY DEF Inv, Typed, Walk, chooseBurst
<1>2. Model' = Model /\ RunnableBlock(stateB, isIrc)
    BY <1>1, ModesRun DEF Model
<1>3. SameWalk(um') /\ um'.w4 = um.w4 /\ um'.dwellSteps = um.dwellSteps
    BY <1>1 DEF chooseBurst, SameWalk, UserFields
<1>4. at' = "rest" => \E e \in Events : On(e)'
    <2>1. CASE at' = "exec"
        BY <2>1
    <2>2. ASSUME NEW d \in realizeParam(stateB.inter_burst_delay), exeWait(d, "burstReadyTO")
          PROVE  at' = "rest" => \E e \in Events : On(e)'
        <3>1. d.jv = "jf"
            BY <1>2, <2>2 DEF RunnableBlock, DistKeys
        <3>. QED
            BY <1>1, <2>2, <3>1, FloatsWake DEF Timeouts
    <2>. QED
        BY <2>1, <2>2 DEF chooseBurst
<1>. QED
    BY <1>1, <1>2, <1>3, <1>4 DEF Walk, SameWalk, stateB

\* The action leads to another of the mode, and ends or waits for its timer or answer.
LEMMA executesWalk ==
    ASSUME Inv, Walk, executes, profile' = profile, SameSteps(um'), um'.nextMode = um.nextMode,
           um'.nextAction \in nextByWt(um.nextAction, stateB.markov), OneThread',
           at' = "acted" \/ On("actionDelayTO")' \/ On("actionQ")'
    PROVE  Walk'
<1>1. Typed /\ OneThread /\ Counted /\ um.dwellSteps \in Nat /\ at \in {"exec", "timeout"}
    BY DEF Inv, executes, Typed
<1>2. um.dwellSteps > 0
    BY <1>1 DEF executes, Counted, Begun
<1>3. Model' = Model /\ stateB' = stateB /\ RunnableBlock(stateB, isIrc)
    BY <1>1, <1>2, ModesRun DEF Model, stateB, SameSteps
<1>4. um'.nextAction \in DOMAIN stateB.markov
    BY <1>2, <1>3 DEF Walk, RunnableBlock, nextByWt
<1>5. at' \notin {"timeout", "exec"} /\ ~On("burstDelayTO")' /\ ~On("burstReadyTO")'
    BY OneEvent DEF On
<1>6. at' = "rest" => \E e \in Events : On(e)'
    BY Names
<1>. QED
    BY <1>3, <1>4, <1>5, <1>6 DEF Walk

\* Taking an action of a generator.
LEMMA exeActionTgenWalk == Inv /\ Inv' /\ Walk /\ exeActionTgen => Walk'
<1>. SUFFICES ASSUME Inv, Inv', Walk, exeActionTgen PROVE Walk'
    OBVIOUS
<1>1. executes /\ profile' = profile /\ at # "rest" /\ OneThread /\ OneThread' /\ DOMAIN um = UserFields
    BY DEF exeActionTgen, executes, Inv, Typed
<1>2. PICK a \in nextByWt(um.nextAction, stateB.markov) :
         LET u == [um EXCEPT !.nextAction = a]
         IN IF um.nextAction \in noops
            THEN um' = [u EXCEPT !.w4 = TRUE] /\ at' = "acted" /\ pend' = pend
            ELSE um.nextAction \in DOMAIN stateB.actions /\ sends(u)
    BY DEF exeActionTgen
<1>. DEFINE u == [um EXCEPT !.nextAction = a]
<1>3. DOMAIN u = UserFields /\ SameSteps(u) /\ u.nextMode = um.nextMode /\ u.nextAction = a
    BY <1>1 DEF SameSteps, UserFields
<1>4. um' = [u EXCEPT !.w4 = TRUE] /\ (at' = "acted" \/ sends(u))
    BY <1>2 DEF sends
<1>. HIDE DEF u
<1>5. SameSteps(um') /\ um'.nextMode = um.nextMode /\ um'.nextAction = a
    BY <1>3, <1>4 DEF SameSteps, UserFields
<1>6. at' = "acted" \/ On("actionQ")'
    <2>. SUFFICES ASSUME sends(u) PROVE On("actionQ")'
        BY <1>4
    <2>1. pend = EmptyBag
        BY <1>1 DEF OneThread, On
    <2>. QED
        BY <2>1, OneEvent DEF sends, On
<1>. QED
    BY <1>1, <1>2, <1>5, <1>6, executesWalk

\* Taking an action of an IRC user.
LEMMA exeActionIrcWalk == Inv /\ Inv' /\ Walk /\ exeActionIrc => Walk'
<1>. SUFFICES ASSUME Inv, Inv', Walk, exeActionIrc PROVE Walk'
    OBVIOUS
<1>1. /\ executes /\ profile' = profile /\ at # "rest" /\ OneThread /\ OneThread'
      /\ DOMAIN um = UserFields /\ Typed /\ Counted /\ um.dwellSteps \in Nat /\ isIrc
    BY DEF exeActionIrc, executes, Inv, Typed
<1>. DEFINE action == stateB.actions[um.nextAction]
<1>2. PICK a \in nextByWt(um.nextAction, stateB.markov) :
          exeActionIrcType([um EXCEPT !.nextAction = a], action)
    BY DEF exeActionIrc
<1>3. MatchedAction(action)
    <2>1. um.dwellSteps > 0
        BY <1>1 DEF executes, Counted, Begun
    <2>2. RunnableBlock(stateB, isIrc) /\ um.nextAction \in DOMAIN stateB.markov
        BY <1>1, <2>1, ModesRun DEF Walk
    <2>. QED
        BY <1>1, <2>2 DEF RunnableBlock
<1>. DEFINE u == [um EXCEPT !.nextAction = a]
<1>4. DOMAIN u = UserFields /\ SameSteps(u) /\ u.nextMode = um.nextMode /\ u.nextAction = a
    BY <1>1 DEF SameSteps, UserFields
<1>. HIDE DEF u, action
<1>5. /\ SameSteps(um') /\ um'.nextMode = um.nextMode /\ um'.nextAction = a
      /\ at' = "acted" \/ On("actionDelayTO")' \/ On("actionQ")'
    <2>0. exeActionIrcType(u, action)
        BY <1>2 DEF u
    <2>1. CASE action.type = "set_room_numbers"
        BY <1>4, <2>0, <2>1 DEF exeActionIrcType, SameSteps, UserFields
    <2>2. CASE action.type = "select_room"
        BY <1>4, <2>0, <2>2 DEF exeActionIrcType, SameSteps, UserFields
    <2>3. CASE action.type = "wait"
        <3>1. PICK d \in realizeParam(action.sleep) : exeWait(d, "actionDelayTO")
            BY <2>0, <2>3 DEF exeActionIrcType
        <3>2. d.jv = "jf"
            BY <1>3, <2>3, <3>1 DEF MatchedAction
        <3>3. at' \in {"acted", "rest"}
            BY <3>1 DEF exeWait, resumeWaitV2
        <3>4. at' = "rest" => On("actionDelayTO")'
            BY <1>1, <3>1, <3>2, FloatsWake DEF Timeouts
        <3>5. um' = u
            BY <2>0, <2>3 DEF exeActionIrcType
        <3>. QED
            BY <1>4, <3>3, <3>4, <3>5
    <2>4. CASE action.type = "noop"
        BY <1>4, <2>0, <2>4 DEF exeActionIrcType
    <2>5. CASE action.type = "roommsg"
        <3>1. sends(u)
            BY <2>0, <2>5 DEF exeActionIrcType
        <3>2. pend = EmptyBag
            BY <1>1 DEF OneThread, On
        <3>3. On("actionQ")'
            BY <3>1, <3>2, OneEvent DEF sends, On
        <3>. QED
            BY <1>4, <3>1, <3>3 DEF sends, SameSteps, UserFields
    <2>. QED
        BY <1>3, <2>1, <2>2, <2>3, <2>4, <2>5 DEF MatchedAction
<1>. QED
    BY <1>1, <1>2, <1>5, executesWalk

\* When an action is over the user is finished, pauses or goes on.
LEMMA rcvActRv2Walk == Inv /\ Inv' /\ Walk /\ rcvActRv2 => Walk'
<1>. SUFFICES ASSUME Inv, Inv', Walk, rcvActRv2 PROVE Walk'
    OBVIOUS
<1>1. /\ at = "acted" /\ profile' = profile /\ late' = late /\ Typed /\ OneThread /\ Counted
      /\ DOMAIN um = UserFields /\ um.dwellSteps \in Nat /\ um.dwellSteps > 0 /\ Model' = Model
    BY DEF Inv, Typed, Counted, Acted, rcvActRv2, Model
<1>2. RunnableBlock(stateB, isIrc)
    BY <1>1, ModesRun
<1>. DEFINE u == [decrDwellSteps(um) EXCEPT !.modelSteps = @ - 1, !.w4 = FALSE]
<1>3. CASE um.modelSteps <= 1 /\ at' = "rest" /\ UNCHANGED <<um, pend, stay>>
    <2>1. Finished'
        BY <1>3 DEF Finished
    <2>2. ~On("burstDelayTO")' /\ ~On("burstReadyTO")'
        BY <1>1, <1>3, OneEvent DEF OneThread, On
    <2>. QED
        BY <1>1, <1>3, <2>1, <2>2 DEF Walk, stateB
<1>4. SameWalk(u) /\ u.w4 = FALSE
    BY <1>1 DEF decrDwellSteps, SameWalk, UserFields
<1>5. ASSUME SameWalk(um'), um'.w4 = FALSE, at' = "rest" => \E e \in Events : On(e)'
      PROVE  Walk'
    BY <1>1, <1>5 DEF Walk, SameWalk, stateB
<1>. HIDE DEF u
<1>6. ASSUME NEW d \in realizeParam(stateB.intra_burst_delay), exeWait(d, "burstDelayTO"),
             um' = [u EXCEPT !.burstSteps = @ - 1]
      PROVE  Walk'
    <2>1. d.jv = "jf"
        BY <1>2, <1>6 DEF RunnableBlock, DistKeys
    <2>2. at' = "rest" => \E e \in Events : On(e)'
        BY <1>1, <1>6, <2>1, FloatsWake DEF Timeouts
    <2>3. SameWalk(um') /\ um'.w4 = FALSE
        BY <1>4, <1>6 DEF SameWalk, UserFields
    <2>. QED
        BY <1>5, <2>2, <2>3
<1>7. CASE um' = u /\ at' = "timeout"
    BY <1>4, <1>5, <1>7
<1>. QED
    BY <1>3, <1>6, <1>7 DEF rcvActRv2, u

\* A rule that wakes the user goes on where the wait began, unless it is finished.
LEMMA WakesWalk ==
    ASSUME Inv, Walk, umv2RcvTimeout \/ umv2RcvActionR \/ ClientAnswers
    PROVE  Walk'
<1>1. /\ at = "rest" /\ UNCHANGED <<profile, um, late>> /\ Model' = Model /\ stateB' = stateB
      /\ OneThread /\ Finished' = Finished
    BY DEF Inv, umv2RcvTimeout, umv2RcvActionR, ClientAnswers, Model, stateB, Finished
<1>2. CASE umv2RcvTimeout
    <2>1. PICK t \in Timeouts \cap DOMAIN pend :
             /\ pend' = BagRemove(pend, t)
             /\ at' = IF late \/ um.modelSteps <= 1 THEN "rest" ELSE resumeWaitV2(t)
        BY <1>2 DEF umv2RcvTimeout
    <2>2. On(t) /\ pend' = EmptyBag
        BY <1>1, <2>1, Comes
    <2>3. \A e \in Events : ~On(e)'
        BY <2>2, OneEvent DEF On
    <2>4. at' = "rest" => Finished
        BY <2>1 DEF resumeWaitV2, Timeouts, Finished
    <2>5. at' \in {"timeout", "exec"} => um.w4 = FALSE
        BY <2>1, <2>2 DEF Walk, resumeWaitV2, Timeouts
    <2>. QED
        BY <1>1, <2>3, <2>4, <2>5, Names DEF Walk
<1>3. CASE umv2RcvActionR
    <2>1. pend' = EmptyBag
        BY <1>1, <1>3, Comes DEF umv2RcvActionR
    <2>2. \A e \in Events : ~On(e)'
        BY <2>1, OneEvent DEF On
    <2>3. at' = "acted" \/ (at' = "rest" /\ Finished)
        BY <1>3 DEF umv2RcvActionR, Finished
    <2>. QED
        BY <1>1, <2>2, <2>3, Names DEF Walk
<1>4. CASE ClientAnswers
    <2>1. BagRemove(pend, "actionQ") = EmptyBag
        BY <1>1, <1>4, Comes DEF ClientAnswers
    <2>2. On("actionR")'
        BY <1>4, <2>1, OneEvent DEF ClientAnswers, On
    <2>3. at' = "rest" /\ ~On("burstDelayTO")' /\ ~On("burstReadyTO")'
        BY <2>2, OneEvent DEF On
    <2>. QED
        BY <1>1, <2>2, <2>3, Names DEF Walk
<1>. QED
    BY <1>2, <1>3, <1>4

\* Every step keeps the walk going.
LEMMA NextWalk == Inv /\ Inv' /\ Walk /\ [Next]_vars => Walk'
<1>. SUFFICES ASSUME Inv, Inv', Walk, [Next]_vars PROVE Walk'
    OBVIOUS
<1>1. CASE UNCHANGED <<profile, um, at, pend>> /\ (late' = TRUE \/ late' = late)
    <2>1. Finished => Finished'
        BY <1>1 DEF Finished
    <2>. QED
        BY <1>1, <2>1 DEF Walk, On, Model, stateB
<1>2. CASE StopTimePasses \/ Over \/ UNCHANGED vars
    BY <1>1, <1>2 DEF StopTimePasses, Over, vars
<1>. QED
    BY <1>2, initModeWalk, chooseBurstWalk, exeActionTgenWalk, exeActionIrcWalk, rcvActRv2Walk,
       WakesWalk DEF Next, Reduce

\* So the walk always goes on.
LEMMA WalkInvariant == Spec => []Walk
BY Invariant, InitWalk, NextWalk, PTL DEF Spec

-----------------------------------------------------------------------------
(* The rooms of an IRC user. *)

InitialMode == getInitialState(Model.params)
FirstAct == getInitialAction(Model.states[InitialMode])
RoomNumbers == Model.states[InitialMode].actions[FirstAct].rooms

\* The rooms have been numbered and joined.
Numbered == um.roomMap = strJn2natStr(RoomNumbers) /\ DOMAIN RoomNumbers \subseteq joined

\* The walk has not begun; it is about to number the rooms; it is about to choose one
\* in the same mode; or it has chosen one, and only from then on does it speak.
NotBegun == um.dwellSteps = 0 /\ um.nextMode = InitialMode

Numbering ==
    /\ um.curState = InitialMode /\ um.nextAction = FirstAct
    /\ stay.acts = 0 /\ stay.dwell >= 2

Choosing ==
    /\ Numbered
    /\ um.curState = InitialMode /\ Model.states[InitialMode].actions[um.nextAction].type = "select_room"
    /\ stay.acts = 1 /\ stay.dwell >= 2

RoomChosen == Numbered /\ um.nextRoom \in DOMAIN RoomNumbers

RoomKnown ==
    isIrc => \/ ~On("actionQ") /\ (NotBegun \/ Numbering \/ Choosing)
             \/ RoomChosen

\* A number of a room means that room.
LEMMA RoomOfNumber ==
    ASSUME NEW rooms, NEW n, \E r \in DOMAIN rooms : rooms[r] = n
    PROVE  n \in DOMAIN strJn2natStr(rooms) /\ strJn2natStr(rooms)[n] \in DOMAIN rooms
<1>1. n \in {rooms[r] : r \in DOMAIN rooms}
    OBVIOUS
<1>2. (CHOOSE r \in DOMAIN rooms : rooms[r] = n) \in DOMAIN rooms
    OBVIOUS
<1>. QED
    BY <1>1, <1>2 DEF strJn2natStr

\* What the profile of an IRC user says of its first mode and of every action.
LEMMA RoomsFirst ==
    ASSUME profile \in DOMAIN Profiles, isIrc
    PROVE  /\ Model.states[InitialMode].actions[FirstAct].type = "set_room_numbers"
           /\ \A a \in DOMAIN Model.states[InitialMode].markov : \A b \in Model.states[InitialMode].markov[a] :
                Model.states[InitialMode].actions[b].type = "select_room"
           /\ \A d \in realizeParam(Model.states[InitialMode].dwell_steps) : jv2nat(d) >= 2
           /\ \A m \in DOMAIN Model.states : \A a \in DOMAIN Model.states[m].actions :
                /\ Model.states[m].actions[a].type = "set_room_numbers" => m = InitialMode /\ a = FirstAct
                /\ Model.states[m].actions[a].type = "select_room" =>
                     \A c \in realizeParam(Model.states[m].actions[a].choice) :
                         \E r \in DOMAIN RoomNumbers : RoomNumbers[r] = jv2nat(c)
BY RoomsAssumption DEF NumbersRoomsFirst, Model, isIrc, InitialMode, FirstAct, RoomNumbers

\* The same rooms throughout.
LEMMA SameRooms ==
    ASSUME profile' = profile
    PROVE  /\ Model' = Model /\ isIrc' = isIrc /\ InitialMode' = InitialMode /\ FirstAct' = FirstAct
           /\ RoomNumbers' = RoomNumbers
BY DEF Model, isIrc, InitialMode, FirstAct, RoomNumbers

\* A step that leaves the room, the action and the mode alone, and sends nothing.
LEMMA RoomKept ==
    ASSUME RoomKnown, profile' = profile, joined' = joined,
           um'.roomMap = um.roomMap, um'.nextRoom = um.nextRoom, um'.nextAction = um.nextAction,
           um'.curState = um.curState, um'.nextMode = um.nextMode,
           stay'.acts = stay.acts, stay'.dwell = stay.dwell,
           NotBegun /\ isIrc => um'.dwellSteps = 0, On("actionQ")' => RoomChosen
    PROVE  RoomKnown'
BY SameRooms DEF RoomKnown, NotBegun, Numbering, Choosing, RoomChosen, Numbered

\* Entering a mode: the first one numbers the rooms, and no other is entered before.
LEMMA initModeRooms == Inv /\ Inv' /\ Walk /\ RoomKnown /\ initMode => RoomKnown'
<1>. SUFFICES ASSUME Inv, Walk, RoomKnown, initMode, isIrc PROVE RoomKnown'
    BY SameRooms DEF RoomKnown, initMode
<1>1. /\ at = "timeout" /\ profile' = profile /\ joined' = joined /\ um.dwellSteps = 0
      /\ um.nextMode \in DOMAIN Model.states /\ Typed /\ DOMAIN um = UserFields
      /\ profile \in DOMAIN Profiles /\ Chosen(stay, 0, um.burstSteps) /\ stay \in Stays
    BY DEF Inv, Typed, Counted, Walk, initMode
<1>2. PICK m \in nextModes(um.nextMode), d \in realizeParam(Model.states[um.nextMode].dwell_steps) :
            /\ um' = [um EXCEPT !.curState = um.nextMode, !.nextMode = m,
                                !.dwellSteps = jv2nat(d), !.burstSteps = 0,
                                !.nextAction = getInitialAction(Model.states[um.nextMode])]
            /\ stay' = [dwell |-> jv2nat(d), acts |-> 0,
                        size |-> NoBurst, done |-> 0, waits |-> 0]
            /\ at' = "timeout"
    BY <1>1 DEF initMode
<1>3. /\ um'.curState = um.nextMode /\ um'.nextAction = getInitialAction(Model.states[um.nextMode])
      /\ um'.roomMap = um.roomMap /\ um'.nextRoom = um.nextRoom
      /\ stay'.acts = 0 /\ stay'.dwell = jv2nat(d)
    BY <1>1, <1>2 DEF UserFields
<1>4. stay.acts = stay.dwell
    BY <1>1 DEF Chosen, Stays
<1>5. NotBegun \/ RoomChosen
    BY <1>4 DEF RoomKnown, Numbering, Choosing
<1>6. CASE NotBegun
    <2>1. Numbering'
        BY <1>1, <1>2, <1>3, <1>6, RoomsFirst, SameRooms DEF NotBegun, Numbering, FirstAct
    <2>2. ~On("actionQ")'
        BY <1>2 DEF On
    <2>. QED
        BY <2>1, <2>2 DEF RoomKnown
<1>7. CASE RoomChosen
    BY <1>1, <1>3, <1>7, SameRooms DEF RoomKnown, RoomChosen, Numbered
<1>. QED
    BY <1>5, <1>6, <1>7

\* Choosing a burst leaves the room alone.
LEMMA chooseBurstRooms == Inv /\ Inv' /\ Walk /\ RoomKnown /\ chooseBurst => RoomKnown'
<1>. SUFFICES ASSUME Inv, RoomKnown, chooseBurst PROVE RoomKnown'
    OBVIOUS
<1>1. /\ at = "timeout" /\ profile' = profile /\ joined' = joined /\ um.dwellSteps > 0
      /\ OneThread /\ DOMAIN um = UserFields /\ stay \in Stays
    BY DEF Inv, Typed, chooseBurst
<1>2. /\ um'.roomMap = um.roomMap /\ um'.nextRoom = um.nextRoom /\ um'.nextAction = um.nextAction
      /\ um'.curState = um.curState /\ um'.nextMode = um.nextMode
    BY <1>1 DEF chooseBurst, UserFields
<1>3. stay'.acts = stay.acts /\ stay'.dwell = stay.dwell
    BY <1>1 DEF chooseBurst, Stays
<1>4. ~On("actionQ")'
    <2>1. CASE at' = "exec"
        BY <2>1 DEF On
    <2>2. ASSUME NEW d, exeWait(d, "burstReadyTO")
          PROVE  ~On("actionQ")'
        BY <1>1, <2>2, Waits, Names DEF Timeouts
    <2>. QED
        BY <2>1, <2>2 DEF chooseBurst
<1>. QED
    BY <1>1, <1>2, <1>3, <1>4, RoomKept DEF NotBegun

\* The first action numbers the rooms, the second chooses one; none undoes it.
LEMMA exeActionIrcRooms == Inv /\ Inv' /\ Walk /\ RoomKnown /\ exeActionIrc => RoomKnown'
<1>. SUFFICES ASSUME Inv, Inv', Walk, RoomKnown, exeActionIrc PROVE RoomKnown'
    OBVIOUS
<1>1. /\ executes /\ profile' = profile /\ at # "rest" /\ isIrc /\ profile \in DOMAIN Profiles
      /\ DOMAIN um = UserFields /\ Typed /\ OneThread /\ Counted /\ um.dwellSteps \in Nat /\ stay \in Stays
      /\ um.nextAction \in DOMAIN stateB.actions
    BY DEF exeActionIrc, executes, Inv, Typed
<1>2. um.dwellSteps > 0 /\ um.nextAction \in DOMAIN stateB.markov /\ um.curState \in DOMAIN Model.states
    BY <1>1 DEF executes, Counted, Begun, Typed, Walk
<1>. DEFINE action == stateB.actions[um.nextAction]
<1>3. PICK a \in nextByWt(um.nextAction, stateB.markov) :
          exeActionIrcType([um EXCEPT !.nextAction = a], action)
    BY DEF exeActionIrc
<1>4. a \in stateB.markov[um.nextAction]
    BY <1>2 DEF nextByWt
<1>. DEFINE u == [um EXCEPT !.nextAction = a]
<1>5. /\ DOMAIN u = UserFields /\ u.nextAction = a /\ u.curState = um.curState
      /\ u.roomMap = um.roomMap /\ u.nextRoom = um.nextRoom
    BY <1>1 DEF UserFields
<1>6. exeActionIrcType(u, action)
    BY <1>3
<1>. HIDE DEF u
<1>7. stay'.acts = stay.acts + 1 /\ stay'.dwell = stay.dwell /\ stay.acts \in Nat
    BY <1>1 DEF executes, Stays
<1>8. action.type = "set_room_numbers" => um.curState = InitialMode /\ um.nextAction = FirstAct
    BY <1>1, <1>2, RoomsFirst DEF stateB
<1>. DEFINE number == action.type = "set_room_numbers"
            choose == action.type = "select_room"
<1>9. ASSUME number
      PROVE  Numbered' /\ um'.nextRoom = um.nextRoom /\ um'.nextAction = a /\ um'.curState = um.curState /\ at' = "acted"
    <2>1. /\ um' = [u EXCEPT !.roomMap = strJn2natStr(action.rooms)]
          /\ joined' = joined \cup DOMAIN action.rooms /\ at' = "acted"
        BY <1>6, <1>9 DEF exeActionIrcType
    <2>2. action.rooms = RoomNumbers
        BY <1>8, <1>9 DEF RoomNumbers, stateB
    <2>3. /\ um'.roomMap = strJn2natStr(RoomNumbers) /\ um'.nextRoom = um.nextRoom
          /\ um'.nextAction = a /\ um'.curState = um.curState
        BY <1>5, <2>1, <2>2 DEF UserFields
    <2>4. RoomNumbers' = RoomNumbers
        BY <1>1, SameRooms
    <2>. QED
        BY <2>1, <2>2, <2>3, <2>4 DEF Numbered
<1>10. ASSUME choose, Numbered
       PROVE  RoomChosen'
    <2>1. PICK c \in realizeParam(action.choice) :
            um' = [u EXCEPT !.nextRoom = IF jv2nat(c) \in DOMAIN u.roomMap
                                         THEN u.roomMap[jv2nat(c)] ELSE "#chat"]
        BY <1>6, <1>10 DEF exeActionIrcType
    <2>2. joined' = joined
        BY <1>6, <1>10 DEF exeActionIrcType
    <2>3. \E r \in DOMAIN RoomNumbers : RoomNumbers[r] = jv2nat(c)
        BY <1>1, <1>2, <1>10, <2>1, RoomsFirst DEF stateB
    <2>4. jv2nat(c) \in DOMAIN u.roomMap /\ u.roomMap[jv2nat(c)] \in DOMAIN RoomNumbers
        BY <1>5, <1>10, <2>3, RoomOfNumber DEF Numbered
    <2>5. um'.nextRoom \in DOMAIN RoomNumbers /\ um'.roomMap = um.roomMap
        BY <1>5, <2>1, <2>4 DEF UserFields
    <2>6. RoomNumbers' = RoomNumbers
        BY <1>1, SameRooms
    <2>. QED
        BY <1>10, <2>2, <2>5, <2>6 DEF RoomChosen, Numbered
<1>11. CASE Numbering
    <2>1. number
        BY <1>1, <1>11, RoomsFirst DEF Numbering, stateB
    <2>2. Model.states[InitialMode].actions[a].type = "select_room"
        BY <1>1, <1>2, <1>4, <1>11, RoomsFirst DEF Numbering, stateB
    <2>3. stay'.acts = 1 /\ stay'.dwell >= 2
        BY <1>7, <1>11 DEF Numbering
    <2>4. Choosing'
        BY <1>1, <1>9, <1>11, <2>1, <2>2, <2>3, SameRooms DEF Numbering, Choosing
    <2>5. ~On("actionQ")'
        BY <1>9, <2>1 DEF On
    <2>. QED
        BY <2>4, <2>5 DEF RoomKnown
<1>12. CASE Choosing
    <2>1. choose /\ Numbered
        BY <1>12 DEF Choosing, stateB
    <2>. QED
        BY <1>10, <2>1 DEF RoomKnown
<1>13. CASE RoomChosen
    <2>1. CASE number
        BY <1>1, <1>9, <1>13, <2>1, SameRooms DEF RoomChosen, RoomKnown
    <2>2. CASE choose
        BY <1>10, <1>13, <2>2 DEF RoomChosen, RoomKnown
    <2>3. CASE ~number /\ ~choose
        <3>1. joined' = joined /\ (um' = u \/ um' = [u EXCEPT !.w4 = TRUE])
            BY <1>6, <2>3 DEF exeActionIrcType, sends
        <3>2. um'.roomMap = um.roomMap /\ um'.nextRoom = um.nextRoom
            BY <1>5, <3>1 DEF UserFields
        <3>. QED
            BY <1>1, <1>13, <3>1, <3>2, SameRooms DEF RoomChosen, RoomKnown, Numbered
    <2>. QED
        BY <2>1, <2>2, <2>3
<1>14. ~NotBegun
    BY <1>2 DEF NotBegun
<1>. QED
    BY <1>1, <1>11, <1>12, <1>13, <1>14 DEF RoomKnown

\* Nor does counting an action.
LEMMA rcvActRv2Rooms == Inv /\ Inv' /\ Walk /\ RoomKnown /\ rcvActRv2 => RoomKnown'
<1>. SUFFICES ASSUME Inv, RoomKnown, rcvActRv2 PROVE RoomKnown'
    OBVIOUS
<1>1. /\ at = "acted" /\ profile' = profile /\ joined' = joined /\ OneThread
      /\ DOMAIN um = UserFields /\ stay \in Stays /\ um.dwellSteps > 0
    BY DEF Inv, Typed, Counted, Acted, rcvActRv2
<1>. DEFINE u == [decrDwellSteps(um) EXCEPT !.modelSteps = @ - 1, !.w4 = FALSE]
<1>2. /\ DOMAIN u = UserFields
      /\ u.roomMap = um.roomMap /\ u.nextRoom = um.nextRoom /\ u.nextAction = um.nextAction
      /\ u.curState = um.curState /\ u.nextMode = um.nextMode
    BY <1>1 DEF decrDwellSteps, UserFields
<1>3. um' = um \/ um' = u \/ um' = [u EXCEPT !.burstSteps = @ - 1]
    BY DEF rcvActRv2
<1>. HIDE DEF u
<1>4. /\ um'.roomMap = um.roomMap /\ um'.nextRoom = um.nextRoom /\ um'.nextAction = um.nextAction
      /\ um'.curState = um.curState /\ um'.nextMode = um.nextMode
    BY <1>2, <1>3 DEF UserFields
<1>5. stay'.acts = stay.acts /\ stay'.dwell = stay.dwell
    BY <1>1 DEF rcvActRv2, Stays
<1>6. ~On("actionQ")'
    <2>1. CASE at' \in {"rest", "timeout"} /\ pend' = pend
        BY <1>1, <2>1, GoesOn, Names
    <2>2. ASSUME NEW d, exeWait(d, "burstDelayTO")
          PROVE  ~On("actionQ")'
        BY <1>1, <2>2, Waits, Names DEF Timeouts
    <2>. QED
        BY <2>1, <2>2 DEF rcvActRv2
<1>. QED
    BY <1>1, <1>4, <1>5, <1>6, RoomKept DEF NotBegun

\* A request goes to a room that was chosen, and so does its answer.
LEMMA WakesRooms ==
    ASSUME Inv, RoomKnown, umv2RcvTimeout \/ umv2RcvActionR \/ ClientAnswers
    PROVE  RoomKnown'
<1>1. UNCHANGED <<profile, um, joined, stay>> /\ at = "rest" /\ OneThread
    BY DEF Inv, umv2RcvTimeout, umv2RcvActionR, ClientAnswers
<1>2. ~On("actionQ")'
    <2>1. CASE ClientAnswers
        <3>1. BagRemove(pend, "actionQ") = EmptyBag
            BY <1>1, <2>1, Comes DEF ClientAnswers
        <3>. QED
            BY <2>1, <3>1, OneEvent DEF ClientAnswers, On
    <2>2. CASE umv2RcvTimeout \/ umv2RcvActionR
        <3>1. pend' = EmptyBag
            BY <1>1, <2>2, Comes DEF umv2RcvTimeout, umv2RcvActionR
        <3>. QED
            BY <3>1, OneEvent DEF On
    <2>. QED
        BY <2>1, <2>2
<1>. QED
    BY <1>1, <1>2, RoomKept DEF NotBegun

\* Every step keeps the rooms known.
LEMMA NextRooms == Inv /\ Inv' /\ Walk /\ RoomKnown /\ [Next]_vars => RoomKnown'
<1>. SUFFICES ASSUME Inv, Inv', Walk, RoomKnown, [Next]_vars PROVE RoomKnown'
    OBVIOUS
<1>1. CASE StopTimePasses \/ Over \/ UNCHANGED vars
    <2>1. UNCHANGED <<profile, um, at, pend, joined, stay>>
        BY <1>1 DEF StopTimePasses, Over, vars
    <2>. QED
        BY <2>1 DEF RoomKnown, NotBegun, Numbering, Choosing, RoomChosen, Numbered, On,
                    Model, isIrc, InitialMode, FirstAct, RoomNumbers
<1>2. CASE exeActionTgen
    BY <1>2 DEF exeActionTgen, RoomKnown, isIrc
<1>. QED
    BY <1>1, <1>2, initModeRooms, chooseBurstRooms, exeActionIrcRooms, rcvActRv2Rooms, WakesRooms
    DEF Next, Reduce

\* So the rooms are always known.
LEMMA RoomsInvariant == Spec => []RoomKnown
<1>1. Init => RoomKnown
    <2>. SUFFICES ASSUME Init PROVE RoomKnown
        OBVIOUS
    <2>1. NotBegun
        BY DEF Init, NotBegun, mkUMV2Actor, InitialMode
    <2>2. ~On("actionQ")
        BY OneEvent DEF Init, On
    <2>. QED
        BY <2>1, <2>2 DEF RoomKnown
<1>. QED
    BY <1>1, Invariant, WalkInvariant, NextRooms, PTL DEF Spec

-----------------------------------------------------------------------------
(* The theorems. *)

\* The user lives on one thing at a time, the part of NeverStuck that is no matter of
\* the profile: never are two timers, requests or answers of its walk under way, nor
\* one during a reduction.
THEOREM OneAtATime == Spec => []OneThread
<1>1. Inv => OneThread
    BY DEF Inv
<1>. QED
    BY <1>1, Invariant, PTL

\* A mode is left after exactly the actions drawn for it, and a burst after those
\* drawn for the burst unless the mode ends first (initMode, chooseBurst,
\* decrDwellSteps), whatever the profiles draw, zero steps included.
THEOREM AsLongAsDrawn == Spec => []StaysAndBursts
<1>1. Inv => StaysAndBursts
    <2>. SUFFICES ASSUME Inv PROVE StaysAndBursts
        OBVIOUS
    <2>1. /\ um.dwellSteps \in Nat /\ um.burstSteps \in Nat /\ stay \in Stays
          /\ stay.acts <= stay.dwell
          /\ at = "timeout" => Chosen(stay, um.dwellSteps, um.burstSteps)
        BY DEF Inv, Typed, Counted
    <2>2. stay.dwell \in Nat /\ stay.acts \in Nat /\ stay.size \in Int /\ stay.done \in Nat
        BY <2>1 DEF Stays
    <2>. QED
        BY <2>1, <2>2 DEF StaysAndBursts, Chosen
<1>. QED
    BY <1>1, Invariant, PTL

\* There is exactly one timer, request or answer that will wake a user that is not
\* finished: the converter makes every delay a float (_ensure_distribution_floats), the
\* one exeWait can wait for, and every mode drawn is one of the profile (nextByWt).
THEOREM UserNeverStuck == Spec => []NeverStuck
<1>1. Inv /\ Walk => NeverStuck
    <2>. SUFFICES ASSUME OneThread, Walk PROVE NeverStuck
        BY DEF Inv
    <2>1. at # "rest" => pend = EmptyBag
        BY DEF OneThread, On
    <2>2. at = "rest" => (Finished /\ pend = EmptyBag) \/ \E e \in Events : pend = SetToBag({e})
        BY DEF OneThread, On, Walk
    <2>. QED
        BY <2>1, <2>2 DEF NeverStuck, Events
<1>. QED
    BY <1>1, Invariant, WalkInvariant, PTL

\* What an operator reads when a rule is being reduced: the fields it draws from give a
\* value, and the action to be taken is one the rules have an equation for.
Reducible ==
    LET next == Model.states[um.nextMode]
        due == at = "exec" \/ (at = "timeout" /\ um.dwellSteps > 0 /\ um.burstSteps > 0)
    IN /\ at = "timeout" /\ um.dwellSteps = 0 =>
            /\ um.nextMode \in DOMAIN Model.states /\ nextModes(um.nextMode) # {}
            /\ realizeParam(next.dwell_steps) # {}
       /\ at = "timeout" /\ um.dwellSteps > 0 =>
            /\ realizeParam(stateB.burst_steps) # {} /\ realizeParam(stateB.inter_burst_delay) # {}
            /\ stateB.burst_prob > 0 \/ stateB.burst_prob < 100
       /\ due => /\ um.w4 = FALSE /\ nextByWt(um.nextAction, stateB.markov) # {}
                 /\ IF isIrc THEN um.nextAction \in DOMAIN stateB.actions
                                  /\ MatchedAction(stateB.actions[um.nextAction])
                    ELSE um.nextAction \in noops \cup DOMAIN stateB.actions
       /\ at = "acted" => realizeParam(stateB.intra_burst_delay) # {}

\* No reduction stops for want of an equation (initMode, chooseBurst, exeActionTgen,
\* exeActionIrc, rcvActRv2$): what it reads is always there, whatever was drawn before.
THEOREM EquationsMatch == Spec => []Reducible
<1>1. Inv /\ Walk => Reducible
    <2>. SUFFICES ASSUME Inv, Walk PROVE Reducible
        OBVIOUS
    <2>1. Typed /\ Counted /\ um.dwellSteps \in Nat
        BY DEF Inv, Typed
    <2>2. at \in {"exec", "acted"} => um.dwellSteps > 0
        BY <2>1 DEF Counted, Begun, Acted
    <2>3. at = "timeout" /\ um.dwellSteps = 0 =>
            /\ um.nextMode \in DOMAIN Model.states /\ nextModes(um.nextMode) # {}
            /\ realizeParam(Model.states[um.nextMode].dwell_steps) # {}
        BY <2>1, ModesRun DEF Walk, RunnableBlock, DistKeys
    <2>4. um.dwellSteps > 0 =>
            /\ RunnableBlock(stateB, isIrc) /\ um.nextAction \in DOMAIN stateB.markov
        BY <2>1, ModesRun DEF Walk
    <2>5. um.dwellSteps > 0 =>
            /\ realizeParam(stateB.burst_steps) # {} /\ realizeParam(stateB.inter_burst_delay) # {}
            /\ realizeParam(stateB.intra_burst_delay) # {}
        BY <2>4 DEF RunnableBlock, DistKeys
    <2>6. um.dwellSteps > 0 => stateB.burst_prob > 0 \/ stateB.burst_prob < 100
        BY <2>4 DEF RunnableBlock
    <2>7. um.dwellSteps > 0 =>
            /\ nextByWt(um.nextAction, stateB.markov) # {}
            /\ IF isIrc THEN um.nextAction \in DOMAIN stateB.actions
                             /\ MatchedAction(stateB.actions[um.nextAction])
               ELSE um.nextAction \in noops \cup DOMAIN stateB.actions
        BY <2>4 DEF RunnableBlock, nextByWt
    <2>8. at \in {"timeout", "exec"} => um.w4 = FALSE
        BY DEF Walk
    <2>. QED
        BY <2>2, <2>3, <2>5, <2>6, <2>7, <2>8 DEF Reducible
<1>. QED
    BY <1>1, Invariant, WalkInvariant, PTL

\* An IRC user speaks only in a room that it has joined (exeAction of set_room_numbers,
\* select_room and roommsg): the map from numbers to rooms is made before the first
\* number is drawn, and no request goes out before a room has been.
THEOREM OnlyRoomsJoined == Spec => []RoomsJoined
<1>1. Inv /\ RoomKnown => RoomsJoined
    <2>. SUFFICES ASSUME OneThread, RoomKnown, "actionQ" \in DOMAIN pend, isIrc
                  PROVE  um.nextRoom \in joined
        BY DEF Inv, RoomsJoined
    <2>1. at = "rest"
        BY OneEvent DEF OneThread, On
    <2>2. On("actionQ")
        BY <2>1, Comes
    <2>. QED
        BY <2>2 DEF RoomKnown, RoomChosen, Numbered
<1>. QED
    BY <1>1, Invariant, RoomsInvariant, PTL
=============================================================================
