--------------------------- MODULE MarkovProfile ---------------------------
(***************************************************************************)
(* The second-version converter of Markov profiles                         *)
(* (parsers/markovV2JsonToMaudeParser.py): from the JSON of a profile to   *)
(* the terms a second-version user model (UserV2) reads.  A JSON object    *)
(* whose order matters is a sequence of pairs, any other one a record; a   *)
(* number keeps its type, because the Maude equations match on it; a       *)
(* probability is a percentage, and of a row of weights only the targets   *)
(* of positive weight are kept.                                            *)
(***************************************************************************)
EXTENDS Integers, Sequences

\* JSON numbers and the random distributions made of them.
IntN(n) == [type |-> "int", v |-> n]
FloatN(n) == [type |-> "float", v |-> n]
Gaussian(m, s) == [random |-> "gaussian", mean |-> m, std |-> s]
Uniform(lo, hi) == [random |-> "uniform", min |-> lo, max |-> hi]

\* What a duration or a number of steps is given as.
Numbers == [type : {"int", "float"}, v : Int]
Distributions ==
    Numbers \cup [random : {"gaussian"}, mean : Numbers, std : Numbers]
            \cup [random : {"uniform"}, min : Numbers, max : Numbers]

Keys(object) == {object[i][1] : i \in DOMAIN object}
Field(object, key) == object[CHOOSE i \in DOMAIN object : object[i][1] = key][2]

-----------------------------------------------------------------------------

\* A number or a distribution as a Maude term: an int is a jn, a float a jf.
to_maude_jv(x) ==
    LET number(n) == [jv |-> IF n.type = "int" THEN "jn" ELSE "jf", v |-> n.v]
    IN IF "random" \in DOMAIN x
       THEN [p \in DOMAIN x |-> IF p = "random" THEN x[p] ELSE number(x[p])]
       ELSE number(x)

DistKeys == {"dwell_steps", "burst_steps", "intra_burst_delay", "inter_burst_delay"}

format_float(n) == [n EXCEPT !.type = "float"]

_ensure_distribution_floats_kept(s) == s

\* The distributions of a state, never those of its actions, get floats only.
_ensure_distribution_floats(s) ==
    LET floats(x) ==
          IF "random" \in DOMAIN x
          THEN [p \in DOMAIN x |-> IF p = "random" THEN x[p] ELSE format_float(x[p])]
          ELSE format_float(x)
    IN [k \in DOMAIN s |-> IF k \in DistKeys THEN floats(s[k]) ELSE s[k]]

\* A waiting state becomes one action that does nothing, after a pause.
expand_idle_state(s) ==
    [type |-> "state", initial_action |-> "noop",
     dwell_steps |-> Gaussian(FloatN(1), FloatN(0)),
     actions |-> << <<"noop", [type |-> "noop"]>> >>,
     markov |-> << <<"noop", {"noop"}>> >>,
     burst_prob |-> 100, burst_steps |-> Gaussian(FloatN(1), FloatN(0)),
     inter_burst_delay |-> IF "sleep" \in DOMAIN s THEN s.sleep
                           ELSE Gaussian(FloatN(300), FloatN(80)),
     intra_burst_delay |-> Gaussian(FloatN(0), FloatN(0))]

FirstAction(s) ==
    IF "actions" \in DOMAIN s /\ s.actions # <<>> THEN s.actions[1][1]
    ELSE s.markov[1][1]

setdefault(s, defaults) ==
    [k \in DOMAIN s \cup DOMAIN defaults |-> IF k \in DOMAIN s THEN s[k] ELSE defaults[k]]

\* Any other state gets the testbed's burst defaults and a first action.
WithDefaults(s) ==
    LET three == Uniform(IntN(3), IntN(3))
        one == Uniform(IntN(1), IntN(1))
        t == setdefault(s, [burst_prob |-> 100, burst_steps |-> three,
                            inter_burst_delay |-> one, intra_burst_delay |-> one])
    IN IF "initial_action" \in DOMAIN t THEN t
       ELSE setdefault(t, [initial_action |-> FirstAction(t)])

\* An action's distributions keep the types the profile gives them.
ConvertAction(a) ==
    [f \in DOMAIN a |-> IF f \in {"sleep", "choice"} THEN to_maude_jv(a[f]) ELSE a[f]]

convert_state_block(s) ==
    [k \in DOMAIN s \ {"sleep", "type"} |->
        CASE k \in DistKeys -> to_maude_jv(s[k])
          [] k = "actions" -> [a \in Keys(s.actions) |-> ConvertAction(Field(s.actions, a))]
          [] k = "markov" -> [a \in Keys(s.markov) |-> Field(s.markov, a)]
          [] OTHER -> s[k]]

\* A profile without states: each of its actions is a state of its own.
FlatState(name, a) ==
    IF a.type = "wait" THEN expand_idle_state(a)
    ELSE [type |-> "state", initial_action |-> name,
          dwell_steps |-> Gaussian(FloatN(1), FloatN(0)),
          actions |-> << <<name, a>> >>, markov |-> << <<name, {name}>> >>,
          burst_prob |-> 100, burst_steps |-> Gaussian(FloatN(1), FloatN(0)),
          inter_burst_delay |-> Gaussian(FloatN(0), FloatN(0)),
          intra_burst_delay |-> IF "sleep" \in DOMAIN a THEN a.sleep
                                ELSE Gaussian(FloatN(0), FloatN(0))]

convert_v2_states_section(states) ==
    [name \in Keys(states) |->
        LET s == Field(states, name)
            t == IF s.type = "wait" THEN expand_idle_state(s) ELSE WithDefaults(s)
        IN convert_state_block(_ensure_distribution_floats(t))]

generate(data) ==
    LET flat == [i \in DOMAIN data.actions |->
                    <<data.actions[i][1], FlatState(data.actions[i][1], data.actions[i][2])>>]
        states == IF data.states = <<>> /\ "actions" \in DOMAIN data THEN flat
                  ELSE data.states
    IN [markov |-> data.markov, states |-> convert_v2_states_section(states),
        params |-> data.parameters]
=============================================================================
