--------------------------- MODULE ActionService ---------------------------
(***************************************************************************)
(* What an action actor promises its user model (the comment at the head   *)
(* of lib/tgen/maude/dnsTgen-actor.maude): it takes one action at a time,  *)
(* carries it out, and answers every action it was sent exactly once.  How *)
(* an action is carried out is left open.                                  *)
(***************************************************************************)
EXTENDS BagsExt

CONSTANTS
    Actions,            \* the actions a user may ask for
    none,               \* nothing is in hand
    replyOf(_, _)       \* the answer of a given result to an action

VARIABLES
    asked,              \* actions asked for and not yet taken
    inHand,             \* the action being carried out, or none
    answers             \* bag of answers not yet taken by the user

vars == <<asked, inHand, answers>>

Init == asked = {} /\ inHand = none /\ DOMAIN answers = {}

\* The user asks for an action, perhaps on taking an answer.
Ask ==
    /\ \E a \in Actions : asked' = asked \cup {a}
    /\ \/ answers' = answers
       \/ \E r \in DOMAIN answers : answers' = BagRemove(answers, r)
    /\ UNCHANGED inHand

\* The user takes an answer and asks for nothing.
TakeAnswer ==
    /\ \E r \in DOMAIN answers : answers' = BagRemove(answers, r)
    /\ UNCHANGED <<asked, inHand>>

Take ==
    /\ inHand = none
    /\ \E a \in asked : inHand' = a /\ asked' = asked \ {a}
    /\ UNCHANGED answers

Answer ==
    /\ inHand # none
    /\ \E result \in {"ok", "failed"} : answers' = BagAdd(answers, replyOf(inHand, result))
    /\ inHand' = none
    /\ UNCHANGED asked

Next == Ask \/ TakeAnswer \/ Take \/ Answer

Fairness == WF_vars(Take) /\ WF_vars(Answer)

Spec == Init /\ [][Next]_vars
FairSpec == Spec /\ Fairness
=============================================================================
