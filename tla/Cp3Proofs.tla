------------------------------ MODULE Cp3Proofs ------------------------------
(***************************************************************************)
(* Proofs about the CP3 tools, for every scenario, list of arguments,      *)
(* sample and pool: that the equation a pipeline reports is made of its    *)
(* own trials or files, and that what is asked of a run can be answered.   *)
(* First what the operators of the pipelines return: sequences put         *)
(* together, numbers in order, quantiles, pairs and their names; then the  *)
(* invariant, and the steps one by one.  The queries follow, with an       *)
(* invariant of their own.  Cp3NetworkProofs goes on with the network.     *)
(***************************************************************************)
EXTENDS Cp3Results, FiniteSetTheorems, SequenceTheorems, TLAPS

-----------------------------------------------------------------------------
(* Induction on numbers, for sets; and sequences put together from sequences. *)

\* A set of numbers with 0 and the successor of each of them has all numbers: up to a
\* number it lacked it would have one element more than it has.
LEMMA Induction ==
    ASSUME NEW A, 0 \in A, \A k \in Nat : k \in A => k + 1 \in A
    PROVE  Nat \subseteq A
<1>. SUFFICES ASSUME NEW n \in Nat, n \notin A PROVE FALSE
    OBVIOUS
<1>. DEFINE B == {k \in 0 .. n : k \in A}
            next == [k \in B |-> k + 1]
<1>1. IsFiniteSet(B)
    BY FS_Interval, FS_Subset, IsFiniteSet(0 .. n), B \subseteq 0 .. n
<1>2. \A k \in B : k + 1 \in B \ {0}
    <2>. SUFFICES ASSUME NEW k \in B PROVE k + 1 \in B \ {0}
        OBVIOUS
    <2>1. k \in 0 .. n /\ k \in A /\ k # n
        OBVIOUS
    <2>2. k + 1 \in 0 .. n /\ k + 1 \in A /\ k + 1 # 0
        BY <2>1
    <2>. QED
        BY <2>2
<1>3. IsFiniteSet(B \ {0}) /\ Cardinality(B \ {0}) = Cardinality(B) - 1 /\ Cardinality(B) \in Nat
    <2>1. 0 \in B
        OBVIOUS
    <2>. HIDE DEF B
    <2>. QED
        BY <1>1, <2>1, FS_RemoveElement, FS_CardinalityType
<1>4. next \in Injection(B, B \ {0})
    BY <1>2 DEF Injection, IsInjective
<1>5. Cardinality(B) <= Cardinality(B \ {0})
    <2>. HIDE DEF B, next
    <2>. QED
        BY <1>1, <1>3, <1>4, FS_Injection
<1>. QED
    BY <1>3, <1>5

\* The same from 1 up to a number.
LEMMA InductionTo ==
    ASSUME NEW n \in Nat, NEW A, n # 0 => 1 \in A, \A k \in 1 .. n : k \in A /\ k # n => k + 1 \in A
    PROVE  \A k \in 1 .. n : k \in A
<1>. DEFINE B == {k \in Nat : k \in 1 .. n => k \in A}
<1>1. 0 \in B
    OBVIOUS
<1>2. ASSUME NEW k \in Nat, k \in B PROVE k + 1 \in B
    <2>. SUFFICES ASSUME k + 1 \in 1 .. n PROVE k + 1 \in A
        OBVIOUS
    <2>1. CASE k = 0
        <3>1. n # 0 /\ k + 1 = 1
            BY <2>1
        <3>. QED
            BY <3>1
    <2>2. CASE k # 0
        <3>1. k \in 1 .. n /\ k # n
            BY <2>2
        <3>2. k \in A
            BY <1>2, <3>1
        <3>. QED
            BY <3>1, <3>2
    <2>. QED
        BY <2>1, <2>2
<1>3. Nat \subseteq B
    <2>. HIDE DEF B
    <2>. QED
        BY <1>1, <1>2, Induction
<1>. QED
    BY <1>3

\* What FlattenSeq has put together after each of its sequences.
Flattenings(seqs, n, V) ==
    {f \in [1 .. n -> Seq(V)] :
        \A i \in 1 .. n : f[i] = IF i = 1 THEN seqs[i] ELSE f[i - 1] \o seqs[i]}

\* There is one for every number of sequences.
LEMMA FlatteningsExist ==
    ASSUME NEW V, NEW seqs \in Seq(Seq(V))
    PROVE  Flattenings(seqs, Len(seqs), V) # {}
<1>. DEFINE A == {n \in Nat : n <= Len(seqs) => Flattenings(seqs, n, V) # {}}
<1>1. 0 \in A
    <2>1. [i \in 1 .. 0 |-> <<>>] \in Flattenings(seqs, 0, V)
        BY DEF Flattenings
    <2>. QED
        BY <2>1
<1>2. ASSUME NEW n \in Nat, n \in A PROVE n + 1 \in A
    <2>. SUFFICES ASSUME n + 1 <= Len(seqs) PROVE Flattenings(seqs, n + 1, V) # {}
        OBVIOUS
    <2>1. PICK f : f \in Flattenings(seqs, n, V)
        BY <1>2
    <2>. DEFINE next == IF n = 0 THEN seqs[1] ELSE f[n] \o seqs[n + 1]
                g == [i \in 1 .. n + 1 |-> IF i = n + 1 THEN next ELSE f[i]]
    <2>2. seqs[n + 1] \in Seq(V)
        OBVIOUS
    <2>3. next \in Seq(V)
        BY <2>1, <2>2 DEF Flattenings
    <2>4. f \in [1 .. n -> Seq(V)]
        BY <2>1 DEF Flattenings
    <2>5. g \in [1 .. n + 1 -> Seq(V)]
        <3>. HIDE DEF next
        <3>. QED
            BY <2>3, <2>4
    <2>6. ASSUME NEW i \in 1 .. n + 1
          PROVE  g[i] = IF i = 1 THEN seqs[i] ELSE g[i - 1] \o seqs[i]
        <3>1. CASE i = n + 1
            <4>1. CASE n = 0
                <5>1. i = 1 /\ g[i] = seqs[1]
                    BY <3>1, <4>1
                <5>. QED
                    BY <5>1
            <4>2. CASE n # 0
                <5>1. i - 1 = n /\ n \in 1 .. n + 1 /\ n # n + 1 /\ i # 1
                    BY <3>1, <4>2
                <5>2. g[i] = f[n] \o seqs[i]
                    BY <3>1, <4>2
                <5>3. g[n] = f[n]
                    BY <5>1
                <5>. QED
                    BY <5>1, <5>2, <5>3
            <4>. QED
                BY <4>1, <4>2
        <3>2. CASE i # n + 1
            <4>1. i \in 1 .. n /\ g[i] = f[i]
                BY <3>2
            <4>2. i # 1 => i - 1 \in 1 .. n /\ g[i - 1] = f[i - 1]
                BY <3>2
            <4>3. f[i] = IF i = 1 THEN seqs[i] ELSE f[i - 1] \o seqs[i]
                BY <2>1, <4>1 DEF Flattenings
            <4>. HIDE DEF g
            <4>. QED
                BY <4>1, <4>2, <4>3
        <3>. QED
            BY <3>1, <3>2
    <2>7. g \in Flattenings(seqs, n + 1, V)
        <3>. HIDE DEF g
        <3>. QED
            BY <2>5, <2>6 DEF Flattenings
    <2>. QED
        BY <2>7
<1>3. Nat \subseteq A
    <2>. HIDE DEF A
    <2>. QED
        BY <1>1, <1>2, Induction
<1>. QED
    BY <1>3

\* FlattenSeq gives the last of them.
LEMMA FlattenIsLast ==
    ASSUME NEW V, NEW seqs \in Seq(Seq(V)), seqs # <<>>
    PROVE  \E f \in Flattenings(seqs, Len(seqs), V) : FlattenSeq(seqs) = f[Len(seqs)]
<1>. DEFINE n == Len(seqs)
            Is(f) == f = [i \in 1 .. n |-> IF i = 1 THEN seqs[i] ELSE f[i - 1] \o seqs[i]]
            flatten == CHOOSE f : Is(f)
<1>1. n \in Nat /\ n # 0
    OBVIOUS
<1>2. FlattenSeq(seqs) = flatten[n]
    BY <1>1 DEF FlattenSeq
<1>3. PICK g : g \in Flattenings(seqs, n, V)
    BY FlatteningsExist
<1>4. Is(g)
    <2>1. g = [i \in 1 .. n |-> g[i]]
        BY <1>3 DEF Flattenings
    <2>2. \A i \in 1 .. n : g[i] = IF i = 1 THEN seqs[i] ELSE g[i - 1] \o seqs[i]
        BY <1>3 DEF Flattenings
    <2>. QED
        BY <2>1, <2>2
<1>5. Is(flatten)
    <2>. HIDE DEF Is
    <2>. QED
        BY <1>4
<1>6. \A i \in 1 .. n : flatten[i] = IF i = 1 THEN seqs[i] ELSE flatten[i - 1] \o seqs[i]
    <2>. HIDE DEF flatten
    <2>. QED
        BY <1>5
<1>7. flatten = [i \in 1 .. n |-> flatten[i]]
    <2>. HIDE DEF flatten
    <2>. QED
        BY <1>5
<1>. HIDE DEF flatten
<1>8. \A i \in 1 .. n : flatten[i] \in Seq(V)
    <2>. DEFINE A == {i \in 1 .. n : flatten[i] \in Seq(V)}
    <2>1. 1 \in A
        <3>1. 1 \in 1 .. n
            BY <1>1
        <3>2. flatten[1] = seqs[1] /\ seqs[1] \in Seq(V)
            BY <1>6, <3>1
        <3>. QED
            BY <3>1, <3>2
    <2>2. ASSUME NEW i \in 1 .. n, i \in A, i # n PROVE i + 1 \in A
        <3>1. i + 1 \in 1 .. n /\ i + 1 # 1 /\ (i + 1) - 1 = i
            BY <1>1, <2>2
        <3>2. flatten[i + 1] = flatten[i] \o seqs[i + 1]
            BY <1>6, <3>1
        <3>3. seqs[i + 1] \in Seq(V) /\ flatten[i] \in Seq(V)
            BY <2>2, <3>1
        <3>4. \A x, y \in Seq(V) : x \o y \in Seq(V)
            OBVIOUS
        <3>5. flatten[i + 1] \in Seq(V)
            BY <3>2, <3>3, <3>4
        <3>. QED
            BY <3>1, <3>5
    <2>. HIDE DEF A
    <2>3. \A i \in 1 .. n : i \in A
        BY <1>1, <2>1, <2>2, InductionTo
    <2>. QED
        BY <2>3 DEF A
<1>9. flatten \in Flattenings(seqs, n, V)
    <2>1. flatten \in [1 .. n -> Seq(V)]
        BY <1>7, <1>8
    <2>. QED
        BY <1>6, <2>1 DEF Flattenings
<1>. QED
    BY <1>2, <1>9

\* Two sequences one after the other have the elements of both.
LEMMA ConcatRange ==
    ASSUME NEW V, NEW a \in Seq(V), NEW b \in Seq(V)
    PROVE  Range(a \o b) = Range(a) \cup Range(b)
<1>1. /\ Len(a \o b) = Len(a) + Len(b) /\ Len(a) \in Nat /\ Len(b) \in Nat
      /\ DOMAIN (a \o b) = 1 .. Len(a) + Len(b)
      /\ DOMAIN a = 1 .. Len(a) /\ DOMAIN b = 1 .. Len(b)
    OBVIOUS
<1>2. \A i \in 1 .. Len(a) : i \in DOMAIN (a \o b) /\ (a \o b)[i] = a[i]
    BY <1>1
<1>3. \A i \in 1 .. Len(b) : i + Len(a) \in DOMAIN (a \o b) /\ (a \o b)[i + Len(a)] = b[i]
    BY <1>1
<1>4. \A i \in DOMAIN (a \o b) : \/ i \in 1 .. Len(a)
                                 \/ i - Len(a) \in 1 .. Len(b) /\ (i - Len(a)) + Len(a) = i
    BY <1>1
<1>5. \A i \in DOMAIN (a \o b) : (a \o b)[i] \in Range(a) \cup Range(b)
    BY <1>1, <1>2, <1>3, <1>4 DEF Range
<1>6. Range(a) \subseteq Range(a \o b)
    BY <1>1, <1>2 DEF Range
<1>7. Range(b) \subseteq Range(a \o b)
    BY <1>1, <1>3 DEF Range
<1>. QED
    BY <1>5, <1>6, <1>7 DEF Range

\* What FlattenSeq puts together is a sequence, of what is in its sequences.
LEMMA FlattenFacts ==
    ASSUME NEW V, NEW seqs \in Seq(Seq(V))
    PROVE  /\ FlattenSeq(seqs) \in Seq(V)
           /\ Range(FlattenSeq(seqs)) = UNION {Range(seqs[i]) : i \in DOMAIN seqs}
<1>1. CASE seqs = <<>>
    BY <1>1 DEF FlattenSeq, Range
<1>2. CASE seqs # <<>>
    <2>. DEFINE n == Len(seqs)
    <2>1. n \in Nat /\ n # 0 /\ DOMAIN seqs = 1 .. n
        BY <1>2
    <2>2. PICK f \in Flattenings(seqs, n, V) : FlattenSeq(seqs) = f[n]
        BY <1>2, FlattenIsLast
    <2>3. /\ f \in [1 .. n -> Seq(V)]
          /\ \A i \in 1 .. n : f[i] = IF i = 1 THEN seqs[i] ELSE f[i - 1] \o seqs[i]
        BY <2>2 DEF Flattenings
    <2>4. \A i \in 1 .. n : seqs[i] \in Seq(V)
        BY <2>1
    <2>. HIDE DEF n
    <2>. DEFINE Of(k) == UNION {Range(seqs[i]) : i \in 1 .. k}
                A == {k \in 1 .. n : Range(f[k]) = Of(k)}
    <2>5. 1 \in A
        <3>1. f[1] = seqs[1] /\ 1 .. 1 = {1} /\ 1 \in 1 .. n
            BY <2>1, <2>3
        <3>2. Of(1) = Range(seqs[1])
            BY <3>1
        <3>. QED
            BY <3>1, <3>2
    <2>6. ASSUME NEW k \in 1 .. n, k \in A, k # n PROVE k + 1 \in A
        <3>1. k \in Nat /\ k + 1 \in 1 .. n /\ k + 1 # 1 /\ (k + 1) - 1 = k
            BY <2>1, <2>6
        <3>2. f[k + 1] = f[k] \o seqs[k + 1]
            BY <2>3, <3>1
        <3>3. Range(f[k]) = Of(k)
            BY <2>6
        <3>4. Range(f[k + 1]) = Range(f[k]) \cup Range(seqs[k + 1])
            <4>1. f[k] \in Seq(V) /\ seqs[k + 1] \in Seq(V)
                BY <2>3, <2>4, <3>1
            <4>. QED
                BY <3>2, <4>1, ConcatRange
        <3>5. Of(k + 1) = Of(k) \cup Range(seqs[k + 1])
            <4>1. 1 .. k + 1 = (1 .. k) \cup {k + 1}
                BY <3>1
            <4>. QED
                BY <4>1
        <3>. QED
            BY <3>1, <3>3, <3>4, <3>5
    <2>7. \A k \in 1 .. n : k \in A
        <3>. HIDE DEF A
        <3>. QED
            BY <2>1, <2>5, <2>6, InductionTo
    <2>8. Range(f[n]) = Of(n)
        <3>1. n \in 1 .. n
            BY <2>1
        <3>. QED
            BY <2>7, <3>1
    <2>. QED
        BY <2>1, <2>2, <2>3, <2>8
<1>. QED
    BY <1>1, <1>2

\* A sequence of one element behind another sequence.
LEMMA ConcatUnit ==
    ASSUME NEW V, NEW a \in Seq(V), NEW b \in Seq(V), Len(b) = 1
    PROVE  a \o b = [i \in 1 .. Len(a) + 1 |-> IF i = Len(a) + 1 THEN b[1] ELSE a[i]]
<1>1. /\ a \o b \in Seq(V) /\ Len(a \o b) = Len(a) + Len(b)
      /\ \A i \in 1 .. Len(a) + Len(b) : (a \o b)[i] = IF i <= Len(a) THEN a[i] ELSE b[i - Len(a)]
    BY ConcatProperties
<1>2. Len(a) \in Nat /\ Len(a \o b) = Len(a) + 1
    BY <1>1
<1>3. a \o b = [i \in 1 .. Len(a) + 1 |-> (a \o b)[i]]
    <2>1. \A c \in Seq(V) : c = [i \in 1 .. Len(c) |-> c[i]]
        BY LenProperties
    <2>. QED
        BY <1>1, <1>2, <2>1
<1>4. ASSUME NEW i \in 1 .. Len(a) + 1
      PROVE  (a \o b)[i] = IF i = Len(a) + 1 THEN b[1] ELSE a[i]
    <2>1. CASE i = Len(a) + 1
        <3>1. ~(i <= Len(a)) /\ i - Len(a) = 1
            BY <1>2, <2>1
        <3>. QED
            BY <1>1, <2>1, <3>1
    <2>2. CASE i # Len(a) + 1
        <3>1. i <= Len(a)
            BY <1>2, <2>2
        <3>. QED
            BY <1>1, <2>2, <3>1
    <2>. QED
        BY <2>1, <2>2
<1>. QED
    BY <1>3, <1>4

\* Sequences of one element each are put together to the sequence of these elements.
LEMMA FlattenUnits ==
    ASSUME NEW V, NEW seqs \in Seq(Seq(V)), \A i \in DOMAIN seqs : Len(seqs[i]) = 1
    PROVE  FlattenSeq(seqs) = [i \in DOMAIN seqs |-> seqs[i][1]]
<1>1. CASE seqs = <<>>
    <2>1. FlattenSeq(seqs) = <<>> /\ DOMAIN seqs = {}
        BY <1>1 DEF FlattenSeq
    <2>. QED
        BY <2>1
<1>2. CASE seqs # <<>>
    <2>. DEFINE n == Len(seqs)
    <2>1. n \in Nat /\ n # 0 /\ DOMAIN seqs = 1 .. n
        BY <1>2
    <2>2. PICK f \in Flattenings(seqs, n, V) : FlattenSeq(seqs) = f[n]
        BY <1>2, FlattenIsLast
    <2>3. /\ f \in [1 .. n -> Seq(V)]
          /\ \A i \in 1 .. n : f[i] = IF i = 1 THEN seqs[i] ELSE f[i - 1] \o seqs[i]
        BY <2>2 DEF Flattenings
    <2>4. \A i \in 1 .. n : seqs[i] \in Seq(V) /\ Len(seqs[i]) = 1
        BY <2>1
    <2>. HIDE DEF n
    <2>. DEFINE Of(k) == [i \in 1 .. k |-> seqs[i][1]]
                A == {k \in 1 .. n : f[k] = Of(k)}
    <2>5. 1 \in A
        <3>1. f[1] = seqs[1] /\ 1 .. 1 = {1} /\ 1 \in 1 .. n /\ seqs[1] \in Seq(V) /\ Len(seqs[1]) = 1
            BY <2>1, <2>3, <2>4
        <3>2. seqs[1] = [i \in 1 .. 1 |-> seqs[1][i]]
            BY <3>1
        <3>3. f[1] = Of(1)
            BY <3>1, <3>2
        <3>. QED
            BY <3>1, <3>3
    <2>6. ASSUME NEW k \in 1 .. n, k \in A, k # n PROVE k + 1 \in A
        <3>1. k \in Nat /\ k + 1 \in 1 .. n /\ k + 1 # 1 /\ (k + 1) - 1 = k
            BY <2>1, <2>6
        <3>2. f[k + 1] = f[k] \o seqs[k + 1]
            BY <2>3, <3>1
        <3>3. f[k] = Of(k)
            BY <2>6
        <3>. DEFINE b == seqs[k + 1]
                    a == f[k]
        <3>4. a \in Seq(V) /\ Len(a) = k
            BY <2>3, <3>1, <3>3
        <3>5. b \in Seq(V) /\ Len(b) = 1
            BY <2>4, <3>1
        <3>6. f[k + 1] = a \o b
            BY <3>2
        <3>7. \A i \in 1 .. k : a[i] = seqs[i][1]
            BY <3>3
        <3>8. b[1] = seqs[k + 1][1]
            OBVIOUS
        <3>9. a \o b = [i \in 1 .. k + 1 |-> IF i = k + 1 THEN b[1] ELSE a[i]]
            <4>. HIDE DEF a, b
            <4>. QED
                BY <3>4, <3>5, ConcatUnit
        <3>10. ASSUME NEW i \in 1 .. k + 1
               PROVE  (IF i = k + 1 THEN b[1] ELSE a[i]) = seqs[i][1]
            <4>1. i # k + 1 => i \in 1 .. k
                BY <3>1
            <4>. HIDE DEF a, b
            <4>. QED
                BY <3>7, <3>8, <4>1
        <3>12. f[k + 1] = Of(k + 1)
            <4>. HIDE DEF a, b
            <4>. QED
                BY <3>6, <3>9, <3>10
        <3>. QED
            BY <3>1, <3>12
    <2>7. \A k \in 1 .. n : k \in A
        <3>. HIDE DEF A
        <3>. QED
            BY <2>1, <2>5, <2>6, InductionTo
    <2>8. f[n] = [i \in 1 .. n |-> seqs[i][1]]
        BY <2>1, <2>7
    <2>. QED
        BY <2>1, <2>2, <2>8
<1>. QED
    BY <1>1, <1>2

\* A finite set is made a sequence that has each of its elements once.
LEMMA SetToSeqFacts ==
    ASSUME NEW T, IsFiniteSet(T)
    PROVE  /\ SetToSeq(T) \in [1 .. Cardinality(T) -> T]
           /\ SetToSeq(T) \in Seq(T) /\ Len(SetToSeq(T)) = Cardinality(T)
           /\ Range(SetToSeq(T)) = T
<1>. DEFINE n == Cardinality(T)
            f == SetToSeq(T)
<1>1. n \in Nat /\ ExistsBijection(1 .. n, T)
    BY FS_CardinalityType
<1>2. PICK g : g \in Bijection(1 .. n, T)
    BY <1>1 DEF ExistsBijection
<1>3. g \in [1 .. n -> T] /\ IsInjective(g)
    BY <1>2 DEF Bijection, Injection
<1>4. f \in [1 .. n -> T] /\ IsInjective(f)
    <2>. HIDE DEF n
    <2>1. f = CHOOSE h \in [1 .. n -> T] : IsInjective(h)
        BY DEF SetToSeq, n
    <2>. QED
        BY <1>3, <2>1
<1>5. f \in Injection(1 .. n, T)
    BY <1>4 DEF Injection
<1>6. Cardinality(1 .. n) = n
    <2>. HIDE DEF n
    <2>1. Cardinality(1 .. n) = IF 1 > n THEN 0 ELSE n - 1 + 1
        BY <1>1, FS_Interval
    <2>. QED
        BY <1>1, <2>1
<1>7. f \in Surjection(1 .. n, T)
    <2>. HIDE DEF f
    <2>. QED
        BY <1>5, <1>6, FS_Injection
<1>8. Range(f) = T
    <2>1. \A t \in T : \E i \in 1 .. n : f[i] = t
        BY <1>7 DEF Surjection
    <2>. HIDE DEF f
    <2>. QED
        BY <1>4, <2>1 DEF Range
<1>9. f \in Seq(T) /\ Len(f) = n
    <2>. HIDE DEF f, n
    <2>. QED
        BY <1>1, <1>4
<1>. QED
    BY <1>4, <1>8, <1>9

-----------------------------------------------------------------------------
(* Numbers in order. *)

\* A finite set of numbers has a least and a greatest one.
LEMMA LeastAndGreatest ==
    ASSUME NEW T \in SUBSET Int, IsFiniteSet(T), T # {}
    PROVE  /\ Min(T) \in T /\ \A x \in T : Min(T) <= x
           /\ Max(T) \in T /\ \A x \in T : x <= Max(T)
<1>. DEFINE Bounded(U) == /\ \E m \in U : \A x \in U : m <= x
                          /\ \E m \in U : \A x \in U : x <= m
            A == {n \in Nat : \A U \in SUBSET Int :
                     IsFiniteSet(U) /\ Cardinality(U) = n /\ U # {} => Bounded(U)}
<1>1. 0 \in A
    BY FS_EmptySet
<1>2. ASSUME NEW n \in Nat, n \in A PROVE n + 1 \in A
    <2>. SUFFICES ASSUME NEW U \in SUBSET Int, IsFiniteSet(U), Cardinality(U) = n + 1, U # {}
                  PROVE  Bounded(U)
        OBVIOUS
    <2>1. PICK u \in U : TRUE
        OBVIOUS
    <2>. DEFINE V == U \ {u}
    <2>2. V \in SUBSET Int /\ IsFiniteSet(V) /\ Cardinality(V) = n /\ U = V \cup {u} /\ u \in Int
        <3>1. V \in SUBSET Int /\ U = V \cup {u} /\ u \in Int /\ V = U \ {u}
            BY <2>1
        <3>2. IsFiniteSet(U \ {u}) /\ Cardinality(U \ {u}) = Cardinality(U) - 1
            BY ONLY IsFiniteSet(U), u \in U, FS_RemoveElement
        <3>3. Cardinality(V) = n
            <4>. DEFINE c == Cardinality(U)
                        d == Cardinality(V)
            <4>1. c = n + 1 /\ d = c - 1
                BY <3>2
            <4>. HIDE DEF c, d
            <4>2. d = n
                BY <4>1
            <4>. QED
                BY <4>2 DEF d
        <3>. QED
            <4>. HIDE DEF V
            <4>. QED
                BY <3>1, <3>2, <3>3
    <2>3. V # {} => Bounded(V)
        <3>. HIDE DEF Bounded, V
        <3>. QED
            BY <1>2, <2>2
    <2>. HIDE DEF V
    <2>4. CASE V = {}
        BY <2>2, <2>4
    <2>5. CASE V # {}
        <3>1. PICK m \in V : \A x \in V : m <= x
            BY <2>3, <2>5
        <3>2. PICK k \in V : \A x \in V : x <= k
            BY <2>3, <2>5
        <3>3. \E l \in U : \A x \in U : l <= x
            <4>1. CASE u <= m
                <5>1. \A x \in V : x \in Int /\ u <= x
                    BY <2>2, <3>1, <4>1
                <5>. QED
                    BY <2>2, <5>1
            <4>2. CASE ~(u <= m)
                <5>1. \A x \in U : m <= x
                    BY <2>2, <3>1, <4>2
                <5>. QED
                    BY <2>2, <5>1
            <4>. QED
                BY <4>1, <4>2
        <3>4. \E l \in U : \A x \in U : x <= l
            <4>1. CASE k <= u
                <5>1. \A x \in V : x \in Int /\ x <= u
                    BY <2>2, <3>2, <4>1
                <5>. QED
                    BY <2>2, <5>1
            <4>2. CASE ~(k <= u)
                <5>1. \A x \in U : x <= k
                    BY <2>2, <3>2, <4>2
                <5>. QED
                    BY <2>2, <5>1
            <4>. QED
                BY <4>1, <4>2
        <3>. QED
            BY <3>3, <3>4
    <2>. QED
        BY <2>4, <2>5
<1>3. Nat \subseteq A
    <2>. HIDE DEF A
    <2>. QED
        BY <1>1, <1>2, Induction
<1>4. Bounded(T)
    <2>1. Cardinality(T) \in Nat
        BY FS_CardinalityType
    <2>. HIDE DEF Bounded
    <2>. QED
        BY <1>3, <2>1
<1>. QED
    BY <1>4 DEF Min, Max

\* The sorted sequence has the elements of the other, in order, from the least to the greatest.
LEMMA SortedFacts ==
    ASSUME NEW values \in Seq(Int)
    PROVE  LET sorted == Sorted(values)
           IN /\ sorted \in Seq(Int) /\ Len(sorted) = Len(values) /\ DOMAIN sorted = DOMAIN values
              /\ \A i \in DOMAIN values : sorted[i] \in Range(values)
              /\ \A i, k \in DOMAIN values : i < k => sorted[i] <= sorted[k]
              /\ values # <<>> => \A v \in Range(values) : sorted[1] <= v /\ v <= sorted[Len(values)]
<1>. DEFINE n == Len(values)
            Below(v) == {j \in 1 .. n : values[j] < v}
            UpTo(v) == {j \in 1 .. n : values[j] <= v}
            There(v, i) == Cardinality(Below(v)) < i /\ Cardinality(UpTo(v)) >= i
            sorted == Sorted(values)
            all == Range(values)
<1>1. n \in Nat /\ DOMAIN values = 1 .. n /\ (\A j \in 1 .. n : values[j] \in Int) /\ all \in SUBSET Int
    BY DEF Range
<1>2. IsFiniteSet(1 .. n) /\ Cardinality(1 .. n) = n
    <2>. HIDE DEF n
    <2>1. Cardinality(1 .. n) = IF 1 > n THEN 0 ELSE n - 1 + 1
        BY <1>1, FS_Interval
    <2>. QED
        BY <1>1, <2>1, FS_Interval
<1>3. IsFiniteSet(all)
    <2>1. values \in Surjection(1 .. n, all)
        <3>. HIDE DEF n
        <3>. QED
            BY <1>1 DEF Surjection, Range
    <2>. QED
        BY <1>2, <2>1, FS_Surjection
<1>4. \A v : /\ IsFiniteSet(Below(v)) /\ Cardinality(Below(v)) \in Nat
             /\ IsFiniteSet(UpTo(v)) /\ Cardinality(UpTo(v)) \in Nat
    <2>. SUFFICES ASSUME NEW v
                  PROVE  /\ IsFiniteSet(Below(v)) /\ Cardinality(Below(v)) \in Nat
                         /\ IsFiniteSet(UpTo(v)) /\ Cardinality(UpTo(v)) \in Nat
        OBVIOUS
    <2>1. Below(v) \in SUBSET (1 .. n) /\ UpTo(v) \in SUBSET (1 .. n)
        OBVIOUS
    <2>. HIDE DEF Below, UpTo, n
    <2>. QED
        BY <1>2, <2>1, FS_Subset, FS_CardinalityType
<1>5. \A i \in 1 .. n : \E v \in all : There(v, i)
    <2>. SUFFICES ASSUME NEW i \in 1 .. n PROVE \E v \in all : There(v, i)
        OBVIOUS
    <2>. DEFINE G == {v \in all : Cardinality(UpTo(v)) >= i}
    <2>1. all # {}
        BY <1>1 DEF Range
    <2>2. G # {}
        <3>1. Max(all) \in all /\ \A x \in all : x <= Max(all)
            <4>. HIDE DEF all
            <4>. QED
                BY <1>1, <1>3, <2>1, LeastAndGreatest
        <3>2. \A j \in 1 .. n : values[j] \in all
            BY <1>1 DEF Range
        <3>3. UpTo(Max(all)) = 1 .. n
            <4>. HIDE DEF all
            <4>. QED
                BY <3>1, <3>2
        <3>4. Cardinality(UpTo(Max(all))) >= i
            <4>. HIDE DEF UpTo, all, n
            <4>. QED
                BY <1>1, <1>2, <3>3
        <3>. QED
            BY <3>1, <3>4
    <2>3. G \in SUBSET all
        OBVIOUS
    <2>4. G \in SUBSET Int /\ IsFiniteSet(G)
        <3>. HIDE DEF G, all
        <3>. QED
            BY <1>1, <1>3, <2>3, FS_Subset
    <2>. DEFINE v == Min(G)
    <2>5. v \in G /\ \A x \in G : v <= x
        <3>. HIDE DEF G
        <3>. QED
            BY <2>2, <2>4, LeastAndGreatest
    <2>6. v \in all /\ v \in Int /\ Cardinality(UpTo(v)) >= i
        <3>. HIDE DEF v, all, UpTo
        <3>. QED
            BY <1>1, <2>5
    <2>. HIDE DEF v
    <2>7. Cardinality(Below(v)) < i
        <3>. DEFINE L == {w \in all : w < v}
        <3>1. CASE L = {}
            <4>1. \A j \in 1 .. n : values[j] \in all
                BY <1>1 DEF Range
            <4>2. Below(v) = {}
                <5>. HIDE DEF all
                <5>. QED
                    BY <3>1, <4>1
            <4>3. Cardinality(Below(v)) = 0
                <5>. HIDE DEF Below
                <5>. QED
                    BY <4>2, FS_EmptySet
            <4>. QED
                <5>. HIDE DEF Below, n
                <5>. QED
                    BY <1>1, <4>3
        <3>2. CASE L # {}
            <4>1. L \in SUBSET all
                OBVIOUS
            <4>2. L \in SUBSET Int /\ IsFiniteSet(L)
                <5>. HIDE DEF L, all
                <5>. QED
                    BY <1>1, <1>3, <4>1, FS_Subset
            <4>. DEFINE u == Max(L)
            <4>3. u \in L /\ \A x \in L : x <= u
                <5>. HIDE DEF L
                <5>. QED
                    BY <3>2, <4>2, LeastAndGreatest
            <4>4. u \in all /\ u < v /\ u \in Int
                <5>. HIDE DEF u, all
                <5>. QED
                    BY <4>2, <4>3
            <4>. HIDE DEF u
            <4>5. Below(v) = UpTo(u)
                <5>1. \A j \in 1 .. n : values[j] \in all /\ values[j] \in Int
                    BY <1>1 DEF Range
                <5>2. \A j \in 1 .. n : values[j] < v <=> values[j] <= u
                    <6>. SUFFICES ASSUME NEW j \in 1 .. n PROVE values[j] < v <=> values[j] <= u
                        OBVIOUS
                    <6>1. values[j] < v => values[j] \in L
                        BY <5>1
                    <6>2. values[j] < v => values[j] <= u
                        BY <4>3, <6>1
                    <6>3. values[j] <= u => values[j] < v
                        BY <4>4, <2>6, <5>1
                    <6>. QED
                        BY <6>2, <6>3
                <5>. QED
                    BY <5>2
            <4>6. u \notin G
                <5>1. ~(v <= u)
                    BY <2>6, <4>4
                <5>. QED
                    BY <2>5, <5>1
            <4>7. ~(Cardinality(UpTo(u)) >= i)
                <5>. HIDE DEF UpTo, all
                <5>. QED
                    BY <4>4, <4>6
            <4>. QED
                <5>. HIDE DEF UpTo, Below, n
                <5>. QED
                    BY <1>1, <1>4, <4>5, <4>7
        <3>. QED
            BY <3>1, <3>2
    <2>. QED
        <3>. HIDE DEF UpTo, Below, all
        <3>. QED
            BY <2>6, <2>7
<1>6. /\ DOMAIN sorted = 1 .. n /\ sorted = [i \in 1 .. n |-> sorted[i]]
      /\ \A i \in 1 .. n : sorted[i] \in all /\ There(sorted[i], i)
    <2>1. sorted = [i \in 1 .. n |-> CHOOSE v \in all : There(v, i)]
        BY <1>1 DEF Sorted
    <2>. HIDE DEF sorted, There, all
    <2>. QED
        BY <1>5, <2>1
<1>. HIDE DEF sorted
<1>7. \A i \in 1 .. n : sorted[i] \in Int
    BY <1>1, <1>6
<1>8. sorted \in Seq(Int) /\ Len(sorted) = n
    <2>1. sorted \in [1 .. n -> Int]
        <3>. HIDE DEF n, There, all
        <3>. QED
            BY <1>6, <1>7
    <2>. HIDE DEF n
    <2>2. \A g \in [1 .. n -> Int] : g \in Seq(Int) /\ Len(g) = n
        BY <1>1
    <2>. QED
        BY <2>1, <2>2
<1>9. ASSUME NEW i \in 1 .. n, NEW k \in 1 .. n, i < k PROVE sorted[i] <= sorted[k]
    <2>. SUFFICES ASSUME ~(sorted[i] <= sorted[k]) PROVE FALSE
        OBVIOUS
    <2>. DEFINE a == sorted[i]
                b == sorted[k]
    <2>1. a \in Int /\ b \in Int /\ b < a /\ i \in Nat /\ k \in Nat
        BY <1>7
    <2>2. Cardinality(Below(a)) < i /\ Cardinality(UpTo(b)) >= k
        <3>. HIDE DEF Below, UpTo
        <3>. QED
            BY <1>6
    <2>. HIDE DEF a, b
    <2>3. UpTo(b) \in SUBSET Below(a)
        BY <1>1, <2>1
    <2>4. Cardinality(UpTo(b)) <= Cardinality(Below(a))
        <3>. HIDE DEF Below, UpTo
        <3>. QED
            BY <1>4, <2>3, FS_Subset
    <2>. QED
        <3>. HIDE DEF Below, UpTo
        <3>. QED
            BY <1>4, <1>9, <2>1, <2>2, <2>4
<1>10. ASSUME values # <<>>, NEW v \in all PROVE sorted[1] <= v /\ v <= sorted[n]
    <2>1. n # 0 /\ 1 \in 1 .. n /\ n \in 1 .. n
        BY <1>1, <1>10
    <2>2. PICK j \in 1 .. n : values[j] = v
        BY <1>1 DEF Range
    <2>3. v \in Int
        BY <1>1, <2>2
    <2>4. Cardinality(Below(sorted[1])) < 1 /\ Cardinality(UpTo(sorted[n])) >= n
        <3>. HIDE DEF Below, UpTo
        <3>. QED
            BY <1>6, <2>1
    <2>5. Below(sorted[1]) = {}
        <3>. DEFINE c == Cardinality(Below(sorted[1]))
        <3>. HIDE DEF Below
        <3>1. c \in Nat /\ c < 1
            BY <1>4, <2>4
        <3>2. c = 0
            <4>. HIDE DEF c
            <4>. QED
                BY <3>1
        <3>. QED
            BY <1>4, <3>2, FS_EmptySet
    <2>6. ~(v < sorted[1])
        BY <2>2, <2>5
    <2>7. UpTo(sorted[n]) = 1 .. n
        <3>1. UpTo(sorted[n]) \in SUBSET (1 .. n)
            OBVIOUS
        <3>. HIDE DEF UpTo, n
        <3>2. Cardinality(UpTo(sorted[n])) <= Cardinality(1 .. n)
            BY <1>2, <3>1, FS_Subset
        <3>3. Cardinality(UpTo(sorted[n])) = Cardinality(1 .. n)
            <4>. DEFINE c == Cardinality(UpTo(sorted[n]))
            <4>1. c \in Nat /\ c >= n /\ c <= n
                BY <1>2, <1>4, <2>4, <3>2
            <4>. HIDE DEF c
            <4>2. c = n
                BY <1>1, <4>1
            <4>. QED
                BY <1>2, <4>2 DEF c
        <3>. QED
            BY <1>2, <3>1, <3>3, FS_Subset
    <2>8. v <= sorted[n]
        BY <2>2, <2>7
    <2>9. sorted[1] \in Int
        BY <1>7, <2>1
    <2>. QED
        BY <2>3, <2>6, <2>8, <2>9
<1>. QED
    BY <1>1, <1>6, <1>8, <1>9, <1>10 DEF sorted

-----------------------------------------------------------------------------
(* Quantiles: evenly spaced places. *)

\* What integer division gives.
LEMMA Division ==
    ASSUME NEW a \in Nat, NEW d \in Nat \ {0}
    PROVE  a \div d \in Nat /\ d * (a \div d) <= a /\ a < d * (a \div d) + d
<1>1. a \div d \in Int /\ a % d \in 0 .. d - 1 /\ a = d * (a \div d) + (a % d)
    OBVIOUS
<1>. DEFINE q == a \div d
            r == a % d
<1>2. q \in Int /\ r \in 0 .. d - 1 /\ a = d * q + r
    BY <1>1
<1>. HIDE DEF q, r
<1>3. q \in Nat
    <2>. SUFFICES ASSUME q < 0 PROVE FALSE
        BY <1>2
    <2>1. q + 1 <= 0
        BY <1>2
    <2>2. d * (q + 1) <= 0
        BY <1>2, <2>1
    <2>3. d * (q + 1) = d * q + d
        BY <1>2
    <2>. QED
        BY <1>2, <2>2, <2>3
<1>4. d * q \in Int
    BY <1>2
<1>5. d * q <= a /\ a < d * q + d
    BY <1>2, <1>4
<1>. QED
    BY <1>3, <1>5 DEF q

\* It is monotone,
LEMMA DivisionMonotone ==
    ASSUME NEW a \in Nat, NEW b \in Nat, a <= b, NEW d \in Nat \ {0}
    PROVE  a \div d <= b \div d
<1>. DEFINE p == a \div d
            q == b \div d
<1>1. p \in Nat /\ q \in Nat /\ d * p <= a /\ b < d * q + d
    BY Division
<1>. HIDE DEF p, q
<1>. SUFFICES ASSUME q + 1 <= p PROVE FALSE
    <2>1. ~(q + 1 <= p) => p <= q
        BY <1>1
    <2>. QED
        BY <2>1 DEF p, q
<1>2. d * (q + 1) <= d * p
    BY <1>1
<1>3. d * (q + 1) = d * q + d
    BY <1>1
<1>4. d * p \in Int /\ d * q \in Int
    BY <1>1
<1>. QED
    BY <1>1, <1>2, <1>3, <1>4

\* and gives back a factor, when what is added to the product is less than the other.
LEMMA DivisionExact ==
    ASSUME NEW m \in Nat, NEW d \in Nat \ {0}, NEW h \in 0 .. d - 1
    PROVE  (d * m + h) \div d = m
<1>. DEFINE a == d * m + h
            q == a \div d
<1>1. a \in Nat /\ d * m \in Nat
    BY DEF a
<1>2. q \in Nat /\ d * q <= a /\ a < d * q + d
    <2>. HIDE DEF a
    <2>. QED
        BY <1>1, Division
<1>3. a = d * m + h
    OBVIOUS
<1>. HIDE DEF a
<1>. SUFFICES q = m
    BY DEF a
<1>. HIDE DEF q
<1>4. d * q \in Int
    BY <1>2
<1>5. CASE q + 1 <= m
    <2>1. d * (q + 1) <= d * m /\ d * (q + 1) = d * q + d
        BY <1>2, <1>5
    <2>. QED
        BY <1>1, <1>2, <1>3, <1>4, <2>1
<1>6. CASE m + 1 <= q
    <2>1. d * (m + 1) <= d * q /\ d * (m + 1) = d * m + d
        BY <1>2, <1>6
    <2>. QED
        BY <1>1, <1>2, <1>3, <1>4, <2>1
<1>. QED
    BY <1>2, <1>5, <1>6

\* Places are within the sequence, in order, from the first to the last.
LEMMA QuantilePlaces ==
    ASSUME NEW n \in Nat \ {0}, NEW size \in Nat \ {0, 1}
    PROVE  /\ \A i \in 0 .. size - 1 : QuantilePlace(i, n, size) \in 1 .. n
           /\ \A i, k \in 0 .. size - 1 : i < k => QuantilePlace(i, n, size) <= QuantilePlace(k, n, size)
           /\ QuantilePlace(0, n, size) = 1 /\ QuantilePlace(size - 1, n, size) = n
<1>. DEFINE d == size - 1
            m == n - 1
            h == d \div 2
            A(i) == i * m + h
<1>1. d \in Nat \ {0} /\ m \in Nat
    OBVIOUS
<1>2. h \in 0 .. d - 1
    <2>. HIDE DEF d
    <2>. QED
        BY <1>1
<1>3. \A i : QuantilePlace(i, n, size) = A(i) \div d + 1
    BY DEF QuantilePlace
<1>4. n = m + 1
    OBVIOUS
<1>. HIDE DEF d, m, h
<1>5. \A i \in 0 .. d : A(i) \in Nat
    <2>. SUFFICES ASSUME NEW i \in 0 .. d PROVE A(i) \in Nat
        OBVIOUS
    <2>1. i * m \in Nat
        BY <1>1
    <2>. QED
        BY <1>2, <2>1
<1>6. \A i, k \in 0 .. d : i <= k => A(i) <= A(k)
    <2>. SUFFICES ASSUME NEW i \in 0 .. d, NEW k \in 0 .. d, i <= k PROVE A(i) <= A(k)
        OBVIOUS
    <2>1. i * m <= k * m /\ i * m \in Nat /\ k * m \in Nat
        BY <1>1
    <2>. QED
        BY <1>2, <2>1
<1>7. A(0) = h /\ A(d) = d * m + h
    BY <1>1, <1>2
<1>8. A(0) \div d = 0
    <2>1. d * 0 + h = h
        BY <1>1, <1>2
    <2>2. (d * 0 + h) \div d = 0
        BY <1>1, <1>2, DivisionExact
    <2>3. h \div d = 0
        BY <2>1, <2>2
    <2>. QED
        <3>. HIDE DEF A
        <3>. QED
            BY <1>7, <2>3
<1>9. A(d) \div d = m
    <2>1. (d * m + h) \div d = m
        BY <1>1, <1>2, DivisionExact
    <2>. QED
        <3>. HIDE DEF A
        <3>. QED
            BY <1>7, <2>1
<1>. HIDE DEF A
<1>10. \A i, k \in 0 .. d : i <= k => A(i) \div d <= A(k) \div d
    BY <1>1, <1>5, <1>6, DivisionMonotone
<1>11. \A i \in 0 .. d : A(i) \div d \in Nat /\ A(i) \div d <= m
    <2>. SUFFICES ASSUME NEW i \in 0 .. d PROVE A(i) \div d \in Nat /\ A(i) \div d <= m
        OBVIOUS
    <2>1. A(i) \div d \in Nat
        BY <1>1, <1>5, Division
    <2>2. d \in 0 .. d /\ i <= d
        BY <1>1
    <2>3. A(i) \div d <= A(d) \div d
        BY <1>10, <2>2
    <2>. QED
        BY <1>9, <2>1, <2>3
<1>12. \A i \in 0 .. d : QuantilePlace(i, n, size) \in 1 .. n
    <2>. SUFFICES ASSUME NEW i \in 0 .. d PROVE QuantilePlace(i, n, size) \in 1 .. n
        OBVIOUS
    <2>. DEFINE q == A(i) \div d
    <2>1. q \in Nat /\ q <= m
        BY <1>11
    <2>2. QuantilePlace(i, n, size) = q + 1
        BY <1>3
    <2>. HIDE DEF q
    <2>. QED
        BY <1>1, <1>4, <2>1, <2>2
<1>13. \A i, k \in 0 .. d : i < k => QuantilePlace(i, n, size) <= QuantilePlace(k, n, size)
    <2>. SUFFICES ASSUME NEW i \in 0 .. d, NEW k \in 0 .. d, i < k
                  PROVE  QuantilePlace(i, n, size) <= QuantilePlace(k, n, size)
        OBVIOUS
    <2>. DEFINE p == A(i) \div d
                q == A(k) \div d
    <2>1. p \in Nat /\ q \in Nat /\ p <= q
        BY <1>10, <1>11
    <2>2. QuantilePlace(i, n, size) = p + 1 /\ QuantilePlace(k, n, size) = q + 1
        BY <1>3
    <2>. HIDE DEF p, q
    <2>. QED
        BY <2>1, <2>2
<1>14. QuantilePlace(0, n, size) = 1 /\ QuantilePlace(d, n, size) = n
    BY <1>1, <1>3, <1>4, <1>8, <1>9
<1>. QED
    BY <1>12, <1>13, <1>14 DEF d

\* What is extracted from numbers in order: at most size of them, in order, and with more
\* than one the first and the last among them.
LEMMA QuantileFacts ==
    ASSUME NEW values \in Seq(Int), NEW size \in Nat \ {0},
           \A i, k \in DOMAIN values : i < k => values[i] <= values[k]
    PROVE  LET some == systematic_quantile_extraction(values, size)
           IN /\ Len(some) = (IF Len(values) < size THEN Len(values) ELSE size)
              /\ \A j, k \in DOMAIN some : j < k => some[j] <= some[k]
              /\ Range(some) \subseteq Range(values)
              /\ size > 1 /\ values # <<>> => {values[1], values[Len(values)]} \subseteq Range(some)
<1>. DEFINE n == Len(values)
            some == systematic_quantile_extraction(values, size)
            Goal == /\ Len(some) = (IF n < size THEN n ELSE size)
                    /\ \A j, k \in DOMAIN some : j < k => some[j] <= some[k]
                    /\ Range(some) \subseteq Range(values)
                    /\ size > 1 /\ values # <<>> => {values[1], values[n]} \subseteq Range(some)
<1>1. n \in Nat /\ DOMAIN values = 1 .. n /\ (values # <<>> => n # 0) /\ \A i \in 1 .. n : values[i] \in Int
    OBVIOUS
<1>2. CASE n <= size
    <2>1. some = values
        BY <1>2 DEF systematic_quantile_extraction
    <2>2. Len(some) = (IF n < size THEN n ELSE size)
        <3>1. Len(some) = n
            BY <2>1
        <3>. HIDE DEF some, n
        <3>. QED
            BY <1>1, <1>2, <3>1
    <2>3. values # <<>> => {values[1], values[n]} \subseteq Range(values)
        BY <1>1 DEF Range
    <2>. QED
        <3>. HIDE DEF some
        <3>1. Goal
            BY <2>1, <2>2, <2>3
        <3>. QED
            BY <3>1 DEF some
<1>3. CASE ~(n <= size) /\ size = 1
    <2>1. some = <<values[(n - 1) \div 2 + 1]>>
        BY <1>3 DEF systematic_quantile_extraction
    <2>2. (n - 1) \div 2 + 1 \in 1 .. n
        BY <1>1, <1>3
    <2>3. Len(some) = 1 /\ DOMAIN some = {1} /\ some[1] \in Range(values)
        BY <1>1, <2>1, <2>2 DEF Range
    <2>. QED
        <3>. HIDE DEF some
        <3>1. Goal
            BY <1>1, <1>3, <2>3 DEF Range
        <3>. QED
            BY <3>1 DEF some
<1>4. CASE ~(n <= size) /\ size # 1
    <2>1. some = [i \in 1 .. size |-> values[QuantilePlace(i - 1, n, size)]]
        BY <1>4 DEF systematic_quantile_extraction
    <2>2. n \in Nat \ {0} /\ size \in Nat \ {0, 1} /\ n > size /\ size > 1
        BY <1>1, <1>4
    <2>. HIDE DEF n, some
    <2>3. \A i \in 1 .. size : i - 1 \in 0 .. size - 1
        BY <2>2
    <2>. DEFINE P(i) == QuantilePlace(i - 1, n, size)
    <2>4. \A i \in 1 .. size : P(i) \in 1 .. n
        BY <2>2, <2>3, QuantilePlaces
    <2>5. \A i, k \in 1 .. size : i < k => P(i) <= P(k)
        <3>1. \A i, k \in 1 .. size : i < k => i - 1 < k - 1
            BY <2>2
        <3>. QED
            BY <2>2, <2>3, <3>1, QuantilePlaces
    <2>6. P(1) = 1 /\ P(size) = n
        <3>1. 1 - 1 = 0
            OBVIOUS
        <3>. QED
            BY <2>2, <3>1, QuantilePlaces
    <2>. HIDE DEF P
    <2>7. /\ DOMAIN some = 1 .. size
          /\ \A i \in 1 .. size : some[i] = values[P(i)]
        BY <2>1 DEF P
    <2>8. Len(some) = size
        BY <2>1, <2>2
    <2>9. Range(some) \subseteq Range(values)
        BY <1>1, <2>4, <2>7 DEF Range
    <2>10. ASSUME NEW j \in 1 .. size, NEW k \in 1 .. size, j < k PROVE some[j] <= some[k]
        <3>1. CASE P(j) = P(k)
            BY <1>1, <2>4, <2>7, <3>1
        <3>2. CASE P(j) # P(k)
            <4>1. P(j) < P(k)
                BY <1>1, <2>4, <2>5, <2>10, <3>2
            <4>. QED
                BY <1>1, <2>4, <2>7, <4>1
        <3>. QED
            BY <3>1, <3>2
    <2>11. {values[1], values[n]} \subseteq Range(some)
        <3>1. 1 \in 1 .. size /\ size \in 1 .. size
            BY <2>2
        <3>2. some[1] = values[1] /\ some[size] = values[n]
            BY <2>6, <2>7, <3>1
        <3>. QED
            BY <2>7, <3>1, <3>2 DEF Range
    <2>12. Goal
        BY <1>4, <2>2, <2>7, <2>8, <2>9, <2>10, <2>11
    <2>. QED
        BY <2>12 DEF some, n
<1>. QED
    BY <1>2, <1>3, <1>4

-----------------------------------------------------------------------------
(* The invariant: every call's files, logs and equation are its own. *)

\* The shapes that every step keeps: a job's fields, the files of a directory, the logs and
\* equations of each combo.  A pipeline has one of its argument lists.
Shapes ==
    /\ scenario \in Scenarios
    /\ DOMAIN disk = Files
    /\ DOMAIN job = {"tool", "step", "args", "done", "ok"}
    /\ DOMAIN trial = Trials
    /\ DOMAIN logs = Combos /\ \A c \in Combos : DOMAIN logs[c] = Trials
    /\ DOMAIN equation = Combos /\ \A c \in Combos : DOMAIN equation[c] = {"temp", "out"}
    /\ job.tool = "pipeline" => job.args \in PipelineArgs /\ scenario.number \in {1, 2}
    /\ job.tool = "isolated" => job.args = IsolatedArgs

\* What a pipeline has its combo measure: names, ids and pairs.
OwnNames(combo) == ComboVantages(S, combo) \X ComboFeatures(combo)
OwnIds(combo) == {VantageId(S, v) : v \in ComboVantages(S, combo)}
OwnPairs(combo) == OwnIds(combo) \X ComboFeatures(combo)

\* Once the script has written them, the main file and the template of a pipeline that
\* has them written are its own.
Written ==
    \/ job.tool = "isolated"
    \/ job.tool = "pipeline" /\ ~job.args.skipGen
FromTemplate == {"run", "trials", "running", "combine", "write", "json", "list", "join"}
FromMain == {"baseline", "quatex", "parallel", "eqtmp"} \cup FromTemplate
FilesOwn ==
    Written =>
        /\ job.step \in FromMain => disk["main"] = ScriptMainFile(S, job.args) /\ ComboComplete(S, job.args.combo)
        /\ job.step \in FromTemplate => disk["eqtmp"] = [bl |-> "nil"]

\* The log of a trial of this call, all logs of the call, and the equation they give.
OwnLog(i) ==
    [result |-> TRUE, pairs |-> OwnPairs(job.args.combo), k |-> i, ecdf |-> Samples[i], by |-> job.done]
OwnUsed == [i \in 1 .. job.args.trials |-> OwnLog(i)]
OwnEquation ==
    [pairs |-> OwnPairs(job.args.combo), k |-> <<SumOfK(OwnUsed), job.args.trials>>,
     ecdf |-> systematic_quantile_extraction(MergedEcdf(OwnUsed), SizeLimit), from |-> OwnUsed]

\* The numbers that the JSON file of each of the call's names has.
OwnJson(combo) ==
    \A p \in OwnNames(combo) : p \in DOMAIN json /\ json[p] = [k |-> OwnEquation.k, ecdf |-> OwnEquation.ecdf]

\* From one step of the pipeline to the next: a trial that was started has a log of this
\* call, if a broken one, and when the template is filled all have a result; it is copied,
\* and the JSON files are written.
TrialsOwn ==
    job.tool = "pipeline" /\ ~job.args.skipGen /\ ~job.args.skipRun =>
        LET combo == job.args.combo
            own == 1 .. job.args.trials
        IN /\ job.step = "running" =>
                \A i \in own : trial[i] # "none" /\ (trial[i] \in {"running", "ok"} => logs[combo][i] \in {OwnLog(i), Broken})
           /\ job.step = "combine" => \A i \in own : logs[combo][i] \in {OwnLog(i), Broken}
           /\ job.step \in {"write", "json"} => \A i \in own : logs[combo][i] = OwnLog(i)
           /\ job.step = "write" => equation[combo].temp = OwnEquation
           /\ job.step \in {"json", "done"} => equation[combo].out = OwnEquation
           /\ job.step = "done" => OwnJson(combo)

\* The files of the isolated channels, the directory with one for each pair, of that pair
\* alone, and what is measured with each.
OwnFiles == OwnIds("combo1") \X ComboFeatures("combo1") \X {IsolatedArgs.baselineTime}
OwnDirectory == disk["baselines"] = [f \in OwnFiles |-> [vpts |-> {f[1]}, feats |-> {f[2]}]]

OwnMeasured(f) ==
    LET pairs == SetToSeq({f[1]} \X {f[2]})
    IN [result |-> TRUE, bls |-> [i \in DOMAIN pairs |-> <<pairs[i][1], pairs[i][2], 1, Samples[1]>>],
        params |-> [binSize |-> 10, tStart |-> 0, winSize |-> 60], by |-> job.done]

\* From one step to the next of the other pipeline: the directory is empty and gets a file
\* for each pair; each file is a task, and has a log while Maude runs it; what logs there
\* are when all have finished are of this call and of files of the directory.
LogsOwn ==
    job.tool = "isolated" =>
        /\ job.step \in {"parse", "addresses", "main", "baseline", "quatex", "parallel"} => disk["baselines"] = NoFile
        /\ job.step \in {"parse", "addresses", "main", "baseline", "quatex", "parallel", "eqtmp", "run", "list"} =>
             results = NoLogs
        /\ job.step \in {"eqtmp", "run", "list", "running", "join"} => OwnDirectory
        /\ job.step \in {"list", "running", "join", "done"} => disk["run"].equation = "combo1"
        /\ job.step = "running" =>
             \A k \in DOMAIN tasks :
                /\ DOMAIN tasks[k] = {"file", "st"} /\ tasks[k].file \in OwnFiles
                /\ tasks[k].st = "running" => tasks[k].file \in DOMAIN results
        /\ job.step \in {"running", "join"} =>
             /\ DOMAIN results \subseteq OwnFiles
             /\ \A f \in DOMAIN results : results[f] = Unread(job.done) \/ results[f] = OwnMeasured(f)
        /\ IsolatedFresh

EquationInv == Shapes /\ FilesOwn /\ TrialsOwn /\ LogsOwn

\* Files of the new call replace those of the same name, and the others stay.
LEMMA OverlayFacts ==
    ASSUME NEW new, NEW old
    PROVE  /\ DOMAIN Overlay(new, old) = DOMAIN new \cup DOMAIN old
           /\ \A f \in DOMAIN new \cup DOMAIN old :
                Overlay(new, old)[f] = IF f \in DOMAIN new THEN new[f] ELSE old[f]
BY DEF Overlay

\* A function on the numbers up to one is a sequence of so many elements.
LEMMA SeqOfFunction ==
    ASSUME NEW n \in Nat, NEW T, NEW f \in [1 .. n -> T]
    PROVE  f \in Seq(T) /\ Len(f) = n /\ DOMAIN f = 1 .. n
OBVIOUS

\* The numbers up to one are as many.
LEMMA NumbersUpTo ==
    ASSUME NEW n \in Nat
    PROVE  IsFiniteSet(1 .. n) /\ Cardinality(1 .. n) = n
<1>1. Cardinality(1 .. n) = IF 1 > n THEN 0 ELSE n - 1 + 1
    BY FS_Interval
<1>2. IsFiniteSet(1 .. n)
    BY FS_Interval
<1>. QED
    BY <1>1, <1>2

\* A sequence has finitely many elements.
LEMMA FiniteRange ==
    ASSUME NEW T, NEW seq \in Seq(T)
    PROVE  IsFiniteSet(Range(seq))
<1>. DEFINE n == Len(seq)
            all == Range(seq)
<1>1. n \in Nat /\ DOMAIN seq = 1 .. n /\ seq = [i \in 1 .. n |-> seq[i]]
    BY LenProperties
<1>2. (\A i \in 1 .. n : seq[i] \in all) /\ \A v \in all : \E i \in 1 .. n : seq[i] = v
    <2>. HIDE DEF n
    <2>. QED
        BY <1>1 DEF Range
<1>. HIDE DEF n, all
<1>3. seq \in [1 .. n -> all]
    BY <1>1, <1>2
<1>4. seq \in Surjection(1 .. n, all)
    BY <1>2, <1>3 DEF Surjection
<1>5. IsFiniteSet(all)
    BY <1>1, <1>4, NumbersUpTo, FS_Surjection
<1>. QED
    BY <1>5 DEF all

\* All of the call's numbers, in order.
LEMMA MergedFacts ==
    ASSUME NEW trials \in 1 .. Len(Samples), NEW used,
           used = [i \in 1 .. trials |-> used[i]], \A i \in 1 .. trials : used[i].ecdf = Samples[i]
    PROVE  LET own == UNION {Range(Samples[i]) : i \in 1 .. trials}
               merged == MergedEcdf(used)
           IN /\ merged \in Seq(Int) /\ Range(merged) \subseteq own
              /\ \A i, k \in DOMAIN merged : i < k => merged[i] <= merged[k]
              /\ own # {} => merged # <<>> /\ merged[1] = Min(own) /\ merged[Len(merged)] = Max(own)
<1>. DEFINE own == UNION {Range(Samples[i]) : i \in 1 .. trials}
            seqs == [i \in 1 .. Len(used) |-> used[i].ecdf]
            flat == FlattenSeq(seqs)
            merged == Sorted(flat)
<1>1. MergedEcdf(used) = merged
    BY DEF MergedEcdf
<1>2. trials \in Nat /\ Samples \in Seq(Seq(Int)) /\ 1 .. trials \subseteq DOMAIN Samples
    BY TrialsAssumption
<1>3. Len(used) = trials /\ DOMAIN used = 1 .. trials
    BY <1>2
<1>4. seqs \in [1 .. trials -> Seq(Int)] /\ \A i \in 1 .. trials : seqs[i] = Samples[i]
    BY <1>2, <1>3
<1>5. seqs \in Seq(Seq(Int)) /\ DOMAIN seqs = 1 .. trials
    <2>. HIDE DEF seqs
    <2>. QED
        BY ONLY <1>2, <1>4, SeqOfFunction
<1>6. flat \in Seq(Int) /\ Range(flat) = own
    <2>1. flat \in Seq(Int) /\ Range(flat) = UNION {Range(seqs[i]) : i \in DOMAIN seqs}
        <3>. HIDE DEF seqs
        <3>. QED
            BY <1>5, FlattenFacts
    <2>2. UNION {Range(seqs[i]) : i \in DOMAIN seqs} = own
        <3>. HIDE DEF seqs
        <3>. QED
            BY <1>4, <1>5
    <2>. QED
        <3>. HIDE DEF flat, own
        <3>. QED
            BY <2>1, <2>2
<1>. HIDE DEF flat, own, seqs
<1>7. /\ merged \in Seq(Int) /\ Len(merged) = Len(flat) /\ DOMAIN merged = DOMAIN flat
      /\ \A i \in DOMAIN flat : merged[i] \in own
      /\ \A i, k \in DOMAIN flat : i < k => merged[i] <= merged[k]
      /\ flat # <<>> => \A v \in own : merged[1] <= v /\ v <= merged[Len(flat)]
    BY <1>6, SortedFacts
<1>. HIDE DEF merged
<1>8. Range(merged) \subseteq own
    BY <1>7 DEF Range
<1>9. ASSUME own # {} PROVE merged # <<>> /\ merged[1] = Min(own) /\ merged[Len(merged)] = Max(own)
    <2>1. flat # <<>>
        BY <1>6, <1>9 DEF Range
    <2>2. /\ Len(flat) \in Nat /\ Len(flat) # 0 /\ DOMAIN flat = 1 .. Len(flat)
        BY <1>6, <2>1
    <2>3. 1 \in DOMAIN flat /\ Len(flat) \in DOMAIN flat
        BY <2>2
    <2>4. own \in SUBSET Int
        BY <1>6 DEF Range
    <2>5. IsFiniteSet(own)
        BY <1>6, FiniteRange
    <2>6. Min(own) \in own /\ (\A x \in own : Min(own) <= x) /\ Max(own) \in own /\ (\A x \in own : x <= Max(own))
        BY <1>9, <2>4, <2>5, LeastAndGreatest
    <2>7. merged[1] \in own /\ merged[Len(flat)] \in own
        BY <1>7, <2>3
    <2>8. \A v \in own : merged[1] <= v /\ v <= merged[Len(flat)]
        BY <1>7, <2>1
    <2>9. merged[1] = Min(own) /\ merged[Len(flat)] = Max(own)
        <3>1. merged[1] <= Min(own) /\ Min(own) <= merged[1]
            BY <2>6, <2>7, <2>8
        <3>2. merged[Len(flat)] <= Max(own) /\ Max(own) <= merged[Len(flat)]
            BY <2>6, <2>7, <2>8
        <3>. QED
            BY <2>4, <2>6, <2>7, <3>1, <3>2
    <2>. QED
        BY <1>7, <2>2, <2>9
<1>. QED
    BY <1>1, <1>7, <1>8, <1>9 DEF merged, own

\* The equation of this call's logs is what is promised of it.
LEMMA OwnEquationFresh ==
    ASSUME job.args \in PipelineArgs
    PROVE  LET eq == OwnEquation
               own == UNION {Range(Samples[i]) : i \in 1 .. job.args.trials}
           IN /\ Len(eq.from) = job.args.trials
              /\ \A i \in DOMAIN eq.from : eq.from[i].by = job.done /\ eq.from[i].ecdf = Samples[i]
              /\ eq.pairs = OwnPairs(job.args.combo)
              /\ eq.k = <<SumOfK(eq.from), job.args.trials>>
              /\ Len(eq.ecdf) = (IF Len(MergedEcdf(eq.from)) < SizeLimit THEN Len(MergedEcdf(eq.from)) ELSE SizeLimit)
              /\ \A j, k \in DOMAIN eq.ecdf : j < k => eq.ecdf[j] <= eq.ecdf[k]
              /\ Range(eq.ecdf) \subseteq own
              /\ SizeLimit > 1 /\ own # {} => {Min(own), Max(own)} \subseteq Range(eq.ecdf)
<1>. DEFINE trials == job.args.trials
            used == OwnUsed
            merged == MergedEcdf(used)
            some == systematic_quantile_extraction(merged, SizeLimit)
            own == UNION {Range(Samples[i]) : i \in 1 .. trials}
<1>1. trials \in 1 .. Len(Samples) /\ Len(Samples) \in Nat
    BY TrialsAssumption
<1>2. used = [i \in 1 .. trials |-> OwnLog(i)]
    BY DEF OwnUsed
<1>3. \A i \in 1 .. trials : OwnLog(i).by = job.done /\ OwnLog(i).ecdf = Samples[i]
    BY DEF OwnLog
<1>4. /\ OwnEquation.from = used /\ OwnEquation.pairs = OwnPairs(job.args.combo)
      /\ OwnEquation.k = <<SumOfK(used), trials>> /\ OwnEquation.ecdf = some
    BY DEF OwnEquation
<1>. HIDE DEF used
<1>5. Len(used) = trials /\ DOMAIN used = 1 .. trials /\ used = [i \in 1 .. trials |-> used[i]]
      /\ \A i \in 1 .. trials : used[i].by = job.done /\ used[i].ecdf = Samples[i]
    <2>. HIDE DEF trials
    <2>. QED
        BY <1>1, <1>2, <1>3
<1>6. /\ merged \in Seq(Int) /\ Range(merged) \subseteq own
      /\ \A i, k \in DOMAIN merged : i < k => merged[i] <= merged[k]
      /\ own # {} => merged # <<>> /\ merged[1] = Min(own) /\ merged[Len(merged)] = Max(own)
    <2>. HIDE DEF trials
    <2>. QED
        BY <1>1, <1>5, MergedFacts
<1>. HIDE DEF merged, own
<1>7. /\ Len(some) = (IF Len(merged) < SizeLimit THEN Len(merged) ELSE SizeLimit)
      /\ \A j, k \in DOMAIN some : j < k => some[j] <= some[k]
      /\ Range(some) \subseteq Range(merged)
      /\ SizeLimit > 1 /\ merged # <<>> => {merged[1], merged[Len(merged)]} \subseteq Range(some)
    BY <1>6, SizeLimitAssumption, QuantileFacts
<1>. HIDE DEF some, trials
<1>8. SizeLimit > 1 /\ own # {} => {Min(own), Max(own)} \subseteq Range(some)
    BY <1>6, <1>7
<1>9. Range(some) \subseteq own
    BY <1>6, <1>7
<1>. QED
    BY <1>4, <1>5, <1>7, <1>8, <1>9 DEF merged, own, trials

-----------------------------------------------------------------------------
(* The networks' names. *)

\* The networks that have a number's names are different.
LEMMA MappedDiffer ==
    ASSUME NEW number \in {1, 2}
    PROVE  /\ DOMAIN MappedClients(number) = 1 .. IF number = 1 THEN 5 ELSE 4
           /\ \A j, k \in DOMAIN MappedClients(number) :
                MappedClients(number)[j] = MappedClients(number)[k] => j = k
<1>1. CASE number = 1
    <2>1. MappedClients(number) = <<"client_net_mastodon", "client_net_racetunnel", "client_net_iodine",
                                    "client_net_obfs", "client_net_sky">>
        BY <1>1 DEF MappedClients
    <2>2. DOMAIN MappedClients(number) = {1, 2, 3, 4, 5}
        BY <2>1
    <2>. QED
        BY <1>1, <2>1, <2>2
<1>2. CASE number = 2
    <2>1. MappedClients(number) = <<"client_net_mastodon", "client_net_racetunnel", "client_net_obfs", "client_net_sky">>
        BY <1>2 DEF MappedClients
    <2>2. DOMAIN MappedClients(number) = {1, 2, 3, 4}
        BY <2>1
    <2>. QED
        BY <1>2, <2>1, <2>2
<1>. QED
    BY <1>1, <1>2

\* In increasing places, those up to one of them are as many as its number.
LEMMA PlacesUpTo ==
    ASSUME NEW n \in Nat, NEW place \in [1 .. n -> Int], NEW j \in 1 .. n,
           \A i, k \in 1 .. n : i < k => place[i] < place[k]
    PROVE  /\ Cardinality({place[i] : i \in 1 .. j}) = j
           /\ \A i \in 1 .. n : place[i] <= place[j] <=> i <= j
<1>. DEFINE up == {place[i] : i \in 1 .. j}
            f == [i \in 1 .. j |-> place[i]]
<1>1. j \in Nat /\ 1 .. j \subseteq 1 .. n
    OBVIOUS
<1>2. \A i, k \in 1 .. n : i # k => i < k \/ k < i
    OBVIOUS
<1>3. \A i, k \in 1 .. n : place[i] \in Int /\ (place[i] = place[k] => i = k)
    BY <1>2
<1>4. f \in [1 .. j -> up] /\ \A v \in up : \E i \in 1 .. j : f[i] = v
    BY <1>1
<1>5. \A i, k \in 1 .. j : f[i] = f[k] => i = k
    BY <1>1, <1>3
<1>. HIDE DEF up, f
<1>6. f \in Bijection(1 .. j, up)
    BY <1>4, <1>5 DEF Bijection, Injection, Surjection, IsInjective
<1>7. Cardinality(up) = j
    <2>1. IsFiniteSet(1 .. j) /\ Cardinality(1 .. j) = j
        BY <1>1, NumbersUpTo
    <2>2. Cardinality(1 .. j) = Cardinality(up)
        BY <1>6, <2>1, FS_Bijection DEF ExistsBijection
    <2>. QED
        BY <2>1, <2>2
<1>8. ASSUME NEW i \in 1 .. n PROVE place[i] <= place[j] <=> i <= j
    <2>1. i < j \/ i = j \/ j < i
        OBVIOUS
    <2>2. i < j => place[i] < place[j] /\ ~(j <= i)
        OBVIOUS
    <2>3. j < i => place[j] < place[i] /\ ~(i <= j)
        OBVIOUS
    <2>. QED
        BY <1>3, <2>1, <2>2, <2>3
<1>. QED
    BY <1>7, <1>8 DEF up

\* A client network's id has its name.
LEMMA ClientNamed ==
    ASSUME scenario \in Scenarios, scenario.number \in {1, 2}, NEW v \in ClientNets, v \in NetNames(S)
    PROVE  VantageId(S, v) \in DOMAIN NET_MAPPING(scenario.number)
           /\ NET_MAPPING(scenario.number)[VantageId(S, v)] = v
<1>. DEFINE number == scenario.number
            nets == S.nets
            names == MappedClients(number)
<1>1. /\ nets \in Seq(Range(nets)) /\ Len(nets) \in Nat /\ DOMAIN nets = 1 .. Len(nets)
    <2>1. nets \in Seq(Range(nets))
        BY ScenariosAssumption DEF S
    <2>. HIDE DEF nets
    <2>. QED
        BY <2>1, LenProperties
<1>2. PICK place \in [DOMAIN names -> DOMAIN nets] :
        /\ \A j, k \in DOMAIN place : j < k => place[j] < place[k]
        /\ \A k \in DOMAIN nets : nets[k].name \in ClientNets => k \in Range(place)
        /\ \A j \in DOMAIN place : nets[place[j]].name = names[j]
    BY NamesAssumption DEF S
<1>3. PICK n \in Nat : DOMAIN names = 1 .. n
    BY MappedDiffer
<1>4. \A j, k \in 1 .. n : names[j] = names[k] => j = k
    BY <1>3, MappedDiffer
<1>5. PICK k0 \in DOMAIN nets : nets[k0].name = v
    BY DEF NetNames
<1>6. DOMAIN place = 1 .. n
    BY <1>2, <1>3
<1>7. PICK j \in 1 .. n : place[j] = k0
    BY <1>2, <1>5, <1>6 DEF Range
<1>8. names[j] = v
    BY <1>2, <1>5, <1>6, <1>7
<1>. HIDE DEF number, nets, names
<1>9. \A l \in DOMAIN nets : nets[l].name = v <=> l = k0
    <2>1. ASSUME NEW l \in DOMAIN nets, nets[l].name = v PROVE l = k0
        <3>1. PICK i \in 1 .. n : place[i] = l
            BY <1>2, <1>6, <2>1 DEF Range
        <3>2. names[i] = v
            BY <1>2, <1>6, <2>1, <3>1
        <3>. QED
            BY <1>4, <1>7, <1>8, <3>1, <3>2
    <2>. QED
        BY <1>5, <2>1
<1>. DEFINE upTo == {k \in DOMAIN nets : nets[k].name \in ClientNets /\ \E l \in k .. Len(nets) : nets[l].name = v}
<1>10. place \in [1 .. n -> Int] /\ \A i \in 1 .. n : place[i] \in DOMAIN nets
    BY <1>1, <1>2, <1>3
<1>11. \A k \in DOMAIN nets : (\E l \in k .. Len(nets) : nets[l].name = v) <=> k <= k0
    BY <1>1, <1>9
<1>12. \A i \in 1 .. n : nets[place[i]].name \in ClientNets
    <2>1. \A i \in DOMAIN names : names[i] \in ClientNets
        <3>1. number \in {1, 2}
            BY DEF number
        <3>2. CASE number = 1
            <4>1. names = <<"client_net_mastodon", "client_net_racetunnel", "client_net_iodine",
                            "client_net_obfs", "client_net_sky">>
                BY <3>2 DEF MappedClients, names
            <4>. QED
                BY <4>1 DEF ClientNets
        <3>3. CASE number = 2
            <4>1. names = <<"client_net_mastodon", "client_net_racetunnel", "client_net_obfs", "client_net_sky">>
                BY <3>3 DEF MappedClients, names
            <4>. QED
                BY <4>1 DEF ClientNets
        <3>. QED
            BY <3>1, <3>2, <3>3
    <2>. QED
        BY <1>2, <1>3, <1>6, <2>1
<1>13. upTo = {place[i] : i \in 1 .. j}
    <2>1. \A i \in 1 .. n : place[i] <= place[j] <=> i <= j
        BY <1>2, <1>6, <1>10, PlacesUpTo
    <2>2. \A k \in upTo : \E i \in 1 .. j : k = place[i]
        <3>. SUFFICES ASSUME NEW k \in upTo PROVE \E i \in 1 .. j : k = place[i]
            OBVIOUS
        <3>1. PICK i \in 1 .. n : place[i] = k
            BY <1>2, <1>6 DEF Range
        <3>2. k <= k0
            BY <1>11
        <3>. QED
            BY <1>7, <2>1, <3>1, <3>2
    <2>3. \A i \in 1 .. j : place[i] \in upTo
        <3>. SUFFICES ASSUME NEW i \in 1 .. j PROVE place[i] \in upTo
            OBVIOUS
        <3>1. i \in 1 .. n /\ i <= j
            OBVIOUS
        <3>. QED
            BY <1>7, <1>10, <1>11, <1>12, <2>1, <3>1
    <2>. HIDE DEF upTo
    <2>. QED
        BY <2>2, <2>3
<1>14. Cardinality(upTo) = j
    <2>. HIDE DEF upTo
    <2>. QED
        BY <1>2, <1>6, <1>10, <1>13, PlacesUpTo
<1>15. VantageId(S, v) = <<"cl", j>>
    <2>1. v \notin {"ixp-router", "server_net", "minio_net", "mastodon_net", "dns_net"}
        BY DEF ClientNets
    <2>2. VantageId(S, v) = <<"cl", Cardinality(upTo)>>
        BY <2>1 DEF VantageId, NetId, nets
    <2>. HIDE DEF upTo
    <2>. QED
        BY <1>14, <2>2
<1>16. <<"cl", j>> \in DOMAIN NET_MAPPING(number) /\ NET_MAPPING(number)[<<"cl", j>>] = names[j]
    BY <1>3 DEF NET_MAPPING, names
<1>. QED
    BY <1>8, <1>15, <1>16 DEF number

\* So has every vantage point's.
LEMMA VantageNamed ==
    ASSUME scenario \in Scenarios, scenario.number \in {1, 2}, NEW v \in VANTAGE_POINTS,
           v \in ClientNets => v \in NetNames(S)
    PROVE  VantageId(S, v) \in DOMAIN NET_MAPPING(scenario.number)
           /\ NET_MAPPING(scenario.number)[VantageId(S, v)] = v
<1>1. CASE v \in ClientNets
    BY <1>1, ClientNamed
<1>2. CASE v \notin ClientNets
    <2>. DEFINE to == NET_MAPPING(scenario.number)
    <2>1. DOMAIN MappedServers = {"srvN", "minN", "masN", "dnsN", "ixpN"}
        BY DEF MappedServers
    <2>2. \A n \in DOMAIN MappedServers : <<n, 0>> \in DOMAIN to /\ to[<<n, 0>>] = MappedServers[n]
        <3>1. \A n \in DOMAIN MappedServers : n # "cl"
            BY <2>1
        <3>. QED
            BY <3>1 DEF NET_MAPPING
    <2>3. PICK n \in DOMAIN MappedServers : VantageId(S, v) = <<n, 0>> /\ MappedServers[n] = v
        <3>1. v \in {"ixp-router", "mastodon_net", "minio_net", "server_net"}
            BY <1>2 DEF VANTAGE_POINTS
        <3>2. CASE v = "ixp-router"
            BY <2>1, <3>2 DEF VantageId, MappedServers
        <3>3. CASE v = "mastodon_net"
            BY <2>1, <3>3 DEF VantageId, NetId, MappedServers
        <3>4. CASE v = "minio_net"
            BY <2>1, <3>4 DEF VantageId, NetId, MappedServers
        <3>5. CASE v = "server_net"
            BY <2>1, <3>5 DEF VantageId, NetId, MappedServers
        <3>. QED
            BY <3>1, <3>2, <3>3, <3>4, <3>5
    <2>. HIDE DEF to
    <2>. QED
        BY <2>2, <2>3 DEF to
<1>. QED
    BY <1>1, <1>2

\* The vantage points of a combo are known, and its client networks are the scenario's.
LEMMA ComboKnown ==
    ASSUME NEW combo \in ScriptCombos, ComboComplete(S, combo)
    PROVE  /\ ComboVantages(S, combo) \subseteq VANTAGE_POINTS
           /\ \A v \in ComboVantages(S, combo) : v \in ClientNets => v \in NetNames(S)
<1>0. "ixp-router" \notin ClientNets
    BY DEF ClientNets
<1>1. CASE combo = "combo1"
    <2>1. ComboVantages(S, combo) = {"ixp-router"} \cup (NetNames(S) \cap {"client_net_sky"})
        BY <1>1 DEF ComboVantages
    <2>. QED
        BY <1>0, <2>1 DEF VANTAGE_POINTS, ClientNets
<1>2. CASE combo = "combo2"
    <2>1. ComboVantages(S, combo) = {"server_net"} \cup (NetNames(S) \cap {"client_net_mastodon", "client_net_racetunnel"})
        BY <1>2 DEF ComboVantages
    <2>. QED
        BY <2>1 DEF VANTAGE_POINTS, ClientNets
<1>3. CASE combo = "combo4x5"
    <2>1. ComboVantages(S, combo) = {"mastodon_net", "client_net_iodine", "minio_net", "client_net_racetunnel"}
        BY <1>3 DEF ComboVantages
    <2>2. ComboVantages(S, combo) \subseteq NetNames(S) \cup {"ixp-router"}
        BY <1>3 DEF ComboComplete
    <2>. QED
        BY <1>0, <2>1, <2>2 DEF VANTAGE_POINTS, ClientNets
<1>4. CASE combo = "top25"
    <2>1. ComboVantages(S, combo) = VANTAGE_POINTS
        BY <1>4 DEF ComboVantages
    <2>2. ComboVantages(S, combo) \subseteq NetNames(S) \cup {"ixp-router"}
        BY <1>4 DEF ComboComplete
    <2>. QED
        BY <1>0, <2>1, <2>2
<1>5. CASE combo = "ixp"
    <2>1. ComboVantages(S, combo) = {"ixp-router"}
        BY <1>5 DEF ComboVantages
    <2>. QED
        BY <1>0, <2>1 DEF VANTAGE_POINTS
<1>6. CASE combo = "all"
    <2>1. ComboVantages(S, combo) = {"ixp-router"} \cup (NetNames(S) \cap (ClientNets \cup {"server_net", "mastodon_net"}))
        BY <1>6 DEF ComboVantages
    <2>. QED
        BY <1>0, <2>1 DEF VANTAGE_POINTS
<1>. QED
    BY <1>1, <1>2, <1>3, <1>4, <1>5, <1>6 DEF ScriptCombos

\* The JSON files of a combo's pairs have its names.
LEMMA JsonNames ==
    ASSUME scenario \in Scenarios, scenario.number \in {1, 2}, NEW combo \in ScriptCombos, ComboComplete(S, combo)
    PROVE  {<<JsonName(q[1]), q[2]>> : q \in OwnPairs(combo)} = OwnNames(combo)
<1>. DEFINE to == NET_MAPPING(scenario.number)
            vs == ComboVantages(S, combo)
            fs == ComboFeatures(combo)
            id(v) == VantageId(S, v)
            N(p) == <<JsonName(p[1]), p[2]>>
<1>1. \A v \in vs : JsonName(id(v)) = v
    <2>1. \A v \in vs : id(v) \in DOMAIN to /\ to[id(v)] = v
        BY ComboKnown, VantageNamed
    <2>. QED
        BY <2>1 DEF JsonName
<1>2. OwnPairs(combo) = {id(v) : v \in vs} \X fs /\ OwnNames(combo) = vs \X fs
    BY DEF OwnPairs, OwnIds, OwnNames
<1>. HIDE DEF to, vs, fs, id
<1>3. \A p \in {id(v) : v \in vs} \X fs : N(p) \in vs \X fs
    BY <1>1
<1>4. \A w \in vs \X fs : \E p \in {id(v) : v \in vs} \X fs : w = N(p)
    <2>. SUFFICES ASSUME NEW v \in vs, NEW f \in fs PROVE \E p \in {id(x) : x \in vs} \X fs : <<v, f>> = N(p)
        OBVIOUS
    <2>. WITNESS <<id(v), f>> \in {id(x) : x \in vs} \X fs
    <2>. QED
        BY <1>1
<1>. QED
    BY <1>2, <1>3, <1>4

-----------------------------------------------------------------------------
(* The files of the isolated channels. *)

\* The isolated channels have finitely many pairs, and as many files.
LEMMA FilesOfPairs ==
    /\ IsFiniteSet(OwnPairs("combo1")) /\ IsFiniteSet(OwnFiles)
    /\ Cardinality(OwnFiles) = Cardinality(OwnPairs("combo1"))
<1>. DEFINE vs == ComboVantages(S, "combo1")
            fs == ComboFeatures("combo1")
            ids == OwnIds("combo1")
            t == IsolatedArgs.baselineTime
            g == [v \in vs |-> VantageId(S, v)]
            h == [p \in ids \X fs |-> <<p[1], p[2], t>>]
<1>1. IsFiniteSet(vs)
    <2>1. vs \in SUBSET {"ixp-router", "client_net_sky"}
        BY DEF ComboVantages
    <2>2. IsFiniteSet({"ixp-router"} \cup {"client_net_sky"})
        BY FS_Singleton, FS_Union
    <2>3. {"ixp-router"} \cup {"client_net_sky"} = {"ixp-router", "client_net_sky"}
        OBVIOUS
    <2>. HIDE DEF vs
    <2>. QED
        BY <2>1, <2>2, <2>3, FS_Subset
<1>2. IsFiniteSet(fs)
    <2>1. fs = (({"dnsQueryRate"} \cup {"tcpOutPktRate"}) \cup ({"tcpInPktRate"} \cup {"tcpPktSize"})) \cup {"tcpPktInterarrival"}
        BY DEF ComboFeatures
    <2>. HIDE DEF fs
    <2>. QED
        BY <2>1, FS_Singleton, FS_Union
<1>3. IsFiniteSet(ids)
    <2>1. ids = {VantageId(S, v) : v \in vs}
        BY DEF OwnIds
    <2>. HIDE DEF vs, ids
    <2>2. g \in Surjection(vs, ids)
        BY <2>1 DEF Surjection
    <2>. HIDE DEF g
    <2>. QED
        BY <1>1, <2>2, FS_Surjection
<1>4. OwnPairs("combo1") = ids \X fs /\ OwnFiles = ids \X fs \X {t}
    BY DEF OwnPairs, OwnFiles
<1>. HIDE DEF ids, fs, t
<1>5. IsFiniteSet(ids \X fs)
    BY <1>2, <1>3, FS_Product
<1>6. h \in Bijection(ids \X fs, ids \X fs \X {t})
    <2>1. h \in [ids \X fs -> ids \X fs \X {t}]
        OBVIOUS
    <2>2. \A p, q \in ids \X fs : h[p] = h[q] => p = q
        OBVIOUS
    <2>3. \A w \in ids \X fs \X {t} : \E p \in ids \X fs : h[p] = w
        <3>. SUFFICES ASSUME NEW w \in ids \X fs \X {t} PROVE \E p \in ids \X fs : h[p] = w
            OBVIOUS
        <3>1. w[1] \in ids /\ w[2] \in fs /\ w = <<w[1], w[2], t>>
            OBVIOUS
        <3>2. <<w[1], w[2]>> \in ids \X fs
            BY <3>1
        <3>. QED
            BY <3>1, <3>2
    <2>. HIDE DEF h
    <2>. QED
        BY <2>1, <2>2, <2>3 DEF Bijection, Injection, Surjection, IsInjective
<1>. HIDE DEF h
<1>7. IsFiniteSet(ids \X fs \X {t}) /\ Cardinality(ids \X fs \X {t}) = Cardinality(ids \X fs)
    BY <1>5, <1>6, FS_Bijection DEF ExistsBijection
<1>. QED
    BY <1>4, <1>5, <1>7

\* What the parser makes of the baseline of one pair.
OwnBl(f) == [vantage |-> f[1], feat |-> f[2], k |-> 1, ecdf |-> Samples[1]]

\* A file's log has the baseline of its pair.
LEMMA OneBl ==
    ASSUME NEW f
    PROVE  LET parsedLog == parse_baseline(OwnMeasured(f), 0)
           IN parsedLog.bls = [i \in 1 .. 1 |-> OwnBl(f)]
<1>. DEFINE pair == <<f[1], f[2]>>
            pairs == SetToSeq({f[1]} \X {f[2]})
            log == OwnMeasured(f)
<1>1. {f[1]} \X {f[2]} = {pair}
    OBVIOUS
<1>2. pairs \in [1 .. 1 -> {pair}]
    <2>. HIDE DEF pair
    <2>1. IsFiniteSet({pair}) /\ Cardinality({pair}) = 1
        BY FS_Singleton
    <2>2. SetToSeq({pair}) \in [1 .. Cardinality({pair}) -> {pair}]
        BY <2>1, SetToSeqFacts
    <2>. QED
        BY <1>1, <2>1, <2>2
<1>3. DOMAIN pairs = 1 .. 1 /\ 1 \in 1 .. 1 /\ 1 .. 1 = {1} /\ pairs[1] = pair
    <2>1. 1 \in 1 .. 1 /\ 1 .. 1 = {1}
        OBVIOUS
    <2>. HIDE DEF pairs, pair
    <2>. QED
        BY <1>2, <2>1
<1>4. log.bls = [i \in DOMAIN pairs |-> <<pairs[i][1], pairs[i][2], 1, Samples[1]>>]
    BY DEF OwnMeasured
<1>5. pairs[1][1] = f[1] /\ pairs[1][2] = f[2]
    <2>. HIDE DEF pairs
    <2>. QED
        BY <1>3
<1>. HIDE DEF pairs, log
<1>6. DOMAIN log.bls = 1 .. 1 /\ log.bls[1] = <<f[1], f[2], 1, Samples[1]>>
    BY <1>3, <1>4, <1>5
<1>7. parse_bl(log.bls[1]) = OwnBl(f)
    BY <1>6 DEF parse_bl, OwnBl
<1>8. parse_baseline(log, 0).bls = [i \in DOMAIN log.bls |-> parse_bl(log.bls[i])]
    BY DEF parse_baseline
<1>. QED
    BY <1>3, <1>6, <1>7, <1>8 DEF log

\* Files have the pairs they are named after, one each, and all files have all pairs.
LEMMA PairsOfFiles ==
    ASSUME OwnDirectory, NEW files \in SUBSET OwnFiles
    PROVE  /\ IsFiniteSet(files) /\ Cardinality(PairsOf(files)) = Cardinality(files)
           /\ \A p : p \in PairsOf(files) <=> \E f \in files : p = <<f[1], f[2]>>
           /\ PairsOf(OwnFiles) = OwnPairs("combo1")
<1>. DEFINE ids == OwnIds("combo1")
            fs == ComboFeatures("combo1")
            t == IsolatedArgs.baselineTime
            pairs == PairsOf(files)
            name == [f \in files |-> <<f[1], f[2]>>]
<1>1. OwnFiles = ids \X fs \X {t} /\ OwnPairs("combo1") = ids \X fs
    BY DEF OwnFiles, OwnPairs
<1>2. ASSUME NEW some \in SUBSET OwnFiles, NEW p
      PROVE  p \in PairsOf(some) <=> \E f \in some : p = <<f[1], f[2]>>
    <2>1. \A f \in some : disk["baselines"][f].vpts = {f[1]} /\ disk["baselines"][f].feats = {f[2]}
        BY DEF OwnDirectory
    <2>2. p \in PairsOf(some) <=> \E f \in some : p \in {f[1]} \X {f[2]}
        BY <2>1 DEF PairsOf
    <2>. QED
        BY <2>2
<1>3. IsFiniteSet(files)
    BY FilesOfPairs, FS_Subset
<1>. HIDE DEF ids, fs, t
<1>4. PairsOf(OwnFiles) = ids \X fs
    <2>1. ASSUME NEW i \in ids, NEW x \in fs PROVE <<i, x>> \in PairsOf(OwnFiles)
        <3>1. <<i, x, t>> \in OwnFiles /\ <<i, x, t>>[1] = i /\ <<i, x, t>>[2] = x
            BY <1>1
        <3>. QED
            BY <1>2, <3>1
    <2>2. ASSUME NEW p \in PairsOf(OwnFiles) PROVE p \in ids \X fs
        <3>1. PICK f \in OwnFiles : p = <<f[1], f[2]>>
            BY <1>2
        <3>. QED
            BY <1>1, <3>1
    <2>. QED
        BY <2>1, <2>2
<1>5. name \in Bijection(files, pairs)
    <2>1. \A f \in files : f = <<f[1], f[2], t>>
        BY <1>1
    <2>2. name \in [files -> pairs]
        BY <1>2
    <2>3. \A f, g \in files : name[f] = name[g] => f = g
        <3>. SUFFICES ASSUME NEW f \in files, NEW g \in files, name[f] = name[g] PROVE f = g
            OBVIOUS
        <3>1. f[1] = g[1] /\ f[2] = g[2]
            OBVIOUS
        <3>. QED
            BY <2>1, <3>1
    <2>4. \A p \in pairs : \E f \in files : name[f] = p
        BY <1>2
    <2>. HIDE DEF name, pairs
    <2>. QED
        BY <2>2, <2>3, <2>4 DEF Bijection, Injection, Surjection, IsInjective
<1>. HIDE DEF name
<1>6. Cardinality(pairs) = Cardinality(files)
    <2>. HIDE DEF pairs
    <2>. QED
        BY <1>3, <1>5, FS_Bijection DEF ExistsBijection
<1>. QED
    BY <1>1, <1>2, <1>3, <1>4, <1>6

\* So logs that have a result join to the equation of their files' pairs.
LEMMA JoinedFresh ==
    ASSUME OwnDirectory, NEW files \in SUBSET OwnFiles, DOMAIN results = files,
           \A f \in files : results[f] = OwnMeasured(f)
    PROVE  LET eq == join(Baselines(results, 0))
           IN /\ {Pair(bl) : bl \in Range(eq.bls)} = PairsOf(files)
              /\ Len(eq.bls) = Cardinality(PairsOf(files))
              /\ \A bl \in Range(eq.bls) : bl.ecdf = Samples[1]
<1>. DEFINE names == SetToSeq(files)
            n == Cardinality(files)
            logs0 == Baselines(results, 0)
            seqs == [i \in DOMAIN logs0 |-> logs0[i].bls]
            all == FlattenSeq(seqs)
            T == {OwnBl(f) : f \in files}
<1>1. names \in [1 .. n -> files] /\ Range(names) = files /\ n \in Nat
    BY PairsOfFiles, SetToSeqFacts, FS_CardinalityType
<1>2. logs0 = [i \in DOMAIN names |-> parse_baseline(results[names[i]], 0)]
    BY DEF Baselines
<1>3. join(logs0).bls = all
    BY DEF join, AllBls
<1>. HIDE DEF names, n, logs0
<1>4. DOMAIN names = 1 .. n /\ \A i \in 1 .. n : names[i] \in files
    BY <1>1
<1>5. DOMAIN logs0 = 1 .. n /\ \A i \in 1 .. n : logs0[i] = parse_baseline(OwnMeasured(names[i]), 0)
    BY <1>2, <1>4
<1>6. /\ DOMAIN seqs = 1 .. n /\ seqs = [i \in 1 .. n |-> seqs[i]]
      /\ \A i \in 1 .. n : seqs[i] = [j \in 1 .. 1 |-> OwnBl(names[i])] /\ seqs[i][1] = OwnBl(names[i])
    <2>1. \A i \in 1 .. n : logs0[i].bls = [j \in 1 .. 1 |-> OwnBl(names[i])]
        BY <1>5, OneBl
    <2>2. \A i \in 1 .. n : seqs[i] = [j \in 1 .. 1 |-> OwnBl(names[i])]
        BY <1>5, <2>1
    <2>3. 1 \in 1 .. 1
        OBVIOUS
    <2>4. DOMAIN seqs = 1 .. n /\ seqs = [i \in DOMAIN logs0 |-> seqs[i]]
        BY <1>5
    <2>. HIDE DEF seqs
    <2>. QED
        BY <1>5, <2>2, <2>3, <2>4
<1>7. \A i \in 1 .. n : seqs[i] \in Seq(T) /\ Len(seqs[i]) = 1
    <2>. SUFFICES ASSUME NEW i \in 1 .. n PROVE seqs[i] \in Seq(T) /\ Len(seqs[i]) = 1
        OBVIOUS
    <2>. DEFINE s == seqs[i]
    <2>1. OwnBl(names[i]) \in T
        BY <1>4
    <2>. HIDE DEF T
    <2>2. s \in [1 .. 1 -> T]
        BY <1>6, <2>1
    <2>. HIDE DEF s
    <2>3. s \in Seq(T) /\ Len(s) = 1
        BY <2>2, SeqOfFunction
    <2>. QED
        BY <2>3 DEF s
<1>. HIDE DEF seqs, T
<1>8. seqs \in Seq(Seq(T))
    <2>1. seqs \in [1 .. n -> Seq(T)]
        BY <1>6, <1>7
    <2>. QED
        BY <1>1, <2>1, SeqOfFunction
<1>9. all = [i \in 1 .. n |-> OwnBl(names[i])]
    <2>0. \A i \in DOMAIN seqs : Len(seqs[i]) = 1
        BY <1>6, <1>7
    <2>1. all = [i \in DOMAIN seqs |-> seqs[i][1]]
        BY ONLY <1>8, <2>0, FlattenUnits
    <2>. HIDE DEF all
    <2>. QED
        BY <1>6, <2>1
<1>. HIDE DEF all
<1>10. Len(all) = Cardinality(PairsOf(files))
    <2>1. Len(all) = n
        BY <1>1, <1>9
    <2>. QED
        BY <2>1, PairsOfFiles DEF n
<1>11. \A bl : bl \in Range(all) <=> \E f \in files : bl = OwnBl(f)
    BY <1>1, <1>4, <1>9 DEF Range
<1>12. {Pair(bl) : bl \in Range(all)} = PairsOf(files)
    <2>. DEFINE own == PairsOf(files)
                measured == Range(all)
                P(bl) == Pair(bl)
    <2>1. \A f : P(OwnBl(f)) = <<f[1], f[2]>>
        BY DEF Pair, OwnBl
    <2>2. \A p : p \in own <=> \E f \in files : p = <<f[1], f[2]>>
        BY PairsOfFiles
    <2>3. \A bl : bl \in measured <=> \E f \in files : bl = OwnBl(f)
        BY <1>11
    <2>. HIDE DEF own, measured, P
    <2>4. \A bl \in measured : P(bl) \in own
        BY <2>1, <2>2, <2>3
    <2>5. \A p \in own : \E bl \in measured : p = P(bl)
        BY <2>1, <2>2, <2>3
    <2>6. {P(bl) : bl \in measured} = own
        BY <2>4, <2>5
    <2>. QED
        BY <2>6 DEF P, measured, own
<1>13. \A bl \in Range(all) : bl.ecdf = Samples[1]
    BY <1>11 DEF OwnBl
<1>. QED
    BY <1>3, <1>10, <1>12, <1>13 DEF logs0

-----------------------------------------------------------------------------
(* Steps: what a call keeps. *)

JobFields == {"tool", "step", "args", "done", "ok"}
SameCall == DOMAIN job' = JobFields /\ job'.tool = job.tool /\ job'.args = job.args /\ job'.done = job.done

\* A tool that goes on, or ends, is the same call of the same tool.
LEMMA StepFacts ==
    ASSUME DOMAIN job = JobFields
    PROVE  /\ \A step : Goto(step) => SameCall /\ job'.step = step
           /\ \A ok \in BOOLEAN : job' = Ended(ok) => SameCall /\ job'.step = IF ok THEN "done" ELSE "failed"
BY DEF Goto, Ended, SameCall, JobFields

\* What a combo measures depends on the scenario only.
LEMMA SameScenario ==
    ASSUME scenario' = scenario
    PROVE  /\ S' = S /\ OwnFiles' = OwnFiles
           /\ \A c : OwnPairs(c)' = OwnPairs(c) /\ OwnIds(c)' = OwnIds(c) /\ OwnNames(c)' = OwnNames(c)
<1>1. S' = S
    BY DEF S
<1>2. \A c : OwnIds(c)' = OwnIds(c) /\ OwnNames(c)' = OwnNames(c)
    BY <1>1 DEF OwnIds, OwnNames
<1>3. \A c : OwnPairs(c)' = OwnPairs(c)
    BY <1>2 DEF OwnPairs
<1>4. OwnFiles' = OwnFiles
    BY <1>2 DEF OwnFiles
<1>. QED
    BY <1>1, <1>2, <1>3, <1>4

\* What a call's logs hold and give depends on the call, too.
LEMMA SameOwn ==
    ASSUME scenario' = scenario, SameCall
    PROVE  /\ \A i : OwnLog(i)' = OwnLog(i)
           /\ OwnEquation' = OwnEquation
           /\ \A f : OwnMeasured(f)' = OwnMeasured(f)
<1>1. job'.args = job.args /\ job'.done = job.done
    BY DEF SameCall
<1>2. \A c : OwnPairs(c)' = OwnPairs(c)
    BY SameScenario
<1>3. \A i : OwnLog(i)' = OwnLog(i)
    BY <1>1, <1>2 DEF OwnLog
<1>4. OwnUsed' = OwnUsed
    BY <1>1, <1>3 DEF OwnUsed
<1>5. OwnEquation' = OwnEquation
    BY <1>1, <1>2, <1>4 DEF OwnEquation
<1>6. \A f : OwnMeasured(f)' = OwnMeasured(f)
    BY <1>1 DEF OwnMeasured
<1>. QED
    BY <1>3, <1>5, <1>6

\* No equation is promised of other tools.
LEMMA OtherTool ==
    ASSUME job'.tool \notin {"pipeline", "isolated"}
    PROVE  FilesOwn' /\ TrialsOwn' /\ LogsOwn'
BY DEF FilesOwn, Written, TrialsOwn, LogsOwn

\* Nor of a pipeline before its trials.
LEMMA NoTrials ==
    ASSUME \/ job'.tool # "pipeline"
           \/ job'.step \notin {"running", "combine", "write", "json", "done"}
    PROVE  TrialsOwn'
BY DEF TrialsOwn

\* Files stay the call's own where they are not written, as far as it had got.
LEMMA FilesStay ==
    ASSUME FilesOwn, scenario' = scenario, SameCall,
           disk'["main"] = disk["main"], disk'["eqtmp"] = disk["eqtmp"],
           job'.step \in FromMain => job.step \in FromMain,
           job'.step \in FromTemplate => job.step \in FromTemplate
    PROVE  FilesOwn'
<1>1. S' = S
    BY SameScenario
<1>2. Written' = Written
    BY DEF Written, SameCall
<1>3. job'.args = job.args
    BY DEF SameCall
<1>4. ScriptMainFile(S, job.args)' = ScriptMainFile(S, job.args)
    BY <1>1, <1>3 DEF ScriptMainFile, MainFile
<1>5. ComboComplete(S, job.args.combo)' = ComboComplete(S, job.args.combo)
    BY <1>1, <1>3 DEF ComboComplete
<1>. QED
    BY <1>2, <1>4, <1>5 DEF FilesOwn, FromMain, FromTemplate

\* A call that ends has no files of its own.
LEMMA FilesEnded ==
    ASSUME job'.step \notin FromMain
    PROVE  FilesOwn'
BY DEF FilesOwn, FromMain, FromTemplate

\* The invariant holds before any tool was started.
LEMMA InitEquationInv == Init => EquationInv
<1>. SUFFICES ASSUME Init PROVE EquationInv
    OBVIOUS
<1>. USE DEF Init, ParallelInit, BaselinesInit, GenInit
<1>1. job.tool = "none" /\ DOMAIN job = JobFields
    BY DEF Idle, JobFields
<1>2. Shapes
    BY <1>1 DEF Shapes, JobFields, Combos, Trials
<1>3. FilesOwn /\ TrialsOwn /\ LogsOwn
    BY <1>1 DEF FilesOwn, Written, TrialsOwn, LogsOwn, IsolatedFresh
<1>. QED
    BY <1>2, <1>3 DEF EquationInv

\* A file is written, the others stay, and the tool goes on.
LEMMA WriteFacts ==
    ASSUME Shapes, NEW file \in Files, NEW content, NEW next, Write(file, content, next)
    PROVE  /\ DOMAIN disk' = Files /\ disk'[file] = content
           /\ \A other \in Files \ {file} : disk'[other] = disk[other]
           /\ SameCall /\ job'.step = next
<1>1. DOMAIN disk = Files /\ DOMAIN job = JobFields
    BY DEF Shapes, JobFields
<1>2. disk' = [disk EXCEPT ![file] = content] /\ Goto(next)
    BY DEF Write
<1>3. SameCall /\ job'.step = next
    BY <1>1, <1>2, StepFacts
<1>. QED
    BY <1>1, <1>2, <1>3

\* Nothing is written, or the tool fails.
LEMMA SkipFacts ==
    ASSUME Shapes
    PROVE  /\ \A next : Skip(next) => disk' = disk /\ SameCall /\ job'.step = next
           /\ Fail => disk' = disk /\ SameCall /\ job'.step = "failed"
<1>1. DOMAIN job = JobFields
    BY DEF Shapes, JobFields
<1>2. ASSUME NEW next, Skip(next) PROVE disk' = disk /\ SameCall /\ job'.step = next
    BY <1>1, <1>2, StepFacts DEF Skip
<1>3. ASSUME Fail PROVE disk' = disk /\ SameCall /\ job'.step = "failed"
    <2>1. job' = Ended(FALSE) /\ disk' = disk /\ FALSE \in BOOLEAN
        BY <1>3 DEF Fail
    <2>. QED
        BY <1>1, <2>1, StepFacts
<1>. QED
    BY <1>2, <1>3

\* A step of a call keeps the shapes when it keeps those of what it writes.
LEMMA ShapesStay ==
    ASSUME Shapes, scenario' = scenario, SameCall, DOMAIN disk' = Files, DOMAIN trial' = Trials,
           DOMAIN logs' = Combos, \A c \in Combos : DOMAIN logs'[c] = Trials,
           DOMAIN equation' = Combos, \A c \in Combos : DOMAIN equation'[c] = {"temp", "out"}
    PROVE  Shapes'
BY DEF Shapes, SameCall, JobFields

\* The same for steps that write only files.
LEMMA ShapesFiles ==
    ASSUME Shapes, scenario' = scenario, SameCall, DOMAIN disk' = Files, UNCHANGED <<trial, logs, equation>>
    PROVE  Shapes'
BY DEF Shapes, SameCall, JobFields

\* What the first generator does is not the pipelines'.
LEMMA GenerateKeeps ==
    ASSUME Shapes, Generate, UNCHANGED <<trial, logs, equation>>
    PROVE  EquationInv'
<1>. SUFFICES Shapes' /\ job'.tool = "generate"
    BY OtherTool DEF EquationInv
<1>1. CASE StartGenerate
    BY <1>1 DEF StartGenerate, Start, Generate, Shapes
<1>2. CASE GenParse \/ GenAddresses \/ GenMain \/ GenQuatex \/ GenBaseline \/ GenEqTmp
    <2>1. job.tool = "generate"
        BY <1>2 DEF GenParse, GenAddresses, GenMain, GenQuatex, GenBaseline, GenEqTmp, Busy
    <2>2. \/ \E file \in Files : \E content, next : Write(file, content, next)
          \/ Fail
          \/ \E next : Skip(next)
        <3>. USE DEF Files
        <3>1. CASE GenParse
            BY <3>1 DEF GenParse
        <3>2. CASE GenAddresses
            BY <3>2 DEF GenAddresses
        <3>3. CASE GenMain
            BY <3>3 DEF GenMain
        <3>4. CASE GenQuatex
            BY <3>4 DEF GenQuatex
        <3>5. CASE GenBaseline
            BY <3>5 DEF GenBaseline
        <3>6. CASE GenEqTmp
            BY <3>6 DEF GenEqTmp
        <3>. QED
            BY <1>2, <3>1, <3>2, <3>3, <3>4, <3>5, <3>6
    <2>3. DOMAIN disk' = Files /\ SameCall
        <3>1. CASE \E file \in Files : \E content, next : Write(file, content, next)
            BY <3>1, WriteFacts
        <3>2. CASE Fail \/ \E next : Skip(next)
            BY <3>2, SkipFacts DEF Shapes
        <3>. QED
            BY <2>2, <3>1, <3>2
    <2>. QED
        BY <2>1, <2>3, ShapesFiles DEF Generate, SameCall
<1>3. CASE GenRun
    <2>1. /\ job.tool = "generate" /\ job' = Ended(TRUE) /\ TRUE \in BOOLEAN
          /\ disk' = [disk EXCEPT !["run"] = RunFile(disk["main"], job.args.perf, RunTime + Delay, "all")]
        BY <1>3 DEF GenRun, Busy
    <2>2. SameCall
        BY <2>1, StepFacts DEF Shapes, JobFields
    <2>3. DOMAIN disk' = Files
        BY <2>1 DEF Shapes
    <2>. QED
        BY <2>1, <2>2, <2>3, ShapesFiles DEF Generate, SameCall
<1>. QED
    BY <1>1, <1>2, <1>3 DEF Generate

\* Nor is what the parser of logs does by hand.
LEMMA ParseKeeps ==
    ASSUME EquationInv, ParseByHand
    PROVE  EquationInv'
<1>. SUFFICES Shapes' /\ job'.tool = "parse"
    BY OtherTool DEF EquationInv
<1>1. job'.tool = "parse" /\ DOMAIN job' = {"tool", "step", "args", "done", "ok"}
    BY DEF ParseByHand
<1>2. UNCHANGED <<trial, logs, equation, scenario, disk>>
    BY DEF ParseByHand, UntouchedPipeline
<1>. QED
    BY <1>1, <1>2 DEF EquationInv, Shapes

\* Nor what the formatter of answers does.
LEMMA FormatKeeps ==
    ASSUME EquationInv, write_stats_to_json_file
    PROVE  EquationInv'
<1>. SUFFICES Shapes' /\ job'.tool = "format"
    BY OtherTool DEF EquationInv
<1>1. DOMAIN job = {"tool", "step", "args", "done", "ok"}
    BY DEF EquationInv, Shapes
<1>2. job'.tool = "format" /\ DOMAIN job' = {"tool", "step", "args", "done", "ok"}
    BY <1>1 DEF write_stats_to_json_file
<1>3. UNCHANGED <<trial, logs, equation, scenario, disk>>
    BY DEF write_stats_to_json_file
<1>. QED
    BY <1>2, <1>3 DEF EquationInv, Shapes

\* The state the invariant is about.
invVars == <<scenario, disk, job, trial, logs, equation, json, tasks, results, joined>>

\* A step that changes nothing of it keeps the invariant.
LEMMA Unchanged ==
    ASSUME EquationInv, UNCHANGED invVars
    PROVE  EquationInv'
<1>1. /\ scenario' = scenario /\ disk' = disk /\ job' = job /\ trial' = trial /\ logs' = logs
      /\ equation' = equation /\ json' = json /\ tasks' = tasks /\ results' = results /\ joined' = joined
    BY DEF invVars
<1>2. SameCall
    BY <1>1 DEF SameCall, EquationInv, Shapes, JobFields
<1>3. Shapes'
    BY <1>1 DEF EquationInv, Shapes
<1>4. FilesOwn'
    BY <1>1, <1>2, FilesStay DEF EquationInv
<1>5. TrialsOwn'
    <2>1. \A c : OwnJson(c)' <=> OwnJson(c)
        BY <1>1, <1>2, SameOwn, SameScenario DEF OwnJson
    <2>. QED
        BY <1>1, <1>2, <2>1, SameOwn, SameScenario DEF EquationInv, TrialsOwn, Broken
<1>6. LogsOwn'
    <2>1. ASSUME job.tool = "isolated" PROVE IsolatedFresh'
        <3>1. S' = S /\ \A some : PairsOf(some)' = PairsOf(some)
            BY <1>1 DEF S, PairsOf
        <3>2. IsolatedFresh
            BY <2>1 DEF EquationInv, LogsOwn
        <3>. QED
            BY <1>1, <3>1, <3>2 DEF IsolatedFresh
    <2>2. OwnDirectory' <=> OwnDirectory
        BY <1>1, SameScenario DEF OwnDirectory
    <2>. QED
        BY <1>1, <1>2, <2>1, <2>2, SameOwn, SameScenario DEF EquationInv, LogsOwn
<1>. QED
    BY <1>3, <1>4, <1>5, <1>6 DEF EquationInv

-----------------------------------------------------------------------------
(* The script's steps. *)

\* The steps before the script writes the directory of files.
BeforeFiles == {"parse", "addresses", "main", "baseline", "quatex", "parallel"}

\* Until then no file of the isolated channels is there, and no log.
LEMMA LogsEarly ==
    ASSUME LogsOwn, scenario' = scenario, SameCall, results' = results, disk'["baselines"] = disk["baselines"],
           job.step \in BeforeFiles, job'.step \in BeforeFiles \cup {"failed"}
    PROVE  LogsOwn'
<1>1. job'.tool = job.tool /\ job'.step \notin {"list", "running", "join", "done", "eqtmp", "run"}
    BY DEF SameCall, BeforeFiles
<1>2. IsolatedFresh'
    BY <1>1 DEF IsolatedFresh
<1>. QED
    BY <1>1, <1>2 DEF LogsOwn, BeforeFiles

\* A pair's file of the isolated channels is of that pair alone.
LEMMA OwnPairFiles ==
    ASSUME job.args = IsolatedArgs, NEW main, NEW old, old = NoFile
    PROVE  Overlay(PairFiles(job.args, ComboVantages(S, job.args.combo), ComboFeatures(job.args.combo), main), old)
             = [f \in OwnFiles |-> [vpts |-> {f[1]}, feats |-> {f[2]}]]
<1>. DEFINE new == PairFiles(job.args, ComboVantages(S, job.args.combo), ComboFeatures(job.args.combo), main)
<1>1. job.args.combo = "combo1" /\ job.args.perf = FALSE /\ job.args.baselineTime = IsolatedArgs.baselineTime
    BY DEF IsolatedArgs
<1>2. new = [f \in OwnFiles |-> [vpts |-> IF job.args.perf THEN main.vpts ELSE {f[1]},
                                  feats |-> IF job.args.perf THEN main.feats ELSE {f[2]}]]
    BY <1>1 DEF PairFiles, OwnFiles, OwnIds
<1>3. new = [f \in OwnFiles |-> [vpts |-> {f[1]}, feats |-> {f[2]}]]
    BY <1>1, <1>2
<1>. HIDE DEF new
<1>4. Overlay(new, old) = new
    <2>1. DOMAIN old = {}
        BY DEF NoFile
    <2>. QED
        BY <1>3, <2>1 DEF Overlay
<1>. QED
    BY <1>3, <1>4 DEF new

\* The script's steps, by hand or for a pipeline.
LEMMA ScriptKeeps ==
    ASSUME EquationInv, Script, UNCHANGED <<trial, logs, equation, json>>, UNCHANGED parallelVars
    PROVE  EquationInv'
<1>. USE DEF EquationInv
<1>0. scenario' = scenario /\ results' = results /\ tasks' = tasks /\ joined' = joined /\ UNCHANGED <<trial, logs, equation>>
    BY DEF Script, parallelVars
<1>1. CASE StartScript
    <2>1. Shapes' /\ job'.tool = "script"
        BY <1>0, <1>1 DEF StartScript, Start, Shapes
    <2>. QED
        BY <2>1, OtherTool
<1>2. CASE ScriptParse
    <2>1. /\ job.step = "parse" /\ disk' = disk /\ SameCall /\ job'.step \in {"addresses", "failed"}
        BY <1>2, SkipFacts DEF ScriptParse
    <2>2. Shapes'
        BY <1>0, <2>1, ShapesFiles DEF Shapes
    <2>3. FilesOwn'
        BY <2>1, FilesEnded DEF FromMain, FromTemplate
    <2>4. TrialsOwn'
        BY <2>1, NoTrials
    <2>5. LogsOwn'
        BY <1>0, <2>1, LogsEarly DEF BeforeFiles
    <2>. QED
        BY <2>2, <2>3, <2>4, <2>5
<1>3. CASE ScriptAddresses
    <2>1. job.step = "addresses" /\ Write("addresses", [clients |-> get_client_lst(S)], "main") /\ "addresses" \in Files
        BY <1>3 DEF ScriptAddresses, Files
    <2>2. /\ DOMAIN disk' = Files /\ \A other \in Files \ {"addresses"} : disk'[other] = disk[other]
          /\ SameCall /\ job'.step = "main"
        BY <2>1, WriteFacts
    <2>3. Shapes'
        BY <1>0, <2>2, ShapesFiles
    <2>4. FilesOwn'
        BY <2>2, FilesEnded DEF FromMain, FromTemplate
    <2>5. TrialsOwn'
        BY <2>2, NoTrials
    <2>6. LogsOwn'
        BY <1>0, <2>1, <2>2, LogsEarly DEF BeforeFiles, Files
    <2>. QED
        BY <2>3, <2>4, <2>5, <2>6
<1>4. CASE ScriptMain
    <2>1. job.step = "main" /\ "main" \in Files
        BY <1>4 DEF ScriptMain, Files
    <2>2. CASE Fail
        <3>1. disk' = disk /\ SameCall /\ job'.step = "failed"
            BY <2>2, SkipFacts
        <3>2. Shapes'
            BY <1>0, <3>1, ShapesFiles DEF Shapes
        <3>3. FilesOwn'
            BY <3>1, FilesEnded DEF FromMain, FromTemplate
        <3>4. TrialsOwn'
            BY <3>1, NoTrials
        <3>5. LogsOwn'
            BY <1>0, <2>1, <3>1, LogsEarly DEF BeforeFiles
        <3>. QED
            BY <3>2, <3>3, <3>4, <3>5
    <2>3. CASE ComboComplete(S, job.args.combo) /\ Write("main", ScriptMainFile(S, job.args), "baseline")
        <3>1. /\ DOMAIN disk' = Files /\ disk'["main"] = ScriptMainFile(S, job.args)
              /\ \A other \in Files \ {"main"} : disk'[other] = disk[other]
              /\ SameCall /\ job'.step = "baseline"
            BY <2>1, <2>3, WriteFacts
        <3>2. Shapes'
            BY <1>0, <3>1, ShapesFiles
        <3>3. FilesOwn'
            <4>1. S' = S /\ job'.args = job.args
                BY <1>0, <3>1, SameScenario DEF SameCall
            <4>2. ScriptMainFile(S, job.args)' = ScriptMainFile(S, job.args)
                BY <4>1 DEF ScriptMainFile, MainFile
            <4>3. ComboComplete(S, job.args.combo)' = ComboComplete(S, job.args.combo)
                BY <4>1 DEF ComboComplete
            <4>4. job'.step \notin FromTemplate
                BY <3>1 DEF FromTemplate
            <4>. QED
                BY <2>3, <3>1, <4>2, <4>3, <4>4 DEF FilesOwn
        <3>4. TrialsOwn'
            BY <3>1, NoTrials
        <3>5. LogsOwn'
            BY <1>0, <2>1, <3>1, LogsEarly DEF BeforeFiles, Files
        <3>. QED
            BY <3>2, <3>3, <3>4, <3>5
    <2>. QED
        BY <1>4, <2>2, <2>3 DEF ScriptMain
<1>5. CASE ScriptBaseline
    <2>1. job.step = "baseline" /\ "baseline" \in Files
        BY <1>5 DEF ScriptBaseline, Files
    <2>2. PICK content : Write("baseline", content, "quatex")
        BY <1>5 DEF ScriptBaseline
    <2>3. /\ DOMAIN disk' = Files /\ \A other \in Files \ {"baseline"} : disk'[other] = disk[other]
          /\ SameCall /\ job'.step = "quatex"
        BY <2>1, <2>2, WriteFacts
    <2>4. Shapes'
        BY <1>0, <2>3, ShapesFiles
    <2>5. FilesOwn'
        BY <1>0, <2>1, <2>3, FilesStay DEF FromMain, FromTemplate, Files
    <2>6. TrialsOwn'
        BY <2>3, NoTrials
    <2>7. LogsOwn'
        BY <1>0, <2>1, <2>3, LogsEarly DEF BeforeFiles, Files
    <2>. QED
        BY <2>4, <2>5, <2>6, <2>7
<1>6. CASE ScriptQuatex
    <2>1. job.step = "quatex" /\ "quatex" \in Files
        BY <1>6 DEF ScriptQuatex, Files
    <2>2. /\ DOMAIN disk' = Files /\ \A other \in Files \ {"quatex"} : disk'[other] = disk[other]
          /\ SameCall /\ job'.step = "parallel"
        <3>1. CASE Skip("parallel")
            BY <3>1, SkipFacts DEF Shapes
        <3>2. CASE Write("quatex", ScriptQuatexFile(S, job.args), "parallel")
            BY <2>1, <3>2, WriteFacts
        <3>. QED
            BY <1>6, <3>1, <3>2 DEF ScriptQuatex
    <2>4. Shapes'
        BY <1>0, <2>2, ShapesFiles
    <2>5. FilesOwn'
        BY <1>0, <2>1, <2>2, FilesStay DEF FromMain, FromTemplate, Files
    <2>6. TrialsOwn'
        BY <2>2, NoTrials
    <2>7. LogsOwn'
        BY <1>0, <2>1, <2>2, LogsEarly DEF BeforeFiles, Files
    <2>. QED
        BY <2>4, <2>5, <2>6, <2>7
<1>7. CASE ScriptParallel
    <2>. DEFINE content == Overlay(PairFiles(job.args, ComboVantages(S, job.args.combo), ComboFeatures(job.args.combo),
                                             disk["main"]), disk["baselines"])
    <2>1. job.step = "parallel" /\ "baselines" \in Files
        BY <1>7 DEF ScriptParallel, Files
    <2>2. \/ job.args.parallelizeBaseline /\ Write("baselines", content, "eqtmp")
          \/ ~job.args.parallelizeBaseline /\ Skip("eqtmp")
        BY <1>7 DEF ScriptParallel
    <2>. HIDE DEF content
    <2>3. /\ DOMAIN disk' = Files /\ \A other \in Files \ {"baselines"} : disk'[other] = disk[other]
          /\ SameCall /\ job'.step = "eqtmp"
          /\ job.args.parallelizeBaseline => disk'["baselines"] = content
        <3>1. CASE Write("baselines", content, "eqtmp")
            BY <2>1, <3>1, WriteFacts
        <3>2. CASE ~job.args.parallelizeBaseline /\ Skip("eqtmp")
            BY <3>2, SkipFacts DEF Shapes
        <3>. QED
            BY <2>2, <3>1, <3>2
    <2>4. Shapes'
        BY <1>0, <2>3, ShapesFiles
    <2>5. FilesOwn'
        BY <1>0, <2>1, <2>3, FilesStay DEF FromMain, FromTemplate, Files
    <2>6. TrialsOwn'
        BY <2>3, NoTrials
    <2>7. LogsOwn'
        <3>. SUFFICES ASSUME job'.tool = "isolated" PROVE LogsOwn'
            BY DEF LogsOwn
        <3>1. job.tool = "isolated" /\ job'.args = job.args
            BY <2>3 DEF SameCall
        <3>2. job.args = IsolatedArgs /\ disk["baselines"] = NoFile
            BY <2>1, <3>1 DEF Shapes, LogsOwn
        <3>3. content = [f \in OwnFiles |-> [vpts |-> {f[1]}, feats |-> {f[2]}]]
            BY <3>2, OwnPairFiles DEF content
        <3>4. job.args.parallelizeBaseline
            BY <3>2 DEF IsolatedArgs
        <3>5. OwnDirectory'
            BY <1>0, <2>3, <3>3, <3>4, SameScenario DEF OwnDirectory
        <3>6. results' = NoLogs
            BY <1>0, <2>1, <3>1 DEF LogsOwn
        <3>7. IsolatedFresh'
            BY <2>3 DEF IsolatedFresh
        <3>. QED
            BY <2>3, <3>5, <3>6, <3>7 DEF LogsOwn
    <2>. QED
        BY <2>4, <2>5, <2>6, <2>7
<1>8. CASE ScriptEqTmp
    <2>1. job.step = "eqtmp" /\ "eqtmp" \in Files /\ Write("eqtmp", [bl |-> "nil"], "run")
        BY <1>8 DEF ScriptEqTmp, Files
    <2>2. /\ DOMAIN disk' = Files /\ disk'["eqtmp"] = [bl |-> "nil"]
          /\ \A other \in Files \ {"eqtmp"} : disk'[other] = disk[other]
          /\ SameCall /\ job'.step = "run"
        BY <2>1, WriteFacts
    <2>3. Shapes'
        BY <1>0, <2>2, ShapesFiles
    <2>4. FilesOwn'
        <3>1. S' = S /\ job'.args = job.args
            BY <1>0, <2>2, SameScenario DEF SameCall
        <3>2. ScriptMainFile(S, job.args)' = ScriptMainFile(S, job.args)
            BY <3>1 DEF ScriptMainFile, MainFile
        <3>3. ComboComplete(S, job.args.combo)' = ComboComplete(S, job.args.combo)
            BY <3>1 DEF ComboComplete
        <3>4. Written' = Written
            BY <2>2 DEF Written, SameCall
        <3>5. job.step \in FromMain /\ disk'["main"] = disk["main"]
            BY <2>1, <2>2 DEF FromMain, Files
        <3>. QED
            BY <2>2, <3>2, <3>3, <3>4, <3>5 DEF FilesOwn
    <2>5. TrialsOwn'
        BY <2>2, NoTrials
    <2>6. LogsOwn'
        <3>1. disk'["baselines"] = disk["baselines"]
            BY <2>2 DEF Files
        <3>2. IsolatedFresh'
            BY <2>2 DEF IsolatedFresh
        <3>. QED
            BY <1>0, <2>1, <2>2, <3>1, <3>2, SameScenario DEF LogsOwn, OwnDirectory, SameCall
    <2>. QED
        BY <2>3, <2>4, <2>5, <2>6
<1>9. CASE ScriptRun
    <2>. DEFINE content == RunFile(disk["main"], job.args.perf, ScriptLimit(job.args.runTime), job.args.combo)
    <2>1. job.step = "run" /\ disk' = [disk EXCEPT !["run"] = content] /\ job.tool \in ScriptCallers
        BY <1>9 DEF ScriptRun
    <2>2. SameCall /\ job'.step = CASE job.tool = "script" -> "done" [] job.tool = "pipeline" -> "trials"
                                   [] job.tool = "isolated" -> "list"
        <3>1. DOMAIN job = JobFields /\ TRUE \in BOOLEAN
            BY DEF Shapes, JobFields
        <3>2. CASE job.tool = "script"
            <4>1. job' = Ended(TRUE)
                BY <1>9, <3>2 DEF ScriptRun
            <4>. QED
                BY <3>1, <3>2, <4>1, StepFacts
        <3>3. CASE job.tool = "pipeline"
            <4>1. Goto("trials")
                BY <1>9, <3>3 DEF ScriptRun, Goto
            <4>. QED
                BY <3>1, <3>3, <4>1, StepFacts
        <3>4. CASE job.tool = "isolated"
            <4>1. Goto("list")
                BY <1>9, <3>4 DEF ScriptRun, Goto
            <4>. QED
                BY <3>1, <3>4, <4>1, StepFacts
        <3>. QED
            BY <2>1, <3>2, <3>3, <3>4 DEF ScriptCallers
    <2>. HIDE DEF content
    <2>3. /\ DOMAIN disk' = Files /\ disk'["run"] = content
          /\ \A other \in Files \ {"run"} : disk'[other] = disk[other]
        BY <2>1 DEF Shapes, Files
    <2>4. Shapes'
        BY <1>0, <2>2, <2>3, ShapesFiles
    <2>5. FilesOwn'
        BY <1>0, <2>1, <2>2, <2>3, FilesStay DEF FromMain, FromTemplate, Files
    <2>6. TrialsOwn'
        BY <2>1, <2>2, NoTrials DEF ScriptCallers, SameCall
    <2>7. LogsOwn'
        <3>. SUFFICES ASSUME job'.tool = "isolated" PROVE LogsOwn'
            BY DEF LogsOwn
        <3>1. job.tool = "isolated" /\ job'.step = "list"
            BY <2>2 DEF SameCall
        <3>2. job.args.combo = "combo1" /\ job.args.perf = FALSE
            BY <3>1 DEF Shapes, IsolatedArgs
        <3>3. content.equation = "combo1"
            BY <3>2 DEF content, RunFile
        <3>4. IsolatedFresh'
            BY <3>1 DEF IsolatedFresh
        <3>5. disk'["baselines"] = disk["baselines"]
            BY <2>3 DEF Files
        <3>. QED
            BY <1>0, <2>1, <2>3, <3>1, <3>3, <3>4, <3>5, SameScenario DEF LogsOwn, OwnDirectory
    <2>. QED
        BY <2>4, <2>5, <2>6, <2>7
<1>. QED
    BY <1>1, <1>2, <1>3, <1>4, <1>5, <1>6, <1>7, <1>8, <1>9 DEF Script

-----------------------------------------------------------------------------
(* The steps of the pipeline of trials. *)

\* Steps of a pipeline leave nothing to say of the isolated channels.
LEMMA NoIsolated ==
    ASSUME job'.tool = "pipeline"
    PROVE  LogsOwn'
BY DEF LogsOwn, IsolatedFresh

\* A pipeline's arguments are of its list.
LEMMA PipelineTypes ==
    ASSUME Shapes, job.tool = "pipeline"
    PROVE  /\ job.args \in PipelineArgs /\ job.args.combo \in Combos /\ job.args.combo \in ScriptCombos
           /\ job.args.trials \in Nat \ {0} /\ 1 .. job.args.trials \subseteq Trials /\ Trials \subseteq Nat
           /\ scenario \in Scenarios /\ scenario.number \in {1, 2}
<1>1. job.args \in PipelineArgs /\ scenario \in Scenarios /\ scenario.number \in {1, 2}
    BY DEF Shapes
<1>2. job.args.combo \in Combos /\ job.args.combo \in ScriptCombos
    BY <1>1, TrialsAssumption DEF Combos
<1>3. job.args.trials \in 1 .. Len(Samples) /\ Samples \in Seq(Seq(Int))
    BY <1>1, TrialsAssumption
<1>4. Trials = 1 .. Len(Samples) /\ Len(Samples) \in Nat
    BY <1>3 DEF Trials
<1>. QED
    BY <1>1, <1>2, <1>3, <1>4

\* A pipeline that starts has everything before it, or says that it skips it.
LEMMA StartPipelineKeeps ==
    ASSUME EquationInv, StartPipeline
    PROVE  EquationInv'
<1>1. PICK args \in PipelineArgs :
        /\ scenario.number \in {1, 2}
        /\ job' = [tool |-> "pipeline", args |-> args, done |-> job.done + 1, ok |-> TRUE,
                   step |-> IF args.skipGen THEN "trials" ELSE "parse"]
    BY DEF StartPipeline
<1>2. UNCHANGED <<scenario, disk, trial, logs, equation>>
    BY DEF StartPipeline, Untouched
<1>3. /\ job'.tool = "pipeline" /\ job'.args = args /\ DOMAIN job' = {"tool", "step", "args", "done", "ok"}
      /\ job'.step = IF args.skipGen THEN "trials" ELSE "parse"
    BY <1>1
<1>4. Shapes'
    BY <1>1, <1>2, <1>3 DEF EquationInv, Shapes
<1>5. FilesOwn'
    BY <1>3 DEF FilesOwn, Written, FromMain, FromTemplate
<1>6. TrialsOwn'
    BY <1>3, NoTrials
<1>. QED
    BY <1>3, <1>4, <1>5, <1>6, NoIsolated DEF EquationInv

\* A pipeline's later steps write no file: only the trials are left to look at.
LEMMA PipelineStep ==
    ASSUME EquationInv, job.tool = "pipeline", scenario' = scenario, disk' = disk, SameCall,
           job'.step \in FromMain => job.step \in FromMain,
           job'.step \in FromTemplate => job.step \in FromTemplate,
           DOMAIN trial' = Trials, DOMAIN logs' = Combos, \A c \in Combos : DOMAIN logs'[c] = Trials,
           DOMAIN equation' = Combos, \A c \in Combos : DOMAIN equation'[c] = {"temp", "out"},
           TrialsOwn'
    PROVE  EquationInv'
<1>1. DOMAIN disk' = Files
    BY DEF EquationInv, Shapes
<1>2. Shapes'
    BY <1>1, ShapesStay DEF EquationInv
<1>3. FilesOwn'
    BY FilesStay DEF EquationInv
<1>4. LogsOwn'
    BY NoIsolated DEF SameCall
<1>. QED
    BY <1>2, <1>3, <1>4 DEF EquationInv

\* The shapes of what a pipeline leaves alone.
LEMMA OldShapes ==
    ASSUME EquationInv
    PROVE  /\ DOMAIN job = JobFields /\ DOMAIN trial = Trials
           /\ DOMAIN logs = Combos /\ \A c \in Combos : DOMAIN logs[c] = Trials
           /\ DOMAIN equation = Combos /\ \A c \in Combos : DOMAIN equation[c] = {"temp", "out"}
BY DEF EquationInv, Shapes, JobFields

\* Every trial of the call waits to be started.
LEMMA SetUpTrialsKeeps ==
    ASSUME EquationInv, SetUpTrials
    PROVE  EquationInv'
<1>1. job.tool = "pipeline" /\ job.step = "trials" /\ scenario' = scenario /\ disk' = disk /\ logs' = logs /\ equation' = equation
    BY DEF SetUpTrials, InPipeline, Untouched
<1>2. \/ job.args.skipRun /\ Goto("combine") /\ trial' = trial
      \/ job' = Ended(FALSE) /\ trial' = trial
      \/ Goto("running") /\ trial' = [i \in Trials |-> IF i <= job.args.trials THEN "waiting" ELSE "none"]
    BY DEF SetUpTrials
<1>3. CASE job.args.skipRun /\ Goto("combine") /\ trial' = trial
    <2>1. SameCall /\ job'.step = "combine"
        BY <1>3, OldShapes, StepFacts
    <2>2. TrialsOwn'
        BY <1>3, <2>1 DEF TrialsOwn, SameCall
    <2>. QED
        BY <1>1, <1>3, <2>1, <2>2, OldShapes, PipelineStep DEF FromMain, FromTemplate
<1>4. CASE job' = Ended(FALSE) /\ trial' = trial
    <2>1. SameCall /\ job'.step = "failed"
        <3>1. FALSE \in BOOLEAN
            OBVIOUS
        <3>. QED
            BY <1>4, <3>1, OldShapes, StepFacts
    <2>2. TrialsOwn'
        BY <2>1, NoTrials
    <2>. QED
        BY <1>1, <1>4, <2>1, <2>2, OldShapes, PipelineStep DEF FromMain, FromTemplate
<1>5. CASE Goto("running") /\ trial' = [i \in Trials |-> IF i <= job.args.trials THEN "waiting" ELSE "none"]
    <2>1. SameCall /\ job'.step = "running"
        BY <1>5, OldShapes, StepFacts
    <2>2. \A i \in 1 .. job.args.trials : trial'[i] = "waiting"
        <3>1. 1 .. job.args.trials \subseteq Trials /\ job.args.trials \in Nat
            BY <1>1, PipelineTypes DEF EquationInv
        <3>. QED
            BY <1>5, <3>1
    <2>3. DOMAIN trial' = Trials
        BY <1>5
    <2>4. TrialsOwn'
        BY <2>1, <2>2 DEF TrialsOwn, SameCall
    <2>. QED
        BY <1>1, <2>1, <2>3, <2>4, OldShapes, PipelineStep DEF FromMain, FromTemplate
<1>. QED
    BY <1>2, <1>3, <1>4, <1>5

\* One log of one combo is written.
LEMMA LogWritten ==
    ASSUME EquationInv, job.tool = "pipeline", NEW i \in Trials, NEW new, NEW st,
           trial' = [trial EXCEPT ![i] = st], logs' = [logs EXCEPT ![job.args.combo][i] = new]
    PROVE  /\ DOMAIN trial' = Trials /\ DOMAIN logs' = Combos /\ \A c \in Combos : DOMAIN logs'[c] = Trials
           /\ trial'[i] = st /\ \A k \in Trials \ {i} : trial'[k] = trial[k]
           /\ logs'[job.args.combo][i] = new
           /\ \A k \in Trials \ {i} : logs'[job.args.combo][k] = logs[job.args.combo][k]
<1>. DEFINE combo == job.args.combo
            mine == [logs[combo] EXCEPT ![i] = new]
<1>1. combo \in Combos
    BY PipelineTypes DEF EquationInv
<1>2. logs' = [logs EXCEPT ![combo] = mine]
    OBVIOUS
<1>3. DOMAIN mine = Trials /\ mine[i] = new /\ \A k \in Trials \ {i} : mine[k] = logs[combo][k]
    BY <1>1, OldShapes
<1>. HIDE DEF mine, combo
<1>4. DOMAIN logs' = Combos /\ logs'[combo] = mine /\ \A c \in Combos \ {combo} : logs'[c] = logs[c]
    BY <1>1, <1>2, OldShapes
<1>5. \A c \in Combos : DOMAIN logs'[c] = Trials
    BY <1>3, <1>4, OldShapes
<1>6. DOMAIN trial' = Trials /\ trial'[i] = st /\ \A k \in Trials \ {i} : trial'[k] = trial[k]
    BY OldShapes
<1>. QED
    BY <1>3, <1>4, <1>5, <1>6 DEF combo

\* A trial whose log could be opened is started with a broken log; else it has failed.
LEMMA StartTrialKeeps ==
    ASSUME EquationInv, NEW i \in Trials, StartTrial(i)
    PROVE  EquationInv'
<1>1. /\ job.tool = "pipeline" /\ job.step = "running" /\ trial[i] = "waiting"
      /\ scenario' = scenario /\ disk' = disk /\ job' = job /\ equation' = equation
      /\ \/ trial' = [trial EXCEPT ![i] = "running"] /\ logs' = [logs EXCEPT ![job.args.combo][i] = Broken]
         \/ trial' = [trial EXCEPT ![i] = "failed"] /\ logs' = logs
    BY DEF StartTrial, InPipeline, Untouched
<1>2. SameCall
    BY <1>1, OldShapes DEF SameCall
<1>3. /\ DOMAIN trial' = Trials /\ DOMAIN logs' = Combos /\ \A c \in Combos : DOMAIN logs'[c] = Trials
      /\ \/ trial'[i] = "running" /\ logs'[job.args.combo][i] = Broken
         \/ trial'[i] = "failed"
      /\ \A k \in Trials \ {i} : trial'[k] = trial[k]
      /\ \A k \in Trials \ {i} : logs'[job.args.combo][k] = logs[job.args.combo][k]
    <2>1. CASE trial' = [trial EXCEPT ![i] = "running"] /\ logs' = [logs EXCEPT ![job.args.combo][i] = Broken]
        BY <1>1, <2>1, LogWritten
    <2>2. CASE trial' = [trial EXCEPT ![i] = "failed"] /\ logs' = logs
        BY <2>2, OldShapes
    <2>. QED
        BY <1>1, <2>1, <2>2
<1>4. TrialsOwn'
    <2>. SUFFICES ASSUME ~job.args.skipGen, ~job.args.skipRun, NEW k \in 1 .. job.args.trials
                  PROVE  /\ trial'[k] # "none"
                         /\ trial'[k] \in {"running", "ok"} => logs'[job.args.combo][k] \in {OwnLog(k)', Broken}
        BY <1>1 DEF TrialsOwn, Broken
    <2>1. k \in Trials
        BY <1>1, PipelineTypes DEF EquationInv
    <2>2. trial[k] # "none" /\ (trial[k] \in {"running", "ok"} => logs[job.args.combo][k] \in {OwnLog(k), Broken})
        BY <1>1 DEF EquationInv, TrialsOwn
    <2>3. OwnLog(k)' = OwnLog(k)
        BY <1>1, <1>2, SameOwn
    <2>. QED
        BY <1>3, <2>1, <2>2, <2>3
<1>. QED
    BY <1>1, <1>2, <1>3, <1>4, OldShapes, PipelineStep

\* A trial that has a result has the pairs of the main file, and they are the combo's;
\* without one its log stays broken, whatever its exit status.
LEMMA FinishTrialKeeps ==
    ASSUME EquationInv, NEW i \in Trials, FinishTrial(i)
    PROVE  EquationInv'
<1>. DEFINE log == [result |-> TRUE, pairs |-> disk["main"].vpts \X disk["main"].feats,
                    k |-> i, ecdf |-> Samples[i], by |-> job.done]
<1>1. /\ job.tool = "pipeline" /\ job.step = "running" /\ trial[i] = "running"
      /\ scenario' = scenario /\ disk' = disk /\ job' = job /\ equation' = equation
    BY DEF FinishTrial, InPipeline, Untouched
<1>2. SameCall
    BY <1>1, OldShapes DEF SameCall
<1>3. PICK st \in {"ok", "failed"} : trial' = [trial EXCEPT ![i] = st]
    BY DEF FinishTrial
<1>4. ASSUME ~job.args.skipGen PROVE log = OwnLog(i)
    <2>1. Written /\ job.step \in FromMain
        BY <1>1, <1>4 DEF Written, FromMain, FromTemplate
    <2>2. disk["main"] = ScriptMainFile(S, job.args)
        BY <2>1 DEF EquationInv, FilesOwn
    <2>3. disk["main"].vpts = OwnIds(job.args.combo) /\ disk["main"].feats = ComboFeatures(job.args.combo)
        BY <2>2 DEF ScriptMainFile, MainFile, OwnIds
    <2>. QED
        BY <2>3 DEF OwnLog, OwnPairs
<1>5. logs' = [logs EXCEPT ![job.args.combo][i] = log] \/ logs' = logs
    BY DEF FinishTrial
<1>. HIDE DEF log
<1>6. /\ DOMAIN trial' = Trials /\ DOMAIN logs' = Combos /\ \A c \in Combos : DOMAIN logs'[c] = Trials
      /\ trial'[i] # "none" /\ \A k \in Trials \ {i} : trial'[k] = trial[k]
      /\ logs'[job.args.combo][i] \in {log, logs[job.args.combo][i]}
      /\ \A k \in Trials \ {i} : logs'[job.args.combo][k] = logs[job.args.combo][k]
    <2>1. CASE logs' = logs
        BY <1>3, <2>1, OldShapes
    <2>2. CASE logs' = [logs EXCEPT ![job.args.combo][i] = log]
        BY <1>1, <1>3, <2>2, LogWritten
    <2>. QED
        BY <1>5, <2>1, <2>2
<1>7. TrialsOwn'
    <2>. SUFFICES ASSUME ~job.args.skipGen, ~job.args.skipRun, NEW k \in 1 .. job.args.trials
                  PROVE  /\ trial'[k] # "none"
                         /\ trial'[k] \in {"running", "ok"} => logs'[job.args.combo][k] \in {OwnLog(k)', Broken}
        BY <1>1 DEF TrialsOwn, Broken
    <2>1. k \in Trials
        BY <1>1, PipelineTypes DEF EquationInv
    <2>2. trial[k] # "none" /\ (trial[k] \in {"running", "ok"} => logs[job.args.combo][k] \in {OwnLog(k), Broken})
        BY <1>1 DEF EquationInv, TrialsOwn
    <2>3. OwnLog(k)' = OwnLog(k)
        BY <1>1, <1>2, SameOwn
    <2>4. CASE k = i
        BY <1>1, <1>4, <1>6, <2>2, <2>3, <2>4
    <2>5. CASE k # i
        BY <1>6, <2>1, <2>2, <2>3, <2>5
    <2>. QED
        BY <2>4, <2>5
<1>. QED
    BY <1>1, <1>2, <1>6, <1>7, OldShapes, PipelineStep

\* When no trial failed and all are over, every log is of this call.
LEMMA TrialsOverKeeps ==
    ASSUME EquationInv, TrialsOver
    PROVE  EquationInv'
<1>1. /\ job.tool = "pipeline" /\ job.step = "running" /\ scenario' = scenario /\ disk' = disk
      /\ trial' = trial /\ logs' = logs /\ equation' = equation
      /\ \A i \in Trials : trial[i] \in {"none", "ok", "failed"}
    BY DEF TrialsOver, InPipeline, Untouched
<1>2. CASE \E i \in Trials : trial[i] = "failed"
    <2>1. job' = Ended(FALSE) /\ FALSE \in BOOLEAN
        BY <1>2 DEF TrialsOver
    <2>2. SameCall /\ job'.step = "failed"
        BY <2>1, OldShapes, StepFacts
    <2>3. TrialsOwn'
        BY <2>2, NoTrials
    <2>. QED
        BY <1>1, <2>2, <2>3, OldShapes, PipelineStep DEF FromMain, FromTemplate
<1>3. CASE ~\E i \in Trials : trial[i] = "failed"
    <2>1. Goto("combine")
        BY <1>3 DEF TrialsOver
    <2>2. SameCall /\ job'.step = "combine"
        BY <2>1, OldShapes, StepFacts
    <2>3. ASSUME ~job.args.skipGen, ~job.args.skipRun, NEW i \in 1 .. job.args.trials
          PROVE  logs'[job.args.combo][i] \in {OwnLog(i)', Broken}
        <3>1. i \in Trials
            BY <1>1, PipelineTypes DEF EquationInv
        <3>2. trial[i] # "none" /\ (trial[i] \in {"running", "ok"} => logs[job.args.combo][i] \in {OwnLog(i), Broken})
            BY <1>1, <2>3 DEF EquationInv, TrialsOwn
        <3>3. trial[i] = "ok"
            BY <1>1, <1>3, <3>1, <3>2
        <3>4. OwnLog(i)' = OwnLog(i)
            BY <1>1, <2>2, SameOwn
        <3>. QED
            BY <1>1, <3>2, <3>3, <3>4
    <2>4. TrialsOwn'
        BY <2>2, <2>3 DEF TrialsOwn, SameCall, Broken
    <2>. QED
        BY <1>1, <2>2, <2>4, OldShapes, PipelineStep DEF FromMain, FromTemplate
<1>. QED
    BY <1>2, <1>3

\* The call's own logs give its own equation.
LEMMA OwnCombined ==
    ASSUME job.args.trials \in Nat \ {0}, \A i \in 1 .. job.args.trials : logs[job.args.combo][i] = OwnLog(i)
    PROVE  CombinedEquation = OwnEquation
<1>1. Used = OwnUsed
    BY DEF Used, OwnUsed
<1>2. Used[1].pairs = OwnPairs(job.args.combo) /\ Len(Used) = job.args.trials
    <2>. DEFINE n == job.args.trials
    <2>1. Used = [i \in 1 .. n |-> OwnLog(i)] /\ n \in Nat /\ 1 \in 1 .. n
        BY <1>1 DEF OwnUsed
    <2>2. Used[1] = OwnLog(1)
        BY <2>1
    <2>3. Len(Used) = n
        <3>. HIDE DEF n
        <3>. QED
            BY <2>1
    <2>. QED
        BY <2>2, <2>3 DEF OwnLog
<1>. QED
    BY <1>1, <1>2 DEF CombinedEquation, OwnEquation

\* With the template of this call there is an equation to replace.
LEMMA CombineKeeps ==
    ASSUME EquationInv, Combine
    PROVE  EquationInv'
<1>. DEFINE combo == job.args.combo
<1>1. /\ job.tool = "pipeline" /\ job.step = "combine" /\ scenario' = scenario /\ disk' = disk
      /\ trial' = trial /\ logs' = logs
    BY DEF Combine, InPipeline, Untouched
<1>2. CASE Combinable
    <2>1. equation' = [equation EXCEPT ![combo].temp = NewEquation] /\ Goto("write")
        BY <1>2 DEF Combine
    <2>2. SameCall /\ job'.step = "write"
        BY <2>1, OldShapes, StepFacts
    <2>3. combo \in Combos
        BY <1>1, PipelineTypes DEF EquationInv
    <2>4. /\ DOMAIN equation' = Combos /\ \A c \in Combos : DOMAIN equation'[c] = {"temp", "out"}
          /\ equation'[combo].temp = NewEquation
        BY <2>1, <2>3, OldShapes
    <2>5. ASSUME ~job.args.skipGen, ~job.args.skipRun
          PROVE  /\ \A i \in 1 .. job.args.trials : logs'[combo][i] = OwnLog(i)'
                 /\ equation'[combo].temp = OwnEquation'
        <3>1. \A i \in 1 .. job.args.trials : logs[combo][i] = OwnLog(i)
            <4>. SUFFICES ASSUME NEW i \in 1 .. job.args.trials PROVE logs[combo][i] = OwnLog(i)
                OBVIOUS
            <4>1. logs[combo][i] \in {OwnLog(i), Broken}
                BY <1>1, <2>5 DEF EquationInv, TrialsOwn
            <4>2. logs[combo][i].result
                BY <1>2, <1>1, PipelineTypes DEF Combinable, Used, EquationInv
            <4>3. Broken.result = FALSE
                BY DEF Broken
            <4>. QED
                BY <4>1, <4>2, <4>3
        <3>2. CombinedEquation = OwnEquation
            BY <1>1, <3>1, OwnCombined, PipelineTypes DEF EquationInv
        <3>3. disk["eqtmp"] = [bl |-> "nil"]
            BY <1>1, <2>5 DEF EquationInv, FilesOwn, Written, FromTemplate
        <3>4. disk["eqtmp"] # NoFile
            <4>1. DOMAIN [bl |-> "nil"] = {"bl"} /\ DOMAIN NoFile = {}
                BY DEF NoFile
            <4>. QED
                BY <3>3, <4>1
        <3>5. NewEquation = CombinedEquation
            BY <3>4 DEF NewEquation, Template
        <3>6. OwnEquation' = OwnEquation /\ \A i : OwnLog(i)' = OwnLog(i)
            BY <1>1, <2>2, SameOwn
        <3>. QED
            BY <1>1, <2>4, <3>1, <3>2, <3>5, <3>6
    <2>6. TrialsOwn'
        BY <2>2, <2>5 DEF TrialsOwn, SameCall
    <2>. QED
        BY <1>1, <2>2, <2>4, <2>6, OldShapes, PipelineStep DEF FromMain, FromTemplate
<1>3. CASE ~Combinable
    <2>1. job' = Ended(FALSE) /\ equation' = equation /\ FALSE \in BOOLEAN
        BY <1>3 DEF Combine
    <2>2. SameCall /\ job'.step = "failed"
        BY <2>1, OldShapes, StepFacts
    <2>3. TrialsOwn'
        BY <2>2, NoTrials
    <2>. QED
        BY <1>1, <2>1, <2>2, <2>3, OldShapes, PipelineStep DEF FromMain, FromTemplate
<1>. QED
    BY <1>2, <1>3

\* What the run includes is what was combined.
LEMMA WriteEquationKeeps ==
    ASSUME EquationInv, WriteEquation
    PROVE  EquationInv'
<1>. DEFINE combo == job.args.combo
<1>1. /\ job.tool = "pipeline" /\ job.step = "write" /\ scenario' = scenario /\ disk' = disk
      /\ trial' = trial /\ logs' = logs /\ Goto("json")
      /\ equation' = [equation EXCEPT ![combo].out = equation[combo].temp]
    BY DEF WriteEquation, InPipeline, Untouched
<1>2. SameCall /\ job'.step = "json"
    BY <1>1, OldShapes, StepFacts
<1>3. combo \in Combos
    BY <1>1, PipelineTypes DEF EquationInv
<1>4. /\ DOMAIN equation' = Combos /\ \A c \in Combos : DOMAIN equation'[c] = {"temp", "out"}
      /\ equation'[combo].out = equation[combo].temp
    BY <1>1, <1>3, OldShapes
<1>5. ASSUME ~job.args.skipGen, ~job.args.skipRun
      PROVE  /\ \A i \in 1 .. job.args.trials : logs'[combo][i] = OwnLog(i)'
             /\ equation'[combo].out = OwnEquation'
    <2>1. equation[combo].temp = OwnEquation /\ \A i \in 1 .. job.args.trials : logs[combo][i] = OwnLog(i)
        BY <1>1, <1>5 DEF EquationInv, TrialsOwn
    <2>2. OwnEquation' = OwnEquation /\ \A i : OwnLog(i)' = OwnLog(i)
        BY <1>1, <1>2, SameOwn
    <2>. QED
        BY <1>1, <1>4, <2>1, <2>2
<1>6. TrialsOwn'
    BY <1>2, <1>5 DEF TrialsOwn, SameCall
<1>. QED
    BY <1>1, <1>2, <1>4, <1>6, OldShapes, PipelineStep DEF FromMain, FromTemplate

\* The JSON files of this call's pairs, each under its network's name, have its numbers.
LEMMA WriteJsonKeeps ==
    ASSUME EquationInv, WriteJson
    PROVE  EquationInv'
<1>. DEFINE combo == job.args.combo
            of == JsonFiles
            numbers == [k |-> OwnEquation.k, ecdf |-> OwnEquation.ecdf]
<1>1. /\ job.tool = "pipeline" /\ job.step = "json" /\ scenario' = scenario /\ disk' = disk
      /\ trial' = trial /\ logs' = logs /\ equation' = equation /\ job' = Ended(TRUE) /\ TRUE \in BOOLEAN
      /\ json' = Overlay(of, json)
    BY DEF WriteJson, InPipeline, Untouched
<1>2. SameCall /\ job'.step = "done"
    BY <1>1, OldShapes, StepFacts
<1>3. ASSUME ~job.args.skipGen, ~job.args.skipRun
      PROVE  equation'[combo].out = OwnEquation' /\ OwnJson(combo)'
    <2>1. equation[combo].out = OwnEquation /\ \A i \in 1 .. job.args.trials : logs[combo][i] = OwnLog(i)
        BY <1>1, <1>3 DEF EquationInv, TrialsOwn
    <2>2. CombinedEquation = OwnEquation
        BY <1>1, <2>1, OwnCombined, PipelineTypes DEF EquationInv
    <2>3. CombinedEquation.pairs = OwnPairs(combo)
        BY <2>2 DEF OwnEquation
    <2>4. ComboComplete(S, combo)
        BY <1>1, <1>3 DEF EquationInv, FilesOwn, Written, FromMain, FromTemplate
    <2>5. \A p \in OwnNames(combo) : p \in DOMAIN json' /\ json'[p] = numbers
        <3>1. {<<JsonName(q[1]), q[2]>> : q \in OwnPairs(combo)} = OwnNames(combo)
            BY <1>1, <2>4, JsonNames, PipelineTypes DEF EquationInv
        <3>2. of = [p \in OwnNames(combo) |-> numbers]
            BY <2>2, <2>3, <3>1 DEF JsonFiles
        <3>3. DOMAIN of = OwnNames(combo) /\ \A p \in OwnNames(combo) : of[p] = numbers
            BY <3>2
        <3>. HIDE DEF of, numbers
        <3>4. \A p \in DOMAIN of : p \in DOMAIN Overlay(of, json) /\ Overlay(of, json)[p] = of[p]
            BY OverlayFacts
        <3>. QED
            BY <1>1, <3>3, <3>4
    <2>6. OwnEquation' = OwnEquation /\ OwnNames(combo)' = OwnNames(combo)
        <3>1. combo' = combo
            BY <1>2 DEF SameCall
        <3>2. OwnNames(combo)' = OwnNames(combo)
            <4>1. S' = S
                BY <1>1, SameScenario
            <4>. QED
                BY <3>1, <4>1 DEF OwnNames
        <3>. QED
            BY <1>1, <1>2, <3>2, SameOwn
    <2>7. combo' = combo
        BY <1>2 DEF SameCall
    <2>. QED
        BY <1>1, <2>1, <2>5, <2>6, <2>7 DEF OwnJson
<1>4. TrialsOwn'
    BY <1>2, <1>3 DEF TrialsOwn, SameCall
<1>. QED
    BY <1>1, <1>2, <1>4, OldShapes, PipelineStep DEF FromMain, FromTemplate

\* A tool that is killed promises nothing.
LEMMA KillKeeps ==
    ASSUME EquationInv, Kill
    PROVE  EquationInv'
<1>1. job' = Ended(FALSE) /\ FALSE \in BOOLEAN /\ UNCHANGED <<scenario, disk, trial, logs, equation>>
    BY DEF Kill
<1>2. SameCall /\ job'.step = "failed"
    BY <1>1, OldShapes, StepFacts
<1>3. DOMAIN disk' = Files
    BY <1>1 DEF EquationInv, Shapes
<1>4. Shapes'
    BY <1>1, <1>2, <1>3, ShapesFiles DEF EquationInv
<1>5. FilesOwn'
    BY <1>2, FilesEnded DEF FromMain, FromTemplate
<1>6. TrialsOwn' /\ LogsOwn'
    BY <1>2, NoTrials DEF LogsOwn, IsolatedFresh
<1>. QED
    BY <1>4, <1>5, <1>6 DEF EquationInv

-----------------------------------------------------------------------------
(* The steps of the tool for the isolated channels, and all steps. *)

\* A new call for the isolated channels has cleared what it will write.
LEMMA StartIsolatedKeeps ==
    ASSUME EquationInv, StartIsolated
    PROVE  EquationInv'
<1>1. /\ job' = [tool |-> "isolated", step |-> "parse", args |-> IsolatedArgs, done |-> job.done + 1, ok |-> TRUE]
      /\ disk' = [disk EXCEPT !["baselines"] = NoFile] /\ results' = NoLogs
      /\ UNCHANGED <<scenario, trial, logs, equation>>
    BY DEF StartIsolated, UntouchedPipeline
<1>2. /\ job'.tool = "isolated" /\ job'.step = "parse" /\ job'.args = IsolatedArgs
      /\ DOMAIN job' = {"tool", "step", "args", "done", "ok"}
    BY <1>1
<1>3. DOMAIN disk' = Files /\ disk'["baselines"] = NoFile
    BY <1>1 DEF EquationInv, Shapes, Files
<1>4. Shapes'
    BY <1>1, <1>2, <1>3 DEF EquationInv, Shapes
<1>5. FilesOwn'
    BY <1>2, FilesEnded DEF FromMain, FromTemplate
<1>6. TrialsOwn'
    BY <1>2, NoTrials
<1>7. LogsOwn'
    BY <1>1, <1>2, <1>3 DEF LogsOwn, IsolatedFresh
<1>. QED
    BY <1>4, <1>5, <1>6, <1>7 DEF EquationInv

\* The tool's own steps write no file: only the logs are left to look at.
LEMMA IsolatedStep ==
    ASSUME EquationInv, job.tool = "isolated", scenario' = scenario, disk' = disk, SameCall,
           UNCHANGED <<trial, logs, equation>>,
           job'.step \in FromMain => job.step \in FromMain,
           job'.step \in FromTemplate => job.step \in FromTemplate,
           LogsOwn'
    PROVE  EquationInv'
<1>1. DOMAIN disk' = Files
    BY DEF EquationInv, Shapes
<1>2. Shapes'
    BY <1>1, ShapesFiles DEF EquationInv
<1>3. FilesOwn'
    BY FilesStay DEF EquationInv
<1>4. TrialsOwn'
    BY NoTrials DEF SameCall
<1>. QED
    BY <1>2, <1>3, <1>4 DEF EquationInv

\* Each file of the directory becomes a task.
LEMMA ListFilesKeeps ==
    ASSUME EquationInv, ListFiles
    PROVE  EquationInv'
<1>. DEFINE files == SetToSeq(OwnFiles)
            n == Cardinality(OwnFiles)
<1>1. /\ job.tool = "isolated" /\ job.step = "list" /\ Goto("running")
      /\ UNCHANGED <<scenario, disk, results, trial, logs, equation>>
    BY DEF ListFiles, InIsolated, UntouchedPipeline
<1>2. SameCall /\ job'.step = "running"
    BY <1>1, OldShapes, StepFacts
<1>3. /\ results = NoLogs /\ OwnDirectory
      /\ disk["run"].equation = "combo1"
    BY <1>1 DEF EquationInv, LogsOwn
<1>4. DOMAIN disk["baselines"] = OwnFiles
    BY <1>3 DEF OwnDirectory
<1>5. tasks' = [k \in DOMAIN files |-> [file |-> files[k], st |-> "waiting"]]
    BY <1>4 DEF ListFiles
<1>6. files \in [1 .. n -> OwnFiles] /\ Range(files) = OwnFiles
    BY FilesOfPairs, SetToSeqFacts
<1>. HIDE DEF files, n
<1>7. \A k \in DOMAIN tasks' : DOMAIN tasks'[k] = {"file", "st"} /\ tasks'[k].file \in OwnFiles /\ tasks'[k].st = "waiting"
    BY <1>5, <1>6
<1>8. LogsOwn'
    <2>1. OwnFiles' = OwnFiles /\ job'.tool = "isolated"
        BY <1>1, <1>2, SameScenario DEF SameCall
    <2>2. IsolatedFresh'
        BY <1>2 DEF IsolatedFresh
    <2>3. DOMAIN results' = {}
        BY <1>1, <1>3 DEF NoLogs
    <2>4. OwnDirectory'
        BY <1>1, <1>3, <2>1 DEF OwnDirectory
    <2>. QED
        BY <1>1, <1>2, <1>3, <1>7, <2>1, <2>2, <2>3, <2>4 DEF LogsOwn
<1>. QED
    BY <1>1, <1>2, <1>8, IsolatedStep DEF FromMain, FromTemplate

\* While the tasks run.
LEMMA RunningOwn ==
    ASSUME EquationInv, job.tool = "isolated", job.step = "running",
           job' = job, UNCHANGED <<scenario, disk, trial, logs, equation>>,
           NEW k \in DOMAIN tasks, NEW st, tasks' = [tasks EXCEPT ![k].st = st],
           DOMAIN results \subseteq DOMAIN results', DOMAIN results' \subseteq DOMAIN results \cup {tasks[k].file},
           st = "running" => tasks[k].file \in DOMAIN results',
           \A f \in DOMAIN results' :
              \/ results'[f] = Unread(job.done) \/ results'[f] = OwnMeasured(f)
              \/ f \in DOMAIN results /\ results'[f] = results[f]
    PROVE  EquationInv'
<1>1. SameCall /\ job'.step = "running" /\ job'.tool = "isolated" /\ job'.done = job.done
    BY OldShapes DEF SameCall
<1>2. /\ \A l \in DOMAIN tasks : DOMAIN tasks[l] = {"file", "st"} /\ tasks[l].file \in OwnFiles
      /\ \A l \in DOMAIN tasks : tasks[l].st = "running" => tasks[l].file \in DOMAIN results
      /\ DOMAIN results \subseteq OwnFiles
      /\ \A f \in DOMAIN results : results[f] = Unread(job.done) \/ results[f] = OwnMeasured(f)
      /\ OwnDirectory
      /\ disk["run"].equation = "combo1"
    BY DEF EquationInv, LogsOwn
<1>3. /\ DOMAIN tasks' = DOMAIN tasks
      /\ \A l \in DOMAIN tasks : tasks'[l].file = tasks[l].file /\ DOMAIN tasks'[l] = {"file", "st"}
      /\ tasks'[k].st = st /\ \A l \in DOMAIN tasks \ {k} : tasks'[l] = tasks[l]
    <2>. DEFINE task == [tasks[k] EXCEPT !.st = st]
    <2>1. tasks' = [tasks EXCEPT ![k] = task]
        OBVIOUS
    <2>2. DOMAIN task = {"file", "st"} /\ task.file = tasks[k].file /\ task.st = st
        BY <1>2
    <2>. HIDE DEF task
    <2>. QED
        BY <1>2, <2>1, <2>2
<1>4. OwnFiles' = OwnFiles /\ Unread(job.done)' = Unread(job.done) /\ \A f : OwnMeasured(f)' = OwnMeasured(f)
    BY <1>1, SameScenario, SameOwn DEF Unread
<1>5. \A l \in DOMAIN tasks' : tasks'[l].st = "running" => tasks'[l].file \in DOMAIN results'
    BY <1>2, <1>3
<1>6. DOMAIN results' \subseteq OwnFiles
    BY <1>2
<1>7. \A f \in DOMAIN results' : results'[f] = Unread(job.done) \/ results'[f] = OwnMeasured(f)
    BY <1>2
<1>8. OwnDirectory'
    BY <1>2, <1>4 DEF OwnDirectory
<1>9. \A l \in DOMAIN tasks' : DOMAIN tasks'[l] = {"file", "st"} /\ tasks'[l].file \in OwnFiles
    BY <1>2, <1>3
<1>10. IsolatedFresh'
    BY <1>1 DEF IsolatedFresh
<1>11. LogsOwn'
    BY <1>1, <1>2, <1>4, <1>5, <1>6, <1>7, <1>8, <1>9, <1>10 DEF LogsOwn
<1>. QED
    BY <1>1, <1>11, IsolatedStep

\* A log that is opened is empty, and of this call; without one the task is finished.
LEMMA StartMaudeKeeps ==
    ASSUME EquationInv, NEW k \in DOMAIN tasks, StartMaude(k)
    PROVE  EquationInv'
<1>. DEFINE new == [f \in {tasks[k].file} |-> Unread(job.done)]
<1>1. /\ job.tool = "isolated" /\ job.step = "running" /\ job' = job
      /\ UNCHANGED <<scenario, disk, trial, logs, equation>>
      /\ \/ tasks' = [tasks EXCEPT ![k].st = "running"] /\ results' = Overlay(new, results)
         \/ tasks' = [tasks EXCEPT ![k].st = "finished"] /\ results' = results
    BY DEF StartMaude, InIsolated, UntouchedPipeline
<1>2. DOMAIN new = {tasks[k].file} /\ \A f \in DOMAIN new : new[f] = Unread(job.done)
    OBVIOUS
<1>. HIDE DEF new
<1>3. CASE tasks' = [tasks EXCEPT ![k].st = "running"] /\ results' = Overlay(new, results)
    <2>. DEFINE over == Overlay(new, results)
    <2>1. /\ DOMAIN over = DOMAIN new \cup DOMAIN results
          /\ \A f \in DOMAIN new \cup DOMAIN results : over[f] = IF f \in DOMAIN new THEN new[f] ELSE results[f]
        BY DEF Overlay
    <2>2. results' = over
        BY <1>3
    <2>. HIDE DEF over
    <2>3. DOMAIN results' = DOMAIN results \cup {tasks[k].file}
        BY <1>2, <2>1, <2>2
    <2>4. \A f \in DOMAIN results' : results'[f] = Unread(job.done) \/ (f \in DOMAIN results /\ results'[f] = results[f])
        BY <1>2, <2>1, <2>2
    <2>. QED
        BY <1>1, <1>3, <2>3, <2>4, RunningOwn
<1>4. CASE tasks' = [tasks EXCEPT ![k].st = "finished"] /\ results' = results
    BY <1>1, <1>4, RunningOwn
<1>. QED
    BY <1>1, <1>3, <1>4

\* Maude measures the pair the file is named after.
LEMMA FinishMaudeKeeps ==
    ASSUME EquationInv, NEW k \in DOMAIN tasks, FinishMaude(k)
    PROVE  EquationInv'
<1>. DEFINE file == tasks[k].file
<1>1. /\ job.tool = "isolated" /\ job.step = "running" /\ job' = job /\ tasks[k].st = "running"
      /\ UNCHANGED <<scenario, disk, trial, logs, equation>>
      /\ tasks' = [tasks EXCEPT ![k].st = "finished"]
      /\ results' = [results EXCEPT ![file] = Measured(file)] \/ results' = results
    BY DEF FinishMaude, InIsolated, UntouchedPipeline
<1>2. /\ file \in OwnFiles /\ file \in DOMAIN results
      /\ OwnDirectory
    BY <1>1 DEF EquationInv, LogsOwn
<1>. HIDE DEF file
<1>3. Measured(file) = OwnMeasured(file)
    <2>1. disk["baselines"][file].vpts = {file[1]} /\ disk["baselines"][file].feats = {file[2]}
        BY <1>2 DEF OwnDirectory
    <2>. QED
        BY <2>1 DEF Measured, OwnMeasured
<1>4. DOMAIN results' = DOMAIN results \cup {file}
    BY <1>1, <1>2
<1>5. \A f \in DOMAIN results' : results'[f] = OwnMeasured(f) \/ (f \in DOMAIN results /\ results'[f] = results[f])
    BY <1>1, <1>2, <1>3
<1>. QED
    BY <1>1, <1>4, <1>5, RunningOwn DEF file

\* When all are finished, the logs there are get joined.
LEMMA MaudesOverKeeps ==
    ASSUME EquationInv, MaudesOver
    PROVE  EquationInv'
<1>1. /\ job.tool = "isolated" /\ job.step = "running" /\ Goto("join")
      /\ UNCHANGED <<scenario, disk, tasks, results, trial, logs, equation>>
    BY DEF MaudesOver, InIsolated, UntouchedPipeline
<1>2. SameCall /\ job'.step = "join"
    BY <1>1, OldShapes, StepFacts
<1>3. job'.tool = "isolated" /\ job'.done = job.done
    BY <1>1, <1>2 DEF SameCall
<1>4. OwnFiles' = OwnFiles /\ Unread(job.done)' = Unread(job.done) /\ \A f : OwnMeasured(f)' = OwnMeasured(f)
    BY <1>1, <1>2, <1>3, SameScenario, SameOwn DEF Unread
<1>5. /\ DOMAIN results \subseteq OwnFiles /\ disk["run"].equation = "combo1"
      /\ \A f \in DOMAIN results : results[f] = Unread(job.done) \/ results[f] = OwnMeasured(f)
      /\ OwnDirectory
    BY <1>1 DEF EquationInv, LogsOwn
<1>6. IsolatedFresh'
    BY <1>2 DEF IsolatedFresh
<1>7. OwnDirectory'
    BY <1>1, <1>4, <1>5 DEF OwnDirectory
<1>8. LogsOwn'
    BY <1>1, <1>2, <1>3, <1>4, <1>5, <1>6, <1>7 DEF LogsOwn
<1>. QED
    BY <1>1, <1>2, <1>8, IsolatedStep DEF FromMain, FromTemplate

\* Logs that are all read and have a result are this call's.
LEMMA JoinLogsKeeps ==
    ASSUME EquationInv, JoinLogs
    PROVE  EquationInv'
<1>1. /\ job.tool = "isolated" /\ job.step = "join"
      /\ UNCHANGED <<scenario, disk, tasks, results, trial, logs, equation>>
    BY DEF JoinLogs, InIsolated, UntouchedPipeline
<1>2. CASE /\ AllRead(results) /\ job' = Ended(TRUE)
           /\ joined' = IF DOMAIN results = {} THEN nilBaseLine ELSE join(Baselines(results, 0))
    <2>. DEFINE files == DOMAIN results
    <2>1. SameCall /\ job'.step = "done"
        <3>1. TRUE \in BOOLEAN
            OBVIOUS
        <3>. QED
            BY <1>2, <3>1, OldShapes, StepFacts
    <2>2. job'.tool = "isolated" /\ job'.done = job.done
        BY <1>1, <2>1 DEF SameCall
    <2>3. /\ files \subseteq OwnFiles /\ disk["run"].equation = "combo1" /\ OwnDirectory
          /\ \A f \in files : results[f] = Unread(job.done) \/ results[f] = OwnMeasured(f)
        BY <1>1 DEF EquationInv, LogsOwn
    <2>4. \A f \in files : results[f] = OwnMeasured(f)
        <3>1. \A f \in files : results[f].result
            BY <1>2 DEF AllRead
        <3>2. ~Unread(job.done).result
            BY DEF Unread
        <3>. QED
            BY <2>3, <3>1, <3>2, Zenon
    <2>5. /\ {Pair(bl) : bl \in Range(joined'.bls)} = PairsOf(files)
          /\ Len(joined'.bls) = Cardinality(PairsOf(files))
          /\ \A bl \in Range(joined'.bls) : bl.ecdf = Samples[1]
        <3>1. CASE files = {}
            <4>1. joined'.bls = <<>> /\ PairsOf(files) = {}
                BY <1>2, <3>1 DEF nilBaseLine, PairsOf
            <4>2. Range(joined'.bls) = {} /\ Len(joined'.bls) = 0
                BY <4>1 DEF Range
            <4>. QED
                BY <4>1, <4>2, FS_EmptySet
        <3>2. CASE files # {}
            <4>1. joined' = join(Baselines(results, 0))
                BY <1>2, <3>2
            <4>. QED
                BY <2>3, <2>4, <4>1, JoinedFresh
        <3>. QED
            BY <3>1, <3>2
    <2>6. \A f \in files : results[f].by = job.done
        <3>1. \A f : OwnMeasured(f).by = job.done
            BY DEF OwnMeasured
        <3>. QED
            BY <2>4, <3>1
    <2>7. DOMAIN disk["baselines"] = OwnFiles /\ PairsOf(OwnFiles) = OwnPairs("combo1")
        BY <2>3, PairsOfFiles DEF OwnDirectory
    <2>8. OwnPairs("combo1") = {VantageId(S, v) : v \in ComboVantages(S, "combo1")} \X ComboFeatures("combo1")
        BY DEF OwnPairs, OwnIds
    <2>9. S' = S /\ \A some : PairsOf(some)' = PairsOf(some)
        BY <1>1, SameScenario DEF PairsOf
    <2>10. IsolatedFresh'
        BY <1>1, <2>2, <2>3, <2>5, <2>6, <2>7, <2>8, <2>9 DEF IsolatedFresh
    <2>11. LogsOwn'
        BY <1>1, <2>1, <2>3, <2>10 DEF LogsOwn
    <2>. QED
        BY <1>1, <2>1, <2>11, IsolatedStep DEF FromMain, FromTemplate
<1>3. CASE job' = Ended(FALSE)
    <2>1. SameCall /\ job'.step = "failed"
        <3>1. FALSE \in BOOLEAN
            OBVIOUS
        <3>. QED
            BY <1>3, <3>1, OldShapes, StepFacts
    <2>2. LogsOwn'
        BY <2>1 DEF LogsOwn, IsolatedFresh
    <2>. QED
        BY <1>1, <2>1, <2>2, IsolatedStep DEF FromMain, FromTemplate
<1>. QED
    BY <1>2, <1>3 DEF JoinLogs

\* Every step of the tools keeps the invariant.
LEMMA NextKeeps ==
    ASSUME EquationInv, Next
    PROVE  EquationInv'
<1>1. CASE Tools
    <2>1. CASE Pipelines /\ UNCHANGED parallelVars
        <3>1. CASE Generate /\ UNCHANGED <<trial, logs, equation, json>>
            BY <3>1, GenerateKeeps DEF EquationInv
        <3>2. CASE Script /\ UNCHANGED <<trial, logs, equation, json>>
            BY <2>1, <3>2, ScriptKeeps
        <3>3. CASE StartPipeline
            BY <3>3, StartPipelineKeeps
        <3>4. CASE SetUpTrials
            BY <3>4, SetUpTrialsKeeps
        <3>5. CASE TrialsOver
            BY <3>5, TrialsOverKeeps
        <3>6. CASE Combine
            BY <3>6, CombineKeeps
        <3>7. CASE WriteEquation
            BY <3>7, WriteEquationKeeps
        <3>8. CASE WriteJson
            BY <3>8, WriteJsonKeeps
        <3>9. CASE \E i \in Trials : StartTrial(i) \/ FinishTrial(i)
            BY <3>9, StartTrialKeeps, FinishTrialKeeps
        <3>10. CASE Kill
            BY <3>10, KillKeeps
        <3>. QED
            BY <2>1, <3>1, <3>2, <3>3, <3>4, <3>5, <3>6, <3>7, <3>8, <3>9, <3>10 DEF Pipelines
    <2>2. CASE StartIsolated
        BY <2>2, StartIsolatedKeeps
    <2>3. CASE ListFiles
        BY <2>3, ListFilesKeeps
    <2>4. CASE MaudesOver
        BY <2>4, MaudesOverKeeps
    <2>5. CASE JoinLogs
        BY <2>5, JoinLogsKeeps
    <2>6. CASE ParseByHand
        BY <2>6, ParseKeeps
    <2>7. CASE \E k \in DOMAIN tasks : StartMaude(k) \/ FinishMaude(k)
        BY <2>7, StartMaudeKeeps, FinishMaudeKeeps
    <2>. QED
        BY <1>1, <2>1, <2>2, <2>3, <2>4, <2>5, <2>6, <2>7 DEF Tools
<1>2. CASE RunQueries
    BY <1>2, Unchanged DEF RunQueries, invVars, parallelVars
<1>3. CASE write_stats_to_json_file
    BY <1>3, FormatKeeps
<1>. QED
    BY <1>1, <1>2, <1>3 DEF Next

\* What the invariant says of a call that is done is what is promised.
LEMMA InvFresh == EquationInv => EquationFresh
<1>. SUFFICES ASSUME EquationInv PROVE EquationFresh
    OBVIOUS
<1>1. IsolatedFresh
    <2>1. CASE job.tool = "isolated"
        BY <2>1 DEF EquationInv, LogsOwn
    <2>2. CASE job.tool # "isolated"
        BY <2>2 DEF IsolatedFresh
    <2>. QED
        BY <2>1, <2>2
<1>2. PipelineFresh
    <2>. SUFFICES ASSUME job.tool = "pipeline", job.step = "done", ~job.args.skipGen, ~job.args.skipRun
                  PROVE  PipelineFresh
        BY DEF PipelineFresh
    <2>1. equation[job.args.combo].out = OwnEquation /\ OwnJson(job.args.combo)
        BY DEF EquationInv, TrialsOwn
    <2>2. job.args \in PipelineArgs
        BY DEF EquationInv, Shapes
    <2>. DEFINE eq == OwnEquation
    <2>3. LET own == UNION {Range(Samples[i]) : i \in 1 .. job.args.trials}
          IN /\ Len(eq.from) = job.args.trials
             /\ \A i \in DOMAIN eq.from : eq.from[i].by = job.done /\ eq.from[i].ecdf = Samples[i]
             /\ eq.pairs = OwnPairs(job.args.combo)
             /\ eq.k = <<SumOfK(eq.from), job.args.trials>>
             /\ Len(eq.ecdf) = (IF Len(MergedEcdf(eq.from)) < SizeLimit THEN Len(MergedEcdf(eq.from)) ELSE SizeLimit)
             /\ \A j, k \in DOMAIN eq.ecdf : j < k => eq.ecdf[j] <= eq.ecdf[k]
             /\ Range(eq.ecdf) \subseteq own
             /\ SizeLimit > 1 /\ own # {} => {Min(own), Max(own)} \subseteq Range(eq.ecdf)
        BY <2>2, OwnEquationFresh
    <2>. HIDE DEF eq
    <2>4. OwnPairs(job.args.combo) =
            {VantageId(S, v) : v \in ComboVantages(S, job.args.combo)} \X ComboFeatures(job.args.combo)
        BY DEF OwnPairs, OwnIds
    <2>5. \A p \in ComboVantages(S, job.args.combo) \X ComboFeatures(job.args.combo) :
            p \in DOMAIN json /\ json[p] = [k |-> eq.k, ecdf |-> eq.ecdf]
        BY <2>1 DEF OwnNames, OwnJson, eq
    <2>6. equation[job.args.combo].out = eq
        BY <2>1 DEF eq
    <2>. QED
        BY <2>3, <2>4, <2>5, <2>6 DEF PipelineFresh
<1>. QED
    BY <1>1, <1>2 DEF EquationFresh

\* The equation, and the JSON file of each of its pairs, come from the trials or files of
\* the call that reports success, and from no other, for every scenario, list of arguments
\* and pool.  A pipeline's has all pairs of its combo; that of the isolated channels has
\* the pairs of the files whose log could be opened, and no claim is made of the rest.
THEOREM EquationsFresh == Spec => []EquationFresh
<1>1. EquationInv /\ [Next]_vars => EquationInv'
    <2>1. ASSUME EquationInv, Next PROVE EquationInv'
        BY <2>1, NextKeeps
    <2>2. ASSUME EquationInv, UNCHANGED vars PROVE EquationInv'
        BY <2>2, Unchanged DEF vars, invVars
    <2>. QED
        BY <2>1, <2>2
<1>. QED
    BY <1>1, InitEquationInv, InvFresh, PTL DEF Spec

-----------------------------------------------------------------------------
(* Where answers are put: the places of two queries differ, and there are as many *)
(* places as queries.                                                             *)

\* What is made of finitely many is finite.
LEMMA FiniteImage ==
    ASSUME NEW A, IsFiniteSet(A), NEW f
    PROVE  IsFiniteSet({f[a] : a \in A})
<1>. DEFINE all == {f[a] : a \in A}
            g == [a \in A |-> f[a]]
<1>1. g \in [A -> all] /\ \A v \in all : \E a \in A : g[a] = v
    OBVIOUS
<1>. HIDE DEF all, g
<1>2. g \in Surjection(A, all)
    BY <1>1 DEF Surjection
<1>3. IsFiniteSet(all)
    BY <1>2, FS_Surjection
<1>. QED
    BY <1>3 DEF all

\* A query, of a measure, a client, or a feature at a vantage point.
Asked(q) ==
    /\ DOMAIN q = {"cumulative", "start", "end", "what", "of"}
    /\ q = [cumulative |-> q.cumulative, start |-> q.start, end |-> q.end, what |-> q.what, of |-> q.of]
    /\ q.cumulative \in BOOLEAN
    /\ \/ q.what = "system" /\ q.of \in {<<"latency">>, <<"goodput">>, <<"integrity">>, <<"availability">>}
       \/ q.what = "client" /\ q.of # <<>> /\ q.of # <<"global">>
       \/ q.what = "vantage" /\ \E v, f : q.of = <<v, f>> /\ v # <<>> /\ f \in FEATURES

\* Where the answers to each kind of query are put.
LEMMA WherePlaced ==
    ASSUME NEW q, Asked(q)
    PROVE  /\ Place(q) = <<Place(q)[1], IF q.cumulative THEN "cumulative" ELSE "independent", <<q.start, q.end>>>>
           /\ q.what = "system" /\ q.of # <<"integrity">> => Place(q)[1] = <<"perf", q.of>>
           /\ q.what = "system" /\ q.of = <<"integrity">> => Place(q)[1] = <<"perf", "integrity", <<"global">>>>
           /\ q.what = "client" => Place(q)[1] = <<"perf", "integrity", q.of>>
           /\ q.what = "vantage" => Place(q)[1] = <<"adv", q.of[1], <<q.of[2]>>>>
<1>. DEFINE tag == parse_quatex(q)
<1>1. /\ tag.typ = IF q.cumulative THEN "cumulative" ELSE "independent"
      /\ tag.win = <<q.start, q.end>>
      /\ q.what = "system" => tag.name = q.of /\ tag.extra = <<>>
      /\ q.what = "client" => tag.name = <<"integrity">> /\ tag.extra = q.of
      /\ q.what = "vantage" => tag.name = <<q.of[2]>> /\ tag.extra = q.of[1]
    BY DEF parse_quatex
<1>2. Place(q) = <<IF is_adv_stat(tag) THEN write_adv_stat(tag) ELSE write_perf_stat(tag), tag.typ, tag.win>>
    BY DEF Place
<1>. HIDE DEF tag
<1>3. Place(q)[1] = IF is_adv_stat(tag) THEN write_adv_stat(tag) ELSE write_perf_stat(tag)
    BY <1>2
<1>4. Place(q) = <<Place(q)[1], IF q.cumulative THEN "cumulative" ELSE "independent", <<q.start, q.end>>>>
    BY <1>1, <1>2
<1>5. q.what = "system" /\ q.of # <<"integrity">> => Place(q)[1] = <<"perf", q.of>>
    BY <1>1, <1>3 DEF is_adv_stat, write_perf_stat
<1>6. q.what = "system" /\ q.of = <<"integrity">> => Place(q)[1] = <<"perf", "integrity", <<"global">>>>
    BY <1>1, <1>3 DEF is_adv_stat, write_perf_stat, write_integrity_stat
<1>7. ASSUME q.what = "client" PROVE Place(q)[1] = <<"perf", "integrity", q.of>>
    <2>1. q.of # <<>>
        BY <1>7 DEF Asked
    <2>. QED
        BY <1>1, <1>3, <1>7, <2>1 DEF is_adv_stat, write_perf_stat, write_integrity_stat
<1>8. ASSUME q.what = "vantage" PROVE Place(q)[1] = <<"adv", q.of[1], <<q.of[2]>>>>
    <2>1. q.of[1] # <<>> /\ q.of[2] # "integrity"
        BY <1>8 DEF Asked, FEATURES
    <2>2. <<q.of[2]>> # <<"integrity">>
        BY <2>1
    <2>. QED
        BY <1>1, <1>3, <1>8, <2>1, <2>2 DEF is_adv_stat, write_adv_stat
<1>. QED
    BY <1>4, <1>5, <1>6, <1>7, <1>8

\* Answers to different queries are put in different places.
LEMMA PlacedApart ==
    ASSUME NEW q, NEW r, Asked(q), Asked(r), Place(q) = Place(r)
    PROVE  q = r
<1>1. Place(q)[1] = Place(r)[1]
    OBVIOUS
<1>2. /\ (IF q.cumulative THEN "cumulative" ELSE "independent") = (IF r.cumulative THEN "cumulative" ELSE "independent")
      /\ <<q.start, q.end>> = <<r.start, r.end>>
    BY WherePlaced
<1>3. q.cumulative = r.cumulative
    <2>1. q.cumulative \in BOOLEAN /\ r.cumulative \in BOOLEAN
        BY DEF Asked
    <2>2. q.cumulative <=> r.cumulative
        BY <1>2
    <2>. QED
        BY <2>1, <2>2
<1>4. q.start = r.start /\ q.end = r.end
    BY <1>2
<1>5. q.what = r.what /\ q.of = r.of
    <2>. DEFINE measure(x) == x.what = "system" /\ x.of # <<"integrity">>
                total(x) == x.what = "system" /\ x.of = <<"integrity">>
    <2>1. ASSUME NEW x \in {q, r}
          PROVE  /\ x.what \in {"client", "vantage"} \/ measure(x) \/ total(x)
                 /\ measure(x) => Len(Place(x)[1]) = 2 /\ Place(x)[1][2] = x.of
                 /\ total(x) => Len(Place(x)[1]) = 3 /\ Place(x)[1][1] = "perf" /\ Place(x)[1][3] = <<"global">>
                 /\ x.what = "client" => Len(Place(x)[1]) = 3 /\ Place(x)[1][1] = "perf" /\ Place(x)[1][3] = x.of
                                            /\ x.of # <<"global">>
                 /\ x.what = "vantage" => /\ Len(Place(x)[1]) = 3 /\ Place(x)[1][1] = "adv" /\ Place(x)[1][2] = x.of[1]
                                          /\ Place(x)[1][3][1] = x.of[2] /\ x.of = <<x.of[1], x.of[2]>>
        <3>1. Asked(x)
            OBVIOUS
        <3>2. x.what \in {"client", "vantage"} \/ measure(x) \/ total(x)
            BY <3>1 DEF Asked
        <3>3. ASSUME measure(x) PROVE Len(Place(x)[1]) = 2 /\ Place(x)[1][2] = x.of
            <4>1. Place(x)[1] = <<"perf", x.of>>
                BY <3>1, <3>3, WherePlaced
            <4>. QED
                BY <4>1
        <3>4. ASSUME total(x) PROVE Len(Place(x)[1]) = 3 /\ Place(x)[1][1] = "perf" /\ Place(x)[1][3] = <<"global">>
            <4>1. Place(x)[1] = <<"perf", "integrity", <<"global">>>>
                BY <3>1, <3>4, WherePlaced
            <4>. QED
                BY <4>1
        <3>5. ASSUME x.what = "client"
              PROVE  Len(Place(x)[1]) = 3 /\ Place(x)[1][1] = "perf" /\ Place(x)[1][3] = x.of /\ x.of # <<"global">>
            <4>1. Place(x)[1] = <<"perf", "integrity", x.of>>
                BY <3>1, <3>5, WherePlaced
            <4>2. x.of # <<"global">>
                BY <3>1, <3>5 DEF Asked
            <4>. QED
                BY <4>1, <4>2
        <3>6. ASSUME x.what = "vantage"
              PROVE  /\ Len(Place(x)[1]) = 3 /\ Place(x)[1][1] = "adv" /\ Place(x)[1][2] = x.of[1]
                     /\ Place(x)[1][3][1] = x.of[2] /\ x.of = <<x.of[1], x.of[2]>>
            <4>1. Place(x)[1] = <<"adv", x.of[1], <<x.of[2]>>>>
                BY <3>1, <3>6, WherePlaced
            <4>2. x.of = <<x.of[1], x.of[2]>>
                BY <3>1, <3>6 DEF Asked
            <4>. QED
                BY <4>1, <4>2
        <3>. HIDE DEF measure, total
        <3>. QED
            BY <3>2, <3>3, <3>4, <3>5, <3>6
    <2>. HIDE DEF measure, total
    <2>2. CASE measure(q)
        <3>1. Len(Place(r)[1]) = 2
            BY <1>1, <2>1, <2>2
        <3>2. measure(r)
            BY <2>1, <3>1
        <3>. QED
            BY <1>1, <2>1, <2>2, <3>2 DEF measure
    <2>3. CASE total(q)
        <3>1. total(r)
            BY <1>1, <2>1, <2>3
        <3>. QED
            BY <2>3, <3>1 DEF total
    <2>4. CASE q.what = "client"
        <3>1. r.what = "client"
            BY <1>1, <2>1, <2>4
        <3>. QED
            BY <1>1, <2>1, <2>4, <3>1
    <2>5. CASE q.what = "vantage"
        <3>1. r.what = "vantage"
            BY <1>1, <2>1, <2>5
        <3>. QED
            BY <1>1, <2>1, <2>5, <3>1
    <2>. QED
        BY <2>1, <2>2, <2>3, <2>4, <2>5
<1>. QED
    BY <1>3, <1>4, <1>5 DEF Asked

\* Finitely many queries have as many places, and those of the adversary are apart.
LEMMA PlacesFit ==
    ASSUME NEW queries, IsFiniteSet(queries), \A q \in queries : Asked(q)
    PROVE  /\ Cardinality({Place(q) : q \in queries}) = Cardinality(queries)
           /\ \A q \in queries : q.what = "vantage" <=> Place(q)[1][1] = "adv"
<1>1. Cardinality({Place(q) : q \in queries}) = Cardinality(queries)
    <2>. DEFINE at == {Place(q) : q \in queries}
                f == [q \in queries |-> Place(q)]
    <2>1. f \in [queries -> at] /\ \A p \in at : \E q \in queries : f[q] = p
        OBVIOUS
    <2>2. \A q, r \in queries : f[q] = f[r] => q = r
        BY PlacedApart
    <2>. HIDE DEF at, f
    <2>3. f \in Bijection(queries, at)
        BY <2>1, <2>2 DEF Bijection, Injection, Surjection, IsInjective
    <2>4. Cardinality(queries) = Cardinality(at)
        BY <2>3, FS_Bijection DEF ExistsBijection
    <2>. QED
        BY <2>4 DEF at
<1>2. ASSUME NEW q \in queries PROVE q.what = "vantage" <=> Place(q)[1][1] = "adv"
    <2>1. Asked(q)
        OBVIOUS
    <2>2. q.what = "system" \/ q.what = "client" \/ q.what = "vantage"
        BY <2>1 DEF Asked
    <2>3. CASE q.what = "system" /\ q.of # <<"integrity">>
        <3>1. Place(q)[1] = <<"perf", q.of>>
            BY <2>1, <2>3, WherePlaced
        <3>. QED
            BY <2>3, <3>1
    <2>4. CASE q.what = "system" /\ q.of = <<"integrity">>
        <3>1. Place(q)[1] = <<"perf", "integrity", <<"global">>>>
            BY <2>1, <2>4, WherePlaced
        <3>. QED
            BY <2>4, <3>1
    <2>5. CASE q.what = "client"
        <3>1. Place(q)[1] = <<"perf", "integrity", q.of>>
            BY <2>1, <2>5, WherePlaced
        <3>. QED
            BY <2>5, <3>1
    <2>6. CASE q.what = "vantage"
        <3>1. Place(q)[1] = <<"adv", q.of[1], <<q.of[2]>>>>
            BY <2>1, <2>6, WherePlaced
        <3>. QED
            BY <2>6, <3>1
    <2>. QED
        BY <2>2, <2>3, <2>4, <2>5, <2>6
<1>. QED
    BY <1>1, <1>2

\* The queries of some windows, as their times say, for each of some measures, clients or pairs.
Asking(time, wins, what, ofs) ==
    {[cumulative |-> time[w].cumulative, start |-> time[w].start, end |-> time[w].end, what |-> what, of |-> of] :
        w \in wins, of \in ofs}

\* As many windows as there are, and as much to ask for in each, are finitely many queries.
LEMMA AskedFinite ==
    ASSUME NEW wins, IsFiniteSet(wins), NEW ofs, IsFiniteSet(ofs), NEW what, NEW time
    PROVE  IsFiniteSet(Asking(time, wins, what, ofs))
<1>. DEFINE Q(w, of) == [cumulative |-> time[w].cumulative, start |-> time[w].start, end |-> time[w].end,
                         what |-> what, of |-> of]
            f == [p \in wins \X ofs |-> Q(p[1], p[2])]
            all == {f[p] : p \in wins \X ofs}
<1>1. IsFiniteSet(wins \X ofs)
    BY FS_Product
<1>2. {Q(w, of) : w \in wins, of \in ofs} = all
    <2>. HIDE DEF Q
    <2>1. \A p \in wins \X ofs : f[p] = Q(p[1], p[2]) /\ p[1] \in wins /\ p[2] \in ofs
        OBVIOUS
    <2>2. \A w \in wins, of \in ofs : <<w, of>> \in wins \X ofs /\ f[<<w, of>>] = Q(w, of)
        OBVIOUS
    <2>. HIDE DEF f
    <2>3. ASSUME NEW w \in wins, NEW of \in ofs PROVE Q(w, of) \in all
        BY <2>2
    <2>4. ASSUME NEW p \in wins \X ofs PROVE f[p] \in {Q(w, of) : w \in wins, of \in ofs}
        BY <2>1
    <2>5. {Q(w, of) : w \in wins, of \in ofs} \subseteq all
        <3>. HIDE DEF all
        <3>. QED
            BY <2>3
    <2>6. all \subseteq {Q(w, of) : w \in wins, of \in ofs}
        <3>. DEFINE asked == {Q(w, of) : w \in wins, of \in ofs}
        <3>1. \A p \in wins \X ofs : f[p] \in asked
            BY <2>4
        <3>. HIDE DEF asked
        <3>2. all \subseteq asked
            BY <3>1
        <3>. QED
            BY <3>2 DEF asked
    <2>. QED
        BY <2>5, <2>6
<1>. HIDE DEF f
<1>3. IsFiniteSet(all)
    BY <1>1, FiniteImage
<1>. HIDE DEF all
<1>4. Asking(time, wins, what, ofs) = all
    BY <1>2 DEF Asking
<1>. QED
    BY <1>3, <1>4

\* What a file of queries is made of is finite, and named.
QuatexFits(cfg) ==
    /\ cfg.maxWin \in Nat
    /\ IsFiniteSet(cfg.clients) /\ \A c \in cfg.clients : c # <<>> /\ c # <<"global">>
    /\ IsFiniteSet(cfg.vpts) /\ <<>> \notin cfg.vpts
    /\ cfg.feats \subseteq FEATURES

\* The measures of the whole system.
Measures == {<<"latency">>, <<"goodput">>, <<"integrity">>, <<"availability">>}

\* The sets that are listed are finite.
LEMMA FiniteSets ==
    IsFiniteSet(FEATURES) /\ IsFiniteSet(Measures) /\ IsFiniteSet(VANTAGE_POINTS) /\ IsFiniteSet(BOOLEAN)
    /\ IsFiniteSet(Channels)
<1>1. IsFiniteSet(FEATURES)
    <2>1. FEATURES = ((({"dnsQueryRate"} \cup {"dnsQuerySize"}) \cup ({"dnsRespSize"} \cup {"tcpUpRate"}))
                        \cup (({"tcpDownRate"} \cup {"tcpUpToDownRate"}) \cup ({"tcpOutPktRate"} \cup {"tcpInPktRate"})))
                      \cup ((({"tcpOutToInPktRate"} \cup {"tcpPktSizeStdDev"}) \cup ({"tcpPktSize"} \cup {"tcpPktInterarrival"}))
                        \cup (({"tcpDirectionChange"} \cup {"tcpActiveFlow"}) \cup {"tcpNewCnx"}))
        BY DEF FEATURES
    <2>. QED
        BY ONLY <2>1, FS_Singleton, FS_Union
<1>2. IsFiniteSet(Measures)
    <2>1. Measures = ({<<"latency">>} \cup {<<"goodput">>}) \cup ({<<"integrity">>} \cup {<<"availability">>})
        BY DEF Measures
    <2>. QED
        BY ONLY <2>1, FS_Singleton, FS_Union
<1>3. IsFiniteSet(VANTAGE_POINTS)
    <2>1. VANTAGE_POINTS = ((({"client_net_mastodon"} \cup {"client_net_racetunnel"}) \cup ({"client_net_iodine"} \cup {"client_net_obfs"}))
                              \cup (({"client_net_sky"} \cup {"ixp-router"}) \cup ({"mastodon_net"} \cup {"minio_net"})))
                            \cup {"server_net"}
        BY DEF VANTAGE_POINTS, ClientNets
    <2>. QED
        BY ONLY <2>1, FS_Singleton, FS_Union
<1>4. IsFiniteSet(BOOLEAN)
    <2>1. \A b \in BOOLEAN : b \in {TRUE} \cup {FALSE}
        BY Zenon
    <2>2. BOOLEAN \subseteq {TRUE} \cup {FALSE}
        BY <2>1, Zenon
    <2>. QED
        BY ONLY <2>2, FS_Singleton, FS_Union, FS_Subset
<1>5. IsFiniteSet(Channels)
    <2>1. Channels = (({"webtunnel"} \cup {"skyhook"}) \cup ({"obfs4"} \cup {"iodine"})) \cup {"mastodon"}
        BY DEF Channels
    <2>. QED
        BY ONLY <2>1, FS_Singleton, FS_Union
<1>. QED
    BY <1>1, <1>2, <1>3, <1>4, <1>5

\* A query is asked for as it should be when its measure, client or pair is.
LEMMA AskedOf ==
    ASSUME NEW cumulative \in BOOLEAN, NEW start, NEW end, NEW what, NEW of,
           \/ what = "system" /\ of \in Measures
           \/ what = "client" /\ of # <<>> /\ of # <<"global">>
           \/ what = "vantage" /\ \E v, f : of = <<v, f>> /\ v # <<>> /\ f \in FEATURES
    PROVE  Asked([cumulative |-> cumulative, start |-> start, end |-> end, what |-> what, of |-> of])
<1>. DEFINE q == [cumulative |-> cumulative, start |-> start, end |-> end, what |-> what, of |-> of]
<1>1. DOMAIN q = {"cumulative", "start", "end", "what", "of"}
    OBVIOUS
<1>2. q.start = start /\ q.end = end /\ q.what = what /\ q.of = of
    OBVIOUS
<1>3. q.cumulative = cumulative
    BY Zenon
<1>4. q = [cumulative |-> q.cumulative, start |-> q.start, end |-> q.end, what |-> q.what, of |-> q.of]
    BY <1>2, <1>3
<1>. HIDE DEF q
<1>5. q.cumulative \in BOOLEAN
    BY <1>3
<1>. QED
    BY <1>1, <1>2, <1>4, <1>5 DEF Asked, Measures

\* What is asked for in some windows.
LEMMA WindowsAsked ==
    ASSUME NEW cfg, QuatexFits(cfg), NEW wins, IsFiniteSet(wins), NEW time,
           \A w \in wins : time[w].cumulative \in BOOLEAN,
           NEW what, NEW ofs,
           \/ what = "system" /\ ofs = Measures
           \/ what = "client" /\ ofs = cfg.clients
           \/ what = "vantage" /\ ofs = cfg.vpts \X cfg.feats
    PROVE  /\ IsFiniteSet(Asking(time, wins, what, ofs))
           /\ \A q \in Asking(time, wins, what, ofs) : Asked(q)
<1>1. IsFiniteSet(ofs)
    <2>1. IsFiniteSet(cfg.feats)
        BY FiniteSets, FS_Subset DEF QuatexFits
    <2>2. IsFiniteSet(cfg.vpts \X cfg.feats)
        BY <2>1, FS_Product DEF QuatexFits
    <2>. QED
        BY <2>2, FiniteSets DEF QuatexFits
<1>2. IsFiniteSet(Asking(time, wins, what, ofs))
    BY <1>1, AskedFinite
<1>3. \A of \in ofs : \/ what = "system" /\ of \in Measures
                      \/ what = "client" /\ of # <<>> /\ of # <<"global">>
                      \/ what = "vantage" /\ \E v, f : of = <<v, f>> /\ v # <<>> /\ f \in FEATURES
    BY DEF QuatexFits
<1>4. \A w \in wins, of \in ofs :
        Asked([cumulative |-> time[w].cumulative, start |-> time[w].start, end |-> time[w].end, what |-> what, of |-> of])
    BY <1>3, AskedOf
<1>5. \A q \in Asking(time, wins, what, ofs) : Asked(q)
    BY <1>4 DEF Asking
<1>. QED
    BY <1>2, <1>5

\* Every file of queries asks finitely many, as they should be.
LEMMA QueriesFit ==
    ASSUME NEW cfg, QuatexFits(cfg)
    PROVE  IsFiniteSet(Queries(cfg)) /\ \A q \in Queries(cfg) : Asked(q)
<1>. DEFINE wins == 0 .. cfg.maxWin - 1
            pairs == cfg.vpts \X cfg.feats
            All(time, of) ==
                (IF cfg.confOnly THEN {} ELSE Asking(time, of, "system", Measures) \cup Asking(time, of, "client", cfg.clients))
                  \cup (IF cfg.perfOnly THEN {} ELSE Asking(time, of, "vantage", pairs))
<1>1. IsFiniteSet(wins)
    <2>1. 0 \in Int /\ cfg.maxWin - 1 \in Int
        BY DEF QuatexFits
    <2>. QED
        BY <2>1, FS_Interval
<1>2. ASSUME NEW time, NEW of, IsFiniteSet(of), \A w \in of : time[w].cumulative \in BOOLEAN
      PROVE  IsFiniteSet(All(time, of)) /\ \A q \in All(time, of) : Asked(q)
    <2>. DEFINE system == Asking(time, of, "system", Measures)
                client == Asking(time, of, "client", cfg.clients)
                vantage == Asking(time, of, "vantage", pairs)
    <2>1. IsFiniteSet(system) /\ \A q \in system : Asked(q)
        BY <1>2, WindowsAsked
    <2>2. IsFiniteSet(client) /\ \A q \in client : Asked(q)
        BY <1>2, WindowsAsked
    <2>3. IsFiniteSet(vantage) /\ \A q \in vantage : Asked(q)
        BY <1>2, WindowsAsked
    <2>. HIDE DEF system, client, vantage
    <2>4. IsFiniteSet(system \cup client) /\ IsFiniteSet({})
        BY ONLY <2>1, <2>2, FS_Union, FS_EmptySet
    <2>. DEFINE perf == IF cfg.confOnly THEN {} ELSE system \cup client
                conf == IF cfg.perfOnly THEN {} ELSE vantage
    <2>5. IsFiniteSet(perf) /\ IsFiniteSet(conf)
        BY <2>3, <2>4
    <2>6. \A q \in perf \cup conf : Asked(q)
        BY <2>1, <2>2, <2>3
    <2>. HIDE DEF perf, conf
    <2>7. IsFiniteSet(perf \cup conf)
        BY ONLY <2>5, FS_Union
    <2>8. All(time, of) = perf \cup conf
        BY DEF perf, conf, system, client, vantage
    <2>. QED
        BY <2>6, <2>7, <2>8
<1>3. CASE cfg.by = "script"
    <2>. DEFINE spans == {w \in wins \X BOOLEAN : w[1] = 0 => w[2]}
                time == [w \in spans |-> [cumulative |-> w[2], start |-> script_prefix_start_end(cfg, w[1], w[2])[1],
                                          end |-> script_prefix_start_end(cfg, w[1], w[2])[2]]]
    <2>1. IsFiniteSet(spans)
        <3>1. IsFiniteSet(wins \X BOOLEAN) /\ spans \subseteq wins \X BOOLEAN
            BY <1>1, FiniteSets, FS_Product
        <3>. HIDE DEF spans
        <3>. QED
            BY <3>1, FS_Subset
    <2>2. \A w \in spans : time[w].cumulative \in BOOLEAN
        <3>1. \A w \in spans : w[2] \in BOOLEAN
            OBVIOUS
        <3>. QED
            BY <3>1, Zenon
    <2>3. Queries(cfg) = All(time, spans)
        <3>1. \A w \in spans : time[w].cumulative = w[2]
            BY Zenon
        <3>2. \A w \in spans : /\ time[w].start = script_prefix_start_end(cfg, w[1], w[2])[1]
                               /\ time[w].end = script_prefix_start_end(cfg, w[1], w[2])[2]
            OBVIOUS
        <3>. DEFINE Q(w, what, of) ==
                LET span == script_prefix_start_end(cfg, w[1], w[2])
                IN [cumulative |-> w[2], start |-> span[1], end |-> span[2], what |-> what, of |-> of]
        <3>. HIDE DEF spans, time
        <3>3. \A w \in spans : \A what, of :
                Q(w, what, of) = [cumulative |-> time[w].cumulative, start |-> time[w].start, end |-> time[w].end,
                                  what |-> what, of |-> of]
            BY <3>1, <3>2
        <3>. HIDE DEF Q
        <3>. DEFINE system == {Q(w, "system", m) : w \in spans, m \in Measures}
                    client == {Q(w, "client", c) : w \in spans, c \in cfg.clients}
                    vantage == {Q(w, "vantage", vf) : w \in spans, vf \in pairs}
        <3>4. system = Asking(time, spans, "system", Measures)
            BY <3>3 DEF Asking
        <3>5. client = Asking(time, spans, "client", cfg.clients)
            BY <3>3 DEF Asking
        <3>6. vantage = Asking(time, spans, "vantage", pairs)
            BY <3>3 DEF Asking
        <3>7. script_queries(cfg) = (IF cfg.confOnly THEN {} ELSE system \cup client)
                                      \cup (IF cfg.perfOnly THEN {} ELSE vantage)
            BY DEF script_queries, Q, spans, Measures
        <3>. HIDE DEF system, client, vantage
        <3>8. script_queries(cfg) = All(time, spans)
            BY <3>4, <3>5, <3>6, <3>7
        <3>. QED
            BY <1>3, <3>8 DEF Queries
    <2>. HIDE DEF spans, time, All
    <2>. QED
        BY <1>2, <2>1, <2>2, <2>3
<1>4. CASE cfg.by # "script"
    <2>. DEFINE time == [w \in wins |-> [cumulative |-> TRUE, start |-> get_prefix_start_end(cfg, w)[1] + cfg.delay,
                                          end |-> get_prefix_start_end(cfg, w)[2] + cfg.delay]]
    <2>2. \A w \in wins : time[w].cumulative \in BOOLEAN
        BY Zenon
    <2>3. Queries(cfg) = All(time, wins)
        <3>1. \A w \in wins : time[w].cumulative = TRUE
            BY Zenon
        <3>2. \A w \in wins : /\ time[w].start = get_prefix_start_end(cfg, w)[1] + cfg.delay
                              /\ time[w].end = get_prefix_start_end(cfg, w)[2] + cfg.delay
            OBVIOUS
        <3>. DEFINE Q(win, what, of) ==
                [cumulative |-> TRUE, start |-> get_prefix_start_end(cfg, win)[1] + cfg.delay,
                 end |-> get_prefix_start_end(cfg, win)[2] + cfg.delay, what |-> what, of |-> of]
        <3>. HIDE DEF time
        <3>3. \A w \in wins : \A what, of :
                Q(w, what, of) = [cumulative |-> time[w].cumulative, start |-> time[w].start, end |-> time[w].end,
                                  what |-> what, of |-> of]
            BY <3>1, <3>2
        <3>. DEFINE system == {Q(w, "system", m) : w \in wins, m \in Measures}
                    client == {Q(w, "client", c) : w \in wins, c \in cfg.clients}
                    vantage == {Q(w, "vantage", vf) : w \in wins, vf \in pairs}
        <3>4. all_queries(cfg) = (IF cfg.confOnly THEN {} ELSE system \cup client)
                                   \cup (IF cfg.perfOnly THEN {} ELSE vantage)
            BY DEF all_queries, Measures
        <3>. HIDE DEF Q, wins
        <3>5. system = Asking(time, wins, "system", Measures)
            BY <3>3 DEF Asking
        <3>6. client = Asking(time, wins, "client", cfg.clients)
            BY <3>3 DEF Asking
        <3>7. vantage = Asking(time, wins, "vantage", pairs)
            BY <3>3 DEF Asking
        <3>. HIDE DEF system, client, vantage
        <3>8. all_queries(cfg) = All(time, wins)
            BY <3>4, <3>5, <3>6, <3>7
        <3>. QED
            BY <1>4, <3>8 DEF Queries
    <2>. HIDE DEF wins, time, All
    <2>. QED
        BY <1>1, <1>2, <2>2, <2>3
<1>. QED
    BY <1>3, <1>4

\* A channel has finitely many clients.
LEMMA ClientIdsFinite ==
    ASSUME scenario \in Scenarios, NEW ch
    PROVE  IsFiniteSet(Range(ClientIds(S, ch)))
<1>. DEFINE nodes == S.nodes
            seqs == [k \in DOMAIN nodes |->
                        IF nodes[k].channel = ch THEN [l \in 1 .. nodes[k].qty |-> FirstClient(S, k) + l - 1] ELSE <<>>]
            V == UNION {Range(seqs[k]) : k \in DOMAIN nodes}
<1>1. nodes \in Seq(Range(nodes)) /\ \A k \in DOMAIN nodes : nodes[k].qty \in Int
    BY ScenariosAssumption DEF S, Range
<1>2. ClientIds(S, ch) = FlattenSeq(seqs)
    BY DEF ClientIds
<1>3. DOMAIN nodes = 1 .. Len(nodes) /\ Len(nodes) \in Nat
    BY <1>1
<1>4. ASSUME NEW k \in DOMAIN nodes PROVE seqs[k] \in Seq(V)
    <2>. DEFINE n == IF nodes[k].qty < 0 THEN 0 ELSE nodes[k].qty
    <2>1. n \in Nat /\ 1 .. nodes[k].qty = 1 .. n
        BY <1>1
    <2>2. Range(seqs[k]) \subseteq V
        OBVIOUS
    <2>3. seqs[k] = <<>> \/ DOMAIN seqs[k] = 1 .. n
        BY <2>1
    <2>4. seqs[k] = <<>> \/ seqs[k] = [l \in 1 .. n |-> seqs[k][l]]
        BY <2>1
    <2>. HIDE DEF V, n
    <2>5. CASE seqs[k] = <<>>
        <3>. HIDE DEF seqs
        <3>1. <<>> \in Seq(V)
            OBVIOUS
        <3>. QED
            BY <2>5, <3>1
    <2>6. CASE seqs[k] = [l \in 1 .. n |-> seqs[k][l]]
        <3>. DEFINE seq == seqs[k]
        <3>. HIDE DEF seqs
        <3>1. \A l \in 1 .. n : seq[l] \in Range(seq)
            BY <2>6 DEF Range
        <3>2. seq \in [1 .. n -> V]
            BY <2>2, <2>6, <3>1
        <3>. HIDE DEF seq
        <3>3. seq \in Seq(V)
            BY <2>1, <3>2, SeqOfFunction
        <3>. QED
            BY <3>3 DEF seq
    <2>. QED
        BY <2>4, <2>5, <2>6
<1>5. DOMAIN seqs = 1 .. Len(nodes) /\ seqs = [k \in 1 .. Len(nodes) |-> seqs[k]]
    BY <1>3
<1>. HIDE DEF V, seqs, nodes
<1>6. seqs \in [1 .. Len(nodes) -> Seq(V)]
    BY <1>3, <1>4, <1>5
<1>7. seqs \in Seq(Seq(V))
    BY <1>3, <1>6, SeqOfFunction
<1>8. FlattenSeq(seqs) \in Seq(V)
    BY <1>7, FlattenFacts
<1>. QED
    BY <1>2, <1>8, FiniteRange

\* The clients of all channels are finitely many, and their addresses are no other names.
LEMMA ClientsFinite ==
    ASSUME scenario \in Scenarios
    PROVE  IsFiniteSet(get_client_lst(S)) /\ \A c \in get_client_lst(S) : c # <<>> /\ c # <<"global">>
<1>. DEFINE of(ch) == {OfClient(ch, i, "IrcAddr") : i \in Range(ClientIds(S, ch))}
<1>1. ASSUME NEW ch PROVE IsFiniteSet(of(ch))
    <2>. DEFINE ids == Range(ClientIds(S, ch))
                f == [i \in ids |-> OfClient(ch, i, "IrcAddr")]
    <2>1. IsFiniteSet(ids)
        BY ClientIdsFinite
    <2>2. of(ch) = {f[i] : i \in ids}
        OBVIOUS
    <2>. HIDE DEF ids, f, of
    <2>3. IsFiniteSet({f[i] : i \in ids})
        BY <2>1, FiniteImage
    <2>. QED
        BY <2>2, <2>3
<1>. DEFINE g == [ch \in Channels |-> of(ch)]
            sets == {g[ch] : ch \in Channels}
<1>2. get_client_lst(S) = UNION sets
    BY DEF get_client_lst
<1>3. \A ch \in Channels : g[ch] = of(ch)
    OBVIOUS
<1>. HIDE DEF g, of
<1>4. \A set \in sets : IsFiniteSet(set)
    BY <1>1, <1>3
<1>5. IsFiniteSet(sets)
    BY FiniteSets, FiniteImage
<1>. HIDE DEF sets
<1>6. IsFiniteSet(UNION sets)
    BY <1>4, <1>5, FS_UNION
<1>7. \A c \in get_client_lst(S) : c # <<>> /\ c # <<"global">>
    <2>1. \A ch, i : OfClient(ch, i, "IrcAddr") # <<>> /\ OfClient(ch, i, "IrcAddr") # <<"global">>
        <3>1. \A ch, i : Len(OfClient(ch, i, "IrcAddr")) = 4
            BY DEF OfClient
        <3>. QED
            BY <3>1
    <2>. QED
        BY <2>1 DEF get_client_lst
<1>. QED
    BY <1>2, <1>6, <1>7

\* Every such address is an actor's that the initial state places.
LEMMA ClientPlaced ==
    ASSUME NEW s, NEW tool, NEW c \in get_client_lst(s)
    PROVE  c \in {a.at : a \in PlacedBy(Output(tool, s))}
<1>1. PICK ch \in Channels : \E i \in Range(ClientIds(s, ch)) : c = OfClient(ch, i, "IrcAddr")
    BY DEF get_client_lst
<1>2. PICK i \in Range(ClientIds(s, ch)) : c = OfClient(ch, i, "IrcAddr")
    BY <1>1
<1>. DEFINE profile == ClientProfile(s, ch, i)
            actor == Actor(OfClient(ch, i, "Irc"), OfClient(ch, i, "IrcAddr"), {OfClient(ch, i, "IfaceAddr")}, NoModel)
            side == CASE ch = "webtunnel" -> WebtunnelClient(i, profile)
                      [] ch = "skyhook"   -> SkyhookClient(i, profile)
                      [] ch = "obfs4"     -> Obfs4Client(i, profile)
                      [] ch = "iodine"    -> IodineClient(i, profile)
                      [] ch = "mastodon"  -> MastodonClient(i, profile)
<1>0. \A p, down, up : actor \in IrcSide(ch, i, p, down, up)
    BY DEF IrcSide
<1>. HIDE DEF actor, profile
<1>3. actor \in side
    <2>1. CASE ch = "webtunnel"
        BY <1>0, <2>1 DEF WebtunnelClient
    <2>2. CASE ch = "skyhook"
        BY <1>0, <2>2 DEF SkyhookClient
    <2>3. CASE ch = "obfs4"
        BY <1>0, <2>3 DEF Obfs4Client
    <2>4. CASE ch = "iodine"
        BY <1>0, <2>4 DEF IodineClient
    <2>5. CASE ch = "mastodon"
        BY <1>0, <2>5 DEF MastodonClient
    <2>. QED
        BY <2>1, <2>2, <2>3, <2>4, <2>5 DEF Channels
<1>4. side \subseteq ChannelActors(s, ch)
    BY DEF ChannelActors, profile
<1>5. actor \in DefinedActors(s) /\ actor \in ScriptClients(s)
    BY <1>3, <1>4 DEF DefinedActors, ScriptClients
<1>6. OfClient(ch, i, "Irc") \in initState(s)
    <2>1. "Irc" \in PlacedNames[ch]
        BY DEF PlacedNames, IrcSideNames, Channels
    <2>. DEFINE names(x) == {OfClient(x, j, name) : name \in PlacedNames[x], j \in Range(ClientIds(s, x))}
                all == UNION {names(x) : x \in Channels}
    <2>2. OfClient(ch, i, "Irc") \in names(ch)
        BY <2>1
    <2>3. all \subseteq initState(s)
        <3>. DEFINE shared == {Shared(name) : name \in SharedPlaced}
                    more == IF ClientIds(s, "mastodon") = <<>> THEN {} ELSE {Shared("masNetSrv")}
                    tgens == UNION {{OfTgen(t, name) : name \in PlacedNames[t.type]} : t \in Tgens(s)}
        <3>1. initState(s) = shared \cup more \cup all \cup tgens
            BY DEF initState
        <3>. HIDE DEF shared, more, all, tgens
        <3>. QED
            BY <3>1
    <2>. HIDE DEF names
    <2>. QED
        BY <2>2, <2>3
<1>7. actor.name = OfClient(ch, i, "Irc") /\ actor.at = c
    BY <1>2 DEF actor, Actor
<1>8. actor \in PlacedBy(Output(tool, s))
    <2>1. /\ Output(tool, s).defined = IF tool = "generate" THEN DefinedActors(s)
                                       ELSE ScriptClients(s) \cup ScriptBase \cup ScriptDns \cup ScriptTgens(s)
          /\ Output(tool, s).names = IF tool = "generate" THEN initState(s) ELSE ScriptInitState(s)
        BY DEF Output, GenOutput, ScriptOutput
    <2>2. actor \in Output(tool, s).defined
        BY <1>5, <2>1
    <2>3. actor.name \in Output(tool, s).names
        BY <1>6, <1>7, <2>1 DEF ScriptInitState
    <2>. QED
        BY <2>2, <2>3 DEF PlacedBy
<1>. QED
    BY <1>7, <1>8

-----------------------------------------------------------------------------
(* What the generators have written when: the invariant of the queries.  *)

\* The files of a call of the first generator, from the step that writes each.
GenMainFile ==
    MainFile(S, IF job.args.notgens THEN [job.args EXCEPT !.tgenDelay = 2 * RunTime] ELSE job.args,
             RunTime + Delay, filter_vpts(S, job.args), filter_feats(job.args))
GenQuatexFile ==
    QuatexFile(S, job.args, filter_vpts(S, job.args), filter_feats(job.args), RunTime, Delay)
GenAfterQuatex == {"baseline", "eqtmp", "run", "done"}
GenAfterMain == {"quatex"} \cup GenAfterQuatex
GenAfterParse == {"addresses", "main"} \cup GenAfterMain
GenOwn ==
    job.tool = "generate" =>
        /\ job.args \in GenArgs
        /\ job.step \in GenAfterParse => job.args.tgenDelay <= job.args.hcsDelay
        /\ job.step \in GenAfterMain => disk["main"] = GenMainFile
        /\ job.step \in GenAfterQuatex /\ job.args.quatex => disk["quatex"] = GenQuatexFile
        /\ job.step = "done" => disk["run"] = RunFile(disk["main"], job.args.perf, RunTime + Delay, "all")

\* The same for the script, when it is run by hand.
ScriptAfterQuatex == {"parallel", "eqtmp", "run", "done"}
ScriptAfterMain == {"baseline", "quatex"} \cup ScriptAfterQuatex
ScriptOwn ==
    job.tool = "script" =>
        /\ job.args \in ScriptArgs
        /\ job.step \in ScriptAfterMain => disk["main"] = ScriptMainFile(S, job.args)
        /\ job.step \in ScriptAfterQuatex /\ job.args.quatex => disk["quatex"] = ScriptQuatexFile(S, job.args)
        /\ job.step = "done" =>
             disk["run"] = RunFile(disk["main"], job.args.perf, ScriptLimit(job.args.runTime), job.args.combo)

\* Whatever queries are on disk, were answered or are formatted, there is a file of them.
QueriesKnown ==
    /\ disk["quatex"] # NoFile => QuatexFits(disk["quatex"])
    /\ stats # NoFile => QuatexFits(stats.asked)
    /\ job.tool = "format" => QuatexFits(tne.asked)

\* The invariant.  The files of queries are those of this call, or of some earlier one.
QueryInv == GenOwn /\ ScriptOwn /\ QueriesKnown

\* The script takes its delay and its time as they are given; it has no file of queries for
\* another.  They fit if the delay is at most a window, and the run at least the scenario's.
ScriptCovers ==
    \A a \in ScriptArgs, scn \in Scenarios :
        /\ a.hcsDelay <= scn.yaml.window
        /\ a.perf \/ a.runTime = 0 \/ a.runTime >= scn.yaml.duration

-----------------------------------------------------------------------------
\* The vantage points and features of a combo are of those there are.
LEMMA ComboOfAll ==
    ASSUME NEW combo \in ScriptCombos
    PROVE  ComboVantages(S, combo) \subseteq VANTAGE_POINTS /\ ComboFeatures(combo) \subseteq FEATURES
<1>1. CASE combo = "combo1"
    <2>1. ComboVantages(S, combo) = {"ixp-router"} \cup (NetNames(S) \cap {"client_net_sky"})
        BY <1>1 DEF ComboVantages
    <2>2. ComboFeatures(combo) \subseteq FEATURES
        BY <1>1 DEF ComboFeatures, FEATURES
    <2>. QED
        BY <2>1, <2>2 DEF VANTAGE_POINTS, ClientNets
<1>2. CASE combo = "combo2"
    <2>1. ComboVantages(S, combo) = {"server_net"} \cup (NetNames(S) \cap {"client_net_mastodon", "client_net_racetunnel"})
        BY <1>2 DEF ComboVantages
    <2>2. ComboFeatures(combo) \subseteq FEATURES
        BY <1>2 DEF ComboFeatures, FEATURES
    <2>. QED
        BY <2>1, <2>2 DEF VANTAGE_POINTS, ClientNets
<1>3. CASE combo = "combo4x5"
    <2>1. ComboVantages(S, combo) = {"mastodon_net", "client_net_iodine", "minio_net", "client_net_racetunnel"}
        BY <1>3 DEF ComboVantages
    <2>2. ComboFeatures(combo) \subseteq FEATURES
        BY <1>3 DEF ComboFeatures, FEATURES
    <2>. QED
        BY <2>1, <2>2 DEF VANTAGE_POINTS, ClientNets
<1>4. CASE combo = "top25"
    <2>1. ComboVantages(S, combo) = VANTAGE_POINTS
        BY <1>4 DEF ComboVantages
    <2>2. ComboFeatures(combo) \subseteq FEATURES
        BY <1>4 DEF ComboFeatures, FEATURES
    <2>. QED
        BY <2>1, <2>2
<1>5. CASE combo = "ixp"
    <2>1. ComboVantages(S, combo) = {"ixp-router"}
        BY <1>5 DEF ComboVantages
    <2>2. ComboFeatures(combo) = FEATURES
        BY <1>5 DEF ComboFeatures
    <2>. QED
        BY <2>1, <2>2 DEF VANTAGE_POINTS
<1>6. CASE combo = "all"
    <2>1. ComboVantages(S, combo) = {"ixp-router"} \cup (NetNames(S) \cap (ClientNets \cup {"server_net", "mastodon_net"}))
        BY <1>6 DEF ComboVantages
    <2>2. ComboFeatures(combo) = FEATURES
        BY <1>6 DEF ComboFeatures
    <2>. QED
        BY <2>1, <2>2 DEF VANTAGE_POINTS
<1>. QED
    BY <1>1, <1>2, <1>3, <1>4, <1>5, <1>6 DEF ScriptCombos

\* Finitely many vantage points have finitely many ids.
LEMMA IdsFit ==
    ASSUME NEW vpts, vpts \subseteq VANTAGE_POINTS
    PROVE  LET ids == {VantageId(S, v) : v \in vpts}
           IN IsFiniteSet(ids) /\ <<>> \notin ids
<1>. DEFINE f == [v \in vpts |-> VantageId(S, v)]
            ids == {VantageId(S, v) : v \in vpts}
<1>1. IsFiniteSet(vpts)
    BY FiniteSets, FS_Subset
<1>2. ids = {f[v] : v \in vpts}
    OBVIOUS
<1>3. \A v : VantageId(S, v) # <<>>
    <2>1. \A v : NetId(S, v) # <<>>
        <3>. TAKE v
        <3>1. \E a, b : NetId(S, v) = <<a, b>>
            BY DEF NetId
        <3>. QED
            BY <3>1
    <2>. QED
        BY <2>1 DEF VantageId
<1>4. <<>> \notin ids
    BY <1>3
<1>. HIDE DEF f, ids
<1>5. IsFiniteSet({f[v] : v \in vpts})
    BY <1>1, FiniteImage
<1>. QED
    BY <1>2, <1>4, <1>5 DEF ids

\* A run lasts a whole number of windows and what is left over.
LEMMA Windows ==
    ASSUME scenario \in Scenarios
    PROVE  /\ S.duration \in Nat \ {0} /\ S.window \in Nat \ {0}
           /\ \A time \in Nat : time \div S.window \in Nat /\ S.window * (time \div S.window) <= time
<1>1. S.duration \in Nat \ {0} /\ S.window \in Nat \ {0}
    BY ScenariosAssumption DEF S
<1>. QED
    BY <1>1, Division

\* A file of queries fits, if the script writes it.
LEMMA ScriptQuatexFits ==
    ASSUME scenario \in Scenarios, NEW args, args.combo \in ScriptCombos
    PROVE  QuatexFits(ScriptQuatexFile(S, args))
<1>. DEFINE cfg == ScriptQuatexFile(S, args)
<1>1. /\ cfg.maxWin = S.duration \div S.window /\ cfg.clients = get_client_lst(S)
      /\ cfg.vpts = {VantageId(S, v) : v \in ComboVantages(S, args.combo)}
      /\ cfg.feats = ComboFeatures(args.combo)
    BY DEF ScriptQuatexFile
<1>. HIDE DEF cfg
<1>2. cfg.maxWin \in Nat
    BY <1>1, Windows
<1>3. IsFiniteSet(cfg.vpts) /\ <<>> \notin cfg.vpts
    BY <1>1, ComboOfAll, IdsFit
<1>4. cfg.feats \subseteq FEATURES
    BY <1>1, ComboOfAll
<1>5. IsFiniteSet(cfg.clients) /\ \A c \in cfg.clients : c # <<>> /\ c # <<"global">>
    BY <1>1, ClientsFinite
<1>. QED
    BY <1>2, <1>3, <1>4, <1>5 DEF QuatexFits, cfg

\* So do those of maude-hcs generate, whose run lasts.
LEMMA GenQuatexFits ==
    ASSUME scenario \in Scenarios, job.args \in GenArgs
    PROVE  /\ QuatexFits(GenQuatexFile)
           /\ RunTime \in Nat \ {0}
<1>. DEFINE cfg == GenQuatexFile
<1>1. /\ cfg.maxWin = RunTime \div S.window /\ cfg.clients = get_client_lst(S)
      /\ cfg.vpts = {VantageId(S, v) : v \in filter_vpts(S, job.args)}
      /\ cfg.feats = filter_feats(job.args)
    BY DEF GenQuatexFile, QuatexFile
<1>. HIDE DEF cfg
<1>2. RunTime \in Nat \ {0}
    BY Windows, ArgsAssumption DEF RunTime
<1>3. cfg.maxWin \in Nat
    BY <1>1, <1>2, Windows
<1>4. IsFiniteSet(cfg.vpts) /\ <<>> \notin cfg.vpts
    <2>1. filter_vpts(S, job.args) \subseteq VANTAGE_POINTS
        BY DEF filter_vpts
    <2>. QED
        BY <1>1, <2>1, IdsFit
<1>5. cfg.feats \subseteq FEATURES
    BY <1>1 DEF filter_feats
<1>6. IsFiniteSet(cfg.clients) /\ \A c \in cfg.clients : c # <<>> /\ c # <<"global">>
    BY <1>1, ClientsFinite
<1>. QED
    BY <1>2, <1>3, <1>4, <1>5, <1>6 DEF QuatexFits, cfg

-----------------------------------------------------------------------------
(* The steps of the tools keep it. *)

\* Before any tool was started there are no queries.
LEMMA InitQueryInv == Init => QueryInv
<1>. SUFFICES ASSUME Init PROVE QueryInv
    OBVIOUS
<1>1. job.tool = "none" /\ disk["quatex"] = NoFile /\ stats = NoFile
    BY DEF Init, ParallelInit, BaselinesInit, GenInit, Idle, Files
<1>. QED
    BY <1>1 DEF QueryInv, GenOwn, ScriptOwn, QueriesKnown

\* What a generator writes depends on the scenario and its arguments only.
LEMMA SameFiles ==
    ASSUME scenario' = scenario, job'.args = job.args
    PROVE  /\ S' = S /\ RunTime' = RunTime /\ Delay' = Delay
           /\ GenMainFile' = GenMainFile /\ GenQuatexFile' = GenQuatexFile
           /\ ScriptMainFile(S, job.args)' = ScriptMainFile(S, job.args)
           /\ ScriptQuatexFile(S, job.args)' = ScriptQuatexFile(S, job.args)
<1>1. S' = S
    BY DEF S
<1>2. RunTime' = RunTime
    BY <1>1 DEF RunTime
<1>3. Delay' = Delay
    BY DEF Delay
<1>4. filter_vpts(S, job.args)' = filter_vpts(S, job.args) /\ filter_feats(job.args)' = filter_feats(job.args)
    BY <1>1 DEF filter_vpts, filter_feats
<1>5. GenMainFile' = GenMainFile
    BY <1>1, <1>2, <1>3, <1>4 DEF GenMainFile, MainFile
<1>6. GenQuatexFile' = GenQuatexFile
    BY <1>1, <1>2, <1>3, <1>4 DEF GenQuatexFile, QuatexFile
<1>7. ScriptMainFile(S, job.args)' = ScriptMainFile(S, job.args)
    BY <1>1 DEF ScriptMainFile, MainFile
<1>8. ScriptQuatexFile(S, job.args)' = ScriptQuatexFile(S, job.args)
    BY <1>1 DEF ScriptQuatexFile
<1>. QED
    BY <1>1, <1>2, <1>3, <1>5, <1>6, <1>7, <1>8

\* No query is lost when a file of them is left alone, or a known one is written.
LEMMA KnownStay ==
    ASSUME QueriesKnown, UNCHANGED <<stats, tne>>, job'.tool = "format" => job.tool = "format",
           disk'["quatex"] = disk["quatex"] \/ QuatexFits(disk'["quatex"])
    PROVE  QueriesKnown'
<1>1. \A cfg : QuatexFits(cfg)' = QuatexFits(cfg)
    BY DEF QuatexFits
<1>2. stats' = stats /\ tne' = tne
    OBVIOUS
<1>. QED
    BY <1>1, <1>2 DEF QueriesKnown

\* Other tools leave the queries alone.
LEMMA OtherCall ==
    ASSUME QueriesKnown, UNCHANGED <<stats, tne>>, disk'["quatex"] = disk["quatex"],
           job'.tool \notin {"generate", "script", "format"}
    PROVE  QueryInv'
<1>1. QueriesKnown'
    BY KnownStay
<1>. QED
    BY <1>1 DEF QueryInv, GenOwn, ScriptOwn

\* A generator's step that writes neither file keeps both, as far as it had got.
LEMMA GenStays ==
    ASSUME GenOwn, scenario' = scenario, SameCall,
           disk'["main"] = disk["main"], disk'["quatex"] = disk["quatex"], job'.step # "done",
           job'.step \in GenAfterParse => job.step \in GenAfterParse,
           job'.step \in GenAfterMain => job.step \in GenAfterMain,
           job'.step \in GenAfterQuatex => job.step \in GenAfterQuatex
    PROVE  GenOwn'
<1>1. job'.args = job.args /\ job'.tool = job.tool
    BY DEF SameCall
<1>. QED
    BY <1>1, SameFiles DEF GenOwn, GenAfterParse, GenAfterMain, GenAfterQuatex

\* The same for the script.
LEMMA ScriptStays ==
    ASSUME ScriptOwn, scenario' = scenario, SameCall,
           disk'["main"] = disk["main"], disk'["quatex"] = disk["quatex"], job'.step # "done",
           job'.step \in ScriptAfterMain => job.step \in ScriptAfterMain,
           job'.step \in ScriptAfterQuatex => job.step \in ScriptAfterQuatex
    PROVE  ScriptOwn'
<1>1. job'.args = job.args /\ job'.tool = job.tool
    BY DEF SameCall
<1>. QED
    BY <1>1, SameFiles DEF ScriptOwn, ScriptAfterMain, ScriptAfterQuatex

\* The steps of maude-hcs generate.
LEMMA GenerateQueries ==
    ASSUME Shapes, QueryInv, Generate, UNCHANGED <<stats, tne>>
    PROVE  QueryInv'
<1>. USE DEF QueryInv
<1>0. scenario' = scenario /\ scenario \in Scenarios
    BY DEF Generate, Shapes
<1>1. CASE StartGenerate
    <2>1. PICK args \in GenArgs : Start("generate", args)
        BY <1>1 DEF StartGenerate
    <2>2. job'.tool = "generate" /\ job'.args = args /\ job'.step = "parse" /\ disk' = disk
        BY <2>1 DEF Start
    <2>3. QueriesKnown'
        BY <2>2, KnownStay
    <2>. QED
        BY <2>2, <2>3 DEF GenOwn, ScriptOwn, GenAfterParse, GenAfterMain, GenAfterQuatex
<1>. SUFFICES ASSUME job.tool = "generate", ~StartGenerate
              PROVE  GenOwn' /\ SameCall /\ (disk'["quatex"] = disk["quatex"] \/ QuatexFits(disk'["quatex"]))
    <2>1. ~StartGenerate => job.tool = "generate"
        BY DEF Generate, GenParse, GenAddresses, GenMain, GenQuatex, GenBaseline, GenEqTmp, GenRun, Busy
    <2>2. CASE ~StartGenerate
        <3>1. /\ job.tool = "generate" /\ GenOwn' /\ SameCall
              /\ disk'["quatex"] = disk["quatex"] \/ QuatexFits(disk'["quatex"])
            BY <2>1, <2>2
        <3>2. job'.tool = "generate"
            BY <3>1 DEF SameCall
        <3>. QED
            BY <3>1, <3>2, KnownStay DEF ScriptOwn
    <2>. QED
        BY <1>1, <2>2
<1>2. CASE GenParse
    <2>1. job.step = "parse" /\ disk' = disk /\ SameCall
          /\ ((job'.step = "addresses" /\ job.args.tgenDelay <= job.args.hcsDelay) \/ job'.step = "failed")
        BY <1>2, SkipFacts DEF GenParse, Busy
    <2>2. GenOwn'
        BY <2>1 DEF GenOwn, SameCall, GenAfterParse, GenAfterMain, GenAfterQuatex
    <2>. QED
        BY <2>1, <2>2
<1>3. CASE GenAddresses
    <2>1. job.step = "addresses" /\ "addresses" \in Files
          /\ Write("addresses", [clients |-> get_client_lst(S)], "main")
        BY <1>3 DEF GenAddresses, Busy, Files
    <2>2. SameCall /\ job'.step = "main" /\ \A other \in Files \ {"addresses"} : disk'[other] = disk[other]
        BY <2>1, WriteFacts
    <2>3. disk'["main"] = disk["main"] /\ disk'["quatex"] = disk["quatex"]
        BY <2>2 DEF Files
    <2>4. GenOwn'
        BY <1>0, <2>1, <2>2, <2>3, GenStays DEF GenAfterParse, GenAfterMain, GenAfterQuatex
    <2>. QED
        BY <2>2, <2>3, <2>4
<1>4. CASE GenMain
    <2>1. job.step = "main" /\ "main" \in Files
        BY <1>4 DEF GenMain, Busy, Files
    <2>2. CASE Fail
        <3>1. SameCall /\ disk' = disk /\ job'.step = "failed"
            BY <2>2, SkipFacts
        <3>2. GenOwn'
            BY <1>0, <3>1, GenStays DEF GenAfterParse, GenAfterMain, GenAfterQuatex
        <3>. QED
            BY <3>1, <3>2
    <2>3. CASE Write("main", GenMainFile, "quatex")
        <3>1. /\ SameCall /\ job'.step = "quatex" /\ disk'["main"] = GenMainFile
              /\ \A other \in Files \ {"main"} : disk'[other] = disk[other]
            BY <2>1, <2>3, WriteFacts
        <3>2. disk'["quatex"] = disk["quatex"]
            BY <3>1 DEF Files
        <3>3. job'.args = job.args /\ job'.tool = job.tool
            BY <3>1 DEF SameCall
        <3>4. GenOwn'
            BY <1>0, <2>1, <3>1, <3>3, SameFiles DEF GenOwn, GenAfterParse, GenAfterMain, GenAfterQuatex
        <3>. QED
            BY <3>1, <3>2, <3>4
    <2>. QED
        BY <1>4, <2>2, <2>3 DEF GenMain, GenMainFile
<1>5. CASE GenQuatex
    <2>1. job.step = "quatex" /\ "quatex" \in Files
        BY <1>5 DEF GenQuatex, Busy, Files
    <2>2. CASE Fail
        <3>1. SameCall /\ disk' = disk /\ job'.step = "failed"
            BY <2>2, SkipFacts
        <3>2. GenOwn'
            BY <1>0, <3>1, GenStays DEF GenAfterParse, GenAfterMain, GenAfterQuatex
        <3>. QED
            BY <3>1, <3>2
    <2>3. CASE ~job.args.quatex /\ Skip("baseline")
        <3>1. SameCall /\ disk' = disk /\ job'.step = "baseline"
            BY <2>3, SkipFacts
        <3>2. job'.args = job.args /\ job'.tool = job.tool
            BY <3>1 DEF SameCall
        <3>3. GenOwn'
            BY <1>0, <2>1, <2>3, <3>1, <3>2, SameFiles DEF GenOwn, GenAfterParse, GenAfterMain, GenAfterQuatex
        <3>. QED
            BY <3>1, <3>3
    <2>4. CASE Write("quatex", GenQuatexFile, "baseline")
        <3>1. /\ SameCall /\ job'.step = "baseline" /\ disk'["quatex"] = GenQuatexFile
              /\ \A other \in Files \ {"quatex"} : disk'[other] = disk[other]
            BY <2>1, <2>4, WriteFacts
        <3>2. disk'["main"] = disk["main"]
            BY <3>1 DEF Files
        <3>3. job'.args = job.args /\ job'.tool = job.tool
            BY <3>1 DEF SameCall
        <3>4. GenOwn'
            BY <1>0, <2>1, <3>1, <3>2, <3>3, SameFiles DEF GenOwn, GenAfterParse, GenAfterMain, GenAfterQuatex
        <3>5. QuatexFits(disk'["quatex"])
            BY <1>0, <3>1, GenQuatexFits DEF GenOwn
        <3>. QED
            BY <3>1, <3>4, <3>5
    <2>. QED
        BY <1>5, <2>2, <2>3, <2>4 DEF GenQuatex, GenQuatexFile
<1>6. CASE GenBaseline
    <2>1. job.step = "baseline" /\ "baseline" \in Files
        BY <1>6 DEF GenBaseline, Busy, Files
    <2>2. /\ SameCall /\ job'.step \in {"run", "eqtmp"}
          /\ \A other \in Files \ {"baseline"} : disk'[other] = disk[other]
        <3>1. CASE Skip("run")
            BY <3>1, SkipFacts
        <3>2. CASE \E content : Write("baseline", content, "eqtmp")
            BY <2>1, <3>2, WriteFacts
        <3>. QED
            BY <1>6, <3>1, <3>2 DEF GenBaseline
    <2>3. disk'["main"] = disk["main"] /\ disk'["quatex"] = disk["quatex"]
        BY <2>2 DEF Files
    <2>4. GenOwn'
        BY <1>0, <2>1, <2>2, <2>3, GenStays DEF GenAfterParse, GenAfterMain, GenAfterQuatex
    <2>. QED
        BY <2>2, <2>3, <2>4
<1>7. CASE GenEqTmp
    <2>1. job.step = "eqtmp" /\ "eqtmp" \in Files /\ Write("eqtmp", [bl |-> "nil"], "run")
        BY <1>7 DEF GenEqTmp, Busy, Files
    <2>2. SameCall /\ job'.step = "run" /\ \A other \in Files \ {"eqtmp"} : disk'[other] = disk[other]
        BY <2>1, WriteFacts
    <2>3. disk'["main"] = disk["main"] /\ disk'["quatex"] = disk["quatex"]
        BY <2>2 DEF Files
    <2>4. GenOwn'
        BY <1>0, <2>1, <2>2, <2>3, GenStays DEF GenAfterParse, GenAfterMain, GenAfterQuatex
    <2>. QED
        BY <2>2, <2>3, <2>4
<1>8. CASE GenRun
    <2>. DEFINE content == RunFile(disk["main"], job.args.perf, RunTime + Delay, "all")
    <2>1. job.step = "run" /\ disk' = [disk EXCEPT !["run"] = content] /\ job' = Ended(TRUE) /\ TRUE \in BOOLEAN
        BY <1>8 DEF GenRun, Busy
    <2>2. SameCall /\ job'.step = "done"
        BY <2>1, StepFacts DEF Shapes, JobFields
    <2>. HIDE DEF content
    <2>3. disk'["main"] = disk["main"] /\ disk'["quatex"] = disk["quatex"] /\ disk'["run"] = content
        BY <2>1 DEF Shapes, Files
    <2>4. job'.args = job.args /\ job'.tool = job.tool
        BY <2>2 DEF SameCall
    <2>5. content = RunFile(disk'["main"], job'.args.perf, (RunTime + Delay)', "all")
        BY <1>0, <2>3, <2>4, SameFiles DEF content
    <2>6. GenOwn'
        BY <1>0, <2>1, <2>2, <2>3, <2>4, <2>5, SameFiles DEF GenOwn, GenAfterParse, GenAfterMain, GenAfterQuatex
    <2>. QED
        BY <2>2, <2>3, <2>6
<1>. QED
    BY <1>2, <1>3, <1>4, <1>5, <1>6, <1>7, <1>8 DEF Generate

\* The steps of the script, by hand or for a pipeline.
LEMMA ScriptQueries ==
    ASSUME Shapes, QueryInv, Script, UNCHANGED <<stats, tne>>
    PROVE  QueryInv'
<1>. USE DEF QueryInv
<1>0. scenario' = scenario /\ scenario \in Scenarios
    BY DEF Script, Shapes
<1>1. CASE StartScript
    <2>1. PICK args \in ScriptArgs : Start("script", args)
        BY <1>1 DEF StartScript
    <2>2. job'.tool = "script" /\ job'.args = args /\ job'.step = "parse" /\ disk' = disk
        BY <2>1 DEF Start
    <2>3. QueriesKnown'
        BY <2>2, KnownStay
    <2>. QED
        BY <2>2, <2>3 DEF GenOwn, ScriptOwn, ScriptAfterMain, ScriptAfterQuatex
<1>. SUFFICES ASSUME job.tool \in ScriptCallers, ~StartScript
              PROVE  ScriptOwn' /\ SameCall /\ (disk'["quatex"] = disk["quatex"] \/ QuatexFits(disk'["quatex"]))
    <2>1. ~StartScript => job.tool \in ScriptCallers
        BY DEF Script, ScriptParse, ScriptAddresses, ScriptMain, ScriptBaseline, ScriptQuatex, ScriptParallel,
               ScriptEqTmp, ScriptRun
    <2>2. CASE ~StartScript
        <3>1. /\ job.tool \in ScriptCallers /\ ScriptOwn' /\ SameCall
              /\ disk'["quatex"] = disk["quatex"] \/ QuatexFits(disk'["quatex"])
            BY <2>1, <2>2
        <3>2. job'.tool \in ScriptCallers
            BY <3>1 DEF SameCall
        <3>. QED
            BY <3>1, <3>2, KnownStay DEF GenOwn, ScriptCallers
    <2>. QED
        BY <1>1, <2>2
<1>00. job.args.combo \in ScriptCombos
    <2>1. job.tool = "script" => job.args.combo \in ScriptCombos
        BY ArgsAssumption DEF ScriptOwn
    <2>2. job.tool = "pipeline" => job.args.combo \in ScriptCombos
        BY PipelineTypes
    <2>3. job.tool = "isolated" => job.args.combo \in ScriptCombos
        BY DEF Shapes, IsolatedArgs, ScriptCombos
    <2>. QED
        BY <2>1, <2>2, <2>3 DEF ScriptCallers
<1>2. CASE ScriptParse
    <2>1. job.step = "parse" /\ disk' = disk /\ SameCall /\ job'.step \in {"addresses", "failed"}
        BY <1>2, SkipFacts DEF ScriptParse
    <2>2. ScriptOwn'
        BY <1>0, <2>1, ScriptStays DEF ScriptAfterMain, ScriptAfterQuatex
    <2>. QED
        BY <2>1, <2>2
<1>3. CASE ScriptAddresses
    <2>1. job.step = "addresses" /\ "addresses" \in Files
          /\ Write("addresses", [clients |-> get_client_lst(S)], "main")
        BY <1>3 DEF ScriptAddresses, Files
    <2>2. SameCall /\ job'.step = "main" /\ \A other \in Files \ {"addresses"} : disk'[other] = disk[other]
        BY <2>1, WriteFacts
    <2>3. disk'["main"] = disk["main"] /\ disk'["quatex"] = disk["quatex"]
        BY <2>2 DEF Files
    <2>4. ScriptOwn'
        BY <1>0, <2>1, <2>2, <2>3, ScriptStays DEF ScriptAfterMain, ScriptAfterQuatex
    <2>. QED
        BY <2>2, <2>3, <2>4
<1>4. CASE ScriptMain
    <2>1. job.step = "main" /\ "main" \in Files
        BY <1>4 DEF ScriptMain, Files
    <2>2. CASE Fail
        <3>1. SameCall /\ disk' = disk /\ job'.step = "failed"
            BY <2>2, SkipFacts
        <3>2. ScriptOwn'
            BY <1>0, <3>1, ScriptStays DEF ScriptAfterMain, ScriptAfterQuatex
        <3>. QED
            BY <3>1, <3>2
    <2>3. CASE Write("main", ScriptMainFile(S, job.args), "baseline")
        <3>1. /\ SameCall /\ job'.step = "baseline" /\ disk'["main"] = ScriptMainFile(S, job.args)
              /\ \A other \in Files \ {"main"} : disk'[other] = disk[other]
            BY <2>1, <2>3, WriteFacts
        <3>2. disk'["quatex"] = disk["quatex"]
            BY <3>1 DEF Files
        <3>3. job'.args = job.args /\ job'.tool = job.tool
            BY <3>1 DEF SameCall
        <3>4. ScriptOwn'
            BY <1>0, <2>1, <3>1, <3>3, SameFiles DEF ScriptOwn, ScriptAfterMain, ScriptAfterQuatex
        <3>. QED
            BY <3>1, <3>2, <3>4
    <2>. QED
        BY <1>4, <2>2, <2>3 DEF ScriptMain
<1>5. CASE ScriptBaseline
    <2>1. job.step = "baseline" /\ "baseline" \in Files
        BY <1>5 DEF ScriptBaseline, Files
    <2>2. PICK content : Write("baseline", content, "quatex")
        BY <1>5 DEF ScriptBaseline
    <2>3. SameCall /\ job'.step = "quatex" /\ \A other \in Files \ {"baseline"} : disk'[other] = disk[other]
        BY <2>1, <2>2, WriteFacts
    <2>4. disk'["main"] = disk["main"] /\ disk'["quatex"] = disk["quatex"]
        BY <2>3 DEF Files
    <2>5. ScriptOwn'
        BY <1>0, <2>1, <2>3, <2>4, ScriptStays DEF ScriptAfterMain, ScriptAfterQuatex
    <2>. QED
        BY <2>3, <2>4, <2>5
<1>6. CASE ScriptQuatex
    <2>1. job.step = "quatex" /\ "quatex" \in Files
        BY <1>6 DEF ScriptQuatex, Files
    <2>2. CASE ~job.args.quatex /\ Skip("parallel")
        <3>1. SameCall /\ disk' = disk /\ job'.step = "parallel"
            BY <2>2, SkipFacts
        <3>2. job'.args = job.args /\ job'.tool = job.tool
            BY <3>1 DEF SameCall
        <3>3. ScriptOwn'
            BY <1>0, <2>1, <2>2, <3>1, <3>2, SameFiles DEF ScriptOwn, ScriptAfterMain, ScriptAfterQuatex
        <3>. QED
            BY <3>1, <3>3
    <2>3. CASE Write("quatex", ScriptQuatexFile(S, job.args), "parallel")
        <3>1. /\ SameCall /\ job'.step = "parallel" /\ disk'["quatex"] = ScriptQuatexFile(S, job.args)
              /\ \A other \in Files \ {"quatex"} : disk'[other] = disk[other]
            BY <2>1, <2>3, WriteFacts
        <3>2. disk'["main"] = disk["main"]
            BY <3>1 DEF Files
        <3>3. job'.args = job.args /\ job'.tool = job.tool
            BY <3>1 DEF SameCall
        <3>4. ScriptOwn'
            BY <1>0, <2>1, <3>1, <3>2, <3>3, SameFiles DEF ScriptOwn, ScriptAfterMain, ScriptAfterQuatex
        <3>5. QuatexFits(disk'["quatex"])
            BY <1>0, <1>00, <3>1, ScriptQuatexFits
        <3>. QED
            BY <3>1, <3>4, <3>5
    <2>. QED
        BY <1>6, <2>2, <2>3 DEF ScriptQuatex
<1>7. CASE ScriptParallel
    <2>1. job.step = "parallel" /\ "baselines" \in Files
        BY <1>7 DEF ScriptParallel, Files
    <2>2. /\ SameCall /\ job'.step = "eqtmp"
          /\ \A other \in Files \ {"baselines"} : disk'[other] = disk[other]
        <3>1. CASE Skip("eqtmp")
            BY <3>1, SkipFacts
        <3>2. CASE \E content : Write("baselines", content, "eqtmp")
            BY <2>1, <3>2, WriteFacts
        <3>. QED
            BY <1>7, <3>1, <3>2 DEF ScriptParallel
    <2>3. disk'["main"] = disk["main"] /\ disk'["quatex"] = disk["quatex"]
        BY <2>2 DEF Files
    <2>4. ScriptOwn'
        BY <1>0, <2>1, <2>2, <2>3, ScriptStays DEF ScriptAfterMain, ScriptAfterQuatex
    <2>. QED
        BY <2>2, <2>3, <2>4
<1>8. CASE ScriptEqTmp
    <2>1. job.step = "eqtmp" /\ "eqtmp" \in Files /\ Write("eqtmp", [bl |-> "nil"], "run")
        BY <1>8 DEF ScriptEqTmp, Files
    <2>2. SameCall /\ job'.step = "run" /\ \A other \in Files \ {"eqtmp"} : disk'[other] = disk[other]
        BY <2>1, WriteFacts
    <2>3. disk'["main"] = disk["main"] /\ disk'["quatex"] = disk["quatex"]
        BY <2>2 DEF Files
    <2>4. ScriptOwn'
        BY <1>0, <2>1, <2>2, <2>3, ScriptStays DEF ScriptAfterMain, ScriptAfterQuatex
    <2>. QED
        BY <2>2, <2>3, <2>4
<1>9. CASE ScriptRun
    <2>. DEFINE content == RunFile(disk["main"], job.args.perf, ScriptLimit(job.args.runTime), job.args.combo)
    <2>1. job.step = "run" /\ disk' = [disk EXCEPT !["run"] = content]
        BY <1>9 DEF ScriptRun
    <2>2. SameCall /\ (job.tool = "script" \/ job'.step \in {"trials", "list"})
        <3>1. DOMAIN job = JobFields /\ TRUE \in BOOLEAN
            BY DEF Shapes, JobFields
        <3>2. CASE job.tool = "script"
            <4>1. job' = Ended(TRUE)
                BY <1>9, <3>2 DEF ScriptRun
            <4>. QED
                BY <3>1, <3>2, <4>1, StepFacts
        <3>3. CASE job.tool = "pipeline"
            <4>1. Goto("trials")
                BY <1>9, <3>3 DEF ScriptRun, Goto
            <4>. QED
                BY <3>1, <3>3, <4>1, StepFacts
        <3>4. CASE job.tool = "isolated"
            <4>1. Goto("list")
                BY <1>9, <3>4 DEF ScriptRun, Goto
            <4>. QED
                BY <3>1, <3>4, <4>1, StepFacts
        <3>. QED
            BY <3>2, <3>3, <3>4 DEF ScriptCallers
    <2>. HIDE DEF content
    <2>3. disk'["main"] = disk["main"] /\ disk'["quatex"] = disk["quatex"] /\ disk'["run"] = content
        BY <2>1 DEF Shapes, Files
    <2>4. job'.args = job.args /\ job'.tool = job.tool
        BY <2>2 DEF SameCall
    <2>5. content = RunFile(disk'["main"], job'.args.perf, ScriptLimit(job.args.runTime)', job'.args.combo)
        BY <1>0, <2>3, <2>4 DEF content, ScriptLimit
    <2>6. ScriptOwn'
        BY <1>0, <2>1, <2>2, <2>3, <2>4, <2>5, SameFiles DEF ScriptOwn, ScriptAfterMain, ScriptAfterQuatex
    <2>. QED
        BY <2>2, <2>3, <2>6
<1>. QED
    BY <1>2, <1>3, <1>4, <1>5, <1>6, <1>7, <1>8, <1>9 DEF Script

\* A tool that is killed has nothing done.
LEMMA KillQueries ==
    ASSUME Shapes, QueryInv, Kill, UNCHANGED <<stats, tne>>
    PROVE  QueryInv'
<1>1. /\ scenario' = scenario /\ disk' = disk /\ job' = Ended(FALSE) /\ FALSE \in BOOLEAN
    BY DEF Kill
<1>2. SameCall /\ job'.step = "failed"
    BY <1>1, StepFacts DEF Shapes, JobFields
<1>3. GenOwn'
    BY <1>1, <1>2, GenStays DEF QueryInv, GenAfterParse, GenAfterMain, GenAfterQuatex
<1>4. ScriptOwn'
    BY <1>1, <1>2, ScriptStays DEF QueryInv, ScriptAfterMain, ScriptAfterQuatex
<1>5. QueriesKnown'
    BY <1>1, <1>2, KnownStay DEF QueryInv, SameCall
<1>. QED
    BY <1>3, <1>4, <1>5 DEF QueryInv

\* The pipelines' other steps are of another call.
LEMMA PipelineQueries ==
    ASSUME Shapes, QueryInv, UNCHANGED <<stats, tne>>,
           \/ StartPipeline \/ SetUpTrials \/ TrialsOver \/ Combine \/ WriteEquation \/ WriteJson
           \/ \E i \in Trials : StartTrial(i) \/ FinishTrial(i)
    PROVE  QueryInv'
<1>0. DOMAIN job = JobFields /\ {TRUE, FALSE} \subseteq BOOLEAN
    BY DEF Shapes, JobFields
<1>. SUFFICES disk' = disk /\ job'.tool = "pipeline"
    BY OtherCall DEF QueryInv
<1>1. CASE StartPipeline
    BY <1>1 DEF StartPipeline, Untouched
<1>2. CASE SetUpTrials
    BY <1>0, <1>2, StepFacts DEF SetUpTrials, Untouched, InPipeline, SameCall
<1>3. CASE TrialsOver
    BY <1>0, <1>3, StepFacts DEF TrialsOver, Untouched, InPipeline, SameCall
<1>4. CASE Combine
    BY <1>0, <1>4, StepFacts DEF Combine, Untouched, InPipeline, SameCall
<1>5. CASE WriteEquation
    BY <1>0, <1>5, StepFacts DEF WriteEquation, Untouched, InPipeline, SameCall
<1>6. CASE WriteJson
    BY <1>0, <1>6, StepFacts DEF WriteJson, Untouched, InPipeline, SameCall
<1>7. CASE \E i \in Trials : StartTrial(i) \/ FinishTrial(i)
    BY <1>7 DEF StartTrial, FinishTrial, Untouched, InPipeline
<1>. QED
    BY <1>1, <1>2, <1>3, <1>4, <1>5, <1>6, <1>7

\* Nor do those of isolated channels, and what is run by hand.
LEMMA IsolatedQueries ==
    ASSUME Shapes, QueryInv, UNCHANGED <<stats, tne>>,
           \/ StartIsolated \/ ListFiles \/ MaudesOver \/ JoinLogs \/ ParseByHand
           \/ \E k \in DOMAIN tasks : StartMaude(k) \/ FinishMaude(k)
    PROVE  QueryInv'
<1>0. DOMAIN job = JobFields /\ {TRUE, FALSE} \subseteq BOOLEAN
    BY DEF Shapes, JobFields
<1>. SUFFICES disk'["quatex"] = disk["quatex"] /\ job'.tool \in {"isolated", "parse"}
    BY OtherCall DEF QueryInv
<1>1. CASE StartIsolated
    BY <1>1 DEF StartIsolated, Shapes, Files
<1>2. CASE ListFiles
    <2>1. Goto("running") /\ job.tool = "isolated" /\ disk' = disk
        BY <1>2 DEF ListFiles, InIsolated
    <2>. QED
        BY <1>0, <2>1, StepFacts DEF SameCall
<1>3. CASE MaudesOver
    <2>1. Goto("join") /\ job.tool = "isolated" /\ disk' = disk
        BY <1>3 DEF MaudesOver, InIsolated
    <2>. QED
        BY <1>0, <2>1, StepFacts DEF SameCall
<1>4. CASE JoinLogs
    <2>1. (job' = Ended(TRUE) \/ job' = Ended(FALSE)) /\ job.tool = "isolated" /\ disk' = disk
        BY <1>4 DEF JoinLogs, InIsolated
    <2>. QED
        BY <1>0, <2>1, StepFacts DEF SameCall
<1>5. CASE ParseByHand
    BY <1>5 DEF ParseByHand
<1>6. CASE \E k \in DOMAIN tasks : StartMaude(k) \/ FinishMaude(k)
    BY <1>6 DEF StartMaude, FinishMaude, InIsolated
<1>. QED
    BY <1>1, <1>2, <1>3, <1>4, <1>5, <1>6

\* Queries that are answered were a file; it is formatted as what was answered.
LEMMA AnswerQueries ==
    ASSUME QueryInv, RunQueries
    PROVE  QueryInv'
<1>1. scenario' = scenario /\ disk' = disk /\ job' = job /\ tne' = tne /\ disk["quatex"] # NoFile
    BY DEF RunQueries
<1>2. stats'.asked = disk["quatex"]
    <2>1. PICK complete : stats' = [asked |-> disk["quatex"], complete |-> complete]
        BY DEF RunQueries
    <2>. QED
        BY <2>1
<1>3. GenOwn' /\ ScriptOwn'
    BY <1>1, SameFiles DEF QueryInv, GenOwn, ScriptOwn, ScriptLimit
<1>4. QueriesKnown'
    <2>1. \A cfg : QuatexFits(cfg)' = QuatexFits(cfg)
        BY DEF QuatexFits
    <2>. QED
        BY <1>1, <1>2, <2>1 DEF QueryInv, QueriesKnown
<1>. QED
    BY <1>3, <1>4 DEF QueryInv

\* What is formatted was answered.
LEMMA FormatQueries ==
    ASSUME Shapes, QueryInv, write_stats_to_json_file
    PROVE  QueryInv'
<1>1. /\ disk' = disk /\ stats # NoFile /\ stats' = NoFile
      /\ tne' = [asked |-> stats.asked, read |-> disk["quatex"], complete |-> stats.complete]
    BY DEF write_stats_to_json_file
<1>2. job'.tool = "format"
    BY DEF write_stats_to_json_file, Shapes
<1>3. tne'.asked = stats.asked
    BY <1>1
<1>4. QueriesKnown'
    <2>1. \A cfg : QuatexFits(cfg)' = QuatexFits(cfg)
        BY DEF QuatexFits
    <2>. QED
        BY <1>1, <1>3, <2>1 DEF QueryInv, QueriesKnown
<1>. QED
    BY <1>2, <1>4 DEF QueryInv, GenOwn, ScriptOwn

\* Every step of the tools keeps the invariant.
LEMMA NextQueries ==
    ASSUME Shapes, QueryInv, Next
    PROVE  QueryInv'
<1>1. CASE Tools /\ UNCHANGED <<stats, tne>>
    <2>1. CASE Pipelines
        <3>1. CASE Generate
            BY <1>1, <3>1, GenerateQueries
        <3>2. CASE Script
            BY <1>1, <3>2, ScriptQueries
        <3>3. CASE Kill
            BY <1>1, <3>3, KillQueries
        <3>4. CASE \/ StartPipeline \/ SetUpTrials \/ TrialsOver \/ Combine \/ WriteEquation \/ WriteJson
                   \/ \E i \in Trials : StartTrial(i) \/ FinishTrial(i)
            BY <1>1, <3>4, PipelineQueries
        <3>. QED
            BY <2>1, <3>1, <3>2, <3>3, <3>4 DEF Pipelines
    <2>2. CASE \/ StartIsolated \/ ListFiles \/ MaudesOver \/ JoinLogs \/ ParseByHand
               \/ \E k \in DOMAIN tasks : StartMaude(k) \/ FinishMaude(k)
        BY <1>1, <2>2, IsolatedQueries
    <2>. QED
        BY <1>1, <2>1, <2>2 DEF Tools
<1>2. CASE RunQueries
    BY <1>2, AnswerQueries
<1>3. CASE write_stats_to_json_file
    BY <1>3, FormatQueries
<1>. QED
    BY <1>1, <1>2, <1>3 DEF Next

\* Without a step it holds as before.
LEMMA UnchangedQueries ==
    ASSUME QueryInv, UNCHANGED vars
    PROVE  QueryInv'
<1>1. scenario' = scenario /\ disk' = disk /\ job' = job /\ tne' = tne /\ stats' = stats
    BY DEF vars
<1>2. GenOwn' /\ ScriptOwn'
    BY <1>1, SameFiles DEF QueryInv, GenOwn, ScriptOwn, ScriptLimit
<1>3. QueriesKnown'
    BY <1>1, KnownStay DEF QueryInv
<1>. QED
    BY <1>2, <1>3 DEF QueryInv

-----------------------------------------------------------------------------
(* What a query asks for, and what a run measures. *)

\* What a query of either file asks for.
LEMMA OfGenerate ==
    ASSUME NEW cfg, cfg.by = "generate", NEW q \in Queries(cfg)
    PROVE  /\ \E win \in 0 .. cfg.maxWin - 1 :
                q.start = 0 + cfg.delay /\ q.end = (win + 1) * cfg.window + cfg.delay
           /\ q.what = "client" => q.of \in cfg.clients
           /\ q.what = "vantage" => q.of \in cfg.vpts \X cfg.feats /\ ~cfg.perfOnly
<1>. DEFINE span(win) == get_prefix_start_end(cfg, win)
            Q(win, what, of) == [cumulative |-> TRUE, start |-> span(win)[1] + cfg.delay, end |-> span(win)[2] + cfg.delay,
                                 what |-> what, of |-> of]
            wins == 0 .. cfg.maxWin - 1
            system == {Q(win, "system", m) : win \in wins, m \in Measures}
            client == {Q(win, "client", c) : win \in wins, c \in cfg.clients}
            vantage == {Q(win, "vantage", vf) : win \in wins, vf \in cfg.vpts \X cfg.feats}
<1>1. q \in (IF cfg.confOnly THEN {} ELSE system \cup client) \cup (IF cfg.perfOnly THEN {} ELSE vantage)
    BY DEF Queries, all_queries, Measures
<1>2. \A win, what, of : /\ Q(win, what, of).start = 0 + cfg.delay
                         /\ Q(win, what, of).end = (win + 1) * cfg.window + cfg.delay
                         /\ Q(win, what, of).what = what /\ Q(win, what, of).of = of
    BY DEF get_prefix_start_end
<1>. HIDE DEF Q, wins
<1>3. \/ \E win \in wins, m \in Measures : q = Q(win, "system", m)
      \/ \E win \in wins, c \in cfg.clients : q = Q(win, "client", c)
      \/ ~cfg.perfOnly /\ \E win \in wins, vf \in cfg.vpts \X cfg.feats : q = Q(win, "vantage", vf)
    BY <1>1
<1>. QED
    BY <1>2, <1>3 DEF wins

\* The same for the script, whose spans may begin with their window.
LEMMA OfScript ==
    ASSUME NEW cfg, cfg.by = "script", NEW q \in Queries(cfg)
    PROVE  /\ \E win \in 0 .. cfg.maxWin - 1 :
                /\ q.start = cfg.delay + 0 \/ q.start = cfg.delay + win * cfg.window
                /\ q.end = cfg.delay + (win + 1) * cfg.window
           /\ q.what = "client" => q.of \in cfg.clients
           /\ q.what = "vantage" => q.of \in cfg.vpts \X cfg.feats /\ ~cfg.perfOnly
<1>. DEFINE Q(w, what, of) ==
                LET span == script_prefix_start_end(cfg, w[1], w[2])
                IN [cumulative |-> w[2], start |-> span[1], end |-> span[2], what |-> what, of |-> of]
            wins == 0 .. cfg.maxWin - 1
            spans == {w \in wins \X BOOLEAN : w[1] = 0 => w[2]}
            system == {Q(w, "system", m) : w \in spans, m \in Measures}
            client == {Q(w, "client", c) : w \in spans, c \in cfg.clients}
            vantage == {Q(w, "vantage", vf) : w \in spans, vf \in cfg.vpts \X cfg.feats}
<1>1. q \in (IF cfg.confOnly THEN {} ELSE system \cup client) \cup (IF cfg.perfOnly THEN {} ELSE vantage)
    BY DEF Queries, script_queries, Measures
<1>2. \A w \in spans : \A what, of :
        /\ Q(w, what, of).start = cfg.delay + 0 \/ Q(w, what, of).start = cfg.delay + w[1] * cfg.window
        /\ Q(w, what, of).end = cfg.delay + (w[1] + 1) * cfg.window
        /\ Q(w, what, of).what = what /\ Q(w, what, of).of = of /\ w[1] \in wins
    BY DEF script_prefix_start_end
<1>. HIDE DEF Q, spans
<1>3. \/ \E w \in spans, m \in Measures : q = Q(w, "system", m)
      \/ \E w \in spans, c \in cfg.clients : q = Q(w, "client", c)
      \/ ~cfg.perfOnly /\ \E w \in spans, vf \in cfg.vpts \X cfg.feats : q = Q(w, "vantage", vf)
    BY <1>1
<1>. HIDE DEF wins
<1>. QED
    BY <1>2, <1>3 DEF wins

\* The names of the vantage points in the files.
VantageIds(s, vpts) == {VantageId(s, v) : v \in vpts}

\* A main file has its arguments' measures and delay, a run file the main file's.
LEMMA MainFacts ==
    ASSUME NEW a, {"hcsDelay", "tgenDelay", "perf", "notgens"} \subseteq DOMAIN a, NEW tgen, NEW s, NEW limit, NEW vpts, NEW feats
    PROVE  LET main == MainFile(s, IF a.notgens THEN [a EXCEPT !.tgenDelay = tgen] ELSE a, limit, vpts, feats)
           IN /\ main.slimit = limit /\ main.hcsDelay = a.hcsDelay /\ main.perf = a.perf
              /\ main.vpts = VantageIds(s, vpts) /\ main.feats = feats
<1>. DEFINE b == IF a.notgens THEN [a EXCEPT !.tgenDelay = tgen] ELSE a
            main == MainFile(s, b, limit, vpts, feats)
<1>1. b.hcsDelay = a.hcsDelay /\ b.perf = a.perf
    OBVIOUS
<1>. HIDE DEF b
<1>2. /\ main.slimit = limit /\ main.hcsDelay = b.hcsDelay /\ main.perf = b.perf
      /\ main.vpts = VantageIds(s, vpts) /\ main.feats = feats
    BY DEF MainFile, VantageIds
<1>. HIDE DEF main
<1>. QED
    BY <1>1, <1>2 DEF main, b

\* The monitor opens its windows with the covert clients, if it is there.
LEMMA MonitorOpens ==
    ASSUME NEW main, NEW perf \in BOOLEAN, NEW slimit \in Nat \ {0}, NEW eq, main.perf = perf
    PROVE  LET run == RunFile(main, perf, slimit, eq)
           IN IF Monitor \in Monitors(main.perf) THEN run.windowDelay = run.hcsDelay
              ELSE run.windowDelay > run.slimit
<1>. DEFINE run == RunFile(main, perf, slimit, eq)
<1>1. run.slimit = slimit /\ run.hcsDelay = main.hcsDelay /\ run.windowDelay = IF perf THEN 2 * slimit ELSE main.hcsDelay
    BY DEF RunFile
<1>. HIDE DEF run
<1>2. Monitor \in Monitors(main.perf) <=> ~perf
    BY DEF Monitors
<1>3. 2 * slimit > slimit
    OBVIOUS
<1>. QED
    BY <1>1, <1>2, <1>3 DEF run

\* Up to its last window no time is asked for that is not of a window.
LEMMA WindowEnds ==
    ASSUME scenario \in Scenarios, NEW time \in Nat, NEW win \in 0 .. (time \div S.window) - 1
    PROVE  /\ (win + 1) * S.window <= time /\ win * S.window \in Nat /\ (win + 1) * S.window \in Nat
           /\ win # (time \div S.window) - 1 => (win + 1) * S.window + S.window <= time
<1>. DEFINE w == S.window
            n == time \div w
<1>1. w \in Nat \ {0} /\ n \in Nat /\ w * n <= time
    BY Windows
<1>2. win \in Nat /\ win + 1 <= n /\ (win # n - 1 => win + 2 <= n)
    BY <1>1
<1>. HIDE DEF w, n
<1>3. (win + 1) * w <= w * n /\ win * w \in Nat /\ (win + 1) * w \in Nat /\ w * n \in Nat
    BY <1>1, <1>2
<1>4. (win + 1) * w + w = (win + 2) * w
    BY <1>1, <1>2
<1>5. win # n - 1 => (win + 2) * w <= w * n
    BY <1>1, <1>2
<1>6. (win + 2) * w \in Nat
    BY <1>1, <1>2
<1>7. win # n - 1 => (win + 1) * w + w <= time
    BY <1>1, <1>3, <1>4, <1>5, <1>6
<1>8. (win + 1) * w <= time
    BY <1>1, <1>3
<1>. QED
    BY <1>3, <1>7, <1>8 DEF w, n

\* The run of a call of maude-hcs generate measures what the call's queries ask for.
LEMMA GenMeasures ==
    ASSUME scenario \in Scenarios, GenOwn, job.tool = "generate", job.step = "done", job.args.quatex
    PROVE  RunMeasures
<1>. DEFINE args == job.args
            main == disk["main"]
            run == disk["run"]
            cfg == disk["quatex"]
            vpts == filter_vpts(S, args)
            feats == filter_feats(args)
            limit == RunTime + Delay
<1>1. /\ args \in GenArgs /\ args.tgenDelay <= args.hcsDelay /\ main = GenMainFile /\ cfg = GenQuatexFile
      /\ run = RunFile(main, args.perf, limit, "all")
    BY DEF GenOwn, GenAfterParse, GenAfterMain, GenAfterQuatex
<1>2. /\ {"hcsDelay", "tgenDelay", "perf", "notgens"} \subseteq DOMAIN args
      /\ args.hcsDelay \in Nat /\ args.tgenDelay \in Nat /\ args.perf \in BOOLEAN
    BY <1>1, ArgsAssumption
<1>3. RunTime \in Nat \ {0}
    BY <1>1, GenQuatexFits
<1>4. Delay = args.hcsDelay
    BY <1>1, <1>2 DEF Delay
<1>5. /\ main.slimit = limit /\ main.hcsDelay = args.hcsDelay /\ main.perf = args.perf
      /\ main.vpts = VantageIds(S, vpts) /\ main.feats = feats
    <2>. DEFINE file == MainFile(S, IF args.notgens THEN [args EXCEPT !.tgenDelay = 2 * RunTime] ELSE args, limit, vpts, feats)
    <2>1. main = file
        BY <1>1 DEF GenMainFile
    <2>2. {"hcsDelay", "tgenDelay", "perf", "notgens"} \subseteq DOMAIN args
        BY <1>2
    <2>. HIDE DEF args, main, vpts, feats, limit
    <2>3. /\ file.slimit = limit /\ file.hcsDelay = args.hcsDelay /\ file.perf = args.perf
          /\ file.vpts = VantageIds(S, vpts) /\ file.feats = feats
        BY <2>2, MainFacts DEF file
    <2>. HIDE DEF file
    <2>. QED
        BY <2>1, <2>3
<1>6. /\ cfg.by = "generate" /\ cfg.delay = Delay /\ cfg.window = S.window /\ cfg.maxWin = RunTime \div S.window
      /\ cfg.clients = get_client_lst(S) /\ cfg.vpts = main.vpts /\ cfg.feats = main.feats
    BY <1>1, <1>5 DEF GenQuatexFile, QuatexFile, VantageIds
<1>7. cfg.perfOnly = args.perf
    <2>1. GenQuatexFile.perfOnly = args.perf
        BY Zenon DEF GenQuatexFile, QuatexFile
    <2>. QED
        BY <1>1, <2>1, Zenon
<1>8. run.slimit = limit /\ run.hcsDelay = main.hcsDelay
    BY <1>1 DEF RunFile
<1>9. limit \in Nat \ {0}
    BY <1>2, <1>3, <1>4
<1>. HIDE DEF args, main, run, cfg, vpts, feats, limit
<1>10. IF Monitor \in Monitors(main.perf) THEN run.windowDelay = run.hcsDelay ELSE run.windowDelay > run.slimit
    BY <1>1, <1>2, <1>5, <1>9, MonitorOpens
<1>11. ASSUME NEW q \in Queries(cfg)
       PROVE  /\ q.end <= run.slimit /\ q.end <= main.slimit /\ q.start >= run.hcsDelay
              /\ q.what = "client" => q.of \in {a.at : a \in PlacedBy(Output(job.tool, S))}
              /\ q.what = "vantage" => q.of \in main.vpts \X main.feats /\ ~main.perf
    <2>1. PICK win \in 0 .. cfg.maxWin - 1 : q.start = 0 + cfg.delay /\ q.end = (win + 1) * cfg.window + cfg.delay
        BY <1>6, OfGenerate
    <2>2. (win + 1) * S.window <= RunTime /\ (win + 1) * S.window \in Nat
        BY <1>3, <1>6, <2>1, WindowEnds
    <2>3. q.end <= limit /\ q.start >= args.hcsDelay
        <3>. DEFINE end == (win + 1) * S.window
        <3>1. end <= RunTime /\ end \in Nat /\ q.end = end + Delay /\ q.start = 0 + Delay
            BY <1>6, <2>1, <2>2
        <3>. HIDE DEF end
        <3>. QED
            BY <1>2, <1>3, <1>4, <3>1 DEF limit
    <2>4. q.what = "client" => q.of \in get_client_lst(S)
        BY <1>6, OfGenerate
    <2>5. q.what = "vantage" => q.of \in main.vpts \X main.feats /\ ~main.perf
        BY <1>5, <1>6, <1>7, OfGenerate
    <2>6. q.what = "client" => q.of \in {a.at : a \in PlacedBy(Output(job.tool, S))}
        BY <2>4, ClientPlaced
    <2>. QED
        BY <1>5, <1>8, <2>3, <2>5, <2>6
<1>. QED
    BY <1>10, <1>11 DEF RunMeasures, main, run, cfg

\* The same for a call of the script, but for its last window.
LEMMA ScriptMeasures ==
    ASSUME ScriptCovers, scenario \in Scenarios, ScriptOwn, job.tool = "script", job.step = "done", job.args.quatex
    PROVE  RunMeasures
<1>. DEFINE args == job.args
            main == disk["main"]
            run == disk["run"]
            cfg == disk["quatex"]
            vpts == ComboVantages(S, args.combo)
            feats == ComboFeatures(args.combo)
            limit == ScriptLimit(args.runTime)
<1>1. /\ args \in ScriptArgs /\ main = ScriptMainFile(S, args) /\ cfg = ScriptQuatexFile(S, args)
      /\ run = RunFile(main, args.perf, limit, args.combo)
    BY DEF ScriptOwn, ScriptAfterMain, ScriptAfterQuatex
<1>2. /\ {"hcsDelay", "tgenDelay", "perf", "notgens"} \subseteq DOMAIN args
      /\ args.hcsDelay \in Nat /\ args.runTime \in Nat /\ args.perf \in BOOLEAN
    BY <1>1, ArgsAssumption
<1>3. S.duration \in Nat \ {0} /\ S.window \in Nat \ {0}
    BY Windows
<1>4. args.hcsDelay <= S.window /\ (args.perf \/ args.runTime = 0 \/ args.runTime >= S.duration)
    BY <1>1 DEF ScriptCovers, S
<1>5. /\ main.slimit = S.duration /\ main.hcsDelay = args.hcsDelay /\ main.perf = args.perf
      /\ main.vpts = VantageIds(S, vpts) /\ main.feats = feats
    <2>. DEFINE file == MainFile(S, IF args.notgens THEN [args EXCEPT !.tgenDelay = 2 * S.duration] ELSE args,
                                 S.duration, vpts, feats)
    <2>1. main = file
        BY <1>1 DEF ScriptMainFile
    <2>2. {"hcsDelay", "tgenDelay", "perf", "notgens"} \subseteq DOMAIN args
        BY <1>2
    <2>. HIDE DEF args, main, vpts, feats, limit
    <2>3. /\ file.slimit = S.duration /\ file.hcsDelay = args.hcsDelay /\ file.perf = args.perf
          /\ file.vpts = VantageIds(S, vpts) /\ file.feats = feats
        BY <2>2, MainFacts
    <2>. HIDE DEF file
    <2>. QED
        BY <2>1, <2>3
<1>6. /\ cfg.by = "script" /\ cfg.delay = args.hcsDelay /\ cfg.window = S.window
      /\ cfg.maxWin = S.duration \div S.window
      /\ cfg.clients = get_client_lst(S) /\ cfg.vpts = main.vpts /\ cfg.feats = main.feats
    BY <1>1, <1>5 DEF ScriptQuatexFile, VantageIds
<1>7. cfg.perfOnly = args.perf
    <2>1. ScriptQuatexFile(S, args).perfOnly = args.perf
        BY Zenon DEF ScriptQuatexFile
    <2>. QED
        BY <1>1, <2>1, Zenon
<1>8. run.slimit = limit /\ run.hcsDelay = main.hcsDelay
    BY <1>1 DEF RunFile
<1>9. limit \in Nat \ {0} /\ limit >= S.duration
    BY <1>2, <1>3, <1>4, <1>5 DEF ScriptLimit
<1>. HIDE DEF args, main, run, cfg, vpts, feats, limit
<1>10. IF Monitor \in Monitors(main.perf) THEN run.windowDelay = run.hcsDelay ELSE run.windowDelay > run.slimit
    BY <1>1, <1>2, <1>5, <1>9, MonitorOpens
<1>11. ASSUME NEW q \in Queries(cfg)
       PROVE  /\ \/ q.end = cfg.delay + cfg.maxWin * cfg.window
                 \/ q.end <= run.slimit /\ q.end <= main.slimit
              /\ q.start >= run.hcsDelay
              /\ q.what = "client" => q.of \in {a.at : a \in PlacedBy(Output(job.tool, S))}
              /\ q.what = "vantage" => q.of \in main.vpts \X main.feats /\ ~main.perf
    <2>1. PICK win \in 0 .. cfg.maxWin - 1 :
                /\ q.start = cfg.delay + 0 \/ q.start = cfg.delay + win * cfg.window
                /\ q.end = cfg.delay + (win + 1) * cfg.window
        BY <1>6, OfScript
    <2>2. /\ win * S.window \in Nat /\ (win + 1) * S.window \in Nat
          /\ win # cfg.maxWin - 1 => (win + 1) * S.window + S.window <= S.duration
        BY <1>3, <1>6, <2>1, WindowEnds
    <2>3. q.start >= args.hcsDelay
        <3>. DEFINE begin == win * S.window
        <3>1. begin \in Nat /\ (q.start = args.hcsDelay + 0 \/ q.start = args.hcsDelay + begin)
            BY <1>6, <2>1, <2>2
        <3>. HIDE DEF begin
        <3>. QED
            BY <1>2, <3>1
    <2>4. ASSUME win = cfg.maxWin - 1 PROVE q.end = cfg.delay + cfg.maxWin * cfg.window
        <3>1. cfg.maxWin \in Nat
            BY <1>3, <1>6, Windows
        <3>2. win + 1 = cfg.maxWin
            BY <2>1, <2>4, <3>1
        <3>. QED
            BY <2>1, <3>2
    <2>5. ASSUME win # cfg.maxWin - 1 PROVE q.end <= run.slimit /\ q.end <= main.slimit
        <3>. DEFINE end == (win + 1) * S.window
        <3>1. end \in Nat /\ q.end = args.hcsDelay + end /\ end + S.window <= S.duration
            BY <1>6, <2>1, <2>2, <2>5
        <3>. HIDE DEF end
        <3>. QED
            BY <1>2, <1>3, <1>4, <1>5, <1>8, <1>9, <3>1
    <2>6. q.what = "client" => q.of \in get_client_lst(S)
        BY <1>6, OfScript
    <2>7. q.what = "client" => q.of \in {a.at : a \in PlacedBy(Output(job.tool, S))}
        BY <2>6, ClientPlaced
    <2>8. q.what = "vantage" => q.of \in main.vpts \X main.feats /\ ~main.perf
        BY <1>5, <1>6, <1>7, OfScript
    <2>. QED
        BY <1>5, <1>8, <2>3, <2>4, <2>5, <2>7, <2>8
<1>. QED
    BY <1>10, <1>11 DEF RunMeasures, main, run, cfg

\* Queries that were answered are put apart, and those of an adversary with their kind.
LEMMA InvResults ==
    ASSUME QueryInv
    PROVE  ResultsFound
<1>. SUFFICES ASSUME job.tool = "format", tne.asked = tne.read
              PROVE  LET queries == Queries(tne.read)
                     IN /\ Cardinality({Place(q) : q \in queries}) = Cardinality(queries)
                        /\ \A q \in queries : q.what = "vantage" <=> Place(q)[1][1] = "adv"
    BY DEF ResultsFound
<1>1. QuatexFits(tne.read)
    BY DEF QueryInv, QueriesKnown
<1>. DEFINE queries == Queries(tne.read)
<1>2. IsFiniteSet(queries) /\ \A q \in queries : Asked(q)
    BY <1>1, QueriesFit
<1>. HIDE DEF queries
<1>3. /\ Cardinality({Place(q) : q \in queries}) = Cardinality(queries)
      /\ \A q \in queries : q.what = "vantage" <=> Place(q)[1][1] = "adv"
    BY <1>2, PlacesFit
<1>. QED
    BY <1>3 DEF queries

\* Hence the two together.
LEMMA InvAnswerable ==
    ASSUME job.tool = "script" => ScriptCovers, scenario \in Scenarios, QueryInv
    PROVE  QueriesAnswerable
<1>1. RunMeasures
    <2>1. CASE job.step = "done" /\ job.tool = "generate" /\ job.args.quatex
        BY <2>1, GenMeasures DEF QueryInv
    <2>2. CASE job.step = "done" /\ job.tool = "script" /\ job.args.quatex
        BY <2>2, ScriptMeasures DEF QueryInv
    <2>. QED
        BY <2>1, <2>2 DEF RunMeasures
<1>2. ResultsFound
    BY InvResults
<1>. QED
    BY <1>1, <1>2 DEF QueriesAnswerable

\* Whatever tools run in whatever order and stop wherever they do, what maude-hcs generate
\* asks for can be answered by the run it writes, and every answer that is formatted is
\* found again.  The same holds of the script, if it is called as ScriptCovers says.
THEOREM QueriesAnswered == Spec => []((job.tool = "script" => ScriptCovers) => QueriesAnswerable)
<1>1. EquationInv /\ QueryInv /\ [Next]_vars => (EquationInv /\ QueryInv)'
    <2>1. ASSUME EquationInv, QueryInv, Next PROVE (EquationInv /\ QueryInv)'
        BY <2>1, NextKeeps, NextQueries DEF EquationInv
    <2>2. ASSUME EquationInv, QueryInv, UNCHANGED vars PROVE (EquationInv /\ QueryInv)'
        BY <2>2, Unchanged, UnchangedQueries DEF vars, invVars
    <2>. QED
        BY <2>1, <2>2
<1>2. EquationInv /\ QueryInv => ((job.tool = "script" => ScriptCovers) => QueriesAnswerable)
    BY InvAnswerable DEF EquationInv, Shapes
<1>. QED
    BY <1>1, <1>2, InitEquationInv, InitQueryInv, PTL DEF Spec

=============================================================================
